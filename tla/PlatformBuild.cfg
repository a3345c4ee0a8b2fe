SPECIFICATION Spec
CONSTANTS
  isoA = isoA
  isoB = isoB
  isoEsd = isoEsd
  custom = custom
  NoIso = NoIso
  NoInstaller = NoInstaller
  Torn = Torn
  MaxBuilds = 3
  Requests <- MCRequests
  Media <- MCMedia
  Components <- MCComponents
  Available <- MCAvailable
  Mods <- MCMods
INVARIANTS TypeOK FinishedHoldsRequest BuiltFromGivenIso RetryIsClean
CHECK_DEADLOCK FALSE

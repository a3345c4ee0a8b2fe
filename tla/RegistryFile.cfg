SPECIFICATION Spec
CONSTANTS
  isoA = isoA
  isoB = isoB
  isoEsd = isoEsd
  custom = custom
  NoIso = NoIso
  NoInstaller = NoInstaller
  Torn = Torn
  MaxBuilds = 1
  Requests <- MCRequests
  Media <- MCMedia
  Components <- MCComponents
  Available <- MCAvailable
  Mods <- MCMods
INVARIANT AllModificationsApplied
CHECK_DEADLOCK FALSE

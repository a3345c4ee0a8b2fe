SPECIFICATION Spec
CONSTANTS
  Apis <- MCApis
  Undocs <- MCUndocs
  Syscalls <- MCSyscalls
  DllOf <- MCDllOf
  Called <- MCCalled
  Impls = {"impl", "other"}
  MaxBridges = 2
  MaxProcesses = 2
INVARIANTS TypeOK ReadyWhenRunning ForwardsOnlyWhenRunning
PROPERTY FirstRegistrationAnswers

SPECIFICATION Spec
CHECK_DEADLOCK FALSE
CONSTANTS
    BtrfsDrivers = {"btrfs"}
    QuibbleDrivers = {"quibble"}
    FilesOf <- MCFilesOf
    Settings <- MCSettings
    MaxComponents = 2
    NHives = 2
    MaxInstalls = 2
    MaxCalls = 3
INVARIANTS
    TypeOK
    ReportedIsCommitted
    ReleasesWhatItMounts
    
    BootEntryHasItsFiles
PROPERTIES
    BrokenCopyIsFinal

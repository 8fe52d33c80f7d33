SPECIFICATION Spec
CONSTANTS
    Workers = 2
    NumFiles = 2
    MaxCrashes = 1
    MaxFailures = 1
    Absent = Absent
    NumImages = 3
    Steps = 3
    MaxVersion = 2
INVARIANTS
    WholeOnDisk
    CompleteStaysComplete
PROPERTIES
    NoLostUpdate
    LockStepSpec

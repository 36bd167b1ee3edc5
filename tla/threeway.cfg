SPECIFICATION MergeSpec
CONSTANTS
    MaxLines = 4
    MaxCells = 9
    Texts <- AllTexts
    Inputs <- AllTrees
    Owned <- OwnedKinds
    Unqualified <- OddOuters
    ExtensionNames <- Extensions
    Absent = Absent
INVARIANTS
    TextIsWoven
    ObjectsAreWoven
\* A call returns once.
CHECK_DEADLOCK FALSE

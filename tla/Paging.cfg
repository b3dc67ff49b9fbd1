SPECIFICATION Spec
CONSTANTS
    Ids = {1, 2, 3, 4}
    Stacks = {"go", "python", "ts"}
    Limits <- MCLimits
    Absent = Absent
    Text = Text
    All = All
    Refused = Refused
    Half = 4
    Wide = 16
    MaxPages = 6
INVARIANTS
    Inv
    NonePassedOver
    Complete
PROPERTIES
    ReadsEnd
CHECK_DEADLOCK FALSE

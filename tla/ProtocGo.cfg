SPECIFICATION Spec
CONSTANTS
    Schemas <- MCSchemas
    MaxCalls = 4
INVARIANTS
    TypeOK
    NamesApart
    EmitsReachable
    SearchIsReachability
    EveryNameDeclared
    DeclaredTwiceApart
    ImportsAreMentions
    RequestsRead
PROPERTIES
    GeneratesAll
CHECK_DEADLOCK FALSE

SPECIFICATION FairSpec
CONSTANTS
    r1 = r1
    r2 = r2
    Replicas = {r1, r2}
    Files = {1, 2, 3}
    Image <- OldAndNew
    Broken = {3}
    MaxTries = 2
    MaxFaults = 2
INVARIANTS
    Inv
    ServesMigrated
PROPERTIES
    Sequential
    AllServe

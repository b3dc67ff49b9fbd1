SPECIFICATION GoSpec
CONSTANTS
    users = users
    orders = orders
    a = a
    b = b
    text = text
    bigint = bigint
    ab = ab
    Tables = {users, orders}
    Cols = {a, b}
    Types = {text, bigint}
    Casts <- BigintToText
    IdxNames = {ab}
    NoTable = NoTable
    NoCol = NoCol
    NoIdx = NoIdx
    EntitySchemas <- TwoTables
    Rank <- Order
    MaxTime = 3
    MaxStops = 1
    MaxSoon = 1
INVARIANTS
    GoInv
    DatabaseIsSnapshot
    GoFailuresKnown
PROPERTY
    GoSnapshotNotAhead

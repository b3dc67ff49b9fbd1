SPECIFICATION PySpec
CONSTANTS
    users = users
    orders = orders
    a = a
    b = b
    text = text
    bigint = bigint
    Tables = {users, orders}
    Cols = {a, b}
    Types = {text, bigint}
    Casts <- BigintToText
    IdxNames = {}
    NoTable = NoTable
    NoCol = NoCol
    NoIdx = NoIdx
    EntitySchemas <- TwoTables
    Rank <- Order
    MaxTime = 4
    MaxStops = 0
    MaxSoon = 0
INVARIANT
    PyEveryFileApplies

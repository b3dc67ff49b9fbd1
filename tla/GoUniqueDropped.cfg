SPECIFICATION GoSpec
CONSTANTS
    users = users
    orders = orders
    a = a
    b = b
    text = text
    bigint = bigint
    ab = ab
    Tables = {users, orders}
    Cols = {a, b}
    Types = {text, bigint}
    Casts <- BigintToText
    IdxNames = {ab}
    NoTable = NoTable
    NoCol = NoCol
    NoIdx = NoIdx
    EntitySchemas <- TwoTables
    Rank <- Order
    MaxTime = 4
    MaxStops = 0
    MaxSoon = 0
INVARIANT
    GoEveryFileApplies

SPECIFICATION HSpec
CONSTANTS
    u1 = u1
    u2 = u2
    u3 = u3
    a1 = a1
    a2 = a2
    n1 = n1
    n2 = n2
    c1 = c1
    c2 = c2
    Ids = {u1, u2, u3}
    Addrs = {a1, a2}
    Names = {n1}
    Times = {1, 2}
    NoRow = NoRow
    NoTime = NoTime
    BadId = BadId
    BadAddr = BadAddr
    BadName = BadName
    Clients = {c1, c2}
    Requests <- All
    BatchSize = 2
SYMMETRY Sym
INVARIANT
    Inv
PROPERTIES
    Contract
    CreatedAtKept

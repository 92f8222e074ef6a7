SPECIFICATION Spec
CHECK_DEADLOCK FALSE
CONSTANTS
    p1 = p1  p2 = p2
    s1 = s1  s2 = s2  s3 = s3
    x1 = x1  x2 = x2  x3 = x3  x4 = x4
    k1 = k1  k2 = k2
    Private = Private
    None = None
    Procs = {p1, p2}
    Sets = {s1, s2, s3}
    Owner <- SetOwner
    Inodes = {x1, x2, x3, x4}
    KeyOf <- InodeKey
    MaxSegs = 3
INVARIANTS
    ReadsItsOwn
    KeyFinds

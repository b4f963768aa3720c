\* Commands on the files of one agent, in any order and at the same time.
CONSTANTS
    Proc = {p1, p2, p3}
    Earlier = Earlier
    Absent = Absent
    Empty = Empty
    None = None
SPECIFICATION Spec
SYMMETRY Symmetry
INVARIANTS
    ServedPairIsWhole
    InviteIsHonoured
    RestartKeepsIdentity
    AuthorizedIsKept
CHECK_DEADLOCK FALSE

\* Two adds and two commands on the files of one client, in any order.
CONSTANTS
    box = box
    lab = lab
    hut = hut
    real = real
    other = other
    authority = authority
    Name = {box, lab, hut}
    Cert = {real, other, authority}
    Rooted = {authority}
    Invite <- Invites
    Adder = {a1, a2}
    User = {u1, u2}
    Conn = {k1, k2}
    Old = Old
    Casts <- TwoAtATime
    KnownBefore <- Recorded
    Before <- Configurations
    Empty = Empty
    Torn = Torn
    Unpinned = Unpinned
    None = None
SPECIFICATION Spec
SYMMETRY Symmetry
INVARIANTS
    InvitedIsPinned
    ConfigIsWhatWasAdded
    TrustHolds
CHECK_DEADLOCK FALSE

\* An init that ends between making the token file and writing it, and is run again.
CONSTANTS
    Proc = {p1, p2, p3}
    Earlier = Earlier
    Absent = Absent
    Empty = Empty
    None = None
SPECIFICATION Spec
SYMMETRY Symmetry
INVARIANT InitMeansToken
CHECK_DEADLOCK FALSE

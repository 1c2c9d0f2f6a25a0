CONSTANTS
    Inst = {i1, i2}
    Heights = {1, 2}
    MaxTime = 6
    Phys <- MCPhys
    Zone = 2
    Skew = 0
    Deadline = 1
    None = None
SPECIFICATION Spec
INVARIANTS LatestReadable ReadersSafe
SYMMETRY Symmetry

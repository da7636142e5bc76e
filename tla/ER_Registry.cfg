\* Opens of a may fail, b is deleted or renamed, c and d only compete.
SPECIFICATION Spec
SYMMETRY Symmetry
CONSTANTS
    None = None
    Dirs = {a, b, c, d}
    Insts = {i1, i2, i3, i4}
    Users = {u1, u2}
    MaxOpen = 1
    PinMax = 1
    Threshold = 2
    Failing = {a}
    Closable = {b}
INVARIANTS  NeverClosedInUse
\* the process ends after closeAllEmbedded
CHECK_DEADLOCK FALSE

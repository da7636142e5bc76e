\* Three processes, three lock files, two deaths: everything but the raced steal.
SPECIFICATION Spec
CONSTANTS
    p1 = p1  p2 = p2  p3 = p3
    Nobody = Nobody
    Procs = {p1, p2, p3}
    MaxCreates = 3
    MaxDeaths = 2
SYMMETRY ProcSymmetry
INVARIANT LockKept
\* callers stop asking at the bound
CHECK_DEADLOCK FALSE

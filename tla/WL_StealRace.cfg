\* Two live processes find the lock of a dead one.
SPECIFICATION Spec
CONSTANTS
    p1 = p1  p2 = p2  p3 = p3
    Nobody = Nobody
    Procs = {p1, p2, p3}
    MaxCreates = 3
    MaxDeaths = 1
INVARIANT MutualExclusion
\* callers stop asking at the bound
CHECK_DEADLOCK FALSE

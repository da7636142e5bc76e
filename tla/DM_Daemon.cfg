CONSTANTS
    w1 = w1
    w2 = w2
    j1 = j1
    j2 = j2
    j3 = j3
    Workspaces = {w1, w2}
    Jobs = {j1, j2, j3}
    Modes = {"embedded", "remote"}
    Wedged = {w2}
    MaxRestarts = 2
    Closers = {"boot", "shutdown"}
    Configs <- MCConfigs
SPECIFICATION FairSpec
INVARIANTS DaemonOK GuardsMatchRuns NoTearDown SidecarOK
 
CHECK_DEADLOCK FALSE

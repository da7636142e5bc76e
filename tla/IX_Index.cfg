\* Two workspaces of one repository, the command line and the daemon, full and
\* resuming runs of the repository and of a directory, one edit and one fault.
SPECIFICATION Spec
CONSTANTS
    f = f  g = g  whole = whole  sub = sub
    w1 = w1  w2 = w2  cli = cli  daemon = daemon
    None = None
    Order <- WalkOrder
    Calls <- EachOther
    Runs = {cli, daemon}
    CliRuns = {cli}
    Workspaces = {w1, w2}
    Roots = {whole, sub}
    Walk <- WholeAndSub
    Requests <- Several
    BatchSize = 3
    MaxEdits = 1
    MaxFaults = 1
INVARIANT MarksAreHonest
 

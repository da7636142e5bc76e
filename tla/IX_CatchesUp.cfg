\* One workspace, under fairness, with two edits and two faults.
SPECIFICATION FairSpec
CONSTANTS
    f = f  g = g  whole = whole  sub = sub
    w1 = w1  w2 = w2  cli = cli  daemon = daemon
    None = None
    Order <- WalkOrder
    Calls <- EachOther
    Runs = {cli, daemon}
    CliRuns = {cli}
    Workspaces = {w1}
    Roots = {whole, sub}
    Walk <- WholeAndSub
    Requests <- OneWorkspace
    BatchSize = 3
    MaxEdits = 2
    MaxFaults = 2
PROPERTY CatchesUp

\* The ledger of two developers, dev who merges and eve who rebases, with entries x
\* and y, each written once, of which y supersedes x, and one pre-commit hook killed;
\* and the other parts, each on an instance of its own.
SPECIFICATION TeamSpec
CONSTANTS
    x = x  y = y  dev = dev  eve = eve
    Clones = {dev, eve}
    Devs = {dev, eve}
    Rebasers = {eve}
    Ids = {x, y}
    Replacement <- XByY
    MaxVersion = 1
    MaxHookKills = 1
    Kinds = {"json", "inputs", "toml", "hook", "global"}
    Writers = {p, q}
    Theirs = {"f", "g"}
    MaxConnects = 2
    MaxTouches = 1
    Repos = {"r", "q"}
    PathBegins <- PathsAlike
    Commands <- SomeCommands
    MaxCommands = 3
    MaxLines = 1
    Members <- ThreeRepos
    Basename <- Basenames
    Package <- Packages
    Estates <- TheEstates
    Machines <- TheMachines
    ExportCap = 1
    MaxBadWrites = 1
    MaxLoads = 2
    Approvals = {"r"}
    Works = {"w"}
    Backing <- WorkBacked
    PushTries = 2
    MaxCycles = 2
    MaxAppends = 1
    MaxDevPushes = 1
    MaxMishaps = 1
    AppChildren = {"child"}
    MaxFaults = 1
    NoOne = NoOne
INVARIANTS LedgerOK ConfigsSafe 
PROPERTIES GrowsOnly WiringKept  DesktopHolds PortIsPassedOn

\* Three texts through a queue of one, so that pushes overflow and requeues exceed
\* the cap; x fills a batch, the store may reject y, workspace b never fails.
SPECIFICATION BesideFairSpec
CONSTANTS
    a = a  b = b  x = x  y = y  z = z  tick = tick  drain = drain
    None = None
    Workspaces = {a, b}
    Ids = {x, y, z}
    Flushers = {tick, drain}
    Requests <- ThreeTexts
    MaxPerRequest = 1
    Cap = 1
    Batch = 2
    Chunks <- LargeX
    ChunkBudget = 2
    Threshold = 2
    FoldEvery = 2
    ClaimFloor = 1
    MaxKills = 0
    MaxWrites = 1
    WithShutdown = FALSE
    Broken = {}
    Healthy = {b}
    Rejected = {y}
    Sides = {"queue"}
    home = home  repo = repo  sub = sub  app = app  part = part  deps = deps
    lib = lib  link = link  own = own
    appSlug = appSlug  repoSlug = repoSlug
    Folders = {home, repo, sub, app, part, deps, lib, link, own}
    Parent <- TheTree
    Real <- LinkToLib
    Home = home
    AtlasHome = own
    Roots = {app}
    Marked = {repo, app, part, lib}
    Vendor = {deps}
    Ambiguous = {app}
    Wired = {repo}
    Git = {repo, app, lib}
    Slugs = {appSlug, repoSlug}
    Origin <- RemoteOfApp
    Name <- NameOfApp
    Sessions = {"one", "two"}
    OpenedIn <- OneInEach
    Uses = {"commit", "session-end"}
    Rows <- SomeRows
    Calls = 2
    Places = {sub, part, link}
    MaxStarts = 2
    MaxChanges = 2
    NoWorkspace = NoWorkspace
 
PROPERTY QueueDrains

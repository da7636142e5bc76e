\* Three texts in two workspaces stored once each, two flushers, one kill, a
\* shutdown; no write is given up on (VQ_Cap has those).  Beside the queue the hooks:
\* two tool calls of two sessions, with two starts of the daemon and two commands.
SPECIFICATION BesideSpec
SYMMETRY FlusherSymmetry
CONSTANTS
    a = a  b = b  x = x  y = y  z = z  tick = tick  drain = drain
    None = None
    Workspaces = {a, b}
    Ids = {x, y, z}
    Flushers = {tick, drain}
    Requests <- ThreeTexts
    MaxPerRequest = 1
    Cap = 3
    Batch = 2
    Chunks <- SmallTexts
    ChunkBudget = 4
    Threshold = 2
    FoldEvery = 1
    ClaimFloor = 1
    MaxKills = 1
    MaxWrites = 0
    WithShutdown = TRUE
    Broken = {}
    Healthy = {}
    Rejected = {}
    Sides = {"queue", "hooks"}
    home = home  repo = repo  sub = sub  app = app  part = part  deps = deps
    lib = lib  link = link  own = own
    appSlug = appSlug  repoSlug = repoSlug
    Folders = {home, repo, sub, app, part, deps, lib, link, own}
    Parent <- TheTree
    Real <- LinkToLib
    Home = home
    AtlasHome = own
    Roots = {app}
    Marked = {repo, app, part, lib}
    Vendor = {deps}
    Ambiguous = {app}
    Wired = {repo}
    Git = {repo, app, lib}
    Slugs = {appSlug, repoSlug}
    Origin <- RemoteOfApp
    Name <- NameOfApp
    Sessions = {"one", "two"}
    OpenedIn <- OneInEach
    Uses = {"commit", "session-end"}
    Rows <- SomeRows
    Calls = 2
    Places = {sub, part, link}
    MaxStarts = 2
    MaxChanges = 2
    NoWorkspace = NoWorkspace
INVARIANTS QueueOK NothingVanishes  HooksHeard
PROPERTIES  FoldersKnown

------------------------------ MODULE HookCalls ------------------------------
(* The hooks of coding agents: the client that runs on every tool call         *)
(* (scripts/atlas-hook.mjs), the daemon's two endpoints for it                  *)
(* (src/mcp/server.ts), and what the daemon knows of a folder: the registries   *)
(* on disk, the resolver's cache of them, and what it onboards by itself.      *)
EXTENDS Integers, FiniteSets, SequencesExt

CONSTANTS
    Folders, Parent,       \* the tree; the root is its own parent
    Real,                  \* the folder that a path names, through symbolic links
    Home, AtlasHome,
    Roots,                 \* the allowlist of ATLAS_INDEX_ROOTS; none: permissive
    Marked,                \* folders with a .git or a manifest file of their own
    Vendor, Ambiguous,     \* by name: node_modules, vendor, ...; env, build, dist
    Wired,                 \* folders with a hook of their own, which names a workspace
    Git,                   \* of these the work trees
    Slugs,                 \* the names of workspaces
    Origin, Name,          \* the slugs of a work tree's remote, if any, and of a folder's name
    Sessions, OpenedIn,    \* agent sessions, each opened in a folder
    Uses,                  \* what agents do: the hook's event and the tool's input
    Rows,                  \* what users' commands name: a workspace and a folder
    Places,                \* where agents work: a bound, like the next two
    Calls,                 \* tool calls, which are numbered
    MaxStarts, MaxChanges, \* starts of the daemon, commands of users
    NoWorkspace

ASSUME HooksAssumption ==
    /\ Parent \in [Folders -> Folders] /\ Real \in [Folders -> Folders]
    /\ {Home, AtlasHome} \subseteq Folders
    /\ Roots \cup Marked \cup Vendor \cup Ambiguous \cup Wired \subseteq Folders
    /\ Rows \subseteq [workspace : Slugs, folder : Folders]
    /\ Git \subseteq Marked /\ Name \in [Folders -> Slugs]
    /\ Origin \in [Folders -> Slugs \cup {NoWorkspace}] /\ OpenedIn \in [Sessions -> Folders]
    /\ NoWorkspace \notin Slugs /\ {Calls, MaxStarts, MaxChanges} \subseteq Nat
    /\ Places \subseteq Folders /\ \A f \in Folders : Real[Real[f]] = Real[f]

\* One tool call runs the hook of the user's settings and the one of the repository's.
Who == {"global", "local"}
Hooks == (1 .. Calls) \X Who

VARIABLES
    global,                \* the user's settings hold the machine-wide hook
    toolCall,              \* the tool calls: session, folder and use
    hook,                  \* of a hook process: how far its client and its request are,
                           \* what it was answered, with which lines, and what it told
    writable, markers,     \* the temporary directory: the warnings given, by session
    daemon, starts,        \* down, or how it answers a hook: well, or it rejects it
    projects,              \* the registries on disk: the rows, the oldest first
    cached,                \* the resolver's index: none, or the rows it was built from
    missed, changes,       \* history: the rows written elsewhere since; commands so far
    asked,                 \* what `atlas index` still asks of the daemon
    announced,             \* the workspaces onboarded in this life of the daemon
    onboarded,             \* history of this life: the workspaces, with their folders
    captured               \* the hooks whose transcript the verbatim queue was given

client == <<toolCall, hook, writable, markers>>
registry == <<projects, missed, changes, asked>>
memory == <<cached, announced, onboarded>>
hookVars == <<global, client, daemon, starts, registry, memory, captured>>

Row(w, f) == [workspace |-> w, folder |-> f]
Unborn == [client |-> "idle", request |-> "none", answer |-> "none", lines |-> {}, told |-> {}]

HooksInit ==
    /\ global = TRUE
    /\ toolCall = <<>> /\ hook = [h \in Hooks |-> Unborn]
    /\ writable \in BOOLEAN /\ markers = {}
    /\ daemon = "down" /\ starts = 0
    /\ projects = <<>> /\ cached = {} /\ missed = {} /\ changes = 0 /\ asked = {}
    /\ announced = {} /\ onboarded = {} /\ captured = {}

-----------------------------------------------------------------------------
(* Folders.                                                                   *)

\* A folder and those it is in.
Above ==
    LET up[f \in Folders] == IF Parent[f] = f THEN {f} ELSE {f} \cup up[Parent[f]]
    IN  [f \in Folders |-> up[f]]

\* What the home directory has is the machine-wide hook; above it there is none.
ASSUME WiredAssumption == Wired \cap Above[Home] = {}

\* The workspace that a folder is onboarded into: by the remote of its work tree, or
\* else by its own name.
Slug(f) ==
    LET trees == Above[f] \cap Git
        remote == {Origin[g] : g \in {g \in trees : trees \subseteq Above[g]}} \ {NoWorkspace}
    IN  IF remote = {} THEN Name[f] ELSE CHOOSE w \in remote : TRUE

\* A folder on the way up to the home directory, which is not asked, has its own hook.
HasLocalAtlasHook(f) ==
    \E g \in Above[f] : g \in Wired /\ ~(Home \in Above[f] /\ g \in Above[Home])

\* The row that owns a folder: the deepest, and of these the one written first.
Owner(rows, f) ==
    LET over == {i \in DOMAIN rows : Real[rows[i].folder] \in Above[Real[f]]}
        depth(i) == Cardinality(Above[Real[rows[i].folder]])
    IN  IF over = {} THEN NoWorkspace
        ELSE rows[CHOOSE i \in over :
                     \A j \in over : depth(j) < depth(i) \/ (depth(j) = depth(i) /\ i <= j)].workspace

\* Below a vendored or generated folder; the ambiguous names are one only in a project.
InsideExcludedContainer(f) ==
    \E g \in Above[f] :
        \/ g \in Vendor
        \/ g \in Ambiguous /\ Parent[g] # g /\ Above[Parent[g]] \cap Marked # {}

ScanPathAllowed(f) == Roots = {} \/ Above[Real[f]] \cap Roots # {}

RealProject(f) ==
    /\ ScanPathAllowed(f)
    /\ AtlasHome \notin Above[f]
    /\ ~InsideExcludedContainer(f)
    /\ f \in Marked

\* The three tiers of a folder, as the resolver's index has it.
ClassifyProjectPath(rows, f) ==
    IF Owner(rows, f) # NoWorkspace THEN 1 ELSE IF RealProject(Real[f]) THEN 2 ELSE 3

\* The index is built from disk when there is none.
Index == IF cached = {} THEN projects ELSE CHOOSE rows \in cached : TRUE

-----------------------------------------------------------------------------
(* The registries: of the daemon's tools, and of commands in other processes.  *)

Registered(row) == row \in ToSet(projects)

Record(row) == projects' = IF Registered(row) THEN projects ELSE Append(projects, row)
Invalidate == cached' = {} /\ missed' = {}

\* The rows that are not in S: of the first n, for every n.
Without(rows, S) ==
    LET left[n \in 0 .. Len(rows)] ==
            IF n = 0 THEN <<>> ELSE IF rows[n] \in S THEN left[n - 1] ELSE Append(left[n - 1], rows[n])
    IN  left[Len(rows)]

\* registerProject, and the invalidation, which is for new rows alone.
RegisterProject(row) ==
    /\ Record(row)
    /\ IF Registered(row) THEN UNCHANGED <<cached, missed>> ELSE Invalidate

Commanded == changes < MaxChanges /\ changes' = changes + 1
Tool == daemon = "ok" /\ UNCHANGED <<global, client, daemon, starts, announced, onboarded, captured>>

AddProject(row) ==
    /\ Tool /\ Commanded /\ ScanPathAllowed(row.folder)
    /\ Record(row) /\ Invalidate
    /\ UNCHANGED asked

(* Mutant: the registry is rewritten and the index is kept. *)
RemoveProjectAlone(row) ==
    /\ Tool /\ Commanded
    /\ projects' = Without(projects, {row})
    /\ UNCHANGED <<asked, cached, missed>>

RemoveProject(row) ==
    /\ Tool /\ Commanded
    /\ projects' = Without(projects, {row})
    /\ Invalidate
    /\ UNCHANGED asked

DeleteWorkspace(w) ==
    /\ Tool /\ Commanded
    /\ projects' = Without(projects, [workspace : {w}, folder : Folders])
    /\ Invalidate
    /\ UNCHANGED asked

\* runIndexTool, for an agent or for a command.
ToolIndexes(row) ==
    /\ Tool /\ ScanPathAllowed(row.folder)
    /\ \/ Commanded /\ UNCHANGED asked
       \/ row \in asked /\ asked' = asked \ {row} /\ UNCHANGED changes
    /\ RegisterProject(row)

\* `atlas index`: the command's own process registers the folder, and has no index
\* to drop but its own; then it asks the daemon.
CliRegisters(row) ==
    /\ Commanded
    /\ Record(row)
    /\ missed' = IF cached = {} \/ Registered(row) THEN missed ELSE missed \cup {row}
    /\ asked' = asked \cup {row}
    /\ UNCHANGED <<global, client, daemon, starts, memory, captured>>

\* The daemon is unreachable, or refuses a path outside of the allowlist.
CliGoesOn(row) ==
    /\ row \in asked /\ (daemon # "ok" \/ ~ScanPathAllowed(row.folder))
    /\ asked' = asked \ {row}
    /\ UNCHANGED <<global, client, daemon, starts, projects, missed, changes, memory, captured>>

\* atlas wire install and uninstall --global; agents that run do not see it.
InstallGlobalWire ==
    /\ Commanded /\ toolCall = <<>>
    /\ global' = TRUE
    /\ UNCHANGED <<client, daemon, starts, projects, missed, asked, memory, captured>>

UninstallGlobalWire ==
    /\ Commanded /\ toolCall = <<>>
    /\ global' = FALSE
    /\ UNCHANGED <<client, daemon, starts, projects, missed, asked, memory, captured>>

-----------------------------------------------------------------------------
(* The client.                                                                *)

\* A hook that is in the settings, and does not leave the call to that of a wired
\* repository: the machine-wide one is silent there.
Speaks(who, s, cwd) ==
    IF who = "global" THEN global /\ ~HasLocalAtlasHook(cwd) ELSE OpenedIn[s] \in Wired

\* The tail of a transcript can be read or it cannot.
Legible(use) == IF use = "session-end" THEN BOOLEAN ELSE {TRUE}

\* An agent uses a tool in a folder at or below the one of its session, and the hooks
\* post what it does; of a session's end nothing when its transcript cannot be read.
ToolCall(s, cwd, use) ==
    /\ Len(toolCall) < Calls /\ OpenedIn[s] \in Above[cwd]
    /\ toolCall' = Append(toolCall, [session |-> s, cwd |-> cwd, use |-> use])
    /\ \E legible \in Legible(use) :
          LET posts(h) == h[1] = Len(toolCall) + 1 /\ Speaks(h[2], s, cwd) /\ legible
              sent == IF daemon = "down" THEN "lost" ELSE "sent"
          IN  hook' = [h \in Hooks |-> IF posts(h) THEN [hook[h] EXCEPT !.client = "waits", !.request = sent]
                                       ELSE hook[h]]
    /\ UNCHANGED <<global, writable, markers, daemon, starts, registry, memory, captured>>

Use(h) == toolCall[h[1]].use
Cwd(h) == toolCall[h[1]].cwd
Session(h) == toolCall[h[1]].session
Says(h, read, lines) ==
    hook' = [hook EXCEPT ![h] = [@ EXCEPT !.client = "over", !.answer = read, !.lines = {}, !.told = lines]]
SaysNothing(h) == Says(h, "none", {})
ClientOnly == UNCHANGED <<global, toolCall, writable, daemon, starts, registry, memory, captured>>

\* The connection fails, or the budget is over: quiet, whatever the daemon does.
GivesUp(h) ==
    /\ hook[h].client = "waits"
    /\ SaysNothing(h) /\ ClientOnly /\ UNCHANGED markers

\* A healthy answer is passed on, for a transcript one line.
HearsOk(h) ==
    /\ hook[h].client = "waits" /\ hook[h].answer = "ok"
    /\ Says(h, "none", IF Use(h) = "session-end" THEN {"captured"} ELSE hook[h].lines)
    /\ ClientOnly /\ UNCHANGED markers

(* Mutant: one marker for all that can go wrong in a session. *)
WarnOnceForAll(h, class) ==
    IF \E c \in {"auth", "proto"} : <<Session(h), c>> \in markers
    THEN Says(h, class, {}) /\ UNCHANGED markers
    ELSE /\ markers' = IF writable THEN markers \cup {<<Session(h), class>>} ELSE markers
         /\ Says(h, class, {class})

\* The marker is made by the first hook of the session that is rejected in this way;
\* where it cannot be made, every one warns.
WarnOnce(h, class) ==
    IF <<Session(h), class>> \in markers
    THEN Says(h, class, {}) /\ UNCHANGED markers
    ELSE /\ markers' = IF writable THEN markers \cup {<<Session(h), class>>} ELSE markers
         /\ Says(h, class, {class})

HearsRejection(h) ==
    /\ hook[h].client = "waits" /\ hook[h].answer \in {"auth", "proto"}
    /\ IF Use(h) = "session-end" THEN SaysNothing(h) /\ UNCHANGED markers
       ELSE WarnOnce(h, hook[h].answer)
    /\ ClientOnly

-----------------------------------------------------------------------------
(* The daemon.                                                                *)

Asked(h) == hook[h].request = "sent"
Answers(h, answer, lines) ==
    hook' = [hook EXCEPT ![h] = IF @.client = "over" THEN [@ EXCEPT !.request = "done"]
                                ELSE [@ EXCEPT !.request = "done", !.answer = answer, !.lines = lines]]

\* The bearer, the Host or the route is refused, or the endpoint's shape is another.
Rejects(h) ==
    /\ Asked(h) /\ daemon \in {"auth", "proto"}
    /\ Answers(h, daemon, {})
    /\ UNCHANGED <<global, toolCall, writable, markers, daemon, starts, registry, memory, captured>>

\* buildHookContext: static lines, or what a live lookup found in the workspace.
BuildHookContext(use, workspace) ==
    CASE use = "commit" -> {{"reindex"}}
      [] use \in {"identifier", "symbol"} ->
            {{"static"}} \cup (IF workspace # NoWorkspace THEN {{"live"}} ELSE {})
      [] OTHER -> {{}}

\* The workspace that the hook names, or else the owner of the folder.
WorkspaceOf(h) == IF h[2] = "local" THEN Slug(OpenedIn[Session(h)]) ELSE Owner(Index, Cwd(h))
Remembers(h) == IF h[2] = "local" THEN cached ELSE {Index}

\* The workspace has been onboarded in this life of the daemon.
Seen(h) == Slug(Cwd(h)) \in announced

Onboards(h) ==
    /\ WorkspaceOf(h) = NoWorkspace /\ ClassifyProjectPath(Index, Cwd(h)) = 2 /\ ~Seen(h)

\* The folder is new: it is claimed and registered before the answer is written,
\* which has a line about it.  The run that follows is one of IndexJobs.
ContextOnboards(h) ==
    /\ Asked(h) /\ daemon = "ok" /\ Use(h) # "session-end" /\ Onboards(h)
    /\ announced' = announced \cup {Slug(Cwd(h))}
    /\ onboarded' = onboarded \cup {[workspace |-> Slug(Cwd(h)), folder |-> Cwd(h)]}
    /\ LET row == Row(Slug(Cwd(h)), Cwd(h))
       IN  /\ Record(row)
           /\ IF Registered(row) THEN cached' = {Index} /\ UNCHANGED missed ELSE Invalidate
    /\ \E lines \in BuildHookContext(Use(h), NoWorkspace) : Answers(h, "ok", lines \cup {"onboarding"})
    /\ UNCHANGED <<global, toolCall, writable, markers, daemon, starts, changes, asked, captured>>

ContextAnswers(h) ==
    /\ Asked(h) /\ daemon = "ok" /\ Use(h) # "session-end" /\ ~Onboards(h)
    /\ cached' = Remembers(h)
    /\ \E lines \in BuildHookContext(Use(h), WorkspaceOf(h)) : Answers(h, "ok", lines)
    /\ UNCHANGED <<global, toolCall, writable, markers, daemon, starts, registry, announced,
                   onboarded, captured>>

\* A transcript is queued for the workspace; without one nothing is done, and the
\* answer is the same.
VerbatimAnswers(h) ==
    /\ Asked(h) /\ daemon = "ok" /\ Use(h) = "session-end"
    /\ cached' = Remembers(h)
    /\ captured' = IF WorkspaceOf(h) = NoWorkspace THEN captured ELSE captured \cup {h}
    /\ Answers(h, "ok", {})
    /\ UNCHANGED <<global, toolCall, writable, markers, daemon, starts, registry, announced, onboarded>>

\* It comes up with the token the hooks read and the routes they know, or without.
DaemonStarts ==
    /\ daemon = "down" /\ starts < MaxStarts
    /\ starts' = starts + 1
    /\ daemon' \in {"ok", "auth", "proto"}
    /\ UNCHANGED <<global, client, registry, memory, captured>>

\* Its memory goes, and the requests it had not answered.
DaemonEnds ==
    /\ daemon # "down"
    /\ daemon' = "down"
    /\ hook' = [h \in Hooks |-> IF Asked(h) THEN [hook[h] EXCEPT !.request = "lost"] ELSE hook[h]]
    /\ Invalidate /\ announced' = {} /\ onboarded' = {}
    /\ UNCHANGED <<global, toolCall, writable, markers, starts, projects, changes, asked, captured>>

-----------------------------------------------------------------------------
Client(h) == GivesUp(h) \/ HearsOk(h) \/ HearsRejection(h)
Endpoint(h) == Rejects(h) \/ ContextOnboards(h) \/ ContextAnswers(h) \/ VerbatimAnswers(h)

HooksNext ==
    \/ \E h \in Hooks : Client(h) \/ Endpoint(h)
    \/ \E s \in Sessions, cwd \in Places, use \in Uses : ToolCall(s, cwd, use)
    \/ \E row \in Rows : \/ AddProject(row) \/ RemoveProject(row)
                         \/ ToolIndexes(row) \/ CliRegisters(row) \/ CliGoesOn(row)
    \/ \E w \in Slugs : DeleteWorkspace(w)
    \/ InstallGlobalWire \/ UninstallGlobalWire \/ DaemonStarts \/ DaemonEnds

HooksSpec == HooksInit /\ [][HooksNext]_hookVars

-----------------------------------------------------------------------------
HooksTypeOK ==
    /\ global \in BOOLEAN /\ writable \in BOOLEAN /\ daemon \in {"down", "ok", "auth", "proto"}
    /\ toolCall \in Seq([session : Sessions, cwd : Folders, use : Uses])
    /\ \A h \in Hooks : hook[h].client \in {"idle", "waits", "over"}
    /\ projects \in Seq([workspace : Slugs, folder : Folders]) /\ IsInjective(projects)
    /\ Cardinality(cached) <= 1

\* One tool call is told of to the daemon by one hook at most, in whatever folder of
\* a wired repository the agent is, and with a machine-wide hook as well
\* (atlas-hook.mjs:55-69).
OneVoice == \A t \in 1 .. Calls : ~(hook[<<t, "global">>].request # "none" /\ hook[<<t, "local">>].request # "none")

\* A rejection is never silent and never repeated: once a hook of a session has read
\* one, a hook of this session has told of its kind, and one only where the temporary
\* directory can be written (atlas-hook.mjs:22-32, 156-170).
RejectionsTold ==
    \A s \in Sessions, class \in {"auth", "proto"} :
        LET ended == {h \in Hooks : hook[h].answer = class /\ hook[h].client = "over" /\ Session(h) = s}
            tell == {h \in ended : class \in hook[h].told}
        IN  /\ writable => Cardinality(tell) <= 1
            /\ ended # {} => tell # {}

\* The index of the resolver is what is on disk but for what other processes have
\* registered since: no change of the daemon's own is lost on it, in whatever order
\* hooks, tools and commands come (pathWorkspaceResolver.ts:35-58).
IndexMissesOnlyOthers ==
    cached # {} => Index = Without(projects, missed)

\* What hooks onboard is new: no workspace twice in a life of the daemon, nothing that
\* is vendored, the daemon's own or outside of the allowlist, and nothing that the
\* daemon could know to be of a project (projectTier.ts:24-78, backgroundOnboard.ts:40-47).
OnlyStrangers ==
    [][\A o \in onboarded' \ onboarded :
          /\ \A p \in onboarded : p.workspace # o.workspace
          /\ \A g \in Above[Real[o.folder]] : g \notin Vendor /\ g # AtlasHome
          /\ Roots = {} \/ Above[Real[o.folder]] \cap Roots # {}
          /\ Owner(Without(projects, missed), o.folder) = NoWorkspace]_hookVars

\* A transcript that the agent was told to be captured is in the queue, when it is the
\* repository's own hook that told, which names its workspace (server.ts:501-520).
CapturedIsQueued == \A t \in 1 .. Calls : "captured" \in hook[<<t, "local">>].told => <<t, "local">> \in captured

\* What is heard of the hooks, and what they make known of folders.
HooksHeard == OneVoice /\ RejectionsTold
FoldersKnown == [](HooksTypeOK /\ IndexMissesOnlyOthers /\ CapturedIsQueued) /\ OnlyStrangers
=============================================================================

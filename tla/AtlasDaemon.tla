---------------------------- MODULE AtlasDaemon -----------------------------
(* The life of the daemon (src/daemon.ts): boot, the maintenance ticker, and   *)
(* the shutdown that drains, flushes, closes and exits, while index jobs and   *)
(* the supervisor of an external Lore go on.                                   *)
EXTENDS IndexJobs, LoreSidecar

CONSTANTS
    Configs,         \* configurations, with the requests that are made under each
    Wedged           \* workspaces whose native calls may never return

ASSUME ConfigsAssumption ==
    /\ Configs \subseteq [sidecar : BOOLEAN, mode : Modes, asks : SUBSET Ask]
    /\ Closers = {"boot", "shutdown"}

VARIABLES
    config,          \* cfg
    boot,            \* runDaemon: probe, ready, listen, closing, up
    down,            \* shutdown: no, drain, flush, handle, stores, sidecar
    listening,       \* the MCP server accepts requests
    ticking,         \* maintenanceTimer is set
    sweeping,        \* maintenanceRunning
    exited,          \* the process is gone
    clean,           \* what drainIndexWork returned
    early            \* history: the signal came before the server listened

daemonVars == <<config, boot, down, listening, ticking, sweeping, exited, clean, early>>
vars == <<jobVars, sidecarVars, daemonVars>>

Init ==
    /\ config \in Configs /\ JobsInit /\ mode = config.mode /\ SidecarInit
    /\ boot = IF config.sidecar THEN "probe" ELSE "listen"
    /\ down = "no" /\ listening = FALSE /\ ticking = FALSE /\ sweeping = FALSE
    /\ exited = FALSE /\ clean = TRUE /\ early = FALSE

-----------------------------------------------------------------------------
(* Boot. *)

BootTo(step) ==
    /\ boot' = step
    /\ UNCHANGED <<jobVars, config, down, listening, ticking, sweeping, exited, clean, early>>

\* Another Lore already serves the port: it is used as it is.
UseRunning == boot = "probe" /\ BootTo("listen") /\ UNCHANGED sidecarVars

StartSidecar == boot = "probe" /\ Spawn /\ BootTo("ready")

\* waitForLoreReady: some process answers.
LoreReady ==
    /\ boot = "ready" /\ \E p \in Pids : Survives(p)
    /\ BootTo("listen") /\ UNCHANGED sidecarVars

\* Not ready within 30 seconds, or the MCP server does not start: a sidecar that was
\* started is closed before the process ends.
BootFails ==
    /\ boot \in {"ready", "listen"} /\ BootTo("closing")
    /\ IF NextPid > 1 THEN Close("boot") ELSE UNCHANGED sidecarVars

\* runDaemon has rejected, or exits itself.  A sidecar is not started without a token
\* or when its spawn is refused.
BootGivesUp ==
    /\ boot = "probe" \/ (boot = "closing" /\ closer["boot"] # "polling")
    /\ exited' = TRUE
    /\ UNCHANGED <<jobVars, sidecarVars, config, boot, down, listening, ticking, sweeping, clean, early>>

\* The MCP server listens; an embedded Lore gets its maintenance timer.
Listen ==
    /\ boot = "listen" /\ boot' = "up"
    /\ listening' = TRUE /\ ticking' = (mode = "embedded")
    /\ UNCHANGED <<jobVars, sidecarVars, config, down, sweeping, exited, clean, early>>

-----------------------------------------------------------------------------
(* createMaintenanceTicker. *)

\* A tick while a pass is under way is skipped.
MaintenanceTick ==
    /\ ticking /\ ~sweeping /\ sweeping' = TRUE
    /\ UNCHANGED <<jobVars, sidecarVars, config, boot, down, listening, ticking, exited, clean, early>>

\* A pass is over: no store was open, the snapshot failed, or each was swept.
PassEnds ==
    /\ sweeping /\ sweeping' = FALSE
    /\ UNCHANGED <<jobVars, sidecarVars, config, boot, down, listening, ticking, exited, clean, early>>

-----------------------------------------------------------------------------
(* shutdown: what follows each of its awaits. *)

DownTo(step) == down' = step /\ UNCHANGED <<config, boot, sweeping, exited>>
SameJobs == UNCHANGED jobVars

\* SIGTERM or SIGINT; another one does nothing.  The timer is cleared, the drain
\* begins: from here on no index is accepted.
Signal ==
    /\ down = "no" /\ DownTo("drain")
    /\ stopping' = TRUE /\ ticking' = FALSE /\ early' = ~listening
    /\ UNCHANGED <<mode, guards, torn, announced, progress, job, leaked, sidecarVars, listening, clean>>

(* Mutant: the drain has no deadline. *)
DrainedAtLast ==
    /\ down = "drain" /\ NoWork /\ DownTo("flush") /\ clean' = TRUE
    /\ SameJobs /\ UNCHANGED <<sidecarVars, listening, ticking, early>>

\* drainIndexWork: the last run ended, or 30 seconds have passed.
Drained ==
    /\ down = "drain" /\ DownTo("flush") /\ clean' = NoWork
    /\ SameJobs /\ UNCHANGED <<sidecarVars, listening, ticking, early>>

\* The verbatim queue is flushed, against its own deadline.
Flushed ==
    /\ down = "flush" /\ DownTo(IF listening THEN "handle" ELSE "stores")
    /\ SameJobs /\ UNCHANGED <<sidecarVars, listening, ticking, clean, early>>

\* handle.close(): the connections ended, or 3 seconds have passed.
ServerClosed ==
    /\ down = "handle" /\ DownTo("stores") /\ listening' = FALSE
    /\ SameJobs /\ UNCHANGED <<sidecarVars, ticking, clean, early>>

\* closeAllEmbedded: the borrowers are done, or 30 more seconds have passed; a store
\* that is being opened is closed too, or opened once more.
StoresClosed ==
    /\ down = "stores" /\ DownTo("sidecar")
    /\ \E late \in SUBSET {j \in Jobs : job[j].run = "opening"} :
          torn' = IF mode = "embedded"
                  THEN late \cup {j \in Jobs : job[j].run \in {"parsing", "writing", "snapshot"}}
                  ELSE {}
    /\ UNCHANGED <<mode, guards, stopping, announced, progress, job, leaked>>
    /\ UNCHANGED <<sidecarVars, listening, ticking, clean, early>>

\* A sidecar that was started is closed.
CloseSidecar ==
    /\ down = "sidecar" /\ NextPid > 1 /\ Close("shutdown")
    /\ SameJobs /\ UNCHANGED daemonVars

Exit ==
    /\ down = "sidecar" /\ exited' = TRUE
    /\ closer["shutdown"] = "done" \/ NextPid = 1
    /\ SameJobs /\ UNCHANGED <<sidecarVars, config, boot, down, listening, ticking, sweeping, clean, early>>

-----------------------------------------------------------------------------
Boots == UseRunning \/ StartSidecar \/ LoreReady \/ BootFails \/ BootGivesUp \/ Listen
ShutsDown == Drained \/ Flushed \/ ServerClosed \/ StoresClosed \/ CloseSidecar \/ Exit

\* What a request does of itself, and what its run does in the store.
Asked(a) == Refused(a) \/ CannotStart(a) \/ Start(a)
Runs(j) == Begin(j) \/ PathRefused(j) \/ OpenFails(j) \/ Write(j) \/ RunThrows(j)
           \/ RunDone(j) \/ SnapshotDone(j)
Supervises == Tick \/ Healthy \/ Unhealthy \/ WaitEnds

Next ==
    \/ ~exited /\ (Boots \/ MaintenanceTick \/ PassEnds \/ Signal \/ ShutsDown)
    \/ ~exited /\ UNCHANGED <<sidecarVars, daemonVars>>
       /\ \/ listening /\ \E a \in config.asks : Asked(a)
          \/ \E j \in Jobs : Runs(j) \/ OnboardAnswers(j)
    \/ UNCHANGED <<sidecarVars, daemonVars>> /\ \E w \in Workspaces : CliLocks(w) \/ CliReleases(w)
    \/ ~exited /\ UNCHANGED <<jobVars, daemonVars>>
       /\ (Supervises \/ (\E p \in Pids : Reap(p)) \/ \E c \in Closers : PollEnds(c))
    \/ UNCHANGED <<jobVars, daemonVars>> /\ \E p \in Pids : Die(p)

Spec == Init /\ [][Next]_vars

\* Awaits that a timer bounds end; a run whose native calls return ends; the event
\* loop delivers exits; a process that was sent SIGKILL dies.
Fairness ==
    /\ WF_vars(~exited /\ (Boots \/ ShutsDown))
    /\ \A j \in Jobs :
          /\ WF_vars(job[j].ws \notin Wedged /\ ~exited /\ Runs(j)
                     /\ UNCHANGED <<sidecarVars, daemonVars>>)
          /\ WF_vars(~exited /\ OnboardAnswers(j) /\ UNCHANGED <<sidecarVars, daemonVars>>)
    /\ WF_vars(~exited /\ UNCHANGED <<jobVars, daemonVars>> /\ Supervises)
    /\ \A p \in Pids :
          /\ WF_vars(~exited /\ UNCHANGED <<jobVars, daemonVars>> /\ Reap(p))
          /\ WF_vars(proc[p] = "doomed" /\ UNCHANGED <<jobVars, daemonVars>> /\ Die(p))
    /\ \A c \in Closers : WF_vars(~exited /\ UNCHANGED <<jobVars, daemonVars>> /\ PollEnds(c))

FairSpec == Spec /\ Fairness

-----------------------------------------------------------------------------
(* Properties. *)

TypeOK ==
    /\ JobsTypeOK /\ SidecarTypeOK /\ config \in Configs
    /\ boot \in {"probe", "ready", "listen", "closing", "up"}
    /\ down \in {"no", "drain", "flush", "handle", "stores", "sidecar"}
    /\ {listening, ticking, sweeping, exited, clean, early} \subseteq BOOLEAN

\* A workspace has its guards, the in-flight mark, the writer lock and the drain
\* count, exactly as long as one run of it goes on; only the onboarding whose borrow
\* threw (onboard.ts:172) keeps them for ever.  A command line index and a run of the
\* daemon never write one workspace together.
GuardsOf(w) ==
    /\ w \in inFlight <=> w \in leaked \/ Live(w) # {}
    /\ w \in leaked => Live(w) = {}
    /\ \A i, k \in Live(w) : i = k
    /\ mode = "embedded" => work[w] = IF w \in inFlight THEN 1 ELSE 0
    /\ mode = "embedded" => (lock[w] = "daemon" <=> w \in inFlight)
GuardsMatchRuns == \A w \in Workspaces : GuardsOf(w)

\* index_status says indexing while a run of the workspace is between its begin and
\* its end, and at no other time, however the run ends.
HonestProgress ==
    \A w \in Workspaces :
        Indexing(w) <=> \E j \in Live(w) : job[j].run \in {"parsing", "writing"}

\* Shutdown closes no store under a run unless its drain ran out of time: what begins
\* after the drain is refused (daemon.ts:146-151, "never tears down Kuzu/LanceDB
\* mid-write").
NoTearDown == torn # {} => ~clean

\* The inductive invariant of AtlasDaemonProofs: shutdown refuses what begins after
\* it, and no run is left once the drain has returned clean.
DrainIsFinal ==
    /\ stopping <=> down # "no"
    /\ mode = "embedded" /\ clean /\ down \notin {"no", "drain"} => NoWork
    /\ torn # {} => mode = "embedded" /\ down = "sidecar"
IInv == JobsTypeOK /\ config \in Configs /\ GuardsMatchRuns /\ DrainIsFinal /\ NoTearDown

\* From its signal on, a daemon that was up sweeps no store any more, and accepts no
\* request once its stores close.  One that is told to stop while it boots goes on
\* booting, and arms its timer and its server after shutdown looked for them.
QuietShutdown ==
    down # "no" /\ ~early => ~ticking /\ (down \in {"stores", "sidecar"} => ~listening)

\* Two processes of Lore never compete for the port: a replacement is spawned only
\* when the old process is gone or was sent SIGKILL.
OneServer == Cardinality({p \in Pids : Survives(p)}) <= 1

\* A daemon that exits leaves no Lore behind that ignores SIGTERM, except when its
\* close() returned at once because another close() or a restart had signalled the
\* process already.
NoOrphan == exited /\ ~hasty => ~ \E p \in Pids : Survives(p)

\* Once told to stop the daemon ends, whatever its runs, its children and its boot do.
ShutdownEnds == down # "no" ~> exited

\* Every index and onboarding that was asked for is answered, a wedged one excepted.
RequestsAnswered ==
    \A j \in Jobs : job[j].kind # "none" /\ job[j].ws \notin Wedged
                    ~> job[j].answer # "none" \/ exited

\* A Lore that died is replaced, or given up after MaxRestarts attempts, even when a
\* respawn is refused.
LoreComesBack ==
    child # NoPid /\ Exited(child) ~> child = NoPid \/ ~Exited(child) \/ failed \/ closed \/ exited

\* Every variable keeps its type; index_status tells what goes on; and after a signal
\* nothing begins behind the back of the shutdown.
DaemonOK == TypeOK /\ HonestProgress /\ QuietShutdown

\* At most one process of Lore has the port, and none is left behind.
SidecarOK == OneServer /\ NoOrphan

\* What is begun ends: shutdown, requests, and the absence of Lore.
DaemonEnds == ShutdownEnds /\ RequestsAnswered /\ LoreComesBack
=============================================================================

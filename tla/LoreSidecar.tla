---------------------------- MODULE LoreSidecar -----------------------------
(* The supervisor of an external Lore process (src/sidecar/loreSidecar.ts):    *)
(* spawn, restart after a crash, the watchdog's probe and restart, close.      *)
(* Composed by AtlasDaemon, whose boot and shutdown call it.                   *)
(*                                                                             *)
(* Lore's processes are numbered in the order of their spawns.  A process that *)
(* has died is a "zombie" until the event loop delivers its exit.              *)
EXTENDS Integers, FiniteSets

CONSTANTS
    MaxRestarts,     \* MAX_RESTARTS
    Closers          \* the callers of close()

ASSUME SidecarAssumption == MaxRestarts \in Nat

Pids == 1 .. MaxRestarts + 1
NoPid == 0

VARIABLES
    proc,            \* of a process: none, up, termed, doomed, zombie, dead
    killed,          \* processes that kill() has signalled
    deliberate,      \* deliberateKill
    child,           \* the supervised process
    restarts,        \* restartCount
    armed,           \* watchdogTimer is set
    watch,           \* the watchdog: idle, probing, waiting for `old` to exit
    old,             \* the process a restart has told to end
    target,          \* the process close() has told to end
    failed,          \* 'failed' was emitted
    closed,          \* close() was called
    closer,          \* of a caller of close(): not yet, polling, done
    hasty            \* history: a close() returned although another caller or a
                     \* restart was still waiting for a process it had signalled

sidecarVars == <<proc, killed, deliberate, child, restarts, armed, watch, old,
                 target, failed, closed, closer, hasty>>

SidecarInit ==
    /\ proc = [p \in Pids |-> "none"] /\ killed = {} /\ deliberate = {}
    /\ child = NoPid /\ restarts = 0 /\ armed = FALSE /\ watch = "idle"
    /\ old = NoPid /\ target = NoPid /\ failed = FALSE /\ closed = FALSE
    /\ closer = [c \in Closers |-> "no"] /\ hasty = FALSE

Exited(p) == proc[p] = "dead"
\* Still there, and not bound to go.
Survives(p) == proc[p] \in {"up", "termed"}
NextPid == 1 + Cardinality({p \in Pids : proc[p] # "none"})

-----------------------------------------------------------------------------
(* Processes: external. *)

\* A process crashes, or ends because it was told to; one that was sent SIGTERM may
\* ignore it for ever.
Die(p) ==
    /\ proc[p] \in {"up", "termed", "doomed"}
    /\ proc' = [proc EXCEPT ![p] = "zombie"]
    /\ UNCHANGED <<killed, deliberate, child, restarts, armed, watch, old, target, failed, closed, closer, hasty>>

Signalled(p, how) ==
    IF proc[p] \in {"up", "termed"} THEN [proc EXCEPT ![p] = how] ELSE proc

-----------------------------------------------------------------------------
(* doRestart. *)

\* startLore's first spawn; a refused one throws to the caller.
Spawn ==
    /\ child = NoPid /\ NextPid = 1 /\ ~closed
    /\ proc' = [proc EXCEPT ![1] = "up"]
    /\ child' = 1 /\ armed' = TRUE
    /\ UNCHANGED <<killed, deliberate, restarts, watch, old, target, failed, closed, closer, hasty>>

\* The replacement is spawned, or refused, which leaves it to the next watchdog tick.
SpawnNext(now) ==
    \/ proc' = [now EXCEPT ![NextPid] = "up"] /\ child' = NextPid
    \/ proc' = now /\ UNCHANGED child

\* The attempt is counted; beyond the limit the supervisor gives up.
GiveUp(now) ==
    /\ restarts' = restarts + 1 /\ restarts' > MaxRestarts
    /\ failed' = TRUE /\ armed' = FALSE
    /\ proc' = now
    /\ UNCHANGED <<killed, deliberate, child>>

\* The old process is gone or was signalled before: the next one is spawned.
Replace(now) ==
    /\ restarts' = restarts + 1 /\ restarts' <= MaxRestarts
    /\ now[child] = "dead" \/ child \in killed
    /\ SpawnNext(now)
    /\ UNCHANGED <<killed, deliberate, failed, armed>>

\* The exit of p is delivered: an expected one, one after close(), or a crash, which
\* restarts at once.
Reap(p) ==
    /\ proc[p] = "zombie"
    /\ LET now == [proc EXCEPT ![p] = "dead"]
       IN IF closed \/ p \in deliberate
          THEN proc' = now /\ UNCHANGED <<killed, deliberate, child, restarts, armed, failed>>
          ELSE GiveUp(now) \/ Replace(now)
    /\ UNCHANGED <<watch, old, target, closed, closer, hasty>>

\* The watchdog's interval: it asks for /health.
Tick ==
    /\ armed /\ watch = "idle" /\ ~closed
    /\ watch' = "probing"
    /\ UNCHANGED <<proc, killed, deliberate, child, restarts, armed, old, target, failed, closed, closer, hasty>>

\* Some process answered.
Healthy ==
    /\ watch = "probing" /\ \E p \in Pids : Survives(p)
    /\ watch' = "idle"
    /\ UNCHANGED <<proc, killed, deliberate, child, restarts, armed, old, target, failed, closed, closer, hasty>>

\* Nobody answered in time: doRestart, which first tells a live child to end.
Unhealthy ==
    /\ watch = "probing"
    /\ IF closed
       THEN watch' = "idle"
            /\ UNCHANGED <<proc, killed, deliberate, child, restarts, armed, old, failed>>
       ELSE \/ (GiveUp(proc) \/ Replace(proc)) /\ watch' = "idle" /\ UNCHANGED old
            \/ /\ restarts' = restarts + 1 /\ restarts' <= MaxRestarts
               /\ ~Exited(child) /\ child \notin killed
               /\ deliberate' = deliberate \cup {child} /\ killed' = killed \cup {child}
               /\ proc' = Signalled(child, "termed")
               /\ watch' = "waiting" /\ old' = child
               /\ UNCHANGED <<child, armed, failed>>
    /\ UNCHANGED <<target, closed, closer, hasty>>

(* Mutant: no SIGKILL after the grace. *)
WaitEndsPatiently ==
    /\ watch = "waiting" /\ watch' = "idle" /\ old' = NoPid
    /\ IF closed THEN UNCHANGED <<proc, child>> ELSE SpawnNext(proc)
    /\ UNCHANGED <<killed, deliberate, restarts, armed, target, failed, closed, closer, hasty>>

\* The wait for the old process is over: it exited, or two seconds have passed and it
\* is killed without another wait.
WaitEnds ==
    /\ watch = "waiting" /\ watch' = "idle" /\ old' = NoPid
    /\ LET now == Signalled(old, "doomed")
       IN IF closed THEN proc' = now /\ UNCHANGED child ELSE SpawnNext(now)
    /\ UNCHANGED <<killed, deliberate, restarts, armed, target, failed, closed, closer, hasty>>

-----------------------------------------------------------------------------
(* close(). *)

\* The caller is told at once: close() was called before, or its child has been
\* signalled before.  Otherwise SIGTERM, and the caller waits.
Close(c) ==
    /\ closer[c] = "no" /\ closed' = TRUE
    /\ LET waits == ~closed /\ child # NoPid /\ child \notin killed
       IN /\ closer' = [closer EXCEPT ![c] = IF waits THEN "polling" ELSE "done"]
          /\ IF waits
             THEN /\ killed' = killed \cup {child} /\ target' = child
                  /\ proc' = Signalled(child, "termed")
                  /\ UNCHANGED <<child, hasty>>
             ELSE /\ hasty' = (hasty \/ \E p \in Pids : Survives(p))
                  /\ child' = IF closed THEN child ELSE NoPid
                  /\ UNCHANGED <<killed, target, proc>>
    /\ armed' = FALSE
    /\ UNCHANGED <<deliberate, restarts, watch, old, failed>>

\* Every 100 ms: the child has exited; or two seconds have passed, it is killed, and a
\* moment later the caller goes on.
PollEnds(c) ==
    /\ closer[c] = "polling"
    /\ closer' = [closer EXCEPT ![c] = "done"]
    /\ proc' = Signalled(target, "doomed")
    /\ child' = IF child = target THEN NoPid ELSE child
    /\ UNCHANGED <<killed, deliberate, restarts, armed, watch, old, target, failed, closed, hasty>>

-----------------------------------------------------------------------------
SidecarTypeOK ==
    /\ proc \in [Pids -> {"none", "up", "termed", "doomed", "zombie", "dead"}]
    /\ killed \subseteq Pids /\ deliberate \subseteq Pids
    /\ {child, old, target} \subseteq Pids \cup {NoPid}
    /\ restarts \in 0 .. MaxRestarts + 2
    /\ watch \in {"idle", "probing", "waiting"}
    /\ closer \in [Closers -> {"no", "polling", "done"}]
    /\ {armed, failed, closed, hasty} \subseteq BOOLEAN
=============================================================================

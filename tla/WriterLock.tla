----------------------------- MODULE WriterLock -----------------------------
(***************************************************************************)
(* The single-writer lock of a workspace's data directory,                 *)
(* src/src/lore/writerLock.ts: a lock file made with O_CREAT|O_EXCL that   *)
(* carries its holder's pid, stolen from a dead holder.  The processes are *)
(* the daemon and the command-line indexers of one machine.  Each action   *)
(* is one system call; any other process may run between two of them, and  *)
(* any process may die at any of them.                                     *)
(***************************************************************************)
EXTENDS Naturals

CONSTANTS
    Procs,      \* processes, each named by its pid
    Nobody,     \* no process
    MaxCreates, \* bound: lock files made before callers stop asking
    MaxDeaths   \* bound: deaths of processes

ASSUME LockAssumption ==
    Nobody \notin Procs /\ MaxCreates \in Nat /\ MaxDeaths \in Nat

VARIABLES
    file,       \* the lock file; id 0: there is none
    pc,         \* the next system call of each process
    attempt,    \* which of the two attempts of the acquire loop
    judged,     \* id of the file a process read before it decides to steal
    mine,       \* id of the file a process made
    made,       \* lock files made so far, which numbers them
    raced,      \* history: a steal removed another file than the one read
    deaths      \* deaths so far

vars == <<file, pc, attempt, judged, mine, made, raced, deaths>>

(* written: the payload is in; old: past EMPTY_PAYLOAD_GRACE_MS; orphan:   *)
(* (history) the process that made it died before releasing it.            *)
Files == [id : Nat, by : Procs \cup {Nobody}, written : BOOLEAN,
          old : BOOLEAN, orphan : BOOLEAN]

NoFile == [id |-> 0, by |-> Nobody, written |-> FALSE, old |-> FALSE,
           orphan |-> FALSE]

(* From the exclusive create on, a process counts on the lock being its.   *)
Owning == {"write", "held", "check", "unlink"}

TypeOK ==
    /\ file \in Files
    /\ pc \in [Procs -> {"idle", "create", "read", "stat", "remove", "lost",
                         "dead"} \cup Owning]
    /\ attempt \in [Procs -> 1..2]
    /\ judged \in [Procs -> Nat]
    /\ mine \in [Procs -> Nat]
    /\ made \in Nat
    /\ raced \in BOOLEAN
    /\ deaths \in Nat

Init ==
    /\ file = NoFile
    /\ pc = [p \in Procs |-> "idle"]
    /\ attempt = [p \in Procs |-> 1]
    /\ judged = [p \in Procs |-> 0]
    /\ mine = [p \in Procs |-> 0]
    /\ made = 0 /\ raced = FALSE /\ deaths = 0

Goto(p, step) == pc' = [pc EXCEPT ![p] = step]

(* acquireWorkspaceWriteLock is called. *)
Acquire(p) ==
    /\ pc[p] = "idle"
    /\ made < MaxCreates
    /\ Goto(p, "create")
    /\ attempt' = [attempt EXCEPT ![p] = 1]
    /\ UNCHANGED <<file, judged, mine, made, raced, deaths>>

(* openSync(lockPath, 'wx'). *)
Create(p) ==
    /\ pc[p] = "create"
    /\ file.id = 0
    /\ file' = [id |-> made + 1, by |-> p, written |-> FALSE, old |-> FALSE,
                orphan |-> FALSE]
    /\ made' = made + 1
    /\ mine' = [mine EXCEPT ![p] = made + 1]
    /\ Goto(p, "write")
    /\ UNCHANGED <<attempt, judged, raced, deaths>>

CreateFails(p) ==
    /\ pc[p] = "create"
    /\ file.id # 0
    /\ Goto(p, "read")
    /\ UNCHANGED <<file, attempt, judged, mine, made, raced, deaths>>

(* writeSync(fd): into the file this process made, wherever its name went. *)
WritePayload(p) ==
    /\ pc[p] = "write"
    /\ file' = IF file.id = mine[p] THEN [file EXCEPT !.written = TRUE] ELSE file
    /\ Goto(p, "held")
    /\ UNCHANGED <<attempt, judged, mine, made, raced, deaths>>

(* readLockPayload and pidAlive: a live holder means WorkspaceLockedError, *)
(* a dead one that the file may go; no payload, or no file any more, that  *)
(* its age decides.                                                        *)
ReadHeld(p) ==
    /\ pc[p] = "read"
    /\ judged' = [judged EXCEPT ![p] = file.id]
    /\ Goto(p, CASE ~file.written -> "stat"
                 [] file.written /\ pc[file.by] # "dead" -> "idle"
                 [] OTHER -> "remove")
    /\ UNCHANGED <<file, attempt, mine, made, raced, deaths>>

(* Mutant: an empty file is stale at any age. *)
NoGrace(p) ==
    /\ pc[p] = "stat"
    /\ Goto(p, "remove")
    /\ UNCHANGED <<file, attempt, judged, mine, made, raced, deaths>>

(* statSync: younger than the grace means locked; an older file, or one    *)
(* that has vanished, falls through to the removal.                        *)
StatAge(p) ==
    /\ pc[p] = "stat"
    /\ Goto(p, IF file.id # 0 /\ ~file.old THEN "idle" ELSE "remove")
    /\ UNCHANGED <<file, attempt, judged, mine, made, raced, deaths>>

(* rmSync(lockPath, force): whatever file has the name now.                *)
Remove(p) ==
    /\ pc[p] = "remove"
    /\ file' = NoFile
    /\ raced' = (raced \/ file.id \notin {0, judged[p]})
    /\ attempt' = [attempt EXCEPT ![p] = 2]
    /\ Goto(p, IF attempt[p] = 1 THEN "create" ELSE "lost")
    /\ UNCHANGED <<judged, mine, made, deaths>>

(* After two attempts: read the payload for the message, and throw.        *)
GiveUp(p) ==
    /\ pc[p] = "lost"
    /\ Goto(p, "idle")
    /\ UNCHANGED <<file, attempt, judged, mine, made, raced, deaths>>

(* release(): read the payload; remove the file if it is ours or has none. *)
Release(p) ==
    /\ pc[p] = "held"
    /\ Goto(p, "check")
    /\ UNCHANGED <<file, attempt, judged, mine, made, raced, deaths>>

CheckOurs(p) ==
    /\ pc[p] = "check"
    /\ Goto(p, IF ~file.written \/ file.by = p THEN "unlink" ELSE "idle")
    /\ UNCHANGED <<file, attempt, judged, mine, made, raced, deaths>>

Unlink(p) ==
    /\ pc[p] = "unlink"
    /\ file' = NoFile
    /\ Goto(p, "idle")
    /\ UNCHANGED <<attempt, judged, mine, made, raced, deaths>>

(* The grace goes by.  EMPTY_PAYLOAD_GRACE_MS is longer than a live writer *)
(* takes from create to write, and than a reader takes from read to stat.  *)
FileAges ==
    /\ file.id # 0 /\ ~file.old
    /\ pc[file.by] # "write"
    /\ \A q \in Procs : pc[q] = "stat" => judged[q] # file.id
    /\ file' = [file EXCEPT !.old = TRUE]
    /\ UNCHANGED <<pc, attempt, judged, mine, made, raced, deaths>>

(* A process dies; its file stays. *)
Die(p) ==
    /\ pc[p] # "dead"
    /\ deaths < MaxDeaths
    /\ deaths' = deaths + 1
    /\ Goto(p, "dead")
    /\ file' = IF pc[p] \in Owning /\ file.id = mine[p]
               THEN [file EXCEPT !.orphan = TRUE] ELSE file
    /\ UNCHANGED <<attempt, judged, mine, made, raced>>

(* A new process runs under the pid. *)
Start(p) ==
    /\ pc[p] = "dead"
    /\ Goto(p, "idle")
    /\ UNCHANGED <<file, attempt, judged, mine, made, raced, deaths>>

Step(p) ==
    \/ Acquire(p) \/ Create(p) \/ CreateFails(p) \/ WritePayload(p)
    \/ ReadHeld(p) \/ StatAge(p) \/ Remove(p) \/ GiveUp(p)
    \/ Release(p) \/ CheckOurs(p) \/ Unlink(p)
    \/ Die(p) \/ Start(p)

Next == FileAges \/ \E p \in Procs : Step(p)

Spec == Init /\ [][Next]_vars
-----------------------------------------------------------------------------
(* Two processes never both hold the lock: "if two writers race here, only *)
(* one wins the re-create; the loser sees EEXIST again and (finding US     *)
(* alive) throws WorkspaceLockedError" (acquireWorkspaceWriteLock).        *)
MutualExclusion ==
    \A p, q \in Procs : pc[p] \in Owning /\ pc[q] \in Owning => p = q

(* What the code keeps: exclusion is lost in no other way than by a steal  *)
(* that removes another file than the one whose holder it found dead.      *)
ExclusionUnlessRaced == raced \/ MutualExclusion

(* A lock file never outlives its holder's release: one that is there is   *)
(* held, or its holder died, or a steal raced.                             *)
LockHasOwner ==
    file.id # 0 /\ ~file.orphan /\ ~raced => pc[file.by] \in Owning

(* The strengthening that is inductive.  While no steal has raced, the     *)
(* file is that of the process that owns it, and a file judged stale is    *)
(* nobody's.                                                               *)
Numbered ==
    /\ file.id <= made
    /\ IF file.id = 0 THEN file = NoFile ELSE file.by \in Procs
    /\ \A p \in Procs : pc[p] \in Owning => mine[p] # 0
    /\ \A p \in Procs : judged[p] <= made /\ mine[p] <= made

OwnersFile ==
    \A p \in Procs : pc[p] \in Owning =>
        /\ file.id = mine[p] /\ file.by = p /\ file.id # 0
        /\ pc[p] = "write" <=> ~file.written
        /\ pc[p] = "write" => ~file.old
        /\ ~file.orphan

JudgedStale ==
    \A p \in Procs :
        \/ pc[p] \notin {"stat", "remove"}
        \/ file.id # judged[p] \/ file.id = 0
        \/ pc[p] = "stat" /\ ~file.old
        \/ pc[file.by] \notin Owning

IInv == TypeOK /\ Numbered /\ (raced \/ (OwnersFile /\ JudgedStale /\ LockHasOwner))

(* Unless a steal has raced, two processes never hold the lock, and every  *)
(* file has an owner that lives or has died: with what it takes to keep it *)
(* so (acquireWorkspaceWriteLock, release).                                *)
LockKept == IInv /\ ExclusionUnlessRaced
=============================================================================

----------------------------- MODULE IndexJobs ------------------------------
(* Index runs inside the daemon: atlas_index (src/mcp/allTools.ts:401-477),    *)
(* atlas_onboard (tools/onboard.ts), the onboarding a hook starts in the       *)
(* background (backgroundOnboard.ts), the guards they take (indexInFlight.ts,  *)
(* the writer lock, indexDrain.ts) and the progress they publish               *)
(* (indexProgress.ts, tools/index.ts).  The command line is a second process   *)
(* that takes the same writer lock.                                            *)
(*                                                                             *)
(* A step is what a handler does between two awaits.  The module has no Spec   *)
(* of its own: AtlasDaemon composes it with boot, shutdown and the sidecar.    *)
EXTENDS Integers, FiniteSets

CONSTANTS
    Workspaces,
    Jobs,            \* requests that are made, at most once each
    Modes            \* how Lore is reached: "embedded", "remote"

\* atlas_index; atlas_onboard, detached or waiting; the onboarding by a hook.
Kinds == {"index", "onboard", "wait", "background"}

Ask == [job : Jobs, ws : Workspaces, kind : Kinds]

ASSUME ModesAssumption == Modes \subseteq {"embedded", "remote"}

VARIABLES
    mode,            \* cfg.lore.mode
    inFlight,        \* indexInFlight: workspaces with a run
    lock,            \* of a workspace: the holder of its writer lock
    work,            \* of a workspace: beginIndexWork minus endIndexWork
    stopping,        \* _shuttingDown of indexDrain
    torn,            \* requests whose store shutdown closed under their run
    announced,       \* workspaces onboarded in the background once
    progress,        \* of a workspace: the phase that index_status reports
    job,             \* of a request: what it asks, how far its run and answer are
    leaked           \* history: workspaces whose guards nobody will release

guards == <<inFlight, lock, work>>
jobVars == <<mode, inFlight, lock, work, stopping, torn, announced,
             progress, job, leaked>>

NoJob == [ws |-> "none", kind |-> "none", run |-> "none", answer |-> "none"]

JobsInit ==
    /\ mode \in Modes
    /\ inFlight = {} /\ lock = [w \in Workspaces |-> "free"]
    /\ work = [w \in Workspaces |-> 0]
    /\ stopping = FALSE /\ torn = {} /\ announced = {}
    /\ progress = [w \in Workspaces |-> "idle"]
    /\ job = [j \in Jobs |-> NoJob]
    /\ leaked = {}

Onboards == {"onboard", "wait", "background"}
\* Runs in every stage but the first hold the guards of their workspace.
Stages == {"opening", "parsing", "writing", "snapshot"}
Live(w) == {j \in Jobs : job[j].ws = w /\ job[j].run \in Stages}
\* What index_status calls indexing.
Indexing(w) == progress[w] \in {"parsing", "writing"}

\* drainIndexWork resolves when the last run ends.
NoWork == \A w \in Workspaces : work[w] = 0

-----------------------------------------------------------------------------
(* Asking. *)

Answered(j, a) == job' = [job EXCEPT ![j].answer = a]
New(a, run, answer) ==
    job' = [job EXCEPT ![a.job] = [ws |-> a.ws, kind |-> a.kind, run |-> run, answer |-> answer]]
\* A hook touches a workspace for the first time: maybeStartBackgroundOnboard claims
\* it before the onboarding runs, whatever becomes of that.
Claims(a) ==
    IF a.kind = "background"
    THEN a.ws \notin announced /\ announced' = announced \cup {a.ws}
    ELSE UNCHANGED announced

(* Mutant: an index is accepted after the drain has begun. *)
RefusalWhileBusy(w) ==
    IF w \in inFlight \/ (mode = "embedded" /\ lock[w] # "free") THEN "index_in_progress" ELSE "none"

\* The checks of both handlers, in their order.
Refusal(w) ==
    IF stopping THEN "shutting_down"
    ELSE IF w \in inFlight THEN "index_in_progress"
    ELSE IF mode = "embedded" /\ lock[w] # "free" THEN "index_in_progress"
    ELSE "none"

Refused(a) ==
    /\ job[a.job] = NoJob /\ Claims(a) /\ Refusal(a.ws) # "none"
    /\ New(a, "refused", Refusal(a.ws))
    /\ UNCHANGED <<mode, guards, stopping, torn, progress, leaked>>

\* The lock cannot be made for another reason (an error of the file system), or
\* there is no token for a remote Lore: the mark is taken back.
CannotStart(a) ==
    /\ job[a.job] = NoJob /\ Claims(a) /\ Refusal(a.ws) = "none"
    /\ New(a, "refused", "threw")
    /\ UNCHANGED <<mode, guards, stopping, torn, progress, leaked>>

\* All guards are taken before the first await, which is the borrow of the store
\* or, for a remote Lore, the connection.
Start(a) ==
    /\ job[a.job] = NoJob /\ Claims(a) /\ Refusal(a.ws) = "none"
    /\ inFlight' = inFlight \cup {a.ws}
    /\ IF mode = "embedded"
       THEN lock' = [lock EXCEPT ![a.ws] = "daemon"] /\ work' = [work EXCEPT ![a.ws] = @ + 1]
       ELSE UNCHANGED <<lock, work>>
    /\ New(a, "opening", "none")
    /\ UNCHANGED <<mode, stopping, torn, progress, leaked>>

-----------------------------------------------------------------------------
(* Running. *)

\* The finally blocks: release, endIndexWork, releaseLock, the mark.
ReleaseGuards(w) ==
    /\ inFlight' = inFlight \ {w}
    /\ IF mode = "embedded"
       THEN lock' = [lock EXCEPT ![w] = "free"] /\ work' = [work EXCEPT ![w] = @ - 1]
       ELSE UNCHANGED <<lock, work>>

\* The caller of a run that ended: atlas_index answers, a waiting onboard may.
Ended(j, how) ==
    job' = [job EXCEPT ![j].run = how,
                       ![j].answer = IF job[j].kind = "index" THEN how ELSE @]

\* runIndexTool begins: the path is checked, then the run is published.
Begin(j) ==
    /\ job[j].run = "opening"
    /\ job' = [job EXCEPT ![j].run = "parsing"]
    /\ progress' = [progress EXCEPT ![job[j].ws] = "parsing"]
    /\ UNCHANGED <<mode, guards, stopping, torn, announced, leaked>>

\* The run is over; the daemon's own store goes on to its statistics.
Finish(j) ==
    IF mode = "embedded"
    THEN job' = [job EXCEPT ![j].run = "snapshot"] /\ UNCHANGED guards
    ELSE Ended(j, "returned") /\ ReleaseGuards(job[j].ws)

\* The path is not to be scanned, or is gone: nothing is published.
PathRefused(j) ==
    /\ job[j].run = "opening"
    /\ Finish(j)
    /\ UNCHANGED <<mode, stopping, torn, announced, progress, leaked>>

(* Mutant: every kind of request awaits the borrow outside its try. *)
OpenFailsUncaught(j) ==
    /\ job[j].run = "opening" /\ Ended(j, "threw")
    /\ UNCHANGED <<mode, guards, stopping, torn, announced, progress, leaked>>

\* The borrow fails.  atlas_index awaits it inside its try; the onboarding of an
\* embedded store does not (onboard.ts:172), and throws with its guards taken.
OpenFails(j) ==
    /\ job[j].run = "opening"
    /\ IF job[j].kind \in Onboards /\ mode = "embedded"
       THEN /\ job' = [job EXCEPT ![j].run = "threw", ![j].answer = "threw"]
            /\ leaked' = leaked \cup {job[j].ws}
            /\ UNCHANGED guards
       ELSE Ended(j, "threw") /\ ReleaseGuards(job[j].ws) /\ UNCHANGED leaked
    /\ UNCHANGED <<mode, stopping, torn, announced, progress>>

\* Parsing is done, the batches are written; a store that was closed throws.
Write(j) ==
    /\ job[j].run = "parsing" /\ j \notin torn
    /\ job' = [job EXCEPT ![j].run = "writing"]
    /\ progress' = [progress EXCEPT ![job[j].ws] = "writing"]
    /\ UNCHANGED <<mode, guards, stopping, torn, announced, leaked>>

(* Mutant: a run that throws publishes nothing. *)
RunThrowsSilently(j) ==
    /\ job[j].run \in {"parsing", "writing"}
    /\ Ended(j, "threw") /\ ReleaseGuards(job[j].ws)
    /\ UNCHANGED <<mode, stopping, torn, announced, progress, leaked>>

\* The run throws: a parse, or a write, since the store may have been closed.
RunThrows(j) ==
    /\ job[j].run \in {"parsing", "writing"}
    /\ progress' = [progress EXCEPT ![job[j].ws] = "error"]
    /\ Ended(j, "threw") /\ ReleaseGuards(job[j].ws)
    /\ UNCHANGED <<mode, stopping, torn, announced, leaked>>

\* Everything is written.
RunDone(j) ==
    /\ job[j].run = "writing" /\ j \notin torn
    /\ progress' = [progress EXCEPT ![job[j].ws] = "done"]
    /\ Finish(j)
    /\ UNCHANGED <<mode, stopping, torn, announced, leaked>>

\* writeStatsSnapshot, whose failure is only logged, and the finally blocks.
SnapshotDone(j) ==
    /\ job[j].run = "snapshot"
    /\ Ended(j, "returned") /\ ReleaseGuards(job[j].ws)
    /\ UNCHANGED <<mode, stopping, torn, announced, progress, leaked>>

\* An onboarding has wired the project, which may throw.  Waiting for its run it
\* answers with the outcome.  Detached it answers when confirmLiftoff has seen the
\* progress of a run of the workspace, this one's or an older one's, or none for two
\* seconds.
OnboardAnswers(j) ==
    /\ job[j].kind \in Onboards /\ job[j].answer = "none"
    /\ mode = "embedded" => job[j].run # "opening"
    /\ \/ job[j].kind # "background" /\ Answered(j, "threw")
       \/ job[j].kind = "wait" /\ job[j].run \in {"returned", "threw"} /\ Answered(j, job[j].run)
       \/ job[j].kind # "wait"
          /\ Answered(j, IF progress[job[j].ws] = "idle" THEN "queued" ELSE "confirmed")
    /\ UNCHANGED <<mode, guards, stopping, torn, announced, progress, leaked>>

\* `atlas index` in a process of its own, which dies or releases.
CliLocks(w) ==
    /\ lock[w] = "free" /\ mode = "embedded"
    /\ lock' = [lock EXCEPT ![w] = "cli"]
    /\ UNCHANGED <<mode, inFlight, work, stopping, torn, announced, progress, job, leaked>>

CliReleases(w) ==
    /\ lock[w] = "cli"
    /\ lock' = [lock EXCEPT ![w] = "free"]
    /\ UNCHANGED <<mode, inFlight, work, stopping, torn, announced, progress, job, leaked>>

-----------------------------------------------------------------------------
Refusals == {"shutting_down", "index_in_progress", "threw"}
JobStates ==
    {NoJob} \cup
    [ws : Workspaces, kind : Kinds, run : Stages \cup {"refused", "returned", "threw"},
     answer : Refusals \cup {"none", "returned", "queued", "confirmed"}]

JobsTypeOK ==
    /\ mode \in Modes /\ stopping \in BOOLEAN
    /\ {inFlight, announced, leaked} \subseteq SUBSET Workspaces /\ torn \subseteq Jobs
    /\ lock \in [Workspaces -> {"free", "daemon", "cli"}]
    /\ work \in [Workspaces -> Nat]
    /\ progress \in [Workspaces -> {"idle", "parsing", "writing", "done", "error"}]
    /\ job \in [Jobs -> JobStates]
=============================================================================

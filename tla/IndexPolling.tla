----------------------------- MODULE IndexPolling -----------------------------
(* The page's watch over index runs (atlas-ui/src/hooks/useIndexStatus.ts): a  *)
(* timer that polls index_status while a run goes on, and reloads the graph at *)
(* its end.  The hook keeps no record of the polls it has in flight, so answers *)
(* come in any order, also after the page has gone over to another workspace.  *)
EXTENDS Integers, FiniteSets, SequencesExt

CONSTANTS
    Polls,                 \* bound: polls in flight at one time
    MaxErrors,             \* consecutive misses before the hook gives up
    MaxRuns, MaxMounts, MaxPings   \* bounds: of runs, of workspaces, of pings

ASSUME PollingAssumption ==
    MaxErrors \in Nat \ {0} /\ MaxRuns \in Nat /\ MaxMounts \in Nat \ {0} /\ MaxPings \in Nat

VARIABLES
    run,                   \* the workspace a run goes on in, or 0; workspaces are
    runs,                  \* numbered as the page opens them
    mount,                 \* the workspace that is open
    timer,                 \* the interval is armed
    wasIndexing, misses,   \* wasIndexingRef, and errorCountRef up to MaxErrors
    shows,                 \* the progress bar shows a run
    polls,                 \* of a slot: free, or sent, idle, indexing; for which mount
    pings,
    completed,             \* calls of onComplete
    crossed                \* history: an answer came in after a newer one, or after the
                           \* page had left its workspace

polling == <<run, runs, mount, timer, wasIndexing, misses, shows, polls, pings, completed, crossed>>

NoPoll == [pc |-> "free", mount |-> 0, older |-> {}, late |-> FALSE]

\* Polls the daemon has answered.
InHand == {p \in Polls : polls[p].pc \in {"idle", "indexing"}}

PollInit ==
    /\ run = 0 /\ runs = 0 /\ mount = 0 /\ timer = FALSE /\ wasIndexing = FALSE
    /\ misses = 0 /\ shows = FALSE /\ polls = [p \in Polls |-> NoPoll]
    /\ pings = 0 /\ completed = 0 /\ crossed = FALSE

Send(p, from, m) == polls' = [from EXCEPT ![p] = [NoPoll EXCEPT !.pc = "sent", !.mount = m]]

\* start: a poll now, and the interval.
Start(from, m) ==
    IF timer /\ m = mount THEN polls' = from /\ UNCHANGED timer
    ELSE /\ timer' = TRUE
         /\ \E p \in Polls : polls[p].pc = "free" /\ Send(p, from, m)

\* The page opens a workspace: the effect's cleanup stops the interval, the effect
\* starts it again.
Mount ==
    /\ mount < MaxMounts
    /\ mount' = mount + 1
    /\ wasIndexing' = FALSE /\ shows' = FALSE
    /\ Start([p \in Polls |-> [polls[p] EXCEPT !.late = @ \/ polls[p].pc # "free"]], mount + 1)
    /\ UNCHANGED <<run, runs, misses, pings, completed, crossed>>

\* ping: the page is about to call atlas_index.
Ping ==
    /\ mount > 0 /\ pings < MaxPings
    /\ pings' = pings + 1
    /\ wasIndexing' = FALSE
    /\ Start(polls, mount)
    /\ UNCHANGED <<run, runs, mount, misses, shows, completed, crossed>>

Tick ==
    /\ timer
    /\ \E p \in Polls : polls[p].pc = "free" /\ Send(p, polls, mount)
    /\ UNCHANGED <<run, runs, mount, timer, wasIndexing, misses, shows, pings, completed, crossed>>

(* External: the daemon's runs, and its answers. *)
RunBegins(m) ==
    /\ run = 0 /\ runs < MaxRuns
    /\ run' = m /\ runs' = runs + 1
    /\ UNCHANGED <<mount, timer, wasIndexing, misses, shows, polls, pings, completed, crossed>>

RunEnds ==
    /\ run # 0
    /\ run' = 0
    /\ UNCHANGED <<runs, mount, timer, wasIndexing, misses, shows, polls, pings, completed, crossed>>

Sample(p) ==
    /\ polls[p].pc = "sent"
    /\ polls' = [polls EXCEPT ![p].pc = IF run = polls[p].mount THEN "indexing" ELSE "idle",
                              ![p].older = InHand]
    /\ UNCHANGED <<run, runs, mount, timer, wasIndexing, misses, shows, pings, completed, crossed>>

-----------------------------------------------------------------------------

\* The poll is over.  Older answers that are still on their way are late now.
Over(p) == polls' = [q \in Polls |->
    IF q = p THEN NoPoll
    ELSE [polls[q] EXCEPT !.older = @ \ {p}, !.late = @ \/ q \in polls[p].older]]

(* Mutant: every answer is taken as the end of a run unless it tells of one. *)
ArrivesIdleForgetful(p) ==
    /\ polls[p].pc = "idle"
    /\ completed' = completed + (IF shows \/ wasIndexing THEN 1 ELSE 0)
    /\ UNCHANGED <<wasIndexing, shows>>
    /\ timer' = FALSE
    /\ misses' = 0 /\ crossed' = (crossed \/ polls[p].late)
    /\ Over(p)
    /\ UNCHANGED <<run, runs, mount, pings>>

\* An answer "idle": the end of a run that was seen is told to the page once; the
\* interval stops in either case.
ArrivesIdle(p) ==
    /\ polls[p].pc = "idle"
    /\ completed' = completed + (IF wasIndexing THEN 1 ELSE 0)
    /\ wasIndexing' = FALSE /\ shows' = FALSE
    /\ timer' = FALSE
    /\ misses' = 0 /\ crossed' = (crossed \/ polls[p].late)
    /\ Over(p)
    /\ UNCHANGED <<run, runs, mount, pings>>

ArrivesIndexing(p) ==
    /\ polls[p].pc = "indexing"
    /\ wasIndexing' = TRUE /\ shows' = TRUE
    /\ misses' = 0 /\ crossed' = (crossed \/ polls[p].late)
    /\ Over(p)
    /\ UNCHANGED <<run, runs, mount, timer, pings, completed>>

\* A poll fails; after MaxErrors in a row the interval stops.
Misses(p) ==
    /\ polls[p].pc # "free"
    /\ misses' = IF misses < MaxErrors THEN misses + 1 ELSE MaxErrors
    /\ timer' = (timer /\ misses' < MaxErrors)
    /\ Over(p)
    /\ UNCHANGED <<run, runs, mount, wasIndexing, shows, pings, completed, crossed>>

-----------------------------------------------------------------------------
Watch ==
    \/ Mount \/ Ping \/ Tick \/ RunEnds
    \/ \E m \in 1 .. mount : RunBegins(m)
    \/ \E p \in Polls : Sample(p) \/ ArrivesIdle(p) \/ ArrivesIndexing(p) \/ Misses(p)

PollSpec == PollInit /\ [][Watch]_polling

\* Timers fire, and the daemon answers or the fetch fails.
PollFairness ==
    /\ WF_polling(Tick)
    /\ \A p \in Polls : WF_polling(Sample(p)) /\ WF_polling(ArrivesIdle(p) \/ ArrivesIndexing(p))

PollTypeOK ==
    /\ mount \in 0 .. MaxMounts /\ run \in 0 .. mount /\ runs \in 0 .. MaxRuns
    /\ {timer, wasIndexing, shows, crossed} \subseteq BOOLEAN
    /\ misses \in 0 .. MaxErrors /\ pings \in 0 .. MaxPings /\ completed \in Nat
    /\ \A p \in Polls : polls[p].pc \in {"free", "sent", "idle", "indexing"}
                        /\ polls[p].mount \in 0 .. mount

\* The page is told of the end of a run at most once, unless answers crossed
\* (useIndexStatus.ts:44-46, 70-75).
OncePerRun == ~crossed => completed <= runs

\* The end of a run that the page saw, with the interval armed, is told, unless the
\* page was told to look at another or the daemon failed too often; provided that
\* runs end (useIndexStatus.ts:8-12, 67-69, 83-85).
EndIsTold ==
    (<>[](run = 0)) =>
        []<>(wasIndexing /\ timer => misses >= MaxErrors)

\* The page does not poll for ever when nothing is being indexed (useIndexStatus.ts:
\* 76-79).
PollingStops == (<>[](run = 0)) => []<>(~timer)

\* The hook's state keeps its type, and tells of an end once.
EndToldOnce == PollTypeOK /\ OncePerRun

\* Ends are told and the polling stops.
PollingEnds == EndIsTold /\ PollingStops
=============================================================================

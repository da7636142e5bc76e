---------------------------- MODULE VerbatimQueue ---------------------------
(***************************************************************************)
(* The verbatim write queue, src/src/mcp/verbatimQueue.ts: quotes accepted *)
(* by verbatim_store are appended to a write-ahead journal, queued in      *)
(* memory and landed in their workspace's store by flush passes, which any *)
(* of several callers (the 30 s tick, the shutdown handler) may start.     *)
(*                                                                         *)
(* JavaScript runs one callback at a time, so an action is everything a    *)
(* callback does between two awaits: what happens after a step settles up  *)
(* to the next await of the pass, the pass loop included.  Stores, other   *)
(* flush calls, abandoned native writes and a kill of the process come     *)
(* between any two such actions.                                           *)
(***************************************************************************)
EXTENDS VerbatimFold, SequencesExt

CONSTANTS
    Ids,            \* node ids: verbatim:<sha256(text)>, one per text
    Flushers,       \* callers of flushVerbatimQueue
    Cap,            \* VERBATIM_QUEUE_CAP
    Batch,          \* VERBATIM_BATCH
    ChunkBudget,    \* VERBATIM_BATCH_CHUNK_BUDGET
    Chunks,         \* estimateEmbedChunks of each text
    Threshold,      \* FLUSH_FAILURE_THRESHOLD
    Requests,       \* the <<workspace, id>> pairs callers store
    MaxPerRequest,  \* bound: how often each of them is stored
    MaxWrites,      \* bound: abandoned writes not settled yet
    ClaimFloor,     \* bound: how far below 0 claimedEntries is followed
    MaxKills,       \* bound: kills of the process in a behaviour
    WithShutdown,   \* whether the daemon may begin to shut down
    Broken,         \* workspaces whose store never accepts a write
    Healthy,        \* workspaces whose store never fails or stalls
    Rejected        \* ids the store rejects one by one (results[i].ok false)

ASSUME QueueAssumption ==
    /\ Cap \in Nat \ {0} /\ Batch \in Nat \ {0} /\ Threshold \in Nat \ {0}
    /\ ChunkBudget \in Nat /\ Chunks \in [Ids -> Nat]
    /\ Requests \subseteq Workspaces \X Ids
    /\ MaxKills \in Nat /\ MaxWrites \in Nat /\ ClaimFloor \in Nat
    /\ MaxPerRequest \in Nat
    /\ WithShutdown \in BOOLEAN
    /\ Broken \cap Healthy = {}
    /\ None \notin Flushers

VARIABLES
    queue,          \* entries waiting, oldest first
    journal,        \* <ATLAS_HOME>/verbatim-queue.jsonl, one entry a line
    store,          \* version of each node in each workspace's store, 0: none
    claimed,        \* claimedEntries
    streak,         \* flushFailures: consecutive failures, up to Threshold
    quarantined,    \* Date.now() < quarantinedUntil
    flushInFlight,  \* the flusher whose pass holds the slot, or None
    call,           \* where each flush call is
    waitsFor,       \* the flusher whose pass a waiting call awaits
    pass,           \* the pass each flusher runs
    writes,         \* native writes a pass gave up on, which may still land
    \* bookkeeping of the model
    issued,         \* versions handed out, for each request
    accepted,       \* entries whose store call returned
    givenUp,        \* entries dropped at the cap or rejected by the store
    kills           \* kills of the process so far

slotVars == <<flushInFlight, call, waitsFor>>
breakerVars == <<streak, quarantined>>
ghostVars == <<issued, accepted, givenUp, kills>>
vars == <<queue, journal, store, claimed, breakerVars, slotVars, pass, writes,
          ghostVars, foldVars>>

(* A version tells one store call of a text from the next: the text is the *)
(* same, its SOURCE, AT, topic and session need not be.                    *)
Entry == [ws : Workspaces, id : Ids, v : 1..MaxPerRequest]

(* What a pass remembers across its awaits.                                *)
(*   pc      the await it sits in                                          *)
(*   batch   the entries claimed off the queue                             *)
(*   probe   the attempt is the size-1 retry of a failed batch             *)
(*   checked entries of the attempt already looked up (retry path)         *)
(*   rows    what the attempt stores: the survivors of the lookup          *)
(*   held    the workspace whose store the pass has borrowed               *)
(*   skip    unprocessable: workspaces this pass failed                    *)
(*   removed an entry left the queue for good                              *)
(*   fresh   the caller's whole budget is left: no batch, no wait so far   *)
NoPass == [pc |-> "none", batch |-> <<>>, probe |-> FALSE, checked |-> 0,
           rows |-> <<>>, held |-> None, skip |-> {}, removed |-> FALSE,
           fresh |-> TRUE]

BatchWorkspace(p) == Head(p.batch).ws

PassState ==
    [pc : {"none", "borrow", "check", "store", "settle"}, batch : Seq(Entry),
     probe : BOOLEAN, checked : Nat, rows : Seq(Entry),
     held : Workspaces \cup {None}, skip : SUBSET Workspaces,
     removed : BOOLEAN, fresh : BOOLEAN]

PassTypeOK(p) ==
    /\ p.checked <= Len(p.batch)
    /\ p.pc \in {"check", "store"} => p.held = BatchWorkspace(p)

TypeOK ==
    /\ FoldTypeOK
    /\ queue \in Seq(Entry) /\ journal \in Seq(Entry)
    /\ store \in [Workspaces -> [Ids -> 0..MaxPerRequest]]
    /\ claimed \in Int
    /\ streak \in [Workspaces -> 0..Threshold]
    /\ quarantined \in [Workspaces -> BOOLEAN]
    /\ flushInFlight \in Flushers \cup {None}
    /\ call \in [Flushers -> {"idle", "waiting", "woken", "passing"}]
    /\ waitsFor \in [Flushers -> Flushers \cup {None}]
    /\ pass \in [Flushers -> PassState] /\ \A f \in Flushers : PassTypeOK(pass[f])
    /\ \A w \in writes : w.ws \in Workspaces /\ w.rows \in Seq(Entry)
    /\ issued \in [Requests -> 0..MaxPerRequest]
    /\ accepted \subseteq Entry /\ givenUp \subseteq Entry
    /\ kills \in 0..MaxKills

Init ==
    /\ queue = <<>> /\ journal = <<>>
    /\ store = [ws \in Workspaces |-> [id \in Ids |-> 0]]
    /\ claimed = 0
    /\ streak = [ws \in Workspaces |-> 0]
    /\ quarantined = [ws \in Workspaces |-> FALSE]
    /\ flushInFlight = None
    /\ call = [f \in Flushers |-> "idle"]
    /\ waitsFor = [f \in Flushers |-> None]
    /\ pass = [f \in Flushers |-> NoPass]
    /\ writes = {}
    /\ issued = [r \in Requests |-> 0] /\ accepted = {} /\ givenUp = {} /\ kills = 0
    /\ FoldInit
-----------------------------------------------------------------------------
(* pushEntry: the first queued copy of the id goes, the entry joins the    *)
(* back, and the oldest go when the cap is passed.                         *)
Pushed(q, e) == Append(RemoveFirstMatch(q, LAMBDA d : d.id = e.id), e)

PushEntry(q, e) ==
    LET all == Pushed(q, e)
    IN  SubSeq(all, 1 + (IF Len(all) > Cap THEN Len(all) - Cap ELSE 0), Len(all))

Overflows(q, e) == Len(Pushed(q, e)) > Cap

(* Mutant: every enqueue compacts the journal. *)
JournalRewritten(e) == PushEntry(queue, e)

(* enqueueVerbatim: append the journal line, push, and rewrite the journal *)
(* from the queue when the push removed something, in one synchronous call.*)
JournalAfterEnqueue(e) ==
    IF (\E i \in DOMAIN queue : queue[i].id = e.id) \/ Overflows(queue, e)
    THEN PushEntry(queue, e)
    ELSE Append(journal, e)

StoreCall(ws, id) ==
    /\ issued[<<ws, id>>] < MaxPerRequest
    /\ issued' = [issued EXCEPT ![<<ws, id>>] = @ + 1]

NextVersion(ws, id) == [ws |-> ws, id |-> id, v |-> issued[<<ws, id>>] + 1]

EnqueueVerbatim(ws, id) ==
    LET e == NextVersion(ws, id)
    IN  /\ StoreCall(ws, id)
        /\ queue' = PushEntry(queue, e)
        /\ journal' = JournalAfterEnqueue(e)
        /\ accepted' = accepted \cup {e}
        /\ givenUp' = givenUp \cup (ToSet(Pushed(queue, e)) \ ToSet(queue'))
        /\ UNCHANGED <<store, claimed, breakerVars, slotVars, pass, writes,
                       kills, foldVars>>
-----------------------------------------------------------------------------
(* The pass loop.  A callback of a pass changes the queue, the claim       *)
(* counter, the breaker and the slot before it awaits again; s is the      *)
(* value of those so far, and the operators below finish the step.         *)
Now == [queue |-> queue, claimed |-> claimed, streak |-> streak,
        quarantined |-> quarantined, slot |-> flushInFlight]

BecomesShared(s) ==
    /\ queue' = s.queue
    /\ claimed' = Max({s.claimed, -ClaimFloor})
    /\ streak' = s.streak /\ quarantined' = s.quarantined

(* The pass awaits again, with p its memory.                               *)
Suspend(f, p, s) ==
    /\ BecomesShared(s)
    /\ pass' = [pass EXCEPT ![f] = p]
    /\ call' = [call EXCEPT ![f] = "passing"]
    /\ flushInFlight' = s.slot
    /\ UNCHANGED <<waitsFor, journal>>

(* The pass is over: the journal is compacted if an entry left for good,   *)
(* flushVerbatimQueue's finally frees the slot, waiting calls wake.        *)
EndPass(f, p, s) ==
    /\ BecomesShared(s)
    /\ pass' = [pass EXCEPT ![f] = NoPass]
    /\ journal' = IF p.removed THEN s.queue ELSE journal
    /\ flushInFlight' = IF s.slot = f THEN None ELSE s.slot
    /\ call' = [g \in Flushers |->
                  CASE g = f -> "idle"
                    [] waitsFor[g] = f -> "woken"
                    [] OTHER -> call[g]]
    /\ waitsFor' = [g \in Flushers |->
                      IF waitsFor[g] = f THEN None ELSE waitsFor[g]]

(* Mutant: the claim is not counted. *)
ClaimUncounted(s, n) == [s EXCEPT !.queue = SubSeq(@, n + 1, Len(@))]

(* Entries leave the queue's head for a batch, and come back at its end.   *)
Claim(s, n) == [s EXCEPT !.queue = SubSeq(@, n + 1, Len(@)), !.claimed = @ + n]

(* Mutant: a failed batch comes back at the head of the line. *)
RequeueAtFront(s, entries) ==
    [s EXCEPT !.queue = entries \o @, !.claimed = @ - Len(entries)]

Requeue(s, entries) ==
    [s EXCEPT !.queue = @ \o entries, !.claimed = @ - Len(entries)]

(* Mutant: the breaker is not asked. *)
UnprocessableIfFailed(p, s, ws) == ws \in p.skip

(* headIsUnprocessable, for an entry of workspace ws.                      *)
Unprocessable(p, s, ws) == ws \in p.skip \/ s.quarantined[ws]

NothingProcessable(p, s) ==
    \A i \in DOMAIN s.queue : Unprocessable(p, s, s.queue[i].ws)

(* Unprocessable entries at the head rotate to the back.                   *)
Rotated(p, s) ==
    LET i == CHOOSE k \in DOMAIN s.queue :
                /\ ~Unprocessable(p, s, s.queue[k].ws)
                /\ \A j \in 1..(k - 1) : Unprocessable(p, s, s.queue[j].ws)
    IN  SubSeq(s.queue, i, Len(s.queue)) \o SubSeq(s.queue, 1, i - 1)

(* The batch is a run of one workspace, bounded by count and by embed      *)
(* work; an entry over the whole budget goes alone.                        *)
Cost(q, n) == FoldLeft(LAMBDA sum, e : sum + Chunks[e.id], 0, SubSeq(q, 1, n))

Fits(q, n) ==
    /\ \A i \in 1..n : q[i].ws = q[1].ws
    /\ n = 1 \/ Cost(q, n) <= ChunkBudget

BatchSize(q) == Max({n \in 1..Min({Batch, Len(q)}) : Fits(q, n)})

Attempted(p) == IF p.probe THEN <<Head(p.batch)>> ELSE p.batch

(* The store is open: look each entry up first if the workspace has a      *)
(* failure streak, else store at once.                                     *)
Opened(p, s) ==
    [p EXCEPT !.held = BatchWorkspace(p),
              !.checked = 0,
              !.pc = IF s.streak[BatchWorkspace(p)] > 0 THEN "check" ELSE "store",
              !.rows = IF s.streak[BatchWorkspace(p)] > 0
                       THEN <<>> ELSE Attempted(p)]

(* attemptStore begins: borrow the store unless the pass still holds it.   *)
Attempt(p, s) ==
    IF p.held = BatchWorkspace(p)
    THEN Opened(p, s)
    ELSE [p EXCEPT !.pc = "borrow", !.held = None, !.rows = <<>>, !.checked = 0]

(* The head of the while loop: the deadline may have passed once the pass  *)
(* has used some of its budget.                                            *)
Loop(f, p, s) ==
    \/ /\ NothingProcessable(p, s) \/ ~p.fresh
       /\ EndPass(f, p, s)
    \/ /\ ~NothingProcessable(p, s)
       /\ LET q == Rotated(p, s)
              n == BatchSize(q)
              t == Claim([s EXCEPT !.queue = q], n)
          IN  Suspend(f, Attempt([p EXCEPT !.batch = SubSeq(q, 1, n)], t), t)

(* The batch is dealt with; the loop goes on.                              *)
NextBatch(f, p, s) ==
    Loop(f, [p EXCEPT !.pc = "none", !.batch = <<>>, !.rows = <<>>,
                      !.probe = FALSE, !.checked = 0, !.fresh = FALSE], s)

(* Mutant: the rest of a probed batch is forgotten. *)
ProbeForgetsRest(f, p, s) ==
    NextBatch(f, [p EXCEPT !.skip = @ \cup {BatchWorkspace(p)}],
              [s EXCEPT !.claimed = @ - (Len(p.batch) - 1)])

(* The size-1 probe landed: the rest of the batch returns to the back of   *)
(* the queue with no strike, and the workspace is left for this pass.      *)
AttemptReturned(f, p, s) ==
    IF p.probe
    THEN NextBatch(f, [p EXCEPT !.skip = @ \cup {BatchWorkspace(p)}],
                   Requeue(s, Tail(p.batch)))
    ELSE NextBatch(f, p, s)

(* recordFlushFailure, with the streak capped at the threshold it is       *)
(* compared with.                                                          *)
Struck(s, ws) ==
    LET n == Min({s.streak[ws] + 1, Threshold})
    IN  [s EXCEPT !.streak[ws] = n, !.quarantined[ws] = (n = Threshold)]

(* recordFlushSuccess.                                                     *)
Cleared(s, ws) ==
    [s EXCEPT !.streak[ws] = 0, !.quarantined[ws] = FALSE]

(* A failed batch of more than one is probed with its first entry; a       *)
(* failed probe or a failed solo batch strikes the workspace and returns   *)
(* the whole batch to the back of the queue.                               *)
AttemptThrew(f, p, s) ==
    IF ~p.probe /\ Len(p.batch) > 1
    THEN Suspend(f, Attempt([p EXCEPT !.probe = TRUE], s), s)
    ELSE NextBatch(f, [p EXCEPT !.skip = @ \cup {BatchWorkspace(p)}],
                   Requeue(Struck(s, BatchWorkspace(p)), p.batch))
-----------------------------------------------------------------------------
(* flushVerbatimQueue: start a pass, or wait for the one in flight.        *)
FlushCall(f) ==
    /\ call[f] = "idle"
    /\ \/ /\ flushInFlight = None
          /\ Loop(f, NoPass, [Now EXCEPT !.slot = f])
       \/ /\ flushInFlight # None
          /\ call' = [call EXCEPT ![f] = "waiting"]
          /\ waitsFor' = [waitsFor EXCEPT ![f] = flushInFlight]
          /\ UNCHANGED <<queue, journal, claimed, breakerVars, flushInFlight,
                         pass>>
    /\ UNCHANGED <<store, writes, ghostVars, foldVars>>

(* Mutant: the slot is not looked at again after the wait. *)
Drained == queue = <<>>

(* The re-check after the wait: return what remains, or take over.         *)
StillInFlightOrDrained == flushInFlight # None \/ queue = <<>>

ReturnToCaller(f) ==
    /\ call' = [call EXCEPT ![f] = "idle"]
    /\ waitsFor' = [waitsFor EXCEPT ![f] = None]
    /\ UNCHANGED <<queue, journal, claimed, breakerVars, flushInFlight, pass>>

(* The awaited pass settled, or the caller's own deadline came first.      *)
WaiterResumes(f) ==
    /\ call[f] \in {"waiting", "woken"}
    /\ IF StillInFlightOrDrained
       THEN ReturnToCaller(f)
       ELSE Loop(f, [NoPass EXCEPT !.fresh = FALSE], [Now EXCEPT !.slot = f])
    /\ UNCHANGED <<store, writes, ghostVars, foldVars>>

(* The borrow resolves.                                                    *)
BorrowOpens(f) ==
    /\ pass[f].pc = "borrow"
    /\ Suspend(f, Opened(pass[f], Now), Now)
    /\ UNCHANGED <<store, writes, ghostVars, foldVars>>

(* The borrow rejects or blows its step budget; a late open is released    *)
(* when it comes.                                                          *)
BorrowFails(f) ==
    /\ pass[f].pc = "borrow"
    /\ BatchWorkspace(pass[f]) \notin Healthy
    /\ AttemptThrew(f, pass[f], Now)
    /\ UNCHANGED <<store, writes, ghostVars, foldVars>>

(* After the last lookup: nothing left to store counts as a success.       *)
LookedUp(f, p, s) ==
    CASE p.checked < Len(Attempted(p)) -> Suspend(f, p, s)
      [] p.checked = Len(Attempted(p)) /\ p.rows # <<>> ->
            Suspend(f, [p EXCEPT !.pc = "store"], s)
      [] OTHER -> AttemptReturned(f, p, Cleared(s, BatchWorkspace(p)))

(* Retry path: getNode(id) answers for the next entry of the attempt.  A   *)
(* node that is there is taken for landed; an absent one, an error or a    *)
(* timeout keeps the entry.                                                *)
NodeFound(f) ==
    LET p == pass[f]
        e == Attempted(p)[p.checked + 1]
    IN  /\ p.pc = "check"
        /\ store[e.ws][e.id] # 0
        /\ LookedUp(f, [p EXCEPT !.checked = @ + 1, !.removed = TRUE],
                    [Now EXCEPT !.claimed = @ - 1])
        /\ UNCHANGED <<store, writes, ghostVars, foldVars>>

NodeNotFound(f) ==
    LET p == pass[f]
        e == Attempted(p)[p.checked + 1]
    IN  /\ p.pc = "check"
        /\ e.ws \in Healthy => store[e.ws][e.id] = 0
        /\ LookedUp(f, [p EXCEPT !.checked = @ + 1, !.rows = Append(@, e)], Now)
        /\ UNCHANGED <<store, writes, ghostVars, foldVars>>

(* A bulk upsert by id; the later of two rows of one id wins, and the      *)
(* store may reject a row without failing the call.                        *)
Upserted(ws, rows) ==
    LET places(id) == {i \in DOMAIN rows : rows[i].id = id}
    IN  [store EXCEPT ![ws] =
            [id \in Ids |-> IF id \in Rejected \/ places(id) = {}
                           THEN @[id] ELSE rows[Max(places(id))].v]]

(* bulkStoreNodes resolves: the batch is out of the queue for good.        *)
StoreSettles(f) ==
    LET p == pass[f]
        ws == BatchWorkspace(p)
    IN  /\ p.pc = "store"
        /\ ws \notin Broken
        /\ store' = Upserted(ws, p.rows)
        /\ givenUp' = givenUp \cup {e \in ToSet(p.rows) : e.id \in Rejected}
        /\ Suspend(f, [p EXCEPT !.pc = "settle", !.removed = TRUE],
                   [Cleared(Now, ws) EXCEPT !.claimed = @ - Len(p.rows)])
        /\ UNCHANGED <<writes, issued, accepted, kills, foldVars>>

(* bulkStoreNodes rejects.                                                 *)
StoreFails(f) ==
    /\ pass[f].pc = "store"
    /\ BatchWorkspace(pass[f]) \notin Healthy
    /\ AttemptThrew(f, pass[f], Now)
    /\ UNCHANGED <<store, writes, ghostVars, foldVars>>

(* bulkStoreNodes blows its step budget: the pass lets the borrow go once  *)
(* the write settles, and nothing cancels the write.                       *)
StoreTimesOut(f) ==
    LET p == pass[f]
    IN  /\ p.pc = "store"
        /\ BatchWorkspace(p) \notin Healthy
        /\ Cardinality(writes) < MaxWrites
        /\ writes' = writes \cup {[ws |-> BatchWorkspace(p), rows |-> p.rows]}
        /\ AttemptThrew(f, [p EXCEPT !.held = None], Now)
        /\ UNCHANGED <<store, ghostVars, foldVars>>

(* awaitEmbeds settles, fails or times out: the batch has landed all the   *)
(* same.  Then the fold is armed and the loop goes on.                     *)
EmbedsSettle(f) ==
    LET p == pass[f]
    IN  /\ p.pc = "settle"
        /\ \E held \in {p.held, None} :
              AttemptReturned(f, [p EXCEPT !.held = held], Now)
        /\ BatchLanded(BatchWorkspace(p))
        /\ UNCHANGED <<store, writes, ghostVars>>

PassStep(f) ==
    \/ BorrowOpens(f) \/ BorrowFails(f)
    \/ NodeFound(f) \/ NodeNotFound(f)
    \/ StoreSettles(f) \/ StoreFails(f) \/ StoreTimesOut(f)
    \/ EmbedsSettle(f)
-----------------------------------------------------------------------------
queueVars == <<queue, journal, claimed, breakerVars, slotVars, pass>>

(* A write the pass gave up on settles after all: it lands, or it fails.   *)
AbandonedWriteLands(w) ==
    /\ w.ws \notin Broken
    /\ store' = Upserted(w.ws, w.rows)
    /\ writes' = writes \ {w}
    /\ UNCHANGED <<queueVars, ghostVars, foldVars>>

AbandonedWriteFails(w) ==
    /\ writes' = writes \ {w}
    /\ UNCHANGED <<queueVars, store, ghostVars, foldVars>>

(* FLUSH_COOLDOWN_MS go by: the breaker is half-open.                      *)
CooldownElapses(ws) ==
    /\ quarantined[ws]
    /\ quarantined' = [quarantined EXCEPT ![ws] = FALSE]
    /\ UNCHANGED <<queue, journal, store, claimed, streak, slotVars, pass,
                   writes, ghostVars, foldVars>>

(* replayVerbatimJournal: pushEntry for every line, oldest first.          *)
Replayed(lines) ==
    LET after[i \in 0..Len(lines)] ==
            IF i = 0 THEN <<>> ELSE PushEntry(after[i - 1], lines[i])
    IN  after[Len(lines)]

(* The process is killed and started again: memory is fresh, and the       *)
(* journal, with lines more than before if the kill hit an enqueue between *)
(* its append and the rewrite, is replayed before anything else runs.      *)
KillAndReplay(lines) ==
    /\ kills < MaxKills
    /\ kills' = kills + 1
    /\ journal' = journal \o lines
    /\ queue' = Replayed(journal')
    /\ claimed' = 0
    /\ streak' = [ws \in Workspaces |-> 0]
    /\ quarantined' = [ws \in Workspaces |-> FALSE]
    /\ flushInFlight' = None
    /\ call' = [f \in Flushers |-> "idle"]
    /\ waitsFor' = [f \in Flushers |-> None]
    /\ pass' = [f \in Flushers |-> NoPass]
    /\ writes' = {}
    /\ givenUp' = givenUp \cup
          {e \in ToSet(journal') : \A d \in ToSet(queue') : d.id # e.id}
    /\ FoldReset
    /\ UNCHANGED <<store, accepted>>

Kill == KillAndReplay(<<>>) /\ UNCHANGED issued

KillInEnqueue(ws, id) ==
    /\ StoreCall(ws, id)
    /\ KillAndReplay(<<NextVersion(ws, id)>>)

FoldStep ==
    /\ FoldSettles \/ FoldIntervalPasses \/ (WithShutdown /\ ShutdownBegins)
    /\ UNCHANGED <<queueVars, store, writes, ghostVars>>

Next ==
    \/ \E r \in Requests : EnqueueVerbatim(r[1], r[2]) \/ KillInEnqueue(r[1], r[2])
    \/ \E f \in Flushers : FlushCall(f) \/ WaiterResumes(f) \/ PassStep(f)
    \/ \E w \in writes : AbandonedWriteLands(w) \/ AbandonedWriteFails(w)
    \/ \E ws \in Workspaces : CooldownElapses(ws)
    \/ Kill
    \/ FoldStep

Spec == Init /\ [][Next]_vars

(* The 30 s tick calls flush for ever, every await of a pass and of a      *)
(* waiting call is bounded by a timer, and a cooldown ends by itself.      *)
Fairness ==
    /\ \A f \in Flushers : /\ WF_vars(FlushCall(f))
                           /\ WF_vars(WaiterResumes(f))
                           /\ WF_vars(PassStep(f))
    /\ \A ws \in Workspaces : WF_vars(CooldownElapses(ws))

FairSpec == Spec /\ Fairness
-----------------------------------------------------------------------------
(* What the queue promises.                                                *)
(* The claimed entries a pass has still to land or give back.              *)
Held(f) ==
    LET p == pass[f]
    IN  CASE p.pc \in {"borrow", "check", "store"} -> ToSet(p.batch)
          [] p.pc = "settle" /\ p.probe -> ToSet(Tail(p.batch))
          [] OTHER -> {}

Landed(e) == store[e.ws][e.id] >= e.v

(* d stands for e: the same node of the same store, no older.              *)
StandsFor(d, e) == d.ws = e.ws /\ d.id = e.id /\ d.v >= e.v

Owed == {e \in accepted \ givenUp : ~Landed(e)}

(* A text whose store call returned, neither dropped at the cap nor        *)
(* rejected, is in the queue, in the hands of a pass, or in its store:     *)
(* claims, probes, requeues and overflow lose nothing else.                *)
NothingVanishes ==
    \A e \in Owed : \E d \in ToSet(queue) \cup UNION {Held(f) : f \in Flushers} :
        StandsFor(d, e)

(* "An entry therefore survives even a SIGKILL between enqueue and flush"  *)
(* (header of verbatimQueue.ts): whatever is not in its store has its line *)
(* in the journal, whatever the passes have claimed or compacted.          *)
JournalCoversOwed ==
    \A e \in Owed : \E d \in ToSet(journal) : StandsFor(d, e)

(* flushVerbatimQueue runs one pass at a time, and it is the one whose     *)
(* flusher holds the slot, however many calls wait and take over.          *)
OneFlushAtATime ==
    \A f \in Flushers : pass[f].pc # "none" <=> flushInFlight = f

(* A caller told that nothing remains (queue.length + claimedEntries = 0)  *)
(* is told so when nothing is in flight either.                            *)
NothingRemainsMeansLanded ==
    Len(queue) + claimed = 0 =>
        \A f \in Flushers : \A e \in Held(f) : e \in givenUp \/ Landed(e)

(* claimedEntries counts what the pass holds.                              *)
ClaimsCountHeld ==
    flushInFlight = None => claimed = 0

(* What the code does keep: a requeued batch is all the cap is passed by.  *)
QueueBounded == Len(queue) <= Cap + Batch

(* Between passes the journal holds the queue, so that a kill there brings *)
(* back every entry that waits.                                            *)
JournalHoldsQueue ==
    flushInFlight = None => ToSet(queue) \subseteq ToSet(journal)

(* No entry of a workspace whose breaker is open is claimed, and a         *)
(* workspace is attempted once in a pass.                                  *)
BreakerRespected ==
    [][\A f \in Flushers :
          /\ pass'[f].batch # <<>>
          /\ pass'[f].batch # pass[f].batch
          => LET ws == Head(pass'[f].batch).ws
             IN  /\ ~quarantined'[ws]
                 /\ ws \notin pass'[f].skip]_vars

(* The store of a healthy workspace receives what it is owed, although     *)
(* another workspace's writes may fail: a poison batch rotates to the      *)
(* back and never blocks the head of the line.                             *)
HealthyDrains ==
    \A r \in {q \in Requests : q[1] \in Healthy}, v \in 1..MaxPerRequest :
        LET e == [ws |-> r[1], id |-> r[2], v |-> v]
        IN  (e \in accepted) ~> (e \in givenUp \/ Landed(e))

(* Every flush call returns: no await of a pass is unbounded and a pass    *)
(* gives each workspace one chance.                                        *)
FlushCallsReturn ==
    \A f \in Flushers : (call[f] # "idle") ~> (call[f] = "idle")

(* The queue's state keeps its type, with one pass at a time.              *)
QueueOK == TypeOK /\ OneFlushAtATime

(* The journal has a line for whatever would be lost with the process:     *)
(* what is owed, and between passes what waits.                            *)
JournalComplete == JournalCoversOwed /\ JournalHoldsQueue

(* What the queue tells of itself is so: a caller who hears that nothing   *)
(* remains may stop, and memory is bounded by the cap and one batch.       *)
CountsHold == NothingRemainsMeansLanded /\ ClaimsCountHeld /\ QueueBounded

(* Healthy workspaces get all they are owed, and nobody waits for ever.    *)
QueueDrains == HealthyDrains /\ FlushCallsReturn
=============================================================================

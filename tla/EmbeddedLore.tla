---------------------------- MODULE EmbeddedLore ----------------------------
(* One open store (src/lore/embeddedLore.ts): the promise-chain mutex that    *)
(* serializes writes, compaction and dispose, the memoized list of edges with *)
(* its epoch, and the background links of nodes that are being embedded.      *)
(*                                                                            *)
(* Every call of _withMaintenanceLock takes the next slot of the chain, in the *)
(* order of the calls; its body runs once the slot before it has resolved.  A *)
(* step is what one callback does between two awaits; a native call that has  *)
(* landed (pc "landed") and the callback that learns of it are two steps.     *)
EXTENDS Integers, FiniteSets, SequencesExt

CONSTANTS
    Nodes, Edges,
    Ends,                  \* Ends[e]: the nodes edge e connects
    AtOpen,                \* the nodes an earlier process left in the directory
    Readers,               \* concurrent callers of listEdges
    Requests,              \* the calls that are made: records [op, on]
    MaxSlots,              \* bound: calls of _withMaintenanceLock
    PageSize, MaxPages,    \* of listEdges
    MaxEpoch,              \* bound: awaitEmbeds is called below this epoch
    None

Slots == 1 .. MaxSlots

\* A body stores a node, or nodes in bulk, stores edges (in bulk, or the two
\* directions of one, which stop at the first failure), deletes a node,
\* compacts, or disposes of the handles.
Ops == {"node", "nodes", "bulk", "pair", "delete", "maintain", "close"}

ASSUME StoreAssumption ==
    /\ Ends \in [Edges -> SUBSET Nodes]
    /\ AtOpen \subseteq Nodes
    /\ MaxSlots \in Nat /\ PageSize \in Nat \ {0} /\ MaxPages \in Nat \ {0} /\ MaxEpoch \in Nat
    /\ None \notin Edges \cup Nodes
    /\ \A q \in Requests :
          /\ q.op \in Ops
          /\ IF q.op \in {"bulk", "pair"} THEN q.on \in Seq(Edges) \ {<<>>}
                                         ELSE q.on \in SUBSET Nodes

VARIABLES
    nodes, rows,           \* the graph: nodes, and edges in the table's order
    embedding,             \* nodes whose embeds have not been settled
    state,                 \* of a slot: free, waiting, running, left, released
    job,                   \* of a slot: what its body does, how far it is
    taken,                 \* slots handed out
    compacting,            \* slots whose compaction runs in native code
    disposed,              \* the native handles are closed
    epoch, cache,          \* _edgeCacheEpoch, _edgeCache
    reader,                \* a listEdges under way
    settling,              \* an awaitEmbeds under way: the nodes it settles
    unannounced            \* history: a write threw after it had changed the
                           \* edges, and none has bumped the epoch since

chain == <<state, job, taken>>
memo == <<epoch, cache, unannounced>>
vars == <<nodes, rows, embedding, state, job, taken, compacting, disposed,
          epoch, cache, reader, settling, unannounced>>

Idle == [pc |-> "idle"]
NoJob == [op |-> "none", on |-> {}, new |-> FALSE, pc |-> "none"]

Init ==
    /\ nodes = AtOpen /\ rows = <<>> /\ embedding = {}
    /\ state = [k \in Slots |-> "free"] /\ job = [k \in Slots |-> NoJob]
    /\ taken = 0 /\ compacting = {} /\ disposed = FALSE
    /\ epoch = 0 /\ cache = None /\ unannounced = FALSE
    /\ reader = [r \in Readers |-> Idle] /\ settling = None

-----------------------------------------------------------------------------
(* The mutex. *)

\* The slot before k has resolved; the chain starts out resolved.
PrevReleased(k) == k > 1 => state[k - 1] = "released"

\* The body of k returns or throws, which resolves its slot.
Release(k) == state' = [state EXCEPT ![k] = "released"] /\ job' = [job EXCEPT ![k] = NoJob]

\* _withMaintenanceLock: take the next slot and wait for the one before it.
Take(k, q) ==
    /\ k = taken + 1
    /\ taken' = k
    /\ state' = [state EXCEPT ![k] = "waiting"]
    /\ job' = [job EXCEPT ![k] = [NoJob EXCEPT !.op = q.op, !.on = q.on, !.pc = "call"]]
    /\ UNCHANGED <<nodes, rows, embedding, compacting, disposed, memo, reader, settling>>

\* The wait is over and the body starts.
Enter(k) ==
    /\ state[k] = "waiting" /\ PrevReleased(k)
    /\ state' = [state EXCEPT ![k] = "running"]
    /\ compacting' = IF job[k].op = "maintain" /\ ~disposed
                     THEN compacting \cup {k} ELSE compacting
    /\ UNCHANGED <<nodes, rows, embedding, job, taken, disposed, memo, reader, settling>>

\* close() has waited CLOSE_LOCK_TIMEOUT_MS: it gives up, without a dispose.
CloseTimesOut(k) ==
    /\ state[k] = "waiting" /\ job[k].op = "close"
    /\ state' = [state EXCEPT ![k] = "left"]
    /\ UNCHANGED <<nodes, rows, embedding, job, taken, compacting, disposed, memo, reader, settling>>

\* The slot of the caller that walked away resolves when the one before it does.
LeftReleases(k) ==
    /\ state[k] = "left" /\ PrevReleased(k)
    /\ Release(k)
    /\ UNCHANGED <<nodes, rows, embedding, taken, compacting, disposed, memo, reader, settling>>

Running(k, ops, pc) == state[k] = "running" /\ job[k].op \in ops /\ job[k].pc = pc

-----------------------------------------------------------------------------
(* The bodies.  After the dispose every native call throws. *)

\* _bumpEdgeEpoch.
Bump == epoch' = epoch + 1 /\ cache' = None /\ unannounced' = FALSE
\* No bump, although the edges changed if new.
NoBump(new) == unannounced' = (unannounced \/ new) /\ UNCHANGED <<epoch, cache>>

\* storeNode, whose embedding is left to the background, and bulkStoreNodes,
\* which embeds in line and reports each row.
StoreNodes(k) ==
    /\ Running(k, {"node", "nodes"}, "call")
    /\ \E landed \in SUBSET job[k].on :
          /\ disposed => landed = {}
          /\ nodes' = nodes \cup landed
          /\ embedding' = IF job[k].op = "node" THEN embedding \cup landed ELSE embedding
    /\ Release(k)
    /\ UNCHANGED <<rows, taken, compacting, disposed, memo, reader, settling>>

\* addEdge matches both ends first, and does nothing when one is missing.
WithRow(e) == IF Contains(rows, e) \/ ~(Ends[e] \subseteq nodes) THEN rows ELSE Append(rows, e)

\* The edge in hand is the first of those left.
Edge(k) == Head(job[k].on)

\* What follows it: the next one, unless there is none or a pair's failed.
NextEdge(k, failed) ==
    IF Len(job[k].on) = 1 \/ (failed /\ job[k].op = "pair")
    THEN Release(k)
    ELSE /\ job' = [job EXCEPT ![k].on = Tail(@), ![k].new = FALSE, ![k].pc = "call"]
         /\ UNCHANGED state

\* The native addEdge has returned.
AddEdge(k) ==
    /\ Running(k, {"bulk", "pair"}, "call") /\ ~disposed
    /\ rows' = WithRow(Edge(k))
    /\ job' = [job EXCEPT ![k].new = rows' # rows, ![k].pc = "landed"]
    /\ UNCHANGED <<nodes, embedding, state, taken, compacting, disposed, memo, reader, settling>>

\* Every attempt threw, although one may have landed.
AddEdgeFails(k) ==
    /\ Running(k, {"bulk", "pair"}, "call")
    /\ rows' \in IF disposed THEN {rows} ELSE {rows, WithRow(Edge(k))}
    /\ NoBump(rows' # rows)
    /\ NextEdge(k, TRUE)
    /\ UNCHANGED <<nodes, embedding, taken, compacting, disposed, reader, settling>>

\* edgeExists reads the row back: it is there.
EdgeVerified(k) ==
    /\ Running(k, {"bulk", "pair"}, "landed") /\ Contains(rows, Edge(k)) /\ ~disposed
    /\ Bump
    /\ NextEdge(k, FALSE)
    /\ UNCHANGED <<nodes, rows, embedding, taken, compacting, disposed, reader, settling>>

\* The row is not there, or its query failed, which edgeExists reports alike.
EdgeMissing(k) ==
    /\ Running(k, {"bulk", "pair"}, "landed")
    /\ NoBump(job[k].new)
    /\ NextEdge(k, TRUE)
    /\ UNCHANGED <<nodes, rows, embedding, taken, compacting, disposed, reader, settling>>

\* The rows that touch none of the nodes of S, in the table's order.
Without(S) ==
    LET kept[i \in 0 .. Len(rows)] ==
            IF i = 0 THEN <<>>
            ELSE IF Ends[rows[i]] \cap S = {} THEN Append(kept[i - 1], rows[i])
                                              ELSE kept[i - 1]
    IN  kept[Len(rows)]

\* The native delete has returned: TRUE, or FALSE when there was no such node, or
\* when an attempt that threw had deleted it already.
DeleteNode(k) ==
    /\ Running(k, {"delete"}, "call") /\ ~disposed
    /\ nodes' = nodes \ job[k].on
    /\ rows' = Without(job[k].on)
    /\ embedding' = embedding \ job[k].on
    /\ \E said \in BOOLEAN :
          /\ said => nodes' # nodes
          /\ job' = [job EXCEPT ![k].new = rows' # rows,
                                ![k].pc = IF said THEN "deleted" ELSE "absent"]
    /\ UNCHANGED <<state, taken, compacting, disposed, memo, reader, settling>>

\* Every attempt to delete threw, although one may have landed.
DeleteFails(k) ==
    /\ Running(k, {"delete"}, "call")
    /\ \E landed \in SUBSET job[k].on :
          /\ disposed => landed = {}
          /\ nodes' = nodes \ landed
          /\ rows' = Without(landed)
          /\ embedding' = embedding \ landed
    /\ NoBump(rows' # rows)
    /\ Release(k)
    /\ UNCHANGED <<taken, compacting, disposed, reader, settling>>

\* deleteNode learns of it, and goes on to the vectors, whose failure is ignored.
DeleteReturns(k) ==
    /\ \/ Running(k, {"delete"}, "deleted") /\ Bump
       \/ Running(k, {"delete"}, "absent") /\ NoBump(job[k].new)
    /\ Release(k)
    /\ UNCHANGED <<nodes, rows, embedding, taken, compacting, disposed, reader, settling>>

\* runMaintenance: the tool answers; or fails; or its client stops waiting after
\* 120 seconds, while the compaction goes on.
MaintainReturns(k) ==
    /\ Running(k, {"maintain"}, "call")
    /\ compacting' = compacting \ {k}
    /\ Release(k)
    /\ UNCHANGED <<nodes, rows, embedding, taken, disposed, memo, reader, settling>>

MaintainTimesOut(k) ==
    /\ Running(k, {"maintain"}, "call") /\ k \in compacting
    /\ Release(k)
    /\ UNCHANGED <<nodes, rows, embedding, taken, compacting, disposed, memo, reader, settling>>

CompactionEnds(k) ==
    /\ k \in compacting /\ state[k] = "released"
    /\ compacting' = compacting \ {k}
    /\ UNCHANGED <<nodes, rows, embedding, chain, disposed, memo, reader, settling>>

Dispose(k) ==
    /\ Running(k, {"close"}, "call")
    /\ disposed' = TRUE
    /\ Release(k)
    /\ UNCHANGED <<nodes, rows, embedding, taken, compacting, memo, reader, settling>>

-----------------------------------------------------------------------------
(* Reads, which take no lock. *)

CacheValid == cache # None /\ cache.epoch = epoch

\* listEdges without a valid cache: the walk is keyed to the epoch it starts under.
List(r) ==
    /\ reader[r].pc = "idle" /\ ~CacheValid /\ ~disposed
    /\ reader' = [reader EXCEPT ![r] = [pc |-> "page", at |-> epoch, got |-> {},
                                        pages |-> 0, first |-> None]]
    /\ UNCHANGED <<nodes, rows, embedding, chain, compacting, disposed, memo, settling>>

(* Mutant: what was walked is keyed to the epoch at the end of the walk. *)
PageKeyedAtEnd(r) ==
    LET this == reader[r]
        rest == SubSeq(rows, this.pages * PageSize + 1, Len(rows))
        batch == IF Len(rest) > PageSize THEN SubSeq(rest, 1, PageSize) ELSE rest
    IN  /\ this.pc = "page"
        /\ IF Len(batch) < PageSize
           THEN /\ reader' = [reader EXCEPT ![r] = Idle]
                /\ cache' = [epoch |-> epoch, edges |-> this.got \cup ToSet(batch)]
           ELSE /\ reader' = [reader EXCEPT ![r].got = @ \cup ToSet(batch), ![r].pages = @ + 1]
                /\ UNCHANGED cache
        /\ UNCHANGED <<nodes, rows, embedding, chain, compacting, disposed, epoch,
                       unannounced, settling>>

\* The next page: the walk ends with a short page, with one that starts like the
\* last (a backend that ignores the offset), or at the limit, and is remembered.
Page(r) ==
    LET this == reader[r]
        rest == SubSeq(rows, this.pages * PageSize + 1, Len(rows))
        batch == IF Len(rest) > PageSize THEN SubSeq(rest, 1, PageSize) ELSE rest
        first == IF batch = <<>> THEN None ELSE Head(batch)
        stuck == this.pages > 0 /\ first # None /\ first = this.first
        got == IF stuck THEN this.got ELSE this.got \cup ToSet(batch)
        ends == stuck \/ Len(batch) < PageSize \/ this.pages + 1 = MaxPages
    IN  /\ this.pc = "page"
        /\ IF ends
           THEN /\ reader' = [reader EXCEPT ![r] = Idle]
                /\ cache' = [epoch |-> this.at, edges |-> got]
           ELSE /\ reader' = [reader EXCEPT ![r].got = got, ![r].pages = @ + 1, ![r].first = first]
                /\ UNCHANGED cache
        /\ UNCHANGED <<nodes, rows, embedding, chain, compacting, disposed, epoch,
                       unannounced, settling>>

\* A page fails for good: the walk throws, and nothing is remembered.
PageFails(r) ==
    /\ reader[r].pc = "page"
    /\ reader' = [reader EXCEPT ![r] = Idle]
    /\ UNCHANGED <<nodes, rows, embedding, chain, compacting, disposed, memo, settling>>

\* awaitEmbeds drives the embeds of the nodes stored so far to their end.
AwaitEmbeds ==
    /\ settling = None /\ embedding # {} /\ epoch < MaxEpoch
    /\ settling' = embedding
    /\ UNCHANGED <<nodes, rows, embedding, chain, compacting, disposed, memo, reader>>

\* It returns, having settled them or having met an error, and bumps in any case.
EmbedsSettled ==
    /\ settling # None
    /\ \/ embedding' = embedding \ settling
       \/ UNCHANGED embedding
    /\ settling' = None
    /\ Bump
    /\ UNCHANGED <<nodes, rows, chain, compacting, disposed, reader>>

\* External: the library links a node that is being embedded with similar ones.
AutoLink(e) ==
    /\ embedding \cap Ends[e] # {} /\ Ends[e] \subseteq nodes /\ ~disposed
    /\ ~Contains(rows, e)
    /\ rows' = Append(rows, e)
    /\ UNCHANGED <<nodes, embedding, chain, compacting, disposed, memo, reader, settling>>

-----------------------------------------------------------------------------
Body(k) ==
    \/ Enter(k) \/ LeftReleases(k) \/ CloseTimesOut(k)
    \/ StoreNodes(k)
    \/ AddEdge(k) \/ AddEdgeFails(k)
    \/ EdgeVerified(k) \/ EdgeMissing(k)
    \/ DeleteNode(k) \/ DeleteFails(k) \/ DeleteReturns(k)
    \/ MaintainReturns(k) \/ MaintainTimesOut(k) \/ CompactionEnds(k)
    \/ Dispose(k)

Next ==
    \/ \E k \in Slots : Body(k) \/ (\E q \in Requests : Take(k, q))
    \/ \E r \in Readers : List(r) \/ Page(r) \/ PageFails(r)
    \/ AwaitEmbeds \/ EmbedsSettled
    \/ \E e \in Edges : AutoLink(e)

Spec == Init /\ [][Next]_vars

\* Promises resolve and timers fire; a dispose that has begun returns.  Nothing is
\* assumed of the other native calls: they may be wedged for ever.
Fairness == \A k \in Slots : WF_vars(Enter(k)) /\ WF_vars(CloseTimesOut(k))
                             /\ WF_vars(LeftReleases(k)) /\ WF_vars(Dispose(k))

FairSpec == Spec /\ Fairness

-----------------------------------------------------------------------------
(* What the store promises. *)

\* Every variable keeps its type.
TypeOK ==
    /\ nodes \subseteq Nodes /\ embedding \subseteq Nodes
    /\ ToSet(rows) \subseteq Edges /\ IsInjective(rows)
    /\ state \in [Slots -> {"free", "waiting", "running", "left", "released"}]
    /\ \A k \in Slots : job[k].op \in Ops \cup {"none"}
    /\ taken \in 0 .. MaxSlots /\ compacting \subseteq Slots
    /\ disposed \in BOOLEAN /\ epoch \in Nat /\ unannounced \in BOOLEAN
    /\ cache = None \/ (cache.epoch \in 0 .. epoch /\ cache.edges \subseteq Edges)
    /\ \A r \in Readers : reader[r].pc \in {"idle", "page"}
    /\ settling = None \/ settling \subseteq Nodes

\* Two bodies never run at once, and they run in the order of the calls, also
\* after a close() that gave up waiting: its slot stays chained to the holder it
\* left behind (embeddedLore.ts:175-187, 217-223).
OneBody ==
    \A j, k \in Slots : j < k /\ state[k] = "running" => state[j] = "released"

\* Nothing is written, and no handle is closed, while a compaction rewrites the
\* tables, unless that compaction's own client stopped waiting for it
\* (embeddedLore.ts:137-143, 1428; the client's timeout at 1453 frees the lock).
CompactsAlone ==
    \A k \in compacting : state[k] = "running" =>
        /\ \A j \in Slots \ {k} : state[j] # "running"
        /\ ~disposed

\* A cached list of edges that would be served is what a walk would return, once
\* the embeds have settled and no write sits between its change and its answer;
\* unless a write that threw had changed the edges (embeddedLore.ts:146-162, 955).
CacheIsCurrent ==
    (/\ CacheValid /\ embedding = {} /\ ~unannounced
     /\ \A k \in Slots : state[k] = "running" => job[k].pc = "call"
     /\ Len(rows) < PageSize * MaxPages)
        => cache.edges = ToSet(rows)

\* A close() that is asked for returns, whatever the holders of the lock do
\* (embeddedLore.ts:326-341).
CloseReturns ==
    \A k \in Slots : []<>(job[k].op = "close" => state[k] \in {"left", "released"})

\* The store's lock does what it is for: bodies one by one, compactions alone.
BodiesApart == OneBody /\ CompactsAlone

\* Every variable keeps its type, bodies run apart, and no stale list of edges is served.
StoreOK == TypeOK /\ BodiesApart /\ CacheIsCurrent
=============================================================================

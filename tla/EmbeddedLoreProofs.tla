------------------------- MODULE EmbeddedLoreProofs -------------------------
(* Proofs for one open store: the mutex runs one body at a time, in the order *)
(* of the calls, and a compaction is alone while its client waits for it      *)
(* (src/lore/embeddedLore.ts).                                                *)
EXTENDS EmbeddedLore, WellFoundedInduction, SequenceTheorems, TLAPS

States == {"free", "waiting", "running", "left", "released"}

\* The parts of the state the chain is made of.
ChainOK ==
    /\ taken \in 0 .. MaxSlots
    /\ state \in [Slots -> States]
    /\ DOMAIN job = Slots
    /\ \A k \in Slots : k > taken => state[k] = "free"

\* A slot that runs, or has run, is behind released ones only.
Ordered ==
    \A j, k \in Slots :
        j < k /\ state[k] \in {"running", "released"} => state[j] = "released"

\* A compaction is that of a body which runs or has run; while it runs, the
\* handles are open.
Compactions ==
    /\ compacting \subseteq Slots
    /\ \A k \in compacting :
          /\ state[k] \in {"running", "released"}
          /\ state[k] = "running" => job[k].op = "maintain" /\ ~disposed

IInv == ChainOK /\ Ordered /\ Compactions

\* The slots before one whose turn has come are all released.
LEMMA TurnComes ==
    ASSUME IInv, NEW k \in Slots, PrevReleased(k)
    PROVE  \A j \in Slots : j < k => state[j] = "released"
<1>1. SUFFICES ASSUME NEW j \in Slots, j < k
               PROVE  state[j] = "released"
      OBVIOUS
<1>2. k \in Int /\ j \in Int /\ k - 1 \in Slots /\ k > 1
      BY <1>1, StoreAssumption DEF Slots
<1>3. state[k - 1] = "released"
      BY <1>2 DEF PrevReleased
<1>4. CASE j = k - 1
      BY <1>3, <1>4
<1>5. CASE j < k - 1
      BY <1>2, <1>3, <1>5 DEF IInv, Ordered
<1> QED BY <1>1, <1>2, <1>4, <1>5

\* A body that runs may return: its slot, and nothing else, is released.
LEMMA ReleasePreserves ==
    ASSUME IInv, NEW k \in Slots,
           state[k] = "running" \/ (state[k] = "left" /\ PrevReleased(k)),
           Release(k), taken' = taken,
           compacting' \subseteq compacting,
           disposed' = disposed \/ (state[k] = "running" /\ job[k].op # "maintain")
    PROVE  IInv'
<1>1. ChainOK'
      BY DEF IInv, ChainOK, Release, States
<1>2. \A j \in Slots : j < k => state[j] = "released"
      <2>1. CASE state[k] = "running"
            BY <2>1 DEF IInv, Ordered
      <2>2. CASE state[k] = "left" /\ PrevReleased(k)
            BY <2>2, TurnComes
      <2> QED BY <2>1, <2>2
<1>3. Ordered'
      BY <1>2 DEF IInv, ChainOK, Ordered, Release
<1>4. Compactions'
      <2>1. SUFFICES ASSUME NEW c \in compacting', c # k, state[c] = "running"
                     PROVE  ~disposed'
            BY DEF IInv, ChainOK, Compactions, Release
      <2>2. c \in Slots /\ ~disposed
            BY <2>1 DEF IInv, Compactions
      <2>3. state[k] # "running"
            <3>1. SUFFICES ASSUME state[k] = "running" PROVE FALSE
                  OBVIOUS
            <3>2. c < k \/ k < c
                  BY <2>1, <2>2, StoreAssumption DEF Slots
            <3> QED BY <2>1, <2>2, <3>1, <3>2 DEF IInv, Ordered
      <2> QED BY <2>2, <2>3
<1> QED BY <1>1, <1>3, <1>4 DEF IInv

\* A step inside a body that is not a compaction leaves the chain as it is.
LEMMA BodyPreserves ==
    ASSUME IInv, NEW k \in Slots, state[k] = "running", job[k].op # "maintain",
           NEW new, job' = [job EXCEPT ![k] = new],
           UNCHANGED <<state, taken, compacting, disposed>>
    PROVE  IInv'
<1>1. ChainOK' /\ Ordered'
      BY DEF IInv, ChainOK, Ordered
<1>2. k \notin compacting
      BY DEF IInv, Compactions
<1>3. Compactions'
      BY <1>2 DEF IInv, ChainOK, Compactions
<1> QED BY <1>1, <1>3 DEF IInv

\* What follows an edge is the release of the slot, or the next edge.
LEMMA NextEdgePreserves ==
    ASSUME IInv, NEW k \in Slots, NEW failed \in BOOLEAN,
           state[k] = "running", job[k].op # "maintain",
           NextEdge(k, failed), UNCHANGED <<taken, compacting, disposed>>
    PROVE  IInv'
<1>1. CASE Release(k)
      BY <1>1, ReleasePreserves
<1>2. CASE /\ job' = [job EXCEPT ![k].on = Tail(@), ![k].new = FALSE, ![k].pc = "call"]
           /\ UNCHANGED state
      <2>1. PICK new : job' = [job EXCEPT ![k] = new]
            BY <1>2 DEF IInv, ChainOK
      <2> QED BY <1>2, <2>1, BodyPreserves
<1> QED BY <1>1, <1>2 DEF NextEdge

\* Nothing of the chain changes.
LEMMA Elsewhere ==
    ASSUME IInv, UNCHANGED <<state, job, taken, compacting, disposed>>
    PROVE  IInv'
BY DEF IInv, ChainOK, Ordered, Compactions

\* A call that queues behind the last slot keeps the order of the chain.
LEMMA TakePreserves ==
    ASSUME IInv, NEW k \in Slots, NEW q \in Requests, Take(k, q)
    PROVE  IInv'
<1> USE DEF Take
<1>1. k \in Nat /\ taken \in Nat /\ k = taken + 1 /\ k <= MaxSlots /\ state[k] = "free"
      BY StoreAssumption DEF IInv, ChainOK, Slots
<1>2. ChainOK'
      BY <1>1, StoreAssumption DEF IInv, ChainOK, States, Slots
<1>3. Ordered'
      <2>1. \A c \in Slots : k < c => state[c] = "free"
            BY <1>1, StoreAssumption DEF IInv, ChainOK, Slots
      <2> QED BY <1>1, <2>1 DEF IInv, ChainOK, Ordered
<1>4. Compactions'
      BY <1>1 DEF IInv, ChainOK, Compactions
<1> QED BY <1>2, <1>3, <1>4 DEF IInv

\* A body begins when its predecessor has resolved, and so runs alone.
LEMMA EnterPreserves ==
    ASSUME IInv, NEW k \in Slots, Enter(k)
    PROVE  IInv'
<1> USE DEF Enter
<1>1. \A j \in Slots : j < k => state[j] = "released"
      BY TurnComes
<1>2. ChainOK'
      BY DEF IInv, ChainOK, States
<1>3. Ordered'
      BY <1>1 DEF IInv, ChainOK, Ordered
<1>4. k \notin compacting
      BY DEF IInv, Compactions
<1>5. Compactions'
      BY <1>4 DEF IInv, ChainOK, Compactions
<1> QED BY <1>2, <1>3, <1>5 DEF IInv

\* A close() that gives up leaves its slot to the chain.
LEMMA CloseTimesOutPreserves ==
    ASSUME IInv, NEW k \in Slots, CloseTimesOut(k)
    PROVE  IInv'
<1> USE DEF CloseTimesOut
<1>1. ChainOK'
      BY StoreAssumption DEF IInv, ChainOK, States, Slots
<1>2. Ordered'
      BY DEF IInv, ChainOK, Ordered
<1>3. Compactions'
      BY DEF IInv, ChainOK, Compactions
<1> QED BY <1>1, <1>2, <1>3 DEF IInv

\* A body runs on or ends, and its slot with it.
LEMMA BodyStep ==
    ASSUME IInv, NEW k \in Slots, Body(k)
    PROVE  IInv'
<1>1. CASE Enter(k)
      BY <1>1, EnterPreserves
<1>2. CASE LeftReleases(k)
      BY <1>2, ReleasePreserves DEF LeftReleases
<1>3. CASE CloseTimesOut(k)
      BY <1>3, CloseTimesOutPreserves
<1>4. CASE StoreNodes(k)
      BY <1>4, ReleasePreserves DEF StoreNodes, Running
<1>5. CASE AddEdge(k)
      <2>1. PICK new : job' = [job EXCEPT ![k] = new]
            BY <1>5 DEF AddEdge, IInv, ChainOK
      <2> QED BY <1>5, <2>1, BodyPreserves DEF AddEdge, Running
<1>6. CASE AddEdgeFails(k)
      BY <1>6, NextEdgePreserves DEF AddEdgeFails, Running
<1>7. CASE EdgeVerified(k)
      BY <1>7, NextEdgePreserves DEF EdgeVerified, Running
<1>8. CASE EdgeMissing(k)
      BY <1>8, NextEdgePreserves DEF EdgeMissing, Running
<1>9. CASE DeleteNode(k)
      <2>1. PICK new : job' = [job EXCEPT ![k] = new]
            BY <1>9 DEF DeleteNode, IInv, ChainOK
      <2> QED BY <1>9, <2>1, BodyPreserves DEF DeleteNode, Running
<1>10. CASE DeleteFails(k)
      BY <1>10, ReleasePreserves DEF DeleteFails, Running
<1>11. CASE DeleteReturns(k)
      BY <1>11, ReleasePreserves DEF DeleteReturns, Running
<1>12. CASE MaintainReturns(k)
      BY <1>12, ReleasePreserves DEF MaintainReturns, Running
<1>13. CASE MaintainTimesOut(k)
      BY <1>13, ReleasePreserves DEF MaintainTimesOut, Running
<1>14. CASE CompactionEnds(k)
      BY <1>14 DEF CompactionEnds, chain, IInv, ChainOK, Ordered, Compactions
<1>15. CASE Dispose(k)
      BY <1>15, ReleasePreserves DEF Dispose, Running
<1> QED BY <1>1, <1>2, <1>3, <1>4, <1>5, <1>6, <1>7, <1>8, <1>9, <1>10, <1>11,
           <1>12, <1>13, <1>14, <1>15 DEF Body

\* Every step keeps the order of the chain.
LEMMA Inductive ==
    ASSUME IInv, [Next]_vars
    PROVE  IInv'
<1>1. CASE \E k \in Slots : Body(k)
      BY <1>1, BodyStep
<1>2. CASE \E k \in Slots : \E q \in Requests : Take(k, q)
      BY <1>2, TakePreserves
<1>3. CASE \E r \in Readers : List(r) \/ Page(r) \/ PageFails(r)
      BY <1>3, Elsewhere DEF List, Page, PageFails, chain
<1>4. CASE AwaitEmbeds \/ EmbedsSettled
      BY <1>4, Elsewhere DEF AwaitEmbeds, EmbedsSettled, chain
<1>5. CASE \E e \in Edges : AutoLink(e)
      BY <1>5, Elsewhere DEF AutoLink, chain
<1>6. CASE UNCHANGED vars
      BY <1>6, Elsewhere DEF vars
<1> QED BY <1>1, <1>2, <1>3, <1>4, <1>5, <1>6 DEF Next

\* The chain of slots is in order, and every compaction belongs to a body that
\* runs over open handles or has walked away from it: inductive, for any number
\* of calls, nodes, edges and readers (embeddedLore.ts:188-225, 346-367).
THEOREM InductiveInvariant == Spec => []IInv
<1>1. Init => IInv
      BY StoreAssumption DEF Init, IInv, ChainOK, Ordered, Compactions, States
<1> QED BY <1>1, Inductive, PTL DEF Spec

\* Two bodies never run at once, and they run in the order of the calls, also
\* after a close() that gave up waiting (embeddedLore.ts:175-187, 217-223).
THEOREM OneBodyTheorem == Spec => []OneBody
<1>1. IInv => OneBody
      BY DEF IInv, Ordered, OneBody
<1> QED BY <1>1, InductiveInvariant, PTL

\* Nothing is written, and no handle is closed, while a compaction that is waited
\* for rewrites the tables (embeddedLore.ts:137-143, 1428).
THEOREM CompactsAloneTheorem == Spec => []CompactsAlone
<1>1. ASSUME IInv PROVE CompactsAlone
      <2>1. SUFFICES ASSUME NEW k \in compacting, state[k] = "running",
                            NEW j \in Slots \ {k}, state[j] = "running"
                     PROVE  FALSE
            BY <1>1 DEF IInv, Compactions, CompactsAlone
      <2>2. k \in Slots /\ (j < k \/ k < j)
            BY <1>1, <2>1, StoreAssumption DEF IInv, Compactions, Slots
      <2> QED BY <1>1, <2>1, <2>2 DEF IInv, Ordered
<1> QED BY <1>1, InductiveInvariant, PTL

\* The lock does what it is for, for any number of callers and closes that gave up:
\* bodies one by one, compactions alone (embeddedLore.ts:137-143, 175-225).
THEOREM BodiesApartTheorem == Spec => []BodiesApart
<1>1. OneBody /\ CompactsAlone => BodiesApart
      BY DEF BodiesApart
<1> QED BY <1>1, OneBodyTheorem, CompactsAloneTheorem, PTL

-----------------------------------------------------------------------------
(* The graph and the memoized list of edges.                                 *)

Pcs == {"none", "call", "landed", "deleted", "absent"}
Job == [op : Ops \cup {"none"}, on : (SUBSET Nodes) \cup Seq(Edges), new : BOOLEAN, pc : Pcs]

\* What the body of a slot in state s does, j, is well formed; the edges have
\* changed under it only between a native call and the callback that learns of it.
JobOK(s, j) ==
    /\ j \in Job
    /\ IF j.op \in {"bulk", "pair"} THEN j.on \in Seq(Edges) \ {<<>>} ELSE j.on \in SUBSET Nodes
    /\ j.new => s = "running" /\ j.pc \in {"landed", "deleted", "absent"}

Jobs == job \in [Slots -> Job] /\ \A k \in Slots : JobOK(state[k], job[k])

\* The graph.
Graph ==
    /\ nodes \subseteq Nodes /\ embedding \subseteq Nodes
    /\ rows \in Seq(Edges) /\ IsInjective(rows)
    /\ disposed \in BOOLEAN
    /\ settling = None \/ settling \subseteq Nodes

\* The epoch, what is remembered, and the walks: none is of an epoch to come.
Walk == [pc : {"page"}, at : Nat, got : SUBSET Edges, pages : Nat, first : Edges \cup {None}]

Memo ==
    /\ epoch \in Nat /\ unannounced \in BOOLEAN
    /\ cache = None \/ (cache.epoch \in 0 .. epoch /\ cache.edges \subseteq Edges)
    /\ DOMAIN reader = Readers
    /\ \A r \in Readers : \/ reader[r] = Idle
                          \/ reader[r] \in Walk /\ reader[r].at <= epoch

\* A write has changed the edges, and no bump has followed it yet.
Written == unannounced \/ \E k \in Slots : job[k].new

\* Until then the table has only grown since the epoch began, by links of nodes
\* that are being embedded: a walk has got exactly the rows of the pages behind it.
WalkOK(w) ==
    /\ w.pages < MaxPages
    /\ w.pages * PageSize <= Len(rows)
    /\ w.got = {rows[i] : i \in 1 .. w.pages * PageSize}
    /\ w.pages > 0 => w.first = rows[(w.pages - 1) * PageSize + 1]

Walks ==
    \A r \in Readers :
        reader[r].pc = "page" /\ reader[r].at = epoch /\ ~Written => WalkOK(reader[r])

\* And what is remembered lacks no row but such links, or the table outgrew a walk.
Kept ==
    CacheValid /\ ~Written =>
        \/ Len(rows) >= PageSize * MaxPages
        \/ /\ cache.edges \subseteq ToSet(rows)
           /\ \A i \in 1 .. Len(rows) :
                 rows[i] \in cache.edges \/ Ends[rows[i]] \cap embedding # {}

Store == Jobs /\ Graph /\ Memo /\ Walks /\ Kept

SInv == IInv /\ Store

\* A set of numbers has a least one.
LEMMA Least ==
    ASSUME NEW T \in SUBSET Nat, T # {}
    PROVE  \E n \in T : \A m \in T : n <= m
<1>1. PICK n \in T : \A m \in T : <<m, n>> \notin OpToRel(<, Nat)
      BY NatLessThanWellFounded, WFMin
<1>2. OpToRel(<, Nat) = {p \in Nat \X Nat : p[1] < p[2]}
      BY DEF OpToRel
<1>3. \A m \in T : ~(m < n)
      BY <1>1, <1>2
<1> QED BY <1>3

\* What holds of 0, and of the number after one it holds of, holds up to n.
LEMMA UpTo ==
    ASSUME NEW n \in Nat, NEW S, 0 \in S, \A k \in 0 .. n - 1 : k \in S => k + 1 \in S
    PROVE  n \in S
<1>1. SUFFICES ASSUME (0 .. n) \ S # {} PROVE FALSE
      OBVIOUS
<1>2. PICK k \in (0 .. n) \ S : \A m \in (0 .. n) \ S : k <= m
      <2>1. (0 .. n) \ S \in SUBSET Nat
            OBVIOUS
      <2> QED BY <1>1, <2>1, Least
<1>3. k # 0 /\ k - 1 \in 0 .. n - 1
      BY <1>2
<1>4. k - 1 \in S
      BY <1>2, <1>3
<1> QED BY <1>2, <1>3, <1>4

\* An edge that joins the rows is a new one at their end.
LEMMA WithRowIs ==
    ASSUME Graph, NEW e \in Edges
    PROVE  /\ Append(rows, e) \in Seq(Edges)
           /\ ~Contains(rows, e) => IsInjective(Append(rows, e))
           /\ WithRow(e) \in Seq(Edges) /\ IsInjective(WithRow(e))
<1>1. PICK new : new = Append(rows, e)
      OBVIOUS
<1>2. new \in Seq(Edges) /\ Len(new) = Len(rows) + 1
      /\ \A i \in 1 .. Len(new) : new[i] = IF i <= Len(rows) THEN rows[i] ELSE e
      BY <1>1 DEF Graph
<1>3. ASSUME ~Contains(rows, e) PROVE IsInjective(new)
      <2>1. Len(rows) \in Nat /\ DOMAIN rows = 1 .. Len(rows) /\ DOMAIN new = 1 .. Len(rows) + 1
            BY <1>2 DEF Graph
      <2>2. \A i \in 1 .. Len(rows) : rows[i] # e
            BY <1>3 DEF Contains
      <2>3. \A i, j \in 1 .. Len(rows) : rows[i] = rows[j] => i = j
            BY <2>1 DEF Graph, IsInjective
      <2>4. ASSUME NEW i \in 1 .. Len(rows) + 1, NEW j \in 1 .. Len(rows) + 1, new[i] = new[j]
            PROVE  i = j
            BY <1>2, <2>1, <2>2, <2>3, <2>4
      <2> QED BY <2>1, <2>4 DEF IsInjective
<1>4. WithRow(e) = rows \/ (WithRow(e) = new /\ ~Contains(rows, e))
      BY <1>1 DEF WithRow
<1> QED BY <1>1, <1>2, <1>3, <1>4 DEF Graph

\* The rows kept of the first i, and so on: there are such sequences.
Keeping(S, g, n) ==
    g = [i \in 0 .. n |-> IF i = 0 THEN <<>>
                          ELSE IF Ends[rows[i]] \cap S = {} THEN Append(g[i - 1], rows[i])
                                                            ELSE g[i - 1]]

\* There are the rows kept of the first i, for every i: each is determined by the one before.
LEMMA KeepingExists ==
    ASSUME Graph, NEW S
    PROVE  \E g : Keeping(S, g, Len(rows))
<1>1. PICK L \in Nat : L = Len(rows)
      BY DEF Graph
<1> DEFINE F(h, i) == IF Ends[rows[i]] \cap S = {} THEN Append(h, rows[i]) ELSE h
<1> DEFINE T == {n \in 0 .. L : \E g : Keeping(S, g, n)}
<1>2. 0 \in T
      <2>1. PICK g : g = [i \in 0 .. 0 |-> <<>>]
            OBVIOUS
      <2>2. Keeping(S, g, 0)
            BY <2>1 DEF Keeping
      <2> QED BY <1>1, <2>2
<1>3. ASSUME NEW k \in 0 .. L - 1, k \in T PROVE k + 1 \in T
      <2>1. PICK g : Keeping(S, g, k)
            BY <1>3
      <2>2. PICK h : h = [i \in 0 .. k + 1 |-> IF i = k + 1 THEN F(g[k], k + 1) ELSE g[i]]
            OBVIOUS
      <2>3. \A i \in 0 .. k : h[i] = g[i] /\ i # k + 1
            BY <1>1, <2>2
      <2>4. h[0] = <<>>
            BY <1>1, <2>1, <2>3 DEF Keeping
      <2>5. ASSUME NEW i \in 1 .. k PROVE h[i] = F(h[i - 1], i)
            <3>1. i \in 0 .. k /\ i - 1 \in 0 .. k /\ i # 0
                  BY <1>1
            <3>2. g[i] = F(g[i - 1], i)
                  BY <2>1, <3>1 DEF Keeping
            <3> QED BY <2>3, <3>1, <3>2
      <2>6. h[k + 1] = F(h[k], k + 1)
            BY <1>1, <2>2, <2>3
      <2>7. ASSUME NEW i \in 0 .. k + 1 PROVE h[i] = IF i = 0 THEN <<>> ELSE F(h[i - 1], i)
            <3>1. i = 0 \/ i \in 1 .. k \/ (i = k + 1 /\ i # 0 /\ i - 1 = k)
                  BY <1>1
            <3>2. i \in 1 .. k => i # 0
                  BY <1>1
            <3> HIDE DEF F
            <3> QED BY <2>4, <2>5, <2>6, <3>1, <3>2
      <2>8. Keeping(S, h, k + 1)
            BY <2>2, <2>7 DEF Keeping
      <2> QED BY <1>1, <2>8
<1>4. L \in T
      <2> HIDE DEF T
      <2> QED BY <1>1, <1>2, <1>3, UpTo
<1> QED BY <1>1, <1>4

\* What a deletion leaves: rows in the table's order; if it is all of them, none of
\* them touched what was deleted.
LEMMA WithoutIs ==
    ASSUME Graph, NEW S
    PROVE  /\ Without(S) \in Seq(Edges) /\ IsInjective(Without(S))
           /\ Without(S) = rows => \A i \in 1 .. Len(rows) : Ends[rows[i]] \cap S = {}
<1>1. PICK L \in Nat : L = Len(rows)
      BY DEF Graph
<1>2. \A i \in 1 .. L : rows[i] \in Edges
      BY <1>1 DEF Graph
<1>3. \A i, j \in 1 .. L : rows[i] = rows[j] => i = j
      BY <1>1 DEF Graph, IsInjective
<1>4. PICK kept : Keeping(S, kept, L) /\ Without(S) = kept[L]
      <2>1. PICK kept : kept = CHOOSE g : Keeping(S, g, L)
            OBVIOUS
      <2>2. Keeping(S, kept, L)
            BY <1>1, <2>1, KeepingExists
      <2>3. Without(S) = kept[L]
            BY <1>1, <2>1 DEF Without, Keeping
      <2> QED BY <2>2, <2>3
<1> DEFINE Part(s, n) ==
        /\ s \in Seq(Edges)
        /\ \A j \in 1 .. Len(s) :
              \E i \in 1 .. n : s[j] = rows[i] /\ Ends[rows[i]] \cap S = {}
        /\ \A j, l \in 1 .. Len(s) : s[j] = s[l] => j = l
<1> DEFINE T == {n \in 0 .. L : Part(kept[n], n)}
<1>5. 0 \in T
      <2>1. kept[0] = <<>>
            BY <1>1, <1>4 DEF Keeping
      <2>2. <<>> \in Seq(Edges) /\ Len(<<>>) = 0
            OBVIOUS
      <2>3. Part(kept[0], 0)
            BY <2>1, <2>2
      <2> QED BY <1>1, <2>3
<1>6. ASSUME NEW k \in 0 .. L - 1, k \in T PROVE k + 1 \in T
      <2>1. k + 1 \in 1 .. L /\ k + 1 \in 0 .. L /\ k + 1 # 0 /\ (k + 1) - 1 = k /\ k \in Nat
            BY <1>1
      <2>2. kept[k + 1] = IF Ends[rows[k + 1]] \cap S = {} THEN Append(kept[k], rows[k + 1])
                          ELSE kept[k]
            BY <1>4, <2>1 DEF Keeping
      <2>3. PICK s : s = kept[k] /\ Part(s, k)
            BY <1>6
      <2>4. \A i \in 1 .. k : i \in 1 .. k + 1 /\ rows[i] # rows[k + 1]
            BY <1>1, <1>3, <2>1
      <2>5. CASE Ends[rows[k + 1]] \cap S = {}
            <3>1. PICK t : t = Append(s, rows[k + 1])
                  OBVIOUS
            <3>2. t \in Seq(Edges) /\ Len(t) = Len(s) + 1 /\ Len(s) \in Nat
                  /\ \A j \in 1 .. Len(t) : t[j] = IF j <= Len(s) THEN s[j] ELSE rows[k + 1]
                  BY <1>2, <2>1, <2>3, <3>1
            <3>3. \A j \in 1 .. Len(t) : j \in 1 .. Len(s) \/ j = Len(s) + 1
                  BY <3>2
            <3>4. \A j \in 1 .. Len(s) : s[j] # rows[k + 1] /\ j <= Len(s) /\ j \in 1 .. Len(t)
                  BY <2>3, <2>4, <3>2
            <3>5. \A j \in 1 .. Len(s) : t[j] = s[j]
                  BY <3>2, <3>4
            <3>6. t[Len(s) + 1] = rows[k + 1]
                  BY <3>2
            <3>7. \A j \in 1 .. Len(t) :
                     \E i \in 1 .. k + 1 : t[j] = rows[i] /\ Ends[rows[i]] \cap S = {}
                  BY <2>1, <2>3, <2>4, <2>5, <3>3, <3>5, <3>6
            <3>8. \A j, l \in 1 .. Len(t) : t[j] = t[l] => j = l
                  <4>1. \A j, l \in 1 .. Len(s) : t[j] = t[l] => j = l
                        BY <2>3, <3>5
                  <4>2. \A j \in 1 .. Len(s) : t[j] # t[Len(s) + 1]
                        BY <3>4, <3>5, <3>6
                  <4>3. PICK m : m = Len(s) + 1
                        OBVIOUS
                  <4> QED BY <3>3, <4>1, <4>2, <4>3, Zenon
            <3>9. Part(t, k + 1)
                  BY <3>2, <3>7, <3>8
            <3>10. kept[k + 1] = t
                  BY <2>2, <2>3, <2>5, <3>1
            <3> HIDE DEF Part
            <3> QED BY <2>1, <3>9, <3>10
      <2>6. CASE Ends[rows[k + 1]] \cap S # {}
            <3>1. Part(s, k + 1)
                  BY <2>3, <2>4
            <3>2. kept[k + 1] = s
                  BY <2>2, <2>3, <2>6
            <3> HIDE DEF Part
            <3> QED BY <2>1, <3>1, <3>2
      <2> QED BY <2>5, <2>6
<1>7. L \in T
      <2> HIDE DEF T
      <2> QED BY <1>1, <1>5, <1>6, UpTo
<1>8. PICK s : s = Without(S) /\ Part(s, L)
      BY <1>4, <1>7
<1>9. IsInjective(s)
      BY <1>8 DEF IsInjective
<1>10. ASSUME s = rows, NEW i \in 1 .. L PROVE Ends[rows[i]] \cap S = {}
      BY <1>1, <1>8, <1>10
<1> QED BY <1>1, <1>8, <1>9, <1>10

\* A bump leaves no valid list, and every walk behind.
LEMMA Bumped ==
    ASSUME Memo, Bump, reader' = reader
    PROVE  Memo' /\ Walks' /\ Kept'
<1>1. \A r \in Readers : reader[r].pc = "page" => reader[r].at \in Nat /\ reader[r].at <= epoch
      BY DEF Memo, Walk, Idle
<1>2. Memo'
      <2>1. epoch' \in Nat /\ epoch <= epoch' /\ epoch \in Nat
            BY DEF Memo, Bump
      <2>1a. unannounced' \in BOOLEAN /\ cache' = None
            BY DEF Bump
      <2>2. \A r \in Readers : reader[r] \in Walk => reader[r].at \in Nat
            BY DEF Walk
      <2>3. \A r \in Readers : reader[r] = Idle \/ (reader[r] \in Walk /\ reader[r].at <= epoch')
            BY <2>1, <2>2 DEF Memo
      <2> QED BY <2>1, <2>1a, <2>3 DEF Memo
<1>3. Walks'
      BY <1>1 DEF Memo, Bump, Walks
<1>4. Kept'
      BY DEF Bump, Kept, CacheValid
<1> QED BY <1>2, <1>3, <1>4

\* While a write has changed the edges and no bump has followed, nothing is promised.
LEMMA Dirty ==
    ASSUME Memo, Written', unannounced' \in BOOLEAN, UNCHANGED <<epoch, cache, reader>>
    PROVE  Memo' /\ Walks' /\ Kept'
BY DEF Memo, Walks, Kept

\* A step that leaves the rows alone, and settles no node that one of them touches.
LEMMA Quiet ==
    ASSUME Memo, Walks, Kept, unannounced' \in BOOLEAN, Written => Written',
           UNCHANGED <<rows, epoch, cache, reader>>,
           \A i \in 1 .. Len(rows) :
              Ends[rows[i]] \cap embedding # {} => Ends[rows[i]] \cap embedding' # {}
    PROVE  Memo' /\ Walks' /\ Kept'
<1>1. Memo'
      BY DEF Memo
<1>2. Walks'
      BY DEF Walks, WalkOK
<1>3. CacheValid' <=> CacheValid
      BY DEF CacheValid
<1>4. Kept'
      BY <1>3 DEF Kept
<1> QED BY <1>1, <1>2, <1>4

\* One slot and its body change; a change of the edges is forgotten by no one.
LEMMA JobsStep ==
    ASSUME IInv, Jobs, NEW k \in Slots, NEW s, NEW j, JobOK(s, j),
           state' = [state EXCEPT ![k] = s], job' = [job EXCEPT ![k] = j]
    PROVE  /\ Jobs' /\ (j.new => Written')
           /\ (job[k].new => j.new \/ unannounced') /\ (unannounced => unannounced')
                => (Written => Written')
<1>1. /\ state'[k] = s /\ job'[k] = j
      /\ \A i \in Slots : i # k => state'[i] = state[i] /\ job'[i] = job[i]
      BY DEF IInv, ChainOK
<1>2. Jobs'
      <2>0. job' \in [Slots -> Job]
            BY DEF Jobs, JobOK
      <2> SUFFICES ASSUME NEW i \in Slots PROVE JobOK(state'[i], job'[i])
          BY <2>0 DEF Jobs
      <2>1. CASE i = k
            BY <1>1, <2>1
      <2>2. CASE i # k
            BY <1>1, <2>2 DEF Jobs
      <2> QED BY <2>1, <2>2
<1>3. j.new => Written'
      BY <1>1 DEF Written
<1>4. ASSUME job[k].new => j.new \/ unannounced', unannounced => unannounced', Written
      PROVE  Written'
      BY <1>1, <1>3, <1>4 DEF Written
<1> QED BY <1>2, <1>3, <1>4

\* The jobs of no slot change.
LEMMA JobsStay ==
    ASSUME Jobs, UNCHANGED <<state, job>>, unannounced => unannounced'
    PROVE  Jobs' /\ (Written => Written')
BY DEF Jobs, Written

\* A released slot has no job.
LEMMA NoJobOK == JobOK("released", NoJob) /\ ~NoJob.new
BY DEF NoJob, JobOK, Job, Pcs

\* A slot is released.
LEMMA ReleaseKept ==
    ASSUME IInv, Jobs, NEW k \in Slots, Release(k)
    PROVE  /\ Jobs'
           /\ (job[k].new => unannounced') /\ (unannounced => unannounced')
                => (Written => Written')
<1>1. state' = [state EXCEPT ![k] = "released"] /\ job' = [job EXCEPT ![k] = NoJob]
      BY DEF Release
<1>2. PICK s, j : s = "released" /\ j = NoJob
      OBVIOUS
<1>3. JobOK(s, j) /\ ~j.new
      BY <1>2, NoJobOK
<1> QED BY <1>1, <1>2, <1>3, JobsStep

\* After an edge comes the next.
LEMMA NextEdgeKept ==
    ASSUME IInv, Jobs, NEW k \in Slots, NEW failed \in BOOLEAN, state[k] = "running",
           job[k].op \in {"bulk", "pair"}, NextEdge(k, failed)
    PROVE  /\ Jobs'
           /\ (job[k].new => unannounced') /\ (unannounced => unannounced')
                => (Written => Written')
<1>1. CASE Release(k)
      BY <1>1, ReleaseKept
<1>2. CASE /\ Len(job[k].on) # 1
           /\ job' = [job EXCEPT ![k].on = Tail(@), ![k].new = FALSE, ![k].pc = "call"]
           /\ UNCHANGED state
      <2>1. job[k] \in Job /\ job[k].on \in Seq(Edges) \ {<<>>}
            BY DEF Jobs, JobOK
      <2>2. PICK on : on = Tail(job[k].on)
            OBVIOUS
      <2>3. on \in Seq(Edges) /\ on # <<>>
            <3>1. PICK q \in Seq(Edges) : q = job[k].on /\ q # <<>> /\ Len(q) # 1
                  BY <1>2, <2>1
            <3>2. Len(q) \in Nat /\ Len(q) # 0
                  BY <3>1
            <3>3. on \in Seq(Edges) /\ Len(on) = Len(q) - 1
                  BY <2>2, <3>1
            <3>4. Len(on) # 0
                  BY <3>1, <3>2, <3>3
            <3>5. Len(<<>>) = 0
                  OBVIOUS
            <3>6. on # <<>>
                  BY <3>4, <3>5
            <3> QED BY <3>3, <3>6
      <2>4. PICK j : j = [job[k] EXCEPT !.on = on, !.new = FALSE, !.pc = "call"]
            OBVIOUS
      <2>5. j \in Job /\ j.op = job[k].op /\ j.on = on /\ ~j.new
            BY <2>1, <2>3, <2>4 DEF Job, Pcs
      <2>6. JobOK("running", j)
            BY <2>3, <2>5 DEF JobOK
      <2>7. job' = [job EXCEPT ![k] = j]
            BY <1>2, <2>2, <2>4
      <2>8. state' = [state EXCEPT ![k] = "running"]
            BY <1>2 DEF IInv, ChainOK
      <2> QED BY <2>5, <2>6, <2>7, <2>8, JobsStep
<1> QED BY <1>1, <1>2 DEF NextEdge

\* A step that changes nothing of the store but the jobs.
LEMMA OnlyJobs ==
    ASSUME Store, UNCHANGED <<nodes, rows, embedding, settling, memo, reader>>,
           Jobs', Written => Written', disposed' \in BOOLEAN
    PROVE  Store'
<1>1. Graph'
      BY DEF Store, Graph
<1>2. Memo' /\ Walks' /\ Kept'
      BY Quiet DEF Store, memo, Memo
<1> QED BY <1>1, <1>2 DEF Store

\* A call takes a slot.
LEMMA TakeKept ==
    ASSUME SInv, NEW k \in Slots, NEW q \in Requests, Take(k, q)
    PROVE  Store'
<1>1. PICK j : j = [NoJob EXCEPT !.op = q.op, !.on = q.on, !.pc = "call"]
      OBVIOUS
<1>2. JobOK("waiting", j) /\ ~j.new
      BY <1>1, StoreAssumption DEF NoJob, JobOK, Job, Pcs
<1>3. state[k] = "free"
      BY StoreAssumption DEF SInv, IInv, ChainOK, Take, Slots
<1>4. ~job[k].new
      BY <1>3 DEF SInv, Store, Jobs, JobOK
<1>5. Jobs' /\ (Written => Written')
      BY <1>1, <1>2, <1>4, JobsStep DEF SInv, Store, Take, memo
<1> QED BY <1>5, OnlyJobs DEF SInv, Store, Graph, Take

\* A slot moves on, and its body stays what it is.
LEMMA SlotKept ==
    ASSUME SInv, NEW k \in Slots, NEW s, state[k] # "running",
           state' = [state EXCEPT ![k] = s],
           UNCHANGED <<nodes, rows, embedding, job, disposed, memo, reader, settling>>
    PROVE  Store'
<1>1. PICK j : j = job[k]
      OBVIOUS
<1>2. JobOK(s, j) /\ ~j.new
      BY <1>1 DEF SInv, Store, Jobs, JobOK
<1>3. job' = [job EXCEPT ![k] = j]
      BY <1>1 DEF SInv, Store, Jobs
<1>4. Jobs' /\ (Written => Written')
      BY <1>1, <1>2, <1>3, JobsStep DEF SInv, Store, memo
<1> QED BY <1>4, OnlyJobs DEF SInv, Store, Graph

\* A body that has changed no edge ends.
LEMMA EndsKept ==
    ASSUME SInv, NEW k \in Slots, ~job[k].new, Release(k),
           UNCHANGED <<nodes, rows, embedding, memo, reader, settling>>, disposed' \in BOOLEAN
    PROVE  Store'
<1>1. Jobs' /\ (Written => Written')
      BY ReleaseKept DEF SInv, Store, memo
<1> QED BY <1>1, OnlyJobs DEF SInv, Store

\* A body that waits for a native call has changed no edge.
LEMMA CallIsNotNew ==
    ASSUME Store, NEW k \in Slots, job[k].pc = "call"
    PROVE  ~job[k].new
BY DEF Store, Jobs, JobOK

\* Nodes are stored.
LEMMA StoreNodesKept ==
    ASSUME SInv, NEW k \in Slots, StoreNodes(k)
    PROVE  Store'
<1>1. PICK landed \in SUBSET job[k].on :
          /\ nodes' = nodes \cup landed
          /\ embedding' = IF job[k].op = "node" THEN embedding \cup landed ELSE embedding
      BY DEF StoreNodes
<1>2. landed \subseteq Nodes
      BY DEF SInv, Store, Jobs, JobOK, StoreNodes, Running
<1>3. Graph'
      BY <1>1, <1>2 DEF StoreNodes, SInv, Store, Graph
<1>4. ~job[k].new
      BY CallIsNotNew DEF StoreNodes, Running, SInv
<1>5. Jobs' /\ (Written => Written')
      BY <1>4, ReleaseKept DEF SInv, Store, StoreNodes, memo
<1>6. embedding \subseteq embedding'
      BY <1>1
<1>7. Memo' /\ Walks' /\ Kept'
      BY <1>5, <1>6, Quiet DEF SInv, Store, StoreNodes, memo, Memo
<1> QED BY <1>3, <1>5, <1>7 DEF Store

\* The edge in hand is an edge.
LEMMA EdgeIs ==
    ASSUME Store, NEW k \in Slots, job[k].op \in {"bulk", "pair"}
    PROVE  Edge(k) \in Edges
<1>1. PICK q \in Seq(Edges) : q = job[k].on /\ q # <<>>
      BY DEF Store, Jobs, JobOK
<1>2. Head(q) \in Edges
      BY <1>1
<1> QED BY <1>1, <1>2 DEF Edge

\* A native call has returned; it may have changed the edges.
LEMMA LandedKept ==
    ASSUME SInv, NEW k \in Slots, NEW j, state[k] = "running", ~job[k].new,
           JobOK("running", j), j.new = (rows' # rows),
           job' = [job EXCEPT ![k] = j], UNCHANGED <<state, memo, reader>>, Graph',
           rows' = rows => \A i \in 1 .. Len(rows) :
              Ends[rows[i]] \cap embedding # {} => Ends[rows[i]] \cap embedding' # {}
    PROVE  Store'
<1>1. state' = [state EXCEPT ![k] = "running"]
      BY DEF SInv, IInv, ChainOK
<1>2. Jobs' /\ (j.new => Written') /\ (Written => Written')
      BY <1>1, JobsStep DEF SInv, Store, memo
<1>3. unannounced' \in BOOLEAN
      BY DEF SInv, Store, Memo, memo
<1>4. CASE rows' # rows
      BY <1>2, <1>3, <1>4, Dirty DEF SInv, Store, memo
<1>5. CASE rows' = rows
      BY <1>2, <1>3, <1>5, Quiet DEF SInv, Store, memo
<1> QED BY <1>2, <1>4, <1>5 DEF Store

\* A native addEdge has returned.
LEMMA AddEdgeKept ==
    ASSUME SInv, NEW k \in Slots, AddEdge(k)
    PROVE  Store'
<1>1. rows' \in Seq(Edges) /\ IsInjective(rows')
      BY EdgeIs, WithRowIs DEF AddEdge, Running, SInv, Store
<1>2. Graph'
      BY <1>1 DEF AddEdge, SInv, Store, Graph
<1>3. PICK j : j = [job[k] EXCEPT !.new = rows' # rows, !.pc = "landed"]
      OBVIOUS
<1>4. job' = [job EXCEPT ![k] = j]
      BY <1>3 DEF AddEdge, SInv, IInv, ChainOK
<1>5. JobOK("running", j) /\ j.new = (rows' # rows)
      <2>1. job[k] \in Job
            BY DEF SInv, Store, Jobs, JobOK
      <2>2. PICK b \in BOOLEAN : b = (rows' # rows)
            OBVIOUS
      <2>3. j = [job[k] EXCEPT !.new = b, !.pc = "landed"]
            BY <1>3, <2>2
      <2>4. j \in Job /\ j.op = job[k].op /\ j.on = job[k].on /\ j.pc = "landed" /\ j.new = b
            BY <2>1, <2>3 DEF Job, Pcs
      <2> QED BY <2>2, <2>4 DEF SInv, Store, Jobs, JobOK
<1>6. ~job[k].new
      BY CallIsNotNew DEF AddEdge, Running, SInv
<1> QED BY <1>2, <1>4, <1>5, <1>6, LandedKept DEF AddEdge, Running

\* Every attempt to add an edge threw.
LEMMA AddEdgeFailsKept ==
    ASSUME SInv, NEW k \in Slots, AddEdgeFails(k)
    PROVE  Store'
<1>1. rows' = rows \/ rows' = WithRow(Edge(k))
      BY DEF AddEdgeFails
<1>2. rows' \in Seq(Edges) /\ IsInjective(rows')
      BY <1>1, EdgeIs, WithRowIs DEF AddEdgeFails, Running, SInv, Store, Graph
<1>3. Graph'
      BY <1>2 DEF AddEdgeFails, SInv, Store, Graph
<1>4. ~job[k].new
      BY CallIsNotNew DEF AddEdgeFails, Running, SInv
<1>5. unannounced' = (unannounced \/ rows' # rows) /\ UNCHANGED <<epoch, cache, reader>>
      BY DEF AddEdgeFails, NoBump
<1>6. unannounced' \in BOOLEAN /\ (unannounced => unannounced')
      BY <1>5
<1>7. Jobs' /\ (Written => Written')
      BY <1>4, <1>6, NextEdgeKept DEF AddEdgeFails, Running, SInv, Store
<1>8. CASE rows' # rows
      BY <1>3, <1>5, <1>6, <1>7, <1>8, Dirty DEF Written, SInv, Store
<1>9. CASE rows' = rows
      BY <1>3, <1>5, <1>6, <1>7, <1>9, Quiet DEF SInv, Store, AddEdgeFails
<1> QED BY <1>8, <1>9

\* A bump, after which all that matters is the graph and the jobs.
LEMMA BumpKept ==
    ASSUME SInv, Bump, Jobs', Graph', reader' = reader
    PROVE  Store'
BY Bumped DEF SInv, Store

\* An edge is read back.
LEMMA EdgeVerifiedKept ==
    ASSUME SInv, NEW k \in Slots, EdgeVerified(k)
    PROVE  Store'
<1>1. Graph'
      BY DEF EdgeVerified, SInv, Store, Graph
<1>2. Jobs'
      BY NextEdgeKept DEF EdgeVerified, Running, SInv, Store
<1> QED BY <1>1, <1>2, BumpKept DEF EdgeVerified

\* The write of an edge throws after the callback that misses it.
LEMMA EdgeMissingKept ==
    ASSUME SInv, NEW k \in Slots, EdgeMissing(k)
    PROVE  Store'
<1>1. Graph'
      BY DEF EdgeMissing, SInv, Store, Graph
<1>2. job[k].new \in BOOLEAN /\ unannounced \in BOOLEAN
      BY DEF SInv, Store, Jobs, Job, Memo
<1>3. unannounced' = (unannounced \/ job[k].new) /\ UNCHANGED <<epoch, cache, rows, embedding, reader>>
      BY DEF EdgeMissing, NoBump
<1>4. unannounced' \in BOOLEAN /\ (unannounced => unannounced') /\ (job[k].new => unannounced')
      BY <1>2, <1>3
<1>5. Jobs' /\ (Written => Written')
      BY <1>4, NextEdgeKept DEF EdgeMissing, Running, SInv, Store
<1>6. Memo' /\ Walks' /\ Kept'
      BY <1>3, <1>4, <1>5, Quiet DEF SInv, Store
<1> QED BY <1>1, <1>5, <1>6 DEF Store

\* A node that no row touches may be gone from the embeds without a trace.
LEMMA Untouched ==
    ASSUME Graph, NEW S, Without(S) = rows
    PROVE  \A i \in 1 .. Len(rows) :
               Ends[rows[i]] \cap embedding # {} => Ends[rows[i]] \cap (embedding \ S) # {}
<1>1. \A i \in 1 .. Len(rows) : Ends[rows[i]] \cap S = {}
      BY WithoutIs
<1> QED BY <1>1

\* The native delete has returned.
LEMMA DeleteNodeKept ==
    ASSUME SInv, NEW k \in Slots, DeleteNode(k)
    PROVE  Store'
<1>1. /\ nodes' = nodes \ job[k].on /\ rows' = Without(job[k].on)
      /\ embedding' = embedding \ job[k].on
      BY DEF DeleteNode
<1>2. rows' \in Seq(Edges) /\ IsInjective(rows')
      BY <1>1, WithoutIs DEF SInv, Store
<1>3. Graph'
      BY <1>1, <1>2 DEF DeleteNode, SInv, Store, Graph
<1>4. PICK pc \in {"deleted", "absent"} : job' = [job EXCEPT ![k].new = rows' # rows, ![k].pc = pc]
      BY DEF DeleteNode
<1>5. PICK j : j = [job[k] EXCEPT !.new = rows' # rows, !.pc = pc]
      OBVIOUS
<1>6. job' = [job EXCEPT ![k] = j]
      BY <1>4, <1>5 DEF SInv, IInv, ChainOK
<1>7. JobOK("running", j) /\ j.new = (rows' # rows)
      <2>1. job[k] \in Job
            BY DEF SInv, Store, Jobs, JobOK
      <2>2. PICK b \in BOOLEAN : b = (rows' # rows)
            OBVIOUS
      <2>3. j = [job[k] EXCEPT !.new = b, !.pc = pc]
            BY <1>5, <2>2
      <2>4. j \in Job /\ j.op = job[k].op /\ j.on = job[k].on /\ j.pc = pc /\ j.new = b
            BY <2>1, <2>3 DEF Job, Pcs
      <2> QED BY <2>2, <2>4 DEF SInv, Store, Jobs, JobOK
<1>8. ~job[k].new
      BY CallIsNotNew DEF DeleteNode, Running, SInv
<1>9. rows' = rows => \A i \in 1 .. Len(rows) :
         Ends[rows[i]] \cap embedding # {} => Ends[rows[i]] \cap embedding' # {}
      BY <1>1, Untouched DEF SInv, Store
<1> QED BY <1>3, <1>6, <1>7, <1>8, <1>9, LandedKept DEF DeleteNode, Running

\* Every attempt to delete threw.
LEMMA DeleteFailsKept ==
    ASSUME SInv, NEW k \in Slots, DeleteFails(k)
    PROVE  Store'
<1>1. PICK landed \in SUBSET job[k].on :
          nodes' = nodes \ landed /\ rows' = Without(landed) /\ embedding' = embedding \ landed
      BY DEF DeleteFails
<1>2. rows' \in Seq(Edges) /\ IsInjective(rows')
      BY <1>1, WithoutIs DEF SInv, Store
<1>3. Graph'
      BY <1>1, <1>2 DEF DeleteFails, SInv, Store, Graph
<1>4. ~job[k].new
      BY CallIsNotNew DEF DeleteFails, Running, SInv
<1>5. unannounced' = (unannounced \/ rows' # rows) /\ UNCHANGED <<epoch, cache, reader>>
      BY DEF DeleteFails, NoBump
<1>6. unannounced' \in BOOLEAN /\ (unannounced => unannounced')
      BY <1>5
<1>7. Jobs' /\ (Written => Written')
      BY <1>4, <1>6, ReleaseKept DEF DeleteFails, SInv, Store
<1>8. CASE rows' # rows
      BY <1>3, <1>5, <1>6, <1>7, <1>8, Dirty DEF Written, SInv, Store
<1>9. CASE rows' = rows
      <2>1. \A i \in 1 .. Len(rows) :
               Ends[rows[i]] \cap embedding # {} => Ends[rows[i]] \cap embedding' # {}
            BY <1>1, <1>9, Untouched DEF SInv, Store
      <2> QED BY <1>3, <1>5, <1>6, <1>7, <1>9, <2>1, Quiet DEF SInv, Store
<1> QED BY <1>8, <1>9

\* A delete learns how it went.
LEMMA DeleteReturnsKept ==
    ASSUME SInv, NEW k \in Slots, DeleteReturns(k)
    PROVE  Store'
<1>1. Graph'
      BY DEF DeleteReturns, SInv, Store, Graph
<1>2. CASE Bump
      <2>1. Jobs'
            BY ReleaseKept DEF DeleteReturns, SInv, Store
      <2> QED BY <1>1, <1>2, <2>1, BumpKept DEF DeleteReturns
<1>3. CASE NoBump(job[k].new)
      <2>1. job[k].new \in BOOLEAN /\ unannounced \in BOOLEAN
            BY DEF SInv, Store, Jobs, Job, Memo
      <2>2. /\ unannounced' = (unannounced \/ job[k].new)
            /\ UNCHANGED <<epoch, cache, rows, embedding, reader>>
            BY <1>3 DEF DeleteReturns, NoBump
      <2>3. /\ unannounced' \in BOOLEAN /\ (unannounced => unannounced')
            /\ (job[k].new => unannounced')
            BY <2>1, <2>2
      <2>4. Jobs' /\ (Written => Written')
            BY <2>3, ReleaseKept DEF DeleteReturns, SInv, Store
      <2>5. Memo' /\ Walks' /\ Kept'
            BY <2>2, <2>3, <2>4, Quiet DEF SInv, Store
      <2> QED BY <1>1, <2>4, <2>5 DEF Store
<1> QED BY <1>2, <1>3 DEF DeleteReturns

\* A body of any slot goes on.
LEMMA BodyKept ==
    ASSUME SInv, NEW k \in Slots, Body(k)
    PROVE  Store'
<1>0. disposed \in BOOLEAN
      BY DEF SInv, Store, Graph
<1>1. CASE Enter(k)
      BY <1>1, SlotKept DEF Enter
<1>2. CASE CloseTimesOut(k)
      BY <1>2, SlotKept DEF CloseTimesOut
<1>3. CASE LeftReleases(k)
      <2>1. ~job[k].new
            BY <1>3 DEF LeftReleases, SInv, Store, Jobs, JobOK
      <2> QED BY <1>0, <1>3, <2>1, EndsKept DEF LeftReleases
<1>4. CASE StoreNodes(k)
      BY <1>4, StoreNodesKept
<1>5. CASE AddEdge(k) \/ AddEdgeFails(k)
      BY <1>5, AddEdgeKept, AddEdgeFailsKept
<1>6. CASE EdgeVerified(k) \/ EdgeMissing(k)
      BY <1>6, EdgeVerifiedKept, EdgeMissingKept
<1>7. CASE DeleteNode(k) \/ DeleteFails(k) \/ DeleteReturns(k)
      BY <1>7, DeleteNodeKept, DeleteFailsKept, DeleteReturnsKept
<1>8. CASE MaintainReturns(k) \/ MaintainTimesOut(k)
      <2>1. ~job[k].new
            BY <1>8, CallIsNotNew DEF MaintainReturns, MaintainTimesOut, Running, SInv
      <2> QED BY <1>0, <1>8, <2>1, EndsKept DEF MaintainReturns, MaintainTimesOut
<1>9. CASE CompactionEnds(k)
      <2>1. Jobs' /\ (Written => Written')
            BY <1>9, JobsStay DEF CompactionEnds, chain, memo, SInv, Store
      <2> QED BY <1>0, <1>9, <2>1, OnlyJobs DEF CompactionEnds, SInv
<1>10. CASE Dispose(k)
      <2>1. ~job[k].new
            BY <1>10, CallIsNotNew DEF Dispose, Running, SInv
      <2> QED BY <1>10, <2>1, EndsKept DEF Dispose
<1> QED BY <1>1, <1>2, <1>3, <1>4, <1>5, <1>6, <1>7, <1>8, <1>9, <1>10 DEF Body

\* Nothing changes but the walks and what is remembered.
LEMMA ReadStep ==
    ASSUME Store, UNCHANGED <<nodes, rows, embedding, chain, disposed, epoch, unannounced, settling>>
    PROVE  Jobs' /\ Graph' /\ (Written' <=> Written)
<1>1. Jobs'
      BY DEF Store, Jobs, chain
<1>2. Graph'
      BY DEF Store, Graph
<1>3. Written' <=> Written
      BY DEF Written, chain
<1> QED BY <1>1, <1>2, <1>3

\* A walk begins.
LEMMA ListKept ==
    ASSUME SInv, NEW r \in Readers, List(r)
    PROVE  Store'
<1>1. Jobs' /\ Graph' /\ (Written' <=> Written)
      BY ReadStep DEF List, memo, SInv
<1>2. PICK w : w = [pc |-> "page", at |-> epoch, got |-> {}, pages |-> 0, first |-> None]
      OBVIOUS
<1>3. epoch \in Nat /\ DOMAIN reader = Readers
      BY DEF SInv, Store, Memo
<1>4. w \in Walk /\ w.at = epoch /\ w.at <= epoch
      BY <1>2, <1>3 DEF Walk
<1>5. reader' = [reader EXCEPT ![r] = w]
      BY <1>2 DEF List
<1>6. reader'[r] = w /\ \A x \in Readers : x # r => reader'[x] = reader[x]
      BY <1>3, <1>5
<1>7. WalkOK(w)
      <2>1. PageSize \in Nat /\ MaxPages \in Nat \ {0} /\ Len(rows) \in Nat
            BY StoreAssumption DEF SInv, Store, Graph
      <2>2. 0 * PageSize = 0 /\ w.pages = 0 /\ w.got = {}
            BY <1>2, <2>1
      <2>3. {rows[i] : i \in 1 .. 0} = {}
            OBVIOUS
      <2> QED BY <2>1, <2>2, <2>3 DEF WalkOK
<1>8. UNCHANGED <<rows, embedding, epoch, cache, unannounced>>
      BY DEF List, memo
<1>9. Memo'
      <2>1. \A x \in Readers : \/ reader'[x] = Idle
                               \/ reader'[x] \in Walk /\ reader'[x].at <= epoch
            BY <1>4, <1>6 DEF SInv, Store, Memo
      <2>2. DOMAIN reader' = Readers
            BY <1>3, <1>5
      <2> QED BY <1>8, <2>1, <2>2 DEF SInv, Store, Memo
<1>10. Walks'
      <2> SUFFICES ASSUME NEW x \in Readers, reader'[x].pc = "page", reader'[x].at = epoch, ~Written
                   PROVE  WalkOK(reader[x])'
          BY <1>1, <1>8 DEF Walks
      <2>1. WalkOK(reader'[x])
            BY <1>6, <1>7 DEF SInv, Store, Walks
      <2> QED BY <1>8, <2>1 DEF WalkOK
<1>11. Kept'
      BY <1>1, <1>8 DEF SInv, Store, Kept, CacheValid
<1> QED BY <1>1, <1>9, <1>10, <1>11 DEF Store

\* A walk ends, with an error.
LEMMA PageFailsKept ==
    ASSUME SInv, NEW r \in Readers, PageFails(r)
    PROVE  Store'
<1>1. Jobs' /\ Graph' /\ (Written' <=> Written)
      BY ReadStep DEF PageFails, memo, SInv
<1>2. reader' = [reader EXCEPT ![r] = Idle] /\ DOMAIN reader = Readers
      BY DEF PageFails, SInv, Store, Memo
<1>3. reader'[r] = Idle /\ \A x \in Readers : x # r => reader'[x] = reader[x]
      BY <1>2
<1>4. UNCHANGED <<rows, embedding, epoch, cache, unannounced>>
      BY DEF PageFails, memo
<1>5. Memo'
      BY <1>2, <1>3, <1>4 DEF SInv, Store, Memo
<1>6. Walks'
      BY <1>1, <1>3, <1>4 DEF SInv, Store, Walks, WalkOK, Idle
<1>7. Kept'
      BY <1>1, <1>4 DEF SInv, Store, Kept, CacheValid
<1> QED BY <1>1, <1>5, <1>6, <1>7 DEF Store

\* The page behind the first n rows.
BatchAt(n) ==
    LET rest == SubSeq(rows, n + 1, Len(rows))
    IN  IF Len(rest) > PageSize THEN SubSeq(rest, 1, PageSize) ELSE rest

\* It holds the next PageSize rows, or as many as there are.
LEMMA BatchIs ==
    ASSUME Graph, NEW n \in Nat
    PROVE  /\ BatchAt(n) \in Seq(Edges) /\ Len(BatchAt(n)) <= PageSize
           /\ n <= Len(rows) =>
                /\ n + Len(BatchAt(n)) <= Len(rows)
                /\ Len(BatchAt(n)) < PageSize => n + Len(BatchAt(n)) = Len(rows)
                /\ \A i \in 1 .. Len(BatchAt(n)) : BatchAt(n)[i] = rows[n + i]
<1>1. PICK q \in Seq(Edges) : q = rows
      BY DEF Graph
<1>2. Len(q) \in Nat /\ PageSize \in Nat \ {0}
      BY StoreAssumption
<1>3. SubSeq(q, n + 1, Len(q)) \in Seq(Edges)
      BY <1>2
<1>4. PICK rest \in Seq(Edges) : rest = SubSeq(q, n + 1, Len(q))
      BY <1>3
<1>5. n <= Len(q) => Len(rest) = Len(q) - n /\ \A i \in 1 .. Len(rest) : rest[i] = q[n + i]
      BY <1>2, <1>4
<1>6. CASE Len(rest) > PageSize
      <2>1. SubSeq(rest, 1, PageSize) \in Seq(Edges)
            BY <1>2, <1>6
      <2>2. PICK b \in Seq(Edges) : b = SubSeq(rest, 1, PageSize)
            BY <2>1
      <2>3. Len(b) = PageSize /\ \A i \in 1 .. Len(b) : b[i] = rest[i] /\ i \in 1 .. Len(rest)
            BY <1>2, <1>6, <2>2
      <2>4. BatchAt(n) = b
            BY <1>1, <1>4, <1>6, <2>2 DEF BatchAt
      <2>5. ASSUME n <= Len(q)
            PROVE  n + Len(b) <= Len(q) /\ \A i \in 1 .. Len(b) : b[i] = q[n + i]
            BY <1>2, <1>5, <1>6, <2>3, <2>5
      <2>6. Len(b) <= PageSize /\ ~(Len(b) < PageSize)
            BY <1>2, <2>3
      <2> QED BY <1>1, <2>4, <2>5, <2>6
<1>7. CASE ~(Len(rest) > PageSize)
      <2>1. BatchAt(n) = rest
            BY <1>1, <1>4, <1>7 DEF BatchAt
      <2>2. Len(rest) \in Nat
            OBVIOUS
      <2> QED BY <1>1, <1>2, <1>5, <1>7, <2>1, <2>2
<1> QED BY <1>6, <1>7

\* Pages of P rows.
LEMMA Times ==
    ASSUME NEW p \in Nat, NEW P \in Nat
    PROVE  /\ p * P \in Nat /\ (p + 1) * P = p * P + P /\ ((p + 1) - 1) * P = p * P
           /\ (p - 1) * P = p * P - P
OBVIOUS

\* The walk w, of the current epoch, reads its next page: it is not the one before
\* it, and if the walk ends with it, it has got every row, or the table outgrew it.
LEMMA NextPage ==
    ASSUME Graph, NEW w \in Walk, WalkOK(w), NEW b, b = BatchAt(w.pages * PageSize),
           NEW first, first = IF b = <<>> THEN None ELSE Head(b)
    PROVE  /\ ~(w.pages > 0 /\ first # None /\ first = w.first)
           /\ Len(b) < PageSize => w.got \cup ToSet(b) = ToSet(rows)
           /\ w.pages + 1 = MaxPages /\ ~(Len(b) < PageSize) => Len(rows) >= PageSize * MaxPages
           /\ w.pages + 1 # MaxPages /\ ~(Len(b) < PageSize) =>
                 WalkOK([w EXCEPT !.got = w.got \cup ToSet(b), !.pages = w.pages + 1, !.first = first])
<1>1. PICK p \in Nat : p = w.pages
      BY DEF Walk
<1>2. PageSize \in Nat \ {0} /\ MaxPages \in Nat \ {0} /\ Len(rows) \in Nat
      BY StoreAssumption DEF Graph
<1>3. PICK n \in Nat : n = p * PageSize
      BY <1>2, Times
<1>4. (p + 1) * PageSize = n + PageSize /\ ((p + 1) - 1) * PageSize = n
      /\ (p - 1) * PageSize = n - PageSize
      BY <1>2, <1>3, Times
<1>5. /\ p < MaxPages /\ n <= Len(rows) /\ w.got = {rows[i] : i \in 1 .. n}
      /\ p > 0 => w.first = rows[n - PageSize + 1]
      BY <1>1, <1>3, <1>4 DEF WalkOK
<1>6. b \in Seq(Edges) /\ Len(b) <= PageSize /\ n + Len(b) <= Len(rows)
      /\ (Len(b) < PageSize => n + Len(b) = Len(rows))
      /\ \A i \in 1 .. Len(b) : b[i] = rows[n + i]
      BY <1>1, <1>3, <1>5, BatchIs
<1>7. Len(b) \in Nat /\ (b # <<>> => Len(b) > 0 /\ Head(b) = b[1])
      BY <1>6
<1>8. w.got \cup ToSet(b) = {rows[i] : i \in 1 .. n + Len(b)}
      <2>1. ToSet(b) = {b[i] : i \in 1 .. Len(b)}
            BY <1>6 DEF ToSet
      <2>2. \A i \in 1 .. Len(b) : n + i \in 1 .. n + Len(b) /\ b[i] = rows[n + i]
            BY <1>6, <1>7
      <2>3. \A i \in 1 .. n : i \in 1 .. n + Len(b)
            BY <1>7
      <2>4. \A i \in 1 .. n + Len(b) : i \in 1 .. n \/ (i - n \in 1 .. Len(b) /\ n + (i - n) = i)
            BY <1>7
      <2>5. ASSUME NEW i \in 1 .. n + Len(b) PROVE rows[i] \in w.got \cup ToSet(b)
            <3>1. CASE i \in 1 .. n
                  BY <1>5, <3>1
            <3>2. CASE i - n \in 1 .. Len(b) /\ n + (i - n) = i
                  <4>1. b[i - n] = rows[i]
                        BY <2>2, <3>2
                  <4> QED BY <2>1, <3>2, <4>1
            <3> QED BY <2>4, <3>1, <3>2
      <2>6. ASSUME NEW e \in w.got \cup ToSet(b) PROVE \E i \in 1 .. n + Len(b) : e = rows[i]
            <3>1. CASE e \in w.got
                  <4>1. PICK i \in 1 .. n : e = rows[i]
                        BY <1>5, <3>1
                  <4> QED BY <2>3, <4>1
            <3>2. CASE e \in ToSet(b)
                  <4>1. PICK i \in 1 .. Len(b) : e = b[i]
                        BY <2>1, <3>2
                  <4> QED BY <2>2, <4>1
            <3> QED BY <3>1, <3>2
      <2> QED BY <2>5, <2>6
<1>9. ~(p > 0 /\ first # None /\ first = w.first)
      <2> SUFFICES ASSUME p > 0, first # None, first = w.first PROVE FALSE
          OBVIOUS
      <2>1. b # <<>> /\ first = rows[n + 1] /\ n + 1 \in 1 .. Len(rows)
            BY <1>2, <1>6, <1>7
      <2>2. n >= PageSize
            <3>1. p * PageSize >= PageSize
                  BY <1>2
            <3> QED BY <1>3, <3>1
      <2>3. n - PageSize + 1 \in 1 .. Len(rows) /\ n - PageSize + 1 # n + 1
            BY <1>2, <1>5, <2>2
      <2>4. rows[n - PageSize + 1] = rows[n + 1]
            BY <1>5, <2>1
      <2> QED BY <1>2, <2>1, <2>3, <2>4 DEF Graph, IsInjective
<1>10. ASSUME Len(b) < PageSize PROVE w.got \cup ToSet(b) = ToSet(rows)
      <2>1. ToSet(rows) = {rows[i] : i \in 1 .. Len(rows)}
            BY DEF ToSet, Graph
      <2> QED BY <1>6, <1>8, <1>10, <2>1
<1>11. ASSUME ~(Len(b) < PageSize) PROVE n + PageSize <= Len(rows) /\ Len(b) = PageSize
      BY <1>2, <1>6, <1>7, <1>11
<1>12. ASSUME p + 1 = MaxPages, ~(Len(b) < PageSize) PROVE Len(rows) >= PageSize * MaxPages
      <2>1. (p + 1) * PageSize = PageSize * MaxPages
            BY <1>2, <1>12
      <2> QED BY <1>4, <1>2, <1>11, <1>12, <2>1
<1>13. ASSUME p + 1 # MaxPages, ~(Len(b) < PageSize),
              NEW v, v = [w EXCEPT !.got = w.got \cup ToSet(b), !.pages = w.pages + 1, !.first = first]
       PROVE  WalkOK(v)
      <2>1. v.got = w.got \cup ToSet(b) /\ v.pages = p + 1 /\ v.first = first
            BY <1>1, <1>13 DEF Walk
      <2>2. v.pages < MaxPages
            BY <1>2, <1>5, <1>13, <2>1
      <2>3. v.pages * PageSize = n + PageSize /\ (v.pages - 1) * PageSize = n
            BY <1>4, <2>1
      <2>4. v.got = {rows[i] : i \in 1 .. n + PageSize} /\ n + PageSize <= Len(rows)
            BY <1>8, <1>11, <1>13, <2>1
      <2>5. v.first = rows[n + 1]
            <3>1. b # <<>> /\ 1 \in 1 .. Len(b)
                  BY <1>2, <1>11, <1>13
            <3> QED BY <1>6, <1>7, <2>1, <3>1
      <2> QED BY <2>2, <2>3, <2>4, <2>5 DEF WalkOK
<1> QED BY <1>1, <1>9, <1>10, <1>12, <1>13

\* A walk reads its next page.
LEMMA PageKept ==
    ASSUME SInv, NEW r \in Readers, Page(r)
    PROVE  Store'
<1> DEFINE this == reader[r]
<1>1. Jobs' /\ Graph' /\ (Written' <=> Written)
      BY ReadStep DEF Page, memo, SInv
<1>2. this \in Walk /\ this.at <= epoch /\ this.at \in Nat /\ epoch \in Nat /\ DOMAIN reader = Readers
      <2>1. this.pc = "page"
            BY DEF Page
      <2>2. epoch \in Nat /\ DOMAIN reader = Readers /\ (this = Idle \/ (this \in Walk /\ this.at <= epoch))
            BY DEF SInv, Store, Memo
      <2>3. Idle.pc = "idle"
            BY DEF Idle
      <2>4. this \in Walk /\ this.at <= epoch
            BY <2>1, <2>2, <2>3
      <2> QED BY <2>2, <2>4 DEF Walk
<1>3. PICK b : b = BatchAt(this.pages * PageSize)
      OBVIOUS
<1>4. PICK first : first = IF b = <<>> THEN None ELSE Head(b)
      OBVIOUS
<1> DEFINE stuck == this.pages > 0 /\ first # None /\ first = this.first
<1>5. PICK got : got = IF stuck THEN this.got ELSE this.got \cup ToSet(b)
      OBVIOUS
<1> DEFINE ends == stuck \/ Len(b) < PageSize \/ this.pages + 1 = MaxPages
<1>6. \/ ends /\ reader' = [reader EXCEPT ![r] = Idle] /\ cache' = [epoch |-> this.at, edges |-> got]
      \/ /\ ~ends /\ cache' = cache
         /\ reader' = [reader EXCEPT ![r].got = got, ![r].pages = @ + 1, ![r].first = first]
      BY <1>3, <1>4, <1>5 DEF Page, BatchAt
<1>7. UNCHANGED <<rows, embedding, epoch, unannounced>>
      BY DEF Page
<1>8. Graph /\ PageSize \in Nat /\ this.pages \in Nat
      BY <1>2, StoreAssumption DEF SInv, Store, Walk
<1>9. b \in Seq(Edges)
      BY <1>3, <1>8, BatchIs, Times
<1>10. got \in SUBSET Edges /\ first \in Edges \cup {None}
      <2>1. ToSet(b) \subseteq Edges
            BY <1>9 DEF ToSet
      <2>2. b # <<>> => Head(b) \in Edges
            BY <1>9
      <2> QED BY <1>2, <1>4, <1>5, <2>1, <2>2 DEF Walk
<1>11. ASSUME this.at = epoch, ~Written
       PROVE  /\ ~stuck
              /\ Len(b) < PageSize => got = ToSet(rows)
              /\ ends /\ ~(Len(b) < PageSize) => Len(rows) >= PageSize * MaxPages
              /\ ~ends => WalkOK([this EXCEPT !.got = got, !.pages = this.pages + 1, !.first = first])
      <2>1. WalkOK(this)
            BY <1>11 DEF SInv, Store, Walks, Page
      <2>2. ~stuck
            BY <1>2, <1>3, <1>4, <1>8, <2>1, NextPage
      <2>3. got = this.got \cup ToSet(b)
            BY <1>5, <2>2
      <2> QED BY <1>2, <1>3, <1>4, <1>8, <2>1, <2>2, <2>3, NextPage
<1> HIDE DEF ends, stuck
<1>12. CASE /\ ends /\ reader' = [reader EXCEPT ![r] = Idle]
            /\ cache' = [epoch |-> this.at, edges |-> got]
      <2>1. reader'[r] = Idle /\ DOMAIN reader' = Readers
            /\ \A x \in Readers : x # r => reader'[x] = reader[x]
            BY <1>2, <1>12
      <2>2. cache'.epoch = this.at /\ cache'.edges = got
            BY <1>12
      <2>3. Memo'
            BY <1>2, <1>7, <1>10, <2>1, <2>2 DEF SInv, Store, Memo
      <2>4. Walks'
            BY <1>1, <1>7, <2>1 DEF SInv, Store, Walks, WalkOK, Idle
      <2>5. Kept'
            <3> SUFFICES ASSUME this.at = epoch, ~Written, ~(Len(rows) >= PageSize * MaxPages)
                         PROVE  got = ToSet(rows) /\ \A i \in 1 .. Len(rows) : rows[i] \in got
                BY <1>1, <1>7, <2>2 DEF Kept, CacheValid
            <3>1. got = ToSet(rows)
                  BY <1>11, <1>12
            <3> QED BY <1>8, <3>1 DEF ToSet, Graph
      <2> QED BY <1>1, <2>3, <2>4, <2>5 DEF Store
<1>13. CASE /\ ~ends /\ cache' = cache
            /\ reader' = [reader EXCEPT ![r].got = got, ![r].pages = @ + 1, ![r].first = first]
      <2>1. PICK w : w = [this EXCEPT !.got = got, !.pages = this.pages + 1, !.first = first]
            OBVIOUS
      <2>2. reader' = [reader EXCEPT ![r] = w]
            BY <1>2, <1>13, <2>1
      <2>3. reader'[r] = w /\ DOMAIN reader' = Readers
            /\ \A x \in Readers : x # r => reader'[x] = reader[x]
            BY <1>2, <2>2
      <2>4. w \in Walk /\ w.at = this.at /\ w.pc = "page"
            <3>1. PICK old, p : old = this /\ p = this.pages + 1
                  OBVIOUS
            <3>2. old \in Walk /\ p \in Nat
                  BY <1>2, <1>8, <3>1
            <3>3. w = [old EXCEPT !.got = got, !.pages = p, !.first = first]
                  BY <2>1, <3>1
            <3>4. w \in Walk /\ w.at = old.at /\ w.pc = "page"
                  BY <1>10, <3>2, <3>3 DEF Walk
            <3> QED BY <3>1, <3>4
      <2>5. Memo'
            <3>1. \A x \in Readers : reader'[x] = Idle \/ (reader'[x] \in Walk /\ reader'[x].at <= epoch)
                  BY <1>2, <2>3, <2>4 DEF SInv, Store, Memo
            <3> QED BY <1>7, <1>13, <2>3, <3>1 DEF SInv, Store, Memo
      <2>6. Walks'
            <3> SUFFICES ASSUME NEW x \in Readers, reader'[x].pc = "page", reader'[x].at = epoch,
                                ~Written
                         PROVE  WalkOK(reader[x])'
                BY <1>1, <1>7 DEF Walks
            <3>1. WalkOK(reader'[x])
                  BY <1>11, <1>13, <2>1, <2>3, <2>4 DEF SInv, Store, Walks
            <3> QED BY <1>7, <3>1 DEF WalkOK
      <2>7. Kept'
            BY <1>1, <1>7, <1>13 DEF SInv, Store, Kept, CacheValid
      <2> QED BY <1>1, <2>5, <2>6, <2>7 DEF Store
<1> QED BY <1>6, <1>12, <1>13

\* A link joins the table behind the pages that have been read.
LEMMA LinkKept ==
    ASSUME Graph, NEW e \in Edges, NEW w \in Walk, WalkOK(w),
           NEW new, new = Append(rows, e)
    PROVE  /\ w.pages * PageSize <= Len(new)
           /\ w.got = {new[i] : i \in 1 .. w.pages * PageSize}
           /\ w.pages > 0 => w.first = new[(w.pages - 1) * PageSize + 1]
<1>1. PICK p \in Nat : p = w.pages
      BY DEF Walk
<1>2. PageSize \in Nat \ {0} /\ Len(rows) \in Nat
      BY StoreAssumption DEF Graph
<1>3. PICK n \in Nat : n = p * PageSize
      BY <1>2, Times
<1>4. (p - 1) * PageSize = n - PageSize
      BY <1>2, <1>3, Times
<1>5. p > 0 => n >= PageSize
      <2>1. p > 0 => p * PageSize >= PageSize
            BY <1>2
      <2> QED BY <1>3, <2>1
<1>6. Len(new) = Len(rows) + 1 /\ \A i \in 1 .. Len(rows) : new[i] = rows[i]
      BY DEF Graph
<1>7. n <= Len(rows) /\ w.got = {rows[i] : i \in 1 .. n}
      /\ (p > 0 => w.first = rows[n - PageSize + 1])
      BY <1>1, <1>3, <1>4 DEF WalkOK
<1>8. \A i \in 1 .. n : new[i] = rows[i]
      BY <1>2, <1>6, <1>7
<1>9. w.got = {new[i] : i \in 1 .. n}
      BY <1>7, <1>8
<1>10. p > 0 => n - PageSize + 1 \in 1 .. n
      BY <1>2, <1>5
<1>11. n <= Len(new)
      BY <1>2, <1>6, <1>7
<1>12. p > 0 => w.first = new[n - PageSize + 1]
      BY <1>7, <1>8, <1>10
<1> QED BY <1>1, <1>3, <1>4, <1>9, <1>11, <1>12

\* The library links a node that is being embedded.
LEMMA AutoLinkKept ==
    ASSUME SInv, NEW e \in Edges, AutoLink(e)
    PROVE  Store'
<1>1. rows' = Append(rows, e) /\ ~Contains(rows, e) /\ embedding \cap Ends[e] # {}
      BY DEF AutoLink
<1>2. UNCHANGED <<embedding, state, job, epoch, cache, unannounced, reader>>
      BY DEF AutoLink, chain, memo
<1>3. Graph
      BY DEF SInv, Store
<1>4. Graph'
      BY <1>1, <1>2, <1>3, WithRowIs DEF AutoLink, Graph
<1>5. Jobs' /\ (Written' <=> Written)
      BY <1>2 DEF SInv, Store, Jobs, Written
<1>6. Memo'
      BY <1>2 DEF SInv, Store, Memo
<1>7. Walks'
      <2> SUFFICES ASSUME NEW r \in Readers, reader[r].pc = "page", reader[r].at = epoch, ~Written
                   PROVE  WalkOK(reader[r])'
          BY <1>2, <1>5 DEF Walks
      <2>1. PICK w : w = reader[r]
            OBVIOUS
      <2>2. w \in Walk
            BY <2>1 DEF SInv, Store, Memo, Idle
      <2>3. WalkOK(w)
            BY <2>1 DEF SInv, Store, Walks
      <2>4. /\ w.pages < MaxPages /\ w.pages * PageSize <= Len(rows')
            /\ w.got = {rows'[i] : i \in 1 .. w.pages * PageSize}
            /\ w.pages > 0 => w.first = rows'[(w.pages - 1) * PageSize + 1]
            <3>1. w.pages < MaxPages
                  BY <2>3 DEF WalkOK
            <3>2. PICK new : new = rows' /\ new = Append(rows, e)
                  BY <1>1
            <3>3. /\ w.pages * PageSize <= Len(new)
                  /\ w.got = {new[i] : i \in 1 .. w.pages * PageSize}
                  /\ w.pages > 0 => w.first = new[(w.pages - 1) * PageSize + 1]
                  BY <1>3, <2>2, <2>3, <3>2, LinkKept, Zenon
            <3> QED BY <3>1, <3>2, <3>3
      <2>5. reader'[r] = w
            BY <1>2, <2>1
      <2> QED BY <2>4, <2>5 DEF WalkOK
<1>8. Kept'
      <2> SUFFICES ASSUME CacheValid, ~Written, ~(Len(rows') >= PageSize * MaxPages)
                   PROVE  /\ cache.edges \subseteq ToSet(rows')
                          /\ \A i \in 1 .. Len(rows') :
                                rows'[i] \in cache.edges \/ Ends[rows'[i]] \cap embedding # {}
          BY <1>2, <1>5 DEF Kept, CacheValid
      <2>1. Len(rows) \in Nat /\ Len(rows') = Len(rows) + 1 /\ rows'[Len(rows) + 1] = e
            /\ \A i \in 1 .. Len(rows) : rows'[i] = rows[i] /\ i \in 1 .. Len(rows')
            BY <1>1, <1>3 DEF Graph
      <2>2. PageSize * MaxPages \in Nat
            BY StoreAssumption, Times
      <2>3. ~(Len(rows) >= PageSize * MaxPages)
            BY <2>1, <2>2
      <2>4. /\ cache.edges \subseteq ToSet(rows)
            /\ \A i \in 1 .. Len(rows) : rows[i] \in cache.edges \/ Ends[rows[i]] \cap embedding # {}
            BY <2>3 DEF SInv, Store, Kept
      <2>5. ToSet(rows) \subseteq ToSet(rows')
            <3>1. DOMAIN rows = 1 .. Len(rows) /\ DOMAIN rows' = 1 .. Len(rows')
                  BY <1>3, <1>4 DEF Graph
            <3> QED BY <2>1, <3>1 DEF ToSet
      <2>6. \A i \in 1 .. Len(rows') : i \in 1 .. Len(rows) \/ i = Len(rows) + 1
            BY <2>1
      <2> QED BY <1>1, <2>1, <2>4, <2>5, <2>6
<1> QED BY <1>4, <1>5, <1>6, <1>7, <1>8 DEF Store

\* Embeds are driven to their end.
LEMMA EmbedsKept ==
    ASSUME SInv, AwaitEmbeds \/ EmbedsSettled
    PROVE  Store'
<1>1. CASE AwaitEmbeds
      <2>1. Graph'
            BY <1>1 DEF AwaitEmbeds, SInv, Store, Graph
      <2>2. Jobs' /\ (Written => Written')
            BY <1>1, JobsStay DEF AwaitEmbeds, chain, memo, SInv, Store
      <2>3. Memo' /\ Walks' /\ Kept'
            BY <1>1, <2>2, Quiet DEF AwaitEmbeds, memo, SInv, Store, Memo
      <2> QED BY <2>1, <2>2, <2>3 DEF Store
<1>2. CASE EmbedsSettled
      <2>1. Graph'
            BY <1>2 DEF EmbedsSettled, SInv, Store, Graph
      <2>2. Jobs'
            BY <1>2 DEF EmbedsSettled, chain, SInv, Store, Jobs
      <2> QED BY <1>2, <2>1, <2>2, BumpKept DEF EmbedsSettled
<1> QED BY <1>1, <1>2

\* A stutter.
LEMMA StutterKept ==
    ASSUME SInv, UNCHANGED vars
    PROVE  Store'
<1>1. Jobs' /\ (Written => Written')
      BY JobsStay DEF vars, SInv, Store
<1> QED BY <1>1, OnlyJobs DEF vars, memo, SInv, Store, Graph

\* Every step keeps the graph and the list of edges.
LEMMA StoreInductive ==
    ASSUME SInv, [Next]_vars
    PROVE  SInv'
<1>1. IInv'
      BY Inductive DEF SInv
<1>2. Store'
      <2>1. CASE \E k \in Slots : Body(k)
            BY <2>1, BodyKept
      <2>2. CASE \E k \in Slots : \E q \in Requests : Take(k, q)
            BY <2>2, TakeKept
      <2>3. CASE \E r \in Readers : List(r) \/ Page(r) \/ PageFails(r)
            BY <2>3, ListKept, PageKept, PageFailsKept
      <2>4. CASE AwaitEmbeds \/ EmbedsSettled
            BY <2>4, EmbedsKept
      <2>5. CASE \E e \in Edges : AutoLink(e)
            BY <2>5, AutoLinkKept
      <2>6. CASE UNCHANGED vars
            BY <2>6, StutterKept
      <2> QED BY <2>1, <2>2, <2>3, <2>4, <2>5, <2>6 DEF Next
<1> QED BY <1>1, <1>2 DEF SInv

\* It starts empty.
LEMMA StoreStarts ==
    ASSUME Init
    PROVE  SInv
<1>1. IInv
      BY StoreAssumption DEF Init, IInv, ChainOK, Ordered, Compactions, States
<1>2. JobOK("free", NoJob) /\ NoJob \in Job
      BY DEF JobOK, Job, NoJob, Pcs
<1>3. Jobs
      BY <1>2 DEF Init, Jobs
<1>4. Graph
      <2>1. <<>> \in Seq(Edges) /\ IsInjective(<<>>)
            BY DEF IsInjective
      <2> QED BY <2>1, StoreAssumption DEF Init, Graph
<1>5. Memo
      BY DEF Init, Memo
<1>6. Walks
      BY DEF Init, Walks, Idle
<1>7. Kept
      BY DEF Init, Kept, CacheValid
<1> QED BY <1>1, <1>3, <1>4, <1>5, <1>6, <1>7 DEF SInv, Store

\* Until a bump, a write that has changed the edges is in hand or on record, and
\* otherwise a walk of the current epoch has got the rows of its pages and the
\* remembered list lacks none but links of nodes being embedded: inductive, for any
\* calls, readers, sizes of page and numbers of nodes and edges (embeddedLore.ts:146-162, 953-1010).
THEOREM StoreInvariant == Spec => []SInv
<1>1. Init => SInv
      BY StoreStarts
<1> QED BY <1>1, StoreInductive, PTL DEF Spec

\* Every variable keeps its type, bodies run one by one and a compaction with no other
\* beside it, and no stale list of edges is served once the
\* embeds have settled and no write is between its change and its answer; unless a
\* write that threw had changed the edges (embeddedLore.ts:146-162, 955).
THEOREM StoreTheorem == Spec => []StoreOK
<1>1. ASSUME SInv PROVE TypeOK
      <2>1. \A k \in Slots : job[k].op \in Ops \cup {"none"}
            BY <1>1 DEF SInv, Store, Jobs, Job
      <2>2. \A r \in Readers : reader[r].pc \in {"idle", "page"}
            BY <1>1 DEF SInv, Store, Memo, Walk, Idle
      <2>3. ToSet(rows) \subseteq Edges
            BY <1>1 DEF SInv, Store, Graph, ToSet
      <2>4. /\ taken \in 0 .. MaxSlots /\ compacting \subseteq Slots
            /\ state \in [Slots -> {"free", "waiting", "running", "left", "released"}]
            BY <1>1 DEF SInv, IInv, ChainOK, Compactions, States
      <2> QED BY <1>1, <2>1, <2>2, <2>3, <2>4 DEF TypeOK, SInv, Store, Graph, Memo
<1>2. ASSUME SInv PROVE CacheIsCurrent
      <2>1. SUFFICES ASSUME CacheValid, embedding = {}, ~unannounced,
                            \A k \in Slots : state[k] = "running" => job[k].pc = "call",
                            Len(rows) < PageSize * MaxPages
                     PROVE  cache.edges = ToSet(rows)
            BY DEF CacheIsCurrent
      <2>2. ~Written
            BY <1>2, <2>1 DEF SInv, Store, Jobs, JobOK, Written
      <2>3. Len(rows) \in Nat /\ PageSize * MaxPages \in Nat /\ DOMAIN rows = 1 .. Len(rows)
            BY <1>2, StoreAssumption, Times DEF SInv, Store, Graph
      <2>4. ~(Len(rows) >= PageSize * MaxPages)
            BY <2>1, <2>3
      <2>5. cache.edges \subseteq ToSet(rows) /\ \A i \in 1 .. Len(rows) : rows[i] \in cache.edges
            BY <1>2, <2>1, <2>2, <2>4 DEF SInv, Store, Kept
      <2> QED BY <2>3, <2>5 DEF ToSet
<1>3. SInv /\ BodiesApart => StoreOK
      BY <1>1, <1>2 DEF StoreOK
<1> QED BY <1>3, StoreInvariant, BodiesApartTheorem, PTL
=============================================================================

------------------------------ MODULE GraphWalks ------------------------------
(* The breadth-first walks over the code graph: the blast radius of a symbol    *)
(* (src/analytics/blastRadius.ts), the trace of a process from its entry        *)
(* (src/processes/index.ts) and the subgraph around seeds                       *)
(* (src/graph/subgraph.ts).  Each is bounded in its depth, two of them in their  *)
(* size, and these say whether they were cut short.                           *)
(*                                                                            *)
(* One level is one step.  Ids are numbers, in the order the code sorts them.   *)
EXTENDS Integers, FiniteSets, SequencesExt

CONSTANTS
    Points,                \* ids of nodes
    Walks                  \* what is asked for: [kind, arcs, seeds, depth, size, passing]

ASSUME WalksAssumption ==
    /\ Points \subseteq Nat
    /\ \A w \in Walks : /\ w.arcs \subseteq Points \X Points
                        /\ {w.seeds, w.passing} \subseteq SUBSET Points
                        /\ w.depth \in Nat /\ w.size \in Nat \ {0}

VARIABLES
    walk,                  \* what is walked
    level,
    frontier,              \* the nodes whose turn it is
    visited,
    found,                 \* <<id, depth>> of what the answer holds
    truncated,
    over

steps == <<walk, level, frontier, visited, found, truncated, over>>

NoWalk == [kind |-> "none", arcs |-> {}, seeds |-> {}, depth |-> 0, size |-> 1, passing |-> {}]

WalkInit ==
    /\ walk = NoWalk /\ level = 0 /\ frontier = {} /\ visited = {} /\ found = {}
    /\ truncated = FALSE /\ over = FALSE

Ascending(S) == SetToSortSeq(S, <)
First(n, seq) == ToSet(SubSeq(seq, 1, IF n < Len(seq) THEN n ELSE Len(seq)))
Shown == {x[1] : x \in found}
Room == walk.size - Cardinality(found)

\* Where the arcs lead from n; those of a node to itself lead nowhere.
Onward(arcs, n) == {a[2] : a \in {b \in arcs : b[1] = n}} \ {n}
AllOnward(arcs, S) == UNION {Onward(arcs, n) : n \in S}
Undirected(arcs) == arcs \cup {<<a[2], a[1]>> : a \in arcs}

At(S, d) == {<<n, d>> : n \in S}

-----------------------------------------------------------------------------
(* blastRadius: a node is marked when its turn comes, and has one tier. *)
AskBlast(w) ==
    /\ w.kind = "blast"
    /\ walk' = w /\ level' = 1
    /\ visited' = w.seeds
    /\ frontier' = AllOnward(w.arcs, w.seeds)
    /\ UNCHANGED <<found, truncated, over>>

BlastTier ==
    /\ walk.kind = "blast" /\ ~over
    /\ LET new == frontier \ visited
       IN  /\ visited' = visited \cup new
           /\ found' = found \cup At(new, level)
           /\ frontier' = AllOnward(walk.arcs, new)
    /\ level' = level + 1
    /\ over' = (level = 3)
    /\ UNCHANGED <<walk, truncated>>

-----------------------------------------------------------------------------
(* traceProcess: a node is marked when it is found. *)
AskTrace(w) ==
    /\ w.kind = "trace"
    /\ walk' = w
    /\ visited' = w.seeds /\ frontier' = w.seeds
    /\ UNCHANGED <<level, found, truncated, over>>

(* Mutant: the trace takes all of a level, and then looks at its size. *)
TraceLevelWhole ==
    /\ walk.kind = "trace" /\ ~over
    /\ LET next == IF level >= walk.depth THEN {} ELSE AllOnward(walk.arcs, frontier) \ visited
           full == Cardinality(found) + Cardinality(frontier) >= walk.size
       IN  /\ found' = found \cup At(frontier, level)
           /\ visited' = visited \cup next
           /\ truncated' = (\/ truncated \/ (full /\ next # {})
                            \/ level >= walk.depth /\ AllOnward(walk.arcs, frontier) # {})
           /\ over' = (full \/ next = {})
           /\ frontier' = next
    /\ level' = level + 1
    /\ UNCHANGED walk

\* The first of the level that there is room for.  At the last level calls that
\* lead on cut the trace short, also when they lead to what it holds; so do calls
\* that are not shown once it is full, but not the rest of the level.
TraceLevel ==
    /\ walk.kind = "trace" /\ ~over
    /\ LET turn == First(Room, Ascending(frontier))
           next == IF level >= walk.depth THEN {} ELSE AllOnward(walk.arcs, turn) \ visited
           full == Cardinality(found) + Cardinality(turn) >= walk.size
       IN  /\ found' = found \cup At(turn, level)
           /\ visited' = visited \cup next
           /\ truncated' = (\/ truncated \/ (full /\ next # {})
                            \/ level >= walk.depth /\ AllOnward(walk.arcs, turn) # {})
           /\ over' = (full \/ next = {})
           /\ frontier' = next
    /\ level' = level + 1
    /\ UNCHANGED walk

-----------------------------------------------------------------------------
(* buildSubgraph: arcs lead both ways, and not into what the filter leaves out. *)

\* The seeds that pass and there is room for.
AskSubgraph(w) ==
    LET pass == w.seeds \cap w.passing
        in == First(w.size, Ascending(pass))
    IN  /\ w.kind = "subgraph"
        /\ walk' = w
        /\ visited' = w.seeds
        /\ found' = At(in, 0) /\ frontier' = in
        /\ truncated' = (in # pass)
        /\ over' = (in # pass \/ in = {})
        /\ UNCHANGED level

\* The nodes a level may add, in the order they are come to: that of the nodes they
\* are come to from, then their own.
ComeTo ==
    LET arcs == Undirected(walk.arcs)
        new == (AllOnward(arcs, frontier) \ visited) \cap walk.passing
        From(n) == CHOOSE f \in frontier : n \in Onward(arcs, f)
                       /\ \A g \in frontier : n \in Onward(arcs, g) => f <= g
    IN  SetToSortSeq(new, LAMBDA a, b : From(a) < From(b) \/ (From(a) = From(b) /\ a < b))

\* What there is room for; one more cuts the answer short.
SubgraphLevel ==
    /\ walk.kind = "subgraph" /\ ~over
    /\ LET come == IF level >= walk.depth THEN <<>> ELSE ComeTo
           add == First(Room, come)
       IN  /\ found' = found \cup At(add, level + 1)
           /\ visited' = visited \cup AllOnward(Undirected(walk.arcs), frontier)
           /\ truncated' = (Room < Len(come))
           /\ over' = (Room < Len(come) \/ add = {})
           /\ frontier' = add
    /\ level' = level + 1
    /\ UNCHANGED walk

\* The edges of the answer: each pair of its nodes that is linked, once.
InducedEdges == {{a[1], a[2]} : a \in {b \in walk.arcs : b[1] # b[2] /\ {b[1], b[2]} \subseteq Shown}}

WalkOn ==
    \/ walk = NoWalk /\ \E w \in Walks : AskBlast(w) \/ AskTrace(w) \/ AskSubgraph(w)
    \/ BlastTier \/ TraceLevel \/ SubgraphLevel

-----------------------------------------------------------------------------
(* What each answer is, said without a walk. *)

\* The nodes at most k arcs away, on ways through `through` only.
Within(arcs, from, k, through) ==
    LET reach[i \in 0 .. k] ==
            IF i = 0 THEN from
            ELSE LET r == reach[i - 1] IN r \cup (AllOnward(arcs, r) \cap through)
    IN  reach[k]

Distance(arcs, from, through, n) ==
    CHOOSE k \in 0 .. Cardinality(Points) :
        /\ n \in Within(arcs, from, k, through)
        /\ k > 0 => n \notin Within(arcs, from, k - 1, through)

\* Each symbol up to three calls away is in the tier of its shortest way, and in no
\* other; whatever cycles there are (blastRadius.ts:1-24, 29-36).
TiersAreDistances ==
    over /\ walk.kind = "blast" =>
        found = {<<n, Distance(walk.arcs, walk.seeds, Points, n)>> :
                    n \in Within(walk.arcs, walk.seeds, 3, Points) \ walk.seeds}

\* A trace holds the nearest symbols first, each at its distance, and those of one
\* distance in their order; never more than it may (processes/index.ts:215-222).
TraceIsNearest ==
    over /\ walk.kind = "trace" =>
        LET all == Within(walk.arcs, walk.seeds, Cardinality(Points), Points)
            d(n) == Distance(walk.arcs, walk.seeds, Points, n)
        IN  /\ Cardinality(found) <= walk.size
            /\ \A x \in found : x[1] \in all /\ x[2] = d(x[1])
            /\ \A n \in Shown, o \in all \ Shown : d(n) < d(o) \/ (d(n) = d(o) /\ n < o)

\* A trace that is neither full nor said to be cut short is the whole of it
\* (processes/index.ts:78-82).
TraceTellsOfMore ==
    over /\ walk.kind = "trace" /\ ~truncated /\ Cardinality(found) < walk.size =>
        Shown = Within(walk.arcs, walk.seeds, Cardinality(Points), Points)

\* A subgraph is said to be cut short exactly when its size left out something that
\* its depth and its filter would have let in (subgraph.ts:304-307).
CutMeansMissing ==
    over /\ walk.kind = "subgraph" =>
        LET whole == Within(Undirected(walk.arcs), walk.seeds \cap walk.passing, walk.depth, walk.passing)
        IN  Shown \subseteq whole /\ (truncated <=> Shown # whole)

\* However it is cut, a subgraph hangs together: what is no seed is linked, by an
\* edge of the answer, with a node one level nearer.
SubgraphHangsTogether ==
    over /\ walk.kind = "subgraph" =>
        \A x \in found : x[2] > 0 => \E y \in found : y[2] = x[2] - 1 /\ {x[1], y[1]} \in InducedEdges

\* Each walk gives the nearest, at their distances, and says when it left out more.
WalksRight ==
    /\ TiersAreDistances /\ TraceIsNearest /\ TraceTellsOfMore
    /\ CutMeansMissing /\ SubgraphHangsTogether
=============================================================================

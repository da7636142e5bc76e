------------------------------- MODULE GraphView -------------------------------
(* The graph that the workspace page shows (atlas-ui/src/graph/               *)
(* GraphController.ts, hooks/useGraphData.ts, and the click handlers of       *)
(* AtlasGraph.tsx and WorkspacePage.tsx): loads of a whole view, of which the  *)
(* newest one reports, slices merged under a node, and collapse, which counts  *)
(* the parents of what it drops.                                              *)
(*                                                                            *)
(* A load or a slice is asked for in one step and merged in a later one; the   *)
(* user goes on between them.  Positions, sizes and colours are left out.     *)
EXTENDS Integers, FiniteSets, SequencesExt

CONSTANTS
    Communities, Code,     \* ids of nodes: clusters, and files and symbols
    Near,                  \* Near[n]: the code nodes a slice around n may hold
    MaxGen,                \* bound: loads that are started
    MaxSlices, MaxAsks     \* bounds: slices asked for at one time, and in all

Ids == Communities \cup Code

ASSUME ViewAssumption ==
    /\ Near \in [Ids -> SUBSET Code]
    /\ Communities \cap Code = {}
    /\ MaxGen \in Nat \ {0} /\ MaxSlices \in Nat /\ MaxAsks \in Nat

VARIABLES
    mode,                  \* "full" or "drill"
    present,               \* the nodes of the graph
    parents,               \* of a node: under which nodes it was merged
    expanded,              \* the nodes marked as expanded
    gen,                   \* loadGenRef
    since,                 \* the first load of the workspace that is open
    loading,               \* the page shows that it loads
    fullMeta,              \* the load that "showing N of M" is of, or 0
    loads,                 \* loads under way: [gen, kind]
    slices, asks,          \* slices asked for: [node, why, since], and their number
    touched                \* history: the last load to change this graph

view == <<mode, present, parents, expanded, gen, since, loading, fullMeta, loads, slices, asks, touched>>

NoParents == [i \in Ids |-> {}]

\* runLoad takes the next generation.
StartLoad(kind) ==
    /\ gen < MaxGen
    /\ gen' = gen + 1
    /\ loading' = TRUE
    /\ loads' = loads \cup {[gen |-> gen + 1, kind |-> kind]}

Clear == present' = {} /\ parents' = NoParents /\ expanded' = {}

\* A page that is opened, or a workspace that is switched to, has a graph of its
\* own and loads the whole view; fullMeta keeps what it told of the last one.
Open ==
    /\ StartLoad("full")
    /\ mode' = "full" /\ since' = gen + 1 /\ touched' = 0
    /\ Clear
    /\ UNCHANGED <<fullMeta, slices, asks>>

ViewInit ==
    /\ mode = "full" /\ present = {} /\ parents = NoParents /\ expanded = {}
    /\ gen = 0 /\ since = 0 /\ loading = FALSE /\ fullMeta = 0
    /\ loads = {} /\ slices = {} /\ asks = 0 /\ touched = 0

\* The three ways to load again: loadFull leaves the graph until the answer.
LoadFull ==
    /\ StartLoad("full")
    /\ mode' = "full" /\ fullMeta' = 0
    /\ UNCHANGED <<present, parents, expanded, since, slices, asks, touched>>

LoadDrill ==
    /\ StartLoad("drill")
    /\ mode' = "drill" /\ fullMeta' = 0
    /\ Clear
    /\ UNCHANGED <<since, slices, asks, touched>>

Reload ==
    /\ StartLoad(mode)
    /\ fullMeta' = 0
    /\ Clear
    /\ UNCHANGED <<mode, since, slices, asks, touched>>

\* The answer reaches the graph of the workspace it was asked for.
Reaches(l) == l.gen >= since

\* The load is over; only the newest one takes the flag down.
Ended(l) == loads' = loads \ {l} /\ loading' = (loading /\ l.gen # gen)

\* What a load found is told only when no newer one was started.
Told(l) == l.gen = gen

\* loadFullGraph: replace the graph, with nothing left to expand.
FullArrives(l) ==
    /\ l \in loads /\ l.kind = "full"
    /\ Ended(l)
    /\ IF Reaches(l)
       THEN present' = Code /\ parents' = NoParents /\ expanded' = Code /\ touched' = l.gen
       ELSE UNCHANGED <<present, parents, expanded, touched>>
    /\ fullMeta' = IF Told(l) THEN l.gen ELSE fullMeta
    /\ UNCHANGED <<mode, gen, since, slices, asks>>

\* loadLevel0: add the communities that are not there.
Level0Arrives(l) ==
    /\ l \in loads /\ l.kind = "drill"
    /\ Ended(l)
    /\ IF Reaches(l)
       THEN present' = present \cup Communities /\ touched' = l.gen
       ELSE UNCHANGED <<present, touched>>
    /\ UNCHANGED <<mode, parents, expanded, gen, since, fullMeta, slices, asks>>

LoadFails(l) ==
    /\ l \in loads
    /\ Ended(l)
    /\ UNCHANGED <<mode, present, parents, expanded, gen, since, fullMeta, slices, asks, touched>>

-----------------------------------------------------------------------------
(* Slices. *)

Ask(n, why) ==
    /\ Cardinality(slices) < MaxSlices /\ asks < MaxAsks /\ asks' = asks + 1
    /\ slices' = slices \cup {[node |-> n, why |-> why, since |-> since]}
    /\ UNCHANGED <<mode, present, parents, expanded, gen, since, loading, fullMeta, loads, touched>>

\* A click on a node that is not expanded, focus, and refine of an expanded node.
ClickExpands(n) == n \in present \ expanded /\ mode = "drill" /\ Ask(n, "expand")
Focus(n) == n \in present /\ Ask(n, "focus")
Refine(n) == n \in present /\ mode = "drill" /\ Ask(n, "expand")

\* What focus may find: two hops.
Around(n) == Near[n] \cup UNION {Near[m] : m \in Near[n]}

\* mergeSlice: a new node has the one parent, one that is there another parent.
Merged(n, got) == [i \in Ids |-> IF i \in got \ {n} THEN parents[i] \cup {n} ELSE parents[i]]

\* The slice is merged, unless its node is gone (mergeSlice throws) or its
\* workspace was left.  It may be cut short.
SliceArrives(s, got) ==
    /\ s \in slices
    /\ slices' = slices \ {s}
    /\ IF s.since = since /\ s.node \in present
       THEN /\ present' = present \cup got
            /\ parents' = Merged(s.node, got)
            /\ expanded' = IF s.why = "expand" THEN expanded \cup {s.node} ELSE expanded
       ELSE UNCHANGED <<present, parents, expanded>>
    /\ UNCHANGED <<mode, gen, since, loading, fullMeta, loads, asks, touched>>

SliceFails(s) ==
    /\ s \in slices
    /\ slices' = slices \ {s}
    /\ UNCHANGED <<mode, present, parents, expanded, gen, since, loading, fullMeta, loads, asks, touched>>

-----------------------------------------------------------------------------
(* Collapse. *)

Children(n, shown, under) == {i \in shown \ {n} : n \in under[i]}

\* One child after another from the queue loses the parent it was reached by; one
\* without a parent left is dropped, and its own children join the queue.
RECURSIVE Retract(_, _, _)
Retract(queue, shown, under) ==
    IF queue = {} THEN [shown |-> shown, under |-> under]
    ELSE LET q == CHOOSE x \in queue : TRUE
             rest == queue \ {q}
             left == [under EXCEPT ![q.id] = @ \ {q.via}]
         IN  IF q.id \notin shown THEN Retract(rest, shown, under)
             ELSE IF left[q.id] # {} THEN Retract(rest, shown, left)
             ELSE Retract(rest \cup {[id |-> i, via |-> q.id] : i \in Children(q.id, shown, under)},
                          shown \ {q.id}, left)

(* Mutant: collapse drops every child, and only the children lose a parent. *)
ClickDropsChildren(n) ==
    /\ mode = "drill" /\ n \in present \cap expanded
    /\ LET gone == Children(n, present, parents)
       IN  /\ present' = present \ gone
           /\ parents' = [i \in Ids |-> IF i \in gone THEN {} ELSE parents[i] \ {n}]
           /\ expanded' = expanded \ (gone \cup {n})
    /\ UNCHANGED <<mode, gen, since, loading, fullMeta, loads, slices, asks, touched>>

\* A click on an expanded node.
ClickCollapses(n) ==
    LET r == Retract({[id |-> i, via |-> n] : i \in Children(n, present, parents)}, present, parents)
    IN  /\ mode = "drill" /\ n \in present \cap expanded
        /\ present' = r.shown
        /\ parents' = r.under
        /\ expanded' = (expanded \cap r.shown) \ {n}
        /\ UNCHANGED <<mode, gen, since, loading, fullMeta, loads, slices, asks, touched>>

-----------------------------------------------------------------------------
Act(n) == ClickExpands(n) \/ ClickCollapses(n) \/ Focus(n) \/ Refine(n)

Answer ==
    \/ \E l \in loads : FullArrives(l) \/ Level0Arrives(l) \/ LoadFails(l)
    \/ \E s \in slices :
          \/ \E got \in SUBSET (IF s.why = "focus" THEN Around(s.node) ELSE Near[s.node]) :
                SliceArrives(s, got)
          \/ SliceFails(s)

Browse ==
    \/ Open
    \/ gen > 0 /\ (LoadFull \/ LoadDrill \/ Reload)
    \/ \E n \in Ids : Act(n)
    \/ Answer

-----------------------------------------------------------------------------
ViewTypeOK ==
    /\ mode \in {"full", "drill"} /\ present \subseteq Ids /\ expanded \subseteq Ids
    /\ parents \in [Ids -> SUBSET Ids]
    /\ {gen, since, fullMeta, touched} \subseteq 0 .. MaxGen /\ loading \in BOOLEAN
    /\ \A l \in loads : l.gen \in 1 .. gen /\ l.kind \in {"full", "drill"}
    /\ \A s \in slices : s.node \in Ids /\ s.since \in 0 .. since

\* The page says that it loads exactly while the newest load is under way, however
\* the answers of earlier ones come in (useGraphData.ts:271-272, 306-307).
LoadingIsNewest == loading <=> (\E l \in loads : l.gen = gen)

\* "Showing N of M" is told of the whole view only, and of the newest load, or of
\* the last one of a workspace that was left (useGraphData.ts:285-288).
MetaIsCurrent == fullMeta # 0 => mode = "full" /\ (fullMeta = gen \/ fullMeta < since)

\* Collapse works on the graph in memory only: every parent that a shown node
\* counts is itself shown, also when slices come in after their parent was
\* dropped or the view replaced (GraphController.ts:860-936).
ParentsShown == \A i \in present : parents[i] \subseteq present

\* The whole view, once its newest load was the last to change the graph, holds
\* every code node: nothing that was begun in the drill-down takes one away.
FullViewIsWhole == mode = "full" /\ touched = gen /\ gen > 0 => Code \subseteq present

\* What is still held up without n: roots, and what hangs on them by a way around n.
Held(n) ==
    LET Roots == {i \in present : parents[i] = {}}
        Under[k \in 0 .. Cardinality(Ids)] ==
            IF k = 0 THEN Roots
            ELSE Under[k - 1] \cup {i \in present : parents[i] \cap (Under[k - 1] \ {n}) # {}}
    IN  Under[Cardinality(Ids)]

\* Collapsing a node drops nothing that another shown node holds up, and leaves no
\* node behind that counts no parent, unless it was a root (GraphController.ts:
\* 846-858).
CollapseKeepsShared ==
    [][\A n \in Ids : ClickCollapses(n) =>
          /\ Held(n) \subseteq present'
          /\ \A i \in present' \ {n} : parents[i] = {} \/ parents'[i] # {}]_view

\* The view is whole and current, and a collapse takes only what hangs on it alone.
ViewHolds ==
    /\ [](ViewTypeOK /\ LoadingIsNewest /\ MetaIsCurrent /\ ParentsShown /\ FullViewIsWhole)
    /\ CollapseKeepsShared
=============================================================================

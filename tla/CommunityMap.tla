----------------------------- MODULE CommunityMap -----------------------------
(* The map of communities (src/communities/index.ts): the public ids of the    *)
(* clusters that detection numbers anew on every call, and the cycles of the    *)
(* dependencies between them, found by an iterative form of Tarjan's algorithm. *)
EXTENDS Integers, FiniteSets, Sequences, SequencesExt, FiniteSetsExt

CONSTANTS
    Clusters,              \* the numbers that detection gives, small Nats
    Maps,                  \* what is mapped: [members, base, depends, insights];
                           \* members of a cluster are <<path, basename>>, with the
                           \* paths numbered in their order
    NoMap

ASSUME MapsAssumption ==
    /\ Clusters \subseteq Nat /\ NoMap \notin Maps
    /\ \A x \in Maps : DOMAIN x.members = Clusters /\ DOMAIN x.base = Clusters
                       /\ x.depends \subseteq Clusters \X Clusters

VARIABLES
    map,                   \* what is mapped
    ids,                   \* the public id of each cluster
    idx, low,              \* Tarjan's numbers
    stack,
    work,                  \* the nodes gone into: [v, rest], rest the arcs not followed
    cycles                 \* the components of two or more

atlas == <<map, ids, idx, low, stack, work, cycles>>

Unseen == [c \in Clusters |-> -1]

MapInit ==
    /\ map = NoMap /\ ids = <<>>
    /\ idx = Unseen /\ low = Unseen /\ stack = <<>> /\ work = <<>> /\ cycles = {}

-----------------------------------------------------------------------------
(* Ids. *)

\* An id is a base, the anchor, and, only where ids collide, the basenames (which
\* the code hashes) and at last the number.
Files(x, c) == x.members[c]
FirstFile(x, c) == CHOOSE f \in Files(x, c) : \A g \in Files(x, c) : f[1] <= g[1]
Bare(x, c) == <<x.base[c], FirstFile(x, c)[2]>>

\* How often each basename occurs.
Names(x, c) == [b \in {f[2] : f \in Files(x, c)} |-> Cardinality({f \in Files(x, c) : f[2] = b})]

Before(x, c, d) ==
    \/ FirstFile(x, c)[1] < FirstFile(x, d)[1]
    \/ FirstFile(x, c)[1] = FirstFile(x, d)[1] /\ c < d

Ordered(x) == SetToSortSeq({c \in Clusters : Files(x, c) # {}}, LAMBDA c, d : Before(x, c, d))

Id(x, c, used) ==
    IF Bare(x, c) \notin used THEN Bare(x, c)
    ELSE IF Bare(x, c) \o <<Names(x, c)>> \notin used THEN Bare(x, c) \o <<Names(x, c)>>
    ELSE Bare(x, c) \o <<Names(x, c), c>>

\* buildDenseIdToStableId: one group after another.
StableIds(x) ==
    FoldLeft(LAMBDA got, c : [d \in DOMAIN got \cup {c} |->
                                  IF d = c THEN Id(x, c, Range(got)) ELSE got[d]],
             <<>>, Ordered(x))

\* listCommunityMembership, which needs the ids, and listCommunities, which goes on
\* to the insights.
AskMembership(x) ==
    /\ ~x.insights
    /\ map' = x
    /\ ids' = StableIds(x)
    /\ UNCHANGED <<idx, low, stack, work, cycles>>

AskCommunities(x) ==
    /\ x.insights
    /\ map' = x
    /\ ids' = StableIds(x)
    /\ UNCHANGED <<idx, low, stack, work, cycles>>

-----------------------------------------------------------------------------
(* Cycles. *)

Seen == {c \in Clusters : idx[c] # -1}
Top == work[Len(work)]
Deps(c) == {a[2] : a \in {b \in map.depends : b[1] = c}}
Numbered(c) == idx' = [idx EXCEPT ![c] = Cardinality(Seen)]

\* The next root that was not seen.
Root(c) ==
    /\ map # NoMap /\ map.insights /\ work = <<>>
    /\ c \notin Seen /\ \A d \in Clusters \ Seen : c <= d
    /\ Numbered(c)
    /\ low' = [low EXCEPT ![c] = Cardinality(Seen)]
    /\ stack' = Append(stack, c)
    /\ work' = <<[v |-> c, rest |-> Deps(c)]>>
    /\ UNCHANGED <<map, ids, cycles>>

Followed(w) == [work EXCEPT ![Len(work)].rest = @ \ {w}]

GoInto(w) ==
    /\ work # <<>> /\ w \in Top.rest \ Seen
    /\ Numbered(w)
    /\ low' = [low EXCEPT ![w] = Cardinality(Seen)]
    /\ stack' = Append(stack, w)
    /\ work' = Append(Followed(w), [v |-> w, rest |-> Deps(w)])
    /\ UNCHANGED <<map, ids, cycles>>

Least(a, b) == IF a < b THEN a ELSE b

LookBack(w) ==
    /\ work # <<>> /\ w \in Top.rest \cap Seen
    /\ low' = IF Contains(stack, w) THEN [low EXCEPT ![Top.v] = Least(@, idx[w])] ELSE low
    /\ work' = Followed(w)
    /\ UNCHANGED <<map, ids, idx, stack, cycles>>

\* The node is done: it closes a component, or tells its parent how far back it saw.
Leave ==
    LET v == Top.v
        from == CHOOSE i \in DOMAIN stack : stack[i] = v
        comp == ToSet(SubSeq(stack, from, Len(stack)))
        rest == Front(work)
    IN  /\ work # <<>> /\ Top.rest = {}
        /\ IF low[v] = idx[v]
           THEN /\ stack' = SubSeq(stack, 1, from - 1)
                /\ cycles' = cycles \cup (IF Cardinality(comp) >= 2 THEN {comp} ELSE {})
           ELSE UNCHANGED <<stack, cycles>>
        /\ low' = IF rest = <<>> THEN low ELSE [low EXCEPT ![Last(rest).v] = Least(@, low[v])]
        /\ work' = rest
        /\ UNCHANGED <<map, ids, idx>>

\* The pairs that are drawn as cyclic.
CyclicPairs ==
    {{a[1], a[2]} : a \in {d \in map.depends : \E comp \in cycles : {d[1], d[2]} \subseteq comp}}

Survey ==
    \/ map = NoMap /\ \E x \in Maps : AskMembership(x) \/ AskCommunities(x)
    \/ \E c \in Clusters : Root(c) \/ GoInto(c) \/ LookBack(c)
    \/ Leave

-----------------------------------------------------------------------------
\* Clusters never share an id, whatever their folders and files are called
\* (communities/index.ts:797-815).
IdsDistinct == map # NoMap /\ Seen = {} => IsInjective(ids)

Renumbered(x, p) == [x EXCEPT !.members = [c \in Clusters |-> x.members[p[c]]],
                              !.base = [c \in Clusters |-> x.base[p[c]]]]
SamePath(x, c, d) == FirstFile(x, c)[1] = FirstFile(x, d)[1]

\* The ids of a set of clusters do not depend on how detection numbered them, but
\* for those that take the number because everything else collides; provided that
\* no two clusters begin with the same path (communities/index.ts:640-668, 741-744).
RenumberKeeps ==
    map # NoMap /\ Seen = {} /\ (\A c, d \in DOMAIN ids : c # d => ~SamePath(map, c, d)) =>
        \A p \in Permutations(Clusters) :
            LET new == StableIds(Renumbered(map, p))
            IN  \A c \in DOMAIN new : Len(ids[p[c]]) = 4 \/ new[c] = ids[p[c]]

\* A cluster that comes or goes changes no other's id, unless their ids collide
\* (communities/index.ts:308-316).
ChurnKeeps ==
    map # NoMap /\ Seen = {} => \A c \in DOMAIN ids :
        (\A d \in DOMAIN ids \ {c} : Bare(map, d) # Bare(map, c)) =>
            LET new == StableIds([map EXCEPT !.members[c] = {}])
            IN  \A d \in DOMAIN new : new[d] = ids[d]

Leads(x) ==
    LET R[k \in 0 .. Cardinality(Clusters)] ==
            IF k = 0 THEN x.depends
            ELSE LET r == R[k - 1]
                 IN  r \cup {<<a[1], b[2]>> : <<a, b>> \in {q \in r \X r : q[1][2] = q[2][1]}}
    IN  R[Cardinality(Clusters)]

\* When the search is over, the pairs drawn as cyclic are those whose clusters
\* depend on each other, directly or on a way around; and every cycle reported is
\* of clusters that all do (communities/index.ts:518-567, 593-601).
CyclesAreMutual ==
    map # NoMap /\ map.insights /\ work = <<>> /\ Seen = Clusters =>
        LET leads == Leads(map)
        IN  /\ \A a \in map.depends : {a[1], a[2]} \in CyclicPairs <=> <<a[2], a[1]>> \in leads
            /\ \A comp \in cycles, a, b \in Clusters :
                  a # b /\ a \in comp => (b \in comp <=> {<<a, b>>, <<b, a>>} \subseteq leads)

\* Ids tell clusters apart and outlive the next detection; cycles are cycles.
MapRight == IdsDistinct /\ RenumberKeeps /\ ChurnKeeps /\ CyclesAreMutual
=============================================================================

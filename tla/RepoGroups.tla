----------------------------- MODULE RepoGroups -----------------------------
(* Groups of repositories (src/cli/groups.ts, groupYaml.ts, codeGraphSync.ts,    *)
(* loadGroup of memorySync.ts, and the commands of cli.ts): a group is declared  *)
(* on one machine or in a file that travels with a repository, its members are   *)
(* found on this machine, and their knowledge and code graphs are loaded into    *)
(* one store, nodes before edges, so that edges between repositories hold.       *)
EXTENDS Integers, Sequences, SequencesExt, FiniteSetsExt

CONSTANTS
    Members,        \* the repositories of the group, a sequence
    Basename,       \* of each one's checkout
    Package,        \* of each one's package.json
    Estates,        \* what they hold: repository -> [notes, by, links, code, arcs]
    Machines,       \* where they are: repository -> [remote, hint, memory, graph]
    ExportCap,      \* CODE_GRAPH_EXPORT_CAP, of a type
    MaxBadWrites,   \* nodes that a load fails to store
    MaxLoads

\* Members are different checkouts: a checkout that is declared twice is one member here.
ASSUME GroupAssumption == Members \in Seq(Range(Members)) /\ IsInjective(Members)

(* A node is <<type, ...>>: <<"note", name>> is knowledge; <<"file", r>> and       *)
(* <<"folder", r>> are qualified by the slug of a repository r (which is r), and  *)
(* <<"import", package>> is shared.  "by" maps superseded notes to what replaced  *)
(* them; "links" are the edges of the memory file and "arcs" of the code graph.   *)
Repositories == Range(Members)
CODE_TYPES == {"file", "folder", "import"}
ownerSlug(id) == IF id[1] \in {"file", "folder"} THEN id[2] ELSE "none"

VARIABLES
    estate, machine,    \* of the repositories
    form,       \* "registry" or "yaml": how the group is declared
    shipped,    \* repository -> its code-graph.jsonl: [code, arcs]
    phase,      \* of the command: "declared", "resolved", "parsed", ...
    took,       \* the members that are loaded, in order
    pendingNodes,    \* repository -> its notes that are to be stored
    store,      \* the group's store: node -> the name of the member it came from
    old,        \* superseded notes
    edges,      \* the store's edges
    result,    \* [deferred, errors, bridges], of the last load
    times

grouping == <<estate, machine, form, shipped, phase, took, pendingNodes, store, old, edges, result, times>>

NoResult == [deferred |-> {}, errors |-> {}, bridges |-> {}]

GroupInit ==
    /\ estate \in Estates /\ machine \in Machines /\ form \in {"registry", "yaml"}
    /\ shipped = [r \in Repositories |-> [code |-> {}, arcs |-> {}]] /\ phase = "declared" /\ took = <<>>
    /\ pendingNodes = [r \in Repositories |-> {}]
    /\ store = <<>> /\ old = {} /\ edges = {} /\ result = NoResult /\ times = 0

-----------------------------------------------------------------------------
\* exportCodeGraph: up to so many nodes of a type, and the edges from them.
exportCodeGraph(r) ==
    /\ phase = "declared" /\ shipped[r].code = {} /\ estate[r].code # {} /\ machine[r].graph
    /\ \E code \in SUBSET estate[r].code :
          /\ \A type \in CODE_TYPES :
                LET all == {id \in estate[r].code : id[1] = type}
                IN  Cardinality(code \cap all) = Min({Cardinality(all), ExportCap})
          /\ shipped' = [shipped EXCEPT ![r] =
                            [code |-> code, arcs |-> {e \in estate[r].arcs : e[1] \in code}]]
    /\ UNCHANGED <<estate, machine, form, phase, took, pendingNodes, store, old, edges, result, times>>

\* createGroup: the names of the members, of which no two are the same; those of a file
\* that travels are what writeGroupYaml makes of the directories' names.
Namesakes(i) == {j \in 1 .. i - 1 : Basename[Members[j]] = Basename[Members[i]]}
NameAt(i) == <<Basename[Members[i]], IF form = "registry" THEN Cardinality(Namesakes(i)) ELSE 0>>
NameOf(r) == NameAt(CHOOSE i \in DOMAIN Members : Members[i] = r)

\* resolveYamlGroup: the checkout that the indexed repositories name, or the one that the
\* path hints at; resolveGroup knows the path.
Located(r) ==
    IF form = "registry" THEN machine[r].hint = "directory" \/ machine[r].hint = "absolute"
    ELSE machine[r].remote \/ machine[r].hint = "directory"

\* cmdGroupLoad: members that are not found, or have no memory file, are left out.
Missing == {r \in Repositories : ~(Located(r) /\ machine[r].memory)}
Found ==
    LET of[i \in 0 .. Len(Members)] ==
            IF i = 0 THEN <<>>
            ELSE IF Members[i] \in Missing THEN of[i - 1] ELSE Append(of[i - 1], Members[i])
    IN  of[Len(Members)]

\* Each load looks for the members anew.
ResolveMembers ==
    /\ phase \in {"declared", "done"} /\ times < MaxLoads
    /\ took' = Found
    /\ phase' = IF took' = <<>> THEN "failed" ELSE "resolved"
    /\ times' = times + 1 /\ result' = NoResult
    /\ UNCHANGED <<estate, machine, form, shipped, pendingNodes, store, old, edges>>

(* Mutant: every member stores what it declares. *)
NobodyOwns(r) == estate[r].notes

\* The knowledge-node guard of loadGroup: the first member that declares a note has it.
Declares(r) ==
    LET at(x) == CHOOSE i \in DOMAIN took : took[i] = x
    IN  {id \in estate[r].notes : \A x \in Range(took) : at(x) < at(r) => id \notin estate[x].notes}

ParseMembers ==
    /\ phase = "resolved" /\ phase' = "parsed"
    /\ pendingNodes' = [r \in Repositories |-> IF r \in Range(took) THEN Declares(r) ELSE {}]
    /\ UNCHANGED <<estate, machine, form, shipped, took, store, old, edges, result, times>>

-----------------------------------------------------------------------------
\* ingestPendingNodes: of the types allowed, stored under the member's name; some fail.
Stores(nodesOf, types) ==
    LET all == UNION {nodesOf[r] : r \in Range(took)}
        fit == {id \in all : id[1] \in types}
        lastOf(id) == took[Max({i \in DOMAIN took : id \in nodesOf[took[i]]})]
    IN  \E bad \in SUBSET fit :
          /\ Cardinality(bad) <= MaxBadWrites
          /\ store' = [id \in DOMAIN store \cup (fit \ bad) |->
                          IF id \in fit \ bad THEN NameOf(lastOf(id)) ELSE store[id]]
          /\ result' = [result EXCEPT !.errors = @ \cup bad]

IngestNotes ==
    /\ phase = "parsed" /\ phase' = "noted"
    /\ Stores(pendingNodes, {"note"})
    /\ UNCHANGED <<estate, machine, form, shipped, took, pendingNodes, old, edges, times>>

\* applySupersedes: of notes that are stored, by notes that are.
applySupersedes ==
    /\ phase = "noted" /\ phase' = "superseded"
    /\ old' = old \cup {id \in DOMAIN store : \E r \in Range(took) :
                           /\ id \in pendingNodes[r] \cap DOMAIN estate[r].by
                           /\ estate[r].by[id] \in DOMAIN store}
    /\ UNCHANGED <<estate, machine, form, shipped, took, pendingNodes, store, edges, result, times>>

\* applyEdges, importEdgeLine: an edge that lacks an end is deferred.
Applies(es) ==
    LET held == {e \in es : e[1] \in DOMAIN store /\ e[2] \in DOMAIN store}
    IN  /\ edges' = edges \cup held
        /\ result' = [result EXCEPT !.deferred = @ \cup (es \ held)]

ApplyLinks ==
    /\ phase = "superseded" /\ phase' = "linked"
    /\ Applies(UNION {estate[r].links : r \in Range(took)})
    /\ UNCHANGED <<estate, machine, form, shipped, took, pendingNodes, store, old, times>>

\* The code-node guard of loadGroup: nothing that is qualified as another's.
Kept(r) == {id \in shipped[r].code : ownerSlug(id) \in {"none", r}}
KeptArcs(r) == {e \in shipped[r].arcs : ownerSlug(e[1]) \in {"none", r}}

IngestCode ==
    /\ phase = "linked" /\ phase' = "coded"
    /\ Stores([r \in Repositories |-> Kept(r)], CODE_TYPES)
    /\ UNCHANGED <<estate, machine, form, shipped, took, pendingNodes, old, edges, times>>

ApplyArcs ==
    /\ phase = "coded" /\ phase' = "arced"
    /\ Applies(UNION {KeptArcs(r) : r \in Range(took)})
    /\ UNCHANGED <<estate, machine, form, shipped, took, pendingNodes, store, old, times>>

\* applyCrossRepoBridge: from an import to the root of the member whose package it is.
ByPackage(p) == {r \in Range(took) : Package[r] = p}
LastOf(rs) == took[Max({i \in DOMAIN took : took[i] \in rs})]
Bridges ==
    {<<id, <<"folder", LastOf(ByPackage(id[2]))>>>> :
        id \in {x \in UNION {Kept(r) : r \in Range(took)} :
                   /\ x[1] = "import" /\ ByPackage(x[2]) # {}
                   /\ \E r \in Range(took) : x \in Kept(r) /\ NameOf(r) # NameOf(LastOf(ByPackage(x[2])))}}

Bridge ==
    /\ phase = "arced" /\ phase' = "done"
    /\ LET held == {e \in Bridges : e[1] \in DOMAIN store /\ e[2] \in DOMAIN store}
       IN  /\ edges' = edges \cup held
           /\ result' = [result EXCEPT !.deferred = @ \cup (Bridges \ held), !.bridges = held]
    /\ UNCHANGED <<estate, machine, form, shipped, took, pendingNodes, store, old, times>>

LoadGroup ==
    \/ \E r \in Repositories : exportCodeGraph(r)
    \/ ResolveMembers \/ ParseMembers \/ IngestNotes \/ applySupersedes \/ ApplyLinks
    \/ IngestCode \/ ApplyArcs \/ Bridge

GroupSpec == GroupInit /\ [][LoadGroup]_grouping

-----------------------------------------------------------------------------
GroupLoaded == phase = "done"
Named(r) == \A x \in Repositories \ {r} : NameOf(x) # NameOf(r)

\* What a member declares, or qualifies as its own, is stored under its name and no other
\* member's, however often the group is loaded.
ProvenanceHolds ==
    GroupLoaded => \A id \in DOMAIN store :
        /\ id[1] = "note" => \E i \in DOMAIN took : /\ id \in estate[took[i]].notes
                                                    /\ store[id] = NameOf(took[i])
                                                    /\ \A j \in 1 .. i - 1 : id \notin estate[took[j]].notes
        /\ ownerSlug(id) # "none" => store[id] = NameOf(ownerSlug(id))

\* An edge that a member ships is in the store or is told to be deferred, and what is
\* deferred lacked an end: edges between members hold if both ends are notes.
SeamsHold ==
    GroupLoaded => \A r \in Range(took) :
        /\ \A e \in estate[r].links \cup KeptArcs(r) : e \in edges \/ e \in result.deferred
        /\ \A e \in estate[r].links :
              e[1][1] = "note" /\ e[2][1] = "note" /\ e[1] \in DOMAIN store /\ e[2] \in DOMAIN store => e \in edges
        /\ \A e \in KeptArcs(r) : e[1] \in DOMAIN store /\ e[2] \in DOMAIN store => e \in edges

\* An import of another member's package leads to its root, if it shipped that and has a
\* name of its own; and no member's own import does.
BridgesHold ==
    GroupLoaded => \A r, x \in Range(took) :
        LET id == <<"import", Package[x]>> IN
        /\ r # x /\ Named(x) /\ ByPackage(Package[x]) = {x} /\ id \in Kept(r)
           /\ {id, <<"folder", x>>} \subseteq DOMAIN store
              => <<id, <<"folder", x>>>> \in edges
        /\ ByPackage(Package[x]) = {x} /\ (\A y \in Repositories \ {x} : id \notin shipped[y].code)
              => \A e \in result.bridges : e[1] # id

\* A note is superseded only by what its own member says, and only when that is there.
SupersededRightly ==
    GroupLoaded => \A id \in old : \E r \in Range(took) :
        /\ id \in pendingNodes[r] /\ id \in DOMAIN estate[r].by
        /\ {id, estate[r].by[id]} \subseteq DOMAIN store

\* A group is loaded as its members declare it.
GroupsHold == ProvenanceHolds /\ SeamsHold /\ BridgesHold /\ SupersededRightly

\* "Edges still dangling after the WHOLE group was loaded - their target (or source) is in
\* NO member of the group" (memorySync.ts, GroupResult): but edges from notes to code are
\* tried before any code is there.
DeferredAreNowhere ==
    GroupLoaded /\ result.errors = {} => \A e \in result.deferred :
        \E i \in {1, 2} : \A r \in Range(took) : e[i] \notin estate[r].notes \cup Kept(r)
=============================================================================

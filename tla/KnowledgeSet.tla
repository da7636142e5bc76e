---------------------------- MODULE KnowledgeSet ----------------------------
(***************************************************************************)
(* What the team ledger promises, whatever clones, merges, hooks and       *)
(* imports do: a set of published entries that only ever grows, by entries *)
(* somebody wrote.  "Nothing is lost" (scripts/memory-merge-driver.mjs).   *)
(***************************************************************************)
CONSTANT Ids

VARIABLES
    authored,       \* entries written by an agent, a developer or the PM
    published       \* entries in the shared repository's ledger

Init == authored = {} /\ published = {}

Author(id) ==
    /\ authored' = authored \cup {id}
    /\ UNCHANGED published

Publish(S) ==
    /\ S \subseteq authored
    /\ published' = published \cup S
    /\ UNCHANGED authored

Next ==
    \/ \E id \in Ids : Author(id)
    \/ \E S \in SUBSET Ids : Publish(S)

Spec == Init /\ [][Next]_<<authored, published>>
=============================================================================

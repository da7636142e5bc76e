---------------------------- MODULE MemoryLedger ----------------------------
(***************************************************************************)
(* The team's knowledge ledger, .atlas/memory.jsonl: every developer clone *)
(* exports its store into the file in a pre-commit hook and imports the    *)
(* file in post-merge and post-checkout hooks, other participants (the     *)
(* PM) append to the file without a store, and git merges the file with a  *)
(* union driver (src/src/cli/gitHooks.ts, cli/memorySync.ts, memoryFile.ts *)
(* and scripts/memory-merge-driver.mjs).                                   *)
(*                                                                         *)
(* A ledger is a function from ids to lines; edges are keyed and merged    *)
(* like nodes and are left out, as are line order, vectors and headers.    *)
(* Every export has a new exportedAt, so that every commit changes it.     *)
(***************************************************************************)
EXTENDS Integers

CONSTANTS
    Clones,         \* clones of the repository
    Devs,           \* those with an embedded store and hooks
    Rebasers,       \* those that pull with --rebase
    Ids,            \* knowledge entries
    Replacement,    \* the entry that supersedes an entry
    MaxVersion,     \* bound: contents written under one id
    MaxHookKills    \* bound: kills of a pre-commit hook

ASSUME LedgerAssumption ==
    /\ Devs \subseteq Clones /\ Rebasers \subseteq Clones
    /\ Replacement \in [Ids -> Ids]
    /\ MaxVersion \in Nat \ {0} /\ MaxHookKills \in Nat

VARIABLES
    db,         \* knowledge nodes in each clone's store
    file,       \* the working tree's ledger
    prior,      \* priorText of a running export
    hook,       \* pre-commit: "idle", "exported", or killed and "left"
    base,       \* the ledger of the common ancestor with the remote
    ahead,      \* the clone has commits the remote has not
    behind,     \* the remote has commits the clone has not
    remote,     \* the shared repository's ledger
    issued,     \* contents written so far under each id
    hookKills,  \* kills of pre-commit hooks so far
    lost        \* bookkeeping: entries a killed hook left out of a file

vars == <<db, file, prior, hook, base, ahead, behind, remote, issued, hookKills,
          lost>>
killVars == <<hookKills, lost>>
gitVars == <<base, ahead, behind, remote>>

(* The content of an entry is its version, 0 if it is not there.           *)
Line == {l \in [v : 0..MaxVersion, superseded : BOOLEAN] :
            l.superseded => l.v # 0}
Ledger == [Ids -> Line]
NoLine == [v |-> 0, superseded |-> FALSE]
NoLedger == [id \in Ids |-> NoLine]

Has(m, id) == m[id].v # 0
Knows(m) == {id \in Ids : Has(m, id)}

TypeOK ==
    /\ db \in [Clones -> Ledger] /\ file \in [Clones -> Ledger]
    /\ prior \in [Clones -> Ledger] /\ base \in [Clones -> Ledger]
    /\ hook \in [Clones -> {"idle", "exported", "left"}]
    /\ ahead \in [Clones -> BOOLEAN] /\ behind \in [Clones -> BOOLEAN]
    /\ remote \in Ledger
    /\ issued \in [Ids -> 0..MaxVersion]
    /\ hookKills \in 0..MaxHookKills /\ lost \subseteq Ids

Init ==
    /\ db = [c \in Clones |-> NoLedger] /\ file = [c \in Clones |-> NoLedger]
    /\ prior = [c \in Clones |-> NoLedger] /\ base = [c \in Clones |-> NoLedger]
    /\ hook = [c \in Clones |-> "idle"]
    /\ ahead = [c \in Clones |-> FALSE] /\ behind = [c \in Clones |-> FALSE]
    /\ remote = NoLedger
    /\ issued = [id \in Ids |-> 0]
    /\ hookKills = 0 /\ lost = {}
-----------------------------------------------------------------------------
(* unionMemoryJsonl: ours wins where both sides have the key.              *)
Union(ours, theirs) ==
    [id \in Ids |-> IF Has(ours, id) THEN ours[id] ELSE theirs[id]]

(* Mutant: the incoming side replaces ours. *)
TakeTheirs(ours, theirs) == theirs

(* git runs the driver when both sides changed the ledger.                 *)
MergeDriver(ours, theirs) == Union(ours, theirs)

(* Mutant: the fresh export replaces the file. *)
FoldBackNothing(fresh, old) == fresh

(* unionMemoryFileInPlace: fold the prior file back into a fresh export.   *)
FoldBack(fresh, old) == Union(fresh, old)

NewLine(id) == [v |-> issued[id] + 1, superseded |-> FALSE]

Write(id) ==
    /\ issued[id] < MaxVersion
    /\ issued' = [issued EXCEPT ![id] = @ + 1]

(* knowledge_store: an upsert, which leaves the superseded mark alone.     *)
KnowledgeStore(c, id) ==
    /\ c \in Devs
    /\ Write(id)
    /\ db' = [db EXCEPT ![c][id].v = issued[id] + 1]
    /\ UNCHANGED <<file, prior, hook, gitVars, killVars>>

(* knowledge_supersede; knowledge_retract does it to a tombstone entry.    *)
KnowledgeSupersede(c, id) ==
    /\ c \in Devs
    /\ Replacement[id] # id
    /\ {id, Replacement[id]} \subseteq Knows(db[c])
    /\ db' = [db EXCEPT ![c][id].superseded = TRUE]
    /\ UNCHANGED <<file, prior, hook, gitVars, issued, killVars>>

(* knowledge_delete: from the local store only.                            *)
KnowledgeDelete(c, id) ==
    /\ c \in Devs
    /\ Has(db[c], id)
    /\ db' = [db EXCEPT ![c][id] = NoLine]
    /\ UNCHANGED <<file, prior, hook, gitVars, issued, killVars>>

(* appendMemoryEntries, committed: the new entry is ours, the file theirs. *)
AppendMemoryEntry(c, id) ==
    /\ hook[c] = "idle"
    /\ Write(id)
    /\ file' = [file EXCEPT ![c] =
                   Union([NoLedger EXCEPT ![id] = NewLine(id)], @)]
    /\ ahead' = [ahead EXCEPT ![c] = TRUE]
    /\ UNCHANGED <<db, prior, hook, base, behind, remote, killVars>>
-----------------------------------------------------------------------------
(* The pre-commit hook: memory export --union reads the prior file, and    *)
(* exportMemory puts the store's snapshot in its place ...                 *)
ExportMemory(c) ==
    /\ c \in Devs
    /\ hook[c] # "exported"
    /\ prior' = [prior EXCEPT ![c] = file[c]]
    /\ file' = [file EXCEPT ![c] = db[c]]
    /\ hook' = [hook EXCEPT ![c] = "exported"]
    /\ UNCHANGED <<db, gitVars, issued, killVars>>

(* ... then the prior file is folded back in, and the result committed.    *)
UnionAndCommit(c) ==
    /\ hook[c] = "exported"
    /\ file' = [file EXCEPT ![c] = FoldBack(@, prior[c])]
    /\ prior' = [prior EXCEPT ![c] = NoLedger]
    /\ hook' = [hook EXCEPT ![c] = "idle"]
    /\ ahead' = [ahead EXCEPT ![c] = TRUE]
    /\ UNCHANGED <<db, base, behind, remote, issued, killVars>>

(* The commit is killed between the two: the snapshot is left in the       *)
(* working tree, where the next commit finds it.                           *)
HookKilled(c) ==
    /\ hookKills < MaxHookKills
    /\ hook[c] = "exported"
    /\ hookKills' = hookKills + 1
    /\ lost' = lost \cup (Knows(prior[c]) \ Knows(file[c]))
    /\ prior' = [prior EXCEPT ![c] = NoLedger]
    /\ hook' = [hook EXCEPT ![c] = "left"]
    /\ UNCHANGED <<db, file, gitVars, issued>>
-----------------------------------------------------------------------------

(* Mutant: what the store already has is not imported again, nor marked. *)
ImportedIfEmpty(nodes, lines, stored) ==
    IF Knows(nodes) # {} THEN nodes
    ELSE [id \in Ids |-> IF id \in stored THEN lines[id] ELSE nodes[id]]

(* importMemory: store the lines that can be stored, then restore the      *)
(* superseded marks whose replacement is there.                            *)
Imported(nodes, lines, stored) ==
    LET upserted == [id \in Ids |->
            IF id \in stored /\ Has(lines, id)
            THEN [nodes[id] EXCEPT !.v = lines[id].v] ELSE nodes[id]]
    IN  [id \in Ids |->
            [upserted[id] EXCEPT !.superseded =
                \/ @
                \/ /\ lines[id].superseded
                   /\ {id, Replacement[id]} \subseteq Knows(upserted)]]

(* The import hooks never fail the git operation they follow: the import   *)
(* may do nothing at all, or only a part.                                  *)
ImportHook(c, lines) ==
    \/ UNCHANGED db
    \/ /\ c \in Devs
       /\ \E stored \in SUBSET Knows(lines) :
             db' = [db EXCEPT ![c] = Imported(@, lines, stored)]

(* git push: refused unless the clone has all of the remote.               *)
Push(c) ==
    /\ hook[c] = "idle" /\ ahead[c] /\ ~behind[c]
    /\ remote' = file[c]
    /\ base' = [base EXCEPT ![c] = file[c]]
    /\ ahead' = [ahead EXCEPT ![c] = FALSE]
    /\ behind' = [d \in Clones |-> d # c]
    /\ UNCHANGED <<db, file, prior, hook, issued, killVars>>

(* What git pull makes of the ledger; in a rebase "ours" is the upstream.  *)
Pulled(c) ==
    CASE ~ahead[c] -> remote
      [] ahead[c] /\ c \in Rebasers -> MergeDriver(remote, file[c])
      [] OTHER -> MergeDriver(file[c], remote)

(* git pull, which refuses to merge over an uncommitted ledger, with its   *)
(* post-merge hook.                                                        *)
Pull(c) ==
    /\ hook[c] = "idle" /\ behind[c]
    /\ file' = [file EXCEPT ![c] = Pulled(c)]
    /\ base' = [base EXCEPT ![c] = remote]
    /\ behind' = [behind EXCEPT ![c] = FALSE]
    /\ ImportHook(c, Pulled(c))
    /\ UNCHANGED <<prior, hook, ahead, remote, issued, killVars>>

(* git checkout, with its post-checkout hook; the branches of a clone      *)
(* share one ledger here.                                                  *)
Checkout(c) ==
    /\ c \in Devs
    /\ hook[c] = "idle"
    /\ ImportHook(c, file[c])
    /\ UNCHANGED <<file, prior, hook, gitVars, issued, killVars>>

CheckoutImports(c) ==
    /\ Checkout(c)
    /\ db' = [db EXCEPT ![c] = Imported(@, file[c], Ids)]

(* What developers, agents and hooks do, ...                               *)
Teamwork ==
    \/ \E c \in Clones, id \in Ids :
          \/ KnowledgeStore(c, id) \/ KnowledgeSupersede(c, id)
          \/ KnowledgeDelete(c, id) \/ AppendMemoryEntry(c, id)
    \/ \E c \in Clones :
          \/ ExportMemory(c) \/ UnionAndCommit(c)
          \/ Push(c) \/ Pull(c) \/ Checkout(c)

(* ... and what stops a hook.                                              *)
Next == Teamwork \/ \E c \in Clones : HookKilled(c)

Spec == Init /\ [][Next]_vars

(* Developers go on committing, pulling and switching branches, a push     *)
(* that is refused is tried again after a pull, and an import that keeps   *)
(* being tried succeeds; no hook is killed any more.                       *)
Fairness ==
    \A c \in Clones :
        /\ WF_vars(ExportMemory(c)) /\ WF_vars(UnionAndCommit(c))
        /\ SF_vars(Push(c)) /\ SF_vars(Pull(c)) /\ SF_vars(CheckoutImports(c))

FairSpec == Init /\ [][Teamwork]_vars /\ Fairness
-----------------------------------------------------------------------------
(* What a clone has seen of the remote stays in its file, so that its next *)
(* push cannot take it away: the hole the pre-commit export once had, when *)
(* the import was skipped and the store's snapshot overwrote the file.     *)
SyncedStays ==
    \A c \in Clones :
        /\ Knows(base[c]) \subseteq Knows(remote) \cup lost
        /\ behind[c] \/ base[c] = remote
        /\ Knows(base[c]) \subseteq
              Knows(file[c]) \cup Knows(prior[c]) \cup lost

(* Whatever is in a store, a file or the ledger, somebody has written, and *)
(* a copy of the prior file exists only while an export runs: an export    *)
(* that finds one would forget it.                                         *)
NothingInvented ==
    LET authored == {id \in Ids : issued[id] # 0}
    IN  /\ Knows(remote) \cup lost \subseteq authored
        /\ \A c \in Clones :
              /\ Knows(db[c]) \cup Knows(file[c]) \cup Knows(prior[c])
                    \subseteq authored
              /\ hook[c] # "exported" => prior[c] = NoLedger

(* The ledger is the grow-only set of KnowledgeSet: "nothing is lost", "an *)
(* entry present on one side only is ALWAYS preserved".                    *)
Abstract == INSTANCE KnowledgeSet WITH
    authored  <- {id \in Ids : issued[id] # 0},
    published <- Knows(remote) \cup lost

GrowsOnly == Abstract!Spec

(* Every clone catches up again and again: its file has what the remote    *)
(* has and no more, and its store all of it, whoever merges first and      *)
(* whatever imports fail on the way.                                       *)
EveryoneCatchesUp ==
    \A c \in Clones :
        []<>(/\ Knows(file[c]) = Knows(remote)
             /\ c \in Devs => Knows(remote) \subseteq Knows(db[c]))

(* "because the fresh export is `ours`, the superseded state wins the      *)
(* union" (unionMemoryFileInPlace): a supersession is published.           *)
SupersededIsPublished ==
    \A c \in Devs \ Rebasers, id \in {i \in Ids : Replacement[i] # i} :
        db[c][id].superseded ~>
            remote[id].superseded \/ ~db[c][id].superseded

(* Every variable keeps its type, what a clone has seen of the ledger      *)
(* stays in its files and in the shared one, and nothing else gets there.  *)
LedgerOK == TypeOK /\ SyncedStays /\ NothingInvented

(* Clones keep catching up, and what one of them supersedes is published.  *)
LedgerConverges == EveryoneCatchesUp /\ SupersededIsPublished
=============================================================================

----------------------------- MODULE TeamProofs -----------------------------
(* Proofs for what a team shares: the ledger (src/src/cli/memorySync.ts,        *)
(* gitHooks.ts, scripts/memory-merge-driver.mjs), a group of repositories, the  *)
(* loop that records a PM's decisions, the configuration files of other         *)
(* programs, and the sections that `atlas wire` writes (wire.ts).              *)
EXTENDS MemoryLedger, RepoGroups, PmCycle, ClientConfigs, WiredRepo,
        FiniteSetTheorems, SequenceTheorems, WellFoundedInduction, TLAPS

Authored == {id \in Ids : issued[id] # 0}

\* A union knows what either side knows, and nothing else.
LEMMA UnionKnows ==
    ASSUME NEW ours \in Ledger, NEW theirs \in Ledger
    PROVE  /\ Union(ours, theirs) \in Ledger
           /\ Knows(Union(ours, theirs)) = Knows(ours) \cup Knows(theirs)
BY DEF Union, Ledger, Knows, Has

\* A ledger with no line knows nothing.
LEMMA NoLedgerKnows == NoLedger \in Ledger /\ Knows(NoLedger) = {}
BY LedgerAssumption DEF NoLedger, NoLine, Ledger, Line, Knows, Has

\* An entry's next content is a line.
LEMMA NewLineTyped ==
    ASSUME TypeOK, NEW id \in Ids, issued[id] < MaxVersion
    PROVE  /\ NewLine(id) \in Line
           /\ issued[id] + 1 \in 1 .. MaxVersion
<1>1. issued[id] \in Nat /\ MaxVersion \in Nat
      BY LedgerAssumption DEF TypeOK
<1> QED BY <1>1 DEF NewLine, Line

\* An import keeps lines lines, forgets none and brings only what it read.
LEMMA ImportKnows ==
    ASSUME NEW nodes \in Ledger, NEW lines \in Ledger, NEW stored \in SUBSET Ids
    PROVE  /\ Imported(nodes, lines, stored) \in Ledger
           /\ Knows(nodes) \subseteq Knows(Imported(nodes, lines, stored))
           /\ Knows(Imported(nodes, lines, stored))
                 \subseteq Knows(nodes) \cup Knows(lines)
<1> DEFINE upserted == [id \in Ids |->
                IF id \in stored /\ Has(lines, id)
                THEN [nodes[id] EXCEPT !.v = lines[id].v] ELSE nodes[id]]
           marked == [id \in Ids |->
                [upserted[id] EXCEPT !.superseded =
                   \/ @
                   \/ /\ lines[id].superseded
                      /\ {id, Replacement[id]} \subseteq Knows(upserted)]]
<1>1. /\ upserted \in Ledger
      /\ \A id \in Ids : Has(upserted, id) <=>
            Has(nodes, id) \/ (id \in stored /\ Has(lines, id))
      BY DEF Ledger, Line, Has
<1>2. /\ marked \in Ledger
      /\ \A id \in Ids : Has(marked, id) <=> Has(upserted, id)
      <2>1. SUFFICES ASSUME NEW id \in Ids
                     PROVE  marked[id] \in Line /\ marked[id].v = upserted[id].v
            BY DEF Ledger, Has
      <2>2. upserted[id] \in Line /\ lines[id] \in Line
            BY <1>1 DEF Ledger
      <2>3. id \in Knows(upserted) => upserted[id].v # 0
            BY DEF Knows, Has
      <2> HIDE DEF upserted
      <2> QED BY <2>2, <2>3 DEF Line
<1>3. Imported(nodes, lines, stored) = marked
      BY DEF Imported
<1> HIDE DEF upserted, marked
<1> QED BY <1>1, <1>2, <1>3 DEF Knows

LedgerInv == TypeOK /\ SyncedStays /\ NothingInvented

\* What a clone has in its working tree once no export runs.
LEMMA BaseIsInFile ==
    ASSUME LedgerInv, NEW c \in Clones, hook[c] # "exported"
    PROVE  Knows(base[c]) \subseteq Knows(file[c]) \cup lost
BY NoLedgerKnows DEF LedgerInv, SyncedStays, NothingInvented

\* The invariant is that of the entries known: a step that keeps the shared
\* repository and a clone's base, and keeps what the clone has, keeps it.
LEMMA LocalStep ==
    ASSUME LedgerInv, TypeOK', UNCHANGED <<base, behind, remote>>,
           Authored \subseteq Authored', lost \subseteq lost', lost' \subseteq Authored',
           \A c \in Clones :
              /\ Knows(file[c]) \cup Knows(prior[c])
                    \subseteq Knows(file'[c]) \cup Knows(prior'[c]) \cup lost'
              /\ Knows(db'[c]) \cup Knows(file'[c]) \cup Knows(prior'[c])
                    \subseteq Authored'
              /\ hook'[c] # "exported" => prior'[c] = NoLedger
    PROVE  LedgerInv'
<1>1. SyncedStays'
      BY DEF LedgerInv, SyncedStays, TypeOK, Knows, Has
<1>2. NothingInvented'
      BY DEF LedgerInv, NothingInvented, Authored, Knows, Has
<1> QED BY <1>1, <1>2 DEF LedgerInv

\* A clone's store stays one when one of its lines is replaced.
LEMMA OneLine ==
    ASSUME NEW all \in [Clones -> Ledger], NEW c \in Clones, NEW id \in Ids, NEW new \in Line
    PROVE  [all EXCEPT ![c][id] = new] \in [Clones -> Ledger]
<1> DEFINE m == [all[c] EXCEPT ![id] = new]
<1>1. m \in Ledger
      BY DEF Ledger
<1>2. [all EXCEPT ![c][id] = new] = [all EXCEPT ![c] = m]
      OBVIOUS
<1> HIDE DEF m
<1> QED BY <1>1, <1>2

\* Storing knowledge writes a new id in one clone's store.
LEMMA StorePreserves ==
    ASSUME LedgerInv, NEW c \in Clones, NEW id \in Ids, KnowledgeStore(c, id)
    PROVE  LedgerInv'
<1> USE DEF KnowledgeStore, gitVars, killVars, Write
<1>1. issued[id] + 1 \in 1 .. MaxVersion
      BY NewLineTyped DEF LedgerInv
<1>2. db' \in [Clones -> Ledger]
      <2> DEFINE new == [db[c][id] EXCEPT !.v = issued[id] + 1]
      <2>1. db[c][id] \in Line
            BY DEF LedgerInv, TypeOK, Ledger
      <2>2. new \in Line
            BY <1>1, <2>1 DEF Line
      <2>3. db' = [db EXCEPT ![c][id] = new]
            OBVIOUS
      <2>4. db \in [Clones -> Ledger]
            BY DEF LedgerInv, TypeOK
      <2> HIDE DEF new
      <2>5. [db EXCEPT ![c][id] = new] \in [Clones -> Ledger]
            BY <2>2, <2>4, OneLine, Zenon
      <2> QED BY <2>3, <2>5, Zenon
<1>3. TypeOK'
      BY <1>1, <1>2 DEF LedgerInv, TypeOK
<1>4. Authored' = Authored \cup {id}
      BY <1>1 DEF LedgerInv, TypeOK, Authored
<1>5. \A k \in Clones : Knows(db'[k]) \subseteq Knows(db[k]) \cup {id}
      BY <1>1 DEF LedgerInv, TypeOK, Ledger, Line, Knows, Has
<1> QED BY <1>3, <1>4, <1>5, LocalStep DEF LedgerInv, NothingInvented, Authored

\* Superseding marks an entry that the store has.
LEMMA SupersedePreserves ==
    ASSUME LedgerInv, NEW c \in Clones, NEW id \in Ids, KnowledgeSupersede(c, id)
    PROVE  LedgerInv'
<1> USE DEF KnowledgeSupersede, gitVars, killVars
<1>1. db[c][id].v # 0
      BY DEF Knows, Has
<1>2. db' \in [Clones -> Ledger]
      <2>1. db[c][id] \in Line
            BY DEF LedgerInv, TypeOK, Ledger
      <2> DEFINE new == [db[c][id] EXCEPT !.superseded = TRUE]
      <2>2. new \in Line
            BY <1>1, <2>1 DEF Line
      <2>3. db' = [db EXCEPT ![c][id] = new]
            OBVIOUS
      <2>4. db \in [Clones -> Ledger]
            BY DEF LedgerInv, TypeOK
      <2> HIDE DEF new
      <2>5. [db EXCEPT ![c][id] = new] \in [Clones -> Ledger]
            BY <2>2, <2>4, OneLine, Zenon
      <2> QED BY <2>3, <2>5, Zenon
<1>3. TypeOK'
      BY <1>2 DEF LedgerInv, TypeOK
<1>4. \A k \in Clones : Knows(db'[k]) = Knows(db[k])
      BY DEF LedgerInv, TypeOK, Ledger, Line, Knows, Has
<1> QED BY <1>3, <1>4, LocalStep DEF LedgerInv, NothingInvented, Authored

\* Deleting from a store leaves the clone's file, and what it has seen.
LEMMA DeletePreserves ==
    ASSUME LedgerInv, NEW c \in Clones, NEW id \in Ids, KnowledgeDelete(c, id)
    PROVE  LedgerInv'
<1> USE DEF KnowledgeDelete, gitVars, killVars
<1>1. db' \in [Clones -> Ledger]
      BY LedgerAssumption DEF LedgerInv, TypeOK, Ledger, Line, NoLine
<1>2. TypeOK'
      BY <1>1 DEF LedgerInv, TypeOK
<1>3. \A k \in Clones : Knows(db'[k]) \subseteq Knows(db[k])
      BY DEF LedgerInv, TypeOK, Ledger, NoLine, Knows, Has
<1> QED BY <1>2, <1>3, LocalStep DEF LedgerInv, NothingInvented, Authored

\* An appended line joins the file as the union would have it.
LEMMA AppendPreserves ==
    ASSUME LedgerInv, NEW c \in Clones, NEW id \in Ids, AppendMemoryEntry(c, id)
    PROVE  LedgerInv'
<1> USE DEF AppendMemoryEntry, gitVars, killVars, Write
<1> DEFINE entry == [NoLedger EXCEPT ![id] = NewLine(id)]
<1>1. issued[id] + 1 \in 1 .. MaxVersion /\ NewLine(id) \in Line
      BY NewLineTyped DEF LedgerInv
<1>2. entry \in Ledger /\ Knows(entry) \subseteq {id}
      BY <1>1, NoLedgerKnows DEF Ledger, NoLedger, NoLine, Knows, Has
<1>3. file[c] \in Ledger
      BY DEF LedgerInv, TypeOK
<1> HIDE DEF entry
<1>4. /\ Union(entry, file[c]) \in Ledger
      /\ Knows(Union(entry, file[c])) = Knows(entry) \cup Knows(file[c])
      BY <1>2, <1>3, UnionKnows
<1>5. file' = [file EXCEPT ![c] = Union(entry, file[c])]
      BY DEF entry
<1>6. TypeOK'
      BY <1>1, <1>4, <1>5 DEF LedgerInv, TypeOK
<1>7. Authored' = Authored \cup {id}
      BY <1>1 DEF LedgerInv, TypeOK, Authored
<1>8. \A k \in Clones : /\ Knows(file[k]) \subseteq Knows(file'[k])
                         /\ Knows(file'[k]) \subseteq Knows(file[k]) \cup {id}
      BY <1>2, <1>4, <1>5 DEF LedgerInv, TypeOK
<1> QED BY <1>6, <1>7, <1>8, LocalStep, ZenonT(60) DEF LedgerInv, NothingInvented, Authored

\* An export replaces the file by the store's snapshot, the prior one kept in memory.
LEMMA ExportPreserves ==
    ASSUME LedgerInv, NEW c \in Clones, ExportMemory(c)
    PROVE  LedgerInv'
<1> USE DEF ExportMemory, gitVars, killVars
<1>1. TypeOK'
      BY DEF LedgerInv, TypeOK
<1>2. Knows(prior[c]) = {}
      BY NoLedgerKnows DEF LedgerInv, NothingInvented
<1>3. \A k \in Clones :
         Knows(file[k]) \cup Knows(prior[k]) \subseteq Knows(file'[k]) \cup Knows(prior'[k])
      BY <1>2 DEF LedgerInv, TypeOK
<1>4. \A k \in Clones :
         Knows(file'[k]) \cup Knows(prior'[k])
            \subseteq Knows(file[k]) \cup Knows(prior[k]) \cup Knows(db[k])
      BY DEF LedgerInv, TypeOK
<1>5. \A k \in Clones : hook'[k] # "exported" => prior'[k] = NoLedger
      BY DEF LedgerInv, TypeOK, NothingInvented
<1> QED BY <1>1, <1>3, <1>4, <1>5, LocalStep DEF LedgerInv, NothingInvented, Authored

\* The fold-back joins the prior file again, so a commit knows all it knew.
LEMMA UnionAndCommitPreserves ==
    ASSUME LedgerInv, NEW c \in Clones, UnionAndCommit(c)
    PROVE  LedgerInv'
<1> USE DEF UnionAndCommit, gitVars, killVars
<1>1. file[c] \in Ledger /\ prior[c] \in Ledger
      BY DEF LedgerInv, TypeOK
<1>2. /\ FoldBack(file[c], prior[c]) \in Ledger
      /\ Knows(FoldBack(file[c], prior[c])) = Knows(file[c]) \cup Knows(prior[c])
      BY <1>1, UnionKnows DEF FoldBack
<1>3. TypeOK'
      BY <1>2, NoLedgerKnows DEF LedgerInv, TypeOK
<1>4. \A k \in Clones :
         Knows(file'[k]) \cup Knows(prior'[k]) = Knows(file[k]) \cup Knows(prior[k])
      BY <1>2, NoLedgerKnows DEF LedgerInv, TypeOK
<1>5. \A k \in Clones : hook'[k] # "exported" => prior'[k] = NoLedger
      BY DEF LedgerInv, TypeOK, NothingInvented
<1> QED BY <1>3, <1>4, <1>5, LocalStep, SMTT(30) DEF LedgerInv, NothingInvented, Authored

\* A hook killed between the two loses what is then counted as lost, and nothing else.
LEMMA KillPreserves ==
    ASSUME LedgerInv, NEW c \in Clones, HookKilled(c)
    PROVE  LedgerInv'
<1> USE DEF HookKilled, gitVars, killVars
<1>1. hookKills + 1 \in 0 .. MaxHookKills
      BY LedgerAssumption DEF LedgerInv, TypeOK
<1>2. Knows(prior[c]) \subseteq Authored /\ lost' \subseteq Authored
      BY DEF LedgerInv, NothingInvented, Authored
<1>3. TypeOK'
      BY <1>1, <1>2, NoLedgerKnows DEF LedgerInv, TypeOK, Authored
<1>4. \A k \in Clones :
         /\ Knows(file[k]) \cup Knows(prior[k])
               \subseteq Knows(file'[k]) \cup Knows(prior'[k]) \cup lost'
         /\ Knows(prior'[k]) \subseteq Knows(prior[k])
      BY NoLedgerKnows DEF LedgerInv, TypeOK
<1>5. \A k \in Clones : hook'[k] # "exported" => prior'[k] = NoLedger
      BY DEF LedgerInv, TypeOK, NothingInvented
<1> QED BY <1>2, <1>3, <1>4, <1>5, LocalStep DEF LedgerInv, NothingInvented, Authored

\* What an import leaves in the stores: lines, which were there or are in the file.
LEMMA HookImports ==
    ASSUME LedgerInv, NEW c \in Clones, NEW lines \in Ledger, ImportHook(c, lines)
    PROVE  /\ db' \in [Clones -> Ledger]
           /\ \A k \in Clones : Knows(db'[k]) \subseteq Knows(db[k]) \cup Knows(lines)
<1>1. CASE UNCHANGED db
      BY <1>1 DEF LedgerInv, TypeOK
<1>2. ASSUME NEW stored \in SUBSET Knows(lines),
             db' = [db EXCEPT ![c] = Imported(@, lines, stored)]
      PROVE  /\ db' \in [Clones -> Ledger]
             /\ \A k \in Clones : Knows(db'[k]) \subseteq Knows(db[k]) \cup Knows(lines)
      <2>1. db[c] \in Ledger /\ stored \in SUBSET Ids
            BY DEF LedgerInv, TypeOK, Knows
      <2>2. /\ Imported(db[c], lines, stored) \in Ledger
            /\ Knows(Imported(db[c], lines, stored)) \subseteq Knows(db[c]) \cup Knows(lines)
            BY <2>1, ImportKnows
      <2> QED BY <1>2, <2>2 DEF LedgerInv, TypeOK
<1> QED BY <1>1, <1>2 DEF ImportHook

\* A post-checkout import stores lines of the file.
LEMMA CheckoutPreserves ==
    ASSUME LedgerInv, NEW c \in Clones, Checkout(c)
    PROVE  LedgerInv'
<1> USE DEF Checkout, gitVars, killVars
<1>1. file[c] \in Ledger
      BY DEF LedgerInv, TypeOK
<1>2. /\ db' \in [Clones -> Ledger]
      /\ \A k \in Clones : Knows(db'[k]) \subseteq Knows(db[k]) \cup Knows(file[c])
      BY <1>1, HookImports
<1>3. TypeOK'
      BY <1>2 DEF LedgerInv, TypeOK
<1> QED BY <1>2, <1>3, LocalStep DEF LedgerInv, NothingInvented, Authored

\* A pull leaves what either side had.
LEMMA PulledKnows ==
    ASSUME LedgerInv, NEW c \in Clones, hook[c] # "exported"
    PROVE  /\ Pulled(c) \in Ledger
           /\ Knows(remote) \subseteq Knows(Pulled(c))
           /\ Knows(Pulled(c)) \subseteq Knows(remote) \cup Knows(file[c])
BY UnionKnows DEF Pulled, MergeDriver, LedgerInv, TypeOK

\* A pull joins the remote's lines, in whichever order git gives the sides.
LEMMA PullPreserves ==
    ASSUME LedgerInv, NEW c \in Clones, Pull(c)
    PROVE  LedgerInv'
<1> USE DEF Pull, killVars
<1>1. /\ Pulled(c) \in Ledger
      /\ Knows(remote) \subseteq Knows(Pulled(c))
      /\ Knows(Pulled(c)) \subseteq Knows(remote) \cup Knows(file[c])
      BY PulledKnows
<1>2. /\ db' \in [Clones -> Ledger]
      /\ \A k \in Clones : Knows(db'[k]) \subseteq Knows(db[k]) \cup Knows(Pulled(c))
      BY <1>1, HookImports
<1>3. TypeOK'
      BY <1>1, <1>2 DEF LedgerInv, TypeOK
<1>4. SyncedStays'
      BY <1>1 DEF LedgerInv, TypeOK, SyncedStays, Knows, Has
<1>5. NothingInvented'
      <2>1. Knows(Pulled(c)) \subseteq Authored
            BY <1>1 DEF LedgerInv, NothingInvented, Authored
      <2>2. \A k \in Clones : Knows(db'[k]) \cup Knows(file'[k]) \subseteq Authored
            BY <1>2, <2>1 DEF LedgerInv, TypeOK, NothingInvented, Authored
      <2> QED BY <2>2 DEF LedgerInv, NothingInvented, Authored, Knows, Has
<1> QED BY <1>3, <1>4, <1>5 DEF LedgerInv

\* A push takes nothing from the shared ledger but what a killed hook lost.
LEMMA LedgerPushKeeps ==
    ASSUME LedgerInv, NEW c \in Clones, Push(c)
    PROVE  Knows(remote) \subseteq Knows(remote') \cup lost
<1>1. base[c] = remote
      BY DEF LedgerInv, SyncedStays, Push
<1> QED BY <1>1, BaseIsInFile DEF Push

\* A push adds what the clone knows, and takes nothing away.
LEMMA PushPreserves ==
    ASSUME LedgerInv, NEW c \in Clones, Push(c)
    PROVE  LedgerInv'
<1> USE DEF Push, killVars
<1>1. TypeOK'
      BY DEF LedgerInv, TypeOK
<1>2. \A k \in Clones : Knows(base'[k]) \subseteq Knows(remote') \cup lost'
      BY LedgerPushKeeps DEF LedgerInv, TypeOK, SyncedStays
<1>3. \A k \in Clones : behind'[k] \/ base'[k] = remote'
      BY DEF LedgerInv, TypeOK, SyncedStays
<1>4. \A k \in Clones : Knows(base'[k]) \subseteq
                           Knows(file'[k]) \cup Knows(prior'[k]) \cup lost'
      BY DEF LedgerInv, TypeOK, SyncedStays
<1>5. NothingInvented'
      BY DEF LedgerInv, NothingInvented, Authored, Knows, Has
<1> QED BY <1>1, <1>2, <1>3, <1>4, <1>5 DEF LedgerInv, SyncedStays, Knows, Has

\* Every step of any clone keeps the invariant.
LEMMA LedgerInductive == LedgerInv /\ [Next]_vars => LedgerInv'
<1> SUFFICES ASSUME LedgerInv, [Next]_vars PROVE LedgerInv'
    OBVIOUS
<1>1. ASSUME NEW c \in Clones, NEW id \in Ids,
             \/ KnowledgeStore(c, id) \/ KnowledgeSupersede(c, id)
             \/ KnowledgeDelete(c, id) \/ AppendMemoryEntry(c, id)
      PROVE  LedgerInv'
      BY <1>1, StorePreserves, SupersedePreserves, DeletePreserves, AppendPreserves
<1>2. ASSUME NEW c \in Clones,
             \/ ExportMemory(c) \/ UnionAndCommit(c) \/ HookKilled(c)
             \/ Push(c) \/ Pull(c) \/ Checkout(c)
      PROVE  LedgerInv'
      BY <1>2, ExportPreserves, UnionAndCommitPreserves, KillPreserves,
         PushPreserves, PullPreserves, CheckoutPreserves
<1>3. CASE UNCHANGED vars
      BY <1>3 DEF vars, LedgerInv, TypeOK, SyncedStays, NothingInvented, Knows, Has
<1> QED BY <1>1, <1>2, <1>3 DEF Next, Teamwork

\* New clones know what the remote does: nothing.
LEMMA LedgerInit == Init => LedgerInv
<1>1. Init => TypeOK
      BY NoLedgerKnows, LedgerAssumption DEF Init, TypeOK
<1>2. Init => SyncedStays /\ NothingInvented
      BY NoLedgerKnows DEF Init, SyncedStays, NothingInvented
<1> QED BY <1>1, <1>2 DEF LedgerInv

\* The invariant of the ledger is inductive for any number of clones, entries,
\* contents and killed hooks (memorySync.ts, gitHooks.ts).
THEOREM LedgerTheorem == Spec => []LedgerOK
<1>1. LedgerInv => LedgerOK
      BY DEF LedgerInv, LedgerOK
<1> QED BY <1>1, LedgerInit, LedgerInductive, PTL DEF Spec

\* Every step of the clones is a step of the set, or none: a write is an Author,
\* a push publishes what the clone has, a killed hook what it lost.
LEMMA StepRefines ==
    ASSUME LedgerInv, [Next]_vars
    PROVE  [Abstract!Next]_<<Authored, Knows(remote) \cup lost>>
<1> USE DEF killVars, gitVars
<1> DEFINE published == Knows(remote) \cup lost
<1>1. ASSUME NEW id \in Ids, Write(id), UNCHANGED <<remote, lost>>
      PROVE  Abstract!Author(id)
      <2>1. Authored' = Authored \cup {id}
            BY <1>1, NewLineTyped DEF Write, Authored, LedgerInv, TypeOK
      <2> QED BY <1>1, <2>1 DEF Abstract!Author, Authored, Knows, Has
<1>2. ASSUME UNCHANGED issued, NEW S \in SUBSET Authored, published' = published \cup S
      PROVE  \E P \in SUBSET Ids : Abstract!Publish(P)
      BY <1>2 DEF Abstract!Publish, Authored
<1>3. ASSUME UNCHANGED <<issued, remote, lost>>
      PROVE  UNCHANGED <<Authored, published>>
      BY <1>3 DEF Authored, Knows, Has
<1>4. ASSUME NEW c \in Clones, NEW id \in Ids,
             \/ KnowledgeStore(c, id) \/ KnowledgeSupersede(c, id)
             \/ KnowledgeDelete(c, id) \/ AppendMemoryEntry(c, id)
      PROVE  [Abstract!Next]_<<Authored, published>>
      <2>1. CASE KnowledgeStore(c, id) \/ AppendMemoryEntry(c, id)
            BY <1>1, <2>1 DEF KnowledgeStore, AppendMemoryEntry, Abstract!Next
      <2>2. CASE KnowledgeSupersede(c, id) \/ KnowledgeDelete(c, id)
            BY <1>3, <2>2 DEF KnowledgeSupersede, KnowledgeDelete
      <2> QED BY <1>4, <2>1, <2>2
<1>5. ASSUME NEW c \in Clones, HookKilled(c)
      PROVE  Abstract!Next
      <2>1. Knows(prior[c]) \subseteq Authored
            BY DEF LedgerInv, NothingInvented, Authored
      <2>2. published' = published \cup (Knows(prior[c]) \ Knows(file[c]))
            BY <1>5 DEF HookKilled, Knows, Has
      <2> QED BY <1>2, <1>5, <2>1, <2>2 DEF HookKilled, Abstract!Next
<1>6. ASSUME NEW c \in Clones, Push(c)
      PROVE  Abstract!Next
      <2>1. Knows(file[c]) \subseteq Authored
            BY DEF LedgerInv, NothingInvented, Authored
      <2>2. published' = published \cup Knows(file[c])
            BY <1>6, LedgerPushKeeps DEF Push, Knows, Has
      <2> QED BY <1>2, <1>6, <2>1, <2>2 DEF Push, Abstract!Next
<1>7. ASSUME NEW c \in Clones,
             ExportMemory(c) \/ UnionAndCommit(c) \/ Pull(c) \/ Checkout(c)
      PROVE  UNCHANGED <<Authored, published>>
      BY <1>3, <1>7 DEF ExportMemory, UnionAndCommit, Pull, Checkout
<1>8. CASE UNCHANGED vars
      BY <1>3, <1>8 DEF vars
<1> QED BY <1>4, <1>5, <1>6, <1>7, <1>8 DEF Next, Teamwork

\* The shared ledger is the grow-only set: for any number of clones, whoever
\* merges or rebases, whatever imports do, and but for what killed hooks left out
\* of a file ("nothing is lost", memory-merge-driver.mjs:17).
THEOREM LedgerGrowsOnly == Spec => GrowsOnly
<1>1. Init => Abstract!Init
      BY NoLedgerKnows DEF Init, Abstract!Init
<1>2. Spec => []LedgerInv
      <2>1. Init => LedgerInv
            BY LedgerInit
      <2> QED BY <2>1, LedgerInductive, PTL DEF Spec
<1>3. LedgerInv /\ [Next]_vars => [Abstract!Next]_<<Authored, Knows(remote) \cup lost>>
      BY StepRefines
<1> QED BY <1>1, <1>2, <1>3, PTL DEF Spec, GrowsOnly, Abstract!Spec, Authored

-----------------------------------------------------------------------------
(* Sequences, from the front to the back.                                      *)

\* A set of numbers has a least one.
LEMMA Least ==
    ASSUME NEW T \in SUBSET Nat, T # {}
    PROVE  \E n \in T : \A m \in T : n <= m
<1>1. PICK n \in T : \A m \in T : <<m, n>> \notin OpToRel(<, Nat)
      BY NatLessThanWellFounded, WFMin
<1>2. OpToRel(<, Nat) = {p \in Nat \X Nat : p[1] < p[2]}
      BY DEF OpToRel
<1>3. \A m \in T : ~(m < n)
      BY <1>1, <1>2
<1> QED BY <1>3

\* A set of numbers up to a bound has a greatest one.
LEMMA Greatest ==
    ASSUME NEW L \in Nat, NEW P \in SUBSET (1 .. L), P # {}
    PROVE  \E m \in P : \A k \in P : m >= k
<1> DEFINE T == {L - m : m \in P}
<1>0. \A m \in P : m \in Nat /\ L - m \in Nat
      OBVIOUS
<1>1. T \in SUBSET Nat /\ T # {}
      <2>1. \A n \in T : n \in Nat
            BY <1>0
      <2>2. PICK m : m \in P
            OBVIOUS
      <2>3. L - m \in T
            BY <2>2
      <2> QED BY <2>1, <2>3
<1>2. PICK n \in T : \A k \in T : n <= k
      BY <1>1, Least
<1>3. PICK m \in P : n = L - m
      BY <1>2
<1>4. \A k \in P : L - m <= L - k
      BY <1>2, <1>3
<1>5. \A k \in P : m >= k
      BY <1>0, <1>4
<1> QED BY <1>5

\* What holds of 0, and of the number after one it holds of, holds up to n.
LEMMA UpTo ==
    ASSUME NEW n \in Nat, NEW S, 0 \in S, \A k \in 0 .. n - 1 : k \in S => k + 1 \in S
    PROVE  n \in S
<1>1. SUFFICES ASSUME (0 .. n) \ S # {} PROVE FALSE
      OBVIOUS
<1>2. PICK k \in (0 .. n) \ S : \A m \in (0 .. n) \ S : k <= m
      <2>1. (0 .. n) \ S \in SUBSET Nat
            OBVIOUS
      <2> QED BY <1>1, <2>1, Least
<1>3. k # 0 /\ k - 1 \in 0 .. n - 1
      BY <1>2
<1>4. k - 1 \in S
      BY <1>2, <1>3
<1> QED BY <1>2, <1>3, <1>4

\* What holds of the empty sequence, and of one after it is appended to, holds of all.
LEMMA ByAppending ==
    ASSUME NEW E, NEW T, <<>> \in T,
           \A t \in Seq(E) : t \in T => \A x \in E : Append(t, x) \in T
    PROVE  Seq(E) \subseteq T
<1> SUFFICES ASSUME NEW s \in Seq(E) PROVE s \in T
    OBVIOUS
<1>1. PICK L \in Nat : L = Len(s)
      OBVIOUS
<1> DEFINE S == {n \in 0 .. L : SubSeq(s, 1, n) \in T}
<1>2. 0 \in S
      <2>1. SubSeq(s, 1, 0) = <<>>
            OBVIOUS
      <2>2. SubSeq(s, 1, 0) \in T
            BY <2>1
      <2> QED BY <1>1, <2>2
<1>3. ASSUME NEW k \in 0 .. L - 1, k \in S PROVE k + 1 \in S
      <2>1. k + 1 \in 1 .. L /\ k + 1 \in 0 .. L
            BY <1>1
      <2>2. PICK t : t = SubSeq(s, 1, k)
            OBVIOUS
      <2>3. t \in Seq(E) /\ Len(t) = k /\ \A i \in 1 .. k : t[i] = s[i]
            BY <1>1, <2>1, <2>2
      <2>4. s[k + 1] \in E
            BY <1>1, <2>1
      <2>5. PICK u : u = Append(t, s[k + 1])
            OBVIOUS
      <2>6. u \in T
            BY <1>3, <2>2, <2>3, <2>4, <2>5
      <2>7. PICK v : v = SubSeq(s, 1, k + 1)
            OBVIOUS
      <2>8. v \in Seq(E) /\ Len(v) = k + 1 /\ \A i \in 1 .. k + 1 : v[i] = s[i]
            BY <1>1, <2>1, <2>7
      <2>9. u \in Seq(E) /\ Len(u) = k + 1 /\ \A i \in 1 .. k + 1 : u[i] = IF i <= k THEN t[i] ELSE s[k + 1]
            BY <2>1, <2>3, <2>4, <2>5
      <2>10. \A i \in 1 .. k + 1 : u[i] = v[i]
            <3>1. \A i \in 1 .. k + 1 : (i <= k /\ i \in 1 .. k) \/ (i = k + 1 /\ ~(i <= k))
                  BY <2>1
            <3> QED BY <2>3, <2>8, <2>9, <3>1
      <2>11. u = v
            BY <2>8, <2>9, <2>10
      <2> QED BY <2>1, <2>6, <2>7, <2>11
<1>4. L \in S
      <2> HIDE DEF S
      <2> QED BY <1>1, <1>2, <1>3, UpTo
<1>5. SubSeq(s, 1, L) = s
      BY <1>1
<1> QED BY <1>4, <1>5

\* What is left of the first i elements of s without those of S, for every i.
Sifts(s, S, g, n) ==
    g = [i \in 0 .. n |-> IF i = 0 THEN <<>>
                          ELSE IF s[i] \in S THEN g[i - 1] ELSE Append(g[i - 1], s[i])]

Sifted(s, S) == (CHOOSE g : Sifts(s, S, g, Len(s)))[Len(s)]

\* Two such functions agree as far as their sequences do.
LEMMA SiftsAgree ==
    ASSUME NEW s, NEW u, NEW S, NEW g, NEW h, NEW n \in Nat, NEW m \in Nat,
           Sifts(s, S, g, n), Sifts(u, S, h, m), n <= m, \A i \in 1 .. n : s[i] = u[i]
    PROVE  \A i \in 0 .. n : g[i] = h[i]
<1> SUFFICES ASSUME NEW l \in 0 .. n PROVE g[l] = h[l]
    OBVIOUS
<1> DEFINE T == {i \in 0 .. n : g[i] = h[i]}
<1>1. 0 \in T
      BY DEF Sifts
<1>2. ASSUME NEW k \in 0 .. l - 1, k \in T PROVE k + 1 \in T
      <2>1. k + 1 \in 1 .. n /\ k + 1 \in 0 .. n /\ k + 1 \in 0 .. m /\ k + 1 # 0 /\ (k + 1) - 1 = k
            OBVIOUS
      <2>2. g[k + 1] = IF s[k + 1] \in S THEN g[k] ELSE Append(g[k], s[k + 1])
            BY <2>1 DEF Sifts
      <2>3. h[k + 1] = IF u[k + 1] \in S THEN h[k] ELSE Append(h[k], u[k + 1])
            BY <2>1 DEF Sifts
      <2> QED BY <1>2, <2>1, <2>2, <2>3
<1>3. l \in T
      <2> HIDE DEF T
      <2> QED BY <1>1, <1>2, UpTo
<1> QED BY <1>3

\* There is such a function for every sequence.
LEMMA SiftsExist ==
    ASSUME NEW E, NEW s \in Seq(E), NEW S
    PROVE  \E g : Sifts(s, S, g, Len(s))
<1> DEFINE T == {t \in Seq(E) : \E g : Sifts(t, S, g, Len(t))}
<1>1. <<>> \in T
      <2>1. PICK g : g = [i \in 0 .. 0 |-> <<>>]
            OBVIOUS
      <2>2. Sifts(<<>>, S, g, 0)
            BY <2>1 DEF Sifts
      <2> QED BY <2>2
<1>2. ASSUME NEW t \in Seq(E), t \in T, NEW x \in E PROVE Append(t, x) \in T
      <2>1. PICK k \in Nat : k = Len(t)
            OBVIOUS
      <2>2. PICK g : Sifts(t, S, g, k)
            BY <1>2, <2>1
      <2>3. PICK u : u = Append(t, x)
            OBVIOUS
      <2>4. u \in Seq(E) /\ Len(u) = k + 1 /\ \A i \in 1 .. k + 1 : u[i] = IF i <= k THEN t[i] ELSE x
            BY <2>1, <2>3
      <2> DEFINE F(h, i) == IF u[i] \in S THEN h ELSE Append(h, u[i])
      <2>5. PICK h : h = [i \in 0 .. k + 1 |-> IF i = k + 1 THEN F(g[k], k + 1) ELSE g[i]]
            OBVIOUS
      <2>6. \A i \in 0 .. k : h[i] = g[i] /\ i # k + 1
            BY <2>1, <2>5
      <2>7. h[0] = <<>>
            BY <2>1, <2>2, <2>6 DEF Sifts
      <2>8. ASSUME NEW i \in 1 .. k PROVE h[i] = F(h[i - 1], i)
            <3>1. i \in 0 .. k /\ i - 1 \in 0 .. k /\ i # 0 /\ i <= k /\ i \in 1 .. k + 1
                  BY <2>1
            <3>2. g[i] = F(g[i - 1], i)
                  BY <2>2, <2>4, <3>1 DEF Sifts
            <3> HIDE DEF F
            <3> QED BY <2>6, <3>1, <3>2
      <2>9. h[k + 1] = F(h[k], k + 1)
            BY <2>1, <2>5, <2>6
      <2>10. ASSUME NEW i \in 0 .. k + 1 PROVE h[i] = IF i = 0 THEN <<>> ELSE F(h[i - 1], i)
            <3>1. i = 0 \/ (i \in 1 .. k /\ i # 0) \/ (i = k + 1 /\ i # 0 /\ i - 1 = k)
                  BY <2>1
            <3> HIDE DEF F
            <3> QED BY <2>7, <2>8, <2>9, <3>1
      <2>11. Sifts(u, S, h, k + 1)
            BY <2>5, <2>10 DEF Sifts
      <2> QED BY <2>3, <2>4, <2>11
<1>3. Seq(E) \subseteq T
      <2> HIDE DEF T
      <2> QED BY <1>1, <1>2, ByAppending
<1> QED BY <1>3

\* Nothing is left of nothing.
LEMMA SiftedEmpty == ASSUME NEW S PROVE Sifted(<<>>, S) = <<>>
<1>1. PICK g : g = CHOOSE h : Sifts(<<>>, S, h, 0)
      OBVIOUS
<1>2. <<>> \in Seq({}) /\ Len(<<>>) = 0
      OBVIOUS
<1>3. Sifts(<<>>, S, g, 0)
      BY <1>1, <1>2, SiftsExist
<1>4. g[0] = <<>>
      BY <1>3 DEF Sifts
<1> QED BY <1>1, <1>2, <1>4 DEF Sifted

\* Sifting goes element by element.
LEMMA SiftedStep ==
    ASSUME NEW E, NEW S, NEW t \in Seq(E), NEW x \in E
    PROVE  Sifted(Append(t, x), S) = IF x \in S THEN Sifted(t, S) ELSE Append(Sifted(t, S), x)
<1>1. PICK k \in Nat : k = Len(t)
      OBVIOUS
<1>2. PICK u : u = Append(t, x)
      OBVIOUS
<1>3. u \in Seq(E) /\ Len(u) = k + 1 /\ (\A i \in 1 .. k : t[i] = u[i]) /\ u[k + 1] = x
      BY <1>1, <1>2
<1>4. PICK g : g = CHOOSE f : Sifts(t, S, f, k)
      OBVIOUS
<1>5. Sifts(t, S, g, k) /\ Sifted(t, S) = g[k]
      BY <1>1, <1>4, SiftsExist DEF Sifted
<1>6. PICK h : h = CHOOSE f : Sifts(u, S, f, k + 1)
      OBVIOUS
<1>7. Sifts(u, S, h, k + 1) /\ Sifted(u, S) = h[k + 1]
      BY <1>3, <1>6, SiftsExist DEF Sifted
<1>8. g[k] = h[k]
      <2>1. k + 1 \in Nat /\ k <= k + 1 /\ k \in 0 .. k
            OBVIOUS
      <2> QED BY <1>3, <1>5, <1>7, <2>1, SiftsAgree
<1>9. h[k + 1] = IF x \in S THEN h[k] ELSE Append(h[k], x)
      <2>1. k + 1 \in 0 .. k + 1 /\ k + 1 # 0 /\ (k + 1) - 1 = k
            OBVIOUS
      <2> QED BY <1>3, <1>7, <2>1 DEF Sifts
<1> QED BY <1>2, <1>5, <1>7, <1>8, <1>9

\* What is left is what is not in S, each as often as it was there.
LEMMA SiftedIs ==
    ASSUME NEW E, NEW s \in Seq(E), NEW S
    PROVE  \E d : /\ d = Sifted(s, S) /\ d \in Seq(E)
                  /\ \A i \in 1 .. Len(d) : d[i] \notin S /\ \E j \in 1 .. Len(s) : d[i] = s[j]
                  /\ \A j \in 1 .. Len(s) : s[j] \notin S => \E i \in 1 .. Len(d) : d[i] = s[j]
                  /\ IsInjective(s) => IsInjective(d)
<1> DEFINE Part(d, t) ==
        /\ d \in Seq(E)
        /\ \A i \in 1 .. Len(d) : d[i] \notin S /\ \E j \in 1 .. Len(t) : d[i] = t[j]
        /\ \A j \in 1 .. Len(t) : t[j] \notin S => \E i \in 1 .. Len(d) : d[i] = t[j]
        /\ IsInjective(t) => IsInjective(d)
<1> DEFINE T == {t \in Seq(E) : Part(Sifted(t, S), t)}
<1>0. \A t \in Seq(E), x \in E :
         Sifted(Append(t, x), S) = IF x \in S THEN Sifted(t, S) ELSE Append(Sifted(t, S), x)
      BY SiftedStep
<1>1. <<>> \in T
      <2>1. PICK d : d = Sifted(<<>>, S) /\ d = <<>>
            BY SiftedEmpty
      <2>2. <<>> \in Seq(E) /\ Len(<<>>) = 0 /\ 1 .. 0 = {}
            OBVIOUS
      <2>3. Part(d, <<>>)
            BY <2>1, <2>2
      <2> QED BY <2>1, <2>2, <2>3
<1>2. ASSUME NEW t \in Seq(E), t \in T, NEW x \in E PROVE Append(t, x) \in T
      <2>1. PICK u : u = Append(t, x)
            OBVIOUS
      <2>2. PICK k \in Nat : k = Len(t)
            OBVIOUS
      <2>3. u \in Seq(E) /\ Len(u) = k + 1 /\ (\A i \in 1 .. k : u[i] = t[i] /\ i \in 1 .. k + 1) /\ u[k + 1] = x
            BY <2>1, <2>2
      <2>4. \A i \in 1 .. k + 1 : i \in 1 .. k \/ i = k + 1
            BY <2>2
      <2>5. PICK d : d = Sifted(t, S) /\ Part(d, t)
            BY <1>2
      <2>6. PICK e : e = Sifted(u, S) /\ e = IF x \in S THEN d ELSE Append(d, x)
            <3>1. Sifted(Append(t, x), S) = IF x \in S THEN Sifted(t, S) ELSE Append(Sifted(t, S), x)
                  BY <1>0, Zenon
            <3> HIDE DEF Part
            <3> QED BY <2>1, <2>5, <3>1, Zenon
      <2>7. IsInjective(u) => IsInjective(t) /\ \A i \in 1 .. k : t[i] # x
            <3>1. DOMAIN u = 1 .. k + 1 /\ DOMAIN t = 1 .. k
                  BY <2>2, <2>3
            <3>2. SUFFICES ASSUME \A i, j \in 1 .. k + 1 : u[i] = u[j] => i = j
                           PROVE  IsInjective(t) /\ \A i \in 1 .. k : t[i] # x
                  BY <3>1 DEF IsInjective
            <3>3. \A i, j \in 1 .. k : t[i] = t[j] => i = j
                  BY <2>3, <3>2
            <3>4. \A i \in 1 .. k : i # k + 1 /\ k + 1 \in 1 .. k + 1
                  BY <2>2
            <3>5. \A i \in 1 .. k : t[i] # x
                  BY <2>3, <3>2, <3>4
            <3> QED BY <3>1, <3>3, <3>5 DEF IsInjective
      <2>8. CASE x \in S
            <3>1. e = d
                  BY <2>6, <2>8
            <3>2. ASSUME NEW i \in 1 .. Len(d) PROVE d[i] \notin S /\ \E j \in 1 .. k + 1 : d[i] = u[j]
                  <4>1. d[i] \notin S /\ \E j \in 1 .. Len(t) : d[i] = t[j]
                        BY <2>5, Zenon
                  <4>2. PICK j \in 1 .. k : d[i] = t[j]
                        BY <2>2, <4>1, Zenon
                  <4>3. j \in 1 .. k + 1 /\ u[j] = t[j]
                        BY <2>3, Zenon
                  <4> QED BY <4>1, <4>2, <4>3, Zenon
            <3>3. \A j \in 1 .. k + 1 : u[j] \notin S => \E i \in 1 .. Len(d) : d[i] = u[j]
                  <4>1. \A j \in 1 .. k : u[j] \notin S => \E i \in 1 .. Len(d) : d[i] = u[j]
                        BY <2>2, <2>3, <2>5
                  <4>2. u[k + 1] \in S
                        BY <2>3, <2>8
                  <4> QED BY <2>4, <4>1, <4>2, Zenon
            <3>4. Part(e, u)
                  BY <2>3, <2>5, <2>7, <3>1, <3>2, <3>3
            <3> HIDE DEF Part
            <3> QED BY <2>1, <2>3, <2>6, <3>4, Zenon
      <2>9. CASE x \notin S
            <3>1. e = Append(d, x)
                  BY <2>6, <2>9
            <3>2. PICK m \in Nat : m = Len(d)
                  BY <2>5
            <3>3. /\ e \in Seq(E) /\ Len(e) = m + 1 /\ e[m + 1] = x /\ m + 1 \in 1 .. m + 1
                  /\ \A i \in 1 .. m : e[i] = d[i] /\ i \in 1 .. m + 1
                  BY <2>5, <3>1, <3>2
            <3>4. \A i \in 1 .. m + 1 : i \in 1 .. m \/ i = m + 1
                  BY <3>2
            <3>5. \A i \in 1 .. m + 1 : e[i] \notin S /\ \E j \in 1 .. k + 1 : e[i] = u[j]
                  <4>1. k + 1 \in 1 .. k + 1
                        BY <2>2
                  <4>2. ASSUME NEW i \in 1 .. m PROVE e[i] \notin S /\ \E j \in 1 .. k + 1 : e[i] = u[j]
                        BY <2>2, <2>3, <2>5, <3>2, <3>3
                  <4>3. e[m + 1] \notin S /\ \E j \in 1 .. k + 1 : e[m + 1] = u[j]
                        BY <2>3, <2>9, <3>3, <4>1
                  <4> QED BY <3>4, <4>2, <4>3, Zenon
            <3>6. \A j \in 1 .. k + 1 : u[j] \notin S => \E i \in 1 .. m + 1 : e[i] = u[j]
                  <4>1. ASSUME NEW j \in 1 .. k, u[j] \notin S PROVE \E i \in 1 .. m + 1 : e[i] = u[j]
                        <5>1. PICK i \in 1 .. m : d[i] = t[j]
                              BY <2>2, <2>3, <2>5, <3>2, <4>1
                        <5> QED BY <2>3, <3>3, <5>1
                  <4>2. e[m + 1] = u[k + 1]
                        BY <2>3, <3>3
                  <4> QED BY <2>4, <3>3, <4>1, <4>2, Zenon
            <3>7. IsInjective(u) => IsInjective(e)
                  <4>1. SUFFICES ASSUME IsInjective(u) PROVE IsInjective(e)
                        OBVIOUS
                  <4>2. DOMAIN d = 1 .. m /\ DOMAIN e = 1 .. m + 1
                        BY <2>5, <3>2, <3>3
                  <4>3. \A i, j \in 1 .. m : d[i] = d[j] => i = j
                        BY <2>5, <2>7, <4>1, <4>2 DEF IsInjective
                  <4>4. \A i \in 1 .. m : d[i] # x
                        BY <2>2, <2>5, <2>7, <3>2, <4>1
                  <4>5. PICK z : z = m + 1
                        OBVIOUS
                  <4>6. \A i, j \in 1 .. m + 1 : e[i] = e[j] => i = j
                        BY <3>3, <3>4, <4>3, <4>4, <4>5, Zenon
                  <4> QED BY <4>2, <4>6 DEF IsInjective
            <3>8. Part(e, u)
                  BY <2>3, <3>2, <3>3, <3>5, <3>6, <3>7
            <3> HIDE DEF Part
            <3> QED BY <2>1, <2>3, <2>6, <3>8, Zenon
      <2> QED BY <2>8, <2>9
<1>3. Seq(E) \subseteq T
      <2> HIDE DEF T
      <2> QED BY <1>1, <1>2, ByAppending
<1>4. PICK d : d = Sifted(s, S) /\ Part(d, s)
      BY <1>3
<1> QED BY <1>4

\* Lists can be joined in any order.
Joined(E) == \A a, b, c \in Seq(E) : (a \o b) \o c = a \o (b \o c)

LEMMA JoinedIs == ASSUME NEW E PROVE Joined(E)
<1> SUFFICES ASSUME NEW a \in Seq(E), NEW b \in Seq(E), NEW c \in Seq(E)
             PROVE  (a \o b) \o c = a \o (b \o c)
    BY DEF Joined
<1> QED BY ConcatAssociative, SMTT(60)

\* The end of a list.
LEMMA EndIs ==
    ASSUME NEW E, NEW s \in Seq(E), NEW n \in Nat, n = Len(s), NEW m \in Nat \ {0}, m <= n + 1
    PROVE  \E b \in Seq(E) :
              /\ b = SubSeq(s, m, n) /\ Len(b) = n + 1 - m
              /\ \A i \in 1 .. n + 1 - m : b[i] = s[m - 1 + i]
<1>1. \A i \in m .. n : s[i] \in E
      OBVIOUS
<1>2. PICK b : b = SubSeq(s, m, n)
      OBVIOUS
<1>3. /\ b \in Seq(E) /\ Len(b) = IF m <= n THEN n - m + 1 ELSE 0
      /\ \A i \in 1 .. n - m + 1 : b[i] = s[m + i - 1]
      BY <1>1, <1>2, SubSeqProperties, SMTT(30)
<1>4. Len(b) = n + 1 - m
      BY <1>3
<1>5. ASSUME NEW i \in 1 .. n + 1 - m PROVE b[i] = s[m - 1 + i]
      <2>1. i \in 1 .. n - m + 1 /\ m + i - 1 = m - 1 + i
            OBVIOUS
      <2>2. b[i] = s[m + i - 1]
            BY <1>3, <2>1
      <2> QED BY <2>1, <2>2
<1> QED BY <1>2, <1>3, <1>4, <1>5

\* To append to one list after another is to append to the second.
LEMMA AppendsOver ==
    ASSUME NEW E, NEW a \in Seq(E), NEW t \in Seq(E), NEW x \in E
    PROVE  a \o Append(t, x) = Append(a \o t, x)
<1>1. <<x>> \in Seq(E)
      OBVIOUS
<1>2. a \o t \in Seq(E)
      BY ConcatProperties
<1>3. Append(t, x) = t \o <<x>> /\ Append(a \o t, x) = (a \o t) \o <<x>>
      BY <1>2, AppendIsConcat
<1>4. (a \o t) \o <<x>> = a \o (t \o <<x>>)
      <2>1. Joined(E)
            BY JoinedIs
      <2> QED BY <1>1, <2>1, Zenon DEF Joined
<1> QED BY <1>3, <1>4, Zenon

\* What is left of one list after another is what is left of each.
LEMMA SiftedOver ==
    ASSUME NEW E, NEW S, NEW a \in Seq(E), NEW b \in Seq(E)
    PROVE  Sifted(a \o b, S) = Sifted(a, S) \o Sifted(b, S)
<1> DEFINE T == {t \in Seq(E) : Sifted(a \o t, S) = Sifted(a, S) \o Sifted(t, S)}
<1>0. \A t \in Seq(E) : Sifted(t, S) \in Seq(E)
      BY SiftedIs
<1>1. <<>> \in T
      <2>1. a \o <<>> = a /\ Sifted(a, S) \o <<>> = Sifted(a, S)
            BY <1>0, ConcatEmptySeq
      <2>2. Sifted(<<>>, S) = <<>>
            BY SiftedEmpty
      <2>3. <<>> \in Seq(E)
            OBVIOUS
      <2> QED BY <2>1, <2>2, <2>3, Zenon
<1>2. ASSUME NEW t \in Seq(E), t \in T, NEW x \in E PROVE Append(t, x) \in T
      <2>1. Append(t, x) \in Seq(E) /\ <<x>> \in Seq(E)
            OBVIOUS
      <2>2. a \o t \in Seq(E)
            BY ConcatProperties
      <2>3. a \o Append(t, x) = Append(a \o t, x)
            BY AppendsOver
      <2>4. Sifted(Append(a \o t, x), S) = IF x \in S THEN Sifted(a \o t, S) ELSE Append(Sifted(a \o t, S), x)
            <3>1. PICK u \in Seq(E) : u = a \o t
                  BY <2>2
            <3>2. Sifted(Append(u, x), S) = IF x \in S THEN Sifted(u, S) ELSE Append(Sifted(u, S), x)
                  BY SiftedStep
            <3> QED BY <3>1, <3>2, Zenon
      <2>5. Sifted(Append(t, x), S) = IF x \in S THEN Sifted(t, S) ELSE Append(Sifted(t, S), x)
            BY SiftedStep
      <2>6. Sifted(a \o t, S) = Sifted(a, S) \o Sifted(t, S)
            BY <1>2
      <2>7. CASE x \in S
            BY <2>1, <2>3, <2>4, <2>5, <2>6, <2>7, Zenon
      <2>8. CASE x \notin S
            <3>1. PICK p \in Seq(E) : p = Sifted(a, S)
                  BY <1>0
            <3>2. PICK q \in Seq(E) : q = Sifted(t, S)
                  BY <1>0
            <3>3. Append(p \o q, x) = p \o Append(q, x)
                  <4>1. \A d, e \in Seq(E) : d \o Append(e, x) = Append(d \o e, x)
                        BY AppendsOver
                  <4> QED BY <4>1, Zenon
            <3> QED BY <2>1, <2>3, <2>4, <2>5, <2>6, <2>8, <3>1, <3>2, <3>3, Zenon
      <2> QED BY <2>7, <2>8, Zenon
<1>3. Seq(E) \subseteq T
      <2> HIDE DEF T
      <2> QED BY <1>1, <1>2, ByAppending
<1> QED BY <1>3

\* All is left of a list that has nothing of S.
LEMMA SiftedAll ==
    ASSUME NEW E, NEW S, S \cap E = {}, NEW s \in Seq(E)
    PROVE  Sifted(s, S) = s
<1> DEFINE T == {t \in Seq(E) : Sifted(t, S) = t}
<1>1. <<>> \in T
      BY SiftedEmpty
<1>2. ASSUME NEW t \in Seq(E), t \in T, NEW x \in E PROVE Append(t, x) \in T
      <2>1. Append(t, x) \in Seq(E) /\ x \notin S
            OBVIOUS
      <2>2. Sifted(Append(t, x), S) = IF x \in S THEN Sifted(t, S) ELSE Append(Sifted(t, S), x)
            BY SiftedStep
      <2>3. Sifted(t, S) = t
            BY <1>2
      <2> QED BY <2>1, <2>2, <2>3, Zenon
<1>3. Seq(E) \subseteq T
      <2> HIDE DEF T
      <2> QED BY <1>1, <1>2, ByAppending
<1> QED BY <1>3

\* Nothing is left of a list of S.
LEMMA SiftedNone ==
    ASSUME NEW E, NEW S, E \subseteq S, NEW s \in Seq(E)
    PROVE  Sifted(s, S) = <<>>
<1> DEFINE T == {t \in Seq(E) : Sifted(t, S) = <<>>}
<1>1. <<>> \in T
      BY SiftedEmpty
<1>2. ASSUME NEW t \in Seq(E), t \in T, NEW x \in E PROVE Append(t, x) \in T
      <2>1. Append(t, x) \in Seq(E) /\ x \in S
            OBVIOUS
      <2>2. Sifted(Append(t, x), S) = IF x \in S THEN Sifted(t, S) ELSE Append(Sifted(t, S), x)
            BY SiftedStep
      <2>3. Sifted(t, S) = <<>>
            BY <1>2
      <2> QED BY <2>1, <2>2, <2>3, Zenon
<1>3. Seq(E) \subseteq T
      <2> HIDE DEF T
      <2> QED BY <1>1, <1>2, ByAppending
<1> QED BY <1>3

\* To sift by less first makes no difference.
LEMMA SiftedTwice ==
    ASSUME NEW E, NEW S, NEW R, R \subseteq S, NEW s \in Seq(E)
    PROVE  Sifted(Sifted(s, R), S) = Sifted(s, S)
<1> DEFINE T == {t \in Seq(E) : Sifted(Sifted(t, R), S) = Sifted(t, S)}
<1>0. \A t \in Seq(E) : Sifted(t, R) \in Seq(E)
      BY SiftedIs
<1>1. <<>> \in T
      <2>1. <<>> \in Seq(E) /\ Sifted(<<>>, R) = <<>>
            BY SiftedEmpty
      <2> QED BY <2>1
<1>2. ASSUME NEW t \in Seq(E), t \in T, NEW x \in E PROVE Append(t, x) \in T
      <2>1. Append(t, x) \in Seq(E)
            OBVIOUS
      <2>2. Sifted(Append(t, x), R) = IF x \in R THEN Sifted(t, R) ELSE Append(Sifted(t, R), x)
            BY SiftedStep
      <2>3. Sifted(Append(t, x), S) = IF x \in S THEN Sifted(t, S) ELSE Append(Sifted(t, S), x)
            BY SiftedStep
      <2>4. PICK u \in Seq(E) : u = Sifted(t, R)
            BY <1>0
      <2>5. Sifted(Append(u, x), S) = IF x \in S THEN Sifted(u, S) ELSE Append(Sifted(u, S), x)
            BY SiftedStep
      <2>6. Sifted(u, S) = Sifted(t, S)
            BY <1>2, <2>4
      <2>7. CASE x \in R
            <3>1. x \in S
                  BY <2>7
            <3> QED BY <2>1, <2>2, <2>3, <2>4, <2>6, <2>7, <3>1, Zenon
      <2>8. CASE x \notin R
            <3>1. Sifted(Append(t, x), R) = Append(u, x)
                  BY <2>2, <2>4, <2>8
            <3>2. Sifted(Append(u, x), S) = Sifted(Append(t, x), S)
                  <4>1. CASE x \in S
                        BY <2>3, <2>5, <2>6, <4>1, Zenon
                  <4>2. CASE x \notin S
                        BY <2>3, <2>5, <2>6, <4>2, Zenon
                  <4> QED BY <4>1, <4>2
            <3> QED BY <2>1, <3>1, <3>2, Zenon
      <2> QED BY <2>7, <2>8
<1>3. Seq(E) \subseteq T
      <2> HIDE DEF T
      <2> QED BY <1>1, <1>2, ByAppending
<1> QED BY <1>3

\* What is left is a list of the rest, with the same of the rest in it.
LEMMA SiftedRest ==
    ASSUME NEW E, NEW S, NEW s \in Seq(E)
    PROVE  /\ Sifted(s, S) \in Seq(E \ S)
           /\ ToSet(Sifted(s, S)) = ToSet(s) \ S
<1>1. PICK d : /\ d = Sifted(s, S) /\ d \in Seq(E)
               /\ \A i \in 1 .. Len(d) : d[i] \notin S /\ \E j \in 1 .. Len(s) : d[i] = s[j]
               /\ \A j \in 1 .. Len(s) : s[j] \notin S => \E i \in 1 .. Len(d) : d[i] = s[j]
      BY SiftedIs
<1>2. d \in Seq(E \ S)
      <2>1. \A i \in 1 .. Len(d) : d[i] \in E \ S
            BY <1>1
      <2>2. PICK n \in Nat : n = Len(d)
            BY <1>1
      <2>3. d \in [1 .. n -> E \ S]
            BY <1>1, <2>1, <2>2
      <2> QED BY <2>3
<1>3. ToSet(d) = {d[i] : i \in 1 .. Len(d)} /\ ToSet(s) = {s[i] : i \in 1 .. Len(s)}
      BY <1>1 DEF ToSet
<1>4. ToSet(d) \subseteq ToSet(s) \ S
      BY <1>1, <1>3
<1>5. ToSet(s) \ S \subseteq ToSet(d)
      BY <1>1, <1>3
<1> QED BY <1>1, <1>2, <1>4, <1>5

-----------------------------------------------------------------------------
(* Groups: what a load has stored so far is under the name of the member that   *)
(* it came from, and what it has tried to link is linked or told.               *)

Phases == {"declared", "resolved", "parsed", "noted", "superseded", "linked", "coded", "arced",
           "done", "failed"}

\* The members are looked for once, and found again: a load never finds others.
Resolved ==
    /\ phase \in Phases
    /\ took \in Seq(Repositories) /\ IsInjective(took)
    /\ phase = "declared" => store = <<>> /\ old = {}
    /\ phase # "declared" => took = Found
    /\ phase \notin {"declared", "resolved", "failed"} =>
          \A r \in Range(took) : pendingNodes[r] = Declares(r)

\* A note is under its first declarer's name, code that is qualified under its owner's.
Provenance ==
    \A id \in DOMAIN store :
        /\ id[1] = "note" => \E i \in DOMAIN took : /\ id \in Declares(took[i])
                                                    /\ store[id] = NameOf(took[i])
        /\ ownerSlug(id) # "none" => store[id] = NameOf(ownerSlug(id))

\* What an earlier load superseded is declared, and superseded, by the same member still.
Superseded ==
    \A id \in old : \E r \in Range(took) :
        /\ id \in Declares(r) /\ id \in DOMAIN estate[r].by
        /\ {id, estate[r].by[id]} \subseteq DOMAIN store

LinksTried ==
    \A r \in Range(took) : \A e \in estate[r].links :
        /\ e \in edges \/ e \in result.deferred
        /\ e[1][1] = "note" /\ e[2][1] = "note" /\ e[1] \in DOMAIN store /\ e[2] \in DOMAIN store => e \in edges

ArcsTried ==
    \A r \in Range(took) : \A e \in KeptArcs(r) :
        /\ e \in edges \/ e \in result.deferred
        /\ e[1] \in DOMAIN store /\ e[2] \in DOMAIN store => e \in edges

Seams ==
    /\ \E d, e, b : result = [deferred |-> d, errors |-> e, bridges |-> b]
    /\ phase \in {"linked", "coded", "arced", "done"} => LinksTried
    /\ phase \in {"arced", "done"} => ArcsTried

Bridged ==
    phase = "done" =>
        /\ result.bridges \subseteq Bridges
        /\ \A e \in Bridges : e[1] \in DOMAIN store /\ e[2] \in DOMAIN store => e \in edges

GroupInv == Resolved /\ Provenance /\ Superseded /\ Seams /\ Bridged

\* What is found is members, each once.
LEMMA FoundIs == Found \in Seq(Repositories) /\ IsInjective(Found)
<1>1. Members \in Seq(Repositories) /\ IsInjective(Members)
      BY GroupAssumption DEF Repositories
<1>2. PICK d : /\ d = Sifted(Members, Missing) /\ d \in Seq(Repositories) /\ IsInjective(d)
      <2>1. \E d : /\ d = Sifted(Members, Missing) /\ d \in Seq(Repositories)
                   /\ IsInjective(Members) => IsInjective(d)
            BY <1>1, SiftedIs
      <2> QED BY <1>1, <2>1
<1>3. Found = Sifted(Members, Missing)
      BY DEF Found, Sifted, Sifts
<1> QED BY <1>2, <1>3

\* Before anything is loaded.
LEMMA GroupStarts == GroupInit => GroupInv
<1> SUFFICES ASSUME GroupInit PROVE GroupInv
    OBVIOUS
<1>1. took \in Seq(Repositories) /\ IsInjective(took) /\ Range(took) = {}
      <2>1. took = <<>> /\ DOMAIN took = {}
            BY DEF GroupInit
      <2> QED BY <2>1 DEF IsInjective, Range
<1>2. phase = "declared" /\ store = <<>> /\ DOMAIN store = {} /\ old = {}
      BY DEF GroupInit
<1>3. Resolved
      BY <1>1, <1>2 DEF Resolved, Phases
<1>4. Provenance /\ Superseded
      BY <1>1, <1>2 DEF Provenance, Superseded
<1>5. Seams /\ Bridged
      BY <1>2 DEF Seams, Bridged, GroupInit, NoResult
<1> QED BY <1>3, <1>4, <1>5 DEF GroupInv

\* Names are of the declaration alone.
LEMMA NamesStay ==
    ASSUME form' = form, NEW r
    PROVE  NameOf(r)' = NameOf(r)
BY DEF NameOf, NameAt

\* What is declared is of the members alone.
LEMMA DeclaresStays ==
    ASSUME estate' = estate, took' = took, NEW r
    PROVE  Declares(r)' = Declares(r)
BY DEF Declares

\* A note has one member that declares it first.
LEMMA DeclaredOnce ==
    ASSUME took \in Seq(Repositories), IsInjective(took), NEW i \in DOMAIN took, NEW id
    PROVE  /\ id \in Declares(took[i]) <=>
                 id \in estate[took[i]].notes /\ \A j \in 1 .. i - 1 : id \notin estate[took[j]].notes
           /\ id \in Declares(took[i]) => \A j \in DOMAIN took : id \in Declares(took[j]) => j = i
<1> DEFINE at(x) == CHOOSE k \in DOMAIN took : took[k] = x
<1>1. \A k \in DOMAIN took : at(took[k]) = k
      BY DEF IsInjective
<1>2. PICK L \in Nat : DOMAIN took = 1 .. L
      BY DEF Repositories
<1>3. ASSUME NEW k \in DOMAIN took
      PROVE  id \in Declares(took[k]) <=>
                 id \in estate[took[k]].notes /\ \A j \in 1 .. k - 1 : id \notin estate[took[j]].notes
      <2>1. id \in Declares(took[k]) <=>
                 /\ id \in estate[took[k]].notes
                 /\ \A x \in Range(took) : at(x) < at(took[k]) => id \notin estate[x].notes
            BY DEF Declares
      <2>2. \A x \in Range(took) : \E j \in DOMAIN took : x = took[j]
            BY DEF Range
      <2>3. \A j \in DOMAIN took : took[j] \in Range(took)
            BY DEF Range
      <2>4. (\A x \in Range(took) : at(x) < at(took[k]) => id \notin estate[x].notes) <=>
            (\A j \in DOMAIN took : j < k => id \notin estate[took[j]].notes)
            <3> HIDE DEF at
            <3> QED BY <1>1, <2>2, <2>3
      <2>5. \A j : j \in DOMAIN took /\ j < k <=> j \in 1 .. k - 1
            BY <1>2
      <2> QED BY <2>1, <2>4, <2>5
<1>4. ASSUME id \in Declares(took[i]), NEW j \in DOMAIN took, id \in Declares(took[j]) PROVE j = i
      <2>1. j < i => j \in 1 .. i - 1
            BY <1>2
      <2>2. i < j => i \in 1 .. j - 1
            BY <1>2
      <2>3. ~(j < i) /\ ~(i < j)
            BY <1>3, <1>4, <2>1, <2>2
      <2> QED BY <1>2, <2>3
<1> QED BY <1>3, <1>4

\* What stores nodes leaves what was stored, or puts it under the name of the member it
\* came from, the last if there are several.
LEMMA StoresIs ==
    ASSUME took \in Seq(Repositories), NEW nodesOf, NEW types, Stores(nodesOf, types)
    PROVE  /\ DOMAIN store \subseteq DOMAIN store'
           /\ \A id \in DOMAIN store' :
                 \/ id \in DOMAIN store /\ store'[id] = store[id]
                 \/ /\ id[1] \in types
                    /\ \E i \in DOMAIN took :
                          /\ id \in nodesOf[took[i]] /\ store'[id] = NameOf(took[i])
           /\ \E bad : result' = [result EXCEPT !.errors = @ \cup bad]
<1> DEFINE all == UNION {nodesOf[r] : r \in Range(took)}
           fit == {id \in all : id[1] \in types}
           places(id) == {i \in DOMAIN took : id \in nodesOf[took[i]]}
           lastOf(id) == took[Max(places(id))]
<1>1. PICK bad \in SUBSET fit :
          /\ store' = [id \in DOMAIN store \cup (fit \ bad) |->
                          IF id \in fit \ bad THEN NameOf(lastOf(id)) ELSE store[id]]
          /\ result' = [result EXCEPT !.errors = @ \cup bad]
      BY Zenon DEF Stores
<1>2. ASSUME NEW id \in fit PROVE Max(places(id)) \in places(id)
      <2>1. PICK i \in DOMAIN took : id \in nodesOf[took[i]]
            BY DEF Range
      <2>2. PICK L \in Nat : DOMAIN took = 1 .. L
            BY DEF Repositories
      <2>3. PICK P : P = places(id)
            OBVIOUS
      <2>4. P \subseteq 1 .. L /\ i \in P
            BY <2>1, <2>2, <2>3
      <2>5. \E m \in P : \A k \in P : m >= k
            BY <2>4, Greatest
      <2>6. Max(P) \in P
            BY <2>5 DEF Max
      <2> QED BY <2>3, <2>6
<1> HIDE DEF all, fit, places
<1>3. ASSUME NEW id \in DOMAIN store'
      PROVE  \/ id \in DOMAIN store /\ store'[id] = store[id]
             \/ /\ id[1] \in types
                /\ \E i \in DOMAIN took :
                      /\ id \in nodesOf[took[i]] /\ store'[id] = NameOf(took[i])
      <2>1. CASE id \in fit \ bad
            <3>1. store'[id] = NameOf(lastOf(id))
                  BY <1>1, <2>1
            <3>2. Max(places(id)) \in DOMAIN took /\ id \in nodesOf[took[Max(places(id))]]
                  BY <1>2, <2>1 DEF places
            <3>3. id[1] \in types
                  BY <2>1 DEF fit
            <3> QED BY <3>1, <3>2, <3>3
      <2>2. CASE id \notin fit \ bad
            BY <1>1, <2>2
      <2> QED BY <2>1, <2>2
<1> QED BY <1>1, <1>3

\* A load finds the members that an earlier one found.
LEMMA ResolvePreserves == GroupInv /\ ResolveMembers => GroupInv'
<1> SUFFICES ASSUME GroupInv, ResolveMembers PROVE GroupInv'
    OBVIOUS
<1>1. Found' = Found
      BY DEF ResolveMembers, Found, Missing, Located
<1>2. took' = Found /\ phase' \in {"resolved", "failed"} /\ phase \in {"declared", "done"}
      BY DEF ResolveMembers
<1>3. UNCHANGED <<estate, machine, form, shipped, pendingNodes, store, old, edges>> /\ result' = NoResult
      BY DEF ResolveMembers
<1>4. Resolved'
      BY <1>1, <1>2, FoundIs DEF GroupInv, Resolved, Phases
<1>5. phase = "done" => took' = took
      BY <1>2 DEF GroupInv, Resolved
<1>6. phase = "declared" => DOMAIN store' = {} /\ old' = {}
      BY <1>3 DEF GroupInv, Resolved
<1>7. Provenance'
      <2>1. CASE phase = "declared"
            BY <1>6, <2>1 DEF Provenance
      <2>2. CASE phase = "done"
            <3>1. \A r : NameOf(r)' = NameOf(r)
                  BY <1>3, NamesStay
            <3>2. \A r : Declares(r)' = Declares(r)
                  BY <1>3, <1>5, <2>2, DeclaresStays
            <3> QED BY <1>3, <1>5, <2>2, <3>1, <3>2 DEF GroupInv, Provenance
      <2> QED BY <1>2, <2>1, <2>2
<1>8. Superseded'
      <2>1. CASE phase = "declared"
            BY <1>6, <2>1 DEF Superseded
      <2>2. CASE phase = "done"
            <3>1. \A r : Declares(r)' = Declares(r)
                  BY <1>3, <1>5, <2>2, DeclaresStays
            <3> QED BY <1>3, <1>5, <2>2, <3>1 DEF GroupInv, Superseded
      <2> QED BY <1>2, <2>1, <2>2
<1>9. Seams' /\ Bridged'
      BY <1>2, <1>3 DEF Seams, Bridged, NoResult
<1> QED BY <1>4, <1>7, <1>8, <1>9 DEF GroupInv

\* An export comes before any load.
LEMMA ExportGraphPreserves ==
    ASSUME GroupInv, NEW r \in Repositories, exportCodeGraph(r)
    PROVE  GroupInv'
<1>1. phase = "declared" /\ phase' = phase
      BY DEF exportCodeGraph
<1>2. UNCHANGED <<estate, machine, form, took, store, old, edges, result>>
      BY DEF exportCodeGraph
<1>3. DOMAIN store = {} /\ old = {}
      BY <1>1 DEF GroupInv, Resolved
<1>4. Resolved'
      BY <1>1, <1>2 DEF GroupInv, Resolved
<1>5. Provenance' /\ Superseded'
      BY <1>2, <1>3 DEF Provenance, Superseded
<1>6. Seams' /\ Bridged'
      BY <1>1, <1>2 DEF GroupInv, Seams, Bridged
<1> QED BY <1>4, <1>5, <1>6 DEF GroupInv

\* The guard decides who has a note.
LEMMA ParsePreserves == GroupInv /\ ParseMembers => GroupInv'
<1> SUFFICES ASSUME GroupInv, ParseMembers PROVE GroupInv'
    OBVIOUS
<1>1. phase = "resolved" /\ phase' = "parsed"
      BY DEF ParseMembers
<1>2. UNCHANGED <<estate, machine, form, shipped, took, store, old, edges, result>>
      BY DEF ParseMembers
<1>3. \A r : NameOf(r)' = NameOf(r) /\ Declares(r)' = Declares(r)
      BY <1>2, NamesStay, DeclaresStays
<1>4. \A r \in Range(took) : pendingNodes'[r] = Declares(r)
      <2>1. \A r \in Range(took) : r \in Repositories
            BY DEF GroupInv, Resolved, Range
      <2> QED BY <2>1 DEF ParseMembers
<1>5. Found' = Found
      BY <1>2 DEF Found, Missing, Located
<1>6. Resolved'
      <2>1. phase' \in Phases /\ phase' # "declared"
            BY <1>1 DEF Phases
      <2>2. took = Found
            BY <1>1 DEF GroupInv, Resolved
      <2>3. \A r \in Range(took') : pendingNodes'[r] = Declares(r)'
            BY <1>2, <1>3, <1>4
      <2>4. took' \in Seq(Repositories) /\ IsInjective(took')
            BY <1>2 DEF GroupInv, Resolved
      <2> QED BY <1>2, <1>5, <2>1, <2>2, <2>3, <2>4 DEF Resolved
<1>7. Provenance' /\ Superseded'
      BY <1>2, <1>3 DEF GroupInv, Provenance, Superseded
<1>8. Seams' /\ Bridged'
      BY <1>1, <1>2 DEF GroupInv, Seams, Bridged
<1> QED BY <1>6, <1>7, <1>8 DEF GroupInv

\* The steps after the guard leave what was found and what is declared.
LEMMA StillResolved ==
    ASSUME Resolved, phase \notin {"declared", "resolved", "failed"}, phase' \in Phases \ {"declared"},
           UNCHANGED <<estate, machine, form, took, pendingNodes>>
    PROVE  Resolved' /\ \A r : NameOf(r)' = NameOf(r) /\ Declares(r)' = Declares(r)
<1>1. \A r : NameOf(r)' = NameOf(r) /\ Declares(r)' = Declares(r)
      BY NamesStay, DeclaresStays
<1>2. Found' = Found
      BY DEF Found, Missing, Located
<1>3. took' = Found' /\ \A r \in Range(took') : pendingNodes'[r] = Declares(r)'
      BY <1>1, <1>2 DEF Resolved
<1>4. took' \in Seq(Repositories) /\ IsInjective(took')
      BY DEF Resolved
<1>5. Resolved'
      BY <1>3, <1>4 DEF Resolved
<1> QED BY <1>1, <1>5

\* The notes are stored under their first declarers' names.
LEMMA NotesPreserve == GroupInv /\ IngestNotes => GroupInv'
<1> SUFFICES ASSUME GroupInv, IngestNotes PROVE GroupInv'
    OBVIOUS
<1>1. phase = "parsed" /\ phase' = "noted" /\ Stores(pendingNodes, {"note"})
      BY DEF IngestNotes
<1>2. UNCHANGED <<estate, machine, form, shipped, took, pendingNodes, old, edges>>
      BY DEF IngestNotes
<1>3. took \in Seq(Repositories) /\ \A r \in Range(took) : pendingNodes[r] = Declares(r)
      BY <1>1 DEF GroupInv, Resolved
<1>4. /\ DOMAIN store \subseteq DOMAIN store'
      /\ \A id \in DOMAIN store' :
            \/ id \in DOMAIN store /\ store'[id] = store[id]
            \/ id[1] = "note" /\ \E i \in DOMAIN took : id \in pendingNodes[took[i]] /\ store'[id] = NameOf(took[i])
      /\ \E bad : result' = [result EXCEPT !.errors = @ \cup bad]
      BY <1>1, <1>3, StoresIs
<1>5. Resolved' /\ \A r : NameOf(r)' = NameOf(r) /\ Declares(r)' = Declares(r)
      BY <1>1, <1>2, StillResolved DEF GroupInv, Phases
<1>6. ASSUME NEW id \in DOMAIN store'
      PROVE  /\ id[1] = "note" => \E i \in DOMAIN took : id \in Declares(took[i]) /\ store'[id] = NameOf(took[i])
             /\ ownerSlug(id) # "none" => store'[id] = NameOf(ownerSlug(id))
      <2>1. CASE id \in DOMAIN store /\ store'[id] = store[id]
            BY <2>1 DEF GroupInv, Provenance
      <2>2. CASE id[1] = "note" /\ \E i \in DOMAIN took : id \in pendingNodes[took[i]] /\ store'[id] = NameOf(took[i])
            <3>1. ownerSlug(id) = "none"
                  BY <2>2 DEF ownerSlug
            <3>2. \A i \in DOMAIN took : took[i] \in Range(took)
                  BY DEF Range
            <3> QED BY <1>3, <2>2, <3>1, <3>2
      <2> QED BY <1>4, <2>1, <2>2
<1>7. Provenance'
      BY <1>2, <1>5, <1>6 DEF Provenance, ownerSlug
<1>8. Superseded'
      BY <1>2, <1>4, <1>5 DEF GroupInv, Superseded
<1>9. Seams'
      <2>1. PICK d, e, b : result = [deferred |-> d, errors |-> e, bridges |-> b]
            BY DEF GroupInv, Seams
      <2>2. PICK bad : result' = [result EXCEPT !.errors = @ \cup bad]
            BY <1>4
      <2>3. result' = [deferred |-> d, errors |-> e \cup bad, bridges |-> b]
            BY <2>1, <2>2
      <2> QED BY <1>1, <2>3 DEF Seams
<1>10. Bridged'
      BY <1>1 DEF Bridged
<1> QED BY <1>5, <1>7, <1>8, <1>9, <1>10 DEF GroupInv

\* What is superseded is declared by the member that says so, and stored.
LEMMA GroupSupersedesPreserve == GroupInv /\ applySupersedes => GroupInv'
<1> SUFFICES ASSUME GroupInv, applySupersedes PROVE GroupInv'
    OBVIOUS
<1>1. phase = "noted" /\ phase' = "superseded"
      BY DEF applySupersedes
<1>2. UNCHANGED <<estate, machine, form, shipped, took, pendingNodes, store, edges, result>>
      BY DEF applySupersedes
<1>3. Resolved' /\ \A r : NameOf(r)' = NameOf(r) /\ Declares(r)' = Declares(r)
      BY <1>1, <1>2, StillResolved DEF GroupInv, Phases
<1>4. Provenance'
      BY <1>2, <1>3 DEF GroupInv, Provenance, ownerSlug
<1>5. ASSUME NEW id \in old'
      PROVE  \E r \in Range(took) : /\ id \in Declares(r) /\ id \in DOMAIN estate[r].by
                                    /\ {id, estate[r].by[id]} \subseteq DOMAIN store
      <2>1. CASE id \in old
            BY <2>1 DEF GroupInv, Superseded
      <2>2. CASE id \notin old
            <3>1. id \in DOMAIN store
                  BY <2>2, <1>5 DEF applySupersedes
            <3>2. PICK r \in Range(took) : /\ id \in pendingNodes[r] \cap DOMAIN estate[r].by
                                           /\ estate[r].by[id] \in DOMAIN store
                  BY <2>2, <1>5 DEF applySupersedes
            <3>3. pendingNodes[r] = Declares(r)
                  BY <1>1 DEF GroupInv, Resolved
            <3> QED BY <3>1, <3>2, <3>3
      <2> QED BY <2>1, <2>2
<1>6. Superseded'
      BY <1>2, <1>3, <1>5 DEF Superseded
<1>7. Seams' /\ Bridged'
      BY <1>1, <1>2 DEF GroupInv, Seams, Bridged
<1> QED BY <1>3, <1>4, <1>6, <1>7 DEF GroupInv

\* What is applied is linked if both ends are there, and deferred if not.
LEMMA AppliesIs ==
    ASSUME NEW es, Applies(es), Seams
    PROVE  /\ \A e \in es : e \in edges' \/ e \in result'.deferred
           /\ \A e \in es : e[1] \in DOMAIN store /\ e[2] \in DOMAIN store => e \in edges'
           /\ edges \subseteq edges' /\ result.deferred \subseteq result'.deferred
           /\ \E d, e, b : result' = [deferred |-> d, errors |-> e, bridges |-> b]
<1> DEFINE held == {e \in es : e[1] \in DOMAIN store /\ e[2] \in DOMAIN store}
<1>1. PICK d, e, b : result = [deferred |-> d, errors |-> e, bridges |-> b]
      BY DEF Seams
<1>2. edges' = edges \cup held /\ result' = [result EXCEPT !.deferred = @ \cup (es \ held)]
      BY DEF Applies
<1>3. result' = [deferred |-> d \cup (es \ held), errors |-> e, bridges |-> b]
      BY <1>1, <1>2
<1> QED BY <1>1, <1>2, <1>3

\* The links of the memory files are tried.
LEMMA LinksPreserve == GroupInv /\ ApplyLinks => GroupInv'
<1> SUFFICES ASSUME GroupInv, ApplyLinks PROVE GroupInv'
    OBVIOUS
<1>1. phase = "superseded" /\ phase' = "linked" /\ Applies(UNION {estate[r].links : r \in Range(took)})
      BY DEF ApplyLinks
<1>2. UNCHANGED <<estate, machine, form, shipped, took, pendingNodes, store, old>>
      BY DEF ApplyLinks
<1>3. Resolved' /\ \A r : NameOf(r)' = NameOf(r) /\ Declares(r)' = Declares(r)
      BY <1>1, <1>2, StillResolved DEF GroupInv, Phases
<1>4. Provenance' /\ Superseded'
      BY <1>2, <1>3 DEF GroupInv, Provenance, Superseded, ownerSlug
<1>5. PICK es : es = UNION {estate[r].links : r \in Range(took)}
      OBVIOUS
<1>6. /\ \A e \in es : e \in edges' \/ e \in result'.deferred
      /\ \A e \in es : e[1] \in DOMAIN store /\ e[2] \in DOMAIN store => e \in edges'
      /\ \E d, e, b : result' = [deferred |-> d, errors |-> e, bridges |-> b]
      BY <1>1, <1>5, AppliesIs DEF GroupInv
<1>7. \A r \in Range(took) : \A e \in estate[r].links : e \in es
      BY <1>5
<1>8. LinksTried'
      BY <1>2, <1>6, <1>7 DEF LinksTried
<1>9. Seams' /\ Bridged'
      BY <1>1, <1>6, <1>8 DEF Seams, Bridged
<1> QED BY <1>3, <1>4, <1>9 DEF GroupInv

\* The code is stored under its owners' names, and no notes with it.
LEMMA CodePreserves == GroupInv /\ IngestCode => GroupInv'
<1> SUFFICES ASSUME GroupInv, IngestCode PROVE GroupInv'
    OBVIOUS
<1> DEFINE kept == [r \in Repositories |-> Kept(r)]
<1>1. phase = "linked" /\ phase' = "coded" /\ Stores(kept, CODE_TYPES)
      BY DEF IngestCode
<1>2. UNCHANGED <<estate, machine, form, shipped, took, pendingNodes, old, edges>>
      BY DEF IngestCode
<1>3. took \in Seq(Repositories)
      BY <1>1 DEF GroupInv, Resolved
<1>4. /\ DOMAIN store \subseteq DOMAIN store'
      /\ \A id \in DOMAIN store' :
            \/ id \in DOMAIN store /\ store'[id] = store[id]
            \/ id[1] \in CODE_TYPES /\ \E i \in DOMAIN took : id \in kept[took[i]] /\ store'[id] = NameOf(took[i])
      /\ \E bad : result' = [result EXCEPT !.errors = @ \cup bad]
      <2> HIDE DEF kept
      <2> QED BY <1>1, <1>3, StoresIs
<1>5. Resolved' /\ \A r : NameOf(r)' = NameOf(r) /\ Declares(r)' = Declares(r)
      BY <1>1, <1>2, StillResolved DEF GroupInv, Phases
<1>6. ASSUME NEW id \in DOMAIN store'
      PROVE  /\ id[1] = "note" => /\ id \in DOMAIN store
                                  /\ \E i \in DOMAIN took : id \in Declares(took[i]) /\ store'[id] = NameOf(took[i])
             /\ ownerSlug(id) # "none" => store'[id] = NameOf(ownerSlug(id))
      <2>1. CASE id \in DOMAIN store /\ store'[id] = store[id]
            BY <2>1 DEF GroupInv, Provenance
      <2>2. CASE id[1] \in CODE_TYPES /\ \E i \in DOMAIN took : id \in kept[took[i]] /\ store'[id] = NameOf(took[i])
            <3>1. PICK i \in DOMAIN took : id \in kept[took[i]] /\ store'[id] = NameOf(took[i])
                  BY <2>2
            <3>2. took[i] \in Repositories
                  BY <1>3
            <3>3. ownerSlug(id) \in {"none", took[i]}
                  BY <3>1, <3>2 DEF Kept
            <3>4. id[1] # "note"
                  BY <2>2 DEF CODE_TYPES
            <3> QED BY <3>1, <3>3, <3>4
      <2> QED BY <1>4, <2>1, <2>2
<1>7. Provenance'
      BY <1>2, <1>5, <1>6 DEF Provenance, ownerSlug
<1>8. Superseded'
      BY <1>2, <1>4, <1>5 DEF GroupInv, Superseded
<1>9. /\ result'.deferred = result.deferred
      /\ \E d, e, b : result' = [deferred |-> d, errors |-> e, bridges |-> b]
      <2>1. PICK d, e, b : result = [deferred |-> d, errors |-> e, bridges |-> b]
            BY DEF GroupInv, Seams
      <2>2. PICK bad : result' = [result EXCEPT !.errors = @ \cup bad]
            BY <1>4
      <2>3. result' = [deferred |-> d, errors |-> e \cup bad, bridges |-> b]
            BY <2>1, <2>2
      <2> QED BY <2>1, <2>3
<1>10. LinksTried'
      <2>1. LinksTried
            BY <1>1 DEF GroupInv, Seams
      <2>2. \A id \in DOMAIN store' : id[1] = "note" => id \in DOMAIN store
            BY <1>6
      <2> QED BY <1>2, <1>9, <2>1, <2>2 DEF LinksTried
<1>11. Seams' /\ Bridged'
      BY <1>1, <1>9, <1>10 DEF Seams, Bridged
<1> QED BY <1>5, <1>7, <1>8, <1>11 DEF GroupInv

\* The arcs of the code graphs are tried, and the links stay as they are.
LEMMA ArcsPreserve == GroupInv /\ ApplyArcs => GroupInv'
<1> SUFFICES ASSUME GroupInv, ApplyArcs PROVE GroupInv'
    OBVIOUS
<1>1. phase = "coded" /\ phase' = "arced" /\ Applies(UNION {KeptArcs(r) : r \in Range(took)})
      BY DEF ApplyArcs
<1>2. UNCHANGED <<estate, machine, form, shipped, took, pendingNodes, store, old>>
      BY DEF ApplyArcs
<1>3. Resolved' /\ \A r : NameOf(r)' = NameOf(r) /\ Declares(r)' = Declares(r)
      BY <1>1, <1>2, StillResolved DEF GroupInv, Phases
<1>4. Provenance' /\ Superseded'
      BY <1>2, <1>3 DEF GroupInv, Provenance, Superseded, ownerSlug
<1>5. PICK es : es = UNION {KeptArcs(r) : r \in Range(took)}
      OBVIOUS
<1>6. /\ \A e \in es : e \in edges' \/ e \in result'.deferred
      /\ \A e \in es : e[1] \in DOMAIN store /\ e[2] \in DOMAIN store => e \in edges'
      /\ edges \subseteq edges' /\ result.deferred \subseteq result'.deferred
      /\ \E d, e, b : result' = [deferred |-> d, errors |-> e, bridges |-> b]
      BY <1>1, <1>5, AppliesIs DEF GroupInv
<1>7. \A r \in Range(took) : \A e \in KeptArcs(r) : e \in es
      BY <1>5
<1>8. \A r : KeptArcs(r)' = KeptArcs(r)
      BY <1>2 DEF KeptArcs, ownerSlug
<1>9. ArcsTried'
      BY <1>2, <1>6, <1>7, <1>8 DEF ArcsTried
<1>10. LinksTried'
      <2>1. LinksTried
            BY <1>1 DEF GroupInv, Seams
      <2> QED BY <1>2, <1>6, <2>1 DEF LinksTried
<1>11. Seams' /\ Bridged'
      BY <1>1, <1>6, <1>9, <1>10 DEF Seams, Bridged
<1> QED BY <1>3, <1>4, <1>11 DEF GroupInv

\* The bridges between the members are tried last.
LEMMA BridgePreserves == GroupInv /\ Bridge => GroupInv'
<1> SUFFICES ASSUME GroupInv, Bridge PROVE GroupInv'
    OBVIOUS
<1>1. phase = "arced" /\ phase' = "done"
      BY DEF Bridge
<1>2. UNCHANGED <<estate, machine, form, shipped, took, pendingNodes, store, old>>
      BY DEF Bridge
<1>3. Resolved' /\ \A r : NameOf(r)' = NameOf(r) /\ Declares(r)' = Declares(r)
      BY <1>1, <1>2, StillResolved DEF GroupInv, Phases
<1>4. Provenance' /\ Superseded'
      BY <1>2, <1>3 DEF GroupInv, Provenance, Superseded, ownerSlug
<1>5. Bridges' = Bridges
      <2>1. Range(took)' = Range(took) /\ \A r : Kept(r)' = Kept(r)
            BY <1>2 DEF Kept, ownerSlug
      <2>2. \A p : ByPackage(p)' = ByPackage(p)
            BY <1>2 DEF ByPackage
      <2>3. \A rs : LastOf(rs)' = LastOf(rs)
            BY <1>2 DEF LastOf
      <2> QED BY <1>3, <2>1, <2>2, <2>3 DEF Bridges
<1>6. PICK held : held = {e \in Bridges : e[1] \in DOMAIN store /\ e[2] \in DOMAIN store}
      OBVIOUS
<1>7. edges' = edges \cup held
      BY <1>6, Zenon DEF Bridge
<1>8. result' = [result EXCEPT !.deferred = @ \cup (Bridges \ held), !.bridges = held]
      BY <1>6, Zenon DEF Bridge
<1>9. PICK d, e, b : result = [deferred |-> d, errors |-> e, bridges |-> b]
      BY DEF GroupInv, Seams
<1>10. result' = [deferred |-> d \cup (Bridges \ held), errors |-> e, bridges |-> held]
      BY <1>8, <1>9
<1>11. LinksTried /\ ArcsTried
      BY <1>1 DEF GroupInv, Seams
<1>12. result.deferred \subseteq result'.deferred
      BY <1>9, <1>10
<1>13. LinksTried'
      BY <1>2, <1>7, <1>11, <1>12 DEF LinksTried
<1>14. ArcsTried'
      <2>1. \A r : KeptArcs(r)' = KeptArcs(r)
            BY <1>2 DEF KeptArcs, ownerSlug
      <2> QED BY <1>2, <1>7, <1>11, <1>12, <2>1 DEF ArcsTried
<1>15. Seams'
      BY <1>10, <1>13, <1>14 DEF Seams
<1>16. Bridged'
      BY <1>2, <1>5, <1>6, <1>7, <1>10 DEF Bridged
<1> QED BY <1>3, <1>4, <1>15, <1>16 DEF GroupInv

\* A step of a load, or none, keeps the invariant.
LEMMA GroupInductive == GroupInv /\ [LoadGroup]_grouping => GroupInv'
<1> SUFFICES ASSUME GroupInv, [LoadGroup]_grouping PROVE GroupInv'
    OBVIOUS
<1>1. CASE UNCHANGED grouping
      <2>1. UNCHANGED <<estate, machine, form, shipped, phase, took, pendingNodes, store, old, edges, result>>
            BY <1>1 DEF grouping
      <2>2. \A r : NameOf(r)' = NameOf(r) /\ Declares(r)' = Declares(r) /\ KeptArcs(r)' = KeptArcs(r)
            BY <2>1, NamesStay, DeclaresStays DEF KeptArcs, ownerSlug
      <2>3. Resolved'
            BY <2>1, <2>2 DEF GroupInv, Resolved, Found, Missing, Located
      <2>4. Provenance' /\ Superseded'
            BY <2>1, <2>2 DEF GroupInv, Provenance, Superseded, ownerSlug
      <2>5. Seams'
            BY <2>1, <2>2 DEF GroupInv, Seams, LinksTried, ArcsTried
      <2>6. Bridges' = Bridges
            <3>1. Range(took)' = Range(took) /\ \A r : Kept(r)' = Kept(r)
                  BY <2>1 DEF Kept, ownerSlug
            <3>2. \A p : ByPackage(p)' = ByPackage(p)
                  BY <2>1 DEF ByPackage
            <3>3. \A rs : LastOf(rs)' = LastOf(rs)
                  BY <2>1 DEF LastOf
            <3> QED BY <2>2, <3>1, <3>2, <3>3 DEF Bridges
      <2>7. Bridged'
            BY <2>1, <2>6 DEF GroupInv, Bridged
      <2> QED BY <2>3, <2>4, <2>5, <2>7 DEF GroupInv
<1>2. CASE LoadGroup
      BY <1>2, ExportGraphPreserves, ResolvePreserves, ParsePreserves, NotesPreserve, GroupSupersedesPreserve,
         LinksPreserve, CodePreserves, ArcsPreserve, BridgePreserves DEF LoadGroup
<1> QED BY <1>1, <1>2

\* A loaded group is as its members declare it.
LEMMA GroupInvHolds == GroupInv => GroupsHold
<1> SUFFICES ASSUME GroupInv, phase = "done" PROVE GroupsHold
    BY DEF GroupsHold, ProvenanceHolds, SeamsHold, BridgesHold, SupersededRightly, GroupLoaded
<1>1. took \in Seq(Repositories) /\ IsInjective(took)
      BY DEF GroupInv, Resolved
<1>2. \A r \in Range(took) : r \in Repositories /\ pendingNodes[r] = Declares(r)
      BY DEF GroupInv, Resolved, Range
<1>3. ProvenanceHolds
      <2>1. ASSUME NEW id \in DOMAIN store, id[1] = "note"
            PROVE  \E i \in DOMAIN took : /\ id \in estate[took[i]].notes /\ store[id] = NameOf(took[i])
                                          /\ \A j \in 1 .. i - 1 : id \notin estate[took[j]].notes
            <3>1. PICK i \in DOMAIN took : id \in Declares(took[i]) /\ store[id] = NameOf(took[i])
                  BY <2>1 DEF GroupInv, Provenance
            <3> QED BY <1>1, <3>1, DeclaredOnce
      <2> QED BY <2>1 DEF GroupInv, Provenance, ProvenanceHolds
<1>4. SeamsHold
      BY DEF GroupInv, Seams, LinksTried, ArcsTried, SeamsHold
<1>5. SupersededRightly
      BY <1>2 DEF GroupInv, Superseded, SupersededRightly
<1>6. ASSUME NEW r \in Range(took), NEW z \in Range(took), ByPackage(Package[z]) = {z}
      PROVE  LastOf(ByPackage(Package[z])) = z
      <2>1. PICK i \in DOMAIN took : took[i] = z
            BY DEF Range
      <2>2. {j \in DOMAIN took : took[j] \in {z}} = {i}
            BY <1>1, <2>1 DEF IsInjective
      <2>3. PICK L \in Nat : DOMAIN took = 1 .. L
            BY <1>1
      <2>4. Max({i}) = i
            BY <2>3 DEF Max
      <2> QED BY <1>6, <2>1, <2>2, <2>4 DEF LastOf
<1>7. ASSUME NEW r \in Range(took), NEW z \in Range(took), ByPackage(Package[z]) = {z}, r # z, Named(z),
             <<"import", Package[z]>> \in Kept(r),
             {<<"import", Package[z]>>, <<"folder", z>>} \subseteq DOMAIN store
      PROVE  <<<<"import", Package[z]>>, <<"folder", z>>>> \in edges
      <2>1. PICK id : id = <<"import", Package[z]>>
            OBVIOUS
      <2>2. id[1] = "import" /\ id[2] = Package[z]
            BY <2>1
      <2>3. NameOf(r) # NameOf(z)
            BY <1>2, <1>7 DEF Named
      <2>4. <<id, <<"folder", z>>>> \in Bridges
            <3>1. LastOf(ByPackage(id[2])) = z
                  BY <1>6, <1>7, <2>2
            <3>2. ByPackage(id[2]) # {}
                  BY <1>7, <2>2
            <3>3. id \in UNION {Kept(y) : y \in Range(took)}
                  BY <1>7, <2>1
            <3> QED BY <1>7, <2>1, <2>2, <2>3, <3>1, <3>2, <3>3 DEF Bridges
      <2> QED BY <1>7, <2>1, <2>4 DEF GroupInv, Bridged
<1>8. ASSUME NEW z \in Range(took), ByPackage(Package[z]) = {z},
             \A y \in Repositories \ {z} : <<"import", Package[z]>> \notin shipped[y].code,
             NEW e \in result.bridges, e[1] = <<"import", Package[z]>>
      PROVE  FALSE
      <2>1. e \in Bridges
            BY <1>8 DEF GroupInv, Bridged
      <2>2. PICK id : /\ e[1] = id
                      /\ \E r \in Range(took) : id \in Kept(r) /\ NameOf(r) # NameOf(LastOf(ByPackage(id[2])))
            BY <2>1 DEF Bridges
      <2>3. id[2] = Package[z] /\ id = <<"import", Package[z]>>
            BY <1>8, <2>2
      <2>4. PICK r \in Range(took) : id \in Kept(r) /\ NameOf(r) # NameOf(z)
            BY <1>6, <1>8, <2>2, <2>3
      <2>5. id \in shipped[r].code
            BY <2>4 DEF Kept
      <2> QED BY <1>2, <1>8, <2>3, <2>4, <2>5
<1>9. BridgesHold
      BY <1>7, <1>8 DEF BridgesHold
<1> QED BY <1>3, <1>4, <1>5, <1>9 DEF GroupsHold

\* For any members, wherever they are, whatever each declares and ships, however many
\* writes fail and loads there are: what is stored is under the name of who declared or
\* owns it, an edge is linked or told, a bridge leads to the other package's root, and a
\* note is superseded only by its own member's word (loadGroup).
THEOREM GroupsAreLoaded == GroupSpec => []GroupsHold
<1>1. GroupSpec => []GroupInv
      BY GroupStarts, GroupInductive, PTL DEF GroupSpec
<1> QED BY <1>1, GroupInvHolds, PTL

-----------------------------------------------------------------------------
(* The project manager's loop.  The clone's commits are on top of what it last  *)
(* fetched: each has all of its keys, and while that is the newest ledger, each *)
(* has the lines that developers changed after the PM.                          *)

Lines == {"none", "approved", "again", "withdrawn", "superseded", "odd", "link", "hollow", "work"}
Ledgers == [LedgerKeys -> Lines]
Keys(ledger) == {k \in LedgerKeys : ledger[k] # "none"}
Branch == [tip : Nat, text : Nat, ledger : Ledgers]
Cycles == [at : {"pull", "record", "commit", "push", "repull"}, of : Approvals,
           line : {"approved", "again"}, dated : BOOLEAN, tries : Nat]

PmTypeOK ==
    /\ hub \in Branch /\ seen \in Branch
    /\ commits \in Seq(Ledgers) /\ clone \in Ledgers
    /\ cycle = NoCycle \/ cycle \in Cycles
    /\ told \subseteq Approvals /\ recorded \subseteq Approvals /\ newer \subseteq LedgerKeys

\* What was fetched is of the past, and the same ledger if it is called the same.
Fetched ==
    /\ seen.tip <= hub.tip /\ seen.text <= hub.text /\ hub.text <= hub.tip
    /\ seen.tip = hub.tip => seen = hub
    /\ seen.text = hub.text => seen.ledger = hub.ledger
    /\ Keys(seen.ledger) \subseteq Keys(hub.ledger)

OnTop ==
    /\ \A i \in 1 .. Len(commits) : Keys(seen.ledger) \subseteq Keys(commits[i])
    /\ Keys(seen.ledger) \subseteq Keys(clone)
    /\ ~dirty => clone = TopOf(commits, seen)

\* The decision under way is in the clone, and then in its last commit.
Carried ==
    /\ cycle.at = "commit" => cycle.of \in Keys(clone)
    /\ cycle.at \in {"push", "repull"} => ~dirty /\ commits # <<>> /\ cycle.of \in Keys(clone)

\* A decision that nobody retired is approved wherever it is.
Approved(ledger, k) == ledger[k] \in {"none", "approved", "again"}
Unretired ==
    \A k \in Approvals \ retired :
        /\ Approved(hub.ledger, k) /\ Approved(seen.ledger, k) /\ Approved(clone, k)
        /\ \A i \in 1 .. Len(commits) : Approved(commits[i], k)

NewerStays ==
    seen.text = hub.text => \A k \in newer \cap Keys(seen.ledger) :
        /\ clone[k] = seen.ledger[k]
        /\ \A i \in 1 .. Len(commits) : commits[i][k] = seen.ledger[k]

PmInv ==
    /\ PmTypeOK /\ Fetched /\ OnTop /\ Carried /\ Unretired /\ NewerStays
    /\ PushedIsRemote /\ NothingForgotten

\* A union has the keys of both, and ours for each of ours.
LEMMA UniteIs ==
    ASSUME NEW a \in Ledgers, NEW b \in Ledgers
    PROVE  /\ Unite(a, b) \in Ledgers /\ Keys(Unite(a, b)) = Keys(a) \cup Keys(b)
           /\ \A k \in Keys(a) : Unite(a, b)[k] = a[k]
           /\ \A k \in LedgerKeys : Unite(a, b)[k] \in {a[k], b[k]}
           /\ \A k \in LedgerKeys \ Keys(a) : Unite(a, b)[k] = b[k]
BY DEF Unite, Ledgers, Keys

\* The commits replayed up to the n-th.
Replaying(g, n) == g = [i \in 0 .. n |-> IF i = 0 THEN hub.ledger ELSE Unite(g[i - 1], commits[i])]

\* Those partial results are a function.
LEMMA ReplayingExists ==
    ASSUME commits \in Seq(Ledgers)
    PROVE  \E g : Replaying(g, Len(commits))
<1>1. PICK L \in Nat : L = Len(commits)
      OBVIOUS
<1> DEFINE F(h, i) == Unite(h, commits[i])
<1> DEFINE T == {n \in 0 .. L : \E g : Replaying(g, n)}
<1>2. 0 \in T
      <2>1. PICK g : g = [i \in 0 .. 0 |-> hub.ledger]
            OBVIOUS
      <2>2. Replaying(g, 0)
            BY <2>1 DEF Replaying
      <2> QED BY <1>1, <2>2
<1>3. ASSUME NEW k \in 0 .. L - 1, k \in T PROVE k + 1 \in T
      <2>1. PICK g : Replaying(g, k)
            BY <1>3
      <2>2. PICK h : h = [i \in 0 .. k + 1 |-> IF i = k + 1 THEN F(g[k], k + 1) ELSE g[i]]
            OBVIOUS
      <2>3. \A i \in 0 .. k : h[i] = g[i] /\ i # k + 1
            BY <1>1, <2>2
      <2>4. h[0] = hub.ledger
            BY <1>1, <2>1, <2>3 DEF Replaying
      <2>5. ASSUME NEW i \in 1 .. k PROVE h[i] = F(h[i - 1], i)
            <3>1. i \in 0 .. k /\ i - 1 \in 0 .. k /\ i # 0
                  BY <1>1
            <3>2. g[i] = F(g[i - 1], i)
                  BY <2>1, <3>1 DEF Replaying
            <3> QED BY <2>3, <3>1, <3>2
      <2>6. h[k + 1] = F(h[k], k + 1)
            BY <1>1, <2>2, <2>3
      <2>7. ASSUME NEW i \in 0 .. k + 1 PROVE h[i] = IF i = 0 THEN hub.ledger ELSE F(h[i - 1], i)
            <3>1. i = 0 \/ (i \in 1 .. k /\ i # 0) \/ (i = k + 1 /\ i # 0 /\ i - 1 = k)
                  BY <1>1
            <3> HIDE DEF F
            <3> QED BY <2>4, <2>5, <2>6, <3>1
      <2>8. Replaying(h, k + 1)
            BY <2>2, <2>7 DEF Replaying
      <2> QED BY <1>1, <2>8
<1>4. L \in T
      <2> HIDE DEF T
      <2> QED BY <1>1, <1>2, <1>3, UpTo
<1> QED BY <1>1, <1>4

\* Replayed, each commit has its keys and those of the remote, whose lines win.
LEMMA ReplayedIs ==
    ASSUME commits \in Seq(Ledgers), hub \in Branch, hub.text # seen.text
    PROVE  \E R : /\ R = Replayed /\ R \in Seq(Ledgers) /\ Len(R) = Len(commits)
                  /\ \A i \in 1 .. Len(commits) :
                        /\ Keys(hub.ledger) \cup Keys(commits[i]) \subseteq Keys(R[i])
                        /\ \A k \in Keys(hub.ledger) : R[i][k] = hub.ledger[k]
                        /\ \A k \in LedgerKeys :
                              R[i][k] = hub.ledger[k] \/ \E j \in 1 .. Len(commits) : R[i][k] = commits[j][k]
<1>1. PICK L \in Nat : L = Len(commits) /\ DOMAIN commits = 1 .. L
      OBVIOUS
<1>2. PICK over : Replaying(over, L) /\ Replayed = [i \in 1 .. L |-> over[i]]
      <2>1. PICK over : over = CHOOSE g : Replaying(g, L)
            OBVIOUS
      <2>2. Replaying(over, L)
            BY <1>1, <2>1, ReplayingExists
      <2>3. Replayed = [i \in 1 .. L |-> over[i]]
            BY <1>1, <2>1 DEF Replayed, Replaying
      <2> QED BY <2>2, <2>3
<1> DEFINE Part(r, n) ==
        /\ r \in Ledgers /\ Keys(hub.ledger) \subseteq Keys(r)
        /\ n > 0 => Keys(commits[n]) \subseteq Keys(r)
        /\ \A k \in Keys(hub.ledger) : r[k] = hub.ledger[k]
        /\ \A k \in LedgerKeys : r[k] = hub.ledger[k] \/ \E j \in 1 .. L : r[k] = commits[j][k]
<1> DEFINE T == {n \in 0 .. L : Part(over[n], n)}
<1>3. 0 \in T
      <2>1. over[0] = hub.ledger
            BY <1>1, <1>2 DEF Replaying
      <2>2. hub.ledger \in Ledgers
            BY DEF Branch
      <2>3. Part(hub.ledger, 0)
            BY <2>2
      <2> QED BY <1>1, <2>1, <2>3
<1>4. ASSUME NEW k \in 0 .. L - 1, k \in T PROVE k + 1 \in T
      <2>1. k + 1 \in 1 .. L /\ k + 1 \in 0 .. L /\ k + 1 # 0 /\ (k + 1) - 1 = k
            BY <1>1
      <2>2. over[k + 1] = Unite(over[k], commits[k + 1])
            BY <1>2, <2>1 DEF Replaying
      <2>3. PICK r : r = over[k] /\ Part(r, k)
            BY <1>4
      <2>4. PICK c : c = commits[k + 1] /\ c \in Ledgers
            BY <1>1, <2>1
      <2>5. PICK z : z = Unite(r, c)
            OBVIOUS
      <2>6. /\ z \in Ledgers /\ Keys(z) = Keys(r) \cup Keys(c)
            /\ \A l \in Keys(r) : z[l] = r[l]
            /\ \A l \in LedgerKeys : z[l] \in {r[l], c[l]}
            BY <2>3, <2>4, <2>5, UniteIs
      <2>7. \A l \in LedgerKeys : z[l] = hub.ledger[l] \/ \E j \in 1 .. L : z[l] = commits[j][l]
            BY <2>1, <2>3, <2>4, <2>6
      <2>8. \A l \in Keys(hub.ledger) : z[l] = hub.ledger[l]
            BY <2>3, <2>6
      <2>9. Part(z, k + 1)
            BY <2>3, <2>4, <2>6, <2>7, <2>8
      <2> HIDE DEF Part
      <2> QED BY <2>1, <2>2, <2>3, <2>4, <2>5, <2>9
<1>5. \A i \in 1 .. L : Part(over[i], i)
      <2> SUFFICES ASSUME NEW i \in 1 .. L PROVE i \in T
          OBVIOUS
      <2>1. i \in Nat /\ \A k \in 0 .. i - 1 : k \in 0 .. L - 1
            BY <1>1
      <2> HIDE DEF T
      <2> QED BY <1>3, <1>4, <2>1, UpTo
<1>6. PICK R : R = [i \in 1 .. L |-> over[i]]
      OBVIOUS
<1>7. R \in Seq(Ledgers) /\ Len(R) = L /\ \A i \in 1 .. L : R[i] = over[i]
      BY <1>1, <1>5, <1>6
<1>8. ASSUME NEW i \in 1 .. L
      PROVE  /\ Keys(hub.ledger) \cup Keys(commits[i]) \subseteq Keys(R[i])
             /\ \A k \in Keys(hub.ledger) : R[i][k] = hub.ledger[k]
             /\ \A k \in LedgerKeys : R[i][k] = hub.ledger[k] \/ \E j \in 1 .. L : R[i][k] = commits[j][k]
      <2>1. i > 0
            BY <1>1
      <2>2. Part(R[i], i)
            <3> HIDE DEF Part
            <3> QED BY <1>5, <1>7
      <2> QED BY <2>1, <2>2
<1> QED BY <1>1, <1>2, <1>6, <1>7, <1>8, SMTT(30)

\* The top of what is local is the last commit, or the ledger under them.
LEMMA TopIs ==
    ASSUME NEW above \in Seq(Ledgers), NEW under
    PROVE  /\ above = <<>> => TopOf(above, under) = under.ledger
           /\ above # <<>> => /\ Len(above) \in 1 .. Len(above)
                              /\ TopOf(above, under) = above[Len(above)]
BY DEF TopOf, Last

\* A rebase forgets no key of the clone or of the remote, changes no line that nobody
\* else changed to one of somebody else's making, and leaves developers' lines on top.
LEMMA RebaseIs ==
    ASSUME PmInv, Rebase
    PROVE  /\ commits' \in Seq(Ledgers) /\ Len(commits') = Len(commits)
           /\ seen' = hub /\ ~dirty /\ clone' \in Ledgers /\ clone' = TopOf(commits', hub)
           /\ \A i \in 1 .. Len(commits) : Keys(hub.ledger) \subseteq Keys(commits'[i])
           /\ Keys(hub.ledger) \cup Keys(clone) \subseteq Keys(clone')
           /\ \A k \in Approvals \ retired :
                 Approved(clone', k) /\ \A i \in 1 .. Len(commits) : Approved(commits'[i], k)
           /\ \A k \in newer \cap Keys(hub.ledger) :
                 clone'[k] = hub.ledger[k] /\ \A i \in 1 .. Len(commits) : commits'[i][k] = hub.ledger[k]
<1>1. /\ commits \in Seq(Ledgers) /\ hub \in Branch /\ hub.ledger \in Ledgers /\ seen.ledger \in Ledgers
      /\ clone \in Ledgers
      BY DEF PmInv, PmTypeOK, Branch
<1>2. ~dirty /\ commits' = Replayed /\ seen' = hub /\ clone' = TopOf(Replayed, hub)
      BY DEF Rebase
<1>3. clone = TopOf(commits, seen)
      BY <1>2 DEF PmInv, OnTop
<1>4. CASE hub.text = seen.text
      <2>1. Replayed = commits /\ seen.ledger = hub.ledger
            BY <1>4 DEF Replayed, PmInv, Fetched
      <2>2. clone' = clone /\ commits' = commits
            BY <1>2, <1>3, <2>1 DEF TopOf
      <2>3. \A i \in 1 .. Len(commits) : Keys(hub.ledger) \subseteq Keys(commits'[i])
            BY <2>1, <2>2 DEF PmInv, OnTop
      <2>4. Keys(hub.ledger) \cup Keys(clone) \subseteq Keys(clone')
            BY <2>1, <2>2 DEF PmInv, OnTop
      <2>5. \A k \in Approvals \ retired :
                 Approved(clone', k) /\ \A i \in 1 .. Len(commits) : Approved(commits'[i], k)
            BY <2>2 DEF PmInv, Unretired
      <2>6. \A k \in newer \cap Keys(hub.ledger) :
                 clone'[k] = hub.ledger[k] /\ \A i \in 1 .. Len(commits) : commits'[i][k] = hub.ledger[k]
            BY <1>4, <2>1, <2>2 DEF PmInv, NewerStays
      <2> QED BY <1>1, <1>2, <2>1, <2>2, <2>3, <2>4, <2>5, <2>6
<1>5. CASE hub.text # seen.text
      <2>1. PICK R : /\ R = Replayed /\ R \in Seq(Ledgers) /\ Len(R) = Len(commits)
                     /\ \A i \in 1 .. Len(commits) :
                           /\ Keys(hub.ledger) \cup Keys(commits[i]) \subseteq Keys(R[i])
                           /\ \A k \in Keys(hub.ledger) : R[i][k] = hub.ledger[k]
                           /\ \A k \in LedgerKeys :
                                 R[i][k] = hub.ledger[k] \/ \E j \in 1 .. Len(commits) : R[i][k] = commits[j][k]
            BY <1>1, <1>5, ReplayedIs
      <2>2. commits' = R /\ clone' = TopOf(R, hub)
            BY <1>2, <2>1
      <2>3. Keys(seen.ledger) \subseteq Keys(hub.ledger)
            BY DEF PmInv, Fetched
      <2>4. ASSUME NEW i \in 1 .. Len(commits), NEW k \in Approvals \ retired PROVE Approved(R[i], k)
            <3>1. k \in LedgerKeys
                  BY DEF LedgerKeys
            <3>2. Approved(hub.ledger, k) /\ \A j \in 1 .. Len(commits) : Approved(commits[j], k)
                  BY DEF PmInv, Unretired
            <3> QED BY <2>1, <3>1, <3>2 DEF Approved
      <2>5. CASE R = <<>>
            <3>1. commits = <<>>
                  BY <1>1, <2>1, <2>5
            <3>2. clone = seen.ledger /\ clone' = hub.ledger
                  BY <1>1, <1>3, <2>2, <2>5, <3>1, TopIs
            <3>3. Len(commits) = 0 /\ 1 .. 0 = {}
                  BY <3>1
            <3>4. \A k \in Approvals \ retired : Approved(clone', k)
                  BY <3>2 DEF PmInv, Unretired
            <3> QED BY <1>1, <1>2, <2>1, <2>2, <2>3, <3>2, <3>3, <3>4
      <2>6. CASE R # <<>>
            <3>1. PICK n \in 1 .. Len(commits) : n = Len(R) /\ clone' = R[n]
                  BY <2>1, <2>2, <2>6, TopIs
            <3>2. commits # <<>> /\ n = Len(commits)
                  BY <1>1, <2>1, <3>1
            <3>3. clone = commits[n]
                  BY <1>1, <1>3, <3>2, TopIs
            <3>4. R[n] \in Ledgers
                  BY <2>1, <3>1
            <3>5. \A k \in newer \cap Keys(hub.ledger) :
                     clone'[k] = hub.ledger[k] /\ \A i \in 1 .. Len(commits) : R[i][k] = hub.ledger[k]
                  BY <2>1, <3>1
            <3>6. Keys(hub.ledger) \cup Keys(clone) \subseteq Keys(clone')
                  BY <2>1, <3>1, <3>3
            <3> QED BY <1>2, <2>1, <2>2, <2>4, <3>1, <3>4, <3>5, <3>6
      <2> QED BY <2>5, <2>6
<1> QED BY <1>4, <1>5

\* What the loop is after a rebase, whatever else the step does to the cycle.
LEMMA RebaseKeeps ==
    ASSUME PmInv, Rebase, UNCHANGED <<hub, dirty, told, recorded, newer, retired>>,
           cycle' = NoCycle \/ cycle' \in Cycles,
           cycle'.at # "commit",
           cycle'.at \in {"push", "repull"} => cycle.at \in {"push", "repull"} /\ cycle'.of = cycle.of
    PROVE  PmInv'
<1>1. /\ commits' \in Seq(Ledgers) /\ Len(commits') = Len(commits)
      /\ seen' = hub /\ ~dirty /\ clone' \in Ledgers /\ clone' = TopOf(commits', hub)
      /\ \A i \in 1 .. Len(commits) : Keys(hub.ledger) \subseteq Keys(commits'[i])
      /\ Keys(hub.ledger) \cup Keys(clone) \subseteq Keys(clone')
      /\ \A k \in Approvals \ retired :
            Approved(clone', k) /\ \A i \in 1 .. Len(commits) : Approved(commits'[i], k)
      /\ \A k \in newer \cap Keys(hub.ledger) :
            clone'[k] = hub.ledger[k] /\ \A i \in 1 .. Len(commits) : commits'[i][k] = hub.ledger[k]
      BY RebaseIs
<1>2. PmTypeOK'
      BY <1>1 DEF PmInv, PmTypeOK
<1>3. Fetched'
      <2>1. hub.tip \in Nat /\ hub.text \in Nat
            BY DEF PmInv, PmTypeOK, Branch
      <2> QED BY <1>1, <2>1 DEF PmInv, Fetched
<1>4. OnTop'
      BY <1>1 DEF OnTop
<1>5. Carried'
      <2>1. commits # <<>> => commits' # <<>>
            BY <1>1 DEF PmInv, PmTypeOK
      <2> QED BY <1>1, <2>1 DEF PmInv, Carried
<1>6. Unretired'
      <2>1. \A k \in Approvals \ retired : Approved(hub.ledger, k)
            BY DEF PmInv, Unretired
      <2> QED BY <1>1, <2>1 DEF Unretired, Approved
<1>7. NewerStays'
      BY <1>1 DEF NewerStays
<1>8. PushedIsRemote'
      BY DEF PmInv, PushedIsRemote
<1>9. NothingForgotten'
      <2>1. \A k \in recorded : k \in LedgerKeys
            BY DEF PmInv, PmTypeOK, LedgerKeys
      <2> QED BY <1>1, <2>1 DEF PmInv, NothingForgotten, Keys
<1> QED BY <1>2, <1>3, <1>4, <1>5, <1>6, <1>7, <1>8, <1>9 DEF PmInv

\* A step of the cycle alone keeps the invariant.
LEMMA CycleAlone ==
    ASSUME PmInv, UNCHANGED <<hub, seen, commits, clone, dirty, told, recorded, newer, retired>>,
           cycle' = NoCycle \/ cycle' \in Cycles,
           cycle'.at # "commit",
           cycle'.at \in {"push", "repull"} => cycle.at \in {"push", "repull"} /\ cycle'.of = cycle.of
    PROVE  PmInv'
<1>1. PmTypeOK' /\ Fetched'
      BY DEF PmInv, PmTypeOK, Fetched
<1>2. OnTop'
      BY DEF PmInv, OnTop, TopOf
<1>3. Carried'
      BY DEF PmInv, Carried
<1>4. Unretired' /\ NewerStays'
      BY DEF PmInv, Unretired, NewerStays, Approved
<1>5. PushedIsRemote' /\ NothingForgotten'
      BY DEF PmInv, PushedIsRemote, NothingForgotten
<1> QED BY <1>1, <1>2, <1>3, <1>4, <1>5 DEF PmInv

\* Before anything is written.
LEMMA PmStarts == PmInit => PmInv
<1> SUFFICES ASSUME PmInit PROVE PmInv
    OBVIOUS
<1>1. Blank \in Ledgers /\ Keys(Blank) = {} /\ \A k \in LedgerKeys : Blank[k] = "none"
      BY DEF Blank, Ledgers, Lines, Keys
<1>2. hub = [tip |-> 0, text |-> 0, ledger |-> Blank] /\ seen = hub /\ clone = Blank /\ commits = <<>>
      BY DEF PmInit
<1>3. commits \in Seq(Ledgers) /\ Len(commits) = 0 /\ 1 .. 0 = {}
      BY <1>2
<1>4. PmTypeOK
      BY <1>1, <1>2, <1>3 DEF PmTypeOK, Branch, PmInit
<1>5. Fetched
      BY <1>2 DEF Fetched
<1>6. OnTop
      BY <1>1, <1>2, <1>3 DEF OnTop, TopOf
<1>7. Carried /\ PushedIsRemote /\ NothingForgotten
      BY DEF Carried, PushedIsRemote, NothingForgotten, PmInit, NoCycle
<1>8. Unretired
      <2>1. \A k \in Approvals : k \in LedgerKeys
            BY DEF LedgerKeys
      <2> QED BY <1>1, <1>2, <1>3, <2>1 DEF Unretired, Approved
<1>9. NewerStays
      BY DEF NewerStays, PmInit
<1> QED BY <1>4, <1>5, <1>6, <1>7, <1>8, <1>9 DEF PmInv

\* Lines written to the clone: the keys are no longer a developer's, and a decision that
\* is not an approval is retired.
LEMMA WrittenIs ==
    ASSUME PmInv, NEW written \in Ledgers, clone' = Unite(written, clone),
           newer' = newer \ Keys(written), retired \subseteq retired',
           \A k \in Approvals \ retired' : Approved(written, k),
           UNCHANGED <<hub, seen, commits, told>>,
           cycle' = NoCycle \/ cycle' \in Cycles,
           cycle'.at \notin {"push", "repull"}, cycle'.at = "commit" => cycle'.of \in Keys(clone'),
           ~dirty' => ~dirty /\ \A k \in Keys(written) : clone[k] = written[k],
           recorded' \subseteq (recorded \cup Keys(clone')) \cap Approvals
    PROVE  PmInv'
<1>1. /\ clone \in Ledgers /\ seen.ledger \in Ledgers /\ hub.ledger \in Ledgers
      BY DEF PmInv, PmTypeOK, Branch
<1>2. /\ clone' \in Ledgers /\ Keys(clone') = Keys(written) \cup Keys(clone)
      /\ \A k \in Keys(written) : clone'[k] = written[k]
      /\ \A k \in LedgerKeys : clone'[k] \in {written[k], clone[k]}
      /\ \A k \in LedgerKeys \ Keys(written) : clone'[k] = clone[k]
      BY <1>1, UniteIs
<1>3. PmTypeOK'
      BY <1>2 DEF PmInv, PmTypeOK
<1>4. Fetched'
      BY DEF PmInv, Fetched
<1>5. OnTop'
      <2>1. ~dirty' => clone' = clone
            <3> SUFFICES ASSUME ~dirty' PROVE clone' = clone
                OBVIOUS
            <3>1. \A k \in LedgerKeys : clone'[k] = clone[k]
                  BY <1>2
            <3> QED BY <1>1, <1>2, <3>1 DEF Ledgers
      <2>2. ~dirty' => clone' = TopOf(commits, seen)'
            BY <2>1 DEF PmInv, OnTop, TopOf
      <2> QED BY <1>2, <2>2 DEF PmInv, OnTop
<1>6. Carried'
      BY DEF Carried
<1>7. Unretired'
      <2>1. \A k \in Approvals \ retired' : k \in LedgerKeys /\ k \in Approvals \ retired
            BY DEF LedgerKeys
      <2>2. \A k \in Approvals \ retired' : Approved(clone', k)
            BY <1>2, <2>1 DEF PmInv, Unretired, Approved
      <2> QED BY <2>1, <2>2 DEF PmInv, Unretired, Approved
<1>8. NewerStays'
      <2>1. Keys(seen.ledger) \subseteq LedgerKeys
            BY DEF Keys
      <2> QED BY <1>2, <2>1 DEF PmInv, NewerStays
<1>9. PushedIsRemote'
      BY DEF PmInv, PushedIsRemote
<1>10. NothingForgotten'
      <2>1. ASSUME NEW k \in recorded' PROVE hub'.ledger[k] # "none" \/ clone'[k] # "none"
            <3>1. k \in LedgerKeys
                  BY <2>1 DEF LedgerKeys
            <3>2. CASE k \in Keys(clone')
                  BY <3>2 DEF Keys
            <3>3. CASE k \in recorded
                  BY <1>2, <3>1, <3>3 DEF PmInv, NothingForgotten, Keys
            <3> QED BY <2>1, <3>2, <3>3
      <2> QED BY <2>1 DEF NothingForgotten
<1> QED BY <1>3, <1>4, <1>5, <1>6, <1>7, <1>8, <1>9, <1>10 DEF PmInv

\* A decision is recorded in the clone.
LEMMA RecordPreserves == PmInv /\ Record => PmInv'
<1> SUFFICES ASSUME PmInv, Record PROVE PmInv'
    OBVIOUS
<1>1. cycle \in Cycles /\ cycle.at = "record"
      BY DEF Record, PmInv, PmTypeOK, NoCycle
<1>2. PICK k, line : k = cycle.of /\ line = cycle.line /\ k \in Approvals /\ line \in {"approved", "again"}
      BY <1>1 DEF Cycles
<1>3. PICK written : written = LedgerOf([l \in {cycle.of} |-> cycle.line])
      OBVIOUS
<1>4. written = [l \in LedgerKeys |-> IF l \in {k} THEN line ELSE "none"]
      <2>1. PICK lines : lines = [l \in {k} |-> line]
            OBVIOUS
      <2>2. DOMAIN lines = {k} /\ lines[k] = line
            BY <2>1
      <2>3. written = LedgerOf(lines)
            BY <1>2, <1>3, <2>1
      <2> QED BY <2>2, <2>3 DEF LedgerOf
<1>5. written \in Ledgers /\ Keys(written) = {k} /\ k \in LedgerKeys
      BY <1>2, <1>4 DEF Ledgers, Keys, LedgerKeys, Lines
<1>6. written[k] = line /\ \A l \in Approvals : Approved(written, l)
      BY <1>2, <1>4, <1>5 DEF Approved, LedgerKeys
<1>7. clone' = Unite(written, clone) /\ newer' = newer \ Keys(written) /\ retired' = retired
      BY <1>2, <1>3, <1>5 DEF Record
<1>8. Keys(clone') = Keys(written) \cup Keys(clone)
      BY <1>5, <1>7, UniteIs DEF PmInv, PmTypeOK
<1>9. cycle' \in Cycles /\ cycle'.at = "commit" /\ cycle'.of = k
      BY <1>1, <1>2 DEF Record, Cycles
<1>10. ~dirty' => ~dirty /\ \A l \in Keys(written) : clone[l] = written[l]
      BY <1>2, <1>5, <1>6 DEF Record
<1>11. recorded' \subseteq (recorded \cup Keys(clone')) \cap Approvals
      BY <1>2, <1>5, <1>8 DEF Record, PmInv, PmTypeOK
<1>12. UNCHANGED <<hub, seen, commits, told>>
      BY DEF Record
<1> QED BY <1>5, <1>6, <1>7, <1>8, <1>9, <1>10, <1>11, <1>12, WrittenIs

\* Lines of a batch that may be appended.
LEMMA BatchIs ==
    ASSUME NEW lines \in Batches
    PROVE  /\ DOMAIN lines \subseteq LedgerKeys
           /\ \A k \in DOMAIN lines : lines[k] \in Lines \ {"none"}
<1> DEFINE Single == {[k \in {of} |-> line] : of \in Approvals, line \in {"withdrawn", "odd"}}
           Linking == {[k \in {e, Backing[e][2]} |-> IF k = e THEN "link" ELSE line] :
                          e \in DOMAIN Backing, line \in {"hollow", "superseded"}}
<1>0. lines \in Single \/ lines \in Linking
      <2>1. Batches = Single \cup Linking
            BY DEF Batches
      <2> HIDE DEF Single, Linking
      <2> QED BY <2>1
<1>1. CASE lines \in Single
      <2>1. PICK of \in Approvals, line \in {"withdrawn", "odd"} : lines = [k \in {of} |-> line]
            BY <1>1
      <2> QED BY <2>1 DEF LedgerKeys, Lines
<1>2. CASE lines \in Linking
      <2>1. PICK e \in DOMAIN Backing, line \in {"hollow", "superseded"} :
                lines = [k \in {e, Backing[e][2]} |-> IF k = e THEN "link" ELSE line]
            BY <1>2
      <2>2. PICK b : b = Backing[e][2] /\ b \in Approvals
            BY PmAssumption
      <2>3. DOMAIN lines = {e, b} /\ \A k \in {e, b} : lines[k] \in {"link", line}
            BY <2>1, <2>2
      <2> QED BY <2>2, <2>3 DEF LedgerKeys, Lines
<1> HIDE DEF Single, Linking
<1> QED BY <1>0, <1>1, <1>2

\* A batch is appended to the clone.
LEMMA PmAppendPreserves ==
    ASSUME PmInv, NEW lines \in Batches, NEW asPm, Append_(lines, asPm)
    PROVE  PmInv'
<1>1. DOMAIN lines \subseteq LedgerKeys /\ \A k \in DOMAIN lines : lines[k] \in Lines \ {"none"}
      BY BatchIs
<1>2. PICK written : written = LedgerOf(lines)
      OBVIOUS
<1>3. written = [l \in LedgerKeys |-> IF l \in DOMAIN lines THEN lines[l] ELSE "none"]
      BY <1>2 DEF LedgerOf
<1>4. written \in Ledgers /\ Keys(written) = DOMAIN lines
      <2>1. "none" \in Lines
            BY DEF Lines
      <2> QED BY <1>1, <1>3, <2>1 DEF Ledgers, Keys
<1>5. cycle = NoCycle /\ cycle' = NoCycle
      BY DEF Append_, PmInv, PmTypeOK, Cycles
<1>6. /\ clone' = Unite(written, clone) /\ newer' = newer \ Keys(written)
      /\ retired' = retired \cup (DOMAIN lines \cap Approvals)
      /\ UNCHANGED <<hub, seen, commits, told, recorded>> /\ dirty'
      BY <1>2, <1>4 DEF Append_
<1>7. \A k \in Approvals \ retired' : Approved(written, k)
      <2>1. \A k \in Approvals \ retired' : k \in LedgerKeys /\ k \notin DOMAIN lines
            BY <1>6 DEF LedgerKeys
      <2> QED BY <1>3, <2>1 DEF Approved
<1>8. recorded' \subseteq (recorded \cup Keys(clone')) \cap Approvals
      BY <1>6 DEF PmInv, PmTypeOK
<1>9. cycle'.at \notin {"push", "repull"} /\ cycle'.at # "commit"
      BY <1>5 DEF NoCycle
<1> QED BY <1>4, <1>5, <1>6, <1>7, <1>8, <1>9, WrittenIs

\* What the clone has becomes a commit on top of the others.
LEMMA CommitPreserves == PmInv /\ Commit => PmInv'
<1> SUFFICES ASSUME PmInv, Commit PROVE PmInv'
    OBVIOUS
<1>1. cycle \in Cycles /\ cycle.at = "commit" /\ cycle.of \in Keys(clone)
      BY DEF Commit, PmInv, PmTypeOK, NoCycle, Carried
<1>2. UNCHANGED <<hub, seen, clone, told, recorded, newer, retired>> /\ ~dirty' /\ commits' = Append(commits, clone)
      BY DEF Commit
<1>3. cycle' \in Cycles /\ cycle'.at = "push" /\ cycle'.of = cycle.of
      BY <1>1 DEF Commit, Cycles
<1>4. PICK n \in Nat : n = Len(commits)
      BY DEF PmInv, PmTypeOK
<1>5. /\ commits' \in Seq(Ledgers) /\ Len(commits') = n + 1 /\ commits'[n + 1] = clone
      /\ \A i \in 1 .. n : commits'[i] = commits[i]
      BY <1>2, <1>4 DEF PmInv, PmTypeOK
<1>6. \A i \in 1 .. n + 1 : i \in 1 .. n \/ i = n + 1
      OBVIOUS
<1>7. commits' # <<>> /\ TopOf(commits', seen) = clone
      <2>1. commits' # <<>>
            BY <1>5
      <2> QED BY <1>5, <2>1, TopIs
<1>8. PmTypeOK' /\ Fetched'
      <2>1. PmTypeOK'
            BY <1>2, <1>3, <1>5, SMTT(30) DEF PmInv, PmTypeOK
      <2>2. Fetched'
            BY <1>2, <1>3, <1>5, SMTT(30) DEF PmInv, Fetched
      <2> QED BY <2>1, <2>2
<1>9. OnTop'
      <2>1. \A i \in 1 .. n + 1 : Keys(seen.ledger) \subseteq Keys(commits'[i])
            BY <1>4, <1>5, <1>6 DEF PmInv, OnTop
      <2>2. clone' = TopOf(commits, seen)'
            BY <1>2, <1>7 DEF TopOf
      <2> QED BY <1>2, <1>5, <2>1, <2>2, ZenonT(30) DEF PmInv, OnTop
<1>10. Carried'
      BY <1>1, <1>2, <1>3, <1>7 DEF Carried
<1>11. Unretired'
      <2>1. \A k \in Approvals \ retired : \A i \in 1 .. n + 1 : Approved(commits'[i], k)
            BY <1>4, <1>5, <1>6 DEF PmInv, Unretired
      <2> QED BY <1>2, <1>5, <2>1 DEF PmInv, Unretired, Approved
<1>12. NewerStays'
      <2>1. seen.text = hub.text => \A k \in newer \cap Keys(seen.ledger) :
                 clone[k] = seen.ledger[k] /\ \A i \in 1 .. n + 1 : commits'[i][k] = seen.ledger[k]
            BY <1>4, <1>5, <1>6 DEF PmInv, NewerStays
      <2> QED BY <1>2, <1>5, <2>1 DEF NewerStays
<1>13. PushedIsRemote' /\ NothingForgotten'
      BY <1>2 DEF PmInv, PushedIsRemote, NothingForgotten
<1> QED BY <1>8, <1>9, <1>10, <1>11, <1>12, <1>13 DEF PmInv

\* The remote takes the clone's commits on top of what it has, which is what was fetched.
LEMMA PushIs ==
    ASSUME PmInv, PushOn
    PROVE  /\ seen = hub /\ ~dirty /\ commits # <<>> /\ hub'.ledger = clone /\ cycle \in Cycles
           /\ Keys(hub.ledger) \subseteq Keys(clone) /\ cycle.of \in Keys(clone)
           /\ hub' \in Branch /\ hub'.tip > hub.tip /\ hub'.text = hub'.tip
<1>1. cycle \in Cycles /\ seen = hub /\ ~dirty /\ commits # <<>> /\ cycle.of \in Keys(clone)
      BY DEF PushOn, PmInv, PmTypeOK, NoCycle, Fetched, Carried
<1>2. clone = TopOf(commits, hub) /\ Keys(hub.ledger) \subseteq Keys(clone) /\ clone \in Ledgers
      BY <1>1 DEF PmInv, OnTop, PmTypeOK
<1>3. hub' = [tip |-> hub.tip + 1, text |-> hub.tip + 1, ledger |-> clone] /\ hub.tip \in Nat
      BY <1>2 DEF PushOn, PmInv, PmTypeOK, Branch
<1>4. hub' \in Branch /\ hub'.tip > hub.tip /\ hub'.text = hub'.tip /\ hub'.ledger = clone
      BY <1>2, <1>3 DEF Branch
<1> QED BY <1>1, <1>2, <1>4

\* A push takes the clone's ledger to the hub.
LEMMA PushOnPreserves == PmInv /\ PushOn => PmInv'
<1> SUFFICES ASSUME PmInv, PushOn PROVE PmInv'
    OBVIOUS
<1>1. /\ seen = hub /\ ~dirty /\ commits # <<>> /\ hub'.ledger = clone /\ cycle \in Cycles
      /\ Keys(hub.ledger) \subseteq Keys(clone) /\ cycle.of \in Keys(clone)
      /\ hub' \in Branch /\ hub'.tip > hub.tip /\ hub'.text = hub'.tip
      BY PushIs
<1>2. /\ seen' = hub' /\ commits' = <<>> /\ told' = told \cup {cycle.of} /\ cycle' = NoCycle
      /\ UNCHANGED <<clone, dirty, recorded, newer, retired>>
      BY DEF PushOn
<1>3. commits' \in Seq(Ledgers) /\ Len(commits') = 0 /\ 1 .. 0 = {}
      BY <1>2
<1>4. PmTypeOK'
      BY <1>1, <1>2, <1>3 DEF PmInv, PmTypeOK, Cycles
<1>5. Fetched'
      BY <1>1, <1>2 DEF Fetched, Branch
<1>6. OnTop'
      BY <1>1, <1>2, <1>3 DEF OnTop, TopOf
<1>7. Carried'
      BY <1>2 DEF Carried, NoCycle
<1>8. Unretired' /\ NewerStays'
      BY <1>1, <1>2, <1>3 DEF PmInv, Unretired, NewerStays, Approved
<1>9. PushedIsRemote' /\ NothingForgotten'
      <2>1. \A k \in told : k \in LedgerKeys
            BY DEF PmInv, PmTypeOK, LedgerKeys
      <2>2. \A k \in recorded : k \in LedgerKeys
            BY DEF PmInv, PmTypeOK, LedgerKeys
      <2>3. \A k \in told \cup {cycle.of} : k \in Keys(clone)
            BY <1>1, <2>1 DEF PmInv, PushedIsRemote, Keys
      <2>4. \A k \in recorded : k \in Keys(clone)
            BY <1>1, <2>2 DEF PmInv, NothingForgotten, Keys
      <2> QED BY <1>1, <1>2, <2>3, <2>4 DEF PushedIsRemote, NothingForgotten, Keys
<1> QED BY <1>4, <1>5, <1>6, <1>7, <1>8, <1>9 DEF PmInv

\* What developers push is new, unless it is code alone.
LEMMA DevPushesPreserve == PmInv /\ DevPushes => PmInv'
<1> SUFFICES ASSUME PmInv, DevPushes PROVE PmInv'
    OBVIOUS
<1>1. hub \in Branch /\ seen \in Branch /\ hub.tip \in Nat /\ hub.text \in Nat /\ hub.ledger \in Ledgers
      BY DEF PmInv, PmTypeOK, Branch
<1>2. UNCHANGED <<seen, commits, clone, dirty, cycle, told, recorded>>
      BY DEF DevPushes
<1>3. Carried'
      BY <1>2 DEF PmInv, Carried
<1>4. OnTop'
      BY <1>2 DEF PmInv, OnTop, TopOf
<1>5. CASE hub' = [hub EXCEPT !.tip = @ + 1] /\ UNCHANGED <<newer, retired>>
      <2>1. hub' \in Branch /\ hub'.tip = hub.tip + 1 /\ hub'.text = hub.text /\ hub'.ledger = hub.ledger
            BY <1>1, <1>5 DEF Branch
      <2>2. PmTypeOK'
            BY <1>2, <1>5, <2>1 DEF PmInv, PmTypeOK
      <2>3. Fetched'
            BY <1>1, <1>2, <2>1 DEF PmInv, Fetched, Branch
      <2>4. Unretired' /\ NewerStays'
            BY <1>2, <1>5, <2>1 DEF PmInv, Unretired, NewerStays, Approved
      <2>5. PushedIsRemote' /\ NothingForgotten'
            BY <1>2, <2>1 DEF PmInv, PushedIsRemote, NothingForgotten
      <2> QED BY <1>3, <1>4, <2>2, <2>3, <2>4, <2>5 DEF PmInv
<1>6. ASSUME NEW k \in LedgerKeys, NEW line \in {"superseded", "work", "link"},
             hub' = [tip |-> hub.tip + 1, text |-> hub.tip + 1, ledger |-> [hub.ledger EXCEPT ![k] = line]],
             newer' = newer \cup {k}, retired' = retired \cup ({k} \cap Approvals)
      PROVE  PmInv'
      <2>1. PICK led : led = [hub.ledger EXCEPT ![k] = line]
            OBVIOUS
      <2>2. /\ led \in Ledgers /\ Keys(hub.ledger) \subseteq Keys(led)
            /\ \A l \in LedgerKeys : l # k => led[l] = hub.ledger[l]
            BY <1>1, <2>1 DEF Ledgers, Lines, Keys
      <2>3. hub' \in Branch /\ hub'.tip = hub.tip + 1 /\ hub'.text = hub.tip + 1 /\ hub'.ledger = led
            BY <1>1, <1>6, <2>1, <2>2 DEF Branch
      <2>4. PmTypeOK'
            BY <1>2, <1>6, <2>3 DEF PmInv, PmTypeOK
      <2>5. seen'.tip < hub'.tip /\ seen'.text < hub'.text
            BY <1>1, <1>2, <2>3 DEF PmInv, Fetched, Branch
      <2>6. Fetched'
            <3>1. seen'.tip \in Nat /\ seen'.text \in Nat
                  BY <1>1, <1>2 DEF Branch
            <3>2. hub'.text = hub'.tip /\ hub'.tip \in Nat
                  BY <1>1, <2>3
            <3>3. Keys(seen'.ledger) \subseteq Keys(hub'.ledger)
                  BY <1>2, <2>2, <2>3 DEF PmInv, Fetched
            <3> QED BY <2>5, <3>1, <3>2, <3>3 DEF Fetched
      <2>7. Unretired'
            <3>1. \A l \in Approvals \ retired' : l \in LedgerKeys /\ l # k /\ l \in Approvals \ retired
                  BY <1>6 DEF LedgerKeys
            <3>2. \A l \in Approvals \ retired' : Approved(hub'.ledger, l)
                  BY <2>2, <2>3, <3>1 DEF PmInv, Unretired, Approved
            <3> QED BY <1>2, <3>1, <3>2 DEF PmInv, Unretired, Approved
      <2>8. NewerStays'
            <3>1. seen'.text # hub'.text
                  BY <2>5, <1>1, <1>2, <2>3 DEF Branch
            <3> QED BY <3>1 DEF NewerStays
      <2>9. \A l \in LedgerKeys : hub.ledger[l] # "none" => hub'.ledger[l] # "none"
            BY <2>2, <2>3 DEF Keys
      <2>10. \A l \in told \cup recorded : l \in LedgerKeys
            BY DEF PmInv, PmTypeOK, LedgerKeys
      <2>11. PushedIsRemote' /\ NothingForgotten'
            BY <1>2, <2>9, <2>10 DEF PmInv, PushedIsRemote, NothingForgotten
      <2> QED BY <1>3, <1>4, <2>4, <2>6, <2>7, <2>8, <2>11 DEF PmInv
<1>7. CASE ~(hub' = [hub EXCEPT !.tip = @ + 1] /\ UNCHANGED <<newer, retired>>)
      <2>1. PICK k \in LedgerKeys :
                /\ hub' = [tip |-> hub.tip + 1, text |-> hub.tip + 1,
                           ledger |-> [hub.ledger EXCEPT ![k] =
                               CASE k \in Approvals -> "superseded" [] k \in Works -> "work" [] OTHER -> "link"]]
                /\ newer' = newer \cup {k} /\ retired' = retired \cup ({k} \cap Approvals)
            BY <1>7, Zenon DEF DevPushes
      <2>2. PICK line : line = CASE k \in Approvals -> "superseded" [] k \in Works -> "work" [] OTHER -> "link"
            OBVIOUS
      <2>3. line \in {"superseded", "work", "link"}
            BY <2>2
      <2>4. hub' = [tip |-> hub.tip + 1, text |-> hub.tip + 1, ledger |-> [hub.ledger EXCEPT ![k] = line]]
            BY <2>1, <2>2, Zenon
      <2> QED BY <1>6, <2>1, <2>3, <2>4
<1> QED BY <1>5, <1>7

\* A step of the loop, of a developer, or none, keeps the invariant.
LEMMA PmInductive == PmInv /\ [Cycle]_pm => PmInv'
<1> SUFFICES ASSUME PmInv, [Cycle]_pm PROVE PmInv'
    OBVIOUS
<1>1. cycle = NoCycle \/ cycle \in Cycles
      BY DEF PmInv, PmTypeOK
<1>2. CASE UNCHANGED pm
      <2>1. UNCHANGED <<hub, seen, commits, clone, dirty, cycle, told, recorded, newer, retired>>
            BY <1>2 DEF pm
      <2>2. PmTypeOK' /\ Fetched' /\ Carried'
            BY <2>1 DEF PmInv, PmTypeOK, Fetched, Carried
      <2>3. OnTop'
            BY <2>1 DEF PmInv, OnTop, TopOf
      <2>4. Unretired' /\ NewerStays' /\ PushedIsRemote' /\ NothingForgotten'
            BY <2>1 DEF PmInv, Unretired, NewerStays, Approved, PushedIsRemote, NothingForgotten
      <2> QED BY <2>2, <2>3, <2>4 DEF PmInv
<1>3. CASE \E k \in Approvals, line \in {"approved", "again"}, dated \in BOOLEAN : BeginCycle(k, line, dated)
      <2>1. PICK k \in Approvals, line \in {"approved", "again"}, dated \in BOOLEAN : BeginCycle(k, line, dated)
            BY <1>3
      <2>2. cycle' \in Cycles /\ cycle'.at = "pull"
            BY <2>1 DEF BeginCycle, Cycles
      <2>3. UNCHANGED <<hub, seen, commits, clone, dirty, told, recorded, newer, retired>>
            BY <2>1 DEF BeginCycle
      <2> QED BY <2>2, <2>3, CycleAlone
<1>4. CASE PullFirst
      <2>1. cycle \in Cycles
            BY <1>1, <1>4 DEF PullFirst, NoCycle
      <2>2. cycle' \in Cycles /\ cycle'.at = "record" /\ UNCHANGED <<hub, told, recorded, newer, retired>>
            BY <1>4, <2>1 DEF PullFirst, Cycles
      <2>3. (Rebase /\ UNCHANGED dirty) \/ UNCHANGED <<commits, seen, clone, dirty>>
            BY <1>4 DEF PullFirst
      <2> QED BY <2>2, <2>3, RebaseKeeps, CycleAlone
<1>5. CASE RecordFails \/ AtRest \/ Killed
      <2>1. cycle' = NoCycle /\ cycle'.at = "idle"
            BY <1>5 DEF RecordFails, AtRest, Killed, NoCycle
      <2>2. UNCHANGED <<hub, seen, commits, clone, dirty, told, recorded, newer, retired>>
            BY <1>5 DEF RecordFails, AtRest, Killed
      <2> QED BY <2>1, <2>2, CycleAlone
<1>6. CASE PushFails
      <2>1. cycle \in Cycles /\ cycle.at = "push"
            BY <1>1, <1>6 DEF PushFails, NoCycle
      <2>2. cycle' \in Cycles /\ cycle'.at = "repull" /\ cycle'.of = cycle.of
            BY <1>6, <2>1 DEF PushFails, Cycles
      <2>3. UNCHANGED <<hub, seen, commits, clone, dirty, told, recorded, newer, retired>>
            BY <1>6 DEF PushFails
      <2> QED BY <2>1, <2>2, <2>3, CycleAlone
<1>7. CASE Repull
      <2>1. cycle \in Cycles /\ cycle.at = "repull"
            BY <1>1, <1>7 DEF Repull, NoCycle
      <2>2. \/ cycle' = NoCycle /\ cycle'.at = "idle"
            \/ cycle' \in Cycles /\ cycle'.at = "push" /\ cycle'.of = cycle.of
            <3>1. cycle' = [cycle EXCEPT !.at = "push", !.tries = @ + 1] \/ cycle' = NoCycle
                  BY <1>7 DEF Repull
            <3>2. CASE cycle' = NoCycle
                  BY <3>2 DEF NoCycle
            <3>3. CASE cycle' = [cycle EXCEPT !.at = "push", !.tries = @ + 1]
                  <4>1. PICK n \in Nat : n = cycle.tries
                        BY <2>1 DEF Cycles
                  <4>2. cycle' = [cycle EXCEPT !.at = "push", !.tries = n + 1] /\ n + 1 \in Nat
                        BY <3>3, <4>1
                  <4>3. cycle'.at = "push" /\ cycle'.of = cycle.of
                        BY <2>1, <4>2 DEF Cycles
                  <4>4. cycle' \in Cycles
                        BY <2>1, <4>2 DEF Cycles
                  <4> QED BY <4>3, <4>4
            <3> QED BY <3>1, <3>2, <3>3
      <2>3. (Rebase /\ UNCHANGED dirty) \/ UNCHANGED <<commits, seen, clone, dirty>>
            BY <1>7 DEF Repull
      <2>4. UNCHANGED <<hub, told, recorded, newer, retired>>
            BY <1>7 DEF Repull
      <2> QED BY <2>1, <2>2, <2>3, <2>4, RebaseKeeps, CycleAlone
<1>8. CASE \E lines \in Batches, asPm \in BOOLEAN : Append_(lines, asPm) \/ AppendRefused(lines, asPm)
      <2>1. PICK lines \in Batches, asPm \in BOOLEAN : Append_(lines, asPm) \/ AppendRefused(lines, asPm)
            BY <1>8
      <2>2. CASE Append_(lines, asPm)
            BY <2>2, PmAppendPreserves
      <2>3. CASE AppendRefused(lines, asPm)
            <3>1. cycle.at = "idle" /\ UNCHANGED <<hub, seen, commits, clone, dirty, cycle, told, recorded, newer, retired>>
                  BY <2>3 DEF AppendRefused
            <3>2. cycle' = NoCycle \/ cycle' \in Cycles
                  BY <1>1, <3>1
            <3> QED BY <3>1, <3>2, CycleAlone
      <2> QED BY <2>1, <2>2, <2>3
<1> QED BY <1>2, <1>3, <1>4, <1>5, <1>6, <1>7, <1>8, RecordPreserves, CommitPreserves, PushOnPreserves,
           DevPushesPreserve DEF Cycle

\* A decision that is on the remote and not retired backs its work.
LEMMA UnretiredBacks == PmInv => BackedIsSilent
<1> SUFFICES ASSUME PmInv, NEW e \in DOMAIN Backing, hub.ledger[e] = "link", Backing[e][2] \in told \ retired
             PROVE  Backing[e][1] \notin Unbacked(hub.ledger)
    BY DEF BackedIsSilent
<1>1. PICK k : k = Backing[e][2] /\ k \in told \ retired
      OBVIOUS
<1>2. k \in Approvals /\ hub.ledger[k] # "none"
      BY <1>1 DEF PmInv, PmTypeOK, PushedIsRemote
<1>3. hub.ledger[k] \in {"approved", "again", "odd"}
      BY <1>1, <1>2 DEF PmInv, Unretired, Approved
<1> QED BY <1>1, <1>3 DEF Unbacked

\* A push takes nothing from the remote that it has, and no newer line of a developer's.
LEMMA PushesKeep == PmInv /\ [Cycle]_pm => [PushKeeps]_pm
<1> SUFFICES ASSUME PmInv, [Cycle]_pm, hub'.tip # hub.tip, seen' = hub' PROVE PushKeeps
    BY DEF PushKeeps
<1>1. PushOn
      <2>1. ~DevPushes
            <3> SUFFICES ASSUME DevPushes PROVE FALSE
                OBVIOUS
            <3>1. hub.tip \in Nat /\ seen.tip \in Nat /\ seen.tip <= hub.tip /\ seen' = seen
                  BY DEF DevPushes, PmInv, PmTypeOK, Branch, Fetched
            <3>2. hub'.tip = hub.tip + 1
                  BY DEF DevPushes, PmInv, PmTypeOK, Branch
            <3> QED BY <3>1, <3>2
      <2> QED BY <2>1 DEF Cycle, pm, BeginCycle, PullFirst, Record, RecordFails, Commit, AtRest, PushFails, Repull,
                      Killed, Append_, AppendRefused
<1>2. seen = hub /\ hub'.ledger = clone /\ Keys(hub.ledger) \subseteq Keys(clone)
      BY <1>1, PushIs
<1>3. \A k \in newer \cap Keys(seen.ledger) : clone[k] = seen.ledger[k]
      BY <1>2 DEF PmInv, NewerStays
<1>4. newer \subseteq LedgerKeys
      BY DEF PmInv, PmTypeOK
<1> QED BY <1>2, <1>3, <1>4 DEF PushKeeps, Keys

\* For any requests, works, batches, developers, retries and mishaps: what a cycle said it
\* pushed is on the remote, what was recorded is there or in the clone, a work whose
\* decision nobody retired is backed, and a push takes no line that is on the remote and
\* changes none that a developer changed after the PM (pm-memory-cycle.mjs).
THEOREM LoopKeepsLedger == PmSpec => LedgerKept
<1>1. PmInv => PushedIsRemote /\ NothingForgotten /\ BackedIsSilent
      BY UnretiredBacks DEF PmInv
<1>2. PmSpec => []PmInv
      BY PmStarts, PmInductive, PTL DEF PmSpec
<1>3. PmInv /\ [Cycle]_pm => [PushKeeps]_pm
      BY PushesKeep
<1> QED BY <1>1, <1>2, <1>3, PTL DEF PmSpec, LedgerKept

-----------------------------------------------------------------------------
(* The configuration files of others: what the user put there is there or in a *)
(* copy, and no list has our entry twice.                                      *)

Entries == Theirs \cup OurNames
Files == [form : {"fine", "odd"}, servers : Seq(Entries), inputs : Seq(Entries)]
Steps == {"rest", "script", "copy", "write"}
Commanded == [cmd : {"none", "connect", "disconnect"}, step : Steps, read : Files]
Held(f) == ToSet(f.servers) \cap Theirs
Saved == raced \cup UNION {ToSet(f.servers) : f \in backups}
Ours == IF kind = "toml" THEN <<"ours", "env">> ELSE <<"ours">>

\* Of a list, our entries.
Marks(s) == Without(s, Theirs \cup {"legacy"})

\* Where our entry keeps its place in a list, it is there at most once.
Once(s) == kind \in {"json", "inputs", "hook"} => Marks(s) \in {<<>>, <<"ours">>}

ConfigsTyped ==
    /\ kind \in Kinds /\ configFile \in Files
    /\ script \in {"none", "ours", "theirs"} /\ backups \subseteq Files
    /\ writer \in [Writers -> Commanded]
    /\ put \subseteq Theirs

\* What a file or a writer has of the user's was put there; what a writer is about to
\* write over has been saved.
Saving ==
    /\ Held(configFile) \subseteq put
    /\ \A p \in Writers : Held(writer[p].read) \subseteq put
    /\ put \subseteq Saved \cup Held(configFile)
    /\ \A p \in Writers : AtStep(p, "write") => Held(configFile) \subseteq Saved

\* The script is there before a list that names it is written.
Scripted ==
    kind = "hook" =>
        /\ HasOurs(configFile) => script # "none"
        /\ \A p \in Writers :
              writer[p].cmd = "connect" /\ writer[p].step \in {"copy", "write"} => script = "ours"

Single == Once(configFile.servers) /\ \A p \in Writers : Once(writer[p].read.servers)

ConfigsInv == ConfigsTyped /\ Saving /\ Scripted /\ Single

\* The user's entries are not ours.
LEMMA NamesApart ==
    /\ Theirs \cap OurNames = {} /\ Entries \ OurNames = Theirs
    /\ {"ours", "env", "legacy"} \subseteq Entries
BY ConfigsAssumption DEF Entries, OurNames

\* A list without some of its entries is what is left of it.
LEMMA WithoutIs == ASSUME NEW s, NEW S PROVE Without(s, S) = Sifted(s, S)
BY DEF Without, Sifted, Sifts

\* What is left of ours is nothing, and of the user's all.
LEMMA ForeignIs ==
    /\ \A s \in Seq(Entries) : Foreign(s) \in Seq(Theirs) /\ ToSet(Foreign(s)) = ToSet(s) \cap Theirs
    /\ \A a, b \in Seq(Entries) : Foreign(a \o b) = Foreign(a) \o Foreign(b)
    /\ \A s \in Seq(Theirs) : Foreign(s) = s
    /\ \A s \in Seq(OurNames) : Foreign(s) = <<>>
<1>0. \A s : Foreign(s) = Sifted(s, OurNames)
      BY WithoutIs DEF Foreign
<1>1. ASSUME NEW s \in Seq(Entries) PROVE Foreign(s) \in Seq(Theirs) /\ ToSet(Foreign(s)) = ToSet(s) \cap Theirs
      <2>1. Sifted(s, OurNames) \in Seq(Entries \ OurNames) /\ ToSet(Sifted(s, OurNames)) = ToSet(s) \ OurNames
            BY SiftedRest
      <2>2. ToSet(s) \subseteq Entries
            BY DEF ToSet
      <2> QED BY <1>0, <2>1, <2>2, NamesApart
<1>2. ASSUME NEW a \in Seq(Entries), NEW b \in Seq(Entries) PROVE Foreign(a \o b) = Foreign(a) \o Foreign(b)
      <2>1. Sifted(a \o b, OurNames) = Sifted(a, OurNames) \o Sifted(b, OurNames)
            BY SiftedOver
      <2> QED BY <1>0, <2>1, Zenon
<1>3. ASSUME NEW s \in Seq(Theirs) PROVE Foreign(s) = s
      <2>1. Sifted(s, OurNames) = s
            BY NamesApart, SiftedAll
      <2> QED BY <1>0, <2>1, Zenon
<1>4. ASSUME NEW s \in Seq(OurNames) PROVE Foreign(s) = <<>>
      <2>1. Sifted(s, OurNames) = <<>>
            BY SiftedNone
      <2> QED BY <1>0, <2>1, Zenon
<1> QED BY <1>1, <1>2, <1>3, <1>4

\* A list is what comes before one of its elements, that element, and the rest.
LEMMA SplitAt ==
    ASSUME NEW E, NEW s \in Seq(E), NEW n \in 1 .. Len(s)
    PROVE  /\ s = SubSeq(s, 1, n - 1) \o <<s[n]>> \o SubSeq(s, n + 1, Len(s))
           /\ SubSeq(s, 1, n) = SubSeq(s, 1, n - 1) \o <<s[n]>>
           /\ SubSeq(s, n, Len(s)) = <<s[n]>> \o SubSeq(s, n + 1, Len(s))
           /\ SubSeq(s, 1, n - 1) \in Seq(E) /\ SubSeq(s, n + 1, Len(s)) \in Seq(E)
           /\ \A i \in DOMAIN SubSeq(s, 1, n - 1) : i \in 1 .. n - 1 /\ SubSeq(s, 1, n - 1)[i] = s[i]
<1>1. PICK k \in Nat : k = Len(s) /\ 1 <= n /\ n <= k
      OBVIOUS
<1>2. 1 \in 1 .. Len(s) /\ Len(s) \in n .. Len(s) /\ n \in 1 .. Len(s)
      BY <1>1
<1>3. SubSeq(s, 1, n) = SubSeq(s, 1, n - 1) \o <<s[n]>>
      BY <1>2, SubSeqRecursiveSecond
<1>4. SubSeq(s, n, Len(s)) = <<s[n]>> \o SubSeq(s, n + 1, Len(s))
      BY <1>2, SubSeqRecursiveFirst
<1>5. SubSeq(s, 1, n) \o SubSeq(s, n + 1, Len(s)) = SubSeq(s, 1, Len(s))
      <2>1. 1 \in 1 .. Len(s) + 1 /\ n \in 1 - 1 .. Len(s) /\ Len(s) \in n .. Len(s)
            BY <1>1
      <2> QED BY <2>1, ConcatAdjacentSubSeq
<1>6. SubSeq(s, 1, Len(s)) = s
      BY SubSeqFull
<1>7. PICK a : a = SubSeq(s, 1, n - 1)
      OBVIOUS
<1>8. a \in Seq(E) /\ Len(a) = n - 1 /\ \A i \in 1 .. n - 1 : a[i] = s[i]
      BY <1>1, <1>7
<1>9. SubSeq(s, n + 1, Len(s)) \in Seq(E)
      BY <1>1
<1>10. s = SubSeq(s, 1, n - 1) \o <<s[n]>> \o SubSeq(s, n + 1, Len(s))
      BY <1>3, <1>5, <1>6, Zenon
<1>11. DOMAIN a = 1 .. n - 1
      BY <1>8
<1> QED BY <1>3, <1>4, <1>7, <1>8, <1>9, <1>10, <1>11, Zenon

\* A list with one of ours has a first one of ours.
LEMMA FirstOursIs ==
    ASSUME NEW s \in Seq(Entries), ToSet(s) \cap OurNames # {}
    PROVE  /\ FirstOurs(s) \in 1 .. Len(s) /\ s[FirstOurs(s)] \in OurNames
           /\ \A j \in 1 .. FirstOurs(s) - 1 : s[j] \notin OurNames
<1> DEFINE T == {i \in 1 .. Len(s) : s[i] \in OurNames}
<1>1. T \in SUBSET Nat /\ T # {}
      BY DEF ToSet
<1>2. PICK n \in T : \A m \in T : n <= m
      BY <1>1, Least
<1>3. n \in DOMAIN s /\ s[n] \in OurNames /\ \A j \in 1 .. n - 1 : s[j] \notin OurNames
      BY <1>2
<1>4. /\ FirstOurs(s) \in DOMAIN s /\ s[FirstOurs(s)] \in OurNames
      /\ \A j \in 1 .. FirstOurs(s) - 1 : s[j] \notin OurNames
      BY <1>3, Zenon DEF FirstOurs
<1>5. DOMAIN s = 1 .. Len(s)
      OBVIOUS
<1> QED BY <1>4, <1>5

\* After the user's entries comes the first of ours.
LEMMA FirstAfter ==
    ASSUME NEW P \in Seq(Theirs), NEW x \in OurNames, NEW R \in Seq(Entries)
    PROVE  \E s \in Seq(Entries) :
              /\ s = P \o <<x>> \o R /\ ToSet(s) \cap OurNames # {}
              /\ SubSeq(s, 1, FirstOurs(s)) = P \o <<x>>
              /\ SubSeq(s, FirstOurs(s), Len(s)) = <<x>> \o R
<1>1. PICK k \in Nat, l \in Nat : k = Len(P) /\ l = Len(R)
      OBVIOUS
<1>2. P \in Seq(Entries) /\ <<x>> \in Seq(Entries)
      BY DEF Entries
<1>3. PICK o \in Seq(Entries) : o = P \o <<x>>
      BY <1>2, ConcatProperties
<1>4. Len(o) = k + 1 /\ o[k + 1] = x /\ \A i \in 1 .. k : o[i] = P[i]
      BY <1>1, <1>2, <1>3
<1>5. PICK s \in Seq(Entries) : s = o \o R
      BY ConcatProperties
<1>6. /\ Len(s) = k + 1 + l /\ \A i \in 1 .. k + 1 : s[i] = o[i]
      /\ \A i \in 1 .. l : s[k + 1 + i] = R[i]
      <2>1. /\ Len(o \o R) = Len(o) + Len(R)
            /\ \A i \in 1 .. Len(o) + Len(R) : (o \o R)[i] = IF i <= Len(o) THEN o[i] ELSE R[i - Len(o)]
            BY ConcatProperties
      <2>2. \A i \in 1 .. k + 1 + l : s[i] = IF i <= k + 1 THEN o[i] ELSE R[i - (k + 1)]
            BY <1>1, <1>4, <1>5, <2>1
      <2>3. \A i \in 1 .. l : k + 1 + i \in 1 .. k + 1 + l /\ ~(k + 1 + i <= k + 1) /\ k + 1 + i - (k + 1) = i
            OBVIOUS
      <2> QED BY <1>1, <1>4, <1>5, <2>1, <2>2, <2>3
<1>7. s[k + 1] = x /\ k + 1 \in 1 .. Len(s) /\ \A i \in 1 .. k : s[i] = P[i] /\ P[i] \in Theirs
      BY <1>1, <1>4, <1>6
<1>8. ToSet(s) \cap OurNames # {}
      BY <1>7 DEF ToSet
<1>9. FirstOurs(s) = k + 1
      <2>1. PICK n : n = FirstOurs(s)
            OBVIOUS
      <2>2. n \in 1 .. Len(s) /\ s[n] \in OurNames /\ \A j \in 1 .. n - 1 : s[j] \notin OurNames
            BY <1>8, <2>1, FirstOursIs
      <2>3. ~(n <= k)
            BY <1>7, <2>2, NamesApart
      <2>4. ~(k + 1 <= n - 1)
            BY <1>7, <2>2
      <2> QED BY <2>1, <2>2, <2>3, <2>4
<1>10. SubSeq(s, 1, k + 1) = o
      <2>1. PICK a : a = SubSeq(s, 1, k + 1)
            OBVIOUS
      <2>2. a \in Seq(Entries) /\ Len(a) = k + 1 /\ \A i \in 1 .. k + 1 : a[i] = s[i]
            BY <1>6, <2>1
      <2>3. a = o
            BY <1>4, <1>6, <2>2
      <2> QED BY <2>1, <2>3
<1>11. SubSeq(s, k + 1, Len(s)) = <<x>> \o R
      <2>1. SubSeq(s, k + 1, Len(s)) = <<s[k + 1]>> \o SubSeq(s, k + 1 + 1, Len(s))
            BY <1>7, SplitAt
      <2>2. PICK b : b = SubSeq(s, k + 1 + 1, Len(s))
            OBVIOUS
      <2>3. b \in Seq(Entries) /\ Len(b) = l /\ \A i \in 1 .. l : b[i] = s[k + 1 + i]
            <3>1. PICK n \in Nat, m \in Nat \ {0} : n = k + 1 + l /\ m = k + 1 + 1
                  OBVIOUS
            <3>2. n = Len(s) /\ m <= n + 1 /\ n + 1 - m = l /\ m - 1 = k + 1
                  BY <1>6, <3>1
            <3>3. /\ SubSeq(s, m, n) \in Seq(Entries) /\ Len(SubSeq(s, m, n)) = n + 1 - m
                  /\ \A i \in 1 .. n + 1 - m : SubSeq(s, m, n)[i] = s[m - 1 + i]
                  BY <3>2, EndIs
            <3>4. b = SubSeq(s, m, n)
                  BY <2>2, <3>1, <3>2, Zenon
            <3> QED BY <3>2, <3>3, <3>4, Zenon
      <2>4. b = R
            <3>1. Len(b) = Len(R) /\ \A i \in 1 .. Len(b) : b[i] = R[i]
                  BY <1>1, <1>6, <2>3
            <3>2. R \in Seq(Entries)
                  OBVIOUS
            <3> QED BY <2>3, <3>1, <3>2, SeqEqual
      <2> QED BY <1>7, <2>1, <2>2, <2>4
<1> QED BY <1>3, <1>5, <1>8, <1>9, <1>10, <1>11

\* A list with ours in one place, and what is left of it without ours.
LEMMA AroundOurs ==
    ASSUME NEW P \in Seq(Theirs), NEW Q \in Seq(Theirs), NEW M \in Seq(OurNames)
    PROVE  /\ {P, Q, M, P \o M, M \o Q} \subseteq Seq(Entries) /\ P \o M \o Q \in Seq(Entries)
           /\ P \o Q \in Seq(Theirs)
           /\ Foreign(P \o M) = P /\ Foreign(M \o Q) = Q /\ Foreign(P \o M \o Q) = P \o Q
<1>1. P \in Seq(Entries) /\ Q \in Seq(Entries) /\ M \in Seq(Entries)
      BY DEF Entries
<1>2. P \o M \in Seq(Entries) /\ M \o Q \in Seq(Entries) /\ P \o Q \in Seq(Theirs)
      BY <1>1, ConcatProperties
<1>3. P \o M \o Q \in Seq(Entries)
      BY <1>1, <1>2, ConcatProperties
<1>4. Foreign(P) = P /\ Foreign(Q) = Q /\ Foreign(M) = <<>>
      BY ForeignIs
<1>5. \A a, b \in Seq(Entries) : Foreign(a \o b) = Foreign(a) \o Foreign(b)
      BY ForeignIs
<1>6. P \o <<>> = P /\ <<>> \o Q = Q
      BY ConcatEmptySeq
<1>7. Foreign(P \o M) = P
      BY <1>1, <1>4, <1>5, <1>6, Zenon
<1>8. Foreign(M \o Q) = Q
      BY <1>1, <1>4, <1>5, <1>6, Zenon
<1>9. Foreign(P \o M \o Q) = P \o Q
      <2>1. PICK o \in Seq(Entries) : o = P \o M
            BY <1>2
      <2>2. Foreign(o \o Q) = Foreign(o) \o Foreign(Q)
            BY <1>1, <1>5, Zenon
      <2> QED BY <1>4, <1>7, <2>1, <2>2, Zenon
<1> QED BY <1>1, <1>2, <1>3, <1>7, <1>8, <1>9

\* To put ours into a list where it is, is to leave it.
LEMMA PutInAgain ==
    ASSUME kind \in Kinds, NEW P \in Seq(Theirs), NEW Q \in Seq(Theirs), kind = "global" => Q = <<>>
    PROVE  PutIn(P \o Ours \o Q) = P \o Ours \o Q
<1>1. <<"ours">> \in Seq(OurNames) /\ <<"env">> \in Seq(OurNames) /\ <<"ours", "env">> \in Seq(OurNames)
      BY DEF OurNames
<1>0. \A M \in Seq(OurNames) :
         /\ P \o M \in Seq(Entries) /\ P \o M \o Q \in Seq(Entries)
         /\ Foreign(P \o M) = P /\ Foreign(M \o Q) = Q /\ Foreign(P \o M \o Q) = P \o Q
      BY AroundOurs
<1>2. CASE kind = "toml"
      <2>1. Ours = <<"ours", "env">>
            BY <1>2 DEF Ours
      <2>2. <<"env">> \o Q \in Seq(Entries) /\ "ours" \in OurNames
            BY <1>1, AroundOurs DEF OurNames
      <2>3. PICK s \in Seq(Entries) :
               /\ s = P \o <<"ours">> \o (<<"env">> \o Q) /\ ToSet(s) \cap OurNames # {}
               /\ SubSeq(s, 1, FirstOurs(s)) = P \o <<"ours">>
               /\ SubSeq(s, FirstOurs(s), Len(s)) = <<"ours">> \o (<<"env">> \o Q)
            BY <2>2, FirstAfter
      <2>4. <<"ours">> \o (<<"env">> \o Q) = <<"ours", "env">> \o Q
            <3>1. <<"ours">> \in Seq(Entries) /\ <<"env">> \in Seq(Entries) /\ Q \in Seq(Entries)
                  BY <1>1, AroundOurs
            <3>2. (<<"ours">> \o <<"env">>) \o Q = <<"ours">> \o (<<"env">> \o Q)
                  BY <3>1, ConcatAssociative
            <3>3. <<"ours">> \o <<"env">> = <<"ours", "env">>
                  <4>1. Append(<<"ours">>, "env") = <<"ours", "env">>
                        <5>1. PICK o : o = Append(<<"ours">>, "env")
                              OBVIOUS
                        <5>2. <<"ours">> \in Seq(OurNames) /\ Len(<<"ours">>) = 1 /\ <<"ours">>[1] = "ours" /\ "env" \in OurNames
                              BY DEF OurNames
                        <5>3. o \in Seq(OurNames) /\ Len(o) = 2 /\ o[1] = "ours" /\ o[2] = "env"
                              BY <5>1, <5>2
                        <5>4. PICK t : t = <<"ours", "env">>
                              OBVIOUS
                        <5>5. t \in Seq(OurNames) /\ Len(t) = 2 /\ t[1] = "ours" /\ t[2] = "env"
                              BY <5>4 DEF OurNames
                        <5>6. \A i \in 1 .. 2 : o[i] = t[i]
                              <6>1. \A i \in 1 .. 2 : i = 1 \/ i = 2
                                    OBVIOUS
                              <6> QED BY <5>3, <5>5, <6>1
                        <5>7. o = t
                              BY <5>3, <5>5, <5>6, SeqEqual
                        <5> QED BY <5>1, <5>4, <5>7
                  <4>2. <<"ours">> \in Seq(OurNames) /\ "env" \in OurNames
                        BY DEF OurNames
                  <4>3. Append(<<"ours">>, "env") = <<"ours">> \o <<"env">>
                        BY <4>2, AppendIsConcat
                  <4> QED BY <4>1, <4>3, Zenon
            <3> QED BY <3>2, <3>3, Zenon
      <2>5. s = P \o <<"ours", "env">> \o Q
            <3>1. P \in Seq(Entries) /\ <<"ours">> \in Seq(Entries) /\ <<"env">> \o Q \in Seq(Entries)
                  BY <1>1, <2>2, AroundOurs
            <3>2. \A a, b, d \in Seq(Entries) : (a \o b) \o d = a \o (b \o d)
                  <4>1. Joined(Entries)
                        BY JoinedIs
                  <4> QED BY <4>1, Zenon DEF Joined
            <3>3. (P \o <<"ours">>) \o (<<"env">> \o Q) = P \o (<<"ours">> \o (<<"env">> \o Q))
                  BY <3>1, <3>2, Zenon
            <3>4. P \o (<<"ours", "env">> \o Q) = (P \o <<"ours", "env">>) \o Q
                  <4>1. <<"ours", "env">> \in Seq(Entries) /\ Q \in Seq(Entries)
                        BY <1>1, AroundOurs
                  <4> QED BY <3>1, <3>2, <4>1, ZenonT(60)
            <3> QED BY <2>3, <2>4, <3>3, <3>4, Zenon
      <2>6. Foreign(P \o <<"ours">>) = P /\ Foreign(<<"ours", "env">> \o Q) = Q
            BY <1>1, AroundOurs
      <2>7. PutIn(s) = Foreign(SubSeq(s, 1, FirstOurs(s))) \o <<"ours", "env">>
                           \o Foreign(SubSeq(s, FirstOurs(s), Len(s)))
            BY <1>2, <2>3, Zenon DEF PutIn
      <2>8. PutIn(s) = s
            BY <2>3, <2>4, <2>5, <2>6, <2>7, ZenonT(40)
      <2> QED BY <2>1, <2>5, <2>8, Zenon
<1>3. CASE kind # "toml"
      <2>1. Ours = <<"ours">>
            BY <1>3 DEF Ours
      <2>2. PICK s \in Seq(Entries) : s = P \o <<"ours">> \o Q /\ Foreign(s) = P \o Q
            BY <1>0, <1>1, Zenon
      <2>3. CASE kind = "global"
            <3>1. P \o Q = P /\ P \o <<"ours">> \o Q = P \o <<"ours">>
                  <4>1. P \o <<"ours">> \in Seq(Entries)
                        BY <1>1, AroundOurs
                  <4>2. P \o <<>> = P /\ (P \o <<"ours">>) \o <<>> = P \o <<"ours">>
                        BY <4>1, ConcatEmptySeq
                  <4> QED BY <2>3, <4>2
            <3>2. Append(P, "ours") = P \o <<"ours">>
                  <4>1. P \in Seq(Entries) /\ "ours" \in Entries
                        BY <1>1, AroundOurs, NamesApart
                  <4> QED BY <4>1, AppendIsConcat
            <3>3. PutIn(s) = Append(Foreign(s), "ours")
                  BY <2>3, Zenon DEF PutIn
            <3> QED BY <2>1, <2>2, <3>1, <3>2, <3>3, Zenon
      <2>4. CASE kind # "global"
            <3>1. Without(s, {"legacy"}) = s
                  <4>1. P \in Seq(Entries \ {"legacy"}) /\ Q \in Seq(Entries \ {"legacy"})
                           /\ <<"ours">> \in Seq(Entries \ {"legacy"})
                        <5>1. Theirs \subseteq Entries \ {"legacy"} /\ "ours" \in Entries \ {"legacy"}
                              BY NamesApart DEF Entries, OurNames
                        <5> QED BY <5>1
                  <4>2. s \in Seq(Entries \ {"legacy"})
                        <5>1. P \o <<"ours">> \in Seq(Entries \ {"legacy"})
                              BY <4>1, ConcatProperties
                        <5> QED BY <2>2, <4>1, <5>1, ConcatProperties
                  <4>3. Sifted(s, {"legacy"}) = s
                        <5>1. {"legacy"} \cap (Entries \ {"legacy"}) = {}
                              OBVIOUS
                        <5> QED BY <4>2, <5>1, SiftedAll
                  <4> QED BY <4>3, WithoutIs
            <3>2. Contains(s, "ours")
                  <4>1. "ours" \in OurNames /\ <<>> \in Seq(Entries)
                        BY DEF OurNames
                  <4>2. PICK k \in Nat, l \in Nat : k = Len(P) /\ l = Len(Q)
                        OBVIOUS
                  <4>3. PICK o : o = P \o <<"ours">> /\ o \in Seq(Entries)
                        BY <1>0, <1>1, Zenon
                  <4>4. Len(o) = k + 1 /\ o[k + 1] = "ours"
                        BY <4>2, <4>3
                  <4>5. Len(o \o Q) = k + 1 + l /\ (o \o Q)[k + 1] = o[k + 1]
                        BY <4>2, <4>3, <4>4
                  <4>6. k + 1 \in 1 .. Len(s) /\ s[k + 1] = "ours"
                        BY <2>2, <4>3, <4>4, <4>5
                  <4> QED BY <4>6 DEF Contains
            <3>3. PutIn(s) = s
                  BY <1>3, <2>4, <3>1, <3>2, Zenon DEF PutIn
            <3> QED BY <2>1, <2>2, <3>3, Zenon
      <2> QED BY <2>3, <2>4
<1> QED BY <1>2, <1>3

\* A list of nothing but the user's entries.
LEMMA AllTheirs ==
    ASSUME NEW s \in Seq(Entries), ToSet(s) \subseteq Theirs
    PROVE  s \in Seq(Theirs)
<1>1. PICK n \in Nat : n = Len(s)
      OBVIOUS
<1>2. \A i \in 1 .. n : s[i] \in Theirs
      BY <1>1 DEF ToSet
<1>3. s \in [1 .. n -> Theirs]
      BY <1>1, <1>2
<1> QED BY <1>3

\* One list after another has what either has.
LEMMA ToSetOver ==
    ASSUME NEW E, NEW a \in Seq(E), NEW b \in Seq(E)
    PROVE  ToSet(a \o b) = ToSet(a) \cup ToSet(b)
<1>1. \A s : Range(s) = ToSet(s)
      BY DEF Range, ToSet
<1>2. Range(a \o b) = Range(a) \cup Range(b)
      BY RangeConcatenation
<1> QED BY <1>1, <1>2, Zenon

\* Marks go with their lists; a list that has none, and no entry of an older version's,
\* is of the user's entries.
LEMMA MarksAre ==
    /\ \A s \in Seq(Entries) : Marks(s) \in Seq(Entries) /\ ToSet(Marks(s)) = ToSet(s) \ (Theirs \cup {"legacy"})
    /\ \A a, b \in Seq(Entries) : Marks(a \o b) = Marks(a) \o Marks(b)
    /\ \A s \in Seq(Theirs) : Marks(s) = <<>>
    /\ Marks(<<"ours">>) = <<"ours">>
    /\ \A s \in Seq(Entries) : ToSet(s) \subseteq (Theirs \cup OurNames) \ {"legacy"} /\ Marks(s) = <<>> => s \in Seq(Theirs)
<1>0. \A s : Marks(s) = Sifted(s, Theirs \cup {"legacy"})
      BY WithoutIs DEF Marks
<1>1. ASSUME NEW s \in Seq(Entries)
      PROVE  Marks(s) \in Seq(Entries) /\ ToSet(Marks(s)) = ToSet(s) \ (Theirs \cup {"legacy"})
      <2>1. Sifted(s, Theirs \cup {"legacy"}) \in Seq(Entries)
            BY SiftedIs
      <2>2. ToSet(Sifted(s, Theirs \cup {"legacy"})) = ToSet(s) \ (Theirs \cup {"legacy"})
            BY SiftedRest
      <2> QED BY <1>0, <2>1, <2>2
<1>2. ASSUME NEW a \in Seq(Entries), NEW b \in Seq(Entries) PROVE Marks(a \o b) = Marks(a) \o Marks(b)
      <2>1. Sifted(a \o b, Theirs \cup {"legacy"}) = Sifted(a, Theirs \cup {"legacy"}) \o Sifted(b, Theirs \cup {"legacy"})
            BY SiftedOver
      <2> QED BY <1>0, <2>1, Zenon
<1>3. ASSUME NEW s \in Seq(Theirs) PROVE Marks(s) = <<>>
      BY <1>0, SiftedNone
<1>4. Marks(<<"ours">>) = <<"ours">>
      <2>1. <<"ours">> \in Seq({"ours"}) /\ (Theirs \cup {"legacy"}) \cap {"ours"} = {}
            BY ConfigsAssumption
      <2> QED BY <1>0, <2>1, SiftedAll
<1>5. ASSUME NEW s \in Seq(Entries), ToSet(s) \subseteq (Theirs \cup OurNames) \ {"legacy"}, Marks(s) = <<>>
      PROVE  s \in Seq(Theirs)
      <2>1. ToSet(<<>>) = {}
            BY DEF ToSet
      <2>2. ToSet(s) \ (Theirs \cup {"legacy"}) = {}
            BY <1>1, <1>5, <2>1
      <2>3. ToSet(s) \subseteq Theirs
            BY <1>5, <2>2
      <2> QED BY <2>3, AllTheirs
<1> QED BY <1>1, <1>2, <1>3, <1>4, <1>5

\* A list without an older version's entry has the same marks and the same of the user's.
LEMMA RestIs ==
    ASSUME NEW s \in Seq(Entries)
    PROVE  \E rest \in Seq(Entries) :
              /\ rest = Without(s, {"legacy"}) /\ ToSet(rest) \subseteq (Theirs \cup OurNames) \ {"legacy"}
              /\ Marks(rest) = Marks(s) /\ Foreign(rest) = Foreign(s)
<1>1. PICK rest : rest = Without(s, {"legacy"}) /\ rest = Sifted(s, {"legacy"})
      BY WithoutIs
<1>2. rest \in Seq(Entries)
      BY <1>1, SiftedIs
<1>3. ToSet(rest) = ToSet(s) \ {"legacy"}
      BY <1>1, SiftedRest
<1>4. ToSet(s) \subseteq Theirs \cup OurNames
      BY DEF ToSet, Entries
<1>5. Marks(rest) = Marks(s)
      <2>1. {"legacy"} \subseteq Theirs \cup {"legacy"}
            OBVIOUS
      <2>2. Sifted(Sifted(s, {"legacy"}), Theirs \cup {"legacy"}) = Sifted(s, Theirs \cup {"legacy"})
            BY <2>1, SiftedTwice
      <2>3. \A t : Marks(t) = Sifted(t, Theirs \cup {"legacy"})
            BY WithoutIs DEF Marks
      <2> QED BY <1>1, <2>2, <2>3, Zenon
<1>6. Foreign(rest) = Foreign(s)
      <2>1. {"legacy"} \subseteq OurNames
            BY DEF OurNames
      <2>2. Sifted(Sifted(s, {"legacy"}), OurNames) = Sifted(s, OurNames)
            BY <2>1, SiftedTwice
      <2>3. \A t : Foreign(t) = Sifted(t, OurNames)
            BY WithoutIs DEF Foreign
      <2> QED BY <1>1, <2>2, <2>3, Zenon
<1> QED BY <1>1, <1>2, <1>3, <1>4, <1>5, <1>6

\* A list that keeps the place of our entry: what is before it and after it is the user's.
LEMMA KeepsPlace ==
    ASSUME NEW s \in Seq(Entries), Marks(s) \in {<<>>, <<"ours">>},
           ToSet(s) \subseteq (Theirs \cup OurNames) \ {"legacy"}, Contains(s, "ours")
    PROVE  \E P, Q \in Seq(Theirs) : s = P \o <<"ours">> \o Q
<1>1. PICK i \in 1 .. Len(s) : s[i] = "ours"
      BY DEF Contains
<1>2. PICK A \in Seq(Entries), B \in Seq(Entries) : s = A \o <<"ours">> \o B
      <2>1. /\ s = SubSeq(s, 1, i - 1) \o <<s[i]>> \o SubSeq(s, i + 1, Len(s))
            /\ SubSeq(s, 1, i - 1) \in Seq(Entries) /\ SubSeq(s, i + 1, Len(s)) \in Seq(Entries)
            BY SplitAt
      <2>2. PICK A \in Seq(Entries) : A = SubSeq(s, 1, i - 1)
            BY <2>1
      <2>3. PICK B \in Seq(Entries) : B = SubSeq(s, i + 1, Len(s))
            BY <2>1
      <2> QED BY <1>1, <2>1, <2>2, <2>3, Zenon
<1>3. <<"ours">> \in Seq(Entries)
      BY DEF Entries, OurNames
<1>4. PICK o \in Seq(Entries) : o = A \o <<"ours">>
      BY <1>3, ConcatProperties
<1>5. Marks(o \o B) = (Marks(A) \o <<"ours">>) \o Marks(B)
      <2>1. \A a, b \in Seq(Entries) : Marks(a \o b) = Marks(a) \o Marks(b)
            BY MarksAre
      <2>2. Marks(<<"ours">>) = <<"ours">>
            BY MarksAre
      <2>3. Marks(o \o B) = Marks(o) \o Marks(B)
            BY <2>1, Zenon
      <2>4. Marks(o) = Marks(A) \o Marks(<<"ours">>)
            BY <1>3, <1>4, <2>1, Zenon
      <2> QED BY <2>2, <2>3, <2>4, Zenon
<1>6. PICK a \in Seq(Entries), b \in Seq(Entries) : a = Marks(A) /\ b = Marks(B)
      BY MarksAre
<1>7. a = <<>> /\ b = <<>>
      <2>1. PICK k \in Nat, l \in Nat : k = Len(a) /\ l = Len(b)
            OBVIOUS
      <2>2. PICK d : d = a \o <<"ours">>
            OBVIOUS
      <2>3. d \in Seq(Entries) /\ Len(d) = k + 1
            <3>1. Len(<<"ours">>) = 1
                  OBVIOUS
            <3> QED BY <1>3, <2>1, <2>2, <3>1, ConcatProperties
      <2>4. PICK e : e = d \o b
            OBVIOUS
      <2>5. Len(e) = k + 1 + l
            BY <2>1, <2>3, <2>4, ConcatProperties
      <2>6. k = 0 /\ l = 0
            <3>1. e = <<>> \/ e = <<"ours">>
                  BY <1>2, <1>4, <1>5, <1>6, <2>2, <2>4, Zenon
            <3>2. Len(e) = 0 \/ Len(e) = 1
                  BY <3>1
            <3> QED BY <2>1, <2>5, <3>2
      <2> QED BY <2>1, <2>6, EmptySeq
<1>8. ToSet(A) \subseteq ToSet(s) /\ ToSet(B) \subseteq ToSet(s)
      <2>1. ToSet(s) = ToSet(o) \cup ToSet(B) /\ ToSet(o) = ToSet(A) \cup ToSet(<<"ours">>)
            <3>1. \A p, q \in Seq(Entries) : ToSet(p \o q) = ToSet(p) \cup ToSet(q)
                  BY ToSetOver
            <3>2. ToSet(s) = ToSet(o) \cup ToSet(B)
                  BY <1>2, <1>4, <3>1, Zenon
            <3>3. ToSet(o) = ToSet(A) \cup ToSet(<<"ours">>)
                  BY <1>3, <1>4, <3>1, Zenon
            <3> QED BY <3>2, <3>3
      <2> QED BY <2>1
<1>9. A \in Seq(Theirs) /\ B \in Seq(Theirs)
      <2>1. ToSet(A) \subseteq (Theirs \cup OurNames) \ {"legacy"} /\ ToSet(B) \subseteq (Theirs \cup OurNames) \ {"legacy"}
            BY <1>8
      <2>2. Marks(A) = <<>> /\ Marks(B) = <<>>
            BY <1>6, <1>7
      <2> QED BY <2>1, <2>2, MarksAre
<1> QED BY <1>2, <1>9

\* Ours is put in one place, among the user's entries in their order.
LEMMA PutInIs ==
    ASSUME kind \in Kinds, NEW s \in Seq(Entries), Once(s)
    PROVE  \E P, Q \in Seq(Theirs) :
              PutIn(s) = P \o Ours \o Q /\ Foreign(s) = P \o Q /\ (kind = "global" => Q = <<>>)
<1>0. <<>> \in Seq(Theirs) /\ Foreign(s) \in Seq(Theirs)
      BY ForeignIs
<1>1. <<"ours">> \in Seq(Entries) /\ <<"ours", "env">> \in Seq(Entries) /\ "ours" \in Entries
      BY DEF Entries, OurNames
<1>2. \A p \in Seq(Entries) : p \o <<>> = p /\ p \o <<"ours">> = Append(p, "ours")
      BY <1>1, AppendIsConcat, ConcatEmptySeq
<1>3. \A p \in Seq(Theirs) : p \in Seq(Entries)
      BY DEF Entries
<1>4. \A p, q \in Seq(Entries) : p \o q \in Seq(Entries)
      BY ConcatProperties
<1>5. \A p \in Seq(Theirs) : p \o <<"ours">> \o <<>> = Append(p, "ours") /\ p \o <<>> = p
      BY <1>1, <1>2, <1>3, <1>4, Zenon
<1>6. CASE kind = "toml" /\ ToSet(s) \cap OurNames = {}
      <2>1. s \in Seq(Theirs)
            <3>1. ToSet(s) \subseteq Entries
                  BY DEF ToSet
            <3>2. ToSet(s) \subseteq Theirs
                  BY <1>6, <3>1, NamesApart
            <3> QED BY <3>2, AllTheirs
      <2>2. PutIn(s) = s \o <<"ours", "env">> /\ Ours = <<"ours", "env">>
            BY <1>6, Zenon DEF PutIn, Ours
      <2>3. s \o <<"ours", "env">> = s \o <<"ours", "env">> \o <<>> /\ s \o <<>> = s
            BY <1>1, <1>2, <1>4, Zenon
      <2>4. Foreign(s) = s
            BY <2>1, ForeignIs
      <2>5. kind # "global"
            BY <1>6
      <2> QED BY <1>0, <2>1, <2>2, <2>3, <2>4, <2>5, Zenon
<1>7. CASE kind = "toml" /\ ToSet(s) \cap OurNames # {}
      <2>1. PICK n \in 1 .. Len(s) : n = FirstOurs(s) /\ s[n] \in OurNames
            BY <1>7, FirstOursIs
      <2>2. /\ s = SubSeq(s, 1, n - 1) \o <<s[n]>> \o SubSeq(s, n + 1, Len(s))
            /\ SubSeq(s, 1, n) = SubSeq(s, 1, n - 1) \o <<s[n]>>
            /\ SubSeq(s, n, Len(s)) = <<s[n]>> \o SubSeq(s, n + 1, Len(s))
            /\ SubSeq(s, 1, n - 1) \in Seq(Entries) /\ SubSeq(s, n + 1, Len(s)) \in Seq(Entries)
            BY SplitAt
      <2>3. PICK a \in Seq(Entries) : a = SubSeq(s, 1, n - 1)
            BY <2>2
      <2>4. PICK b \in Seq(Entries) : b = SubSeq(s, n + 1, Len(s))
            BY <2>2
      <2>5. PICK m \in Seq(OurNames) : m = <<s[n]>>
            <3>1. \A y \in OurNames : <<y>> \in Seq(OurNames)
                  OBVIOUS
            <3> QED BY <2>1, <3>1, Zenon
      <2>6. m \in Seq(Entries)
            BY <2>5 DEF Entries
      <2>7. PICK c \in Seq(Entries) : c = a \o m
            BY <1>4, <2>6, Zenon
      <2>8. /\ s = c \o b /\ SubSeq(s, 1, n) = c /\ SubSeq(s, n, Len(s)) = m \o b
            BY <2>2, <2>3, <2>4, <2>5, <2>7, Zenon
      <2>9. /\ Foreign(m) = <<>> /\ Foreign(b) \in Seq(Theirs) /\ Foreign(c) \in Seq(Theirs)
            /\ \A p, q \in Seq(Entries) : Foreign(p \o q) = Foreign(p) \o Foreign(q)
            BY ForeignIs
      <2>10. PICK P \in Seq(Theirs) : P = Foreign(c)
            BY <2>9
      <2>11. PICK Q \in Seq(Theirs) : Q = Foreign(b)
            BY <2>9
      <2>12. Foreign(m \o b) = Q
            <3>1. <<>> \o Q = Q
                  BY ConcatEmptySeq
            <3>2. Foreign(m \o b) = Foreign(m) \o Foreign(b)
                  BY <2>6, <2>9, Zenon
            <3> QED BY <2>9, <2>11, <3>1, <3>2, Zenon
      <2>13. Foreign(s) = P \o Q
            <3>1. Foreign(c \o b) = Foreign(c) \o Foreign(b)
                  BY <2>9, Zenon
            <3> QED BY <2>8, <2>10, <2>11, <3>1, Zenon
      <2>14. PutIn(s) = Foreign(SubSeq(s, 1, FirstOurs(s))) \o <<"ours", "env">>
                           \o Foreign(SubSeq(s, FirstOurs(s), Len(s)))
            BY <1>7, Zenon DEF PutIn
      <2>15. Ours = <<"ours", "env">>
            BY <1>7 DEF Ours
      <2>16. PutIn(s) = P \o Ours \o Q
            BY <2>1, <2>8, <2>10, <2>12, <2>14, <2>15, Zenon
      <2>17. kind # "global"
            BY <1>7
      <2> QED BY <2>13, <2>16, <2>17, Zenon
<1>8. CASE kind = "global"
      <2>1. PutIn(s) = Append(Foreign(s), "ours") /\ Ours = <<"ours">>
            BY <1>8, Zenon DEF PutIn, Ours
      <2>2. PICK P \in Seq(Theirs) : P = Foreign(s)
            BY <1>0
      <2>3. P \o <<"ours">> \o <<>> = Append(P, "ours") /\ P \o <<>> = P
            BY <1>5
      <2> QED BY <1>0, <2>1, <2>2, <2>3, Zenon
<1>9. CASE kind \in {"json", "inputs", "hook"}
      <2>1. PICK rest \in Seq(Entries) :
               /\ rest = Without(s, {"legacy"}) /\ ToSet(rest) \subseteq (Theirs \cup OurNames) \ {"legacy"}
               /\ Marks(rest) = Marks(s) /\ Foreign(rest) = Foreign(s)
            BY RestIs
      <2>2. Marks(rest) \in {<<>>, <<"ours">>}
            BY <1>9, <2>1 DEF Once
      <2>3. Ours = <<"ours">> /\ kind # "toml" /\ kind # "global"
            BY <1>9 DEF Ours
      <2>4. PutIn(s) = IF Contains(rest, "ours") THEN rest ELSE Append(rest, "ours")
            BY <2>1, <2>3, Zenon DEF PutIn
      <2>5. CASE Contains(rest, "ours")
            <3>1. PICK P \in Seq(Theirs), Q \in Seq(Theirs) : rest = P \o <<"ours">> \o Q
                  BY <2>1, <2>2, <2>5, KeepsPlace
            <3>2. Foreign(P \o <<"ours">> \o Q) = P \o Q
                  <4>1. <<"ours">> \in Seq(OurNames)
                        BY DEF OurNames
                  <4> QED BY <4>1, AroundOurs
            <3> QED BY <2>1, <2>3, <2>4, <2>5, <3>1, <3>2, Zenon
      <2>6. CASE ~Contains(rest, "ours")
            <3>1. Marks(rest) = <<>>
                  <4>1. SUFFICES ASSUME Marks(rest) = <<"ours">> PROVE FALSE
                        BY <2>2
                  <4>2. "ours" \in ToSet(<<"ours">>)
                        BY DEF ToSet
                  <4>3. ToSet(Marks(rest)) = ToSet(rest) \ (Theirs \cup {"legacy"})
                        BY MarksAre
                  <4>4. "ours" \in ToSet(rest)
                        BY <4>1, <4>2, <4>3
                  <4>5. Contains(rest, "ours")
                        BY <4>4 DEF Contains, ToSet
                  <4> QED BY <2>6, <4>5
            <3>2. rest \in Seq(Theirs)
                  BY <2>1, <3>1, MarksAre
            <3>3. Foreign(rest) = rest
                  BY <3>2, ForeignIs
            <3>4. rest \o <<"ours">> \o <<>> = Append(rest, "ours") /\ rest \o <<>> = rest
                  BY <1>5, <3>2
            <3> QED BY <1>0, <2>1, <2>3, <2>4, <2>6, <3>2, <3>3, <3>4, Zenon
      <2> QED BY <2>5, <2>6
<1> QED BY <1>6, <1>7, <1>8, <1>9, ConfigsAssumption

\* In such a list each of ours is once, and an older version's is not.
LEMMA OursCounts ==
    ASSUME NEW P \in Seq(Theirs), NEW Q \in Seq(Theirs), NEW x \in OurNames
    PROVE  \E s : /\ s = P \o Ours \o Q
                 /\ Cardinality({i \in DOMAIN s : s[i] = x}) = IF x = "ours" \/ (x = "env" /\ kind = "toml") THEN 1 ELSE 0
<1>0. PICK s : s = P \o Ours \o Q
      OBVIOUS
<1> SUFFICES Cardinality({i \in DOMAIN s : s[i] = x}) = IF x = "ours" \/ (x = "env" /\ kind = "toml") THEN 1 ELSE 0
    BY <1>0, Zenon
<1>1. PICK k \in Nat, l \in Nat : k = Len(P) /\ l = Len(Q)
      OBVIOUS
<1>2. P \in Seq(Entries) /\ Q \in Seq(Entries)
      BY DEF Entries
<1>3. \A y : y \in OurNames => y \notin Theirs
      BY NamesApart
<1>4. x \in {"ours", "env", "legacy"}
      BY DEF OurNames
<1>5. \A i \in 1 .. k : P[i] \in Theirs
      BY <1>1
<1>6. PICK M \in Seq(Entries), m \in Nat : M = Ours /\ m = Len(M)
      <2>1. <<"ours", "env">> \in Seq(Entries) /\ <<"ours">> \in Seq(Entries)
            BY DEF Entries, OurNames
      <2>2. PICK M \in Seq(Entries) : M = Ours
            BY <2>1 DEF Ours
      <2>3. Len(M) \in Nat
            OBVIOUS
      <2> QED BY <2>2, <2>3, Zenon
<1>7. PICK o : o = P \o M
      OBVIOUS
<1>8. o \in Seq(Entries) /\ Len(o) = k + m /\ \A i \in 1 .. k + m : o[i] = IF i <= k THEN P[i] ELSE M[i - k]
      BY <1>1, <1>2, <1>6, <1>7, ConcatProperties
<1>9. s = o \o Q
      BY <1>0, <1>6, <1>7
<1>10. DOMAIN s = 1 .. k + m + l /\ \A i \in 1 .. k + m + l : s[i] = IF i <= k + m THEN o[i] ELSE Q[i - (k + m)]
      <2>1. /\ o \o Q \in Seq(Entries) /\ Len(o \o Q) = Len(o) + Len(Q)
            /\ \A i \in 1 .. Len(o) + Len(Q) : (o \o Q)[i] = IF i <= Len(o) THEN o[i] ELSE Q[i - Len(o)]
            BY <1>2, <1>8, ConcatProperties
      <2>2. Len(o) + Len(Q) = k + m + l /\ Len(o) = k + m
            BY <1>1, <1>8
      <2> QED BY <1>9, <2>1, <2>2
<1>11. \A i \in 1 .. k : s[i] = P[i]
      BY <1>8, <1>10
<1>12. \A i \in 1 .. m : s[k + i] = M[i]
      <2>1. \A i \in 1 .. m : k + i \in 1 .. k + m + l /\ k + i \in 1 .. k + m /\ ~(k + i <= k) /\ k + i <= k + m /\ k + i - k = i
            OBVIOUS
      <2> QED BY <1>8, <1>10, <2>1
<1>13. \A i \in k + m + 1 .. k + m + l : s[i] \in Theirs
      <2>1. \A i \in k + m + 1 .. k + m + l : i \in 1 .. k + m + l /\ ~(i <= k + m) /\ i - (k + m) \in 1 .. l
            OBVIOUS
      <2>2. \A i \in 1 .. l : Q[i] \in Theirs
            BY <1>1
      <2> QED BY <1>10, <2>1, <2>2
<1>14. CASE kind = "toml"
      <2>1. m = 2 /\ M[1] = "ours" /\ M[2] = "env"
            BY <1>6, <1>14 DEF Ours
      <2>2. 1 \in 1 .. m /\ 2 \in 1 .. m
            BY <2>1
      <2>3. DOMAIN s = 1 .. k + 2 + l
            BY <1>10, <2>1
      <2>4. \A i \in k + 3 .. k + 2 + l : s[i] \in Theirs
            <3>1. k + m + 1 = k + 3 /\ k + m + l = k + 2 + l
                  BY <2>1
            <3> QED BY <1>13, <3>1, Zenon
      <2>5. s[k + 1] = "ours" /\ s[k + 2] = "env" /\ k + 1 \in DOMAIN s /\ k + 2 \in DOMAIN s
            <3>1. s[k + 1] = M[1] /\ s[k + 2] = M[2]
                  BY <1>12, <2>2, Zenon
            <3>2. k + 1 \in DOMAIN s /\ k + 2 \in DOMAIN s
                  BY <2>3
            <3> QED BY <2>1, <3>1, <3>2
      <2>6. \A i \in DOMAIN s : i # k + 1 /\ i # k + 2 => s[i] # x
            <3>1. \A i \in 1 .. k : s[i] # x
                  BY <1>3, <1>5, <1>11
            <3>2. \A i \in k + 3 .. k + 2 + l : s[i] # x
                  BY <1>3, <2>4
            <3>3. \A i \in DOMAIN s : i \in 1 .. k \/ i = k + 1 \/ i = k + 2 \/ i \in k + 3 .. k + 2 + l
                  BY <2>3
            <3> QED BY <3>1, <3>2, <3>3, Zenon
      <2>7. CASE x = "ours"
            <3>1. \A i \in DOMAIN s : (s[i] = x) = (i = k + 1)
                  BY <2>5, <2>6, <2>7
            <3>2. {i \in DOMAIN s : s[i] = x} = {k + 1}
                  BY <2>5, <3>1
            <3> QED BY <2>7, <3>2, FS_Singleton
      <2>8. CASE x = "env"
            <3>1. \A i \in DOMAIN s : (s[i] = x) = (i = k + 2)
                  BY <2>5, <2>6, <2>8
            <3>2. {i \in DOMAIN s : s[i] = x} = {k + 2}
                  BY <2>5, <3>1
            <3> QED BY <1>14, <2>8, <3>2, FS_Singleton
      <2>9. CASE x = "legacy"
            <3>1. \A i \in DOMAIN s : s[i] # x
                  BY <2>5, <2>6, <2>9
            <3>2. {i \in DOMAIN s : s[i] = x} = {}
                  BY <2>5, <3>1
            <3> QED BY <2>9, <3>2, FS_EmptySet
      <2> QED BY <1>4, <2>7, <2>8, <2>9
<1>15. CASE kind # "toml"
      <2>1. m = 1 /\ M[1] = "ours"
            BY <1>6, <1>15 DEF Ours
      <2>2. 1 \in 1 .. m
            BY <2>1
      <2>3. DOMAIN s = 1 .. k + 1 + l
            BY <1>10, <2>1
      <2>4. \A i \in k + 2 .. k + 1 + l : s[i] \in Theirs
            <3>1. k + m + 1 = k + 2 /\ k + m + l = k + 1 + l
                  BY <2>1
            <3> QED BY <1>13, <3>1, Zenon
      <2>5. s[k + 1] = "ours" /\ k + 1 \in DOMAIN s
            <3>1. s[k + 1] = M[1]
                  BY <1>12, <2>2, Zenon
            <3>2. k + 1 \in DOMAIN s
                  BY <2>3
            <3> QED BY <2>1, <3>1, <3>2
      <2>6. \A i \in DOMAIN s : i # k + 1 => s[i] # x
            <3>1. \A i \in 1 .. k : s[i] # x
                  BY <1>3, <1>5, <1>11
            <3>2. \A i \in k + 2 .. k + 1 + l : s[i] # x
                  BY <1>3, <2>4
            <3>3. \A i \in DOMAIN s : i \in 1 .. k \/ i = k + 1 \/ i \in k + 2 .. k + 1 + l
                  BY <2>3
            <3> QED BY <3>1, <3>2, <3>3, Zenon
      <2>7. CASE x = "ours"
            <3>1. \A i \in DOMAIN s : (s[i] = x) = (i = k + 1)
                  BY <2>5, <2>6, <2>7
            <3>2. {i \in DOMAIN s : s[i] = x} = {k + 1}
                  BY <2>5, <3>1
            <3> QED BY <2>7, <3>2, FS_Singleton
      <2>8. CASE x # "ours"
            <3>1. \A i \in DOMAIN s : s[i] # x
                  BY <2>5, <2>6, <2>8
            <3>2. {i \in DOMAIN s : s[i] = x} = {}
                  BY <2>5, <3>1
            <3> QED BY <1>15, <2>8, <3>2, FS_EmptySet
      <2> QED BY <2>7, <2>8
<1> QED BY <1>14, <1>15

\* Once our entry is in a list, it is there once, the user's are those that were there,
\* and to put it in again changes nothing.
LEMMA PutInKeeps ==
    ASSUME kind \in Kinds, NEW s \in Seq(Entries), Once(s)
    PROVE  \E t \in Seq(Entries) :
              /\ t = PutIn(s) /\ PutIn(t) = t /\ Foreign(t) = Foreign(s) /\ Once(t)
              /\ ToSet(t) \cap Theirs = ToSet(s) \cap Theirs
              /\ \A x \in OurNames : Cardinality({i \in DOMAIN t : t[i] = x}) =
                     (IF x = "ours" \/ (x = "env" /\ kind = "toml") THEN 1 ELSE 0)
<1>1. PICK P \in Seq(Theirs), Q \in Seq(Theirs) :
         PutIn(s) = P \o Ours \o Q /\ Foreign(s) = P \o Q /\ (kind = "global" => Q = <<>>)
      BY PutInIs
<1>2. Ours \in Seq(OurNames)
      <2>1. <<"ours", "env">> \in Seq(OurNames) /\ <<"ours">> \in Seq(OurNames)
            BY DEF OurNames
      <2> QED BY <2>1 DEF Ours
<1>3. PICK t \in Seq(Entries) : t = P \o Ours \o Q /\ Foreign(t) = P \o Q
      <2>1. \A M \in Seq(OurNames) : P \o M \o Q \in Seq(Entries) /\ Foreign(P \o M \o Q) = P \o Q
            BY AroundOurs
      <2> QED BY <1>2, <2>1, Zenon
<1>4. PutIn(t) = t
      BY <1>1, <1>3, PutInAgain
<1>5. ToSet(t) \cap Theirs = ToSet(s) \cap Theirs
      <2>1. ToSet(Foreign(t)) = ToSet(t) \cap Theirs /\ ToSet(Foreign(s)) = ToSet(s) \cap Theirs
            BY ForeignIs
      <2> QED BY <1>1, <1>3, <2>1
<1>6. Once(t)
      <2>1. SUFFICES ASSUME kind \in {"json", "inputs", "hook"} PROVE Marks(t) \in {<<>>, <<"ours">>}
            BY DEF Once
      <2>2. Ours = <<"ours">>
            BY <2>1 DEF Ours
      <2>3. P \in Seq(Entries) /\ Q \in Seq(Entries) /\ <<"ours">> \in Seq(Entries)
            BY DEF Entries, OurNames
      <2>4. PICK o \in Seq(Entries) : o = P \o <<"ours">>
            BY <2>3, ConcatProperties
      <2>5. \A a, b \in Seq(Entries) : Marks(a \o b) = Marks(a) \o Marks(b)
            BY MarksAre
      <2>6. Marks(P) = <<>> /\ Marks(Q) = <<>> /\ Marks(<<"ours">>) = <<"ours">>
            BY MarksAre
      <2>7. <<>> \o <<"ours">> = <<"ours">> /\ <<"ours">> \o <<>> = <<"ours">>
            BY <2>3, ConcatEmptySeq
      <2>8. Marks(o) = <<"ours">>
            BY <2>3, <2>4, <2>5, <2>6, <2>7, ZenonT(40)
      <2>9. Marks(o \o Q) = <<"ours">>
            BY <2>3, <2>5, <2>6, <2>7, <2>8, Zenon
      <2>10. t = o \o Q
            BY <1>3, <2>2, <2>4, Zenon
      <2> QED BY <2>9, <2>10
<1>7. \A x \in OurNames : Cardinality({i \in DOMAIN t : t[i] = x}) =
                     (IF x = "ours" \/ (x = "env" /\ kind = "toml") THEN 1 ELSE 0)
      <2> SUFFICES ASSUME NEW x \in OurNames
                   PROVE  Cardinality({i \in DOMAIN t : t[i] = x}) =
                              (IF x = "ours" \/ (x = "env" /\ kind = "toml") THEN 1 ELSE 0)
          OBVIOUS
      <2>1. PICK u : /\ u = P \o Ours \o Q
                     /\ Cardinality({i \in DOMAIN u : u[i] = x}) =
                            (IF x = "ours" \/ (x = "env" /\ kind = "toml") THEN 1 ELSE 0)
            BY OursCounts
      <2> QED BY <1>3, <2>1, Zenon
<1> QED BY <1>1, <1>3, <1>4, <1>5, <1>6, <1>7, Zenon

\* A file with other entries.
LEMMA FileWith ==
    ASSUME NEW f \in Files, NEW x, NEW y, NEW g, g = [f EXCEPT !.servers = x, !.inputs = y]
    PROVE  g = [form |-> f.form, servers |-> x, inputs |-> y]
<1>1. PICK a, b, c : f = [form |-> a, servers |-> b, inputs |-> c]
      BY DEF Files
<1> QED BY <1>1

\* What a command makes of a file, field by field.
LEMMA Remade ==
    ASSUME NEW f \in Files
    PROVE  /\ Connected(f) = [form |-> f.form, servers |-> PutIn(f.servers),
                              inputs |-> IF kind = "inputs" THEN Append(Foreign(f.inputs), "ours") ELSE f.inputs]
           /\ Disconnected(f) = [form |-> f.form, servers |-> Foreign(f.servers), inputs |-> Foreign(f.inputs)]
<1>1. PICK u : u = IF kind = "inputs" THEN Append(Foreign(f.inputs), "ours") ELSE f.inputs
      OBVIOUS
<1>2. PICK g : g = Connected(f)
      OBVIOUS
<1>3. g = [f EXCEPT !.servers = PutIn(f.servers), !.inputs = u]
      BY <1>1, <1>2 DEF Connected
<1>4. g = [form |-> f.form, servers |-> PutIn(f.servers), inputs |-> u]
      BY <1>3, FileWith
<1>5. PICK h : h = Disconnected(f)
      OBVIOUS
<1>6. h = [f EXCEPT !.servers = Foreign(f.servers), !.inputs = Foreign(f.inputs)]
      BY <1>5 DEF Disconnected
<1>7. h = [form |-> f.form, servers |-> Foreign(f.servers), inputs |-> Foreign(f.inputs)]
      BY <1>6, FileWith
<1> QED BY <1>1, <1>2, <1>4, <1>5, <1>7, Zenon

\* A file once it is connected.
LEMMA ConnectedIs ==
    ASSUME kind \in Kinds, NEW f \in Files, Once(f.servers)
    PROVE  \E g \in Files :
              /\ g = Connected(f) /\ Connected(g) = g /\ Disconnected(g) = Disconnected(f) /\ Once(g.servers)
              /\ Held(g) = Held(f) /\ g.form = f.form
              /\ \A x \in OurNames : Cardinality({i \in DOMAIN g.servers : g.servers[i] = x}) =
                     (IF x = "ours" \/ (x = "env" /\ kind = "toml") THEN 1 ELSE 0)
<1>1. f.form \in {"fine", "odd"} /\ f.servers \in Seq(Entries) /\ f.inputs \in Seq(Entries)
      /\ f = [form |-> f.form, servers |-> f.servers, inputs |-> f.inputs]
      BY DEF Files
<1>2. PICK t \in Seq(Entries) :
         /\ t = PutIn(f.servers) /\ PutIn(t) = t /\ Foreign(t) = Foreign(f.servers) /\ Once(t)
         /\ ToSet(t) \cap Theirs = ToSet(f.servers) \cap Theirs
         /\ \A x \in OurNames : Cardinality({i \in DOMAIN t : t[i] = x}) =
                (IF x = "ours" \/ (x = "env" /\ kind = "toml") THEN 1 ELSE 0)
      BY <1>1, PutInKeeps
<1>3. PICK u : u = IF kind = "inputs" THEN Append(Foreign(f.inputs), "ours") ELSE f.inputs
      OBVIOUS
<1>4. PICK w \in Seq(Theirs) : w = Foreign(f.inputs)
      BY <1>1, ForeignIs
<1>5. w \in Seq(Entries) /\ "ours" \in Entries /\ <<"ours">> \in Seq(OurNames) /\ <<>> \in Seq(Theirs)
      BY DEF Entries, OurNames
<1>6. u \in Seq(Entries)
      BY <1>1, <1>3, <1>4, <1>5
<1>7. Foreign(u) = w /\ (kind = "inputs" => u = Append(w, "ours"))
      <2>1. Append(w, "ours") = w \o <<"ours">>
            BY <1>5, AppendIsConcat
      <2>2. Foreign(w \o <<"ours">>) = w
            BY <1>5, AroundOurs
      <2>3. CASE kind = "inputs"
            <3>1. u = Append(w, "ours")
                  BY <1>3, <1>4, <2>3
            <3> QED BY <2>1, <2>2, <3>1
      <2>4. CASE kind # "inputs"
            BY <1>3, <1>4, <2>4
      <2> QED BY <2>3, <2>4
<1>8. PICK g : g = [form |-> f.form, servers |-> t, inputs |-> u]
      OBVIOUS
<1>9. g \in Files /\ g.form = f.form /\ g.servers = t /\ g.inputs = u
      BY <1>1, <1>6, <1>8 DEF Files
<1>10. g = Connected(f)
      <2>1. Connected(f) = [form |-> f.form, servers |-> PutIn(f.servers),
                            inputs |-> IF kind = "inputs" THEN Append(Foreign(f.inputs), "ours") ELSE f.inputs]
            BY Remade
      <2> QED BY <1>2, <1>3, <1>8, <2>1, Zenon
<1>11. Connected(g) = g
      <2>1. Connected(g) = [form |-> f.form, servers |-> PutIn(t),
                            inputs |-> IF kind = "inputs" THEN Append(Foreign(u), "ours") ELSE u]
            BY <1>9, Remade
      <2>2. (IF kind = "inputs" THEN Append(Foreign(u), "ours") ELSE u) = u
            BY <1>7, Zenon
      <2> QED BY <1>2, <1>8, <2>1, <2>2, Zenon
<1>12. Disconnected(g) = Disconnected(f)
      <2>1. Disconnected(g) = [form |-> f.form, servers |-> Foreign(t), inputs |-> Foreign(u)]
            BY <1>9, Remade
      <2>2. Disconnected(f) = [form |-> f.form, servers |-> Foreign(f.servers), inputs |-> Foreign(f.inputs)]
            BY Remade
      <2> QED BY <1>2, <1>4, <1>7, <2>1, <2>2, Zenon
<1>13. Held(g) = Held(f)
      BY <1>2, <1>9 DEF Held
<1> QED BY <1>2, <1>9, <1>10, <1>11, <1>12, <1>13

\* A file once it is disconnected.
LEMMA DisconnectedIs ==
    ASSUME NEW f \in Files
    PROVE  \E g \in Files : g = Disconnected(f) /\ Once(g.servers) /\ Held(g) = Held(f) /\ ~HasOurs(g)
<1>1. f.form \in {"fine", "odd"} /\ f.servers \in Seq(Entries) /\ f.inputs \in Seq(Entries)
      /\ f = [form |-> f.form, servers |-> f.servers, inputs |-> f.inputs]
      BY DEF Files
<1>2. PICK t \in Seq(Theirs) : t = Foreign(f.servers) /\ ToSet(t) = ToSet(f.servers) \cap Theirs
      BY <1>1, ForeignIs
<1>3. PICK u \in Seq(Theirs) : u = Foreign(f.inputs) /\ ToSet(u) = ToSet(f.inputs) \cap Theirs
      BY <1>1, ForeignIs
<1>4. t \in Seq(Entries) /\ u \in Seq(Entries)
      BY DEF Entries
<1>5. PICK g : g = [form |-> f.form, servers |-> t, inputs |-> u]
      OBVIOUS
<1>6. g \in Files /\ g.servers = t /\ g.inputs = u
      BY <1>1, <1>4, <1>5 DEF Files
<1>7. g = Disconnected(f)
      <2>1. Disconnected(f) = [form |-> f.form, servers |-> Foreign(f.servers), inputs |-> Foreign(f.inputs)]
            BY Remade
      <2> QED BY <1>2, <1>3, <1>5, <2>1, Zenon
<1>8. Once(t)
      BY MarksAre DEF Once
<1>9. Held(g) = Held(f) /\ ~HasOurs(g)
      BY <1>2, <1>3, <1>6, NamesApart DEF Held, HasOurs
<1> QED BY <1>6, <1>7, <1>8, <1>9

\* A list with an entry put in somewhere.
LEMMA Inserted ==
    ASSUME kind \in Kinds, NEW s \in Seq(Entries), Once(s), NEW n \in 0 .. Len(s), NEW x \in Theirs
    PROVE  \E t \in Seq(Entries) :
              /\ t = SubSeq(s, 1, n) \o <<x>> \o SubSeq(s, n + 1, Len(s))
              /\ ToSet(t) = ToSet(s) \cup {x} /\ Once(t)
<1>1. PICK k \in Nat : k = Len(s)
      OBVIOUS
<1>2. SubSeq(s, 1, n) \in Seq(Entries) /\ SubSeq(s, n + 1, Len(s)) \in Seq(Entries)
      BY <1>1
<1>3. PICK a \in Seq(Entries), b \in Seq(Entries) : a = SubSeq(s, 1, n) /\ b = SubSeq(s, n + 1, Len(s))
      BY <1>2
<1>4. s = a \o b
      <2>1. SubSeq(s, 1, n) \o SubSeq(s, n + 1, Len(s)) = SubSeq(s, 1, Len(s))
            <3>1. 1 \in 1 .. Len(s) + 1 /\ n \in 1 - 1 .. Len(s) /\ Len(s) \in n .. Len(s)
                  BY <1>1
            <3> QED BY <3>1, ConcatAdjacentSubSeq
      <2>2. SubSeq(s, 1, Len(s)) = s
            BY SubSeqFull
      <2> QED BY <1>3, <2>1, <2>2, Zenon
<1>5. PICK m \in Seq(Theirs) : m = <<x>>
      <2>1. <<x>> \in Seq(Theirs)
            OBVIOUS
      <2> QED BY <2>1
<1>6. m \in Seq(Entries)
      BY DEF Entries
<1>7. \A p, q \in Seq(Entries) : p \o q \in Seq(Entries) /\ ToSet(p \o q) = ToSet(p) \cup ToSet(q)
                                   /\ Marks(p \o q) = Marks(p) \o Marks(q) /\ Marks(p) \in Seq(Entries)
      <2>1. \A p, q \in Seq(Entries) : p \o q \in Seq(Entries)
            BY ConcatProperties
      <2>2. \A p, q \in Seq(Entries) : ToSet(p \o q) = ToSet(p) \cup ToSet(q)
            BY ToSetOver
      <2>3. \A p, q \in Seq(Entries) : Marks(p \o q) = Marks(p) \o Marks(q) /\ Marks(p) \in Seq(Entries)
            BY MarksAre
      <2> QED BY <2>1, <2>2, <2>3, Zenon
<1>8. PICK o \in Seq(Entries) : o = a \o m
      BY <1>6, <1>7, Zenon
<1>9. PICK t \in Seq(Entries) : t = o \o b
      BY <1>7, Zenon
<1>10. ToSet(t) = ToSet(s) \cup {x}
      <2>1. ToSet(t) = ToSet(o) \cup ToSet(b) /\ ToSet(o) = ToSet(a) \cup ToSet(m) /\ ToSet(s) = ToSet(a) \cup ToSet(b)
            BY <1>4, <1>6, <1>7, <1>8, <1>9, Zenon
      <2>2. ToSet(m) = {x}
            BY <1>5 DEF ToSet
      <2> QED BY <2>1, <2>2
<1>11. Marks(t) = Marks(s)
      <2>1. Marks(o) = Marks(a) \o Marks(m) /\ Marks(t) = Marks(o) \o Marks(b) /\ Marks(s) = Marks(a) \o Marks(b)
            BY <1>4, <1>6, <1>7, <1>8, <1>9, Zenon
      <2>2. Marks(m) = <<>>
            BY MarksAre
      <2>3. Marks(a) \in Seq(Entries)
            BY <1>7, Zenon
      <2>4. Marks(a) \o <<>> = Marks(a)
            BY <2>3, ConcatEmptySeq
      <2> QED BY <2>1, <2>2, <2>4, Zenon
<1>12. t = SubSeq(s, 1, n) \o <<x>> \o SubSeq(s, n + 1, Len(s))
      BY <1>3, <1>5, <1>8, <1>9, Zenon
<1> QED BY <1>10, <1>11, <1>12 DEF Once

\* An empty file.
LEMMA EmptyIs ==
    /\ Empty \in Files /\ [Empty EXCEPT !.form = "odd"] \in Files
    /\ \A f \in {Empty, [Empty EXCEPT !.form = "odd"]} : Held(f) = {} /\ ~HasOurs(f) /\ Once(f.servers)
    /\ Resting \in Commanded /\ Resting.step = "rest" /\ Resting.read = Empty /\ Resting.cmd = "none"
<1>1. <<>> \in Seq(Entries) /\ ToSet(<<>>) = {} /\ <<>> \in Seq(Theirs)
      BY DEF ToSet
<1>2. Once(<<>>)
      BY <1>1, MarksAre DEF Once
<1>3. Empty \in Files /\ Empty.servers = <<>> /\ Empty.inputs = <<>>
      BY <1>1 DEF Empty, Files
<1>4. PICK odd : odd = [Empty EXCEPT !.form = "odd"]
      OBVIOUS
<1>5. odd \in Files /\ odd.servers = <<>> /\ odd.inputs = <<>>
      BY <1>1, <1>4 DEF Empty, Files
<1>6. Held(Empty) = {} /\ Held(odd) = {} /\ ~HasOurs(Empty) /\ ~HasOurs(odd)
      BY <1>1, <1>3, <1>5 DEF Held, HasOurs
<1>7. Resting \in Commanded /\ Resting.step = "rest" /\ Resting.read = Empty /\ Resting.cmd = "none"
      BY <1>3 DEF Resting, Commanded, Steps
<1> QED BY <1>2, <1>3, <1>4, <1>5, <1>6, <1>7

\* Before any command.
LEMMA ConfigsStart == ConfigsInit => ConfigsInv
<1> SUFFICES ASSUME ConfigsInit PROVE ConfigsInv
    OBVIOUS
<1>1. PICK had \in {<<>>} \cup {<<x>> : x \in Theirs \cup {"legacy"}} :
         configFile = [Empty EXCEPT !.servers = had] /\ (kind \in {"hook", "global"} => ~Contains(had, "legacy"))
      BY DEF ConfigsInit
<1>2. had \in Seq(Entries) /\ had \in Seq(Theirs \cup {"legacy"})
      <2>1. Theirs \cup {"legacy"} \subseteq Entries
            BY DEF Entries, OurNames
      <2>2. \A x \in Theirs \cup {"legacy"} : <<x>> \in Seq(Theirs \cup {"legacy"})
            OBVIOUS
      <2>3. <<>> \in Seq(Theirs \cup {"legacy"})
            OBVIOUS
      <2>4. had \in Seq(Theirs \cup {"legacy"})
            BY <1>1, <2>2, <2>3, Zenon
      <2> QED BY <2>1, <2>4, SeqMonotonic
<1>3. configFile \in Files /\ configFile.servers = had /\ configFile.inputs = <<>>
      <2>1. configFile = [form |-> "fine", servers |-> had, inputs |-> <<>>]
            BY <1>1 DEF Empty
      <2>2. <<>> \in Seq(Entries)
            OBVIOUS
      <2> QED BY <1>2, <2>1, <2>2 DEF Files
<1>4. \A p \in Writers : writer[p] = Resting
      BY DEF ConfigsInit
<1>5. ConfigsTyped
      BY <1>3, EmptyIs DEF ConfigsInit, ConfigsTyped, Commanded, Steps
<1>6. Saving
      <2>1. put = Held(configFile)
            BY DEF ConfigsInit, Held
      <2> QED BY <1>4, <2>1, EmptyIs DEF Saving, AtStep
<1>7. Scripted
      <2>1. SUFFICES ASSUME kind = "hook" PROVE ~HasOurs(configFile)
            BY <1>4, EmptyIs DEF Scripted
      <2>2. had = <<>> \/ \E x \in Theirs : had = <<x>>
            <3>1. ASSUME had = <<"legacy">> PROVE FALSE
                  BY <1>1, <2>1, <3>1 DEF Contains
            <3> QED BY <1>1, <3>1
      <2>3. ToSet(had) \subseteq Theirs /\ ToSet(<<>>) = {}
            BY <2>2 DEF ToSet
      <2> QED BY <1>3, <2>3, NamesApart DEF HasOurs
<1>8. Single
      <2>1. Marks(had) = <<>>
            <3>1. Sifted(had, Theirs \cup {"legacy"}) = <<>>
                  BY <1>2, SiftedNone
            <3> QED BY <3>1, WithoutIs DEF Marks
      <2> QED BY <1>3, <1>4, <2>1, EmptyIs DEF Single, Once
<1> QED BY <1>5, <1>6, <1>7, <1>8 DEF ConfigsInv

\* A writer's step: what it must leave right, for all to be right.
LEMMA WriterSteps ==
    ASSUME ConfigsInv, NEW p \in Writers, NEW w \in Commanded, writer' = [writer EXCEPT ![p] = w],
           UNCHANGED <<kind, put, raced>>,
           configFile' \in Files, script' \in {script, "ours"}, backups \subseteq backups', backups' \subseteq Files,
           Held(configFile') \subseteq put, Held(w.read) \subseteq put,
           Once(configFile'.servers), Once(w.read.servers),
           configFile' = configFile \/ put \subseteq Saved,
           w.step = "write" => Held(configFile') \subseteq Saved',
           kind = "hook" /\ configFile' # configFile /\ HasOurs(configFile') => script' # "none",
           kind = "hook" /\ w.cmd = "connect" /\ w.step \in {"copy", "write"} => script' = "ours"
    PROVE  ConfigsInv'
<1>1. writer \in [Writers -> Commanded]
      BY DEF ConfigsInv, ConfigsTyped
<1>2. writer' \in [Writers -> Commanded] /\ \A q \in Writers : writer'[q] = IF q = p THEN w ELSE writer[q]
      BY <1>1
<1>3. ConfigsTyped'
      BY <1>2 DEF ConfigsInv, ConfigsTyped
<1>4. Saved \subseteq Saved'
      BY DEF Saved
<1>5. /\ Held(configFile) \subseteq put /\ put \subseteq Saved \cup Held(configFile)
      /\ \A q \in Writers : Held(writer[q].read) \subseteq put
      /\ \A q \in Writers : writer[q].step = "write" => Held(configFile) \subseteq Saved
      BY DEF ConfigsInv, Saving, AtStep
<1>6. Saving'
      <2>1. put \subseteq Saved' \cup Held(configFile')
            BY <1>4, <1>5
      <2>2. \A q \in Writers : Held(writer'[q].read) \subseteq put
            BY <1>2, <1>5
      <2>3. \A q \in Writers : writer'[q].step = "write" => Held(configFile') \subseteq Saved'
            <3>1. SUFFICES ASSUME NEW q \in Writers, q # p, writer[q].step = "write"
                           PROVE  Held(configFile') \subseteq Saved'
                  BY <1>2
            <3>2. CASE configFile' = configFile
                  BY <1>4, <1>5, <3>1, <3>2
            <3>3. CASE put \subseteq Saved
                  BY <1>4, <3>3
            <3> QED BY <3>2, <3>3
      <2> QED BY <2>1, <2>2, <2>3 DEF Saving, AtStep, Held
<1>7. Scripted'
      <2>1. SUFFICES ASSUME kind = "hook"
                     PROVE  /\ HasOurs(configFile') => script' # "none"
                            /\ \A q \in Writers : writer'[q].cmd = "connect" /\ writer'[q].step \in {"copy", "write"}
                                   => script' = "ours"
            BY DEF Scripted, HasOurs
      <2>2. /\ HasOurs(configFile) => script # "none"
            /\ \A q \in Writers : writer[q].cmd = "connect" /\ writer[q].step \in {"copy", "write"} => script = "ours"
            BY <2>1 DEF ConfigsInv, Scripted
      <2>3. HasOurs(configFile') => script' # "none"
            BY <2>1, <2>2
      <2>4. ASSUME NEW q \in Writers, writer'[q].cmd = "connect", writer'[q].step \in {"copy", "write"}
            PROVE  script' = "ours"
            <3>1. CASE q = p
                  BY <1>2, <2>1, <2>4, <3>1
            <3>2. CASE q # p
                  BY <1>2, <2>2, <2>4, <3>2
            <3> QED BY <3>1, <3>2
      <2> QED BY <2>3, <2>4
<1>8. Single'
      <2>1. \A q \in Writers : Once(writer'[q].read.servers)
            BY <1>2 DEF ConfigsInv, Single
      <2> QED BY <2>1 DEF Single, Once
<1> QED BY <1>3, <1>6, <1>7, <1>8 DEF ConfigsInv

\* A writer that goes on.
LEMMA GoesOn ==
    ASSUME ConfigsInv, NEW p \in Writers, NEW step \in Steps, Goes(p, step)
    PROVE  \E w \in Commanded : /\ w.cmd = writer[p].cmd /\ w.read = writer[p].read /\ w.step = step
                                /\ writer' = [writer EXCEPT ![p] = w]
<1>1. writer \in [Writers -> Commanded]
      BY DEF ConfigsInv, ConfigsTyped
<1>2. PICK w : w = [writer[p] EXCEPT !.step = step]
      OBVIOUS
<1>3. w \in Commanded /\ w.cmd = writer[p].cmd /\ w.read = writer[p].read /\ w.step = step
      BY <1>1, <1>2 DEF Commanded
<1>4. writer' = [writer EXCEPT ![p] = w]
      BY <1>1, <1>2 DEF Goes
<1> QED BY <1>3, <1>4

\* What a writer has read, and the file.
LEMMA ReadIs ==
    ASSUME ConfigsInv, NEW p \in Writers
    PROVE  /\ writer[p] \in Commanded /\ writer[p].read \in Files /\ Held(writer[p].read) \subseteq put
           /\ Once(writer[p].read.servers)
           /\ configFile \in Files /\ Held(configFile) \subseteq put /\ Once(configFile.servers)
           /\ backups \subseteq Files /\ kind \in Kinds
           /\ AtStep(p, "write") => put \subseteq Saved /\ Held(configFile) \subseteq Saved
           /\ kind = "hook" /\ writer[p].cmd = "connect" /\ writer[p].step \in {"copy", "write"} => script = "ours"
<1>1. writer[p] \in Commanded
      BY DEF ConfigsInv, ConfigsTyped
<1> QED BY <1>1 DEF ConfigsInv, ConfigsTyped, Saving, Scripted, Single, Commanded

\* Reading.
LEMMA ReadPreserves ==
    ASSUME ConfigsInv, NEW p \in Writers, NEW cmd \in {"connect", "disconnect"}, ReadsFile(p, cmd)
    PROVE  ConfigsInv'
<1>1. /\ AtStep(p, "rest") /\ UNCHANGED <<kind, configFile, script, backups, put, raced>>
      BY DEF ReadsFile
<1>2. /\ configFile \in Files /\ Held(configFile) \subseteq put /\ Once(configFile.servers) /\ backups \subseteq Files
      /\ writer[p] \in Commanded /\ Held(writer[p].read) \subseteq put /\ Once(writer[p].read.servers)
      BY ReadIs
<1>3. CASE writer' = writer
      <2>1. writer' = [writer EXCEPT ![p] = writer[p]]
            BY <1>3 DEF ConfigsInv, ConfigsTyped
      <2> QED BY <1>1, <1>2, <2>1, WriterSteps DEF AtStep
<1>4. CASE writer' # writer
      <2>1. PICK w : /\ w = [cmd |-> cmd, read |-> configFile,
                             step |-> IF kind = "hook" /\ cmd = "connect" THEN "script" ELSE "copy"]
                     /\ writer' = [writer EXCEPT ![p] = w]
            BY <1>4 DEF ReadsFile
      <2>2. w \in Commanded /\ w.read = configFile /\ w.cmd = cmd
            /\ w.step = IF kind = "hook" /\ cmd = "connect" THEN "script" ELSE "copy"
            BY <1>2, <2>1 DEF Commanded, Steps
      <2>3. w.step # "write" /\ ~(kind = "hook" /\ w.cmd = "connect" /\ w.step \in {"copy", "write"})
            BY <2>2
      <2> QED BY <1>1, <1>2, <2>1, <2>2, <2>3, WriterSteps
<1> QED BY <1>3, <1>4

\* A writer that ends.
LEMMA FinishesIs ==
    ASSUME ConfigsInv, NEW p \in Writers, Finishes(p)
    PROVE  /\ writer' = [writer EXCEPT ![p] = Resting] /\ Resting \in Commanded
           /\ Held(Resting.read) \subseteq put /\ Once(Resting.read.servers)
           /\ Resting.step # "write" /\ Resting.cmd # "connect"
BY EmptyIs DEF Finishes

\* Putting the script.
LEMMA ScriptPreserves ==
    ASSUME ConfigsInv, NEW p \in Writers, PutsScript(p) PROVE ConfigsInv'
<1>1. script' = "ours" /\ UNCHANGED <<kind, configFile, backups, put, raced>> /\ (Finishes(p) \/ Goes(p, "copy"))
      BY DEF PutsScript
<1>2. /\ configFile \in Files /\ Held(configFile) \subseteq put /\ Once(configFile.servers) /\ backups \subseteq Files
      /\ Held(writer[p].read) \subseteq put /\ Once(writer[p].read.servers)
      BY ReadIs
<1>3. CASE Finishes(p)
      BY <1>1, <1>2, <1>3, FinishesIs, WriterSteps
<1>4. CASE Goes(p, "copy")
      <2>1. "copy" \in Steps
            BY DEF Steps
      <2>2. PICK w \in Commanded : /\ w.cmd = writer[p].cmd /\ w.read = writer[p].read /\ w.step = "copy"
                                   /\ writer' = [writer EXCEPT ![p] = w]
            BY <1>4, <2>1, GoesOn
      <2> QED BY <1>1, <1>2, <2>2, WriterSteps
<1> QED BY <1>1, <1>3, <1>4

\* Copying.
LEMMA CopyPreserves ==
    ASSUME ConfigsInv, NEW p \in Writers, Copies(p) PROVE ConfigsInv'
<1>1. /\ AtStep(p, "copy") /\ backups' = backups \cup {configFile} /\ Goes(p, "write")
      /\ UNCHANGED <<kind, configFile, script, put, raced>>
      BY DEF Copies
<1>2. /\ configFile \in Files /\ Held(configFile) \subseteq put /\ Once(configFile.servers) /\ backups \subseteq Files
      /\ Held(writer[p].read) \subseteq put /\ Once(writer[p].read.servers)
      /\ kind = "hook" /\ writer[p].cmd = "connect" /\ writer[p].step \in {"copy", "write"} => script = "ours"
      BY ReadIs
<1>3. PICK w \in Commanded : /\ w.cmd = writer[p].cmd /\ w.read = writer[p].read /\ w.step = "write"
                             /\ writer' = [writer EXCEPT ![p] = w]
      <2>1. "write" \in Steps
            BY DEF Steps
      <2> QED BY <1>1, <2>1, GoesOn
<1>4. Held(configFile') \subseteq Saved'
      BY <1>1 DEF Held, Saved
<1>5. kind = "hook" /\ w.cmd = "connect" => script = "ours"
      BY <1>1, <1>2, <1>3 DEF AtStep
<1> QED BY <1>1, <1>2, <1>3, <1>4, <1>5, WriterSteps

\* Writing.
LEMMA WritePreserves ==
    ASSUME ConfigsInv, NEW p \in Writers, WritesFile(p) PROVE ConfigsInv'
<1>1. /\ AtStep(p, "write") /\ Finishes(p) /\ UNCHANGED <<kind, script, backups, put, raced>>
      /\ configFile' = IF writer[p].cmd = "connect" THEN Connected(writer[p].read) ELSE Disconnected(writer[p].read)
      BY DEF WritesFile
<1>2. /\ writer[p].read \in Files /\ Held(writer[p].read) \subseteq put /\ Once(writer[p].read.servers)
      /\ backups \subseteq Files /\ kind \in Kinds /\ put \subseteq Saved
      /\ kind = "hook" /\ writer[p].cmd = "connect" => script = "ours"
      BY <1>1, ReadIs DEF AtStep
<1>3. CASE writer[p].cmd = "connect"
      <2>1. PICK g \in Files : g = Connected(writer[p].read) /\ Once(g.servers) /\ Held(g) = Held(writer[p].read)
            BY <1>2, ConnectedIs
      <2>2. configFile' = g
            BY <1>1, <1>3, <2>1
      <2>3. kind = "hook" => script' # "none"
            BY <1>1, <1>2, <1>3
      <2> QED BY <1>1, <1>2, <2>1, <2>2, <2>3, FinishesIs, WriterSteps
<1>4. CASE writer[p].cmd # "connect"
      <2>1. PICK g \in Files : g = Disconnected(writer[p].read) /\ Once(g.servers) /\ Held(g) = Held(writer[p].read)
                                 /\ ~HasOurs(g)
            BY <1>2, DisconnectedIs
      <2>2. configFile' = g
            BY <1>1, <1>4, <2>1
      <2> QED BY <1>1, <1>2, <2>1, <2>2, FinishesIs, WriterSteps
<1> QED BY <1>3, <1>4

\* Dying.
LEMMA DeathPreserves ==
    ASSUME ConfigsInv, NEW p \in Writers, Dies(p) PROVE ConfigsInv'
<1>1. /\ Finishes(p) /\ UNCHANGED <<kind, script, backups, put, raced>>
      /\ configFile' \in {configFile} \cup (IF AtStep(p, "write") THEN {Empty, [Empty EXCEPT !.form = "odd"]} ELSE {})
      BY DEF Dies
<1>2. /\ configFile \in Files /\ Held(configFile) \subseteq put /\ Once(configFile.servers)
      /\ backups \subseteq Files /\ (AtStep(p, "write") => put \subseteq Saved)
      BY ReadIs
<1>3. CASE configFile' = configFile
      BY <1>1, <1>2, <1>3, FinishesIs, WriterSteps
<1>4. CASE configFile' # configFile
      <2>1. AtStep(p, "write") /\ configFile' \in {Empty, [Empty EXCEPT !.form = "odd"]}
            BY <1>1, <1>4
      <2>2. configFile' \in Files /\ Held(configFile') = {} /\ ~HasOurs(configFile') /\ Once(configFile'.servers)
            BY <2>1, EmptyIs
      <2> QED BY <1>1, <1>2, <2>1, <2>2, FinishesIs, WriterSteps
<1> QED BY <1>3, <1>4

\* The user's edits.
LEMMA TouchPreserves ==
    ASSUME ConfigsInv, Touches PROVE ConfigsInv'
<1>1. UNCHANGED <<kind, script, backups, writer>>
      BY DEF Touches
<1>2. /\ configFile \in Files /\ Held(configFile) \subseteq put /\ Once(configFile.servers) /\ kind \in Kinds
      /\ put \subseteq Theirs /\ put \subseteq Saved \cup Held(configFile)
      /\ \A q \in Writers : Held(writer[q].read) \subseteq put
      /\ \A q \in Writers : AtStep(q, "write") => Held(configFile) \subseteq Saved
      BY DEF ConfigsInv, ConfigsTyped, Saving, Single
<1>3. CASE UNCHANGED <<put, raced>> /\ configFile' = [configFile EXCEPT !.form = IF @ = "odd" THEN "fine" ELSE "odd"]
      <2>1. configFile' \in Files /\ configFile'.servers = configFile.servers /\ configFile'.inputs = configFile.inputs
            BY <1>2, <1>3 DEF Files
      <2>2. ConfigsTyped'
            BY <1>1, <1>3, <2>1 DEF ConfigsInv, ConfigsTyped
      <2>3. Saving'
            BY <1>1, <1>2, <1>3, <2>1 DEF Saving, Held, Saved, AtStep
      <2>4. Scripted'
            BY <1>1, <2>1 DEF ConfigsInv, Scripted, HasOurs
      <2>5. Single'
            BY <1>1, <2>1 DEF ConfigsInv, Single, Once
      <2> QED BY <2>2, <2>3, <2>4, <2>5 DEF ConfigsInv
<1>4. CASE \E x \in Theirs, i \in 0 .. Len(configFile.servers) :
             /\ configFile' = [configFile EXCEPT !.servers = SubSeq(@, 1, i) \o <<x>> \o SubSeq(@, i + 1, Len(@))]
             /\ put' = put \cup {x}
             /\ raced' = raced \cup (IF \E p \in Writers : AtStep(p, "write") THEN {x} ELSE {})
      <2>1. PICK x \in Theirs, i \in 0 .. Len(configFile.servers) :
             /\ configFile' = [configFile EXCEPT !.servers = SubSeq(@, 1, i) \o <<x>> \o SubSeq(@, i + 1, Len(@))]
             /\ put' = put \cup {x}
             /\ raced' = raced \cup (IF \E p \in Writers : AtStep(p, "write") THEN {x} ELSE {})
            BY <1>4
      <2>2. PICK s \in Seq(Entries) : s = configFile.servers
            BY <1>2 DEF Files
      <2>3. PICK t \in Seq(Entries) : /\ t = SubSeq(s, 1, i) \o <<x>> \o SubSeq(s, i + 1, Len(s))
                                      /\ ToSet(t) = ToSet(s) \cup {x} /\ Once(t)
            BY <1>2, <2>1, <2>2, Inserted
      <2>4. configFile' = [configFile EXCEPT !.servers = t]
            BY <2>1, <2>2, <2>3, Zenon
      <2>5. configFile' \in Files /\ configFile'.servers = t /\ configFile'.inputs = configFile.inputs
            BY <1>2, <2>4 DEF Files
      <2>6. ConfigsTyped'
            BY <1>1, <1>2, <2>1, <2>5 DEF ConfigsInv, ConfigsTyped
      <2>7. Held(configFile') = Held(configFile) \cup {x}
            BY <2>2, <2>3, <2>5 DEF Held
      <2>8. Saved \subseteq Saved'
            BY <1>1, <2>1 DEF Saved
      <2>9. (\E p \in Writers : AtStep(p, "write")) => x \in Saved'
            BY <2>1 DEF Saved
      <2>10. Saving'
            <3>1. Held(configFile') \subseteq put'
                  BY <1>2, <2>1, <2>7
            <3>2. \A q \in Writers : Held(writer'[q].read) \subseteq put'
                  BY <1>1, <1>2, <2>1
            <3>3. put' \subseteq Saved' \cup Held(configFile')
                  BY <1>2, <2>1, <2>7, <2>8
            <3>4. \A q \in Writers : writer'[q].step = "write" => Held(configFile') \subseteq Saved'
                  BY <1>1, <1>2, <2>7, <2>8, <2>9 DEF AtStep
            <3> QED BY <3>1, <3>2, <3>3, <3>4 DEF Saving, AtStep, Held
      <2>11. Scripted'
            <3>1. HasOurs(configFile') => HasOurs(configFile)
                  BY <2>2, <2>3, <2>5, NamesApart DEF HasOurs
            <3> QED BY <1>1, <3>1 DEF ConfigsInv, Scripted, HasOurs
      <2>12. Single'
            BY <1>1, <2>3, <2>5 DEF ConfigsInv, Single, Once
      <2> QED BY <2>6, <2>10, <2>11, <2>12 DEF ConfigsInv
<1> QED BY <1>3, <1>4 DEF Touches

\* Every step keeps the invariant.
LEMMA ConfigsInductive == ConfigsInv /\ [Configure]_configs => ConfigsInv'
<1> SUFFICES ASSUME ConfigsInv, [Configure]_configs PROVE ConfigsInv'
    OBVIOUS
<1>1. CASE UNCHANGED configs
      BY <1>1 DEF configs, ConfigsInv, ConfigsTyped, Saving, Scripted, Single, Once, Held, Saved, AtStep, HasOurs
<1>2. CASE Configure
      <2>1. ASSUME NEW p \in Writers, ReadsFile(p, "connect") PROVE ConfigsInv'
            BY <2>1, ReadPreserves
      <2>2. ASSUME NEW p \in Writers, ReadsFile(p, "disconnect") PROVE ConfigsInv'
            BY <2>2, ReadPreserves
      <2>3. ASSUME NEW p \in Writers, PutsScript(p) PROVE ConfigsInv'
            BY <2>3, ScriptPreserves
      <2>4. ASSUME NEW p \in Writers, Copies(p) PROVE ConfigsInv'
            BY <2>4, CopyPreserves
      <2>5. ASSUME NEW p \in Writers, WritesFile(p) PROVE ConfigsInv'
            BY <2>5, WritePreserves
      <2>6. ASSUME NEW p \in Writers, Dies(p) PROVE ConfigsInv'
            BY <2>6, DeathPreserves
      <2>7. ASSUME Touches PROVE ConfigsInv'
            BY <2>7, TouchPreserves
      <2> QED BY <1>2, <2>1, <2>2, <2>3, <2>4, <2>5, <2>6, <2>7 DEF Configure
<1> QED BY <1>1, <1>2

\* The invariant says what is wanted.
LEMMA ConfigsInvHolds == ConfigsInv => ConfigsSafe
<1> SUFFICES ASSUME ConfigsInv PROVE ConfigsSafe
    OBVIOUS
<1>1. configFile \in Files /\ kind \in Kinds /\ Once(configFile.servers)
      BY DEF ConfigsInv, ConfigsTyped, Single
<1>2. TheirsSurvive
      <2>1. put \subseteq raced \cup (UNION {ToSet(f.servers) : f \in backups}) \cup ToSet(configFile.servers)
            BY DEF ConfigsInv, Saving, Saved, Held
      <2>2. UNION {ToSet(f.servers) : f \in {configFile} \cup backups}
               = ToSet(configFile.servers) \cup UNION {ToSet(f.servers) : f \in backups}
            OBVIOUS
      <2> QED BY <2>1, <2>2 DEF TheirsSurvive
<1>3. ConnectSettles
      <2>1. PICK g \in Files :
               /\ g = Connected(configFile) /\ Connected(g) = g /\ Disconnected(g) = Disconnected(configFile)
               /\ \A x \in OurNames : Cardinality({i \in DOMAIN g.servers : g.servers[i] = x}) =
                      (IF x = "ours" \/ (x = "env" /\ kind = "toml") THEN 1 ELSE 0)
            BY <1>1, ConnectedIs
      <2> QED BY <2>1, Zenon DEF ConnectSettles
<1>4. RegisteredHasScript
      BY DEF ConfigsInv, Scripted, RegisteredHasScript
<1> QED BY <1>2, <1>3, <1>4 DEF ConfigsSafe

\* For any writers, entries, commands and edits: what the user put into another program's
\* configuration file is there or in a copy, our entry settles in it, and no list names a
\* hook script that is not there, wherever commands die (ideConnect.ts, globalWire.ts).
THEOREM ConfigsAreSafe == ConfigsSpec => []ConfigsSafe
<1>1. ConfigsInit => ConfigsInv
      BY ConfigsStart
<1>2. ConfigsInv /\ [Configure]_configs => ConfigsInv'
      BY ConfigsInductive
<1>3. ConfigsInv => ConfigsSafe
      BY ConfigsInvHolds
<1> QED BY <1>1, <1>2, <1>3, PTL DEF ConfigsSpec

-----------------------------------------------------------------------------
(* What an install and a removal do to a text.                                 *)

Words == {c.ws : c \in Commands} \cup Nat \cup {"none"}
WiredLine == [mark : {"begin", "end"}, repo : Repos, is : Words]
            \cup [mark : {"user", "scrap"}, repo : {"none"}, is : Words]

Apart(r) == \A q \in Repos : {<<r, q>>, <<q, r>>} \cap alike = {}

\* Every marker that opens is followed by the one that closes.
Whole(text) ==
    \A i \in 1 .. Len(text) : text[i].mark = "begin" =>
        i + 1 \in 1 .. Len(text) /\ text[i + 1].mark = "end" /\ text[i + 1].repo = text[i].repo

\* One marker of the repository opens, and one closes only right after one that opens.
Alone(text, q) ==
    /\ \A i, j \in 1 .. Len(text) :
           text[i].mark = "begin" /\ text[j].mark = "begin" /\ text[i].repo = q /\ text[j].repo = q => i = j
    /\ \A i \in 1 .. Len(text) : text[i].mark = "end" /\ text[i].repo = q =>
           i - 1 \in 1 .. Len(text) /\ text[i - 1].mark = "begin" /\ text[i - 1].repo = q

\* A marker that opens is followed by the one that closes, or none of its own follows.
Loose(text) ==
    \A i \in 1 .. Len(text) : text[i].mark = "begin" =>
        \/ i + 1 \in 1 .. Len(text) /\ text[i + 1].mark = "end" /\ text[i + 1].repo = text[i].repo
        \/ \A k \in i + 1 .. Len(text) : ~(text[k].mark = "end" /\ text[k].repo = text[i].repo)

\* What a section is replaced by: one of the same repository, a rest of a line, or both.
Patch(mid, r) ==
    /\ mid \in Seq(WiredLine)
    /\ \A k \in 1 .. Len(mid) :
          /\ mid[k].mark \in {"begin", "end"} => mid[k].repo = r
          /\ mid[k].mark = "begin" => k = 1 /\ 2 \in 1 .. Len(mid) /\ mid[2].mark = "end"
          /\ mid[k].mark = "end" => k = 2 /\ mid[1].mark = "begin"

\* The text with another middle in place of two lines.
Patched(text, i, mid) ==
    SubSeq(text, 1, i - 1) \o mid \o SubSeq(text, i + 2, Len(text))

\* Line by line.
IsPatched(u, text, i, mid) ==
    /\ Len(u) = Len(text) + Len(mid) - 2
    /\ \A k \in 1 .. i - 1 : u[k] = text[k]
    /\ \A k \in 1 .. Len(mid) : u[i - 1 + k] = mid[k]
    /\ \A k \in i + 2 .. Len(text) : u[k + Len(mid) - 2] = text[k]
    /\ \A k \in 1 .. Len(u) :
          \/ k \in 1 .. i - 1 /\ u[k] = text[k]
          \/ \E m \in 1 .. Len(mid) : k = i - 1 + m /\ u[k] = mid[m]
          \/ \E m \in i + 2 .. Len(text) : k = m + Len(mid) - 2 /\ u[k] = text[m]

\* What the patched text is, line by line.
LEMMA PatchedIs ==
    ASSUME NEW E, NEW text \in Seq(E), NEW i \in Nat, i \in 1 .. Len(text), i + 1 \in 1 .. Len(text),
           NEW mid \in Seq(E)
    PROVE  \E u : /\ u = Patched(text, i, mid) /\ u \in Seq(E)
                  /\ IsPatched(u, text, i, mid)
<1>1. PICK L \in Nat : L = Len(text)
      OBVIOUS
<1>2. PICK M \in Nat : M = Len(mid)
      OBVIOUS
<1>3. PICK a : a = SubSeq(text, 1, i - 1)
      OBVIOUS
<1>4. a \in Seq(E) /\ Len(a) = i - 1 /\ \A k \in 1 .. i - 1 : a[k] = text[k]
      BY <1>1, <1>3
<1>5. PICK c : c = SubSeq(text, i + 2, L)
      OBVIOUS
<1>6. c \in Seq(E) /\ Len(c) = L - i - 1 /\ \A k \in 1 .. L - i - 1 : c[k] = text[k + i + 1]
      <2>1. i + 2 \in Nat \ {0} /\ i + 2 <= L + 1 /\ L + 1 - (i + 2) = L - i - 1
            BY <1>1
      <2>2. /\ c \in Seq(E) /\ Len(c) = L + 1 - (i + 2)
            /\ \A k \in 1 .. L + 1 - (i + 2) : c[k] = text[i + 2 - 1 + k]
            BY <1>1, <1>5, <2>1, EndIs
      <2>3. ASSUME NEW k \in 1 .. L - i - 1 PROVE c[k] = text[k + i + 1]
            <3>1. k \in 1 .. L + 1 - (i + 2) /\ i + 2 - 1 + k = k + i + 1
                  BY <1>1, <2>1
            <3>2. c[k] = text[i + 2 - 1 + k]
                  BY <2>2, <3>1, Zenon
            <3> QED BY <3>1, <3>2
      <2> QED BY <2>1, <2>2, <2>3
<1>7. PICK b : b = a \o mid
      OBVIOUS
<1>8. /\ b \in Seq(E) /\ Len(b) = i - 1 + M
      /\ \A k \in 1 .. i - 1 + M : b[k] = IF k <= i - 1 THEN a[k] ELSE mid[k - (i - 1)]
      <2>1. /\ a \o mid \in Seq(E) /\ Len(a \o mid) = Len(a) + Len(mid)
            /\ \A k \in 1 .. Len(a) + Len(mid) : (a \o mid)[k] = IF k <= Len(a) THEN a[k] ELSE mid[k - Len(a)]
            BY <1>4, ConcatProperties
      <2> QED BY <1>2, <1>4, <1>7, <2>1
<1>9. PICK u : u = b \o c
      OBVIOUS
<1>10. /\ u \in Seq(E) /\ Len(u) = L + M - 2
       /\ \A k \in 1 .. L + M - 2 : u[k] = IF k <= i - 1 + M THEN b[k] ELSE c[k - (i - 1 + M)]
      <2>1. /\ b \o c \in Seq(E) /\ Len(b \o c) = Len(b) + Len(c)
            /\ \A k \in 1 .. Len(b) + Len(c) : (b \o c)[k] = IF k <= Len(b) THEN b[k] ELSE c[k - Len(b)]
            BY <1>6, <1>8, ConcatProperties
      <2>2. Len(b) + Len(c) = L + M - 2 /\ Len(b) = i - 1 + M
            BY <1>1, <1>2, <1>6, <1>8
      <2> QED BY <1>9, <2>1, <2>2
<1>11. u = Patched(text, i, mid)
      BY <1>1, <1>3, <1>5, <1>7, <1>9 DEF Patched
<1>12. ASSUME NEW k \in 1 .. i - 1 PROVE u[k] = text[k] /\ k \in 1 .. L + M - 2
      BY <1>1, <1>2, <1>4, <1>8, <1>10
<1>13. ASSUME NEW k \in 1 .. M PROVE u[i - 1 + k] = mid[k]
      <2>1. i - 1 + k \in 1 .. i - 1 + M /\ i - 1 + k \in 1 .. L + M - 2 /\ ~(i - 1 + k <= i - 1)
            BY <1>1, <1>2
      <2> QED BY <1>8, <1>10, <2>1
<1>14. ASSUME NEW k \in i + 2 .. L PROVE u[k + M - 2] = text[k]
      <2>1. k + M - 2 \in 1 .. L + M - 2 /\ ~(k + M - 2 <= i - 1 + M) /\ k - i - 1 \in 1 .. L - i - 1
            BY <1>1, <1>2
      <2>2. (k + M - 2) - (i - 1 + M) = k - i - 1 /\ (k - i - 1) + i + 1 = k
            BY <1>1, <1>2
      <2> QED BY <1>6, <1>10, <2>1, <2>2
<1>15. ASSUME NEW k \in 1 .. L + M - 2
       PROVE  \/ k \in 1 .. i - 1
              \/ \E m \in 1 .. M : k = i - 1 + m
              \/ \E m \in i + 2 .. L : k = m + M - 2
      <2>1. CASE k <= i - 1
            BY <2>1
      <2>2. CASE k > i - 1 /\ k <= i - 1 + M
            <3>1. k - (i - 1) \in 1 .. M /\ k = i - 1 + (k - (i - 1))
                  BY <1>2, <2>2
            <3> QED BY <3>1
      <2>3. CASE k > i - 1 + M
            <3>1. k - M + 2 \in i + 2 .. L /\ k = (k - M + 2) + M - 2
                  BY <1>1, <1>2, <2>3
            <3> QED BY <3>1
      <2> QED BY <1>2, <2>1, <2>2, <2>3
<1>16. ASSUME NEW k \in 1 .. L + M - 2
       PROVE  \/ k \in 1 .. i - 1 /\ u[k] = text[k]
              \/ \E m \in 1 .. M : k = i - 1 + m /\ u[k] = mid[m]
              \/ \E m \in i + 2 .. L : k = m + M - 2 /\ u[k] = text[m]
      <2>1. CASE k \in 1 .. i - 1
            BY <1>12, <2>1
      <2>2. CASE \E m \in 1 .. M : k = i - 1 + m
            BY <1>13, <2>2
      <2>3. CASE \E m \in i + 2 .. L : k = m + M - 2
            BY <1>14, <2>3
      <2> QED BY <1>15, <2>1, <2>2, <2>3
<1>17. Len(u) = L + M - 2
      BY <1>1, <1>2, <1>10
<1>18. IsPatched(u, text, i, mid)
      BY <1>1, <1>2, <1>12, <1>13, <1>14, <1>16, <1>17, Zenon DEF IsPatched
<1> QED BY <1>10, <1>11, <1>18

\* A section, from the marker that opens to the next line, which closes.
IsSection(text, i) ==
    /\ i \in 1 .. Len(text) /\ i + 1 \in 1 .. Len(text)
    /\ text[i].mark = "begin" /\ text[i + 1].mark = "end" /\ text[i + 1].repo = text[i].repo

\* Where a line of the text goes to.
Place(m, i, M) == IF m < i THEN m ELSE m + M - 2

Placed(u, text, i, mid) ==
    /\ \A m \in 1 .. Len(text) : m \notin {i, i + 1} =>
           Place(m, i, Len(mid)) \in 1 .. Len(u) /\ u[Place(m, i, Len(mid))] = text[m]
    /\ \A m \in 1 .. Len(mid) : i - 1 + m \in 1 .. Len(u) /\ u[i - 1 + m] = mid[m]
    /\ \A k \in 1 .. Len(u) :
           \/ \E m \in 1 .. Len(mid) : k = i - 1 + m /\ u[k] = mid[m]
           \/ \E m \in 1 .. Len(text) : m \notin {i, i + 1} /\ k = Place(m, i, Len(mid)) /\ u[k] = text[m]

\* Every line but the two has its place, and every place its line.
LEMMA PatchPlaces ==
    ASSUME NEW text \in Seq(WiredLine), NEW i \in Nat, IsSection(text, i), NEW mid \in Seq(WiredLine),
           NEW u \in Seq(WiredLine), IsPatched(u, text, i, mid)
    PROVE  Placed(u, text, i, mid)
<1>1. PICK L \in Nat, M \in Nat : L = Len(text) /\ M = Len(mid)
      OBVIOUS
<1>2. i \in 1 .. L /\ i + 1 \in 1 .. L /\ Len(u) = L + M - 2
      BY <1>1 DEF IsSection, IsPatched
<1>3. ASSUME NEW m \in 1 .. L, m \notin {i, i + 1}
      PROVE  Place(m, i, M) \in 1 .. Len(u) /\ u[Place(m, i, M)] = text[m]
      <2>1. CASE m < i
            <3>1. m \in 1 .. i - 1 /\ Place(m, i, M) = m /\ m \in 1 .. L + M - 2
                  BY <1>2, <2>1 DEF Place
            <3> QED BY <1>1, <1>2, <3>1 DEF IsPatched
      <2>2. CASE ~(m < i)
            <3>1. m \in i + 2 .. L /\ Place(m, i, M) = m + M - 2 /\ m + M - 2 \in 1 .. L + M - 2
                  BY <1>2, <1>3, <2>2 DEF Place
            <3> QED BY <1>1, <1>2, <3>1 DEF IsPatched
      <2> QED BY <2>1, <2>2
<1>4. ASSUME NEW m \in 1 .. M PROVE i - 1 + m \in 1 .. Len(u) /\ u[i - 1 + m] = mid[m]
      BY <1>1, <1>2 DEF IsPatched
<1>5. ASSUME NEW k \in 1 .. Len(u)
      PROVE  \/ \E m \in 1 .. M : k = i - 1 + m /\ u[k] = mid[m]
             \/ \E m \in 1 .. L : m \notin {i, i + 1} /\ k = Place(m, i, M) /\ u[k] = text[m]
      <2>1. CASE k \in 1 .. i - 1 /\ u[k] = text[k]
            <3>1. k \in 1 .. L /\ k \notin {i, i + 1} /\ k = Place(k, i, M)
                  BY <1>2, <2>1 DEF Place
            <3> QED BY <2>1, <3>1
      <2>2. CASE \E m \in i + 2 .. L : k = m + M - 2 /\ u[k] = text[m]
            <3>1. PICK m \in i + 2 .. L : k = m + M - 2 /\ u[k] = text[m]
                  BY <2>2
            <3>2. m \in 1 .. L /\ m \notin {i, i + 1} /\ k = Place(m, i, M)
                  BY <1>2, <3>1 DEF Place
            <3> QED BY <3>1, <3>2
      <2> QED BY <1>1, <2>1, <2>2 DEF IsPatched
<1> QED BY <1>1, <1>3, <1>4, <1>5 DEF Placed

\* A patch of one section leaves the others whole.
LEMMA PatchWhole ==
    ASSUME NEW text \in Seq(WiredLine), NEW i \in Nat, IsSection(text, i), NEW r, NEW mid \in Seq(WiredLine),
           Patch(mid, r), NEW u \in Seq(WiredLine), IsPatched(u, text, i, mid), Whole(text)
    PROVE  Whole(u)
<1>1. PICK L \in Nat, M \in Nat : L = Len(text) /\ M = Len(mid)
      OBVIOUS
<1>0. Placed(u, text, i, mid)
      BY PatchPlaces
<1>2. i \in 1 .. L /\ i + 1 \in 1 .. L /\ text[i].mark = "begin" /\ text[i + 1].mark = "end"
      BY <1>1 DEF IsSection
<1>3. /\ \A m \in 1 .. L : m \notin {i, i + 1} => Place(m, i, M) \in 1 .. Len(u) /\ u[Place(m, i, M)] = text[m]
      /\ \A m \in 1 .. M : i - 1 + m \in 1 .. Len(u) /\ u[i - 1 + m] = mid[m]
      BY <1>0, <1>1 DEF Placed
<1>4. SUFFICES ASSUME NEW k \in 1 .. Len(u), u[k].mark = "begin"
               PROVE  k + 1 \in 1 .. Len(u) /\ u[k + 1].mark = "end" /\ u[k + 1].repo = u[k].repo
      BY DEF Whole
<1>5. \/ \E m \in 1 .. M : k = i - 1 + m /\ u[k] = mid[m]
      \/ \E m \in 1 .. L : m \notin {i, i + 1} /\ k = Place(m, i, M) /\ u[k] = text[m]
      BY <1>0, <1>1 DEF Placed
<1>6. CASE \E m \in 1 .. M : k = i - 1 + m /\ u[k] = mid[m]
      <2>1. PICK m \in 1 .. M : k = i - 1 + m /\ u[k] = mid[m]
            BY <1>6
      <2>2. m = 1 /\ 2 \in 1 .. M /\ mid[2].mark = "end" /\ mid[1].repo = r /\ mid[2].repo = r
            BY <1>1, <1>4, <2>1 DEF Patch
      <2>3. k + 1 = i - 1 + 2
            BY <2>1, <2>2
      <2> QED BY <1>3, <2>1, <2>2, <2>3
<1>7. CASE \E m \in 1 .. L : m \notin {i, i + 1} /\ k = Place(m, i, M) /\ u[k] = text[m]
      <2>1. PICK m \in 1 .. L : m \notin {i, i + 1} /\ k = Place(m, i, M) /\ u[k] = text[m]
            BY <1>7
      <2>2. m + 1 \in 1 .. L /\ text[m + 1].mark = "end" /\ text[m + 1].repo = text[m].repo
            BY <1>1, <1>4, <2>1 DEF Whole
      <2>3. m + 1 # i
            BY <1>2, <2>2
      <2>4. m + 1 \notin {i, i + 1} /\ Place(m + 1, i, M) = k + 1
            BY <1>2, <2>1, <2>3 DEF Place
      <2> QED BY <1>3, <2>1, <2>2, <2>4
<1> QED BY <1>5, <1>6, <1>7

\* It leaves no section that reaches for the end of another.
LEMMA PatchLoose ==
    ASSUME NEW text \in Seq(WiredLine), NEW i \in Nat, IsSection(text, i), NEW r, NEW mid \in Seq(WiredLine),
           Patch(mid, r), NEW u \in Seq(WiredLine), IsPatched(u, text, i, mid), Loose(text),
           \A k \in 1 .. i - 1 : ~(text[k].mark = "begin" /\ text[k].repo = r)
    PROVE  Loose(u)
<1>1. PICK L \in Nat, M \in Nat : L = Len(text) /\ M = Len(mid)
      OBVIOUS
<1>0. Placed(u, text, i, mid)
      BY PatchPlaces
<1>2. i \in 1 .. L /\ i + 1 \in 1 .. L /\ text[i].mark = "begin" /\ text[i + 1].mark = "end"
      BY <1>1 DEF IsSection
<1>3. /\ \A m \in 1 .. L : m \notin {i, i + 1} => Place(m, i, M) \in 1 .. Len(u) /\ u[Place(m, i, M)] = text[m]
      /\ \A m \in 1 .. M : i - 1 + m \in 1 .. Len(u) /\ u[i - 1 + m] = mid[m]
      BY <1>0, <1>1 DEF Placed
<1>4. \A k \in 1 .. Len(u) :
          \/ \E m \in 1 .. M : k = i - 1 + m /\ u[k] = mid[m]
          \/ \E m \in 1 .. L : m \notin {i, i + 1} /\ k = Place(m, i, M) /\ u[k] = text[m]
      BY <1>0, <1>1 DEF Placed
<1>5. SUFFICES ASSUME NEW k \in 1 .. Len(u), u[k].mark = "begin"
               PROVE  \/ k + 1 \in 1 .. Len(u) /\ u[k + 1].mark = "end" /\ u[k + 1].repo = u[k].repo
                      \/ \A j \in k + 1 .. Len(u) : ~(u[j].mark = "end" /\ u[j].repo = u[k].repo)
      BY DEF Loose
<1>6. CASE \E m \in 1 .. M : k = i - 1 + m /\ u[k] = mid[m]
      <2>1. PICK m \in 1 .. M : k = i - 1 + m /\ u[k] = mid[m]
            BY <1>6
      <2>2. m = 1 /\ 2 \in 1 .. M /\ mid[2].mark = "end" /\ mid[1].repo = r /\ mid[2].repo = r
            BY <1>1, <1>5, <2>1 DEF Patch
      <2>3. k + 1 = i - 1 + 2
            BY <2>1, <2>2
      <2> QED BY <1>3, <2>1, <2>2, <2>3
<1>7. CASE \E m \in 1 .. L : m \notin {i, i + 1} /\ k = Place(m, i, M) /\ u[k] = text[m]
      <2>1. PICK m \in 1 .. L : m \notin {i, i + 1} /\ k = Place(m, i, M) /\ u[k] = text[m]
            BY <1>7
      <2>2. CASE m + 1 \in 1 .. L /\ text[m + 1].mark = "end" /\ text[m + 1].repo = text[m].repo
            <3>1. m + 1 # i
                  BY <1>2, <2>2
            <3>2. m + 1 \notin {i, i + 1} /\ Place(m + 1, i, M) = k + 1
                  BY <1>2, <2>1, <2>2, <3>1 DEF Place
            <3> QED BY <1>3, <2>1, <2>2, <3>2
      <2>3. CASE \A j \in m + 1 .. L : ~(text[j].mark = "end" /\ text[j].repo = text[m].repo)
            <3> SUFFICES ASSUME NEW j \in k + 1 .. Len(u), u[j].mark = "end", u[j].repo = u[k].repo
                         PROVE  FALSE
                OBVIOUS
            <3>1. j \in 1 .. Len(u)
                  OBVIOUS
            <3>2. CASE \E n \in 1 .. M : j = i - 1 + n /\ u[j] = mid[n]
                  <4>1. PICK n \in 1 .. M : j = i - 1 + n /\ u[j] = mid[n]
                        BY <3>2
                  <4>2. n = 2 /\ text[m].repo = r
                        BY <1>1, <2>1, <4>1 DEF Patch
                  <4>3. m < i
                        <5>1. j = i + 1 /\ k < j
                              BY <1>2, <4>1, <4>2
                        <5>2. ~(m < i) => m >= i + 2 /\ k = m + M - 2
                              BY <1>2, <2>1 DEF Place
                        <5>3. M >= 2
                              BY <4>1, <4>2
                        <5> QED BY <1>2, <5>1, <5>2, <5>3
                  <4>4. m \in 1 .. i - 1 /\ text[m].mark = "begin"
                        BY <1>5, <2>1, <4>3
                  <4> QED BY <4>2, <4>4
            <3>3. CASE \E n \in 1 .. L : n \notin {i, i + 1} /\ j = Place(n, i, M) /\ u[j] = text[n]
                  <4>1. PICK n \in 1 .. L : n \notin {i, i + 1} /\ j = Place(n, i, M) /\ u[j] = text[n]
                        BY <3>3
                  <4>2. n \in m + 1 .. L
                        BY <1>2, <2>1, <4>1 DEF Place
                  <4> QED BY <2>1, <2>3, <4>1, <4>2
            <3> QED BY <1>4, <3>1, <3>2, <3>3
      <2>4. text[m].mark = "begin"
            BY <1>5, <2>1
      <2> QED BY <1>1, <2>2, <2>3, <2>4 DEF Loose
<1> QED BY <1>4, <1>6, <1>7

\* It leaves one section of each repository.
LEMMA PatchAlone ==
    ASSUME NEW text \in Seq(WiredLine), NEW i \in Nat, IsSection(text, i), NEW r, NEW mid \in Seq(WiredLine),
           Patch(mid, r), NEW u \in Seq(WiredLine), IsPatched(u, text, i, mid),
           NEW q, Alone(text, q), text[i].repo = q <=> q = r
    PROVE  Alone(u, q)
<1>1. PICK L \in Nat, M \in Nat : L = Len(text) /\ M = Len(mid)
      OBVIOUS
<1>0. Placed(u, text, i, mid)
      BY PatchPlaces
<1>2. i \in 1 .. L /\ i + 1 \in 1 .. L /\ text[i].mark = "begin" /\ text[i + 1].mark = "end"
      BY <1>1 DEF IsSection
<1>3. /\ \A m \in 1 .. L : m \notin {i, i + 1} => Place(m, i, M) \in 1 .. Len(u) /\ u[Place(m, i, M)] = text[m]
      /\ \A m \in 1 .. M : i - 1 + m \in 1 .. Len(u) /\ u[i - 1 + m] = mid[m]
      BY <1>0, <1>1 DEF Placed
<1>4. \A k \in 1 .. Len(u) :
          \/ \E m \in 1 .. M : k = i - 1 + m /\ u[k] = mid[m]
          \/ \E m \in 1 .. L : m \notin {i, i + 1} /\ k = Place(m, i, M) /\ u[k] = text[m]
      BY <1>0, <1>1 DEF Placed
<1>5. ASSUME NEW k \in 1 .. Len(u), u[k].mark = "begin", u[k].repo = q
      PROVE  \/ q = r /\ k = i
             \/ q # r /\ \E m \in 1 .. L : m \notin {i, i + 1} /\ k = Place(m, i, M) /\ u[k] = text[m]
      <2>1. CASE \E m \in 1 .. M : k = i - 1 + m /\ u[k] = mid[m]
            BY <1>1, <1>5, <2>1 DEF Patch
      <2>2. CASE \E m \in 1 .. L : m \notin {i, i + 1} /\ k = Place(m, i, M) /\ u[k] = text[m]
            <3>1. PICK m \in 1 .. L : m \notin {i, i + 1} /\ k = Place(m, i, M) /\ u[k] = text[m]
                  BY <2>2
            <3>2. q # r
                  BY <1>1, <1>2, <1>5, <3>1 DEF Alone
            <3> QED BY <3>1, <3>2
      <2> QED BY <1>4, <2>1, <2>2
<1>6. ASSUME NEW j \in 1 .. Len(u), NEW k \in 1 .. Len(u), u[j].mark = "begin", u[k].mark = "begin",
             u[j].repo = q, u[k].repo = q
      PROVE  j = k
      <2>1. CASE q = r
            BY <1>5, <1>6, <2>1
      <2>2. CASE q # r
            <3>1. PICK m \in 1 .. L : m \notin {i, i + 1} /\ k = Place(m, i, M) /\ u[k] = text[m]
                  BY <1>5, <1>6, <2>2
            <3>2. PICK n \in 1 .. L : n \notin {i, i + 1} /\ j = Place(n, i, M) /\ u[j] = text[n]
                  BY <1>5, <1>6, <2>2
            <3>3. m = n
                  BY <1>1, <1>6, <3>1, <3>2 DEF Alone
            <3> QED BY <3>1, <3>2, <3>3
      <2> QED BY <2>1, <2>2
<1>7. ASSUME NEW k \in 1 .. Len(u), u[k].mark = "end", u[k].repo = q
      PROVE  k - 1 \in 1 .. Len(u) /\ u[k - 1].mark = "begin" /\ u[k - 1].repo = q
      <2>1. CASE \E m \in 1 .. M : k = i - 1 + m /\ u[k] = mid[m]
            <3>1. PICK m \in 1 .. M : k = i - 1 + m /\ u[k] = mid[m]
                  BY <2>1
            <3>2. m = 2 /\ 1 \in 1 .. M /\ mid[1].mark = "begin" /\ mid[1].repo = r /\ q = r
                  BY <1>1, <1>7, <3>1 DEF Patch
            <3>3. k - 1 = i - 1 + 1
                  BY <3>1, <3>2
            <3> QED BY <1>3, <3>2, <3>3
      <2>2. CASE \E m \in 1 .. L : m \notin {i, i + 1} /\ k = Place(m, i, M) /\ u[k] = text[m]
            <3>1. PICK m \in 1 .. L : m \notin {i, i + 1} /\ k = Place(m, i, M) /\ u[k] = text[m]
                  BY <2>2
            <3>2. m - 1 \in 1 .. L /\ text[m - 1].mark = "begin" /\ text[m - 1].repo = q
                  BY <1>1, <1>7, <3>1 DEF Alone
            <3>3. m - 1 # i + 1
                  BY <1>2, <3>2
            <3>4. m - 1 \notin {i, i + 1} /\ Place(m - 1, i, M) = k - 1
                  BY <1>2, <3>1, <3>3 DEF Place
            <3> QED BY <1>3, <3>2, <3>4
      <2> QED BY <1>4, <2>1, <2>2
<1> QED BY <1>6, <1>7 DEF Alone

\* The lines that are not of a repository.
Else(q) == {l \in WiredLine : l.repo # q}

\* The lines of a repository are what is left of the text.
LEMMA LinesOfIs ==
    ASSUME NEW text \in Seq(WiredLine), NEW q
    PROVE  LinesOf(text, q) = Sifted(text, Else(q))
<1> DEFINE Of(g) == g = [n \in 0 .. Len(text) |->
                            IF n = 0 THEN <<>> ELSE IF text[n].repo = q THEN Append(g[n - 1], text[n]) ELSE g[n - 1]]
<1>1. PICK L \in Nat : L = Len(text)
      OBVIOUS
<1>2. \A n \in 1 .. L : text[n].repo = q <=> text[n] \notin Else(q)
      BY <1>1 DEF Else
<1>3. ASSUME NEW g, Sifts(text, Else(q), g, L) PROVE Of(g)
      <2>1. \A n \in 0 .. L : n # 0 => n \in 1 .. L
            OBVIOUS
      <2> QED BY <1>1, <1>2, <1>3, <2>1, Zenon DEF Sifts
<1>4. ASSUME NEW g, Of(g) PROVE Sifts(text, Else(q), g, L)
      <2>1. \A n \in 0 .. L : n # 0 => n \in 1 .. L
            OBVIOUS
      <2> QED BY <1>1, <1>2, <1>4, <2>1, Zenon DEF Sifts
<1>5. PICK h : h = CHOOSE g : Sifts(text, Else(q), g, L)
      OBVIOUS
<1>6. \E g : Sifts(text, Else(q), g, L)
      BY <1>1, SiftsExist
<1>7. Sifts(text, Else(q), h, L)
      BY <1>5, <1>6
<1>8. PICK of : of = CHOOSE g : Of(g)
      OBVIOUS
<1>9. Of(of)
      <2>1. \E g : Of(g)
            <3> HIDE DEF Of
            <3> QED BY <1>3, <1>6
      <2> HIDE DEF Of
      <2> QED BY <1>8, <2>1
<1>10. Sifts(text, Else(q), of, L)
      <2> HIDE DEF Of
      <2> QED BY <1>4, <1>9
<1>11. of[L] = h[L]
      BY <1>7, <1>10, SiftsAgree
<1>12. LinesOf(text, q) = of[L]
      BY <1>1, <1>8 DEF LinesOf
<1> QED BY <1>1, <1>5, <1>11, <1>12 DEF Sifted

\* A text with its own two lines in their place.
LEMMA PatchedBack ==
    ASSUME NEW text \in Seq(WiredLine), NEW i \in Nat, i \in 1 .. Len(text), i + 1 \in 1 .. Len(text)
    PROVE  text = Patched(text, i, <<text[i], text[i + 1]>>)
<1>1. PICK L \in Nat : L = Len(text)
      OBVIOUS
<1>2. PICK mid : mid = <<text[i], text[i + 1]>>
      OBVIOUS
<1>3. mid \in Seq(WiredLine) /\ Len(mid) = 2 /\ mid[1] = text[i] /\ mid[2] = text[i + 1]
      BY <1>1, <1>2
<1>4. PICK u : u = Patched(text, i, mid) /\ u \in Seq(WiredLine) /\ IsPatched(u, text, i, mid)
      BY <1>3, PatchedIs
<1>5. Len(u) = L
      BY <1>1, <1>3, <1>4 DEF IsPatched
<1>6. ASSUME NEW k \in 1 .. L PROVE u[k] = text[k]
      <2>1. CASE \E m \in 1 .. 2 : k = i - 1 + m /\ u[k] = mid[m]
            BY <1>3, <2>1
      <2>2. CASE \E m \in i + 2 .. L : k = m + 2 - 2 /\ u[k] = text[m]
            BY <2>2
      <2> QED BY <1>1, <1>3, <1>4, <1>5, <2>1, <2>2 DEF IsPatched
<1>7. u = text
      BY <1>1, <1>4, <1>5, <1>6
<1> QED BY <1>2, <1>4, <1>7

\* What is put in their place does not matter to another repository's lines.
LEMMA PatchedElse ==
    ASSUME NEW text \in Seq(WiredLine), NEW i \in Nat, i \in 1 .. Len(text), i + 1 \in 1 .. Len(text),
           NEW q, NEW mid \in Seq(Else(q))
    PROVE  Sifted(Patched(text, i, mid), Else(q))
               = Sifted(SubSeq(text, 1, i - 1), Else(q)) \o Sifted(SubSeq(text, i + 2, Len(text)), Else(q))
<1>1. PICK a, c : a = SubSeq(text, 1, i - 1) /\ c = SubSeq(text, i + 2, Len(text))
      OBVIOUS
<1>2. a \in Seq(WiredLine) /\ c \in Seq(WiredLine)
      BY <1>1
<1>3. mid \in Seq(WiredLine)
      BY DEF Else
<1>4. a \o mid \in Seq(WiredLine)
      BY <1>2, <1>3, ConcatProperties
<1>5. Sifted((a \o mid) \o c, Else(q)) = Sifted(a \o mid, Else(q)) \o Sifted(c, Else(q))
      BY <1>2, <1>4, SiftedOver
<1>6. Sifted(a \o mid, Else(q)) = Sifted(a, Else(q)) \o Sifted(mid, Else(q))
      BY <1>2, <1>3, SiftedOver
<1>7. Sifted(mid, Else(q)) = <<>>
      BY SiftedNone
<1>8. Sifted(a, Else(q)) \in Seq(WiredLine)
      BY <1>2, SiftedIs
<1>9. Sifted(a, Else(q)) \o <<>> = Sifted(a, Else(q))
      BY <1>8, ConcatEmptySeq
<1>10. Patched(text, i, mid) = (a \o mid) \o c
      BY <1>1 DEF Patched
<1> QED BY <1>1, <1>5, <1>6, <1>7, <1>9, <1>10, Zenon

\* It leaves the lines of the other repositories.
LEMMA PatchLines ==
    ASSUME NEW text \in Seq(WiredLine), NEW i \in Nat, IsSection(text, i), NEW r \in Repos, NEW mid \in Seq(WiredLine),
           Patch(mid, r), NEW q \in Repos, q # r, text[i].repo # q, Patched(text, i, mid) \in Seq(WiredLine)
    PROVE  LinesOf(Patched(text, i, mid), q) = LinesOf(text, q)
<1>1. i \in 1 .. Len(text) /\ i + 1 \in 1 .. Len(text) /\ text[i + 1].repo = text[i].repo
      BY DEF IsSection
<1>2. mid \in Seq(Else(q))
      <2>1. PICK M \in Nat : M = Len(mid)
            OBVIOUS
      <2>2. ASSUME NEW k \in 1 .. M PROVE mid[k] \in Else(q)
            <3>1. mid[k] \in WiredLine
                  BY <2>1
            <3>2. mid[k].mark \in {"begin", "end"} => mid[k].repo = r
                  BY <2>1 DEF Patch
            <3>3. mid[k].mark \notin {"begin", "end"} => mid[k].repo = "none"
                  BY <3>1 DEF WiredLine
            <3>4. q # "none"
                  BY WiredAssumption
            <3> QED BY <3>1, <3>2, <3>3, <3>4 DEF Else
      <2> QED BY <2>1, <2>2
<1>3. PICK own2 : own2 = <<text[i], text[i + 1]>>
      OBVIOUS
<1>4. own2 \in Seq(Else(q))
      <2>1. text[i] \in Else(q) /\ text[i + 1] \in Else(q)
            BY <1>1 DEF Else
      <2> QED BY <1>3, <2>1
<1>5. text = Patched(text, i, own2)
      BY <1>1, <1>3, PatchedBack
<1>6. Sifted(Patched(text, i, own2), Else(q)) = Sifted(Patched(text, i, mid), Else(q))
      <2>1. \A t \in Seq(Else(q)) :
                Sifted(Patched(text, i, t), Else(q))
                    = Sifted(SubSeq(text, 1, i - 1), Else(q)) \o Sifted(SubSeq(text, i + 2, Len(text)), Else(q))
            BY <1>1, PatchedElse
      <2> QED BY <1>2, <1>4, <2>1, Zenon
<1>7. LinesOf(text, q) = Sifted(text, Else(q))
      BY LinesOfIs
<1>8. LinesOf(Patched(text, i, mid), q) = Sifted(Patched(text, i, mid), Else(q))
      BY LinesOfIs
<1> QED BY <1>5, <1>6, <1>7, <1>8

\* The lines of a repository do not change when another's are appended.
LEMMA LinesAppend ==
    ASSUME NEW text \in Seq(WiredLine), NEW q \in Repos, NEW more \in Seq(Else(q))
    PROVE  LinesOf(text \o more, q) = LinesOf(text, q)
<1>1. more \in Seq(WiredLine)
      BY DEF Else
<1>2. text \o more \in Seq(WiredLine)
      BY <1>1, ConcatProperties
<1>3. Sifted(text \o more, Else(q)) = Sifted(text, Else(q)) \o Sifted(more, Else(q))
      BY <1>1, SiftedOver
<1>4. Sifted(more, Else(q)) = <<>>
      BY SiftedNone
<1>5. Sifted(text, Else(q)) \in Seq(WiredLine)
      BY SiftedIs
<1>6. Sifted(text, Else(q)) \o <<>> = Sifted(text, Else(q))
      BY <1>5, ConcatEmptySeq
<1>7. LinesOf(text \o more, q) = Sifted(text \o more, Else(q))
      BY <1>2, LinesOfIs
<1>8. LinesOf(text, q) = Sifted(text, Else(q))
      BY LinesOfIs
<1> QED BY <1>3, <1>4, <1>6, <1>7, <1>8

-----------------------------------------------------------------------------
(* The sections of the git hook.                                               *)

\* What a repository's section is replaced by: another, or nothing.
Put(section, r) == section = <<>> \/ \E ws \in Words : section = Section(r, ws)

\* A section is two lines.
LEMMA SectionIs ==
    ASSUME NEW r \in Repos, NEW ws \in Words
    PROVE  /\ Section(r, ws) \in Seq(WiredLine) /\ Len(Section(r, ws)) = 2
           /\ Section(r, ws)[1] = TextLine("begin", r, ws) /\ Section(r, ws)[2] = TextLine("end", r, ws)
<1>1. TextLine("begin", r, ws) \in WiredLine /\ TextLine("end", r, ws) \in WiredLine
      BY DEF TextLine, WiredLine
<1> QED BY <1>1 DEF Section

\* What is put in a text is lines.
LEMMA PutTyped ==
    ASSUME NEW r \in Repos, NEW section, Put(section, r)
    PROVE  section \in Seq(WiredLine)
<1>1. CASE section = <<>>
      <2>1. <<>> \in Seq(WiredLine)
            OBVIOUS
      <2> QED BY <1>1, <2>1
<1>2. CASE \E ws \in Words : section = Section(r, ws)
      BY <1>2, SectionIs
<1> QED BY <1>1, <1>2 DEF Put

\* What comes in the place of the section at i.
Middle(mid, text, i, r, section) ==
    /\ Patch(mid, r) /\ Replaced(text, <<i, i + 1>>, r, section) = Patched(text, i, mid)
    /\ section = <<>> => \A k \in 1 .. Len(mid) : mid[k].mark = "scrap"
    /\ \A ws \in Words : section = Section(r, ws) => 1 \in 1 .. Len(mid) /\ mid[1] = TextLine("begin", r, ws)

\* A section that is found is replaced by a patch.
LEMMA ReplacedIs ==
    ASSUME NEW text \in Seq(WiredLine), NEW i \in Nat, IsSection(text, i), NEW r \in Repos, NEW section, Put(section, r)
    PROVE  \E mid \in Seq(WiredLine) : Middle(mid, text, i, r, section)
<1>1. PICK scrap : scrap = IF text[i + 1].repo = r THEN <<>> ELSE <<TextLine("scrap", "none", "none")>>
      OBVIOUS
<1>2. PICK one : one = TextLine("scrap", "none", "none")
      OBVIOUS
<1>3. one \in WiredLine /\ one.mark = "scrap"
      BY <1>2 DEF TextLine, WiredLine, Words
<1>4. scrap \in {<<>>, <<one>>}
      BY <1>1, <1>2
<1>5. scrap \in Seq(WiredLine)
      <2>1. <<>> \in Seq(WiredLine) /\ <<one>> \in Seq(WiredLine)
            BY <1>3
      <2> QED BY <1>4, <2>1
<1>6. section \in Seq(WiredLine)
      BY PutTyped
<1>7. PICK a, c : a = SubSeq(text, 1, i - 1) /\ c = SubSeq(text, i + 2, Len(text))
      OBVIOUS
<1>8. a \in Seq(WiredLine)
      <2>1. \A k \in 1 .. i - 1 : text[k] \in WiredLine
            BY DEF IsSection
      <2>2. i - 1 \in Int
            OBVIOUS
      <2> QED BY <1>7, <2>1, <2>2, SubSeqProperties
<1>9. PICK mid : mid = section \o scrap
      OBVIOUS
<1>10. /\ mid \in Seq(WiredLine) /\ Len(mid) = Len(section) + Len(scrap)
       /\ \A k \in 1 .. Len(section) + Len(scrap) :
              mid[k] = IF k <= Len(section) THEN section[k] ELSE scrap[k - Len(section)]
      BY <1>5, <1>6, <1>9, ConcatProperties
<1>11. (a \o section) \o scrap = a \o (section \o scrap)
      <2>1. Joined(WiredLine)
            BY JoinedIs
      <2> QED BY <1>5, <1>6, <1>8, <2>1, Zenon DEF Joined
<1>12. Replaced(text, <<i, i + 1>>, r, section) = Patched(text, i, mid)
      <2>1. <<i, i + 1>>[1] = i /\ <<i, i + 1>>[2] = i + 1 /\ i + 1 + 1 = i + 2
            OBVIOUS
      <2>2. Replaced(text, <<i, i + 1>>, r, section) = ((a \o section) \o scrap) \o c
            BY <1>1, <1>7, <2>1 DEF Replaced
      <2> QED BY <1>7, <1>9, <1>11, <2>2 DEF Patched
<1>13. CASE section = <<>>
      <2>1. Len(section) = 0
            BY <1>13
      <2>2. \A k \in 1 .. Len(mid) : mid[k] = scrap[k]
            BY <1>10, <2>1
      <2>3. \A k \in 1 .. Len(scrap) : scrap[k] = one
            BY <1>4
      <2>4. \A k \in 1 .. Len(mid) : mid[k].mark = "scrap"
            BY <1>3, <1>10, <2>1, <2>2, <2>3
      <2>5. Patch(mid, r)
            BY <1>10, <2>4 DEF Patch
      <2>6. \A ws \in Words : section # Section(r, ws)
            BY <2>1, SectionIs
      <2>7. Middle(mid, text, i, r, section)
            BY <1>12, <2>4, <2>5, <2>6, Zenon DEF Middle
      <2> QED BY <1>10, <2>7
<1>14. ASSUME NEW ws \in Words, section = Section(r, ws)
       PROVE  Patch(mid, r) /\ section # <<>> /\ 1 \in 1 .. Len(mid) /\ mid[1] = TextLine("begin", r, ws)
      <2>1. Len(section) = 2 /\ section[1] = TextLine("begin", r, ws) /\ section[2] = TextLine("end", r, ws)
            BY <1>14, SectionIs
      <2>2. Len(scrap) \in Nat
            BY <1>5
      <2>3. 1 \in 1 .. Len(mid) /\ 2 \in 1 .. Len(mid) /\ mid[1] = section[1] /\ mid[2] = section[2]
            BY <1>10, <2>1, <2>2
      <2>4. ASSUME NEW k \in 1 .. Len(mid), k # 1, k # 2 PROVE mid[k].mark = "scrap"
            <3>1. k - 2 \in 1 .. Len(scrap) /\ mid[k] = scrap[k - 2]
                  BY <1>10, <2>1, <2>2, <2>4
            <3>2. CASE scrap = <<>>
                  <4>1. Len(<<>>) = 0
                        OBVIOUS
                  <4>2. Len(scrap) = 0
                        BY <3>2, <4>1, Zenon
                  <4> QED BY <3>1, <4>2
            <3>3. CASE scrap = <<one>>
                  <4>1. Len(<<one>>) = 1 /\ <<one>>[1] = one
                        OBVIOUS
                  <4>2. Len(scrap) = 1 /\ scrap[1] = one
                        BY <3>3, <4>1, Zenon
                  <4>3. k - 2 = 1
                        BY <3>1, <4>2
                  <4> QED BY <1>3, <3>1, <4>2, <4>3
            <3> QED BY <1>4, <3>2, <3>3
      <2>5. TextLine("begin", r, ws).mark = "begin" /\ TextLine("end", r, ws).mark = "end"
            /\ TextLine("begin", r, ws).repo = r /\ TextLine("end", r, ws).repo = r
            BY DEF TextLine
      <2>6. Patch(mid, r)
            BY <1>10, <2>1, <2>3, <2>4, <2>5 DEF Patch
      <2>7. Len(<<>>) = 0
            OBVIOUS
      <2>8. section # <<>>
            <3>1. SUFFICES ASSUME section = <<>> PROVE FALSE
                  OBVIOUS
            <3>2. Len(section) = 0
                  BY <2>7, <3>1, Zenon
            <3> QED BY <2>1, <3>2
      <2> QED BY <2>1, <2>3, <2>6, <2>8
<1>15. \A v, w \in Words : Section(r, v) = Section(r, w) => TextLine("begin", r, v) = TextLine("begin", r, w)
      BY SectionIs
<1> QED
      <2>1. CASE section = <<>>
            BY <1>13, <2>1
      <2>2. CASE \E ws \in Words : section = Section(r, ws)
            BY <1>10, <1>12, <1>14, <2>2 DEF Middle
      <2> QED BY <2>1, <2>2 DEF Put

\* Between whole sections, what is found for a repository is one of them.
LEMMA SpanIs ==
    ASSUME NEW text \in Seq(WiredLine), NEW r \in Repos, NEW s \in Spans(text, r),
           Whole(text) \/ (alike = {} /\ Loose(text))
    PROVE  \E i \in Nat :
              /\ s = <<i, i + 1>> /\ IsSection(text, i)
              /\ text[i].repo = r \/ <<r, text[i].repo>> \in alike
              /\ \A k \in 1 .. i - 1 : ~(text[k].mark = "begin" /\ text[k].repo = r)
<1>1. PICK L \in Nat : L = Len(text)
      OBVIOUS
<1>2. PICK i \in 1 .. L, j \in 1 .. L : s = <<i, j>>
      BY <1>1 DEF Spans
<1>3. s[1] = i /\ s[2] = j
      BY <1>2
<1>4. /\ i < j /\ Holds(text[i], "begin", r) /\ Holds(text[j], "end", r)
      /\ \A k \in 1 .. i - 1 : ~Holds(text[k], "begin", r)
      /\ \A k \in i + 1 .. j - 1 : ~Holds(text[k], "end", r)
      BY <1>3 DEF Spans
<1>5. i + 1 \in 1 .. L /\ text[i + 1].mark = "end" /\ text[i + 1].repo = text[i].repo
      <2>1. text[i].mark = "begin"
            BY <1>4 DEF Holds
      <2>2. CASE Whole(text)
            BY <1>1, <2>1, <2>2 DEF Whole
      <2>3. CASE alike = {} /\ Loose(text)
            <3>1. text[i].repo = r /\ text[j].repo = r /\ text[j].mark = "end" /\ j \in i + 1 .. L
                  BY <1>4, <2>3 DEF Holds
            <3> QED BY <1>1, <2>1, <2>3, <3>1 DEF Loose
      <2> QED BY <2>2, <2>3
<1>6. Holds(text[i + 1], "end", r)
      BY <1>4, <1>5 DEF Holds
<1>7. j = i + 1
      <2>1. i + 1 \notin i + 1 .. j - 1
            BY <1>4, <1>6
      <2> QED BY <1>4, <2>1
<1>8. IsSection(text, i)
      BY <1>1, <1>4, <1>5 DEF IsSection, Holds
<1>9. \A k \in 1 .. i - 1 : ~(text[k].mark = "begin" /\ text[k].repo = r)
      BY <1>4 DEF Holds
<1>10. text[i].repo = r \/ <<r, text[i].repo>> \in alike
      BY <1>4 DEF Holds
<1>11. i \in Nat /\ s = <<i, i + 1>>
      BY <1>2, <1>7
<1> QED BY <1>8, <1>9, <1>10, <1>11

\* Among whole sections, one is found wherever a marker opens.
LEMMA SpanFound ==
    ASSUME NEW text \in Seq(WiredLine), NEW r \in Repos, Whole(text),
           NEW j \in 1 .. Len(text), Holds(text[j], "begin", r)
    PROVE  Spans(text, r) # {}
<1>1. PICK L \in Nat : L = Len(text)
      OBVIOUS
<1> DEFINE T == {k \in 1 .. L : Holds(text[k], "begin", r)}
<1>2. PICK i \in T : \A k \in T : i <= k
      <2>1. T \in SUBSET Nat /\ T # {}
            BY <1>1
      <2> HIDE DEF T
      <2> QED BY <2>1, Least
<1>3. i \in 1 .. L /\ Holds(text[i], "begin", r) /\ \A k \in 1 .. i - 1 : ~Holds(text[k], "begin", r)
      BY <1>2
<1>4. i + 1 \in 1 .. L /\ text[i + 1].mark = "end" /\ text[i + 1].repo = text[i].repo
      BY <1>1, <1>3 DEF Whole, Holds
<1>5. Holds(text[i + 1], "end", r)
      BY <1>3, <1>4 DEF Holds
<1>6. PICK s : s = <<i, i + 1>>
      OBVIOUS
<1>7. s \in (1 .. L) \X (1 .. L) /\ s[1] = i /\ s[2] = i + 1 /\ i < i + 1 /\ DOMAIN text = 1 .. L
      BY <1>1, <1>3, <1>4, <1>6
<1>8. \A k \in i + 1 .. i + 1 - 1 : FALSE
      BY <1>3
<1>9. s \in Spans(text, r)
      BY <1>3, <1>5, <1>7, <1>8 DEF Spans
<1> QED BY <1>9

\* The rest of a line is a line.
LEMMA ScrapIs == TextLine("scrap", "none", "none") \in WiredLine
BY DEF TextLine, WiredLine, Words

\* What is replaced leaves lines.
LEMMA ReplacedTyped ==
    ASSUME NEW E, NEW text \in Seq(E), NEW r, NEW s \in Spans(text, r), NEW section \in Seq(E),
           TextLine("scrap", "none", "none") \in E
    PROVE  Replaced(text, s, r, section) \in Seq(E)
<1>1. PICK i \in Nat, j \in Nat : s = <<i, j>> /\ i \in 1 .. Len(text) /\ j \in 1 .. Len(text)
      BY DEF Spans
<1>2. PICK scrap : scrap = IF text[j].repo = r THEN <<>> ELSE <<TextLine("scrap", "none", "none")>>
      OBVIOUS
<1>3. scrap \in Seq(E)
      BY <1>2
<1>5. PICK a, c : a = SubSeq(text, 1, i - 1) /\ c = SubSeq(text, j + 1, Len(text))
      OBVIOUS
<1>6. a \in Seq(E) /\ c \in Seq(E)
      BY <1>1, <1>5
<1>7. ((a \o section) \o scrap) \o c \in Seq(E)
      <2>1. a \o section \in Seq(E)
            BY <1>6, ConcatProperties
      <2>2. (a \o section) \o scrap \in Seq(E)
            BY <1>3, <2>1, ConcatProperties
      <2> QED BY <1>6, <2>2, ConcatProperties
<1>8. s[1] = i /\ s[2] = j
      BY <1>1
<1> QED BY <1>2, <1>5, <1>7, <1>8 DEF Replaced

\* What is always so of the git hook.
Sound == hookCut = {} \/ alike = {}

Tidy(text) ==
    /\ text \in Seq(WiredLine)
    /\ hookCut = {} => Whole(text) /\ \A q \in Repos : Apart(q) => Alone(text, q)
    /\ alike = {} => Loose(text)

\* What stays when a command for r writes u over the text.
Keeps(text, u, r) ==
    /\ \A k \in 1 .. Len(text) : text[k].repo # r /\ <<r, text[k].repo>> \notin alike
           => \E j \in 1 .. Len(u) : u[j] = text[k]
    /\ \A j \in 1 .. Len(u) : u[j].repo # r /\ u[j].mark = "begin"
           => \E k \in 1 .. Len(text) : u[j] = text[k]
    /\ \A q \in Repos : q # r /\ <<r, q>> \notin alike => LinesOf(u, q) = LinesOf(text, q)

\* What two steps keep, both keep.
LEMMA KeepsOn ==
    ASSUME NEW t, NEW u, NEW v, NEW r, Keeps(t, u, r), Keeps(u, v, r)
    PROVE  Keeps(t, v, r)
<1>1. ASSUME NEW k \in 1 .. Len(t), t[k].repo # r, <<r, t[k].repo>> \notin alike
      PROVE  \E j \in 1 .. Len(v) : v[j] = t[k]
      <2>1. PICK j \in 1 .. Len(u) : u[j] = t[k]
            BY <1>1 DEF Keeps
      <2>2. u[j].repo # r /\ <<r, u[j].repo>> \notin alike
            BY <1>1, <2>1
      <2>3. PICK m \in 1 .. Len(v) : v[m] = u[j]
            BY <2>2 DEF Keeps
      <2> QED BY <2>1, <2>3
<1>2. ASSUME NEW j \in 1 .. Len(v), v[j].repo # r, v[j].mark = "begin"
      PROVE  \E k \in 1 .. Len(t) : v[j] = t[k]
      <2>1. PICK k \in 1 .. Len(u) : v[j] = u[k]
            BY <1>2 DEF Keeps
      <2>2. u[k].repo # r /\ u[k].mark = "begin"
            BY <1>2, <2>1
      <2>3. PICK m \in 1 .. Len(t) : u[k] = t[m]
            BY <2>2 DEF Keeps
      <2> QED BY <2>1, <2>3
<1>3. \A q \in Repos : q # r /\ <<r, q>> \notin alike => LinesOf(v, q) = LinesOf(t, q)
      BY DEF Keeps
<1> QED BY <1>1, <1>2, <1>3, Zenon DEF Keeps

\* A text keeps itself.
LEMMA KeepsItself == ASSUME NEW t, NEW r PROVE Keeps(t, t, r)
BY DEF Keeps

\* A section that is found is replaced.
LEMMA HookReplaced ==
    ASSUME alike \subseteq Repos \X Repos, NEW text, Tidy(text), NEW r \in Repos, NEW s \in Spans(text, r),
           NEW section, Put(section, r)
    PROVE  \E u : /\ u = Replaced(text, s, r, section) /\ Tidy(u)
                  /\ Sound => Keeps(text, u, r)
                  /\ Apart(r) /\ hookCut = {} /\ section = <<>>
                         => \A k \in 1 .. Len(u) : ~(u[k].mark = "begin" /\ u[k].repo = r)
                  /\ \A ws \in Words : Sound /\ section = Section(r, ws)
                         => \E k \in 1 .. Len(u) : u[k] = TextLine("begin", r, ws)
<1>1. PICK u : u = Replaced(text, s, r, section)
      OBVIOUS
<1>2. text \in Seq(WiredLine) /\ u \in Seq(WiredLine)
      <2>1. text \in Seq(WiredLine) /\ section \in Seq(WiredLine)
            BY PutTyped DEF Tidy
      <2> QED BY <1>1, <2>1, ScrapIs, ReplacedTyped
<1>3. CASE ~Sound
      BY <1>1, <1>2, <1>3 DEF Sound, Tidy
<1>4. CASE Sound
      <2>1. Whole(text) \/ (alike = {} /\ Loose(text))
            BY <1>4 DEF Sound, Tidy
      <2>2. PICK i \in Nat : /\ s = <<i, i + 1>> /\ IsSection(text, i)
                             /\ text[i].repo = r \/ <<r, text[i].repo>> \in alike
                             /\ \A k \in 1 .. i - 1 : ~(text[k].mark = "begin" /\ text[k].repo = r)
            BY <1>2, <2>1, SpanIs
      <2>0. PICK mid \in Seq(WiredLine) : Middle(mid, text, i, r, section)
            BY <1>2, <2>2, ReplacedIs
      <2>3. /\ Patch(mid, r) /\ Replaced(text, <<i, i + 1>>, r, section) = Patched(text, i, mid)
            /\ section = <<>> => \A k \in 1 .. Len(mid) : mid[k].mark = "scrap"
            /\ \A ws \in Words : section = Section(r, ws) => 1 \in 1 .. Len(mid) /\ mid[1] = TextLine("begin", r, ws)
            BY <2>0 DEF Middle
      <2>4. u = Patched(text, i, mid)
            BY <1>1, <2>2, <2>3
      <2>5. i \in 1 .. Len(text) /\ i + 1 \in 1 .. Len(text) /\ text[i].mark = "begin"
            /\ text[i + 1].mark = "end" /\ text[i + 1].repo = text[i].repo
            BY <2>2 DEF IsSection
      <2>6. IsPatched(u, text, i, mid)
            <3>1. \E w : w = Patched(text, i, mid) /\ w \in Seq(WiredLine) /\ IsPatched(w, text, i, mid)
                  BY <1>2, <2>5, PatchedIs
            <3> QED BY <2>4, <3>1
      <2>7. Placed(u, text, i, mid)
            BY <1>2, <2>2, <2>6, PatchPlaces
      <2>8. ASSUME hookCut = {} PROVE Whole(u)
            <3>1. Whole(text)
                  BY <2>8 DEF Tidy
            <3> QED BY <1>2, <2>2, <2>3, <2>6, <3>1, PatchWhole
      <2>9. ASSUME hookCut = {}, NEW q \in Repos, Apart(q) PROVE Alone(u, q)
            <3>1. Alone(text, q)
                  BY <2>9 DEF Tidy
            <3>2. text[i].repo = q <=> q = r
                  <4>1. text[i].repo = q /\ q # r => <<r, q>> \in alike
                        BY <2>2
                  <4>2. q = r /\ text[i].repo # q => <<q, text[i].repo>> \in alike
                        BY <2>2
                  <4>3. \A p \in Repos : <<p, q>> \notin alike /\ <<q, p>> \notin alike
                        BY <2>9 DEF Apart
                  <4>4. <<q, text[i].repo>> \in alike => text[i].repo \in Repos
                        OBVIOUS
                  <4> QED BY <4>1, <4>2, <4>3, <4>4
            <3> QED BY <1>2, <2>2, <2>3, <2>6, <3>1, <3>2, PatchAlone
      <2>10. ASSUME alike = {} PROVE Loose(u)
            <3>1. Loose(text) /\ text[i].repo = r
                  BY <2>2, <2>10 DEF Tidy
            <3> QED BY <1>2, <2>2, <2>3, <2>6, <3>1, PatchLoose
      <2>11. Tidy(u)
            BY <1>2, <2>8, <2>9, <2>10 DEF Tidy
      <2>12. ASSUME NEW k \in 1 .. Len(text), text[k].repo # r, <<r, text[k].repo>> \notin alike
             PROVE  \E j \in 1 .. Len(u) : u[j] = text[k]
            <3>1. k \notin {i, i + 1}
                  BY <2>2, <2>5, <2>12
            <3>2. Place(k, i, Len(mid)) \in 1 .. Len(u) /\ u[Place(k, i, Len(mid))] = text[k]
                  BY <2>7, <3>1 DEF Placed
            <3> QED BY <3>2
      <2>13. ASSUME NEW j \in 1 .. Len(u), u[j].repo # r, u[j].mark = "begin"
             PROVE  \E k \in 1 .. Len(text) : u[j] = text[k]
            <3>1. CASE \E m \in 1 .. Len(mid) : j = i - 1 + m /\ u[j] = mid[m]
                  BY <2>3, <2>13, <3>1 DEF Patch
            <3>2. CASE \E m \in 1 .. Len(text) : m \notin {i, i + 1} /\ j = Place(m, i, Len(mid)) /\ u[j] = text[m]
                  BY <3>2
            <3> QED BY <2>7, <3>1, <3>2 DEF Placed
      <2>14. ASSUME NEW q \in Repos, q # r, <<r, q>> \notin alike PROVE LinesOf(u, q) = LinesOf(text, q)
            <3>1. text[i].repo # q
                  BY <2>2, <2>14
            <3> QED BY <1>2, <2>2, <2>3, <2>4, <2>14, <3>1, PatchLines
      <2>15. Keeps(text, u, r)
            BY <2>12, <2>13, <2>14 DEF Keeps
      <2>16. ASSUME Apart(r), hookCut = {}, section = <<>>, NEW k \in 1 .. Len(u), u[k].mark = "begin", u[k].repo = r
             PROVE  FALSE
            <3>1. text[i].repo = r
                  <4>1. <<r, text[i].repo>> \in alike => text[i].repo \in Repos
                        OBVIOUS
                  <4> QED BY <2>2, <2>16, <4>1 DEF Apart
            <3>2. Alone(text, r)
                  BY <2>16 DEF Tidy
            <3>3. CASE \E m \in 1 .. Len(mid) : k = i - 1 + m /\ u[k] = mid[m]
                  BY <2>3, <2>16, <3>3
            <3>4. CASE \E m \in 1 .. Len(text) : m \notin {i, i + 1} /\ k = Place(m, i, Len(mid)) /\ u[k] = text[m]
                  BY <2>5, <2>16, <3>1, <3>2, <3>4 DEF Alone
            <3> QED BY <2>7, <3>3, <3>4 DEF Placed
      <2>17. ASSUME NEW ws \in Words, section = Section(r, ws)
             PROVE  \E k \in 1 .. Len(u) : u[k] = TextLine("begin", r, ws)
            <3>1. 1 \in 1 .. Len(mid) /\ mid[1] = TextLine("begin", r, ws)
                  BY <2>3, <2>17
            <3>2. i - 1 + 1 \in 1 .. Len(u) /\ u[i - 1 + 1] = mid[1]
                  BY <2>7, <3>1 DEF Placed
            <3> QED BY <3>1, <3>2
      <2> QED BY <1>1, <2>11, <2>15, <2>16, <2>17
<1> QED BY <1>3, <1>4

\* A section that is appended, where none was opened.
IsAppended(u, text, r, ws) ==
    /\ \A k \in 1 .. Len(text) : k \in 1 .. Len(u) /\ u[k] = text[k]
    /\ \A j \in 1 .. Len(u) : u[j].repo # r => j \in 1 .. Len(text)
    /\ \E k \in 1 .. Len(u) : u[k] = TextLine("begin", r, ws)
    /\ Whole(text) => Whole(u)
    /\ Loose(text) => Loose(u)
    /\ \A q \in Repos : Alone(text, q) => Alone(u, q)

\* A section at the end, line by line.
LEMMA SectionAppended ==
    ASSUME NEW text \in Seq(WiredLine), NEW r \in Repos, NEW ws \in Words,
           \A k \in 1 .. Len(text) : ~(text[k].mark = "begin" /\ text[k].repo = r)
    PROVE  \E u \in Seq(WiredLine) : u = text \o Section(r, ws) /\ IsAppended(u, text, r, ws)
<1>2. PICK new : new = Section(r, ws)
      OBVIOUS
<1>3. new \in Seq(WiredLine) /\ Len(new) = 2 /\ new[1] = TextLine("begin", r, ws) /\ new[2] = TextLine("end", r, ws)
      BY <1>2, SectionIs
<1>4. PICK u : u = text \o new
      OBVIOUS
<1>5. PICK L \in Nat : L = Len(text)
      OBVIOUS
<1>6. u \in Seq(WiredLine) /\ Len(u) = L + 2
      /\ \A k \in 1 .. L + 2 : u[k] = IF k <= L THEN text[k] ELSE new[k - L]
      <2>1. /\ text \o new \in Seq(WiredLine) /\ Len(text \o new) = Len(text) + Len(new)
            /\ \A k \in 1 .. Len(text) + Len(new) :
                   (text \o new)[k] = IF k <= Len(text) THEN text[k] ELSE new[k - Len(text)]
            BY <1>3, ConcatProperties
      <2> QED BY <1>3, <1>4, <1>5, <2>1
<1>7. /\ \A k \in 1 .. L : k \in 1 .. L + 2 /\ u[k] = text[k]
      /\ u[L + 1] = new[1] /\ u[L + 2] = new[2] /\ L + 1 \in 1 .. L + 2 /\ L + 2 \in 1 .. L + 2
      /\ \A k \in 1 .. L + 2 : k \in 1 .. L \/ k = L + 1 \/ k = L + 2
      BY <1>5, <1>6
<1>8. /\ u[L + 1].mark = "begin" /\ u[L + 1].repo = r /\ u[L + 2].mark = "end" /\ u[L + 2].repo = r
      BY <1>3, <1>7 DEF TextLine
<1>9. \A k \in 1 .. L : ~(text[k].mark = "begin" /\ text[k].repo = r)
      BY <1>5
<1>10. ASSUME Whole(text) PROVE Whole(u)
      <2>1. ASSUME NEW k \in 1 .. L, u[k].mark = "begin"
            PROVE  k + 1 \in 1 .. L + 2 /\ u[k + 1].mark = "end" /\ u[k + 1].repo = u[k].repo
            <3>1. k + 1 \in 1 .. L /\ text[k + 1].mark = "end" /\ text[k + 1].repo = text[k].repo
                  BY <1>5, <1>7, <1>10, <2>1 DEF Whole
            <3> QED BY <1>7, <3>1
      <2>2. L + 1 + 1 = L + 2
            BY <1>5
      <2> QED BY <1>6, <1>7, <1>8, <2>1, <2>2 DEF Whole
<1>11. ASSUME Loose(text) PROVE Loose(u)
      <2>1. ASSUME NEW k \in 1 .. L, u[k].mark = "begin"
            PROVE  \/ k + 1 \in 1 .. L + 2 /\ u[k + 1].mark = "end" /\ u[k + 1].repo = u[k].repo
                   \/ \A j \in k + 1 .. L + 2 : ~(u[j].mark = "end" /\ u[j].repo = u[k].repo)
            <3>1. u[k] = text[k] /\ u[k].repo # r
                  BY <1>7, <1>9, <2>1
            <3>2. CASE k + 1 \in 1 .. L /\ text[k + 1].mark = "end" /\ text[k + 1].repo = text[k].repo
                  BY <1>7, <3>1, <3>2
            <3>3. CASE \A j \in k + 1 .. L : ~(text[j].mark = "end" /\ text[j].repo = text[k].repo)
                  <4>1. \A j \in k + 1 .. L + 2 : (j \in 1 .. L /\ j \in k + 1 .. L) \/ j = L + 1 \/ j = L + 2
                        BY <1>5
                  <4> QED BY <1>7, <1>8, <3>1, <3>3, <4>1
            <3> QED BY <1>5, <1>11, <2>1, <3>1, <3>2, <3>3 DEF Loose
      <2>2. L + 1 + 1 = L + 2
            BY <1>5
      <2>3. u[L + 2].mark # "begin"
            BY <1>8
      <2> QED BY <1>6, <1>7, <1>8, <2>1, <2>2, <2>3 DEF Loose
<1>12. ASSUME NEW q \in Repos, Alone(text, q) PROVE Alone(u, q)
      <2>1. ASSUME NEW i \in 1 .. L + 2, NEW j \in 1 .. L + 2, u[i].mark = "begin", u[j].mark = "begin",
                   u[i].repo = q, u[j].repo = q
            PROVE  i = j
            <3>1. CASE q = r
                  <4>1. i \notin 1 .. L /\ j \notin 1 .. L /\ u[L + 2].mark # "begin"
                        BY <1>7, <1>8, <1>9, <2>1, <3>1
                  <4> QED BY <1>7, <2>1, <4>1
            <3>2. CASE q # r
                  <4>1. i \in 1 .. L /\ j \in 1 .. L
                        BY <1>7, <1>8, <2>1, <3>2
                  <4> QED BY <1>5, <1>7, <1>12, <2>1, <4>1 DEF Alone
            <3> QED BY <3>1, <3>2
      <2>2. ASSUME NEW i \in 1 .. L + 2, u[i].mark = "end", u[i].repo = q
            PROVE  i - 1 \in 1 .. L + 2 /\ u[i - 1].mark = "begin" /\ u[i - 1].repo = q
            <3>1. CASE i \in 1 .. L
                  <4>1. i - 1 \in 1 .. L /\ text[i - 1].mark = "begin" /\ text[i - 1].repo = q
                        BY <1>5, <1>7, <1>12, <2>2, <3>1 DEF Alone
                  <4> QED BY <1>7, <4>1
            <3>2. CASE i = L + 1
                  BY <1>8, <2>2, <3>2
            <3>3. CASE i = L + 2
                  <4>1. i - 1 = L + 1
                        BY <1>5, <3>3
                  <4> QED BY <1>7, <1>8, <2>2, <3>3, <4>1
            <3> QED BY <1>7, <3>1, <3>2, <3>3
      <2> QED BY <1>6, <2>1, <2>2 DEF Alone
<1>13. ASSUME NEW j \in 1 .. L + 2, u[j].repo # r PROVE j \in 1 .. L
      BY <1>7, <1>8, <1>13
<1>14. \E k \in 1 .. Len(u) : u[k] = TextLine("begin", r, ws)
      BY <1>3, <1>6, <1>7
<1>15. \A k \in 1 .. Len(text) : k \in 1 .. Len(u) /\ u[k] = text[k]
      BY <1>5, <1>6, <1>7
<1>16. \A j \in 1 .. Len(u) : u[j].repo # r => j \in 1 .. Len(text)
      BY <1>5, <1>6, <1>13
<1>17. IsAppended(u, text, r, ws)
      BY <1>10, <1>11, <1>12, <1>14, <1>15, <1>16, Zenon DEF IsAppended
<1> QED BY <1>2, <1>4, <1>6, <1>17

\* A section at the end of the hook leaves it tidy.
LEMMA HookAppended ==
    ASSUME NEW text, Tidy(text), NEW r \in Repos, NEW ws \in Words,
           \A k \in 1 .. Len(text) : ~Holds(text[k], "begin", r)
    PROVE  /\ Tidy(text \o Section(r, ws)) /\ Keeps(text, text \o Section(r, ws), r)
           /\ \E k \in 1 .. Len(text \o Section(r, ws)) : (text \o Section(r, ws))[k] = TextLine("begin", r, ws)
<1>1. text \in Seq(WiredLine) /\ \A k \in 1 .. Len(text) : ~(text[k].mark = "begin" /\ text[k].repo = r)
      BY DEF Tidy, Holds
<1>2. PICK u \in Seq(WiredLine) : u = text \o Section(r, ws) /\ IsAppended(u, text, r, ws)
      BY <1>1, SectionAppended
<1>3. Tidy(u)
      BY <1>2 DEF Tidy, IsAppended
<1>4. ASSUME NEW q \in Repos, q # r PROVE LinesOf(u, q) = LinesOf(text, q)
      <2>1. TextLine("begin", r, ws) \in Else(q) /\ TextLine("end", r, ws) \in Else(q)
            BY <1>4 DEF Else, TextLine, WiredLine
      <2>2. Section(r, ws) \in Seq(Else(q))
            BY <2>1 DEF Section
      <2> QED BY <1>1, <1>2, <2>2, LinesAppend
<1>5. Keeps(text, u, r)
      BY <1>2, <1>4 DEF Keeps, IsAppended
<1>6. \E k \in 1 .. Len(u) : u[k] = TextLine("begin", r, ws)
      BY <1>2 DEF IsAppended
<1> QED BY <1>2, <1>3, <1>5, <1>6, Zenon

\* installMarkerSection.
LEMMA HookWithIs ==
    ASSUME alike \subseteq Repos \X Repos, Tidy(gitHook), NEW r \in Repos, NEW ws \in Words
    PROVE  \E u : /\ u = HookWith(r, ws) /\ Tidy(u)
                  /\ Sound => Keeps(gitHook, u, r)
                  /\ Apart(r) /\ hookCut = {} => \E k \in 1 .. Len(u) : u[k] = TextLine("begin", r, ws)
<1>1. PICK new : new = Section(r, ws)
      OBVIOUS
<1>2. gitHook \in Seq(WiredLine) /\ DOMAIN gitHook = 1 .. Len(gitHook) /\ Put(new, r)
      BY <1>1 DEF Tidy, Put
<1>3. CASE \A k \in 1 .. Len(gitHook) : ~Holds(gitHook[k], "begin", r)
      <2>1. HookWith(r, ws) = gitHook \o new
            <3>1. ~\E k \in DOMAIN gitHook : Holds(gitHook[k], "begin", r)
                  BY <1>2, <1>3, Zenon
            <3> QED BY <1>1, <3>1, Zenon DEF HookWith
      <2>2. PICK u : u = gitHook \o Section(r, ws)
            OBVIOUS
      <2>3. Tidy(u) /\ Keeps(gitHook, u, r) /\ \E k \in 1 .. Len(u) : u[k] = TextLine("begin", r, ws)
            BY <1>3, <2>2, HookAppended
      <2> QED BY <1>1, <2>1, <2>2, <2>3, Zenon
<1>4. CASE /\ ~\A k \in 1 .. Len(gitHook) : ~Holds(gitHook[k], "begin", r)
           /\ Spans(gitHook, r) = {}
      <2>1. HookWith(r, ws) = gitHook
            <3>1. \E k \in DOMAIN gitHook : Holds(gitHook[k], "begin", r)
                  BY <1>2, <1>4, Zenon
            <3> QED BY <1>4, <3>1, Zenon DEF HookWith
      <2>2. hookCut # {}
            BY <1>2, <1>4, SpanFound DEF Tidy
      <2> QED BY <2>1, <2>2, KeepsItself
<1>5. CASE /\ ~\A k \in 1 .. Len(gitHook) : ~Holds(gitHook[k], "begin", r)
           /\ Spans(gitHook, r) # {}
      <2>1. PICK s : s = CHOOSE z \in Spans(gitHook, r) : TRUE
            OBVIOUS
      <2>2. s \in Spans(gitHook, r)
            BY <1>5, <2>1
      <2>3. HookWith(r, ws) = Replaced(gitHook, s, r, new)
            BY <1>1, <1>2, <1>5, <2>1 DEF HookWith
      <2>4. \E u : /\ u = Replaced(gitHook, s, r, new) /\ Tidy(u)
                   /\ Sound => Keeps(gitHook, u, r)
                   /\ Apart(r) /\ hookCut = {} /\ new = <<>>
                          => \A k \in 1 .. Len(u) : ~(u[k].mark = "begin" /\ u[k].repo = r)
                   /\ \A w \in Words : Sound /\ new = Section(r, w)
                          => \E k \in 1 .. Len(u) : u[k] = TextLine("begin", r, w)
            BY <1>2, <2>2, HookReplaced
      <2> QED BY <1>1, <2>3, <2>4 DEF Sound
<1> QED BY <1>3, <1>4, <1>5

\* One section less, if there is one.
Less(text, r) ==
    IF Spans(text, r) = {} THEN text ELSE Replaced(text, CHOOSE s \in Spans(text, r) : TRUE, r, <<>>)

\* One section less leaves it tidy, and nothing of the repository where it was alone.
LEMMA LessIs ==
    ASSUME alike \subseteq Repos \X Repos, NEW text, Tidy(text), NEW r \in Repos
    PROVE  \E u : /\ u = Less(text, r) /\ Tidy(u)
                  /\ Sound => Keeps(text, u, r)
                  /\ Apart(r) /\ hookCut = {} => \A k \in 1 .. Len(u) : ~(u[k].mark = "begin" /\ u[k].repo = r)
<1>1. CASE Spans(text, r) = {}
      <2>1. Less(text, r) = text
            BY <1>1 DEF Less
      <2>2. ASSUME hookCut = {}, NEW k \in 1 .. Len(text), text[k].mark = "begin", text[k].repo = r
            PROVE  FALSE
            <3>1. text \in Seq(WiredLine) /\ Whole(text) /\ Holds(text[k], "begin", r)
                  BY <2>2 DEF Tidy, Holds
            <3> QED BY <1>1, <3>1, SpanFound
      <2> QED BY <2>1, <2>2, KeepsItself
<1>2. CASE Spans(text, r) # {}
      <2>1. PICK s : s = CHOOSE z \in Spans(text, r) : TRUE
            OBVIOUS
      <2>2. s \in Spans(text, r)
            BY <1>2, <2>1
      <2>3. Less(text, r) = Replaced(text, s, r, <<>>)
            BY <1>2, <2>1 DEF Less
      <2>4. Put(<<>>, r)
            BY DEF Put
      <2>5. \E u : /\ u = Replaced(text, s, r, <<>>) /\ Tidy(u)
                   /\ Sound => Keeps(text, u, r)
                   /\ Apart(r) /\ hookCut = {} /\ <<>> = <<>>
                          => \A k \in 1 .. Len(u) : ~(u[k].mark = "begin" /\ u[k].repo = r)
                   /\ \A w \in Words : Sound /\ <<>> = Section(r, w)
                          => \E k \in 1 .. Len(u) : u[k] = TextLine("begin", r, w)
            BY <2>2, <2>4, HookReplaced
      <2> QED BY <2>3, <2>5
<1> QED BY <1>1, <1>2

\* One after the other, from the text as it is.
Going(g, n, r) ==
    g = [k \in 0 .. n |-> IF k = 0 THEN gitHook ELSE Less(g[k - 1], r)]

\* There is such a function.
LEMMA GoingExists ==
    ASSUME NEW L \in Nat, NEW r
    PROVE  \E g : Going(g, L, r)
<1> DEFINE T == {n \in 0 .. L : \E g : Going(g, n, r)}
<1>1. 0 \in T
      <2>1. PICK g : g = [k \in 0 .. 0 |-> gitHook]
            OBVIOUS
      <2>2. Going(g, 0, r)
            BY <2>1 DEF Going
      <2> QED BY <2>2
<1>2. ASSUME NEW n \in 0 .. L - 1, n \in T PROVE n + 1 \in T
      <2>1. PICK g : Going(g, n, r)
            BY <1>2
      <2>2. PICK h : h = [k \in 0 .. n + 1 |-> IF k = n + 1 THEN Less(g[n], r) ELSE g[k]]
            OBVIOUS
      <2>3. \A k \in 0 .. n : h[k] = g[k] /\ k # n + 1
            BY <2>2
      <2>4. h[0] = gitHook
            BY <2>1, <2>3 DEF Going
      <2>5. ASSUME NEW k \in 1 .. n PROVE h[k] = Less(h[k - 1], r)
            <3>1. k \in 0 .. n /\ k - 1 \in 0 .. n /\ k # 0
                  OBVIOUS
            <3>2. g[k] = Less(g[k - 1], r)
                  BY <2>1, <3>1 DEF Going
            <3> QED BY <2>3, <3>1, <3>2
      <2>6. h[n + 1] = Less(h[n], r)
            BY <2>2, <2>3
      <2>7. ASSUME NEW k \in 0 .. n + 1 PROVE h[k] = IF k = 0 THEN gitHook ELSE Less(h[k - 1], r)
            <3>1. k = 0 \/ k \in 1 .. n \/ (k = n + 1 /\ k # 0 /\ k - 1 = n)
                  OBVIOUS
            <3>2. k \in 1 .. n => k # 0
                  OBVIOUS
            <3> QED BY <2>4, <2>5, <2>6, <3>1, <3>2
      <2>8. Going(h, n + 1, r)
            BY <2>2, <2>7 DEF Going
      <2> QED BY <2>8
<1>3. L \in T
      <2> HIDE DEF T
      <2> QED BY <1>1, <1>2, UpTo
<1> QED BY <1>3

Undone(t, n, r) ==
    /\ Tidy(t)
    /\ Sound => Keeps(gitHook, t, r)
    /\ n # 0 /\ Apart(r) /\ hookCut = {}
           => \A k \in 1 .. Len(t) : ~(t[k].mark = "begin" /\ t[k].repo = r)

\* uninstallMarkerSection.
LEMMA HookWithoutIs ==
    ASSUME alike \subseteq Repos \X Repos, Tidy(gitHook), NEW r \in Repos
    PROVE  \E u : /\ u = HookWithout(r) /\ Tidy(u)
                  /\ Sound => Keeps(gitHook, u, r)
                  /\ Apart(r) /\ hookCut = {} => \A k \in 1 .. Len(u) : ~(u[k].mark = "begin" /\ u[k].repo = r)
<1>1. PICK L \in Nat : L = Len(gitHook)
      BY DEF Tidy
<1>2. PICK g : g = CHOOSE f : Going(f, L, r)
      OBVIOUS
<1>3. Going(g, L, r)
      BY <1>2, GoingExists
<1>4. HookWithout(r) = g[L]
      BY <1>1, <1>2 DEF HookWithout, Going, Less
<1>5. g[0] = gitHook /\ \A k \in 1 .. L : g[k] = Less(g[k - 1], r)
      <2>1. \A k \in 1 .. L : k \in 0 .. L /\ k # 0
            OBVIOUS
      <2> QED BY <1>3, <2>1 DEF Going
<1> DEFINE T == {n \in 0 .. L : Undone(g[n], n, r)}
<1>6. 0 \in T
      <2>1. Undone(gitHook, 0, r)
            BY KeepsItself DEF Undone
      <2> QED BY <1>5, <2>1
<1>7. ASSUME NEW n \in 0 .. L - 1, n \in T PROVE n + 1 \in T
      <2>1. n + 1 \in 1 .. L /\ n + 1 \in 0 .. L /\ (n + 1) - 1 = n
            BY <1>1
      <2>2. PICK t : t = g[n]
            OBVIOUS
      <2>3. Undone(t, n, r)
            BY <1>7, <2>2
      <2>4. PICK u : /\ u = Less(t, r) /\ Tidy(u)
                     /\ Sound => Keeps(t, u, r)
                     /\ Apart(r) /\ hookCut = {} => \A k \in 1 .. Len(u) : ~(u[k].mark = "begin" /\ u[k].repo = r)
            BY <2>3, LessIs DEF Undone
      <2>5. ASSUME Sound PROVE Keeps(gitHook, u, r)
            <3>1. Keeps(gitHook, t, r) /\ Keeps(t, u, r)
                  BY <2>3, <2>4, <2>5 DEF Undone
            <3> QED BY <3>1, KeepsOn
      <2>6. Undone(u, n + 1, r)
            BY <2>4, <2>5 DEF Undone
      <2>7. g[n + 1] = u
            <3>1. g[n + 1] = Less(g[(n + 1) - 1], r)
                  BY <1>5, <2>1
            <3> QED BY <2>1, <2>2, <2>4, <3>1
      <2> QED BY <2>1, <2>6, <2>7
<1>8. L \in T
      <2> HIDE DEF T
      <2> QED BY <1>6, <1>7, UpTo
<1>9. PICK u : u = g[L] /\ Undone(u, L, r)
      BY <1>8
<1>10. ASSUME L = 0 PROVE \A k \in 1 .. Len(u) : FALSE
      <2>1. Len(u) = 0
            BY <1>1, <1>5, <1>9, <1>10
      <2> QED BY <2>1
<1>11. Apart(r) /\ hookCut = {} => \A k \in 1 .. Len(u) : ~(u[k].mark = "begin" /\ u[k].repo = r)
      BY <1>9, <1>10 DEF Undone
<1> QED BY <1>4, <1>9, <1>11 DEF Undone

-----------------------------------------------------------------------------
(* The section of CLAUDE.md.                                                   *)

Mine(r) == {l \in WiredLine : l.repo \in {r, "none"}}

Unopened(text) == \A k \in 1 .. Len(text) : text[k].mark # "begin"

MdKeeps(text, u) ==
    \A k \in 1 .. Len(text) : text[k].mark = "user" => \E j \in 1 .. Len(u) : u[j] = text[k]

\* In a repository's own file, what opens is its own.
LEMMA OwnMarkers ==
    ASSUME NEW r \in Repos, NEW text \in Seq(Mine(r))
    PROVE  /\ text \in Seq(WiredLine)
           /\ \A k \in 1 .. Len(text) : text[k].mark \in {"begin", "end"} => text[k].repo = r
<1>1. text \in Seq(WiredLine)
      BY DEF Mine
<1>2. ASSUME NEW k \in 1 .. Len(text), text[k].mark \in {"begin", "end"} PROVE text[k].repo = r
      <2>1. text[k] \in Mine(r)
            OBVIOUS
      <2>2. text[k].repo \in Repos
            BY <1>2, <2>1 DEF Mine, WiredLine
      <2> QED BY <2>1, <2>2, WiredAssumption DEF Mine
<1> QED BY <1>1, <1>2

\* What a replaced section leaves in a repository's own file.
LEMMA MdReplaced ==
    ASSUME NEW r \in Repos, NEW text \in Seq(Mine(r)), NEW s \in Spans(text, r), NEW section, Put(section, r)
    PROVE  \E u \in Seq(Mine(r)) :
              /\ u = Replaced(text, s, r, section)
              /\ Whole(text) => Whole(u) /\ MdKeeps(text, u)
              /\ Whole(text) /\ Alone(text, r) => Alone(u, r)
              /\ Whole(text) /\ Alone(text, r) /\ section = <<>> => Unopened(u)
<1>1. PICK u : u = Replaced(text, s, r, section)
      OBVIOUS
<1>2. text \in Seq(WiredLine) /\ \A k \in 1 .. Len(text) : text[k].mark \in {"begin", "end"} => text[k].repo = r
      BY OwnMarkers
<1>3. section \in Seq(Mine(r))
      <2>1. CASE section = <<>>
            <3>1. <<>> \in Seq(Mine(r))
                  OBVIOUS
            <3> QED BY <2>1, <3>1
      <2>2. CASE \E ws \in Words : section = Section(r, ws)
            <3>1. PICK ws \in Words : section = Section(r, ws)
                  BY <2>2
            <3>2. TextLine("begin", r, ws) \in Mine(r) /\ TextLine("end", r, ws) \in Mine(r)
                  BY DEF TextLine, Mine, WiredLine
            <3> QED BY <3>1, <3>2 DEF Section
      <2> QED BY <2>1, <2>2 DEF Put
<1>4. TextLine("scrap", "none", "none") \in Mine(r)
      BY ScrapIs DEF Mine, TextLine
<1>5. u \in Seq(Mine(r))
      BY <1>1, <1>3, <1>4, ReplacedTyped
<1>6. u \in Seq(WiredLine)
      BY <1>5, OwnMarkers
<1>7. CASE ~Whole(text)
      BY <1>1, <1>5, <1>7
<1>8. CASE Whole(text)
      <2>1. PICK i \in Nat : s = <<i, i + 1>> /\ IsSection(text, i)
            BY <1>2, <1>8, SpanIs
      <2>0. PICK mid \in Seq(WiredLine) : Middle(mid, text, i, r, section)
            BY <1>2, <2>1, ReplacedIs
      <2>2. /\ Patch(mid, r) /\ Replaced(text, <<i, i + 1>>, r, section) = Patched(text, i, mid)
            /\ section = <<>> => \A k \in 1 .. Len(mid) : mid[k].mark = "scrap"
            BY <2>0 DEF Middle
      <2>3. u = Patched(text, i, mid)
            BY <1>1, <2>1, <2>2
      <2>4. i \in 1 .. Len(text) /\ i + 1 \in 1 .. Len(text) /\ text[i].mark = "begin" /\ text[i + 1].mark = "end"
            BY <2>1 DEF IsSection
      <2>5. text[i].repo = r
            BY <1>2, <2>4
      <2>6. IsPatched(u, text, i, mid)
            <3>1. \E w : w = Patched(text, i, mid) /\ w \in Seq(WiredLine) /\ IsPatched(w, text, i, mid)
                  BY <1>2, <2>4, PatchedIs
            <3> QED BY <2>3, <3>1
      <2>7. Placed(u, text, i, mid)
            BY <1>2, <1>6, <2>1, <2>6, PatchPlaces
      <2>8. Whole(u)
            BY <1>2, <1>6, <1>8, <2>1, <2>2, <2>6, PatchWhole
      <2>9. MdKeeps(text, u)
            <3>1. ASSUME NEW k \in 1 .. Len(text), text[k].mark = "user" PROVE \E j \in 1 .. Len(u) : u[j] = text[k]
                  <4>1. k \notin {i, i + 1}
                        BY <2>4, <3>1
                  <4>2. Place(k, i, Len(mid)) \in 1 .. Len(u) /\ u[Place(k, i, Len(mid))] = text[k]
                        BY <2>7, <4>1 DEF Placed
                  <4> QED BY <4>2
            <3> QED BY <3>1 DEF MdKeeps
      <2>10. ASSUME Alone(text, r) PROVE Alone(u, r)
            BY <1>2, <1>6, <2>1, <2>2, <2>5, <2>6, <2>10, PatchAlone
      <2>11. ASSUME Alone(text, r), section = <<>>, NEW k \in 1 .. Len(u), u[k].mark = "begin" PROVE FALSE
            <3>1. CASE \E m \in 1 .. Len(mid) : k = i - 1 + m /\ u[k] = mid[m]
                  BY <2>2, <2>11, <3>1
            <3>2. CASE \E m \in 1 .. Len(text) : m \notin {i, i + 1} /\ k = Place(m, i, Len(mid)) /\ u[k] = text[m]
                  <4>1. PICK m \in 1 .. Len(text) : m \notin {i, i + 1} /\ u[k] = text[m]
                        BY <3>2
                  <4>2. text[m].repo = r
                        BY <1>2, <2>11, <4>1
                  <4> QED BY <2>4, <2>5, <2>11, <4>1, <4>2 DEF Alone
            <3> QED BY <2>7, <3>1, <3>2 DEF Placed
      <2> QED BY <1>1, <1>5, <2>8, <2>9, <2>10, <2>11 DEF Unopened
<1> QED BY <1>7, <1>8

\* Where no section is found, none is open.
LEMMA MdUnopened ==
    ASSUME NEW r \in Repos, NEW text \in Seq(Mine(r)), Whole(text), Spans(text, r) = {}
    PROVE  Unopened(text)
<1>1. text \in Seq(WiredLine) /\ \A k \in 1 .. Len(text) : text[k].mark \in {"begin", "end"} => text[k].repo = r
      BY OwnMarkers
<1>2. ASSUME NEW k \in 1 .. Len(text), text[k].mark = "begin" PROVE FALSE
      <2>1. Holds(text[k], "begin", r)
            BY <1>1, <1>2 DEF Holds
      <2> QED BY <1>1, <2>1, SpanFound
<1> QED BY <1>2 DEF Unopened

\* writeMdBlock.
LEMMA MdWithIs ==
    ASSUME NEW r \in Repos, md[r] \in Seq(Mine(r)), NEW ws \in Words
    PROVE  \E u \in Seq(Mine(r)) :
              /\ u = MdWith(r, ws)
              /\ Whole(md[r]) => Whole(u) /\ MdKeeps(md[r], u)
              /\ Whole(md[r]) /\ Alone(md[r], r) => Alone(u, r)
<1>1. PICK text, new : text = md[r] /\ new = Section(r, ws)
      OBVIOUS
<1>2. text \in Seq(Mine(r)) /\ Put(new, r)
      BY <1>1 DEF Put
<1>3. CASE Spans(text, r) = {}
      <2>1. PICK u : u = text \o new
            OBVIOUS
      <2>2. MdWith(r, ws) = u
            BY <1>1, <1>3, <2>1 DEF MdWith
      <2>3. TextLine("begin", r, ws) \in Mine(r) /\ TextLine("end", r, ws) \in Mine(r)
            BY DEF TextLine, Mine, WiredLine
      <2>4. new \in Seq(Mine(r))
            BY <1>1, <2>3 DEF Section
      <2>5. u \in Seq(Mine(r))
            BY <1>2, <2>1, <2>4, ConcatProperties
      <2>6. ASSUME Whole(text) PROVE Whole(u) /\ MdKeeps(text, u) /\ (Alone(text, r) => Alone(u, r))
            <3>1. text \in Seq(WiredLine) /\ \A k \in 1 .. Len(text) : ~(text[k].mark = "begin" /\ text[k].repo = r)
                  BY <1>2, <1>3, <2>6, OwnMarkers, MdUnopened DEF Unopened
            <3>2. PICK v \in Seq(WiredLine) : v = text \o Section(r, ws) /\ IsAppended(v, text, r, ws)
                  BY <3>1, SectionAppended
            <3>3. u = v
                  BY <1>1, <2>1, <3>2
            <3> QED BY <2>6, <3>2, <3>3 DEF MdKeeps, IsAppended
      <2> QED BY <1>1, <2>2, <2>5, <2>6
<1>4. CASE Spans(text, r) # {}
      <2>1. PICK s : s = CHOOSE z \in Spans(text, r) : TRUE
            OBVIOUS
      <2>2. s \in Spans(text, r)
            BY <1>4, <2>1
      <2>3. MdWith(r, ws) = Replaced(text, s, r, new)
            BY <1>1, <1>4, <2>1 DEF MdWith
      <2>4. \E u \in Seq(Mine(r)) :
              /\ u = Replaced(text, s, r, new)
              /\ Whole(text) => Whole(u) /\ MdKeeps(text, u)
              /\ Whole(text) /\ Alone(text, r) => Alone(u, r)
            BY <1>2, <2>2, MdReplaced
      <2> QED BY <1>1, <2>3, <2>4
<1> QED BY <1>3, <1>4

\* removeMdBlock.
LEMMA MdWithoutIs ==
    ASSUME NEW r \in Repos, md[r] \in Seq(Mine(r))
    PROVE  \E u \in Seq(Mine(r)) :
              /\ u = MdWithout(r)
              /\ Whole(md[r]) => Whole(u) /\ MdKeeps(md[r], u)
              /\ Whole(md[r]) /\ Alone(md[r], r) => Alone(u, r) /\ Unopened(u)
<1>1. PICK text : text = md[r]
      OBVIOUS
<1>2. text \in Seq(Mine(r))
      BY <1>1
<1>3. CASE Spans(text, r) = {}
      <2>1. MdWithout(r) = text
            BY <1>1, <1>3 DEF MdWithout
      <2>2. Whole(text) => Unopened(text)
            BY <1>2, <1>3, MdUnopened
      <2> QED BY <1>1, <1>2, <2>1, <2>2 DEF MdKeeps
<1>4. CASE Spans(text, r) # {}
      <2>1. PICK s : s = CHOOSE z \in Spans(text, r) : TRUE
            OBVIOUS
      <2>2. s \in Spans(text, r)
            BY <1>4, <2>1
      <2>3. MdWithout(r) = Replaced(text, s, r, <<>>)
            BY <1>1, <1>4, <2>1 DEF MdWithout
      <2>4. Put(<<>>, r)
            BY DEF Put
      <2>5. \E u \in Seq(Mine(r)) :
              /\ u = Replaced(text, s, r, <<>>)
              /\ Whole(text) => Whole(u) /\ MdKeeps(text, u)
              /\ Whole(text) /\ Alone(text, r) => Alone(u, r)
              /\ Whole(text) /\ Alone(text, r) /\ <<>> = <<>> => Unopened(u)
            BY <1>2, <2>2, <2>4, MdReplaced
      <2> QED BY <1>1, <2>3, <2>5
<1> QED BY <1>3, <1>4

-----------------------------------------------------------------------------
(* What a user does to a text.                                                 *)

WithLine(text, u, l) ==
    /\ \A k \in 1 .. Len(text) : k \in 1 .. Len(u) /\ u[k] = text[k]
    /\ \E k \in 1 .. Len(u) : u[k] = l
    /\ \A k \in 1 .. Len(u) : u[k].mark # "user" => k \in 1 .. Len(text)
    /\ Whole(text) => Whole(u)
    /\ Loose(text) => Loose(u)
    /\ \A q \in Repos : Alone(text, q) => Alone(u, q)

\* A line of the user at the end disturbs nothing.
LEMMA UserAppends ==
    ASSUME NEW E, E \subseteq WiredLine, NEW text \in Seq(E), NEW l \in E, l.mark = "user",
           NEW u, u = Append(text, l)
    PROVE  u \in Seq(E) /\ WithLine(text, u, l)
<1>1. PICK L \in Nat : L = Len(text)
      OBVIOUS
<1>3. u \in Seq(E) /\ Len(u) = L + 1 /\ \A k \in 1 .. L + 1 : u[k] = IF k <= L THEN text[k] ELSE l
      BY <1>1
<1>4. /\ \A k \in 1 .. L : k \in 1 .. L + 1 /\ u[k] = text[k]
      /\ u[L + 1] = l /\ L + 1 \in 1 .. L + 1
      /\ \A k \in 1 .. L + 1 : k \in 1 .. L \/ k = L + 1
      BY <1>1, <1>3
<1>5. \A k \in 1 .. L + 1 : u[k].mark # "user" => k \in 1 .. L
      BY <1>4
<1>6. ASSUME Whole(text) PROVE Whole(u)
      <2> SUFFICES ASSUME NEW k \in 1 .. L + 1, u[k].mark = "begin"
                   PROVE  k + 1 \in 1 .. L + 1 /\ u[k + 1].mark = "end" /\ u[k + 1].repo = u[k].repo
          BY <1>3 DEF Whole
      <2>1. k \in 1 .. L /\ text[k].mark = "begin"
            BY <1>4, <1>5
      <2>2. k + 1 \in 1 .. L /\ text[k + 1].mark = "end" /\ text[k + 1].repo = text[k].repo
            BY <1>1, <1>6, <2>1 DEF Whole
      <2>3. u[k] = text[k] /\ u[k + 1] = text[k + 1] /\ k + 1 \in 1 .. L + 1
            BY <1>4, <2>1, <2>2, Zenon
      <2> QED BY <2>2, <2>3
<1>7. ASSUME Loose(text) PROVE Loose(u)
      <2>0. Len(u) = L + 1
            BY <1>3
      <2> SUFFICES ASSUME NEW k \in 1 .. Len(u), u[k].mark = "begin"
                   PROVE  \/ k + 1 \in 1 .. Len(u) /\ u[k + 1].mark = "end" /\ u[k + 1].repo = u[k].repo
                          \/ \A j \in k + 1 .. Len(u) : ~(u[j].mark = "end" /\ u[j].repo = u[k].repo)
          BY Zenon DEF Loose
      <2> SUFFICES \/ k + 1 \in 1 .. L + 1 /\ u[k + 1].mark = "end" /\ u[k + 1].repo = u[k].repo
                   \/ \A j \in k + 1 .. L + 1 : ~(u[j].mark = "end" /\ u[j].repo = u[k].repo)
          BY <2>0, Zenon
      <2>4. k \in 1 .. L + 1
            BY <2>0
      <2>1. k \in 1 .. L /\ text[k].mark = "begin" /\ u[k] = text[k]
            BY <1>4, <1>5, <2>4
      <2>2. CASE k + 1 \in 1 .. L /\ text[k + 1].mark = "end" /\ text[k + 1].repo = text[k].repo
            BY <1>4, <2>1, <2>2
      <2>3. CASE \A j \in k + 1 .. L : ~(text[j].mark = "end" /\ text[j].repo = text[k].repo)
            <3>1. \A j \in k + 1 .. L + 1 : (j \in 1 .. L /\ j \in k + 1 .. L) \/ j = L + 1
                  BY <1>1
            <3>2. u[L + 1].mark = "user"
                  BY <1>4
            <3> QED BY <1>4, <2>1, <2>3, <3>1, <3>2
      <2> QED BY <1>1, <1>7, <2>1, <2>2, <2>3 DEF Loose
<1>8. ASSUME NEW q \in Repos, Alone(text, q) PROVE Alone(u, q)
      <2>1. ASSUME NEW i \in 1 .. L + 1, NEW j \in 1 .. L + 1, u[i].mark = "begin", u[j].mark = "begin",
                   u[i].repo = q, u[j].repo = q
            PROVE  i = j
            <3>1. i \in 1 .. L /\ j \in 1 .. L
                  BY <1>5, <2>1
            <3> QED BY <1>1, <1>4, <1>8, <2>1, <3>1 DEF Alone
      <2>2. ASSUME NEW i \in 1 .. L + 1, u[i].mark = "end", u[i].repo = q
            PROVE  i - 1 \in 1 .. L + 1 /\ u[i - 1].mark = "begin" /\ u[i - 1].repo = q
            <3>1. i \in 1 .. L /\ text[i].mark = "end" /\ text[i].repo = q
                  BY <1>4, <1>5, <2>2
            <3>2. i - 1 \in 1 .. L /\ text[i - 1].mark = "begin" /\ text[i - 1].repo = q
                  BY <1>1, <1>8, <3>1 DEF Alone
            <3> QED BY <1>4, <3>2
      <2> QED BY <1>3, <2>1, <2>2 DEF Alone
<1> QED BY <1>1, <1>3, <1>4, <1>5, <1>6, <1>7, <1>8 DEF WithLine

\* A marker that is deleted leaves the lines of the user; without the one that opens all are whole.
LEMMA UserDeletes ==
    ASSUME NEW E, E \subseteq WiredLine, NEW text \in Seq(E), NEW i \in 1 .. Len(text),
           text[i].mark \in {"begin", "end"}, Whole(text)
    PROVE  \E u \in Seq(E) :
              /\ u = RemoveAt(text, i)
              /\ \A k \in 1 .. Len(text) : text[k].mark = "user" => \E j \in 1 .. Len(u) : u[j] = text[k]
              /\ text[i].mark = "begin" => Whole(u)
              /\ (\A q \in Repos : Alone(text, q)) => Loose(u)
<1>1. PICK L \in Nat : L = Len(text)
      OBVIOUS
<1>2. i \in 1 .. L /\ i \in Nat
      BY <1>1
<1>3. PICK a, c : a = SubSeq(text, 1, i - 1) /\ c = SubSeq(text, i + 1, L)
      OBVIOUS
<1>4. a \in Seq(E) /\ Len(a) = i - 1 /\ \A k \in 1 .. i - 1 : a[k] = text[k]
      BY <1>1, <1>2, <1>3
<1>5. c \in Seq(E) /\ Len(c) = L - i /\ \A k \in 1 .. L - i : c[k] = text[k + i]
      BY <1>1, <1>2, <1>3
<1>6. PICK u : u = a \o c
      OBVIOUS
<1>7. u \in Seq(E) /\ Len(u) = L - 1 /\ \A k \in 1 .. L - 1 : u[k] = IF k <= i - 1 THEN a[k] ELSE c[k - (i - 1)]
      <2>1. /\ a \o c \in Seq(E) /\ Len(a \o c) = Len(a) + Len(c)
            /\ \A k \in 1 .. Len(a) + Len(c) : (a \o c)[k] = IF k <= Len(a) THEN a[k] ELSE c[k - Len(a)]
            BY <1>4, <1>5, ConcatProperties
      <2>2. Len(a) + Len(c) = L - 1 /\ Len(a) = i - 1
            BY <1>1, <1>2, <1>4, <1>5
      <2> QED BY <1>6, <2>1, <2>2
<1>8. u = RemoveAt(text, i)
      BY <1>1, <1>3, <1>6 DEF RemoveAt
<1> DEFINE Was(k) == IF k < i THEN k ELSE k + 1
<1>9. ASSUME NEW k \in 1 .. L - 1 PROVE Was(k) \in 1 .. L /\ Was(k) # i /\ u[k] = text[Was(k)]
      <2>1. CASE k < i
            <3>1. k \in 1 .. i - 1 /\ k <= i - 1
                  BY <1>2, <2>1
            <3> QED BY <1>4, <1>7, <2>1, <3>1
      <2>2. CASE ~(k < i)
            <3>1. k - (i - 1) \in 1 .. L - i /\ ~(k <= i - 1) /\ (k - (i - 1)) + i = k + 1
                  BY <1>1, <1>2, <2>2
            <3> QED BY <1>2, <1>5, <1>7, <2>2, <3>1
      <2> QED BY <2>1, <2>2
<1>10. ASSUME NEW m \in 1 .. L, m # i
       PROVE  \E k \in 1 .. L - 1 : Was(k) = m /\ u[k] = text[m]
      <2>1. CASE m < i
            <3>1. m \in 1 .. L - 1 /\ Was(m) = m
                  BY <1>2, <2>1
            <3> QED BY <1>9, <3>1
      <2>2. CASE ~(m < i)
            <3>1. m - 1 \in 1 .. L - 1 /\ Was(m - 1) = m
                  BY <1>2, <1>10, <2>2
            <3> QED BY <1>9, <3>1
      <2> QED BY <2>1, <2>2
<1>11. ASSUME NEW k \in 1 .. Len(text), text[k].mark = "user" PROVE \E j \in 1 .. Len(u) : u[j] = text[k]
      <2>1. k \in 1 .. L /\ k # i
            BY <1>1, <1>11
      <2> QED BY <1>7, <1>10, <2>1
<1>12. ASSUME NEW k \in 1 .. L - 1, u[k].mark = "begin", Was(k) + 1 # i
       PROVE  k + 1 \in 1 .. L - 1 /\ u[k + 1].mark = "end" /\ u[k + 1].repo = u[k].repo
      <2>1. Was(k) \in 1 .. L /\ Was(k) # i /\ text[Was(k)].mark = "begin" /\ u[k] = text[Was(k)]
            BY <1>9, <1>12
      <2>2. Was(k) + 1 \in 1 .. L /\ text[Was(k) + 1].mark = "end" /\ text[Was(k) + 1].repo = u[k].repo
            BY <1>1, <2>1 DEF Whole
      <2>3. k + 1 \in 1 .. L - 1 /\ Was(k + 1) = Was(k) + 1
            BY <1>1, <1>2, <1>12, <2>1, <2>2
      <2> QED BY <1>9, <2>2, <2>3
<1>13. ASSUME text[i].mark = "begin" PROVE Whole(u)
      <2>1. ASSUME NEW k \in 1 .. L - 1, u[k].mark = "begin" PROVE Was(k) + 1 # i
            <3>1. Was(k) \in 1 .. L /\ text[Was(k)].mark = "begin"
                  BY <1>9, <2>1
            <3>2. text[Was(k) + 1].mark = "end"
                  BY <1>1, <3>1 DEF Whole
            <3> QED BY <1>13, <3>2
      <2> HIDE DEF Was
      <2> QED BY <1>7, <1>12, <2>1 DEF Whole
<1>14. ASSUME \A q \in Repos : Alone(text, q) PROVE Loose(u)
      <2> SUFFICES ASSUME NEW k \in 1 .. L - 1, u[k].mark = "begin", Was(k) + 1 = i,
                          NEW j \in k + 1 .. L - 1, u[j].mark = "end", u[j].repo = u[k].repo
                   PROVE  FALSE
          <3> HIDE DEF Was
          <3> QED BY <1>7, <1>12 DEF Loose
      <2>1. j \in 1 .. L - 1
            BY <1>1
      <2>2. /\ Was(k) \in 1 .. L /\ u[k] = text[Was(k)] /\ Was(j) \in 1 .. L /\ Was(j) # i /\ u[j] = text[Was(j)]
            BY <1>9, <2>1
      <2>3. text[Was(k)] \in E
            BY <1>1, <2>2
      <2>4. u[k].repo \in Repos
            BY <2>2, <2>3 DEF WiredLine
      <2>5. Alone(text, u[k].repo)
            BY <1>14, <2>4
      <2>6. /\ Was(j) - 1 \in 1 .. L /\ text[Was(j) - 1].mark = "begin" /\ text[Was(j) - 1].repo = u[k].repo
            BY <1>1, <2>2, <2>5 DEF Alone
      <2>7. Was(j) - 1 = Was(k)
            BY <1>1, <2>2, <2>5, <2>6 DEF Alone
      <2> QED BY <1>2, <2>1, <2>2, <2>7
<1>15. text[i].mark = "begin" => Whole(u)
      BY <1>13
<1> QED BY <1>7, <1>8, <1>11, <1>14, <1>15

-----------------------------------------------------------------------------
(* The invariant.                                                              *)

Parts == {<<>>, <<"settings", "md", "skills", "hook">>, <<"md", "skills", "hook">>,
          <<"skills", "hook">>, <<"hook">>}

\* The files of a command, one after the other.
LEMMA PartsIs ==
    /\ Head(<<"settings", "md", "skills", "hook">>) = "settings"
    /\ Tail(<<"settings", "md", "skills", "hook">>) = <<"md", "skills", "hook">>
    /\ Head(<<"md", "skills", "hook">>) = "md"
    /\ Tail(<<"md", "skills", "hook">>) = <<"skills", "hook">>
    /\ Head(<<"skills", "hook">>) = "skills"
    /\ Tail(<<"skills", "hook">>) = <<"hook">>
    /\ Head(<<"hook">>) = "hook"
    /\ Tail(<<"hook">>) = <<>>
    /\ <<"settings", "md", "skills", "hook">> # <<>> /\ <<"md", "skills", "hook">> # <<>>
    /\ <<"skills", "hook">> # <<>> /\ <<"hook">> # <<>>
OBVIOUS

Given == {c.ws : c \in {d \in Commands : d.name # "uninstall"}}
Ends == {"none", "cut", "removed"}

WiringTyped ==
    /\ alike \subseteq Repos \X Repos
    /\ md \in [Repos -> Seq(WiredLine)] /\ \A r \in Repos : md[r] \in Seq(Mine(r))
    /\ settings \in [Repos -> SUBSET {"ours", "theirs", "odd"}]
    /\ command \in [name : {"none", "install", "memory", "uninstall"}, repo : Repos \cup {"none"},
                    ws : Words, left : Parts]
    /\ last \in [Repos -> Ends \cup Given]
    /\ IsFiniteSet(own)

\* What is asked for is under way until it is done or dies.
Underway ==
    command.left # <<>> =>
        /\ command.repo \in Repos /\ last[command.repo] = "cut" /\ command.name # "none"
        /\ command.name # "uninstall" => command.ws \in Given
        /\ command.name = "memory" => command.left = <<"hook">>

MdTidy ==
    \A r \in Repos : /\ <<r, "end">> \notin mdCut => Whole(md[r])
                     /\ mdCut = {} => Alone(md[r], r)

\* What a removal has done so far.
SoFar ==
    mdCut \cup hookCut = {} /\ command.name = "uninstall" /\ command.left # <<>> =>
        LET r == command.repo
        IN  /\ command.left # <<"settings", "md", "skills", "hook">> => "ours" \notin settings[r]
            /\ command.left \in {<<"skills", "hook">>, <<"hook">>} => Unopened(md[r])
            /\ command.left = <<"hook">> => r \notin skills

\* What was asked for last is as it was asked for.
Answered ==
    \A r \in Repos : mdCut \cup hookCut = {} /\ Apart(r) =>
        /\ last[r] \notin Ends => \E k \in 1 .. Len(gitHook) : gitHook[k] = TextLine("begin", r, last[r])
        /\ last[r] = "removed" =>
              /\ "ours" \notin settings[r] /\ Unopened(md[r]) /\ r \notin skills
              /\ \A k \in 1 .. Len(gitHook) : ~(gitHook[k].mark = "begin" /\ gitHook[k].repo = r)

WiringInv ==
    WiringTyped /\ Underway /\ Tidy(gitHook) /\ MdTidy /\ HookLinesKept /\ MdLinesKept /\ SoFar /\ Answered

\* It holds at the start.
LEMMA WiringStarts == WiringInit => WiringInv
<1> SUFFICES ASSUME WiringInit PROVE WiringInv
    OBVIOUS
<1>1. \A E : <<>> \in Seq(E)
      OBVIOUS
<1>2. Len(<<>>) = 0
      OBVIOUS
<1>3. Whole(<<>>) /\ Loose(<<>>) /\ \A q \in Repos : Alone(<<>>, q)
      BY <1>2 DEF Whole, Loose, Alone
<1>4. Tidy(gitHook)
      BY <1>1, <1>3 DEF WiringInit, Tidy
<1>5. MdTidy
      BY <1>3 DEF WiringInit, MdTidy
<1>6. WiringTyped
      <2>1. IsFiniteSet({})
            BY FS_EmptySet
      <2>2. command \in [name : {"none", "install", "memory", "uninstall"}, repo : Repos \cup {"none"},
                         ws : Words, left : Parts]
            BY DEF WiringInit, NoCommand, Parts, Words
      <2>3. alike \subseteq Repos \X Repos
            BY WiredAssumption DEF WiringInit
      <2>4. md \in [Repos -> Seq(WiredLine)] /\ \A r \in Repos : md[r] \in Seq(Mine(r))
            BY <1>1 DEF WiringInit
      <2>5. settings \in [Repos -> SUBSET {"ours", "theirs", "odd"}]
            BY DEF WiringInit
      <2>6. last \in [Repos -> Ends \cup Given]
            BY DEF WiringInit, Ends
      <2> QED BY <2>1, <2>2, <2>3, <2>4, <2>5, <2>6 DEF WiringTyped, WiringInit
<1>7. Underway /\ SoFar
      BY DEF WiringInit, NoCommand, Underway, SoFar
<1>8. HookLinesKept /\ MdLinesKept
      BY DEF WiringInit, HookLinesKept, MdLinesKept
<1>9. Answered
      BY DEF WiringInit, Answered, Ends
<1> QED BY <1>4, <1>5, <1>6, <1>7, <1>8, <1>9 DEF WiringInv

\* A workspace is not one of the words of what was asked for last.
LEMMA GivenIs ==
    /\ Given \subseteq Words /\ Given \cap Ends = {}
    /\ \A c \in Commands : c.ws \in Words /\ (c.name # "uninstall" => c.ws \in Given)
<1>1. \A c \in Commands : c.ws \in Words
      BY DEF Words
<1>2. ASSUME NEW x \in Given PROVE x \in Words /\ x \notin Ends
      <2>1. PICK c \in Commands : c.name # "uninstall" /\ x = c.ws
            BY DEF Given
      <2>2. c.ws \notin {"none", "cut", "removed"}
            BY <2>1, WiredAssumption, Zenon
      <2> QED BY <1>1, <2>1, <2>2 DEF Ends
<1>3. ASSUME NEW c \in Commands, c.name # "uninstall" PROVE c.ws \in Given
      BY <1>3, Zenon DEF Given
<1> QED BY <1>1, <1>2, <1>3

\* Every step keeps it: a command is asked for.
LEMMA AsksKeeps == ASSUME WiringInv, NEW c \in Commands, Asks(c) PROVE WiringInv'
<1>1. /\ c.repo \in Repos /\ c.name \in {"install", "memory", "uninstall"} /\ c.ws \in Words
      /\ c.name # "uninstall" => c.ws \in Given
      BY WiredAssumption, GivenIs
<1>2. /\ command' = [name |-> c.name, repo |-> c.repo, ws |-> c.ws,
                     left |-> IF c.name = "memory" THEN <<"hook">> ELSE <<"settings", "md", "skills", "hook">>]
      /\ last' = [last EXCEPT ![c.repo] = "cut"]
      /\ UNCHANGED <<alike, md, gitHook, settings, skills, own, mdCut, hookCut>>
      BY DEF Asks
<1>3. WiringTyped'
      <2>1. command' \in [name : {"none", "install", "memory", "uninstall"}, repo : Repos \cup {"none"},
                          ws : Words, left : Parts]
            BY <1>1, <1>2 DEF Parts
      <2>2. last' \in [Repos -> Ends \cup Given]
            BY <1>2 DEF WiringInv, WiringTyped, Ends
      <2> QED BY <1>2, <2>1, <2>2 DEF WiringInv, WiringTyped
<1>4. Underway'
      <2>1. last'[c.repo] = "cut"
            BY <1>1, <1>2 DEF WiringInv, WiringTyped
      <2> QED BY <1>1, <1>2, <2>1 DEF Underway
<1>5. SoFar'
      BY <1>1, <1>2 DEF SoFar
<1>6. Tidy(gitHook)' /\ MdTidy' /\ HookLinesKept' /\ MdLinesKept'
      BY <1>2 DEF WiringInv, Tidy, Apart, MdTidy, HookLinesKept, MdLinesKept
<1>7. Answered'
      <2>1. ASSUME NEW r \in Repos PROVE last'[r] = last[r] \/ last'[r] = "cut"
            BY <1>1, <1>2 DEF WiringInv, WiringTyped
      <2>2. "cut" \in Ends /\ "cut" # "removed"
            BY DEF Ends
      <2> QED BY <1>2, <2>1, <2>2 DEF WiringInv, Answered, Apart
<1> QED BY <1>3, <1>4, <1>5, <1>6, <1>7 DEF WiringInv

\* What a file done means.
LEMMA MovesIs ==
    ASSUME WiringInv, Moves, command.left # <<>>
    PROVE  /\ command.repo \in Repos /\ last[command.repo] = "cut"
           /\ Tail(command.left) # <<>> =>
                 /\ command' = [command EXCEPT !.left = Tail(command.left)] /\ last' = last
           /\ Tail(command.left) = <<>> =>
                 /\ command' = NoCommand
                 /\ last' = [last EXCEPT ![command.repo] = IF command.name = "uninstall" THEN "removed" ELSE command.ws]
           /\ UNCHANGED <<alike, own, mdCut, hookCut>>
BY DEF WiringInv, Underway, Moves

\* A file that is not the last one: what is left.
LEMMA NextIs ==
    ASSUME WiringInv, Moves, command.left # <<>>, Tail(command.left) \in Parts, Tail(command.left) # <<>>
    PROVE  /\ command' \in [name : {"none", "install", "memory", "uninstall"}, repo : Repos \cup {"none"},
                            ws : Words, left : Parts]
           /\ command'.repo = command.repo /\ command'.name = command.name /\ command'.ws = command.ws
           /\ command'.left = Tail(command.left) /\ last' = last
<1>1. command' = [command EXCEPT !.left = Tail(command.left)] /\ last' = last
      BY MovesIs
<1>2. command \in [name : {"none", "install", "memory", "uninstall"}, repo : Repos \cup {"none"},
                   ws : Words, left : Parts]
      BY DEF WiringInv, WiringTyped
<1> QED BY <1>1, <1>2

\* Whose turn it is says what is left.
LEMMA TurnIs ==
    ASSUME WiringInv, NEW part, Turn(part)
    PROVE  /\ command.left # <<>> /\ command.left \in Parts
           /\ part = "settings" => command.left = <<"settings", "md", "skills", "hook">>
           /\ part = "md" => command.left = <<"md", "skills", "hook">>
           /\ part = "skills" => command.left = <<"skills", "hook">>
           /\ part = "hook" => command.left = <<"hook">>
<1>1. command.left \in Parts /\ command.left # <<>> /\ Head(command.left) = part
      BY DEF WiringInv, WiringTyped, Turn
<1> QED BY <1>1, PartsIs DEF Parts

\* The settings are written.
LEMMA SettingsKeep == ASSUME WiringInv, WritesSettings PROVE WiringInv'
<1>1. command.left = <<"settings", "md", "skills", "hook">> /\ command.left # <<>>
      BY TurnIs DEF WritesSettings
<1>2. Tail(command.left) = <<"md", "skills", "hook">> /\ Tail(command.left) # <<>> /\ Tail(command.left) \in Parts
      BY <1>1, PartsIs DEF Parts
<1>3. PICK r : r = command.repo
      OBVIOUS
<1>4. r \in Repos /\ last[r] = "cut" /\ UNCHANGED <<alike, own, mdCut, hookCut, md, gitHook, skills>>
      BY <1>1, <1>3, MovesIs DEF WritesSettings
<1>5. /\ command' \in [name : {"none", "install", "memory", "uninstall"}, repo : Repos \cup {"none"},
                       ws : Words, left : Parts]
      /\ command'.repo = r /\ command'.name = command.name /\ command'.ws = command.ws
      /\ command'.left = <<"md", "skills", "hook">> /\ last' = last
      BY <1>1, <1>2, <1>3, NextIs DEF WritesSettings
<1>6. settings' = [settings EXCEPT ![r] =
                      IF command.name = "uninstall" THEN @ \ {"ours"} ELSE (@ \ {"odd"}) \cup {"ours"}]
      BY <1>3 DEF WritesSettings, Removing
<1>7. settings \in [Repos -> SUBSET {"ours", "theirs", "odd"}]
      BY DEF WiringInv, WiringTyped
<1>8. /\ settings' \in [Repos -> SUBSET {"ours", "theirs", "odd"}]
      /\ \A q \in Repos : q # r => settings'[q] = settings[q]
      /\ command.name = "uninstall" => "ours" \notin settings'[r]
      BY <1>4, <1>6, <1>7
<1>9. WiringTyped'
      BY <1>4, <1>5, <1>8 DEF WiringInv, WiringTyped
<1>10. Underway'
      <2>1. /\ command.name # "none"
            /\ command.name # "uninstall" => command.ws \in Given
            /\ command.name = "memory" => command.left = <<"hook">>
            BY <1>1 DEF WiringInv, Underway
      <2>2. command.name # "memory"
            <3>1. Head(<<"hook">>) # Head(<<"settings", "md", "skills", "hook">>)
                  BY PartsIs
            <3> QED BY <1>1, <2>1, <3>1
      <2> QED BY <1>4, <1>5, <2>1, <2>2 DEF Underway
<1>11. SoFar'
      <2>1. <<"md", "skills", "hook">> \notin {<<"skills", "hook">>, <<"hook">>}
            BY PartsIs
      <2> QED BY <1>5, <1>8, <2>1 DEF SoFar
<1>12. Tidy(gitHook)' /\ MdTidy' /\ HookLinesKept' /\ MdLinesKept'
      BY <1>4 DEF WiringInv, Tidy, Apart, MdTidy, HookLinesKept, MdLinesKept
<1>13. Answered'
      <2>1. "cut" \in Ends /\ "cut" # "removed"
            BY DEF Ends
      <2>2. ASSUME NEW q \in Repos PROVE q = r \/ settings'[q] = settings[q]
            BY <1>8
      <2> QED BY <1>4, <1>5, <2>1, <2>2 DEF WiringInv, Answered, Apart
<1> QED BY <1>9, <1>10, <1>11, <1>12, <1>13 DEF WiringInv

\* CLAUDE.md is written.
LEMMA MdKeep == ASSUME WiringInv, WritesMd PROVE WiringInv'
<1>1. command.left = <<"md", "skills", "hook">> /\ command.left # <<>>
      BY TurnIs DEF WritesMd
<1>2. Tail(command.left) = <<"skills", "hook">> /\ Tail(command.left) # <<>> /\ Tail(command.left) \in Parts
      BY <1>1, PartsIs DEF Parts
<1>3. PICK r : r = command.repo
      OBVIOUS
<1>4. r \in Repos /\ last[r] = "cut" /\ UNCHANGED <<alike, own, mdCut, hookCut, gitHook, settings, skills>>
      BY <1>1, <1>3, MovesIs DEF WritesMd
<1>5. /\ command' \in [name : {"none", "install", "memory", "uninstall"}, repo : Repos \cup {"none"},
                       ws : Words, left : Parts]
      /\ command'.repo = r /\ command'.name = command.name /\ command'.ws = command.ws
      /\ command'.left = <<"skills", "hook">> /\ last' = last
      BY <1>1, <1>2, <1>3, NextIs DEF WritesMd
<1>6. md \in [Repos -> Seq(WiredLine)] /\ \A q \in Repos : md[q] \in Seq(Mine(q))
      BY DEF WiringInv, WiringTyped
<1>7. command.ws \in Words
      BY DEF WiringInv, WiringTyped
<1>8. PICK u \in Seq(Mine(r)) :
         /\ u = IF command.name = "uninstall" THEN MdWithout(r) ELSE MdWith(r, command.ws)
         /\ Whole(md[r]) => Whole(u) /\ MdKeeps(md[r], u)
         /\ Whole(md[r]) /\ Alone(md[r], r) => Alone(u, r)
         /\ Whole(md[r]) /\ Alone(md[r], r) /\ command.name = "uninstall" => Unopened(u)
      <2>1. CASE command.name = "uninstall"
            <3>1. PICK u \in Seq(Mine(r)) :
                    /\ u = MdWithout(r)
                    /\ Whole(md[r]) => Whole(u) /\ MdKeeps(md[r], u)
                    /\ Whole(md[r]) /\ Alone(md[r], r) => Alone(u, r) /\ Unopened(u)
                  BY <1>4, <1>6, MdWithoutIs
            <3> QED BY <2>1, <3>1
      <2>2. CASE command.name # "uninstall"
            <3>1. PICK u \in Seq(Mine(r)) :
                    /\ u = MdWith(r, command.ws)
                    /\ Whole(md[r]) => Whole(u) /\ MdKeeps(md[r], u)
                    /\ Whole(md[r]) /\ Alone(md[r], r) => Alone(u, r)
                  BY <1>4, <1>6, <1>7, MdWithIs
            <3> QED BY <2>2, <3>1
      <2> QED BY <2>1, <2>2
<1>9. md' = [md EXCEPT ![r] = u]
      BY <1>3, <1>8 DEF WritesMd, Removing
<1>10. u \in Seq(WiredLine)
      BY <1>4, OwnMarkers
<1>11. md' \in [Repos -> Seq(WiredLine)] /\ md'[r] = u /\ \A q \in Repos : q # r => md'[q] = md[q]
      BY <1>4, <1>6, <1>9, <1>10
<1>12. WiringTyped'
      <2>1. \A q \in Repos : md'[q] \in Seq(Mine(q))
            BY <1>6, <1>8, <1>11
      <2> QED BY <1>4, <1>5, <1>11, <2>1 DEF WiringInv, WiringTyped
<1>13. MdTidy'
      <2>1. ASSUME NEW q \in Repos
            PROVE  /\ <<q, "end">> \notin mdCut => Whole(md'[q])
                   /\ mdCut = {} => Alone(md'[q], q)
            <3>1. /\ <<q, "end">> \notin mdCut => Whole(md[q])
                  /\ mdCut = {} => Alone(md[q], q) /\ Whole(md[q])
                  BY DEF WiringInv, MdTidy
            <3> QED BY <1>8, <1>11, <3>1
      <2> QED BY <1>4, <2>1 DEF MdTidy
<1>14. Underway'
      <2>1. /\ command.name # "none"
            /\ command.name # "uninstall" => command.ws \in Given
            /\ command.name = "memory" => command.left = <<"hook">>
            BY <1>1 DEF WiringInv, Underway
      <2>2. command.name # "memory"
            <3>1. Head(<<"hook">>) # Head(<<"md", "skills", "hook">>)
                  BY PartsIs
            <3> QED BY <1>1, <2>1, <3>1
      <2> QED BY <1>4, <1>5, <2>1, <2>2 DEF Underway
<1>15. SoFar'
      <2> SUFFICES ASSUME mdCut \cup hookCut = {}, command.name = "uninstall"
                   PROVE  "ours" \notin settings[r] /\ Unopened(u)
          <3>1. <<"skills", "hook">> # <<"hook">>
                BY PartsIs
          <3> QED BY <1>4, <1>5, <1>11, <3>1 DEF SoFar
      <2>1. Whole(md[r]) /\ Alone(md[r], r)
            BY <1>4 DEF WiringInv, MdTidy
      <2>2. <<"md", "skills", "hook">> # <<"settings", "md", "skills", "hook">>
            BY PartsIs
      <2>3. "ours" \notin settings[r]
            BY <1>1, <1>3, <2>2 DEF WiringInv, SoFar
      <2> QED BY <1>8, <2>1, <2>3
<1>16. MdLinesKept'
      <2> SUFFICES ASSUME NEW x \in own, x[2] \in Repos, <<x[2], "end">> \notin mdCut
                   PROVE  \E i \in DOMAIN md'[x[2]] : md'[x[2]][i] = UserLine(x[1])
          BY <1>4 DEF MdLinesKept
      <2>1. PICK i \in DOMAIN md[x[2]] : md[x[2]][i] = UserLine(x[1])
            BY DEF WiringInv, MdLinesKept
      <2>2. CASE x[2] = r
            <3>1. Whole(md[r])
                  BY <1>4, <2>2 DEF WiringInv, MdTidy
            <3>2. i \in 1 .. Len(md[r]) /\ md[r][i].mark = "user" /\ md[r][i] = UserLine(x[1])
                  BY <1>4, <1>6, <2>1, <2>2 DEF UserLine, TextLine
            <3>3. \E j \in 1 .. Len(u) : u[j] = UserLine(x[1])
                  BY <1>8, <3>1, <3>2 DEF MdKeeps
            <3> QED BY <1>10, <1>11, <2>2, <3>3
      <2>3. CASE x[2] # r
            BY <1>11, <2>1, <2>3
      <2> QED BY <2>2, <2>3
<1>17. Tidy(gitHook)' /\ HookLinesKept'
      BY <1>4 DEF WiringInv, Tidy, Apart, HookLinesKept
<1>18. Answered'
      <2>1. "cut" \in Ends /\ "cut" # "removed"
            BY DEF Ends
      <2>2. ASSUME NEW q \in Repos PROVE q = r \/ md'[q] = md[q]
            BY <1>11
      <2> QED BY <1>4, <1>5, <2>1, <2>2 DEF WiringInv, Answered, Apart
<1> QED BY <1>12, <1>13, <1>14, <1>15, <1>16, <1>17, <1>18 DEF WiringInv

\* The skills are written.
LEMMA SkillsKeep == ASSUME WiringInv, WritesSkills PROVE WiringInv'
<1>1. command.left = <<"skills", "hook">> /\ command.left # <<>>
      BY TurnIs DEF WritesSkills
<1>2. Tail(command.left) = <<"hook">> /\ Tail(command.left) # <<>> /\ Tail(command.left) \in Parts
      BY <1>1, PartsIs DEF Parts
<1>3. PICK r : r = command.repo
      OBVIOUS
<1>4. r \in Repos /\ last[r] = "cut" /\ UNCHANGED <<alike, own, mdCut, hookCut, md, gitHook, settings>>
      BY <1>1, <1>3, MovesIs DEF WritesSkills
<1>5. /\ command' \in [name : {"none", "install", "memory", "uninstall"}, repo : Repos \cup {"none"},
                       ws : Words, left : Parts]
      /\ command'.repo = r /\ command'.name = command.name /\ command'.ws = command.ws
      /\ command'.left = <<"hook">> /\ last' = last
      BY <1>1, <1>2, <1>3, NextIs DEF WritesSkills
<1>6. skills' = IF command.name = "uninstall" THEN skills \ {r} ELSE skills \cup {r}
      BY <1>3 DEF WritesSkills, Removing
<1>7. WiringTyped'
      BY <1>4, <1>5 DEF WiringInv, WiringTyped
<1>8. Underway'
      <2>1. /\ command.name # "none"
            /\ command.name # "uninstall" => command.ws \in Given
            BY <1>1 DEF WiringInv, Underway
      <2> QED BY <1>4, <1>5, <2>1 DEF Underway
<1>9. SoFar'
      <2>1. <<"skills", "hook">> # <<"settings", "md", "skills", "hook">>
            BY PartsIs
      <2> QED BY <1>1, <1>3, <1>4, <1>5, <1>6, <2>1 DEF WiringInv, SoFar
<1>10. Tidy(gitHook)' /\ MdTidy' /\ HookLinesKept' /\ MdLinesKept'
      BY <1>4 DEF WiringInv, Tidy, Apart, MdTidy, HookLinesKept, MdLinesKept
<1>11. Answered'
      <2>1. "cut" \in Ends /\ "cut" # "removed"
            BY DEF Ends
      <2>2. ASSUME NEW q \in Repos PROVE q = r \/ (q \in skills' <=> q \in skills)
            BY <1>6
      <2> QED BY <1>4, <1>5, <2>1, <2>2 DEF WiringInv, Answered, Apart
<1> QED BY <1>7, <1>8, <1>9, <1>10, <1>11 DEF WiringInv

\* The git hook is written, and the command is through.
LEMMA HookKeeps ==
    ASSUME WiringInv, WritesHook
    PROVE  /\ WiringInv'
           /\ Sound => Keeps(gitHook, gitHook', command.repo)
<1>1. command.left = <<"hook">> /\ command.left # <<>> /\ Tail(command.left) = <<>>
      BY TurnIs, PartsIs DEF WritesHook
<1>2. PICK r : r = command.repo
      OBVIOUS
<1>3. r \in Repos /\ last[r] = "cut" /\ UNCHANGED <<alike, own, mdCut, hookCut, md, settings, skills>>
      BY <1>1, <1>2, MovesIs DEF WritesHook
<1>4. /\ command' = NoCommand
      /\ last' = [last EXCEPT ![r] = IF command.name = "uninstall" THEN "removed" ELSE command.ws]
      BY <1>1, <1>2, MovesIs DEF WritesHook
<1>5. /\ alike \subseteq Repos \X Repos /\ Tidy(gitHook) /\ command.ws \in Words
      /\ last \in [Repos -> Ends \cup Given]
      BY DEF WiringInv, WiringTyped
<1>6. PICK u : /\ u = IF command.name = "uninstall" THEN HookWithout(r) ELSE HookWith(r, command.ws)
               /\ Tidy(u)
               /\ Sound => Keeps(gitHook, u, r)
               /\ Apart(r) /\ hookCut = {} /\ command.name = "uninstall"
                      => \A k \in 1 .. Len(u) : ~(u[k].mark = "begin" /\ u[k].repo = r)
               /\ Apart(r) /\ hookCut = {} /\ command.name # "uninstall"
                      => \E k \in 1 .. Len(u) : u[k] = TextLine("begin", r, command.ws)
      <2>1. CASE command.name = "uninstall"
            <3>1. PICK u : /\ u = HookWithout(r) /\ Tidy(u)
                           /\ Sound => Keeps(gitHook, u, r)
                           /\ Apart(r) /\ hookCut = {}
                                  => \A k \in 1 .. Len(u) : ~(u[k].mark = "begin" /\ u[k].repo = r)
                  BY <1>3, <1>5, HookWithoutIs
            <3> QED BY <2>1, <3>1
      <2>2. CASE command.name # "uninstall"
            <3>1. PICK u : /\ u = HookWith(r, command.ws) /\ Tidy(u)
                           /\ Sound => Keeps(gitHook, u, r)
                           /\ Apart(r) /\ hookCut = {} => \E k \in 1 .. Len(u) : u[k] = TextLine("begin", r, command.ws)
                  BY <1>3, <1>5, HookWithIs
            <3> QED BY <2>2, <3>1
      <2> QED BY <2>1, <2>2
<1>7. gitHook' = u
      BY <1>2, <1>6 DEF WritesHook, Removing
<1>8. command.name # "uninstall" => command.ws \in Given
      BY <1>1 DEF WiringInv, Underway
<1>9. /\ last' \in [Repos -> Ends \cup Given]
      /\ \A q \in Repos : q # r => last'[q] = last[q]
      /\ last'[r] = IF command.name = "uninstall" THEN "removed" ELSE command.ws
      <2>1. "removed" \in Ends
            BY DEF Ends
      <2> QED BY <1>3, <1>4, <1>5, <1>8, <2>1
<1>10. WiringTyped'
      <2>1. NoCommand \in [name : {"none", "install", "memory", "uninstall"}, repo : Repos \cup {"none"},
                           ws : Words, left : Parts]
            BY DEF NoCommand, Words, Parts
      <2> QED BY <1>3, <1>4, <1>9, <2>1 DEF WiringInv, WiringTyped
<1>11. Underway' /\ SoFar'
      BY <1>4 DEF NoCommand, Underway, SoFar
<1>12. Tidy(gitHook)' /\ MdTidy' /\ MdLinesKept'
      BY <1>3, <1>6, <1>7 DEF WiringInv, Tidy, Apart, MdTidy, MdLinesKept
<1>13. HookLinesKept'
      <2> SUFFICES ASSUME NEW x \in own, x[2] = "hook", Sound
                   PROVE  \E j \in DOMAIN u : u[j] = UserLine(x[1])
          BY <1>3, <1>7 DEF HookLinesKept, Sound
      <2>1. PICK i \in DOMAIN gitHook : gitHook[i] = UserLine(x[1])
            BY DEF WiringInv, HookLinesKept, Sound
      <2>2. i \in 1 .. Len(gitHook) /\ gitHook[i].repo = "none"
            BY <1>5, <2>1 DEF Tidy, UserLine, TextLine
      <2>3. "none" \notin Repos
            BY WiredAssumption
      <2>4. "none" # r /\ <<r, "none">> \notin alike
            BY <1>3, <1>5, <2>3
      <2>5. \E j \in 1 .. Len(u) : u[j] = gitHook[i]
            BY <1>6, <2>2, <2>4 DEF Keeps
      <2>6. u \in Seq(WiredLine)
            BY <1>6 DEF Tidy
      <2> QED BY <2>1, <2>5, <2>6
<1>14. Answered'
      <2> SUFFICES ASSUME NEW q \in Repos, mdCut \cup hookCut = {}, Apart(q)
                   PROVE  /\ last'[q] \notin Ends => \E k \in 1 .. Len(u) : u[k] = TextLine("begin", q, last'[q])
                          /\ last'[q] = "removed" =>
                                /\ "ours" \notin settings[q] /\ Unopened(md[q]) /\ q \notin skills
                                /\ \A k \in 1 .. Len(u) : ~(u[k].mark = "begin" /\ u[k].repo = q)
          BY <1>3, <1>7 DEF Answered, Apart
      <2>1. hookCut = {}
            OBVIOUS
      <2>2. CASE q = r
            <3>1. CASE command.name = "uninstall"
                  <4>1. "ours" \notin settings[r] /\ Unopened(md[r]) /\ r \notin skills
                        <5>1. <<"hook">> # <<"settings", "md", "skills", "hook">>
                              BY PartsIs
                        <5> QED BY <1>1, <1>2, <3>1, <5>1 DEF WiringInv, SoFar
                  <4>2. "removed" \in Ends
                        BY DEF Ends
                  <4>3. \A k \in 1 .. Len(u) : ~(u[k].mark = "begin" /\ u[k].repo = r)
                        BY <1>6, <2>1, <2>2, <3>1
                  <4> QED BY <1>9, <2>2, <3>1, <4>1, <4>2, <4>3
            <3>2. CASE command.name # "uninstall"
                  <4>1. command.ws \notin Ends
                        BY <1>8, <3>2, GivenIs
                  <4>2. "removed" \in Ends
                        BY DEF Ends
                  <4>3. \E k \in 1 .. Len(u) : u[k] = TextLine("begin", r, command.ws)
                        BY <1>6, <2>1, <2>2, <3>2
                  <4> QED BY <1>9, <2>2, <3>2, <4>1, <4>2, <4>3
            <3> QED BY <3>1, <3>2
      <2>3. CASE q # r
            <3>1. <<r, q>> \notin alike
                  BY <1>3 DEF Apart
            <3>2. Keeps(gitHook, u, r)
                  BY <1>6, <2>1 DEF Sound
            <3>3. last'[q] = last[q]
                  BY <1>9, <2>3
            <3>4. ASSUME last[q] \notin Ends PROVE \E k \in 1 .. Len(u) : u[k] = TextLine("begin", q, last[q])
                  <4>1. PICK k \in 1 .. Len(gitHook) : gitHook[k] = TextLine("begin", q, last[q])
                        BY <3>4 DEF WiringInv, Answered
                  <4>2. gitHook[k].repo = q
                        BY <4>1 DEF TextLine
                  <4> QED BY <2>3, <3>1, <3>2, <4>1, <4>2 DEF Keeps
            <3>5. ASSUME last[q] = "removed"
                  PROVE  /\ "ours" \notin settings[q] /\ Unopened(md[q]) /\ q \notin skills
                         /\ \A k \in 1 .. Len(u) : ~(u[k].mark = "begin" /\ u[k].repo = q)
                  <4>1. /\ "ours" \notin settings[q] /\ Unopened(md[q]) /\ q \notin skills
                        /\ \A k \in 1 .. Len(gitHook) : ~(gitHook[k].mark = "begin" /\ gitHook[k].repo = q)
                        BY <3>5 DEF WiringInv, Answered
                  <4>2. ASSUME NEW k \in 1 .. Len(u), u[k].mark = "begin", u[k].repo = q PROVE FALSE
                        <5>1. \E m \in 1 .. Len(gitHook) : u[k] = gitHook[m]
                              BY <2>3, <3>2, <4>2 DEF Keeps
                        <5> QED BY <4>1, <4>2, <5>1
                  <4> QED BY <4>1, <4>2
            <3> QED BY <3>3, <3>4, <3>5
      <2> QED BY <2>2, <2>3
<1> QED BY <1>2, <1>6, <1>7, <1>10, <1>11, <1>12, <1>13, <1>14 DEF WiringInv

\* The command dies.
LEMMA DeathKeeps == ASSUME WiringInv, CommandDies PROVE WiringInv'
<1>1. command' = NoCommand /\ UNCHANGED <<alike, md, gitHook, settings, skills, last, own, mdCut, hookCut>>
      BY DEF CommandDies
<1>2. NoCommand \in [name : {"none", "install", "memory", "uninstall"}, repo : Repos \cup {"none"},
                     ws : Words, left : Parts]
      BY DEF NoCommand, Words, Parts
<1>3. WiringTyped'
      BY <1>1, <1>2 DEF WiringInv, WiringTyped
<1>4. Underway' /\ SoFar'
      BY <1>1 DEF NoCommand, Underway, SoFar
<1>5. Tidy(gitHook)' /\ MdTidy' /\ HookLinesKept' /\ MdLinesKept' /\ Answered'
      BY <1>1 DEF WiringInv, Tidy, Apart, MdTidy, HookLinesKept, MdLinesKept, Answered
<1> QED BY <1>3, <1>4, <1>5 DEF WiringInv

\* The user adds a line.
LEMMA LinesKeep == ASSUME WiringInv, AddsLine PROVE WiringInv'
<1>1. PICK k : k = Cardinality(own) + 1
      OBVIOUS
<1>2. k \in Nat
      BY <1>1, FS_CardinalityType DEF WiringInv, WiringTyped
<1>3. UNCHANGED <<alike, settings, skills, command, last, mdCut, hookCut>>
      BY DEF AddsLine
<1>4. /\ gitHook \in Seq(WiredLine) /\ md \in [Repos -> Seq(WiredLine)] /\ \A r \in Repos : md[r] \in Seq(Mine(r))
      BY DEF WiringInv, WiringTyped, Tidy
<1>5. PICK l : l = UserLine(k)
      OBVIOUS
<1>6. l \in WiredLine /\ l.mark = "user" /\ \A r \in Repos : l \in Mine(r)
      BY <1>2, <1>5 DEF UserLine, TextLine, WiredLine, Words, Mine
<1>7. (Underway' /\ SoFar') \/ ~(\A r \in Repos : Unopened(md[r]) => Unopened(md'[r]))
      BY <1>3 DEF WiringInv, Underway, SoFar
<1>8. CASE gitHook' = Append(gitHook, l) /\ own' = own \cup {<<k, "hook">>} /\ UNCHANGED md
      <2>0. PICK u : u = Append(gitHook, l)
            OBVIOUS
      <2>1. /\ u \in Seq(WiredLine)
            /\ \A j \in 1 .. Len(gitHook) : j \in 1 .. Len(u) /\ u[j] = gitHook[j]
            /\ \E j \in 1 .. Len(u) : u[j] = l
            /\ \A j \in 1 .. Len(u) : u[j].mark # "user" => j \in 1 .. Len(gitHook)
            /\ Whole(gitHook) => Whole(u)
            /\ Loose(gitHook) => Loose(u)
            /\ \A q \in Repos : Alone(gitHook, q) => Alone(u, q)
            <3>1. WiredLine \subseteq WiredLine /\ gitHook \in Seq(WiredLine) /\ l \in WiredLine /\ l.mark = "user"
                  BY <1>4, <1>6
            <3>2. u \in Seq(WiredLine) /\ WithLine(gitHook, u, l)
                  BY <3>1, <2>0, UserAppends
            <3> QED BY <3>2 DEF WithLine
      <2>2. gitHook' = u
            BY <1>8, <2>0
      <2>3. WiringTyped'
            <3>1. IsFiniteSet(own \cup {<<k, "hook">>})
                  BY FS_AddElement DEF WiringInv, WiringTyped
            <3> QED BY <1>3, <1>8, <3>1 DEF WiringInv, WiringTyped
      <2>4. Tidy(gitHook)'
            BY <1>3, <2>1, <2>2 DEF WiringInv, Tidy, Apart
      <2>5. MdTidy'
            BY <1>3, <1>8 DEF WiringInv, MdTidy
      <2>6. HookLinesKept'
            <3> SUFFICES ASSUME NEW x \in own \cup {<<k, "hook">>}, x[2] = "hook", Sound
                         PROVE  \E j \in DOMAIN u : u[j] = UserLine(x[1])
                BY <1>3, <1>8, <2>2 DEF HookLinesKept, Sound
            <3>1. CASE x \in own
                  <4>1. PICK i \in DOMAIN gitHook : gitHook[i] = UserLine(x[1])
                        BY <3>1 DEF WiringInv, HookLinesKept, Sound
                  <4>2. i \in 1 .. Len(gitHook)
                        BY <1>4, <4>1
                  <4> QED BY <2>1, <4>1, <4>2
            <3>2. CASE x = <<k, "hook">>
                  BY <1>5, <2>1, <3>2
            <3> QED BY <3>1, <3>2
      <2>7. MdLinesKept'
            <3>1. <<k, "hook">>[2] = "hook" /\ "hook" \notin Repos
                  BY WiredAssumption
            <3> QED BY <1>3, <1>8, <3>1 DEF WiringInv, MdLinesKept
      <2>8. Answered'
            <3> SUFFICES ASSUME NEW q \in Repos, mdCut \cup hookCut = {}, Apart(q)
                         PROVE  /\ last[q] \notin Ends => \E j \in 1 .. Len(u) : u[j] = TextLine("begin", q, last[q])
                                /\ last[q] = "removed" =>
                                      /\ "ours" \notin settings[q] /\ Unopened(md[q]) /\ q \notin skills
                                      /\ \A j \in 1 .. Len(u) : ~(u[j].mark = "begin" /\ u[j].repo = q)
                BY <1>3, <1>8, <2>2 DEF Answered, Apart
            <3>1. /\ last[q] \notin Ends => \E j \in 1 .. Len(gitHook) : gitHook[j] = TextLine("begin", q, last[q])
                  /\ last[q] = "removed" =>
                        /\ "ours" \notin settings[q] /\ Unopened(md[q]) /\ q \notin skills
                        /\ \A j \in 1 .. Len(gitHook) : ~(gitHook[j].mark = "begin" /\ gitHook[j].repo = q)
                  BY DEF WiringInv, Answered
            <3>2. \A j \in 1 .. Len(u) : u[j].mark = "begin" => j \in 1 .. Len(gitHook) /\ u[j] = gitHook[j]
                  BY <2>1
            <3> QED BY <2>1, <3>1, <3>2
      <2> QED BY <1>7, <1>8, <2>3, <2>4, <2>5, <2>6, <2>7, <2>8 DEF WiringInv
<1>9. ASSUME NEW r \in Repos, md' = [md EXCEPT ![r] = Append(@, l)], own' = own \cup {<<k, r>>}, UNCHANGED gitHook
      PROVE  WiringInv'
      <2>0. PICK u : u = Append(md[r], l)
            OBVIOUS
      <2>1. /\ u \in Seq(Mine(r))
            /\ \A j \in 1 .. Len(md[r]) : j \in 1 .. Len(u) /\ u[j] = md[r][j]
            /\ \E j \in 1 .. Len(u) : u[j] = l
            /\ \A j \in 1 .. Len(u) : u[j].mark # "user" => j \in 1 .. Len(md[r])
            /\ Whole(md[r]) => Whole(u)
            /\ Loose(md[r]) => Loose(u)
            /\ \A q \in Repos : Alone(md[r], q) => Alone(u, q)
            <3>1. md[r] \in Seq(Mine(r)) /\ l \in Mine(r) /\ Mine(r) \subseteq WiredLine
                  BY <1>4, <1>6 DEF Mine
            <3>2. l.mark = "user"
                  BY <1>6
            <3>3. u \in Seq(Mine(r)) /\ WithLine(md[r], u, l)
                  BY <3>1, <3>2, <2>0, UserAppends
            <3> QED BY <3>3 DEF WithLine
      <2>2. u \in Seq(WiredLine)
            BY <2>1, OwnMarkers
      <2>3. /\ md' \in [Repos -> Seq(WiredLine)] /\ md'[r] = u
            /\ \A q \in Repos : q # r => md'[q] = md[q]
            BY <1>4, <1>9, <2>0, <2>2
      <2>4. \A q \in Repos : Unopened(md[q]) => Unopened(md'[q])
            <3>1. Unopened(md[r]) => Unopened(u)
                  <4>1. ASSUME Unopened(md[r]), NEW j \in 1 .. Len(u), u[j].mark = "begin" PROVE FALSE
                        <5>1. j \in 1 .. Len(md[r]) /\ u[j] = md[r][j]
                              BY <2>1, <4>1
                        <5> QED BY <4>1, <5>1 DEF Unopened
                  <4> QED BY <4>1 DEF Unopened
            <3> QED BY <2>3, <3>1
      <2>5. WiringTyped'
            <3>1. IsFiniteSet(own \cup {<<k, r>>})
                  BY FS_AddElement DEF WiringInv, WiringTyped
            <3>2. \A q \in Repos : md'[q] \in Seq(Mine(q))
                  BY <1>4, <2>1, <2>3
            <3> QED BY <1>3, <1>9, <2>3, <3>1, <3>2 DEF WiringInv, WiringTyped
      <2>6. Tidy(gitHook)'
            BY <1>3, <1>9 DEF WiringInv, Tidy, Apart
      <2>7. MdTidy'
            <3>1. ASSUME NEW q \in Repos
                  PROVE  /\ <<q, "end">> \notin mdCut => Whole(md'[q])
                         /\ mdCut = {} => Alone(md'[q], q)
                  BY <2>1, <2>3 DEF WiringInv, MdTidy
            <3> QED BY <1>3, <3>1 DEF MdTidy
      <2>8. HookLinesKept'
            <3>1. <<k, r>>[2] = r /\ r # "hook"
                  BY WiredAssumption
            <3> QED BY <1>3, <1>9, <3>1 DEF WiringInv, HookLinesKept
      <2>9. MdLinesKept'
            <3> SUFFICES ASSUME NEW x \in own \cup {<<k, r>>}, x[2] \in Repos, <<x[2], "end">> \notin mdCut
                         PROVE  \E i \in DOMAIN md'[x[2]] : md'[x[2]][i] = UserLine(x[1])
                BY <1>3, <1>9 DEF MdLinesKept
            <3>1. CASE x = <<k, r>>
                  <4>1. x[1] = k /\ x[2] = r
                        BY <3>1
                  <4> QED BY <1>5, <2>1, <2>2, <2>3, <4>1
            <3>2. CASE x \in own
                  <4>1. PICK i \in DOMAIN md[x[2]] : md[x[2]][i] = UserLine(x[1])
                        BY <3>2 DEF WiringInv, MdLinesKept
                  <4>2. CASE x[2] = r
                        <5>1. i \in 1 .. Len(md[r])
                              BY <1>4, <4>1, <4>2
                        <5> QED BY <2>1, <2>2, <2>3, <4>1, <4>2, <5>1
                  <4>3. CASE x[2] # r
                        BY <2>3, <4>1, <4>3
                  <4> QED BY <4>2, <4>3
            <3> QED BY <3>1, <3>2
      <2>10. Answered'
            BY <1>3, <1>9, <2>4 DEF WiringInv, Answered, Apart
      <2> QED BY <1>7, <2>4, <2>5, <2>6, <2>7, <2>8, <2>9, <2>10 DEF WiringInv
<1> QED BY <1>1, <1>5, <1>8, <1>9 DEF AddsLine

\* The user deletes a marker.
LEMMA DeletionKeeps == ASSUME WiringInv, DeletesMarker PROVE WiringInv'
<1>1. mdCut \cup hookCut = {} /\ UNCHANGED <<alike, settings, skills, command, last, own>>
      BY DEF DeletesMarker
<1>2. /\ gitHook \in Seq(WiredLine) /\ md \in [Repos -> Seq(WiredLine)] /\ \A r \in Repos : md[r] \in Seq(Mine(r))
      BY DEF WiringInv, WiringTyped, Tidy
<1>3. CASE \E i \in DOMAIN gitHook :
             /\ gitHook[i].mark \in {"begin", "end"}
             /\ gitHook' = RemoveAt(gitHook, i) /\ hookCut' = {gitHook[i].repo} /\ UNCHANGED <<md, mdCut>>
      <2>1. PICK i \in 1 .. Len(gitHook) :
             /\ gitHook[i].mark \in {"begin", "end"}
             /\ gitHook' = RemoveAt(gitHook, i) /\ hookCut' = {gitHook[i].repo} /\ UNCHANGED <<md, mdCut>>
            BY <1>2, <1>3
      <2>2. Whole(gitHook) /\ \A q \in Repos : Apart(q) => Alone(gitHook, q)
            BY <1>1 DEF WiringInv, Tidy
      <2>3. PICK u \in Seq(WiredLine) :
              /\ u = RemoveAt(gitHook, i)
              /\ \A k \in 1 .. Len(gitHook) : gitHook[k].mark = "user" => \E j \in 1 .. Len(u) : u[j] = gitHook[k]
              /\ gitHook[i].mark = "begin" => Whole(u)
              /\ (\A q \in Repos : Alone(gitHook, q)) => Loose(u)
            BY <1>2, <2>1, <2>2, UserDeletes
      <2>4. gitHook' = u /\ hookCut' # {} /\ mdCut' \cup hookCut' # {}
            BY <2>1, <2>3
      <2>5. alike = {} => \A q \in Repos : Apart(q)
            BY DEF Apart
      <2>6. Tidy(gitHook)'
            BY <1>1, <2>2, <2>3, <2>4, <2>5 DEF Tidy
      <2>7. HookLinesKept'
            <3> SUFFICES ASSUME NEW x \in own, x[2] = "hook"
                         PROVE  \E j \in DOMAIN u : u[j] = UserLine(x[1])
                BY <1>1, <2>4 DEF HookLinesKept
            <3>1. PICK k \in DOMAIN gitHook : gitHook[k] = UserLine(x[1])
                  BY <1>1 DEF WiringInv, HookLinesKept
            <3>2. k \in 1 .. Len(gitHook) /\ gitHook[k].mark = "user"
                  BY <1>2, <3>1 DEF UserLine, TextLine
            <3> QED BY <2>3, <3>1, <3>2
      <2>8. WiringTyped' /\ Underway' /\ MdTidy' /\ MdLinesKept'
            BY <1>1, <2>1 DEF WiringInv, WiringTyped, Underway, MdTidy, MdLinesKept
      <2>9. SoFar' /\ Answered'
            BY <2>4 DEF SoFar, Answered
      <2> QED BY <2>6, <2>7, <2>8, <2>9 DEF WiringInv
<1>4. CASE \E r \in Repos : \E i \in DOMAIN md[r] :
             /\ md[r][i].mark \in {"begin", "end"}
             /\ md' = [md EXCEPT ![r] = RemoveAt(@, i)]
             /\ mdCut' = {<<r, md[r][i].mark>>} /\ UNCHANGED <<gitHook, hookCut>>
      <2>0. PICK r \in Repos : \E i \in DOMAIN md[r] :
             /\ md[r][i].mark \in {"begin", "end"}
             /\ md' = [md EXCEPT ![r] = RemoveAt(@, i)]
             /\ mdCut' = {<<r, md[r][i].mark>>} /\ UNCHANGED <<gitHook, hookCut>>
            BY <1>4
      <2>1. PICK i \in 1 .. Len(md[r]) :
             /\ md[r][i].mark \in {"begin", "end"}
             /\ md' = [md EXCEPT ![r] = RemoveAt(md[r], i)]
             /\ mdCut' = {<<r, md[r][i].mark>>} /\ UNCHANGED <<gitHook, hookCut>>
            <3>1. md[r] \in Seq(WiredLine)
                  BY <1>2
            <3>2. DOMAIN md[r] = 1 .. Len(md[r])
                  BY <3>1
            <3> QED BY <2>0, <3>2
      <2>2. \A q \in Repos : Whole(md[q])
            BY <1>1 DEF WiringInv, MdTidy
      <2>3. PICK u \in Seq(Mine(r)) :
              /\ u = RemoveAt(md[r], i)
              /\ \A k \in 1 .. Len(md[r]) : md[r][k].mark = "user" => \E j \in 1 .. Len(u) : u[j] = md[r][k]
              /\ md[r][i].mark = "begin" => Whole(u)
              /\ (\A q \in Repos : Alone(md[r], q)) => Loose(u)
            <3>1. md[r] \in Seq(Mine(r)) /\ Mine(r) \subseteq WiredLine
                  BY <1>2 DEF Mine
            <3> QED BY <2>1, <2>2, <3>1, UserDeletes
      <2>4. u \in Seq(WiredLine)
            BY OwnMarkers
      <2>5. /\ md' \in [Repos -> Seq(WiredLine)] /\ md'[r] = u
            /\ \A q \in Repos : q # r => md'[q] = md[q]
            BY <1>2, <2>1, <2>3, <2>4
      <2>6. mdCut' # {} /\ mdCut' \cup hookCut' # {}
            BY <2>1
      <2>7. WiringTyped'
            <3>1. \A q \in Repos : md'[q] \in Seq(Mine(q))
                  BY <1>2, <2>3, <2>5
            <3> QED BY <1>1, <2>5, <3>1 DEF WiringInv, WiringTyped
      <2>8. MdTidy'
            <3>1. ASSUME NEW q \in Repos, <<q, "end">> \notin mdCut' PROVE Whole(md'[q])
                  <4>1. CASE q = r
                        <5>1. md[r][i].mark = "begin"
                              BY <2>1, <3>1, <4>1
                        <5> QED BY <2>3, <2>5, <4>1, <5>1
                  <4>2. CASE q # r
                        BY <2>2, <2>5, <4>2
                  <4> QED BY <4>1, <4>2
            <3> QED BY <2>6, <3>1 DEF MdTidy
      <2>9. MdLinesKept'
            <3> SUFFICES ASSUME NEW x \in own, x[2] \in Repos
                         PROVE  \E j \in DOMAIN md'[x[2]] : md'[x[2]][j] = UserLine(x[1])
                BY <1>1 DEF MdLinesKept
            <3>1. PICK k \in DOMAIN md[x[2]] : md[x[2]][k] = UserLine(x[1])
                  BY <1>1 DEF WiringInv, MdLinesKept
            <3>2. CASE x[2] = r
                  <4>1. k \in 1 .. Len(md[r]) /\ md[r][k].mark = "user" /\ md[r][k] = UserLine(x[1])
                        BY <1>2, <3>1, <3>2 DEF UserLine, TextLine
                  <4> QED BY <2>3, <2>4, <2>5, <3>2, <4>1
            <3>3. CASE x[2] # r
                  BY <2>5, <3>1, <3>3
            <3> QED BY <3>2, <3>3
      <2>10. Tidy(gitHook)' /\ Underway' /\ HookLinesKept'
            BY <1>1, <2>1 DEF WiringInv, Tidy, Apart, Underway, HookLinesKept
      <2>11. SoFar' /\ Answered'
            BY <2>6 DEF SoFar, Answered
      <2> QED BY <2>7, <2>8, <2>9, <2>10, <2>11 DEF WiringInv
<1> QED BY <1>3, <1>4 DEF DeletesMarker

\* The invariant is inductive.
LEMMA WiringInductive == WiringInv /\ [Wire]_wiring => WiringInv'
<1> SUFFICES ASSUME WiringInv, [Wire]_wiring PROVE WiringInv'
    OBVIOUS
<1>1. CASE \E c \in Commands : Asks(c)
      BY <1>1, AsksKeeps
<1>2. CASE WritesSettings
      BY <1>2, SettingsKeep
<1>3. CASE WritesMd
      BY <1>3, MdKeep
<1>4. CASE WritesSkills
      BY <1>4, SkillsKeep
<1>5. CASE WritesHook
      BY <1>5, HookKeeps
<1>6. CASE CommandDies
      BY <1>6, DeathKeeps
<1>7. CASE AddsLine
      BY <1>7, LinesKeep
<1>8. CASE DeletesMarker
      BY <1>8, DeletionKeeps
<1>9. CASE UNCHANGED wiring
      BY <1>9 DEF wiring, WiringInv, WiringTyped, Underway, Tidy, Apart, MdTidy, HookLinesKept, MdLinesKept, SoFar, Answered
<1> QED BY <1>1, <1>2, <1>3, <1>4, <1>5, <1>6, <1>7, <1>8, <1>9 DEF Wire

\* The invariant says what is wanted.
LEMMA DoneIs == WiringInv => LastIsDone
<1> SUFFICES ASSUME WiringInv, NEW r \in Repos, mdCut \cup hookCut = {},
                    \A q \in Repos : {<<r, q>>, <<q, r>>} \cap alike = {}
             PROVE  /\ last[r] \notin {"none", "cut", "removed"} =>
                          /\ {i \in DOMAIN gitHook : gitHook[i] = TextLine("begin", r, last[r])} # {}
                          /\ Cardinality({i \in DOMAIN gitHook : gitHook[i].repo = r}) = 2
                          /\ Mode(r) # "none"
                    /\ last[r] = "removed" => Mode(r) = "none" /\ ~HasHook(r)
    BY DEF LastIsDone
<1>1. Apart(r) /\ hookCut = {}
      BY DEF Apart
<1>2. gitHook \in Seq(WiredLine) /\ DOMAIN gitHook = 1 .. Len(gitHook) /\ Whole(gitHook) /\ Alone(gitHook, r)
      BY <1>1 DEF WiringInv, Tidy
<1>3. ASSUME last[r] \notin {"none", "cut", "removed"}
      PROVE  /\ {i \in DOMAIN gitHook : gitHook[i] = TextLine("begin", r, last[r])} # {}
             /\ Cardinality({i \in DOMAIN gitHook : gitHook[i].repo = r}) = 2
             /\ Mode(r) # "none"
      <2>1. PICK i \in 1 .. Len(gitHook) : gitHook[i] = TextLine("begin", r, last[r])
            BY <1>1, <1>3 DEF WiringInv, Answered, Ends
      <2>2. gitHook[i].mark = "begin" /\ gitHook[i].repo = r
            BY <2>1 DEF TextLine
      <2>3. i + 1 \in 1 .. Len(gitHook) /\ gitHook[i + 1].mark = "end" /\ gitHook[i + 1].repo = r
            BY <1>2, <2>2 DEF Whole
      <2>4. ASSUME NEW k \in 1 .. Len(gitHook), gitHook[k].repo = r PROVE k = i \/ k = i + 1
            <3>1. gitHook[k] \in WiredLine /\ r # "none"
                  BY <1>2, WiredAssumption
            <3>2. gitHook[k].mark \in {"begin", "end"}
                  BY <2>4, <3>1 DEF WiredLine
            <3>3. CASE gitHook[k].mark = "begin"
                  BY <1>2, <2>2, <2>4, <3>3 DEF Alone
            <3>4. CASE gitHook[k].mark = "end"
                  <4>1. k - 1 \in 1 .. Len(gitHook) /\ gitHook[k - 1].mark = "begin" /\ gitHook[k - 1].repo = r
                        BY <1>2, <2>4, <3>4 DEF Alone
                  <4>2. k - 1 = i
                        BY <1>2, <2>2, <4>1 DEF Alone
                  <4> QED BY <4>2
            <3> QED BY <3>2, <3>3, <3>4
      <2>5. {k \in DOMAIN gitHook : gitHook[k].repo = r} = {i, i + 1}
            BY <1>2, <2>2, <2>3, <2>4
      <2>6. Cardinality({i, i + 1}) = 2
            <3>1. IsFiniteSet({i}) /\ Cardinality({i}) = 1
                  BY FS_Singleton
            <3>2. {i, i + 1} = {i} \cup {i + 1} /\ i + 1 \notin {i}
                  OBVIOUS
            <3>3. Cardinality({i} \cup {i + 1}) = Cardinality({i}) + 1
                  BY <3>1, <3>2, FS_AddElement
            <3>4. Cardinality({i, i + 1}) = 1 + 1
                  BY <3>1, <3>2, <3>3, Zenon
            <3> QED BY <3>4
      <2>7. HasHook(r)
            BY <1>2, <2>2 DEF HasHook, Holds
      <2>8. Mode(r) # "none"
            BY <2>7 DEF Mode
      <2> QED BY <1>2, <2>1, <2>5, <2>6, <2>8
<1>4. ASSUME last[r] = "removed"
      PROVE  Mode(r) = "none" /\ ~HasHook(r)
      <2>1. /\ "ours" \notin settings[r] /\ Unopened(md[r]) /\ r \notin skills
            /\ \A k \in 1 .. Len(gitHook) : ~(gitHook[k].mark = "begin" /\ gitHook[k].repo = r)
            BY <1>1, <1>4 DEF WiringInv, Answered
      <2>2. ~HasHook(r)
            <3>1. ASSUME NEW k \in 1 .. Len(gitHook), Holds(gitHook[k], "begin", r) PROVE FALSE
                  <4>1. gitHook[k].mark = "begin" /\ (gitHook[k].repo = r \/ <<r, gitHook[k].repo>> \in alike)
                        BY <3>1 DEF Holds
                  <4>2. gitHook[k] \in WiredLine
                        BY <1>2
                  <4>3. gitHook[k].repo \in Repos
                        BY <4>1, <4>2 DEF WiredLine
                  <4> QED BY <1>1, <2>1, <4>1, <4>3 DEF Apart
            <3> QED BY <1>2, <3>1 DEF HasHook
      <2>3. ~HasMd(r)
            <3>1. md[r] \in Seq(WiredLine)
                  BY DEF WiringInv, WiringTyped
            <3> QED BY <2>1, <3>1 DEF HasMd, Unopened
      <2>4. {"ours" \in settings[r], HasMd(r), r \in skills} = {FALSE}
            <3>1. ("ours" \in settings[r]) = FALSE /\ HasMd(r) = FALSE /\ (r \in skills) = FALSE
                  BY <2>1, <2>3 DEF HasMd
            <3> QED BY <3>1, Zenon
      <2> QED BY <2>2, <2>4 DEF Mode
<1> QED BY <1>3, <1>4

\* What others' lines a step leaves.
LEMMA OthersStay ==
    ASSUME WiringInv, [Wire]_wiring, NEW q \in Repos, command # NoCommand, q # command.repo,
           <<command.repo, q>> \notin alike, hookCut = {} \/ alike = {}
    PROVE  LinesOf(gitHook', q) = LinesOf(gitHook, q)
<1>1. CASE WritesHook
      <2>1. Keeps(gitHook, gitHook', command.repo)
            BY <1>1, HookKeeps DEF Sound
      <2> QED BY <2>1 DEF Keeps
<1>2. CASE ~WritesHook
      <2>1. gitHook' = gitHook
            BY <1>2 DEF Wire, wiring, Asks, WritesSettings, WritesMd, WritesSkills, CommandDies, AddsLine, DeletesMarker
      <2> QED BY <2>1
<1> QED BY <1>1, <1>2

\* For any repositories, paths, commands, lines of users and deaths between two files:
\* the inductive invariant.
THEOREM WiringKeepsInv == WiringSpec => []WiringInv
<1>1. WiringInit => WiringInv
      BY WiringStarts
<1> QED BY <1>1, WiringInductive, PTL DEF WiringSpec

\* For any repositories, paths, commands, lines of users and deaths between two files: a
\* user's lines survive, what was asked for last is what is there, and no section of
\* another repository is touched, but for the exceptions that the property itself makes
\* (wire.ts, gitHooks.ts:186-222).
THEOREM WiringIsKept == WiringSpec => WiringKept
<1>1. WiringInit => WiringInv
      BY WiringStarts
<1>2. WiringInv => HookLinesKept /\ MdLinesKept /\ LastIsDone
      BY DoneIs DEF WiringInv
<1>3. WiringInv /\ [Wire]_wiring
        => [\A q \in Repos :
              /\ command # NoCommand /\ q # command.repo /\ <<command.repo, q>> \notin alike
              /\ hookCut = {} \/ alike = {}
              => LinesOf(gitHook', q) = LinesOf(gitHook, q)]_wiring
      BY OthersStay
<1> QED BY <1>1, <1>2, <1>3, WiringInductive, PTL DEF WiringSpec, WiringKept, OthersKept
=============================================================================

----------------------- MODULE EmbeddedRegistryProofs -----------------------
(* Proofs for the daemon's registry of embedded stores: what a caller has     *)
(* borrowed is not closed, counts are exact, one instance is open for a       *)
(* directory, and the cap holds (src/src/mcp/embeddedRegistry.ts).  And for   *)
(* the hooks, by which agents reach its workspaces: one hook of a call speaks *)
(* and a rejection is told once (src/scripts/atlas-hook.mjs); what the daemon *)
(* knows of folders is what is on disk (src/src/pathWorkspaceResolver.ts).    *)
EXTENDS HookCalls, EmbeddedRegistry, FiniteSetTheorems, WellFoundedInduction, TLAPS

\* The instances that only an open, and no delete, puts into the map.
Lasting(some, all) == {i \in some : all[i].dir \notin Closable}

\* The borrowers of a directory can be counted.
LEMMA UsersFinite ==
    ASSUME NEW us, NEW d
    PROVE  IsFiniteSet(Borrowers(us, d)) /\ Cardinality(Borrowers(us, d)) \in Nat
BY RegistryAssumption, FS_Subset, FS_CardinalityType DEF Borrowers

\* A borrow adds one to the callers of its directory.
LEMMA UserEnters ==
    ASSUME TypeOK, NEW u \in Users, user[u] = NoUse, NEW d \in Dirs, NEW i,
           user' = [user EXCEPT ![u] = [inst |-> i, dir |-> d]]
    PROVE  \A e \in Dirs : Cardinality(Borrowers(user', e)) =
              IF e = d THEN Cardinality(Borrowers(user, e)) + 1 ELSE Cardinality(Borrowers(user, e))
<1>1. user[u].dir = None /\ None \notin Dirs
      BY RegistryAssumption DEF NoUse
<1>2. Borrowers(user', d) = Borrowers(user, d) \cup {u} /\ u \notin Borrowers(user, d)
      BY <1>1 DEF Borrowers, TypeOK
<1>3. \A e \in Dirs : e # d => Borrowers(user', e) = Borrowers(user, e)
      BY <1>1 DEF Borrowers, TypeOK
<1>4. Cardinality(Borrowers(user', d)) = Cardinality(Borrowers(user, d)) + 1
      BY <1>2, UsersFinite, FS_AddElement
<1> QED BY <1>3, <1>4

\* A release takes one from them.
LEMMA UserLeaves ==
    ASSUME TypeOK, NEW u \in Users, user[u].dir \in Dirs,
           user' = [user EXCEPT ![u] = NoUse]
    PROVE  /\ \A e \in Dirs : Cardinality(Borrowers(user', e)) =
                 IF e = user[u].dir THEN Cardinality(Borrowers(user, e)) - 1
                 ELSE Cardinality(Borrowers(user, e))
           /\ Cardinality(Borrowers(user, user[u].dir)) >= 1
<1> DEFINE d == user[u].dir
<1>1. NoUse.dir = None /\ None \notin Dirs
      BY RegistryAssumption DEF NoUse
<1>2. Borrowers(user', d) = Borrowers(user, d) \ {u} /\ u \in Borrowers(user, d)
      BY <1>1 DEF Borrowers, TypeOK
<1>3. \A e \in Dirs : e # d => Borrowers(user', e) = Borrowers(user, e)
      BY <1>1 DEF Borrowers, TypeOK
<1> HIDE DEF d
<1>4. /\ Cardinality(Borrowers(user', d)) = Cardinality(Borrowers(user, d)) - 1
      /\ Cardinality(Borrowers(user', d)) \in Nat /\ Cardinality(Borrowers(user, d)) \in Nat
      <2>1. IsFiniteSet(Borrowers(user, d)) /\ Cardinality(Borrowers(user', d)) \in Nat
               /\ Cardinality(Borrowers(user, d)) \in Nat
            BY UsersFinite
      <2> QED BY <1>2, <2>1, FS_RemoveElement
<1>5. \A e \in Dirs : Cardinality(Borrowers(user', e)) =
         IF e = d THEN Cardinality(Borrowers(user, e)) - 1 ELSE Cardinality(Borrowers(user, e))
      BY <1>3, <1>4
<1>6. Cardinality(Borrowers(user, d)) >= 1
      BY <1>4
<1> QED BY <1>5, <1>6 DEF d

\* What the map operations leave in the map, and that it stays one.
LEMMA MapTyped ==
    ASSUME TypeOK, NEW some \in SUBSET Insts, NEW i \in Insts, NEW j \in Insts
    PROVE  /\ Retain(some) => /\ instances' = some
                              /\ older' \subseteq Insts \X Insts
           /\ SetLast(some, i) => /\ instances' = some \cup {i}
                                  /\ older' \subseteq Insts \X Insts
           /\ SetInPlace(j, i) /\ j \in instances =>
                 /\ instances' = (instances \ {j}) \cup {i}
                 /\ older' \subseteq Insts \X Insts
<1>1. Retain(some) => older' \subseteq Insts \X Insts
      BY DEF Retain, Among, TypeOK
<1>2. SetLast(some, i) => older' \subseteq Insts \X Insts
      BY DEF SetLast, Among, TypeOK
<1>3. SetInPlace(j, i) => older' \subseteq Insts \X Insts
      BY DEF SetInPlace, TypeOK
<1>4. SetInPlace(j, i) /\ j \in instances => instances' = (instances \ {j}) \cup {i}
      BY DEF SetInPlace
<1> QED BY <1>1, <1>2, <1>3, <1>4 DEF Retain, SetLast

\* An instance that becomes the most recent joins the map once.
LEMMA SetLastTyped ==
    ASSUME TypeOK, NEW some \in SUBSET Insts, NEW i \in Insts, SetLast(some, i)
    PROVE  instances' = some \cup {i} /\ older' \subseteq Insts \X Insts
BY MapTyped

\* The cap holds for a part of what it holds for.
LEMMA BoundedShrinks ==
    ASSUME TypeOK, RegistryBounded,
           Lasting(instances', inst') \subseteq Lasting(instances, inst)
    PROVE  RegistryBounded'
<1> DEFINE before == Lasting(instances, inst)  after == Lasting(instances', inst')
<1>1. IsFiniteSet(before)
      BY RegistryAssumption, FS_Subset DEF Lasting, TypeOK
<1>2. /\ Cardinality(after) <= Cardinality(before)
      /\ Cardinality(after) \in Nat /\ Cardinality(before) \in Nat
      BY <1>1, FS_Subset, FS_CardinalityType
<1>3. Cardinality(before) <= MaxOpen \/ Cardinality(before) <= Cardinality(Users) + PinMax
      BY DEF RegistryBounded, Lasting
<1>4. MaxOpen \in Nat /\ PinMax \in Nat /\ Cardinality(Users) \in Nat
      BY RegistryAssumption, FS_CardinalityType
<1> HIDE DEF before, after
<1>5. Cardinality(after) <= MaxOpen \/ Cardinality(after) <= Cardinality(Users) + PinMax
      BY <1>2, <1>3, <1>4
<1> QED BY <1>5 DEF after, RegistryBounded, Lasting

SoundUse == CountsExact /\ NeverClosedInUse

IInv ==
    /\ TypeOK /\ RegistryBounded
    /\ MapConsistent /\ UsersConsistent /\ SoundUse /\ OpensAwaited

\* A step leaves the directory of k and, until the shutdown, does not close
\* it under a caller.
Undisturbed(k) ==
    /\ inst'[k].dir \in {inst[k].dir, None}
    /\ /\ shutdown = "no"
       /\ inst[k].st \in {"opening", "open"} /\ inst'[k].st \notin {"opening", "open"}
       => \A w \in Users : user[w].inst = k => user[w].dir \notin Sound

Borrows(u, d, i) ==
    /\ user[u] = NoUse
    /\ user' = [user EXCEPT ![u] = [inst |-> i, dir |-> d]]
    /\ refCounts' = Increment(refCounts, d) /\ shutdown' = shutdown

\* What is borrowed is an instance of the directory, opening or open.
Fits(i, d) ==
    /\ inst'[i].dir = d /\ inst'[i].st \in {"opening", "open"}
    /\ \A w \in Users : user[w].inst = i => user[w].dir = d

Spares(i) == \A k \in Insts : k # i => Undisturbed(k)

\* The counts follow the callers, and a borrow leaves the others what they had.
LEMMA BorrowKeepsUse ==
    ASSUME IInv, NEW u \in Users, NEW d \in Dirs, NEW i \in Insts,
           Borrows(u, d, i), Fits(i, d), Spares(i)
    PROVE  UsersConsistent' /\ SoundUse'
<1> USE DEF Borrows, Fits, Spares
<1>1. user[u].dir = None /\ user[u].inst = None /\ None \notin Dirs /\ None \notin Insts
      BY RegistryAssumption DEF NoUse
<1>2. \A w \in Users : user'[w] = IF w = u THEN [inst |-> i, dir |-> d] ELSE user[w]
      BY DEF IInv, TypeOK
<1>3. \A e \in Dirs : Cardinality(Borrowers(user', e)) =
         IF e = d THEN Cardinality(Borrowers(user, e)) + 1 ELSE Cardinality(Borrowers(user, e))
      BY UserEnters DEF IInv
<1>4. \A e \in Dirs : refCounts'[e] = IF e = d THEN refCounts[e] + 1 ELSE refCounts[e]
      BY DEF Increment, IInv, TypeOK
<1>5. \A e \in Dirs : Cardinality(Borrowers(user, e)) \in Nat /\ refCounts[e] \in Nat
      BY UsersFinite DEF IInv, TypeOK
<1>6. \A w \in Users : user'[w] # NoUse =>
         /\ user'[w].inst \in Insts /\ user'[w].dir \in Dirs
         /\ inst'[user'[w].inst].dir \in {user'[w].dir, None}
      <2>1. SUFFICES ASSUME NEW w \in Users, user'[w] # NoUse
                     PROVE  /\ user'[w].inst \in Insts /\ user'[w].dir \in Dirs
                            /\ inst'[user'[w].inst].dir \in {user'[w].dir, None}
            OBVIOUS
      <2>2. CASE w = u
            BY <1>2, <2>2
      <2>3. CASE w # u
            <3>1. user'[w] = user[w] /\ user[w] # NoUse
                  BY <1>2, <2>1, <2>3
            <3>2. /\ user[w].inst \in Insts /\ user[w].dir \in Dirs
                  /\ inst[user[w].inst].dir \in {user[w].dir, None}
                  BY <3>1 DEF IInv, UsersConsistent
            <3>3. user[w].inst = i => user[w].dir = d
                  OBVIOUS
            <3>4. user[w].inst # i => inst'[user[w].inst].dir \in {inst[user[w].inst].dir, None}
                  BY <3>2 DEF Undisturbed
            <3> QED BY <3>1, <3>2, <3>3, <3>4
      <2> QED BY <2>2, <2>3
<1>7. \A e \in Dirs : refCounts'[e] <= Cardinality(Borrowers(user', e))
      <2>1. \A e \in Dirs : refCounts[e] <= Cardinality(Borrowers(user, e))
            BY DEF IInv, UsersConsistent
      <2> SUFFICES ASSUME NEW e \in Dirs PROVE refCounts'[e] <= Cardinality(Borrowers(user', e))
            OBVIOUS
      <2> DEFINE b == Cardinality(Borrowers(user, e))  c == Cardinality(Borrowers(user', e))
      <2>2. c = IF e = d THEN b + 1 ELSE b
            BY <1>3
      <2>3. b \in Nat /\ refCounts[e] \in Nat /\ refCounts[e] <= b
            BY <1>5, <2>1
      <2>4. refCounts'[e] = IF e = d THEN refCounts[e] + 1 ELSE refCounts[e]
            BY <1>4
      <2> HIDE DEF b, c
      <2> QED BY <2>2, <2>3, <2>4 DEF c
<1>8. CountsExact'
      BY <1>3, <1>4, <1>5 DEF IInv, SoundUse, CountsExact, Sound
<1>9. NeverClosedInUse'
      <2>1. SUFFICES ASSUME shutdown = "no", NEW w \in Users, user'[w].dir \in Sound
                     PROVE  inst'[user'[w].inst].st \in {"opening", "open"}
            BY DEF NeverClosedInUse
      <2>2. CASE w = u \/ user[w].inst = i
            BY <1>2, <2>2
      <2>3. CASE w # u /\ user[w].inst # i
            <3>1. user[w].dir \in Sound /\ user[w] # NoUse
                  BY <1>1, <1>2, <2>1, <2>3 DEF Sound, NoUse
            <3>2. user[w].inst \in Insts /\ inst[user[w].inst].st \in {"opening", "open"}
                  BY <2>1, <3>1 DEF IInv, SoundUse, NeverClosedInUse, UsersConsistent
            <3> QED BY <1>2, <2>1, <2>3, <3>1, <3>2 DEF Undisturbed
      <2> QED BY <2>2, <2>3
<1> QED BY <1>6, <1>7, <1>8, <1>9 DEF UsersConsistent, SoundUse

\* What the map has for a directory is an instance of it.
LEMMA CachedIsOfDir ==
    ASSUME IInv, NEW d \in Dirs, NEW i \in Cached(d)
    PROVE  i \in Insts /\ i \in instances /\ inst[i].dir = d
BY DEF IInv, TypeOK, Cached

\* One that is in the map already only moves to its end.
LEMMA SetLastCached ==
    ASSUME IInv, NEW d \in Dirs, NEW i \in Cached(d), SetLast(instances, i)
    PROVE  instances' = instances /\ older' \subseteq Insts \X Insts
<1>1. i \in Insts /\ i \in instances
      BY CachedIsOfDir
<1>2. TypeOK /\ instances \in SUBSET Insts
      BY DEF IInv, TypeOK
<1>3. instances' = instances \cup {i} /\ older' \subseteq Insts \X Insts
      BY <1>1, <1>2, SetLastTyped
<1> QED BY <1>1, <1>3

\* A borrow of an open instance counts, and makes it the most recent.
LEMMA BorrowCachedPreserves ==
    ASSUME IInv, NEW u \in Users, NEW d \in Dirs, BorrowCached(u, d)
    PROVE  IInv'
<1>0. /\ user[u] = NoUse
      /\ refCounts' = Increment(refCounts, d)
      /\ inst' = inst /\ detached' = detached
      /\ UNCHANGED <<failures, quarantined, shutdown, entries>>
      BY DEF BorrowCached, breaker, closeAll
<1>1. PICK i \in Cached(d) :
         /\ inst[i].st # "failed"
         /\ SetLast(instances, i)
         /\ user' = [user EXCEPT ![u] = [inst |-> i, dir |-> d]]
      BY DEF BorrowCached
<1>2. i \in Insts /\ i \in instances /\ inst[i].dir = d
      BY CachedIsOfDir
<1>3. instances' = instances /\ older' \subseteq Insts \X Insts
      BY <1>1, SetLastCached
<1>4. TypeOK'
      BY <1>0, <1>1, <1>2, <1>3 DEF IInv, TypeOK, Increment
<1>5. RegistryBounded'
      BY <1>0, <1>3, BoundedShrinks DEF IInv, Lasting
<1>6. MapConsistent'
      BY <1>0, <1>3 DEF IInv, MapConsistent
<1>7. UsersConsistent' /\ SoundUse'
      <2>1. inst'[i].dir = d /\ inst'[i].st \in {"opening", "open"}
            BY <1>0, <1>1, <1>2 DEF IInv, MapConsistent
      <2>2. \A w \in Users : user[w].inst = i => user[w].dir = d
            BY <1>2, RegistryAssumption DEF IInv, UsersConsistent, NoUse
      <2>3. Borrows(u, d, i) /\ Fits(i, d) /\ Spares(i)
            BY <1>0, <1>1, <2>1, <2>2 DEF Undisturbed, Borrows, Fits, Spares
      <2> QED BY <1>2, <2>3, BorrowKeepsUse
<1>8. OpensAwaited'
      <2>1. \A w \in Users, k \in Insts : user[w].inst = k => user'[w].inst = k
            BY <1>0, <1>1, RegistryAssumption DEF IInv, TypeOK, NoUse
      <2> QED BY <1>0, <1>3, <2>1 DEF IInv, OpensAwaited
<1> QED BY <1>4, <1>5, <1>6, <1>7, <1>8 DEF IInv

\* A borrow refused by the open-failure breaker counts nothing.
LEMMA BorrowRefusedPreserves ==
    ASSUME IInv, NEW u \in Users, NEW d \in Dirs, BorrowRefused(u, d)
    PROVE  IInv'
<1>0. /\ inst' = inst /\ user' = user /\ detached' = detached
      /\ UNCHANGED <<failures, quarantined, shutdown, entries>>
      /\ refCounts' = CountAfterRefusal(d)
      /\ UNCHANGED map \/ \E i \in Cached(d) : SetLast(instances, i)
      BY DEF BorrowRefused, closeAll, breaker
<1>1. refCounts' = refCounts
      <2>1. \A e \in Dirs : refCounts[e] \in Nat
            BY DEF IInv, TypeOK
      <2> QED BY <1>0, <2>1 DEF CountAfterRefusal, Increment, Decrement, IInv, TypeOK
<1>2. instances' = instances /\ older' \subseteq Insts \X Insts
      <2>1. CASE UNCHANGED map
            BY <2>1 DEF IInv, TypeOK, map
      <2>2. CASE \E i \in Cached(d) : SetLast(instances, i)
            <3>1. PICK i \in Cached(d) : SetLast(instances, i)
                  BY <2>2
            <3> QED BY <3>1, SetLastCached
      <2> QED BY <1>0, <2>1, <2>2
<1>3. TypeOK'
      BY <1>0, <1>1, <1>2 DEF IInv, TypeOK
<1>4. RegistryBounded'
      BY <1>0, <1>2, BoundedShrinks DEF IInv, Lasting
<1>5. MapConsistent' /\ UsersConsistent' /\ SoundUse' /\ OpensAwaited'
      BY <1>0, <1>1, <1>2 DEF IInv, MapConsistent, UsersConsistent, SoundUse, CountsExact,
         NeverClosedInUse, OpensAwaited
<1> QED BY <1>3, <1>4, <1>5 DEF IInv


\* Counts and callers stay what they are in a step that closes nothing in use.
LEMMA UseKept ==
    ASSUME IInv, user' = user, refCounts' = refCounts, shutdown' = shutdown,
           \A k \in Insts : Undisturbed(k)
    PROVE  UsersConsistent' /\ SoundUse'
<1>1. UsersConsistent'
      BY DEF IInv, UsersConsistent, Undisturbed
<1>2. CountsExact'
      BY DEF IInv, SoundUse, CountsExact
<1>3. NeverClosedInUse'
      BY RegistryAssumption DEF IInv, SoundUse, NeverClosedInUse, UsersConsistent, Undisturbed,
         NoUse, Sound
<1> QED BY <1>1, <1>2, <1>3 DEF SoundUse

\* Nobody uses an instance of the map whose directory counts no borrow.
LEMMA IdleUnused ==
    ASSUME IInv, shutdown = "no", NEW k \in instances \cup detached,
           refCounts[inst[k].dir] = 0
    PROVE  /\ \A w \in Users : user[w].inst = k => user[w].dir \notin Sound
           /\ inst[k].dir \in Sound => inst[k].st # "opening"
<1>1. k \in Insts /\ inst[k].dir # None
      BY DEF IInv, TypeOK, MapConsistent
<1>2. \A w \in Users : user[w].inst = k => user[w].dir = inst[k].dir
      BY <1>1, RegistryAssumption DEF IInv, UsersConsistent, NoUse
<1>3. inst[k].dir \in Sound => Borrowers(user, inst[k].dir) = {}
      BY UsersFinite, FS_EmptySet DEF IInv, SoundUse, CountsExact
<1>4. inst[k].dir \in Sound => \A w \in Users : user[w].inst # k
      BY <1>2, <1>3 DEF Borrowers
<1>5. inst[k].dir \in Sound => inst[k].st # "opening"
      BY <1>1, <1>4 DEF IInv, OpensAwaited
<1> QED BY <1>2, <1>4, <1>5

\* What a close does to each instance.
LEMMA Closes ==
    ASSUME TypeOK, NEW closing
    PROVE  /\ CloseThem(inst, closing) \in
                 [Insts -> [st : {"opening", "open", "doomed", "closing", "failed", "gone"},
                            dir : Dirs \cup {None}]]
           /\ \A k \in Insts :
                 LET now == CloseThem(inst, closing)[k]
                 IN  /\ k \notin closing => now = inst[k]
                     /\ now.dir \in {inst[k].dir, None}
                     /\ now.st = "gone" /\ inst[k].st # "gone" => now.dir = None
                     /\ now.st # "gone" => now.dir = inst[k].dir
                     /\ now.st \in {"opening", "open"} => k \notin closing
                     /\ now.st = "doomed" /\ inst[k].st # "doomed" => inst[k].st = "opening"
                     /\ inst[k].st = "gone" => now = inst[k]
BY DEF CloseThem, TypeOK, Gone

\* An open that resolves gives its waiters the instance, or closes a doomed one.
LEMMA OpenSucceedsPreserves ==
    ASSUME IInv, NEW i \in Insts, OpenSucceeds(i)
    PROVE  IInv'
<1>1. /\ inst[i].st \in {"opening", "doomed"}
      /\ inst' = [inst EXCEPT ![i].st = IF @ = "doomed" THEN "closing" ELSE "open"]
      /\ UNCHANGED <<instances, older, refCounts, user, detached, shutdown, entries>>
      BY DEF OpenSucceeds, map, closeAll
<1>2. /\ inst'[i].dir = inst[i].dir
      /\ inst'[i].st = IF inst[i].st = "doomed" THEN "closing" ELSE "open"
      /\ \A k \in Insts : k # i => inst'[k] = inst[k]
      BY <1>1 DEF IInv, TypeOK
<1>3. inst[i].dir \in Dirs
      BY <1>1 DEF IInv, TypeOK, MapConsistent
<1>4. TypeOK'
      <2>1. inst' \in [Insts -> [st : {"opening", "open", "doomed", "closing", "failed", "gone"},
                                 dir : Dirs \cup {None}]]
            BY <1>1 DEF IInv, TypeOK
      <2>2. failures' \in [Dirs -> 0..Threshold] /\ quarantined' \in [Dirs -> BOOLEAN]
            BY <1>3, RegistryAssumption DEF OpenSucceeds, IInv, TypeOK
      <2> QED BY <1>1, <2>1, <2>2 DEF IInv, TypeOK
<1>5. RegistryBounded'
      <2>1. Lasting(instances', inst') \subseteq Lasting(instances, inst)
            BY <1>1, <1>2 DEF Lasting, IInv, TypeOK
      <2> QED BY <2>1, BoundedShrinks DEF IInv
<1>6. MapConsistent'
      BY <1>1, <1>2 DEF IInv, TypeOK, MapConsistent
<1>7. UsersConsistent' /\ SoundUse'
      <2>1. \A k \in Insts : Undisturbed(k)
            BY <1>1, <1>2 DEF Undisturbed
      <2> QED BY <1>1, <2>1, UseKept
<1>8. OpensAwaited'
      BY <1>1, <1>2 DEF IInv, OpensAwaited
<1> QED BY <1>4, <1>5, <1>6, <1>7, <1>8 DEF IInv

\* The breaker's cooldown touches no instance.
LEMMA CooldownElapsesPreserves ==
    ASSUME IInv, NEW d \in Dirs, CooldownElapses(d)
    PROVE  IInv'
<1>1. UNCHANGED <<instances, older, inst, refCounts, user, detached, failures, shutdown, entries>>
      BY DEF CooldownElapses, map, closeAll
<1>2. TypeOK'
      BY <1>1 DEF CooldownElapses, IInv, TypeOK
<1>3. RegistryBounded'
      BY <1>1, BoundedShrinks DEF IInv, Lasting
<1>4. MapConsistent' /\ UsersConsistent' /\ SoundUse' /\ OpensAwaited'
      BY <1>1 DEF IInv, MapConsistent, UsersConsistent, SoundUse, CountsExact,
         NeverClosedInUse, OpensAwaited
<1> QED BY <1>2, <1>3, <1>4 DEF IInv

\* A close that ends keeps the counts: what it closed was out of use before.
LEMMA CloseEndsPreserves ==
    ASSUME IInv, NEW i \in Insts, CloseEnds(i)
    PROVE  IInv'
<1>1. /\ inst[i].st = "closing" /\ inst' = [inst EXCEPT ![i] = Gone]
      /\ entries' = entries \ {i}
      /\ UNCHANGED <<instances, older, refCounts, user, detached, failures, quarantined, shutdown>>
      BY DEF CloseEnds, map, breaker
<1>2. /\ inst'[i].st = "gone" /\ inst'[i].dir = None
      /\ \A k \in Insts : k # i => inst'[k] = inst[k]
      BY <1>1 DEF IInv, TypeOK, Gone
<1>3. i \notin instances \cup detached
      BY <1>1 DEF IInv, MapConsistent
<1>4. TypeOK'
      BY <1>1 DEF IInv, TypeOK, Gone
<1>5. RegistryBounded'
      <2>1. Lasting(instances', inst') \subseteq Lasting(instances, inst)
            BY <1>1, <1>2, <1>3 DEF Lasting, IInv, TypeOK
      <2> QED BY <2>1, BoundedShrinks DEF IInv
<1>6. MapConsistent'
      BY <1>1, <1>2, <1>3 DEF IInv, TypeOK, MapConsistent
<1>7. UsersConsistent' /\ SoundUse'
      <2>1. \A k \in Insts : Undisturbed(k)
            BY <1>1, <1>2 DEF Undisturbed
      <2> QED BY <1>1, <2>1, UseKept
<1>8. OpensAwaited'
      BY <1>1, <1>2, RegistryAssumption DEF IInv, OpensAwaited, Sound
<1> QED BY <1>4, <1>5, <1>6, <1>7, <1>8 DEF IInv

\* A release takes back the caller's own borrow.
LEMMA ReleasePreserves ==
    ASSUME IInv, NEW u \in Users, Release(u)
    PROVE  IInv'
<1>1. /\ user[u] # NoUse /\ inst[user[u].inst].st \notin {"opening", "doomed"}
      /\ user' = [user EXCEPT ![u] = NoUse]
      /\ refCounts' = Decrement(refCounts, user[u].dir)
      /\ UNCHANGED <<instances, older, inst, detached, failures, quarantined, shutdown, entries>>
      BY DEF Release, map, breaker, closeAll
<1> DEFINE d == user[u].dir
<1>2. d \in Dirs /\ user[u].inst \in Insts
      BY <1>1 DEF IInv, UsersConsistent
<1>3. \A w \in Users : user'[w] = IF w = u THEN NoUse ELSE user[w]
      BY <1>1 DEF IInv, TypeOK
<1>4. /\ \A e \in Dirs : Cardinality(Borrowers(user', e)) =
            IF e = d THEN Cardinality(Borrowers(user, e)) - 1 ELSE Cardinality(Borrowers(user, e))
      /\ Cardinality(Borrowers(user, d)) >= 1
      BY <1>1, <1>2, UserLeaves DEF IInv
<1>5. \A e \in Dirs : refCounts'[e] = IF e # d THEN refCounts[e]
                                      ELSE IF refCounts[d] > 0 THEN refCounts[d] - 1 ELSE 0
      BY <1>1, <1>2 DEF Decrement, IInv, TypeOK
<1>6. \A e \in Dirs : Cardinality(Borrowers(user, e)) \in Nat /\ refCounts[e] \in Nat
      BY UsersFinite DEF IInv, TypeOK
<1>7. TypeOK'
      <2>1. refCounts' \in [Dirs -> Nat]
            BY <1>1, <1>2 DEF Decrement, IInv, TypeOK
      <2>2. user' \in [Users -> [inst : Insts \cup {None}, dir : Dirs \cup {None}]]
            BY <1>1 DEF NoUse, IInv, TypeOK
      <2> QED BY <1>1, <2>1, <2>2 DEF IInv, TypeOK
<1>8. RegistryBounded' /\ MapConsistent'
      BY <1>1 DEF IInv, RegistryBounded, MapConsistent
<1>9. UsersConsistent'
      <2>1. \A w \in Users : user'[w] # NoUse =>
               /\ user'[w].inst \in Insts /\ user'[w].dir \in Dirs
               /\ inst'[user'[w].inst].dir \in {user'[w].dir, None}
            BY <1>1, <1>3 DEF IInv, UsersConsistent
      <2>2. ASSUME NEW e \in Dirs PROVE refCounts'[e] <= Cardinality(Borrowers(user', e))
            <3> DEFINE before == Cardinality(Borrowers(user, e))
                       after == Cardinality(Borrowers(user', e))
            <3>1. before \in Nat /\ refCounts[e] \in Nat /\ refCounts[e] <= before
                  BY <1>6 DEF IInv, UsersConsistent
            <3>2. after = (IF e = d THEN before - 1 ELSE before) /\ (e = d => before >= 1)
                  BY <1>4
            <3>3. refCounts'[e] = IF e # d THEN refCounts[e]
                                  ELSE IF refCounts[e] > 0 THEN refCounts[e] - 1 ELSE 0
                  BY <1>5
            <3> HIDE DEF before, after, d
            <3> QED BY <3>1, <3>2, <3>3 DEF after
      <2> QED BY <2>1, <2>2 DEF UsersConsistent
<1>10. CountsExact'
      <2> SUFFICES ASSUME shutdown = "no", NEW e \in Sound
                   PROVE  refCounts'[e] = Cardinality(Borrowers(user', e))
            BY <1>1 DEF CountsExact
      <2> DEFINE before == Cardinality(Borrowers(user, e))
                 after == Cardinality(Borrowers(user', e))
      <2>0. e \in Dirs
            BY DEF Sound
      <2>1. before \in Nat /\ refCounts[e] = before
            BY <1>6, <2>0 DEF IInv, SoundUse, CountsExact
      <2>2. after = (IF e = d THEN before - 1 ELSE before) /\ (e = d => before >= 1)
            BY <1>4, <2>0
      <2>3. refCounts'[e] = IF e # d THEN refCounts[e]
                            ELSE IF refCounts[e] > 0 THEN refCounts[e] - 1 ELSE 0
            BY <1>5, <2>0
      <2> HIDE DEF before, after, d
      <2> QED BY <2>1, <2>2, <2>3 DEF after
<1>11. NeverClosedInUse'
      BY <1>1, <1>3, RegistryAssumption DEF IInv, SoundUse, NeverClosedInUse, NoUse, Sound
<1>12. OpensAwaited'
      BY <1>1, <1>3 DEF IInv, OpensAwaited
<1> QED BY <1>7, <1>8, <1>9, <1>10, <1>11, <1>12 DEF IInv, SoundUse

\* An open that fails leaves its waiters without an instance and without a count.
LEMMA OpenFailsPreserves ==
    ASSUME IInv, NEW i \in Insts, OpenFails(i)
    PROVE  IInv'
<1> DEFINE d == inst[i].dir
<1>1. /\ inst[i].st \in {"opening", "doomed"} /\ d \in Failing
      /\ Retain(instances \ Cached(d))
      /\ refCounts' = [refCounts EXCEPT ![d] = 0]
      /\ user' = [u \in Users |-> IF user[u].inst = i THEN NoUse ELSE user[u]]
      /\ inst' = [inst EXCEPT ![i] =
                     IF i \in detached THEN [@ EXCEPT !.st = "failed"] ELSE Gone]
      /\ entries' = entries \ {i}
      /\ UNCHANGED <<detached, shutdown>>
      BY DEF OpenFails
<1>2. d \in Dirs
      BY <1>1, RegistryAssumption
<1>3. /\ \A k \in Insts : k # i => inst'[k] = inst[k]
      /\ i \in detached => inst'[i].st = "failed" /\ inst'[i].dir = d
      /\ i \notin detached => inst'[i].st = "gone" /\ inst'[i].dir = None
      BY <1>1 DEF Gone, IInv, TypeOK
<1>4. /\ instances' = instances \ Cached(d) /\ i \notin instances'
      /\ older' \subseteq Insts \X Insts
      BY <1>1 DEF Retain, Among, Cached, IInv, TypeOK
<1>5. \A w \in Users : user[w].inst = i => user[w].dir = d
      BY <1>2, RegistryAssumption DEF IInv, UsersConsistent, NoUse
<1>6. \A w \in Users : user'[w] = IF user[w].inst = i THEN NoUse ELSE user[w]
      BY <1>1
<1>7. NoUse.dir = None /\ NoUse.inst = None /\ None \notin Dirs /\ None \notin Insts
      BY RegistryAssumption DEF NoUse
<1>8. \A e \in Dirs : e # d => Borrowers(user', e) = Borrowers(user, e)
      BY <1>5, <1>6, <1>7 DEF Borrowers
\* whoever borrows of a sound directory, borrows the instance that fails
<1>9. shutdown = "no" /\ d \in Sound => /\ i \in instances
                                        /\ Borrowers(user', d) = {}
      <2> SUFFICES ASSUME shutdown = "no", d \in Sound
                   PROVE  i \in instances /\ Borrowers(user', d) = {}
            OBVIOUS
      <2>1. d \notin Closable /\ inst[i].st = "opening"
            BY <1>1 DEF Sound, IInv, OpensAwaited
      <2>2. i \in instances
            BY <1>2, <2>1 DEF IInv, OpensAwaited
      <2>3. ASSUME NEW w \in Users, user[w].dir = d PROVE user[w].inst = i
            <3>1. user[w] # NoUse /\ user[w].inst \in Insts
                  BY <1>2, <1>7, <2>3 DEF IInv, UsersConsistent
            <3>2. inst[user[w].inst].st \in {"opening", "open"}
                  BY <2>3 DEF IInv, SoundUse, NeverClosedInUse
            <3>3. inst[user[w].inst].dir = d
                  BY <2>3, <3>1, <3>2 DEF IInv, UsersConsistent, MapConsistent
            <3>4. user[w].inst \in instances
                  BY <1>2, <2>1, <3>1, <3>2, <3>3 DEF IInv, OpensAwaited
            <3> QED BY <2>2, <3>3, <3>4 DEF IInv, MapConsistent
      <2> QED BY <1>2, <1>6, <1>7, <2>2, <2>3 DEF Borrowers
<1>10. TypeOK'
      <2>1. refCounts' \in [Dirs -> Nat]
            BY <1>1, <1>2 DEF IInv, TypeOK
      <2>2. user' \in [Users -> [inst : Insts \cup {None}, dir : Dirs \cup {None}]]
            BY <1>1 DEF NoUse, IInv, TypeOK
      <2>3. inst' \in [Insts -> [st : {"opening", "open", "doomed", "closing", "failed", "gone"},
                                 dir : Dirs \cup {None}]]
            BY <1>1 DEF Gone, IInv, TypeOK
      <2>4. failures' \in [Dirs -> 0..Threshold] /\ quarantined' \in [Dirs -> BOOLEAN]
            <3>1. /\ failures' = [failures EXCEPT ![d] = IF @ = Threshold THEN @ ELSE @ + 1]
                  /\ quarantined' = [quarantined EXCEPT ![d] = failures'[d] = Threshold]
                  BY DEF OpenFails
            <3>2. failures[d] \in 0..Threshold /\ Threshold \in Nat
                  BY <1>2, RegistryAssumption DEF IInv, TypeOK
            <3>3. (IF failures[d] = Threshold THEN failures[d] ELSE failures[d] + 1) \in 0..Threshold
                  BY <3>2
            <3> QED BY <3>1, <3>3 DEF IInv, TypeOK
      <2>5. instances' \subseteq Insts /\ entries' \subseteq Insts
            BY <1>1, <1>4 DEF IInv, TypeOK
      <2> QED BY <1>1, <1>4, <2>1, <2>2, <2>3, <2>4, <2>5 DEF IInv, TypeOK
<1>11. RegistryBounded'
      <2>1. Lasting(instances', inst') \subseteq Lasting(instances, inst)
            BY <1>3, <1>4 DEF Lasting, IInv, TypeOK
      <2> QED BY <2>1, BoundedShrinks DEF IInv
<1> HIDE DEF d
<1>12. MapConsistent'
      <2>1. inst[i].dir = d /\ i \in Insts /\ inst[i].st \in {"opening", "doomed"}
            BY <1>1 DEF d
      <2> QED BY <1>1, <1>2, <1>3, <1>4, <1>7, <2>1 DEF IInv, TypeOK, MapConsistent
<1>13. UsersConsistent'
      <2>1. \A w \in Users : user'[w] # NoUse =>
               /\ user'[w].inst \in Insts /\ user'[w].dir \in Dirs
               /\ inst'[user'[w].inst].dir \in {user'[w].dir, None}
            BY <1>3, <1>6 DEF IInv, UsersConsistent
      <2>2. ASSUME NEW e \in Dirs PROVE refCounts'[e] <= Cardinality(Borrowers(user', e))
            <3>1. CASE e = d
                  <4>1. refCounts'[e] = 0
                        BY <1>1, <1>2, <3>1 DEF IInv, TypeOK
                  <4>2. Cardinality(Borrowers(user', e)) \in Nat
                        BY UsersFinite
                  <4> QED BY <4>1, <4>2
            <3>2. CASE e # d
                  BY <1>1, <1>8, <3>2 DEF IInv, TypeOK, UsersConsistent
            <3> QED BY <3>1, <3>2
      <2> QED BY <2>1, <2>2 DEF UsersConsistent
<1>14. CountsExact'
      <2> SUFFICES ASSUME shutdown = "no", NEW e \in Sound
                   PROVE  refCounts'[e] = Cardinality(Borrowers(user', e))
            BY <1>1 DEF CountsExact
      <2>1. CASE e = d
            BY <1>1, <1>2, <1>9, <2>1, FS_EmptySet DEF IInv, TypeOK
      <2>2. CASE e # d
            BY <1>1, <1>8, <2>2 DEF IInv, TypeOK, SoundUse, CountsExact, Sound
      <2> QED BY <2>1, <2>2
<1>15. NeverClosedInUse'
      <2> SUFFICES ASSUME shutdown = "no", NEW w \in Users, user'[w].dir \in Sound
                   PROVE  inst'[user'[w].inst].st \in {"opening", "open"}
            BY <1>1 DEF NeverClosedInUse
      <2>1. user'[w] = user[w] /\ user[w].inst # i
            BY <1>6, <1>7 DEF Sound
      <2>2. user[w] # NoUse
            BY <1>7, <2>1 DEF Sound
      <2>3. user[w].inst \in Insts /\ inst[user[w].inst].st \in {"opening", "open"}
            BY <2>1, <2>2 DEF IInv, UsersConsistent, SoundUse, NeverClosedInUse
      <2> QED BY <1>3, <2>1, <2>3
<1>16. OpensAwaited'
      <2> SUFFICES ASSUME shutdown = "no", NEW k \in Insts
                   PROVE  /\ inst'[k].dir \in Sound =>
                                /\ inst'[k].st # "doomed"
                                /\ inst'[k].st = "opening" => \E w \in Users : user'[w].inst = k
                          /\ inst'[k].dir \in Dirs \ Closable /\ inst'[k].st \in {"opening", "open"}
                                => k \in instances'
            BY <1>1 DEF OpensAwaited
      <2>1. CASE k = i
            BY <1>3, <2>1
      <2>2. CASE k # i
            <3>1. inst'[k] = inst[k]
                  BY <1>3, <2>2
            <3>2. inst[k].dir \in Sound => inst[k].st # "doomed"
                                           /\ (inst[k].st = "opening" => \E w \in Users : user[w].inst = k)
                  BY DEF IInv, OpensAwaited
            <3>3. \A w \in Users : user[w].inst = k => user'[w].inst = k
                  BY <1>6, <2>2
            <3>4. inst[k].dir \in Dirs \ Closable /\ inst[k].st \in {"opening", "open"} => k \in instances
                  BY DEF IInv, OpensAwaited
            <3>5. inst[k].dir = d /\ k \in instances => d \in Closable
                  <4> SUFFICES ASSUME inst[k].dir = d, k \in instances, d \notin Closable
                               PROVE  FALSE
                        OBVIOUS
                  <4>1. d \in Sound
                        BY <1>2 DEF Sound
                  <4> QED BY <1>9, <2>2, <4>1 DEF IInv, MapConsistent, d
            <3> QED BY <1>4, <3>1, <3>2, <3>3, <3>4, <3>5 DEF Cached
      <2> QED BY <2>1, <2>2
<1> QED BY <1>10, <1>11, <1>12, <1>13, <1>14, <1>15, <1>16 DEF IInv, SoundUse

\* A close of entries whose directories count no borrow, which are then neither
\* cached nor being drained, disturbs nobody.
LEMMA ClosePreserves ==
    ASSUME IInv, NEW closing \in SUBSET (instances \cup detached),
           \A k \in closing : refCounts[inst[k].dir] = 0,
           inst' = CloseThem(inst, closing),
           instances' = instances \ closing, older' \subseteq Insts \X Insts,
           detached' = detached \ closing,
           UNCHANGED <<refCounts, user, failures, quarantined, shutdown, entries>>
    PROVE  IInv'
<1>0. TypeOK /\ \A k \in closing : k \in instances \cup detached
      BY DEF IInv
<1>1. /\ inst' \in [Insts -> [st : {"opening", "open", "doomed", "closing", "failed", "gone"},
                              dir : Dirs \cup {None}]]
      /\ \A k \in Insts :
            /\ k \notin closing => inst'[k] = inst[k]
            /\ inst'[k].dir \in {inst[k].dir, None}
            /\ inst'[k].st = "gone" /\ inst[k].st # "gone" => inst'[k].dir = None
            /\ inst'[k].st # "gone" => inst'[k].dir = inst[k].dir
            /\ inst'[k].st \in {"opening", "open"} => k \notin closing
            /\ inst'[k].st = "doomed" /\ inst[k].st # "doomed" => inst[k].st = "opening"
            /\ inst[k].st = "gone" => inst'[k] = inst[k]
      BY <1>0, Closes
<1>2. TypeOK'
      BY <1>1 DEF IInv, TypeOK
<1>3. RegistryBounded'
      <2>1. Lasting(instances', inst') \subseteq Lasting(instances, inst)
            BY <1>1 DEF Lasting, IInv, TypeOK
      <2> QED BY <2>1, BoundedShrinks DEF IInv
<1>4. MapConsistent'
      BY <1>1 DEF IInv, TypeOK, MapConsistent
<1>5. UsersConsistent' /\ SoundUse'
      <2>1. ASSUME NEW k \in Insts PROVE Undisturbed(k)
            <3>1. CASE k \in closing
                  BY <1>0, <1>1, <3>1, IdleUnused DEF Undisturbed
            <3>2. CASE k \notin closing
                  BY <1>1, <3>2 DEF Undisturbed
            <3> QED BY <3>1, <3>2
      <2> QED BY <2>1, UseKept
<1>6. OpensAwaited'
      <2> SUFFICES ASSUME shutdown = "no", NEW k \in Insts
                   PROVE  /\ inst'[k].dir \in Sound =>
                                /\ inst'[k].st # "doomed"
                                /\ inst'[k].st = "opening" => \E w \in Users : user[w].inst = k
                          /\ inst'[k].dir \in Dirs \ Closable /\ inst'[k].st \in {"opening", "open"}
                                => k \in instances'
            BY DEF OpensAwaited
      <2>1. CASE k \notin closing
            BY <1>1, <2>1 DEF IInv, OpensAwaited
      <2>2. CASE k \in closing
            <3>1. inst[k].dir \in Sound => inst[k].st # "opening" /\ inst[k].st # "doomed"
                  BY <1>0, <2>2, IdleUnused DEF IInv, OpensAwaited
            <3>2. inst'[k].dir \in Sound => inst[k].dir \in Sound
                  BY <1>1, RegistryAssumption DEF Sound
            <3> QED BY <1>1, <2>2, <3>1, <3>2
      <2> QED BY <2>1, <2>2
<1> QED BY <1>2, <1>3, <1>4, <1>5, <1>6 DEF IInv

\* A delete or rename takes the instance out of the map, and closes it if it is unused.
LEMMA DetachPreserves ==
    ASSUME IInv, NEW d \in Dirs, Detach(d)
    PROVE  IInv'
<1>1. /\ d \in Closable /\ Retain(instances \ Cached(d))
      /\ UNCHANGED <<refCounts, user, failures, quarantined, shutdown, entries>>
      BY DEF Detach, breaker, closeAll
<1>2. /\ instances' = instances \ Cached(d) /\ older' \subseteq Insts \X Insts
      /\ Cached(d) \subseteq instances /\ \A k \in Cached(d) : inst[k].dir = d
      BY <1>1 DEF Retain, Among, Cached, IInv, TypeOK
<1>3. CASE refCounts[d] = 0 /\ inst' = CloseThem(inst, Cached(d)) /\ UNCHANGED detached
      <2>1. detached' = detached \ Cached(d)
            BY <1>2, <1>3 DEF IInv, MapConsistent
      <2> QED BY <1>1, <1>2, <1>3, <2>1, ClosePreserves
<1>4. CASE refCounts[d] > 0 /\ detached' = detached \cup Cached(d) /\ UNCHANGED inst
      <2>1. TypeOK'
            BY <1>1, <1>2, <1>4 DEF IInv, TypeOK
      <2>2. RegistryBounded'
            <3>1. Lasting(instances', inst') \subseteq Lasting(instances, inst)
                  BY <1>2, <1>4 DEF Lasting
            <3> QED BY <3>1, BoundedShrinks DEF IInv
      <2>3. MapConsistent'
            BY <1>1, <1>2, <1>4 DEF IInv, MapConsistent
      <2>4. UsersConsistent' /\ SoundUse'
            BY <1>1, <1>4 DEF IInv, UsersConsistent, SoundUse, CountsExact, NeverClosedInUse
      <2>5. OpensAwaited'
            BY <1>1, <1>2, <1>4 DEF IInv, OpensAwaited
      <2> QED BY <2>1, <2>2, <2>3, <2>4, <2>5 DEF IInv
<1> QED BY <1>3, <1>4 DEF Detach

\* A drain that saw the count at zero closes what nobody has.
LEMMA DrainedPreserves ==
    ASSUME IInv, NEW i \in Insts, Drained(i)
    PROVE  IInv'
<1>1. /\ i \in detached /\ refCounts[inst[i].dir] = 0
      /\ detached' = detached \ {i} /\ inst' = CloseThem(inst, {i})
      /\ UNCHANGED <<instances, older, refCounts, user, failures, quarantined, shutdown, entries>>
      BY DEF Drained, map, breaker, closeAll
<1>2. instances' = instances \ {i} /\ older' \subseteq Insts \X Insts
      BY <1>1 DEF IInv, TypeOK, MapConsistent
<1>3. {i} \in SUBSET (instances \cup detached) /\ \A k \in {i} : refCounts[inst[k].dir] = 0
      BY <1>1
<1> QED BY <1>1, <1>2, <1>3, ClosePreserves

\* A drain that gives up puts the instance back as it was, still open.
LEMMA DrainTimesOutPreserves ==
    ASSUME IInv, NEW i \in Insts, DrainTimesOut(i)
    PROVE  IInv'
<1> DEFINE d == inst[i].dir
<1>1. /\ i \in detached /\ detached' = detached \ {i}
      /\ UNCHANGED <<inst, refCounts, user, failures, quarantined, shutdown, entries>>
      /\ \/ Cached(d) = {} /\ SetLast(instances, i)
         \/ \E j \in Cached(d) : SetInPlace(j, i)
      BY DEF DrainTimesOut, breaker, closeAll
<1>2. d \in Closable /\ d \in Dirs
      BY <1>1, RegistryAssumption DEF IInv, MapConsistent
<1>3. /\ instances' = (instances \ Cached(d)) \cup {i}
      /\ older' \subseteq Insts \X Insts
      <2>0. TypeOK /\ instances \in SUBSET Insts
            BY DEF IInv, TypeOK
      <2>1. CASE Cached(d) = {} /\ SetLast(instances, i)
            BY <2>0, <2>1, SetLastTyped
      <2>2. CASE \E j \in Cached(d) : SetInPlace(j, i)
            <3>1. PICK j \in Cached(d) : SetInPlace(j, i)
                  BY <2>2
            <3>2. j \in Insts /\ j \in instances /\ Cached(d) = {j}
                  BY <3>1 DEF Cached, IInv, TypeOK, MapConsistent
            <3>3. instances' = (instances \ {j}) \cup {i} /\ older' \subseteq Insts \X Insts
                  BY <2>0, <3>1, <3>2, MapTyped
            <3> QED BY <3>2, <3>3
      <2> QED BY <1>1, <2>1, <2>2
<1>4. TypeOK'
      BY <1>1, <1>3 DEF IInv, TypeOK
<1>5. RegistryBounded'
      <2>1. Lasting(instances', inst') \subseteq Lasting(instances, inst)
            BY <1>1, <1>2, <1>3 DEF Lasting
      <2> QED BY <2>1, BoundedShrinks DEF IInv
<1>6. MapConsistent'
      BY <1>1, <1>3 DEF IInv, MapConsistent, Cached
<1>7. UsersConsistent' /\ SoundUse'
      BY <1>1 DEF IInv, UsersConsistent, SoundUse, CountsExact, NeverClosedInUse
<1>8. OpensAwaited'
      BY <1>1, <1>2, <1>3 DEF IInv, OpensAwaited, Cached
<1> QED BY <1>4, <1>5, <1>6, <1>7, <1>8 DEF IInv

\* What a close of all closes is in the map or was when it began.
LEMMA CloseEntriesPreserves ==
    ASSUME IInv, NEW closing \in SUBSET Insts, CloseEntries(closing),
           closing \cap (instances' \cup detached) = {},
           instances' \subseteq instances, older' \subseteq Insts \X Insts,
           entries' \subseteq Insts,
           UNCHANGED <<user, detached, failures, quarantined>>
    PROVE  IInv'
<1>1. shutdown' = "closed" /\ refCounts' = [e \in Dirs |-> 0] /\ inst' = CloseThem(inst, closing)
      BY DEF CloseEntries
<1>2. /\ inst' \in [Insts -> [st : {"opening", "open", "doomed", "closing", "failed", "gone"},
                              dir : Dirs \cup {None}]]
      /\ \A k \in Insts :
            /\ k \notin closing => inst'[k] = inst[k]
            /\ inst'[k].dir \in {inst[k].dir, None}
            /\ inst'[k].st = "gone" /\ inst[k].st # "gone" => inst'[k].dir = None
            /\ inst'[k].st # "gone" => inst'[k].dir = inst[k].dir
            /\ inst'[k].st \in {"opening", "open"} => k \notin closing
            /\ inst'[k].st = "doomed" /\ inst[k].st # "doomed" => inst[k].st = "opening"
            /\ inst[k].st = "gone" => inst'[k] = inst[k]
      BY <1>1, Closes DEF IInv
<1>3. TypeOK'
      BY <1>1, <1>2 DEF IInv, TypeOK
<1>4. RegistryBounded'
      <2>1. Lasting(instances', inst') \subseteq Lasting(instances, inst)
            BY <1>2 DEF Lasting, IInv, TypeOK
      <2> QED BY <2>1, BoundedShrinks DEF IInv
<1>5. MapConsistent'
      BY <1>1, <1>2 DEF IInv, TypeOK, MapConsistent
<1>6. UsersConsistent'
      <2>1. \A e \in Dirs : refCounts'[e] = 0 /\ Cardinality(Borrowers(user', e)) \in Nat
            BY <1>1, UsersFinite
      <2> QED BY <1>2, <2>1 DEF IInv, UsersConsistent
<1>7. SoundUse' /\ OpensAwaited'
      BY <1>1 DEF SoundUse, CountsExact, NeverClosedInUse, OpensAwaited
<1> QED BY <1>3, <1>4, <1>5, <1>6, <1>7 DEF IInv

\* The shutdown's close of all begins.
LEMMA CloseAllBeginsPreserves ==
    ASSUME IInv, CloseAllBegins
    PROVE  IInv'
<1>1. /\ shutdown = "no" /\ Retain({}) /\ entries' = instances
      /\ UNCHANGED <<user, detached, failures, quarantined>>
      BY DEF CloseAllBegins, breaker
<1>2. /\ instances' = {} /\ older' \subseteq Insts \X Insts /\ entries' \subseteq Insts
      /\ instances \in SUBSET Insts
      BY <1>1 DEF Retain, Among, IInv, TypeOK
<1>3. CASE CloseEntries(instances)
      <2>1. instances \cap (instances' \cup detached) = {} /\ instances' \subseteq instances
            BY <1>2 DEF IInv, MapConsistent
      <2> QED BY <1>1, <1>2, <1>3, <2>1, CloseEntriesPreserves
<1>4. CASE shutdown' = "draining" /\ UNCHANGED <<inst, refCounts>>
      <2>1. TypeOK'
            BY <1>1, <1>2, <1>4 DEF IInv, TypeOK
      <2>2. RegistryBounded'
            <3>1. Lasting(instances', inst') \subseteq Lasting(instances, inst)
                  BY <1>2 DEF Lasting
            <3> QED BY <3>1, BoundedShrinks DEF IInv
      <2>3. MapConsistent'
            BY <1>1, <1>2, <1>4 DEF IInv, MapConsistent
      <2>4. UsersConsistent' /\ SoundUse' /\ OpensAwaited'
            BY <1>1, <1>4 DEF IInv, UsersConsistent, SoundUse, CountsExact, NeverClosedInUse,
               OpensAwaited
      <2> QED BY <2>1, <2>2, <2>3, <2>4 DEF IInv
<1> QED BY <1>3, <1>4 DEF CloseAllBegins

\* It ends, and the process with it.
LEMMA CloseAllEndsPreserves ==
    ASSUME IInv, CloseAllEnds
    PROVE  IInv'
<1>1. /\ shutdown = "draining" /\ CloseEntries(entries)
      /\ UNCHANGED <<instances, older, user, detached, failures, quarantined, entries>>
      BY DEF CloseAllEnds, map, breaker
<1>2. /\ entries \in SUBSET Insts /\ entries' \subseteq Insts /\ older' \subseteq Insts \X Insts
      /\ instances' \subseteq instances /\ entries \cap (instances' \cup detached) = {}
      BY <1>1 DEF IInv, TypeOK, MapConsistent
<1> QED BY <1>1, <1>2, CloseEntriesPreserves

\* The directories of the map differ and each busy one has a caller of its own,
\* so that a caller who uses none leaves fewer busy instances than callers.
LEMMA BusyFewerThanUsers ==
    ASSUME IInv, NEW u \in Users, user[u] = NoUse
    PROVE  Cardinality({k \in instances : refCounts[inst[k].dir] > 0}) <= Cardinality(Users) - 1
<1> DEFINE busy == {k \in instances : refCounts[inst[k].dir] > 0}
           others == Users \ {u}
<1>1. /\ IsFiniteSet(busy) /\ Cardinality(busy) \in Nat
      /\ IsFiniteSet(others) /\ Cardinality(others) = Cardinality(Users) - 1
      /\ Cardinality(others) \in Nat
      <2>1. busy \subseteq Insts /\ IsFiniteSet(Insts) /\ IsFiniteSet(Users)
            BY RegistryAssumption DEF IInv, TypeOK
      <2> QED BY <2>1, FS_Subset, FS_RemoveElement, FS_CardinalityType
<1>2. \A k \in busy : \E w \in others : user[w].dir = inst[k].dir
      <2> SUFFICES ASSUME NEW k \in busy PROVE \E w \in others : user[w].dir = inst[k].dir
            OBVIOUS
      <2> DEFINE e == inst[k].dir
      <2>1. e \in Dirs
            BY DEF IInv, TypeOK, MapConsistent
      <2>2. refCounts[e] > 0 /\ refCounts[e] \in Nat
            BY <2>1 DEF IInv, TypeOK
      <2>3. refCounts[e] <= Cardinality(Borrowers(user, e)) /\ Cardinality(Borrowers(user, e)) \in Nat
            BY <2>1, UsersFinite DEF IInv, UsersConsistent
      <2>4. Borrowers(user, e) # {}
            BY <2>2, <2>3, FS_EmptySet
      <2> QED BY <2>1, <2>4, RegistryAssumption DEF Borrowers, NoUse
<1>3. \A j, k \in busy : inst[j].dir = inst[k].dir => j = k
      BY DEF IInv, MapConsistent
<1> DEFINE f == [k \in busy |-> CHOOSE w \in others : user[w].dir = inst[k].dir]
<1>4. \A k \in busy : f[k] \in others /\ user[f[k]].dir = inst[k].dir
      BY <1>2
<1>5. f \in [busy -> others]
      BY <1>4
<1> HIDE DEF f, busy, others
<1>6. ~ \E j, k \in busy : j # k /\ f[j] = f[k]
      BY <1>3, <1>4
<1>7. ~ (Cardinality(others) < Cardinality(busy))
      BY <1>1, <1>5, <1>6, FS_PigeonHole
<1>8. Cardinality(busy) <= Cardinality(Users) - 1
      BY <1>1, <1>7
<1> QED BY <1>8 DEF busy

\* Eviction leaves at most the cap, or the busy and the pinned and the new one.
LEMMA EvictionBounds ==
    ASSUME IInv, NEW u \in Users, user[u] = NoUse, NEW d \in Dirs, Cached(d) = {},
           NEW pinned \in SUBSET Idle(Increment(refCounts, d)),
           NEW out \in SUBSET Idle(Increment(refCounts, d)),
           Evicts(Increment(refCounts, d), pinned, out), NEW i \in Insts
    PROVE  \/ Cardinality((instances \ out) \cup {i}) <= MaxOpen
           \/ Cardinality((instances \ out) \cup {i}) <= Cardinality(Users) + PinMax
<1> DEFINE refs == Increment(refCounts, d)
           busy == {k \in instances : refCounts[inst[k].dir] > 0}
           evictable == Idle(refs) \ pinned
           left == instances \ out
<1>1. /\ IsFiniteSet(instances) /\ IsFiniteSet(Users) /\ MaxOpen \in Nat \ {0} /\ PinMax \in Nat
      /\ Cardinality(Users) \in Nat /\ Cardinality(instances) \in Nat
      BY RegistryAssumption, FS_Subset, FS_CardinalityType DEF IInv, TypeOK
<1>2. /\ out \subseteq evictable /\ out \subseteq instances /\ pinned \subseteq instances
      /\ Cardinality(pinned) <= PinMax
      /\ IF Cardinality(evictable) <= Surplus THEN out = evictable ELSE Cardinality(out) = Surplus
      BY DEF Evicts, Idle
<1>3. \A k \in instances : inst[k].dir \in Dirs \ {d}
      BY DEF IInv, TypeOK, MapConsistent, Cached
<1>4. \A k \in instances : refs[inst[k].dir] = refCounts[inst[k].dir]
      BY <1>3 DEF Increment, IInv, TypeOK
<1>5. instances \ Idle(refs) = busy
      BY <1>4 DEF Idle, Busy
<1>6. /\ IsFiniteSet(left) /\ IsFiniteSet(busy) /\ IsFiniteSet(pinned) /\ IsFiniteSet(out)
      /\ Cardinality(left) \in Nat /\ Cardinality(busy) \in Nat
      /\ Cardinality(pinned) \in Nat /\ Cardinality(out) \in Nat
      BY <1>1, <1>2, FS_Subset, FS_CardinalityType
<1>7. Cardinality(left \cup {i}) <= Cardinality(left) + 1
      <2>1. Cardinality(left \cup {i}) = IF i \in left THEN Cardinality(left) ELSE Cardinality(left) + 1
            BY <1>6, FS_AddElement
      <2> HIDE DEF left
      <2> QED BY <1>6, <2>1
<1>8. Cardinality(busy) <= Cardinality(Users) - 1
      BY BusyFewerThanUsers
<1>9. CASE out = evictable
      <2>1. left \subseteq busy \cup pinned
            BY <1>5, <1>9
      <2>2. /\ IsFiniteSet(busy \cup pinned) /\ Cardinality(busy \cap pinned) \in Nat
            /\ Cardinality(busy \cup pinned) = Cardinality(busy) + Cardinality(pinned) - Cardinality(busy \cap pinned)
            BY <1>6, FS_Union, FS_Intersection, FS_CardinalityType
      <2>3. Cardinality(left) <= Cardinality(busy \cup pinned)
            BY <2>1, <2>2, FS_Subset
      <2> HIDE DEF left, busy
      <2>4. Cardinality(left) <= Cardinality(Users) - 1 + PinMax
            BY <1>1, <1>2, <1>6, <1>8, <2>2, <2>3
      <2>5. Cardinality(left \cup {i}) \in Nat
            BY <1>6, FS_AddElement, FS_CardinalityType
      <2>6. Cardinality(left \cup {i}) <= Cardinality(Users) + PinMax
            BY <1>1, <1>6, <1>7, <2>4, <2>5
      <2> QED BY <2>6 DEF left
<1>10. CASE Cardinality(out) = Surplus
      <2>1. Cardinality(left) = Cardinality(instances) - Cardinality(out)
            <3>1. instances \cap out = out
                  BY <1>2
            <3> QED BY <1>1, <3>1, FS_Difference
      <2>2. Surplus = IF Cardinality(instances) < MaxOpen THEN 0
                      ELSE Cardinality(instances) + 1 - MaxOpen
            BY DEF Surplus
      <2>3. Cardinality(left \cup {i}) \in Nat
            BY <1>6, FS_AddElement, FS_CardinalityType
      <2> HIDE DEF left
      <2>4. Cardinality(left \cup {i}) <= MaxOpen
            BY <1>1, <1>6, <1>7, <1>10, <2>1, <2>2, <2>3
      <2> QED BY <2>4 DEF left
<1> QED BY <1>2, <1>9, <1>10

\* A miss evicts for room, opens an instance and counts its first borrow.
LEMMA BorrowOpensPreserves ==
    ASSUME IInv, NEW u \in Users, NEW d \in Dirs, BorrowOpens(u, d)
    PROVE  IInv'
<1> DEFINE refs == Increment(refCounts, d)
<1>1. /\ user[u] = NoUse /\ Cached(d) = {} /\ refCounts' = refs
      /\ UNCHANGED <<detached, failures, quarantined, shutdown, entries>>
      BY DEF BorrowOpens, breaker, closeAll
<1>2. PICK i \in Free, pinned \in SUBSET Idle(refs), out \in SUBSET Idle(refs) :
         /\ Evicts(refs, pinned, out)
         /\ SetLast(instances \ out, i)
         /\ inst' = [CloseThem(inst, out) EXCEPT ![i] = [st |-> "opening", dir |-> d]]
         /\ user' = [user EXCEPT ![u] = [inst |-> i, dir |-> d]]
      BY DEF BorrowOpens
<1>3. i \in Insts /\ inst[i].st = "gone" /\ \A w \in Users : user[w].inst # i
      BY DEF Free
<1>4. i \notin instances \cup detached /\ (shutdown = "draining" => i \notin entries)
      BY <1>3 DEF IInv, MapConsistent
<1>5. instances' = (instances \ out) \cup {i} /\ older' \subseteq Insts \X Insts
      BY <1>2, <1>3, SetLastTyped DEF IInv, TypeOK
\* only idle instances are evicted, of other directories
<1>6. \A k \in out : k \in instances /\ refCounts[inst[k].dir] = 0
      <2> SUFFICES ASSUME NEW k \in out
                   PROVE  k \in instances /\ refCounts[inst[k].dir] = 0
            OBVIOUS
      <2>1. k \in instances /\ ~(refs[inst[k].dir] > 0)
            BY DEF Idle, Busy
      <2>2. inst[k].dir \in Dirs \ {d}
            BY <1>1, <2>1 DEF IInv, TypeOK, MapConsistent, Cached
      <2>3. refs[inst[k].dir] = refCounts[inst[k].dir] /\ refCounts[inst[k].dir] \in Nat
            BY <2>2 DEF Increment, IInv, TypeOK
      <2> QED BY <2>1, <2>3
<1> HIDE DEF refs
<1>7. /\ inst' \in [Insts -> [st : {"opening", "open", "doomed", "closing", "failed", "gone"},
                              dir : Dirs \cup {None}]]
      /\ inst'[i] = [st |-> "opening", dir |-> d]
      /\ \A k \in Insts : k # i =>
            /\ k \notin out => inst'[k] = inst[k]
            /\ inst'[k].dir \in {inst[k].dir, None}
            /\ inst'[k].st = "gone" /\ inst[k].st # "gone" => inst'[k].dir = None
            /\ inst'[k].st # "gone" => inst'[k].dir = inst[k].dir
            /\ inst'[k].st \in {"opening", "open"} => k \notin out
            /\ inst'[k].st = "doomed" /\ inst[k].st # "doomed" => inst[k].st = "opening"
            /\ inst[k].st = "gone" => inst'[k] = inst[k]
      <2> DEFINE now == CloseThem(inst, out)
      <2>1. /\ now \in [Insts -> [st : {"opening", "open", "doomed", "closing", "failed", "gone"},
                                  dir : Dirs \cup {None}]]
            /\ \A k \in Insts :
                  /\ k \notin out => now[k] = inst[k]
                  /\ now[k].dir \in {inst[k].dir, None}
                  /\ now[k].st = "gone" /\ inst[k].st # "gone" => now[k].dir = None
                  /\ now[k].st # "gone" => now[k].dir = inst[k].dir
                  /\ now[k].st \in {"opening", "open"} => k \notin out
                  /\ now[k].st = "doomed" /\ inst[k].st # "doomed" => inst[k].st = "opening"
                  /\ inst[k].st = "gone" => now[k] = inst[k]
            BY Closes DEF IInv
      <2>2. inst' = [now EXCEPT ![i] = [st |-> "opening", dir |-> d]]
            BY <1>2
      <2> HIDE DEF now
      <2>3. \A k \in Insts : k # i => inst'[k] = now[k]
            BY <2>1, <2>2
      <2>4. inst' \in [Insts -> [st : {"opening", "open", "doomed", "closing", "failed", "gone"},
                                 dir : Dirs \cup {None}]]
            BY <1>3, <2>1, <2>2
      <2>5. inst'[i] = [st |-> "opening", dir |-> d]
            BY <1>3, <2>1, <2>2
      <2> QED BY <2>1, <2>3, <2>4, <2>5
<1>8. TypeOK'
      <2>1. refCounts' \in [Dirs -> Nat]
            BY <1>1 DEF Increment, IInv, TypeOK, refs
      <2>2. user' \in [Users -> [inst : Insts \cup {None}, dir : Dirs \cup {None}]]
            BY <1>2, <1>3 DEF IInv, TypeOK
      <2>3. instances' \subseteq Insts
            BY <1>3, <1>5 DEF IInv, TypeOK
      <2> QED BY <1>1, <1>5, <1>7, <2>1, <2>2, <2>3 DEF IInv, TypeOK
<1>9. RegistryBounded'
      <2> DEFINE now == Lasting(instances', inst')
      <2>1. \/ Cardinality(instances') <= MaxOpen
            \/ Cardinality(instances') <= Cardinality(Users) + PinMax
            BY <1>1, <1>2, <1>3, <1>5, EvictionBounds DEF refs
      <2>2. IsFiniteSet(instances') /\ now \subseteq instances'
            BY <1>8, RegistryAssumption, FS_Subset DEF TypeOK, Lasting
      <2>3. /\ Cardinality(now) <= Cardinality(instances')
            /\ Cardinality(now) \in Nat /\ Cardinality(instances') \in Nat
            BY <2>2, FS_Subset, FS_CardinalityType
      <2>4. MaxOpen \in Nat /\ PinMax \in Nat /\ Cardinality(Users) \in Nat
            BY RegistryAssumption, FS_CardinalityType
      <2> HIDE DEF now
      <2>5. Cardinality(now) <= MaxOpen \/ Cardinality(now) <= Cardinality(Users) + PinMax
            BY <2>1, <2>3, <2>4
      <2> QED BY <2>5 DEF now, RegistryBounded, Lasting
<1>10. MapConsistent'
      <2>1. \A j \in instances : inst[j].dir # d
            BY <1>1 DEF Cached
      <2>2. \A k \in instances' \cup detached' : k # i => k \in instances \cup detached /\ k \notin out
                                                          /\ k \in Insts
            BY <1>1, <1>5, <1>6 DEF IInv, TypeOK, MapConsistent
      <2>3. \A j, k \in instances' : inst'[j].dir = inst'[k].dir => j = k
            BY <1>5, <1>7, <2>1, <2>2 DEF IInv, MapConsistent
      <2>4. /\ instances' \cap detached' = {}
            /\ \A k \in instances' \cup detached' : inst'[k].st \in {"opening", "open", "failed"}
            /\ \A k \in detached' : inst'[k].dir \in Closable
            BY <1>1, <1>4, <1>5, <1>7, <2>2 DEF IInv, MapConsistent
      <2>5. \A k \in Insts : inst'[k].st = "gone" <=> inst'[k].dir = None
            BY <1>7, RegistryAssumption DEF IInv, MapConsistent
      <2>6. shutdown' = "draining" =>
               /\ entries' \cap (instances' \cup detached') = {}
               /\ \A k \in entries' : inst'[k].st # "gone"
            BY <1>1, <1>4, <1>5, <1>6, <1>7 DEF IInv, TypeOK, MapConsistent
      <2> QED BY <2>3, <2>4, <2>5, <2>6 DEF MapConsistent
<1>11. UsersConsistent' /\ SoundUse'
      <2>1. ASSUME NEW k \in Insts, k # i PROVE Undisturbed(k)
            <3>1. CASE k \in out
                  BY <1>6, <1>7, <2>1, <3>1, IdleUnused DEF Undisturbed
            <3>2. CASE k \notin out
                  BY <1>7, <2>1, <3>2 DEF Undisturbed
            <3> QED BY <3>1, <3>2
      <2>2. \A k \in Insts : k # i => Undisturbed(k)
            BY <2>1
      <2>3. inst'[i].dir = d /\ inst'[i].st \in {"opening", "open"}
            BY <1>7
      <2>4. \A w \in Users : user[w].inst = i => user[w].dir = d
            BY <1>3
      <2>5. Borrows(u, d, i) /\ Fits(i, d) /\ Spares(i)
            BY <1>1, <1>2, <2>2, <2>3, <2>4 DEF refs, Borrows, Fits, Spares
      <2>6. i \in Insts
            BY <1>3
      <2> QED BY <2>5, <2>6, BorrowKeepsUse
<1>12. OpensAwaited'
      <2> SUFFICES ASSUME shutdown = "no", NEW k \in Insts
                   PROVE  /\ inst'[k].dir \in Sound =>
                                /\ inst'[k].st # "doomed"
                                /\ inst'[k].st = "opening" => \E w \in Users : user'[w].inst = k
                          /\ inst'[k].dir \in Dirs \ Closable /\ inst'[k].st \in {"opening", "open"}
                                => k \in instances'
            BY <1>1 DEF OpensAwaited
      <2>1. user'[u].inst = i /\ \A w \in Users : w # u => user'[w] = user[w]
            BY <1>2 DEF IInv, TypeOK
      <2>2. CASE k = i
            BY <1>5, <1>7, <2>1, <2>2
      <2>3. CASE k # i /\ k \notin out
            <3>1. inst'[k] = inst[k] /\ (k \in instances => k \in instances')
                  BY <1>5, <1>7, <2>3
            <3>2. \A w \in Users : user[w].inst = k => user'[w].inst = k
                  BY <1>1, <2>1, RegistryAssumption DEF NoUse
            <3>3. inst[k].dir \in Sound => inst[k].st # "doomed"
                                           /\ (inst[k].st = "opening" => \E w \in Users : user[w].inst = k)
                  BY DEF IInv, OpensAwaited
            <3>4. inst[k].dir \in Dirs \ Closable /\ inst[k].st \in {"opening", "open"} => k \in instances
                  BY DEF IInv, OpensAwaited
            <3> QED BY <3>1, <3>2, <3>3, <3>4
      <2>4. CASE k # i /\ k \in out
            <3>1. inst[k].dir \in Sound => inst[k].st # "opening" /\ inst[k].st # "doomed"
                  BY <1>6, <2>4, IdleUnused DEF IInv, OpensAwaited
            <3>2. inst'[k].dir \in Sound => inst[k].dir \in Sound
                  BY <1>7, <2>4, RegistryAssumption DEF Sound
            <3> QED BY <1>7, <2>4, <3>1, <3>2
      <2> QED BY <2>2, <2>3, <2>4
<1> QED BY <1>8, <1>9, <1>10, <1>11, <1>12 DEF IInv

\* A new registry is empty and counts nothing.
LEMMA InitIInv == Init => IInv
<1> SUFFICES ASSUME Init PROVE IInv
    OBVIOUS
<1>1. TypeOK
      BY RegistryAssumption DEF Init, TypeOK, Gone, NoUse
<1>2. RegistryBounded
      <2>1. Lasting(instances, inst) = {}
            BY DEF Init, Lasting
      <2>2. Cardinality(Lasting(instances, inst)) = 0
            BY <2>1, FS_EmptySet
      <2> QED BY <2>2, RegistryAssumption DEF RegistryBounded, Lasting
<1>3. MapConsistent
      BY DEF Init, MapConsistent, Gone
<1>4. \A e \in Dirs : Borrowers(user, e) = {} /\ refCounts[e] = 0
      BY RegistryAssumption DEF Init, Borrowers, NoUse
<1>5. \A e \in Dirs : Cardinality(Borrowers(user, e)) = 0
      BY <1>4, FS_EmptySet
<1>6. UsersConsistent
      BY <1>4, <1>5 DEF Init, UsersConsistent
<1>7. CountsExact
      BY <1>4, <1>5 DEF CountsExact, Sound
<1>8. NeverClosedInUse /\ OpensAwaited
      BY RegistryAssumption DEF Init, NeverClosedInUse, OpensAwaited, Gone, NoUse, Sound
<1> QED BY <1>1, <1>2, <1>3, <1>6, <1>7, <1>8 DEF IInv, SoundUse

\* A step outside the registry changes nothing.
LEMMA StutterPreserves == IInv /\ UNCHANGED vars => IInv'
BY DEF IInv, TypeOK, RegistryBounded, MapConsistent, UsersConsistent, SoundUse, CountsExact,
   NeverClosedInUse, OpensAwaited, vars, map, breaker, closeAll, Borrowers, Lasting

\* Every step keeps the inductive invariant.
LEMMA NextPreserves == IInv /\ [Next]_vars => IInv'
<1> SUFFICES ASSUME IInv, [Next]_vars PROVE IInv'
    OBVIOUS
<1>1. ASSUME NEW u \in Users, NEW d \in Dirs,
             BorrowCached(u, d) \/ BorrowRefused(u, d) \/ BorrowOpens(u, d)
      PROVE  IInv'
      BY <1>1, BorrowCachedPreserves, BorrowRefusedPreserves, BorrowOpensPreserves
<1>2. ASSUME NEW u \in Users, Release(u) PROVE IInv'
      BY <1>2, ReleasePreserves
<1>3. ASSUME NEW i \in Insts, OpenSucceeds(i) \/ OpenFails(i) \/ CloseEnds(i)
      PROVE  IInv'
      BY <1>3, OpenSucceedsPreserves, OpenFailsPreserves, CloseEndsPreserves
<1>4. ASSUME NEW i \in Insts, Drained(i) \/ DrainTimesOut(i) PROVE IInv'
      BY <1>4, DrainedPreserves, DrainTimesOutPreserves
<1>5. ASSUME NEW d \in Dirs, CooldownElapses(d) \/ Detach(d) PROVE IInv'
      BY <1>5, CooldownElapsesPreserves, DetachPreserves
<1>6. CASE CloseAllBegins \/ CloseAllEnds
      BY <1>6, CloseAllBeginsPreserves, CloseAllEndsPreserves
<1>7. CASE UNCHANGED vars
      BY <1>7, StutterPreserves
<1> QED BY <1>1, <1>2, <1>3, <1>4, <1>5, <1>6, <1>7 DEF Next

\* Two live instances of a directory are both in the map, which holds one.
LEMMA OneLive == IInv => OneLiveInstance
BY DEF IInv, TypeOK, OneLiveInstance, OpensAwaited, MapConsistent

\* The inductive invariant holds for ever.
LEMMA Invariance == Spec => []IInv
<1>1. Init => IInv
      BY InitIInv
<1>2. IInv /\ [Next]_vars => IInv'
      BY NextPreserves
<1> QED BY <1>1, <1>2, PTL DEF Spec

\* For any directories, users, cap, pin and threshold: the counts are the
\* borrows (getEmbeddedLore, borrowEmbeddedLore, embeddedRegistry.ts:252-331),
\* a directory has one live instance, and evictIdleOverCap keeps the cap.
THEOREM RegistryTheorem == Spec => []RegistryOK
<1>1. IInv => RegistryOK
      BY OneLive DEF IInv, SoundUse, RegistryOK
<1> QED BY <1>1, Invariance, PTL

\* Neither an eviction nor a delete, a rename, a failed open of another
\* directory or a close that ends late closes what a caller has borrowed.
THEOREM NeverClosedTheorem == Spec => []NeverClosedInUse
<1>1. IInv => NeverClosedInUse
      BY DEF IInv, SoundUse
<1> QED BY <1>1, Invariance, PTL

-----------------------------------------------------------------------------
(* The hooks of agents: one of the two speaks, and a rejection is told once.   *)

Rejections == {"auth", "proto"}
HookLines == {"reindex", "static", "live", "onboarding"}
HookRec == [client : {"idle", "waits", "over"}, request : {"none", "sent", "lost", "done"},
            answer : {"none", "ok"} \cup Rejections, lines : SUBSET HookLines,
            told : SUBSET (HookLines \cup {"captured"} \cup Rejections)]

CallRec == [session : Sessions, cwd : Folders, use : Uses]

HookTypes ==
    /\ writable \in BOOLEAN /\ daemon \in {"down", "ok"} \cup Rejections
    /\ toolCall \in Seq(CallRec)
    /\ hook \in [Hooks -> HookRec] /\ markers \subseteq Sessions \X Rejections

\* A hook comes to be with its call, is told of by a request, and reads an answer before
\* it tells of a rejection.
HookOrder ==
    \A h \in Hooks :
        /\ h[1] > Len(toolCall) => hook[h] = Unborn
        /\ hook[h].request = "none" => hook[h].client = "idle"
        /\ hook[h].client = "idle" => hook[h] = Unborn
        /\ \A class \in Rejections :
              class \in hook[h].told => hook[h].client = "over" /\ hook[h].answer = class

\* The hooks of a session that have read a rejection, and of these the one that told.
Rejected(s, class) == {h \in Hooks : hook[h].client = "over" /\ Session(h) = s /\ hook[h].answer = class}
Tells(s, class) == {h \in Rejected(s, class) : class \in hook[h].told}

\* The marker stands for a hook that told; without one each hook tells.
MarkersHold ==
    \A s \in Sessions, class \in Rejections :
        /\ <<s, class>> \in markers => Tells(s, class) # {}
        /\ writable /\ Rejected(s, class) # {} => <<s, class>> \in markers
        /\ ~writable => markers = {} /\ Rejected(s, class) = Tells(s, class)
        /\ writable => \A g, h \in Tells(s, class) : g = h

HooksInv == HookTypes /\ HookOrder /\ OneVoice /\ MarkersHold

LEMMA HooksStart == HooksInit => HooksInv
<1> SUFFICES ASSUME HooksInit PROVE HooksInv
    OBVIOUS
<1>1. HookTypes
      BY DEF HooksInit, HookTypes, HookRec, Unborn, Rejections
<1>2. HookOrder
      BY DEF HooksInit, HookOrder, Unborn, Rejections
<1>3. OneVoice
      BY HooksAssumption DEF HooksInit, OneVoice, Unborn, Hooks, Who
<1>4. MarkersHold
      BY DEF HooksInit, MarkersHold, Rejected, Tells, Unborn
<1> QED BY <1>1, <1>2, <1>3, <1>4 DEF HooksInv

\* The same hooks, with the same markers.
LEMMA MarkersStay ==
    ASSUME MarkersHold, UNCHANGED <<writable, markers>>,
           \A s \in Sessions, class \in Rejections :
               Rejected(s, class)' = Rejected(s, class) /\ Tells(s, class)' = Tells(s, class)
    PROVE  MarkersHold'
<1>1. ASSUME NEW s \in Sessions, NEW c \in Rejections
      PROVE  /\ <<s, c>> \in markers' => Tells(s, c)' # {}
             /\ writable' /\ Rejected(s, c)' # {} => <<s, c>> \in markers'
             /\ ~writable' => markers' = {} /\ Rejected(s, c)' = Tells(s, c)'
             /\ writable' => \A f, g \in Tells(s, c)' : f = g
      <2>1. Rejected(s, c)' = Rejected(s, c) /\ Tells(s, c)' = Tells(s, c)
            OBVIOUS
      <2>2. /\ <<s, c>> \in markers => Tells(s, c) # {}
            /\ writable /\ Rejected(s, c) # {} => <<s, c>> \in markers
            /\ ~writable => markers = {} /\ Rejected(s, c) = Tells(s, c)
            /\ writable => \A f, g \in Tells(s, c) : f = g
            BY DEF MarkersHold
      <2> QED BY <2>1, <2>2
<1> QED BY <1>1 DEF MarkersHold

\* What is told, and what was read by a hook that is over, stays when only requests
\* and answers on the way change.
LEMMA AnswersKeep ==
    ASSUME HooksInv, UNCHANGED <<toolCall, writable, markers>>, daemon' \in {"down", "ok"} \cup Rejections,
           hook' \in [Hooks -> HookRec],
           \A h \in Hooks :
              \/ hook'[h] = hook[h]
              \/ /\ hook[h].request # "none" /\ hook'[h].request # "none"
                 /\ hook'[h].client = hook[h].client /\ hook'[h].told = hook[h].told
                 /\ hook[h].client = "over" => hook'[h].answer = hook[h].answer
    PROVE  HooksInv'
<1> USE DEF HooksInv
<1>1. HookTypes'
      BY DEF HookTypes
<1>2. HookOrder'
      BY DEF HookOrder, Unborn, HookTypes, HookRec
<1>3. OneVoice'
      BY HooksAssumption DEF OneVoice, Hooks, Who
<1>4. MarkersHold'
      <2>1. \A s \in Sessions, class \in Rejections :
               Rejected(s, class)' = Rejected(s, class) /\ Tells(s, class)' = Tells(s, class)
            <3> SUFFICES ASSUME NEW s \in Sessions, NEW class \in Rejections, NEW h \in Hooks
                PROVE  /\ hook'[h].client = "over" /\ Session(h)' = s /\ hook'[h].answer = class
                             <=> hook[h].client = "over" /\ Session(h) = s /\ hook[h].answer = class
                       /\ hook'[h].told = hook[h].told
                BY DEF Rejected, Tells
            <3>1. toolCall' = toolCall /\ Session(h)' = Session(h)
                  BY DEF Session
            <3>2. /\ hook'[h].client = hook[h].client /\ hook'[h].told = hook[h].told
                  /\ hook[h].client = "over" => hook'[h].answer = hook[h].answer
                  OBVIOUS
            <3> QED BY <3>1, <3>2
      <2> QED BY <2>1, MarkersStay
<1> QED BY <1>1, <1>2, <1>3, <1>4

\* A hook that waits ends without a word of a rejection.
LEMMA QuietEnds ==
    ASSUME HooksInv, NEW h \in Hooks, hook[h].client = "waits",
           NEW lines \in SUBSET (HookLines \cup {"captured"}), Says(h, "none", lines),
           UNCHANGED <<toolCall, writable, markers, daemon>>
    PROVE  HooksInv'
<1>t. HookTypes /\ HookOrder /\ OneVoice /\ MarkersHold
      BY DEF HooksInv
<1>1. HookTypes'
      BY <1>t DEF HookTypes, HookRec, Says
<1>2. /\ \A g \in Hooks \ {h} : hook'[g] = hook[g]
      /\ hook'[h].client = "over" /\ hook'[h].answer = "none" /\ hook'[h].told = lines
      /\ hook'[h].request = hook[h].request
      BY <1>t DEF Says, HookTypes, HookRec
<1>3. HookOrder'
      <2>1. /\ ~(h[1] > Len(toolCall)) /\ hook[h].request # "none"
            BY <1>t DEF HookOrder, Unborn
      <2>2. \A class \in Rejections : class \notin lines
            BY DEF Rejections, HookLines
      <2> QED BY <1>2, <1>t, <2>1, <2>2 DEF HookOrder
<1>4. OneVoice'
      <2>1. \A g \in Hooks : hook'[g].request = hook[g].request
            BY <1>2
      <2> QED BY <1>t, <2>1 DEF OneVoice, Hooks, Who
<1>5. MarkersHold'
      <2>1. ASSUME NEW s \in Sessions, NEW class \in Rejections
            PROVE  Rejected(s, class)' = Rejected(s, class) /\ Tells(s, class)' = Tells(s, class)
            <3>1. \A g \in Hooks : Session(g)' = Session(g)
                  BY DEF Session
            <3>2. h \notin Rejected(s, class) /\ h \notin Rejected(s, class)'
                  BY <1>2 DEF Rejected, Rejections
            <3> QED BY <1>2, <3>1, <3>2 DEF Rejected, Tells
      <2> QED BY <1>t, <2>1, MarkersStay
<1> QED BY <1>1, <1>3, <1>4, <1>5 DEF HooksInv

\* A rejection is told of by the first hook that makes the marker, or by each.
LEMMA RejectionKeeps ==
    ASSUME HooksInv, NEW h \in Hooks, HearsRejection(h), Use(h) # "session-end"
    PROVE  HooksInv'
<1> USE DEF HooksInv
<1>1. PICK class \in Rejections : class = hook[h].answer /\ WarnOnce(h, class)
      BY DEF HearsRejection, Rejections
<1>2. /\ hook[h].client = "waits" /\ hook[h].request # "none" /\ h[1] \in 1 .. Len(toolCall)
      /\ UNCHANGED <<toolCall, writable, daemon>>
      BY HooksAssumption DEF HearsRejection, ClientOnly, HookOrder, Unborn, Hooks, HookTypes
<1>3. Session(h) \in Sessions
      <2>1. \A n \in 1 .. Len(toolCall) : toolCall[n] \in CallRec
            <3>1. toolCall \in Seq(CallRec)
                  BY DEF HookTypes
            <3> QED BY <3>1
      <2> QED BY <1>2, <2>1 DEF Session, CallRec
<1>4. PICK told \in {{}, {class}} : Says(h, class, told) /\ (<<Session(h), class>> \in markers <=> told = {})
      BY <1>1 DEF WarnOnce
<1>5. markers' = IF told = {class} /\ writable THEN markers \cup {<<Session(h), class>>} ELSE markers
      BY <1>1, <1>4 DEF WarnOnce
<1>6. hook' = [hook EXCEPT ![h] = [@ EXCEPT !.client = "over", !.answer = class, !.lines = {}, !.told = told]]
      BY <1>4 DEF Says
<1> HIDE DEF HooksInv
<1>t. HookTypes /\ HookOrder /\ OneVoice /\ MarkersHold
      BY DEF HooksInv
<1>e. /\ \A g \in Hooks \ {h} : hook'[g] = hook[g]
      /\ hook'[h].client = "over" /\ hook'[h].answer = class /\ hook'[h].told = told
      /\ hook'[h].request = hook[h].request
      BY <1>6, <1>t DEF HookTypes, HookRec
<1>7. HookTypes'
      <2>1. hook' \in [Hooks -> HookRec]
            <3>1. {} \in SUBSET HookLines /\ told \in SUBSET (HookLines \cup {"captured"} \cup Rejections)
                  BY <1>4
            <3> QED BY <1>6, <1>t, <3>1 DEF HookTypes, HookRec
      <2>2. markers' \subseteq Sessions \X Rejections
            BY <1>3, <1>5, <1>t DEF HookTypes
      <2> QED BY <1>2, <1>t, <2>1, <2>2 DEF HookTypes
<1>8. HookOrder'
      <2>1. h[1] <= Len(toolCall) /\ Len(toolCall) \in Nat /\ h[1] \in Nat
            BY <1>2, <1>t DEF HookTypes
      <2>2. \A c \in Rejections : c \in told => c = class
            BY <1>4
      <2> QED BY <1>2, <1>e, <1>t, <2>1, <2>2 DEF HookOrder
<1>9. OneVoice'
      BY <1>2, <1>6, <1>t, HooksAssumption DEF OneVoice, Hooks, Who, HookTypes
<1>10. MarkersHold'
      <2>1. ASSUME NEW s \in Sessions, NEW c \in Rejections
            PROVE  /\ Rejected(s, c)' = IF s = Session(h) /\ c = class THEN Rejected(s, c) \cup {h} ELSE Rejected(s, c)
                   /\ Tells(s, c)' = IF s = Session(h) /\ c = class /\ told # {} THEN Tells(s, c) \cup {h} ELSE Tells(s, c)
            <3>1. \A g \in Hooks \ {h} : hook'[g] = hook[g] /\ Session(g)' = Session(g)
                  BY <1>2, <1>6, <1>t DEF HookTypes, Session
            <3>2. /\ hook'[h].client = "over" /\ hook'[h].answer = class /\ hook'[h].told = told
                  /\ Session(h)' = Session(h) /\ h \notin Rejected(s, c)
                  BY <1>2, <1>6, <1>t DEF HookTypes, Session, Rejected
            <3>3. h \in Rejected(s, c)' <=> s = Session(h) /\ c = class
                  BY <3>2 DEF Rejected
            <3>4. \A g \in Hooks \ {h} : g \in Rejected(s, c)' <=> g \in Rejected(s, c)
                  BY <3>1 DEF Rejected
            <3>5. h \in Tells(s, c)' <=> s = Session(h) /\ c = class /\ told # {}
                  BY <1>4, <3>2, <3>3 DEF Tells
            <3>6. \A g \in Hooks \ {h} : g \in Tells(s, c)' <=> g \in Tells(s, c)
                  BY <3>1, <3>4 DEF Tells
            <3>7. Rejected(s, c) \subseteq Hooks /\ Tells(s, c) \subseteq Rejected(s, c)
                  /\ Rejected(s, c)' \subseteq Hooks /\ Tells(s, c)' \subseteq Rejected(s, c)'
                  BY DEF Rejected, Tells
            <3>8. h \notin Tells(s, c)
                  BY <3>2, <3>7
            <3> QED BY <3>2, <3>3, <3>4, <3>5, <3>6, <3>7, <3>8
      <2>2. ASSUME NEW s \in Sessions, NEW c \in Rejections
            PROVE  /\ <<s, c>> \in markers' => Tells(s, c)' # {}
                   /\ writable' /\ Rejected(s, c)' # {} => <<s, c>> \in markers'
                   /\ ~writable' => markers' = {} /\ Rejected(s, c)' = Tells(s, c)'
                   /\ writable' => \A f, g \in Tells(s, c)' : f = g
            <3>0. Tells(s, c) \subseteq Rejected(s, c)
                  BY DEF Tells
            <3>m. /\ <<s, c>> \in markers => Tells(s, c) # {}
                  /\ writable /\ Rejected(s, c) # {} => <<s, c>> \in markers
                  /\ ~writable => markers = {} /\ Rejected(s, c) = Tells(s, c)
                  /\ writable => \A f, g \in Tells(s, c) : f = g
                  BY <1>t DEF MarkersHold
            <3>1. CASE s = Session(h) /\ c = class
                  BY <1>2, <1>4, <1>5, <2>1, <3>0, <3>m, <3>1
            <3>2. CASE ~(s = Session(h) /\ c = class)
                  <4>1. <<s, c>> \in markers' <=> <<s, c>> \in markers
                        BY <1>5, <3>2
                  <4>2. ~writable => markers' = {}
                        BY <1>5, <3>m
                  <4> QED BY <1>2, <2>1, <3>2, <3>m, <4>1, <4>2
            <3> QED BY <3>1, <3>2
      <2> QED BY <2>2 DEF MarkersHold
<1> QED BY <1>7, <1>8, <1>9, <1>10 DEF HooksInv

\* A call brings its hooks, of which one speaks.
LEMMA CallKeeps ==
    ASSUME HooksInv, NEW s \in Sessions, NEW cwd \in Places, NEW use \in Uses, ToolCall(s, cwd, use)
    PROVE  HooksInv'
<1>t. HookTypes /\ HookOrder /\ OneVoice /\ MarkersHold
      BY DEF HooksInv
<1> DEFINE n == Len(toolCall) + 1
<1>1. /\ hook' = [h \in Hooks |-> hook'[h]]
      /\ \A h \in Hooks :
            \/ hook'[h] = hook[h]
            \/ /\ h[1] = n /\ Speaks(h[2], s, cwd)
               /\ \E sent \in {"lost", "sent"} :
                     hook'[h] = [hook[h] EXCEPT !.client = "waits", !.request = sent]
      <2>1. PICK legible \in Legible(use), sent \in {"lost", "sent"} :
               hook' = [h \in Hooks |-> IF h[1] = n /\ Speaks(h[2], s, cwd) /\ legible
                                         THEN [hook[h] EXCEPT !.client = "waits", !.request = sent]
                                         ELSE hook[h]]
            BY DEF ToolCall
      <2>2. \A h \in Hooks : hook'[h] = IF h[1] = n /\ Speaks(h[2], s, cwd) /\ legible
                                         THEN [hook[h] EXCEPT !.client = "waits", !.request = sent]
                                         ELSE hook[h]
            BY <2>1
      <2>3. hook' = [h \in Hooks |-> hook'[h]]
            BY <2>1
      <2> QED BY <2>2, <2>3
<1>2. /\ toolCall' = Append(toolCall, [session |-> s, cwd |-> cwd, use |-> use]) /\ Len(toolCall) < Calls
      /\ OpenedIn[s] \in Above[cwd] /\ UNCHANGED <<writable, markers, daemon>>
      BY DEF ToolCall
<1>3. /\ toolCall' \in Seq(CallRec) /\ Len(toolCall) \in Nat
      /\ Len(toolCall') = n /\ \A i \in 1 .. Len(toolCall) : toolCall'[i] = toolCall[i]
      <2>1. toolCall \in Seq(CallRec)
            BY <1>t DEF HookTypes
      <2>2. [session |-> s, cwd |-> cwd, use |-> use] \in CallRec
            BY HooksAssumption DEF CallRec
      <2> QED BY <1>2, <2>1, <2>2
<1>4. \A h \in Hooks :
         \/ hook'[h] = hook[h]
         \/ /\ h[1] = n /\ Speaks(h[2], s, cwd) /\ hook[h] = Unborn
            /\ hook'[h] \in HookRec /\ hook'[h].client = "waits" /\ hook'[h].request # "none"
            /\ hook'[h].told = {}
      <2>1. ASSUME NEW h \in Hooks, h[1] = n
            PROVE  hook[h] = Unborn
            BY <1>3, <1>t, <2>1 DEF HookOrder
      <2>2. ASSUME NEW h \in Hooks, hook[h] = Unborn, NEW sent \in {"lost", "sent"},
                   hook'[h] = [hook[h] EXCEPT !.client = "waits", !.request = sent]
            PROVE  /\ hook'[h] \in HookRec /\ hook'[h].client = "waits" /\ hook'[h].request # "none"
                   /\ hook'[h].told = {}
            <3>1. hook[h] \in HookRec
                  BY <1>t DEF HookTypes
            <3>2. hook[h].told = {}
                  BY <2>2 DEF Unborn
            <3> QED BY <2>2, <3>1, <3>2 DEF HookRec
      <2> HIDE DEF n
      <2> QED BY <1>1, <2>1, <2>2
<1>5. HookTypes'
      <2>1. hook' \in [Hooks -> HookRec]
            <3>1. \A h \in Hooks : hook'[h] \in HookRec
                  BY <1>4, <1>t DEF HookTypes, HookRec
            <3> QED BY <1>1, <3>1
      <2> QED BY <1>2, <1>3, <1>t, <2>1 DEF HookTypes
<1>6. HookOrder'
      BY <1>2, <1>3, <1>4, <1>t DEF HookOrder, Unborn, Hooks, Rejections
<1>7. OneVoice'
      <2> SUFFICES ASSUME NEW t \in 1 .. Calls PROVE ~(hook'[<<t, "global">>].request # "none" /\ hook'[<<t, "local">>].request # "none")
          BY DEF OneVoice
      <2>1. <<t, "global">> \in Hooks /\ <<t, "local">> \in Hooks
            BY DEF Hooks, Who
      <2>2. ~(Speaks("global", s, cwd) /\ Speaks("local", s, cwd))
            BY <1>2, WiredAssumption DEF Speaks, HasLocalAtlasHook
      <2>3. CASE t # n
            BY <1>1, <2>1, <2>3, <1>t DEF OneVoice
      <2>4. CASE t = n
            <3>1. hook[<<t, "global">>].request = "none" /\ hook[<<t, "local">>].request = "none"
                  BY <1>3, <1>t, <2>1, <2>4 DEF HookOrder, Unborn
            <3> QED BY <1>1, <2>1, <2>2, <3>1
      <2> QED BY <2>3, <2>4
<1>8. MarkersHold'
      <2>1. ASSUME NEW r \in Sessions, NEW class \in Rejections
            PROVE  Rejected(r, class)' = Rejected(r, class) /\ Tells(r, class)' = Tells(r, class)
            <3>1. \A h \in Hooks : hook'[h].client = "over" <=> hook[h].client = "over"
                  BY <1>4 DEF Unborn
            <3>2. \A h \in Hooks : hook'[h].client = "over" => hook'[h] = hook[h]
                  BY <1>4 DEF Unborn
            <3>3. \A h \in Hooks : hook[h].client = "over" => h[1] \in 1 .. Len(toolCall)
                  BY <1>3, <1>t, HooksAssumption DEF HookOrder, Unborn, Hooks
            <3>4. \A h \in Hooks : hook[h].client = "over" => Session(h)' = Session(h)
                  BY <1>3, <3>3 DEF Session
            <3> QED BY <3>1, <3>2, <3>4 DEF Rejected, Tells
      <2> QED BY <1>2, <1>t, <2>1, MarkersStay
<1> QED BY <1>5, <1>6, <1>7, <1>8 DEF HooksInv

\* An answer changes the request, and what a client may read that is not over.
LEMMA AnswerKeeps ==
    ASSUME HooksInv, NEW h \in Hooks, Asked(h), NEW answer \in {"ok"} \cup Rejections,
           NEW lines \in SUBSET HookLines, Answers(h, answer, lines),
           UNCHANGED <<toolCall, writable, markers, daemon>>
    PROVE  HooksInv'
<1>t. HookTypes
      BY DEF HooksInv
<1>1. hook' \in [Hooks -> HookRec]
      <2>1. hook'[h] \in HookRec /\ hook' = [hook EXCEPT ![h] = hook'[h]]
            BY <1>t DEF Answers, HookTypes, HookRec
      <2> QED BY <1>t, <2>1 DEF HookTypes
<1>2. \A g \in Hooks \ {h} : hook'[g] = hook[g]
      BY <1>t DEF Answers, HookTypes
<1>3. /\ hook[h].request # "none" /\ hook'[h].request # "none"
      /\ hook'[h].client = hook[h].client /\ hook'[h].told = hook[h].told
      /\ hook[h].client = "over" => hook'[h].answer = hook[h].answer
      BY <1>t DEF Answers, HookTypes, Asked, HookRec
<1>4. daemon' \in {"down", "ok"} \cup Rejections
      BY <1>t DEF HookTypes
<1> QED BY <1>1, <1>2, <1>3, <1>4, AnswersKeep

LEMMA HookStep == HooksInv /\ [HooksNext]_hookVars => HooksInv'
<1> SUFFICES ASSUME HooksInv, [HooksNext]_hookVars
             PROVE  HooksInv'
    OBVIOUS
<1>t. HookTypes
      BY DEF HooksInv
<1>u. ASSUME UNCHANGED client, daemon' \in {"down", "ok"} \cup Rejections
      PROVE  HooksInv'
      BY <1>u, <1>t, AnswersKeep DEF client, HookTypes
<1>d. daemon \in {"down", "ok"} \cup Rejections
      BY <1>t DEF HookTypes
<1>1. ASSUME NEW h \in Hooks, Client(h) PROVE HooksInv'
      <2>1. CASE GivesUp(h)
            BY <2>1, QuietEnds DEF GivesUp, SaysNothing, ClientOnly
      <2>2. CASE HearsOk(h)
            <3>1. PICK lines \in SUBSET (HookLines \cup {"captured"}) : Says(h, "none", lines)
                  BY <2>2, <1>t DEF HearsOk, HookTypes, HookRec
            <3> QED BY <2>2, <3>1, QuietEnds DEF HearsOk, ClientOnly
      <2>3. CASE HearsRejection(h)
            <3>1. CASE Use(h) = "session-end"
                  BY <2>3, <3>1, QuietEnds DEF HearsRejection, SaysNothing, ClientOnly
            <3> QED BY <2>3, <3>1, RejectionKeeps
      <2> QED BY <1>1, <2>1, <2>2, <2>3 DEF Client
<1>2. ASSUME NEW h \in Hooks, Endpoint(h) PROVE HooksInv'
      <2>1. CASE Rejects(h)
            BY <2>1, AnswerKeeps DEF Rejects, Rejections
      <2>2. ASSUME NEW use, NEW w, NEW lines \in BuildHookContext(use, w)
            PROVE  lines \in SUBSET HookLines
            BY <2>2 DEF BuildHookContext, HookLines
      <2>3. CASE ContextOnboards(h)
            <3>1. PICK lines \in BuildHookContext(Use(h), NoWorkspace) : Answers(h, "ok", lines \cup {"onboarding"})
                  BY <2>3 DEF ContextOnboards
            <3>2. lines \cup {"onboarding"} \in SUBSET HookLines
                  BY <2>2 DEF HookLines
            <3> QED BY <2>3, <3>1, <3>2, AnswerKeeps DEF ContextOnboards
      <2>4. CASE ContextAnswers(h)
            <3>1. PICK lines \in BuildHookContext(Use(h), WorkspaceOf(h)) : Answers(h, "ok", lines)
                  BY <2>4 DEF ContextAnswers
            <3>2. lines \in SUBSET HookLines
                  BY <2>2
            <3> QED BY <2>4, <3>1, <3>2, AnswerKeeps DEF ContextAnswers
      <2>5. CASE VerbatimAnswers(h)
            BY <2>5, AnswerKeeps DEF VerbatimAnswers
      <2> QED BY <1>2, <2>1, <2>3, <2>4, <2>5 DEF Endpoint
<1>3. CASE DaemonEnds
      <2>1. /\ hook' = [h \in Hooks |-> IF Asked(h) THEN [hook[h] EXCEPT !.request = "lost"] ELSE hook[h]]
            /\ UNCHANGED <<toolCall, writable, markers>> /\ daemon' = "down"
            BY <1>3 DEF DaemonEnds
      <2>2. \A h \in Hooks : Asked(h) => hook[h].request = "sent" /\ hook'[h] = [hook[h] EXCEPT !.request = "lost"]
            BY <2>1 DEF Asked
      <2>3. \A h \in Hooks : hook[h] \in HookRec
            BY <1>t DEF HookTypes
      <2>4. \A h \in Hooks : hook'[h] \in HookRec
            <3> HIDE DEF Asked
            <3> QED BY <2>1, <2>3 DEF HookRec
      <2>5. hook' \in [Hooks -> HookRec]
            BY <2>1, <2>4
      <2>6. \A h \in Hooks :
               \/ hook'[h] = hook[h]
               \/ /\ hook[h].request # "none" /\ hook'[h].request # "none"
                  /\ hook'[h].client = hook[h].client /\ hook'[h].told = hook[h].told
                  /\ hook[h].client = "over" => hook'[h].answer = hook[h].answer
            BY <2>1, <2>2, <2>3 DEF HookRec
      <2> QED BY <2>1, <2>5, <2>6, AnswersKeep
<1>4. CASE DaemonStarts
      BY <1>4, <1>u DEF DaemonStarts, Rejections
<1>5. CASE InstallGlobalWire \/ UninstallGlobalWire
      BY <1>5, <1>u, <1>d DEF InstallGlobalWire, UninstallGlobalWire
<1>6. ASSUME NEW row \in Rows,
             AddProject(row) \/ RemoveProject(row) \/ ToolIndexes(row) \/ CliRegisters(row) \/ CliGoesOn(row)
      PROVE  HooksInv'
      BY <1>6, <1>u, <1>d DEF AddProject, RemoveProject, ToolIndexes, CliRegisters, CliGoesOn, Tool
<1>7. ASSUME NEW w \in Slugs, DeleteWorkspace(w) PROVE HooksInv'
      BY <1>7, <1>u, <1>d DEF DeleteWorkspace, Tool
<1>8. CASE UNCHANGED hookVars
      BY <1>8, <1>u, <1>d DEF hookVars
<1> QED BY <1>1, <1>2, <1>3, <1>4, <1>5, <1>6, <1>7, <1>8, CallKeeps DEF HooksNext

\* Whatever calls, restarts and commands come between: a marker stands for a hook that
\* has told, and who tells, or has heard a rejection, can be said of each hook.
THEOREM HooksKeepInv == HooksSpec => []HooksInv
<1> QED BY HooksStart, HookStep, PTL DEF HooksSpec

\* Of the hooks that one tool call fires at most one asks the daemon, whichever wired
\* repository the agent is in, while it stays below its session's folder
\* (hasLocalAtlasHook, atlas-hook.mjs:96-121, 281-299).
THEOREM OneHookSpeaks == HooksSpec => []OneVoice
<1> QED BY HooksKeepInv, PTL DEF HooksInv

\* A rejection that a session's hooks have heard is told by one of them, or by each
\* where no marker can be made (warnOnce, atlas-hook.mjs:152-170).
THEOREM RejectionsAreTold == HooksSpec => []RejectionsTold
<1>1. HooksInv => RejectionsTold
      <2> SUFFICES ASSUME HooksInv, NEW s \in Sessions, NEW class \in Rejections
                   PROVE  /\ writable => Cardinality(Tells(s, class)) <= 1
                          /\ Rejected(s, class) # {} => Tells(s, class) # {}
          BY DEF RejectionsTold, Rejected, Tells, Rejections
      <2>1. /\ <<s, class>> \in markers => Tells(s, class) # {}
            /\ writable /\ Rejected(s, class) # {} => <<s, class>> \in markers
            /\ ~writable => Rejected(s, class) = Tells(s, class)
            /\ writable => \A f, g \in Tells(s, class) : f = g
            BY DEF HooksInv, MarkersHold
      <2>2. ASSUME writable PROVE Cardinality(Tells(s, class)) <= 1
            <3>1. CASE Tells(s, class) = {}
                  BY <3>1, FS_EmptySet
            <3>2. CASE Tells(s, class) # {}
                  <4>1. PICK h \in Tells(s, class) : Tells(s, class) = {h}
                        BY <2>1, <2>2, <3>2
                  <4>2. Cardinality({h}) = 1
                        BY FS_Singleton
                  <4> QED BY <4>1, <4>2
            <3> QED BY <3>1, <3>2
      <2> QED BY <2>1, <2>2 DEF HooksInv, HookTypes
<1> QED BY HooksKeepInv, <1>1, PTL

\* However calls, restarts and rejections interleave: of the hooks of a call one speaks,
\* and the agent hears of a rejection once (atlas-hook.mjs:22-32, 55-69, 156-170).
THEOREM HooksAreHeard == HooksSpec => []HooksHeard
<1>1. OneVoice /\ RejectionsTold => HooksHeard
      BY DEF HooksHeard
<1> QED BY <1>1, OneHookSpeaks, RejectionsAreTold, PTL

-----------------------------------------------------------------------------
(* What the daemon knows of folders.                                           *)

\* A set of numbers has a least one.
LEMMA Least ==
    ASSUME NEW T \in SUBSET Nat, T # {}
    PROVE  \E n \in T : \A m \in T : n <= m
<1>1. PICK n \in T : \A m \in T : <<m, n>> \notin OpToRel(<, Nat)
      BY NatLessThanWellFounded, WFMin
<1>2. OpToRel(<, Nat) = {p \in Nat \X Nat : p[1] < p[2]}
      BY DEF OpToRel
<1>3. \A m \in T : ~(m < n)
      BY <1>1, <1>2
<1> QED BY <1>3

\* What holds of 0, and of the number after one it holds of, holds up to n.
LEMMA UpTo ==
    ASSUME NEW n \in Nat, NEW S, 0 \in S, \A k \in 0 .. n - 1 : k \in S => k + 1 \in S
    PROVE  n \in S
<1>1. SUFFICES ASSUME (0 .. n) \ S # {} PROVE FALSE
      OBVIOUS
<1>2. PICK k \in (0 .. n) \ S : \A m \in (0 .. n) \ S : k <= m
      <2>1. (0 .. n) \ S \in SUBSET Nat
            OBVIOUS
      <2> QED BY <1>1, <2>1, Least
<1>3. k # 0 /\ k - 1 \in 0 .. n - 1
      BY <1>2
<1>4. k - 1 \in S
      BY <1>2, <1>3
<1> QED BY <1>2, <1>3, <1>4

\* What is left of the first i rows, for i up to n.
Leaves(rows, S, g, n) ==
    g = [i \in 0 .. n |-> IF i = 0 THEN <<>>
                          ELSE IF rows[i] \in S THEN g[i - 1] ELSE Append(g[i - 1], rows[i])]

\* There is such a function: each value is determined by the one before.
LEMMA LeavesExist ==
    ASSUME NEW rows, NEW S, NEW L \in Nat
    PROVE  \E g : Leaves(rows, S, g, L)
<1> DEFINE F(h, i) == IF rows[i] \in S THEN h ELSE Append(h, rows[i])
<1> DEFINE T == {n \in 0 .. L : \E g : Leaves(rows, S, g, n)}
<1>2. 0 \in T
      <2>1. PICK g : g = [i \in 0 .. 0 |-> <<>>]
            OBVIOUS
      <2>2. Leaves(rows, S, g, 0)
            BY <2>1 DEF Leaves
      <2> QED BY <2>2
<1>3. ASSUME NEW k \in 0 .. L - 1, k \in T PROVE k + 1 \in T
      <2>1. PICK g : Leaves(rows, S, g, k)
            BY <1>3
      <2>2. PICK h : h = [i \in 0 .. k + 1 |-> IF i = k + 1 THEN F(g[k], k + 1) ELSE g[i]]
            OBVIOUS
      <2>3. \A i \in 0 .. k : h[i] = g[i] /\ i # k + 1
            BY <2>2
      <2>4. h[0] = <<>>
            BY <2>1, <2>3 DEF Leaves
      <2>5. ASSUME NEW i \in 1 .. k PROVE h[i] = F(h[i - 1], i)
            <3>1. i \in 0 .. k /\ i - 1 \in 0 .. k /\ i # 0
                  OBVIOUS
            <3>2. g[i] = F(g[i - 1], i)
                  BY <2>1, <3>1 DEF Leaves
            <3> QED BY <2>3, <3>1, <3>2
      <2>6. h[k + 1] = F(h[k], k + 1)
            BY <2>2, <2>3
      <2>7. ASSUME NEW i \in 0 .. k + 1 PROVE h[i] = IF i = 0 THEN <<>> ELSE F(h[i - 1], i)
            <3>1. i = 0 \/ i \in 1 .. k \/ (i = k + 1 /\ i # 0 /\ i - 1 = k)
                  OBVIOUS
            <3>2. i \in 1 .. k => i # 0
                  OBVIOUS
            <3> HIDE DEF F
            <3> QED BY <2>4, <2>5, <2>6, <3>1, <3>2
      <2>8. Leaves(rows, S, h, k + 1)
            BY <2>2, <2>7 DEF Leaves
      <2> QED BY <2>8
<1>4. L \in T
      <2> HIDE DEF T
      <2> QED BY <1>2, <1>3, UpTo
<1> QED BY <1>4

\* What is left of a list of rows is the last value of one.
LEMMA WithoutIs ==
    ASSUME NEW rows, NEW S, Len(rows) \in Nat
    PROVE  \E g : Leaves(rows, S, g, Len(rows)) /\ Without(rows, S) = g[Len(rows)]
<1>1. PICK g : g = CHOOSE f : Leaves(rows, S, f, Len(rows))
      OBVIOUS
<1>2. Leaves(rows, S, g, Len(rows))
      BY <1>1, LeavesExist
<1>3. Without(rows, S) = g[Len(rows)]
      BY <1>1 DEF Without, Leaves
<1> QED BY <1>2, <1>3

\* A list of rows, no row twice.
IsList(rows, R) == rows \in Seq(R) /\ \A i, j \in 1 .. Len(rows) : rows[i] = rows[j] => i = j

\* A row that joins a list in which it is not.
LEMMA Joined ==
    ASSUME NEW R, NEW rows, IsList(rows, R), NEW r \in R, \A i \in 1 .. Len(rows) : rows[i] # r
    PROVE  IsList(Append(rows, r), R)
<1>1. PICK new : new = Append(rows, r)
      OBVIOUS
<1>2. new \in Seq(R) /\ Len(rows) \in Nat /\ Len(new) = Len(rows) + 1
      /\ \A i \in 1 .. Len(new) : new[i] = IF i <= Len(rows) THEN rows[i] ELSE r
      BY <1>1 DEF IsList
<1>3. ASSUME NEW i \in 1 .. Len(rows) + 1, NEW j \in 1 .. Len(rows) + 1, new[i] = new[j]
      PROVE  i = j
      <2>1. \A a, b \in 1 .. Len(rows) : rows[a] = rows[b] => a = b
            BY DEF IsList
      <2> QED BY <1>2, <1>3, <2>1
<1> QED BY <1>1, <1>2, <1>3 DEF IsList

\* A part of a list is a list.
LEMMA LeftIsList ==
    ASSUME NEW R, NEW rows, IsList(rows, R), NEW S
    PROVE  IsList(Without(rows, S), R)
<1>1. PICK L \in Nat : L = Len(rows)
      BY DEF IsList
<1>2. \A i \in 1 .. L : rows[i] \in R
      BY <1>1 DEF IsList
<1>3. \A i, j \in 1 .. L : rows[i] = rows[j] => i = j
      BY <1>1 DEF IsList
<1>4. PICK left : Leaves(rows, S, left, L) /\ Without(rows, S) = left[L]
      BY <1>1, WithoutIs
<1> DEFINE Part(s, n) == IsList(s, R) /\ \A j \in 1 .. Len(s) : \E i \in 1 .. n : s[j] = rows[i]
<1> DEFINE T == {n \in 0 .. L : Part(left[n], n)}
<1>5. 0 \in T
      <2>1. left[0] = <<>>
            BY <1>4 DEF Leaves
      <2>2. <<>> \in Seq(R) /\ Len(<<>>) = 0
            OBVIOUS
      <2>3. Part(left[0], 0)
            BY <2>1, <2>2 DEF IsList
      <2> QED BY <2>3
<1>6. ASSUME NEW k \in 0 .. L - 1, k \in T PROVE k + 1 \in T
      <2>1. k + 1 \in 1 .. L /\ k + 1 \in 0 .. L /\ k + 1 # 0 /\ (k + 1) - 1 = k /\ k \in Nat
            OBVIOUS
      <2>2. left[k + 1] = IF rows[k + 1] \in S THEN left[k] ELSE Append(left[k], rows[k + 1])
            BY <1>4, <2>1 DEF Leaves
      <2>3. PICK s : s = left[k] /\ Part(s, k)
            BY <1>6
      <2>4. \A i \in 1 .. k : i \in 1 .. k + 1 /\ rows[i] # rows[k + 1]
            BY <1>3, <2>1
      <2>5. \A j \in 1 .. Len(s) : s[j] # rows[k + 1]
            BY <2>3, <2>4
      <2>6. PICK t : t = Append(s, rows[k + 1])
            OBVIOUS
      <2>7. IsList(t, R)
            BY <1>2, <2>1, <2>3, <2>5, <2>6, Joined
      <2>8. \A j \in 1 .. Len(t) : \E i \in 1 .. k + 1 : t[j] = rows[i]
            <3>1. /\ Len(t) = Len(s) + 1 /\ Len(s) \in Nat
                  /\ \A j \in 1 .. Len(t) : t[j] = IF j <= Len(s) THEN s[j] ELSE rows[k + 1]
                  BY <1>2, <2>1, <2>3, <2>6 DEF IsList
            <3>2. \A j \in 1 .. Len(s) : \E i \in 1 .. k + 1 : s[j] = rows[i]
                  BY <2>3, <2>4
            <3>3. \A j \in 1 .. Len(t) : j \in 1 .. Len(s) \/ t[j] = rows[k + 1]
                  BY <3>1
            <3>4. \A j \in 1 .. Len(s) : t[j] = s[j]
                  BY <3>1
            <3>5. k + 1 \in 1 .. k + 1
                  BY <2>1
            <3> QED BY <3>2, <3>3, <3>4, <3>5
      <2>9. Part(t, k + 1) /\ Part(s, k + 1)
            BY <2>3, <2>4, <2>7, <2>8
      <2>10. left[k + 1] = s \/ left[k + 1] = t
            BY <2>2, <2>3, <2>6
      <2> HIDE DEF Part
      <2> QED BY <2>1, <2>9, <2>10
<1>7. L \in T
      <2> HIDE DEF T
      <2> QED BY <1>5, <1>6, UpTo
<1> QED BY <1>4, <1>7

\* A list without what it does not hold is the list.
LEMMA NothingLeaves ==
    ASSUME NEW R, NEW rows \in Seq(R)
    PROVE  Without(rows, {}) = rows
<1>1. PICK L \in Nat : L = Len(rows)
      OBVIOUS
<1>2. PICK left : Leaves(rows, {}, left, L) /\ Without(rows, {}) = left[L]
      BY <1>1, WithoutIs
<1> DEFINE Same(s, n) == s \in Seq(R) /\ Len(s) = n /\ \A j \in 1 .. n : s[j] = rows[j]
<1> DEFINE T == {n \in 0 .. L : Same(left[n], n)}
<1>3. 0 \in T
      <2>1. left[0] = <<>>
            BY <1>2 DEF Leaves
      <2>2. <<>> \in Seq(R) /\ Len(<<>>) = 0
            OBVIOUS
      <2>3. Same(left[0], 0)
            BY <2>1, <2>2
      <2> QED BY <2>3
<1>4. ASSUME NEW k \in 0 .. L - 1, k \in T PROVE k + 1 \in T
      <2>1. k + 1 \in 1 .. L /\ k + 1 \in 0 .. L /\ k + 1 # 0 /\ (k + 1) - 1 = k /\ k \in Nat
            OBVIOUS
      <2>2. left[k + 1] = Append(left[k], rows[k + 1])
            BY <1>2, <2>1 DEF Leaves
      <2>3. PICK s : s = left[k] /\ Same(s, k)
            BY <1>4
      <2>4. rows[k + 1] \in R
            BY <1>1, <2>1
      <2>5. PICK t : t = Append(s, rows[k + 1])
            OBVIOUS
      <2>6. t \in Seq(R) /\ Len(t) = k + 1
            /\ \A j \in 1 .. k + 1 : t[j] = IF j <= k THEN s[j] ELSE rows[k + 1]
            BY <2>1, <2>3, <2>4, <2>5
      <2>7. \A j \in 1 .. k + 1 : t[j] = rows[j]
            BY <2>1, <2>3, <2>6
      <2>8. Same(t, k + 1)
            BY <2>6, <2>7
      <2> HIDE DEF Same
      <2> QED BY <2>1, <2>2, <2>3, <2>5, <2>8
<1>5. L \in T
      <2> HIDE DEF T
      <2> QED BY <1>3, <1>4, UpTo
<1>6. PICK s : s = left[L] /\ Same(s, L)
      BY <1>5
<1>7. s = rows
      BY <1>1, <1>6
<1> QED BY <1>2, <1>6, <1>7

\* A row that joins the list and what is left out leaves nothing more.
LEMMA JoinsBoth ==
    ASSUME NEW R, NEW rows \in Seq(R), NEW S, NEW r \in R, \A i \in 1 .. Len(rows) : rows[i] # r
    PROVE  Without(Append(rows, r), S \cup {r}) = Without(rows, S)
<1>1. PICK L \in Nat : L = Len(rows)
      OBVIOUS
<1>2. PICK new : new = Append(rows, r)
      OBVIOUS
<1>3. Len(new) = L + 1 /\ new[L + 1] = r /\ \A i \in 1 .. L : new[i] = rows[i]
      BY <1>1, <1>2
<1>4. PICK left : Leaves(rows, S, left, L) /\ Without(rows, S) = left[L]
      BY <1>1, WithoutIs
<1>5. PICK both : Leaves(new, S \cup {r}, both, L + 1) /\ Without(new, S \cup {r}) = both[L + 1]
      <2>1. Len(new) \in Nat
            BY <1>1, <1>3
      <2> QED BY <1>3, <2>1, WithoutIs
<1> DEFINE T == {n \in 0 .. L : both[n] = left[n]}
<1>6. 0 \in T
      BY <1>4, <1>5 DEF Leaves
<1>7. ASSUME NEW k \in 0 .. L - 1, k \in T PROVE k + 1 \in T
      <2>1. k + 1 \in 1 .. L /\ k + 1 \in 0 .. L /\ k + 1 \in 0 .. L + 1 /\ k + 1 # 0 /\ (k + 1) - 1 = k
            OBVIOUS
      <2>2. left[k + 1] = IF rows[k + 1] \in S THEN left[k] ELSE Append(left[k], rows[k + 1])
            BY <1>4, <2>1 DEF Leaves
      <2>3. both[k + 1] = IF new[k + 1] \in S \cup {r} THEN both[k] ELSE Append(both[k], new[k + 1])
            BY <1>5, <2>1 DEF Leaves
      <2>4. new[k + 1] = rows[k + 1] /\ rows[k + 1] # r
            BY <1>1, <1>3, <2>1
      <2> QED BY <1>7, <2>1, <2>2, <2>3, <2>4
<1>8. L \in T
      <2> HIDE DEF T
      <2> QED BY <1>6, <1>7, UpTo
<1>9. both[L + 1] = both[L]
      <2>1. L + 1 \in 0 .. L + 1 /\ L + 1 # 0 /\ (L + 1) - 1 = L
            OBVIOUS
      <2> QED BY <1>3, <1>5, <2>1 DEF Leaves
<1> QED BY <1>2, <1>4, <1>5, <1>8, <1>9

Named == [workspace : Slugs, folder : Folders]

\* The registry is a list, and the index is what is left of it without what other
\* processes have registered since.
RegistryInv ==
    /\ IsList(projects, Named)
    /\ cached \in {{}, {Without(projects, missed)}}
    /\ cached = {} => missed = {}

\* An answer to the repository's own hook about a transcript is given when it is queued.
QueuedFirst ==
    \A h \in Hooks :
        h[2] = "local" /\ h[1] <= Len(toolCall) /\ hook[h].answer = "ok" /\ Use(h) = "session-end"
            => h \in captured

FoldersInv ==
    /\ global \in BOOLEAN /\ RegistryInv
    /\ \A o \in onboarded : o.workspace \in announced
    /\ QueuedFirst /\ CapturedIsQueued

\* With or without one in hand, the index is the same.
LEMMA IndexIs ==
    ASSUME RegistryInv
    PROVE  Index = Without(projects, missed)
<1>1. Without(projects, {}) = projects
      BY NothingLeaves DEF RegistryInv, IsList
<1> QED BY <1>1 DEF RegistryInv, Index

LEMMA FoldersStart == HooksInit => FoldersInv
<1> SUFFICES ASSUME HooksInit PROVE FoldersInv
    OBVIOUS
<1>1. IsList(<<>>, Named)
      BY DEF IsList
<1> QED BY <1>1 DEF HooksInit, FoldersInv, RegistryInv, QueuedFirst, CapturedIsQueued, Unborn, Hooks, Who

\* A workspace is named for each folder.
LEMMA SlugIs ==
    ASSUME NEW f \in Folders
    PROVE  Slug(f) \in Slugs
<1>1. PICK remote : remote = {Origin[g] : g \in {g \in Above[f] \cap Git : Above[f] \cap Git \subseteq Above[g]}} \ {NoWorkspace}
      OBVIOUS
<1>2. remote \subseteq Slugs
      BY <1>1, HooksAssumption
<1>3. Slug(f) = IF remote = {} THEN Name[f] ELSE CHOOSE w \in remote : TRUE
      BY <1>1 DEF Slug
<1> QED BY <1>2, <1>3, HooksAssumption

\* A hook that is at work is of a call.
LEMMA CallIs ==
    ASSUME HooksInv, NEW h \in Hooks, hook[h] # Unborn
    PROVE  /\ h[1] \in 1 .. Len(toolCall)
           /\ Cwd(h) \in Folders /\ Session(h) \in Sessions
<1>1. h[1] \in Nat \ {0} /\ toolCall \in Seq(CallRec) /\ Len(toolCall) \in Nat
      BY HooksAssumption DEF HooksInv, HookTypes, Hooks
<1>2. h[1] \in 1 .. Len(toolCall)
      BY <1>1 DEF HooksInv, HookOrder
<1>3. toolCall[h[1]] \in CallRec
      BY <1>1, <1>2
<1> QED BY <1>2, <1>3 DEF Cwd, Session, CallRec

\* Writing a row keeps the list.
LEMMA RecordKeeps ==
    ASSUME RegistryInv, NEW row \in Named, Record(row)
    PROVE  /\ IsList(projects', Named)
           /\ Registered(row) => projects' = projects
           /\ ~Registered(row) => \A i \in 1 .. Len(projects) : projects[i] # row
<1>1. projects \in Seq(Named)
      BY DEF RegistryInv, IsList
<1>2. ASSUME ~Registered(row) PROVE \A i \in 1 .. Len(projects) : projects[i] # row
      BY <1>1, <1>2 DEF Registered, ToSet
<1> QED BY <1>1, <1>2, Joined DEF RegistryInv, Record

\* A change of the rows that drops the index.
LEMMA DropsKeep ==
    ASSUME IsList(projects', Named), Invalidate
    PROVE  RegistryInv'
BY DEF RegistryInv, Invalidate

LEMMA RegistryStep ==
    ASSUME RegistryInv, HooksInv, [HooksNext]_hookVars
    PROVE  RegistryInv'
<1>1. ASSUME UNCHANGED <<projects, missed, cached>> PROVE RegistryInv'
      BY <1>1 DEF RegistryInv, Without
<1>2. ASSUME UNCHANGED <<projects, missed>>, cached' = {Index} PROVE RegistryInv'
      <2>1. Without(projects, missed)' = Without(projects, missed)
            BY <1>2 DEF Without
      <2> QED BY <1>2, <2>1, IndexIs DEF RegistryInv
<1>3. ASSUME NEW row \in Named, Record(row), Invalidate PROVE RegistryInv'
      BY <1>3, RecordKeeps, DropsKeep
<1>4. ASSUME NEW row \in Named, RegisterProject(row) PROVE RegistryInv'
      <2>1. CASE Registered(row)
            BY <1>1, <1>4, <2>1 DEF RegisterProject, Record
      <2> QED BY <1>3, <1>4, <2>1 DEF RegisterProject
<1>5. ASSUME NEW S, projects' = Without(projects, S), Invalidate PROVE RegistryInv'
      <2>1. IsList(Without(projects, S), Named)
            BY LeftIsList DEF RegistryInv
      <2> QED BY <1>5, <2>1, DropsKeep
<1>6. ASSUME NEW row \in Rows,
             AddProject(row) \/ RemoveProject(row) \/ ToolIndexes(row) \/ CliRegisters(row) \/ CliGoesOn(row)
      PROVE  RegistryInv'
      <2>0. row \in Named
            BY HooksAssumption DEF Named
      <2>1. CASE AddProject(row)
            BY <2>0, <2>1, <1>3 DEF AddProject
      <2>2. CASE RemoveProject(row)
            BY <2>2, <1>5 DEF RemoveProject
      <2>3. CASE ToolIndexes(row)
            BY <2>0, <2>3, <1>4 DEF ToolIndexes
      <2>4. CASE CliRegisters(row)
            <3>1. /\ Record(row) /\ cached' = cached
                  /\ missed' = IF cached = {} \/ Registered(row) THEN missed ELSE missed \cup {row}
                  BY <2>4 DEF CliRegisters, memory
            <3>2. CASE Registered(row)
                  BY <1>1, <3>1, <3>2 DEF Record
            <3>3. CASE ~Registered(row)
                  <4>1. /\ projects' = Append(projects, row) /\ IsList(projects', Named)
                        /\ \A i \in 1 .. Len(projects) : projects[i] # row
                        BY <2>0, <3>1, <3>3, RecordKeeps DEF Record
                  <4>2. CASE cached = {}
                        BY <3>1, <4>1, <4>2 DEF RegistryInv
                  <4>3. CASE cached # {}
                        <5>1. Without(Append(projects, row), missed \cup {row}) = Without(projects, missed)
                              BY <2>0, <4>1, JoinsBoth DEF RegistryInv, IsList
                        <5>2. cached' = {Without(projects, missed)} /\ missed' = missed \cup {row}
                              BY <3>1, <3>3, <4>3 DEF RegistryInv
                        <5>3. Without(projects, missed)' = Without(projects', missed')
                              BY DEF Without
                        <5> QED BY <4>1, <5>1, <5>2, <5>3 DEF RegistryInv
                  <4> QED BY <4>2, <4>3
            <3> QED BY <3>2, <3>3
      <2>5. CASE CliGoesOn(row)
            BY <2>5, <1>1 DEF CliGoesOn, memory
      <2> QED BY <1>6, <2>1, <2>2, <2>3, <2>4, <2>5
<1>7. ASSUME NEW w \in Slugs, DeleteWorkspace(w) PROVE RegistryInv'
      BY <1>5, <1>7 DEF DeleteWorkspace
<1>8. ASSUME NEW h \in Hooks, Client(h) PROVE RegistryInv'
      BY <1>1, <1>8 DEF Client, GivesUp, HearsOk, HearsRejection, ClientOnly, registry, memory
<1>9. ASSUME NEW h \in Hooks, Endpoint(h) PROVE RegistryInv'
      <2>1. CASE Rejects(h)
            BY <1>1, <2>1 DEF Rejects, registry, memory
      <2>2. CASE ContextOnboards(h)
            <3>1. PICK row : /\ row = Row(Slug(Cwd(h)), Cwd(h)) /\ Record(row)
                             /\ IF Registered(row) THEN cached' = {Index} /\ UNCHANGED missed ELSE Invalidate
                  BY <2>2 DEF ContextOnboards
            <3>2. row \in Named
                  <4>1. Cwd(h) \in Folders
                        BY <2>2, CallIs DEF ContextOnboards, Asked, Unborn
                  <4> QED BY <3>1, <4>1, SlugIs DEF Row, Named
            <3>3. CASE Registered(row)
                  BY <1>2, <3>1, <3>3 DEF Record
            <3> QED BY <1>3, <3>1, <3>2, <3>3
      <2>3. CASE ContextAnswers(h)
            BY <1>1, <1>2, <2>3 DEF ContextAnswers, Remembers, registry
      <2>4. CASE VerbatimAnswers(h)
            BY <1>1, <1>2, <2>4 DEF VerbatimAnswers, Remembers, registry
      <2> QED BY <1>9, <2>1, <2>2, <2>3, <2>4 DEF Endpoint
<1>10. CASE DaemonEnds
      BY <1>10, DropsKeep DEF DaemonEnds, RegistryInv
<1>11. CASE DaemonStarts \/ InstallGlobalWire \/ UninstallGlobalWire \/ UNCHANGED hookVars
      BY <1>1, <1>11 DEF DaemonStarts, InstallGlobalWire, UninstallGlobalWire, registry, memory, hookVars
<1>12. ASSUME NEW s \in Sessions, NEW cwd \in Places, NEW use \in Uses, ToolCall(s, cwd, use) PROVE RegistryInv'
      BY <1>1, <1>12 DEF ToolCall, registry, memory
<1> QED BY <1>6, <1>7, <1>8, <1>9, <1>10, <1>11, <1>12 DEF HooksNext

\* A step of which the hook tells of a transcript only after the answer to it.
TellsOfQueued(h) ==
    /\ hook'[h].answer = "ok" => hook[h].answer = "ok"
    /\ "captured" \in hook'[h].told =>
          \/ "captured" \in hook[h].told
          \/ hook[h].answer = "ok" /\ Use(h) = "session-end" /\ h[1] <= Len(toolCall)

\* A step of a hook's client, or one that has nothing to do with transcripts.
LEMMA QueuedStays ==
    ASSUME QueuedFirst, CapturedIsQueued, HookTypes, UNCHANGED toolCall, captured \subseteq captured',
           \A h \in Hooks : TellsOfQueued(h)
    PROVE  QueuedFirst' /\ CapturedIsQueued'
<1> USE DEF TellsOfQueued
<1>1. \A h \in Hooks : Use(h)' = Use(h)
      BY DEF Use
<1>2. QueuedFirst'
      BY <1>1 DEF QueuedFirst
<1>3. ASSUME NEW t \in 1 .. Calls, "captured" \in hook'[<<t, "local">>].told
      PROVE  <<t, "local">> \in captured'
      <2>0. <<t, "local">> \in Hooks
            BY DEF Hooks, Who
      <2>1. PICK h \in Hooks : h = <<t, "local">> /\ h[2] = "local"
            BY <2>0
      <2>2. CASE "captured" \in hook[h].told
            BY <2>1, <2>2 DEF CapturedIsQueued
      <2>3. CASE hook[h].answer = "ok" /\ Use(h) = "session-end" /\ h[1] <= Len(toolCall)
            BY <2>1, <2>3 DEF QueuedFirst
      <2> QED BY <1>3, <2>1, <2>2, <2>3
<1> QED BY <1>2, <1>3 DEF CapturedIsQueued

LEMMA QueuedStep ==
    ASSUME HooksInv, QueuedFirst, CapturedIsQueued, [HooksNext]_hookVars
    PROVE  QueuedFirst' /\ CapturedIsQueued'
<1>t. HookTypes /\ HookOrder
      BY DEF HooksInv
<1>1. ASSUME UNCHANGED <<toolCall, hook, captured>> PROVE QueuedFirst' /\ CapturedIsQueued'
      <2>1. \A h \in Hooks : TellsOfQueued(h)
            BY <1>1 DEF TellsOfQueued
      <2>2. captured \subseteq captured' /\ UNCHANGED toolCall
            BY <1>1
      <2> QED BY <2>1, <2>2, <1>t, QueuedStays
<1>2. ASSUME NEW h \in Hooks, Client(h) PROVE QueuedFirst' /\ CapturedIsQueued'
      <2>1. ASSUME NEW read \in {"none"} \cup Rejections, NEW lines, Says(h, read, lines),
                   UNCHANGED <<toolCall, captured>>,
                   "captured" \in lines => hook[h].answer = "ok" /\ Use(h) = "session-end" /\ h[1] <= Len(toolCall)
            PROVE  QueuedFirst' /\ CapturedIsQueued'
            <3>1. /\ \A g \in Hooks \ {h} : hook'[g] = hook[g]
                  /\ hook'[h].answer = read /\ hook'[h].told = lines
                  BY <2>1, <1>t DEF Says, HookTypes, HookRec
            <3>2. read # "ok"
                  BY DEF Rejections
            <3>3. \A g \in Hooks : TellsOfQueued(g)
                  BY <2>1, <3>1, <3>2 DEF TellsOfQueued
            <3>4. captured \subseteq captured' /\ UNCHANGED toolCall
                  BY <2>1
            <3> QED BY <3>3, <3>4, <1>t, QueuedStays
      <2>2. CASE GivesUp(h)
            BY <2>1, <2>2 DEF GivesUp, SaysNothing, ClientOnly
      <2>3. CASE HearsOk(h)
            <3>1. "captured" \notin hook[h].lines
                  BY <1>t DEF HookTypes, HookRec, HookLines
            <3>2. h[1] <= Len(toolCall)
                  BY <2>3, <1>t, CallIs DEF HearsOk, Unborn, HookTypes
            <3>3. PICK lines : /\ Says(h, "none", lines)
                               /\ lines = IF Use(h) = "session-end" THEN {"captured"} ELSE hook[h].lines
                  BY <2>3 DEF HearsOk
            <3> QED BY <2>1, <2>3, <3>1, <3>2, <3>3 DEF HearsOk, ClientOnly
      <2>4. CASE HearsRejection(h)
            <3>1. PICK read \in {"none"} \cup Rejections, lines \in SUBSET Rejections : Says(h, read, lines)
                  BY <2>4 DEF HearsRejection, SaysNothing, WarnOnce, Rejections
            <3>2. "captured" \notin lines
                  BY DEF Rejections
            <3> QED BY <2>1, <2>4, <3>1, <3>2 DEF HearsRejection, ClientOnly
      <2> QED BY <1>2, <2>2, <2>3, <2>4 DEF Client
<1>3. ASSUME NEW h \in Hooks, Endpoint(h) PROVE QueuedFirst' /\ CapturedIsQueued'
      <2>1. ASSUME NEW answer, NEW lines, Answers(h, answer, lines), Asked(h), UNCHANGED toolCall,
                   captured \subseteq captured',
                   answer = "ok" /\ h[2] = "local" /\ Use(h) = "session-end" => h \in captured'
            PROVE  QueuedFirst' /\ CapturedIsQueued'
            <3>1. /\ \A g \in Hooks \ {h} : hook'[g] = hook[g]
                  /\ hook'[h].told = hook[h].told
                  /\ hook'[h].answer = hook[h].answer \/ hook'[h].answer = answer
                  BY <2>1, <1>t DEF Answers, HookTypes, HookRec
            <3>2. \A g \in Hooks : Use(g)' = Use(g)
                  BY <2>1 DEF Use
            <3>3. QueuedFirst'
                  BY <2>1, <3>1, <3>2 DEF QueuedFirst
            <3>4. \A g \in Hooks : hook'[g].told = hook[g].told
                  BY <3>1
            <3>5. CapturedIsQueued'
                  BY <2>1, <3>4 DEF CapturedIsQueued, Hooks, Who
            <3> QED BY <3>3, <3>5
      <2>2. CASE Rejects(h)
            BY <2>1, <2>2 DEF Rejects
      <2>3. CASE ContextOnboards(h)
            BY <2>1, <2>3 DEF ContextOnboards
      <2>4. CASE ContextAnswers(h)
            BY <2>1, <2>4 DEF ContextAnswers
      <2>5. CASE VerbatimAnswers(h)
            <3>1. h[2] = "local" => WorkspaceOf(h) # NoWorkspace
                  <4>1. Session(h) \in Sessions
                        BY <2>5, CallIs DEF VerbatimAnswers, Asked, Unborn
                  <4> QED BY <4>1, SlugIs, HooksAssumption DEF WorkspaceOf
            <3> QED BY <2>1, <2>5, <3>1 DEF VerbatimAnswers
      <2> QED BY <1>3, <2>2, <2>3, <2>4, <2>5 DEF Endpoint
<1>4. CASE DaemonEnds
      <2>1. \A h \in Hooks : hook'[h].answer = hook[h].answer /\ hook'[h].told = hook[h].told
            BY <1>4, <1>t DEF DaemonEnds, HookTypes, HookRec
      <2>2. \A h \in Hooks : TellsOfQueued(h)
            BY <2>1 DEF TellsOfQueued
      <2>3. captured \subseteq captured' /\ UNCHANGED toolCall
            BY <1>4 DEF DaemonEnds
      <2> QED BY <2>2, <2>3, <1>t, QueuedStays
<1>5. ASSUME NEW s \in Sessions, NEW cwd \in Places, NEW use \in Uses, ToolCall(s, cwd, use)
      PROVE  QueuedFirst' /\ CapturedIsQueued'
      <2>1. /\ \A h \in Hooks : hook'[h].answer = hook[h].answer /\ hook'[h].told = hook[h].told
            /\ captured' = captured /\ Len(toolCall') = Len(toolCall) + 1 /\ Len(toolCall) \in Nat
            /\ \A i \in 1 .. Len(toolCall) : toolCall'[i] = toolCall[i]
            <3>1. PICK legible \in Legible(use), sent \in {"lost", "sent"} :
                     hook' = [h \in Hooks |-> IF h[1] = Len(toolCall) + 1 /\ Speaks(h[2], s, cwd) /\ legible
                                               THEN [hook[h] EXCEPT !.client = "waits", !.request = sent]
                                               ELSE hook[h]]
                  BY <1>5 DEF ToolCall
            <3>2. \A h \in Hooks : hook'[h].answer = hook[h].answer /\ hook'[h].told = hook[h].told
                  BY <3>1, <1>t DEF HookTypes, HookRec
            <3>3. toolCall \in Seq(CallRec) /\ [session |-> s, cwd |-> cwd, use |-> use] \in CallRec
                  BY <1>t, HooksAssumption DEF HookTypes, CallRec
            <3>4. toolCall' = Append(toolCall, [session |-> s, cwd |-> cwd, use |-> use]) /\ captured' = captured
                  BY <1>5 DEF ToolCall
            <3>5. /\ Len(toolCall') = Len(toolCall) + 1 /\ Len(toolCall) \in Nat
                  /\ \A i \in 1 .. Len(toolCall) : toolCall'[i] = toolCall[i]
                  BY <3>3, <3>4
            <3> QED BY <3>2, <3>4, <3>5
      <2>2. \A h \in Hooks : hook[h].answer = "ok" => h[1] \in 1 .. Len(toolCall)
            BY CallIs DEF Unborn
      <2>3. \A h \in Hooks : hook[h].answer = "ok" => Use(h)' = Use(h)
            BY <2>1, <2>2 DEF Use
      <2>4. QueuedFirst'
            BY <2>1, <2>2, <2>3 DEF QueuedFirst
      <2>5. CapturedIsQueued'
            BY <2>1 DEF CapturedIsQueued, Hooks, Who
      <2> QED BY <2>4, <2>5
<1>6. CASE DaemonStarts \/ InstallGlobalWire \/ UninstallGlobalWire \/ UNCHANGED hookVars
      BY <1>1, <1>6 DEF DaemonStarts, InstallGlobalWire, UninstallGlobalWire, client, hookVars
<1>7. ASSUME NEW row \in Rows,
             AddProject(row) \/ RemoveProject(row) \/ ToolIndexes(row) \/ CliRegisters(row) \/ CliGoesOn(row)
      PROVE  QueuedFirst' /\ CapturedIsQueued'
      BY <1>1, <1>7 DEF AddProject, RemoveProject, ToolIndexes, CliRegisters, CliGoesOn, Tool, client
<1>8. ASSUME NEW w \in Slugs, DeleteWorkspace(w) PROVE QueuedFirst' /\ CapturedIsQueued'
      BY <1>1, <1>8 DEF DeleteWorkspace, Tool, client
<1> QED BY <1>2, <1>3, <1>4, <1>5, <1>6, <1>7, <1>8 DEF HooksNext

\* What is onboarded is announced, in the same callback, and forgotten with it; and
\* the switch of the settings stays one.
LEMMA AnnouncedStep ==
    ASSUME global \in BOOLEAN, \A o \in onboarded : o.workspace \in announced, [HooksNext]_hookVars
    PROVE  global' \in BOOLEAN /\ \A o \in onboarded' : o.workspace \in announced'
<1> USE DEF registry, memory, client, hookVars
<1>1. ASSUME NEW h \in Hooks, Client(h) PROVE UNCHANGED <<global, onboarded, announced>>
      BY <1>1 DEF Client, GivesUp, HearsOk, HearsRejection, ClientOnly
<1>2. ASSUME NEW h \in Hooks, Endpoint(h)
      PROVE  /\ global' = global
             /\ \/ UNCHANGED <<onboarded, announced>>
                \/ \E o : o.workspace \in announced' /\ onboarded' = onboarded \cup {o} /\ announced \subseteq announced'
      <2>1. CASE ContextOnboards(h)
            <3>1. PICK o : o = [workspace |-> Slug(Cwd(h)), folder |-> Cwd(h)]
                  OBVIOUS
            <3> QED BY <2>1, <3>1 DEF ContextOnboards
      <2>2. CASE Rejects(h) \/ ContextAnswers(h) \/ VerbatimAnswers(h)
            BY <2>2 DEF Rejects, ContextAnswers, VerbatimAnswers
      <2> QED BY <1>2, <2>1, <2>2 DEF Endpoint
<1>3. ASSUME NEW row \in Rows,
             AddProject(row) \/ RemoveProject(row) \/ ToolIndexes(row) \/ CliRegisters(row) \/ CliGoesOn(row)
      PROVE  UNCHANGED <<global, onboarded, announced>>
      BY <1>3 DEF AddProject, RemoveProject, ToolIndexes, CliRegisters, CliGoesOn, Tool
<1>4. ASSUME NEW w \in Slugs, DeleteWorkspace(w) PROVE UNCHANGED <<global, onboarded, announced>>
      BY <1>4 DEF DeleteWorkspace, Tool
<1>5. ASSUME NEW s \in Sessions, NEW cwd \in Places, NEW use \in Uses, ToolCall(s, cwd, use)
      PROVE  UNCHANGED <<global, onboarded, announced>>
      BY <1>5 DEF ToolCall
<1>6. CASE DaemonStarts \/ DaemonEnds \/ InstallGlobalWire \/ UninstallGlobalWire \/ UNCHANGED hookVars
      BY <1>6 DEF DaemonStarts, DaemonEnds, InstallGlobalWire, UninstallGlobalWire
<1> QED BY <1>1, <1>2, <1>3, <1>4, <1>5, <1>6 DEF HooksNext

\* A hook onboards what is nobody's, and new in this life of the daemon.
LEMMA Strangers ==
    ASSUME HooksInv, FoldersInv, [HooksNext]_hookVars, NEW o \in onboarded' \ onboarded
    PROVE  /\ \A p \in onboarded : p.workspace # o.workspace
           /\ \A g \in Above[Real[o.folder]] : g \notin Vendor /\ g # AtlasHome
           /\ Roots = {} \/ Above[Real[o.folder]] \cap Roots # {}
           /\ Owner(Without(projects, missed), o.folder) = NoWorkspace
<1>1. PICK h \in Hooks : ContextOnboards(h)
      <2> USE DEF registry, memory, client, hookVars
      <2>1. ASSUME NEW h \in Hooks, Client(h) PROVE onboarded' = onboarded
            BY <2>1 DEF Client, GivesUp, HearsOk, HearsRejection, ClientOnly
      <2>2. ASSUME NEW h \in Hooks, Endpoint(h) PROVE ContextOnboards(h) \/ onboarded' = onboarded
            BY <2>2 DEF Endpoint, Rejects, ContextAnswers, VerbatimAnswers
      <2>3. ASSUME NEW row \in Rows,
                   AddProject(row) \/ RemoveProject(row) \/ ToolIndexes(row) \/ CliRegisters(row) \/ CliGoesOn(row)
            PROVE  onboarded' = onboarded
            BY <2>3 DEF AddProject, RemoveProject, ToolIndexes, CliRegisters, CliGoesOn, Tool
      <2>4. ASSUME NEW w \in Slugs, DeleteWorkspace(w) PROVE onboarded' = onboarded
            BY <2>4 DEF DeleteWorkspace, Tool
      <2>5. ASSUME NEW s \in Sessions, NEW cwd \in Places, NEW use \in Uses, ToolCall(s, cwd, use)
            PROVE  onboarded' = onboarded
            BY <2>5 DEF ToolCall
      <2>6. CASE DaemonStarts \/ DaemonEnds \/ InstallGlobalWire \/ UninstallGlobalWire \/ UNCHANGED hookVars
            BY <2>6 DEF DaemonStarts, DaemonEnds, InstallGlobalWire, UninstallGlobalWire
      <2> QED BY <2>1, <2>2, <2>3, <2>4, <2>5, <2>6 DEF HooksNext
<1>2. PICK f \in Folders : /\ f = Cwd(h) /\ o = [workspace |-> Slug(f), folder |-> f]
      <2>1. Cwd(h) \in Folders
            BY <1>1, CallIs DEF ContextOnboards, Asked, Unborn
      <2>2. o = [workspace |-> Slug(Cwd(h)), folder |-> Cwd(h)]
            BY <1>1 DEF ContextOnboards
      <2> QED BY <2>1, <2>2
<1>3. /\ Slug(f) \notin announced /\ RealProject(Real[f])
      /\ Owner(Index, f) = NoWorkspace
      BY <1>1, <1>2 DEF ContextOnboards, Onboards, Seen, ClassifyProjectPath
<1>4. Owner(Without(projects, missed), f) = NoWorkspace
      BY <1>3, IndexIs DEF FoldersInv
<1>5. Real[Real[f]] = Real[f]
      BY HooksAssumption
<1>6. \A g \in Above[Real[f]] : g \notin Vendor /\ g # AtlasHome
      BY <1>3 DEF RealProject, InsideExcludedContainer
<1>7. Roots = {} \/ Above[Real[f]] \cap Roots # {}
      BY <1>3, <1>5 DEF RealProject, ScanPathAllowed
<1>8. \A p \in onboarded : p.workspace # Slug(f)
      BY <1>3 DEF FoldersInv
<1> QED BY <1>2, <1>4, <1>6, <1>7, <1>8

\* Whatever hooks, tools, commands in other processes and restarts come between.
THEOREM FoldersKeepInv == HooksSpec => []FoldersInv
<1>1. FoldersInv /\ HooksInv /\ [HooksNext]_hookVars => FoldersInv'
      BY RegistryStep, QueuedStep, AnnouncedStep DEF FoldersInv
<1> QED BY <1>1, FoldersStart, HooksKeepInv, PTL DEF HooksSpec

\* The index that the daemon keeps of the folders lags behind no change of its own; a
\* transcript that is told to be captured is queued; and what hooks onboard is new and
\* nobody's (pathWorkspaceResolver.ts:35-58, server.ts:501-520, backgroundOnboard.ts:40-47).
THEOREM FoldersAreKnown == HooksSpec => FoldersKnown
<1>1. HooksInv /\ FoldersInv => HooksTypeOK /\ IndexMissesOnlyOthers /\ CapturedIsQueued
      <2> SUFFICES ASSUME HooksInv, FoldersInv
                   PROVE  HooksTypeOK /\ IndexMissesOnlyOthers /\ CapturedIsQueued
          OBVIOUS
      <2>1. IndexMissesOnlyOthers /\ CapturedIsQueued
            BY IndexIs DEF FoldersInv, IndexMissesOnlyOthers
      <2>2. HooksTypeOK
            <3>1. Cardinality(cached) <= 1
                  <4>1. cached = {} \/ cached = {Without(projects, missed)}
                        BY DEF FoldersInv, RegistryInv
                  <4>2. Cardinality({}) = 0 /\ Cardinality({Without(projects, missed)}) = 1
                        BY FS_EmptySet, FS_Singleton
                  <4> QED BY <4>1, <4>2
            <3>2. projects \in Seq(Named) /\ IsInjective(projects)
                  BY DEF FoldersInv, RegistryInv, IsList, IsInjective
            <3>3. /\ toolCall \in Seq(CallRec) /\ writable \in BOOLEAN /\ daemon \in {"down", "ok"} \cup Rejections
                  /\ \A h \in Hooks : hook[h].client \in {"idle", "waits", "over"}
                  BY DEF HooksInv, HookTypes, HookRec
            <3> QED BY <3>1, <3>2, <3>3 DEF HooksTypeOK, FoldersInv, CallRec, Named, Rejections
      <2> QED BY <2>1, <2>2
<1>2. HooksInv /\ FoldersInv /\ [HooksNext]_hookVars
         => [\A o \in onboarded' \ onboarded :
                /\ \A p \in onboarded : p.workspace # o.workspace
                /\ \A g \in Above[Real[o.folder]] : g \notin Vendor /\ g # AtlasHome
                /\ Roots = {} \/ Above[Real[o.folder]] \cap Roots # {}
                /\ Owner(Without(projects, missed), o.folder) = NoWorkspace]_hookVars
      BY Strangers
<1>3. HooksSpec => OnlyStrangers
      BY <1>2, HooksKeepInv, FoldersKeepInv, PTL DEF HooksSpec, OnlyStrangers
<1> QED BY <1>1, <1>3, HooksKeepInv, FoldersKeepInv, PTL DEF FoldersKnown
=============================================================================

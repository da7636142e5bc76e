-------------------------- MODULE EmbeddedRegistry --------------------------
(***************************************************************************)
(* The daemon's registry of embedded stores, src/src/mcp/embeddedRegistry  *)
(* .ts: one long-lived instance per data directory, borrowed by tool calls *)
(* (refCounts), evicted when idle and over the cap, detached and drained   *)
(* when a workspace is deleted or renamed, all closed at shutdown.         *)
(*                                                                         *)
(* The registry is keyed by directory while closing, draining and failing  *)
(* are things that happen to instances; an action is what one callback     *)
(* does, and the opens, closes and users it started settle in any order.   *)
(* The eviction counters (dirLifecycle) feed a health report only.         *)
(***************************************************************************)
EXTENDS Integers, FiniteSets

CONSTANTS
    Dirs,       \* data directories
    Insts,      \* bound: instances alive at a time
    Users,      \* callers of borrowEmbeddedLore
    MaxOpen,    \* maxOpenDecision.maxOpen
    PinMax,     \* MAX_FLUSH_PINNED
    Threshold,  \* FAILURE_THRESHOLD
    Failing,    \* directories whose open may fail
    Closable,   \* directories workspace_delete or workspace_rename closes
    None        \* no directory, no instance

ASSUME RegistryAssumption ==
    /\ IsFiniteSet(Users) /\ IsFiniteSet(Insts)
    /\ MaxOpen \in Nat \ {0} /\ PinMax \in Nat /\ Threshold \in Nat \ {0}
    /\ Failing \subseteq Dirs /\ Closable \subseteq Dirs
    /\ None \notin Dirs /\ None \notin Insts

VARIABLES
    instances,      \* the Map: cached instances, ...
    older,          \* ... and its order: <<i, j>> if i was used less recently
    inst,           \* status and directory of each instance
    refCounts,      \* borrows of each directory
    user,           \* what each caller has borrowed
    detached,       \* instances closeEmbeddedLore waits to see drained
    failures,       \* consecutiveFailures, up to Threshold
    quarantined,    \* Date.now() < quarantinedUntil
    shutdown,       \* closeAllEmbedded: "no", "draining" or "closed"
    entries         \* the instances it found in the Map

map == <<instances, older>>
breaker == <<failures, quarantined>>
closeAll == <<shutdown, entries>>
vars == <<map, inst, refCounts, user, detached, breaker, closeAll>>

Gone == [st |-> "gone", dir |-> None]
NoUse == [inst |-> None, dir |-> None]

(* "doomed" is an instance to be closed as soon as it has opened.          *)
TypeOK ==
    /\ instances \subseteq Insts /\ older \subseteq Insts \X Insts
    /\ inst \in [Insts -> [st : {"opening", "open", "doomed", "closing",
                                 "failed", "gone"},
                           dir : Dirs \cup {None}]]
    /\ refCounts \in [Dirs -> Nat]
    /\ user \in [Users -> [inst : Insts \cup {None}, dir : Dirs \cup {None}]]
    /\ detached \subseteq Insts
    /\ failures \in [Dirs -> 0..Threshold]
    /\ quarantined \in [Dirs -> BOOLEAN]
    /\ shutdown \in {"no", "draining", "closed"} /\ entries \subseteq Insts

Init ==
    /\ instances = {} /\ older = {}
    /\ inst = [i \in Insts |-> Gone]
    /\ refCounts = [d \in Dirs |-> 0]
    /\ user = [u \in Users |-> NoUse]
    /\ detached = {}
    /\ failures = [d \in Dirs |-> 0]
    /\ quarantined = [d \in Dirs |-> FALSE]
    /\ shutdown = "no" /\ entries = {}
-----------------------------------------------------------------------------
(* instances.get(dir), as a set of at most one instance.                   *)
Cached(d) == {i \in instances : inst[i].dir = d}

Among(some) == {p \in older : {p[1], p[2]} \subseteq some}

(* instances.delete of all but some, and instances.set at the recent end.  *)
Retain(some) == instances' = some /\ older' = Among(some)
SetLast(some, i) ==
    /\ instances' = some \cup {i}
    /\ older' = Among(some \ {i}) \cup ((some \ {i}) \X {i})

(* instances.set of a directory that has an entry: in the place of that.   *)
SetInPlace(j, i) ==
    LET now(k) == IF k = j THEN i ELSE k
    IN  /\ instances' = {now(k) : k \in instances}
        /\ older' = {<<now(p[1]), now(p[2])>> : p \in older}

(* An unused name for the next instance.                                   *)
Free == {i \in Insts : /\ inst[i].st = "gone"
                       /\ \A u \in Users : user[u].inst # i}

(* refCounts: a missing count is 0, and release() never goes below.        *)
Decrement(refs, d) == [refs EXCEPT ![d] = IF @ > 0 THEN @ - 1 ELSE 0]
Increment(refs, d) == [refs EXCEPT ![d] = @ + 1]

(* Mutant: a refused borrow keeps its count. *)
CountAfterRefusalLeaks(d) == Increment(refCounts, d)

(* borrowEmbeddedLore counts before it opens, and uncounts in its catch.   *)
CountAfterRefusal(d) == Decrement(Increment(refCounts, d), d)

(* Mutant: an instance in use may be evicted. *)
BusyIfAwaited(i, refs) == inst[i].st = "opening"

Busy(i, refs) == refs[inst[i].dir] > 0

Idle(refs) == {i \in instances : ~Busy(i, refs)}

(* How many instances the map is over the cap, with one that is new.       *)
Surplus == IF Cardinality(instances) < MaxOpen THEN 0
           ELSE Cardinality(instances) + 1 - MaxOpen

(* evictIdleOverCap: out are the oldest of the idle ones, as many as are   *)
(* over the cap or all there are; but those with pending verbatim entries  *)
(* stay, PinMax of them at most.  Which ones have, is the queue's affair.  *)
Evicts(refs, pinned, out) ==
    LET evictable == Idle(refs) \ pinned
    IN  /\ Cardinality(pinned) <= PinMax
        /\ out \subseteq evictable
        /\ out \X (evictable \ out) \subseteq older
        /\ IF Cardinality(evictable) <= Surplus THEN out = evictable
           ELSE Cardinality(out) = Surplus

(* p.then(l => l.close()) for each of some instances.                      *)
CloseThem(all, closing) ==
    [i \in Insts |->
        IF i \notin closing THEN all[i]
        ELSE CASE all[i].st = "opening" -> [all[i] EXCEPT !.st = "doomed"]
               [] all[i].st = "open"    -> [all[i] EXCEPT !.st = "closing"]
               [] all[i].st = "failed"  -> Gone
               [] OTHER -> all[i]]
-----------------------------------------------------------------------------
(* borrowEmbeddedLore of a directory in the map: it moves to the recent    *)
(* end, and the caller awaits the cached open.                             *)
BorrowCached(u, d) ==
    /\ user[u] = NoUse
    /\ \E i \in Cached(d) :
          /\ inst[i].st # "failed"
          /\ SetLast(instances, i)
          /\ user' = [user EXCEPT ![u] = [inst |-> i, dir |-> d]]
    /\ refCounts' = Increment(refCounts, d)
    /\ UNCHANGED <<inst, detached, breaker, closeAll>>

(* The directory is quarantined and not in the map, or the map holds an    *)
(* open that has already failed: the caller gets an error.                 *)
BorrowRefused(u, d) ==
    /\ user[u] = NoUse
    /\ \/ Cached(d) = {} /\ quarantined[d] /\ UNCHANGED map
       \/ \E i \in Cached(d) : inst[i].st = "failed" /\ SetLast(instances, i)
    /\ refCounts' = CountAfterRefusal(d)
    /\ UNCHANGED <<inst, user, detached, breaker, closeAll>>

(* Not in the map: open a new instance, cache it, evict over the cap.      *)
BorrowOpens(u, d) ==
    /\ user[u] = NoUse
    /\ Cached(d) = {}
    /\ ~quarantined[d]
    /\ refCounts' = Increment(refCounts, d)
    /\ \E i \in Free, pinned \in SUBSET Idle(refCounts'),
          out \in SUBSET Idle(refCounts') :
          /\ Evicts(refCounts', pinned, out)
          /\ SetLast(instances \ out, i)
          /\ inst' = [CloseThem(inst, out)
                         EXCEPT ![i] = [st |-> "opening", dir |-> d]]
          /\ user' = [user EXCEPT ![u] = [inst |-> i, dir |-> d]]
    /\ UNCHANGED <<detached, breaker, closeAll>>

(* EmbeddedLore.open resolves: recordOpenSuccess.                          *)
OpenSucceeds(i) ==
    /\ inst[i].st \in {"opening", "doomed"}
    /\ inst' = [inst EXCEPT ![i].st = IF @ = "doomed" THEN "closing" ELSE "open"]
    /\ failures' = [failures EXCEPT ![inst[i].dir] = 0]
    /\ quarantined' = [quarantined EXCEPT ![inst[i].dir] = FALSE]
    /\ UNCHANGED <<map, refCounts, user, detached, closeAll>>

(* EmbeddedLore.open rejects: the directory's entry and count go, whosever *)
(* they are, the failure is recorded, and every caller that awaited this   *)
(* open releases and throws.                                               *)
OpenFails(i) ==
    LET d == inst[i].dir
    IN  /\ inst[i].st \in {"opening", "doomed"}
        /\ d \in Failing
        /\ Retain(instances \ Cached(d))
        /\ refCounts' = [refCounts EXCEPT ![d] = 0]
        /\ failures' = [failures EXCEPT ![d] = IF @ = Threshold THEN @ ELSE @ + 1]
        /\ quarantined' = [quarantined EXCEPT ![d] = failures'[d] = Threshold]
        /\ user' = [u \in Users |-> IF user[u].inst = i THEN NoUse ELSE user[u]]
        /\ inst' = [inst EXCEPT ![i] =
                       IF i \in detached THEN [@ EXCEPT !.st = "failed"] ELSE Gone]
        /\ entries' = entries \ {i}
        /\ UNCHANGED <<detached, shutdown>>

(* COOLDOWN_MS go by.                                                      *)
CooldownElapses(d) ==
    /\ quarantined[d]
    /\ quarantined' = [quarantined EXCEPT ![d] = FALSE]
    /\ UNCHANGED <<map, inst, refCounts, user, detached, failures, closeAll>>

(* The caller is done with the instance, in whatever state that is.        *)
Release(u) ==
    /\ user[u] # NoUse
    /\ inst[user[u].inst].st \notin {"opening", "doomed"}
    /\ user' = [user EXCEPT ![u] = NoUse]
    /\ refCounts' = Decrement(refCounts, user[u].dir)
    /\ UNCHANGED <<map, inst, detached, breaker, closeAll>>

(* closeEmbeddedLore: detach the entry, so that no one attaches to it, and *)
(* close it at once if the directory has no borrow.                        *)
Detach(d) ==
    /\ d \in Closable
    /\ Cached(d) # {}
    /\ Retain(instances \ Cached(d))
    /\ \/ /\ refCounts[d] > 0
          /\ detached' = detached \cup Cached(d)
          /\ UNCHANGED inst
       \/ /\ refCounts[d] = 0
          /\ inst' = CloseThem(inst, Cached(d))
          /\ UNCHANGED detached
    /\ UNCHANGED <<refCounts, user, breaker, closeAll>>

(* A poll of closeEmbeddedLore finds no borrow of the directory left.      *)
Drained(i) ==
    /\ i \in detached
    /\ refCounts[inst[i].dir] = 0
    /\ detached' = detached \ {i}
    /\ inst' = CloseThem(inst, {i})
    /\ UNCHANGED <<map, refCounts, user, breaker, closeAll>>

(* The drain window is over: instances.set(dir, p), in the place of the    *)
(* entry of that directory if there is one by now.                         *)
DrainTimesOut(i) ==
    LET d == inst[i].dir
    IN  /\ i \in detached
        /\ refCounts[d] > 0
        /\ \/ Cached(d) = {} /\ SetLast(instances, i)
           \/ \E j \in Cached(d) : SetInPlace(j, i)
        /\ detached' = detached \ {i}
        /\ UNCHANGED <<inst, refCounts, user, breaker, closeAll>>

(* An instance's native handles are disposed of.                           *)
CloseEnds(i) ==
    /\ inst[i].st = "closing"
    /\ inst' = [inst EXCEPT ![i] = Gone]
    /\ entries' = entries \ {i}
    /\ UNCHANGED <<map, refCounts, user, detached, breaker, shutdown>>

CloseEntries(closing) ==
    /\ shutdown' = "closed"
    /\ refCounts' = [d \in Dirs |-> 0]
    /\ inst' = CloseThem(inst, closing)

(* closeAllEmbedded, at shutdown: the map is emptied and, once its entries *)
(* are drained or the window is over, they are closed and the process      *)
(* ends.                                                                   *)
CloseAllBegins ==
    /\ shutdown = "no"
    /\ Retain({})
    /\ entries' = instances
    /\ IF \E i \in instances : refCounts[inst[i].dir] > 0
       THEN shutdown' = "draining" /\ UNCHANGED <<inst, refCounts>>
       ELSE CloseEntries(instances)
    /\ UNCHANGED <<user, detached, breaker>>

CloseAllEnds ==
    /\ shutdown = "draining"
    /\ CloseEntries(entries)
    /\ UNCHANGED <<map, user, detached, breaker, entries>>

Next ==
    /\ shutdown # "closed"
    /\ \/ \E u \in Users, d \in Dirs :
             BorrowCached(u, d) \/ BorrowRefused(u, d) \/ BorrowOpens(u, d)
       \/ \E u \in Users : Release(u)
       \/ \E i \in Insts : \/ OpenSucceeds(i) \/ OpenFails(i) \/ CloseEnds(i)
                           \/ Drained(i) \/ DrainTimesOut(i)
       \/ \E d \in Dirs : CooldownElapses(d) \/ Detach(d)
       \/ CloseAllBegins \/ CloseAllEnds

Spec == Init /\ [][Next]_vars
-----------------------------------------------------------------------------
(* An open that fails takes the count of its directory with it, whosever   *)
(* borrows that counted: what is claimed of the counts is claimed for the  *)
(* directories whose opens do not fail while they are deleted or renamed.  *)
Sound == Dirs \ (Failing \cap Closable)

(* "LRU eviction must NEVER close an instance with a live user", and a     *)
(* drained close waits for the borrows: until the daemon shuts down, what  *)
(* a caller has borrowed is neither closed nor about to be.                *)
NeverClosedInUse ==
    shutdown = "no" =>
        \A u \in Users : user[u].dir \in Sound =>
            inst[user[u].inst].st \in {"opening", "open"}

Borrowers(us, d) == {u \in Users : us[u].dir = d}

(* The count of a directory is the number of its borrows: a leaked one     *)
(* would pin a phantom directory, a lost one lets a busy store be closed.  *)
CountsExact ==
    shutdown = "no" =>
        \A d \in Sound :
            refCounts[d] = Cardinality(Borrowers(user, d))

(* Concurrent callers share one instance: a directory that nobody deletes  *)
(* or renames never has two that are open or opening.                      *)
OneLiveInstance ==
    shutdown = "no" =>
        \A i, j \in Insts :
            /\ i # j /\ inst[i].dir = inst[j].dir
            /\ inst[i].dir \notin Closable
            => ~({inst[i].st, inst[j].st} \subseteq {"opening", "open"})

(* Busy and pinned instances are all the cap is passed by, however many    *)
(* directories are used: the pin "cannot defeat MAX_OPEN".  The instance   *)
(* of a delete that timed out comes back on top of that.                   *)
RegistryBounded ==
    LET n == Cardinality({i \in instances : inst[i].dir \notin Closable})
    IN  n <= MaxOpen \/ n <= Cardinality(Users) + PinMax

(* One entry for each directory, and what is cached or being drained is    *)
(* not closed; a close of all owns what it found.                          *)
MapConsistent ==
    /\ \A i, j \in instances : inst[i].dir = inst[j].dir => i = j
    /\ instances \cap detached = {}
    /\ \A i \in instances \cup detached :
          inst[i].st \in {"opening", "open", "failed"}
    /\ \A i \in detached : inst[i].dir \in Closable
    /\ \A i \in Insts : inst[i].st = "gone" <=> inst[i].dir = None
    /\ shutdown = "draining" =>
          /\ entries \cap (instances \cup detached) = {}
          /\ \A i \in entries : inst[i].st # "gone"

(* A caller's instance is of the directory it asked for, or closed; no     *)
(* directory counts more borrows than it has.                              *)
UsersConsistent ==
    /\ \A u \in Users :
          user[u] # NoUse =>
             /\ user[u].inst \in Insts /\ user[u].dir \in Dirs
             /\ inst[user[u].inst].dir \in {user[u].dir, None}
    /\ \A d \in Dirs :
          refCounts[d] <= Cardinality(Borrowers(user, d))

(* What opens is awaited and so never evicted, and what is open is in the  *)
(* map, unless it was deleted or renamed.                                  *)
OpensAwaited ==
    shutdown = "no" =>
        \A i \in Insts :
            /\ inst[i].dir \in Sound =>
                  /\ inst[i].st # "doomed"
                  /\ inst[i].st = "opening" => \E u \in Users : user[u].inst = i
            /\ inst[i].dir \in Dirs \ Closable /\ inst[i].st \in {"opening", "open"}
                  => i \in instances

(* The registry as a whole: typed, with exact counts, one live instance    *)
(* for each directory, and no more of them than the users and pins need.   *)
RegistryOK ==
    /\ TypeOK /\ CountsExact /\ OneLiveInstance /\ RegistryBounded
    /\ MapConsistent /\ UsersConsistent /\ OpensAwaited
=============================================================================

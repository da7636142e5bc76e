-------------------------- MODULE WriterLockProofs --------------------------
(***************************************************************************)
(* For any number of processes: while no steal has removed another file    *)
(* than the one whose holder it found dead, the lock file belongs to the   *)
(* process that counts on it, so two processes never hold the lock.        *)
(***************************************************************************)
EXTENDS WriterLock, TLAPS

USE DEF Owning

(* Every step keeps the variables in their types. *)
LEMMA TypeStep == TypeOK /\ [Next]_vars => TypeOK'
<1> SUFFICES ASSUME TypeOK, [Next]_vars PROVE TypeOK'
  OBVIOUS
<1> USE DEF TypeOK, Files, NoFile, Goto
<1>1. CASE FileAges
  BY <1>1 DEF FileAges
<1>2. ASSUME NEW p \in Procs, Acquire(p) PROVE TypeOK'
  BY <1>2 DEF Acquire
<1>3. ASSUME NEW p \in Procs, Create(p) PROVE TypeOK'
  BY <1>3 DEF Create
<1>4. ASSUME NEW p \in Procs, CreateFails(p) PROVE TypeOK'
  BY <1>4 DEF CreateFails
<1>5. ASSUME NEW p \in Procs, WritePayload(p) PROVE TypeOK'
  BY <1>5 DEF WritePayload
<1>6. ASSUME NEW p \in Procs, ReadHeld(p) PROVE TypeOK'
  BY <1>6 DEF ReadHeld
<1>7. ASSUME NEW p \in Procs, StatAge(p) PROVE TypeOK'
  BY <1>7 DEF StatAge
<1>8. ASSUME NEW p \in Procs, Remove(p) PROVE TypeOK'
  BY <1>8 DEF Remove
<1>9. ASSUME NEW p \in Procs, GiveUp(p) PROVE TypeOK'
  BY <1>9 DEF GiveUp
<1>10. ASSUME NEW p \in Procs, Release(p) PROVE TypeOK'
  BY <1>10 DEF Release
<1>11. ASSUME NEW p \in Procs, CheckOurs(p) PROVE TypeOK'
  BY <1>11 DEF CheckOurs
<1>12. ASSUME NEW p \in Procs, Unlink(p) PROVE TypeOK'
  BY <1>12 DEF Unlink
<1>13. ASSUME NEW p \in Procs, Die(p) PROVE TypeOK'
  <2>1. file' \in Files
    BY <1>13 DEF Die
  <2>2. pc' \in [Procs -> {"idle", "create", "read", "stat", "remove", "lost",
                          "dead"} \cup Owning]
    BY <1>13 DEF Die
  <2> QED
    BY <1>13, <2>1, <2>2 DEF Die
<1>14. ASSUME NEW p \in Procs, Start(p) PROVE TypeOK'
  BY <1>14 DEF Start
<1>15. CASE UNCHANGED vars
  BY <1>15 DEF vars
<1> QED
  BY <1>1, <1>2, <1>3, <1>4, <1>5, <1>6, <1>7, <1>8, <1>9, <1>10, <1>11,
     <1>12, <1>13, <1>14, <1>15 DEF Next, Step

(* The initial state is typed. *)
LEMMA InitType == Init => TypeOK
<1> SUFFICES ASSUME Init PROVE TypeOK
  OBVIOUS
<1>1. file \in Files
  BY DEF Init, Files, NoFile
<1>2. pc \in [Procs -> {"idle", "create", "read", "stat", "remove", "lost",
                       "dead"} \cup Owning]
  BY DEF Init
<1>3. attempt \in [Procs -> 1..2]
  BY DEF Init
<1>4. judged \in [Procs -> Nat] /\ mine \in [Procs -> Nat]
  BY DEF Init
<1>5. made \in Nat /\ deaths \in Nat /\ raced \in BOOLEAN
  BY DEF Init
<1> QED
  BY <1>1, <1>2, <1>3, <1>4, <1>5 DEF TypeOK

(* Every variable keeps its type. *)
THEOREM TypeCorrect == Spec => []TypeOK
  BY InitType, TypeStep, PTL DEF Spec


(* File ids are handed out in order, and id 0 stays the absent file. *)
LEMMA NumberedStep == TypeOK /\ Numbered /\ [Next]_vars => Numbered'
<1> SUFFICES ASSUME TypeOK, Numbered, [Next]_vars PROVE Numbered'
  OBVIOUS
<1> USE DEF TypeOK, Files, NoFile, Goto, Numbered
<1>1. CASE FileAges
  BY <1>1 DEF FileAges
<1>2. ASSUME NEW p \in Procs, Acquire(p) PROVE Numbered'
  BY <1>2 DEF Acquire
<1>3. ASSUME NEW p \in Procs, Create(p) PROVE Numbered'
  BY <1>3 DEF Create
<1>4. ASSUME NEW p \in Procs, CreateFails(p) PROVE Numbered'
  BY <1>4 DEF CreateFails
<1>5. ASSUME NEW p \in Procs, WritePayload(p) PROVE Numbered'
  BY <1>5 DEF WritePayload
<1>6. ASSUME NEW p \in Procs, ReadHeld(p) PROVE Numbered'
  BY <1>6 DEF ReadHeld
<1>7. ASSUME NEW p \in Procs, StatAge(p) PROVE Numbered'
  BY <1>7 DEF StatAge
<1>8. ASSUME NEW p \in Procs, Remove(p) PROVE Numbered'
  BY <1>8 DEF Remove
<1>9. ASSUME NEW p \in Procs, GiveUp(p) PROVE Numbered'
  BY <1>9 DEF GiveUp
<1>10. ASSUME NEW p \in Procs, Release(p) PROVE Numbered'
  BY <1>10 DEF Release
<1>11. ASSUME NEW p \in Procs, CheckOurs(p) PROVE Numbered'
  BY <1>11 DEF CheckOurs
<1>12. ASSUME NEW p \in Procs, Unlink(p) PROVE Numbered'
  BY <1>12 DEF Unlink
<1>13. ASSUME NEW p \in Procs, Die(p) PROVE Numbered'
  BY <1>13 DEF Die
<1>14. ASSUME NEW p \in Procs, Start(p) PROVE Numbered'
  BY <1>14 DEF Start
<1>15. CASE UNCHANGED vars
  BY <1>15 DEF vars
<1> QED
  BY <1>1, <1>2, <1>3, <1>4, <1>5, <1>6, <1>7, <1>8, <1>9, <1>10, <1>11, <1>12, <1>13, <1>14, <1>15
     DEF Next, Step

(* While no steal races: the file stays its owner's, and what is judged     *)
(* stale stays nobody's.                                                    *)
LEMMA SafeStep ==
  ASSUME TypeOK, Numbered, OwnersFile, JudgedStale, LockHasOwner, ~raced,
         [Next]_vars, ~raced'
  PROVE  OwnersFile' /\ JudgedStale' /\ LockHasOwner'
<1> USE DEF TypeOK, Files, NoFile, Goto
<1>1. CASE FileAges
  <2>1. OwnersFile'
    BY <1>1 DEF FileAges, OwnersFile
  <2>2. JudgedStale'
    BY <1>1 DEF FileAges, JudgedStale
  <2>3. LockHasOwner'
    BY <1>1 DEF FileAges, LockHasOwner
  <2> QED
    BY <2>1, <2>2, <2>3
<1>2. ASSUME NEW p \in Procs, Acquire(p)
      PROVE  OwnersFile' /\ JudgedStale' /\ LockHasOwner'
  <2>1. OwnersFile'
    BY <1>2 DEF Acquire, OwnersFile, Numbered, JudgedStale
  <2>2. JudgedStale'
    BY <1>2 DEF Acquire, JudgedStale, OwnersFile, Numbered
  <2>3. LockHasOwner'
    BY <1>2 DEF Acquire, LockHasOwner, OwnersFile, Numbered
  <2> QED
    BY <2>1, <2>2, <2>3
<1>3. ASSUME NEW p \in Procs, Create(p)
      PROVE  OwnersFile' /\ JudgedStale' /\ LockHasOwner'
  <2>1. OwnersFile'
    BY <1>3 DEF Create, OwnersFile, Numbered, JudgedStale
  <2>2. JudgedStale'
    BY <1>3 DEF Create, JudgedStale, OwnersFile, Numbered
  <2>3. LockHasOwner'
    BY <1>3 DEF Create, LockHasOwner, OwnersFile, Numbered
  <2> QED
    BY <2>1, <2>2, <2>3
<1>4. ASSUME NEW p \in Procs, CreateFails(p)
      PROVE  OwnersFile' /\ JudgedStale' /\ LockHasOwner'
  <2>1. OwnersFile'
    BY <1>4 DEF CreateFails, OwnersFile, Numbered, JudgedStale
  <2>2. JudgedStale'
    BY <1>4 DEF CreateFails, JudgedStale, OwnersFile, Numbered
  <2>3. LockHasOwner'
    BY <1>4 DEF CreateFails, LockHasOwner, OwnersFile, Numbered
  <2> QED
    BY <2>1, <2>2, <2>3
<1>5. ASSUME NEW p \in Procs, WritePayload(p)
      PROVE  OwnersFile' /\ JudgedStale' /\ LockHasOwner'
  <2>1. OwnersFile'
    BY <1>5 DEF WritePayload, OwnersFile, Numbered, JudgedStale
  <2>2. JudgedStale'
    BY <1>5 DEF WritePayload, JudgedStale, OwnersFile, Numbered
  <2>3. LockHasOwner'
    BY <1>5 DEF WritePayload, LockHasOwner, OwnersFile, Numbered
  <2> QED
    BY <2>1, <2>2, <2>3
<1>6. ASSUME NEW p \in Procs, ReadHeld(p)
      PROVE  OwnersFile' /\ JudgedStale' /\ LockHasOwner'
  <2>1. OwnersFile'
    BY <1>6 DEF ReadHeld, OwnersFile, Numbered, JudgedStale
  <2>2. JudgedStale'
    <3> SUFFICES ASSUME NEW q \in Procs, pc'[q] \in {"stat", "remove"},
                        file.id = judged'[q], file.id # 0,
                        ~(pc'[q] = "stat" /\ ~file.old)
                 PROVE  pc'[file.by] \notin Owning
      BY <1>6 DEF ReadHeld, JudgedStale
    <3>1. pc[file.by] \notin Owning
      <4>1. CASE q = p
        <5>1. ~file.written \/ pc[file.by] = "dead"
          BY <1>6, <4>1 DEF ReadHeld, Numbered
        <5>2. ~file.written => file.old
          BY <1>6, <4>1 DEF ReadHeld
        <5> QED
          BY <5>1, <5>2 DEF OwnersFile, Numbered
      <4>2. CASE q # p
        BY <1>6, <4>2 DEF ReadHeld, JudgedStale
      <4> QED
        BY <4>1, <4>2
    <3> QED
      BY <1>6, <3>1 DEF ReadHeld, Numbered
  <2>3. LockHasOwner'
    BY <1>6 DEF ReadHeld, LockHasOwner, OwnersFile, Numbered
  <2> QED
    BY <2>1, <2>2, <2>3
<1>7. ASSUME NEW p \in Procs, StatAge(p)
      PROVE  OwnersFile' /\ JudgedStale' /\ LockHasOwner'
  <2>1. OwnersFile'
    BY <1>7 DEF StatAge, OwnersFile, Numbered, JudgedStale
  <2>2. JudgedStale'
    BY <1>7 DEF StatAge, JudgedStale, OwnersFile, Numbered
  <2>3. LockHasOwner'
    BY <1>7 DEF StatAge, LockHasOwner, OwnersFile, Numbered
  <2> QED
    BY <2>1, <2>2, <2>3
<1>8. ASSUME NEW p \in Procs, Remove(p)
      PROVE  OwnersFile' /\ JudgedStale' /\ LockHasOwner'
  <2>1. OwnersFile'
    BY <1>8 DEF Remove, OwnersFile, Numbered, JudgedStale
  <2>2. JudgedStale'
    BY <1>8 DEF Remove, JudgedStale, OwnersFile, Numbered
  <2>3. LockHasOwner'
    BY <1>8 DEF Remove, LockHasOwner, OwnersFile, Numbered
  <2> QED
    BY <2>1, <2>2, <2>3
<1>9. ASSUME NEW p \in Procs, GiveUp(p)
      PROVE  OwnersFile' /\ JudgedStale' /\ LockHasOwner'
  <2>1. OwnersFile'
    BY <1>9 DEF GiveUp, OwnersFile, Numbered, JudgedStale
  <2>2. JudgedStale'
    BY <1>9 DEF GiveUp, JudgedStale, OwnersFile, Numbered
  <2>3. LockHasOwner'
    BY <1>9 DEF GiveUp, LockHasOwner, OwnersFile, Numbered
  <2> QED
    BY <2>1, <2>2, <2>3
<1>10. ASSUME NEW p \in Procs, Release(p)
      PROVE  OwnersFile' /\ JudgedStale' /\ LockHasOwner'
  <2>1. OwnersFile'
    BY <1>10 DEF Release, OwnersFile, Numbered, JudgedStale
  <2>2. JudgedStale'
    BY <1>10 DEF Release, JudgedStale, OwnersFile, Numbered
  <2>3. LockHasOwner'
    BY <1>10 DEF Release, LockHasOwner, OwnersFile, Numbered
  <2> QED
    BY <2>1, <2>2, <2>3
<1>11. ASSUME NEW p \in Procs, CheckOurs(p)
      PROVE  OwnersFile' /\ JudgedStale' /\ LockHasOwner'
  <2>1. OwnersFile'
    BY <1>11 DEF CheckOurs, OwnersFile, Numbered, JudgedStale
  <2>2. JudgedStale'
    BY <1>11 DEF CheckOurs, JudgedStale, OwnersFile, Numbered
  <2>3. LockHasOwner'
    BY <1>11 DEF CheckOurs, LockHasOwner, OwnersFile, Numbered
  <2> QED
    BY <2>1, <2>2, <2>3
<1>12. ASSUME NEW p \in Procs, Unlink(p)
      PROVE  OwnersFile' /\ JudgedStale' /\ LockHasOwner'
  <2>1. OwnersFile'
    BY <1>12 DEF Unlink, OwnersFile, Numbered, JudgedStale
  <2>2. JudgedStale'
    BY <1>12 DEF Unlink, JudgedStale, OwnersFile, Numbered
  <2>3. LockHasOwner'
    BY <1>12 DEF Unlink, LockHasOwner, OwnersFile, Numbered
  <2> QED
    BY <2>1, <2>2, <2>3
<1>13. ASSUME NEW p \in Procs, Die(p)
      PROVE  OwnersFile' /\ JudgedStale' /\ LockHasOwner'
  <2>1. OwnersFile'
    BY <1>13 DEF Die, OwnersFile, Numbered, JudgedStale
  <2>2. JudgedStale'
    BY <1>13 DEF Die, JudgedStale, OwnersFile, Numbered
  <2>3. LockHasOwner'
    BY <1>13 DEF Die, LockHasOwner, OwnersFile, Numbered
  <2> QED
    BY <2>1, <2>2, <2>3
<1>14. ASSUME NEW p \in Procs, Start(p)
      PROVE  OwnersFile' /\ JudgedStale' /\ LockHasOwner'
  <2>1. OwnersFile'
    BY <1>14 DEF Start, OwnersFile, Numbered, JudgedStale
  <2>2. JudgedStale'
    BY <1>14 DEF Start, JudgedStale, OwnersFile, Numbered
  <2>3. LockHasOwner'
    BY <1>14 DEF Start, LockHasOwner, OwnersFile, Numbered
  <2> QED
    BY <2>1, <2>2, <2>3
<1>15. CASE UNCHANGED vars
  BY <1>15 DEF vars, OwnersFile, JudgedStale, LockHasOwner
<1> QED
  BY <1>1, <1>2, <1>3, <1>4, <1>5, <1>6, <1>7, <1>8, <1>9, <1>10, <1>11, <1>12, <1>13, <1>14, <1>15
     DEF Next, Step

(* The inductive invariant holds of every reachable state. *)
THEOREM InductiveInvariant == Spec => []IInv
<1>1. Init => IInv
  <2> SUFFICES ASSUME Init PROVE IInv
    OBVIOUS
  <2>1. TypeOK
    BY InitType
  <2>2. Numbered
    BY DEF Init, Numbered, NoFile
  <2>3. OwnersFile /\ JudgedStale /\ LockHasOwner
    BY DEF Init, OwnersFile, JudgedStale, LockHasOwner, NoFile
  <2> QED
    BY <2>1, <2>2, <2>3 DEF IInv
<1>2. IInv /\ [Next]_vars => IInv'
  <2> SUFFICES ASSUME IInv, [Next]_vars PROVE IInv'
    OBVIOUS
  <2>1. TypeOK' /\ Numbered'
    BY TypeStep, NumberedStep DEF IInv
  <2>2. raced => raced'
    BY DEF IInv, TypeOK, Next, Step, vars, FileAges, Acquire, Create, CreateFails,
           WritePayload, ReadHeld, StatAge, Remove, GiveUp, Release, CheckOurs,
           Unlink, Die, Start
  <2>3. raced' \/ (OwnersFile' /\ JudgedStale' /\ LockHasOwner')
    BY <2>2, SafeStep DEF IInv
  <2> QED
    BY <2>1, <2>3 DEF IInv
<1> QED
  BY <1>1, <1>2, PTL DEF Spec

(* However many processes acquire, release, steal and die: two of them hold *)
(* the lock only after a steal removed another file than the one it read    *)
(* (acquireWorkspaceWriteLock, release).                                    *)
THEOREM Exclusion == Spec => []ExclusionUnlessRaced
<1>1. IInv => ExclusionUnlessRaced
  BY DEF IInv, ExclusionUnlessRaced, MutualExclusion, OwnersFile
<1> QED
  BY <1>1, InductiveInvariant, PTL

(* For any number of processes, calls, deaths and steals: the lock is kept  *)
(* as it should be (acquireWorkspaceWriteLock, release).                    *)
THEOREM LockIsKept == Spec => []LockKept
<1>1. IInv /\ ExclusionUnlessRaced => LockKept
  BY DEF LockKept
<1> QED
  BY <1>1, InductiveInvariant, Exclusion, PTL

(* A lock file that is there is held, or its holder died, or a steal raced. *)
THEOREM LockOwned == Spec => []LockHasOwner
<1>1. IInv => LockHasOwner
  BY DEF IInv, LockHasOwner
<1> QED
  BY <1>1, InductiveInvariant, PTL
=============================================================================

------------------------- MODULE VerbatimQueueProofs ------------------------
(***************************************************************************)
(* Proofs about the verbatim queue: its types, one pass at a time, the     *)
(* bound of the queue and the breaker; and for texts that are stored once, *)
(* that none of them is lost, to whatever failure or kill.                 *)
(***************************************************************************)
EXTENDS VerbatimQueue, FiniteSetTheorems, SequenceTheorems,
        WellFoundedInduction, TLAPS

-----------------------------------------------------------------------------
(* Natural numbers: the least of a set, and induction.                     *)
LEMMA Least ==
    ASSUME NEW T \in SUBSET Nat, T # {}
    PROVE  \E n \in T : \A m \in T : n <= m
<1>1. IsWellFoundedOn(OpToRel(<, Nat), Nat)
  BY NatLessThanWellFounded
<1>2. PICK n \in T : \A m \in T : <<m, n>> \notin OpToRel(<, Nat)
  BY <1>1, WFMin
<1>3. OpToRel(<, Nat) = {p \in Nat \X Nat : p[1] < p[2]}
  BY DEF OpToRel
<1>4. \A m \in T : ~(m < n)
  BY <1>2, <1>3
<1> QED
  BY <1>4

\* What holds of 0 and of a number after one it holds of holds up to any bound.
LEMMA UpTo ==
    ASSUME NEW n \in Nat, NEW S, 0 \in S, \A k \in 0 .. n - 1 : k \in S => k + 1 \in S
    PROVE  \A k \in 0 .. n : k \in S
<1> SUFFICES ASSUME (0 .. n) \ S # {} PROVE FALSE
  OBVIOUS
<1>1. (0 .. n) \ S \in SUBSET Nat
  OBVIOUS
<1>2. PICK k \in (0 .. n) \ S : \A m \in (0 .. n) \ S : k <= m
  BY <1>1, Least
<1>3. k # 0 /\ k - 1 \in 0 .. n - 1
  BY <1>2
<1>4. k - 1 \in S
  BY <1>2, <1>3
<1> QED
  BY <1>2, <1>3, <1>4

\* The least number of a set is one of it.
LEMMA MinIs ==
    ASSUME NEW T \in SUBSET Nat, T # {}
    PROVE  Min(T) \in T /\ \A m \in T : Min(T) <= m
BY Least DEF Min

\* So is the greatest of a set with a bound.
LEMMA MaxIs ==
    ASSUME NEW n \in Nat, NEW T \in SUBSET (1 .. n), T # {}
    PROVE  Max(T) \in T /\ \A m \in T : m <= Max(T)
<1> DEFINE D == {n - m : m \in T}
<1>1. D \in SUBSET Nat
  OBVIOUS
<1>1a. D # {}
  OBVIOUS
<1> HIDE DEF D
<1>2. PICK d \in D : \A c \in D : d <= c
  BY <1>1, <1>1a, Least
<1>3. PICK m \in T : d = n - m
  BY <1>2 DEF D
<1>4. \A k \in T : m >= k
  <2> SUFFICES ASSUME NEW k \in T PROVE m >= k
    OBVIOUS
  <2>1. n - k \in D
    BY DEF D
  <2>2. d <= n - k
    BY <1>2, <2>1
  <2> QED
    BY <1>3, <2>2
<1> QED
  BY <1>3, <1>4 DEF Max
-----------------------------------------------------------------------------
(* The queue as a sequence.                                                *)
\* A push joins the back; what was there may leave, and leaves if its id is the same.
LEMMA PushedIs ==
    ASSUME NEW q \in Seq(Entry), NEW e \in Entry
    PROVE  /\ Pushed(q, e) \in Seq(Entry)
           /\ Len(Pushed(q, e)) \in 1 .. Len(q) + 1
           /\ (\A i \in 1 .. Len(q) : q[i].id # e.id) => Pushed(q, e) = Append(q, e)
<1>1. CASE ~ \E i \in 1 .. Len(q) : q[i].id = e.id
  <2>1. Pushed(q, e) = Append(q, e)
    BY <1>1 DEF Pushed, RemoveFirstMatch
  <2> QED
    BY <2>1
<1>2. CASE \E i \in 1 .. Len(q) : q[i].id = e.id
  <2>1. PICK k : k = SelectInSeq(q, LAMBDA d : d.id = e.id)
    OBVIOUS
  <2>2. Pushed(q, e) = Append(SubSeq(q, 1, k - 1) \o SubSeq(q, k + 1, Len(q)), e)
    BY <1>2, <2>1 DEF Pushed, RemoveFirstMatch, RemoveAt
  <2>3. k = Min({i \in 1 .. Len(q) : q[i].id = e.id})
    BY <1>2, <2>1 DEF SelectInSeq
  <2>4. k \in 1 .. Len(q)
    BY <1>2, <2>3, MinIs
  <2>5. SubSeq(q, 1, k - 1) \in Seq(Entry) /\ SubSeq(q, k + 1, Len(q)) \in Seq(Entry)
    BY <2>4
  <2>6. Len(SubSeq(q, 1, k - 1)) = k - 1 /\ Len(SubSeq(q, k + 1, Len(q))) = Len(q) - k
    BY <2>4
  <2>7. \A a, b \in Seq(Entry) :
           Append(a \o b, e) \in Seq(Entry) /\ Len(Append(a \o b, e)) = Len(a) + Len(b) + 1
    OBVIOUS
  <2>8. Pushed(q, e) \in Seq(Entry) /\ Len(Pushed(q, e)) = (k - 1) + (Len(q) - k) + 1
    BY <2>2, <2>5, <2>6, <2>7
  <2> QED
    BY <1>2, <2>4, <2>8
<1> QED
  BY <1>1, <1>2

\* pushEntry leaves the queue within the cap, and drops nothing while the cap is not passed.
LEMMA PushEntryIs ==
    ASSUME NEW q \in Seq(Entry), NEW e \in Entry
    PROVE  /\ PushEntry(q, e) \in Seq(Entry)
           /\ Len(PushEntry(q, e)) <= Cap /\ Len(PushEntry(q, e)) <= Len(q) + 1
           /\ Len(Pushed(q, e)) <= Cap => PushEntry(q, e) = Pushed(q, e)
<1> DEFINE all == Pushed(q, e)
<1>1. all \in Seq(Entry) /\ Len(all) \in 1 .. Len(q) + 1
  BY PushedIs
<1>2. Cap \in Nat \ {0}
  BY QueueAssumption
<1> DEFINE from == 1 + (IF Len(all) > Cap THEN Len(all) - Cap ELSE 0)
<1>3. from \in 1 .. Len(all) /\ Len(all) - from + 1 <= Cap
  BY <1>1, <1>2
<1>4. PushEntry(q, e) = SubSeq(all, from, Len(all))
  BY DEF PushEntry
<1> HIDE DEF all
<1>5. Len(all) <= Cap => from = 1
  BY <1>1, <1>2
<1> HIDE DEF from
<1>6. SubSeq(all, from, Len(all)) \in Seq(Entry) /\ Len(SubSeq(all, from, Len(all))) = Len(all) - from + 1
  BY <1>1, <1>3
<1>7. from = 1 => SubSeq(all, from, Len(all)) = all
  BY <1>1
<1> QED
  BY <1>1, <1>2, <1>3, <1>4, <1>5, <1>6, <1>7 DEF all
-----------------------------------------------------------------------------
(* A claim takes the head of the queue once the entries that must not be   *)
(* attempted have rotated to the back.                                     *)
SharedState ==
    [queue : Seq(Entry), claimed : Int, streak : [Workspaces -> 0..Threshold],
     quarantined : [Workspaces -> BOOLEAN], slot : Flushers \cup {None}]

Distinct(q) == \A i, j \in DOMAIN q : q[i].id = q[j].id => i = j

Apart(q, b) == \A i \in DOMAIN q, j \in DOMAIN b : q[i].id # b[j].id

\* Rotating stops at an entry of the queue that may be attempted.
LEMMA RotatedIs ==
    ASSUME NEW p, NEW s, s.queue \in Seq(Entry), ~NothingProcessable(p, s)
    PROVE  \E i \in 1 .. Len(s.queue) :
              /\ ~Unprocessable(p, s, s.queue[i].ws)
              /\ Rotated(p, s) = SubSeq(s.queue, i, Len(s.queue)) \o SubSeq(s.queue, 1, i - 1)
<1> DEFINE Able == {k \in DOMAIN s.queue : ~Unprocessable(p, s, s.queue[k].ws)}
<1>1. DOMAIN s.queue = 1 .. Len(s.queue) /\ Len(s.queue) \in Nat
  OBVIOUS
<1>2. Able # {} /\ Able \in SUBSET Nat
  BY <1>1 DEF NothingProcessable
<1>3. PICK m \in Able : \A k \in Able : m <= k
  BY <1>2, Least
<1> DEFINE First(k) ==
        /\ ~Unprocessable(p, s, s.queue[k].ws)
        /\ \A j \in 1..(k - 1) : Unprocessable(p, s, s.queue[j].ws)
<1>4. m \in DOMAIN s.queue /\ First(m)
  BY <1>1, <1>3
<1>5. PICK i : i = CHOOSE k \in DOMAIN s.queue : First(k)
  OBVIOUS
<1>6. i \in DOMAIN s.queue /\ First(i)
  BY <1>4, <1>5
<1>7. Rotated(p, s) = SubSeq(s.queue, i, Len(s.queue)) \o SubSeq(s.queue, 1, i - 1)
  BY <1>5 DEF Rotated
<1> QED
  BY <1>1, <1>6, <1>7

\* Turned at i, a sequence has what it had.
LEMMA TurnedIs ==
    ASSUME NEW q \in Seq(Entry), NEW i \in 1 .. Len(q), NEW t,
           t = SubSeq(q, i, Len(q)) \o SubSeq(q, 1, i - 1)
    PROVE  /\ t \in Seq(Entry) /\ Len(t) = Len(q) /\ t[1] = q[i]
           /\ \A j \in 1 .. Len(q) :
                 t[j] = q[IF j <= Len(q) - i + 1 THEN j + i - 1 ELSE j - (Len(q) - i + 1)]
<1>0. SubSeq(q, i, Len(q)) \in Seq(Entry) /\ SubSeq(q, 1, i - 1) \in Seq(Entry)
  OBVIOUS
<1>1. PICK a \in Seq(Entry) : a = SubSeq(q, i, Len(q))
  BY <1>0
<1>2. PICK b \in Seq(Entry) : b = SubSeq(q, 1, i - 1)
  BY <1>0
<1>3. Len(a) = Len(q) - i + 1 /\ \A j \in 1 .. Len(a) : a[j] = q[j + i - 1]
  BY <1>1
<1>4. Len(b) = i - 1 /\ \A j \in 1 .. Len(b) : b[j] = q[j]
  BY <1>2
<1>5. t = a \o b
  BY <1>1, <1>2
<1>6. t \in Seq(Entry) /\ Len(t) = Len(a) + Len(b)
  BY <1>5, ConcatProperties
<1>7. \A j \in 1 .. Len(a) + Len(b) : t[j] = IF j <= Len(a) THEN a[j] ELSE b[j - Len(a)]
  <2>1. \A j \in 1 .. Len(a) + Len(b) :
            (a \o b)[j] = IF j <= Len(a) THEN a[j] ELSE b[j - Len(a)]
    BY ConcatProperties, Zenon
  <2> QED
    BY <1>5, <2>1, Zenon
<1>8. Len(t) = Len(q)
  BY <1>3, <1>4, <1>6
<1>9. \A j \in 1 .. Len(q) :
          t[j] = q[IF j <= Len(q) - i + 1 THEN j + i - 1 ELSE j - (Len(q) - i + 1)]
  BY <1>3, <1>4, <1>7
<1> QED
  BY <1>6, <1>8, <1>9

\* A batch has at least one entry, at most VERBATIM_BATCH, and all of one workspace.
LEMMA BatchSizeIs ==
    ASSUME NEW q \in Seq(Entry), q # <<>>
    PROVE  /\ BatchSize(q) \in 1 .. Len(q) /\ BatchSize(q) <= Batch
           /\ \A i \in 1 .. BatchSize(q) : q[i].ws = q[1].ws
<1>1. Len(q) \in Nat \ {0} /\ Batch \in Nat \ {0}
  BY QueueAssumption
<1>2. PICK n \in Nat \ {0} : n = Min({Batch, Len(q)})
  BY <1>1, MinIs
<1>3. n <= Batch /\ n <= Len(q)
  BY <1>1, <1>2, MinIs
<1> DEFINE All == {k \in 1 .. n : Fits(q, k)}
<1>4. 1 \in All
  BY <1>2 DEF Fits
<1>5. Max(All) \in All
  BY <1>2, <1>4, MaxIs
<1>6. BatchSize(q) = Max(All)
  BY <1>2 DEF BatchSize
<1>7. BatchSize(q) \in 1 .. n /\ Fits(q, BatchSize(q))
  BY <1>5, <1>6
<1> QED
  BY <1>1, <1>2, <1>3, <1>7 DEF Fits

\* b is claimed of the queue of s, and rest is left.
Dealt(p, s, b, rest) ==
    /\ b \in Seq(Entry) /\ rest \in Seq(Entry)
    /\ Len(b) \in 1 .. Batch /\ Len(b) + Len(rest) = Len(s.queue)
    /\ ~Unprocessable(p, s, Head(b).ws)
    /\ \A i \in DOMAIN b : b[i].ws = Head(b).ws
    /\ ToSet(s.queue) = ToSet(b) \cup ToSet(rest)
    /\ Distinct(s.queue) => Distinct(b) /\ Distinct(rest) /\ Apart(rest, b)

\* t is q in the order that from gives, for sequences of length L.
Reorders(q, t, L, from) ==
    /\ L \in Nat /\ DOMAIN q = 1 .. L /\ DOMAIN t = 1 .. L
    /\ from \in [1 .. L -> 1 .. L] /\ \A j \in 1 .. L : t[j] = q[from[j]]
    /\ \A k \in 1 .. L : \E j \in 1 .. L : from[j] = k
    /\ \A j, k \in 1 .. L : from[j] = from[k] => j = k

\* A sequence that is another one in a different order has what it has.
LEMMA ReorderedKeeps ==
    ASSUME NEW q, NEW t, NEW L, NEW from, Reorders(q, t, L, from)
    PROVE  ToSet(t) = ToSet(q) /\ (Distinct(q) => Distinct(t))
<1> USE DEF Reorders
<1>1. ASSUME NEW x \in ToSet(t) PROVE x \in ToSet(q)
  <2>1. PICK j \in 1 .. L : x = t[j]
    BY DEF ToSet
  <2>2. from[j] \in 1 .. L /\ x = q[from[j]]
    BY <2>1
  <2> QED
    BY <2>2 DEF ToSet
<1>2. ASSUME NEW x \in ToSet(q) PROVE x \in ToSet(t)
  <2>1. PICK k \in 1 .. L : x = q[k]
    BY DEF ToSet
  <2>2. PICK j \in 1 .. L : from[j] = k
    BY <2>1
  <2> QED
    BY <2>1, <2>2 DEF ToSet
<1>3. ASSUME Distinct(q), NEW j \in 1 .. L, NEW k \in 1 .. L, t[j].id = t[k].id
      PROVE  j = k
  <2>1. from[j] \in DOMAIN q /\ from[k] \in DOMAIN q /\ q[from[j]].id = q[from[k]].id
    BY <1>3
  <2>2. from[j] = from[k]
    BY <1>3, <2>1 DEF Distinct
  <2> QED
    BY <2>2
<1>4. Distinct(q) => Distinct(t)
  BY <1>3 DEF Distinct
<1> QED
  BY <1>1, <1>2, <1>4

\* The rotated queue has the entries of the queue, each where it came from.
LEMMA TurnedKeeps ==
    ASSUME NEW q \in Seq(Entry), NEW i \in 1 .. Len(q), NEW t,
           t = SubSeq(q, i, Len(q)) \o SubSeq(q, 1, i - 1)
    PROVE  ToSet(t) = ToSet(q) /\ (Distinct(q) => Distinct(t))
<1>1. /\ t \in Seq(Entry) /\ Len(t) = Len(q)
      /\ \A j \in 1 .. Len(q) :
            t[j] = q[IF j <= Len(q) - i + 1 THEN j + i - 1 ELSE j - (Len(q) - i + 1)]
  BY TurnedIs
<1>2. PICK L \in Nat : L = Len(q)
  BY LenProperties
<1>3. DOMAIN t = 1 .. L /\ DOMAIN q = 1 .. L /\ i \in 1 .. L
  BY <1>1, <1>2, LenProperties
<1>4. PICK from : from = [j \in 1 .. L |-> IF j <= L - i + 1 THEN j + i - 1 ELSE j - (L - i + 1)]
  OBVIOUS
<1>5. from \in [1 .. L -> 1 .. L]
  BY <1>3, <1>4
<1>6. \A j \in 1 .. L : t[j] = q[from[j]]
  BY <1>1, <1>2, <1>4
<1>7. ASSUME NEW k \in 1 .. L PROVE \E j \in 1 .. L : from[j] = k
  <2>1. CASE k >= i
    <3>1. k - i + 1 \in 1 .. L /\ from[k - i + 1] = k
      BY <1>3, <1>4, <2>1
    <3> QED
      BY <3>1
  <2>2. CASE k < i
    <3>1. k + (L - i + 1) \in 1 .. L /\ from[k + (L - i + 1)] = k
      BY <1>3, <1>4, <2>2
    <3> QED
      BY <3>1
  <2> QED
    BY <1>3, <2>1, <2>2
<1>8. \A j, k \in 1 .. L : from[j] = from[k] => j = k
  BY <1>3, <1>4
<1>9. Reorders(q, t, L, from)
  BY <1>2, <1>3, <1>5, <1>6, <1>7, <1>8 DEF Reorders
<1> QED
  BY <1>9, ReorderedKeeps

\* t is cut after its n-th entry.
CutAt(t, n, b, rest) ==
    /\ t \in Seq(Entry) /\ n \in 1 .. Len(t)
    /\ b = SubSeq(t, 1, n) /\ rest = SubSeq(t, n + 1, Len(t))

\* Cutting a batch off the head leaves the rest apart from it, and loses nothing.
LEMMA SplitIs ==
    ASSUME NEW t, NEW n, NEW b, NEW rest, CutAt(t, n, b, rest)
    PROVE  /\ b \in Seq(Entry) /\ Len(b) = n /\ \A j \in 1 .. n : b[j] = t[j]
           /\ rest \in Seq(Entry) /\ Len(rest) = Len(t) - n
           /\ \A j \in 1 .. Len(t) - n : rest[j] = t[j + n]
           /\ ToSet(t) = ToSet(b) \cup ToSet(rest)
           /\ Distinct(t) => Distinct(b) /\ Distinct(rest) /\ Apart(rest, b)
<1> USE DEF CutAt
<1>1. PICK L \in Nat : L = Len(t) /\ DOMAIN t = 1 .. L /\ n \in 1 .. L
  BY LenProperties
<1>2. b \in Seq(Entry) /\ Len(b) = n /\ \A j \in 1 .. n : b[j] = t[j]
  BY <1>1
<1>3. rest \in Seq(Entry) /\ Len(rest) = L - n /\ \A j \in 1 .. L - n : rest[j] = t[j + n]
  <2>1. n + 1 \in 1 .. L + 1
    BY <1>1
  <2>2. rest = SubSeq(t, n + 1, L)
    BY <1>1
  <2>3. rest \in Seq(Entry)
    BY <1>1, <2>1, <2>2
  <2>4. Len(rest) = L - n
    BY <1>1, <2>1, <2>2
  <2>5. \A j \in 1 .. L - n : rest[j] = t[j + n]
    BY <1>1, <2>1, <2>2
  <2> QED
    BY <2>3, <2>4, <2>5
<1>4. DOMAIN b = 1 .. n /\ DOMAIN rest = 1 .. L - n
  BY <1>2, <1>3, LenProperties
<1>5. ASSUME NEW x \in ToSet(t) PROVE x \in ToSet(b) \cup ToSet(rest)
  <2>1. PICK k \in 1 .. L : x = t[k]
    BY <1>1 DEF ToSet
  <2>2. CASE k <= n
    <3>1. k \in DOMAIN b /\ x = b[k]
      BY <1>1, <1>2, <1>4, <2>1, <2>2
    <3> QED
      BY <3>1 DEF ToSet
  <2>3. CASE k > n
    <3>1. k - n \in DOMAIN rest /\ x = rest[k - n]
      BY <1>1, <1>3, <1>4, <2>1, <2>3
    <3> QED
      BY <3>1 DEF ToSet
  <2> QED
    BY <1>1, <2>1, <2>2, <2>3
<1>6. ASSUME NEW x \in ToSet(b) \cup ToSet(rest) PROVE x \in ToSet(t)
  <2>1. CASE x \in ToSet(b)
    <3>1. PICK j \in 1 .. n : x = t[j]
      BY <1>2, <1>4, <2>1 DEF ToSet
    <3> QED
      BY <1>1, <3>1 DEF ToSet
  <2>2. CASE x \in ToSet(rest)
    <3>1. PICK j \in 1 .. L - n : x = t[j + n]
      BY <1>3, <1>4, <2>2 DEF ToSet
    <3>2. j + n \in 1 .. L
      BY <1>1
    <3> QED
      BY <1>1, <3>1, <3>2 DEF ToSet
  <2> QED
    BY <2>1, <2>2
<1>7. ASSUME Distinct(t) PROVE Distinct(b) /\ Distinct(rest) /\ Apart(rest, b)
  <2>0. \A j, k \in 1 .. L : t[j].id = t[k].id => j = k
    BY <1>1, <1>7 DEF Distinct
  <2>1. \A j, k \in 1 .. n : b[j].id = b[k].id => j = k
    BY <1>1, <1>2, <2>0
  <2>2. ASSUME NEW j \in 1 .. L - n, NEW k \in 1 .. L - n, rest[j].id = rest[k].id PROVE j = k
    <3>1. j + n \in 1 .. L /\ k + n \in 1 .. L
      BY <1>1
    <3>2. t[j + n].id = t[k + n].id
      BY <1>3, <2>2
    <3>3. j + n = k + n
      BY <2>0, <3>1, <3>2
    <3> QED
      BY <3>3
  <2>3. ASSUME NEW i \in 1 .. L - n, NEW j \in 1 .. n, rest[i].id = b[j].id PROVE FALSE
    <3>1. i + n \in 1 .. L /\ j \in 1 .. L /\ i + n # j
      BY <1>1
    <3>2. t[i + n].id = t[j].id
      BY <1>2, <1>3, <2>3
    <3> QED
      BY <2>0, <3>1, <3>2
  <2> QED
    BY <1>4, <2>1, <2>2, <2>3 DEF Distinct, Apart
<1>8. ToSet(t) = ToSet(b) \cup ToSet(rest)
  BY <1>5, <1>6
<1> QED
  BY <1>1, <1>2, <1>3, <1>7, <1>8

\* What Loop claims: n entries of the rotated queue.
ClaimOf(p, s, q, n, b, rest) ==
    /\ ~NothingProcessable(p, s)
    /\ q = Rotated(p, s) /\ n = BatchSize(q)
    /\ b = SubSeq(q, 1, n) /\ rest = SubSeq(q, n + 1, Len(q))

\* The claim of a pass: a batch of one workspace that may be attempted, and the rest.
LEMMA DealtIs ==
    ASSUME NEW p, NEW s \in SharedState, NEW q, NEW n, NEW b, NEW rest,
           ClaimOf(p, s, q, n, b, rest)
    PROVE  Dealt(p, s, b, rest) /\ n = Len(b)
<1>z. ~NothingProcessable(p, s) /\ q = Rotated(p, s) /\ n = BatchSize(q)
  BY DEF ClaimOf
<1>y. b = SubSeq(q, 1, n) /\ rest = SubSeq(q, n + 1, Len(q))
  BY DEF ClaimOf
<1>0. s.queue \in Seq(Entry)
  BY DEF SharedState
<1>1. PICK i \in 1 .. Len(s.queue) :
              /\ ~Unprocessable(p, s, s.queue[i].ws)
              /\ q = SubSeq(s.queue, i, Len(s.queue)) \o SubSeq(s.queue, 1, i - 1)
  BY <1>0, <1>z, RotatedIs
<1>a. PICK o \in Seq(Entry) : o = s.queue
  BY <1>0
<1>b. i \in 1 .. Len(o) /\ q = SubSeq(o, i, Len(o)) \o SubSeq(o, 1, i - 1)
  BY <1>1, <1>a
<1>2. q \in Seq(Entry) /\ Len(q) = Len(o) /\ q[1] = o[i]
  BY <1>b, TurnedIs
<1>3. ToSet(q) = ToSet(o) /\ (Distinct(o) => Distinct(q))
  BY <1>b, TurnedKeeps
<1>4. q # <<>>
  BY <1>0, <1>1, <1>2
<1>5. n \in 1 .. Len(q) /\ n <= Batch /\ \A k \in 1 .. n : q[k].ws = q[1].ws
  BY <1>2, <1>4, <1>z, BatchSizeIs
<1>6. /\ b \in Seq(Entry) /\ Len(b) = n /\ \A j \in 1 .. n : b[j] = q[j]
      /\ rest \in Seq(Entry) /\ Len(rest) = Len(q) - n
      /\ ToSet(q) = ToSet(b) \cup ToSet(rest)
      /\ Distinct(q) => Distinct(b) /\ Distinct(rest) /\ Apart(rest, b)
  <2>1. CutAt(q, n, b, rest)
    BY <1>2, <1>5, <1>y DEF CutAt
  <2> QED
    BY <2>1, SplitIs
<1>7. Batch \in Nat \ {0} /\ Len(q) \in Nat
  BY <1>2, QueueAssumption
<1>8. Head(b) = q[1] /\ DOMAIN b = 1 .. n
  BY <1>5, <1>6, <1>7
<1>9. Len(b) \in 1 .. Batch /\ Len(b) + Len(rest) = Len(s.queue)
  BY <1>2, <1>5, <1>6, <1>7, <1>a
<1>10. ~Unprocessable(p, s, Head(b).ws) /\ \A k \in DOMAIN b : b[k].ws = Head(b).ws
  BY <1>1, <1>2, <1>5, <1>6, <1>8, <1>a
<1>11. Dealt(p, s, b, rest)
  BY <1>3, <1>6, <1>9, <1>10, <1>a DEF Dealt
<1> QED
  BY <1>6, <1>11
-----------------------------------------------------------------------------
(* One callback of a pass: it awaits again, or the pass ends.              *)
Left(s, b, rest) == [s EXCEPT !.queue = rest, !.claimed = @ + Len(b)]

\* The loop ends the pass, or claims a batch and begins its attempt.
LEMMA LoopIs ==
    ASSUME NEW f, NEW p, NEW s \in SharedState, Loop(f, p, s)
    PROVE  \/ EndPass(f, p, s)
           \/ \E b, rest :
                 /\ Dealt(p, s, b, rest)
                 /\ Suspend(f, Attempt([p EXCEPT !.batch = b], Left(s, b, rest)),
                            Left(s, b, rest))
<1>1. CASE NothingProcessable(p, s)
  BY <1>1 DEF Loop
<1>2. CASE ~NothingProcessable(p, s) /\ ~EndPass(f, p, s)
  <2>1. PICK q : q = Rotated(p, s)
    OBVIOUS
  <2>2. PICK n : n = BatchSize(q)
    OBVIOUS
  <2>3. PICK b : b = SubSeq(q, 1, n)
    OBVIOUS
  <2>4. PICK rest : rest = SubSeq(q, n + 1, Len(q))
    OBVIOUS
  <2>5. Dealt(p, s, b, rest) /\ n = Len(b)
    <3>1. ClaimOf(p, s, q, n, b, rest)
      BY <1>2, <2>1, <2>2, <2>3, <2>4 DEF ClaimOf
    <3> QED
      BY <3>1, DealtIs
  <2>6. PICK t : t = Claim([s EXCEPT !.queue = q], n)
    OBVIOUS
  <2>7. t = Left(s, b, rest)
    BY <2>4, <2>5, <2>6 DEF Claim, Left, SharedState
  <2>8. PICK m : m = Attempt([p EXCEPT !.batch = b], t)
    OBVIOUS
  <2>9. Suspend(f, m, t)
    BY <1>2, <2>1, <2>2, <2>3, <2>6, <2>8 DEF Loop
  <2>10. Suspend(f, Attempt([p EXCEPT !.batch = b], Left(s, b, rest)), Left(s, b, rest))
    BY <2>7, <2>8, <2>9
  <2> QED
    BY <2>5, <2>10
<1> QED
  BY <1>1, <1>2

\* The memory of a pass that awaits: a batch of one workspace, part of it looked up.
Batchy(p) ==
    /\ p \in PassState
    /\ Len(p.batch) \in 1 .. Batch
    /\ \A i \in DOMAIN p.batch : p.batch[i].ws = Head(p.batch).ws

Mid(p) ==
    /\ Batchy(p)
    /\ p.pc # "none"
    /\ p.checked <= Len(Attempted(p))
    /\ p.pc = "check" => p.checked < Len(Attempted(p))
    /\ p.pc \in {"check", "store"} => p.held = BatchWorkspace(p)

PassHolds(p) == p = NoPass \/ Mid(p)

\* What an attempt that begins or opens leaves of the memory.
SameBatch(p, a) ==
    /\ a.batch = p.batch /\ a.probe = p.probe /\ a.skip = p.skip
    /\ a.removed = p.removed /\ a.fresh = p.fresh

Begun(a) ==
    \/ a.pc = "borrow"
    \/ a.pc = "check" /\ a.checked = 0 /\ a.rows = <<>>
    \/ a.pc = "store" /\ a.rows = Attempted(a)

\* An attempt is of the whole batch, or of its first entry when it is a probe.
LEMMA AttemptedIs ==
    ASSUME NEW p, Batchy(p)
    PROVE  /\ Head(p.batch) \in Entry /\ BatchWorkspace(p) \in Workspaces
           /\ Attempted(p) \in Seq(Entry)
           /\ Len(Attempted(p)) \in 1 .. Len(p.batch)
           /\ \A i \in 1 .. Len(Attempted(p)) :
                 Attempted(p)[i] = p.batch[i]
           /\ \A i \in 1 .. Len(Attempted(p)) : Attempted(p)[i] \in Entry
                    /\ Attempted(p)[i].ws = BatchWorkspace(p)
<1>0. p.batch \in Seq(Entry) /\ p.probe \in BOOLEAN
  BY DEF Batchy, PassState
<1>1. PICK q \in Seq(Entry) : q = p.batch
  BY <1>0
<1>2. Len(q) \in Nat \ {0} /\ Head(q) = q[1] /\ q[1] \in Entry
  BY <1>1, QueueAssumption DEF Batchy
<1>3. Head(q).ws \in Workspaces
  BY <1>2 DEF Entry
<1>a. \A i \in 1 .. Len(q) : q[i].ws = Head(q).ws /\ q[i] \in Entry
  BY <1>1, <1>2 DEF Batchy
<1>4. CASE p.probe
  <2>1. Attempted(p) = <<Head(q)>>
    BY <1>1, <1>4 DEF Attempted
  <2> QED
    BY <1>1, <1>2, <1>3, <2>1 DEF BatchWorkspace
<1>5. CASE ~p.probe
  <2>1. Attempted(p) = q
    BY <1>1, <1>5 DEF Attempted
  <2>2. \A i \in 1 .. Len(q) : q[i] \in Entry /\ q[i].ws = Head(q).ws
    BY <1>1, <1>a
  <2> QED
    BY <1>1, <1>2, <1>3, <2>1, <2>2 DEF BatchWorkspace
<1> QED
  BY <1>4, <1>5

\* Once the store is open an attempt begins with its lookups, or with the write.
LEMMA OpenedIs ==
    ASSUME NEW p, NEW s \in SharedState, Batchy(p)
    PROVE  Mid(Opened(p, s)) /\ SameBatch(p, Opened(p, s)) /\ Begun(Opened(p, s))
<1>1. PICK a : a = Opened(p, s)
  OBVIOUS
<1>2. /\ BatchWorkspace(p) \in Workspaces /\ Attempted(p) \in Seq(Entry)
      /\ Len(Attempted(p)) \in 1 .. Len(p.batch)
  BY AttemptedIs
<1>3. p \in PassState
  BY DEF Batchy
<1>a. <<>> \in Seq(Entry)
  OBVIOUS
<1>4. a \in PassState
  BY <1>1, <1>2, <1>3, <1>a DEF Opened, PassState
<1>5. /\ a.batch = p.batch /\ a.probe = p.probe /\ a.skip = p.skip
      /\ a.removed = p.removed /\ a.fresh = p.fresh
      /\ a.checked = 0 /\ a.held = BatchWorkspace(p)
      /\ a.pc = (IF s.streak[BatchWorkspace(p)] > 0 THEN "check" ELSE "store")
      /\ a.rows = (IF s.streak[BatchWorkspace(p)] > 0 THEN <<>> ELSE Attempted(p))
  BY <1>1, <1>3 DEF Opened, PassState
<1>6. Attempted(a) = Attempted(p) /\ BatchWorkspace(a) = BatchWorkspace(p)
  BY <1>5 DEF Attempted, BatchWorkspace
<1>7. Batchy(a)
  BY <1>4, <1>5 DEF Batchy
<1>8. Mid(a)
  BY <1>2, <1>5, <1>6, <1>7 DEF Mid
<1>9. SameBatch(p, a) /\ Begun(a)
  BY <1>5, <1>6 DEF SameBatch, Begun
<1> QED
  BY <1>1, <1>8, <1>9

\* An attempt begins at the borrow, or where the store is open already.
LEMMA AttemptIs ==
    ASSUME NEW p, NEW s \in SharedState, Batchy(p)
    PROVE  Mid(Attempt(p, s)) /\ SameBatch(p, Attempt(p, s)) /\ Begun(Attempt(p, s))
<1>1. CASE p.held = BatchWorkspace(p)
  BY <1>1, OpenedIs DEF Attempt
<1>2. CASE p.held # BatchWorkspace(p)
  <2>1. PICK a : a = [p EXCEPT !.pc = "borrow", !.held = None, !.rows = <<>>, !.checked = 0]
    OBVIOUS
  <2>2. Attempt(p, s) = a
    BY <1>2, <2>1 DEF Attempt
  <2>3. p \in PassState
    BY DEF Batchy
  <2>a. <<>> \in Seq(Entry)
    OBVIOUS
  <2>4. a \in PassState
    BY <2>1, <2>3, <2>a DEF PassState
  <2>5. a.batch = p.batch /\ a.probe = p.probe /\ a.skip = p.skip /\ a.checked = 0
        /\ a.removed = p.removed /\ a.fresh = p.fresh /\ a.pc = "borrow"
    BY <2>1, <2>3 DEF PassState
  <2>6. Batchy(a)
    BY <2>4, <2>5 DEF Batchy
  <2>7. Len(Attempted(a)) \in Nat
    BY <2>6, AttemptedIs
  <2>8. Mid(a)
    BY <2>5, <2>6, <2>7 DEF Mid
  <2> QED
    BY <2>2, <2>5, <2>8 DEF SameBatch, Begun
<1> QED
  BY <1>1, <1>2
-----------------------------------------------------------------------------
(* What a callback does to the shared state, step by step.                 *)
LEMMA LargerIs == ASSUME NEW a \in Int, NEW b \in Int PROVE Max({a, b}) \in Int
<1>1. \E x \in {a, b} : \A y \in {a, b} : x >= y
  OBVIOUS
<1> QED
  BY <1>1 DEF Max

\* The shared state as a step finds it is typed.
LEMMA NowIs == TypeOK => Now \in SharedState
BY DEF TypeOK, Now, SharedState

\* A failure counts against one workspace and moves no entry.
LEMMA StruckIs ==
    ASSUME NEW s \in SharedState, NEW ws \in Workspaces
    PROVE  /\ Struck(s, ws) \in SharedState
           /\ Struck(s, ws).queue = s.queue /\ Struck(s, ws).slot = s.slot
<1>1. s.streak[ws] \in 0 .. Threshold /\ Threshold \in Nat \ {0}
  BY QueueAssumption DEF SharedState
<1>2. PICK n : n = Min({s.streak[ws] + 1, Threshold})
  OBVIOUS
<1>3. n \in {s.streak[ws] + 1, Threshold} /\ \A m \in {s.streak[ws] + 1, Threshold} : n <= m
  BY <1>1, <1>2, MinIs
<1>4. n \in 0 .. Threshold /\ (n = Threshold) \in BOOLEAN
  BY <1>1, <1>3
<1>5. Struck(s, ws) = [s EXCEPT !.streak[ws] = n, !.quarantined[ws] = (n = Threshold)]
  BY <1>2 DEF Struck
<1>6. [s.streak EXCEPT ![ws] = n] \in [Workspaces -> 0 .. Threshold]
  BY <1>4 DEF SharedState
<1>7. [s.quarantined EXCEPT ![ws] = (n = Threshold)] \in [Workspaces -> BOOLEAN]
  BY <1>4 DEF SharedState
<1> QED
  BY <1>5, <1>6, <1>7 DEF SharedState

\* A success clears one workspace and moves no entry.
LEMMA ClearedIs ==
    ASSUME NEW s \in SharedState, NEW ws \in Workspaces
    PROVE  /\ Cleared(s, ws) \in SharedState
           /\ Cleared(s, ws).queue = s.queue /\ Cleared(s, ws).slot = s.slot
<1>1. 0 \in 0 .. Threshold
  BY QueueAssumption
<1>6. [s.streak EXCEPT ![ws] = 0] \in [Workspaces -> 0 .. Threshold]
  BY <1>1 DEF SharedState
<1>7. [s.quarantined EXCEPT ![ws] = FALSE] \in [Workspaces -> BOOLEAN]
  BY DEF SharedState
<1> QED
  BY <1>6, <1>7 DEF SharedState, Cleared

\* Putting entries back keeps the shared state typed.
LEMMA RequeueIs ==
    ASSUME NEW s \in SharedState, NEW q \in Seq(Entry)
    PROVE  /\ Requeue(s, q) \in SharedState
           /\ Requeue(s, q).queue = s.queue \o q /\ Requeue(s, q).slot = s.slot
           /\ Len(Requeue(s, q).queue) = Len(s.queue) + Len(q)
<1>1. s.queue \o q \in Seq(Entry) /\ Len(s.queue \o q) = Len(s.queue) + Len(q)
  BY ConcatProperties DEF SharedState
<1>2. s.claimed - Len(q) \in Int
  BY LenProperties DEF SharedState
<1> QED
  BY <1>1, <1>2 DEF SharedState, Requeue

\* So does claiming them.
LEMMA LeftIs ==
    ASSUME NEW p, NEW s \in SharedState, NEW b, NEW rest, Dealt(p, s, b, rest)
    PROVE  /\ Left(s, b, rest) \in SharedState
           /\ Left(s, b, rest).queue = rest /\ Left(s, b, rest).slot = s.slot
           /\ Left(s, b, rest).quarantined = s.quarantined
<1>1. s.claimed + Len(b) \in Int
  BY QueueAssumption DEF SharedState, Dealt
<1> QED
  BY <1>1 DEF SharedState, Left, Dealt

-----------------------------------------------------------------------------
(* The part of the state that passes share: typed, one pass at a time, the *)
(* queue and the batch within the cap and one batch.                       *)
SlotHolds ==
    /\ queue \in Seq(Entry) /\ journal \in Seq(Entry)
    /\ claimed \in Int
    /\ streak \in [Workspaces -> 0..Threshold]
    /\ quarantined \in [Workspaces -> BOOLEAN]
    /\ flushInFlight \in Flushers \cup {None}
    /\ call \in [Flushers -> {"idle", "waiting", "woken", "passing"}]
    /\ waitsFor \in [Flushers -> Flushers \cup {None}]
    /\ pass \in [Flushers -> PassState]
    /\ \A f \in Flushers : PassHolds(pass[f])
    /\ OneFlushAtATime
    /\ Len(queue) <= Cap + Batch
    /\ \A f \in Flushers : Len(queue) + Len(pass[f].batch) <= Cap + Batch

\* f may change them: nobody else has the slot.
MayPass(f) == f \in Flushers /\ flushInFlight \in {f, None}

\* The memory of no pass is typed and holds nothing.
LEMMA NoPassIs == NoPass \in PassState /\ Len(NoPass.batch) = 0 /\ NoPass.pc = "none"
<1>1. <<>> \in Seq(Entry)
  OBVIOUS
<1> QED
  BY <1>1 DEF NoPass, PassState

\* A pass that awaits again with its batch within the bound keeps the slot's part.
LEMMA SuspendKeeps ==
    ASSUME SlotHolds, NEW f, MayPass(f), NEW p, Mid(p), NEW s \in SharedState, s.slot = f,
           Len(s.queue) + Len(p.batch) <= Cap + Batch, Suspend(f, p, s)
    PROVE  SlotHolds'
<1> USE DEF MayPass
<1>1. /\ queue' = s.queue /\ claimed' = Max({s.claimed, -ClaimFloor})
      /\ streak' = s.streak /\ quarantined' = s.quarantined
      /\ pass' = [pass EXCEPT ![f] = p] /\ call' = [call EXCEPT ![f] = "passing"]
      /\ flushInFlight' = f /\ waitsFor' = waitsFor /\ journal' = journal
  BY DEF Suspend, BecomesShared
<1>2. /\ s.queue \in Seq(Entry) /\ s.claimed \in Int
      /\ s.streak \in [Workspaces -> 0..Threshold]
      /\ s.quarantined \in [Workspaces -> BOOLEAN]
  BY DEF SharedState
<1>3. p \in PassState /\ p.pc # "none"
  BY DEF Mid, Batchy
<1>4. claimed' \in Int
  <2>1. PICK c \in Int : c = s.claimed
    BY <1>2
  <2>2. PICK d \in Int : d = -ClaimFloor
    BY QueueAssumption
  <2>3. claimed' = Max({c, d})
    BY <1>1, <2>1, <2>2
  <2> QED
    BY <2>3, LargerIs
<1>5. pass' \in [Flushers -> PassState]
  BY <1>1, <1>3 DEF SlotHolds
<1>6. pass'[f] = p /\ \A g \in Flushers : g # f => pass'[g] = pass[g]
  BY <1>1 DEF SlotHolds
<1>7. \A g \in Flushers : PassHolds(pass'[g])
  <2>1. PassHolds(p)
    BY DEF PassHolds
  <2>2. \A g \in Flushers : PassHolds(pass[g])
    BY DEF SlotHolds
  <2> QED
    BY <1>6, <2>1, <2>2
<1>a. \A g \in Flushers : g # f => pass[g].pc = "none"
  BY QueueAssumption DEF SlotHolds, OneFlushAtATime
<1>b. \A g \in Flushers : g # f => pass[g] = NoPass
  BY <1>a DEF SlotHolds, PassHolds, Mid
<1>8. OneFlushAtATime'
  BY <1>1, <1>3, <1>6, <1>a DEF OneFlushAtATime
<1>9. Len(p.batch) \in Nat /\ Len(s.queue) \in Nat /\ Cap + Batch \in Nat
  BY <1>2, <1>3, LenProperties, QueueAssumption DEF PassState
<1>q. Len(queue') = Len(s.queue)
  BY <1>1
<1>10. Len(queue') <= Cap + Batch
  <2>1. Len(s.queue) <= Cap + Batch
    <3>1. PICK m \in Nat : m = Len(p.batch)
      BY <1>9
    <3>2. PICK n \in Nat : n = Len(s.queue)
      BY <1>9
    <3>3. PICK c \in Nat : c = Cap + Batch
      BY <1>9
    <3>4. n + m <= c
      BY <3>1, <3>2, <3>3
    <3>5. n <= c
      BY <3>4
    <3> QED
      BY <3>2, <3>3, <3>5
  <2> QED
    BY <1>q, <2>1
<1>11. \A g \in Flushers : Len(queue') + Len(pass'[g].batch) <= Cap + Batch
  <2>1. Len(queue') + Len(pass'[f].batch) <= Cap + Batch
    BY <1>6, <1>q
  <2>2. ASSUME NEW g \in Flushers, g # f
        PROVE  Len(queue') + Len(pass'[g].batch) <= Cap + Batch
    <3>1. Len(pass'[g].batch) = 0
      BY <1>6, <1>b, <2>2, NoPassIs
    <3> QED
      BY <1>9, <1>q, <1>10, <3>1
  <2> QED
    BY <2>1, <2>2
<1>12. call' \in [Flushers -> {"idle", "waiting", "woken", "passing"}]
  BY <1>1 DEF SlotHolds
<1> QED
  BY <1>1, <1>2, <1>4, <1>5, <1>7, <1>8, <1>10, <1>11, <1>12 DEF SlotHolds

\* So does the end of a pass, which frees the slot and wakes those that wait.
LEMMA EndKeeps ==
    ASSUME SlotHolds, NEW f, MayPass(f), NEW p, NEW s \in SharedState, s.slot = f,
           Len(s.queue) <= Cap + Batch, EndPass(f, p, s)
    PROVE  SlotHolds'
<1> USE DEF MayPass
<1>1. /\ queue' = s.queue /\ claimed' = Max({s.claimed, -ClaimFloor})
      /\ streak' = s.streak /\ quarantined' = s.quarantined
      /\ pass' = [pass EXCEPT ![f] = NoPass]
      /\ journal' = (IF p.removed THEN s.queue ELSE journal)
      /\ flushInFlight' = None
  BY DEF EndPass, BecomesShared
<1>2. /\ s.queue \in Seq(Entry) /\ s.claimed \in Int
      /\ s.streak \in [Workspaces -> 0..Threshold]
      /\ s.quarantined \in [Workspaces -> BOOLEAN]
  BY DEF SharedState
<1>3. journal' \in Seq(Entry)
  BY <1>1, <1>2 DEF SlotHolds
<1>4. claimed' \in Int
  <2>1. PICK c \in Int : c = s.claimed
    BY <1>2
  <2>2. PICK d \in Int : d = -ClaimFloor
    BY QueueAssumption
  <2>3. claimed' = Max({c, d})
    BY <1>1, <2>1, <2>2
  <2> QED
    BY <2>3, LargerIs
<1>5. pass' \in [Flushers -> PassState]
  BY <1>1, NoPassIs DEF SlotHolds
<1>a. \A g \in Flushers : g # f => pass[g].pc = "none"
  BY QueueAssumption DEF SlotHolds, OneFlushAtATime
<1>b. \A g \in Flushers : g # f => pass[g] = NoPass
  BY <1>a DEF SlotHolds, PassHolds, Mid
<1>6. \A g \in Flushers : pass'[g] = NoPass
  BY <1>1, <1>b DEF SlotHolds
<1>7. \A g \in Flushers : PassHolds(pass'[g])
  BY <1>6 DEF PassHolds
<1>8. OneFlushAtATime'
  BY <1>1, <1>6, NoPassIs, QueueAssumption DEF OneFlushAtATime
<1>9. Len(s.queue) \in Nat /\ Cap + Batch \in Nat
  BY <1>2, LenProperties, QueueAssumption
<1>q. Len(queue') = Len(s.queue)
  BY <1>1
<1>10. Len(queue') <= Cap + Batch
  BY <1>q
<1>11. \A g \in Flushers : Len(queue') + Len(pass'[g].batch) <= Cap + Batch
  <2>1. ASSUME NEW g \in Flushers
        PROVE  Len(queue') + Len(pass'[g].batch) <= Cap + Batch
    <3>1. Len(pass'[g].batch) = 0
      BY <1>6, NoPassIs
    <3> QED
      BY <1>9, <1>q, <1>10, <3>1
  <2> QED
    BY <2>1
<1>12. call' \in [Flushers -> {"idle", "waiting", "woken", "passing"}]
  <2>1. call' = [g \in Flushers |->
                   CASE g = f -> "idle"
                     [] waitsFor[g] = f -> "woken"
                     [] OTHER -> call[g]]
    BY DEF EndPass
  <2> QED
    BY <2>1 DEF SlotHolds
<1>13. waitsFor' \in [Flushers -> Flushers \cup {None}]
  BY DEF EndPass, SlotHolds
<1> QED
  BY <1>1, <1>2, <1>3, <1>4, <1>5, <1>7, <1>8, <1>10, <1>11, <1>12, <1>13 DEF SlotHolds

\* The loop goes on with q in the queue: the pass ends, or claims the next batch.
Ends(f, p, t, q) ==
    /\ EndPass(f, p, t)
    /\ t \in SharedState /\ t.slot = f /\ t.queue = q

Claims(f, m, t, q) ==
    /\ Suspend(f, m, t)
    /\ t \in SharedState /\ t.slot = f
    /\ Mid(m) /\ Begun(m) /\ ~m.probe
    /\ ~t.quarantined[Head(m.batch).ws] /\ Head(m.batch).ws \notin m.skip
    /\ Len(m.batch) + Len(t.queue) = Len(q)
    /\ ToSet(q) = ToSet(m.batch) \cup ToSet(t.queue)
    /\ Distinct(q) => Distinct(m.batch) /\ Distinct(t.queue) /\ Apart(t.queue, m.batch)

LoopsOn(f, q) == (\E p, t : Ends(f, p, t, q)) \/ (\E m, t : Claims(f, m, t, q))

\* The loop, entered with any memory of a pass that does not probe, ends or claims.
LEMMA LoopGoesOn ==
    ASSUME NEW f, NEW p \in PassState, ~p.probe, NEW s \in SharedState, s.slot = f,
           NEW q, q = s.queue, Loop(f, p, s)
    PROVE  LoopsOn(f, q)
<1>1. CASE EndPass(f, p, s)
  <2>1. Ends(f, p, s, q)
    BY <1>1 DEF Ends
  <2> QED
    BY <2>1 DEF LoopsOn
<1>2. ASSUME NEW b, NEW rest, Dealt(p, s, b, rest),
             Suspend(f, Attempt([p EXCEPT !.batch = b], Left(s, b, rest)), Left(s, b, rest))
      PROVE  LoopsOn(f, q)
  <2>1. PICK t : t = Left(s, b, rest)
    OBVIOUS
  <2>2. t \in SharedState /\ t.queue = rest /\ t.slot = f /\ t.quarantined = s.quarantined
    BY <1>2, <2>1, LeftIs
  <2>3. PICK c : c = [p EXCEPT !.batch = b]
    OBVIOUS
  <2>4. c.batch = b /\ c.probe = p.probe /\ c.skip = p.skip /\ c \in PassState
    BY <1>2, <2>3 DEF Dealt, PassState
  <2>5. Batchy(c)
    BY <1>2, <2>4 DEF Dealt, Batchy
  <2>6. PICK m : m = Attempt(c, t)
    OBVIOUS
  <2>7. Mid(m) /\ m.batch = b /\ Begun(m) /\ m.probe = p.probe /\ m.skip = p.skip
    BY <2>2, <2>4, <2>5, <2>6, AttemptIs DEF SameBatch
  <2>8. Suspend(f, m, t)
    BY <1>2, <2>1, <2>3, <2>6
  <2>9. Claims(f, m, t, q)
    BY <1>2, <2>2, <2>7, <2>8 DEF Claims, Dealt, Unprocessable
  <2> QED
    BY <2>9 DEF LoopsOn
<1> QED
  BY <1>1, <1>2, LoopIs

\* Either way the slot's part is kept.
LEMMA LoopsOnKeeps ==
    ASSUME SlotHolds, NEW f, MayPass(f), NEW q \in Seq(Entry), Len(q) <= Cap + Batch,
           LoopsOn(f, q)
    PROVE  SlotHolds'
<1>1. ASSUME NEW p, NEW t, Ends(f, p, t, q) PROVE SlotHolds'
  BY <1>1, EndKeeps DEF Ends
<1>2. ASSUME NEW m, NEW t, Claims(f, m, t, q) PROVE SlotHolds'
  <2>1. Mid(m) /\ t \in SharedState /\ t.slot = f /\ Suspend(f, m, t)
    BY <1>2 DEF Claims
  <2>2. m.batch \in Seq(Entry) /\ t.queue \in Seq(Entry)
    BY <2>1 DEF Mid, Batchy, PassState, SharedState
  <2>3. Len(t.queue) + Len(m.batch) <= Cap + Batch
    <3>1. Len(t.queue) \in Nat /\ Len(m.batch) \in Nat
      BY <2>2, LenProperties
    <3>2. Len(m.batch) + Len(t.queue) = Len(q)
      BY <1>2 DEF Claims
    <3>3. PICK x \in Nat, y \in Nat : x = Len(t.queue) /\ y = Len(m.batch)
      BY <3>1
    <3>4. y + x = x + y
      OBVIOUS
    <3> QED
      BY <3>2, <3>3, <3>4
  <2> QED
    BY <2>1, <2>3, SuspendKeeps
<1> QED
  BY <1>1, <1>2 DEF LoopsOn

\* A batch that is dealt with is forgotten, and the loop goes on.
LEMMA NextBatchIs ==
    ASSUME NEW f, NEW p \in PassState, NEW s \in SharedState, s.slot = f,
           NEW q, q = s.queue, NextBatch(f, p, s)
    PROVE  LoopsOn(f, q)
<1>1. PICK c : c = [p EXCEPT !.pc = "none", !.batch = <<>>, !.rows = <<>>,
                             !.probe = FALSE, !.checked = 0, !.fresh = FALSE]
  OBVIOUS
<1>2. <<>> \in Seq(Entry)
  OBVIOUS
<1>3. c \in PassState /\ ~c.probe
  BY <1>1, <1>2 DEF PassState
<1>4. Loop(f, c, s)
  BY <1>1 DEF NextBatch
<1> QED
  BY <1>3, <1>4, LoopGoesOn

\* The attempt is over: what the queue holds when the loop goes on.
Back(p, q) == IF p.probe THEN q \o Tail(p.batch) ELSE q

\* A failed batch is attempted again with its first entry alone.
Probes(f, p, m, s) ==
    /\ Suspend(f, m, s)
    /\ s \in SharedState /\ s.slot = f
    /\ Mid(m) /\ Begun(m) /\ m.probe /\ m.batch = p.batch

Throws(f, p, s, q) ==
    (\E m : Probes(f, p, m, s)) \/ LoopsOn(f, q \o p.batch)

\* A workspace that failed is remembered for the rest of the pass.
LEMMA SkippingIs ==
    ASSUME NEW p, Batchy(p), NEW c, c = [p EXCEPT !.skip = @ \cup {BatchWorkspace(p)}]
    PROVE  c \in PassState
<1>1. p \in PassState /\ BatchWorkspace(p) \in Workspaces
  BY AttemptedIs DEF Batchy
<1> QED
  BY <1>1 DEF PassState

\* An attempt that returned lets the loop go on, the rest of a probed batch put back.
LEMMA AttemptReturnedIs ==
    ASSUME NEW f, NEW p, Batchy(p), NEW s \in SharedState, s.slot = f,
           NEW q, q = Back(p, s.queue), AttemptReturned(f, p, s)
    PROVE  LoopsOn(f, q)
<1>1. p \in PassState /\ p.probe \in BOOLEAN
  BY DEF Batchy, PassState
<1>2. CASE ~p.probe
  <2>1. NextBatch(f, p, s)
    BY <1>2 DEF AttemptReturned
  <2>2. q = s.queue
    BY <1>2 DEF Back
  <2> QED
    BY <1>1, <2>1, <2>2, NextBatchIs
<1>3. CASE p.probe
  <2>1. PICK c : c = [p EXCEPT !.skip = @ \cup {BatchWorkspace(p)}]
    OBVIOUS
  <2>2. PICK t : t = Requeue(s, Tail(p.batch))
    OBVIOUS
  <2>3. Tail(p.batch) \in Seq(Entry)
    <3>1. p.batch \in Seq(Entry) /\ Len(p.batch) >= 1
      BY QueueAssumption DEF Batchy, PassState
    <3> QED
      BY <3>1, HeadTailProperties
  <2>4. c \in PassState /\ t \in SharedState /\ t.slot = f /\ t.queue = q
    BY <1>3, <2>1, <2>2, <2>3, SkippingIs, RequeueIs DEF Back
  <2>5. NextBatch(f, c, t)
    BY <1>3, <2>1, <2>2 DEF AttemptReturned
  <2> QED
    BY <2>4, <2>5, NextBatchIs
<1> QED
  BY <1>1, <1>2, <1>3

\* One that threw is probed if its batch has more than one, else all of it is put back.
LEMMA AttemptThrewIs ==
    ASSUME NEW f, NEW p, Batchy(p), NEW s \in SharedState, s.slot = f,
           NEW q, q = s.queue, AttemptThrew(f, p, s)
    PROVE  Throws(f, p, s, q)
<1>1. p \in PassState /\ p.batch \in Seq(Entry) /\ BatchWorkspace(p) \in Workspaces
  BY AttemptedIs DEF Batchy, PassState
<1>2. CASE ~p.probe /\ Len(p.batch) > 1
  <2>1. PICK c : c = [p EXCEPT !.probe = TRUE]
    OBVIOUS
  <2>2. c \in PassState /\ c.batch = p.batch /\ c.probe
    BY <1>1, <2>1 DEF PassState
  <2>3. Batchy(c)
    BY <2>2 DEF Batchy
  <2>4. PICK m : m = Attempt(c, s)
    OBVIOUS
  <2>5. Suspend(f, m, s)
    BY <1>2, <2>1, <2>4 DEF AttemptThrew
  <2>6. Mid(m) /\ Begun(m) /\ m.probe /\ m.batch = p.batch
    BY <2>2, <2>3, <2>4, AttemptIs DEF SameBatch
  <2>7. Probes(f, p, m, s)
    BY <2>5, <2>6 DEF Probes
  <2> QED
    BY <2>7 DEF Throws
<1>3. CASE ~(~p.probe /\ Len(p.batch) > 1)
  <2>1. PICK c : c = [p EXCEPT !.skip = @ \cup {BatchWorkspace(p)}]
    OBVIOUS
  <2>2. PICK r : r = Struck(s, BatchWorkspace(p))
    OBVIOUS
  <2>3. r \in SharedState /\ r.queue = s.queue /\ r.slot = f
    BY <1>1, <2>2, StruckIs
  <2>4. PICK t : t = Requeue(r, p.batch)
    OBVIOUS
  <2>5. t \in SharedState /\ t.queue = q \o p.batch /\ t.slot = f
    BY <1>1, <2>3, <2>4, RequeueIs
  <2>6. c \in PassState
    BY <2>1, SkippingIs
  <2>7. NextBatch(f, c, t)
    BY <1>3, <2>1, <2>2, <2>4 DEF AttemptThrew
  <2>8. PICK all : all = q \o p.batch
    OBVIOUS
  <2>9. LoopsOn(f, all)
    BY <2>5, <2>6, <2>7, <2>8, NextBatchIs
  <2> QED
    BY <2>8, <2>9 DEF Throws
<1> QED
  BY <1>2, <1>3

\* A lookup is done: the next one, the store, or the attempt is over.
LooksOn(f, p, s, q) ==
    \/ /\ p.checked < Len(Attempted(p))
       /\ Suspend(f, p, s)
    \/ /\ p.checked = Len(Attempted(p))
       /\ Suspend(f, [p EXCEPT !.pc = "store"], s)
    \/ /\ p.checked = Len(Attempted(p)) /\ p.rows = <<>>
       /\ LoopsOn(f, Back(p, q))

\* A lookup leads to the next, to the write, or to the end of an attempt with nothing left.
LEMMA LookedUpIs ==
    ASSUME NEW f, NEW p, Batchy(p), p.checked <= Len(Attempted(p)),
           NEW s \in SharedState, s.slot = f, NEW q, q = s.queue, LookedUp(f, p, s)
    PROVE  LooksOn(f, p, s, q)
<1>1. p \in PassState /\ BatchWorkspace(p) \in Workspaces /\ Len(Attempted(p)) \in Nat
  BY AttemptedIs DEF Batchy
<1>2. p.checked \in Nat
  BY <1>1 DEF PassState
<1>3. CASE p.checked < Len(Attempted(p))
  BY <1>3 DEF LookedUp, LooksOn
<1>4. CASE p.checked = Len(Attempted(p)) /\ p.rows # <<>>
  BY <1>1, <1>2, <1>4 DEF LookedUp, LooksOn
<1>5. CASE p.checked = Len(Attempted(p)) /\ p.rows = <<>>
  <2>1. PICK t : t = Cleared(s, BatchWorkspace(p))
    OBVIOUS
  <2>2. t \in SharedState /\ t.queue = q /\ t.slot = f
    BY <1>1, <2>1, ClearedIs
  <2>3. ~(p.checked < Len(Attempted(p)))
    BY <1>1, <1>2, <1>5
  <2>4. AttemptReturned(f, p, t)
    BY <1>5, <2>1, <2>3 DEF LookedUp
  <2>5. PICK r : r = Back(p, q)
    OBVIOUS
  <2>6. LoopsOn(f, r)
    BY <2>2, <2>4, <2>5, AttemptReturnedIs
  <2> QED
    BY <1>5, <2>5, <2>6 DEF LooksOn
<1> QED
  BY <1>1, <1>2, <1>3, <1>4, <1>5
-----------------------------------------------------------------------------
(* The actions of a pass, from a state in which the slot's part holds.     *)
LEMMA NowHolds ==
    ASSUME SlotHolds
    PROVE  /\ Now \in SharedState
           /\ Now.queue = queue /\ Now.slot = flushInFlight
           /\ Now.quarantined = quarantined /\ Now.streak = streak
           /\ \A f \in Flushers :
                 /\ [Now EXCEPT !.slot = f] \in SharedState
                 /\ [Now EXCEPT !.slot = f].slot = f /\ [Now EXCEPT !.slot = f].queue = queue
BY DEF SlotHolds, Now, SharedState

\* A flusher that is in a pass holds the slot, and its batch is within the bound.
LEMMA PassIs ==
    ASSUME SlotHolds, NEW f \in Flushers, pass[f].pc # "none"
    PROVE  /\ MayPass(f) /\ flushInFlight = f
           /\ Mid(pass[f]) /\ Batchy(pass[f]) /\ pass[f] \in PassState
           /\ Len(queue) + Len(pass[f].batch) <= Cap + Batch
BY NoPassIs DEF SlotHolds, OneFlushAtATime, MayPass, PassHolds, Mid, Batchy

\* Putting back the batch, or all of it but the entry that was probed.
LEMMA BackIs ==
    ASSUME NEW p, Batchy(p), NEW q \in Seq(Entry), Len(q) + Len(p.batch) <= Cap + Batch
    PROVE  /\ Back(p, q) \in Seq(Entry) /\ Len(Back(p, q)) <= Cap + Batch
           /\ q \o p.batch \in Seq(Entry) /\ Len(q \o p.batch) <= Cap + Batch
           /\ Tail(p.batch) \in Seq(Entry)
           /\ Len(Tail(p.batch)) = Len(p.batch) - 1
           /\ \A i \in 1 .. Len(p.batch) - 1 : Tail(p.batch)[i] = p.batch[i + 1]
<1>1. PICK b \in Seq(Entry) : b = p.batch
  BY DEF Batchy, PassState
<1>2. Len(b) \in 1 .. Batch
  BY <1>1 DEF Batchy
<1>3. Len(b) \in Nat /\ Len(b) >= 1 /\ Len(q) \in Nat /\ Len(q) + Len(b) <= Cap + Batch
  BY <1>1, <1>2, LenProperties, QueueAssumption
<1>4. Cap \in Nat /\ Batch \in Nat
  BY QueueAssumption
<1>5. Tail(b) \in Seq(Entry) /\ Len(Tail(b)) = Len(b) - 1
  BY <1>3, HeadTailProperties
<1>t. \A i \in 1 .. Len(b) - 1 : Tail(b)[i] = b[i + 1]
  BY <1>3
<1>6. q \o b \in Seq(Entry) /\ Len(q \o b) = Len(q) + Len(b)
  BY ConcatProperties
<1>7. PICK t \in Seq(Entry) : t = Tail(b)
  BY <1>5
<1>8. q \o t \in Seq(Entry) /\ Len(q \o t) = Len(q) + Len(t)
  BY ConcatProperties
<1>9. Len(q \o t) <= Cap + Batch /\ Len(q) <= Cap + Batch
  BY <1>3, <1>4, <1>5, <1>7, <1>8
<1>10. Back(p, q) = IF p.probe THEN q \o t ELSE q
  BY <1>1, <1>7 DEF Back
<1> QED
  BY <1>1, <1>3, <1>5, <1>6, <1>8, <1>9, <1>10, <1>t

\* Every way a batch's attempt goes on keeps the slot's part.
LEMMA ThrowsKeeps ==
    ASSUME SlotHolds, NEW f, MayPass(f), NEW p, Batchy(p), NEW s \in SharedState,
           NEW q \in Seq(Entry), q = s.queue, Len(q) + Len(p.batch) <= Cap + Batch,
           Throws(f, p, s, q)
    PROVE  SlotHolds'
<1>1. ASSUME NEW m, Probes(f, p, m, s) PROVE SlotHolds'
  BY <1>1, SuspendKeeps DEF Probes
<1>2. CASE LoopsOn(f, q \o p.batch)
  <2>1. PICK all : all = q \o p.batch
    OBVIOUS
  <2>2. all \in Seq(Entry) /\ Len(all) <= Cap + Batch
    BY <2>1, BackIs
  <2>3. LoopsOn(f, all)
    BY <1>2, <2>1
  <2> QED
    BY <2>2, <2>3, LoopsOnKeeps
<1> QED
  BY <1>1, <1>2 DEF Throws

\* An attempt that is over keeps the slot's part.
LEMMA BackKeeps ==
    ASSUME SlotHolds, NEW f, MayPass(f), NEW p, Batchy(p), NEW q \in Seq(Entry),
           Len(q) + Len(p.batch) <= Cap + Batch, NEW r, r = Back(p, q), LoopsOn(f, r)
    PROVE  SlotHolds'
<1>1. r \in Seq(Entry) /\ Len(r) <= Cap + Batch
  BY BackIs
<1> QED
  BY <1>1, LoopsOnKeeps

\* So does one that goes on after a lookup.
LEMMA LooksOnKeeps ==
    ASSUME SlotHolds, NEW f, MayPass(f), NEW p, Batchy(p), p.pc = "check",
           p.held = BatchWorkspace(p),
           NEW s \in SharedState, s.slot = f,
           NEW q \in Seq(Entry), q = s.queue, Len(q) + Len(p.batch) <= Cap + Batch,
           LooksOn(f, p, s, q)
    PROVE  SlotHolds'
<1>1. CASE p.checked < Len(Attempted(p)) /\ Suspend(f, p, s)
  <2>1. p.checked \in Nat /\ Len(Attempted(p)) \in Nat
    BY AttemptedIs DEF Batchy, PassState
  <2>2. Mid(p)
    BY <1>1, <2>1 DEF Mid
  <2> QED
    BY <1>1, <2>2, SuspendKeeps
<1>2. CASE p.checked = Len(Attempted(p)) /\ Suspend(f, [p EXCEPT !.pc = "store"], s)
  <2>1. PICK m : m = [p EXCEPT !.pc = "store"]
    OBVIOUS
  <2>2. /\ m \in PassState /\ m.pc = "store" /\ m.batch = p.batch /\ m.held = p.held
        /\ m.checked = p.checked /\ m.probe = p.probe
    BY <2>1 DEF Batchy, PassState
  <2>3. Attempted(m) = Attempted(p) /\ BatchWorkspace(m) = BatchWorkspace(p)
    BY <2>2 DEF Attempted, BatchWorkspace
  <2>4. p.checked <= Len(Attempted(p))
    BY <1>2, AttemptedIs
  <2>5. Mid(m)
    BY <2>2, <2>3, <2>4 DEF Mid, Batchy
  <2>6. Suspend(f, m, s)
    BY <1>2, <2>1
  <2> QED
    BY <2>2, <2>5, <2>6, SuspendKeeps
<1>3. CASE LoopsOn(f, Back(p, q))
  <2>1. PICK r : r = Back(p, q)
    OBVIOUS
  <2>2. LoopsOn(f, r)
    BY <1>3, <2>1
  <2> QED
    BY <2>1, <2>2, BackKeeps
<1> QED
  BY <1>1, <1>2, <1>3 DEF LooksOn
-----------------------------------------------------------------------------
(* The actions of a flusher, each in terms of what it leaves.              *)
\* A call that does not pass: it waits, or returns.
Stays ==
    /\ UNCHANGED <<queue, journal, claimed, breakerVars, flushInFlight, pass>>
    /\ call' \in [Flushers -> {"idle", "waiting", "woken", "passing"}]
    /\ waitsFor' \in [Flushers -> Flushers \cup {None}]

\* A flush call begins a pass while nobody has the slot, or waits.
LEMMA FlushCallIs ==
    ASSUME SlotHolds, NEW f \in Flushers, FlushCall(f), NEW q, q = queue
    PROVE  (MayPass(f) /\ flushInFlight = None /\ LoopsOn(f, q)) \/ Stays
<1>1. CASE flushInFlight = None /\ Loop(f, NoPass, [Now EXCEPT !.slot = f])
  <2>1. PICK s : s = [Now EXCEPT !.slot = f]
    OBVIOUS
  <2>2. s \in SharedState /\ s.slot = f /\ s.queue = q
    BY <2>1, NowHolds
  <2>3. PICK p : p = NoPass
    OBVIOUS
  <2>4. p \in PassState /\ ~p.probe
    BY <2>3, NoPassIs DEF NoPass
  <2>5. Loop(f, p, s)
    BY <1>1, <2>1, <2>3
  <2>6. LoopsOn(f, q)
    BY <2>2, <2>4, <2>5, LoopGoesOn
  <2> QED
    BY <1>1, <2>6 DEF MayPass
<1>2. CASE /\ flushInFlight # None
           /\ call' = [call EXCEPT ![f] = "waiting"]
           /\ waitsFor' = [waitsFor EXCEPT ![f] = flushInFlight]
           /\ UNCHANGED <<queue, journal, claimed, breakerVars, flushInFlight, pass>>
  <2>1. call' \in [Flushers -> {"idle", "waiting", "woken", "passing"}]
    BY <1>2 DEF SlotHolds
  <2>2. waitsFor' \in [Flushers -> Flushers \cup {None}]
    BY <1>2 DEF SlotHolds
  <2> QED
    BY <1>2, <2>1, <2>2 DEF Stays
<1> QED
  BY <1>1, <1>2 DEF FlushCall

\* A call that waited takes over a slot that it finds free, or returns.
LEMMA WaiterResumesIs ==
    ASSUME SlotHolds, NEW f \in Flushers, WaiterResumes(f), NEW q, q = queue
    PROVE  (MayPass(f) /\ flushInFlight = None /\ LoopsOn(f, q)) \/ Stays
<1>1. CASE ~StillInFlightOrDrained
  <2>0. flushInFlight = None /\ Loop(f, [NoPass EXCEPT !.fresh = FALSE], [Now EXCEPT !.slot = f])
    BY <1>1 DEF WaiterResumes, StillInFlightOrDrained
  <2>1. PICK s : s = [Now EXCEPT !.slot = f]
    OBVIOUS
  <2>2. s \in SharedState /\ s.slot = f /\ s.queue = q
    BY <2>1, NowHolds
  <2>3. PICK p : p = [NoPass EXCEPT !.fresh = FALSE]
    OBVIOUS
  <2>a. NoPass \in PassState /\ ~NoPass.probe
    BY NoPassIs DEF NoPass
  <2>4. p \in PassState /\ ~p.probe
    BY <2>3, <2>a DEF PassState
  <2>5. Loop(f, p, s)
    BY <2>0, <2>1, <2>3
  <2>6. LoopsOn(f, q)
    BY <2>2, <2>4, <2>5, LoopGoesOn
  <2> QED
    BY <2>0, <2>6 DEF MayPass
<1>2. CASE StillInFlightOrDrained
  <2>0. ReturnToCaller(f)
    BY <1>2 DEF WaiterResumes
  <2>1. call' \in [Flushers -> {"idle", "waiting", "woken", "passing"}]
    BY <2>0 DEF SlotHolds, ReturnToCaller
  <2>2. waitsFor' \in [Flushers -> Flushers \cup {None}]
    BY <2>0 DEF SlotHolds, ReturnToCaller
  <2> QED
    BY <2>0, <2>1, <2>2 DEF Stays, ReturnToCaller
<1> QED
  BY <1>1, <1>2

\* The pass awaits again with the batch it has.
Awaits(f, m, s, q) ==
    /\ Suspend(f, m, s)
    /\ s \in SharedState /\ s.slot = f /\ s.queue = q
    /\ Mid(m) /\ m.batch = pass[f].batch

\* A borrow that resolves begins the attempt with the batch as it is.
LEMMA BorrowOpensIs ==
    ASSUME SlotHolds, NEW f \in Flushers, BorrowOpens(f), NEW q, q = queue
    PROVE  \E m, s : Awaits(f, m, s, q) /\ Begun(m) /\ m.probe = pass[f].probe
<1>1. PICK p : p = pass[f]
  OBVIOUS
<1>2. PICK s : s = Now
  OBVIOUS
<1>3. flushInFlight = f /\ Batchy(p)
  BY <1>1, PassIs DEF BorrowOpens
<1>4. s \in SharedState /\ s.slot = f /\ s.queue = q
  BY <1>2, <1>3, NowHolds
<1>5. PICK m : m = Opened(p, s)
  OBVIOUS
<1>6. Mid(m) /\ Begun(m) /\ m.batch = p.batch /\ m.probe = p.probe
  BY <1>3, <1>4, <1>5, OpenedIs DEF SameBatch
<1>7. Suspend(f, m, s)
  BY <1>1, <1>2, <1>5 DEF BorrowOpens
<1>8. Awaits(f, m, s, q)
  BY <1>1, <1>4, <1>6, <1>7 DEF Awaits
<1> QED
  BY <1>1, <1>6, <1>8

\* The attempt failed, for the pass as it was but for its hold on the store.
Failed(f, p, s, q) ==
    /\ Throws(f, p, s, q)
    /\ s \in SharedState /\ s.slot = f /\ s.queue = q
    /\ Batchy(p) /\ p.batch = pass[f].batch

\* A borrow or a write that fails or times out throws, with the batch as it is.
LEMMA FailsIs ==
    ASSUME SlotHolds, NEW f \in Flushers, BorrowFails(f) \/ StoreFails(f) \/ StoreTimesOut(f),
           NEW q, q = queue
    PROVE  \E p, s : Failed(f, p, s, q)
<1>1. PICK o : o = pass[f]
  OBVIOUS
<1>2. PICK s : s = Now
  OBVIOUS
<1>3. flushInFlight = f /\ Batchy(o) /\ o \in PassState
  BY <1>1, PassIs DEF BorrowFails, StoreFails, StoreTimesOut
<1>4. s \in SharedState /\ s.slot = f /\ s.queue = q
  BY <1>2, <1>3, NowHolds
<1>5. PICK p : p = IF StoreTimesOut(f) THEN [o EXCEPT !.held = None] ELSE o
  OBVIOUS
<1>6. Batchy(p) /\ p.batch = o.batch
  <2>1. CASE StoreTimesOut(f)
    <3>1. p = [o EXCEPT !.held = None]
      BY <1>5, <2>1
    <3>2. p \in PassState /\ p.batch = o.batch
      BY <1>3, <3>1 DEF PassState
    <3> QED
      BY <1>3, <3>2 DEF Batchy
  <2>2. CASE ~StoreTimesOut(f)
    BY <1>3, <1>5, <2>2
  <2> QED
    BY <2>1, <2>2
<1>7. AttemptThrew(f, p, s)
  <2>1. CASE StoreTimesOut(f)
    <3>1. p = [o EXCEPT !.held = None]
      BY <1>5, <2>1
    <3> QED
      BY <1>1, <1>2, <2>1, <3>1 DEF StoreTimesOut
  <2>2. CASE ~StoreTimesOut(f)
    <3>1. p = o
      BY <1>5, <2>2
    <3> QED
      BY <1>1, <1>2, <2>2, <3>1 DEF BorrowFails, StoreFails
  <2> QED
    BY <2>1, <2>2
<1>8. Throws(f, p, s, q)
  BY <1>4, <1>6, <1>7, AttemptThrewIs
<1>9. Failed(f, p, s, q)
  BY <1>1, <1>4, <1>6, <1>8 DEF Failed
<1> QED
  BY <1>9

\* An entry of the attempt was looked up: p remembers it.
Looks(f, p, s, q) ==
    /\ LooksOn(f, p, s, q)
    /\ s \in SharedState /\ s.slot = f /\ s.queue = q
    /\ Batchy(p) /\ p.pc = "check" /\ p.held = BatchWorkspace(p)
    /\ p.batch = pass[f].batch /\ p.probe = pass[f].probe
    /\ pass[f].checked \in 0 .. Len(Attempted(p)) - 1
    /\ p.checked = pass[f].checked + 1

Looked(f) == Attempted(pass[f])[pass[f].checked + 1]

\* The entry that a lookup is about is one of the attempt.
LEMMA LookedIs ==
    ASSUME SlotHolds, NEW f \in Flushers, pass[f].pc = "check", NEW o, o = pass[f]
    PROVE  /\ o \in PassState /\ Batchy(o) /\ o.held = BatchWorkspace(o)
           /\ o.checked \in 0 .. Len(Attempted(o)) - 1
           /\ Looked(f) \in Entry /\ Looked(f) = Attempted(o)[o.checked + 1]
           /\ flushInFlight = f
<1>1. Mid(o) /\ Batchy(o) /\ o \in PassState /\ flushInFlight = f
  BY PassIs
<1>2. o.held = BatchWorkspace(o) /\ o.checked < Len(Attempted(o)) /\ o.checked \in Nat
  BY <1>1 DEF Mid, PassState
<1>3. Len(Attempted(o)) \in Nat /\ \A i \in 1 .. Len(Attempted(o)) : Attempted(o)[i] \in Entry
  BY <1>1, AttemptedIs
<1>4. o.checked \in 0 .. Len(Attempted(o)) - 1 /\ o.checked + 1 \in 1 .. Len(Attempted(o))
  BY <1>2, <1>3
<1> QED
  BY <1>1, <1>2, <1>3, <1>4 DEF Looked

\* A node that is found takes its entry out of what is to be written, and is in the store.
LEMMA NodeFoundIs ==
    ASSUME SlotHolds, NEW f \in Flushers, NodeFound(f), NEW q, q = queue
    PROVE  /\ \E p, s : Looks(f, p, s, q) /\ p.rows = pass[f].rows
           /\ store[Looked(f).ws][Looked(f).id] # 0
<1>1. PICK o : o = pass[f]
  OBVIOUS
<1>2. PICK s : s = [Now EXCEPT !.claimed = @ - 1]
  OBVIOUS
<1>3. /\ o \in PassState /\ Batchy(o) /\ o.held = BatchWorkspace(o) /\ o.pc = "check"
      /\ o.checked \in 0 .. Len(Attempted(o)) - 1
      /\ flushInFlight = f
  BY <1>1, LookedIs DEF NodeFound
<1>4. s \in SharedState /\ s.slot = f /\ s.queue = q
  <2>1. Now \in SharedState /\ Now.queue = q /\ Now.slot = f
    BY <1>3, NowHolds
  <2>2. PICK n \in Int : n = Now.claimed - 1
    BY <2>1 DEF SharedState
  <2>3. s = [Now EXCEPT !.claimed = n]
    BY <1>2, <2>2
  <2> QED
    BY <2>1, <2>3 DEF SharedState
<1>5. PICK p : p = [o EXCEPT !.checked = @ + 1, !.removed = TRUE]
  OBVIOUS
<1>6. /\ p \in PassState /\ p.batch = o.batch /\ p.probe = o.probe /\ p.held = o.held
      /\ p.pc = "check" /\ p.rows = o.rows /\ p.checked = o.checked + 1
  <2>1. PICK c \in Nat : c = o.checked + 1
    BY <1>3 DEF PassState
  <2>2. p = [o EXCEPT !.checked = c, !.removed = TRUE]
    BY <1>5, <2>1
  <2> QED
    BY <1>3, <2>1, <2>2 DEF PassState
<1>7. Batchy(p) /\ Attempted(p) = Attempted(o) /\ BatchWorkspace(p) = BatchWorkspace(o)
  BY <1>3, <1>6 DEF Batchy, Attempted, BatchWorkspace
<1>8. LookedUp(f, p, s)
  BY <1>1, <1>2, <1>5 DEF NodeFound
<1>9. p.checked <= Len(Attempted(p))
  <2>1. Len(Attempted(o)) \in Nat
    BY <1>3, AttemptedIs
  <2> QED
    BY <1>3, <1>6, <1>7, <2>1
<1>10. LooksOn(f, p, s, q)
  BY <1>4, <1>7, <1>8, <1>9, LookedUpIs
<1>11. Looks(f, p, s, q)
  BY <1>1, <1>3, <1>4, <1>6, <1>7, <1>10 DEF Looks
<1> QED
  BY <1>1, <1>6, <1>11 DEF NodeFound, Looked

\* One that is not, or an error, keeps the entry.
LEMMA NodeNotFoundIs ==
    ASSUME SlotHolds, NEW f \in Flushers, NodeNotFound(f), NEW q, q = queue
    PROVE  \E p, s : Looks(f, p, s, q) /\ p.rows = Append(pass[f].rows, Looked(f))
<1>1. PICK o : o = pass[f]
  OBVIOUS
<1>2. PICK s : s = Now
  OBVIOUS
<1>e. PICK e : e = Looked(f)
  OBVIOUS
<1>3. /\ o \in PassState /\ Batchy(o) /\ o.held = BatchWorkspace(o) /\ o.pc = "check"
      /\ o.checked \in 0 .. Len(Attempted(o)) - 1
      /\ flushInFlight = f /\ e \in Entry
  BY <1>1, <1>e, LookedIs DEF NodeNotFound
<1>4. s \in SharedState /\ s.slot = f /\ s.queue = q
  BY <1>2, <1>3, NowHolds
<1>5. PICK p : p = [o EXCEPT !.checked = @ + 1, !.rows = Append(@, e)]
  OBVIOUS
<1>a. Append(o.rows, e) \in Seq(Entry)
  BY <1>3, AppendProperties DEF PassState
<1>6. /\ p \in PassState /\ p.batch = o.batch /\ p.probe = o.probe /\ p.held = o.held
      /\ p.pc = "check" /\ p.rows = Append(o.rows, e) /\ p.checked = o.checked + 1
  <2>1. PICK c \in Nat : c = o.checked + 1
    BY <1>3 DEF PassState
  <2>2. PICK r \in Seq(Entry) : r = Append(o.rows, e)
    BY <1>a
  <2>3. p = [o EXCEPT !.checked = c, !.rows = r]
    BY <1>5, <2>1, <2>2
  <2> QED
    BY <1>3, <2>1, <2>2, <2>3 DEF PassState
<1>7. Batchy(p) /\ Attempted(p) = Attempted(o) /\ BatchWorkspace(p) = BatchWorkspace(o)
  BY <1>3, <1>6 DEF Batchy, Attempted, BatchWorkspace
<1>8. LookedUp(f, p, s)
  BY <1>1, <1>2, <1>5, <1>e DEF NodeNotFound, Looked
<1>9. p.checked <= Len(Attempted(p))
  <2>1. Len(Attempted(o)) \in Nat
    BY <1>3, AttemptedIs
  <2> QED
    BY <1>3, <1>6, <1>7, <2>1
<1>10. LooksOn(f, p, s, q)
  BY <1>4, <1>7, <1>8, <1>9, LookedUpIs
<1>11. Looks(f, p, s, q)
  BY <1>1, <1>3, <1>4, <1>6, <1>7, <1>10 DEF Looks
<1> QED
  BY <1>1, <1>6, <1>11, <1>e

\* A write that resolves keeps the batch until its embeds settled.
LEMMA StoreSettlesIs ==
    ASSUME SlotHolds, NEW f \in Flushers, StoreSettles(f), NEW q, q = queue
    PROVE  \E m, s : Awaits(f, m, s, q) /\ m.pc = "settle" /\ m.probe = pass[f].probe
<1>1. PICK o : o = pass[f]
  OBVIOUS
<1>2. /\ Mid(o) /\ Batchy(o) /\ o \in PassState /\ flushInFlight = f
      /\ BatchWorkspace(o) \in Workspaces
  BY <1>1, PassIs, AttemptedIs DEF StoreSettles
<1>3. PICK t : t = Cleared(Now, BatchWorkspace(o))
  OBVIOUS
<1>4. t \in SharedState /\ t.queue = q /\ t.slot = f
  BY <1>2, <1>3, NowHolds, ClearedIs
<1>5. PICK s : s = [t EXCEPT !.claimed = @ - Len(o.rows)]
  OBVIOUS
<1>6. s \in SharedState /\ s.queue = q /\ s.slot = f
  <2>1. Len(o.rows) \in Nat
    BY <1>2, LenProperties DEF PassState
  <2>2. t.claimed - Len(o.rows) \in Int
    BY <1>4, <2>1 DEF SharedState
  <2> QED
    BY <1>4, <1>5, <2>2 DEF SharedState
<1>7. PICK m : m = [o EXCEPT !.pc = "settle", !.removed = TRUE]
  OBVIOUS
<1>8. /\ m \in PassState /\ m.batch = o.batch /\ m.pc = "settle" /\ m.probe = o.probe
      /\ m.checked = o.checked
  BY <1>2, <1>7 DEF PassState
<1>9. Mid(m)
  BY <1>2, <1>8 DEF Mid, Batchy, Attempted
<1>10. Suspend(f, m, s)
  BY <1>1, <1>3, <1>5, <1>7 DEF StoreSettles
<1>11. Awaits(f, m, s, q)
  BY <1>1, <1>6, <1>8, <1>9, <1>10 DEF Awaits
<1> QED
  BY <1>1, <1>8, <1>11

\* Then the loop goes on, the rest of a probed batch put back.
LEMMA EmbedsSettleIs ==
    ASSUME SlotHolds, NEW f \in Flushers, EmbedsSettle(f), NEW q, q = queue,
           NEW r, r = Back(pass[f], q)
    PROVE  LoopsOn(f, r)
<1>1. PICK o : o = pass[f]
  OBVIOUS
<1>2. PICK held : held \in {o.held, None} /\ AttemptReturned(f, [o EXCEPT !.held = held], Now)
  BY <1>1 DEF EmbedsSettle
<1>3. PICK s : s = Now
  OBVIOUS
<1>4. Batchy(o) /\ o \in PassState /\ flushInFlight = f
  BY <1>1, PassIs DEF EmbedsSettle
<1>5. s \in SharedState /\ s.slot = f /\ s.queue = q
  BY <1>3, <1>4, NowHolds
<1>6. PICK p : p = [o EXCEPT !.held = held]
  OBVIOUS
<1>7. p \in PassState /\ p.batch = o.batch /\ p.probe = o.probe
  BY <1>2, <1>4, <1>6 DEF PassState
<1>8. Batchy(p) /\ Back(p, q) = r
  BY <1>1, <1>4, <1>7 DEF Batchy, Back
<1>9. AttemptReturned(f, p, s)
  BY <1>2, <1>3, <1>6
<1> QED
  BY <1>5, <1>8, <1>9, AttemptReturnedIs
-----------------------------------------------------------------------------
(* The rest of the state.                                                  *)
RestHolds ==
    /\ FoldTypeOK
    /\ store \in [Workspaces -> [Ids -> 0..MaxPerRequest]]
    /\ \A w \in writes : w.ws \in Workspaces /\ w.rows \in Seq(Entry)
    /\ issued \in [Requests -> 0..MaxPerRequest]
    /\ accepted \subseteq Entry /\ givenUp \subseteq Entry
    /\ kills \in 0..MaxKills

QueueInv == SlotHolds /\ RestHolds

\* A row of the upsert wins where it is accepted; all else is as it was.
LEMMA UpsertedIs ==
    ASSUME store \in [Workspaces -> [Ids -> 0..MaxPerRequest]],
           NEW ws \in Workspaces, NEW rows \in Seq(Entry)
    PROVE  /\ Upserted(ws, rows) \in [Workspaces -> [Ids -> 0..MaxPerRequest]]
           /\ \A w \in Workspaces, id \in Ids :
                 \/ Upserted(ws, rows)[w][id] = store[w][id]
                 \/ \E i \in DOMAIN rows : Upserted(ws, rows)[w][id] = rows[i].v
           /\ \A i \in DOMAIN rows : rows[i].id \notin Rejected =>
                 \E j \in DOMAIN rows : Upserted(ws, rows)[ws][rows[i].id] = rows[j].v
<1> DEFINE places(id) == {i \in DOMAIN rows : rows[i].id = id}
<1>1. PICK new : new = [id \in Ids |-> IF id \in Rejected \/ places(id) = {}
                                       THEN store[ws][id] ELSE rows[Max(places(id))].v]
  OBVIOUS
<1>2. Upserted(ws, rows) = [store EXCEPT ![ws] = new]
  BY <1>1 DEF Upserted
<1>3. DOMAIN rows = 1 .. Len(rows) /\ Len(rows) \in Nat
  OBVIOUS
<1>4. ASSUME NEW id \in Ids, id \notin Rejected, places(id) # {}
      PROVE  \E j \in DOMAIN rows : new[id] = rows[j].v
  <2>1. places(id) \in SUBSET (1 .. Len(rows))
    BY <1>3
  <2>2. PICK T : T = places(id)
    OBVIOUS
  <2>3. Max(T) \in T
    BY <1>3, <1>4, <2>1, <2>2, MaxIs
  <2>4. new[id] = rows[Max(T)].v
    BY <1>1, <1>4, <2>2
  <2> QED
    BY <2>2, <2>3, <2>4
<1>5. ASSUME NEW id \in Ids, id \in Rejected \/ places(id) = {}
      PROVE  new[id] = store[ws][id]
  BY <1>1, <1>5
<1>6. \A i \in DOMAIN rows : rows[i] \in Entry /\ rows[i].id \in Ids
                             /\ rows[i].v \in 0 .. MaxPerRequest
  <2>1. \A e \in Entry : e.id \in Ids /\ e.v \in 0 .. MaxPerRequest
    BY QueueAssumption DEF Entry
  <2>2. \A i \in DOMAIN rows : rows[i] \in Entry
    OBVIOUS
  <2> QED
    BY <2>1, <2>2
<1> HIDE DEF places
<1>7. \A id \in Ids : new[id] = store[ws][id] \/ \E j \in DOMAIN rows : new[id] = rows[j].v
  BY <1>4, <1>5
<1>8. \A id \in Ids : new[id] \in 0 .. MaxPerRequest
  BY <1>6, <1>7
<1>9. new \in [Ids -> 0 .. MaxPerRequest]
  BY <1>1, <1>8
<1>10. PICK up : up = Upserted(ws, rows)
  OBVIOUS
<1>11. up \in [Workspaces -> [Ids -> 0 .. MaxPerRequest]] /\ up[ws] = new
       /\ \A w \in Workspaces : w # ws => up[w] = store[w]
  BY <1>2, <1>9, <1>10
<1>12. \A w \in Workspaces, id \in Ids :
          up[w][id] = store[w][id] \/ \E i \in DOMAIN rows : up[w][id] = rows[i].v
  BY <1>7, <1>11
<1>13. ASSUME NEW i \in DOMAIN rows, rows[i].id \notin Rejected
       PROVE  \E j \in DOMAIN rows : up[ws][rows[i].id] = rows[j].v
  <2>1. places(rows[i].id) # {}
    BY DEF places
  <2> QED
    BY <1>4, <1>6, <1>11, <1>13, <2>1
<1> QED
  BY <1>10, <1>11, <1>12, <1>13

\* The replay has a queue within the cap after each of the lines.
Replaying(lines, g) ==
    \A i \in 0 .. Len(lines) :
       g[i] = IF i = 0 THEN <<>> ELSE PushEntry(g[i - 1], lines[i])

\* A replay is described by the queue it has after each line, if there are such queues.
LEMMA ReplaySome ==
    ASSUME NEW lines \in Seq(Entry), NEW g,
           g = [i \in 0 .. Len(lines) |-> IF i = 0 THEN <<>> ELSE PushEntry(g[i - 1], lines[i])]
    PROVE  \E after :
              /\ Replayed(lines) = after[Len(lines)]
              /\ Replaying(lines, after)
<1>1. PICK after : after = CHOOSE h : h = [i \in 0 .. Len(lines) |->
                              IF i = 0 THEN <<>> ELSE PushEntry(h[i - 1], lines[i])]
  OBVIOUS
<1>2. after = [i \in 0 .. Len(lines) |-> IF i = 0 THEN <<>> ELSE PushEntry(after[i - 1], lines[i])]
  BY <1>1
<1>3. Replayed(lines) = after[Len(lines)]
  BY <1>1 DEF Replayed
<1>4. Replaying(lines, after)
  BY <1>2 DEF Replaying
<1> QED
  BY <1>3, <1>4

\* There are: each is determined by the one before.
LEMMA ReplayExists ==
    ASSUME NEW lines \in Seq(Entry)
    PROVE  \E g : g = [i \in 0 .. Len(lines) |->
                         IF i = 0 THEN <<>> ELSE PushEntry(g[i - 1], lines[i])]
<1>1. PICK L \in Nat : L = Len(lines)
  BY LenProperties
<1> DEFINE Upto(g, n) ==
        g = [i \in 0 .. n |-> IF i = 0 THEN <<>> ELSE PushEntry(g[i - 1], lines[i])]
<1> DEFINE S == {n \in 0 .. L : \E g : Upto(g, n)}
<1>2. 0 \in S
  <2>1. PICK g : g = [i \in 0 .. 0 |-> <<>>]
    OBVIOUS
  <2>2. Upto(g, 0)
    BY <2>1
  <2> QED
    BY <1>1, <2>2
<1>3. ASSUME NEW k \in 0 .. L - 1, k \in S PROVE k + 1 \in S
  <2>1. PICK g : Upto(g, k)
    BY <1>3
  <2>2. PICK h : h = [i \in 0 .. k + 1 |->
                        IF i = k + 1 THEN PushEntry(g[k], lines[k + 1]) ELSE g[i]]
    OBVIOUS
  <2>3. \A i \in 0 .. k : h[i] = g[i]
    BY <1>1, <2>2
  <2>4. \A i \in 0 .. k + 1 : h[i] = IF i = 0 THEN <<>> ELSE PushEntry(h[i - 1], lines[i])
    <3>1. h[0] = <<>>
      BY <1>1, <2>1, <2>3
    <3>2. ASSUME NEW i \in 1 .. k PROVE h[i] = PushEntry(h[i - 1], lines[i])
      <4>1. i \in 0 .. k /\ i - 1 \in 0 .. k /\ i # 0
        BY <1>1
      <4>2. g[i] = PushEntry(g[i - 1], lines[i])
        BY <2>1, <4>1
      <4> QED
        BY <2>3, <4>1, <4>2
    <3>3. h[k + 1] = PushEntry(h[k], lines[k + 1])
      BY <1>1, <2>2, <2>3
    <3>4. ASSUME NEW i \in 0 .. k + 1
          PROVE  h[i] = IF i = 0 THEN <<>> ELSE PushEntry(h[i - 1], lines[i])
      <4>1. CASE i = 0
        BY <3>1, <4>1
      <4>2. CASE i = k + 1
        <5>1. i # 0 /\ i - 1 = k
          BY <1>1, <4>2
        <5> QED
          BY <3>3, <4>2, <5>1
      <4>3. CASE i # 0 /\ i # k + 1
        <5>1. i \in 1 .. k
          BY <1>1, <4>3
        <5> QED
          BY <3>2, <4>3, <5>1
      <4> QED
        BY <4>1, <4>2, <4>3
    <3> QED
      BY <3>4
  <2>5. Upto(h, k + 1)
    BY <2>2, <2>4
  <2> QED
    BY <1>1, <2>5
<1>4. L \in S
  <2> HIDE DEF S
  <2>1. \A k \in 0 .. L - 1 : k \in S => k + 1 \in S
    BY <1>3
  <2>2. \A k \in 0 .. L : k \in S
    BY <1>1, <1>2, <2>1, UpTo
  <2> QED
    BY <1>1, <2>2
<1> QED
  BY <1>1, <1>4

\* A sequence with one entry more than its first n.
LEMMA OneMore ==
    ASSUME NEW q \in Seq(Entry), NEW n \in 0 .. Len(q) - 1
    PROVE  /\ SubSeq(q, 1, n) \in Seq(Entry) /\ Len(SubSeq(q, 1, n)) = n
           /\ \A i \in 1 .. n : SubSeq(q, 1, n)[i] = q[i]
           /\ q[n + 1] \in Entry
           /\ Append(SubSeq(q, 1, n), q[n + 1]) = SubSeq(q, 1, n + 1)
<1>1. Len(q) \in Nat /\ n \in Nat /\ n + 1 \in 1 .. Len(q)
  OBVIOUS
<1>a. SubSeq(q, 1, n) \in Seq(Entry)
  BY <1>1
<1>b. SubSeq(q, 1, n + 1) \in Seq(Entry)
  BY <1>1
<1>2. PICK a \in Seq(Entry) : a = SubSeq(q, 1, n)
  BY <1>a
<1>3. Len(a) = n /\ \A i \in 1 .. n : a[i] = q[i]
  BY <1>1, <1>2
<1>4. PICK b \in Seq(Entry) : b = SubSeq(q, 1, n + 1)
  BY <1>b
<1>5. Len(b) = n + 1 /\ \A i \in 1 .. n + 1 : b[i] = q[i]
  BY <1>1, <1>4
<1>6. q[n + 1] \in Entry
  BY <1>1
<1>7. PICK c \in Seq(Entry) : c = Append(a, q[n + 1])
  BY <1>6, AppendProperties
<1>8. Len(c) = n + 1 /\ \A i \in 1 .. n + 1 : c[i] = IF i <= n THEN a[i] ELSE q[n + 1]
  BY <1>1, <1>3, <1>6, <1>7
<1>9. \A i \in 1 .. n + 1 : c[i] = b[i]
  BY <1>1, <1>3, <1>5, <1>8
<1>10. c = b
  BY <1>5, <1>8, <1>9, SeqEqual
<1> QED
  BY <1>2, <1>3, <1>4, <1>6, <1>7, <1>10

\* A replayed journal is a queue within the cap; one of distinct texts that fits it comes back.
LEMMA ReplayedIs ==
    ASSUME NEW lines \in Seq(Entry)
    PROVE  /\ Replayed(lines) \in Seq(Entry) /\ Len(Replayed(lines)) <= Cap
           /\ Distinct(lines) /\ Len(lines) <= Cap => Replayed(lines) = lines
<1>1. PICK L \in Nat : L = Len(lines)
  BY LenProperties
<1>2. PICK after : Replayed(lines) = after[L] /\ Replaying(lines, after)
  BY <1>1, ReplayExists, ReplaySome
<1>3. after[0] = <<>> /\ <<>> \in Seq(Entry) /\ Len(<<>>) = 0 /\ Cap \in Nat
  BY <1>1, <1>2, QueueAssumption DEF Replaying
<1>4. ASSUME NEW k \in 0 .. L - 1 PROVE after[k + 1] = PushEntry(after[k], lines[k + 1])
  <2>1. k + 1 \in 0 .. L /\ k + 1 # 0 /\ (k + 1) - 1 = k
    BY <1>1
  <2> QED
    BY <1>1, <1>2, <2>1 DEF Replaying
<1>5. \A k \in 0 .. L - 1 : lines[k + 1] \in Entry
  BY <1>1
<1>6. after[L] \in Seq(Entry) /\ Len(after[L]) <= Cap
  <2> DEFINE T == {n \in 0 .. L : after[n] \in Seq(Entry) /\ Len(after[n]) <= Cap}
  <2>1. 0 \in T
    <3>1. 0 \in 0 .. L
      OBVIOUS
    <3>2. after[0] \in Seq(Entry) /\ Len(after[0]) <= Cap
      BY <1>3
    <3> QED
      BY <3>1, <3>2
  <2>2. ASSUME NEW k \in 0 .. L - 1, k \in T PROVE k + 1 \in T
    <3>1. after[k + 1] \in Seq(Entry) /\ Len(after[k + 1]) <= Cap
      BY <1>4, <1>5, <2>2, PushEntryIs
    <3> QED
      BY <1>1, <3>1
  <2> HIDE DEF T
  <2>3. \A k \in 0 .. L - 1 : k \in T => k + 1 \in T
    BY <2>2
  <2>4. L \in T
    BY <1>1, <2>1, <2>3, UpTo
  <2> QED
    BY <2>4 DEF T
<1>7. ASSUME Distinct(lines), Len(lines) <= Cap PROVE after[L] = lines
  <2> DEFINE T == {n \in 0 .. L : after[n] = SubSeq(lines, 1, n)}
  <2>1. 0 \in T
    <3>1. 0 \in 0 .. L
      OBVIOUS
    <3>2. SubSeq(lines, 1, 0) = <<>>
      BY SubSeqEmpty
    <3>3. after[0] = SubSeq(lines, 1, 0)
      BY <1>3, <3>2
    <3> QED
      BY <3>1, <3>3
  <2>2. ASSUME NEW k \in 0 .. L - 1, k \in T PROVE k + 1 \in T
    <3>1. PICK a \in Seq(Entry) : a = after[k]
      BY <1>1, <2>2, OneMore
    <3>2. PICK e \in Entry : e = lines[k + 1]
      BY <1>5
    <3>3. Len(a) = k /\ (\A i \in 1 .. k : a[i] = lines[i])
          /\ Append(a, e) = SubSeq(lines, 1, k + 1)
      BY <1>1, <2>2, <3>1, <3>2, OneMore
    <3>4. \A i \in 1 .. Len(a) : a[i].id # e.id
      <4>1. \A i, j \in 1 .. L : lines[i].id = lines[j].id => i = j
        BY <1>1, <1>7 DEF Distinct
      <4>2. ASSUME NEW i \in 1 .. k PROVE a[i].id # e.id
        <5>1. i \in 1 .. L /\ k + 1 \in 1 .. L /\ i # k + 1
          BY <1>1
        <5>2. lines[i].id # lines[k + 1].id
          BY <4>1, <5>1
        <5> QED
          BY <3>2, <3>3, <5>2
      <4> QED
        BY <3>3, <4>2
    <3>5. Pushed(a, e) = Append(a, e)
      BY <3>4, PushedIs
    <3>6. Len(Append(a, e)) = k + 1 /\ k + 1 <= Cap
      BY <1>1, <1>3, <1>7, <3>3, AppendProperties
    <3>7. PushEntry(a, e) = Append(a, e)
      BY <3>5, <3>6, PushEntryIs
    <3>8. after[k + 1] = SubSeq(lines, 1, k + 1)
      BY <1>4, <3>1, <3>2, <3>3, <3>7
    <3> QED
      BY <1>1, <3>8
  <2> HIDE DEF T
  <2>3. \A k \in 0 .. L - 1 : k \in T => k + 1 \in T
    BY <2>2
  <2>4. L \in T
    BY <1>1, <2>1, <2>3, UpTo
  <2>5. after[L] = SubSeq(lines, 1, L)
    BY <2>4 DEF T
  <2> QED
    BY <1>1, <2>5, SubSeqFull
<1> QED
  BY <1>2, <1>6, <1>7
-----------------------------------------------------------------------------
(* The invariant is kept by every action.                                  *)
LEMMA BatchWithin ==
    ASSUME SlotHolds, NEW f \in Flushers
    PROVE  pass[f].batch \in Seq(Entry) /\ Len(pass[f].batch) \in 0 .. Batch
<1>1. CASE pass[f] = NoPass
  BY <1>1, NoPassIs, QueueAssumption DEF PassState
<1>2. CASE Mid(pass[f])
  BY <1>2 DEF Mid, Batchy, PassState
<1> QED
  BY <1>1, <1>2 DEF SlotHolds, PassHolds

\* A store call's entry is one that may be queued, and is new.
LEMMA NextVersionIs ==
    ASSUME RestHolds, NEW r \in Requests, StoreCall(r[1], r[2]), NEW e, e = NextVersion(r[1], r[2])
    PROVE  /\ e \in Entry /\ r = <<e.ws, e.id>> /\ e.v = issued[r] + 1
           /\ issued[r] < MaxPerRequest
           /\ issued' = [issued EXCEPT ![r] = @ + 1]
           /\ issued' \in [Requests -> 0..MaxPerRequest]
<1>1. r[1] \in Workspaces /\ r[2] \in Ids /\ r = <<r[1], r[2]>>
  BY QueueAssumption
<1>2. issued[r] \in 0 .. MaxPerRequest /\ issued[r] < MaxPerRequest
  BY <1>1 DEF RestHolds, StoreCall
<1>3. PICK v \in 1 .. MaxPerRequest : v = issued[r] + 1
  BY <1>2, QueueAssumption
<1>4. e = [ws |-> r[1], id |-> r[2], v |-> v]
  BY <1>1, <1>3 DEF NextVersion
<1>5. issued' = [issued EXCEPT ![r] = v]
  BY <1>1, <1>3 DEF StoreCall
<1>6. v \in 0 .. MaxPerRequest
  BY <1>3
<1> QED
  BY <1>1, <1>2, <1>3, <1>4, <1>5, <1>6 DEF Entry, RestHolds

\* A store call keeps the invariant.
LEMMA EnqueueKeeps ==
    ASSUME QueueInv, NEW r \in Requests, EnqueueVerbatim(r[1], r[2])
    PROVE  QueueInv'
<1>0. SlotHolds /\ RestHolds
  BY DEF QueueInv
<1>1. PICK e : e = NextVersion(r[1], r[2])
  OBVIOUS
<1>2. e \in Entry /\ issued' \in [Requests -> 0..MaxPerRequest]
  BY <1>0, <1>1, NextVersionIs DEF EnqueueVerbatim
<1>3. /\ queue' = PushEntry(queue, e) /\ journal' = JournalAfterEnqueue(e)
      /\ accepted' = accepted \cup {e}
      /\ givenUp' = givenUp \cup (ToSet(Pushed(queue, e)) \ ToSet(queue'))
      /\ UNCHANGED <<store, claimed, breakerVars, slotVars, pass, writes, kills, foldVars>>
  BY <1>1 DEF EnqueueVerbatim
<1>4. queue \in Seq(Entry) /\ journal \in Seq(Entry)
  BY <1>0 DEF SlotHolds
<1>5. PushEntry(queue, e) \in Seq(Entry) /\ Len(PushEntry(queue, e)) <= Cap
  BY <1>2, <1>4, PushEntryIs
<1>6. journal' \in Seq(Entry)
  <2>1. Append(journal, e) \in Seq(Entry)
    BY <1>2, <1>4, AppendProperties
  <2> QED
    BY <1>3, <1>5, <2>1 DEF JournalAfterEnqueue
<1>7. queue' \in Seq(Entry) /\ Len(queue') <= Cap /\ Len(queue') \in Nat
  BY <1>3, <1>5, LenProperties
<1>8. Len(queue') <= Cap + Batch
  BY <1>7, QueueAssumption
<1>9. \A f \in Flushers : Len(queue') + Len(pass[f].batch) <= Cap + Batch
  <2>1. ASSUME NEW f \in Flushers PROVE Len(queue') + Len(pass[f].batch) <= Cap + Batch
    <3>1. PICK m \in Nat : m = Len(pass[f].batch) /\ m <= Batch
      BY <1>0, BatchWithin, QueueAssumption
    <3> QED
      BY <1>7, <3>1, QueueAssumption
  <2> QED
    BY <2>1
<1>10. OneFlushAtATime'
  BY <1>0, <1>3 DEF SlotHolds, OneFlushAtATime, slotVars
<1>11. SlotHolds'
  BY <1>0, <1>3, <1>6, <1>7, <1>8, <1>9, <1>10 DEF SlotHolds, slotVars, breakerVars
<1>12. givenUp' \subseteq Entry
  <2>1. Pushed(queue, e) \in Seq(Entry)
    BY <1>2, <1>4, PushedIs
  <2>2. ToSet(Pushed(queue, e)) \subseteq Entry
    <3>1. PICK all \in Seq(Entry) : all = Pushed(queue, e)
      BY <2>1
    <3>2. \A i \in DOMAIN all : all[i] \in Entry
      OBVIOUS
    <3> QED
      BY <3>1, <3>2 DEF ToSet
  <2> QED
    BY <1>0, <1>3, <2>2 DEF RestHolds
<1>13. RestHolds'
  BY <1>0, <1>2, <1>3, <1>12 DEF RestHolds, FoldTypeOK, foldVars
<1> QED
  BY <1>11, <1>13 DEF QueueInv

\* So does a kill with the replay that follows.
LEMMA KillKeeps ==
    ASSUME QueueInv, NEW lines \in Seq(Entry), KillAndReplay(lines),
           issued' \in [Requests -> 0..MaxPerRequest]
    PROVE  QueueInv'
<1>0. SlotHolds /\ RestHolds
  BY DEF QueueInv
<1>1. /\ kills < MaxKills /\ kills' = kills + 1
      /\ journal' = journal \o lines /\ queue' = Replayed(journal')
      /\ claimed' = 0 /\ streak' = [ws \in Workspaces |-> 0]
      /\ quarantined' = [ws \in Workspaces |-> FALSE]
      /\ flushInFlight' = None /\ call' = [f \in Flushers |-> "idle"]
      /\ waitsFor' = [f \in Flushers |-> None]
      /\ pass' = [f \in Flushers |-> NoPass] /\ writes' = {}
      /\ givenUp' = givenUp \cup {e \in ToSet(journal') : \A d \in ToSet(queue') : d.id # e.id}
      /\ FoldReset /\ UNCHANGED <<store, accepted>>
  BY DEF KillAndReplay
<1>2. journal' \in Seq(Entry)
  BY <1>0, <1>1, ConcatProperties DEF SlotHolds
<1>3. PICK j \in Seq(Entry) : j = journal'
  BY <1>2
<1>4. Replayed(j) \in Seq(Entry) /\ Len(Replayed(j)) <= Cap
  BY ReplayedIs
<1>5. queue' \in Seq(Entry) /\ Len(queue') <= Cap /\ Len(queue') \in Nat
  BY <1>1, <1>3, <1>4, LenProperties
<1>6. Len(queue') <= Cap + Batch /\ Len(queue') + 0 <= Cap + Batch
  BY <1>5, QueueAssumption
<1>7. \A f \in Flushers : pass'[f] = NoPass
  BY <1>1
<1>8. \A f \in Flushers : Len(queue') + Len(pass'[f].batch) <= Cap + Batch
  BY <1>6, <1>7, NoPassIs
<1>9. OneFlushAtATime'
  BY <1>1, <1>7, NoPassIs, QueueAssumption DEF OneFlushAtATime
<1>10. pass' \in [Flushers -> PassState] /\ \A f \in Flushers : PassHolds(pass'[f])
  BY <1>1, <1>7, NoPassIs DEF PassHolds
<1>11. streak' \in [Workspaces -> 0..Threshold]
  BY <1>1, QueueAssumption
<1>12. SlotHolds'
  BY <1>1, <1>2, <1>5, <1>6, <1>8, <1>9, <1>10, <1>11 DEF SlotHolds
<1>13. givenUp' \subseteq Entry
  <2>1. \A i \in DOMAIN j : j[i] \in Entry
    OBVIOUS
  <2>2. ToSet(j) \subseteq Entry
    BY <2>1 DEF ToSet
  <2> QED
    BY <1>0, <1>1, <1>3, <2>2 DEF RestHolds
<1>14. FoldTypeOK'
  BY <1>1 DEF FoldReset, FoldTypeOK
<1>15. kills' \in 0 .. MaxKills
  BY <1>0, <1>1, QueueAssumption DEF RestHolds
<1>16. RestHolds'
  BY <1>0, <1>1, <1>13, <1>14, <1>15 DEF RestHolds
<1> QED
  BY <1>12, <1>16 DEF QueueInv

\* A claim asks the breaker; every other step keeps the batches or drops them.
AsksBreaker ==
    \A f \in Flushers :
        /\ pass'[f].batch # <<>>
        /\ pass'[f].batch # pass[f].batch
        => LET ws == Head(pass'[f].batch).ws
           IN  /\ ~quarantined'[ws]
               /\ ws \notin pass'[f].skip

\* A pass that awaits again has its old batch, or one that the breaker let through.
LEMMA SuspendAsks ==
    ASSUME SlotHolds, NEW f \in Flushers, NEW m, NEW s, Suspend(f, m, s),
           \/ m.batch = pass[f].batch
           \/ ~s.quarantined[Head(m.batch).ws] /\ Head(m.batch).ws \notin m.skip
    PROVE  AsksBreaker
<1>1. pass' = [pass EXCEPT ![f] = m] /\ quarantined' = s.quarantined
  BY DEF Suspend, BecomesShared
<1>2. pass'[f] = m /\ \A g \in Flushers : g # f => pass'[g] = pass[g]
  BY <1>1 DEF SlotHolds
<1> QED
  BY <1>1, <1>2 DEF AsksBreaker

\* The end of a pass claims nothing.
LEMMA EndAsks ==
    ASSUME SlotHolds, NEW f \in Flushers, NEW p, NEW s, EndPass(f, p, s)
    PROVE  AsksBreaker
<1>1. pass' = [pass EXCEPT ![f] = NoPass]
  BY DEF EndPass
<1>2. pass'[f].batch = <<>> /\ \A g \in Flushers : g # f => pass'[g] = pass[g]
  BY <1>1 DEF SlotHolds, NoPass
<1> QED
  BY <1>2 DEF AsksBreaker

\* The loop asks the breaker before it claims.
LEMMA LoopsOnAsks ==
    ASSUME SlotHolds, NEW f \in Flushers, NEW q, LoopsOn(f, q)
    PROVE  AsksBreaker
<1>1. ASSUME NEW p, NEW t, Ends(f, p, t, q) PROVE AsksBreaker
  BY <1>1, EndAsks DEF Ends
<1>2. ASSUME NEW m, NEW t, Claims(f, m, t, q) PROVE AsksBreaker
  BY <1>2, SuspendAsks DEF Claims
<1> QED
  BY <1>1, <1>2 DEF LoopsOn

\* An attempt that threw claims nothing but through the loop.
LEMMA ThrowsAsks ==
    ASSUME SlotHolds, NEW f \in Flushers, NEW p, p.batch = pass[f].batch, NEW s, NEW q,
           Throws(f, p, s, q)
    PROVE  AsksBreaker
<1>1. ASSUME NEW m, Probes(f, p, m, s) PROVE AsksBreaker
  BY <1>1, SuspendAsks DEF Probes
<1>2. CASE LoopsOn(f, q \o p.batch)
  <2>1. PICK all : all = q \o p.batch
    OBVIOUS
  <2> QED
    BY <1>2, <2>1, LoopsOnAsks
<1> QED
  BY <1>1, <1>2 DEF Throws

\* Nor does one that goes on after a lookup.
LEMMA LooksOnAsks ==
    ASSUME SlotHolds, NEW f \in Flushers, NEW p \in PassState, p.batch = pass[f].batch,
           NEW s, NEW q, LooksOn(f, p, s, q)
    PROVE  AsksBreaker
<1>1. CASE Suspend(f, p, s)
  BY <1>1, SuspendAsks
<1>2. CASE Suspend(f, [p EXCEPT !.pc = "store"], s)
  <2>1. PICK m : m = [p EXCEPT !.pc = "store"]
    OBVIOUS
  <2>2. m.batch = pass[f].batch
    BY <2>1 DEF PassState
  <2> QED
    BY <1>2, <2>1, <2>2, SuspendAsks
<1>3. CASE LoopsOn(f, Back(p, q))
  <2>1. PICK r : r = Back(p, q)
    OBVIOUS
  <2> QED
    BY <1>3, <2>1, LoopsOnAsks
<1> QED
  BY <1>1, <1>2, <1>3 DEF LooksOn

\* What a flusher does keeps the slot's part and asks the breaker.
LEMMA FlusherKeeps ==
    ASSUME SlotHolds, NEW f \in Flushers, FlushCall(f) \/ WaiterResumes(f) \/ PassStep(f)
    PROVE  SlotHolds' /\ AsksBreaker
<1>q. PICK q \in Seq(Entry) : q = queue /\ Len(q) <= Cap + Batch
  BY DEF SlotHolds
<1>l. ASSUME MayPass(f), LoopsOn(f, q) PROVE SlotHolds' /\ AsksBreaker
  BY <1>l, <1>q, LoopsOnKeeps, LoopsOnAsks
<1>s. ASSUME Stays PROVE SlotHolds' /\ AsksBreaker
  <2>1. OneFlushAtATime'
    BY <1>s DEF Stays, SlotHolds, OneFlushAtATime
  <2>2. SlotHolds'
    BY <1>s, <2>1 DEF Stays, SlotHolds, breakerVars
  <2>3. AsksBreaker
    BY <1>s DEF Stays, AsksBreaker
  <2> QED
    BY <2>2, <2>3
<1>a. ASSUME pass[f].pc # "none", NEW m, NEW s, Awaits(f, m, s, q)
      PROVE  SlotHolds' /\ AsksBreaker
  <2>1. MayPass(f) /\ Len(queue) + Len(pass[f].batch) <= Cap + Batch
    BY <1>a, PassIs
  <2>2. /\ Suspend(f, m, s) /\ s \in SharedState /\ s.slot = f /\ s.queue = q
        /\ Mid(m) /\ m.batch = pass[f].batch
    BY <1>a DEF Awaits
  <2> QED
    BY <1>q, <2>1, <2>2, SuspendKeeps, SuspendAsks
<1>1. CASE FlushCall(f)
  BY <1>1, <1>q, <1>l, <1>s, FlushCallIs
<1>2. CASE WaiterResumes(f)
  BY <1>2, <1>q, <1>l, <1>s, WaiterResumesIs
<1>3. CASE BorrowOpens(f)
  <2>1. pass[f].pc # "none"
    BY <1>3 DEF BorrowOpens
  <2>2. PICK m, s : Awaits(f, m, s, q)
    BY <1>3, <1>q, BorrowOpensIs
  <2> QED
    BY <1>a, <2>1, <2>2
<1>4. CASE BorrowFails(f) \/ StoreFails(f) \/ StoreTimesOut(f)
  <2>1. pass[f].pc # "none"
    BY <1>4 DEF BorrowFails, StoreFails, StoreTimesOut
  <2>2. MayPass(f) /\ Len(queue) + Len(pass[f].batch) <= Cap + Batch
    BY <2>1, PassIs
  <2>3. PICK p, s : Failed(f, p, s, q)
    BY <1>4, <1>q, FailsIs
  <2>4. /\ Throws(f, p, s, q) /\ s \in SharedState /\ s.slot = f /\ s.queue = q
        /\ Batchy(p) /\ p.batch = pass[f].batch
    BY <2>3 DEF Failed
  <2> QED
    BY <1>q, <2>2, <2>4, ThrowsKeeps, ThrowsAsks
<1>5. CASE NodeFound(f) \/ NodeNotFound(f)
  <2>1. pass[f].pc # "none"
    BY <1>5 DEF NodeFound, NodeNotFound
  <2>2. MayPass(f) /\ Len(queue) + Len(pass[f].batch) <= Cap + Batch
    BY <2>1, PassIs
  <2>3. PICK p, s : Looks(f, p, s, q)
    BY <1>5, <1>q, NodeFoundIs, NodeNotFoundIs
  <2>4. /\ LooksOn(f, p, s, q) /\ s \in SharedState /\ s.slot = f /\ s.queue = q
        /\ Batchy(p) /\ p.pc = "check" /\ p.held = BatchWorkspace(p)
        /\ p.batch = pass[f].batch /\ p \in PassState
    BY <2>3 DEF Looks, Batchy
  <2> QED
    BY <1>q, <2>2, <2>4, LooksOnKeeps, LooksOnAsks
<1>6. CASE StoreSettles(f)
  <2>1. pass[f].pc # "none"
    BY <1>6 DEF StoreSettles
  <2>2. PICK m, s : Awaits(f, m, s, q)
    BY <1>6, <1>q, StoreSettlesIs
  <2> QED
    BY <1>a, <2>1, <2>2
<1>7. CASE EmbedsSettle(f)
  <2>1. pass[f].pc # "none"
    BY <1>7 DEF EmbedsSettle
  <2>2. /\ MayPass(f) /\ Batchy(pass[f])
        /\ Len(queue) + Len(pass[f].batch) <= Cap + Batch
    BY <2>1, PassIs
  <2>3. PICK o : o = pass[f]
    OBVIOUS
  <2>4. PICK r : r = Back(o, q)
    OBVIOUS
  <2>5. LoopsOn(f, r)
    BY <1>7, <1>q, <2>3, <2>4, EmbedsSettleIs
  <2> QED
    BY <1>q, <2>2, <2>3, <2>4, <2>5, BackKeeps, LoopsOnAsks
<1> QED
  BY <1>1, <1>2, <1>3, <1>4, <1>5, <1>6, <1>7 DEF PassStep

\* A flusher's action keeps the types of the rest of the state.
LEMMA RestKeeps ==
    ASSUME QueueInv, NEW f \in Flushers, FlushCall(f) \/ WaiterResumes(f) \/ PassStep(f)
    PROVE  RestHolds'
<1>0. SlotHolds /\ RestHolds
  BY DEF QueueInv
<1>1. CASE \/ FlushCall(f) \/ WaiterResumes(f) \/ BorrowOpens(f) \/ BorrowFails(f)
           \/ NodeFound(f) \/ NodeNotFound(f) \/ StoreFails(f)
  <2>1. UNCHANGED <<store, writes, ghostVars, foldVars>>
    BY <1>1 DEF FlushCall, WaiterResumes, BorrowOpens, BorrowFails, NodeFound, NodeNotFound,
                StoreFails
  <2> QED
    BY <1>0, <2>1 DEF RestHolds, FoldTypeOK, ghostVars, foldVars
<1>2. CASE StoreSettles(f)
  <2>1. PICK p : p = pass[f]
    OBVIOUS
  <2>2. Batchy(p) /\ p \in PassState /\ BatchWorkspace(p) \in Workspaces
    BY <1>0, <1>2, <2>1, PassIs, AttemptedIs DEF StoreSettles
  <2>3. PICK rows \in Seq(Entry) : rows = p.rows
    BY <2>2 DEF PassState
  <2>4. /\ store' = Upserted(BatchWorkspace(p), rows)
        /\ givenUp' = givenUp \cup {e \in ToSet(rows) : e.id \in Rejected}
        /\ UNCHANGED <<writes, issued, accepted, kills, foldVars>>
    BY <1>2, <2>1, <2>3 DEF StoreSettles
  <2>5. store' \in [Workspaces -> [Ids -> 0..MaxPerRequest]]
    BY <1>0, <2>2, <2>4, UpsertedIs DEF RestHolds
  <2>6. ToSet(rows) \subseteq Entry
    <3>1. \A i \in DOMAIN rows : rows[i] \in Entry
      OBVIOUS
    <3> QED
      BY <3>1 DEF ToSet
  <2> QED
    BY <1>0, <2>4, <2>5, <2>6 DEF RestHolds, FoldTypeOK, foldVars
<1>3. CASE StoreTimesOut(f)
  <2>1. PICK p : p = pass[f]
    OBVIOUS
  <2>2. p \in PassState /\ BatchWorkspace(p) \in Workspaces
    BY <1>0, <1>3, <2>1, PassIs, AttemptedIs DEF StoreTimesOut
  <2>3. writes' = writes \cup {[ws |-> BatchWorkspace(p), rows |-> p.rows]}
        /\ UNCHANGED <<store, ghostVars, foldVars>>
    BY <1>3, <2>1 DEF StoreTimesOut
  <2>4. \A w \in writes' : w.ws \in Workspaces /\ w.rows \in Seq(Entry)
    BY <1>0, <2>2, <2>3 DEF RestHolds, PassState
  <2> QED
    BY <1>0, <2>3, <2>4 DEF RestHolds, FoldTypeOK, foldVars, ghostVars
<1>4. CASE EmbedsSettle(f)
  <2>1. PICK ws \in Workspaces : ws = BatchWorkspace(pass[f])
    BY <1>0, <1>4, PassIs, AttemptedIs DEF EmbedsSettle
  <2>2. BatchLanded(ws) /\ UNCHANGED <<store, writes, ghostVars>>
    BY <1>4, <2>1 DEF EmbedsSettle
  <2>3. FoldTypeOK'
    <3>0. FoldTypeOK
      BY <1>0 DEF RestHolds
    <3>1. PICK landed \in Nat : landed = batchesSinceFold + 1
      BY <3>0 DEF FoldTypeOK
    <3>2. shuttingDown' \in BOOLEAN
      BY <2>2, <3>0 DEF BatchLanded, FoldTypeOK
    <3>3. CASE FoldFires(landed)
      <4>1. batchesSinceFold' = 0 /\ foldDue' = FALSE /\ foldInFlight' = ws
        BY <2>2, <3>1, <3>3 DEF BatchLanded
      <4> QED
        BY <3>2, <4>1 DEF FoldTypeOK
    <3>4. CASE ~FoldFires(landed)
      <4>1. batchesSinceFold' = landed /\ UNCHANGED <<foldDue, foldInFlight>>
        BY <2>2, <3>1, <3>4 DEF BatchLanded
      <4> QED
        BY <3>0, <3>2, <4>1 DEF FoldTypeOK
    <3> QED
      BY <3>3, <3>4
  <2> QED
    BY <1>0, <2>2, <2>3 DEF RestHolds, ghostVars
<1> QED
  BY <1>1, <1>2, <1>3, <1>4 DEF PassStep

\* The invariant holds at the start of a process with an empty journal.
LEMMA QueueInit == Init => QueueInv
<1> SUFFICES ASSUME Init PROVE QueueInv
  OBVIOUS
<1>0. <<>> \in Seq(Entry) /\ Len(<<>>) = 0
  OBVIOUS
<1>c. Cap \in Nat /\ Batch \in Nat /\ Threshold \in Nat /\ MaxPerRequest \in Nat
      /\ MaxKills \in Nat /\ None \notin Flushers
  BY QueueAssumption
<1>1. \A f \in Flushers : pass[f] = NoPass
  BY DEF Init
<1>2. OneFlushAtATime
  BY <1>1, <1>c, NoPassIs DEF Init, OneFlushAtATime
<1>3. Len(queue) = 0 /\ 0 <= Cap + Batch
  BY <1>0, <1>c DEF Init
<1>4. \A f \in Flushers : Len(queue) + Len(pass[f].batch) <= Cap + Batch
  BY <1>1, <1>3, NoPassIs
<1>5. pass \in [Flushers -> PassState] /\ \A f \in Flushers : PassHolds(pass[f])
  BY <1>1, NoPassIs DEF Init, PassHolds
<1>6. SlotHolds
  BY <1>0, <1>2, <1>3, <1>4, <1>5, <1>c DEF Init, SlotHolds
<1>7. RestHolds
  <2>1. FoldTypeOK
    BY DEF Init, FoldInit, FoldTypeOK
  <2>2. store \in [Workspaces -> [Ids -> 0..MaxPerRequest]]
    BY <1>c DEF Init
  <2>3. issued \in [Requests -> 0..MaxPerRequest] /\ kills \in 0..MaxKills
    BY <1>c DEF Init
  <2>4. writes = {} /\ accepted = {} /\ givenUp = {}
    BY DEF Init
  <2> QED
    BY <2>1, <2>2, <2>3, <2>4 DEF RestHolds
<1> QED
  BY <1>6, <1>7 DEF QueueInv

\* Every step keeps it, and every claim asks the breaker.
LEMMA QueueNext == QueueInv /\ [Next]_vars => QueueInv' /\ (AsksBreaker \/ UNCHANGED vars)
<1> SUFFICES ASSUME QueueInv, [Next]_vars PROVE QueueInv' /\ (AsksBreaker \/ UNCHANGED vars)
  OBVIOUS
<1>0. SlotHolds /\ RestHolds
  BY DEF QueueInv
\* The queue's part is left alone.
<1>u. ASSUME UNCHANGED queueVars PROVE SlotHolds' /\ AsksBreaker
  <2>1. OneFlushAtATime'
    BY <1>0, <1>u DEF SlotHolds, OneFlushAtATime, queueVars, slotVars
  <2>2. SlotHolds'
    BY <1>0, <1>u, <2>1 DEF SlotHolds, queueVars, slotVars, breakerVars
  <2> QED
    BY <1>u, <2>2 DEF AsksBreaker, queueVars
<1>p. ASSUME UNCHANGED pass PROVE AsksBreaker
  BY <1>p DEF AsksBreaker
<1>1. ASSUME NEW r \in Requests, EnqueueVerbatim(r[1], r[2]) PROVE QueueInv' /\ AsksBreaker
  BY <1>1, <1>p, EnqueueKeeps DEF EnqueueVerbatim
<1>k. ASSUME NEW lines, KillAndReplay(lines) PROVE AsksBreaker
  <2>1. \A f \in Flushers : pass'[f] = NoPass
    BY <1>k DEF KillAndReplay
  <2> QED
    BY <2>1 DEF AsksBreaker, NoPass
<1>2. ASSUME NEW r \in Requests, KillInEnqueue(r[1], r[2]) PROVE QueueInv' /\ AsksBreaker
  <2>1. PICK e : e = NextVersion(r[1], r[2])
    OBVIOUS
  <2>2. e \in Entry /\ issued' \in [Requests -> 0..MaxPerRequest]
    BY <1>0, <1>2, <2>1, NextVersionIs DEF KillInEnqueue
  <2>a. <<e>> \in Seq(Entry)
    BY <2>2
  <2>3. PICK lines \in Seq(Entry) : lines = <<e>>
    BY <2>a
  <2>4. KillAndReplay(lines)
    BY <1>2, <2>1, <2>3 DEF KillInEnqueue
  <2> QED
    BY <1>k, <2>2, <2>4, KillKeeps
<1>3. ASSUME NEW f \in Flushers, FlushCall(f) \/ WaiterResumes(f) \/ PassStep(f)
      PROVE  QueueInv' /\ AsksBreaker
  BY <1>0, <1>3, FlusherKeeps, RestKeeps DEF QueueInv
<1>4. ASSUME NEW w \in writes, AbandonedWriteLands(w) PROVE QueueInv' /\ AsksBreaker
  <2>1. PICK ws \in Workspaces, rows \in Seq(Entry) : ws = w.ws /\ rows = w.rows
    BY <1>0 DEF RestHolds
  <2>2. store' = Upserted(ws, rows) /\ writes' = writes \ {w}
        /\ UNCHANGED <<queueVars, ghostVars, foldVars>>
    BY <1>4, <2>1 DEF AbandonedWriteLands
  <2>3. store' \in [Workspaces -> [Ids -> 0..MaxPerRequest]]
    BY <1>0, <2>2, UpsertedIs DEF RestHolds
  <2>4. RestHolds'
    BY <1>0, <2>2, <2>3 DEF RestHolds, FoldTypeOK, foldVars, ghostVars
  <2> QED
    BY <1>u, <2>2, <2>4 DEF QueueInv
<1>5. ASSUME NEW w \in writes, AbandonedWriteFails(w) PROVE QueueInv' /\ AsksBreaker
  <2>1. writes' = writes \ {w} /\ UNCHANGED <<queueVars, store, ghostVars, foldVars>>
    BY <1>5 DEF AbandonedWriteFails
  <2>2. RestHolds'
    BY <1>0, <2>1 DEF RestHolds, FoldTypeOK, foldVars, ghostVars
  <2> QED
    BY <1>u, <2>1, <2>2 DEF QueueInv
<1>6. ASSUME NEW ws \in Workspaces, CooldownElapses(ws) PROVE QueueInv' /\ AsksBreaker
  <2>1. quarantined' = [quarantined EXCEPT ![ws] = FALSE]
        /\ UNCHANGED <<queue, journal, store, claimed, streak, slotVars, pass,
                       writes, ghostVars, foldVars>>
    BY <1>6 DEF CooldownElapses
  <2>2. quarantined' \in [Workspaces -> BOOLEAN]
    BY <1>0, <2>1 DEF SlotHolds
  <2>3. OneFlushAtATime'
    BY <1>0, <2>1 DEF SlotHolds, OneFlushAtATime, slotVars
  <2>4. SlotHolds'
    BY <1>0, <2>1, <2>2, <2>3 DEF SlotHolds, slotVars
  <2>5. RestHolds'
    BY <1>0, <2>1 DEF RestHolds, FoldTypeOK, foldVars, ghostVars
  <2> QED
    BY <1>p, <2>1, <2>4, <2>5 DEF QueueInv
<1>7. CASE Kill
  <2>a. <<>> \in Seq(Entry)
    OBVIOUS
  <2>1. PICK lines \in Seq(Entry) : lines = <<>>
    BY <2>a
  <2>2. KillAndReplay(lines) /\ issued' = issued
    BY <1>7, <2>1 DEF Kill
  <2> QED
    BY <1>0, <1>k, <2>2, KillKeeps DEF RestHolds
<1>8. CASE FoldStep
  <2>1. UNCHANGED <<queueVars, store, writes, ghostVars>>
    BY <1>8 DEF FoldStep
  <2>2. FoldTypeOK'
    BY <1>0, <1>8 DEF FoldStep, FoldSettles, FoldIntervalPasses, ShutdownBegins, RestHolds,
                      FoldTypeOK
  <2>3. RestHolds'
    BY <1>0, <2>1, <2>2 DEF RestHolds, ghostVars
  <2> QED
    BY <1>u, <2>1, <2>3 DEF QueueInv
<1>9. CASE UNCHANGED vars
  <2>1. UNCHANGED queueVars
    BY <1>9 DEF vars, queueVars
  <2>2. RestHolds'
    BY <1>0, <1>9 DEF vars, RestHolds, FoldTypeOK, foldVars, ghostVars
  <2> QED
    BY <1>9, <1>u, <2>1, <2>2 DEF QueueInv
<1> QED
  BY <1>1, <1>2, <1>3, <1>4, <1>5, <1>6, <1>7, <1>8, <1>9 DEF Next

\* It implies the types, one pass at a time, and the bound.
LEMMA QueueInvIs == QueueInv => QueueOK /\ QueueBounded
<1> SUFFICES ASSUME QueueInv PROVE QueueOK /\ QueueBounded
  OBVIOUS
<1>0. SlotHolds /\ RestHolds
  BY DEF QueueInv
<1>1. ASSUME NEW f \in Flushers PROVE PassTypeOK(pass[f])
  <2>1. CASE pass[f] = NoPass
    BY <2>1, NoPassIs DEF PassTypeOK, NoPass
  <2>2. CASE Mid(pass[f])
    <3>1. PICK p : p = pass[f]
      OBVIOUS
    <3>2. Len(Attempted(p)) \in 1 .. Len(p.batch) /\ Len(p.batch) \in Nat /\ p.checked \in Nat
      BY <2>2, <3>1, AttemptedIs DEF Mid, Batchy, PassState
    <3>3. p.checked <= Len(Attempted(p))
      BY <2>2, <3>1 DEF Mid
    <3>4. p.checked <= Len(p.batch)
      BY <3>2, <3>3
    <3> QED
      BY <2>2, <3>1, <3>4 DEF PassTypeOK, Mid
  <2> QED
    BY <1>0, <2>1, <2>2 DEF SlotHolds, PassHolds
<1>2. TypeOK
  BY <1>0, <1>1 DEF SlotHolds, RestHolds, TypeOK
<1> QED
  BY <1>0, <1>2 DEF QueueOK, SlotHolds, QueueBounded

-----------------------------------------------------------------------------
(* Whatever the constants: the queue keeps its type with one pass at a     *)
(* time, whichever calls wait, wake, return and take over.                 *)
THEOREM QueueTheorem == Spec => []QueueOK
<1>1. QueueInv /\ [Next]_vars => QueueInv'
  BY QueueNext
<1> QED
  BY QueueInit, <1>1, QueueInvIs, PTL DEF Spec

(* A requeued batch is all that the cap is passed by, however long stores  *)
(* fail and callers go on storing.                                         *)
THEOREM BoundTheorem == Spec => []QueueBounded
<1>1. QueueInv /\ [Next]_vars => QueueInv'
  BY QueueNext
<1> QED
  BY QueueInit, <1>1, QueueInvIs, PTL DEF Spec

(* No pass claims an entry of a workspace whose breaker is open, nor of    *)
(* one that it gave up on before.                                          *)
THEOREM BreakerTheorem == Spec => BreakerRespected
<1>1. QueueInv /\ [Next]_vars => QueueInv'
  BY QueueNext
<1>2. QueueInv /\ [Next]_vars => [AsksBreaker]_vars
  BY QueueNext
<1>3. BreakerRespected <=> [][AsksBreaker]_vars
  BY PTL DEF BreakerRespected, AsksBreaker
<1> QED
  BY QueueInit, <1>1, <1>2, <1>3, PTL DEF Spec

-----------------------------------------------------------------------------
(* Sequences of entries: joined, without their first, with one more.       *)
LEMMA JoinedIs ==
    ASSUME NEW q \in Seq(Entry), NEW b \in Seq(Entry), NEW all, all = q \o b
    PROVE  /\ all \in Seq(Entry)
           /\ ToSet(all) = ToSet(q) \cup ToSet(b)
           /\ Distinct(q) /\ Distinct(b) /\ Apart(q, b) => Distinct(all)
<1>1. PICK m \in Nat : m = Len(q) /\ DOMAIN q = 1 .. m
  BY LenProperties
<1>2. PICK n \in Nat : n = Len(b) /\ DOMAIN b = 1 .. n
  BY LenProperties
<1>3. all \in Seq(Entry) /\ Len(all) = m + n
  BY <1>1, <1>2, ConcatProperties
<1>4. DOMAIN all = 1 .. m + n
  BY <1>3, LenProperties
<1>5. \A i \in 1 .. m + n : all[i] = IF i <= m THEN q[i] ELSE b[i - m]
  BY <1>1, <1>2, ConcatProperties
<1>6. ASSUME NEW i \in 1 .. m PROVE i \in 1 .. m + n /\ all[i] = q[i]
  <2>1. i \in 1 .. m + n /\ i <= m
    OBVIOUS
  <2> QED
    BY <1>5, <2>1, Zenon
<1>7. ASSUME NEW i \in 1 .. n PROVE i + m \in 1 .. m + n /\ all[i + m] = b[i]
  <2>1. i + m \in 1 .. m + n /\ ~(i + m <= m) /\ (i + m) - m = i
    OBVIOUS
  <2> QED
    BY <1>5, <2>1, Zenon
<1>8. ASSUME NEW i \in 1 .. m + n
      PROVE  (i \in 1 .. m /\ all[i] = q[i]) \/ (i - m \in 1 .. n /\ all[i] = b[i - m])
  <2>1. CASE i <= m
    <3>1. i \in 1 .. m
      BY <2>1
    <3> QED
      BY <1>6, <3>1, Zenon
  <2>2. CASE ~(i <= m)
    <3>1. i - m \in 1 .. n
      BY <2>2
    <3> QED
      BY <1>5, <2>2, <3>1, Zenon
  <2> QED
    BY <2>1, <2>2
<1>9. ToSet(all) = ToSet(q) \cup ToSet(b)
  <2>1. ASSUME NEW x \in ToSet(all) PROVE x \in ToSet(q) \cup ToSet(b)
    <3>1. PICK i \in 1 .. m + n : x = all[i]
      BY <1>4 DEF ToSet
    <3> QED
      BY <1>1, <1>2, <1>8, <3>1 DEF ToSet
  <2>2. ASSUME NEW x \in ToSet(q) PROVE x \in ToSet(all)
    <3>1. PICK i \in 1 .. m : x = q[i]
      BY <1>1 DEF ToSet
    <3> QED
      BY <1>4, <1>6, <3>1 DEF ToSet
  <2>3. ASSUME NEW x \in ToSet(b) PROVE x \in ToSet(all)
    <3>1. PICK i \in 1 .. n : x = b[i]
      BY <1>2 DEF ToSet
    <3>2. i + m \in DOMAIN all /\ all[i + m] = x
      BY <1>4, <1>7, <3>1
    <3> QED
      BY <3>2 DEF ToSet
  <2> QED
    BY <2>1, <2>2, <2>3
<1>10. ASSUME Distinct(q), Distinct(b), Apart(q, b) PROVE Distinct(all)
  <2>1. ASSUME NEW i \in 1 .. m + n, NEW j \in 1 .. m + n, all[i].id = all[j].id PROVE i = j
    <3>1. CASE i \in 1 .. m /\ all[i] = q[i] /\ j \in 1 .. m /\ all[j] = q[j]
      BY <1>1, <1>10, <2>1, <3>1 DEF Distinct
    <3>2. CASE /\ i - m \in 1 .. n /\ all[i] = b[i - m]
               /\ j - m \in 1 .. n /\ all[j] = b[j - m]
      <4>1. i - m = j - m
        BY <1>2, <1>10, <2>1, <3>2 DEF Distinct
      <4> QED
        BY <4>1
    <3>3. CASE i \in 1 .. m /\ all[i] = q[i] /\ j - m \in 1 .. n /\ all[j] = b[j - m]
      BY <1>1, <1>2, <1>10, <2>1, <3>3 DEF Apart
    <3>4. CASE j \in 1 .. m /\ all[j] = q[j] /\ i - m \in 1 .. n /\ all[i] = b[i - m]
      BY <1>1, <1>2, <1>10, <2>1, <3>4 DEF Apart
    <3> QED
      BY <1>8, <3>1, <3>2, <3>3, <3>4
  <2> QED
    BY <1>4, <2>1 DEF Distinct
<1> QED
  BY <1>3, <1>9, <1>10

\* A batch without its first entry: what the requeue after a probe puts back.
LEMMA TailIs ==
    ASSUME NEW b \in Seq(Entry), Len(b) >= 1, NEW t, t = Tail(b)
    PROVE  /\ t \in Seq(Entry)
           /\ ToSet(b) = {b[1]} \cup ToSet(t)
           /\ Distinct(b) => Distinct(t)
           /\ \A q : Apart(q, b) => Apart(q, t)
<1>1. PICK n \in Nat : n = Len(b) /\ DOMAIN b = 1 .. n /\ n >= 1
  BY LenProperties
<1>2. t \in Seq(Entry) /\ Len(t) = n - 1 /\ DOMAIN t = 1 .. n - 1
  BY <1>1, HeadTailProperties, LenProperties
<1>3. \A i \in 1 .. n - 1 : i + 1 \in 1 .. n /\ t[i] = b[i + 1]
  BY <1>1
<1>4. ToSet(b) = {b[1]} \cup ToSet(t)
  <2>1. ASSUME NEW x \in ToSet(b), x # b[1] PROVE x \in ToSet(t)
    <3>1. PICK i \in 1 .. n : x = b[i]
      BY <1>1, <2>1 DEF ToSet
    <3>2. i - 1 \in 1 .. n - 1 /\ (i - 1) + 1 = i
      BY <2>1, <3>1
    <3>3. t[i - 1] = x
      BY <1>3, <3>1, <3>2
    <3> QED
      BY <1>2, <3>2, <3>3 DEF ToSet
  <2>2. ASSUME NEW x \in ToSet(t) PROVE x \in ToSet(b)
    <3>1. PICK i \in 1 .. n - 1 : x = t[i]
      BY <1>2, <2>2 DEF ToSet
    <3>2. i + 1 \in DOMAIN b /\ x = b[i + 1]
      BY <1>1, <1>3, <3>1
    <3> QED
      BY <3>2 DEF ToSet
  <2>3. b[1] \in ToSet(b)
    BY <1>1 DEF ToSet
  <2> QED
    BY <2>1, <2>2, <2>3
<1>5. ASSUME Distinct(b) PROVE Distinct(t)
  <2>1. ASSUME NEW i \in 1 .. n - 1, NEW j \in 1 .. n - 1, t[i].id = t[j].id PROVE i = j
    <3>1. b[i + 1].id = b[j + 1].id /\ i + 1 \in DOMAIN b /\ j + 1 \in DOMAIN b
      BY <1>1, <1>3, <2>1
    <3>2. i + 1 = j + 1
      BY <1>5, <3>1 DEF Distinct
    <3> QED
      BY <3>2
  <2> QED
    BY <1>2, <2>1 DEF Distinct
<1>6. ASSUME NEW q, Apart(q, b) PROVE Apart(q, t)
  <2>1. ASSUME NEW i \in DOMAIN q, NEW j \in 1 .. n - 1 PROVE q[i].id # t[j].id
    BY <1>1, <1>3, <1>6 DEF Apart
  <2> QED
    BY <1>2, <2>1 DEF Apart
<1> QED
  BY <1>2, <1>4, <1>5, <1>6

-----------------------------------------------------------------------------
(* Nothing is lost.  The hypotheses on the constants: every text is stored *)
(* once, in one workspace, and the cap is never reached by them all; what  *)
(* fails, stalls, is rejected or is killed is arbitrary.                   *)
StoredOnce ==
    /\ MaxPerRequest = 1
    /\ \A r, t \in Requests : r[2] = t[2] => r = t
    /\ IsFiniteSet(Requests) /\ Cardinality(Requests) <= Cap

\* q waits, b is in the hands of a pass, j is the journal.
Carried(q, b, j) ==
    /\ Distinct(q) /\ Distinct(b) /\ Apart(q, b)
    /\ ToSet(q) \subseteq ToSet(j) /\ ToSet(b) \subseteq ToSet(j)

IssuedAll(j) ==
    \A e \in ToSet(j) : <<e.ws, e.id>> \in Requests /\ issued[<<e.ws, e.id>>] = 1

\* What the memory of a pass says of the store.
Progress(p) ==
    /\ p.pc \in {"check", "store"} => ToSet(p.rows) \subseteq ToSet(Attempted(p))
    /\ p.pc = "check" =>
          \A i \in 1 .. p.checked :
             Attempted(p)[i] \in ToSet(p.rows) \/ Landed(Attempted(p)[i])
    /\ p.pc = "store" =>
          \A e \in ToSet(Attempted(p)) : e \in ToSet(p.rows) \/ Landed(e)
    /\ p.pc = "settle" =>
          \A e \in ToSet(Attempted(p)) : e \in givenUp \/ Landed(e)

Accounted(e) == Landed(e) \/ e \in ToSet(queue) \/ \E f \in Flushers : e \in Held(f)

KeptInv ==
    /\ Distinct(queue) /\ Distinct(journal) /\ ToSet(queue) \subseteq ToSet(journal)
    /\ IssuedAll(journal)
    /\ \A f \in Flushers : Carried(queue, pass[f].batch, journal) /\ Progress(pass[f])
    /\ \A e \in accepted \ givenUp : Accounted(e)

\* A journal of distinct requests is within the cap.
LEMMA JournalFits ==
    ASSUME StoredOnce, NEW j \in Seq(Entry), Distinct(j),
           \A e \in ToSet(j) : <<e.ws, e.id>> \in Requests
    PROVE  Len(j) <= Cap
<1>1. PICK n \in Nat : n = Len(j) /\ DOMAIN j = 1 .. n
  BY LenProperties
<1>2. PICK g : g = [i \in 1 .. n |-> <<j[i].ws, j[i].id>>]
  OBVIOUS
<1>3. g \in [1 .. n -> Requests]
  <2>1. \A i \in 1 .. n : j[i] \in ToSet(j)
    BY <1>1 DEF ToSet
  <2> QED
    BY <1>2, <2>1
<1>4. \A i, k \in 1 .. n : g[i] = g[k] => i = k
  <2>1. \A i, k \in 1 .. n : g[i] = g[k] => j[i].id = j[k].id
    BY <1>2
  <2> QED
    BY <1>1, <2>1 DEF Distinct
<1>5. g \in Injection(1 .. n, Requests)
  BY <1>3, <1>4 DEF Injection, IsInjective
<1>6. IsFiniteSet(1 .. n) /\ Cardinality(1 .. n) = n
  BY FS_Interval
<1>7. Cardinality(1 .. n) <= Cardinality(Requests)
  BY <1>5, <1>6, FS_Injection DEF StoredOnce, ExistsInjection
<1>8. Cardinality(Requests) \in Nat
  BY FS_CardinalityType DEF StoredOnce
<1> QED
  BY <1>1, <1>6, <1>7, <1>8, QueueAssumption DEF StoredOnce

\* Where a pass that begins an attempt stands: it holds its whole batch.
HeldBy(p) ==
    CASE p.pc \in {"borrow", "check", "store"} -> ToSet(p.batch)
      [] p.pc = "settle" /\ p.probe -> ToSet(Tail(p.batch))
      [] OTHER -> {}

\* A pass that begins an attempt holds all of its batch, and knows nothing of the store yet.
LEMMA BegunHolds ==
    ASSUME NEW m, Mid(m), Begun(m)
    PROVE  HeldBy(m) = ToSet(m.batch) /\ Progress(m)
<1>1. CASE m.pc = "borrow"
  BY <1>1 DEF HeldBy, Progress
<1>2. CASE m.pc = "check" /\ m.checked = 0 /\ m.rows = <<>>
  <2>1. HeldBy(m) = ToSet(m.batch)
    BY <1>2 DEF HeldBy
  <2>2. ToSet(m.rows) = {}
    BY <1>2 DEF ToSet
  <2>3. \A i \in 1 .. m.checked : FALSE
    BY <1>2
  <2> QED
    BY <1>2, <2>1, <2>2, <2>3 DEF Progress
<1>3. CASE m.pc = "store" /\ m.rows = Attempted(m)
  BY <1>3 DEF HeldBy, Progress
<1> QED
  BY <1>1, <1>2, <1>3 DEF Begun

\* The store is written to, and never to an older version.
StoreGrows ==
    /\ \A e \in Entry : Landed(e) => Landed(e)'
    /\ givenUp \subseteq givenUp'

\* A batch is the entries of the attempt and, for a probe, the others.
LEMMA AttemptedSet ==
    ASSUME NEW p, Batchy(p)
    PROVE  /\ ToSet(Attempted(p)) \subseteq Entry
           /\ DOMAIN Attempted(p) = 1 .. Len(Attempted(p)) /\ Len(Attempted(p)) \in Nat
           /\ \A e \in ToSet(Attempted(p)) : e.ws = BatchWorkspace(p)
           /\ ToSet(p.batch) = ToSet(Attempted(p)) \cup IF p.probe THEN ToSet(Tail(p.batch)) ELSE {}
<1>1. PICK b \in Seq(Entry) : b = p.batch /\ Len(b) >= 1
  BY QueueAssumption DEF Batchy, PassState
<1>2. PICK a \in Seq(Entry) : a = Attempted(p)
  BY AttemptedIs
<1>3. DOMAIN a = 1 .. Len(a) /\ Len(a) \in Nat
  BY LenProperties
<1>4. \A i \in 1 .. Len(a) : a[i] \in Entry /\ a[i].ws = BatchWorkspace(p)
  BY <1>2, AttemptedIs
<1>5. ToSet(a) \subseteq Entry /\ \A e \in ToSet(a) : e.ws = BatchWorkspace(p)
  BY <1>3, <1>4 DEF ToSet
<1>6. CASE p.probe
  <2>1. a = <<b[1]>>
    BY <1>1, <1>2, <1>6 DEF Attempted
  <2>2. ToSet(a) = {b[1]}
    BY <2>1 DEF ToSet
  <2>3. ToSet(b) = {b[1]} \cup ToSet(Tail(b))
    BY <1>1, TailIs
  <2> QED
    BY <1>1, <1>2, <1>3, <1>5, <1>6, <2>2, <2>3
<1>7. CASE ~p.probe
  <2>1. a = b
    BY <1>1, <1>2, <1>7 DEF Attempted
  <2> QED
    BY <1>1, <1>2, <1>3, <1>5, <1>7, <2>1
<1> QED
  BY <1>6, <1>7

\* What a pass knows of the store stays so while the store only grows.
LEMMA ProgressGrows ==
    ASSUME NEW p, PassHolds(p), Progress(p), StoreGrows
    PROVE  Progress(p)'
<1>1. CASE p = NoPass
  BY <1>1 DEF NoPass, Progress
<1>2. CASE Mid(p)
  <2>1. /\ ToSet(Attempted(p)) \subseteq Entry /\ Len(Attempted(p)) \in Nat
        /\ DOMAIN Attempted(p) = 1 .. Len(Attempted(p))
        /\ p.checked <= Len(Attempted(p)) /\ p.checked \in Nat
    BY <1>2, AttemptedSet DEF Mid, Batchy, PassState
  <2>2. \A i \in 1 .. p.checked : i \in DOMAIN Attempted(p)
    BY <2>1
  <2>3. \A i \in 1 .. p.checked : Attempted(p)[i] \in Entry
    BY <2>1, <2>2 DEF ToSet
  <2>4. p.pc = "check" =>
          \A i \in 1 .. p.checked :
             Attempted(p)[i] \in ToSet(p.rows) \/ Landed(Attempted(p)[i])'
    BY <2>3 DEF Progress, StoreGrows
  <2>5. p.pc = "store" =>
          \A e \in ToSet(Attempted(p)) : e \in ToSet(p.rows) \/ Landed(e)'
    BY <2>1 DEF Progress, StoreGrows
  <2>6. p.pc = "settle" =>
          \A e \in ToSet(Attempted(p)) : e \in givenUp' \/ Landed(e)'
    BY <2>1 DEF Progress, StoreGrows
  <2> QED
    BY <2>4, <2>5, <2>6 DEF Progress
<1> QED
  BY <1>1, <1>2 DEF PassHolds

\* A pass that is over carries nothing.
LEMMA EmptyCarried ==
    ASSUME NEW q, NEW b, NEW j, Carried(q, b, j)
    PROVE  Carried(q, NoPass.batch, j)
<1>1. NoPass.batch = <<>>
  BY DEF NoPass
<1>2. ToSet(<<>>) = {} /\ DOMAIN <<>> = {}
  BY DEF ToSet
<1>3. Distinct(<<>>) /\ Apart(q, <<>>)
  BY DEF Distinct, Apart
<1> QED
  BY <1>1, <1>2, <1>3 DEF Carried

\* A pass that awaits again loses nothing if it holds what its store and the queue have not.
LEMMA SuspendKept ==
    ASSUME SlotHolds, KeptInv, NEW f, MayPass(f), NEW m, NEW s, NEW q, Suspend(f, m, s),
           s.queue = q, Carried(q, m.batch, journal), Progress(m)',
           UNCHANGED <<issued, accepted>>,
           \A e \in accepted \ givenUp' : Landed(e)' \/ e \in ToSet(q) \/ e \in HeldBy(m)
    PROVE  KeptInv'
<1> USE DEF MayPass
<1>1. /\ queue' = q /\ journal' = journal
      /\ pass' = [pass EXCEPT ![f] = m]
  BY DEF Suspend, BecomesShared
<1>2. pass'[f] = m /\ \A g \in Flushers : g # f => pass'[g] = pass[g]
  BY <1>1 DEF SlotHolds
<1>3. \A g \in Flushers : g # f => pass[g].pc = "none"
  BY QueueAssumption DEF SlotHolds, OneFlushAtATime
<1>4. \A g \in Flushers : g # f => pass'[g] = NoPass
  BY <1>2, <1>3 DEF SlotHolds, PassHolds, Mid
<1>5. Distinct(queue)' /\ Distinct(journal)' /\ ToSet(queue') \subseteq ToSet(journal')
  BY <1>1 DEF Carried, Distinct, KeptInv
<1>6. IssuedAll(journal)'
  BY <1>1 DEF KeptInv, IssuedAll
<1>7. ASSUME NEW g \in Flushers PROVE Carried(queue', pass'[g].batch, journal')
  <2>1. CASE g = f
    BY <1>1, <1>2, <2>1
  <2>2. CASE g # f
    BY <1>1, <1>4, <2>2, EmptyCarried
  <2> QED
    BY <2>1, <2>2
<1>8. ASSUME NEW g \in Flushers PROVE Progress(pass[g])'
  <2>1. CASE g = f
    BY <1>2, <2>1 DEF Progress
  <2>2. CASE g # f
    BY <1>4, <2>2 DEF Progress, NoPass
  <2> QED
    BY <2>1, <2>2
<1>9. ASSUME NEW e \in accepted' \ givenUp' PROVE Accounted(e)'
  <2>1. Landed(e)' \/ e \in ToSet(queue') \/ e \in HeldBy(m)
    BY <1>1, <1>9
  <2>2. HeldBy(m) = Held(f)'
    BY <1>2 DEF Held, HeldBy
  <2> QED
    BY <2>1, <2>2 DEF Accounted
<1>10. \A g \in Flushers : Carried(queue, pass[g].batch, journal)'
  BY <1>7 DEF Carried, Distinct, Apart
<1> QED
  BY <1>5, <1>6, <1>8, <1>9, <1>10 DEF KeptInv

\* All that is owed and not in its store is in q, which the journal has.
AllIn(q) ==
    /\ Distinct(q) /\ ToSet(q) \subseteq ToSet(journal)
    /\ \A e \in accepted \ givenUp : Landed(e) \/ e \in ToSet(q)

\* A step that leaves the stores alone leaves them with what they have.
LEMMA SameStore ==
    ASSUME UNCHANGED <<store, ghostVars>>
    PROVE  StoreGrows /\ \A e : Landed(e) <=> Landed(e)'
BY DEF StoreGrows, Landed, ghostVars

\* The loop loses nothing if all that is owed is in the queue it goes on with.
LEMMA LoopsOnKept ==
    ASSUME SlotHolds, KeptInv, NEW f, MayPass(f), NEW q, AllIn(q), LoopsOn(f, q),
           UNCHANGED <<store, ghostVars>>
    PROVE  KeptInv'
<1>0. /\ store' = store /\ accepted' = accepted /\ givenUp' = givenUp /\ issued' = issued
      /\ f \in Flushers
  BY DEF ghostVars, MayPass
<1>1. ASSUME NEW m, NEW t, Claims(f, m, t, q) PROVE KeptInv'
  <2>1. Mid(m) /\ Begun(m) /\ Suspend(f, m, t)
    BY <1>1 DEF Claims
  <2>2. HeldBy(m) = ToSet(m.batch) /\ Progress(m)
    BY <2>1, BegunHolds
  <2>3. Progress(m)'
    BY <2>1, <2>2, ProgressGrows, SameStore DEF PassHolds
  <2>4. Carried(t.queue, m.batch, journal)
    BY <1>1 DEF Claims, AllIn, Carried
  <2>5. \A e \in accepted \ givenUp' : Landed(e)' \/ e \in ToSet(t.queue) \/ e \in HeldBy(m)
    BY <1>0, <1>1, <2>2, SameStore DEF Claims, AllIn
  <2>6. PICK r : r = t.queue
    OBVIOUS
  <2> QED
    BY <1>0, <2>1, <2>3, <2>4, <2>5, <2>6, SuspendKept
<1>2. ASSUME NEW p, NEW t, Ends(f, p, t, q) PROVE KeptInv'
  <2>1. /\ queue' = q /\ (journal' = q \/ journal' = journal)
        /\ pass' = [pass EXCEPT ![f] = NoPass]
    BY <1>2 DEF Ends, EndPass, BecomesShared
  <2>2. \A g \in Flushers : g # f => pass[g].pc = "none"
    BY QueueAssumption DEF SlotHolds, OneFlushAtATime, MayPass
  <2>3. \A g \in Flushers : pass'[g] = NoPass
    BY <1>0, <2>1, <2>2 DEF SlotHolds, PassHolds, Mid
  <2>4. Distinct(q) /\ Distinct(journal) /\ ToSet(q) \subseteq ToSet(journal)
        /\ IssuedAll(journal)
    BY DEF AllIn, KeptInv
  <2>5. ToSet(queue') \subseteq ToSet(journal') /\ ToSet(journal') \subseteq ToSet(journal)
    BY <2>1, <2>4
  <2>6. Distinct(queue)' /\ Distinct(journal)'
    BY <2>1, <2>4 DEF Distinct
  <2>7. IssuedAll(journal)'
    BY <1>0, <2>4, <2>5 DEF IssuedAll
  <2>8. ASSUME NEW g \in Flushers PROVE Carried(queue, pass[g].batch, journal)'
    <3>1. ToSet(<<>>) = {} /\ DOMAIN <<>> = {} /\ pass'[g].batch = <<>>
      BY <2>3 DEF ToSet, NoPass
    <3> QED
      BY <2>5, <2>6, <3>1 DEF Carried, Distinct, Apart
  <2>9. ASSUME NEW g \in Flushers PROVE Progress(pass[g])'
    BY <2>3 DEF Progress, NoPass
  <2>10. ASSUME NEW e \in accepted' \ givenUp' PROVE Accounted(e)'
    <3>1. Landed(e)' \/ e \in ToSet(queue')
      BY <1>0, <2>1, <2>10, SameStore DEF AllIn
    <3> QED
      BY <3>1 DEF Accounted
  <2> QED
    BY <2>5, <2>6, <2>7, <2>8, <2>9, <2>10 DEF KeptInv
<1> QED
  BY <1>1, <1>2 DEF LoopsOn

\* Nobody but f holds entries.
LEMMA OnlyHolder ==
    ASSUME SlotHolds, KeptInv, NEW f, MayPass(f), NEW p, p = pass[f]
    PROVE  /\ \A e \in accepted \ givenUp : Landed(e) \/ e \in ToSet(queue) \/ e \in HeldBy(p)
           /\ Carried(queue, p.batch, journal) /\ Progress(p)
<1>1. \A g \in Flushers : g # f => pass[g].pc = "none"
  BY QueueAssumption DEF SlotHolds, OneFlushAtATime, MayPass
<1>2. \A g \in Flushers : g # f => Held(g) = {}
  BY <1>1 DEF Held
<1>3. Held(f) = HeldBy(p)
  BY DEF Held, HeldBy
<1>4. \A e \in accepted \ givenUp : Accounted(e)
  BY DEF KeptInv
<1>5. \A e \in accepted \ givenUp : Landed(e) \/ e \in ToSet(queue) \/ e \in HeldBy(p)
  BY <1>2, <1>3, <1>4 DEF Accounted
<1>6. Carried(queue, p.batch, journal) /\ Progress(p)
  BY DEF KeptInv, MayPass
<1> QED
  BY <1>5, <1>6

\* The whole batch is put back.
LEMMA RequeuedIn ==
    ASSUME SlotHolds, KeptInv, NEW f \in Flushers, pass[f].pc \in {"borrow", "store"},
           NEW all, all = queue \o pass[f].batch
    PROVE  AllIn(all)
<1>1. PICK p : p = pass[f]
  OBVIOUS
<1>2. MayPass(f) /\ Batchy(p) /\ p \in PassState
  BY <1>1, PassIs
<1>3. /\ \A e \in accepted \ givenUp : Landed(e) \/ e \in ToSet(queue) \/ e \in HeldBy(p)
      /\ Carried(queue, p.batch, journal)
  BY <1>1, <1>2, OnlyHolder
<1>4. queue \in Seq(Entry) /\ p.batch \in Seq(Entry)
  BY <1>2 DEF SlotHolds, PassState
<1>5. ToSet(all) = ToSet(queue) \cup ToSet(p.batch) /\ Distinct(all)
  <2>1. PICK q \in Seq(Entry) : q = queue
    BY <1>4
  <2>2. PICK b \in Seq(Entry) : b = p.batch
    BY <1>4
  <2>3. Distinct(q) /\ Distinct(b) /\ Apart(q, b)
    BY <1>3, <2>1, <2>2 DEF Carried
  <2>4. ToSet(q \o b) = ToSet(q) \cup ToSet(b) /\ Distinct(q \o b)
    BY <2>3, JoinedIs
  <2> QED
    BY <1>1, <2>1, <2>2, <2>4
<1>6. HeldBy(p) = ToSet(p.batch)
  BY <1>1 DEF HeldBy
<1> QED
  BY <1>3, <1>5, <1>6 DEF AllIn, Carried

\* The attempt's entries are in the store, or given up: the others are put back.
LEMMA BackIn ==
    ASSUME SlotHolds, KeptInv, NEW f \in Flushers, pass[f].pc # "none",
           NEW p, p = pass[f], NEW r, r = Back(p, queue),
           p.pc = "settle" \/ \A e \in ToSet(Attempted(p)) : Landed(e)
    PROVE  AllIn(r)
<1>2. MayPass(f) /\ Batchy(p) /\ p \in PassState
  BY PassIs
<1>3. /\ \A e \in accepted \ givenUp : Landed(e) \/ e \in ToSet(queue) \/ e \in HeldBy(p)
      /\ Carried(queue, p.batch, journal) /\ Progress(p)
  BY <1>2, OnlyHolder
<1>4. queue \in Seq(Entry) /\ p.batch \in Seq(Entry) /\ Len(p.batch) >= 1
  BY <1>2, QueueAssumption DEF SlotHolds, PassState, Batchy
<1>5. ToSet(p.batch) = ToSet(Attempted(p)) \cup IF p.probe THEN ToSet(Tail(p.batch)) ELSE {}
  BY <1>2, AttemptedSet
<1>6. \A e \in HeldBy(p) : Landed(e) \/ (p.probe /\ e \in ToSet(Tail(p.batch)))
  BY <1>5 DEF HeldBy
<1>7. CASE ~p.probe
  <2>1. r = queue
    BY <1>7 DEF Back
  <2> QED
    BY <1>3, <1>6, <1>7, <2>1 DEF AllIn, Carried
<1>8. CASE p.probe
  <2>1. PICK t \in Seq(Entry) : t = Tail(p.batch)
    BY <1>4, TailIs
  <2>2. r = queue \o t
    BY <1>8, <2>1 DEF Back
  <2>3. /\ ToSet(t) \subseteq ToSet(p.batch)
        /\ Distinct(t) /\ Apart(queue, t)
    <3>1. PICK b \in Seq(Entry) : b = p.batch /\ Len(b) >= 1
      BY <1>4
    <3>2. Distinct(b) /\ Apart(queue, b)
      BY <1>3, <3>1 DEF Carried
    <3>3. ToSet(b) = {b[1]} \cup ToSet(Tail(b)) /\ Distinct(Tail(b))
          /\ (Apart(queue, b) => Apart(queue, Tail(b)))
      BY <3>1, <3>2, TailIs
    <3> QED
      BY <2>1, <3>1, <3>2, <3>3
  <2>4. ToSet(r) = ToSet(queue) \cup ToSet(t) /\ Distinct(r)
    <3>1. PICK q \in Seq(Entry) : q = queue
      BY <1>4
    <3>2. Distinct(q) /\ Distinct(t) /\ Apart(q, t)
      BY <1>3, <2>3, <3>1 DEF Carried
    <3>3. ToSet(q \o t) = ToSet(q) \cup ToSet(t) /\ Distinct(q \o t)
      BY <3>2, JoinedIs
    <3> QED
      BY <2>2, <3>1, <3>3
  <2> QED
    BY <1>3, <1>6, <2>1, <2>3, <2>4 DEF AllIn, Carried
<1> QED
  BY <1>7, <1>8

-----------------------------------------------------------------------------
(* Every action of a flusher keeps it.                                     *)
LEMMA ProgressStays ==
    ASSUME NEW p, Progress(p), UNCHANGED <<store, ghostVars>>
    PROVE  Progress(p)'
BY SameStore DEF Progress, ghostVars

\* A sequence of distinct texts with a new one at its end is one.
LEMMA AppendedIs ==
    ASSUME NEW q \in Seq(Entry), NEW e \in Entry
    PROVE  /\ Append(q, e) \in Seq(Entry) /\ Len(Append(q, e)) = Len(q) + 1
           /\ ToSet(Append(q, e)) = ToSet(q) \cup {e}
           /\ Distinct(q) /\ (\A d \in ToSet(q) : d.id # e.id) => Distinct(Append(q, e))
<1>1. Append(q, e) \in Seq(Entry) /\ Len(Append(q, e)) = Len(q) + 1 /\ Append(q, e) = q \o <<e>>
  OBVIOUS
<1>a. <<e>> \in Seq(Entry) /\ DOMAIN <<e>> = {1} /\ <<e>>[1] = e
  OBVIOUS
<1>2. PICK b \in Seq(Entry) : b = <<e>> /\ DOMAIN b = {1} /\ b[1] = e
  BY <1>a
<1>3. ToSet(b) = {e} /\ Distinct(b)
  BY <1>2 DEF ToSet, Distinct
<1>4. (\A d \in ToSet(q) : d.id # e.id) => Apart(q, b)
  BY <1>2 DEF ToSet, Apart
<1>5. ToSet(q \o b) = ToSet(q) \cup ToSet(b)
      /\ (Distinct(q) /\ Distinct(b) /\ Apart(q, b) => Distinct(q \o b))
  BY JoinedIs
<1> QED
  BY <1>1, <1>2, <1>3, <1>4, <1>5

\* Nothing moves but the store, which grows.
LEMMA StoreGrowsKept ==
    ASSUME QueueInv, KeptInv, StoreGrows, UNCHANGED <<queue, journal, pass, issued, accepted>>
    PROVE  KeptInv'
<1>0. SlotHolds /\ RestHolds
  BY DEF QueueInv
<1>1. IssuedAll(journal)'
  BY DEF KeptInv, IssuedAll
<1>2. ASSUME NEW f \in Flushers PROVE Progress(pass[f])'
  <2>1. PICK p : p = pass[f]
    OBVIOUS
  <2>2. PassHolds(p) /\ Progress(p)
    BY <1>0, <2>1 DEF SlotHolds, KeptInv
  <2>3. Progress(p)'
    BY <2>2, ProgressGrows
  <2> QED
    BY <2>1, <2>3 DEF Progress
<1>3. ASSUME NEW e \in accepted' \ givenUp' PROVE Accounted(e)'
  <2>1. e \in accepted \ givenUp /\ e \in Entry
    BY <1>0, <1>3 DEF StoreGrows, RestHolds
  <2>2. Accounted(e)
    BY <2>1 DEF KeptInv
  <2>3. \A f : Held(f)' = Held(f)
    BY DEF Held
  <2> QED
    BY <2>1, <2>2, <2>3 DEF Accounted, StoreGrows
<1>4. \A f \in Flushers : Carried(queue, pass[f].batch, journal)'
  BY DEF KeptInv, Carried, Distinct, Apart
<1>5. Distinct(queue)' /\ Distinct(journal)' /\ ToSet(queue') \subseteq ToSet(journal')
  BY DEF KeptInv, Distinct
<1> QED
  BY <1>1, <1>2, <1>3, <1>4, <1>5 DEF KeptInv

\* A flush call, and the end of its wait, lose nothing.
LEMMA CallKept ==
    ASSUME QueueInv, KeptInv, NEW f \in Flushers, FlushCall(f) \/ WaiterResumes(f)
    PROVE  KeptInv'
<1>0. SlotHolds
  BY DEF QueueInv
<1>1. PICK q : q = queue
  OBVIOUS
<1>2. UNCHANGED <<store, ghostVars>>
  BY DEF FlushCall, WaiterResumes
<1>3. CASE MayPass(f) /\ flushInFlight = None /\ LoopsOn(f, q)
  <2>1. pass[f].pc = "none"
    BY <1>0, <1>3, QueueAssumption DEF SlotHolds, OneFlushAtATime
  <2>2. HeldBy(pass[f]) = {}
    BY <2>1 DEF HeldBy
  <2>3. \A e \in accepted \ givenUp : Landed(e) \/ e \in ToSet(queue)
    BY <1>0, <1>3, <2>2, OnlyHolder
  <2>4. AllIn(q)
    BY <1>1, <2>3 DEF AllIn, KeptInv
  <2> QED
    BY <1>0, <1>2, <1>3, <2>4, LoopsOnKept
<1>4. CASE Stays
  BY <1>2, <1>4, SameStore, StoreGrowsKept DEF Stays, ghostVars
<1> QED
  BY <1>0, <1>1, <1>3, <1>4, FlushCallIs, WaiterResumesIs

\* Nor does a borrow that resolves.
LEMMA BorrowOpensKept ==
    ASSUME SlotHolds, KeptInv, NEW f \in Flushers, BorrowOpens(f)
    PROVE  KeptInv'
<1>1. PICK q : q = queue
  OBVIOUS
<1>2. PICK m, s : Awaits(f, m, s, q) /\ Begun(m)
  BY <1>1, BorrowOpensIs
<1>3. PICK o : o = pass[f]
  OBVIOUS
<1>4. MayPass(f) /\ o.pc = "borrow" /\ UNCHANGED <<store, ghostVars>>
  BY <1>3, PassIs DEF BorrowOpens
<1>5. HeldBy(m) = ToSet(m.batch) /\ Progress(m)' /\ m.batch = o.batch
  BY <1>2, <1>3, <1>4, BegunHolds, ProgressStays DEF Awaits
<1>6. HeldBy(o) = ToSet(o.batch)
  BY <1>4 DEF HeldBy
<1>7. /\ \A e \in accepted \ givenUp' : Landed(e)' \/ e \in ToSet(q) \/ e \in HeldBy(m)
      /\ Carried(q, m.batch, journal)
  BY <1>1, <1>3, <1>4, <1>5, <1>6, OnlyHolder, SameStore DEF ghostVars
<1>8. UNCHANGED <<issued, accepted>> /\ Suspend(f, m, s) /\ s.queue = q
  BY <1>2, <1>4 DEF Awaits, ghostVars
<1> QED
  BY <1>4, <1>5, <1>7, <1>8, SuspendKept

\* Nor a borrow or a write that fails or times out: the batch is probed, or put back.
LEMMA FailsKept ==
    ASSUME SlotHolds, KeptInv, NEW f \in Flushers,
           BorrowFails(f) \/ StoreFails(f) \/ StoreTimesOut(f)
    PROVE  KeptInv'
<1>1. PICK q : q = queue
  OBVIOUS
<1>2. PICK p, s : Failed(f, p, s, q)
  BY <1>1, FailsIs
<1>3. PICK o : o = pass[f]
  OBVIOUS
<1>4. /\ o.pc \in {"borrow", "store"} /\ UNCHANGED <<store, ghostVars>> /\ p.batch = o.batch
      /\ Throws(f, p, s, q) /\ s.queue = q
  BY <1>2, <1>3 DEF BorrowFails, StoreFails, StoreTimesOut, Failed
<1>5. MayPass(f)
  BY <1>3, <1>4, PassIs
<1>6. ASSUME NEW m, Probes(f, p, m, s) PROVE KeptInv'
  <2>1. HeldBy(m) = ToSet(m.batch) /\ Progress(m)' /\ m.batch = o.batch
    BY <1>4, <1>6, BegunHolds, ProgressStays DEF Probes
  <2>2. HeldBy(o) = ToSet(o.batch)
    BY <1>4 DEF HeldBy
  <2>3. /\ \A e \in accepted \ givenUp' : Landed(e)' \/ e \in ToSet(q) \/ e \in HeldBy(m)
        /\ Carried(q, m.batch, journal)
    BY <1>1, <1>3, <1>4, <1>5, <2>1, <2>2, OnlyHolder, SameStore DEF ghostVars
  <2>4. UNCHANGED <<issued, accepted>> /\ Suspend(f, m, s)
    BY <1>4, <1>6 DEF Probes, ghostVars
  <2> QED
    BY <1>4, <1>5, <2>1, <2>3, <2>4, SuspendKept
<1>7. CASE LoopsOn(f, q \o p.batch)
  <2>1. PICK all : all = q \o p.batch
    OBVIOUS
  <2>2. AllIn(all)
    BY <1>1, <1>3, <1>4, <2>1, RequeuedIn
  <2>3. LoopsOn(f, all)
    BY <1>7, <2>1
  <2> QED
    BY <1>4, <1>5, <2>2, <2>3, LoopsOnKept
<1> QED
  BY <1>4, <1>6, <1>7 DEF Throws

\* Nor the end of an attempt, which puts back the rest of a probed batch.
LEMMA EmbedsSettleKept ==
    ASSUME SlotHolds, KeptInv, NEW f \in Flushers, EmbedsSettle(f)
    PROVE  KeptInv'
<1>1. PICK q, o : q = queue /\ o = pass[f]
  OBVIOUS
<1>2. PICK r : r = Back(o, q)
  OBVIOUS
<1>3. LoopsOn(f, r)
  BY <1>1, <1>2, EmbedsSettleIs
<1>4. o.pc = "settle" /\ UNCHANGED <<store, ghostVars>>
  BY <1>1 DEF EmbedsSettle
<1>5. MayPass(f)
  BY <1>1, <1>4, PassIs
<1>6. AllIn(r)
  BY <1>1, <1>2, <1>4, BackIn
<1> QED
  BY <1>3, <1>4, <1>5, <1>6, LoopsOnKept

\* One more entry of the attempt is looked up: it is taken for landed, or stays.
LEMMA LooksKept ==
    ASSUME SlotHolds, KeptInv, NEW f \in Flushers, NEW o, o = pass[f], o.pc = "check",
           NEW q, q = queue, NEW p, NEW s, Looks(f, p, s, q), NEW e, e = Looked(f),
           \/ p.rows = o.rows /\ Landed(e)
           \/ p.rows = Append(o.rows, e),
           UNCHANGED <<store, ghostVars>>
    PROVE  KeptInv'
<1>1. /\ MayPass(f) /\ o \in PassState /\ Batchy(o) /\ o.rows \in Seq(Entry)
      /\ e \in Entry /\ e = Attempted(o)[o.checked + 1]
      /\ o.checked \in 0 .. Len(Attempted(o)) - 1
  BY PassIs, LookedIs DEF PassState
<1>2. /\ LooksOn(f, p, s, q) /\ s.queue = q /\ Batchy(p) /\ p.pc = "check"
      /\ p.batch = o.batch /\ p.probe = o.probe /\ p.checked = o.checked + 1
  BY DEF Looks
<1>3. Attempted(p) = Attempted(o)
  BY <1>2 DEF Attempted
<1>4. /\ DOMAIN Attempted(o) = 1 .. Len(Attempted(o)) /\ Len(Attempted(o)) \in Nat
      /\ o.checked + 1 \in DOMAIN Attempted(o) /\ o.checked \in Nat
  <2>1. DOMAIN Attempted(o) = 1 .. Len(Attempted(o)) /\ Len(Attempted(o)) \in Nat
    BY <1>1, AttemptedSet
  <2> QED
    BY <1>1, <2>1
<1>5. e \in ToSet(Attempted(o))
  BY <1>1, <1>4 DEF ToSet
<1>6. /\ \A d \in accepted \ givenUp : Landed(d) \/ d \in ToSet(queue) \/ d \in HeldBy(o)
      /\ Carried(queue, o.batch, journal) /\ Progress(o)
  BY <1>1, OnlyHolder
<1>7. \/ ToSet(p.rows) = ToSet(o.rows) /\ Landed(e)
      \/ ToSet(p.rows) = ToSet(o.rows) \cup {e}
  BY <1>1, AppendedIs
<1>8. ToSet(p.rows) \subseteq ToSet(Attempted(p))
  BY <1>3, <1>5, <1>6, <1>7 DEF Progress
<1>9. \A i \in 1 .. p.checked : Attempted(p)[i] \in ToSet(p.rows) \/ Landed(Attempted(p)[i])
  <2>1. \A i \in 1 .. p.checked : i \in 1 .. o.checked \/ i = o.checked + 1
    BY <1>2, <1>4
  <2>2. \A i \in 1 .. o.checked : Attempted(o)[i] \in ToSet(o.rows) \/ Landed(Attempted(o)[i])
    BY <1>6 DEF Progress
  <2> QED
    BY <1>1, <1>3, <1>7, <2>1, <2>2
<1>10. HeldBy(o) = ToSet(o.batch)
  BY DEF HeldBy
<1>11. UNCHANGED <<issued, accepted>> /\ givenUp' = givenUp
  BY DEF ghostVars
<1>12. ASSUME NEW m, Suspend(f, m, s), m.batch = o.batch, m.pc \in {"check", "store"}, Progress(m)
       PROVE  KeptInv'
  <2>1. HeldBy(m) = ToSet(m.batch) /\ Progress(m)'
    BY <1>12, ProgressStays DEF HeldBy
  <2>2. /\ \A d \in accepted \ givenUp' : Landed(d)' \/ d \in ToSet(q) \/ d \in HeldBy(m)
        /\ Carried(q, m.batch, journal)
    BY <1>6, <1>10, <1>11, <1>12, <2>1, SameStore
  <2> QED
    BY <1>1, <1>2, <1>11, <1>12, <2>1, <2>2, SuspendKept
<1>13. CASE Suspend(f, p, s)
  <2>1. Progress(p)
    BY <1>2, <1>8, <1>9 DEF Progress
  <2> QED
    BY <1>2, <1>12, <1>13, <2>1
<1>14. ASSUME p.checked = Len(Attempted(p)), NEW d \in ToSet(Attempted(p))
       PROVE  d \in ToSet(p.rows) \/ Landed(d)
  <2>1. PICK i \in DOMAIN Attempted(p) : d = Attempted(p)[i]
    BY <1>14 DEF ToSet
  <2>2. i \in 1 .. p.checked
    BY <1>3, <1>4, <1>14, <2>1
  <2> QED
    BY <1>9, <2>1, <2>2
<1>15. CASE p.checked = Len(Attempted(p)) /\ Suspend(f, [p EXCEPT !.pc = "store"], s)
  <2>1. PICK m : m = [p EXCEPT !.pc = "store"]
    OBVIOUS
  <2>2. m.pc = "store" /\ m.batch = p.batch /\ m.probe = p.probe /\ m.rows = p.rows
    BY <1>2, <2>1 DEF Batchy, PassState
  <2>3. Attempted(m) = Attempted(p)
    BY <2>2 DEF Attempted
  <2>4. Progress(m)
    BY <1>8, <1>14, <1>15, <2>2, <2>3 DEF Progress
  <2> QED
    BY <1>2, <1>12, <1>15, <2>1, <2>2, <2>4
<1>16. CASE p.checked = Len(Attempted(p)) /\ p.rows = <<>> /\ LoopsOn(f, Back(p, q))
  <2>1. PICK r : r = Back(p, q)
    OBVIOUS
  <2>2. r = Back(o, queue)
    BY <1>2, <2>1 DEF Back
  <2>3. ToSet(p.rows) = {}
    BY <1>16 DEF ToSet
  <2>4. \A d \in ToSet(Attempted(o)) : Landed(d)
    BY <1>3, <1>14, <1>16, <2>3
  <2>5. AllIn(r)
    BY <2>2, <2>4, BackIn
  <2>6. LoopsOn(f, r)
    BY <1>16, <2>1
  <2> QED
    BY <1>1, <2>5, <2>6, LoopsOnKept
<1> QED
  BY <1>2, <1>13, <1>15, <1>16 DEF LooksOn

\* A version is 1 where a text is stored once, so a node that is there is it.
LEMMA OnlyVersion ==
    ASSUME StoredOnce, NEW e \in Entry
    PROVE  e.v = 1
BY DEF StoredOnce, Entry

\* Nor a lookup: what it takes for landed is in the store.
LEMMA NodeKept ==
    ASSUME StoredOnce, QueueInv, KeptInv, NEW f \in Flushers, NodeFound(f) \/ NodeNotFound(f)
    PROVE  KeptInv'
<1>1. SlotHolds /\ RestHolds
  BY DEF QueueInv
<1>2. PICK q, o, e : q = queue /\ o = pass[f] /\ e = Looked(f)
  OBVIOUS
<1>3. o.pc = "check" /\ UNCHANGED <<store, ghostVars>>
  BY <1>2 DEF NodeFound, NodeNotFound
<1>4. CASE NodeFound(f)
  <2>1. PICK p, s : Looks(f, p, s, q) /\ p.rows = o.rows
    BY <1>1, <1>2, <1>4, NodeFoundIs
  <2>2. store[e.ws][e.id] # 0
    BY <1>1, <1>2, <1>4, NodeFoundIs
  <2>3. e \in Entry
    BY <1>1, <1>2, <1>3, LookedIs
  <2>4. e.v = 1 /\ e.ws \in Workspaces /\ e.id \in Ids
    BY <2>3, OnlyVersion DEF Entry
  <2>5. store[e.ws][e.id] \in 0 .. MaxPerRequest
    BY <1>1, <2>4 DEF RestHolds
  <2>6. Landed(e)
    BY <2>2, <2>4, <2>5, QueueAssumption DEF Landed
  <2> QED
    BY <1>1, <1>2, <1>3, <2>1, <2>6, LooksKept
<1>5. CASE NodeNotFound(f)
  <2>1. PICK p, s : Looks(f, p, s, q) /\ p.rows = Append(o.rows, e)
    BY <1>1, <1>2, <1>5, NodeNotFoundIs
  <2> QED
    BY <1>1, <1>2, <1>3, <2>1, LooksKept
<1> QED
  BY <1>4, <1>5

\* An upsert never takes a text out of a store.
LEMMA UpsertGrows ==
    ASSUME StoredOnce, RestHolds, NEW ws \in Workspaces, NEW rows \in Seq(Entry),
           store' = Upserted(ws, rows), givenUp \subseteq givenUp'
    PROVE  /\ StoreGrows
           /\ \A e \in ToSet(rows) : e.ws = ws /\ e.id \notin Rejected => Landed(e)'
<1>0. store \in [Workspaces -> [Ids -> 0..MaxPerRequest]]
  BY DEF RestHolds
<1>1. \A i \in DOMAIN rows : rows[i] \in Entry /\ rows[i].v = 1
  <2>1. \A i \in DOMAIN rows : rows[i] \in Entry
    OBVIOUS
  <2> QED
    BY <2>1, OnlyVersion
<1>u. /\ \A w \in Workspaces, id \in Ids :
            store'[w][id] = store[w][id] \/ \E i \in DOMAIN rows : store'[w][id] = rows[i].v
      /\ \A i \in DOMAIN rows : rows[i].id \notin Rejected =>
            \E j \in DOMAIN rows : store'[ws][rows[i].id] = rows[j].v
  <2>1. PICK up : up = Upserted(ws, rows)
    OBVIOUS
  <2>2. /\ \A w \in Workspaces, id \in Ids :
              up[w][id] = store[w][id] \/ \E i \in DOMAIN rows : up[w][id] = rows[i].v
        /\ \A i \in DOMAIN rows : rows[i].id \notin Rejected =>
              \E j \in DOMAIN rows : up[ws][rows[i].id] = rows[j].v
    BY <1>0, <2>1, UpsertedIs
  <2> QED
    BY <2>1, <2>2
<1>2. ASSUME NEW e \in Entry, Landed(e) PROVE Landed(e)'
  <2>1. e.ws \in Workspaces /\ e.id \in Ids /\ e.v = 1
    BY OnlyVersion DEF Entry
  <2>2. store'[e.ws][e.id] = store[e.ws][e.id] \/ store'[e.ws][e.id] = 1
    BY <1>1, <1>u, <2>1
  <2> QED
    BY <1>2, <2>1, <2>2 DEF Landed
<1>3. ASSUME NEW e \in ToSet(rows), e.ws = ws, e.id \notin Rejected PROVE Landed(e)'
  <2>1. PICK i \in DOMAIN rows : e = rows[i]
    BY <1>3 DEF ToSet
  <2>2. store'[ws][e.id] = 1 /\ e.v = 1
    BY <1>1, <1>3, <1>u, <2>1
  <2> QED
    BY <1>3, <2>2 DEF Landed
<1> QED
  BY <1>2, <1>3 DEF StoreGrows

\* Nor a write that resolves: its rows are in the store, or rejected one by one.
LEMMA StoreSettlesKept ==
    ASSUME StoredOnce, QueueInv, KeptInv, NEW f \in Flushers, StoreSettles(f)
    PROVE  KeptInv'
<1>0. SlotHolds /\ RestHolds
  BY DEF QueueInv
<1>1. PICK q, o : q = queue /\ o = pass[f]
  OBVIOUS
<1>2. PICK m, s : Awaits(f, m, s, q) /\ m.pc = "settle" /\ m.probe = o.probe
  BY <1>0, <1>1, StoreSettlesIs
<1>3. PICK ws : ws = BatchWorkspace(o)
  OBVIOUS
<1>4. /\ o.pc = "store" /\ store' = Upserted(ws, o.rows)
      /\ givenUp' = givenUp \cup {e \in ToSet(o.rows) : e.id \in Rejected}
      /\ UNCHANGED <<issued, accepted>>
  BY <1>1, <1>3 DEF StoreSettles
<1>5. MayPass(f) /\ Batchy(o) /\ o.rows \in Seq(Entry) /\ ws \in Workspaces
  BY <1>0, <1>1, <1>3, <1>4, PassIs, AttemptedIs DEF PassState
<1>6. /\ \A e \in accepted \ givenUp : Landed(e) \/ e \in ToSet(queue) \/ e \in HeldBy(o)
      /\ Carried(queue, o.batch, journal) /\ Progress(o)
  BY <1>0, <1>1, <1>5, OnlyHolder
<1>7. m.batch = o.batch /\ Attempted(m) = Attempted(o) /\ Suspend(f, m, s) /\ s.queue = q
  BY <1>1, <1>2 DEF Awaits, Attempted
<1>8. /\ StoreGrows
      /\ \A e \in ToSet(o.rows) : e.ws = ws /\ e.id \notin Rejected => Landed(e)'
  BY <1>0, <1>4, <1>5, UpsertGrows
<1>9. /\ ToSet(Attempted(o)) \subseteq Entry
      /\ \A e \in ToSet(Attempted(o)) : e.ws = ws
      /\ ToSet(o.batch) = ToSet(Attempted(o)) \cup IF o.probe THEN ToSet(Tail(o.batch)) ELSE {}
  BY <1>3, <1>5, AttemptedSet
<1>10. ASSUME NEW e \in ToSet(Attempted(o)) PROVE e \in givenUp' \/ Landed(e)'
  <2>1. e \in ToSet(o.rows) \/ Landed(e)
    BY <1>4, <1>6, <1>10 DEF Progress
  <2> QED
    BY <1>4, <1>8, <1>9, <1>10, <2>1 DEF StoreGrows
<1>11. Progress(m)'
  BY <1>2, <1>7, <1>10 DEF Progress
<1>12. ASSUME NEW e \in accepted \ givenUp'
       PROVE  Landed(e)' \/ e \in ToSet(q) \/ e \in HeldBy(m)
  <2>1. e \in accepted \ givenUp /\ e \in Entry
    BY <1>0, <1>4, <1>12 DEF RestHolds
  <2>2. CASE Landed(e)
    BY <1>8, <2>1, <2>2 DEF StoreGrows
  <2>3. CASE e \in ToSet(queue)
    BY <1>1, <2>3
  <2>4. CASE e \in HeldBy(o)
    <3>1. e \in ToSet(o.batch)
      BY <1>4, <2>4 DEF HeldBy
    <3>2. e \in ToSet(Attempted(o)) \/ (o.probe /\ e \in ToSet(Tail(o.batch)))
      BY <1>9, <3>1
    <3> QED
      BY <1>2, <1>7, <1>10, <1>12, <3>2 DEF HeldBy
  <2> QED
    BY <1>6, <2>1, <2>2, <2>3, <2>4
<1> QED
  BY <1>0, <1>1, <1>4, <1>5, <1>6, <1>7, <1>11, <1>12, SuspendKept
-----------------------------------------------------------------------------
(* So do a store call, a kill and the rest.                                *)
\* The entry of a store call is new to the journal, and so to queue and batches.
LEMMA FreshEntry ==
    ASSUME StoredOnce, QueueInv, KeptInv, NEW r \in Requests, StoreCall(r[1], r[2]),
           NEW e, e = NextVersion(r[1], r[2])
    PROVE  /\ e \in Entry /\ <<e.ws, e.id>> \in Requests
           /\ issued'[<<e.ws, e.id>>] = 1
           /\ \A d \in ToSet(journal) : d.id # e.id /\ issued'[<<d.ws, d.id>>] = 1
<1>1. RestHolds /\ IssuedAll(journal) /\ MaxPerRequest = 1
  BY DEF QueueInv, KeptInv, StoredOnce
<1>2. /\ e \in Entry /\ r = <<e.ws, e.id>> /\ issued[r] < MaxPerRequest
      /\ issued' = [issued EXCEPT ![r] = @ + 1]
  BY <1>1, NextVersionIs
<1>3. issued \in [Requests -> 0 .. 1]
  BY <1>1 DEF RestHolds
<1>4. issued[r] = 0 /\ issued'[r] = 1
  BY <1>1, <1>2, <1>3
<1>5. ASSUME NEW d \in ToSet(journal) PROVE d.id # e.id /\ issued'[<<d.ws, d.id>>] = 1
  <2>1. PICK t \in Requests : t = <<d.ws, d.id>> /\ issued[t] = 1
    BY <1>1 DEF IssuedAll
  <2>2. t # r
    BY <1>4, <2>1
  <2>3. t[2] # r[2]
    BY <2>2 DEF StoredOnce
  <2>4. t[2] = d.id /\ r[2] = e.id
    BY <1>2, <2>1
  <2>5. issued'[t] = 1
    BY <1>2, <1>3, <2>1, <2>2
  <2> QED
    BY <2>1, <2>3, <2>4, <2>5
<1> QED
  BY <1>2, <1>4, <1>5

\* A store call loses nothing: its entry joins the queue and the journal at their ends.
LEMMA EnqueueKept ==
    ASSUME StoredOnce, QueueInv, KeptInv, NEW r \in Requests, EnqueueVerbatim(r[1], r[2])
    PROVE  KeptInv'
<1>0. SlotHolds /\ RestHolds
  BY DEF QueueInv
<1>1. PICK e : e = NextVersion(r[1], r[2])
  OBVIOUS
<1>2. /\ StoreCall(r[1], r[2])
      /\ queue' = PushEntry(queue, e) /\ journal' = JournalAfterEnqueue(e)
      /\ accepted' = accepted \cup {e}
      /\ givenUp' = givenUp \cup (ToSet(Pushed(queue, e)) \ ToSet(queue'))
      /\ store' = store /\ pass' = pass
  BY <1>1 DEF EnqueueVerbatim
<1>3. /\ e \in Entry /\ <<e.ws, e.id>> \in Requests /\ issued'[<<e.ws, e.id>>] = 1
      /\ \A d \in ToSet(journal) : d.id # e.id /\ issued'[<<d.ws, d.id>>] = 1
  BY <1>1, <1>2, FreshEntry
<1>4. PICK q \in Seq(Entry), j \in Seq(Entry) : q = queue /\ j = journal
  BY <1>0 DEF SlotHolds
<1>5. Distinct(q) /\ Distinct(j) /\ ToSet(q) \subseteq ToSet(j) /\ IssuedAll(j)
  BY <1>4 DEF KeptInv
<1>6. PICK Q \in Seq(Entry), J \in Seq(Entry) : Q = Append(q, e) /\ J = Append(j, e)
  BY <1>3, AppendedIs
<1>7. /\ ToSet(Q) = ToSet(q) \cup {e} /\ Distinct(Q)
      /\ ToSet(J) = ToSet(j) \cup {e} /\ Distinct(J)
  BY <1>3, <1>4, <1>5, <1>6, AppendedIs
<1>8. \A d \in ToSet(J) : <<d.ws, d.id>> \in Requests /\ issued'[<<d.ws, d.id>>] = 1
  BY <1>3, <1>4, <1>5, <1>7 DEF IssuedAll
<1>9. Len(Q) <= Cap
  BY <1>5, <1>7, <1>8, JournalFits
<1>10. \A i \in 1 .. Len(q) : q[i].id # e.id
  <2>1. DOMAIN q = 1 .. Len(q)
    BY LenProperties
  <2>2. \A i \in DOMAIN q : q[i] \in ToSet(q)
    BY DEF ToSet
  <2> QED
    BY <1>3, <1>4, <1>5, <2>1, <2>2
<1>11. Pushed(q, e) = Q /\ PushEntry(q, e) = Q
  BY <1>3, <1>6, <1>9, <1>10, PushedIs, PushEntryIs
<1>12. journal' = J
  <2>1. DOMAIN q = 1 .. Len(q) /\ Len(Q) \in Nat
    BY LenProperties
  <2>2. ~ \E i \in DOMAIN queue : queue[i].id = e.id
    BY <1>4, <1>10, <2>1
  <2>3. ~Overflows(queue, e)
    BY <1>4, <1>9, <1>11, <2>1, QueueAssumption DEF Overflows
  <2> QED
    BY <1>2, <1>4, <1>6, <2>2, <2>3 DEF JournalAfterEnqueue
<1>13. queue' = Q /\ givenUp' = givenUp
  BY <1>2, <1>4, <1>11
<1>14. ASSUME NEW f \in Flushers PROVE Carried(Q, pass[f].batch, J)
  <2>1. Carried(q, pass[f].batch, j)
    BY <1>4 DEF KeptInv
  <2>2. PICK b \in Seq(Entry) : b = pass[f].batch
    BY <1>0, BatchWithin
  <2>3. DOMAIN q = 1 .. Len(q) /\ DOMAIN Q = 1 .. Len(q) + 1 /\ Len(q) \in Nat
        /\ (\A i \in 1 .. Len(q) : Q[i] = q[i]) /\ Q[Len(q) + 1] = e
    BY <1>3, <1>6
  <2>4. \A i \in DOMAIN b : b[i] \in ToSet(j)
    BY <2>1, <2>2 DEF Carried, ToSet
  <2>5. \A i \in DOMAIN b : b[i].id # e.id
    BY <1>3, <1>4, <2>4
  <2>6. \A i \in DOMAIN q, k \in DOMAIN b : q[i].id # b[k].id
    BY <2>1, <2>2 DEF Carried, Apart
  <2>7. \A i \in DOMAIN Q : i \in DOMAIN q \/ i = Len(q) + 1
    BY <2>3
  <2>8. Apart(Q, b)
    BY <2>3, <2>5, <2>6, <2>7 DEF Apart
  <2> QED
    BY <1>5, <1>7, <2>1, <2>2, <2>8 DEF Carried
<1>15. \A f \in Flushers : Carried(queue, pass[f].batch, journal)'
  BY <1>2, <1>12, <1>13, <1>14 DEF Carried, Distinct, Apart
<1>16. \A f \in Flushers : Progress(pass[f])'
  <2>1. \A d : Landed(d)' <=> Landed(d)
    BY <1>2 DEF Landed
  <2> QED
    BY <1>2, <1>13, <2>1 DEF KeptInv, Progress
<1>17. ASSUME NEW d \in accepted' \ givenUp' PROVE Accounted(d)'
  <2>1. CASE d = e
    BY <1>7, <1>13, <2>1 DEF Accounted
  <2>2. CASE d # e
    <3>1. Accounted(d)
      BY <1>2, <1>13, <1>17, <2>2 DEF KeptInv
    <3>2. (\A f : Held(f)' = Held(f)) /\ (Landed(d)' <=> Landed(d))
      BY <1>2 DEF Held, Landed
    <3> QED
      BY <1>4, <1>7, <1>13, <3>1, <3>2 DEF Accounted
  <2> QED
    BY <2>1, <2>2
<1>18. Distinct(queue)' /\ Distinct(journal)' /\ ToSet(queue') \subseteq ToSet(journal')
  BY <1>5, <1>7, <1>12, <1>13 DEF Distinct
<1>19. IssuedAll(journal)'
  BY <1>8, <1>12 DEF IssuedAll
<1> QED
  BY <1>15, <1>16, <1>17, <1>18, <1>19 DEF KeptInv

\* What is held is of the batch, and so is in the journal.
LEMMA HeldInJournal ==
    ASSUME SlotHolds, KeptInv, NEW f \in Flushers
    PROVE  Held(f) \subseteq ToSet(journal)
<1>1. PICK p : p = pass[f]
  OBVIOUS
<1>2. ToSet(p.batch) \subseteq ToSet(journal)
  BY <1>1 DEF KeptInv, Carried
<1>3. CASE p = NoPass
  BY <1>1, <1>3 DEF Held, NoPass
<1>4. CASE Mid(p)
  <2>1. PICK b \in Seq(Entry) : b = p.batch /\ Len(b) >= 1
    BY <1>4, QueueAssumption DEF Mid, Batchy, PassState
  <2>2. ToSet(Tail(b)) \subseteq ToSet(b)
    <3>1. PICK t : t = Tail(b)
      OBVIOUS
    <3>2. ToSet(b) = {b[1]} \cup ToSet(t)
      BY <2>1, <3>1, TailIs
    <3> QED
      BY <3>1, <3>2
  <2> QED
    BY <1>1, <1>2, <2>1, <2>2 DEF Held
<1> QED
  BY <1>1, <1>3, <1>4 DEF SlotHolds, PassHolds

\* Nor does a kill: the replay brings back all the journal has, which is all that is owed.
LEMMA KillKept ==
    ASSUME StoredOnce, QueueInv, KeptInv, NEW lines \in Seq(Entry), KillAndReplay(lines),
           Distinct(lines), Apart(journal, lines),
           \A d \in ToSet(journal) \cup ToSet(lines) :
              <<d.ws, d.id>> \in Requests /\ issued'[<<d.ws, d.id>>] = 1
    PROVE  KeptInv'
<1>0. SlotHolds /\ RestHolds
  BY DEF QueueInv
<1>1. /\ journal' = journal \o lines /\ queue' = Replayed(journal')
      /\ pass' = [f \in Flushers |-> NoPass]
      /\ givenUp' = givenUp \cup {e \in ToSet(journal') : \A d \in ToSet(queue') : d.id # e.id}
      /\ UNCHANGED <<store, accepted>>
  BY DEF KillAndReplay
<1>2. PICK o \in Seq(Entry) : o = journal
  BY <1>0 DEF SlotHolds
<1>3. Distinct(o) /\ Apart(o, lines)
  BY <1>2 DEF KeptInv
<1>4. PICK j : j = o \o lines
  OBVIOUS
<1>5. j \in Seq(Entry) /\ ToSet(j) = ToSet(o) \cup ToSet(lines) /\ Distinct(j)
  BY <1>3, <1>4, JoinedIs
<1>6. \A d \in ToSet(j) : <<d.ws, d.id>> \in Requests /\ issued'[<<d.ws, d.id>>] = 1
  BY <1>2, <1>5
<1>7. Len(j) <= Cap
  BY <1>5, <1>6, JournalFits
<1>8. Replayed(j) = j
  BY <1>5, <1>7, ReplayedIs
<1>9. journal' = j /\ queue' = j
  BY <1>1, <1>2, <1>4, <1>8
<1>10. givenUp' = givenUp
  BY <1>1, <1>9
<1>11. \A f \in Flushers : pass'[f] = NoPass
  BY <1>1
<1>12. ASSUME NEW f \in Flushers PROVE Carried(queue, pass[f].batch, journal)'
  <2>1. ToSet(<<>>) = {} /\ DOMAIN <<>> = {} /\ pass'[f].batch = <<>>
    BY <1>11 DEF ToSet, NoPass
  <2> QED
    BY <1>5, <1>9, <2>1 DEF Carried, Distinct, Apart
<1>13. ASSUME NEW f \in Flushers PROVE Progress(pass[f])'
  BY <1>11 DEF Progress, NoPass
<1>14. ASSUME NEW e \in accepted' \ givenUp' PROVE Accounted(e)'
  <2>1. Accounted(e)
    BY <1>1, <1>10, <1>14 DEF KeptInv
  <2>2. ToSet(queue) \subseteq ToSet(journal)
    BY DEF KeptInv
  <2>3. Landed(e) \/ e \in ToSet(journal)
    BY <1>0, <2>1, <2>2, HeldInJournal DEF Accounted
  <2>4. Landed(e)' <=> Landed(e)
    BY <1>1 DEF Landed
  <2>5. ToSet(journal) \subseteq ToSet(queue')
    BY <1>2, <1>5, <1>9
  <2> QED
    BY <2>3, <2>4, <2>5 DEF Accounted
<1>15. Distinct(queue)' /\ Distinct(journal)' /\ ToSet(queue') \subseteq ToSet(journal')
  BY <1>5, <1>9 DEF Distinct
<1>16. IssuedAll(journal)'
  BY <1>6, <1>9 DEF IssuedAll
<1> QED
  BY <1>12, <1>13, <1>14, <1>15, <1>16 DEF KeptInv

\* At the start of a process with an empty journal nothing is owed.
LEMMA KeptInit == Init => KeptInv
<1> SUFFICES ASSUME Init PROVE KeptInv
  OBVIOUS
<1>1. queue = <<>> /\ journal = <<>> /\ accepted = {} /\ \A f \in Flushers : pass[f] = NoPass
  BY DEF Init
<1>2. ToSet(<<>>) = {} /\ DOMAIN <<>> = {}
  BY DEF ToSet
<1>3. Distinct(<<>>) /\ Apart(<<>>, <<>>)
  BY <1>2 DEF Distinct, Apart
<1>4. \A f \in Flushers : Carried(queue, pass[f].batch, journal)
  BY <1>1, <1>2, <1>3 DEF Carried, NoPass
<1>5. \A f \in Flushers : Progress(pass[f])
  BY <1>1 DEF Progress, NoPass
<1>6. IssuedAll(journal)
  BY <1>1, <1>2 DEF IssuedAll
<1> QED
  BY <1>1, <1>2, <1>3, <1>4, <1>5, <1>6 DEF KeptInv

\* No step loses anything.
LEMMA KeptNext ==
    ASSUME StoredOnce, QueueInv, KeptInv, [Next]_vars
    PROVE  KeptInv'
<1>0. SlotHolds /\ RestHolds
  BY DEF QueueInv
<1>u. ASSUME UNCHANGED <<queue, journal, pass, store, issued, accepted, givenUp>> PROVE KeptInv'
  <2>1. StoreGrows
    BY <1>u DEF StoreGrows, Landed
  <2> QED
    BY <1>u, <2>1, StoreGrowsKept
<1>1. ASSUME NEW r \in Requests, EnqueueVerbatim(r[1], r[2]) PROVE KeptInv'
  BY <1>1, EnqueueKept
<1>2. ASSUME NEW r \in Requests, KillInEnqueue(r[1], r[2]) PROVE KeptInv'
  <2>1. PICK e : e = NextVersion(r[1], r[2])
    OBVIOUS
  <2>2. /\ e \in Entry /\ <<e.ws, e.id>> \in Requests /\ issued'[<<e.ws, e.id>>] = 1
        /\ \A d \in ToSet(journal) : d.id # e.id /\ issued'[<<d.ws, d.id>>] = 1
    BY <1>2, <2>1, FreshEntry DEF KillInEnqueue
  <2>3. <<e>> \in Seq(Entry) /\ DOMAIN <<e>> = {1} /\ <<e>>[1] = e
    BY <2>2
  <2>4. PICK lines \in Seq(Entry) : lines = <<e>> /\ DOMAIN lines = {1} /\ lines[1] = e
    BY <2>3
  <2>5. ToSet(lines) = {e} /\ Distinct(lines)
    BY <2>4 DEF ToSet, Distinct
  <2>6. Apart(journal, lines)
    BY <2>2, <2>4 DEF Apart, ToSet
  <2>7. \A d \in ToSet(journal) \cup ToSet(lines) :
           <<d.ws, d.id>> \in Requests /\ issued'[<<d.ws, d.id>>] = 1
    BY <2>2, <2>5 DEF KeptInv, IssuedAll
  <2>8. KillAndReplay(lines)
    BY <1>2, <2>1, <2>4 DEF KillInEnqueue
  <2> QED
    BY <2>5, <2>6, <2>7, <2>8, KillKept
<1>3. ASSUME NEW f \in Flushers, FlushCall(f) \/ WaiterResumes(f) PROVE KeptInv'
  BY <1>3, CallKept
<1>4. ASSUME NEW f \in Flushers, PassStep(f) PROVE KeptInv'
  BY <1>0, <1>4, BorrowOpensKept, FailsKept, NodeKept, StoreSettlesKept, EmbedsSettleKept
     DEF PassStep
<1>5. ASSUME NEW w \in writes, AbandonedWriteLands(w) PROVE KeptInv'
  <2>1. PICK ws \in Workspaces, rows \in Seq(Entry) : ws = w.ws /\ rows = w.rows
    BY <1>0 DEF RestHolds
  <2>2. store' = Upserted(ws, rows) /\ UNCHANGED <<queueVars, ghostVars>>
    BY <1>5, <2>1 DEF AbandonedWriteLands
  <2>3. StoreGrows
    BY <1>0, <2>2, UpsertGrows DEF ghostVars
  <2> QED
    BY <2>2, <2>3, StoreGrowsKept DEF queueVars, ghostVars
<1>6. ASSUME NEW w \in writes, AbandonedWriteFails(w) PROVE KeptInv'
  BY <1>6, <1>u DEF AbandonedWriteFails, queueVars, ghostVars
<1>7. ASSUME NEW ws \in Workspaces, CooldownElapses(ws) PROVE KeptInv'
  BY <1>7, <1>u DEF CooldownElapses, ghostVars
<1>8. CASE Kill
  <2>1. <<>> \in Seq(Entry) /\ DOMAIN <<>> = {}
    OBVIOUS
  <2>2. PICK lines \in Seq(Entry) : lines = <<>> /\ DOMAIN lines = {}
    BY <2>1
  <2>3. ToSet(lines) = {} /\ Distinct(lines) /\ Apart(journal, lines)
    BY <2>2 DEF ToSet, Distinct, Apart
  <2>4. KillAndReplay(lines) /\ issued' = issued
    BY <1>8, <2>2 DEF Kill
  <2>5. \A d \in ToSet(journal) \cup ToSet(lines) :
           <<d.ws, d.id>> \in Requests /\ issued'[<<d.ws, d.id>>] = 1
    BY <2>3, <2>4 DEF KeptInv, IssuedAll
  <2> QED
    BY <2>3, <2>4, <2>5, KillKept
<1>9. CASE FoldStep
  BY <1>9, <1>u DEF FoldStep, queueVars, ghostVars
<1>10. CASE UNCHANGED vars
  BY <1>10, <1>u DEF vars, ghostVars
<1> QED
  BY <1>1, <1>2, <1>3, <1>4, <1>5, <1>6, <1>7, <1>8, <1>9, <1>10 DEF Next

\* So what is owed waits or is held, and the journal has it.
LEMMA KeptInvIs == QueueInv /\ KeptInv => NothingVanishes /\ JournalComplete
<1> SUFFICES ASSUME QueueInv, KeptInv PROVE NothingVanishes /\ JournalComplete
  OBVIOUS
<1>0. SlotHolds /\ RestHolds
  BY DEF QueueInv
<1>1. ASSUME NEW e \in Owed
      PROVE  /\ StandsFor(e, e)
             /\ e \in ToSet(queue) \cup UNION {Held(f) : f \in Flushers}
             /\ e \in ToSet(journal)
  <2>1. e \in accepted \ givenUp /\ ~Landed(e) /\ e \in Entry
    BY <1>0, <1>1 DEF Owed, RestHolds
  <2>2. e \in ToSet(queue) \/ \E f \in Flushers : e \in Held(f)
    BY <2>1 DEF KeptInv, Accounted
  <2>3. e \in ToSet(journal)
    BY <1>0, <2>2, HeldInJournal DEF KeptInv
  <2>4. e.v \in Nat
    BY <2>1, QueueAssumption DEF Entry
  <2>5. StandsFor(e, e)
    BY <2>4 DEF StandsFor
  <2> QED
    BY <2>2, <2>3, <2>5
<1>2. NothingVanishes
  BY <1>1 DEF NothingVanishes
<1>3. JournalCoversOwed
  BY <1>1 DEF JournalCoversOwed
<1>4. JournalHoldsQueue
  BY DEF JournalHoldsQueue, KeptInv
<1> QED
  BY <1>2, <1>3, <1>4 DEF JournalComplete

DurableInv == StoredOnce /\ QueueInv /\ KeptInv

\* Both parts of the invariant are kept, together with the hypotheses on the constants.
LEMMA DurableNext == DurableInv /\ [Next]_vars => DurableInv'
BY QueueNext, KeptNext DEF DurableInv, StoredOnce

(* A text whose store call returned is in its store, waits, or is in the   *)
(* hands of a pass, unless the store itself rejected it: through probes,   *)
(* requeues, timeouts, writes that land late and kills, with texts stored  *)
(* once and fewer than the cap.                                            *)
THEOREM VanishTheorem == StoredOnce => (Spec => []NothingVanishes)
<1>1. StoredOnce /\ Init => DurableInv
  BY QueueInit, KeptInit DEF DurableInv
<1>2. DurableInv => NothingVanishes
  BY KeptInvIs DEF DurableInv
<1> QED
  BY <1>1, <1>2, DurableNext, PTL DEF Spec

(* And the journal has a line for it, so that a SIGKILL at any moment      *)
(* brings it back ("An entry therefore survives even a SIGKILL between     *)
(* enqueue and flush", the header of verbatimQueue.ts).                    *)
THEOREM JournalTheorem == StoredOnce => (Spec => []JournalComplete)
<1>1. StoredOnce /\ Init => DurableInv
  BY QueueInit, KeptInit DEF DurableInv
<1>2. DurableInv => JournalComplete
  BY KeptInvIs DEF DurableInv
<1> QED
  BY <1>1, <1>2, DurableNext, PTL DEF Spec
=============================================================================

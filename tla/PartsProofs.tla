---------------------------- MODULE PartsProofs -----------------------------
(* The small parts, for any size of theirs: the sessions of the MCP endpoint   *)
(* (src/mcp/server.ts), the advice for hooks (src/mcp/hookEnrich.ts), the       *)
(* remote client (src/loreClient.ts), the page's watch over index runs          *)
(* (useIndexStatus.ts), and the daemons that the desktop app, launchd and a     *)
(* terminal start (src-tauri/src/lib.rs, src/cli/service.ts, src/daemon.ts).    *)
(* They share no state, and each has its own invariant.                         *)
EXTENDS DesktopDaemon, McpSessions, HookEnrich, LoreClient, IndexPolling,
        FiniteSetTheorems, WellFoundedInduction, TLAPS

\* A set of numbers has a least one.
LEMMA Least ==
    ASSUME NEW T \in SUBSET Nat, T # {}
    PROVE  \E n \in T : \A m \in T : n <= m
<1>1. PICK n \in T : \A m \in T : <<m, n>> \notin OpToRel(<, Nat)
      BY NatLessThanWellFounded, WFMin
<1>2. OpToRel(<, Nat) = {p \in Nat \X Nat : p[1] < p[2]}
      BY DEF OpToRel
<1>3. \A m \in T : ~(m < n)
      BY <1>1, <1>2
<1> QED BY <1>3

\* What holds of 0, and of the number after one it holds of, holds up to n.
LEMMA UpTo ==
    ASSUME NEW n \in Nat, NEW S, 0 \in S, \A k \in 0 .. n - 1 : k \in S => k + 1 \in S
    PROVE  n \in S
<1>1. SUFFICES ASSUME (0 .. n) \ S # {} PROVE FALSE
      OBVIOUS
<1>2. PICK k \in (0 .. n) \ S : \A m \in (0 .. n) \ S : k <= m
      <2>1. (0 .. n) \ S \in SUBSET Nat
            OBVIOUS
      <2> QED BY <1>1, <2>1, Least
<1>3. k # 0 /\ k - 1 \in 0 .. n - 1
      BY <1>2
<1>4. k - 1 \in S
      BY <1>2, <1>3
<1> QED BY <1>2, <1>3, <1>4

-----------------------------------------------------------------------------
(* The sessions: the map is in the order of use, so that its first is the one  *)
(* that has been quiet for longest.                                            *)

\* Who was used later has been quiet for no longer.
ByUse ==
    \A i, j \in 1 .. Len(sessions) : i < j => age[sessions[j]] <= age[sessions[i]]

SessionsInv ==
    /\ sessions \in Seq(Sids) /\ SessionsTypeOK /\ SessionsBounded /\ ByUse
    /\ \A s \in Tracked : transport[s] = "open"
    /\ serving => \A s \in Sids : transport[s] = "open" => s \in Tracked

\* What is left of the first i, for every i: each is determined by the one before.
Leaving(S, g, n) ==
    g = [i \in 0 .. n |-> IF i = 0 THEN <<>>
                          ELSE IF sessions[i] \in S THEN g[i - 1] ELSE Append(g[i - 1], sessions[i])]

\* There is such a function, up to the whole map.
LEMMA LeavingExists ==
    ASSUME sessions \in Seq(Sids), NEW S
    PROVE  \E g : Leaving(S, g, Len(sessions))
<1>1. PICK L \in Nat : L = Len(sessions)
      OBVIOUS
<1> DEFINE F(h, i) == IF sessions[i] \in S THEN h ELSE Append(h, sessions[i])
<1> DEFINE T == {n \in 0 .. L : \E g : Leaving(S, g, n)}
<1>2. 0 \in T
      <2>1. PICK g : g = [i \in 0 .. 0 |-> <<>>]
            OBVIOUS
      <2>2. Leaving(S, g, 0)
            BY <2>1 DEF Leaving
      <2> QED BY <1>1, <2>2
<1>3. ASSUME NEW k \in 0 .. L - 1, k \in T PROVE k + 1 \in T
      <2>1. PICK g : Leaving(S, g, k)
            BY <1>3
      <2>2. PICK h : h = [i \in 0 .. k + 1 |-> IF i = k + 1 THEN F(g[k], k + 1) ELSE g[i]]
            OBVIOUS
      <2>3. \A i \in 0 .. k : h[i] = g[i] /\ i # k + 1
            BY <1>1, <2>2
      <2>4. h[0] = <<>>
            BY <1>1, <2>1, <2>3 DEF Leaving
      <2>5. ASSUME NEW i \in 1 .. k PROVE h[i] = F(h[i - 1], i)
            <3>1. i \in 0 .. k /\ i - 1 \in 0 .. k /\ i # 0
                  BY <1>1
            <3>2. g[i] = F(g[i - 1], i)
                  BY <2>1, <3>1 DEF Leaving
            <3> QED BY <2>3, <3>1, <3>2
      <2>6. h[k + 1] = F(h[k], k + 1)
            BY <1>1, <2>2, <2>3
      <2>7. ASSUME NEW i \in 0 .. k + 1 PROVE h[i] = IF i = 0 THEN <<>> ELSE F(h[i - 1], i)
            <3>1. i = 0 \/ i \in 1 .. k \/ (i = k + 1 /\ i # 0 /\ i - 1 = k)
                  BY <1>1
            <3>2. i \in 1 .. k => i # 0
                  BY <1>1
            <3> HIDE DEF F
            <3> QED BY <2>4, <2>5, <2>6, <3>1, <3>2
      <2>8. Leaving(S, h, k + 1)
            BY <2>2, <2>7 DEF Leaving
      <2> QED BY <1>1, <2>8
<1>4. L \in T
      <2> HIDE DEF T
      <2> QED BY <1>1, <1>2, <1>3, UpTo
<1> QED BY <1>1, <1>4

\* What is left: all but those of S, each once, in the order of use; fewer if any of S was there.
LEMMA DropIs ==
    ASSUME sessions \in Seq(Sids), IsInjective(sessions), ByUse, NEW S
    PROVE  \E d : /\ d = Drop(S)
                  /\ d \in Seq(Sids) /\ IsInjective(d) /\ ToSet(d) = Tracked \ S
                  /\ Len(d) <= Len(sessions)
                  /\ Tracked \cap S # {} => Len(d) < Len(sessions)
                  /\ \A i, j \in 1 .. Len(d) : i < j => age[d[j]] <= age[d[i]]
<1>1. PICK L \in Nat : L = Len(sessions)
      OBVIOUS
<1>2. \A i \in 1 .. L : sessions[i] \in Sids
      BY <1>1
<1>3. \A i, j \in 1 .. L : sessions[i] = sessions[j] => i = j
      BY <1>1 DEF IsInjective
<1>4. PICK left : Leaving(S, left, L) /\ Drop(S) = left[L]
      <2>1. PICK left : left = CHOOSE g : Leaving(S, g, L)
            OBVIOUS
      <2>2. Leaving(S, left, L)
            BY <1>1, <2>1, LeavingExists
      <2>3. Drop(S) = left[L]
            BY <1>1, <2>1 DEF Drop, Leaving
      <2> QED BY <2>2, <2>3
<1> DEFINE Part(d, n) ==
        /\ d \in Seq(Sids) /\ Len(d) <= n
        /\ (\E i \in 1 .. n : sessions[i] \in S) => Len(d) < n
        /\ \A j \in 1 .. Len(d) : \E i \in 1 .. n : d[j] = sessions[i] /\ sessions[i] \notin S
        /\ \A i \in 1 .. n : sessions[i] \notin S => \E j \in 1 .. Len(d) : d[j] = sessions[i]
        /\ \A j, l \in 1 .. Len(d) : d[j] = d[l] => j = l
        /\ \A j, l \in 1 .. Len(d) : j < l => age[d[l]] <= age[d[j]]
<1> DEFINE T == {n \in 0 .. L : Part(left[n], n)}
<1>5. 0 \in T
      <2>1. left[0] = <<>>
            BY <1>1, <1>4 DEF Leaving
      <2>2. <<>> \in Seq(Sids) /\ Len(<<>>) = 0
            OBVIOUS
      <2>3. Part(left[0], 0)
            BY <2>1, <2>2
      <2> QED BY <1>1, <2>3
<1>6. ASSUME NEW k \in 0 .. L - 1, k \in T PROVE k + 1 \in T
      <2>1. k + 1 \in 1 .. L /\ k + 1 \in 0 .. L /\ k + 1 # 0 /\ (k + 1) - 1 = k /\ k \in Nat
            BY <1>1
      <2>2. left[k + 1] = IF sessions[k + 1] \in S THEN left[k] ELSE Append(left[k], sessions[k + 1])
            BY <1>4, <2>1 DEF Leaving
      <2>3. PICK d : d = left[k] /\ Part(d, k)
            BY <1>6
      <2>4. \A i \in 1 .. k : i \in 1 .. k + 1 /\ i # k + 1 /\ sessions[i] # sessions[k + 1]
            BY <1>1, <1>3, <2>1
      <2>5. \A i \in 1 .. k + 1 : i \in 1 .. k \/ i = k + 1
            BY <2>1
      <2>6. CASE sessions[k + 1] \notin S
            <3>1. PICK t : t = Append(d, sessions[k + 1])
                  OBVIOUS
            <3>2. t \in Seq(Sids) /\ Len(t) = Len(d) + 1 /\ Len(d) \in Nat
                  /\ \A j \in 1 .. Len(t) : t[j] = IF j <= Len(d) THEN d[j] ELSE sessions[k + 1]
                  BY <1>2, <2>1, <2>3, <3>1
            <3>3. \A j \in 1 .. Len(t) : j \in 1 .. Len(d) \/ j = Len(d) + 1
                  BY <3>2
            <3>4. \A j \in 1 .. Len(d) : d[j] # sessions[k + 1] /\ j <= Len(d) /\ j \in 1 .. Len(t)
                  BY <2>3, <2>4, <3>2
            <3>5. \A j \in 1 .. Len(d) : t[j] = d[j]
                  BY <3>2, <3>4
            <3>6. t[Len(d) + 1] = sessions[k + 1] /\ Len(d) + 1 \in 1 .. Len(t)
                  BY <3>2
            <3>7. \A j \in 1 .. Len(t) : \E i \in 1 .. k + 1 : t[j] = sessions[i] /\ sessions[i] \notin S
                  BY <2>1, <2>3, <2>4, <2>6, <3>3, <3>5, <3>6
            <3>8. \A i \in 1 .. k + 1 : sessions[i] \notin S => \E j \in 1 .. Len(t) : t[j] = sessions[i]
                  <4>1. ASSUME NEW i \in 1 .. k, sessions[i] \notin S
                        PROVE  \E j \in 1 .. Len(t) : t[j] = sessions[i]
                        <5>1. PICK j \in 1 .. Len(d) : d[j] = sessions[i]
                              BY <2>3, <4>1
                        <5> QED BY <3>4, <3>5, <5>1
                  <4> HIDE DEF Part
                  <4> QED BY <2>5, <3>6, <4>1
            <3>9. \A j, l \in 1 .. Len(t) : t[j] = t[l] => j = l
                  <4>1. \A j, l \in 1 .. Len(d) : t[j] = t[l] => j = l
                        BY <2>3, <3>5
                  <4>2. \A j \in 1 .. Len(d) : t[j] # t[Len(d) + 1]
                        BY <3>4, <3>5, <3>6
                  <4>3. PICK m : m = Len(d) + 1
                        OBVIOUS
                  <4> QED BY <3>3, <4>1, <4>2, <4>3, Zenon
            <3>10. \A j, l \in 1 .. Len(t) : j < l => age[t[l]] <= age[t[j]]
                  <4>1. \A j, l \in 1 .. Len(d) : j < l => age[t[l]] <= age[t[j]]
                        BY <2>3, <3>5
                  <4>2. ASSUME NEW j \in 1 .. Len(d) PROVE age[t[Len(d) + 1]] <= age[t[j]]
                        <5>1. PICK i \in 1 .. k : d[j] = sessions[i]
                              BY <2>3
                        <5>2. i < k + 1 /\ i \in 1 .. L /\ k + 1 \in 1 .. L
                              BY <1>1, <2>1
                        <5>3. age[sessions[k + 1]] <= age[sessions[i]]
                              BY <1>1, <5>2 DEF ByUse
                        <5> QED BY <3>5, <3>6, <5>1, <5>3
                  <4>3. ASSUME NEW j \in 1 .. Len(t), NEW l \in 1 .. Len(t), j < l
                        PROVE  j \in 1 .. Len(d) /\ (l \in 1 .. Len(d) \/ l = Len(d) + 1)
                        BY <3>2, <4>3
                  <4> QED BY <4>1, <4>2, <4>3
            <3>11. Len(t) <= k + 1 /\ ((\E i \in 1 .. k + 1 : sessions[i] \in S) => Len(t) < k + 1)
                  <4>1. (\E i \in 1 .. k + 1 : sessions[i] \in S) => \E i \in 1 .. k : sessions[i] \in S
                        BY <2>5, <2>6
                  <4> QED BY <2>1, <2>3, <3>2, <4>1
            <3>12. Part(t, k + 1)
                  BY <3>2, <3>7, <3>8, <3>9, <3>10, <3>11
            <3>13. left[k + 1] = t
                  BY <2>2, <2>3, <2>6, <3>1
            <3> HIDE DEF Part
            <3> QED BY <2>1, <3>12, <3>13
      <2>7. CASE sessions[k + 1] \in S
            <3>1. Len(d) <= k + 1 /\ Len(d) < k + 1
                  BY <2>1, <2>3
            <3>2. \A j \in 1 .. Len(d) : \E i \in 1 .. k + 1 : d[j] = sessions[i] /\ sessions[i] \notin S
                  BY <2>3, <2>4
            <3>3. \A i \in 1 .. k + 1 : sessions[i] \notin S => \E j \in 1 .. Len(d) : d[j] = sessions[i]
                  BY <2>3, <2>5, <2>7
            <3>4. Part(d, k + 1)
                  BY <2>3, <3>1, <3>2, <3>3
            <3>5. left[k + 1] = d
                  BY <2>2, <2>3, <2>7
            <3> HIDE DEF Part
            <3> QED BY <2>1, <3>4, <3>5
      <2> QED BY <2>6, <2>7
<1>7. L \in T
      <2> HIDE DEF T
      <2> QED BY <1>1, <1>5, <1>6, UpTo
<1>8. PICK d : d = Drop(S) /\ Part(d, L)
      BY <1>4, <1>7
<1>9. IsInjective(d)
      BY <1>8 DEF IsInjective
<1>10. ToSet(d) = Tracked \ S
      <2>1. ToSet(d) = {d[j] : j \in 1 .. Len(d)} /\ Tracked = {sessions[i] : i \in 1 .. L}
            <3>1. DOMAIN d = 1 .. Len(d) /\ DOMAIN sessions = 1 .. L
                  BY <1>1, <1>8
            <3> QED BY <3>1, Zenon DEF ToSet, Tracked
      <2>2. \A j \in 1 .. Len(d) : \E i \in 1 .. L : d[j] = sessions[i] /\ sessions[i] \notin S
            BY <1>8
      <2>3. \A i \in 1 .. L : sessions[i] \notin S => \E j \in 1 .. Len(d) : d[j] = sessions[i]
            BY <1>8
      <2>4. ToSet(d) \subseteq Tracked \ S
            BY <2>1, <2>2
      <2>5. Tracked \ S \subseteq ToSet(d)
            BY <2>1, <2>3
      <2> QED BY <2>4, <2>5
<1>11. Tracked \cap S # {} => \E i \in 1 .. L : sessions[i] \in S
      BY <1>1 DEF ToSet, Tracked
<1> QED BY <1>1, <1>8, <1>9, <1>10, <1>11

\* A session that is put in anew, with no time since its last use, comes last.
LEMMA AddedLast ==
    ASSUME NEW d \in Seq(Sids), NEW s \in Sids, s \notin ToSet(d), IsInjective(d),
           age \in [Sids -> 0 .. Ttl], age' = [age EXCEPT ![s] = 0], sessions' = Append(d, s),
           \A i, j \in 1 .. Len(d) : i < j => age[d[j]] <= age[d[i]]
    PROVE  /\ sessions' \in Seq(Sids) /\ IsInjective(sessions') /\ ByUse'
           /\ ToSet(sessions') = ToSet(d) \cup {s} /\ Len(sessions') = Len(d) + 1
<1>1. PICK t : t = Append(d, s)
      OBVIOUS
<1>2. /\ t \in Seq(Sids) /\ Len(t) = Len(d) + 1 /\ Len(d) \in Nat
      /\ \A i \in 1 .. Len(t) : t[i] = IF i <= Len(d) THEN d[i] ELSE s
      BY <1>1
<1>3. \A i \in 1 .. Len(t) : i \in 1 .. Len(d) \/ i = Len(d) + 1
      BY <1>2
<1>4. t[Len(d) + 1] = s /\ Len(d) + 1 \in 1 .. Len(t)
      BY <1>2
<1>5. \A i \in 1 .. Len(d) : t[i] = d[i] /\ i \in 1 .. Len(t) /\ d[i] \in Sids
      BY <1>2
<1>6. ToSet(d) = {d[i] : i \in 1 .. Len(d)} /\ ToSet(t) = {t[i] : i \in 1 .. Len(t)}
      <2>1. DOMAIN d = 1 .. Len(d) /\ DOMAIN t = 1 .. Len(t)
            BY <1>2
      <2> QED BY <2>1, Zenon DEF ToSet
<1>7. \A i \in 1 .. Len(d) : d[i] # s
      BY <1>6
<1>8. IsInjective(t)
      <2>1. \A i, j \in 1 .. Len(d) : d[i] = d[j] => i = j
            BY DEF IsInjective
      <2>2. \A i, j \in 1 .. Len(t) : t[i] = t[j] => i = j
            BY <1>3, <1>4, <1>5, <1>7, <2>1
      <2> QED BY <1>2, <2>2 DEF IsInjective
<1>9. ToSet(t) = ToSet(d) \cup {s}
      BY <1>3, <1>4, <1>5, <1>6
<1>10. \A i, j \in 1 .. Len(t) : i < j => age'[t[j]] <= age'[t[i]]
      <2>1. age'[s] = 0 /\ \A i \in 1 .. Len(d) : age'[d[i]] = age[d[i]] /\ age[d[i]] \in 0 .. Ttl
            BY <1>5, <1>7
      <2>2. ASSUME NEW i \in 1 .. Len(t), NEW j \in 1 .. Len(t), i < j
            PROVE  age'[t[j]] <= age'[t[i]]
            <3>1. i \in 1 .. Len(d)
                  BY <1>2, <2>2
            <3>2. CASE j \in 1 .. Len(d)
                  BY <1>5, <2>1, <2>2, <3>1, <3>2
            <3>3. CASE j = Len(d) + 1
                  <4>1. age'[t[j]] = 0
                        BY <1>4, <2>1, <3>3
                  <4>2. age'[t[i]] \in 0 .. Ttl
                        BY <1>5, <2>1, <3>1
                  <4> QED BY <4>1, <4>2, SessionsAssumption
            <3> QED BY <1>3, <3>2, <3>3
      <2> QED BY <2>2
<1>11. sessions' = t
      BY <1>1
<1>12. ByUse'
      BY <1>10, <1>11 DEF ByUse
<1> QED BY <1>2, <1>8, <1>9, <1>11, <1>12

\* What is closed beside what stays: no session that was tracked has another transport.
LEMMA ClosingIs ==
    ASSUME transport \in [Sids -> {"none", "connecting", "handling", "open", "closed"}], NEW S
    PROVE  /\ Closing(S) \in [Sids -> {"none", "connecting", "handling", "open", "closed"}]
           /\ \A s \in Sids : s \in S => Closing(S)[s] = "closed"
           /\ \A s \in Sids : s \notin S => Closing(S)[s] = transport[s]
  BY DEF Closing

\* Register puts out the first in the order, when the map is full, and no other.
LEMMA RegisterStep ==
    ASSUME SessionsInv, NEW s \in Sids, Register(s)
    PROVE  /\ SessionsInv'
           /\ \A x, q \in Tracked : x \notin ToSet(sessions') /\ q \in ToSet(sessions') => age[q] <= age[x]
<1> DEFINE over == IF Len(sessions) < Cap THEN {}
                   ELSE ToSet(SubSeq(sessions, 1, Len(sessions) + 1 - Cap))
<1>1. /\ transport[s] = "handling" /\ age' = [age EXCEPT ![s] = 0]
      /\ sessions' = Append(Drop(over), s) /\ transport' = [Closing(over) EXCEPT ![s] = "open"]
      /\ UNCHANGED <<client, serving>>
      BY DEF Register
<1>2. over \subseteq Tracked
      /\ (Len(sessions) = Cap => over = {sessions[1]} /\ sessions[1] \in Tracked)
      /\ (Len(sessions) < Cap => over = {})
      <2>1. Len(sessions) \in Nat /\ Len(sessions) <= Cap /\ Cap \in Nat \ {0}
            BY SessionsAssumption DEF SessionsInv, SessionsBounded
      <2>2. CASE Len(sessions) = Cap
            <3>1. over = ToSet(SubSeq(sessions, 1, 1))
                  BY <2>1, <2>2
            <3>2. PICK one : one = SubSeq(sessions, 1, 1)
                  OBVIOUS
            <3>3. Len(one) = 1 /\ DOMAIN one = 1 .. 1 /\ one[1] = sessions[1] /\ 1 \in DOMAIN sessions
                  BY <2>1, <2>2, <3>2 DEF SessionsInv
            <3>4. ToSet(one) = {sessions[1]}
                  BY <3>3 DEF ToSet
            <3>5. sessions[1] \in Tracked
                  BY <3>3 DEF Tracked, ToSet
            <3> QED BY <2>1, <2>2, <3>1, <3>2, <3>4, <3>5
      <2>3. CASE Len(sessions) < Cap
            BY <2>1, <2>3
      <2> QED BY <2>1, <2>2, <2>3
<1> HIDE DEF over
<1>3. PICK d : /\ d = Drop(over)
               /\ d \in Seq(Sids) /\ IsInjective(d) /\ ToSet(d) = Tracked \ over
               /\ Len(d) <= Len(sessions)
               /\ Tracked \cap over # {} => Len(d) < Len(sessions)
               /\ \A i, j \in 1 .. Len(d) : i < j => age[d[j]] <= age[d[i]]
      BY DropIs DEF SessionsInv, SessionsTypeOK
<1>4. s \notin Tracked /\ s \notin over
      BY <1>1, <1>2 DEF SessionsInv
<1>5. age \in [Sids -> 0 .. Ttl] /\ s \notin ToSet(d) /\ sessions' = Append(d, s)
      BY <1>1, <1>3, <1>4 DEF SessionsInv, SessionsTypeOK
<1>6. /\ sessions' \in Seq(Sids) /\ IsInjective(sessions') /\ ByUse'
      /\ ToSet(sessions') = (Tracked \ over) \cup {s} /\ Len(sessions') = Len(d) + 1
      BY <1>1, <1>3, <1>5, AddedLast
<1>7. SessionsBounded'
      <2>1. Len(sessions) \in Nat /\ Len(sessions) <= Cap /\ Cap \in Nat \ {0} /\ Len(d) \in Nat
            BY <1>3, SessionsAssumption DEF SessionsInv, SessionsBounded
      <2>2. Len(d) < Cap
            BY <1>2, <1>3, <2>1
      <2> QED BY <1>6, <2>1, <2>2 DEF SessionsBounded
<1>8. /\ transport' \in [Sids -> {"none", "connecting", "handling", "open", "closed"}]
      /\ transport'[s] = "open"
      /\ \A x \in Sids : x # s => transport'[x] = IF x \in over THEN "closed" ELSE transport[x]
      BY <1>1, ClosingIs DEF SessionsInv, SessionsTypeOK
<1>9. Tracked' = (Tracked \ over) \cup {s} /\ Tracked \subseteq Sids
      BY <1>6 DEF Tracked, SessionsInv, SessionsTypeOK
<1>10. SessionsTypeOK'
      <2>1. age' \in [Sids -> 0 .. Ttl]
            BY <1>1, <1>5, SessionsAssumption
      <2> QED BY <1>1, <1>6, <1>8, <1>9, <2>1 DEF SessionsInv, SessionsTypeOK
<1>11. \A x \in Tracked' : transport'[x] = "open"
      BY <1>4, <1>8, <1>9 DEF SessionsInv
<1>12. serving' => \A x \in Sids : transport'[x] = "open" => x \in Tracked'
      BY <1>1, <1>8, <1>9 DEF SessionsInv
<1>13. ASSUME NEW x \in Tracked, NEW q \in Tracked, x \notin ToSet(sessions'), q \in ToSet(sessions')
       PROVE  age[q] <= age[x]
      <2>1. x \in over /\ Len(sessions) = Cap /\ x = sessions[1] /\ Len(sessions) \in Nat
            BY <1>2, <1>6, <1>13, SessionsAssumption DEF SessionsInv, SessionsBounded
      <2>2. PICK i \in 1 .. Len(sessions) : q = sessions[i]
            BY DEF Tracked, ToSet, SessionsInv
      <2>3. i # 1
            BY <1>4, <1>6, <1>13, <2>1, <2>2
      <2>4. 1 \in 1 .. Len(sessions) /\ 1 < i
            BY <2>1, <2>2, <2>3
      <2> QED BY <2>1, <2>2, <2>4 DEF SessionsInv, ByUse
<1> QED BY <1>6, <1>7, <1>10, <1>11, <1>12, <1>13 DEF SessionsInv

\* A request, an end and the sweep: what is dropped is known.
LEMMA RequestStep ==
    ASSUME SessionsInv, NEW s \in Sids, Request(s)
    PROVE  SessionsInv'
<1>1. /\ s \in Tracked /\ age' = [age EXCEPT ![s] = 0] /\ sessions' = Append(Drop({s}), s)
      /\ UNCHANGED <<client, transport, serving>>
      BY DEF Request
<1>2. PICK d : /\ d = Drop({s})
               /\ d \in Seq(Sids) /\ IsInjective(d) /\ ToSet(d) = Tracked \ {s}
               /\ Len(d) <= Len(sessions)
               /\ Tracked \cap {s} # {} => Len(d) < Len(sessions)
               /\ \A i, j \in 1 .. Len(d) : i < j => age[d[j]] <= age[d[i]]
      BY DropIs DEF SessionsInv, SessionsTypeOK
<1>3. age \in [Sids -> 0 .. Ttl] /\ s \notin ToSet(d) /\ sessions' = Append(d, s)
      BY <1>1, <1>2 DEF SessionsInv, SessionsTypeOK
<1>4. /\ sessions' \in Seq(Sids) /\ IsInjective(sessions') /\ ByUse'
      /\ ToSet(sessions') = (Tracked \ {s}) \cup {s} /\ Len(sessions') = Len(d) + 1
      BY <1>1, <1>2, <1>3, AddedLast
<1>5. Tracked' = Tracked
      BY <1>1, <1>4 DEF Tracked
<1>6. SessionsBounded'
      <2>1. Len(sessions) \in Nat /\ Len(sessions) <= Cap /\ Cap \in Nat \ {0} /\ Len(d) \in Nat
            BY <1>2, SessionsAssumption DEF SessionsInv, SessionsBounded
      <2>2. Len(d) < Len(sessions)
            BY <1>1, <1>2
      <2> QED BY <1>4, <2>1, <2>2 DEF SessionsBounded
<1>7. age' \in [Sids -> 0 .. Ttl]
      BY <1>1, <1>3, SessionsAssumption
<1>8. SessionsTypeOK'
      BY <1>1, <1>4, <1>5, <1>7 DEF SessionsInv, SessionsTypeOK
<1>9. (\A x \in Tracked' : transport'[x] = "open")
      /\ (serving' => \A x \in Sids : transport'[x] = "open" => x \in Tracked')
      BY <1>1, <1>5 DEF SessionsInv
<1> QED BY <1>4, <1>6, <1>8, <1>9 DEF SessionsInv

\* Sessions that are closed and leave the map, the others keeping their order.
LEMMA Dropped ==
    ASSUME SessionsInv, NEW S, S \subseteq Tracked, sessions' = Drop(S), transport' = Closing(S),
           client' \in [Sids -> {"none", "here", "gone"}], UNCHANGED <<age, serving>>
    PROVE  SessionsInv' /\ ToSet(sessions') = Tracked \ S
<1>1. PICK d : /\ d = Drop(S)
               /\ d \in Seq(Sids) /\ IsInjective(d) /\ ToSet(d) = Tracked \ S
               /\ Len(d) <= Len(sessions)
               /\ \A i, j \in 1 .. Len(d) : i < j => age[d[j]] <= age[d[i]]
      BY DropIs DEF SessionsInv, SessionsTypeOK
<1>2. sessions' = d /\ age' = age /\ serving' = serving
      BY <1>1
<1>3. Tracked' = Tracked \ S
      BY <1>1, <1>2 DEF Tracked
<1>4. SessionsBounded' /\ ByUse'
      BY <1>1, <1>2, SessionsAssumption DEF SessionsInv, SessionsBounded, ByUse
<1>5. /\ transport' \in [Sids -> {"none", "connecting", "handling", "open", "closed"}]
      /\ \A x \in Sids : transport'[x] = IF x \in S THEN "closed" ELSE transport[x]
      BY ClosingIs DEF SessionsInv, SessionsTypeOK
<1>6. SessionsTypeOK'
      BY <1>1, <1>2, <1>3, <1>5 DEF SessionsInv, SessionsTypeOK
<1>7. \A x \in Tracked' : transport'[x] = "open"
      BY <1>3, <1>5 DEF SessionsInv, SessionsTypeOK
<1>8. serving' => \A x \in Sids : transport'[x] = "open" => x \in Tracked'
      BY <1>2, <1>3, <1>5 DEF SessionsInv
<1> QED BY <1>1, <1>2, <1>4, <1>6, <1>7, <1>8 DEF SessionsInv

\* Everything goes when the server is closed.
LEMMA CloseServerStep ==
    ASSUME SessionsInv, CloseServer
    PROVE  SessionsInv'
<1>1. /\ ~serving' /\ transport' = Closing(Tracked) /\ sessions' = <<>> /\ serving' = FALSE
      /\ UNCHANGED <<client, age>>
      BY DEF CloseServer
<1>2. <<>> \in Seq(Sids) /\ Len(<<>>) = 0 /\ DOMAIN <<>> = {} /\ ToSet(<<>>) = {}
      BY DEF ToSet
<1>3. Tracked' = {} /\ sessions' \in Seq(Sids) /\ IsInjective(sessions')
      BY <1>1, <1>2 DEF Tracked, IsInjective
<1>4. SessionsBounded' /\ ByUse'
      <2>1. Len(sessions') = 0
            BY <1>1, <1>2
      <2>2. 1 .. Len(sessions') = {}
            BY <2>1
      <2> QED BY <2>1, <2>2, SessionsAssumption DEF SessionsBounded, ByUse
<1>5. transport' \in [Sids -> {"none", "connecting", "handling", "open", "closed"}]
      BY <1>1, ClosingIs DEF SessionsInv, SessionsTypeOK
<1>6. SessionsTypeOK'
      BY <1>1, <1>3, <1>5 DEF SessionsInv, SessionsTypeOK
<1> QED BY <1>1, <1>3, <1>4, <1>6 DEF SessionsInv

\* Time passes for all alike, up to what the sweep asks for.
LEMMA PassStep ==
    ASSUME SessionsInv, Pass
    PROVE  SessionsInv'
<1>1. /\ age' = [s \in Sids |-> IF age[s] < Ttl THEN age[s] + 1 ELSE Ttl]
      /\ UNCHANGED <<client, transport, sessions, serving>>
      BY DEF Pass
<1>2. age \in [Sids -> 0 .. Ttl] /\ Ttl \in Nat
      BY SessionsAssumption DEF SessionsInv, SessionsTypeOK
<1>3. age' \in [Sids -> 0 .. Ttl]
      BY <1>1, <1>2
<1>4. \A s, q \in Sids : age[s] <= age[q] => age'[s] <= age'[q]
      BY <1>1, <1>2
<1>5. Tracked' = Tracked /\ SessionsBounded'
      BY <1>1 DEF Tracked, SessionsInv, SessionsBounded
<1>6. ByUse'
      <2>1. \A i \in 1 .. Len(sessions) : sessions[i] \in Sids
            BY DEF SessionsInv
      <2> QED BY <1>1, <1>4, <2>1 DEF SessionsInv, ByUse
<1>7. SessionsTypeOK'
      BY <1>1, <1>3, <1>5 DEF SessionsInv, SessionsTypeOK
<1> QED BY <1>1, <1>5, <1>6, <1>7 DEF SessionsInv

\* Steps that leave the map and the clock alone, and open or close nothing.
LEMMA BesideStep ==
    ASSUME SessionsInv, NEW s \in Sids, Connect(s) \/ Handle(s) \/ Vanish(s)
    PROVE  SessionsInv'
<1>1. UNCHANGED <<sessions, age, serving>>
      BY DEF Connect, Handle, Vanish
<1>2. Tracked' = Tracked /\ SessionsBounded' /\ ByUse'
      BY <1>1 DEF Tracked, SessionsInv, SessionsBounded, ByUse
<1>3. /\ client' \in [Sids -> {"none", "here", "gone"}]
      /\ transport' \in [Sids -> {"none", "connecting", "handling", "open", "closed"}]
      BY DEF SessionsInv, SessionsTypeOK, Connect, Handle, Vanish
<1>4. \A x \in Sids : transport'[x] = "open" <=> transport[x] = "open"
      BY DEF SessionsInv, SessionsTypeOK, Connect, Handle, Vanish
<1>5. SessionsTypeOK'
      BY <1>1, <1>2, <1>3 DEF SessionsInv, SessionsTypeOK
<1> QED BY <1>1, <1>2, <1>4, <1>5 DEF SessionsInv, SessionsTypeOK

\* The sweep, and the end of a session, drop what they close.
LEMMA SweepStep ==
    ASSUME SessionsInv, Sweep
    PROVE  /\ SessionsInv'
           /\ \A x, q \in Tracked : x \notin ToSet(sessions') /\ q \in ToSet(sessions') => age[q] <= age[x]
<1>1. PICK S : S = {s \in Tracked : age[s] = Ttl}
      OBVIOUS
<1>2. S \subseteq Tracked /\ sessions' = Drop(S) /\ transport' = Closing(S) /\ UNCHANGED <<client, age, serving>>
      BY <1>1 DEF Sweep
<1>3. SessionsInv' /\ ToSet(sessions') = Tracked \ S
      BY <1>2, Dropped DEF SessionsInv, SessionsTypeOK
<1>4. ASSUME NEW x \in Tracked, NEW q \in Tracked, x \notin ToSet(sessions')
      PROVE  age[q] <= age[x]
      BY <1>1, <1>3, <1>4, SessionsAssumption DEF SessionsInv, SessionsTypeOK
<1> QED BY <1>3, <1>4

\* The invariant of the sessions is kept by every step.
LEMMA SessionsStep ==
    ASSUME SessionsInv, [Serve]_table
    PROVE  SessionsInv'
<1>1. CASE UNCHANGED table
      BY <1>1 DEF table, SessionsInv, SessionsTypeOK, SessionsBounded, ByUse, Tracked
<1>2. CASE \E s \in Sids : EndSession(s)
      <2>1. PICK s \in Sids : EndSession(s)
            BY <1>2
      <2>2. {s} \subseteq Tracked /\ client' \in [Sids -> {"none", "here", "gone"}]
            BY <2>1 DEF EndSession, SessionsInv, SessionsTypeOK
      <2>3. sessions' = Drop({s}) /\ transport' = Closing({s}) /\ UNCHANGED <<age, serving>>
            BY <2>1 DEF EndSession
      <2> QED BY <2>2, <2>3, Dropped
<1>3. CASE Serve /\ ~\E s \in Sids : EndSession(s)
      BY <1>3, RegisterStep, RequestStep, CloseServerStep, PassStep, BesideStep, SweepStep DEF Serve
<1> QED BY <1>1, <1>2, <1>3

\* However many sessions are opened, used, abandoned and ended: the map keeps to its
\* cap, holds exactly the open transports until the server is closed, and nobody is put
\* out before one that has been quiet for longer (evictOverCap, sweepIdleSessions).
THEOREM SessionsAreKept == SessionsSpec => SessionsKept
<1>1. SessionsInit => SessionsInv
      <2> SUFFICES ASSUME SessionsInit PROVE SessionsInv
          OBVIOUS
      <2>1. <<>> \in Seq(Sids) /\ Len(<<>>) = 0 /\ DOMAIN <<>> = {} /\ ToSet(<<>>) = {}
            BY DEF ToSet
      <2>2. Tracked = {} /\ sessions = <<>> /\ IsInjective(sessions)
            BY <2>1 DEF SessionsInit, Tracked, IsInjective
      <2>3. SessionsBounded /\ ByUse
            <3>1. Len(sessions) = 0
                  BY <2>1, <2>2
            <3>2. 1 .. Len(sessions) = {}
                  BY <3>1
            <3> QED BY <3>1, <3>2, SessionsAssumption DEF SessionsBounded, ByUse
      <2>4. SessionsTypeOK
            BY <2>2, SessionsAssumption DEF SessionsInit, SessionsTypeOK
      <2>5. \A s \in Sids : transport[s] # "open"
            BY DEF SessionsInit
      <2> QED BY <2>1, <2>2, <2>3, <2>4, <2>5 DEF SessionsInv
<1>2. SessionsInv /\ [Serve]_table => SessionsInv'
      BY SessionsStep
<1>3. SessionsInv => SessionsTypeOK /\ SessionsBounded /\ OpenIsTracked
      BY DEF SessionsInv, OpenIsTracked, SessionsTypeOK
<1>4. SessionsInv =>
        [\A s, q \in Tracked :
          (Sweep \/ \E n \in Sids : Register(n)) /\ s \notin ToSet(sessions') /\ q \in ToSet(sessions')
             => age[q] <= age[s]]_table
      BY RegisterStep, SweepStep
<1>5. SessionsSpec => []SessionsInv
      BY <1>1, <1>2, PTL DEF SessionsSpec
<1>6. SessionsSpec => QuietGoesFirst
      BY <1>4, <1>5, PTL DEF QuietGoesFirst
<1> QED BY <1>3, <1>5, <1>6, PTL DEF SessionsKept

-----------------------------------------------------------------------------
(* The advice for hooks: the guard is shut exactly while a lookup is in native *)
(* code, and a hook waits only for its own, so that no second lookup starts    *)
(* beside one whose hook has given up.                                        *)

Asked == [pc : {"idle", "racing"}, symbol : Symbols \cup {Nobody}, told : {"none", "advice", "nothing", "fallback"}]

EnrichTypeOK ==
    /\ hook \in [Hooks -> Asked]
    /\ holder \in Hooks \cup {Nobody}
    /\ kept \in [Symbols -> [age : Nat, value : {"none", "advice", "nothing"}]]
    /\ cached \in Seq(Symbols)

\* The guard is shut for the one lookup there is.
Guarded ==
    /\ native = IF holder = Nobody THEN {} ELSE {holder}
    /\ \A h \in Hooks : hook[h].pc = "racing" => h \in native /\ hook[h].symbol \in Symbols

EnrichInv == EnrichTypeOK /\ Guarded /\ CacheHonest

\* A key that is forgotten leaves the others in their places.
LEMMA ForgetIs ==
    ASSUME cached \in Seq(Symbols), IsInjective(cached), NEW k
    PROVE  \E d : /\ d = Forget(k) /\ d \in Seq(Symbols) /\ IsInjective(d)
                  /\ Len(d) <= Len(cached) /\ ToSet(d) = ToSet(cached) \ {k}
<1>1. PICK L \in Nat : L = Len(cached) /\ DOMAIN cached = 1 .. L
      OBVIOUS
<1>2. \A i, j \in 1 .. L : cached[i] = cached[j] => i = j
      BY <1>1 DEF IsInjective
<1>3. ToSet(cached) = {cached[i] : i \in 1 .. L}
      BY <1>1, Zenon DEF ToSet
<1>4. CASE ~Contains(cached, k)
      <2>1. Forget(k) = cached
            BY <1>4 DEF Forget
      <2>2. k \notin ToSet(cached)
            BY <1>1, <1>3, <1>4 DEF Contains
      <2> QED BY <1>1, <2>1, <2>2
<1>5. CASE Contains(cached, k)
      <2>1. PICK n : n = CHOOSE i \in DOMAIN cached : cached[i] = k
            OBVIOUS
      <2>2. n \in 1 .. L /\ cached[n] = k
            BY <1>1, <1>5, <2>1 DEF Contains
      <2>3. PICK d : d = SubSeq(cached, 1, n - 1) \o SubSeq(cached, n + 1, L)
            OBVIOUS
      <2>4. Forget(k) = d
            BY <1>1, <1>5, <2>1, <2>3 DEF Forget, RemoveAt
      <2>5. /\ d \in Seq(Symbols) /\ Len(d) = L - 1
            /\ \A i \in 1 .. L - 1 : d[i] = cached[IF i < n THEN i ELSE i + 1]
            <3>1. PICK a : a = SubSeq(cached, 1, n - 1)
                  OBVIOUS
            <3>2. PICK b : b = SubSeq(cached, n + 1, L)
                  OBVIOUS
            <3>3. /\ a \in Seq(Symbols) /\ Len(a) = n - 1
                  /\ \A i \in 1 .. n - 1 : a[i] = cached[i]
                  BY <1>1, <2>2, <3>1
            <3>4. /\ b \in Seq(Symbols) /\ Len(b) = L - n
                  /\ \A i \in 1 .. L - n : b[i] = cached[n + i]
                  BY <1>1, <2>2, <3>2
            <3>5. /\ d \in Seq(Symbols) /\ Len(d) = Len(a) + Len(b)
                  /\ \A i \in 1 .. Len(a) + Len(b) : d[i] = IF i <= Len(a) THEN a[i] ELSE b[i - Len(a)]
                  BY <2>3, <3>1, <3>2, <3>3, <3>4
            <3>6. ASSUME NEW i \in 1 .. L - 1 PROVE d[i] = cached[IF i < n THEN i ELSE i + 1]
                  <4>1. CASE i < n
                        <5>1. i \in 1 .. n - 1 /\ i \in 1 .. Len(a) + Len(b) /\ i <= Len(a)
                              BY <1>1, <2>2, <3>3, <3>4, <4>1
                        <5>2. d[i] = a[i]
                              BY <3>5, <5>1
                        <5>3. d[i] = cached[i]
                              BY <3>3, <5>1, <5>2
                        <5> QED BY <4>1, <5>3
                  <4>2. CASE ~(i < n)
                        <5>1. i - (n - 1) \in 1 .. L - n /\ n + (i - (n - 1)) = i + 1 /\ ~(i <= n - 1)
                              BY <1>1, <2>2, <4>2
                        <5>2. d[i] = b[i - (n - 1)]
                              <6>1. Len(a) = n - 1 /\ i \in 1 .. Len(a) + Len(b) /\ ~(i <= Len(a))
                                    BY <1>1, <2>2, <3>3, <3>4, <4>2
                              <6>2. d[i] = b[i - Len(a)]
                                    BY <3>5, <6>1
                              <6> QED BY <6>1, <6>2
                        <5>3. d[i] = cached[i + 1]
                              BY <3>4, <5>1, <5>2
                        <5> QED BY <4>2, <5>3
                  <4> QED BY <4>1, <4>2
            <3> QED BY <1>1, <2>2, <3>3, <3>4, <3>5, <3>6
      <2>6. \A i \in 1 .. L - 1 : (IF i < n THEN i ELSE i + 1) \in (1 .. L) \ {n}
            BY <1>1, <2>2
      <2>7. \A i, j \in 1 .. L - 1 :
               (IF i < n THEN i ELSE i + 1) = (IF j < n THEN j ELSE j + 1) => i = j
            BY <1>1, <2>2
      <2>8. IsInjective(d)
            <3>1. DOMAIN d = 1 .. L - 1
                  BY <1>1, <2>2, <2>5
            <3>2. \A i, j \in 1 .. L - 1 : d[i] = d[j] => i = j
                  BY <1>2, <2>5, <2>6, <2>7
            <3> QED BY <3>1, <3>2 DEF IsInjective
      <2>9. ToSet(d) = ToSet(cached) \ {k}
            <3>1. ToSet(d) = {d[i] : i \in 1 .. L - 1}
                  <4>1. DOMAIN d = 1 .. L - 1
                        BY <1>1, <2>2, <2>5
                  <4> QED BY <4>1, Zenon DEF ToSet
            <3>2. ASSUME NEW i \in 1 .. L - 1 PROVE d[i] \in ToSet(cached) \ {k}
                  <4>1. PICK j \in (1 .. L) \ {n} : d[i] = cached[j]
                        BY <2>5, <2>6
                  <4> QED BY <1>2, <1>3, <2>2, <4>1
            <3>3. ASSUME NEW j \in 1 .. L, cached[j] # k PROVE \E i \in 1 .. L - 1 : d[i] = cached[j]
                  <4>1. j # n
                        BY <2>2, <3>3
                  <4>2. CASE j < n
                        <5>1. j \in 1 .. L - 1
                              BY <1>1, <2>2, <4>2
                        <5> QED BY <2>5, <4>2, <5>1
                  <4>3. CASE j > n
                        <5>1. j - 1 \in 1 .. L - 1 /\ ~(j - 1 < n) /\ (j - 1) + 1 = j
                              BY <1>1, <2>2, <4>3
                        <5>2. d[j - 1] = cached[j]
                              BY <2>5, <5>1
                        <5> QED BY <5>1, <5>2
                  <4> QED BY <1>1, <2>2, <4>1, <4>2, <4>3
            <3> QED BY <1>3, <3>1, <3>2, <3>3
      <2> QED BY <1>1, <2>2, <2>4, <2>5, <2>8, <2>9
<1> QED BY <1>4, <1>5

\* A key that is put in is there at most once, and the cache keeps to its bound.
LEMMA PutIs ==
    ASSUME cached \in Seq(Symbols), IsInjective(cached), Len(cached) <= CacheMax, NEW k \in Symbols
    PROVE  /\ Put(k) \in Seq(Symbols) /\ IsInjective(Put(k)) /\ Len(Put(k)) <= CacheMax
           /\ ToSet(Put(k)) \subseteq ToSet(cached) \cup {k}
<1>1. PICK d : /\ d = Forget(k) /\ d \in Seq(Symbols) /\ IsInjective(d)
               /\ Len(d) <= Len(cached) /\ ToSet(d) = ToSet(cached) \ {k}
      BY ForgetIs
<1>2. PICK t : t = Append(d, k)
      OBVIOUS
<1>3. /\ t \in Seq(Symbols) /\ Len(t) = Len(d) + 1 /\ Len(d) \in Nat /\ DOMAIN t = 1 .. Len(d) + 1
      /\ \A i \in 1 .. Len(d) + 1 : t[i] = IF i <= Len(d) THEN d[i] ELSE k
      BY <1>1, <1>2
<1>4. \A i \in 1 .. Len(d) : d[i] \in ToSet(cached) /\ d[i] # k
      <2>1. ToSet(d) = {d[i] : i \in 1 .. Len(d)}
            <3>1. DOMAIN d = 1 .. Len(d)
                  BY <1>1
            <3> QED BY <3>1, Zenon DEF ToSet
      <2> QED BY <1>1, <2>1
<1>5. \A i, j \in 1 .. Len(d) : d[i] = d[j] => i = j
      BY <1>1 DEF IsInjective
<1>6. \A i \in 1 .. Len(d) + 1 : i \in 1 .. Len(d) \/ i = Len(d) + 1
      BY <1>3
<1>7. \A i \in 1 .. Len(d) : t[i] = d[i]
      BY <1>3
<1>8. t[Len(d) + 1] = k
      BY <1>3
<1>9. \A i, j \in 1 .. Len(d) + 1 : t[i] = t[j] => i = j
      BY <1>4, <1>5, <1>6, <1>7, <1>8
<1>10. \A i \in 1 .. Len(d) + 1 : t[i] \in ToSet(cached) \cup {k}
      BY <1>4, <1>6, <1>7, <1>8
<1>11. CacheMax \in Nat \ {0} /\ Len(cached) \in Nat
      BY EnrichAssumption
<1>12. CASE Len(t) > CacheMax
      <2>1. PICK u : u = Tail(t)
            OBVIOUS
      <2>2. /\ u \in Seq(Symbols) /\ Len(u) = Len(d) /\ DOMAIN u = 1 .. Len(d)
            /\ \A i \in 1 .. Len(d) : u[i] = t[i + 1] /\ i + 1 \in 1 .. Len(d) + 1
            BY <1>3, <2>1
      <2>3. Put(k) = u
            BY <1>1, <1>2, <1>12, <2>1 DEF Put
      <2>4. IsInjective(u)
            BY <1>3, <1>9, <2>2 DEF IsInjective
      <2>5. ToSet(u) \subseteq ToSet(cached) \cup {k}
            <3>1. ToSet(u) = {u[i] : i \in 1 .. Len(d)}
                  BY <2>2, Zenon DEF ToSet
            <3> QED BY <1>10, <2>2, <3>1
      <2> QED BY <1>1, <1>11, <2>2, <2>3, <2>4, <2>5
<1>13. CASE ~(Len(t) > CacheMax)
      <2>1. Put(k) = t
            BY <1>1, <1>2, <1>13 DEF Put
      <2>2. IsInjective(t)
            BY <1>3, <1>9 DEF IsInjective
      <2>3. ToSet(t) \subseteq ToSet(cached) \cup {k}
            <3>1. ToSet(t) = {t[i] : i \in 1 .. Len(d) + 1}
                  BY <1>3, Zenon DEF ToSet
            <3> QED BY <1>10, <3>1
      <2> QED BY <1>3, <1>11, <1>13, <2>1, <2>2, <2>3
<1> QED BY <1>12, <1>13

\* An old entry that goes takes nothing else with it.
LEMMA UnexpiredIs ==
    ASSUME EnrichInv, NEW k \in Symbols, cached' = Unexpired(k), kept' = kept
    PROVE  cached' \in Seq(Symbols) /\ CacheHonest'
<1>1. cached \in Seq(Symbols) /\ IsInjective(cached) /\ Len(cached) <= CacheMax
      /\ \A x \in ToSet(cached) : kept[x].value \in {"advice", "nothing"}
      BY DEF EnrichInv, EnrichTypeOK, CacheHonest
<1>2. PICK d : /\ d = Forget(k) /\ d \in Seq(Symbols) /\ IsInjective(d)
               /\ Len(d) <= Len(cached) /\ ToSet(d) = ToSet(cached) \ {k}
      BY <1>1, ForgetIs
<1>3. cached' = cached \/ cached' = d
      BY <1>2 DEF Unexpired
<1>4. CacheMax \in Nat /\ Len(cached) \in Nat /\ Len(d) \in Nat
      BY <1>1, <1>2, EnrichAssumption
<1>5. CASE cached' = d
      <2>1. Len(cached') <= CacheMax /\ IsInjective(cached')
            BY <1>1, <1>2, <1>4, <1>5
      <2>2. \A x \in ToSet(cached') : kept'[x].value \in {"advice", "nothing"}
            BY <1>1, <1>2, <1>5
      <2> QED BY <1>2, <1>5, <2>1, <2>2 DEF CacheHonest
<1>6. CASE cached' = cached
      BY <1>1, <1>6 DEF CacheHonest
<1> QED BY <1>3, <1>5, <1>6

\* An answer that came in time is remembered; nothing else is.
LEMMA SettlesStep ==
    ASSUME EnrichInv, NEW h \in Hooks, Settles(h)
    PROVE  EnrichInv'
<1>1. h \in native /\ native' = native \ {h} /\ holder' = Nobody
      BY DEF Settles
<1>2. holder = h /\ native = {h} /\ native' = {}
      BY <1>1 DEF EnrichInv, Guarded
<1>3. \A x \in Hooks : x # h => hook[x].pc # "racing"
      BY <1>2 DEF EnrichInv, Guarded
<1>4. CASE hook[h].pc # "racing"
      <2>1. UNCHANGED <<hook, cached, kept>>
            BY <1>4 DEF Settles
      <2>2. EnrichTypeOK' /\ CacheHonest'
            BY <1>1, <2>1 DEF EnrichInv, EnrichTypeOK, CacheHonest
      <2>3. Guarded'
            BY <1>1, <1>2, <1>3, <1>4, <2>1 DEF Guarded
      <2> QED BY <2>2, <2>3 DEF EnrichInv
<1>5. CASE hook[h].pc = "racing"
      <2>1. PICK value \in {"advice", "nothing", "fallback"} :
               /\ Says(h, hook[h].symbol, value)
               /\ IF value = "fallback" THEN UNCHANGED <<cached, kept>>
                  ELSE /\ cached' = Put(hook[h].symbol)
                       /\ kept' = [kept EXCEPT ![hook[h].symbol] = [age |-> 0, value |-> value]]
            BY <1>5 DEF Settles
      <2>2. PICK k \in Symbols : k = hook[h].symbol
            BY <1>5 DEF EnrichInv, Guarded
      <2>3. hook' = [hook EXCEPT ![h] = [pc |-> "idle", symbol |-> k, told |-> value]]
            BY <2>1, <2>2 DEF Says
      <2>4. hook' \in [Hooks -> Asked] /\ \A x \in Hooks : hook'[x].pc # "racing"
            BY <1>3, <2>3 DEF EnrichInv, EnrichTypeOK, Asked
      <2>5. Guarded'
            BY <1>1, <1>2, <2>4 DEF Guarded
      <2>6. CASE value = "fallback"
            <3>1. UNCHANGED <<cached, kept>>
                  BY <2>1, <2>6
            <3> QED BY <1>1, <2>4, <2>5, <3>1 DEF EnrichInv, EnrichTypeOK, CacheHonest
      <2>7. CASE value # "fallback"
            <3>1. cached' = Put(k) /\ kept' = [kept EXCEPT ![k] = [age |-> 0, value |-> value]]
                  BY <2>1, <2>2, <2>7
            <3>2. /\ cached' \in Seq(Symbols) /\ IsInjective(cached') /\ Len(cached') <= CacheMax
                  /\ ToSet(cached') \subseteq ToSet(cached) \cup {k}
                  BY <3>1, PutIs DEF EnrichInv, EnrichTypeOK, CacheHonest
            <3>3. kept' \in [Symbols -> [age : Nat, value : {"none", "advice", "nothing"}]]
                  BY <2>7, <3>1 DEF EnrichInv, EnrichTypeOK
            <3>4. kept'[k].value \in {"advice", "nothing"} /\ \A x \in Symbols : x # k => kept'[x] = kept[x]
                  BY <2>7, <3>1 DEF EnrichInv, EnrichTypeOK
            <3>5. \A x \in ToSet(cached) : x \in Symbols /\ kept[x].value \in {"advice", "nothing"}
                  BY DEF EnrichInv, EnrichTypeOK, CacheHonest, ToSet
            <3>6. CacheHonest'
                  BY <3>2, <3>4, <3>5 DEF CacheHonest
            <3> QED BY <1>1, <2>4, <2>5, <3>2, <3>3, <3>6 DEF EnrichInv, EnrichTypeOK
      <2> QED BY <2>6, <2>7
<1> QED BY <1>4, <1>5

\* The invariant of the advice is kept by every step.
LEMMA EnrichStep ==
    ASSUME EnrichInv, [Enrich]_advice
    PROVE  EnrichInv'
<1>1. CASE UNCHANGED advice
      BY <1>1 DEF advice, EnrichInv, EnrichTypeOK, Guarded, CacheHonest
<1>2. ASSUME NEW h \in Hooks, NEW k \in Symbols, Hit(h, k) PROVE EnrichInv'
      <2>1. /\ hook' = [hook EXCEPT ![h] = [pc |-> "idle", symbol |-> k, told |-> kept[k].value]]
            /\ UNCHANGED <<holder, native, cached, kept>>
            BY <1>2 DEF Hit, Says
      <2>2. kept[k].value \in {"none", "advice", "nothing"}
            BY DEF EnrichInv, EnrichTypeOK
      <2>3. hook' \in [Hooks -> Asked]
            BY <2>1, <2>2 DEF EnrichInv, EnrichTypeOK, Asked
      <2>4. Guarded'
            BY <2>1 DEF EnrichInv, EnrichTypeOK, Guarded
      <2> QED BY <2>1, <2>3, <2>4 DEF EnrichInv, EnrichTypeOK, CacheHonest
<1>3. ASSUME NEW h \in Hooks, NEW k \in Symbols, Busy(h, k) PROVE EnrichInv'
      <2>1. /\ hook' = [hook EXCEPT ![h] = [pc |-> "idle", symbol |-> k, told |-> "fallback"]]
            /\ cached' = Unexpired(k) /\ UNCHANGED <<holder, native, kept>>
            BY <1>3 DEF Busy, Says
      <2>2. hook' \in [Hooks -> Asked]
            BY <2>1 DEF EnrichInv, EnrichTypeOK, Asked
      <2>3. Guarded'
            BY <2>1 DEF EnrichInv, EnrichTypeOK, Guarded
      <2>4. cached' \in Seq(Symbols) /\ CacheHonest'
            BY <2>1, UnexpiredIs
      <2> QED BY <2>1, <2>2, <2>3, <2>4 DEF EnrichInv, EnrichTypeOK
<1>4. ASSUME NEW h \in Hooks, NEW k \in Symbols, Look(h, k) PROVE EnrichInv'
      <2>1. /\ holder = Nobody /\ holder' = h /\ native' = native \cup {h}
            /\ hook' = [hook EXCEPT ![h] = [pc |-> "racing", symbol |-> k, told |-> "none"]]
            /\ cached' = Unexpired(k) /\ kept' = kept
            BY <1>4 DEF Look
      <2>2. native' = {h} /\ holder' # Nobody
            BY <2>1, EnrichAssumption DEF EnrichInv, Guarded
      <2>3. hook' \in [Hooks -> Asked]
            BY <2>1 DEF EnrichInv, EnrichTypeOK, Asked
      <2>4. \A x \in Hooks : hook[x].pc # "racing"
            BY <2>1 DEF EnrichInv, Guarded
      <2>5. Guarded'
            BY <2>1, <2>2, <2>4 DEF EnrichInv, EnrichTypeOK, Guarded
      <2>6. cached' \in Seq(Symbols) /\ CacheHonest'
            BY <2>1, UnexpiredIs
      <2> QED BY <2>1, <2>3, <2>5, <2>6 DEF EnrichInv, EnrichTypeOK
<1>5. ASSUME NEW h \in Hooks, BudgetEnds(h) PROVE EnrichInv'
      <2>1. /\ hook' = [hook EXCEPT ![h] = [pc |-> "idle", symbol |-> hook[h].symbol, told |-> "fallback"]]
            /\ UNCHANGED <<holder, native, cached, kept>>
            BY <1>5 DEF BudgetEnds, Says
      <2>2. hook' \in [Hooks -> Asked]
            BY <2>1 DEF EnrichInv, EnrichTypeOK, Asked
      <2>3. Guarded'
            BY <2>1 DEF EnrichInv, EnrichTypeOK, Guarded
      <2> QED BY <2>1, <2>2, <2>3 DEF EnrichInv, EnrichTypeOK, CacheHonest
<1>6. CASE Elapse
      <2>1. /\ kept' = [k \in Symbols |-> [kept[k] EXCEPT !.age = IF @ <= CacheTtl THEN @ + 1 ELSE @]]
            /\ UNCHANGED <<hook, holder, native, cached>>
            BY <1>6 DEF Elapse
      <2>2. kept' \in [Symbols -> [age : Nat, value : {"none", "advice", "nothing"}]]
            /\ \A k \in Symbols : kept'[k].value = kept[k].value
            <3>1. PICK R : R = [age : Nat, value : {"none", "advice", "nothing"}]
                  OBVIOUS
            <3>2. ASSUME NEW k \in Symbols PROVE kept'[k] \in R /\ kept'[k].value = kept[k].value
                  <4>1. PICK e : e = kept[k] /\ e \in [age : Nat, value : {"none", "advice", "nothing"}]
                        BY DEF EnrichInv, EnrichTypeOK
                  <4>2. PICK n \in Nat : n = IF e.age <= CacheTtl THEN e.age + 1 ELSE e.age
                        BY <4>1, EnrichAssumption
                  <4>3. kept'[k] = [e EXCEPT !.age = n]
                        BY <2>1, <4>1, <4>2
                  <4>4. [e EXCEPT !.age = n] \in R /\ [e EXCEPT !.age = n].value = e.value
                        BY <3>1, <4>1, <4>2
                  <4> QED BY <4>1, <4>3, <4>4
            <3>3. kept' = [k \in Symbols |-> kept'[k]]
                  BY <2>1
            <3> QED BY <3>1, <3>2, <3>3
      <2>3. \A x \in ToSet(cached) : x \in Symbols
            BY DEF EnrichInv, EnrichTypeOK, ToSet
      <2> QED BY <2>1, <2>2, <2>3 DEF EnrichInv, EnrichTypeOK, Guarded, CacheHonest
<1> QED BY <1>1, <1>2, <1>3, <1>4, <1>5, <1>6, SettlesStep DEF Enrich

\* Whatever hooks ask, and however late lookups end: one is in native code at most, the
\* guard is shut just then, and the cache keeps to its bound and serves only what a
\* lookup found in time (runEnrich, cachePut).
THEOREM AdviceIsHonest == EnrichSpec => []AdviceHonest
<1>1. EnrichInit => EnrichInv
      <2> SUFFICES ASSUME EnrichInit PROVE EnrichInv
          OBVIOUS
      <2>1. cached = <<>> /\ <<>> \in Seq(Symbols) /\ Len(<<>>) = 0 /\ DOMAIN <<>> = {}
            BY DEF EnrichInit
      <2>2. CacheHonest
            BY <2>1, EnrichAssumption DEF CacheHonest, IsInjective, ToSet
      <2>3. EnrichTypeOK
            BY <2>1 DEF EnrichInit, EnrichTypeOK, NoAsk, Asked
      <2>4. Guarded
            BY DEF EnrichInit, Guarded, NoAsk
      <2> QED BY <2>2, <2>3, <2>4 DEF EnrichInv
<1>2. EnrichInv /\ [Enrich]_advice => EnrichInv'
      BY EnrichStep
<1>3. EnrichInv => AdviceHonest
      <2> SUFFICES ASSUME EnrichInv PROVE AdviceHonest
          OBVIOUS
      <2>1. holder \in Hooks \cup {Nobody} /\ native = IF holder = Nobody THEN {} ELSE {holder}
            BY DEF EnrichInv, EnrichTypeOK, Guarded
      <2>2. Cardinality(native) <= 1
            BY <2>1, FS_EmptySet, FS_Singleton
      <2> QED BY <2>1, <2>2 DEF EnrichInv, AdviceHonest, OneLookup
<1> QED BY <1>1, <1>2, <1>3, PTL DEF EnrichSpec

-----------------------------------------------------------------------------
(* The remote client: what it found lacking it does not ask for again, and the  *)
(* call under way has so far as many results as items it is through with, each  *)
(* of them true.                                                               *)

HowItEnds == {"ok", "failed", "told"}

Calls ==
    [kind : {"node", "edge"}, items : {w.items : w \in Writes}, path : {"bulk", "item", "bare", "mcp"},
     attempt : Nat, bulk : BOOLEAN, results : Seq(HowItEnds)]

Outcomes == [items : {w.items : w \in Writes} \cup {<<>>}, results : Seq(HowItEnds), threw : BOOLEAN]

\* Results of the first items, and those that are "ok" are stored.
TrueOf(results, items) ==
    Len(results) <= Len(items) /\ \A i \in 1 .. Len(results) : results[i] = "ok" => items[i] \in stored

\* The call under way.
Underway ==
    /\ call \in Calls
    /\ TrueOf(call.results, call.items) /\ Len(call.results) < Len(call.items)
    /\ ~call.bulk => Len(call.items) = 1
    /\ call.path = "bulk" => call.bulk /\ "bulk" \notin lacks
    /\ call.path = "item" /\ call.kind = "edge" => "edge" \notin lacks

\* A feature was refused once if it is known to be lacking, and never if it is not.
Refused == lacks \subseteq Features /\ refusals = [x \in Features |-> IF x \in lacks THEN 1 ELSE 0]

ClientInv ==
    /\ call = NoCall \/ Underway
    /\ outcome \in Outcomes /\ OkIsStored /\ Positional
    /\ Refused

\* Lists of items are sequences.
LEMMA ItemsAre ==
    ASSUME NEW c \in Calls
    PROVE  /\ c.items \in Seq(ToSet(c.items)) /\ Len(c.items) \in Nat /\ DOMAIN c.items = 1 .. Len(c.items)
           /\ c.items \in {w.items : w \in Writes}
<1>1. PICK w \in Writes : c.items = w.items
      BY DEF Calls
<1>2. w.items \in Seq(ToSet(w.items))
      BY WritesAssumption
<1>3. PICK S : S = ToSet(w.items)
      OBVIOUS
<1>4. w.items \in Seq(S)
      BY <1>2, <1>3
<1>5. Len(w.items) \in Nat /\ DOMAIN w.items = 1 .. Len(w.items)
      BY <1>4
<1> QED BY <1>1, <1>2, <1>5

\* A call in one of the paths is a call under way.
LEMMA InPath ==
    ASSUME ClientInv, call.path \in {"bulk", "item", "bare", "mcp"}
    PROVE  Underway /\ call \in Calls /\ call # NoCall
<1>1. NoCall.path = "none"
      BY DEF NoCall
<1> QED BY <1>1 DEF ClientInv, Underway

\* What the last call told stays true, as rows are not lost.
LEMMA ToldStays ==
    ASSUME ClientInv, stored \subseteq stored', outcome' = outcome
    PROVE  outcome' \in Outcomes /\ OkIsStored' /\ Positional'
  BY DEF ClientInv, OkIsStored, Positional

\* A call that returns tells of each item what became of it, or throws.
LEMMA ReturnsStep ==
    ASSUME ClientInv, Underway, stored \subseteq stored', UNCHANGED <<lacks, refusals>>,
           NEW results \in Seq(HowItEnds), NEW threw \in BOOLEAN, Returns(results, threw),
           threw \/ Len(results) = Len(call.items),
           \A i \in 1 .. Len(results) : results[i] = "ok" => call.items[i] \in stored'
    PROVE  ClientInv'
<1>1. call' = NoCall /\ outcome' = [items |-> call.items, results |-> results, threw |-> threw]
      BY DEF Returns
<1>2. call.items \in {w.items : w \in Writes}
      BY DEF Underway, Calls
<1>3. outcome' \in Outcomes
      BY <1>1, <1>2 DEF Outcomes
<1>4. DOMAIN results = 1 .. Len(results)
      OBVIOUS
<1>5. OkIsStored' /\ Positional'
      BY <1>1, <1>4 DEF OkIsStored, Positional
<1>6. Refused'
      BY DEF ClientInv, Refused
<1> QED BY <1>1, <1>3, <1>5, <1>6 DEF ClientInv

\* A call that throws before it has any result tells of none.
LEMMA ThrowsStep ==
    ASSUME ClientInv, Underway, stored \subseteq stored', UNCHANGED <<lacks, refusals>>,
           Returns(<<>>, TRUE)
    PROVE  ClientInv'
<1>1. PICK none : none = <<>>
      OBVIOUS
<1>2. none \in Seq(HowItEnds) /\ 1 .. Len(none) = {}
      <2>1. none \in Seq(HowItEnds) /\ Len(none) = 0
            BY <1>1
      <2> QED BY <2>1
<1>3. \A i \in 1 .. Len(none) : none[i] = "ok" => call.items[i] \in stored'
      BY <1>2
<1>4. Returns(none, TRUE) /\ TRUE \in BOOLEAN
      BY <1>1, Zenon
<1> QED BY <1>2, <1>3, <1>4, ReturnsStep

\* An item is over: the results grow by one that is true of it.
LEMMA ItemOverStep ==
    ASSUME ClientInv, Underway, stored \subseteq stored', UNCHANGED <<lacks, refusals>>,
           NEW how \in HowItEnds, ItemOver(how), how = "ok" => Item \in stored'
    PROVE  ClientInv'
<1>1. call \in Calls /\ call.results \in Seq(HowItEnds)
      BY DEF Underway, Calls
<1>2. PICK now : now = Append(call.results, how)
      OBVIOUS
<1>3. PICK n \in Nat : n = Len(call.results)
      BY <1>1
<1>4. /\ now \in Seq(HowItEnds) /\ Len(now) = n + 1
      /\ \A i \in 1 .. n : now[i] = call.results[i]
      /\ now[n + 1] = how
      BY <1>1, <1>2, <1>3
<1>5. Len(call.items) \in Nat /\ n < Len(call.items)
      BY <1>1, <1>3, ItemsAre DEF Underway
<1>6. ASSUME NEW i \in 1 .. Len(now), now[i] = "ok" PROVE call.items[i] \in stored'
      <2>1. CASE i \in 1 .. n
            BY <1>3, <1>4, <1>6, <2>1 DEF Underway, TrueOf
      <2>2. CASE i = n + 1
            BY <1>3, <1>4, <1>6, <2>2 DEF Item
      <2> QED BY <1>3, <1>4, <2>1, <2>2
<1>7. CASE call.bulk /\ Len(now) < Len(call.items)
      <2>1. call' = [call EXCEPT !.results = now, !.path = ItemPath(call.kind), !.attempt = 0]
            /\ outcome' = outcome
            BY <1>2, <1>7 DEF ItemOver
      <2>2. ItemPath(call.kind) \in {"item", "mcp"}
            /\ (ItemPath(call.kind) = "item" /\ call.kind = "edge" => "edge" \notin lacks)
            BY DEF ItemPath
      <2>3. call' \in Calls
            BY <1>1, <1>4, <2>1, <2>2 DEF Calls
      <2>4. /\ call'.results = now /\ call'.items = call.items /\ call'.bulk = call.bulk
            /\ call'.kind = call.kind /\ call'.path = ItemPath(call.kind)
            BY <1>1, <2>1 DEF Calls
      <2>5. TrueOf(call.results, call.items)' /\ Len(call'.results) < Len(call'.items)
            BY <1>3, <1>4, <1>5, <1>6, <1>7, <2>4 DEF TrueOf
      <2>6. Underway'
            BY <1>7, <2>2, <2>3, <2>4, <2>5 DEF Underway
      <2>7. outcome' \in Outcomes /\ OkIsStored' /\ Positional'
            BY <2>1, ToldStays
      <2>8. Refused'
            BY DEF ClientInv, Refused
      <2> QED BY <2>6, <2>7, <2>8 DEF ClientInv
<1>8. CASE ~(call.bulk /\ Len(now) < Len(call.items))
      <2>1. Returns(now, ~call.bulk /\ how = "failed")
            BY <1>2, <1>8 DEF ItemOver
      <2>2. Len(now) = Len(call.items)
            <3>1. CASE call.bulk
                  BY <1>4, <1>5, <1>8, <3>1
            <3>2. CASE ~call.bulk
                  <4>1. Len(call.items) = 1
                        BY <3>2 DEF Underway
                  <4> QED BY <1>4, <1>5, <4>1
            <3> QED BY <3>1, <3>2
      <2>3. (~call.bulk /\ how = "failed") \in BOOLEAN
            OBVIOUS
      <2> QED BY <1>4, <1>6, <2>1, <2>2, <2>3, ReturnsStep
<1> QED BY <1>7, <1>8

\* What is learned is learned for the first time.
LEMMA LearnsOnce ==
    ASSUME Refused, NEW x \in Features, x \notin lacks, Learns(x)
    PROVE  Refused' /\ lacks' = lacks \cup {x}
  BY DEF Refused, Learns

\* A step that goes on with the item, or with the items of a bulk, one by one.
LEMMA GoesOn ==
    ASSUME ClientInv, Underway, Refused', UNCHANGED <<outcome, stored>>,
           NEW path \in {"bulk", "item", "bare", "mcp"}, NEW attempt \in Nat,
           call' = [call EXCEPT !.path = path, !.attempt = attempt],
           path = "bulk" => call.bulk /\ "bulk" \notin lacks',
           path = "item" /\ call.kind = "edge" => "edge" \notin lacks'
    PROVE  ClientInv'
<1>1. call \in Calls
      BY DEF Underway
<1>2. call' \in Calls
      BY <1>1 DEF Calls
<1>3. /\ call'.results = call.results /\ call'.items = call.items /\ call'.bulk = call.bulk
      /\ call'.kind = call.kind /\ call'.path = path
      BY <1>1 DEF Calls
<1>4. Underway'
      BY <1>2, <1>3 DEF Underway, TrueOf
<1>5. outcome' \in Outcomes /\ OkIsStored' /\ Positional'
      BY ToldStays
<1> QED BY <1>4, <1>5 DEF ClientInv

\* A rate limit is waited out, up to the bound.
LEMMA LimitedStep ==
    ASSUME ClientInv, Limited
    PROVE  ClientInv'
<1>1. Underway /\ call \in Calls /\ UNCHANGED <<lacks, stored, refusals>> /\ stored \subseteq stored'
      BY InPath DEF Limited
<1>2. Refused'
      BY <1>1 DEF ClientInv, Refused
<1>3. CASE call.attempt + 1 < MaxAttempts
      <2>1. call' = [call EXCEPT !.attempt = @ + 1] /\ outcome' = outcome
            BY <1>3 DEF Limited
      <2>2. call.attempt + 1 \in Nat /\ call.path \in {"bulk", "item", "bare", "mcp"}
            BY <1>1 DEF Calls
      <2>3. call' = [call EXCEPT !.path = call.path, !.attempt = call.attempt + 1]
            BY <1>1, <2>1 DEF Calls
      <2>4. /\ call.path = "bulk" => call.bulk /\ "bulk" \notin lacks'
            /\ call.path = "item" /\ call.kind = "edge" => "edge" \notin lacks'
            BY <1>1 DEF Underway
      <2> QED BY <1>1, <1>2, <2>1, <2>2, <2>3, <2>4, GoesOn
<1>4. CASE ~(call.attempt + 1 < MaxAttempts) /\ call.path = "bulk"
      <2>1. Returns(<<>>, TRUE)
            BY <1>4 DEF Limited
      <2> QED BY <1>1, <2>1, ThrowsStep
<1>5. CASE ~(call.attempt + 1 < MaxAttempts) /\ call.path # "bulk"
      <2>1. ItemOver("failed") /\ "failed" \in HowItEnds /\ "failed" # "ok"
            BY <1>5 DEF Limited, HowItEnds
      <2> QED BY <1>1, <2>1, ItemOverStep
<1> QED BY <1>3, <1>4, <1>5

\* The bulk endpoint answers item by item.
LEMMA BulkAnswersStep ==
    ASSUME ClientInv, BulkAnswers
    PROVE  ClientInv'
<1>1. Underway /\ call \in Calls /\ UNCHANGED <<lacks, refusals>>
      BY InPath DEF BulkAnswers
<1>2. PICK landed \in SUBSET ToSet(call.items) :
         /\ stored' = stored \cup landed
         /\ Returns([i \in DOMAIN call.items |-> IF call.items[i] \in landed THEN "ok" ELSE "failed"], FALSE)
      BY DEF BulkAnswers
<1>3. PICK n \in Nat : n = Len(call.items) /\ DOMAIN call.items = 1 .. n
      BY <1>1, ItemsAre
<1>4. PICK told : told = [i \in 1 .. n |-> IF call.items[i] \in landed THEN "ok" ELSE "failed"]
      OBVIOUS
<1>5. told \in Seq(HowItEnds) /\ Len(told) = n
      BY <1>4 DEF HowItEnds
<1>6. \A i \in 1 .. Len(told) : told[i] = "ok" => call.items[i] \in stored'
      BY <1>2, <1>4, <1>5
<1>7. Returns(told, FALSE)
      BY <1>2, <1>3, <1>4
<1> QED BY <1>1, <1>2, <1>3, <1>5, <1>6, <1>7, ReturnsStep

\* The answer to a bulk is lost.
LEMMA BulkFailsStep ==
    ASSUME ClientInv, BulkFails
    PROVE  ClientInv'
<1>1. Underway /\ UNCHANGED <<lacks, refusals>> /\ Returns(<<>>, TRUE) /\ stored \subseteq stored'
      BY InPath DEF BulkFails
<1> QED BY <1>1, ThrowsStep

\* The daemon turns out to lack a feature.
LEMMA MissingStep ==
    ASSUME ClientInv, BulkMissing \/ EdgeMissingThere \/ FlagRefused
    PROVE  ClientInv'
<1>1. Underway /\ call \in Calls /\ UNCHANGED <<outcome, stored>> /\ Refused /\ call.attempt \in Nat
      BY InPath DEF BulkMissing, EdgeMissingThere, FlagRefused, Flagged, ClientInv, Calls
<1>2. CASE BulkMissing
      <2>1. "bulk" \in Features /\ "bulk" \notin lacks /\ Learns("bulk")
            BY <1>1, <1>2 DEF BulkMissing, Underway, Features
      <2>2. Refused' /\ lacks' = lacks \cup {"bulk"}
            BY <1>1, <2>1, LearnsOnce
      <2>3. call' = [call EXCEPT !.path = ItemPath(call.kind), !.attempt = 0]
            BY <1>2 DEF BulkMissing
      <2>4. ItemPath(call.kind) \in {"item", "mcp"}
            /\ (ItemPath(call.kind) = "item" /\ call.kind = "edge" => "edge" \notin lacks')
            BY <2>2 DEF ItemPath
      <2> QED BY <1>1, <2>2, <2>3, <2>4, GoesOn
<1>3. CASE EdgeMissingThere
      <2>1. "edge" \in Features /\ "edge" \notin lacks /\ Learns("edge")
            BY <1>1, <1>3 DEF EdgeMissingThere, Underway, Features
      <2>2. Refused'
            BY <1>1, <2>1, LearnsOnce
      <2>3. call' = [call EXCEPT !.path = "mcp"]
            BY <1>3 DEF EdgeMissingThere
      <2>4. call' = [call EXCEPT !.path = "mcp", !.attempt = call.attempt]
            BY <1>1, <2>3 DEF Calls
      <2> QED BY <1>1, <2>2, <2>4, GoesOn
<1>4. CASE FlagRefused
      <2>1. "embed" \in Features /\ "embed" \notin lacks /\ Learns("embed")
            BY <1>4 DEF FlagRefused, Flagged, Features
      <2>2. Refused'
            BY <1>1, <2>1, LearnsOnce
      <2>3. call' = [call EXCEPT !.path = "bare", !.attempt = 0]
            BY <1>4 DEF FlagRefused
      <2> QED BY <1>1, <2>2, <2>3, GoesOn
<1> QED BY <1>2, <1>3, <1>4

\* A single item is stored, or fails, or the tool tells of it.
LEMMA ItemStep ==
    ASSUME ClientInv, ItemStored \/ ItemFails \/ McpConnects \/ McpAnswers
    PROVE  ClientInv'
<1>1. Underway /\ call \in Calls /\ UNCHANGED <<lacks, refusals>> /\ stored \subseteq stored'
      BY InPath DEF ItemStored, ItemFails, McpConnects, McpAnswers, Takes
<1>2. CASE ItemStored
      <2>1. ItemOver("ok") /\ Item \in stored' /\ "ok" \in HowItEnds
            BY <1>2 DEF ItemStored, HowItEnds
      <2> QED BY <1>1, <2>1, ItemOverStep
<1>3. CASE ItemFails
      <2>1. ItemOver("failed") /\ "failed" \in HowItEnds /\ "failed" # "ok"
            BY <1>3 DEF ItemFails, HowItEnds
      <2> QED BY <1>1, <2>1, ItemOverStep
<1>4. CASE McpAnswers
      <2>1. PICK how \in {"told", "failed"} : ItemOver(how)
            BY <1>4 DEF McpAnswers
      <2>2. how \in HowItEnds /\ how # "ok"
            BY DEF HowItEnds
      <2> QED BY <1>1, <2>1, <2>2, ItemOverStep
<1>5. CASE McpConnects
      <2>1. CASE UNCHANGED <<call, outcome>>
            BY <1>1, <1>5, <2>1
               DEF McpConnects, ClientInv, Underway, TrueOf, OkIsStored, Positional, Refused
      <2>2. CASE ItemOver("failed")
            <3>1. "failed" \in HowItEnds /\ "failed" # "ok"
                  BY DEF HowItEnds
            <3> QED BY <1>1, <2>2, <3>1, ItemOverStep
      <2> QED BY <1>5, <2>1, <2>2 DEF McpConnects
<1> QED BY <1>2, <1>3, <1>4, <1>5

\* A call begins with no results, on the way that is not known to be closed.
LEMMA BeginStep ==
    ASSUME ClientInv, NEW w \in Writes, Begin(w)
    PROVE  ClientInv'
<1>1. UNCHANGED <<lacks, stored, refusals>> /\ call = NoCall /\ stored \subseteq stored'
      BY DEF Begin
<1>2. Refused'
      BY <1>1 DEF ClientInv, Refused
<1>3. CASE w.items = <<>>
      <2>1. outcome' = NoOutcome /\ call' = call
            BY <1>3 DEF Begin
      <2>2. <<>> \in Seq(HowItEnds) /\ Len(<<>>) = 0 /\ DOMAIN <<>> = {}
            OBVIOUS
      <2>3. outcome' \in Outcomes
            BY <2>1, <2>2 DEF Outcomes, NoOutcome
      <2>4. OkIsStored' /\ Positional'
            BY <2>1, <2>2 DEF OkIsStored, Positional, NoOutcome
      <2> QED BY <1>1, <1>2, <2>1, <2>3, <2>4 DEF ClientInv
<1>4. CASE w.items # <<>>
      <2>1. PICK path : path = IF w.bulk /\ "bulk" \notin lacks THEN "bulk" ELSE ItemPath(w.kind)
            OBVIOUS
      <2>2. outcome' = outcome
            /\ call' = [kind |-> w.kind, items |-> w.items, path |-> path, attempt |-> 0,
                        bulk |-> w.bulk, results |-> <<>>]
            BY <1>4, <2>1 DEF Begin, NoCall
      <2>3. /\ w.kind \in {"node", "edge"} /\ w.bulk \in BOOLEAN /\ w.items \in Seq(ToSet(w.items))
            /\ ~w.bulk => Len(w.items) = 1
            BY WritesAssumption
      <2>4. path \in {"bulk", "item", "mcp"}
            /\ (path = "bulk" => w.bulk /\ "bulk" \notin lacks)
            /\ (path = "item" /\ w.kind = "edge" => "edge" \notin lacks)
            BY <2>1 DEF ItemPath
      <2>5. <<>> \in Seq(HowItEnds) /\ Len(<<>>) = 0
            OBVIOUS
      <2>6. call' \in Calls
            BY <2>2, <2>3, <2>4, <2>5 DEF Calls
      <2>7. Len(w.items) \in Nat /\ 0 < Len(w.items)
            <3>1. PICK S : S = ToSet(w.items)
                  OBVIOUS
            <3>2. w.items \in Seq(S)
                  BY <2>3, <3>1
            <3> QED BY <1>4, <3>2
      <2>8. /\ call'.results = <<>> /\ call'.items = w.items /\ call'.bulk = w.bulk
            /\ call'.kind = w.kind /\ call'.path = path
            BY <2>2
      <2>9. TrueOf(call.results, call.items)' /\ Len(call'.results) < Len(call'.items)
            BY <2>5, <2>7, <2>8 DEF TrueOf
      <2>10. Underway'
            BY <1>1, <2>3, <2>4, <2>6, <2>8, <2>9 DEF Underway
      <2>11. outcome' \in Outcomes /\ OkIsStored' /\ Positional'
            BY <1>1, <2>2, ToldStays
      <2> QED BY <1>2, <2>10, <2>11 DEF ClientInv
<1> QED BY <1>3, <1>4

\* The invariant of the remote client is kept by every step.
LEMMA ClientStep ==
    ASSUME ClientInv, [Post]_remote
    PROVE  ClientInv'
<1>1. CASE UNCHANGED remote \/ CloseClient \/ Swap
      BY <1>1 DEF remote, CloseClient, Swap, External, ClientInv, Underway, TrueOf, OkIsStored, Positional, Refused
<1>2. CASE Exchange
      BY <1>2, LimitedStep, BulkAnswersStep, BulkFailsStep, MissingStep, ItemStep DEF Exchange
<1> QED BY <1>1, <1>2, BeginStep DEF Post

\* Whatever is written, and whichever daemons answer: a call tells of each of its items
\* what became of it, an item it reports as written is stored, and a feature that a
\* daemon refused is not asked for again (bulkStoreNodes, storeEdge, postJson).
THEOREM WritesAreAccounted == ClientSpec => []WritesAccounted
<1>1. ClientInit => ClientInv
      <2> SUFFICES ASSUME ClientInit PROVE ClientInv
          OBVIOUS
      <2>1. call = NoCall /\ outcome = NoOutcome /\ lacks = {} /\ refusals = [x \in Features |-> 0]
            BY DEF ClientInit
      <2>2. <<>> \in Seq(HowItEnds) /\ Len(<<>>) = 0 /\ DOMAIN <<>> = {}
            OBVIOUS
      <2>3. outcome \in Outcomes
            BY <2>1, <2>2 DEF Outcomes, NoOutcome
      <2>4. OkIsStored /\ Positional
            BY <2>1, <2>2 DEF OkIsStored, Positional, NoOutcome
      <2>5. Refused
            BY <2>1 DEF Refused
      <2> QED BY <2>1, <2>3, <2>4, <2>5 DEF ClientInv
<1>2. ClientInv /\ [Post]_remote => ClientInv'
      BY ClientStep
<1>3. ClientInv => WritesAccounted
      <2> SUFFICES ASSUME ClientInv PROVE WritesAccounted
          OBVIOUS
      <2>1. \A x \in Features : refusals[x] \in {0, 1}
            BY DEF ClientInv, Refused
      <2>2. RefusedOnce
            BY <2>1 DEF RefusedOnce
      <2> QED BY <2>2 DEF ClientInv, WritesAccounted
<1> QED BY <1>1, <1>2, <1>3, PTL DEF ClientSpec

-----------------------------------------------------------------------------
(* The page's watch: answers that are not late come in in the order they were  *)
(* given, and what they tell can be put down to the runs there have been: an    *)
(* answer "indexing" to a run that went on, an answer "idle" to the runs that   *)
(* were over.  Between two ends that are told lies the beginning of a run.      *)

PollStates == [pc : {"free", "sent", "idle", "indexing"}, mount : Nat, older : SUBSET Polls, late : BOOLEAN]

\* What is known of the polls in flight, whether they are late or not.
InFlight ==
    /\ polls \in [Polls -> PollStates]
    /\ timer => mount > 0
    /\ \A p \in Polls : /\ polls[p].mount <= mount
                        /\ polls[p].pc # "free" /\ ~polls[p].late => polls[p].mount = mount /\ mount > 0
                        /\ polls[p].older \subseteq InHand
    /\ \A p, q \in InHand : p # q => p \in polls[q].older \/ q \in polls[p].older

\* Answers that the page will take for what is going on.
Timely == {p \in InHand : ~polls[p].late}

\* How many runs there had been when an answer was given: no fewer than when an older
\* one was, and more if that one told of none and this one tells of one.
InOrder(upTo) ==
    /\ \A p \in Timely : upTo[p] <= runs
    /\ \A p, q \in Timely : q \in polls[p].older =>
          /\ upTo[q] <= upTo[p]
          /\ polls[q].pc = "idle" /\ polls[p].pc = "indexing" => upTo[q] < upTo[p]

\* The ends that were told, that the page waits to be told, and that it may yet learn of.
Accounted(upTo) ==
    /\ completed <= runs
    /\ wasIndexing \/ (run = mount /\ mount > 0) => completed < runs
    /\ \A p \in Timely : /\ completed <= upTo[p]
                         /\ wasIndexing \/ polls[p].pc = "indexing" => completed < upTo[p]
                         /\ polls[p].pc = "idle" /\ run = mount => upTo[p] < runs

PollInv ==
    /\ PollTypeOK /\ InFlight
    /\ ~crossed => \E upTo \in [Polls -> Nat] : InOrder(upTo) /\ Accounted(upTo)

\* What Over leaves: the poll is gone, and what was older than it is late.
LEMMA OverIs ==
    ASSUME PollTypeOK, InFlight, NEW p \in Polls, Over(p), mount' = mount, timer' => timer
    PROVE  /\ InFlight'
           /\ \A q \in Polls : polls'[q].pc \in {"free", "sent", "idle", "indexing"} /\ polls'[q].mount \in 0 .. mount'
           /\ \A q \in Timely' : /\ q \in Timely /\ q # p /\ q \notin polls[p].older
                                 /\ polls'[q].pc = polls[q].pc /\ polls'[q].older \subseteq polls[q].older
<1> DEFINE Left(q) == [polls[q] EXCEPT !.older = @ \ {p}, !.late = @ \/ q \in polls[p].older]
<1>1. polls' = [q \in Polls |-> IF q = p THEN NoPoll ELSE Left(q)]
      BY DEF Over
<1>2. ASSUME NEW q \in Polls
      PROVE  /\ Left(q) \in PollStates /\ Left(q).pc = polls[q].pc /\ Left(q).mount = polls[q].mount
             /\ Left(q).older = polls[q].older \ {p}
             /\ Left(q).late <=> (polls[q].late \/ q \in polls[p].older)
      <2>1. PICK r : r = polls[q] /\ r \in PollStates
            BY DEF InFlight
      <2>2. PICK b \in BOOLEAN : b = (r.late \/ q \in polls[p].older)
            BY <2>1 DEF PollStates
      <2>3. Left(q) = [r EXCEPT !.older = r.older \ {p}, !.late = b]
            BY <2>1, <2>2, Zenon
      <2>4. /\ [r EXCEPT !.older = r.older \ {p}, !.late = b] \in PollStates
            /\ [r EXCEPT !.older = r.older \ {p}, !.late = b].pc = r.pc
            /\ [r EXCEPT !.older = r.older \ {p}, !.late = b].mount = r.mount
            /\ [r EXCEPT !.older = r.older \ {p}, !.late = b].older = r.older \ {p}
            /\ [r EXCEPT !.older = r.older \ {p}, !.late = b].late = b
            BY <2>1, <2>2 DEF PollStates
      <2> HIDE DEF Left
      <2> QED BY <2>1, <2>2, <2>3, <2>4, Zenon
<1> HIDE DEF Left
<1>3. NoPoll \in PollStates /\ NoPoll.pc = "free" /\ NoPoll.mount = 0 /\ NoPoll.older = {}
      BY DEF NoPoll, PollStates
<1>4. polls' \in [Polls -> PollStates]
      BY <1>1, <1>2, <1>3
<1>5. polls'[p] = NoPoll /\ \A q \in Polls : q # p => polls'[q] = Left(q)
      BY <1>1
<1>6. InHand' = InHand \ {p}
      BY <1>2, <1>3, <1>5 DEF InHand
<1>7. \A q \in Polls : /\ polls'[q].mount <= mount'
                       /\ polls'[q].pc # "free" /\ ~polls'[q].late => polls'[q].mount = mount' /\ mount' > 0
      <2>1. mount \in Nat
            BY PollingAssumption DEF PollTypeOK
      <2> QED BY <1>2, <1>3, <1>5, <2>1 DEF InFlight
<1>8. \A q \in Polls : polls'[q].older \subseteq InHand'
      BY <1>2, <1>3, <1>5, <1>6 DEF InFlight
<1>9. \A x, y \in InHand' : x # y => x \in polls'[y].older \/ y \in polls'[x].older
      <2>1. ASSUME NEW x \in InHand', NEW y \in InHand', x # y
            PROVE  x \in polls'[y].older \/ y \in polls'[x].older
            <3>1. x \in InHand /\ y \in InHand /\ x # p /\ y # p /\ x \in Polls /\ y \in Polls
                  BY <1>6 DEF InHand
            <3>2. polls'[x].older = polls[x].older \ {p} /\ polls'[y].older = polls[y].older \ {p}
                  BY <1>2, <1>5, <3>1
            <3> QED BY <2>1, <3>1, <3>2 DEF InFlight
      <2> QED BY <2>1
<1>10. ASSUME NEW q \in Timely'
       PROVE  /\ q \in Timely /\ q # p /\ q \notin polls[p].older
              /\ polls'[q].pc = polls[q].pc /\ polls'[q].older \subseteq polls[q].older
      <2>1. q \in InHand /\ q # p /\ q \in Polls /\ ~polls'[q].late
            BY <1>6 DEF Timely, InHand
      <2> QED BY <1>2, <1>5, <2>1 DEF Timely
<1>11. \A q \in Polls : polls'[q].pc \in {"free", "sent", "idle", "indexing"} /\ polls'[q].mount \in 0 .. mount'
      BY <1>4, <1>7, PollingAssumption DEF PollStates, PollTypeOK
<1> QED BY <1>4, <1>7, <1>8, <1>9, <1>10, <1>11 DEF InFlight

\* A poll that fails takes nothing with it but answers that were older.
LEMMA MissesStep ==
    ASSUME PollInv, NEW p \in Polls, Misses(p)
    PROVE  PollInv'
<1>1. /\ UNCHANGED <<run, runs, mount, wasIndexing, shows, pings, completed, crossed>>
      /\ misses' = (IF misses < MaxErrors THEN misses + 1 ELSE MaxErrors)
      /\ timer' = (timer /\ misses' < MaxErrors) /\ Over(p)
      BY DEF Misses
<1>2. timer' \in BOOLEAN /\ (timer' => timer)
      BY <1>1
<1>3. /\ InFlight'
      /\ \A q \in Polls : polls'[q].pc \in {"free", "sent", "idle", "indexing"} /\ polls'[q].mount \in 0 .. mount'
      /\ \A q \in Timely' : /\ q \in Timely /\ polls'[q].pc = polls[q].pc
                            /\ polls'[q].older \subseteq polls[q].older
      BY <1>1, <1>2, OverIs DEF PollInv
<1>4. misses' \in 0 .. MaxErrors
      BY <1>1, PollingAssumption DEF PollInv, PollTypeOK
<1>5. PollTypeOK'
      BY <1>1, <1>2, <1>3, <1>4 DEF PollInv, PollTypeOK
<1>6. ASSUME NEW upTo \in [Polls -> Nat], InOrder(upTo), Accounted(upTo)
      PROVE  InOrder(upTo)' /\ Accounted(upTo)'
      BY <1>1, <1>3, <1>6 DEF InOrder, Accounted
<1> QED BY <1>1, <1>3, <1>5, <1>6 DEF PollInv

\* An answer that is taken puts those that are older behind it, and the newer ones
\* tell of what came after.
LEMMA ArrivesStep ==
    ASSUME PollInv, NEW p \in Polls, ArrivesIdle(p) \/ ArrivesIndexing(p)
    PROVE  PollInv'
<1>1. /\ UNCHANGED <<run, runs, mount, pings>> /\ misses' = 0 /\ Over(p)
      /\ crossed' = (crossed \/ polls[p].late) /\ p \in InHand
      BY DEF ArrivesIdle, ArrivesIndexing, InHand
<1>2. timer' \in BOOLEAN /\ (timer' => timer) /\ wasIndexing' \in BOOLEAN /\ shows' \in BOOLEAN
      <2>1. timer \in BOOLEAN
            BY DEF PollInv, PollTypeOK
      <2>2. CASE ArrivesIdle(p)
            BY <2>2 DEF ArrivesIdle
      <2>3. CASE ArrivesIndexing(p)
            BY <2>1, <2>3 DEF ArrivesIndexing
      <2> QED BY <2>2, <2>3
<1>3. /\ InFlight'
      /\ \A q \in Polls : polls'[q].pc \in {"free", "sent", "idle", "indexing"} /\ polls'[q].mount \in 0 .. mount'
      /\ \A q \in Timely' : /\ q \in Timely /\ q # p /\ q \notin polls[p].older
                            /\ polls'[q].pc = polls[q].pc /\ polls'[q].older \subseteq polls[q].older
      BY <1>1, <1>2, OverIs DEF PollInv
<1>4. completed' \in Nat /\ completed \in Nat /\ runs \in Nat /\ crossed' \in BOOLEAN
      BY <1>1, PollingAssumption DEF ArrivesIdle, ArrivesIndexing, PollInv, PollTypeOK
<1>5. PollTypeOK'
      BY <1>1, <1>2, <1>3, <1>4, PollingAssumption DEF PollInv, PollTypeOK
<1>6. ASSUME ~crossed' PROVE \E upTo \in [Polls -> Nat] : InOrder(upTo)' /\ Accounted(upTo)'
      <2>1. ~crossed /\ p \in Timely
            BY <1>1, <1>6 DEF Timely
      <2>2. PICK upTo \in [Polls -> Nat] : InOrder(upTo) /\ Accounted(upTo)
            BY <2>1 DEF PollInv
      <2>3. InOrder(upTo)'
            BY <1>1, <1>3, <2>2 DEF InOrder
      <2>4. ASSUME NEW q \in Timely'
            PROVE  /\ upTo[p] <= upTo[q] /\ upTo[q] \in Nat /\ upTo[p] \in Nat
                   /\ polls[p].pc = "idle" /\ polls[q].pc = "indexing" => upTo[p] < upTo[q]
            <3>1. q \in InHand /\ q # p /\ q \notin polls[p].older /\ q \in Timely /\ q \in Polls
                  BY <1>3 DEF Timely, InHand
            <3>2. p \in polls[q].older
                  BY <1>1, <3>1 DEF PollInv, InFlight
            <3> QED BY <2>1, <2>2, <3>1, <3>2 DEF InOrder
      <2>5. CASE ArrivesIdle(p)
            <3>1. /\ completed' = completed + (IF wasIndexing THEN 1 ELSE 0) /\ wasIndexing' = FALSE
                  /\ polls[p].pc = "idle"
                  BY <2>5 DEF ArrivesIdle
            <3>2. completed' <= upTo[p] /\ upTo[p] <= runs /\ upTo[p] \in Nat
                  BY <1>4, <2>1, <2>2, <3>1 DEF InOrder, Accounted
            <3>3. run = mount => upTo[p] < runs
                  BY <2>1, <2>2, <3>1 DEF Accounted
            <3>4. completed' <= runs' /\ (wasIndexing' \/ (run' = mount' /\ mount' > 0) => completed' < runs')
                  BY <1>1, <1>4, <3>1, <3>2, <3>3
            <3>5. \A q \in Timely' :
                     /\ completed' <= upTo[q]
                     /\ wasIndexing' \/ polls'[q].pc = "indexing" => completed' < upTo[q]
                     /\ polls'[q].pc = "idle" /\ run' = mount' => upTo[q] < runs'
                  BY <1>1, <1>3, <1>4, <2>2, <2>4, <3>1, <3>2 DEF Accounted
            <3> QED BY <2>2, <2>3, <3>4, <3>5 DEF Accounted
      <2>6. CASE ArrivesIndexing(p)
            <3>1. completed' = completed /\ wasIndexing' = TRUE /\ polls[p].pc = "indexing"
                  BY <2>6 DEF ArrivesIndexing
            <3>2. completed < upTo[p] /\ upTo[p] <= runs /\ upTo[p] \in Nat
                  BY <1>4, <2>1, <2>2, <3>1 DEF InOrder, Accounted
            <3>3. \A q \in Timely' :
                     /\ completed' <= upTo[q]
                     /\ wasIndexing' \/ polls'[q].pc = "indexing" => completed' < upTo[q]
                     /\ polls'[q].pc = "idle" /\ run' = mount' => upTo[q] < runs'
                  BY <1>1, <1>3, <1>4, <2>2, <2>4, <3>1, <3>2 DEF Accounted
            <3> QED BY <1>1, <1>4, <2>2, <2>3, <3>1, <3>2, <3>3 DEF Accounted
      <2> QED BY <2>5, <2>6
<1> QED BY <1>3, <1>5, <1>6 DEF PollInv

\* The daemon answers: the answer tells of what goes on, and every other is older.
LEMMA SampleStep ==
    ASSUME PollInv, NEW p \in Polls, Sample(p)
    PROVE  PollInv'
<1> DEFINE said == IF run = polls[p].mount THEN "indexing" ELSE "idle"
<1>1. /\ polls[p].pc = "sent"
      /\ polls' = [polls EXCEPT ![p] = [@ EXCEPT !.pc = said, !.older = InHand]]
      /\ UNCHANGED <<run, runs, mount, timer, wasIndexing, misses, shows, pings, completed, crossed>>
      BY DEF Sample, PollInv, InFlight, PollStates
<1>2. PICK r : r = polls[p] /\ r \in PollStates
      BY DEF PollInv, InFlight
<1>3. said \in {"idle", "indexing"} /\ InHand \in SUBSET Polls
      BY DEF InHand
<1>4. PICK new : new = [r EXCEPT !.pc = said, !.older = InHand]
      OBVIOUS
<1>5. /\ new \in PollStates /\ new.pc = said /\ new.older = InHand /\ new.mount = r.mount /\ new.late = r.late
      BY <1>2, <1>3, <1>4 DEF PollStates
<1>6. polls' \in [Polls -> PollStates] /\ polls'[p] = new /\ \A q \in Polls : q # p => polls'[q] = polls[q]
      BY <1>1, <1>2, <1>4, <1>5 DEF PollInv, InFlight
<1> HIDE DEF said
<1>7. InHand' = InHand \cup {p} /\ p \notin InHand
      BY <1>1, <1>3, <1>5, <1>6 DEF InHand
<1>8. \A q \in Polls : polls'[q].older \subseteq InHand'
      BY <1>5, <1>6, <1>7 DEF PollInv, InFlight
<1>9. \A q \in Polls : /\ polls'[q].mount <= mount'
                       /\ polls'[q].pc # "free" /\ ~polls'[q].late => polls'[q].mount = mount' /\ mount' > 0
      BY <1>1, <1>2, <1>5, <1>6 DEF PollInv, InFlight
<1>10. \A x, y \in InHand' : x # y => x \in polls'[y].older \/ y \in polls'[x].older
      BY <1>5, <1>6, <1>7 DEF PollInv, InFlight, InHand
<1>11. InFlight'
      BY <1>1, <1>6, <1>8, <1>9, <1>10 DEF PollInv, InFlight
<1>12. PollTypeOK'
      BY <1>1, <1>2, <1>3, <1>5, <1>6 DEF PollInv, PollTypeOK
<1>13. ASSUME ~crossed' PROVE \E upTo \in [Polls -> Nat] : InOrder(upTo)' /\ Accounted(upTo)'
      <2>1. PICK old \in [Polls -> Nat] : InOrder(old) /\ Accounted(old)
            BY <1>1, <1>13 DEF PollInv
      <2>2. runs \in Nat /\ completed \in Nat
            BY PollingAssumption DEF PollInv, PollTypeOK
      <2>3. PICK upTo \in [Polls -> Nat] : upTo[p] = runs /\ \A q \in Polls : q # p => upTo[q] = old[q]
            <3>1. [old EXCEPT ![p] = runs] \in [Polls -> Nat]
                  BY <2>1, <2>2
            <3> QED BY <2>1, <3>1
      <2>4. ASSUME NEW q \in Timely', q # p
            PROVE  q \in Timely /\ q \in Polls /\ polls'[q] = polls[q] /\ upTo[q] = old[q] /\ p \notin polls[q].older
            BY <1>6, <1>7, <2>3, <2>4 DEF Timely, InHand, PollInv, InFlight
      <2>5. p \in Timely' => r.mount = mount /\ mount > 0
            <3>1. p \in Timely' => ~r.late
                  BY <1>5, <1>6 DEF Timely
            <3> QED BY <1>1, <1>2, <3>1 DEF PollInv, InFlight
      <2>6. p \in Timely' => (said = "indexing" <=> run = mount)
            BY <1>2, <2>5 DEF said
      <2>7. \A q \in Timely' : upTo[q] <= runs'
            BY <1>1, <2>1, <2>2, <2>3, <2>4 DEF InOrder
      <2>8. ASSUME NEW x \in Timely', NEW q \in Timely', q \in polls'[x].older
            PROVE  /\ upTo[q] <= upTo[x]
                   /\ polls'[q].pc = "idle" /\ polls'[x].pc = "indexing" => upTo[q] < upTo[x]
            <3>1. CASE x # p
                  <4>1. q # p
                        BY <2>4, <2>8, <3>1
                  <4> QED BY <2>1, <2>4, <2>8, <3>1, <4>1 DEF InOrder
            <3>2. CASE x = p
                  <4>1. q # p
                        BY <1>5, <1>6, <1>7, <2>8, <3>2
                  <4>2. polls'[q].pc = "idle" /\ polls'[x].pc = "indexing" => upTo[q] < runs
                        BY <1>5, <1>6, <2>1, <2>4, <2>6, <3>2, <4>1 DEF Accounted
                  <4> QED BY <1>1, <2>3, <2>7, <3>2, <4>2
            <3> QED BY <3>1, <3>2
      <2>9. InOrder(upTo)'
            BY <2>7, <2>8 DEF InOrder
      <2>10. ASSUME NEW q \in Timely'
             PROVE  /\ completed' <= upTo[q]
                    /\ wasIndexing' \/ polls'[q].pc = "indexing" => completed' < upTo[q]
                    /\ polls'[q].pc = "idle" /\ run' = mount' => upTo[q] < runs'
            <3>1. CASE q # p
                  BY <1>1, <2>1, <2>4, <3>1 DEF Accounted
            <3>2. CASE q = p
                  <4>1. upTo[q] = runs /\ completed <= runs
                        BY <2>1, <2>3, <3>2 DEF Accounted
                  <4>2. wasIndexing \/ polls'[q].pc = "indexing" => completed < runs
                        BY <1>5, <1>6, <2>1, <2>5, <2>6, <3>2 DEF Accounted
                  <4>3. polls'[q].pc = "idle" => run # mount
                        BY <1>5, <1>6, <2>6, <3>2
                  <4> QED BY <1>1, <4>1, <4>2, <4>3
            <3> QED BY <3>1, <3>2
      <2>11. completed' <= runs' /\ (wasIndexing' \/ (run' = mount' /\ mount' > 0) => completed' < runs')
            BY <1>1, <2>1 DEF Accounted
      <2>12. Accounted(upTo)'
            BY <2>10, <2>11 DEF Accounted
      <2> QED BY <2>9, <2>12
<1> QED BY <1>11, <1>12, <1>13 DEF PollInv

\* What Send leaves: one more poll in flight, of the workspace that is open.
LEMMA SendIs ==
    ASSUME InFlight, NEW from \in [Polls -> PollStates], NEW p \in Polls, Send(p, from, mount'),
           mount \in Nat, mount' \in Nat, mount <= mount', mount' > 0, polls[p].pc = "free",
           \A q \in Polls : /\ from[q].pc = polls[q].pc /\ from[q].mount = polls[q].mount
                            /\ from[q].older = polls[q].older
                            /\ ~from[q].late => ~polls[q].late /\ (from[q].pc = "free" \/ mount' = mount)
    PROVE  /\ InFlight'
           /\ \A q \in Polls : polls'[q].pc \in {"free", "sent", "idle", "indexing"} /\ polls'[q].mount \in 0 .. mount'
           /\ \A q \in Timely' : /\ q \in Timely /\ polls'[q].pc = polls[q].pc
                                 /\ polls'[q].older = polls[q].older /\ mount' = mount
<1>1. PICK new : new = [NoPoll EXCEPT !.pc = "sent", !.mount = mount']
      OBVIOUS
<1>2. new \in PollStates /\ new.pc = "sent" /\ new.mount = mount' /\ new.older = {}
      BY <1>1 DEF NoPoll, PollStates
<1>3. polls' = [from EXCEPT ![p] = new]
      BY <1>1 DEF Send
<1>4. polls' \in [Polls -> PollStates] /\ polls'[p] = new /\ \A q \in Polls : q # p => polls'[q] = from[q]
      BY <1>2, <1>3
<1>5. InHand' = InHand
      BY <1>2, <1>4 DEF InHand
<1>6. \A q \in Polls : polls'[q].older \subseteq InHand'
      BY <1>2, <1>4, <1>5 DEF InFlight
<1>7. ASSUME NEW q \in Polls
      PROVE  /\ polls'[q].mount <= mount'
             /\ polls'[q].pc # "free" /\ ~polls'[q].late => polls'[q].mount = mount' /\ mount' > 0
             /\ polls'[q].pc \in {"free", "sent", "idle", "indexing"} /\ polls'[q].mount \in 0 .. mount'
      <2>1. polls[q].mount \in Nat /\ polls[q].mount <= mount
            BY DEF InFlight, PollStates
      <2>2. CASE q = p
            BY <1>2, <1>4, <2>2
      <2>3. CASE q # p
            <3>1. polls'[q] = from[q] /\ from[q].pc \in {"free", "sent", "idle", "indexing"}
                  BY <1>4, <2>3 DEF PollStates
            <3>2. from[q].pc # "free" /\ ~from[q].late => from[q].mount = mount'
                  BY DEF InFlight
            <3> QED BY <2>1, <3>1, <3>2
      <2> QED BY <2>2, <2>3
<1>8. \A x, y \in InHand' : x # y => x \in polls'[y].older \/ y \in polls'[x].older
      <2>1. ASSUME NEW x \in InHand PROVE x \in Polls /\ polls'[x].older = polls[x].older
            <3>1. x \in Polls /\ x # p
                  BY DEF InHand
            <3> QED BY <1>4, <3>1
      <2> QED BY <1>5, <2>1 DEF InFlight
<1>9. ASSUME NEW q \in Timely'
      PROVE  /\ q \in Timely /\ polls'[q].pc = polls[q].pc
             /\ polls'[q].older = polls[q].older /\ mount' = mount
      <2>1. q \in InHand /\ ~polls'[q].late /\ q \in Polls /\ q # p
            BY <1>5 DEF Timely, InHand
      <2>2. polls'[q] = from[q] /\ from[q].pc # "free"
            BY <1>4, <2>1 DEF InHand
      <2> QED BY <2>1, <2>2 DEF Timely
<1>10. timer' => mount' > 0
      OBVIOUS
<1> QED BY <1>4, <1>6, <1>7, <1>8, <1>9, <1>10 DEF InFlight

\* A step that leaves the answers in hand as they are, and what they are put down to.
LEMMA Unasked ==
    ASSUME PollInv, PollTypeOK', InFlight', UNCHANGED <<run, runs, completed, crossed>>,
           mount' = mount \/ run' # mount', wasIndexing' => wasIndexing,
           \A q \in Timely' : /\ q \in Timely /\ polls'[q].pc = polls[q].pc
                              /\ polls'[q].older = polls[q].older /\ mount' = mount
    PROVE  PollInv'
<1>1. ASSUME NEW upTo \in [Polls -> Nat], InOrder(upTo), Accounted(upTo)
      PROVE  InOrder(upTo)' /\ Accounted(upTo)'
      <2>1. InOrder(upTo)'
            BY <1>1 DEF InOrder
      <2>2. completed' <= runs' /\ (wasIndexing' \/ (run' = mount' /\ mount' > 0) => completed' < runs')
            BY <1>1 DEF Accounted
      <2>3. \A q \in Timely' :
               /\ completed' <= upTo[q]
               /\ wasIndexing' \/ polls'[q].pc = "indexing" => completed' < upTo[q]
               /\ polls'[q].pc = "idle" /\ run' = mount' => upTo[q] < runs'
            BY <1>1 DEF Accounted
      <2> QED BY <2>2, <2>1, <2>3 DEF Accounted
<1>2. crossed' = crossed
      OBVIOUS
<1> QED BY <1>1, <1>2 DEF PollInv

\* Nothing is sent when the interval is armed for the workspace already.
LEMMA StartIs ==
    ASSUME PollInv, NEW from, NEW m, Start(from, m)
    PROVE  \/ timer /\ m = mount /\ polls' = from /\ timer' = timer
           \/ timer' = TRUE /\ \E p \in Polls : polls[p].pc = "free" /\ Send(p, from, m)
  BY DEF Start

\* Polls that are the same are in flight as before.
LEMMA SameFlight ==
    ASSUME InFlight, polls' = polls, mount' = mount, timer' = timer
    PROVE  InFlight' /\ Timely' = Timely
  BY DEF InFlight, InHand, Timely

\* Another workspace: what is in flight is late.
LEMMA MountStep ==
    ASSUME PollInv, Mount
    PROVE  PollInv'
<1> DEFINE Late(q) == [polls[q] EXCEPT !.late = @ \/ polls[q].pc # "free"]
<1>1. PICK from : from = [q \in Polls |-> Late(q)]
      OBVIOUS
<1>2. /\ mount < MaxMounts /\ mount' = mount + 1 /\ wasIndexing' = FALSE /\ shows' = FALSE
      /\ UNCHANGED <<run, runs, misses, pings, completed, crossed>> /\ Start(from, mount + 1)
      BY <1>1 DEF Mount
<1>3. mount \in Nat /\ run \in 0 .. mount /\ MaxMounts \in Nat
      BY PollingAssumption DEF PollInv, PollTypeOK
<1>4. ASSUME NEW q \in Polls
      PROVE  /\ Late(q) \in PollStates /\ Late(q).pc = polls[q].pc /\ Late(q).mount = polls[q].mount
             /\ Late(q).older = polls[q].older /\ (Late(q).late <=> (polls[q].late \/ polls[q].pc # "free"))
      <2>1. PICK r : r = polls[q] /\ r \in PollStates
            BY DEF PollInv, InFlight
      <2>2. PICK b \in BOOLEAN : b = (r.late \/ r.pc # "free")
            BY <2>1 DEF PollStates
      <2>3. Late(q) = [r EXCEPT !.late = b]
            BY <2>1, <2>2, Zenon
      <2>4. /\ [r EXCEPT !.late = b] \in PollStates /\ [r EXCEPT !.late = b].pc = r.pc
            /\ [r EXCEPT !.late = b].mount = r.mount /\ [r EXCEPT !.late = b].older = r.older
            /\ [r EXCEPT !.late = b].late = b
            BY <2>1, <2>2 DEF PollStates
      <2> HIDE DEF Late
      <2> QED BY <2>1, <2>2, <2>3, <2>4, Zenon
<1> HIDE DEF Late
<1>5. from \in [Polls -> PollStates]
      BY <1>1, <1>4
<1>6. \A q \in Polls : /\ from[q].pc = polls[q].pc /\ from[q].mount = polls[q].mount
                       /\ from[q].older = polls[q].older
                       /\ ~from[q].late => ~polls[q].late /\ (from[q].pc = "free" \/ mount' = mount)
      BY <1>1, <1>4
<1>7. PICK m : m = mount + 1 /\ m = mount' /\ m # mount
      BY <1>2, <1>3
<1>8. Start(from, m)
      BY <1>2, <1>7
<1>9. timer' = TRUE /\ \E p \in Polls : polls[p].pc = "free" /\ Send(p, from, m)
      BY <1>7, <1>8, StartIs, Zenon
<1>10. PICK p \in Polls : polls[p].pc = "free" /\ Send(p, from, mount')
      BY <1>7, <1>9, Zenon
<1>11. mount' \in Nat /\ mount <= mount' /\ mount' > 0 /\ run' # mount' /\ mount' # mount
      BY <1>2, <1>3
<1>12. /\ InFlight'
       /\ \A q \in Polls : polls'[q].pc \in {"free", "sent", "idle", "indexing"} /\ polls'[q].mount \in 0 .. mount'
       /\ \A q \in Timely' : /\ q \in Timely /\ polls'[q].pc = polls[q].pc
                             /\ polls'[q].older = polls[q].older /\ mount' = mount
      BY <1>3, <1>5, <1>6, <1>10, <1>11, SendIs DEF PollInv
<1>13. PollTypeOK'
      <2>1. mount' \in 0 .. MaxMounts /\ run' \in 0 .. mount'
            BY <1>2, <1>3
      <2> QED BY <1>2, <1>9, <1>12, <2>1 DEF PollInv, PollTypeOK
<1> QED BY <1>2, <1>11, <1>12, <1>13, Unasked

\* The timer's poll, and the one a ping sends, are of the workspace that is open.
LEMMA AsksStep ==
    ASSUME PollInv, Ping \/ Tick
    PROVE  PollInv'
<1>1. /\ UNCHANGED <<run, runs, mount, misses, shows, completed, crossed>> /\ mount > 0
      /\ pings' \in 0 .. MaxPings
      <2>1. CASE Ping
            BY <2>1, PollingAssumption DEF Ping, PollInv, PollTypeOK
      <2>2. CASE Tick
            BY <2>2 DEF Tick, PollInv, PollTypeOK, InFlight
      <2> QED BY <2>1, <2>2
<1>2. \/ polls' = polls /\ timer' = timer
      \/ timer' \in BOOLEAN /\ \E p \in Polls : polls[p].pc = "free" /\ Send(p, polls, mount)
      <2>1. CASE Ping
            BY <2>1, StartIs DEF Ping
      <2>2. CASE Tick
            BY <2>2 DEF Tick, PollInv, PollTypeOK
      <2> QED BY <2>1, <2>2
<1>3. mount \in Nat /\ mount' = mount
      BY <1>1, PollingAssumption DEF PollInv, PollTypeOK
<1>4. wasIndexing' \in BOOLEAN /\ (wasIndexing' => wasIndexing)
      <2>1. wasIndexing \in BOOLEAN
            BY DEF PollInv, PollTypeOK
      <2>2. CASE Ping
            BY <2>2 DEF Ping
      <2>3. CASE Tick
            BY <2>1, <2>3 DEF Tick
      <2> QED BY <2>2, <2>3
<1>5. CASE polls' = polls /\ timer' = timer
      <2>1. InFlight' /\ Timely' = Timely
            BY <1>3, <1>5, SameFlight DEF PollInv
      <2>2. PollTypeOK'
            BY <1>1, <1>4, <1>5 DEF PollInv, PollTypeOK
      <2> QED BY <1>1, <1>3, <1>4, <1>5, <2>1, <2>2, Unasked
<1>6. CASE timer' \in BOOLEAN /\ \E p \in Polls : polls[p].pc = "free" /\ Send(p, polls, mount)
      <2>1. PICK p \in Polls : polls[p].pc = "free" /\ Send(p, polls, mount)
            BY <1>6
      <2>2. polls \in [Polls -> PollStates] /\ Send(p, polls, mount')
            BY <1>3, <2>1 DEF PollInv, InFlight
      <2>3. /\ InFlight'
            /\ \A q \in Polls : polls'[q].pc \in {"free", "sent", "idle", "indexing"} /\ polls'[q].mount \in 0 .. mount'
            /\ \A q \in Timely' : /\ q \in Timely /\ polls'[q].pc = polls[q].pc
                                  /\ polls'[q].older = polls[q].older /\ mount' = mount
            BY <1>1, <1>3, <2>1, <2>2, SendIs DEF PollInv
      <2>4. PollTypeOK'
            BY <1>1, <1>4, <1>6, <2>3 DEF PollInv, PollTypeOK
      <2> QED BY <1>1, <1>3, <1>4, <2>3, <2>4, Unasked
<1> QED BY <1>2, <1>5, <1>6

\* Runs come and go: one more of them, or none that goes on.
LEMMA RunsStep ==
    ASSUME PollInv, RunEnds \/ \E m \in 1 .. mount : RunBegins(m)
    PROVE  PollInv'
<1>1. UNCHANGED <<mount, timer, wasIndexing, misses, shows, polls, pings, completed, crossed>>
      BY DEF RunEnds, RunBegins
<1>2. InFlight' /\ Timely' = Timely
      BY <1>1, SameFlight DEF PollInv
<1>3. mount \in Nat /\ runs \in Nat /\ completed \in Nat
      BY PollingAssumption DEF PollInv, PollTypeOK
<1>4. /\ runs' \in 0 .. MaxRuns /\ run' \in 0 .. mount'
      /\ (runs' = runs + 1 /\ run' \in 1 .. mount) \/ (runs' = runs /\ run' = 0)
      <2>1. CASE RunEnds
            BY <1>1, <1>3, <2>1 DEF RunEnds, PollInv, PollTypeOK
      <2>2. ASSUME NEW m \in 1 .. mount, RunBegins(m) PROVE <1>4!1 /\ <1>4!2
            BY <1>1, <1>3, <2>2, PollingAssumption DEF RunBegins, PollInv, PollTypeOK
      <2> QED BY <2>1, <2>2
<1>5. PollTypeOK'
      BY <1>1, <1>4 DEF PollInv, PollTypeOK
<1>6. ASSUME NEW upTo \in [Polls -> Nat], InOrder(upTo), Accounted(upTo)
      PROVE  InOrder(upTo)' /\ Accounted(upTo)'
      <2>1. \A q \in Timely : q \in Polls /\ upTo[q] \in Nat /\ upTo[q] <= runs
            BY <1>6 DEF Timely, InHand, InOrder
      <2>2. InOrder(upTo)'
            BY <1>1, <1>2, <1>3, <1>4, <1>6, <2>1 DEF InOrder
      <2>3. completed' <= runs' /\ (wasIndexing' \/ (run' = mount' /\ mount' > 0) => completed' < runs')
            BY <1>1, <1>3, <1>4, <1>6 DEF Accounted
      <2>4. ASSUME NEW q \in Timely'
            PROVE  /\ completed' <= upTo[q]
                   /\ wasIndexing' \/ polls'[q].pc = "indexing" => completed' < upTo[q]
                   /\ polls'[q].pc = "idle" /\ run' = mount' => upTo[q] < runs'
            <3>1. polls[q].pc = "idle" /\ run' = mount' => runs' = runs + 1
                  <4>1. q \in InHand /\ polls[q].pc # "free" /\ ~polls[q].late /\ q \in Polls
                        BY <1>2 DEF Timely, InHand
                  <4>2. mount > 0
                        BY <4>1 DEF PollInv, InFlight
                  <4> QED BY <1>1, <1>3, <1>4, <4>2
            <3> QED BY <1>1, <1>2, <1>3, <1>6, <2>1, <3>1 DEF Accounted
      <2> QED BY <2>2, <2>3, <2>4 DEF Accounted
<1> QED BY <1>1, <1>2, <1>5, <1>6 DEF PollInv

\* The invariant of the watch is kept by every step.
LEMMA PollStep ==
    ASSUME PollInv, [Watch]_polling
    PROVE  PollInv'
<1>1. CASE UNCHANGED polling
      BY <1>1 DEF polling, PollInv, PollTypeOK, InFlight, InHand, Timely, InOrder, Accounted
<1> QED BY <1>1, MountStep, AsksStep, RunsStep, SampleStep, ArrivesStep, MissesStep DEF Watch

\* However polls are sent, answered, lost and overtaken: unless an answer came in behind
\* a newer one, or in a workspace that is left, the page was told of no more ends of runs
\* than there were runs (pollOnce, start, ping).
THEOREM EndsAreToldOnce == PollSpec => []EndToldOnce
<1>1. PollInit => PollInv
      <2> SUFFICES ASSUME PollInit PROVE PollInv
          OBVIOUS
      <2>1. NoPoll \in PollStates /\ NoPoll.pc = "free" /\ NoPoll.mount = 0 /\ NoPoll.older = {}
            BY DEF NoPoll, PollStates
      <2>2. polls \in [Polls -> PollStates] /\ \A p \in Polls : polls[p] = NoPoll
            BY <2>1 DEF PollInit
      <2>3. InHand = {} /\ Timely = {}
            BY <2>1, <2>2 DEF InHand, Timely
      <2>4. InFlight
            BY <2>1, <2>2, <2>3 DEF InFlight, PollInit
      <2>5. PollTypeOK
            <3>1. {timer, wasIndexing, shows, crossed} \subseteq BOOLEAN
                  BY DEF PollInit
            <3>2. /\ mount \in 0 .. MaxMounts /\ run \in 0 .. mount /\ runs \in 0 .. MaxRuns
                  /\ misses \in 0 .. MaxErrors /\ pings \in 0 .. MaxPings /\ completed \in Nat
                  BY PollingAssumption DEF PollInit
            <3>3. \A p \in Polls : polls[p].pc = "free" /\ polls[p].mount \in 0 .. mount
                  BY <2>1, <2>2, <3>2
            <3> QED BY <3>1, <3>2, <3>3 DEF PollTypeOK
      <2>6. PICK upTo \in [Polls -> Nat] : upTo = [p \in Polls |-> 0]
            OBVIOUS
      <2>7. InOrder(upTo) /\ Accounted(upTo)
            BY <2>3 DEF InOrder, Accounted, PollInit
      <2> QED BY <2>4, <2>5, <2>7 DEF PollInv
<1>2. PollInv /\ [Watch]_polling => PollInv'
      BY PollStep
<1>3. PollInv => EndToldOnce
      BY DEF PollInv, EndToldOnce, OncePerRun, Accounted
<1> QED BY <1>1, <1>2, <1>3, PTL DEF PollSpec

-----------------------------------------------------------------------------
(* The desktop app and its children: a child that lives is held, is being      *)
(* stopped, or was left by an app that was killed.                             *)

\* The types, with one listener at most as a fact about any two daemons.
DesktopTypes ==
    /\ stage \in [Daemons -> {"none", "looks", "boots", "mints", "mintsLast", "serves", "drains", "closed", "ended"}]
    /\ \A d, e \in Listening : d = e
    /\ token \in [Daemons -> Minters \cup {NoOne}] /\ tokenFile \in [{"app", "user"} -> Minters \cup {NoOne}]
    /\ {child, stopping} \subseteq AppChildren \cup {NoOne}

DesktopInv ==
    /\ DesktopTypes
    /\ app \in {"off", "spawns"} => child = NoOne /\ stopping = NoOne
    /\ app # "up" => child = NoOne
    /\ stopping # NoOne => child = NoOne /\ app \in {"requested", "exits"}
    /\ \A d \in {child, stopping} \ {NoOne} : stage[d] # "none"
    /\ \A d \in AppChildren \ abandoned : stage[d] # "none" => d \in {child, stopping}

\* A state of one daemon that changes, and does not begin to listen, leaves the rest.
LEMMA OneChanges ==
    ASSUME DesktopTypes, NEW d \in Daemons,
           NEW s \in {"none", "looks", "boots", "mints", "mintsLast", "serves", "drains", "closed", "ended"},
           stage' = [stage EXCEPT ![d] = s],
           s \in {"mints", "mintsLast", "serves", "drains"} => Listening \subseteq {d}
    PROVE  /\ stage' \in [Daemons -> {"none", "looks", "boots", "mints", "mintsLast", "serves", "drains", "closed", "ended"}]
           /\ \A a, b \in Listening' : a = b
BY DEF DesktopTypes, Listening, Daemons

LEMMA DesktopStarts == DesktopInit => DesktopInv
BY DesktopAssumption DEF DesktopInit, DesktopInv, DesktopTypes, Listening, Minters, Daemons

\* A step of a daemon keeps it: what ends is a zombie as long as the app has it.
LEMMA DaemonKeeps ==
    ASSUME DesktopInv, NEW d \in Daemons, Daemon(d)
    PROVE  DesktopInv'
<1> USE DEF DesktopInv, Listening, Minters, Home, Daemons
<1> DEFINE Keeps == DesktopTypes' /\ UNCHANGED appVars /\ (d \in {child, stopping} => stage'[d] # "none")
                    /\ (\A e \in Daemons \ {d} : stage'[e] = stage[e])
                    /\ (stage[d] = "none" => stage'[d] = "none")
<1>0. ASSUME Keeps PROVE DesktopInv'
      BY <1>0, DesktopAssumption DEF DesktopTypes, appVars
<1>1. ASSUME NEW how, ProcessEnds(d, how), UNCHANGED <<appVars, tokenFile>>, stage[d] # "none" PROVE Keeps
      BY <1>1, OneChanges DEF DesktopTypes, ProcessEnds, appVars
<1>2. CASE Prints(d)
      BY <1>2, <1>0, OneChanges DEF Prints, DesktopTypes, appVars
<1>3. CASE Listens(d)
      <2>1. PICK s \in {"mints", "serves"} : stage' = [stage EXCEPT ![d] = s]
            BY <1>3 DEF Listens
      <2>2. /\ stage' \in [Daemons -> {"none", "looks", "boots", "mints", "mintsLast", "serves", "drains", "closed", "ended"}]
            /\ \A a, b \in Listening' : a = b
            <3>1. Listening \subseteq {d}
                  BY <1>3 DEF Listens
            <3> HIDE DEF Listening, Daemons
            <3> QED BY <2>1, <3>1, OneChanges
      <2>3. token' \in [Daemons -> Minters \cup {NoOne}] /\ UNCHANGED <<tokenFile, appVars>>
            <3>1. Home(d) \in {"app", "user"}
                  OBVIOUS
            <3>2. tokenFile[Home(d)] \in Minters \cup {NoOne} /\ token \in [Daemons -> Minters \cup {NoOne}]
                  BY <3>1 DEF DesktopTypes
            <3> HIDE DEF Home, Daemons, Minters
            <3> QED BY <1>3, <3>2 DEF Listens, tokenVars
      <2>4. DesktopTypes'
            BY <2>2, <2>3 DEF DesktopTypes, appVars
      <2>5. Keeps
            BY <1>3, <2>1, <2>3, <2>4 DEF DesktopTypes, Listens
      <2> QED BY <2>5, <1>0
<1>4. CASE Mints(d)
      <2>1. PICK s \in {"serves", "drains"} : stage' = [stage EXCEPT ![d] = s]
            BY <1>4 DEF Mints, DesktopTypes
      <2>2. /\ stage' \in [Daemons -> {"none", "looks", "boots", "mints", "mintsLast", "serves", "drains", "closed", "ended"}]
            /\ \A a, b \in Listening' : a = b
            <3>1. Listening \subseteq {d}
                  BY <1>4 DEF Mints, DesktopTypes
            <3> HIDE DEF Listening, Daemons
            <3> QED BY <2>1, <3>1, OneChanges
      <2>3. /\ token' \in [Daemons -> Minters \cup {NoOne}] /\ tokenFile' \in [{"app", "user"} -> Minters \cup {NoOne}]
            /\ UNCHANGED appVars
            <3>1. Home(d) \in {"app", "user"} /\ d \in Minters
                  OBVIOUS
            <3> HIDE DEF Home, Daemons, Minters
            <3> QED BY <1>4, <3>1 DEF Mints, DesktopTypes
      <2>4. DesktopTypes'
            BY <2>2, <2>3 DEF DesktopTypes, appVars
      <2>5. Keeps
            BY <1>4, <2>1, <2>3, <2>4 DEF DesktopTypes, Mints
      <2> QED BY <2>5, <1>0
<1>5. CASE PortTaken(d)
      BY <1>5, <1>0, <1>1 DEF PortTaken, tokenVars
<1>6. CASE Falls(d)
      BY <1>6, <1>0, OneChanges DEF Falls, DesktopTypes, appVars, tokenVars
<1>7. CASE Crashes(d)
      BY <1>7, <1>0, <1>1 DEF Crashes, tokenVars
<1>8. CASE Closes(d)
      BY <1>8, <1>0, OneChanges DEF Closes, DesktopTypes, appVars, tokenVars
<1>9. CASE Exits(d)
      BY <1>9, <1>0, <1>1 DEF Exits, tokenVars
<1> QED BY <1>2, <1>3, <1>4, <1>5, <1>6, <1>7, <1>8, <1>9 DEF Daemon, Proceeds

\* A signal to a daemon, or to none.
LEMMA SignalKeeps ==
    ASSUME DesktopTypes, NEW d \in Daemons, stage' = [stage EXCEPT ![d] = ShutDown(d)]
    PROVE  /\ stage' \in [Daemons -> {"none", "looks", "boots", "mints", "mintsLast", "serves", "drains", "closed", "ended"}]
           /\ \A a, b \in Listening' : a = b
           /\ \A e \in Daemons : stage'[e] = "none" <=> stage[e] = "none"
<1>1. /\ ShutDown(d) \in {"none", "looks", "boots", "mints", "mintsLast", "serves", "drains", "closed", "ended"}
      /\ ShutDown(d) = "none" <=> stage[d] = "none"
      /\ ShutDown(d) \in {"mints", "mintsLast", "serves", "drains"} => d \in Listening
      BY DEF ShutDown, DesktopTypes, Listening
<1> HIDE DEF ShutDown
<1>2. ShutDown(d) \in {"mints", "mintsLast", "serves", "drains"} => Listening \subseteq {d}
      BY <1>1 DEF DesktopTypes
<1> QED BY <1>1, <1>2, OneChanges DEF DesktopTypes

\* Launchd's job, and what a terminal and a user's commands do, is beside the app.
LEMMA OthersKeep ==
    ASSUME DesktopInv,
           LaunchdStarts \/ InstallService \/ UninstallService \/ BuildLaunchUrl \/ ServeHere \/ Interrupt
           \/ AtlasConnect
    PROVE  DesktopInv'
<1> USE DEF Minters, Home
<1>s. {"service", "terminal"} \subseteq Daemons
      BY DEF Daemons
<1>0. ASSUME stage' \in [Daemons -> {"none", "looks", "boots", "mints", "mintsLast", "serves", "drains", "closed", "ended"}],
             \A a, b \in Listening' : a = b, NEW f \in {"app", "user"}, NEW who \in Minters,
             UNCHANGED <<appVars, token>>,
             UNCHANGED tokenFile \/ tokenFile' = [tokenFile EXCEPT ![f] = who],
             \A d \in AppChildren : stage'[d] = stage[d]
      PROVE  DesktopInv'
      BY <1>0, DesktopAssumption DEF DesktopInv, DesktopTypes, appVars, Daemons
<1>1. ASSUME NEW d \in {"service", "terminal"}, stage' = [stage EXCEPT ![d] = ShutDown(d)],
             UNCHANGED <<appVars, token, tokenFile>>
      PROVE  DesktopInv'
      <2>1. d \in Daemons /\ d \notin AppChildren /\ DesktopTypes
            BY <1>1, <1>s, DesktopAssumption DEF DesktopInv
      <2>2. \A c \in AppChildren : stage'[c] = stage[c]
            BY <1>1, <2>1 DEF DesktopTypes, Daemons
      <2> HIDE DEF Minters
      <2>3. "cli" \in Minters
            BY DEF Minters
      <2> QED BY <1>1, <1>0, <2>1, <2>2, <2>3, SignalKeeps
<1>2. CASE LaunchdStarts
      <2>1. DesktopTypes
            BY DEF DesktopInv
      <2>2. \A c \in AppChildren : stage'[c] = stage[c]
            BY <1>2, <2>1, DesktopAssumption DEF LaunchdStarts, DesktopTypes, Daemons
      <2> HIDE DEF Minters
      <2>3. "cli" \in Minters
            BY DEF Minters
      <2> QED BY <1>2, <1>s, <1>0, <2>1, <2>2, <2>3, OneChanges DEF LaunchdStarts, tokenVars
<1>3. CASE InstallService
      BY <1>3, <1>1 DEF InstallService, Unload
<1>4. CASE UninstallService
      BY <1>4, <1>1 DEF UninstallService, Unload, tokenVars
<1>5. CASE BuildLaunchUrl
      BY <1>5, <1>0 DEF BuildLaunchUrl, daemonVars, DesktopInv, DesktopTypes, Listening
<1>6. CASE ServeHere
      <2>1. DesktopTypes
            BY DEF DesktopInv
      <2>2. \A c \in AppChildren : stage'[c] = stage[c]
            BY <1>6, <2>1, DesktopAssumption DEF ServeHere, DesktopTypes, Daemons
      <2>3. Started("terminal") \in {"looks", "boots"}
            BY DEF Started
      <2> HIDE DEF Minters
      <2>4. "cli" \in Minters
            BY DEF Minters
      <2> QED BY <1>6, <1>s, <1>0, <2>1, <2>2, <2>3, <2>4, OneChanges DEF ServeHere, tokenVars
<1>7. CASE Interrupt
      BY <1>7, <1>1 DEF Interrupt, tokenVars
<1>8. CASE AtlasConnect
      BY <1>8, <1>0 DEF AtlasConnect, daemonVars, DesktopInv, DesktopTypes, Listening
<1> QED BY <1>2, <1>3, <1>4, <1>5, <1>6, <1>7, <1>8

\* What the app does: it holds a child from the start to the first event of its end.
LEMMA AppKeeps ==
    ASSUME DesktopInv,
           DaemonAlreadyRunning \/ SpawnAtlasDaemon \/ ExitRequested \/ Exit \/ Stopping \/ Gone \/ AppKilled
    PROVE  DesktopInv'
<1>t. DesktopTypes
      BY DEF DesktopInv
<1> DEFINE States == {"none", "looks", "boots", "mints", "mintsLast", "serves", "drains", "closed", "ended"}
<1>c. AppChildren \subseteq Daemons
      BY DEF Daemons
<1>1. CASE DaemonAlreadyRunning
      BY <1>1, <1>t DEF DaemonAlreadyRunning, AppOnly, tokenVars, DesktopInv, DesktopTypes, Listening
<1>2. CASE SpawnAtlasDaemon
      <2>1. CASE UNCHANGED <<stage, child, abandoned>>
            BY <1>2, <2>1, <1>t DEF SpawnAtlasDaemon, AppOnly, tokenVars, DesktopInv, DesktopTypes, Listening
      <2>2. ASSUME NEW d \in AppChildren, stage[d] = "none", stage' = [stage EXCEPT ![d] = Started(d)],
                   child' = d, abandoned' = abandoned \ {d}
            PROVE  DesktopInv'
            <3>1. Started(d) \in {"looks", "boots"}
                  BY DEF Started
            <3>2. /\ stage' \in [Daemons -> States] /\ \A a, b \in Listening' : a = b
                  BY <2>2, <3>1, <1>t, <1>c, OneChanges
            <3>3. child = NoOne /\ stopping = NoOne
                  BY <1>2 DEF SpawnAtlasDaemon, DesktopInv
            <3> HIDE DEF Started
            <3>4. DesktopTypes'
                  BY <1>2, <2>2, <3>2, <3>3, <1>t DEF SpawnAtlasDaemon, AppOnly, tokenVars, DesktopTypes
            <3> QED BY <1>2, <1>c, <2>2, <3>1, <3>3, <3>4, <1>t, DesktopAssumption DEF SpawnAtlasDaemon, DesktopInv, DesktopTypes
      <2> QED BY <1>2, <2>1, <2>2 DEF SpawnAtlasDaemon
<1>3. ASSUME TakeChild, AppOnly, app' \in {"requested", "exits"}, stopping = NoOne, UNCHANGED abandoned
      PROVE  DesktopInv'
      <2>1. CASE child = NoOne
            BY <1>3, <2>1, <1>t DEF TakeChild, AppOnly, tokenVars, DesktopInv, DesktopTypes, Listening
      <2>2. CASE child # NoOne
            <3>1. child \in Daemons /\ stage' = [stage EXCEPT ![child] = ShutDown(child)]
                  BY <1>3, <2>2, <1>t, <1>c DEF TakeChild, DesktopTypes
            <3>2. /\ stage' \in [Daemons -> States] /\ \A a, b \in Listening' : a = b
                  /\ \A e \in Daemons : stage'[e] = "none" <=> stage[e] = "none"
                  BY <3>1, <1>t, SignalKeeps
            <3>3. DesktopTypes'
                  BY <1>3, <3>2, <1>t DEF TakeChild, AppOnly, tokenVars, DesktopTypes
            <3> QED BY <1>3, <1>c, <3>1, <3>2, <3>3 DEF TakeChild, DesktopInv
      <2> QED BY <2>1, <2>2
<1>4. CASE ExitRequested
      BY <1>4, <1>3 DEF ExitRequested, DesktopInv
<1>5. CASE Exit
      BY <1>5, <1>3 DEF Exit
<1>6. CASE Stopping
      <2>1. stopping \in AppChildren /\ stopping \in Daemons /\ child = NoOne
            BY <1>6, <1>t, <1>c DEF Stopping, ChildEnds, GraceIsOver, DesktopInv, DesktopTypes
      <2>2. /\ stage' = [stage EXCEPT ![stopping] = "none"] /\ stopping' = NoOne
            /\ UNCHANGED <<app, child, abandoned, tokenFile>>
            /\ UNCHANGED token \/ token' = [token EXCEPT ![stopping] = NoOne]
            BY <1>6 DEF Stopping, ChildEnds, GraceIsOver, AppOnly, tokenVars
      <2>3. /\ stage' \in [Daemons -> States] /\ \A a, b \in Listening' : a = b
            BY <2>1, <2>2, <1>t, OneChanges
      <2>4. DesktopTypes'
            BY <2>1, <2>2, <2>3, <1>t DEF DesktopTypes
      <2> QED BY <1>c, <2>1, <2>2, <2>4, <1>t DEF DesktopInv, DesktopTypes
<1>7. CASE Gone
      BY <1>7, <1>t DEF Gone, AppOnly, tokenVars, DesktopInv, DesktopTypes, Listening
<1>8. CASE AppKilled
      <2>1. /\ stage' = [d \in Daemons |-> IF stage[d] = "ended" THEN "none" ELSE stage[d]]
            /\ app' = "off" /\ child' = NoOne /\ stopping' = NoOne
            /\ abandoned' = abandoned \cup ({child, stopping} \ {NoOne})
            /\ UNCHANGED <<token, tokenFile>>
            BY <1>8 DEF AppKilled, tokenVars
      <2>2. stage' \in [Daemons -> States] /\ Listening' \subseteq Listening
            BY <2>1, <1>t DEF DesktopTypes, Listening
      <2>3. DesktopTypes'
            BY <2>1, <2>2, <1>t DEF DesktopTypes
      <2> QED BY <1>c, <2>1, <2>3, <1>t, DesktopAssumption DEF DesktopInv, DesktopTypes
<1> QED BY <1>1, <1>2, <1>4, <1>5, <1>6, <1>7, <1>8

\* However apps, launchd, terminals and faults interleave: a child that lives is held
\* by the app, is being stopped by it, or was left by an app that was killed.
THEOREM DesktopKeepsInv == DesktopSpec => []DesktopInv
<1>1. DesktopInv /\ [DesktopNext]_desktopVars => DesktopInv'
      <2> SUFFICES ASSUME DesktopInv, [DesktopNext]_desktopVars
                   PROVE  DesktopInv'
          OBVIOUS
      <2>1. ASSUME NEW d \in Daemons, Daemon(d) PROVE DesktopInv'
            BY <2>1, DaemonKeeps
      <2>2. CASE UNCHANGED desktopVars
            BY <2>2 DEF desktopVars, daemonVars, appVars, tokenVars, DesktopInv, DesktopTypes, Listening
      <2> QED BY <2>1, <2>2, OthersKeep, AppKeeps DEF DesktopNext
<1> QED BY DesktopStarts, <1>1, PTL DEF DesktopSpec

\* One daemon at most listens, and every value is of its type.
THEOREM DesktopIsTyped == DesktopSpec => []DesktopTypeOK
<1>1. DesktopInv => DesktopTypeOK
      <2> SUFFICES ASSUME DesktopInv PROVE DesktopTypeOK
          OBVIOUS
      <2>1. Cardinality(Listening) <= 1
            <3>1. CASE Listening = {}
                  BY <3>1, FS_EmptySet
            <3>2. CASE Listening # {}
                  <4>1. PICK d \in Listening : Listening = {d}
                        BY <3>2 DEF DesktopInv, DesktopTypes
                  <4> QED BY <4>1, FS_Singleton
            <3> QED BY <3>1, <3>2
      <2> QED BY <2>1 DEF DesktopInv, DesktopTypes, DesktopTypeOK
<1> QED BY DesktopKeepsInv, <1>1, PTL

\* An app that has quit, by whichever of its events, left no child that it had started
\* (stop_child, lib.rs:42-65, 381-396).
THEOREM NoChildIsLeft == DesktopSpec => []NoChildLeft
<1>1. DesktopInv => NoChildLeft
      BY DesktopAssumption DEF DesktopInv, DesktopTypes, NoChildLeft
<1> QED BY DesktopKeepsInv, <1>1, PTL

\* The app signals no process that it has waited for, nor one that it never started.
THEOREM SignalsGoToItsChild == DesktopSpec => []SignalsItsChild
<1>1. DesktopInv => SignalsItsChild
      BY DesktopAssumption DEF DesktopInv, DesktopTypes, SignalsItsChild
<1> QED BY DesktopKeepsInv, <1>1, PTL
\* Nobody replaces the token of a home that has one, but who saw none before, and a
\* daemon begins to serve with the one that is there (ensureMcpAuthToken, config.ts:406-438).
LEMMA TokenStays ==
    ASSUME DesktopInv, [DesktopNext]_desktopVars, NEW d \in Daemons,
           tokenFile[Home(d)] # NoOne, ~Minting(Home(d))
    PROVE  /\ tokenFile'[Home(d)] = tokenFile[Home(d)]
           /\ stage[d] # "serves" /\ stage'[d] = "serves" => token'[d] = tokenFile[Home(d)]
<1> DEFINE Stays == tokenFile'[Home(d)] = tokenFile[Home(d)]
           Serves == stage[d] # "serves" /\ stage'[d] = "serves" => token'[d] = tokenFile[Home(d)]
<1>t. /\ stage \in [Daemons -> {"none", "looks", "boots", "mints", "mintsLast", "serves", "drains", "closed", "ended"}]
      /\ token \in [Daemons -> Minters \cup {NoOne}] /\ tokenFile \in [{"app", "user"} -> Minters \cup {NoOne}]
      /\ {child, stopping} \subseteq AppChildren \cup {NoOne}
      BY DEF DesktopInv, DesktopTypes
<1>d. AppChildren \subseteq Daemons /\ {"service", "terminal"} \subseteq Daemons /\ {"service", "terminal"} \cap AppChildren = {}
      BY DesktopAssumption DEF Daemons
<1>h. \A e \in Daemons : Home(e) \in {"app", "user"}
      BY DEF Home
<1>u. Home("service") = "user" /\ Home("terminal") = "user"
      BY <1>d DEF Home
<1>m. \A e \in Daemons : Home(e) = Home(d) => stage[e] \notin {"looks", "mints", "mintsLast"}
      BY DEF Minting
<1> USE DEF Stays, Serves
<1> HIDE DEF Daemons, Home, Minting
<1>1. ASSUME NEW e \in Daemons, NEW s \in {"none", "looks", "boots", "drains", "closed", "ended"},
             stage' = [stage EXCEPT ![e] = s], UNCHANGED tokenFile
      PROVE  Stays /\ Serves
      BY <1>1, <1>t
<1>s. ASSUME NEW e \in Daemons, ShutDown(e) = "serves" PROVE FALSE
      BY <1>s DEF ShutDown
<1>2. ASSUME NEW e \in Daemons, stage' = [stage EXCEPT ![e] = ShutDown(e)], UNCHANGED tokenFile
      PROVE  Stays /\ Serves
      BY <1>2, <1>t, <1>s
<1>3. ASSUME NEW e \in Daemons, Daemon(e) PROVE Stays /\ Serves
      <2>1. CASE Prints(e)
            <3>1. Home(e) # Home(d) /\ tokenFile' = [tokenFile EXCEPT ![Home(e)] = e]
                  BY <2>1, <1>m DEF Prints
            <3>2. Stays
                  BY <3>1, <1>t, <1>h
            <3>3. stage' = [stage EXCEPT ![e] = "boots"]
                  BY <2>1 DEF Prints
            <3> QED BY <3>2, <3>3, <1>t
      <2>2. CASE Listens(e)
            <3>1. UNCHANGED tokenFile /\ token' = [token EXCEPT ![e] = tokenFile[Home(e)]]
                  BY <2>2 DEF Listens, tokenVars
            <3>2. \A other \in Daemons \ {e} : stage'[other] = stage[other]
                  BY <2>2, <1>t DEF Listens
            <3> QED BY <3>1, <3>2, <1>t
      <2>3. CASE Mints(e)
            <3>1. Home(e) # Home(d) /\ tokenFile' = [tokenFile EXCEPT ![Home(e)] = e]
                  BY <2>3, <1>m DEF Mints
            <3>2. Stays
                  BY <3>1, <1>t, <1>h
            <3>3. d # e /\ stage'[d] = stage[d]
                  BY <2>3, <3>1, <1>t DEF Mints
            <3> QED BY <3>2, <3>3
      <2>4. CASE \E how \in {"error", "clean"} : ProcessEnds(e, how) /\ UNCHANGED tokenFile
            BY <2>4, <1>1 DEF ProcessEnds
      <2>5. CASE Falls(e)
            BY <2>5, <1>1 DEF Falls, tokenVars
      <2>6. CASE Closes(e)
            BY <2>6, <1>1 DEF Closes, tokenVars
      <2> QED BY <1>3, <2>1, <2>2, <2>3, <2>4, <2>5, <2>6 DEF Daemon, Proceeds, PortTaken, Crashes, Exits, tokenVars
<1>4. CASE LaunchdStarts
      BY <1>4, <1>d, <1>1 DEF LaunchdStarts, tokenVars
<1>5. CASE InstallService \/ UninstallService
      BY <1>5, <1>d, <1>2 DEF InstallService, UninstallService, Unload, tokenVars
<1>6. CASE BuildLaunchUrl
      <2>1. UNCHANGED stage
            BY <1>6 DEF BuildLaunchUrl, daemonVars
      <2>2. CASE UNCHANGED tokenFile
            BY <2>1, <2>2
      <2>3. CASE cli = "mints" /\ tokenFile' = [tokenFile EXCEPT !["user"] = "cli"]
            <3>1. Home(d) # "user"
                  BY <2>3 DEF Minting
            <3> QED BY <2>1, <2>3, <3>1, <1>t, <1>h
      <2> QED BY <1>6, <2>2, <2>3 DEF BuildLaunchUrl
<1>7. CASE ServeHere
      <2>1. Started("terminal") \in {"looks", "boots"}
            BY DEF Started
      <2> QED BY <1>7, <2>1, <1>d, <1>1 DEF ServeHere, tokenVars
<1>8. CASE Interrupt
      BY <1>8, <1>d, <1>2 DEF Interrupt, tokenVars
<1>9. CASE DaemonAlreadyRunning \/ Gone
      BY <1>9 DEF DaemonAlreadyRunning, Gone, AppOnly, tokenVars
<1>10. CASE SpawnAtlasDaemon
      <2>1. UNCHANGED tokenFile
            BY <1>10 DEF SpawnAtlasDaemon, AppOnly, tokenVars
      <2>2. CASE UNCHANGED stage
            BY <2>1, <2>2
      <2>3. ASSUME NEW c \in AppChildren, stage' = [stage EXCEPT ![c] = Started(c)] PROVE Stays /\ Serves
            <3>1. Started(c) \in {"looks", "boots"}
                  BY DEF Started
            <3> QED BY <2>1, <2>3, <3>1, <1>d, <1>1
      <2> QED BY <1>10, <2>2, <2>3 DEF SpawnAtlasDaemon
<1>11. CASE AtlasConnect
      <2>1. UNCHANGED stage
            BY <1>11 DEF AtlasConnect, daemonVars
      <2>2. CASE connecting
            <3>1. Home(d) # "app"
                  BY <2>2, <1>h DEF Minting
            <3> QED BY <1>11, <2>1, <2>2, <3>1, <1>t, <1>h DEF AtlasConnect
      <2> QED BY <1>11, <2>1, <2>2 DEF AtlasConnect
<1>12. CASE ExitRequested \/ Exit
      <2>1. UNCHANGED tokenFile
            BY <1>12 DEF ExitRequested, Exit, AppOnly, tokenVars
      <2>2. UNCHANGED stage \/ (child \in Daemons /\ stage' = [stage EXCEPT ![child] = ShutDown(child)])
            BY <1>12, <1>t, <1>d DEF ExitRequested, Exit, TakeChild
      <2> QED BY <2>1, <2>2, <1>2
<1>13. CASE Stopping
      <2>1. stopping \in Daemons /\ UNCHANGED tokenFile
            BY <1>13, <1>t, <1>d DEF Stopping, ChildEnds, GraceIsOver, AppOnly, tokenVars
      <2>2. stage' = [stage EXCEPT ![stopping] = "none"]
            BY <1>13 DEF Stopping, ChildEnds, GraceIsOver
      <2> QED BY <2>1, <2>2, <1>1
<1>14. CASE AppKilled
      BY <1>14, <1>t DEF AppKilled, tokenVars
<1>15. CASE UNCHANGED desktopVars
      BY <1>15 DEF desktopVars, daemonVars, tokenVars
<1> QED BY <1>3, <1>4, <1>5, <1>6, <1>7, <1>8, <1>9, <1>10, <1>11, <1>12, <1>13, <1>14, <1>15 DEF DesktopNext

\* For any number of children and faults: one daemon listens, no child is left, the app
\* signals its own child only, and the token of a home stays.
THEOREM DesktopIsKept == DesktopSpec => DesktopHolds
<1>1. DesktopInv /\ [DesktopNext]_desktopVars
        => [\A d \in Daemons :
              tokenFile[Home(d)] # NoOne /\ ~Minting(Home(d)) =>
                  /\ tokenFile'[Home(d)] = tokenFile[Home(d)]
                  /\ stage[d] # "serves" /\ stage'[d] = "serves" => token'[d] = tokenFile[Home(d)]]_desktopVars
      BY TokenStays
<1>2. DesktopSpec => TokensStay
      BY <1>1, DesktopKeepsInv, PTL DEF DesktopSpec, TokensStay
<1> QED BY <1>2, DesktopIsTyped, NoChildIsLeft, SignalsGoToItsChild, PTL DEF DesktopHolds
=============================================================================

------------------------- MODULE AtlasDaemonProofs --------------------------
(* For any number of workspaces and requests: the guards of a workspace are    *)
(* held as long as its run, and shutdown closes no store under a run unless    *)
(* its drain ran out of time.  First the supervisor of an external Lore, step  *)
(* by step: its processes are numbered, one of them survives at most, and the  *)
(* attempts are bounded (src/sidecar/loreSidecar.ts); then the guards; then    *)
(* both composed with boot and shutdown.                                       *)
EXTENDS AtlasDaemon, FiniteSetTheorems, TLAPS
ProcStates == {"none", "up", "termed", "doomed", "zombie", "dead"}

\* Its exit has not been delivered yet.
Undead(p) == proc[p] \in {"up", "termed", "doomed", "zombie"}
\* A crash that is still to be delivered, or still to come, of a process that
\* nobody told to end.
NobodyLeft == \A p \in Pids : Undead(p) => p \in deliberate

\* The processes so far are those from 1 to n.
Spawned(n) == n \in 0 .. MaxRestarts + 1 /\ \A p \in Pids : proc[p] # "none" <=> p <= n

\* An attempt is counted before its process is spawned.
Numbers(n) ==
    /\ Spawned(n)
    /\ ~closed /\ restarts <= MaxRestarts
       => n + (IF watch = "waiting" THEN 1 ELSE 0) <= restarts + 1
    /\ ~closed /\ child = NoPid => n = 0
    /\ n = 0 => child = NoPid /\ watch = "idle" /\ ~armed /\ restarts = 0

Numbered == \E n \in 0 .. MaxRestarts + 1 : Numbers(n)

\* Until close(): whoever is not told to end is the child, and the child is told to
\* end only by the restart that waits for it.
Supervised ==
    /\ killed = deliberate
    /\ \A p \in Pids : Undead(p) /\ p \notin deliberate => p = child
    /\ \A p \in Pids : Survives(p) => p = child
    /\ \A p \in killed : Survives(p) => watch = "waiting"
    /\ watch = "waiting" => old = child /\ child \in killed /\ restarts <= MaxRestarts
    /\ ~hasty /\ \A c \in Closers : closer[c] = "no"

\* Two attempts are counted in vain at most: of a crash and of a late probe.
Bounded ==
    /\ restarts > MaxRestarts => ~armed /\ watch # "waiting"
    /\ restarts > MaxRestarts /\ watch = "probing" => NobodyLeft
    /\ restarts > MaxRestarts + 1 => NobodyLeft /\ watch = "idle"

\* From close() on nothing is spawned; what survives it is its own target, until the
\* caller is told.
Ending ==
    /\ \A p, q \in Pids : Survives(p) /\ Survives(q) => p = q
    /\ closed /\ ~hasty =>
          \A p \in Pids : Survives(p) => p = target /\ \A c \in Closers : closer[c] # "done"
    /\ \A c \in Closers : closer[c] = "polling" => target \in Pids
    /\ watch = "waiting" => old \in Pids

SideInv ==
    /\ SidecarTypeOK
    /\ \A p \in killed \cup {child} : p # NoPid => proc[p] # "none"
    /\ Numbered /\ Ending
    /\ ~closed => Supervised /\ Bounded

-----------------------------------------------------------------------------
\* Processes are numbered from 1, one more than there may be restarts; 0 is none.
LEMMA PidsAre == MaxRestarts \in Nat /\ Pids = 1 .. MaxRestarts + 1 /\ NoPid \notin Pids
BY SidecarAssumption DEF Pids, NoPid

\* The next process has the number after the last.
LEMMA NextPidIs ==
    ASSUME NEW n \in 0 .. MaxRestarts + 1, Spawned(n)
    PROVE  NextPid = n + 1
<1>1. {p \in Pids : proc[p] # "none"} = 1 .. n
      BY PidsAre DEF Spawned
<1>2. Cardinality(1 .. n) = n
      BY PidsAre, FS_Interval
<1>3. Cardinality({p \in Pids : proc[p] # "none"}) = n
      BY <1>1, <1>2
<1> QED BY <1>3, PidsAre DEF NextPid

\* A signal reaches one process, which ends or is told to.
LEMMA SignalledIs ==
    ASSUME SidecarTypeOK, NEW p \in Pids, NEW how \in {"termed", "doomed"}
    PROVE  /\ Signalled(p, how) \in [Pids -> ProcStates]
           /\ \A q \in Pids : /\ q # p => Signalled(p, how)[q] = proc[q]
                              /\ Signalled(p, how)[q] \in {"up", "termed"} => proc[q] \in {"up", "termed"}
                              /\ Signalled(p, how)[q] = "none" <=> proc[q] = "none"
                              /\ Signalled(p, how)[q] = "dead" <=> proc[q] = "dead"
           /\ how = "doomed" => Signalled(p, how)[p] \notin {"up", "termed"}
BY DEF Signalled, SidecarTypeOK, ProcStates

\* The next process gets the next number, if it is spawned.
LEMMA SpawnNextIs ==
    ASSUME NEW n \in 0 .. MaxRestarts, Spawned(n), NEW now \in [Pids -> ProcStates],
           \A p \in Pids : now[p] = "none" <=> proc[p] = "none", SpawnNext(now)
    PROVE  \/ proc' = now /\ child' = child /\ Spawned(n)'
           \/ /\ child' = n + 1 /\ n + 1 \in Pids /\ proc[n + 1] = "none"
              /\ proc' \in [Pids -> ProcStates] /\ proc'[n + 1] = "up"
              /\ \A p \in Pids : p # n + 1 => proc'[p] = now[p]
              /\ n + 1 \in 0 .. MaxRestarts + 1 /\ Spawned(n + 1)'
<1>1. NextPid = n + 1 /\ n + 1 \in Pids /\ proc[n + 1] = "none"
      BY NextPidIs, PidsAre DEF Spawned
<1>2. CASE proc' = now /\ UNCHANGED child
      BY <1>2, PidsAre DEF Spawned
<1>3. CASE proc' = [now EXCEPT ![NextPid] = "up"] /\ child' = NextPid
      <2>1. /\ proc' \in [Pids -> ProcStates] /\ proc'[n + 1] = "up"
            /\ \A p \in Pids : p # n + 1 => proc'[p] = now[p]
            BY <1>1, <1>3 DEF ProcStates
      <2>2. \A p \in Pids : proc'[p] # "none" <=> p <= n + 1
            BY <2>1, PidsAre DEF Spawned
      <2> QED BY <1>1, <1>3, <2>1, <2>2, PidsAre DEF Spawned
<1> QED BY <1>2, <1>3 DEF SpawnNext

\* A new supervisor has no process.
LEMMA SideInit == SidecarInit => SideInv
<1> SUFFICES ASSUME SidecarInit PROVE SideInv
    OBVIOUS
<1>1. SidecarTypeOK
      <2>1. {armed, failed, closed, hasty} \subseteq BOOLEAN
            BY DEF SidecarInit
      <2>2. restarts \in 0 .. MaxRestarts + 2 /\ {child, old, target} \subseteq Pids \cup {NoPid}
            BY PidsAre DEF SidecarInit
      <2> QED BY <2>1, <2>2 DEF SidecarInit, SidecarTypeOK
<1>2. Spawned(0) /\ 0 \in 0 .. MaxRestarts + 1
      BY PidsAre DEF SidecarInit, Spawned
<1>3. Numbered
      BY <1>2, PidsAre DEF SidecarInit, Numbered, Numbers
<1>4. Ending /\ Supervised /\ Bounded
      BY PidsAre DEF SidecarInit, Ending, Supervised, Bounded, Survives, Undead
<1> QED BY <1>1, <1>3, <1>4 DEF SideInv, SidecarInit

\* A step that neither spawns nor signals anyone, and takes nobody back to life.
LEMMA DieKeeps ==
    ASSUME SideInv, NEW p \in Pids, Die(p)
    PROVE  SideInv'
<1>1. /\ proc[p] \in {"up", "termed", "doomed"} /\ proc' = [proc EXCEPT ![p] = "zombie"]
      /\ UNCHANGED <<killed, deliberate, child, restarts, armed, watch, old, target, failed, closed, closer, hasty>>
      BY DEF Die
<1>2. /\ proc'[p] = "zombie" /\ \A q \in Pids : q # p => proc'[q] = proc[q]
      /\ proc' \in [Pids -> ProcStates]
      BY <1>1 DEF SideInv, SidecarTypeOK, ProcStates
<1>3. SidecarTypeOK'
      BY <1>1, <1>2 DEF SideInv, SidecarTypeOK, ProcStates
<1>4. Numbered'
      <2>1. \A n : Spawned(n)' <=> Spawned(n)
            BY <1>1, <1>2 DEF Spawned
      <2> QED BY <1>1, <2>1 DEF SideInv, Numbered, Numbers
<1>5. Ending'
      BY <1>1, <1>2 DEF SideInv, Ending, Survives
<1>6. ~closed => Supervised' /\ Bounded'
      BY <1>1, <1>2 DEF SideInv, Supervised, Bounded, NobodyLeft, Survives, Undead, SidecarTypeOK
<1> QED BY <1>1, <1>2, <1>3, <1>4, <1>5, <1>6 DEF SideInv, SidecarTypeOK

\* A tick of the watchdog, and a healthy answer, start and end no process.
LEMMA TickKeeps ==
    ASSUME SideInv, Tick \/ Healthy
    PROVE  SideInv'
<1>1. /\ UNCHANGED <<proc, killed, deliberate, child, restarts, armed, old, target, failed, closed, closer, hasty>>
      /\ watch # "waiting" /\ watch' \in {"idle", "probing"}
      /\ watch' = "probing" => armed /\ ~closed
      BY DEF Tick, Healthy
<1>2. SidecarTypeOK'
      BY <1>1 DEF SideInv, SidecarTypeOK
<1>3. Numbered'
      BY <1>1 DEF SideInv, Numbered, Numbers, Spawned
<1>4. Ending' /\ (~closed => Supervised')
      BY <1>1 DEF SideInv, Ending, Supervised, Survives, Undead
<1>5. ~closed => Bounded'
      <2>1. restarts > MaxRestarts + 1 => restarts > MaxRestarts
            BY PidsAre DEF SideInv, SidecarTypeOK
      <2>2. NobodyLeft' <=> NobodyLeft
            BY <1>1 DEF NobodyLeft, Undead
      <2> QED BY <1>1, <2>1, <2>2 DEF SideInv, Bounded
<1> QED BY <1>1, <1>2, <1>3, <1>4, <1>5 DEF SideInv

\* A spawn takes the next number while nobody has the port.
LEMMA SpawnKeeps ==
    ASSUME SideInv, Spawn
    PROVE  SideInv'
<1>1. /\ child = NoPid /\ NextPid = 1 /\ ~closed
      /\ proc' = [proc EXCEPT ![1] = "up"] /\ child' = 1 /\ armed' = TRUE
      /\ UNCHANGED <<killed, deliberate, restarts, watch, old, target, failed, closed, closer, hasty>>
      BY DEF Spawn
<1>2. Spawned(0) /\ watch = "idle" /\ 1 \in Pids
      BY <1>1, PidsAre DEF SideInv, Numbered, Numbers
<1>3. /\ proc'[1] = "up" /\ \A q \in Pids : q # 1 => proc'[q] = "none"
      /\ proc' \in [Pids -> ProcStates] /\ \A q \in Pids : proc[q] = "none"
      BY <1>1, <1>2, PidsAre DEF SideInv, SidecarTypeOK, Spawned, ProcStates
<1>4. SidecarTypeOK'
      BY <1>1, <1>2, <1>3 DEF SideInv, SidecarTypeOK, ProcStates
<1>5. restarts = 0 /\ killed = {} /\ deliberate = {}
      BY <1>1, <1>2, <1>3, PidsAre DEF SideInv, Numbered, Numbers, Spawned, Supervised, SidecarTypeOK
<1>6. Numbered'
      <2>1. Spawned(1)' /\ 1 \in 0 .. MaxRestarts + 1
            BY <1>3, PidsAre DEF Spawned
      <2> QED BY <1>1, <1>2, <1>5, <2>1, PidsAre DEF Numbered, Numbers
<1>7. Ending'
      BY <1>1, <1>2, <1>3 DEF SideInv, Supervised, Ending, Survives
<1>8. Supervised' /\ Bounded'
      BY <1>1, <1>2, <1>3, <1>5, PidsAre DEF SideInv, Supervised, Bounded, Survives, Undead
<1> QED BY <1>1, <1>2, <1>3, <1>4, <1>5, <1>6, <1>7, <1>8 DEF SideInv

-----------------------------------------------------------------------------
\* Nobody survives, or is left to crash.
Calm(now) ==
    /\ now \in [Pids -> ProcStates]
    /\ \A p \in Pids : /\ now[p] = "none" <=> proc[p] = "none"
                       /\ now[p] \notin {"up", "termed"}
                       /\ now[p] \in {"doomed", "zombie"} => p \in deliberate

\* The arithmetic of one more process within the restarts that are left.
LEMMA OneMore ==
    ASSUME NEW n \in 1 .. MaxRestarts, NEW r \in Nat, n <= r, r <= MaxRestarts
    PROVE  /\ n \in 0 .. MaxRestarts + 1 /\ n # 0 /\ n + 0 <= r + 1
           /\ n + 1 \in 0 .. MaxRestarts + 1 /\ n + 1 # 0 /\ n + 1 # NoPid /\ (n + 1) + 0 <= r + 1
           /\ r \in 0 .. MaxRestarts + 2 /\ ~(r > MaxRestarts) /\ ~(r > MaxRestarts + 1)
BY PidsAre DEF NoPid

\* A respawn, then.
LEMMA RespawnKeeps ==
    ASSUME SideInv, ~closed, child # NoPid,
           NEW n \in 1 .. MaxRestarts, Spawned(n), NEW now, Calm(now), SpawnNext(now), watch' \in {"idle", "probing"}, old' \in Pids \cup {NoPid},
           NEW r \in Nat, restarts' = r, n <= r, r <= MaxRestarts,
           UNCHANGED <<killed, deliberate, armed, failed, target, closed, closer, hasty>>
    PROVE  SideInv'
<1>1. /\ n \in 0 .. MaxRestarts /\ now \in [Pids -> ProcStates]
      /\ \A p \in Pids : now[p] = "none" <=> proc[p] = "none"
      BY PidsAre DEF Calm
<1>2. \/ proc' = now /\ child' = child /\ Spawned(n)'
      \/ /\ child' = n + 1 /\ n + 1 \in Pids /\ proc[n + 1] = "none"
         /\ proc' \in [Pids -> ProcStates] /\ proc'[n + 1] = "up"
         /\ \A p \in Pids : p # n + 1 => proc'[p] = now[p]
         /\ n + 1 \in 0 .. MaxRestarts + 1 /\ Spawned(n + 1)'
      BY <1>1, SpawnNextIs
<1>3. /\ killed \subseteq Pids /\ killed = deliberate /\ ~hasty
      /\ \A p \in killed \cup {child} : p # NoPid => proc[p] # "none"
      /\ \A c \in Closers : closer[c] = "no"
      /\ child \in Pids /\ NoPid \notin Pids /\ MaxRestarts \in Nat
      BY PidsAre DEF SideInv, Supervised, SidecarTypeOK
<1>4. SidecarTypeOK'
      <2>1. proc' \in [Pids -> ProcStates] /\ child' \in Pids \cup {NoPid}
            BY <1>1, <1>2, <1>3
      <2>2. restarts' \in 0 .. MaxRestarts + 2 /\ watch' \in {"idle", "probing", "waiting"}
            BY OneMore
      <2> QED BY <2>1, <2>2 DEF SideInv, SidecarTypeOK, ProcStates
<1>5. CASE proc' = now /\ child' = child /\ Spawned(n)'
      <2>1. Numbered'
            <3>1. n \in 0 .. MaxRestarts + 1 /\ n # 0 /\ n + 0 <= r + 1
                  BY OneMore
            <3>2. watch' # "waiting" /\ child' # NoPid /\ Spawned(n)'
                  BY <1>5
            <3>3. Numbers(n)'
                  BY <3>1, <3>2 DEF Numbers
            <3> QED BY <3>1, <3>3 DEF Numbered
      <2>2. Ending'
            BY <1>3, <1>5 DEF Ending, Survives, Calm
      <2>3. Supervised'
            BY <1>3, <1>5 DEF Supervised, Survives, Undead, Calm
      <2>4. Bounded'
            BY OneMore DEF Bounded
      <2> QED BY <1>3, <1>4, <1>5, <2>1, <2>2, <2>3, <2>4 DEF SideInv, Calm
<1>6. CASE /\ child' = n + 1 /\ n + 1 \in Pids /\ proc[n + 1] = "none"
           /\ proc' \in [Pids -> ProcStates] /\ proc'[n + 1] = "up"
           /\ \A p \in Pids : p # n + 1 => proc'[p] = now[p]
           /\ n + 1 \in 0 .. MaxRestarts + 1 /\ Spawned(n + 1)'
      <2> DEFINE new == n + 1
      <2>0. /\ child' = new /\ new \in Pids /\ proc[new] = "none" /\ proc'[new] = "up"
            /\ \A p \in Pids : p # new => proc'[p] = now[p]
            BY <1>6
      <2>1. Numbered'
            <3>1. new \in 0 .. MaxRestarts + 1 /\ new # 0 /\ new + 0 <= r + 1 /\ new # NoPid
                  BY OneMore
            <3>2. Spawned(new)'
                  BY <1>6
            <3> HIDE DEF new
            <3>4. watch' # "waiting" /\ child' # NoPid
                  BY <2>0, <3>1
            <3>3. Numbers(new)'
                  BY <3>1, <3>2, <3>4 DEF Numbers
            <3> QED BY <3>1, <3>3 DEF Numbered
      <2> HIDE DEF new
      <2>2. Ending'
            BY <1>3, <2>0 DEF Ending, Survives, Calm
      <2>3. Supervised'
            BY <1>3, <2>0 DEF Supervised, Survives, Undead, Calm
      <2>4. Bounded'
            BY OneMore DEF Bounded
      <2>5. \A p \in killed' \cup {child'} : p # NoPid => proc'[p] # "none"
            BY <1>3, <2>0 DEF Calm
      <2> QED BY <1>4, <2>1, <2>2, <2>3, <2>4, <2>5 DEF SideInv
<1> QED BY <1>2, <1>5, <1>6

\* Nobody came to life; of those alive, one may have been found dead.
Fewer(now) ==
    /\ now \in [Pids -> ProcStates]
    /\ \A p \in Pids : /\ now[p] = "none" <=> proc[p] = "none"
                       /\ now[p] # proc[p] => now[p] = "dead"
LeftIn(now) == \A p \in Pids : now[p] \in {"up", "termed", "doomed", "zombie"} => p \in deliberate

\* The attempt is one too many.
LEMMA GiveUpKeeps ==
    ASSUME SideInv, ~closed, child # NoPid, NEW now, Fewer(now), GiveUp(now),
           watch # "waiting", watch' = "idle" \/ (watch' = watch /\ LeftIn(now)),
           restarts > MaxRestarts => watch' = "idle" /\ LeftIn(now),
           ~NobodyLeft \/ watch # "idle",
           UNCHANGED <<old, target, closed, closer, hasty>>
    PROVE  SideInv'
<1>1. /\ restarts' = restarts + 1 /\ restarts' > MaxRestarts /\ armed' = FALSE /\ failed' = TRUE
      /\ proc' = now /\ UNCHANGED <<killed, deliberate, child>>
      BY DEF GiveUp
<1>2. restarts \in 0 .. MaxRestarts + 1 /\ MaxRestarts \in Nat
      <2>1. restarts \in 0 .. MaxRestarts + 2 /\ MaxRestarts \in Nat
            BY PidsAre DEF SideInv, SidecarTypeOK
      <2>2. ~(restarts > MaxRestarts + 1)
            BY DEF SideInv, Bounded
      <2> QED BY <2>1, <2>2
<1>2a. UNCHANGED <<old, target, closed, closer, hasty>>
      OBVIOUS
<1>3. SidecarTypeOK'
      <2>1. restarts' \in 0 .. MaxRestarts + 2
            BY <1>1, <1>2
      <2>2. watch' \in {"idle", "probing", "waiting"}
            BY DEF SideInv, SidecarTypeOK
      <2> QED BY <1>1, <2>1, <2>2 DEF SideInv, SidecarTypeOK, ProcStates, Fewer
<1>4. Numbered'
      <2>1. \A n : Spawned(n)' <=> Spawned(n)
            BY <1>1 DEF Spawned, Fewer
      <2>2. PICK n \in 0 .. MaxRestarts + 1 : Spawned(n) /\ n # 0
            BY DEF SideInv, Numbered, Numbers
      <2> QED BY <1>1, <1>2, <2>1, <2>2 DEF Numbered, Numbers
<1>5. \A p \in Pids : (Survives(p)' => Survives(p)) /\ (Undead(p)' => Undead(p))
      BY <1>1 DEF Survives, Undead, Fewer
<1>6. Ending'
      BY <1>1, <1>5 DEF SideInv, Ending
<1>6a. Supervised'
      <2>1. watch' # "waiting" /\ ~closed
            OBVIOUS
      <2>2. killed' = killed /\ deliberate' = deliberate /\ child' = child
            BY <1>1
      <2>3. Supervised /\ killed \subseteq Pids
            BY DEF SideInv, SidecarTypeOK
      <2> QED BY <1>2a, <1>5, <2>1, <2>2, <2>3 DEF Supervised
<1>7. Bounded'
      <2>1. NobodyLeft' <=> LeftIn(now)
            BY <1>1 DEF NobodyLeft, Undead, LeftIn
      <2>2. restarts' > MaxRestarts + 1 <=> restarts > MaxRestarts
            BY <1>1, <1>2
      <2> QED BY <1>1, <2>1, <2>2 DEF Bounded
<1>8. \A p \in killed' \cup {child'} : p # NoPid => proc'[p] # "none"
      BY <1>1 DEF SideInv, Fewer, SidecarTypeOK
<1> QED BY <1>3, <1>4, <1>6, <1>6a, <1>7, <1>8 DEF SideInv

\* The exit of a process is delivered: a crash restarts, at once.
LEMMA ReapKeeps ==
    ASSUME SideInv, NEW p \in Pids, Reap(p)
    PROVE  SideInv'
<1> DEFINE now == [proc EXCEPT ![p] = "dead"]
<1>1. /\ proc[p] = "zombie" /\ UNCHANGED <<watch, old, target, closed, closer, hasty>>
      /\ IF closed \/ p \in deliberate
         THEN proc' = now /\ UNCHANGED <<killed, deliberate, child, restarts, armed, failed>>
         ELSE GiveUp(now) \/ Replace(now)
      BY DEF Reap
<1>2. /\ now \in [Pids -> ProcStates] /\ now[p] = "dead"
      /\ \A q \in Pids : q # p => now[q] = proc[q]
      BY DEF SideInv, SidecarTypeOK, ProcStates
<1> HIDE DEF now
<1>3. CASE closed \/ p \in deliberate
      <2>1. proc' = now /\ UNCHANGED <<killed, deliberate, child, restarts, armed, failed>>
            BY <1>1, <1>3
      <2>2. SidecarTypeOK'
            BY <1>1, <1>2, <2>1 DEF SideInv, SidecarTypeOK, ProcStates
      <2>3. Numbered'
            <3>1. \A n : Spawned(n)' <=> Spawned(n)
                  BY <1>1, <1>2, <2>1 DEF Spawned
            <3> QED BY <1>1, <2>1, <3>1 DEF SideInv, Numbered, Numbers
      <2>4. Ending'
            BY <1>1, <1>2, <2>1 DEF SideInv, Ending, Survives
      <2>5. \A q \in Pids : (Survives(q)' => Survives(q)) /\ (Undead(q)' => Undead(q))
            BY <1>2, <2>1 DEF Survives, Undead
      <2>6. ~closed => Supervised'
            <3>1. killed \subseteq Pids /\ (~closed => Supervised)
                  BY DEF SideInv, SidecarTypeOK
            <3> QED BY <1>1, <2>1, <2>5, <3>1 DEF Supervised
      <2>7. ~closed => Bounded'
            <3>1. NobodyLeft => NobodyLeft'
                  BY <2>1, <2>5 DEF NobodyLeft
            <3> QED BY <1>1, <2>1, <3>1 DEF SideInv, Bounded
      <2> QED BY <1>1, <1>2, <2>1, <2>2, <2>3, <2>4, <2>6, <2>7 DEF SideInv, SidecarTypeOK
<1>4. CASE ~(closed \/ p \in deliberate)
      <2>1. ~closed /\ p = child /\ p \notin deliberate /\ child # NoPid /\ watch # "waiting"
            BY <1>1, <1>4, PidsAre DEF SideInv, Supervised, Undead
      <2>2. ~NobodyLeft
            BY <1>1, <2>1 DEF NobodyLeft, Undead
      <2>3. restarts > MaxRestarts => watch = "idle"
            BY <2>1, <2>2, PidsAre DEF SideInv, Bounded, SidecarTypeOK
      <2>4. Fewer(now) /\ LeftIn(now) /\ Calm(now)
            BY <1>1, <1>2, <2>1 DEF SideInv, Supervised, Survives, Undead, Fewer, LeftIn, Calm
      <2>5. CASE GiveUp(now)
            BY <1>1, <1>2, <2>1, <2>2, <2>3, <2>4, <2>5, GiveUpKeeps
      <2>6. CASE Replace(now)
            <3>1. /\ restarts' = restarts + 1 /\ restarts' <= MaxRestarts /\ SpawnNext(now)
                  /\ UNCHANGED <<killed, deliberate, failed, armed>>
                  BY <2>6 DEF Replace
            <3>2. PICK n \in 1 .. MaxRestarts : Spawned(n) /\ n <= restarts'
                  <4>1. restarts \in Nat /\ MaxRestarts \in Nat /\ restarts <= MaxRestarts
                        BY <3>1, PidsAre DEF SideInv, SidecarTypeOK
                  <4>2. PICK n \in 0 .. MaxRestarts + 1 : Spawned(n) /\ n # 0 /\ n <= restarts + 1
                        BY <2>1, <4>1 DEF SideInv, Numbered, Numbers
                  <4> QED BY <3>1, <4>1, <4>2
            <3>3. restarts' \in Nat /\ watch' \in {"idle", "probing"} /\ old' \in Pids \cup {NoPid}
                  BY <1>1, <2>1, <3>1, PidsAre DEF SideInv, SidecarTypeOK
            <3> QED BY <1>1, <1>2, <2>1, <2>4, <3>1, <3>2, <3>3, RespawnKeeps
      <2> QED BY <1>1, <1>4, <2>5, <2>6
<1> QED BY <1>3, <1>4

\* The old process is told to end, and the restart waits.
Awaited ==
    /\ restarts' = restarts + 1 /\ restarts' <= MaxRestarts
    /\ ~Exited(child) /\ child \notin killed
    /\ deliberate' = deliberate \cup {child} /\ killed' = killed \cup {child}
    /\ proc' = Signalled(child, "termed")
    /\ watch' = "waiting" /\ old' = child
    /\ UNCHANGED <<child, armed, failed>>

\* An awaited restart tells the child to end and waits for it.
LEMMA AwaitKeeps ==
    ASSUME SideInv, ~closed, watch = "probing", child # NoPid, Awaited,
           UNCHANGED <<target, closed, closer, hasty>>
    PROVE  SideInv'
<1>1. /\ restarts' = restarts + 1 /\ restarts' <= MaxRestarts /\ child \notin killed
      /\ deliberate' = deliberate \cup {child} /\ killed' = killed \cup {child}
      /\ watch' = "waiting" /\ old' = child /\ ~closed'
      /\ UNCHANGED <<child, armed, failed, target, closed, closer, hasty>>
      BY DEF Awaited
<1>2. /\ child \in Pids /\ restarts \in Nat /\ MaxRestarts \in Nat
      /\ killed \subseteq Pids /\ deliberate \subseteq Pids
      BY PidsAre DEF SideInv, SidecarTypeOK
<1>3. /\ proc' \in [Pids -> ProcStates]
      /\ \A q \in Pids : /\ proc'[q] = "none" <=> proc[q] = "none"
                         /\ proc'[q] \in {"up", "termed"} => proc[q] \in {"up", "termed"}
                         /\ q # child => proc'[q] = proc[q]
      <2>1. proc' = Signalled(child, "termed")
            BY DEF Awaited
      <2> QED BY <1>2, <2>1, SignalledIs DEF SideInv
<1>4. SidecarTypeOK'
      <2>1. restarts' \in 0 .. MaxRestarts + 2
            BY <1>1, <1>2
      <2> QED BY <1>1, <1>2, <1>3, <2>1 DEF SideInv, SidecarTypeOK, ProcStates
<1>5. Numbered'
      <2>1. \A n : Spawned(n)' <=> Spawned(n)
            BY <1>3 DEF Spawned
      <2>2. PICK n \in 0 .. MaxRestarts + 1 : Spawned(n) /\ n # 0 /\ n + 0 <= restarts + 1
            BY <1>1, <1>2 DEF SideInv, Numbered, Numbers
      <2>3. n + 1 <= restarts' + 1
            BY <1>1, <1>2, <2>2
      <2>4. Numbers(n)'
            BY <1>1, <2>1, <2>2, <2>3 DEF Numbers
      <2> QED BY <2>2, <2>4 DEF Numbered
<1>6. Ending'
      BY <1>1, <1>2, <1>3 DEF SideInv, Ending, Survives
<1>7. Supervised'
      <2>1. Supervised
            BY DEF SideInv
      <2> QED BY <1>1, <1>2, <1>3, <2>1 DEF Supervised, Survives, Undead
<1>8. Bounded'
      BY <1>1, <1>2 DEF Bounded
<1>9. \A p \in killed' \cup {child'} : p # NoPid => proc'[p] # "none"
      BY <1>1, <1>2, <1>3 DEF SideInv
<1> QED BY <1>4, <1>5, <1>6, <1>7, <1>8, <1>9 DEF SideInv

\* An unhealthy answer restarts, or gives up when the attempts are used up.
LEMMA UnhealthyKeeps ==
    ASSUME SideInv, Unhealthy
    PROVE  SideInv'
<1>1. watch = "probing" /\ UNCHANGED <<target, closed, closer, hasty>>
      BY DEF Unhealthy
<1>2. CASE closed
      <2>1. watch' = "idle"
            /\ UNCHANGED <<proc, killed, deliberate, child, restarts, armed, old, failed, closed>>
            BY <1>1, <1>2 DEF Unhealthy
      <2>2. SidecarTypeOK'
            BY <1>1, <2>1 DEF SideInv, SidecarTypeOK
      <2>3. Numbered'
            BY <1>1, <1>2, <2>1 DEF SideInv, Numbered, Numbers, Spawned
      <2>4. Ending'
            BY <1>1, <2>1 DEF SideInv, Ending, Survives
      <2> QED BY <1>1, <1>2, <2>1, <2>2, <2>3, <2>4 DEF SideInv
<1>3. CASE ~closed
      <2>1. child # NoPid
            BY <1>1, <1>3 DEF SideInv, Numbered, Numbers
      <2>2. /\ proc \in [Pids -> ProcStates] /\ child \in Pids /\ deliberate \subseteq Pids
            /\ restarts \in Nat /\ MaxRestarts \in Nat /\ Supervised /\ Bounded
            BY <1>3, <2>1, PidsAre DEF SideInv, SidecarTypeOK, ProcStates
      <2>3. LeftIn(proc) <=> NobodyLeft
            BY DEF LeftIn, NobodyLeft, Undead
      <2>4. CASE GiveUp(proc) /\ watch' = "idle" /\ UNCHANGED old
            <3>1. Fewer(proc)
                  BY <2>2 DEF Fewer
            <3>2. restarts > MaxRestarts => LeftIn(proc)
                  BY <1>1, <2>2, <2>3 DEF Bounded
            <3> QED BY <1>1, <1>3, <2>1, <2>4, <3>1, <3>2, GiveUpKeeps
      <2>5. CASE Replace(proc) /\ watch' = "idle" /\ UNCHANGED old
            <3>1. /\ restarts' = restarts + 1 /\ restarts' <= MaxRestarts /\ SpawnNext(proc)
                  /\ UNCHANGED <<killed, deliberate, failed, armed>>
                  /\ proc[child] = "dead" \/ child \in killed
                  BY <2>5 DEF Replace
            <3>2. Calm(proc)
                  BY <1>1, <2>2, <3>1 DEF Supervised, Survives, Undead, Calm
            <3>3. PICK n \in 0 .. MaxRestarts + 1 : Spawned(n) /\ n # 0 /\ n + 0 <= restarts + 1
                  BY <1>1, <1>3, <2>1, <2>2, <3>1 DEF SideInv, Numbered, Numbers
            <3>4. n \in 1 .. MaxRestarts /\ restarts' \in Nat /\ n <= restarts'
                  BY <2>2, <3>1, <3>3
            <3>5. watch' \in {"idle", "probing"} /\ old' \in Pids \cup {NoPid}
                  BY <2>5 DEF SideInv, SidecarTypeOK
            <3> QED BY <1>1, <1>3, <2>1, <3>1, <3>2, <3>3, <3>4, <3>5, RespawnKeeps
      <2>6. CASE Awaited
            BY <1>1, <1>3, <2>1, <2>6, AwaitKeeps
      <2>7. \/ (GiveUp(proc) \/ Replace(proc)) /\ watch' = "idle" /\ UNCHANGED old
            \/ Awaited
            BY <1>3 DEF Unhealthy, Awaited
      <2> QED BY <2>4, <2>5, <2>6, <2>7
<1> QED BY <1>2, <1>3

\* The old process has ended or is sent SIGKILL, before its replacement is spawned.
LEMMA WaitEndsKeeps ==
    ASSUME SideInv, WaitEnds
    PROVE  SideInv'
<1> DEFINE now == Signalled(old, "doomed")
<1>1. /\ watch = "waiting" /\ watch' = "idle" /\ old' = NoPid
      /\ IF closed THEN proc' = now /\ UNCHANGED child ELSE SpawnNext(now)
      /\ UNCHANGED <<killed, deliberate, restarts, armed, target, failed, closed, closer, hasty>>
      BY DEF WaitEnds
<1>2. old \in Pids
      BY <1>1 DEF SideInv, Ending
<1>3. /\ now \in [Pids -> ProcStates] /\ now[old] \notin {"up", "termed"}
      /\ \A q \in Pids : /\ now[q] = "none" <=> proc[q] = "none"
                         /\ now[q] \in {"up", "termed"} => proc[q] \in {"up", "termed"}
                         /\ q # old => now[q] = proc[q]
      BY <1>2, SignalledIs DEF SideInv
<1> HIDE DEF now
<1>4. CASE closed
      <2>1. proc' = now /\ UNCHANGED child
            BY <1>1, <1>4
      <2>2. SidecarTypeOK'
            BY <1>1, <1>3, <2>1 DEF SideInv, SidecarTypeOK, ProcStates
      <2>3. Numbered'
            <3>1. \A n : Spawned(n)' <=> Spawned(n)
                  BY <1>3, <2>1 DEF Spawned
            <3> QED BY <1>1, <1>4, <2>1, <3>1 DEF SideInv, Numbered, Numbers
      <2>4. Ending'
            BY <1>1, <1>3, <2>1 DEF SideInv, Ending, Survives
      <2>5. \A p \in killed' \cup {child'} : p # NoPid => proc'[p] # "none"
            BY <1>1, <1>3, <2>1 DEF SideInv, SidecarTypeOK
      <2> QED BY <1>1, <1>4, <2>2, <2>3, <2>4, <2>5 DEF SideInv
<1>5. CASE ~closed
      <2>1. /\ Supervised /\ old = child /\ child \in killed /\ killed = deliberate
            /\ restarts \in Nat /\ restarts <= MaxRestarts /\ MaxRestarts \in Nat /\ child # NoPid
            BY <1>1, <1>2, <1>5, PidsAre DEF SideInv, Supervised, SidecarTypeOK
      <2>2. SpawnNext(now) /\ watch' \in {"idle", "probing"} /\ old' \in Pids \cup {NoPid}
            BY <1>1, <1>5
      <2>3. Calm(now)
            BY <1>3, <2>1 DEF Supervised, Survives, Undead, Calm
      <2>4. PICK n \in 0 .. MaxRestarts + 1 : Spawned(n) /\ n # 0 /\ n + 1 <= restarts + 1
            BY <1>1, <1>5, <2>1 DEF SideInv, Numbered, Numbers
      <2>5. n \in 1 .. MaxRestarts /\ n <= restarts
            BY <2>1, <2>4
      <2> QED BY <1>1, <1>5, <2>1, <2>2, <2>3, <2>4, <2>5, RespawnKeeps
<1> QED BY <1>4, <1>5

-----------------------------------------------------------------------------
\* What a close() signals is what survives it; or nobody does; or it was hasty.
LEMMA CloseKeeps ==
    ASSUME SideInv, NEW c \in Closers, Close(c)
    PROVE  SideInv'
<1> DEFINE waits == ~closed /\ child # NoPid /\ child \notin killed
<1>1. /\ closer[c] = "no" /\ closed' = TRUE /\ armed' = FALSE
      /\ closer' = [closer EXCEPT ![c] = IF waits THEN "polling" ELSE "done"]
      /\ IF waits
         THEN /\ killed' = killed \cup {child} /\ target' = child
              /\ proc' = Signalled(child, "termed") /\ UNCHANGED <<child, hasty>>
         ELSE /\ hasty' = (hasty \/ \E p \in Pids : Survives(p))
              /\ child' = IF closed THEN child ELSE NoPid
              /\ UNCHANGED <<killed, target, proc>>
      /\ UNCHANGED <<deliberate, restarts, watch, old, failed>>
      BY DEF Close
<1> HIDE DEF waits
<1>2. CASE waits
      <2>1. ~closed /\ child \in Pids /\ Supervised /\ killed \subseteq Pids
            BY <1>2, PidsAre DEF waits, SideInv, SidecarTypeOK
      <2>2. /\ proc' \in [Pids -> ProcStates]
            /\ \A q \in Pids : /\ proc'[q] = "none" <=> proc[q] = "none"
                               /\ proc'[q] \in {"up", "termed"} => proc[q] \in {"up", "termed"}
            BY <1>1, <1>2, <2>1, SignalledIs DEF SideInv
      <2>3. /\ killed' = killed \cup {child} /\ target' = child /\ child' = child /\ hasty' = hasty
            /\ closer' = [closer EXCEPT ![c] = "polling"]
            BY <1>1, <1>2
      <2>4. SidecarTypeOK'
            <3>1. {armed, failed, closed, hasty}' \subseteq BOOLEAN
                  BY <1>1, <2>3 DEF SideInv, SidecarTypeOK
            <3> QED BY <1>1, <2>1, <2>2, <2>3, <3>1 DEF SideInv, SidecarTypeOK, ProcStates
      <2>5. Numbered'
            <3>1. \A n : Spawned(n)' <=> Spawned(n)
                  BY <2>2 DEF Spawned
            <3> QED BY <1>1, <2>1, <2>3, <3>1 DEF SideInv, Numbered, Numbers
      <2>6. Ending'
            <3>1. \A k \in Closers : closer'[k] \in {"no", "polling"}
                  BY <2>1, <2>3 DEF SideInv, SidecarTypeOK, Supervised
            <3>2. \A p \in Pids : Survives(p)' => Survives(p) /\ p = target'
                  BY <2>1, <2>2, <2>3 DEF Supervised, Survives
            <3>3. \A p, q \in Pids : Survives(p)' /\ Survives(q)' => p = q
                  BY <3>2
            <3>4. watch' = "waiting" => old' \in Pids
                  BY <1>1 DEF SideInv, Ending
            <3> QED BY <2>1, <2>3, <3>1, <3>2, <3>3, <3>4 DEF Ending
      <2>7. \A p \in killed' \cup {child'} : p # NoPid => proc'[p] # "none"
            BY <2>1, <2>2, <2>3 DEF SideInv
      <2> QED BY <1>1, <2>4, <2>5, <2>6, <2>7 DEF SideInv
<1>3. CASE ~waits
      <2>1. /\ hasty' = (hasty \/ \E p \in Pids : Survives(p)) /\ child' \in {child, NoPid}
            /\ UNCHANGED <<killed, target, proc>> /\ closer' = [closer EXCEPT ![c] = "done"]
            BY <1>1, <1>3
      <2>2. SidecarTypeOK'
            <3>1. hasty \in BOOLEAN /\ hasty' \in BOOLEAN
                  BY <2>1 DEF SideInv, SidecarTypeOK
            <3>2. {armed, failed, closed, hasty}' \subseteq BOOLEAN
                  BY <1>1, <3>1 DEF SideInv, SidecarTypeOK
            <3> QED BY <1>1, <2>1, <3>2 DEF SideInv, SidecarTypeOK
      <2>3. Numbered'
            <3>1. \A n : Spawned(n)' <=> Spawned(n)
                  BY <2>1 DEF Spawned
            <3> QED BY <1>1, <2>1, <3>1 DEF SideInv, Numbered, Numbers
      <2>4. Ending'
            BY <1>1, <2>1 DEF SideInv, Ending, Survives, SidecarTypeOK
      <2>5. \A p \in killed' \cup {child'} : p # NoPid => proc'[p] # "none"
            BY <2>1 DEF SideInv
      <2> QED BY <1>1, <2>2, <2>3, <2>4, <2>5 DEF SideInv
<1> QED BY <1>2, <1>3

\* The caller goes on when its target has ended or was sent SIGKILL.
LEMMA PollEndsKeeps ==
    ASSUME SideInv, NEW c \in Closers, PollEnds(c)
    PROVE  SideInv'
<1>1. /\ closer[c] = "polling" /\ closer' = [closer EXCEPT ![c] = "done"]
      /\ proc' = Signalled(target, "doomed") /\ child' \in {child, NoPid}
      /\ UNCHANGED <<killed, deliberate, restarts, armed, watch, old, target, failed, closed, hasty>>
      BY DEF PollEnds
<1>2. closed /\ target \in Pids
      BY <1>1 DEF SideInv, Supervised, Ending
<1>3. /\ proc' \in [Pids -> ProcStates] /\ proc'[target] \notin {"up", "termed"}
      /\ \A q \in Pids : /\ proc'[q] = "none" <=> proc[q] = "none"
                         /\ proc'[q] \in {"up", "termed"} => proc[q] \in {"up", "termed"}
      BY <1>1, <1>2, SignalledIs DEF SideInv
<1>4. SidecarTypeOK'
      BY <1>1, <1>3 DEF SideInv, SidecarTypeOK, ProcStates
<1>5. Numbered'
      <2>1. \A n : Spawned(n)' <=> Spawned(n)
            BY <1>3 DEF Spawned
      <2> QED BY <1>1, <1>2, <2>1 DEF SideInv, Numbered, Numbers
<1>6. Ending'
      BY <1>1, <1>2, <1>3 DEF SideInv, Ending, Survives, SidecarTypeOK
<1>7. \A p \in killed' \cup {child'} : p # NoPid => proc'[p] # "none"
      BY <1>1, <1>3 DEF SideInv, SidecarTypeOK
<1> QED BY <1>1, <1>2, <1>4, <1>5, <1>6, <1>7 DEF SideInv

-----------------------------------------------------------------------------

RunStates == Stages \cup {"refused", "returned", "threw"}
Answers == Refusals \cup {"none", "returned", "queued", "confirmed"}
Requests == [ws : Workspaces, kind : Kinds, run : RunStates, answer : Answers]

\* A request is not made yet, or has a workspace, a run and an answer.
LEMMA JobStatesAre == JobStates = {NoJob} \cup Requests
  BY DEF JobStates, Requests, RunStates, Answers

\* What a step may do to the runs without touching their guards.
SameRuns ==
    \A k \in Jobs : job'[k].run \in Stages \/ job[k].run \in Stages
                    => job'[k].run \in Stages /\ job[k].run \in Stages /\ job'[k].ws = job[k].ws

\* The run of j, and no other, is over.
RunEnds(j) ==
    /\ job[j].run \in Stages /\ job'[j].run \notin Stages
    /\ \A k \in Jobs \ {j} : job'[k] = job[k]

\* A request that runs has a workspace of the daemon's.
LEMMA RunsSomewhere ==
    ASSUME JobsTypeOK, NEW j \in Jobs, job[j].run \in Stages
    PROVE  job[j].ws \in Workspaces /\ job[j].kind \in Kinds /\ job[j] \in Requests
<1>1. job[j] \in JobStates
  BY DEF JobsTypeOK
<1>2. job[j] # NoJob
  BY DEF NoJob, Stages
<1> QED
  BY <1>1, <1>2, JobStatesAre DEF Requests

\* Steps that leave the guards and the set of runs alone keep them matching.
LEMMA GuardsKept ==
    ASSUME GuardsMatchRuns, SameRuns, UNCHANGED <<mode, guards, leaked>>
    PROVE  GuardsMatchRuns'
<1>1. \A w \in Workspaces : Live(w)' = Live(w)
  BY DEF SameRuns, Live
<1> QED
  BY <1>1 DEF GuardsMatchRuns, GuardsOf, guards

\* A run that ends releases the guards of its workspace, which had no other run.
LEMMA GuardsReleased ==
    ASSUME JobsTypeOK, GuardsMatchRuns, NEW j \in Jobs, RunEnds(j),
           ReleaseGuards(job[j].ws), UNCHANGED <<mode, leaked>>
    PROVE  GuardsMatchRuns' /\ work' \in [Workspaces -> Nat]
           /\ lock' \in [Workspaces -> {"free", "daemon", "cli"}]
           /\ inFlight' \subseteq Workspaces
<1>0. mode' = mode /\ leaked' = leaked
  OBVIOUS
<1>1. PICK v \in Workspaces : v = job[j].ws
  BY RunsSomewhere DEF RunEnds
<1>2. j \in Live(v)
  BY <1>1 DEF Live, RunEnds
<1>3. Live(v)' = {}
  BY <1>1, <1>2 DEF Live, RunEnds, GuardsMatchRuns, GuardsOf
<1>4. \A w \in Workspaces \ {v} : Live(w)' = Live(w)
  BY <1>1 DEF Live, RunEnds
<1>5. v \notin leaked /\ v \in inFlight
  BY <1>1, <1>2 DEF GuardsMatchRuns, GuardsOf
<1>6. mode = "embedded" => work[v] = 1
  BY <1>1, <1>5 DEF GuardsMatchRuns, GuardsOf
<1>7. mode = "embedded" => work'[v] = 0 /\ lock'[v] = "free"
  BY <1>1, <1>6 DEF ReleaseGuards, JobsTypeOK
<1>8. \A w \in Workspaces \ {v} : work'[w] = work[w] /\ lock'[w] = lock[w]
  BY <1>1 DEF ReleaseGuards, JobsTypeOK
<1>9. inFlight' = inFlight \ {v} /\ inFlight \subseteq Workspaces
  BY <1>1 DEF ReleaseGuards, JobsTypeOK
<1>10. work' \in [Workspaces -> Nat]
  <2>1. CASE mode = "embedded"
    BY <2>1, <1>1, <1>6 DEF ReleaseGuards, JobsTypeOK
  <2>2. CASE mode # "embedded"
    BY <2>2 DEF ReleaseGuards, JobsTypeOK
  <2> QED
    BY <2>1, <2>2
<1>11. lock' \in [Workspaces -> {"free", "daemon", "cli"}]
  BY <1>1 DEF ReleaseGuards, JobsTypeOK
<1>12. GuardsMatchRuns'
  <2> SUFFICES ASSUME NEW w \in Workspaces PROVE GuardsOf(w)'
    BY DEF GuardsMatchRuns
  <2>1. CASE w = v
    BY <2>1, <1>0, <1>3, <1>5, <1>7, <1>9 DEF GuardsOf
  <2>2. CASE w # v
    <3>1. Live(w)' = Live(w) /\ work'[w] = work[w] /\ lock'[w] = lock[w]
      BY <2>2, <1>4, <1>8
    <3>2. w \in inFlight' <=> w \in inFlight
      BY <2>2, <1>9
    <3> QED
      BY <3>1, <3>2, <1>0 DEF GuardsMatchRuns, GuardsOf
  <2> QED
    BY <2>1, <2>2
<1> QED
  BY <1>9, <1>10, <1>11, <1>12


\* The run of a request goes on to r.
Moved(j, r) ==
    /\ job' \in [Jobs -> JobStates] /\ job'[j].run = r /\ job'[j].ws = job[j].ws
    /\ \A k \in Jobs \ {j} : job'[k] = job[k]

\* A step that gives one request another run moves that run and no other.
LEMMA MovedAlone ==
    ASSUME JobsTypeOK, NEW j \in Jobs, job[j] \in Requests, NEW r \in RunStates,
           job' = [job EXCEPT ![j].run = r]
    PROVE  Moved(j, r)
<1>1. job \in [Jobs -> JobStates]
  BY DEF JobsTypeOK
<1>2. \A e \in Requests : /\ [e EXCEPT !.run = r] \in Requests
                          /\ [e EXCEPT !.run = r].run = r /\ [e EXCEPT !.run = r].ws = e.ws
  BY DEF Requests
<1> QED
  BY <1>1, <1>2, JobStatesAre DEF Moved

\* So does one that answers the request at the same time.
LEMMA MovedAndAnswered ==
    ASSUME JobsTypeOK, NEW j \in Jobs, job[j] \in Requests, NEW r \in RunStates,
           NEW b \in Answers, job' = [job EXCEPT ![j].run = r, ![j].answer = b]
    PROVE  Moved(j, r)
<1>1. job \in [Jobs -> JobStates]
  BY DEF JobsTypeOK
<1>2. \A e \in Requests : LET new == [e EXCEPT !.run = r, !.answer = b]
                          IN new \in Requests /\ new.run = r /\ new.ws = e.ws
  BY DEF Requests
<1>3. job' = [job EXCEPT ![j] = [job[j] EXCEPT !.run = r, !.answer = b]]
  BY <1>1
<1> QED
  BY <1>1, <1>2, <1>3, JobStatesAre DEF Moved

\* So does the end of a run, returned or thrown.
LEMMA EndedMoves ==
    ASSUME JobsTypeOK, NEW j \in Jobs, job[j] \in Requests,
           NEW how \in {"returned", "threw"}, Ended(j, how)
    PROVE  Moved(j, how)
<1> DEFINE b == IF job[j].kind = "index" THEN how ELSE job[j].answer
<1>1. b \in Answers /\ how \in RunStates
  BY DEF Answers, Refusals, Requests, RunStates
<1>2. job' = [job EXCEPT ![j].run = how, ![j].answer = b]
  BY DEF Ended, JobsTypeOK
<1> QED
  BY <1>1, <1>2, MovedAndAnswered

\* A step of a run from one stage to another keeps the guards.
LEMMA StageStep ==
    ASSUME JobsTypeOK, GuardsMatchRuns, NEW j \in Jobs, job[j].run \in Stages,
           NEW r \in Stages, Moved(j, r), UNCHANGED <<mode, guards, leaked>>
    PROVE  GuardsMatchRuns'
<1>1. SameRuns
  BY DEF SameRuns, Moved
<1> QED
  BY <1>1, GuardsKept

\* A run that ends with its guards released.
LEMMA EndStep ==
    ASSUME JobsTypeOK, GuardsMatchRuns, NEW j \in Jobs, job[j].run \in Stages,
           NEW r \in {"returned", "threw"}, Moved(j, r),
           ReleaseGuards(job[j].ws), UNCHANGED <<mode, leaked>>
    PROVE  /\ GuardsMatchRuns'
           /\ work' \in [Workspaces -> Nat]
           /\ lock' \in [Workspaces -> {"free", "daemon", "cli"}]
           /\ inFlight' \subseteq Workspaces
<1>1. RunEnds(j)
  BY DEF RunEnds, Moved, Stages
<1> QED
  BY <1>1, GuardsReleased

-----------------------------------------------------------------------------
\* Every step of a run keeps the types, and the guards in step with the runs.
LEMMA RunStep ==
    ASSUME JobsTypeOK, GuardsMatchRuns, NEW j \in Jobs, Runs(j)
    PROVE  JobsTypeOK' /\ GuardsMatchRuns' /\ UNCHANGED <<mode, stopping, torn>>
<1>1. job[j].run \in Stages
  BY DEF Runs, Begin, PathRefused, OpenFails, Write, RunThrows, RunDone, SnapshotDone, Stages
<1>2. job[j] \in Requests /\ job[j].ws \in Workspaces
  BY <1>1, RunsSomewhere
<1>3. UNCHANGED <<mode, stopping, torn, announced>>
  BY DEF Runs, Begin, PathRefused, OpenFails, Write, RunThrows, RunDone, SnapshotDone
<1>4. progress' \in [Workspaces -> {"idle", "parsing", "writing", "done", "error"}]
  BY <1>2 DEF Runs, Begin, PathRefused, OpenFails, Write, RunThrows, RunDone, SnapshotDone, JobsTypeOK
<1>5. SUFFICES /\ job' \in [Jobs -> JobStates] /\ GuardsMatchRuns'
               /\ leaked' \subseteq Workspaces /\ inFlight' \subseteq Workspaces
               /\ work' \in [Workspaces -> Nat]
               /\ lock' \in [Workspaces -> {"free", "daemon", "cli"}]
  BY <1>3, <1>4 DEF JobsTypeOK
<1>6. ASSUME NEW r \in Stages, job' = [job EXCEPT ![j].run = r], UNCHANGED <<guards, leaked>>
      PROVE  <1>5!1
  <2>1. Moved(j, r)
    BY <1>2, <1>6, MovedAlone DEF RunStates
  <2> QED
    BY <1>1, <1>3, <1>6, <2>1, StageStep DEF Moved, JobsTypeOK, guards
<1>7. ASSUME NEW how \in {"returned", "threw"}, Ended(j, how), ReleaseGuards(job[j].ws),
             UNCHANGED leaked
      PROVE  <1>5!1
  <2>1. Moved(j, how)
    BY <1>2, <1>7, EndedMoves
  <2> QED
    BY <1>1, <1>3, <1>7, <2>1, EndStep DEF Moved, JobsTypeOK
<1>8. ASSUME Finish(j), UNCHANGED leaked PROVE <1>5!1
  <2>1. CASE mode = "embedded"
    BY <1>6, <1>8, <2>1 DEF Finish, Stages
  <2>2. CASE mode # "embedded"
    BY <1>7, <1>8, <2>2 DEF Finish
  <2> QED
    BY <2>1, <2>2
<1>9. CASE Begin(j)
  BY <1>6, <1>9 DEF Begin, Stages
<1>10. CASE PathRefused(j)
  BY <1>8, <1>10 DEF PathRefused
<1>11. CASE OpenFails(j)
  <2>1. CASE job[j].kind \in Onboards /\ mode = "embedded"
    <3>1. job' = [job EXCEPT ![j].run = "threw", ![j].answer = "threw"]
          /\ leaked' = leaked \cup {job[j].ws} /\ UNCHANGED guards
      BY <1>11, <2>1 DEF OpenFails
    <3>2. Moved(j, "threw")
      BY <1>2, <3>1, MovedAndAnswered DEF RunStates, Answers, Refusals
    <3>3. PICK v \in Workspaces : v = job[j].ws
      BY <1>2
    <3>4. j \in Live(v) /\ Live(v)' = {}
      BY <1>1, <3>2, <3>3 DEF Live, Moved, GuardsMatchRuns, GuardsOf, Stages
    <3>5. \A w \in Workspaces \ {v} : Live(w)' = Live(w)
      BY <1>1, <3>2, <3>3 DEF Live, Moved
    <3>6. GuardsMatchRuns'
      <4> SUFFICES ASSUME NEW w \in Workspaces PROVE GuardsOf(w)'
        BY DEF GuardsMatchRuns
      <4>1. CASE w = v
        BY <4>1, <1>3, <3>1, <3>3, <3>4 DEF GuardsMatchRuns, GuardsOf, guards
      <4>2. CASE w # v
        BY <4>2, <1>3, <3>1, <3>3, <3>5 DEF GuardsMatchRuns, GuardsOf, guards
      <4> QED
        BY <4>1, <4>2
    <3> QED
      BY <1>2, <3>1, <3>2, <3>6 DEF Moved, JobsTypeOK, guards
  <2>2. CASE ~(job[j].kind \in Onboards /\ mode = "embedded")
    BY <1>7, <1>11, <2>2 DEF OpenFails
  <2> QED
    BY <2>1, <2>2
<1>12. CASE Write(j)
  BY <1>6, <1>12 DEF Write, Stages
<1>13. CASE RunThrows(j)
  BY <1>7, <1>13 DEF RunThrows
<1>14. CASE RunDone(j)
  BY <1>8, <1>14 DEF RunDone
<1>15. CASE SnapshotDone(j)
  BY <1>7, <1>15 DEF SnapshotDone
<1> QED
  BY <1>9, <1>10, <1>11, <1>12, <1>13, <1>14, <1>15 DEF Runs

\* Asking takes all guards of a workspace that has none taken, or nothing.
LEMMA AskStep ==
    ASSUME JobsTypeOK, GuardsMatchRuns, NEW a \in Ask, Asked(a)
    PROVE  JobsTypeOK' /\ GuardsMatchRuns' /\ UNCHANGED <<mode, stopping, torn>>
           /\ (stopping => UNCHANGED work)
<1>1. a.job \in Jobs /\ a.ws \in Workspaces /\ a.kind \in Kinds /\ job[a.job] = NoJob
  BY DEF Ask, Asked, Refused, CannotStart, Start
<1>2. UNCHANGED <<mode, stopping, torn, progress, leaked>>
  BY DEF Asked, Refused, CannotStart, Start
<1>3. announced' \subseteq Workspaces
  BY <1>1 DEF Asked, Refused, CannotStart, Start, Claims, JobsTypeOK
<1>4. ASSUME NEW r \in RunStates, NEW b \in Answers, New(a, r, b)
      PROVE  /\ job' \in [Jobs -> JobStates]
             /\ job'[a.job].run = r /\ job'[a.job].ws = a.ws
             /\ \A k \in Jobs \ {a.job} : job'[k] = job[k]
  <2>1. [ws |-> a.ws, kind |-> a.kind, run |-> r, answer |-> b] \in Requests
    BY <1>1 DEF Requests
  <2> QED
    BY <1>1, <1>4, <2>1, JobStatesAre DEF New, JobsTypeOK
<1>5. job[a.job].run \notin Stages
  BY <1>1 DEF NoJob, Stages
<1>6. ASSUME NEW b \in Answers, New(a, "refused", b), UNCHANGED guards
      PROVE  JobsTypeOK' /\ GuardsMatchRuns'
  <2>1. "refused" \in RunStates /\ "refused" \notin Stages
    BY DEF RunStates, Stages
  <2>2. SameRuns
    BY <1>4, <1>5, <1>6, <2>1 DEF SameRuns
  <2> QED
    BY <1>2, <1>3, <1>4, <1>6, <2>1, <2>2, GuardsKept DEF JobsTypeOK, guards
<1>7. CASE Refused(a)
  <2>1. Refusal(a.ws) \in Answers
    BY <1>7 DEF Refusal, Refused, Answers, Refusals
  <2> QED
    BY <1>2, <1>6, <1>7, <2>1 DEF Refused, guards
<1>8. CASE CannotStart(a)
  BY <1>2, <1>6, <1>8 DEF CannotStart, Answers, Refusals, guards
<1>9. CASE Start(a)
  <2>1. PICK v \in Workspaces : v = a.ws
    BY <1>1
  <2>2. "opening" \in Stages /\ "opening" \in RunStates /\ "none" \in Answers
    BY DEF Stages, RunStates, Answers
  <2>3. /\ job' \in [Jobs -> JobStates] /\ job'[a.job].run = "opening" /\ job'[a.job].ws = v
        /\ \A k \in Jobs \ {a.job} : job'[k] = job[k]
    BY <1>4, <1>9, <2>1, <2>2 DEF Start
  <2>4. v \notin inFlight /\ ~stopping
    BY <1>9, <2>1 DEF Start, Refusal
  <2>5. Live(v) = {} /\ v \notin leaked
    BY <2>4 DEF GuardsMatchRuns, GuardsOf
  <2>6. Live(v)' = {a.job}
    BY <1>1, <2>2, <2>3, <2>5 DEF Live
  <2>7. \A w \in Workspaces \ {v} : Live(w)' = Live(w)
    BY <1>1, <1>5, <2>3 DEF Live
  <2>8. inFlight' = inFlight \cup {v}
    BY <1>9, <2>1 DEF Start
  <2>9. /\ mode = "embedded" => /\ lock' = [lock EXCEPT ![v] = "daemon"]
                                /\ work' = [work EXCEPT ![v] = @ + 1]
        /\ mode # "embedded" => UNCHANGED <<lock, work>>
    BY <1>9, <2>1 DEF Start
  <2>10. mode = "embedded" => work[v] = 0
    <3>1. GuardsOf(v)
      BY DEF GuardsMatchRuns
    <3>2. CASE mode = "embedded"
      BY <2>4, <3>1, <3>2 DEF GuardsOf
    <3> QED
      BY <3>2
  <2>11. work' \in [Workspaces -> Nat] /\ lock' \in [Workspaces -> {"free", "daemon", "cli"}]
    <3>1. CASE mode = "embedded"
      BY <3>1, <2>9 DEF JobsTypeOK
    <3>2. CASE mode # "embedded"
      BY <3>2, <2>9 DEF JobsTypeOK
    <3> QED
      BY <3>1, <3>2
  <2>12. GuardsMatchRuns'
    <3> SUFFICES ASSUME NEW w \in Workspaces PROVE GuardsOf(w)'
      BY DEF GuardsMatchRuns
    <3>1. CASE w = v
      <4>1. mode = "embedded" => work'[v] = 1 /\ lock'[v] = "daemon"
        BY <2>9, <2>10 DEF JobsTypeOK
      <4> QED
        BY <3>1, <1>2, <2>5, <2>6, <2>8, <4>1 DEF GuardsOf
    <3>2. CASE w # v
      <4>1. work'[w] = work[w] /\ lock'[w] = lock[w]
        BY <3>2, <2>9 DEF JobsTypeOK
      <4> QED
        BY <3>2, <1>2, <2>7, <2>8, <4>1 DEF GuardsMatchRuns, GuardsOf
    <3> QED
      BY <3>1, <3>2
  <2> QED
    BY <1>2, <1>3, <2>3, <2>4, <2>8, <2>11, <2>12 DEF JobsTypeOK
<1>10. stopping => UNCHANGED work
  BY DEF Asked, Refused, CannotStart, Start, Refusal, guards
<1> QED
  BY <1>2, <1>7, <1>8, <1>9, <1>10 DEF Asked

\* An onboarding that answers changes no run.
LEMMA AnswerStep ==
    ASSUME JobsTypeOK, GuardsMatchRuns, NEW j \in Jobs, OnboardAnswers(j)
    PROVE  JobsTypeOK' /\ GuardsMatchRuns' /\ UNCHANGED <<mode, stopping, torn, work>>
<1>1. job[j] \in Requests
  <2>1. job[j] # NoJob
    BY DEF OnboardAnswers, Onboards, NoJob
  <2> QED
    BY <2>1, JobStatesAre DEF JobsTypeOK
<1>2. PICK b \in Answers : job' = [job EXCEPT ![j].answer = b]
  BY DEF OnboardAnswers, Answered, Answers, Refusals
<1>3. \A e \in Requests : LET new == [e EXCEPT !.answer = b]
                          IN new \in Requests /\ new.run = e.run /\ new.ws = e.ws
  BY DEF Requests
<1>4. job' = [job EXCEPT ![j] = [job[j] EXCEPT !.answer = b]]
  BY <1>2
<1>5. job' \in [Jobs -> JobStates] /\ SameRuns
  BY <1>1, <1>3, <1>4, JobStatesAre DEF JobsTypeOK, SameRuns
<1>6. UNCHANGED <<mode, guards, stopping, torn, announced, progress, leaked>>
  BY DEF OnboardAnswers
<1> QED
  BY <1>5, <1>6, GuardsKept DEF JobsTypeOK, guards

\* The command line takes only a free lock.
LEMMA CliStep ==
    ASSUME JobsTypeOK, GuardsMatchRuns, NEW w \in Workspaces, CliLocks(w) \/ CliReleases(w)
    PROVE  JobsTypeOK' /\ GuardsMatchRuns' /\ UNCHANGED <<mode, stopping, torn, work>>
<1>1. UNCHANGED <<mode, inFlight, work, stopping, torn, announced, progress, job, leaked>>
  BY DEF CliLocks, CliReleases
<1>2. lock[w] # "daemon" /\ lock'[w] # "daemon" /\ lock' \in [Workspaces -> {"free", "daemon", "cli"}]
      /\ \A v \in Workspaces \ {w} : lock'[v] = lock[v]
  BY DEF CliLocks, CliReleases, JobsTypeOK
<1>3. \A v \in Workspaces : Live(v)' = Live(v)
  BY <1>1 DEF Live
<1>4. GuardsMatchRuns'
  BY <1>1, <1>2, <1>3 DEF GuardsMatchRuns, GuardsOf
<1> QED
  BY <1>1, <1>2, <1>4 DEF JobsTypeOK

-----------------------------------------------------------------------------
\* Once the drain has returned clean no run is left, and none can begin.
LEMMA NoRunAfterDrain ==
    ASSUME IInv, mode = "embedded", clean, down \notin {"no", "drain"}, NEW j \in Jobs
    PROVE  job[j].run \notin Stages
<1> SUFFICES ASSUME job[j].run \in Stages PROVE FALSE
  OBVIOUS
<1>1. PICK w \in Workspaces : w = job[j].ws
  BY RunsSomewhere DEF IInv
<1>2. j \in Live(w)
  BY <1>1 DEF Live
<1>3. GuardsOf(w)
  BY DEF IInv, GuardsMatchRuns
<1>4. work[w] = 1
  BY <1>2, <1>3 DEF GuardsOf
<1>5. work[w] = 0
  BY DEF IInv, DrainIsFinal, NoWork
<1> QED
  BY <1>4, <1>5

\* What a request, a run or the command line does keeps the invariant.
LEMMA JobsKeepIInv ==
    ASSUME IInv, UNCHANGED daemonVars,
           \/ \E a \in Ask : Asked(a)
           \/ \E j \in Jobs : Runs(j) \/ OnboardAnswers(j)
           \/ \E w \in Workspaces : CliLocks(w) \/ CliReleases(w)
    PROVE  IInv'
<1>1. JobsTypeOK' /\ GuardsMatchRuns' /\ UNCHANGED <<mode, stopping, torn>>
  BY AskStep, RunStep, AnswerStep, CliStep DEF IInv
<1>2. UNCHANGED <<config, down, clean>>
  BY DEF daemonVars
<1>3. mode = "embedded" /\ clean /\ down \notin {"no", "drain"} => UNCHANGED work
  <2> SUFFICES ASSUME mode = "embedded", clean, down \notin {"no", "drain"} PROVE UNCHANGED work
    OBVIOUS
  <2>1. stopping
    BY DEF IInv, DrainIsFinal
  <2>2. ASSUME NEW j \in Jobs, Runs(j) PROVE FALSE
    BY <2>2, NoRunAfterDrain
       DEF Runs, Begin, PathRefused, OpenFails, Write, RunThrows, RunDone, SnapshotDone, Stages
  <2> QED
    BY <2>1, <2>2, AskStep, AnswerStep, CliStep DEF IInv
<1> QED
  BY <1>1, <1>2, <1>3 DEF IInv, DrainIsFinal, NoTearDown, NoWork

\* Steps of the daemon that leave its jobs alone.
LEMMA UntouchedJobs ==
    ASSUME IInv, UNCHANGED <<jobVars, config>>, DrainIsFinal', clean' = clean \/ torn = {}
    PROVE  IInv'
<1>1. UNCHANGED <<mode, guards, stopping, torn, announced, progress, job, leaked, config>>
  BY DEF jobVars, guards
<1>2. SameRuns
  BY <1>1 DEF SameRuns
<1> QED
  BY <1>1, <1>2, GuardsKept DEF IInv, JobsTypeOK, NoTearDown, guards

\* Nothing is torn before the stores are closed.
LEMMA ChildrenKeepIInv ==
    ASSUME IInv, UNCHANGED <<jobVars, daemonVars>>
    PROVE  IInv'
<1>1. UNCHANGED <<mode, work, stopping, torn, down, clean, config>>
  BY DEF jobVars, daemonVars, guards
<1>2. DrainIsFinal'
  BY <1>1 DEF IInv, DrainIsFinal, NoWork
<1> QED
  BY <1>1, <1>2, UntouchedJobs

\* The steps of boot and of the maintenance timer leave the jobs and shutdown alone.
LEMMA BootKeepsIInv ==
    ASSUME IInv, Boots \/ MaintenanceTick \/ PassEnds
    PROVE  IInv'
<1>1. UNCHANGED <<jobVars, config, down, clean>>
  BY DEF Boots, MaintenanceTick, PassEnds, UseRunning, StartSidecar, LoreReady, BootFails,
         BootGivesUp, Listen, BootTo
<1>2. UNCHANGED <<mode, work, stopping, torn>>
  BY <1>1 DEF jobVars, guards
<1>3. DrainIsFinal'
  BY <1>1, <1>2 DEF IInv, DrainIsFinal, NoWork
<1> QED
  BY <1>1, <1>3, UntouchedJobs

\* The signal forbids new runs; no store is closed yet.
LEMMA SignalKeepsIInv ==
    ASSUME IInv, Signal
    PROVE  IInv'
<1>1. UNCHANGED <<mode, guards, torn, announced, progress, job, leaked, config, clean>>
      /\ stopping' = TRUE /\ down = "no" /\ down' = "drain"
  BY DEF Signal, DownTo
<1>2. SameRuns
  BY <1>1 DEF SameRuns
<1>3. torn = {} /\ DrainIsFinal'
  BY <1>1 DEF IInv, DrainIsFinal
<1> QED
  BY <1>1, <1>2, <1>3, GuardsKept DEF IInv, JobsTypeOK, NoTearDown, guards

\* A step of shutdown: what the drain returned decides what may be torn.
LEMMA ShutdownKeepsIInv ==
    ASSUME IInv, ShutsDown
    PROVE  IInv'
<1>1. CASE Drained
  <2>1. UNCHANGED <<jobVars, config>> /\ down = "drain" /\ down' = "flush" /\ clean' = NoWork
    BY <1>1 DEF Drained, DownTo, SameJobs
  <2>2. UNCHANGED <<mode, work, stopping, torn>>
    BY <2>1 DEF jobVars, guards
  <2>3. torn = {} /\ (clean' => NoWork')
    BY <2>1, <2>2 DEF IInv, DrainIsFinal, NoWork
  <2>4. DrainIsFinal'
    BY <2>1, <2>2, <2>3 DEF IInv, DrainIsFinal
  <2> QED
    BY <2>1, <2>3, <2>4, UntouchedJobs
<1>2. CASE Flushed \/ ServerClosed
  <2>1. UNCHANGED <<jobVars, config, clean>> /\ down \in {"flush", "handle"}
        /\ down' \in {"handle", "stores"}
    BY <1>2 DEF Flushed, ServerClosed, DownTo, SameJobs
  <2>2. UNCHANGED <<mode, work, stopping, torn>>
    BY <2>1 DEF jobVars, guards
  <2>3. DrainIsFinal'
    BY <2>1, <2>2 DEF IInv, DrainIsFinal, NoWork
  <2> QED
    BY <2>1, <2>3, UntouchedJobs
<1>3. CASE StoresClosed
  <2>1. UNCHANGED <<mode, guards, stopping, announced, progress, job, leaked, config, clean>>
        /\ down = "stores" /\ down' = "sidecar"
    BY <1>3 DEF StoresClosed, DownTo
  <2>2. torn' \subseteq {j \in Jobs : job[j].run \in Stages} /\ (torn' # {} => mode = "embedded")
    BY <1>3 DEF StoresClosed, Stages
  <2>3. NoTearDown'
    <3> SUFFICES ASSUME torn' # {}, clean PROVE FALSE
      BY <2>1 DEF NoTearDown
    <3>1. PICK j \in Jobs : job[j].run \in Stages
      BY <2>2
    <3> QED
      BY <2>1, <2>2, <3>1, NoRunAfterDrain
  <2>4. DrainIsFinal'
    BY <2>1, <2>2 DEF IInv, DrainIsFinal, NoWork, guards
  <2>5. SameRuns
    BY <2>1 DEF SameRuns
  <2> QED
    BY <2>1, <2>2, <2>3, <2>4, <2>5, GuardsKept DEF IInv, JobsTypeOK, guards
<1>4. CASE CloseSidecar
  BY <1>4, ChildrenKeepIInv DEF CloseSidecar, SameJobs
<1>5. CASE Exit
  <2>1. UNCHANGED <<jobVars, config, down, clean>>
    BY <1>5 DEF Exit, SameJobs
  <2>2. UNCHANGED <<mode, work, stopping, torn>>
    BY <2>1 DEF jobVars, guards
  <2>3. DrainIsFinal'
    BY <2>1, <2>2 DEF IInv, DrainIsFinal, NoWork
  <2> QED
    BY <2>1, <2>3, UntouchedJobs
<1> QED
  BY <1>1, <1>2, <1>3, <1>4, <1>5 DEF ShutsDown

\* A new daemon has no runs and no guards.
LEMMA InitIInv == Init => IInv
<1> SUFFICES ASSUME Init PROVE IInv
  OBVIOUS
<1>1. JobsTypeOK
  BY DEF Init, JobsInit, JobsTypeOK, JobStates
<1>2. \A w \in Workspaces : Live(w) = {}
  BY DEF Init, JobsInit, Live, NoJob, Stages
<1>3. GuardsMatchRuns
  BY <1>2 DEF Init, JobsInit, GuardsMatchRuns, GuardsOf
<1>4. DrainIsFinal /\ NoTearDown /\ config \in Configs
  BY DEF Init, JobsInit, DrainIsFinal, NoTearDown
<1> QED
  BY <1>1, <1>3, <1>4 DEF IInv

\* Every step of the daemon, its jobs and its sidecar keeps guards and runs matched.
LEMMA StepIInv == IInv /\ [Next]_vars => IInv'
<1> SUFFICES ASSUME IInv, [Next]_vars PROVE IInv'
  OBVIOUS
<1>1. CASE Boots \/ MaintenanceTick \/ PassEnds
  BY <1>1, BootKeepsIInv
<1>2. CASE Signal
  BY <1>2, SignalKeepsIInv
<1>3. CASE ShutsDown
  BY <1>3, ShutdownKeepsIInv
<1>4. ASSUME UNCHANGED <<sidecarVars, daemonVars>>,
             \/ \E a \in config.asks : Asked(a)
             \/ \E j \in Jobs : Runs(j) \/ OnboardAnswers(j)
             \/ \E w \in Workspaces : CliLocks(w) \/ CliReleases(w)
      PROVE  IInv'
  <2>1. config.asks \subseteq Ask
    BY ConfigsAssumption DEF IInv
  <2> QED
    BY <1>4, <2>1, JobsKeepIInv
<1>5. CASE UNCHANGED <<jobVars, daemonVars>>
  BY <1>5, ChildrenKeepIInv
<1>6. CASE UNCHANGED vars
  BY <1>5, <1>6 DEF vars
<1> QED
  BY <1>1, <1>2, <1>3, <1>4, <1>5, <1>6 DEF Next

\* The inductive invariant holds in every reachable state.
THEOREM InductiveInvariant == Spec => []IInv
  BY InitIInv, StepIInv, PTL DEF Spec

\* The in-flight mark, the writer lock and the drain count of a workspace are held
\* exactly as long as its one run, whatever fails; the onboarding whose borrow throws
\* is the exception.
THEOREM GuardsTheorem == Spec => []GuardsMatchRuns
<1>1. IInv => GuardsMatchRuns
  BY DEF IInv
<1> QED
  BY <1>1, InductiveInvariant, PTL

\* Shutdown closes a store under a run only when its drain ran out of time.
THEOREM NoTearDownTheorem == Spec => []NoTearDown
<1>1. IInv => NoTearDown
  BY DEF IInv
<1> QED
  BY <1>1, InductiveInvariant, PTL

-----------------------------------------------------------------------------
(* index_status. *)

Active == {"parsing", "writing"}
Working(w) == {j \in Jobs : job[j].ws = w /\ job[j].run \in Active}

\* Progress stays honest while the runs of a workspace are as they were.
LEMMA HonestKept ==
    ASSUME HonestProgress, UNCHANGED progress, \A w \in Workspaces : Working(w)' = Working(w)
    PROVE  HonestProgress'
<1>1. \A w \in Workspaces : Indexing(w) <=> Working(w) # {}
  BY DEF HonestProgress, Live, Working, Stages, Active
<1>2. \A w \in Workspaces : Indexing(w)' <=> Working(w)' # {}
  BY <1>1 DEF Indexing
<1> QED
  BY <1>2 DEF HonestProgress, Live, Working, Stages, Active

\* What a step of a run publishes is what it goes on to.
Tells(j, r) ==
    \/ progress' = progress /\ job[j].run \notin Active /\ r \notin Active
    \/ \E phase \in {"parsing", "writing", "done", "error"} :
          progress' = [progress EXCEPT ![job[j].ws] = phase] /\ (phase \in Active <=> r \in Active)

\* A step of a run moves it, and tells its progress.
LEMMA RunTells ==
    ASSUME JobsTypeOK, NEW j \in Jobs, Runs(j)
    PROVE  job[j].run \in Stages /\ \E r \in RunStates : Moved(j, r) /\ Tells(j, r)
<1>1. job[j].run \in Stages
  BY DEF Runs, Begin, PathRefused, OpenFails, Write, RunThrows, RunDone, SnapshotDone, Stages
<1>2. job[j] \in Requests /\ job[j].ws \in Workspaces
  BY <1>1, RunsSomewhere
<1>3. ASSUME Finish(j), Tells(j, "snapshot"), Tells(j, "returned")
      PROVE  \E r \in RunStates : Moved(j, r) /\ Tells(j, r)
  <2>1. CASE mode = "embedded"
    BY <1>2, <1>3, <2>1, MovedAlone DEF Finish, RunStates, Stages
  <2>2. CASE mode # "embedded"
    BY <1>2, <1>3, <2>2, EndedMoves DEF Finish, RunStates
  <2> QED
    BY <2>1, <2>2
<1>4. ASSUME NEW how \in {"returned", "threw"}, Ended(j, how), Tells(j, how)
      PROVE  \E r \in RunStates : Moved(j, r) /\ Tells(j, r)
  BY <1>2, <1>4, EndedMoves DEF RunStates
<1>5. ASSUME NEW r \in Active, job' = [job EXCEPT ![j].run = r],
             progress' = [progress EXCEPT ![job[j].ws] = r]
      PROVE  \E q \in RunStates : Moved(j, q) /\ Tells(j, q)
  BY <1>2, <1>5, MovedAlone DEF RunStates, Stages, Active, Tells
<1>6. CASE Begin(j) \/ Write(j)
  BY <1>1, <1>5, <1>6 DEF Begin, Write, Active
<1>7. CASE PathRefused(j)
  BY <1>1, <1>3, <1>7 DEF PathRefused, Tells, Active
<1>8. CASE OpenFails(j)
  <2>1. Tells(j, "threw")
    BY <1>8 DEF OpenFails, Tells, Active
  <2>2. CASE job[j].kind \in Onboards /\ mode = "embedded"
    BY <1>1, <1>2, <1>8, <2>1, <2>2, MovedAndAnswered DEF OpenFails, RunStates, Answers, Refusals
  <2>3. CASE ~(job[j].kind \in Onboards /\ mode = "embedded")
    BY <1>1, <1>4, <1>8, <2>1, <2>3 DEF OpenFails
  <2> QED
    BY <2>2, <2>3
<1>9. CASE RunThrows(j)
  BY <1>1, <1>4, <1>9 DEF RunThrows, Tells, Active
<1>10. CASE RunDone(j)
  BY <1>1, <1>3, <1>10 DEF RunDone, Tells, Active
<1>11. CASE SnapshotDone(j)
  BY <1>1, <1>4, <1>11 DEF SnapshotDone, Tells, Active
<1> QED
  BY <1>1, <1>6, <1>7, <1>8, <1>9, <1>10, <1>11 DEF Runs

\* The run is the only one of its workspace, so that its progress is the workspace's.
LEMMA RunIsHonest ==
    ASSUME JobsTypeOK, GuardsMatchRuns, HonestProgress, NEW j \in Jobs, Runs(j)
    PROVE  HonestProgress'
<1>1. PICK r \in RunStates : job[j].run \in Stages /\ Moved(j, r) /\ Tells(j, r)
  BY RunTells
<1>2. PICK v \in Workspaces : v = job[j].ws
  BY <1>1, RunsSomewhere
<1>3. CASE progress' = progress /\ job[j].run \notin Active /\ r \notin Active
  <2>1. \A w \in Workspaces : Working(w)' = Working(w)
    BY <1>1, <1>3 DEF Working, Moved
  <2> QED
    BY <1>3, <2>1, HonestKept
<1>4. ASSUME NEW phase \in {"parsing", "writing", "done", "error"},
             progress' = [progress EXCEPT ![job[j].ws] = phase], phase \in Active <=> r \in Active
      PROVE  HonestProgress'
  <2>1. Indexing(v)' <=> r \in Active
    BY <1>2, <1>4 DEF Indexing, Active, JobsTypeOK
  <2>2. \A k \in Jobs : job[k].run \in Stages /\ job[k].ws = v => k = j
    BY <1>1, <1>2 DEF GuardsMatchRuns, GuardsOf, Live
  <2>3. Working(v)' = IF r \in Active THEN {j} ELSE {}
    BY <1>1, <1>2, <2>2 DEF Working, Moved, Active, Stages
  <2>4. ASSUME NEW w \in Workspaces, w # v PROVE Indexing(w)' <=> Working(w)' # {}
    <3>1. Working(w)' = Working(w) /\ (Indexing(w)' <=> Indexing(w))
      BY <1>1, <1>2, <1>4, <2>4 DEF Working, Moved, Indexing, JobsTypeOK
    <3>2. Indexing(w) <=> Working(w) # {}
      BY DEF HonestProgress, Live, Working, Stages, Active
    <3> QED
      BY <3>1, <3>2
  <2>5. \A w \in Workspaces : Indexing(w)' <=> Working(w)' # {}
    BY <2>1, <2>3, <2>4
  <2> QED
    BY <2>5 DEF HonestProgress, Live, Working, Stages, Active
<1> QED
  BY <1>1, <1>3, <1>4 DEF Tells

\* A request and its answer leave what goes on alone.
LEMMA AskIsHonest ==
    ASSUME JobsTypeOK, HonestProgress,
           \/ \E a \in Ask : Asked(a)
           \/ \E j \in Jobs : OnboardAnswers(j)
           \/ \E w \in Workspaces : CliLocks(w) \/ CliReleases(w)
    PROVE  HonestProgress'
<1>1. CASE \E a \in Ask : Asked(a)
  <2>1. PICK a \in Ask : Asked(a)
    BY <1>1
  <2>2. /\ UNCHANGED progress /\ a.job \in Jobs /\ job[a.job].run \notin Active
        /\ \E r \in RunStates \ Active, b \in Answers : New(a, r, b)
    BY <2>1 DEF Ask, Asked, Refused, CannotStart, Start, NoJob, Active, RunStates, Stages,
                Answers, Refusals, Refusal
  <2>3. /\ job'[a.job].run \notin Active
        /\ \A k \in Jobs \ {a.job} : job'[k] = job[k]
    BY <2>2 DEF New, JobsTypeOK
  <2>4. \A w \in Workspaces : Working(w)' = Working(w)
    BY <2>2, <2>3 DEF Working
  <2> QED
    BY <2>2, <2>4, HonestKept
<1>2. CASE \E j \in Jobs : OnboardAnswers(j)
  <2>1. UNCHANGED progress
        /\ \E j \in Jobs, b \in Answers : job' = [job EXCEPT ![j].answer = b] /\ job[j] # NoJob
    BY <1>2 DEF OnboardAnswers, Answered, Answers, Refusals, Onboards, NoJob
  <2>2. PICK j \in Jobs, b \in Answers : job' = [job EXCEPT ![j].answer = b] /\ job[j] # NoJob
    BY <2>1
  <2>3. job[j] \in Requests
    BY <2>2, JobStatesAre DEF JobsTypeOK
  <2>4. job'[j].run = job[j].run /\ job'[j].ws = job[j].ws
        /\ \A k \in Jobs \ {j} : job'[k] = job[k]
    <3>1. \A e \in Requests : LET new == [e EXCEPT !.answer = b]
                              IN new.run = e.run /\ new.ws = e.ws
      BY DEF Requests
    <3>2. job' = [job EXCEPT ![j] = [job[j] EXCEPT !.answer = b]]
      BY <2>2
    <3> QED
      BY <2>3, <3>1, <3>2 DEF JobsTypeOK
  <2>5. \A w \in Workspaces : Working(w)' = Working(w)
    BY <2>4 DEF Working
  <2> QED
    BY <2>1, <2>5, HonestKept
<1>3. CASE \E w \in Workspaces : CliLocks(w) \/ CliReleases(w)
  <2>1. UNCHANGED <<progress, job>>
    BY <1>3 DEF CliLocks, CliReleases
  <2>2. \A w \in Workspaces : Working(w)' = Working(w)
    BY <2>1 DEF Working
  <2> QED
    BY <2>1, <2>2, HonestKept
<1> QED
  BY <1>1, <1>2, <1>3

-----------------------------------------------------------------------------
(* The sidecar, between boot and shutdown. *)

Nobody == \A p \in Pids : proc[p] = "none"

\* What the sidecar does once it was started, and what its processes do.
SideStep ==
    \/ Supervises
    \/ \E p \in Pids : Reap(p) \/ Die(p)
    \/ \E c \in Closers : Close(c) \/ PollEnds(c)

\* Every step of the sidecar keeps its invariant, whoever of the daemon asked for it.
LEMMA SideStepKeeps == SideInv /\ SideStep => SideInv'
  BY DieKeeps, TickKeeps, ReapKeeps, UnhealthyKeeps, WaitEndsKeeps, CloseKeeps, PollEndsKeeps
     DEF SideStep, Supervises

\* Before the first spawn there is no child, no process and no watch.
LEMMA NobodyIs ==
    ASSUME SideInv
    PROVE  /\ NextPid = 1 <=> Nobody
           /\ Nobody => child = NoPid /\ watch = "idle"
<1>1. PICK n \in 0 .. MaxRestarts + 1 : Numbers(n)
  BY DEF SideInv, Numbered
<1>2. Spawned(n) /\ NextPid = n + 1
  BY <1>1, NextPidIs DEF Numbers
<1>3. n = 0 <=> Nobody
  BY <1>2, PidsAre DEF Spawned, Nobody
<1>4. n = 0 => child = NoPid /\ watch = "idle"
  BY <1>1 DEF Numbers
<1>5. n + 1 = 1 <=> n = 0
  OBVIOUS
<1> QED
  BY <1>2, <1>3, <1>4, <1>5

\* Only boot's first spawn brings Lore into being.
LEMMA NobodyComes ==
    ASSUME SideInv, Nobody, SideStep
    PROVE  Nobody'
<1>1. child = NoPid /\ watch = "idle"
  BY NobodyIs
<1>2. ASSUME NEW c \in Closers, Close(c) PROVE UNCHANGED proc
  BY <1>1, <1>2 DEF Close
<1>3. ASSUME NEW c \in Closers, PollEnds(c) PROVE UNCHANGED proc
  <2>1. target \in Pids
    BY <1>3 DEF PollEnds, SideInv, Ending
  <2> QED
    BY <1>3, <2>1 DEF PollEnds, Signalled, Nobody
<1>4. ASSUME NEW p \in Pids, Reap(p) \/ Die(p) PROVE FALSE
  BY <1>4 DEF Reap, Die, Nobody
<1>5. ASSUME Supervises PROVE UNCHANGED proc
  BY <1>1, <1>5 DEF Supervises, Tick, Healthy, Unhealthy, WaitEnds
<1> QED
  BY <1>2, <1>3, <1>4, <1>5 DEF SideStep, Nobody

\* A caller of close() never becomes one that has not called.
LEMMA CalledStays ==
    ASSUME SideInv, SideStep, NEW c \in Closers, closer[c] # "no"
    PROVE  closer'[c] # "no"
<1>1. closer \in [Closers -> {"no", "polling", "done"}]
  BY DEF SideInv, SidecarTypeOK
<1> QED
  BY <1>1 DEF SideStep, Supervises, Tick, Healthy, Unhealthy, WaitEnds, Reap, Die, Close, PollEnds

\* Boot and the processes it has started.
BootKnows ==
    /\ boot = "probe" => Nobody
    /\ boot = "closing" => closer["boot"] # "no" \/ Nobody

\* A daemon listens, or sweeps, only when its boot is over.
UpOnly ==
    /\ listening \/ ticking => boot = "up"
    /\ down # "no" /\ ~early => boot = "up"

DaemonTypes ==
    /\ boot \in {"probe", "ready", "listen", "closing", "up"}
    /\ down \in {"no", "drain", "flush", "handle", "stores", "sidecar"}
    /\ {listening, ticking, sweeping, exited, clean, early} \subseteq BOOLEAN

LifeInv == DaemonTypes /\ UpOnly /\ QuietShutdown /\ SideInv /\ BootKnows /\ NoOrphan

\* Where close() returned and none left early, every process is dead or about to be.
LEMMA ToldIsGone ==
    ASSUME SideInv, NEW c \in Closers, closer[c] = "done", ~hasty
    PROVE  ~ \E p \in Pids : Survives(p)
<1>1. closed
  BY DEF SideInv, Supervised
<1> QED
  BY <1>1 DEF SideInv, Ending

\* No process survives where there was none.
LEMMA NobodySurvives == Nobody => ~ \E p \in Pids : Survives(p)
  BY DEF Nobody, Survives

\* The steps of the sidecar before the daemon has exited, and of its processes then.
LEMMA SideKeepsLife ==
    ASSUME LifeInv, SideStep, UNCHANGED daemonVars, exited => \E p \in Pids : Die(p)
    PROVE  LifeInv'
<1>1. UNCHANGED <<boot, down, listening, ticking, sweeping, exited, clean, early>>
  BY DEF daemonVars
<1>2. DaemonTypes' /\ UpOnly' /\ QuietShutdown'
  BY <1>1 DEF LifeInv, DaemonTypes, UpOnly, QuietShutdown
<1>3. SideInv'
  BY SideStepKeeps DEF LifeInv
<1>4. BootKnows'
  BY <1>1, NobodyComes, CalledStays, ConfigsAssumption DEF LifeInv, BootKnows
<1>5. NoOrphan'
  <2>1. CASE exited
    <3>1. PICK p \in Pids : Die(p)
      BY <2>1
    <3>2. \A q \in Pids : proc'[q] \in {"up", "termed"} => proc[q] \in {"up", "termed"}
      BY <3>1 DEF Die, LifeInv, SideInv, SidecarTypeOK
    <3> QED
      BY <1>1, <3>1, <3>2 DEF Die, LifeInv, NoOrphan, Survives
  <2>2. CASE ~exited
    BY <1>1, <2>2 DEF NoOrphan
  <2> QED
    BY <2>1, <2>2
<1> QED
  BY <1>2, <1>3, <1>4, <1>5 DEF LifeInv

\* A step that leaves the sidecar alone keeps its invariant.
LEMMA SideUntouched ==
    ASSUME SideInv, UNCHANGED sidecarVars
    PROVE  SideInv' /\ UNCHANGED <<proc, closer, hasty>> /\ (Nobody' <=> Nobody)
<1>1. UNCHANGED <<proc, killed, deliberate, child, restarts, armed, watch, old, target,
                  failed, closed, closer, hasty>>
  BY DEF sidecarVars
<1>2. SideInv'
  BY <1>1 DEF SideInv, SidecarTypeOK, Numbered, Numbers, Spawned, Ending, Supervised, Bounded,
              NobodyLeft, Survives, Undead
<1> QED
  BY <1>1, <1>2 DEF Nobody

\* Steps that leave the sidecar, boot and shutdown alone.
LEMMA JobsKeepLife ==
    ASSUME LifeInv, UNCHANGED <<sidecarVars, boot, down, listening, ticking, exited, early, clean>>,
           sweeping' \in BOOLEAN
    PROVE  LifeInv'
<1>1. UNCHANGED <<sidecarVars, boot, down, listening, ticking, exited, early, clean>>
  OBVIOUS
<1>2. DaemonTypes'
  BY <1>1 DEF LifeInv, DaemonTypes
<1>3. UpOnly' /\ QuietShutdown'
  BY <1>1 DEF LifeInv, UpOnly, QuietShutdown
<1>4. SideInv' /\ UNCHANGED <<proc, closer, hasty>> /\ (Nobody' <=> Nobody)
  BY <1>1, SideUntouched DEF LifeInv
<1>5. BootKnows' /\ NoOrphan'
  BY <1>1, <1>4 DEF LifeInv, BootKnows, NoOrphan, Survives
<1> QED
  BY <1>2, <1>3, <1>4, <1>5 DEF LifeInv

\* Boot spawns Lore at most once, and closes it before it gives up.
LEMMA BootKeepsLife ==
    ASSUME LifeInv, ~exited, Boots
    PROVE  LifeInv'
<1>1. /\ UNCHANGED <<down, sweeping, clean, early>>
      /\ boot # "up" /\ boot' \in {"probe", "ready", "listen", "closing", "up"}
      /\ exited' \in BOOLEAN /\ listening' \in BOOLEAN /\ ticking' \in BOOLEAN
      /\ UNCHANGED <<listening, ticking>> \/ boot' = "up"
      /\ boot' = "probe" => UNCHANGED <<boot, sidecarVars>>
      BY DEF LifeInv, DaemonTypes, Boots, UseRunning, StartSidecar, LoreReady, BootFails,
             BootGivesUp, Listen, BootTo
<1>2. DaemonTypes'
  BY <1>1 DEF LifeInv, DaemonTypes
<1>3. ~listening /\ ~ticking /\ (down # "no" => early)
  BY <1>1 DEF LifeInv, UpOnly
<1>4. UpOnly' /\ QuietShutdown'
  BY <1>1, <1>3 DEF UpOnly, QuietShutdown
<1>5. CASE UseRunning \/ LoreReady \/ Listen
  <2>1. UNCHANGED <<sidecarVars, exited>> /\ boot' \in {"listen", "up"}
    BY <1>5 DEF UseRunning, LoreReady, Listen, BootTo
  <2>2. SideInv'
    BY <2>1, SideUntouched DEF LifeInv
  <2> QED
    BY <1>2, <1>4, <2>1, <2>2 DEF LifeInv, BootKnows, NoOrphan
<1>6. CASE StartSidecar
  <2>1. Spawn /\ boot' = "ready" /\ exited' = exited
    BY <1>6 DEF StartSidecar, BootTo
  <2> QED
    BY <1>2, <1>4, <2>1, SpawnKeeps DEF LifeInv, BootKnows, NoOrphan
<1>7. CASE BootFails
  <2>1. boot' = "closing" /\ exited' = exited
    BY <1>7 DEF BootFails, BootTo
  <2>2. CASE NextPid > 1
    <3>1. Close("boot") /\ "boot" \in Closers
      BY <1>7, <2>2, ConfigsAssumption DEF BootFails
    <3>2. SideInv'
      BY <3>1, CloseKeeps DEF LifeInv
    <3>3. closer'["boot"] # "no"
      BY <3>1 DEF Close, LifeInv, SideInv, SidecarTypeOK
    <3> QED
      BY <1>2, <1>4, <2>1, <3>2, <3>3 DEF LifeInv, BootKnows, NoOrphan
  <2>3. CASE ~(NextPid > 1)
    <3>1. UNCHANGED sidecarVars
      BY <1>7, <2>3 DEF BootFails
    <3>2. PICK n \in 0 .. MaxRestarts + 1 : NextPid = n + 1
      BY NextPidIs DEF LifeInv, SideInv, Numbered, Numbers
    <3>3. NextPid = 1
      BY <2>3, <3>2
    <3>4. Nobody /\ Nobody' /\ SideInv'
      BY <3>1, <3>3, NobodyIs, SideUntouched DEF LifeInv
    <3> QED
      BY <1>2, <1>4, <2>1, <3>4 DEF LifeInv, BootKnows, NoOrphan
  <2> QED
    BY <2>2, <2>3
<1>8. CASE BootGivesUp
  <2>1. /\ UNCHANGED <<sidecarVars, boot>>
        /\ boot = "probe" \/ (boot = "closing" /\ closer["boot"] # "polling")
    BY <1>8 DEF BootGivesUp
  <2>2. SideInv' /\ UNCHANGED <<proc, closer, hasty>> /\ (Nobody' <=> Nobody)
    BY <2>1, SideUntouched DEF LifeInv
  <2>3. ~hasty => ~ \E p \in Pids : Survives(p)
    <3>1. CASE Nobody
      BY <3>1, NobodySurvives
    <3>2. CASE ~Nobody
      <4>1. closer["boot"] = "done" /\ "boot" \in Closers
        BY <2>1, <3>2, ConfigsAssumption DEF LifeInv, BootKnows, SideInv, SidecarTypeOK
      <4> QED
        BY <4>1, ToldIsGone DEF LifeInv
    <3> QED
      BY <3>1, <3>2
  <2>4. NoOrphan' /\ BootKnows'
    BY <2>1, <2>2, <2>3 DEF LifeInv, NoOrphan, BootKnows, Survives
  <2> QED
    BY <1>2, <1>4, <2>2, <2>4 DEF LifeInv
<1> QED
  BY <1>5, <1>6, <1>7, <1>8 DEF Boots

\* Shutdown: the timer is cleared with the signal, the server stops before the stores
\* close, and the process ends when its close() was answered.
LEMMA ShutdownKeepsLife ==
    ASSUME LifeInv, ~exited, Signal \/ ShutsDown
    PROVE  LifeInv'
<1>1. CASE Signal
  <2>1. /\ UNCHANGED <<sidecarVars, boot, sweeping, exited, listening, clean>> /\ down = "no"
        /\ down' = "drain" /\ ticking' = FALSE /\ early' = ~listening
    BY <1>1 DEF Signal, DownTo
  <2>2. DaemonTypes'
    BY <2>1 DEF LifeInv, DaemonTypes
  <2>3. UpOnly' /\ QuietShutdown'
    BY <2>1 DEF LifeInv, UpOnly, QuietShutdown
  <2>4. SideInv' /\ UNCHANGED <<proc, closer, hasty>> /\ (Nobody' <=> Nobody)
    BY <2>1, SideUntouched DEF LifeInv
  <2> QED
    BY <2>1, <2>2, <2>3, <2>4 DEF LifeInv, BootKnows, NoOrphan
<1>2. CASE Drained \/ Flushed \/ ServerClosed \/ StoresClosed
  <2>1. /\ UNCHANGED <<sidecarVars, boot, sweeping, exited, ticking, early>> /\ down # "no"
        /\ down' \in {"flush", "handle", "stores", "sidecar"}
        /\ UNCHANGED listening \/ listening' = FALSE
        /\ down' \in {"stores", "sidecar"} => ~listening' \/ (down = "stores" /\ UNCHANGED listening)
    BY <1>2 DEF Drained, Flushed, ServerClosed, StoresClosed, DownTo
  <2>2. clean' \in BOOLEAN
    BY <1>2 DEF LifeInv, DaemonTypes, Drained, Flushed, ServerClosed, StoresClosed, NoWork
  <2>3. DaemonTypes'
    BY <2>1, <2>2 DEF LifeInv, DaemonTypes
  <2>4. UpOnly' /\ QuietShutdown'
    BY <2>1 DEF LifeInv, UpOnly, QuietShutdown
  <2>5. SideInv' /\ UNCHANGED <<proc, closer, hasty>> /\ (Nobody' <=> Nobody)
    BY <2>1, SideUntouched DEF LifeInv
  <2> QED
    BY <2>1, <2>3, <2>4, <2>5 DEF LifeInv, BootKnows, NoOrphan
<1>3. CASE CloseSidecar
  <2>1. SideStep /\ UNCHANGED daemonVars
    BY <1>3, ConfigsAssumption DEF CloseSidecar, SideStep
  <2> QED
    BY <2>1, SideKeepsLife
<1>4. CASE Exit
  <2>1. /\ UNCHANGED <<sidecarVars, boot, down, listening, ticking, sweeping, clean, early>>
        /\ exited' = TRUE /\ (closer["shutdown"] = "done" \/ NextPid = 1)
    BY <1>4 DEF Exit
  <2>2. SideInv' /\ UNCHANGED <<proc, closer, hasty>> /\ (Nobody' <=> Nobody)
    BY <2>1, SideUntouched DEF LifeInv
  <2>3. ~hasty => ~ \E p \in Pids : Survives(p)
    BY <2>1, NobodyIs, NobodySurvives, ToldIsGone, ConfigsAssumption DEF LifeInv
  <2>4. NoOrphan' /\ BootKnows'
    BY <2>1, <2>2, <2>3 DEF LifeInv, NoOrphan, BootKnows, Survives
  <2>5. DaemonTypes' /\ UpOnly' /\ QuietShutdown'
    BY <2>1 DEF LifeInv, DaemonTypes, UpOnly, QuietShutdown
  <2> QED
    BY <2>2, <2>4, <2>5 DEF LifeInv
<1> QED
  BY <1>1, <1>2, <1>3, <1>4 DEF ShutsDown

\* A new daemon has not begun boot or shutdown, and tells of no run.
LEMMA InitLife == Init => LifeInv /\ HonestProgress
<1> SUFFICES ASSUME Init PROVE LifeInv /\ HonestProgress
  OBVIOUS
<1>1. DaemonTypes
  BY DEF Init, DaemonTypes
<1>2. UpOnly /\ QuietShutdown /\ NoOrphan
  BY DEF Init, UpOnly, QuietShutdown, NoOrphan
<1>3. SideInv
  BY SideInit DEF Init
<1>4. BootKnows
  BY DEF Init, SidecarInit, BootKnows, Nobody
<1>5. HonestProgress
  BY DEF Init, JobsInit, HonestProgress, Indexing, Live, NoJob, Stages
<1> QED
  BY <1>1, <1>2, <1>3, <1>4, <1>5 DEF LifeInv

\* Every step keeps what boot and shutdown know of each other and of the sidecar.
LEMMA StepLife ==
    ASSUME LifeInv, [Next]_vars
    PROVE  LifeInv'
<1>1. CASE ~exited /\ (Boots \/ Signal \/ ShutsDown)
  BY <1>1, BootKeepsLife, ShutdownKeepsLife
<1>2. CASE MaintenanceTick \/ PassEnds
  <2>1. UNCHANGED <<sidecarVars, boot, down, listening, ticking, exited, early, clean>>
        /\ sweeping' \in BOOLEAN
    BY <1>2 DEF MaintenanceTick, PassEnds
  <2> QED
    BY <2>1, JobsKeepLife
<1>3. CASE UNCHANGED <<sidecarVars, daemonVars>>
  <2>1. UNCHANGED <<sidecarVars, boot, down, listening, ticking, exited, early, clean>>
        /\ sweeping' \in BOOLEAN
    BY <1>3 DEF daemonVars, LifeInv, DaemonTypes
  <2> QED
    BY <2>1, JobsKeepLife
<1>4. CASE ~exited /\ UNCHANGED <<jobVars, daemonVars>>
           /\ (Supervises \/ (\E p \in Pids : Reap(p)) \/ \E c \in Closers : PollEnds(c))
  BY <1>4, SideKeepsLife DEF SideStep
<1>5. CASE UNCHANGED <<jobVars, daemonVars>> /\ \E p \in Pids : Die(p)
  BY <1>5, SideKeepsLife DEF SideStep
<1>6. CASE UNCHANGED vars
  BY <1>3, <1>6 DEF vars
<1> QED
  BY <1>1, <1>2, <1>3, <1>4, <1>5, <1>6 DEF Next

\* Every step keeps index_status true to the runs.
LEMMA StepHonest ==
    ASSUME IInv, HonestProgress, [Next]_vars
    PROVE  HonestProgress'
<1>1. ASSUME UNCHANGED <<job, progress>> PROVE HonestProgress'
  <2>1. \A w \in Workspaces : Working(w)' = Working(w)
    BY <1>1 DEF Working
  <2> QED
    BY <1>1, <2>1, HonestKept
<1>2. CASE Boots \/ MaintenanceTick \/ PassEnds \/ Signal \/ ShutsDown
  BY <1>1, <1>2 DEF jobVars, Boots, UseRunning, StartSidecar, LoreReady, BootFails, BootGivesUp,
     Listen, BootTo, MaintenanceTick, PassEnds, Signal, ShutsDown, Drained, Flushed, ServerClosed,
     StoresClosed, CloseSidecar, Exit, SameJobs
<1>3. CASE \/ \E a \in config.asks : Asked(a)
           \/ \E j \in Jobs : Runs(j) \/ OnboardAnswers(j)
           \/ \E w \in Workspaces : CliLocks(w) \/ CliReleases(w)
  <2>1. config.asks \subseteq Ask
    BY ConfigsAssumption DEF IInv
  <2> QED
    BY <1>3, <2>1, RunIsHonest, AskIsHonest DEF IInv
<1>4. CASE UNCHANGED jobVars
  BY <1>1, <1>4 DEF jobVars
<1> QED
  BY <1>2, <1>3, <1>4 DEF Next, vars

\* Each of the invariants is inductive, with the one before it.
THEOREM LifeTheorem == Spec => [](LifeInv /\ HonestProgress)
<1>1. IInv /\ LifeInv /\ HonestProgress /\ [Next]_vars => (LifeInv /\ HonestProgress)'
  BY StepLife, StepHonest
<1> QED
  BY <1>1, InitLife, InductiveInvariant, PTL DEF Spec

\* The types; index_status tells what goes on, however a run ends; after a signal the
\* daemon that was up sweeps nothing and accepts nothing once its stores close.
THEOREM DaemonTheorem == Spec => []DaemonOK
<1>1. IInv /\ LifeInv /\ HonestProgress => DaemonOK
  BY DEF IInv, LifeInv, DaemonTypes, SideInv, DaemonOK, TypeOK
<1> QED
  BY <1>1, InductiveInvariant, LifeTheorem, PTL

\* However crashes, probes, refused respawns and two callers of close() interleave: one
\* process of Lore has the port, and a daemon that exits leaves none behind unless a
\* close() was answered early.
THEOREM SidecarTheorem == Spec => []SidecarOK
<1>1. LifeInv => SidecarOK
  <2> SUFFICES ASSUME LifeInv PROVE OneServer
    BY DEF LifeInv, SidecarOK
  <2> DEFINE Servers == {p \in Pids : Survives(p)}
  <2>1. \A p, q \in Servers : p = q
    BY DEF LifeInv, SideInv, Ending
  <2>2. CASE Servers = {}
    BY <2>2, FS_EmptySet DEF OneServer
  <2>3. CASE Servers # {}
    <3>1. PICK p : Servers = {p}
      BY <2>1, <2>3
    <3>2. Cardinality(Servers) = 1
      BY <3>1, FS_Singleton
    <3> QED
      BY <3>2 DEF OneServer
  <2> QED
    BY <2>2, <2>3
<1> QED
  BY <1>1, LifeTheorem, PTL
=============================================================================

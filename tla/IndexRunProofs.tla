--------------------------- MODULE IndexRunProofs ---------------------------
(***************************************************************************)
(* Proofs about IndexRun: what a resume skips is in the graph as it is on  *)
(* disk, and the nodes of what is on disk are neither deleted nor set back.*)
(***************************************************************************)
EXTENDS IndexRun, FiniteSetTheorems, TLAPS

(* Every version that was ever seen is older than the next edit's.         *)
UpTo(marks) == \A f \in Files : marks[f] <= edits + 1

Fresh ==
    /\ UpTo(disk)
    /\ \A w \in Workspaces : UpTo(nodes[w])
    /\ \A d \in Roots : UpTo(ckpt[d].marks)
    /\ \A r \in Runs : UpTo(run[r].marks) /\ UpTo(run[r].read) /\ UpTo(run[r].stat)

OneRun == \A r, q \in Runs : run[r].ws = run[q].ws /\ run[r].ws # None => r = q

(* What a mark says of a file: it is on disk as it was when it was marked. *)
Says(mark, f) == disk[f] # 0 /\ mark = disk[f] /\ f \notin lagged

(* The graph of w has f as it is on disk, with the edges a mark vouches for. *)
Good(w, f) ==
    nodes[w][f] = disk[f] /\ \A g \in Missing(w, f) : Earlier(g, f)

Vouched(marks, w) == \A f \in Files : Says(marks[f], f) => Good(w, f)

CkptVouched ==
    \A d \in Roots, w \in Workspaces : ckpt[d].ws = w => Vouched(ckpt[d].marks, w)

(* The parts of the invariant of a run r that does p.                      *)
Working(p) == p.pc \notin {"idle", "reconcile"}

Placed(p) ==
    IF p.pc = "idle" THEN p.ws = None ELSE p.ws \in Workspaces /\ p.root \in Roots

(* Only what is below the root was parsed, and only that is written.       *)
BelowRoot(p) ==
    Working(p) => /\ \A f \in Files : p.read[f] # 0 => f \in Walk[p.root]
                  /\ \A f \in p.todo : p.read[f] # 0

(* A run that does not resume writes all that it has parsed.               *)
WritesAll(r, p) ==
    /\ p.pc \in {"nodes", "resend", "edges", "land"} \/ (p.pc = "stat" /\ r \in CliRuns)
    /\ ~p.resume
    => p.todo = {f \in Files : p.read[f] # 0}

(* A fingerprint that still fits the file is of the content parsed.        *)
StatTrue(p) == \A f \in Files : Says(p.stat[f], f) => p.read[f] = disk[f]

(* What has changed since it was parsed is not in the graph as it is now,  *)
(* for nobody else writes to the workspace; nor is what a reconcile finds. *)
Outrun(p) ==
    Working(p) =>
        \A f \in Walk[p.root] :
            disk[f] # 0 /\ p.read[f] # disk[f] => nodes[p.ws][f] # disk[f]

Vanished(p) ==
    p.pc = "reconcile" =>
        \A f \in Files \ p.todo : disk[f] # 0 => nodes[p.ws][f] # disk[f]

(* What a batch has not lost is in the graph.                              *)
BatchIn(p) ==
    p.pc \in {"edges", "land"} =>
        \A f \in EdgeBatch(p) \ p.failed : nodes[p.ws][f] = p.read[f]

EdgesIn(p) ==
    p.pc = "land" =>
        \A f \in EdgeBatch(p) \ p.failed : \A g \in References(p, f) :
            <<f, g>> \in links[p.ws] \/ Earlier(g, f)

RunInv(r, p) ==
    /\ Placed(p) /\ BelowRoot(p) /\ WritesAll(r, p) /\ StatTrue(p)
    /\ Outrun(p) /\ Vanished(p) /\ BatchIn(p) /\ EdgesIn(p)

RunVouched == \A r \in Runs : run[r].pc # "idle" => Vouched(run[r].marks, run[r].ws)

IInv ==
    /\ TypeOK /\ Fresh /\ OneRun
    /\ \A r \in Runs : RunInv(r, run[r])
    /\ CkptVouched /\ RunVouched
-----------------------------------------------------------------------------
(* What the assumptions say of the files and their order.                  *)
LEMMA FilesFinite == IsFiniteSet(Files)
<1>1. PICK n \in Nat : DOMAIN Order = 1..n
  BY IndexAssumption
<1>2. IsFiniteSet(DOMAIN Order)
  BY <1>1, FS_Interval
<1>3. Order \in Surjection(DOMAIN Order, Files)
  BY IndexAssumption DEF Surjection, Files, Range
<1> QED
  BY <1>2, <1>3, FS_Surjection

\* No file comes before itself in the order of a walk.
LEMMA EarlierIrreflexive == ASSUME NEW f PROVE ~Earlier(f, f)
<1>1. PICK n \in Nat : DOMAIN Order = 1..n
  BY IndexAssumption
<1>2. \A i, j \in DOMAIN Order : Order[i] = Order[j] => i = j
  BY IndexAssumption DEF IsInjective
<1> QED
  BY <1>1, <1>2 DEF Earlier

(* The fields that a step of a run under way does not touch.               *)
SameRun(p, q) ==
    /\ q.ws = p.ws /\ q.root = p.root /\ q.resume = p.resume
    /\ q.marks = p.marks /\ q.read = p.read /\ q.stat = p.stat
    /\ q.todo = p.todo

\* The checkpoint of a root that was never indexed is typed.
LEMMA NoMarksTyped == NoMarks \in Marks
  BY IndexAssumption DEF NoMarks, Marks, Version

\* So is the record of a run that has not begun.
LEMMA IdleTyped == Idle \in RunRecord
  BY NoMarksTyped DEF Idle, RunRecord

\* A batch is of files that the run has still to write.
LEMMA BatchTyped ==
    ASSUME NEW p \in RunRecord, NEW n
    PROVE  /\ NextFiles(p, n) \subseteq p.todo
           /\ EdgeBatch(p) \subseteq p.todo
           /\ p.todo \subseteq Files
<1>1. NextFiles(p, n) \subseteq p.todo
  BY DEF NextFiles
<1>2. EdgeBatch(p) \subseteq p.todo
  BY DEF NextFiles, EdgeBatch
<1>3. p.todo \subseteq Files
  BY DEF RunRecord
<1> QED
  BY <1>1, <1>2, <1>3

(* The edge pass goes on, the run reconciles, or it is over.               *)
LEMMA EdgesFromIs ==
    ASSUME NEW p \in RunRecord, NEW done \in SUBSET Files, NEW q,
           q = EdgesFrom(p, done)
    PROVE  /\ q \in RunRecord
           /\ \/ q.pc = "resend" /\ SameRun(p, q)
              \/ /\ q.pc = "reconcile" /\ Reconciles(p)
                 /\ q.ws = p.ws /\ q.root = p.root /\ q.resume = p.resume
                 /\ q.marks = NoMarks /\ q.read = NoMarks /\ q.stat = NoMarks
                 /\ q.todo = p.todo
              \/ q = Idle
<1>1. CASE done # p.todo
  <2>1. q = [p EXCEPT !.pc = "resend", !.done = done, !.failed = {}]
    BY <1>1 DEF EdgesFrom
  <2>2. q \in RunRecord
    BY <2>1 DEF RunRecord
  <2>3. q.pc = "resend" /\ SameRun(p, q)
    BY <2>1 DEF RunRecord, SameRun
  <2> QED
    BY <2>2, <2>3
<1>2. CASE done = p.todo /\ Reconciles(p)
  <2>1. q = [Idle EXCEPT !.pc = "reconcile", !.ws = p.ws, !.root = p.root,
                         !.resume = p.resume, !.todo = p.todo]
    BY <1>2 DEF EdgesFrom
  <2>2. q \in RunRecord
    BY <2>1, IdleTyped DEF RunRecord
  <2> QED
    BY <1>2, <2>1, <2>2 DEF Idle
<1>3. CASE done = p.todo /\ ~Reconciles(p)
  <2>1. q = Idle
    BY <1>3 DEF EdgesFrom
  <2> QED
    BY <2>1, IdleTyped
<1> QED
  BY <1>1, <1>2, <1>3
-----------------------------------------------------------------------------
(* What a step keeps that is no edit: run r goes on, or another begins, and *)
(* nobody touches the other runs, nor the graphs of other workspaces.       *)
GoodKept ==
    \A w \in Workspaces, f \in Files : disk[f] # 0 /\ Good(w, f) => Good(w, f)'

StepOf(r) ==
    /\ disk' = disk /\ edits' = edits /\ lagged \subseteq lagged'
    /\ \A q \in Runs \ {r} : run'[q] = run[q]
    /\ \A w \in Workspaces \ {run[r].ws} : nodes'[w] = nodes[w] /\ links'[w] = links[w]

\* What marks vouch for survives a step that keeps the good files good.
LEMMA VouchedKept ==
    ASSUME NEW r \in Runs, StepOf(r), GoodKept, NEW w \in Workspaces, NEW m, Vouched(m, w)
    PROVE  Vouched(m, w)'
  BY DEF StepOf, GoodKept, Vouched, Says

(* A run keeps its invariant while another one takes its step.             *)
LEMMA BystanderKeeps ==
    ASSUME NEW r \in Runs, StepOf(r), NEW q \in Runs, NEW p \in RunRecord,
           RunInv(q, p), p.ws # None => p.ws # run[r].ws
    PROVE  RunInv(q, p)'
<1>1. Placed(p)' /\ BelowRoot(p)' /\ WritesAll(q, p)'
  BY DEF RunInv, Placed, BelowRoot, WritesAll, Working
<1>2. StatTrue(p)'
  BY DEF RunInv, StatTrue, Says, StepOf
<1>3. p.pc # "idle" => nodes'[p.ws] = nodes[p.ws] /\ links'[p.ws] = links[p.ws]
  BY IndexAssumption DEF RunInv, Placed, StepOf
<1>4. Outrun(p)' /\ Vanished(p)'
  BY <1>3 DEF RunInv, Outrun, Vanished, Working, StepOf
<1>5. BatchIn(p)' /\ EdgesIn(p)'
  BY <1>3 DEF RunInv, BatchIn, EdgesIn
<1> QED
  BY <1>1, <1>2, <1>4, <1>5 DEF RunInv

\* Every other run keeps its invariant, because the writer lock admits one a workspace.
LEMMA OthersKeep ==
    ASSUME IInv, NEW r \in Runs, StepOf(r)
    PROVE  \A q \in Runs \ {r} : RunInv(q, run[q])'
<1> SUFFICES ASSUME NEW q \in Runs \ {r} PROVE RunInv(q, run[q])'
  OBVIOUS
<1>1. run[q] \in RunRecord /\ RunInv(q, run[q]) /\ run'[q] = run[q]
  BY DEF IInv, TypeOK, StepOf
<1>2. run[q].ws # None => run[q].ws # run[r].ws
  BY DEF IInv, OneRun
<1>3. PICK p : p = run[q]
  OBVIOUS
<1>4. RunInv(q, p)'
  BY <1>1, <1>2, <1>3, BystanderKeeps
<1> QED
  BY <1>1, <1>3, <1>4

(* The run keeps its workspace, or is over.                                *)
LEMMA OneRunKept ==
    ASSUME IInv, NEW r \in Runs, StepOf(r), run'[r].ws \in {run[r].ws, None}
    PROVE  OneRun'
  BY DEF IInv, OneRun, StepOf

(* The marks a run has in memory vouch for what they did.                  *)
LEMMA RunVouchedKept ==
    ASSUME IInv, NEW r \in Runs, StepOf(r), GoodKept,
           run'[r].pc # "idle" => Vouched(run[r].marks, run[r].ws)'
    PROVE  RunVouched'
<1> SUFFICES ASSUME NEW q \in Runs, run'[q].pc # "idle"
             PROVE  Vouched(run[q].marks, run[q].ws)'
  BY DEF RunVouched
<1>1. CASE q = r
  BY <1>1 DEF Vouched
<1>2. CASE q # r
  <2>1. run'[q] = run[q] /\ Placed(run[q])
    BY <1>2 DEF StepOf, IInv, RunInv
  <2>2. run[q].ws \in Workspaces /\ Vouched(run[q].marks, run[q].ws)
    BY <2>1 DEF Placed, IInv, RunVouched
  <2>3. PICK m, w : m = run[q].marks /\ w = run[q].ws
    OBVIOUS
  <2>4. Vouched(m, w)'
    BY <2>2, <2>3, VouchedKept
  <2> QED
    BY <2>1, <2>3, <2>4
<1> QED
  BY <1>1, <1>2

\* No marks say nothing.
LEMMA NoMarksVouch == ASSUME NEW w PROVE Vouched(NoMarks, w)
  BY DEF Vouched, Says, NoMarks

\* A checkpoint that is not written stays as honest as it was.
LEMMA CkptVouchedKept ==
    ASSUME IInv, NEW r \in Runs, StepOf(r), GoodKept, ckpt' = ckpt
    PROVE  CkptVouched'
<1> SUFFICES ASSUME NEW d \in Roots, NEW w \in Workspaces, ckpt[d].ws = w
             PROVE  Vouched(ckpt[d].marks, w)'
  BY DEF CkptVouched
<1>1. PICK m : m = ckpt[d].marks
  OBVIOUS
<1>2. Vouched(m, w)'
  BY <1>1, VouchedKept DEF IInv, CkptVouched
<1> QED
  BY <1>1, <1>2
-----------------------------------------------------------------------------
(* The initial states.                                                     *)
LEMMA IndexInit == Init => IInv
<1> SUFFICES ASSUME Init PROVE IInv
  OBVIOUS
<1>1. \A r \in Runs : run[r] = Idle
  BY DEF Init
<1>2. TypeOK
  <2>1. [f \in Files |-> 1] \in Marks
    BY IndexAssumption DEF Marks, Version
  <2>2. run \in [Runs -> RunRecord]
    BY IdleTyped DEF Init
  <2> QED
    BY <2>1, <2>2, NoMarksTyped, IndexAssumption DEF Init, TypeOK
<1>3. Fresh
  BY <1>1 DEF Init, Fresh, UpTo, Idle, NoMarks
<1>4. OneRun
  BY <1>1 DEF OneRun, Idle
<1>5. ASSUME NEW r \in Runs PROVE RunInv(r, Idle)
  <2>1. Placed(Idle) /\ BelowRoot(Idle) /\ WritesAll(r, Idle) /\ Outrun(Idle) /\ Vanished(Idle)
    BY DEF Placed, BelowRoot, WritesAll, Outrun, Vanished, Working, Idle
  <2>2. StatTrue(Idle)
    BY DEF StatTrue, Says, Idle, NoMarks
  <2>3. BatchIn(Idle) /\ EdgesIn(Idle)
    BY DEF BatchIn, EdgesIn, Idle
  <2> QED
    BY <2>1, <2>2, <2>3 DEF RunInv
<1>6. CkptVouched
  BY IndexAssumption DEF Init, CkptVouched
<1>7. RunVouched
  BY <1>1 DEF RunVouched, Idle
<1> QED
  BY <1>1, <1>2, <1>3, <1>4, <1>5, <1>6, <1>7 DEF IInv
-----------------------------------------------------------------------------
(* An edit gives its file a version that no mark and no node has.          *)
LEMMA EditIsNew ==
    ASSUME TypeOK, UpTo(disk), NEW f \in Files, Edit(f), NEW g \in Files,
           NEW m \in Version, m <= edits + 1, disk'[g] # 0, m = disk'[g]
    PROVE  /\ disk'[g] = disk[g]
           /\ g \in lagged => g \in lagged'
<1>1. edits \in Nat /\ m \in Nat
  BY IndexAssumption DEF TypeOK, Version
<1>2. edits + 2 # m
  BY <1>1
<1>3. g # f
  BY <1>2 DEF Edit, TypeOK, Marks
<1> QED
  BY <1>3 DEF Edit, TypeOK, Marks

\* An edit of a file does not disturb what a run knows.
LEMMA EditKeepsRun ==
    ASSUME IInv, NEW f \in Files, Edit(f), NEW q \in Runs, NEW p \in RunRecord,
           RunInv(q, p), UpTo(p.read), UpTo(p.stat)
    PROVE  RunInv(q, p)'
<1> USE DEF IInv
<1>1. Placed(p)' /\ BelowRoot(p)' /\ WritesAll(q, p)'
  BY DEF RunInv, Placed, BelowRoot, WritesAll, Working
<1>2. StatTrue(p)'
  <2> SUFFICES ASSUME NEW g \in Files, Says(p.stat[g], g)' PROVE p.read[g] = disk'[g]
    BY DEF StatTrue
  <2>1. p.stat[g] \in Version /\ p.stat[g] <= edits + 1
    BY DEF RunRecord, Marks, UpTo
  <2>2. disk'[g] = disk[g] /\ (g \in lagged => g \in lagged')
    BY <2>1, EditIsNew DEF Fresh, Says
  <2> QED
    BY <2>2 DEF RunInv, StatTrue, Says
<1>3. nodes' = nodes /\ links' = links
  BY DEF Edit
<1>4. ASSUME NEW w \in Workspaces, NEW g \in Files, disk'[g] # 0, nodes[w][g] = disk'[g]
      PROVE  disk'[g] = disk[g]
  <2>1. nodes[w][g] \in Version /\ nodes[w][g] <= edits + 1
    BY DEF Fresh, UpTo, TypeOK, Marks
  <2> QED
    BY <1>4, <2>1, EditIsNew DEF Fresh
<1>5. Outrun(p)'
  <2> SUFFICES ASSUME Working(p), NEW g \in Walk[p.root], disk'[g] # 0, p.read[g] # disk'[g]
               PROVE  nodes[p.ws][g] # disk'[g]
    BY <1>3 DEF Outrun, Working
  <2>1. p.ws \in Workspaces /\ g \in Files
    BY IndexAssumption DEF RunInv, Placed, Working
  <2> QED
    BY <1>4, <2>1 DEF RunInv, Outrun
<1>6. Vanished(p)'
  <2> SUFFICES ASSUME p.pc = "reconcile", NEW g \in Files \ p.todo, disk'[g] # 0
               PROVE  nodes[p.ws][g] # disk'[g]
    BY <1>3 DEF Vanished
  <2>1. p.ws \in Workspaces
    BY DEF RunInv, Placed
  <2> QED
    BY <1>4, <2>1 DEF RunInv, Vanished
<1>7. BatchIn(p)' /\ EdgesIn(p)'
  BY <1>3 DEF RunInv, BatchIn, EdgesIn
<1> QED
  BY <1>1, <1>2, <1>5, <1>6, <1>7 DEF RunInv

\* Nor does it disturb marks, which say nothing of a file that has changed.
LEMMA EditKeepsVouched ==
    ASSUME IInv, NEW f \in Files, Edit(f), NEW w \in Workspaces, NEW m \in Marks,
           UpTo(m), Vouched(m, w)
    PROVE  Vouched(m, w)'
<1> SUFFICES ASSUME NEW g \in Files, Says(m[g], g)' PROVE Good(w, g)'
  BY DEF Vouched
<1>1. m[g] \in Version /\ m[g] <= edits + 1
  BY DEF Marks, UpTo
<1>2. disk'[g] = disk[g] /\ (g \in lagged => g \in lagged')
  BY <1>1, EditIsNew DEF IInv, Fresh, Says
<1>3. Good(w, g)
  BY <1>2 DEF Vouched, Says
<1> QED
  BY <1>2, <1>3 DEF Good, Missing, Edit

\* An edit keeps the invariant.
LEMMA EditKeeps == ASSUME IInv, NEW f \in Files, Edit(f) PROVE IInv'
<1> USE DEF IInv
<1>1. UNCHANGED <<nodes, links, ckpt, run, faults, resolved>>
  BY DEF Edit
<1>2. edits \in Nat /\ edits' = edits + 1 /\ edits' <= MaxEdits
  BY IndexAssumption DEF Edit, TypeOK
<1>3. disk' \in Marks
  <2>1. edits + 2 \in Version /\ 0 \in Version
    BY IndexAssumption, <1>2 DEF Version
  <2> QED
    BY <2>1 DEF Edit, TypeOK, Marks
<1>4. TypeOK'
  <2>1. edits' \in 0..MaxEdits /\ lagged' \subseteq Files
    BY <1>2, IndexAssumption DEF Edit, TypeOK
  <2> QED
    BY <1>1, <1>3, <2>1 DEF TypeOK
<1>5. ASSUME NEW m \in Marks, UpTo(m) PROVE UpTo(m)'
  <2> SUFFICES ASSUME NEW g \in Files PROVE m[g] <= edits' + 1
    BY DEF UpTo
  <2>1. m[g] \in Nat /\ m[g] <= edits + 1
    BY <1>5, IndexAssumption DEF Marks, Version, UpTo
  <2> QED
    BY <1>2, <2>1
<1>6. Fresh'
  <2>1. UpTo(disk)'
    <3> SUFFICES ASSUME NEW g \in Files PROVE disk'[g] <= edits' + 1
      BY DEF UpTo
    <3>1. disk[g] \in Nat /\ disk[g] <= edits + 1
      BY IndexAssumption DEF TypeOK, Fresh, UpTo, Marks, Version
    <3>2. disk'[g] \in {disk[g], edits + 2, 0}
      BY DEF Edit, TypeOK, Marks
    <3> QED
      BY <1>2, <3>1, <3>2
  <2>2. \A w \in Workspaces : UpTo(nodes[w])'
    BY <1>1, <1>5 DEF TypeOK, Fresh, UpTo
  <2>3. \A d \in Roots : UpTo(ckpt[d].marks)'
    BY <1>1, <1>5 DEF TypeOK, Fresh, UpTo
  <2>4. \A r \in Runs : UpTo(run[r].marks)' /\ UpTo(run[r].read)' /\ UpTo(run[r].stat)'
    <3> SUFFICES ASSUME NEW r \in Runs
                 PROVE  UpTo(run[r].marks)' /\ UpTo(run[r].read)' /\ UpTo(run[r].stat)'
      OBVIOUS
    <3>1. run[r].marks \in Marks /\ run[r].read \in Marks /\ run[r].stat \in Marks
      BY DEF TypeOK, RunRecord
    <3> QED
      BY <1>1, <1>5, <3>1 DEF Fresh, UpTo
  <2> QED
    BY <2>1, <2>2, <2>3, <2>4 DEF Fresh
<1>7. OneRun'
  BY <1>1 DEF OneRun
<1>8. ASSUME NEW r \in Runs PROVE RunInv(r, run[r])'
  <2>1. PICK p : p = run[r]
    OBVIOUS
  <2>2. RunInv(r, p)'
    <3>1. p \in RunRecord /\ RunInv(r, p) /\ UpTo(p.read) /\ UpTo(p.stat)
      BY <2>1 DEF TypeOK, Fresh
    <3> QED
      BY <3>1, EditKeepsRun
  <2> QED
    BY <1>1, <2>1, <2>2
<1>9. CkptVouched'
  <2> SUFFICES ASSUME NEW d \in Roots, NEW w \in Workspaces, ckpt[d].ws = w
               PROVE  Vouched(ckpt[d].marks, w)'
    BY <1>1 DEF CkptVouched
  <2>1. PICK m : m = ckpt[d].marks
    OBVIOUS
  <2>2. m \in Marks /\ UpTo(m) /\ Vouched(m, w)
    BY <2>1 DEF TypeOK, Fresh, CkptVouched
  <2>3. Vouched(m, w)'
    BY <2>2, EditKeepsVouched
  <2> QED
    BY <1>1, <2>1, <2>3
<1>10. RunVouched'
  <2> SUFFICES ASSUME NEW r \in Runs, run[r].pc # "idle"
               PROVE  Vouched(run[r].marks, run[r].ws)'
    BY <1>1 DEF RunVouched
  <2>1. PICK m, w : m = run[r].marks /\ w = run[r].ws
    OBVIOUS
  <2>2. w \in Workspaces
    BY <2>1 DEF RunInv, Placed
  <2>3. m \in Marks /\ UpTo(m) /\ Vouched(m, w)
    BY <2>1 DEF TypeOK, RunRecord, Fresh, RunVouched
  <2>4. Vouched(m, w)'
    BY <2>2, <2>3, EditKeepsVouched
  <2> QED
    BY <1>1, <2>1, <2>4
<1> QED
  BY <1>4, <1>6, <1>7, <1>8, <1>9, <1>10
-----------------------------------------------------------------------------
(* The graph itself stays: nothing good in it is lost.                     *)
LEMMA GraphStays ==
    ASSUME disk' = disk, nodes' = nodes, links' = links, resolved' = resolved
    PROVE  GoodKept
  BY DEF GoodKept, Good, Missing

\* Versions stay below the count of edits while nobody edits.
LEMMA UpToStays == ASSUME edits' = edits, NEW m, UpTo(m) PROVE UpTo(m)'
  BY DEF UpTo

\* No marks have no versions.
LEMMA NoMarksUpTo == ASSUME TypeOK PROVE UpTo(NoMarks)
<1>1. edits \in Nat
  BY IndexAssumption DEF TypeOK
<1> QED
  BY <1>1 DEF UpTo, NoMarks

(* What a step leaves of the invariant, apart from the run that takes it.  *)
LEMMA FreshKept ==
    ASSUME IInv, NEW r \in Runs, StepOf(r),
           \A w \in Workspaces : UpTo(nodes[w])',
           \A d \in Roots : UpTo(ckpt[d].marks)',
           UpTo(run[r].marks)' /\ UpTo(run[r].read)' /\ UpTo(run[r].stat)'
    PROVE  Fresh'
<1>1. UpTo(disk)'
  BY DEF IInv, Fresh, UpTo, StepOf
<1>2. ASSUME NEW q \in Runs
      PROVE  UpTo(run[q].marks)' /\ UpTo(run[q].read)' /\ UpTo(run[q].stat)'
  <2>1. CASE q = r
    BY <2>1 DEF UpTo
  <2>2. CASE q # r
    <3>1. run'[q] = run[q] /\ edits' = edits
      BY <2>2 DEF StepOf
    <3> QED
      BY <3>1 DEF IInv, Fresh, UpTo
  <2> QED
    BY <2>1, <2>2
<1> QED
  BY <1>1, <1>2 DEF Fresh

\* If a step keeps its own run's invariant, it keeps that of every run.
LEMMA RunsKept ==
    ASSUME IInv, NEW r \in Runs, StepOf(r), RunInv(r, run[r])'
    PROVE  \A q \in Runs : RunInv(q, run[q])'
<1> SUFFICES ASSUME NEW q \in Runs PROVE RunInv(q, run[q])'
  OBVIOUS
<1>1. \A x \in Runs \ {r} : RunInv(x, run[x])'
  BY OthersKeep
<1>2. CASE q = r
  <2>1. RunInv(r, run[r])'
    OBVIOUS
  <2> QED
    BY <1>2, <2>1 DEF RunInv
<1>3. CASE q # r
  BY <1>1, <1>3
<1> QED
  BY <1>2, <1>3

\* What a run loads from the checkpoint vouches for its workspace.
LEMMA LoadedIs ==
    ASSUME IInv, NEW d \in Roots, NEW w \in Workspaces
    PROVE  /\ Loaded(d, w) \in Marks /\ UpTo(Loaded(d, w))
           /\ Vouched(Loaded(d, w), w)
<1>1. CASE ckpt[d].ws = w
  BY <1>1 DEF IInv, TypeOK, Fresh, CkptVouched, Loaded
<1>2. CASE ckpt[d].ws # w
  BY <1>2, NoMarksTyped, NoMarksUpTo, NoMarksVouch DEF IInv, Loaded
<1> QED
  BY <1>1, <1>2

\* The start of a run, which parses what is below its root, keeps the invariant.
LEMMA StartKeeps ==
    ASSUME IInv, NEW r \in Runs, NEW w \in Workspaces, NEW d \in Roots,
           NEW resume \in BOOLEAN, Start(r, w, d, resume)
    PROVE  IInv'
<1> DEFINE marks == IF r \in CliRuns THEN Loaded(d, w) ELSE NoMarks
           read == [f \in Files |-> IF f \in Walk[d] THEN disk[f] ELSE 0]
           p == [Idle EXCEPT
                   !.pc = "stat", !.ws = w, !.root = d, !.resume = resume,
                   !.marks = marks, !.read = read]
           todo == IF r \in CliRuns THEN ToWrite(p, p.marks) ELSE {}
           q == [p EXCEPT !.todo = todo]
<1> USE DEF IInv
<1>1. /\ run' = [run EXCEPT ![r] = q] /\ run[r].pc = "idle" /\ MayStart(w)
      /\ UNCHANGED <<disk, nodes, links, ckpt, edits, faults, resolved, lagged>>
  BY DEF Start, Becomes
<1>2. marks \in Marks /\ UpTo(marks) /\ Vouched(marks, w)
  BY LoadedIs, NoMarksTyped, NoMarksUpTo, NoMarksVouch
<1>3. read \in Marks /\ UpTo(read)
  <2>1. edits \in Nat /\ 0 \in Version
    BY IndexAssumption DEF TypeOK, Version
  <2> QED
    BY <2>1 DEF TypeOK, Marks, Fresh, UpTo
<1> HIDE DEF marks, read
<1>4. todo \subseteq Files
  BY DEF ToWrite
<1>5. todo \subseteq {f \in Files : read[f] # 0}
  BY IdleTyped DEF ToWrite, RunRecord
<1>6. ~resume /\ r \in CliRuns => todo = {f \in Files : read[f] # 0}
  BY IdleTyped DEF ToWrite, RunRecord
<1> HIDE DEF todo
<1>7. /\ q \in RunRecord
      /\ q.pc = "stat" /\ q.ws = w /\ q.root = d /\ q.resume = resume /\ q.marks = marks
      /\ q.read = read /\ q.stat = NoMarks /\ q.todo = todo
  <2>1. p \in RunRecord
    BY IdleTyped, <1>2, <1>3 DEF RunRecord
  <2>2. q \in RunRecord
    BY <2>1, <1>4 DEF RunRecord
  <2> QED
    BY <2>2 DEF Idle
<1> HIDE DEF q
<1>8. run'[r] = q /\ StepOf(r) /\ GoodKept
  BY <1>1, GraphStays DEF TypeOK, StepOf
<1>9. TypeOK'
  BY <1>1, <1>7 DEF TypeOK
<1>10. Fresh'
  <2>1. UpTo(run[r].marks)' /\ UpTo(run[r].read)' /\ UpTo(run[r].stat)'
    BY <1>1, <1>2, <1>3, <1>7, <1>8, NoMarksUpTo DEF UpTo
  <2> QED
    BY <1>1, <1>8, <2>1, FreshKept DEF Fresh, UpTo
<1>11. OneRun'
  BY <1>1, <1>7 DEF OneRun, MayStart, TypeOK
<1>12. RunInv(r, q)
  <2>1. Placed(q) /\ BelowRoot(q) /\ WritesAll(r, q)
    BY <1>5, <1>6, <1>7 DEF Placed, BelowRoot, WritesAll, Working, read
  <2>2. StatTrue(q)
    BY <1>7 DEF StatTrue, Says, NoMarks
  <2>3. Outrun(q)
    <3>1. \A f \in Walk[d] : f \in Files
      BY IndexAssumption
    <3> QED
      BY <1>7, <3>1 DEF Outrun, read
  <2>4. Vanished(q) /\ BatchIn(q) /\ EdgesIn(q)
    BY <1>7 DEF Vanished, BatchIn, EdgesIn
  <2> QED
    BY <2>1, <2>2, <2>3, <2>4 DEF RunInv
<1>13. RunInv(r, run[r])'
  <2>1. PICK x : x = q
    OBVIOUS
  <2>2. RunInv(r, x)'
    <3>1. RunInv(r, x)
      BY <1>12, <2>1
    <3> QED
      BY <1>1, <3>1 DEF RunInv, Placed, BelowRoot, Working, WritesAll, StatTrue, Says,
                        Outrun, Vanished, BatchIn, EdgesIn
  <2> QED
    BY <1>8, <2>1, <2>2
<1>14. CkptVouched'
  BY <1>1, <1>8, CkptVouchedKept
<1>15. RunVouched'
  <2>1. PICK m : m = marks
    OBVIOUS
  <2>2. Vouched(m, w)'
    BY <1>2, <1>8, <2>1, VouchedKept
  <2>3. run'[r].marks = m /\ run'[r].ws = w
    BY <1>7, <1>8, <2>1
  <2>4. Vouched(run[r].marks, run[r].ws)'
    BY <2>2, <2>3
  <2> QED
    BY <1>8, <2>4, RunVouchedKept
<1>16. \A x \in Runs : RunInv(x, run[x])'
  BY <1>8, <1>13, RunsKept
<1> QED
  BY <1>9, <1>10, <1>11, <1>14, <1>15, <1>16
-----------------------------------------------------------------------------
(* The steps of a run, and its death.                                      *)
LEMMA StepKeeps ==
    ASSUME IInv, NEW r \in Runs, StepOf(r), GoodKept, TypeOK', Fresh', CkptVouched',
           run'[r].ws \in {run[r].ws, None}, RunInv(r, run[r])',
           run'[r].pc # "idle" => Vouched(run[r].marks, run[r].ws)'
    PROVE  IInv'
<1>1. OneRun'
  BY OneRunKept
<1>2. RunVouched'
  BY RunVouchedKept
<1>3. \A q \in Runs : RunInv(q, run[q])'
  BY RunsKept
<1> QED
  BY <1>1, <1>2, <1>3 DEF IInv

\* A run that is over claims nothing.
LEMMA IdleKeeps == ASSUME NEW r PROVE RunInv(r, Idle)'
<1>1. Placed(Idle)' /\ BelowRoot(Idle)' /\ WritesAll(r, Idle)' /\ Outrun(Idle)' /\ Vanished(Idle)'
  BY DEF Placed, BelowRoot, WritesAll, Outrun, Vanished, Working, Idle
<1>2. StatTrue(Idle)'
  BY DEF StatTrue, Says, Idle, NoMarks
<1>3. BatchIn(Idle)' /\ EdgesIn(Idle)'
  BY DEF BatchIn, EdgesIn, Idle
<1> QED
  BY <1>1, <1>2, <1>3 DEF RunInv

\* Faults are counted up to their bound.
LEMMA FaultsTyped ==
    ASSUME TypeOK, NEW n \in Nat, Faults(n) PROVE faults' \in 0..MaxFaults
  BY IndexAssumption DEF TypeOK, Faults

\* A run that dies keeps the invariant: its memory goes, what it wrote stays.
LEMMA RunDiesKeeps == ASSUME IInv, NEW r \in Runs, RunDies(r) PROVE IInv'
<1> USE DEF IInv
<1>1. /\ run' = [run EXCEPT ![r] = Idle]
      /\ UNCHANGED <<disk, nodes, links, ckpt, edits, resolved, lagged>>
  BY DEF RunDies, Becomes
<1>2. run'[r] = Idle /\ StepOf(r) /\ GoodKept
  BY <1>1, GraphStays DEF TypeOK, StepOf
<1>3. TypeOK'
  <2>1. faults' \in 0..MaxFaults
    BY FaultsTyped DEF RunDies
  <2> QED
    BY <1>1, <2>1, IdleTyped DEF TypeOK
<1>4. Fresh'
  <2>1. UpTo(run[r].marks)' /\ UpTo(run[r].read)' /\ UpTo(run[r].stat)'
    BY <1>1, <1>2, NoMarksUpTo DEF UpTo, Idle
  <2> QED
    BY <1>1, <1>2, <2>1, FreshKept DEF Fresh, UpTo
<1>5. RunInv(r, run[r])'
  BY <1>2, IdleKeeps DEF RunInv
<1>6. CkptVouched'
  BY <1>1, <1>2, CkptVouchedKept
<1>7. run'[r].ws = None /\ run'[r].pc = "idle"
  BY <1>2 DEF Idle
<1> QED
  BY <1>2, <1>3, <1>4, <1>5, <1>6, <1>7, StepKeeps

\* So does a run that fingerprints what it parsed.
LEMMA StatKeeps == ASSUME IInv, NEW r \in Runs, Stat(r) PROVE IInv'
<1> DEFINE p == run[r]
           marks == IF r \in CliRuns THEN p.marks
                    ELSE IF p.resume THEN Loaded(p.root, p.ws) ELSE NoMarks
           stat == [f \in Files |-> IF p.read[f] # 0 THEN disk[f] ELSE 0]
           todo == IF r \in CliRuns THEN p.todo ELSE ToWrite(p, marks)
           q == [p EXCEPT !.pc = "nodes", !.marks = marks, !.stat = stat, !.todo = todo]
<1> USE DEF IInv
<1>1. /\ run' = [run EXCEPT ![r] = q] /\ p.pc = "stat"
      /\ lagged' = lagged \cup {f \in Files : p.read[f] \notin {0, disk[f]}}
      /\ UNCHANGED <<disk, nodes, links, ckpt, edits, faults, resolved>>
  BY DEF Stat, Becomes
<1>2. p \in RunRecord /\ RunInv(r, p)
  BY DEF TypeOK
<1>3. p.ws \in Workspaces /\ p.root \in Roots
  BY <1>1, <1>2 DEF RunInv, Placed
<1>4. marks \in Marks /\ UpTo(marks) /\ Vouched(marks, p.ws)
  <2>1. p.marks \in Marks /\ UpTo(p.marks) /\ Vouched(p.marks, p.ws)
    BY <1>1, <1>2 DEF Fresh, RunVouched, RunRecord
  <2> QED
    BY <1>3, <2>1, LoadedIs, NoMarksTyped, NoMarksUpTo, NoMarksVouch
<1> HIDE DEF marks
<1>5. stat \in Marks /\ UpTo(stat)
  <2>1. edits \in Nat /\ 0 \in Version
    BY IndexAssumption DEF TypeOK, Version
  <2> QED
    BY <2>1 DEF TypeOK, Marks, Fresh, UpTo
<1>6. todo \in SUBSET Files /\ todo \subseteq {f \in Files : p.read[f] # 0}
  BY <1>1, <1>2 DEF ToWrite, RunRecord, RunInv, BelowRoot, Working
<1>7. ~p.resume => todo = {f \in Files : p.read[f] # 0}
  BY <1>1, <1>2 DEF ToWrite, RunInv, WritesAll
<1> HIDE DEF todo, stat
<1>8. /\ q \in RunRecord
      /\ q.pc = "nodes" /\ q.ws = p.ws /\ q.root = p.root /\ q.resume = p.resume
      /\ q.marks = marks /\ q.read = p.read /\ q.stat = stat /\ q.todo = todo
  BY <1>2, <1>4, <1>5, <1>6 DEF RunRecord
<1>9. PICK x : x = q
  OBVIOUS
<1> HIDE DEF q
<1>10. run'[r] = x /\ StepOf(r) /\ GoodKept
  BY <1>1, <1>9, GraphStays DEF TypeOK, StepOf
<1>11. TypeOK'
  <2>1. lagged' \subseteq Files
    BY <1>1 DEF TypeOK
  <2> QED
    BY <1>1, <1>8, <2>1 DEF TypeOK
<1>12. Fresh'
  <2>1. UpTo(p.read)
    BY DEF Fresh
  <2>2. UpTo(run[r].marks)' /\ UpTo(run[r].read)' /\ UpTo(run[r].stat)'
    BY <1>1, <1>4, <1>5, <1>8, <1>9, <1>10, <2>1 DEF UpTo
  <2> QED
    BY <1>1, <1>10, <2>2, FreshKept DEF Fresh, UpTo
<1>13. RunInv(r, x)'
  <2>1. Placed(x)' /\ WritesAll(r, x)'
    BY <1>3, <1>7, <1>8, <1>9 DEF Placed, WritesAll
  <2>2. BelowRoot(x)'
    BY <1>1, <1>2, <1>6, <1>8, <1>9 DEF RunInv, BelowRoot, Working
  <2>3. StatTrue(x)'
    <3> SUFFICES ASSUME NEW f \in Files, Says(x.stat[f], f)' PROVE x.read[f] = disk'[f]
      BY DEF StatTrue
    <3>1. p.read[f] # 0
      BY <1>1, <1>8, <1>9 DEF Says, stat
    <3> QED
      BY <1>1, <1>8, <1>9, <3>1 DEF Says
  <2>4. Outrun(x)'
    BY <1>1, <1>2, <1>8, <1>9 DEF RunInv, Outrun, Working
  <2>5. Vanished(x)' /\ BatchIn(x)' /\ EdgesIn(x)'
    BY <1>8, <1>9 DEF Vanished, BatchIn, EdgesIn
  <2> QED
    BY <2>1, <2>2, <2>3, <2>4, <2>5 DEF RunInv
<1>14. RunInv(r, run[r])'
  BY <1>10, <1>13
<1>15. CkptVouched'
  BY <1>1, <1>10, CkptVouchedKept
<1>16. run'[r].ws = p.ws /\ Vouched(run[r].marks, run[r].ws)'
  <2>1. PICK m, w : m = marks /\ w = p.ws
    OBVIOUS
  <2>2. Vouched(m, w)'
    BY <1>3, <1>4, <1>10, <2>1, VouchedKept
  <2>3. run'[r].marks = m /\ run'[r].ws = w
    BY <1>8, <1>9, <1>10, <2>1
  <2> QED
    BY <2>1, <2>2, <2>3
<1> QED
  BY <1>10, <1>11, <1>12, <1>14, <1>15, <1>16, StepKeeps
-----------------------------------------------------------------------------
(* Writing nodes: what has been parsed and is no longer so was not in the  *)
(* graph as it is now, so that nothing current is overwritten.             *)
NodesWritten(p, files, failed) ==
    /\ nodes' \in [Workspaces -> Marks]
    /\ \A w \in Workspaces, f \in Files : nodes'[w][f] <= edits + 1
    /\ \A w \in Workspaces \ {p.ws} : nodes'[w] = nodes[w]
    /\ \A f \in files \ failed : nodes'[p.ws][f] = p.read[f]
    /\ \A w \in Workspaces, f \in Files : nodes[w][f] # 0 => nodes'[w][f] # 0
    /\ \A w \in Workspaces, f \in Files :
          nodes[w][f] # 0 /\ nodes[w][f] = disk[f] => nodes'[w][f] = nodes[w][f]

\* A bulk write of nodes puts in what was parsed, and never covers newer content.
LEMMA WriteKeeps ==
    ASSUME IInv, NEW r \in Runs, NEW p, p = run[r], Working(p),
           NEW files \in SUBSET p.todo, NEW failed \in SUBSET files,
           StoreNodes(p, files, failed), disk' = disk
    PROVE  NodesWritten(p, files, failed) /\ Outrun(p)'
<1> USE DEF IInv
<1>1. p \in RunRecord /\ RunInv(r, p) /\ UpTo(p.read)
  BY DEF TypeOK, Fresh
<1>2. p.ws \in Workspaces /\ p.root \in Roots
  BY <1>1 DEF RunInv, Placed, Working
<1>3. ASSUME NEW f \in files \ failed
      PROVE  /\ f \in Files /\ f \in Walk[p.root]
             /\ p.read[f] # 0 /\ p.read[f] \in Version /\ p.read[f] <= edits + 1
  BY <1>1 DEF RunInv, BelowRoot, RunRecord, Marks, UpTo
<1>4. nodes' = [nodes EXCEPT ![p.ws] = [f \in Files |->
                   IF f \in files \ failed THEN p.read[f] ELSE nodes[p.ws][f]]]
  BY DEF StoreNodes
<1>5. nodes \in [Workspaces -> Marks]
  BY DEF TypeOK
<1>6. nodes' \in [Workspaces -> Marks]
  <2>1. [f \in Files |-> IF f \in files \ failed THEN p.read[f] ELSE nodes[p.ws][f]] \in Marks
    BY <1>2, <1>3, <1>5 DEF Marks
  <2> QED
    BY <1>4, <1>5, <2>1
<1>7. ASSUME NEW w \in Workspaces, NEW f \in Files
      PROVE  nodes'[w][f] = IF w = p.ws /\ f \in files \ failed THEN p.read[f] ELSE nodes[w][f]
  BY <1>4, <1>5 DEF Marks
<1>8. \A w \in Workspaces, f \in Files : nodes'[w][f] <= edits + 1
  BY <1>3, <1>7 DEF Fresh, UpTo
<1>9. \A w \in Workspaces \ {p.ws} : nodes'[w] = nodes[w]
  BY <1>4, <1>5
<1>10. \A f \in files \ failed : nodes'[p.ws][f] = p.read[f]
  BY <1>2, <1>3, <1>7
<1>11. \A w \in Workspaces, f \in Files : nodes[w][f] # 0 => nodes'[w][f] # 0
  BY <1>3, <1>7
<1>12. \A f \in Walk[p.root] : f \in Files
  BY <1>2, IndexAssumption
<1>13. Outrun(p)'
  BY <1>1, <1>2, <1>7, <1>12 DEF RunInv, Outrun, Working
<1>14. \A w \in Workspaces, f \in Files :
          nodes[w][f] # 0 /\ nodes[w][f] = disk[f] => nodes'[w][f] = nodes[w][f]
  BY <1>1, <1>3, <1>7 DEF RunInv, Outrun
<1> QED
  BY <1>6, <1>8, <1>9, <1>10, <1>11, <1>13, <1>14 DEF NodesWritten

(* A pass has ended: the next batch, or a full run's reconcile, to which   *)
(* everything it did not write is gone from disk or was never in the graph.*)
LEMMA PassEnds ==
    ASSUME NEW r \in Runs, NEW p \in RunRecord, p.pc \in {"nodes", "land"},
           Placed(p), BelowRoot(p), WritesAll(r, p), StatTrue(p)', Outrun(p)',
           NEW done \in SUBSET Files, NEW q, q = EdgesFrom(p, done)
    PROVE  RunInv(r, q)'
<1>1. CASE q.pc = "resend" /\ SameRun(p, q)
  <2>1. Placed(q)' /\ BelowRoot(q)' /\ WritesAll(r, q)'
    BY <1>1 DEF SameRun, Placed, BelowRoot, WritesAll, Working
  <2>2. StatTrue(q)' /\ Outrun(q)'
    BY <1>1 DEF SameRun, StatTrue, Outrun, Working
  <2>3. Vanished(q)' /\ BatchIn(q)' /\ EdgesIn(q)'
    BY <1>1 DEF Vanished, BatchIn, EdgesIn
  <2> QED
    BY <2>1, <2>2, <2>3 DEF RunInv
<1>2. CASE /\ q.pc = "reconcile" /\ Reconciles(p)
           /\ q.ws = p.ws /\ q.root = p.root /\ q.resume = p.resume
           /\ q.marks = NoMarks /\ q.read = NoMarks /\ q.stat = NoMarks
           /\ q.todo = p.todo
  <2>1. Placed(q)' /\ BelowRoot(q)' /\ WritesAll(r, q)' /\ Outrun(q)'
    BY <1>2 DEF Placed, BelowRoot, WritesAll, Outrun, Working
  <2>2. StatTrue(q)'
    BY <1>2 DEF StatTrue, Says, NoMarks
  <2>3. Vanished(q)'
    <3> SUFFICES ASSUME NEW f \in Files \ p.todo, disk'[f] # 0
                 PROVE  nodes'[p.ws][f] # disk'[f]
      BY <1>2 DEF Vanished
    <3>1. f \in Walk[p.root] /\ p.read[f] = 0
      BY <1>2 DEF Reconciles, WritesAll
    <3> QED
      BY <3>1 DEF Outrun, Working
  <2>4. BatchIn(q)' /\ EdgesIn(q)'
    BY <1>2 DEF BatchIn, EdgesIn
  <2> QED
    BY <2>1, <2>2, <2>3, <2>4 DEF RunInv
<1>3. CASE q = Idle
  <2>1. RunInv(r, Idle)'
    BY IdleKeeps
  <2> QED
    BY <1>3, <2>1
<1> QED
  BY <1>1, <1>2, <1>3, EdgesFromIs

\* The refused rows of one bulk call are counted too.
LEMMA FaultsOf ==
    ASSUME TypeOK, NEW S, S \subseteq Files \/ S \subseteq Files \X Files, Faults(Cardinality(S))
    PROVE  faults' \in 0..MaxFaults
<1>1. IsFiniteSet(S)
  <2>1. IsFiniteSet(Files \X Files)
    BY FilesFinite, FS_Product
  <2> QED
    BY <2>1, FilesFinite, FS_Subset
<1>2. Cardinality(S) \in Nat
  BY <1>1, FS_CardinalityType
<1> QED
  BY <1>2, FaultsTyped

(* A step that writes nodes, whatever comes next.                          *)
LEMMA WriteStep ==
    ASSUME IInv, NEW r \in Runs, NEW p, p = run[r], Working(p),
           NEW files \in SUBSET p.todo, NEW failed \in SUBSET files,
           StoreNodes(p, files, failed), Faults(Cardinality(failed)),
           NEW q \in RunRecord, Becomes(r, q),
           UpTo(q.marks), UpTo(q.read), UpTo(q.stat),
           UNCHANGED <<disk, links, ckpt, edits, resolved, lagged>>
    PROVE  run'[r] = q /\ StepOf(r) /\ GoodKept /\ TypeOK' /\ Fresh' /\ CkptVouched'
<1>0. disk' = disk
  OBVIOUS
<1>1. p \in RunRecord /\ files \subseteq Files /\ failed \subseteq Files
  BY DEF IInv, TypeOK, RunRecord
<1>2. run' = [run EXCEPT ![r] = q]
  BY DEF Becomes
<1>3. NodesWritten(p, files, failed)
  BY <1>0, WriteKeeps
<1> USE DEF IInv
<1>4. run'[r] = q /\ StepOf(r)
  BY <1>2, <1>3 DEF TypeOK, StepOf, NodesWritten
<1>5. GoodKept
  BY <1>3 DEF NodesWritten, GoodKept, Good, Missing
<1>6. TypeOK'
  <2>1. faults' \in 0..MaxFaults
    BY <1>1, FaultsOf
  <2>2. run' \in [Runs -> RunRecord]
    BY <1>2 DEF TypeOK
  <2>3. \A w \in Workspaces : \A e \in links[w] : nodes'[w][e[1]] # 0 /\ nodes'[w][e[2]] # 0
    BY <1>3 DEF TypeOK, NodesWritten
  <2> QED
    BY <1>3, <2>1, <2>2, <2>3 DEF TypeOK, NodesWritten
<1>7. Fresh'
  <2>1. UpTo(run[r].marks)' /\ UpTo(run[r].read)' /\ UpTo(run[r].stat)'
    BY <1>4 DEF UpTo
  <2>2. \A w \in Workspaces : UpTo(nodes[w])'
    BY <1>3 DEF UpTo, NodesWritten
  <2>3. \A d \in Roots : UpTo(ckpt[d].marks)'
    BY DEF Fresh, UpTo
  <2> QED
    BY <1>4, <2>1, <2>2, <2>3, FreshKept
<1>8. CkptVouched'
  BY <1>4, <1>5, CkptVouchedKept
<1> QED
  BY <1>4, <1>5, <1>6, <1>7, <1>8

(* The marks in memory after a step that leaves them or ends with the run. *)
LEMMA MarksStayVouched ==
    ASSUME IInv, NEW r \in Runs, StepOf(r), GoodKept, run[r].pc # "idle",
           NEW q, run'[r] = q,
           q.pc # "idle" => q.ws = run[r].ws /\ q.marks \in {run[r].marks, NoMarks}
    PROVE  run'[r].pc # "idle" => Vouched(run[r].marks, run[r].ws)'
<1> SUFFICES ASSUME q.pc # "idle" PROVE Vouched(run[r].marks, run[r].ws)'
  OBVIOUS
<1>1. PICK m, w : m = q.marks /\ w = q.ws
  OBVIOUS
<1>2. w \in Workspaces /\ Vouched(m, w)
  <2>1. Placed(run[r]) /\ Vouched(run[r].marks, run[r].ws)
    BY DEF IInv, RunInv, RunVouched
  <2> QED
    BY <1>1, <2>1, NoMarksVouch DEF Placed
<1>3. Vouched(m, w)'
  BY <1>2, VouchedKept
<1>4. run'[r].marks = m /\ run'[r].ws = w
  BY <1>1
<1> QED
  BY <1>3, <1>4
-----------------------------------------------------------------------------
(* A run goes on in its workspace, with its marks or none, or it is over.  *)
Goes(p, q) ==
    /\ q \in RunRecord
    /\ IF q.pc = "idle" THEN q.ws = None ELSE q.ws = p.ws
    /\ q.marks \in {p.marks, NoMarks} /\ q.read \in {p.read, NoMarks}
    /\ q.stat \in {p.stat, NoMarks}

\* A run whose batch is behind it goes on with the next, reconciles, or is over.
LEMMA EdgesGo ==
    ASSUME NEW p \in RunRecord, NEW done \in SUBSET Files
    PROVE  Goes(p, EdgesFrom(p, done))
<1>1. PICK q : q = EdgesFrom(p, done)
  OBVIOUS
<1>2. Goes(p, q)
  BY <1>1, EdgesFromIs DEF SameRun, Goes, Idle
<1> QED
  BY <1>1, <1>2

\* A step that writes nodes keeps the invariant if its own run's part holds afterwards.
LEMMA WriteEnds ==
    ASSUME IInv, NEW r \in Runs, NEW p, p = run[r], Working(p),
           NEW files \in SUBSET p.todo, NEW failed \in SUBSET files,
           StoreNodes(p, files, failed), Faults(Cardinality(failed)),
           NEW q, Goes(p, q), Becomes(r, q), RunInv(r, q)',
           UNCHANGED <<disk, links, ckpt, edits, resolved, lagged>>
    PROVE  IInv'
<1>1. q \in RunRecord /\ UpTo(q.marks) /\ UpTo(q.read) /\ UpTo(q.stat)
  BY NoMarksUpTo DEF Goes, IInv, Fresh
<1>2. run'[r] = q /\ StepOf(r) /\ GoodKept /\ TypeOK' /\ Fresh' /\ CkptVouched'
  BY <1>1, WriteStep
<1>3. p.pc # "idle"
  BY DEF Working
<1>4. run'[r].pc # "idle" => Vouched(run[r].marks, run[r].ws)'
  BY <1>2, <1>3, MarksStayVouched DEF Goes
<1>5. RunInv(r, run[r])'
  BY <1>2
<1>6. run'[r].ws \in {run[r].ws, None}
  BY <1>2 DEF Goes
<1> QED
  BY <1>2, <1>4, <1>5, <1>6, StepKeeps

\* The first pass over the nodes keeps the invariant.
LEMMA NodePassKeeps == ASSUME IInv, NEW r \in Runs, NodePass(r) PROVE IInv'
<1>1. PICK p : p = run[r]
  OBVIOUS
<1>2. PICK files : files = NextFiles(p, BatchSize)
  OBVIOUS
<1>3. PICK q : q = IF p.done \cup files # p.todo THEN [p EXCEPT !.done = @ \cup files]
                   ELSE EdgesFrom(p, {})
  OBVIOUS
<1>4. PICK failed \in SUBSET files : StoreNodes(p, files, failed) /\ Faults(Cardinality(failed))
  BY <1>1, <1>2 DEF NodePass
<1>5. /\ p.pc = "nodes" /\ Becomes(r, q)
      /\ UNCHANGED <<disk, links, ckpt, edits, resolved, lagged>>
  BY <1>1, <1>2, <1>3 DEF NodePass
<1>6. /\ p \in RunRecord /\ RunInv(r, p)
  BY <1>1 DEF IInv, TypeOK
<1>7. files \in SUBSET p.todo /\ files \in SUBSET Files
  BY <1>2, <1>6, BatchTyped
<1>8. Working(p)
  BY <1>5 DEF Working
<1>9. Outrun(p)'
  <2>1. disk' = disk
    BY <1>5
  <2> QED
    BY <1>1, <1>4, <1>7, <1>8, <2>1, WriteKeeps
<1>10. StatTrue(p)'
  BY <1>5, <1>6 DEF RunInv, StatTrue, Says
<1>11. Goes(p, q) /\ RunInv(r, q)'
  <2>1. CASE p.done \cup files # p.todo
    <3>1. q = [p EXCEPT !.done = @ \cup files]
      BY <1>3, <2>1
    <3>2. q \in RunRecord /\ q.pc = "nodes" /\ SameRun(p, q)
      BY <1>5, <1>6, <1>7, <3>1 DEF RunRecord, SameRun
    <3>3. Placed(q)' /\ BelowRoot(q)' /\ WritesAll(r, q)'
      BY <1>5, <1>6, <3>2 DEF SameRun, RunInv, Placed, BelowRoot, WritesAll, Working
    <3>4. StatTrue(q)' /\ Outrun(q)'
      BY <1>8, <1>9, <1>10, <3>2 DEF SameRun, StatTrue, Outrun, Working
    <3>5. Vanished(q)' /\ BatchIn(q)' /\ EdgesIn(q)'
      BY <3>2 DEF Vanished, BatchIn, EdgesIn
    <3> QED
      BY <3>2, <3>3, <3>4, <3>5 DEF RunInv, SameRun, Goes
  <2>2. CASE p.done \cup files = p.todo
    <3>1. q = EdgesFrom(p, {})
      BY <1>3, <2>2
    <3>2. RunInv(r, q)'
      BY <1>5, <1>6, <1>9, <1>10, <3>1, PassEnds DEF RunInv
    <3> QED
      BY <1>6, <3>1, <3>2, EdgesGo
  <2> QED
    BY <2>1, <2>2
<1> QED
  BY <1>1, <1>4, <1>5, <1>7, <1>8, <1>11, WriteEnds

\* So does the second write of a batch's nodes.
LEMMA ResendNodesKeeps == ASSUME IInv, NEW r \in Runs, ResendNodes(r) PROVE IInv'
<1>1. PICK p : p = run[r]
  OBVIOUS
<1>2. PICK files : files = EdgeBatch(p)
  OBVIOUS
<1>3. PICK failed \in SUBSET files : /\ StoreNodes(p, files, failed) /\ Faults(Cardinality(failed))
                                     /\ Becomes(r, [p EXCEPT !.pc = "edges", !.failed = failed])
  BY <1>1, <1>2 DEF ResendNodes
<1>4. PICK q : q = [p EXCEPT !.pc = "edges", !.failed = failed]
  OBVIOUS
<1>5. p.pc = "resend" /\ Becomes(r, q) /\ UNCHANGED <<disk, links, ckpt, edits, resolved, lagged>>
  BY <1>1, <1>3, <1>4 DEF ResendNodes
<1>6. /\ p \in RunRecord /\ RunInv(r, p)
  BY <1>1 DEF IInv, TypeOK
<1>7. files \in SUBSET p.todo /\ files \in SUBSET Files
  BY <1>2, <1>6, BatchTyped
<1>8. Working(p)
  BY <1>5 DEF Working
<1>9. NodesWritten(p, files, failed) /\ Outrun(p)'
  <2>1. disk' = disk
    BY <1>5
  <2> QED
    BY <1>1, <1>3, <1>7, <1>8, <2>1, WriteKeeps
<1>10. /\ q \in RunRecord /\ q.pc = "edges" /\ SameRun(p, q)
       /\ q.failed = failed /\ q.done = p.done
  BY <1>4, <1>6, <1>7 DEF RunRecord, SameRun
<1>11. EdgeBatch(q) = files
  BY <1>2, <1>10 DEF EdgeBatch, NextFiles, SameRun
<1>12. RunInv(r, q)'
  <2>1. Placed(q)' /\ BelowRoot(q)' /\ WritesAll(r, q)'
    BY <1>5, <1>6, <1>10 DEF SameRun, RunInv, Placed, BelowRoot, WritesAll, Working
  <2>2. StatTrue(q)' /\ Outrun(q)'
    BY <1>5, <1>6, <1>8, <1>9, <1>10 DEF RunInv, SameRun, StatTrue, Says, Outrun, Working
  <2>3. Vanished(q)' /\ EdgesIn(q)'
    BY <1>10 DEF Vanished, EdgesIn
  <2>4. BatchIn(q)'
    BY <1>9, <1>10, <1>11 DEF BatchIn, NodesWritten, SameRun
  <2> QED
    BY <2>1, <2>2, <2>3, <2>4 DEF RunInv
<1>13. Goes(p, q)
  BY <1>10 DEF Goes, SameRun
<1> QED
  BY <1>1, <1>3, <1>5, <1>7, <1>8, <1>12, <1>13, WriteEnds
-----------------------------------------------------------------------------
\* So does the write of its edges.
LEMMA StoreEdgesKeeps == ASSUME IInv, NEW r \in Runs, StoreEdges(r) PROVE IInv'
<1> DEFINE P == run[r]
           B == EdgeBatch(P)
           S == {e \in B \X Files : e[2] \in References(P, e[1])}
           D == {e \in S : 0 \in {nodes[P.ws][e[1]], nodes[P.ws][e[2]]}}
<1>1. PICK refused \in SUBSET (S \ D) :
         /\ Faults(Cardinality(refused))
         /\ links' = [links EXCEPT ![P.ws] = @ \cup (S \ (D \cup refused))]
         /\ Becomes(r, [P EXCEPT !.pc = "land", !.failed =
                          @ \cup FilesForEdges(B, D \cup refused)])
  BY DEF StoreEdges
<1>2. PICK p, batch : p = P /\ batch = B
  OBVIOUS
<1>3. PICK sent : sent = S /\ sent = {e \in batch \X Files : e[2] \in References(p, e[1])}
  BY <1>2
<1>4. PICK dangling : /\ dangling = D
                      /\ dangling = {e \in sent : 0 \in {nodes[p.ws][e[1]], nodes[p.ws][e[2]]}}
  BY <1>2, <1>3
<1> HIDE DEF B, S, D
<1>5. /\ refused \subseteq sent \ dangling
      /\ Faults(Cardinality(refused))
      /\ links' = [links EXCEPT ![p.ws] = @ \cup (sent \ (dangling \cup refused))]
      /\ Becomes(r, [p EXCEPT !.pc = "land", !.failed =
                       @ \cup FilesForEdges(batch, dangling \cup refused)])
      /\ p = run[r] /\ batch = EdgeBatch(p)
  BY <1>1, <1>2, <1>3, <1>4 DEF B
<1>6. PICK lost : lost = dangling \cup refused
  OBVIOUS
<1>7. PICK q : q = [p EXCEPT !.pc = "land", !.failed = @ \cup FilesForEdges(batch, lost)]
  OBVIOUS
<1>8. /\ p.pc = "edges" /\ run' = [run EXCEPT ![r] = q]
      /\ UNCHANGED <<disk, nodes, ckpt, edits, resolved, lagged>>
  BY <1>5, <1>6, <1>7 DEF StoreEdges, Becomes
<1>9. /\ p \in RunRecord /\ RunInv(r, p) /\ p.ws \in Workspaces
      /\ batch \subseteq Files /\ sent \subseteq Files \X Files
  <2>1. p \in RunRecord /\ RunInv(r, p)
    BY <1>5 DEF IInv, TypeOK
  <2>2. batch \subseteq Files
    BY <1>5, <2>1, BatchTyped
  <2> QED
    BY <1>3, <1>8, <2>1, <2>2 DEF RunInv, Placed
<1>10. links \in [Workspaces -> SUBSET (Files \X Files)]
  BY DEF IInv, TypeOK
<1>11. /\ \A w \in Workspaces : links[w] \subseteq links'[w]
       /\ \A w \in Workspaces \ {p.ws} : links'[w] = links[w]
       /\ links'[p.ws] = links[p.ws] \cup (sent \ lost)
       /\ links' \in [Workspaces -> SUBSET (Files \X Files)]
  BY <1>5, <1>6, <1>9, <1>10
<1>12. /\ q \in RunRecord /\ q.pc = "land" /\ SameRun(p, q) /\ q.done = p.done
       /\ FilesForEdges(batch, lost) \subseteq q.failed
  <2>1. FilesForEdges(batch, lost) \subseteq Files
    BY <1>9 DEF FilesForEdges
  <2> QED
    BY <1>7, <1>9, <2>1 DEF RunRecord, SameRun
<1>13. EdgeBatch(q) = batch /\ p.failed \subseteq q.failed
  BY <1>5, <1>7, <1>9, <1>12 DEF EdgeBatch, NextFiles, SameRun, RunRecord
<1>14. run'[r] = q /\ StepOf(r)
  BY <1>5, <1>8, <1>11 DEF StepOf, IInv, TypeOK
<1>15. GoodKept
  BY <1>8, <1>11 DEF GoodKept, Good, Missing
<1>16. TypeOK'
  <2>1. faults' \in 0..MaxFaults
    BY <1>5, <1>9, FaultsOf DEF IInv
  <2>2. ASSUME NEW w \in Workspaces, NEW e \in links'[w]
        PROVE  nodes[w][e[1]] # 0 /\ nodes[w][e[2]] # 0
    <3>1. CASE e \in links[w]
      BY <3>1 DEF IInv, TypeOK
    <3>2. CASE e \notin links[w]
      <4>1. w = p.ws /\ e \in sent \ lost
        BY <1>11, <3>2
      <4>2. e \notin dangling
        BY <1>6, <4>1
      <4> QED
        BY <1>4, <4>1, <4>2
    <3> QED
      BY <3>1, <3>2
  <2>3. run' \in [Runs -> RunRecord]
    BY <1>8, <1>12 DEF IInv, TypeOK
  <2> QED
    BY <1>8, <1>11, <2>1, <2>2, <2>3 DEF IInv, TypeOK
<1>17. Fresh'
  <2>1. UpTo(run[r].marks)' /\ UpTo(run[r].read)' /\ UpTo(run[r].stat)'
    BY <1>5, <1>8, <1>12, <1>14 DEF SameRun, UpTo, IInv, Fresh
  <2> QED
    BY <1>8, <1>14, <2>1, FreshKept DEF IInv, Fresh, UpTo
<1>18. CkptVouched'
  BY <1>8, <1>14, <1>15, CkptVouchedKept
<1>19. run'[r].pc # "idle" => Vouched(run[r].marks, run[r].ws)'
  BY <1>5, <1>8, <1>12, <1>14, <1>15, MarksStayVouched DEF SameRun
<1>20. RunInv(r, q)'
  <2>1. Placed(q)' /\ BelowRoot(q)' /\ WritesAll(r, q)'
    BY <1>8, <1>9, <1>12 DEF SameRun, RunInv, Placed, BelowRoot, WritesAll, Working
  <2>2. StatTrue(q)' /\ Outrun(q)'
    BY <1>8, <1>9, <1>12 DEF RunInv, SameRun, StatTrue, Says, Outrun, Working
  <2>3. Vanished(q)'
    BY <1>12 DEF Vanished
  <2>4. BatchIn(q)'
    BY <1>5, <1>8, <1>9, <1>12, <1>13 DEF RunInv, BatchIn, SameRun
  <2>5. EdgesIn(q)'
    <3> SUFFICES ASSUME NEW f \in batch \ q.failed, NEW g \in References(q, f)
                 PROVE  <<f, g>> \in links'[p.ws] \/ Earlier(g, f)
      BY <1>12, <1>13 DEF EdgesIn, SameRun
    <3>1. g \in References(p, f) /\ f \in Files /\ g \in Files
      BY <1>9, <1>12, IndexAssumption DEF References, SameRun
    <3>2. <<f, g>> \in sent
      BY <1>3, <3>1
    <3>3. CASE <<f, g>> \notin lost
      BY <1>11, <3>2, <3>3
    <3>4. CASE <<f, g>> \in lost
      <4>1. f \notin FilesForEdges(batch, lost)
        BY <1>12
      <4>2. PICK h \in batch : Earlier(h, f) /\ h \in {f, g}
        BY <3>4, <4>1 DEF FilesForEdges
      <4> QED
        BY <4>2, EarlierIrreflexive
    <3> QED
      BY <3>3, <3>4
  <2> QED
    BY <2>1, <2>2, <2>3, <2>4, <2>5 DEF RunInv
<1>21. RunInv(r, run[r])'
  BY <1>14, <1>20
<1>22. run'[r].ws \in {run[r].ws, None}
  BY <1>5, <1>12, <1>14 DEF SameRun
<1> QED
  BY <1>14, <1>15, <1>16, <1>17, <1>18, <1>19, <1>21, <1>22, StepKeeps
-----------------------------------------------------------------------------
(* What a landed batch leaves in the bookkeeping, and nowhere else.        *)
Noted(p, landed) ==
    /\ resolved' = [resolved EXCEPT ![p.ws] = [f \in Files |->
                       IF f \in landed THEN References(p, f) ELSE @[f]]]
    /\ lagged' = lagged \cup {f \in landed : p.stat[f] = 0}
    /\ disk' = disk /\ nodes' = nodes /\ links' = links

(* Marking what has landed: every mark of the batch is of content that was *)
(* read and written, with edges to all but the files before.               *)
LEMMA LandedVouched ==
    ASSUME IInv, NEW r \in Runs, NEW p, p = run[r], p.pc = "land",
           NEW landed, landed = EdgeBatch(p) \ p.failed,
           NEW marks, marks = LandedMarks(p, landed),
           Noted(p, landed)
    PROVE  /\ GoodKept /\ marks \in Marks /\ UpTo(marks) /\ Vouched(marks, p.ws)'
           /\ resolved' \in [Workspaces -> [Files -> SUBSET Files]]
<1> USE DEF IInv, Noted
<1>1. /\ p \in RunRecord /\ RunInv(r, p) /\ p.ws \in Workspaces /\ landed \subseteq Files
      /\ Vouched(p.marks, p.ws)
  <2>1. p \in RunRecord /\ RunInv(r, p) /\ Vouched(p.marks, p.ws)
    BY DEF TypeOK, RunVouched
  <2> QED
    BY <2>1, BatchTyped DEF RunInv, Placed
<1>2. ASSUME NEW f \in Files PROVE References(p, f) \in SUBSET Files
  BY IndexAssumption DEF References
<1>3. resolved' \in [Workspaces -> [Files -> SUBSET Files]]
  BY <1>1, <1>2 DEF TypeOK
<1>4. ASSUME NEW w \in Workspaces, NEW f \in Files
      PROVE  resolved'[w][f] = IF w = p.ws /\ f \in landed THEN References(p, f)
                               ELSE resolved[w][f]
  BY <1>1 DEF TypeOK
<1>5. ASSUME NEW f \in landed
      PROVE  /\ nodes[p.ws][f] = p.read[f]
             /\ \A g \in Missing(p.ws, f)' : Earlier(g, f)
  <2>1. nodes[p.ws][f] = p.read[f]
    BY <1>1 DEF RunInv, BatchIn
  <2>2. \A g \in References(p, f) : <<f, g>> \in links[p.ws] \/ Earlier(g, f)
    BY <1>1 DEF RunInv, EdgesIn
  <2>3. resolved'[p.ws][f] = References(p, f)
    BY <1>1, <1>4
  <2> QED
    BY <2>1, <2>2, <2>3 DEF Missing
<1>6. GoodKept
  <2> SUFFICES ASSUME NEW w \in Workspaces, NEW f \in Files, disk[f] # 0, Good(w, f)
               PROVE  Good(w, f)'
    BY DEF GoodKept
  <2>1. CASE w = p.ws /\ f \in landed
    BY <1>5, <2>1 DEF Good, Missing
  <2>2. CASE ~(w = p.ws /\ f \in landed)
    BY <1>4, <2>2 DEF Good, Missing
  <2> QED
    BY <2>1, <2>2
<1>7. ASSUME NEW f \in Files
      PROVE  /\ marks[f] \in Version /\ marks[f] <= edits + 1
             /\ Says(marks[f], f)' => Good(p.ws, f)'
  <2>1. /\ p.stat[f] \in Version /\ p.marks[f] \in Version /\ disk[f] \in Version /\ 0 \in Version
        /\ edits \in Nat /\ p.stat[f] <= edits + 1 /\ p.marks[f] <= edits + 1
        /\ disk[f] <= edits + 1
    BY <1>1, IndexAssumption DEF TypeOK, RunRecord, Marks, Version, Fresh, UpTo
  <2>2. CASE p.read[f] = 0
    <3>1. marks[f] = 0
      BY <2>2 DEF LandedMarks
    <3>2. ~Says(marks[f], f)'
      BY <3>1 DEF Says
    <3> QED
      BY <2>1, <3>1, <3>2
  <2>3. CASE p.read[f] # 0 /\ f \in landed
    <3>1. marks[f] = Mark(p, f)
      BY <2>3 DEF LandedMarks
    <3>2. CASE p.stat[f] # 0
      <4>1. marks[f] = p.stat[f]
        BY <3>1, <3>2 DEF Mark
      <4>2. Says(p.stat[f], f)' => Says(p.stat[f], f)
        BY <1>1 DEF Says
      <4>3. Says(p.stat[f], f) => p.read[f] = disk[f]
        BY <1>1 DEF RunInv, StatTrue
      <4> QED
        BY <1>5, <2>1, <2>3, <4>1, <4>2, <4>3 DEF Good, Says, Missing
    <3>3. CASE p.stat[f] = 0 /\ disk[f] # 0
      <4>1. marks[f] = disk[f] /\ f \in lagged'
        BY <2>3, <3>1, <3>3 DEF Mark
      <4> QED
        BY <2>1, <4>1 DEF Says
    <3>4. CASE p.stat[f] = 0 /\ disk[f] = 0
      <4>1. marks[f] = p.marks[f]
        BY <3>1, <3>4 DEF Mark
      <4> QED
        BY <2>1, <3>4, <4>1 DEF Says
    <3> QED
      BY <3>2, <3>3, <3>4
  <2>4. CASE p.read[f] # 0 /\ f \notin landed
    <3>1. marks[f] = p.marks[f]
      BY <2>4 DEF LandedMarks
    <3>2. Says(p.marks[f], f)' => Says(p.marks[f], f)
      BY DEF Says
    <3>3. Says(p.marks[f], f) => Good(p.ws, f) /\ disk[f] # 0
      BY <1>1 DEF Vouched, Says
    <3>4. Good(p.ws, f) /\ disk[f] # 0 => Good(p.ws, f)'
      BY <1>1, <1>6 DEF GoodKept
    <3> QED
      BY <2>1, <3>1, <3>2, <3>3, <3>4 DEF Says
  <2> QED
    BY <2>2, <2>3, <2>4
<1>8. marks \in Marks /\ UpTo(marks)
  <2>1. \A f \in Files : marks[f] \in Version /\ marks[f] <= edits + 1
    BY <1>7
  <2>2. marks = [f \in Files |-> marks[f]]
    BY DEF LandedMarks
  <2> QED
    BY <2>1, <2>2 DEF Marks, UpTo
<1>9. Vouched(marks, p.ws)'
  BY <1>7 DEF Vouched
<1> QED
  BY <1>3, <1>6, <1>8, <1>9

\* So does its landing, which marks the files and saves the checkpoint.
LEMMA LandKeeps == ASSUME IInv, NEW r \in Runs, Land(r) PROVE IInv'
<1>1. PICK p : p = run[r]
  OBVIOUS
<1>2. PICK landed : landed = EdgeBatch(p) \ p.failed
  OBVIOUS
<1>3. PICK marks : marks = LandedMarks(p, landed)
  OBVIOUS
<1>4. PICK saved : saved = ((r \in CliRuns \/ p.resume) /\ landed # {})
  OBVIOUS
<1>5. PICK o : o = [p EXCEPT !.marks = IF saved THEN marks ELSE @]
  OBVIOUS
<1>6. PICK q : q = EdgesFrom(o, p.done \cup EdgeBatch(p))
  OBVIOUS
<1>7. /\ p.pc = "land"
      /\ ckpt' = IF saved THEN [ckpt EXCEPT ![p.root] = [ws |-> p.ws, marks |-> marks]] ELSE ckpt
      /\ run' = [run EXCEPT ![r] = q]
      /\ resolved' = [resolved EXCEPT ![p.ws] = [f \in Files |->
                         IF f \in landed THEN References(p, f) ELSE @[f]]]
      /\ lagged' = lagged \cup {f \in landed : p.stat[f] = 0}
      /\ UNCHANGED <<disk, nodes, links, edits, faults>>
  BY <1>1, <1>2, <1>3, <1>4, <1>5, <1>6 DEF Land, Becomes
<1>8. /\ p \in RunRecord /\ RunInv(r, p) /\ p.ws \in Workspaces /\ p.root \in Roots
      /\ landed \subseteq Files /\ p.done \cup EdgeBatch(p) \in SUBSET Files
      /\ Vouched(p.marks, p.ws) /\ UpTo(p.marks) /\ UpTo(p.read) /\ UpTo(p.stat)
  <2>1. p \in RunRecord /\ RunInv(r, p)
    BY <1>1 DEF IInv, TypeOK
  <2>2. Vouched(p.marks, p.ws) /\ UpTo(p.marks) /\ UpTo(p.read) /\ UpTo(p.stat)
    BY <1>1, <1>7 DEF IInv, RunVouched, Fresh
  <2>3. EdgeBatch(p) \subseteq Files /\ p.done \subseteq Files
    BY <2>1, BatchTyped DEF RunRecord
  <2> QED
    BY <1>2, <1>7, <2>1, <2>2, <2>3 DEF RunInv, Placed
<1>9. /\ GoodKept /\ marks \in Marks /\ UpTo(marks) /\ Vouched(marks, p.ws)'
      /\ resolved' \in [Workspaces -> [Files -> SUBSET Files]]
  <2>1. Noted(p, landed)
    BY <1>7 DEF Noted
  <2> QED
    BY <1>1, <1>2, <1>3, <1>7, <2>1, LandedVouched
<1>10. /\ o \in RunRecord /\ o.marks \in {marks, p.marks}
       /\ o.pc = p.pc /\ o.ws = p.ws /\ o.root = p.root /\ o.resume = p.resume
       /\ o.read = p.read /\ o.stat = p.stat /\ o.todo = p.todo
  <2>1. o \in RunRecord
    BY <1>5, <1>8, <1>9 DEF RunRecord
  <2> QED
    BY <1>5, <1>8, <2>1 DEF RunRecord
<1>11. Goes(o, q)
  BY <1>6, <1>8, <1>10, EdgesGo
<1>12. run'[r] = q /\ StepOf(r)
  BY <1>1, <1>7 DEF StepOf, IInv, TypeOK
<1>13. RunInv(r, q)'
  <2>1. Placed(o) /\ BelowRoot(o) /\ WritesAll(r, o)
    BY <1>8, <1>10 DEF RunInv, Placed, BelowRoot, WritesAll, Working
  <2>2. StatTrue(o)' /\ Outrun(o)'
    BY <1>7, <1>8, <1>10 DEF RunInv, StatTrue, Says, Outrun, Working
  <2> QED
    BY <1>6, <1>7, <1>8, <1>10, <2>1, <2>2, PassEnds
<1>14. TypeOK'
  <2>1. ckpt' \in [Roots -> [ws : Workspaces \cup {None}, marks : Marks]]
    BY <1>7, <1>8, <1>9 DEF IInv, TypeOK
  <2>2. run' \in [Runs -> RunRecord]
    BY <1>7, <1>11 DEF Goes, IInv, TypeOK
  <2>3. lagged' \subseteq Files
    BY <1>7, <1>8 DEF IInv, TypeOK
  <2> QED
    BY <1>7, <1>9, <2>1, <2>2, <2>3 DEF IInv, TypeOK
<1>15. Fresh'
  <2>1. UpTo(run[r].marks)' /\ UpTo(run[r].read)' /\ UpTo(run[r].stat)'
    <3>1. UpTo(q.marks) /\ UpTo(q.read) /\ UpTo(q.stat)
      BY <1>8, <1>9, <1>10, <1>11, NoMarksUpTo DEF Goes, IInv
    <3> QED
      BY <1>7, <1>12, <3>1 DEF UpTo
  <2>2. ASSUME NEW d \in Roots PROVE UpTo(ckpt[d].marks)'
    <3>1. ckpt'[d].marks \in {ckpt[d].marks, marks}
      BY <1>7, <1>8 DEF IInv, TypeOK
    <3> QED
      BY <1>7, <1>9, <3>1 DEF UpTo, IInv, Fresh
  <2>3. \A w \in Workspaces : UpTo(nodes[w])'
    BY <1>7 DEF UpTo, IInv, Fresh
  <2> QED
    BY <1>12, <2>1, <2>2, <2>3, FreshKept
<1>16. CkptVouched'
  <2> SUFFICES ASSUME NEW d \in Roots, NEW w \in Workspaces, ckpt'[d].ws = w
               PROVE  Vouched(ckpt[d].marks, w)'
    BY DEF CkptVouched
  <2>1. CASE saved /\ d = p.root
    <3>1. ckpt'[d].marks = marks /\ w = p.ws
      BY <1>7, <1>8, <2>1 DEF IInv, TypeOK
    <3> QED
      BY <1>9, <3>1 DEF Vouched
  <2>2. CASE ~(saved /\ d = p.root)
    <3>1. ckpt'[d] = ckpt[d]
      BY <1>7, <2>2 DEF IInv, TypeOK
    <3>2. PICK m : m = ckpt[d].marks
      OBVIOUS
    <3>3. Vouched(m, w)'
      BY <1>9, <1>12, <3>1, <3>2, VouchedKept DEF IInv, CkptVouched
    <3> QED
      BY <3>1, <3>2, <3>3
  <2> QED
    BY <2>1, <2>2
<1>17. run'[r].pc # "idle" => Vouched(run[r].marks, run[r].ws)'
  <2> SUFFICES ASSUME q.pc # "idle" PROVE Vouched(run[r].marks, run[r].ws)'
    BY <1>12
  <2>1. run'[r].ws = p.ws /\ run'[r].marks \in {marks, p.marks, NoMarks}
    BY <1>10, <1>11, <1>12 DEF Goes
  <2>2. PICK w : w = p.ws
    OBVIOUS
  <2>3. Vouched(marks, w)' /\ Vouched(p.marks, w)' /\ Vouched(NoMarks, w)'
    BY <1>8, <1>9, <1>12, <2>2, VouchedKept, NoMarksVouch
  <2> QED
    BY <2>1, <2>2, <2>3 DEF Vouched
<1>18. RunInv(r, run[r])'
  BY <1>12, <1>13
<1>19. run'[r].ws \in {run[r].ws, None}
  BY <1>1, <1>10, <1>11, <1>12 DEF Goes
<1> QED
  BY <1>9, <1>12, <1>14, <1>15, <1>16, <1>17, <1>18, <1>19, StepKeeps
-----------------------------------------------------------------------------
(* What a reconcile deletes is not on disk as it is in the graph.          *)
LEMMA ReconcileKeeps == ASSUME IInv, NEW r \in Runs, Reconcile(r) PROVE IInv'
<1> DEFINE P == run[r]
           S == {f \in Files : nodes[P.ws][f] # 0 /\ f \notin P.todo}
<1>1. PICK gone \in SUBSET S :
         /\ nodes' = [nodes EXCEPT ![P.ws] = [f \in Files |->
                         IF f \in gone THEN 0 ELSE @[f]]]
         /\ links' = [links EXCEPT ![P.ws] = Cascade(@, gone)]
         /\ resolved' = [resolved EXCEPT ![P.ws] = [f \in Files |-> @[f] \ gone]]
  BY DEF Reconcile
<1>2. PICK p : p = P
  OBVIOUS
<1>3. /\ gone \subseteq {f \in Files : nodes[p.ws][f] # 0 /\ f \notin p.todo}
      /\ nodes' = [nodes EXCEPT ![p.ws] = [f \in Files |->
                         IF f \in gone THEN 0 ELSE @[f]]]
      /\ links' = [links EXCEPT ![p.ws] = Cascade(@, gone)]
      /\ resolved' = [resolved EXCEPT ![p.ws] = [f \in Files |-> @[f] \ gone]]
      /\ p = run[r]
  BY <1>1, <1>2
<1> HIDE DEF P, S
<1>4. /\ p.pc = "reconcile" /\ run' = [run EXCEPT ![r] = Idle]
      /\ UNCHANGED <<disk, ckpt, edits, faults, lagged>>
  BY <1>3 DEF Reconcile, Becomes
<1>5. /\ p \in RunRecord /\ RunInv(r, p) /\ p.ws \in Workspaces
  <2>1. p \in RunRecord /\ RunInv(r, p)
    BY <1>3 DEF IInv, TypeOK
  <2> QED
    BY <1>4, <2>1 DEF RunInv, Placed
<1>6. ASSUME NEW f \in gone PROVE disk[f] # 0 => nodes[p.ws][f] # disk[f]
  BY <1>3, <1>4, <1>5 DEF RunInv, Vanished
<1>7. ASSUME NEW w \in Workspaces, NEW f \in Files
      PROVE  /\ nodes'[w][f] = IF w = p.ws /\ f \in gone THEN 0 ELSE nodes[w][f]
             /\ resolved'[w][f] = IF w = p.ws THEN resolved[w][f] \ gone ELSE resolved[w][f]
  BY <1>3, <1>5 DEF IInv, TypeOK, Marks
<1>8. ASSUME NEW w \in Workspaces
      PROVE  \A e : e \in links'[w] <=>
                   e \in links[w] /\ (w = p.ws => e[1] \notin gone /\ e[2] \notin gone)
  <2>1. CASE w = p.ws
    <3>1. links'[w] = Cascade(links[w], gone)
      BY <1>3, <2>1 DEF IInv, TypeOK
    <3> QED
      BY <2>1, <3>1 DEF Cascade
  <2>2. CASE w # p.ws
    <3>1. links'[w] = links[w]
      BY <1>3, <2>2 DEF IInv, TypeOK
    <3> QED
      BY <2>2, <3>1
  <2> QED
    BY <2>1, <2>2
<1>9. run'[r] = Idle /\ StepOf(r)
  <2>1. \A w \in Workspaces \ {p.ws} : nodes'[w] = nodes[w] /\ links'[w] = links[w]
    BY <1>3 DEF IInv, TypeOK
  <2> QED
    BY <1>3, <1>4, <2>1 DEF StepOf, IInv, TypeOK
<1>10. GoodKept
  <2> SUFFICES ASSUME NEW w \in Workspaces, NEW f \in Files, disk[f] # 0, Good(w, f)
               PROVE  Good(w, f)'
    BY DEF GoodKept
  <2>1. ~(w = p.ws /\ f \in gone)
    BY <1>6 DEF Good
  <2>2. nodes'[w][f] = disk[f]
    BY <1>7, <2>1 DEF Good
  <2>3. ASSUME NEW g \in Missing(w, f)' PROVE g \in Missing(w, f)
    <3>1. g \in resolved[w][f] /\ (w = p.ws => g \notin gone) /\ <<f, g>> \notin links'[w]
      BY <1>7 DEF Missing
    <3>2. <<f, g>> \notin links[w]
      <4>1. <<f, g>>[1] = f /\ <<f, g>>[2] = g
        OBVIOUS
      <4> QED
        BY <1>8, <2>1, <3>1, <4>1
    <3> QED
      BY <3>1, <3>2 DEF Missing
  <2> QED
    BY <1>4, <2>2, <2>3 DEF Good
<1>11. TypeOK'
  <2>1. nodes' \in [Workspaces -> Marks]
    <3>1. [f \in Files |-> IF f \in gone THEN 0 ELSE nodes[p.ws][f]] \in Marks
      BY <1>5, IndexAssumption DEF IInv, TypeOK, Marks, Version
    <3> QED
      BY <1>3, <3>1 DEF IInv, TypeOK
  <2>2. links' \in [Workspaces -> SUBSET (Files \X Files)]
    BY <1>3, <1>5 DEF IInv, TypeOK, Cascade
  <2>3. ASSUME NEW w \in Workspaces, NEW e \in links'[w]
        PROVE  nodes'[w][e[1]] # 0 /\ nodes'[w][e[2]] # 0
    <3>1. /\ e \in links[w] /\ e[1] \in Files /\ e[2] \in Files
          /\ w = p.ws => e[1] \notin gone /\ e[2] \notin gone
      BY <1>8 DEF IInv, TypeOK
    <3>2. nodes[w][e[1]] # 0 /\ nodes[w][e[2]] # 0
      BY <3>1 DEF IInv, TypeOK
    <3>3. ~(w = p.ws /\ e[1] \in gone) /\ ~(w = p.ws /\ e[2] \in gone)
      BY <3>1
    <3> QED
      BY <1>7, <3>1, <3>2, <3>3
  <2>4. resolved' \in [Workspaces -> [Files -> SUBSET Files]]
    BY <1>3, <1>5 DEF IInv, TypeOK
  <2>5. run' \in [Runs -> RunRecord]
    BY <1>4, IdleTyped DEF IInv, TypeOK
  <2> QED
    BY <1>4, <2>1, <2>2, <2>3, <2>4, <2>5 DEF IInv, TypeOK
<1>12. Fresh'
  <2>1. UpTo(run[r].marks)' /\ UpTo(run[r].read)' /\ UpTo(run[r].stat)'
    BY <1>4, <1>9, NoMarksUpTo DEF UpTo, Idle, IInv
  <2>2. ASSUME NEW w \in Workspaces, NEW f \in Files PROVE nodes'[w][f] <= edits + 1
    <3>1. edits \in Nat /\ nodes[w][f] <= edits + 1
      BY IndexAssumption DEF IInv, TypeOK, Fresh, UpTo
    <3>2. nodes'[w][f] \in {0, nodes[w][f]}
      BY <1>7
    <3> QED
      BY <3>1, <3>2
  <2>3. \A w \in Workspaces : UpTo(nodes[w])'
    BY <1>4, <2>2 DEF UpTo
  <2>4. \A d \in Roots : UpTo(ckpt[d].marks)'
    BY <1>4 DEF IInv, Fresh, UpTo
  <2> QED
    BY <1>9, <2>1, <2>3, <2>4, FreshKept
<1>13. RunInv(r, run[r])'
  BY <1>9, IdleKeeps DEF RunInv
<1>14. CkptVouched'
  BY <1>4, <1>9, <1>10, CkptVouchedKept
<1>15. run'[r].ws = None /\ run'[r].pc = "idle"
  BY <1>9 DEF Idle
<1> QED
  BY <1>9, <1>10, <1>11, <1>12, <1>13, <1>14, <1>15, StepKeeps
-----------------------------------------------------------------------------
\* Every step keeps the invariant.
LEMMA IndexKeeps == IInv /\ [Next]_vars => IInv'
<1> SUFFICES ASSUME IInv, [Next]_vars PROVE IInv'
  OBVIOUS
<1>1. ASSUME NEW f \in Files, Edit(f) PROVE IInv'
  BY <1>1, EditKeeps
<1>2. ASSUME NEW q \in Requests, Start(q[1], q[2], q[3], q[4]) PROVE IInv'
  <2>1. q[1] \in Runs /\ q[2] \in Workspaces /\ q[3] \in Roots /\ q[4] \in BOOLEAN
    BY IndexAssumption
  <2> QED
    BY <1>2, <2>1, StartKeeps
<1>3. ASSUME NEW r \in Runs, RunStep(r) PROVE IInv'
  BY <1>3, StatKeeps, NodePassKeeps, ResendNodesKeeps, StoreEdgesKeeps, LandKeeps,
     ReconcileKeeps DEF RunStep
<1>4. ASSUME NEW r \in Runs, RunDies(r) PROVE IInv'
  BY <1>4, RunDiesKeeps
<1>5. ASSUME UNCHANGED vars PROVE IInv'
  BY <1>5 DEF vars, IInv, TypeOK, Fresh, UpTo, OneRun, RunInv, Placed, BelowRoot, WritesAll,
     Working, StatTrue, Outrun, Vanished, BatchIn, EdgesIn, CkptVouched, RunVouched,
     Vouched, Says, Good, Missing
<1> QED
  BY <1>1, <1>2, <1>3, <1>4, <1>5 DEF Next

(* The invariant says what the marks are worth ...                         *)
LEMMA InvariantHonest == IInv => MarksAreHonest
<1> SUFFICES ASSUME IInv PROVE MarksAreHonest
  OBVIOUS
<1>1. ASSUME NEW d \in Roots, NEW w \in Workspaces, NEW f \in Files, Marked(d, w, f)
      PROVE  Good(w, f)
  BY <1>1 DEF IInv, CkptVouched, Vouched, Says, Marked
<1>2. MarkedIsIndexed
  BY <1>1 DEF MarkedIsIndexed, Good
<1>3. MarkedHasLaterEdges
  BY <1>1 DEF MarkedHasLaterEdges, Good
<1> QED
  BY <1>2, <1>3 DEF MarksAreHonest, IInv

(* ... and that a step that writes or deletes nodes finds none current     *)
(* that it would set back.                                                 *)
LEMMA CurrentStays ==
    ASSUME IInv, Next, NEW w \in Workspaces, NEW f \in Files,
           nodes[w][f] # 0, nodes[w][f] = disk[f]
    PROVE  nodes'[w][f] = nodes[w][f]
<1>1. ASSUME NEW r \in Runs, NEW p, p = run[r], Working(p), NEW files \in SUBSET p.todo,
             NEW failed \in SUBSET files, StoreNodes(p, files, failed), disk' = disk
      PROVE  nodes'[w][f] = nodes[w][f]
  <2>1. NodesWritten(p, files, failed)
    BY <1>1, WriteKeeps
  <2> QED
    BY <2>1 DEF NodesWritten
<1>2. ASSUME NEW r \in Runs, NodePass(r) PROVE nodes'[w][f] = nodes[w][f]
  <2>1. PICK p, files : p = run[r] /\ files = NextFiles(p, BatchSize)
    OBVIOUS
  <2>2. PICK failed \in SUBSET files : StoreNodes(p, files, failed)
    BY <1>2, <2>1 DEF NodePass
  <2>3. p \in RunRecord /\ Working(p) /\ disk' = disk
    BY <1>2, <2>1 DEF NodePass, Working, IInv, TypeOK
  <2>4. files \in SUBSET p.todo
    BY <2>1, <2>3, BatchTyped
  <2> QED
    BY <1>1, <2>1, <2>2, <2>3, <2>4
<1>3. ASSUME NEW r \in Runs, ResendNodes(r) PROVE nodes'[w][f] = nodes[w][f]
  <2>1. PICK p, files : p = run[r] /\ files = EdgeBatch(p)
    OBVIOUS
  <2>2. PICK failed \in SUBSET files : StoreNodes(p, files, failed)
    BY <1>3, <2>1 DEF ResendNodes
  <2>3. p \in RunRecord /\ Working(p) /\ disk' = disk
    BY <1>3, <2>1 DEF ResendNodes, Working, IInv, TypeOK
  <2>4. files \in SUBSET p.todo
    BY <2>1, <2>3, BatchTyped
  <2> QED
    BY <1>1, <2>1, <2>2, <2>3, <2>4
<1>4. ASSUME NEW r \in Runs, Reconcile(r) PROVE nodes'[w][f] = nodes[w][f]
  <2> DEFINE P == run[r]
             S == {g \in Files : nodes[P.ws][g] # 0 /\ g \notin P.todo}
  <2>0. PICK gone \in SUBSET S : nodes' = [nodes EXCEPT ![P.ws] = [g \in Files |->
                                            IF g \in gone THEN 0 ELSE @[g]]]
    BY <1>4 DEF Reconcile
  <2>1. PICK p : p = P
    OBVIOUS
  <2>2. /\ gone \subseteq {g \in Files : g \notin p.todo}
        /\ nodes' = [nodes EXCEPT ![p.ws] = [g \in Files |->
                        IF g \in gone THEN 0 ELSE @[g]]]
    BY <2>0, <2>1
  <2>3. p.pc = "reconcile" /\ RunInv(r, p)
    BY <1>4, <2>1 DEF Reconcile, IInv
  <2>4. CASE w = p.ws /\ f \in gone
    BY <2>2, <2>3, <2>4 DEF RunInv, Vanished
  <2>5. CASE ~(w = p.ws /\ f \in gone)
    BY <2>2, <2>5 DEF IInv, TypeOK
  <2> QED
    BY <2>4, <2>5
<1>5. ASSUME nodes' = nodes PROVE nodes'[w][f] = nodes[w][f]
  BY <1>5
<1>6. ASSUME NEW q \in Requests, Start(q[1], q[2], q[3], q[4]) PROVE nodes' = nodes
  BY <1>6 DEF Start
<1>7. ASSUME NEW g \in Files, Edit(g) PROVE nodes' = nodes
  BY <1>7 DEF Edit
<1>8. ASSUME NEW r \in Runs, Stat(r) \/ StoreEdges(r) \/ Land(r) \/ RunDies(r) PROVE nodes' = nodes
  BY <1>8 DEF Stat, StoreEdges, Land, RunDies
<1> QED
  BY <1>2, <1>3, <1>4, <1>5, <1>6, <1>7, <1>8 DEF Next, RunStep
-----------------------------------------------------------------------------
(* What the next resume of any root would skip is in the graph as it is on *)
(* disk, with its edges to the files after it.                             *)
THEOREM MarksTheorem == Spec => []MarksAreHonest
<1>1. Spec => []IInv
  BY IndexInit, IndexKeeps, PTL DEF Spec
<1> QED
  BY <1>1, InvariantHonest, PTL

(* No step deletes or sets back the nodes of what is on disk.              *)
THEOREM CurrentTheorem == Spec => CurrentIsKept
<1>1. Spec => []IInv
  BY IndexInit, IndexKeeps, PTL DEF Spec
<1>2. ASSUME IInv, [Next]_vars
      PROVE  [\A w \in Workspaces, f \in Files :
                nodes[w][f] # 0 /\ nodes[w][f] = disk[f]
                => nodes'[w][f] = nodes[w][f]]_vars
  <2>1. CASE UNCHANGED vars
    BY <2>1
  <2>2. CASE Next
    BY <1>2, <2>2, CurrentStays
  <2> QED
    BY <1>2, <2>1, <2>2
<1> QED
  BY <1>1, <1>2, PTL DEF Spec, CurrentIsKept
=============================================================================

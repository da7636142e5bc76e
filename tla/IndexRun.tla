------------------------------ MODULE IndexRun ------------------------------
(***************************************************************************)
(* Indexing a repository, src/src/indexCore.ts with the batch writer and   *)
(* the checkpoint (cli/batchWriter.ts, cli/checkpoint.ts) and its two      *)
(* callers, runRecursiveIndex of cli.ts and runIndexTool of                *)
(* mcp/tools/index.ts: parse every file, write the changed ones (all nodes *)
(* first, then each file's edges), mark what landed so that the next run   *)
(* may skip it, and after a full run remove the nodes of vanished files.   *)
(*                                                                         *)
(* A step is what happens up to the next await; editors change files, runs *)
(* of other workspaces go on and a run dies between any two of them.       *)
(* Symbols, folders and imports are left out: a file is one node, which    *)
(* carries the version of the content it was built from.                   *)
(***************************************************************************)
EXTENDS Integers, Sequences, FiniteSets, Functions

CONSTANTS
    Order,      \* the repository's files, in the order of the walk
    Calls,      \* the files that each file refers to
    Runs,       \* who may index
    CliRuns,    \* those that are atlas index; the others are atlas_index
    Workspaces, \* workspaces the repository is indexed into
    Roots,      \* directories an index may start from
    Walk,       \* the files below each of them
    Requests,   \* the indexes asked for: run, workspace, root, resume
    BatchSize,  \* files in a batch
    MaxEdits,   \* bound: changes of files on disk
    MaxFaults,  \* bound: failed rows and deaths of runs
    None        \* no workspace

Files == Range(Order)

(* The walk comes to f before g.                                           *)
Earlier(f, g) ==
    \E i, j \in DOMAIN Order : i < j /\ Order[i] = f /\ Order[j] = g

ASSUME IndexAssumption ==
    /\ Order \in Seq(Files) /\ IsInjective(Order)
    /\ CliRuns \subseteq Runs /\ None \notin Workspaces
    /\ Calls \in [Files -> SUBSET Files] /\ Walk \in [Roots -> SUBSET Files]
    /\ Requests \subseteq Runs \X Workspaces \X Roots \X BOOLEAN
    /\ BatchSize \in Nat \ {0} /\ MaxEdits \in Nat /\ MaxFaults \in Nat

VARIABLES
    disk,       \* version of each file, 0: not there
    nodes,      \* version of each file's nodes in a workspace's graph
    links,      \* the edges of the graph
    ckpt,       \* .atlas/index-state.json of each root
    run,        \* what each run is doing
    edits,      \* changes on disk so far
    faults,     \* faults so far
    \* bookkeeping of the properties
    resolved,   \* the references each file's landed edges came from
    lagged      \* files whose content was written between their parse and stat

vars == <<disk, nodes, links, ckpt, run, edits, faults, resolved, lagged>>

(* Every change on disk gives a new fingerprint (mtime and size).          *)
Version == 0..(MaxEdits + 1)
Marks == [Files -> Version]
NoMarks == [f \in Files |-> 0]

(* pc      the next step: the call a run awaits, or what follows it        *)
(* marks   the checkpoint in memory                                        *)
(* read    the version parsed of each file, 0: not walked                  *)
(* stat    statAtParse                                                     *)
(* todo    the files to write                                              *)
(* done    those that the pass has dealt with                              *)
(* failed  files of the batch in hand that have not landed                 *)
Idle == [pc |-> "idle", ws |-> None, root |-> None, resume |-> TRUE,
         marks |-> NoMarks, read |-> NoMarks, stat |-> NoMarks,
         todo |-> {}, done |-> {}, failed |-> {}]

RunRecord ==
    [pc : {"idle", "stat", "nodes", "resend", "edges", "land", "reconcile"},
     ws : Workspaces \cup {None}, root : Roots \cup {None}, resume : BOOLEAN,
     marks : Marks, read : Marks, stat : Marks,
     todo : SUBSET Files, done : SUBSET Files, failed : SUBSET Files]

TypeOK ==
    /\ disk \in Marks
    /\ nodes \in [Workspaces -> Marks]
    /\ links \in [Workspaces -> SUBSET (Files \X Files)]
    /\ \A w \in Workspaces : \A e \in links[w] :
           nodes[w][e[1]] # 0 /\ nodes[w][e[2]] # 0
    /\ ckpt \in [Roots -> [ws : Workspaces \cup {None}, marks : Marks]]
    /\ run \in [Runs -> RunRecord]
    /\ edits \in 0..MaxEdits /\ faults \in 0..MaxFaults
    /\ resolved \in [Workspaces -> [Files -> SUBSET Files]]
    /\ lagged \subseteq Files

Init ==
    /\ disk = [f \in Files |-> 1]
    /\ nodes = [w \in Workspaces |-> NoMarks]
    /\ links = [w \in Workspaces |-> {}]
    /\ ckpt = [d \in Roots |-> [ws |-> None, marks |-> NoMarks]]
    /\ run = [r \in Runs |-> Idle]
    /\ edits = 0 /\ faults = 0
    /\ resolved = [w \in Workspaces |-> [f \in Files |-> {}]]
    /\ lagged = {}

Becomes(r, record) == run' = [run EXCEPT ![r] = record]

(* So many calls or rows of a call fail in this step.                      *)
Faults(n) ==
    /\ faults + n <= MaxFaults
    /\ faults' = faults + n
-----------------------------------------------------------------------------
(* A file is written or removed by an editor, or by git.                   *)
Edit(f) ==
    /\ edits < MaxEdits
    /\ edits' = edits + 1
    /\ \/ disk' = [disk EXCEPT ![f] = edits + 2]
       \/ disk[f] # 0 /\ disk' = [disk EXCEPT ![f] = 0]
    /\ lagged' = lagged \ {f}
    /\ UNCHANGED <<nodes, links, ckpt, run, faults, resolved>>

(* loadCheckpoint: fingerprints of another workspace do not count.         *)
Loaded(d, w) == IF ckpt[d].ws = w THEN ckpt[d].marks ELSE NoMarks

(* The in-flight mark and the writer lock admit one run of a workspace.    *)
MayStart(w) == \A q \in Runs : run[q].ws # w

(* Mutant: a marked file is skipped, changed or not. *)
NeedsIfUnmarked(f, marks) == marks[f] = 0

(* needsReindex: no mark, or not of what is on disk.                       *)
NeedsReindex(f, marks) == marks[f] = 0 \/ marks[f] # disk[f]

ToWrite(p, marks) ==
    {f \in Files : p.read[f] # 0 /\ (~p.resume \/ NeedsReindex(f, marks))}

(* An index begins and parses every file below its root.  The command line *)
(* has loaded the checkpoint and decides now which files to write.         *)
Start(r, w, d, resume) ==
    /\ run[r].pc = "idle"
    /\ MayStart(w)
    /\ LET p == [Idle EXCEPT
                   !.pc = "stat", !.ws = w, !.root = d, !.resume = resume,
                   !.marks = IF r \in CliRuns THEN Loaded(d, w) ELSE NoMarks,
                   !.read = [f \in Files |-> IF f \in Walk[d] THEN disk[f] ELSE 0]]
       IN  Becomes(r, [p EXCEPT !.todo = IF r \in CliRuns THEN ToWrite(p, p.marks)
                                         ELSE {}])
    /\ UNCHANGED <<disk, nodes, links, ckpt, edits, faults, resolved, lagged>>

(* Then it is fingerprinted; atlas_index loads the checkpoint, if it       *)
(* resumes, and decides what to write only now.                            *)
Stat(r) ==
    LET p == run[r]
        marks == IF r \in CliRuns THEN p.marks
                 ELSE IF p.resume THEN Loaded(p.root, p.ws) ELSE NoMarks
    IN  /\ p.pc = "stat"
        /\ Becomes(r, [p EXCEPT
                 !.pc = "nodes", !.marks = marks,
                 !.stat = [f \in Files |-> IF p.read[f] # 0 THEN disk[f] ELSE 0],
                 !.todo = IF r \in CliRuns THEN @ ELSE ToWrite(p, marks)])
        /\ lagged' = lagged \cup {f \in Files : p.read[f] \notin {0, disk[f]}}
        /\ UNCHANGED <<disk, nodes, links, ckpt, edits, faults, resolved>>
-----------------------------------------------------------------------------
(* Mutant: a full run of a part of the repository reconciles too. *)
ReconcilesIfFull(p) == ~p.resume

(* Only a full run that covers the whole repository reconciles.            *)
Reconciles(p) == ~p.resume /\ Walk[p.root] = Files

(* What follows when the edge pass has dealt with some files: its next     *)
(* batch, the reconcile, or the end of the run.                            *)
EdgesFrom(p, done) ==
    CASE done # p.todo -> [p EXCEPT !.pc = "resend", !.done = done, !.failed = {}]
      [] done = p.todo /\ Reconciles(p) ->
            [Idle EXCEPT !.pc = "reconcile", !.ws = p.ws, !.root = p.root,
                         !.resume = p.resume, !.todo = p.todo]
      [] OTHER -> Idle

(* The next files of a pass in the order of the walk, n of them at most.   *)
NextFiles(p, n) ==
    LET left == p.todo \ p.done
    IN  {f \in left : Cardinality({g \in left : Earlier(g, f)}) < n}

(* bulkStoreNodes upserts; the rows of failed files are refused.           *)
StoreNodes(p, files, failed) ==
    nodes' = [nodes EXCEPT ![p.ws] = [f \in Files |->
                 IF f \in files \ failed THEN p.read[f] ELSE @[f]]]

(* The node pass: a flush for every BatchSize files, whose failures are    *)
(* nobody's, because the nodes come again with the edges.                  *)
NodePass(r) ==
    LET p == run[r]
        files == NextFiles(p, BatchSize)
    IN  /\ p.pc = "nodes"
        /\ \E failed \in SUBSET files :
              StoreNodes(p, files, failed) /\ Faults(Cardinality(failed))
        /\ Becomes(r, IF p.done \cup files # p.todo
                      THEN [p EXCEPT !.done = @ \cup files]
                      ELSE EdgesFrom(p, {}))
        /\ UNCHANGED <<disk, links, ckpt, edits, resolved, lagged>>

(* The edge pass adds a file at a time and flushes when BatchSize entries  *)
(* are pending; the first batch also has the entry of the folder edges.    *)
EdgeBatch(p) ==
    NextFiles(p, IF p.done = {} /\ BatchSize > 1 THEN BatchSize - 1 ELSE BatchSize)

ResendNodes(r) ==
    LET p == run[r]
        files == EdgeBatch(p)
    IN  /\ p.pc = "resend"
        /\ \E failed \in SUBSET files :
              /\ StoreNodes(p, files, failed) /\ Faults(Cardinality(failed))
              /\ Becomes(r, [p EXCEPT !.pc = "edges", !.failed = failed])
        /\ UNCHANGED <<disk, links, ckpt, edits, resolved, lagged>>

(* fileForEdge: a lost edge is put down to the first file of the batch     *)
(* that has either of its ends.                                            *)
FilesForEdges(batch, lost) ==
    {f \in batch : \E e \in lost :
        /\ f \in {e[1], e[2]}
        /\ \A g \in batch : Earlier(g, f) => g \notin {e[1], e[2]}}

References(p, f) == {g \in Calls[f] : p.read[g] # 0}

(* bulkStoreEdges, row by row: an edge whose end has no node is refused,   *)
(* as is any other edge that fails.                                        *)
StoreEdges(r) ==
    LET p == run[r]
        batch == EdgeBatch(p)
        sent == {e \in batch \X Files : e[2] \in References(p, e[1])}
        dangling == {e \in sent : 0 \in {nodes[p.ws][e[1]], nodes[p.ws][e[2]]}}
    IN  /\ p.pc = "edges"
        /\ \E refused \in SUBSET (sent \ dangling) :
              /\ Faults(Cardinality(refused))
              /\ links' = [links EXCEPT ![p.ws] =
                              @ \cup (sent \ (dangling \cup refused))]
              /\ Becomes(r, [p EXCEPT !.pc = "land", !.failed =
                                @ \cup FilesForEdges(batch, dangling \cup refused)])
        /\ UNCHANGED <<disk, nodes, ckpt, edits, resolved, lagged>>

(* Mutant: the fingerprint is taken when the batch has landed. *)
MarkAtLanding(p, f) == disk[f]

(* markIndexed: with the fingerprint taken after the parse, or a new one   *)
(* if the file was not there then; the old mark stays if it is still gone. *)
Mark(p, f) ==
    CASE p.stat[f] # 0 -> p.stat[f]
      [] p.stat[f] = 0 /\ disk[f] # 0 -> disk[f]
      [] OTHER -> p.marks[f]

LandedMarks(p, landed) ==
    [f \in Files |-> CASE p.read[f] = 0 -> 0
                       [] p.read[f] # 0 /\ f \in landed -> Mark(p, f)
                       [] OTHER -> p.marks[f]]

(* flush returns what landed; onLanded marks it, drops the marks of files  *)
(* that are gone, and saves the checkpoint.                                *)
Land(r) ==
    LET p == run[r]
        landed == EdgeBatch(p) \ p.failed
        saved == (r \in CliRuns \/ p.resume) /\ landed # {}
        marks == LandedMarks(p, landed)
    IN  /\ p.pc = "land"
        /\ ckpt' = IF saved
                   THEN [ckpt EXCEPT ![p.root] = [ws |-> p.ws, marks |-> marks]]
                   ELSE ckpt
        /\ Becomes(r, EdgesFrom([p EXCEPT !.marks = IF saved THEN marks ELSE @],
                                p.done \cup EdgeBatch(p)))
        /\ resolved' = [resolved EXCEPT ![p.ws] = [f \in Files |->
                           IF f \in landed THEN References(p, f) ELSE @[f]]]
        /\ lagged' = lagged \cup {f \in landed : p.stat[f] = 0}
        /\ UNCHANGED <<disk, nodes, links, edits, faults>>

(* Deleting a node deletes its edges.                                      *)
Cascade(edges, gone) == {e \in edges : {e[1], e[2]} \cap gone = {}}

(* reconcileRepoFiles deletes the nodes that the run has not written, and  *)
(* with them their edges, as far as the deletes succeed; the run is over.  *)
Reconcile(r) ==
    LET p == run[r]
        stale == {f \in Files : nodes[p.ws][f] # 0 /\ f \notin p.todo}
    IN  /\ p.pc = "reconcile"
        /\ \E gone \in SUBSET stale :
              /\ nodes' = [nodes EXCEPT ![p.ws] = [f \in Files |->
                              IF f \in gone THEN 0 ELSE @[f]]]
              /\ links' = [links EXCEPT ![p.ws] = Cascade(@, gone)]
              /\ resolved' = [resolved EXCEPT ![p.ws] =
                                 [f \in Files |-> @[f] \ gone]]
        /\ Becomes(r, Idle)
        /\ UNCHANGED <<disk, ckpt, edits, faults, lagged>>

(* A call throws, or the process is killed: the lock goes with the run.    *)
RunDies(r) ==
    /\ run[r].pc # "idle"
    /\ Faults(1)
    /\ Becomes(r, Idle)
    /\ UNCHANGED <<disk, nodes, links, ckpt, edits, resolved, lagged>>

RunStep(r) ==
    \/ Stat(r) \/ NodePass(r) \/ ResendNodes(r) \/ StoreEdges(r) \/ Land(r)
    \/ Reconcile(r)

Next ==
    \/ \E f \in Files : Edit(f)
    \/ \E q \in Requests : Start(q[1], q[2], q[3], q[4])
    \/ \E r \in Runs : RunStep(r) \/ RunDies(r)

Spec == Init /\ [][Next]_vars

(* A run that has begun goes on, and commit after commit an agent is told  *)
(* to index the repository again from its root, resuming, so that a run    *)
(* which keeps finding the workspace busy gets its turn.                   *)
AfterCommit(w) == {q \in Requests : q[2] = w /\ q[4] /\ Walk[q[3]] = Files}

Fairness ==
    /\ \A r \in Runs : WF_vars(RunStep(r))
    /\ \A w \in Workspaces :
          SF_vars(\E q \in AfterCommit(w) : Start(q[1], q[2], q[3], q[4]))

FairSpec == Spec /\ Fairness
-----------------------------------------------------------------------------
(* The next resume of the root into w skips f.                             *)
Marked(d, w, f) ==
    /\ ckpt[d].ws = w
    /\ disk[f] # 0 /\ ckpt[d].marks[f] = disk[f]
    /\ f \notin lagged

(* What a resume skips is in the graph as it is on disk: no order of       *)
(* deaths, failed writes, edits, runs from other roots and into other      *)
(* workspaces leaves a mark on something stale.  (lagged: a file edited    *)
(* between its parse and its fingerprint is marked with content that was   *)
(* not read; the comments on MTIME-AT-PARSE do not see that gap.)          *)
MarkedIsIndexed ==
    \A d \in Roots, w \in Workspaces, f \in Files :
        Marked(d, w, f) => nodes[w][f] = disk[f]

(* ... and so are its edges: "such a file must NOT be checkpointed as      *)
(* landed: its nodes wrote but some edges did not" (BatchWriter.flush).    *)
(* Edges to files walked before it are excepted, because fileForEdge puts  *)
(* the loss of such an edge down to the other file.                        *)
Missing(w, f) == {g \in resolved[w][f] : <<f, g>> \notin links[w]}

MarkedHasLaterEdges ==
    \A d \in Roots, w \in Workspaces, f \in Files :
        Marked(d, w, f) => \A g \in Missing(w, f) : Earlier(g, f)

(* The nodes of what is on disk are never deleted, by a reconcile of a     *)
(* part of the repository, nor overwritten with older content.             *)
CurrentIsKept ==
    [][\A w \in Workspaces, f \in Files :
          nodes[w][f] # 0 /\ nodes[w][f] = disk[f]
          => nodes'[w][f] = nodes[w][f]]_vars

(* When the edits end, every workspace comes to have every file as it is.  *)
CatchesUp ==
    <>[]\A w \in Workspaces, f \in Files :
            disk[f] \in {0, nodes[w][f]} \/ f \in lagged

(* What the next resume would skip is in the graph, with its edges.        *)
MarksAreHonest == TypeOK /\ MarkedIsIndexed /\ MarkedHasLaterEdges
=============================================================================

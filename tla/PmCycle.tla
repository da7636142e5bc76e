------------------------------ MODULE PmCycle ------------------------------
(***************************************************************************)
(* The loop by which a project manager without a store records an approved *)
(* change request in the ledger: pull --rebase, write one decision, commit *)
(* the ledger alone, push with retries (src/scripts/pm-memory-cycle.mjs,   *)
(* pmDecision.ts, the append path of memoryFile.ts), while developers push *)
(* to the same branch.                                                     *)
(*                                                                         *)
(* A ledger gives each key a line or "none".  A line's header date and its *)
(* place in the file only tell whether two files are the same text.        *)
(***************************************************************************)
EXTENDS Integers, Sequences, SequencesExt

CONSTANTS
    Approvals,      \* change requests
    Works,          \* decisions that developers record
    Backing,        \* from an edge's key to the work and the request it links
    PushTries,      \* maxRetries
    MaxCycles,      \* bound: cycles that begin
    MaxAppends,     \* bound: calls of `memory append`
    MaxDevPushes,   \* bound: pushes of developers
    MaxMishaps      \* bound: failed pulls, pushes and records, and kills

ASSUME PmAssumption ==
    /\ Backing \in [DOMAIN Backing -> Works \X Approvals]
    /\ PushTries \in Nat \ {0}
    /\ {MaxCycles, MaxAppends, MaxDevPushes, MaxMishaps} \subseteq Nat

VARIABLES
    hub,        \* the remote branch: its tip, its last change of the ledger, the ledger
    seen,       \* hub as the PM's clone last fetched it
    commits,    \* the ledgers of the local commits on top of seen
    clone,       \* the ledger in the PM's working tree
    dirty,      \* the working tree's file is not that of the last commit
    cycle,      \* the running cycle
    told,       \* requests of which a cycle answered that it committed and pushed
    recorded,   \* requests whose decision was written by a cycle
    newer,     \* keys developers changed after the PM last wrote them
    retired,    \* decisions that somebody withdrew, superseded or wrote without the contract
    spent       \* of each bound

pm == <<hub, seen, commits, clone, dirty, cycle, told, recorded, newer, retired, spent>>

LedgerKeys == Approvals \cup Works \cup DOMAIN Backing
Blank == [k \in LedgerKeys |-> "none"]

\* unionMemoryJsonl: the lines of both, ours where both have one.
Unite(ours, theirs) ==
    [k \in LedgerKeys |-> IF ours[k] # "none" THEN ours[k] ELSE theirs[k]]

Spend(what) ==
    /\ spent[what] < (CASE what = "cycles" -> MaxCycles [] what = "appends" -> MaxAppends
                        [] what = "pushes" -> MaxDevPushes [] what = "mishaps" -> MaxMishaps)
    /\ spent' = [spent EXCEPT ![what] = @ + 1]

NoCycle == [at |-> "idle", of |-> "none", line |-> "none", dated |-> TRUE, tries |-> 0]

PmInit ==
    /\ hub = [tip |-> 0, text |-> 0, ledger |-> Blank] /\ seen = hub
    /\ commits = <<>> /\ clone = Blank /\ dirty = FALSE
    /\ cycle = NoCycle /\ told = {} /\ recorded = {} /\ newer = {} /\ retired = {}
    /\ spent = [w \in {"cycles", "appends", "pushes", "mishaps"} |-> 0]

-----------------------------------------------------------------------------
(* What may be written.                                                    *)

\* validatePmDecision: "odd" stands for a decision of the PM that breaks the
\* contract: no status, another id than its request's, a stale hash.
PmLines == {"approved", "again", "withdrawn", "superseded"}
PmValid(k, line) == k \in Approvals => line \in PmLines

\* appendMemoryEntries: "hollow" stands for a line without id, content or endpoints.
Appendable(lines) == \A k \in DOMAIN lines : lines[k] # "hollow"

\* What `memory append` is called with: a withdrawal, a decision that breaks the
\* contract, edges, and one hollow line among good ones.
Batches ==
    {[k \in {of} |-> line] : of \in Approvals, line \in {"withdrawn", "odd"}} \cup
    {[k \in {e, Backing[e][2]} |-> IF k = e THEN "link" ELSE line] :
        e \in DOMAIN Backing, line \in {"hollow", "superseded"}}

LedgerOf(lines) == [k \in LedgerKeys |-> IF k \in DOMAIN lines THEN lines[k] ELSE "none"]

\* `memory append [--pm]`: all the lines or, when one is refused, none.
Append_(lines, asPm) ==
    /\ cycle.at = "idle" /\ Spend("appends")
    /\ Appendable(lines) /\ (asPm => \A k \in DOMAIN lines : PmValid(k, lines[k]))
    /\ clone' = Unite(LedgerOf(lines), clone) /\ dirty' = TRUE
    /\ newer' = newer \ DOMAIN lines
    /\ retired' = retired \cup (DOMAIN lines \cap Approvals)
    /\ UNCHANGED <<hub, seen, commits, cycle, told, recorded>>

AppendRefused(lines, asPm) ==
    /\ cycle.at = "idle" /\ Spend("appends")
    /\ ~(Appendable(lines) /\ (asPm => \A k \in DOMAIN lines : PmValid(k, lines[k])))
    /\ UNCHANGED <<hub, seen, commits, clone, dirty, cycle, told, recorded, newer, retired>>

-----------------------------------------------------------------------------
(* The cycle.                                                              *)

\* A request, approved or approved again with another content; the date is the
\* approval's own, or the day of the call.
BeginCycle(k, line, dated) ==
    /\ cycle.at = "idle" /\ Spend("cycles")
    /\ cycle' = [at |-> "pull", of |-> k, line |-> line, dated |-> dated, tries |-> 0]
    /\ UNCHANGED <<hub, seen, commits, clone, dirty, told, recorded, newer, retired>>

(* Mutant: the union takes the PM's line where both have one. *)
ReplayedOver ==
    LET over[i \in 0 .. Len(commits)] == IF i = 0 THEN hub.ledger ELSE Unite(commits[i], over[i - 1])
    IN  [i \in DOMAIN commits |-> over[i]]

\* git pull --rebase: each local commit is replayed, with upstream's lines as ours.
Replayed ==
    IF hub.text = seen.text THEN commits
    ELSE LET over[i \in 0 .. Len(commits)] == IF i = 0 THEN hub.ledger ELSE Unite(over[i - 1], commits[i])
         IN  [i \in DOMAIN commits |-> over[i]]

TopOf(above, under) == IF above = <<>> THEN under.ledger ELSE Last(above)

Rebase ==
    /\ ~dirty
    /\ commits' = Replayed /\ seen' = hub /\ clone' = TopOf(Replayed, hub)

\* A pull fails over a dirty tree, and may fail over a network; the cycle goes on.
PullFails == (dirty /\ UNCHANGED spent) \/ Spend("mishaps")

PullFirst ==
    /\ cycle.at = "pull"
    /\ \/ Rebase /\ UNCHANGED <<dirty, spent>>
       \/ PullFails /\ UNCHANGED <<commits, seen, clone, dirty>>
    /\ cycle' = [cycle EXCEPT !.at = "record"]
    /\ UNCHANGED <<hub, told, recorded, newer, retired>>

\* recordPmDecision: the id is the request's, so that a second call replaces the
\* first one's line; a dated call that wrote this line before changes no byte.
Record ==
    /\ cycle.at = "record"
    /\ clone' = Unite(LedgerOf([k \in {cycle.of} |-> cycle.line]), clone)
    /\ dirty' = (dirty \/ ~cycle.dated \/ clone[cycle.of] # cycle.line)
    /\ recorded' = recorded \cup {cycle.of}
    /\ newer' = newer \ {cycle.of} /\ UNCHANGED retired
    /\ cycle' = [cycle EXCEPT !.at = "commit"]
    /\ UNCHANGED <<hub, seen, commits, told, spent>>

\* pm-record fails, and nothing is committed.
RecordFails ==
    /\ cycle.at = "record" /\ Spend("mishaps")
    /\ cycle' = NoCycle
    /\ UNCHANGED <<hub, seen, commits, clone, dirty, told, recorded, newer, retired>>

Commit ==
    /\ cycle.at = "commit" /\ dirty
    /\ commits' = Append(commits, clone) /\ dirty' = FALSE
    /\ cycle' = [cycle EXCEPT !.at = "push"]
    /\ UNCHANGED <<hub, seen, clone, told, recorded, newer, retired, spent>>

\* Nothing staged: the answer is committed: false, pushed: true, without a push.
AtRest ==
    /\ cycle.at = "commit" /\ ~dirty
    /\ cycle' = NoCycle
    /\ UNCHANGED <<hub, seen, commits, clone, dirty, told, recorded, newer, retired, spent>>

\* The remote takes commits on top of its tip and no others.
PushOn ==
    /\ cycle.at = "push" /\ seen.tip = hub.tip
    /\ hub' = [tip |-> hub.tip + 1, text |-> hub.tip + 1, ledger |-> TopOf(commits, hub)]
    /\ seen' = hub' /\ commits' = <<>>
    /\ told' = told \cup {cycle.of}
    /\ cycle' = NoCycle
    /\ UNCHANGED <<clone, dirty, recorded, newer, retired, spent>>

PushFails ==
    /\ cycle.at = "push"
    /\ \/ seen.tip # hub.tip /\ UNCHANGED spent
       \/ Spend("mishaps")
    /\ cycle' = [cycle EXCEPT !.at = "repull"]
    /\ UNCHANGED <<hub, seen, commits, clone, dirty, told, recorded, newer, retired>>

\* After the last try the cycle ends with its commit in the clone.
Repull ==
    /\ cycle.at = "repull"
    /\ \/ Rebase /\ UNCHANGED <<dirty, spent>>
       \/ PullFails /\ UNCHANGED <<commits, seen, clone, dirty>>
    /\ cycle' = IF cycle.tries + 1 < PushTries
                THEN [cycle EXCEPT !.at = "push", !.tries = @ + 1] ELSE NoCycle
    /\ UNCHANGED <<hub, told, recorded, newer, retired>>

Killed ==
    /\ cycle.at # "idle" /\ Spend("mishaps")
    /\ cycle' = NoCycle
    /\ UNCHANGED <<hub, seen, commits, clone, dirty, told, recorded, newer, retired>>

\* A developer pushes code alone, a work, its edge to a request, or a decision that
\* is superseded in a store that had imported it.
DevPushes ==
    /\ Spend("pushes")
    /\ \/ hub' = [hub EXCEPT !.tip = @ + 1] /\ UNCHANGED <<newer, retired>>
       \/ \E k \in LedgerKeys :
            /\ k \in Approvals => hub.ledger[k] \in {"approved", "again"}
            /\ hub' = [tip |-> hub.tip + 1, text |-> hub.tip + 1,
                       ledger |-> [hub.ledger EXCEPT ![k] =
                           CASE k \in Approvals -> "superseded" [] k \in Works -> "work"
                             [] OTHER -> "link"]]
            /\ newer' = newer \cup {k}
            /\ retired' = retired \cup ({k} \cap Approvals)
    /\ UNCHANGED <<seen, commits, clone, dirty, cycle, told, recorded>>

Cycle ==
    \/ \E k \in Approvals, line \in {"approved", "again"}, dated \in BOOLEAN : BeginCycle(k, line, dated)
    \/ PullFirst \/ Record \/ RecordFails \/ Commit \/ AtRest \/ PushOn \/ PushFails \/ Repull
    \/ Killed \/ DevPushes
    \/ \E lines \in Batches, asPm \in BOOLEAN : Append_(lines, asPm) \/ AppendRefused(lines, asPm)

PmSpec == PmInit /\ [][Cycle]_pm

-----------------------------------------------------------------------------
(* flagUnbackedWork: the works without an edge to an approved decision, for the
   reader of a ledger.  A decision without a status, which "odd" may be, backs. *)
Unbacked(ledger) ==
    {w \in Works : /\ ledger[w] = "work"
                   /\ ~\E e \in DOMAIN Backing :
                         /\ ledger[e] = "link" /\ Backing[e][1] = w
                         /\ ledger[Backing[e][2]] \in {"approved", "again", "odd"}}

\* What a cycle says it committed and pushed is on the remote, whatever was rebased.
PushedIsRemote == \A k \in told : hub.ledger[k] # "none"

\* What was recorded is in the PM's clone until it is on the remote: after kills,
\* failed pushes and cycles that end with their commit in the clone.
NothingForgotten ==
    \A k \in recorded : hub.ledger[k] # "none" \/ clone[k] # "none"

\* A work that developers linked to a request of which a cycle answered is not
\* flagged, unless somebody withdrew or superseded the decision.
BackedIsSilent ==
    \A e \in DOMAIN Backing :
        hub.ledger[e] = "link" /\ Backing[e][2] \in told \ retired =>
            Backing[e][1] \notin Unbacked(hub.ledger)

\* A push takes no line from the remote, and changes none that a developer changed
\* after the PM last wrote it.
PushKeeps ==
    hub'.tip # hub.tip /\ seen' = hub' =>
        /\ \A k \in LedgerKeys : hub.ledger[k] # "none" => hub'.ledger[k] # "none"
        /\ \A k \in newer : hub.ledger[k] # "none" => hub'.ledger[k] = hub.ledger[k]

\* The PM's loop loses nothing of its own or of others (pm-memory-cycle.mjs:33-41).
LedgerKept == [](PushedIsRemote /\ NothingForgotten /\ BackedIsSilent) /\ [][PushKeeps]_pm
=============================================================================

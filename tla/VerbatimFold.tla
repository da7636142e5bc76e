---------------------------- MODULE VerbatimFold ----------------------------
(***************************************************************************)
(* The rate-limited index fold of src/src/mcp/verbatimQueue.ts             *)
(* (maybeFoldVerbatimIndex).  A batch that landed in a workspace's store   *)
(* is durable but invisible to keyword search until a maintenance pass     *)
(* folds it into the indices; each landed batch therefore arms a fold,     *)
(* which runs detached from the flush pass in a single slot.               *)
(*                                                                         *)
(* This module has the slot, the counter and the timer, and the operators  *)
(* that change them; VerbatimQueue composes them with the flush passes.    *)
(***************************************************************************)
EXTENDS Integers

CONSTANTS
    Workspaces,     \* workspace names: one embedded store each
    FoldEvery,      \* VERBATIM_FOLD_EVERY_BATCHES
    None            \* the absent workspace, flusher or pass

ASSUME FoldEveryAssumption == FoldEvery \in Nat \ {0}
ASSUME NoneAssumption      == None \notin Workspaces

VARIABLES
    batchesSinceFold,   \* landed batches since the last fired fold
    foldDue,            \* VERBATIM_FOLD_MIN_INTERVAL_MS passed since then
    foldInFlight,       \* the workspace being folded, or None
    shuttingDown        \* isShuttingDown() of indexDrain.ts

foldVars == <<batchesSinceFold, foldDue, foldInFlight, shuttingDown>>

FoldTypeOK ==
    /\ batchesSinceFold \in Nat
    /\ foldDue \in BOOLEAN
    /\ foldInFlight \in Workspaces \cup {None}
    /\ shuttingDown \in BOOLEAN

(* lastFoldAt starts at 0, so the first landed batch of a process is due. *)
FoldInit ==
    /\ batchesSinceFold = 0
    /\ foldDue = TRUE
    /\ foldInFlight = None
    /\ shuttingDown = FALSE

(* A process that dies takes the slot and the counters with it. *)
FoldReset ==
    /\ batchesSinceFold' = 0
    /\ foldDue' = TRUE
    /\ foldInFlight' = None
    /\ shuttingDown' = FALSE

(* The guards of maybeFoldVerbatimIndex, for a counter that already counts *)
(* the batch that just landed.                                             *)
FoldFires(landed) ==
    /\ foldInFlight = None
    /\ ~shuttingDown
    /\ landed >= FoldEvery \/ foldDue

(* The tail of attemptStore: count the landed batch, then                  *)
(* maybeFoldVerbatimIndex(borrow, ws) -- fire for this workspace or not.   *)
BatchLanded(ws) ==
    LET landed == batchesSinceFold + 1
    IN  /\ UNCHANGED shuttingDown
        /\ IF FoldFires(landed)
           THEN /\ batchesSinceFold' = 0
                /\ foldDue' = FALSE
                /\ foldInFlight' = ws
           ELSE /\ batchesSinceFold' = landed
                /\ UNCHANGED <<foldDue, foldInFlight>>

(* The detached fold's maintenance settles (or its borrow fails): the slot *)
(* frees on that settle, never on the 30 s watch, which only logs.         *)
FoldSettles ==
    /\ foldInFlight # None
    /\ foldInFlight' = None
    /\ UNCHANGED <<batchesSinceFold, foldDue, shuttingDown>>

(* VERBATIM_FOLD_MIN_INTERVAL_MS goes by. *)
FoldIntervalPasses ==
    /\ ~foldDue
    /\ foldDue' = TRUE
    /\ UNCHANGED <<batchesSinceFold, foldInFlight, shuttingDown>>

(* drainIndexWork raises the flag when the daemon starts to shut down.     *)
ShutdownBegins ==
    /\ ~shuttingDown
    /\ shuttingDown' = TRUE
    /\ UNCHANGED <<batchesSinceFold, foldDue, foldInFlight>>
=============================================================================

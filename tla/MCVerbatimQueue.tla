-------------------------- MODULE MCVerbatimQueue ---------------------------
(***************************************************************************)
(* VerbatimQueue on small instances: two workspaces, texts stored once or  *)
(* twice, batches of two.  The .cfg files choose among these values.       *)
(* Beside it, on an instance of their own, the hooks that agents run, by   *)
(* which most texts come: a behaviour is of one of the two sides.          *)
(***************************************************************************)
EXTENDS VerbatimQueue, HookCalls

CONSTANTS a, b, x, y, z, tick, drain

(* Three texts, two in one workspace, so that a batch of two, its probe    *)
(* and the rotation to the other workspace all happen.                     *)
ThreeTexts == {<<a, x>>, <<a, y>>, <<b, z>>}
(* One workspace, two texts.                                               *)
TwoTexts == {<<a, x>>, <<a, y>>}

(* x is a large text: with a budget of 2 it shares a batch with nothing.   *)
LargeX == [id \in Ids |-> IF id = x THEN 3 ELSE 1]
SmallTexts == [id \in Ids |-> 1]

(* The flushers differ in nothing but their name.                          *)
FlusherSymmetry == Permutations(Flushers)

-----------------------------------------------------------------------------
CONSTANTS home, repo, sub, app, part, deps, lib, link, own, appSlug, repoSlug

(* A home with a wired repository and another one, which has a package of  *)
(* its own, a vendored one and a link to it.                               *)
TheTree == (home :> home) @@ (repo :> home) @@ (sub :> repo) @@ (app :> home) @@ (part :> app)
              @@ (deps :> app) @@ (lib :> deps) @@ (link :> app) @@ (own :> home)
LinkToLib == [f \in Folders |-> IF f = link THEN lib ELSE f]
RemoteOfApp == [f \in Folders |-> IF f = app THEN appSlug ELSE NoWorkspace]
NameOfApp == [f \in Folders |-> IF f = app THEN appSlug ELSE repoSlug]
OneInEach == [s \in Sessions |-> IF s = "one" THEN app ELSE repo]
SomeRows == {Row(appSlug, part)}

CONSTANT Sides
VARIABLE side

both == <<side, vars, hookVars>>

BesideInit ==
    /\ side \in Sides
    /\ (side = "hooks" \/ writable = TRUE)
    /\ Init /\ HooksInit

BesideNext ==
    /\ UNCHANGED side
    /\ \/ side = "queue" /\ Next /\ UNCHANGED hookVars
       \/ side = "hooks" /\ HooksNext /\ UNCHANGED vars

\* The queue never stops; the hooks do, at their bounds.
HooksRest == side = "hooks" /\ UNCHANGED both

BesideSpec == BesideInit /\ [][BesideNext \/ HooksRest]_both
BesideFairSpec == BesideSpec /\ Fairness
=============================================================================

----------------------------- MODULE MCIndexRun -----------------------------
(***************************************************************************)
(* IndexRun on a repository of two files that refer to each other, one of  *)
(* them in a directory that may be indexed by itself.                      *)
(***************************************************************************)
EXTENDS IndexRun, TLC

CONSTANTS f, g, whole, sub, w1, w2, cli, daemon

WalkOrder == <<f, g>>
EachOther == (f :> {g}) @@ (g :> {f})
WholeAndSub == (whole :> {f, g}) @@ (sub :> {g})

(* Both index the repository into w1, in full or resuming; the daemon also *)
(* its directory, and the repository into a second workspace.              *)
Several ==
    ({cli, daemon} \X {w1} \X {whole} \X BOOLEAN)
    \cup {<<daemon, w1, sub, FALSE>>, <<daemon, w1, sub, TRUE>>,
          <<daemon, w2, whole, TRUE>>}

(* A full run and resuming ones, all into w1.                              *)
OneWorkspace ==
    {<<cli, w1, whole, FALSE>>, <<cli, w1, whole, TRUE>>,
     <<daemon, w1, whole, TRUE>>, <<daemon, w1, sub, FALSE>>}
=============================================================================

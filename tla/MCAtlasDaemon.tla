---------------------------- MODULE MCAtlasDaemon ----------------------------
(* Two workspaces of an embedded store, the second with native calls that may  *)
(* wedge; a remote Lore; and a supervised one with a single request.           *)
EXTENDS AtlasDaemon

CONSTANTS w1, w2, j1, j2, j3

A(j, w, kind) == [job |-> j, ws |-> w, kind |-> kind]
MCConfigs ==
    { [sidecar |-> FALSE, mode |-> "embedded",
       asks |-> {A(j1, w1, "index"), A(j1, w1, "onboard"), A(j2, w1, "wait")}],
      [sidecar |-> FALSE, mode |-> "embedded", asks |-> {A(j1, w1, "onboard"), A(j3, w2, "index")}],
      [sidecar |-> FALSE, mode |-> "remote",
       asks |-> {A(j1, w1, "index"), A(j1, w1, "onboard"), A(j2, w1, "wait"), A(j2, w1, "background"),
                 A(j3, w1, "background")}],
      [sidecar |-> TRUE, mode |-> "remote", asks |-> {A(j1, w1, "index")}] }
=============================================================================

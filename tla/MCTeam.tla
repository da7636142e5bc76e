------------------------------- MODULE MCTeam -------------------------------
(* Parts around a team's repositories that share no state: the ledger of the  *)
(* developers' clones, the project manager's loop, the installers, the groups *)
(* and who runs the daemon of a machine.  One behaviour is of one of them, and *)
(* the others stay as they are.                                               *)
EXTENDS MCMemoryLedger, ClientConfigs, WiredRepo, MCRepoGroups, PmCycle, DesktopDaemon

(* The wiring: of two repositories, whose paths may begin alike. *)
PathsAlike == {<<"r", "q">>}
SomeCommands ==
    [name : {"install"}, repo : {"r"}, ws : {"a"}] \cup
    [name : {"memory"}, repo : {"r"}, ws : {"b"}] \cup
    [name : {"memory"}, repo : {"q"}, ws : {"a"}] \cup
    [name : {"uninstall"}, repo : {"r", "q"}, ws : {"none"}]

(* The groups. *)
TheEstates == SomeEstates
OneEstate == CHOOSE z \in TheEstates : TRUE
TheMachines == SomeMachines
OneMachine == CHOOSE z \in TheMachines : TRUE

\* The project manager's loop: a work that an edge links to a request.
WorkBacked == "e" :> <<"w", "r">>

-----------------------------------------------------------------------------
VARIABLE part

parts == <<part, vars, configs, wiring, grouping, pm, desktopVars>>

TeamInit ==
    /\ part \in {"ledger", "configs", "wiring", "groups", "pm", "desktop"}
    /\ Init
    /\ (IF part = "configs" THEN TRUE ELSE kind = "json" /\ configFile = Empty) /\ ConfigsInit
    /\ (IF part = "wiring" THEN TRUE ELSE alike = {})
    /\ WiringInit /\ (part # "wiring" => settings["r"] = {"odd"})
    /\ (IF part = "groups" THEN TRUE ELSE form = "yaml" /\ estate = OneEstate /\ machine = OneMachine)
    /\ GroupInit
    /\ PmInit /\ DesktopInit

\* All parts but one stay as they are.
Others(mine) ==
    /\ IF mine = "ledger" THEN TRUE ELSE UNCHANGED vars
    /\ IF mine = "configs" THEN TRUE ELSE UNCHANGED configs
    /\ IF mine = "wiring" THEN TRUE ELSE UNCHANGED wiring
    /\ IF mine = "groups" THEN TRUE ELSE UNCHANGED grouping
    /\ IF mine = "pm" THEN TRUE ELSE UNCHANGED pm
    /\ IF mine = "desktop" THEN TRUE ELSE UNCHANGED desktopVars

TeamNext ==
    /\ UNCHANGED part
    /\ \/ part = "ledger" /\ Next /\ Others("ledger")
       \/ part = "configs" /\ Configure /\ Others("configs")
       \/ part = "wiring" /\ Wire /\ Others("wiring")
       \/ part = "groups" /\ LoadGroup /\ Others("groups")
       \/ part = "pm" /\ Cycle /\ Others("pm")
       \/ part = "desktop" /\ DesktopNext /\ Others("desktop")

\* The ledger never stops; the other parts do, at their bounds.
Rests == part # "ledger" /\ UNCHANGED parts

\* Of the processes on a machine it is known that they go on.
TeamFairness ==
    /\ \A d \in Daemons : WF_desktopVars(part = "desktop" /\ Proceeds(d))
    /\ WF_desktopVars(part = "desktop" /\ LaunchdStarts) /\ WF_desktopVars(part = "desktop" /\ Stopping)

TeamSpec == TeamInit /\ [][TeamNext \/ Rests]_parts /\ TeamFairness

\* A service that waits for the port has it in the end.
PortIsPassedOn == part = "desktop" => ServiceTakesOver
=============================================================================

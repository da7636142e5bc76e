---------------------------- MODULE DesktopDaemon ----------------------------
(* Who runs the daemon: the desktop app (atlas-ui/src-tauri/src/lib.rs), which    *)
(* starts a child of its own or uses the daemon that it finds, the service of      *)
(* launchd (src/cli/service.ts) and `atlas serve` in a terminal; and the bearer    *)
(* token that each home has in a file (src/config.ts).                            *)
EXTENDS Naturals, FiniteSets

CONSTANTS
    AppChildren,       \* processes that apps start: one per start, a bound
    MaxFaults,         \* crashes and kills: a bound
    NoOne

ASSUME DesktopAssumption ==
    /\ MaxFaults \in Nat /\ NoOne \notin AppChildren \cup {"service", "terminal", "cli", "connect"}
    /\ AppChildren \cap {"service", "terminal"} = {}

Daemons == AppChildren \cup {"service", "terminal"}
Home(d) == IF d \in AppChildren THEN "app" ELSE "user"   \* ATLAS_HOME
Minters == Daemons \cup {"cli", "connect"}

VARIABLES
    stage, token,          \* of each daemon, and the token it asks for
    tokenFile,             \* mcp.token of each home: who minted what it holds
    app, child, stopping,  \* the app's events, the child it holds, the one it stops
    abandoned,             \* history: children whose app was killed
    loaded, lastExit,      \* launchd: the job, and how its process ended
    cli, connecting,       \* commands of a user and of the app that may have to mint one
    faults, fell           \* history: crashes and kills; daemons that fell by an exception

daemonVars == <<stage, token>>
appVars == <<app, child, stopping, abandoned>>
jobVars == <<loaded, lastExit>>
tokenVars == <<tokenFile, cli, connecting>>
desktopVars == <<daemonVars, appVars, jobVars, tokenVars, faults, fell>>

Listening == {d \in Daemons : stage[d] \in {"mints", "mintsLast", "serves", "drains"}}
Running(d) == stage[d] \notin {"none", "ended"}

DesktopInit ==
    /\ stage = [d \in Daemons |-> "none"] /\ token = [d \in Daemons |-> NoOne]
    /\ tokenFile = [h \in {"app", "user"} |-> NoOne] /\ cli = "idle" /\ connecting = FALSE
    /\ app = "off" /\ child = NoOne /\ stopping = NoOne /\ abandoned = {}
    /\ loaded = FALSE /\ lastExit = "fresh"
    /\ faults = 0 /\ fell = {}

-----------------------------------------------------------------------------
(* A daemon.                                                                  *)

\* A process is gone: a child of the app is a zombie until its parent has waited.
ProcessEnds(d, how) ==
    /\ stage' = [stage EXCEPT ![d] = IF d \in {child, stopping} THEN "ended" ELSE "none"]
    /\ token' = [token EXCEPT ![d] = NoOne]
    /\ lastExit' = IF d # "service" THEN lastExit ELSE IF lastExit = "reloaded" THEN "fresh" ELSE how
    /\ fell' = fell \ {d}

\* SIGTERM, or what shutdown() does for an exception: a daemon that has opened nothing
\* is quick, and the handler runs when a write of the token is over.
ShutDown(d) ==
    CASE stage[d] = "serves" -> "drains" [] stage[d] \in {"looks", "boots"} -> "closed"
      [] stage[d] = "mints" -> "mintsLast" [] OTHER -> stage[d]

\* `atlas serve`, which the app runs too, prints a URL with the token of its home.
Started(d) == IF tokenFile[Home(d)] = NoOne THEN "looks" ELSE "boots"

Prints(d) ==
    /\ stage[d] = "looks"
    /\ stage' = [stage EXCEPT ![d] = "boots"] /\ tokenFile' = [tokenFile EXCEPT ![Home(d)] = d]
    /\ UNCHANGED <<token, appVars, jobVars, cli, connecting, faults, fell>>

\* ensureMcpAuthToken: the file's token, or one that is minted after a look at the file.
Listens(d) ==
    /\ stage[d] = "boots" /\ Listening = {}
    /\ stage' = [stage EXCEPT ![d] = IF tokenFile[Home(d)] = NoOne THEN "mints" ELSE "serves"]
    /\ token' = [token EXCEPT ![d] = tokenFile[Home(d)]]
    /\ UNCHANGED <<appVars, jobVars, tokenVars, faults, fell>>

Mints(d) ==
    /\ stage[d] \in {"mints", "mintsLast"}
    /\ stage' = [stage EXCEPT ![d] = IF @ = "mints" THEN "serves" ELSE "drains"]
    /\ token' = [token EXCEPT ![d] = d] /\ tokenFile' = [tokenFile EXCEPT ![Home(d)] = d]
    /\ UNCHANGED <<appVars, jobVars, cli, connecting, faults, fell>>

(* Mutant: a daemon that finds its port taken has nothing to do, and says so. *)
PortTakenQuietly(d) ==
    /\ stage[d] = "boots" /\ Listening # {}
    /\ ProcessEnds(d, "clean")
    /\ UNCHANGED <<appVars, loaded, tokenVars, faults>>

\* EADDRINUSE: exit code 1.
PortTaken(d) ==
    /\ stage[d] = "boots" /\ Listening # {}
    /\ ProcessEnds(d, "error")
    /\ UNCHANGED <<appVars, loaded, tokenVars, faults>>

\* An uncaught exception shuts the daemon down as a signal does.
Falls(d) ==
    /\ stage[d] = "serves" /\ faults < MaxFaults
    /\ stage' = [stage EXCEPT ![d] = "drains"]
    /\ faults' = faults + 1 /\ fell' = fell \cup {d}
    /\ UNCHANGED <<token, appVars, jobVars, tokenVars>>

\* The native layer brings the process down.
Crashes(d) ==
    /\ stage[d] = "serves" /\ faults < MaxFaults
    /\ faults' = faults + 1
    /\ ProcessEnds(d, "error")
    /\ UNCHANGED <<appVars, loaded, tokenVars>>

\* Index work has drained, or its 30 s are over, the queue is flushed, the server and
\* the stores are closed.
Closes(d) ==
    /\ stage[d] = "drains"
    /\ stage' = [stage EXCEPT ![d] = "closed"]
    /\ UNCHANGED <<token, appVars, jobVars, tokenVars, faults, fell>>

\* process.exit(hadError ? 1 : 0); no step of the shutdown has thrown.
Exits(d) ==
    /\ stage[d] = "closed"
    /\ ProcessEnds(d, "clean")
    /\ UNCHANGED <<appVars, loaded, tokenVars, faults>>

-----------------------------------------------------------------------------
(* launchd, and the commands that load its job.                               *)

\* RunAtLoad, and KeepAlive {SuccessfulExit: false}.
LaunchdStarts ==
    /\ loaded /\ stage["service"] = "none" /\ lastExit \in {"fresh", "error"}
    /\ stage' = [stage EXCEPT !["service"] = "boots"]
    /\ UNCHANGED <<token, appVars, jobVars, tokenVars, faults, fell>>

Unload == stage' = [stage EXCEPT !["service"] = ShutDown("service")]

\* atlas service install: unload, write, load. The process that it unloads is not the
\* loaded job's.
InstallService ==
    /\ cli = "idle"
    /\ Unload
    /\ loaded' \in BOOLEAN /\ lastExit' = (IF Running("service") THEN "reloaded" ELSE "fresh")
    /\ cli' = IF loaded' THEN "probes" ELSE "idle"
    /\ UNCHANGED <<token, appVars, tokenFile, connecting, faults, fell>>

\* Then the URL, whether a daemon has answered the probe or not.
BuildLaunchUrl ==
    \/ /\ cli = "probes" /\ tokenFile["user"] # NoOne
       /\ cli' = "idle"
       /\ UNCHANGED <<daemonVars, appVars, jobVars, tokenFile, connecting, faults, fell>>
    \/ /\ cli = "probes" /\ tokenFile["user"] = NoOne
       /\ cli' = "mints"
       /\ UNCHANGED <<daemonVars, appVars, jobVars, tokenFile, connecting, faults, fell>>
    \/ /\ cli = "mints"
       /\ cli' = "idle" /\ tokenFile' = [tokenFile EXCEPT !["user"] = "cli"]
       /\ UNCHANGED <<daemonVars, appVars, jobVars, connecting, faults, fell>>

UninstallService ==
    /\ cli = "idle"
    /\ Unload
    /\ loaded' = FALSE /\ lastExit' = (IF Running("service") THEN "reloaded" ELSE "fresh")
    /\ UNCHANGED <<token, appVars, tokenVars, faults, fell>>

ServeHere ==
    /\ stage["terminal"] = "none"
    /\ stage' = [stage EXCEPT !["terminal"] = Started("terminal")]
    /\ UNCHANGED <<token, appVars, jobVars, tokenVars, faults, fell>>

Interrupt ==
    /\ stage["terminal"] \in {"looks", "boots", "mints", "serves"}
    /\ stage' = [stage EXCEPT !["terminal"] = ShutDown("terminal")]
    /\ UNCHANGED <<token, appVars, jobVars, tokenVars, faults, fell>>

-----------------------------------------------------------------------------
(* The app.                                                                   *)

AppOnly == UNCHANGED <<token, jobVars, tokenVars, faults, fell>>

\* It asks for /health, and uses the daemon that answers.
DaemonAlreadyRunning ==
    /\ app = "off"
    /\ app' = IF \E d \in Listening : stage[d] \in {"serves", "drains"} THEN "up" ELSE "spawns"
    /\ UNCHANGED <<stage, child, stopping, abandoned>> /\ AppOnly

\* It starts a child, or says why it cannot.
SpawnAtlasDaemon ==
    /\ app = "spawns"
    /\ app' = "up"
    /\ \/ \E d \in AppChildren :
             /\ stage[d] = "none"
             /\ stage' = [stage EXCEPT ![d] = Started(d)] /\ child' = d
             /\ abandoned' = abandoned \ {d}
       \/ UNCHANGED <<stage, child, abandoned>>
    /\ UNCHANGED stopping /\ AppOnly

\* read_mcp_token: what a page of the app sends, which asks for 3 s and keeps the answer.
ReadMcpToken == tokenFile["app"]

\* atlas_connect: the command line against the app's home, which needs a token too.
AtlasConnect ==
    /\ IF connecting
       THEN tokenFile' = [tokenFile EXCEPT !["app"] = "connect"] /\ connecting' = FALSE
       ELSE app = "up" /\ tokenFile["app"] = NoOne /\ connecting' = TRUE /\ UNCHANGED tokenFile
    /\ UNCHANGED <<daemonVars, appVars, jobVars, cli, faults, fell>>

\* guard.take(), and SIGTERM for what was in it.
TakeChild ==
    /\ stopping' = child /\ child' = NoOne
    /\ stage' = IF child = NoOne THEN stage ELSE [stage EXCEPT ![child] = ShutDown(child)]

\* Both events take the child, in this order; Exit may come alone.
ExitRequested ==
    /\ app = "up"
    /\ TakeChild /\ app' = "requested"
    /\ UNCHANGED abandoned /\ AppOnly

Exit ==
    /\ app \in {"up", "requested"} /\ stopping = NoOne
    /\ TakeChild /\ app' = "exits"
    /\ UNCHANGED abandoned /\ AppOnly

\* The child has ended in its 2 s, and the app has waited for it.
ChildEnds ==
    /\ stopping # NoOne /\ stage[stopping] = "ended"
    /\ stage' = [stage EXCEPT ![stopping] = "none"] /\ stopping' = NoOne
    /\ UNCHANGED <<app, child, abandoned>> /\ AppOnly

(* Mutant: the app does not wait for longer, and does not kill. *)
GraceIsOverThen ==
    /\ stopping # NoOne /\ stage[stopping] # "ended"
    /\ stopping' = NoOne
    /\ UNCHANGED <<daemonVars, app, child, abandoned, jobVars, tokenVars, faults, fell>>

\* SIGKILL after 2 s, whatever the child is at.
GraceIsOver ==
    /\ stopping # NoOne /\ stage[stopping] # "ended"
    /\ stage' = [stage EXCEPT ![stopping] = "none"] /\ token' = [token EXCEPT ![stopping] = NoOne]
    /\ stopping' = NoOne /\ fell' = fell \ {stopping}
    /\ UNCHANGED <<app, child, abandoned, jobVars, tokenVars, faults>>

Gone ==
    /\ app = "exits" /\ stopping = NoOne
    /\ app' = "off"
    /\ UNCHANGED <<stage, child, stopping, abandoned>> /\ AppOnly

\* The app is killed: its child goes on.
AppKilled ==
    /\ app # "off" /\ faults < MaxFaults
    /\ faults' = faults + 1
    /\ app' = "off" /\ child' = NoOne /\ stopping' = NoOne
    /\ abandoned' = abandoned \cup ({child, stopping} \ {NoOne})
    /\ stage' = [d \in Daemons |-> IF stage[d] = "ended" THEN "none" ELSE stage[d]]
    /\ UNCHANGED <<token, jobVars, tokenVars, fell>>

-----------------------------------------------------------------------------
Proceeds(d) == Prints(d) \/ Listens(d) \/ Mints(d) \/ PortTaken(d) \/ Closes(d) \/ Exits(d)
Daemon(d) == Proceeds(d) \/ Falls(d) \/ Crashes(d)
Stopping == ChildEnds \/ GraceIsOver

DesktopNext ==
    \/ \E d \in Daemons : Daemon(d)
    \/ LaunchdStarts \/ InstallService \/ UninstallService \/ BuildLaunchUrl \/ ServeHere \/ Interrupt
    \/ DaemonAlreadyRunning \/ SpawnAtlasDaemon \/ AtlasConnect
    \/ ExitRequested \/ Exit \/ Stopping \/ Gone \/ AppKilled

\* Processes run, launchd throttles and goes on, the app's wait has an end; users and
\* faults owe nothing.
DesktopSpec ==
    /\ DesktopInit /\ [][DesktopNext]_desktopVars
    /\ \A d \in Daemons : WF_desktopVars(Proceeds(d))
    /\ WF_desktopVars(LaunchdStarts) /\ WF_desktopVars(Stopping)

-----------------------------------------------------------------------------
\* Every daemon is in one of its states, and one at most listens.
DesktopTypeOK ==
    /\ stage \in [Daemons -> {"none", "looks", "boots", "mints", "mintsLast", "serves", "drains", "closed", "ended"}]
    /\ Cardinality(Listening) <= 1
    /\ token \in [Daemons -> Minters \cup {NoOne}] /\ tokenFile \in [{"app", "user"} -> Minters \cup {NoOne}]
    /\ {child, stopping} \subseteq AppChildren \cup {NoOne}

\* An app that quits leaves no daemon of its own behind, at whatever point of the
\* daemon's life and by whichever of its events (lib.rs:34-65, 381-396).
NoChildLeft == app = "off" => \A d \in AppChildren \ abandoned : stage[d] = "none"

\* The app signals no process that it has waited for, whose number may be another's
\* by then: not when both of its events come, nor when the child has died before
\* (lib.rs:42-65, 381-396).
SignalsItsChild == stopping # NoOne => stage[stopping] # "none"

\* A service that finds its port taken tries again until it has it: once the app, its
\* children and terminals are gone, and nobody installs it anew, it serves, unless an
\* exception ends it (daemon.ts:326-342, service.ts:203-210).
Alone == loaded /\ cli = "idle" /\ \A d \in Daemons \ {"service"} : stage[d] = "none"
ServiceTakesOver == <>[]Alone /\ []("service" \notin fell) => <>[](stage["service"] = "serves")

\* A token is for good, since pages keep it: once a home has one, and nobody who saw
\* none is still about to write, no start, install or command replaces it, and daemons
\* that begin to serve ask for it (config.ts:406-438).
Minting(h) ==
    \/ \E d \in Daemons : Home(d) = h /\ stage[d] \in {"looks", "mints", "mintsLast"}
    \/ IF h = "user" THEN cli = "mints" ELSE connecting
TokensStay ==
    [][\A d \in Daemons :
          tokenFile[Home(d)] # NoOne /\ ~Minting(Home(d)) =>
              /\ tokenFile'[Home(d)] = tokenFile[Home(d)]
              /\ stage[d] # "serves" /\ stage'[d] = "serves" => token'[d] = tokenFile[Home(d)]]_desktopVars

\* All that is to hold of the daemons at every step.
DesktopHolds == [](DesktopTypeOK /\ NoChildLeft /\ SignalsItsChild) /\ TokensStay
=============================================================================

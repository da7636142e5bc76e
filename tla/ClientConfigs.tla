---------------------------- MODULE ClientConfigs ----------------------------
(* `atlas connect` and `atlas disconnect` (src/cli/ideConnect.ts), and the      *)
(* machine-wide hooks (src/cli/globalWire.ts): the entry of this server in the   *)
(* configuration file of another program, which its user edits too.  The        *)
(* command line and the desktop app may write one file at the same time, and    *)
(* either may die; a file is rewritten in place.                              *)
(*                                                                            *)
(* A file is the sequence of its entries.  Five kinds of file: a JSON map, the  *)
(* same with a list of inputs beside it (VS Code), TOML tables (Codex), a YAML   *)
(* list that registers a hook script (OMP), and the lists of machine-wide hooks. *)
EXTENDS Integers, SequencesExt

CONSTANTS
    Kinds,                 \* subset of {"json", "inputs", "toml", "hook", "global"}
    Writers,
    Theirs,                \* entries that are the user's
    MaxConnects, MaxTouches    \* bounds: commands, and edits by the user

ASSUME ConfigsAssumption ==
    /\ Kinds \subseteq {"json", "inputs", "toml", "hook", "global"} /\ {MaxConnects, MaxTouches} \subseteq Nat
    /\ Theirs \cap {"ours", "env", "legacy"} = {}

VARIABLES
    kind,                  \* of the client
    configFile,                  \* [form, servers, inputs]; form: "fine", or "odd", which
                           \* no reader can take apart; no file is an empty one
    script,                \* the hook script: "none", "ours", "theirs"
    backups,              \* the copies of the file
    writer,                \* for each: its command and step, and what it has read
    put,                   \* history: entries of the user that the file has had
    raced,                 \* history: entries the user added while a writer was between
                           \* its copy and its write
    connects, touches

configs == <<kind, configFile, script, backups, writer, put, raced, connects, touches>>

Empty == [form |-> "fine", servers |-> <<>>, inputs |-> <<>>]
Resting == [cmd |-> "none", step |-> "rest", read |-> Empty]

ConfigsInit ==
    /\ kind \in Kinds
    /\ \E had \in {<<>>} \cup {<<x>> : x \in Theirs \cup {"legacy"}} :
          /\ configFile = [Empty EXCEPT !.servers = had]
          /\ kind \in {"hook", "global"} => ~Contains(had, "legacy")
    /\ script \in (IF kind = "hook" THEN {"none", "theirs"} ELSE {"none"})
    /\ backups = {} /\ writer = [p \in Writers |-> Resting]
    /\ put = ToSet(configFile.servers) \cap Theirs /\ raced = {} /\ connects = 0 /\ touches = 0

OurNames == {"ours", "env", "legacy"}

\* A list without the entries of S: of its first i, for every i.
Without(s, S) ==
    LET left[i \in 0 .. Len(s)] ==
            IF i = 0 THEN <<>> ELSE IF s[i] \in S THEN left[i - 1] ELSE Append(left[i - 1], s[i])
    IN  left[Len(s)]
Foreign(s) == Without(s, OurNames)

FirstOurs(servers) ==
    CHOOSE i \in DOMAIN servers : servers[i] \in OurNames /\ \A j \in 1 .. i - 1 : servers[j] \notin OurNames

\* The server entries once ours is in: an object keeps the place of a key that it
\* has; tables go where the first of ours was; a list is added to at its end;
\* hooks are taken out and put at the end.
PutIn(servers) ==
    LET rest == Without(servers, {"legacy"})
        at == FirstOurs(servers)
    IN  CASE kind = "toml" ->
                 IF ToSet(servers) \cap OurNames = {} THEN servers \o <<"ours", "env">>
                 ELSE Foreign(SubSeq(servers, 1, at)) \o <<"ours", "env">> \o Foreign(SubSeq(servers, at, Len(servers)))
          [] kind = "global" -> Append(Foreign(servers), "ours")
          [] OTHER -> IF Contains(rest, "ours") THEN rest ELSE Append(rest, "ours")

\* The file once connected; our input comes last.
Connected(f) ==
    [f EXCEPT !.servers = PutIn(@),
              !.inputs = IF kind = "inputs" THEN Append(Foreign(@), "ours") ELSE @]

\* The file once disconnected.
Disconnected(f) == [f EXCEPT !.servers = Foreign(@), !.inputs = Foreign(@)]

HasOurs(f) == (ToSet(f.servers) \cup ToSet(f.inputs)) \cap OurNames # {}

AtStep(p, step) == writer[p].step = step
Goes(p, step) == writer' = [writer EXCEPT ![p].step = step]
Finishes(p) == writer' = [writer EXCEPT ![p] = Resting]

\* The file is read.  One that cannot be taken apart ends the command, and so does
\* one with nothing of ours to remove.
ReadsFile(p, cmd) ==
    /\ AtStep(p, "rest") /\ connects < MaxConnects
    /\ connects' = connects + 1
    /\ writer' = IF configFile.form = "odd" \/ (cmd = "disconnect" /\ ~HasOurs(configFile)) THEN writer
                 ELSE [writer EXCEPT ![p] = [cmd |-> cmd, read |-> configFile,
                          step |-> IF kind = "hook" /\ cmd = "connect" THEN "script" ELSE "copy"]]
    /\ UNCHANGED <<kind, configFile, script, backups, put, raced, touches>>

\* A registered hook needs no edit of the list.
Settled(p) == kind = "hook" /\ writer[p].cmd = "connect" /\ HasOurs(writer[p].read)

\* applyOmp: the script comes before the list that names it.
PutsScript(p) ==
    /\ AtStep(p, "script")
    /\ script' = "ours"
    /\ IF Settled(p) THEN Finishes(p) ELSE Goes(p, "copy")
    /\ UNCHANGED <<kind, configFile, backups, put, raced, connects, touches>>

(* Mutant: one copy is kept, of the file as it was before the first command. *)
CopiesOnce(p) ==
    /\ AtStep(p, "copy")
    /\ backups' = IF backups = {} THEN {configFile} ELSE backups
    /\ Goes(p, "write")
    /\ UNCHANGED <<kind, configFile, script, put, raced, connects, touches>>

\* backup: the file as it is now.
Copies(p) ==
    /\ AtStep(p, "copy")
    /\ backups' = backups \cup {configFile}
    /\ Goes(p, "write")
    /\ UNCHANGED <<kind, configFile, script, put, raced, connects, touches>>

\* writeFileSync: what was read, with the entry or without.
WritesFile(p) ==
    /\ AtStep(p, "write")
    /\ configFile' = IF writer[p].cmd = "connect" THEN Connected(writer[p].read) ELSE Disconnected(writer[p].read)
    /\ Finishes(p)
    /\ UNCHANGED <<kind, script, backups, put, raced, connects, touches>>

\* The process dies; in a write, of a file cut off anywhere.
Dies(p) ==
    /\ ~AtStep(p, "rest")
    /\ configFile' \in {configFile} \cup (IF AtStep(p, "write") THEN {Empty, [Empty EXCEPT !.form = "odd"]} ELSE {})
    /\ Finishes(p)
    /\ UNCHANGED <<kind, script, backups, put, raced, connects, touches>>

\* The user adds an entry in a place of their own, breaks the file, or mends it.
Touches ==
    /\ touches < MaxTouches /\ touches' = touches + 1
    /\ \/ \E x \in Theirs, i \in 0 .. Len(configFile.servers) :
             /\ ~Contains(configFile.servers, x)
             /\ configFile' = [configFile EXCEPT !.servers = SubSeq(@, 1, i) \o <<x>> \o SubSeq(@, i + 1, Len(@))]
             /\ put' = put \cup {x}
             /\ raced' = raced \cup (IF \E p \in Writers : AtStep(p, "write") THEN {x} ELSE {})
       \/ configFile' = [configFile EXCEPT !.form = IF @ = "odd" THEN "fine" ELSE "odd"] /\ UNCHANGED <<put, raced>>
    /\ UNCHANGED <<kind, script, backups, writer, connects>>

Configure ==
    \/ \E p \in Writers : \/ ReadsFile(p, "connect") \/ ReadsFile(p, "disconnect")
                          \/ PutsScript(p) \/ Copies(p) \/ WritesFile(p) \/ Dies(p)
    \/ Touches

ConfigsSpec == ConfigsInit /\ [][Configure]_configs

-----------------------------------------------------------------------------
\* What the user put into a file is there or in a backup, whichever commands ran at
\* the same time and wherever they died; but for what was added while one of them
\* was between its copy and its write (ideConnect.ts:10-11, 262-267).
TheirsSurvive == put \subseteq raced \cup UNION {ToSet(f.servers) : f \in {configFile} \cup backups}

\* Connecting leaves one entry of ours, connecting again changes nothing, and
\* disconnecting gives back what is not ours as it was; from whatever commands and
\* edits have left behind (ideConnect.ts:66-74, 731-733).
ConnectSettles ==
    LET made == Connected(configFile)
    IN  /\ Connected(made) = made
        /\ Disconnected(made) = Disconnected(configFile)
        /\ \A x \in OurNames : Cardinality({i \in DOMAIN made.servers : made.servers[i] = x}) =
               (IF x = "ours" \/ (x = "env" /\ kind = "toml") THEN 1 ELSE 0)

\* A list never names a hook script that is not there, wherever a command dies
\* (ideConnect.ts:551-553, 774-781).
RegisteredHasScript == kind = "hook" /\ HasOurs(configFile) => script # "none"

\* The user's entries survive, and ours settle and work.
ConfigsSafe == TheirsSurvive /\ ConnectSettles /\ RegisteredHasScript
=============================================================================

------------------------------- MODULE MCParts -------------------------------
(* Small parts that share no state: one behaviour is of one of them, and the   *)
(* others stay as they begin.  So one run looks at each of them on its own.   *)
EXTENDS EmbeddedLore, GraphView, IndexPolling, McpSessions, HookEnrich,
        LoreClient, GraphWalks, CommunityMap, ChatStream, CodeGraph, CallSites, SymbolTables,
        CodeReads

(* The store: two nodes linked in both directions. *)
CONSTANTS n, m, e, l

BothWays == [x \in {e, l} |-> {n, m}]

\* A node stored, edges in bulk and as a pair, a node's deletion, a compaction,
\* a close.
EachKind == {[op |-> "node", on |-> {n}],
             [op |-> "bulk", on |-> <<e, l>>], [op |-> "pair", on |-> <<e, l>>],
             [op |-> "delete", on |-> {n}],
             [op |-> "maintain", on |-> {}], [op |-> "close", on |-> {}]}

-----------------------------------------------------------------------------
(* The view. *)
CONSTANTS c, f, g, s

\* A community of two files, which share a symbol and are what is near it.
NearDef == [i \in Ids |-> CASE i = c -> {f, g} [] i = f -> {s} [] i = g -> {s} [] i = s -> {f}]

-----------------------------------------------------------------------------
(* The remote client: writes of a and b, one by one and in bulk, and of nothing. *)
CONSTANTS a, b

SomeWrites ==
    [kind : {"node"}, bulk : {FALSE}, items : {<<a>>}] \cup
    [kind : {"edge"}, bulk : {FALSE}, items : {<<b>>}] \cup
    [kind : {"node"}, bulk : {TRUE}, items : {<<a, b>>, <<>>}] \cup
    [kind : {"edge"}, bulk : {TRUE}, items : {<<b, a>>}]

(* The walks: graphs of few arcs on five nodes, with node 2 in the middle. *)
Four == 1 .. 4
Five == 1 .. 5
AwayFromTwo == {as \in UNION {kSubset(i, {x \in Four \X Four : x[1] # x[2]}) : i \in 0 .. 5} :
                   \A x \in as : x[1] \in Within(as, {2}, 5, Five)}
Links == UNION {kSubset(i, {x \in Five \X Five : x[1] < x[2]}) : i \in 0 .. 4}

SomeWalks ==
    [kind : {"blast"}, arcs : AwayFromTwo, seeds : {{2}}, depth : {3}, size : {5}, passing : {Five}] \cup
    [kind : {"trace"}, arcs : AwayFromTwo, seeds : {{2}}, depth : {1, 2}, size : {2, 3}, passing : {Five}] \cup
    [kind : {"subgraph"}, arcs : Links, seeds : {{2}, {1, 3}}, depth : {1, 2}, size : {2, 4},
     passing : {Five, Five \ {3}}]

(* The map: four files in three clusters in every way, and the cycles of four. *)
Numbers == 0 .. 3
FileNames == <<"i", "i", "j", "i">>
Grouped(h) == [k \in Numbers |-> {<<h[i][2], FileNames[h[i][2]]>> : i \in {j \in DOMAIN h : h[j][1] = k}}]

SomeMaps ==
    [members : {Grouped(h) : h \in [1 .. 4 -> (0 .. 2) \X (1 .. 4)]},
     base : {h \in [Numbers -> {"src", "community"}] : h[3] = "src"}, depends : {{}}, insights : {FALSE}] \cup
    [members : {[k \in Numbers |-> {<<k, "i">>}]}, base : {[k \in Numbers |-> "src"]},
     depends : UNION {kSubset(i, {x \in Numbers \X Numbers : x[1] # x[2]}) : i \in 0 .. 5},
     insights : {TRUE}]

ThreeWords == <<"one", "two", "three">>

(* The code graph: one file calls into two others, by import and by a class's name. *)
Text(has, takes, does, bases) ==
    [symbols |-> has, imports |-> takes, calls |-> does, extends |-> bases]
Import(tries, module, names) == [tries |-> tries, module |-> module, names |-> names]
Call(by, receiver, callee) == [by |-> by, receiver |-> receiver, callee |-> callee]
Fn(name) == <<name, "none", "function">>
Cls(name) == <<name, "none", "class">>
ThreeTexts ==
    [x \in {"main", "lib", "sub"} |->
        CASE x = "main" ->
               {Text(<<Fn("run")>>, <<Import(<<"lib">>, "./lib", {"help"}), Import(<<>>, "os", {})>>,
                     <<Call("run", "none", "help"), Call("run", "Kit", "open")>>, {}),
                Text(<<Fn("run"), Cls("Own")>>, <<Import(<<"sub">>, "./sub", {})>>,
                     <<Call("run", "none", "help")>>, {<<"Own", "Kit">>})}
          [] x = "lib" -> {Text(<<Fn("help")>>, <<>>, <<>>, {}), Text(<<Fn("aid")>>, <<>>, <<>>, {})}
          [] x = "sub" -> {Text(<<Cls("Kit"), <<"open", "Kit", "method">>>>, <<>>, <<>>, {}),
                           Text(<<Fn("help")>>, <<>>, <<>>, {})}]
DirFiles == [t \in {"all", "part"} |-> IF t = "all" THEN {"main", "lib", "sub"} ELSE {"sub"}]
OneOrder == <<"lib", "main", "sub">>

(* The walkers: every tree of five nodes, down to a call. *)
NodeKinds == {"function", "const", "arrow", "class", "block", "call"}
Shapes == {h \in {<<0, 1, x, y, z>> : x \in 1 .. 2, y \in 1 .. 3, z \in 1 .. 4} : h[3] <= h[4] /\ h[4] <= h[5]}
FiveNodes ==
    {t \in [kind : [1 .. 5 -> NodeKinds], up : Shapes] :
        /\ t.kind[1] \in {"function", "class"} /\ t.kind[5] = "call"
        /\ \A i \in 2 .. 5 :
              LET above == t.kind[t.up[i]]
              IN  /\ above = "class" => t.kind[i] = "function"
                  /\ above = "const" => t.kind[i] \in {"arrow", "call"}
                  /\ above \in {"arrow", "const"} => \A j \in 2 .. 5 : t.up[j] = t.up[i] => j = i}
OneTree == [kind |-> <<"function", "call", "call", "call", "call">>, up |-> <<0, 1, 1, 1, 1>>]

(* The languages' files.  Their grammars, as far as the walkers tell node types apart: *)
(* what holds what.                                                                    *)
TypesOf(lang) == {x[1] : x \in WALKERS[lang].rules} \cup WALKERS[lang].scopes
Bodies(lang) == {x[1] : x \in {y \in WALKERS[lang].rules : y[4] = "walk" /\ y[3] # "module"}}
Spaces(lang) == {x[1] : x \in {y \in WALKERS[lang].rules : y[3] = "module"}} \cup {"file"}
LeafTypes == {"assignment", "const_spec", "struct_type", "interface_type", "property_declaration", "const_element",
           "struct_item", "enum_specifier", "file_scoped_namespace_declaration"}
Homes(lang, type) ==
    CASE lang = "go" -> IF type \in {"struct_type", "interface_type"} THEN {"type_declaration"} ELSE {"file"}
      [] type \in {"namespace_declaration", "namespace_definition", "mod_item", "module", "impl_item"} -> Spaces(lang)
      [] type \in {"file_scoped_namespace_declaration", "extension_declaration"} -> {"file"}
      [] type \in {"body_statement", "companion_object", "constructor_declaration", "init_declaration",
                   "subscript_declaration", "deinit_declaration", "method_declaration"} ->
           Bodies(lang) \cup {"extension_declaration", "companion_object"}
      [] lang = "php" /\ type \in {"class_declaration", "enum_declaration", "function_definition"} ->
           {"file", "namespace_definition"} \cup WALKERS[lang].scopes
      [] lang = "rust" /\ type # "function_item" -> Spaces(lang) \cup {"function_item"}
      [] OTHER -> {"file"} \cup TypesOf(lang)
OfLanguage(lang) ==
    {t \in [lang : {lang}, type : [1 .. 3 -> TypesOf(lang)], up : {<<0, 1, 2>>, <<0, 0, 2>>, <<0, 1, 1>>}] :
        \A i \in 1 .. 3 : /\ (IF t.up[i] = 0 THEN "file" ELSE t.type[t.up[i]]) \in Homes(lang, t.type[i])
                          /\ t.up[i] # 0 => t.type[t.up[i]] \notin LeafTypes}
SheetsOf(languages) ==
    {[lang |-> t.lang, type |-> Append(t.type, leaf), up |-> Append(t.up, 3)] :
        t \in {x \in UNION {OfLanguage(lang) : lang \in languages} : x.type[3] \notin LeafTypes},
        leaf \in {"call", "import"}}
SomeSheets == SheetsOf(DOMAIN WALKERS)
OneSheet == [lang |-> "go", type |-> <<"call">>, up |-> <<0>>]

\* The reads: two repositories with a file of one path, one of which loses a file in
\* the second corpus, whose symbol then is nowhere.
Fact(p, name, qual, kd, parent) == [file |-> p, name |-> name, qualified |-> qual, kind |-> kd, parent |-> parent, long |-> kd = "class"]
SomeFacts == [x \in {"run", "Kit", "open"} |->
   CASE x = "run" -> Fact("ui/x", "run", "run", "function", "none")
     [] x = "Kit" -> Fact("core/in/y", "Kit", "Kit", "class", "none")
     [] x = "open" -> Fact("core/in/y", "open", "Kit.open", "method", "Kit")]
SomeFolders == [p \in {"ui/x", "core/in/y"} |-> IF p = "ui/x" THEN <<"ui", ".">> ELSE <<"core/in", "core", ".">>]
SomeSlugs == [x \in {"os", "o{s"} |-> "os"]
Sy(x) == <<"symbol", x>>
Repo(fs, rs) == [files |-> fs, relations |-> rs]
OnlyX == Repo({"ui/x"}, {<<<<"file", "ui/x">>, "imports", <<"import", "o{s">>>>, <<Sy("run"), "calls", Sy("gone")>>})
SomeCorpora == <<
   [r \in {"lib", "app"} |-> IF r = "lib" THEN
       Repo({"ui/x", "core/in/y"}, {<<Sy("run"), "odd", Sy("open")>>,
         <<Sy("Kit"), "contains", Sy("open")>>, <<<<"file", "ui/x">>, "imports", Sy("Kit")>>, <<<<"file", "ui/x">>, "imports", <<"import", "os">>>>})
      ELSE OnlyX],
   [r \in {"lib", "app"} |-> OnlyX] >>
SomeLayers == [y \in {"ui", "core"} |-> IF y = "ui" THEN {"ui/x"} ELSE {"core/in/y"}]
CoreUsesUi == {<<"core", "ui">>}

-----------------------------------------------------------------------------
VARIABLE part

parts == <<part, vars, view, polling, table, advice, remote, steps, atlas, chat,
           graph, extraction, reading, reads>>

\* Where the reads are not the part, their variables hold nothing.
ReadsAside ==
    /\ lore = 0 /\ contextMode = 0 /\ server = 0 /\ indexRun = 0 /\ corpus = 0
    /\ workspaceEpoch = 0 /\ ended = 0 /\ contextCache = 0 /\ toolCalls = 0 /\ lost = 0

PartsInit ==
    /\ part \in {"store", "view", "polling", "sessions", "advice", "client", "walks", "map", "chat",
                "graph", "calls", "symbols", "reads"}
    /\ (IF part = "client" THEN TRUE ELSE daemon = "new")
    /\ Init /\ ViewInit /\ PollInit /\ SessionsInit /\ EnrichInit
    /\ ClientInit /\ WalkInit /\ MapInit /\ ChatInit
    /\ (IF part = "graph" THEN TRUE ELSE text = [x \in Sources |-> Absent]) /\ GraphInit
    /\ (IF part = "calls" THEN TRUE ELSE tree = OneTree) /\ ExtractInit
    /\ IF part = "symbols" THEN ReadInit ELSE sheet = OneSheet /\ parsed = Unread
    /\ IF part = "reads" THEN ReadsInit ELSE ReadsAside

\* All parts but one stay as they are.
Others(mine) ==
    /\ IF mine = "store" THEN TRUE ELSE UNCHANGED vars
    /\ IF mine = "view" THEN TRUE ELSE UNCHANGED view
    /\ IF mine = "polling" THEN TRUE ELSE UNCHANGED polling
    /\ IF mine = "sessions" THEN TRUE ELSE UNCHANGED table
    /\ IF mine = "advice" THEN TRUE ELSE UNCHANGED advice
    /\ IF mine = "client" THEN TRUE ELSE UNCHANGED remote
    /\ IF mine = "walks" THEN TRUE ELSE UNCHANGED steps
    /\ IF mine = "map" THEN TRUE ELSE UNCHANGED atlas
    /\ IF mine = "chat" THEN TRUE ELSE UNCHANGED chat
    /\ IF mine = "graph" THEN TRUE ELSE UNCHANGED graph
    /\ IF mine = "calls" THEN TRUE ELSE UNCHANGED extraction
    /\ IF mine = "symbols" THEN TRUE ELSE UNCHANGED reading
    /\ IF mine = "reads" THEN TRUE ELSE UNCHANGED reads

PartsNext ==
    /\ UNCHANGED part
    /\ \/ part = "store" /\ Next /\ Others("store")
       \/ part = "view" /\ Browse /\ Others("view")
       \/ part = "polling" /\ Watch /\ Others("polling")
       \/ part = "sessions" /\ Serve /\ Others("sessions")
       \/ part = "advice" /\ Enrich /\ Others("advice")
       \/ part = "client" /\ Post /\ Others("client")
       \/ part = "walks" /\ WalkOn /\ Others("walks")
       \/ part = "map" /\ Survey /\ Others("map")
       \/ part = "chat" /\ Talk /\ Others("chat")
       \/ part = "graph" /\ Reindex /\ Others("graph")
       \/ part = "calls" /\ Extract /\ Others("calls")
       \/ part = "symbols" /\ Read /\ Others("symbols")
       \/ part = "reads" /\ ReadOn /\ Others("reads")

\* The fairness of each part, for the behaviours that are its own.
PartsFairness ==
    /\ \A k \in Slots : /\ WF_vars(part = "store" /\ Enter(k))
                        /\ WF_vars(part = "store" /\ CloseTimesOut(k))
                        /\ WF_vars(part = "store" /\ LeftReleases(k))
                        /\ WF_vars(part = "store" /\ Dispose(k))
    /\ WF_polling(part = "polling" /\ Tick)
    /\ \A p \in Polls : /\ WF_polling(part = "polling" /\ Sample(p))
                        /\ WF_polling(part = "polling" /\ (ArrivesIdle(p) \/ ArrivesIndexing(p)))
    /\ \A i \in Sids : /\ WF_table(part = "sessions" /\ Handle(i))
                       /\ WF_table(part = "sessions" /\ Register(i))
    /\ WF_table(part = "sessions" /\ Pass) /\ WF_table(part = "sessions" /\ Sweep)
    /\ \A h \in Hooks : WF_advice(part = "advice" /\ BudgetEnds(h))
    /\ WF_remote(part = "client" /\ Exchange)
    /\ WF_chat(part = "chat" /\ ((\E i \in DOMAIN wire : DaemonReads(i)) \/ ProviderEnds \/ ProviderBreaks))
    /\ WF_chat(part = "chat" /\ ((\E i \in DOMAIN egress : PageReads(i)) \/ PageLoses \/ FallsBack))

PartsSpec == PartsInit /\ [][PartsNext]_parts /\ PartsFairness

\* The reads are looked at in their own part alone, where they change.
ReadsHold == part = "reads" => ReadsAreTrue

\* Nobody waits for ever: closes return, ends of runs are told and polling stops,
\* abandoned sessions are closed, hooks, remote calls and chats are answered.
EveryWaitEnds ==
    CloseReturns /\ PollingEnds /\ GoneIsClosed /\ HookAnswered /\ CallReturns /\ ChatAnswered

\* What the queries make of a graph: walks and communities.
QueriesRight == WalksRight /\ MapRight

\* What the walkers make of a file, in one language in depth and in each of ten.
WalkersRight == CallsOnce /\ SymbolsRight
=============================================================================

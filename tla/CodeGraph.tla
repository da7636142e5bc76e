------------------------------ MODULE CodeGraph ------------------------------
(* What an index writes to the code graph: symbols, and the edges that the       *)
(* resolver finds between them (src/resolver/, src/store/codeNodes.ts), as files  *)
(* are edited and indexed again.  A run over a directory writes all its files or, *)
(* with resume, the changed ones (cli.ts, mcp/tools/index.ts, indexCore.ts); one  *)
(* of a single file takes the rest of the repository from the graph itself.       *)
(* A run is one step: IndexRun takes runs apart, with a file for a node.          *)
(* Left out: folders, context cards, extra exports of a module, default imports.  *)
EXTENDS Integers, SequencesExt

CONSTANTS
    Walked,              \* the files, in the order of the walk
    Texts,               \* what each of them may contain
    Absent,              \* a file that is not there
    Tops,                \* directories that are indexed
    Below,               \* the files below each of them
    MaxChanges, MaxIndexings  \* bounds: edits of files, and runs

Sources == ToSet(Walked)

(* A text: [symbols, imports, calls, extends].  A symbol [name, owner, kind] may   *)
(* be a member of a class; an import names what it takes, or nothing if it takes  *)
(* the whole module, and `tries` is the files that its specifier may mean; a call *)
(* is by a function, of a name, perhaps on the name of a class.                   *)
ASSUME GraphAssumption ==
    /\ Texts \in [Sources -> SUBSET [symbols : Seq(STRING \X STRING \X STRING),
                                     imports : Seq([tries : Seq(Sources), module : STRING, names : SUBSET STRING]),
                                     calls : Seq([by : STRING, receiver : STRING, callee : STRING]),
                                     extends : SUBSET (STRING \X STRING)]]
    /\ Below \in [Tops -> SUBSET Sources] /\ {MaxChanges, MaxIndexings} \subseteq Nat

VARIABLES
    text,                \* of each file on disk
    current,             \* of each directory, the files that its checkpoint has as they are
    points, arcs,        \* the graph: nodes, and edges <<from, relation, to>>
    indexed,             \* history: the last run, until an edit: [kind, top, files, sent]
    changes, indexings

graph == <<text, current, points, arcs, indexed, changes, indexings>>

NotIndexed == [kind |-> "none", top |-> "none", files |-> {}, sent |-> {}]

GraphInit ==
    /\ text \in [Sources -> (UNION {Texts[x] : x \in Sources}) \cup {Absent}]
    /\ \A x \in Sources : text[x] \in Texts[x] \cup {Absent}
    /\ current = [t \in Tops |-> {}] /\ points = {} /\ arcs = {}
    /\ indexed = NotIndexed /\ changes = 0 /\ indexings = 0

-----------------------------------------------------------------------------
(* The resolver.  A table is all symbols that it may choose from, in order.      *)
SymbolsIn(x) == [i \in DOMAIN text[x].symbols |->
                    [file |-> x, name |-> text[x].symbols[i][1],
                     owner |-> text[x].symbols[i][2], kind |-> text[x].symbols[i][3]]]
TableOf(files) == FlattenSeq([i \in DOMAIN files |-> SymbolsIn(files[i])])

In(tab, x, name) == SelectSeq(tab, LAMBDA y : y.file = x /\ y.name = name)
Plain(tab, name) == SelectSeq(tab, LAMBDA y : y.owner = "none" /\ y.name = name)
Callable(tab) == SelectSeq(tab, LAMBDA y : y.kind \in {"function", "method", "class"})

\* What an import may mean is looked for among the repository's paths.
Means(imp, paths) == SelectSeq(imp.tries, LAMBDA x : x \in paths)

\* The file that a name is imported from: the last import of it counts.
From(x, name, paths) ==
    LET named == SelectSeq(text[x].imports, LAMBDA imp : name \in imp.names /\ Means(imp, paths) # <<>>)
    IN  IF named = <<>> THEN Absent ELSE Head(Means(Last(named), paths))
Wholes(x, paths) == SelectSeq(text[x].imports, LAMBDA imp : imp.names = {} /\ Means(imp, paths) # <<>>)

\* Those that a call may mean, the best ones first.
Callees(x, call, tab, paths) ==
    LET members == SelectSeq(tab, LAMBDA y : y.owner = call.receiver /\ y.name = call.callee /\ call.receiver # "none")
        onFile == From(x, call.receiver, paths)
        wholes == Wholes(x, paths)
    IN  SelectSeq(members, LAMBDA y : y.file = x) \o SelectSeq(members, LAMBDA y : y.file = onFile) \o members
            \o Callable(In(tab, x, call.callee))
            \o In(tab, From(x, call.callee, paths), call.callee)
            \o FlattenSeq([i \in DOMAIN wholes |-> In(tab, Head(Means(wholes[i], paths)), call.callee)])
            \o Plain(tab, call.callee)

Bases(base, tab) ==
    Plain(tab, base) \o SelectSeq(tab, LAMBDA y : y.name = base /\ y.kind = "class")

FileNode(x) == <<"file", x>>
SymbolNode(y) == <<"symbol", y>>
ModuleNode(name) == <<"import", name>>
Own(x, name) == SymbolNode(SelectSeq(SymbolsIn(x), LAMBDA y : y.name = name)[1])

\* Its symbols, and the members of its classes.
ContainEdges(x) ==
    {<<FileNode(x), "contains", SymbolNode(y)>> : y \in ToSet(SymbolsIn(x))} \cup
    {<<Own(x, y.owner), "contains", SymbolNode(y)>> : y \in {z \in ToSet(SymbolsIn(x)) : z.owner # "none"}}

\* An import of names goes to the symbols, if that file has them.
ImportEdges(x, tab, paths) ==
    UNION {IF Means(imp, paths) = <<>> THEN {<<FileNode(x), "imports", ModuleNode(imp.module)>>}
           ELSE LET there == Head(Means(imp, paths))
                IN  IF imp.names = {} THEN {<<FileNode(x), "imports", FileNode(there)>>}
                    ELSE {<<FileNode(x), "imports", SymbolNode(y)>> :
                             y \in UNION {ToSet(In(tab, there, name)) : name \in imp.names}} :
           imp \in ToSet(text[x].imports)}

CallEdges(x, tab, paths) ==
    {<<Own(x, call.by), "calls", SymbolNode(Head(Callees(x, call, tab, paths)))>> :
        call \in {k \in ToSet(text[x].calls) : Callees(x, k, tab, paths) # <<>>}}

InheritanceEdges(x, tab) ==
    {<<Own(x, e[1]), "extends", SymbolNode(Head(Bases(e[2], tab)))>> :
        e \in {k \in text[x].extends : Bases(k[2], tab) # <<>>}}

Relations(x, tab, paths) ==
    ContainEdges(x) \cup ImportEdges(x, tab, paths) \cup CallEdges(x, tab, paths) \cup InheritanceEdges(x, tab)

Imported(x, paths) == {ModuleNode(imp.module) : imp \in {i \in ToSet(text[x].imports) : Means(i, paths) = <<>>}}
Carries(x) == {FileNode(x)} \cup {SymbolNode(y) : y \in ToSet(SymbolsIn(x))}

-----------------------------------------------------------------------------
(* The store: an edge without both its ends is refused, a node goes with its edges. *)
FileOf(p) == CASE p[1] = "file" -> p[2] [] p[1] = "symbol" -> p[2].file [] OTHER -> Absent
Landing(sent, there) == {e \in sent : e[1] \in there /\ e[3] \in there}
Attached(es, there) == {e \in es : e[1] \in there /\ e[3] \in there}

OnDisk == SelectSeq(Walked, LAMBDA x : text[x] # Absent)
Edits(x) ==
    /\ changes < MaxChanges
    /\ \E now \in (Texts[x] \cup {Absent}) \ {text[x]} : text' = [text EXCEPT ![x] = now]
    /\ current' = [t \in Tops |-> current[t] \ {x}]
    /\ indexed' = NotIndexed /\ changes' = changes + 1
    /\ UNCHANGED <<points, arcs, indexings>>

-----------------------------------------------------------------------------
(* Mutant: only what is to be written is parsed. *)
ParsedChanged(t, resume) ==
    SelectSeq(Walked, LAMBDA x : x \in Below[t] /\ text[x] # Absent /\ ~(resume /\ x \in current[t]))

\* All files are parsed, so that names are looked for in all of them.
Parsed(t, resume) == SelectSeq(Walked, LAMBDA x : x \in Below[t] /\ text[x] # Absent)

Sweeps(t, resume) == ~resume /\ Below[t] = Sources

\* reconcileRepoFiles: nodes of files are removed, unless they were written.
Swept(there, live) == {p \in there : FileOf(p) # Absent => p \in live}

IndexesDir(t, resume, tool) ==
    LET found == Parsed(t, resume)
        files == ToSet(found)
        written == IF resume THEN files \ current[t] ELSE files
        sent == [x \in written |-> Relations(x, TableOf(found), files)]
        fresh == UNION {Carries(x) : x \in written}
        there == points \cup fresh \cup UNION {Imported(x, files) : x \in files}
        landed == [x \in written |-> Landing(sent[x], there)]
        kept == IF Sweeps(t, resume) THEN Swept(there, fresh) ELSE there
    IN  /\ indexings < MaxIndexings /\ indexings' = indexings + 1
        /\ points' = kept
        /\ arcs' = Attached(arcs \cup UNION {landed[x] : x \in written}, kept)
        /\ current' = IF tool /\ ~resume THEN current
                      ELSE [current EXCEPT ![t] = (@ \cap files) \cup {x \in written : landed[x] = sent[x]}]
        /\ indexed' = [kind |-> IF resume THEN "resume" ELSE "full", top |-> t, files |-> written, sent |-> {}]
        /\ UNCHANGED <<text, changes>>

-----------------------------------------------------------------------------
Peers(x) == {p[2] : p \in {q \in points : q[1] = "symbol" /\ q[2].file # x}}

\* The graph lists symbols in some order; they are put together by file.
Listings(x) ==
    {l \in SetToSeqs(Peers(x)) :
        \A i, k \in DOMAIN l : l[i].file = l[k].file => \A j \in i .. k : l[j].file = l[i].file}

Known(x) == {x} \cup {FileOf(p) : p \in {q \in points : FileOf(q) # Absent}}

\* singleFileLiveNodeIds: all nodes of other files are live.
Live(x) == Carries(x) \cup {p \in points : FileOf(p) \notin {x, Absent}}

\* atlas_index of a file, which reads the graph if it can and then sweeps; if it
\* cannot, or for atlas index without a daemon, a file knows nothing of the others.
IndexesOne(x, reads, sweeps) ==
    /\ indexings < MaxIndexings /\ text[x] # Absent
    /\ \E listing \in (IF reads THEN Listings(x) ELSE {<<>>}) :
           LET paths == IF reads THEN Known(x) ELSE {x}
               sent == Relations(x, SymbolsIn(x) \o listing, paths)
               there == points \cup Imported(x, paths) \cup Carries(x)
               kept == IF sweeps THEN Swept(there, Live(x)) ELSE there
           IN  /\ points' = kept
               /\ arcs' = Attached(arcs \cup Landing(sent, there), kept)
               /\ indexed' = IF reads THEN [kind |-> "one", top |-> "none", files |-> {x}, sent |-> sent]
                             ELSE NotIndexed
    /\ indexings' = indexings + 1
    /\ UNCHANGED <<text, current, changes>>

Reindex ==
    \/ \E x \in Sources : Edits(x)
    \/ \E t \in Tops, resume, tool \in BOOLEAN : IndexesDir(t, resume, tool)
    \/ \E x \in Sources, reads, sweeps \in BOOLEAN : IndexesOne(x, reads, sweeps)

GraphSpec == GraphInit /\ [][Reindex]_graph

-----------------------------------------------------------------------------
(* What an index of the whole repository from nothing would write of a file. *)
FullRelations(x) == Relations(x, TableOf(OnDisk), ToSet(OnDisk))
Stored(x) == {p \in points : FileOf(p) = x}
Present(x) == IF text[x] = Absent THEN {} ELSE Carries(x)

\* A run that skips the files that did not change still finds every edge from
\* those that did, into the others too (RESUME CORRECTNESS in cli.ts).
ResumeLikeFull ==
    indexed.kind \in {"resume", "full"} /\ Below[indexed.top] = Sources
        => \A x \in indexed.files : FullRelations(x) \subseteq arcs

\* After a full run no file or symbol of an earlier text is left (indexCore.ts).
FullIsFresh ==
    indexed.kind = "full" /\ Below[indexed.top] = Sources
        => \A x \in Sources : Stored(x) = Present(x)

\* No run removes what is still in the files: not one over a part of them
\* (coversWholeRepo), nor one over a single file.
IndexedStays == [][\A x \in Sources : Stored(x) \cap Present(x) \subseteq Stored(x)']_<<points, indexings>>

\* Where names are not ambiguous, and the graph has the other files as they are,
\* the run over one file finds what a full one would (mcp/tools/index.ts).
Unambiguous ==
    \A y, z \in UNION {ToSet(SymbolsIn(x)) : x \in ToSet(OnDisk)} : y.name = z.name => y = z
OneFileAgrees ==
    indexed.kind = "one" /\ Unambiguous
        /\ (\A x \in Sources \ indexed.files : Stored(x) = Present(x))
        => \A x \in indexed.files : indexed.sent = FullRelations(x) /\ indexed.sent \subseteq arcs

\* However it was indexed, the graph has what is in the files, and keeps it.
GraphFresh == [](ResumeLikeFull /\ FullIsFresh /\ OneFileAgrees) /\ IndexedStays
=============================================================================

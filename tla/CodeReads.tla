----------------------------- MODULE CodeReads -----------------------------
(***************************************************************************)
(* From parsed files to stored nodes and edges (src/store/codeNodes.ts)    *)
(* and back, by either transport, to the table and relations that the code *)
(* tools answer from (src/mcp/loreReader.ts, codeContext.ts), while index  *)
(* runs write and the reader over HTTP keeps what it has loaded.           *)
(*                                                                         *)
(* A stored id is a tuple: its prefix, its repository where it is          *)
(* qualified by one, and the raw id.                                       *)
(***************************************************************************)
EXTENDS Integers, Sequences, SequencesExt

CONSTANTS
    Facts,        \* what the parser says of a symbol: its file, names, parent, lines
    FoldersOf,    \* a path's folder and that folder's ancestors, up to the root
    Slug,         \* codeImportId of a module specifier
    Corpora,      \* what is indexed, in turn: repository -> its files and resolved relations
    LayerPaths,   \* a layer specification: the paths of each layer
    MayUse,       \* and the pairs of layers it allows
    Modes,        \* of the context layer
    PageLimit,    \* PAGE_LIMIT
    Askers,       \* calls of a code tool
    MaxLost       \* bound: requests that fail for good

ASSUME ReadsAssumption ==
    /\ PageLimit \in Nat \ {0} /\ MaxLost \in Nat
    /\ Modes \subseteq {"file", "spans", "off"}

-----------------------------------------------------------------------------
(* What is stored for a corpus.                                            *)

Arc(from, relation, to, how) == [from |-> from, relation |-> relation, to |-> to, how |-> how]

StoredFile(repo, p) == <<"code-file", repo, p>>
StoredSymbol(repo, x) == <<"code-symbol", repo, x>>
StoredFolder(repo, d) == <<"code-folder", repo, d>>

\* codeSymbolIdFromRaw: an end of a relation is a file, a module or a symbol.
StoredEnd(repo, end) ==
    CASE end[1] = "file" -> StoredFile(repo, end[2])
      [] end[1] = "import" -> <<"code-import", Slug[end[2]]>>
      [] OTHER -> StoredSymbol(repo, end[2])

CODE_RELATIONS == {"calls", "imports", "extends", "implements", "contains", "queries", "writes", "references"}
StoredKind(relation) == IF relation \in CODE_RELATIONS THEN relation ELSE "related_to"

SymbolsOf(p) == {x \in DOMAIN Facts : Facts[x].file = p}

\* buildFolderBatch, over the folders of a repository's files.
FolderTree(repo, paths) ==
    LET dirs == UNION {ToSet(FoldersOf[p]) : p \in paths}
        child(p, i) == StoredFolder(repo, FoldersOf[p][i])
    IN  [nodes |-> {StoredFolder(repo, d) : d \in dirs},
         arcs |-> UNION {{Arc(child(p, i + 1), "contains", child(p, i), "extracted") :
                              i \in 1 .. Len(FoldersOf[p]) - 1} : p \in paths}
                  \cup {Arc(child(p, 1), "contains", StoredFile(repo, p), "extracted") : p \in paths}]

\* The cards that are embedded: one per file, or one per symbol of three lines.
Cards(repo, p, mode) ==
    CASE mode = "spans" /\ SymbolsOf(p) # {} ->
           {Arc(<<"code-context-sym", repo, x>>, "describes", StoredSymbol(repo, x), "inferred") :
                x \in {y \in SymbolsOf(p) : Facts[y].long}}
      [] mode = "off" -> {}
      [] OTHER -> {Arc(<<"code-context", repo, p>>, "describes", StoredFile(repo, p), "inferred")}

\* buildIndexBatch: a file's nodes and its edges.
FileBatch(repo, p, mode) ==
    [nodes |-> {StoredFile(repo, p)} \cup {StoredSymbol(repo, x) : x \in SymbolsOf(p)}
               \cup {card.from : card \in Cards(repo, p, mode)},
     arcs |-> {Arc(StoredFile(repo, p), "contains", StoredSymbol(repo, x), "extracted") : x \in SymbolsOf(p)}
              \cup Cards(repo, p, mode)]

\* buildImportNodes: one node for each module, whoever imports it.
ImportNodes(relations) ==
    {<<"code-import", Slug[r[3][2]]>> : r \in {x \in relations : x[3][1] = "import"}}

\* A run's writes; the store takes an edge only between nodes it has.
Written(corpus, mode) ==
    LET Parts(repo) == {FolderTree(repo, corpus[repo].files)} \cup
                       {FileBatch(repo, p, mode) : p \in corpus[repo].files}
        ResolvedArcs(repo) == {Arc(StoredEnd(repo, r[1]), StoredKind(r[2]), StoredEnd(repo, r[3]), "extracted") :
                                   r \in corpus[repo].relations}
        nodes == UNION {UNION {x.nodes : x \in Parts(repo)} \cup ImportNodes(corpus[repo].relations) :
                            repo \in DOMAIN corpus}
        arcs == UNION {UNION {x.arcs : x \in Parts(repo)} \cup ResolvedArcs(repo) : repo \in DOMAIN corpus}
    IN  [nodes |-> nodes, arcs |-> {x \in arcs : x.from \in nodes /\ x.to \in nodes}]

Either(old, new) == [nodes |-> old.nodes \cup new.nodes, arcs |-> old.arcs \cup new.arcs]

-----------------------------------------------------------------------------
(* What is read back: symbols <<repo, raw>> and <<source, kind, target>>.  *)

IsCode(id) == id[1] = "code-symbol"
Uid(id) == IF IsCode(id) THEN <<id[2], id[3]>> ELSE id

\* inferRelationKind: a legacy or unknown relation counts as a call.
Infer(relation) ==
    CASE relation \in CODE_RELATIONS -> relation
      [] relation = "refers_to" -> "imports"
      [] OTHER -> "calls"

\* assembleCodeContext, over the directed edges of the store: from symbols, and
\* imports also from files.
ReadEmbedded(stored) ==
    [table |-> {Uid(x) : x \in {y \in stored.nodes : IsCode(y)}},
     relations |->
        {<<IF IsCode(x.from) THEN Uid(x.from) ELSE <<"file", x.from[3]>>, Infer(x.relation), Uid(x.to)>> :
            x \in {y \in stored.arcs :
                    /\ IsCode(y.to)
                    /\ IsCode(y.from) \/ (y.from[1] = "code-file" /\ Infer(y.relation) = "imports")}}]

\* getNode: a node's neighbours at both ends of its arcs, the inferred ones left out.
Neighbours(stored, id) ==
    {[id |-> x.to, relation |-> x.relation, inbound |-> FALSE] :
        x \in {y \in stored.arcs : y.from = id /\ y.how # "inferred"}} \cup
    {[id |-> x.from, relation |-> x.relation, inbound |-> TRUE] :
        x \in {y \in stored.arcs : y.to = id /\ y.how # "inferred"}}

\* For a mutant: an import that a file makes is taken for its own symbols'.
RelationsAtOutbound(id, near) ==
    {<<Uid(id), Infer(nb.relation), Uid(nb.id)>> :
        nb \in {x \in near : ~x.inbound /\ IsCode(x.id)}}

\* What the reader over HTTP makes of one symbol's neighbours.  An inbound one was
\* recorded at its other end, unless that is a file.
RelationsAt(id, near) ==
    {<<<<"file", nb.id[3]>>, "imports", Uid(id)>> :
        nb \in {x \in near : x.inbound /\ Infer(x.relation) = "imports" /\ x.id[1] = "code-file"}} \cup
    {<<Uid(id), Infer(nb.relation), Uid(nb.id)>> :
        nb \in {x \in near : /\ ~x.inbound /\ x.relation # "describes"
                             /\ x.id[1] \notin {"code-file", "code-context", "code-context-sym"}}}

ReadOverHttp(ids, near) ==
    [table |-> {Uid(id) : id \in ids}, relations |-> UNION {RelationsAt(id, near[id]) : id \in ids}]

-----------------------------------------------------------------------------
(* The tools, over what was read.                                          *)

Uses == {"calls", "imports"}
ENTRY_NAMES == {"main", "run"}

\* deadCode, with its exemptions.
Dead(context) ==
    {x \in context.table :
        LET fact == Facts[x[2]]
        IN  /\ fact.kind \in {"function", "method", "class"}
            /\ ~\E r \in context.relations : r[2] \in Uses /\ r[3] = x
            /\ fact.name \notin ENTRY_NAMES
            /\ ~\E y \in context.table : /\ y = <<x[1], fact.parent>>
                                         /\ Facts[y[2]].kind \in {"function", "method"}}

LayersOf(p) == {y \in DOMAIN LayerPaths : p \in LayerPaths[y]}

\* layerViolations: the relations between layers that no rule allows.
Violations(context) ==
    {r \in context.relations :
        /\ r[2] \in Uses /\ r[3] \in context.table
        /\ LET source == IF r[1][1] = "file" THEN r[1][2] ELSE Facts[r[1][2]].file
           IN  \E x \in LayersOf(source), y \in LayersOf(Facts[r[3][2]].file) :
                  x # y /\ <<x, y>> \notin MayUse}

\* findSymbol of a name: the candidates of the first tier that has any.
Candidates(context, name, scope) ==
    LET inScope == {x \in context.table : scope = "any" \/ x[1] = scope}
        byQualified == {x \in inScope : Facts[x[2]].qualified = name}
    IN  IF byQualified # {} THEN byQualified ELSE {x \in inScope : Facts[x[2]].name = name}

Found(context, name, scope) ==
    LET some == Candidates(context, name, scope)
    IN  CASE some = {} -> "not_found"
          [] \A x, y \in some : x[1] = y[1] -> "found"
          [] OTHER -> "ambiguous"

-----------------------------------------------------------------------------
VARIABLES
    lore,       \* what the workspace's store holds
    contextMode,       \* the context layer's mode
    server,     \* how it lists: in bulk, by offsets, or its first page again and again
    indexRun,   \* the running index run: what it does next, and its corpus
    corpus,     \* the corpus of the last run that ended well; a run that failed spoils it
    workspaceEpoch,      \* of the workspace: workspaceEpoch
    ended,      \* runs that ended well
    contextCache,      \* the load of each epoch: loadContextUncached, and the cached promise
    toolCalls,       \* the calls of the tools: answered when the load of their epoch is done
    lost        \* requests that failed

reads == <<lore, contextMode, server, indexRun, corpus, workspaceEpoch, ended, contextCache, toolCalls, lost>>

NoLoad == [at |-> "none"]
NoCorpus == [x \in {} |-> 0]
Epochs == 0 .. Len(Corpora) - 1

ReadsInit ==
    /\ contextMode \in Modes /\ corpus = Corpora[1] /\ lore = Written(corpus, contextMode)
    /\ server \in {"bulk", "offsets", "capped"}
    /\ indexRun = [at |-> "none", of |-> NoCorpus]
    /\ workspaceEpoch = 0 /\ ended = 0 /\ lost = 0
    /\ contextCache = [e \in Epochs |-> NoLoad]
    /\ toolCalls = [x \in Askers |-> [at |-> "idle", epoch |-> 0, since |-> 0]]

Loading == {e \in Epochs : contextCache[e].at \notin {"none", "done"}}

\* The store changes under the loads that are on their way.
Changes(stored) ==
    /\ lore' = stored
    /\ contextCache' = [e \in Epochs |-> IF e \in Loading /\ stored # lore
                                  THEN [contextCache[e] EXCEPT !.steady = FALSE] ELSE contextCache[e]]

-----------------------------------------------------------------------------
(* An index run (runIndexTool): its writes, the reconcile, the invalidation. *)

IndexBegins ==
    /\ indexRun.at = "none" /\ ended + 1 < Len(Corpora)
    /\ indexRun' = [at |-> "write", of |-> Corpora[ended + 2]]
    /\ UNCHANGED <<lore, contextMode, server, corpus, workspaceEpoch, ended, contextCache, toolCalls, lost>>

IndexWrites ==
    /\ indexRun.at = "write"
    /\ Changes(Either(lore, Written(indexRun.of, contextMode)))
    /\ indexRun' = [indexRun EXCEPT !.at = "reconcile"]
    /\ corpus' = NoCorpus
    /\ UNCHANGED <<contextMode, server, workspaceEpoch, ended, toolCalls, lost>>

IndexReconciles ==
    /\ indexRun.at = "reconcile"
    /\ Changes(Written(indexRun.of, contextMode))
    /\ indexRun' = [indexRun EXCEPT !.at = "end"]
    /\ UNCHANGED <<contextMode, server, corpus, workspaceEpoch, ended, toolCalls, lost>>

\* invalidateLoreContext: the next read misses.
IndexEnds ==
    /\ indexRun.at = "end"
    /\ workspaceEpoch' = workspaceEpoch + 1 /\ ended' = ended + 1
    /\ corpus' = indexRun.of /\ indexRun' = [at |-> "none", of |-> NoCorpus]
    /\ UNCHANGED <<lore, contextMode, server, contextCache, toolCalls, lost>>

\* A run that throws leaves its writes and the cache as they are.
IndexFails ==
    /\ indexRun.at \in {"reconcile", "end"} /\ lost < MaxLost
    /\ lost' = lost + 1 /\ indexRun' = [at |-> "none", of |-> NoCorpus]
    /\ UNCHANGED <<lore, contextMode, server, corpus, workspaceEpoch, ended, contextCache, toolCalls>>

-----------------------------------------------------------------------------
(* A load, one request at a time.                                          *)

Load(e, next) ==
    /\ contextCache' = [contextCache EXCEPT ![e] = next]
    /\ UNCHANGED <<lore, contextMode, server, indexRun, corpus, workspaceEpoch, ended>>

\* loadContext: the cached promise of this epoch, or a new one.
AskTool(x) ==
    /\ toolCalls[x].at = "idle"
    /\ toolCalls' = [toolCalls EXCEPT ![x] = [at |-> "asked", epoch |-> workspaceEpoch, since |-> ended]]
    /\ Load(workspaceEpoch, IF contextCache[workspaceEpoch] # NoLoad THEN contextCache[workspaceEpoch]
                   ELSE [at |-> "bulk", ids |-> {}, near |-> <<>>, todo |-> <<>>, walk |-> FALSE,
                         lossy |-> FALSE, steady |-> TRUE, began |-> ended, of |-> corpus])
    /\ UNCHANGED lost

\* A request that must not fail fails: the promise is dropped, and its callers throw.
LoadThrows(e) ==
    /\ contextCache[e].at \in {"pages", "files", "refs"} /\ lost < MaxLost
    /\ lost' = lost + 1
    /\ toolCalls' = [x \in Askers |-> IF toolCalls[x].at = "asked" /\ toolCalls[x].epoch = e
                                 THEN [toolCalls[x] EXCEPT !.at = "failed"] ELSE toolCalls[x]]
    /\ Load(e, NoLoad)

StoredIds(prefix) == {id \in lore.nodes : id[1] = prefix}

\* tryBulkList: null from a server that has no such endpoint, or that fails.
ListInBulk(e) ==
    /\ contextCache[e].at = "bulk"
    /\ IF server = "bulk"
       THEN Load(e, [contextCache[e] EXCEPT !.ids = StoredIds("code-symbol"), !.at = "refs"])
       ELSE Load(e, [contextCache[e] EXCEPT !.at = "pages"])
    /\ UNCHANGED <<toolCalls, lost>>

BulkListFails(e) ==
    /\ contextCache[e].at = "bulk" /\ lost < MaxLost
    /\ lost' = lost + 1
    /\ Load(e, [contextCache[e] EXCEPT !.at = "pages"]) /\ UNCHANGED toolCalls

\* paginate: a server that ignores the offset shows its first page twice.
Paged ==
    LET every == SetToSeq(StoredIds("code-symbol"))
    IN  IF server = "capped" /\ Len(every) > PageLimit THEN SubSeq(every, 1, PageLimit) ELSE every

\* tryPaginatedSymbols: exactly one page may not be all.
ListByPages(e) ==
    /\ contextCache[e].at = "pages"
    /\ Load(e, IF Len(Paged) = PageLimit
               THEN [contextCache[e] EXCEPT !.walk = TRUE, !.at = "files"]
               ELSE [contextCache[e] EXCEPT !.ids = ToSet(Paged), !.at = "refs"])
    /\ UNCHANGED <<toolCalls, lost>>

\* listFileRefs, up to two pages of them.
FileRefs ==
    LET every == SetToSeq(StoredIds("code-file"))
    IN  IF Len(every) > 2 * PageLimit THEN SubSeq(every, 1, 2 * PageLimit) ELSE every

ListFiles(e) ==
    /\ contextCache[e].at = "files"
    /\ Load(e, [contextCache[e] EXCEPT !.todo = FileRefs, !.at = "walk"])
    /\ UNCHANGED <<toolCalls, lost>>

\* A node's request answers, or gives null: the node is gone, or the request fails.
Detail(id, nothing) == IF nothing \/ id \notin lore.nodes THEN "null" ELSE "node"

Fetches(e, lossy) ==
    /\ contextCache[e].todo # <<>>
    /\ IF lossy THEN lost < MaxLost /\ lost' = lost + 1 ELSE UNCHANGED lost
    /\ UNCHANGED toolCalls

\* The symbols that a file names as its neighbours.
FetchFile(e, lossy) ==
    /\ contextCache[e].at = "walk" /\ Fetches(e, lossy)
    /\ LET id == Head(contextCache[e].todo)
           symbols == {nb.id : nb \in {x \in Neighbours(lore, id) : IsCode(x.id)}}
       IN  Load(e, [contextCache[e] EXCEPT
               !.ids = @ \cup (IF Detail(id, lossy) = "null" THEN {} ELSE symbols),
               !.todo = Tail(@), !.lossy = @ \/ lossy])

FilesWalked(e) ==
    /\ contextCache[e].at = "walk" /\ contextCache[e].todo = <<>>
    /\ Load(e, [contextCache[e] EXCEPT !.todo = SetToSeq(contextCache[e].ids), !.ids = {}, !.at = "details"])
    /\ UNCHANGED <<toolCalls, lost>>

\* A symbol's node and neighbours.  On a walk, one that gives null is left out; one
\* that was listed stays, without neighbours.
FetchSymbol(e, lossy) ==
    /\ contextCache[e].at = "details" /\ Fetches(e, lossy)
    /\ LET id == Head(contextCache[e].todo)
           near == IF Detail(id, lossy) = "null" THEN {} ELSE Neighbours(lore, id)
           left == contextCache[e].walk /\ Detail(id, lossy) = "null"
       IN  Load(e, [contextCache[e] EXCEPT
               !.ids = IF left THEN @ ELSE @ \cup {id},
               !.near = IF left THEN @ ELSE Append(@, <<id, near>>),
               !.todo = Tail(@), !.lossy = @ \/ lossy])

\* The file list is fetched always, and before the neighbours of listed symbols.
SymbolsFetched(e) ==
    /\ contextCache[e].at = "details" /\ contextCache[e].todo = <<>>
    /\ Load(e, [contextCache[e] EXCEPT !.at = IF contextCache[e].walk THEN "refs" ELSE "done"])
    /\ UNCHANGED <<toolCalls, lost>>

ListFileIds(e) ==
    /\ contextCache[e].at = "refs"
    /\ Load(e, IF contextCache[e].walk THEN [contextCache[e] EXCEPT !.at = "done"]
               ELSE [contextCache[e] EXCEPT !.todo = SetToSeq(contextCache[e].ids), !.at = "details"])
    /\ UNCHANGED <<toolCalls, lost>>

ReadOn ==
    \/ IndexBegins \/ IndexWrites \/ IndexReconciles \/ IndexEnds \/ IndexFails
    \/ \E x \in Askers : AskTool(x)
    \/ \E e \in Epochs :
        \/ LoadThrows(e) \/ ListInBulk(e) \/ BulkListFails(e) \/ ListByPages(e) \/ ListFiles(e)
        \/ \E lossy \in BOOLEAN : FetchFile(e, lossy) \/ FetchSymbol(e, lossy)
        \/ FilesWalked(e) \/ SymbolsFetched(e) \/ ListFileIds(e)

-----------------------------------------------------------------------------
(* What the tools may rely on.                                             *)

Context(e) ==
    LET got == contextCache[e].near
    IN  ReadOverHttp({got[i][1] : i \in DOMAIN got},
                     [id \in {got[i][1] : i \in DOMAIN got} |->
                         LET i == CHOOSE j \in DOMAIN got : got[j][1] = id IN got[i][2]])

\* What the resolver found in a corpus, between symbols and from files that import.
Resolved(of) ==
    LET Has(repo, end) == end[1] = "symbol" /\ \E p \in of[repo].files : end[2] \in SymbolsOf(p)
        From(repo, end) == IF end[1] = "file" THEN <<"file", end[2]>> ELSE <<repo, end[2]>>
    IN  [table |-> UNION {UNION {{<<repo, x>> : x \in SymbolsOf(p)} : p \in of[repo].files} : repo \in DOMAIN of},
         relations |->
            UNION {{<<From(repo, r[1]), Infer(StoredKind(r[2])), <<repo, r[3][2]>>>> :
                       r \in {x \in of[repo].relations :
                                /\ Has(repo, x[3])
                                /\ Has(repo, x[1]) \/ (x[1][1] = "file" /\ x[2] = "imports"
                                                       /\ x[1][2] \in of[repo].files)}} : repo \in DOMAIN of}]

Undisturbed(e) == contextCache[e].at = "done" /\ contextCache[e].steady /\ ~contextCache[e].lossy /\ contextCache[e].of # NoCorpus

\* What a load reads back that no write and no failure disturbed is what the run's
\* resolver found, whichever way the server lists, and in two repositories with
\* files of one path; so is what the embedded transport reads.
ReadBackIsResolved ==
    /\ \A e \in Epochs : Undisturbed(e) => Context(e) = Resolved(contextCache[e].of)
    /\ corpus # NoCorpus /\ indexRun.at \in {"none", "write"} => ReadEmbedded(lore) = Resolved(corpus)

\* A load that a failed request or a run disturbed still invents nothing: each of
\* its relations is of a corpus that was written.
NothingInvented ==
    \A e \in Epochs : contextCache[e].at = "done" =>
        Context(e).relations \subseteq UNION {Resolved(Corpora[i]).relations : i \in DOMAIN Corpora}

\* A tool called after a run ended well is not answered by an earlier load.
AnswersAreFresh ==
    \A x \in Askers : toolCalls[x].at = "asked" /\ contextCache[toolCalls[x].epoch] # NoLoad =>
        contextCache[toolCalls[x].epoch].began >= toolCalls[x].since

\* No symbol that the resolver saw called or imported is reported dead, and each
\* of its uses across layers that no rule allows is reported.
UsesAreSeen ==
    \A e \in Epochs : Undisturbed(e) =>
        \A repo \in DOMAIN contextCache[e].of :
            \A r \in contextCache[e].of[repo].relations :
                LET used == <<repo, r[3][2]>>
                    layer == IF r[1][1] = "file" THEN LayersOf(r[1][2]) ELSE LayersOf(Facts[r[1][2]].file)
                IN  r[2] \in Uses /\ used \in Context(e).table =>
                        /\ used \notin Dead(Context(e))
                        /\ \A x \in layer, y \in LayersOf(Facts[used[2]].file) :
                              x # y /\ <<x, y>> \notin MayUse =>
                                \E v \in Violations(Context(e)) : v[3] = used

\* An answer that a name is ambiguous is one that a repository resolves, as its
\* text says ("pass a repo qualifier").
QualifierResolves ==
    \A e \in Epochs : contextCache[e].at = "done" =>
        \A name \in {Facts[x].name : x \in DOMAIN Facts} :
            Found(Context(e), name, "any") = "ambiguous" =>
                \A x \in Candidates(Context(e), name, "any") : Found(Context(e), name, x[1]) = "found"

\* The folders and files of a repository are one tree, each under one folder.
FoldersAreATree ==
    corpus # NoCorpus /\ indexRun.at = "none" =>
        \A id \in lore.nodes : id[1] \in {"code-file", "code-folder"} =>
            {x.from : x \in {y \in lore.arcs : y.relation = "contains" /\ y.to = id}}
                = (IF id[3] = "." THEN {} ELSE {StoredFolder(id[2],
                     IF id[1] = "code-file" THEN FoldersOf[id[3]][1]
                     ELSE LET p == CHOOSE q \in DOMAIN FoldersOf : id[3] \in ToSet(FoldersOf[q])
                              i == CHOOSE j \in DOMAIN FoldersOf[p] : FoldersOf[p][j] = id[3]
                          IN  FoldersOf[p][i + 1])})

ReadsAreTrue ==
    ReadBackIsResolved /\ NothingInvented /\ AnswersAreFresh /\ UsesAreSeen
    /\ QualifierResolves /\ FoldersAreATree
=============================================================================

------------------------------ MODULE LoreClient ------------------------------
(* The client of a remote Lore (src/loreClient.ts): each write is tried a      *)
(* bounded number of times against a daemon that limits the rate, and what an   *)
(* older daemon does not have is found out once and gone around from then on:   *)
(* the bulk endpoints, the edge endpoint, the embed flag.                      *)
(*                                                                            *)
(* A request and its answer are one step; between two of them the daemon may   *)
(* be replaced by an older or a newer one.                                     *)
EXTENDS Integers, Sequences, SequencesExt

CONSTANTS
    Writes,                \* what the caller writes: [kind, items]
    MaxAttempts,           \* MAX_ATTEMPTS of one request
    MaxCalls, MaxSwaps     \* bounds: calls, and replacements of the daemon

ASSUME ClientAssumption == MaxAttempts \in Nat \ {0} /\ MaxCalls \in Nat /\ MaxSwaps \in Nat

\* storeNode and storeEdge take one item, their bulk forms a list.
ASSUME WritesAssumption ==
    \A w \in Writes : /\ w.kind \in {"node", "edge"} /\ w.bulk \in BOOLEAN
                      /\ w.items \in Seq(ToSet(w.items))
                      /\ ~w.bulk => Len(w.items) = 1

VARIABLES
    lacks,                 \* what this client found the daemon to lack
    mcp,                   \* mcpConnected
    call,                  \* the call under way
    outcome,               \* of the last call: what it wrote; for each item "ok", "failed"
                           \* or, over MCP, "told"; and whether it threw
    stored,                \* external: the rows of the daemon
    daemon, swaps,         \* external: "old" lacks every feature; and its replacements
    calls,
    refusals               \* history: how often each feature was refused

remote == <<lacks, mcp, call, outcome, stored, daemon, swaps, calls, refusals>>

Features == {"bulk", "edge", "embed"}
NoCall == [kind |-> "none", items |-> <<>>, path |-> "none", attempt |-> 0, bulk |-> FALSE, results |-> <<>>]
NoOutcome == [items |-> <<>>, results |-> <<>>, threw |-> FALSE]

ClientInit ==
    /\ lacks = {} /\ mcp = FALSE /\ call = NoCall /\ outcome = NoOutcome
    /\ stored = {} /\ daemon \in {"old", "new"} /\ swaps = 0 /\ calls = 0
    /\ refusals = [x \in Features |-> 0]

External == UNCHANGED <<daemon, swaps>>

\* How the next item goes out.
ItemPath(kind) == IF kind = "edge" /\ "edge" \in lacks THEN "mcp" ELSE "item"

\* storeNode, storeEdge, bulkStoreNodes, bulkStoreEdges; an empty bulk returns.
Begin(w) ==
    /\ call = NoCall /\ calls < MaxCalls
    /\ calls' = calls + 1
    /\ IF w.items = <<>> THEN outcome' = NoOutcome /\ UNCHANGED call
       ELSE /\ call' = [NoCall EXCEPT !.kind = w.kind, !.items = w.items, !.bulk = w.bulk,
                            !.path = IF w.bulk /\ "bulk" \notin lacks THEN "bulk" ELSE ItemPath(w.kind)]
            /\ UNCHANGED outcome
    /\ UNCHANGED <<lacks, mcp, stored, refusals>> /\ External

Item == call.items[Len(call.results) + 1]
Returns(results, threw) ==
    /\ outcome' = [items |-> call.items, results |-> results, threw |-> threw]
    /\ call' = NoCall

\* The item is over: a single write returns or throws, a bulk goes on to the next.
ItemOver(how) ==
    LET now == Append(call.results, how)
    IN  IF call.bulk /\ Len(now) < Len(call.items)
        THEN /\ call' = [call EXCEPT !.results = now, !.path = ItemPath(call.kind), !.attempt = 0]
             /\ UNCHANGED outcome
        ELSE Returns(now, ~call.bulk /\ how = "failed")

\* 429: wait and try again, up to the bound.
Limited ==
    /\ call.path \in {"bulk", "item", "bare"}
    /\ IF call.attempt + 1 < MaxAttempts
       THEN call' = [call EXCEPT !.attempt = @ + 1] /\ UNCHANGED outcome
       ELSE IF call.path = "bulk" THEN Returns(<<>>, TRUE) ELSE ItemOver("failed")
    /\ UNCHANGED <<lacks, mcp, stored, calls, refusals>> /\ External

(* Mutant: a bulk write is all or nothing to the caller. *)
BulkAnswersAllOk ==
    /\ call.path = "bulk" /\ daemon = "new"
    /\ \E landed \in SUBSET ToSet(call.items) :
          /\ stored' = stored \cup landed
          /\ Returns([i \in DOMAIN call.items |-> "ok"], FALSE)
    /\ UNCHANGED <<lacks, mcp, calls, refusals>> /\ External

\* The bulk endpoint answers for every item by itself.
BulkAnswers ==
    /\ call.path = "bulk" /\ daemon = "new"
    /\ \E landed \in SUBSET ToSet(call.items) :
          /\ stored' = stored \cup landed
          /\ Returns([i \in DOMAIN call.items |-> IF call.items[i] \in landed THEN "ok" ELSE "failed"], FALSE)
    /\ UNCHANGED <<lacks, mcp, calls, refusals>> /\ External

\* 401, 5xx, a timeout: the answer is lost, the rows may be there.
BulkFails ==
    /\ call.path = "bulk"
    /\ \E landed \in SUBSET ToSet(call.items) :
          stored' = stored \cup (IF daemon = "new" THEN landed ELSE {})
    /\ Returns(<<>>, TRUE)
    /\ UNCHANGED <<lacks, mcp, calls, refusals>> /\ External

\* The daemon was found to lack the feature: from now on it is not asked for.
Learns(x) == refusals' = [refusals EXCEPT ![x] = @ + 1] /\ lacks' = lacks \cup {x}

BulkMissing ==
    /\ call.path = "bulk" /\ daemon = "old"
    /\ Learns("bulk")
    /\ call' = [call EXCEPT !.path = ItemPath(call.kind), !.attempt = 0]
    /\ UNCHANGED <<mcp, outcome, stored, calls>> /\ External

EdgeMissingThere ==
    /\ call.path = "item" /\ call.kind = "edge" /\ daemon = "old"
    /\ Learns("edge")
    /\ call' = [call EXCEPT !.path = "mcp"]
    /\ UNCHANGED <<mcp, outcome, stored, calls>> /\ External

\* Whether the node goes out with the flag.
Flagged == call.path = "item" /\ call.kind = "node" /\ "embed" \notin lacks

FlagRefused ==
    /\ Flagged /\ daemon = "old"
    /\ Learns("embed")
    /\ call' = [call EXCEPT !.path = "bare", !.attempt = 0]
    /\ UNCHANGED <<mcp, outcome, stored, calls>> /\ External

\* The endpoint of single items takes what this daemon knows.
Takes == call.path \in {"item", "bare"} /\ (daemon = "new" \/ (call.kind = "node" /\ ~Flagged))

ItemStored ==
    /\ Takes
    /\ stored' = stored \cup {Item}
    /\ ItemOver("ok")
    /\ UNCHANGED <<lacks, mcp, calls, refusals>> /\ External

ItemFails ==
    /\ call.path \in {"item", "bare"}
    /\ stored' \in {stored} \cup (IF Takes THEN {stored \cup {Item}} ELSE {})
    /\ ItemOver("failed")
    /\ UNCHANGED <<lacks, mcp, calls, refusals>> /\ External

\* ensureMcpConnected, and callTool, for a daemon without the edge endpoint: what
\* the tool answers is told on as a success, also when it tells of an error.
McpConnects ==
    /\ call.path = "mcp" /\ ~mcp
    /\ \/ mcp' = TRUE /\ UNCHANGED <<call, outcome>>
       \/ ItemOver("failed") /\ UNCHANGED mcp
    /\ UNCHANGED <<lacks, stored, calls, refusals>> /\ External

McpAnswers ==
    /\ call.path = "mcp" /\ mcp
    /\ stored' \in {stored, stored \cup {Item}}
    /\ \E how \in {"told", "failed"} : ItemOver(how)
    /\ UNCHANGED <<lacks, mcp, calls, refusals>> /\ External

CloseClient ==
    /\ call = NoCall /\ mcp
    /\ mcp' = FALSE
    /\ UNCHANGED <<lacks, call, outcome, stored, calls, refusals>> /\ External

\* External: another daemon answers from now on.
Swap ==
    /\ swaps < MaxSwaps
    /\ swaps' = swaps + 1
    /\ daemon' = IF daemon = "old" THEN "new" ELSE "old"
    /\ UNCHANGED <<lacks, mcp, call, outcome, stored, calls, refusals>>

Exchange ==
    \/ Limited \/ BulkAnswers \/ BulkFails \/ BulkMissing \/ EdgeMissingThere \/ FlagRefused
    \/ ItemStored \/ ItemFails \/ McpConnects \/ McpAnswers

Post == Exchange \/ CloseClient \/ Swap \/ \E w \in Writes : Begin(w)

ClientSpec == ClientInit /\ [][Post]_remote

\* Every request is answered or times out.
ClientFairness == WF_remote(Exchange)

-----------------------------------------------------------------------------
\* The results are those of the items, in their order, and a call that reports an
\* item as written wrote it; what the MCP tool told is passed on as it is, also when
\* it told of an error (loreClient.ts:72-80, 233-240).
OkIsStored ==
    \A i \in DOMAIN outcome.results :
        outcome.results[i] = "ok" => outcome.items[i] \in stored

\* A bulk call that returns accounts for each of its items.
Positional == outcome.threw \/ Len(outcome.results) = Len(outcome.items)

\* An older daemon refuses each feature once in the life of a client, however many
\* writes follow and whichever daemon answers them (loreClient.ts:157-170).
RefusedOnce == \A x \in Features : refusals[x] <= 1

\* A daemon that limits the rate on every request does not hold a caller for ever
\* (loreClient.ts:116-121).
CallReturns == []<>(call = NoCall)

\* A caller is told the truth about each item, and the daemon is not asked twice for
\* what it refused.
WritesAccounted == OkIsStored /\ Positional /\ RefusedOnce
=============================================================================

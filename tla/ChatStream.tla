------------------------------ MODULE ChatStream ------------------------------
(* A chat answer on its way (src/llm/streamChat.ts, the stream route of         *)
(* src/mcp/server.ts, and the page's reader: atlas-ui/src/api/chatStream.ts,    *)
(* api/streamOutcome.ts, components/chat/ChatPanel.tsx).  The provider sends a   *)
(* stream of framed tokens to the daemon, which frames them anew for the page;   *)
(* the network cuts both streams into chunks wherever it likes.                *)
(*                                                                            *)
(* A frame is two halves and a delimiter; half a frame does not parse.         *)
EXTENDS Integers, SequencesExt

CONSTANTS
    Tokens,                \* the provider's answer: strings
    MaxChats               \* bound: questions asked

ASSUME ChatAssumption == ToSet(Tokens) \cap {"end", "done", "error"} = {} /\ MaxChats \in Nat

VARIABLES
    wire,                  \* units on their way to the daemon
    ending,                \* how the provider's stream goes out: "ends", "breaks"
    sent,                  \* history: what the provider sent in all
    pumping,               \* the daemon: idle, pumping; or gone, with the connection
    held, full,            \* its buffer, and the tokens it has read
    egress,                \* units on their way to the page
    unread,                 \* the page's buffer
    shown,                 \* the tokens of the answer on the page
    answer,                \* "none", "stream", "fallback"; and the outcomes: "whole",
                           \* "partial" with its error, "other" (the buffered call's
                           \* answer), "error", "gone"
    chats

chat == <<wire, ending, sent, pumping, held, full, egress, unread, shown, answer, chats>>

ChatInit ==
    /\ wire = <<>> /\ ending = "ends" /\ sent = <<>> /\ pumping = "idle" /\ held = <<>>
    /\ full = <<>> /\ egress = <<>> /\ unread = <<>> /\ shown = <<>>
    /\ answer = "none" /\ chats = 0

Delim == <<"end", 0>>
Framed(x) == << <<x, 1>>, <<x, 2>>, Delim >>
FrameAll(s) == FlattenSeq([i \in DOMAIN s |-> Framed(s[i])])

\* The frames of a run of units in which every frame is complete.
Whole(units) ==
    LET ends == {i \in DOMAIN units : i > 1 /\ units[i][2] = 2 /\ units[i - 1] = <<units[i][1], 1>>}
    IN  [i \in 1 .. Cardinality(ends) |-> units[SetToSortSeq(ends, <)[i]][1]]

(* Mutant: what follows the last delimiter is not carried over. *)
ParseForgets(units) == [frames |-> Whole(units), rest |-> <<>>]

\* parseOllamaChunk, parseOpenAiChunk, parseAnthropicChunk, parseSseBuffer: the
\* frames up to the last delimiter, and the rest.
Parse(units) ==
    LET cut == IF Contains(units, Delim) THEN CHOOSE i \in DOMAIN units :
                    units[i] = Delim /\ \A j \in DOMAIN units : units[j] = Delim => j <= i
               ELSE 0
    IN  [frames |-> Whole(SubSeq(units, 1, cut)), rest |-> SubSeq(units, cut + 1, Len(units))]

\* The question is sent.  The provider sends some units of its answer, and then ends
\* its stream or leaves it to break or to time out.
AskChat ==
    /\ answer \in {"none", "whole", "partial", "other", "error"} /\ pumping = "idle" /\ chats < MaxChats
    /\ chats' = chats + 1
    /\ \E n \in 0 .. 3 * Len(Tokens), how \in {"ends", "breaks"} :
          /\ wire' = SubSeq(FrameAll(Tokens), 1, n)
          /\ ending' = how
    /\ sent' = wire'
    /\ pumping' = "pumping" /\ held' = <<>> /\ full' = <<>>
    /\ egress' = <<>> /\ unread' = <<>> /\ shown' = <<>> /\ answer' = "stream"

-----------------------------------------------------------------------------
(* The daemon. *)

\* res.on('data'): a chunk of any length.
DaemonReads(n) ==
    /\ pumping = "pumping" /\ n \in DOMAIN wire
    /\ LET p == Parse(held \o SubSeq(wire, 1, n))
       IN  /\ held' = p.rest
           /\ full' = full \o p.frames
           /\ egress' = egress \o FrameAll(p.frames)
    /\ wire' = SubSeq(wire, n + 1, Len(wire))
    /\ UNCHANGED <<ending, sent, pumping, unread, shown, answer, chats>>

\* res.on('end'): the rest is parsed as if it were complete, then the last frame.
ProviderEnds ==
    /\ pumping = "pumping" /\ wire = <<>> /\ ending = "ends"
    /\ LET p == Parse(held \o <<Delim>>)
       IN  /\ full' = full \o p.frames
           /\ egress' = egress \o FrameAll(p.frames) \o Framed("done")
    /\ pumping' = "idle" /\ held' = <<>>
    /\ UNCHANGED <<wire, ending, sent, unread, shown, answer, chats>>

\* An error of the stream, or 120 s without a chunk.
ProviderBreaks ==
    /\ pumping = "pumping" /\ wire = <<>> /\ ending = "breaks"
    /\ egress' = egress \o Framed("error")
    /\ pumping' = "idle" /\ held' = <<>>
    /\ UNCHANGED <<wire, ending, sent, full, unread, shown, answer, chats>>

\* The daemon dies; what it sent may still arrive.
DaemonDies ==
    /\ pumping = "pumping"
    /\ pumping' = "gone" /\ wire' = <<>> /\ held' = <<>>
    /\ \E n \in 0 .. Len(egress) : egress' = SubSeq(egress, 1, n)
    /\ UNCHANGED <<ending, sent, full, unread, shown, answer, chats>>

-----------------------------------------------------------------------------
(* The page. *)

\* classifyStreamFailure: what is on the page stays there, with an error beside it;
\* if nothing is, the buffered call may still answer.
Failed(now) == shown' = now /\ answer' = (IF now = <<>> THEN "fallback" ELSE "partial")

\* reader.read(): the frames of a chunk in their order; an error ends it.
PageReads(n) ==
    /\ answer = "stream" /\ n \in DOMAIN egress
    /\ LET p == Parse(unread \o SubSeq(egress, 1, n))
           now == shown \o SelectSeq(p.frames, LAMBDA x : x \notin {"done", "error"})
       IN  /\ unread' = p.rest
           /\ IF Contains(p.frames, "error") THEN Failed(now)
              ELSE /\ shown' = (IF Contains(p.frames, "done") THEN full ELSE now)
                   /\ answer' = (IF Contains(p.frames, "done") THEN "whole" ELSE "stream")
    /\ egress' = SubSeq(egress, n + 1, Len(egress))
    /\ UNCHANGED <<wire, ending, sent, pumping, held, full, chats>>

\* The connection is lost with the daemon.
PageLoses ==
    /\ answer = "stream" /\ egress = <<>> /\ pumping = "gone"
    /\ Failed(shown)
    /\ UNCHANGED <<wire, ending, sent, pumping, held, full, egress, unread, chats>>

\* fetchLLMInsight answers, or the error is shown.
FallsBack ==
    /\ answer = "fallback"
    /\ answer' \in {"other", "error"}
    /\ UNCHANGED <<wire, ending, sent, pumping, held, full, egress, unread, shown, chats>>

\* The panel is left: the stream is aborted, and the daemon goes on.
LeavePanel ==
    /\ answer = "stream"
    /\ answer' = "gone"
    /\ UNCHANGED <<wire, ending, sent, pumping, held, full, egress, unread, shown, chats>>

Talk ==
    \/ AskChat \/ ProviderEnds \/ ProviderBreaks \/ DaemonDies
    \/ PageLoses \/ FallsBack \/ LeavePanel
    \/ \E n \in 1 .. 3 * (Len(Tokens) + 1) : DaemonReads(n) \/ PageReads(n)

\* Chunks arrive, timeouts fire, the buffered call answers or fails.
ChatFairness ==
    /\ WF_chat((\E n \in DOMAIN wire : DaemonReads(n)) \/ ProviderEnds \/ ProviderBreaks)
    /\ WF_chat((\E n \in DOMAIN egress : PageReads(n)) \/ PageLoses \/ FallsBack)

-----------------------------------------------------------------------------
\* However both streams are cut into chunks, the page shows tokens of the answer in
\* their order, without a gap; and none that the daemon did not read
\* (streamChat.ts:88-100, chatStream.ts:58-70).
ShownInOrder == IsPrefix(full, Tokens) /\ IsPrefix(shown, full)

\* What is shown as a complete answer is all that the provider sent, down to a last
\* frame that was not delimited (streamChat.ts:320-330).
WholeIsWhole == answer = "whole" => ending = "ends" /\ shown = Whole(sent)

\* A token that the page has shown stays, whatever happens to the stream
\* (streamOutcome.ts:5-16, 22-25).
ShownStays == [][answer = "stream" => IsPrefix(shown, shown')]_chat

\* Every question gets an answer or an error (streamChat.ts:338-342).
ChatAnswered == []<>(answer \notin {"stream", "fallback"})

\* The page shows the answer, in order and for good, and calls whole what is whole.
ChatFaithful == [](ShownInOrder /\ WholeIsWhole) /\ ShownStays
=============================================================================

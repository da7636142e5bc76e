------------------------------ MODULE McpSessions ------------------------------
(* The sessions of the MCP endpoint (src/mcp/server.ts): a map in the order of *)
(* last use, with a cap and a sweep of what has been idle for too long, because *)
(* clients come and go without closing what they opened.                      *)
EXTENDS Integers, FiniteSets, SequencesExt

CONSTANTS
    Sids,                  \* bound: sessions that are ever opened
    Cap,                   \* MAX_ACTIVE_SESSIONS
    Ttl                    \* SESSION_IDLE_TTL_MS, in ticks of the clock

ASSUME SessionsAssumption == Cap \in Nat \ {0} /\ Ttl \in Nat \ {0}

VARIABLES
    client,                \* of a session: none, here, gone
    transport,             \* none, connecting, handling, open, closed
    sessions,              \* activeSessions, the least recently used first
    age,                   \* ticks since lastActivityMs, up to Ttl
    serving                \* the server has not been closed

table == <<client, transport, sessions, age, serving>>

SessionsInit ==
    /\ client = [s \in Sids |-> "none"] /\ transport = [s \in Sids |-> "none"]
    /\ sessions = <<>> /\ age = [s \in Sids |-> 0] /\ serving = TRUE

Tracked == ToSet(sessions)

\* The map's order without those of S.
Drop(S) ==
    LET left[i \in 0 .. Len(sessions)] ==
            IF i = 0 THEN <<>>
            ELSE IF sessions[i] \in S THEN left[i - 1] ELSE Append(left[i - 1], sessions[i])
    IN  left[Len(sessions)]

Closing(S) == [s \in Sids |-> IF s \in S THEN "closed" ELSE transport[s]]

\* handleMcp without a session that it knows: a new transport is connected, and
\* then takes the request, which gives the session its id, or is refused, and
\* nothing refers to the transport any more.
Connect(s) ==
    /\ serving /\ transport[s] = "none"
    /\ client' = [client EXCEPT ![s] = "here"]
    /\ transport' = [transport EXCEPT ![s] = "connecting"]
    /\ UNCHANGED <<sessions, age, serving>>

Handle(s) ==
    /\ transport[s] = "connecting"
    /\ \E pc \in {"handling", "closed"} : transport' = [transport EXCEPT ![s] = pc]
    /\ UNCHANGED <<client, sessions, age, serving>>

(* Mutant: what is over the cap is forgotten without a close. *)
RegisterForgets(s) ==
    /\ transport[s] = "handling"
    /\ age' = [age EXCEPT ![s] = 0]
    /\ sessions' = (IF Len(sessions) < Cap THEN sessions ELSE Tail(sessions)) \o <<s>>
    /\ transport' = [transport EXCEPT ![s] = "open"]
    /\ UNCHANGED <<client, serving>>

\* The session is remembered, and evictOverCap closes the first ones over the cap.
Register(s) ==
    LET over == IF Len(sessions) < Cap THEN {} ELSE ToSet(SubSeq(sessions, 1, Len(sessions) + 1 - Cap))
    IN  /\ transport[s] = "handling"
        /\ age' = [age EXCEPT ![s] = 0]
        /\ sessions' = Append(Drop(over), s)
        /\ transport' = [Closing(over) EXCEPT ![s] = "open"]
        /\ UNCHANGED <<client, serving>>

\* A request in a session the map holds; one that comes before Register is taken for
\* the first of another session, which the transport refuses.
Request(s) ==
    /\ client[s] = "here" /\ s \in Tracked
    /\ age' = [age EXCEPT ![s] = 0]
    /\ sessions' = Append(Drop({s}), s)
    /\ UNCHANGED <<client, transport, serving>>

\* The client ends its session, and onclose forgets it.
EndSession(s) ==
    /\ client[s] = "here" /\ s \in Tracked
    /\ transport' = Closing({s})
    /\ sessions' = Drop({s})
    /\ client' = [client EXCEPT ![s] = "gone"]
    /\ UNCHANGED <<age, serving>>

\* The client goes away without a word.
Vanish(s) ==
    /\ client[s] = "here"
    /\ client' = [client EXCEPT ![s] = "gone"]
    /\ UNCHANGED <<transport, sessions, age, serving>>

Pass ==
    /\ age' = [s \in Sids |-> IF age[s] < Ttl THEN age[s] + 1 ELSE Ttl]
    /\ age' # age
    /\ UNCHANGED <<client, transport, sessions, serving>>

\* sweepIdleSessions, on its timer.
Sweep ==
    LET idle == {s \in Tracked : age[s] = Ttl}
    IN  /\ serving /\ idle # {}
        /\ sessions' = Drop(idle)
        /\ transport' = Closing(idle)
        /\ UNCHANGED <<client, age, serving>>

\* close(): the timer stops, and every session in the map is closed.
CloseServer ==
    /\ serving
    /\ serving' = FALSE
    /\ transport' = Closing(Tracked)
    /\ sessions' = <<>>
    /\ UNCHANGED <<client, age>>

-----------------------------------------------------------------------------
Serve ==
    \/ \E s \in Sids : \/ Connect(s) \/ Handle(s) \/ Register(s)
                       \/ Request(s) \/ EndSession(s) \/ Vanish(s)
    \/ Pass \/ Sweep \/ CloseServer

SessionsSpec == SessionsInit /\ [][Serve]_table

\* Promises resolve, the clock runs, the sweep's timer fires.
SessionsFairness ==
    /\ \A s \in Sids : WF_table(Handle(s)) /\ WF_table(Register(s))
    /\ WF_table(Pass) /\ WF_table(Sweep)

-----------------------------------------------------------------------------
\* A session has at most one place in the map, and only sessions with an id have one.
SessionsTypeOK ==
    /\ client \in [Sids -> {"none", "here", "gone"}]
    /\ transport \in [Sids -> {"none", "connecting", "handling", "open", "closed"}]
    /\ Tracked \subseteq Sids /\ IsInjective(sessions)
    /\ age \in [Sids -> 0 .. Ttl] /\ serving \in BOOLEAN

\* However many sessions are opened and abandoned, the map keeps to its cap
\* (server.ts:256-272, 797-801).
SessionsBounded == Len(sessions) <= Cap

\* No open transport is out of the map's sight, and nothing closed stays in it, as
\* long as the server has not been closed (server.ts:258-262).
OpenIsTracked == serving => Tracked = {s \in Sids : transport[s] = "open"}

\* Nobody is put out by the cap or the sweep before one that has been quiet for
\* longer (server.ts:268-271, 293-298).
QuietGoesFirst ==
    [][\A s, q \in Tracked :
          (Sweep \/ \E n \in Sids : Register(n)) /\ s \notin ToSet(sessions') /\ q \in ToSet(sessions')
             => age[q] <= age[s]]_table

\* What a client that is gone had opened is closed in the end, although it never
\* said so; unless the server is closed first (server.ts:309-312).
GoneIsClosed ==
    []<>(serving => \A s \in Sids : client[s] = "gone" => transport[s] = "closed")

\* The map is bounded, holds exactly the open transports, and gives up the quietest.
SessionsKept ==
    /\ [](SessionsTypeOK /\ SessionsBounded /\ OpenIsTracked)
    /\ QuietGoesFirst
=============================================================================

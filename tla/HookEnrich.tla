------------------------------ MODULE HookEnrich ------------------------------
(* Live advice for agent hooks (src/mcp/hookEnrich.ts): a cache, one lookup at *)
(* a time in the native store, and a budget after which the hook is answered   *)
(* without it while the lookup goes on.                                       *)
EXTENDS Integers, FiniteSets, SequencesExt

CONSTANTS
    Hooks,                 \* callers of the hook endpoint
    Symbols,               \* what they ask for: the keys of the cache
    CacheMax, CacheTtl,    \* CACHE_MAX_ENTRIES, CACHE_TTL_MS in ticks
    Nobody

ASSUME EnrichAssumption == CacheMax \in Nat \ {0} /\ CacheTtl \in Nat /\ Nobody \notin Hooks

VARIABLES
    hook,                  \* of a hook: what it asked for, whether it waits, and what
                           \* it was told: the advice, nothing to say, or the fallback
    holder,                \* whose lookup set inFlight, or Nobody
    native,                \* the lookups in native code: of which hook
    cached, kept          \* the keys, the oldest first; their age in ticks

advice == <<hook, holder, native, cached, kept>>

NoAsk == [pc |-> "idle", symbol |-> Nobody, told |-> "none"]

EnrichInit ==
    /\ hook = [h \in Hooks |-> NoAsk]
    /\ holder = Nobody /\ native = {}
    /\ cached = <<>> /\ kept = [k \in Symbols |-> [age |-> 0, value |-> "none"]]

Says(h, k, told) == hook' = [hook EXCEPT ![h] = [pc |-> "idle", symbol |-> k, told |-> told]]
Fresh(k) == Contains(cached, k) /\ kept[k].age <= CacheTtl

\* The order of the keys without k, which has one place in it at most.
Forget(k) ==
    IF Contains(cached, k) THEN RemoveAt(cached, CHOOSE i \in DOMAIN cached : cached[i] = k) ELSE cached

\* What is too old is deleted when it is asked for.
Unexpired(k) == IF Fresh(k) THEN cached ELSE Forget(k)

Hit(h, k) ==
    /\ hook[h].pc = "idle" /\ Fresh(k)
    /\ Says(h, k, kept[k].value)
    /\ UNCHANGED <<holder, native, cached, kept>>

\* Another lookup is under way: the static nudge stands.
Busy(h, k) ==
    /\ hook[h].pc = "idle" /\ ~Fresh(k) /\ holder # Nobody
    /\ Says(h, k, "fallback")
    /\ cached' = Unexpired(k)
    /\ UNCHANGED <<holder, native, kept>>

\* The lookup starts under the guard, and races the budget.
Look(h, k) ==
    /\ hook[h].pc = "idle" /\ ~Fresh(k) /\ holder = Nobody
    /\ hook' = [hook EXCEPT ![h] = [pc |-> "racing", symbol |-> k, told |-> "none"]]
    /\ holder' = h
    /\ native' = native \cup {h}
    /\ cached' = Unexpired(k)
    /\ UNCHANGED kept

(* Mutant: a hook waits for its lookup however long that takes. *)
BudgetIgnored(h) == FALSE /\ UNCHANGED advice

\* The budget wins.
BudgetEnds(h) ==
    /\ hook[h].pc = "racing"
    /\ Says(h, hook[h].symbol, "fallback")
    /\ UNCHANGED <<holder, native, cached, kept>>

\* A key that is written is the youngest; the oldest goes when there are too many.
Put(k) ==
    LET now == Append(Forget(k), k)
    IN  IF Len(now) > CacheMax THEN Tail(now) ELSE now

(* Mutant: whatever a lookup comes to is remembered, a failure like an answer. *)
SettlesAndRemembers(h) ==
    /\ h \in native
    /\ native' = native \ {h}
    /\ holder' = Nobody
    /\ \E value \in {"advice", "nothing", "fallback"} :
          IF hook[h].pc = "racing"
          THEN /\ Says(h, hook[h].symbol, value)
               /\ cached' = Put(hook[h].symbol)
               /\ kept' = [kept EXCEPT ![hook[h].symbol] = [age |-> 0, value |-> value]]
          ELSE UNCHANGED <<hook, cached, kept>>

\* The lookup comes to its end, which opens the guard: if the hook still waits, it
\* is told, and the answer, also that there is nothing to say, is remembered; a
\* failure, and an answer that comes too late, are not.
Settles(h) ==
    /\ h \in native
    /\ native' = native \ {h}
    /\ holder' = Nobody
    /\ \E value \in {"advice", "nothing", "fallback"} :
          IF hook[h].pc = "racing"
          THEN /\ Says(h, hook[h].symbol, value)
               /\ IF value = "fallback" THEN UNCHANGED <<cached, kept>>
                  ELSE /\ cached' = Put(hook[h].symbol)
                       /\ kept' = [kept EXCEPT ![hook[h].symbol] = [age |-> 0, value |-> value]]
          ELSE UNCHANGED <<hook, cached, kept>>

Elapse ==
    /\ kept' = [k \in Symbols |-> [kept[k] EXCEPT !.age = IF @ <= CacheTtl THEN @ + 1 ELSE @]]
    /\ kept' # kept
    /\ UNCHANGED <<hook, holder, native, cached>>

Enrich ==
    \/ \E h \in Hooks : \/ \E k \in Symbols : Hit(h, k) \/ Busy(h, k) \/ Look(h, k)
                        \/ BudgetEnds(h) \/ Settles(h)
    \/ Elapse

EnrichSpec == EnrichInit /\ [][Enrich]_advice

\* Timers fire.  A lookup may hang for ever.
EnrichFairness == \A h \in Hooks : WF_advice(BudgetEnds(h))

-----------------------------------------------------------------------------
\* Hooks never stack reads on the native layer, also not on a lookup whose hook
\* stopped waiting; and the guard is not left shut (hookEnrich.ts:18-20, 158-161).
OneLookup == Cardinality(native) <= 1 /\ (holder = Nobody <=> native = {})

\* The cache is within its bound, and what it serves was found by a lookup that
\* completed in time: never the state of a cold store (hookEnrich.ts:25-28, 137-141).
CacheHonest ==
    /\ Len(cached) <= CacheMax /\ IsInjective(cached)
    /\ \A k \in ToSet(cached) : kept[k].value \in {"advice", "nothing"}

\* Every hook is answered, however long its lookup hangs (hookEnrich.ts:21-24).
HookAnswered == \A h \in Hooks : []<>(hook[h].pc = "idle")

\* One lookup at a time, and only its honest results are served again.
AdviceHonest == OneLookup /\ CacheHonest
=============================================================================

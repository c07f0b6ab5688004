----------------------------- MODULE OncePerKey -----------------------------
(***************************************************************************)
(* What an Idempotency-Key promises to those who use it (database-api.md,  *)
(* 1.8), without leases, tables, caches, threads or statements that fail:  *)
(* a call has its effect while it is open, and only when no effect of its  *)
(* key is still kept; whoever is told a result is told a kept one, of its  *)
(* own request; whoever is refused had no effect and gets none.  A call    *)
(* may be lost, with its effect or without, and is then told nothing.  A   *)
(* call that takes too long spoils its key, and no other: nothing of that  *)
(* key is known to be kept from then on.                                   *)
(***************************************************************************)

CONSTANTS Calls, Permanent, Refusals

VARIABLES
    asks,      \* the key and the body of each call
    effects,   \* the calls that had their effect
    outcome,   \* what a call was told: a call whose result it is, or a refusal, of
               \* which "None" is nothing yet
    open,      \* the calls that have not ended
    stale,     \* the calls whose results are no longer kept
    spoilt     \* the keys of calls that took too long

onceVars == <<asks, effects, outcome, open, stale, spoilt>>

OnceInit ==
    /\ effects = {} /\ outcome = [r \in Calls |-> "None"]
    /\ open = Calls /\ stale = {} /\ spoilt = {}

Spoilt(r) == asks[r].key \in spoilt
Kept(e) == asks[e].key \in Permanent \/ e \notin stale

Execute(r) ==
    /\ r \in open \ effects /\ r \notin stale
    /\ Spoilt(r) \/ \A e \in effects : asks[e].key = asks[r].key => ~Kept(e)
    /\ effects' = effects \cup {r}
    /\ UNCHANGED <<asks, outcome, open, stale, spoilt>>

Told(r, answer) ==
    /\ r \in open /\ outcome[r] = "None"
    /\ outcome' = [outcome EXCEPT ![r] = answer] /\ open' = open \ {r}
    /\ UNCHANGED <<asks, effects, stale, spoilt>>

Answer(r, e) ==
    /\ e \in effects /\ asks[e] = asks[r] /\ (Kept(e) \/ Spoilt(r))
    /\ r \in effects => e = r
    /\ Told(r, e)

Refuse(r, why) == r \notin effects /\ Told(r, why)

\* Nobody is told anything; whoever is no longer open was lost.
Lose ==
    /\ open' \subseteq open
    /\ UNCHANGED <<asks, effects, outcome, stale, spoilt>>

\* The result of a call that has ended is forgotten in time.
Forget(r) ==
    /\ r \notin open /\ stale' = stale \cup {r}
    /\ UNCHANGED <<asks, effects, outcome, open, spoilt>>

\* A call that is under way has taken too long.
Spoil(r) ==
    /\ r \in open /\ spoilt' = spoilt \cup {asks[r].key}
    /\ UNCHANGED <<asks, effects, outcome, open, stale>>

OnceNext ==
    \/ \E r \in Calls : \/ Execute(r) \/ Forget(r) \/ Spoil(r)
                        \/ \E e \in Calls : Answer(r, e)
                        \/ \E why \in Refusals \ {"None"} : Refuse(r, why)
    \/ Lose

OnceSpec == OnceInit /\ [][OnceNext]_onceVars
=============================================================================

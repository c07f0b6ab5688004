----------------------------- MODULE AtLeastOnce -----------------------------
(***************************************************************************)
(* What the outbox promises (database-api.md, 13.5), without batches,      *)
(* marks, back-offs, statements or the hub: events are committed in order, *)
(* each is told at most once in one life of the process, and it is settled *)
(* as done only when it has been told, in this life or an earlier one; it  *)
(* is given up only by a life that has not told it.  What is not settled   *)
(* when a life ends may be told again by the next.                         *)
(***************************************************************************)
EXTENDS Naturals

CONSTANTS
    Events,     \* natural numbers, in the order of their commits
    Hopeless    \* the events of which nothing can be told

VARIABLES
    fate,       \* "None", "Pending", "Delivered" or "Dead"
    told,       \* how often this life has told an event
    everTold    \* the events that any life has told

promiseVars == <<fate, told, everTold>>

PromiseInit ==
    /\ fate = [e \in Events |-> "None"]
    /\ told = [e \in Events |-> 0]
    /\ everTold = {}

\* An event gets its fate once.
Settle(e, outcome) ==
    /\ fate[e] = "Pending"
    /\ fate' = [fate EXCEPT ![e] = outcome]
    /\ UNCHANGED <<told, everTold>>

Committed(e) ==
    /\ fate[e] = "None" /\ \A d \in Events : d < e => fate[d] # "None"
    /\ fate' = [fate EXCEPT ![e] = "Pending"]
    /\ UNCHANGED <<told, everTold>>

Tell(e) ==
    /\ fate[e] = "Pending" /\ e \notin Hopeless /\ told[e] = 0
    /\ told' = [told EXCEPT ![e] = 1]
    /\ everTold' = everTold \cup {e}
    /\ UNCHANGED fate

Acknowledge(e) == e \in everTold /\ Settle(e, "Delivered")

GiveUp(e) == told[e] = 0 /\ Settle(e, "Dead")

LifeEnds ==
    /\ told' = [e \in Events |-> 0]
    /\ UNCHANGED <<fate, everTold>>

PromiseNext ==
    \/ \E e \in Events : Committed(e) \/ Tell(e) \/ Acknowledge(e) \/ GiveUp(e)
    \/ LifeEnds

PromiseSpec == PromiseInit /\ [][PromiseNext]_promiseVars
=============================================================================

---------------------------- MODULE ChargerLease ----------------------------
(***************************************************************************)
(* What the charging flow promises, without prices, accounts, deadlines or *)
(* administrators: customers line up for the chargers of a pool, each has  *)
(* at most one charger in its life and keeps it until it leaves for good,  *)
(* nobody shares a charger, and those who wait are served in their order.  *)
(* One step may do a good deal of this at once: customers leave, those     *)
(* behind them are served, and a newcomer is served or joins the line.     *)
(***************************************************************************)
EXTENDS Naturals

CONSTANTS Customers, Chargers, Pools, PoolOf, None

VARIABLES
    wants,   \* the pool a customer came for, None before it came
    place,   \* its place in the line, 0 when it is not in it
    holds,   \* its charger, or None
    left     \* the customers who have left

leaseVars == <<wants, place, holds, left>>

LeaseInit ==
    /\ wants = [f \in Customers |-> None]
    /\ place = [f \in Customers |-> 0]
    /\ holds = [f \in Customers |-> None]
    /\ left = {}

InLine(f) == place[f] > 0
Served == {f \in Customers : holds[f] = None /\ holds'[f] # None}
Came   == {f \in Customers : wants[f] = None /\ wants'[f] # None}

\* A customer comes once, for one pool, and leaves once.
ComeAndGo ==
    /\ left \subseteq left'
    /\ \A f \in Customers :
        /\ wants'[f] = wants[f] \/ f \in Came
        /\ f \in left' => wants[f] # None /\ place'[f] = 0 /\ holds'[f] = None
        /\ wants'[f] # None /\ f \notin left' => InLine(f)' \/ holds'[f] # None

\* A charger is given up by leaving only, is given to a customer of its pool
\* who came just now or was in line, and to one customer.
Hold ==
    \A f \in Customers :
        /\ holds[f] \notin {None, holds'[f]} => holds'[f] = None /\ f \in left'
        /\ f \in Served => /\ InLine(f) \/ f \in Came
                           /\ place'[f] = 0
                           /\ PoolOf[holds'[f]] = wants'[f]
                           /\ \A g \in Customers \ {f} : holds'[g] # holds'[f]

\* Nobody changes places; newcomers join at the end; whoever is served has
\* nobody of the pool before it who goes on waiting.
Line ==
    \A f \in Customers :
        /\ InLine(f) /\ InLine(f)' => place'[f] = place[f]
        /\ ~InLine(f) /\ InLine(f)' =>
              f \in Came /\ \A g \in Customers \ {f} : place'[g] < place'[f]
        /\ f \in Served =>
              \A g \in Customers : InLine(g) /\ InLine(g)' /\ wants[g] = wants'[f] =>
                                     InLine(f) /\ place[f] < place[g]

LeaseNext == ComeAndGo /\ Hold /\ Line

LeaseSpec == LeaseInit /\ [][LeaseNext]_leaseVars
=============================================================================

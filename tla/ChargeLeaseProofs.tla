------------------------- MODULE ChargeLeaseProofs -------------------------
(***************************************************************************)
(* ChargeFlow implements ChargerLease, for any number of users, stations,  *)
(* chargers and flows.  A transaction settles the fate of every flow by    *)
(* itself: the flow stays what it is, leaves, comes new or is served from  *)
(* the line.  Each action is first reduced to these fates; that the fates  *)
(* make up a step of the lease service is then shown once.                 *)
(***************************************************************************)
EXTENDS ChargeFlowProofs, FiniteSetTheorems

-----------------------------------------------------------------------------
(***************************************************************************)
(* The fates of a flow f that becomes the record r with ticket t.          *)
(***************************************************************************)
Stays(f, r, t) ==
    /\ r.pool = flow[f].pool
    /\ IF flow[f].status \in Holding
       THEN r.status \in Holding /\ r.charger = flow[f].charger
       ELSE r.status = flow[f].status
    /\ flow[f].status = "Queued" => t = ticket[f]

Leaves(f, r) ==
    /\ flow[f].status \in Active /\ r.status \in Terminal
    /\ r.pool = flow[f].pool

\* A newcomer joins the end of the line, or is served at once, when nobody
\* goes on waiting for its pool.
Comes(f) ==
    /\ flow[f].status = "Unused"
    /\ flow'[f].pool \in Pools /\ enabled[flow'[f].pool[1]]
    /\ \/ /\ flow'[f].status = "Queued"
          /\ \A x \in Flows \ {f} : ticket'[x] < ticket'[f]
       \/ /\ flow'[f].status = "PendingQuote"
          /\ \A w \in Waiting(flow'[f].pool) : ticket'[w] = 0

\* Whoever is served waited longer than all who go on waiting for the pool.
IsServed(f) ==
    /\ flow[f].status = "Queued" /\ flow'[f].status = "PendingQuote"
    /\ flow'[f].pool = flow[f].pool
    /\ \A w \in Waiting(flow[f].pool) : ticket'[w] > 0 => ticket[f] < ticket[w]

Fate(f) ==
    \/ Stays(f, flow'[f], ticket'[f])
    \/ Leaves(f, flow'[f])
    \/ Comes(f)
    \/ IsServed(f)

\* A transaction that changes neither flows nor rows.
LEMMA AllStay ==
    ASSUME UNCHANGED <<flow, ticket>>, NEW f \in Flows
    PROVE  Fate(f)
BY DEF Fate, Stays

\* A transaction that changes one holder and no row.
LEMMA OneTurns ==
    ASSUME Now, NEW f \in Flows, NEW r, flow' = [flow EXCEPT ![f] = r],
           Stays(f, r, ticket[f]), UNCHANGED ticket, NEW x \in Flows
    PROVE  Fate(x)
<1>1. flow' = [y \in Flows |-> IF y = f THEN r ELSE flow[y]]
  BY NowTyped
<1> QED
  BY <1>1 DEF Fate, Stays

\* Rows that go are nobody's.
LEMMA SameRows ==
    ASSUME Now, NEW T, \A x \in T : flow[x].status # "Queued"
    PROVE  Without(T) = ticket
<1>1. \A f \in Flows : f \in T => ticket[f] = 0
  BY NowTyped DEF Lined
<1> QED
  BY <1>1, NowTyped DEF Without

\* The first half of a transaction left f in fl and tk, then the queue was
\* served.
LEMMA ServedFate ==
    ASSUME Now, NEW fl, NEW ch, NEW steps, NEW free, NEW g \in Grants(steps, free),
           NEW tk, Serve(g, fl, ch, tk),
           NEW f \in Flows,
           flow[f].status = "Queued" => fl[f] = flow[f] /\ tk[f] = ticket[f],
           Stays(f, fl[f], tk[f]) \/ Leaves(f, fl[f])
    PROVE  Fate(f)
<1>1. CASE f \notin DOMAIN g
  <2>1. flow'[f] = fl[f] /\ ticket'[f] = tk[f]
    BY <1>1 DEF Serve
  <2> QED
    BY <2>1 DEF Fate
<1>2. CASE f \in DOMAIN g
  <2> DEFINE p == flow[f].pool
             served == DOMAIN g \cap Waiting(p)
  <2>1. /\ flow[f].status = "Queued" /\ ticket[f] > 0 /\ p \in Pools
        /\ f \in served
    BY <1>2, GrantFacts DEF Waiting, InQueue
  <2>2. \A w \in Waiting(p) \ served : ticket[f] < ticket[w]
    BY <2>1 DEF Grants
  <2>3. \A w \in served : ticket'[w] = 0
    BY DEF Serve, Waiting, InQueue
  <2>4. flow'[f].status = "PendingQuote" /\ flow'[f].pool = fl[f].pool
    <3>1. flow'[f] = [fl[f] EXCEPT !.status = "PendingQuote", !.charger = g[f],
                                   !.version = fl[f].version + 1, !.overdue = FALSE]
      BY <1>2 DEF Serve
    <3>2. fl[f] \in FlowRecord
      BY <2>1, NowTyped
    <3> QED
      BY <3>1, <3>2 DEF FlowRecord
  <2>5. \A w \in Waiting(p) : ticket'[w] > 0 => ticket[f] < ticket[w]
    BY <2>2, <2>3
  <2> QED
    BY <2>1, <2>4, <2>5 DEF Fate, IsServed
<1> QED
  BY <1>1, <1>2

\* The same, when the holder f ended and the others were left alone.
LEMMA HolderGoes ==
    ASSUME Now, NEW f \in Flows, flow[f].status \in Holding,
           NEW fl, fl[f].status \in Terminal, fl[f].pool = flow[f].pool,
           \A x \in Flows \ {f} : fl[x] = flow[x],
           NEW T, \A x \in T : flow[x].status # "Queued",
           NEW ch, NEW steps, NEW free, NEW g \in Grants(steps, free),
           Serve(g, fl, ch, Without(T)), NEW x \in Flows
    PROVE  Fate(x)
<1>1. Without(T) = ticket
  BY SameRows
<1>2. flow[f].status \in Active /\ flow[f].status # "Queued"
  BY DEF Holding, Active
<1>3. CASE x = f
  <2>1. Leaves(f, fl[f])
    BY <1>2 DEF Leaves
  <2> QED
    BY <1>2, <1>3, <2>1, ServedFate
<1>4. CASE x # f
  <2>1. Stays(x, fl[x], Without(T)[x])
    BY <1>1, <1>4 DEF Stays
  <2> QED
    BY <1>1, <1>4, <2>1, ServedFate
<1> QED
  BY <1>3, <1>4

\* The same, when only chargers were refitted.
LEMMA RefitFates ==
    ASSUME Now, NEW T, \A x \in T : flow[x].status # "Queued",
           NEW ch, NEW steps, NEW free, NEW g \in Grants(steps, free),
           Serve(g, flow, ch, Without(T)), NEW x \in Flows
    PROVE  Fate(x)
<1>1. Without(T) = ticket
  BY SameRows
<1>2. Stays(x, flow[x], Without(T)[x])
  BY <1>1 DEF Stays
<1> QED
  BY <1>1, <1>2, ServedFate

-----------------------------------------------------------------------------
(***************************************************************************)
(* The fates of each action.                                               *)
(***************************************************************************)
LEMMA ConfirmFates == ASSUME Now, NEW f \in Flows, ConfirmQuote(f), NEW x \in Flows PROVE Fate(x)
<1>1. /\ flow' = [flow EXCEPT ![f] = Turned(flow[f], "Reserved", flow[f].version + 1)]
      /\ flow[f].status \in Holding /\ UNCHANGED ticket
  BY DEF ConfirmQuote, Turned, Holding, Active
<1>2. flow[f] \in FlowRecord /\ "Reserved" \in FlowStatus /\ "Reserved" \in Holding
  BY NowTyped DEF FlowStatus, Holding, Active
<1>3. Stays(f, Turned(flow[f], "Reserved", flow[f].version + 1), ticket[f])
  <2>1. PICK r : r = Turned(flow[f], "Reserved", flow[f].version + 1)
    OBVIOUS
  <2>2. r.status = "Reserved" /\ r.charger = flow[f].charger /\ r.pool = flow[f].pool
    BY ZenonT(60), <1>2, <2>1, Versions, TurnedFlow
  <2> QED
    BY <1>1, <1>2, <2>1, <2>2 DEF Stays, Holding
<1> QED
  BY <1>1, <1>3, OneTurns

LEMMA StartFates == ASSUME Now, NEW f \in Flows, Start(f), NEW x \in Flows PROVE Fate(x)
<1>1. /\ flow' = [flow EXCEPT ![f] = Turned(flow[f], "Charging", flow[f].version + 1)]
      /\ flow[f].status \in Holding /\ UNCHANGED ticket
  BY DEF Start, Turned, Holding, Active
<1>2. flow[f] \in FlowRecord /\ "Charging" \in FlowStatus /\ "Charging" \in Holding
  BY NowTyped DEF FlowStatus, Holding, Active
<1>3. Stays(f, Turned(flow[f], "Charging", flow[f].version + 1), ticket[f])
  <2>1. PICK r : r = Turned(flow[f], "Charging", flow[f].version + 1)
    OBVIOUS
  <2>2. r.status = "Charging" /\ r.charger = flow[f].charger /\ r.pool = flow[f].pool
    BY ZenonT(60), <1>2, <2>1, Versions, TurnedFlow
  <2> QED
    BY <1>1, <1>2, <2>1, <2>2 DEF Stays, Holding
<1> QED
  BY <1>1, <1>3, OneTurns

LEMMA SettleFailsFates ==
    ASSUME Now, NEW f \in Flows, SettleFails(f), NEW x \in Flows PROVE Fate(x)
<1> DEFINE r == [flow[f] EXCEPT !.status = "SettlementFailed"]
<1>1. /\ flow' = [flow EXCEPT ![f] = r] /\ UNCHANGED ticket
      /\ flow[f].status \in Holding
  BY DEF SettleFails, Settleable, Holding, Active
<1>2. flow[f] \in FlowRecord /\ "SettlementFailed" \in Holding
  BY NowTyped DEF Holding, Active
<1>3. Stays(f, r, ticket[f])
  BY <1>1, <1>2 DEF Stays, FlowRecord
<1> HIDE DEF r
<1> QED
  BY <1>1, <1>3, OneTurns

LEMMA DeadlineFates ==
    ASSUME Now, NEW f \in Flows, DeadlinePasses(f), NEW x \in Flows PROVE Fate(x)
<1>1. flow' = [flow EXCEPT ![f] = Late(flow[f])] /\ UNCHANGED ticket
  BY DEF DeadlinePasses, Late
<1>2. flow[f] \in FlowRecord /\ flow[f].status \in FlowStatus /\ flow[f].version \in Nat
  BY NowTyped DEF FlowRecord, FlowStatus
<1>3. Stays(f, Late(flow[f]), ticket[f])
  BY <1>2, TurnedFlow DEF Stays
<1> QED
  BY <1>1, <1>3, OneTurns

LEMMA EndedPool ==
    ASSUME Now, NEW f \in Flows, NEW s
    PROVE  Ended(f, s)[f].pool = flow[f].pool
<1>1. flow \in [Flows -> FlowRecord] /\ flow[f] \in FlowRecord
  BY NowTyped
<1>2. Ended(f, s) = [flow EXCEPT ![f] = Moved(flow[f], s, None)]
  BY DEF Ended, Moved
<1> QED
  BY <1>1, <1>2 DEF FlowRecord, Moved

LEMMA ReleaseFates ==
    ASSUME Now, NEW f \in Flows, NEW next, Release(f, next), NEW x \in Flows
    PROVE  Fate(x)
<1>1. flow[f].status \in Holding /\ flow[f].status # "Queued"
  BY DEF Release, Holding, Active
<1> DEFINE T == {f} \cup StaleHeads(flow[f].pool)
<1>2. PICK g \in Grants(OneStep(flow[f].pool), IdleAfter(flow[f].charger, next)) :
        Serve(g, Ended(f, "Cancelled"), ChargerBecomes(flow[f].charger, next), Without(T))
  BY DEF Release
<1>3. \A y \in T : flow[y].status # "Queued"
  BY <1>1, StaleNotQueued
<1>4. "Cancelled" \in Terminal /\ flow \in [Flows -> FlowRecord]
  BY NowTyped DEF Terminal
<1> HIDE DEF T
<1> QED
  BY <1>1, <1>2, <1>3, <1>4, EndedFlow, EndedPool, HolderGoes

LEMMA CancelFates == ASSUME Now, NEW f \in Flows, Cancel(f), NEW x \in Flows PROVE Fate(x)
<1>1. CASE flow[f].charger # None
  <2>1. /\ flow[f].status \in {"PendingQuote", "Reserved"}
        /\ UNCHANGED <<account, wallet, recharged, enabled, tariff, lastTicket>>
    BY <1>1, NowTyped DEF Cancel, Held
  <2>2. Release(f, "Idle")
    BY <1>1, <2>1 DEF Cancel, Release
  <2> QED
    BY <2>2, ReleaseFates
<1>2. CASE flow[f].charger = None
  <2>1. /\ flow' = Ended(f, "Cancelled") /\ ticket' = Without({f})
        /\ flow[f].status \in Active
    BY <1>2 DEF Cancel, Active
  <2>2. "Cancelled" \in Terminal /\ flow \in [Flows -> FlowRecord]
    BY NowTyped DEF Terminal
  <2>3. flow'[f].status = "Cancelled" /\ flow'[f].pool = flow[f].pool
    BY <2>1, <2>2, EndedFlow, EndedPool
  <2>4. x # f => flow'[x] = flow[x] /\ ticket'[x] = ticket[x]
    BY <2>1, <2>2, EndedFlow DEF Without
  <2> QED
    BY <2>1, <2>2, <2>3, <2>4 DEF Fate, Leaves, Stays
<1> QED
  BY <1>1, <1>2

LEMMA SettleFates ==
    ASSUME Now, NEW f \in Flows, NEW a, NEW next, SettleWith(f, a, next), NEW x \in Flows
    PROVE  Fate(x)
<1> DEFINE done == [flow EXCEPT ![f].status = "Completed", ![f].version = @ + 1]
           T == StaleHeads(flow[f].pool)
<1>1. flow[f].status \in Holding
  BY DEF SettleWith, Settleable, Holding, Active
<1>2. PICK g \in Grants(OneStep(flow[f].pool), IdleAfter(flow[f].charger, next)) :
        Serve(g, done, ChargerBecomes(flow[f].charger, next), Without(T))
  BY DEF SettleWith
<1>3. \A y \in T : flow[y].status # "Queued"
  BY StaleNotQueued
<1>4. /\ done[f].status \in Terminal /\ done[f].pool = flow[f].pool
      /\ \A y \in Flows \ {f} : done[y] = flow[y]
  <2>1. done = [flow EXCEPT ![f] = Turned(flow[f], "Completed", flow[f].version + 1)]
    BY DEF Turned
  <2>2. /\ flow \in [Flows -> FlowRecord] /\ flow[f] \in FlowRecord
        /\ "Completed" \in FlowStatus /\ "Completed" \in Terminal
        /\ flow[f].version + 1 \in Nat
    BY NowTyped, Versions DEF FlowStatus, Terminal
  <2> HIDE DEF done
  <2> QED
    BY <2>1, <2>2, TurnedFlow
<1> HIDE DEF done, T
<1> QED
  BY <1>1, <1>2, <1>3, <1>4, HolderGoes

LEMMA MaintenanceFates == ASSUME Now, RunMaintenance, NEW x \in Flows PROVE Fate(x)
<1> DEFINE freed == {flow[f].charger : f \in TimedOut} \ {None}
           fl == [f \in Flows |-> IF f \in TimedOut
                    THEN [flow[f] EXCEPT !.status = "Expired", !.version = @ + 1,
                                         !.charger = None, !.overdue = FALSE]
                    ELSE flow[f]]
           ch == [c \in Chargers |-> IF c \in freed THEN "Idle" ELSE charger[c]]
           steps == [p \in Pools |-> Cardinality({f \in TimedOut : flow[f].pool = p})]
           T == UNION {StaleHeads(flow[f].pool) : f \in TimedOut}
<1>1. PICK g \in Grants(steps, IdleChargers \cup freed) : Serve(g, fl, ch, Without(T))
  BY DEF RunMaintenance
<1>2. Without(T) = ticket
  <2>1. \A y \in T : flow[y].status # "Queued"
    BY StaleNotQueued
  <2> HIDE DEF T
  <2> QED
    BY <2>1, SameRows
<1>3. CASE x \in TimedOut
  <2>1. flow[x].status \in Active /\ flow[x].status # "Queued" /\ flow[x] \in FlowRecord
    BY <1>3, NowTyped DEF TimedOut, Active
  <2>2. fl[x] = Moved(flow[x], "Expired", None)
    BY <1>3 DEF Moved
  <2>3. Leaves(x, fl[x])
    BY <2>1, <2>2 DEF Leaves, Terminal, Moved, FlowRecord
  <2> HIDE DEF fl, ch, freed, steps, T
  <2> QED
    BY <1>1, <2>1, <2>3, ServedFate
<1>4. CASE x \notin TimedOut
  <2>1. fl[x] = flow[x]
    BY <1>4
  <2> HIDE DEF fl, ch, freed, steps, T
  <2>2. Stays(x, fl[x], Without(T)[x])
    BY <1>2, <2>1 DEF Stays
  <2> QED
    BY <1>1, <1>2, <2>1, <2>2, ServedFate
<1> QED
  BY <1>3, <1>4

LEMMA CommandsFates == ASSUME Now, CompleteDueCommands, NEW x \in Flows PROVE Fate(x)
<1> DEFINE ch == [c \in Chargers |-> IF c \in ComingUp THEN "Idle" ELSE charger[c]]
           pools == {PoolOf[c] : c \in ComingUp}
           T == UNION {StaleHeads(p) : p \in pools}
<1>1. PICK g \in Grants(AllSteps(pools), IdleChargers \cup ComingUp) :
        Serve(g, flow, ch, Without(T))
  BY DEF CompleteDueCommands
<1>2. \A y \in T : flow[y].status # "Queued"
  BY StaleNotQueued
<1> HIDE DEF ch, T, pools
<1> QED
  BY <1>1, <1>2, RefitFates

LEMMA StatusFates ==
    ASSUME Now, NEW c \in Chargers, NEW target, SetChargerStatus(c, target), NEW x \in Flows
    PROVE  Fate(x)
<1> DEFINE pools == IF target = "Idle" THEN {PoolOf[c]} ELSE {}
           T == UNION {StaleHeads(p) : p \in pools}
<1>1. PICK g \in Grants(AllSteps(pools), IdleAfter(c, target)) :
        Serve(g, flow, ChargerBecomes(c, target), Without(T))
  BY DEF SetChargerStatus
<1>2. \A y \in T : flow[y].status # "Queued"
  BY StaleNotQueued
<1> HIDE DEF T, pools
<1> QED
  BY <1>1, <1>2, RefitFates

LEMMA CreateChargersFates ==
    ASSUME Now, NEW s, NEW batch, CreateChargers(s, batch), NEW x \in Flows
    PROVE  Fate(x)
<1> DEFINE ch == [c \in Chargers |-> IF c \in batch THEN "Idle" ELSE charger[c]]
           T == UNION {StaleHeads(p) : p \in {s} \X Types}
<1>1. PICK g \in Grants(AllSteps({s} \X Types), IdleChargers \cup batch) :
        Serve(g, flow, ch, Without(T))
  BY DEF CreateChargers
<1>2. \A y \in T : flow[y].status # "Queued"
  BY StaleNotQueued
<1> HIDE DEF ch, T
<1> QED
  BY <1>1, <1>2, RefitFates

LEMMA EnableFates ==
    ASSUME Now, NEW s, EnableStation(s), NEW x \in Flows PROVE Fate(x)
<1> DEFINE T == UNION {StaleHeads(p) : p \in {s} \X Types}
<1>1. PICK g \in Grants(AllSteps({s} \X Types), IdleChargers) :
        Serve(g, flow, charger, Without(T))
  BY DEF EnableStation
<1>2. \A y \in T : flow[y].status # "Queued"
  BY StaleNotQueued
<1> HIDE DEF T
<1> QED
  BY <1>1, <1>2, RefitFates

\* When an idle charger is left over, the loop of promotion steps served all
\* who waited for the pool.
LEMMA LineIsEmpty ==
    ASSUME NEW p \in Pools, NEW g \in Grants(AllSteps({p}), IdleChargers), tariff[p[1]],
           NEW c \in IdleChargers, PoolOf[c] = p, c \notin Range(g),
           NEW f \in Flows, flow[f].status # "Queued"
    PROVE  Waiting(p) \subseteq DOMAIN g
<1> DEFINE served == DOMAIN g \cap Waiting(p)
<1>1. AllSteps({p})[p] = Cardinality(Flows)
  BY DEF AllSteps
<1>2. \/ served = Waiting(p)
      \/ {d \in IdleChargers : PoolOf[d] = p} \subseteq Range(g)
      \/ Cardinality(served) = Cardinality(Flows)
  BY <1>1 DEF Grants
<1>3. Cardinality(served) # Cardinality(Flows)
  <2>1. served \subseteq Flows /\ f \notin served
    BY DEF Waiting, InQueue
  <2>2. IsFiniteSet(Flows)
    BY ChargeFlowAssumption
  <2> HIDE DEF served
  <2>3. served # Flows
    BY <2>1
  <2> QED
    BY <2>1, <2>2, <2>3, FS_Subset
<1> QED
  BY <1>2, <1>3

LEMMA CreateFates ==
    ASSUME Now, Now', NEW u \in Users, NEW p \in Pools, NEW preferred,
           CreateFlow(u, p, preferred), NEW x \in Flows
    PROVE  Fate(x)
<1> DEFINE T == StaleHeads(p)
<1>1. PICK g \in Grants(AllSteps({p}), IdleChargers) :
        LET left == {c \in IdleChargers : PoolOf[c] = p} \ Range(g)
        IN \/ Serve(g, flow, charger, Without(T))
           \/ \E f \in UnusedFlows, c \in left :
                Serve(g, [flow EXCEPT ![f] = NewFlow(u, p, "PendingQuote", c)],
                      [charger EXCEPT ![c] = "Occupied"], Without(T))
           \/ \E f \in UnusedFlows :
              /\ Serve(g, [flow EXCEPT ![f] = NewFlow(u, p, "Queued", None)],
                       charger, [Without(T) EXCEPT ![f] = lastTicket + 1])
              /\ lastTicket' = lastTicket + 1
  BY DEF CreateFlow
<1>2. \A y \in T : flow[y].status # "Queued"
  BY StaleNotQueued
<1> HIDE DEF T
<1>3. Without(T) = ticket
  BY <1>2, SameRows
<1>4. enabled[p[1]] /\ tariff[p[1]]
  BY DEF CreateFlow
<1>5. ticket \in [Flows -> Nat] /\ flow \in [Flows -> FlowRecord] /\ lastTicket \in Nat
      /\ Lined(flow, ticket, lastTicket)
  BY NowTyped
<1>6. CASE Serve(g, flow, charger, Without(T))
  BY <1>2, <1>6, RefitFates
<1>7. ASSUME NEW f \in UnusedFlows, NEW c \in IdleChargers, PoolOf[c] = p, c \notin Range(g),
             NEW fl, fl = [flow EXCEPT ![f] = NewFlow(u, p, "PendingQuote", c)],
             Serve(g, fl, [charger EXCEPT ![c] = "Occupied"], ticket)
      PROVE  Fate(x)
  <2>1. f \in Flows /\ flow[f].status = "Unused"
    BY DEF UnusedFlows
  <2>2. CASE x # f
    <3>1. fl[x] = flow[x] /\ Stays(x, fl[x], ticket[x])
      BY <1>7, <2>2 DEF Stays
    <3> QED
      BY <1>7, <3>1, ServedFate
  <2>3. CASE x = f
    <3>1. f \notin DOMAIN g
      BY <2>1, GrantFacts
    <3>2. flow'[f] = NewFlow(u, p, "PendingQuote", c)
      BY <1>5, <1>7, <2>1, <3>1 DEF Serve
    <3>3. Waiting(p) \subseteq DOMAIN g
      BY <1>4, <1>7, <2>1, LineIsEmpty
    <3>4. \A w \in Waiting(p) : ticket'[w] = 0
      BY <1>7, <3>3 DEF Serve, Waiting, InQueue
    <3>5. Comes(f)
      BY <1>4, <2>1, <3>2, <3>4 DEF Comes, NewFlow
    <3> QED
      BY <2>3, <3>5 DEF Fate
  <2> QED
    BY <2>2, <2>3
<1>8. ASSUME NEW f \in UnusedFlows, NEW fl, NEW tk,
             fl = [flow EXCEPT ![f] = NewFlow(u, p, "Queued", None)],
             tk = [ticket EXCEPT ![f] = lastTicket + 1],
             Serve(g, fl, charger, tk), lastTicket' = lastTicket + 1
      PROVE  Fate(x)
  <2>1. f \in Flows /\ flow[f].status = "Unused"
    BY DEF UnusedFlows
  <2>2. CASE x # f
    <3>1. fl[x] = flow[x] /\ tk[x] = ticket[x] /\ Stays(x, fl[x], tk[x])
      BY <1>8, <2>2 DEF Stays
    <3> QED
      BY <1>8, <3>1, ServedFate
  <2>3. CASE x = f
    <3>1. f \notin DOMAIN g
      BY <2>1, GrantFacts
    <3>2. flow'[f] = NewFlow(u, p, "Queued", None) /\ ticket'[f] = lastTicket + 1
      BY <1>5, <1>8, <2>1, <3>1 DEF Serve
    <3>3. \A y \in Flows \ {f} : ticket'[y] = 0 \/ ticket'[y] = ticket[y]
      BY <1>5, <1>8 DEF Serve
    <3>4. \A y \in Flows \ {f} : ticket'[y] < ticket'[f]
      BY <1>5, <3>2, <3>3 DEF Lined
    <3>5. Comes(f)
      BY <1>4, <2>1, <3>2, <3>4 DEF Comes, NewFlow
    <3> QED
      BY <2>3, <3>5 DEF Fate
  <2> QED
    BY <2>2, <2>3
<1> QED
  BY <1>1, <1>3, <1>6, <1>7, <1>8

LEMMA NextFates == ASSUME Now, Now', Next, NEW x \in Flows PROVE Fate(x)
<1>1. CASE UserNext
  <2>1. ASSUME NEW u \in Users, NEW a, Recharge(u, a) PROVE Fate(x)
    BY <2>1, AllStay DEF Recharge
  <2>2. ASSUME NEW u \in Users, Anonymize(u) PROVE Fate(x)
    BY <2>2, AllStay DEF Anonymize
  <2>3. ASSUME NEW f \in Flows, NEW a, Settle(f, a) PROVE Fate(x)
    BY <2>3, SettleFates DEF Settle
  <2> QED
    BY <1>1, <2>1, <2>2, <2>3, CreateFates, ConfirmFates, CancelFates, StartFates,
       SettleFailsFates DEF UserNext
<1>2. CASE ServerNext
  <2>1. ASSUME RecoverAtStartup PROVE Fate(x)
    BY <2>1, AllStay DEF RecoverAtStartup
  <2> QED
    BY <1>2, <2>1, MaintenanceFates, CommandsFates DEF ServerNext
<1>3. CASE AdminNext
  <2>1. ASSUME NEW f \in Flows, NEW next, ForceRelease(f, next) PROVE Fate(x)
    BY <2>1, ReleaseFates DEF ForceRelease
  <2>2. ASSUME NEW c \in Chargers, NEW a, CreateRestartCommand(c, a) PROVE Fate(x)
    <3>1. CASE UNCHANGED <<flow, ticket>>
      BY <3>1, AllStay
    <3>2. CASE \E f \in ActiveOn(c) : Release(f, "Restarting") \/ SettleWith(f, a, "Restarting")
      BY <3>2, ReleaseFates, SettleFates DEF ActiveOn
    <3> QED
      BY <2>2, <3>1, <3>2 DEF CreateRestartCommand
  <2>3. ASSUME NEW s, DisableStation(s) PROVE Fate(x)
    BY <2>3, AllStay DEF DisableStation
  <2>4. ASSUME NEW u, NEW status, UpdateUserStatus(u, status) PROVE Fate(x)
    BY <2>4, AllStay DEF UpdateUserStatus
  <2> QED
    BY <1>3, <2>1, <2>2, <2>3, <2>4, StatusFates, CreateChargersFates, EnableFates
    DEF AdminNext
<1>4. CASE ClockNext
  <2>1. ASSUME NEW c, CommandIsDue(c) PROVE Fate(x)
    BY <2>1, AllStay DEF CommandIsDue
  <2>2. ASSUME NEW s, TariffChanges(s) PROVE Fate(x)
    BY <2>2, AllStay DEF TariffChanges
  <2> QED
    BY <1>4, <2>1, <2>2, DeadlineFates DEF ClockNext
<1> QED
  BY <1>1, <1>2, <1>3, <1>4 DEF Next

-----------------------------------------------------------------------------
(***************************************************************************)
(* The refinement.                                                         *)
(***************************************************************************)
\* A flow has a pool from its creation on.
Pooled == \A f \in Flows : flow[f].pool = None <=> flow[f].status = "Unused"

LEMMA FatesPooled ==
    ASSUME Pooled, \A f \in Flows : Fate(f) PROVE Pooled'
<1>1. ASSUME NEW f \in Flows PROVE flow'[f].pool = None <=> flow'[f].status = "Unused"
  <2>1. CASE Stays(f, flow'[f], ticket'[f])
    BY <2>1 DEF Stays, Pooled, Holding, Active
  <2>2. CASE Leaves(f, flow'[f])
    BY <2>2 DEF Leaves, Pooled, Terminal, Active
  <2>3. CASE Comes(f)
    BY <2>3, ChargeFlowAssumption DEF Comes
  <2>4. CASE IsServed(f)
    BY <2>4 DEF IsServed, Pooled
  <2> QED
    BY <2>1, <2>2, <2>3, <2>4 DEF Fate
<1> QED
  BY <1>1 DEF Pooled

\* What the flow r holds, as the lease service sees it.
Holds(r) == IF r.status \in Holding THEN r.charger ELSE None

\* In every state a flow waits in the line, holds a charger of its pool and
\* of nobody else, or does neither.
LEMMA Seen ==
    ASSUME NEW fl, NEW ch, NEW tk, NEW lt, NEW m, Good(fl, ch, tk, lt, m), NEW f \in Flows
    PROVE  /\ fl[f].status \in FlowStatus
           /\ tk[f] \in Nat
           /\ tk[f] > 0 <=> fl[f].status = "Queued"
           /\ Holds(fl[f]) # None <=> fl[f].status \in Holding
           /\ fl[f].status \in Holding => PoolOf[Holds(fl[f])] = fl[f].pool
           /\ \A g \in Flows : Holds(fl[f]) # None /\ Holds(fl[f]) = Holds(fl[g]) => f = g
<1>1. fl[f] \in FlowRecord /\ tk[f] \in Nat /\ Held(fl, ch) /\ Lined(fl, tk, lt)
  BY DEF Good, Typed
<1>2. fl[f].status \in Holding => fl[f].charger \in Chargers /\ fl[f].charger # None
  BY <1>1, ChargeFlowAssumption DEF Held
<1>3. fl[f].status \in FlowStatus
  BY <1>1 DEF FlowRecord, FlowStatus
<1>4. \A g \in Flows : Holds(fl[f]) # None /\ Holds(fl[f]) = Holds(fl[g]) => f = g
  BY <1>1, <1>2 DEF Holds, Held
<1> QED
  BY <1>1, <1>2, <1>3, <1>4 DEF Holds, Held, Lined

LEMMA SeenNow ==
    ASSUME Now, NEW f \in Flows
    PROVE  /\ flow[f].status \in FlowStatus
           /\ ticket[f] \in Nat
           /\ ticket[f] > 0 <=> flow[f].status = "Queued"
           /\ Holds(flow[f]) # None <=> flow[f].status \in Holding
BY Seen DEF Now

LEMMA SeenNext ==
    ASSUME Now', NEW f \in Flows
    PROVE  /\ flow'[f].status \in FlowStatus
           /\ ticket'[f] \in Nat
           /\ ticket'[f] > 0 <=> flow'[f].status = "Queued"
           /\ Holds(flow'[f]) # None <=> flow'[f].status \in Holding
           /\ flow'[f].status \in Holding => PoolOf[Holds(flow'[f])] = flow'[f].pool
           /\ \A g \in Flows : Holds(flow'[f]) # None /\ Holds(flow'[f]) = Holds(flow'[g])
                                 => f = g
BY Seen DEF Now

\* What the fate of a flow means to the service.
Gains(f) == Holds(flow[f]) = None /\ Holds(flow'[f]) # None

LEMMA FateSeen ==
    ASSUME Now, Now', Pooled, NEW f \in Flows, Fate(f)
    PROVE  /\ flow'[f].pool = flow[f].pool \/ Comes(f)
           /\ flow[f].status \in Terminal => flow'[f].status \in Terminal
           /\ Holds(flow[f]) \notin {None, Holds(flow'[f])} => flow'[f].status \in Terminal
           /\ Gains(f) => IsServed(f) \/ Comes(f)
           /\ ticket[f] > 0 /\ ticket'[f] > 0 => ticket'[f] = ticket[f]
           /\ ticket[f] = 0 /\ ticket'[f] > 0 => Comes(f)
<1> USE DEF Holding, Active, Terminal
<1>1. CASE Stays(f, flow'[f], ticket'[f])
  BY <1>1, SeenNow, SeenNext DEF Stays, Holds, Gains
<1>2. CASE Leaves(f, flow'[f])
  BY <1>2, SeenNow, SeenNext DEF Leaves, Gains
<1>3. CASE Comes(f)
  BY <1>3, SeenNow, SeenNext DEF Comes, Gains
<1>4. CASE IsServed(f)
  BY <1>4, SeenNow, SeenNext DEF IsServed, Gains
<1> QED
  BY <1>1, <1>2, <1>3, <1>4 DEF Fate

\* The service's variables, flow by flow.
HoldsNow == [f \in Flows |-> IF flow[f].status \in Holding THEN flow[f].charger ELSE None]
WantsNow == [f \in Flows |-> flow[f].pool]
LeftNow  == {f \in Flows : flow[f].status \in Terminal}

LEMMA LeaseViews ==
    /\ \A f \in Flows : /\ HoldsNow[f] = Holds(flow[f]) /\ HoldsNow'[f] = Holds(flow'[f])
                        /\ WantsNow[f] = flow[f].pool /\ WantsNow'[f] = flow'[f].pool
    /\ \A f \in Flows : f \in LeftNow <=> flow[f].status \in Terminal
    /\ \A f \in Flows : f \in LeftNow' <=> flow'[f].status \in Terminal
    /\ LeftNow \subseteq Flows /\ LeftNow' \subseteq Flows
BY DEF HoldsNow, WantsNow, LeftNow, Holds

LEMMA ComesAndGoes ==
    ASSUME Now, Now', Pooled, Pooled', \A f \in Flows : Fate(f)
    PROVE  Lease!ComeAndGo
<1>1. \A f \in Flows : flow[f].status \in Terminal => flow'[f].status \in Terminal
  BY FateSeen
<1>2. LeftNow \subseteq LeftNow'
  BY <1>1, LeaseViews
<1>3. ASSUME NEW f \in Flows
      PROVE  /\ flow'[f].pool = flow[f].pool \/ (flow[f].pool = None /\ flow'[f].pool # None)
             /\ flow'[f].status \in Terminal =>
                  flow[f].pool # None /\ ticket'[f] = 0 /\ Holds(flow'[f]) = None
             /\ flow'[f].pool # None /\ flow'[f].status \notin Terminal =>
                  ticket'[f] > 0 \/ Holds(flow'[f]) # None
  <2>1. flow'[f].pool = None <=> flow'[f].status = "Unused"
    BY DEF Pooled
  <2>2. Comes(f) => flow[f].pool = None /\ flow'[f].pool # None
    BY <2>1 DEF Comes, Pooled
  <2>3. flow'[f].status \in Terminal =>
          /\ flow'[f].status # "Unused" /\ flow'[f].status # "Queued"
          /\ flow'[f].status \notin Holding /\ ~Comes(f)
    BY DEF Terminal, Holding, Active, Comes
  <2>4. flow'[f].status \in FlowStatus /\ flow'[f].status # "Unused"
        /\ flow'[f].status \notin Terminal =>
          flow'[f].status = "Queued" \/ flow'[f].status \in Holding
    BY DEF FlowStatus, Holding
  <2> QED
    BY <2>1, <2>2, <2>3, <2>4, FateSeen, SeenNext
<1> QED
  BY <1>2, <1>3, LeaseViews
  DEF Lease!ComeAndGo, Lease!Came, Lease!InLine, HoldsNow, WantsNow, LeftNow

LEMMA HoldsAlone ==
    ASSUME Now, Now', Pooled, \A f \in Flows : Fate(f)
    PROVE  Lease!Hold
<1>1. ASSUME NEW f \in Flows
      PROVE  /\ Holds(flow[f]) \notin {None, Holds(flow'[f])} =>
                  Holds(flow'[f]) = None /\ flow'[f].status \in Terminal
             /\ Gains(f) => /\ ticket[f] > 0 \/ (flow[f].pool = None /\ flow'[f].pool # None)
                            /\ ticket'[f] = 0
                            /\ PoolOf[Holds(flow'[f])] = flow'[f].pool
                            /\ \A g \in Flows \ {f} : Holds(flow'[g]) # Holds(flow'[f])
  <2>1. flow'[f].status \in Terminal => flow'[f].status \notin Holding
    BY DEF Terminal, Holding, Active
  <2>2. flow'[f].status \in Holding => flow'[f].status # "Queued"
    BY DEF Holding, Active
  <2>3. Comes(f) => flow[f].pool = None /\ flow'[f].pool # None
    BY ChargeFlowAssumption DEF Comes, Pooled
  <2>4. IsServed(f) => ticket[f] > 0
    BY SeenNow DEF IsServed
  <2> QED
    BY <2>1, <2>2, <2>3, <2>4, FateSeen, SeenNext DEF Gains
<1> QED
  BY <1>1, LeaseViews
  DEF Lease!Hold, Lease!Served, Lease!Came, Lease!InLine, Gains, HoldsNow, WantsNow, LeftNow

LEMMA LineKept ==
    ASSUME Now, Now', Pooled, \A f \in Flows : Fate(f)
    PROVE  Lease!Line
<1>1. ASSUME NEW f \in Flows
      PROVE  /\ ticket[f] > 0 /\ ticket'[f] > 0 => ticket'[f] = ticket[f]
             /\ ~(ticket[f] > 0) /\ ticket'[f] > 0 =>
                  /\ flow[f].pool = None /\ flow'[f].pool # None
                  /\ \A g \in Flows \ {f} : ticket'[g] < ticket'[f]
             /\ Gains(f) =>
                  \A g \in Flows :
                    ticket[g] > 0 /\ ticket'[g] > 0 /\ flow[g].pool = flow'[f].pool =>
                      ticket[f] > 0 /\ ticket[f] < ticket[g]
  <2>1. Comes(f) => flow[f].pool = None /\ flow'[f].pool # None
    BY ChargeFlowAssumption DEF Comes, Pooled
  <2>2. ~(ticket[f] > 0) /\ ticket'[f] > 0 =>
          Comes(f) /\ \A g \in Flows \ {f} : ticket'[g] < ticket'[f]
    BY FateSeen, SeenNow, SeenNext DEF Comes
  <2>3. ASSUME Gains(f), NEW g \in Flows, ticket[g] > 0, ticket'[g] > 0,
               flow[g].pool = flow'[f].pool
        PROVE  ticket[f] > 0 /\ ticket[f] < ticket[g]
    <3>1. g \in Waiting(flow'[f].pool)
      BY <2>3, SeenNow DEF Waiting, InQueue
    <3>2. flow'[f].status # "Queued"
      BY <2>3, SeenNext DEF Gains, Holding
    <3>3. ~Comes(f)
      BY <2>3, <3>1, <3>2 DEF Comes
    <3>4. IsServed(f)
      BY <2>3, <3>3, FateSeen
    <3> QED
      BY <2>3, <3>1, <3>4, SeenNow DEF IsServed
  <2> QED
    BY <2>1, <2>2, <2>3, FateSeen
<1> QED
  BY <1>1, LeaseViews
  DEF Lease!Line, Lease!Served, Lease!Came, Lease!InLine, Gains, HoldsNow, WantsNow

\* No pool, no place and no charger before the first request.
LEMMA LeaseStarts == ASSUME Init PROVE Lease!LeaseInit /\ Pooled
<1>1. \A f \in Flows : flow[f] = UnusedFlow
  BY DEF Init
<1>2. UnusedFlow.status = "Unused" /\ UnusedFlow.pool = None
  BY DEF UnusedFlow
<1>3. WantsNow = [f \in Flows |-> None] /\ HoldsNow = [f \in Flows |-> None] /\ LeftNow = {}
  BY <1>1, <1>2 DEF WantsNow, HoldsNow, LeftNow, Holding, Active, Terminal
<1> QED
  BY <1>1, <1>2, <1>3 DEF Init, Pooled, Lease!LeaseInit, WantsNow, HoldsNow, LeftNow

LEMMA LeaseSteps ==
    ASSUME Now, Now', Pooled, [Next]_vars
    PROVE  Pooled' /\ [Lease!LeaseNext]_(Lease!leaseVars)
<1>1. CASE Next
  <2>1. \A f \in Flows : Fate(f)
    BY <1>1, NextFates
  <2> QED
    BY <2>1, FatesPooled, ComesAndGoes, HoldsAlone, LineKept DEF Lease!LeaseNext
<1>2. CASE UNCHANGED vars
  BY <1>2 DEF vars, Pooled, Lease!leaseVars
<1> QED
  BY <1>1, <1>2

\* Every behaviour of ChargeFlow is one of the lease service: a flow holds one
\* charger in its life and until its end, no charger is shared, a flow that
\* has ended never comes back, and those who wait in a pool are served in the
\* order they came, a newcomer only when nobody waits.
THEOREM LeaseImplemented == Spec => ImplementsLease
<1>1. Init => Lease!LeaseInit /\ Pooled
  BY LeaseStarts
<1>2. IInv /\ IInv' /\ Pooled /\ [Next]_vars => Pooled' /\ [Lease!LeaseNext]_(Lease!leaseVars)
  BY LeaseSteps DEF IInv
<1> QED
  BY <1>1, <1>2, Invariant, PTL DEF Spec, ImplementsLease, Lease!LeaseSpec

-----------------------------------------------------------------------------
(***************************************************************************)
(* Disabled stations.                                                      *)
(***************************************************************************)
\* No operation but DisableStation disables, and it finds the station quiet.
LEMMA EnabledStays ==
    ASSUME Next
    PROVE  \/ UNCHANGED enabled
           \/ \E s \in Stations : enabled' = [enabled EXCEPT ![s] = TRUE]
           \/ \E s \in Stations : DisableStation(s)
<1>1. CASE UserNext
  <2>1. UNCHANGED enabled
    BY <1>1 DEF UserNext, CreateFlow, Recharge, Anonymize, ConfirmQuote, Cancel, Start,
                SettleFails, Settle, SettleWith
  <2> QED
    BY <2>1
<1>2. CASE ServerNext
  BY <1>2 DEF ServerNext, RunMaintenance, RecoverAtStartup, CompleteDueCommands
<1>3. CASE AdminNext
  BY ZenonT(60), <1>3 DEF AdminNext, ForceRelease, Release, CreateRestartCommand, SettleWith,
              SetChargerStatus, EnableStation, CreateChargers, UpdateUserStatus
<1>4. CASE ClockNext
  BY <1>4 DEF ClockNext, DeadlinePasses, CommandIsDue, TariffChanges
<1> QED
  BY <1>1, <1>2, <1>3, <1>4 DEF Next

LEMMA QuietStation ==
    ASSUME IInv, Now', Pooled, Pooled', DisabledStationIsQuiet, [Next]_vars
    PROVE  DisabledStationIsQuiet'
<1> SUFFICES ASSUME NEW f \in Flows, flow'[f].status \in Active
             PROVE  enabled'[flow'[f].pool[1]]
  BY DEF DisabledStationIsQuiet
<1> DEFINE station == flow'[f].pool[1]
<1>1. CASE Next
  <2>1. Fate(f)
    BY <1>1, NextFates DEF IInv
  <2>2. ~Comes(f) => flow[f].status \in Active /\ flow'[f].pool = flow[f].pool
    BY <2>1 DEF Fate, Stays, Leaves, IsServed, Holding, Active, Terminal
  <2>3. enabled[station]
    BY <2>2 DEF Comes, DisabledStationIsQuiet
  <2>4. enabled \in [Stations -> BOOLEAN]
    BY DEF IInv, Rest
  <2>5. ASSUME NEW s \in Stations, DisableStation(s) PROVE enabled'[station]
    <3>1. flow'[f].status = flow[f].status /\ station # s
      BY <2>5 DEF DisableStation, StationHasActiveFlow, IsActive
    <3> HIDE DEF station
    <3> QED
      BY <2>3, <2>4, <2>5, <3>1 DEF DisableStation
  <2>6. station \in Stations
    <3>1. flow'[f] \in FlowRecord
      BY DEF Now, Good, Typed
    <3>2. flow'[f].pool # None
      BY DEF Pooled, Active
    <3> QED
      BY <3>1, <3>2 DEF FlowRecord, Pools
  <2> HIDE DEF station
  <2>7. ASSUME NEW s \in Stations, enabled' = [enabled EXCEPT ![s] = TRUE]
        PROVE  enabled'[station]
    BY <2>3, <2>4, <2>6, <2>7, Zenon
  <2> QED
    BY <1>1, <2>3, <2>5, <2>7, EnabledStays DEF station
<1>2. CASE UNCHANGED vars
  BY <1>2 DEF vars, DisabledStationIsQuiet
<1> QED
  BY <1>1, <1>2

\* BR-10: a station is disabled only when nobody charges, is quoted or waits
\* there, and nobody is let in afterwards; so whoever has an active flow has
\* it at a station that is open.
THEOREM DisabledIsQuiet == Spec => []DisabledStationIsQuiet
<1>1. Init => Pooled /\ DisabledStationIsQuiet
  <2>1. Init => DisabledStationIsQuiet
    BY DEF Init, UnusedFlow, DisabledStationIsQuiet, Active
  <2> QED
    BY <2>1, LeaseStarts
<1>2. IInv /\ IInv' /\ Pooled /\ DisabledStationIsQuiet /\ [Next]_vars =>
        Pooled' /\ DisabledStationIsQuiet'
  BY LeaseSteps, QuietStation DEF IInv
<1> QED
  BY <1>1, <1>2, Invariant, PTL DEF Spec

-----------------------------------------------------------------------------
(***************************************************************************)
(* Idle chargers.  Of every pool at most one charger becomes free for each *)
(* promotion step that is taken, unless the steps are the loop that serves *)
(* all who can be served.                                                  *)
(***************************************************************************)
Priced == \A p \in Pools : tariff[p[1]]

\* The chargers of S in the pool p.
InPool(S, p) == {c \in S : PoolOf[c] = p}

\* As many steps as chargers, or as many as flows.
Enough(steps, free, p) ==
    \/ steps[p] = Cardinality(Flows)
    \/ steps[p] \in Nat /\ Cardinality(InPool(free, p)) <= steps[p]

LEMMA PoolFinite ==
    ASSUME NEW S \in SUBSET Chargers, NEW p
    PROVE  /\ IsFiniteSet(InPool(S, p)) /\ Cardinality(InPool(S, p)) \in Nat
<1>1. InPool(S, p) \subseteq Chargers /\ IsFiniteSet(Chargers)
  BY ChargeFlowAssumption DEF InPool
<1> QED
  BY <1>1, FS_Subset, FS_CardinalityType

\* One step is enough for one charger, and none when nothing is free.
LEMMA FewFreed ==
    ASSUME NEW p, NEW free, NEW c, InPool(free, p) \subseteq {c}, NEW steps, steps[p] = 1
    PROVE  Enough(steps, free, p)
<1>1. IsFiniteSet({c}) /\ Cardinality({c}) = 1 /\ Cardinality({}) = 0
  BY FS_Singleton, FS_EmptySet
<1>2. InPool(free, p) = {c} \/ InPool(free, p) = {}
  OBVIOUS
<1> QED
  BY <1>1, <1>2 DEF Enough

LEMMA NoneFreed ==
    ASSUME NEW p, NEW free, InPool(free, p) = {}, NEW steps, steps[p] = 0
    PROVE  Enough(steps, free, p)
BY FS_EmptySet DEF Enough

\* A grant with enough steps leaves no charger of the pool idle while a flow
\* that waited before goes on waiting.
LEMMA GrantExhausts ==
    ASSUME NEW p \in Pools, tariff[p[1]], NEW steps, NEW free \in SUBSET Chargers,
           NEW g \in Grants(steps, free), Enough(steps, free, p),
           NEW w \in Waiting(p), w \notin DOMAIN g
    PROVE  InPool(free, p) \subseteq Range(g)
<1> DEFINE served == DOMAIN g \cap Waiting(p)
           h == [f \in served |-> g[f]]
<1>1. \/ served = Waiting(p)
      \/ InPool(free, p) \subseteq Range(g)
      \/ Cardinality(served) = steps[p]
  BY DEF Grants, InPool
<1>2. SUFFICES ASSUME NEW c \in InPool(free, p), c \notin Range(g) PROVE FALSE
  OBVIOUS
<1>3. Cardinality(served) = steps[p]
  BY <1>1, <1>2
<1>4. served \subseteq Flows \ {w} /\ w \in Flows
  BY DEF Waiting, InQueue
<1>5. IsFiniteSet(Flows) /\ IsFiniteSet(Flows \ {w}) /\ Cardinality(Flows) \in Nat
      /\ Cardinality(Flows \ {w}) = Cardinality(Flows) - 1
  BY <1>4, ChargeFlowAssumption, FS_RemoveElement, FS_CardinalityType
<1>6. IsFiniteSet(served) /\ Cardinality(served) <= Cardinality(Flows) - 1
  <2> HIDE DEF served
  <2> QED
    BY <1>4, <1>5, FS_Subset
<1>7. Cardinality(served) \in Nat
  <2> HIDE DEF served
  <2> QED
    BY <1>6, FS_CardinalityType
<1>8. steps[p] \in Nat /\ Cardinality(InPool(free, p)) <= steps[p]
  BY <1>3, <1>5, <1>6, <1>7 DEF Enough
<1>9. h \in Injection(served, InPool(free, p) \ {c})
  <2>1. \A f \in served : g[f] \in free /\ PoolOf[g[f]] = p /\ g[f] # c
    BY <1>2, GrantFacts DEF Waiting, InQueue, Range
  <2>2. h \in [served -> InPool(free, p) \ {c}]
    BY <2>1 DEF InPool
  <2>3. \A f, x \in served : h[f] = h[x] => f = x
    BY GrantFacts
  <2> HIDE DEF h, served
  <2> QED
    BY <2>2, <2>3 DEF Injection, IsInjective
<1>10. /\ IsFiniteSet(InPool(free, p) \ {c})
       /\ Cardinality(InPool(free, p) \ {c}) = Cardinality(InPool(free, p)) - 1
       /\ Cardinality(InPool(free, p)) \in Nat
  BY <1>2, PoolFinite, FS_RemoveElement
<1>11. Cardinality(served) <= Cardinality(InPool(free, p) \ {c})
  <2> HIDE DEF h, served
  <2> QED
    BY <1>9, <1>10, FS_Injection
<1> QED
  BY <1>3, <1>7, <1>8, <1>10, <1>11

\* What is asked of the first half of a transaction for the pool p: nobody
\* new waits, no charger is idle that is not offered, and if somebody waits
\* the steps are enough.
LEMMA ServedPool ==
    ASSUME Now, Priced, NEW p \in Pools,
           NEW fl, NEW ch, NEW tk, NEW steps, NEW free \in SUBSET Chargers,
           NEW g \in Grants(steps, free), Serve(g, fl, ch, tk),
           \A x \in Flows : fl[x].status = "Queued" => fl[x] = flow[x],
           \A c \in Chargers : ch[c] = "Idle" => c \in free,
           Waiting(p) # {} => Enough(steps, free, p)
    PROVE  Waiting(p)' # {} => InPool(IdleChargers', p) = {}
<1> SUFFICES ASSUME NEW w \in Waiting(p)' PROVE InPool(IdleChargers', p) = {}
  OBVIOUS
<1>1. w \in Flows /\ ticket'[w] > 0 /\ flow'[w].pool = p /\ flow'[w].status = "Queued"
  BY DEF Waiting, InQueue
<1>2. w \notin DOMAIN g
  <2>1. ticket'[w] = IF w \in DOMAIN g THEN 0 ELSE tk[w]
    BY <1>1 DEF Serve
  <2> QED
    BY <1>1, <2>1
<1>3. flow'[w] = flow[w]
  BY <1>1, <1>2 DEF Serve
<1>4. ticket[w] > 0
  BY <1>1, <1>3, NowTyped DEF Lined
<1>5. w \in Waiting(p)
  BY <1>1, <1>3, <1>4 DEF Waiting, InQueue
<1>6. InPool(free, p) \subseteq Range(g)
  BY <1>2, <1>5, GrantExhausts DEF Priced
<1>7. ASSUME NEW c \in Chargers, charger'[c] = "Idle" PROVE c \in free /\ c \notin Range(g)
  BY <1>7 DEF Serve
<1> QED
  BY <1>6, <1>7 DEF InPool, IdleChargers

-----------------------------------------------------------------------------
\* What NoIdleWhileWaiting says of one pool.
Busy(p) == Waiting(p) # {} => InPool(IdleChargers, p) = {}

\* A transaction in which nobody comes to wait and no charger becomes idle.
LEMMA NothingFreed ==
    ASSUME Now, NEW p \in Pools, Busy(p),
           \A x \in Flows : flow'[x].status = "Queued" => flow'[x] = flow[x],
           \A c \in Chargers : charger'[c] = "Idle" => charger[c] = "Idle"
    PROVE  Busy(p)'
<1>1. \A x \in Flows : flow[x].status = "Queued" => ticket[x] > 0
  BY NowTyped DEF Lined
<1>2. Waiting(p)' \subseteq Waiting(p)
  BY <1>1 DEF Waiting, InQueue
<1>3. InPool(IdleChargers, p)' \subseteq InPool(IdleChargers, p)
  BY DEF InPool, IdleChargers
<1> QED
  BY <1>2, <1>3 DEF Busy

\* One charger of the pool changes, with one step for its pool.
LEMMA OneFreed ==
    ASSUME Now, Priced, NEW p \in Pools, Busy(p), NEW f \in Flows, flow[f].status \in Holding,
           flow[f].pool \in Pools, NEW c, c = flow[f].charger, NEW next,
           NEW fl, NEW tk, NEW g \in Grants(OneStep(flow[f].pool), IdleAfter(c, next)),
           Serve(g, fl, ChargerBecomes(c, next), tk),
           \A x \in Flows : fl[x].status = "Queued" => fl[x] = flow[x]
    PROVE  Busy(p)'
<1> DEFINE free == IdleAfter(c, next)
           steps == OneStep(flow[f].pool)
           ch == ChargerBecomes(c, next)
<1>1. c \in Chargers /\ PoolOf[c] = flow[f].pool
  BY NowTyped DEF Held
<1>2. free \in SUBSET Chargers
  BY <1>1 DEF IdleAfter, IdleChargers
<1>3. \A d \in Chargers : ch[d] = "Idle" => d \in free
  BY <1>1, NowTyped DEF ChargerBecomes, IdleAfter, IdleChargers
<1>4. ASSUME Waiting(p) # {} PROVE Enough(steps, free, p)
  <2>1. InPool(IdleChargers, p) = {}
    BY <1>4 DEF Busy
  <2>2. CASE p = flow[f].pool
    <3>1. InPool(free, p) \subseteq {c}
      BY <2>1 DEF InPool, IdleAfter
    <3>2. steps[p] = 1
      BY <2>2 DEF OneStep, NoStep
    <3> QED
      BY <3>1, <3>2, FewFreed
  <2>3. CASE p # flow[f].pool
    <3>1. InPool(free, p) = {}
      BY <1>1, <2>1, <2>3 DEF InPool, IdleAfter
    <3>2. steps[p] = 0
      BY <2>3 DEF OneStep, NoStep
    <3> QED
      BY <3>1, <3>2, NoneFreed
  <2> QED
    BY <2>2, <2>3
<1> HIDE DEF free, steps, ch
<1>5. Waiting(p)' # {} => InPool(IdleChargers', p) = {}
  BY <1>2, <1>3, <1>4, ServedPool DEF free, steps, ch
<1> QED
  BY <1>5 DEF Busy, InPool

\* Chargers of the pools P become idle, and all of P is served.
LEMMA ManyFreed ==
    ASSUME Now, Priced, NEW p \in Pools, Busy(p), NEW P, NEW free \in SUBSET Chargers,
           \A c \in free \ IdleChargers : PoolOf[c] \in P,
           NEW ch, \A c \in Chargers : ch[c] = "Idle" => c \in free,
           NEW tk, NEW g \in Grants(AllSteps(P), free), Serve(g, flow, ch, tk)
    PROVE  Busy(p)'
<1>1. ASSUME Waiting(p) # {} PROVE Enough(AllSteps(P), free, p)
  <2>1. InPool(IdleChargers, p) = {}
    BY <1>1 DEF Busy
  <2>2. CASE p \in P
    BY <2>2 DEF Enough, AllSteps
  <2>3. CASE p \notin P
    <3>1. InPool(free, p) = {}
      BY <2>1, <2>3 DEF InPool
    <3>2. AllSteps(P)[p] = 0
      BY <2>3 DEF AllSteps
    <3> QED
      BY <3>1, <3>2, NoneFreed
  <2> QED
    BY <2>2, <2>3
<1>2. Waiting(p)' # {} => InPool(IdleChargers', p) = {}
  BY <1>1, ServedPool
<1> QED
  BY <1>2 DEF Busy, InPool

\* A flow that has a place has a pool: the steps of its pool are taken.
LEMMA HolderPool ==
    ASSUME Now, NEW f \in Flows, flow[f].status \in Holding
    PROVE  flow[f].pool \in Pools /\ flow[f].charger \in Chargers
           /\ PoolOf[flow[f].charger] = flow[f].pool
BY NowTyped, ChargeFlowAssumption DEF Held

LEMMA ReleaseBusy ==
    ASSUME Now, Priced, NEW p \in Pools, Busy(p), NEW f \in Flows, NEW next, Release(f, next)
    PROVE  Busy(p)'
<1>1. flow[f].status \in Holding /\ flow[f].status # "Queued"
  BY DEF Release, Holding, Active
<1> DEFINE T == {f} \cup StaleHeads(flow[f].pool)
<1>2. PICK g \in Grants(OneStep(flow[f].pool), IdleAfter(flow[f].charger, next)) :
        Serve(g, Ended(f, "Cancelled"), ChargerBecomes(flow[f].charger, next), Without(T))
  BY DEF Release
<1>3. \A x \in Flows : Ended(f, "Cancelled")[x].status = "Queued" =>
                         Ended(f, "Cancelled")[x] = flow[x]
  BY NowTyped, EndedFlow DEF Terminal
<1> HIDE DEF T
<1> QED
  BY <1>1, <1>2, <1>3, HolderPool, OneFreed

LEMMA CancelBusy ==
    ASSUME Now, Priced, NEW p \in Pools, Busy(p), NEW f \in Flows, Cancel(f) PROVE Busy(p)'
<1>1. CASE flow[f].charger # None
  <2>1. /\ flow[f].status \in {"PendingQuote", "Reserved"}
        /\ UNCHANGED <<account, wallet, recharged, enabled, tariff, lastTicket>>
    BY <1>1, NowTyped DEF Cancel, Held
  <2>2. Release(f, "Idle")
    BY <1>1, <2>1 DEF Cancel, Release
  <2> QED
    BY <2>2, ReleaseBusy
<1>2. CASE flow[f].charger = None
  <2>1. flow' = Ended(f, "Cancelled") /\ UNCHANGED charger
    BY <1>2 DEF Cancel
  <2>2. \A x \in Flows : flow'[x].status = "Queued" => flow'[x] = flow[x]
    BY <2>1, NowTyped, EndedFlow DEF Terminal
  <2> QED
    BY <2>1, <2>2, NothingFreed
<1> QED
  BY <1>1, <1>2

LEMMA SettleBusy ==
    ASSUME Now, Priced, NEW p \in Pools, Busy(p), NEW f \in Flows, NEW a, NEW next,
           SettleWith(f, a, next)
    PROVE  Busy(p)'
<1> DEFINE done == [flow EXCEPT ![f].status = "Completed", ![f].version = @ + 1]
           T == StaleHeads(flow[f].pool)
<1>1. flow[f].status \in Holding
  BY DEF SettleWith, Settleable, Holding, Active
<1>2. PICK g \in Grants(OneStep(flow[f].pool), IdleAfter(flow[f].charger, next)) :
        Serve(g, done, ChargerBecomes(flow[f].charger, next), Without(T))
  BY DEF SettleWith
<1>3. \A x \in Flows : done[x].status = "Queued" => done[x] = flow[x]
  <2>1. done = [flow EXCEPT ![f] = Turned(flow[f], "Completed", flow[f].version + 1)]
    BY DEF Turned
  <2>2. /\ flow \in [Flows -> FlowRecord] /\ flow[f] \in FlowRecord
        /\ "Completed" \in FlowStatus /\ flow[f].version + 1 \in Nat
    BY NowTyped, Versions DEF FlowStatus, Terminal
  <2> HIDE DEF done
  <2> QED
    BY <2>1, <2>2, TurnedFlow
<1> HIDE DEF done, T
<1> QED
  BY <1>1, <1>2, <1>3, HolderPool, OneFreed

\* Of every pool at most one charger becomes free for each flow that expires.
LEMMA MaintenanceBusy ==
    ASSUME Now, Priced, NEW p \in Pools, Busy(p), RunMaintenance PROVE Busy(p)'
<1> DEFINE freed == {flow[f].charger : f \in TimedOut} \ {None}
           fl == [f \in Flows |-> IF f \in TimedOut
                    THEN [flow[f] EXCEPT !.status = "Expired", !.version = @ + 1,
                                         !.charger = None, !.overdue = FALSE]
                    ELSE flow[f]]
           ch == [c \in Chargers |-> IF c \in freed THEN "Idle" ELSE charger[c]]
           steps == [q \in Pools |-> Cardinality({f \in TimedOut : flow[f].pool = q})]
           T == UNION {StaleHeads(flow[f].pool) : f \in TimedOut}
           free == IdleChargers \cup freed
           ended == {f \in TimedOut : flow[f].pool = p}
           place == [f \in ended |-> flow[f].charger]
<1>1. PICK g \in Grants(steps, free) : Serve(g, fl, ch, Without(T))
  BY DEF RunMaintenance
<1>2. \A f \in TimedOut : f \in Flows /\ flow[f].status \in Holding
  BY DEF TimedOut, Holding, Active
<1>3. freed \subseteq Chargers /\ free \in SUBSET Chargers
  BY <1>2, HolderPool DEF IdleChargers
<1>4. \A c \in Chargers : ch[c] = "Idle" => c \in free
  BY DEF IdleChargers
<1>5. \A x \in Flows : fl[x].status = "Queued" => fl[x] = flow[x]
  <2>1. ASSUME NEW x \in TimedOut PROVE fl[x].status = "Expired"
    <3>1. flow[x] \in FlowRecord /\ x \in Flows
      BY <1>2, NowTyped
    <3>2. fl[x] = [flow[x] EXCEPT !.status = "Expired", !.version = @ + 1,
                                  !.charger = None, !.overdue = FALSE]
      BY <3>1
    <3> QED
      BY <3>1, <3>2 DEF FlowRecord
  <2>2. \A x \in Flows \ TimedOut : fl[x] = flow[x]
    OBVIOUS
  <2> HIDE DEF fl
  <2> QED
    BY <2>1, <2>2
<1>6. ASSUME Waiting(p) # {} PROVE Enough(steps, free, p)
  <2>1. InPool(IdleChargers, p) = {}
    BY <1>6 DEF Busy
  <2>2. IsFiniteSet(ended) /\ steps[p] = Cardinality(ended) /\ Cardinality(ended) \in Nat
    <3>1. ended \subseteq Flows /\ IsFiniteSet(Flows) /\ steps[p] = Cardinality(ended)
      BY <1>2, ChargeFlowAssumption
    <3> HIDE DEF ended, steps
    <3> QED
      BY <3>1, FS_Subset, FS_CardinalityType
  <2>3. place \in Surjection(ended, InPool(free, p))
    <3>1. \A f \in ended : flow[f].charger \in InPool(free, p)
      BY <1>2, HolderPool, ChargeFlowAssumption DEF InPool
    <3>2. \A c \in InPool(free, p) : c \in freed
      BY <2>1 DEF InPool
    <3>3. \A c \in InPool(free, p) : \E f \in ended : flow[f].charger = c
      BY <1>2, <3>2, HolderPool DEF InPool
    <3>4. place \in [ended -> InPool(free, p)]
      BY <3>1
    <3>5. \A c \in InPool(free, p) : \E f \in ended : place[f] = c
      BY <3>3
    <3> HIDE DEF place, ended, free
    <3> QED
      BY <3>4, <3>5 DEF Surjection
  <2> HIDE DEF place, ended, free, steps
  <2>4. Cardinality(InPool(free, p)) <= Cardinality(ended)
    BY <2>2, <2>3, FS_Surjection
  <2> QED
    BY <2>2, <2>4 DEF Enough
<1> HIDE DEF free, steps, ch, fl, freed, T
<1>7. Waiting(p)' # {} => InPool(IdleChargers', p) = {}
  BY <1>1, <1>3, <1>4, <1>5, <1>6, ServedPool
<1> QED
  BY <1>7 DEF Busy, InPool

LEMMA CommandsBusy ==
    ASSUME Now, Priced, NEW p \in Pools, Busy(p), CompleteDueCommands PROVE Busy(p)'
<1> DEFINE ch == [c \in Chargers |-> IF c \in ComingUp THEN "Idle" ELSE charger[c]]
           pools == {PoolOf[c] : c \in ComingUp}
           free == IdleChargers \cup ComingUp
           T == UNION {StaleHeads(q) : q \in pools}
<1>1. PICK g \in Grants(AllSteps(pools), free) : Serve(g, flow, ch, Without(T))
  BY DEF CompleteDueCommands
<1>2. /\ free \in SUBSET Chargers /\ \A c \in free \ IdleChargers : PoolOf[c] \in pools
      /\ \A c \in Chargers : ch[c] = "Idle" => c \in free
  BY DEF IdleChargers, ComingUp, DueChargers
<1> HIDE DEF ch, pools, free, T
<1> QED
  BY <1>1, <1>2, ManyFreed

LEMMA StatusBusy ==
    ASSUME Now, Priced, NEW p \in Pools, Busy(p), NEW c \in Chargers, NEW target,
           SetChargerStatus(c, target)
    PROVE  Busy(p)'
<1> DEFINE ch == ChargerBecomes(c, target)
           pools == IF target = "Idle" THEN {PoolOf[c]} ELSE {}
           free == IdleAfter(c, target)
           T == UNION {StaleHeads(q) : q \in pools}
<1>1. PICK g \in Grants(AllSteps(pools), free) : Serve(g, flow, ch, Without(T))
  BY DEF SetChargerStatus
<1>2. /\ free \in SUBSET Chargers /\ \A d \in free \ IdleChargers : PoolOf[d] \in pools
      /\ \A d \in Chargers : ch[d] = "Idle" => d \in free
  BY NowTyped DEF IdleChargers, IdleAfter, ChargerBecomes
<1> HIDE DEF ch, pools, free, T
<1> QED
  BY <1>1, <1>2, ManyFreed

LEMMA CreateChargersBusy ==
    ASSUME Now, Priced, NEW p \in Pools, Busy(p), NEW s, NEW batch \in SUBSET Chargers,
           CreateChargers(s, batch)
    PROVE  Busy(p)'
<1> DEFINE ch == [c \in Chargers |-> IF c \in batch THEN "Idle" ELSE charger[c]]
           pools == {s} \X Types
           free == IdleChargers \cup batch
           T == UNION {StaleHeads(q) : q \in pools}
<1>1. PICK g \in Grants(AllSteps(pools), free) : Serve(g, flow, ch, Without(T))
  BY DEF CreateChargers
<1>2. \A c \in batch : PoolOf[c] \in pools
  <2>1. \A c \in batch : PoolOf[c] \in Stations \X Types /\ PoolOf[c][1] = s
    BY ChargeFlowAssumption DEF CreateChargers, Pools
  <2> QED
    BY <2>1
<1>3. /\ free \in SUBSET Chargers /\ \A c \in free \ IdleChargers : PoolOf[c] \in pools
      /\ \A c \in Chargers : ch[c] = "Idle" => c \in free
  BY <1>2 DEF IdleChargers
<1> HIDE DEF ch, pools, free, T
<1> QED
  BY <1>1, <1>3, ManyFreed

LEMMA EnableBusy ==
    ASSUME Now, Priced, NEW p \in Pools, Busy(p), NEW s, EnableStation(s) PROVE Busy(p)'
<1> DEFINE T == UNION {StaleHeads(q) : q \in {s} \X Types}
<1>1. PICK g \in Grants(AllSteps({s} \X Types), IdleChargers) :
        Serve(g, flow, charger, Without(T))
  BY DEF EnableStation
<1>2. /\ IdleChargers \in SUBSET Chargers
      /\ \A c \in Chargers : charger[c] = "Idle" => c \in IdleChargers
      /\ \A c \in IdleChargers \ IdleChargers : PoolOf[c] \in {s} \X Types
  BY DEF IdleChargers
<1> HIDE DEF T
<1> QED
  BY <1>1, <1>2, ManyFreed

\* Who joins the queue found no charger left over.
LEMMA CreateBusy ==
    ASSUME Now, Priced, NEW p \in Pools, Busy(p),
           NEW u \in Users, NEW q \in Pools, NEW preferred, CreateFlow(u, q, preferred)
    PROVE  Busy(p)'
<1> DEFINE tk == Without(StaleHeads(q))
<1>1. PICK g \in Grants(AllSteps({q}), IdleChargers) :
        LET left == {c \in IdleChargers : PoolOf[c] = q} \ Range(g)
        IN \/ Serve(g, flow, charger, tk)
           \/ \E f \in UnusedFlows, c \in left :
                Serve(g, [flow EXCEPT ![f] = NewFlow(u, q, "PendingQuote", c)],
                      [charger EXCEPT ![c] = "Occupied"], tk)
           \/ \E f \in UnusedFlows :
              /\ left = {}
              /\ Serve(g, [flow EXCEPT ![f] = NewFlow(u, q, "Queued", None)],
                       charger, [tk EXCEPT ![f] = lastTicket + 1])
  BY DEF CreateFlow
<1> HIDE DEF tk
<1>2. IdleChargers \in SUBSET Chargers /\ \A c \in Chargers : charger[c] = "Idle" => c \in IdleChargers
  BY DEF IdleChargers
<1>3. flow \in [Flows -> FlowRecord] /\ charger \in [Chargers -> ChargerStatus]
  BY NowTyped
<1>4. ASSUME Waiting(p) # {} PROVE Enough(AllSteps({q}), IdleChargers, p)
  <2>1. InPool(IdleChargers, p) = {}
    BY <1>4 DEF Busy
  <2>2. CASE p = q
    BY <2>2 DEF Enough, AllSteps
  <2>3. CASE p # q
    <3>1. AllSteps({q})[p] = 0
      BY <2>3 DEF AllSteps
    <3> QED
      BY <2>1, <3>1, NoneFreed
  <2> QED
    BY <2>2, <2>3
<1>5. ASSUME NEW fl, NEW ch, NEW rows, Serve(g, fl, ch, rows),
             \A x \in Flows : fl[x].status = "Queued" => fl[x] = flow[x],
             \A c \in Chargers : ch[c] = "Idle" => c \in IdleChargers
      PROVE  Busy(p)'
  <2>1. Waiting(p)' # {} => InPool(IdleChargers', p) = {}
    BY <1>2, <1>4, <1>5, ServedPool
  <2> QED
    BY <2>1 DEF Busy, InPool
<1>6. CASE Serve(g, flow, charger, tk)
  BY <1>2, <1>5, <1>6
<1>7. ASSUME NEW f \in UnusedFlows, NEW c \in IdleChargers,
             Serve(g, [flow EXCEPT ![f] = NewFlow(u, q, "PendingQuote", c)],
                   [charger EXCEPT ![c] = "Occupied"], tk)
      PROVE  Busy(p)'
  <2> DEFINE fl == [flow EXCEPT ![f] = NewFlow(u, q, "PendingQuote", c)]
             ch == [charger EXCEPT ![c] = "Occupied"]
  <2>1. \A x \in Flows : fl[x].status = "Queued" => fl[x] = flow[x]
    BY <1>3 DEF NewFlow
  <2>2. \A d \in Chargers : ch[d] = "Idle" => d \in IdleChargers
    BY <1>3 DEF IdleChargers
  <2> HIDE DEF fl, ch
  <2>3. Serve(g, fl, ch, tk)
    BY <1>7 DEF fl, ch
  <2> QED
    BY <1>5, <2>1, <2>2, <2>3
<1>8. ASSUME NEW f \in UnusedFlows, InPool(IdleChargers, q) \subseteq Range(g),
             Serve(g, [flow EXCEPT ![f] = NewFlow(u, q, "Queued", None)],
                   charger, [tk EXCEPT ![f] = lastTicket + 1])
      PROVE  Busy(p)'
  <2> DEFINE fl == [flow EXCEPT ![f] = NewFlow(u, q, "Queued", None)]
             rows == [tk EXCEPT ![f] = lastTicket + 1]
  <2>1. \A x \in Flows \ {f} : fl[x] = flow[x]
    BY <1>3
  <2>2. f \in Flows /\ flow[f].status = "Unused" /\ fl[f] = NewFlow(u, q, "Queued", None)
    BY <1>3 DEF UnusedFlows
  <2> HIDE DEF fl, rows
  <2>3. Serve(g, fl, charger, rows)
    BY <1>8 DEF fl, rows
  <2>4. \A c \in Chargers : charger'[c] = "Idle" => c \in IdleChargers /\ c \notin Range(g)
    <3>1. \A c \in Chargers : charger'[c] = IF c \in Range(g) THEN "Occupied" ELSE charger[c]
      BY <2>3 DEF Serve
    <3> QED
      BY <1>2, <3>1
  <2>5. CASE p = q
    BY <1>8, <2>4, <2>5 DEF Busy, InPool, IdleChargers
  <2>6. CASE p # q
    <3>1. ASSUME NEW x \in Waiting(p)' PROVE x \in Waiting(p)
      <4>1. x \in Flows /\ flow'[x].pool = p /\ flow'[x].status = "Queued" /\ ticket'[x] > 0
        BY DEF Waiting, InQueue
      <4>2. x \notin DOMAIN g
        <5>1. ticket'[x] = IF x \in DOMAIN g THEN 0 ELSE rows[x]
          BY <2>3, <4>1 DEF Serve
        <5> QED
          BY <4>1, <5>1
      <4>3. flow'[x] = fl[x]
        BY <2>3, <4>1, <4>2 DEF Serve
      <4>4. x # f
        BY <2>2, <2>6, <4>1, <4>3 DEF NewFlow
      <4>5. flow'[x] = flow[x]
        BY <2>1, <4>1, <4>3, <4>4
      <4> QED
        BY <4>1, <4>5, NowTyped DEF Waiting, InQueue, Lined
    <3>2. InPool(IdleChargers, p)' \subseteq InPool(IdleChargers, p)
      BY <2>4 DEF InPool, IdleChargers
    <3> QED
      BY <3>1, <3>2 DEF Busy
  <2> QED
    BY <2>5, <2>6
<1> QED
  BY <1>1, <1>6, <1>7, <1>8 DEF InPool

\* The actions that turn one flow, none of which comes to wait.
LEMMA TurnBusy ==
    ASSUME Now, NEW p \in Pools, Busy(p), NEW f \in Flows,
           ConfirmQuote(f) \/ Start(f) \/ SettleFails(f) \/ DeadlinePasses(f)
    PROVE  Busy(p)'
<1>1. flow \in [Flows -> FlowRecord] /\ flow[f] \in FlowRecord
  BY NowTyped
<1>2. UNCHANGED charger
  BY DEF ConfirmQuote, Start, SettleFails, DeadlinePasses
<1>3. /\ \A x \in Flows \ {f} : flow'[x] = flow[x]
      /\ flow'[f].status # "Queued"
  <2>1. CASE ConfirmQuote(f)
    BY <1>1, <2>1 DEF ConfirmQuote, FlowRecord
  <2>2. CASE Start(f)
    BY <1>1, <2>2 DEF Start, FlowRecord
  <2>3. CASE SettleFails(f)
    BY <1>1, <2>3 DEF SettleFails, FlowRecord
  <2>4. CASE DeadlinePasses(f)
    BY <1>1, <2>4 DEF DeadlinePasses, FlowRecord
  <2> QED
    BY <2>1, <2>2, <2>3, <2>4
<1> QED
  BY <1>2, <1>3, NothingFreed

LEMMA NextBusy ==
    ASSUME Now, Priced, NEW p \in Pools, Busy(p), Next PROVE Busy(p)'
<1>1. ASSUME UNCHANGED <<flow, charger>> PROVE Busy(p)'
  BY <1>1, NothingFreed
<1>2. CASE UserNext
  <2>1. ASSUME NEW u \in Users, NEW a, Recharge(u, a) PROVE Busy(p)'
    BY <1>1, <2>1 DEF Recharge
  <2>2. ASSUME NEW u \in Users, Anonymize(u) PROVE Busy(p)'
    BY <1>1, <2>2 DEF Anonymize
  <2>3. ASSUME NEW f \in Flows, NEW a, Settle(f, a) PROVE Busy(p)'
    BY <2>3, SettleBusy DEF Settle
  <2> QED
    BY <1>2, <2>1, <2>2, <2>3, CreateBusy, TurnBusy, CancelBusy DEF UserNext
<1>3. CASE ServerNext
  <2>1. ASSUME RecoverAtStartup PROVE Busy(p)'
    BY <1>1, <2>1 DEF RecoverAtStartup
  <2> QED
    BY <1>3, <2>1, MaintenanceBusy, CommandsBusy DEF ServerNext
<1>4. CASE AdminNext
  <2>1. ASSUME NEW f \in Flows, NEW next, ForceRelease(f, next) PROVE Busy(p)'
    BY <2>1, ReleaseBusy DEF ForceRelease
  <2>2. ASSUME NEW c \in Chargers, NEW a, CreateRestartCommand(c, a) PROVE Busy(p)'
    <3>1. CASE flow' = flow /\ charger' = [charger EXCEPT ![c] = "Restarting"]
      <4>1. \A d \in Chargers : charger'[d] = "Idle" => charger[d] = "Idle"
        BY <3>1, NowTyped
      <4> QED
        BY <3>1, <4>1, NothingFreed
    <3>2. CASE \E f \in ActiveOn(c) : Release(f, "Restarting") \/ SettleWith(f, a, "Restarting")
      BY <3>2, ReleaseBusy, SettleBusy DEF ActiveOn
    <3> QED
      BY <2>2, <3>1, <3>2 DEF CreateRestartCommand
  <2>3. ASSUME NEW s, DisableStation(s) PROVE Busy(p)'
    BY <1>1, <2>3 DEF DisableStation
  <2>4. ASSUME NEW u, NEW status, UpdateUserStatus(u, status) PROVE Busy(p)'
    BY <1>1, <2>4 DEF UpdateUserStatus
  <2> QED
    BY <1>4, <2>1, <2>2, <2>3, <2>4, StatusBusy, CreateChargersBusy, EnableBusy DEF AdminNext
<1>5. CASE ClockNext
  <2>1. ASSUME NEW c, CommandIsDue(c) PROVE Busy(p)'
    BY <1>1, <2>1 DEF CommandIsDue
  <2>2. ASSUME NEW s, TariffChanges(s) PROVE Busy(p)'
    BY <1>1, <2>2 DEF TariffChanges
  <2> QED
    BY <1>5, <2>1, <2>2, TurnBusy DEF ClockNext
<1> QED
  BY <1>2, <1>3, <1>4, <1>5 DEF Next

LEMMA BusyIsNoIdle == NoIdleWhileWaiting <=> \A p \in Pools : Busy(p)
BY DEF NoIdleWhileWaiting, Busy, InPool

\* Without gaps between tariffs there is always a price.
LEMMA PricedStays ==
    ASSUME ~TariffLapses, Priced, [Next]_vars PROVE Priced'
<1>1. UNCHANGED tariff
  <2>1. CASE UserNext
    BY <2>1 DEF UserNext, CreateFlow, Recharge, Anonymize, ConfirmQuote, Cancel, Start,
                SettleFails, Settle, SettleWith
  <2>2. CASE ServerNext
    BY <2>2 DEF ServerNext, RunMaintenance, RecoverAtStartup, CompleteDueCommands
  <2>3. CASE AdminNext
    BY ZenonT(60), <2>3 DEF AdminNext, ForceRelease, Release, CreateRestartCommand, SettleWith,
                SetChargerStatus, EnableStation, DisableStation, CreateChargers,
                UpdateUserStatus
  <2>4. CASE ClockNext
    BY <2>4 DEF ClockNext, DeadlinePasses, CommandIsDue, TariffChanges
  <2>5. CASE UNCHANGED vars
    BY <2>5 DEF vars
  <2> QED
    BY <2>1, <2>2, <2>3, <2>4, <2>5 DEF Next
<1> QED
  BY <1>1 DEF Priced

\* Where tariffs follow each other without a gap, no charger is idle while a
\* flow waits for its pool: however chargers become free, the steps that the
\* transaction takes are enough for all of them.
THEOREM NoneIdle == ASSUME ~TariffLapses PROVE Spec => []NoIdleWhileWaiting
<1>1. Init => Priced /\ NoIdleWhileWaiting
  <2>1. Init => Priced
    BY DEF Init, Priced, Pools
  <2>2. Init => NoIdleWhileWaiting
    BY DEF Init, NoIdleWhileWaiting, Waiting, InQueue
  <2> QED
    BY <2>1, <2>2
<1>2. IInv /\ Priced /\ NoIdleWhileWaiting /\ [Next]_vars => Priced' /\ NoIdleWhileWaiting'
  <2> SUFFICES ASSUME IInv, Priced, NoIdleWhileWaiting, [Next]_vars
               PROVE  Priced' /\ NoIdleWhileWaiting'
    OBVIOUS
  <2>1. CASE Next
    <3>1. \A p \in Pools : Busy(p)'
      BY <2>1, NextBusy, BusyIsNoIdle DEF IInv
    <3>2. NoIdleWhileWaiting'
      BY <3>1 DEF NoIdleWhileWaiting, Busy, InPool
    <3> QED
      BY <3>2, PricedStays
  <2>2. CASE UNCHANGED vars
    BY <2>2, PricedStays DEF vars, NoIdleWhileWaiting, Waiting, InQueue, IdleChargers
  <2> QED
    BY <2>1, <2>2
<1> QED
  BY <1>1, <1>2, Invariant, PTL DEF Spec
=============================================================================

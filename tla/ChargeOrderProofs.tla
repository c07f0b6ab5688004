------------------------- MODULE ChargeOrderProofs -------------------------
(***************************************************************************)
(* The order of a flow goes with the flow, and the money of a user with    *)
(* the orders, for any number of users, stations, chargers and flows.      *)
(* Promotion touches queued flows only, and these have no order; so each   *)
(* action is looked at before it promotes.                                 *)
(***************************************************************************)
EXTENDS ChargeFlowProofs, Pricing, FiniteSetTheorems, WellFoundedInduction

\* The order o fits the flow r.
Fits(r, o) ==
    /\ r.status \in {"Reserved", "Charging", "SettlementFailed", "Completed"} =>
         o.status = r.status
    /\ r.status \in {"Cancelled", "Expired"} => o.status \in {"None", r.status}
    /\ r.status \in {"Unused", "Queued", "PendingQuote"} => o = NoOrder
    /\ o.started <=> o.status \in {"Charging", "SettlementFailed", "Completed"}

LEMMA NoOrderIsEmpty == NoOrder.status = "None" /\ NoOrder.started = FALSE
BY DEF NoOrder

\* All that is asked of the two halves of a transaction.
Ordered == \A f \in Flows : Fits(flow[f], order[f])

LEMMA OrderedSame ==
    ASSUME Ordered, UNCHANGED <<flow, order>> PROVE Ordered'
BY DEF Ordered, Fits

\* Serving the queue gives no flow an order it should not have.
LEMMA ServedFits ==
    ASSUME Now, NEW fl, NEW ch, NEW tk, NEW steps, NEW free, NEW g \in Grants(steps, free),
           Serve(g, fl, ch, tk),
           \A f \in Flows : flow[f].status = "Queued" => fl[f] = flow[f],
           \A f \in Flows : Fits(fl[f], order'[f])
    PROVE  Ordered'
<1> SUFFICES ASSUME NEW f \in Flows PROVE Fits(flow'[f], order'[f])
  BY DEF Ordered
<1>1. CASE f \notin DOMAIN g
  BY <1>1 DEF Serve
<1>2. CASE f \in DOMAIN g
  <2>1. fl[f] \in FlowRecord /\ fl[f].status = "Queued"
    BY <1>2, GrantFacts, NowTyped
  <2>2. flow'[f].status = "PendingQuote"
    BY <1>2, <2>1 DEF Serve, FlowRecord
  <2> QED
    BY <2>1, <2>2 DEF Fits
<1> QED
  BY <1>1, <1>2

\* One flow and its order change, the queue is served or not.
LEMMA OneFits ==
    ASSUME Now, Rest, Ordered, NEW f \in Flows, flow[f].status # "Queued",
           NEW fl, \A x \in Flows \ {f} : fl[x] = flow[x],
           \A x \in Flows \ {f} : order'[x] = order[x],
           Fits(fl[f], order'[f]),
           NEW ch, NEW tk, NEW steps, NEW free, NEW g \in Grants(steps, free),
           Serve(g, fl, ch, tk)
    PROVE  Ordered'
<1>1. \A x \in Flows : Fits(fl[x], order'[x])
  BY DEF Ordered
<1> QED
  BY <1>1, ServedFits

LEMMA RefitFits ==
    ASSUME Now, Ordered, UNCHANGED order, NEW ch, NEW tk, NEW steps, NEW free,
           NEW g \in Grants(steps, free), Serve(g, flow, ch, tk)
    PROVE  Ordered'
BY ServedFits DEF Ordered

LEMMA ConfirmFits == ASSUME Now, Rest, Ordered, NEW f \in Flows, ConfirmQuote(f) PROVE Ordered'
<1>1. /\ flow[f].status = "PendingQuote"
      /\ flow' = [flow EXCEPT ![f] = Turned(flow[f], "Reserved", flow[f].version + 1)]
      /\ order' = [order EXCEPT ![f] = OrderTo(order[f], "Reserved")]
  BY DEF ConfirmQuote, Turned, OrderTo
<1>2. /\ flow \in [Flows -> FlowRecord] /\ order \in [Flows -> OrderRecord]
      /\ order[f] \in OrderRecord
  BY NowTyped DEF Rest
<1>3. flow'[f].status = "Reserved"
  BY <1>1, <1>2 DEF Turned, FlowRecord
<1>4. order'[f].status = "Reserved" /\ order'[f].started = order[f].started
  BY <1>1, <1>2 DEF OrderTo, OrderRecord
<1>5. order[f].started = FALSE
  BY <1>1, NoOrderIsEmpty DEF Ordered, Fits
<1>6. Fits(flow'[f], order'[f])
  BY <1>3, <1>4, <1>5 DEF Fits
<1> QED
  BY <1>1, <1>2, <1>6 DEF Ordered

LEMMA StartFits == ASSUME Now, Rest, Ordered, NEW f \in Flows, Start(f) PROVE Ordered'
<1>1. /\ flow' = [flow EXCEPT ![f] = Turned(flow[f], "Charging", flow[f].version + 1)]
      /\ order' = [order EXCEPT ![f] = OrderStarted(order[f], "Charging")]
  BY DEF Start, Turned, OrderStarted
<1>2. /\ flow \in [Flows -> FlowRecord] /\ order \in [Flows -> OrderRecord]
      /\ order[f] \in OrderRecord
  BY NowTyped DEF Rest
<1>3. flow'[f].status = "Charging"
  BY <1>1, <1>2 DEF Turned, FlowRecord
<1>4. order'[f].status = "Charging" /\ order'[f].started = TRUE
  BY <1>1, <1>2 DEF OrderStarted, OrderRecord
<1>5. Fits(flow'[f], order'[f])
  BY <1>3, <1>4 DEF Fits
<1> QED
  BY <1>1, <1>2, <1>5 DEF Ordered

LEMMA SettleFailsFits == ASSUME Now, Rest, Ordered, NEW f \in Flows, SettleFails(f) PROVE Ordered'
<1>1. flow[f].status \in {"Charging", "SettlementFailed"}
  BY DEF SettleFails, Settleable
<1>2. order[f].status \in {"Charging", "SettlementFailed"} /\ order[f].started
  BY <1>1 DEF Ordered, Fits
<1>3. /\ flow' = [flow EXCEPT ![f] = [flow[f] EXCEPT !.status = "SettlementFailed"]]
      /\ order' = [order EXCEPT ![f] = OrderTo(order[f], "SettlementFailed")]
  BY <1>2 DEF SettleFails, OrderTo
<1>4. /\ flow \in [Flows -> FlowRecord] /\ flow[f] \in FlowRecord
      /\ order \in [Flows -> OrderRecord] /\ order[f] \in OrderRecord
  BY NowTyped DEF Rest
<1>5. flow'[f].status = "SettlementFailed"
  BY <1>3, <1>4 DEF FlowRecord
<1>6. order'[f].status = "SettlementFailed" /\ order'[f].started
  BY <1>2, <1>3, <1>4 DEF OrderTo, OrderRecord
<1>7. Fits(flow'[f], order'[f])
  BY <1>5, <1>6 DEF Fits
<1> QED
  BY <1>3, <1>4, <1>7 DEF Ordered

LEMMA DeadlineFits == ASSUME Now, Ordered, NEW f \in Flows, DeadlinePasses(f) PROVE Ordered'
<1>1. flow' = [flow EXCEPT ![f] = Late(flow[f])] /\ order' = order
  BY DEF DeadlinePasses, Late
<1>2. flow \in [Flows -> FlowRecord] /\ flow[f] \in FlowRecord
  BY NowTyped
<1>3. flow'[f].status = flow[f].status
  BY <1>1, <1>2 DEF Late, FlowRecord
<1> QED
  BY <1>1, <1>2, <1>3 DEF Ordered, Fits

\* An order that is closed with its flow fits the ended flow.
LEMMA ClosedFits ==
    ASSUME Now, Rest, Ordered, NEW f \in Flows,
           flow[f].status \in {"Queued", "PendingQuote", "Reserved"},
           CloseOrder(f, "Cancelled")
    PROVE  /\ Fits(Ended(f, "Cancelled")[f], order'[f])
           /\ \A x \in Flows \ {f} : order'[x] = order[x]
<1>1. order \in [Flows -> OrderRecord] /\ order[f] \in OrderRecord
  BY DEF Rest
<1>2. order' = [order EXCEPT ![f] = OrderTo(order[f],
                   IF order[f].status \in Active THEN "Cancelled" ELSE order[f].status)]
  BY DEF CloseOrder, OrderTo
<1>3. order[f].status \in {"None", "Reserved"} /\ ~order[f].started
  BY NoOrderIsEmpty DEF Ordered, Fits
<1>4. order'[f].status \in {"None", "Cancelled"} /\ ~order'[f].started
  BY <1>1, <1>2, <1>3 DEF OrderTo, OrderRecord, Active
<1>5. Ended(f, "Cancelled")[f].status = "Cancelled"
  BY NowTyped, EndedFlow DEF Terminal
<1>6. Fits(Ended(f, "Cancelled")[f], order'[f])
  BY <1>4, <1>5 DEF Fits
<1> QED
  BY <1>1, <1>2, <1>6

LEMMA ReleaseFits ==
    ASSUME Now, Rest, Ordered, NEW f \in Flows, NEW next, Release(f, next) PROVE Ordered'
<1>1. flow[f].status \in {"PendingQuote", "Reserved"} /\ CloseOrder(f, "Cancelled")
  BY DEF Release
<1>2. \A x \in Flows \ {f} : Ended(f, "Cancelled")[x] = flow[x]
  BY NowTyped, EndedFlow DEF Terminal
<1>3. \E g \in Grants(OneStep(flow[f].pool), IdleAfter(flow[f].charger, next)) :
        Serve(g, Ended(f, "Cancelled"), ChargerBecomes(flow[f].charger, next),
              Without({f} \cup StaleHeads(flow[f].pool)))
  BY DEF Release
<1> QED
  BY <1>1, <1>2, <1>3, ClosedFits, OneFits

LEMMA CancelFits == ASSUME Now, Rest, Ordered, NEW f \in Flows, Cancel(f) PROVE Ordered'
<1>1. CASE flow[f].charger # None
  <2>1. /\ flow[f].status \in {"PendingQuote", "Reserved"}
        /\ UNCHANGED <<account, wallet, recharged, enabled, tariff, lastTicket>>
    BY <1>1, NowTyped DEF Cancel, Held
  <2>2. Release(f, "Idle")
    BY <1>1, <2>1 DEF Cancel, Release
  <2> QED
    BY <2>2, ReleaseFits
<1>2. CASE flow[f].charger = None
  <2>1. /\ flow' = Ended(f, "Cancelled") /\ CloseOrder(f, "Cancelled")
        /\ flow[f].status \in {"Queued", "PendingQuote", "Reserved"}
    BY <1>2 DEF Cancel
  <2>2. \A x \in Flows \ {f} : flow'[x] = flow[x]
    BY <2>1, NowTyped, EndedFlow DEF Terminal
  <2> QED
    BY <2>1, <2>2, ClosedFits DEF Ordered
<1> QED
  BY <1>1, <1>2

LEMMA SettleFits ==
    ASSUME Now, Rest, Ordered, NEW f \in Flows, NEW a, NEW next, SettleWith(f, a, next)
    PROVE  Ordered'
<1> DEFINE done == [flow EXCEPT ![f].status = "Completed", ![f].version = @ + 1]
<1>1. /\ flow[f].status # "Queued" /\ order[f].started
      /\ order' = [order EXCEPT ![f] = OrderPaid(order[f], "Completed", a,
                                                 Paid(flow[f].user, a))]
  BY DEF SettleWith, Settleable, OrderPaid
<1>2. PICK g \in Grants(OneStep(flow[f].pool), IdleAfter(flow[f].charger, next)) :
        Serve(g, done, ChargerBecomes(flow[f].charger, next),
              Without(StaleHeads(flow[f].pool)))
  BY DEF SettleWith
<1>3. /\ flow \in [Flows -> FlowRecord] /\ flow[f] \in FlowRecord
      /\ order \in [Flows -> OrderRecord] /\ order[f] \in OrderRecord
  BY NowTyped DEF Rest
<1>4. done = [flow EXCEPT ![f] = Turned(flow[f], "Completed", flow[f].version + 1)]
  BY DEF Turned
<1> HIDE DEF done
<1>5. done[f].status = "Completed" /\ \A x \in Flows \ {f} : done[x] = flow[x]
  BY <1>3, <1>4 DEF Turned, FlowRecord
<1>6. order'[f].status = "Completed" /\ order'[f].started
  BY <1>1, <1>3 DEF OrderPaid, OrderRecord
<1>7. Fits(done[f], order'[f]) /\ \A x \in Flows \ {f} : order'[x] = order[x]
  BY <1>1, <1>3, <1>5, <1>6 DEF Fits
<1> QED
  BY <1>1, <1>2, <1>5, <1>7, OneFits

LEMMA MaintenanceFits == ASSUME Now, Rest, Ordered, RunMaintenance PROVE Ordered'
<1> DEFINE freed == {flow[f].charger : f \in TimedOut} \ {None}
           fl == [f \in Flows |-> IF f \in TimedOut
                    THEN [flow[f] EXCEPT !.status = "Expired", !.version = @ + 1,
                                         !.charger = None, !.overdue = FALSE]
                    ELSE flow[f]]
           ch == [c \in Chargers |-> IF c \in freed THEN "Idle" ELSE charger[c]]
           steps == [p \in Pools |-> Cardinality({f \in TimedOut : flow[f].pool = p})]
           T == UNION {StaleHeads(flow[f].pool) : f \in TimedOut}
<1>1. PICK g \in Grants(steps, IdleChargers \cup freed) : Serve(g, fl, ch, Without(T))
  BY DEF RunMaintenance
<1>2. order' = [f \in Flows |-> IF f \in TimedOut /\ order[f].status # "None"
                                THEN OrderTo(order[f], "Expired") ELSE order[f]]
  BY DEF RunMaintenance, OrderTo
<1>3. \A f \in TimedOut : flow[f].status \in {"PendingQuote", "Reserved"}
  BY DEF TimedOut
<1>4. \A f \in Flows \ TimedOut : fl[f] = flow[f] /\ order'[f] = order[f]
  BY <1>2
<1>5. \A f \in Flows : flow[f].status = "Queued" => fl[f] = flow[f]
  BY <1>3, <1>4
<1>6. ASSUME NEW f \in Flows, f \in TimedOut PROVE Fits(fl[f], order'[f])
  <2>1. flow[f] \in FlowRecord /\ order[f] \in OrderRecord
    BY NowTyped DEF Rest
  <2>2. fl[f].status = "Expired"
    BY <1>6, <2>1 DEF FlowRecord
  <2>3. order[f].status \in {"None", "Reserved"} /\ ~order[f].started
    BY <1>3, <1>6, NoOrderIsEmpty DEF Ordered, Fits
  <2>4. order'[f].status \in {"None", "Expired"} /\ ~order'[f].started
    BY <1>2, <1>6, <2>1, <2>3 DEF OrderTo, OrderRecord
  <2> HIDE DEF fl
  <2> QED
    BY <2>2, <2>4 DEF Fits
<1>7. \A f \in Flows : Fits(fl[f], order'[f])
  BY <1>4, <1>6 DEF Ordered
<1> HIDE DEF fl, ch, freed, steps, T
<1> QED
  BY <1>1, <1>5, <1>7, ServedFits

LEMMA CreateFits ==
    ASSUME Now, Rest, Ordered, NEW u, NEW p, NEW preferred, CreateFlow(u, p, preferred)
    PROVE  Ordered'
<1> DEFINE rest == Without(StaleHeads(p))
<1>1. UNCHANGED order
  BY DEF CreateFlow
<1>2. PICK g \in Grants(AllSteps({p}), IdleChargers) :
        \/ Serve(g, flow, charger, rest)
        \/ \E f \in UnusedFlows, c \in Chargers :
             Serve(g, [flow EXCEPT ![f] = NewFlow(u, p, "PendingQuote", c)],
                   [charger EXCEPT ![c] = "Occupied"], rest)
        \/ \E f \in UnusedFlows :
             Serve(g, [flow EXCEPT ![f] = NewFlow(u, p, "Queued", None)],
                   charger, [rest EXCEPT ![f] = lastTicket + 1])
  BY DEF CreateFlow, IdleChargers
<1> HIDE DEF rest
<1>3. ASSUME NEW f \in UnusedFlows, NEW s \in {"PendingQuote", "Queued"}, NEW c, NEW ch, NEW tk,
             Serve(g, [flow EXCEPT ![f] = NewFlow(u, p, s, c)], ch, tk)
      PROVE  Ordered'
  <2> DEFINE fl == [flow EXCEPT ![f] = NewFlow(u, p, s, c)]
  <2>1. f \in Flows /\ flow[f].status = "Unused" /\ flow \in [Flows -> FlowRecord]
    BY NowTyped DEF UnusedFlows
  <2>2. fl[f].status = s /\ \A x \in Flows \ {f} : fl[x] = flow[x]
    BY <2>1 DEF NewFlow
  <2>3. order'[f] = NoOrder
    BY <1>1, <2>1 DEF Ordered, Fits
  <2> HIDE DEF fl
  <2>4. Fits(fl[f], order'[f])
    BY <2>2, <2>3, NoOrderIsEmpty DEF Fits
  <2>5. \A x \in Flows \ {f} : order'[x] = order[x]
    BY <1>1
  <2>6. Serve(g, fl, ch, tk)
    BY <1>3 DEF fl
  <2> QED
    BY <2>1, <2>2, <2>4, <2>5, <2>6, OneFits
<1> QED
  BY <1>1, <1>2, <1>3, RefitFits

-----------------------------------------------------------------------------
LEMMA NextOrdered == ASSUME IInv, Ordered, Next PROVE Ordered'
<1> USE DEF IInv
<1>1. CASE UserNext
  <2>1. ASSUME NEW u, NEW a, Recharge(u, a) \/ Anonymize(u) PROVE Ordered'
    BY <2>1, OrderedSame DEF Recharge, Anonymize
  <2>2. ASSUME NEW f \in Flows, NEW a, Settle(f, a) PROVE Ordered'
    BY <2>2, SettleFits DEF Settle
  <2> QED
    BY <1>1, <2>1, <2>2, CreateFits, ConfirmFits, CancelFits, StartFits, SettleFailsFits
    DEF UserNext
<1>2. CASE ServerNext
  <2>1. CASE CompleteDueCommands
    BY <2>1, RefitFits DEF CompleteDueCommands
  <2>2. CASE RecoverAtStartup
    BY <2>2, OrderedSame DEF RecoverAtStartup
  <2> QED
    BY <1>2, <2>1, <2>2, MaintenanceFits DEF ServerNext
<1>3. CASE AdminNext
  <2>1. ASSUME NEW f \in Flows, NEW next, ForceRelease(f, next) PROVE Ordered'
    BY <2>1, ReleaseFits DEF ForceRelease
  <2>2. ASSUME NEW c, NEW a, CreateRestartCommand(c, a) PROVE Ordered'
    <3>1. CASE \E f \in ActiveOn(c) : Release(f, "Restarting") \/ SettleWith(f, a, "Restarting")
      BY <3>1, ReleaseFits, SettleFits DEF ActiveOn
    <3>2. CASE UNCHANGED <<flow, order>>
      BY <3>2, OrderedSame
    <3> QED
      BY <2>2, <3>1, <3>2 DEF CreateRestartCommand
  <2>3. ASSUME NEW c, NEW s, SetChargerStatus(c, s) PROVE Ordered'
    BY <2>3, RefitFits DEF SetChargerStatus
  <2>4. ASSUME NEW s, EnableStation(s) PROVE Ordered'
    BY <2>4, RefitFits DEF EnableStation
  <2>5. ASSUME NEW s, NEW batch, CreateChargers(s, batch) PROVE Ordered'
    BY <2>5, RefitFits DEF CreateChargers
  <2>6. ASSUME NEW s, NEW u, DisableStation(s) \/ UpdateUserStatus(u, s) PROVE Ordered'
    BY <2>6, OrderedSame DEF DisableStation, UpdateUserStatus
  <2> QED
    BY <1>3, <2>1, <2>2, <2>3, <2>4, <2>5, <2>6 DEF AdminNext
<1>4. CASE ClockNext
  <2>1. ASSUME NEW c, NEW s, CommandIsDue(c) \/ TariffChanges(s) PROVE Ordered'
    BY <2>1, OrderedSame DEF CommandIsDue, TariffChanges
  <2> QED
    BY <1>4, <2>1, DeadlineFits DEF ClockNext
<1> QED
  BY <1>1, <1>2, <1>3, <1>4 DEF Next

\* The order exists once the quote was confirmed, carries the flow's own
\* status from then on, and has started exactly from charging on: no release,
\* expiry, failed settlement or restart leaves the two at odds.
THEOREM OrdersFit == Spec => []OrderMatchesFlow
<1>1. Init => Ordered
  BY NoOrderIsEmpty DEF Init, UnusedFlow, Ordered, Fits
<1>2. IInv /\ Ordered /\ [Next]_vars => Ordered'
  BY NextOrdered, OrderedSame DEF vars
<1>3. Ordered => OrderMatchesFlow
  BY DEF Ordered, Fits, OrderMatchesFlow
<1> QED
  BY <1>1, <1>2, <1>3, Invariant, PTL DEF Spec

-----------------------------------------------------------------------------
(***************************************************************************)
(* Sums over a set.  The library adds up a set by taking away one member   *)
(* after the other.  That there is a function that does so, that the order *)
(* does not matter, and that it gives numbers, are shown by looking for a  *)
(* smallest subset for which it fails.                                     *)
(***************************************************************************)
LEMMA NoSmallest ==
    ASSUME NEW T, IsFiniteSet(T), NEW B \in SUBSET (SUBSET T),
           \A s \in B : \E r \in B : r \subseteq s /\ r # s
    PROVE  B = {}
<1>1. FiniteSubsetsOf(T) = SUBSET T
  BY FS_FiniteSubsetsOfFinite
<1>2. IsWellFoundedOn(StrictSubsetOrdering(T), SUBSET T)
  <2>1. IsWellFoundedOn(StrictSubsetOrdering(T), FiniteSubsetsOf(T))
    BY FS_StrictSubsetOrderingWellFounded
  <2> QED
    BY <1>1, <2>1
<1>3. SUFFICES ASSUME B # {} PROVE FALSE
  OBVIOUS
<1>4. PICK s \in B : \A r \in B : <<r, s>> \notin StrictSubsetOrdering(T)
  BY <1>2, <1>3, WFMin
<1>5. PICK r \in B : r \subseteq s /\ r # s
  OBVIOUS
<1>6. <<r, s>> \in StrictSubsetOrdering(T)
  BY <1>5 DEF StrictSubsetOrdering
<1> QED
  BY <1>4, <1>6

\* The sum of the amounts of o over T, and the functions that compute it.
SpentOf(o, T) == MapThenSumSet(LAMBDA f : o[f].amount, T)
Picked(s) == CHOOSE x \in s : TRUE
Adds(o, T, h) ==
    h = [s \in SUBSET T |-> IF s = {} THEN 0 ELSE o[Picked(s)].amount + h[s \ {Picked(s)}]]
Adder(o, T) == CHOOSE h : Adds(o, T, h)

LEMMA SpentIsAdded == ASSUME NEW o, NEW T PROVE SpentOf(o, T) = Adder(o, T)[T]
BY DEF SpentOf, MapThenSumSet, MapThenFoldSet, Adder, Adds, Picked

LEMMA PickedIn == ASSUME NEW s, s # {} PROVE Picked(s) \in s
BY DEF Picked

LEMMA AddsAt ==
    ASSUME NEW o, NEW T, NEW h, Adds(o, T, h), NEW s \in SUBSET T
    PROVE  h[s] = IF s = {} THEN 0 ELSE o[Picked(s)].amount + h[s \ {Picked(s)}]
<1> DEFINE val(k) == [r \in SUBSET T |-> IF r = {} THEN 0 ELSE o[Picked(r)].amount + k[r \ {Picked(r)}]]
<1>1. h = val(h)
  BY DEF Adds
<1>2. val(h)[s] = IF s = {} THEN 0 ELSE o[Picked(s)].amount + h[s \ {Picked(s)}]
  OBVIOUS
<1> HIDE DEF val
<1> QED
  BY <1>1, <1>2

\* Two such functions agree where both are defined and the amounts are equal.
LEMMA AddersAgree ==
    ASSUME NEW o, NEW q, NEW T, NEW R, NEW h, NEW k, Adds(o, T, h), Adds(q, R, k),
           NEW s \in SUBSET (T \cap R), IsFiniteSet(s),
           \A x \in s : o[x].amount = q[x].amount
    PROVE  h[s] = k[s]
<1> DEFINE B == {r \in SUBSET s : h[r] # k[r]}
<1>1. ASSUME NEW r \in B PROVE \E z \in B : z \subseteq r /\ z # r
  <2>1. r \in SUBSET s /\ r \in SUBSET T /\ r \in SUBSET R /\ h[r] # k[r]
    OBVIOUS
  <2>2. h[r] = IF r = {} THEN 0 ELSE o[Picked(r)].amount + h[r \ {Picked(r)}]
    BY SMTT(30), <2>1, AddsAt
  <2>6. k[r] = IF r = {} THEN 0 ELSE q[Picked(r)].amount + k[r \ {Picked(r)}]
    <3> DEFINE val(m) == [z \in SUBSET R |->
                            IF z = {} THEN 0 ELSE q[Picked(z)].amount + m[z \ {Picked(z)}]]
    <3>1. k = val(k)
      BY DEF Adds
    <3>2. val(k)[r] = IF r = {} THEN 0 ELSE q[Picked(r)].amount + k[r \ {Picked(r)}]
      BY <2>1
    <3> HIDE DEF val
    <3> QED
      BY <3>1, <3>2
  <2>3. r # {} /\ Picked(r) \in r
    BY <2>1, <2>2, <2>6, PickedIn
  <2>4. o[Picked(r)].amount = q[Picked(r)].amount
    BY <2>1, <2>3
  <2>5. h[r \ {Picked(r)}] # k[r \ {Picked(r)}]
    BY <2>1, <2>2, <2>3, <2>4, <2>6
  <2>7. r \ {Picked(r)} \in B
    BY <2>1, <2>5
  <2> QED
    BY <2>3, <2>7
<1>2. B \in SUBSET (SUBSET s)
  OBVIOUS
<1> HIDE DEF B
<1>3. B = {}
  BY <1>1, <1>2, NoSmallest
<1> QED
  BY <1>3 DEF B

LEMMA AdderAdds ==
    ASSUME NEW o, NEW T, IsFiniteSet(T) PROVE Adds(o, T, Adder(o, T))
<1> DEFINE B == {R \in SUBSET T : ~Adds(o, R, Adder(o, R))}
<1>1. ASSUME NEW R \in B, \A z \in SUBSET R : z # R => z \notin B PROVE FALSE
  <2> DEFINE less(s) == s \ {Picked(s)}
             h == [s \in SUBSET R |->
                     IF s = {} THEN 0 ELSE o[Picked(s)].amount + Adder(o, less(s))[less(s)]]
  <2>1. R \in SUBSET T /\ ~Adds(o, R, Adder(o, R))
    OBVIOUS
  <2>2. \A z \in SUBSET R : z # R => Adds(o, z, Adder(o, z))
    BY <1>1, <2>1
  <2> HIDE DEF B
  <2>3. \A s \in SUBSET R : s # {} => less(s) \in SUBSET R /\ less(s) # R
    BY PickedIn
  <2>4. \A s \in SUBSET R : IsFiniteSet(s)
    BY <2>1, FS_Subset
  <2>5. \A s \in SUBSET R : h[s] =
           IF s = {} THEN 0 ELSE o[Picked(s)].amount + Adder(o, less(s))[less(s)]
    OBVIOUS
  <2>6. ASSUME NEW r \in SUBSET R, r # R PROVE h[r] = Adder(o, r)[r]
    <3> HIDE DEF h
    <3>1. Adds(o, r, Adder(o, r))
      BY <2>2, <2>6
    <3>2. Adder(o, r)[r] = IF r = {} THEN 0 ELSE o[Picked(r)].amount + Adder(o, r)[less(r)]
      BY <3>1, AddsAt
    <3>3. CASE r # {}
      <4>1. Adds(o, less(r), Adder(o, less(r))) /\ IsFiniteSet(less(r))
        BY <2>2, <2>3, <2>4, <2>6, <3>3
      <4>2. less(r) \in SUBSET (r \cap less(r))
        OBVIOUS
      <4> HIDE DEF less
      <4>3. Adder(o, r)[less(r)] = Adder(o, less(r))[less(r)]
        BY <3>1, <4>1, <4>2, AddersAgree
      <4> QED
        BY <2>5, <3>2, <4>3
    <3>4. CASE r = {}
      BY <2>5, <3>2, <3>4
    <3> QED
      BY <3>3, <3>4
  <2>7. h = [s \in SUBSET R |->
               IF s = {} THEN 0 ELSE o[Picked(s)].amount + h[s \ {Picked(s)}]]
    <3>1. \A s \in SUBSET R : s # {} => h[less(s)] = Adder(o, less(s))[less(s)]
      <4> HIDE DEF h, less
      <4> QED
        BY <2>3, <2>6
    <3>2. \A s \in SUBSET R :
            h[s] = IF s = {} THEN 0 ELSE o[Picked(s)].amount + h[s \ {Picked(s)}]
      <4> HIDE DEF h
      <4> QED
        BY <2>5, <3>1
    <3>3. h = [s \in SUBSET R |-> h[s]]
      OBVIOUS
    <3> HIDE DEF h
    <3> QED
      BY <3>2, <3>3
  <2> HIDE DEF h
  <2>8. Adds(o, R, h)
    BY <2>7 DEF Adds
  <2>9. Adds(o, R, Adder(o, R))
    BY <2>8 DEF Adder
  <2> QED
    BY <2>1, <2>9
<1>2. B \in SUBSET (SUBSET T)
  OBVIOUS
<1>3. \A R \in B : \E z \in B : z \subseteq R /\ z # R
  BY <1>1
<1>4. T \in SUBSET T
  OBVIOUS
<1> HIDE DEF B
<1>5. B = {}
  BY <1>2, <1>3, NoSmallest
<1> QED
  BY <1>4, <1>5 DEF B

LEMMA SpentStep ==
    ASSUME NEW o, NEW T, IsFiniteSet(T)
    PROVE  SpentOf(o, T) = IF T = {} THEN 0
                           ELSE o[Picked(T)].amount + SpentOf(o, T \ {Picked(T)})
<1> DEFINE R == T \ {Picked(T)}
<1>1. Adds(o, T, Adder(o, T)) /\ Adds(o, R, Adder(o, R)) /\ IsFiniteSet(R) /\ R \in SUBSET (T \cap R)
  <2>1. IsFiniteSet(R) /\ R \in SUBSET (T \cap R)
    BY FS_Subset
  <2> QED
    BY <2>1, AdderAdds
<1>2. Adder(o, T)[T] = IF T = {} THEN 0 ELSE o[Picked(T)].amount + Adder(o, T)[R]
  BY <1>1, AddsAt
<1> HIDE DEF R
<1>3. Adder(o, T)[R] = Adder(o, R)[R]
  BY <1>1, AddersAgree
<1> QED
  BY <1>2, <1>3, SpentIsAdded DEF R

\* Equal amounts have equal sums.
LEMMA SpentSame ==
    ASSUME NEW o, NEW q, NEW T, IsFiniteSet(T), \A x \in T : o[x].amount = q[x].amount
    PROVE  SpentOf(o, T) = SpentOf(q, T)
BY AdderAdds, AddersAgree, SpentIsAdded

LEMMA SpentNat ==
    ASSUME NEW o, NEW T, IsFiniteSet(T), \A x \in T : o[x].amount \in Nat
    PROVE  SpentOf(o, T) \in Nat
<1> DEFINE B == {R \in SUBSET T : SpentOf(o, R) \notin Nat}
<1>1. ASSUME NEW R \in B PROVE \E z \in B : z \subseteq R /\ z # R
  <2>1. R \in SUBSET T /\ SpentOf(o, R) \notin Nat /\ IsFiniteSet(R)
    BY FS_Subset
  <2>2. R # {} /\ Picked(R) \in R /\ o[Picked(R)].amount \in Nat
    BY <2>1, SpentStep, PickedIn
  <2>3. SpentOf(o, R) = o[Picked(R)].amount + SpentOf(o, R \ {Picked(R)})
    BY <2>1, <2>2, SpentStep
  <2>4. SpentOf(o, R \ {Picked(R)}) \notin Nat
    BY <2>1, <2>2, <2>3
  <2> QED
    BY <2>1, <2>2, <2>4
<1>2. B \in SUBSET (SUBSET T) /\ T \in SUBSET T
  OBVIOUS
<1> HIDE DEF B
<1>3. B = {}
  BY <1>1, <1>2, NoSmallest
<1> QED
  BY <1>2, <1>3 DEF B

\* Whichever member is taken away first.
LEMMA SpentWithout ==
    ASSUME NEW o, NEW T, IsFiniteSet(T), \A x \in T : o[x].amount \in Nat, NEW x \in T
    PROVE  SpentOf(o, T) = o[x].amount + SpentOf(o, T \ {x})
<1> DEFINE Whole(R, y) == SpentOf(o, R) = o[y].amount + SpentOf(o, R \ {y})
           B == {R \in SUBSET T : \E y \in R : ~Whole(R, y)}
<1>1. ASSUME NEW R \in B, \A z \in SUBSET R : z # R => z \notin B PROVE FALSE
  <2>1. R \in SUBSET T
    OBVIOUS
  <2>2. PICK y \in R : ~Whole(R, y)
    OBVIOUS
  <2>3. \A z \in SUBSET R : z # R => \A v \in z : Whole(z, v)
    BY <1>1, <2>1
  <2> HIDE DEF B
  <2> DEFINE p == Picked(R)
  <2>4. p \in R /\ IsFiniteSet(R) /\ Whole(R, p)
    BY <2>1, <2>2, PickedIn, SpentStep, FS_Subset
  <2>5. p # y
    BY <2>2, <2>4
  <2> HIDE DEF p
  <2> DEFINE both == (R \ {p}) \ {y}
  <2>6. /\ SpentOf(o, R \ {p}) = o[y].amount + SpentOf(o, both)
        /\ SpentOf(o, R \ {y}) = o[p].amount + SpentOf(o, both)
    <3>1. y \in R \ {p} /\ p \in R \ {y} /\ R \ {p} # R /\ R \ {y} # R
          /\ R \ {p} \in SUBSET R /\ R \ {y} \in SUBSET R
      BY <2>4, <2>5
    <3>2. Whole(R \ {p}, y) /\ Whole(R \ {y}, p)
      BY <2>3, <3>1
    <3>3. (R \ {y}) \ {p} = both
      OBVIOUS
    <3> QED
      BY <3>2, <3>3
  <2>8. /\ o[y].amount \in Nat /\ o[p].amount \in Nat
        /\ SpentOf(o, both) \in Nat
    <3>1. IsFiniteSet(both) /\ both \subseteq T
      BY <2>1, <2>4, FS_Subset
    <3> QED
      BY <2>1, <2>4, <3>1, SpentNat
  <2>9. SpentOf(o, R) = o[p].amount + SpentOf(o, R \ {p})
    BY <2>4
  <2>10. SpentOf(o, R) # o[y].amount + SpentOf(o, R \ {y})
    BY <2>2
  <2> QED
    <3> HIDE DEF both
    <3> QED
      BY <2>6, <2>8, <2>9, <2>10
<1>2. B \in SUBSET (SUBSET T) /\ T \in SUBSET T
  OBVIOUS
<1>3. \A R \in B : \E z \in B : z \subseteq R /\ z # R
  BY <1>1
<1> HIDE DEF B
<1>4. B = {}
  BY <1>2, <1>3, NoSmallest
<1> QED
  BY <1>2, <1>4 DEF B

-----------------------------------------------------------------------------
(***************************************************************************)
(* Money.  Only a settlement completes a flow, and what is completed stays *)
(* as it is; so every other transaction leaves the sum alone.              *)
(***************************************************************************)
\* What a transaction does to the flow x, unless it settles x.
Unsettles(x, r) ==
    /\ flow[x].status = "Completed" => r = flow[x] /\ order'[x] = order[x]
    /\ r.status = "Completed" => flow[x].status = "Completed"

LEMMA ServedUnsettled ==
    ASSUME Now, NEW x \in Flows, NEW fl, NEW ch, NEW tk, NEW steps, NEW free,
           NEW g \in Grants(steps, free), Serve(g, fl, ch, tk),
           flow[x].status = "Queued" => fl[x] = flow[x],
           Unsettles(x, fl[x])
    PROVE  Unsettles(x, flow'[x])
<1>1. CASE x \notin DOMAIN g
  BY <1>1 DEF Serve
<1>2. CASE x \in DOMAIN g
  <2>1. fl[x] \in FlowRecord /\ flow[x].status = "Queued"
    BY <1>2, GrantFacts, NowTyped
  <2>2. flow'[x].status = "PendingQuote"
    BY <1>2, <2>1 DEF Serve, FlowRecord
  <2> QED
    BY <2>1, <2>2 DEF Unsettles
<1> QED
  BY <1>1, <1>2

\* One flow that is not completed changes and is not completed after.
LEMMA OneUnsettled ==
    ASSUME Now, NEW f \in Flows, flow[f].status \notin {"Queued", "Completed"},
           NEW fl, fl[f].status # "Completed",
           \A x \in Flows \ {f} : fl[x] = flow[x] /\ order'[x] = order[x],
           NEW ch, NEW tk, NEW steps, NEW free, NEW g \in Grants(steps, free),
           Serve(g, fl, ch, tk), NEW x \in Flows
    PROVE  Unsettles(x, flow'[x])
<1>1. Unsettles(x, fl[x])
  BY DEF Unsettles
<1> QED
  BY <1>1, ServedUnsettled

LEMMA RefitUnsettled ==
    ASSUME Now, UNCHANGED order, NEW ch, NEW tk, NEW steps, NEW free,
           NEW g \in Grants(steps, free), Serve(g, flow, ch, tk), NEW x \in Flows
    PROVE  Unsettles(x, flow'[x])
<1>1. Unsettles(x, flow[x])
  BY DEF Unsettles
<1> QED
  BY <1>1, ServedUnsettled

LEMMA TurnUnsettled ==
    ASSUME Now, Rest, NEW f \in Flows,
           ConfirmQuote(f) \/ Start(f) \/ SettleFails(f) \/ DeadlinePasses(f),
           NEW x \in Flows
    PROVE  Unsettles(x, flow'[x])
<1>1. flow \in [Flows -> FlowRecord] /\ flow[f] \in FlowRecord /\ order \in [Flows -> OrderRecord]
  BY NowTyped DEF Rest
<1>2. /\ flow[f].status # "Completed" /\ flow'[f].status # "Completed"
      /\ \A y \in Flows \ {f} : flow'[y] = flow[y] /\ order'[y] = order[y]
  <2>1. CASE ConfirmQuote(f)
    BY <1>1, <2>1 DEF ConfirmQuote, FlowRecord
  <2>2. CASE Start(f)
    BY <1>1, <2>2 DEF Start, FlowRecord
  <2>3. CASE SettleFails(f)
    BY <1>1, <2>3 DEF SettleFails, Settleable, FlowRecord
  <2>4. CASE DeadlinePasses(f)
    BY <1>1, <2>4 DEF DeadlinePasses, FlowRecord
  <2> QED
    BY <2>1, <2>2, <2>3, <2>4
<1> QED
  BY <1>2 DEF Unsettles

LEMMA ReleaseUnsettled ==
    ASSUME Now, Rest, NEW f \in Flows, NEW next, Release(f, next), NEW x \in Flows
    PROVE  Unsettles(x, flow'[x])
<1>1. flow[f].status \in {"PendingQuote", "Reserved"} /\ CloseOrder(f, "Cancelled")
  BY DEF Release
<1>2. /\ \A y \in Flows \ {f} : Ended(f, "Cancelled")[y] = flow[y]
      /\ Ended(f, "Cancelled")[f].status = "Cancelled"
  BY NowTyped, EndedFlow DEF Terminal
<1>3. PICK g \in Grants(OneStep(flow[f].pool), IdleAfter(flow[f].charger, next)) :
        Serve(g, Ended(f, "Cancelled"), ChargerBecomes(flow[f].charger, next),
              Without({f} \cup StaleHeads(flow[f].pool)))
  BY DEF Release
<1>4. \A y \in Flows \ {f} : order'[y] = order[y]
  BY <1>1 DEF CloseOrder, Rest
<1> QED
  BY <1>1, <1>2, <1>3, <1>4, OneUnsettled

LEMMA CancelUnsettled ==
    ASSUME Now, Rest, NEW f \in Flows, Cancel(f), NEW x \in Flows PROVE Unsettles(x, flow'[x])
<1>1. CASE flow[f].charger # None
  <2>1. /\ flow[f].status \in {"PendingQuote", "Reserved"}
        /\ UNCHANGED <<account, wallet, recharged, enabled, tariff, lastTicket>>
    BY <1>1, NowTyped DEF Cancel, Held
  <2>2. Release(f, "Idle")
    BY <1>1, <2>1 DEF Cancel, Release
  <2> QED
    BY <2>2, ReleaseUnsettled
<1>2. CASE flow[f].charger = None
  <2>1. /\ flow' = Ended(f, "Cancelled") /\ CloseOrder(f, "Cancelled")
        /\ flow[f].status \in {"Queued", "PendingQuote", "Reserved"}
    BY <1>2 DEF Cancel
  <2>2. flow'[f].status = "Cancelled" /\ \A y \in Flows \ {f} : flow'[y] = flow[y]
    BY <2>1, NowTyped, EndedFlow DEF Terminal
  <2>3. \A y \in Flows \ {f} : order'[y] = order[y]
    BY <2>1 DEF CloseOrder, Rest
  <2> QED
    BY <2>1, <2>2, <2>3 DEF Unsettles
<1> QED
  BY <1>1, <1>2

LEMMA MaintenanceUnsettled ==
    ASSUME Now, Rest, RunMaintenance, NEW x \in Flows PROVE Unsettles(x, flow'[x])
<1> DEFINE freed == {flow[f].charger : f \in TimedOut} \ {None}
           fl == [f \in Flows |-> IF f \in TimedOut
                    THEN [flow[f] EXCEPT !.status = "Expired", !.version = @ + 1,
                                         !.charger = None, !.overdue = FALSE]
                    ELSE flow[f]]
           ch == [c \in Chargers |-> IF c \in freed THEN "Idle" ELSE charger[c]]
           steps == [p \in Pools |-> Cardinality({f \in TimedOut : flow[f].pool = p})]
           T == UNION {StaleHeads(flow[f].pool) : f \in TimedOut}
<1>1. PICK g \in Grants(steps, IdleChargers \cup freed) : Serve(g, fl, ch, Without(T))
  BY DEF RunMaintenance
<1>2. x \notin TimedOut => fl[x] = flow[x] /\ order'[x] = order[x]
  BY DEF RunMaintenance
<1>3. x \in TimedOut => flow[x].status \in {"PendingQuote", "Reserved"}
  BY DEF TimedOut
<1>4. x \in TimedOut => fl[x].status = "Expired"
  <2>1. flow[x] \in FlowRecord
    BY NowTyped
  <2> QED
    BY <2>1 DEF FlowRecord
<1> HIDE DEF fl, ch, freed, steps, T
<1>5. Unsettles(x, fl[x])
  BY <1>2, <1>3, <1>4 DEF Unsettles
<1> QED
  BY <1>1, <1>2, <1>3, <1>5, ServedUnsettled

LEMMA CreateUnsettled ==
    ASSUME Now, NEW u, NEW p, NEW preferred, CreateFlow(u, p, preferred), NEW x \in Flows
    PROVE  Unsettles(x, flow'[x])
<1> DEFINE rest == Without(StaleHeads(p))
<1>1. UNCHANGED order
  BY DEF CreateFlow
<1>2. PICK g \in Grants(AllSteps({p}), IdleChargers) :
        \/ Serve(g, flow, charger, rest)
        \/ \E f \in UnusedFlows, c \in Chargers :
             Serve(g, [flow EXCEPT ![f] = NewFlow(u, p, "PendingQuote", c)],
                   [charger EXCEPT ![c] = "Occupied"], rest)
        \/ \E f \in UnusedFlows :
             Serve(g, [flow EXCEPT ![f] = NewFlow(u, p, "Queued", None)],
                   charger, [rest EXCEPT ![f] = lastTicket + 1])
  BY DEF CreateFlow, IdleChargers
<1> HIDE DEF rest
<1>3. ASSUME NEW f \in UnusedFlows, NEW s \in {"PendingQuote", "Queued"}, NEW c, NEW ch, NEW tk,
             Serve(g, [flow EXCEPT ![f] = NewFlow(u, p, s, c)], ch, tk)
      PROVE  Unsettles(x, flow'[x])
  <2> DEFINE fl == [flow EXCEPT ![f] = NewFlow(u, p, s, c)]
  <2>1. f \in Flows /\ flow[f].status = "Unused" /\ flow \in [Flows -> FlowRecord]
    BY NowTyped DEF UnusedFlows
  <2>2. fl[f].status = s /\ \A y \in Flows \ {f} : fl[y] = flow[y]
    BY <2>1 DEF NewFlow
  <2> HIDE DEF fl
  <2>3. Serve(g, fl, ch, tk)
    BY <1>3 DEF fl
  <2> QED
    BY <1>1, <2>1, <2>2, <2>3, OneUnsettled
<1> QED
  BY <1>1, <1>2, <1>3, RefitUnsettled

\* A flow and its order are completed together.
LEMMA CompletedTogether ==
    ASSUME NEW r \in FlowRecord, NEW o, Fits(r, o)
    PROVE  o.status = "Completed" <=> r.status = "Completed"
BY NoOrderIsEmpty DEF Fits, FlowRecord, Active, Terminal

\* The completed orders of u, by their flows.
LEMMA CompletedFlows ==
    ASSUME Now, Ordered, NEW u
    PROVE  /\ CompletedOrders(u) =
                {f \in Flows : flow[f].user = u /\ flow[f].status = "Completed"}
           /\ IsFiniteSet(CompletedOrders(u))
<1>1. \A f \in Flows : order[f].status = "Completed" <=> flow[f].status = "Completed"
  BY NowTyped, CompletedTogether DEF Ordered
<1>2. CompletedOrders(u) \subseteq Flows /\ IsFiniteSet(Flows)
  BY ChargeFlowAssumption DEF CompletedOrders
<1>3. IsFiniteSet(CompletedOrders(u))
  BY <1>2, FS_Subset
<1> QED
  BY <1>1, <1>3 DEF CompletedOrders

LEMMA CompletedFlowsNext ==
    ASSUME Now', Ordered', NEW u
    PROVE  CompletedOrders(u)' =
             {f \in Flows : flow'[f].user = u /\ flow'[f].status = "Completed"}
<1>1. \A f \in Flows : flow'[f] \in FlowRecord /\ Fits(flow'[f], order'[f])
  BY DEF Now, Good, Typed, Ordered
<1>2. \A f \in Flows : order'[f].status = "Completed" <=> flow'[f].status = "Completed"
  BY <1>1, CompletedTogether
<1> QED
  BY <1>2 DEF CompletedOrders

LEMMA SpentIs == ASSUME NEW u PROVE Spent(u) = SpentOf(order, CompletedOrders(u))
BY DEF Spent, SpentOf

LEMMA SpentIsNext == ASSUME NEW u PROVE Spent(u)' = SpentOf(order', CompletedOrders(u)')
BY DEF Spent, SpentOf, MapThenSumSet, MapThenFoldSet

LEMMA SpentKept ==
    ASSUME Now, Now', Ordered, Ordered', NEW u, \A x \in Flows : Unsettles(x, flow'[x])
    PROVE  Spent(u)' = Spent(u)
<1>1. CompletedOrders(u)' = CompletedOrders(u)
  <2>1. \A x \in Flows : /\ flow[x].status = "Completed" => flow'[x] = flow[x]
                         /\ flow'[x].status = "Completed" => flow[x].status = "Completed"
    BY DEF Unsettles
  <2>2. CompletedOrders(u)' = {f \in Flows : flow'[f].user = u /\ flow'[f].status = "Completed"}
    BY CompletedFlowsNext
  <2>3. CompletedOrders(u) = {f \in Flows : flow[f].user = u /\ flow[f].status = "Completed"}
    BY CompletedFlows
  <2> QED
    BY <2>1, <2>2, <2>3
<1>2. \A x \in CompletedOrders(u) : order'[x] = order[x]
  BY CompletedFlows DEF Unsettles
<1>3. SpentOf(order', CompletedOrders(u)) = SpentOf(order, CompletedOrders(u))
  BY <1>2, CompletedFlows, SpentSame
<1> QED
  BY <1>1, <1>3, SpentIs, SpentIsNext

Books(u) ==
    /\ wallet[u].balance + Spent(u) = recharged[u] + wallet[u].debt
    /\ wallet[u].debt = 0 \/ wallet[u].balance = 0

LEMMA BooksKept ==
    ASSUME Now, Now', Ordered, Ordered', UNCHANGED <<wallet, recharged>>, NEW u, Books(u),
           \A x \in Flows : Unsettles(x, flow'[x])
    PROVE  Books(u)'
<1>1. Spent(u)' = Spent(u)
  BY SpentKept
<1> QED
  BY <1>1 DEF Books

LEMMA SpentIsNat ==
    ASSUME Now, Rest, Ordered, NEW u PROVE Spent(u) \in Nat
<1>1. \A x \in CompletedOrders(u) : order[x].amount \in Nat
  BY DEF CompletedOrders, Rest, OrderRecord
<1> QED
  BY <1>1, CompletedFlows, SpentIs, SpentNat

LEMMA WalletTyped ==
    ASSUME Rest, NEW u \in Users
    PROVE  wallet[u].balance \in Nat /\ wallet[u].debt \in Nat /\ recharged[u] \in Nat
BY DEF Rest

\* A recharge pays debt first, and what is left is credited.
LEMMA RechargeBooks ==
    ASSUME Now, Now', Rest, Ordered, Ordered', NEW v \in Users, NEW a \in Amounts, Recharge(v, a),
           NEW u \in Users, Books(u)
    PROVE  Books(u)'
<1> DEFINE debtPaid == IF wallet[v].debt < a THEN wallet[v].debt ELSE a
           b == wallet[v].balance + (a - debtPaid)
           d == wallet[v].debt - debtPaid
           r == recharged[v] + a
<1>1. /\ wallet' = [wallet EXCEPT ![v].balance = b, ![v].debt = d]
      /\ recharged' = [recharged EXCEPT ![v] = r]
  BY DEF Recharge, Credited
<1>2. Spent(u)' = Spent(u)
  <2>1. \A x \in Flows : Unsettles(x, flow'[x])
    BY DEF Recharge, Unsettles
  <2> QED
    BY <2>1, SpentKept
<1>3. CASE u # v
  <2>1. wallet'[u] = wallet[u] /\ recharged'[u] = recharged[u]
    BY <1>1, <1>3 DEF Rest
  <2> QED
    BY <1>2, <2>1 DEF Books
<1>4. CASE u = v
  <2>1. /\ wallet[u].balance \in Nat /\ wallet[u].debt \in Nat /\ recharged[u] \in Nat
        /\ Spent(u) \in Nat /\ a \in Nat
    BY WalletTyped, SpentIsNat, ChargeFlowAssumption
  <2>2. b + Spent(u) = r + d /\ (d = 0 \/ b = 0)
    BY <1>4, <2>1 DEF Books
  <2> HIDE DEF b, d, r, debtPaid
  <2>3. wallet'[u].balance = b /\ wallet'[u].debt = d /\ recharged'[u] = r
    BY <1>1, <1>4 DEF Rest
  <2> QED
    BY <1>2, <2>2, <2>3 DEF Books
<1> QED
  BY <1>3, <1>4

\* A settlement adds its amount to what was spent.
LEMMA SettleBooks ==
    ASSUME Now, Now', Rest, Rest', Ordered, Ordered', NEW f \in Flows, NEW a \in Amounts, NEW next,
           SettleWith(f, a, next), NEW u \in Users, Books(u)
    PROVE  Books(u)'
<1> DEFINE v == flow[f].user
           done == [flow EXCEPT ![f].status = "Completed", ![f].version = @ + 1]
           b == wallet[v].balance - Paid(v, a)
           d == wallet[v].debt + (a - Paid(v, a))
<1>1. /\ flow[f].status \in {"Charging", "SettlementFailed"}
      /\ order' = [order EXCEPT ![f] = OrderPaid(order[f], "Completed", a, Paid(v, a))]
      /\ wallet' = [wallet EXCEPT ![v].balance = b, ![v].debt = d]
      /\ recharged' = recharged
  BY DEF SettleWith, Settleable, OrderPaid, Charged
<1>2. PICK g \in Grants(OneStep(flow[f].pool), IdleAfter(flow[f].charger, next)) :
        Serve(g, done, ChargerBecomes(flow[f].charger, next),
              Without(StaleHeads(flow[f].pool)))
  BY DEF SettleWith
<1>3. /\ flow \in [Flows -> FlowRecord] /\ flow[f] \in FlowRecord
      /\ order \in [Flows -> OrderRecord] /\ order[f] \in OrderRecord
  BY NowTyped DEF Rest
<1>4. done = [flow EXCEPT ![f] = Turned(flow[f], "Completed", flow[f].version + 1)]
  BY DEF Turned
<1> HIDE DEF done
<1>5. /\ done[f].status = "Completed" /\ done[f].user = v
      /\ \A x \in Flows \ {f} : done[x] = flow[x]
  BY <1>3, <1>4 DEF Turned, FlowRecord
<1>6. flow'[f] = done[f]
  <2>1. f \notin DOMAIN g
    BY <1>1, GrantFacts
  <2> QED
    BY <1>2, <2>1 DEF Serve
<1>7. order'[f].amount = a /\ \A x \in Flows \ {f} : order'[x] = order[x]
  BY <1>1, <1>3 DEF OrderPaid, OrderRecord
<1>8. \A x \in Flows \ {f} : Unsettles(x, flow'[x])
  <2> SUFFICES ASSUME NEW x \in Flows \ {f} PROVE Unsettles(x, flow'[x])
    OBVIOUS
  <2>1. Unsettles(x, done[x]) /\ done[x] = flow[x]
    BY <1>5, <1>7 DEF Unsettles
  <2> QED
    BY <1>2, <2>1, ServedUnsettled
<1>9. CompletedOrders(u)' = IF u = v THEN CompletedOrders(u) \cup {f} ELSE CompletedOrders(u)
  <2>1. \A x \in Flows \ {f} : x \in CompletedOrders(u)' <=> x \in CompletedOrders(u)
    BY <1>8, CompletedFlows, CompletedFlowsNext DEF Unsettles
  <2>2. f \in CompletedOrders(u)' <=> u = v
    BY <1>5, <1>6, CompletedFlowsNext
  <2>3. f \notin CompletedOrders(u)
    BY <1>1, CompletedFlows
  <2>4. CompletedOrders(u)' \subseteq Flows /\ CompletedOrders(u) \subseteq Flows
    BY DEF CompletedOrders
  <2> QED
    BY <2>1, <2>2, <2>3, <2>4
<1>10. f \notin CompletedOrders(u) /\ IsFiniteSet(CompletedOrders(u))
  BY <1>1, CompletedFlows
<1>11. SpentOf(order', CompletedOrders(u)) = Spent(u)
  <2>1. \A x \in CompletedOrders(u) : order'[x] = order[x]
    BY <1>7, <1>10 DEF CompletedOrders
  <2> QED
    BY <1>10, <2>1, SpentSame, SpentIs
<1>12. v \in Users
  BY <1>1, NowTyped DEF Solo, Active
<1> HIDE DEF v
<1>13. CASE u # v
  <2>1. wallet'[u] = wallet[u] /\ recharged'[u] = recharged[u]
    BY <1>1, <1>13 DEF Rest
  <2>2. Spent(u)' = Spent(u)
    BY <1>9, <1>11, <1>13, SpentIsNext
  <2> QED
    BY <2>1, <2>2 DEF Books
<1>14. CASE u = v
  <2> DEFINE S == CompletedOrders(u) \cup {f}
  <2>1. Spent(u)' = a + Spent(u)
    <3>1. IsFiniteSet(S) /\ f \in S /\ S \ {f} = CompletedOrders(u)
      BY <1>10, FS_AddElement
    <3>2. \A x \in S : order'[x].amount \in Nat
      BY DEF Rest, OrderRecord, CompletedOrders
    <3> HIDE DEF S
    <3>3. SpentOf(order', S) = order'[f].amount + SpentOf(order', S \ {f})
      BY <3>1, <3>2, SpentWithout
    <3> QED
      BY <1>7, <1>9, <1>11, <1>14, <3>1, <3>3, SpentIsNext DEF S
  <2>2. /\ wallet[u].balance \in Nat /\ wallet[u].debt \in Nat /\ recharged[u] \in Nat
        /\ Spent(u) \in Nat /\ a \in Nat
    BY WalletTyped, SpentIsNat, ChargeFlowAssumption
  <2>3. b + (a + Spent(u)) = recharged[u] + d /\ (d = 0 \/ b = 0)
    <3>1. b = wallet[u].balance - Paid(u, a) /\ d = wallet[u].debt + (a - Paid(u, a))
      BY <1>14
    <3>2. /\ wallet[u].balance + Spent(u) = recharged[u] + wallet[u].debt
          /\ wallet[u].debt = 0 \/ wallet[u].balance = 0
      BY DEF Books
    <3> HIDE DEF b, d
    <3>3. CASE wallet[u].balance < a
      BY <2>2, <3>1, <3>2, <3>3 DEF Paid
    <3>4. CASE ~(wallet[u].balance < a)
      BY <2>2, <3>1, <3>2, <3>4 DEF Paid
    <3> QED
      BY <3>3, <3>4
  <2> HIDE DEF b, d
  <2>4. wallet'[u].balance = b /\ wallet'[u].debt = d
    BY <1>1, <1>14 DEF Rest
  <2> QED
    BY <1>1, <2>1, <2>3, <2>4 DEF Books
<1> QED
  BY <1>13, <1>14

LEMMA NextBooks ==
    ASSUME IInv, IInv', Ordered, Ordered', Next, NEW u \in Users, Books(u) PROVE Books(u)'
<1> USE DEF IInv
<1>1. ASSUME UNCHANGED <<flow, order>>, NEW x \in Flows PROVE Unsettles(x, flow'[x])
  BY <1>1 DEF Unsettles
<1>2. ASSUME UNCHANGED <<flow, order, wallet, recharged>> PROVE Books(u)'
  BY <1>1, <1>2, BooksKept
<1>3. ASSUME NEW f \in Flows, NEW next, Release(f, next) PROVE Books(u)'
  <2>1. UNCHANGED <<wallet, recharged>>
    BY <1>3 DEF Release
  <2> QED
    BY <1>3, <2>1, ReleaseUnsettled, BooksKept
<1>4. CASE UserNext
  <2>1. ASSUME NEW v \in Users, NEW p, NEW c, CreateFlow(v, p, c) PROVE Books(u)'
    <3>1. UNCHANGED <<wallet, recharged>>
      BY <2>1 DEF CreateFlow
    <3> QED
      BY <2>1, <3>1, CreateUnsettled, BooksKept
  <2>2. ASSUME NEW f \in Flows, ConfirmQuote(f) \/ Start(f) \/ SettleFails(f) PROVE Books(u)'
    <3>1. UNCHANGED <<wallet, recharged>>
      BY <2>2 DEF ConfirmQuote, Start, SettleFails
    <3> QED
      BY <2>2, <3>1, TurnUnsettled, BooksKept
  <2>3. ASSUME NEW f \in Flows, Cancel(f) PROVE Books(u)'
    <3>1. UNCHANGED <<wallet, recharged>>
      BY <2>3 DEF Cancel
    <3> QED
      BY <2>3, <3>1, CancelUnsettled, BooksKept
  <2>4. ASSUME NEW f \in Flows, NEW a \in Amounts, Settle(f, a) PROVE Books(u)'
    BY <2>4, SettleBooks DEF Settle
  <2>5. ASSUME NEW v, Anonymize(v) PROVE Books(u)'
    BY <1>2, <2>5 DEF Anonymize
  <2> QED
    BY <1>4, <2>1, <2>2, <2>3, <2>4, <2>5, RechargeBooks DEF UserNext
<1>5. CASE ServerNext
  <2>1. CASE RunMaintenance
    <3>1. UNCHANGED <<wallet, recharged>>
      BY <2>1 DEF RunMaintenance
    <3> QED
      BY <2>1, <3>1, MaintenanceUnsettled, BooksKept
  <2>2. CASE RecoverAtStartup
    BY <1>2, <2>2 DEF RecoverAtStartup
  <2>3. CASE CompleteDueCommands
    <3>1. \A x \in Flows : Unsettles(x, flow'[x])
      BY <2>3, RefitUnsettled DEF CompleteDueCommands
    <3> QED
      BY <2>3, <3>1, BooksKept DEF CompleteDueCommands
  <2> QED
    BY <1>5, <2>1, <2>2, <2>3 DEF ServerNext
<1>6. CASE AdminNext
  <2>1. ASSUME NEW f \in Flows, NEW next, ForceRelease(f, next) PROVE Books(u)'
    BY <1>3, <2>1 DEF ForceRelease
  <2>2. ASSUME NEW c, NEW a \in Amounts, CreateRestartCommand(c, a) PROVE Books(u)'
    <3>1. CASE \E f \in ActiveOn(c) : Release(f, "Restarting") \/ SettleWith(f, a, "Restarting")
      BY <1>3, <3>1, SettleBooks DEF ActiveOn
    <3>2. CASE UNCHANGED <<flow, order, wallet, recharged>>
      BY <1>2, <3>2
    <3> QED
      BY <2>2, <3>1, <3>2 DEF CreateRestartCommand
  <2>3. ASSUME NEW c, NEW s, SetChargerStatus(c, s) PROVE Books(u)'
    <3>1. \A x \in Flows : Unsettles(x, flow'[x])
      BY <2>3, RefitUnsettled DEF SetChargerStatus
    <3> QED
      BY <2>3, <3>1, BooksKept DEF SetChargerStatus
  <2>4. ASSUME NEW s, EnableStation(s) PROVE Books(u)'
    <3>1. \A x \in Flows : Unsettles(x, flow'[x])
      BY <2>4, RefitUnsettled DEF EnableStation
    <3> QED
      BY <2>4, <3>1, BooksKept DEF EnableStation
  <2>5. ASSUME NEW s, NEW batch, CreateChargers(s, batch) PROVE Books(u)'
    <3>1. \A x \in Flows : Unsettles(x, flow'[x])
      BY <2>5, RefitUnsettled DEF CreateChargers
    <3> QED
      BY <2>5, <3>1, BooksKept DEF CreateChargers
  <2>6. ASSUME NEW s, NEW v, DisableStation(s) \/ UpdateUserStatus(v, s) PROVE Books(u)'
    BY <1>2, <2>6 DEF DisableStation, UpdateUserStatus
  <2> QED
    BY <1>6, <2>1, <2>2, <2>3, <2>4, <2>5, <2>6 DEF AdminNext
<1>7. CASE ClockNext
  <2>1. ASSUME NEW f \in Flows, DeadlinePasses(f) PROVE Books(u)'
    <3>1. UNCHANGED <<wallet, recharged>>
      BY <2>1 DEF DeadlinePasses
    <3> QED
      BY <2>1, <3>1, TurnUnsettled, BooksKept
  <2>2. ASSUME NEW c, NEW s, CommandIsDue(c) \/ TariffChanges(s) PROVE Books(u)'
    BY <1>2, <2>2 DEF CommandIsDue, TariffChanges
  <2> QED
    BY <1>7, <2>1, <2>2 DEF ClockNext
<1> QED
  BY <1>4, <1>5, <1>6, <1>7 DEF Next

LEMMA FirstBooks == ASSUME Init, NEW u \in Users PROVE Books(u)
<1>1. CompletedOrders(u) = {}
  BY NoOrderIsEmpty DEF Init, CompletedOrders
<1>2. IsFiniteSet({})
  BY FS_EmptySet
<1>3. Spent(u) = 0
  BY <1>1, <1>2, SpentStep, SpentIs
<1>4. wallet[u].balance = OpeningBalance /\ wallet[u].debt = 0 /\ recharged[u] = OpeningBalance
  BY DEF Init
<1> QED
  BY <1>3, <1>4, ChargeFlowAssumption DEF Books

\* What a user holds, less what the user owes, is what was paid in less what
\* the completed orders cost, and nobody holds money and owes it: recharges
\* and settlements move money in step with the orders, whatever else happens
\* to the flows meanwhile.
THEOREM BooksBalance == Spec => []MoneyConserved
<1>1. Init => Ordered /\ MoneyConserved
  <2>1. Init => Ordered
    BY NoOrderIsEmpty DEF Init, UnusedFlow, Ordered, Fits
  <2>2. Init => MoneyConserved
    BY FirstBooks DEF Books, MoneyConserved
  <2> QED
    BY <2>1, <2>2
<1>2. IInv /\ IInv' /\ Ordered /\ MoneyConserved /\ [Next]_vars => Ordered' /\ MoneyConserved'
  <2> SUFFICES ASSUME IInv, IInv', Ordered, MoneyConserved, [Next]_vars
               PROVE  Ordered' /\ MoneyConserved'
    OBVIOUS
  <2>1. Ordered'
    BY NextOrdered, OrderedSame DEF vars
  <2>2. \A u \in Users : Books(u)
    BY DEF Books, MoneyConserved
  <2>3. \A u \in Users : Books(u)'
    <3>1. CASE Next
      BY <2>1, <2>2, <3>1, NextBooks
    <3>2. CASE UNCHANGED vars
      BY <2>1, <2>2, <3>2, BooksKept DEF vars, Unsettles, IInv
    <3> QED
      BY <3>1, <3>2
  <2>4. MoneyConserved'
    BY <2>3 DEF Books, MoneyConserved
  <2> QED
    BY <2>1, <2>4
<1> QED
  BY <1>1, <1>2, Invariant, PTL DEF Spec

-----------------------------------------------------------------------------
\* Prices.  A product grows with its factors.
LEMMA ProductGrows ==
    ASSUME NEW a \in Int, NEW b \in Int, NEW k \in Nat, a <= b PROVE a * k <= b * k
OBVIOUS

LEMMA AdjustmentBounded ==
    ASSUME NEW waiting \in Int, NEW ml \in Int
    PROVE  /\ Adjustment(waiting, ml) \in Int
           /\ 0 - 2000 <= Adjustment(waiting, ml) /\ Adjustment(waiting, ml) <= 4000
BY DEF Adjustment, Clamped, QueueAdjustment, Smaller, Larger

\* The adjustments of the queue and of the models together move the service
\* price by no more than a fifth down and two fifths up, but for the rounding
\* to a cent; a price is never negative.
THEOREM ServicePriceBounded ==
    ASSUME NEW base \in Nat, NEW waiting \in Int, NEW ml \in Int
    PROVE  /\ ServicePrice(base, waiting, ml) \in Nat
           /\ 8000 * base - 5000 <= 10000 * ServicePrice(base, waiting, ml)
           /\ 10000 * ServicePrice(base, waiting, ml) <= 14000 * base + 5000
<1> DEFINE factor == 10000 + Adjustment(waiting, ml)
<1>1. factor \in Int /\ 8000 <= factor /\ factor <= 14000
  <2>1. /\ Adjustment(waiting, ml) \in Int
        /\ 0 - 2000 <= Adjustment(waiting, ml) /\ Adjustment(waiting, ml) <= 4000
    BY AdjustmentBounded
  <2> QED
    BY <2>1
<1> HIDE DEF factor
<1>2. 8000 * base <= base * factor /\ base * factor <= 14000 * base
  BY <1>1, ProductGrows
<1> DEFINE scaled == base * factor
<1>3. scaled \in Int
  BY <1>1
<1>4. ServicePrice(base, waiting, ml) = (scaled + 5000) \div 10000
  BY DEF ServicePrice, factor
<1> HIDE DEF scaled
<1>5. 8000 * base <= scaled /\ scaled <= 14000 * base
  BY <1>2 DEF scaled
<1> QED
  BY <1>3, <1>4, <1>5

\* A longer queue never makes the quote cheaper.
THEOREM QueueNeverCheapens ==
    ASSUME NEW base \in Nat, NEW ml \in Int, NEW short \in Int, NEW long \in Int, short <= long
    PROVE  ServicePrice(base, short, ml) <= ServicePrice(base, long, ml)
<1> DEFINE a == 10000 + Adjustment(short, ml)
           b == 10000 + Adjustment(long, ml)
<1>1. a \in Int /\ b \in Int /\ a <= b
  BY DEF Adjustment, Clamped, QueueAdjustment, Smaller, Larger
<1> HIDE DEF a, b
<1>2. a * base <= b * base
  BY <1>1, ProductGrows
<1> DEFINE x == base * a
           y == base * b
<1>3. x \in Int /\ y \in Int /\ x <= y
  BY <1>1, <1>2
<1>4. /\ ServicePrice(base, short, ml) = (x + 5000) \div 10000
      /\ ServicePrice(base, long, ml) = (y + 5000) \div 10000
  BY DEF ServicePrice, a, b
<1> HIDE DEF x, y
<1> QED
  BY <1>3, <1>4

LEMMA EnergyGrows ==
    ASSUME NEW power \in Nat, NEW s \in Nat, NEW t \in Nat, s <= t
    PROVE  /\ Energy(power, s) \in Nat /\ Energy(power, t) \in Nat
           /\ Energy(power, s) <= Energy(power, t)
<1> DEFINE x == power * s
           y == power * t
<1>1. x \in Nat /\ y \in Nat /\ x <= y
  BY ProductGrows
<1>2. Energy(power, s) = (x * 10) \div 36 /\ Energy(power, t) = (y * 10) \div 36
  BY DEF Energy
<1> HIDE DEF x, y
<1> QED
  BY <1>1, <1>2

LEMMA AmountGrows ==
    ASSUME NEW price \in Nat, NEW e \in Nat, NEW h \in Nat, e <= h
    PROVE  Amount(e, price) \in Nat /\ Amount(e, price) <= Amount(h, price)
<1> DEFINE x == e * price
           y == h * price
<1>1. x \in Nat /\ y \in Nat /\ x <= y
  BY ProductGrows
<1>2. Amount(e, price) = (x + 500000) \div 1000000 /\ Amount(h, price) = (y + 500000) \div 1000000
  BY DEF Amount
<1> HIDE DEF x, y
<1> QED
  BY <1>1, <1>2

\* BR-05, and what the user was shown: the amount is never negative and does
\* not fall as time goes on, so no settlement costs less than the progress
\* view said before it, however the clock stood at the start.
THEOREM NeverBelowShown ==
    ASSUME NEW start \in Int, NEW shown \in Int, NEW settled \in Int, shown <= settled,
           NEW scale \in Nat, NEW power \in Nat, NEW price \in Nat
    PROVE  /\ AmountAt(start, shown, scale, power, price) \in Nat
           /\ AmountAt(start, shown, scale, power, price) <=
                AmountAt(start, settled, scale, power, price)
<1> DEFINE s == Elapsed(start, shown, scale)
           t == Elapsed(start, settled, scale)
<1>1. (shown - start) * scale <= (settled - start) * scale
  BY ProductGrows
<1>2. s \in Nat /\ t \in Nat /\ s <= t
  BY <1>1 DEF Elapsed, Larger
<1> HIDE DEF s, t
<1>3. /\ Energy(power, s) \in Nat /\ Energy(power, t) \in Nat
      /\ Energy(power, s) <= Energy(power, t)
  BY <1>2, EnergyGrows
<1>4. /\ Amount(Energy(power, s), price) \in Nat
      /\ Amount(Energy(power, s), price) <= Amount(Energy(power, t), price)
  BY <1>3, AmountGrows
<1> QED
  BY <1>4 DEF AmountAt, s, t
=============================================================================

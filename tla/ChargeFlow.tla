----------------------------- MODULE ChargeFlow -----------------------------
(***************************************************************************)
(* The charging flow of the platform: a user asks for a charger, waits in  *)
(* the queue of a station and charger type or gets a priced quote,         *)
(* confirms it into a reservation, charges, and settles from the wallet.   *)
(* Administrators release, restart, disable and add chargers meanwhile.    *)
(*                                                                         *)
(* Every action below is one transaction of core/application:              *)
(* BEGIN IMMEDIATE serialises the writers, so transactions are atomic and  *)
(* interleave in every order.  Time is not a number here: what the code    *)
(* asks of the clock is only whether a deadline has passed, so a deadline  *)
(* is a Boolean that the environment sets once (DeadlinePasses,            *)
(* CommandIsDue).  The amount of a settlement is any member of Amounts.    *)
(***************************************************************************)
EXTENDS Naturals, FiniteSets, FiniteSetsExt, Functions

CONSTANTS
    Users,          \* accounts
    Stations, Types, \* stations, and the types of charger (AC slow, DC fast)
    Chargers,       \* charger ids
    PoolOf,         \* charger -> <<station, type>>
    Flows,          \* flow numbers the system can hand out
    None,           \* no user, no charger, no pool
    MinStart,       \* minimumStartBalanceCent
    Amounts,        \* what a charge may cost, in units of MinStart
    OpeningBalance, \* balance of a seeded account
    InitialChargers, \* the chargers that exist at first
    MaxRecharged,   \* bound: what a user may have paid in altogether
    MaxCommands,    \* bound: unfinished restart commands per charger
    ManagedUsers,   \* bound: the users who may be frozen or deleted
    AdminStatuses,  \* bound: the statuses administrators give to chargers
    TariffLapses    \* whether a station may be left without a tariff

Pools == Stations \X Types

ASSUME ChargeFlowAssumption ==
    /\ PoolOf \in [Chargers -> Pools]
    /\ None \notin Users \cup Chargers \cup Pools
    /\ IsFiniteSet(Flows) /\ IsFiniteSet(Chargers)
    /\ MinStart \in Nat /\ OpeningBalance \in Nat
    /\ Amounts \subseteq Nat
    /\ InitialChargers \subseteq Chargers
    /\ MaxRecharged \in Nat /\ MaxCommands \in Nat
    /\ AdminStatuses \subseteq {"Idle", "Faulty", "Disabled"}
    /\ ManagedUsers \subseteq Users
    /\ TariffLapses \in BOOLEAN

VARIABLES
    account,        \* user_account.status / deleted
    wallet,         \* wallet_account
    recharged,      \* sum of the user's recharge_order rows (and the opening balance)
    hasActiveFlow,  \* user_account.has_active_flow, the mirror that guards deletion
    enabled,        \* station.enabled
    tariff,         \* whether the station's region has a tariff in effect
    charger,        \* charger.status
    commands,       \* unfinished device_command rows: not yet due, and due
    flow,           \* charging_flow
    ticket,         \* flow_queue.sequence of the flow, 0 when it has no row
    lastTicket,     \* the AUTOINCREMENT counter of flow_queue
    order           \* charging_order of the flow

vars == <<account, wallet, recharged, hasActiveFlow, enabled, tariff, charger,
          commands, flow, ticket, lastTicket, order>>

ChargerStatus == {"Absent", "Idle", "Occupied", "Faulty", "Disabled", "Restarting"}
Active   == {"Queued", "PendingQuote", "Reserved", "Charging", "SettlementFailed"}
Holding  == Active \ {"Queued"}
Terminal == {"Completed", "Cancelled", "Expired"}

FlowRecord == [user: Users \cup {None}, pool: Pools \cup {None},
               status: {"Unused"} \cup Active \cup Terminal,
               charger: Chargers \cup {None}, version: Nat, overdue: BOOLEAN]
OrderRecord == [status: {"None"} \cup Active \cup Terminal, started: BOOLEAN,
                amount: Nat, paid: Nat]

TypeOK ==
    /\ account \in [Users -> {"Active", "Frozen", "Deleted"}]
    /\ wallet \in [Users -> [balance: Nat, debt: Nat]]
    /\ recharged \in [Users -> Nat]
    /\ hasActiveFlow \in [Users -> BOOLEAN]
    /\ enabled \in [Stations -> BOOLEAN]
    /\ tariff \in [Stations -> BOOLEAN]
    /\ charger \in [Chargers -> ChargerStatus]
    /\ commands \in [Chargers -> [waiting: Nat, due: Nat]]
    /\ flow \in [Flows -> FlowRecord]
    /\ ticket \in [Flows -> Nat]
    /\ lastTicket \in Nat
    /\ order \in [Flows -> OrderRecord]

UnusedFlow == [user |-> None, pool |-> None, status |-> "Unused",
               charger |-> None, version |-> 0, overdue |-> FALSE]
NoOrder == [status |-> "None", started |-> FALSE, amount |-> 0, paid |-> 0]

Init ==
    /\ account = [u \in Users |-> "Active"]
    /\ wallet = [u \in Users |-> [balance |-> OpeningBalance, debt |-> 0]]
    /\ recharged = [u \in Users |-> OpeningBalance]
    /\ hasActiveFlow = [u \in Users |-> FALSE]
    /\ enabled = [s \in Stations |-> TRUE]
    /\ tariff = [s \in Stations |-> TRUE]
    /\ charger = [c \in Chargers |-> IF c \in InitialChargers THEN "Idle" ELSE "Absent"]
    /\ commands = [c \in Chargers |-> [waiting |-> 0, due |-> 0]]
    /\ flow = [f \in Flows |-> UnusedFlow]
    /\ ticket = [f \in Flows |-> 0]
    /\ lastTicket = 0
    /\ order = [f \in Flows |-> NoOrder]

-----------------------------------------------------------------------------
(***************************************************************************)
(* Promotion of the queue.                                                 *)
(***************************************************************************)
IdleChargers == {c \in Chargers : charger[c] = "Idle"}
IsActive(f)  == flow[f].status \in Active
HasActive(u) == \E f \in Flows : flow[f].user = u /\ IsActive(f)
\* Mutation of ActiveOn: a quote is not taken for a holder.
BookedOn(c) == {f \in Flows : flow[f].charger = c /\ IsActive(f) /\ flow[f].status # "PendingQuote"}
ActiveOn(c)  == {f \in Flows : flow[f].charger = c /\ IsActive(f)}

InQueue(p) == {f \in Flows : ticket[f] > 0 /\ flow[f].pool = p}
Waiting(p) == {f \in InQueue(p) : flow[f].status = "Queued"}

\* Rows ahead of the first queued flow whose flow is no longer queued.
StaleHeads(p) == {f \in InQueue(p) \ Waiting(p) : \A w \in Waiting(p) : ticket[f] < ticket[w]}

(***************************************************************************)
(* What repeated promotion steps may hand out when the chargers of free    *)
(* are idle and at most steps[p] steps are taken for pool p: a grant maps  *)
(* the flows served to their chargers.  The flows at the front of the      *)
(* queue are served; a step does nothing without a tariff, an idle charger *)
(* of the pool or a waiting flow.  The code takes the idle charger with    *)
(* the lowest id; here any idle charger may be taken.                      *)
(***************************************************************************)
Grants(steps, free) ==
    {g \in UNION {Injection(S, free) : S \in SUBSET UNION {Waiting(p) : p \in Pools}} :
        \A p \in Pools :
            LET served == DOMAIN g \cap Waiting(p)
                idle   == {c \in free : PoolOf[c] = p}
                limit  == IF tariff[p[1]] THEN steps[p] ELSE 0
            IN /\ \A f \in served : g[f] \in idle
               /\ \A f \in served, w \in Waiting(p) \ served : ticket[f] < ticket[w]
               /\ Cardinality(served) <= limit
               /\ \/ served = Waiting(p)
                  \/ idle \subseteq Range(g)
                  \/ Cardinality(served) = limit}

NoStep       == [p \in Pools |-> 0]
OneStep(p)   == [NoStep EXCEPT ![p] = 1]
\* Mutations of AllSteps: no promotion at all, or one step instead of the loop.
NoPromotion(P) == NoStep
StepOnce(P) == [p \in Pools |-> IF p \in P THEN 1 ELSE 0]
AllSteps(P)  == [p \in Pools |-> IF p \in P THEN Cardinality(Flows) ELSE 0]

\* Mutation of Without: rows are not deleted.
KeepsRows(S) == ticket
\* The queue without the rows of S.
Without(S) == [f \in Flows |-> IF f \in S THEN 0 ELSE ticket[f]]

\* The flows fl, chargers ch and queue tk, with the grant g carried out.
Serve(g, fl, ch, tk) ==
    /\ flow' = [f \in Flows |->
                  IF f \in DOMAIN g
                  THEN [fl[f] EXCEPT !.status = "PendingQuote", !.charger = g[f],
                                     !.version = @ + 1, !.overdue = FALSE]
                  ELSE fl[f]]
    /\ charger' = [c \in Chargers |-> IF c \in Range(g) THEN "Occupied" ELSE ch[c]]
    /\ ticket' = [f \in Flows |-> IF f \in DOMAIN g THEN 0 ELSE tk[f]]

-----------------------------------------------------------------------------
(***************************************************************************)
(* The user's operations.                                                  *)
(***************************************************************************)
\* Mutation of MayOccupy: the account is not checked.
MayOccupyDeleted(u) == wallet[u].debt = 0 /\ wallet[u].balance >= MinStart
MayOccupy(u) ==
    /\ account[u] = "Active"
    /\ wallet[u].debt = 0
    /\ wallet[u].balance >= MinStart

NewFlow(u, p, status, c) ==
    [user |-> u, pool |-> p, status |-> status, charger |-> c, version |-> 1,
     overdue |-> FALSE]

UnusedFlows == {f \in Flows : flow[f].status = "Unused"}

\* createFlow: those who wait are served first; then the preferred charger
\* (or any) is taken, or the request is refused, or it joins the queue.
CreateFlow(u, p, preferred) ==
    /\ MayOccupy(u) /\ ~HasActive(u)
    /\ enabled[p[1]] /\ tariff[p[1]]
    /\ \E g \in Grants(AllSteps({p}), IdleChargers) :
        LET left == {c \in IdleChargers : PoolOf[c] = p} \ Range(g)
            rest == Without(StaleHeads(p))
        IN \/ /\ preferred # None /\ preferred \notin left
              /\ Serve(g, flow, charger, rest)
              /\ UNCHANGED <<lastTicket, hasActiveFlow>>
           \/ \E f \in UnusedFlows, c \in left :
              /\ preferred \in {None, c}
              /\ Serve(g, [flow EXCEPT ![f] = NewFlow(u, p, "PendingQuote", c)],
                       [charger EXCEPT ![c] = "Occupied"], rest)
              /\ hasActiveFlow' = [hasActiveFlow EXCEPT ![u] = TRUE]
              /\ UNCHANGED lastTicket
           \/ \E f \in UnusedFlows :
              /\ preferred = None /\ left = {}
              /\ Serve(g, [flow EXCEPT ![f] = NewFlow(u, p, "Queued", None)],
                       charger, [rest EXCEPT ![f] = lastTicket + 1])
              /\ lastTicket' = lastTicket + 1
              /\ hasActiveFlow' = [hasActiveFlow EXCEPT ![u] = TRUE]
    /\ UNCHANGED <<account, wallet, recharged, enabled, tariff, commands, order>>

ConfirmQuote(f) ==
    /\ flow[f].status = "PendingQuote" /\ ~flow[f].overdue
    /\ MayOccupy(flow[f].user)
    /\ charger[flow[f].charger] = "Occupied"
    /\ tariff[flow[f].pool[1]]
    /\ flow' = [flow EXCEPT ![f].status = "Reserved", ![f].version = @ + 1]
    /\ order' = [order EXCEPT ![f].status = "Reserved"]
    /\ UNCHANGED <<account, wallet, recharged, hasActiveFlow, enabled, tariff, charger,
                   commands, ticket, lastTicket>>

Start(f) ==
    /\ flow[f].status = "Reserved" /\ ~flow[f].overdue
    /\ MayOccupy(flow[f].user)
    /\ order[f].status # "None"
    /\ flow[f].charger # None /\ charger[flow[f].charger] = "Occupied"
    /\ flow' = [flow EXCEPT ![f].status = "Charging", ![f].version = @ + 1]
    /\ order' = [order EXCEPT ![f].status = "Charging", ![f].started = TRUE]
    /\ UNCHANGED <<account, wallet, recharged, hasActiveFlow, enabled, tariff, charger,
                   commands, ticket, lastTicket>>

\* Mutation of CloseOrder: the order stays open.
LeaveOrderOpen(f, status) == order' = order

\* What cancelling, releasing and expiring have in common: the flow ends
\* without its charger, and an order that was still open ends with it.
Ended(f, status) ==
    [flow EXCEPT ![f].status = status, ![f].version = @ + 1, ![f].charger = None,
                 ![f].overdue = FALSE]
CloseOrder(f, status) ==
    order' = [order EXCEPT ![f].status = IF @ \in Active THEN status ELSE @]
ChargerBecomes(c, status) == [charger EXCEPT ![c] = status]
IdleAfter(c, status) ==
    IF status = "Idle" THEN IdleChargers \cup {c} ELSE IdleChargers \ {c}

\* The service does not ask for an active account here: a frozen user's flow
\* can still be cancelled.
Cancel(f) ==
    /\ flow[f].status \in {"Queued", "PendingQuote", "Reserved"}
    /\ LET c == flow[f].charger IN
       IF c # None
       THEN \E g \in Grants(OneStep(flow[f].pool), IdleAfter(c, "Idle")) :
              Serve(g, Ended(f, "Cancelled"), ChargerBecomes(c, "Idle"),
                    Without({f} \cup StaleHeads(flow[f].pool)))
       ELSE /\ flow' = Ended(f, "Cancelled")
            /\ ticket' = Without({f})
            /\ UNCHANGED charger
    /\ CloseOrder(f, "Cancelled")
    /\ hasActiveFlow' = [hasActiveFlow EXCEPT ![flow[f].user] = FALSE]
    /\ UNCHANGED <<account, wallet, recharged, enabled, tariff, commands, lastTicket>>

(***************************************************************************)
(* Settlement, by the user (settle) or ahead of a restart                  *)
(* (adminControlledSettle): the wallet pays what it holds, the rest is     *)
(* debt, and the charger goes to the status next.  The completed flow      *)
(* keeps its charger.  Status 50 lives and dies inside the transaction.    *)
(***************************************************************************)
Settleable(f) == flow[f].status \in {"Charging", "SettlementFailed"}

\* Mutation of Paid: the wallet is overdrawn.
PaidInFull(u, a) == a
Paid(u, a) == IF wallet[u].balance < a THEN wallet[u].balance ELSE a

Charged(u, a) == [wallet EXCEPT ![u].balance = @ - Paid(u, a),
                                ![u].debt = @ + (a - Paid(u, a))]

SettleWith(f, a, next) ==
    LET u == flow[f].user
        c == flow[f].charger
        done == [flow EXCEPT ![f].status = "Completed", ![f].version = @ + 1]
    IN /\ Settleable(f)
       /\ order[f].started
       /\ wallet' = Charged(u, a)
       /\ order' = [order EXCEPT ![f].status = "Completed", ![f].amount = a,
                                 ![f].paid = Paid(u, a)]
       /\ hasActiveFlow' = [hasActiveFlow EXCEPT ![u] = FALSE]
       /\ \E g \in Grants(OneStep(flow[f].pool), IdleAfter(c, next)) :
            Serve(g, done, ChargerBecomes(c, next), Without(StaleHeads(flow[f].pool)))
       /\ UNCHANGED <<account, recharged, enabled, tariff, lastTicket>>

Settle(f, a) == SettleWith(f, a, "Idle") /\ UNCHANGED commands

\* A step of settle threw: its transaction rolled back and a second one
\* records status 80 with the version unchanged.  That is the contract of settle
\* and what it does when called directly; the route, whose transaction swallows
\* this one, breaks it (SettlementTxn).
SettleFails(f) ==
    /\ Settleable(f)
    /\ flow' = [flow EXCEPT ![f].status = "SettlementFailed"]
    /\ order' = [order EXCEPT ![f].status = IF @ = "None" THEN @ ELSE "SettlementFailed"]
    /\ hasActiveFlow' = [hasActiveFlow EXCEPT ![flow[f].user] = TRUE]
    /\ UNCHANGED <<account, wallet, recharged, enabled, tariff, charger, commands,
                   ticket, lastTicket>>

\* Mutation of Credited: the debt paid off is credited too.
CreditedInFull(u, a) ==
    LET debtPaid == IF wallet[u].debt < a THEN wallet[u].debt ELSE a IN
    [wallet EXCEPT ![u].balance = @ + a, ![u].debt = @ - debtPaid]
\* WalletService::recharge: debt is paid off first.
Credited(u, a) ==
    LET debtPaid == IF wallet[u].debt < a THEN wallet[u].debt ELSE a IN
    [wallet EXCEPT ![u].balance = @ + (a - debtPaid), ![u].debt = @ - debtPaid]

Recharge(u, a) ==
    /\ a > 0 /\ recharged[u] + a <= MaxRecharged
    /\ wallet' = Credited(u, a)
    /\ recharged' = [recharged EXCEPT ![u] = @ + a]
    /\ UNCHANGED <<account, hasActiveFlow, enabled, tariff, charger, commands, flow,
                   ticket, lastTicket, order>>

\* deleteAccount / anonymize: only the mirror is asked.
Anonymize(u) ==
    /\ account[u] # "Deleted" /\ ~hasActiveFlow[u]
    /\ account' = [account EXCEPT ![u] = "Deleted"]
    /\ UNCHANGED <<wallet, recharged, hasActiveFlow, enabled, tariff, charger, commands,
                   flow, ticket, lastTicket, order>>

-----------------------------------------------------------------------------
(***************************************************************************)
(* The server's own operations.                                            *)
(***************************************************************************)
\* Mutation of TimedOut: reservations are not looked at.
TimedOutQuotes == {f \in Flows : flow[f].status = "PendingQuote" /\ flow[f].overdue}
TimedOut == {f \in Flows : flow[f].status \in {"PendingQuote", "Reserved"} /\ flow[f].overdue}

\* runMaintenance: every flow past its deadline ends in one transaction, each
\* followed by one promotion step of its pool.
RunMaintenance ==
    LET freed == {flow[f].charger : f \in TimedOut} \ {None}
        steps == [p \in Pools |-> Cardinality({f \in TimedOut : flow[f].pool = p})]
        stale == UNION {StaleHeads(flow[f].pool) : f \in TimedOut}
    IN /\ TimedOut # {}
       /\ \E g \in Grants(steps, IdleChargers \cup freed) :
            Serve(g,
                  [f \in Flows |-> IF f \in TimedOut
                     THEN [flow[f] EXCEPT !.status = "Expired", !.version = @ + 1,
                                          !.charger = None, !.overdue = FALSE]
                     ELSE flow[f]],
                  [c \in Chargers |-> IF c \in freed THEN "Idle" ELSE charger[c]],
                  Without(stale))
       /\ order' = [f \in Flows |->
                      IF f \in TimedOut /\ order[f].status # "None"
                      THEN [order[f] EXCEPT !.status = "Expired"] ELSE order[f]]
       /\ hasActiveFlow' = [u \in Users |->
                      hasActiveFlow[u] /\ \A f \in TimedOut : flow[f].user # u]
       /\ UNCHANGED <<account, wallet, recharged, enabled, tariff, commands, lastTicket>>

\* Mutation of RepairedMirror: ended flows count.
MirrorOfAnyFlow == [u \in Users |-> hasActiveFlow[u] \/ \E f \in Flows : flow[f].user = u]
RepairedMirror == [u \in Users |-> hasActiveFlow[u] \/ HasActive(u)]

\* recoverAtStartup.  A crash loses nothing else of this state: it is all in
\* the database, and a transaction cut short is rolled back.
RecoverAtStartup ==
    /\ hasActiveFlow' = RepairedMirror
    /\ UNCHANGED <<account, wallet, recharged, enabled, tariff, charger, commands, flow,
                   ticket, lastTicket, order>>

\* Every due restart command: a charger that is still restarting becomes idle
\* and its queue is served; for any other charger the command fails.
DueChargers == {c \in Chargers : commands[c].due > 0}
\* Mutation of ComingUp: the status is mistaken.
DueAndDisabled == {c \in DueChargers : charger[c] = "Disabled"}
ComingUp    == {c \in DueChargers : charger[c] = "Restarting"}

CompleteDueCommands ==
    LET pools == {PoolOf[c] : c \in ComingUp}
    IN /\ DueChargers # {}
       /\ commands' = [c \in Chargers |-> [commands[c] EXCEPT !.due = 0]]
       /\ \E g \in Grants(AllSteps(pools), IdleChargers \cup ComingUp) :
            Serve(g, flow, [c \in Chargers |-> IF c \in ComingUp THEN "Idle" ELSE charger[c]],
                  Without(UNION {StaleHeads(p) : p \in pools}))
       /\ UNCHANGED <<account, wallet, recharged, hasActiveFlow, enabled, tariff,
                      lastTicket, order>>

-----------------------------------------------------------------------------
(***************************************************************************)
(* The administrators' operations.                                         *)
(***************************************************************************)
\* adminForceRelease: a quote or reservation is withdrawn and its charger is
\* given the status next.
Release(f, next) ==
    LET c == flow[f].charger IN
    /\ flow[f].status \in {"PendingQuote", "Reserved"}
    /\ \E g \in Grants(OneStep(flow[f].pool), IdleAfter(c, next)) :
         Serve(g, Ended(f, "Cancelled"), ChargerBecomes(c, next),
               Without({f} \cup StaleHeads(flow[f].pool)))
    /\ CloseOrder(f, "Cancelled")
    /\ hasActiveFlow' = [hasActiveFlow EXCEPT ![flow[f].user] = FALSE]
    /\ UNCHANGED <<account, wallet, recharged, enabled, tariff, lastTicket>>

\* The REST route offers 0, 2 and 3 as the next status, never 4.
ForceRelease(f, next) == Release(f, next) /\ UNCHANGED commands

\* createRestartCommand: whoever holds the charger is released or settled
\* first, and the command is due two seconds later.
CreateRestartCommand(c, a) ==
    /\ charger[c] \in {"Idle", "Occupied", "Faulty"}
    /\ commands[c].waiting + commands[c].due < MaxCommands
    /\ commands' = [commands EXCEPT ![c].waiting = @ + 1]
    /\ \/ /\ ActiveOn(c) = {}
          /\ charger' = [charger EXCEPT ![c] = "Restarting"]
          /\ UNCHANGED <<account, wallet, recharged, hasActiveFlow, enabled, tariff, flow,
                         ticket, lastTicket, order>>
       \/ \E f \in ActiveOn(c) :
            \/ Release(f, "Restarting")
            \/ SettleWith(f, a, "Restarting")

SetChargerStatus(c, target) ==
    /\ charger[c] # "Absent" /\ ActiveOn(c) = {}
    /\ LET pools == IF target = "Idle" THEN {PoolOf[c]} ELSE {}
       IN \E g \in Grants(AllSteps(pools), IdleAfter(c, target)) :
            Serve(g, flow, ChargerBecomes(c, target),
                  Without(UNION {StaleHeads(p) : p \in pools}))
    /\ UNCHANGED <<account, wallet, recharged, hasActiveFlow, enabled, tariff, commands,
                   lastTicket, order>>

\* createChargers: a batch of new chargers of one station.
CreateChargers(s, batch) ==
    /\ batch # {} /\ \A c \in batch : charger[c] = "Absent" /\ PoolOf[c][1] = s
    /\ \E g \in Grants(AllSteps({s} \X Types), IdleChargers \cup batch) :
         Serve(g, flow, [c \in Chargers |-> IF c \in batch THEN "Idle" ELSE charger[c]],
               Without(UNION {StaleHeads(p) : p \in {s} \X Types}))
    /\ UNCHANGED <<account, wallet, recharged, hasActiveFlow, enabled, tariff, commands,
                   lastTicket, order>>

EnableStation(s) ==
    /\ enabled' = [enabled EXCEPT ![s] = TRUE]
    /\ \E g \in Grants(AllSteps({s} \X Types), IdleChargers) :
         Serve(g, flow, charger, Without(UNION {StaleHeads(p) : p \in {s} \X Types}))
    /\ UNCHANGED <<account, wallet, recharged, hasActiveFlow, tariff, commands, lastTicket, order>>

\* Mutation of StationHasActiveFlow: those who wait are overlooked.
StationHasHolder(s) == \E f \in Flows : flow[f].status \in Holding /\ flow[f].pool[1] = s
StationHasActiveFlow(s) == \E f \in Flows : IsActive(f) /\ flow[f].pool[1] = s

DisableStation(s) ==
    /\ ~StationHasActiveFlow(s)
    /\ enabled' = [enabled EXCEPT ![s] = FALSE]
    /\ UNCHANGED <<account, wallet, recharged, hasActiveFlow, tariff, charger, commands,
                   flow, ticket, lastTicket, order>>

\* updateManagedUserStatus: freezing leaves the user's flow as it is.
UpdateUserStatus(u, status) ==
    /\ account[u] # "Deleted"
    /\ account' = [account EXCEPT ![u] = status]
    /\ UNCHANGED <<wallet, recharged, hasActiveFlow, enabled, tariff, charger, commands,
                   flow, ticket, lastTicket, order>>

-----------------------------------------------------------------------------
(***************************************************************************)
(* The clock: deadlines pass, commands become due, and tariffs begin and   *)
(* end (createTariff, updateStation and the end of a tariff's period).     *)
(***************************************************************************)
DeadlinePasses(f) ==
    /\ flow[f].status \in {"PendingQuote", "Reserved"} /\ ~flow[f].overdue
    /\ flow' = [flow EXCEPT ![f].overdue = TRUE]
    /\ UNCHANGED <<account, wallet, recharged, hasActiveFlow, enabled, tariff, charger,
                   commands, ticket, lastTicket, order>>

CommandIsDue(c) ==
    /\ commands[c].waiting > 0
    /\ commands' = [commands EXCEPT ![c] = [waiting |-> @.waiting - 1, due |-> @.due + 1]]
    /\ UNCHANGED <<account, wallet, recharged, hasActiveFlow, enabled, tariff, charger,
                   flow, ticket, lastTicket, order>>

TariffChanges(s) ==
    /\ TariffLapses
    /\ tariff' = [tariff EXCEPT ![s] = ~@]
    /\ UNCHANGED <<account, wallet, recharged, hasActiveFlow, enabled, charger, commands,
                   flow, ticket, lastTicket, order>>

UserNext ==
    \/ \E u \in Users : \/ \E p \in Pools, c \in Chargers \cup {None} : CreateFlow(u, p, c)
                        \/ \E a \in Amounts : Recharge(u, a)
                        \/ u \in ManagedUsers /\ Anonymize(u)
    \/ \E f \in Flows : \/ ConfirmQuote(f) \/ Cancel(f) \/ Start(f) \/ SettleFails(f)
                        \/ \E a \in Amounts : Settle(f, a)
ServerNext == RunMaintenance \/ RecoverAtStartup \/ CompleteDueCommands
AdminNext ==
    \/ \E f \in Flows, next \in AdminStatuses : ForceRelease(f, next)
    \/ \E c \in Chargers : \/ \E a \in Amounts : CreateRestartCommand(c, a)
                           \/ \E s \in AdminStatuses : SetChargerStatus(c, s)
    \/ \E s \in Stations : \/ EnableStation(s) \/ DisableStation(s)
                           \/ \E batch \in SUBSET Chargers : CreateChargers(s, batch)
    \/ \E u \in ManagedUsers, status \in {"Active", "Frozen"} : UpdateUserStatus(u, status)
ClockNext ==
    \/ \E f \in Flows : DeadlinePasses(f)
    \/ \E c \in Chargers : CommandIsDue(c)
    \/ \E s \in Stations : TariffChanges(s)

Next == UserNext \/ ServerNext \/ AdminNext \/ ClockNext

Spec == Init /\ [][Next]_vars

\* The 15 second tick runs maintenance and the due commands, and time passes.
\* Nothing makes users or administrators act.
Fairness ==
    /\ WF_vars(RunMaintenance)
    /\ WF_vars(CompleteDueCommands)
    /\ \A f \in Flows : WF_vars(DeadlinePasses(f))
    /\ \A c \in Chargers : WF_vars(CommandIsDue(c))

FairSpec == Spec /\ Fairness

-----------------------------------------------------------------------------
(***************************************************************************)
(* What the charging flow guarantees.                                      *)
(***************************************************************************)
\* BR-03: a charger is occupied exactly when one flow holds it, a flow that
\* holds one holds a charger of its own pool, and a waiting flow holds none.
\* Releases, promotions, restarts and expiries must hand it on without a gap.
HoldersOf(c) == {f \in Flows : flow[f].charger = c /\ flow[f].status \in Holding}
ChargerHeldByOne ==
    /\ \A c \in Chargers :
         /\ charger[c] = "Occupied" <=> HoldersOf(c) # {}
         /\ \A f, g \in HoldersOf(c) : f = g
    /\ \A f \in Flows :
         /\ flow[f].status \in Holding =>
              /\ flow[f].charger \in Chargers
              /\ PoolOf[flow[f].charger] = flow[f].pool
         /\ flow[f].status = "Queued" => flow[f].charger = None

\* BR-02: a user has at most one flow that is neither settled, cancelled nor
\* expired, a failed settlement counting as unsettled.
Unsettled(u) == {f \in Flows : flow[f].user = u /\ flow[f].status \in Active}
OneActiveFlowPerUser ==
    \A u \in Users : \A f, g \in Unsettled(u) : f = g

\* flow_queue holds exactly the queued flows, each at a place of its own: no
\* row outlives its flow's turn and no waiting flow loses its row.
QueueIsExactlyTheQueued ==
    /\ \A f \in Flows : ticket[f] > 0 <=> flow[f].status = "Queued"
    /\ \A f, g \in Flows : ticket[f] = ticket[g] /\ ticket[f] > 0 => f = g
    /\ \A f \in Flows : ticket[f] <= lastTicket

\* The order of a flow exists once its quote was confirmed and then carries
\* the flow's own status; it has started exactly from charging on.
OrderMatchesFlow ==
    \A f \in Flows :
        /\ flow[f].status \in {"Reserved", "Charging", "SettlementFailed", "Completed"} =>
             order[f].status = flow[f].status
        /\ flow[f].status \in {"Cancelled", "Expired"} =>
             order[f].status \in {"None", flow[f].status}
        /\ flow[f].status \in {"Unused", "Queued", "PendingQuote"} => order[f] = NoOrder
        /\ order[f].started <=> order[f].status \in {"Charging", "SettlementFailed", "Completed"}

\* A deleted account leaves nothing open behind it.
DeletedUsersAreQuiet == \A u \in Users : account[u] = "Deleted" => Unsettled(u) = {}

\* The mirror flag on the account, which is all that account deletion looks
\* at, says exactly whether the user has an active flow, so that no deleted
\* user has one; and every column keeps its type, so no wallet goes below zero.
MirrorExact ==
    /\ TypeOK
    /\ \A u \in Users : hasActiveFlow[u] <=> Unsettled(u) # {}
    /\ DeletedUsersAreQuiet

\* No money appears or vanishes: what a user has, less what the user owes, is
\* what was paid in less what the completed orders cost.  BR-06: debt is what
\* the balance could not pay, so both are never positive.
CompletedOrders(u) == {f \in Flows : flow[f].user = u /\ order[f].status = "Completed"}
Spent(u) == MapThenSumSet(LAMBDA f : order[f].amount, CompletedOrders(u))
MoneyConserved ==
    \A u \in Users :
        /\ wallet[u].balance + Spent(u) = recharged[u] + wallet[u].debt
        /\ wallet[u].debt = 0 \/ wallet[u].balance = 0

\* BR-10: a disabled station serves nobody and nobody waits there.
DisabledStationIsQuiet ==
    \A f \in Flows : flow[f].status \in Active => enabled[flow[f].pool[1]]

\* As long as tariffs do not lapse, every way a charger can become idle also
\* serves the queue: none stays idle while a flow waits for its pool.
NoIdleWhileWaiting ==
    \A p \in Pools : Waiting(p) # {} => {c \in IdleChargers : PoolOf[c] = p} = {}

\* Chargers come back.  None is held by a quote or a reservation for ever, which
\* is confirmed and used, withdrawn or expires; and every restart ends.
ChargersComeBack ==
    /\ \A f \in Flows : flow[f].status \in {"PendingQuote", "Reserved"} ~>
                        flow[f].status \notin {"PendingQuote", "Reserved"}
    /\ \A c \in Chargers : charger[c] = "Restarting" ~> charger[c] # "Restarting"

\* charge_flow_service.h, "Runtime tick entries: expire quotes and
\* reservations, promote the FIFO queues": a flow that waits while a charger
\* of its pool is idle and priced is served by the tick.
Servable(p) ==
    Waiting(p) # {} /\ tariff[p[1]] /\ \E c \in IdleChargers : PoolOf[c] = p
TickPromotesTheQueues ==
    \A p \in Pools : []<>~Servable(p)

(***************************************************************************)
(* Seen from outside, all of this is a service that leases chargers.       *)
(***************************************************************************)
Lease == INSTANCE ChargerLease WITH
    Customers <- Flows,
    wants <- [f \in Flows |-> flow[f].pool],
    place <- ticket,
    holds <- [f \in Flows |-> IF flow[f].status \in Holding THEN flow[f].charger ELSE None],
    left  <- {f \in Flows : flow[f].status \in Terminal}

\* Every transaction, whatever it combines, is a step of the lease service: a
\* flow holds one charger in its life and until its end, no charger is
\* shared, and those who wait in a pool are served in the order they came.
ImplementsLease == Lease!LeaseSpec
=============================================================================

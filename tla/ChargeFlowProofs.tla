-------------------------- MODULE ChargeFlowProofs --------------------------
(***************************************************************************)
(* What ChargeFlow guarantees for any number of users, stations, chargers  *)
(* and flows.  Every promoting action first frees or adds chargers and     *)
(* then calls Serve; so each part of the invariant is a predicate of the   *)
(* flows, chargers and tickets between the two halves, one lemma shows     *)
(* that Serve preserves it, and each action only has to establish it for   *)
(* the state it hands to Serve.                                            *)
(***************************************************************************)
EXTENDS ChargeFlow, TLAPS

-----------------------------------------------------------------------------
(***************************************************************************)
(* Grants and Serve.                                                       *)
(***************************************************************************)

\* A grant serves queued flows, each with a charger of its own that is free
\* and of its pool.
LEMMA GrantFacts ==
    ASSUME NEW steps, NEW free, NEW g \in Grants(steps, free)
    PROVE  /\ DOMAIN g \subseteq Flows
           /\ \A f \in DOMAIN g : /\ g[f] \in free
                                  /\ flow[f].status = "Queued" /\ ticket[f] > 0
                                  /\ flow[f].pool \in Pools
                                  /\ PoolOf[g[f]] = flow[f].pool
           /\ \A f, h \in DOMAIN g : g[f] = g[h] => f = h
<1> DEFINE All == UNION {Waiting(p) : p \in Pools}
<1>1. PICK S \in SUBSET All : g \in Injection(S, free)
  BY DEF Grants
<1>2. /\ DOMAIN g = S /\ g \in [S -> free]
      /\ \A f, h \in DOMAIN g : g[f] = g[h] => f = h
  BY <1>1 DEF Injection, IsInjective
<1>3. \A f \in S : \E p \in Pools : f \in Waiting(p)
  BY <1>1
<1>4. \A p \in Pools : \A f \in DOMAIN g \cap Waiting(p) : PoolOf[g[f]] = p
  BY DEF Grants
<1>5. \A p \in Pools : \A f \in Waiting(p) :
        f \in Flows /\ flow[f].status = "Queued" /\ ticket[f] > 0 /\ flow[f].pool = p
  BY DEF Waiting, InQueue
<1> QED
  BY <1>2, <1>3, <1>4, <1>5

-----------------------------------------------------------------------------
(***************************************************************************)
(* The inductive invariant.  Its parts are predicates of flows fl,         *)
(* chargers ch, tickets tk, the last ticket lt and the mirror m.           *)
(***************************************************************************)
Typed(fl, ch, tk, lt, m) ==
    /\ fl \in [Flows -> FlowRecord]
    /\ ch \in [Chargers -> ChargerStatus]
    /\ tk \in [Flows -> Nat]
    /\ lt \in Nat
    /\ m \in [Users -> BOOLEAN]

Held(fl, ch) ==
    /\ \A c \in Chargers : ch[c] = "Occupied" <=>
         \E f \in Flows : fl[f].status \in Holding /\ fl[f].charger = c
    /\ \A f, g \in Flows :
         /\ fl[f].status \in Holding /\ fl[g].status \in Holding
         /\ fl[f].charger = fl[g].charger
         => f = g
    /\ \A f \in Flows : fl[f].status \in Holding =>
         fl[f].charger \in Chargers /\ PoolOf[fl[f].charger] = fl[f].pool
    /\ \A f \in Flows : fl[f].status = "Queued" => fl[f].charger = None

Lined(fl, tk, lt) ==
    /\ \A f \in Flows : tk[f] > 0 <=> fl[f].status = "Queued"
    /\ \A f, g \in Flows : tk[f] > 0 /\ tk[f] = tk[g] => f = g
    /\ \A f \in Flows : tk[f] <= lt

Solo(fl, m) ==
    /\ \A u \in Users : m[u] <=> \E f \in Flows : fl[f].status \in Active /\ fl[f].user = u
    /\ \A f, g \in Flows :
         /\ fl[f].status \in Active /\ fl[g].status \in Active
         /\ fl[f].user = fl[g].user
         => f = g
    /\ \A f \in Flows : fl[f].status \in Active => fl[f].user \in Users

Good(fl, ch, tk, lt, m) ==
    Typed(fl, ch, tk, lt, m) /\ Held(fl, ch) /\ Lined(fl, tk, lt) /\ Solo(fl, m)

FlowStatus == {"Unused"} \cup Active \cup Terminal

\* The flow r moved on to another status and charger, and a flow it is again.
Moved(r, s, c) == [r EXCEPT !.status = s, !.charger = c, !.version = r.version + 1,
                            !.overdue = FALSE]

LEMMA MovedFlow ==
    ASSUME NEW r \in FlowRecord, NEW s \in FlowStatus, NEW c \in Chargers \cup {None}
    PROVE  /\ Moved(r, s, c) \in FlowRecord
           /\ Moved(r, s, c).status = s /\ Moved(r, s, c).charger = c
           /\ Moved(r, s, c).pool = r.pool /\ Moved(r, s, c).user = r.user
<1>1. r.version + 1 \in Nat
  BY DEF FlowRecord
<1>2. \A v \in Nat : [r EXCEPT !.status = s, !.charger = c, !.version = v, !.overdue = FALSE]
                        \in FlowRecord
  BY DEF FlowRecord, FlowStatus
<1> QED
  BY <1>1, <1>2 DEF FlowRecord, Moved

\* Serve keeps all of it: what is queued becomes a quote on a free charger.
LEMMA ServeKeeps ==
    ASSUME NEW fl, NEW ch, NEW tk, NEW lt, NEW m, Good(fl, ch, tk, lt, m),
           NEW steps, NEW free \in SUBSET Chargers, NEW g \in Grants(steps, free),
           \A x \in DOMAIN g : ch[g[x]] = "Idle",
           \A x \in Flows : flow[x].status = "Queued" => fl[x] = flow[x],
           Serve(g, fl, ch, tk)
    PROVE  Good(flow', charger', ticket', lt, m)
<1> DEFINE served == DOMAIN g
<1>1. /\ fl \in [Flows -> FlowRecord] /\ ch \in [Chargers -> ChargerStatus]
      /\ tk \in [Flows -> Nat]
  BY DEF Good, Typed
<1>2. /\ served \subseteq Flows
      /\ \A f \in served : /\ g[f] \in Chargers /\ ch[g[f]] = "Idle"
                           /\ fl[f].status = "Queued" /\ PoolOf[g[f]] = fl[f].pool
      /\ \A f, h \in served : g[f] = g[h] => f = h
  BY GrantFacts
<1>3. \A f \in served :
        /\ flow'[f] \in FlowRecord
        /\ flow'[f].status = "PendingQuote" /\ flow'[f].charger = g[f]
        /\ flow'[f].pool = fl[f].pool /\ flow'[f].user = fl[f].user
  <2> SUFFICES ASSUME NEW f \in served
               PROVE  /\ flow'[f] \in FlowRecord
                      /\ flow'[f].status = "PendingQuote" /\ flow'[f].charger = g[f]
                      /\ flow'[f].pool = fl[f].pool /\ flow'[f].user = fl[f].user
    OBVIOUS
  <2>1. /\ fl[f] \in FlowRecord /\ g[f] \in Chargers \cup {None}
        /\ "PendingQuote" \in FlowStatus
    BY <1>1, <1>2 DEF FlowStatus, Active
  <2>2. flow'[f] = Moved(fl[f], "PendingQuote", g[f])
    BY <1>2 DEF Serve, Moved
  <2> QED
    BY <2>1, <2>2, MovedFlow
<1>4. \A f \in Flows \ served : flow'[f] = fl[f]
  BY DEF Serve
<1>5. \A c \in Chargers : charger'[c] = IF \E f \in served : g[f] = c THEN "Occupied" ELSE ch[c]
  BY DEF Serve, Range
<1>6. \A f \in Flows : ticket'[f] = IF f \in served THEN 0 ELSE tk[f]
  BY DEF Serve
<1>7. Typed(flow', charger', ticket', lt, m)
  <2>1. flow' \in [Flows -> FlowRecord]
    BY <1>1, <1>2, <1>3, <1>4 DEF Serve
  <2>2. charger' \in [Chargers -> ChargerStatus]
    BY <1>1 DEF Serve, ChargerStatus
  <2>3. ticket' \in [Flows -> Nat]
    BY <1>1 DEF Serve
  <2> QED
    BY <2>1, <2>2, <2>3 DEF Good, Typed
<1>8. Held(flow', charger')
  <2> USE DEF Holding, Active
  <2>1. Held(fl, ch)
    BY DEF Good
  <2>2. \A f \in Flows : flow'[f].status \in Holding =>
          \/ f \in served /\ flow'[f].charger = g[f]
          \/ f \notin served /\ flow'[f] = fl[f]
    BY <1>3, <1>4
  <2>3. \A f \in Flows : fl[f].status \in Holding => f \notin served
    BY <1>2
  <2>4. ASSUME NEW c \in Chargers
        PROVE  charger'[c] = "Occupied" <=>
                 \E f \in Flows : flow'[f].status \in Holding /\ flow'[f].charger = c
    BY <1>2, <1>3, <1>4, <1>5, <2>1, <2>2, <2>3 DEF Held
  <2>5. ASSUME NEW f \in Flows, NEW h \in Flows,
               flow'[f].status \in Holding, flow'[h].status \in Holding,
               flow'[f].charger = flow'[h].charger
        PROVE  f = h
    BY <1>2, <2>1, <2>2, <2>5 DEF Held
  <2>6. ASSUME NEW f \in Flows, flow'[f].status \in Holding
        PROVE  flow'[f].charger \in Chargers /\ PoolOf[flow'[f].charger] = flow'[f].pool
    BY <1>2, <1>3, <2>1, <2>2, <2>6 DEF Held
  <2>7. ASSUME NEW f \in Flows, flow'[f].status = "Queued" PROVE flow'[f].charger = None
    BY <1>3, <1>4, <2>1, <2>7 DEF Held
  <2> QED
    BY <2>4, <2>5, <2>6, <2>7 DEF Held
<1>9. Lined(flow', ticket', lt)
  <2>1. Lined(fl, tk, lt) /\ lt \in Nat
    BY DEF Good, Typed
  <2> QED
    BY <1>1, <1>2, <1>3, <1>4, <1>6, <2>1 DEF Lined
<1>10. Solo(flow', m)
  <2>1. Solo(fl, m)
    BY DEF Good
  <2>2. \A f \in Flows : /\ flow'[f].status \in Active <=> fl[f].status \in Active
                         /\ flow'[f].user = fl[f].user
    BY <1>2, <1>3, <1>4 DEF Active
  <2> QED
    BY <2>1, <2>2 DEF Solo
<1> QED
  BY <1>7, <1>8, <1>9, <1>10 DEF Good

\* What a transaction does before it promotes: the flows of S end, their
\* chargers cease to be occupied, rows of flows that do not wait may go.
Ending(S, fl, ch, tk, m) ==
    /\ S \subseteq Flows /\ \A f \in S : flow[f].status \in Active
    /\ Typed(fl, ch, tk, lastTicket, m)
    /\ \A f \in S : fl[f].status \in Terminal /\ tk[f] = 0
    /\ \A f \in Flows \ S : fl[f] = flow[f]
    /\ \A f \in Flows : tk[f] = ticket[f] \/ f \in S \/ (tk[f] = 0 /\ flow[f].status # "Queued")
    /\ \A c \in Chargers : ch[c] = "Occupied" <=>
         charger[c] = "Occupied" /\ \A f \in S : flow[f].charger # c
    /\ \A u \in Users : m[u] <=> hasActiveFlow[u] /\ \A f \in S : flow[f].user # u

LEMMA EndingKeeps ==
    ASSUME Good(flow, charger, ticket, lastTicket, hasActiveFlow),
           NEW S, NEW fl, NEW ch, NEW tk, NEW m, Ending(S, fl, ch, tk, m)
    PROVE  Good(fl, ch, tk, lastTicket, m)
<1> USE DEF Ending
<1>1. Typed(fl, ch, tk, lastTicket, m) /\ S \in SUBSET Flows /\ tk \in [Flows -> Nat]
  BY DEF Typed
<1>2. \A f \in S : fl[f].status \notin Active
  BY DEF Active, Terminal
<1>3. Held(fl, ch)
  <2> USE DEF Holding
  <2>1. Held(flow, charger)
    BY DEF Good
  <2>2. \A f \in Flows : fl[f].status \in Holding => f \notin S /\ fl[f] = flow[f]
    BY <1>2
  <2>3. ASSUME NEW c \in Chargers
        PROVE  ch[c] = "Occupied" <=>
                 \E f \in Flows : fl[f].status \in Holding /\ fl[f].charger = c
    <3>1. ASSUME ch[c] = "Occupied"
          PROVE  \E f \in Flows : fl[f].status \in Holding /\ fl[f].charger = c
      BY <3>1, <2>1 DEF Held
    <3>2. ASSUME NEW f \in Flows, fl[f].status \in Holding, fl[f].charger = c
          PROVE  ch[c] = "Occupied"
      <4>1. f \notin S /\ flow[f].status \in Holding /\ flow[f].charger = c
        BY <3>2, <2>2
      <4>2. ASSUME NEW h \in S, flow[h].charger = c PROVE FALSE
        <5>1. flow[h].status \in Holding
          BY <4>2, <2>1, ChargeFlowAssumption DEF Held
        <5> QED
          BY <5>1, <4>1, <4>2, <2>1 DEF Held
      <4> QED
        BY <4>1, <4>2, <2>1 DEF Held
    <3> QED
      BY <3>1, <3>2
  <2>4. \A f \in Flows : fl[f].status = "Queued" => fl[f] = flow[f]
    BY DEF Terminal
  <2> QED
    BY <2>1, <2>2, <2>3, <2>4 DEF Held
<1>4. Lined(fl, tk, lastTicket)
  <2>1. Lined(flow, ticket, lastTicket) /\ lastTicket \in Nat
    BY DEF Good, Typed
  <2>2. \A f \in S : tk[f] = 0 /\ fl[f].status # "Queued"
    BY DEF Terminal
  <2>3. \A f \in Flows : tk[f] > 0 => f \notin S /\ tk[f] = ticket[f]
    OBVIOUS
  <2>4. \A f \in Flows : tk[f] > 0 <=> fl[f].status = "Queued"
    BY <2>1, <2>2 DEF Lined
  <2>5. \A f, g \in Flows : tk[f] > 0 /\ tk[f] = tk[g] => f = g
    BY <2>1, <2>3 DEF Lined
  <2>6. \A f \in Flows : tk[f] <= lastTicket
    BY <2>1, <2>3 DEF Lined
  <2> QED
    BY <2>4, <2>5, <2>6 DEF Lined
<1>5. Solo(fl, m)
  <2>1. Solo(flow, hasActiveFlow)
    BY DEF Good
  <2>2. \A f \in Flows : fl[f].status \in Active <=> f \notin S /\ flow[f].status \in Active
    BY <1>2
  <2>3. \A f \in Flows : fl[f].status \in Active => fl[f] = flow[f]
    BY <1>2
  <2>4. ASSUME NEW u \in Users
        PROVE  m[u] <=> \E f \in Flows : fl[f].status \in Active /\ fl[f].user = u
    BY <2>1, <2>2, <2>3 DEF Solo
  <2> QED
    BY <2>1, <2>2, <2>3, <2>4 DEF Solo
<1> QED
  BY <1>1, <1>3, <1>4, <1>5 DEF Good

\* Rows that are dropped as stale belong to no waiting flow.
LEMMA StaleNotQueued ==
    ASSUME NEW p, NEW f \in StaleHeads(p)
    PROVE  f \in Flows /\ flow[f].status # "Queued"
BY DEF StaleHeads, InQueue, Waiting

LEMMA RowsKept ==
    ASSUME ticket \in [Flows -> Nat], NEW T, \A f \in T : flow[f].status # "Queued"
    PROVE  /\ Without(T) \in [Flows -> Nat]
           /\ \A f \in Flows : \/ Without(T)[f] = ticket[f]
                               \/ Without(T)[f] = 0 /\ flow[f].status # "Queued"
BY DEF Without

\* One holder ends, its charger becomes next, and the queue is served.
LEMMA HolderLeaves ==
    ASSUME Good(flow, charger, ticket, lastTicket, hasActiveFlow),
           NEW f \in Flows, flow[f].status \in Holding,
           NEW fl \in [Flows -> FlowRecord], fl[f].status \in Terminal,
           \A x \in Flows \ {f} : fl[x] = flow[x],
           NEW next \in ChargerStatus \ {"Occupied"},
           NEW T, \A x \in T : flow[x].status # "Queued",
           NEW steps, NEW g \in Grants(steps, IdleAfter(flow[f].charger, next)),
           Serve(g, fl, ChargerBecomes(flow[f].charger, next), Without(T)),
           hasActiveFlow' = [hasActiveFlow EXCEPT ![flow[f].user] = FALSE]
    PROVE  Good(flow', charger', ticket', lastTicket, hasActiveFlow')
<1> DEFINE c == flow[f].charger
           ch == ChargerBecomes(c, next)
           tk == Without(T)
<1>1. /\ charger \in [Chargers -> ChargerStatus] /\ ticket \in [Flows -> Nat]
      /\ hasActiveFlow \in [Users -> BOOLEAN]
      /\ Held(flow, charger) /\ Lined(flow, ticket, lastTicket) /\ Solo(flow, hasActiveFlow)
  BY DEF Good, Typed
<1>2. /\ flow[f].status \in Active /\ flow[f].status # "Queued" /\ flow[f].user \in Users
      /\ c \in Chargers /\ charger[c] = "Occupied" /\ ticket[f] = 0
  <2>1. flow[f].status \in Active /\ flow[f].status # "Queued"
    BY DEF Holding, Active
  <2> QED
    BY <1>1, <2>1 DEF Held, Lined, Solo
<1>3. Good(fl, ch, tk, lastTicket, hasActiveFlow')
  <2>1. /\ ch \in [Chargers -> ChargerStatus]
        /\ \A d \in Chargers : ch[d] = "Occupied" <=> charger[d] = "Occupied" /\ c # d
    BY <1>1, <1>2 DEF ChargerBecomes, ChargerStatus
  <2>2. /\ tk \in [Flows -> Nat]
        /\ \A x \in Flows : tk[x] = ticket[x] \/ (tk[x] = 0 /\ flow[x].status # "Queued")
    BY <1>1, RowsKept
  <2>3. /\ hasActiveFlow' \in [Users -> BOOLEAN]
        /\ \A u \in Users : hasActiveFlow'[u] <=> hasActiveFlow[u] /\ flow[f].user # u
    BY <1>1, <1>2, Zenon
  <2>4. Ending({f}, fl, ch, tk, hasActiveFlow')
    <3> HIDE DEF ch, tk
    <3>1. Typed(fl, ch, tk, lastTicket, hasActiveFlow')
      BY <2>1, <2>2, <2>3 DEF Good, Typed
    <3> QED
      BY <1>2, <2>1, <2>2, <2>3, <3>1 DEF Ending
  <2> QED
    BY <2>4, EndingKeeps
<1>4. /\ IdleAfter(c, next) \in SUBSET Chargers
      /\ \A d \in IdleAfter(c, next) : ch[d] = "Idle"
  BY <1>1, <1>2 DEF IdleAfter, IdleChargers, ChargerBecomes
<1>5. \A x \in DOMAIN g : ch[g[x]] = "Idle"
  BY <1>4, GrantFacts
<1>6. \A x \in Flows : flow[x].status = "Queued" => fl[x] = flow[x]
  BY <1>2
<1> HIDE DEF ch, tk
<1> QED
  BY <1>3, <1>4, <1>5, <1>6, ServeKeeps DEF ch, tk

\* One flow f goes on to fl[f] without leaving its charger or its user.
Staying(f, fl) ==
    /\ f \in Flows /\ fl \in [Flows -> FlowRecord]
    /\ flow[f].status \in Holding /\ fl[f].status \in Holding
    /\ fl[f].charger = flow[f].charger /\ fl[f].user = flow[f].user
    /\ fl[f].pool = flow[f].pool
    /\ \A x \in Flows \ {f} : fl[x] = flow[x]

LEMMA HolderStays ==
    ASSUME Good(flow, charger, ticket, lastTicket, hasActiveFlow),
           NEW f, NEW fl, Staying(f, fl)
    PROVE  Good(fl, charger, ticket, lastTicket, hasActiveFlow)
<1> USE DEF Staying
<1> DEFINE Same(x) == /\ fl[x].status \in Holding <=> flow[x].status \in Holding
                      /\ fl[x].status \in Active <=> flow[x].status \in Active
                      /\ fl[x].status = "Queued" <=> flow[x].status = "Queued"
                      /\ fl[x].charger = flow[x].charger /\ fl[x].user = flow[x].user
                      /\ fl[x].pool = flow[x].pool
<1>1. \A x \in Flows : Same(x)
  <2>1. Same(f)
    BY DEF Holding
  <2>2. ASSUME NEW x \in Flows \ {f} PROVE Same(x)
    OBVIOUS
  <2> QED
    BY <2>1, <2>2
<1>2. /\ Typed(fl, charger, ticket, lastTicket, hasActiveFlow) /\ Held(flow, charger)
      /\ Lined(flow, ticket, lastTicket) /\ Solo(flow, hasActiveFlow)
  BY DEF Good, Typed
<1>3. Held(fl, charger)
  BY <1>1, <1>2 DEF Held
<1>4. Lined(fl, ticket, lastTicket)
  BY <1>1, <1>2 DEF Lined
<1>5. Solo(fl, hasActiveFlow)
  BY <1>1, <1>2 DEF Solo
<1> QED
  BY <1>2, <1>3, <1>4, <1>5 DEF Good

\* The flows after f has ended.
LEMMA EndedFlow ==
    ASSUME flow \in [Flows -> FlowRecord], NEW f \in Flows, NEW s \in Terminal
    PROVE  /\ Ended(f, s) \in [Flows -> FlowRecord]
           /\ Ended(f, s)[f].status = s
           /\ \A x \in Flows \ {f} : Ended(f, s)[x] = flow[x]
<1>1. Ended(f, s) = [flow EXCEPT ![f] = Moved(flow[f], s, None)]
  BY DEF Ended, Moved
<1>2. s \in FlowStatus /\ None \in Chargers \cup {None} /\ flow[f] \in FlowRecord
  BY DEF FlowStatus
<1>3. Moved(flow[f], s, None) \in FlowRecord /\ Moved(flow[f], s, None).status = s
  BY <1>2, MovedFlow
<1> QED
  BY <1>1, <1>3

-----------------------------------------------------------------------------
(***************************************************************************)
(* Every action keeps Now, the first part of the invariant.                *)
(***************************************************************************)
Now == Good(flow, charger, ticket, lastTicket, hasActiveFlow)

LEMMA NowTyped ==
    ASSUME Now
    PROVE  /\ flow \in [Flows -> FlowRecord] /\ charger \in [Chargers -> ChargerStatus]
           /\ ticket \in [Flows -> Nat] /\ lastTicket \in Nat
           /\ hasActiveFlow \in [Users -> BOOLEAN]
           /\ Held(flow, charger) /\ Lined(flow, ticket, lastTicket)
           /\ Solo(flow, hasActiveFlow)
BY DEF Now, Good, Typed

LEMMA NowUnchanged ==
    ASSUME Now, UNCHANGED <<flow, charger, ticket, lastTicket, hasActiveFlow>>
    PROVE  Now'
BY DEF Now, Good, Typed, Held, Lined, Solo

\* The flow r with status s and version v, or with its deadline passed.
Turned(r, s, v) == [r EXCEPT !.status = s, !.version = v]
Late(r) == [r EXCEPT !.overdue = TRUE]

LEMMA TurnedFlow ==
    ASSUME NEW r \in FlowRecord, NEW s \in FlowStatus, NEW v \in Nat
    PROVE  /\ Turned(r, s, v) \in FlowRecord /\ Turned(r, s, v).status = s
           /\ Turned(r, s, v).charger = r.charger /\ Turned(r, s, v).pool = r.pool
           /\ Turned(r, s, v).user = r.user
           /\ Late(r) \in FlowRecord /\ Late(r).status = r.status
           /\ Late(r).charger = r.charger /\ Late(r).pool = r.pool /\ Late(r).user = r.user
<1>1. Turned(r, s, v) \in FlowRecord
  BY DEF FlowRecord, FlowStatus, Turned
<1>2. Late(r) \in FlowRecord
  BY DEF FlowRecord, Late
<1> QED
  BY <1>1, <1>2 DEF FlowRecord, Turned, Late

\* A holder that turns to another status of a holder keeps Now.
LEMMA TurnKeeps ==
    ASSUME Now, NEW f \in Flows, NEW s \in Holding, NEW v \in Nat,
           flow[f].status \in Holding, flow' = [flow EXCEPT ![f] = Turned(flow[f], s, v)],
           UNCHANGED <<charger, ticket, lastTicket, hasActiveFlow>>
    PROVE  Now'
<1>1. flow \in [Flows -> FlowRecord] /\ flow[f] \in FlowRecord /\ s \in FlowStatus
  BY NowTyped DEF FlowStatus, Holding
<1>2. Staying(f, flow')
  BY <1>1, TurnedFlow DEF Staying
<1> QED
  BY <1>2, HolderStays DEF Now

LEMMA Versions ==
    ASSUME Now, NEW f \in Flows
    PROVE  flow[f].version \in Nat /\ flow[f].version + 1 \in Nat
<1>1. flow[f] \in FlowRecord
  BY NowTyped
<1> QED
  BY <1>1 DEF FlowRecord

LEMMA ConfirmKeeps == ASSUME Now, NEW f \in Flows, ConfirmQuote(f) PROVE Now'
<1>1. /\ flow' = [flow EXCEPT ![f] = Turned(flow[f], "Reserved", flow[f].version + 1)]
      /\ flow[f].status = "PendingQuote"
      /\ UNCHANGED <<charger, ticket, lastTicket, hasActiveFlow>>
  BY DEF ConfirmQuote, Turned
<1> QED
  BY <1>1, Versions, TurnKeeps DEF Holding, Active

LEMMA StartKeeps == ASSUME Now, NEW f \in Flows, Start(f) PROVE Now'
<1>1. /\ flow' = [flow EXCEPT ![f] = Turned(flow[f], "Charging", flow[f].version + 1)]
      /\ flow[f].status = "Reserved"
      /\ UNCHANGED <<charger, ticket, lastTicket, hasActiveFlow>>
  BY DEF Start, Turned
<1> QED
  BY <1>1, Versions, TurnKeeps DEF Holding, Active

\* The mirror is set already when a settlement fails.
LEMMA SettleFailsKeeps == ASSUME Now, NEW f \in Flows, SettleFails(f) PROVE Now'
<1>1. /\ flow' = [flow EXCEPT ![f] = Turned(flow[f], "SettlementFailed", flow[f].version)]
      /\ flow[f].status \in {"Charging", "SettlementFailed"}
      /\ UNCHANGED <<charger, ticket, lastTicket>>
      /\ hasActiveFlow' = [hasActiveFlow EXCEPT ![flow[f].user] = TRUE]
  <2>1. flow[f] \in FlowRecord /\ flow \in [Flows -> FlowRecord]
    BY NowTyped
  <2>2. flow' = [flow EXCEPT ![f] = [flow[f] EXCEPT !.status = "SettlementFailed"]]
    BY DEF SettleFails
  <2>3. [flow[f] EXCEPT !.status = "SettlementFailed"]
          = [flow[f] EXCEPT !.status = "SettlementFailed", !.version = flow[f].version]
    BY <2>1 DEF FlowRecord
  <2> QED
    BY <2>2, <2>3 DEF SettleFails, Settleable, Turned
<1>2. hasActiveFlow[flow[f].user] /\ flow[f].user \in Users
  BY <1>1, NowTyped DEF Solo, Active
<1>3. hasActiveFlow' = hasActiveFlow
  BY <1>1, <1>2, NowTyped, Zenon
<1> QED
  BY <1>1, <1>3, Versions, TurnKeeps DEF Holding, Active

LEMMA DeadlineKeeps == ASSUME Now, NEW f \in Flows, DeadlinePasses(f) PROVE Now'
<1>1. /\ flow' = [flow EXCEPT ![f] = Late(flow[f])]
      /\ flow[f].status \in Holding
      /\ UNCHANGED <<charger, ticket, lastTicket, hasActiveFlow>>
  BY DEF DeadlinePasses, Late, Holding, Active
<1>2. flow \in [Flows -> FlowRecord] /\ flow[f] \in FlowRecord
      /\ flow[f].status \in FlowStatus /\ flow[f].version \in Nat
  BY <1>1, NowTyped, Versions DEF FlowStatus, Holding
<1>3. Staying(f, flow')
  BY <1>1, <1>2, TurnedFlow DEF Staying
<1> QED
  BY <1>1, <1>3, HolderStays DEF Now

LEMMA ReleaseKeeps ==
    ASSUME Now, NEW f \in Flows, NEW next \in ChargerStatus \ {"Occupied"}, Release(f, next)
    PROVE  Now'
<1>1. /\ flow[f].status \in Holding /\ flow[f].status # "Queued"
      /\ UNCHANGED lastTicket
      /\ hasActiveFlow' = [hasActiveFlow EXCEPT ![flow[f].user] = FALSE]
  BY DEF Release, Holding, Active
<1> DEFINE T == {f} \cup StaleHeads(flow[f].pool)
<1>2. PICK g \in Grants(OneStep(flow[f].pool), IdleAfter(flow[f].charger, next)) :
        Serve(g, Ended(f, "Cancelled"), ChargerBecomes(flow[f].charger, next), Without(T))
  BY DEF Release
<1>3. \A x \in T : flow[x].status # "Queued"
  BY <1>1, StaleNotQueued
<1>4. "Cancelled" \in Terminal /\ flow \in [Flows -> FlowRecord]
  BY NowTyped DEF Terminal
<1> HIDE DEF T
<1> QED
  BY <1>1, <1>2, <1>3, <1>4, EndedFlow, HolderLeaves DEF Now

LEMMA CancelKeeps == ASSUME Now, NEW f \in Flows, Cancel(f) PROVE Now'
<1>1. CASE flow[f].charger # None
  <2>1. /\ flow[f].status \in {"PendingQuote", "Reserved"}
        /\ UNCHANGED <<account, wallet, recharged, enabled, tariff, lastTicket>>
    BY <1>1, NowTyped DEF Cancel, Held
  <2>2. Release(f, "Idle")
    BY <1>1, <2>1 DEF Cancel, Release
  <2> QED
    BY <2>2, ReleaseKeeps DEF ChargerStatus
<1>2. CASE flow[f].charger = None
  <2>1. /\ flow' = Ended(f, "Cancelled") /\ ticket' = Without({f})
        /\ UNCHANGED <<charger, lastTicket>>
        /\ hasActiveFlow' = [hasActiveFlow EXCEPT ![flow[f].user] = FALSE]
        /\ flow[f].status \in {"Queued", "PendingQuote", "Reserved"}
    BY <1>2 DEF Cancel
  <2>2. flow[f].status = "Queued"
    BY <1>2, <2>1, NowTyped, ChargeFlowAssumption DEF Held, Holding, Active
  <2>3. flow[f].status \in Active /\ flow[f].user \in Users /\ "Cancelled" \in Terminal
    BY <2>2, NowTyped DEF Active, Terminal, Solo
  <2>4. /\ flow' \in [Flows -> FlowRecord] /\ flow'[f].status \in Terminal
        /\ \A x \in Flows \ {f} : flow'[x] = flow[x]
    BY <2>1, <2>3, NowTyped, EndedFlow
  <2>5. /\ ticket' \in [Flows -> Nat] /\ ticket'[f] = 0
        /\ \A x \in Flows \ {f} : ticket'[x] = ticket[x]
    BY <2>1, NowTyped DEF Without
  <2>6. /\ hasActiveFlow' \in [Users -> BOOLEAN]
        /\ \A u \in Users : hasActiveFlow'[u] <=> hasActiveFlow[u] /\ flow[f].user # u
    BY <2>1, <2>3, NowTyped, Zenon
  <2>7. \A c \in Chargers : flow[f].charger # c
    BY <1>2, ChargeFlowAssumption
  <2>8. Typed(flow', charger, ticket', lastTicket, hasActiveFlow')
    BY <2>4, <2>5, <2>6, NowTyped DEF Typed
  <2>9. Ending({f}, flow', charger, ticket', hasActiveFlow')
    BY <2>3, <2>4, <2>5, <2>6, <2>7, <2>8 DEF Ending
  <2> QED
    BY <2>1, <2>9, EndingKeeps DEF Now
<1> QED
  BY <1>1, <1>2

LEMMA SettleKeeps ==
    ASSUME Now, NEW f \in Flows, NEW a, NEW next \in ChargerStatus \ {"Occupied"},
           SettleWith(f, a, next)
    PROVE  Now'
<1> DEFINE done == [flow EXCEPT ![f].status = "Completed", ![f].version = @ + 1]
           T == StaleHeads(flow[f].pool)
<1>1. /\ flow[f].status \in Holding
      /\ UNCHANGED lastTicket
      /\ hasActiveFlow' = [hasActiveFlow EXCEPT ![flow[f].user] = FALSE]
  BY DEF SettleWith, Settleable, Holding, Active
<1>2. PICK g \in Grants(OneStep(flow[f].pool), IdleAfter(flow[f].charger, next)) :
        Serve(g, done, ChargerBecomes(flow[f].charger, next), Without(T))
  BY DEF SettleWith
<1>3. \A x \in T : flow[x].status # "Queued"
  BY StaleNotQueued
<1>4. /\ done \in [Flows -> FlowRecord] /\ done[f].status \in Terminal
      /\ \A x \in Flows \ {f} : done[x] = flow[x]
  <2>1. done = [flow EXCEPT ![f] = Turned(flow[f], "Completed", flow[f].version + 1)]
    BY DEF Turned
  <2>2. /\ flow \in [Flows -> FlowRecord] /\ flow[f] \in FlowRecord
        /\ "Completed" \in FlowStatus /\ "Completed" \in Terminal
        /\ flow[f].version + 1 \in Nat
    BY NowTyped, Versions DEF FlowStatus, Terminal
  <2> HIDE DEF done
  <2> QED
    BY <2>1, <2>2, TurnedFlow
<1> HIDE DEF done, T
<1> QED
  BY <1>1, <1>2, <1>3, <1>4, HolderLeaves DEF Now

\* Chargers that nobody holds are refitted and the queue is served.
LEMMA RefitKeeps ==
    ASSUME Now, NEW ch \in [Chargers -> ChargerStatus],
           \A c \in Chargers : ch[c] = "Occupied" <=> charger[c] = "Occupied",
           NEW T, \A x \in T : flow[x].status # "Queued",
           NEW steps, NEW free \in SUBSET Chargers, \A c \in free : ch[c] = "Idle",
           NEW g \in Grants(steps, free), Serve(g, flow, ch, Without(T)),
           UNCHANGED <<lastTicket, hasActiveFlow>>
    PROVE  Now'
<1>1. /\ Without(T) \in [Flows -> Nat]
      /\ \A f \in Flows : \/ Without(T)[f] = ticket[f]
                          \/ Without(T)[f] = 0 /\ flow[f].status # "Queued"
  BY NowTyped, RowsKept
<1>2. Typed(flow, ch, Without(T), lastTicket, hasActiveFlow)
  BY <1>1, NowTyped DEF Typed
<1>3. Ending({}, flow, ch, Without(T), hasActiveFlow)
  BY <1>1, <1>2 DEF Ending
<1>4. Good(flow, ch, Without(T), lastTicket, hasActiveFlow)
  BY <1>3, EndingKeeps DEF Now
<1>5. \A x \in DOMAIN g : ch[g[x]] = "Idle"
  BY GrantFacts
<1>6. Good(flow', charger', ticket', lastTicket, hasActiveFlow)
  BY <1>4, <1>5, ServeKeeps
<1> QED
  BY <1>6 DEF Now

LEMMA CommandsKeep == ASSUME Now, CompleteDueCommands PROVE Now'
<1> DEFINE ch == [c \in Chargers |-> IF c \in ComingUp THEN "Idle" ELSE charger[c]]
           pools == {PoolOf[c] : c \in ComingUp}
           T == UNION {StaleHeads(p) : p \in pools}
           free == IdleChargers \cup ComingUp
<1>1. PICK g \in Grants(AllSteps(pools), free) : Serve(g, flow, ch, Without(T))
  BY DEF CompleteDueCommands
<1>2. /\ ch \in [Chargers -> ChargerStatus]
      /\ \A c \in Chargers : ch[c] = "Occupied" <=> charger[c] = "Occupied"
      /\ free \in SUBSET Chargers /\ \A c \in free : ch[c] = "Idle"
  BY NowTyped DEF ComingUp, DueChargers, IdleChargers, ChargerStatus
<1>3. \A x \in T : flow[x].status # "Queued"
  BY StaleNotQueued
<1>4. UNCHANGED <<lastTicket, hasActiveFlow>>
  BY DEF CompleteDueCommands
<1> HIDE DEF ch, T, free, pools
<1> QED
  BY <1>1, <1>2, <1>3, <1>4, RefitKeeps

LEMMA Unheld ==
    ASSUME Now, NEW c \in Chargers, ActiveOn(c) = {}
    PROVE  charger[c] # "Occupied"
<1>1. \A f \in Flows : flow[f].status \in Holding => flow[f].charger # c
  BY DEF ActiveOn, IsActive, Holding
<1> QED
  BY <1>1, NowTyped DEF Held

LEMMA StatusKeeps ==
    ASSUME Now, NEW c \in Chargers, NEW target \in AdminStatuses, SetChargerStatus(c, target)
    PROVE  Now'
<1> DEFINE ch == ChargerBecomes(c, target)
           pools == IF target = "Idle" THEN {PoolOf[c]} ELSE {}
           T == UNION {StaleHeads(p) : p \in pools}
           free == IdleAfter(c, target)
<1>1. PICK g \in Grants(AllSteps(pools), free) : Serve(g, flow, ch, Without(T))
  BY DEF SetChargerStatus
<1>2. charger[c] # "Occupied" /\ target \in {"Idle", "Faulty", "Disabled"}
  BY Unheld, ChargeFlowAssumption DEF SetChargerStatus
<1>3. /\ ch \in [Chargers -> ChargerStatus]
      /\ \A d \in Chargers : ch[d] = "Occupied" <=> charger[d] = "Occupied"
      /\ free \in SUBSET Chargers /\ \A d \in free : ch[d] = "Idle"
  <2>1. charger \in [Chargers -> ChargerStatus] /\ target \in ChargerStatus
    BY <1>2, NowTyped DEF ChargerStatus
  <2>2. \A d \in Chargers : ch[d] = IF d = c THEN target ELSE charger[d]
    BY <2>1 DEF ChargerBecomes
  <2>3. ch \in [Chargers -> ChargerStatus]
    BY <2>1 DEF ChargerBecomes
  <2> HIDE DEF ch
  <2> QED
    BY <1>2, <2>2, <2>3 DEF IdleAfter, IdleChargers
<1>4. \A x \in T : flow[x].status # "Queued"
  BY StaleNotQueued
<1>5. UNCHANGED <<lastTicket, hasActiveFlow>>
  BY DEF SetChargerStatus
<1> HIDE DEF ch, T, free, pools
<1> QED
  BY <1>1, <1>3, <1>4, <1>5, RefitKeeps

LEMMA CreateChargersKeep ==
    ASSUME Now, NEW s \in Stations, NEW batch \in SUBSET Chargers, CreateChargers(s, batch)
    PROVE  Now'
<1> DEFINE ch == [c \in Chargers |-> IF c \in batch THEN "Idle" ELSE charger[c]]
           T == UNION {StaleHeads(p) : p \in {s} \X Types}
           free == IdleChargers \cup batch
<1>1. PICK g \in Grants(AllSteps({s} \X Types), free) : Serve(g, flow, ch, Without(T))
  BY DEF CreateChargers
<1>2. \A c \in batch : charger[c] = "Absent"
  BY DEF CreateChargers
<1>3. /\ ch \in [Chargers -> ChargerStatus]
      /\ \A c \in Chargers : ch[c] = "Occupied" <=> charger[c] = "Occupied"
      /\ free \in SUBSET Chargers /\ \A c \in free : ch[c] = "Idle"
  BY <1>2, NowTyped DEF IdleChargers, ChargerStatus
<1>4. \A x \in T : flow[x].status # "Queued"
  BY StaleNotQueued
<1>5. UNCHANGED <<lastTicket, hasActiveFlow>>
  BY DEF CreateChargers
<1> HIDE DEF ch, T, free
<1> QED
  BY <1>1, <1>3, <1>4, <1>5, RefitKeeps

LEMMA EnableKeeps == ASSUME Now, NEW s \in Stations, EnableStation(s) PROVE Now'
<1> DEFINE T == UNION {StaleHeads(p) : p \in {s} \X Types}
<1>1. PICK g \in Grants(AllSteps({s} \X Types), IdleChargers) :
        Serve(g, flow, charger, Without(T))
  BY DEF EnableStation
<1>2. IdleChargers \in SUBSET Chargers /\ \A c \in IdleChargers : charger[c] = "Idle"
  BY DEF IdleChargers
<1>3. \A x \in T : flow[x].status # "Queued"
  BY StaleNotQueued
<1>4. UNCHANGED <<lastTicket, hasActiveFlow>>
  BY DEF EnableStation
<1> HIDE DEF T
<1> QED
  BY <1>1, <1>2, <1>3, <1>4, NowTyped, RefitKeeps

LEMMA MaintenanceKeeps == ASSUME Now, RunMaintenance PROVE Now'
<1> DEFINE freed == {flow[f].charger : f \in TimedOut} \ {None}
           fl == [f \in Flows |-> IF f \in TimedOut
                    THEN [flow[f] EXCEPT !.status = "Expired", !.version = @ + 1,
                                         !.charger = None, !.overdue = FALSE]
                    ELSE flow[f]]
           ch == [c \in Chargers |-> IF c \in freed THEN "Idle" ELSE charger[c]]
           steps == [p \in Pools |-> Cardinality({f \in TimedOut : flow[f].pool = p})]
           T == UNION {StaleHeads(flow[f].pool) : f \in TimedOut}
           free == IdleChargers \cup freed
           tk == Without(T)
<1>1. PICK g \in Grants(steps, free) : Serve(g, fl, ch, tk)
  BY DEF RunMaintenance
<1>2. /\ UNCHANGED lastTicket
      /\ hasActiveFlow' = [u \in Users |->
            hasActiveFlow[u] /\ \A f \in TimedOut : flow[f].user # u]
  BY DEF RunMaintenance
<1>3. /\ TimedOut \subseteq Flows
      /\ \A f \in TimedOut : /\ flow[f].status \in Holding /\ flow[f].status \in Active
                             /\ flow[f].status # "Queued"
                             /\ flow[f].charger \in Chargers
                             /\ charger[flow[f].charger] = "Occupied"
                             /\ ticket[f] = 0
  <2>1. /\ TimedOut \subseteq Flows
        /\ \A f \in TimedOut : flow[f].status \in Holding /\ flow[f].status \in Active
                               /\ flow[f].status # "Queued"
    BY DEF TimedOut, Holding, Active
  <2> QED
    BY <2>1, NowTyped DEF Held, Lined
<1>4. fl \in [Flows -> FlowRecord] /\ \A f \in TimedOut : fl[f].status \in Terminal
  <2>1. "Expired" \in FlowStatus /\ "Expired" \in Terminal /\ None \in Chargers \cup {None}
    BY DEF FlowStatus, Terminal
  <2>2. \A f \in Flows : flow[f] \in FlowRecord
    BY NowTyped
  <2>3. \A f \in Flows : Moved(flow[f], "Expired", None) \in FlowRecord
                        /\ Moved(flow[f], "Expired", None).status = "Expired"
    BY <2>1, <2>2, MovedFlow
  <2>4. fl = [f \in Flows |-> IF f \in TimedOut THEN Moved(flow[f], "Expired", None)
                                                 ELSE flow[f]]
    BY DEF Moved
  <2> HIDE DEF fl
  <2> QED
    BY <1>3, <2>1, <2>2, <2>3, <2>4
<1>5. /\ ch \in [Chargers -> ChargerStatus]
      /\ \A c \in Chargers : ch[c] = "Occupied" <=>
           charger[c] = "Occupied" /\ \A f \in TimedOut : flow[f].charger # c
      /\ free \in SUBSET Chargers /\ \A c \in free : ch[c] = "Idle"
  <2>1. \A c \in Chargers : c \in freed <=> \E f \in TimedOut : flow[f].charger = c
    BY ChargeFlowAssumption
  <2>2. freed \subseteq Chargers
    BY <1>3
  <2> HIDE DEF freed
  <2> QED
    BY <2>1, <2>2, NowTyped DEF IdleChargers, ChargerStatus
<1>6. /\ tk \in [Flows -> Nat]
      /\ \A f \in TimedOut : tk[f] = 0
      /\ \A f \in Flows : tk[f] = ticket[f] \/ (tk[f] = 0 /\ flow[f].status # "Queued")
  <2>1. \A x \in T : flow[x].status # "Queued"
    BY StaleNotQueued
  <2> HIDE DEF T
  <2>2. /\ tk \in [Flows -> Nat]
        /\ \A f \in Flows : tk[f] = ticket[f] \/ (tk[f] = 0 /\ flow[f].status # "Queued")
    BY <2>1, NowTyped, RowsKept
  <2> HIDE DEF tk
  <2> QED
    BY <1>3, <2>2
<1>7. \A f \in Flows \ TimedOut : fl[f] = flow[f]
  OBVIOUS
<1>8. Good(fl, ch, tk, lastTicket, hasActiveFlow')
  <2> HIDE DEF fl, ch, tk, freed, free, T, steps
  <2>1. /\ hasActiveFlow' \in [Users -> BOOLEAN]
        /\ \A u \in Users : hasActiveFlow'[u] <=>
             hasActiveFlow[u] /\ \A f \in TimedOut : flow[f].user # u
    BY <1>2, Zenon
  <2>2. Typed(fl, ch, tk, lastTicket, hasActiveFlow')
    BY <1>4, <1>5, <1>6, <2>1, NowTyped DEF Typed
  <2>3. Ending(TimedOut, fl, ch, tk, hasActiveFlow')
    BY <1>3, <1>4, <1>5, <1>6, <1>7, <2>1, <2>2 DEF Ending
  <2> QED
    BY <2>3, EndingKeeps DEF Now
<1>9. \A f \in Flows : flow[f].status = "Queued" => fl[f] = flow[f]
  BY <1>3, <1>7
<1> HIDE DEF fl, ch, tk, freed, free, T, steps
<1>10. \A x \in DOMAIN g : ch[g[x]] = "Idle"
  BY <1>5, GrantFacts
<1> QED
  BY <1>1, <1>2, <1>5, <1>8, <1>9, <1>10, ServeKeeps DEF Now

\* The repair at startup finds the mirror right.
LEMMA RecoverKeeps == ASSUME Now, RecoverAtStartup PROVE Now'
<1>1. \A u \in Users : HasActive(u) => hasActiveFlow[u]
  BY NowTyped DEF HasActive, IsActive, Solo
<1>2. hasActiveFlow' = [u \in Users |-> hasActiveFlow[u] \/ HasActive(u)]
  BY DEF RecoverAtStartup, RepairedMirror
<1>3. /\ hasActiveFlow' \in [Users -> BOOLEAN]
      /\ \A u \in Users : hasActiveFlow'[u] <=> hasActiveFlow[u]
  BY <1>1, <1>2, Zenon
<1>4. Typed(flow, charger, ticket, lastTicket, hasActiveFlow')
  BY <1>3, NowTyped DEF Typed
<1>5. Ending({}, flow, charger, ticket, hasActiveFlow')
  BY <1>3, <1>4 DEF Ending
<1> QED
  BY <1>5, EndingKeeps DEF RecoverAtStartup, Now

LEMMA RestartKeeps ==
    ASSUME Now, NEW c \in Chargers, NEW a \in Amounts, CreateRestartCommand(c, a)
    PROVE  Now'
<1>1. "Restarting" \in ChargerStatus \ {"Occupied"}
  BY DEF ChargerStatus
<1>2. CASE ActiveOn(c) = {} /\ charger' = [charger EXCEPT ![c] = "Restarting"]
           /\ UNCHANGED <<flow, ticket, lastTicket, hasActiveFlow>>
  <2>1. charger[c] # "Occupied"
    BY <1>2, Unheld
  <2>2. /\ charger' \in [Chargers -> ChargerStatus]
        /\ \A d \in Chargers : charger'[d] = "Occupied" <=> charger[d] = "Occupied"
    BY <1>1, <1>2, <2>1, NowTyped
  <2>3. Typed(flow, charger', ticket, lastTicket, hasActiveFlow)
    BY <2>2, NowTyped DEF Typed
  <2>4. Ending({}, flow, charger', ticket, hasActiveFlow)
    BY <2>2, <2>3 DEF Ending
  <2> QED
    BY <1>2, <2>4, EndingKeeps DEF Now
<1>3. CASE \E f \in ActiveOn(c) : Release(f, "Restarting") \/ SettleWith(f, a, "Restarting")
  BY <1>1, <1>3, ReleaseKeeps, SettleKeeps DEF ActiveOn
<1> QED
  BY <1>2, <1>3 DEF CreateRestartCommand

\* What a new flow of u is, whether it holds charger c or waits.
Opened(f, u, p, s, c) == [flow EXCEPT ![f] = NewFlow(u, p, s, c)]
Mirrored(u) == hasActiveFlow' = [hasActiveFlow EXCEPT ![u] = TRUE]

LEMMA NewFlowFacts ==
    ASSUME Now, NEW u \in Users, ~HasActive(u), NEW p \in Pools, NEW f \in UnusedFlows,
           NEW s \in Active, NEW c \in Chargers \cup {None},
           Mirrored(u)
    PROVE  /\ f \in Flows /\ flow[f].status = "Unused" /\ ticket[f] = 0
           /\ Opened(f, u, p, s, c) \in [Flows -> FlowRecord]
           /\ Opened(f, u, p, s, c)[f] = NewFlow(u, p, s, c)
           /\ \A x \in Flows \ {f} : Opened(f, u, p, s, c)[x] = flow[x]
           /\ hasActiveFlow' \in [Users -> BOOLEAN]
           /\ Solo(Opened(f, u, p, s, c), hasActiveFlow')
<1> DEFINE fl == Opened(f, u, p, s, c)
<1>1. f \in Flows /\ flow[f].status = "Unused" /\ ticket[f] = 0
  BY NowTyped DEF UnusedFlows, Lined
<1>2. NewFlow(u, p, s, c) \in FlowRecord
  BY DEF NewFlow, FlowRecord
<1>3. /\ fl \in [Flows -> FlowRecord] /\ fl[f] = NewFlow(u, p, s, c)
      /\ fl[f].status = s /\ fl[f].charger = c /\ fl[f].pool = p /\ fl[f].user = u
      /\ \A x \in Flows \ {f} : fl[x] = flow[x]
  BY <1>1, <1>2, NowTyped DEF NewFlow, Opened
<1> HIDE DEF fl
<1>4. /\ hasActiveFlow' \in [Users -> BOOLEAN]
      /\ \A v \in Users : hasActiveFlow'[v] <=> hasActiveFlow[v] \/ v = u
  BY NowTyped, Zenon DEF Mirrored
<1>5. Solo(fl, hasActiveFlow')
  <2>1. \A x \in Flows : flow[x].status \in Active => flow[x].user # u /\ x # f
    BY <1>1 DEF HasActive, IsActive, Active
  <2>2. Solo(flow, hasActiveFlow)
    BY NowTyped
  <2>3. ASSUME NEW v \in Users
        PROVE  hasActiveFlow'[v] <=> \E x \in Flows : fl[x].status \in Active /\ fl[x].user = v
    <3>1. CASE v = u
      BY <1>1, <1>3, <1>4, <3>1
    <3>2. CASE v # u
      <4>1. \A x \in Flows : fl[x].status \in Active /\ fl[x].user = v <=>
                              flow[x].status \in Active /\ flow[x].user = v
        BY <1>1, <1>3, <2>1, <3>2 DEF Active
      <4> QED
        BY <1>4, <2>2, <3>2, <4>1 DEF Solo
    <3> QED
      BY <3>1, <3>2
  <2>4. ASSUME NEW x \in Flows, NEW y \in Flows, fl[x].status \in Active,
               fl[y].status \in Active, fl[x].user = fl[y].user
        PROVE  x = y
    BY <1>3, <2>1, <2>2, <2>4 DEF Solo
  <2>5. \A x \in Flows : fl[x].status \in Active => fl[x].user \in Users
    BY <1>3, <2>2 DEF Solo
  <2> QED
    BY <2>3, <2>4, <2>5 DEF Solo
<1> QED
  BY <1>1, <1>3, <1>4, <1>5 DEF fl

LEMMA CreateFlowKeeps ==
    ASSUME Now, NEW u \in Users, NEW p \in Pools, NEW preferred, CreateFlow(u, p, preferred)
    PROVE  Now'
<1> DEFINE T == StaleHeads(p)
           tk == Without(T)
<1>1. PICK g \in Grants(AllSteps({p}), IdleChargers) :
        LET left == {c \in IdleChargers : PoolOf[c] = p} \ Range(g)
        IN \/ Serve(g, flow, charger, tk) /\ UNCHANGED <<lastTicket, hasActiveFlow>>
           \/ \E f \in UnusedFlows, c \in left :
              /\ Serve(g, [flow EXCEPT ![f] = NewFlow(u, p, "PendingQuote", c)],
                       [charger EXCEPT ![c] = "Occupied"], tk)
              /\ hasActiveFlow' = [hasActiveFlow EXCEPT ![u] = TRUE]
              /\ UNCHANGED lastTicket
           \/ \E f \in UnusedFlows :
              /\ Serve(g, [flow EXCEPT ![f] = NewFlow(u, p, "Queued", None)],
                       charger, [tk EXCEPT ![f] = lastTicket + 1])
              /\ lastTicket' = lastTicket + 1
              /\ hasActiveFlow' = [hasActiveFlow EXCEPT ![u] = TRUE]
  BY DEF CreateFlow
<1>2. ~HasActive(u)
  BY DEF CreateFlow
<1>3. /\ IdleChargers \in SUBSET Chargers /\ \A c \in IdleChargers : charger[c] = "Idle"
      /\ \A x \in DOMAIN g : g[x] \in IdleChargers
  BY GrantFacts DEF IdleChargers
<1>4. \A x \in T : flow[x].status # "Queued"
  BY StaleNotQueued
<1> HIDE DEF T
<1>5. /\ tk \in [Flows -> Nat]
      /\ \A x \in Flows : tk[x] = ticket[x] \/ (tk[x] = 0 /\ flow[x].status # "Queued")
  BY <1>4, NowTyped, RowsKept
<1>6. /\ charger \in [Chargers -> ChargerStatus] /\ lastTicket \in Nat /\ Held(flow, charger)
      /\ Lined(flow, ticket, lastTicket)
  BY NowTyped
<1>7. CASE Serve(g, flow, charger, tk) /\ UNCHANGED <<lastTicket, hasActiveFlow>>
  BY <1>3, <1>4, <1>6, <1>7, RefitKeeps
<1> HIDE DEF tk
<1>8. ASSUME NEW f \in UnusedFlows, NEW c \in IdleChargers, PoolOf[c] = p, c \notin Range(g),
             Serve(g, [flow EXCEPT ![f] = NewFlow(u, p, "PendingQuote", c)],
                   [charger EXCEPT ![c] = "Occupied"], tk),
             hasActiveFlow' = [hasActiveFlow EXCEPT ![u] = TRUE], UNCHANGED lastTicket
      PROVE  Now'
  <2> DEFINE fl == Opened(f, u, p, "PendingQuote", c)
             ch == [charger EXCEPT ![c] = "Occupied"]
  <2>1. /\ f \in Flows /\ flow[f].status = "Unused" /\ ticket[f] = 0
        /\ fl \in [Flows -> FlowRecord]
        /\ fl[f].status = "PendingQuote" /\ fl[f].charger = c /\ fl[f].pool = p
        /\ \A x \in Flows \ {f} : fl[x] = flow[x]
        /\ hasActiveFlow' \in [Users -> BOOLEAN]
        /\ Solo(fl, hasActiveFlow')
    <3>1. "PendingQuote" \in Active /\ c \in Chargers \cup {None}
      BY <1>3 DEF Active
    <3>2. Mirrored(u)
      BY <1>8 DEF Mirrored
    <3>3. fl[f] = NewFlow(u, p, "PendingQuote", c)
      BY <1>2, <3>1, <3>2, NewFlowFacts
    <3> QED
      BY <1>2, <3>1, <3>2, <3>3, NewFlowFacts DEF NewFlow
  <2>2. /\ ch \in [Chargers -> ChargerStatus] /\ c \in Chargers /\ charger[c] = "Idle"
        /\ \A d \in Chargers : ch[d] = IF d = c THEN "Occupied" ELSE charger[d]
    BY <1>3, <1>6 DEF ChargerStatus
  <2> HIDE DEF fl, ch
  <2>3. Typed(fl, ch, tk, lastTicket, hasActiveFlow')
    BY <1>5, <1>6, <2>1, <2>2 DEF Typed
  <2>4. Held(fl, ch)
    <3>1. \A x \in Flows : flow[x].status \in Holding => flow[x].charger # c /\ x # f
      BY <1>6, <2>1, <2>2 DEF Held, Holding, Active
    <3>2. fl[f].status \in Holding /\ fl[f].status # "Queued"
      BY <2>1 DEF Holding, Active
    <3>3. ASSUME NEW d \in Chargers
          PROVE  ch[d] = "Occupied" <=>
                   \E x \in Flows : fl[x].status \in Holding /\ fl[x].charger = d
      <4>1. CASE d = c
        BY <2>1, <2>2, <3>2, <4>1
      <4>2. CASE d # c
        BY <1>6, <2>1, <2>2, <3>1, <4>2 DEF Held
      <4> QED
        BY <4>1, <4>2
    <3>4. \A x \in Flows : fl[x].status \in Holding =>
            fl[x].charger \in Chargers /\ PoolOf[fl[x].charger] = fl[x].pool
      BY <1>6, <1>8, <2>1, <2>2 DEF Held
    <3>5. \A x, y \in Flows :
            /\ fl[x].status \in Holding /\ fl[y].status \in Holding
            /\ fl[x].charger = fl[y].charger
            => x = y
      BY <1>6, <2>1, <3>1 DEF Held
    <3>6. \A x \in Flows : fl[x].status = "Queued" => fl[x].charger = None
      BY <1>6, <2>1, <3>2 DEF Held
    <3> QED
      BY <3>3, <3>4, <3>5, <3>6 DEF Held
  <2>5. Lined(fl, tk, lastTicket)
    <3>1. \A x \in Flows : /\ fl[x].status = "Queued" <=> flow[x].status = "Queued"
                          /\ tk[x] = ticket[x]
      BY <1>5, <1>6, <2>1, NowTyped DEF Lined
    <3> QED
      BY <1>6, <3>1 DEF Lined
  <2>6. Good(fl, ch, tk, lastTicket, hasActiveFlow')
    BY <2>1, <2>3, <2>4, <2>5 DEF Good
  <2>7. \A x \in DOMAIN g : ch[g[x]] = "Idle"
    BY <1>3, <1>8, <2>2 DEF Range
  <2>8. \A x \in Flows : flow[x].status = "Queued" => fl[x] = flow[x]
    BY <2>1
  <2>9. Serve(g, fl, ch, tk)
    BY <1>8 DEF fl, ch, Opened
  <2> QED
    BY <1>3, <1>8, <2>6, <2>7, <2>8, <2>9, ServeKeeps DEF Now
<1>9. ASSUME NEW f \in UnusedFlows,
             Serve(g, [flow EXCEPT ![f] = NewFlow(u, p, "Queued", None)],
                   charger, [tk EXCEPT ![f] = lastTicket + 1]),
             hasActiveFlow' = [hasActiveFlow EXCEPT ![u] = TRUE], lastTicket' = lastTicket + 1
      PROVE  Now'
  <2> DEFINE fl == Opened(f, u, p, "Queued", None)
             row == [tk EXCEPT ![f] = lastTicket + 1]
  <2>1. /\ f \in Flows /\ flow[f].status = "Unused" /\ ticket[f] = 0
        /\ fl \in [Flows -> FlowRecord]
        /\ fl[f].status = "Queued" /\ fl[f].charger = None
        /\ \A x \in Flows \ {f} : fl[x] = flow[x]
        /\ hasActiveFlow' \in [Users -> BOOLEAN]
        /\ Solo(fl, hasActiveFlow')
    <3>1. "Queued" \in Active /\ None \in Chargers \cup {None}
      BY DEF Active
    <3>2. Mirrored(u)
      BY <1>9 DEF Mirrored
    <3>3. fl[f] = NewFlow(u, p, "Queued", None)
      BY <1>2, <3>1, <3>2, NewFlowFacts
    <3> QED
      BY <1>2, <3>1, <3>2, <3>3, NewFlowFacts DEF NewFlow
  <2>2. /\ row \in [Flows -> Nat] /\ lastTicket + 1 \in Nat
        /\ row[f] = lastTicket + 1 /\ \A x \in Flows \ {f} : row[x] = tk[x]
    BY <1>5, <1>6, <2>1
  <2> HIDE DEF fl, row
  <2>3. Typed(fl, charger, row, lastTicket', hasActiveFlow')
    BY <1>6, <1>9, <2>1, <2>2 DEF Typed
  <2>4. Held(fl, charger)
    BY <1>6, <2>1 DEF Held, Holding, Active
  <2>5. Lined(fl, row, lastTicket')
    <3>1. \A x \in Flows \ {f} : /\ fl[x].status = flow[x].status
                                 /\ row[x] = ticket[x] /\ ticket[x] <= lastTicket
                                 /\ ticket[x] \in Nat
      BY <1>5, <1>6, <2>1, <2>2, NowTyped DEF Lined
    <3> QED
      BY <1>6, <1>9, <2>1, <2>2, <3>1 DEF Lined
  <2>6. Good(fl, charger, row, lastTicket', hasActiveFlow')
    BY <2>1, <2>3, <2>4, <2>5 DEF Good
  <2>7. \A x \in DOMAIN g : charger[g[x]] = "Idle"
    BY <1>3
  <2>8. \A x \in Flows : flow[x].status = "Queued" => fl[x] = flow[x]
    BY <2>1
  <2>9. Serve(g, fl, charger, row)
    BY <1>9 DEF fl, row, Opened
  <2> QED
    BY <1>3, <1>9, <2>6, <2>7, <2>8, <2>9, ServeKeeps DEF Now
<1> QED
  BY <1>1, <1>7, <1>8, <1>9

-----------------------------------------------------------------------------
(***************************************************************************)
(* The types of what Now does not speak of.                                *)
(***************************************************************************)
Rest ==
    /\ account \in [Users -> {"Active", "Frozen", "Deleted"}]
    /\ wallet \in [Users -> [balance: Nat, debt: Nat]]
    /\ recharged \in [Users -> Nat]
    /\ enabled \in [Stations -> BOOLEAN]
    /\ tariff \in [Stations -> BOOLEAN]
    /\ commands \in [Chargers -> [waiting: Nat, due: Nat]]
    /\ order \in [Flows -> OrderRecord]

OrderStatus == {"None"} \cup Active \cup Terminal

\* What becomes of an order: another status, a start, a settlement.
OrderTo(r, s) == [r EXCEPT !.status = s]
OrderStarted(r, s) == [r EXCEPT !.status = s, !.started = TRUE]
OrderPaid(r, s, a, b) == [r EXCEPT !.status = s, !.amount = a, !.paid = b]

LEMMA OrderTyped ==
    ASSUME NEW r \in OrderRecord, NEW s \in OrderStatus, NEW a \in Nat, NEW b \in Nat
    PROVE  /\ OrderTo(r, s) \in OrderRecord
           /\ OrderStarted(r, s) \in OrderRecord
           /\ OrderPaid(r, s, a, b) \in OrderRecord
<1>1. OrderTo(r, s) \in OrderRecord
  BY DEF OrderRecord, OrderStatus, OrderTo
<1>2. OrderStarted(r, s) \in OrderRecord
  BY DEF OrderRecord, OrderStatus, OrderStarted
<1>3. OrderPaid(r, s, a, b) \in OrderRecord
  BY DEF OrderRecord, OrderStatus, OrderPaid
<1> QED
  BY <1>1, <1>2, <1>3

LEMMA StatusesTyped ==
    /\ Active \subseteq OrderStatus /\ Terminal \subseteq OrderStatus
    /\ {"Reserved", "Charging", "SettlementFailed"} \subseteq Active
    /\ {"Completed", "Cancelled", "Expired"} \subseteq Terminal
BY DEF OrderStatus, Active, Terminal

LEMMA CloseOrderTyped ==
    ASSUME Rest, NEW f \in Flows, NEW s \in Terminal, CloseOrder(f, s)
    PROVE  order' \in [Flows -> OrderRecord]
<1>1. order \in [Flows -> OrderRecord] /\ order[f] \in OrderRecord
  BY DEF Rest
<1>2. order' = [order EXCEPT ![f] = OrderTo(order[f],
                                IF order[f].status \in Active THEN s ELSE order[f].status)]
  BY DEF CloseOrder, OrderTo
<1>3. order[f].status \in OrderStatus
  BY <1>1 DEF OrderRecord, OrderStatus
<1>4. \A t \in OrderStatus : OrderTo(order[f], t) \in OrderRecord
  BY <1>1, OrderTyped
<1> QED
  BY <1>1, <1>2, <1>3, <1>4, StatusesTyped

\* Paying from the wallet leaves natural numbers.
LEMMA PaidTyped ==
    ASSUME Rest, NEW u \in Users, NEW a \in Amounts
    PROVE  /\ Paid(u, a) \in Nat
           /\ Charged(u, a) \in [Users -> [balance: Nat, debt: Nat]]
<1>1. /\ a \in Nat /\ wallet[u].balance \in Nat /\ wallet[u].debt \in Nat
      /\ wallet \in [Users -> [balance: Nat, debt: Nat]]
  BY ChargeFlowAssumption DEF Rest
<1>2. /\ Paid(u, a) \in Nat /\ a - Paid(u, a) \in Nat
      /\ wallet[u].balance - Paid(u, a) \in Nat
      /\ wallet[u].debt + (a - Paid(u, a)) \in Nat
  BY <1>1 DEF Paid
<1>3. Charged(u, a) \in [Users -> [balance: Nat, debt: Nat]]
  BY <1>1, <1>2 DEF Charged
<1> QED
  BY <1>2, <1>3

LEMMA CreditedTyped ==
    ASSUME Rest, NEW u \in Users, NEW a \in Amounts
    PROVE  Credited(u, a) \in [Users -> [balance: Nat, debt: Nat]]
<1> DEFINE debtPaid == IF wallet[u].debt < a THEN wallet[u].debt ELSE a
<1>1. /\ a \in Nat /\ wallet[u].balance \in Nat /\ wallet[u].debt \in Nat
      /\ wallet \in [Users -> [balance: Nat, debt: Nat]]
  BY ChargeFlowAssumption DEF Rest
<1>2. wallet[u].balance + (a - debtPaid) \in Nat /\ wallet[u].debt - debtPaid \in Nat
  BY <1>1
<1>3. Credited(u, a) = [wallet EXCEPT ![u].balance = wallet[u].balance + (a - debtPaid),
                                      ![u].debt = wallet[u].debt - debtPaid]
  BY DEF Credited
<1> HIDE DEF debtPaid
<1> QED
  BY ZenonT(60), <1>1, <1>2, <1>3

LEMMA RestUnchanged ==
    ASSUME Rest,
           UNCHANGED <<account, wallet, recharged, enabled, tariff, commands, order>>
    PROVE  Rest'
BY DEF Rest

LEMMA ReleaseTyped ==
    ASSUME Rest, NEW f \in Flows, NEW next, Release(f, next)
    PROVE  order' \in [Flows -> OrderRecord]
BY CloseOrderTyped, StatusesTyped DEF Release

LEMMA SettleTyped ==
    ASSUME Rest, Now, NEW f \in Flows, NEW a \in Amounts, NEW next, SettleWith(f, a, next)
    PROVE  /\ wallet' \in [Users -> [balance: Nat, debt: Nat]]
           /\ order' \in [Flows -> OrderRecord]
<1> DEFINE u == flow[f].user
<1>1. u \in Users
  BY NowTyped DEF SettleWith, Settleable, Solo, Active
<1>2. wallet' = Charged(u, a)
  BY DEF SettleWith
<1>3. order' = [order EXCEPT ![f] = OrderPaid(order[f], "Completed", a, Paid(u, a))]
  BY DEF SettleWith, OrderPaid
<1>4. a \in Nat /\ order \in [Flows -> OrderRecord] /\ order[f] \in OrderRecord
  BY ChargeFlowAssumption DEF Rest
<1>5. "Completed" \in OrderStatus
  BY StatusesTyped
<1> HIDE DEF u
<1> QED
  BY <1>1, <1>2, <1>3, <1>4, <1>5, PaidTyped, OrderTyped

LEMMA UserRest == ASSUME Rest, Now, UserNext PROVE Rest'
<1>1. ASSUME NEW u \in Users, NEW p \in Pools, NEW c, CreateFlow(u, p, c) PROVE Rest'
  BY <1>1, RestUnchanged DEF CreateFlow
<1>2. ASSUME NEW u \in Users, NEW a \in Amounts, Recharge(u, a) PROVE Rest'
  <2>1. wallet' \in [Users -> [balance: Nat, debt: Nat]]
    BY <1>2, CreditedTyped DEF Recharge
  <2>2. recharged' \in [Users -> Nat]
    BY <1>2, ChargeFlowAssumption DEF Rest, Recharge
  <2> QED
    BY <1>2, <2>1, <2>2 DEF Rest, Recharge
<1>3. ASSUME NEW u \in Users, Anonymize(u) PROVE Rest'
  BY <1>3 DEF Rest, Anonymize
<1>4. ASSUME NEW f \in Flows, ConfirmQuote(f) PROVE Rest'
  <2>1. order' = [order EXCEPT ![f] = OrderTo(order[f], "Reserved")]
    BY <1>4 DEF ConfirmQuote, OrderTo
  <2>2. OrderTo(order[f], "Reserved") \in OrderRecord
    BY OrderTyped, StatusesTyped DEF Rest
  <2> QED
    BY <1>4, <2>1, <2>2 DEF Rest, ConfirmQuote
<1>5. ASSUME NEW f \in Flows, Cancel(f) PROVE Rest'
  <2>1. order' \in [Flows -> OrderRecord]
    BY <1>5, CloseOrderTyped, StatusesTyped DEF Cancel
  <2> QED
    BY <1>5, <2>1 DEF Rest, Cancel
<1>6. ASSUME NEW f \in Flows, Start(f) PROVE Rest'
  <2>1. order' = [order EXCEPT ![f] = OrderStarted(order[f], "Charging")]
    BY <1>6 DEF Start, OrderStarted
  <2>2. OrderStarted(order[f], "Charging") \in OrderRecord
    BY OrderTyped, StatusesTyped DEF Rest
  <2> QED
    BY ZenonT(60), <1>6, <2>1, <2>2 DEF Rest, Start
<1>7. ASSUME NEW f \in Flows, SettleFails(f) PROVE Rest'
  <2>1. order' = [order EXCEPT ![f] = OrderTo(order[f],
                    IF order[f].status = "None" THEN order[f].status ELSE "SettlementFailed")]
    BY <1>7 DEF SettleFails, OrderTo
  <2>2. "None" \in OrderStatus /\ "SettlementFailed" \in OrderStatus
    BY StatusesTyped DEF OrderStatus
  <2>3. \A t \in OrderStatus : OrderTo(order[f], t) \in OrderRecord
    BY OrderTyped DEF Rest
  <2>4. order' \in [Flows -> OrderRecord]
    BY <2>1, <2>2, <2>3 DEF Rest
  <2> QED
    BY <1>7, <2>4 DEF Rest, SettleFails
<1>8. ASSUME NEW f \in Flows, NEW a \in Amounts, Settle(f, a) PROVE Rest'
  <2>1. SettleWith(f, a, "Idle")
    BY <1>8 DEF Settle
  <2> QED
    BY <1>8, <2>1, SettleTyped DEF Rest, Settle, SettleWith
<1> QED
  BY <1>1, <1>2, <1>3, <1>4, <1>5, <1>6, <1>7, <1>8 DEF UserNext

LEMMA ServerRest == ASSUME Rest, Now, ServerNext PROVE Rest'
<1>1. CASE RunMaintenance
  <2>1. order' = [f \in Flows |->
                    IF f \in TimedOut /\ order[f].status # "None"
                    THEN OrderTo(order[f], "Expired") ELSE order[f]]
    BY <1>1 DEF RunMaintenance, OrderTo
  <2>2. \A f \in Flows : OrderTo(order[f], "Expired") \in OrderRecord
    BY OrderTyped, StatusesTyped DEF Rest
  <2>3. order' \in [Flows -> OrderRecord]
    BY <2>1, <2>2 DEF Rest
  <2> QED
    BY <1>1, <2>3 DEF Rest, RunMaintenance
<1>2. CASE RecoverAtStartup
  BY <1>2, RestUnchanged DEF RecoverAtStartup
<1>3. CASE CompleteDueCommands
  <2>1. commands' \in [Chargers -> [waiting: Nat, due: Nat]]
    BY <1>3 DEF Rest, CompleteDueCommands
  <2> QED
    BY <1>3, <2>1 DEF Rest, CompleteDueCommands
<1> QED
  BY <1>1, <1>2, <1>3 DEF ServerNext

LEMMA AdminRest == ASSUME Rest, Now, AdminNext PROVE Rest'
<1>1. ASSUME NEW f \in Flows, NEW next, ForceRelease(f, next) PROVE Rest'
  <2>1. Release(f, next)
    BY <1>1 DEF ForceRelease
  <2> QED
    BY <1>1, <2>1, ReleaseTyped DEF Rest, ForceRelease, Release
<1>2. ASSUME NEW c \in Chargers, NEW a \in Amounts, CreateRestartCommand(c, a) PROVE Rest'
  <2>1. commands' \in [Chargers -> [waiting: Nat, due: Nat]]
    BY <1>2 DEF Rest, CreateRestartCommand
  <2>2. CASE UNCHANGED <<account, wallet, recharged, enabled, tariff, order>>
    BY <2>1, <2>2 DEF Rest
  <2>3. CASE \E f \in ActiveOn(c) : Release(f, "Restarting")
    <3>1. PICK f \in Flows : Release(f, "Restarting")
      BY <2>3 DEF ActiveOn
    <3> QED
      BY <2>1, <3>1, ReleaseTyped DEF Rest, Release
  <2>4. CASE \E f \in ActiveOn(c) : SettleWith(f, a, "Restarting")
    <3>1. PICK f \in Flows : SettleWith(f, a, "Restarting")
      BY <2>4 DEF ActiveOn
    <3> QED
      BY <2>1, <3>1, SettleTyped DEF Rest, SettleWith
  <2> QED
    BY <1>2, <2>2, <2>3, <2>4 DEF CreateRestartCommand
<1>3. ASSUME NEW c, NEW target, SetChargerStatus(c, target) PROVE Rest'
  BY <1>3, RestUnchanged DEF SetChargerStatus
<1>4. ASSUME NEW s \in Stations, EnableStation(s) PROVE Rest'
  BY <1>4 DEF Rest, EnableStation
<1>5. ASSUME NEW s \in Stations, DisableStation(s) PROVE Rest'
  BY <1>5 DEF Rest, DisableStation
<1>6. ASSUME NEW s, NEW batch, CreateChargers(s, batch) PROVE Rest'
  BY <1>6, RestUnchanged DEF CreateChargers
<1>7. ASSUME NEW u, NEW status \in {"Active", "Frozen"}, UpdateUserStatus(u, status)
      PROVE  Rest'
  BY <1>7 DEF Rest, UpdateUserStatus
<1> QED
  BY <1>1, <1>2, <1>3, <1>4, <1>5, <1>6, <1>7 DEF AdminNext

LEMMA ClockRest == ASSUME Rest, ClockNext PROVE Rest'
<1>1. ASSUME NEW f, DeadlinePasses(f) PROVE Rest'
  BY <1>1, RestUnchanged DEF DeadlinePasses
<1>2. ASSUME NEW c \in Chargers, CommandIsDue(c) PROVE Rest'
  <2>1. commands[c].waiting \in Nat /\ commands[c].due \in Nat /\ commands[c].waiting > 0
    BY <1>2 DEF Rest, CommandIsDue
  <2>2. commands' = [commands EXCEPT ![c] = [waiting |-> commands[c].waiting - 1,
                                             due |-> commands[c].due + 1]]
    BY <1>2 DEF CommandIsDue
  <2>3. commands' \in [Chargers -> [waiting: Nat, due: Nat]]
    BY <2>1, <2>2 DEF Rest
  <2> QED
    BY <1>2, <2>3 DEF Rest, CommandIsDue
<1>3. ASSUME NEW s \in Stations, TariffChanges(s) PROVE Rest'
  BY <1>3 DEF Rest, TariffChanges
<1> QED
  BY <1>1, <1>2, <1>3 DEF ClockNext

-----------------------------------------------------------------------------
(***************************************************************************)
(* Deleted accounts have no active flow.                                   *)
(***************************************************************************)
Quiet == \A u \in Users : account[u] = "Deleted" => ~hasActiveFlow[u]

LEMMA QuietKept ==
    ASSUME Quiet, UNCHANGED account, \A u \in Users : hasActiveFlow'[u] => hasActiveFlow[u]
    PROVE  Quiet'
BY DEF Quiet

\* A mirror flag that is put down raises no other.
LEMMA FlagDown ==
    ASSUME Now, Quiet, NEW v, hasActiveFlow' = [hasActiveFlow EXCEPT ![v] = FALSE],
           UNCHANGED account
    PROVE  Quiet'
<1>1. \A u \in Users : hasActiveFlow'[u] => hasActiveFlow[u]
  BY NowTyped, Zenon
<1> QED
  BY <1>1, QuietKept

LEMMA UserQuiet == ASSUME Now, Rest, Quiet, UserNext PROVE Quiet'
<1>1. ASSUME NEW u \in Users, NEW p \in Pools, NEW c, CreateFlow(u, p, c) PROVE Quiet'
  <2>1. account[u] = "Active" /\ UNCHANGED account
    BY <1>1 DEF CreateFlow, MayOccupy
  <2>2. \/ UNCHANGED hasActiveFlow
        \/ hasActiveFlow' = [hasActiveFlow EXCEPT ![u] = TRUE]
    BY <1>1 DEF CreateFlow
  <2>3. \A v \in Users : hasActiveFlow'[v] => hasActiveFlow[v] \/ v = u
    BY <2>2, NowTyped, Zenon
  <2> QED
    BY <2>1, <2>3 DEF Quiet
<1>2. ASSUME NEW u, NEW a, Recharge(u, a) PROVE Quiet'
  BY <1>2 DEF Quiet, Recharge
<1>3. ASSUME NEW u \in Users, Anonymize(u) PROVE Quiet'
  BY <1>3 DEF Quiet, Anonymize, Rest
<1>4. ASSUME NEW f, ConfirmQuote(f) PROVE Quiet'
  BY <1>4 DEF Quiet, ConfirmQuote
<1>5. ASSUME NEW f, Start(f) PROVE Quiet'
  BY <1>5 DEF Quiet, Start
<1>6. ASSUME NEW f, Cancel(f) PROVE Quiet'
  BY <1>6, FlagDown DEF Cancel
<1>7. ASSUME NEW f \in Flows, SettleFails(f) PROVE Quiet'
  <2>1. hasActiveFlow[flow[f].user] /\ flow[f].user \in Users
    BY <1>7, NowTyped DEF SettleFails, Settleable, Solo, Active
  <2>2. UNCHANGED account /\ hasActiveFlow' = [hasActiveFlow EXCEPT ![flow[f].user] = TRUE]
    BY <1>7 DEF SettleFails
  <2>3. \A u \in Users : hasActiveFlow'[u] => hasActiveFlow[u]
    BY <2>1, <2>2, NowTyped, Zenon
  <2> QED
    BY <2>2, <2>3, QuietKept
<1>8. ASSUME NEW f, NEW a, Settle(f, a) PROVE Quiet'
  BY <1>8, FlagDown DEF Settle, SettleWith
<1> QED
  BY <1>1, <1>2, <1>3, <1>4, <1>5, <1>6, <1>7, <1>8 DEF UserNext

LEMMA ServerQuiet == ASSUME Now, Quiet, ServerNext PROVE Quiet'
<1>1. CASE RunMaintenance
  <2>1. \A u \in Users : hasActiveFlow'[u] => hasActiveFlow[u]
    BY <1>1, Zenon DEF RunMaintenance
  <2> QED
    BY <1>1, <2>1, QuietKept DEF RunMaintenance
<1>2. CASE RecoverAtStartup
  <2>1. \A u \in Users : HasActive(u) => hasActiveFlow[u]
    BY NowTyped DEF HasActive, IsActive, Solo
  <2>2. \A u \in Users : hasActiveFlow'[u] => hasActiveFlow[u]
    BY <1>2, <2>1, Zenon DEF RecoverAtStartup, RepairedMirror
  <2> QED
    BY <1>2, <2>2, QuietKept DEF RecoverAtStartup
<1>3. CASE CompleteDueCommands
  BY <1>3 DEF Quiet, CompleteDueCommands
<1> QED
  BY <1>1, <1>2, <1>3 DEF ServerNext

LEMMA AdminQuiet == ASSUME Now, Rest, Quiet, AdminNext PROVE Quiet'
<1>1. ASSUME NEW f, NEW next, ForceRelease(f, next) PROVE Quiet'
  BY <1>1, FlagDown DEF ForceRelease, Release
<1>2. ASSUME NEW c, NEW a, CreateRestartCommand(c, a) PROVE Quiet'
  <2>1. CASE UNCHANGED <<account, hasActiveFlow>>
    BY <2>1 DEF Quiet
  <2>2. CASE \E f \in ActiveOn(c) : Release(f, "Restarting")
    BY <2>2, FlagDown DEF Release
  <2>3. CASE \E f \in ActiveOn(c) : SettleWith(f, a, "Restarting")
    BY <2>3, FlagDown DEF SettleWith
  <2> QED
    BY <1>2, <2>1, <2>2, <2>3 DEF CreateRestartCommand
<1>3. ASSUME NEW c, NEW target, SetChargerStatus(c, target) PROVE Quiet'
  BY <1>3 DEF Quiet, SetChargerStatus
<1>4. ASSUME NEW s, EnableStation(s) PROVE Quiet'
  BY <1>4 DEF Quiet, EnableStation
<1>5. ASSUME NEW s, DisableStation(s) PROVE Quiet'
  BY <1>5 DEF Quiet, DisableStation
<1>6. ASSUME NEW s, NEW batch, CreateChargers(s, batch) PROVE Quiet'
  BY <1>6 DEF Quiet, CreateChargers
<1>7. ASSUME NEW u, NEW status \in {"Active", "Frozen"}, UpdateUserStatus(u, status)
      PROVE  Quiet'
  BY <1>7 DEF Quiet, UpdateUserStatus, Rest
<1> QED
  BY <1>1, <1>2, <1>3, <1>4, <1>5, <1>6, <1>7 DEF AdminNext

LEMMA ClockQuiet == ASSUME Quiet, ClockNext PROVE Quiet'
<1>1. UNCHANGED <<account, hasActiveFlow>>
  BY DEF ClockNext, DeadlinePasses, CommandIsDue, TariffChanges
<1> QED
  BY <1>1 DEF Quiet

-----------------------------------------------------------------------------
(***************************************************************************)
(* The inductive invariant and what follows from it.                       *)
(***************************************************************************)
IInv == Rest /\ Now /\ Quiet

LEMMA InitInv == ASSUME Init PROVE IInv
<1>1. UnusedFlow \in FlowRecord /\ UnusedFlow.status = "Unused"
  BY DEF UnusedFlow, FlowRecord
<1>2. NoOrder \in OrderRecord
  BY DEF NoOrder, OrderRecord
<1>3. Typed(flow, charger, ticket, lastTicket, hasActiveFlow)
  BY <1>1 DEF Init, Typed, ChargerStatus
<1>4. "Unused" \notin Active /\ "Unused" \notin Holding
  BY DEF Active, Holding
<1>5. Held(flow, charger)
  BY <1>1, <1>4 DEF Init, Held
<1>6. Lined(flow, ticket, lastTicket)
  BY <1>1 DEF Init, Lined
<1>7. Solo(flow, hasActiveFlow)
  BY <1>1, <1>4 DEF Init, Solo
<1>8. Rest
  BY <1>2, ChargeFlowAssumption DEF Init, Rest
<1>9. Quiet
  BY DEF Init, Quiet
<1> QED
  BY <1>3, <1>5, <1>6, <1>7, <1>8, <1>9 DEF IInv, Now, Good

LEMMA NowStep == ASSUME Now, Next PROVE Now'
<1>1. CASE UserNext
  <2>1. ASSUME NEW u \in Users, NEW a, Recharge(u, a) PROVE Now'
    BY <2>1, NowUnchanged DEF Recharge
  <2>2. ASSUME NEW u \in Users, Anonymize(u) PROVE Now'
    BY <2>2, NowUnchanged DEF Anonymize
  <2>3. ASSUME NEW f \in Flows, NEW a, Settle(f, a) PROVE Now'
    BY <2>3, SettleKeeps DEF Settle, ChargerStatus
  <2> QED
    BY <1>1, <2>1, <2>2, <2>3, CreateFlowKeeps, ConfirmKeeps, CancelKeeps, StartKeeps,
       SettleFailsKeeps DEF UserNext
<1>2. CASE ServerNext
  BY <1>2, MaintenanceKeeps, RecoverKeeps, CommandsKeep DEF ServerNext
<1>3. CASE AdminNext
  <2>1. ASSUME NEW f \in Flows, NEW next \in AdminStatuses, ForceRelease(f, next) PROVE Now'
    <3>1. next \in ChargerStatus \ {"Occupied"} /\ Release(f, next)
      BY <2>1, ChargeFlowAssumption DEF ForceRelease, ChargerStatus
    <3> QED
      BY <3>1, ReleaseKeeps
  <2>2. ASSUME NEW s, DisableStation(s) PROVE Now'
    BY <2>2, NowUnchanged DEF DisableStation
  <2>3. ASSUME NEW u, NEW status, UpdateUserStatus(u, status) PROVE Now'
    BY <2>3, NowUnchanged DEF UpdateUserStatus
  <2> QED
    BY <1>3, <2>1, <2>2, <2>3, RestartKeeps, StatusKeeps, CreateChargersKeep, EnableKeeps
    DEF AdminNext
<1>4. CASE ClockNext
  <2>1. ASSUME NEW c, CommandIsDue(c) PROVE Now'
    BY <2>1, NowUnchanged DEF CommandIsDue
  <2>2. ASSUME NEW s, TariffChanges(s) PROVE Now'
    BY <2>2, NowUnchanged DEF TariffChanges
  <2> QED
    BY <1>4, <2>1, <2>2, DeadlineKeeps DEF ClockNext
<1> QED
  BY <1>1, <1>2, <1>3, <1>4 DEF Next

LEMMA StepInv == ASSUME IInv, [Next]_vars PROVE IInv'
<1>1. CASE Next
  <2>1. Rest'
    BY <1>1, UserRest, ServerRest, AdminRest, ClockRest DEF IInv, Next
  <2>2. Now'
    BY <1>1, NowStep DEF IInv
  <2>3. Quiet'
    BY <1>1, UserQuiet, ServerQuiet, AdminQuiet, ClockQuiet DEF IInv, Next
  <2> QED
    BY <2>1, <2>2, <2>3 DEF IInv
<1>2. CASE UNCHANGED vars
  BY <1>2, NowUnchanged, RestUnchanged DEF IInv, Quiet, vars
<1> QED
  BY <1>1, <1>2

\* The invariant holds in every reachable state.
THEOREM Invariant == Spec => []IInv
<1>1. Init => IInv
  BY InitInv
<1>2. IInv /\ [Next]_vars => IInv'
  BY StepInv
<1> QED
  BY <1>1, <1>2, PTL DEF Spec

\* Every variable keeps its type: no wallet goes below zero, no flow or
\* charger leaves its statuses.
THEOREM TypeCorrect == Spec => []TypeOK
<1>1. IInv => TypeOK
  BY DEF IInv, Rest, Now, Good, Typed, TypeOK
<1> QED
  BY <1>1, Invariant, PTL

\* A charger is occupied exactly when one flow, of its own pool, holds it:
\* releases, expiries, settlements, restarts and promotions hand chargers on
\* without a gap and without a second holder.
THEOREM ChargerExclusive == Spec => []ChargerHeldByOne
<1>1. IInv => ChargerHeldByOne
  <2> SUFFICES ASSUME IInv PROVE ChargerHeldByOne
    OBVIOUS
  <2>1. Held(flow, charger)
    BY NowTyped DEF IInv
  <2>2. \A c \in Chargers : charger[c] = "Occupied" <=> HoldersOf(c) # {}
    BY <2>1 DEF Held, HoldersOf
  <2>3. \A c \in Chargers : \A f, g \in HoldersOf(c) : f = g
    BY <2>1 DEF Held, HoldersOf
  <2> QED
    BY <2>1, <2>2, <2>3 DEF Held, ChargerHeldByOne
<1> QED
  BY <1>1, Invariant, PTL

\* The rows of flow_queue are exactly the queued flows, each at a place of
\* its own: no promotion, cancellation or stale row breaks the line.
THEOREM QueueExact == Spec => []QueueIsExactlyTheQueued
<1>1. IInv => QueueIsExactlyTheQueued
  BY NowTyped DEF IInv, Lined, QueueIsExactlyTheQueued
<1> QED
  BY <1>1, Invariant, PTL

\* A user never has two flows that are unsettled, uncancelled and unexpired.
THEOREM OneFlowPerUser == Spec => []OneActiveFlowPerUser
<1>1. IInv => OneActiveFlowPerUser
  BY NowTyped DEF IInv, Solo, OneActiveFlowPerUser, Unsettled
<1> QED
  BY <1>1, Invariant, PTL

\* An account is deleted only without an active flow and gets none later.
THEOREM DeletedStayQuiet == Spec => []DeletedUsersAreQuiet
<1>1. IInv => DeletedUsersAreQuiet
  <2> SUFFICES ASSUME IInv, NEW u \in Users, account[u] = "Deleted" PROVE Unsettled(u) = {}
    BY DEF DeletedUsersAreQuiet
  <2>1. ~hasActiveFlow[u] /\ Solo(flow, hasActiveFlow)
    BY NowTyped DEF IInv, Quiet
  <2> QED
    BY <2>1 DEF Solo, Unsettled
<1> QED
  BY <1>1, Invariant, PTL

\* The flag that guards account deletion says the truth in every state, also
\* between a crash and the repair at startup, and every column keeps its type.
THEOREM MirrorCorrect == Spec => []MirrorExact
<1>1. IInv => TypeOK
  BY DEF IInv, Rest, Now, Good, Typed, TypeOK
<1>2. IInv => \A u \in Users : hasActiveFlow[u] <=> Unsettled(u) # {}
  BY NowTyped DEF IInv, Solo, Unsettled
<1>3. IInv /\ DeletedUsersAreQuiet => MirrorExact
  BY <1>1, <1>2 DEF MirrorExact
<1> QED
  BY <1>3, Invariant, DeletedStayQuiet, PTL
=============================================================================

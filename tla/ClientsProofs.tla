---------------------------- MODULE ClientsProofs ----------------------------
(***************************************************************************)
(* The settlement, for every price and balance and any number of attempts; *)
(* and the apps, for every scene: however many sessions, flows, keys, taps *)
(* and losses there are.  Two things decide about the settlement: what the *)
(* open transaction sees after each statement, and that nobody else writes *)
(* to the flow or its charger while the transaction is open.  Two decide   *)
(* about the apps: what every key was made for, and that whatever was done *)
(* for it left a trace by which the server knows, the stored answer or the *)
(* completed flow.  What they show, and what holds their buttons, is tied  *)
(* to the requests under way, of each page, session and generation.        *)
(***************************************************************************)
EXTENDS Clients, SequenceTheorems, TLAPS, FiniteSetTheorems

-----------------------------------------------------------------------------
(* The settlement. *)

\* The callers whose transactions roll back: the route, as long as no statement
\* of it throws, and whoever calls the service directly.
RollsBack == ~(caller.nested /\ caller.throws)

\* The flow is not settled, and nothing of a settlement has happened to it.
Untouched(w) ==
    /\ w.flow \in {"Charging", "SettlementFailed"} /\ w.order = w.flow
    /\ w.charger = "Held" /\ w.flag
    /\ w.balance = Opening /\ w.debt = 0 /\ w.ledger = 0

SettledRow(w) ==
    /\ w.flow = "Completed" /\ w.order = "Completed"
    /\ w.charger # "Held" /\ ~w.flag
    /\ w.balance + Price = Opening + w.debt /\ w.ledger = 1

\* What the first n - 1 statements have made of a flow that was not settled.
Halfway(w, n) ==
    /\ w.flow = IF n > 6 THEN "Completed" ELSE IF n > 1 THEN "Settling" ELSE db.flow
    /\ IF n > 2 THEN w.charger = "Idle" \/ (n > 8 /\ w.charger = "Other") ELSE w.charger = "Held"
    /\ IF n > 3 THEN w.balance + Price = Opening + w.debt ELSE w.balance = Opening /\ w.debt = 0
    /\ w.ledger = IF n > 4 THEN 1 ELSE 0
    /\ w.order = IF n > 5 THEN "Completed" ELSE db.flow
    /\ w.flag <=> n < 8
    /\ w.key = db.key

\* Whoever has the charger after this flow has it when the flow has ended.
Gone(w) == w.charger = "Other" => w.flow = "Completed"

\* A transaction is open only on a flow that can be settled; it sees the
\* charger as it was or as its own statements left it, and only the last of
\* them gives it away.
Alone ==
    /\ Gone(db)
    /\ stage \in {"Running", "Failed"} =>
           Settleable(db) /\ db.charger # "Other" /\ Gone(work)
    /\ stage = "Running" /\ next < 9 => work.charger # "Other"

\* After the sixth statement the open transaction sees the flow completed.
Ends == stage = "Running" /\ next > 6 => work.flow = "Completed"

\* What the committed rows and the open transaction say of each other.
Whole ==
    RollsBack =>
      /\ Untouched(db) \/ SettledRow(db)
      /\ stage = "Running" => Untouched(db) /\ Halfway(work, next)
      /\ stage = "Failed" => ~caller.nested /\ Untouched(db) /\ Untouched(work)

\* The key of the route: leased while it works, stored with the settlement.
KeyAnswers ==
    RollsBack /\ caller.nested =>
      /\ db.key = "Stored" <=> db.flow = "Completed"
      /\ stage \in {"Leased", "Running"} => db.key = "Leased"

IInv == TypeOK /\ Alone /\ Ends /\ Whole /\ KeyAnswers

\* The statements are eight, and each leaves a row of the types there are.
LEMMA EightStatements ==
    /\ Len(Statements) = 8
    /\ Statements[1] = "settling" /\ Statements[2] = "charger" /\ Statements[3] = "wallet"
    /\ Statements[4] = "ledger" /\ Statements[5] = "order" /\ Statements[6] = "completed"
    /\ Statements[7] = "flag" /\ Statements[8] = "promote"
  BY DEF Statements

LEMMA StatementTypes ==
    ASSUME NEW w \in Rows, NEW n \in 1..7
    PROVE  /\ Effect(Statements[n], w) \in Rows
           /\ Effect(Statements[n], w).charger # "Other" \/ w.charger = "Other"
  <1>1. Price \in Nat /\ w.balance \in Nat /\ w.debt \in Nat /\ w.ledger \in Nat
    BY SettlementTxnAssumption DEF Rows
  <1>2. Paid(w) \in Nat /\ w.balance - Paid(w) \in Nat /\ w.debt + (Price - Paid(w)) \in Nat
    BY <1>1 DEF Paid
  <1>3. CASE n = 1
    BY <1>3, EightStatements DEF Effect, Rows
  <1>4. CASE n = 2
    BY <1>4, EightStatements DEF Effect, Rows
  <1>5. CASE n = 3
    BY <1>2, <1>5, EightStatements DEF Effect, Rows
  <1>6. CASE n = 4
    BY <1>1, <1>6, EightStatements DEF Effect, Rows
  <1>7. CASE n = 5
    BY <1>7, EightStatements DEF Effect, Rows
  <1>8. CASE n = 6
    BY <1>8, EightStatements DEF Effect, Rows
  <1>9. CASE n = 7
    BY <1>9, EightStatements DEF Effect, Rows
  <1> QED BY <1>3, <1>4, <1>5, <1>6, <1>7, <1>8, <1>9

LEMMA StatementEffect ==
    ASSUME NEW w \in Rows, NEW n \in 1..7, Halfway(w, n)
    PROVE  Halfway(Effect(Statements[n], w), n + 1)
  <1>1. /\ Price \in Nat /\ Opening \in Nat
        /\ w.balance \in Nat /\ w.debt \in Nat /\ w.ledger \in Nat
    BY SettlementTxnAssumption DEF Rows
  <1>2. CASE n = 1
    BY <1>2, EightStatements DEF Effect, Rows, Halfway
  <1>3. CASE n = 2
    BY <1>3, EightStatements DEF Effect, Rows, Halfway
  <1>4. CASE n = 3
    <2>1. /\ Effect("wallet", w) = [w EXCEPT !.balance = @ - Paid(w), !.debt = @ + (Price - Paid(w))]
          /\ w.balance = Opening /\ w.debt = 0
      BY <1>4 DEF Effect, Halfway
    <2>2. Paid(w) \in Nat
      BY <1>1 DEF Paid
    <2> DEFINE v == Effect("wallet", w)
    <2>3. /\ v.balance = w.balance - Paid(w) /\ v.debt = w.debt + (Price - Paid(w))
          /\ v.flow = w.flow /\ v.order = w.order /\ v.charger = w.charger /\ v.ledger = w.ledger
          /\ v.flag = w.flag /\ v.key = w.key
      BY <2>1 DEF Rows
    <2> HIDE DEF v
    <2>4. v.balance + Price = Opening + v.debt
      BY <1>1, <2>1, <2>2, <2>3
    <2>5. Halfway(v, 4)
      BY <1>4, <2>3, <2>4 DEF Halfway
    <2> QED BY <1>4, <2>5, EightStatements DEF v
  <1>5. CASE n = 4
    BY <1>1, <1>5, EightStatements DEF Effect, Rows, Halfway
  <1>6. CASE n = 5
    BY <1>6, EightStatements DEF Effect, Rows, Halfway
  <1>7. CASE n = 6
    BY <1>7, EightStatements DEF Effect, Rows, Halfway
  <1>8. CASE n = 7
    BY <1>8, EightStatements DEF Effect, Rows, Halfway
  <1> QED BY <1>2, <1>3, <1>4, <1>5, <1>6, <1>7, <1>8

\* Whatever the caller, the flow ends in the open transaction with its sixth
\* statement and stays so.
LEMMA EndsStep ==
    ASSUME TypeOK, Ends, [Next]_vars
    PROVE  Ends'
  <1>1. /\ work \in Rows /\ next \in 1..9 /\ Len(Statements) = 8
    BY EightStatements DEF TypeOK
  <1>2. CASE Execute
    <2>1. next \in 1..7 /\ work' = Effect(Statements[next], work) /\ next' = next + 1
          /\ stage = "Running"
      BY <1>1, <1>2 DEF Execute
    <2>2. CASE next = 6
      BY <1>1, <2>1, <2>2, EightStatements DEF Effect, Rows, Ends
    <2>3. CASE next = 7
      BY <1>1, <2>1, <2>3, EightStatements DEF Effect, Rows, Ends
    <2>4. CASE next < 6
      BY <2>1, <2>4 DEF Ends
    <2> QED
      BY <2>1, <2>2, <2>3, <2>4
  <1>3. CASE Open
    BY <1>3 DEF Open, Ends
  <1>5. CASE Promote
    BY <1>1, <1>5 DEF Promote, Rows, Ends
  <1>4. CASE Begin \/ StatementFails \/ CommitFailure \/ Commit \/ Crash \/ LeaseExpires
             \/ OtherFlow \/ UNCHANGED vars
    BY <1>4
    DEF Begin, StatementFails, CommitFailure, Commit, Crash, LeaseExpires, OtherFlow, vars, Ends
  <1> QED
    BY <1>2, <1>3, <1>4, <1>5 DEF Next

\* The types, and who may have the charger, whatever the caller.
LEMMA TypedStep ==
    ASSUME TypeOK, Alone, Ends, [Next]_vars
    PROVE  TypeOK' /\ Alone'
  <1> USE DEF TypeOK, Alone
  <1>1. /\ db \in Rows /\ work \in Rows /\ attempts \in Nat /\ MaxAttempts \in Nat /\ Price \in Nat
        /\ next \in 1..9 /\ Len(Statements) = 8
    BY SettlementTxnAssumption, EightStatements
  <1>2. CASE Begin
    BY <1>1, <1>2 DEF Begin, Rows, Gone
  <1>3. CASE Open
    BY <1>1, <1>3 DEF Open, Rows, Gone, Settleable
  <1>4. CASE Execute
    <2>1. /\ next \in 1..7 /\ work' = Effect(Statements[next], work) /\ next' = next + 1
          /\ stage = "Running" /\ UNCHANGED <<caller, db, stage, attempts>>
      BY <1>1, <1>4 DEF Execute
    <2>2. work' \in Rows /\ work'.charger # "Other"
      BY <1>1, <2>1, StatementTypes
    <2>3. next' \in 1..9
      BY <1>1, <2>1
    <2> QED BY <1>1, <2>1, <2>2, <2>3 DEF Gone, Settleable
  <1>5. CASE StatementFails
    <2>1. /\ work' = Compensated(Kept) /\ stage = "Running" /\ stage' = "Failed"
          /\ UNCHANGED <<caller, db, next, attempts>>
      BY <1>5 DEF StatementFails
    <2>2. Kept \in Rows /\ Gone(Kept)
      BY <1>1, <2>1 DEF Kept
    <2>3. work' \in Rows
      BY ZenonT(60), <2>1, <2>2 DEF Compensated, Rows
    <2>4. Gone(work')
      BY <2>1, <2>2 DEF Compensated, Gone, Rows
    <2> QED BY <1>1, <2>1, <2>3, <2>4 DEF Gone, Settleable
  <1>6. CASE CommitFailure
    BY <1>1, <1>6 DEF CommitFailure, Rows, Gone
  <1>7. CASE Commit
    BY <1>1, <1>7 DEF Commit, StoredResult, Rows, Gone
  <1>8. CASE Crash
    BY <1>1, <1>8 DEF Crash
  <1>9. CASE LeaseExpires
    BY <1>1, <1>9 DEF LeaseExpires, Rows, Gone
  <1>10. CASE OtherFlow
    BY <1>1, <1>10 DEF OtherFlow, Rows, Gone
  <1>11. CASE UNCHANGED vars
    BY <1>11 DEF vars, Gone, Settleable
  <1>12. CASE Promote
    <2>1. work.flow = "Completed" /\ next = 8 /\ next' = 9
      BY <1>1, <1>12 DEF Promote, Ends
    <2> QED BY <1>1, <1>12, <2>1 DEF Promote, Rows, Gone, Settleable
  <1> QED
    BY <1>2, <1>3, <1>4, <1>5, <1>6, <1>7, <1>8, <1>9, <1>10, <1>11, <1>12 DEF Next

\* All or nothing: what is committed was not touched, or is settled.
LEMMA WholeStep ==
    ASSUME TypeOK, Alone, Whole, [Next]_vars
    PROVE  Whole'
  <1>1. /\ db \in Rows /\ work \in Rows /\ next \in 1..9 /\ Len(Statements) = 8
        /\ Price \in Nat /\ Opening \in Nat
    BY SettlementTxnAssumption, EightStatements DEF TypeOK
  <1>2. caller' = caller /\ (RollsBack' <=> RollsBack)
    BY DEF Next, Begin, Open, Execute, Promote, StatementFails, CommitFailure, Commit, Crash, LeaseExpires,
       OtherFlow, vars, RollsBack
  <1> SUFFICES ASSUME RollsBack
               PROVE  Whole'
    BY <1>2 DEF Whole
  <1>3. /\ Untouched(db) \/ SettledRow(db)
        /\ stage = "Running" => Untouched(db) /\ Halfway(work, next)
        /\ stage = "Failed" => ~caller.nested /\ Untouched(db) /\ Untouched(work)
    BY DEF Whole
  <1>4. CASE Begin
    BY <1>1, <1>3, <1>4 DEF Begin, Rows, Untouched, SettledRow, Whole
  <1>5. CASE Open
    BY <1>1, <1>3, <1>5 DEF Open, Rows, Untouched, SettledRow, Settleable, Halfway, Whole
  <1>6. CASE Execute
    <2>1. /\ next \in 1..7 /\ work' = Effect(Statements[next], work) /\ next' = next + 1
          /\ stage = "Running" /\ UNCHANGED <<caller, db, stage, attempts>>
      BY <1>1, <1>6 DEF Execute
    <2>2. Halfway(Effect(Statements[next], work), next + 1)
      BY <1>1, <1>3, <2>1, StatementEffect
    <2>3. Halfway(work, next)'
      BY <2>1, <2>2 DEF Halfway
    <2> QED BY <1>3, <2>1, <2>3 DEF Whole, Untouched
  <1>7. CASE StatementFails
    <2>1. /\ work' = Compensated(db) /\ stage' = "Failed" /\ ~caller.nested
          /\ Untouched(db) /\ UNCHANGED <<caller, db, next, attempts>>
      BY <1>3, <1>7 DEF StatementFails, Kept, RollsBack
    <2>2. Untouched(work')
      BY <1>1, <2>1 DEF Untouched, Compensated, Rows
    <2> QED BY <2>1, <2>2 DEF Whole, Untouched
  <1>8. CASE CommitFailure
    BY <1>1, <1>3, <1>8 DEF CommitFailure, Whole, Untouched
  <1>9. CASE Commit
    <2>1. db' = StoredResult(work) /\ stage' = "Free" /\ next = 9 /\ Halfway(work, next)
      BY <1>1, <1>3, <1>9 DEF Commit
    <2>2. SettledRow(work)
      BY <1>1, <2>1 DEF SettledRow, Halfway
    <2>3. SettledRow(StoredResult(work))
      BY <1>1, <2>2 DEF SettledRow, StoredResult, Rows
    <2> QED BY <2>1, <2>3 DEF Whole, SettledRow
  <1>10. CASE Crash
    BY <1>3, <1>10 DEF Crash, Whole, Untouched, SettledRow
  <1>11. CASE LeaseExpires
    BY <1>1, <1>3, <1>11 DEF LeaseExpires, Rows, Untouched, SettledRow, Whole
  <1>12. CASE OtherFlow
    BY <1>1, <1>3, <1>12 DEF OtherFlow, Rows, Untouched, SettledRow, Whole
  <1>13. CASE UNCHANGED vars
    BY <1>3, <1>13 DEF vars, Whole, Untouched, SettledRow, Halfway
  <1>14. CASE Promote
    BY <1>1, <1>3, <1>14 DEF Promote, Rows, Whole, Untouched, Halfway
  <1> QED
    BY <1>4, <1>5, <1>6, <1>7, <1>8, <1>9, <1>10, <1>11, <1>12, <1>13, <1>14 DEF Next

\* The answer is stored by the transaction that settles, and only by it.
LEMMA KeyAnswersStep ==
    ASSUME TypeOK, Alone, Whole, KeyAnswers, [Next]_vars
    PROVE  KeyAnswers'
  <1>1. /\ db \in Rows /\ work \in Rows /\ next \in 1..9 /\ Len(Statements) = 8
    BY EightStatements DEF TypeOK
  <1>2. caller' = caller /\ (RollsBack' <=> RollsBack)
    BY DEF Next, Begin, Open, Execute, Promote, StatementFails, CommitFailure, Commit, Crash, LeaseExpires,
       OtherFlow, vars, RollsBack
  <1> SUFFICES ASSUME RollsBack, caller.nested
               PROVE  KeyAnswers'
    BY <1>2 DEF KeyAnswers
  <1>3. /\ db.key = "Stored" <=> db.flow = "Completed"
        /\ stage \in {"Leased", "Running"} => db.key = "Leased"
        /\ stage = "Running" => Halfway(work, next)
        /\ stage # "Failed"
    BY DEF KeyAnswers, Whole
  <1>4. CASE Begin
    BY <1>1, <1>3, <1>4 DEF Begin, Rows, KeyAnswers
  <1>5. CASE Open
    BY <1>1, <1>3, <1>5 DEF Open, Rows, KeyAnswers
  <1>6. CASE Execute \/ Promote \/ CommitFailure \/ Crash \/ UNCHANGED vars
    BY <1>3, <1>6 DEF Execute, Promote, CommitFailure, Crash, vars, KeyAnswers
  <1>7. CASE StatementFails
    BY <1>7 DEF StatementFails, RollsBack
  <1>8. CASE Commit
    BY <1>1, <1>3, <1>8 DEF Commit, StoredResult, Halfway, Rows, KeyAnswers
  <1>9. CASE LeaseExpires
    BY <1>1, <1>3, <1>9 DEF LeaseExpires, Rows, KeyAnswers
  <1>10. CASE OtherFlow
    BY <1>1, <1>3, <1>10 DEF OtherFlow, Rows, KeyAnswers
  <1> QED BY <1>4, <1>5, <1>6, <1>7, <1>8, <1>9, <1>10 DEF Next

LEMMA SettlementInvariant == Spec => []IInv
  <1>1. Init => IInv
    <2> SUFFICES ASSUME Init
                 PROVE  IInv
      OBVIOUS
    <2>1. TypeOK
      BY SettlementTxnAssumption, EightStatements DEF Init, TypeOK, Rows
    <2> QED BY <2>1 DEF Init, IInv, Alone, Ends, Gone, Whole, Untouched, KeyAnswers
  <1>2. IInv /\ [Next]_vars => IInv'
    BY TypedStep, EndsStep, WholeStep, KeyAnswersStep DEF IInv
  <1> QED BY <1>1, <1>2, PTL DEF Spec

\* Called directly, or by the route while no statement throws, a settlement
\* happens entirely or not at all, through crashes and retries.
THEOREM AllOrNothingWhenRolledBack == Spec => [](RollsBack => SettlementIsAllOrNothing)
  <1>1. IInv => (RollsBack => SettlementIsAllOrNothing)
    BY DEF IInv, Whole, Untouched, SettledRow, SettlementIsAllOrNothing
  <1> QED BY <1>1, SettlementInvariant, PTL

\* In the same cases the stored answer and the settlement are there together.
THEOREM AnswerStoredWhenRolledBack == Spec => [](RollsBack => AnswerStoredWithSettlement)
  <1>1. IInv => (RollsBack => AnswerStoredWithSettlement)
    BY DEF IInv, KeyAnswers, AnswerStoredWithSettlement
  <1> QED BY <1>1, SettlementInvariant, PTL

\* Whatever the caller and whatever throws: no settlement, and no retry of one,
\* takes the charger from the flow that got it afterwards.
THEOREM ChargerNeverTaken == Spec => ChargerNotTakenFromOther
  <1>1. ASSUME IInv, [Next]_vars
        PROVE  db.charger = "Other" /\ db'.charger # "Other" => db' = [db EXCEPT !.charger = "Idle"]
    <2> SUFFICES ASSUME db.charger = "Other", db'.charger # "Other"
                 PROVE  db' = [db EXCEPT !.charger = "Idle"]
      OBVIOUS
    <2>1. db \in Rows /\ stage \notin {"Running", "Failed"}
      BY <1>1 DEF IInv, TypeOK, Alone
    <2>2. CASE OtherFlow
      BY <2>2 DEF OtherFlow
    <2>3. CASE Begin \/ Open \/ LeaseExpires \/ Crash \/ UNCHANGED vars
      BY <2>1, <2>3 DEF Begin, Open, LeaseExpires, Crash, vars, Rows
    <2>4. CASE Execute \/ Promote \/ StatementFails \/ CommitFailure \/ Commit
      BY <2>1, <2>4 DEF Execute, Promote, StatementFails, CommitFailure, Commit
    <2> QED BY <1>1, <2>2, <2>3, <2>4 DEF Next
  <1>2. IInv /\ [Next]_vars =>
          [db.charger = "Other" /\ db'.charger # "Other" => db' = [db EXCEPT !.charger = "Idle"]]_vars
    BY <1>1
  <1> QED BY <1>2, SettlementInvariant, PTL DEF Spec, ChargerNotTakenFromOther

-----------------------------------------------------------------------------
(* What is meant once is done once. *)

\* These are the records the model says they are, whatever their fields hold.
IsCall(c) ==
    c \in [kind : {c.kind}, by : {c.by}, generation : {c.generation}, serial : {c.serial},
           key : {c.key}, intent : {c.intent}, no : {c.no}, version : {c.version},
           user : {c.user}, tries : {c.tries}, at : {c.at}, reply : {c.reply}]

IsServer(s) ==
    s \in [live : {s.live}, issued : {s.issued}, owner : {s.owner}, flows : {s.flows},
           answers : {s.answers}, done : {s.done}, version : {s.version},
           reviewed : {s.reviewed}, proven : {s.proven}, command : {s.command}]

IsPhone(d) ==
    d \in [token : {d.token}, generation : {d.generation}, serial : {d.serial},
           nextKey : {d.nextKey}, keys : {d.keys}, meant : {d.meant}, flow : {d.flow},
           list : {d.list}, orders : {d.orders}, profile : {d.profile}, avatar : {d.avatar},
           review : {d.review}, reviewSerial : {d.reviewSerial}, reviewKey : {d.reviewKey},
           reviewBusy : {d.reviewBusy}, reviewed : {d.reviewed}]

IsWindow(d) ==
    d \in [token : {d.token}, generation : {d.generation}, online : {d.online},
           inside : {d.inside}, loggingIn : {d.loggingIn}, nextKey : {d.nextKey},
           flow : {d.flow}, charging : {d.charging}, asking : {d.asking},
           polling : {d.polling}, list : {d.list}, serial : {d.serial}, orders : {d.orders},
           ordersSerial : {d.ordersSerial}, profile : {d.profile}, avatar : {d.avatar},
           review : {d.review}, reviewKey : {d.reviewKey}, reviewBusy : {d.reviewBusy},
           reviewed : {d.reviewed}]

IsConsoleWindow(d) ==
    d \in [token : {d.token}, generation : {d.generation}, session : {d.session},
           busy : {d.busy}, loggingIn : {d.loggingIn}, list : {d.list}, serial : {d.serial},
           catalog : {d.catalog}, catalogLoading : {d.catalogLoading}, proven : {d.proven},
           nextKey : {d.nextKey}]

\* The next key an app makes; without an app there is none.
NextKey == IF NoApp THEN 1 ELSE device.nextKey

\* k is the key of a settlement if that is what it was made for (S), of
\* something else if not.
For(k, kind, S) == k \in Nat /\ k < NextKey /\ (k # 0 => (kind = "settle" <=> k \in S))

\* A request has the key of what it is meant to do, and only settlements are
\* handled statement by statement.
Meant(c, S) ==
    /\ IsCall(c)
    /\ c.intent = c.key /\ For(c.key, c.kind, S)
    /\ Handled(c) => scene.linked /\ c.kind = "settle"

\* The keys an app holds on to.
Held(S) ==
    /\ NextKey \in Nat \ {0}
    /\ IsMobile => /\ IsPhone(device) /\ device.keys = device.meant
                   /\ \A p \in device.keys : For(p[2], p[1][1], S)
                   /\ For(device.reviewKey, "submit", S)
    /\ IsDesktop => IsWindow(device) /\ For(device.reviewKey, "submit", S)
    /\ IsConsole => IsConsoleWindow(device)

\* What was done is known to have been done: its answer is kept, or the flow
\* of the settlement is over.
Known(k, S) ==
    IF scene.linked /\ k \in S THEN db.flow = "Completed" ELSE server.answers[k] # NoReply

Done(S) ==
    /\ IsServer(server)
    /\ server.done \in [1..MaxKeys -> {0, 1}]
    /\ DOMAIN server.answers = 1..MaxKeys
    /\ \A k \in 1..MaxKeys : server.done[k] = 1 => k < NextKey /\ Known(k, S)

OneApp ==
    \/ NoApp /\ calls = {}
    \/ IsMobile \/ IsDesktop \/ IsConsole

KeysOK(S) == (\A c \in calls : Meant(c, S)) /\ Held(S) /\ Done(S)

OnceInv == OneApp /\ \E S \in SUBSET Nat : KeysOK(S)

\* A request without a key.
Keyless(c) == IsCall(c) /\ c.key = 0 /\ c.intent = 0 /\ ~Handled(c)

LEMMA RequestFields ==
    ASSUME NEW d, NEW kind
    PROVE  /\ IsCall(Request(d, kind))
           /\ Request(d, kind).kind = kind /\ Request(d, kind).at = "Sent"
           /\ Request(d, kind).key = 0 /\ Request(d, kind).intent = 0
  BY DEF Request, IsCall

\* Requests that load or ask, with whatever else they carry.
LEMMA RequestsAreKeyless ==
    ASSUME NEW d, NEW kind, NEW n, NEW u, NEW v, NEW at \in {"Sent", "Pausing"}
    PROVE  /\ Keyless(Request(d, kind))
           /\ Keyless([Request(d, kind) EXCEPT !.serial = n])
           /\ Keyless([Request(d, kind) EXCEPT !.user = u])
           /\ Keyless([Request(d, kind) EXCEPT !.version = v])
           /\ Keyless([Request(d, kind) EXCEPT !.no = n])
           /\ Keyless([Request(d, kind) EXCEPT !.tries = u, !.serial = n, !.at = at])
  <1> DEFINE c == Request(d, kind)
  <1>1. IsCall(c) /\ c.key = 0 /\ c.intent = 0 /\ c.at = "Sent"
    BY RequestFields
  <1> HIDE DEF c
  <1>2. Keyless(c)
    BY <1>1 DEF Keyless, Handled
  <1>3. Keyless([c EXCEPT !.serial = n])
    BY <1>1 DEF IsCall, Keyless, Handled
  <1>4. Keyless([c EXCEPT !.user = u])
    BY <1>1 DEF IsCall, Keyless, Handled
  <1>5. Keyless([c EXCEPT !.version = v])
    BY <1>1 DEF IsCall, Keyless, Handled
  <1>6. Keyless([c EXCEPT !.no = n])
    BY <1>1 DEF IsCall, Keyless, Handled
  <1>7. Keyless([c EXCEPT !.tries = u, !.serial = n, !.at = at])
    BY <1>1 DEF IsCall, Keyless, Handled
  <1> QED
    BY <1>2, <1>3, <1>4, <1>5, <1>6, <1>7 DEF c

\* A key goes on meaning what it was made for while new ones are made.
LEMMA StillFor ==
    ASSUME NEW S, NEW T, NEW k, NEW kind, For(k, kind, S), NextKey \in Nat, NextKey' \in Nat,
           NextKey <= NextKey', \A i \in Nat : i < NextKey => (i \in S <=> i \in T)
    PROVE  For(k, kind, T)'
  BY DEF For

LEMMA StillDone ==
    ASSUME NEW S, NEW T, Done(S), NextKey \in Nat, NextKey' \in Nat, NextKey <= NextKey',
           \A i \in Nat : i < NextKey => (i \in S <=> i \in T),
           scene' = scene, IsServer(server'), server'.done = server.done,
           server'.answers = server.answers, db.flow = "Completed" => db'.flow = "Completed",
           MaxKeys \in Nat
    PROVE  Done(T)'
  <1>1. /\ server'.done \in [1..MaxKeys -> {0, 1}]
        /\ DOMAIN server'.answers = 1..MaxKeys
    BY DEF Done
  <1>2. ASSUME NEW k \in 1..MaxKeys, server'.done[k] = 1
        PROVE  k < NextKey' /\ Known(k, T)'
    <2>1. k < NextKey /\ Known(k, S) /\ k \in Nat /\ k < NextKey'
      BY <1>2 DEF Done
    <2>2. k \in S <=> k \in T
      BY <2>1
    <2> QED
      BY <2>1, <2>2 DEF Known
  <1> QED
    BY <1>1, <1>2 DEF Done

\* What an app sends keeps all this, if the new requests and the keys it holds
\* on to do.
LEMMA Sending ==
    ASSUME NEW S, NEW T \in SUBSET Nat, KeysOK(S), NextKey' \in Nat, NextKey <= NextKey',
           \A i \in Nat : i < NextKey => (i \in S <=> i \in T),
           scene' = scene, server' = server, db' = db,
           NEW New, calls' \subseteq calls \union New, \A c \in New : Meant(c, T)',
           Held(T)'
    PROVE  KeysOK(T)'
  <1>1. NextKey \in Nat /\ MaxKeys \in Nat
    BY AppCallsAssumption DEF KeysOK, Held
  <1>2. ASSUME NEW c \in calls
        PROVE  Meant(c, T)'
    <2>1. Meant(c, S)
      BY DEF KeysOK
    <2>2. For(c.key, c.kind, T)'
      BY <1>1, <2>1, StillFor DEF Meant
    <2> QED
      BY <2>1, <2>2 DEF Meant
  <1>3. Done(T)'
    BY <1>1, StillDone DEF KeysOK, Done
  <1> QED
    BY <1>2, <1>3 DEF KeysOK

\* The record an app keeps is a record of that app, and it keeps no key that
\* it had not before, but perhaps a new one for a review.
KeepsToIts(T) ==
    /\ IsMobile => /\ IsPhone(device') /\ device'.keys = device'.meant
                   /\ device'.keys \subseteq device.keys
    /\ IsDesktop => IsWindow(device')
    /\ IsConsole => IsConsoleWindow(device')
    /\ ~IsConsole => \/ device'.reviewKey \in {device.reviewKey, 0}
                     \/ For(device.reviewKey, "submit", T)'

LEMMA AppSends ==
    ASSUME NEW S, NEW T \in SUBSET Nat, KeysOK(S), OneApp, ~NoApp, KeepsToIts(T),
           scene' = scene, server' = server, db' = db,
           device'.nextKey \in Nat, device.nextKey <= device'.nextKey,
           \A i \in Nat : i < device.nextKey => (i \in S <=> i \in T),
           NEW New, calls' \subseteq calls \union New,
           \A c \in New : Keyless(c) \/ Meant(c, T)'
    PROVE  KeysOK(T)'
  <1>1. /\ NextKey = device.nextKey /\ NextKey' = device'.nextKey /\ NextKey \in Nat \ {0}
        /\ NextKey' \in Nat \ {0}
        /\ IsMobile' = IsMobile /\ IsDesktop' = IsDesktop /\ IsConsole' = IsConsole
    BY DEF KeysOK, Held, NextKey, NoApp, IsMobile, IsDesktop, IsConsole
  <1>2. \A k, kind : For(k, kind, S) => For(k, kind, T)'
    BY <1>1, StillFor
  <1>3. ~IsConsole => For(device.reviewKey, "submit", T)'
    <2> SUFFICES ASSUME ~IsConsole
                 PROVE  For(device.reviewKey, "submit", T)'
      OBVIOUS
    <2>1. PICK k : k = device.reviewKey
      OBVIOUS
    <2>2. For(k, "submit", T)'
      BY <1>2, <2>1 DEF KeysOK, Held, OneApp
    <2>3. For(0, "submit", T)'
      BY <1>1 DEF For
    <2>4. CASE device'.reviewKey = k
      BY <2>2, <2>4 DEF For
    <2>5. CASE device'.reviewKey = 0
      BY <2>3, <2>5 DEF For
    <2> QED
      BY <2>1, <2>4, <2>5 DEF KeepsToIts
  <1>4. IsMobile => \A p \in device'.keys : For(p[2], p[1][1], T)'
    BY <1>2 DEF KeepsToIts, KeysOK, Held
  <1>5. Held(T)'
    BY <1>1, <1>3, <1>4 DEF Held, KeepsToIts, IsMobile, IsDesktop, IsConsole
  <1>6. \A c \in New : Meant(c, T)'
    BY <1>1 DEF Keyless, Meant, For
  <1> QED
    BY <1>1, <1>5, <1>6, Sending

\* What has no wish makes no key.
LEMMA AppQuiet ==
    ASSUME NEW S \in SUBSET Nat, KeysOK(S), OneApp, ~NoApp, KeepsToIts(S),
           scene' = scene, server' = server, db' = db, device'.nextKey = device.nextKey,
           NEW New, calls' \subseteq calls \union New,
           \A c \in New : Keyless(c) \/ Meant(c, S)'
    PROVE  KeysOK(S)'
  <1>1. device.nextKey \in Nat
    BY DEF KeysOK, Held, NextKey
  <1> QED
    BY <1>1, AppSends

\* A wish of its own has a new key.
LEMMA AppWishes ==
    ASSUME NEW S \in SUBSET Nat, KeysOK(S), OneApp, ~NoApp, \A T : KeepsToIts(T),
           scene' = scene, server' = server, db' = db, device'.nextKey = device.nextKey + 1,
           NEW c, calls' \subseteq calls \union {c},
           IsCall(c), c.key = device.nextKey, c.intent = device.nextKey, ~Handled(c)
    PROVE  \E T \in SUBSET Nat : KeysOK(T)'
  <1>1. PICK n : n = device.nextKey
    OBVIOUS
  <1>2. n \in Nat \ {0} /\ NextKey' = n + 1
    BY <1>1 DEF KeysOK, Held, NextKey, NoApp
  <1>3. PICK T : T = IF c.kind = "settle" THEN S \union {n} ELSE S \ {n}
    OBVIOUS
  <1>4. T \in SUBSET Nat /\ \A i \in Nat : i < n => (i \in S <=> i \in T)
    <2>1. CASE c.kind = "settle"
      BY <1>2, <1>3, <2>1
    <2>2. CASE c.kind # "settle"
      BY <1>2, <1>3, <2>2
    <2> QED
      BY <2>1, <2>2
  <1>5. Meant(c, T)'
    BY <1>1, <1>2, <1>3 DEF Meant, For
  <1> DEFINE New == {c}
  <1>6. \A d \in New : Keyless(d) \/ Meant(d, T)'
    BY <1>5
  <1>7. calls' \subseteq calls \union New
    OBVIOUS
  <1> HIDE DEF New
  <1>8. /\ KeepsToIts(T) /\ device'.nextKey \in Nat /\ device.nextKey <= device'.nextKey
        /\ \A i \in Nat : i < device.nextKey => (i \in S <=> i \in T)
    BY <1>1, <1>2, <1>4
  <1>9. KeysOK(T)'
    BY <1>4, <1>6, <1>7, <1>8, AppSends
  <1> QED
    BY <1>4, <1>9

\* A tap that has a wish: its key is the one kept for it, or a new one that
\* serves nothing else.
LEMMA PhonePosts ==
    ASSUME NEW S \in SUBSET Nat, KeysOK(S), IsMobile, scene' = scene, server' = server,
           db' = db, NEW kind, NEW no, NEW version, Post(kind, no, version)
    PROVE  \E T \in SUBSET Nat : KeysOK(T)'
  <1> DEFINE scope == <<kind, no, version>>
             kept  == Of(device.keys, scope)
             old   == IF kept = {} THEN device.nextKey ELSE CHOOSE k \in kept : TRUE
  <1>1. PICK key : key = old
    OBVIOUS
  <1> DEFINE made == [Request(device, kind) EXCEPT !.key = key, !.intent = key, !.no = no,
                                                   !.version = version]
  <1>1a. PICK c : c = made
    OBVIOUS
  <1>2. PICK n : n = NextKey
    OBVIOUS
  <1> DEFINE T == IF kept # {} THEN S ELSE IF kind = "settle" THEN S \union {n} ELSE S \ {n}
  <1>3. PICK U : U = T
    OBVIOUS
  <1>4. /\ n = device.nextKey /\ n \in Nat \ {0} /\ IsPhone(device)
        /\ device.keys = device.meant
        /\ \A p \in device.keys : For(p[2], p[1][1], S)
        /\ For(device.reviewKey, "submit", S)
        /\ IsMobile' /\ ~IsDesktop' /\ ~IsConsole' /\ ~NoApp'
    BY <1>2 DEF KeysOK, Held, NextKey, NoApp, IsMobile, IsDesktop, IsConsole
  <1>5. /\ device' = [device EXCEPT !.keys = @ \union {<<scope, key>>},
                                    !.meant = @ \union {<<scope, key>>},
                                    !.nextKey = IF kept = {} THEN @ + 1 ELSE @]
        /\ calls' = calls \union {c}
    BY <1>1, <1>4, <1>1a DEF Post, Sends
  <1>6. key = IF kept = {} THEN n ELSE CHOOSE k \in kept : TRUE
    BY <1>1, <1>4
  <1>7. /\ IsCall(c) /\ c.key = key /\ c.intent = key /\ c.kind = kind /\ ~Handled(c)
    <2> DEFINE r == Request(device, kind)
    <2>1. IsCall(r) /\ r.kind = kind /\ r.at = "Sent"
      BY RequestFields
    <2>2. c = [r EXCEPT !.key = key, !.intent = key, !.no = no, !.version = version]
      BY <1>1a
    <2> HIDE DEF r, made
    <2> QED
      BY <2>1, <2>2 DEF IsCall, Handled
  <1>8. \A p \in device.keys : p[1] = scope => p[2] \in kept
    BY DEF Of
  <1>9. \A k \in kept : \E p \in device.keys : p[1] = scope /\ p[2] = k
    BY DEF Of
  <1> HIDE DEF kept, old, made
  <1>10. /\ IsPhone(device') /\ device'.keys = device.keys \union {<<scope, key>>}
         /\ device'.meant = device'.keys /\ device'.reviewKey = device.reviewKey
         /\ device'.nextKey = IF kept = {} THEN n + 1 ELSE n
    BY <1>4, <1>5 DEF IsPhone
  <1>11. NextKey' = device'.nextKey /\ NextKey' \in Nat \ {0} /\ NextKey <= NextKey'
    BY <1>2, <1>4, <1>10 DEF NextKey
  <1>12. U \in SUBSET Nat /\ \A i \in Nat : i < NextKey => (i \in S <=> i \in U)
    <2>1. U = S \/ U = S \union {n} \/ U = S \ {n}
      BY <1>3
    <2>2. n \in Nat /\ S \subseteq Nat /\ n = NextKey
      BY <1>2, <1>4
    <2>3. CASE U = S
      BY <2>3
    <2>4. CASE U = S \union {n}
      BY <2>2, <2>4
    <2>5. CASE U = S \ {n}
      BY <2>2, <2>5
    <2> QED
      BY <2>1, <2>3, <2>4, <2>5
  <1>13. For(key, kind, U)'
    <2>1. CASE kept = {}
      BY <1>3, <1>4, <1>6, <1>10, <1>11, <2>1 DEF For
    <2>2. CASE kept # {}
      <3>1. key \in kept
        BY <1>6, <2>2
      <3>2. PICK p \in device.keys : p[1] = scope /\ p[2] = key
        BY <1>9, <3>1
      <3>3. For(key, kind, S)
        BY <1>4, <3>2
      <3> QED
        BY <1>2, <1>4, <1>11, <1>12, <3>3, StillFor
    <2> QED
      BY <2>1, <2>2
  <1>14. Meant(c, U)'
    BY <1>7, <1>13 DEF Meant
  <1>15. Held(U)'
    <2>1. ASSUME NEW p \in device'.keys
          PROVE  For(p[2], p[1][1], U)'
      <3>1. CASE p \in device.keys
        BY <1>2, <1>4, <1>11, <1>12, <3>1, StillFor
      <3>2. CASE p = <<scope, key>>
        BY <1>13, <3>2
      <3> QED
        BY <1>10, <3>1, <3>2
    <2>2. PICK k : k = device.reviewKey
      OBVIOUS
    <2>3. For(k, "submit", U)'
      BY <1>2, <1>4, <1>11, <1>12, <2>2, StillFor
    <2>4. For(device.reviewKey, "submit", U)'
      BY <1>10, <2>2, <2>3 DEF For
    <2> QED
      BY <1>4, <1>10, <1>11, <2>1, <2>4 DEF Held
  <1>16. KeysOK(U)'
    <2> DEFINE New == {c}
    <2>1. calls' \subseteq calls \union New /\ \A d \in New : Meant(d, U)'
      BY <1>5, <1>14
    <2> HIDE DEF New
    <2> QED
      BY <1>11, <1>12, <1>15, <2>1, Sending
  <1> QED
    BY <1>12, <1>16

\* The phone after a reply, and after a tap without a wish: no key is new.
PhoneAs(d) ==
    /\ IsPhone(d) /\ d.nextKey = device.nextKey
    /\ d.keys = d.meant /\ d.keys \subseteq device.keys
    /\ d.reviewKey \in {device.reviewKey, 0}

LEMMA PhoneAsIs == ASSUME NEW S, KeysOK(S), IsMobile PROVE PhoneAs(device) /\ OneApp /\ ~NoApp
  BY DEF PhoneAs, KeysOK, Held, OneApp, NoApp, IsMobile

LEMMA PhoneSends ==
    ASSUME NEW S \in SUBSET Nat, KeysOK(S), IsMobile, UNCHANGED <<scene, server, vars>>,
           PhoneAs(device'), NEW New, calls' \subseteq calls \union New,
           \A c \in New : Keyless(c) \/ Meant(c, S)'
    PROVE  KeysOK(S)'
  <1>1. OneApp /\ ~NoApp /\ KeepsToIts(S)
    BY DEF PhoneAs, KeepsToIts, OneApp, NoApp, IsMobile, IsDesktop, IsConsole
  <1>2. /\ scene' = scene /\ server' = server /\ db' = db /\ device'.nextKey = device.nextKey
    BY DEF vars, PhoneAs
  <1> QED
    BY <1>1, <1>2, AppQuiet

LEMMA PhoneSendsOne ==
    ASSUME NEW S \in SUBSET Nat, KeysOK(S), IsMobile, UNCHANGED <<scene, server, vars>>,
           PhoneAs(device'), NEW c, calls' \subseteq calls \union {c},
           Keyless(c) \/ Meant(c, S)'
    PROVE  KeysOK(S)'
  <1> DEFINE New == {c}
  <1>1. calls' \subseteq calls \union New /\ \A x \in New : Keyless(x) \/ Meant(x, S)'
    OBVIOUS
  <1> HIDE DEF New
  <1> QED
    BY <1>1, PhoneSends

LEMMA LoadsAreKeyless ==
    ASSUME NEW d, NEW kind PROVE Keyless(Load(d, kind))
  BY RequestsAreKeyless DEF Load

LEMMA PhoneTaps ==
    ASSUME NEW S \in SUBSET Nat, KeysOK(S), MobileTaps \/ MobilePolls, UNCHANGED vars
    PROVE  \E T \in SUBSET Nat : KeysOK(T)'
  <1>1. IsMobile
    BY DEF MobileTaps, MobilePolls, MobileLogin, MobileSignOff, MobileOpensPage, MobileRenames,
           MobilePosts, MobileBeginsReview, MobileSubmitsReview
  <1>2. UNCHANGED <<scene, server, vars>>
    BY DEF MobileTaps, MobilePolls, MobileLogin, MobileSignOff, MobileOpensPage, MobileRenames,
           MobilePosts, MobileBeginsReview, MobileSubmitsReview, Taps
  <1>3. PhoneAs(device) /\ IsPhone(device)
    BY <1>1, PhoneAsIs DEF PhoneAs
  <1>4. ASSUME NEW c, Keyless(c), Sends(device, {c})
        PROVE  KeysOK(S)'
    <2>1. PhoneAs(device')
      BY <1>3, <1>4 DEF PhoneAs, Sends
    <2>2. calls' \subseteq calls \union {c}
      BY <1>4 DEF Sends
    <2> QED
      BY <1>1, <1>2, <1>4, <2>1, <2>2, PhoneSendsOne
  <1>5. CASE MobileLogin
    <2>1. PICK u : Sends(device, {[Request(device, "login") EXCEPT !.user = u]})
      BY <1>5 DEF MobileLogin
    <2> QED
      BY <1>4, <2>1, RequestsAreKeyless
  <1>6. CASE MobileSignOff
    <2>1. PICK kind : Sends(device, {Request(device, kind)})
      BY <1>6 DEF MobileSignOff
    <2> QED
      BY <1>4, <2>1, RequestsAreKeyless
  <1>7. CASE MobileOpensPage
    <2>1. CASE \E kind : Sends(device, {Load(device, kind)})
      BY <1>4, <2>1, LoadsAreKeyless
    <2>2. CASE LET d == [device EXCEPT !.serial = @ + 1] IN Sends(d, {Load(d, "list")})
      <3> DEFINE d == [device EXCEPT !.serial = @ + 1]
      <3>1. PICK c : c = Load(d, "list")
        OBVIOUS
      <3>2. device' = d /\ calls' \subseteq calls \union {c} /\ Keyless(c)
        BY <2>2, <3>1, LoadsAreKeyless DEF Sends
      <3>3. PhoneAs(d)
        BY <1>3 DEF PhoneAs, IsPhone
      <3>4. PhoneAs(device')
        BY <3>2, <3>3 DEF PhoneAs
      <3> QED
        BY <1>1, <1>2, <3>2, <3>4, PhoneSendsOne
    <2> QED
      BY <1>7, <2>1, <2>2 DEF MobileOpensPage
  <1>8. CASE MobileRenames
    <2>1. PICK v : Sends(device, {[Request(device, "rename") EXCEPT !.version = v]})
      BY <1>8 DEF MobileRenames
    <2> QED
      BY <1>4, <2>1, RequestsAreKeyless
  <1>9. CASE MobilePosts
    <2>1. PICK kind, no, version : Post(kind, no, version)
      BY <1>9 DEF MobilePosts
    <2>2. db' = db
      BY DEF vars
    <2> QED
      BY <1>1, <1>2, <2>1, <2>2, PhonePosts
  <1>10. CASE MobileBeginsReview
    <2> DEFINE d == [device EXCEPT !.reviewSerial = @ + 1, !.reviewKey = device.nextKey,
                                   !.nextKey = @ + 1, !.review = Nothing, !.reviewBusy = TRUE,
                                   !.reviewed = FALSE]
    <2>1. PICK c : c = [Request(d, "review") EXCEPT !.serial = d.reviewSerial]
      OBVIOUS
    <2>2. device' = d /\ calls' \subseteq calls \union {c} /\ Keyless(c)
      BY <1>10, <2>1, RequestsAreKeyless DEF MobileBeginsReview, Sends
    <2>3. /\ IsPhone(device') /\ device'.keys = device'.meant /\ device'.keys = device.keys
          /\ device'.nextKey = device.nextKey + 1 /\ device'.reviewKey = device.nextKey
      BY <1>3, <2>2 DEF IsPhone, PhoneAs
    <2> HIDE DEF d
    <2>4. PICK n : n = device.nextKey
      OBVIOUS
    <2>5. n \in Nat \ {0} /\ NextKey' = n + 1 /\ IsMobile'
      BY <1>1, <1>2, <2>3, <2>4 DEF KeysOK, Held, NextKey, NoApp, IsMobile
    <2>6. PICK T \in SUBSET Nat : T = S \ {n}
      OBVIOUS
    <2>7. For(device.reviewKey, "submit", T)'
      BY <2>3, <2>4, <2>5, <2>6 DEF For
    <2>8. OneApp /\ ~NoApp /\ KeepsToIts(T)
      BY <1>1, <2>3, <2>7 DEF KeepsToIts, OneApp, NoApp, IsMobile, IsDesktop, IsConsole
    <2>9. /\ device'.nextKey \in Nat /\ device.nextKey <= device'.nextKey
          /\ \A i \in Nat : i < device.nextKey => (i \in S <=> i \in T)
      BY <2>3, <2>4, <2>5, <2>6
    <2>10. scene' = scene /\ server' = server /\ db' = db
      BY <1>2 DEF vars
    <2> DEFINE New == {c}
    <2>11. calls' \subseteq calls \union New /\ \A x \in New : Keyless(x) \/ Meant(x, T)'
      BY <2>2
    <2> HIDE DEF New
    <2> QED
      BY <2>8, <2>9, <2>10, <2>11, AppSends
  <1>11. CASE MobileSubmitsReview
    <2> DEFINE d == [device EXCEPT !.reviewBusy = TRUE]
    <2>1. PICK c : c = [Request(d, "submit") EXCEPT !.serial = d.reviewSerial,
                                                    !.key = d.reviewKey, !.intent = d.reviewKey]
      OBVIOUS
    <2>2. device' = d /\ calls' \subseteq calls \union {c}
      BY <1>11, <2>1 DEF MobileSubmitsReview, Sends
    <2>3. PhoneAs(device') /\ d.reviewKey = device.reviewKey /\ device'.reviewKey = d.reviewKey
      BY <1>3, <2>2 DEF IsPhone, PhoneAs
    <2>4. /\ IsCall(c) /\ c.kind = "submit" /\ c.key = device.reviewKey
          /\ c.intent = device.reviewKey /\ ~Handled(c)
      <3>1. PICK r, s, k : r = Request(d, "submit") /\ s = d.reviewSerial /\ k = d.reviewKey
        OBVIOUS
      <3>2. IsCall(r) /\ r.kind = "submit" /\ r.at = "Sent"
        BY <3>1, RequestFields
      <3>3. c = [r EXCEPT !.serial = s, !.key = k, !.intent = k] /\ k = device.reviewKey
        BY <2>1, <2>3, <3>1
      <3> HIDE DEF d
      <3> QED
        BY <3>2, <3>3 DEF IsCall, Handled
    <2> HIDE DEF d
    <2>5. For(c.key, "submit", S) /\ NextKey' = NextKey
      BY <1>1, <1>2, <2>3, <2>4 DEF KeysOK, Held, NextKey, NoApp, PhoneAs
    <2>6. Meant(c, S)'
      BY <2>4, <2>5 DEF Meant, For
    <2> QED
      BY <1>1, <1>2, <2>2, <2>3, <2>6, PhoneSendsOne
  <1>12. CASE MobilePolls
    <2>1. Sends(device, {[Request(device, "flow") EXCEPT !.no = device.flow.no]})
      BY <1>12 DEF MobilePolls
    <2> QED
      BY <1>4, <2>1, RequestsAreKeyless
  <1> QED
    BY <1>5, <1>6, <1>7, <1>8, <1>9, <1>10, <1>11, <1>12 DEF MobileTaps

LEMMA PhoneHandles ==
    ASSUME NEW S \in SUBSET Nat, KeysOK(S), IsMobile, UNCHANGED vars,
           NEW c, NEW d, NEW requests, Handles(c, d, requests), PhoneAs(d),
           \A r \in requests : Keyless(r)
    PROVE  KeysOK(S)'
  <1>1. /\ UNCHANGED <<scene, server, vars>> /\ calls' \subseteq calls \union requests
        /\ device' = d
    BY DEF Handles
  <1>2. PhoneAs(device')
    BY <1>1 DEF PhoneAs
  <1> QED
    BY <1>1, <1>2, PhoneSends

LEMMA ReportedPhone ==
    ASSUME NEW c, PhoneAs(device), NEW flow
    PROVE  /\ PhoneAs(Reported(c, device)) /\ PhoneAs([Reported(c, device) EXCEPT !.flow = flow])
  <1> DEFINE keys == {p \in device.keys : p[1] # Scope(c)}
             d    == [device EXCEPT !.keys = keys, !.meant = keys]
  <1>1. Reported(c, device) = d
    BY DEF Reported, PhoneAs
  <1>2. keys \subseteq device.keys
    OBVIOUS
  <1> HIDE DEF keys
  <1>3. /\ PhoneAs(d) /\ PhoneAs([d EXCEPT !.flow = flow])
    BY <1>2 DEF PhoneAs, IsPhone
  <1> QED
    BY <1>1, <1>3

LEMMA PhoneReceives ==
    ASSUME NEW S \in SUBSET Nat, KeysOK(S), NEW c \in calls, MobileReceives(c), UNCHANGED vars
    PROVE  KeysOK(S)'
  <1>1. IsMobile /\ PhoneAs(device)
    BY PhoneAsIs DEF MobileReceives
  <1>2. ASSUME NEW d, PhoneAs(d), Handles(c, d, {})
        PROVE  KeysOK(S)'
    BY <1>1, <1>2, PhoneHandles
  <1>3. ASSUME NEW d, PhoneAs(d), NEW requests, Handles(c, d, requests),
               \A r \in requests : Keyless(r)
        PROVE  KeysOK(S)'
    BY <1>1, <1>3, PhoneHandles
  <1>4. CASE MobileDrops(c)
    BY <1>1, <1>2, <1>4 DEF MobileDrops
  <1>5. CASE MobileEnds(c)
    <2>1. PhoneAs(Cleared(device))
      BY <1>1 DEF PhoneAs, IsPhone, Cleared
    <2> QED
      BY <1>2, <1>5, <2>1 DEF MobileEnds
  <1>6. CASE MobileFails(c)
    BY <1>1, <1>2, <1>6 DEF MobileFails, AfterFailure
  <1>7. CASE MobileLoggedIn(c)
    <2>1. PICK d : d = [device EXCEPT !.token = c.reply.no, !.serial = @ + 1]
      OBVIOUS
    <2>2. PICK requests : requests = {Load(d, kind) : kind \in {"profile", "list", "active"}}
      OBVIOUS
    <2>3. Handles(c, d, requests) /\ \A r \in requests : Keyless(r)
      BY <1>7, <2>1, <2>2, LoadsAreKeyless DEF MobileLoggedIn
    <2>4. PhoneAs(d)
      BY <1>1, <2>1 DEF PhoneAs, IsPhone
    <2> QED
      BY <1>3, <2>3, <2>4
  <1>8. CASE MobileShowsStations(c)
    <2>1. PICK d : /\ Handles(c, d, {})
                   /\ d = device \/ d = [device EXCEPT !.list = Read(c)]
      BY <1>8 DEF MobileShowsStations
    <2>2. PhoneAs(d)
      BY <1>1, <2>1 DEF PhoneAs, IsPhone
    <2> QED
      BY <1>2, <2>1, <2>2
  <1>9. CASE MobileShowsOrders(c)
    <2>1. PhoneAs([device EXCEPT !.orders = Read(c)])
      BY <1>1 DEF PhoneAs, IsPhone
    <2> QED
      BY <1>2, <1>9, <2>1 DEF MobileShowsOrders
  <1>10. CASE MobileShowsProfile(c)
    <2>1. \A x : PhoneAs([device EXCEPT !.profile = x]) /\ PhoneAs([device EXCEPT !.avatar = x])
      BY <1>1 DEF PhoneAs, IsPhone
    <2>2. CASE Handles(c, [device EXCEPT !.profile = Read(c)], {Load(device, "avatar")})
      <3>1. PICK d, requests : d = [device EXCEPT !.profile = Read(c)]
                               /\ requests = {Load(device, "avatar")}
        OBVIOUS
      <3>2. PhoneAs(d) /\ Handles(c, d, requests) /\ \A r \in requests : Keyless(r)
        BY <2>1, <2>2, <3>1, LoadsAreKeyless
      <3> QED
        BY <1>3, <3>2
    <2>3. CASE \E x : Handles(c, [device EXCEPT !.avatar = x], {})
      BY <1>2, <2>1, <2>3
    <2> QED
      BY <1>10, <2>2, <2>3 DEF MobileShowsProfile
  <1>11. CASE MobileShowsFlow(c)
    <2>1. \A x : /\ PhoneAs([device EXCEPT !.flow = x])
                 /\ PhoneAs([Reported(c, device) EXCEPT !.flow = x])
      BY <1>1, ReportedPhone DEF PhoneAs, IsPhone
    <2>2. \E x : \/ Handles(c, [device EXCEPT !.flow = x], {})
                 \/ Handles(c, [Reported(c, device) EXCEPT !.flow = x], {})
      BY <1>11 DEF MobileShowsFlow
    <2> QED
      BY <1>2, <2>1, <2>2
  <1>12. CASE MobileSettled(c)
    <2>1. PICK d, requests : /\ d = [Reported(c, device) EXCEPT !.flow = NoFlow]
                             /\ requests = {Load(device, "orders"), Load(device, "profile")}
      OBVIOUS
    <2>2. PhoneAs(d) /\ Handles(c, d, requests)
      BY <1>1, <1>12, <2>1, ReportedPhone DEF MobileSettled
    <2>3. \A r \in requests : Keyless(r)
      BY <2>1, LoadsAreKeyless
    <2> QED
      BY <1>3, <2>2, <2>3
  <1>13. CASE MobilePolled(c)
    <2>1. CASE Handles(c, device, {})
      BY <1>1, <1>2, <2>1
    <2>2. CASE \E requests : /\ Handles(c, [device EXCEPT !.flow = Shown(c)], requests)
                             /\ \A r \in requests : Keyless(r)
      <3>1. PICK d : d = [device EXCEPT !.flow = Shown(c)]
        OBVIOUS
      <3>2. PhoneAs(d)
        BY <1>1, <3>1 DEF PhoneAs, IsPhone
      <3> QED
        BY <1>3, <2>2, <3>1, <3>2
    <2>3. PICK loads, asks : /\ loads = {Load(device, kind) : kind \in {"active", "orders", "profile"}}
                             /\ asks = {[Request(device, "progress") EXCEPT !.no = c.no]}
      OBVIOUS
    <2>4. \A r \in loads : Keyless(r)
      BY <2>3, LoadsAreKeyless
    <2>5. \A r \in asks : Keyless(r)
      <3>1. PICK r : r = [Request(device, "progress") EXCEPT !.no = c.no]
        OBVIOUS
      <3>2. Keyless(r)
        BY <3>1, RequestsAreKeyless
      <3> QED
        BY <2>3, <3>1, <3>2
    <2>6. \/ Handles(c, device, {})
          \/ Handles(c, [device EXCEPT !.flow = Shown(c)], loads)
          \/ Handles(c, [device EXCEPT !.flow = Shown(c)], asks)
          \/ Handles(c, [device EXCEPT !.flow = Shown(c)], {})
      BY <1>13, <2>3 DEF MobilePolled
    <2> QED
      BY <2>1, <2>2, <2>4, <2>5, <2>6
  <1>14. CASE MobileProfileChanged(c)
    <2>1. PICK d, requests : d = Reported(c, device) /\ requests = {Load(device, "profile")}
      OBVIOUS
    <2>2. PhoneAs(d) /\ Handles(c, d, requests) /\ \A r \in requests : Keyless(r)
      BY <1>1, <1>14, <2>1, ReportedPhone, LoadsAreKeyless DEF MobileProfileChanged
    <2> QED
      BY <1>3, <2>2
  <1>15. CASE MobileReviewed(c)
    <2>1. PICK d : d = [device EXCEPT !.reviewBusy = FALSE]
      OBVIOUS
    <2>2. PhoneAs(d) /\ \A x, y : PhoneAs([d EXCEPT !.review = x, !.reviewed = y])
      BY <1>1, <2>1 DEF PhoneAs, IsPhone
    <2>3. \/ Handles(c, d, {})
          \/ \E x, y : Handles(c, [d EXCEPT !.review = x, !.reviewed = y], {})
      BY <1>15, <2>1, <2>2 DEF MobileReviewed, PhoneAs, IsPhone
    <2> QED
      BY <1>2, <2>2, <2>3
  <1> QED
    BY <1>4, <1>5, <1>6, <1>7, <1>8, <1>9, <1>10, <1>11, <1>12, <1>13, <1>14, <1>15
    DEF MobileReceives

-----------------------------------------------------------------------------
(* The network and the server. *)

\* A request, later: with a reply, given up, or sent again.
LEMMA Moved ==
    ASSUME NEW c, NEW S, Meant(c, S), NEW at, NEW reply, NEW by, NEW tries,
           at \in {"Handled", "LateHandled"} => scene.linked /\ c.kind = "settle"
    PROVE  /\ Meant([c EXCEPT !.at = at], S)
           /\ Meant([c EXCEPT !.at = at, !.reply = reply], S)
           /\ Meant([c EXCEPT !.at = at, !.by = by, !.tries = tries], S)
  <1>1. ASSUME NEW d, IsCall(d), d.kind = c.kind, d.key = c.key, d.intent = c.intent, d.at = at
        PROVE  Meant(d, S)
    BY <1>1 DEF Meant, Handled
  <1>2. PICK d : d = [c EXCEPT !.at = at]
    OBVIOUS
  <1>3. PICK e : e = [c EXCEPT !.at = at, !.reply = reply]
    OBVIOUS
  <1>4. PICK f : f = [c EXCEPT !.at = at, !.by = by, !.tries = tries]
    OBVIOUS
  <1>5. IsCall(d) /\ d.kind = c.kind /\ d.key = c.key /\ d.intent = c.intent /\ d.at = at
    BY <1>2 DEF Meant, IsCall
  <1>6. IsCall(e) /\ e.kind = c.kind /\ e.key = c.key /\ e.intent = c.intent /\ e.at = at
    BY <1>3 DEF Meant, IsCall
  <1>7. IsCall(f) /\ f.kind = c.kind /\ f.key = c.key /\ f.intent = c.intent /\ f.at = at
    BY <1>4 DEF Meant, IsCall
  <1> QED
    BY <1>1, <1>2, <1>3, <1>4, <1>5, <1>6, <1>7

LEMMA RepliedKeeps ==
    ASSUME NEW S, KeysOK(S), NEW c \in calls, NEW r, Replied(c, r), NEW d \in calls'
    PROVE  Meant(d, S)
  <1>1. CASE d \in calls
    BY <1>1 DEF KeysOK
  <1>2. CASE d = [c EXCEPT !.at = "Answered", !.reply = r]
    <2>1. Meant(c, S)
      BY DEF KeysOK
    <2> QED
      BY <1>2, <2>1, Moved
  <1> QED
    BY <1>1, <1>2 DEF Replied

LEMMA NetworkKeeps ==
    ASSUME NEW S, KeysOK(S), UNCHANGED <<scene, device>>, \A c \in calls' : Meant(c, S),
           Done(S)'
    PROVE  KeysOK(S)'
  <1>1. NextKey' = NextKey /\ IsMobile' = IsMobile /\ IsDesktop' = IsDesktop
        /\ IsConsole' = IsConsole
    BY DEF NextKey, NoApp, IsMobile, IsDesktop, IsConsole
  <1>2. Held(S)'
    BY <1>1 DEF KeysOK, Held, For
  <1>3. \A c : Meant(c, S) => Meant(c, S)'
    BY <1>1 DEF Meant, For
  <1> QED
    BY <1>2, <1>3 DEF KeysOK

\* What does not touch the keys of the server keeps what is known of them.
LEMMA SameDone ==
    ASSUME NEW S, KeysOK(S), UNCHANGED <<scene, device>>, IsServer(server'),
           server'.done = server.done, server'.answers = server.answers,
           db.flow = "Completed" => db'.flow = "Completed"
    PROVE  Done(S)'
  <1>1. NextKey' = NextKey /\ NextKey \in Nat /\ MaxKeys \in Nat
    BY AppCallsAssumption DEF NextKey, NoApp, KeysOK, Held
  <1> QED
    BY <1>1, StillDone DEF KeysOK

\* What is recorded was not done before.
LEMMA RecordedDone ==
    ASSUME NEW S, KeysOK(S), UNCHANGED <<scene, device, db>>, NEW c \in calls, ~Answered(c),
           ~(scene.linked /\ c.kind = "settle"), NEW r, r # NoReply, NEW s, IsServer(s),
           s.done = server.done, s.answers = server.answers, server' = Recorded(c, r, s)
    PROVE  Done(S)'
  <1>1. /\ NextKey' = NextKey /\ NextKey \in Nat /\ MaxKeys \in Nat
    BY AppCallsAssumption DEF NextKey, NoApp, KeysOK, Held
  <1>2. Meant(c, S) /\ Done(S)
    BY DEF KeysOK
  <1>3. PICK k : k = c.key
    OBVIOUS
  <1>4. /\ k \in Nat /\ k < NextKey /\ c.intent = k
        /\ k # 0 => (c.kind = "settle" <=> k \in S)
    BY <1>2, <1>3 DEF Meant, For
  <1>5. /\ IsServer(server') /\ server'.answers = [server.answers EXCEPT ![k] = r]
        /\ server'.done = [server.done EXCEPT ![k] = server.done[k] + 1]
    BY <1>3, <1>4 DEF Recorded, IsServer
  <1>6. k \in 1..MaxKeys => server.done[k] = 0
    <2> SUFFICES ASSUME k \in 1..MaxKeys, server.done[k] = 1
                 PROVE  FALSE
      BY <1>2 DEF Done
    <2>1. Known(k, S) /\ k # 0
      BY <1>2 DEF Done
    <2>2. server.answers[k] # NoReply
      BY <1>4, <2>1 DEF Known
    <2> QED
      BY <1>3, <2>1, <2>2 DEF Answered
  <1>7. /\ server'.done \in [1..MaxKeys -> {0, 1}] /\ DOMAIN server'.answers = 1..MaxKeys
        /\ \A i \in 1..MaxKeys : i # k => server'.done[i] = server.done[i]
                                          /\ server'.answers[i] = server.answers[i]
        /\ k \in 1..MaxKeys => server'.done[k] = 1 /\ server'.answers[k] = r
    <2>1. server.done \in [1..MaxKeys -> {0, 1}] /\ DOMAIN server.answers = 1..MaxKeys
      BY <1>2 DEF Done
    <2>2. CASE k \in 1..MaxKeys
      <3>1. server'.done = [server.done EXCEPT ![k] = 1]
        BY <1>5, <1>6, <2>2
      <3> QED
        BY <1>5, <2>1, <2>2, <3>1
    <2>3. CASE k \notin 1..MaxKeys
      <3>1. DOMAIN server'.answers = 1..MaxKeys
            /\ \A i \in 1..MaxKeys : server'.answers[i] = server.answers[i]
        BY <1>5, <2>1, <2>3
      <3>2. server'.done = server.done
        BY <1>5, <2>1, <2>3
      <3> QED
        BY <2>1, <2>3, <3>1, <3>2
    <2> QED
      BY <2>2, <2>3
  <1>8. ASSUME NEW i \in 1..MaxKeys, server'.done[i] = 1
        PROVE  i < NextKey' /\ Known(i, S)'
    <2>1. CASE i = k
      BY <1>1, <1>4, <1>7, <2>1 DEF Known
    <2>2. CASE i # k
      <3>1. i < NextKey /\ Known(i, S)
        BY <1>2, <1>7, <1>8, <2>2 DEF Done
      <3> QED
        BY <1>1, <1>7, <2>2, <3>1 DEF Known
    <2> QED
      BY <2>1, <2>2
  <1> QED
    BY <1>5, <1>7, <1>8 DEF Done

LEMMA LoseKeeps ==
    ASSUME NEW S, KeysOK(S), NEW c \in calls, Lose(c), UNCHANGED vars
    PROVE  KeysOK(S)'
  <1>1. Meant(c, S)
    BY DEF KeysOK
  <1>2. ASSUME NEW d \in calls' PROVE Meant(d, S)
    <2>1. \/ d \in calls
          \/ d = [c EXCEPT !.at = "Answered", !.reply = Failure("Unreachable")]
          \/ d = [c EXCEPT !.at = "Late"]
          \/ c.at = "Handled" /\ d = [c EXCEPT !.at = "LateHandled"]
      BY DEF Lose, Remains
    <2>2. c.at = "Handled" => scene.linked /\ c.kind = "settle"
      BY <1>1 DEF Meant, Handled
    <2>3. CASE d = [c EXCEPT !.at = "Answered", !.reply = Failure("Unreachable")]
      BY <1>1, <2>3, Moved
    <2>4. CASE d = [c EXCEPT !.at = "Late"]
      BY <1>1, <2>4, Moved
    <2>5. CASE c.at = "Handled" /\ d = [c EXCEPT !.at = "LateHandled"]
      BY <1>1, <2>2, <2>5, Moved
    <2> QED
      BY <2>1, <2>3, <2>4, <2>5 DEF KeysOK
  <1>3. Done(S)'
    BY SameDone DEF Lose, KeysOK, Done, vars
  <1> QED
    BY <1>2, <1>3, NetworkKeeps DEF Lose

\* The server after a request, or after something else, that kept no answer.
Unkept == IsServer(server') /\ server'.done = server.done /\ server'.answers = server.answers

LEMMA SameServer == ASSUME NEW S, KeysOK(S), UNCHANGED server PROVE Unkept
  BY DEF KeysOK, Done, Unkept

\* What a request is answered with, and what is kept of it.
Recording(c) ==
    /\ ~Answered(c) /\ ~(scene.linked /\ c.kind = "settle")
    /\ \E r, s : /\ r # NoReply /\ server' = Recorded(c, r, s)
                 /\ IsServer(s) /\ s.done = server.done /\ s.answers = server.answers

LEMMA OkIsNone == \A n, m : /\ Ok # NoReply /\ [Ok EXCEPT !.no = n, !.status = m] # NoReply
  BY DEF Ok, NoReply

LEMMA ServeEffects ==
    ASSUME NEW S, KeysOK(S), NEW c \in calls, Serve(c)
    PROVE  /\ \E r : Replied(c, r)
           /\ Unkept \/ Recording(c)
           /\ UNCHANGED <<scene, device>>
  <1> USE DEF Refused
  <1>1. IsServer(server) /\ (UNCHANGED server => Unkept)
    BY SameServer DEF KeysOK, Done
  <1>2. ASSUME NEW r, NEW s, Carried(c, r, s), r # NoReply, ~Answered(c),
               ~(scene.linked /\ c.kind = "settle"),
               IsServer(s), s.done = server.done, s.answers = server.answers
        PROVE  (\E q : Replied(c, q)) /\ Recording(c)
    BY <1>2 DEF Carried, Recording
  <1>3. CASE ServeLogin(c)
    <2>1. CASE Replied(c, Failure("Refused")) /\ UNCHANGED server
      BY <1>1, <1>3, <2>1 DEF ServeLogin
    <2>2. ASSUME NEW new, NEW live, NEW u,
                 server' = [server EXCEPT !.issued = new, !.owner[new] = u, !.live = live]
          PROVE  Unkept
      BY <1>1, <2>2 DEF IsServer, Unkept
    <2> QED
      BY <1>3, <2>1, <2>2 DEF ServeLogin
  <1>4. CASE ServeUnauthorized(c) \/ ServeAgain(c) \/ ServeReading(c)
    <2>1. UNCHANGED <<scene, device, server>>
      BY <1>4 DEF ServeUnauthorized, ServeAgain, ServeReading
    <2>2. \E r : Replied(c, r)
      BY <1>4 DEF ServeUnauthorized, ServeAgain, ServeReading
    <2> QED
      BY <1>1, <2>1, <2>2
  <1>5. CASE ServeSignOff(c)
    <2>1. \A live : server' = [server EXCEPT !.live = live] => Unkept
      BY <1>1 DEF IsServer, Unkept
    <2> QED
      BY <1>1, <1>5, <2>1 DEF ServeSignOff
  <1>6. CASE ServeCreate(c)
    <2>1. CASE Replied(c, Failure("Refused")) /\ UNCHANGED server
      BY <1>1, <1>6, <2>1 DEF ServeCreate
    <2>2. CASE \E n, status, f : Carried(c, [Ok EXCEPT !.no = n, !.status = status],
                                         [server EXCEPT !.flows[n] = f])
      <3>1. PICK n, status, f, r, s : /\ Carried(c, r, s) /\ r = [Ok EXCEPT !.no = n, !.status = status]
                                      /\ s = [server EXCEPT !.flows[n] = f]
        BY <2>2
      <3>2. r # NoReply /\ IsServer(s) /\ s.done = server.done /\ s.answers = server.answers
        BY <1>1, <3>1, OkIsNone DEF IsServer
      <3> QED
        BY <1>2, <1>6, <3>1, <3>2 DEF ServeCreate, Serves
    <2> QED
      BY <1>6, <2>1, <2>2 DEF ServeCreate
  <1>7. CASE ServeFlow(c)
    <2>1. CASE Replied(c, Failure("Conflict")) /\ UNCHANGED server
      BY <1>1, <1>7, <2>1 DEF ServeFlow
    <2>2. CASE Carried(c, [Ok EXCEPT !.no = c.no, !.status = To[c.kind]],
                       [server EXCEPT !.flows[c.no].status = To[c.kind]])
      <3>1. PICK r, s, x : /\ Carried(c, r, s) /\ r = [Ok EXCEPT !.no = c.no, !.status = x]
                           /\ s = [server EXCEPT !.flows[c.no].status = x]
        BY <2>2
      <3>2. r # NoReply /\ IsServer(s) /\ s.done = server.done /\ s.answers = server.answers
        BY <1>1, <3>1, OkIsNone DEF IsServer
      <3> QED
        BY <1>2, <1>7, <3>1, <3>2 DEF ServeFlow, Serves
    <2> QED
      BY <1>7, <2>1, <2>2 DEF ServeFlow
  <1>8. CASE ServeOther(c)
    <2>1. CASE \E code : Replied(c, Failure(code)) /\ UNCHANGED server
      BY <1>1, <1>8, <2>1 DEF ServeOther
    <2>2. CASE \E r : /\ Replied(c, r)
                      /\ \/ server' = [server EXCEPT !.version = @ + 1]
                         \/ server' = [server EXCEPT !.proven = @ \union {c.by}]
      <3>1. Unkept
        BY <1>1, <2>2 DEF IsServer, Unkept
      <3> QED
        BY <1>8, <2>2, <3>1 DEF ServeOther
    <2>3. CASE \E s : /\ Carried(c, Ok, s) /\ IsServer(s) /\ s.done = server.done
                      /\ s.answers = server.answers
      <3>1. ~Answered(c) /\ c.kind # "settle" /\ UNCHANGED <<scene, device>>
        BY <1>8 DEF ServeOther, Serves
      <3> QED
        BY <1>2, <2>3, <3>1, OkIsNone
    <2>4. ASSUME NEW s, \/ s = server \/ s = [server EXCEPT !.reviewed = TRUE]
                        \/ s = [server EXCEPT !.version = @ + 1]
                        \/ s = [server EXCEPT !.command = "Pending"]
          PROVE  IsServer(s) /\ s.done = server.done /\ s.answers = server.answers
      BY <1>1, <2>4 DEF IsServer
    <2> QED
      BY <1>8, <2>1, <2>2, <2>3, <2>4 DEF ServeOther
  <1> QED
    BY <1>3, <1>4, <1>5, <1>6, <1>7, <1>8 DEF Serve

LEMMA ServeKeeps ==
    ASSUME NEW S, KeysOK(S), NEW c \in calls, Serve(c), UNCHANGED vars
    PROVE  KeysOK(S)'
  <1>1. UNCHANGED <<scene, device, db>>
    BY ServeEffects DEF vars
  <1>2. ASSUME NEW d \in calls' PROVE Meant(d, S)
    BY ServeEffects, RepliedKeeps
  <1>3. Done(S)'
    <2>1. CASE Unkept
      BY <1>1, <2>1, SameDone DEF Unkept
    <2>2. CASE Recording(c)
      BY <1>1, <2>2, RecordedDone DEF Recording
    <2> QED
      BY <2>1, <2>2, ServeEffects
  <1> QED
    BY <1>1, <1>2, <1>3, NetworkKeeps

\* Events and the ends of commands.
LEMMA EventKeeps ==
    ASSUME NEW S, KeysOK(S), ServerEvent \/ CommandEnds, UNCHANGED vars
    PROVE  KeysOK(S)'
  <1>1. IsServer(server)
    BY DEF KeysOK, Done
  <1>2. /\ IsServer(server') /\ server'.done = server.done /\ server'.answers = server.answers
        /\ UNCHANGED <<scene, device, calls>>
    <2>1. CASE ServerEvent
      BY <1>1, <2>1 DEF ServerEvent, IsServer
    <2>2. CASE CommandEnds
      BY <1>1, <2>2 DEF CommandEnds, IsServer
    <2> QED
      BY <2>1, <2>2
  <1>3. Done(S)'
    BY <1>2, SameDone DEF vars
  <1> QED
    BY <1>2, <1>3, NetworkKeeps DEF KeysOK

-----------------------------------------------------------------------------
(* The windows: of the users, and of the administrators. *)

\* A window after a step that makes no key for a review.
WindowAs(d) ==
    /\ IsDesktop => IsWindow(d) /\ d.reviewKey \in {device.reviewKey, 0}
    /\ IsConsole => IsConsoleWindow(d)

LEMMA WindowAsIs ==
    ASSUME NEW S, KeysOK(S)
    PROVE  /\ WindowAs(device)
           /\ IsDesktop => IsWindow(device)
           /\ IsConsole => IsConsoleWindow(device)
  BY DEF WindowAs, KeysOK, Held

LEMMA WindowKeeps ==
    ASSUME IsDesktop \/ IsConsole, WindowAs(device'), NEW T
    PROVE  OneApp /\ ~NoApp /\ KeepsToIts(T)
  BY DEF WindowAs, KeepsToIts, OneApp, NoApp, IsMobile, IsDesktop, IsConsole

LEMMA WindowSends ==
    ASSUME NEW S \in SUBSET Nat, KeysOK(S), IsDesktop \/ IsConsole,
           UNCHANGED <<scene, server, vars>>, WindowAs(device'),
           device'.nextKey = device.nextKey, NEW New, calls' \subseteq calls \union New,
           \A c \in New : Keyless(c) \/ Meant(c, S)'
    PROVE  KeysOK(S)'
  <1>1. scene' = scene /\ server' = server /\ db' = db
    BY DEF vars
  <1> QED
    BY <1>1, WindowKeeps, AppQuiet

LEMMA WindowSendsOne ==
    ASSUME NEW S \in SUBSET Nat, KeysOK(S), IsDesktop \/ IsConsole,
           UNCHANGED <<scene, server, vars>>, WindowAs(device'),
           device'.nextKey = device.nextKey, NEW c, calls' \subseteq calls \union {c},
           Keyless(c) \/ Meant(c, S)'
    PROVE  KeysOK(S)'
  <1> DEFINE New == {c}
  <1>1. calls' \subseteq calls \union New /\ \A x \in New : Keyless(x) \/ Meant(x, S)'
    OBVIOUS
  <1> HIDE DEF New
  <1> QED
    BY <1>1, WindowSends

\* Requests with the key of a new wish.
Wish(c) == IsCall(c) /\ c.key = device.nextKey /\ c.intent = device.nextKey /\ c.at = "Sent"

LEMMA WindowWishes ==
    ASSUME NEW S \in SUBSET Nat, KeysOK(S), IsDesktop \/ IsConsole,
           UNCHANGED <<scene, server, vars>>, WindowAs(device'),
           device'.nextKey = device.nextKey + 1, NEW c, Wish(c),
           calls' \subseteq calls \union {c}
    PROVE  \E T \in SUBSET Nat : KeysOK(T)'
  <1>1. scene' = scene /\ server' = server /\ db' = db /\ ~Handled(c)
    BY DEF vars, Handled, Wish
  <1> QED
    BY <1>1, WindowKeeps, AppWishes DEF Wish

LEMMA WindowHandles ==
    ASSUME NEW S \in SUBSET Nat, KeysOK(S), IsDesktop \/ IsConsole, UNCHANGED vars,
           NEW c, NEW d, NEW requests, Handles(c, d, requests), WindowAs(d),
           d.nextKey = device.nextKey, \A r \in requests : Keyless(r)
    PROVE  KeysOK(S)'
  <1>1. /\ UNCHANGED <<scene, server, vars>> /\ calls' \subseteq calls \union requests
        /\ device' = d
    BY DEF Handles
  <1>2. WindowAs(device') /\ device'.nextKey = device.nextKey
    BY <1>1 DEF WindowAs
  <1> QED
    BY <1>1, <1>2, WindowSends

LEMMA Wishes ==
    ASSUME NEW kind, NEW n, NEW v
    PROVE  /\ Wish(Keyed(kind)) /\ Wish(OfFlow(kind)) /\ Wish(Once(kind))
           /\ Wish([Once(kind) EXCEPT !.version = v, !.no = n])
           /\ Wish([Once(kind) EXCEPT !.version = v])
  <1>1. PICK r, k : r = Request(device, kind) /\ k = device.nextKey
    OBVIOUS
  <1>2. IsCall(r) /\ r.at = "Sent"
    BY <1>1, RequestFields
  <1>3. PICK q : q = [r EXCEPT !.key = k, !.intent = k]
    OBVIOUS
  <1>4. IsCall(q) /\ q.key = k /\ q.intent = k /\ q.at = "Sent"
    BY <1>2, <1>3 DEF IsCall
  <1>5. Keyed(kind) = q /\ Once(kind) = q
    BY <1>1, <1>3 DEF Keyed, Once
  <1>6. Wish(q) /\ \A x : Wish([q EXCEPT !.version = x])
    BY <1>1, <1>4 DEF Wish, IsCall
  <1>7. \A x, y : Wish([q EXCEPT !.version = x, !.no = y])
    BY <1>1, <1>4 DEF Wish, IsCall
  <1>8. Wish(OfFlow(kind))
    <2>1. PICK x, y : x = device.flow.no /\ y = device.flow.status
      OBVIOUS
    <2>2. OfFlow(kind) = [q EXCEPT !.no = x, !.version = y]
      BY <1>5, <2>1 DEF OfFlow
    <2>3. Wish([q EXCEPT !.no = x, !.version = y])
      BY <1>1, <1>4 DEF Wish, IsCall
    <2> QED
      BY <2>2, <2>3
  <1> QED
    BY <1>5, <1>6, <1>7, <1>8

LEMMA DeskTaps ==
    ASSUME NEW S \in SUBSET Nat, KeysOK(S), DesktopTaps \/ DesktopPolls, UNCHANGED vars
    PROVE  \E T \in SUBSET Nat : KeysOK(T)'
  <1>1. IsDesktop
    BY DEF DesktopTaps, DesktopPolls, DesktopLogin, DesktopSignOff, DesktopOpensPage,
           DesktopPosts, DesktopBegins, DesktopAnswers, DesktopOpensReview, DesktopInReview,
           Inside, AtWindow
  <1>2. UNCHANGED <<scene, server, vars>>
    BY DEF DesktopTaps, DesktopPolls, DesktopLogin, DesktopSignOff, DesktopOpensPage,
           DesktopPosts, DesktopBegins, DesktopAnswers, DesktopOpensReview, DesktopInReview, Taps
  <1>3. WindowAs(device) /\ IsWindow(device) /\ ~IsConsole
    BY <1>1, WindowAsIs DEF IsDesktop, IsConsole
  <1>4. ASSUME NEW d, WindowAs(d), d.nextKey = device.nextKey, NEW c, Keyless(c), Sends(d, {c})
        PROVE  KeysOK(S)'
    <2>1. WindowAs(device') /\ device'.nextKey = device.nextKey
      BY <1>4 DEF WindowAs, Sends
    <2>2. calls' \subseteq calls \union {c}
      BY <1>4 DEF Sends
    <2> QED
      BY <1>1, <1>2, <1>4, <2>1, <2>2, WindowSendsOne
  <1>5. ASSUME NEW d, WindowAs(d), d.nextKey = device.nextKey + 1, NEW c, Wish(c),
               Sends(d, {c})
        PROVE  \E T \in SUBSET Nat : KeysOK(T)'
    <2>1. WindowAs(device') /\ device'.nextKey = device.nextKey + 1
      BY <1>5 DEF WindowAs, Sends
    <2>2. calls' \subseteq calls \union {c}
      BY <1>5 DEF Sends
    <2> QED
      BY <1>1, <1>2, <1>5, <2>1, <2>2, WindowWishes
  <1>6. CASE DesktopLogin
    <2>1. PICK u, d, c : /\ d = [device EXCEPT !.loggingIn = TRUE] /\ Sends(d, {c})
                         /\ c = [Request(device, "login") EXCEPT !.user = u]
      BY <1>6 DEF DesktopLogin
    <2>2. WindowAs(d) /\ d.nextKey = device.nextKey
      BY <1>3, <2>1 DEF WindowAs, IsWindow
    <2> QED
      BY <1>4, <2>1, <2>2, RequestsAreKeyless
  <1>7. CASE DesktopSignOff
    <2>1. PICK kind : Sends(device, {Request(device, kind)})
      BY <1>7 DEF DesktopSignOff
    <2> QED
      BY <1>3, <1>4, <2>1, RequestsAreKeyless
  <1>8. CASE DesktopOpensPage
    <2>1. CASE Sends([device EXCEPT !.serial = @ + 1],
                     {[Request(device, "list") EXCEPT !.serial = device.serial + 1]})
      <3>1. PICK d, c : /\ d = [device EXCEPT !.serial = @ + 1] /\ Sends(d, {c})
                        /\ c = [Request(device, "list") EXCEPT !.serial = device.serial + 1]
        BY <2>1
      <3>2. WindowAs(d) /\ d.nextKey = device.nextKey
        BY <1>3, <3>1 DEF WindowAs, IsWindow
      <3> QED
        BY <1>4, <3>1, <3>2, RequestsAreKeyless
    <2>2. CASE Sends([device EXCEPT !.ordersSerial = @ + 1],
                     {[Request(device, "orders") EXCEPT !.serial = device.ordersSerial + 1]})
      <3>1. PICK d, c : /\ d = [device EXCEPT !.ordersSerial = @ + 1] /\ Sends(d, {c})
                        /\ c = [Request(device, "orders") EXCEPT !.serial = device.ordersSerial + 1]
        BY <2>2
      <3>2. WindowAs(d) /\ d.nextKey = device.nextKey
        BY <1>3, <3>1 DEF WindowAs, IsWindow
      <3> QED
        BY <1>4, <3>1, <3>2, RequestsAreKeyless
    <2>3. CASE Sends(device, {Request(device, "profile")})
      BY <1>3, <1>4, <2>3, RequestsAreKeyless
    <2>4. CASE Sends(device, {[Request(device, "rename") EXCEPT !.version = device.profile.version]})
      BY <1>3, <1>4, <2>4, RequestsAreKeyless
    <2> QED
      BY <1>8, <2>1, <2>2, <2>3, <2>4 DEF DesktopOpensPage
  <1>9. CASE DesktopPosts
    <2>1. PICK d, c, kind : /\ d = [device EXCEPT !.nextKey = @ + 1] /\ Sends(d, {c})
                            /\ c = Keyed(kind) \/ c = OfFlow(kind)
      BY <1>9 DEF DesktopPosts
    <2>2. WindowAs(d) /\ d.nextKey = device.nextKey + 1
      BY <1>3, <2>1 DEF WindowAs, IsWindow
    <2>3. Wish(c)
      BY <2>1, Wishes
    <2> QED
      BY <1>5, <2>1, <2>2, <2>3
  <1>10. CASE DesktopBegins
    BY <1>3, <1>4, <1>10, RequestsAreKeyless DEF DesktopBegins
  <1>11. CASE DesktopAnswers
    <2>1. PICK d, c, kind : /\ d = [device EXCEPT !.asking = @ - 1, !.nextKey = @ + 1]
                            /\ Sends(d, {c}) /\ c = OfFlow(kind)
      BY <1>11 DEF DesktopAnswers
    <2>2. WindowAs(d) /\ d.nextKey = device.nextKey + 1
      BY <1>3, <2>1 DEF WindowAs, IsWindow
    <2>3. Wish(c)
      BY <2>1, Wishes
    <2> QED
      BY <1>5, <2>1, <2>2, <2>3
  <1>12. CASE DesktopOpensReview
    <2>1. PICK d, c : /\ d = [device EXCEPT !.reviewKey = device.nextKey, !.nextKey = @ + 1,
                                 !.review = Nothing, !.reviewBusy = TRUE, !.reviewed = FALSE]
                      /\ c = [Request(device, "review") EXCEPT !.serial = device.nextKey]
                      /\ Sends(d, {c})
      BY <1>12 DEF DesktopOpensReview
    <2>2. /\ device' = d /\ calls' \subseteq calls \union {c} /\ Keyless(c)
      BY <2>1, RequestsAreKeyless DEF Sends
    <2>3. /\ IsWindow(device') /\ device'.nextKey = device.nextKey + 1
          /\ device'.reviewKey = device.nextKey
      BY <1>3, <2>1, <2>2 DEF IsWindow
    <2>4. PICK n : n = device.nextKey
      OBVIOUS
    <2>5. n \in Nat \ {0} /\ NextKey' = n + 1
      BY <1>1, <1>2, <2>3, <2>4 DEF KeysOK, Held, NextKey, NoApp, IsDesktop
    <2>6. PICK T \in SUBSET Nat : T = S \ {n}
      OBVIOUS
    <2>7. For(device.reviewKey, "submit", T)'
      BY <2>3, <2>4, <2>5, <2>6 DEF For
    <2>8. OneApp /\ ~NoApp /\ KeepsToIts(T)
      BY <1>1, <2>3, <2>7 DEF KeepsToIts, OneApp, NoApp, IsMobile, IsDesktop, IsConsole
    <2>9. /\ device'.nextKey \in Nat /\ device.nextKey <= device'.nextKey
          /\ \A i \in Nat : i < device.nextKey => (i \in S <=> i \in T)
      BY <2>3, <2>4, <2>5, <2>6
    <2>10. scene' = scene /\ server' = server /\ db' = db
      BY <1>2 DEF vars
    <2> DEFINE New == {c}
    <2>11. calls' \subseteq calls \union New /\ \A x \in New : Keyless(x) \/ Meant(x, T)'
      BY <2>2
    <2> HIDE DEF New
    <2> QED
      BY <2>8, <2>9, <2>10, <2>11, AppSends
  <1>13. CASE DesktopInReview
    <2>1. CASE Sends([device EXCEPT !.reviewBusy = TRUE],
                     {[Request(device, "submit") EXCEPT !.serial = device.reviewKey,
                          !.key = device.reviewKey, !.intent = device.reviewKey]})
      <3>1. PICK k, r, d, c : /\ k = device.reviewKey /\ r = Request(device, "submit")
                              /\ d = [device EXCEPT !.reviewBusy = TRUE] /\ Sends(d, {c})
                              /\ c = [r EXCEPT !.serial = k, !.key = k, !.intent = k]
        BY <2>1
      <3>2. IsCall(r) /\ r.kind = "submit" /\ r.at = "Sent"
        BY <3>1, RequestFields
      <3>3. /\ IsCall(c) /\ c.kind = "submit" /\ c.key = k /\ c.intent = k /\ ~Handled(c)
        BY <3>1, <3>2 DEF IsCall, Handled
      <3>4. WindowAs(device') /\ device'.nextKey = device.nextKey
            /\ calls' \subseteq calls \union {c}
        BY <1>3, <3>1 DEF WindowAs, IsWindow, Sends
      <3>5. For(k, "submit", S) /\ NextKey' = NextKey
        BY <1>1, <1>2, <3>1, <3>4 DEF KeysOK, Held, NextKey, NoApp
      <3>6. Meant(c, S)'
        BY <3>3, <3>5 DEF Meant, For
      <3> QED
        BY <1>1, <1>2, <3>4, <3>6, WindowSendsOne
    <2>2. CASE Sends([device EXCEPT !.reviewBusy = TRUE],
                     {[Request(device, "review") EXCEPT !.serial = device.reviewKey]})
      <3>1. PICK d, c : /\ d = [device EXCEPT !.reviewBusy = TRUE] /\ Sends(d, {c})
                        /\ c = [Request(device, "review") EXCEPT !.serial = device.reviewKey]
        BY <2>2
      <3>2. WindowAs(d) /\ d.nextKey = device.nextKey
        BY <1>3, <3>1 DEF WindowAs, IsWindow
      <3> QED
        BY <1>4, <3>1, <3>2, RequestsAreKeyless
    <2>3. CASE Sends([device EXCEPT !.reviewKey = 0, !.reviewBusy = FALSE], {})
      <3>1. WindowAs(device') /\ device'.nextKey = device.nextKey /\ calls' = calls
        BY <1>3, <2>3 DEF WindowAs, IsWindow, Sends
      <3>2. PICK New : New = {}
        OBVIOUS
      <3>3. calls' \subseteq calls \union New /\ \A c \in New : Keyless(c) \/ Meant(c, S)'
        BY <3>1, <3>2
      <3> QED
        BY <1>1, <1>2, <3>1, <3>3, WindowSends
    <2> QED
      BY <1>13, <2>1, <2>2, <2>3 DEF DesktopInReview
  <1>14. CASE DesktopPolls
    <2>1. PICK kind, d, c : /\ d = [device EXCEPT !.polling = TRUE] /\ Sends(d, {c})
                            /\ c = [Request(device, kind) EXCEPT !.no = device.flow.no]
      BY <1>14 DEF DesktopPolls
    <2>2. WindowAs(d) /\ d.nextKey = device.nextKey
      BY <1>3, <2>1 DEF WindowAs, IsWindow
    <2> QED
      BY <1>4, <2>1, <2>2, RequestsAreKeyless
  <1> QED
    BY <1>6, <1>7, <1>8, <1>9, <1>10, <1>11, <1>12, <1>13, <1>14 DEF DesktopTaps

\* The window of a user after a reply: no key is new.
SameWindow(d) ==
    IsWindow(d) /\ d.nextKey = device.nextKey /\ d.reviewKey \in {device.reviewKey, 0}

LEMMA RestoredWindow ==
    ASSUME NEW c, NEW d, SameWindow(d)
    PROVE  SameWindow(Restored(c, d))
  <1>1. PICK shown : shown = [d EXCEPT !.flow = Shown(c)]
    OBVIOUS
  <1>2. SameWindow(shown)
    BY <1>1 DEF SameWindow, IsWindow
  <1>3. PICK paged : paged = [shown EXCEPT !.inside = TRUE]
    OBVIOUS
  <1>4. SameWindow(paged)
    BY <1>2, <1>3 DEF SameWindow, IsWindow
  <1>5. /\ SameWindow([shown EXCEPT !.asking = @ + 1])
        /\ SameWindow([paged EXCEPT !.charging = TRUE])
        /\ SameWindow([paged EXCEPT !.charging = FALSE])
        /\ SameWindow([paged EXCEPT !.flow.no = 0])
    BY <1>2, <1>4 DEF SameWindow, IsWindow
  <1>6. \/ Restored(c, d) = [shown EXCEPT !.asking = @ + 1]
        \/ Restored(c, d) = [paged EXCEPT !.charging = TRUE]
        \/ Restored(c, d) = [paged EXCEPT !.charging = FALSE]
        \/ Restored(c, d) = [paged EXCEPT !.flow.no = 0]
    BY <1>1, <1>3 DEF Restored
  <1> QED
    BY <1>5, <1>6

\* What the window shows of a reply, and what it no longer waits for.
LEMMA WindowShows ==
    ASSUME NEW d, SameWindow(d), NEW x, NEW y
    PROVE  /\ SameWindow([d EXCEPT !.list = x]) /\ SameWindow([d EXCEPT !.orders = x])
           /\ SameWindow([d EXCEPT !.profile = x, !.avatar = y])
           /\ SameWindow([d EXCEPT !.avatar = x])
  BY DEF SameWindow, IsWindow

LEMMA WindowShowsFlow ==
    ASSUME NEW d, SameWindow(d), NEW x
    PROVE  /\ SameWindow([d EXCEPT !.flow = x, !.charging = FALSE, !.inside = TRUE])
           /\ SameWindow([d EXCEPT !.flow.status = x, !.charging = TRUE])
           /\ SameWindow(PollEnds(d)) /\ SameWindow(Forgotten(d))
  BY DEF SameWindow, IsWindow, PollEnds, Forgotten

LEMMA WindowTurns ==
    ASSUME NEW d, SameWindow(d), NEW x
    PROVE  /\ SameWindow([d EXCEPT !.loggingIn = FALSE])
           /\ SameWindow([d EXCEPT !.online = FALSE, !.inside = TRUE])
           /\ SameWindow([d EXCEPT !.token = x, !.online = TRUE, !.inside = TRUE, !.serial = @ + 1])
           /\ SameWindow([d EXCEPT !.token = 0, !.online = FALSE, !.inside = FALSE])
  BY DEF SameWindow, IsWindow

LEMMA WindowReviews ==
    ASSUME NEW d, SameWindow(d), NEW x, NEW y
    PROVE  /\ SameWindow([d EXCEPT !.reviewBusy = FALSE])
           /\ SameWindow([d EXCEPT !.review = x, !.reviewed = y])
  BY DEF SameWindow, IsWindow

LEMMA DeskReceives ==
    ASSUME NEW S \in SUBSET Nat, KeysOK(S), NEW c \in calls, DesktopReceives(c), UNCHANGED vars
    PROVE  \E T \in SUBSET Nat : KeysOK(T)'
  <1>1. IsDesktop /\ SameWindow(device)
    BY WindowAsIs DEF DesktopReceives, SameWindow
  <1>2. ASSUME NEW d, SameWindow(d), NEW requests, Handles(c, d, requests),
               \A r \in requests : Keyless(r)
        PROVE  KeysOK(S)'
    <2>1. WindowAs(d) /\ d.nextKey = device.nextKey
      BY <1>1, <1>2 DEF SameWindow, WindowAs, IsDesktop, IsConsole
    <2> QED
      BY <1>1, <1>2, <2>1, WindowHandles
  <1>3. ASSUME NEW d, SameWindow(d), Handles(c, d, {})
        PROVE  KeysOK(S)'
    <2>1. PICK requests : requests = {}
      OBVIOUS
    <2> QED
      BY <1>2, <1>3, <2>1
  <1>4. ASSUME NEW d, SameWindow(d), NEW r, Keyless(r), Handles(c, d, {r})
        PROVE  KeysOK(S)'
    <2>1. PICK requests : requests = {r}
      OBVIOUS
    <2> QED
      BY <1>2, <1>4, <2>1
  <1>5. CASE DesktopLoggedIn(c)
    <2>1. PICK d : d = [device EXCEPT !.loggingIn = FALSE]
      OBVIOUS
    <2>2. SameWindow(d)
      BY <1>1, <2>1, WindowTurns
    <2>3. PICK home : home = [d EXCEPT !.token = c.reply.no, !.online = TRUE, !.inside = TRUE,
                                       !.serial = @ + 1]
      OBVIOUS
    <2>4. SameWindow(home) /\ SameWindow([d EXCEPT !.online = FALSE, !.inside = TRUE])
      BY <2>2, <2>3, WindowTurns
    <2>5. \/ Handles(c, home, {[Request(home, "list") EXCEPT !.serial = home.serial]})
          \/ Handles(c, d, {})
          \/ Handles(c, [d EXCEPT !.online = FALSE, !.inside = TRUE], {})
      BY <1>5, <2>1, <2>3 DEF DesktopLoggedIn
    <2> QED
      BY <1>3, <1>4, <2>2, <2>4, <2>5, RequestsAreKeyless
  <1>6. CASE DesktopEnds(c)
    BY <1>1, <1>3, <1>6, WindowTurns DEF DesktopEnds
  <1>7. CASE DesktopFails(c)
    <2>1. PICK d : Handles(c, d, {}) /\ (d = device \/ d = Forgotten(device) \/ d = PollEnds(device))
      BY <1>7 DEF DesktopFails
    <2>2. SameWindow(d)
      BY <1>1, <2>1, WindowShowsFlow
    <2> QED
      BY <1>3, <2>1, <2>2
  <1>8. CASE DesktopShowsStations(c)
    <2>1. \A x : SameWindow([device EXCEPT !.list = x])
      BY <1>1, WindowShows
    <2>2. Handles(c, device, {}) \/ \E x : Handles(c, [device EXCEPT !.list = x], {})
      BY <1>8 DEF DesktopShowsStations
    <2> QED
      BY <1>1, <1>3, <2>1, <2>2
  <1>9. CASE DesktopShowsOrders(c)
    <2>1. \A x : SameWindow([device EXCEPT !.orders = x])
      BY <1>1, WindowShows
    <2>2. Handles(c, device, {}) \/ \E x : Handles(c, [device EXCEPT !.orders = x], {})
      BY <1>9 DEF DesktopShowsOrders
    <2> QED
      BY <1>1, <1>3, <2>1, <2>2
  <1>10. CASE DesktopShowsProfile(c)
    <2>1. CASE Handles(c, [device EXCEPT !.profile = Read(c), !.avatar = Nothing],
                       {Request(device, "avatar")})
      BY <1>1, <1>4, <2>1, WindowShows, RequestsAreKeyless
    <2>2. CASE Handles(c, [device EXCEPT !.avatar = Read(c)], {})
      BY <1>1, <1>3, <2>2, WindowShows
    <2> QED
      BY <1>10, <2>1, <2>2 DEF DesktopShowsProfile
  <1>11. CASE DesktopProfileChanged(c)
    BY <1>1, <1>4, <1>11, RequestsAreKeyless DEF DesktopProfileChanged
  <1>12. CASE DesktopAsked(c)
    <2>1. CASE Handles(c, Restored(c, device), {})
      BY <1>1, <1>3, <2>1, RestoredWindow
    <2>2. CASE Handles(c, [device EXCEPT !.nextKey = @ + 1], {Keyed("create")})
      <3>1. PICK d, r : d = [device EXCEPT !.nextKey = @ + 1] /\ r = Keyed("create")
        OBVIOUS
      <3>2. /\ UNCHANGED <<scene, server, vars>> /\ calls' \subseteq calls \union {r}
            /\ device' = d /\ Wish(r)
        BY <2>2, <3>1, Wishes DEF Handles
      <3>3. WindowAs(device') /\ device'.nextKey = device.nextKey + 1
        BY <1>1, <3>1, <3>2 DEF SameWindow, IsWindow, WindowAs, IsDesktop, IsConsole
      <3> QED
        BY <1>1, <3>2, <3>3, WindowWishes
    <2> QED
      BY <1>12, <2>1, <2>2 DEF DesktopAsked
  <1>13. CASE DesktopShowsFlow(c)
    <2>1. /\ \A x : SameWindow([device EXCEPT !.flow = x, !.charging = FALSE, !.inside = TRUE])
          /\ \A x : SameWindow([device EXCEPT !.flow.status = x, !.charging = TRUE])
          /\ SameWindow(Forgotten(device))
      BY <1>1, WindowShowsFlow
    <2>2. \/ \E x : Handles(c, [device EXCEPT !.flow = x, !.charging = FALSE, !.inside = TRUE], {})
          \/ \E x : Handles(c, [device EXCEPT !.flow.status = x, !.charging = TRUE], {})
          \/ Handles(c, Forgotten(device), {})
      BY <1>13 DEF DesktopShowsFlow
    <2> QED
      BY <1>3, <2>1, <2>2
  <1>14. CASE DesktopPolled(c)
    <2>1. PICK d : d = PollEnds(device)
      OBVIOUS
    <2>2. Handles(c, Restored(c, d), {}) \/ Handles(c, d, {})
      BY <1>14, <2>1 DEF DesktopPolled
    <2> QED
      BY <1>1, <1>3, <2>1, <2>2, WindowShowsFlow, RestoredWindow
  <1>15. CASE DesktopReviewed(c)
    <2>1. PICK d : d = [device EXCEPT !.reviewBusy = FALSE]
      OBVIOUS
    <2>2. \/ Handles(c, device, {})
          \/ Handles(c, device, {[Request(device, "review") EXCEPT !.serial = c.serial]})
          \/ Handles(c, d, {})
          \/ \E x, y : Handles(c, [d EXCEPT !.review = x, !.reviewed = y], {})
      BY <1>15, <2>1 DEF DesktopReviewed
    <2>3. SameWindow(d) /\ \A x, y : SameWindow([d EXCEPT !.review = x, !.reviewed = y])
      BY <1>1, <2>1, WindowReviews
    <2>4. Keyless([Request(device, "review") EXCEPT !.serial = c.serial])
      BY RequestsAreKeyless
    <2> QED
      BY <1>1, <1>3, <1>4, <2>2, <2>3, <2>4
  <1>16. KeysOK(S)' => \E T \in SUBSET Nat : KeysOK(T)'
    OBVIOUS
  <1> QED
    BY <1>5, <1>6, <1>7, <1>8, <1>9, <1>10, <1>11, <1>12, <1>13, <1>14, <1>15, <1>16
    DEF DesktopReceives

\* The one repetition of a request the transport failed for.
LEMMA DeskRepeats ==
    ASSUME NEW S \in SUBSET Nat, KeysOK(S), NEW c \in calls,
           DesktopPauses(c) \/ DesktopSendsAgain(c), UNCHANGED vars
    PROVE  KeysOK(S)'
  <1>1. IsDesktop /\ WindowAs(device) /\ Meant(c, S)
    BY WindowAsIs DEF DesktopPauses, DesktopSendsAgain, KeysOK
  <1>2. PICK d : /\ d = [c EXCEPT !.at = "Pausing", !.reply = NoReply] \/ d = Again(c)
                 /\ Handles(c, device, {d})
    BY DEF DesktopPauses, DesktopSendsAgain
  <1>3. Meant(d, S)
    <2>1. CASE d = [c EXCEPT !.at = "Pausing", !.reply = NoReply]
      BY <1>1, <2>1, Moved
    <2>2. CASE d = Again(c)
      BY <1>1, <2>2, Moved DEF Again
    <2> QED
      BY <1>2, <2>1, <2>2
  <1>4. /\ UNCHANGED <<scene, server, vars>> /\ calls' \subseteq calls \union {d}
        /\ device' = device
    BY <1>2 DEF Handles
  <1>5. WindowAs(device') /\ device'.nextKey = device.nextKey /\ NextKey' = NextKey
    BY <1>1, <1>4 DEF WindowAs, NextKey, NoApp
  <1>6. Meant(d, S)'
    BY <1>3, <1>4, <1>5 DEF Meant, For
  <1> QED
    BY <1>1, <1>4, <1>5, <1>6, WindowSendsOne

\* The console after a step: no key is new.
SameConsole(d) == IsConsoleWindow(d) /\ d.nextKey = device.nextKey

LEMMA ConsoleTurns ==
    ASSUME NEW d, SameConsole(d), NEW x, NEW y
    PROVE  /\ SameConsole(Turned(d)) /\ SameConsole(Rest(d)) /\ SameConsole(Asked(d))
           /\ SameConsole([d EXCEPT !.loggingIn = x]) /\ SameConsole([d EXCEPT !.busy = x])
           /\ SameConsole([d EXCEPT !.proven = x]) /\ SameConsole([d EXCEPT !.list = x])
           /\ SameConsole([d EXCEPT !.catalog = x])
           /\ SameConsole([d EXCEPT !.catalogLoading = FALSE, !.catalog = x])
           /\ SameConsole([d EXCEPT !.token = x, !.generation = @ + 1, !.session = @ + 1])
           /\ SameConsole(BackAtLogin(d))
  <1> USE DEF SameConsole, IsConsoleWindow
  <1>1. SameConsole(Turned(d)) /\ SameConsole(Rest(d)) /\ SameConsole(Asked(d))
    BY DEF Turned, Rest, Asked
  <1>2. /\ SameConsole([d EXCEPT !.loggingIn = x]) /\ SameConsole([d EXCEPT !.busy = x])
        /\ SameConsole([d EXCEPT !.proven = x]) /\ SameConsole([d EXCEPT !.list = x])
    OBVIOUS
  <1>3. /\ SameConsole([d EXCEPT !.catalog = x])
        /\ SameConsole([d EXCEPT !.catalogLoading = FALSE, !.catalog = x])
        /\ SameConsole([d EXCEPT !.token = x, !.generation = @ + 1, !.session = @ + 1])
    OBVIOUS
  <1>4. SameConsole(BackAtLogin(d))
    BY DEF BackAtLogin, Turned
  <1> QED
    BY <1>1, <1>2, <1>3, <1>4

LEMMA ListsAreKeyless ==
    ASSUME NEW d
    PROVE  /\ \A r \in ListOf(d) : Keyless(r)
           /\ \A r \in CatalogOf(d) : Keyless(r)
  <1>1. PICK list, catalog : /\ list = [Request(d, "list") EXCEPT !.serial = d.serial]
                             /\ catalog = [Request(d, "catalog") EXCEPT !.serial = d.session]
    OBVIOUS
  <1>2. Keyless(list) /\ Keyless(catalog)
    BY <1>1, RequestsAreKeyless
  <1>3. ListOf(d) = {list} /\ CatalogOf(d) \subseteq {catalog}
    BY <1>1 DEF ListOf, CatalogOf
  <1> QED
    BY <1>2, <1>3

LEMMA ConsolePresses ==
    ASSUME NEW S \in SUBSET Nat, KeysOK(S), ConsoleTaps \/ ConsoleForgets, UNCHANGED vars
    PROVE  \E T \in SUBSET Nat : KeysOK(T)'
  <1>1. IsConsole
    BY DEF ConsoleTaps, ConsoleForgets, ConsoleLogin, ConsoleLogout, ConsoleOpensPage,
           ConsoleMutates, ConsoleToggles, ConsoleSubmits, Idle
  <1>2. UNCHANGED <<scene, server, vars>>
    BY DEF ConsoleTaps, ConsoleForgets, ConsoleLogin, ConsoleLogout, ConsoleOpensPage,
           ConsoleMutates, ConsoleToggles, ConsoleSubmits, Taps
  <1>3. SameConsole(device)
    BY <1>1, WindowAsIs DEF SameConsole
  <1>4. ASSUME NEW d, SameConsole(d), NEW requests, \A r \in requests : Keyless(r),
               Sends(d, requests)
        PROVE  \E T \in SUBSET Nat : KeysOK(T)'
    <2>1. WindowAs(device') /\ device'.nextKey = device.nextKey
      BY <1>1, <1>4 DEF WindowAs, Sends, SameConsole, IsDesktop, IsConsole
    <2>2. calls' \subseteq calls \union requests
      BY <1>4 DEF Sends
    <2>3. KeysOK(S)'
      BY <1>1, <1>2, <1>4, <2>1, <2>2, WindowSends
    <2> QED
      BY <2>3
  <1>5. ASSUME NEW d, SameConsole(d), NEW r, Keyless(r), Sends(d, {r})
        PROVE  \E T \in SUBSET Nat : KeysOK(T)'
    <2>1. PICK requests : requests = {r}
      OBVIOUS
    <2> QED
      BY <1>4, <1>5, <2>1
  <1>6. ASSUME NEW c, Wish(c), Sends([device EXCEPT !.busy = TRUE, !.nextKey = @ + 1], {c})
        PROVE  \E T \in SUBSET Nat : KeysOK(T)'
    <2>1. WindowAs(device') /\ device'.nextKey = device.nextKey + 1
      BY <1>1, <1>3, <1>6
      DEF WindowAs, Sends, SameConsole, IsConsoleWindow, IsDesktop, IsConsole
    <2>2. calls' \subseteq calls \union {c}
      BY <1>6 DEF Sends
    <2> QED
      BY <1>1, <1>2, <1>6, <2>1, <2>2, WindowWishes
  <1>7. SameConsole([device EXCEPT !.busy = TRUE])
    BY <1>3, ConsoleTurns
  <1>8. CASE ConsoleLogin
    <2>1. SameConsole([device EXCEPT !.loggingIn = TRUE])
      BY <1>3, ConsoleTurns
    <2> QED
      BY <1>5, <1>8, <2>1, RequestsAreKeyless DEF ConsoleLogin
  <1>9. CASE ConsoleLogout
    BY <1>3, <1>5, <1>9, RequestsAreKeyless DEF ConsoleLogout
  <1>10. CASE ConsoleOpensPage
    <2>1. SameConsole(Turned(device)) /\ \A r \in ListOf(Turned(device)) : Keyless(r)
      BY <1>3, ConsoleTurns, ListsAreKeyless
    <2> QED
      BY <1>4, <1>10, <2>1 DEF ConsoleOpensPage
  <1>11. CASE ConsoleMutates
    <2>1. \A v, n : Wish([Once("put") EXCEPT !.version = v, !.no = n])
      BY Wishes
    <2> QED
      BY <1>6, <1>11, <2>1 DEF ConsoleMutates
  <1>12. CASE ConsoleToggles
    BY <1>5, <1>7, <1>12, RequestsAreKeyless DEF ConsoleToggles
  <1>13. CASE ConsoleSubmits
    <2>1. CASE Sends([device EXCEPT !.busy = TRUE], {Request(device, "reauth")})
      BY <1>5, <1>7, <2>1, RequestsAreKeyless
    <2>2. CASE \E kind : Sends([device EXCEPT !.busy = TRUE, !.nextKey = @ + 1], {Once(kind)})
      BY <1>6, <2>2, Wishes
    <2> QED
      BY <1>13, <2>1, <2>2 DEF ConsoleSubmits
  <1>14. CASE ConsoleForgets
    <2>1. SameConsole([device EXCEPT !.proven = FALSE])
      BY <1>3, ConsoleTurns
    <2>2. PICK none : none = {}
      OBVIOUS
    <2>3. Sends([device EXCEPT !.proven = FALSE], none) /\ \A r \in none : Keyless(r)
      BY <1>14, <2>2 DEF ConsoleForgets
    <2> QED
      BY <1>4, <2>1, <2>3
  <1> QED
    BY <1>8, <1>9, <1>10, <1>11, <1>12, <1>13, <1>14 DEF ConsoleTaps

\* What the server still has of the requests the client aborted.
LEMMA AbortKeeps ==
    ASSUME NEW S, KeysOK(S), NEW d \in AfterAbort
    PROVE  Meant(d, S)
  <1>1. CASE d \in calls
    BY <1>1 DEF KeysOK
  <1>2. CASE \E c \in calls : d \in Remains(c)
    <2>1. PICK c \in calls : d \in Remains(c)
      BY <1>2
    <2>2. Meant(c, S)
      BY DEF KeysOK
    <2>3. CASE d = [c EXCEPT !.at = "Late"]
      BY <2>2, <2>3, Moved
    <2>4. CASE c.at = "Handled" /\ d = [c EXCEPT !.at = "LateHandled"]
      <3>1. scene.linked /\ c.kind = "settle"
        BY <2>2, <2>4 DEF Meant, Handled
      <3> QED
        BY <2>2, <2>4, <3>1, Moved
    <2> QED
      BY <2>1, <2>3, <2>4 DEF Remains
  <1>3. d \in calls \/ \E c \in calls : d \in Remains(c)
    BY DEF AfterAbort, Awaited
  <1> QED
    BY <1>1, <1>2, <1>3

LEMMA ConsoleStill ==
    ASSUME NEW S, IsConsole, UNCHANGED scene, device'.nextKey = device.nextKey, NEW c,
           Meant(c, S)
    PROVE  Meant(c, S)'
  <1>1. NextKey' = NextKey
    BY DEF NextKey, NoApp, IsConsole
  <1> QED
    BY <1>1 DEF Meant, For

LEMMA ConsoleHears ==
    ASSUME NEW S \in SUBSET Nat, KeysOK(S), NEW c \in calls,
           ConsoleReceives(c) \/ ConsoleAsksAgain(c), UNCHANGED vars
    PROVE  \E T \in SUBSET Nat : KeysOK(T)'
  <1>1. IsConsole /\ SameConsole(device)
    BY WindowAsIs DEF ConsoleReceives, ConsoleAsksAgain, SameConsole
  <1>2. ASSUME NEW d, SameConsole(d), NEW requests, Handles(c, d, requests),
               \A r \in requests : Keyless(r)
        PROVE  \E T \in SUBSET Nat : KeysOK(T)'
    <2>1. WindowAs(d) /\ d.nextKey = device.nextKey
      BY <1>1, <1>2 DEF SameConsole, WindowAs, IsDesktop, IsConsole
    <2>2. KeysOK(S)'
      BY <1>1, <1>2, <2>1, WindowHandles
    <2> QED
      BY <2>2
  <1>3. ASSUME NEW d, SameConsole(d), Handles(c, d, {})
        PROVE  \E T \in SUBSET Nat : KeysOK(T)'
    <2>1. PICK requests : requests = {}
      OBVIOUS
    <2> QED
      BY <1>2, <1>3, <2>1
  <1>4. ASSUME NEW d, SameConsole(d), NEW r, Keyless(r), Handles(c, d, {r})
        PROVE  \E T \in SUBSET Nat : KeysOK(T)'
    <2>1. PICK requests : requests = {r}
      OBVIOUS
    <2> QED
      BY <1>2, <1>4, <2>1
  <1>5. ASSUME NEW d, IsConsoleWindow(d), d.nextKey = device.nextKey + 1, NEW r, Wish(r),
               Handles(c, d, {r})
        PROVE  \E T \in SUBSET Nat : KeysOK(T)'
    <2>1. /\ UNCHANGED <<scene, server, vars>> /\ calls' \subseteq calls \union {r}
          /\ device' = d
      BY <1>5 DEF Handles
    <2>2. WindowAs(device') /\ device'.nextKey = device.nextKey + 1
      BY <1>1, <1>5, <2>1 DEF WindowAs, IsDesktop, IsConsole
    <2> QED
      BY <1>1, <1>5, <2>1, <2>2, WindowWishes
  <1>6. ASSUME NEW d, SameConsole(d), NEW requests, \A r \in requests : Keyless(r), device' = d,
               calls' \subseteq AfterAbort \union requests, UNCHANGED <<scene, left, server>>
        PROVE  \E T \in SUBSET Nat : KeysOK(T)'
    <2>1. WindowAs(device') /\ device'.nextKey = device.nextKey
      BY <1>1, <1>6 DEF WindowAs, SameConsole, IsDesktop, IsConsole
    <2>2. \A r \in AfterAbort : Meant(r, S)'
      BY <1>1, <1>6, <2>1, AbortKeeps, ConsoleStill
    <2>3. PICK New : New = AfterAbort \union requests
      OBVIOUS
    <2>4. calls' \subseteq calls \union New /\ \A r \in New : Keyless(r) \/ Meant(r, S)'
      BY <1>6, <2>2, <2>3
    <2>5. KeysOK(S)'
      BY <1>1, <1>6, <2>1, <2>4, WindowSends
    <2> QED
      BY <2>5
  <1>7. CASE ConsoleEnds(c)
    <2>1. SameConsole(BackAtLogin(device))
      BY <1>1, ConsoleTurns
    <2>2. PICK none : none = {}
      OBVIOUS
    <2>3. /\ device' = BackAtLogin(device) /\ calls' \subseteq AfterAbort \union none
          /\ UNCHANGED <<scene, left, server>> /\ \A r \in none : Keyless(r)
      BY <1>7, <2>2 DEF ConsoleEnds
    <2> QED
      BY <1>6, <2>1, <2>3
  <1>8. CASE ConsoleLoggedIn(c)
    <2>1. PICK d : d = [device EXCEPT !.loggingIn = FALSE]
      OBVIOUS
    <2>2. SameConsole(d)
      BY <1>1, <2>1, ConsoleTurns
    <2>3. PICK turned : turned = Turned(d)
      OBVIOUS
    <2>4. PICK here : here = [turned EXCEPT !.token = c.reply.no, !.generation = @ + 1,
                                            !.session = @ + 1]
      OBVIOUS
    <2>5. SameConsole(here)
      BY <2>2, <2>3, <2>4, ConsoleTurns
    <2>6. SameConsole(Asked(here))
      BY <2>5, ConsoleTurns
    <2>7. PICK requests : requests = CatalogOf(here) \union ListOf(here)
      OBVIOUS
    <2>8. \A r \in requests : Keyless(r)
      BY <2>7, ListsAreKeyless
    <2>9. \/ /\ device' = Asked(here) /\ calls' = AfterAbort \union CatalogOf(here) \union ListOf(here)
             /\ UNCHANGED <<scene, left, server>>
          \/ Handles(c, d, {})
      BY <1>8, <2>1, <2>3, <2>4 DEF ConsoleLoggedIn
    <2>10. \/ /\ device' = Asked(here) /\ calls' \subseteq AfterAbort \union requests
              /\ UNCHANGED <<scene, left, server>>
           \/ Handles(c, d, {})
      BY <2>7, <2>9
    <2> QED
      BY <1>3, <1>6, <2>2, <2>6, <2>8, <2>10
  <1>9. CASE ConsoleShowsPage(c)
    <2>1. /\ \A x : SameConsole([device EXCEPT !.list = x])
          /\ \A x : SameConsole([device EXCEPT !.catalogLoading = FALSE, !.catalog = x])
      BY <1>1, ConsoleTurns
    <2>2. \/ Handles(c, device, {})
          \/ \E x : Handles(c, [device EXCEPT !.list = x], {})
          \/ \E x : Handles(c, [device EXCEPT !.catalogLoading = FALSE, !.catalog = x], {})
      BY <1>9 DEF ConsoleShowsPage
    <2> QED
      BY <1>1, <1>3, <2>1, <2>2
  <1>10. CASE ConsoleMutated(c)
    <2>1. PICK d : d = Rest(device)
      OBVIOUS
    <2>2. SameConsole(d)
      BY <1>1, <2>1, ConsoleTurns
    <2>3. PICK e : e = [d EXCEPT !.catalog = Nothing]
      OBVIOUS
    <2>4. SameConsole(e)
      BY <2>2, <2>3, ConsoleTurns
    <2>5. SameConsole(Asked(e))
      BY <2>4, ConsoleTurns
    <2>6. SameConsole(Turned(Asked(e))) /\ SameConsole(Turned(d))
      BY <2>2, <2>5, ConsoleTurns
    <2>7. PICK requests : requests = CatalogOf(d) \union ListOf(Turned(d))
      OBVIOUS
    <2>8. (\A r \in requests : Keyless(r)) /\ (\A r \in ListOf(Turned(d)) : Keyless(r))
      BY <2>7, ListsAreKeyless
    <2>9. \/ Handles(c, d, {})
          \/ Handles(c, Turned(Asked(e)), requests)
          \/ Handles(c, Turned(d), ListOf(Turned(d)))
      BY <1>10, <2>1, <2>3, <2>7 DEF ConsoleMutated
    <2> QED
      BY <1>2, <1>3, <2>2, <2>6, <2>8, <2>9
  <1>11. CASE ConsoleDetailed(c)
    <2>1. SameConsole(Rest(device))
      BY <1>1, ConsoleTurns
    <2>2. PICK d : d = [device EXCEPT !.nextKey = @ + 1]
      OBVIOUS
    <2>3. IsConsoleWindow(d) /\ d.nextKey = device.nextKey + 1
      BY <1>1, <2>2 DEF SameConsole, IsConsoleWindow
    <2>4. \A v : Wish([Once("put") EXCEPT !.version = v])
      BY Wishes
    <2>5. \/ Handles(c, Rest(device), {})
          \/ \E v : Handles(c, d, {[Once("put") EXCEPT !.version = v]})
      BY <1>11, <2>2 DEF ConsoleDetailed
    <2> QED
      BY <1>3, <1>5, <2>1, <2>3, <2>4, <2>5
  <1>12. CASE ConsoleProven(c)
    <2>1. SameConsole(Rest(device))
      BY <1>1, ConsoleTurns
    <2>2. PICK d : d = [device EXCEPT !.proven = TRUE, !.nextKey = @ + 1]
      OBVIOUS
    <2>3. IsConsoleWindow(d) /\ d.nextKey = device.nextKey + 1
      BY <1>1, <2>2 DEF SameConsole, IsConsoleWindow
    <2>4. Wish(Once("restart"))
      BY Wishes
    <2>5. Handles(c, Rest(device), {}) \/ Handles(c, d, {Once("restart")})
      BY <1>12, <2>2 DEF ConsoleProven
    <2> QED
      BY <1>3, <1>5, <2>1, <2>3, <2>4, <2>5
  <1>13. \A m \in {"Sent", "Pausing"} : \A tries : Keyless(Poll(device, tries, m))
    BY RequestsAreKeyless DEF Poll
  <1>14. CASE ConsoleSubmitted(c)
    <2>1. PICK d : d = [device EXCEPT !.proven = @ /\ c.reply.code # "Forbidden"]
      OBVIOUS
    <2>2. PICK x : x = (device.proven /\ c.reply.code # "Forbidden")
      OBVIOUS
    <2>3. d = [device EXCEPT !.proven = x]
      BY <2>1, <2>2
    <2>4. SameConsole(d)
      BY <1>1, <2>3, ConsoleTurns
    <2>5. SameConsole(Rest(d))
      BY <2>4, ConsoleTurns
    <2>6. Handles(c, device, {Poll(device, 0, "Sent")}) \/ Handles(c, Rest(d), {})
      BY <1>14, <2>1 DEF ConsoleSubmitted
    <2> QED
      BY <1>1, <1>3, <1>4, <1>13, <2>5, <2>6
  <1>15. CASE ConsolePolled(c)
    <2>1. SameConsole(Rest(device)) /\ SameConsole(Turned(device))
      BY <1>1, ConsoleTurns
    <2>2. SameConsole(Turned(Rest(device)))
      BY <2>1, ConsoleTurns
    <2>3. \A r \in ListOf(Turned(device)) : Keyless(r)
      BY ListsAreKeyless
    <2>4. \/ Handles(c, Rest(device), {})
          \/ Handles(c, device, {Poll(device, c.tries, "Pausing")})
          \/ Handles(c, Turned(Rest(device)), ListOf(Turned(device)))
      BY <1>15 DEF ConsolePolled
    <2> QED
      BY <1>1, <1>2, <1>3, <1>4, <1>13, <2>1, <2>2, <2>3, <2>4
  <1>16. CASE ConsoleAsksAgain(c)
    <2>1. Handles(c, device, {Poll(device, c.tries + 1, "Sent")}) \/ Handles(c, device, {})
      BY <1>16 DEF ConsoleAsksAgain
    <2> QED
      BY <1>1, <1>3, <1>4, <1>13, <2>1
  <1> QED
    BY <1>7, <1>8, <1>9, <1>10, <1>11, <1>12, <1>14, <1>15, <1>16 DEF ConsoleReceives

-----------------------------------------------------------------------------
(* The settlement of a phone, statement by statement. *)

\* The settlement is carried out while it had not been, and is known to have
\* been from then on.
LEMMA CommittedDone ==
    ASSUME NEW S, KeysOK(S), TypeOK, Alone, Ends, NEW c \in calls, SettleCommitted(c)
    PROVE  Done(S)'
  <1>1. /\ NextKey' = NextKey /\ NextKey \in Nat /\ MaxKeys \in Nat
    BY AppCallsAssumption DEF NextKey, NoApp, KeysOK, Held, SettleCommitted
  <1>2. Meant(c, S) /\ Done(S) /\ scene.linked /\ c.kind = "settle"
    BY DEF KeysOK, SettleCommitted, Meant
  <1>3. PICK k : k = c.key
    OBVIOUS
  <1>4. k \in Nat /\ k < NextKey /\ c.intent = k /\ (k # 0 => k \in S)
    BY <1>2, <1>3 DEF Meant, For
  <1>5. db.flow # "Completed" /\ db'.flow = "Completed"
    <2>1. stage = "Running" /\ next > 6 /\ db' = StoredResult(work) /\ work \in Rows
      BY EightStatements DEF SettleCommitted, Commit, TypeOK
    <2>2. db.flow # "Completed" /\ work.flow = "Completed"
      BY <2>1 DEF Alone, Settleable, Ends
    <2> QED
      BY <2>1, <2>2 DEF StoredResult, Rows
  <1>6. /\ IsServer(server') /\ server'.answers = server.answers
        /\ server'.done = [server.done EXCEPT ![k] = server.done[k] + 1]
    <2>1. server' = [server EXCEPT !.flows[1].status = Over, !.done[k] = @ + 1]
      BY <1>4 DEF SettleCommitted
    <2> QED
      BY <1>2, <2>1 DEF Done, IsServer
  <1>7. \A i \in 1..MaxKeys : server.done[i] = 1 => ~(i \in S)
    BY <1>2, <1>5 DEF Done, Known
  <1>8. ASSUME k \in 1..MaxKeys
        PROVE  server.done[k] = 0
    <2>1. k # 0 /\ server.done[k] \in {0, 1}
      BY <1>1, <1>2, <1>8 DEF Done
    <2> QED
      BY <1>4, <1>7, <1>8, <2>1
  <1>9. /\ server'.done \in [1..MaxKeys -> {0, 1}]
        /\ \A i \in 1..MaxKeys : i # k => server'.done[i] = server.done[i]
    <2>1. server.done \in [1..MaxKeys -> {0, 1}]
      BY <1>2 DEF Done
    <2>2. CASE k \in 1..MaxKeys
      <3>1. server'.done = [server.done EXCEPT ![k] = 1]
        BY <1>6, <1>8, <2>2
      <3> QED
        BY <2>1, <3>1
    <2>3. CASE k \notin 1..MaxKeys
      <3>1. server'.done = server.done
        BY <1>6, <2>1, <2>3
      <3> QED
        BY <2>1, <3>1
    <2> QED
      BY <2>2, <2>3
  <1>10. ASSUME NEW i \in 1..MaxKeys, server'.done[i] = 1
         PROVE  i < NextKey' /\ Known(i, S)'
    <2>1. scene' = scene
      BY DEF SettleCommitted
    <2>2. CASE i = k
      <3>1. i # 0 /\ scene'.linked /\ i \in S
        BY <1>2, <1>4, <2>1, <2>2
      <3> QED
        BY <1>1, <1>4, <1>5, <2>2, <3>1 DEF Known
    <2>3. CASE i # k
      <3>1. server.done[i] = 1 /\ i < NextKey /\ Known(i, S) /\ i \notin S
        BY <1>2, <1>7, <1>9, <1>10, <2>3 DEF Done
      <3> QED
        BY <1>1, <1>6, <3>1 DEF Known
    <2> QED
      BY <2>2, <2>3
  <1>11. DOMAIN server'.answers = 1..MaxKeys
    BY <1>2, <1>6 DEF Done
  <1> QED
    BY <1>6, <1>9, <1>10, <1>11 DEF Done

LEMMA LinkedKeeps ==
    ASSUME NEW S, KeysOK(S), TypeOK, Alone, Ends, Linked
    PROVE  KeysOK(S)'
  <1>1. ASSUME UNCHANGED <<scene, device, server>>, db'.flow = db.flow,
               \A d \in calls' : Meant(d, S)
        PROVE  KeysOK(S)'
    <2>1. Done(S)'
      BY <1>1, SameServer, SameDone DEF Unkept
    <2> QED
      BY <1>1, <2>1, NetworkKeeps
  <1>2. ASSUME UNCHANGED <<scene, device, server>>, db'.flow = db.flow, NEW c \in calls,
               NEW r, Replied(c, r)
        PROVE  KeysOK(S)'
    BY <1>1, <1>2, RepliedKeeps
  <1>3. ASSUME UNCHANGED <<scene, device, server, calls>>, db'.flow = db.flow
        PROVE  KeysOK(S)'
    BY <1>1, <1>3 DEF KeysOK
  <1>4. ASSUME NEW c \in calls, SettleTaken(c)
        PROVE  KeysOK(S)'
    <2>1. UNCHANGED <<scene, device, server>> /\ scene.linked /\ c.kind = "settle"
      BY <1>4 DEF SettleTaken, Settles
    <2>2. CASE Begin /\ calls' = (calls \ {c}) \union {TakenUp(c)}
      <3>1. db'.flow = db.flow
        BY <2>2 DEF Begin, TypeOK, Rows
      <3>2. Meant(c, S) /\ \A d \in calls : Meant(d, S)
        BY DEF KeysOK
      <3>3. PICK at \in {"Handled", "LateHandled"} : TakenUp(c) = [c EXCEPT !.at = at]
        BY DEF TakenUp
      <3>4. Meant([c EXCEPT !.at = at], S)
        BY <2>1, <3>2, Moved
      <3> QED
        BY <1>1, <2>1, <2>2, <3>1, <3>2, <3>3, <3>4
    <2>3. CASE \E r : Replied(c, r) /\ UNCHANGED vars
      BY <1>2, <2>1, <2>3 DEF vars
    <2> QED
      BY <1>4, <2>2, <2>3 DEF SettleTaken
  <1>5. ASSUME NEW c \in calls, SettleOpened(c)
        PROVE  KeysOK(S)'
    <2>1. db'.flow = db.flow /\ UNCHANGED <<scene, device, server>>
      BY <1>5 DEF SettleOpened, Open, TypeOK, Rows
    <2>2. UNCHANGED calls \/ \E r : Replied(c, r)
      BY <1>5 DEF SettleOpened
    <2> QED
      BY <1>2, <1>3, <2>1, <2>2
  <1>6. ASSUME NEW c \in calls, SettleCommitted(c)
        PROVE  KeysOK(S)'
    <2>1. \A d \in calls' : Meant(d, S)
      BY <1>6, RepliedKeeps DEF SettleCommitted
    <2> QED
      BY <1>6, <2>1, CommittedDone, NetworkKeeps DEF SettleCommitted
  <1>7. ASSUME NEW c \in calls, SettleCrashed(c)
        PROVE  KeysOK(S)'
    BY <1>2, <1>7 DEF SettleCrashed, Crash
  <1>8. CASE (Execute \/ Promote \/ LeaseExpires \/ OtherFlow) /\ UNCHANGED appVars
    <2>1. db'.flow = db.flow
      BY <1>8 DEF Execute, Promote, LeaseExpires, OtherFlow, TypeOK, Rows
    <2> QED
      BY <1>3, <1>8, <2>1 DEF appVars
  <1> QED
    BY <1>4, <1>5, <1>6, <1>7, <1>8 DEF Linked, SettlementGoesOn

\* Without an app there are no keys, and nothing is done.
LEMMA DirectKeeps ==
    ASSUME NEW S, KeysOK(S), NoApp, calls = {}, UNCHANGED appVars
    PROVE  KeysOK(S)'
  <1>1. UNCHANGED <<scene, device, server, calls>> /\ NextKey = 1 /\ MaxKeys \in Nat
    BY AppCallsAssumption DEF appVars, NextKey
  <1>2. \A k \in 1..MaxKeys : server.done[k] = 0
    BY <1>1 DEF KeysOK, Done
  <1>3. Done(S)'
    <2>1. IsServer(server) /\ server.done \in [1..MaxKeys -> {0, 1}]
          /\ DOMAIN server.answers = 1..MaxKeys
      BY DEF KeysOK, Done
    <2>2. server' = server
      BY <1>1
    <2> QED
      BY <1>2, <2>1, <2>2 DEF Done
  <1> QED
    BY <1>1, <1>3, NetworkKeeps

-----------------------------------------------------------------------------
(* The apps, and the settlement under them. *)

\* Whatever the apps do, the rows of the settlement change as the server
\* changes them.
LEMMA ClientsStep == ASSUME [ClientsNext]_all PROVE [Next]_vars
  <1>1. CASE NoApp /\ Next
    BY <1>1
  <1>2. CASE Linked
    BY <1>2
    DEF Linked, SettleTaken, SettleCrashed, SettlementGoesOn, SettleOpened, SettleCommitted, Next
  <1>3. CASE Apps \/ UNCHANGED all
    BY <1>3 DEF Apps, all
  <1> QED
    BY <1>1, <1>2, <1>3 DEF ClientsNext

\* One step, whoever takes it.
LEMMA AppsKeep ==
    ASSUME NEW S \in SUBSET Nat, KeysOK(S), Apps
    PROVE  \E T \in SUBSET Nat : KeysOK(T)'
  <1>1. UNCHANGED vars
    BY DEF Apps
  <1>2. CASE MobileTaps \/ MobilePolls
    BY <1>1, <1>2, PhoneTaps
  <1>3. CASE DesktopTaps \/ DesktopPolls
    BY <1>1, <1>3, DeskTaps
  <1>4. CASE ConsoleTaps \/ ConsoleForgets
    BY <1>1, <1>4, ConsolePresses
  <1>5. CASE ServerEvent \/ CommandEnds
    <2>1. KeysOK(S)'
      BY <1>1, <1>5, EventKeeps
    <2> QED
      BY <2>1
  <1>6. ASSUME NEW c \in calls, Lose(c) \/ Serve(c)
        PROVE  \E T \in SUBSET Nat : KeysOK(T)'
    <2>1. KeysOK(S)'
      BY <1>1, <1>6, LoseKeeps, ServeKeeps
    <2> QED
      BY <2>1
  <1>7. ASSUME NEW c \in calls, Receives(c)
        PROVE  \E T \in SUBSET Nat : KeysOK(T)'
    <2>1. CASE MobileReceives(c)
      <3>1. KeysOK(S)'
        BY <1>1, <2>1, PhoneReceives
      <3> QED
        BY <3>1
    <2>2. CASE DesktopPauses(c) \/ DesktopSendsAgain(c)
      <3>1. KeysOK(S)'
        BY <1>1, <2>2, DeskRepeats
      <3> QED
        BY <3>1
    <2>3. CASE DesktopReceives(c)
      BY <1>1, <2>3, DeskReceives
    <2>4. CASE ConsoleReceives(c) \/ ConsoleAsksAgain(c)
      BY <1>1, <2>4, ConsoleHears
    <2> QED
      BY <1>7, <2>1, <2>2, <2>3, <2>4 DEF Receives
  <1> QED
    BY <1>2, <1>3, <1>4, <1>5, <1>6, <1>7 DEF Apps

\* The scene stays, and without an app nothing is ever asked.
LEMMA SceneStays == ASSUME ClientsNext, OneApp PROVE OneApp'
  <1>1. CASE NoApp /\ calls = {}
    <2>1. scene' = scene /\ calls' = calls
      <3>1. CASE Apps
        <4>1. ~IsMobile /\ ~IsDesktop /\ ~IsConsole
          BY <1>1 DEF NoApp, IsMobile, IsDesktop, IsConsole
        <4>2. ServerEvent \/ CommandEnds
          BY <1>1, <3>1, <4>1
          DEF Apps, MobileTaps, MobilePolls, MobileLogin, MobileSignOff, MobileOpensPage,
              MobileRenames, MobilePosts, MobileBeginsReview, MobileSubmitsReview, DesktopTaps,
              DesktopPolls, DesktopLogin, DesktopSignOff, DesktopOpensPage, DesktopPosts,
              DesktopBegins, DesktopAnswers, DesktopOpensReview, DesktopInReview, Inside,
              AtWindow, ConsoleTaps, ConsoleForgets, ConsoleLogin, ConsoleLogout,
              ConsoleOpensPage, ConsoleMutates, ConsoleToggles, ConsoleSubmits, Idle
        <4> QED
          BY <4>2 DEF ServerEvent, CommandEnds
      <3>2. CASE Linked
        BY <1>1, <3>2 DEF Linked, SettlementGoesOn, appVars
      <3>3. CASE UNCHANGED appVars
        BY <3>3 DEF appVars
      <3> QED
        BY <3>1, <3>2, <3>3 DEF ClientsNext
    <2> QED
      BY <1>1, <2>1 DEF OneApp, NoApp
  <1>2. CASE IsMobile \/ IsDesktop \/ IsConsole
    <2>1. scene' = scene
      <3>1. CASE Apps
        <4>1. ASSUME NEW c, Lose(c) \/ Serve(c)
              PROVE  scene' = scene
          BY <4>1
          DEF Lose, Serve, ServeLogin, ServeUnauthorized, ServeAgain, ServeSignOff,
              ServeReading, ServeCreate, ServeFlow, ServeOther
        <4>2. ASSUME NEW c, MobileReceives(c)
              PROVE  scene' = scene
          BY <4>2
          DEF MobileReceives, MobileDrops, MobileEnds, MobileFails, MobileLoggedIn,
              MobileShowsStations, MobileShowsOrders, MobileShowsProfile, MobileShowsFlow,
              MobileSettled, MobilePolled, MobileProfileChanged, MobileReviewed, Handles
        <4>3. ASSUME NEW c, DesktopPauses(c) \/ DesktopSendsAgain(c) \/ DesktopReceives(c)
              PROVE  scene' = scene
          BY <4>3
          DEF DesktopPauses, DesktopSendsAgain, DesktopReceives, DesktopLoggedIn, DesktopEnds,
              DesktopFails, DesktopShowsStations, DesktopShowsOrders, DesktopShowsProfile,
              DesktopProfileChanged, DesktopAsked, DesktopShowsFlow, DesktopPolled,
              DesktopReviewed, Handles
        <4>4. ASSUME NEW c, ConsoleReceives(c) \/ ConsoleAsksAgain(c)
              PROVE  scene' = scene
          BY <4>4
          DEF ConsoleReceives, ConsoleAsksAgain, ConsoleEnds, ConsoleLoggedIn,
              ConsoleShowsPage, ConsoleMutated, ConsoleDetailed, ConsoleProven,
              ConsoleSubmitted, ConsolePolled, Handles
        <4>5. CASE MobileTaps \/ MobilePolls
          BY <4>5
          DEF MobileTaps, MobilePolls, MobileLogin, MobileSignOff, MobileOpensPage,
              MobileRenames, MobilePosts, MobileBeginsReview, MobileSubmitsReview, Taps
        <4>6. CASE DesktopTaps \/ DesktopPolls
          BY <4>6
          DEF DesktopTaps, DesktopPolls, DesktopLogin, DesktopSignOff, DesktopOpensPage,
              DesktopPosts, DesktopBegins, DesktopAnswers, DesktopOpensReview,
              DesktopInReview, Taps
        <4>7. CASE ConsoleTaps \/ ConsoleForgets
          BY <4>7
          DEF ConsoleTaps, ConsoleForgets, ConsoleLogin, ConsoleLogout, ConsoleOpensPage,
              ConsoleMutates, ConsoleToggles, ConsoleSubmits, Taps
        <4>8. CASE ServerEvent \/ CommandEnds
          BY <4>8 DEF ServerEvent, CommandEnds
        <4> QED
          BY <3>1, <4>1, <4>2, <4>3, <4>4, <4>5, <4>6, <4>7, <4>8 DEF Apps, Receives
      <3>2. CASE Linked
        BY <3>2
        DEF Linked, SettleTaken, SettleCrashed, SettlementGoesOn, SettleOpened,
            SettleCommitted, appVars
      <3>3. CASE UNCHANGED appVars
        BY <3>3 DEF appVars
      <3> QED
        BY <3>1, <3>2, <3>3 DEF ClientsNext
    <2> QED
      BY <1>2, <2>1 DEF OneApp, IsMobile, IsDesktop, IsConsole
  <1> QED
    BY <1>1, <1>2 DEF OneApp

LEMMA OnceInit == ASSUME ClientsInit PROVE OnceInv
  <1>1. PICK S \in SUBSET Nat : S = {}
    OBVIOUS
  <1>2. MaxKeys \in Nat /\ calls = {} /\ OneApp
    BY AppCallsAssumption DEF ClientsInit, OneApp
  <1>3. NextKey = 1
    BY DEF ClientsInit, NextKey, NoApp, IsMobile, IsDesktop, IsConsole, MobileInit,
           DesktopInit, ConsoleInit
  <1>4. For(0, "submit", S)
    BY <1>3 DEF For
  <1>5. Held(S)
    <2>1. CASE IsMobile
      <3>1. MobileInit
        BY <2>1 DEF ClientsInit, IsMobile, IsDesktop, IsConsole, NoApp
      <3>2. /\ IsPhone(device) /\ device.keys = {} /\ device.meant = {}
            /\ device.reviewKey = 0
        BY <3>1 DEF MobileInit, IsPhone
      <3> QED
        BY <1>3, <1>4, <2>1, <3>2 DEF Held, IsMobile, IsDesktop, IsConsole
    <2>2. CASE IsDesktop
      <3>1. DesktopInit
        BY <2>2 DEF ClientsInit, IsMobile, IsDesktop, IsConsole, NoApp
      <3>2. IsWindow(device) /\ device.reviewKey = 0
        BY <3>1 DEF DesktopInit, IsWindow
      <3> QED
        BY <1>3, <1>4, <2>2, <3>2 DEF Held, IsMobile, IsDesktop, IsConsole
    <2>3. CASE IsConsole
      <3>1. ConsoleInit
        BY <2>3 DEF ClientsInit, IsMobile, IsDesktop, IsConsole, NoApp
      <3>2. IsConsoleWindow(device)
        BY <3>1 DEF ConsoleInit, IsConsoleWindow
      <3> QED
        BY <1>3, <2>3, <3>2 DEF Held, IsMobile, IsDesktop, IsConsole
    <2>4. CASE NoApp
      BY <1>3, <2>4 DEF Held, IsMobile, IsDesktop, IsConsole, NoApp
    <2> QED
      BY <1>2, <2>1, <2>2, <2>3, <2>4 DEF OneApp
  <1>6. Done(S)
    <2>1. ServerInit
      BY DEF ClientsInit
    <2>2. /\ IsServer(server) /\ server.done = [k \in 1..MaxKeys |-> 0]
          /\ server.answers = [k \in 1..MaxKeys |-> NoReply]
      BY <2>1 DEF ServerInit, IsServer
    <2> QED
      BY <2>2 DEF Done
  <1> QED
    BY <1>2, <1>5, <1>6 DEF OnceInv, KeysOK

LEMMA OnceStep ==
    ASSUME TypeOK, Alone, Ends, OnceInv, [ClientsNext]_all
    PROVE  OnceInv'
  <1>1. CASE ClientsNext
    <2>1. OneApp'
      BY <1>1, SceneStays DEF OnceInv
    <2>2. PICK S \in SUBSET Nat : KeysOK(S)
      BY DEF OnceInv
    <2>3. CASE NoApp /\ Next /\ UNCHANGED appVars
      <3>1. calls = {}
        BY <2>3 DEF OnceInv, OneApp, NoApp, IsMobile, IsDesktop, IsConsole
      <3>2. KeysOK(S)'
        BY <2>2, <2>3, <3>1, DirectKeeps
      <3> QED
        BY <2>1, <3>2 DEF OnceInv
    <2>4. CASE Linked
      <3>1. KeysOK(S)'
        BY <2>2, <2>4, LinkedKeeps
      <3> QED
        BY <2>1, <3>1 DEF OnceInv
    <2>5. CASE Apps
      <3>1. PICK T \in SUBSET Nat : KeysOK(T)'
        BY <2>2, <2>5, AppsKeep
      <3> QED
        BY <2>1, <3>1 DEF OnceInv
    <2> QED
      BY <1>1, <2>3, <2>4, <2>5 DEF ClientsNext
  <1>2. CASE UNCHANGED all
    <2>1. UNCHANGED <<scene, device, calls, server, db>>
      BY <1>2 DEF all, appVars, vars
    <2> QED
      BY <2>1
      DEF OnceInv, OneApp, NoApp, IsMobile, IsDesktop, IsConsole, KeysOK, Held, Done, Known,
          Meant, For, NextKey
  <1> QED
    BY <1>1, <1>2

\* For every behaviour of the apps, the rows of the settlement behave as the
\* settlement does: the apps, their requests and the network put nothing in
\* that the transaction of the server does not allow.
THEOREM AppsImplementSettlement == ClientsSpec => Spec
  <1>1. ClientsInit => Init
    BY DEF ClientsInit
  <1>2. [ClientsNext]_all => [Next]_vars
    BY ClientsStep
  <1> QED
    BY <1>1, <1>2, PTL DEF ClientsSpec, Spec

\* However many taps, losses, repetitions, late arrivals, crashes and logins
\* there are: what the user of any of the apps meant is carried out at most
\* once for each time it was meant.
THEOREM OncePerIntentAlways == ClientsSpec => []OncePerIntent
  <1> DEFINE I == TypeOK /\ Alone /\ Ends /\ OnceInv
  <1>1. ClientsInit => I
    <2> SUFFICES ASSUME ClientsInit
                 PROVE  I
      OBVIOUS
    <2>1. TypeOK /\ Alone
      BY SettlementTxnAssumption, EightStatements
      DEF ClientsInit, Init, TypeOK, Rows, Alone, Gone
    <2>2. Ends
      BY DEF ClientsInit, Init, Ends
    <2> QED
      BY <2>1, <2>2, OnceInit
  <1>2. I /\ [ClientsNext]_all => I'
    BY ClientsStep, TypedStep, EndsStep, OnceStep
  <1>3. I => OncePerIntent
    <2> SUFFICES ASSUME OnceInv
                 PROVE  OncePerIntent
      OBVIOUS
    <2>1. PICK S \in SUBSET Nat : KeysOK(S)
      BY DEF OnceInv
    <2>2. server.done \in [1..MaxKeys -> {0, 1}]
      BY <2>1 DEF KeysOK, Done
    <2>3. ASSUME NEW i \in 1..MaxKeys
          PROVE  server.done[i] <= 1
      <3>1. server.done[i] = 0 \/ server.done[i] = 1
        BY <2>2
      <3> QED
        BY <3>1
    <2> QED
      BY <2>3 DEF OncePerIntent
  <1> QED
    BY <1>1, <1>2, <1>3, PTL DEF ClientsSpec

-----------------------------------------------------------------------------
(***************************************************************************)
(* What is shown is one's own, and new.  The pages that ask for the        *)
(* session of a reply rest on what is true of the requests under way: one  *)
(* of the present session carries its token.  Those that number their      *)
(* loads rest on there being one load of the last number, which reads no   *)
(* older a version than the page shows.                                    *)
(***************************************************************************)

\* The loads of page p are numbered, the last one n.
Numbered(p, n) ==
    /\ n \in Nat /\ device[p].version \in 0..server.version
    /\ \A c \in Awaited : c.kind = p =>
         /\ c.serial \in 0..n /\ c.key = 0
         /\ c.serial = n /\ c.reply.code = "Ok" =>
              c.reply.version \in device[p].version..server.version
    /\ \A c, e \in Awaited : c.kind = p /\ e.kind = p /\ c.serial = n /\ e.serial = n => c = e

\* A request of the present session carries its token, and a login is of none.
OfSession(c) ==
    /\ c.generation \in 0..device.generation
    /\ c.generation = device.generation =>
         IF c.kind = "login" THEN device.token = 0 ELSE device.token # 0 /\ c.by = device.token
    /\ c.kind = "login" => c.key = 0
    /\ c.kind = "login" /\ c.reply.code = "Ok" => c.reply.no # 0

InSession ==
    /\ device.generation \in Nat
    /\ \A c \in Awaited : OfSession(c)
    /\ device.list = Nothing \/ device.list.by # 0

\* The phone waits for one login, and a review is of the page that is open.
LoginNow(c) == c.kind = "login" /\ c.generation = device.generation
OfReview(c) ==
    ByReview(c) => /\ c.serial \in 0..device.reviewSerial
                   /\ c.serial = device.reviewSerial => device.token # 0 /\ c.by = device.token
OnPhone ==
    /\ device.reviewSerial \in Nat
    /\ \A c, e \in Awaited : LoginNow(c) /\ LoginNow(e) => c = e
    /\ \A c \in Awaited : OfReview(c)

\* The window of the users asks only of the list whose it is.
OnDesk == \A c \in Awaited : c.kind = "list" /\ LatestList(c) => c.by = device.token

Versions == server.version \in Nat /\ server.issued \in Nat
PhoneOwn == Versions /\ Numbered("list", device.serial) /\ InSession /\ OnPhone
DeskOwn ==
    /\ Versions /\ Numbered("list", device.serial)
    /\ Numbered("orders", device.ordersSerial) /\ OnDesk
ConsoleOwn == Versions /\ Numbered("list", device.serial) /\ InSession

OwnInv ==
    /\ NoApp => Versions /\ device = [token |-> 0]
    /\ IsMobile => PhoneOwn
    /\ IsDesktop => DeskOwn
    /\ IsConsole => ConsoleOwn

\* What ShownIsOwn says of one step.
KeepsOwn ==
    /\ \A p \in Owned \intersect DOMAIN device :
         device'[p] # device[p] => device'[p].by \in {0, device.token}
    /\ \A p \in Ordered \intersect DOMAIN device :
         device'[p].by = device[p].by => device'[p].version >= device[p].version

\* A load goes on under its number, with a reply of now, or the one it had ...
LEMMA NumberedMoves ==
    ASSUME NEW p, NEW n, Numbered(p, n), Versions, Versions', server.version <= server'.version,
           device'[p] = device[p], NEW c \in Awaited, NEW d,
           d.kind = c.kind, d.serial = c.serial, d.key = c.key,
           Awaited' \subseteq (Awaited \ {c}) \union {d},
           d.kind = p /\ d.reply.code = "Ok" =>
             d.reply = c.reply \/ d.reply.version = server.version
    PROVE  Numbered(p, n)'
  <1>1. \A e \in Awaited' : (e \in Awaited /\ e # c) \/ e = d
    OBVIOUS
  <1>2. ASSUME NEW e \in Awaited', e.kind = p
        PROVE  /\ e.serial \in 0..n /\ e.key = 0
               /\ e.serial = n /\ e.reply.code = "Ok" =>
                    e.reply.version \in device'[p].version..server'.version
    <2>1. CASE e \in Awaited
      BY <1>2, <2>1 DEF Numbered, Versions
    <2>2. CASE e = d
      <3>1. c.kind = p /\ c.serial \in 0..n /\ c.key = 0
        BY <1>2, <2>2 DEF Numbered
      <3> QED
        BY <1>2, <2>2, <3>1 DEF Numbered, Versions
    <2> QED
      BY <1>1, <2>1, <2>2
  <1>3. ASSUME NEW e \in Awaited', NEW f \in Awaited', e.kind = p, f.kind = p,
               e.serial = n, f.serial = n
        PROVE  e = f
    <2>1. \A g \in Awaited : g.kind = p /\ g.serial = n =>
            \A h \in Awaited : h.kind = p /\ h.serial = n => g = h
      BY DEF Numbered
    <2> QED
      BY <1>1, <1>3, <2>1
  <1>4. n \in Nat /\ device'[p].version \in 0..server'.version
    BY DEF Numbered, Versions
  <1> QED
    BY <1>2, <1>3, <1>4 DEF Numbered

\* ... and nothing else is loaded.
LEMMA NumberedStays ==
    ASSUME NEW p, NEW n, Numbered(p, n), Versions, Versions', server.version <= server'.version,
           device'[p] = device[p], NEW New, Awaited' \subseteq Awaited \union New,
           \A e \in New : e.kind # p
    PROVE  Numbered(p, n)'
  <1>1. \A e \in Awaited' : e.kind = p => e \in Awaited
    OBVIOUS
  <1>2. \A e \in Awaited' : e.kind = p =>
          /\ e.serial \in 0..n /\ e.key = 0
          /\ e.serial = n /\ e.reply.code = "Ok" =>
               e.reply.version \in device'[p].version..server'.version
    BY <1>1 DEF Numbered, Versions
  <1>3. \A e, f \in Awaited' : e.kind = p /\ f.kind = p /\ e.serial = n /\ f.serial = n => e = f
    BY <1>1 DEF Numbered
  <1>4. n \in Nat /\ device'[p].version \in 0..server'.version
    BY DEF Numbered, Versions
  <1> QED
    BY <1>2, <1>3, <1>4 DEF Numbered

\* A new load has the next number; until its reply the page stays or is empty.
LEMMA NumberedTurns ==
    ASSUME NEW p, NEW n, Numbered(p, n), Versions, server' = server,
           device'[p] = device[p] \/ device'[p] = Nothing,
           NEW New, Awaited' \subseteq Awaited \union New,
           \A e \in New : e.kind = p => e.serial = n + 1 /\ e.key = 0 /\ e.reply = NoReply,
           \A e, f \in New : e.kind = p /\ f.kind = p => e = f
    PROVE  Numbered(p, n + 1)'
  <1>1. n + 1 \in Nat /\ device'[p].version \in 0..server'.version
    BY DEF Numbered, Versions, Nothing
  <1>2. ASSUME NEW e \in Awaited', e.kind = p
        PROVE  /\ e.serial \in 0..(n + 1) /\ e.key = 0
               /\ e.serial = n + 1 => e \in New /\ e.reply.code # "Ok"
    <2>1. CASE e \in New
      BY <1>1, <1>2, <2>1 DEF NoReply
    <2>2. CASE e \in Awaited
      <3>1. e.serial \in 0..n /\ e.key = 0 /\ n \in Nat
        BY <1>2, <2>2 DEF Numbered
      <3> QED
        BY <3>1
    <2> QED
      BY <2>1, <2>2
  <1> QED
    BY <1>1, <1>2 DEF Numbered

\* The same when nothing new is awaited.
LEMMA NumberedKeeps ==
    ASSUME NEW p, NEW n, Numbered(p, n), Versions, Versions', server.version <= server'.version,
           device'[p] = device[p], Awaited' \subseteq Awaited
    PROVE  Numbered(p, n)'
  <1>1. PICK New : New = {}
    OBVIOUS
  <1>2. Awaited' \subseteq Awaited \union New /\ \A e \in New : e.kind # p
    BY <1>1
  <1> QED
    BY <1>2, NumberedStays

LEMMA NumberedEnds ==
    ASSUME NEW p, NEW n, Numbered(p, n), Versions, server' = server, device'[p] = Nothing,
           Awaited' \subseteq Awaited
    PROVE  Numbered(p, n + 1)'
  <1>1. PICK New : New = {}
    OBVIOUS
  <1>2. /\ Awaited' \subseteq Awaited \union New
        /\ \A e \in New : e.kind = p => e.serial = n + 1 /\ e.key = 0 /\ e.reply = NoReply
        /\ \A e, f \in New : e.kind = p /\ f.kind = p => e = f
    BY <1>1
  <1> QED
    BY <1>2, NumberedTurns

\* The last load is shown, and is awaited no longer.
LEMMA NumberedShows ==
    ASSUME NEW p, NEW n, Numbered(p, n), Versions, server' = server, NEW c \in Awaited,
           c.kind = p, c.serial = n, c.reply.code = "Ok", device'[p] = Read(c),
           Awaited' \subseteq Awaited \ {c}
    PROVE  Numbered(p, n)' /\ device'[p].version >= device[p].version
  <1>1. /\ c.reply.version \in device[p].version..server.version
        /\ device[p].version \in 0..server.version /\ n \in Nat
    BY DEF Numbered
  <1>2. device'[p].version = c.reply.version
    BY DEF Read
  <1>3. \A e \in Awaited' : e.kind = p => e.serial \in 0..n /\ e.key = 0 /\ e.serial # n
    BY DEF Numbered
  <1> QED
    BY <1>1, <1>2, <1>3 DEF Numbered, Versions

-----------------------------------------------------------------------------
(* The network, the server and the settlement leave the app alone. *)

LEMMA LeftAlone ==
    ASSUME OwnInv, OneApp, UNCHANGED device
    PROVE  KeepsOwn
  <1>1. CASE NoApp
    <2>1. Owned = {"list"} /\ Ordered = {"list"} /\ DOMAIN device = {"token"}
      BY <1>1 DEF OwnInv, Owned, Ordered, NoApp, IsMobile, IsConsole, IsDesktop
    <2> QED
      BY <2>1 DEF KeepsOwn
  <1>2. CASE IsMobile \/ IsConsole
    <2>1. Ordered = {"list"} /\ Numbered("list", device.serial) /\ Versions
      BY <1>2 DEF OwnInv, Ordered, PhoneOwn, ConsoleOwn, IsMobile, IsConsole, IsDesktop
    <2>2. device["list"].version \in Int
      BY <2>1 DEF Numbered, Versions
    <2> QED
      BY <2>1, <2>2 DEF KeepsOwn
  <1>3. CASE IsDesktop
    <2>1. /\ Ordered = {"list", "orders"} /\ Versions
          /\ Numbered("list", device.serial) /\ Numbered("orders", device.ordersSerial)
      BY <1>3 DEF OwnInv, Ordered, DeskOwn
    <2>2. device["list"].version \in Int /\ device["orders"].version \in Int
      BY <2>1 DEF Numbered, Versions
    <2> QED
      BY <2>1, <2>2 DEF KeepsOwn
  <1> QED
    BY <1>1, <1>2, <1>3 DEF OneApp

\* Fewer requests are awaited ...
LEMMA FewerFit ==
    ASSUME OwnInv, OneApp, UNCHANGED <<scene, device>>, Versions',
           server.version <= server'.version, Awaited' \subseteq Awaited
    PROVE  OwnInv'
  <1>1. IsMobile' = IsMobile /\ IsDesktop' = IsDesktop /\ IsConsole' = IsConsole /\ NoApp' = NoApp
    BY DEF IsMobile, IsDesktop, IsConsole, NoApp
  <1>2. ASSUME NEW p, NEW n, Numbered(p, n), Versions
        PROVE  Numbered(p, n)'
    BY <1>2, NumberedKeeps
  <1>3. PICK n : n = device.serial
    OBVIOUS
  <1>4. PICK m : m = device.ordersSerial
    OBVIOUS
  <1>5. device'.serial = n /\ device'.ordersSerial = m
    BY <1>3, <1>4
  <1>6. InSession => InSession'
    BY DEF InSession, OfSession
  <1>7. OnPhone => OnPhone'
    BY DEF OnPhone, LoginNow, OfReview
  <1>8. OnDesk => OnDesk'
    BY DEF OnDesk, LatestList
  <1>9. ASSUME Versions, Numbered("list", device.serial)
        PROVE  Numbered("list", device.serial)'
    <2>1. Numbered("list", n)'
      BY <1>2, <1>3, <1>9
    <2> QED
      BY <1>5, <2>1 DEF Numbered
  <1>10. ASSUME Versions, Numbered("orders", device.ordersSerial)
         PROVE  Numbered("orders", device.ordersSerial)'
    <2>1. Numbered("orders", m)'
      BY <1>2, <1>4, <1>10
    <2> QED
      BY <1>5, <2>1 DEF Numbered
  <1>11. PhoneOwn => PhoneOwn'
    BY <1>6, <1>7, <1>9 DEF PhoneOwn
  <1>12. DeskOwn => DeskOwn'
    BY <1>8, <1>9, <1>10 DEF DeskOwn
  <1>13. ConsoleOwn => ConsoleOwn'
    BY <1>6, <1>9 DEF ConsoleOwn
  <1> QED
    BY <1>1, <1>11, <1>12, <1>13 DEF OwnInv

\* ... or one of them moves on, with a reply of the server or without.
Asks(c) == c.kind \in IF IsDesktop THEN {"list", "orders"} ELSE {"list", "login"}
Tells(c, r) ==
    Asks(c) /\ r.code = "Ok" =>
        IF c.kind = "login" THEN r.no # 0 ELSE r.version = server.version

LEMMA MovedFits ==
    ASSUME OwnInv, OneApp, UNCHANGED <<scene, device>>, Versions',
           server.version <= server'.version, NEW c \in Awaited, NEW d,
           d.kind = c.kind, d.serial = c.serial, d.key = c.key, d.by = c.by,
           d.generation = c.generation, d.reply = c.reply \/ Tells(c, d.reply),
           Awaited' \subseteq (Awaited \ {c}) \union {d}
    PROVE  OwnInv'
  <1>1. IsMobile' = IsMobile /\ IsDesktop' = IsDesktop /\ IsConsole' = IsConsole /\ NoApp' = NoApp
    BY DEF IsMobile, IsDesktop, IsConsole, NoApp
  <1>2. ASSUME NEW p, p = "list" \/ (p = "orders" /\ IsDesktop), NEW n, Numbered(p, n), Versions
        PROVE  Numbered(p, n)'
    <2>1. d.kind = p /\ d.reply.code = "Ok" =>
            d.reply = c.reply \/ d.reply.version = server.version
      BY <1>2 DEF Tells, Asks
    <2>2. device'[p] = device[p]
      OBVIOUS
    <2> QED
      BY <1>2, <2>1, <2>2, NumberedMoves
  <1>3. PICK n : n = device.serial
    OBVIOUS
  <1>4. PICK m : m = device.ordersSerial
    OBVIOUS
  <1>5. device'.serial = n /\ device'.ordersSerial = m
    BY <1>3, <1>4
  <1>6. \A e \in Awaited' : (e \in Awaited /\ e # c) \/ e = d
    OBVIOUS
  <1>7. InSession /\ ~IsDesktop => InSession'
    <2> SUFFICES ASSUME InSession, ~IsDesktop PROVE InSession'
      OBVIOUS
    <2>1. OfSession(d)'
      BY DEF InSession, OfSession, Tells, Asks
    <2>2. \A e \in Awaited' : OfSession(e)'
      BY <1>6, <2>1 DEF InSession, OfSession
    <2> QED
      BY <2>2 DEF InSession
  <1>8. OnPhone => OnPhone'
    <2> SUFFICES ASSUME OnPhone PROVE OnPhone'
      OBVIOUS
    <2>1. \A e, f \in Awaited' : (LoginNow(e) /\ LoginNow(f))' => e = f
      BY <1>6 DEF OnPhone, LoginNow
    <2>2. OfReview(d)'
      BY DEF OnPhone, OfReview, ByReview
    <2>3. \A e \in Awaited' : OfReview(e)'
      BY <1>6, <2>2 DEF OnPhone, OfReview
    <2> QED
      BY <2>1, <2>3 DEF OnPhone
  <1>9. OnDesk => OnDesk'
    BY <1>6 DEF OnDesk, LatestList
  <1>10. ASSUME Versions, Numbered("list", device.serial)
         PROVE  Numbered("list", device.serial)'
    <2>1. Numbered("list", n)'
      BY <1>2, <1>3, <1>10
    <2> QED
      BY <1>5, <2>1 DEF Numbered
  <1>11. ASSUME Versions, IsDesktop, Numbered("orders", device.ordersSerial)
         PROVE  Numbered("orders", device.ordersSerial)'
    <2>1. Numbered("orders", m)'
      BY <1>2, <1>4, <1>11
    <2> QED
      BY <1>5, <2>1 DEF Numbered
  <1>12. ~IsDesktop /\ PhoneOwn => PhoneOwn'
    BY <1>7, <1>8, <1>10 DEF PhoneOwn
  <1>13. IsDesktop /\ DeskOwn => DeskOwn'
    BY <1>9, <1>10, <1>11 DEF DeskOwn
  <1>14. ~IsDesktop /\ ConsoleOwn => ConsoleOwn'
    BY <1>7, <1>10 DEF ConsoleOwn
  <1>15. (IsMobile \/ IsConsole) => ~IsDesktop
    BY DEF IsMobile, IsConsole, IsDesktop
  <1> QED
    BY <1>1, <1>12, <1>13, <1>14, <1>15 DEF OwnInv

LEMMA RepliedAwaited ==
    ASSUME NEW c \in calls, NEW r, Replied(c, r)
    PROVE  \/ Awaited' \subseteq Awaited
           \/ c \in Awaited /\ Awaited' \subseteq
                (Awaited \ {c}) \union {[c EXCEPT !.at = "Answered", !.reply = r]}
  BY DEF Replied, Awaited

LEMMA ReplyFits ==
    ASSUME OwnInv, OneApp, UNCHANGED <<scene, device>>, Versions',
           server.version <= server'.version, NEW c \in calls, IsCall(c),
           NEW r, Replied(c, r), c \in Awaited => Tells(c, r)
    PROVE  OwnInv'
  <1>1. PICK d : d = [c EXCEPT !.at = "Answered", !.reply = r]
    OBVIOUS
  <1>2. /\ d.kind = c.kind /\ d.serial = c.serial /\ d.key = c.key /\ d.by = c.by
        /\ d.generation = c.generation /\ d.reply = r
    BY <1>1 DEF IsCall
  <1>3. CASE Awaited' \subseteq Awaited
    BY <1>3, FewerFit
  <1>4. CASE c \in Awaited /\ Awaited' \subseteq (Awaited \ {c}) \union {d}
    BY <1>2, <1>4, MovedFits
  <1> QED
    BY <1>1, <1>3, <1>4, RepliedAwaited

LEMMA FailureTells == ASSUME NEW c, NEW code, code # "Ok" PROVE Tells(c, Failure(code))
  <1>1. Failure(code).code = code
    BY DEF Failure, NoReply
  <1> QED
    BY <1>1 DEF Tells

\* What the server tells a login, a list or the orders, and what it does to the
\* versions of its rows.
LEMMA CarriedVersions ==
    ASSUME Versions, IsServer(server), NEW c, NEW r, NEW s, server' = Recorded(c, r, s),
           IsServer(s), s.issued = server.issued, s.version \in {server.version, server.version + 1}
    PROVE  Versions' /\ server.version <= server'.version
  <1>1. server'.version = s.version /\ server'.issued = s.issued
    BY DEF Recorded, IsServer
  <1> QED
    BY <1>1 DEF Versions

LEMMA ServeTells ==
    ASSUME Versions, IsServer(server), NEW c \in calls, Serve(c),
           Asks(c) /\ c \in Awaited => c.key = 0
    PROVE  /\ Versions' /\ server.version <= server'.version
           /\ \E r : Replied(c, r) /\ (c \in Awaited => Tells(c, r))
  <1> USE DEF Refused
  <1>1. UNCHANGED server => Versions' /\ server.version <= server'.version
    BY DEF Versions
  <1>2. \A code : code # "Ok" => Tells(c, Failure(code))
    BY FailureTells
  <1>3. /\ ~Asks(c) => \A r : Tells(c, r)
        /\ c.kind \notin {"login", "list", "orders"} => ~Asks(c)
    BY DEF Tells, Asks
  <1>4. CASE ServeLogin(c)
    <2>1. CASE Replied(c, Failure("Refused")) /\ UNCHANGED server
      BY <1>1, <1>2, <2>1
    <2>2. CASE \E new, live, u : /\ new = server.issued + 1
                                 /\ server' = [server EXCEPT !.issued = new, !.owner[new] = u, !.live = live]
                                 /\ Replied(c, [Ok EXCEPT !.no = new])
      <3>1. PICK new, live, u : /\ new = server.issued + 1
                                /\ server' = [server EXCEPT !.issued = new, !.owner[new] = u, !.live = live]
                                /\ Replied(c, [Ok EXCEPT !.no = new])
        BY <2>2
      <3>2. server'.version = server.version /\ server'.issued = new
        BY <3>1 DEF IsServer
      <3>3. Versions' /\ server.version <= server'.version
        BY <3>1, <3>2 DEF Versions
      <3>4. c.kind = "login"
        BY <1>4 DEF ServeLogin
      <3>5. Tells(c, [Ok EXCEPT !.no = new])
        <4>1. [Ok EXCEPT !.no = new].no = new
          BY DEF Ok, NoReply
        <4>2. new # 0
          BY <3>1 DEF Versions
        <4> QED
          BY <3>4, <4>1, <4>2 DEF Tells
      <3> QED
        BY <3>1, <3>3, <3>5
    <2> QED
      BY <1>4, <2>1, <2>2 DEF ServeLogin
  <1>5. CASE ServeUnauthorized(c)
    BY <1>1, <1>2, <1>5 DEF ServeUnauthorized
  <1>6. CASE ServeAgain(c)
    <2>1. c \in Awaited => ~Asks(c)
      BY <1>6 DEF ServeAgain, Answered
    <2> QED
      BY <1>1, <1>3, <1>6, <2>1 DEF ServeAgain
  <1>7. CASE ServeSignOff(c)
    <2>1. c.kind \notin {"login", "list", "orders"} /\ \E r : Replied(c, r)
      BY <1>7 DEF ServeSignOff, Serves
    <2>2. UNCHANGED server \/ \E live : server' = [server EXCEPT !.live = live]
      BY <1>7 DEF ServeSignOff
    <2>3. server'.version = server.version /\ server'.issued = server.issued
      BY <2>2 DEF IsServer
    <2> QED
      BY <1>3, <2>1, <2>3 DEF Versions
  <1>8. CASE ServeReading(c)
    <2>1. UNCHANGED server
      BY <1>8 DEF ServeReading
    <2>2. CASE \E n : Replied(c, [Ok EXCEPT !.version = server.version, !.status = n])
                      /\ c.kind # "login"
      <3>1. PICK n : Replied(c, [Ok EXCEPT !.version = server.version, !.status = n])
        BY <2>2
      <3>2. Tells(c, [Ok EXCEPT !.version = server.version, !.status = n])
        BY <2>2 DEF Tells, Ok, NoReply
      <3> QED
        BY <1>1, <2>1, <3>1, <3>2
    <2>3. CASE c.kind \notin {"login", "list", "orders"} /\ \E r : Replied(c, r)
      BY <1>1, <1>3, <2>1, <2>3
    <2> QED
      BY <1>8, <2>2, <2>3 DEF ServeReading, Serves
  <1>9. CASE ServeCreate(c)
    <2>1. c.kind \notin {"login", "list", "orders"}
      BY <1>9 DEF ServeCreate, Serves
    <2>2. CASE Replied(c, Failure("Refused")) /\ UNCHANGED server
      BY <1>1, <1>2, <2>2
    <2>3. CASE \E r, n, f : Carried(c, r, [server EXCEPT !.flows[n] = f])
      <3>1. PICK r, n, f, s : Carried(c, r, s) /\ s = [server EXCEPT !.flows[n] = f]
        BY <2>3
      <3>2. IsServer(s) /\ s.issued = server.issued /\ s.version = server.version
        BY <3>1 DEF IsServer
      <3> QED
        BY <1>3, <2>1, <3>1, <3>2, CarriedVersions DEF Carried
    <2> QED
      BY <1>9, <2>2, <2>3 DEF ServeCreate
  <1>10. CASE ServeFlow(c)
    <2>1. c.kind \notin {"login", "list", "orders"}
      BY <1>10 DEF ServeFlow, Serves, From
    <2>2. CASE Replied(c, Failure("Conflict")) /\ UNCHANGED server
      BY <1>1, <1>2, <2>2
    <2>3. CASE \E r, x : Carried(c, r, [server EXCEPT !.flows[c.no].status = x])
      <3>1. PICK r, x, s : Carried(c, r, s) /\ s = [server EXCEPT !.flows[c.no].status = x]
        BY <2>3
      <3>2. IsServer(s) /\ s.issued = server.issued /\ s.version = server.version
        BY <3>1 DEF IsServer
      <3> QED
        BY <1>3, <2>1, <3>1, <3>2, CarriedVersions DEF Carried
    <2> QED
      BY <1>10, <2>2, <2>3 DEF ServeFlow
  <1>11. CASE ServeOther(c)
    <2>1. c.kind \notin {"login", "list", "orders"}
      BY <1>11 DEF ServeOther, Serves
    <2>2. CASE UNCHANGED server /\ \E r : Replied(c, r)
      BY <1>1, <1>3, <2>1, <2>2
    <2>3. CASE \E r : /\ Replied(c, r)
                      /\ \/ server' = [server EXCEPT !.version = @ + 1]
                         \/ server' = [server EXCEPT !.proven = @ \union {c.by}]
      <3>1. server'.issued = server.issued /\ server'.version \in {server.version, server.version + 1}
        BY <2>3 DEF IsServer
      <3> QED
        BY <1>3, <2>1, <2>3, <3>1 DEF Versions
    <2>4. CASE \E s : /\ Carried(c, Ok, s) /\ IsServer(s) /\ s.issued = server.issued
                      /\ s.version \in {server.version, server.version + 1}
      BY <1>3, <2>1, <2>4, CarriedVersions DEF Carried
    <2>5. ASSUME NEW s, \/ s = server \/ s = [server EXCEPT !.reviewed = TRUE]
                        \/ s = [server EXCEPT !.version = @ + 1]
                        \/ s = [server EXCEPT !.command = "Pending"]
          PROVE  /\ IsServer(s) /\ s.issued = server.issued
                 /\ s.version \in {server.version, server.version + 1}
      BY <2>5 DEF IsServer
    <2> QED
      BY <1>11, <2>2, <2>3, <2>4, <2>5 DEF ServeOther
  <1> QED
    BY <1>4, <1>5, <1>6, <1>7, <1>8, <1>9, <1>10, <1>11 DEF Serve

\* What is asked for so carries no key.
LEMMA UnkeyedLoads ==
    ASSUME OwnInv, OneApp, NEW c \in Awaited, Asks(c)
    PROVE  c.key = 0
  <1>1. c \in calls
    BY DEF Awaited
  <1>2. IsMobile \/ IsDesktop \/ IsConsole
    BY <1>1 DEF OneApp
  <1>3. c.kind = "list" => Numbered("list", device.serial)
    BY <1>2 DEF OwnInv, PhoneOwn, DeskOwn, ConsoleOwn
  <1>4. c.kind = "orders" => Numbered("orders", device.ordersSerial)
    BY DEF Asks, OwnInv, DeskOwn
  <1>5. c.kind = "login" => InSession
    BY <1>2 DEF Asks, OwnInv, PhoneOwn, ConsoleOwn
  <1> QED
    BY <1>3, <1>4, <1>5 DEF Asks, Numbered, InSession, OfSession

LEMMA VersionsOwn == ASSUME OwnInv, OneApp PROVE Versions
  BY DEF OwnInv, OneApp, PhoneOwn, DeskOwn, ConsoleOwn

LEMMA ServeFits ==
    ASSUME OwnInv, OnceInv, NEW c \in calls, Serve(c)
    PROVE  OwnInv' /\ KeepsOwn
  <1>1. OneApp /\ IsCall(c) /\ IsServer(server) /\ UNCHANGED <<scene, device>>
    BY ServeEffects DEF OnceInv, KeysOK, Meant, Done
  <1>2. PICK r : Replied(c, r) /\ (c \in Awaited => Tells(c, r))
    BY <1>1, ServeTells, UnkeyedLoads, VersionsOwn
  <1>3. Versions' /\ server.version <= server'.version
    BY <1>1, ServeTells, UnkeyedLoads, VersionsOwn
  <1> QED
    BY <1>1, <1>2, <1>3, ReplyFits, LeftAlone

LEMMA LoseFits ==
    ASSUME OwnInv, OnceInv, NEW c \in calls, Lose(c)
    PROVE  OwnInv' /\ KeepsOwn
  <1>1. OneApp /\ IsCall(c) /\ UNCHANGED <<scene, device, server>> /\ Versions
    BY VersionsOwn DEF OnceInv, KeysOK, Meant, Lose
  <1>2. PICK d : d = [c EXCEPT !.at = "Answered", !.reply = Failure("Unreachable")]
    OBVIOUS
  <1>3. /\ d.kind = c.kind /\ d.serial = c.serial /\ d.key = c.key /\ d.by = c.by
        /\ d.generation = c.generation /\ d.reply = Failure("Unreachable")
    BY <1>1, <1>2 DEF IsCall
  <1>4. c \in Awaited /\ Awaited' \subseteq (Awaited \ {c}) \union {d}
    <2>1. PICK remains \in {Remains(c)} \union (IF c.at = "Sent" THEN {{}} ELSE {}) :
            calls' = ((calls \ {c}) \union remains) \union {d}
      BY <1>2 DEF Lose
    <2>2. \A e \in remains : GivenUp(e)
      BY <1>1, <2>1 DEF Remains, IsCall, GivenUp
    <2>3. c.at \in {"Sent", "Handled", "Answered"}
      BY DEF Lose
    <2>4. c \in Awaited
      BY <2>3 DEF Awaited, GivenUp
    <2> QED
      BY <2>1, <2>2, <2>4 DEF Awaited
  <1>5. Versions' /\ server.version <= server'.version
    BY <1>1 DEF Versions
  <1> QED
    BY <1>1, <1>3, <1>4, <1>5, FailureTells, MovedFits, LeftAlone

\* Events and the ends of commands.
LEMMA EventFits ==
    ASSUME OwnInv, OnceInv, ServerEvent \/ CommandEnds
    PROVE  OwnInv' /\ KeepsOwn
  <1>1. OneApp /\ IsServer(server) /\ Versions
    BY VersionsOwn DEF OnceInv, KeysOK, Done
  <1>2. UNCHANGED <<scene, device, calls>>
    BY DEF ServerEvent, CommandEnds
  <1>3. /\ server'.issued = server.issued
        /\ server'.version \in {server.version, server.version + 1}
    BY <1>1 DEF ServerEvent, CommandEnds, IsServer
  <1>4. Versions' /\ server.version <= server'.version /\ Awaited' \subseteq Awaited
    BY <1>1, <1>2, <1>3 DEF Versions, Awaited
  <1> QED
    BY <1>1, <1>2, <1>4, FewerFit, LeftAlone

\* The settlement answers nobody but who asked for it.
LEMMA LinkedFits ==
    ASSUME OwnInv, OnceInv, Linked
    PROVE  OwnInv' /\ KeepsOwn
  <1>1. OneApp /\ Versions /\ (\A c \in calls : IsCall(c)) /\ IsServer(server)
    BY VersionsOwn DEF OnceInv, KeysOK, Meant, Done
  <1>2. UNCHANGED <<scene, device>>
    BY DEF Linked, SettleTaken, SettleCrashed, SettlementGoesOn, SettleOpened, SettleCommitted, appVars
  <1>3. Versions' /\ server.version <= server'.version
    <2>1. server' = server \/ \E c : server' = [server EXCEPT !.flows[1].status = Over, !.done[c.intent] = @ + 1]
      BY DEF Linked, SettleTaken, SettleCrashed, SettlementGoesOn, SettleOpened, SettleCommitted, appVars
    <2>2. server'.version = server.version /\ server'.issued = server.issued
      BY <1>1, <2>1 DEF IsServer
    <2> QED
      BY <1>1, <2>2 DEF Versions
  <1>4. CASE calls' = calls
    BY <1>1, <1>2, <1>3, <1>4, FewerFit, LeftAlone DEF Awaited
  <1>5. ASSUME NEW c \in calls, c.kind = "settle", NEW r, Replied(c, r)
        PROVE  OwnInv' /\ KeepsOwn
    <2>1. Tells(c, r)
      BY <1>5 DEF Tells, Asks
    <2> QED
      BY <1>1, <1>2, <1>3, <1>5, <2>1, ReplyFits, LeftAlone
  <1>6. ASSUME NEW c \in calls, calls' = (calls \ {c}) \union {TakenUp(c)}
        PROVE  OwnInv' /\ KeepsOwn
    <2>1. PICK d : d = TakenUp(c)
      OBVIOUS
    <2>2. /\ d.kind = c.kind /\ d.serial = c.serial /\ d.key = c.key /\ d.by = c.by
          /\ d.generation = c.generation /\ d.reply = c.reply
          /\ GivenUp(c) => GivenUp(d)
      BY <1>1, <2>1 DEF TakenUp, IsCall, GivenUp
    <2>3. CASE c \in Awaited
      <3>1. Awaited' \subseteq (Awaited \ {c}) \union {d}
        BY <1>6, <2>1 DEF Awaited
      <3> QED
        BY <1>1, <1>2, <1>3, <2>2, <2>3, <3>1, MovedFits, LeftAlone
    <2>4. CASE c \notin Awaited
      <3>1. Awaited' \subseteq Awaited
        BY <1>6, <2>1, <2>2, <2>4 DEF Awaited
      <3> QED
        BY <1>1, <1>2, <1>3, <3>1, FewerFit, LeftAlone
    <2> QED
      BY <2>3, <2>4
  <1>7. \A c \in calls : Handled(c) => c.kind = "settle"
    BY DEF OnceInv, KeysOK, Meant
  <1>8. ASSUME NEW c \in calls, SettleTaken(c)
        PROVE  OwnInv' /\ KeepsOwn
    <2>1. c.kind = "settle"
      BY <1>8 DEF SettleTaken, Settles
    <2> QED
      BY <1>5, <1>6, <1>8, <2>1 DEF SettleTaken
  <1>9. ASSUME NEW c \in calls, SettleOpened(c) \/ SettleCommitted(c) \/ SettleCrashed(c)
        PROVE  OwnInv' /\ KeepsOwn
    BY <1>4, <1>5, <1>7, <1>9 DEF SettleOpened, SettleCommitted, SettleCrashed
  <1>10. CASE UNCHANGED appVars
    BY <1>4, <1>10 DEF appVars
  <1> QED
    BY <1>8, <1>9, <1>10 DEF Linked, SettlementGoesOn

-----------------------------------------------------------------------------
(* What the phone does. *)

\* A request just made by the app d.
Fresh(c, d, kind) ==
    c.kind = kind /\ c.by = d.token /\ c.generation = d.generation /\ c.reply = NoReply

LEMMA FreshRequests ==
    ASSUME NEW d, NEW kind, NEW k, NEW n, NEW u, NEW v, NEW w
    PROVE  /\ Fresh(Request(d, kind), d, kind) /\ Request(d, kind).key = 0
           /\ Fresh([Request(d, kind) EXCEPT !.user = u], d, kind)
           /\ [Request(d, kind) EXCEPT !.user = u].key = 0
           /\ Fresh([Request(d, kind) EXCEPT !.serial = n], d, kind)
           /\ [Request(d, kind) EXCEPT !.serial = n].serial = n
           /\ [Request(d, kind) EXCEPT !.serial = n].key = 0
           /\ Fresh([Request(d, kind) EXCEPT !.version = v], d, kind)
           /\ Fresh([Request(d, kind) EXCEPT !.no = n], d, kind)
           /\ Fresh([Request(d, kind) EXCEPT !.key = k, !.intent = w], d, kind)
           /\ Fresh([Request(d, kind) EXCEPT !.key = k, !.intent = w, !.no = n, !.version = v], d, kind)
           /\ Fresh([Request(d, kind) EXCEPT !.serial = n, !.key = k, !.intent = w], d, kind)
           /\ [Request(d, kind) EXCEPT !.serial = n, !.key = k, !.intent = w].serial = n
           /\ Fresh([Request(d, kind) EXCEPT !.tries = u, !.serial = n, !.at = v], d, kind)
  BY DEF Fresh, Request

\* What an app sends, and what it goes on waiting for after a reply.
LEMMA SendsAwaited ==
    ASSUME NEW d, NEW New, Sends(d, New)
    PROVE  device' = d /\ Awaited' \subseteq Awaited \union New
  BY DEF Sends, Awaited

LEMMA HandlesAwaited ==
    ASSUME NEW c, NEW d, NEW New, Handles(c, d, New)
    PROVE  /\ device' = d /\ UNCHANGED <<scene, server>>
           /\ Awaited' \subseteq (Awaited \ {c}) \union New
           /\ Awaited' \subseteq Awaited \union New
  BY DEF Handles, Awaited

\* What the phone shows beside its list.
PhoneShows(d) ==
    \A p \in {"orders", "profile", "avatar", "review", "flow"} :
       d[p] # device[p] => d[p].by \in {0, device.token}
PhoneHead(d) ==
    /\ d.token = device.token /\ d.generation = device.generation
    /\ d.serial = device.serial /\ d.reviewSerial = device.reviewSerial /\ d.list = device.list

LEMMA PhoneShown ==
    ASSUME PhoneOwn, IsMobile, PhoneShows(device'),
           \/ device'.list = device.list \/ device'.list = Nothing
           \/ device'.list.by = device.token /\ device'.list.version >= device.list.version
    PROVE  KeepsOwn
  <1>1. /\ Owned = {"list", "orders", "profile", "avatar", "review", "flow"}
        /\ Ordered = {"list"}
    BY DEF Owned, Ordered, IsMobile, IsConsole, IsDesktop
  <1>2. device.list.version \in Int
    BY DEF PhoneOwn, Numbered, Versions
  <1>3. device'.list # device.list => device'.list.by \in {0, device.token}
    BY DEF Nothing
  <1>4. device'.list.by = device.list.by => device'.list.version >= device.list.version
    <2>1. CASE device'.list = device.list
      BY <1>2, <2>1
    <2>2. CASE device'.list = Nothing /\ device.list.by = 0
      <3>1. device.list = Nothing
        BY <2>2 DEF PhoneOwn, InSession
      <3> QED
        BY <1>2, <2>2, <3>1
    <2> QED
      BY <2>1, <2>2 DEF Nothing
  <1> QED
    BY <1>1, <1>3, <1>4 DEF KeepsOwn, PhoneShows

\* Nothing that the invariant is about changes, but requests of the session are
\* sent.
LEMMA PhoneQuiet ==
    ASSUME PhoneOwn, IsMobile, UNCHANGED server, PhoneHead(device'), PhoneShows(device'),
           NEW New, Awaited' \subseteq Awaited \union New,
           \A e \in New : e.kind \notin {"login", "list", "review", "submit"} /\ OfSession(e)
    PROVE  PhoneOwn' /\ KeepsOwn
  <1>1. Versions' /\ server.version <= server'.version /\ Versions
    BY DEF PhoneOwn, Versions
  <1>2. PICK n : n = device.serial
    OBVIOUS
  <1>3. device'.serial = n /\ device'["list"] = device["list"]
    BY <1>2 DEF PhoneHead
  <1>4. Numbered("list", n)'
    BY <1>1, <1>2, <1>3, NumberedStays DEF PhoneOwn
  <1>5. InSession'
    <2>1. \A e \in Awaited' : OfSession(e)
      BY DEF PhoneOwn, InSession
    <2>2. \A e \in Awaited' : OfSession(e)'
      BY <2>1 DEF OfSession, PhoneHead
    <2> QED
      BY <2>2 DEF PhoneOwn, InSession, PhoneHead
  <1>6. OnPhone'
    <2>1. \A e \in Awaited' : e.kind = "login" => e \in Awaited
      OBVIOUS
    <2>2. \A e \in Awaited' : ByReview(e) => e \in Awaited
      BY DEF ByReview
    <2>3. \A e, f \in Awaited' : (LoginNow(e) /\ LoginNow(f))' => e = f
      BY <2>1 DEF PhoneOwn, OnPhone, LoginNow, PhoneHead
    <2>4. \A e \in Awaited' : OfReview(e)'
      BY <2>2 DEF PhoneOwn, OnPhone, OfReview, PhoneHead
    <2> QED
      BY <2>3, <2>4 DEF PhoneOwn, OnPhone, PhoneHead
  <1>7. Numbered("list", device.serial)'
    BY <1>3, <1>4 DEF Numbered
  <1> QED
    BY <1>1, <1>5, <1>6, <1>7, PhoneShown DEF PhoneOwn, PhoneHead

\* A list is asked for, under the next number.
LEMMA PhoneLists ==
    ASSUME PhoneOwn, IsMobile, UNCHANGED server,
           device'.serial = device.serial + 1, device'.token = device.token,
           device'.generation = device.generation, device'.reviewSerial = device.reviewSerial,
           device'.list = device.list, PhoneShows(device'), NEW e,
           Awaited' \subseteq Awaited \union {e}, e.kind = "list", OfSession(e),
           e.serial = device.serial + 1, e.key = 0, e.reply = NoReply
    PROVE  PhoneOwn' /\ KeepsOwn
  <1>1. Versions' /\ Versions
    BY DEF PhoneOwn, Versions
  <1>2. PICK n : n = device.serial
    OBVIOUS
  <1>3. Numbered("list", n + 1)'
    <2> DEFINE New == {e}
    <2>1. Awaited' \subseteq Awaited \union New
      OBVIOUS
    <2>2. \A x \in New : x.kind = "list" => x.serial = n + 1 /\ x.key = 0 /\ x.reply = NoReply
      BY <1>2
    <2>3. \A x, y \in New : x.kind = "list" /\ y.kind = "list" => x = y
      OBVIOUS
    <2> HIDE DEF New
    <2> QED
      BY <1>1, <1>2, <2>1, <2>2, <2>3, NumberedTurns DEF PhoneOwn
  <1>4. InSession'
    <2>1. \A x \in Awaited' : OfSession(x)
      BY DEF PhoneOwn, InSession
    <2>2. \A x \in Awaited' : OfSession(x)'
      BY <2>1 DEF OfSession
    <2> QED
      BY <2>2 DEF PhoneOwn, InSession
  <1>5. OnPhone'
    BY DEF PhoneOwn, OnPhone, LoginNow, OfReview, ByReview
  <1>6. Numbered("list", device.serial)'
    BY <1>2, <1>3 DEF Numbered
  <1> QED
    BY <1>1, <1>4, <1>5, <1>6, PhoneShown DEF PhoneOwn

\* The phone logs in when it waits for nothing that is counted.
LEMMA PhoneLogsIn ==
    ASSUME PhoneOwn, IsMobile, UNCHANGED <<server, device>>, ~Busy, device.token = 0,
           NEW e, Awaited' \subseteq Awaited \union {e}, Fresh(e, device, "login"), e.key = 0
    PROVE  PhoneOwn' /\ KeepsOwn
  <1>1. Versions' /\ server.version <= server'.version /\ Versions
    BY DEF PhoneOwn, Versions
  <1>2. PICK n : n = device.serial
    OBVIOUS
  <1>3. Numbered("list", n)'
    <2> DEFINE New == {e}
    <2>1. Awaited' \subseteq Awaited \union New /\ \A x \in New : x.kind # "list"
      BY DEF Fresh
    <2> HIDE DEF New
    <2> QED
      BY <1>1, <1>2, <2>1, NumberedStays DEF PhoneOwn
  <1>4. \A x \in Awaited : x.kind # "login"
    BY DEF Busy
  <1>5. InSession'
    <2>1. OfSession(e)'
      BY DEF OfSession, Fresh, NoReply, PhoneOwn, InSession
    <2>2. \A x \in Awaited' : OfSession(x)'
      BY <2>1 DEF PhoneOwn, InSession, OfSession
    <2> QED
      BY <2>2 DEF PhoneOwn, InSession
  <1>6. OnPhone'
    BY <1>4 DEF PhoneOwn, OnPhone, LoginNow, OfReview, ByReview, Fresh
  <1>7. Numbered("list", device.serial)'
    BY <1>2, <1>3 DEF Numbered
  <1> QED
    BY <1>1, <1>5, <1>6, <1>7, PhoneShown DEF PhoneOwn, PhoneShows

\* A review is asked for, or submitted, on the page that is open or opens.
LEMMA PhoneReviewing ==
    ASSUME PhoneOwn, IsMobile, UNCHANGED server,
           device'.serial = device.serial, device'.token = device.token,
           device'.generation = device.generation, device'.list = device.list,
           device'.reviewSerial \in {device.reviewSerial, device.reviewSerial + 1},
           PhoneShows(device'), device.token # 0, NEW e,
           Awaited' \subseteq Awaited \union {e}, ByReview(e), Fresh(e, device, e.kind),
           e.serial = device'.reviewSerial
    PROVE  PhoneOwn' /\ KeepsOwn
  <1>1. Versions' /\ server.version <= server'.version /\ Versions
    BY DEF PhoneOwn, Versions
  <1>2. PICK n : n = device.serial
    OBVIOUS
  <1>3. Numbered("list", n)'
    <2> DEFINE New == {e}
    <2>1. Awaited' \subseteq Awaited \union New /\ \A x \in New : x.kind # "list"
      BY DEF ByReview
    <2>2. device'["list"] = device["list"]
      OBVIOUS
    <2> HIDE DEF New
    <2> QED
      BY <1>1, <1>2, <2>1, <2>2, NumberedStays DEF PhoneOwn
  <1>4. InSession'
    <2>1. OfSession(e)'
      BY DEF OfSession, Fresh, NoReply, PhoneOwn, InSession, ByReview
    <2>2. \A x \in Awaited' : OfSession(x)'
      BY <2>1 DEF PhoneOwn, InSession, OfSession
    <2> QED
      BY <2>2 DEF PhoneOwn, InSession
  <1>5. OnPhone'
    <2>1. PICK r : r = device.reviewSerial
      OBVIOUS
    <2>2. r \in Nat /\ device'.reviewSerial \in {r, r + 1}
      BY <2>1 DEF PhoneOwn, OnPhone
    <2>3. \A x, y \in Awaited' : (LoginNow(x) /\ LoginNow(y))' => x = y
      BY DEF PhoneOwn, OnPhone, LoginNow, ByReview
    <2>4. OfReview(e)'
      BY <2>2 DEF OfReview, Fresh
    <2>5. ASSUME NEW x \in Awaited, ByReview(x)
          PROVE  OfReview(x)'
      <3>1. x.serial \in 0..r /\ (x.serial = r => device.token # 0 /\ x.by = device.token)
        BY <2>1, <2>5 DEF PhoneOwn, OnPhone, OfReview
      <3> QED
        BY <2>2, <3>1 DEF OfReview
    <2>6. \A x \in Awaited' : OfReview(x)'
      BY <2>4, <2>5 DEF OfReview
    <2> QED
      BY <2>2, <2>3, <2>6 DEF OnPhone
  <1>6. Numbered("list", device.serial)'
    BY <1>2, <1>3 DEF Numbered
  <1> QED
    BY <1>1, <1>4, <1>5, <1>6, PhoneShown DEF PhoneOwn

\* The session is over: whatever is under way belongs to an earlier one.
LEMMA PhoneEnds ==
    ASSUME PhoneOwn, IsMobile, UNCHANGED server, IsPhone(device), device' = Cleared(device),
           Awaited' \subseteq Awaited
    PROVE  PhoneOwn' /\ KeepsOwn
  <1>1. Versions' /\ Versions
    BY DEF PhoneOwn, Versions
  <1>2. PICK n, g, r : n = device.serial /\ g = device.generation /\ r = device.reviewSerial
    OBVIOUS
  <1>3. n \in Nat /\ g \in Nat /\ r \in Nat
    BY <1>2 DEF PhoneOwn, Numbered, InSession, OnPhone
  <1>4. /\ device'.serial = n + 1 /\ device'.generation = g + 1 /\ device'.reviewSerial = r + 1
        /\ device'.list = Nothing /\ device'.orders = Nothing /\ device'.profile = Nothing
        /\ device'.avatar = Nothing /\ device'.review = Nothing /\ device'.flow = NoFlow
    BY <1>2 DEF Cleared, IsPhone
  <1>5. Numbered("list", n + 1)'
    <2>1. Numbered("list", n)
      BY <1>2 DEF PhoneOwn
    <2>2. device'["list"] = Nothing
      BY <1>4
    <2> QED
      BY <1>1, <2>1, <2>2, NumberedEnds
  <1>6. InSession'
    <2>1. \A x \in Awaited' : OfSession(x)'
      BY <1>2, <1>3, <1>4 DEF PhoneOwn, InSession, OfSession
    <2> QED
      BY <1>3, <1>4, <2>1 DEF InSession
  <1>7. OnPhone'
    <2>1. \A x \in Awaited' : ~LoginNow(x)'
      BY <1>2, <1>3, <1>4 DEF PhoneOwn, InSession, OfSession, LoginNow
    <2>2. \A x \in Awaited' : OfReview(x)'
      BY <1>2, <1>3, <1>4 DEF PhoneOwn, OnPhone, OfReview
    <2> QED
      BY <1>3, <1>4, <2>1, <2>2 DEF OnPhone
  <1>8. Numbered("list", device.serial)'
    BY <1>4, <1>5 DEF Numbered
  <1>9. PhoneShows(device')
    BY <1>4 DEF PhoneShows, Nothing, NoFlow
  <1> QED
    BY <1>1, <1>4, <1>6, <1>7, <1>8, <1>9, PhoneShown DEF PhoneOwn

\* The login that is waited for succeeds: nothing else is of the new session.
LEMMA PhoneEnters ==
    ASSUME PhoneOwn, IsMobile, UNCHANGED server, IsPhone(device), NEW c \in Awaited,
           c.reply.code = "Ok", LoginNow(c), NEW New,
           device' = [device EXCEPT !.token = c.reply.no, !.serial = @ + 1],
           Awaited' \subseteq (Awaited \ {c}) \union New,
           \A e \in New : /\ Fresh(e, device', e.kind) /\ e.kind \in {"profile", "list", "active"}
                          /\ e.serial = device'.serial /\ e.key = 0,
           \A e, f \in New : e.kind = f.kind => e = f
    PROVE  PhoneOwn' /\ KeepsOwn
  <1>1. Versions' /\ Versions
    BY DEF PhoneOwn, Versions
  <1>2. PICK n, g : n = device.serial /\ g = device.generation
    OBVIOUS
  <1>3. /\ n \in Nat /\ g \in Nat /\ c.reply.no # 0 /\ device.token = 0
    BY <1>2 DEF PhoneOwn, Numbered, InSession, OfSession, LoginNow
  <1>4. /\ device'.serial = n + 1 /\ device'.generation = g /\ device'.token # 0
        /\ device'.reviewSerial = device.reviewSerial /\ device'.list = device.list
        /\ \A p \in {"orders", "profile", "avatar", "review", "flow"} : device'[p] = device[p]
    BY <1>2, <1>3 DEF IsPhone
  <1>5. Numbered("list", n + 1)'
    <2>1. Awaited' \subseteq Awaited \union New /\ device'["list"] = device["list"]
      BY <1>4
    <2>2. \A e \in New : e.kind = "list" => e.serial = n + 1 /\ e.key = 0 /\ e.reply = NoReply
      BY <1>4 DEF Fresh
    <2>3. \A e, f \in New : e.kind = "list" /\ f.kind = "list" => e = f
      OBVIOUS
    <2>4. Numbered("list", n)
      BY <1>2 DEF PhoneOwn
    <2> QED
      BY <1>1, <2>1, <2>2, <2>3, <2>4, NumberedTurns
  <1>6. \A x \in Awaited' : x \in New \/ (x \in Awaited /\ x # c)
    OBVIOUS
  <1>7. \A x \in Awaited \ {c} : x.generation # g
    <2> SUFFICES ASSUME NEW x \in Awaited \ {c}, x.generation = g PROVE FALSE
      OBVIOUS
    <2>1. x.kind = "login"
      BY <1>2, <1>3 DEF PhoneOwn, InSession, OfSession
    <2>2. LoginNow(x)
      BY <1>2, <2>1 DEF LoginNow
    <2> QED
      BY <2>2 DEF PhoneOwn, OnPhone
  <1>8. InSession'
    <2>1. \A x \in New : OfSession(x)'
      BY <1>3, <1>4 DEF Fresh, OfSession, NoReply
    <2>2. \A x \in Awaited \ {c} : OfSession(x)'
      BY <1>2, <1>4, <1>7 DEF PhoneOwn, InSession, OfSession
    <2> QED
      BY <1>3, <1>4, <1>6, <2>1, <2>2 DEF PhoneOwn, InSession
  <1>9. OnPhone'
    <2>1. \A x \in Awaited' : ~LoginNow(x)'
      BY <1>4, <1>6, <1>7 DEF LoginNow
    <2>2. \A x \in Awaited' : ByReview(x) => x \in Awaited
      BY <1>6 DEF ByReview
    <2>3. \A x \in Awaited' : OfReview(x)'
      BY <1>3, <1>4, <2>2 DEF PhoneOwn, OnPhone, OfReview
    <2> QED
      BY <1>4, <2>1, <2>3 DEF PhoneOwn, OnPhone
  <1>10. Numbered("list", device.serial)'
    BY <1>4, <1>5 DEF Numbered
  <1>11. PhoneShows(device')
    BY <1>4 DEF PhoneShows
  <1> QED
    BY <1>1, <1>4, <1>8, <1>9, <1>10, <1>11, PhoneShown DEF PhoneOwn

\* The last list is shown.
LEMMA PhoneShowsList ==
    ASSUME PhoneOwn, IsMobile, UNCHANGED server, IsPhone(device), NEW c \in Awaited,
           c.kind = "list", c.reply.code = "Ok", c.serial = device.serial, OfThisSession(c),
           device' = [device EXCEPT !.list = Read(c)], Awaited' \subseteq Awaited \ {c}
    PROVE  PhoneOwn' /\ KeepsOwn
  <1>1. Versions' /\ Versions
    BY DEF PhoneOwn, Versions
  <1>2. PICK n : n = device.serial
    OBVIOUS
  <1>3. /\ device'.serial = n /\ device'.generation = device.generation
        /\ device'.token = device.token /\ device'.reviewSerial = device.reviewSerial
        /\ device'["list"] = Read(c)
        /\ \A p \in {"orders", "profile", "avatar", "review", "flow"} : device'[p] = device[p]
    BY <1>2 DEF IsPhone
  <1>4. Numbered("list", n)' /\ device'["list"].version >= device["list"].version
    BY <1>1, <1>2, <1>3, NumberedShows DEF PhoneOwn
  <1>5. c.by = device.token /\ device.token # 0
    BY DEF PhoneOwn, InSession, OfSession, OfThisSession
  <1>6. InSession'
    <2>1. device'.list.by # 0
      BY <1>3, <1>5 DEF Read
    <2>2. \A x \in Awaited' : OfSession(x)'
      BY <1>3 DEF PhoneOwn, InSession, OfSession
    <2> QED
      BY <1>3, <2>1, <2>2 DEF PhoneOwn, InSession
  <1>7. OnPhone'
    BY <1>3 DEF PhoneOwn, OnPhone, LoginNow, OfReview
  <1>8. Numbered("list", device.serial)'
    BY <1>3, <1>4 DEF Numbered
  <1>9. PhoneShows(device') /\ device'.list.by = device.token
    BY <1>3, <1>5 DEF PhoneShows, Read
  <1> QED
    BY <1>1, <1>4, <1>6, <1>7, <1>8, <1>9, PhoneShown DEF PhoneOwn

\* Requests of whoever is logged in are of the session.
LEMMA FreshIsOfSession ==
    ASSUME device.generation \in Nat, device.token # 0, NEW kind, kind # "login",
           NEW e, Fresh(e, device, kind)
    PROVE  OfSession(e)
  BY DEF Fresh, OfSession, NoReply

\* The phone shows what it showed, and sends one request of a common kind.
LEMMA PhoneSendsQuietly ==
    ASSUME PhoneOwn, IsMobile, LoggedIn, UNCHANGED server, PhoneHead(device'),
           PhoneShows(device'), NEW kind, kind \notin {"login", "list", "review", "submit"},
           NEW e, Fresh(e, device, kind), Awaited' \subseteq Awaited \union {e}
    PROVE  PhoneOwn' /\ KeepsOwn
  <1> DEFINE New == {e}
  <1>1. OfSession(e) /\ e.kind = kind
    BY FreshIsOfSession DEF PhoneOwn, InSession, LoggedIn, Fresh
  <1>2. Awaited' \subseteq Awaited \union New
        /\ \A x \in New : x.kind \notin {"login", "list", "review", "submit"} /\ OfSession(x)
    BY <1>1
  <1> HIDE DEF New
  <1> QED
    BY <1>2, PhoneQuiet

LEMMA PhoneTapsOwn ==
    ASSUME PhoneOwn, IsMobile, IsPhone(device), MobileTaps \/ MobilePolls
    PROVE  PhoneOwn' /\ KeepsOwn
  <1>1. UNCHANGED server
    BY DEF MobileTaps, MobilePolls, MobileLogin, MobileSignOff, MobileOpensPage, MobileRenames,
           MobilePosts, MobileBeginsReview, MobileSubmitsReview, Taps
  <1>2. PhoneHead(device) /\ PhoneShows(device)
    BY DEF PhoneHead, PhoneShows
  <1>3. ASSUME LoggedIn, NEW kind, kind \notin {"login", "list", "review", "submit"}, NEW e,
               Fresh(e, device, kind), Sends(device, {e})
        PROVE  PhoneOwn' /\ KeepsOwn
    <2>1. device' = device /\ Awaited' \subseteq Awaited \union {e}
      BY <1>3 DEF Sends, Awaited
    <2>2. PhoneHead(device') /\ PhoneShows(device')
      BY <1>2, <2>1
    <2> QED
      BY <1>1, <1>3, <2>1, <2>2, PhoneSendsQuietly
  <1>4. CASE MobileLogin
    <2>1. PICK u, e : /\ e = [Request(device, "login") EXCEPT !.user = u]
                      /\ Sends(device, {e})
      BY <1>4 DEF MobileLogin
    <2>2. Fresh(e, device, "login") /\ e.key = 0
      BY <2>1 DEF Fresh, Request
    <2>3. ~Busy /\ device.token = 0
      BY <1>4 DEF MobileLogin, MayLogin, LoggedIn
    <2>4. device' = device /\ Awaited' \subseteq Awaited \union {e}
      BY <2>1 DEF Sends, Awaited
    <2> QED
      BY <1>1, <2>2, <2>3, <2>4, PhoneLogsIn
  <1>5. CASE MobileSignOff
    <2>1. PICK kind \in {"logout", "delete"} : Sends(device, {Request(device, kind)})
      BY <1>5 DEF MobileSignOff
    <2>2. Fresh(Request(device, kind), device, kind)
      BY FreshRequests
    <2> QED
      BY <1>3, <1>5, <2>1, <2>2 DEF MobileSignOff
  <1>6. CASE MobileOpensPage
    <2>1. LoggedIn
      BY <1>6 DEF MobileOpensPage
    <2>2. CASE \E kind \in {"orders", "profile", "active"} : Sends(device, {Load(device, kind)})
      <3>1. PICK kind \in {"orders", "profile", "active"} : Sends(device, {Load(device, kind)})
        BY <2>2
      <3>2. Fresh(Load(device, kind), device, kind)
        BY FreshRequests DEF Load
      <3> QED
        BY <1>3, <2>1, <3>1, <3>2
    <2>3. CASE \E d : d = [device EXCEPT !.serial = @ + 1] /\ Sends(d, {Load(d, "list")})
      <3>1. PICK d, e : /\ d = [device EXCEPT !.serial = @ + 1] /\ e = Load(d, "list")
                        /\ Sends(d, {e})
        BY <2>3
      <3>2. Fresh(e, d, "list") /\ e.key = 0 /\ e.serial = d.serial
        BY <3>1 DEF Fresh, Request, Load
      <3>3. /\ d.serial = device.serial + 1 /\ d.token = device.token
            /\ d.generation = device.generation /\ d.reviewSerial = device.reviewSerial
            /\ d.list = device.list
            /\ \A p \in {"orders", "profile", "avatar", "review", "flow"} : d[p] = device[p]
        BY <3>1 DEF IsPhone
      <3>4. Fresh(e, device, "list")
        BY <3>2, <3>3 DEF Fresh
      <3>5. OfSession(e)
        BY <2>1, <3>4, FreshIsOfSession DEF LoggedIn, PhoneOwn, InSession
      <3>6. device' = d /\ Awaited' \subseteq Awaited \union {e} /\ PhoneShows(d)
        BY <3>1, <3>3 DEF Sends, Awaited, PhoneShows
      <3> QED
        BY <1>1, <3>2, <3>3, <3>5, <3>6, PhoneLists DEF Fresh
    <2> QED
      BY <1>6, <2>2, <2>3 DEF MobileOpensPage
  <1>7. CASE MobileRenames
    <2>1. PICK v : Sends(device, {[Request(device, "rename") EXCEPT !.version = v]})
      BY <1>7 DEF MobileRenames
    <2>2. Fresh([Request(device, "rename") EXCEPT !.version = v], device, "rename")
      BY FreshRequests
    <2> QED
      BY <1>3, <1>7, <2>1, <2>2 DEF MobileRenames
  <1>8. CASE MobilePosts
    <2>1. PICK kind, no, version : /\ Post(kind, no, version)
                                   /\ kind \in {"recharge", "create"} \union DOMAIN From
      BY <1>8 DEF MobilePosts
    <2>2. kind \notin {"login", "list", "review", "submit"}
      BY <2>1 DEF From
    <2>3. PICK key, wish, d, e, keys, meant, following :
            /\ d = [device EXCEPT !.keys = keys, !.meant = meant, !.nextKey = following]
            /\ e = [Request(device, kind) EXCEPT !.key = key, !.intent = wish, !.no = no,
                                                 !.version = version]
            /\ Sends(d, {e})
      BY <2>1 DEF Post
    <2>4. Fresh(e, device, kind)
      BY <2>3, FreshRequests
    <2>5. PhoneHead(d) /\ PhoneShows(d)
      BY <2>3 DEF PhoneHead, PhoneShows, IsPhone
    <2>6. device' = d /\ Awaited' \subseteq Awaited \union {e}
      BY <2>3 DEF Sends, Awaited
    <2>7. LoggedIn
      BY <1>8 DEF MobilePosts
    <2> QED
      BY <1>1, <2>2, <2>4, <2>5, <2>6, <2>7, PhoneSendsQuietly
  <1>9. CASE MobileBeginsReview
    <2>1. PICK d, e, k, m : /\ d = [device EXCEPT !.reviewSerial = @ + 1, !.reviewKey = k,
                                        !.nextKey = m, !.review = Nothing,
                                        !.reviewBusy = TRUE, !.reviewed = FALSE]
                            /\ e = [Request(d, "review") EXCEPT !.serial = d.reviewSerial]
                            /\ Sends(d, {e})
      BY <1>9 DEF MobileBeginsReview
    <2>2. Fresh(e, d, "review") /\ e.serial = d.reviewSerial
      BY <2>1 DEF Fresh, Request
    <2>3. /\ d.serial = device.serial /\ d.token = device.token /\ d.list = device.list
          /\ d.generation = device.generation /\ d.reviewSerial = device.reviewSerial + 1
          /\ PhoneShows(d)
      BY <2>1 DEF IsPhone, PhoneShows, Nothing
    <2>4. Fresh(e, device, e.kind) /\ ByReview(e)
      BY <2>2, <2>3 DEF Fresh, ByReview
    <2>5. device' = d /\ Awaited' \subseteq Awaited \union {e} /\ device.token # 0
      BY <1>9, <2>1 DEF Sends, Awaited, MobileBeginsReview, LoggedIn
    <2> QED
      BY <1>1, <2>2, <2>3, <2>4, <2>5, PhoneReviewing
  <1>10. CASE MobileSubmitsReview
    <2>1. PICK d, e : /\ d = [device EXCEPT !.reviewBusy = TRUE]
                      /\ e = [Request(d, "submit") EXCEPT !.serial = d.reviewSerial,
                                 !.key = d.reviewKey, !.intent = d.reviewKey]
                      /\ Sends(d, {e})
      BY <1>10 DEF MobileSubmitsReview
    <2>2. Fresh(e, d, "submit") /\ e.serial = d.reviewSerial
      BY <2>1 DEF Fresh, Request
    <2>3. /\ d.serial = device.serial /\ d.token = device.token /\ d.list = device.list
          /\ d.generation = device.generation /\ d.reviewSerial = device.reviewSerial
          /\ PhoneShows(d)
      BY <2>1 DEF IsPhone, PhoneShows
    <2>4. Fresh(e, device, e.kind) /\ ByReview(e)
      BY <2>2, <2>3 DEF Fresh, ByReview
    <2>5. device' = d /\ Awaited' \subseteq Awaited \union {e} /\ device.token # 0
      BY <1>10, <2>1 DEF Sends, Awaited, MobileSubmitsReview, LoggedIn
    <2> QED
      BY <1>1, <2>2, <2>3, <2>4, <2>5, PhoneReviewing
  <1>11. CASE MobilePolls
    <2>1. PICK n : Sends(device, {[Request(device, "flow") EXCEPT !.no = n]})
      BY <1>11 DEF MobilePolls
    <2>2. Fresh([Request(device, "flow") EXCEPT !.no = n], device, "flow")
      BY FreshRequests
    <2> QED
      BY <1>3, <1>11, <2>1, <2>2 DEF MobilePolls
  <1> QED
    BY <1>4, <1>5, <1>6, <1>7, <1>8, <1>9, <1>10, <1>11 DEF MobileTaps

\* A reply that changes no list, and what is asked for after it.
LEMMA PhoneHandlesQuietly ==
    ASSUME PhoneOwn, IsMobile, NEW c \in Awaited, NEW d, NEW New, Handles(c, d, New),
           PhoneHead(d), PhoneShows(d), New = {} \/ (OfThisSession(c) /\ c.kind # "login"),
           \A e \in New : /\ e.kind \notin {"login", "list", "review", "submit"}
                          /\ Fresh(e, device, e.kind)
    PROVE  PhoneOwn' /\ KeepsOwn
  <1>1. device' = d /\ UNCHANGED server /\ Awaited' \subseteq Awaited \union New
    BY HandlesAwaited
  <1>2. New # {} => device.token # 0 /\ device.generation \in Nat
    BY DEF PhoneOwn, InSession, OfSession, OfThisSession
  <1>3. \A e \in New : OfSession(e)
    BY <1>2, FreshIsOfSession
  <1> QED
    BY <1>1, <1>3, PhoneQuiet

LEMMA PhoneReceivesOwn ==
    ASSUME PhoneOwn, IsMobile, IsPhone(device), NEW c \in calls, MobileReceives(c)
    PROVE  PhoneOwn' /\ KeepsOwn
  <1>1. c \in Awaited
    BY DEF MobileReceives, Awaited, GivenUp
  <1>2. PhoneHead(device) /\ PhoneShows(device)
    BY DEF PhoneHead, PhoneShows
  <1>3. OfThisSession(c) /\ c.kind # "login" => c.by = device.token /\ device.token # 0
    BY <1>1 DEF PhoneOwn, InSession, OfSession, OfThisSession
  <1>4. \A kind : Fresh(Load(device, kind), device, kind)
    BY FreshRequests DEF Load
  <1>5. ASSUME NEW d, Handles(c, d, {}), PhoneHead(d), PhoneShows(d)
        PROVE  PhoneOwn' /\ KeepsOwn
    BY <1>1, <1>5, PhoneHandlesQuietly
  <1>6. ASSUME NEW d, NEW New, Handles(c, d, New), PhoneHead(d), PhoneShows(d),
               Plain(c), OfThisSession(c), c.kind # "login",
               \A e \in New : e = Load(device, "avatar") \/ e = Load(device, "orders")
                              \/ e = Load(device, "profile") \/ e = Load(device, "active")
        PROVE  PhoneOwn' /\ KeepsOwn
    <2>1. \A e \in New : /\ e.kind \in {"avatar", "orders", "profile", "active"}
                         /\ Fresh(e, device, e.kind)
      BY <1>4, <1>6 DEF Fresh
    <2> QED
      BY <1>1, <1>6, <2>1, PhoneHandlesQuietly
  <1>7. PhoneHead(Reported(c, device)) /\ PhoneShows(Reported(c, device))
    BY DEF PhoneHead, PhoneShows, Reported, IsPhone
  <1>8. \A f : f.by \in {0, device.token} =>
          /\ PhoneHead([device EXCEPT !.flow = f]) /\ PhoneShows([device EXCEPT !.flow = f])
          /\ PhoneHead([Reported(c, device) EXCEPT !.flow = f])
          /\ PhoneShows([Reported(c, device) EXCEPT !.flow = f])
    BY DEF PhoneHead, PhoneShows, Reported, IsPhone
  <1>9. NoFlow.by = 0 /\ Nothing.by = 0 /\ Shown(c).by = c.by /\ Read(c).by = c.by
    BY DEF NoFlow, Nothing, Shown, Read
  <1>10. CASE MobileDrops(c)
    BY <1>2, <1>5, <1>10 DEF MobileDrops
  <1>11. CASE MobileEnds(c)
    <2>1. Handles(c, Cleared(device), {})
      BY <1>11 DEF MobileEnds
    <2>2. /\ device' = Cleared(device) /\ UNCHANGED server
          /\ Awaited' \subseteq Awaited
      BY <2>1, HandlesAwaited
    <2> QED
      BY <2>2, PhoneEnds
  <1>12. CASE MobileFails(c)
    BY <1>2, <1>5, <1>12 DEF MobileFails, AfterFailure
  <1>13. CASE MobileLoggedIn(c)
    <2>1. PICK d, New : /\ d = [device EXCEPT !.token = c.reply.no, !.serial = @ + 1]
                        /\ New = {Load(d, kind) : kind \in {"profile", "list", "active"}}
                        /\ Handles(c, d, New)
      BY <1>13 DEF MobileLoggedIn
    <2>2. /\ device' = d /\ UNCHANGED server /\ Awaited' \subseteq (Awaited \ {c}) \union New
      BY <2>1, HandlesAwaited
    <2>3. LoginNow(c) /\ c.reply.code = "Ok"
      BY <1>13 DEF MobileLoggedIn, Succeeded, LoginNow, OfThisSession
    <2>4. \A kind : LET e == Load(d, kind) IN
            Fresh(e, d, kind) /\ e.serial = d.serial /\ e.key = 0
      BY DEF Fresh, Request, Load
    <2>5. \A e \in New : /\ Fresh(e, d, e.kind) /\ e.kind \in {"profile", "list", "active"}
                         /\ e.serial = d.serial /\ e.key = 0 /\ e = Load(d, e.kind)
      BY <2>1, <2>4 DEF Fresh
    <2>6. \A e, f \in New : e.kind = f.kind => e = f
      <3> SUFFICES ASSUME NEW e \in New, NEW f \in New, e.kind = f.kind PROVE e = f
        OBVIOUS
      <3>1. PICK k : k = e.kind
        OBVIOUS
      <3>2. e = Load(d, k) /\ f = Load(d, k)
        BY <2>5, <3>1
      <3> QED
        BY <3>2
    <2>7. device' = [device EXCEPT !.token = c.reply.no, !.serial = @ + 1]
      BY <2>1, <2>2
    <2>8. \A e \in New : /\ Fresh(e, device', e.kind) /\ e.kind \in {"profile", "list", "active"}
                         /\ e.serial = device'.serial /\ e.key = 0
      BY <2>2, <2>5
    <2> QED
      BY ZenonT(60), <1>1, <2>2, <2>3, <2>6, <2>7, <2>8, PhoneEnters
  <1>14. CASE MobileShowsStations(c)
    <2>1. c.kind = "list" /\ OfThisSession(c) /\ c.reply.code = "Ok"
      BY <1>14 DEF MobileShowsStations, Succeeded
    <2>2. CASE c.serial = device.serial
      <3>1. Handles(c, [device EXCEPT !.list = Read(c)], {})
        BY <1>14, <2>2 DEF MobileShowsStations
      <3>2. /\ device' = [device EXCEPT !.list = Read(c)] /\ UNCHANGED server
            /\ Awaited' \subseteq Awaited \ {c}
        BY <3>1, HandlesAwaited
      <3> QED
        BY <1>1, <2>1, <2>2, <3>2, PhoneShowsList
    <2>3. CASE c.serial # device.serial
      BY <1>2, <1>5, <1>14, <2>3 DEF MobileShowsStations
    <2> QED
      BY <2>2, <2>3
  <1>15. CASE MobileShowsOrders(c)
    <2>1. Handles(c, [device EXCEPT !.orders = Read(c)], {}) /\ c.by = device.token
      BY <1>3, <1>15 DEF MobileShowsOrders, Succeeded
    <2>2. PhoneHead([device EXCEPT !.orders = Read(c)])
          /\ PhoneShows([device EXCEPT !.orders = Read(c)])
      BY <1>9, <2>1 DEF PhoneHead, PhoneShows, IsPhone
    <2> QED
      BY <1>5, <2>1, <2>2
  <1>16. CASE MobileShowsProfile(c)
    <2>1. CASE /\ Succeeded(c, {"profile"})
               /\ Handles(c, [device EXCEPT !.profile = Read(c)], {Load(device, "avatar")})
      <3>1. c.kind = "profile" /\ OfThisSession(c) /\ Plain(c) /\ c.by = device.token
        BY <1>3, <2>1 DEF Succeeded, Plain
      <3>2. PhoneHead([device EXCEPT !.profile = Read(c)])
            /\ PhoneShows([device EXCEPT !.profile = Read(c)])
        BY <1>9, <3>1 DEF PhoneHead, PhoneShows, IsPhone
      <3> QED
        BY <1>6, <2>1, <3>1, <3>2
    <2>2. CASE /\ c.kind = "avatar" /\ OfThisSession(c)
               /\ Handles(c, [device EXCEPT !.avatar = IF c.reply.code = "Ok" THEN Read(c)
                                                       ELSE Nothing], {})
      <3>1. PICK a : /\ a = (IF c.reply.code = "Ok" THEN Read(c) ELSE Nothing)
                     /\ Handles(c, [device EXCEPT !.avatar = a], {})
        BY <2>2
      <3>2. a.by \in {0, device.token}
        BY <1>3, <1>9, <2>2, <3>1
      <3>3. PhoneHead([device EXCEPT !.avatar = a]) /\ PhoneShows([device EXCEPT !.avatar = a])
        BY <3>2 DEF PhoneHead, PhoneShows, IsPhone
      <3> QED
        BY <1>5, <3>1, <3>3
    <2> QED
      BY <1>16, <2>1, <2>2 DEF MobileShowsProfile
  <1>17. CASE MobileShowsFlow(c)
    <2>1. c.by = device.token
      BY <1>3, <1>17 DEF MobileShowsFlow, Succeeded
    <2>2. PICK shown : shown = Shown(c)
      OBVIOUS
    <2>3. PICK f : f = IF c.reply.no = 0 THEN NoFlow ELSE shown
      OBVIOUS
    <2>4. NoFlow.by \in {0, device.token} /\ shown.by \in {0, device.token} /\ f.by \in {0, device.token}
      BY <1>9, <2>1, <2>2, <2>3
    <2>5. CASE Handles(c, [device EXCEPT !.flow = f], {})
      <3>1. PICK d : d = [device EXCEPT !.flow = f] /\ Handles(c, d, {})
        BY <2>5
      <3>2. PhoneHead(d) /\ PhoneShows(d)
        BY <2>4, <3>1 DEF PhoneHead, PhoneShows, IsPhone
      <3> QED
        BY <1>5, <3>1, <3>2
    <2>6. CASE \E g \in {NoFlow, shown} : Handles(c, [Reported(c, device) EXCEPT !.flow = g], {})
      <3>1. PICK g \in {NoFlow, shown} : Handles(c, [Reported(c, device) EXCEPT !.flow = g], {})
        BY <2>6
      <3>2. PICK d : d = [Reported(c, device) EXCEPT !.flow = g] /\ Handles(c, d, {})
        BY <3>1
      <3>3. PhoneHead(d) /\ PhoneShows(d)
        BY <2>4, <3>1, <3>2 DEF PhoneHead, PhoneShows, IsPhone, Reported
      <3> QED
        BY <1>5, <3>2, <3>3
    <2>7. \/ Handles(c, [device EXCEPT !.flow = f], {})
          \/ Handles(c, [Reported(c, device) EXCEPT !.flow = NoFlow], {})
          \/ Handles(c, [Reported(c, device) EXCEPT !.flow = shown], {})
      BY <1>17, <2>2, <2>3 DEF MobileShowsFlow
    <2> QED
      BY <2>5, <2>6, <2>7
  <1>18. CASE MobileSettled(c)
    <2>1. Handles(c, [Reported(c, device) EXCEPT !.flow = NoFlow],
                  {Load(device, "orders"), Load(device, "profile")})
      BY <1>18 DEF MobileSettled
    <2>2. Plain(c) /\ OfThisSession(c) /\ c.kind # "login"
      BY <1>18 DEF MobileSettled, Succeeded, Plain
    <2>3. PhoneHead([Reported(c, device) EXCEPT !.flow = NoFlow])
          /\ PhoneShows([Reported(c, device) EXCEPT !.flow = NoFlow])
      BY <1>9 DEF PhoneHead, PhoneShows, IsPhone, Reported
    <2> QED
      BY <1>6, <2>1, <2>2, <2>3
  <1>19. CASE MobilePolled(c)
    <2>1. /\ Plain(c) /\ OfThisSession(c) /\ c.kind # "login" /\ c.by = device.token
      BY <1>3, <1>19 DEF MobilePolled, Succeeded, Plain
    <2>2. CASE Handles(c, device, {})
      BY <1>2, <1>5, <2>2
    <2>3. ASSUME NEW New, Handles(c, [device EXCEPT !.flow = Shown(c)], New),
                 New = {} \/ New = {Load(device, kind) : kind \in {"active", "orders", "profile"}}
                 \/ New = {[Request(device, "progress") EXCEPT !.no = c.no]}
          PROVE  PhoneOwn' /\ KeepsOwn
      <3>1. PhoneHead([device EXCEPT !.flow = Shown(c)])
            /\ PhoneShows([device EXCEPT !.flow = Shown(c)])
        BY <1>9, <2>1 DEF PhoneHead, PhoneShows, IsPhone
      <3>2. \A e \in New : \/ e = Load(device, "active") \/ e = Load(device, "orders")
                           \/ e = Load(device, "profile")
                           \/ e = [Request(device, "progress") EXCEPT !.no = c.no]
        BY <2>3
      <3>3. Fresh([Request(device, "progress") EXCEPT !.no = c.no], device, "progress")
        BY FreshRequests
      <3>4. \A e \in New : /\ e.kind \notin {"login", "list", "review", "submit"}
                           /\ Fresh(e, device, e.kind)
        BY <1>4, <3>2, <3>3 DEF Fresh
      <3> QED
        BY <1>1, <2>1, <2>3, <3>1, <3>4, PhoneHandlesQuietly
    <2>4. CASE Handles(c, [device EXCEPT !.flow = Shown(c)],
                CASE c.kind = "flow" /\ c.reply.status >= Over ->
                        {Load(device, kind) : kind \in {"active", "orders", "profile"}}
                  [] c.kind = "flow" /\ c.reply.status = Charging ->
                        {[Request(device, "progress") EXCEPT !.no = c.no]}
                  [] OTHER -> {})
      <3>1. PICK New : New = CASE c.kind = "flow" /\ c.reply.status >= Over ->
                        {Load(device, kind) : kind \in {"active", "orders", "profile"}}
                  [] c.kind = "flow" /\ c.reply.status = Charging ->
                        {[Request(device, "progress") EXCEPT !.no = c.no]}
                  [] OTHER -> {}
        OBVIOUS
      <3>2. Handles(c, [device EXCEPT !.flow = Shown(c)], New)
        BY <2>4, <3>1
      <3>3. New = {} \/ New = {Load(device, kind) : kind \in {"active", "orders", "profile"}}
            \/ New = {[Request(device, "progress") EXCEPT !.no = c.no]}
        BY <3>1
      <3> QED
        BY <2>3, <3>2, <3>3
    <2> QED
      BY <1>19, <2>2, <2>4 DEF MobilePolled
  <1>20. CASE MobileProfileChanged(c)
    <2>1. Handles(c, Reported(c, device), {Load(device, "profile")})
      BY <1>20 DEF MobileProfileChanged
    <2>2. Plain(c) /\ OfThisSession(c) /\ c.kind # "login"
      BY <1>20 DEF MobileProfileChanged, Succeeded, Plain
    <2> QED
      BY <1>6, <1>7, <2>1, <2>2
  <1>21. CASE MobileReviewed(c)
    <2>1. c.by = device.token
      BY <1>1, <1>21 DEF MobileReviewed, PhoneOwn, OnPhone, OfReview
    <2>2. PICK d : /\ Handles(c, d, {})
                   /\ \/ d = [device EXCEPT !.reviewBusy = FALSE]
                      \/ \E x : d = [[device EXCEPT !.reviewBusy = FALSE] EXCEPT
                                        !.review = Read(c), !.reviewed = x]
      BY <1>21 DEF MobileReviewed
    <2>3. PhoneHead(d) /\ PhoneShows(d)
      BY <1>9, <2>1, <2>2 DEF PhoneHead, PhoneShows, IsPhone
    <2> QED
      BY <1>5, <2>2, <2>3
  <1> QED
    BY <1>10, <1>11, <1>12, <1>13, <1>14, <1>15, <1>16, <1>17, <1>18, <1>19, <1>20, <1>21
    DEF MobileReceives

-----------------------------------------------------------------------------
(* What the window of the users does. *)

\* The window is logged in as before, or works by itself.
DeskHead(d) ==
    /\ d.serial = device.serial /\ d.ordersSerial = device.ordersSerial
    /\ d.list = device.list /\ d.orders = device.orders
    /\ d.online => device.online /\ d.token = device.token

LEMMA DeskShown ==
    ASSUME DeskOwn, IsDesktop,
           device'["list"] # device["list"] => device'["list"].by \in {0, device.token},
           \A p \in {"list", "orders"} :
              device'[p] = device[p] \/ device'[p].version >= device[p].version
    PROVE  KeepsOwn
  <1>1. Owned = {"list"} /\ Ordered = {"list", "orders"}
    BY DEF Owned, Ordered, IsMobile, IsConsole, IsDesktop
  <1>2. device["list"].version \in Int /\ device["orders"].version \in Int
    BY DEF DeskOwn, Numbered, Versions
  <1>3. \A p \in {"list", "orders"} : device'[p].version >= device[p].version
    BY <1>2
  <1> QED
    BY <1>1, <1>3 DEF KeepsOwn

\* Neither a list nor the orders are asked for or shown.
LEMMA DeskQuiet ==
    ASSUME DeskOwn, IsDesktop, UNCHANGED server, DeskHead(device'),
           NEW New, Awaited' \subseteq Awaited \union New,
           \A e \in New : e.kind \notin {"list", "orders"}
    PROVE  DeskOwn' /\ KeepsOwn
  <1>1. Versions' /\ server.version <= server'.version /\ Versions
    BY DEF DeskOwn, Versions
  <1>2. PICK n, m : n = device.serial /\ m = device.ordersSerial
    OBVIOUS
  <1>3. /\ device'.serial = n /\ device'.ordersSerial = m
        /\ device'["list"] = device["list"] /\ device'["orders"] = device["orders"]
    BY <1>2 DEF DeskHead
  <1>4. Numbered("list", n)' /\ Numbered("orders", m)'
    BY <1>1, <1>2, <1>3, NumberedStays DEF DeskOwn
  <1>5. OnDesk'
    <2>1. \A e \in Awaited' : e.kind = "list" => e \in Awaited
      OBVIOUS
    <2> QED
      BY <2>1 DEF DeskOwn, OnDesk, LatestList, DeskHead
  <1>6. Numbered("list", device.serial)' /\ Numbered("orders", device.ordersSerial)'
    BY <1>3, <1>4 DEF Numbered
  <1> QED
    BY <1>1, <1>3, <1>5, <1>6, DeskShown DEF DeskOwn

\* A list is asked for, under the next number.
LEMMA DeskLists ==
    ASSUME DeskOwn, IsDesktop, UNCHANGED server,
           device'.serial = device.serial + 1, device'.ordersSerial = device.ordersSerial,
           device'.list = device.list, device'.orders = device.orders,
           NEW e, Awaited' \subseteq Awaited \union {e}, Fresh(e, device', "list"),
           e.serial = device.serial + 1, e.key = 0
    PROVE  DeskOwn' /\ KeepsOwn
  <1>1. Versions' /\ server.version <= server'.version /\ Versions
    BY DEF DeskOwn, Versions
  <1>2. PICK n, m : n = device.serial /\ m = device.ordersSerial
    OBVIOUS
  <1>3. /\ device'.serial = n + 1 /\ device'.ordersSerial = m /\ n \in Nat
        /\ device'["list"] = device["list"] /\ device'["orders"] = device["orders"]
    BY <1>2 DEF DeskOwn, Numbered
  <1> DEFINE New == {e}
  <1>4. /\ Awaited' \subseteq Awaited \union New
        /\ \A x \in New : x.kind # "orders"
        /\ \A x \in New : x.kind = "list" => x.serial = n + 1 /\ x.key = 0 /\ x.reply = NoReply
        /\ \A x, y \in New : x.kind = "list" /\ y.kind = "list" => x = y
    BY <1>2 DEF Fresh
  <1> HIDE DEF New
  <1>5. Numbered("list", n + 1)' /\ Numbered("orders", m)'
    BY <1>1, <1>2, <1>3, <1>4, NumberedStays, NumberedTurns DEF DeskOwn
  <1>6. OnDesk'
    <2>1. \A x \in Awaited : x.kind = "list" => x.serial \in 0..n
      BY <1>2 DEF DeskOwn, Numbered
    <2>2. ASSUME NEW x \in Awaited', x.kind = "list", LatestList(x)'
          PROVE  x.by = device'.token
      <3>1. x.serial = n + 1
        BY <1>3, <2>2 DEF LatestList
      <3>2. x = e
        BY <1>3, <2>1, <2>2, <3>1
      <3> QED
        BY <3>2 DEF Fresh
    <2> QED
      BY <2>2 DEF OnDesk
  <1>7. Numbered("list", device.serial)' /\ Numbered("orders", device.ordersSerial)'
    BY <1>3, <1>5 DEF Numbered
  <1> QED
    BY <1>1, <1>3, <1>6, <1>7, DeskShown DEF DeskOwn

LEMMA DeskOrders ==
    ASSUME DeskOwn, IsDesktop, UNCHANGED server, IsWindow(device),
           device' = [device EXCEPT !.ordersSerial = @ + 1], NEW e, Awaited' \subseteq Awaited \union {e}, Fresh(e, device, "orders"),
           e.serial = device.ordersSerial + 1, e.key = 0
    PROVE  DeskOwn' /\ KeepsOwn
  <1>1. Versions' /\ server.version <= server'.version /\ Versions
    BY DEF DeskOwn, Versions
  <1>2. PICK n, m : n = device.serial /\ m = device.ordersSerial
    OBVIOUS
  <1>3. /\ device'.serial = n /\ device'.ordersSerial = m + 1
        /\ device'["list"] = device["list"] /\ device'["orders"] = device["orders"]
        /\ device'.online => device.online /\ device'.token = device.token
    BY <1>2 DEF IsWindow
  <1> DEFINE New == {e}
  <1>4. /\ Awaited' \subseteq Awaited \union New
        /\ \A x \in New : x.kind # "list"
        /\ \A x \in New : x.kind = "orders" => x.serial = m + 1 /\ x.key = 0 /\ x.reply = NoReply
        /\ \A x, y \in New : x.kind = "orders" /\ y.kind = "orders" => x = y
    BY <1>2 DEF Fresh
  <1> HIDE DEF New
  <1>5. Numbered("list", n)' /\ Numbered("orders", m + 1)'
    <2>1. Numbered("list", n) /\ Numbered("orders", m)
      BY <1>2 DEF DeskOwn
    <2>2. Numbered("list", n)'
      BY <1>1, <1>3, <1>4, <2>1, NumberedStays
    <2>3. Numbered("orders", m + 1)'
      BY <1>1, <1>3, <1>4, <2>1, NumberedTurns
    <2> QED
      BY <2>2, <2>3
  <1>6. OnDesk'
    BY <1>2, <1>3, <1>4 DEF DeskOwn, OnDesk, LatestList
  <1>7. Numbered("list", device.serial)' /\ Numbered("orders", device.ordersSerial)'
    BY <1>3, <1>5 DEF Numbered
  <1> QED
    BY <1>1, <1>3, <1>6, <1>7, DeskShown DEF DeskOwn

\* A request waits for its second attempt, or is sent again with the token the
\* client has by now.
LEMMA DeskMoves ==
    ASSUME DeskOwn, IsDesktop, UNCHANGED <<server, device>>, NEW c \in Awaited, NEW d,
           d.kind = c.kind, d.serial = c.serial, d.key = c.key, d.by \in {c.by, device.token},
           d.reply = c.reply \/ d.reply = NoReply,
           Awaited' \subseteq (Awaited \ {c}) \union {d}
    PROVE  DeskOwn' /\ KeepsOwn
  <1>1. Versions' /\ server.version <= server'.version /\ Versions
    BY DEF DeskOwn, Versions
  <1>2. PICK n, m : n = device.serial /\ m = device.ordersSerial
    OBVIOUS
  <1>3. /\ device'.serial = n /\ device'.ordersSerial = m
        /\ device'["list"] = device["list"] /\ device'["orders"] = device["orders"]
    BY <1>2
  <1>4. d.reply.code = "Ok" => d.reply = c.reply
    BY DEF NoReply
  <1>5. Numbered("list", n)' /\ Numbered("orders", m)'
    BY <1>1, <1>2, <1>3, <1>4, NumberedMoves DEF DeskOwn
  <1>6. OnDesk'
    BY DEF DeskOwn, OnDesk, LatestList
  <1>7. Numbered("list", device.serial)' /\ Numbered("orders", device.ordersSerial)'
    BY <1>3, <1>5 DEF Numbered
  <1> QED
    BY <1>1, <1>3, <1>6, <1>7, DeskShown DEF DeskOwn

\* The last list, and the last orders, are shown.
LEMMA DeskShowsList ==
    ASSUME DeskOwn, IsDesktop, UNCHANGED server, IsWindow(device), NEW c \in Awaited,
           c.kind = "list", c.reply.code = "Ok", LatestList(c),
           device' = [device EXCEPT !.list = Read(c)], Awaited' \subseteq Awaited \ {c}
    PROVE  DeskOwn' /\ KeepsOwn
  <1>1. Versions' /\ server.version <= server'.version /\ Versions
    BY DEF DeskOwn, Versions
  <1>2. PICK n, m : n = device.serial /\ m = device.ordersSerial
    OBVIOUS
  <1>3. /\ device'.serial = n /\ device'.ordersSerial = m /\ device'.token = device.token
        /\ device'.online = device.online
        /\ device'["list"] = Read(c) /\ device'["orders"] = device["orders"]
    BY <1>2 DEF IsWindow
  <1>4. Numbered("list", n)' /\ device'["list"].version >= device["list"].version
    BY <1>1, <1>2, <1>3, NumberedShows DEF DeskOwn, LatestList
  <1>5. Numbered("orders", m)'
    <2>1. Numbered("orders", m)
      BY <1>2 DEF DeskOwn
    <2>2. Awaited' \subseteq Awaited
      OBVIOUS
    <2> QED
      BY <1>1, <1>3, <2>1, <2>2, NumberedKeeps
  <1>6. OnDesk'
    BY <1>2, <1>3 DEF DeskOwn, OnDesk, LatestList
  <1>7. Numbered("list", device.serial)' /\ Numbered("orders", device.ordersSerial)'
    BY <1>3, <1>4, <1>5 DEF Numbered
  <1>8. device'["list"].by = device.token
    BY <1>3 DEF DeskOwn, OnDesk, Read
  <1> QED
    BY <1>1, <1>3, <1>4, <1>6, <1>7, <1>8, DeskShown DEF DeskOwn

LEMMA DeskShowsTheOrders ==
    ASSUME DeskOwn, IsDesktop, UNCHANGED server, IsWindow(device), NEW c \in Awaited,
           c.kind = "orders", c.reply.code = "Ok", c.serial = device.ordersSerial,
           device' = [device EXCEPT !.orders = Read(c)], Awaited' \subseteq Awaited \ {c}
    PROVE  DeskOwn' /\ KeepsOwn
  <1>1. Versions' /\ server.version <= server'.version /\ Versions
    BY DEF DeskOwn, Versions
  <1>2. PICK n, m : n = device.serial /\ m = device.ordersSerial
    OBVIOUS
  <1>3. /\ device'.serial = n /\ device'.ordersSerial = m /\ device'.token = device.token
        /\ device'.online = device.online
        /\ device'["orders"] = Read(c) /\ device'["list"] = device["list"]
    BY <1>2 DEF IsWindow
  <1>4. Numbered("orders", m)' /\ device'["orders"].version >= device["orders"].version
    BY <1>1, <1>2, <1>3, NumberedShows DEF DeskOwn
  <1>5. Numbered("list", n)'
    <2>1. Numbered("list", n)
      BY <1>2 DEF DeskOwn
    <2>2. Awaited' \subseteq Awaited
      OBVIOUS
    <2> QED
      BY <1>1, <1>3, <2>1, <2>2, NumberedKeeps
  <1>6. OnDesk'
    BY <1>2, <1>3 DEF DeskOwn, OnDesk, LatestList
  <1>7. Numbered("list", device.serial)' /\ Numbered("orders", device.ordersSerial)'
    BY <1>3, <1>4, <1>5 DEF Numbered
  <1> QED
    BY <1>1, <1>3, <1>4, <1>6, <1>7, DeskShown DEF DeskOwn

\* The window after a step that neither asks for a list or the orders nor shows
\* them.
StillWindow(d) == IsWindow(d) /\ DeskHead(d)

LEMMA StillShows ==
    ASSUME NEW d, StillWindow(d), NEW x, NEW y, NEW z
    PROVE  /\ StillWindow([d EXCEPT !.profile = x, !.avatar = y])
           /\ StillWindow([d EXCEPT !.avatar = x])
           /\ StillWindow([d EXCEPT !.reviewBusy = x])
           /\ StillWindow([d EXCEPT !.review = x, !.reviewed = y])
           /\ StillWindow([d EXCEPT !.reviewKey = x, !.reviewBusy = y])
           /\ StillWindow([d EXCEPT !.reviewKey = x, !.nextKey = @ + 1, !.review = Nothing,
                              !.reviewBusy = y, !.reviewed = z])
  BY DEF StillWindow, IsWindow, DeskHead

LEMMA StillTurns ==
    ASSUME NEW d, StillWindow(d), NEW x
    PROVE  /\ StillWindow([d EXCEPT !.loggingIn = x]) /\ StillWindow([d EXCEPT !.polling = x])
           /\ StillWindow([d EXCEPT !.nextKey = @ + 1])
           /\ StillWindow([d EXCEPT !.asking = @ - 1, !.nextKey = @ + 1])
           /\ StillWindow([d EXCEPT !.online = FALSE, !.inside = TRUE])
           /\ StillWindow([d EXCEPT !.token = 0, !.online = FALSE, !.inside = FALSE])
  BY DEF StillWindow, IsWindow, DeskHead

LEMMA StillShowsFlow ==
    ASSUME NEW d, StillWindow(d), NEW x
    PROVE  /\ StillWindow([d EXCEPT !.flow = x, !.charging = FALSE, !.inside = TRUE])
           /\ StillWindow([d EXCEPT !.flow.status = x, !.charging = TRUE])
           /\ StillWindow(PollEnds(d)) /\ StillWindow(Forgotten(d))
  BY DEF StillWindow, IsWindow, DeskHead, PollEnds, Forgotten

LEMMA StillRestored ==
    ASSUME NEW c, NEW d, StillWindow(d)
    PROVE  StillWindow(Restored(c, d))
  <1>1. PICK shown : shown = [d EXCEPT !.flow = Shown(c)]
    OBVIOUS
  <1>2. StillWindow(shown)
    BY <1>1 DEF StillWindow, IsWindow, DeskHead
  <1>3. PICK paged : paged = [shown EXCEPT !.inside = TRUE]
    OBVIOUS
  <1>4. StillWindow(paged)
    BY <1>2, <1>3 DEF StillWindow, IsWindow, DeskHead
  <1>5. /\ StillWindow([shown EXCEPT !.asking = @ + 1])
        /\ StillWindow([paged EXCEPT !.charging = TRUE])
        /\ StillWindow([paged EXCEPT !.charging = FALSE])
        /\ StillWindow([paged EXCEPT !.flow.no = 0])
    BY <1>2, <1>4 DEF StillWindow, IsWindow, DeskHead
  <1>6. \/ Restored(c, d) = [shown EXCEPT !.asking = @ + 1]
        \/ Restored(c, d) = [paged EXCEPT !.charging = TRUE]
        \/ Restored(c, d) = [paged EXCEPT !.charging = FALSE]
        \/ Restored(c, d) = [paged EXCEPT !.flow.no = 0]
    BY <1>1, <1>3 DEF Restored
  <1> QED
    BY <1>5, <1>6

LEMMA DeskSendsQuietly ==
    ASSUME DeskOwn, IsDesktop, UNCHANGED server, NEW d, StillWindow(d),
           NEW kind, kind \notin {"list", "orders"}, NEW e, e.kind = kind, Sends(d, {e})
    PROVE  DeskOwn' /\ KeepsOwn
  <1> DEFINE New == {e}
  <1>1. device' = d /\ Awaited' \subseteq Awaited \union New
    BY SendsAwaited
  <1>2. \A x \in New : x.kind \notin {"list", "orders"}
    OBVIOUS
  <1>3. DeskHead(device')
    BY <1>1 DEF StillWindow
  <1> HIDE DEF New
  <1> QED
    BY <1>1, <1>2, <1>3, DeskQuiet

LEMMA DeskTapsOwn ==
    ASSUME DeskOwn, IsDesktop, IsWindow(device), DesktopTaps \/ DesktopPolls
    PROVE  DeskOwn' /\ KeepsOwn
  <1>1. UNCHANGED server
    BY DEF DesktopTaps, DesktopPolls, DesktopLogin, DesktopSignOff, DesktopOpensPage,
           DesktopPosts, DesktopBegins, DesktopAnswers, DesktopOpensReview, DesktopInReview, Taps
  <1>2. StillWindow(device)
    BY DEF StillWindow, DeskHead
  <1>3. ASSUME NEW d, StillWindow(d), NEW kind, kind \notin {"list", "orders"}, NEW e,
               Fresh(e, device, kind), Sends(d, {e})
        PROVE  DeskOwn' /\ KeepsOwn
    BY <1>1, <1>3, DeskSendsQuietly DEF Fresh
  <1>4. CASE DesktopLogin
    <2>1. PICK u : Sends([device EXCEPT !.loggingIn = TRUE],
                         {[Request(device, "login") EXCEPT !.user = u]})
      BY <1>4 DEF DesktopLogin
    <2>2. StillWindow([device EXCEPT !.loggingIn = TRUE])
      BY <1>2, StillTurns
    <2>3. Fresh([Request(device, "login") EXCEPT !.user = u], device, "login")
      BY FreshRequests
    <2> QED
      BY <1>3, <2>1, <2>2, <2>3
  <1>5. CASE DesktopSignOff
    <2>1. PICK kind \in {"logout", "delete"} : Sends(device, {Request(device, kind)})
      BY <1>5 DEF DesktopSignOff
    <2>2. Fresh(Request(device, kind), device, kind)
      BY FreshRequests
    <2> QED
      BY <1>2, <1>3, <2>1, <2>2
  <1>6. CASE DesktopOpensPage
    <2>1. CASE Sends([device EXCEPT !.serial = @ + 1],
                     {[Request(device, "list") EXCEPT !.serial = device.serial + 1]})
      <3>1. PICK d, e : /\ d = [device EXCEPT !.serial = @ + 1] /\ Sends(d, {e})
                        /\ e = [Request(device, "list") EXCEPT !.serial = device.serial + 1]
        BY <2>1
      <3>2. Fresh(e, device, "list") /\ e.key = 0 /\ e.serial = device.serial + 1
        BY <3>1 DEF Fresh, Request
      <3>3. /\ d.serial = device.serial + 1 /\ d.ordersSerial = device.ordersSerial
            /\ d.list = device.list /\ d.orders = device.orders
            /\ d.token = device.token /\ d.generation = device.generation
        BY <3>1 DEF IsWindow
      <3>4. device' = d /\ Awaited' \subseteq Awaited \union {e} /\ Fresh(e, d, "list")
        BY <3>1, <3>2, <3>3, SendsAwaited DEF Fresh
      <3> QED
        BY <1>1, <3>2, <3>3, <3>4, DeskLists
    <2>2. CASE Sends([device EXCEPT !.ordersSerial = @ + 1],
                     {[Request(device, "orders") EXCEPT !.serial = device.ordersSerial + 1]})
      <3>1. PICK d, e : /\ d = [device EXCEPT !.ordersSerial = @ + 1] /\ Sends(d, {e})
                        /\ e = [Request(device, "orders") EXCEPT !.serial = device.ordersSerial + 1]
        BY <2>2
      <3>2. Fresh(e, device, "orders") /\ e.key = 0 /\ e.serial = device.ordersSerial + 1
        BY <3>1 DEF Fresh, Request
      <3>3. device' = d /\ Awaited' \subseteq Awaited \union {e}
        BY <3>1, SendsAwaited
      <3> QED
        BY <1>1, <3>1, <3>2, <3>3, DeskOrders
    <2>3. CASE Sends(device, {Request(device, "profile")})
      BY <1>2, <1>3, <2>3, FreshRequests
    <2>4. CASE Sends(device, {[Request(device, "rename") EXCEPT !.version = device.profile.version]})
      <3>1. Fresh([Request(device, "rename") EXCEPT !.version = device.profile.version],
                  device, "rename")
        BY FreshRequests
      <3> QED
        BY <1>2, <1>3, <2>4, <3>1
    <2> QED
      BY <1>6, <2>1, <2>2, <2>3, <2>4 DEF DesktopOpensPage
  <1>7. \A kind : Fresh(Keyed(kind), device, kind) /\ Fresh(OfFlow(kind), device, kind)
    <2> SUFFICES ASSUME NEW kind
                 PROVE  Fresh(Keyed(kind), device, kind) /\ Fresh(OfFlow(kind), device, kind)
      OBVIOUS
    <2>1. PICK k, no, version : k = device.nextKey /\ no = device.flow.no /\ version = device.flow.status
      OBVIOUS
    <2>2. Fresh([Request(device, kind) EXCEPT !.key = k, !.intent = k], device, kind)
      BY FreshRequests
    <2>3. Keyed(kind) = [Request(device, kind) EXCEPT !.key = k, !.intent = k]
      BY <2>1 DEF Keyed
    <2>4. OfFlow(kind) = [Keyed(kind) EXCEPT !.no = no, !.version = version]
      BY <2>1 DEF OfFlow
    <2> QED
      BY <2>2, <2>3, <2>4 DEF Fresh
  <1>8. CASE DesktopPosts
    <2>1. PICK d, e, kind : /\ d = [device EXCEPT !.nextKey = @ + 1] /\ Sends(d, {e})
                            /\ e = Keyed(kind) \/ e = OfFlow(kind)
                            /\ kind \in {"recharge", "start", "cancel", "settle"}
      BY <1>8 DEF DesktopPosts
    <2>2. StillWindow(d)
      BY <1>2, <2>1, StillTurns
    <2> QED
      BY <1>3, <1>7, <2>1, <2>2
  <1>9. CASE DesktopBegins
    <2>1. Fresh(Request(device, "ask"), device, "ask")
      BY FreshRequests
    <2> QED
      BY <1>2, <1>3, <1>9, <2>1 DEF DesktopBegins
  <1>10. CASE DesktopAnswers
    <2>1. PICK d, kind :
                /\ kind \in {"confirm", "decline"}
                /\ d = [device EXCEPT !.asking = @ - 1, !.nextKey = @ + 1]
                /\ Sends(d, {OfFlow(kind)})
      BY <1>10 DEF DesktopAnswers
    <2>2. StillWindow(d)
      BY <1>2, <2>1, StillTurns
    <2> QED
      BY <1>3, <1>7, <2>1, <2>2
  <1>11. CASE DesktopOpensReview
    <2>1. PICK d, e : /\ d = [device EXCEPT !.reviewKey = device.nextKey, !.nextKey = @ + 1,
                                 !.review = Nothing, !.reviewBusy = TRUE, !.reviewed = FALSE]
                      /\ e = [Request(device, "review") EXCEPT !.serial = device.nextKey]
                      /\ Sends(d, {e})
      BY <1>11 DEF DesktopOpensReview
    <2>2. StillWindow(d)
      BY <1>2, <2>1, StillShows
    <2>3. Fresh(e, device, "review")
      BY <2>1, FreshRequests
    <2> QED
      BY <1>3, <2>1, <2>2, <2>3
  <1>12. CASE DesktopInReview
    <2>1. StillWindow([device EXCEPT !.reviewBusy = TRUE])
          /\ StillWindow([device EXCEPT !.reviewKey = 0, !.reviewBusy = FALSE])
      BY <1>2, StillShows
    <2>2. CASE Sends([device EXCEPT !.reviewBusy = TRUE],
                     {[Request(device, "submit") EXCEPT !.serial = device.reviewKey,
                          !.key = device.reviewKey, !.intent = device.reviewKey]})
      <3>1. Fresh([Request(device, "submit") EXCEPT !.serial = device.reviewKey,
                      !.key = device.reviewKey, !.intent = device.reviewKey], device, "submit")
        BY FreshRequests
      <3> QED
        BY <1>3, <2>1, <2>2, <3>1
    <2>3. CASE Sends([device EXCEPT !.reviewBusy = TRUE],
                     {[Request(device, "review") EXCEPT !.serial = device.reviewKey]})
      <3>1. Fresh([Request(device, "review") EXCEPT !.serial = device.reviewKey], device, "review")
        BY FreshRequests
      <3> QED
        BY <1>3, <2>1, <2>3, <3>1
    <2>4. CASE Sends([device EXCEPT !.reviewKey = 0, !.reviewBusy = FALSE], {})
      <3>1. PICK New : New = {}
        OBVIOUS
      <3>2. /\ device' = [device EXCEPT !.reviewKey = 0, !.reviewBusy = FALSE]
            /\ Awaited' \subseteq Awaited \union New
        BY <2>4, <3>1, SendsAwaited
      <3>3. DeskHead(device') /\ \A e \in New : e.kind \notin {"list", "orders"}
        BY <2>1, <3>1, <3>2 DEF StillWindow
      <3> QED
        BY <1>1, <3>2, <3>3, DeskQuiet
    <2> QED
      BY <1>12, <2>2, <2>3, <2>4 DEF DesktopInReview
  <1>13. CASE DesktopPolls
    <2>1. PICK kind, n :
            /\ kind = (IF device.charging THEN "progress" ELSE "flow") /\ n = device.flow.no
            /\ Sends([device EXCEPT !.polling = TRUE], {[Request(device, kind) EXCEPT !.no = n]})
      BY <1>13 DEF DesktopPolls
    <2>a. kind \in {"progress", "flow"}
      BY <2>1
    <2>2. StillWindow([device EXCEPT !.polling = TRUE])
      BY <1>2, StillTurns
    <2>3. Fresh([Request(device, kind) EXCEPT !.no = n], device, kind)
      BY FreshRequests
    <2> QED
      BY <1>3, <2>1, <2>a, <2>2, <2>3
  <1> QED
    BY <1>4, <1>5, <1>6, <1>8, <1>9, <1>10, <1>11, <1>12, <1>13 DEF DesktopTaps

LEMMA DeskReceivesOwn ==
    ASSUME DeskOwn, IsDesktop, IsWindow(device), NEW c \in calls, DesktopReceives(c)
    PROVE  DeskOwn' /\ KeepsOwn
  <1>1. c \in Awaited /\ StillWindow(device)
    BY DEF DesktopReceives, Awaited, GivenUp, StillWindow, DeskHead
  <1>2. ASSUME NEW d, StillWindow(d), NEW New, Handles(c, d, New),
               \A e \in New : e.kind \notin {"list", "orders"}
        PROVE  DeskOwn' /\ KeepsOwn
    <2>1. device' = d /\ UNCHANGED server /\ Awaited' \subseteq Awaited \union New
      BY <1>2, HandlesAwaited
    <2>2. DeskHead(device')
      BY <1>2, <2>1 DEF StillWindow
    <2> QED
      BY <1>2, <2>1, <2>2, DeskQuiet
  <1>3. ASSUME NEW d, StillWindow(d), Handles(c, d, {})
        PROVE  DeskOwn' /\ KeepsOwn
    <2>1. PICK New : New = {}
      OBVIOUS
    <2> QED
      BY <1>2, <1>3, <2>1
  <1>4. ASSUME NEW d, StillWindow(d), NEW kind, kind \notin {"list", "orders"}, NEW e,
               Fresh(e, device, kind), Handles(c, d, {e})
        PROVE  DeskOwn' /\ KeepsOwn
    <2>1. PICK New : New = {e}
      OBVIOUS
    <2>2. \A x \in New : x.kind \notin {"list", "orders"}
      BY <1>4, <2>1 DEF Fresh
    <2> QED
      BY <1>2, <1>4, <2>1, <2>2
  <1>5. CASE DesktopLoggedIn(c)
    <2>1. PICK d : d = [device EXCEPT !.loggingIn = FALSE]
      OBVIOUS
    <2>2. StillWindow(d) /\ StillWindow([d EXCEPT !.online = FALSE, !.inside = TRUE])
      BY <1>1, <2>1, StillTurns
    <2>3. PICK home : home = [d EXCEPT !.token = c.reply.no, !.online = TRUE, !.inside = TRUE,
                                       !.serial = @ + 1]
      OBVIOUS
    <2>4. CASE Handles(c, home, {[Request(home, "list") EXCEPT !.serial = home.serial]})
      <3>1. PICK e : /\ e = [Request(home, "list") EXCEPT !.serial = home.serial]
                     /\ Handles(c, home, {e})
        BY <2>4
      <3>2. Fresh(e, home, "list") /\ e.key = 0 /\ e.serial = home.serial
        BY <3>1 DEF Fresh, Request
      <3>3. /\ home.serial = device.serial + 1 /\ home.ordersSerial = device.ordersSerial
            /\ home.list = device.list /\ home.orders = device.orders
        BY <2>2, <2>3 DEF StillWindow, IsWindow, DeskHead
      <3>4. device' = home /\ UNCHANGED server /\ Awaited' \subseteq Awaited \union {e}
        BY <3>1, HandlesAwaited
      <3> QED
        BY <3>2, <3>3, <3>4, DeskLists
    <2>5. \/ Handles(c, home, {[Request(home, "list") EXCEPT !.serial = home.serial]})
          \/ Handles(c, d, {})
          \/ Handles(c, [d EXCEPT !.online = FALSE, !.inside = TRUE], {})
      BY <1>5, <2>1, <2>3 DEF DesktopLoggedIn
    <2> QED
      BY <1>3, <2>2, <2>4, <2>5
  <1>6. CASE DesktopEnds(c)
    <2>1. StillWindow([device EXCEPT !.token = 0, !.online = FALSE, !.inside = FALSE])
      BY <1>1, StillTurns
    <2> QED
      BY <1>3, <1>6, <2>1 DEF DesktopEnds
  <1>7. CASE DesktopFails(c)
    <2>1. PICK d : Handles(c, d, {}) /\ (d = device \/ d = Forgotten(device) \/ d = PollEnds(device))
      BY <1>7 DEF DesktopFails
    <2>2. StillWindow(d)
      BY <1>1, <2>1, StillShowsFlow
    <2> QED
      BY <1>3, <2>1, <2>2
  <1>8. CASE DesktopShowsStations(c)
    <2>1. c.kind = "list" /\ c.reply.code = "Ok"
      BY <1>8 DEF DesktopShowsStations, Answer
    <2>2. CASE LatestList(c)
      <3>1. Handles(c, [device EXCEPT !.list = Read(c)], {})
        BY <1>8, <2>2 DEF DesktopShowsStations
      <3>2. /\ device' = [device EXCEPT !.list = Read(c)] /\ UNCHANGED server
            /\ Awaited' \subseteq Awaited \ {c}
        BY <3>1, HandlesAwaited
      <3> QED
        BY <1>1, <2>1, <2>2, <3>2, DeskShowsList
    <2>3. CASE ~LatestList(c)
      BY <1>1, <1>3, <1>8, <2>3 DEF DesktopShowsStations
    <2> QED
      BY <2>2, <2>3
  <1>9. CASE DesktopShowsOrders(c)
    <2>1. c.kind = "orders" /\ c.reply.code = "Ok"
      BY <1>9 DEF DesktopShowsOrders, Answer
    <2>2. CASE c.serial = device.ordersSerial
      <3>1. Handles(c, [device EXCEPT !.orders = Read(c)], {})
        BY <1>9, <2>2 DEF DesktopShowsOrders
      <3>2. /\ device' = [device EXCEPT !.orders = Read(c)] /\ UNCHANGED server
            /\ Awaited' \subseteq Awaited \ {c}
        BY <3>1, HandlesAwaited
      <3> QED
        BY <1>1, <2>1, <2>2, <3>2, DeskShowsTheOrders
    <2>3. CASE c.serial # device.ordersSerial
      BY <1>1, <1>3, <1>9, <2>3 DEF DesktopShowsOrders
    <2> QED
      BY <2>2, <2>3
  <1>10. CASE DesktopShowsProfile(c)
    <2>1. /\ StillWindow([device EXCEPT !.profile = Read(c), !.avatar = Nothing])
          /\ StillWindow([device EXCEPT !.avatar = Read(c)])
          /\ Fresh(Request(device, "avatar"), device, "avatar")
      BY <1>1, StillShows, FreshRequests
    <2> QED
      BY <1>3, <1>4, <1>10, <2>1 DEF DesktopShowsProfile
  <1>11. CASE DesktopProfileChanged(c)
    <2>1. Fresh(Request(device, "profile"), device, "profile")
      BY FreshRequests
    <2> QED
      BY <1>1, <1>4, <1>11, <2>1 DEF DesktopProfileChanged
  <1>12. CASE DesktopAsked(c)
    <2>1. CASE Handles(c, Restored(c, device), {})
      BY <1>1, <1>3, <2>1, StillRestored
    <2>2. CASE Handles(c, [device EXCEPT !.nextKey = @ + 1], {Keyed("create")})
      <3>1. StillWindow([device EXCEPT !.nextKey = @ + 1])
        BY <1>1, StillTurns
      <3>2. Fresh(Keyed("create"), device, "create")
        BY FreshRequests DEF Keyed
      <3> QED
        BY <1>4, <2>2, <3>1, <3>2
    <2> QED
      BY <1>12, <2>1, <2>2 DEF DesktopAsked
  <1>13. CASE DesktopShowsFlow(c)
    <2>1. /\ \A x : StillWindow([device EXCEPT !.flow = x, !.charging = FALSE, !.inside = TRUE])
          /\ \A x : StillWindow([device EXCEPT !.flow.status = x, !.charging = TRUE])
          /\ StillWindow(Forgotten(device))
      BY <1>1, StillShowsFlow
    <2>2. \/ \E x : Handles(c, [device EXCEPT !.flow = x, !.charging = FALSE, !.inside = TRUE], {})
          \/ \E x : Handles(c, [device EXCEPT !.flow.status = x, !.charging = TRUE], {})
          \/ Handles(c, Forgotten(device), {})
      BY <1>13 DEF DesktopShowsFlow
    <2> QED
      BY <1>3, <2>1, <2>2
  <1>14. CASE DesktopPolled(c)
    <2>1. PICK d : d = PollEnds(device)
      OBVIOUS
    <2>2. Handles(c, Restored(c, d), {}) \/ Handles(c, d, {})
      BY <1>14, <2>1 DEF DesktopPolled
    <2>3. StillWindow(d)
      BY <1>1, <2>1, StillShowsFlow
    <2> QED
      BY <1>3, <2>2, <2>3, StillRestored
  <1>15. CASE DesktopReviewed(c)
    <2>1. PICK d : d = [device EXCEPT !.reviewBusy = FALSE]
      OBVIOUS
    <2>2. \/ Handles(c, device, {})
          \/ Handles(c, device, {[Request(device, "review") EXCEPT !.serial = c.serial]})
          \/ Handles(c, d, {})
          \/ \E x, y : Handles(c, [d EXCEPT !.review = x, !.reviewed = y], {})
      BY <1>15, <2>1 DEF DesktopReviewed
    <2>3. StillWindow(d)
      BY <1>1, <2>1, StillShows
    <2>4. \A x, y : StillWindow([d EXCEPT !.review = x, !.reviewed = y])
      BY <2>3, StillShows
    <2>5. Fresh([Request(device, "review") EXCEPT !.serial = c.serial], device, "review")
      BY FreshRequests
    <2> QED
      BY <1>1, <1>3, <1>4, <2>2, <2>3, <2>4, <2>5
  <1> QED
    BY <1>5, <1>6, <1>7, <1>8, <1>9, <1>10, <1>11, <1>12, <1>13, <1>14, <1>15
    DEF DesktopReceives

LEMMA DeskRepeatsOwn ==
    ASSUME DeskOwn, IsDesktop, NEW c \in calls, IsCall(c), DesktopPauses(c) \/ DesktopSendsAgain(c)
    PROVE  DeskOwn' /\ KeepsOwn
  <1>1. c \in Awaited
    BY DEF DesktopPauses, DesktopSendsAgain, Awaited, GivenUp
  <1>2. PICK d : /\ d = [c EXCEPT !.at = "Pausing", !.reply = NoReply] \/ d = Again(c)
                 /\ Handles(c, device, {d})
    BY DEF DesktopPauses, DesktopSendsAgain
  <1>3. /\ d.kind = c.kind /\ d.serial = c.serial /\ d.key = c.key
        /\ d.by \in {c.by, device.token} /\ (d.reply = c.reply \/ d.reply = NoReply)
    BY <1>2 DEF IsCall, Again
  <1>4. UNCHANGED <<server, device>> /\ Awaited' \subseteq (Awaited \ {c}) \union {d}
    BY <1>2, HandlesAwaited
  <1> QED
    BY <1>1, <1>3, <1>4, DeskMoves

-----------------------------------------------------------------------------
(* What the console does. *)

\* The console shows the list it showed, in the session it was in.
ConsoleHead(d) ==
    /\ d.token = device.token /\ d.generation = device.generation
    /\ d.serial = device.serial /\ d.list = device.list
    /\ d.catalog = device.catalog \/ d.catalog.by \in {0, device.token}
StillConsole(d) == IsConsoleWindow(d) /\ ConsoleHead(d)

\* The page is turned: its list is to come.
TurnedConsole(d) ==
    /\ IsConsoleWindow(d) /\ d.token = device.token /\ d.generation = device.generation
    /\ d.serial = device.serial + 1 /\ d.list = Nothing
    /\ d.catalog = device.catalog \/ d.catalog.by \in {0, device.token}

LEMMA ConsoleShown ==
    ASSUME ConsoleOwn, IsConsole,
           device'.catalog = device.catalog \/ device'.catalog.by \in {0, device.token},
           \/ device'.list = device.list \/ device'.list = Nothing
           \/ device'.list.by = device.token /\ device'.list.version >= device.list.version
    PROVE  KeepsOwn
  <1>1. Owned = {"list", "catalog"} /\ Ordered = {"list"}
    BY DEF Owned, Ordered, IsMobile, IsConsole, IsDesktop
  <1>2. device.list.version \in Int
    BY DEF ConsoleOwn, Numbered, Versions
  <1>3. device'.list # device.list => device'.list.by \in {0, device.token}
    BY DEF Nothing
  <1>4. device'.list.by = device.list.by => device'.list.version >= device.list.version
    <2>1. CASE device'.list = device.list
      BY <1>2, <2>1
    <2>2. CASE device'.list = Nothing /\ device.list.by = 0
      <3>1. device.list = Nothing
        BY <2>2 DEF ConsoleOwn, InSession
      <3> QED
        BY <1>2, <2>2, <3>1
    <2> QED
      BY <2>1, <2>2 DEF Nothing
  <1> QED
    BY <1>1, <1>3, <1>4 DEF KeepsOwn

\* No list is asked for or shown.
LEMMA ConsoleQuiet ==
    ASSUME ConsoleOwn, IsConsole, UNCHANGED server, ConsoleHead(device'),
           NEW New, Awaited' \subseteq Awaited \union New,
           \A e \in New : e.kind # "list" /\ OfSession(e)
    PROVE  ConsoleOwn' /\ KeepsOwn
  <1>1. Versions' /\ server.version <= server'.version /\ Versions
    BY DEF ConsoleOwn, Versions
  <1>2. PICK n : n = device.serial
    OBVIOUS
  <1>3. device'.serial = n /\ device'["list"] = device["list"]
    BY <1>2 DEF ConsoleHead
  <1>4. Numbered("list", n)'
    BY <1>1, <1>2, <1>3, NumberedStays DEF ConsoleOwn
  <1>5. InSession'
    <2>1. \A e \in Awaited' : OfSession(e)
      BY DEF ConsoleOwn, InSession
    <2>2. \A e \in Awaited' : OfSession(e)'
      BY <2>1 DEF OfSession, ConsoleHead
    <2> QED
      BY <2>2 DEF ConsoleOwn, InSession, ConsoleHead
  <1>6. Numbered("list", device.serial)'
    BY <1>3, <1>4 DEF Numbered
  <1> QED
    BY <1>1, <1>5, <1>6, ConsoleShown DEF ConsoleOwn, ConsoleHead

\* The page is turned, and its list asked for under the next number.
LEMMA ConsoleTurnsPage ==
    ASSUME ConsoleOwn, IsConsole, UNCHANGED server, TurnedConsole(device'),
           NEW New, Awaited' \subseteq Awaited \union New, \A e \in New : OfSession(e),
           \A e \in New : e.kind = "list" =>
              e.serial = device.serial + 1 /\ e.key = 0 /\ e.reply = NoReply,
           \A e, f \in New : e.kind = "list" /\ f.kind = "list" => e = f
    PROVE  ConsoleOwn' /\ KeepsOwn
  <1>1. Versions' /\ Versions
    BY DEF ConsoleOwn, Versions
  <1>2. PICK n : n = device.serial
    OBVIOUS
  <1>3. device'.serial = n + 1 /\ device'["list"] = Nothing
    BY <1>2 DEF TurnedConsole
  <1>4. Numbered("list", n + 1)'
    BY <1>1, <1>2, <1>3, NumberedTurns DEF ConsoleOwn
  <1>5. InSession'
    <2>1. \A e \in Awaited' : OfSession(e)
      BY DEF ConsoleOwn, InSession
    <2>2. \A e \in Awaited' : OfSession(e)'
      BY <2>1 DEF OfSession, TurnedConsole
    <2> QED
      BY <2>2 DEF ConsoleOwn, InSession, TurnedConsole
  <1>6. Numbered("list", device.serial)'
    BY <1>3, <1>4 DEF Numbered
  <1> QED
    BY <1>1, <1>5, <1>6, ConsoleShown DEF ConsoleOwn, TurnedConsole

\* Another session begins, or none: nothing under way is of it.
LEMMA ConsoleAnew ==
    ASSUME ConsoleOwn, IsConsole, UNCHANGED server,
           device'.generation = device.generation + 1, device'.serial = device.serial + 1,
           device'.list = Nothing, device'.catalog = Nothing \/ device'.catalog = device.catalog,
           NEW New, Awaited' \subseteq Awaited \union New,
           \A e \in New : /\ Fresh(e, device', e.kind) /\ e.kind # "login" /\ device'.token # 0
                          /\ e.kind = "list" => e.serial = device.serial + 1 /\ e.key = 0,
           \A e, f \in New : e.kind = "list" /\ f.kind = "list" => e = f
    PROVE  ConsoleOwn' /\ KeepsOwn
  <1>1. Versions' /\ Versions
    BY DEF ConsoleOwn, Versions
  <1>2. PICK n, g : n = device.serial /\ g = device.generation
    OBVIOUS
  <1>3. /\ device'.serial = n + 1 /\ device'.generation = g + 1 /\ g \in Nat
        /\ device'["list"] = Nothing
    BY <1>2 DEF ConsoleOwn, InSession
  <1>4. Numbered("list", n + 1)'
    <2>1. \A e \in New : e.kind = "list" => e.serial = n + 1 /\ e.key = 0 /\ e.reply = NoReply
      BY <1>2 DEF Fresh
    <2> QED
      BY <1>1, <1>2, <1>3, <2>1, NumberedTurns DEF ConsoleOwn
  <1>5. InSession'
    <2>1. \A e \in Awaited : OfSession(e)'
      BY <1>2, <1>3 DEF ConsoleOwn, InSession, OfSession
    <2>2. \A e \in New : OfSession(e)'
      BY <1>3 DEF Fresh, OfSession, NoReply
    <2> QED
      BY <1>3, <2>1, <2>2 DEF InSession
  <1>6. Numbered("list", device.serial)'
    BY <1>3, <1>4 DEF Numbered
  <1>7. device'.catalog = device.catalog \/ device'.catalog.by \in {0, device.token}
    BY DEF Nothing
  <1> QED
    BY <1>1, <1>5, <1>6, <1>7, ConsoleShown DEF ConsoleOwn

LEMMA AbortAwaited ==
    ASSUME \A c \in calls : IsCall(c), NEW New, calls' \subseteq AfterAbort \union New
    PROVE  Awaited' \subseteq Awaited \union New
  <1>1. ASSUME NEW c \in calls, NEW d \in Remains(c)
        PROVE  GivenUp(d)
    BY DEF Remains, GivenUp, IsCall
  <1>2. \A d \in AfterAbort : d \in calls \/ GivenUp(d)
    BY <1>1 DEF AfterAbort, Awaited
  <1> QED
    BY <1>2 DEF Awaited

\* The last list is shown.
LEMMA ConsoleShowsList ==
    ASSUME ConsoleOwn, IsConsole, UNCHANGED server, IsConsoleWindow(device), NEW c \in Awaited,
           c.kind = "list", c.reply.code = "Ok", Newest(c), c.generation = device.generation,
           device' = [device EXCEPT !.list = Read(c)], Awaited' \subseteq Awaited \ {c}
    PROVE  ConsoleOwn' /\ KeepsOwn
  <1>1. Versions' /\ Versions
    BY DEF ConsoleOwn, Versions
  <1>2. PICK n : n = device.serial
    OBVIOUS
  <1>3. /\ device'.serial = n /\ device'.generation = device.generation
        /\ device'.token = device.token /\ device'.catalog = device.catalog
        /\ device'["list"] = Read(c)
    BY <1>2 DEF IsConsoleWindow
  <1>4. Numbered("list", n)' /\ device'["list"].version >= device["list"].version
    BY <1>1, <1>2, <1>3, NumberedShows DEF ConsoleOwn, Newest
  <1>5. c.by = device.token /\ device.token # 0
    BY DEF ConsoleOwn, InSession, OfSession
  <1>6. InSession'
    <2>1. device'.list.by # 0
      BY <1>3, <1>5 DEF Read
    <2>2. \A x \in Awaited' : OfSession(x)'
      BY <1>3 DEF ConsoleOwn, InSession, OfSession
    <2> QED
      BY <1>3, <2>1, <2>2 DEF ConsoleOwn, InSession
  <1>7. Numbered("list", device.serial)'
    BY <1>3, <1>4 DEF Numbered
  <1>8. device'.list.by = device.token
    BY <1>3, <1>5 DEF Read
  <1> QED
    BY <1>1, <1>3, <1>4, <1>6, <1>7, <1>8, ConsoleShown DEF ConsoleOwn

LEMMA StillConsoles ==
    ASSUME NEW d, StillConsole(d), NEW x
    PROVE  /\ StillConsole([d EXCEPT !.loggingIn = x]) /\ StillConsole([d EXCEPT !.busy = x])
           /\ StillConsole([d EXCEPT !.proven = x]) /\ StillConsole([d EXCEPT !.nextKey = @ + 1])
           /\ StillConsole([d EXCEPT !.busy = x, !.nextKey = @ + 1])
           /\ StillConsole([d EXCEPT !.proven = x, !.nextKey = @ + 1])
           /\ StillConsole(Rest(d)) /\ StillConsole(Asked(d))
           /\ StillConsole([d EXCEPT !.catalog = Nothing])
           /\ x.by = device.token =>
                StillConsole([d EXCEPT !.catalogLoading = FALSE, !.catalog = x])
           /\ StillConsole([d EXCEPT !.catalogLoading = FALSE])
           /\ TurnedConsole(Turned(d))
  BY DEF StillConsole, TurnedConsole, IsConsoleWindow, ConsoleHead, Rest, Asked, Turned, Nothing

\* The requests for a list and for the catalogue.
LEMMA ListsAreFresh ==
    ASSUME NEW d
    PROVE  /\ \A e \in ListOf(d) : Fresh(e, d, "list") /\ e.serial = d.serial /\ e.key = 0
           /\ \A e \in CatalogOf(d) : Fresh(e, d, "catalog")
           /\ \A e, f \in ListOf(d) : e = f
  <1>1. PICK list, catalog : /\ list = [Request(d, "list") EXCEPT !.serial = d.serial]
                             /\ catalog = [Request(d, "catalog") EXCEPT !.serial = d.session]
    OBVIOUS
  <1>2. Fresh(list, d, "list") /\ list.serial = d.serial /\ list.key = 0
    BY <1>1 DEF Fresh, Request
  <1>3. Fresh(catalog, d, "catalog")
    BY <1>1, FreshRequests
  <1>4. ListOf(d) = {list} /\ CatalogOf(d) \subseteq {catalog}
    BY <1>1 DEF ListOf, CatalogOf
  <1> QED
    BY <1>2, <1>3, <1>4

\* Requests of a common kind, and the turning of the page, while logged in.
LEMMA ConsoleSendsOne ==
    ASSUME ConsoleOwn, IsConsole, UNCHANGED server, HasSession, StillConsole(device'),
           NEW kind, kind \notin {"login", "list"}, NEW e, Fresh(e, device, kind),
           Awaited' \subseteq Awaited \union {e}
    PROVE  ConsoleOwn' /\ KeepsOwn
  <1>1. OfSession(e) /\ e.kind # "list"
    BY FreshIsOfSession DEF ConsoleOwn, InSession, HasSession, Fresh
  <1> DEFINE New == {e}
  <1>2. Awaited' \subseteq Awaited \union New /\ \A x \in New : x.kind # "list" /\ OfSession(x)
    BY <1>1
  <1> HIDE DEF New
  <1> QED
    BY <1>2, ConsoleQuiet DEF StillConsole

LEMMA ConsoleTurnsTo ==
    ASSUME ConsoleOwn, IsConsole, UNCHANGED server, HasSession, TurnedConsole(device'),
           NEW New, Awaited' \subseteq Awaited \union New,
           \A e \in New : \/ Fresh(e, device, "catalog")
                          \/ e \in ListOf(device') /\ Fresh(e, device', "list")
    PROVE  ConsoleOwn' /\ KeepsOwn
  <1>1. \A e \in New : e.kind = "list" =>
          /\ e \in ListOf(device') /\ e.serial = device'.serial /\ e.key = 0 /\ e.reply = NoReply
    BY ListsAreFresh DEF Fresh
  <1>2. \A e \in New : Fresh(e, device, e.kind) /\ e.kind # "login"
    BY DEF Fresh, TurnedConsole
  <1>3. \A e \in New : OfSession(e)
    <2>1. device.generation \in Nat /\ device.token # 0
      BY DEF ConsoleOwn, InSession, HasSession
    <2> QED
      BY <1>2, <2>1, FreshIsOfSession
  <1>4. \A e, f \in New : e.kind = "list" /\ f.kind = "list" => e = f
    BY <1>1, ListsAreFresh
  <1>5. device'.serial = device.serial + 1
    BY DEF TurnedConsole
  <1> QED
    BY <1>1, <1>3, <1>4, <1>5, ConsoleTurnsPage

LEMMA ConsoleTapsOwn ==
    ASSUME ConsoleOwn, IsConsole, IsConsoleWindow(device), ConsoleTaps \/ ConsoleForgets
    PROVE  ConsoleOwn' /\ KeepsOwn
  <1>1. UNCHANGED server
    BY DEF ConsoleTaps, ConsoleForgets, ConsoleLogin, ConsoleLogout, ConsoleOpensPage,
           ConsoleMutates, ConsoleToggles, ConsoleSubmits, Taps
  <1>2. StillConsole(device)
    BY DEF StillConsole, ConsoleHead
  <1>3. ASSUME HasSession, NEW d, StillConsole(d), NEW kind, kind \notin {"login", "list"},
               NEW e, Fresh(e, device, kind), Sends(d, {e})
        PROVE  ConsoleOwn' /\ KeepsOwn
    <2>1. device' = d /\ Awaited' \subseteq Awaited \union {e}
      BY <1>3, SendsAwaited
    <2>2. StillConsole(device')
      BY <1>3, <2>1 DEF StillConsole, ConsoleHead
    <2> QED
      BY <1>1, <1>3, <2>1, <2>2, ConsoleSendsOne
  <1>4. \A kind : Fresh(Once(kind), device, kind)
    BY FreshRequests DEF Once
  <1>5. CASE ConsoleLogin
    <2>1. PICK u, d, e : /\ d = [device EXCEPT !.loggingIn = TRUE] /\ Sends(d, {e})
                         /\ e = [Request(device, "login") EXCEPT !.user = u]
      BY <1>5 DEF ConsoleLogin
    <2>2. Fresh(e, device, "login") /\ e.key = 0 /\ device.token = 0
      BY <1>5, <2>1 DEF Fresh, Request, ConsoleLogin, HasSession
    <2>3. OfSession(e) /\ e.kind # "list"
      BY <2>2 DEF Fresh, OfSession, NoReply, ConsoleOwn, InSession
    <2>4. StillConsole(d)
      BY <1>2, <2>1, StillConsoles
    <2> DEFINE New == {e}
    <2>5. device' = d /\ Awaited' \subseteq Awaited \union New
      BY <2>1, SendsAwaited
    <2>6. \A x \in New : x.kind # "list" /\ OfSession(x)
      BY <2>3
    <2> HIDE DEF New
    <2>7. ConsoleHead(device')
      BY <2>4, <2>5 DEF StillConsole, ConsoleHead
    <2> QED
      BY <1>1, <2>5, <2>6, <2>7, ConsoleQuiet
  <1>6. CASE ConsoleLogout
    <2>1. Fresh(Request(device, "logout"), device, "logout")
      BY FreshRequests
    <2> QED
      BY <1>2, <1>3, <1>6, <2>1 DEF ConsoleLogout
  <1>7. CASE ConsoleOpensPage
    <2>1. PICK New : New = ListOf(Turned(device))
      OBVIOUS
    <2>2. device' = Turned(device) /\ Awaited' \subseteq Awaited \union New /\ HasSession
      BY <1>7, <2>1, SendsAwaited DEF ConsoleOpensPage
    <2>3. TurnedConsole(device')
      BY <1>2, <2>2, StillConsoles DEF TurnedConsole
    <2>4. \A e \in New : e \in ListOf(device') /\ Fresh(e, device', "list")
      BY <2>1, <2>2, ListsAreFresh
    <2> QED
      BY <1>1, <2>2, <2>3, <2>4, ConsoleTurnsTo
  <1>8. CASE ConsoleMutates
    <2>1. PICK d, version, page :
            /\ d = [device EXCEPT !.busy = TRUE, !.nextKey = @ + 1]
            /\ Sends(d, {[Once("put") EXCEPT !.version = version, !.no = page]})
      BY <1>8 DEF ConsoleMutates
    <2>2. Fresh([Once("put") EXCEPT !.version = version, !.no = page], device, "put")
      BY <1>4 DEF Fresh, Once, Request
    <2>3. StillConsole(d)
      BY <1>2, <2>1, StillConsoles
    <2>4. HasSession
      BY <1>8 DEF ConsoleMutates, Idle
    <2> QED
      BY <1>3, <2>1, <2>2, <2>3, <2>4
  <1>9. CASE ConsoleToggles
    <2>1. Fresh(Request(device, "detail"), device, "detail")
          /\ StillConsole([device EXCEPT !.busy = TRUE])
      BY <1>2, FreshRequests, StillConsoles
    <2> QED
      BY <1>3, <1>9, <2>1 DEF ConsoleToggles, Idle
  <1>10. CASE ConsoleSubmits
    <2>1. /\ Fresh(Request(device, "reauth"), device, "reauth")
          /\ StillConsole([device EXCEPT !.busy = TRUE])
          /\ StillConsole([device EXCEPT !.busy = TRUE, !.nextKey = @ + 1])
      BY <1>2, FreshRequests, StillConsoles
    <2>2. HasSession
      BY <1>10 DEF ConsoleSubmits, Idle
    <2>3. CASE Sends([device EXCEPT !.busy = TRUE], {Request(device, "reauth")})
      BY <1>3, <2>1, <2>2, <2>3
    <2>4. CASE \E kind \in {"restart", "predict"} :
                  Sends([device EXCEPT !.busy = TRUE, !.nextKey = @ + 1], {Once(kind)})
      BY <1>3, <1>4, <2>1, <2>2, <2>4
    <2> QED
      BY <1>10, <2>3, <2>4 DEF ConsoleSubmits
  <1>11. CASE ConsoleForgets
    <2>1. PICK New : New = {}
      OBVIOUS
    <2>2. device' = [device EXCEPT !.proven = FALSE] /\ Awaited' \subseteq Awaited \union New
      BY <1>11, <2>1, SendsAwaited DEF ConsoleForgets
    <2>3. StillConsole([device EXCEPT !.proven = FALSE])
      BY <1>2, StillConsoles
    <2>4. ConsoleHead(device') /\ \A x \in New : x.kind # "list" /\ OfSession(x)
      BY <2>1, <2>2, <2>3 DEF StillConsole, ConsoleHead
    <2> QED
      BY <1>1, <2>2, <2>4, ConsoleQuiet
  <1> QED
    BY <1>5, <1>6, <1>7, <1>8, <1>9, <1>10, <1>11 DEF ConsoleTaps

LEMMA ConsoleHearsOwn ==
    ASSUME ConsoleOwn, IsConsole, IsConsoleWindow(device), \A x \in calls : IsCall(x),
           NEW c \in calls, ConsoleReceives(c) \/ ConsoleAsksAgain(c)
    PROVE  ConsoleOwn' /\ KeepsOwn
  <1>1. c \in Awaited /\ StillConsole(device)
    BY DEF ConsoleReceives, ConsoleAsksAgain, Awaited, GivenUp, StillConsole, ConsoleHead
  <1>2. ConsoleReceives(c) /\ c.kind # "login" => HasSession /\ c.by = device.token
    BY <1>1 DEF ConsoleReceives, ConsoleOwn, InSession, OfSession, HasSession
  <1>3. ASSUME NEW d, StillConsole(d), Handles(c, d, {})
        PROVE  ConsoleOwn' /\ KeepsOwn
    <2>1. PICK New : New = {}
      OBVIOUS
    <2>2. device' = d /\ UNCHANGED server /\ Awaited' \subseteq Awaited \union New
      BY <1>3, <2>1, HandlesAwaited
    <2>3. ConsoleHead(device') /\ \A x \in New : x.kind # "list" /\ OfSession(x)
      BY <1>3, <2>1, <2>2 DEF StillConsole, ConsoleHead
    <2> QED
      BY <2>2, <2>3, ConsoleQuiet
  <1>4. ASSUME HasSession, NEW d, StillConsole(d), NEW kind, kind \notin {"login", "list"},
               NEW e, Fresh(e, device, kind), Handles(c, d, {e})
        PROVE  ConsoleOwn' /\ KeepsOwn
    <2>1. device' = d /\ UNCHANGED server /\ Awaited' \subseteq Awaited \union {e}
      BY <1>4, HandlesAwaited
    <2>2. StillConsole(device')
      BY <1>4, <2>1 DEF StillConsole, ConsoleHead
    <2> QED
      BY <1>4, <2>1, <2>2, ConsoleSendsOne
  <1>5. ASSUME HasSession, NEW d, TurnedConsole(d), NEW New, Handles(c, d, New),
               \A e \in New : \/ Fresh(e, device, "catalog")
                              \/ e \in ListOf(d) /\ Fresh(e, d, "list")
        PROVE  ConsoleOwn' /\ KeepsOwn
    <2>1. device' = d /\ UNCHANGED server /\ Awaited' \subseteq Awaited \union New
      BY <1>5, HandlesAwaited
    <2>2. TurnedConsole(device')
      BY <1>5, <2>1 DEF TurnedConsole
    <2>3. \A e \in New : \/ Fresh(e, device, "catalog")
                         \/ e \in ListOf(device') /\ Fresh(e, device', "list")
      BY <1>5, <2>1
    <2> QED
      BY <1>5, <2>1, <2>2, <2>3, ConsoleTurnsTo
  <1>6. \A kind : Fresh(Once(kind), device, kind)
    BY FreshRequests DEF Once
  <1>7. \A tries, m : Fresh(Poll(device, tries, m), device, "command")
    BY FreshRequests DEF Poll
  <1>8. CASE ConsoleEnds(c)
    <2>1. PICK New : New = {}
      OBVIOUS
    <2>2. device' = BackAtLogin(device) /\ UNCHANGED server /\ calls' \subseteq AfterAbort \union New
      BY <1>8 DEF ConsoleEnds
    <2>3. /\ device'.generation = device.generation + 1 /\ device'.serial = device.serial + 1
          /\ device'.list = Nothing /\ device'.catalog = Nothing
      BY <2>2 DEF BackAtLogin, Turned, IsConsoleWindow
    <2>4. Awaited' \subseteq Awaited \union New
      BY <2>2, AbortAwaited
    <2> QED
      BY <2>1, <2>2, <2>3, <2>4, ConsoleAnew
  <1>9. CASE ConsoleReceives(c) /\ ConsoleLoggedIn(c)
    <2>1. PICK d : d = [device EXCEPT !.loggingIn = FALSE]
      OBVIOUS
    <2>2. StillConsole(d)
      BY <1>1, <2>1, StillConsoles
    <2>3. PICK turned : turned = Turned(d)
      OBVIOUS
    <2>4. PICK here : here = [turned EXCEPT !.token = c.reply.no, !.generation = @ + 1,
                                            !.session = @ + 1]
      OBVIOUS
    <2>5. CASE c.reply.code # "Ok"
      <3>1. Handles(c, d, {})
        BY <1>9, <2>1, <2>5 DEF ConsoleLoggedIn
      <3> QED
        BY <1>3, <2>2, <3>1
    <2>6. CASE c.reply.code = "Ok"
      <3>1. PICK New : New = CatalogOf(here) \union ListOf(here)
        OBVIOUS
      <3>2. /\ device' = Asked(here) /\ UNCHANGED server
            /\ calls' = AfterAbort \union CatalogOf(here) \union ListOf(here)
        BY <1>9, <2>1, <2>3, <2>4, <2>6 DEF ConsoleLoggedIn
      <3>3. Awaited' \subseteq Awaited \union New
        BY <3>1, <3>2, AbortAwaited
      <3>4. IsConsoleWindow(d) /\ ConsoleHead(d) /\ d.catalog = device.catalog
        BY <2>1, <2>2 DEF StillConsole, IsConsoleWindow
      <3>5. /\ IsConsoleWindow(turned) /\ turned.serial = d.serial + 1 /\ turned.list = Nothing
            /\ turned.generation = d.generation /\ turned.catalog = d.catalog
        BY <2>3, <3>4 DEF Turned, IsConsoleWindow
      <3>6. /\ IsConsoleWindow(here) /\ here.token = c.reply.no /\ here.serial = turned.serial
            /\ here.generation = turned.generation + 1
            /\ here.list = turned.list /\ here.catalog = turned.catalog
        BY <2>4, <3>5 DEF IsConsoleWindow
      <3>7. /\ device'.token = here.token /\ device'.generation = here.generation
            /\ device'.serial = here.serial /\ device'.list = here.list
            /\ device'.catalog = here.catalog
        BY <3>2, <3>6 DEF Asked, IsConsoleWindow
      <3>8. /\ device'.generation = device.generation + 1 /\ device'.serial = device.serial + 1
            /\ device'.list = Nothing /\ device'.catalog = device.catalog
        BY <3>4, <3>5, <3>6, <3>7 DEF ConsoleHead
      <3>9. device'.token # 0
        <4>1. c.kind = "login"
          BY <1>9 DEF ConsoleLoggedIn
        <4> QED
          BY <1>1, <2>6, <3>6, <3>7, <4>1 DEF ConsoleOwn, InSession, OfSession
      <3>10. \A e \in New : \/ Fresh(e, here, "catalog")
                            \/ e \in ListOf(here) /\ Fresh(e, here, "list")
                               /\ e.serial = here.serial /\ e.key = 0
        BY <3>1, ListsAreFresh
      <3>11. \A e \in New : /\ Fresh(e, device', e.kind) /\ e.kind # "login"
                            /\ e.kind = "list" =>
                                 e \in ListOf(here) /\ e.serial = device.serial + 1 /\ e.key = 0
        BY <3>7, <3>8, <3>10 DEF Fresh
      <3>12. \A e, f \in New : e.kind = "list" /\ f.kind = "list" => e = f
        BY <3>11, ListsAreFresh
      <3> QED
        BY <3>2, <3>3, <3>8, <3>9, <3>11, <3>12, ConsoleAnew
    <2> QED
      BY <2>5, <2>6
  <1>10. CASE ConsoleReceives(c) /\ ConsoleShowsPage(c)
    <2>1. c.kind # "login" /\ c.generation = device.generation
      BY <1>10 DEF ConsoleShowsPage, ConsoleReceives
    <2>2. CASE c.kind = "list" /\ Newest(c) /\ c.reply.code = "Ok"
      <3>1. Handles(c, [device EXCEPT !.list = Read(c)], {})
        BY <1>10, <2>2 DEF ConsoleShowsPage
      <3>2. /\ device' = [device EXCEPT !.list = Read(c)] /\ UNCHANGED server
            /\ Awaited' \subseteq Awaited \ {c}
        BY <3>1, HandlesAwaited
      <3> QED
        BY <1>1, <2>1, <2>2, <3>2, ConsoleShowsList
    <2>3. CASE c.kind = "list" /\ ~(Newest(c) /\ c.reply.code = "Ok")
      BY <1>1, <1>3, <1>10, <2>3 DEF ConsoleShowsPage
    <2>4. CASE c.kind = "catalog"
      <3>1. PICK x : x = IF c.reply.code = "Ok" THEN Read(c) ELSE device.catalog
        OBVIOUS
      <3>2. \/ Handles(c, device, {})
            \/ Handles(c, [device EXCEPT !.catalogLoading = FALSE, !.catalog = x], {})
        BY <1>10, <2>4, <3>1 DEF ConsoleShowsPage
      <3>3. x.by = device.token \/ x = device.catalog
        BY <1>2, <1>10, <2>1, <3>1 DEF Read
      <3>4. StillConsole([device EXCEPT !.catalogLoading = FALSE, !.catalog = x])
        BY <1>1, <3>3 DEF StillConsole, IsConsoleWindow, ConsoleHead
      <3> QED
        BY <1>1, <1>3, <3>2, <3>4
    <2> QED
      BY <1>10, <2>2, <2>3, <2>4 DEF ConsoleShowsPage
  <1>11. CASE ConsoleReceives(c) /\ ConsoleMutated(c)
    <2>1. HasSession
      BY <1>2, <1>11 DEF ConsoleMutated
    <2>2. PICK d, e : d = Rest(device) /\ e = [d EXCEPT !.catalog = Nothing]
      OBVIOUS
    <2>3. StillConsole(d)
      BY <1>1, <2>2, StillConsoles
    <2>4. StillConsole(e)
      BY <2>2, <2>3, StillConsoles
    <2>5. StillConsole(Asked(e))
      BY <2>4, StillConsoles
    <2>6. TurnedConsole(Turned(d)) /\ TurnedConsole(Turned(Asked(e)))
      BY <2>3, <2>5, StillConsoles
    <2>7. \/ Handles(c, d, {})
          \/ Handles(c, Turned(Asked(e)), CatalogOf(d) \union ListOf(Turned(d)))
          \/ Handles(c, Turned(d), ListOf(Turned(d)))
      BY <1>11, <2>2 DEF ConsoleMutated
    <2>8. ListOf(Turned(Asked(e))) = ListOf(Turned(d))
      <3>1. PICK x, y : x = Turned(d) /\ y = Turned(Asked(e))
        OBVIOUS
      <3>2. x.token = y.token /\ x.generation = y.generation /\ x.serial = y.serial
        BY <2>6, <3>1 DEF TurnedConsole
      <3>3. Request(x, "list") = Request(y, "list")
        BY <3>2 DEF Request
      <3> QED
        BY <3>1, <3>2, <3>3 DEF ListOf
    <2>9. \A x \in CatalogOf(d) : Fresh(x, device, "catalog")
      BY <2>3, ListsAreFresh DEF StillConsole, ConsoleHead, Fresh
    <2>10. CASE Handles(c, Turned(Asked(e)), CatalogOf(d) \union ListOf(Turned(d)))
      <3>1. PICK New, f : New = CatalogOf(d) \union ListOf(Turned(d)) /\ f = Turned(Asked(e))
        OBVIOUS
      <3>2. \A x \in New : Fresh(x, device, "catalog") \/ (x \in ListOf(f) /\ Fresh(x, f, "list"))
        BY <2>8, <2>9, <3>1, ListsAreFresh
      <3> QED
        BY <1>5, <2>1, <2>6, <2>10, <3>1, <3>2
    <2>11. CASE Handles(c, Turned(d), ListOf(Turned(d)))
      <3>1. PICK New, f : New = ListOf(Turned(d)) /\ f = Turned(d)
        OBVIOUS
      <3>2. \A x \in New : x \in ListOf(f) /\ Fresh(x, f, "list")
        BY <3>1, ListsAreFresh
      <3> QED
        BY <1>5, <2>1, <2>6, <2>11, <3>1, <3>2
    <2> QED
      BY <1>3, <2>3, <2>7, <2>10, <2>11
  <1>12. StillConsole(Rest(device)) /\ StillConsole([device EXCEPT !.nextKey = @ + 1])
         /\ StillConsole([device EXCEPT !.proven = TRUE, !.nextKey = @ + 1])
    BY <1>1, StillConsoles
  <1>13. CASE ConsoleReceives(c) /\ ConsoleDetailed(c)
    <2>1. HasSession
      BY <1>2, <1>13 DEF ConsoleDetailed
    <2>2. \A v : Fresh([Once("put") EXCEPT !.version = v], device, "put")
      BY <1>6 DEF Fresh, Once, Request
    <2>3. \/ Handles(c, Rest(device), {})
          \/ \E v : Handles(c, [device EXCEPT !.nextKey = @ + 1],
                            {[Once("put") EXCEPT !.version = v]})
      BY <1>13 DEF ConsoleDetailed
    <2> QED
      BY <1>3, <1>4, <1>12, <2>1, <2>2, <2>3
  <1>14. CASE ConsoleReceives(c) /\ ConsoleProven(c)
    <2>1. HasSession
      BY <1>2, <1>14 DEF ConsoleProven
    <2>2. \/ Handles(c, Rest(device), {})
          \/ Handles(c, [device EXCEPT !.proven = TRUE, !.nextKey = @ + 1], {Once("restart")})
      BY <1>14 DEF ConsoleProven
    <2> QED
      BY <1>3, <1>4, <1>6, <1>12, <2>1, <2>2
  <1>15. CASE ConsoleReceives(c) /\ ConsoleSubmitted(c)
    <2>1. HasSession
      BY <1>2, <1>15 DEF ConsoleSubmitted
    <2>2. PICK d : d = [device EXCEPT !.proven = @ /\ c.reply.code # "Forbidden"]
      OBVIOUS
    <2>3. PICK x : x = (device.proven /\ c.reply.code # "Forbidden")
      OBVIOUS
    <2>4. StillConsole(d)
      BY <1>1, <2>2, <2>3, StillConsoles
    <2>5. StillConsole(Rest(d))
      BY <2>4, StillConsoles
    <2>6. Handles(c, device, {Poll(device, 0, "Sent")}) \/ Handles(c, Rest(d), {})
      BY <1>15, <2>2 DEF ConsoleSubmitted
    <2> QED
      BY <1>1, <1>3, <1>4, <1>7, <2>1, <2>5, <2>6
  <1>16. CASE ConsoleReceives(c) /\ ConsolePolled(c)
    <2>1. HasSession
      BY <1>2, <1>16 DEF ConsolePolled
    <2>2. TurnedConsole(Turned(Rest(device)))
      BY <1>12, StillConsoles
    <2>3. \/ Handles(c, Rest(device), {})
          \/ Handles(c, device, {Poll(device, c.tries, "Pausing")})
          \/ Handles(c, Turned(Rest(device)), ListOf(Turned(device)))
      BY <1>16 DEF ConsolePolled
    <2>4. CASE Handles(c, Turned(Rest(device)), ListOf(Turned(device)))
      <3>1. PICK New, f, x : /\ New = ListOf(x) /\ f = Turned(Rest(device)) /\ x = Turned(device)
        OBVIOUS
      <3>2. TurnedConsole(x)
        BY <1>1, <3>1, StillConsoles
      <3>3. x.token = f.token /\ x.generation = f.generation /\ x.serial = f.serial
        BY <2>2, <3>1, <3>2 DEF TurnedConsole
      <3>4. Request(x, "list") = Request(f, "list")
        BY <3>3 DEF Request
      <3>5. New = ListOf(f)
        BY <3>1, <3>3, <3>4 DEF ListOf
      <3>6. \A e \in New : e \in ListOf(f) /\ Fresh(e, f, "list")
        BY <3>5, ListsAreFresh
      <3> QED
        BY <1>5, <2>1, <2>2, <2>4, <3>1, <3>6
    <2> QED
      BY <1>1, <1>3, <1>4, <1>7, <1>12, <2>1, <2>3, <2>4
  <1>17. CASE ConsoleAsksAgain(c)
    <2>1. \/ HasSession /\ Handles(c, device, {Poll(device, c.tries + 1, "Sent")})
          \/ Handles(c, device, {})
      BY <1>17 DEF ConsoleAsksAgain
    <2> QED
      BY <1>1, <1>3, <1>4, <1>7, <2>1
  <1> QED
    BY <1>8, <1>9, <1>10, <1>11, <1>13, <1>14, <1>15, <1>16, <1>17 DEF ConsoleReceives

-----------------------------------------------------------------------------
(* Every step of every app. *)

LEMMA OwnInit == ASSUME ClientsInit PROVE OwnInv
  <1>1. calls = {} /\ ServerInit /\ Awaited = {}
    BY DEF ClientsInit, Awaited
  <1>2. server.version = 1 /\ server.issued \in {0, 1}
    BY <1>1 DEF ServerInit
  <1>3. Versions /\ 0 \in 0..server.version
    BY <1>2 DEF Versions
  <1>4. ASSUME NEW p, NEW n, n = 0, device[p] = Nothing
        PROVE  Numbered(p, n)
    BY <1>1, <1>3, <1>4 DEF Numbered, Nothing
  <1>5. CASE IsMobile
    <2>1. MobileInit
      BY <1>5 DEF ClientsInit, IsMobile, IsDesktop, IsConsole, NoApp
    <2>2. /\ device.serial = 0 /\ device.generation = 0 /\ device.reviewSerial = 0
          /\ device["list"] = Nothing
      BY <2>1 DEF MobileInit
    <2>3. Numbered("list", device.serial)
      BY <1>4, <2>2
    <2> QED
      BY <1>1, <1>3, <1>5, <2>2, <2>3
      DEF OwnInv, PhoneOwn, InSession, OnPhone, IsMobile, IsDesktop, IsConsole, NoApp
  <1>6. CASE IsDesktop
    <2>1. DesktopInit
      BY <1>6 DEF ClientsInit, IsMobile, IsDesktop, IsConsole, NoApp
    <2>2. /\ device.serial = 0 /\ device.ordersSerial = 0
          /\ device["list"] = Nothing /\ device["orders"] = Nothing
      BY <2>1 DEF DesktopInit
    <2>3. Numbered("list", device.serial) /\ Numbered("orders", device.ordersSerial)
      BY <1>4, <2>2
    <2> QED
      BY <1>1, <1>3, <1>6, <2>3
      DEF OwnInv, DeskOwn, OnDesk, IsMobile, IsDesktop, IsConsole, NoApp
  <1>7. CASE IsConsole
    <2>1. ConsoleInit
      BY <1>7 DEF ClientsInit, IsMobile, IsDesktop, IsConsole, NoApp
    <2>2. device.serial = 0 /\ device.generation = 0 /\ device["list"] = Nothing
      BY <2>1 DEF ConsoleInit
    <2>3. Numbered("list", device.serial)
      BY <1>4, <2>2
    <2> QED
      BY <1>1, <1>3, <1>7, <2>2, <2>3
      DEF OwnInv, ConsoleOwn, InSession, IsMobile, IsDesktop, IsConsole, NoApp
  <1>8. CASE NoApp
    <2>1. device = [token |-> 0]
      BY <1>8 DEF ClientsInit, IsMobile, IsDesktop, IsConsole, NoApp
    <2> QED
      BY <1>3, <1>8, <2>1 DEF OwnInv, IsMobile, IsDesktop, IsConsole, NoApp
  <1>9. IsMobile \/ IsDesktop \/ IsConsole \/ NoApp
    BY DEF ClientsInit
  <1> QED
    BY <1>5, <1>6, <1>7, <1>8, <1>9

\* Whose turn it is: one app is there, and stays.
LEMMA AppsOwn ==
    ASSUME OwnInv, OnceInv, Apps
    PROVE  OwnInv' /\ KeepsOwn
  <1>1. /\ IsMobile => PhoneOwn /\ IsPhone(device)
        /\ IsDesktop => DeskOwn /\ IsWindow(device)
        /\ IsConsole => ConsoleOwn /\ IsConsoleWindow(device)
        /\ \A c \in calls : IsCall(c)
    BY DEF OwnInv, OnceInv, KeysOK, Held, Meant
  <1>2. ASSUME UNCHANGED scene, \/ IsMobile /\ PhoneOwn' /\ KeepsOwn
                                \/ IsDesktop /\ DeskOwn' /\ KeepsOwn
                                \/ IsConsole /\ ConsoleOwn' /\ KeepsOwn
        PROVE  OwnInv' /\ KeepsOwn
    BY <1>2 DEF OwnInv, IsMobile, IsDesktop, IsConsole, NoApp
  <1>3. CASE MobileTaps \/ MobilePolls
    <2>1. IsMobile /\ UNCHANGED scene
      BY <1>3
      DEF MobileTaps, MobilePolls, MobileLogin, MobileSignOff, MobileOpensPage, MobileRenames,
          MobilePosts, MobileBeginsReview, MobileSubmitsReview, Taps
    <2> QED
      BY <1>1, <1>2, <1>3, <2>1, PhoneTapsOwn
  <1>4. CASE DesktopTaps \/ DesktopPolls
    <2>1. IsDesktop /\ UNCHANGED scene
      BY <1>4
      DEF DesktopTaps, DesktopPolls, DesktopLogin, DesktopSignOff, DesktopOpensPage,
          DesktopPosts, DesktopBegins, DesktopAnswers, DesktopOpensReview, DesktopInReview,
          Inside, AtWindow, Taps
    <2> QED
      BY <1>1, <1>2, <1>4, <2>1, DeskTapsOwn
  <1>5. CASE ConsoleTaps \/ ConsoleForgets
    <2>1. IsConsole /\ UNCHANGED scene
      BY <1>5
      DEF ConsoleTaps, ConsoleForgets, ConsoleLogin, ConsoleLogout, ConsoleOpensPage,
          ConsoleMutates, ConsoleToggles, ConsoleSubmits, Idle, Taps
    <2> QED
      BY <1>1, <1>2, <1>5, <2>1, ConsoleTapsOwn
  <1>6. CASE ServerEvent \/ CommandEnds
    BY <1>6, EventFits
  <1>7. ASSUME NEW c \in calls, Lose(c) \/ Serve(c)
        PROVE  OwnInv' /\ KeepsOwn
    BY <1>7, LoseFits, ServeFits
  <1>8. ASSUME NEW c \in calls, MobileReceives(c)
        PROVE  OwnInv' /\ KeepsOwn
    <2>1. IsMobile /\ UNCHANGED scene
      BY <1>8
      DEF MobileReceives, MobileDrops, MobileEnds, MobileFails, MobileLoggedIn,
          MobileShowsStations, MobileShowsOrders, MobileShowsProfile, MobileShowsFlow,
          MobileSettled, MobilePolled, MobileProfileChanged, MobileReviewed, Handles
    <2> QED
      BY <1>1, <1>2, <1>8, <2>1, PhoneReceivesOwn
  <1>9. ASSUME NEW c \in calls, DesktopPauses(c) \/ DesktopSendsAgain(c) \/ DesktopReceives(c)
        PROVE  OwnInv' /\ KeepsOwn
    <2>1. IsDesktop /\ UNCHANGED scene
      BY <1>9
      DEF DesktopPauses, DesktopSendsAgain, DesktopReceives, DesktopLoggedIn, DesktopEnds,
          DesktopFails, DesktopShowsStations, DesktopShowsOrders, DesktopShowsProfile,
          DesktopProfileChanged, DesktopAsked, DesktopShowsFlow, DesktopPolled,
          DesktopReviewed, Handles
    <2> QED
      BY <1>1, <1>2, <1>9, <2>1, DeskReceivesOwn, DeskRepeatsOwn
  <1>10. ASSUME NEW c \in calls, ConsoleReceives(c) \/ ConsoleAsksAgain(c)
         PROVE  OwnInv' /\ KeepsOwn
    <2>1. IsConsole /\ UNCHANGED scene
      BY <1>10
      DEF ConsoleReceives, ConsoleAsksAgain, ConsoleEnds, ConsoleLoggedIn, ConsoleShowsPage,
          ConsoleMutated, ConsoleDetailed, ConsoleProven, ConsoleSubmitted, ConsolePolled, Handles
    <2> QED
      BY <1>1, <1>2, <1>10, <2>1, ConsoleHearsOwn
  <1> QED
    BY <1>3, <1>4, <1>5, <1>6, <1>7, <1>8, <1>9, <1>10 DEF Apps, Receives

LEMMA OwnStep ==
    ASSUME OwnInv, OnceInv, ClientsNext
    PROVE  OwnInv' /\ KeepsOwn
  <1>1. CASE NoApp /\ Next /\ UNCHANGED appVars
    <2>1. UNCHANGED <<scene, device, calls, server>> /\ OneApp /\ Versions
      BY <1>1, VersionsOwn DEF appVars, OnceInv
    <2>2. Versions' /\ server.version <= server'.version /\ Awaited' \subseteq Awaited
      BY <2>1 DEF Versions, Awaited
    <2> QED
      BY <2>1, <2>2, FewerFit, LeftAlone
  <1>2. CASE Linked
    BY <1>2, LinkedFits
  <1>3. CASE Apps
    BY <1>3, AppsOwn
  <1> QED
    BY <1>1, <1>2, <1>3 DEF ClientsNext

\* However replies overtake each other, are lost or come late, and whoever logs
\* in between: a page that asks whose reply it is shows only what was read in
\* the session that is logged in, and a page that numbers its loads never shows
\* an older reading after a newer one of the same session.
THEOREM ShownIsOwnAlways == ClientsSpec => ShownIsOwn
  <1> DEFINE I == TypeOK /\ Alone /\ Ends /\ OnceInv /\ OwnInv
  <1>1. ClientsInit => I
    <2> SUFFICES ASSUME ClientsInit
                 PROVE  I
      OBVIOUS
    <2>1. TypeOK /\ Alone
      BY SettlementTxnAssumption, EightStatements
      DEF ClientsInit, Init, TypeOK, Rows, Alone, Gone
    <2>2. Ends
      BY DEF ClientsInit, Init, Ends
    <2> QED
      BY <2>1, <2>2, OnceInit, OwnInit
  <1>2. I /\ [ClientsNext]_all => I'
    <2> SUFFICES ASSUME I, [ClientsNext]_all
                 PROVE  I'
      OBVIOUS
    <2>1. TypeOK' /\ Alone' /\ Ends' /\ OnceInv'
      BY ClientsStep, TypedStep, EndsStep, OnceStep
    <2>2. CASE ClientsNext
      BY <2>1, <2>2, OwnStep
    <2>3. CASE UNCHANGED all
      <3>1. UNCHANGED <<scene, device, calls, server>> /\ OneApp /\ Versions
        BY <2>3, VersionsOwn DEF all, appVars, OnceInv
      <3>2. Versions' /\ server.version <= server'.version /\ Awaited' \subseteq Awaited
        BY <3>1 DEF Versions, Awaited
      <3> QED
        BY <2>1, <3>1, <3>2, FewerFit
    <2> QED
      BY <2>2, <2>3
  <1>3. I /\ [ClientsNext]_all =>
          [/\ \A p \in Owned \intersect DOMAIN device :
                device'[p] # device[p] => device'[p].by \in {0, device.token}
           /\ \A p \in Ordered \intersect DOMAIN device :
                device'[p].by = device[p].by => device'[p].version >= device[p].version]_all
    <2> SUFFICES ASSUME I, ClientsNext
                 PROVE  KeepsOwn
      BY DEF KeepsOwn
    <2> QED
      BY OwnStep
  <1> QED
    BY <1>1, <1>2, <1>3, PTL DEF ClientsSpec, ShownIsOwn

-----------------------------------------------------------------------------
(***************************************************************************)
(* The flags.  Of every flag the requests are known that lower it; a flag  *)
(* goes up when there is none of these and one is sent, down when the one  *)
(* there is has been answered, and else the network, the server and the    *)
(* repetitions only let it move on.                                        *)
(***************************************************************************)

Waits(flag, S) == flag \in BOOLEAN /\ (flag <=> S # {}) /\ \A c, e \in S : c = e

LEMMA WaitsCounted ==
    ASSUME NEW flag, NEW S, Waits(flag, S)
    PROVE  UpFor(flag, S)
  <1>1. CASE S = {}
    BY <1>1, FS_EmptySet DEF Waits, UpFor
  <1>2. CASE S # {}
    <2>1. PICK c \in S : S = {c}
      BY <1>2 DEF Waits
    <2> QED
      BY <2>1, <1>2, FS_Singleton DEF Waits, UpFor
  <1> QED
    BY <1>1, <1>2

\* The requests of A of these kinds, of a page of reviews, of a generation.
Kinds(A, K)    == {c \in A : c.kind \in K}
OfPage(A, n)   == {c \in Kinds(A, {"review", "submit"}) : c.serial = n}
Aged(A, K, g)  == {c \in Kinds(A, K) : c.generation = g}

PhoneFlags(d, A) == Waits(d.reviewBusy, OfPage(A, d.reviewSerial))

DeskPages(d, A) ==
    /\ Waits(d.reviewBusy, OfPage(A, d.reviewKey))
    /\ d.nextKey \in Nat \ {0} /\ d.reviewKey \in 0..(d.nextKey - 1)
    /\ \A c \in Kinds(A, {"review", "submit"}) : c.serial \in 1..(d.nextKey - 1)

DeskFlags(d, A) ==
    /\ Waits(d.loggingIn, Kinds(A, {"login"}))
    /\ Waits(d.polling, Kinds(A, {"flow", "progress"}))
    /\ DeskPages(d, A)

\* On the console sessions and generations go together; what pauses is a
\* command that is followed.
Tidy(c) ==
    /\ c.kind \in {"catalog", "command"} => c.serial = c.generation
    /\ c.at = "Pausing" => c.kind = "command"

ConsoleFlags(d, A) ==
    /\ Waits(d.loggingIn, Aged(A, {"login"}, d.generation))
    /\ Waits(d.busy, Aged(A, Operations, d.generation))
    /\ Waits(d.catalogLoading, Aged(A, {"catalog"}, d.generation))
    /\ d.session = d.generation
    /\ \A c \in A : Tidy(c)

FlagsInv ==
    /\ IsMobile => PhoneFlags(device, Awaited)
    /\ IsDesktop => DeskFlags(device, Awaited)
    /\ IsConsole => ConsoleFlags(device, Awaited)

\* The requests after a step: one goes, others come.
LEMMA HandlesAll ==
    ASSUME NEW c, NEW d, NEW New, Handles(c, d, New), \A e \in New : ~GivenUp(e)
    PROVE  /\ device' = d /\ UNCHANGED <<scene, server>>
           /\ Awaited' = (Awaited \ {c}) \union New
  BY DEF Handles, Awaited

LEMMA HandlesNone ==
    ASSUME NEW c, NEW d, Handles(c, d, {})
    PROVE  device' = d /\ UNCHANGED <<scene, server>> /\ Awaited' = Awaited \ {c}
  BY DEF Handles, Awaited

LEMMA SendsAll ==
    ASSUME NEW d, NEW New, Sends(d, New), \A e \in New : ~GivenUp(e)
    PROVE  device' = d /\ Awaited' = Awaited \union New
  BY DEF Sends, Awaited

\* One that moves on stays what it is.
Moves(A, B, c, d) ==
    /\ c \in A /\ B = (A \ {c}) \union {d}
    /\ d.kind = c.kind /\ d.serial = c.serial /\ d.generation = c.generation

LEMMA WaitsMoves ==
    ASSUME NEW flag, NEW S, Waits(flag, S), NEW c, NEW d, NEW T,
           T = IF c \in S THEN (S \ {c}) \union {d} ELSE S
    PROVE  Waits(flag, T)
  <1>1. CASE c \in S
    <2>1. T = {d}
      BY <1>1 DEF Waits
    <2> QED
      BY <1>1, <2>1 DEF Waits
  <1> QED
    BY <1>1

LEMMA KindsMove ==
    ASSUME NEW A, NEW B, NEW c, NEW d, Moves(A, B, c, d), NEW flag, NEW K, Waits(flag, Kinds(A, K))
    PROVE  Waits(flag, Kinds(B, K))
  <1>1. Kinds(B, K) = IF c \in Kinds(A, K) THEN (Kinds(A, K) \ {c}) \union {d} ELSE Kinds(A, K)
    BY DEF Kinds, Moves
  <1> QED
    BY <1>1, WaitsMoves

LEMMA PagesMove ==
    ASSUME NEW A, NEW B, NEW c, NEW d, Moves(A, B, c, d), NEW flag, NEW n, Waits(flag, OfPage(A, n))
    PROVE  Waits(flag, OfPage(B, n))
  <1>1. OfPage(B, n) = IF c \in OfPage(A, n) THEN (OfPage(A, n) \ {c}) \union {d} ELSE OfPage(A, n)
    BY DEF Kinds, OfPage, Moves
  <1> QED
    BY <1>1, WaitsMoves

LEMMA AgedMove ==
    ASSUME NEW A, NEW B, NEW c, NEW d, Moves(A, B, c, d), NEW flag, NEW K, NEW g,
           Waits(flag, Aged(A, K, g))
    PROVE  Waits(flag, Aged(B, K, g))
  <1>1. Aged(B, K, g) = IF c \in Aged(A, K, g) THEN (Aged(A, K, g) \ {c}) \union {d} ELSE Aged(A, K, g)
    BY DEF Kinds, Aged, Moves
  <1> QED
    BY <1>1, WaitsMoves

LEMMA PhoneMoves ==
    ASSUME NEW p, NEW A, PhoneFlags(p, A), NEW B, NEW c, NEW d, Moves(A, B, c, d)
    PROVE  PhoneFlags(p, B)
  BY PagesMove DEF PhoneFlags

LEMMA DeskFlagsMove ==
    ASSUME NEW p, NEW A, DeskFlags(p, A), NEW B, NEW c, NEW d, Moves(A, B, c, d)
    PROVE  DeskFlags(p, B)
  <1>1. Waits(p.loggingIn, Kinds(B, {"login"})) /\ Waits(p.polling, Kinds(B, {"flow", "progress"}))
    BY KindsMove DEF DeskFlags, DeskPages
  <1>2. Waits(p.reviewBusy, OfPage(B, p.reviewKey))
    BY PagesMove DEF DeskFlags, DeskPages
  <1>3. \A e \in Kinds(B, {"review", "submit"}) : e.serial \in 1..(p.nextKey - 1)
    BY DEF DeskFlags, DeskPages, Kinds, Moves
  <1> QED
    BY <1>1, <1>2, <1>3 DEF DeskFlags, DeskPages

LEMMA ConsoleMoves ==
    ASSUME NEW p, NEW A, ConsoleFlags(p, A), NEW B, NEW c, NEW d, Moves(A, B, c, d),
           d.at # "Pausing"
    PROVE  ConsoleFlags(p, B)
  <1>1. /\ Waits(p.loggingIn, Aged(B, {"login"}, p.generation))
        /\ Waits(p.busy, Aged(B, Operations, p.generation))
        /\ Waits(p.catalogLoading, Aged(B, {"catalog"}, p.generation))
    BY AgedMove DEF ConsoleFlags
  <1>2. \A e \in B : Tidy(e)
    BY DEF ConsoleFlags, Moves, Tidy
  <1> QED
    BY <1>1, <1>2 DEF ConsoleFlags

\* What the network and the server do to the requests.
LEMMA FlagsMove ==
    ASSUME FlagsInv, UNCHANGED <<scene, device>>,
           Awaited' = Awaited \/ \E c, d : Moves(Awaited, Awaited', c, d) /\ d.at # "Pausing"
    PROVE  FlagsInv'
  <1>1. IsMobile' = IsMobile /\ IsDesktop' = IsDesktop /\ IsConsole' = IsConsole
    BY DEF IsMobile, IsDesktop, IsConsole
  <1>2. CASE Awaited' = Awaited
    BY <1>1, <1>2 DEF FlagsInv
  <1>3. ASSUME NEW c, NEW d, Moves(Awaited, Awaited', c, d), d.at # "Pausing"
        PROVE  FlagsInv'
    <2>1. IsMobile => PhoneFlags(device, Awaited')
      BY <1>3, PhoneMoves DEF FlagsInv
    <2>2. IsDesktop => DeskFlags(device, Awaited')
      BY <1>3, DeskFlagsMove DEF FlagsInv
    <2>3. IsConsole => ConsoleFlags(device, Awaited')
      BY <1>3, ConsoleMoves DEF FlagsInv
    <2> QED
      BY <1>1, <2>1, <2>2, <2>3 DEF FlagsInv
  <1> QED
    BY <1>2, <1>3

LEMMA ReplyMoves ==
    ASSUME NEW c \in calls, IsCall(c), NEW r, Replied(c, r)
    PROVE  Awaited' = Awaited \/ \E d : Moves(Awaited, Awaited', c, d) /\ d.at # "Pausing"
  <1>1. PICK d : d = [c EXCEPT !.at = "Answered", !.reply = r]
    OBVIOUS
  <1>2. /\ d.kind = c.kind /\ d.serial = c.serial /\ d.generation = c.generation
        /\ d.at = "Answered"
    BY <1>1 DEF IsCall
  <1>3. CASE GivenUp(c)
    BY <1>3 DEF Replied, Awaited
  <1>4. CASE ~GivenUp(c)
    <2>1. c \in Awaited /\ Awaited' = (Awaited \ {c}) \union {d}
      BY <1>1, <1>2, <1>4 DEF Replied, Awaited, GivenUp
    <2> QED
      BY <1>2, <2>1 DEF Moves
  <1> QED
    BY <1>3, <1>4

LEMMA ServeFlags ==
    ASSUME FlagsInv, OnceInv, NEW c \in calls, Serve(c)
    PROVE  FlagsInv'
  <1>1. IsCall(c) /\ UNCHANGED <<scene, device>> /\ \E r : Replied(c, r)
    BY ServeEffects DEF OnceInv, KeysOK, Meant
  <1> QED
    BY <1>1, ReplyMoves, FlagsMove

LEMMA LoseFlags ==
    ASSUME FlagsInv, OnceInv, NEW c \in calls, Lose(c)
    PROVE  FlagsInv'
  <1>1. IsCall(c) /\ UNCHANGED <<scene, device>>
    BY DEF OnceInv, KeysOK, Meant, Lose
  <1>2. PICK d : d = [c EXCEPT !.at = "Answered", !.reply = Failure("Unreachable")]
    OBVIOUS
  <1>3. /\ d.kind = c.kind /\ d.serial = c.serial /\ d.generation = c.generation
        /\ d.at = "Answered"
    BY <1>1, <1>2 DEF IsCall
  <1>4. c \in Awaited /\ Awaited' = (Awaited \ {c}) \union {d}
    <2>1. PICK remains \in {Remains(c)} \union (IF c.at = "Sent" THEN {{}} ELSE {}) :
            calls' = ((calls \ {c}) \union remains) \union {d}
      BY <1>2 DEF Lose
    <2>2. \A e \in remains : GivenUp(e)
      BY <1>1, <2>1 DEF Remains, IsCall, GivenUp
    <2>3. c \in Awaited /\ ~GivenUp(d)
      BY <1>3 DEF Lose, Awaited, GivenUp
    <2> QED
      BY <2>1, <2>2, <2>3 DEF Awaited
  <1> QED
    BY <1>1, <1>3, <1>4, FlagsMove DEF Moves

LEMMA LinkedFlags ==
    ASSUME FlagsInv, OnceInv, Linked
    PROVE  FlagsInv'
  <1>1. (\A c \in calls : IsCall(c)) /\ UNCHANGED <<scene, device>>
    BY DEF OnceInv, KeysOK, Meant, Linked, SettleTaken, SettleCrashed, SettlementGoesOn,
           SettleOpened, SettleCommitted, appVars
  <1>2. CASE calls' = calls
    BY <1>1, <1>2, FlagsMove DEF Awaited
  <1>3. ASSUME NEW c \in calls, NEW r, Replied(c, r)
        PROVE  FlagsInv'
    BY <1>1, <1>3, ReplyMoves, FlagsMove
  <1>4. ASSUME NEW c \in calls, calls' = (calls \ {c}) \union {TakenUp(c)}
        PROVE  FlagsInv'
    <2>1. PICK d : d = TakenUp(c)
      OBVIOUS
    <2>2. /\ d.kind = c.kind /\ d.serial = c.serial /\ d.generation = c.generation
          /\ (GivenUp(c) <=> GivenUp(d)) /\ d.at # "Pausing"
      BY <1>1, <2>1 DEF TakenUp, IsCall, GivenUp
    <2>3. CASE GivenUp(c)
      <3>1. Awaited' = Awaited
        BY <1>4, <2>1, <2>2, <2>3 DEF Awaited
      <3> QED
        BY <1>1, <3>1, FlagsMove
    <2>4. CASE ~GivenUp(c)
      <3>1. c \in Awaited /\ Awaited' = (Awaited \ {c}) \union {d}
        BY <1>4, <2>1, <2>2, <2>4 DEF Awaited
      <3> QED
        BY <1>1, <2>2, <3>1, FlagsMove DEF Moves
    <2> QED
      BY <2>3, <2>4
  <1>5. ASSUME NEW c \in calls, SettleTaken(c)
        PROVE  FlagsInv'
    BY <1>3, <1>4, <1>5 DEF SettleTaken
  <1>6. ASSUME NEW c \in calls, SettleOpened(c) \/ SettleCommitted(c) \/ SettleCrashed(c)
        PROVE  FlagsInv'
    BY <1>2, <1>3, <1>6 DEF SettleOpened, SettleCommitted, SettleCrashed
  <1>7. CASE UNCHANGED appVars
    BY <1>2, <1>7 DEF appVars
  <1> QED
    BY <1>5, <1>6, <1>7 DEF Linked, SettlementGoesOn

-----------------------------------------------------------------------------
(* The flag of the phone: the page of its review. *)

\* What an app sends is on its way.
Sent(e, d, kind) == e.kind = kind /\ e.generation = d.generation /\ e.at = "Sent"

LEMMA SentRequests ==
    ASSUME NEW d, NEW kind, NEW k, NEW n, NEW u, NEW v, NEW w
    PROVE  /\ Sent(Request(d, kind), d, kind)
           /\ Sent([Request(d, kind) EXCEPT !.user = u], d, kind)
           /\ Sent([Request(d, kind) EXCEPT !.serial = n], d, kind)
           /\ [Request(d, kind) EXCEPT !.serial = n].serial = n
           /\ Sent([Request(d, kind) EXCEPT !.version = v], d, kind)
           /\ Sent([Request(d, kind) EXCEPT !.no = n], d, kind)
           /\ Sent([Request(d, kind) EXCEPT !.key = k, !.intent = w], d, kind)
           /\ Sent([Request(d, kind) EXCEPT !.key = k, !.intent = w, !.no = n, !.version = v], d, kind)
           /\ Sent([Request(d, kind) EXCEPT !.serial = n, !.key = k, !.intent = w], d, kind)
           /\ [Request(d, kind) EXCEPT !.serial = n, !.key = k, !.intent = w].serial = n
  BY DEF Sent, Request

LEMMA PhoneStays ==
    ASSUME PhoneFlags(device, Awaited), NEW Left, NEW New,
           Awaited' = (Awaited \ Left) \union New,
           device'.reviewBusy = device.reviewBusy, device'.reviewSerial = device.reviewSerial,
           \A e \in New : ~ByReview(e),
           \A e \in Left : ByReview(e) => e.serial # device.reviewSerial
    PROVE  PhoneFlags(device', Awaited')
  <1>1. OfPage(Awaited', device'.reviewSerial) = OfPage(Awaited, device.reviewSerial)
    BY DEF OfPage, Kinds, ByReview
  <1> QED
    BY <1>1 DEF PhoneFlags

\* A review is begun, or submitted: its page waits for nothing yet.
LEMMA PhoneAsksReview ==
    ASSUME NEW e, ByReview(e), e.serial = device'.reviewSerial,
           Awaited' = Awaited \union {e}, device'.reviewBusy = TRUE,
           OfPage(Awaited, device'.reviewSerial) = {}
    PROVE  PhoneFlags(device', Awaited')
  <1>1. OfPage(Awaited', device'.reviewSerial) = {e}
    BY DEF OfPage, Kinds, ByReview
  <1> QED
    BY <1>1 DEF PhoneFlags, Waits

LEMMA PhoneTapsFlags ==
    ASSUME PhoneOwn, PhoneFlags(device, Awaited), IsPhone(device), MobileTaps \/ MobilePolls
    PROVE  PhoneFlags(device', Awaited')
  <1>1. ASSUME NEW d, d.reviewBusy = device.reviewBusy, d.reviewSerial = device.reviewSerial,
               NEW kind, kind \notin {"review", "submit"}, NEW e, Sent(e, device, kind),
               Sends(d, {e})
        PROVE  PhoneFlags(device', Awaited')
    <2>1. PICK New, Left : New = {e} /\ Left = {}
      OBVIOUS
    <2>2. \A x \in New : ~GivenUp(x) /\ ~ByReview(x)
      BY <1>1, <2>1 DEF Sent, GivenUp, ByReview
    <2>3. device' = d /\ Awaited' = (Awaited \ Left) \union New
      BY <1>1, <2>1, <2>2, SendsAll
    <2>4. \A x \in Left : ByReview(x) => x.serial # device.reviewSerial
      BY <2>1
    <2> QED
      BY <1>1, <2>2, <2>3, <2>4, PhoneStays
  <1>2. \A c \in Awaited : ByReview(c) => c.serial \in 0..device.reviewSerial
    BY DEF PhoneOwn, OnPhone, OfReview
  <1>3. CASE MobileLogin
    <2>1. PICK u : Sends(device, {[Request(device, "login") EXCEPT !.user = u]})
      BY <1>3 DEF MobileLogin
    <2>2. Sent([Request(device, "login") EXCEPT !.user = u], device, "login")
      BY SentRequests
    <2> QED
      BY <1>1, <2>1, <2>2
  <1>4. CASE MobileSignOff
    <2>1. PICK kind \in {"logout", "delete"} : Sends(device, {Request(device, kind)})
      BY <1>4 DEF MobileSignOff
    <2>2. Sent(Request(device, kind), device, kind)
      BY SentRequests
    <2> QED
      BY <1>1, <2>1, <2>2
  <1>5. CASE MobileOpensPage
    <2>1. CASE \E kind \in {"orders", "profile", "active"} : Sends(device, {Load(device, kind)})
      <3>1. PICK kind \in {"orders", "profile", "active"} : Sends(device, {Load(device, kind)})
        BY <2>1
      <3>2. Sent(Load(device, kind), device, kind)
        BY SentRequests DEF Load
      <3> QED
        BY <1>1, <3>1, <3>2
    <2>2. CASE \E d : d = [device EXCEPT !.serial = @ + 1] /\ Sends(d, {Load(d, "list")})
      <3>1. PICK d, e : /\ d = [device EXCEPT !.serial = @ + 1] /\ e = Load(d, "list")
                        /\ Sends(d, {e})
        BY <2>2
      <3>2. /\ d.generation = device.generation /\ d.reviewBusy = device.reviewBusy
            /\ d.reviewSerial = device.reviewSerial
        BY <3>1 DEF IsPhone
      <3>3. Sent(e, device, "list")
        BY <3>1, <3>2 DEF Sent, Load, Request
      <3> QED
        BY <1>1, <3>1, <3>2, <3>3
    <2> QED
      BY <1>5, <2>1, <2>2 DEF MobileOpensPage
  <1>6. CASE MobileRenames
    <2>1. PICK v : Sends(device, {[Request(device, "rename") EXCEPT !.version = v]})
      BY <1>6 DEF MobileRenames
    <2>2. Sent([Request(device, "rename") EXCEPT !.version = v], device, "rename")
      BY SentRequests
    <2> QED
      BY <1>1, <2>1, <2>2
  <1>7. CASE MobilePosts
    <2>1. PICK kind, no, version : /\ Post(kind, no, version)
                                   /\ kind \in {"recharge", "create"} \union DOMAIN From
      BY <1>7 DEF MobilePosts
    <2>2. kind \notin {"review", "submit"}
      BY <2>1 DEF From
    <2>3. PICK key, wish, d, e, keys, meant, following :
            /\ d = [device EXCEPT !.keys = keys, !.meant = meant, !.nextKey = following]
            /\ e = [Request(device, kind) EXCEPT !.key = key, !.intent = wish, !.no = no,
                                                 !.version = version]
            /\ Sends(d, {e})
      BY <2>1 DEF Post
    <2>4. Sent(e, device, kind)
      BY <2>3, SentRequests
    <2>5. d.reviewBusy = device.reviewBusy /\ d.reviewSerial = device.reviewSerial
      BY <2>3 DEF IsPhone
    <2> QED
      BY <1>1, <2>2, <2>3, <2>4, <2>5
  <1>8. CASE MobileBeginsReview
    <2>1. PICK d, e, k, m : /\ d = [device EXCEPT !.reviewSerial = @ + 1, !.reviewKey = k,
                                        !.nextKey = m, !.review = Nothing,
                                        !.reviewBusy = TRUE, !.reviewed = FALSE]
                            /\ e = [Request(d, "review") EXCEPT !.serial = d.reviewSerial]
                            /\ Sends(d, {e})
      BY <1>8 DEF MobileBeginsReview
    <2>2. Sent(e, d, "review") /\ e.serial = d.reviewSerial
      BY <2>1 DEF Sent, Request
    <2>3. d.reviewSerial = device.reviewSerial + 1 /\ d.reviewBusy = TRUE
      BY <2>1 DEF IsPhone
    <2>4. PICK New : New = {e}
      OBVIOUS
    <2>5. \A x \in New : ~GivenUp(x)
      BY <2>2, <2>4 DEF Sent, GivenUp
    <2>6. device' = d /\ Awaited' = Awaited \union {e}
      BY <2>1, <2>4, <2>5, SendsAll
    <2>7. OfPage(Awaited, device'.reviewSerial) = {}
      BY <1>2, <2>3, <2>6 DEF OfPage, Kinds, ByReview, PhoneOwn, OnPhone
    <2>8. ByReview(e) /\ e.serial = device'.reviewSerial /\ device'.reviewBusy = TRUE
      BY <2>2, <2>3, <2>6 DEF Sent, ByReview
    <2> QED
      BY <2>6, <2>7, <2>8, PhoneAsksReview
  <1>9. CASE MobileSubmitsReview
    <2>1. PICK d, e : /\ d = [device EXCEPT !.reviewBusy = TRUE]
                      /\ e = [Request(d, "submit") EXCEPT !.serial = d.reviewSerial,
                                 !.key = d.reviewKey, !.intent = d.reviewKey]
                      /\ Sends(d, {e})
      BY <1>9 DEF MobileSubmitsReview
    <2>2. Sent(e, d, "submit") /\ e.serial = d.reviewSerial
      BY <2>1 DEF Sent, Request
    <2>3. d.reviewSerial = device.reviewSerial /\ d.reviewBusy = TRUE
      BY <2>1 DEF IsPhone
    <2>4. PICK New : New = {e}
      OBVIOUS
    <2>5. \A x \in New : ~GivenUp(x)
      BY <2>2, <2>4 DEF Sent, GivenUp
    <2>6. device' = d /\ Awaited' = Awaited \union {e}
      BY <2>1, <2>4, <2>5, SendsAll
    <2>7. OfPage(Awaited, device'.reviewSerial) = {}
      BY <1>9, <2>3, <2>6 DEF PhoneFlags, Waits, MobileSubmitsReview
    <2>8. ByReview(e) /\ e.serial = device'.reviewSerial /\ device'.reviewBusy = TRUE
      BY <2>2, <2>3, <2>6 DEF Sent, ByReview
    <2> QED
      BY <2>6, <2>7, <2>8, PhoneAsksReview
  <1>10. CASE MobilePolls
    <2>1. PICK n : Sends(device, {[Request(device, "flow") EXCEPT !.no = n]})
      BY <1>10 DEF MobilePolls
    <2>2. Sent([Request(device, "flow") EXCEPT !.no = n], device, "flow")
      BY SentRequests
    <2> QED
      BY <1>1, <2>1, <2>2
  <1> QED
    BY <1>3, <1>4, <1>5, <1>6, <1>7, <1>8, <1>9, <1>10 DEF MobileTaps

LEMMA PhoneReceivesFlags ==
    ASSUME PhoneOwn, PhoneFlags(device, Awaited), IsPhone(device), NEW c \in calls,
           MobileReceives(c)
    PROVE  PhoneFlags(device', Awaited')
  <1>1. c \in Awaited
    BY DEF MobileReceives, Awaited, GivenUp
  <1>2. ASSUME NEW d, d.reviewBusy = device.reviewBusy, d.reviewSerial = device.reviewSerial,
               ByReview(c) => c.serial # device.reviewSerial, NEW New, Handles(c, d, New),
               \A e \in New : e.at = "Sent" /\ ~ByReview(e)
        PROVE  PhoneFlags(device', Awaited')
    <2>1. \A e \in New : ~GivenUp(e)
      BY <1>2 DEF GivenUp
    <2>2. device' = d /\ Awaited' = (Awaited \ {c}) \union New
      BY <1>2, <2>1, HandlesAll
    <2>3. PICK Left : Left = {c}
      OBVIOUS
    <2>4. Awaited' = (Awaited \ Left) \union New
          /\ \A e \in Left : ByReview(e) => e.serial # device.reviewSerial
      BY <1>2, <2>2, <2>3
    <2> QED
      BY <1>2, <2>2, <2>4, PhoneStays
  <1>3. ASSUME NEW d, d.reviewBusy = device.reviewBusy, d.reviewSerial = device.reviewSerial,
               ByReview(c) => c.serial # device.reviewSerial, Handles(c, d, {})
        PROVE  PhoneFlags(device', Awaited')
    <2>1. PICK New : New = {}
      OBVIOUS
    <2> QED
      BY <1>2, <1>3, <2>1
  <1>4. \A d, kind : Load(d, kind).at = "Sent" /\ Load(d, kind).kind = kind
    BY DEF Load, Request
  <1>5. PICK r : r = Reported(c, device)
    OBVIOUS
  <1>6. IsPhone(r) /\ r.reviewBusy = device.reviewBusy /\ r.reviewSerial = device.reviewSerial
    BY <1>5 DEF Reported, IsPhone
  <1>7. \A x : /\ [device EXCEPT !.flow = x].reviewBusy = device.reviewBusy
               /\ [device EXCEPT !.flow = x].reviewSerial = device.reviewSerial
               /\ [r EXCEPT !.flow = x].reviewBusy = device.reviewBusy
               /\ [r EXCEPT !.flow = x].reviewSerial = device.reviewSerial
    BY <1>6 DEF IsPhone
  <1>8. CASE MobileDrops(c)
    <2>1. Handles(c, device, {}) /\ (ByReview(c) => c.serial # device.reviewSerial)
      BY <1>8 DEF MobileDrops, Plain, ByReview
    <2> QED
      BY <1>3, <2>1
  <1>9. CASE MobileEnds(c)
    <2>1. PICK d : d = Cleared(device) /\ Handles(c, d, {})
      BY <1>9 DEF MobileEnds
    <2>3. device' = d /\ Awaited' = Awaited \ {c}
      BY <2>1, HandlesNone
    <2>4. d.reviewBusy = FALSE /\ d.reviewSerial = device.reviewSerial + 1
      BY <2>1 DEF Cleared, IsPhone
    <2>5. OfPage(Awaited', device'.reviewSerial) = {}
      BY <2>3, <2>4 DEF OfPage, Kinds, ByReview, PhoneOwn, OnPhone, OfReview
    <2> QED
      BY <2>3, <2>4, <2>5 DEF PhoneFlags, Waits
  <1>10. CASE MobileReviewed(c)
    <2>1. PICK d : /\ Handles(c, d, {})
                   /\ \/ d = [device EXCEPT !.reviewBusy = FALSE]
                      \/ \E x : d = [[device EXCEPT !.reviewBusy = FALSE] EXCEPT
                                        !.review = Read(c), !.reviewed = x]
      BY <1>10 DEF MobileReviewed
    <2>2. d.reviewBusy = FALSE /\ d.reviewSerial = device.reviewSerial
      BY <2>1 DEF IsPhone
    <2>4. device' = d /\ Awaited' = Awaited \ {c}
      BY <2>1, HandlesNone
    <2>5. c \in OfPage(Awaited, device.reviewSerial)
      BY <1>1, <1>10 DEF MobileReviewed, OfPage, Kinds, ByReview
    <2>6. OfPage(Awaited', device'.reviewSerial) = {}
      BY <2>2, <2>4, <2>5 DEF OfPage, Kinds, PhoneFlags, Waits
    <2> QED
      BY <2>2, <2>4, <2>6 DEF PhoneFlags, Waits
  <1>11. CASE MobileFails(c)
    BY <1>3, <1>11 DEF MobileFails, AfterFailure, Plain, ByReview
  <1>12. CASE MobileLoggedIn(c)
    <2>1. PICK d, New : /\ d = [device EXCEPT !.token = c.reply.no, !.serial = @ + 1]
                        /\ New = {Load(d, kind) : kind \in {"profile", "list", "active"}}
                        /\ Handles(c, d, New)
      BY <1>12 DEF MobileLoggedIn
    <2>2. d.reviewBusy = device.reviewBusy /\ d.reviewSerial = device.reviewSerial
      BY <2>1 DEF IsPhone
    <2>3. \A e \in New : e.at = "Sent" /\ ~ByReview(e)
      BY <1>4, <2>1 DEF ByReview
    <2> QED
      BY <1>2, <1>12, <2>1, <2>2, <2>3 DEF MobileLoggedIn, Succeeded, ByReview
  <1>13. CASE MobileShowsStations(c) \/ MobileShowsOrders(c)
    <2>1. PICK d : /\ Handles(c, d, {}) /\ ~ByReview(c)
                   /\ d \in {device, [device EXCEPT !.list = Read(c)],
                             [device EXCEPT !.orders = Read(c)]}
      BY <1>13 DEF MobileShowsStations, MobileShowsOrders, Succeeded, ByReview
    <2>2. d.reviewBusy = device.reviewBusy /\ d.reviewSerial = device.reviewSerial
      BY <2>1 DEF IsPhone
    <2> QED
      BY <1>3, <2>1, <2>2
  <1>14. CASE MobileShowsProfile(c)
    <2>1. PICK d, New : /\ Handles(c, d, New) /\ ~ByReview(c)
                        /\ New = {Load(device, "avatar")} \/ New = {}
                        /\ \E x : d \in {[device EXCEPT !.profile = x], [device EXCEPT !.avatar = x]}
      BY <1>14 DEF MobileShowsProfile, Succeeded, ByReview
    <2>2. d.reviewBusy = device.reviewBusy /\ d.reviewSerial = device.reviewSerial
      BY <2>1 DEF IsPhone
    <2>3. \A e \in New : e.at = "Sent" /\ ~ByReview(e)
      BY <1>4, <2>1 DEF ByReview
    <2> QED
      BY <1>2, <2>1, <2>2, <2>3
  <1>15. CASE MobileShowsFlow(c) \/ MobileSettled(c) \/ MobileProfileChanged(c)
    <2>1. PICK d, New : /\ Handles(c, d, New) /\ ~ByReview(c)
                        /\ New \in {{}, {Load(device, "profile")},
                                    {Load(device, "orders"), Load(device, "profile")}}
                        /\ \/ d = r
                           \/ \E x : d \in {[device EXCEPT !.flow = x], [r EXCEPT !.flow = x]}
      BY <1>5, <1>15
      DEF MobileShowsFlow, MobileSettled, MobileProfileChanged, Succeeded, ByReview
    <2>2. d.reviewBusy = device.reviewBusy /\ d.reviewSerial = device.reviewSerial
      BY <1>6, <1>7, <2>1
    <2>3. \A e \in New : e.at = "Sent" /\ ~ByReview(e)
      BY <1>4, <2>1 DEF ByReview
    <2> QED
      BY <1>2, <2>1, <2>2, <2>3
  <1>16. CASE MobilePolled(c)
    <2>1. ~ByReview(c)
      BY <1>16 DEF MobilePolled, Succeeded, ByReview
    <2>2. CASE Handles(c, device, {})
      BY <1>3, <2>1, <2>2
    <2>3. ASSUME NEW New, Handles(c, [device EXCEPT !.flow = Shown(c)], New),
                 New = {} \/ New = {Load(device, kind) : kind \in {"active", "orders", "profile"}}
                 \/ New = {[Request(device, "progress") EXCEPT !.no = c.no]}
          PROVE  PhoneFlags(device', Awaited')
      <3>1. PICK e : e = [Request(device, "progress") EXCEPT !.no = c.no]
        OBVIOUS
      <3>2. e.at = "Sent" /\ e.kind = "progress"
        BY <3>1 DEF Request
      <3>a. \A x \in {Load(device, kind) : kind \in {"active", "orders", "profile"}} :
              x.at = "Sent" /\ ~ByReview(x)
        BY <1>4 DEF ByReview
      <3>3. \A x \in New : x.at = "Sent" /\ ~ByReview(x)
        BY <2>3, <3>1, <3>2, <3>a DEF ByReview
      <3> QED
        BY <1>2, <1>7, <2>1, <2>3, <3>3
    <2>4. CASE Handles(c, [device EXCEPT !.flow = Shown(c)],
                CASE c.kind = "flow" /\ c.reply.status >= Over ->
                        {Load(device, kind) : kind \in {"active", "orders", "profile"}}
                  [] c.kind = "flow" /\ c.reply.status = Charging ->
                        {[Request(device, "progress") EXCEPT !.no = c.no]}
                  [] OTHER -> {})
      <3>1. PICK New : New = CASE c.kind = "flow" /\ c.reply.status >= Over ->
                        {Load(device, kind) : kind \in {"active", "orders", "profile"}}
                  [] c.kind = "flow" /\ c.reply.status = Charging ->
                        {[Request(device, "progress") EXCEPT !.no = c.no]}
                  [] OTHER -> {}
        OBVIOUS
      <3>2. Handles(c, [device EXCEPT !.flow = Shown(c)], New)
        BY <2>4, <3>1
      <3>3. New = {} \/ New = {Load(device, kind) : kind \in {"active", "orders", "profile"}}
            \/ New = {[Request(device, "progress") EXCEPT !.no = c.no]}
        BY <3>1
      <3> QED
        BY <2>3, <3>2, <3>3
    <2> QED
      BY <1>16, <2>2, <2>4 DEF MobilePolled
  <1> QED
    BY <1>8, <1>9, <1>10, <1>11, <1>12, <1>13, <1>14, <1>15, <1>16 DEF MobileReceives

-----------------------------------------------------------------------------
(* The flags of the window of the users. *)

LEMMA KindsStay ==
    ASSUME NEW A, NEW K, NEW flag, Waits(flag, Kinds(A, K)), NEW Left, NEW New,
           \A e \in Left : e.kind \notin K, \A e \in New : e.kind \notin K
    PROVE  Waits(flag, Kinds((A \ Left) \union New, K))
  <1>1. Kinds((A \ Left) \union New, K) = Kinds(A, K)
    BY DEF Kinds
  <1> QED
    BY <1>1

LEMMA KindsRaised ==
    ASSUME NEW A, NEW K, Kinds(A, K) = {}, NEW e, e.kind \in K
    PROVE  Kinds(A \union {e}, K) = {e}
  BY DEF Kinds

LEMMA KindsEnded ==
    ASSUME NEW A, NEW K, NEW flag, Waits(flag, Kinds(A, K)), NEW c \in A, c.kind \in K,
           NEW New, \A e \in New : e.kind \notin K
    PROVE  Waits(FALSE, Kinds((A \ {c}) \union New, K))
  <1>1. c \in Kinds(A, K)
    BY DEF Kinds
  <1>2. Kinds((A \ {c}) \union New, K) = {}
    BY <1>1 DEF Kinds, Waits
  <1> QED
    BY <1>2 DEF Waits

\* The dialog stays as it is.
LEMMA PagesStay ==
    ASSUME NEW p, NEW A, DeskPages(p, A), NEW Left, NEW New, NEW d,
           d.reviewBusy = p.reviewBusy, d.reviewKey = p.reviewKey,
           d.nextKey \in {p.nextKey, p.nextKey + 1},
           \A e \in Left : e.kind \notin {"review", "submit"},
           \A e \in New : e.kind \notin {"review", "submit"}
    PROVE  DeskPages(d, (A \ Left) \union New)
  <1>1. Kinds((A \ Left) \union New, {"review", "submit"}) = Kinds(A, {"review", "submit"})
    BY DEF Kinds
  <1>2. \A n : OfPage((A \ Left) \union New, n) = OfPage(A, n)
    BY <1>1 DEF OfPage
  <1>3. d.nextKey \in Nat \ {0} /\ d.reviewKey \in 0..(d.nextKey - 1)
        /\ 1..(p.nextKey - 1) \subseteq 1..(d.nextKey - 1)
    BY DEF DeskPages
  <1>4. \A c \in Kinds((A \ Left) \union New, {"review", "submit"}) : c.serial \in 1..(d.nextKey - 1)
    BY <1>1, <1>3 DEF DeskPages
  <1> QED
    BY <1>2, <1>3, <1>4 DEF DeskPages

Flagged == {"login", "flow", "progress", "review", "submit"}
StillFlags(d) ==
    /\ d.loggingIn = device.loggingIn /\ d.polling = device.polling
    /\ d.reviewBusy = device.reviewBusy /\ d.reviewKey = device.reviewKey
    /\ d.nextKey \in {device.nextKey, device.nextKey + 1}

LEMMA DeskStays ==
    ASSUME DeskFlags(device, Awaited), StillFlags(device'), NEW Left, NEW New,
           Awaited' = (Awaited \ Left) \union New,
           \A e \in Left : e.kind \notin Flagged, \A e \in New : e.kind \notin Flagged
    PROVE  DeskFlags(device', Awaited')
  <1>1. PICK A, p, d : A = Awaited /\ p = device /\ d = device'
    OBVIOUS
  <1>2. Waits(p.loggingIn, Kinds((A \ Left) \union New, {"login"}))
    BY <1>1, KindsStay DEF DeskFlags, Flagged
  <1>3. Waits(p.polling, Kinds((A \ Left) \union New, {"flow", "progress"}))
    BY <1>1, KindsStay DEF DeskFlags, Flagged
  <1>4. DeskPages(d, (A \ Left) \union New)
    BY <1>1, PagesStay DEF DeskFlags, Flagged, StillFlags
  <1> QED
    BY <1>1, <1>2, <1>3, <1>4 DEF DeskFlags, StillFlags

\* What it keeps of the flags from one state to another.
Same(d, p) ==
    /\ IsWindow(d) /\ d.loggingIn = p.loggingIn /\ d.polling = p.polling
    /\ d.reviewBusy = p.reviewBusy /\ d.reviewKey = p.reviewKey /\ d.nextKey = p.nextKey

LEMMA SamePages ==
    ASSUME NEW p, IsWindow(p), NEW x, NEW y
    PROVE  /\ Same(p, p)
           /\ Same([p EXCEPT !.serial = x], p) /\ Same([p EXCEPT !.ordersSerial = x], p)
           /\ Same([p EXCEPT !.list = x], p) /\ Same([p EXCEPT !.orders = x], p)
           /\ Same([p EXCEPT !.profile = x, !.avatar = y], p)
           /\ Same([p EXCEPT !.avatar = x], p) /\ Same([p EXCEPT !.asking = x], p)
           /\ Same([p EXCEPT !.review = x, !.reviewed = y], p)
  BY DEF Same, IsWindow

LEMMA SameSession ==
    ASSUME NEW p, IsWindow(p), NEW x, NEW y
    PROVE  /\ Same([p EXCEPT !.online = FALSE, !.inside = TRUE], p)
           /\ Same([p EXCEPT !.token = 0, !.online = FALSE, !.inside = FALSE], p)
           /\ Same([p EXCEPT !.token = x, !.online = TRUE, !.inside = TRUE, !.serial = y], p)
  BY DEF Same, IsWindow

LEMMA SameFlow ==
    ASSUME NEW p, IsWindow(p), NEW x
    PROVE  /\ Same([p EXCEPT !.flow = x, !.charging = FALSE, !.inside = TRUE], p)
           /\ Same([p EXCEPT !.flow.status = x, !.charging = TRUE], p)
           /\ Same(Forgotten(p), p)
  BY DEF Same, IsWindow, Forgotten

LEMMA SameRestored ==
    ASSUME NEW p, IsWindow(p), NEW c
    PROVE  Same(Restored(c, p), p)
  <1>1. PICK shown : shown = [p EXCEPT !.flow = Shown(c)]
    OBVIOUS
  <1>2. Same(shown, p)
    BY <1>1 DEF Same, IsWindow
  <1>3. PICK paged : paged = [shown EXCEPT !.inside = TRUE]
    OBVIOUS
  <1>4. Same(paged, p)
    BY <1>2, <1>3 DEF Same, IsWindow
  <1>5. /\ Same([shown EXCEPT !.asking = @ + 1], p)
        /\ Same([paged EXCEPT !.charging = TRUE], p)
        /\ Same([paged EXCEPT !.charging = FALSE], p)
        /\ Same([paged EXCEPT !.flow.no = 0], p)
    BY <1>2, <1>4 DEF Same, IsWindow
  <1>6. \/ Restored(c, p) = [shown EXCEPT !.asking = @ + 1]
        \/ Restored(c, p) = [paged EXCEPT !.charging = TRUE]
        \/ Restored(c, p) = [paged EXCEPT !.charging = FALSE]
        \/ Restored(c, p) = [paged EXCEPT !.flow.no = 0]
    BY <1>1, <1>3 DEF Restored
  <1> QED
    BY <1>5, <1>6

\* The login is sent, and answered.
LEMMA DeskLogsIn ==
    ASSUME NEW p, NEW A, DeskFlags(p, A), ~p.loggingIn, NEW d, d.loggingIn = TRUE,
           d.polling = p.polling, d.reviewBusy = p.reviewBusy, d.reviewKey = p.reviewKey,
           d.nextKey = p.nextKey, NEW e, e.kind = "login"
    PROVE  DeskFlags(d, A \union {e})
  <1>0. PICK Left, New : Left = {} /\ New = {e}
    OBVIOUS
  <1>1. New = {e} /\ (A \ Left) \union New = A \union {e} /\ \A x \in Left : FALSE
    BY <1>0
  <1>2. Kinds(A, {"login"}) = {} /\ e.kind \in {"login"}
    BY DEF DeskFlags, Waits
  <1>3. Waits(d.loggingIn, Kinds(A \union {e}, {"login"}))
    <2>1. Kinds(A \union {e}, {"login"}) = {e}
      BY <1>2, KindsRaised
    <2> QED
      BY <2>1 DEF Waits
  <1>4. Waits(p.polling, Kinds((A \ Left) \union New, {"flow", "progress"}))
    BY <1>1, KindsStay DEF DeskFlags
  <1>5. DeskPages(d, (A \ Left) \union New)
    BY <1>1, PagesStay DEF DeskFlags
  <1> QED
    BY <1>1, <1>3, <1>4, <1>5 DEF DeskFlags

LoginOver(d, p) ==
    /\ d.loggingIn = FALSE /\ d.polling = p.polling
    /\ d.reviewBusy = p.reviewBusy /\ d.reviewKey = p.reviewKey /\ d.nextKey = p.nextKey

LEMMA DeskLoginAnswered ==
    ASSUME NEW p, NEW A, DeskFlags(p, A), NEW d, LoginOver(d, p), NEW c \in A, c.kind = "login",
           NEW New, \A e \in New : e.kind \notin Flagged
    PROVE  DeskFlags(d, (A \ {c}) \union New)
  <1>1. PICK Left : Left = {c}
    OBVIOUS
  <1>2. Waits(FALSE, Kinds((A \ {c}) \union New, {"login"}))
    BY KindsEnded DEF DeskFlags, Flagged
  <1>3. Waits(p.polling, Kinds((A \ Left) \union New, {"flow", "progress"}))
    BY <1>1, KindsStay DEF DeskFlags, Flagged
  <1>4. DeskPages(d, (A \ Left) \union New)
    BY <1>1, PagesStay DEF DeskFlags, Flagged, LoginOver
  <1> QED
    BY <1>1, <1>2, <1>3, <1>4 DEF DeskFlags, LoginOver

\* A poll is sent, and answered.
AsksFlow(d, p, e) ==
    /\ e.kind \in {"flow", "progress"} /\ ~p.polling /\ d.polling = TRUE
    /\ d.loggingIn = p.loggingIn /\ d.reviewBusy = p.reviewBusy
    /\ d.reviewKey = p.reviewKey /\ d.nextKey = p.nextKey

LEMMA DeskAsks ==
    ASSUME NEW p, NEW A, DeskFlags(p, A), NEW d, NEW e, AsksFlow(d, p, e)
    PROVE  DeskFlags(d, A \union {e})
  <1>0. PICK Left, New : Left = {} /\ New = {e}
    OBVIOUS
  <1>1. New = {e} /\ (A \ Left) \union New = A \union {e} /\ \A x \in Left : FALSE
    BY <1>0
  <1>2. Kinds(A, {"flow", "progress"}) = {} /\ e.kind \in {"flow", "progress"}
    BY DEF DeskFlags, Waits, AsksFlow
  <1>3. Waits(d.polling, Kinds(A \union {e}, {"flow", "progress"}))
    <2>1. Kinds(A \union {e}, {"flow", "progress"}) = {e}
      BY <1>2, KindsRaised
    <2> QED
      BY <2>1 DEF Waits, AsksFlow
  <1>4. Waits(p.loggingIn, Kinds((A \ Left) \union New, {"login"}))
    BY <1>1, KindsStay DEF DeskFlags, AsksFlow
  <1>5. DeskPages(d, (A \ Left) \union New)
    BY <1>1, PagesStay DEF DeskFlags, AsksFlow
  <1> QED
    BY <1>1, <1>3, <1>4, <1>5 DEF DeskFlags, AsksFlow

PollOver(d, p) ==
    /\ d.polling = FALSE /\ d.loggingIn = p.loggingIn
    /\ d.reviewBusy = p.reviewBusy /\ d.reviewKey = p.reviewKey /\ d.nextKey = p.nextKey

LEMMA DeskPollAnswered ==
    ASSUME NEW p, NEW A, DeskFlags(p, A), NEW d, PollOver(d, p), NEW c \in A, c.kind \in {"flow", "progress"}
    PROVE  DeskFlags(d, A \ {c})
  <1>0. PICK Left, New : Left = {c} /\ New = {}
    OBVIOUS
  <1>1. /\ Left = {c} /\ (A \ Left) \union New = A \ {c} /\ (A \ {c}) \union New = A \ {c}
        /\ \A x \in New : FALSE
    BY <1>0
  <1>2. Waits(FALSE, Kinds((A \ {c}) \union New, {"flow", "progress"}))
    BY <1>1, KindsEnded DEF DeskFlags
  <1>3. Waits(p.loggingIn, Kinds((A \ Left) \union New, {"login"}))
    BY <1>1, KindsStay DEF DeskFlags
  <1>4. DeskPages(d, (A \ Left) \union New)
    BY <1>1, PagesStay DEF DeskFlags, PollOver
  <1> QED
    BY <1>1, <1>2, <1>3, <1>4 DEF DeskFlags, PollOver

\* The dialog: its requests touch the flag of the review alone.
LEMMA DeskReviews ==
    ASSUME NEW p, NEW A, DeskFlags(p, A), NEW d, d.loggingIn = p.loggingIn,
           d.polling = p.polling, NEW Left, NEW New,
           \A e \in Left \union New : e.kind \in {"review", "submit"},
           DeskPages(d, (A \ Left) \union New)
    PROVE  DeskFlags(d, (A \ Left) \union New)
  <1>1. (\A e \in Left : e.kind \notin {"login"}) /\ (\A e \in New : e.kind \notin {"login"})
        /\ (\A e \in Left : e.kind \notin {"flow", "progress"})
        /\ (\A e \in New : e.kind \notin {"flow", "progress"})
    OBVIOUS
  <1>2. Waits(p.loggingIn, Kinds((A \ Left) \union New, {"login"}))
    BY <1>1, KindsStay DEF DeskFlags
  <1>3. Waits(p.polling, Kinds((A \ Left) \union New, {"flow", "progress"}))
    BY <1>1, KindsStay DEF DeskFlags
  <1> QED
    BY <1>2, <1>3 DEF DeskFlags

\* A request of the dialog is sent: it is the only one of its page.
AsksReview(d, p, e) ==
    /\ e.kind \in {"review", "submit"} /\ e.serial = d.reviewKey
    /\ d.loggingIn = p.loggingIn /\ d.polling = p.polling /\ d.reviewBusy = TRUE
    /\ \/ d.reviewKey = p.nextKey /\ d.nextKey = p.nextKey + 1
       \/ p.reviewKey # 0 /\ ~p.reviewBusy /\ d.reviewKey = p.reviewKey /\ d.nextKey = p.nextKey

LEMMA DeskAsksReview ==
    ASSUME NEW p, NEW A, DeskFlags(p, A), NEW d, NEW e, AsksReview(d, p, e)
    PROVE  DeskFlags(d, A \union {e})
  <1>0. PICK Left, New : Left = {} /\ New = {e}
    OBVIOUS
  <1>1. New = {e} /\ (A \ Left) \union New = A \union {e} /\ \A x \in Left : FALSE
    BY <1>0
  <1>2. OfPage(A, d.reviewKey) = {}
    BY DEF AsksReview, DeskFlags, DeskPages, Waits, OfPage
  <1>3. Waits(d.reviewBusy, OfPage(A \union {e}, d.reviewKey))
    <2>1. OfPage(A \union {e}, d.reviewKey) = {e}
      BY <1>2 DEF AsksReview, OfPage, Kinds
    <2> QED
      BY <2>1 DEF Waits, AsksReview
  <1>4. d.nextKey \in Nat \ {0} /\ d.reviewKey \in 1..(d.nextKey - 1)
        /\ 1..(p.nextKey - 1) \subseteq 1..(d.nextKey - 1)
    BY DEF AsksReview, DeskFlags, DeskPages
  <1>5. \A c \in Kinds(A \union {e}, {"review", "submit"}) : c.serial \in 1..(d.nextKey - 1)
    BY <1>4 DEF AsksReview, DeskFlags, DeskPages, Kinds
  <1>a. d.reviewKey \in 0..(d.nextKey - 1)
    BY <1>4
  <1>6. DeskPages(d, A \union {e})
    BY Zenon, <1>3, <1>4, <1>5, <1>a DEF DeskPages
  <1>7. \A x \in Left \union New : x.kind \in {"review", "submit"}
    BY <1>1 DEF AsksReview
  <1>8. d.loggingIn = p.loggingIn /\ d.polling = p.polling
    BY DEF AsksReview
  <1> QED
    BY <1>1, <1>6, <1>7, <1>8, DeskReviews

\* Its reply is taken, or nobody waits for it any more; or it is closed.
LEMMA DeskReviewEnds ==
    ASSUME NEW p, NEW A, DeskFlags(p, A), NEW d, d.loggingIn = p.loggingIn,
           d.polling = p.polling, d.nextKey = p.nextKey, NEW Left \in SUBSET A,
           \A c \in Left : c.kind \in {"review", "submit"},
           \/ /\ d.reviewBusy = FALSE /\ d.reviewKey = p.reviewKey
              /\ \E c \in Left : c.serial = p.reviewKey
           \/ /\ d.reviewBusy = p.reviewBusy /\ d.reviewKey = p.reviewKey
              /\ \A c \in Left : c.serial # p.reviewKey
           \/ d.reviewBusy = FALSE /\ d.reviewKey = 0
    PROVE  DeskFlags(d, A \ Left)
  <1>0. PICK New : New = {}
    OBVIOUS
  <1>1. (A \ Left) \union New = A \ Left /\ \A x \in New : FALSE
    BY <1>0
  <1>2. /\ d.nextKey \in Nat \ {0} /\ d.reviewKey \in 0..(d.nextKey - 1)
        /\ \A c \in Kinds(A, {"review", "submit"}) : c.serial \in 1..(d.nextKey - 1)
    BY DEF DeskFlags, DeskPages
  <1>3. Waits(d.reviewBusy, OfPage(A \ Left, d.reviewKey))
    <2>1. CASE \E c \in Left : /\ c.serial = p.reviewKey /\ d.reviewBusy = FALSE
                               /\ d.reviewKey = p.reviewKey
      <3>1. PICK c \in Left : c.serial = p.reviewKey
        BY <2>1
      <3>2. c \in OfPage(A, p.reviewKey)
        BY <3>1 DEF OfPage, Kinds
      <3>3. OfPage(A \ Left, d.reviewKey) = {}
        BY <2>1, <3>1, <3>2 DEF DeskFlags, DeskPages, Waits, OfPage, Kinds
      <3> QED
        BY <2>1, <3>3 DEF Waits
    <2>2. CASE /\ d.reviewBusy = p.reviewBusy /\ d.reviewKey = p.reviewKey
               /\ \A c \in Left : c.serial # p.reviewKey
      <3>1. OfPage(A \ Left, d.reviewKey) = OfPage(A, p.reviewKey)
        BY <2>2 DEF OfPage, Kinds
      <3> QED
        BY <2>2, <3>1 DEF DeskFlags, DeskPages
    <2>3. CASE d.reviewBusy = FALSE /\ d.reviewKey = 0
      <3>1. OfPage(A \ Left, d.reviewKey) = {}
        BY <1>2, <2>3 DEF OfPage, Kinds
      <3> QED
        BY <2>3, <3>1 DEF Waits
    <2> QED
      BY <2>1, <2>2, <2>3
  <1>a. DeskPages(d, A \ Left)
    BY <1>2, <1>3 DEF DeskPages, Kinds
  <1>4. DeskPages(d, (A \ Left) \union New)
    BY <1>1, <1>a
  <1>5. \A x \in Left \union New : x.kind \in {"review", "submit"}
    BY <1>1
  <1>6. DeskFlags(d, (A \ Left) \union New)
    BY <1>4, <1>5, DeskReviews
  <1> QED
    BY <1>1, <1>6

\* A review that was there already is loaded instead.
LEMMA DeskLoadsReview ==
    ASSUME NEW p, NEW A, DeskFlags(p, A), NEW c \in A, c.kind = "submit",
           c.serial = p.reviewKey, NEW e, e.kind = "review", e.serial = c.serial
    PROVE  DeskFlags(p, (A \ {c}) \union {e})
  <1>1. PICK Left, New : Left = {c} /\ New = {e}
    OBVIOUS
  <1>2. OfPage((A \ {c}) \union {e}, p.reviewKey) = (OfPage(A, p.reviewKey) \ {c}) \union {e}
        /\ c \in OfPage(A, p.reviewKey)
    BY DEF OfPage, Kinds
  <1>3. Waits(p.reviewBusy, OfPage((A \ {c}) \union {e}, p.reviewKey))
    BY <1>2 DEF DeskFlags, DeskPages, Waits
  <1>4. DeskPages(p, (A \ {c}) \union {e})
    BY <1>3 DEF DeskFlags, DeskPages, Kinds
  <1>5. \A x \in Left \union New : x.kind \in {"review", "submit"}
    BY <1>1
  <1> QED
    <2>1. DeskPages(p, (A \ Left) \union New)
      BY <1>1, <1>4
    <2>2. DeskFlags(p, (A \ Left) \union New)
      BY <1>5, <2>1, DeskReviews
    <2> QED
      BY <1>1, <2>2

LEMMA DeskTapsFlags ==
    ASSUME DeskFlags(device, Awaited), IsWindow(device), DesktopTaps \/ DesktopPolls
    PROVE  DeskFlags(device', Awaited')
  <1>1. PICK A, p : A = Awaited /\ p = device
    OBVIOUS
  <1>2. DeskFlags(p, A) /\ IsWindow(p) /\ p.nextKey \in Nat
    BY <1>1 DEF DeskFlags, DeskPages
  <1>3. ASSUME NEW d, NEW kind, NEW e, Sent(e, device, kind), Sends(d, {e})
        PROVE  device' = d /\ Awaited' = A \union {e} /\ e.kind = kind
    <2>1. PICK New : New = {e}
      OBVIOUS
    <2>2. \A x \in New : ~GivenUp(x)
      BY <1>3, <2>1 DEF Sent, GivenUp
    <2> QED
      BY <1>1, <1>3, <2>1, <2>2, SendsAll DEF Sent
  <1>4. ASSUME NEW d, NEW kind, kind \notin Flagged, NEW e, Sent(e, device, kind), Sends(d, {e}),
               \/ Same(d, p)
               \/ d \in {[p EXCEPT !.nextKey = @ + 1],
                         [p EXCEPT !.asking = @ - 1, !.nextKey = @ + 1]}
        PROVE  DeskFlags(device', Awaited')
    <2>1. device' = d /\ Awaited' = A \union {e} /\ e.kind \notin Flagged
      BY <1>3, <1>4
    <2>2. PICK Left, New : Left = {} /\ New = {e}
      OBVIOUS
    <2>a. /\ d.loggingIn = p.loggingIn /\ d.polling = p.polling
          /\ d.reviewBusy = p.reviewBusy /\ d.reviewKey = p.reviewKey
          /\ d.nextKey \in {p.nextKey, p.nextKey + 1}
      <3>1. CASE Same(d, p)
        BY <3>1 DEF Same
      <3>2. CASE d = [p EXCEPT !.nextKey = @ + 1]
        BY <1>2, <3>2 DEF IsWindow
      <3>3. CASE d = [p EXCEPT !.asking = @ - 1, !.nextKey = @ + 1]
        BY <1>2, <3>3 DEF IsWindow
      <3> QED
        BY <1>4, <3>1, <3>2, <3>3
    <2>3. StillFlags(device')
      BY <1>1, <2>1, <2>a DEF StillFlags
    <2>4. /\ Awaited' = (Awaited \ Left) \union New
          /\ \A x \in Left : x.kind \notin Flagged
          /\ \A x \in New : x.kind \notin Flagged
      BY <1>1, <2>1, <2>2
    <2> QED
      BY <2>3, <2>4, DeskStays
  <1>5. CASE DesktopLogin
    <2>1. PICK u, d, e : /\ d = [p EXCEPT !.loggingIn = TRUE] /\ Sends(d, {e}) /\ ~p.loggingIn
                         /\ e = [Request(device, "login") EXCEPT !.user = u]
      BY <1>1, <1>5 DEF DesktopLogin
    <2>2. Sent(e, device, "login")
      BY <2>1, SentRequests
    <2>3. device' = d /\ Awaited' = A \union {e} /\ e.kind = "login"
      BY <1>3, <2>1, <2>2
    <2>4. /\ d.loggingIn = TRUE /\ d.polling = p.polling /\ d.reviewBusy = p.reviewBusy
          /\ d.reviewKey = p.reviewKey /\ d.nextKey = p.nextKey
      BY <1>2, <2>1 DEF IsWindow
    <2> QED
      BY <1>2, <2>1, <2>3, <2>4, DeskLogsIn
  <1>6. CASE DesktopSignOff
    <2>1. PICK kind \in {"logout", "delete"} : Sends(device, {Request(device, kind)})
      BY <1>6 DEF DesktopSignOff
    <2>2. Sent(Request(device, kind), device, kind) /\ Same(device, p) /\ kind \notin Flagged
      BY <1>1, SentRequests, SamePages DEF Flagged
    <2> QED
      BY <1>4, <2>1, <2>2
  <1>7. CASE DesktopOpensPage
    <2>1. Same(device, p)
      BY <1>1, <1>2, SamePages
    <2>2. CASE Sends([device EXCEPT !.serial = @ + 1],
                     {[Request(device, "list") EXCEPT !.serial = device.serial + 1]})
      <3>1. PICK d, e, n : /\ d = [p EXCEPT !.serial = n] /\ n = device.serial + 1 /\ Sends(d, {e})
                           /\ e = [Request(device, "list") EXCEPT !.serial = n]
        BY <1>1, <2>2
      <3>2. Same(d, p) /\ Sent(e, device, "list") /\ "list" \notin Flagged
        BY <1>2, <3>1, SamePages, SentRequests DEF Flagged
      <3> QED
        BY <1>4, <3>1, <3>2
    <2>3. CASE Sends([device EXCEPT !.ordersSerial = @ + 1],
                     {[Request(device, "orders") EXCEPT !.serial = device.ordersSerial + 1]})
      <3>1. PICK d, e, n : /\ d = [p EXCEPT !.ordersSerial = n] /\ n = device.ordersSerial + 1
                           /\ e = [Request(device, "orders") EXCEPT !.serial = n] /\ Sends(d, {e})
        BY <1>1, <2>3
      <3>2. Same(d, p) /\ Sent(e, device, "orders") /\ "orders" \notin Flagged
        BY <1>2, <3>1, SamePages, SentRequests DEF Flagged
      <3> QED
        BY <1>4, <3>1, <3>2
    <2>4. CASE Sends(device, {Request(device, "profile")})
      <3>1. Sent(Request(device, "profile"), device, "profile") /\ "profile" \notin Flagged
        BY SentRequests DEF Flagged
      <3> QED
        BY <1>4, <2>1, <2>4, <3>1
    <2>5. CASE Sends(device, {[Request(device, "rename") EXCEPT !.version = device.profile.version]})
      <3>1. PICK e, v : e = [Request(device, "rename") EXCEPT !.version = v] /\ Sends(device, {e})
        BY <2>5
      <3>2. Sent(e, device, "rename") /\ "rename" \notin Flagged
        BY <3>1, SentRequests DEF Flagged
      <3> QED
        BY <1>4, <2>1, <3>1, <3>2
    <2> QED
      BY <1>7, <2>2, <2>3, <2>4, <2>5 DEF DesktopOpensPage
  <1>8. \A kind : Sent(Keyed(kind), device, kind) /\ Sent(OfFlow(kind), device, kind)
    <2> SUFFICES ASSUME NEW kind
                 PROVE  Sent(Keyed(kind), device, kind) /\ Sent(OfFlow(kind), device, kind)
      OBVIOUS
    <2>1. PICK k, no, version : k = device.nextKey /\ no = device.flow.no /\ version = device.flow.status
      OBVIOUS
    <2>2. Sent([Request(device, kind) EXCEPT !.key = k, !.intent = k], device, kind)
      BY SentRequests
    <2>3. Keyed(kind) = [Request(device, kind) EXCEPT !.key = k, !.intent = k]
      BY <2>1 DEF Keyed
    <2>4. OfFlow(kind) = [Keyed(kind) EXCEPT !.no = no, !.version = version]
      BY <2>1 DEF OfFlow
    <2> QED
      BY <2>2, <2>3, <2>4 DEF Sent
  <1>9. CASE DesktopPosts
    <2>1. PICK d, e, kind : /\ d = [p EXCEPT !.nextKey = @ + 1] /\ Sends(d, {e})
                            /\ e = Keyed(kind) \/ e = OfFlow(kind)
                            /\ kind \in {"recharge", "start", "cancel", "settle"}
      BY <1>1, <1>9 DEF DesktopPosts
    <2>2. Sent(e, device, kind) /\ kind \notin Flagged
      BY <1>8, <2>1 DEF Flagged
    <2> QED
      BY <1>4, <2>1, <2>2
  <1>10. CASE DesktopBegins
    <2>1. /\ Sends(device, {Request(device, "ask")}) /\ Same(device, p) /\ "ask" \notin Flagged
          /\ Sent(Request(device, "ask"), device, "ask")
      BY <1>1, <1>2, <1>10, SentRequests, SamePages DEF Flagged, DesktopBegins
    <2> QED
      BY <1>4, <2>1
  <1>11. CASE DesktopAnswers
    <2>1. PICK d, kind :
                /\ kind \in {"confirm", "decline"}
                /\ d = [p EXCEPT !.asking = @ - 1, !.nextKey = @ + 1]
                /\ Sends(d, {OfFlow(kind)})
      BY <1>1, <1>11 DEF DesktopAnswers
    <2>2. Sent(OfFlow(kind), device, kind) /\ kind \notin Flagged
      BY <1>8, <2>1 DEF Flagged
    <2> QED
      BY <1>4, <2>1, <2>2
  <1>12. CASE DesktopOpensReview
    <2>1. PICK d, e : /\ d = [p EXCEPT !.reviewKey = p.nextKey, !.nextKey = @ + 1,
                                 !.review = Nothing, !.reviewBusy = TRUE, !.reviewed = FALSE]
                      /\ e = [Request(device, "review") EXCEPT !.serial = p.nextKey]
                      /\ Sends(d, {e})
      BY <1>1, <1>12 DEF DesktopOpensReview
    <2>2. Sent(e, device, "review") /\ e.serial = p.nextKey
      BY <2>1 DEF Sent, Request
    <2>3. device' = d /\ Awaited' = A \union {e} /\ e.kind = "review"
      BY <1>3, <2>1, <2>2
    <2>4. /\ d.loggingIn = p.loggingIn /\ d.polling = p.polling /\ d.reviewBusy = TRUE
          /\ d.reviewKey = p.nextKey /\ d.nextKey = p.nextKey + 1
      BY <1>2, <2>1 DEF IsWindow
    <2>5. DeskFlags(d, A \union {e})
      <3>1. AsksReview(d, p, e)
        BY <2>2, <2>3, <2>4 DEF AsksReview
      <3> QED
        BY <1>2, <3>1, DeskAsksReview
    <2> QED
      BY <2>3, <2>5
  <1>13. CASE DesktopInReview
    <2>1. ASSUME NEW d, d = [p EXCEPT !.reviewBusy = TRUE], NEW e, Sends(d, {e}), ~p.reviewBusy,
                 NEW kind \in {"review", "submit"}, Sent(e, device, kind), e.serial = p.reviewKey
          PROVE  DeskFlags(device', Awaited')
      <3>1. device' = d /\ Awaited' = A \union {e} /\ e.kind \in {"review", "submit"}
        BY <1>3, <2>1
      <3>2. /\ d.loggingIn = p.loggingIn /\ d.polling = p.polling /\ d.reviewBusy = TRUE
            /\ d.reviewKey = p.reviewKey /\ d.nextKey = p.nextKey
        BY <1>2, <2>1 DEF IsWindow
      <3>3. p.reviewKey # 0
        BY <1>1, <1>13 DEF DesktopInReview
      <3>4. DeskFlags(d, A \union {e})
        <4>1. AsksReview(d, p, e)
          BY <2>1, <3>1, <3>2, <3>3 DEF AsksReview
        <4> QED
          BY <1>2, <4>1, DeskAsksReview
      <3> QED
        BY <3>1, <3>4
    <2>2. ASSUME ~p.reviewBusy, NEW kind \in {"review", "submit"}, NEW e,
                 Sends([p EXCEPT !.reviewBusy = TRUE], {e}),
                 \/ e = [Request(device, kind) EXCEPT !.serial = p.reviewKey,
                            !.key = p.reviewKey, !.intent = p.reviewKey]
                 \/ e = [Request(device, kind) EXCEPT !.serial = p.reviewKey]
          PROVE  DeskFlags(device', Awaited')
      <3>1. Sent(e, device, kind) /\ e.serial = p.reviewKey
        BY <2>2 DEF Sent, Request
      <3> QED
        BY <2>1, <2>2, <3>1
    <2>3. CASE Sends([p EXCEPT !.reviewKey = 0, !.reviewBusy = FALSE], {})
      <3>1. PICK d, Left : d = [p EXCEPT !.reviewKey = 0, !.reviewBusy = FALSE] /\ Left = {}
        OBVIOUS
      <3>2. device' = d /\ Awaited' = A \ Left
        BY <1>1, <2>3, <3>1 DEF Sends, Awaited
      <3>3. /\ d.loggingIn = p.loggingIn /\ d.polling = p.polling /\ d.nextKey = p.nextKey
            /\ d.reviewBusy = FALSE /\ d.reviewKey = 0
        BY <1>2, <3>1 DEF IsWindow
      <3>4. Left \in SUBSET A /\ \A c \in Left : c.kind \in {"review", "submit"}
        BY <3>1
      <3> QED
        BY <1>2, <3>2, <3>3, <3>4, DeskReviewEnds
    <2> QED
      BY <1>1, <1>13, <2>2, <2>3 DEF DesktopInReview
  <1>14. CASE DesktopPolls
    <2>1. PICK d, e, kind, n :
            /\ kind = (IF device.charging THEN "progress" ELSE "flow") /\ n = device.flow.no
            /\ d = [p EXCEPT !.polling = TRUE] /\ e = [Request(device, kind) EXCEPT !.no = n]
            /\ Sends(d, {e}) /\ ~p.polling
      BY <1>1, <1>14 DEF DesktopPolls
    <2>2. kind \in {"flow", "progress"}
      BY <2>1
    <2>3. Sent(e, device, kind)
      BY <2>1, SentRequests
    <2>4. device' = d /\ Awaited' = A \union {e} /\ e.kind = kind
      BY <1>3, <2>1, <2>3
    <2>5. /\ d.loggingIn = p.loggingIn /\ d.polling = TRUE /\ d.reviewBusy = p.reviewBusy
          /\ d.reviewKey = p.reviewKey /\ d.nextKey = p.nextKey
      BY <1>2, <2>1 DEF IsWindow
    <2>6. DeskFlags(d, A \union {e})
      <3>1. AsksFlow(d, p, e)
        BY <2>1, <2>2, <2>4, <2>5 DEF AsksFlow
      <3> QED
        BY <1>2, <3>1, DeskAsks
    <2> QED
      BY <2>4, <2>6
  <1> QED
    BY <1>5, <1>6, <1>7, <1>9, <1>10, <1>11, <1>12, <1>13, <1>14 DEF DesktopTaps

LEMMA DeskReceivesFlags ==
    ASSUME DeskFlags(device, Awaited), IsWindow(device), NEW c \in calls, DesktopReceives(c)
    PROVE  DeskFlags(device', Awaited')
  <1>1. PICK A, p : A = Awaited /\ p = device
    OBVIOUS
  <1>2. DeskFlags(p, A) /\ IsWindow(p) /\ p.nextKey \in Nat
    BY <1>1 DEF DeskFlags, DeskPages
  <1>3. c \in A
    BY <1>1 DEF DesktopReceives, Awaited, GivenUp
  <1>4. ASSUME NEW d, Handles(c, d, {})
        PROVE  device' = d /\ Awaited' = A \ {c}
    BY <1>1, <1>4, HandlesNone
  <1>5. ASSUME NEW d, NEW kind, NEW e, e.kind = kind, e.at = "Sent", Handles(c, d, {e})
        PROVE  device' = d /\ Awaited' = (A \ {c}) \union {e} /\ e.kind = kind
    <2>1. PICK New : New = {e}
      OBVIOUS
    <2>2. \A x \in New : ~GivenUp(x)
      BY <1>5, <2>1 DEF GivenUp
    <2> QED
      BY <1>1, <1>5, <2>1, <2>2, HandlesAll
  <1>6. ASSUME c.kind \notin Flagged, NEW d, NEW New, \A e \in New : e.kind \notin Flagged,
               device' = d, Awaited' = (A \ {c}) \union New,
               Same(d, p) \/ d = [p EXCEPT !.nextKey = @ + 1]
        PROVE  DeskFlags(device', Awaited')
    <2>1. PICK Left : Left = {c}
      OBVIOUS
    <2>2. /\ d.loggingIn = p.loggingIn /\ d.polling = p.polling
          /\ d.reviewBusy = p.reviewBusy /\ d.reviewKey = p.reviewKey
          /\ d.nextKey \in {p.nextKey, p.nextKey + 1}
      <3>1. CASE Same(d, p)
        BY <3>1 DEF Same
      <3>2. CASE d = [p EXCEPT !.nextKey = @ + 1]
        BY <1>2, <3>2 DEF IsWindow
      <3> QED
        BY <1>6, <3>1, <3>2
    <2>3. StillFlags(device')
      BY <1>1, <1>6, <2>2 DEF StillFlags
    <2>4. Awaited' = (Awaited \ Left) \union New /\ \A e \in Left : e.kind \notin Flagged
      BY <1>1, <1>6, <2>1
    <2> QED
      BY <1>6, <2>3, <2>4, DeskStays
  <1>7. ASSUME c.kind \notin Flagged, NEW d, Same(d, p), Handles(c, d, {})
        PROVE  DeskFlags(device', Awaited')
    <2>1. PICK New : New = {}
      OBVIOUS
    <2>2. device' = d /\ Awaited' = (A \ {c}) \union New
      BY <1>4, <1>7, <2>1
    <2>3. \A e \in New : e.kind \notin Flagged
      BY <2>1
    <2> QED
      BY <1>6, <1>7, <2>2, <2>3
  <1>8. ASSUME c.kind \notin Flagged, NEW d, Same(d, p) \/ d = [p EXCEPT !.nextKey = @ + 1],
               NEW kind, kind \notin Flagged, NEW e, e.kind = kind, e.at = "Sent", Handles(c, d, {e})
        PROVE  DeskFlags(device', Awaited')
    <2>1. PICK New : New = {e}
      OBVIOUS
    <2>2. device' = d /\ Awaited' = (A \ {c}) \union New
      BY <1>5, <1>8, <2>1
    <2>3. \A x \in New : x.kind \notin Flagged
      BY <1>8, <2>1
    <2> QED
      BY <1>6, <1>8, <2>2, <2>3
  <1>9. Same(device, p)
    BY <1>1, <1>2, SamePages
  <1>10. CASE DesktopLoggedIn(c)
    <2>1. PICK q : q = [p EXCEPT !.loggingIn = FALSE]
      OBVIOUS
    <2>2. LoginOver(q, p) /\ IsWindow(q)
      BY <1>2, <2>1 DEF LoginOver, IsWindow
    <2>3. ASSUME NEW d, Same(d, q), NEW New, \A e \in New : e.kind \notin Flagged,
                 device' = d, Awaited' = (A \ {c}) \union New
          PROVE  DeskFlags(device', Awaited')
      <3>1. LoginOver(d, p)
        BY <2>2, <2>3 DEF LoginOver, Same
      <3>2. c.kind = "login"
        BY <1>10 DEF DesktopLoggedIn
      <3>3. DeskFlags(d, (A \ {c}) \union New)
        BY <1>2, <1>3, <2>3, <3>1, <3>2, DeskLoginAnswered
      <3> QED
        BY <2>3, <3>3
    <2>4. CASE \E x, y, d : /\ d = [q EXCEPT !.token = x, !.online = TRUE, !.inside = TRUE, !.serial = y]
                            /\ Handles(c, d, {[Request(d, "list") EXCEPT !.serial = d.serial]})
      <3>1. PICK x, y, d, e : /\ d = [q EXCEPT !.token = x, !.online = TRUE, !.inside = TRUE,
                                               !.serial = y]
                              /\ e = [Request(d, "list") EXCEPT !.serial = d.serial]
                              /\ Handles(c, d, {e})
        BY <2>4
      <3>2. e.kind = "list" /\ e.at = "Sent"
        BY <3>1 DEF Request
      <3>a. Same(d, q)
        BY <2>2, <3>1, SameSession
      <3>b. device' = d /\ Awaited' = (A \ {c}) \union {e}
        <4>1. Handles(c, d, {e})
          BY <3>1
        <4> QED
          BY <1>5, <3>2, <4>1
      <3>3. device' = d /\ Awaited' = (A \ {c}) \union {e} /\ Same(d, q)
        BY <3>a, <3>b
      <3>4. PICK New : New = {e} /\ Awaited' = (A \ {c}) \union New
        BY <3>3
      <3>5. \A x1 \in New : x1.kind \notin Flagged
        BY <3>2, <3>4 DEF Flagged
      <3> QED
        BY <2>3, <3>3, <3>4, <3>5
    <2>5. CASE \E d : Same(d, q) /\ Handles(c, d, {})
      <3>1. PICK d : Same(d, q) /\ Handles(c, d, {})
        BY <2>5
      <3>2. PICK New : New = {}
        OBVIOUS
      <3>3. device' = d /\ Awaited' = (A \ {c}) \union New /\ \A e \in New : e.kind \notin Flagged
        BY <1>4, <3>1, <3>2
      <3> QED
        BY <2>3, <3>1, <3>3
    <2>6. Same(q, q) /\ Same([q EXCEPT !.online = FALSE, !.inside = TRUE], q)
      BY <2>2, SamePages, SameSession
    <2>7. PICK home : home = [q EXCEPT !.token = c.reply.no, !.online = TRUE, !.inside = TRUE,
                                       !.serial = @ + 1]
      OBVIOUS
    <2>8. home = [q EXCEPT !.token = c.reply.no, !.online = TRUE, !.inside = TRUE,
                           !.serial = q.serial + 1]
      BY <2>7
    <2>9. \/ Handles(c, home, {[Request(home, "list") EXCEPT !.serial = home.serial]})
          \/ Handles(c, q, {})
          \/ Handles(c, [q EXCEPT !.online = FALSE, !.inside = TRUE], {})
      BY <1>1, <1>10, <2>1, <2>7 DEF DesktopLoggedIn
    <2> QED
      BY <2>4, <2>5, <2>6, <2>8, <2>9
  <1>11. CASE DesktopEnds(c)
    <2>1. PICK d : d = [p EXCEPT !.token = 0, !.online = FALSE, !.inside = FALSE] /\ Handles(c, d, {})
      BY <1>1, <1>11 DEF DesktopEnds
    <2>2. Same(d, p)
      BY <1>2, <2>1, SameSession
    <2>3. c.kind \notin Flagged
      BY <1>11 DEF DesktopEnds, Answer, Flagged
    <2> QED
      BY <1>7, <2>1, <2>2, <2>3
  <1>12. ASSUME c.kind \in {"flow", "progress"}, NEW q, q = PollEnds(p), NEW d, Same(d, q),
                Handles(c, d, {})
         PROVE  DeskFlags(device', Awaited')
    <2>1. PollOver(d, p)
      BY <1>2, <1>12 DEF PollOver, PollEnds, Same, IsWindow
    <2>2. device' = d /\ Awaited' = A \ {c}
      BY <1>4, <1>12
    <2>3. DeskFlags(d, A \ {c})
      BY <1>2, <1>3, <1>12, <2>1, DeskPollAnswered
    <2> QED
      BY <2>2, <2>3
  <1>13. PICK q : q = PollEnds(p)
    OBVIOUS
  <1>14. IsWindow(q) /\ Same(q, q)
    BY <1>2, <1>13 DEF PollEnds, Same, IsWindow
  <1>15. CASE DesktopFails(c)
    <2>1. CASE c.kind = "decline"
      <3>1. Handles(c, Forgotten(p), {}) /\ Same(Forgotten(p), p) /\ c.kind \notin Flagged
        BY <1>1, <1>2, <1>15, <2>1, SameFlow DEF DesktopFails, Flagged
      <3> QED
        BY <1>7, <3>1
    <2>2. CASE c.kind \in {"flow", "progress"}
      <3>1. Handles(c, q, {})
        BY <1>1, <1>13, <1>15, <2>2 DEF DesktopFails
      <3> QED
        BY <1>12, <1>13, <1>14, <2>2, <3>1
    <2>3. CASE c.kind \notin {"decline", "flow", "progress"}
      <3>1. Handles(c, device, {}) /\ c.kind \notin Flagged
        BY <1>15, <2>3 DEF DesktopFails, Flagged
      <3> QED
        BY <1>7, <1>9, <3>1
    <2> QED
      BY <2>1, <2>2, <2>3
  <1>16. CASE DesktopShowsStations(c) \/ DesktopShowsOrders(c)
    <2>1. PICK x, d : /\ Handles(c, d, {})
                      /\ d = device \/ d = [p EXCEPT !.list = x] \/ d = [p EXCEPT !.orders = x]
      BY <1>1, <1>16 DEF DesktopShowsStations, DesktopShowsOrders
    <2>2. Same(d, p)
      BY <1>2, <1>9, <2>1, SamePages
    <2>3. c.kind \notin Flagged
      BY <1>16 DEF DesktopShowsStations, DesktopShowsOrders, Answer, Flagged
    <2> QED
      BY <1>7, <2>1, <2>2, <2>3
  <1>17. CASE DesktopShowsProfile(c)
    <2>1. c.kind \notin Flagged
      BY <1>17 DEF DesktopShowsProfile, Answer, Flagged
    <2>2. CASE Handles(c, [device EXCEPT !.profile = Read(c), !.avatar = Nothing],
                       {Request(device, "avatar")})
      <3>1. PICK x, y, d, e : /\ d = [p EXCEPT !.profile = x, !.avatar = y]
                              /\ e = Request(device, "avatar") /\ Handles(c, d, {e})
        BY <1>1, <2>2
      <3>2. Same(d, p) /\ e.kind = "avatar" /\ e.at = "Sent" /\ "avatar" \notin Flagged
        BY <1>2, <3>1, SamePages DEF Request, Flagged
      <3> QED
        BY <1>8, <2>1, <3>1, <3>2
    <2>3. CASE Handles(c, [device EXCEPT !.avatar = Read(c)], {})
      <3>1. PICK x, d : d = [p EXCEPT !.avatar = x] /\ Handles(c, d, {})
        BY <1>1, <2>3
      <3>2. Same(d, p)
        BY <1>2, <3>1, SamePages
      <3> QED
        BY <1>7, <2>1, <3>1, <3>2
    <2> QED
      BY <1>17, <2>2, <2>3 DEF DesktopShowsProfile
  <1>18. CASE DesktopProfileChanged(c)
    <2>1. PICK e : e = Request(device, "profile") /\ Handles(c, device, {e}) /\ c.kind \notin Flagged
      BY <1>18 DEF DesktopProfileChanged, Answer, Flagged
    <2>2. e.kind = "profile" /\ e.at = "Sent" /\ "profile" \notin Flagged
      BY <2>1 DEF Request, Flagged
    <2> QED
      BY <1>8, <1>9, <2>1, <2>2
  <1>19. CASE DesktopAsked(c)
    <2>1. c.kind \notin Flagged
      BY <1>19 DEF DesktopAsked, Answer, Flagged
    <2>2. CASE Handles(c, Restored(c, device), {})
      <3>1. PICK d : d = Restored(c, p) /\ Handles(c, d, {})
        BY <1>1, <2>2
      <3>2. Same(d, p)
        BY <1>2, <3>1, SameRestored
      <3> QED
        BY <1>7, <2>1, <3>1, <3>2
    <2>3. CASE Handles(c, [device EXCEPT !.nextKey = @ + 1], {Keyed("create")})
      <3>1. PICK d, e : /\ d = [p EXCEPT !.nextKey = @ + 1] /\ e = Keyed("create")
                        /\ Handles(c, d, {e})
        BY <1>1, <2>3
      <3>2. e.kind = "create" /\ e.at = "Sent" /\ "create" \notin Flagged
        BY <3>1 DEF Keyed, Request, Flagged
      <3> QED
        BY <1>8, <2>1, <3>1, <3>2
    <2> QED
      BY <1>19, <2>2, <2>3 DEF DesktopAsked
  <1>20. CASE DesktopShowsFlow(c)
    <2>1. c.kind \notin Flagged
      BY <1>20 DEF DesktopShowsFlow, Answer, Flagged
    <2>2. PICK x, d : /\ Handles(c, d, {})
                      /\ \/ d = [p EXCEPT !.flow = x, !.charging = FALSE, !.inside = TRUE]
                         \/ d = [p EXCEPT !.flow.status = x, !.charging = TRUE]
                         \/ d = Forgotten(p)
      BY <1>1, <1>20 DEF DesktopShowsFlow
    <2>3. Same(d, p)
      BY <1>2, <2>2, SameFlow
    <2> QED
      BY <1>7, <2>1, <2>2, <2>3
  <1>21. CASE DesktopPolled(c)
    <2>1. PICK d : Handles(c, d, {}) /\ (d = Restored(c, q) \/ d = q)
      BY <1>1, <1>13, <1>21 DEF DesktopPolled
    <2>2. Same(d, q)
      BY <1>14, <2>1, SameRestored
    <2>3. c.kind \in {"flow", "progress"}
      BY <1>21 DEF DesktopPolled, Answer
    <2> QED
      BY <1>12, <1>13, <2>1, <2>2, <2>3
  <1>22. CASE DesktopReviewed(c)
    <2>1. c.kind \in {"review", "submit"}
      BY <1>22 DEF DesktopReviewed
    <2>2. PICK Left : Left = {c}
      OBVIOUS
    <2>3. Left \in SUBSET A /\ \A x \in Left : x.kind \in {"review", "submit"}
      BY <1>3, <2>1, <2>2
    <2>4. CASE c.serial # p.reviewKey
      <3>1. device' = device /\ Awaited' = A \ Left
        BY <1>1, <1>4, <1>22, <2>2, <2>4 DEF DesktopReviewed
      <3>2. DeskFlags(p, A \ Left)
        <4>1. \A x \in Left : x.serial # p.reviewKey
          BY <2>2, <2>4
        <4> QED
          BY <1>2, <2>3, <4>1, DeskReviewEnds
      <3> QED
        BY <1>1, <3>1, <3>2
    <2>5. CASE c.serial = p.reviewKey /\ c.kind = "submit" /\ c.reply.code = "Refused"
      <3>1. PICK e : e = [Request(device, "review") EXCEPT !.serial = c.serial]
        OBVIOUS
      <3>2. e.kind = "review" /\ e.at = "Sent" /\ e.serial = c.serial
        BY <3>1 DEF Request
      <3>3. Handles(c, device, {e})
        BY <1>1, <1>22, <2>5, <3>1 DEF DesktopReviewed
      <3>4. device' = device /\ Awaited' = (A \ {c}) \union {e}
        BY <1>5, <3>2, <3>3
      <3>5. DeskFlags(p, (A \ {c}) \union {e})
        BY <1>2, <1>3, <2>5, <3>2, DeskLoadsReview
      <3> QED
        BY <1>1, <3>4, <3>5
    <2>6. CASE c.serial = p.reviewKey /\ ~(c.kind = "submit" /\ c.reply.code = "Refused")
      <3>1. PICK b : b = [p EXCEPT !.reviewBusy = FALSE]
        OBVIOUS
      <3>a. \/ Handles(c, b, {})
            \/ \E x, y : Handles(c, [b EXCEPT !.review = x, !.reviewed = y], {})
        BY <1>1, <1>22, <2>6, <3>1 DEF DesktopReviewed
      <3>2. PICK d : /\ Handles(c, d, {})
                     /\ d = b \/ \E x, y : d = [b EXCEPT !.review = x, !.reviewed = y]
        BY <3>a
      <3>3. /\ IsWindow(b) /\ b.loggingIn = p.loggingIn /\ b.polling = p.polling
            /\ b.reviewBusy = FALSE /\ b.reviewKey = p.reviewKey /\ b.nextKey = p.nextKey
        BY <1>2, <3>1 DEF IsWindow
      <3>b. Same(b, b) /\ \A x, y : Same([b EXCEPT !.review = x, !.reviewed = y], b)
        BY <3>3, SamePages
      <3>4. Same(d, b)
        <4>1. CASE d = b
          BY <3>b, <4>1
        <4>2. ASSUME NEW x, NEW y, d = [b EXCEPT !.review = x, !.reviewed = y]
              PROVE  Same(d, b)
          BY <3>b, <4>2
        <4> QED
          BY <3>2, <4>1, <4>2
      <3>5. /\ d.loggingIn = p.loggingIn /\ d.polling = p.polling
            /\ d.reviewBusy = FALSE /\ d.reviewKey = p.reviewKey /\ d.nextKey = p.nextKey
        BY <3>3, <3>4 DEF Same
      <3>6. device' = d /\ Awaited' = A \ Left
        BY <1>4, <2>2, <3>2
      <3>7. \E x \in Left : x.serial = p.reviewKey
        BY <2>2, <2>6
      <3>8. DeskFlags(d, A \ Left)
        BY <1>2, <2>3, <3>5, <3>7, DeskReviewEnds
      <3> QED
        BY <3>6, <3>8
    <2> QED
      BY <2>4, <2>5, <2>6
  <1> QED
    BY <1>10, <1>11, <1>15, <1>16, <1>17, <1>18, <1>19, <1>20, <1>21, <1>22 DEF DesktopReceives

LEMMA DeskRepeatsFlags ==
    ASSUME DeskFlags(device, Awaited), NEW c \in calls, IsCall(c),
           DesktopPauses(c) \/ DesktopSendsAgain(c)
    PROVE  DeskFlags(device', Awaited')
  <1>1. c \in Awaited
    BY DEF DesktopPauses, DesktopSendsAgain, Awaited, GivenUp
  <1>2. PICK d : /\ d = [c EXCEPT !.at = "Pausing", !.reply = NoReply] \/ d = Again(c)
                 /\ Handles(c, device, {d})
    BY DEF DesktopPauses, DesktopSendsAgain
  <1>3. /\ d.kind = c.kind /\ d.serial = c.serial /\ d.generation = c.generation
        /\ d.at \in {"Pausing", "Sent"}
    BY <1>2 DEF IsCall, Again
  <1>4. PICK New : New = {d}
    OBVIOUS
  <1>5. \A x \in New : ~GivenUp(x)
    BY <1>3, <1>4 DEF GivenUp
  <1>6. device' = device /\ Awaited' = (Awaited \ {c}) \union {d}
    BY <1>2, <1>4, <1>5, HandlesAll
  <1>7. PICK A, B, p : A = Awaited /\ B = (A \ {c}) \union {d} /\ p = device
    OBVIOUS
  <1>8. Moves(A, B, c, d) /\ DeskFlags(p, A)
    BY <1>1, <1>3, <1>7 DEF Moves
  <1> QED
    BY <1>6, <1>7, <1>8, DeskFlagsMove

-----------------------------------------------------------------------------
(* The flags of the console. *)

LEMMA AgedStay ==
    ASSUME NEW A, NEW K, NEW g, NEW flag, Waits(flag, Aged(A, K, g)), NEW Left, NEW New,
           \A e \in Left : e.kind \in K => e.generation # g,
           \A e \in New : e.kind \notin K
    PROVE  Waits(flag, Aged((A \ Left) \union New, K, g))
  <1>1. Aged((A \ Left) \union New, K, g) = Aged(A, K, g)
    BY DEF Aged, Kinds
  <1> QED
    BY <1>1

LEMMA AgedAdds ==
    ASSUME NEW A, NEW K, NEW g, NEW flag, Waits(flag, Aged(A, K, g)), NEW e, e.kind \notin K
    PROVE  Waits(flag, Aged(A \union {e}, K, g))
  <1>1. Aged(A \union {e}, K, g) = Aged(A, K, g)
    BY DEF Aged, Kinds
  <1> QED
    BY <1>1

LEMMA AgedDrops ==
    ASSUME NEW A, NEW K, NEW g, NEW flag, Waits(flag, Aged(A, K, g)), NEW c, c.kind \notin K
    PROVE  Waits(flag, Aged(A \ {c}, K, g))
  <1>1. Aged(A \ {c}, K, g) = Aged(A, K, g)
    BY DEF Aged, Kinds
  <1> QED
    BY <1>1

LEMMA AgedFirst ==
    ASSUME NEW A, NEW K, NEW g, Waits(FALSE, Aged(A, K, g)), NEW e, e.kind \in K, e.generation = g
    PROVE  Waits(TRUE, Aged(A \union {e}, K, g))
  <1>1. Aged(A \union {e}, K, g) = {e}
    BY DEF Aged, Kinds, Waits
  <1> QED
    BY <1>1 DEF Waits

LEMMA AgedLast ==
    ASSUME NEW A, NEW K, NEW g, NEW flag, Waits(flag, Aged(A, K, g)),
           NEW c \in A, c.kind \in K, c.generation = g
    PROVE  Waits(FALSE, Aged(A \ {c}, K, g))
  <1>1. c \in Aged(A, K, g)
    BY DEF Aged, Kinds
  <1>2. Aged(A \ {c}, K, g) = {}
    BY <1>1 DEF Aged, Kinds, Waits
  <1> QED
    BY <1>2 DEF Waits

LEMMA AgedPassed ==
    ASSUME NEW A, NEW K, NEW g, NEW flag, Waits(flag, Aged(A, K, g)),
           NEW c \in A, c.kind \in K, c.generation = g, NEW e, e.kind \in K, e.generation = g
    PROVE  Waits(flag, Aged((A \ {c}) \union {e}, K, g))
  <1>1. c \in Aged(A, K, g)
    BY DEF Aged, Kinds
  <1>2. Aged((A \ {c}) \union {e}, K, g) = {e} /\ flag = TRUE
    BY <1>1 DEF Aged, Kinds, Waits
  <1> QED
    BY <1>2 DEF Waits

Holding == {"login", "catalog"} \union Operations

\* What the window keeps from one state to another.
SameSeat(d, p) ==
    /\ IsConsoleWindow(d) /\ d.generation = p.generation /\ d.session = p.session
    /\ d.token = p.token
SameHold(d, p) ==
    /\ SameSeat(d, p) /\ d.loggingIn = p.loggingIn /\ d.busy = p.busy
    /\ d.catalogLoading = p.catalogLoading

LEMMA ConsoleStays ==
    ASSUME NEW p, NEW A, ConsoleFlags(p, A), NEW d, SameHold(d, p), NEW Left, NEW New,
           \A e \in Left : e.kind \in Holding => e.generation # p.generation,
           \A e \in New : e.kind \notin Holding /\ Tidy(e)
    PROVE  ConsoleFlags(d, (A \ Left) \union New)
  <1>1. PICK g, B : g = p.generation /\ B = (A \ Left) \union New
    OBVIOUS
  <1>2. Waits(p.loggingIn, Aged(B, {"login"}, g))
    BY <1>1, AgedStay DEF ConsoleFlags, Holding
  <1>3. Waits(p.busy, Aged(B, Operations, g))
    BY <1>1, AgedStay DEF ConsoleFlags, Holding
  <1>4. Waits(p.catalogLoading, Aged(B, {"catalog"}, g))
    BY <1>1, AgedStay DEF ConsoleFlags, Holding
  <1>5. \A e \in B : Tidy(e)
    BY <1>1 DEF ConsoleFlags
  <1>6. ConsoleFlags(d, B)
    BY <1>1, <1>2, <1>3, <1>4, <1>5 DEF ConsoleFlags, SameHold, SameSeat
  <1> QED
    BY <1>1, <1>6

\* The login is sent, and refused.
AsksIn(d, p, e) ==
    /\ SameSeat(d, p) /\ ~p.loggingIn /\ d.loggingIn = TRUE /\ d.busy = p.busy
    /\ d.catalogLoading = p.catalogLoading
    /\ e.kind = "login" /\ e.generation = p.generation /\ Tidy(e)

LEMMA ConsoleAsksIn ==
    ASSUME NEW p, NEW A, ConsoleFlags(p, A), NEW d, NEW e, AsksIn(d, p, e)
    PROVE  ConsoleFlags(d, A \union {e})
  <1>1. PICK g : g = p.generation
    OBVIOUS
  <1>2. /\ e.kind \in {"login"} /\ e.kind \notin Operations /\ e.kind \notin {"catalog"}
        /\ e.generation = g /\ Tidy(e) /\ p.loggingIn = FALSE
    BY <1>1 DEF AsksIn, Operations, ConsoleFlags, Waits
  <1>3. Waits(FALSE, Aged(A, {"login"}, g))
    BY <1>1, <1>2 DEF ConsoleFlags
  <1>4. Waits(p.busy, Aged(A, Operations, g)) /\ Waits(p.catalogLoading, Aged(A, {"catalog"}, g))
    BY <1>1 DEF ConsoleFlags
  <1>5. Waits(TRUE, Aged(A \union {e}, {"login"}, g))
    <2>1. PICK K : K = {"login"}
      OBVIOUS
    <2>2. Waits(FALSE, Aged(A, K, g)) /\ e.kind \in K /\ e.generation = g
      BY <1>2, <1>3, <2>1
    <2>3. Waits(TRUE, Aged(A \union {e}, K, g))
      BY <2>2, AgedFirst
    <2> QED
      BY <2>1, <2>3
  <1>6. Waits(p.busy, Aged(A \union {e}, Operations, g))
    BY <1>2, <1>4, AgedAdds
  <1>7. Waits(p.catalogLoading, Aged(A \union {e}, {"catalog"}, g))
    BY <1>2, <1>4, AgedAdds
  <1>8. \A f \in A \union {e} : Tidy(f)
    BY <1>2 DEF ConsoleFlags
  <1> QED
    BY <1>1, <1>5, <1>6, <1>7, <1>8 DEF ConsoleFlags, AsksIn, SameSeat

NotIn(d, p) ==
    /\ SameSeat(d, p) /\ d.loggingIn = FALSE /\ d.busy = p.busy
    /\ d.catalogLoading = p.catalogLoading

LEMMA ConsoleNotIn ==
    ASSUME NEW p, NEW A, ConsoleFlags(p, A), NEW d, NotIn(d, p),
           NEW c \in A, c.kind = "login", c.generation = p.generation
    PROVE  ConsoleFlags(d, A \ {c})
  <1>1. PICK g : g = p.generation
    OBVIOUS
  <1>2. /\ c.kind \in {"login"} /\ c.kind \notin Operations /\ c.kind \notin {"catalog"}
        /\ c.generation = g
    BY <1>1 DEF Operations
  <1>3. /\ Waits(p.loggingIn, Aged(A, {"login"}, g)) /\ Waits(p.busy, Aged(A, Operations, g))
        /\ Waits(p.catalogLoading, Aged(A, {"catalog"}, g))
    BY <1>1 DEF ConsoleFlags
  <1>4. Waits(FALSE, Aged(A \ {c}, {"login"}, g))
    BY <1>2, <1>3, AgedLast
  <1>5. Waits(p.busy, Aged(A \ {c}, Operations, g))
    BY <1>2, <1>3, AgedDrops
  <1>6. Waits(p.catalogLoading, Aged(A \ {c}, {"catalog"}, g))
    BY <1>2, <1>3, AgedDrops
  <1> QED
    BY <1>1, <1>4, <1>5, <1>6 DEF ConsoleFlags, NotIn, SameSeat

\* An operation begins, goes on with its next request, and ends.
TakesHold(d, p, e) ==
    /\ SameSeat(d, p) /\ ~p.busy /\ d.busy = TRUE /\ d.loggingIn = p.loggingIn
    /\ d.catalogLoading = p.catalogLoading
    /\ e.kind \in Operations /\ e.generation = p.generation /\ Tidy(e)

LEMMA ConsoleTakesHold ==
    ASSUME NEW p, NEW A, ConsoleFlags(p, A), NEW d, NEW e, TakesHold(d, p, e)
    PROVE  ConsoleFlags(d, A \union {e})
  <1>1. PICK g : g = p.generation
    OBVIOUS
  <1>2. /\ e.kind \in Operations /\ e.kind \notin {"login"} /\ e.kind \notin {"catalog"}
        /\ e.generation = g /\ Tidy(e) /\ p.busy = FALSE
    BY <1>1 DEF TakesHold, Operations, ConsoleFlags, Waits
  <1>3. /\ Waits(FALSE, Aged(A, Operations, g)) /\ Waits(p.loggingIn, Aged(A, {"login"}, g))
        /\ Waits(p.catalogLoading, Aged(A, {"catalog"}, g))
    BY <1>1, <1>2 DEF ConsoleFlags
  <1>4. Waits(TRUE, Aged(A \union {e}, Operations, g))
    BY <1>2, <1>3, AgedFirst
  <1>5. Waits(p.loggingIn, Aged(A \union {e}, {"login"}, g))
    BY <1>2, <1>3, AgedAdds
  <1>6. Waits(p.catalogLoading, Aged(A \union {e}, {"catalog"}, g))
    BY <1>2, <1>3, AgedAdds
  <1>7. \A f \in A \union {e} : Tidy(f)
    BY <1>2 DEF ConsoleFlags
  <1> QED
    BY <1>1, <1>4, <1>5, <1>6, <1>7 DEF ConsoleFlags, TakesHold, SameSeat

LEMMA ConsoleGoesOn ==
    ASSUME NEW p, NEW A, ConsoleFlags(p, A), NEW d, SameHold(d, p),
           NEW c \in A, c.kind \in Operations, c.generation = p.generation,
           NEW e, e.kind \in Operations, e.generation = p.generation, Tidy(e)
    PROVE  ConsoleFlags(d, (A \ {c}) \union {e})
  <1>1. PICK g : g = p.generation
    OBVIOUS
  <1>2. /\ c.kind \notin {"login"} /\ c.kind \notin {"catalog"} /\ c.generation = g
        /\ e.kind \notin {"login"} /\ e.kind \notin {"catalog"} /\ e.generation = g
    BY <1>1 DEF Operations
  <1>3. /\ Waits(p.busy, Aged(A, Operations, g)) /\ Waits(p.loggingIn, Aged(A, {"login"}, g))
        /\ Waits(p.catalogLoading, Aged(A, {"catalog"}, g))
    BY <1>1 DEF ConsoleFlags
  <1>4. Waits(p.busy, Aged((A \ {c}) \union {e}, Operations, g))
    BY <1>2, <1>3, AgedPassed
  <1>5. Waits(p.loggingIn, Aged((A \ {c}) \union {e}, {"login"}, g))
    <2>1. Waits(p.loggingIn, Aged(A \ {c}, {"login"}, g))
      BY <1>2, <1>3, AgedDrops
    <2> QED
      BY <1>2, <2>1, AgedAdds
  <1>6. Waits(p.catalogLoading, Aged((A \ {c}) \union {e}, {"catalog"}, g))
    <2>1. Waits(p.catalogLoading, Aged(A \ {c}, {"catalog"}, g))
      BY <1>2, <1>3, AgedDrops
    <2> QED
      BY <1>2, <2>1, AgedAdds
  <1>7. \A f \in (A \ {c}) \union {e} : Tidy(f)
    BY DEF ConsoleFlags
  <1> QED
    BY <1>1, <1>4, <1>5, <1>6, <1>7 DEF ConsoleFlags, SameHold, SameSeat

\* It ends, and nothing more is asked.
Released(d, p) ==
    /\ SameSeat(d, p) /\ d.busy = FALSE /\ d.loggingIn = p.loggingIn
    /\ d.catalogLoading = p.catalogLoading

LEMMA ConsoleReleased ==
    ASSUME NEW p, NEW A, ConsoleFlags(p, A), NEW d, Released(d, p),
           NEW c \in A, c.kind \in Operations, c.generation = p.generation
    PROVE  ConsoleFlags(d, A \ {c})
  <1>1. PICK g : g = p.generation
    OBVIOUS
  <1>2. c.kind \notin {"login"} /\ c.kind \notin {"catalog"} /\ c.generation = g
    BY <1>1 DEF Operations
  <1>3. /\ Waits(p.loggingIn, Aged(A, {"login"}, g)) /\ Waits(p.busy, Aged(A, Operations, g))
        /\ Waits(p.catalogLoading, Aged(A, {"catalog"}, g))
    BY <1>1 DEF ConsoleFlags
  <1>4. Waits(FALSE, Aged(A \ {c}, Operations, g))
    BY <1>2, <1>3, AgedLast
  <1>5. Waits(p.loggingIn, Aged(A \ {c}, {"login"}, g))
    BY <1>2, <1>3, AgedDrops
  <1>6. Waits(p.catalogLoading, Aged(A \ {c}, {"catalog"}, g))
    BY <1>2, <1>3, AgedDrops
  <1> QED
    BY <1>1, <1>4, <1>5, <1>6 DEF ConsoleFlags, Released, SameSeat

\* The catalogue is asked for, and comes.
AsksCatalog(d, p, e) ==
    /\ SameSeat(d, p) /\ ~p.catalogLoading /\ d.catalogLoading = TRUE
    /\ d.loggingIn = p.loggingIn /\ d.busy = p.busy
    /\ e.kind = "catalog" /\ e.generation = p.generation /\ Tidy(e)

LEMMA ConsoleAsksCatalog ==
    ASSUME NEW p, NEW A, ConsoleFlags(p, A), NEW d, NEW e, AsksCatalog(d, p, e)
    PROVE  ConsoleFlags(d, A \union {e})
  <1>1. PICK g : g = p.generation
    OBVIOUS
  <1>2. /\ e.kind \in {"catalog"} /\ e.kind \notin {"login"} /\ e.kind \notin Operations
        /\ e.generation = g /\ Tidy(e) /\ p.catalogLoading = FALSE
    BY <1>1 DEF AsksCatalog, Operations, ConsoleFlags, Waits
  <1>3. /\ Waits(FALSE, Aged(A, {"catalog"}, g)) /\ Waits(p.loggingIn, Aged(A, {"login"}, g))
        /\ Waits(p.busy, Aged(A, Operations, g))
    BY <1>1, <1>2 DEF ConsoleFlags
  <1>4. Waits(TRUE, Aged(A \union {e}, {"catalog"}, g))
    <2>1. PICK K : K = {"catalog"}
      OBVIOUS
    <2>2. Waits(FALSE, Aged(A, K, g)) /\ e.kind \in K /\ e.generation = g
      BY <1>2, <1>3, <2>1
    <2>3. Waits(TRUE, Aged(A \union {e}, K, g))
      BY <2>2, AgedFirst
    <2> QED
      BY <2>1, <2>3
  <1>5. Waits(p.loggingIn, Aged(A \union {e}, {"login"}, g))
    BY <1>2, <1>3, AgedAdds
  <1>6. Waits(p.busy, Aged(A \union {e}, Operations, g))
    BY <1>2, <1>3, AgedAdds
  <1>7. \A f \in A \union {e} : Tidy(f)
    BY <1>2 DEF ConsoleFlags
  <1> QED
    BY <1>1, <1>4, <1>5, <1>6, <1>7 DEF ConsoleFlags, AsksCatalog, SameSeat

Loaded(d, p) ==
    SameSeat(d, p) /\ d.catalogLoading = FALSE /\ d.loggingIn = p.loggingIn /\ d.busy = p.busy

LEMMA ConsoleLoaded ==
    ASSUME NEW p, NEW A, ConsoleFlags(p, A), NEW d, Loaded(d, p),
           NEW c \in A, c.kind = "catalog", c.generation = p.generation
    PROVE  ConsoleFlags(d, A \ {c})
  <1>1. PICK g : g = p.generation
    OBVIOUS
  <1>2. /\ c.kind \in {"catalog"} /\ c.kind \notin {"login"} /\ c.kind \notin Operations
        /\ c.generation = g
    BY <1>1 DEF Operations
  <1>3. /\ Waits(p.loggingIn, Aged(A, {"login"}, g)) /\ Waits(p.busy, Aged(A, Operations, g))
        /\ Waits(p.catalogLoading, Aged(A, {"catalog"}, g))
    BY <1>1 DEF ConsoleFlags
  <1>4. Waits(FALSE, Aged(A \ {c}, {"catalog"}, g))
    BY <1>2, <1>3, AgedLast
  <1>5. Waits(p.loggingIn, Aged(A \ {c}, {"login"}, g))
    BY <1>2, <1>3, AgedDrops
  <1>6. Waits(p.busy, Aged(A \ {c}, Operations, g))
    BY <1>2, <1>3, AgedDrops
  <1> QED
    BY <1>1, <1>4, <1>5, <1>6 DEF ConsoleFlags, Loaded, SameSeat

LEMMA ConsoleSame ==
    ASSUME NEW p, NEW A, ConsoleFlags(p, A), NEW d, SameHold(d, p)
    PROVE  ConsoleFlags(d, A)
  BY DEF ConsoleFlags, SameHold, SameSeat

LEMMA ConsoleAdds ==
    ASSUME NEW p, NEW A, ConsoleFlags(p, A), NEW d, SameHold(d, p), NEW New,
           \A e \in New : e.kind \notin Holding /\ Tidy(e)
    PROVE  ConsoleFlags(d, A \union New)
  <1>1. PICK Left : Left = {}
    OBVIOUS
  <1>2. \A e \in Left : e.kind \in Holding => e.generation # p.generation
    BY <1>1
  <1>3. ConsoleFlags(d, (A \ Left) \union New)
    BY <1>2, ConsoleStays
  <1>4. (A \ Left) \union New = A \union New
    BY <1>1
  <1> QED
    BY <1>3, <1>4

LEMMA ConsoleDrops ==
    ASSUME NEW p, NEW A, ConsoleFlags(p, A), NEW d, SameHold(d, p), NEW c,
           c.kind \in Holding => c.generation # p.generation
    PROVE  ConsoleFlags(d, A \ {c})
  <1>1. PICK Left, New : Left = {c} /\ New = {}
    OBVIOUS
  <1>2. /\ \A e \in Left : e.kind \in Holding => e.generation # p.generation
        /\ \A e \in New : e.kind \notin Holding /\ Tidy(e)
    BY <1>1
  <1>3. ConsoleFlags(d, (A \ Left) \union New)
    BY <1>2, ConsoleStays
  <1>4. (A \ Left) \union New = A \ {c}
    BY <1>1
  <1> QED
    BY <1>3, <1>4

\* What the window does to itself beside its flags, and to them.
LEMMA ConsoleUpdates ==
    ASSUME NEW d, IsConsoleWindow(d), NEW x
    PROVE  /\ SameHold(d, d)
           /\ SameHold([d EXCEPT !.proven = x], d)
           /\ SameHold([d EXCEPT !.list = x], d)
           /\ SameHold([d EXCEPT !.catalog = x], d)
           /\ SameHold([d EXCEPT !.nextKey = @ + 1], d)
           /\ SameHold([d EXCEPT !.proven = x, !.nextKey = @ + 1], d)
           /\ SameHold(Turned(d), d)
           /\ Released(Rest(d), d)
           /\ NotIn([d EXCEPT !.loggingIn = FALSE], d)
           /\ Loaded([d EXCEPT !.catalogLoading = FALSE, !.catalog = x], d)
  BY DEF SameHold, SameSeat, IsConsoleWindow, Turned, Rest, Released, NotIn, Loaded, Nothing

LEMMA HoldKept ==
    ASSUME NEW a, NEW b, NEW d, SameHold(a, b), SameHold(b, d)
    PROVE  SameHold(a, d)
  BY DEF SameHold, SameSeat

LEMMA ListsOnTheirWay ==
    ASSUME NEW d
    PROVE  \A e \in ListOf(d) : e.kind \notin Holding /\ Tidy(e) /\ ~GivenUp(e)
  BY DEF ListOf, Request, Holding, Operations, Tidy, GivenUp

\* The catalogue is asked for unless it is under way.
LEMMA ConsoleAsksOnce ==
    ASSUME NEW p, NEW A, ConsoleFlags(p, A), IsConsoleWindow(p)
    PROVE  /\ ConsoleFlags(Asked(p), A \union CatalogOf(p))
           /\ IsConsoleWindow(Asked(p)) /\ SameSeat(Asked(p), p)
           /\ \A e \in CatalogOf(p) : ~GivenUp(e)
  <1>1. PICK d : d = Asked(p)
    OBVIOUS
  <1>2. /\ IsConsoleWindow(d) /\ SameSeat(d, p) /\ d.catalogLoading = TRUE
        /\ d.loggingIn = p.loggingIn /\ d.busy = p.busy
    BY <1>1 DEF Asked, SameSeat, IsConsoleWindow
  <1>3. CASE p.catalogLoading
    <2>1. CatalogOf(p) = {} /\ SameHold(d, p)
      BY <1>2, <1>3 DEF CatalogOf, SameHold, ConsoleFlags, Waits
    <2>2. ConsoleFlags(d, A) /\ A \union CatalogOf(p) = A
      BY <2>1, ConsoleSame
    <2> QED
      BY <1>1, <1>2, <2>1, <2>2
  <1>4. CASE ~p.catalogLoading
    <2>1. PICK e : e = [Request(p, "catalog") EXCEPT !.serial = p.session]
      OBVIOUS
    <2>2. CatalogOf(p) = {e}
      BY <1>4, <2>1 DEF CatalogOf
    <2>3. e.kind = "catalog" /\ e.generation = p.generation /\ e.serial = p.session /\ e.at = "Sent"
      BY <2>1 DEF Request
    <2>4. Tidy(e) /\ ~GivenUp(e)
      BY <2>3 DEF Tidy, GivenUp, ConsoleFlags
    <2>5. AsksCatalog(d, p, e)
      BY <1>2, <1>4, <2>3, <2>4 DEF AsksCatalog
    <2>6. ConsoleFlags(d, A \union {e})
      BY <2>5, ConsoleAsksCatalog
    <2> QED
      BY <1>1, <1>2, <2>2, <2>4, <2>6
  <1> QED
    BY <1>3, <1>4

OnTap == {"logout", "put", "detail", "restart", "reauth", "predict", "login"}

LEMMA ConsoleTapsFlags ==
    ASSUME ConsoleFlags(device, Awaited), IsConsoleWindow(device), ConsoleTaps \/ ConsoleForgets
    PROVE  ConsoleFlags(device', Awaited')
  <1>1. PICK A, p : A = Awaited /\ p = device
    OBVIOUS
  <1>2. ConsoleFlags(p, A) /\ IsConsoleWindow(p)
    BY <1>1
  <1>3. ASSUME NEW d, NEW kind \in OnTap, NEW e, Sent(e, p, kind), Sends(d, {e})
        PROVE  device' = d /\ Awaited' = A \union {e} /\ Tidy(e)
    <2>1. PICK New : New = {e}
      OBVIOUS
    <2>2. \A x \in New : ~GivenUp(x)
      BY <1>3, <2>1 DEF Sent, GivenUp
    <2>3. device' = d /\ Awaited' = A \union {e}
      BY <1>1, <1>3, <2>1, <2>2, SendsAll
    <2> QED
      BY <1>3, <2>3 DEF Sent, Tidy, OnTap
  <1>4. ASSUME NEW d, NEW kind \in OnTap, NEW e, Sent(e, p, kind), Sends(d, {e}),
               kind \in Operations, ~p.busy,
               d = [p EXCEPT !.busy = TRUE] \/ d = [p EXCEPT !.busy = TRUE, !.nextKey = @ + 1]
        PROVE  ConsoleFlags(device', Awaited')
    <2>1. device' = d /\ Awaited' = A \union {e} /\ Tidy(e)
      BY <1>3, <1>4
    <2>2. /\ SameSeat(d, p) /\ d.busy = TRUE /\ d.loggingIn = p.loggingIn
          /\ d.catalogLoading = p.catalogLoading
      BY <1>2, <1>4 DEF SameSeat, IsConsoleWindow
    <2>3. e.kind \in Operations /\ e.generation = p.generation
      BY <1>4 DEF Sent
    <2>4. TakesHold(d, p, e)
      BY <1>4, <2>1, <2>2, <2>3 DEF TakesHold
    <2>5. ConsoleFlags(d, A \union {e})
      BY <1>2, <2>4, ConsoleTakesHold
    <2> QED
      BY <2>1, <2>5
  <1>5. CASE ConsoleLogin
    <2>1. PICK u, d, e : /\ d = [p EXCEPT !.loggingIn = TRUE] /\ Sends(d, {e})
                         /\ e = [Request(p, "login") EXCEPT !.user = u]
      BY <1>1, <1>5 DEF ConsoleLogin
    <2>2. Sent(e, p, "login") /\ "login" \in OnTap
      BY <2>1, SentRequests DEF OnTap
    <2>3. device' = d /\ Awaited' = A \union {e} /\ Tidy(e)
      BY <1>3, <2>1, <2>2
    <2>4. /\ SameSeat(d, p) /\ d.loggingIn = TRUE /\ d.busy = p.busy
          /\ d.catalogLoading = p.catalogLoading
      BY <1>2, <2>1 DEF SameSeat, IsConsoleWindow
    <2>5. AsksIn(d, p, e)
      BY <1>1, <1>5, <2>2, <2>3, <2>4 DEF AsksIn, Sent, ConsoleLogin
    <2>6. ConsoleFlags(d, A \union {e})
      BY <1>2, <2>5, ConsoleAsksIn
    <2> QED
      BY <2>3, <2>6
  <1>6. CASE ConsoleLogout
    <2>1. PICK e : e = Request(p, "logout")
      OBVIOUS
    <2>2. Sent(e, p, "logout") /\ "logout" \in OnTap
      BY <2>1, SentRequests DEF OnTap
    <2>3. device' = p /\ Awaited' = A \union {e} /\ Tidy(e)
      BY <1>1, <1>3, <1>6, <2>1, <2>2 DEF ConsoleLogout
    <2>4. PICK New : New = {e}
      OBVIOUS
    <2>5. \A x \in New : x.kind \notin Holding /\ Tidy(x)
      BY <2>2, <2>3, <2>4 DEF Sent, Holding, Operations
    <2>6. SameHold(p, p)
      BY <1>2, ConsoleUpdates
    <2>7. ConsoleFlags(p, A \union New)
      BY <1>2, <2>5, <2>6, ConsoleAdds
    <2> QED
      BY <2>3, <2>4, <2>7
  <1>7. CASE ConsoleOpensPage
    <2>1. PICK d, New : d = Turned(p) /\ New = ListOf(d)
      OBVIOUS
    <2>2. \A e \in New : e.kind \notin Holding /\ Tidy(e) /\ ~GivenUp(e)
      BY <2>1, ListsOnTheirWay
    <2>3. device' = d /\ Awaited' = A \union New
      BY <1>1, <1>7, <2>1, <2>2, SendsAll DEF ConsoleOpensPage
    <2>4. SameHold(d, p)
      BY <1>2, <2>1, ConsoleUpdates
    <2>5. ConsoleFlags(d, A \union New)
      BY <1>2, <2>2, <2>4, ConsoleAdds
    <2> QED
      BY <2>3, <2>5
  <1>8. CASE ConsoleMutates
    <2>1. PICK version, page, d, e :
            /\ d = [p EXCEPT !.busy = TRUE, !.nextKey = @ + 1] /\ Sends(d, {e})
            /\ e = [[Request(p, "put") EXCEPT !.key = p.nextKey, !.intent = p.nextKey]
                        EXCEPT !.version = version, !.no = page]
      BY <1>1, <1>8 DEF ConsoleMutates, Once
    <2>2. Sent(e, p, "put") /\ "put" \in OnTap /\ "put" \in Operations
      BY <2>1 DEF Sent, Request, OnTap, Operations
    <2>3. ~p.busy
      BY <1>1, <1>8 DEF ConsoleMutates, Idle
    <2> QED
      BY <1>4, <2>1, <2>2, <2>3
  <1>9. CASE ConsoleToggles
    <2>1. PICK d, e : d = [p EXCEPT !.busy = TRUE] /\ e = Request(p, "detail") /\ Sends(d, {e})
      BY <1>1, <1>9 DEF ConsoleToggles
    <2>2. Sent(e, p, "detail") /\ "detail" \in OnTap /\ "detail" \in Operations /\ ~p.busy
      BY <1>1, <1>9, <2>1, SentRequests DEF OnTap, Operations, ConsoleToggles, Idle
    <2> QED
      BY <1>4, <2>1, <2>2
  <1>10. CASE ConsoleSubmits
    <2>1. ~p.busy
      BY <1>1, <1>10 DEF ConsoleSubmits, Idle
    <2>2. CASE Sends([device EXCEPT !.busy = TRUE], {Request(device, "reauth")})
      <3>1. PICK d, e : d = [p EXCEPT !.busy = TRUE] /\ e = Request(p, "reauth") /\ Sends(d, {e})
        BY <1>1, <2>2
      <3>2. Sent(e, p, "reauth") /\ "reauth" \in OnTap /\ "reauth" \in Operations
        BY <3>1, SentRequests DEF OnTap, Operations
      <3> QED
        BY <1>4, <2>1, <3>1, <3>2
    <2>3. ASSUME NEW kind \in {"restart", "predict"},
                 Sends([device EXCEPT !.busy = TRUE, !.nextKey = @ + 1], {Once(kind)})
          PROVE  ConsoleFlags(device', Awaited')
      <3>1. PICK d, e : /\ d = [p EXCEPT !.busy = TRUE, !.nextKey = @ + 1] /\ Sends(d, {e})
                        /\ e = [Request(p, kind) EXCEPT !.key = p.nextKey, !.intent = p.nextKey]
        BY <1>1, <2>3 DEF Once
      <3>2. Sent(e, p, kind) /\ kind \in OnTap /\ kind \in Operations
        BY <3>1, SentRequests DEF OnTap, Operations
      <3> QED
        BY <1>4, <2>1, <3>1, <3>2
    <2> QED
      BY <1>10, <2>2, <2>3 DEF ConsoleSubmits
  <1>11. CASE ConsoleForgets
    <2>1. PICK d, New : d = [p EXCEPT !.proven = FALSE] /\ New = {}
      OBVIOUS
    <2>2. device' = d /\ Awaited' = A \union New
      BY <1>1, <1>11, <2>1, SendsAll DEF ConsoleForgets
    <2>3. SameHold(d, p)
      BY <1>2, <2>1, ConsoleUpdates
    <2>4. ConsoleFlags(d, A)
      BY <1>2, <2>3, ConsoleSame
    <2> QED
      BY <2>1, <2>2, <2>4
  <1> QED
    BY <1>5, <1>6, <1>7, <1>8, <1>9, <1>10, <1>11 DEF ConsoleTaps

\* What is left when the client aborts its requests.
LEMMA AbortLeaves ==
    ASSUME \A x \in calls : IsCall(x), NEW New, \A e \in New : ~GivenUp(e),
           calls' = AfterAbort \union New
    PROVE  Awaited' = {x \in Awaited : x.at = "Pausing"} \union New
  <1>1. ASSUME NEW x \in calls, NEW e \in Remains(x)
        PROVE  GivenUp(e)
    BY DEF Remains, GivenUp, IsCall
  <1>2. \A e \in AfterAbort : ~GivenUp(e) <=> e \in calls /\ e.at = "Pausing"
    BY <1>1 DEF AfterAbort, Awaited, GivenUp
  <1>3. \A e \in calls : e.at = "Pausing" => e \in AfterAbort
    BY DEF AfterAbort
  <1> QED
    BY <1>2, <1>3 DEF Awaited, GivenUp

\* A session begins, or ends: nothing of it is under way.
Anew(d, p) ==
    /\ IsConsoleWindow(d) /\ d.generation = p.generation + 1 /\ d.session = p.session + 1
    /\ d.loggingIn = FALSE /\ d.busy = FALSE /\ d.catalogLoading = FALSE

LEMMA ConsoleBegins ==
    ASSUME NEW p, NEW A, ConsoleFlags(p, A), NEW d, Anew(d, p),
           p.generation \in Nat, \A e \in A : e.generation \in 0..p.generation
    PROVE  ConsoleFlags(d, {e \in A : e.at = "Pausing"})
  <1>1. \A K : Aged({e \in A : e.at = "Pausing"}, K, d.generation) = {}
    BY DEF Aged, Kinds, Anew
  <1>2. \A K : Waits(FALSE, Aged({e \in A : e.at = "Pausing"}, K, d.generation))
    BY <1>1 DEF Waits
  <1> QED
    BY <1>2 DEF ConsoleFlags, Anew

LEMMA RestReleases ==
    ASSUME NEW p, NEW d, SameHold(d, p)
    PROVE  Released(Rest(d), p)
  BY DEF SameHold, SameSeat, Released, Rest, IsConsoleWindow

LEMMA ConsoleLoginFlags ==
    ASSUME ConsoleFlags(device, Awaited), InSession, IsConsoleWindow(device),
           \A x \in calls : IsCall(x), NEW c \in Awaited, c.generation = device.generation,
           ConsoleLoggedIn(c)
    PROVE  ConsoleFlags(device', Awaited')
  <1>1. PICK A, p : A = Awaited /\ p = device
    OBVIOUS
  <1>2. /\ ConsoleFlags(p, A) /\ IsConsoleWindow(p) /\ p.generation \in Nat
        /\ \A e \in A : /\ e.generation \in 0..p.generation
                        /\ e.generation = p.generation /\ e.kind # "login" => p.token # 0
    BY <1>1 DEF InSession, OfSession
  <1>3. c \in A /\ c.kind = "login" /\ c.generation = p.generation /\ p.token = 0
    BY <1>1 DEF ConsoleLoggedIn, InSession, OfSession
  <1>4. PICK d : d = [p EXCEPT !.loggingIn = FALSE]
    OBVIOUS
  <1>5. CASE c.reply.code # "Ok"
    <2>1. Handles(c, d, {})
      BY <1>1, <1>4, <1>5 DEF ConsoleLoggedIn
    <2>2. device' = d /\ Awaited' = A \ {c}
      BY <1>1, <2>1, HandlesNone
    <2>3. NotIn(d, p)
      BY <1>2, <1>4, ConsoleUpdates
    <2>4. ConsoleFlags(d, A \ {c})
      BY <1>2, <1>3, <2>3, ConsoleNotIn
    <2> QED
      BY <2>2, <2>4
  <1>6. CASE c.reply.code = "Ok"
    <2>1. PICK turned, here : /\ turned = Turned(d)
                              /\ here = [turned EXCEPT !.token = c.reply.no, !.generation = @ + 1,
                                                       !.session = @ + 1]
      OBVIOUS
    <2>2. /\ device' = Asked(here)
          /\ calls' = AfterAbort \union CatalogOf(here) \union ListOf(here)
      BY <1>1, <1>4, <1>6, <2>1 DEF ConsoleLoggedIn
    <2>3. p.busy = FALSE /\ p.catalogLoading = FALSE
      <3>1. Aged(A, Operations, p.generation) = {} /\ Aged(A, {"catalog"}, p.generation) = {}
        BY <1>2, <1>3 DEF Aged, Kinds, Operations
      <3> QED
        BY <1>2, <3>1 DEF ConsoleFlags, Waits
    <2>4. IsConsoleWindow(d) /\ d.loggingIn = FALSE /\ d.busy = FALSE /\ d.catalogLoading = FALSE
          /\ d.generation = p.generation /\ d.session = p.session
      BY <1>2, <1>4, <2>3 DEF IsConsoleWindow
    <2>5. IsConsoleWindow(turned) /\ turned.loggingIn = FALSE /\ turned.busy = FALSE
          /\ turned.catalogLoading = FALSE
          /\ turned.generation = p.generation /\ turned.session = p.session
      BY <2>1, <2>4 DEF IsConsoleWindow, Turned
    <2>6. Anew(here, p)
      BY <2>1, <2>5 DEF Anew, IsConsoleWindow
    <2>7. PICK B : B = {e \in A : e.at = "Pausing"}
      OBVIOUS
    <2>8. ConsoleFlags(here, B) /\ IsConsoleWindow(here)
      BY <1>2, <2>6, <2>7, ConsoleBegins DEF Anew
    <2>9. /\ ConsoleFlags(Asked(here), B \union CatalogOf(here)) /\ IsConsoleWindow(Asked(here))
          /\ \A e \in CatalogOf(here) : ~GivenUp(e)
      BY <2>8, ConsoleAsksOnce
    <2>10. SameHold(Asked(here), Asked(here))
      BY <2>9, ConsoleUpdates
    <2>11. ConsoleFlags(Asked(here), (B \union CatalogOf(here)) \union ListOf(here))
      BY <2>9, <2>10, ListsOnTheirWay, ConsoleAdds
    <2>12. PICK New : New = CatalogOf(here) \union ListOf(here)
      OBVIOUS
    <2>13. (\A e \in New : ~GivenUp(e)) /\ calls' = AfterAbort \union New
      BY <2>2, <2>9, <2>12, ListsOnTheirWay
    <2>14. Awaited' = B \union New
      BY <1>1, <2>7, <2>13, AbortLeaves
    <2>15. Awaited' = (B \union CatalogOf(here)) \union ListOf(here)
      BY <2>12, <2>14
    <2> QED
      BY <2>2, <2>11, <2>15
  <1> QED
    BY <1>5, <1>6

LEMMA ConsoleEndsFlags ==
    ASSUME ConsoleFlags(device, Awaited), InSession, IsConsoleWindow(device),
           \A x \in calls : IsCall(x), NEW c, ConsoleEnds(c)
    PROVE  ConsoleFlags(device', Awaited')
  <1>1. PICK A, p, B : A = Awaited /\ p = device /\ B = {e \in A : e.at = "Pausing"}
    OBVIOUS
  <1>2. /\ ConsoleFlags(p, A) /\ IsConsoleWindow(p) /\ p.generation \in Nat
        /\ \A e \in A : e.generation \in 0..p.generation
    BY <1>1 DEF InSession, OfSession
  <1>3. PICK New, d : New = {} /\ d = BackAtLogin(p)
    OBVIOUS
  <1>4. device' = d /\ calls' = AfterAbort \union New /\ \A e \in New : ~GivenUp(e)
    BY <1>1, <1>3 DEF ConsoleEnds
  <1>5. Awaited' = B \union New
    BY <1>1, <1>4, AbortLeaves
  <1>6. Awaited' = B
    BY <1>3, <1>5
  <1>7. Anew(d, p)
    BY <1>2, <1>3 DEF Anew, BackAtLogin, Turned, IsConsoleWindow, Nothing
  <1>8. ConsoleFlags(d, B)
    BY <1>1, <1>2, <1>7, ConsoleBegins
  <1> QED
    BY <1>4, <1>6, <1>8

\* What the replies to the requests of an operation do.
Follows(e, p) ==
    /\ e.kind \in Operations /\ e.generation = p.generation /\ Tidy(e) /\ ~GivenUp(e)

LEMMA PollFollows ==
    ASSUME NEW p, p.session = p.generation, NEW tries, NEW at \in {"Sent", "Pausing"}
    PROVE  Follows(Poll(p, tries, at), p)
  <1>1. PICK e : e = Poll(p, tries, at)
    OBVIOUS
  <1>2. /\ e.kind = "command" /\ e.generation = p.generation /\ e.serial = p.session
        /\ e.at \in {"Sent", "Pausing"}
    BY <1>1 DEF Poll, Request
  <1> QED
    BY <1>1, <1>2 DEF Follows, Tidy, GivenUp, Operations

LEMMA OnceFollows ==
    ASSUME NEW v, NEW kind \in {"put", "restart"}
    PROVE  /\ Follows(Once(kind), device)
           /\ Follows([Once(kind) EXCEPT !.version = v], device)
  <1>1. PICK e, f : e = Once(kind) /\ f = [e EXCEPT !.version = v]
    OBVIOUS
  <1>2. /\ e.kind = kind /\ e.generation = device.generation /\ e.at = "Sent"
        /\ f.kind = kind /\ f.generation = device.generation /\ f.at = "Sent"
    BY <1>1 DEF Once, Request
  <1> QED
    BY <1>1, <1>2 DEF Follows, Tidy, GivenUp, Operations

LEMMA OperationGoesOn ==
    ASSUME ConsoleFlags(device, Awaited), NEW c \in Awaited, c.kind \in Operations,
           c.generation = device.generation, NEW d, SameHold(d, device),
           NEW e, Follows(e, device), Handles(c, d, {e})
    PROVE  ConsoleFlags(device', Awaited')
  <1>1. PICK New : New = {e}
    OBVIOUS
  <1>2. \A x \in New : ~GivenUp(x)
    BY <1>1 DEF Follows
  <1>3. device' = d /\ Awaited' = (Awaited \ {c}) \union {e}
    BY <1>1, <1>2, HandlesAll
  <1>4. PICK A, p : A = Awaited /\ p = device
    OBVIOUS
  <1>5. ConsoleFlags(d, (A \ {c}) \union {e})
    BY <1>4, ConsoleGoesOn DEF Follows
  <1> QED
    BY <1>3, <1>4, <1>5

LEMMA OperationEnds ==
    ASSUME ConsoleFlags(device, Awaited), NEW c \in Awaited, c.kind \in Operations,
           c.generation = device.generation, NEW d, SameHold(d, device), Handles(c, Rest(d), {})
    PROVE  ConsoleFlags(device', Awaited')
  <1>1. device' = Rest(d) /\ Awaited' = Awaited \ {c}
    BY HandlesNone
  <1>2. PICK A, p, q : A = Awaited /\ p = device /\ q = Rest(d)
    OBVIOUS
  <1>3. Released(q, p)
    BY <1>2, RestReleases
  <1>4. ConsoleFlags(q, A \ {c})
    BY <1>2, <1>3, ConsoleReleased
  <1> QED
    BY <1>1, <1>2, <1>4

\* It ends and the page is loaded again, and perhaps the catalogue.
LEMMA OperationReloads ==
    ASSUME ConsoleFlags(device, Awaited), IsConsoleWindow(device),
           NEW c \in Awaited, c.kind \in Operations, c.generation = device.generation,
           NEW x, NEW y, NEW Catalog, Handles(c, x, Catalog \union ListOf(y)),
           \/ SameHold(x, Rest(device)) /\ Catalog = {}
           \/ SameHold(x, Asked(Rest(device))) /\ Catalog = CatalogOf(Rest(device))
    PROVE  ConsoleFlags(device', Awaited')
  <1>1. PICK A, p, q : A = Awaited /\ p = device /\ q = Rest(p)
    OBVIOUS
  <1>2. Released(q, p) /\ IsConsoleWindow(q)
    BY <1>1, ConsoleUpdates DEF Released, SameSeat
  <1>3. ConsoleFlags(q, A \ {c})
    BY <1>1, <1>2, ConsoleReleased
  <1>4. /\ ConsoleFlags(Asked(q), (A \ {c}) \union CatalogOf(q))
        /\ \A e \in CatalogOf(q) : ~GivenUp(e)
    BY <1>2, <1>3, ConsoleAsksOnce
  <1>5. ConsoleFlags(x, (A \ {c}) \union Catalog) /\ \A e \in Catalog : ~GivenUp(e)
    <2>1. CASE SameHold(x, q) /\ Catalog = {}
      <3>1. ConsoleFlags(x, A \ {c})
        BY <1>3, <2>1, ConsoleSame
      <3>2. (A \ {c}) \union Catalog = A \ {c}
        BY <2>1
      <3> QED
        BY <2>1, <3>1, <3>2
    <2>2. CASE SameHold(x, Asked(q)) /\ Catalog = CatalogOf(q)
      BY <1>4, <2>2, ConsoleSame
    <2> QED
      BY <1>1, <2>1, <2>2
  <1>6. SameHold(x, x)
    BY DEF SameHold, SameSeat
  <1>7. ConsoleFlags(x, ((A \ {c}) \union Catalog) \union ListOf(y))
    BY <1>5, <1>6, ListsOnTheirWay, ConsoleAdds
  <1>8. PICK New : New = Catalog \union ListOf(y)
    OBVIOUS
  <1>9. (\A e \in New : ~GivenUp(e)) /\ Handles(c, x, New)
    BY <1>5, <1>8, ListsOnTheirWay
  <1>10. device' = x /\ Awaited' = (A \ {c}) \union New
    BY <1>1, <1>9, HandlesAll
  <1>11. Awaited' = ((A \ {c}) \union Catalog) \union ListOf(y)
    BY <1>8, <1>10
  <1> QED
    BY <1>7, <1>10, <1>11

LEMMA ConsoleHearsFlags ==
    ASSUME ConsoleFlags(device, Awaited), InSession, IsConsoleWindow(device),
           \A x \in calls : IsCall(x), NEW c \in calls, ConsoleReceives(c) \/ ConsoleAsksAgain(c)
    PROVE  ConsoleFlags(device', Awaited')
  <1>1. PICK A, p : A = Awaited /\ p = device
    OBVIOUS
  <1>2. ConsoleFlags(p, A) /\ IsConsoleWindow(p) /\ p.session = p.generation /\ Tidy(c)
    <2>1. c \in Awaited
      BY DEF ConsoleReceives, ConsoleAsksAgain, Awaited, GivenUp
    <2> QED
      BY <1>1, <2>1 DEF ConsoleFlags
  <1>3. c \in Awaited /\ (ConsoleReceives(c) => c.generation = device.generation)
    BY DEF ConsoleReceives, ConsoleAsksAgain, Awaited, GivenUp
  <1>4. SameHold(device, device)
    BY ConsoleUpdates
  <1>5. CASE ConsoleEnds(c)
    BY <1>5, ConsoleEndsFlags
  <1>6. CASE ConsoleReceives(c) /\ ConsoleLoggedIn(c)
    BY <1>3, <1>6, ConsoleLoginFlags
  <1>7. CASE ConsoleReceives(c) /\ ConsoleShowsPage(c)
    <2>1. CASE c.kind = "list"
      <3>1. PICK x, d : x = Read(c) /\ (d = device \/ d = [device EXCEPT !.list = x])
                        /\ Handles(c, d, {})
        BY <1>7, <2>1 DEF ConsoleShowsPage
      <3>2. SameHold(d, device)
        BY <1>4, <3>1, ConsoleUpdates
      <3>3. device' = d /\ Awaited' = Awaited \ {c}
        BY <3>1, HandlesNone
      <3>4. c.kind \notin Holding
        BY <2>1 DEF Holding, Operations
      <3>5. ConsoleFlags(d, Awaited \ {c})
        BY <3>2, <3>4, ConsoleDrops
      <3> QED
        BY <3>3, <3>5
    <2>2. CASE c.kind = "catalog"
      <3>1. PICK x, d : /\ x = (IF c.reply.code = "Ok" THEN Read(c) ELSE device.catalog)
                        /\ d = [device EXCEPT !.catalogLoading = FALSE, !.catalog = x]
        OBVIOUS
      <3>2. c.serial = device.session
        BY <1>1, <1>2, <1>3, <1>7, <2>2 DEF Tidy
      <3>3. Handles(c, d, {})
        BY <1>7, <2>2, <3>1, <3>2 DEF ConsoleShowsPage
      <3>4. device' = d /\ Awaited' = Awaited \ {c}
        BY <3>3, HandlesNone
      <3>5. Loaded(d, device)
        BY <3>1, ConsoleUpdates
      <3>6. ConsoleFlags(d, A \ {c})
        BY <1>1, <1>2, <1>3, <1>7, <2>2, <3>5, ConsoleLoaded
      <3> QED
        BY <1>1, <3>4, <3>6
    <2> QED
      BY <1>7, <2>1, <2>2 DEF ConsoleShowsPage
  <1>8. CASE ConsoleReceives(c) /\ ConsoleMutated(c)
    <2>1. c.kind \in Operations /\ c.generation = device.generation
      BY <1>3, <1>8 DEF ConsoleMutated, Operations
    <2>2. PICK d, e : d = Rest(device) /\ e = [d EXCEPT !.catalog = Nothing]
      OBVIOUS
    <2>3. IsConsoleWindow(d)
      BY <2>2, ConsoleUpdates DEF Released, SameSeat
    <2>4. \/ Handles(c, d, {})
          \/ Handles(c, Turned(Asked(e)), CatalogOf(d) \union ListOf(Turned(d)))
          \/ Handles(c, Turned(d), ListOf(Turned(d)))
      BY <1>8, <2>2 DEF ConsoleMutated
    <2>5. CASE Handles(c, d, {})
      BY <1>3, <1>4, <2>1, <2>2, <2>5, OperationEnds
    <2>6. CASE Handles(c, Turned(Asked(e)), CatalogOf(d) \union ListOf(Turned(d)))
      <3>1. PICK x, y, Catalog : x = Turned(Asked(e)) /\ y = Turned(d) /\ Catalog = CatalogOf(d)
        OBVIOUS
      <3>2. PICK f : f = Asked(e)
        OBVIOUS
      <3>3. IsConsoleWindow(f) /\ SameHold(f, Asked(d))
        BY <2>2, <2>3, <3>2 DEF Asked, IsConsoleWindow, SameHold, SameSeat
      <3>4. SameHold(x, f)
        BY <3>1, <3>2, <3>3, ConsoleUpdates
      <3>5. SameHold(x, Asked(d))
        BY <3>3, <3>4, HoldKept
      <3>6. SameHold(x, Asked(Rest(device))) /\ Catalog = CatalogOf(Rest(device))
            /\ Handles(c, x, Catalog \union ListOf(y))
        BY <2>2, <2>6, <3>1, <3>5
      <3> QED
        BY <1>3, <2>1, <3>6, OperationReloads
    <2>7. CASE Handles(c, Turned(d), ListOf(Turned(d)))
      <3>1. PICK x, Catalog : x = Turned(d) /\ Catalog = {}
        OBVIOUS
      <3>2. SameHold(x, d)
        BY <2>3, <3>1, ConsoleUpdates
      <3>3. Catalog \union ListOf(x) = ListOf(x)
        BY <3>1
      <3>4. Handles(c, x, Catalog \union ListOf(x))
        BY <2>7, <3>1, <3>3
      <3> QED
        BY <1>3, <2>1, <2>2, <3>1, <3>2, <3>4, OperationReloads
    <2> QED
      BY <2>4, <2>5, <2>6, <2>7
  <1>9. CASE ConsoleReceives(c) /\ ConsoleDetailed(c)
    <2>1. c.kind \in Operations /\ c.generation = device.generation
      BY <1>3, <1>9 DEF ConsoleDetailed, Operations
    <2>2. CASE Handles(c, Rest(device), {})
      BY <1>3, <1>4, <2>1, <2>2, OperationEnds
    <2>3. ASSUME Handles(c, [device EXCEPT !.nextKey = @ + 1],
                         {[Once("put") EXCEPT !.version = c.reply.version]})
          PROVE  ConsoleFlags(device', Awaited')
      <3>1. PICK d, v, e : /\ d = [device EXCEPT !.nextKey = @ + 1] /\ v = c.reply.version
                           /\ e = [Once("put") EXCEPT !.version = v]
        OBVIOUS
      <3>2. SameHold(d, device) /\ Handles(c, d, {e})
        BY <2>3, <3>1, ConsoleUpdates
      <3>3. Follows(e, device)
        BY <3>1, OnceFollows
      <3> QED
        BY <1>3, <2>1, <3>2, <3>3, OperationGoesOn
    <2> QED
      BY <1>9, <2>2, <2>3 DEF ConsoleDetailed
  <1>10. CASE ConsoleReceives(c) /\ ConsoleProven(c)
    <2>1. c.kind \in Operations /\ c.generation = device.generation
      BY <1>3, <1>10 DEF ConsoleProven, Operations
    <2>2. CASE Handles(c, Rest(device), {})
      BY <1>3, <1>4, <2>1, <2>2, OperationEnds
    <2>3. CASE Handles(c, [device EXCEPT !.proven = TRUE, !.nextKey = @ + 1], {Once("restart")})
      <3>1. PICK d, e : /\ d = [device EXCEPT !.proven = TRUE, !.nextKey = @ + 1]
                        /\ e = Once("restart")
        OBVIOUS
      <3>2. SameHold(d, device) /\ Handles(c, d, {e}) /\ Follows(e, device)
        BY <2>3, <3>1, ConsoleUpdates, OnceFollows
      <3> QED
        BY <1>3, <2>1, <3>2, OperationGoesOn
    <2> QED
      BY <1>10, <2>2, <2>3 DEF ConsoleProven
  <1>11. CASE ConsoleReceives(c) /\ ConsoleSubmitted(c)
    <2>1. c.kind \in Operations /\ c.generation = device.generation
      BY <1>3, <1>11 DEF ConsoleSubmitted, Operations
    <2>2. CASE Handles(c, device, {Poll(device, 0, "Sent")})
      <3>1. Follows(Poll(device, 0, "Sent"), device)
        BY <1>1, <1>2, PollFollows
      <3> QED
        BY <1>3, <1>4, <2>1, <2>2, <3>1, OperationGoesOn
    <2>3. CASE Handles(c, Rest([device EXCEPT !.proven = @ /\ c.reply.code # "Forbidden"]), {})
      <3>1. PICK x : x = (device.proven /\ c.reply.code # "Forbidden")
        OBVIOUS
      <3>2. PICK d : d = [device EXCEPT !.proven = x]
        OBVIOUS
      <3>3. SameHold(d, device) /\ Handles(c, Rest(d), {})
        BY <2>3, <3>1, <3>2, ConsoleUpdates
      <3> QED
        BY <1>3, <2>1, <3>3, OperationEnds
    <2> QED
      BY <1>11, <2>2, <2>3 DEF ConsoleSubmitted
  <1>12. CASE ConsoleReceives(c) /\ ConsolePolled(c)
    <2>1. c.kind \in Operations /\ c.generation = device.generation
      BY <1>3, <1>12 DEF ConsolePolled, Operations
    <2>2. CASE Handles(c, Rest(device), {})
      BY <1>3, <1>4, <2>1, <2>2, OperationEnds
    <2>3. CASE Handles(c, device, {Poll(device, c.tries, "Pausing")})
      <3>1. Follows(Poll(device, c.tries, "Pausing"), device)
        BY <1>1, <1>2, PollFollows
      <3> QED
        BY <1>3, <1>4, <2>1, <2>3, <3>1, OperationGoesOn
    <2>4. CASE Handles(c, Turned(Rest(device)), ListOf(Turned(device)))
      <3>1. PICK x, y, d, Catalog : /\ x = Turned(d) /\ y = Turned(device) /\ Catalog = {}
                                    /\ d = Rest(device)
        OBVIOUS
      <3>2. IsConsoleWindow(d)
        BY <3>1, ConsoleUpdates DEF Released, SameSeat
      <3>3. SameHold(x, d)
        BY <3>1, <3>2, ConsoleUpdates
      <3>4. Catalog \union ListOf(y) = ListOf(y)
        BY <3>1
      <3>5. Handles(c, x, Catalog \union ListOf(y)) /\ SameHold(x, Rest(device))
        BY <2>4, <3>1, <3>3, <3>4
      <3> QED
        BY <1>3, <2>1, <3>1, <3>5, OperationReloads
    <2> QED
      BY <1>12, <2>2, <2>3, <2>4 DEF ConsolePolled
  <1>13. CASE ConsoleAsksAgain(c)
    <2>1. c.kind = "command" /\ c.serial = c.generation
      BY <1>2, <1>13 DEF ConsoleAsksAgain, Tidy
    <2>2. CASE c.serial = device.session /\ HasSession
      <3>1. c.kind \in Operations /\ c.generation = device.generation
        BY <1>1, <1>2, <2>1, <2>2 DEF Operations
      <3>2. PICK e : e = Poll(device, c.tries + 1, "Sent")
        OBVIOUS
      <3>3. Handles(c, device, {e}) /\ Follows(e, device)
        BY <1>1, <1>2, <1>13, <2>2, <3>2, PollFollows DEF ConsoleAsksAgain
      <3> QED
        BY <1>3, <1>4, <3>1, <3>3, OperationGoesOn
    <2>3. CASE ~(c.serial = device.session /\ HasSession)
      <3>1. Handles(c, device, {})
        BY <1>13, <2>3 DEF ConsoleAsksAgain
      <3>2. device' = device /\ Awaited' = Awaited \ {c}
        BY <3>1, HandlesNone
      <3>3. c.generation # device.generation
        BY <1>1, <1>2, <1>3, <2>1, <2>3 DEF InSession, OfSession, HasSession
      <3>4. ConsoleFlags(device, Awaited \ {c})
        BY <1>4, <3>3, ConsoleDrops
      <3> QED
        BY <3>2, <3>4
    <2> QED
      BY <2>2, <2>3
  <1> QED
    BY <1>5, <1>6, <1>7, <1>8, <1>9, <1>10, <1>11, <1>12, <1>13 DEF ConsoleReceives

-----------------------------------------------------------------------------
(* Every step of every app. *)

LEMMA FlagsInit == ASSUME ClientsInit PROVE FlagsInv
  <1>1. Awaited = {}
    BY DEF ClientsInit, Awaited
  <1>2. \A K, g, n : /\ Waits(FALSE, Kinds(Awaited, K)) /\ Waits(FALSE, OfPage(Awaited, n))
                     /\ Waits(FALSE, Aged(Awaited, K, g)) /\ Kinds(Awaited, K) = {}
    BY <1>1 DEF Waits, Kinds, OfPage, Aged
  <1>3. CASE IsMobile
    <2>1. MobileInit
      BY <1>3 DEF ClientsInit, IsMobile, IsDesktop, IsConsole, NoApp
    <2>2. device.reviewBusy = FALSE
      BY <2>1 DEF MobileInit
    <2> QED
      BY <1>2, <1>3, <2>2 DEF FlagsInv, PhoneFlags, IsMobile, IsDesktop, IsConsole
  <1>4. CASE IsDesktop
    <2>1. DesktopInit
      BY <1>4 DEF ClientsInit, IsMobile, IsDesktop, IsConsole, NoApp
    <2>2. /\ device.reviewBusy = FALSE /\ device.polling = FALSE /\ device.loggingIn = FALSE
          /\ device.nextKey \in Nat \ {0} /\ device.reviewKey \in 0..(device.nextKey - 1)
      BY <2>1 DEF DesktopInit
    <2>3. DeskFlags(device, Awaited)
      BY <1>2, <2>2 DEF DeskFlags, DeskPages
    <2> QED
      BY <1>4, <2>3 DEF FlagsInv, IsMobile, IsDesktop, IsConsole
  <1>5. CASE IsConsole
    <2>1. ConsoleInit
      BY <1>5 DEF ClientsInit, IsMobile, IsDesktop, IsConsole, NoApp
    <2>2. /\ device.loggingIn = FALSE /\ device.busy = FALSE /\ device.catalogLoading = FALSE
          /\ device.session = device.generation
      BY <2>1 DEF ConsoleInit
    <2>3. ConsoleFlags(device, Awaited)
      BY <1>1, <1>2, <2>2 DEF ConsoleFlags
    <2> QED
      BY <1>5, <2>3 DEF FlagsInv, IsMobile, IsDesktop, IsConsole
  <1> QED
    BY <1>3, <1>4, <1>5 DEF FlagsInv

LEMMA AppsFlags ==
    ASSUME FlagsInv, OwnInv, OnceInv, Apps
    PROVE  FlagsInv'
  <1>1. /\ IsMobile => PhoneOwn /\ IsPhone(device) /\ PhoneFlags(device, Awaited)
        /\ IsDesktop => IsWindow(device) /\ DeskFlags(device, Awaited)
        /\ IsConsole => InSession /\ IsConsoleWindow(device) /\ ConsoleFlags(device, Awaited)
        /\ \A c \in calls : IsCall(c)
    BY DEF FlagsInv, OwnInv, ConsoleOwn, OnceInv, KeysOK, Held, Meant
  <1>2. ASSUME UNCHANGED scene, \/ IsMobile /\ PhoneFlags(device', Awaited')
                                \/ IsDesktop /\ DeskFlags(device', Awaited')
                                \/ IsConsole /\ ConsoleFlags(device', Awaited')
        PROVE  FlagsInv'
    BY <1>2 DEF FlagsInv, IsMobile, IsDesktop, IsConsole
  <1>3. CASE MobileTaps \/ MobilePolls
    <2>1. IsMobile /\ UNCHANGED scene
      BY <1>3
      DEF MobileTaps, MobilePolls, MobileLogin, MobileSignOff, MobileOpensPage, MobileRenames,
          MobilePosts, MobileBeginsReview, MobileSubmitsReview, Taps
    <2> QED
      BY <1>1, <1>2, <1>3, <2>1, PhoneTapsFlags
  <1>4. CASE DesktopTaps \/ DesktopPolls
    <2>1. IsDesktop /\ UNCHANGED scene
      BY <1>4
      DEF DesktopTaps, DesktopPolls, DesktopLogin, DesktopSignOff, DesktopOpensPage,
          DesktopPosts, DesktopBegins, DesktopAnswers, DesktopOpensReview, DesktopInReview,
          Inside, AtWindow, Taps
    <2> QED
      BY <1>1, <1>2, <1>4, <2>1, DeskTapsFlags
  <1>5. CASE ConsoleTaps \/ ConsoleForgets
    <2>1. IsConsole /\ UNCHANGED scene
      BY <1>5
      DEF ConsoleTaps, ConsoleForgets, ConsoleLogin, ConsoleLogout, ConsoleOpensPage,
          ConsoleMutates, ConsoleToggles, ConsoleSubmits, Idle, Taps
    <2> QED
      BY <1>1, <1>2, <1>5, <2>1, ConsoleTapsFlags
  <1>6. CASE ServerEvent \/ CommandEnds
    <2>1. UNCHANGED <<scene, device>> /\ Awaited' = Awaited
      BY <1>6 DEF ServerEvent, CommandEnds, Awaited
    <2> QED
      BY <2>1, FlagsMove
  <1>7. ASSUME NEW c \in calls, Lose(c) \/ Serve(c)
        PROVE  FlagsInv'
    BY <1>7, LoseFlags, ServeFlags
  <1>8. ASSUME NEW c \in calls, MobileReceives(c)
        PROVE  FlagsInv'
    <2>1. IsMobile /\ UNCHANGED scene
      BY <1>8
      DEF MobileReceives, MobileDrops, MobileEnds, MobileFails, MobileLoggedIn,
          MobileShowsStations, MobileShowsOrders, MobileShowsProfile, MobileShowsFlow,
          MobileSettled, MobilePolled, MobileProfileChanged, MobileReviewed, Handles
    <2> QED
      BY <1>1, <1>2, <1>8, <2>1, PhoneReceivesFlags
  <1>9. ASSUME NEW c \in calls, DesktopPauses(c) \/ DesktopSendsAgain(c) \/ DesktopReceives(c)
        PROVE  FlagsInv'
    <2>1. IsDesktop /\ UNCHANGED scene
      BY <1>9
      DEF DesktopPauses, DesktopSendsAgain, DesktopReceives, DesktopLoggedIn, DesktopEnds,
          DesktopFails, DesktopShowsStations, DesktopShowsOrders, DesktopShowsProfile,
          DesktopProfileChanged, DesktopAsked, DesktopShowsFlow, DesktopPolled,
          DesktopReviewed, Handles
    <2> QED
      BY <1>1, <1>2, <1>9, <2>1, DeskReceivesFlags, DeskRepeatsFlags
  <1>10. ASSUME NEW c \in calls, ConsoleReceives(c) \/ ConsoleAsksAgain(c)
         PROVE  FlagsInv'
    <2>1. IsConsole /\ UNCHANGED scene
      BY <1>10
      DEF ConsoleReceives, ConsoleAsksAgain, ConsoleEnds, ConsoleLoggedIn, ConsoleShowsPage,
          ConsoleMutated, ConsoleDetailed, ConsoleProven, ConsoleSubmitted, ConsolePolled, Handles
    <2> QED
      BY <1>1, <1>2, <1>10, <2>1, ConsoleHearsFlags
  <1> QED
    BY <1>3, <1>4, <1>5, <1>6, <1>7, <1>8, <1>9, <1>10 DEF Apps, Receives

LEMMA FlagsStep ==
    ASSUME FlagsInv, OwnInv, OnceInv, [ClientsNext]_all
    PROVE  FlagsInv'
  <1>1. CASE NoApp /\ Next /\ UNCHANGED appVars
    BY <1>1, FlagsMove DEF appVars, Awaited
  <1>2. CASE Linked
    BY <1>2, LinkedFlags
  <1>3. CASE Apps
    BY <1>3, AppsFlags
  <1>4. CASE UNCHANGED all
    BY <1>4, FlagsMove DEF all, appVars, Awaited
  <1> QED
    BY <1>1, <1>2, <1>3, <1>4 DEF ClientsNext

LEMMA FlagsTrue == ASSUME FlagsInv PROVE FlagsAreTrue
  <1>1. /\ \A K : Awaiting(K) = Kinds(Awaited, K)
        /\ \A n : Reviewing(n) = OfPage(Awaited, n)
        /\ \A K : OfNow(Awaiting(K)) = Aged(Awaited, K, device.generation)
    BY DEF Awaiting, Reviewing, OfNow, Kinds, OfPage, Aged
  <1>2. IsMobile => UpFor(device.reviewBusy, Reviewing(device.reviewSerial))
    BY <1>1, WaitsCounted DEF FlagsInv, PhoneFlags
  <1>3. IsDesktop =>
          /\ UpFor(device.loggingIn, Awaiting({"login"}))
          /\ UpFor(device.polling, Awaiting({"flow", "progress"}))
          /\ UpFor(device.reviewBusy, Reviewing(device.reviewKey))
    BY <1>1, WaitsCounted DEF FlagsInv, DeskFlags, DeskPages
  <1>4. IsConsole =>
          /\ UpFor(device.loggingIn, OfNow(Awaiting({"login"})))
          /\ UpFor(device.busy, OfNow(Awaiting(Operations)))
          /\ UpFor(device.catalogLoading, OfNow(Awaiting({"catalog"})))
    BY <1>1, WaitsCounted DEF FlagsInv, ConsoleFlags
  <1> QED
    BY <1>2, <1>3, <1>4 DEF FlagsAreTrue

\* Through losses, repetitions, sessions that end and dialogs that are closed:
\* what holds a button, or keeps a poll from being sent, is up exactly while one
\* request is under way, or pauses, that will let it go.
THEOREM FlagsAlwaysTrue == ClientsSpec => []FlagsAreTrue
  <1> DEFINE I == TypeOK /\ Alone /\ Ends /\ OnceInv /\ OwnInv /\ FlagsInv
  <1>1. ClientsInit => I
    <2> SUFFICES ASSUME ClientsInit
                 PROVE  I
      OBVIOUS
    <2>1. TypeOK /\ Alone
      BY SettlementTxnAssumption, EightStatements
      DEF ClientsInit, Init, TypeOK, Rows, Alone, Gone
    <2>2. Ends
      BY DEF ClientsInit, Init, Ends
    <2> QED
      BY <2>1, <2>2, OnceInit, OwnInit, FlagsInit
  <1>2. I /\ [ClientsNext]_all => I'
    <2> SUFFICES ASSUME I, [ClientsNext]_all
                 PROVE  I'
      OBVIOUS
    <2>1. TypeOK' /\ Alone' /\ Ends' /\ OnceInv'
      BY ClientsStep, TypedStep, EndsStep, OnceStep
    <2>2. OwnInv'
      <3>1. CASE ClientsNext
        BY <3>1, OwnStep
      <3>2. CASE UNCHANGED all
        <4>1. UNCHANGED <<scene, device, calls, server>> /\ OneApp /\ Versions
          BY <3>2, VersionsOwn DEF all, appVars, OnceInv
        <4>2. Versions' /\ server.version <= server'.version /\ Awaited' \subseteq Awaited
          BY <4>1 DEF Versions, Awaited
        <4> QED
          BY <4>1, <4>2, FewerFit
      <3> QED
        BY <3>1, <3>2
    <2>3. FlagsInv'
      BY FlagsStep
    <2> QED
      BY <2>1, <2>2, <2>3
  <1>3. I => FlagsAreTrue
    BY FlagsTrue
  <1> QED
    BY <1>1, <1>2, <1>3, PTL DEF ClientsSpec
=============================================================================

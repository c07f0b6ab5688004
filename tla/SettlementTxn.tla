--------------------------- MODULE SettlementTxn ---------------------------
(***************************************************************************)
(* One settlement, statement by statement: settle of the charge flow       *)
(* service, its compensation when a statement throws, and the transaction  *)
(* of the idempotency service it runs in.  A transaction opened inside     *)
(* another one is flattened into it by withTransaction, so what "rolls     *)
(* back" depends on the caller: not nested, the service is called          *)
(* directly, as its tests do; nested, it is called by executeAndComplete,  *)
(* as the settlement route of the server does.                             *)
(***************************************************************************)
EXTENDS Naturals, Sequences

CONSTANTS
    Callers,         \* whether executeAndComplete holds the outer transaction, and
                     \* bound: whether a statement may throw
    Opening, Price,  \* the balance before, and the cost of the charge
    MaxAttempts      \* bound: how often the client asks

ASSUME SettlementTxnAssumption ==
    /\ Callers \subseteq [nested: BOOLEAN, throws: BOOLEAN]
    /\ Opening \in Nat /\ Price \in Nat /\ MaxAttempts \in Nat

VARIABLES
    caller,
    db,       \* what is committed
    work,     \* what the open transaction sees
    stage,    \* where the request handler is
    next,     \* the statement of settle it executes next
    attempts

vars == <<caller, db, work, stage, next, attempts>>

\* The rows one settlement touches; charger tells who has the charger, ledger
\* counts the wallet_transaction rows of the order, key is the record of the
\* request's idempotency key.
Rows == [flow: {"Charging", "Settling", "Completed", "SettlementFailed"},
         order: {"Charging", "Completed", "SettlementFailed"},
         charger: {"Held", "Idle", "Other"},
         balance: Nat, debt: Nat, ledger: Nat, flag: BOOLEAN,
         key: {"None", "Leased", "Stored"}]

\* The statements of settle, in the order of the code; any of them may throw.
Statements == <<"settling", "charger", "wallet", "ledger", "order", "completed", "flag", "promote">>

TypeOK ==
    /\ caller \in Callers
    /\ db \in Rows /\ work \in Rows
    /\ stage \in {"Free", "Leased", "Running", "Failed"}
    /\ next \in 1..(Len(Statements) + 1)
    /\ attempts \in 0..MaxAttempts

Init ==
    /\ caller \in Callers
    /\ db = [flow |-> "Charging", order |-> "Charging", charger |-> "Held",
             balance |-> Opening, debt |-> 0, ledger |-> 0, flag |-> TRUE, key |-> "None"]
    /\ work = db /\ stage = "Free" /\ next = 1 /\ attempts = 0

-----------------------------------------------------------------------------
Paid(w) == IF w.balance < Price THEN w.balance ELSE Price

Effect(statement, w) ==
    CASE statement = "settling"  -> [w EXCEPT !.flow = "Settling"]
      [] statement = "charger"   -> [w EXCEPT !.charger = "Idle"]
      [] statement = "wallet"    -> [w EXCEPT !.balance = @ - Paid(w),
                                              !.debt = @ + (Price - Paid(w))]
      [] statement = "ledger"    -> [w EXCEPT !.ledger = @ + 1]
      [] statement = "order"     -> [w EXCEPT !.order = "Completed"]
      [] statement = "completed" -> [w EXCEPT !.flow = "Completed"]
      [] statement = "flag"      -> [w EXCEPT !.flag = FALSE]

\* Mutation of Settleable: a completed flow is settled again.
SettleableAgain(w) == w.flow \in {"Charging", "SettlementFailed", "Completed"}
Settleable(w) == w.flow \in {"Charging", "SettlementFailed"}

\* begin: the key is leased in a transaction of its own.
Begin ==
    /\ stage = "Free" /\ attempts < MaxAttempts
    /\ caller.nested => db.key = "None"
    /\ stage' = "Leased" /\ attempts' = attempts + 1
    /\ db' = IF caller.nested THEN [db EXCEPT !.key = "Leased"] ELSE db
    /\ UNCHANGED <<caller, work, next>>

\* The transaction begins; a flow that cannot be settled is refused and the
\* key released.
Open ==
    /\ stage = "Leased"
    /\ \/ /\ Settleable(db)
          /\ work' = db /\ stage' = "Running" /\ next' = 1
          /\ UNCHANGED db
       \/ /\ ~Settleable(db)
          /\ db' = IF caller.nested THEN [db EXCEPT !.key = "None"] ELSE db
          /\ stage' = "Free"
          /\ UNCHANGED <<work, next>>
    /\ UNCHANGED <<caller, attempts>>

Execute ==
    /\ stage = "Running" /\ next < Len(Statements)
    /\ work' = Effect(Statements[next], work)
    /\ next' = next + 1
    /\ UNCHANGED <<caller, db, stage, attempts>>

\* promoteQueueLocked, the last of them: the charger may go to a flow that waits.
Promote ==
    /\ stage = "Running" /\ next = Len(Statements)
    /\ work' \in {work, [work EXCEPT !.charger = "Other"]}
    /\ next' = next + 1
    /\ UNCHANGED <<caller, db, stage, attempts>>

\* Mutation of Kept: nothing is rolled back.
KeepsAll == work
\* What the handler of the exception finds: rolled back, unless the failed
\* transaction was flattened into the one still open.
Kept == IF caller.nested THEN work ELSE db

Compensated(w) ==
    IF w.flow \in {"Charging", "Settling", "SettlementFailed"}
    THEN [w EXCEPT !.flow = "SettlementFailed", !.order = "SettlementFailed", !.flag = TRUE]
    ELSE w

\* A statement throws and settle catches: status 80 is written in a further
\* withTransaction, and the answer is TransactionFailed.
StatementFails ==
    /\ caller.throws
    /\ stage = "Running" /\ next <= Len(Statements)
    /\ work' = Compensated(Kept)
    /\ stage' = "Failed"
    /\ UNCHANGED <<caller, db, next, attempts>>

\* An answer of 400 or more commits too, and releases the key.
CommitFailure ==
    /\ stage = "Failed"
    /\ db' = IF caller.nested THEN [work EXCEPT !.key = "None"] ELSE work
    /\ stage' = "Free"
    /\ UNCHANGED <<caller, work, next, attempts>>

\* Mutation of StoredResult: the answer is not stored with the settlement.
NotStored(w) == w
StoredResult(w) == IF caller.nested THEN [w EXCEPT !.key = "Stored"] ELSE w

\* The settlement and the stored answer are committed together.
Commit ==
    /\ stage = "Running" /\ next > Len(Statements)
    /\ db' = StoredResult(work)
    /\ stage' = "Free"
    /\ UNCHANGED <<caller, work, next, attempts>>

\* The process dies: an open transaction is rolled back, the lease stays.
Crash ==
    /\ stage # "Free"
    /\ stage' = "Free"
    /\ UNCHANGED <<caller, db, work, next, attempts>>

LeaseExpires ==
    /\ stage = "Free" /\ db.key = "Leased"
    /\ db' = [db EXCEPT !.key = "None"]
    /\ UNCHANGED <<caller, work, stage, next, attempts>>

\* Another flow is given the charger when it is idle, and gives it back.  The
\* unique index on the charger of active flows keeps it out until this flow
\* has ended, and BEGIN IMMEDIATE while a transaction is open.
OtherFlow ==
    /\ stage \in {"Free", "Leased"}
    /\ \/ db.charger = "Idle" /\ db.flow = "Completed" /\ db' = [db EXCEPT !.charger = "Other"]
       \/ db.charger = "Other" /\ db' = [db EXCEPT !.charger = "Idle"]
    /\ UNCHANGED <<caller, work, stage, next, attempts>>

Next == Begin \/ Open \/ Execute \/ Promote \/ StatementFails \/ CommitFailure \/ Commit
        \/ Crash \/ LeaseExpires \/ OtherFlow

Spec == Init /\ [][Next]_vars

-----------------------------------------------------------------------------
\* SRS UC-U-09 and sqlite_repository.cpp, "BEGIN IMMEDIATE ... ROLLBACK": a
\* settlement happens entirely or not at all.  Until it is complete the flow
\* keeps its charger, its order is open and the wallet is untouched; after
\* that the wallet was charged exactly once.
SettlementIsAllOrNothing ==
    \/ /\ db.flow \in {"Charging", "SettlementFailed"} /\ db.order = db.flow
       /\ db.charger = "Held" /\ db.flag
       /\ db.balance = Opening /\ db.debt = 0 /\ db.ledger = 0
    \/ /\ db.flow = "Completed" /\ db.order = "Completed"
       /\ db.charger # "Held" /\ ~db.flag
       /\ db.balance + Price = Opening + db.debt /\ db.ledger = 1

\* The answer of a settlement is stored in the transaction that settles: a
\* crash leaves neither a settlement whose answer cannot be replayed nor the
\* answer of a settlement that did not happen.
AnswerStoredWithSettlement ==
    TypeOK /\ (caller.nested => (db.key = "Stored" <=> db.flow = "Completed"))

\* Whoever got the charger afterwards is not thrown off it by a late retry:
\* it leaves of its own accord, and nothing else changes when it does.
ChargerNotTakenFromOther ==
    [][db.charger = "Other" /\ db'.charger # "Other" => db' = [db EXCEPT !.charger = "Idle"]]_vars
=============================================================================

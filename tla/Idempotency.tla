---------------------------- MODULE Idempotency ----------------------------
(***************************************************************************)
(* The idempotency service: several requests with the same key, a lease of *)
(* ten minutes that the first of them holds while it executes, answers     *)
(* that are replayed for seven days or for ever, a bounded table, a cache  *)
(* in memory, failing database statements, handlers that stall past their  *)
(* lease, and crashes.                                                     *)
(*                                                                         *)
(* A record is known by the request that wrote it: its lease token and its *)
(* answer are unique, and its times are the age of that request (0: lease  *)
(* valid, 1: lease over, 2: answer over).                                  *)
(***************************************************************************)
EXTENDS Naturals, FiniteSets

CONSTANTS
    Calls,      \* HTTP requests with an Idempotency-Key
    Keys,       \* scope and Idempotency-Key
    Bodies,
    Asked,      \* bound: what the clients may ask, each with a key and a body
    Permanent,  \* the keys of recharges, settlements and reviews
    Capacity,   \* maximumEntries_
    None,
    MaxFailures,  \* bound: statements that throw (SQLITE_BUSY, disk)
    MaxCrashes,   \* bound: restarts of the process
    MaxStalls     \* bound: handlers that are still at it when their lease ends

\* What a caller is told instead of a result.
Refusals == {"None", "InProgress", "Conflict", "CapacityExceeded", "LeaseLost", "Refused", "Error"}

ASSUME IdempotencyAssumption ==
    /\ Asked \subseteq [Calls -> [key: Keys, body: Bodies]] /\ Permanent \subseteq Keys
    /\ None \notin Calls /\ Calls \cap Refusals = {}
    /\ Capacity \in Nat /\ MaxFailures \in Nat /\ MaxCrashes \in Nat
    /\ MaxStalls \in Nat

VARIABLES
    asks,     \* the key and the body of each request
    db,       \* idempotency_record
    cache,    \* entries_
    stage,    \* where each request is
    outcome,  \* what came of it: the request whose result it is, or a refusal
    effects,  \* the requests whose business effect is committed
    age,      \* of the lease and the answer of each request
    stalled,  \* history: the requests whose lease ended after they had checked it
    mayFail, mayCrash, mayStall  \* bound: what is still to go wrong

callVars == <<asks, db, cache, stage, outcome, effects, age, stalled, mayFail, mayCrash, mayStall>>
fixed == <<asks, stalled, mayCrash, mayStall>>
world == <<fixed, mayFail>>

KeyOf(r) == asks[r].key
StalledKeys == {KeyOf(r) : r \in stalled}
Lease(r) == [by |-> r, result |-> FALSE]
NoRecord == [by |-> None, result |-> FALSE]
Record == [by: Calls, result: BOOLEAN] \cup {NoRecord}

CallsTypeOK ==
    /\ db \in [Keys -> Record] /\ cache \in [Keys -> Record]
    /\ stage \in [Calls -> {"New", "Leased", "Checked", "Committed", "Released", "Done"}]
    /\ outcome \in [Calls -> Calls \cup Refusals]
    /\ effects \subseteq Calls
    /\ asks \in Asked /\ age \in [Calls -> 0..2]
    /\ stalled \subseteq Calls
    /\ mayFail \in 0..MaxFailures /\ mayCrash \in 0..MaxCrashes /\ mayStall \in 0..MaxStalls

CallsInit ==
    /\ db = [k \in Keys |-> NoRecord] /\ cache = db
    /\ stage = [r \in Calls |-> "New"]
    /\ outcome = [r \in Calls |-> "None"]
    /\ effects = {} /\ stalled = {}
    /\ asks \in Asked /\ age = [r \in Calls |-> 0]
    /\ mayFail \in 0..MaxFailures /\ mayCrash \in 0..MaxCrashes /\ mayStall \in 0..MaxStalls

-----------------------------------------------------------------------------
\* A lease expires; so does an answer unless it is permanent.
Expired(k, rec) ==
    /\ rec # NoRecord
    /\ IF rec.result THEN k \notin Permanent /\ age[rec.by] = 2 ELSE age[rec.by] >= 1

\* Mutation of Swept: every answer is dropped.
SweptAnswers(table) == [k \in Keys |-> IF table[k].result THEN NoRecord ELSE table[k]]
Swept(table) == [k \in Keys |-> IF Expired(k, table[k]) THEN NoRecord ELSE table[k]]
Count(table) == Cardinality({k \in Keys : table[k] # NoRecord})
\* Mutation of Full: one too many.
FullAbove(table) == Count(table) > Capacity
Full(table) == Count(table) >= Capacity

\* What begin finds: the cache, loaded from the database when it has nothing.
Loaded(k) == IF cache[k] = NoRecord THEN db[k] ELSE cache[k]
Answered(r, a) ==
    /\ stage' = [stage EXCEPT ![r] = "Done"]
    /\ outcome' = [outcome EXCEPT ![r] = a]

\* Mutation of Verdict: the digest of the body is not compared.
VerdictByKey(r, rec) == IF ~rec.result THEN "InProgress" ELSE rec.by
Verdict(r, rec) ==
    IF asks[rec.by].body # asks[r].body THEN "Conflict"
    ELSE IF ~rec.result THEN "InProgress" ELSE rec.by

StatementFails == mayFail > 0 /\ mayFail' = mayFail - 1

\* begin, all of it under the mutex of the service.
Begin(r) ==
    LET k == KeyOf(r)
        rec == Loaded(k)
        open == rec = NoRecord \/ Expired(k, rec)
        freed == [db EXCEPT ![k] = IF open THEN NoRecord ELSE @]
        full == Full(freed)
        left == IF full THEN Swept(freed) ELSE freed
        kept == [IF full THEN Swept(cache) ELSE cache EXCEPT ![k] = NoRecord]
    IN /\ stage[r] = "New"
       /\ \/ /\ ~open
             /\ cache' = [cache EXCEPT ![k] = rec]
             /\ Answered(r, Verdict(r, rec))
             /\ UNCHANGED db
          \/ /\ open /\ Full(left)
             /\ db' = left /\ cache' = kept
             /\ Answered(r, "CapacityExceeded")
          \/ /\ open /\ ~Full(left)
             /\ db' = [left EXCEPT ![k] = Lease(r)]
             /\ cache' = [kept EXCEPT ![k] = Lease(r)]
             /\ stage' = [stage EXCEPT ![r] = "Leased"]
             /\ UNCHANGED outcome
       /\ UNCHANGED <<effects, age, world>>

\* A statement of begin throws: an expired entry is gone from the cache, a new
\* one is taken out again, and the database keeps what it had or loses the
\* expired record.
BeginFails(r) ==
    LET k == KeyOf(r)
        expired == Expired(k, Loaded(k))
    IN /\ stage[r] = "New" /\ StatementFails
       /\ expired \/ Loaded(k) = NoRecord
       /\ cache' = [cache EXCEPT ![k] = NoRecord]
       /\ db' \in {db, [db EXCEPT ![k] = IF expired THEN NoRecord ELSE @]}
       /\ Answered(r, "Error")
       /\ UNCHANGED <<effects, age, fixed>>

Owns(r) == cache[KeyOf(r)] = Lease(r)

\* abort, also run by the destructor of the lease: whoever still owns the key
\* gives it up; a failing delete is swallowed and leaves the row to expire.
Abort(r) ==
    LET k == KeyOf(r) IN
    IF Owns(r)
    THEN /\ cache' = [cache EXCEPT ![k] = NoRecord]
         /\ \/ db' = [db EXCEPT ![k] = NoRecord] /\ UNCHANGED mayFail
            \/ StatementFails /\ UNCHANGED db
    ELSE UNCHANGED <<cache, db, mayFail>>

\* Mutation of MayExecute: the lease is not looked at.
MayExecuteAnyway(r) == TRUE
MayExecute(r) == Owns(r) /\ age[r] = 0

\* executeAndComplete, before its transaction.
CheckLease(r) ==
    /\ stage[r] = "Leased"
    /\ \/ /\ MayExecute(r)
          /\ stage' = [stage EXCEPT ![r] = "Checked"]
          /\ UNCHANGED <<db, cache, outcome, mayFail>>
       \/ /\ ~MayExecute(r)
          /\ Abort(r)
          /\ Answered(r, "LeaseLost")
    /\ UNCHANGED <<effects, age, fixed>>

StoredAnswer(r) == [db EXCEPT ![KeyOf(r)] = [by |-> r, result |-> TRUE]]

\* The transaction: the operation and its stored answer, ...
CommitAnswer(r) ==
    /\ stage[r] = "Checked"
    /\ db' = StoredAnswer(r)
    /\ effects' = effects \cup {r}
    /\ stage' = [stage EXCEPT ![r] = "Committed"]
    /\ UNCHANGED <<cache, outcome, age, world>>

ReleasedKey(r) == [db EXCEPT ![KeyOf(r)] = NoRecord]

\* ... or its refusal and the release of the key, ...
CommitRefusal(r) ==
    /\ stage[r] = "Checked"
    /\ db' = ReleasedKey(r)
    /\ stage' = [stage EXCEPT ![r] = "Released"]
    /\ UNCHANGED <<cache, outcome, effects, age, world>>

\* ... or an exception: rolled back, and the destructor of the lease aborts.
\* The operation itself may throw, or a statement.
RollBack(r) ==
    /\ stage[r] = "Checked"
    /\ Abort(r)
    /\ Answered(r, "Error")
    /\ UNCHANGED <<effects, age, fixed>>

\* Mutation of Refreshed: the cache keeps the lease.
RefreshedNothing(r) == cache
Refreshed(r) == [cache EXCEPT ![KeyOf(r)] = [by |-> r, result |-> TRUE]]

\* executeAndComplete, after its transaction: the cache follows the database.
Publish(r) ==
    /\ \/ /\ stage[r] = "Committed"
          /\ cache' = Refreshed(r)
          /\ Answered(r, r)
       \/ /\ stage[r] = "Released"
          /\ cache' = [cache EXCEPT ![KeyOf(r)] = IF Owns(r) THEN NoRecord ELSE @]
          /\ Answered(r, "Refused")
    /\ UNCHANGED <<db, effects, age, world>>

\* cleanup, once a minute.
Cleanup ==
    /\ cache' = Swept(cache) /\ db' = Swept(db)
    /\ UNCHANGED <<stage, outcome, effects, age, world>>

\* The process dies: the cache and every request under way are lost.
Crash ==
    /\ mayCrash > 0 /\ mayCrash' = mayCrash - 1
    /\ cache' = [k \in Keys |-> NoRecord]
    /\ stage' = [r \in Calls |-> IF stage[r] = "New" THEN "New" ELSE "Done"]
    /\ UNCHANGED <<asks, db, outcome, effects, age, stalled, mayFail, mayStall>>

\* Time passes for the records of r, whether it is at work or not: nobody looks
\* at the lease again between the check and the update of the cache.
LeaseOver(r) ==
    /\ age[r] = 0
    /\ \/ stage[r] \in {"Leased", "Done"} /\ UNCHANGED <<stalled, mayStall>>
       \/ /\ stage[r] \in {"Checked", "Committed", "Released"}
          /\ mayStall > 0 /\ mayStall' = mayStall - 1
          /\ stalled' = stalled \cup {r}
    /\ age' = [age EXCEPT ![r] = 1]
    /\ UNCHANGED <<asks, db, cache, stage, outcome, effects, mayFail, mayCrash>>

AnswerOver(r) ==
    /\ age[r] = 1 /\ stage[r] = "Done"
    /\ age' = [age EXCEPT ![r] = 2]
    /\ UNCHANGED <<db, cache, stage, outcome, effects, world>>

Step(r) == CheckLease(r) \/ CommitAnswer(r) \/ CommitRefusal(r) \/ RollBack(r) \/ Publish(r)

-----------------------------------------------------------------------------
\* "The same key executes once" (database-api.md, 1.8): of the requests with
\* one key at most one has an effect while its answer is kept, and of a
\* recharge or settlement one for ever; through crashes, failing statements,
\* late handlers and retries, unless a handler of this very key is still at it
\* when its lease ends.
OneEffectPerKey ==
    \A r, s \in effects :
        KeyOf(r) = KeyOf(s) /\ r # s =>
            \/ KeyOf(r) \notin Permanent /\ (age[r] = 2 \/ age[s] = 2)
            \/ KeyOf(r) \in StalledKeys

\* Whoever is told of success is told the result of a committed effect, of the
\* same key and the same body; and all are told the same one, but for the keys
\* of handlers that stall.
SameAnswerForAll ==
    \A r \in Calls : outcome[r] \in Calls =>
        /\ outcome[r] \in effects
        /\ asks[outcome[r]] = asks[r]
        /\ \A s \in Calls : outcome[s] \in Calls /\ KeyOf(s) = KeyOf(r) =>
             \/ outcome[s] = outcome[r]
             \/ KeyOf(r) \notin Permanent /\ 2 \in {age[outcome[r]], age[outcome[s]]}
             \/ KeyOf(r) \in StalledKeys

=============================================================================

---------------------------- MODULE Credentials ----------------------------
(***************************************************************************)
(* What stands between a guess and a login: the table of failed attempts   *)
(* of administrators, the verification codes of phones, and the bucket of  *)
(* tokens each client spends on password logins.  Each has its own mutex;  *)
(* an operation is one critical section.                                   *)
(*                                                                         *)
(* One Tick of a bucket is the time in which it earns one token.           *)
(***************************************************************************)
EXTENDS Naturals, FiniteSets, Sequences, SequencesExt

CONSTANTS
    Names, MaxFailures, MaximumAttempts,         \* login names; attempts_
    Phones, Purposes, MaxTries, DailyIssues,     \* verification codes
    Clients, Burst, IdleTicks, MaximumBuckets,   \* passwordRateLimiter
    MaxTicks                                     \* bound: the window watched

\* A bucket forgotten for idleness would have been full.
ASSUME CredentialsAssumption ==
    /\ {MaxFailures, MaximumAttempts, MaxTries, DailyIssues} \subseteq Nat \ {0}
    /\ {Burst, IdleTicks, MaximumBuckets, MaxTicks} \subseteq Nat \ {0}
    /\ IdleTicks >= Burst /\ IsFiniteSet(Purposes)

VARIABLES
    attempts,   \* attempts_: by name, the failures counted and the lock
    misses,     \* by name: wrong guesses since a success or the end of a lock
    codes,      \* entries_: by phone and purpose
    issued,     \* dailyIssues_: the codes issued to a phone today
    tries,      \* by phone: wrong codes tried today
    buckets,    \* buckets_: tokens, and ticks since they were counted
    recency,    \* recency_: the clients, the least recent first
    admitted    \* a window of time: its ticks, what it admitted, whom it lost

lockVars == <<attempts, misses>>
codeVars == <<codes, issued, tries>>
rateVars == <<buckets, recency, admitted>>
credentialVars == <<attempts, misses, codes, issued, tries, buckets, recency, admitted>>

NoAttempts == [failures |-> 0, locked |-> FALSE, known |-> FALSE]
NoCode == [tries |-> 0, cooling |-> FALSE, age |-> "None"]
NoBucket == [tokens |-> 0, since |-> 0, known |-> FALSE]
Known(table) == {x \in DOMAIN table : table[x].known}

\* The tables are bounded; a bucket is in the list once, and the list is by age.
CredentialsTypeOK ==
    /\ attempts \in [Names -> [failures: 0..MaxFailures - 1,
                               locked: BOOLEAN, known: BOOLEAN]]
    /\ Cardinality(Known(attempts)) <= MaximumAttempts
    /\ codes \in [Phones \X Purposes -> [tries: 0..MaxTries, cooling: BOOLEAN,
                                         age: {"None", "Valid", "Expired"}]]
    /\ issued \in [Phones -> 0..DailyIssues]
    /\ buckets \in [Clients -> [tokens: 0..Burst, since: 0..IdleTicks + 1, known: BOOLEAN]]
    /\ Cardinality(Known(buckets)) <= MaximumBuckets
    /\ ToSet(recency) = Known(buckets) /\ IsInjective(recency)
    /\ \A i, j \in DOMAIN recency :
         i < j => buckets[recency[i]].since >= buckets[recency[j]].since

CredentialsInit ==
    /\ attempts = [n \in Names |-> NoAttempts] /\ misses = [n \in Names |-> 0]
    /\ codes = [e \in Phones \X Purposes |-> NoCode]
    /\ issued = [ph \in Phones |-> 0] /\ tries = [ph \in Phones |-> 0]
    /\ buckets = [c \in Clients |-> NoBucket] /\ recency = <<>>
    /\ admitted = [ticks |-> 0, of |-> [c \in Clients |-> 0], lost |-> {}]

-----------------------------------------------------------------------------
\* The lock of a name.
Locked(n) == attempts[n].locked

\* Mutation of RecordFailure: a failure during a lock lifts it.
RecordFailureAfresh(n) ==
    LET failures == attempts[n].failures + 1 IN
    /\ attempts' = [attempts EXCEPT ![n] =
                      [failures |-> IF failures >= MaxFailures THEN 0 ELSE failures,
                       locked |-> failures >= MaxFailures, known |-> TRUE]]
    /\ misses' = [misses EXCEPT ![n] = @ + 1]

\* recordFailure: with a full table a new name is refused and not recorded.
RecordFailure(n) ==
    LET failures == attempts[n].failures + 1 IN
    IF ~attempts[n].known /\ Cardinality(Known(attempts)) >= MaximumAttempts
    THEN UNCHANGED lockVars
    ELSE /\ attempts' = [attempts EXCEPT ![n] =
                IF failures >= MaxFailures
                THEN [failures |-> 0, locked |-> TRUE, known |-> TRUE]
                ELSE [@ EXCEPT !.failures = failures, !.known = TRUE]]
         /\ misses' = [misses EXCEPT ![n] = @ + 1]

ClearFailures(n) ==
    /\ attempts' = [attempts EXCEPT ![n] = NoAttempts]
    /\ misses' = [misses EXCEPT ![n] = 0]

\* Half a minute passes: the lock is over, the failures counted meanwhile stay.
LockOver(n) ==
    /\ attempts[n].locked
    /\ attempts' = [attempts EXCEPT ![n].locked = FALSE]
    /\ misses' = [misses EXCEPT ![n] = attempts[n].failures]
    /\ UNCHANGED <<codeVars, rateVars>>

\* cleanupAttempts, ten minutes after the last failure.
Forget(n) ==
    /\ attempts[n].known /\ ~attempts[n].locked
    /\ ClearFailures(n) /\ UNCHANGED <<codeVars, rateVars>>

-----------------------------------------------------------------------------
\* Codes.  cleanupUnlocked: the expired ones go.
Swept == [e \in DOMAIN codes |-> IF codes[e].age = "Expired" THEN NoCode ELSE codes[e]]

\* Mutation of IssueCode: each purpose has a daily limit of its own.
IssueCodeUncounted(ph, purpose) ==
    /\ ~codes[<<ph, purpose>>].cooling
    /\ codes' = [Swept EXCEPT ![<<ph, purpose>>] =
                   [tries |-> 0, cooling |-> TRUE, age |-> "Valid"]]
    /\ UNCHANGED <<issued, tries, lockVars, rateVars>>

\* issue: a new code takes the place of the last, with its tries.
IssueCode(ph, purpose) ==
    /\ ~codes[<<ph, purpose>>].cooling /\ issued[ph] < DailyIssues
    /\ codes' = [Swept EXCEPT ![<<ph, purpose>>] =
                   [tries |-> 0, cooling |-> TRUE, age |-> "Valid"]]
    /\ issued' = [issued EXCEPT ![ph] = @ + 1]
    /\ UNCHANGED <<tries, lockVars, rateVars>>

\* cleanup, and what an issue that is refused leaves.
CleanupCodes ==
    /\ codes # Swept /\ codes' = Swept
    /\ UNCHANGED <<issued, tries, lockVars, rateVars>>

\* verify, of a right code: it is used up ...
Accepted(ph, purpose) ==
    /\ codes[<<ph, purpose>>].age = "Valid" /\ codes[<<ph, purpose>>].tries < MaxTries
    /\ codes' = [codes EXCEPT ![<<ph, purpose>>] = NoCode]
    /\ UNCHANGED <<issued, tries>>

\* ... and of a wrong, locked, expired or missing one.
Rejected(ph, purpose) ==
    LET code == codes[<<ph, purpose>>] IN
    IF code.tries >= MaxTries \/ code.age = "None" THEN UNCHANGED codeVars
    ELSE IF code.age = "Expired"
    THEN codes' = [codes EXCEPT ![<<ph, purpose>>] = NoCode] /\ UNCHANGED <<issued, tries>>
    ELSE /\ codes' = [codes EXCEPT ![<<ph, purpose>>].tries = @ + 1]
         /\ tries' = [tries EXCEPT ![ph] = @ + 1]
         /\ UNCHANGED issued

\* A minute, ten minutes, a day pass for a code.
CooldownOver(ph, purpose) ==
    /\ codes[<<ph, purpose>>].cooling
    /\ codes' = [codes EXCEPT ![<<ph, purpose>>].cooling = FALSE]
    /\ UNCHANGED <<issued, tries, lockVars, rateVars>>
CodeExpires(ph, purpose) ==
    /\ codes[<<ph, purpose>>].age = "Valid" /\ ~codes[<<ph, purpose>>].cooling
    /\ codes' = [codes EXCEPT ![<<ph, purpose>>].age = "Expired"]
    /\ UNCHANGED <<issued, tries, lockVars, rateVars>>
DayPasses ==
    /\ issued # [ph \in Phones |-> 0] \/ tries # [ph \in Phones |-> 0]
    /\ issued' = [ph \in Phones |-> 0] /\ tries' = [ph \in Phones |-> 0]
    /\ UNCHANGED <<codes, lockVars, rateVars>>

-----------------------------------------------------------------------------
\* The limiter.  cleanupUnlocked takes idle buckets from the front of the list,
\* up to the first that is not: those that stay.
IsIdle(c) == buckets[c].since > IdleTicks
Busy(k) == SubSeq(recency, k + 1, Len(recency))
CleansUpTo(k) ==
    /\ \A j \in 1..k : IsIdle(recency[j])
    /\ k < Len(recency) => ~IsIdle(recency[k + 1])

\* Mutation of Refilled: the bucket has no top.
RefilledWithoutCap(bucket) == bucket.tokens + bucket.since
Refilled(bucket) ==
    IF ~bucket.known \/ bucket.tokens + bucket.since > Burst
    THEN Burst ELSE bucket.tokens + bucket.since

\* removeOldestUnlocked, when a new client finds the table full; a client found
\* leaves its place in the list.
Crowded(list, c) == c \notin ToSet(list) /\ Len(list) >= MaximumBuckets
Others(list, c) ==
    IF Crowded(list, c) THEN Tail(list)
    ELSE IF c \in ToSet(list) THEN RemoveAt(list, CHOOSE j \in DOMAIN list : list[j] = c)
    ELSE list

\* allow: the bucket is found or made, refilled, and gives a token if it has one.
Allow(c, allowed) == \E k \in 0..Len(recency) :
    LET others == Others(Busy(k), c)
        evicted == IF Crowded(Busy(k), c) THEN {Head(Busy(k))} ELSE {}
        tokens == Refilled(IF c \in ToSet(Busy(k)) THEN buckets[c] ELSE NoBucket)
    IN /\ CleansUpTo(k) /\ allowed = (tokens >= 1)
       /\ buckets' = [b \in Clients |->
            IF b = c THEN [tokens |-> IF allowed THEN tokens - 1 ELSE tokens,
                           since |-> 0, known |-> TRUE]
            ELSE IF b \in ToSet(others) THEN buckets[b] ELSE NoBucket]
       /\ recency' = Append(others, c)
       /\ admitted' = [admitted EXCEPT
            !.lost = @ \cup evicted,
            !.of = [b \in Clients |->
              IF b \in admitted.lost \cup evicted THEN 0
              ELSE admitted.of[b] + IF b = c /\ allowed THEN 1 ELSE 0]]

Tick ==
    /\ admitted.ticks < MaxTicks
    /\ admitted' = [admitted EXCEPT !.ticks = @ + 1]
    /\ buckets' = [c \in Clients |->
         IF buckets[c].known /\ buckets[c].since <= IdleTicks
         THEN [buckets[c] EXCEPT !.since = @ + 1] ELSE buckets[c]]
    /\ UNCHANGED <<recency, lockVars, codeVars>>

\* A new window is watched from here.
OpenWindow ==
    /\ admitted' = [ticks |-> 0, of |-> [c \in Clients |-> 0], lost |-> {}]
    /\ UNCHANGED <<buckets, recency, lockVars, codeVars>>
=============================================================================

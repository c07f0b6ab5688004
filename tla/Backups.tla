------------------------------ MODULE Backups ------------------------------
(***************************************************************************)
(* Backups: a record and a file, made in the transaction of the request    *)
(* that asks for them, verified on a copy, and pruned once a minute: the   *)
(* newest of each of the last days, and of each of the last weeks.         *)
(***************************************************************************)
EXTENDS WriteLock, FiniteSets, SequencesExt

CONSTANTS
    LastBackup,  \* bound: the backups that are ever numbered
    LastDay,     \* bound
    DaysInWeek, DaysKept, WeeksKept,  \* 7, 7 and 4
    Owners       \* requests of owners to make a backup

ASSUME BackupsAssumption ==
    /\ LastBackup \in Nat /\ LastDay \in Nat /\ DaysInWeek \in Nat \ {0}
    /\ DaysKept \in Nat /\ WeeksKept \in Nat

VARIABLES
    rows,      \* backup_record
    stored,    \* the files <number>.db
    request,   \* where each request of an owner is
    made,      \* the record of the open transaction
    numbered,  \* the numbers already given
    today,
    doomed     \* what a prune has still to remove: numbers, and whether the file is gone

backupVars == <<rows, stored, request, made, numbered, today, doomed>>

Numbers == 1..LastBackup
NoRow == [status |-> "None", verified |-> "None", day |-> 0]
Nothing == [list |-> {}, unlinked |-> FALSE]

BackupsInit ==
    /\ rows = [b \in Numbers |-> NoRow] /\ stored = {}
    /\ request = [o \in Owners |-> "Idle"]
    /\ made = NoRow /\ numbered = 0 /\ today = 0
    /\ doomed = Nothing

-----------------------------------------------------------------------------
\* createBackup, in the transaction of its Idempotency-Key: the snapshot is
\* read by another connection and written while the transaction is open.
BeginBackup(o) ==
    /\ request[o] = "Idle" /\ numbered < LastBackup /\ BeginImmediate(o)
    /\ numbered' = numbered + 1
    /\ request' = [request EXCEPT ![o] = "Begun"]
    /\ UNCHANGED <<rows, stored, made, today, doomed>>

Snapshot(o) ==
    /\ request[o] = "Begun"
    /\ \/ /\ stored' = stored \cup {numbered}
          /\ made' = [status |-> "SUCCEEDED", verified |-> "None", day |-> today]
          /\ UNCHANGED mayFail
       \/ /\ Fault
          /\ made' = [status |-> "FAILED", verified |-> "None", day |-> today]
          /\ UNCHANGED stored
    /\ request' = [request EXCEPT ![o] = "Copied"]
    /\ UNCHANGED <<rows, numbered, today, doomed, writer, mayCrash>>

\* A file of a transaction that is rolled back stays, without a record.
EndBackup(o) ==
    /\ request[o] = "Copied" /\ EndTransaction(o)
    /\ \/ rows' = [rows EXCEPT ![numbered] = made] /\ UNCHANGED mayFail
       \/ Fault /\ UNCHANGED rows
    /\ made' = NoRow
    /\ request' = [request EXCEPT ![o] = "Done"]
    /\ UNCHANGED <<stored, numbered, today, doomed>>

\* verifyBackup: path, size, digest and the integrity of an isolated copy.
Valid(b) == rows[b].status = "SUCCEEDED" /\ b \in stored
VerifyBackup(b) ==
    /\ rows[b] # NoRow /\ Statement
    /\ rows' = [rows EXCEPT ![b].verified = IF Valid(b) THEN "SUCCEEDED" ELSE "FAILED"]
    /\ UNCHANGED <<stored, request, made, numbered, today, doomed>>

-----------------------------------------------------------------------------
\* What pruneBackups keeps of those that succeeded: the newest of a day, unless
\* there are enough days with newer ones, and the newest of a week, unless there
\* are enough weeks; a failed one is kept for seven days.
Recorded == {b \in Numbers : rows[b] # NoRow}
Copies == {b \in Numbers : rows[b].status = "SUCCEEDED"}
Newer(b) == {c \in Copies : c > b}

Week(day) == day \div DaysInWeek
DayOf  == [b \in Numbers |-> rows[b].day]
WeekOf == [b \in Numbers |-> Week(rows[b].day)]
Since(period, b) == {period[c] : c \in Newer(b)}
NewestOf(period, limit, b) ==
    period[b] \notin Since(period, b) /\ Cardinality(Since(period, b)) < limit

KeepCopy(b) ==
    /\ rows[b].status = "SUCCEEDED"
    /\ NewestOf(DayOf, DaysKept, b) \/ NewestOf(WeekOf, WeeksKept, b)
KeepFailed(b) == rows[b].status = "FAILED" /\ rows[b].day + DaysInWeek >= today
Kept == {b \in Recorded : KeepCopy(b) \/ KeepFailed(b)}

\* Its loop goes from the newest to the oldest, and keeps the days and weeks it
\* has met; a copy kept for its day counts for its week, one kept for its week
\* does not count for its day.
Met == [days |-> {}, weeks |-> {}, kept |-> {}]

\* Mutation of Meet: a copy kept for its day is forgotten for its week.
MeetDaysAlone(met, b) ==
    LET day == rows[b].day
        byDay == b \in Copies /\ day \notin met.days /\ Cardinality(met.days) < DaysKept
        byWeek == b \in Copies /\ ~byDay
                  /\ Week(day) \notin met.weeks /\ Cardinality(met.weeks) < WeeksKept
    IN [days |-> met.days \cup (IF byDay THEN {day} ELSE {}),
        weeks |-> met.weeks \cup (IF byWeek THEN {Week(day)} ELSE {}),
        kept |-> met.kept \cup (IF byDay \/ byWeek \/ KeepFailed(b) THEN {b} ELSE {})]
Meet(met, b) ==
    LET day == rows[b].day
        byDay == b \in Copies /\ day \notin met.days /\ Cardinality(met.days) < DaysKept
        byWeek == b \in Copies /\ ~byDay
                  /\ Week(day) \notin met.weeks /\ Cardinality(met.weeks) < WeeksKept
    IN [days |-> met.days \cup (IF byDay THEN {day} ELSE {}),
        weeks |-> met.weeks \cup (IF byDay \/ byWeek THEN {Week(day)} ELSE {}),
        kept |-> met.kept \cup (IF byDay \/ byWeek \/ KeepFailed(b) THEN {b} ELSE {})]

\* What is met of the newest ones down to the oldest of T, which comes last.
MetFrom(T) == MapThenFoldSet(LAMBDA b, met : Meet(met, b), Met, LAMBDA b : b, Min, T)
KeptByLoop == MetFrom(Recorded).kept

\* Mutation of Unkept: whatever a newer one follows.
UnkeptByDay == {b \in Recorded : \E c \in Recorded : c > b /\ rows[c].day >= rows[b].day}
Unkept == Recorded \ Kept

\* The list is read once.
Prune ==
    /\ doomed = Nothing /\ Unkept # {}
    /\ doomed' = [list |-> Unkept, unlinked |-> FALSE]
    /\ UNCHANGED <<rows, stored, request, made, numbered, today, lockVars>>

Foremost == Max(doomed.list)
\* The file goes first ...
Unlink ==
    /\ doomed.list # {} /\ ~doomed.unlinked
    /\ stored' = stored \ {Foremost}
    /\ doomed' = [doomed EXCEPT !.unlinked = TRUE]
    /\ UNCHANGED <<rows, request, made, numbered, today, lockVars>>

\* ... then the record, unless the database is busy, which ends the pass.
DeleteRow ==
    /\ doomed.unlinked
    /\ \/ /\ Statement
          /\ rows' = [rows EXCEPT ![Foremost] = NoRow]
          /\ doomed' = [list |-> doomed.list \ {Foremost}, unlinked |-> FALSE]
       \/ Busy /\ doomed' = Nothing /\ UNCHANGED rows
    /\ UNCHANGED <<stored, request, made, numbered, today>>

NextDay ==
    /\ today < LastDay /\ today' = today + 1
    /\ UNCHANGED <<rows, stored, request, made, numbered, doomed, lockVars>>

-----------------------------------------------------------------------------
\* The server ends, by a crash or when nothing is under way.
BackupsIdle == doomed = Nothing /\ \A o \in Owners : request[o] \in {"Idle", "Done"}
BackupsRestart ==
    /\ request' = [o \in Owners |-> IF request[o] = "Idle" THEN "Idle" ELSE "Done"]
    /\ made' = NoRow /\ doomed' = Nothing
    /\ UNCHANGED <<rows, stored, numbered, today>>
=============================================================================

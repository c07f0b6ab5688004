------------------------------ MODULE MlTasks ------------------------------
(***************************************************************************)
(* Training and prediction tasks: the administrator's start, the Python    *)
(* process and the thread that watches it, what the process reports over   *)
(* HTTP, the timeout sweep, the files of the models, and the retention of  *)
(* models and predictions.                                                 *)
(*                                                                         *)
(* Tasks are numbered as they are created, so a task also names its model  *)
(* version, its batch of predictions and its files.                        *)
(***************************************************************************)
EXTENDS WriteLock, FiniteSets, FiniteSetsExt

CONSTANTS
    LastTask,   \* bound: the tasks that are ever numbered
    Starters,   \* requests to start a task
    Sweepers    \* maintenance passes and queries that complete overdue tasks

ASSUME MlTasksAssumption ==
    /\ LastTask \in Nat
    /\ None \notin Starters \cup Sweepers /\ Starters \cap Sweepers = {}

Tasks == 1..LastTask
Baseline == 0

VARIABLES
    db,       \* ml_task, model_version and load_prediction
    draft,    \* the same, as the open transaction of a start sees them
    last,     \* the numbers already given
    asked,    \* what each start asks for
    mutex,    \* mlStartMutex_
    at,       \* where each start and each sweep is
    todo,     \* the overdue tasks a sweep has still to complete
    worker,   \* the process of each task, its thread, token and stop request
    call,     \* completion requests of each process: of success and of failure
    staged, kept,  \* files: staging artifacts, and those under a version's name
    age       \* 0, 1: the second of its deadline, 2: over, 3: 30 days, 4: 90 days

mlVars == <<db, draft, last, asked, mutex, at, todo, worker, call, staged, kept, age>>
files == <<staged, kept>>
memory == <<asked, mutex, at, todo>>

NoTask == [type |-> "None", status |-> "None"]
NoWorker == [py |-> "None", watch |-> "None", model |-> Baseline, stop |-> FALSE, token |-> FALSE]
NoCall == [stage |-> "None", early |-> FALSE]

Empty ==
    [task |-> [t \in Tasks |-> NoTask],
     version |-> [t \in Tasks |-> "None"],     \* None, Poor, Qualified
     batch |-> [t \in Tasks |-> None],         \* the model the predictions are of
     fresh |-> {}]                             \* the batches that are not stale

MlInit(wants) ==
    /\ db = Empty /\ draft = Empty /\ last = 0
    /\ asked = wants
    /\ mutex = None
    /\ at = [c \in Starters \cup Sweepers |-> "Idle"]
    /\ todo = [c \in Sweepers |-> {}]
    /\ worker = [t \in Tasks |-> NoWorker]
    /\ call = [t \in Tasks |-> [ok \in BOOLEAN |-> NoCall]]
    /\ staged = {} /\ kept = {}
    /\ age = [t \in Tasks |-> 0]

-----------------------------------------------------------------------------
Exists(d, t) == d.task[t] # NoTask
Active(d, t) == d.task[t].status = "RUNNING"
\* Mutation of Overdue: only tasks whose thread is known.
OverdueWatched(d) == {t \in Tasks : Active(d, t) /\ age[t] >= 1 /\ worker[t].watch # "None"}
Overdue(d) == {t \in Tasks : Active(d, t) /\ age[t] >= 1}
Running(d, type) == {t \in Tasks : Active(d, t) /\ d.task[t].type = type}

WithStatus(d, S, status) ==
    [d EXCEPT !.task = [t \in Tasks |-> IF t \in S THEN [@[t] EXCEPT !.status = status] ELSE @[t]]]
Stale(d) == [d EXCEPT !.fresh = {}]

\* latestQualifiedModel: the newest one of a task that succeeded.
Succeeded(d) == {t \in Tasks : d.version[t] = "Qualified" /\ d.task[t].status = "SUCCEEDED"}
Latest(d) == IF Succeeded(d) = {} THEN Baseline ELSE Max(Succeeded(d))

\* launcher_->stop, of those that have a thread.
Stopped(S) ==
    [t \in Tasks |-> IF t \in S /\ worker[t].watch # "None"
                     THEN [worker[t] EXCEPT !.stop = TRUE] ELSE worker[t]]

Move(c, place) == at' = [at EXCEPT ![c] = place]

-----------------------------------------------------------------------------
\* executeAndComplete opens the transaction of a start ...
BeginStart(s) ==
    /\ at[s] = "Idle" /\ BeginImmediate(s)
    /\ draft' = db
    /\ Move(s, "Begun")
    /\ UNCHANGED <<db, last, asked, mutex, todo, worker, call, files, age>>

NewTask(d, t, type) == [d EXCEPT !.task[t] = [type |-> type, status |-> "RUNNING"]]

\* ... in which startMlTask takes its mutex, completes what is overdue, and
\* returns the task of this type that runs, or writes a new one.
EnterStart(s) ==
    LET late == Overdue(draft)
        swept == IF late = {} THEN draft ELSE Stale(WithStatus(draft, late, "TIMED_OUT"))
    IN /\ at[s] = "Begun" /\ mutex = None
       /\ worker' = Stopped(late)
       /\ \/ /\ Running(swept, asked[s]) # {}
             /\ draft' = swept
             /\ Move(s, "Left")
             /\ UNCHANGED <<last, mutex>>
          \/ /\ Running(swept, asked[s]) = {} /\ last < LastTask
             /\ draft' = NewTask(swept, last + 1, asked[s])
             /\ last' = last + 1 /\ mutex' = s
             /\ Move(s, "Entered")
       /\ UNCHANGED <<db, asked, todo, call, files, age, lockVars>>

\* The launcher: a token, a thread and a process.
Launched(t, model) ==
    [worker EXCEPT ![t] = [py |-> "Begun", watch |-> "Watching", model |-> model,
                           stop |-> FALSE, token |-> TRUE]]

Launchable(s) == asked[s] = "TRAIN" \/ Latest(draft) = Baseline \/ Latest(draft) \in kept

Launch(s) ==
    /\ at[s] = "Entered"
    /\ \/ /\ Launchable(s)
          /\ worker' = Launched(last, IF asked[s] = "PREDICT" THEN Latest(draft) ELSE Baseline)
          /\ UNCHANGED <<draft, mayFail>>
       \/ /\ IF Launchable(s) THEN Fault ELSE UNCHANGED mayFail
          /\ draft' = Stale(WithStatus(draft, {last}, "FAILED"))
          /\ UNCHANGED worker
    /\ mutex' = None
    /\ Move(s, "Left")
    /\ UNCHANGED <<db, last, asked, todo, call, files, age, writer, mayCrash>>

\* COMMIT, or a COMMIT that fails and is rolled back: the process stays.
EndStart(s) ==
    /\ at[s] = "Left" /\ EndTransaction(s)
    /\ \/ db' = draft /\ UNCHANGED mayFail
       \/ Fault /\ UNCHANGED db
    /\ draft' = Empty
    /\ Move(s, "Done")
    /\ UNCHANGED <<last, asked, mutex, todo, worker, call, files, age>>

-----------------------------------------------------------------------------
\* completeTimedOutMlTasks: under the mutex, one overdue task after the other.
Sweep(m) ==
    /\ at[m] = "Idle" /\ mutex = None /\ Overdue(db) # {}
    /\ mutex' = m /\ todo' = [todo EXCEPT ![m] = Overdue(db)]
    /\ Move(m, "Sweeping")
    /\ UNCHANGED <<db, draft, last, asked, worker, call, files, age, lockVars>>

SweepGoesOn(m, left) ==
    /\ todo' = [todo EXCEPT ![m] = left]
    /\ IF left = {} THEN mutex' = None /\ Move(m, "Idle") ELSE Move(m, "Sweeping") /\ UNCHANGED mutex

\* tryFinishMlTask: only a task that still runs; whoever loses leaves it alone.
SweepTask(m) ==
    LET t == Min(todo[m]) IN
    /\ at[m] = "Sweeping" /\ Statement
    /\ IF Active(db, t)
       THEN /\ db' = WithStatus(db, {t}, "TIMED_OUT")
            /\ worker' = Stopped({t})
            /\ Move(m, "Marking")
            /\ UNCHANGED <<mutex, todo>>
       ELSE SweepGoesOn(m, todo[m] \ {t}) /\ UNCHANGED <<db, worker>>
    /\ UNCHANGED <<draft, last, asked, call, files, age>>

SweepMark(m) ==
    /\ at[m] = "Marking" /\ Statement
    /\ db' = Stale(db)
    /\ SweepGoesOn(m, todo[m] \ {Min(todo[m])})
    /\ UNCHANGED <<draft, last, asked, worker, call, files, age>>

\* Mutation of SweepGivesUp: waits as long as it takes.
SweepWaits(m) == FALSE
\* The busy timeout ends the pass; the next one begins again.
SweepGivesUp(m) ==
    /\ at[m] \in {"Sweeping", "Marking"} /\ Busy
    /\ SweepGoesOn(m, {})
    /\ UNCHANGED <<db, draft, last, asked, worker, call, files, age>>

-----------------------------------------------------------------------------
\* The process.  A request of it is refused without a valid token.
Process(t, from, to) == worker[t].py = from /\ worker' = [worker EXCEPT ![t].py = to]
Admitted(t) == worker[t].token
Type(t) == db.task[t].type

\* The first page rebuilds the hourly metrics, a transaction for each day; what
\* the metrics say is not part of the model.
RefreshHourlyMetrics == Statement

Features(t) == Active(db, t) /\ RefreshHourlyMetrics
FetchFeatures(t) ==
    /\ Admitted(t) /\ Features(t)
    /\ Process(t, "Begun", "Ready")
    /\ UNCHANGED <<db, draft, last, memory, call, files, age>>

\* Training writes the staging artifact.
Train(t) ==
    /\ Type(t) = "TRAIN"
    /\ Process(t, "Ready", "Trained")
    /\ staged' = staged \cup {t}
    /\ UNCHANGED <<db, draft, last, memory, call, kept, age, lockVars>>

\* registerModel: the task is checked, then the digest of the artifact, and
\* then the version is written, by a statement of its own.
Registrable(t) == Active(db, t) /\ Type(t) = "TRAIN" /\ t \in staged
CheckModel(t) ==
    /\ Admitted(t) /\ Registrable(t)
    /\ Process(t, "Trained", "Checked")
    /\ UNCHANGED <<db, draft, last, memory, call, files, age, lockVars>>

RegisterModel(t) ==
    /\ Statement
    /\ \E verdict \in {"Poor", "Qualified"} : db' = [db EXCEPT !.version[t] = verdict]
    /\ Process(t, "Checked", "Registered")
    /\ UNCHANGED <<draft, last, memory, call, files, age>>

\* writePredictions, in the transaction of its Idempotency-Key.
Predictable(t) ==
    /\ Active(db, t) /\ Type(t) = "PREDICT"
    /\ worker[t].model = Baseline \/ worker[t].model \in Succeeded(db)
WritePredictions(t) ==
    /\ Admitted(t) /\ Predictable(t) /\ Statement
    /\ Process(t, "Ready", "Registered")
    /\ db' = [db EXCEPT !.batch[t] = worker[t].model, !.fresh = @ \cup {t}]
    /\ UNCHANGED <<draft, last, memory, call, files, age>>

\* It reports success, or that something failed: a refusal, an answer that did
\* not come within 35 seconds, an error of its own.
Report(t, ok) ==
    /\ Admitted(t) /\ call[t][ok] = NoCall
    /\ call' = [call EXCEPT ![t][ok] = [stage |-> "Queued", early |-> age[t] <= 1]]
    /\ UNCHANGED <<db, draft, last, memory, files, age, lockVars>>
ReportSuccess(t) == Process(t, "Registered", "Told") /\ Report(t, TRUE)
ReportFailure(t) ==
    /\ \E from \in {"Begun", "Ready", "Trained", "Checked", "Registered", "Told"} : Process(t, from, "Sorry")
    /\ Report(t, FALSE)

\* It exits after its report, with or without an answer, or dies before.
Exit(t) ==
    /\ \/ \E from \in {"Told", "Sorry"} : Process(t, from, "Gone") /\ UNCHANGED mayFail
       \/ Fault /\ \E from \in {"Begun", "Ready", "Trained", "Checked", "Registered"} : Process(t, from, "Gone")
    /\ UNCHANGED <<db, draft, last, memory, call, files, age, writer, mayCrash>>

-----------------------------------------------------------------------------
\* complete.  The artifact comes first, outside the transaction: under the
\* version's name when the model qualified, and away when not.
Stage(t, ok, stage) == call' = [call EXCEPT ![t][ok].stage = stage]
Answer(t, ok) == call' = [call EXCEPT ![t][ok] = [stage |-> "Answered", early |-> FALSE]]

\* Mutation of Finalized: a report that comes at the last second activates nothing.
FinalizedEarly(t, ok) == age[t] = 0 /\ ok /\ db.version[t] = "Qualified"
Finalized(t, ok) == ok /\ db.version[t] = "Qualified"

Finalize(t, ok) ==
    /\ call[t][ok].stage = "Queued"
    /\ \/ ~Exists(db, t) /\ Answer(t, ok) /\ UNCHANGED <<files, mayFail>>
       \/ Type(t) = "PREDICT" /\ Stage(t, ok, "Ready") /\ UNCHANGED <<files, mayFail>>
       \/ /\ Type(t) = "TRAIN" /\ ~Finalized(t, ok)
          /\ staged' = staged \ {t}
          /\ Stage(t, ok, "Ready")
          /\ UNCHANGED <<kept, mayFail>>
       \/ /\ Type(t) = "TRAIN" /\ Finalized(t, ok) /\ t \in staged
          /\ \/ staged' = staged \ {t} /\ kept' = kept \cup {t} /\ Stage(t, ok, "Ready") /\ UNCHANGED mayFail
             \/ Fault /\ Answer(t, ok) /\ UNCHANGED files
       \/ /\ Type(t) = "TRAIN" /\ Finalized(t, ok) /\ t \notin staged
          /\ Answer(t, ok)
          /\ UNCHANGED <<files, mayFail>>
    /\ UNCHANGED <<db, draft, last, memory, worker, age, writer, mayCrash>>

\* Then the transaction: what was received in time also recovers a task that
\* was timed out meanwhile.
Acceptable(t, ok) == call[t][ok].early /\ db.task[t].status \in {"RUNNING", "TIMED_OUT"}

Decide(t, ok) ==
    /\ call[t][ok].stage = "Ready" /\ Statement
    /\ \/ /\ Acceptable(t, ok)
          /\ db' = WithStatus(db, {t}, IF ok THEN "SUCCEEDED" ELSE "FAILED")
          /\ Stage(t, ok, IF ok THEN "Decided" ELSE "Marking")
       \/ /\ ~Acceptable(t, ok)
          /\ Answer(t, ok)
          /\ UNCHANGED db
    /\ UNCHANGED <<draft, last, memory, worker, files, age>>

MarkFailed(t) ==
    /\ call[t][FALSE].stage = "Marking" /\ Statement
    /\ db' = Stale(db)
    /\ Stage(t, FALSE, "Decided")
    /\ UNCHANGED <<draft, last, memory, worker, files, age>>

RevokeToken(t, ok) ==
    /\ call[t][ok].stage = "Decided"
    /\ worker' = [worker EXCEPT ![t].token = FALSE]
    /\ Answer(t, ok)
    /\ UNCHANGED <<db, draft, last, memory, files, age, lockVars>>

CallGivesUp(t, ok) ==
    /\ call[t][ok].stage \in {"Ready", "Marking"} /\ Busy
    /\ Answer(t, ok)
    /\ UNCHANGED <<db, draft, last, memory, worker, files, age>>

-----------------------------------------------------------------------------
\* The thread of the process: it ends, by itself or because it is stopped; the
\* token is revoked; a task without a verdict has failed.
Watch(t, from, to) == worker[t].watch = from /\ worker' = [worker EXCEPT ![t].watch = to]
Finish(t, from) == worker[t].watch = from /\ worker' = [worker EXCEPT ![t] = [NoWorker EXCEPT !.watch = "Finished"]]

ProcessEnded(t) ==
    /\ worker[t].watch = "Watching"
    /\ worker[t].py = "Gone" \/ worker[t].stop
    /\ worker' = [worker EXCEPT ![t].watch = "Ended", ![t].py = "Gone", ![t].token = FALSE]
    /\ UNCHANGED <<db, draft, last, memory, call, files, age, lockVars>>

Conclude(t) ==
    /\ \/ /\ Active(db, t) /\ ~worker[t].stop /\ Statement
          /\ db' = WithStatus(db, {t}, "FAILED")
          /\ Watch(t, "Ended", "Marking")
       \/ /\ ~Active(db, t) \/ worker[t].stop
          /\ Finish(t, "Ended")
          /\ UNCHANGED <<db, lockVars>>
       \/ Statement /\ db' = Stale(db) /\ Finish(t, "Marking")
       \/ /\ \E from \in {"Ended", "Marking"} : Finish(t, from)
          /\ Busy /\ UNCHANGED db
    /\ UNCHANGED <<draft, last, memory, call, files, age>>

-----------------------------------------------------------------------------
\* The server ends: by a crash ...
MlRestart(rows) ==
    /\ db' = rows /\ draft' = Empty
    /\ mutex' = None
    /\ at' = [c \in DOMAIN at |-> IF at[c] = "Idle" \/ c \in Sweepers THEN "Idle" ELSE "Done"]
    /\ todo' = [m \in Sweepers |-> {}]
    /\ worker' = [t \in Tasks |-> NoWorker]
    /\ call' = [t \in Tasks |-> [ok \in BOOLEAN |-> NoCall]]
    /\ UNCHANGED <<last, asked, staged, kept, age>>

\* ... or after the executor was drained; then the destructor of the manager
\* stops every process and fails what has no verdict.
MlIdle ==
    /\ mutex = None /\ \A c \in DOMAIN at : at[c] \in {"Idle", "Done"}
    /\ \A t \in Tasks, ok \in BOOLEAN : call[t][ok].stage \in {"None", "Answered"}
Abandoned == {t \in Tasks : worker[t].watch # "None" /\ Active(db, t)}
MlShutDown == MlRestart(IF Abandoned = {} THEN db ELSE Stale(WithStatus(db, Abandoned, "FAILED")))

\* Time.  Bounds: deadlines pass only of tasks without a verdict, and what is 30
\* days old is long over.
Older(t) ==
    /\ db.task[t].status \in {"RUNNING", "TIMED_OUT"} /\ age[t] < 2
    /\ age' = [age EXCEPT ![t] = @ + 1]
    /\ UNCHANGED <<db, draft, last, memory, worker, call, files, lockVars>>
MuchOlder(t) ==
    /\ Exists(db, t) /\ age[t] < 4 /\ MlIdle /\ writer = None
    /\ ~Active(db, t) /\ worker[t].watch \in {"None", "Finished"}
    /\ age' = [age EXCEPT ![t] = IF @ < 3 THEN 3 ELSE 4]
    /\ \A u \in Tasks : u < t /\ Exists(db, u) => age[u] >= age'[t]
    /\ UNCHANGED <<db, draft, last, memory, worker, call, files, lockVars>>

\* cleanupAnalytics and cleanupExpired, once a minute.
Retained(d) ==
    LET batches == [t \in Tasks |-> IF age[t] = 4 THEN None ELSE d.batch[t]] IN
    [d EXCEPT !.batch = batches, !.fresh = {t \in @ : age[t] < 4},
              !.version = [t \in Tasks |-> IF age[t] >= 3 /\ t \notin Range(batches)
                                           THEN "None" ELSE @[t]]]

\* Mutation of Expired: the artifacts go with the rows of the models.
ExpiredMonth(t) == age[t] >= 3
Expired(t) == age[t] = 4

\* The newest model's artifact stays, unless reading which one it is fails.
CleanModels ==
    /\ Statement
    /\ db' = Retained(db)
    /\ kept' = {t \in kept : ~Expired(t) \/ t = Latest(db')}
    /\ <<db', kept'>> # <<db, kept>>
    /\ UNCHANGED <<draft, last, memory, worker, call, staged, age>>
CleanModelsBlindly ==
    /\ Fault /\ writer = None
    /\ db' = Retained(db) /\ kept' = {t \in kept : ~Expired(t)}
    /\ UNCHANGED <<draft, last, memory, worker, call, staged, age, writer, mayCrash>>

\* Everything a task, its process, its thread and its requests do.
OfTask(t) ==
    \/ FetchFeatures(t) \/ Train(t) \/ CheckModel(t) \/ RegisterModel(t) \/ WritePredictions(t)
    \/ ReportSuccess(t) \/ Exit(t)
=============================================================================

-------------------------- MODULE OperationsProofs --------------------------
(***************************************************************************)
(* Proofs about tasks, models and backups, for any number of tasks,        *)
(* starts, sweeps, backups and days, and any scenes.  Rows and files of    *)
(* the two components are apart; the write lock is what they share, and    *)
(* each invariant needs of the other component only that it does not take  *)
(* the lock from whoever holds it.                                         *)
(***************************************************************************)
EXTENDS Operations, FiniteSetTheorems, WellFoundedInduction, TLAPS

Types == {"TRAIN", "PREDICT"}
Statuses == {"RUNNING", "TIMED_OUT", "FAILED", "SUCCEEDED"}
Before == {"Begun", "Ready", "Trained", "Checked", "Registered"}
Places == {"Idle", "Begun", "Entered", "Left", "Done", "Sweeping", "Marking"}
Stages == {"None", "Queued", "Ready", "Decided", "Marking", "Answered"}

\* The rows of tasks and models, committed or in a draft.
RowsOfModels ==
    [task: [Tasks -> [type: Types \cup {"None"}, status: Statuses \cup {"None"}]],
     version: [Tasks -> {"None", "Poor", "Qualified"}],
     batch: [Tasks -> 0..LastTask \cup {None}], fresh: SUBSET Tasks]

Moments == Before \cup {"None", "Told", "Sorry", "Gone"}
Processes ==
    [py: Moments, watch: {"None", "Watching", "Ended", "Marking", "Finished"},
     model: 0..LastTask, stop: BOOLEAN, token: BOOLEAN]
Reports == [stage: Stages, early: BOOLEAN]

PlacesTyped ==
    /\ last \in 0..LastTask /\ age \in [Tasks -> 0..4]
    /\ asked \in [Starters -> Types] /\ at \in [Starters \cup Sweepers -> Places]

MlTyped ==
    /\ db \in RowsOfModels /\ draft \in RowsOfModels
    /\ worker \in [Tasks -> Processes] /\ call \in [Tasks -> [BOOLEAN -> Reports]]
    /\ PlacesTyped

\* A draft is of the start that holds the lock, and adds no verdict of success.
InDraft(s) == at[s] \in {"Begun", "Entered", "Left"}
Drafted ==
    /\ \A s \in Starters : InDraft(s) => writer = s
    /\ \A s \in Starters : InDraft(s) =>
         /\ draft.version = db.version
         /\ \A t \in Tasks :
              /\ Exists(db, t) => draft.task[t].type = db.task[t].type
              /\ draft.task[t].status = "SUCCEEDED" => db.task[t].status = "SUCCEEDED"
    /\ \A s \in Starters : at[s] = "Entered" => last \in Tasks /\ ~Exists(db, last)

\* A number is given once: nothing has happened to a later one.
Untouched(t) == worker[t] = NoWorker /\ call[t] = [ok \in BOOLEAN |-> NoCall]
NumberedOnce ==
    /\ \A t \in Tasks : Exists(db, t) \/ Exists(draft, t) => t <= last
    /\ \A t \in Tasks : t > last => Untouched(t)
    /\ \A s \in Starters : at[s] = "Entered" => Untouched(last)

\* A model is registered before its success is reported, and its file is in
\* place when the report waits for its verdict, and afterwards.
InPlace(t) == age[t] < 4 => t \in kept
Registered(t) ==
    /\ db.version[t] # "None" => db.task[t].type = "TRAIN"
    /\ worker[t].py = "Checked" => db.task[t].type = "TRAIN"
    /\ worker[t].py \in Before => call[t][TRUE].stage = "None" /\ db.task[t].status # "SUCCEEDED"
    /\ call[t][TRUE].stage = "Ready" /\ db.version[t] = "Qualified" => InPlace(t)
    /\ t \in Succeeded(db) => InPlace(t)

MlInv == MlTyped /\ Drafted /\ NumberedOnce /\ \A t \in Tasks : Registered(t)

-----------------------------------------------------------------------------
\* The greatest of finitely many numbers is one of them: a smallest subset for
\* which this fails would have one more than a set for which it holds.
LEMMA GreatestIsOne ==
    ASSUME NEW T \in SUBSET Nat, IsFiniteSet(T), T # {} PROVE Max(T) \in T
<1> DEFINE Topped(s) == \E x \in s : \A y \in s : y <= x
           B == {s \in SUBSET T : s # {} /\ ~Topped(s)}
<1>1. FiniteSubsetsOf(T) = SUBSET T
  BY FS_FiniteSubsetsOfFinite
<1>2. IsWellFoundedOn(StrictSubsetOrdering(T), SUBSET T)
  <2>1. IsWellFoundedOn(StrictSubsetOrdering(T), FiniteSubsetsOf(T))
    BY FS_StrictSubsetOrderingWellFounded
  <2> QED
    BY <1>1, <2>1
<1>3. B = {}
  <2> SUFFICES ASSUME B # {} PROVE FALSE
    OBVIOUS
  <2>1. B \subseteq SUBSET T
    OBVIOUS
  <2>2. PICK s \in B : \A r \in B : <<r, s>> \notin StrictSubsetOrdering(T)
    <3> HIDE DEF B
    <3> QED
      BY <1>2, <2>1, WFMin
  <2>3. PICK x \in s : TRUE
    OBVIOUS
  <2> DEFINE r == s \ {x}
  <2>4. r \in SUBSET T /\ <<r, s>> \in StrictSubsetOrdering(T)
    BY <2>2, <2>3 DEF StrictSubsetOrdering
  <2>5. CASE r = {}
    <3>1. \A y \in s : y <= x
      BY <2>2, <2>3, <2>5
    <3> QED
      BY <2>2, <2>3, <3>1
  <2>6. CASE Topped(r)
    <3>1. PICK z \in r : \A y \in r : y <= z
      BY <2>6
    <3>2. z \in Nat /\ x \in Nat /\ s \subseteq Nat /\ s = r \cup {x}
      BY <2>2, <2>3
    <3>3. CASE z <= x
      BY <2>2, <2>3, <3>1, <3>2, <3>3
    <3>4. CASE ~(z <= x)
      BY <2>2, <3>1, <3>2, <3>4
    <3> QED
      BY <3>3, <3>4
  <2> QED
    BY <2>2, <2>4, <2>5, <2>6
<1> QED
  BY <1>3 DEF Max

\* What an update of rows changes.
LEMMA StatusWritten ==
    ASSUME NEW d \in RowsOfModels, NEW S, NEW status \in Statuses
    PROVE  /\ WithStatus(d, S, status) \in RowsOfModels
           /\ WithStatus(d, S, status).version = d.version
           /\ \A t \in Tasks : WithStatus(d, S, status).task[t] =
                [type |-> d.task[t].type, status |-> IF t \in S THEN status ELSE d.task[t].status]
<1> DEFINE task == [t \in Tasks |-> IF t \in S THEN [d.task[t] EXCEPT !.status = status] ELSE d.task[t]]
<1>1. WithStatus(d, S, status) =
        [task |-> task, version |-> d.version, batch |-> d.batch, fresh |-> d.fresh]
  BY SMTT(30) DEF WithStatus, RowsOfModels
<1>2. task \in [Tasks -> [type: Types \cup {"None"}, status: Statuses \cup {"None"}]]
  BY DEF RowsOfModels
<1>3. \A t \in Tasks : task[t] =
        [type |-> d.task[t].type, status |-> IF t \in S THEN status ELSE d.task[t].status]
  BY DEF RowsOfModels
<1> HIDE DEF task
<1> QED
  BY <1>1, <1>2, <1>3 DEF RowsOfModels

LEMMA VerdictWritten ==
    ASSUME NEW d \in RowsOfModels, NEW t \in Tasks, NEW status \in Statuses
    PROVE  /\ WithStatus(d, {t}, status) \in RowsOfModels
           /\ WithStatus(d, {t}, status).version = d.version
           /\ WithStatus(d, {t}, status).task[t].type = d.task[t].type
           /\ WithStatus(d, {t}, status).task[t].status = status
           /\ \A u \in Tasks : u # t => WithStatus(d, {t}, status).task[u] = d.task[u]
<1> DEFINE e == WithStatus(d, {t}, status)
<1>1. /\ e \in RowsOfModels /\ e.version = d.version
      /\ \A u \in Tasks : e.task[u] =
           [type |-> d.task[u].type, status |-> IF u \in {t} THEN status ELSE d.task[u].status]
  BY StatusWritten
<1>2. \A u \in Tasks : d.task[u] = [type |-> d.task[u].type, status |-> d.task[u].status]
  BY DEF RowsOfModels
<1> HIDE DEF e
<1>3. \A u \in Tasks : u # t => e.task[u] = d.task[u]
  BY <1>1, <1>2
<1>4. e.task[t].type = d.task[t].type /\ e.task[t].status = status
  <2>1. e.task[t] = [type |-> d.task[t].type, status |-> status]
    BY <1>1
  <2> QED
    BY <2>1
<1> QED
  BY <1>1, <1>3, <1>4 DEF e

LEMMA StaleWritten ==
    ASSUME NEW d \in RowsOfModels
    PROVE  Stale(d) \in RowsOfModels /\ Stale(d).version = d.version /\ Stale(d).task = d.task
BY DEF Stale, RowsOfModels

LEMMA TaskWritten ==
    ASSUME NEW d \in RowsOfModels, NEW n \in Tasks, NEW type \in Types
    PROVE  /\ NewTask(d, n, type) \in RowsOfModels /\ NewTask(d, n, type).version = d.version
           /\ \A t \in Tasks : NewTask(d, n, type).task[t] =
                IF t = n THEN [type |-> type, status |-> "RUNNING"] ELSE d.task[t]
BY DEF NewTask, RowsOfModels, Statuses

LEMMA Emptied ==
    /\ Empty \in RowsOfModels
    /\ \A t \in Tasks : ~Exists(Empty, t) /\ Empty.task[t] = NoTask /\ Empty.version[t] = "None"
BY DEF Empty, RowsOfModels, Exists, NoTask

\* The newest model is a task or the baseline.
LEMMA LatestIsOne == ASSUME NEW d PROVE Latest(d) \in 0..LastTask
<1>1. Succeeded(d) \subseteq 1..LastTask
  BY DEF Succeeded, Tasks
<1>2. IsFiniteSet(Succeeded(d))
  <2>1. 1 \in Int /\ LastTask \in Int
    BY MlTasksAssumption
  <2>2. IsFiniteSet(1..LastTask)
    BY <2>1, FS_Interval
  <2> QED
    BY <1>1, <2>2, FS_Subset
<1>3. Succeeded(d) # {} => Max(Succeeded(d)) \in Succeeded(d)
  BY <1>1, <1>2, GreatestIsOne, MlTasksAssumption
<1> QED
  BY <1>1, <1>3, MlTasksAssumption DEF Latest, Baseline

\* A stop reaches a process and changes nothing else.
LEMMA StopReaches ==
    ASSUME worker \in [Tasks -> Processes], NEW S
    PROVE  /\ Stopped(S) \in [Tasks -> Processes]
           /\ \A t \in Tasks : /\ Stopped(S)[t].py = worker[t].py
                               /\ worker[t] = NoWorker => Stopped(S)[t] = NoWorker
<1>1. ASSUME NEW t \in Tasks
      PROVE  /\ Stopped(S)[t] \in Processes /\ Stopped(S)[t].py = worker[t].py
             /\ worker[t] = NoWorker => Stopped(S)[t] = NoWorker
  <2>1. CASE t \in S /\ worker[t].watch # "None"
    <3>1. Stopped(S)[t] = [worker[t] EXCEPT !.stop = TRUE]
      BY <2>1 DEF Stopped
    <3>2. worker[t] \in Processes /\ worker[t] # NoWorker
      BY <2>1 DEF NoWorker
    <3> QED
      BY <3>1, <3>2 DEF Processes
  <2>2. CASE ~(t \in S /\ worker[t].watch # "None")
    BY <2>2 DEF Stopped
  <2> QED
    BY <2>1, <2>2
<1>2. Stopped(S) = [t \in Tasks |-> Stopped(S)[t]]
  BY DEF Stopped
<1> QED
  BY <1>1, <1>2

\* A step of the process of one task.
LEMMA ProcessWritten ==
    ASSUME worker \in [Tasks -> Processes], NEW t \in Tasks, NEW from, NEW to \in Moments,
           Process(t, from, to)
    PROVE  /\ worker' \in [Tasks -> Processes]
           /\ worker[t].py = from /\ worker'[t].py = to
           /\ \A u \in Tasks : u # t => worker'[u] = worker[u]
<1>1. worker' = [worker EXCEPT ![t] = [worker[t] EXCEPT !.py = to]]
  BY DEF Process
<1>2. [worker[t] EXCEPT !.py = to] \in Processes /\ [worker[t] EXCEPT !.py = to].py = to
  BY DEF Processes
<1> HIDE DEF Processes
<1> QED
  BY <1>1, <1>2 DEF Process

\* A step of one request that reports.
LEMMA ReportWritten ==
    ASSUME call \in [Tasks -> [BOOLEAN -> Reports]], NEW t \in Tasks, NEW ok \in BOOLEAN,
           NEW r \in Reports, call' = [call EXCEPT ![t][ok] = r]
    PROVE  /\ call' \in [Tasks -> [BOOLEAN -> Reports]]
           /\ call'[t][ok] = r
           /\ \A o \in BOOLEAN : o # ok => call'[t][o] = call[t][o]
           /\ \A u \in Tasks : u # t => call'[u] = call[u]
<1>1. call' = [call EXCEPT ![t] = [call[t] EXCEPT ![ok] = r]]
  OBVIOUS
<1>2. call[t] \in [BOOLEAN -> Reports]
  OBVIOUS
<1>3. [call[t] EXCEPT ![ok] = r] \in [BOOLEAN -> Reports]
  BY <1>2
<1> QED
  BY <1>1, <1>2, <1>3

LEMMA ReportAnswered ==
    ASSUME call \in [Tasks -> [BOOLEAN -> Reports]], NEW t \in Tasks, NEW ok \in BOOLEAN,
           Answer(t, ok)
    PROVE  /\ call' \in [Tasks -> [BOOLEAN -> Reports]]
           /\ call'[t][ok].stage = "Answered"
           /\ \A o \in BOOLEAN : o # ok => call'[t][o] = call[t][o]
           /\ \A u \in Tasks : u # t => call'[u] = call[u]
<1> DEFINE r == [stage |-> "Answered", early |-> FALSE]
<1>1. r \in Reports /\ r.stage = "Answered"
  BY DEF Reports, Stages
<1>2. call' = [call EXCEPT ![t][ok] = r]
  BY DEF Answer
<1> HIDE DEF r
<1> QED
  BY <1>1, <1>2, ReportWritten

LEMMA ReportStaged ==
    ASSUME call \in [Tasks -> [BOOLEAN -> Reports]], NEW t \in Tasks, NEW ok \in BOOLEAN,
           NEW stage \in Stages, Stage(t, ok, stage)
    PROVE  /\ call' \in [Tasks -> [BOOLEAN -> Reports]]
           /\ call'[t][ok].stage = stage
           /\ \A o \in BOOLEAN : o # ok => call'[t][o] = call[t][o]
           /\ \A u \in Tasks : u # t => call'[u] = call[u]
<1> DEFINE r == [call[t][ok] EXCEPT !.stage = stage]
<1>1. r \in Reports /\ r.stage = stage
  BY DEF Reports
<1>2. call' = [call EXCEPT ![t][ok] = r]
  BY DEF Stage
<1> HIDE DEF r
<1> QED
  BY <1>1, <1>2, ReportWritten

\* Whoever writes rows outside a draft finds no draft.
LEMMA NobodyDrafts == ASSUME MlInv, writer = None, NEW s \in Starters PROVE ~InDraft(s)
BY MlTasksAssumption DEF MlInv, Drafted

\* A step outside the starts.
LEMMA StepsKeep ==
    ASSUME MlInv, MlTyped', UNCHANGED <<draft, last, writer>>,
           \A s \in Starters : at'[s] = at[s],
           db' = db \/ writer = None,
           \A u \in Tasks : /\ Untouched(u) => Untouched(u)'
                            /\ Exists(db', u) => Exists(db, u)
                            /\ Registered(u)'
    PROVE  MlInv'
<1>1. Drafted'
  <2>1. CASE writer = None
    BY <2>1, NobodyDrafts DEF Drafted, InDraft
  <2>2. CASE writer # None
    BY <2>2 DEF MlInv, Drafted, InDraft, Exists
  <2> QED
    BY <2>1, <2>2
<1>2. NumberedOnce'
  <2>1. \A t \in Tasks : Exists(db, t)' \/ Exists(draft, t)' => t <= last'
    BY DEF MlInv, NumberedOnce, Exists
  <2>2. \A t \in Tasks : t > last' => Untouched(t)'
    BY DEF MlInv, NumberedOnce
  <2>3. \A s \in Starters : at'[s] = "Entered" => Untouched(last)'
    BY DEF MlInv, NumberedOnce, Drafted
  <2> QED
    BY <2>1, <2>2, <2>3 DEF NumberedOnce
<1> QED
  BY <1>1, <1>2 DEF MlInv

\* A task keeps what it has when nothing is reported of it, its process does
\* not go on, its rows get no better and its file stays.
LEMMA OthersStay ==
    ASSUME NEW u \in Tasks, Registered(u), worker'[u].py \in {worker[u].py, "None"},
           call'[u] = call[u], db'.version[u] \in {db.version[u], "None"},
           db'.task[u].type = db.task[u].type,
           db'.task[u].status = "SUCCEEDED" => db.task[u].status = "SUCCEEDED",
           InPlace(u) => InPlace(u)'
    PROVE  Registered(u)'
BY DEF Registered, Succeeded, Before

\* A step of one task: the others are not touched.
LEMMA TaskSteps ==
    ASSUME MlInv, MlTyped', UNCHANGED <<draft, last, at, age, writer>>, NEW t \in Tasks,
           ~Untouched(t), db' = db \/ writer = None,
           \A u \in Tasks : u # t =>
              /\ worker'[u] = worker[u] /\ call'[u] = call[u]
              /\ db'.task[u] = db.task[u] /\ db'.version[u] = db.version[u]
              /\ u \in kept => u \in kept',
           Exists(db', t) => Exists(db, t), Registered(t)'
    PROVE  MlInv'
<1>1. ASSUME NEW u \in Tasks, u # t
      PROVE  /\ Untouched(u) => Untouched(u)'
             /\ Exists(db', u) => Exists(db, u)
             /\ Registered(u)'
  <2>1. Registered(u)'
    BY <1>1, OthersStay DEF MlInv, InPlace
  <2> QED
    BY <1>1, <2>1 DEF Untouched, Exists
<1> QED
  BY <1>1, StepsKeep

-----------------------------------------------------------------------------
\* The process.
LEMMA ProcessKeeps ==
    ASSUME MlInv, NEW t \in Tasks, NEW from \in Moments \ {"None"}, NEW to \in Moments,
           Process(t, from, to), UNCHANGED <<db, draft, last, asked, at, call, kept, age, writer>>,
           to \in Before => from \in Before,
           to = "Checked" => db.task[t].type = "TRAIN"
    PROVE  MlInv'
<1>1. /\ worker' \in [Tasks -> Processes] /\ worker[t].py = from /\ worker'[t].py = to
      /\ \A u \in Tasks : u # t => worker'[u] = worker[u]
  BY ProcessWritten DEF MlInv, MlTyped
<1>2. MlTyped'
  BY <1>1 DEF MlInv, MlTyped, PlacesTyped
<1>3. Registered(t)'
  BY <1>1 DEF MlInv, Registered, InPlace, Succeeded
<1>4. ~Untouched(t)
  BY <1>1 DEF Untouched, NoWorker
<1> QED
  BY <1>1, <1>2, <1>3, <1>4, TaskSteps DEF Exists

LEMMA FetchKeeps == ASSUME MlInv, NEW t \in Tasks, FetchFeatures(t) PROVE MlInv'
<1>1. Process(t, "Begun", "Ready") /\ UNCHANGED <<db, draft, last, asked, at, call, kept, age, writer>>
  BY DEF FetchFeatures, Features, RefreshHourlyMetrics, Statement, lockVars, memory, files
<1> QED
  BY <1>1, ProcessKeeps DEF Moments, Before

LEMMA TrainKeeps == ASSUME MlInv, NEW t \in Tasks, Train(t) PROVE MlInv'
<1>1. Process(t, "Ready", "Trained") /\ UNCHANGED <<db, draft, last, asked, at, call, kept, age, writer>>
  BY DEF Train, lockVars, memory
<1> QED
  BY <1>1, ProcessKeeps DEF Moments, Before

LEMMA CheckKeeps == ASSUME MlInv, NEW t \in Tasks, CheckModel(t) PROVE MlInv'
<1>1. /\ Process(t, "Trained", "Checked") /\ db.task[t].type = "TRAIN"
      /\ UNCHANGED <<db, draft, last, asked, at, call, kept, age, writer>>
  BY DEF CheckModel, Registrable, Type, lockVars, memory, files
<1> QED
  BY <1>1, ProcessKeeps DEF Moments, Before

LEMMA ExitKeeps == ASSUME MlInv, NEW t \in Tasks, Exit(t) PROVE MlInv'
<1>1. PICK from \in Moments \ {"None"} : Process(t, from, "Gone")
  BY DEF Exit, Moments, Before
<1>2. UNCHANGED <<db, draft, last, asked, at, call, kept, age, writer>>
  BY DEF Exit, memory, files
<1> QED
  BY <1>1, <1>2, ProcessKeeps DEF Moments, Before

\* The registration of a model: its task has no report of success yet.
LEMMA RegisterKeeps == ASSUME MlInv, NEW t \in Tasks, RegisterModel(t) PROVE MlInv'
<1>1. /\ Process(t, "Checked", "Registered") /\ writer = None
      /\ UNCHANGED <<draft, last, asked, at, call, kept, age, writer>>
  BY DEF RegisterModel, Statement, lockVars, memory, files
<1>2. PICK verdict \in {"Poor", "Qualified"} : db' = [db EXCEPT !.version[t] = verdict]
  BY DEF RegisterModel
<1>3. /\ worker' \in [Tasks -> Processes] /\ worker[t].py = "Checked"
      /\ worker'[t].py = "Registered"
      /\ \A u \in Tasks : u # t => worker'[u] = worker[u]
  BY <1>1, ProcessWritten DEF MlInv, MlTyped, Moments, Before
<1>4. /\ db' \in RowsOfModels /\ db'.task = db.task /\ db'.version[t] = verdict
      /\ \A u \in Tasks : u # t => db'.version[u] = db.version[u]
  BY <1>2 DEF MlInv, MlTyped, RowsOfModels
<1>5. MlTyped'
  BY <1>1, <1>3, <1>4 DEF MlInv, MlTyped, PlacesTyped
<1>6. Registered(t)'
  <2>1. call[t][TRUE].stage = "None" /\ db.task[t].status # "SUCCEEDED" /\ db.task[t].type = "TRAIN"
    BY <1>3 DEF MlInv, Registered, Before
  <2> QED
    BY <1>1, <1>3, <1>4, <2>1 DEF Registered, Succeeded
<1>7. ~Untouched(t)
  BY <1>3 DEF Untouched, NoWorker
<1> QED
  BY <1>1, <1>3, <1>4, <1>5, <1>6, <1>7, TaskSteps DEF Exists

LEMMA PredictKeeps == ASSUME MlInv, NEW t \in Tasks, WritePredictions(t) PROVE MlInv'
<1>1. /\ Process(t, "Ready", "Registered") /\ writer = None
      /\ UNCHANGED <<draft, last, asked, at, call, kept, age, writer>>
      /\ db' = [db EXCEPT !.batch[t] = worker[t].model, !.fresh = @ \cup {t}]
  BY DEF WritePredictions, Statement, lockVars, memory, files
<1>2. /\ worker' \in [Tasks -> Processes] /\ worker[t].py = "Ready"
      /\ worker'[t].py = "Registered"
      /\ \A u \in Tasks : u # t => worker'[u] = worker[u]
  BY <1>1, ProcessWritten DEF MlInv, MlTyped, Moments, Before
<1>3. worker[t].model \in 0..LastTask
  BY DEF MlInv, MlTyped, Processes
<1>4. db' \in RowsOfModels /\ db'.task = db.task /\ db'.version = db.version
  BY <1>1, <1>3 DEF MlInv, MlTyped, RowsOfModels
<1>5. MlTyped'
  BY <1>1, <1>2, <1>4 DEF MlInv, MlTyped, PlacesTyped
<1>6. Registered(t)'
  BY <1>1, <1>2, <1>4 DEF MlInv, Registered, InPlace, Succeeded, Before
<1>7. ~Untouched(t)
  BY <1>2 DEF Untouched, NoWorker
<1> QED
  BY <1>1, <1>2, <1>4, <1>5, <1>6, <1>7, TaskSteps DEF Exists

LEMMA ReportKeeps ==
    ASSUME MlInv, NEW t \in Tasks, ReportSuccess(t) \/ ReportFailure(t) PROVE MlInv'
<1> DEFINE queued == [stage |-> "Queued", early |-> age[t] <= 1]
<1>1. PICK from \in Moments \ {"None"}, to \in {"Told", "Sorry"}, ok \in BOOLEAN :
        Process(t, from, to) /\ Report(t, ok)
  BY DEF ReportSuccess, ReportFailure, Moments, Before
<1>2. /\ call[t][ok] = NoCall /\ call' = [call EXCEPT ![t][ok] = queued]
      /\ UNCHANGED <<db, draft, last, asked, at, kept, age, writer>>
  BY <1>1 DEF Report, lockVars, memory, files
<1>3. /\ worker' \in [Tasks -> Processes] /\ worker[t].py = from /\ worker'[t].py = to
      /\ \A u \in Tasks : u # t => worker'[u] = worker[u]
  BY <1>1, ProcessWritten DEF MlInv, MlTyped, Moments, Before
<1>4. queued \in Reports /\ queued.stage = "Queued"
  BY DEF Reports, Stages
<1> HIDE DEF queued
<1>5. /\ call' \in [Tasks -> [BOOLEAN -> Reports]]
      /\ call'[t][ok] = queued /\ \A o \in BOOLEAN : o # ok => call'[t][o] = call[t][o]
      /\ \A u \in Tasks : u # t => call'[u] = call[u]
  BY <1>2, <1>4, ReportWritten DEF MlInv, MlTyped
<1>6. MlTyped'
  BY <1>2, <1>3, <1>5 DEF MlInv, MlTyped, PlacesTyped
<1>7. call'[t][TRUE].stage = "Ready" => call[t][TRUE].stage = "Ready"
  BY <1>4, <1>5
<1>8. Registered(t)'
  BY <1>2, <1>3, <1>7 DEF MlInv, Registered, InPlace, Succeeded, Before
<1>9. ~Untouched(t)
  BY <1>3 DEF Untouched, NoWorker
<1> QED
  BY <1>2, <1>3, <1>5, <1>6, <1>8, <1>9, TaskSteps DEF Exists

-----------------------------------------------------------------------------
\* The requests that report.
LEMMA ReportMoves ==
    ASSUME MlInv, NEW t \in Tasks, NEW ok \in BOOLEAN, NEW stage \in Stages \ {"None"},
           call[t][ok].stage # "None",
           (Answer(t, ok) /\ stage = "Answered") \/ Stage(t, ok, stage)
    PROVE  /\ call' \in [Tasks -> [BOOLEAN -> Reports]] /\ ~Untouched(t)
           /\ call'[t][ok].stage = stage /\ \A o \in BOOLEAN : o # ok => call'[t][o] = call[t][o]
           /\ \A u \in Tasks : u # t => call'[u] = call[u]
<1>1. ~Untouched(t)
  BY DEF Untouched, NoCall
<1> QED
  BY <1>1, ReportAnswered, ReportStaged DEF MlInv, MlTyped

LEMMA FinalizeKeeps ==
    ASSUME MlInv, NEW t \in Tasks, NEW ok \in BOOLEAN, Finalize(t, ok) PROVE MlInv'
<1>1. /\ call[t][ok].stage = "Queued"
      /\ UNCHANGED <<db, draft, last, asked, at, worker, age, writer>>
      /\ kept' = kept \/ kept' = kept \cup {t}
  BY DEF Finalize, files, memory
<1>2. PICK stage \in {"Ready", "Answered"} : (Answer(t, ok) /\ stage = "Answered") \/ Stage(t, ok, stage)
  BY DEF Finalize
<1>3. /\ call' \in [Tasks -> [BOOLEAN -> Reports]] /\ ~Untouched(t)
      /\ call'[t][ok].stage = stage /\ \A o \in BOOLEAN : o # ok => call'[t][o] = call[t][o]
      /\ \A u \in Tasks : u # t => call'[u] = call[u]
  BY <1>1, <1>2, ReportMoves DEF Stages
<1>4. MlTyped'
  BY <1>1, <1>3 DEF MlInv, MlTyped, PlacesTyped
<1>5. call'[t][TRUE].stage = "Ready" /\ db.version[t] = "Qualified" => InPlace(t)'
  <2>1. CASE ok = FALSE
    BY <1>1, <1>3, <2>1 DEF MlInv, Registered, InPlace
  <2>2. CASE ok = TRUE
    <3>1. SUFFICES ASSUME call'[t][TRUE].stage = "Ready", db.version[t] = "Qualified"
                   PROVE  t \in kept'
      BY DEF InPlace
    <3>2. db.task[t].type = "TRAIN"
      BY <3>1 DEF MlInv, Registered
    <3>3. Finalized(t, ok) /\ ~Answer(t, ok)
      <4>1. call'[t][ok].stage # "Answered"
        BY <2>2, <3>1
      <4>2. ASSUME Answer(t, ok) PROVE FALSE
        BY <4>1, <4>2, ReportAnswered DEF MlInv, MlTyped
      <4> QED
        BY <2>2, <3>1, <4>2 DEF Finalized
    <3> QED
      BY <3>2, <3>3 DEF Finalize, Type
  <2> QED
    BY <2>1, <2>2
<1>6. Registered(t)'
  <2>1. call[t][ok].stage # "None" /\ call'[t][ok].stage # "None"
    BY <1>1, <1>3
  <2>2. call'[t][TRUE].stage = "None" => call[t][TRUE].stage = "None"
    BY <1>3, <2>1
  <2>3. call[t][TRUE].stage = "None" => call'[t][TRUE].stage = "None"
    BY <1>3, <2>1
  <2>4. InPlace(t) => InPlace(t)'
    BY <1>1 DEF InPlace
  <2> QED
    BY <1>1, <1>5, <2>2, <2>3, <2>4 DEF MlInv, Registered, Succeeded
<1> QED
  BY <1>1, <1>3, <1>4, <1>6, TaskSteps DEF Exists

LEMMA DecideKeeps ==
    ASSUME MlInv, NEW t \in Tasks, NEW ok \in BOOLEAN, Decide(t, ok) PROVE MlInv'
<1>1. /\ call[t][ok].stage = "Ready" /\ writer = None
      /\ UNCHANGED <<draft, last, asked, at, worker, kept, age, writer>>
  BY DEF Decide, Statement, lockVars, files, memory
<1>2. ASSUME Acceptable(t, ok), NEW status \in Statuses, status = IF ok THEN "SUCCEEDED" ELSE "FAILED",
             db' = WithStatus(db, {t}, status),
             NEW stage \in {"Decided", "Marking"}, Stage(t, ok, stage)
      PROVE  MlInv'
  <2>1. /\ call' \in [Tasks -> [BOOLEAN -> Reports]] /\ ~Untouched(t)
        /\ call'[t][ok].stage = stage /\ \A o \in BOOLEAN : o # ok => call'[t][o] = call[t][o]
        /\ \A u \in Tasks : u # t => call'[u] = call[u]
    BY <1>1, <1>2, ReportMoves DEF Stages
  <2>2. /\ db' \in RowsOfModels /\ db'.version = db.version
        /\ db'.task[t].type = db.task[t].type /\ db'.task[t].status = status
        /\ \A u \in Tasks : u # t => db'.task[u] = db.task[u]
    <3>1. db \in RowsOfModels
      BY DEF MlInv, MlTyped
    <3>2. PICK d : d = WithStatus(db, {t}, status)
      OBVIOUS
    <3>3. /\ d \in RowsOfModels /\ d.version = db.version
          /\ d.task[t].type = db.task[t].type /\ d.task[t].status = status
          /\ \A u \in Tasks : u # t => d.task[u] = db.task[u]
      BY <3>1, <3>2, VerdictWritten
    <3>4. db' = d
      BY <1>2, <3>2
    <3> QED
      BY <3>3, <3>4
  <2>4. MlTyped'
    BY <1>1, <2>1, <2>2 DEF MlInv, MlTyped, PlacesTyped
  <2>5. Exists(db, t)
    BY <1>2 DEF Acceptable, Exists, NoTask
  <2>6. worker[t].py \in Before => call[t][TRUE].stage = "None"
    BY DEF MlInv, Registered
  <2>7. CASE ok = TRUE
    <3>1. worker[t].py \notin Before /\ call'[t][TRUE].stage # "Ready"
      BY <1>1, <1>2, <2>1, <2>6, <2>7
    <3>2. db.version[t] = "Qualified" => InPlace(t)'
      BY <1>1, <2>7 DEF MlInv, Registered, InPlace
    <3>3. Registered(t)'
      BY <1>1, <2>2, <3>1, <3>2 DEF MlInv, Registered, Succeeded
    <3> QED
      BY <1>1, <2>1, <2>2, <2>4, <2>5, <3>3, TaskSteps
  <2>8. CASE ok = FALSE
    <3>1. call'[t][TRUE] = call[t][TRUE] /\ status = "FAILED"
      BY <1>2, <2>1, <2>8
    <3>2. Registered(t)'
      BY <1>1, <2>2, <3>1 DEF MlInv, Registered, Succeeded, InPlace
    <3> QED
      BY <1>1, <2>1, <2>2, <2>4, <2>5, <3>2, TaskSteps
  <2> QED
    BY <2>7, <2>8
<1>3. ASSUME Answer(t, ok), db' = db PROVE MlInv'
  <2>1. /\ call' \in [Tasks -> [BOOLEAN -> Reports]] /\ ~Untouched(t)
        /\ call'[t][ok].stage = "Answered" /\ \A o \in BOOLEAN : o # ok => call'[t][o] = call[t][o]
        /\ \A u \in Tasks : u # t => call'[u] = call[u]
    BY <1>1, <1>3, ReportMoves DEF Stages
  <2>2. MlTyped'
    BY <1>1, <1>3, <2>1 DEF MlInv, MlTyped, PlacesTyped
  <2>3. /\ call'[t][TRUE].stage = "None" <=> call[t][TRUE].stage = "None"
        /\ call'[t][TRUE].stage = "Ready" => call[t][TRUE].stage = "Ready"
    BY <1>1, <2>1
  <2>4. Registered(t)'
    BY <1>1, <1>3, <2>3 DEF MlInv, Registered, Succeeded, InPlace
  <2> QED
    BY <1>1, <1>3, <2>1, <2>2, <2>4, TaskSteps
<1> QED
  BY <1>2, <1>3 DEF Decide, Statuses

\* The later stages of a request.
LEMMA RequestKeeps ==
    ASSUME MlInv, NEW t \in Tasks, NEW ok \in BOOLEAN,
           MarkFailed(t) \/ RevokeToken(t, ok) \/ CallGivesUp(t, ok)
    PROVE  MlInv'
<1>1. PICK o \in BOOLEAN, stage \in {"Decided", "Answered"} :
        /\ call[t][o].stage # "None" /\ stage # "Ready"
        /\ (Answer(t, o) /\ stage = "Answered") \/ Stage(t, o, stage)
  BY DEF MarkFailed, RevokeToken, CallGivesUp
<1>2. /\ db' = db \/ (db' = Stale(db) /\ writer = None)
      /\ UNCHANGED <<draft, last, asked, at, kept, age, writer>>
  <2>1. CASE RevokeToken(t, ok)
    <3>1. UNCHANGED <<db, draft, last, memory, files, age, lockVars>>
      BY <2>1, Zenon DEF RevokeToken
    <3> QED
      BY <3>1 DEF lockVars, files, memory
  <2>2. CASE CallGivesUp(t, ok)
    <3>1. UNCHANGED <<db, draft, last, memory, files, age, lockVars>>
      BY <2>2 DEF CallGivesUp, Busy
    <3> QED
      BY <3>1 DEF lockVars, files, memory
  <2>3. CASE MarkFailed(t)
    BY <2>3 DEF MarkFailed, Statement, lockVars, files, memory
  <2> QED
    BY <2>1, <2>2, <2>3
<1>3. /\ call' \in [Tasks -> [BOOLEAN -> Reports]] /\ ~Untouched(t)
      /\ call'[t][o].stage = stage /\ \A p \in BOOLEAN : p # o => call'[t][p] = call[t][p]
      /\ \A u \in Tasks : u # t => call'[u] = call[u]
  BY <1>1, ReportMoves DEF Stages
<1>4. db' \in RowsOfModels /\ db'.task = db.task /\ db'.version = db.version
  BY <1>2, StaleWritten DEF MlInv, MlTyped
<1>5. /\ worker' \in [Tasks -> Processes] /\ worker'[t].py = worker[t].py
      /\ \A u \in Tasks : u # t => worker'[u] = worker[u]
  <2>1. worker \in [Tasks -> Processes]
    BY DEF MlInv, MlTyped
  <2>2. CASE RevokeToken(t, ok)
    <3> DEFINE w == [worker[t] EXCEPT !.token = FALSE]
    <3>1. worker[t] \in Processes
      BY <2>1
    <3>2. w \in Processes /\ w.py = worker[t].py
      BY <3>1 DEF Processes
    <3>3. worker' = [worker EXCEPT ![t] = w]
      BY <2>2, Zenon DEF RevokeToken
    <3> HIDE DEF w
    <3> QED
      BY <2>1, <3>2, <3>3
  <2>3. CASE MarkFailed(t) \/ CallGivesUp(t, ok)
    BY <2>1, <2>3 DEF MarkFailed, CallGivesUp
  <2> QED
    BY <2>2, <2>3
<1>6. MlTyped'
  BY <1>2, <1>3, <1>4, <1>5 DEF MlInv, MlTyped, PlacesTyped
<1>7. /\ call'[t][TRUE].stage = "None" <=> call[t][TRUE].stage = "None"
      /\ call'[t][TRUE].stage = "Ready" => call[t][TRUE].stage = "Ready"
  BY <1>1, <1>3
<1>8. Registered(t)'
  BY <1>2, <1>4, <1>5, <1>7 DEF MlInv, Registered, Succeeded, InPlace
<1> QED
  BY <1>2, <1>3, <1>4, <1>5, <1>6, <1>8, TaskSteps DEF Exists

-----------------------------------------------------------------------------
\* The thread of a process.
LEMMA EndedKeeps == ASSUME MlInv, NEW t \in Tasks, ProcessEnded(t) PROVE MlInv'
<1>1. /\ worker[t].watch = "Watching"
      /\ worker' = [worker EXCEPT ![t] =
                      [worker[t] EXCEPT !.watch = "Ended", !.py = "Gone", !.token = FALSE]]
      /\ UNCHANGED <<db, draft, last, asked, at, call, kept, age, writer>>
  BY DEF ProcessEnded, lockVars, files, memory
<1>2. /\ worker' \in [Tasks -> Processes] /\ worker'[t].py = "Gone"
      /\ \A u \in Tasks : u # t => worker'[u] = worker[u]
  <2> DEFINE w == [worker[t] EXCEPT !.watch = "Ended", !.py = "Gone", !.token = FALSE]
  <2>1. worker[t] \in Processes
    BY DEF MlInv, MlTyped
  <2>2. w \in Processes /\ w.py = "Gone"
    BY <2>1 DEF Processes, Moments
  <2> HIDE DEF w
  <2>3. worker' = [worker EXCEPT ![t] = w]
    BY <1>1 DEF w
  <2> QED
    BY <2>2, <2>3 DEF MlInv, MlTyped
<1>3. MlTyped'
  BY <1>1, <1>2 DEF MlInv, MlTyped, PlacesTyped
<1>4. Registered(t)'
  BY <1>1, <1>2 DEF MlInv, Registered, Succeeded, InPlace, Before
<1>5. ~Untouched(t)
  BY <1>1 DEF Untouched, NoWorker
<1> QED
  BY <1>1, <1>2, <1>3, <1>4, <1>5, TaskSteps DEF Exists

LEMMA ConcludeKeeps == ASSUME MlInv, NEW t \in Tasks, Conclude(t) PROVE MlInv'
<1> DEFINE finished == [NoWorker EXCEPT !.watch = "Finished"]
<1>1. /\ worker[t].watch \in {"Ended", "Marking"}
      /\ \/ worker' = [worker EXCEPT ![t].watch = "Marking"]
         \/ worker' = [worker EXCEPT ![t] = finished]
      /\ UNCHANGED <<draft, last, asked, at, call, kept, age, writer>>
  BY DEF Conclude, Watch, Finish, Statement, Busy, lockVars, files, memory
<1>2. \/ db' = db
      \/ writer = None /\ db' = Stale(db)
      \/ writer = None /\ Active(db, t) /\ db' = WithStatus(db, {t}, "FAILED")
  BY DEF Conclude, Statement
<1>3. finished \in Processes /\ finished.py = "None"
  <2>1. 0 \in 0..LastTask /\ "None" \in Moments
    BY MlTasksAssumption DEF Moments
  <2>2. NoWorker \in Processes /\ NoWorker.py = "None"
    BY <2>1 DEF NoWorker, Baseline, Processes
  <2> QED
    BY <2>2 DEF Processes
<1> HIDE DEF finished
<1>4. /\ worker' \in [Tasks -> Processes] /\ worker'[t].py \in {worker[t].py, "None"}
      /\ \A u \in Tasks : u # t => worker'[u] = worker[u]
  <2>1. [worker[t] EXCEPT !.watch = "Marking"] \in Processes /\ [worker[t] EXCEPT !.watch = "Marking"].py = worker[t].py
    BY DEF MlInv, MlTyped, Processes
  <2> QED
    BY <1>1, <1>3, <2>1 DEF MlInv, MlTyped
<1>5. /\ db' \in RowsOfModels /\ db'.version = db.version
      /\ db'.task[t].type = db.task[t].type /\ db'.task[t].status \in {db.task[t].status, "FAILED"}
      /\ \A u \in Tasks : u # t => db'.task[u] = db.task[u]
      /\ Exists(db', t) => Exists(db, t)
  <2>1. CASE db' = db
    BY <2>1 DEF MlInv, MlTyped
  <2>2. CASE db' = Stale(db)
    BY <2>2, StaleWritten DEF MlInv, MlTyped, Exists
  <2>3. CASE Active(db, t) /\ db' = WithStatus(db, {t}, "FAILED")
    <3>1. /\ db' \in RowsOfModels /\ db'.version = db.version
          /\ db'.task[t].type = db.task[t].type /\ db'.task[t].status = "FAILED"
          /\ \A u \in Tasks : u # t => db'.task[u] = db.task[u]
      <4>1. db \in RowsOfModels /\ "FAILED" \in Statuses
        BY DEF MlInv, MlTyped, Statuses
      <4> QED
        BY <2>3, <4>1, VerdictWritten
    <3>2. Exists(db, t)
      BY <2>3 DEF Exists, Active, NoTask
    <3> QED
      BY <3>1, <3>2
  <2> QED
    BY <1>2, <2>1, <2>2, <2>3
<1>6. MlTyped'
  BY <1>1, <1>4, <1>5 DEF MlInv, MlTyped, PlacesTyped
<1>7. Registered(t)'
  BY <1>1, <1>4, <1>5 DEF MlInv, Registered, Succeeded, InPlace, Before
<1>8. ~Untouched(t)
  BY <1>1 DEF Untouched, NoWorker
<1> QED
  BY <1>1, <1>2, <1>4, <1>5, <1>6, <1>7, <1>8, TaskSteps

-----------------------------------------------------------------------------
\* The sweep.
LEMMA SweeperMoves ==
    ASSUME MlInv, NEW m \in Sweepers, NEW place \in Places, Move(m, place)
    PROVE  /\ at' \in [Starters \cup Sweepers -> Places]
           /\ \A s \in Starters : at'[s] = at[s]
BY MlTasksAssumption DEF MlInv, MlTyped, PlacesTyped, Move

LEMMA SweepGoes ==
    ASSUME MlInv, NEW m \in Sweepers, NEW left, SweepGoesOn(m, left)
    PROVE  /\ at' \in [Starters \cup Sweepers -> Places]
           /\ \A s \in Starters : at'[s] = at[s]
<1>1. PICK place \in Places : Move(m, place)
  BY DEF SweepGoesOn, Places
<1> QED
  BY <1>1, SweeperMoves

LEMMA SweepKeeps ==
    ASSUME MlInv, NEW m \in Sweepers, Sweep(m) \/ SweepMark(m) \/ SweepGivesUp(m) PROVE MlInv'
<1>1. /\ at' \in [Starters \cup Sweepers -> Places]
      /\ \A s \in Starters : at'[s] = at[s]
  <2>1. CASE Sweep(m)
    BY <2>1, SweeperMoves DEF Sweep, Places
  <2>2. CASE SweepMark(m)
    BY <2>2, SweepGoes DEF SweepMark
  <2>3. CASE SweepGivesUp(m)
    BY <2>3, SweepGoes DEF SweepGivesUp
  <2> QED
    BY <2>1, <2>2, <2>3
<1>2. /\ db' = db \/ (db' = Stale(db) /\ writer = None)
      /\ UNCHANGED <<draft, last, asked, worker, call, kept, age, writer>>
  BY DEF Sweep, SweepMark, SweepGivesUp, Statement, Busy, lockVars, files
<1>3. db' \in RowsOfModels /\ db'.task = db.task /\ db'.version = db.version
  BY <1>2, StaleWritten DEF MlInv, MlTyped
<1>4. MlTyped'
  BY <1>1, <1>2, <1>3 DEF MlInv, MlTyped, PlacesTyped
<1>5. ASSUME NEW u \in Tasks
      PROVE  (Untouched(u) => Untouched(u)') /\ (Exists(db', u) => Exists(db, u)) /\ Registered(u)'
  <2>1. Registered(u)'
    BY <1>2, <1>3, OthersStay DEF MlInv, InPlace
  <2> QED
    BY <1>2, <1>3, <2>1 DEF Untouched, Exists
<1> QED
  BY <1>1, <1>2, <1>4, <1>5, StepsKeep

LEMMA SweepTaskKeeps == ASSUME MlInv, NEW m \in Sweepers, SweepTask(m) PROVE MlInv'
<1> DEFINE t == Min(todo[m])
<1>1. writer = None /\ UNCHANGED <<draft, last, asked, call, kept, age, writer>>
  BY DEF SweepTask, Statement, lockVars, files
<1>2. \/ Active(db, t) /\ db' = WithStatus(db, {t}, "TIMED_OUT") /\ worker' = Stopped({t}) /\ Move(m, "Marking")
      \/ db' = db /\ worker' = worker /\ SweepGoesOn(m, todo[m] \ {t})
  BY DEF SweepTask
<1> HIDE DEF t
<1>3. /\ at' \in [Starters \cup Sweepers -> Places]
      /\ \A s \in Starters : at'[s] = at[s]
  BY <1>2, SweeperMoves, SweepGoes DEF Places
<1>4. /\ db' \in RowsOfModels /\ db'.version = db.version
      /\ \A u \in Tasks : /\ db'.task[u].type = db.task[u].type
                          /\ db'.task[u].status = "SUCCEEDED" => db.task[u].status = "SUCCEEDED"
                          /\ Exists(db', u) => Exists(db, u)
  <2>1. CASE Active(db, t) /\ db' = WithStatus(db, {t}, "TIMED_OUT")
    <3>1. db \in RowsOfModels /\ "TIMED_OUT" \in Statuses
      BY DEF MlInv, MlTyped, Statuses
    <3>2. /\ db' \in RowsOfModels /\ db'.version = db.version
          /\ \A u \in Tasks : db'.task[u] =
               [type |-> db.task[u].type, status |-> IF u \in {t} THEN "TIMED_OUT" ELSE db.task[u].status]
      BY <2>1, <3>1, StatusWritten
    <3>3. \A u \in Tasks : db.task[u] = [type |-> db.task[u].type, status |-> db.task[u].status]
      BY <3>1 DEF RowsOfModels
    <3>4. ASSUME NEW u \in Tasks
          PROVE  /\ db'.task[u].type = db.task[u].type
                 /\ db'.task[u].status = "SUCCEEDED" => db.task[u].status = "SUCCEEDED"
                 /\ Exists(db', u) => Exists(db, u)
      <4>1. CASE u = t
        <5>1. db'.task[u] = [type |-> db.task[u].type, status |-> "TIMED_OUT"]
          BY <3>2, <4>1
        <5>2. Exists(db, u)
          BY <2>1, <4>1 DEF Active, Exists, NoTask
        <5> QED
          BY <5>1, <5>2
      <4>2. CASE u # t
        BY <3>2, <3>3, <4>2 DEF Exists
      <4> QED
        BY <4>1, <4>2
    <3> QED
      BY <3>2, <3>4
  <2>2. CASE db' = db
    BY <2>2 DEF MlInv, MlTyped
  <2> QED
    BY <1>2, <2>1, <2>2
<1>5. /\ worker' \in [Tasks -> Processes]
      /\ \A u \in Tasks : /\ worker'[u].py = worker[u].py
                          /\ worker[u] = NoWorker => worker'[u] = NoWorker
  BY <1>2, StopReaches DEF MlInv, MlTyped
<1>6. MlTyped'
  BY <1>1, <1>3, <1>4, <1>5 DEF MlInv, MlTyped, PlacesTyped
<1>7. ASSUME NEW u \in Tasks
      PROVE  (Untouched(u) => Untouched(u)') /\ (Exists(db', u) => Exists(db, u)) /\ Registered(u)'
  <2>1. Registered(u)'
    BY <1>1, <1>4, <1>5, OthersStay DEF MlInv, InPlace
  <2> QED
    BY <1>1, <1>4, <1>5, <2>1 DEF Untouched
<1> QED
  BY <1>1, <1>3, <1>6, <1>7, StepsKeep

-----------------------------------------------------------------------------
\* Time and retention.
LEMMA OlderKeeps == ASSUME MlInv, NEW t \in Tasks, Older(t) \/ MuchOlder(t) PROVE MlInv'
<1>1. UNCHANGED <<db, draft, last, asked, at, worker, call, kept, writer>>
  BY DEF Older, MuchOlder, lockVars, memory, files
<1>2. age' \in [Tasks -> 0..4] /\ \A u \in Tasks : age'[u] < 4 => age[u] < 4
  <2>1. CASE Older(t)
    BY <2>1 DEF Older, MlInv, MlTyped, PlacesTyped
  <2>2. CASE MuchOlder(t)
    BY <2>2 DEF MuchOlder, MlInv, MlTyped, PlacesTyped
  <2> QED
    BY <2>1, <2>2
<1>3. MlTyped'
  BY <1>1, <1>2 DEF MlInv, MlTyped, PlacesTyped
<1>4. ASSUME NEW u \in Tasks
      PROVE  (Untouched(u) => Untouched(u)') /\ (Exists(db', u) => Exists(db, u)) /\ Registered(u)'
  <2>1. Registered(u)'
    BY <1>1, <1>2, OthersStay DEF MlInv, InPlace
  <2> QED
    BY <1>1, <2>1 DEF Untouched, Exists
<1> QED
  BY <1>1, <1>3, <1>4, StepsKeep

LEMMA RetainedWritten ==
    ASSUME NEW d \in RowsOfModels
    PROVE  /\ Retained(d) \in RowsOfModels /\ Retained(d).task = d.task
           /\ \A t \in Tasks : Retained(d).version[t] \in {d.version[t], "None"}
<1> DEFINE batches == [t \in Tasks |-> IF age[t] = 4 THEN None ELSE d.batch[t]]
           fresh == {t \in d.fresh : age[t] < 4}
           version == [t \in Tasks |-> IF age[t] >= 3 /\ t \notin Range(batches) THEN "None" ELSE d.version[t]]
<1>1. Retained(d) = [d EXCEPT !.batch = batches, !.fresh = fresh, !.version = version]
  BY DEF Retained
<1>2. batches \in [Tasks -> 0..LastTask \cup {None}] /\ fresh \in SUBSET Tasks
  BY DEF RowsOfModels
<1>3. /\ version \in [Tasks -> {"None", "Poor", "Qualified"}]
      /\ \A t \in Tasks : version[t] \in {d.version[t], "None"}
  <2> HIDE DEF batches
  <2> QED
    BY DEF RowsOfModels
<1> HIDE DEF batches, fresh, version
<1> QED
  BY <1>1, <1>2, <1>3 DEF RowsOfModels

LEMMA RetentionKeeps == ASSUME MlInv, CleanModels \/ CleanModelsBlindly PROVE MlInv'
<1>1. /\ writer = None /\ db' = Retained(db)
      /\ \A t \in Tasks : t \in kept /\ age[t] < 4 => t \in kept'
      /\ UNCHANGED <<draft, last, asked, at, worker, call, age, writer>>
  <2>1. ASSUME NEW t \in Tasks, age[t] < 4 PROVE ~Expired(t)
    BY <2>1 DEF Expired, MlInv, MlTyped, PlacesTyped
  <2>2. CASE CleanModels
    BY <2>1, <2>2 DEF CleanModels, Statement, lockVars, memory
  <2>3. CASE CleanModelsBlindly
    BY <2>1, <2>3 DEF CleanModelsBlindly, memory
  <2> QED
    BY <2>2, <2>3
<1>2. /\ db' \in RowsOfModels /\ db'.task = db.task
      /\ \A t \in Tasks : db'.version[t] \in {db.version[t], "None"}
  BY <1>1, RetainedWritten DEF MlInv, MlTyped
<1>3. MlTyped'
  BY <1>1, <1>2 DEF MlInv, MlTyped, PlacesTyped
<1>4. ASSUME NEW u \in Tasks
      PROVE  (Untouched(u) => Untouched(u)') /\ (Exists(db', u) => Exists(db, u)) /\ Registered(u)'
  <2>1. Registered(u)'
    BY <1>1, <1>2, OthersStay DEF MlInv, InPlace
  <2> QED
    BY <1>1, <1>2, <2>1 DEF Untouched, Exists
<1> QED
  BY <1>1, <1>3, <1>4, StepsKeep

-----------------------------------------------------------------------------
\* The starts.
LEMMA OneDraft ==
    ASSUME Drafted, NEW s \in Starters, InDraft(s), NEW r \in Starters, r # s PROVE ~InDraft(r)
BY DEF Drafted

LEMMA StarterMoves ==
    ASSUME MlInv, NEW s \in Starters, NEW place \in Places, Move(s, place)
    PROVE  /\ at' \in [Starters \cup Sweepers -> Places] /\ at'[s] = place
           /\ \A r \in Starters : r # s => at'[r] = at[r]
BY MlTasksAssumption DEF MlInv, MlTyped, PlacesTyped, Move

LEMMA BeginStartKeeps == ASSUME MlInv, NEW s \in Starters, BeginStart(s) PROVE MlInv'
<1>1. /\ writer = None /\ writer' = s /\ draft' = db
      /\ UNCHANGED <<db, last, asked, worker, call, kept, age>>
      /\ Move(s, "Begun")
  BY DEF BeginStart, BeginImmediate, files
<1>2. /\ at' \in [Starters \cup Sweepers -> Places] /\ at'[s] = "Begun"
      /\ \A r \in Starters : r # s => at'[r] = at[r]
  BY <1>1, StarterMoves DEF Places
<1>3. MlTyped'
  BY <1>1, <1>2 DEF MlInv, MlTyped, PlacesTyped
<1>4. \A r \in Starters : InDraft(r)' => r = s
  BY <1>1, <1>2, NobodyDrafts DEF InDraft
<1>5. Drafted'
  BY <1>1, <1>2, <1>4 DEF Drafted, InDraft
<1>6. \A r \in Starters : at'[r] # "Entered"
  BY <1>2, <1>4 DEF InDraft
<1>7. NumberedOnce'
  BY <1>1, <1>6 DEF MlInv, NumberedOnce, Untouched, Exists
<1>8. \A u \in Tasks : Registered(u)'
  BY <1>1 DEF MlInv, Registered, Succeeded, InPlace
<1> QED
  BY <1>3, <1>5, <1>7, <1>8 DEF MlInv

\* What a start sweeps, in its draft.
LEMMA DraftSwept ==
    ASSUME MlInv, NEW swept,
           swept = IF Overdue(draft) = {} THEN draft
                   ELSE Stale(WithStatus(draft, Overdue(draft), "TIMED_OUT"))
    PROVE  /\ swept \in RowsOfModels /\ swept.version = draft.version
           /\ \A t \in Tasks : /\ swept.task[t].type = draft.task[t].type
                               /\ swept.task[t].status = "SUCCEEDED" => draft.task[t].status = "SUCCEEDED"
                               /\ Exists(swept, t) => Exists(draft, t)
<1> DEFINE late == Overdue(draft)
<1>1. draft \in RowsOfModels /\ "TIMED_OUT" \in Statuses
  BY DEF MlInv, MlTyped, Statuses
<1>2. CASE late = {}
  BY <1>1, <1>2
<1>3. CASE late # {}
  <2> DEFINE e == WithStatus(draft, late, "TIMED_OUT")
  <2>1. /\ e \in RowsOfModels /\ e.version = draft.version
        /\ \A t \in Tasks : e.task[t] =
             [type |-> draft.task[t].type, status |-> IF t \in late THEN "TIMED_OUT" ELSE draft.task[t].status]
    BY <1>1, StatusWritten
  <2>2. \A t \in Tasks : draft.task[t] = [type |-> draft.task[t].type, status |-> draft.task[t].status]
    BY <1>1 DEF RowsOfModels
  <2>3. \A t \in late : Exists(draft, t)
    BY DEF Overdue, Active, Exists, NoTask
  <2>4. swept = Stale(e)
    BY <1>3
  <2> HIDE DEF e, late
  <2>5. swept \in RowsOfModels /\ swept.version = e.version /\ swept.task = e.task
    BY <2>1, <2>4, StaleWritten
  <2>6. ASSUME NEW t \in Tasks
        PROVE  /\ swept.task[t].type = draft.task[t].type
               /\ swept.task[t].status = "SUCCEEDED" => draft.task[t].status = "SUCCEEDED"
               /\ Exists(swept, t) => Exists(draft, t)
    <3>1. CASE t \in late
      <4>1. swept.task[t] = [type |-> draft.task[t].type, status |-> "TIMED_OUT"]
        BY <2>1, <2>5, <3>1
      <4> QED
        BY <2>3, <3>1, <4>1
    <3>2. CASE t \notin late
      BY <2>1, <2>2, <2>5, <3>2 DEF Exists
    <3> QED
      BY <3>1, <3>2
  <2> QED
    BY <2>1, <2>5, <2>6
<1> QED
  BY <1>2, <1>3

LEMMA EnterStartKeeps == ASSUME MlInv, NEW s \in Starters, EnterStart(s) PROVE MlInv'
<1> DEFINE late == Overdue(draft)
           swept == IF late = {} THEN draft ELSE Stale(WithStatus(draft, late, "TIMED_OUT"))
<1>1. /\ at[s] = "Begun" /\ worker' = Stopped(late)
      /\ UNCHANGED <<db, asked, call, kept, age, writer>>
  BY DEF EnterStart, files, lockVars
<1>2. \/ draft' = swept /\ Move(s, "Left") /\ last' = last
      \/ last < LastTask /\ draft' = NewTask(swept, last + 1, asked[s]) /\ last' = last + 1 /\ Move(s, "Entered")
  BY DEF EnterStart
<1>3. /\ swept \in RowsOfModels /\ swept.version = draft.version
      /\ \A t \in Tasks : /\ swept.task[t].type = draft.task[t].type
                          /\ swept.task[t].status = "SUCCEEDED" => draft.task[t].status = "SUCCEEDED"
                          /\ Exists(swept, t) => Exists(draft, t)
  BY DraftSwept
<1> HIDE DEF swept
<1>4. /\ worker' \in [Tasks -> Processes]
      /\ \A u \in Tasks : /\ worker'[u].py = worker[u].py
                          /\ worker[u] = NoWorker => worker'[u] = NoWorker
  BY <1>1, StopReaches DEF MlInv, MlTyped
<1>5. PICK place \in {"Left", "Entered"} : Move(s, place)
  BY <1>2
<1>6. /\ at' \in [Starters \cup Sweepers -> Places] /\ at'[s] = place
      /\ \A r \in Starters : r # s => at'[r] = at[r]
  BY <1>5, StarterMoves DEF Places
<1>7. \A r \in Starters : InDraft(r)' => r = s
  BY <1>1, <1>6, OneDraft DEF MlInv, InDraft
<1>8. writer = s /\ InDraft(s)
  BY <1>1 DEF MlInv, Drafted, InDraft
<1>9. ASSUME NEW u \in Tasks PROVE Registered(u)' /\ (Untouched(u) => Untouched(u)')
  <2>1. Registered(u)'
    BY <1>1, <1>4, OthersStay DEF MlInv, InPlace
  <2> QED
    BY <1>1, <1>4, <2>1 DEF Untouched
<1>10. last \in 0..LastTask /\ asked[s] \in Types /\ LastTask \in Nat
  BY MlTasksAssumption DEF MlInv, MlTyped, PlacesTyped
<1>11. CASE draft' = swept /\ last' = last
  <2>1. MlTyped'
    BY <1>1, <1>3, <1>4, <1>6, <1>11 DEF MlInv, MlTyped, PlacesTyped
  <2>2. at'[s] = "Left"
    <3>1. CASE place = "Entered"
      <4>1. ~Move(s, "Left")
        BY <1>6, <3>1, StarterMoves DEF Places
      <4> QED
        BY <1>2, <1>10, <1>11, <4>1
    <3> QED
      BY <1>6, <3>1
  <2>3. Drafted'
    BY <1>1, <1>3, <1>7, <1>8, <1>11, <2>2 DEF MlInv, Drafted, InDraft, Exists
  <2>4. NumberedOnce'
    <3>1. \A r \in Starters : at'[r] # "Entered"
      BY <1>7, <2>2 DEF InDraft
    <3> QED
      BY <1>1, <1>3, <1>9, <1>11, <3>1 DEF MlInv, NumberedOnce, Exists
  <2> QED
    BY <1>9, <2>1, <2>3, <2>4 DEF MlInv
<1>12. CASE last < LastTask /\ draft' = NewTask(swept, last + 1, asked[s]) /\ last' = last + 1
  <2>1. last + 1 \in Tasks /\ last' \in Tasks
    BY <1>10, <1>12 DEF Tasks
  <2>2. /\ draft' \in RowsOfModels /\ draft'.version = swept.version
        /\ \A t \in Tasks : draft'.task[t] =
             IF t = last' THEN [type |-> asked[s], status |-> "RUNNING"] ELSE swept.task[t]
    <3> DEFINE n == last + 1
    <3>1. n \in Tasks /\ last' = n /\ draft' = NewTask(swept, n, asked[s])
      BY <1>12, <2>1
    <3> HIDE DEF n
    <3>2. /\ NewTask(swept, n, asked[s]) \in RowsOfModels
          /\ NewTask(swept, n, asked[s]).version = swept.version
          /\ \A t \in Tasks : NewTask(swept, n, asked[s]).task[t] =
               IF t = n THEN [type |-> asked[s], status |-> "RUNNING"] ELSE swept.task[t]
      BY <1>3, <1>10, <3>1, TaskWritten
    <3> QED
      BY <3>1, <3>2
  <2>3. MlTyped'
    BY <1>1, <1>4, <1>6, <2>1, <2>2 DEF MlInv, MlTyped, PlacesTyped, Tasks
  <2>4. ~Exists(db, last') /\ worker'[last'] = NoWorker /\ call'[last'] = [ok \in BOOLEAN |-> NoCall]
    <3>1. last' > last
      BY <1>10, <1>12
    <3>2. ~Exists(db, last') /\ worker[last'] = NoWorker /\ call[last'] = [ok \in BOOLEAN |-> NoCall]
      BY <1>10, <2>1, <3>1 DEF MlInv, NumberedOnce, Untouched, Tasks
    <3> QED
      BY <1>1, <1>4, <2>1, <3>2
  <2>5. Drafted'
    <3>1. ASSUME NEW t \in Tasks
          PROVE  /\ Exists(db, t) => draft'.task[t].type = db.task[t].type
                 /\ draft'.task[t].status = "SUCCEEDED" => db.task[t].status = "SUCCEEDED"
      <4>1. CASE t = last'
        BY <2>2, <2>4, <4>1
      <4>2. CASE t # last'
        BY <1>3, <1>8, <2>2, <4>2 DEF MlInv, Drafted
      <4> QED
        BY <4>1, <4>2
    <3>2. draft'.version = db.version
      BY <1>3, <1>8, <2>2 DEF MlInv, Drafted
    <3>3. \A r \in Starters : InDraft(r)' => writer' = r
      BY <1>1, <1>7, <1>8
    <3>4. \A t \in Tasks : Exists(db, t)' <=> Exists(db, t)
      BY <1>1 DEF Exists
    <3> QED
      BY <1>1, <2>1, <2>4, <3>1, <3>2, <3>3, <3>4 DEF Drafted
  <2>6. NumberedOnce'
    <3>1. ASSUME NEW t \in Tasks, Exists(db, t)' \/ Exists(draft, t)' PROVE t <= last'
      <4>1. CASE t = last'
        BY <4>1, <2>1 DEF Tasks
      <4>2. CASE t # last'
        <5>1. Exists(db, t) \/ Exists(swept, t)
          BY <1>1, <2>2, <3>1, <4>2 DEF Exists
        <5>2. t <= last
          BY <1>3, <5>1 DEF MlInv, NumberedOnce
        <5> QED
          BY <1>10, <1>12, <5>2 DEF Tasks
      <4> QED
        BY <4>1, <4>2
    <3>2. \A t \in Tasks : t > last' => Untouched(t)'
      BY <1>9, <1>10, <1>12 DEF MlInv, NumberedOnce, Tasks
    <3> QED
      BY <2>4, <3>1, <3>2 DEF NumberedOnce, Untouched
  <2> QED
    BY <1>9, <2>3, <2>5, <2>6 DEF MlInv
<1> QED
  BY <1>2, <1>11, <1>12

LEMMA LaunchKeeps == ASSUME MlInv, NEW s \in Starters, Launch(s) PROVE MlInv'
<1>1. /\ at[s] = "Entered" /\ Move(s, "Left")
      /\ UNCHANGED <<db, last, asked, call, kept, age, writer>>
  BY DEF Launch, files
<1>2. /\ last \in Tasks /\ ~Exists(db, last) /\ Untouched(last) /\ InDraft(s) /\ writer = s
  BY <1>1 DEF MlInv, Drafted, NumberedOnce, InDraft
<1>3. /\ at' \in [Starters \cup Sweepers -> Places] /\ at'[s] = "Left"
      /\ \A r \in Starters : r # s => at'[r] = at[r]
  BY <1>1, StarterMoves DEF Places
<1>4. \A r \in Starters : InDraft(r)' => r = s
  BY <1>2, <1>3, OneDraft DEF MlInv, InDraft
<1>5. \A r \in Starters : at'[r] # "Entered"
  BY <1>3, <1>4 DEF InDraft
<1>6. \/ draft' = draft /\ worker' = Launched(last, IF asked[s] = "PREDICT" THEN Latest(draft) ELSE Baseline)
      \/ draft' = Stale(WithStatus(draft, {last}, "FAILED")) /\ worker' = worker
  BY DEF Launch
<1>7. /\ draft' \in RowsOfModels /\ draft'.version = draft.version
      /\ \A t \in Tasks : /\ draft'.task[t].type = draft.task[t].type
                          /\ draft'.task[t].status = "SUCCEEDED" => draft.task[t].status = "SUCCEEDED"
                          /\ t # last => draft'.task[t] = draft.task[t]
  <2>1. draft \in RowsOfModels /\ "FAILED" \in Statuses
    BY DEF MlInv, MlTyped, Statuses
  <2>2. CASE draft' = Stale(WithStatus(draft, {last}, "FAILED"))
    <3> DEFINE e == WithStatus(draft, {last}, "FAILED")
    <3>1. /\ e \in RowsOfModels /\ e.version = draft.version
          /\ e.task[last].type = draft.task[last].type /\ e.task[last].status = "FAILED"
          /\ \A t \in Tasks : t # last => e.task[t] = draft.task[t]
      BY <1>2, <2>1, VerdictWritten
    <3>2. draft' = Stale(e)
      BY <2>2
    <3> HIDE DEF e
    <3>3. draft' \in RowsOfModels /\ draft'.version = e.version /\ draft'.task = e.task
      BY <3>1, <3>2, StaleWritten
    <3>4. \A t \in Tasks : t = last \/ t # last
      OBVIOUS
    <3> QED
      BY <3>1, <3>3, <3>4
  <2>3. CASE draft' = draft
    BY <2>1, <2>3
  <2> QED
    BY <1>6, <2>2, <2>3
<1>8. /\ worker' \in [Tasks -> Processes]
      /\ \A t \in Tasks : t # last => worker'[t] = worker[t]
      /\ worker'[last].py \in {worker[last].py, "Begun"}
  <2>1. worker \in [Tasks -> Processes]
    BY DEF MlInv, MlTyped
  <2>2. ASSUME NEW model \in 0..LastTask, worker' = Launched(last, model)
        PROVE  /\ worker' \in [Tasks -> Processes] /\ worker'[last].py = "Begun"
               /\ \A t \in Tasks : t # last => worker'[t] = worker[t]
    <3> DEFINE w == [py |-> "Begun", watch |-> "Watching", model |-> model, stop |-> FALSE, token |-> TRUE]
    <3>1. w \in Processes /\ w.py = "Begun"
      BY DEF Processes, Moments, Before
    <3>2. worker' = [worker EXCEPT ![last] = w]
      BY <2>2, Zenon DEF Launched
    <3> HIDE DEF w
    <3> QED
      BY <1>2, <2>1, <3>1, <3>2
  <2>3. Baseline \in 0..LastTask /\ Latest(draft) \in 0..LastTask
    BY LatestIsOne, MlTasksAssumption DEF Baseline
  <2> QED
    BY <1>6, <2>1, <2>2, <2>3
<1>9. MlTyped'
  BY <1>1, <1>3, <1>7, <1>8 DEF MlInv, MlTyped, PlacesTyped
<1>10. Drafted'
  <2>1. /\ draft'.version = db.version
        /\ \A t \in Tasks : /\ Exists(db, t) => draft'.task[t].type = db.task[t].type
                            /\ draft'.task[t].status = "SUCCEEDED" => db.task[t].status = "SUCCEEDED"
    BY <1>2, <1>7 DEF MlInv, Drafted
  <2> QED
    BY <1>1, <1>2, <1>4, <1>5, <2>1 DEF Drafted, Exists
<1>11. NumberedOnce'
  <2>1. ASSUME NEW t \in Tasks, Exists(db, t)' \/ Exists(draft, t)' PROVE t <= last'
    <3>1. CASE t = last
      BY <1>1, <1>2, <3>1 DEF Tasks
    <3>2. CASE t # last
      <4>1. Exists(db, t) \/ Exists(draft, t)
        BY <1>1, <1>7, <2>1, <3>2 DEF Exists
      <4> QED
        BY <1>1, <4>1 DEF MlInv, NumberedOnce
    <3> QED
      BY <3>1, <3>2
  <2>2. ASSUME NEW t \in Tasks, t > last' PROVE Untouched(t)'
    <3>1. t # last
      BY <1>1, <1>2, <2>2 DEF Tasks
    <3> QED
      BY <1>1, <1>8, <2>2, <3>1 DEF MlInv, NumberedOnce, Untouched
  <2> QED
    BY <1>5, <2>1, <2>2 DEF NumberedOnce
<1>12. ASSUME NEW u \in Tasks PROVE Registered(u)'
  <2>1. CASE u # last
    BY <1>1, <1>8, <2>1, OthersStay DEF MlInv, InPlace
  <2>2. CASE u = last
    <3>1. call[u][TRUE].stage = "None"
      <4>1. call[u] = [ok \in BOOLEAN |-> NoCall] /\ TRUE \in BOOLEAN
        BY <1>2, <2>2 DEF Untouched
      <4>2. call[u][TRUE] = NoCall
        BY <4>1, Zenon
      <4> QED
        BY <4>2 DEF NoCall
    <3>2. db.task[u].status # "SUCCEEDED"
      BY <1>2, <2>2 DEF Exists, NoTask
    <3>3. worker'[u].py # "Checked"
      BY <1>2, <1>8, <2>2 DEF Untouched, NoWorker
    <3> QED
      BY <1>1, <3>1, <3>2, <3>3 DEF MlInv, Registered, Succeeded
  <2> QED
    BY <2>1, <2>2
<1> QED
  BY <1>9, <1>10, <1>11, <1>12 DEF MlInv

LEMMA EndStartKeeps == ASSUME MlInv, NEW s \in Starters, EndStart(s) PROVE MlInv'
<1>1. /\ at[s] = "Left" /\ draft' = Empty /\ Move(s, "Done")
      /\ db' = draft \/ db' = db
      /\ UNCHANGED <<last, asked, worker, call, kept, age>>
  BY DEF EndStart, files
<1>2. /\ at' \in [Starters \cup Sweepers -> Places] /\ at'[s] = "Done"
      /\ \A r \in Starters : r # s => at'[r] = at[r]
  BY <1>1, StarterMoves DEF Places
<1>3. \A r \in Starters : ~InDraft(r)'
  BY <1>1, <1>2, OneDraft DEF MlInv, InDraft
<1>4. /\ db' \in RowsOfModels /\ db'.version = db.version
      /\ \A t \in Tasks : /\ Exists(db, t) => db'.task[t].type = db.task[t].type
                          /\ db'.task[t].status = "SUCCEEDED" => db.task[t].status = "SUCCEEDED"
                          /\ Exists(db', t) => t <= last
  BY <1>1 DEF MlInv, MlTyped, Drafted, InDraft, NumberedOnce
<1>5. MlTyped'
  BY <1>1, <1>2, <1>4, Emptied DEF MlInv, MlTyped, PlacesTyped
<1>6. Drafted'
  BY <1>3 DEF Drafted, InDraft
<1>7. NumberedOnce'
  BY <1>1, <1>3, <1>4, Emptied DEF MlInv, NumberedOnce, Untouched, InDraft, Exists
<1>8. ASSUME NEW u \in Tasks PROVE Registered(u)'
  <2>1. db.task[u].type = "TRAIN" => Exists(db, u)
    BY DEF Exists, NoTask
  <2> QED
    BY <1>1, <1>4, <2>1 DEF MlInv, Registered, Succeeded, InPlace
<1> QED
  BY <1>5, <1>6, <1>7, <1>8 DEF MlInv

-----------------------------------------------------------------------------
\* The end of the server, and the steps together.
LEMMA RestartKeeps ==
    ASSUME MlInv, NEW d \in RowsOfModels, d.version = db.version, MlRestart(d),
           \A t \in Tasks : /\ d.task[t].type = db.task[t].type
                            /\ d.task[t].status = "SUCCEEDED" => db.task[t].status = "SUCCEEDED"
                            /\ Exists(d, t) => Exists(db, t)
    PROVE  MlInv'
<1>1. /\ db' = d /\ draft' = Empty /\ UNCHANGED <<last, asked, kept, age>>
      /\ at' = [c \in DOMAIN at |-> IF at[c] = "Idle" \/ c \in Sweepers THEN "Idle" ELSE "Done"]
      /\ worker' = [t \in Tasks |-> NoWorker]
      /\ call' = [t \in Tasks |-> [ok \in BOOLEAN |-> NoCall]]
  BY DEF MlRestart
<1>2. NoWorker \in Processes /\ NoWorker.py = "None"
  BY MlTasksAssumption DEF NoWorker, Processes, Moments, Before, Baseline
<1>3. NoCall \in Reports /\ NoCall.stage = "None"
  BY DEF NoCall, Reports, Stages
<1>4. worker' \in [Tasks -> Processes] /\ \A t \in Tasks : worker'[t] = NoWorker
  BY <1>1, <1>2
<1>5. /\ call' \in [Tasks -> [BOOLEAN -> Reports]]
      /\ \A t \in Tasks : call'[t] = [ok \in BOOLEAN |-> NoCall] /\ call'[t][TRUE] = NoCall
  BY <1>1, <1>3
<1>6. /\ at' \in [Starters \cup Sweepers -> Places]
      /\ \A c \in Starters \cup Sweepers : at'[c] \in {"Idle", "Done"}
  <2>1. DOMAIN at = Starters \cup Sweepers
    BY DEF MlInv, MlTyped, PlacesTyped
  <2> QED
    BY <1>1, <2>1 DEF Places
<1>7. MlTyped'
  BY <1>1, <1>4, <1>5, <1>6, Emptied DEF MlInv, MlTyped, PlacesTyped
<1>8. Drafted'
  BY <1>6 DEF Drafted, InDraft
<1>9. NumberedOnce'
  <2>1. ASSUME NEW t \in Tasks, Exists(db, t)' \/ Exists(draft, t)' PROVE t <= last'
    <3>1. Exists(d, t)
      BY <1>1, <2>1, Emptied DEF Exists
    <3> QED
      BY <1>1, <3>1 DEF MlInv, NumberedOnce
  <2>2. \A t \in Tasks : Untouched(t)'
    BY <1>4, <1>5 DEF Untouched
  <2> QED
    BY <1>6, <2>1, <2>2 DEF NumberedOnce
<1>10. ASSUME NEW u \in Tasks PROVE Registered(u)'
  <2>1. worker'[u].py = "None" /\ call'[u][TRUE].stage = "None"
    BY <1>2, <1>3, <1>4, <1>5
  <2> QED
    BY <1>1, <2>1 DEF MlInv, Registered, Succeeded, InPlace, Before
<1> QED
  BY <1>7, <1>8, <1>9, <1>10 DEF MlInv

LEMMA CrashKeeps == ASSUME MlInv, Crash PROVE MlInv'
<1>1. MlRestart(db) /\ db \in RowsOfModels
  BY DEF Crash, MlInv, MlTyped
<1> QED
  BY <1>1, RestartKeeps

LEMMA ShutDownKeeps == ASSUME MlInv, ShutDown PROVE MlInv'
<1> DEFINE e == WithStatus(db, Abandoned, "FAILED")
<1>1. MlRestart(IF Abandoned = {} THEN db ELSE Stale(e))
  BY DEF ShutDown, MlShutDown
<1>2. db \in RowsOfModels /\ "FAILED" \in Statuses
  BY DEF MlInv, MlTyped, Statuses
<1>3. CASE Abandoned = {}
  BY <1>1, <1>2, <1>3, RestartKeeps
<1>4. CASE Abandoned # {}
  <2>1. /\ e \in RowsOfModels /\ e.version = db.version
        /\ \A t \in Tasks : e.task[t] =
             [type |-> db.task[t].type, status |-> IF t \in Abandoned THEN "FAILED" ELSE db.task[t].status]
    BY <1>2, StatusWritten
  <2>2. \A t \in Tasks : db.task[t] = [type |-> db.task[t].type, status |-> db.task[t].status]
    BY <1>2 DEF RowsOfModels
  <2>3. \A t \in Abandoned : Exists(db, t)
    BY DEF Abandoned, Active, Exists, NoTask
  <2> DEFINE d == Stale(e)
  <2>4. MlRestart(d)
    BY <1>1, <1>4
  <2> HIDE DEF e
  <2>5. d \in RowsOfModels /\ d.version = db.version /\ d.task = e.task
    BY <2>1, StaleWritten
  <2> HIDE DEF d
  <2>6. ASSUME NEW t \in Tasks
        PROVE  /\ d.task[t].type = db.task[t].type
               /\ d.task[t].status = "SUCCEEDED" => db.task[t].status = "SUCCEEDED"
               /\ Exists(d, t) => Exists(db, t)
    <3>1. CASE t \in Abandoned
      <4>1. d.task[t] = [type |-> db.task[t].type, status |-> "FAILED"]
        BY <2>1, <2>5, <3>1
      <4> QED
        BY <2>3, <3>1, <4>1
    <3>2. CASE t \notin Abandoned
      BY <2>1, <2>2, <2>5, <3>2 DEF Exists
    <3> QED
      BY <3>1, <3>2
  <2> QED
    BY <2>4, <2>5, <2>6, RestartKeeps
<1> QED
  BY <1>3, <1>4

LEMMA MlKeeps == ASSUME MlInv, Ml PROVE MlInv'
<1>1. ASSUME NEW s \in Starters, Starting(s) \/ GoesOn(s) PROVE MlInv'
  BY <1>1, BeginStartKeeps, EnterStartKeeps, LaunchKeeps, EndStartKeeps DEF Starting, GoesOn
<1>2. ASSUME NEW m \in Sweepers, Sweeping(m) PROVE MlInv'
  BY <1>2, SweepKeeps, SweepTaskKeeps DEF Sweeping
<1>3. ASSUME NEW t \in Tasks, Speaking(t) PROVE MlInv'
  BY <1>3, FetchKeeps, TrainKeeps, CheckKeeps, ExitKeeps, RegisterKeeps, PredictKeeps, ReportKeeps
     DEF Speaking, OfTask
<1>4. ASSUME NEW t \in Tasks, Watching(t) \/ MarkFailed(t) \/ Older(t) PROVE MlInv'
  BY <1>4, EndedKeeps, ConcludeKeeps, OlderKeeps, RequestKeeps DEF Watching
<1>5. ASSUME NEW t \in Tasks, NEW ok \in BOOLEAN, Answering(t, ok) PROVE MlInv'
  BY <1>5, FinalizeKeeps, DecideKeeps, RequestKeeps DEF Answering
<1>6. CASE Retaining
  BY <1>6, RetentionKeeps, OlderKeeps DEF Retaining
<1> QED
  BY <1>1, <1>2, <1>3, <1>4, <1>5, <1>6 DEF Ml

\* A backup leaves the lock to the start that holds it.
LEMMA BackingLeaves ==
    ASSUME MlInv, \/ UNCHANGED vars
                  \/ Backing /\ \A s \in Starters : writer = s => writer' = s
    PROVE  MlInv'
<1>1. UNCHANGED mlVars /\ \A s \in Starters : writer = s => writer' = s
  BY DEF Backing, vars, lockVars
<1>2. MlTyped'
  BY <1>1 DEF mlVars, MlInv, MlTyped, PlacesTyped, files
<1>3. Drafted'
  BY <1>1 DEF mlVars, MlInv, Drafted, InDraft, Exists
<1>4. NumberedOnce'
  BY <1>1 DEF mlVars, MlInv, NumberedOnce, Untouched, Exists
<1>5. ASSUME NEW t \in Tasks PROVE Registered(t)'
  BY <1>1 DEF mlVars, MlInv, Registered, Succeeded, InPlace, files
<1> QED
  BY <1>2, <1>3, <1>4, <1>5 DEF MlInv

LEMMA MlBegins == ASSUME Init PROVE MlInv
<1>1. PICK s \in Scenes : MlInit(s.wants)
  BY DEF Init
<1>2. /\ db = Empty /\ draft = Empty /\ last = 0 /\ asked \in [Starters -> Types]
      /\ at = [c \in Starters \cup Sweepers |-> "Idle"]
      /\ worker = [t \in Tasks |-> NoWorker]
      /\ call = [t \in Tasks |-> [ok \in BOOLEAN |-> NoCall]]
      /\ age = [t \in Tasks |-> 0]
  BY <1>1, OperationsAssumption DEF MlInit, Types
<1>3. NoWorker \in Processes /\ NoWorker.py = "None"
  BY MlTasksAssumption DEF NoWorker, Processes, Moments, Before, Baseline
<1>4. NoCall \in Reports /\ NoCall.stage = "None"
  BY DEF NoCall, Reports, Stages
<1>5. worker \in [Tasks -> Processes] /\ \A t \in Tasks : worker[t] = NoWorker
  BY <1>2, <1>3
<1>6. /\ call \in [Tasks -> [BOOLEAN -> Reports]]
      /\ \A t \in Tasks : call[t] = [ok \in BOOLEAN |-> NoCall] /\ call[t][TRUE] = NoCall
  BY <1>2, <1>4
<1>7. MlTyped
  BY <1>2, <1>5, <1>6, Emptied, MlTasksAssumption DEF MlTyped, PlacesTyped, Places
<1>8. Drafted
  BY <1>2 DEF Drafted, InDraft
<1>9. NumberedOnce
  BY <1>2, <1>5, <1>6, Emptied DEF NumberedOnce, Untouched
<1>10. ASSUME NEW t \in Tasks PROVE Registered(t)
  <2>1. worker[t].py = "None" /\ call[t][TRUE].stage = "None"
    BY <1>3, <1>4, <1>5, <1>6
  <2> QED
    BY <1>2, <2>1, Emptied DEF Registered, Succeeded, InPlace, Before
<1> QED
  BY <1>7, <1>8, <1>9, <1>10 DEF MlInv

-----------------------------------------------------------------------------
\* Backups.  What their rows, the open transaction and a prune hold.
BackupRows ==
    [status: {"None", "SUCCEEDED", "FAILED"}, verified: {"None", "SUCCEEDED", "FAILED"}, day: Nat]

BackupsTyped ==
    /\ rows \in [Numbers -> BackupRows] /\ made \in BackupRows
    /\ request \in [Owners -> {"Idle", "Begun", "Copied", "Done"}]
    /\ numbered \in 0..LastBackup /\ today \in Nat
    /\ doomed \in [list: SUBSET Numbers, unlinked: BOOLEAN]

\* A number has no row until the transaction ends that holds the lock for it,
\* and the file that its row will promise is there.
InRequest(o) == request[o] \in {"Begun", "Copied"}
Making ==
    /\ \A b \in Recorded : b <= numbered
    /\ \A o \in Owners : InRequest(o) =>
         /\ writer = o /\ numbered \in Numbers /\ numbered \notin Recorded
         /\ request[o] = "Copied" /\ made.status = "SUCCEEDED" => numbered \in stored

\* What was read to be removed is still not to be kept, and whose file is gone
\* is on the list.
Dooming ==
    /\ doomed.list \subseteq Unkept
    /\ doomed.unlinked => doomed.list # {}

CopiesStored == \A b \in Kept : rows[b].status = "SUCCEEDED" => b \in stored

BackupsInv == BackupsTyped /\ Making /\ Dooming /\ CopiesStored

\* The newest of its period among the copies S, and not too many periods later.
Later(period, S, b) == {period[c] : c \in {c \in S : c > b}}
Leads(period, limit, S, b) ==
    period[b] \notin Later(period, S, b) /\ Cardinality(Later(period, S, b)) < limit

LEMMA LaterIsFinite ==
    ASSUME NEW S \in SUBSET Numbers, NEW period, NEW b PROVE IsFiniteSet(Later(period, S, b))
<1> DEFINE T == {c \in S : c > b}
           f == [c \in T |-> period[c]]
<1>1. IsFiniteSet(T)
  <2>1. 1 \in Int /\ LastBackup \in Int
    BY BackupsAssumption
  <2>2. IsFiniteSet(1..LastBackup)
    BY <2>1, FS_Interval
  <2>3. T \in SUBSET (1..LastBackup)
    BY DEF Numbers
  <2> HIDE DEF T
  <2> QED
    BY <2>2, <2>3, FS_Subset
<1>2. f \in Surjection(T, Later(period, S, b))
  BY DEF Later, Surjection
<1> HIDE DEF T, f
<1> QED
  BY <1>1, <1>2, FS_Surjection

\* A newer copy takes the lead from nobody but older ones ...
LEMMA NewerLeads ==
    ASSUME NEW S \in SUBSET Numbers, NEW R \in SUBSET S, NEW period, NEW limit \in Nat, NEW b,
           Leads(period, limit, S, b)
    PROVE  Leads(period, limit, R, b)
<1>1. Later(period, R, b) \subseteq Later(period, S, b)
  BY DEF Later
<1>2. IsFiniteSet(Later(period, S, b)) /\ IsFiniteSet(Later(period, R, b))
  BY LaterIsFinite
<1>3. Cardinality(Later(period, R, b)) <= Cardinality(Later(period, S, b))
  BY <1>1, <1>2, FS_Subset
<1>4. Cardinality(Later(period, R, b)) \in Nat /\ Cardinality(Later(period, S, b)) \in Nat
  BY <1>2, FS_CardinalityType
<1> QED
  BY <1>1, <1>3, <1>4 DEF Leads

\* ... and one that does not lead and goes leaves the lead to nobody.
LEMMA GoneLeads ==
    ASSUME NEW S \in SUBSET Numbers, NEW d \in S, NEW period, NEW limit \in Nat, NEW b \in Numbers,
           ~Leads(period, limit, S, d), Leads(period, limit, S \ {d}, b)
    PROVE  Leads(period, limit, S, b)
<1> DEFINE R == S \ {d}
<1>1. S \subseteq Nat /\ b \in Nat /\ d \in Nat
  BY BackupsAssumption DEF Numbers
<1>2. CASE ~(d > b)
  <2>1. Later(period, R, b) = Later(period, S, b)
    BY <1>2 DEF Later
  <2> QED
    BY <2>1 DEF Leads
<1>3. CASE d > b
  <2>1. CASE period[d] \in Later(period, S, d)
    <3>1. PICK c \in S : c > d /\ period[c] = period[d]
      BY <2>1 DEF Later
    <3>2. c \in R /\ c > b
      BY <1>1, <1>3, <3>1
    <3>3. Later(period, R, b) = Later(period, S, b)
      BY <3>1, <3>2 DEF Later
    <3> QED
      BY <3>3 DEF Leads
  <2>2. CASE ~(Cardinality(Later(period, S, d)) < limit)
    <3>1. Later(period, S, d) \subseteq Later(period, R, b)
      <4>1. \A c \in S : c > d => c \in R /\ c > b
        BY <1>1, <1>3
      <4> QED
        BY <4>1 DEF Later
    <3>2. R \in SUBSET Numbers
      OBVIOUS
    <3> HIDE DEF R
    <3>3. IsFiniteSet(Later(period, S, d)) /\ IsFiniteSet(Later(period, R, b))
      BY <3>2, LaterIsFinite
    <3>4. Cardinality(Later(period, S, d)) <= Cardinality(Later(period, R, b))
      BY <3>1, <3>3, FS_Subset
    <3>5. Cardinality(Later(period, S, d)) \in Nat /\ Cardinality(Later(period, R, b)) \in Nat
      BY <3>3, FS_CardinalityType
    <3>6. Cardinality(Later(period, R, b)) < limit
      BY DEF Leads, R
    <3> QED
      BY <2>2, <3>4, <3>5, <3>6
  <2> QED
    BY <2>1, <2>2 DEF Leads
<1> QED
  BY <1>2, <1>3

\* Who leads depends on the periods of the copies and its own.
LEMMA SamePeriods ==
    ASSUME NEW S, NEW p, NEW q, NEW limit, NEW b, p[b] = q[b], \A c \in S : p[c] = q[c]
    PROVE  Leads(p, limit, S, b) <=> Leads(q, limit, S, b)
<1>1. Later(p, S, b) = Later(q, S, b)
  BY DEF Later
<1> QED
  BY <1>1 DEF Leads

LEMMA KeptLeads ==
    ASSUME NEW b \in Numbers
    PROVE  KeepCopy(b) <=> /\ b \in Copies
                           /\ \/ Leads(DayOf, DaysKept, Copies, b)
                              \/ Leads(WeekOf, WeeksKept, Copies, b)
BY DEF KeepCopy, NewestOf, Since, Newer, Leads, Later, Copies

LEMMA KeptWillLead ==
    ASSUME NEW b \in Numbers
    PROVE  KeepCopy(b)' <=> /\ b \in Copies'
                            /\ \/ Leads(DayOf', DaysKept, Copies', b)
                               \/ Leads(WeekOf', WeeksKept, Copies', b)
BY DEF KeepCopy, NewestOf, Since, Newer, Leads, Later, Copies

\* What is not kept is not kept later, unless it is written anew: when copies
\* are added, when one that is not kept goes, and when days pass.
LEMMA UnkeptStays ==
    ASSUME BackupsTyped, BackupsTyped', today <= today',
           \A c \in Numbers : c \in Copies \cap Copies' => rows'[c].day = rows[c].day,
           \/ Copies \subseteq Copies'
           \/ \E d \in Copies : d \notin Kept /\ Copies' = Copies \ {d},
           NEW b \in Recorded, rows'[b].status = rows[b].status, rows'[b].day = rows[b].day, b \in Kept'
    PROVE  b \in Kept
<1>1. /\ b \in Numbers /\ Copies \subseteq Numbers /\ Copies' \subseteq Numbers
      /\ DaysKept \in Nat /\ WeeksKept \in Nat /\ DaysInWeek \in Nat
  BY BackupsAssumption DEF Recorded, Copies
<1>2. KeepCopy(b)' \/ KeepFailed(b)'
  BY DEF Kept
<1>3. CASE KeepFailed(b)'
  <2>1. rows[b].status = "FAILED" /\ rows[b].day + DaysInWeek >= today'
    BY <1>3 DEF KeepFailed
  <2>2. rows[b].day \in Nat /\ today \in Nat /\ today' \in Nat
    BY <1>1 DEF BackupsTyped, BackupRows
  <2>3. rows[b].day + DaysInWeek >= today
    BY <1>1, <2>1, <2>2
  <2> QED
    BY <2>1, <2>3 DEF Kept, KeepFailed
<1>4. CASE KeepCopy(b)'
  <2>1. b \in Copies' /\ b \in Copies
    BY <1>1, <1>4, KeptWillLead DEF Copies
  <2>2. \A c \in Copies \cap Copies' : DayOf'[c] = DayOf[c] /\ WeekOf'[c] = WeekOf[c]
    BY <1>1 DEF DayOf, WeekOf, Week
  <2>3. ASSUME NEW p, NEW q, NEW limit \in Nat, \A c \in Copies \cap Copies' : q[c] = p[c],
               Leads(q, limit, Copies', b),
               \A d \in Copies : d \notin Kept => ~Leads(p, limit, Copies, d)
        PROVE  Leads(p, limit, Copies, b)
    <3>1. CASE Copies \subseteq Copies'
      <4>1. Leads(q, limit, Copies, b)
        BY <1>1, <2>3, <3>1, NewerLeads
      <4>2. q[b] = p[b] /\ \A c \in Copies : q[c] = p[c]
        BY <2>1, <2>3, <3>1
      <4> QED
        BY <4>1, <4>2, SamePeriods
    <3>2. ASSUME NEW d \in Copies, d \notin Kept, Copies' = Copies \ {d} PROVE Leads(p, limit, Copies, b)
      <4>1. q[b] = p[b] /\ \A c \in Copies \ {d} : q[c] = p[c]
        BY <2>1, <2>3, <3>2
      <4>2. Leads(q, limit, Copies \ {d}, b)
        BY <2>3, <3>2
      <4>3. Leads(p, limit, Copies \ {d}, b)
        BY <4>1, <4>2, SamePeriods
      <4> QED
        BY <1>1, <2>3, <3>2, <4>3, GoneLeads
    <3> QED
      BY <3>1, <3>2
  <2>4. \A d \in Copies : d \notin Kept => /\ ~Leads(DayOf, DaysKept, Copies, d)
                                           /\ ~Leads(WeekOf, WeeksKept, Copies, d)
    <3>1. \A d \in Copies : d \in Recorded
      BY DEF Copies, Recorded, NoRow
    <3> QED
      BY <1>1, <3>1, KeptLeads DEF Kept
  <2>5. CASE Leads(DayOf', DaysKept, Copies', b)
    <3>1. Leads(DayOf, DaysKept, Copies, b)
      BY <1>1, <2>2, <2>3, <2>4, <2>5
    <3> QED
      BY <1>1, <2>1, <3>1, KeptLeads DEF Kept
  <2>6. CASE Leads(WeekOf', WeeksKept, Copies', b)
    <3>1. Leads(WeekOf, WeeksKept, Copies, b)
      BY <1>1, <2>2, <2>3, <2>4, <2>6
    <3> QED
      BY <1>1, <2>1, <3>1, KeptLeads DEF Kept
  <2> QED
    BY <1>1, <1>4, <2>5, <2>6, KeptWillLead
<1> QED
  BY <1>2, <1>3, <1>4

\* A step that leaves the rows alone.
LEMMA RowsStay ==
    ASSUME BackupsInv, BackupsTyped', UNCHANGED rows, today <= today',
           doomed'.list \subseteq doomed.list, doomed'.unlinked => doomed'.list # {},
           \A b \in Kept : b \in stored => b \in stored'
    PROVE  /\ Recorded' = Recorded /\ Kept' \subseteq Kept
           /\ Dooming' /\ CopiesStored'
<1>1. Recorded' = Recorded /\ Copies' = Copies
  BY DEF Recorded, Copies
<1>2. Kept' \subseteq Kept
  <2> SUFFICES ASSUME NEW b \in Kept' PROVE b \in Kept
    OBVIOUS
  <2>1. b \in Recorded
    BY <1>1 DEF Kept
  <2> QED
    BY <1>1, <2>1, UnkeptStays DEF BackupsInv
<1>3. Dooming'
  BY <1>1, <1>2 DEF BackupsInv, Dooming, Unkept
<1>4. CopiesStored'
  BY <1>2 DEF BackupsInv, CopiesStored
<1> QED
  BY <1>1, <1>2, <1>3, <1>4

\* The requests.
LEMMA OneRequest ==
    ASSUME Making, NEW o \in Owners, InRequest(o), NEW p \in Owners, p # o PROVE ~InRequest(p)
BY DEF Making

LEMMA NobodyAsks == ASSUME Making, writer = None, NEW o \in Owners PROVE ~InRequest(o)
BY OperationsAssumption DEF Making

LEMMA BeginBackupKeeps == ASSUME BackupsInv, NEW o \in Owners, BeginBackup(o) PROVE BackupsInv'
<1>1. /\ numbered < LastBackup /\ numbered' = numbered + 1 /\ writer = None /\ writer' = o
      /\ request' = [request EXCEPT ![o] = "Begun"]
      /\ UNCHANGED <<rows, stored, made, today, doomed>>
  BY DEF BeginBackup, BeginImmediate
<1>2. numbered \in 0..LastBackup /\ LastBackup \in Nat /\ today \in Nat
  BY BackupsAssumption DEF BackupsInv, BackupsTyped
<1>3. numbered' \in 0..LastBackup /\ numbered' \in Numbers
  BY <1>1, <1>2 DEF Numbers
<1>4. BackupsTyped'
  BY <1>1, <1>3 DEF BackupsInv, BackupsTyped
<1>5. Recorded' = Recorded /\ Dooming' /\ CopiesStored'
  BY <1>1, <1>2, <1>4, RowsStay DEF BackupsInv, Dooming
<1>6. Making'
  <2>1. \A b \in Recorded' : b <= numbered' /\ b # numbered'
    BY <1>1, <1>2, <1>5 DEF BackupsInv, Making, Recorded, Numbers
  <2>2. request'[o] = "Begun" /\ \A p \in Owners : p # o => request'[p] = request[p]
    BY <1>1 DEF BackupsInv, BackupsTyped
  <2>3. \A p \in Owners : InRequest(p)' => p = o
    BY <1>1, <2>2, NobodyAsks DEF BackupsInv, InRequest
  <2> QED
    BY <1>1, <1>3, <2>1, <2>2, <2>3 DEF Making
<1> QED
  BY <1>4, <1>5, <1>6 DEF BackupsInv

LEMMA SnapshotKeeps == ASSUME BackupsInv, NEW o \in Owners, Snapshot(o) PROVE BackupsInv'
<1>1. /\ request[o] = "Begun" /\ request' = [request EXCEPT ![o] = "Copied"]
      /\ UNCHANGED <<rows, numbered, today, doomed, writer>>
  BY DEF Snapshot
<1>2. \/ stored' = stored \cup {numbered} /\ made' = [status |-> "SUCCEEDED", verified |-> "None", day |-> today]
      \/ stored' = stored /\ made' = [status |-> "FAILED", verified |-> "None", day |-> today]
  BY DEF Snapshot
<1>3. today \in Nat /\ request' \in [Owners -> {"Idle", "Begun", "Copied", "Done"}]
  BY <1>1 DEF BackupsInv, BackupsTyped
<1>4. made' \in BackupRows /\ (made'.status = "SUCCEEDED" => numbered \in stored')
  BY <1>2, <1>3 DEF BackupRows
<1>5. BackupsTyped'
  BY <1>1, <1>3, <1>4 DEF BackupsInv, BackupsTyped
<1>6. Recorded' = Recorded /\ Dooming' /\ CopiesStored'
  BY <1>1, <1>2, <1>3, <1>5, RowsStay DEF BackupsInv, Dooming
<1>7. Making'
  <2>1. InRequest(o) /\ \A p \in Owners : p # o => request'[p] = request[p]
    BY <1>1 DEF InRequest, BackupsInv, BackupsTyped
  <2>2. \A p \in Owners : InRequest(p)' => p = o
    BY <2>1, OneRequest DEF BackupsInv, InRequest
  <2> QED
    BY <1>1, <1>4, <1>6, <2>1, <2>2 DEF BackupsInv, Making
<1> QED
  BY <1>5, <1>6, <1>7 DEF BackupsInv

LEMMA EndBackupKeeps == ASSUME BackupsInv, NEW o \in Owners, EndBackup(o) PROVE BackupsInv'
<1>1. /\ request[o] = "Copied" /\ made' = NoRow /\ request' = [request EXCEPT ![o] = "Done"]
      /\ rows' = [rows EXCEPT ![numbered] = made] \/ rows' = rows
      /\ UNCHANGED <<stored, numbered, today, doomed>>
  BY DEF EndBackup
<1>2. /\ today \in Nat /\ request' \in [Owners -> {"Idle", "Begun", "Copied", "Done"}]
      /\ rows \in [Numbers -> BackupRows] /\ made \in BackupRows /\ made' \in BackupRows
  BY <1>1 DEF BackupsInv, BackupsTyped, NoRow, BackupRows
<1>3. InRequest(o) /\ numbered \in Numbers /\ numbered \notin Recorded
  BY <1>1 DEF InRequest, BackupsInv, Making
<1>4. BackupsTyped'
  BY <1>1, <1>2, <1>3 DEF BackupsInv, BackupsTyped
<1>5. \A p \in Owners : ~InRequest(p)'
  <2>1. request'[o] = "Done" /\ \A p \in Owners : p # o => request'[p] = request[p]
    BY <1>1 DEF BackupsInv, BackupsTyped
  <2> QED
    BY <1>3, <2>1, OneRequest DEF BackupsInv, InRequest
<1>6. CASE rows' = rows
  <2>1. Recorded' = Recorded /\ Dooming' /\ CopiesStored'
    BY <1>1, <1>2, <1>4, <1>6, RowsStay DEF BackupsInv, Dooming
  <2>2. Making'
    BY <1>1, <1>5, <2>1 DEF BackupsInv, Making
  <2> QED
    BY <1>4, <2>1, <2>2 DEF BackupsInv
<1>7. CASE rows' = [rows EXCEPT ![numbered] = made]
  <2>1. rows'[numbered] = made /\ \A b \in Numbers : b # numbered => rows'[b] = rows[b]
    BY <1>2, <1>3, <1>7
  <2>2. /\ \A b \in Recorded : b # numbered /\ b \in Recorded' /\ rows'[b] = rows[b]
        /\ \A b \in Recorded' : b \in Recorded \/ b = numbered
    BY <1>3, <2>1 DEF Recorded
  <2>3. /\ Copies \subseteq Copies'
        /\ \A c \in Numbers : c \in Copies \cap Copies' => rows'[c].day = rows[c].day
    <3>1. Copies \subseteq Recorded
      BY DEF Copies, Recorded, NoRow
    <3> QED
      BY <2>2, <3>1 DEF Copies
  <2>4. \A b \in Kept' : b \in Kept \/ b = numbered
    <3> SUFFICES ASSUME NEW b \in Kept', b # numbered PROVE b \in Kept
      OBVIOUS
    <3>1. b \in Recorded
      BY <2>2 DEF Kept
    <3> QED
      BY <1>1, <1>2, <1>4, <2>2, <2>3, <3>1, UnkeptStays DEF BackupsInv
  <2>5. Making'
    <3>1. \A b \in Recorded' : b <= numbered
      BY <1>3, <2>2 DEF BackupsInv, Making, Numbers
    <3> QED
      BY <1>1, <1>5, <3>1 DEF Making
  <2>6. Dooming'
    BY <1>1, <2>2, <2>4 DEF BackupsInv, Dooming, Unkept
  <2>7. CopiesStored'
    <3> SUFFICES ASSUME NEW b \in Kept', rows'[b].status = "SUCCEEDED" PROVE b \in stored'
      BY DEF CopiesStored
    <3>1. CASE b = numbered
      BY <1>1, <2>1, <1>3, <3>1 DEF BackupsInv, Making
    <3>2. CASE b # numbered
      <4>1. b \in Kept /\ b \in Numbers
        BY <2>4, <3>2 DEF Kept, Recorded
      <4> QED
        BY <1>1, <2>1, <3>2, <4>1 DEF BackupsInv, CopiesStored
    <3> QED
      BY <3>1, <3>2
  <2> QED
    BY <1>4, <2>5, <2>6, <2>7 DEF BackupsInv
<1> QED
  BY <1>1, <1>6, <1>7

\* Verification writes neither the status nor the day.
LEMMA VerifyKeeps == ASSUME BackupsInv, NEW b \in Numbers, VerifyBackup(b) PROVE BackupsInv'
<1>1. /\ rows[b] # NoRow
      /\ rows' = [rows EXCEPT ![b] = [rows[b] EXCEPT !.verified = IF Valid(b) THEN "SUCCEEDED" ELSE "FAILED"]]
      /\ UNCHANGED <<stored, request, made, numbered, today, doomed, writer>>
  BY DEF VerifyBackup, Statement, lockVars
<1>2. rows \in [Numbers -> BackupRows] /\ today \in Nat
  BY DEF BackupsInv, BackupsTyped
<1>3. PICK r \in BackupRows :
        rows' = [rows EXCEPT ![b] = r] /\ r.status = rows[b].status /\ r.day = rows[b].day /\ r # NoRow
  <2> DEFINE r == [rows[b] EXCEPT !.verified = IF Valid(b) THEN "SUCCEEDED" ELSE "FAILED"]
  <2>1. rows[b] \in BackupRows
    BY <1>2
  <2>2. PICK v \in {"SUCCEEDED", "FAILED"} : r = [rows[b] EXCEPT !.verified = v]
    OBVIOUS
  <2>3. rows' = [rows EXCEPT ![b] = r]
    BY <1>1, Zenon
  <2> HIDE DEF r
  <2>4. r \in BackupRows /\ r.status = rows[b].status /\ r.day = rows[b].day /\ r.verified = v
    BY <2>1, <2>2 DEF BackupRows
  <2>5. r # NoRow
    BY <2>4 DEF NoRow
  <2> QED
    BY <2>3, <2>4, <2>5
<1>4. /\ rows' \in [Numbers -> BackupRows] /\ rows'[b] = r
      /\ \A c \in Numbers : c # b => rows'[c] = rows[c]
  BY <1>2, <1>3
<1>5. \A c \in Numbers : rows'[c].status = rows[c].status /\ rows'[c].day = rows[c].day
  BY <1>3, <1>4
<1>6. Recorded' = Recorded /\ Copies' = Copies
  BY <1>1, <1>3, <1>4, <1>5 DEF Recorded, Copies
<1>7. BackupsTyped'
  BY <1>1, <1>4 DEF BackupsInv, BackupsTyped
<1>8. Kept' \subseteq Kept
  <2> SUFFICES ASSUME NEW c \in Kept' PROVE c \in Kept
    OBVIOUS
  <2>1. c \in Recorded /\ c \in Numbers
    BY <1>6 DEF Kept, Recorded
  <2> QED
    BY <1>1, <1>2, <1>5, <1>6, <1>7, <2>1, UnkeptStays DEF BackupsInv
<1>9. Making'
  BY <1>1, <1>6 DEF BackupsInv, Making, InRequest
<1>10. Dooming'
  BY <1>1, <1>6, <1>8 DEF BackupsInv, Dooming, Unkept
<1>11. CopiesStored'
  <2>1. Kept \subseteq Numbers
    BY DEF Kept, Recorded
  <2> QED
    BY <1>1, <1>5, <1>8, <2>1 DEF BackupsInv, CopiesStored
<1> QED
  BY <1>7, <1>9, <1>10, <1>11 DEF BackupsInv

\* The prune: the file goes while the number is still on the list.
LEMMA ForemostDoomed ==
    ASSUME BackupsInv, doomed.list # {}
    PROVE  Foremost \in doomed.list /\ Foremost \in Recorded /\ Foremost \notin Kept /\ Foremost \in Numbers
<1>1. doomed.list \subseteq Numbers /\ doomed.list \subseteq Unkept
  BY DEF BackupsInv, BackupsTyped, Dooming
<1>2. IsFiniteSet(doomed.list)
  <2>1. 1 \in Int /\ LastBackup \in Int
    BY BackupsAssumption
  <2>2. IsFiniteSet(1..LastBackup)
    BY <2>1, FS_Interval
  <2> QED
    BY <1>1, <2>2, FS_Subset DEF Numbers
<1>3. doomed.list \in SUBSET Nat
  BY <1>1, BackupsAssumption DEF Numbers
<1>4. Max(doomed.list) \in doomed.list
  BY <1>2, <1>3, GreatestIsOne
<1> QED
  BY <1>1, <1>4 DEF Foremost, Unkept

LEMMA PruneKeeps == ASSUME BackupsInv, Prune PROVE BackupsInv'
<1>1. /\ doomed' = [list |-> Unkept, unlinked |-> FALSE]
      /\ UNCHANGED <<rows, stored, request, made, numbered, today, writer>>
  BY DEF Prune, lockVars
<1>2. Recorded' = Recorded /\ Kept' = Kept /\ Unkept' = Unkept /\ Unkept \in SUBSET Numbers
  BY <1>1 DEF Unkept, Recorded, Kept, KeepCopy, KeepFailed, NewestOf, Since, Newer, DayOf, WeekOf, Copies
<1>3. BackupsTyped'
  BY <1>1, <1>2 DEF BackupsInv, BackupsTyped
<1>4. Making'
  BY <1>1, <1>2 DEF BackupsInv, Making, InRequest
<1>5. Dooming'
  BY <1>1, <1>2 DEF Dooming
<1>6. CopiesStored'
  BY <1>1, <1>2 DEF BackupsInv, CopiesStored
<1> QED
  BY <1>3, <1>4, <1>5, <1>6 DEF BackupsInv

LEMMA UnlinkKeeps == ASSUME BackupsInv, Unlink PROVE BackupsInv'
<1>1. /\ doomed.list # {} /\ stored' = stored \ {Foremost}
      /\ doomed' = [doomed EXCEPT !.unlinked = TRUE]
      /\ UNCHANGED <<rows, request, made, numbered, today, writer>>
  BY DEF Unlink, lockVars
<1>2. Foremost \in Recorded /\ Foremost \notin Kept
  BY <1>1, ForemostDoomed
<1>3. /\ doomed \in [list: SUBSET Numbers, unlinked: BOOLEAN] /\ today \in Nat
  BY DEF BackupsInv, BackupsTyped
<1>4. doomed' \in [list: SUBSET Numbers, unlinked: BOOLEAN] /\ doomed'.list = doomed.list
  BY <1>1, <1>3
<1>5. BackupsTyped'
  BY <1>1, <1>4 DEF BackupsInv, BackupsTyped
<1>6. today <= today' /\ \A b \in Kept : b \in stored => b \in stored'
  BY <1>1, <1>2, <1>3
<1>7. Recorded' = Recorded /\ Dooming' /\ CopiesStored'
  BY <1>1, <1>4, <1>5, <1>6, RowsStay
<1>8. Making'
  BY <1>1, <1>2, <1>7 DEF BackupsInv, Making, InRequest
<1> QED
  BY <1>5, <1>7, <1>8 DEF BackupsInv

LEMMA DeleteKeeps == ASSUME BackupsInv, DeleteRow PROVE BackupsInv'
<1>1. /\ doomed.unlinked /\ UNCHANGED <<stored, request, made, numbered, today, writer>>
      /\ \/ /\ writer = None /\ rows' = [rows EXCEPT ![Foremost] = NoRow]
            /\ doomed' = [list |-> doomed.list \ {Foremost}, unlinked |-> FALSE]
         \/ rows' = rows /\ doomed' = Nothing
  BY DEF DeleteRow, Statement, Busy, lockVars
<1>2. /\ doomed.list # {} /\ doomed \in [list: SUBSET Numbers, unlinked: BOOLEAN]
      /\ rows \in [Numbers -> BackupRows] /\ today \in Nat
  BY <1>1 DEF BackupsInv, BackupsTyped, Dooming
<1>3. Foremost \in doomed.list /\ Foremost \in Recorded /\ Foremost \notin Kept /\ Foremost \in Numbers
  BY <1>2, ForemostDoomed
<1>4. CASE rows' = rows /\ doomed' = Nothing
  <2>1. Nothing \in [list: SUBSET Numbers, unlinked: BOOLEAN] /\ Nothing.list = {} /\ ~Nothing.unlinked
    BY DEF Nothing
  <2>2. BackupsTyped'
    BY <1>1, <1>4, <2>1 DEF BackupsInv, BackupsTyped
  <2>3. today <= today' /\ \A b \in Kept : b \in stored => b \in stored'
    BY <1>1, <1>2
  <2>4. doomed'.list \subseteq doomed.list /\ ~doomed'.unlinked
    BY <1>4, <2>1
  <2>5. Recorded' = Recorded /\ Dooming' /\ CopiesStored'
    BY <1>4, <2>2, <2>3, <2>4, RowsStay
  <2>6. Making'
    BY <1>1, <2>5 DEF BackupsInv, Making, InRequest
  <2> QED
    BY <2>2, <2>5, <2>6 DEF BackupsInv
<1>5. CASE /\ writer = None /\ rows' = [rows EXCEPT ![Foremost] = NoRow]
           /\ doomed' = [list |-> doomed.list \ {Foremost}, unlinked |-> FALSE]
  <2> DEFINE d == Foremost
  <2>1. NoRow \in BackupRows /\ NoRow.status = "None"
    BY DEF NoRow, BackupRows
  <2>2. rows'[d] = NoRow /\ \A b \in Numbers : b # d => rows'[b] = rows[b]
    BY <1>2, <1>3, <1>5
  <2>3. BackupsTyped'
    <3>1. rows' \in [Numbers -> BackupRows]
      BY <1>2, <1>5, <2>1
    <3>2. doomed' \in [list: SUBSET Numbers, unlinked: BOOLEAN]
      BY <1>2, <1>5
    <3> QED
      BY <1>1, <3>1, <3>2 DEF BackupsInv, BackupsTyped
  <2> HIDE DEF d
  <2>4. /\ d \in Numbers /\ d \in Recorded /\ d \notin Kept
        /\ doomed'.list = doomed.list \ {d} /\ ~doomed'.unlinked
    BY <1>3, <1>5 DEF d
  <2>5. Recorded' = Recorded \ {d}
    BY <2>2, <2>4 DEF Recorded
  <2>6. Copies' = Copies \ {d}
    BY <2>1, <2>2, <2>4 DEF Copies
  <2>7. Copies \subseteq Copies' \/ \E c \in Copies : c \notin Kept /\ Copies' = Copies \ {c}
    BY <2>4, <2>6
  <2>8. \A c \in Numbers : c \in Copies \cap Copies' => rows'[c].day = rows[c].day
    BY <2>2, <2>6
  <2>9. today <= today'
    BY <1>1, <1>2
  <2>10. Kept' \subseteq Kept
    <3> SUFFICES ASSUME NEW b \in Kept' PROVE b \in Kept
      OBVIOUS
    <3>1. b \in Recorded /\ b \in Numbers /\ b # d
      BY <2>5 DEF Kept, Recorded
    <3>2. rows'[b].status = rows[b].status /\ rows'[b].day = rows[b].day
      BY <2>2, <3>1
    <3> QED
      BY <2>3, <2>7, <2>8, <2>9, <3>1, <3>2, UnkeptStays DEF BackupsInv
  <2>11. Making'
    <3>1. \A o \in Owners : ~InRequest(o)'
      BY <1>1, <1>5, NobodyAsks DEF BackupsInv, InRequest
    <3> QED
      BY <1>1, <2>5, <3>1 DEF BackupsInv, Making
  <2>12. Dooming'
    BY <2>4, <2>5, <2>10 DEF BackupsInv, Dooming, Unkept
  <2>13. CopiesStored'
    <3>1. \A b \in Kept' : b \in Numbers /\ b # d
      BY <2>5 DEF Kept, Recorded
    <3> QED
      BY <1>1, <2>2, <2>10, <3>1 DEF BackupsInv, CopiesStored
  <2> QED
    BY <2>3, <2>11, <2>12, <2>13 DEF BackupsInv
<1> QED
  BY <1>1, <1>4, <1>5

LEMMA DayKeeps == ASSUME BackupsInv, NextDay PROVE BackupsInv'
<1>1. /\ today' = today + 1 /\ today \in Nat
      /\ UNCHANGED <<rows, stored, request, made, numbered, doomed, writer>>
  BY DEF NextDay, lockVars, BackupsInv, BackupsTyped
<1>2. today' \in Nat /\ today <= today'
  BY <1>1
<1>3. BackupsTyped'
  BY <1>1, <1>2 DEF BackupsInv, BackupsTyped
<1>4. Recorded' = Recorded /\ Dooming' /\ CopiesStored'
  BY <1>1, <1>2, <1>3, RowsStay DEF BackupsInv, Dooming
<1>5. Making'
  BY <1>1, <1>4 DEF BackupsInv, Making, InRequest
<1> QED
  BY <1>3, <1>4, <1>5 DEF BackupsInv

LEMMA BackupsRestartKeeps == ASSUME BackupsInv, BackupsRestart PROVE BackupsInv'
<1>1. /\ request' = [o \in Owners |-> IF request[o] = "Idle" THEN "Idle" ELSE "Done"]
      /\ made' = NoRow /\ doomed' = Nothing
      /\ UNCHANGED <<rows, stored, numbered, today>>
  BY DEF BackupsRestart
<1>2. /\ NoRow \in BackupRows /\ Nothing \in [list: SUBSET Numbers, unlinked: BOOLEAN]
      /\ Nothing.list = {} /\ ~Nothing.unlinked
  BY DEF NoRow, BackupRows, Nothing
<1>3. BackupsTyped'
  BY <1>1, <1>2 DEF BackupsInv, BackupsTyped
<1>4. /\ today <= today' /\ doomed'.list \subseteq doomed.list /\ ~doomed'.unlinked
      /\ \A b \in Kept : b \in stored => b \in stored'
  BY <1>1, <1>2 DEF BackupsInv, BackupsTyped
<1>5. Recorded' = Recorded /\ Dooming' /\ CopiesStored'
  BY <1>1, <1>3, <1>4, RowsStay
<1>6. Making'
  BY <1>1, <1>5 DEF BackupsInv, Making, InRequest
<1> QED
  BY <1>3, <1>5, <1>6 DEF BackupsInv

\* A task leaves the lock to the request that holds it.
LEMMA MlLeaves ==
    ASSUME BackupsInv, UNCHANGED backupVars, \A o \in Owners : writer = o => writer' = o
    PROVE  BackupsInv'
<1>1. /\ UNCHANGED <<rows, stored, request, made, numbered, today, doomed>> /\ today \in Nat
  BY DEF backupVars, BackupsInv, BackupsTyped
<1>2. BackupsTyped'
  BY <1>1 DEF BackupsInv, BackupsTyped
<1>3. Recorded' = Recorded /\ Dooming' /\ CopiesStored'
  BY <1>1, <1>2, RowsStay DEF BackupsInv, Dooming
<1>4. Making'
  BY <1>1, <1>3 DEF BackupsInv, Making, InRequest
<1> QED
  BY <1>2, <1>3, <1>4 DEF BackupsInv

LEMMA BackingKeeps == ASSUME BackupsInv, Backing PROVE BackupsInv'
<1>1. ASSUME NEW o \in Owners, Requesting(o) \/ Copying(o) PROVE BackupsInv'
  BY <1>1, BeginBackupKeeps, SnapshotKeeps, EndBackupKeeps DEF Requesting, Copying
<1>2. CASE Pruning
  BY <1>2, PruneKeeps, UnlinkKeeps, DeleteKeeps DEF Pruning
<1> QED
  BY <1>1, <1>2, VerifyKeeps, DayKeeps DEF Backing

LEMMA BackupsBegin == ASSUME Init PROVE BackupsInv
<1>1. /\ rows = [b \in Numbers |-> NoRow] /\ stored = {} /\ made = NoRow /\ numbered = 0 /\ today = 0
      /\ request = [o \in Owners |-> "Idle"] /\ doomed = Nothing
  BY DEF Init, BackupsInit
<1>2. /\ NoRow \in BackupRows /\ Nothing \in [list: SUBSET Numbers, unlinked: BOOLEAN]
      /\ Nothing.list = {} /\ ~Nothing.unlinked
  BY DEF NoRow, BackupRows, Nothing
<1>3. BackupsTyped
  BY <1>1, <1>2, BackupsAssumption DEF BackupsTyped
<1>4. Recorded = {} /\ Kept = {}
  BY <1>1 DEF Recorded, Kept
<1> QED
  BY <1>1, <1>2, <1>3, <1>4 DEF BackupsInv, Making, Dooming, CopiesStored, InRequest

-----------------------------------------------------------------------------
\* Only the steps of a transaction touch the lock.
LEMMA MlLeavesLock == ASSUME Ml, NEW o \in Owners, writer = o PROVE writer' = o
<1>1. o # None /\ o \notin Starters
  BY OperationsAssumption
<1>2. ASSUME NEW s \in Starters, Starting(s) \/ GoesOn(s) PROVE writer' = o
  <2>1. CASE BeginStart(s)
    BY <1>1, <2>1 DEF BeginStart, BeginImmediate
  <2>2. CASE EndStart(s)
    BY <1>1, <2>2 DEF EndStart, EndTransaction
  <2>3. CASE EnterStart(s) \/ Launch(s)
    BY <2>3 DEF EnterStart, Launch, lockVars
  <2> QED
    BY <1>2, <2>1, <2>2, <2>3 DEF Starting, GoesOn
<1>3. ASSUME NEW m \in Sweepers, Sweeping(m) PROVE writer' = o
  BY <1>3 DEF Sweeping, Sweep, SweepTask, SweepMark, SweepGivesUp, Statement, Busy, lockVars
<1>4. ASSUME NEW t \in Tasks, OfTask(t) \/ ReportFailure(t) PROVE writer' = o
  BY <1>4 DEF OfTask, FetchFeatures, Features, RefreshHourlyMetrics, Train, CheckModel, RegisterModel,
              WritePredictions, ReportSuccess, ReportFailure, Report, Exit, Statement, lockVars
<1>5. ASSUME NEW t \in Tasks, Watching(t) \/ MarkFailed(t) \/ Older(t) \/ MuchOlder(t) PROVE writer' = o
  BY <1>5 DEF Watching, ProcessEnded, Conclude, MarkFailed, Older, MuchOlder, Statement, Busy, lockVars
<1>6. ASSUME NEW t \in Tasks, NEW ok \in BOOLEAN, Answering(t, ok) PROVE writer' = o
  BY <1>6 DEF Answering, Finalize, Decide, RevokeToken, CallGivesUp, Statement, Busy, lockVars
<1>7. CASE CleanModels \/ CleanModelsBlindly
  BY <1>7 DEF CleanModels, CleanModelsBlindly, Statement, lockVars
<1> QED
  BY <1>2, <1>3, <1>4, <1>5, <1>6, <1>7 DEF Ml, Speaking, Retaining

LEMMA BackingLeavesLock == ASSUME Backing, NEW s \in Starters, writer = s PROVE writer' = s
<1>1. s # None /\ s \notin Owners
  BY OperationsAssumption, MlTasksAssumption
<1>2. ASSUME NEW o \in Owners, Requesting(o) \/ Copying(o) PROVE writer' = s
  <2>1. CASE BeginBackup(o)
    BY <1>1, <2>1 DEF BeginBackup, BeginImmediate
  <2>2. CASE EndBackup(o)
    BY <1>1, <2>2 DEF EndBackup, EndTransaction
  <2>3. CASE Snapshot(o)
    BY <2>3 DEF Snapshot
  <2> QED
    BY <1>2, <2>1, <2>2, <2>3 DEF Requesting, Copying
<1>3. CASE Pruning \/ NextDay \/ \E b \in Numbers : VerifyBackup(b)
  BY <1>3 DEF Pruning, Prune, Unlink, DeleteRow, NextDay, VerifyBackup, Statement, Busy, lockVars
<1> QED
  BY <1>2, <1>3 DEF Backing

\* The inductive invariant: what the rows of tasks, models and backups say of
\* what has happened and of the files, and what an open transaction may add.
OperationsInv == MlInv /\ BackupsInv

LEMMA OperationsStep == ASSUME OperationsInv, [Next]_vars PROVE OperationsInv'
<1>1. CASE Ml
  <2>1. BackupsInv'
    <3>1. UNCHANGED backupVars
      BY <1>1 DEF Ml
    <3> QED
      BY <1>1, <3>1, MlLeaves, MlLeavesLock DEF OperationsInv
  <2> QED
    BY <1>1, <2>1, MlKeeps DEF OperationsInv
<1>2. CASE Backing
  BY <1>2, BackingKeeps, BackingLeaves, BackingLeavesLock DEF OperationsInv
<1>3. CASE Crash
  BY <1>3, CrashKeeps, BackupsRestartKeeps DEF OperationsInv, Crash
<1>4. CASE ShutDown
  BY <1>4, ShutDownKeeps, BackupsRestartKeeps DEF OperationsInv, ShutDown
<1>5. CASE UNCHANGED vars
  <2>1. BackupsInv'
    <3>1. UNCHANGED backupVars /\ UNCHANGED writer
      BY <1>5 DEF vars, lockVars
    <3> QED
      BY <3>1, MlLeaves DEF OperationsInv
  <2> QED
    BY <1>5, <2>1, BackingLeaves DEF OperationsInv
<1> QED
  BY <1>1, <1>2, <1>3, <1>4, <1>5 DEF Next

\* What tasks, processes, starts, sweeps, reports, the retention, requests for
\* backups, the prune and the end of the server keep, whatever the steps
\* between them: MlRepository's and BackupService's rows, the launcher's
\* processes and the open transactions fit together.
THEOREM OperationsInvariant == Spec => []OperationsInv
<1>1. Init => OperationsInv
  BY MlBegins, BackupsBegin DEF OperationsInv
<1>2. OperationsInv /\ [Next]_vars => OperationsInv'
  BY OperationsStep
<1> QED
  BY <1>1, <1>2, PTL DEF Spec

\* completeMlTask and pruneBackups: a row that promises a file has it, for any
\* number of tasks and backups: no late or contradicting report, timeout, failed
\* COMMIT, crash, retention or prune leaves a qualified model of a task that
\* succeeded without its artifact before 90 days, or a backup that is to be
\* kept without its copy.
THEOREM FilesAlwaysBehindRows == Spec => []FilesBehindRows
<1>1. OperationsInv => FilesBehindRows
  <2> SUFFICES ASSUME OperationsInv PROVE FilesBehindRows
    OBVIOUS
  <2>1. \A t \in Succeeded(db) : age[t] < 4 => t \in kept
    BY DEF OperationsInv, MlInv, Registered, InPlace, Succeeded
  <2>2. \A b \in Kept : rows[b].status = "SUCCEEDED" => b \in stored
    BY DEF OperationsInv, BackupsInv, CopiesStored
  <2> QED
    BY <2>1, <2>2 DEF FilesBehindRows
<1> QED
  BY <1>1, OperationsInvariant, PTL

-----------------------------------------------------------------------------
(***************************************************************************)
(* The loop of pruneBackups.  Its fold takes the least number last; that   *)
(* there is a function that computes it, and what it has met after each    *)
(* number, are shown by looking for a smallest set for which this fails.   *)
(***************************************************************************)
LEMMA NoSmallest ==
    ASSUME NEW T, IsFiniteSet(T), NEW B \in SUBSET (SUBSET T),
           \A s \in B : \E r \in B : r \subseteq s /\ r # s
    PROVE  B = {}
<1>1. IsWellFoundedOn(StrictSubsetOrdering(T), SUBSET T)
  <2>1. FiniteSubsetsOf(T) = SUBSET T
    BY FS_FiniteSubsetsOfFinite
  <2>2. IsWellFoundedOn(StrictSubsetOrdering(T), FiniteSubsetsOf(T))
    BY FS_StrictSubsetOrderingWellFounded
  <2> QED
    BY <2>1, <2>2
<1>2. SUFFICES ASSUME B # {} PROVE FALSE
  OBVIOUS
<1>3. PICK s \in B : \A r \in B : <<r, s>> \notin StrictSubsetOrdering(T)
  BY <1>1, <1>2, WFMin
<1>4. PICK r \in B : r \subseteq s /\ r # s
  OBVIOUS
<1>5. <<r, s>> \in StrictSubsetOrdering(T)
  BY <1>4 DEF StrictSubsetOrdering
<1> QED
  BY <1>3, <1>5

LEMMA LeastIsOne ==
    ASSUME NEW T \in SUBSET Nat, IsFiniteSet(T), T # {}
    PROVE  Min(T) \in T /\ \A y \in T : Min(T) <= y
<1> DEFINE Bottomed(s) == \E x \in s : \A y \in s : x <= y
           B == {s \in SUBSET T : s # {} /\ ~Bottomed(s)}
<1>1. ASSUME NEW s \in B PROVE \E r \in B : r \subseteq s /\ r # s
  <2>1. s \in SUBSET T /\ s # {} /\ ~Bottomed(s)
    OBVIOUS
  <2>2. PICK x \in s : TRUE
    BY <2>1
  <2> DEFINE r == s \ {x}
  <2>3. r # {}
    <3>1. x <= x
      BY <2>1, <2>2
    <3> QED
      BY <2>1, <2>2, <3>1
  <2>4. ~Bottomed(r)
    <3> SUFFICES ASSUME Bottomed(r) PROVE FALSE
      OBVIOUS
    <3>1. PICK z \in r : \A y \in r : z <= y
      OBVIOUS
    <3>2. z \in Nat /\ x \in Nat /\ s \subseteq Nat /\ s = r \cup {x}
      BY <2>1, <2>2
    <3>3. CASE x <= z
      BY <2>1, <2>2, <3>1, <3>2, <3>3
    <3>4. CASE ~(x <= z)
      BY <2>1, <3>1, <3>2, <3>4
    <3> QED
      BY <3>3, <3>4
  <2>5. r \in B
    BY <2>1, <2>3, <2>4
  <2> QED
    BY <2>2, <2>5
<1>2. B \in SUBSET (SUBSET T)
  OBVIOUS
<1>3. B = {}
  <2> HIDE DEF B
  <2> QED
    BY <1>1, <1>2, NoSmallest
<1> QED
  BY <1>3 DEF Min

\* The functions that compute the fold over the subsets of T.
Meets(T, h) ==
    h = [s \in SUBSET T |-> IF s = {} THEN Met ELSE Meet(h[s \ {Min(s)}], Min(s))]
Meeter(T) == CHOOSE h : Meets(T, h)

LEMMA MetIsComputed == ASSUME NEW T PROVE MetFrom(T) = Meeter(T)[T]
BY DEF MetFrom, MapThenFoldSet, Meeter, Meets

LEMMA MeetsAt ==
    ASSUME NEW T, NEW h, Meets(T, h)
    PROVE  \A s \in SUBSET T : h[s] = IF s = {} THEN Met ELSE Meet(h[s \ {Min(s)}], Min(s))
<1> SUFFICES ASSUME NEW s \in SUBSET T
             PROVE  h[s] = IF s = {} THEN Met ELSE Meet(h[s \ {Min(s)}], Min(s))
  OBVIOUS
<1> DEFINE val(k) == [r \in SUBSET T |-> IF r = {} THEN Met ELSE Meet(k[r \ {Min(r)}], Min(r))]
<1>1. h = val(h)
  BY DEF Meets
<1>2. val(h)[s] = IF s = {} THEN Met ELSE Meet(h[s \ {Min(s)}], Min(s))
  OBVIOUS
<1> HIDE DEF val
<1> QED
  BY <1>1, <1>2

LEMMA NoneDisagrees ==
    ASSUME NEW a, IsFiniteSet(a), NEW f, NEW g,
           \A r \in SUBSET a : f[r] # g[r] => \E x \in r : f[r \ {x}] # g[r \ {x}]
    PROVE  f[a] = g[a]
<1> DEFINE B == {r \in SUBSET a : f[r] # g[r]}
<1>1. B \in SUBSET (SUBSET a)
  OBVIOUS
<1>2. ASSUME NEW r \in B PROVE \E z \in B : z \subseteq r /\ z # r
  <2>1. PICK x \in r : f[r \ {x}] # g[r \ {x}]
    OBVIOUS
  <2>2. r \ {x} \in B
    BY <2>1
  <2> QED
    BY <2>1, <2>2
<1>3. \A r \in B : \E z \in B : z \subseteq r /\ z # r
  BY <1>2
<1>4. B = {}
  <2> HIDE DEF B
  <2> QED
    BY <1>1, <1>3, NoSmallest
<1> QED
  BY <1>4

\* Two of them agree where both are defined.
LEMMA MeetersAgree ==
    ASSUME NEW T \in SUBSET Nat, NEW R \in SUBSET Nat, NEW h, NEW k, Meets(T, h), Meets(R, k),
           NEW s \in SUBSET (T \cap R), IsFiniteSet(s)
    PROVE  h[s] = k[s]
<1>1. \A q \in SUBSET T : h[q] = IF q = {} THEN Met ELSE Meet(h[q \ {Min(q)}], Min(q))
  BY MeetsAt
<1>2. \A q \in SUBSET R : k[q] = IF q = {} THEN Met ELSE Meet(k[q \ {Min(q)}], Min(q))
  BY MeetsAt
<1>3. ASSUME NEW r \in SUBSET s, h[r] # k[r] PROVE \E x \in r : h[r \ {x}] # k[r \ {x}]
  <2>1. r \in SUBSET T /\ r \in SUBSET R /\ IsFiniteSet(r)
    BY FS_Subset
  <2>2. h[r] = IF r = {} THEN Met ELSE Meet(h[r \ {Min(r)}], Min(r))
    BY <1>1, <2>1
  <2>3. k[r] = IF r = {} THEN Met ELSE Meet(k[r \ {Min(r)}], Min(r))
    BY <1>2, <2>1
  <2>4. r # {} /\ Min(r) \in r
    BY <1>3, <2>1, <2>2, <2>3, LeastIsOne
  <2>5. h[r \ {Min(r)}] # k[r \ {Min(r)}]
    BY <1>3, <2>2, <2>3, <2>4
  <2> QED
    BY <2>4, <2>5
<1>4. \A r \in SUBSET s : h[r] # k[r] => \E x \in r : h[r \ {x}] # k[r \ {x}]
  BY <1>3
<1> QED
  BY <1>4, NoneDisagrees

LEMMA MeeterMeets == ASSUME NEW T \in SUBSET Nat, IsFiniteSet(T) PROVE Meets(T, Meeter(T))
<1> DEFINE B == {R \in SUBSET T : ~Meets(R, Meeter(R))}
<1>1. ASSUME NEW R \in B, \A z \in SUBSET R : z # R => z \notin B PROVE FALSE
  <2> DEFINE less(s) == s \ {Min(s)}
             h == [s \in SUBSET R |->
                     IF s = {} THEN Met ELSE Meet(Meeter(less(s))[less(s)], Min(s))]
  <2>1. R \in SUBSET T /\ ~Meets(R, Meeter(R))
    OBVIOUS
  <2>2. \A z \in SUBSET R : z # R => Meets(z, Meeter(z))
    BY <1>1, <2>1
  <2> HIDE DEF B
  <2>3. \A s \in SUBSET R : IsFiniteSet(s) /\ s \in SUBSET Nat
    BY <2>1, FS_Subset
  <2>4. \A s \in SUBSET R : s # {} => less(s) \in SUBSET R /\ less(s) # R
    BY <2>3, LeastIsOne
  <2>5. \A s \in SUBSET R : h[s] =
           IF s = {} THEN Met ELSE Meet(Meeter(less(s))[less(s)], Min(s))
    OBVIOUS
  <2>6. ASSUME NEW r \in SUBSET R, r # R PROVE h[r] = Meeter(r)[r]
    <3> HIDE DEF h
    <3>1. Meets(r, Meeter(r))
      BY <2>2, <2>6
    <3>2. Meeter(r)[r] = IF r = {} THEN Met ELSE Meet(Meeter(r)[less(r)], Min(r))
      BY <3>1, MeetsAt
    <3>3. CASE r # {}
      <4>1. /\ Meets(less(r), Meeter(less(r))) /\ IsFiniteSet(less(r))
            /\ less(r) \in SUBSET Nat /\ r \in SUBSET Nat
        BY <2>2, <2>3, <2>4, <2>6, <3>3
      <4>2. less(r) \in SUBSET (r \cap less(r))
        OBVIOUS
      <4> HIDE DEF less
      <4>3. Meeter(r)[less(r)] = Meeter(less(r))[less(r)]
        BY <3>1, <4>1, <4>2, MeetersAgree
      <4> QED
        BY <2>5, <3>2, <4>3
    <3>4. CASE r = {}
      BY <2>5, <3>2, <3>4
    <3> QED
      BY <3>3, <3>4
  <2>7. h = [s \in SUBSET R |-> IF s = {} THEN Met ELSE Meet(h[s \ {Min(s)}], Min(s))]
    <3>1. \A s \in SUBSET R : s # {} => h[less(s)] = Meeter(less(s))[less(s)]
      <4> HIDE DEF h, less
      <4> QED
        BY <2>4, <2>6
    <3>2. \A s \in SUBSET R : h[s] = IF s = {} THEN Met ELSE Meet(h[less(s)], Min(s))
      <4> HIDE DEF h
      <4> QED
        BY <2>5, <3>1
    <3>3. h = [s \in SUBSET R |-> h[s]]
      OBVIOUS
    <3> HIDE DEF h
    <3> QED
      BY <3>2, <3>3
  <2> HIDE DEF h
  <2>8. Meets(R, h)
    BY <2>7 DEF Meets
  <2>9. Meets(R, Meeter(R))
    BY <2>8 DEF Meeter
  <2> QED
    BY <2>1, <2>9
<1>2. B \in SUBSET (SUBSET T)
  OBVIOUS
<1>3. \A R \in B : \E z \in B : z \subseteq R /\ z # R
  BY <1>1
<1>4. T \in SUBSET T
  OBVIOUS
<1> HIDE DEF B
<1>5. B = {}
  BY <1>2, <1>3, NoSmallest
<1> QED
  BY <1>4, <1>5 DEF B

\* One turn of the loop.
LEMMA MetStep ==
    ASSUME NEW T \in SUBSET Nat, IsFiniteSet(T)
    PROVE  MetFrom(T) = IF T = {} THEN Met ELSE Meet(MetFrom(T \ {Min(T)}), Min(T))
<1> DEFINE R == T \ {Min(T)}
<1>1. /\ Meets(T, Meeter(T)) /\ Meets(R, Meeter(R)) /\ IsFiniteSet(R)
      /\ R \in SUBSET Nat /\ R \in SUBSET (T \cap R)
  <2>1. IsFiniteSet(R) /\ R \in SUBSET (T \cap R) /\ R \in SUBSET Nat
    BY FS_Subset
  <2> QED
    BY <2>1, MeeterMeets
<1>2. Meeter(T)[T] = IF T = {} THEN Met ELSE Meet(Meeter(T)[R], Min(T))
  <2>1. \A q \in SUBSET T :
           Meeter(T)[q] = IF q = {} THEN Met ELSE Meet(Meeter(T)[q \ {Min(q)}], Min(q))
    BY <1>1, MeetsAt
  <2> QED
    BY <2>1
<1> HIDE DEF R
<1>3. Meeter(T)[R] = Meeter(R)[R]
  BY <1>1, MeetersAgree
<1> QED
  BY <1>2, <1>3, MetIsComputed DEF R

\* The periods that the loop keeps are those of the copies it has met, as long
\* as there are fewer than its limit ...
Follows(met, periods, limit) ==
    /\ met \subseteq periods /\ IsFiniteSet(periods)
    /\ met = periods \/ Cardinality(met) >= limit

LEMMA FollowsTells ==
    ASSUME NEW met, NEW periods, NEW limit \in Nat, Follows(met, periods, limit), NEW p
    PROVE  p \notin met /\ Cardinality(met) < limit
             <=> p \notin periods /\ Cardinality(periods) < limit
<1>1. /\ Cardinality(met) \in Nat /\ Cardinality(periods) \in Nat
      /\ Cardinality(met) <= Cardinality(periods)
  BY FS_Subset, FS_CardinalityType DEF Follows
<1>2. CASE met = periods
  BY <1>2
<1>3. CASE Cardinality(met) >= limit
  BY <1>1, <1>3
<1> QED
  BY <1>2, <1>3 DEF Follows

\* ... and stay so when a copy of the period p is met.
LEMMA FollowsOn ==
    ASSUME NEW met, NEW periods, NEW limit \in Nat, Follows(met, periods, limit), NEW p, NEW then,
           then \in {met, met \cup {p}},
           p \notin met /\ Cardinality(met) < limit => then = met \cup {p}
    PROVE  Follows(then, periods \cup {p}, limit)
<1>1. IsFiniteSet(periods \cup {p}) /\ IsFiniteSet(met) /\ IsFiniteSet(met \cup {p})
  BY FS_AddElement, FS_Subset DEF Follows
<1>2. /\ Cardinality(met) \in Nat /\ Cardinality(met \cup {p}) \in Nat
      /\ Cardinality(met) <= Cardinality(met \cup {p})
  BY <1>1, FS_Subset, FS_CardinalityType
<1>3. then \subseteq periods \cup {p}
  BY DEF Follows
<1>4. CASE met = periods /\ (p \in met \/ then = met \cup {p})
  BY <1>1, <1>3, <1>4 DEF Follows
<1>5. CASE Cardinality(met) >= limit
  <2>1. Cardinality(then) >= limit
    BY <1>2, <1>5
  <2> QED
    BY <1>1, <1>3, <2>1 DEF Follows
<1> QED
  BY <1>2, <1>4, <1>5 DEF Follows

\* What the loop has met when it has gone through T, the newest of them all.
DaysOf(T) == {DayOf[c] : c \in Copies \cap T}
WeeksOf(T) == {WeekOf[c] : c \in Copies \cap T}
GoneThrough(T) ==
    /\ Follows(MetFrom(T).days, DaysOf(T), DaysKept)
    /\ Follows(MetFrom(T).weeks, WeeksOf(T), WeeksKept)
    /\ MetFrom(T).kept = T \cap Kept
Newest(T) == \A b \in T : \A c \in Recorded : c > b => c \in T

LEMMA MeetTakes ==
    ASSUME BackupsTyped, NEW T \in SUBSET Recorded, NEW b \in Recorded, b \notin T,
           GoneThrough(T), MetFrom(T \cup {b}) = Meet(MetFrom(T), b),
           DaysOf(T) = Since(DayOf, b), WeeksOf(T) = Since(WeekOf, b)
    PROVE  GoneThrough(T \cup {b})
<1> DEFINE met == MetFrom(T)
           day == DayOf[b]
           week == WeekOf[b]
           byDay == b \in Copies /\ day \notin met.days /\ Cardinality(met.days) < DaysKept
           byWeek == b \in Copies /\ ~byDay
                     /\ week \notin met.weeks /\ Cardinality(met.weeks) < WeeksKept
<1>1. /\ b \in Numbers /\ day = rows[b].day /\ week = Week(rows[b].day)
      /\ DaysKept \in Nat /\ WeeksKept \in Nat
      /\ b \in Copies <=> rows[b].status = "SUCCEEDED"
  BY BackupsAssumption DEF Recorded, DayOf, WeekOf, Copies
<1> DEFINE next == MetFrom(T \cup {b})
<1>2. /\ next.days = met.days \cup (IF byDay THEN {day} ELSE {})
      /\ next.weeks = met.weeks \cup (IF byDay \/ byWeek THEN {week} ELSE {})
      /\ next.kept = met.kept \cup (IF byDay \/ byWeek \/ KeepFailed(b) THEN {b} ELSE {})
  <2>1. rows[b].day = day /\ Week(rows[b].day) = week /\ next = Meet(met, b)
    BY <1>1
  <2> HIDE DEF met, next, day, week
  <2>2. next = [days |-> met.days \cup (IF byDay THEN {day} ELSE {}),
                weeks |-> met.weeks \cup (IF byDay \/ byWeek THEN {week} ELSE {}),
                kept |-> met.kept \cup (IF byDay \/ byWeek \/ KeepFailed(b) THEN {b} ELSE {})]
    BY <2>1 DEF Meet
  <2> HIDE DEF byDay, byWeek
  <2> QED
    BY <2>2
<1>3. /\ Follows(met.days, DaysOf(T), DaysKept) /\ Follows(met.weeks, WeeksOf(T), WeeksKept)
      /\ met.kept = T \cap Kept
  BY DEF GoneThrough
<1>4. /\ DaysOf(T \cup {b}) = IF b \in Copies THEN DaysOf(T) \cup {day} ELSE DaysOf(T)
      /\ WeeksOf(T \cup {b}) = IF b \in Copies THEN WeeksOf(T) \cup {week} ELSE WeeksOf(T)
  BY DEF DaysOf, WeeksOf
<1> HIDE DEF met, next, day, week
<1>5. /\ day \notin met.days /\ Cardinality(met.days) < DaysKept
           <=> day \notin DaysOf(T) /\ Cardinality(DaysOf(T)) < DaysKept
      /\ week \notin met.weeks /\ Cardinality(met.weeks) < WeeksKept
           <=> week \notin WeeksOf(T) /\ Cardinality(WeeksOf(T)) < WeeksKept
  BY <1>1, <1>3, FollowsTells
<1>6. byDay \/ byWeek <=> KeepCopy(b)
  <2>1. /\ NewestOf(DayOf, DaysKept, b) <=> day \notin DaysOf(T) /\ Cardinality(DaysOf(T)) < DaysKept
        /\ NewestOf(WeekOf, WeeksKept, b) <=> week \notin WeeksOf(T) /\ Cardinality(WeeksOf(T)) < WeeksKept
    BY DEF NewestOf, day, week
  <2> QED
    BY <1>1, <1>5, <2>1 DEF KeepCopy
<1>7. next.kept = (T \cup {b}) \cap Kept
  <2>1. b \in Kept <=> KeepCopy(b) \/ KeepFailed(b)
    BY DEF Kept
  <2> QED
    BY <1>2, <1>3, <1>6, <2>1
<1>8. Follows(next.days, DaysOf(T \cup {b}), DaysKept)
  <2>1. CASE b \in Copies
    <3>1. /\ next.days \in {met.days, met.days \cup {day}}
          /\ day \notin met.days /\ Cardinality(met.days) < DaysKept => next.days = met.days \cup {day}
      BY <1>2, <2>1
    <3>2. DaysOf(T \cup {b}) = DaysOf(T) \cup {day}
      BY <1>4, <2>1
    <3>3. Follows(next.days, DaysOf(T) \cup {day}, DaysKept)
      BY <1>1, <1>3, <3>1, FollowsOn
    <3> QED
      BY <3>2, <3>3
  <2>2. CASE b \notin Copies
    BY <1>2, <1>3, <1>4, <2>2
  <2> QED
    BY <2>1, <2>2
<1>9. Follows(next.weeks, WeeksOf(T \cup {b}), WeeksKept)
  <2>1. CASE b \in Copies
    <3>1. /\ next.weeks \in {met.weeks, met.weeks \cup {week}}
          /\ week \notin met.weeks /\ Cardinality(met.weeks) < WeeksKept => next.weeks = met.weeks \cup {week}
      BY <1>2, <2>1
    <3>2. WeeksOf(T \cup {b}) = WeeksOf(T) \cup {week}
      BY <1>4, <2>1
    <3>3. Follows(next.weeks, WeeksOf(T) \cup {week}, WeeksKept)
      BY <1>1, <1>3, <3>1, FollowsOn
    <3> QED
      BY <3>2, <3>3
  <2>2. CASE b \notin Copies
    BY <1>2, <1>3, <1>4, <2>2
  <2> QED
    BY <2>1, <2>2
<1> QED
  BY <1>7, <1>8, <1>9 DEF GoneThrough, next

LEMMA LoopGoesThrough == ASSUME BackupsTyped PROVE GoneThrough(Recorded)
<1>1. Recorded \in SUBSET Nat /\ IsFiniteSet(Recorded)
  <2>1. Recorded \subseteq 1..LastBackup /\ IsFiniteSet(1..LastBackup)
    BY BackupsAssumption, FS_Interval DEF Recorded, Numbers
  <2>2. IsFiniteSet(Recorded)
    BY <2>1, FS_Subset
  <2>3. Recorded \subseteq Nat
    BY <2>1
  <2> QED
    BY <2>2, <2>3
<1> DEFINE B == {T \in SUBSET Recorded : Newest(T) /\ ~GoneThrough(T)}
<1>2. ASSUME NEW T \in B PROVE \E R \in B : R \subseteq T /\ R # T
  <2>1. T \in SUBSET Recorded /\ Newest(T) /\ ~GoneThrough(T)
    OBVIOUS
  <2> HIDE DEF B
  <2>2. T \in SUBSET Nat /\ IsFiniteSet(T)
    BY <1>1, <2>1, FS_Subset
  <2>3. MetFrom(T) = IF T = {} THEN Met ELSE Meet(MetFrom(T \ {Min(T)}), Min(T))
    BY <2>2, MetStep
  <2>4. T # {}
    <3> SUFFICES ASSUME T = {} PROVE FALSE
      OBVIOUS
    <3>1. MetFrom(T) = Met /\ DaysOf(T) = {} /\ WeeksOf(T) = {} /\ IsFiniteSet({})
      BY <2>3, FS_EmptySet DEF DaysOf, WeeksOf
    <3> QED
      BY <2>1, <3>1 DEF GoneThrough, Follows, Met
  <2> DEFINE b == Min(T)
             R == T \ {b}
  <2>5. b \in T /\ \A y \in T : b <= y
    BY <2>2, <2>4, LeastIsOne
  <2>6. MetFrom(R \cup {b}) = Meet(MetFrom(R), b)
    <3>1. R \cup {b} = T
      BY <2>5
    <3> QED
      BY <2>3, <2>4, <3>1
  <2> HIDE DEF b
  <2>7. R = {c \in Recorded : c > b}
    <3>1. \A c \in R : c \in Recorded /\ c > b
      BY <1>1, <2>1, <2>5
    <3>2. \A c \in Recorded : c > b => c \in T /\ c # b
      BY <1>1, <2>1, <2>5 DEF Newest
    <3> QED
      BY <3>1, <3>2
  <2>8. DaysOf(R) = Since(DayOf, b) /\ WeeksOf(R) = Since(WeekOf, b)
    <3>1. Copies \cap R = Newer(b)
      <4>1. Copies \subseteq Recorded
        BY DEF Copies, Recorded, NoRow
      <4> QED
        BY <2>7, <4>1 DEF Newer
    <3> QED
      BY <3>1 DEF DaysOf, WeeksOf, Since
  <2>9. Newest(R)
    BY <1>1, <2>1, <2>7 DEF Newest
  <2>10. ~GoneThrough(R)
    <3> SUFFICES ASSUME GoneThrough(R) PROVE FALSE
      OBVIOUS
    <3>1. b \in Recorded /\ b \notin R /\ R \in SUBSET Recorded /\ R \cup {b} = T
      BY <2>1, <2>5
    <3> HIDE DEF R
    <3>2. GoneThrough(R \cup {b})
      BY <2>6, <2>8, <3>1, MeetTakes
    <3> QED
      BY <2>1, <3>1, <3>2
  <2>11. R \in B /\ R \subseteq T /\ R # T
    BY <2>1, <2>5, <2>9, <2>10 DEF B
  <2> QED
    BY <2>11
<1>3. B \in SUBSET (SUBSET Recorded)
  OBVIOUS
<1>4. Recorded \in SUBSET Recorded /\ Newest(Recorded)
  BY DEF Newest
<1> HIDE DEF B
<1>5. B = {}
  BY <1>1, <1>2, <1>3, NoSmallest
<1> QED
  BY <1>4, <1>5 DEF B

\* pruneBackups goes once from the newest backup to the oldest and fills two
\* sets of the days and weeks it has met; for any number of backups and of days
\* and weeks to keep, and any history of them, what it keeps is the newest of
\* each of the last days and of each of the last weeks, and what failed lately.
THEOREM PruningAlwaysKeepsTheNewest == Spec => []PruningKeepsTheNewest
<1>1. OperationsInv => PruningKeepsTheNewest
  <2> SUFFICES ASSUME OperationsInv PROVE PruningKeepsTheNewest
    OBVIOUS
  <2>1. GoneThrough(Recorded)
    BY LoopGoesThrough DEF OperationsInv, BackupsInv
  <2>2. Recorded \cap Kept = Kept
    BY DEF Kept
  <2> QED
    BY <2>1, <2>2 DEF GoneThrough, PruningKeepsTheNewest, KeptByLoop
<1> QED
  BY <1>1, OperationsInvariant, PTL

=============================================================================

----------------------------- MODULE Operations -----------------------------
(***************************************************************************)
(* What administrators and the maintenance pass do beside the charging:    *)
(* tasks and backups, which meet at the write lock, and the end of the     *)
(* server.                                                                 *)
(***************************************************************************)
EXTENDS MlTasks, Backups

CONSTANT Scenes  \* bound: what may happen in one behaviour

\* Requests are told apart, and a start asks for training or prediction.
ASSUME OperationsAssumption ==
    /\ None \notin Owners /\ Owners \cap Starters = {}
    /\ \A s \in Scenes : s.wants \in [Starters -> {"TRAIN", "PREDICT"}]

VARIABLE scene

vars == <<lockVars, mlVars, backupVars, scene>>

Init ==
    /\ scene \in Scenes
    /\ LockInit(scene.failures, scene.crashes)
    /\ MlInit(scene.wants) /\ BackupsInit

-----------------------------------------------------------------------------
\* Bounds: a start may wait for what was before, and a process may hang at
\* once, or never report a failure.
Over(t) == ~Active(db, t) /\ worker[t].watch \in {"None", "Finished"}
Starting(s) ==
    /\ s \in scene.starters /\ (scene.apart => MlIdle /\ \A t \in Tasks : Over(t))
    /\ BeginStart(s)
Speaking(t) == t \in scene.speaking /\ (OfTask(t) \/ (t \in scene.failing /\ ReportFailure(t)))
GoesOn(s) == EnterStart(s) \/ Launch(s) \/ EndStart(s)
Sweeping(m) == Sweep(m) \/ SweepTask(m) \/ SweepMark(m) \/ SweepGivesUp(m)
Answering(t, ok) == Finalize(t, ok) \/ Decide(t, ok) \/ RevokeToken(t, ok) \/ CallGivesUp(t, ok)
Watching(t) == ProcessEnded(t) \/ Conclude(t)
Retaining == scene.retention /\ (CleanModels \/ CleanModelsBlindly \/ \E t \in Tasks : MuchOlder(t))

Ml ==
    /\ \/ \E s \in Starters : Starting(s) \/ GoesOn(s)
       \/ \E m \in Sweepers : Sweeping(m)
       \/ \E t \in Tasks : Speaking(t) \/ Watching(t) \/ MarkFailed(t) \/ Older(t)
       \/ \E t \in Tasks, ok \in BOOLEAN : Answering(t, ok)
       \/ Retaining
    /\ UNCHANGED <<backupVars, scene>>

Requesting(o) == o \in scene.owners /\ BeginBackup(o)
Copying(o) == Snapshot(o) \/ EndBackup(o)
Pruning == Prune \/ Unlink \/ DeleteRow

Backing ==
    /\ \/ \E o \in Owners : Requesting(o) \/ Copying(o)
       \/ scene.verify /\ \E b \in Numbers : VerifyBackup(b)
       \/ Pruning
       \/ scene.owners # {} /\ NextDay
    /\ UNCHANGED <<mlVars, scene>>

Crash ==
    /\ mayCrash > 0 /\ mayCrash' = mayCrash - 1 /\ UNCHANGED mayFail
    /\ writer' = None
    /\ MlRestart(db) /\ BackupsRestart
    /\ UNCHANGED scene

ShutDown ==
    /\ mayCrash > 0 /\ mayCrash' = mayCrash - 1 /\ UNCHANGED mayFail
    /\ writer = None /\ UNCHANGED writer
    /\ MlIdle /\ BackupsIdle
    /\ MlShutDown /\ BackupsRestart
    /\ UNCHANGED scene

Next == Ml \/ Backing \/ Crash \/ ShutDown

Spec == Init /\ [][Next]_vars

\* Time passes, the maintenance pass comes every fifteen seconds, and threads
\* run.  A pass that finds the lock taken holds the mutex for five seconds, then
\* leaves it free for ten: a start that waits for it gets it (SF).  A process may
\* hang, and nobody has to ask for anything.
FairSpec ==
    /\ Spec
    /\ \A s \in Starters : SF_vars(GoesOn(s) /\ UNCHANGED <<backupVars, scene>>)
    /\ \A m \in Sweepers : WF_vars(Sweeping(m) /\ UNCHANGED <<backupVars, scene>>)
    /\ \A t \in Tasks : WF_vars(Older(t) /\ UNCHANGED <<backupVars, scene>>)
    /\ \A o \in Owners : WF_vars(Copying(o) /\ UNCHANGED <<mlVars, scene>>)

-----------------------------------------------------------------------------
\* A row that promises a file has it: the artifact of a qualified model of a
\* task that succeeded, until the retention of 90 days, and the copy of a
\* backup that the retention keeps; through crashes between file and row, rows
\* that are not committed, late and contradicting reports, and pruning.
FilesBehindRows ==
    /\ \A t \in Succeeded(db) : age[t] < 4 => t \in kept
    /\ \A b \in Kept : rows[b].status = "SUCCEEDED" => b \in stored

\* pruneBackups's comment, "keep the newest backup of each of the last seven
\* days plus the newest of each of the last four weeks": its one pass, which
\* fills two sets on the way, does this for every history of backups.
PruningKeepsTheNewest == KeptByLoop = Kept

\* Every task gets a verdict, whatever becomes of its process, its start and
\* the server, and every start comes to its end, although it takes the mutex
\* inside its transaction and the sweep writes under the mutex.
TasksEnd ==
    /\ \A t \in Tasks : Active(db, t) ~> ~Active(db, t)
    /\ \A s \in Starters : at[s] = "Begun" ~> at[s] = "Done"
=============================================================================

----------------------------- MODULE WriteLock -----------------------------
(***************************************************************************)
(* The write lock of the SQLite file.  A transaction of withTransaction    *)
(* holds it from BEGIN IMMEDIATE to its end; a single statement needs it   *)
(* for itself; whoever finds it taken waits, and throws after the busy     *)
(* timeout of five seconds.  Steps of one thread that nothing else of the  *)
(* model can come between are one step.                                    *)
(***************************************************************************)
EXTENDS Naturals

CONSTANTS
    None,
    MaxFailures,  \* bound: commits, files and processes that fail
    MaxCrashes    \* bound: restarts of the server

ASSUME WriteLockAssumption == MaxFailures \in Nat /\ MaxCrashes \in Nat

VARIABLES
    writer,   \* the transaction that holds the lock
    mayFail,  \* bound: the failures still to come
    mayCrash  \* bound: the restarts still to come

lockVars == <<writer, mayFail, mayCrash>>

LockInit(failures, crashes) == writer = None /\ mayFail = failures /\ mayCrash = crashes

\* One statement, or a transaction that is one step of the model.
Statement == writer = None /\ UNCHANGED lockVars
\* The busy timeout: somebody else held the lock all the time.
Busy == writer # None /\ UNCHANGED lockVars

BeginImmediate(c) == writer = None /\ writer' = c /\ UNCHANGED <<mayFail, mayCrash>>
EndTransaction(c) == writer = c /\ writer' = None /\ UNCHANGED mayCrash

Fault == mayFail > 0 /\ mayFail' = mayFail - 1
=============================================================================

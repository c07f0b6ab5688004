-------------------------- MODULE RequestHandling --------------------------
(***************************************************************************)
(* A request from the event loop to the database and back: the threads of  *)
(* the executor run the operations, those with an Idempotency-Key under    *)
(* its lease, while the deadline may have answered already; the periodic   *)
(* entry is the one that sweeps the keys; the process dies and starts      *)
(* again, or drains its pool and ends.                                     *)
(***************************************************************************)
EXTENDS Executor, Idempotency

CONSTANT Scenes  \* bound: what happens in one behaviour: the requests that are sent,
                 \* the entries that are scheduled, whether the process ends, the
                 \* calls on threads of their own, as many as they need, what is
                 \* asked, and the faults

ASSUME RequestHandlingAssumption ==
    /\ Calls \subseteq Requests
    /\ Scenes \subseteq [sent: SUBSET Requests, entries: SUBSET Entries,
                   ends: BOOLEAN, free: SUBSET Calls, asks: Asked,
                   faults: [fail: 0..MaxFailures, crash: 0..MaxCrashes,
                            stall: 0..MaxStalls]]

VARIABLE scene

vars == <<poolVars, callVars, scene>>

Init ==
    /\ PoolInit /\ CallsInit /\ scene \in Scenes
    /\ asks = scene.asks /\ mayFail = scene.faults.fail /\ mayCrash = scene.faults.crash
    /\ mayStall = scene.faults.stall

-----------------------------------------------------------------------------
\* A request is sent once; whoever asks again is another request.
Arrive(r) ==
    /\ r \in scene.sent /\ (r \in Calls => stage[r] = "New")
    /\ Dispatch(r)
    /\ UNCHANGED <<callVars, scene>>

\* The operation of a call is what the idempotency service makes of it.
CallStep(r) ==
    /\ r \in scene.free \/ \E w \in Workers : worker[w] = Operation(r)
    /\ Begin(r) \/ BeginFails(r) \/ Step(r)
    /\ UNCHANGED <<poolVars, scene>>

OperationEnds(w) ==
    /\ \A r \in Calls : worker[w] = Operation(r) => stage[r] = "Done"
    /\ Operate(w)
    /\ UNCHANGED <<callVars, scene>>

\* Mutation of Sweeping: the entry is done when there is nothing in the cache.
SweepingCache == IF \A k \in Keys : cache[k] = NoRecord THEN UNCHANGED callVars ELSE Cleanup
Sweeping == Cleanup

SweepKeys(w) == PeriodicDone(w) /\ Sweeping /\ UNCHANGED scene
SweepFreely == scene.free # {} /\ Sweeping /\ UNCHANGED <<poolVars, scene>>

Thread(w) ==
    \/ OperationEnds(w) \/ SweepKeys(w)
    \/ (TakeTask(w) \/ PostResult(w) \/ DeliverNotice(w)) /\ UNCHANGED <<callVars, scene>>

EventLoop(r) == (Timeout(r) \/ DeliverResult(r)) /\ UNCHANGED <<callVars, scene>>
Schedule(e) == e \in scene.entries /\ Tick(e) /\ UNCHANGED <<callVars, scene>>
Notify == NotifyOne /\ UNCHANGED <<callVars, scene>>
Leave == Main /\ UNCHANGED <<callVars, scene>>
Terminate == scene.ends /\ StopLoop /\ UNCHANGED <<callVars, scene>>
Wake(w) == WakeUp(w) /\ UNCHANGED <<callVars, scene>>

\* The process dies and is started again: it knows the database.
Restart ==
    /\ Crash
    /\ tasks' = <<>> /\ stopping' = FALSE /\ worker' = [w \in Workers |-> Idle]
    /\ signals' = 0 /\ shutdown' = "No" /\ ioRuns' = TRUE
    /\ inFlight' = {} /\ deadline' = {} /\ posted' = {} /\ claimed' = {}
    /\ responses' = [r \in Requests |-> 0]
    /\ accepted' = {} /\ operated' = {} /\ notified' = {}
    /\ UNCHANGED scene

Ages(r) == (LeaseOver(r) \/ AnswerOver(r)) /\ UNCHANGED <<poolVars, scene>>
LeaseAges(r) == LeaseOver(r) /\ UNCHANGED <<poolVars, scene>>

Next ==
    \/ \E r \in Requests : Arrive(r) \/ EventLoop(r)
    \/ \E w \in Workers : Thread(w) \/ Wake(w)
    \/ \E e \in Entries : Schedule(e)
    \/ \E r \in Calls : CallStep(r) \/ Ages(r)
    \/ SweepFreely \/ Notify \/ Leave \/ Terminate \/ Restart

Spec == Init /\ [][Next]_vars

\* Threads run, tasks end, notifications arrive, timers expire, the scheduler
\* ticks and time passes.  Nothing makes a client ask, wakes a thread without
\* a reason, or makes the process stop.
FairSpec ==
    /\ Spec /\ WF_vars(Notify) /\ WF_vars(Leave) /\ WF_vars(SweepFreely)
    /\ \A w \in Workers : WF_vars(Thread(w))
    /\ \A r \in Requests : WF_vars(EventLoop(r))
    /\ \A e \in Entries : WF_vars(Schedule(e))
    /\ \A r \in Calls : WF_vars(LeaseAges(r)) /\ WF_vars(CallStep(r))

-----------------------------------------------------------------------------
\* Every request is answered, however long its operation or its queue.
RequestsAreAnswered == \A r \in Requests : r \in accepted ~> responses[r] = 1 \/ r \notin accepted \/ ~ioRuns

\* No key is stuck: a lease, also one that a crash or a failed delete left
\* behind, ends while the process runs.
LeasesEnd == \A k \in Keys, r \in Calls : db[k] = Lease(r) ~> db[k] # Lease(r) \/ ~ioRuns

\* The deadline answers 503 for an operation that goes on: whatever the client
\* is told, the operation ends by itself, with a result that its key can tell;
\* and the table that keeps the results never outgrows its capacity for it,
\* whatever the mixture of requests, sweeps and restarts.  A handler that stalls
\* past its lease takes that from its own key, and from no other.
LateResultsCanBeAsked ==
    /\ CallsTypeOK /\ Cardinality({k \in Keys \ StalledKeys : db[k] # NoRecord}) <= Capacity
    /\ \A r \in effects :
          /\ KeyOf(r) \notin StalledKeys
          /\ KeyOf(r) \in Permanent \/ age[r] < 2
          => db[KeyOf(r)] = [by |-> r, result |-> TRUE]

\* Seen from those who ask, all of this is a service that executes once per key.
Once == INSTANCE OncePerKey WITH
    open <- {r \in Calls : stage[r] # "Done"}, stale <- {r \in Calls : age[r] = 2},
    spoilt <- StalledKeys

\* Every step, of whichever thread, and every crash, is one of that service: a
\* call has an effect only when none of its key is kept, is told only what is
\* kept, and has neither had an effect nor will have one when it is refused; but
\* for what comes of a key whose handler stalls.
ImplementsOncePerKey == Once!OnceSpec

=============================================================================

------------------------------ MODULE Executor ------------------------------
(***************************************************************************)
(* The bounded executor with its condition variable, the periodic entries  *)
(* and the requests that hand it work, the deadline that races the result  *)
(* of a request, the notices of revoked sessions that running tasks submit *)
(* themselves, and the shutdown, which drains what was accepted.           *)
(***************************************************************************)
EXTENDS Naturals, Sequences, FiniteSets

CONSTANTS
    Workers,    \* threads of the pool
    QueueCapacity, \* queueCapacity_
    Requests,   \* HTTP requests for dispatchBlocking
    Revoking,   \* the requests whose operation revokes a session
    Entries     \* periodic entries that submit their work

ASSUME ExecutorAssumption ==
    /\ QueueCapacity \in Nat \ {0} /\ Workers # {} /\ IsFiniteSet(Workers)
    /\ Revoking \subseteq Requests /\ Requests \cap Entries = {}

VARIABLES
    tasks,      \* tasks_
    stopping,   \* stopping_
    worker,     \* what each thread does: Idle looks at the queue, Waiting sleeps
    signals,    \* notify_one calls between the unlock and the wake-up
    shutdown,   \* how far shutdown() is
    ioRuns,     \* whether the event loop of Crow runs
    inFlight,   \* the entries that are flagged as in flight
    deadline,   \* the requests whose timer is armed
    posted,     \* the requests whose result waits for the event loop
    claimed,    \* claimed of the dispatch state
    responses,    \* how often the response of each request was ended
    accepted,   \* the requests that the pool accepted
    operated,    \* the requests whose operation ran
    notified    \* the requests whose revocation reached the hub

poolVars == <<tasks, stopping, worker, signals, shutdown, ioRuns, inFlight, deadline, posted, claimed,
          responses, accepted, operated, notified>>
pool == <<stopping, shutdown>>
loop == <<ioRuns, inFlight, deadline, posted, claimed, responses>>

Idle == [of |-> "Idle"]
Waiting == [of |-> "Waiting"]
Exited == [of |-> "Exited"]
\* A request runs its operation, then posts the result.
Operation(r) == [of |-> "operation", id |-> r]
Result(r) == [of |-> "result", id |-> r]
Notice(r) == [of |-> "notice", id |-> r]
Periodic(e) == [of |-> "periodic", id |-> e]
Task == {Operation(r) : r \in Requests} \cup {Notice(r) : r \in Revoking}
            \cup {Periodic(e) : e \in Entries}

PoolTypeOK ==
    /\ tasks \in Seq(Task) /\ Len(tasks) <= QueueCapacity
    /\ stopping \in BOOLEAN /\ ioRuns \in BOOLEAN
    /\ worker \in [Workers -> Task \cup {Result(r) : r \in Requests} \cup {Idle, Waiting, Exited}]
    /\ signals \in 0..Cardinality(Workers)
    /\ shutdown \in {"No", "Stopping", "Joining", "Returned"}
    /\ inFlight \subseteq Entries
    /\ deadline \subseteq Requests /\ posted \subseteq Requests /\ claimed \subseteq Requests
    /\ responses \in [Requests -> 0..1]
    /\ accepted \subseteq Requests /\ operated \subseteq Requests /\ notified \subseteq Revoking

PoolInit ==
    /\ tasks = <<>> /\ stopping = FALSE
    /\ worker = [w \in Workers |-> Idle]
    /\ signals = 0 /\ shutdown = "No" /\ ioRuns = TRUE
    /\ inFlight = {} /\ deadline = {} /\ posted = {} /\ claimed = {}
    /\ responses = [r \in Requests |-> 0]
    /\ accepted = {} /\ operated = {} /\ notified = {}

-----------------------------------------------------------------------------
Accepts(q) == ~stopping /\ Len(q) < QueueCapacity

\* submit: under the mutex the task is queued; notify_one comes after it.
\* Bound: more calls under way than there are threads change nothing.
Submitted(task) ==
    /\ tasks' = Append(tasks, task)
    /\ signals' = IF signals < Cardinality(Workers) THEN signals + 1 ELSE signals
NotSubmitted == UNCHANGED <<tasks, signals>>

\* notify_one reaches a sleeping thread, if there is one.
NotifyOne ==
    /\ signals > 0 /\ signals' = signals - 1
    /\ IF \E w \in Workers : worker[w] = Waiting
       THEN \E w \in Workers : worker[w] = Waiting /\ worker' = [worker EXCEPT ![w] = Idle]
       ELSE UNCHANGED worker
    /\ UNCHANGED <<tasks, pool, loop, accepted, operated, notified>>

\* A condition variable may wake up for no reason.
WakeUp(w) ==
    /\ worker[w] = Waiting
    /\ worker' = [worker EXCEPT ![w] = Idle]
    /\ UNCHANGED <<tasks, pool, signals, loop, accepted, operated, notified>>

\* Mutation of MayExit: what is queued is left behind.
MayExitAtOnce == stopping
MayExit == stopping /\ tasks = <<>>
\* Mutation of MaySleep: a thread sleeps without a look at what came meanwhile.
MaySleepAtOnce == ~stopping
MaySleep == ~stopping /\ tasks = <<>>

\* runWorker, under the mutex: take a task, sleep, or exit.
TakeTask(w) ==
    /\ worker[w] = Idle
    /\ \/ /\ MayExit
          /\ worker' = [worker EXCEPT ![w] = Exited]
          /\ UNCHANGED tasks
       \/ /\ ~MayExit /\ tasks # <<>>
          /\ worker' = [worker EXCEPT ![w] = Head(tasks)]
          /\ tasks' = Tail(tasks)
       \/ /\ MaySleep
          /\ worker' = [worker EXCEPT ![w] = Waiting]
          /\ UNCHANGED tasks
    /\ UNCHANGED <<pool, signals, loop, accepted, operated, notified>>

-----------------------------------------------------------------------------
\* dispatchBlocking on the event loop: the timer is armed; a refused request
\* is answered 429 at once.
Dispatch(r) ==
    /\ ioRuns /\ r \notin accepted \cup claimed
    /\ \/ /\ Accepts(tasks)
          /\ Submitted(Operation(r))
          /\ accepted' = accepted \cup {r} /\ deadline' = deadline \cup {r}
          /\ UNCHANGED <<claimed, responses>>
       \/ /\ ~Accepts(tasks)
          /\ NotSubmitted
          /\ claimed' = claimed \cup {r} /\ responses' = [responses EXCEPT ![r] = @ + 1]
          /\ UNCHANGED <<accepted, deadline>>
    /\ UNCHANGED <<worker, pool, ioRuns, inFlight, posted, operated, notified>>

\* Mutations of MayAnswer: the racer is not asked, or the timer leaves the
\* answer to the result.
MayAnswerAnyway(r) == TRUE
MayAnswerResult(r) == r \notin claimed /\ r \in posted
MayAnswer(r) == r \notin claimed

Answer(r) ==
    /\ claimed' = claimed \cup {r}
    /\ responses' = [responses EXCEPT ![r] = IF MayAnswer(r) THEN @ + 1 ELSE @]

\* The deadline: 503, whatever becomes of the operation.
Timeout(r) ==
    /\ ioRuns /\ r \in deadline
    /\ deadline' = deadline \ {r}
    /\ Answer(r)
    /\ UNCHANGED <<tasks, signals, worker, pool, ioRuns, inFlight, posted, accepted, operated, notified>>

Fallback(r) == notified' = notified \cup {r}

\* The operation of a request; the observer of a revocation hands the notice
\* to the pool it runs on, or closes the session itself.
Operate(w) ==
    \E r \in Requests :
        /\ worker[w] = Operation(r)
        /\ worker' = [worker EXCEPT ![w] = Result(r)]
        /\ operated' = operated \cup {r}
        /\ \/ r \notin Revoking /\ NotSubmitted /\ UNCHANGED notified
           \/ r \in Revoking /\ Accepts(tasks) /\ Submitted(Notice(r)) /\ UNCHANGED notified
           \/ r \in Revoking /\ ~Accepts(tasks) /\ NotSubmitted /\ Fallback(r)
        /\ UNCHANGED <<pool, loop, accepted>>

\* Its result, or the response to whatever it threw, goes to the event loop.
PostResult(w) ==
    \E r \in Requests :
        /\ worker[w] = Result(r)
        /\ worker' = [worker EXCEPT ![w] = Idle]
        /\ posted' = posted \cup {r}
        /\ UNCHANGED <<tasks, signals, pool, ioRuns, inFlight, deadline, claimed, responses, accepted,
                       operated, notified>>

\* The posted handler, unless the deadline was first.
DeliverResult(r) ==
    /\ ioRuns /\ r \in posted
    /\ posted' = posted \ {r}
    /\ deadline' = IF r \in claimed THEN deadline ELSE deadline \ {r}
    /\ Answer(r)
    /\ UNCHANGED <<tasks, signals, worker, pool, ioRuns, inFlight, accepted, operated, notified>>

DeliverNotice(w) ==
    \E r \in Revoking :
        /\ worker[w] = Notice(r)
        /\ worker' = [worker EXCEPT ![w] = Idle]
        /\ notified' = notified \cup {r}
        /\ UNCHANGED <<tasks, signals, pool, loop, accepted, operated>>

-----------------------------------------------------------------------------
\* Mutation of Startable: the flag is not asked.
StartableAgain(e) == TRUE
Startable(e) == e \notin inFlight
\* Mutation of DoneWhenRefused: only work that ran calls done.
NeverDone(e) == inFlight \cup {e}
DoneWhenRefused(e) == inFlight

\* PeriodicScheduler::tick for one entry whose interval is over: flagged, then
\* submitted, or done at once.
Tick(e) ==
    /\ ioRuns /\ Startable(e)
    /\ \/ Accepts(tasks) /\ Submitted(Periodic(e)) /\ inFlight' = inFlight \cup {e}
       \/ ~Accepts(tasks) /\ NotSubmitted /\ inFlight' = DoneWhenRefused(e)
    /\ UNCHANGED <<worker, pool, ioRuns, deadline, posted, claimed, responses, accepted, operated,
                   notified>>

\* The work of an entry ends, also by an exception, and calls done.
PeriodicDone(w) ==
    \E e \in Entries :
        /\ worker[w] = Periodic(e)
        /\ worker' = [worker EXCEPT ![w] = Idle]
        /\ inFlight' = inFlight \ {e}
        /\ UNCHANGED <<tasks, signals, pool, ioRuns, deadline, posted, claimed, responses, accepted,
                       operated, notified>>

-----------------------------------------------------------------------------
\* A signal ends the event loop; main then shuts the pool down ...
StopLoop ==
    /\ ioRuns /\ ioRuns' = FALSE
    /\ UNCHANGED <<tasks, signals, worker, pool, inFlight, deadline, posted, claimed, responses,
                   accepted, operated, notified>>

StartShutdown ==
    /\ ~ioRuns /\ shutdown = "No"
    /\ stopping' = TRUE /\ shutdown' = "Stopping"
    /\ UNCHANGED <<tasks, signals, worker, loop, accepted, operated, notified>>

\* Mutation of Woken: one thread is told, the others sleep on.
WokenOne == {CHOOSE w \in Workers : worker[w] = Waiting \/ \A v \in Workers : worker[v] # Waiting}
Woken == Workers

NotifyAll ==
    /\ shutdown = "Stopping" /\ shutdown' = "Joining"
    /\ worker' = [w \in Workers |-> IF worker[w] = Waiting /\ w \in Woken THEN Idle ELSE worker[w]]
    /\ UNCHANGED <<tasks, signals, stopping, loop, accepted, operated, notified>>

\* ... and joins its threads.
Joined ==
    /\ shutdown = "Joining" /\ \A w \in Workers : worker[w] = Exited
    /\ shutdown' = "Returned"
    /\ UNCHANGED <<tasks, signals, stopping, worker, loop, accepted, operated, notified>>

Main == StartShutdown \/ NotifyAll \/ Joined

-----------------------------------------------------------------------------
\* The deadline, the result and the refusal race for one response: it is ended
\* by one of them, and a request answered 429 has done nothing.  (The types, a
\* response at most among them, are part of it.)
AnsweredOnce ==
    /\ PoolTypeOK
    /\ \A r \in Requests :
          /\ responses[r] = 1 <=> r \in claimed
          /\ r \in operated => r \in accepted

\* main.cpp, "drain all accepted work": when shutdown returns nothing accepted
\* is left undone and no revoked session has been forgotten, also not one that
\* was revoked while the pool was full or stopping.
NothingLeftBehind ==
    shutdown = "Returned" =>
        /\ tasks = <<>> /\ accepted \subseteq operated
        /\ operated \cap Revoking \subseteq notified

\* No wake-up is lost: unless a notification is on its way to everyone asleep,
\* each queued task has a notification or a thread of its own that will look at
\* the queue before it sleeps; no task waits for a busy thread beside one that
\* sleeps unnoticed.  And nobody sleeps any longer when the threads are joined.
NoWakeUpLost ==
    LET asleep == {w \in Workers : worker[w] = Waiting}
        looking == {w \in Workers : worker[w] = Idle}
    IN /\ \/ Cardinality(asleep) <= signals
          \/ Len(tasks) <= signals + Cardinality(looking)
       /\ shutdown \in {"Joining", "Returned"} => asleep = {}

\* PeriodicScheduler's comment: an entry that is still being executed is left
\* out.  Passes of one entry never overlap, whose work (the outbox, the sweeps)
\* counts on it: its flag is up exactly while one pass is queued or running.
EntriesRunAlone ==
    \A e \in Entries :
        LET queued == {i \in 1..Len(tasks) : tasks[i] = Periodic(e)}
            running == {w \in Workers : worker[w] = Periodic(e)}
        IN Cardinality(queued) + Cardinality(running) = IF e \in inFlight THEN 1 ELSE 0

\* The pool goes on until it ends.  No entry stalls: its flag comes down again,
\* also when the queue was full.  And shutdown returns, though threads sleep when
\* it is called, unless the process is killed meanwhile.
PoolGoesOn ==
    /\ \A e \in Entries : e \in inFlight ~> e \notin inFlight
    /\ stopping ~> shutdown = "Returned" \/ ~stopping
=============================================================================

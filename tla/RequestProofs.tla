---------------------------- MODULE RequestProofs ----------------------------
(***************************************************************************)
(* What holds of the pool and of the idempotency service for any number of *)
(* threads, requests, keys and scenes.  Every step is one of the pool, one *)
(* of the service, or both; each has an invariant of its own.              *)
(***************************************************************************)
EXTENDS RequestHandling, FiniteSetTheorems, TLAPS

(***************************************************************************)
(* The pool.                                                               *)
(***************************************************************************)
In(s, t) == \E i \in 1..Len(s) : s[i] = t
AtWork(t) == \E w \in Workers : worker[w] = t
UnderWay(t) == In(tasks, t) \/ AtWork(t)

\* A request is ended by whoever claims it.
Ended == \A r \in Requests : responses[r] = 1 <=> r \in claimed

\* What was accepted has run, waits or runs; so has the notice of a revocation.
NoneLost ==
    /\ operated \subseteq accepted
    /\ \A r \in Requests : UnderWay(Operation(r)) => r \in accepted
    /\ \A r \in accepted : r \in operated \/ UnderWay(Operation(r))
    /\ \A r \in operated : r \in Revoking => r \in notified \/ UnderWay(Notice(r))

\* Threads leave when nothing is queued and nothing can be queued any more.
Leaving ==
    /\ stopping <=> shutdown # "No"
    /\ \A w \in Workers : worker[w] = Exited => stopping /\ tasks = <<>>
    /\ shutdown = "Returned" => \A w \in Workers : worker[w] = Exited

PoolInv == PoolTypeOK /\ Ended /\ NoneLost /\ Leaving

\* The kinds of work are told apart.
LEMMA Kinds ==
    /\ \A r, s : Operation(r) = Operation(s) => r = s
    /\ \A r, s : Notice(r) = Notice(s) => r = s
    /\ \A r, s : Operation(r) # Result(s) /\ Operation(r) # Notice(s) /\ Operation(r) # Periodic(s)
    /\ \A r, s : Notice(r) # Result(s) /\ Notice(r) # Periodic(s)
    /\ \A r : Operation(r) \notin {Idle, Waiting, Exited}
    /\ \A r : Notice(r) \notin {Idle, Waiting, Exited}
    /\ \A r : Result(r) \notin {Idle, Waiting, Exited}
    /\ \A r : Periodic(r) \notin {Idle, Waiting, Exited}
    /\ Idle # Waiting /\ Idle # Exited /\ Waiting # Exited
  BY DEF Operation, Notice, Result, Periodic, Idle, Waiting, Exited

\* A queue after a task was added, and after one was taken.
LEMMA QueueGrows ==
    ASSUME NEW S, NEW s \in Seq(S), NEW x \in S
    PROVE  /\ Append(s, x) \in Seq(S) /\ Len(Append(s, x)) = Len(s) + 1
           /\ \A t : In(Append(s, x), t) <=> In(s, t) \/ t = x
  <1>1. ASSUME NEW t, In(s, t) \/ t = x
        PROVE  In(Append(s, x), t)
    <2>1. CASE t = x
      <3>1. Append(s, x)[Len(s) + 1] = t /\ Len(s) + 1 \in 1..Len(Append(s, x))
        BY <2>1
      <3> QED BY <3>1 DEF In
    <2>2. CASE In(s, t)
      <3>1. PICK i \in 1..Len(s) : s[i] = t
        BY <2>2 DEF In
      <3>2. Append(s, x)[i] = t /\ i \in 1..Len(Append(s, x))
        BY <3>1
      <3> QED BY <3>2 DEF In
    <2> QED BY <1>1, <2>1, <2>2
  <1>2. ASSUME NEW t, In(Append(s, x), t)
        PROVE  In(s, t) \/ t = x
    BY <1>2 DEF In
  <1> QED BY <1>1, <1>2

LEMMA QueueShrinks ==
    ASSUME NEW S, NEW s \in Seq(S), s # <<>>
    PROVE  /\ Tail(s) \in Seq(S) /\ Len(Tail(s)) = Len(s) - 1 /\ Head(s) \in S /\ Len(s) # 0
           /\ \A t : In(s, t) <=> In(Tail(s), t) \/ t = Head(s)
  <1>1. ASSUME NEW t, In(s, t)
        PROVE  In(Tail(s), t) \/ t = Head(s)
    <2>1. PICK i \in 1..Len(s) : s[i] = t
      BY <1>1 DEF In
    <2>2. CASE i = 1
      BY <2>1, <2>2
    <2>3. CASE i # 1
      <3>1. i - 1 \in 1..Len(Tail(s)) /\ Tail(s)[i - 1] = t
        BY <2>1, <2>3
      <3> QED BY <3>1 DEF In
    <2> QED BY <2>2, <2>3
  <1>2. ASSUME NEW t, In(Tail(s), t) \/ t = Head(s)
        PROVE  In(s, t)
    <2>1. CASE t = Head(s)
      <3>1. s[1] = t /\ 1 \in 1..Len(s)
        BY <2>1
      <3> QED BY <3>1 DEF In
    <2>2. CASE In(Tail(s), t)
      <3>1. PICK i \in 1..Len(Tail(s)) : Tail(s)[i] = t
        BY <2>2 DEF In
      <3>2. s[i + 1] = t /\ i + 1 \in 1..Len(s)
        BY <3>1
      <3> QED BY <3>2 DEF In
    <2> QED BY <1>2, <2>1, <2>2
  <1> QED BY <1>1, <1>2

\* A task is accepted while nothing is being stopped.
LEMMA SubmitKeeps ==
    ASSUME PoolInv, NEW t \in Task, Accepts(tasks), Submitted(t)
    PROVE  /\ tasks' \in Seq(Task) /\ Len(tasks') <= QueueCapacity
           /\ signals' \in 0..Cardinality(Workers)
           /\ \A u : In(tasks', u) <=> In(tasks, u) \/ u = t
           /\ ~stopping /\ \A w \in Workers : worker[w] # Exited
           /\ shutdown = "No"
  <1>1. /\ tasks \in Seq(Task) /\ Len(tasks) \in Nat /\ Len(tasks) < QueueCapacity
        /\ tasks' = Append(tasks, t) /\ ~stopping
    BY DEF PoolInv, PoolTypeOK, Accepts, Submitted
  <1>2. /\ tasks' \in Seq(Task) /\ Len(tasks') = Len(tasks) + 1
        /\ \A u : In(tasks', u) <=> In(tasks, u) \/ u = t
    BY <1>1, QueueGrows
  <1>3. Cardinality(Workers) \in Nat
    BY ExecutorAssumption, FS_CardinalityType
  <1>4. signals' \in 0..Cardinality(Workers)
    BY <1>3 DEF PoolInv, PoolTypeOK, Submitted
  <1>5. Len(tasks') <= QueueCapacity
    BY <1>1, <1>2, ExecutorAssumption
  <1> QED BY <1>1, <1>2, <1>4, <1>5 DEF PoolInv, Leaving

LEMMA PoolKept ==
    ASSUME PoolInv, UNCHANGED poolVars
    PROVE  PoolInv'
  BY DEF PoolInv, PoolTypeOK, Ended, NoneLost, Leaving, UnderWay, AtWork, In, poolVars

LEMMA DispatchKeeps ==
    ASSUME PoolInv, NEW r \in Requests, Dispatch(r)
    PROVE  PoolInv'
  <1> USE DEF PoolInv, pool, loop
  <1>1. responses[r] = 0 /\ r \notin accepted /\ r \notin claimed
    BY DEF Ended, PoolTypeOK, Dispatch
  <1>2. CASE Accepts(tasks) /\ Submitted(Operation(r))
             /\ accepted' = accepted \cup {r} /\ deadline' = deadline \cup {r}
             /\ UNCHANGED <<claimed, responses>>
    <2>1. Operation(r) \in Task
      BY DEF Task
    <2>2. /\ tasks' \in Seq(Task) /\ Len(tasks') <= QueueCapacity
          /\ signals' \in 0..Cardinality(Workers)
          /\ \A u : In(tasks', u) <=> In(tasks, u) \/ u = Operation(r)
          /\ ~stopping /\ \A w \in Workers : worker[w] # Exited
          /\ shutdown = "No"
      BY <1>2, <2>1, SubmitKeeps
    <2>3. UNCHANGED <<worker, stopping, shutdown, ioRuns, inFlight, posted, operated, notified>>
      BY DEF Dispatch
    <2>4. PoolTypeOK'
      BY <1>2, <2>2, <2>3 DEF PoolTypeOK
    <2>5. Ended'
      BY <1>2 DEF Ended
    <2>6. NoneLost'
      BY <1>2, <2>2, <2>3, Kinds DEF NoneLost, UnderWay, AtWork
    <2>7. Leaving'
      BY <2>2, <2>3 DEF Leaving
    <2> QED BY <2>4, <2>5, <2>6, <2>7
  <1>3. CASE NotSubmitted /\ claimed' = claimed \cup {r}
             /\ responses' = [responses EXCEPT ![r] = @ + 1] /\ UNCHANGED <<accepted, deadline>>
    <2>1. UNCHANGED <<tasks, signals, worker, stopping, shutdown, ioRuns, inFlight, posted,
                      operated, notified>>
      BY <1>3 DEF Dispatch, NotSubmitted
    <2>2. PoolTypeOK'
      BY <1>1, <1>3, <2>1 DEF PoolTypeOK
    <2>3. Ended'
      BY <1>1, <1>3, <2>1 DEF Ended, PoolTypeOK
    <2>4. NoneLost' /\ Leaving'
      BY <1>3, <2>1 DEF NoneLost, UnderWay, AtWork, Leaving
    <2> QED BY <2>2, <2>3, <2>4
  <1> QED BY <1>2, <1>3 DEF Dispatch

\* The answer of whoever is first.
LEMMA AnswerKeeps ==
    ASSUME PoolInv, NEW r \in Requests, Answer(r), deadline' \subseteq deadline, posted' \subseteq posted,
           UNCHANGED <<tasks, signals, worker, pool, ioRuns, inFlight, accepted, operated, notified>>
    PROVE  PoolInv'
  <1> USE DEF PoolInv, pool
  <1>1. PoolTypeOK' /\ Ended'
    BY DEF Answer, MayAnswer, PoolTypeOK, Ended
  <1>2. NoneLost' /\ Leaving'
    BY DEF NoneLost, UnderWay, AtWork, Leaving
  <1> QED BY <1>1, <1>2

LEMMA OperateKeeps ==
    ASSUME PoolInv, NEW w \in Workers, Operate(w)
    PROVE  PoolInv'
  <1> USE DEF PoolInv, pool, loop
  <1>1. PICK r \in Requests :
          /\ worker[w] = Operation(r)
          /\ worker' = [worker EXCEPT ![w] = Result(r)]
          /\ operated' = operated \cup {r}
          /\ \/ r \notin Revoking /\ NotSubmitted /\ UNCHANGED notified
             \/ r \in Revoking /\ Accepts(tasks) /\ Submitted(Notice(r)) /\ UNCHANGED notified
             \/ r \in Revoking /\ ~Accepts(tasks) /\ NotSubmitted /\ Fallback(r)
          /\ UNCHANGED <<pool, loop, accepted>>
    BY DEF Operate
  <1>2. /\ \A t : AtWork(t)' => AtWork(t) \/ t = Result(r)
        /\ \A t : AtWork(t) => AtWork(t)' \/ t = Operation(r)
        /\ \A v \in Workers : worker'[v] = Exited => worker[v] = Exited
        /\ worker[w] # Exited /\ shutdown # "Returned" /\ AtWork(Operation(r))
    BY <1>1, Kinds DEF AtWork, PoolTypeOK, Leaving
  <1>3. worker' \in [Workers -> Task \cup {Result(s) : s \in Requests} \cup {Idle, Waiting, Exited}]
    BY <1>1 DEF PoolTypeOK
  <1>4. r \in accepted
    BY <1>2 DEF NoneLost, UnderWay
  <1>5. CASE NotSubmitted /\ (r \in Revoking => Fallback(r)) /\ (r \notin Revoking => UNCHANGED notified)
    <2>1. PoolTypeOK'
      BY <1>1, <1>3, <1>5 DEF PoolTypeOK, NotSubmitted, Fallback
    <2>2. Ended' /\ Leaving'
      BY <1>1, <1>2, <1>5 DEF Ended, Leaving, NotSubmitted
    <2>3. NoneLost'
      BY <1>1, <1>2, <1>4, <1>5, Kinds DEF NoneLost, UnderWay, NotSubmitted, Fallback
    <2> QED BY <2>1, <2>2, <2>3
  <1>6. CASE r \in Revoking /\ Accepts(tasks) /\ Submitted(Notice(r)) /\ UNCHANGED notified
    <2>1. Notice(r) \in Task
      BY <1>6 DEF Task
    <2>2. /\ tasks' \in Seq(Task) /\ Len(tasks') <= QueueCapacity
          /\ signals' \in 0..Cardinality(Workers)
          /\ \A u : In(tasks', u) <=> In(tasks, u) \/ u = Notice(r)
          /\ ~stopping /\ \A v \in Workers : worker[v] # Exited
          /\ shutdown = "No"
      BY <1>6, <2>1, SubmitKeeps
    <2>3. PoolTypeOK'
      BY <1>1, <1>3, <1>6, <2>2 DEF PoolTypeOK
    <2>4. Ended' /\ Leaving'
      BY <1>1, <1>2, <2>2 DEF Ended, Leaving
    <2>5. NoneLost'
      BY <1>1, <1>2, <1>4, <1>6, <2>2, Kinds DEF NoneLost, UnderWay
    <2> QED BY <2>3, <2>4, <2>5
  <1> QED BY <1>1, <1>5, <1>6

\* A thread that ends what it did, or was woken, looks at the queue again.
LEMMA IdleAgain ==
    ASSUME PoolInv, NEW w \in Workers, worker[w] # Exited, worker' = [worker EXCEPT ![w] = Idle]
    PROVE  /\ worker' \in [Workers -> Task \cup {Result(s) : s \in Requests} \cup {Idle, Waiting, Exited}]
           /\ \A t : AtWork(t)' => AtWork(t) \/ t = Idle
           /\ \A t : AtWork(t) => AtWork(t)' \/ t = worker[w]
           /\ \A v \in Workers : worker'[v] = Exited => worker[v] = Exited
           /\ shutdown # "Returned"
  BY Kinds DEF PoolInv, PoolTypeOK, AtWork, Leaving

LEMMA PostResultKeeps ==
    ASSUME PoolInv, NEW w \in Workers, PostResult(w)
    PROVE  PoolInv'
  <1> USE DEF PoolInv, pool
  <1>1. PICK r \in Requests :
          /\ worker[w] = Result(r)
          /\ worker' = [worker EXCEPT ![w] = Idle]
          /\ posted' = posted \cup {r}
          /\ UNCHANGED <<tasks, signals, pool, ioRuns, inFlight, deadline, claimed, responses, accepted,
                         operated, notified>>
    BY DEF PostResult
  <1>2. worker[w] # Exited
    BY <1>1, Kinds
  <1>3. PoolTypeOK' /\ Ended' /\ Leaving'
    BY <1>1, <1>2, IdleAgain DEF PoolTypeOK, Ended, Leaving
  <1>4. NoneLost'
    BY <1>1, <1>2, IdleAgain, Kinds DEF NoneLost, UnderWay
  <1> QED BY <1>3, <1>4

LEMMA DeliverNoticeKeeps ==
    ASSUME PoolInv, NEW w \in Workers, DeliverNotice(w)
    PROVE  PoolInv'
  <1> USE DEF PoolInv, pool, loop
  <1>1. PICK r \in Revoking :
          /\ worker[w] = Notice(r)
          /\ worker' = [worker EXCEPT ![w] = Idle]
          /\ notified' = notified \cup {r}
          /\ UNCHANGED <<tasks, signals, pool, loop, accepted, operated>>
    BY DEF DeliverNotice
  <1>2. worker[w] # Exited
    BY <1>1, Kinds
  <1>3. PoolTypeOK' /\ Ended' /\ Leaving'
    BY <1>1, <1>2, IdleAgain DEF PoolTypeOK, Ended, Leaving
  <1>4. NoneLost'
    BY <1>1, <1>2, IdleAgain, Kinds DEF NoneLost, UnderWay
  <1> QED BY <1>3, <1>4

LEMMA PeriodicDoneKeeps ==
    ASSUME PoolInv, NEW w \in Workers, PeriodicDone(w)
    PROVE  PoolInv'
  <1> USE DEF PoolInv, pool
  <1>1. PICK e \in Entries :
          /\ worker[w] = Periodic(e)
          /\ worker' = [worker EXCEPT ![w] = Idle]
          /\ inFlight' = inFlight \ {e}
          /\ UNCHANGED <<tasks, signals, pool, ioRuns, deadline, posted, claimed, responses, accepted,
                         operated, notified>>
    BY DEF PeriodicDone
  <1>2. worker[w] # Exited
    BY <1>1, Kinds
  <1>3. PoolTypeOK' /\ Ended' /\ Leaving'
    BY <1>1, <1>2, IdleAgain DEF PoolTypeOK, Ended, Leaving
  <1>4. NoneLost'
    BY <1>1, <1>2, IdleAgain, Kinds DEF NoneLost, UnderWay
  <1> QED BY <1>3, <1>4

LEMMA WakeUpKeeps ==
    ASSUME PoolInv, NEW w \in Workers, worker[w] = Waiting, worker' = [worker EXCEPT ![w] = Idle],
           signals' \in 0..Cardinality(Workers),
           UNCHANGED <<tasks, pool, loop, accepted, operated, notified>>
    PROVE  PoolInv'
  <1> USE DEF PoolInv, pool, loop
  <1>1. worker[w] # Exited
    BY Kinds
  <1>2. PoolTypeOK' /\ Ended' /\ Leaving'
    BY <1>1, IdleAgain DEF PoolTypeOK, Ended, Leaving
  <1>3. NoneLost'
    BY <1>1, IdleAgain, Kinds DEF NoneLost, UnderWay
  <1> QED BY <1>2, <1>3

LEMMA NotifyOneKeeps ==
    ASSUME PoolInv, NotifyOne
    PROVE  PoolInv'
  <1>1. Cardinality(Workers) \in Nat
    BY ExecutorAssumption, FS_CardinalityType
  <1>2. signals' \in 0..Cardinality(Workers)
    BY <1>1 DEF PoolInv, PoolTypeOK, NotifyOne
  <1>3. CASE UNCHANGED worker
    BY <1>2, <1>3 DEF NotifyOne, pool, loop, PoolInv, PoolTypeOK, Ended, NoneLost, Leaving, UnderWay,
       AtWork
  <1>4. CASE \E w \in Workers : worker[w] = Waiting /\ worker' = [worker EXCEPT ![w] = Idle]
    BY <1>2, <1>4, WakeUpKeeps DEF NotifyOne
  <1> QED BY <1>3, <1>4 DEF NotifyOne

LEMMA TakeTaskKeeps ==
    ASSUME PoolInv, NEW w \in Workers, TakeTask(w)
    PROVE  PoolInv'
  <1> USE DEF PoolInv, pool, loop
  <1>1. worker[w] = Idle /\ UNCHANGED <<pool, signals, loop, accepted, operated, notified>>
        /\ shutdown # "Returned"
    BY Kinds DEF TakeTask, Leaving
  <1>2. CASE MayExit /\ worker' = [worker EXCEPT ![w] = Exited] /\ UNCHANGED tasks
    <2>1. /\ worker' \in [Workers -> Task \cup {Result(s) : s \in Requests} \cup {Idle, Waiting, Exited}]
          /\ \A t : AtWork(t)' => AtWork(t) \/ t = Exited
          /\ \A t : AtWork(t) => AtWork(t)' \/ t = Idle
      BY <1>1, <1>2 DEF PoolTypeOK, AtWork
    <2>2. PoolTypeOK' /\ Ended' /\ Leaving'
      BY <1>1, <1>2, <2>1 DEF PoolTypeOK, Ended, Leaving, MayExit
    <2>3. NoneLost'
      BY <1>1, <1>2, <2>1, Kinds DEF NoneLost, UnderWay
    <2> QED BY <2>2, <2>3
  <1>3. CASE tasks # <<>> /\ worker' = [worker EXCEPT ![w] = Head(tasks)] /\ tasks' = Tail(tasks)
    <2>1. tasks \in Seq(Task) /\ Len(tasks) \in Nat /\ Len(tasks) <= QueueCapacity
      BY DEF PoolTypeOK
    <2>2. /\ Tail(tasks) \in Seq(Task) /\ Len(Tail(tasks)) = Len(tasks) - 1 /\ Head(tasks) \in Task
          /\ \A t : In(tasks, t) <=> In(Tail(tasks), t) \/ t = Head(tasks)
      BY <1>3, <2>1, QueueShrinks
    <2>3. Head(tasks) # Exited
      BY <2>2, Kinds DEF Task
    <2>4. /\ worker' \in [Workers -> Task \cup {Result(s) : s \in Requests} \cup {Idle, Waiting, Exited}]
          /\ \A t : AtWork(t)' => AtWork(t) \/ t = Head(tasks)
          /\ \A t : AtWork(t) => AtWork(t)' \/ t = Idle
          /\ \E v \in Workers : worker'[v] = Head(tasks)
      BY <1>1, <1>3, <2>2 DEF PoolTypeOK, AtWork
    <2>9. \A v \in Workers : worker[v] # Exited /\ worker'[v] # Exited
      BY <1>1, <1>3, <2>2, <2>3 DEF PoolTypeOK, Leaving
    <2>5. Len(tasks') <= QueueCapacity
      BY <1>3, <2>1, <2>2, ExecutorAssumption
    <2>6. PoolTypeOK'
      BY <1>1, <1>3, <2>2, <2>4, <2>5 DEF PoolTypeOK
    <2>7. Ended' /\ Leaving'
      BY <1>1, <2>9 DEF Ended, Leaving
    <2>8. \A t : In(tasks, t) <=> In(tasks', t) \/ t = Head(tasks)
      BY <1>3, <2>2
    <2>10. \A t : t # Idle => (UnderWay(t)' <=> UnderWay(t))
      BY <2>4, <2>8 DEF UnderWay, AtWork
    <2>11. NoneLost'
      BY <1>1, <2>10, Kinds DEF NoneLost
    <2> QED BY <2>6, <2>7, <2>11
  <1>4. CASE worker' = [worker EXCEPT ![w] = Waiting] /\ UNCHANGED tasks
    <2>1. /\ worker' \in [Workers -> Task \cup {Result(s) : s \in Requests} \cup {Idle, Waiting, Exited}]
          /\ \A t : AtWork(t)' => AtWork(t) \/ t = Waiting
          /\ \A t : AtWork(t) => AtWork(t)' \/ t = Idle
          /\ \A v \in Workers : worker'[v] = Exited => worker[v] = Exited
      BY <1>1, <1>4, Kinds DEF PoolTypeOK, AtWork
    <2>2. PoolTypeOK' /\ Ended' /\ Leaving'
      BY <1>1, <1>4, <2>1 DEF PoolTypeOK, Ended, Leaving
    <2>3. NoneLost'
      BY <1>1, <1>4, <2>1, Kinds DEF NoneLost, UnderWay
    <2> QED BY <2>2, <2>3
  <1> QED BY <1>2, <1>3, <1>4 DEF TakeTask, MaySleep

LEMMA TickKeeps ==
    ASSUME PoolInv, NEW e \in Entries, Tick(e)
    PROVE  PoolInv'
  <1> USE DEF PoolInv, pool
  <1>1. UNCHANGED <<worker, stopping, shutdown, ioRuns, deadline, posted, claimed, responses, accepted,
                    operated, notified>>
    BY DEF Tick
  <1>2. CASE Accepts(tasks) /\ Submitted(Periodic(e)) /\ inFlight' = inFlight \cup {e}
    <2>1. Periodic(e) \in Task
      BY DEF Task
    <2>2. /\ tasks' \in Seq(Task) /\ Len(tasks') <= QueueCapacity
          /\ signals' \in 0..Cardinality(Workers)
          /\ \A u : In(tasks', u) <=> In(tasks, u) \/ u = Periodic(e)
          /\ ~stopping /\ \A v \in Workers : worker[v] # Exited
          /\ shutdown = "No"
      BY <1>2, <2>1, SubmitKeeps
    <2>3. PoolTypeOK'
      BY <1>1, <1>2, <2>2 DEF PoolTypeOK
    <2>4. Ended' /\ Leaving'
      BY <1>1, <2>2 DEF Ended, Leaving
    <2>5. NoneLost'
      BY <1>1, <2>2, Kinds DEF NoneLost, UnderWay, AtWork
    <2> QED BY <2>3, <2>4, <2>5
  <1>3. CASE NotSubmitted /\ inFlight' = DoneWhenRefused(e)
    BY <1>1, <1>3 DEF NotSubmitted, DoneWhenRefused, PoolTypeOK, Ended, NoneLost, Leaving, UnderWay,
       AtWork
  <1> QED BY <1>2, <1>3 DEF Tick

\* The end of the event loop, the shutdown and the new process.
LEMMA MainKeeps ==
    ASSUME PoolInv, Main \/ StopLoop
    PROVE  PoolInv'
  <1> USE DEF PoolInv, loop
  <1>1. CASE StopLoop \/ StartShutdown \/ Joined
    <2>1. UNCHANGED <<tasks, signals, worker, inFlight, deadline, posted, claimed, responses, accepted,
                      operated, notified>>
      BY <1>1 DEF StopLoop, StartShutdown, Joined, pool
    <2>2. stopping \in BOOLEAN /\ ioRuns \in BOOLEAN /\ (stopping <=> shutdown # "No")
      BY DEF PoolTypeOK, Leaving
    <2>6. /\ ioRuns' \in BOOLEAN
          /\ shutdown' \in {"No", "Stopping", "Joining", "Returned"}
          /\ shutdown' = "Returned" => \A w \in Workers : worker[w] = Exited
      BY <1>1 DEF StopLoop, StartShutdown, Joined, pool, PoolTypeOK, Leaving
    <2>7. /\ stopping' \in BOOLEAN /\ (stopping' <=> shutdown' # "No")
          /\ stopping => stopping'
      <3>1. CASE StopLoop
        BY <2>2, <3>1 DEF StopLoop, pool
      <3>2. CASE StartShutdown
        BY <2>2, <3>2 DEF StartShutdown
      <3>3. CASE Joined
        BY <2>2, <3>3 DEF Joined
      <3> QED BY <1>1, <3>1, <3>2, <3>3
    <2>3. PoolTypeOK'
      BY <2>1, <2>6, <2>7 DEF PoolTypeOK
    <2>4. Ended' /\ NoneLost'
      BY <2>1 DEF Ended, NoneLost, UnderWay, AtWork
    <2>5. Leaving'
      BY <2>1, <2>6, <2>7 DEF Leaving
    <2> QED BY <2>3, <2>4, <2>5
  <1>2. CASE NotifyAll
    <2>1. /\ shutdown = "Stopping" /\ shutdown' = "Joining"
          /\ worker' = [w \in Workers |-> IF worker[w] = Waiting /\ w \in Woken THEN Idle ELSE worker[w]]
          /\ UNCHANGED <<tasks, signals, stopping, ioRuns, inFlight, deadline, posted, claimed, responses,
                         accepted, operated, notified>>
      BY <1>2 DEF NotifyAll
    <2>2. /\ worker' \in [Workers -> Task \cup {Result(s) : s \in Requests} \cup {Idle, Waiting, Exited}]
          /\ \A t : AtWork(t)' => AtWork(t) \/ t = Idle
          /\ \A t : AtWork(t) => AtWork(t)' \/ t = Waiting
          /\ \A v \in Workers : worker'[v] = Exited => worker[v] = Exited
      BY <2>1, Kinds DEF PoolTypeOK, AtWork
    <2>3. PoolTypeOK' /\ Ended' /\ Leaving'
      BY <2>1, <2>2 DEF PoolTypeOK, Ended, Leaving
    <2>4. NoneLost'
      BY <2>1, <2>2, Kinds DEF NoneLost, UnderWay
    <2> QED BY <2>3, <2>4
  <1> QED BY <1>1, <1>2 DEF Main

\* The process starts with an empty pool, and starts again with one.
LEMMA NewPool == PoolInit => PoolInv
  <1> SUFFICES ASSUME PoolInit
               PROVE  PoolInv
    OBVIOUS
  <1> USE DEF PoolInit
  <1>1. Cardinality(Workers) \in Nat
    BY ExecutorAssumption, FS_CardinalityType
  <1>2. 0 \in 0..Cardinality(Workers)
    BY <1>1
  <1>3. tasks \in Seq(Task) /\ Len(tasks) <= QueueCapacity
    BY ExecutorAssumption
  <1>7. worker \in [Workers -> Task \cup {Result(r) : r \in Requests} \cup {Idle, Waiting, Exited}]
    OBVIOUS
  <1>8. responses \in [Requests -> 0..1]
    OBVIOUS
  <1>4. PoolTypeOK
    BY <1>2, <1>3, <1>7, <1>8 DEF PoolTypeOK
  <1>5. \A r : ~UnderWay(Operation(r))
    BY Kinds DEF UnderWay, AtWork, In
  <1>6. Ended /\ NoneLost /\ Leaving
    BY <1>5, Kinds DEF Ended, NoneLost, Leaving
  <1> QED BY <1>4, <1>6 DEF PoolInv

LEMMA PoolStep ==
    ASSUME PoolInv, [Next]_vars
    PROVE  PoolInv'
  <1>1. ASSUME NEW r \in Requests, Arrive(r)
        PROVE  PoolInv'
    BY <1>1, DispatchKeeps DEF Arrive
  <1>2. ASSUME NEW r \in Requests, EventLoop(r)
        PROVE  PoolInv'
    BY <1>2, AnswerKeeps DEF EventLoop, Timeout, DeliverResult
  <1>3. ASSUME NEW w \in Workers, Thread(w)
        PROVE  PoolInv'
    BY <1>3, OperateKeeps, PeriodicDoneKeeps, TakeTaskKeeps, PostResultKeeps, DeliverNoticeKeeps
       DEF Thread, OperationEnds, SweepKeys
  <1>4. ASSUME NEW w \in Workers, Wake(w)
        PROVE  PoolInv'
    BY <1>4, WakeUpKeeps DEF Wake, WakeUp, PoolInv, PoolTypeOK
  <1>5. ASSUME NEW e \in Entries, Schedule(e)
        PROVE  PoolInv'
    BY <1>5, TickKeeps DEF Schedule
  <1>6. ASSUME NEW r \in Calls, CallStep(r) \/ Ages(r)
        PROVE  PoolInv'
    BY <1>6, PoolKept DEF CallStep, Ages
  <1>7. CASE SweepFreely
    BY <1>7, PoolKept DEF SweepFreely
  <1>8. CASE Notify
    BY <1>8, NotifyOneKeeps DEF Notify
  <1>9. CASE Leave \/ Terminate
    BY <1>9, MainKeeps DEF Leave, Terminate
  <1>10. CASE Restart
    <2>1. PoolInit'
      BY <1>10 DEF Restart, PoolInit
    <2> QED BY <2>1, NewPool, PTL
  <1>11. CASE UNCHANGED vars
    BY <1>11, PoolKept DEF vars
  <1> QED BY <1>1, <1>2, <1>3, <1>4, <1>5, <1>6, <1>7, <1>8, <1>9, <1>10, <1>11 DEF Next

LEMMA PoolInvariant == Spec => []PoolInv
  <1>1. Init => PoolInv
    BY NewPool DEF Init, PoolInit
  <1>2. PoolInv /\ [Next]_vars => PoolInv'
    BY PoolStep
  <1> QED BY <1>1, <1>2, PTL DEF Spec

\* Deadline, result and refusal race for one response, which is ended once and
\* by one of them; a request that was refused has not run.
THEOREM AnsweredOnceAlways == Spec => []AnsweredOnce
  <1>1. PoolInv => AnsweredOnce
    BY DEF PoolInv, AnsweredOnce, Ended, NoneLost
  <1> QED BY <1>1, PoolInvariant, PTL

\* A shutdown that returns has drained the queue: every accepted operation ran
\* and the hub was told of every revoked session.
THEOREM NothingLeftBehindAlways == Spec => []NothingLeftBehind
  <1>1. ASSUME PoolInv, shutdown = "Returned"
        PROVE  tasks = <<>> /\ accepted \subseteq operated /\ operated \cap Revoking \subseteq notified
    <2>1. tasks = <<>> /\ \A w \in Workers : worker[w] = Exited
      BY <1>1, ExecutorAssumption DEF PoolInv, Leaving
    <2>2. \A r : ~UnderWay(Operation(r)) /\ ~UnderWay(Notice(r))
      BY <2>1, Kinds DEF UnderWay, AtWork, In
    <2> QED BY <1>1, <2>1, <2>2 DEF PoolInv, NoneLost
  <1>2. PoolInv => NothingLeftBehind
    BY <1>1 DEF NothingLeftBehind
  <1> QED BY <1>2, PoolInvariant, PTL

(***************************************************************************)
(* The wake-ups.  Notifications under way and threads about to look at the *)
(* queue are counted against the tasks in it and the threads asleep.       *)
(***************************************************************************)
Doing(x) == {w \in Workers : worker[w] = x}
HowMany(x) == Cardinality(Doing(x))

Noticed ==
    \/ HowMany(Waiting) <= signals
    \/ Len(tasks) <= signals + HowMany(Idle)

NobodySleeps == shutdown \in {"Joining", "Returned"} => Doing(Waiting) = {}

LEMMA NoticedIs == NoWakeUpLost <=> Noticed /\ NobodySleeps
  BY DEF NoWakeUpLost, Noticed, NobodySleeps, HowMany, Doing

LEMMA CountedThreads ==
    ASSUME NEW S \in SUBSET Workers
    PROVE  /\ IsFiniteSet(S) /\ Cardinality(S) \in Nat /\ Cardinality(S) <= Cardinality(Workers)
           /\ \A T \in SUBSET S : Cardinality(T) <= Cardinality(S)
  <1>1. IsFiniteSet(Workers)
    BY ExecutorAssumption
  <1>2. IsFiniteSet(S) /\ Cardinality(S) <= Cardinality(Workers)
    BY <1>1, FS_Subset
  <1>3. \A T \in SUBSET S : Cardinality(T) <= Cardinality(S)
    BY <1>2, FS_Subset
  <1> QED BY <1>2, <1>3, FS_CardinalityType

LEMMA CountsAreNumbers ==
    ASSUME PoolInv
    PROVE  /\ \A x : Doing(x) \in SUBSET Workers /\ HowMany(x) \in Nat /\ HowMany(x) <= Cardinality(Workers)
           /\ signals \in Nat /\ Cardinality(Workers) \in Nat /\ Len(tasks) \in Nat
  <1>1. \A x : Doing(x) \in SUBSET Workers
    BY DEF Doing
  <1>2. Cardinality(Workers) \in Nat
    BY ExecutorAssumption, FS_CardinalityType
  <1>3. \A x : HowMany(x) \in Nat /\ HowMany(x) <= Cardinality(Workers)
    BY <1>1, CountedThreads DEF HowMany
  <1>4. signals \in Nat /\ Len(tasks) \in Nat
    BY <1>2 DEF PoolInv, PoolTypeOK
  <1> QED BY <1>1, <1>2, <1>3, <1>4

\* One thread does something else than it did.
LEMMA OneThread ==
    ASSUME PoolInv, NEW w \in Workers, NEW x, NEW y, worker[w] = y, x # y,
           worker' = [worker EXCEPT ![w] = x]
    PROVE  /\ HowMany(x)' = HowMany(x) + 1 /\ HowMany(y)' = HowMany(y) - 1
           /\ \A z : z \notin {x, y} => Doing(z)' = Doing(z) /\ HowMany(z)' = HowMany(z)
           /\ Doing(y)' \subseteq Doing(y) /\ Doing(x) \subseteq Doing(x)'
  <1>1. worker \in [Workers -> Task \cup {Result(s) : s \in Requests} \cup {Idle, Waiting, Exited}]
    BY DEF PoolInv, PoolTypeOK
  <1>2. \A v \in Workers : worker'[v] = IF v = w THEN x ELSE worker[v]
    BY <1>1
  <1>3. Doing(x)' = Doing(x) \cup {w} /\ Doing(y)' = Doing(y) \ {w} /\ w \in Doing(y) /\ w \notin Doing(x)
    BY <1>2 DEF Doing
  <1>4. \A z : z \notin {x, y} => Doing(z)' = Doing(z)
    BY <1>2 DEF Doing
  <1>5. IsFiniteSet(Doing(x)) /\ IsFiniteSet(Doing(y))
    BY CountedThreads DEF Doing
  <1>6. HowMany(x)' = HowMany(x) + 1
    BY <1>3, <1>5, FS_AddElement DEF HowMany
  <1>7. HowMany(y)' = HowMany(y) - 1
    BY <1>3, <1>5, FS_RemoveElement DEF HowMany
  <1> QED BY <1>3, <1>4, <1>6, <1>7 DEF HowMany

\* Nobody goes to sleep, nobody stops looking, and a task comes with its
\* notification.
LEMMA MoreNotice ==
    ASSUME PoolInv, PoolInv', NoWakeUpLost, NobodySleeps',
           Doing(Waiting)' \subseteq Doing(Waiting), Doing(Idle) \subseteq Doing(Idle)',
           UNCHANGED <<tasks, signals>> \/ \E t \in Task : Submitted(t)
    PROVE  NoWakeUpLost'
  <1>1. Noticed
    BY NoticedIs
  <1>2. HowMany(Waiting)' <= HowMany(Waiting) /\ HowMany(Idle) <= HowMany(Idle)'
    <2>1. Doing(Waiting) \in SUBSET Workers /\ Doing(Idle)' \in SUBSET Workers
      BY DEF Doing
    <2> QED BY <2>1, CountedThreads DEF HowMany
  <1>3. /\ HowMany(Waiting) \in Nat /\ HowMany(Waiting) <= Cardinality(Workers)
        /\ HowMany(Idle) \in Nat /\ signals \in Nat /\ Cardinality(Workers) \in Nat /\ Len(tasks) \in Nat
    BY CountsAreNumbers
  <1>4. HowMany(Waiting)' \in Nat /\ HowMany(Idle)' \in Nat
    <2>1. Doing(Waiting)' \in SUBSET Workers /\ Doing(Idle)' \in SUBSET Workers
      BY DEF Doing
    <2> QED BY <2>1, CountedThreads DEF HowMany
  <1>5. CASE UNCHANGED <<tasks, signals>>
    <2>1. Noticed'
      BY <1>1, <1>2, <1>3, <1>4, <1>5 DEF Noticed
    <2> QED BY <2>1, NoticedIs, PTL
  <1>6. CASE \E t \in Task : Submitted(t)
    <2>1. Len(tasks') = Len(tasks) + 1
      BY <1>6 DEF Submitted, PoolInv, PoolTypeOK
    <2>2. signals' = IF signals < Cardinality(Workers) THEN signals + 1 ELSE signals
      BY <1>6 DEF Submitted
    <2>3. Noticed'
      BY <1>1, <1>2, <1>3, <1>4, <2>1, <2>2 DEF Noticed
    <2> QED BY <2>3, NoticedIs, PTL
  <1> QED BY <1>5, <1>6

\* A thread that was at work, or asleep, looks again.
LEMMA LooksAgain ==
    ASSUME PoolInv, PoolInv', NoWakeUpLost, NEW w \in Workers, worker[w] # Idle,
           worker' = [worker EXCEPT ![w] = Idle], UNCHANGED <<tasks, signals, shutdown>>
    PROVE  NoWakeUpLost'
  <1>1. Doing(Waiting)' \subseteq Doing(Waiting) /\ Doing(Idle) \subseteq Doing(Idle)'
    <2>1. CASE worker[w] = Waiting
      BY <2>1, OneThread
    <2>2. ASSUME NEW y, worker[w] = y, y # Waiting
          PROVE  Doing(Waiting)' = Doing(Waiting) /\ Doing(Idle) \subseteq Doing(Idle)'
      <3>1. Waiting \notin {Idle, y} /\ Idle # y
        BY <2>2, Kinds
      <3> QED BY <2>2, <3>1, OneThread
    <2> QED BY <2>1, <2>2
  <1>2. NobodySleeps'
    BY <1>1, NoticedIs DEF NobodySleeps
  <1> QED BY <1>1, <1>2, MoreNotice

LEMMA OperateNotices ==
    ASSUME PoolInv, PoolInv', NoWakeUpLost, NEW w \in Workers, Operate(w)
    PROVE  NoWakeUpLost'
  <1>1. PICK r \in Requests :
          /\ worker[w] = Operation(r) /\ worker' = [worker EXCEPT ![w] = Result(r)]
          /\ NotSubmitted \/ (Submitted(Notice(r)) /\ r \in Revoking)
          /\ UNCHANGED pool
    BY DEF Operate
  <1>2. /\ Waiting \notin {Result(r), Operation(r)} /\ Idle \notin {Result(r), Operation(r)}
        /\ Result(r) # Operation(r)
    BY Kinds
  <1>3. Doing(Waiting)' = Doing(Waiting) /\ Doing(Idle)' = Doing(Idle)
    <2>1. \A z : z \notin {Result(r), Operation(r)} => Doing(z)' = Doing(z)
      BY <1>1, <1>2, OneThread
    <2> QED BY <1>2, <2>1
  <1>4. UNCHANGED <<tasks, signals>> \/ \E t \in Task : Submitted(t)
    BY <1>1 DEF NotSubmitted, Task
  <1>5. NobodySleeps'
    BY <1>1, <1>3, NoticedIs DEF NobodySleeps, pool
  <1> QED BY <1>3, <1>4, <1>5, MoreNotice

\* A notification reaches a thread that sleeps, or nobody sleeps.
LEMMA NotifyOneNotices ==
    ASSUME PoolInv, PoolInv', NoWakeUpLost, NotifyOne
    PROVE  NoWakeUpLost'
  <1>1. /\ signals' = signals - 1 /\ signals > 0 /\ tasks' = tasks /\ shutdown' = shutdown
        /\ signals \in Nat /\ HowMany(Waiting) \in Nat /\ HowMany(Idle) \in Nat /\ Len(tasks) \in Nat
    BY CountsAreNumbers DEF NotifyOne, pool
  <1>2. Noticed /\ NobodySleeps
    BY NoticedIs
  <1>3. CASE \E w \in Workers : worker[w] = Waiting
    <2>1. PICK w \in Workers : worker[w] = Waiting /\ worker' = [worker EXCEPT ![w] = Idle]
      BY <1>3 DEF NotifyOne
    <2>2. /\ HowMany(Waiting)' = HowMany(Waiting) - 1 /\ HowMany(Idle)' = HowMany(Idle) + 1
          /\ Doing(Waiting)' \subseteq Doing(Waiting)
      BY <2>1, Kinds, OneThread
    <2>3. Noticed' /\ NobodySleeps'
      BY <1>1, <1>2, <2>2 DEF Noticed, NobodySleeps
    <2> QED BY <2>3, NoticedIs, PTL
  <1>4. CASE ~\E w \in Workers : worker[w] = Waiting
    <2>1. Doing(Waiting)' = {}
      BY <1>4 DEF NotifyOne, Doing
    <2>2. HowMany(Waiting)' = 0
      BY <2>1, FS_EmptySet DEF HowMany
    <2>3. Noticed' /\ NobodySleeps'
      BY <1>1, <2>1, <2>2 DEF Noticed, NobodySleeps
    <2> QED BY <2>3, NoticedIs, PTL
  <1> QED BY <1>3, <1>4

\* Who takes a task looked at the queue; who sleeps or leaves saw it empty,
\* and nobody sleeps once the pool is being stopped.
LEMMA TakeTaskNotices ==
    ASSUME PoolInv, PoolInv', NoWakeUpLost, NEW w \in Workers, TakeTask(w)
    PROVE  NoWakeUpLost'
  <1>1. worker[w] = Idle /\ signals' = signals /\ shutdown' = shutdown /\ stopping' = stopping
    BY DEF TakeTask, pool
  <1>2. /\ signals \in Nat /\ HowMany(Waiting) \in Nat /\ HowMany(Idle) \in Nat /\ Len(tasks) \in Nat
    BY CountsAreNumbers
  <1>3. Noticed /\ NobodySleeps
    BY NoticedIs
  <1>4. CASE tasks = <<>> /\ UNCHANGED tasks
    <2>1. Len(tasks') = 0
      BY <1>4
    <2>2. HowMany(Idle)' \in Nat
      <3>1. Doing(Idle)' \in SUBSET Workers
        BY DEF Doing
      <3> QED BY <3>1, CountedThreads DEF HowMany
    <2>3. Noticed'
      BY <1>1, <1>2, <2>1, <2>2 DEF Noticed
    <2>4. NobodySleeps'
      <3>1. CASE worker' = [worker EXCEPT ![w] = Exited]
        <4>1. Exited # Idle /\ Waiting \notin {Exited, Idle}
          BY Kinds
        <4>2. Doing(Waiting)' = Doing(Waiting)
          BY <1>1, <3>1, <4>1, OneThread
        <4> QED BY <1>1, <1>3, <4>2 DEF NobodySleeps
      <3>2. CASE ~stopping
        <4>1. shutdown = "No"
          BY <3>2 DEF PoolInv, Leaving
        <4> QED BY <1>1, <4>1 DEF NobodySleeps
      <3> QED BY <1>4, <3>1, <3>2 DEF TakeTask, MaySleep
    <2> QED BY <2>3, <2>4, NoticedIs, PTL
  <1>5. CASE tasks # <<>> /\ tasks' = Tail(tasks) /\ worker' = [worker EXCEPT ![w] = Head(tasks)]
    <2>1. Len(Tail(tasks)) = Len(tasks) - 1 /\ Head(tasks) \in Task
      BY <1>5, QueueShrinks DEF PoolInv, PoolTypeOK
    <2>2. PICK t : t = Head(tasks)
      OBVIOUS
    <2>3. t \notin {Idle, Waiting, Exited}
      BY <2>1, <2>2, Kinds DEF Task
    <2>4. worker' = [worker EXCEPT ![w] = t] /\ Waiting \notin {t, Idle} /\ t # Idle
      BY <1>5, <2>2, <2>3, Kinds
    <2>5. /\ HowMany(Idle)' = HowMany(Idle) - 1 /\ HowMany(Waiting)' = HowMany(Waiting)
          /\ Doing(Waiting)' = Doing(Waiting)
      BY <1>1, <2>4, OneThread
    <2>6. Noticed' /\ NobodySleeps'
      BY <1>1, <1>2, <1>3, <1>5, <2>1, <2>5 DEF Noticed, NobodySleeps
    <2> QED BY <2>6, NoticedIs, PTL
  <1> QED BY <1>4, <1>5 DEF TakeTask, MayExit, MaySleep

LEMMA MainNotices ==
    ASSUME PoolInv, PoolInv', NoWakeUpLost, Main \/ StopLoop
    PROVE  NoWakeUpLost'
  <1>1. UNCHANGED <<tasks, signals>>
    BY DEF Main, StartShutdown, NotifyAll, Joined, StopLoop
  <1>2. CASE NotifyAll
    <2>1. Doing(Waiting)' = {} /\ Doing(Idle) \subseteq Doing(Idle)'
      BY <1>2, Kinds DEF NotifyAll, Woken, Doing
    <2> QED BY <1>1, <2>1, MoreNotice DEF NobodySleeps
  <1>3. CASE StartShutdown \/ Joined \/ StopLoop
    <2>1. Doing(Waiting)' = Doing(Waiting) /\ Doing(Idle)' = Doing(Idle)
      BY <1>3 DEF StartShutdown, Joined, StopLoop, Doing
    <2>2. NobodySleeps'
      BY <1>3, <2>1, NoticedIs DEF NobodySleeps, StartShutdown, Joined, StopLoop, pool
    <2> QED BY <1>1, <2>1, <2>2, MoreNotice
  <1> QED BY <1>2, <1>3 DEF Main

\* Threads that are left alone sleep as they slept.
LEMMA NoticeKept ==
    ASSUME PoolInv, PoolInv', NoWakeUpLost, UNCHANGED <<worker, shutdown>>,
           UNCHANGED <<tasks, signals>> \/ \E t \in Task : Submitted(t)
    PROVE  NoWakeUpLost'
  <1>1. Doing(Waiting)' = Doing(Waiting) /\ Doing(Idle)' = Doing(Idle)
    BY DEF Doing
  <1> QED BY <1>1, NoticedIs, MoreNotice DEF NobodySleeps

LEMMA NewPoolNotices == PoolInit => NoWakeUpLost
  <1> SUFFICES ASSUME PoolInit
               PROVE  NoWakeUpLost
    OBVIOUS
  <1>1. Doing(Waiting) = {} /\ signals = 0
    BY Kinds DEF PoolInit, Doing
  <1>2. HowMany(Waiting) = 0
    BY <1>1, FS_EmptySet DEF HowMany
  <1> QED BY <1>1, <1>2, NoticedIs DEF Noticed, NobodySleeps

LEMMA EveryStepNotices ==
    ASSUME PoolInv, PoolInv', NoWakeUpLost, [Next]_vars
    PROVE  NoWakeUpLost'
  <1>1. ASSUME NEW r \in Requests, Arrive(r) \/ EventLoop(r)
        PROVE  NoWakeUpLost'
    <2>1. /\ UNCHANGED <<worker, shutdown>>
          /\ UNCHANGED <<tasks, signals>> \/ Submitted(Operation(r))
      BY <1>1 DEF Arrive, EventLoop, Dispatch, Timeout, DeliverResult, NotSubmitted, pool
    <2> QED BY <2>1, NoticeKept DEF Task
  <1>2. ASSUME NEW w \in Workers, Thread(w)
        PROVE  NoWakeUpLost'
    <2>1. CASE Operate(w)
      BY <2>1, OperateNotices
    <2>2. CASE TakeTask(w)
      BY <2>2, TakeTaskNotices
    <2>3. CASE PostResult(w) \/ DeliverNotice(w) \/ PeriodicDone(w)
      <3>1. /\ worker' = [worker EXCEPT ![w] = Idle] /\ worker[w] # Idle
            /\ UNCHANGED <<tasks, signals, shutdown>>
        BY <2>3, Kinds DEF PostResult, DeliverNotice, PeriodicDone, pool
      <3> QED BY <3>1, LooksAgain
    <2> QED BY <1>2, <2>1, <2>2, <2>3 DEF Thread, OperationEnds, SweepKeys
  <1>3. ASSUME NEW w \in Workers, Wake(w)
        PROVE  NoWakeUpLost'
    BY <1>3, LooksAgain, Kinds DEF Wake, WakeUp, pool
  <1>4. ASSUME NEW e \in Entries, Schedule(e)
        PROVE  NoWakeUpLost'
    <2>1. /\ UNCHANGED <<worker, shutdown>>
          /\ UNCHANGED <<tasks, signals>> \/ Submitted(Periodic(e))
      BY <1>4 DEF Schedule, Tick, NotSubmitted, pool
    <2> QED BY <2>1, NoticeKept DEF Task
  <1>5. CASE UNCHANGED poolVars
    BY <1>5, NoticeKept DEF poolVars
  <1>6. CASE Notify
    BY <1>6, NotifyOneNotices DEF Notify
  <1>7. CASE Leave \/ Terminate
    BY <1>7, MainNotices DEF Leave, Terminate
  <1>8. CASE Restart
    <2>1. PoolInit'
      BY <1>8 DEF Restart, PoolInit
    <2> QED BY <2>1, NewPoolNotices, PTL
  <1>9. ASSUME NEW r \in Calls, CallStep(r) \/ Ages(r)
        PROVE  UNCHANGED poolVars
    BY <1>9 DEF CallStep, Ages
  <1>10. CASE SweepFreely \/ UNCHANGED vars
    BY <1>5, <1>10 DEF SweepFreely, vars
  <1> QED BY <1>1, <1>2, <1>3, <1>4, <1>5, <1>6, <1>7, <1>8, <1>9, <1>10 DEF Next

\* No task waits for a busy thread beside one that sleeps unnoticed, whatever
\* order submissions, notifications and spurious wake-ups come in, and nobody
\* sleeps when the threads are joined.
THEOREM NoWakeUpLostAlways == Spec => []NoWakeUpLost
  <1>1. Init => NoWakeUpLost
    BY NewPoolNotices DEF Init, PoolInit
  <1>2. PoolInv /\ PoolInv' /\ NoWakeUpLost /\ [Next]_vars => NoWakeUpLost'
    BY EveryStepNotices
  <1> QED BY <1>1, <1>2, PoolInvariant, PTL DEF Spec

(***************************************************************************)
(* The entries.  The places of a task are the positions of the queue and   *)
(* the threads that hold it.                                               *)
(***************************************************************************)
Queued(t) == {i \in 1..Len(tasks) : tasks[i] = t}

\* A pass has one place at most, and has one when its entry is flagged.
Alone(e) ==
    /\ e \in inFlight <=> UnderWay(Periodic(e))
    /\ ~(In(tasks, Periodic(e)) /\ AtWork(Periodic(e)))
    /\ \A i, j \in Queued(Periodic(e)) : i = j
    /\ \A v, w \in Doing(Periodic(e)) : v = w

EntriesInv == \A e \in Entries : Alone(e)

LEMMA AloneIsOne ==
    ASSUME NEW e \in Entries, Alone(e)
    PROVE  Cardinality(Queued(Periodic(e))) + Cardinality(Doing(Periodic(e))) = IF e \in inFlight THEN 1 ELSE 0
  <1>1. /\ Queued(Periodic(e)) # {} <=> In(tasks, Periodic(e))
        /\ Doing(Periodic(e)) # {} <=> AtWork(Periodic(e))
    BY DEF Queued, Doing, In, AtWork
  <1>2. CASE Queued(Periodic(e)) = {} /\ Doing(Periodic(e)) = {}
    BY <1>1, <1>2, FS_EmptySet DEF Alone, UnderWay
  <1>3. CASE Queued(Periodic(e)) # {}
    <2>1. PICK i : Queued(Periodic(e)) = {i}
      BY <1>3 DEF Alone
    <2>2. Doing(Periodic(e)) = {} /\ e \in inFlight
      BY <1>1, <1>3 DEF Alone, UnderWay
    <2>3. Cardinality(Queued(Periodic(e))) = 1 /\ Cardinality(Doing(Periodic(e))) = 0
      BY <2>1, <2>2, FS_EmptySet, FS_Singleton
    <2> QED BY <2>2, <2>3
  <1>4. CASE Doing(Periodic(e)) # {}
    <2>1. PICK w : Doing(Periodic(e)) = {w}
      BY <1>4 DEF Alone
    <2>2. Queued(Periodic(e)) = {} /\ e \in inFlight
      BY <1>1, <1>4 DEF Alone, UnderWay
    <2>3. Cardinality(Queued(Periodic(e))) = 0
      BY <2>2, FS_EmptySet
    <2>4. Cardinality(Doing(Periodic(e))) = 1
      BY <2>1, FS_Singleton
    <2> QED BY <2>2, <2>3, <2>4
  <1> QED BY <1>2, <1>3, <1>4

\* A place is kept by everything that does not move the pass.
LEMMA AloneKept ==
    ASSUME NEW e \in Entries, Alone(e), e \in inFlight' <=> e \in inFlight,
           Queued(Periodic(e))' = Queued(Periodic(e)), Doing(Periodic(e))' = Doing(Periodic(e))
    PROVE  Alone(e)'
  <1>1. /\ Queued(Periodic(e)) # {} <=> In(tasks, Periodic(e))
        /\ Doing(Periodic(e)) # {} <=> AtWork(Periodic(e))
    BY DEF Queued, Doing, In, AtWork
  <1>2. /\ Queued(Periodic(e))' # {} <=> In(tasks, Periodic(e))'
        /\ Doing(Periodic(e))' # {} <=> AtWork(Periodic(e))'
    BY DEF Queued, Doing, In, AtWork
  <1> QED BY <1>1, <1>2 DEF Alone, UnderWay

LEMMA OthersQueued ==
    ASSUME PoolInv, NEW t \in Task, Submitted(t)
    PROVE  /\ \A u : u # t => Queued(u)' = Queued(u)
           /\ Queued(t)' = Queued(t) \cup {Len(tasks) + 1}
  <1>1. tasks \in Seq(Task) /\ tasks' = Append(tasks, t)
    BY DEF PoolInv, PoolTypeOK, Submitted
  <1>2. /\ Len(tasks') = Len(tasks) + 1 /\ tasks'[Len(tasks) + 1] = t /\ Len(tasks) \in Nat
        /\ \A i \in 1..Len(tasks) : tasks'[i] = tasks[i]
    BY <1>1
  <1> QED BY <1>2 DEF Queued

\* A thread that goes from one thing to another, neither of them a pass.
LEMMA OthersAtWork ==
    ASSUME PoolInv, NEW w \in Workers, NEW x, NEW e \in Entries, worker' = [worker EXCEPT ![w] = x],
           worker[w] # Periodic(e), x # Periodic(e)
    PROVE  Doing(Periodic(e))' = Doing(Periodic(e))
  <1>1. \A v \in Workers : worker'[v] = IF v = w THEN x ELSE worker[v]
    BY DEF PoolInv, PoolTypeOK
  <1> QED BY <1>1 DEF Doing

LEMMA EntriesApart == \A d, e : Periodic(d) = Periodic(e) => d = e
  BY DEF Periodic

\* A task other than a pass comes, or none.
LEMMA SubmitAlone ==
    ASSUME PoolInv, EntriesInv, UNCHANGED inFlight, NEW e \in Entries,
           Doing(Periodic(e))' = Doing(Periodic(e)),
           UNCHANGED tasks \/ \E r : (Operation(r) \in Task /\ Submitted(Operation(r)))
                                       \/ (Notice(r) \in Task /\ Submitted(Notice(r)))
    PROVE  Alone(e)'
  <1>1. Queued(Periodic(e))' = Queued(Periodic(e))
    <2>1. CASE UNCHANGED tasks
      BY <2>1 DEF Queued
    <2>2. ASSUME NEW t \in Task, Submitted(t), t # Periodic(e)
          PROVE  Queued(Periodic(e))' = Queued(Periodic(e))
      BY <2>2, OthersQueued
    <2>3. \A r : Operation(r) # Periodic(e) /\ Notice(r) # Periodic(e)
      BY Kinds
    <2> QED BY <2>1, <2>2, <2>3
  <1> QED BY <1>1, AloneKept DEF EntriesInv

LEMMA OperateAlone ==
    ASSUME PoolInv, EntriesInv, NEW w \in Workers, Operate(w), NEW e \in Entries
    PROVE  Alone(e)'
  <1>1. PICK r \in Requests :
          /\ worker[w] = Operation(r) /\ worker' = [worker EXCEPT ![w] = Result(r)]
          /\ NotSubmitted \/ (Submitted(Notice(r)) /\ r \in Revoking)
          /\ UNCHANGED inFlight
    BY DEF Operate, loop
  <1>2. Operation(r) # Periodic(e) /\ Result(r) # Periodic(e)
    BY DEF Operation, Result, Periodic
  <1>3. Doing(Periodic(e))' = Doing(Periodic(e))
    BY <1>1, <1>2, OthersAtWork
  <1>4. UNCHANGED tasks \/ (Notice(r) \in Task /\ Submitted(Notice(r)))
    BY <1>1 DEF NotSubmitted, Task
  <1> QED BY <1>1, <1>3, <1>4, SubmitAlone

\* A pass that is taken from the queue is at work.
LEMMA TakeTaskAlone ==
    ASSUME PoolInv, EntriesInv, NEW w \in Workers, TakeTask(w), NEW e \in Entries
    PROVE  Alone(e)'
  <1>1. worker[w] = Idle /\ UNCHANGED inFlight
    BY DEF TakeTask, loop
  <1>2. Idle # Periodic(e) /\ Waiting # Periodic(e) /\ Exited # Periodic(e)
    BY Kinds
  <1>3. CASE UNCHANGED tasks /\ \E x \in {Exited, Waiting} : worker' = [worker EXCEPT ![w] = x]
    <2>1. Doing(Periodic(e))' = Doing(Periodic(e))
      BY <1>1, <1>2, <1>3, OthersAtWork
    <2> QED BY <1>1, <1>3, <2>1, SubmitAlone
  <1>4. CASE tasks # <<>> /\ tasks' = Tail(tasks) /\ worker' = [worker EXCEPT ![w] = Head(tasks)]
    <2>1. tasks \in Seq(Task) /\ Len(tasks) \in Nat /\ Len(tasks) # 0
      BY <1>4, QueueShrinks DEF PoolInv, PoolTypeOK
    <2>2. /\ Len(tasks') = Len(tasks) - 1 /\ Head(tasks) = tasks[1]
          /\ \A i \in 1..Len(tasks') : tasks'[i] = tasks[i + 1]
      BY <1>4, <2>1
    <2>3. \A v \in Workers : worker'[v] = IF v = w THEN Head(tasks) ELSE worker[v]
      BY <1>4 DEF PoolInv, PoolTypeOK
    <2>4. \A i : i \in Queued(Periodic(e))' <=> i \in 1..Len(tasks') /\ i + 1 \in Queued(Periodic(e))
      BY <2>1, <2>2 DEF Queued
    <2>5. Alone(e)
      BY DEF EntriesInv
    <2>6. /\ Queued(Periodic(e)) # {} <=> In(tasks, Periodic(e))
          /\ Doing(Periodic(e)) # {} <=> AtWork(Periodic(e))
          /\ Queued(Periodic(e))' # {} <=> In(tasks, Periodic(e))'
          /\ Doing(Periodic(e))' # {} <=> AtWork(Periodic(e))'
      BY DEF Queued, Doing, In, AtWork
    <2>7. CASE Head(tasks) # Periodic(e)
      <3>1. Doing(Periodic(e))' = Doing(Periodic(e))
        BY <1>1, <1>2, <2>3, <2>7 DEF Doing
      <3>2. Queued(Periodic(e))' # {} <=> Queued(Periodic(e)) # {}
        <4>1. \A i \in Queued(Periodic(e)) : i - 1 \in Queued(Periodic(e))'
          BY <2>1, <2>2, <2>7 DEF Queued
        <4> QED BY <2>4, <4>1
      <3>3. \A i, j \in Queued(Periodic(e))' : i = j
        <4>1. ASSUME NEW i \in Queued(Periodic(e))', NEW j \in Queued(Periodic(e))'
              PROVE  i = j
          <5>1. i \in Int /\ j \in Int /\ i + 1 = j + 1
            BY <2>1, <2>2, <2>4, <2>5, <4>1 DEF Alone
          <5> QED BY <5>1
        <4> QED BY <4>1
      <3> QED BY <1>1, <2>5, <2>6, <3>1, <3>2, <3>3 DEF Alone, UnderWay
    <2>8. CASE Head(tasks) = Periodic(e)
      <3>1. 1 \in Queued(Periodic(e)) /\ Doing(Periodic(e)) = {}
        BY <2>1, <2>2, <2>5, <2>6, <2>8 DEF Queued, Alone
      <3>2. Doing(Periodic(e))' = {w}
        BY <2>3, <2>8, <3>1 DEF Doing
      <3>3. Queued(Periodic(e))' = {}
        <4>1. ASSUME NEW i \in Queued(Periodic(e))'
              PROVE  FALSE
          <5>1. i \in 1..Len(tasks') /\ i + 1 = 1
            BY <2>4, <2>5, <3>1, <4>1 DEF Alone
          <5> QED BY <2>1, <2>2, <5>1
        <4> QED BY <4>1
      <3>4. e \in inFlight
        BY <2>5, <2>6, <3>1 DEF Alone, UnderWay
      <3> QED BY <1>1, <2>6, <3>2, <3>3, <3>4 DEF Alone, UnderWay
    <2> QED BY <2>7, <2>8
  <1> QED BY <1>3, <1>4 DEF TakeTask

\* The flag goes up with the pass that is queued.
LEMMA TickAlone ==
    ASSUME PoolInv, EntriesInv, NEW d \in Entries, Tick(d), NEW e \in Entries
    PROVE  Alone(e)'
  <1>1. Doing(Periodic(e))' = Doing(Periodic(e)) /\ d \notin inFlight
    BY DEF Tick, Startable, Doing
  <1>2. Alone(e)
    BY DEF EntriesInv
  <1>3. CASE NotSubmitted /\ inFlight' = DoneWhenRefused(d)
    <2>1. UNCHANGED tasks /\ UNCHANGED inFlight
      BY <1>3 DEF NotSubmitted, DoneWhenRefused
    <2> QED BY <1>1, <2>1, SubmitAlone
  <1>4. CASE Submitted(Periodic(d)) /\ inFlight' = inFlight \cup {d}
    <2>1. Periodic(d) \in Task
      BY DEF Task
    <2>2. CASE d # e
      <3>1. Queued(Periodic(e))' = Queued(Periodic(e))
        BY <1>4, <2>1, <2>2, OthersQueued, EntriesApart
      <3> QED BY <1>1, <1>2, <1>4, <2>2, <3>1, AloneKept
    <2>3. CASE d = e
      <3>1. Queued(Periodic(e)) = {} /\ Doing(Periodic(e)) = {}
        BY <1>1, <1>2, <2>3 DEF Alone, UnderWay, Queued, Doing, In, AtWork
      <3>2. Queued(Periodic(e))' = {Len(tasks) + 1} /\ Doing(Periodic(e))' = {}
        BY <1>1, <1>4, <2>1, <2>3, <3>1, OthersQueued
      <3>3. /\ Queued(Periodic(e))' # {} <=> In(tasks, Periodic(e))'
            /\ Doing(Periodic(e))' # {} <=> AtWork(Periodic(e))'
        BY DEF Queued, Doing, In, AtWork
      <3> QED BY <1>4, <2>3, <3>2, <3>3 DEF Alone, UnderWay
    <2> QED BY <2>2, <2>3
  <1> QED BY <1>3, <1>4 DEF Tick

\* It comes down with the pass that ends, which was the only one.
LEMMA PeriodicDoneAlone ==
    ASSUME PoolInv, EntriesInv, NEW w \in Workers, PeriodicDone(w), NEW e \in Entries
    PROVE  Alone(e)'
  <1>1. PICK d \in Entries :
          /\ worker[w] = Periodic(d) /\ worker' = [worker EXCEPT ![w] = Idle]
          /\ inFlight' = inFlight \ {d} /\ UNCHANGED tasks
    BY DEF PeriodicDone
  <1>2. Alone(e) /\ Queued(Periodic(e))' = Queued(Periodic(e)) /\ Idle # Periodic(e)
    BY <1>1, Kinds DEF EntriesInv, Queued
  <1>3. CASE d # e
    <2>1. Doing(Periodic(e))' = Doing(Periodic(e))
      BY <1>1, <1>2, <1>3, OthersAtWork, EntriesApart
    <2> QED BY <1>1, <1>2, <1>3, <2>1, AloneKept
  <1>4. CASE d = e
    <2>1. w \in Doing(Periodic(e)) /\ AtWork(Periodic(e))
      BY <1>1, <1>4 DEF Doing, AtWork
    <2>2. \A v \in Workers : worker'[v] = IF v = w THEN Idle ELSE worker[v]
      BY <1>1 DEF PoolInv, PoolTypeOK
    <2>3. Doing(Periodic(e))' = {}
      BY <1>2, <2>1, <2>2 DEF Doing, Alone
    <2>4. ~In(tasks, Periodic(e))
      BY <1>2, <2>1 DEF Alone
    <2>5. Queued(Periodic(e))' = {}
      BY <1>2, <2>4 DEF Queued, In
    <2>6. ~In(tasks, Periodic(e))' /\ ~AtWork(Periodic(e))'
      BY <2>3, <2>5 DEF Queued, Doing, In, AtWork
    <2> QED BY <1>1, <1>4, <2>3, <2>5, <2>6 DEF Alone, UnderWay
  <1> QED BY <1>3, <1>4

\* Threads that are woken, or end something else, hold no pass.
LEMMA LooksAlone ==
    ASSUME PoolInv, EntriesInv, NEW w \in Workers, NEW e \in Entries, worker[w] # Periodic(e),
           worker' = [worker EXCEPT ![w] = Idle], UNCHANGED <<tasks, inFlight>>
    PROVE  Alone(e)'
  <1>1. Doing(Periodic(e))' = Doing(Periodic(e))
    BY Kinds, OthersAtWork
  <1> QED BY <1>1, SubmitAlone

LEMMA NewPoolAlone == PoolInit => EntriesInv
  <1> SUFFICES ASSUME PoolInit, NEW e \in Entries
               PROVE  Alone(e)
    BY DEF EntriesInv
  <1>1. Queued(Periodic(e)) = {} /\ Doing(Periodic(e)) = {} /\ inFlight = {}
    BY Kinds DEF PoolInit, Queued, Doing
  <1> QED BY <1>1 DEF Alone, UnderWay, Queued, Doing, In, AtWork

LEMMA EveryStepAlone ==
    ASSUME PoolInv, EntriesInv, [Next]_vars, NEW e \in Entries
    PROVE  Alone(e)'
  <1>1. ASSUME UNCHANGED worker, UNCHANGED inFlight,
               UNCHANGED tasks \/ \E r \in Requests : Submitted(Operation(r))
        PROVE  Alone(e)'
    <2>1. Doing(Periodic(e))' = Doing(Periodic(e))
      BY <1>1 DEF Doing
    <2>2. \A r \in Requests : Operation(r) \in Task
      BY DEF Task
    <2> QED BY <1>1, <2>1, <2>2, SubmitAlone
  <1>2. ASSUME NEW r \in Requests, Arrive(r) \/ EventLoop(r)
        PROVE  Alone(e)'
    BY <1>1, <1>2 DEF Arrive, EventLoop, Dispatch, Timeout, DeliverResult, NotSubmitted
  <1>3. ASSUME NEW w \in Workers, Thread(w) \/ Wake(w)
        PROVE  Alone(e)'
    <2>1. CASE Operate(w) \/ TakeTask(w) \/ PeriodicDone(w)
      BY <2>1, OperateAlone, TakeTaskAlone, PeriodicDoneAlone
    <2>2. CASE PostResult(w) \/ DeliverNotice(w) \/ WakeUp(w)
      <3>1. /\ worker' = [worker EXCEPT ![w] = Idle] /\ UNCHANGED <<tasks, inFlight>>
            /\ \/ worker[w] = Waiting
               \/ \E r \in Requests : worker[w] = Result(r) \/ worker[w] = Notice(r)
        BY <2>2, ExecutorAssumption DEF PostResult, DeliverNotice, WakeUp, loop
      <3>2. worker[w] # Periodic(e)
        <4>1. \A r : Result(r) # Periodic(e) /\ Notice(r) # Periodic(e)
          BY DEF Result, Notice, Periodic
        <4> QED BY <3>1, <4>1, Kinds
      <3> QED BY <3>1, <3>2, LooksAlone
    <2> QED BY <1>3, <2>1, <2>2 DEF Thread, OperationEnds, SweepKeys, Wake
  <1>4. ASSUME NEW d \in Entries, Schedule(d)
        PROVE  Alone(e)'
    BY <1>4, TickAlone DEF Schedule
  <1>5. CASE UNCHANGED poolVars
    BY <1>1, <1>5 DEF poolVars
  <1>6. CASE Notify
    <2>1. CASE UNCHANGED worker
      BY <1>1, <1>6, <2>1 DEF Notify, NotifyOne, loop
    <2>2. ASSUME NEW w \in Workers, worker[w] = Waiting, worker' = [worker EXCEPT ![w] = Idle]
          PROVE  Alone(e)'
      <3>1. worker[w] # Periodic(e) /\ UNCHANGED <<tasks, inFlight>>
        BY <1>6, <2>2, Kinds DEF Notify, NotifyOne, loop
      <3> QED BY <2>2, <3>1, LooksAlone
    <2> QED BY <1>6, <2>1, <2>2 DEF Notify, NotifyOne
  <1>7. CASE NotifyAll
    <2>1. Doing(Periodic(e))' = Doing(Periodic(e))
      BY <1>7, Kinds DEF NotifyAll, Doing
    <2>2. UNCHANGED tasks /\ UNCHANGED inFlight
      BY <1>7 DEF NotifyAll, loop
    <2> QED BY <2>1, <2>2, SubmitAlone
  <1>8. CASE StopLoop \/ StartShutdown \/ Joined
    <2>1. UNCHANGED worker /\ UNCHANGED inFlight /\ UNCHANGED tasks
      BY <1>8 DEF StopLoop, StartShutdown, Joined, loop
    <2> QED BY <1>1, <2>1
  <1>9. CASE Restart
    <2>1. PoolInit'
      BY <1>9 DEF Restart, PoolInit
    <2>2. EntriesInv'
      BY <2>1, NewPoolAlone, PTL
    <2> QED BY <2>2 DEF EntriesInv
  <1>10. ASSUME NEW r \in Calls, CallStep(r) \/ Ages(r)
         PROVE  UNCHANGED poolVars
    BY <1>10 DEF CallStep, Ages
  <1>11. CASE SweepFreely \/ UNCHANGED vars
    BY <1>5, <1>11 DEF SweepFreely, vars
  <1> QED
    BY <1>2, <1>3, <1>4, <1>5, <1>6, <1>7, <1>8, <1>9, <1>10, <1>11 DEF Next, Leave, Main, Terminate

\* An entry never runs beside itself, however often the scheduler ticks, the
\* queue refuses or its work throws, and is flagged only while a pass of it is
\* queued or running: the safety half of PoolGoesOn, on which the outbox and
\* the sweeps count.
THEOREM EntriesAlwaysRunAlone == Spec => []EntriesRunAlone
  <1>1. Init => EntriesInv
    BY NewPoolAlone DEF Init, PoolInit
  <1>2. PoolInv /\ EntriesInv /\ [Next]_vars => EntriesInv'
    BY EveryStepAlone DEF EntriesInv
  <1>3. EntriesInv => EntriesRunAlone
    BY AloneIsOne DEF EntriesInv, EntriesRunAlone, Queued, Doing
  <1> QED BY <1>1, <1>2, <1>3, PoolInvariant, PTL DEF Spec

(***************************************************************************)
(* The calls with a key.  What is known of a key: its records are of calls *)
(* with that key, and answers are of committed effects; the cache knows of *)
(* an answer in the database, or of the lease under which it was committed *)
(* a moment ago; the call between the check of its lease and the update of *)
(* the cache is the one that holds the key; an answer that can still be    *)
(* asked for is there.  A handler that is still at it when its lease ends  *)
(* leaves of this only that the records are of calls with that key; what   *)
(* is known of the other keys stands.                                      *)
(***************************************************************************)
Reply(r) == [by |-> r, result |-> TRUE]
Live(r) == KeyOf(r) \in Permanent \/ age[r] < 2

Filed(k, rec) == rec # NoRecord => KeyOf(rec.by) = k /\ (rec.result => rec.by \in effects)

\* Every handler of the key ended before its lease.
Prompt(k) == k \notin StalledKeys

Known(k) ==
    Prompt(k) /\ db[k].result /\ cache[k] # NoRecord =>
        \/ cache[k] = db[k]
        \/ cache[k] = Lease(db[k].by) /\ stage[db[k].by] = "Committed"

Placed(r) ==
    /\ stage[r] = "New" => age[r] = 0
    /\ stage[r] = "Committed" => r \in effects
    /\ stage[r] # "Done" => age[r] < 2

Owned(r) ==
    /\ stage[r] \in {"Checked", "Committed", "Released"} => age[r] = 0
    /\ stage[r] \in {"Leased", "Checked"} /\ age[r] = 0 =>
           cache[KeyOf(r)] = Lease(r) /\ db[KeyOf(r)] = Lease(r)
    /\ stage[r] = "Committed" => cache[KeyOf(r)] = Lease(r) /\ db[KeyOf(r)] = Reply(r)
    /\ stage[r] = "Released" => cache[KeyOf(r)] = Lease(r) /\ db[KeyOf(r)] = NoRecord

Holds(r) == Placed(r) /\ (Prompt(KeyOf(r)) => Owned(r))

Found(r) == Prompt(KeyOf(r)) /\ r \in effects /\ Live(r) => db[KeyOf(r)] = Reply(r)

At(k) ==
    /\ Filed(k, db[k]) /\ Filed(k, cache[k]) /\ Known(k)
    /\ \A r \in Calls : KeyOf(r) = k => Holds(r) /\ Found(r)

\* The table is bounded.
Used(table) == {k \in Keys : table[k] # NoRecord}
Counted == {k \in Keys \ StalledKeys : db[k] # NoRecord}
Bounded == IsFiniteSet(Used(db)) /\ Cardinality(Counted) <= Capacity

\* Whoever is told a result is told one of its own request.
Told ==
    \A r \in Calls : outcome[r] \in Calls =>
        outcome[r] \in effects /\ asks[outcome[r]] = asks[r]

CallsInv == CallsTypeOK /\ (\A k \in Keys : At(k)) /\ Bounded /\ Told

\* Records: a lease, an answer or none, told apart by their fields.
LEMMA Records ==
    /\ \A rec \in Record : rec \in [by: Calls, result: BOOLEAN] <=> rec # NoRecord
    /\ \A rec \in Record : rec # NoRecord => rec.by \in Calls /\ rec.result \in BOOLEAN
    /\ NoRecord \in Record /\ NoRecord.result = FALSE
    /\ \A r \in Calls : Lease(r) \in Record /\ Reply(r) \in Record
    /\ \A r : Lease(r).by = r /\ Lease(r).result = FALSE /\ Reply(r).by = r /\ Reply(r).result = TRUE
    /\ \A r \in Calls : Lease(r) # NoRecord /\ Reply(r) # NoRecord
    /\ \A rec \in Record : rec # NoRecord => rec = Lease(rec.by) \/ rec = Reply(rec.by)
  <1>1. None \notin Calls
    BY IdempotencyAssumption
  <1> QED BY <1>1 DEF Record, NoRecord, Lease, Reply

LEMMA AskTypes ==
    ASSUME CallsTypeOK, NEW r \in Calls
    PROVE  /\ KeyOf(r) \in Keys /\ asks[r] = [key |-> asks[r].key, body |-> asks[r].body]
           /\ age[r] \in 0..2
  BY IdempotencyAssumption DEF CallsTypeOK, KeyOf

\* What is asked and who stalled decide which keys are prompt.
LEMMA SameKeys ==
    ASSUME asks' = asks, stalled' = stalled
    PROVE  /\ StalledKeys' = StalledKeys
           /\ \A r : KeyOf(r)' = KeyOf(r)
           /\ \A k : Prompt(k)' <=> Prompt(k)
  BY DEF StalledKeys, KeyOf, Prompt

\* Only what is over is swept, and it is neither held nor to be found.
LEMMA OtherKey ==
    ASSUME CallsTypeOK, NEW k \in Keys, At(k), asks' = asks, stalled' = stalled,
           db'[k] \in {db[k], Swept(db)[k]}, cache'[k] \in {cache[k], Swept(cache)[k]},
           \A r \in Calls : KeyOf(r) = k => /\ stage'[r] = stage[r] /\ age'[r] = age[r]
                                            /\ r \in effects' <=> r \in effects
    PROVE  At(k)'
  <1>1. db[k] \in Record /\ cache[k] \in Record
    BY DEF CallsTypeOK
  <1>2. /\ db'[k] = db[k] \/ (db'[k] = NoRecord /\ Expired(k, db[k]))
        /\ cache'[k] = cache[k] \/ (cache'[k] = NoRecord /\ Expired(k, cache[k]))
    BY DEF Swept
  <1>3. (\A r : KeyOf(r)' = KeyOf(r)) /\ (Prompt(k)' <=> Prompt(k))
    BY SameKeys
  <1>4. Filed(k, db[k])' /\ Filed(k, cache[k])'
    BY <1>1, <1>2, <1>3, Records DEF At, Filed
  <1>5. Known(k)'
    BY <1>1, <1>2, <1>3, Records DEF At, Known, Filed
  <1>6. ASSUME NEW r \in Calls, KeyOf(r) = k
        PROVE  Holds(r)' /\ Found(r)'
    <2>1. Holds(r) /\ Found(r) /\ KeyOf(r)' = k /\ age[r] \in 0..2
      BY <1>3, <1>6, AskTypes DEF At
    <2>2. stage'[r] = stage[r] /\ age'[r] = age[r] /\ (r \in effects' <=> r \in effects)
      BY <1>6
    <2>3. /\ age[r] = 0 => ~Expired(k, Lease(r))
          /\ age[r] = 0 \/ Live(r) => ~Expired(k, Reply(r))
          /\ ~Expired(k, NoRecord)
      BY <1>6, <2>1, Records DEF Expired, Live
    <2>4. Holds(r)'
      BY <1>2, <1>3, <1>6, <2>1, <2>2, <2>3 DEF Holds, Placed, Owned
    <2>5. Found(r)'
      BY <1>2, <1>3, <1>6, <2>1, <2>2, <2>3 DEF Found, Live
    <2> QED BY <2>4, <2>5
  <1> QED BY <1>3, <1>4, <1>5, <1>6 DEF At

\* A key that begin finds free or expired is not held, and has no answer that
\* could still be asked for.
LEMMA OpenKey ==
    ASSUME CallsTypeOK, NEW k \in Keys, At(k), Prompt(k), Loaded(k) = NoRecord \/ Expired(k, Loaded(k))
    PROVE  \A s \in Calls : KeyOf(s) = k =>
              /\ stage[s] \in {"New", "Done"} \/ (stage[s] = "Leased" /\ age[s] # 0)
              /\ ~(s \in effects /\ Live(s))
  <1> SUFFICES ASSUME NEW s \in Calls, KeyOf(s) = k
               PROVE  /\ stage[s] \in {"New", "Done"} \/ (stage[s] = "Leased" /\ age[s] # 0)
                      /\ ~(s \in effects /\ Live(s))
    OBVIOUS
  <1>1. db[k] \in Record /\ cache[k] \in Record
    BY DEF CallsTypeOK
  <1>2. /\ Holds(s) /\ Found(s) /\ Known(k) /\ age[s] \in 0..2
        /\ stage[s] \in {"New", "Leased", "Checked", "Committed", "Released", "Done"}
    BY AskTypes DEF At, CallsTypeOK
  <1>3. age[s] = 0 => cache[k] # Lease(s)
    BY Records DEF Loaded, Expired
  <1>4. stage[s] \in {"New", "Done"} \/ (stage[s] = "Leased" /\ age[s] # 0)
    BY <1>2, <1>3 DEF Holds, Placed, Owned
  <1>5. ASSUME s \in effects, Live(s)
        PROVE  FALSE
    <2>1. db[k] = Reply(s) /\ ~Expired(k, Reply(s))
      BY <1>2, <1>5, Records DEF Found, Live, Expired
    <2>2. cache[k] = NoRecord \/ cache[k] = Reply(s)
      BY <1>2, <1>4, <2>1, Records DEF Known
    <2> QED BY <2>1, <2>2, Records DEF Loaded
  <1> QED BY <1>4, <1>5

\* Nothing is left of a free key, or only the lease of a new call.
LEMMA FreeKey ==
    ASSUME CallsTypeOK, NEW k \in Keys, At(k), asks' = asks, stalled' = stalled, age' = age, effects' = effects,
           db'[k] = NoRecord, cache'[k] = NoRecord,
           \A s \in Calls : KeyOf(s) = k =>
              /\ stage'[s] = "Done" \/ stage'[s] = stage[s]
              /\ Prompt(k) =>
                    /\ stage'[s] \in {"New", "Done"} \/ (stage'[s] = "Leased" /\ age[s] # 0)
                    /\ ~(s \in effects /\ Live(s))
    PROVE  At(k)'
  <1>1. (\A r : KeyOf(r)' = KeyOf(r)) /\ (Prompt(k)' <=> Prompt(k))
    BY SameKeys
  <1>2. Filed(k, db[k])' /\ Filed(k, cache[k])' /\ Known(k)'
    BY <1>1, Records DEF Filed, Known
  <1>3. \A r \in Calls : KeyOf(r) = k => Holds(r)' /\ Found(r)'
    BY <1>1 DEF At, Holds, Placed, Owned, Found, Live
  <1> QED BY <1>1, <1>2, <1>3 DEF At

\* The table does not grow, unless by a key for which there is room or of
\* which nothing is promised.
LEMMA NotMore ==
    ASSUME Bounded, NEW spoilt, IsFiniteSet(spoilt), \A k \in spoilt : ~Prompt(k),
           Used(db)' \subseteq Used(db) \cup spoilt, \A k : Prompt(k)' => Prompt(k)
    PROVE  Bounded'
  <1>1. IsFiniteSet(Used(db)')
    BY FS_Union, FS_Subset DEF Bounded
  <1>2. Counted' \subseteq Counted /\ Counted \subseteq Used(db)
    BY DEF Counted, Used, Prompt
  <1>3. IsFiniteSet(Counted) /\ Cardinality(Counted') <= Cardinality(Counted) /\ IsFiniteSet(Counted')
    BY <1>2, FS_Subset DEF Bounded
  <1>4. Cardinality(Counted) \in Nat /\ Cardinality(Counted') \in Nat
    BY <1>3, FS_CardinalityType
  <1> QED BY <1>1, <1>3, <1>4, IdempotencyAssumption DEF Bounded

LEMMA NoMore ==
    ASSUME Bounded, Used(db)' \subseteq Used(db), \A k : Prompt(k)' => Prompt(k)
    PROVE  Bounded'
  BY FS_EmptySet, NotMore

LEMMA BeginKeeps ==
    ASSUME CallsInv, NEW r \in Calls, Begin(r)
    PROVE  CallsInv'
  <1> USE DEF CallsInv
  <1> PICK k \in Keys : k = KeyOf(r)
    BY AskTypes
  <1> DEFINE rec == Loaded(k)
             open == rec = NoRecord \/ Expired(k, rec)
             freed == [db EXCEPT ![k] = IF open THEN NoRecord ELSE @]
             full == Full(freed)
             left == IF full THEN Swept(freed) ELSE freed
             kept == [IF full THEN Swept(cache) ELSE cache EXCEPT ![k] = NoRecord]
  <1>1. /\ stage[r] = "New" /\ effects' = effects /\ age' = age /\ asks' = asks
        /\ UNCHANGED <<stalled, mayFail, mayCrash, mayStall>>
    BY DEF Begin, world, fixed
  <1>2. /\ k \in Keys /\ At(k) /\ db \in [Keys -> Record] /\ cache \in [Keys -> Record]
        /\ stage \in [Calls -> {"New", "Leased", "Checked", "Committed", "Released", "Done"}]
        /\ outcome \in [Calls -> Calls \cup Refusals] /\ age[r] = 0
    BY <1>1, AskTypes DEF CallsTypeOK, At, Holds, Placed, Owned
  <1>3. \/ ~open /\ cache' = [cache EXCEPT ![k] = rec] /\ Answered(r, Verdict(r, rec)) /\ UNCHANGED db
        \/ open /\ Full(left) /\ db' = left /\ cache' = kept /\ Answered(r, "CapacityExceeded")
        \/ /\ open /\ ~Full(left)
           /\ db' = [left EXCEPT ![k] = Lease(r)] /\ cache' = [kept EXCEPT ![k] = Lease(r)]
           /\ stage' = [stage EXCEPT ![r] = "Leased"] /\ UNCHANGED outcome
    BY DEF Begin
  <1>4. (\A s : KeyOf(s)' = KeyOf(s)) /\ (\A j : Prompt(j)' <=> Prompt(j)) /\ StalledKeys' = StalledKeys
    BY <1>1, SameKeys
  <1>5. CASE ~open /\ cache' = [cache EXCEPT ![k] = rec] /\ Answered(r, Verdict(r, rec)) /\ UNCHANGED db
    <2>1. /\ rec \in Record /\ rec # NoRecord /\ rec.by \in Calls /\ KeyOf(rec.by) = k
          /\ rec.result => rec.by \in effects
          /\ rec = db[k] \/ rec = cache[k]
      BY <1>2, <1>5, Records DEF Loaded, At, Filed
    <2>2. /\ Verdict(r, rec) \in Calls \cup Refusals
          /\ Verdict(r, rec) \in Calls => rec.by \in effects /\ asks[rec.by].body = asks[r].body
                                          /\ Verdict(r, rec) = rec.by
      BY <2>1, IdempotencyAssumption DEF Verdict, Refusals
    <2>3. CallsTypeOK'
      BY <1>1, <1>2, <1>5, <2>1, <2>2 DEF CallsTypeOK, Answered
    <2>4. Told'
      <3>1. asks[rec.by].key = asks[r].key
        BY <2>1 DEF KeyOf
      <3>2. Verdict(r, rec) \in Calls => asks[rec.by] = asks[r]
        BY <2>1, <2>2, <3>1, AskTypes
      <3> QED BY <1>1, <1>2, <1>5, <2>2, <3>2 DEF Told, Answered
    <2>5. Bounded'
      BY <1>4, <1>5 DEF Bounded, Used, Counted
    <2>6. ASSUME NEW j \in Keys, j # k
          PROVE  At(j)'
      BY <1>1, <1>2, <1>5, <2>6, OtherKey DEF Answered
    <2>7. At(k)'
      <3>1. cache'[k] = rec /\ db'[k] = db[k] /\ (cache[k] # NoRecord => rec = cache[k])
            /\ (cache[k] = NoRecord => rec = db[k])
        BY <1>2, <1>5 DEF Loaded
      <3>2. Filed(k, db[k])' /\ Filed(k, cache[k])'
        BY <1>1, <1>2, <1>4, <2>1, <3>1 DEF At, Filed
      <3>3. \A s \in Calls : stage[s] = "Committed" => stage'[s] = "Committed"
        BY <1>1, <1>2, <1>5 DEF Answered
      <3>4. Known(k)'
        <4>1. db[k].result /\ cache[k] # NoRecord => db[k].by \in Calls
          BY <1>2, Records
        <4> QED BY <1>2, <1>4, <3>1, <3>3, <4>1 DEF At, Known
      <3>5. ASSUME NEW s \in Calls, KeyOf(s) = k
            PROVE  Holds(s)' /\ Found(s)'
        <4>1. Holds(s) /\ Found(s) /\ stage'[s] \in {stage[s], "Done"}
          BY <1>2, <1>5, <3>5 DEF At, Answered
        <4> QED BY <1>1, <1>2, <1>4, <3>1, <3>5, <4>1, Records DEF Holds, Placed, Owned, Found, Live
      <3> QED BY <1>4, <3>2, <3>4, <3>5 DEF At
    <2> QED BY <2>3, <2>4, <2>5, <2>6, <2>7
  <1>6. ASSUME open
        PROVE  /\ \A s \in Calls : Prompt(k) /\ KeyOf(s) = k =>
                     /\ stage[s] \in {"New", "Done"} \/ (stage[s] = "Leased" /\ age[s] # 0)
                     /\ ~(s \in effects /\ Live(s))
               /\ left \in [Keys -> Record] /\ kept \in [Keys -> Record]
               /\ left[k] = NoRecord /\ kept[k] = NoRecord
               /\ \A j \in Keys : j # k => /\ left[j] \in {db[j], Swept(db)[j]}
                                           /\ kept[j] \in {cache[j], Swept(cache)[j]}
               /\ Used(left) \subseteq Used(db)
    <2>1. freed \in [Keys -> Record] /\ freed[k] = NoRecord /\ \A j \in Keys : j # k => freed[j] = db[j]
      BY <1>2, <1>6, Records
    <2>2. /\ Swept(freed) \in [Keys -> Record] /\ Swept(freed)[k] = NoRecord
          /\ \A j \in Keys : j # k => Swept(freed)[j] = Swept(db)[j]
          /\ Swept(cache) \in [Keys -> Record]
      BY <1>2, <2>1, Records DEF Swept
    <2>3. /\ left \in [Keys -> Record] /\ kept \in [Keys -> Record]
          /\ left[k] = NoRecord /\ kept[k] = NoRecord
          /\ \A j \in Keys : j # k => /\ left[j] \in {db[j], Swept(db)[j]}
                                      /\ kept[j] \in {cache[j], Swept(cache)[j]}
      BY <1>2, <2>1, <2>2, Records
    <2>4. Used(left) \subseteq Used(db)
      BY <2>3 DEF Used, Swept
    <2> QED BY <1>2, <1>6, <2>3, <2>4, OpenKey
  <1> HIDE DEF rec, open, freed, full, left, kept
  <1>7. CASE open /\ Full(left) /\ db' = left /\ cache' = kept /\ Answered(r, "CapacityExceeded")
    <2>1. CallsTypeOK'
      BY <1>1, <1>2, <1>6, <1>7 DEF CallsTypeOK, Answered, Refusals
    <2>2. Told'
      BY <1>1, <1>2, <1>7, IdempotencyAssumption DEF Told, Answered, Refusals
    <2>3. Bounded'
      BY <1>4, <1>6, <1>7, NoMore DEF Used
    <2>4. ASSUME NEW j \in Keys, j # k
          PROVE  At(j)'
      <3>1. \A s \in Calls : KeyOf(s) = j => stage'[s] = stage[s]
        BY <1>2, <1>7, <2>4 DEF Answered
      <3> QED BY <1>1, <1>2, <1>6, <1>7, <2>4, <3>1, OtherKey
    <2>5. At(k)'
      <3>1. \A s \in Calls : stage'[s] = "Done" \/ stage'[s] = stage[s]
        BY <1>2, <1>7 DEF Answered
      <3>2. db'[k] = NoRecord /\ cache'[k] = NoRecord
        BY <1>6, <1>7
      <3>3. \A s \in Calls : KeyOf(s) = k =>
              /\ stage'[s] = "Done" \/ stage'[s] = stage[s]
              /\ Prompt(k) =>
                    /\ stage'[s] \in {"New", "Done"} \/ (stage'[s] = "Leased" /\ age[s] # 0)
                    /\ ~(s \in effects /\ Live(s))
        BY <1>6, <1>7, <3>1
      <3> QED BY <1>1, <1>2, <3>2, <3>3, FreeKey
    <2> QED BY <2>1, <2>2, <2>3, <2>4, <2>5
  <1>8. CASE /\ open /\ ~Full(left)
             /\ db' = [left EXCEPT ![k] = Lease(r)] /\ cache' = [kept EXCEPT ![k] = Lease(r)]
             /\ stage' = [stage EXCEPT ![r] = "Leased"] /\ UNCHANGED outcome
    <2>1. CallsTypeOK'
      BY <1>1, <1>2, <1>6, <1>8, Records DEF CallsTypeOK
    <2>2. Told'
      BY <1>1, <1>8 DEF Told
    <2>3. Bounded'
      <3>1. Used(db)' = Used(left) \cup {k} /\ k \notin Used(left)
        BY <1>2, <1>6, <1>8, Records DEF Used
      <3>2. IsFiniteSet(Used(left)) /\ Cardinality(Used(left)) \in Nat
        BY <1>6, <1>8, FS_Subset, FS_CardinalityType DEF Bounded
      <3>3. Cardinality(Used(left)) < Capacity
        BY <1>8, <3>2, IdempotencyAssumption DEF Full, Count, Used
      <3>4. IsFiniteSet(Used(db)') /\ Cardinality(Used(db)') = Cardinality(Used(left)) + 1
        BY <3>1, <3>2, FS_AddElement
      <3>5. Counted' \subseteq Used(db)'
        BY DEF Counted, Used
      <3>6. IsFiniteSet(Counted') /\ Cardinality(Counted') <= Cardinality(Used(db)')
        BY <3>4, <3>5, FS_Subset
      <3>7. Cardinality(Counted') \in Nat
        BY <3>6, FS_CardinalityType
      <3> QED BY <3>2, <3>3, <3>4, <3>6, <3>7, IdempotencyAssumption DEF Bounded
    <2>4. ASSUME NEW j \in Keys, j # k
          PROVE  At(j)'
      <3>1. \A s \in Calls : KeyOf(s) = j => stage'[s] = stage[s]
        BY <1>2, <1>8, <2>4
      <3>2. db'[j] = left[j] /\ cache'[j] = kept[j]
        BY <1>6, <1>8, <2>4
      <3> QED BY <1>1, <1>2, <1>6, <1>8, <2>4, <3>1, <3>2, OtherKey
    <2>5. At(k)'
      <3>1. db'[k] = Lease(r) /\ cache'[k] = Lease(r) /\ KeyOf(r) = k /\ k \in Keys
        BY <1>2, <1>6, <1>8
      <3>2. Filed(k, db[k])' /\ Filed(k, cache[k])' /\ Known(k)'
        BY <1>4, <3>1, Records DEF Filed, Known
      <3>3. ASSUME NEW s \in Calls, KeyOf(s) = k
            PROVE  Holds(s)' /\ Found(s)'
        <4>1. /\ Holds(s)
              /\ Prompt(k) => /\ ~(s \in effects /\ Live(s))
                              /\ stage[s] \in {"New", "Done"} \/ (stage[s] = "Leased" /\ age[s] # 0)
          BY <1>2, <1>6, <1>8, <3>3 DEF At
        <4>2. CASE s = r
          BY <1>1, <1>2, <1>4, <1>8, <3>1, <4>1, <4>2 DEF Holds, Placed, Owned, Found, Live
        <4>3. CASE s # r
          <5>1. stage'[s] = stage[s]
            BY <1>2, <1>8, <4>3
          <5> QED BY <1>1, <1>4, <3>3, <4>1, <5>1 DEF Holds, Placed, Owned, Found, Live
        <4> QED BY <4>2, <4>3
      <3> QED BY <1>4, <3>2, <3>3 DEF At
    <2> QED BY <2>1, <2>2, <2>3, <2>4, <2>5
  <1> QED BY <1>3, <1>5, <1>7, <1>8

LEMMA BeginFailsKeeps ==
    ASSUME CallsInv, NEW r \in Calls, BeginFails(r)
    PROVE  CallsInv'
  <1> USE DEF CallsInv
  <1> PICK k \in Keys : k = KeyOf(r)
    BY AskTypes
  <1>1. /\ stage[r] = "New" /\ StatementFails
        /\ Expired(k, Loaded(k)) \/ Loaded(k) = NoRecord
        /\ cache' = [cache EXCEPT ![k] = NoRecord]
        /\ db' \in {db, [db EXCEPT ![k] = IF Expired(k, Loaded(k)) THEN NoRecord ELSE @]}
        /\ Answered(r, "Error")
        /\ UNCHANGED <<effects, age, asks, stalled, mayCrash, mayStall>>
    BY DEF BeginFails, fixed
  <1>2. /\ k \in Keys /\ At(k) /\ db \in [Keys -> Record] /\ cache \in [Keys -> Record]
        /\ stage \in [Calls -> {"New", "Leased", "Checked", "Committed", "Released", "Done"}]
        /\ outcome \in [Calls -> Calls \cup Refusals] /\ age[r] = 0
    BY <1>1, AskTypes DEF CallsTypeOK, At, Holds, Placed, Owned
  <1>3. /\ db' \in [Keys -> Record] /\ cache' \in [Keys -> Record]
        /\ db'[k] \in {db[k], NoRecord} /\ cache'[k] = NoRecord
        /\ \A j \in Keys : j # k => db'[j] = db[j] /\ cache'[j] = cache[j]
    <2>1. NoRecord \in Record
      BY Records
    <2>2. db' = db \/ db' = [db EXCEPT ![k] = NoRecord]
      BY <1>1, <1>2
    <2>3. /\ db' \in [Keys -> Record] /\ db'[k] \in {db[k], NoRecord}
          /\ \A j \in Keys : j # k => db'[j] = db[j]
      BY <1>2, <2>1, <2>2
    <2>4. /\ cache' \in [Keys -> Record] /\ cache'[k] = NoRecord
          /\ \A j \in Keys : j # k => cache'[j] = cache[j]
      BY <1>1, <1>2, <2>1
    <2> QED BY <2>3, <2>4
  <1>4. CallsTypeOK'
    <2>1. /\ stage' \in [Calls -> {"New", "Leased", "Checked", "Committed", "Released", "Done"}]
          /\ outcome' \in [Calls -> Calls \cup Refusals]
      BY <1>1, <1>2 DEF Answered, Refusals
    <2>2. mayFail' \in 0..MaxFailures
      BY <1>1, IdempotencyAssumption DEF StatementFails, CallsTypeOK
    <2> QED BY <1>1, <1>3, <2>1, <2>2 DEF CallsTypeOK
  <1>5. Told'
    BY <1>1, <1>2, IdempotencyAssumption DEF Told, Answered, Refusals
  <1>6. Bounded'
    BY <1>1, <1>3, NoMore, SameKeys DEF Used
  <1>7. ASSUME NEW j \in Keys, j # k
        PROVE  At(j)'
    <2>1. \A s \in Calls : KeyOf(s) = j => stage'[s] = stage[s]
      BY <1>1, <1>2, <1>7 DEF Answered
    <2> QED BY <1>1, <1>3, <1>7, <2>1, OtherKey
  <1>8. At(k)'
    <2>1. \A s \in Calls : stage'[s] = "Done" \/ stage'[s] = stage[s]
      BY <1>1, <1>2 DEF Answered
    <2>2. \A s \in Calls : Prompt(k) /\ KeyOf(s) = k =>
            /\ stage[s] \in {"New", "Done"} \/ (stage[s] = "Leased" /\ age[s] # 0)
            /\ ~(s \in effects /\ Live(s))
      BY <1>1, <1>2, OpenKey
    <2>3. (\A s : KeyOf(s)' = KeyOf(s)) /\ (Prompt(k)' <=> Prompt(k))
      BY <1>1, SameKeys
    <2>4. Filed(k, db[k])' /\ Filed(k, cache[k])' /\ Known(k)'
      BY <1>1, <1>2, <1>3, <2>3, Records DEF At, Filed, Known
    <2>5. \A s \in Calls : KeyOf(s) = k => Holds(s)' /\ Found(s)'
      BY <1>1, <1>2, <2>1, <2>2, <2>3 DEF At, Holds, Placed, Owned, Found, Live
    <2> QED BY <2>3, <2>4, <2>5 DEF At
  <1> QED BY <1>4, <1>5, <1>6, <1>7, <1>8

\* abort gives up a key only of the call that holds its lease.
LEMMA AbortKeeps ==
    ASSUME CallsInv, NEW r \in Calls, NEW a \in Refusals, Abort(r), Answered(r, a),
           stage[r] = "Checked" \/ (stage[r] = "Leased" /\ ~MayExecute(r)),
           UNCHANGED <<effects, age, fixed>>
    PROVE  CallsInv'
  <1> USE DEF CallsInv, fixed
  <1> PICK k \in Keys : k = KeyOf(r)
    BY AskTypes
  <1>1. /\ k \in Keys /\ At(k) /\ db \in [Keys -> Record] /\ cache \in [Keys -> Record]
        /\ stage \in [Calls -> {"New", "Leased", "Checked", "Committed", "Released", "Done"}]
        /\ outcome \in [Calls -> Calls \cup Refusals] /\ Holds(r) /\ Known(k)
    BY AskTypes DEF CallsTypeOK, At
  <1>2. /\ db' \in [Keys -> Record] /\ cache' \in [Keys -> Record] /\ mayFail' \in 0..MaxFailures
        /\ \A j \in Keys : j # k => db'[j] = db[j] /\ cache'[j] = cache[j]
        /\ \/ Owns(r) /\ cache'[k] = NoRecord /\ db'[k] \in {db[k], NoRecord}
           \/ ~Owns(r) /\ cache'[k] = cache[k] /\ db'[k] = db[k]
    <2>1. NoRecord \in Record /\ mayFail \in 0..MaxFailures
      BY Records DEF CallsTypeOK
    <2>2. mayFail' \in 0..MaxFailures
      BY <2>1, IdempotencyAssumption DEF Abort, StatementFails
    <2>3. \/ /\ Owns(r) /\ cache' = [cache EXCEPT ![k] = NoRecord]
             /\ db' = db \/ db' = [db EXCEPT ![k] = NoRecord]
          \/ ~Owns(r) /\ cache' = cache /\ db' = db
      BY DEF Abort
    <2> QED BY <1>1, <2>1, <2>2, <2>3
  <1>3. stage' = [stage EXCEPT ![r] = "Done"] /\ outcome' = [outcome EXCEPT ![r] = a]
    BY DEF Answered
  <1>4. (\A s : KeyOf(s)' = KeyOf(s)) /\ (\A j : Prompt(j)' <=> Prompt(j))
    BY SameKeys
  <1>5. CallsTypeOK'
    BY <1>1, <1>2, <1>3 DEF CallsTypeOK
  <1>6. Told'
    BY <1>1, <1>3, IdempotencyAssumption DEF Told
  <1>7. Bounded'
    BY <1>2, <1>4, NoMore DEF Used
  <1>8. ASSUME NEW j \in Keys, j # k
        PROVE  At(j)'
    <2>1. \A s \in Calls : KeyOf(s) = j => stage'[s] = stage[s]
      BY <1>1, <1>3, <1>8
    <2> QED BY <1>2, <1>8, <2>1, OtherKey
  <1>9. At(k)'
    <2>1. Filed(k, db[k])' /\ Filed(k, cache[k])'
      BY <1>1, <1>2, <1>4, Records DEF At, Filed
    <2>2. Known(k)'
      <3>1. Prompt(k) /\ db[k].result /\ cache[k] # NoRecord =>
              (db[k].by \in Calls /\ db[k].by # r) \/ cache[k] = db[k]
        BY <1>1, Records DEF Known
      <3> QED BY <1>1, <1>2, <1>3, <1>4, <3>1, Records DEF Known
    <2>3. ASSUME NEW s \in Calls, KeyOf(s) = k
          PROVE  Holds(s)' /\ Found(s)'
      <3>1. Holds(s) /\ Found(s)
        BY <1>1, <2>3 DEF At
      <3>2. CASE s = r
        <4>1. Prompt(k) /\ db[k] = Reply(r) => ~Owns(r)
          BY <1>1, Records DEF Known, Owns
        <4>2. Found(r)'
          BY <1>1, <1>2, <1>4, <3>1, <3>2, <4>1 DEF Found, Live
        <4>3. Holds(r)'
          BY <1>1, <1>3, <1>4 DEF Holds, Placed, Owned
        <4> QED BY <3>2, <4>2, <4>3
      <3>3. CASE s # r
        <4>1. stage'[s] = stage[s] /\ Lease(s) # Lease(r)
          BY <1>1, <1>3, <3>3, Records
        <4>2. Prompt(k) /\ Owns(r) => cache[k] # Lease(s) /\ db[k] # Reply(s)
          <5>1. Owns(r) => cache[k] = Lease(r)
            BY DEF Owns
          <5>2. Prompt(k) /\ Owns(r) /\ db[k] = Reply(s) => Lease(r) = Reply(s) \/ Lease(r) = Lease(s)
            BY <1>1, <5>1, Records DEF Known
          <5> QED BY <4>1, <5>1, <5>2, Records
        <4>3. Holds(s)'
          BY <1>2, <1>4, <2>3, <3>1, <4>1, <4>2 DEF Holds, Placed, Owned
        <4>4. Found(s)'
          BY <1>2, <1>4, <2>3, <3>1, <4>1, <4>2 DEF Found, Live
        <4> QED BY <4>3, <4>4
      <3> QED BY <3>2, <3>3
    <2> QED BY <1>4, <2>1, <2>2, <2>3 DEF At
  <1> QED BY <1>5, <1>6, <1>7, <1>8, <1>9

LEMMA CheckLeaseKeeps ==
    ASSUME CallsInv, NEW r \in Calls, CheckLease(r)
    PROVE  CallsInv'
  <1> USE DEF CallsInv, fixed
  <1>1. CASE ~MayExecute(r) /\ Abort(r) /\ Answered(r, "LeaseLost")
    BY <1>1, AbortKeeps DEF CheckLease, Refusals
  <1>2. CASE MayExecute(r) /\ stage' = [stage EXCEPT ![r] = "Checked"]
             /\ UNCHANGED <<db, cache, outcome, mayFail>>
    <2>1. /\ stage[r] = "Leased" /\ age[r] = 0 /\ UNCHANGED <<effects, age, fixed>>
          /\ stage \in [Calls -> {"New", "Leased", "Checked", "Committed", "Released", "Done"}]
      BY <1>2 DEF CheckLease, MayExecute, CallsTypeOK
    <2>2. /\ \A s : KeyOf(s)' = KeyOf(s)
          /\ (\A j : Prompt(j)' <=> Prompt(j)) /\ StalledKeys' = StalledKeys
      BY <2>1, SameKeys
    <2>3. CallsTypeOK' /\ Bounded' /\ Told'
      BY <1>2, <2>1, <2>2 DEF CallsTypeOK, Bounded, Used, Counted, Told
    <2>4. ASSUME NEW k \in Keys
          PROVE  At(k)'
      <3>1. Filed(k, db[k])' /\ Filed(k, cache[k])'
        BY <1>2, <2>1, <2>2 DEF At, Filed
      <3>2. Known(k)'
        BY <1>2, <2>1, <2>2 DEF At, Known
      <3>3. ASSUME NEW s \in Calls, KeyOf(s) = k
            PROVE  Holds(s)' /\ Found(s)'
        <4>1. Holds(s) /\ Found(s)
          BY <3>3 DEF At
        <4> QED BY <1>2, <2>1, <2>2, <4>1 DEF Holds, Placed, Owned, Found, Live
      <3> QED BY <2>2, <3>1, <3>2, <3>3 DEF At
    <2> QED BY <2>3, <2>4
  <1> QED BY <1>1, <1>2 DEF CheckLease

LEMMA RollBackKeeps ==
    ASSUME CallsInv, NEW r \in Calls, RollBack(r)
    PROVE  CallsInv'
  BY AbortKeeps DEF RollBack, Refusals

\* The transaction of a call that holds its key.
LEMMA CommitKeeps ==
    ASSUME CallsInv, NEW r \in Calls, CommitAnswer(r) \/ CommitRefusal(r)
    PROVE  CallsInv'
  <1> USE DEF CallsInv
  <1> PICK k \in Keys : k = KeyOf(r)
    BY AskTypes
  <1>1. /\ k \in Keys /\ At(k) /\ db \in [Keys -> Record] /\ cache \in [Keys -> Record]
        /\ stage \in [Calls -> {"New", "Leased", "Checked", "Committed", "Released", "Done"}]
        /\ Holds(r) /\ stage[r] = "Checked" /\ age[r] < 2
        /\ Prompt(k) => age[r] = 0 /\ cache[k] = Lease(r) /\ db[k] = Lease(r)
    BY AskTypes DEF CallsTypeOK, At, Holds, Placed, Owned, CommitAnswer, CommitRefusal
  <1>2. /\ UNCHANGED <<cache, outcome, age, asks, stalled, mayFail, mayCrash, mayStall>>
        /\ \/ /\ db' = [db EXCEPT ![k] = Reply(r)] /\ effects' = effects \cup {r}
              /\ stage' = [stage EXCEPT ![r] = "Committed"]
           \/ /\ db' = [db EXCEPT ![k] = NoRecord] /\ effects' = effects
              /\ stage' = [stage EXCEPT ![r] = "Released"]
    BY DEF CommitAnswer, CommitRefusal, StoredAnswer, ReleasedKey, Reply, world, fixed
  <1>3. /\ db' \in [Keys -> Record] /\ \A j \in Keys : j # k => db'[j] = db[j]
        /\ effects \subseteq effects'
        /\ \/ /\ db'[k] = Reply(r) /\ r \in effects'
              /\ stage' = [stage EXCEPT ![r] = "Committed"]
           \/ /\ db'[k] = NoRecord
              /\ stage' = [stage EXCEPT ![r] = "Released"]
    BY <1>1, <1>2, Records
  <1>4. /\ \A s : KeyOf(s)' = KeyOf(s)
        /\ (\A j : Prompt(j)' <=> Prompt(j)) /\ StalledKeys' = StalledKeys
    BY <1>2, SameKeys
  <1>5. CallsTypeOK'
    BY <1>1, <1>2, <1>3 DEF CallsTypeOK
  <1>6. Told'
    BY <1>2 DEF Told
  <1>7. Bounded'
    <2>1. CASE Prompt(k)
      BY <1>1, <1>3, <1>4, <2>1, NoMore, Records DEF Used
    <2>2. CASE ~Prompt(k)
      <3>1. IsFiniteSet({k}) /\ \A j \in {k} : ~Prompt(j)
        BY <2>2, FS_Singleton
      <3>2. Used(db)' \subseteq Used(db) \cup {k}
        BY <1>3 DEF Used
      <3> QED BY <1>4, <3>1, <3>2, NotMore
    <2> QED BY <2>1, <2>2
  <1>8. ASSUME NEW j \in Keys, j # k
        PROVE  At(j)'
    <2>1. \A s \in Calls : KeyOf(s) = j => stage'[s] = stage[s] /\ (s \in effects' <=> s \in effects)
      BY <1>1, <1>2, <1>8
    <2> QED BY <1>2, <1>3, <1>8, <2>1, OtherKey
  <1>9. At(k)'
    <2>1. Filed(k, db[k])' /\ Filed(k, cache[k])'
      BY <1>1, <1>2, <1>3, <1>4, Records DEF At, Filed
    <2>2. Known(k)'
      BY <1>1, <1>2, <1>3, <1>4, Records DEF Known
    <2>3. ASSUME NEW s \in Calls, KeyOf(s) = k
          PROVE  Placed(s)'
      <3>1. Placed(s)
        BY <1>1, <2>3 DEF At, Holds
      <3>2. CASE s = r
        BY <1>1, <1>2, <1>3, <3>2 DEF Placed
      <3>3. CASE s # r
        BY <1>1, <1>2, <1>3, <3>1, <3>3 DEF Placed
      <3> QED BY <3>2, <3>3
    <2>4. ASSUME NEW s \in Calls, KeyOf(s) = k, Prompt(k)
          PROVE  Owned(s)' /\ Found(s)'
      <3>1. Holds(s) /\ Found(s)
        BY <1>1, <2>4 DEF At
      <3>2. CASE s = r
        <4>1. \/ stage'[r] = "Committed" /\ db'[k] = Reply(r) /\ r \in effects'
              \/ stage'[r] = "Released" /\ db'[k] = NoRecord /\ effects' = effects
          BY <1>1, <1>2, <1>3
        <4>2. Owned(r)'
          BY <1>1, <1>2, <1>4, <2>4, <4>1 DEF Owned
        <4>3. Lease(r) # Reply(r)
          BY Records
        <4>4. Found(r)'
          BY <1>1, <1>2, <1>4, <2>4, <3>1, <3>2, <4>1, <4>3 DEF Found, Live
        <4> QED BY <3>2, <4>2, <4>4
      <3>3. CASE s # r
        <4>1. stage'[s] = stage[s] /\ (s \in effects' <=> s \in effects) /\ Lease(s) # Lease(r)
          BY <1>1, <1>2, <3>3, Records
        <4>2. Lease(r) # Reply(s)
          BY Records
        <4>3. /\ stage[s] \notin {"Checked", "Committed", "Released"}
              /\ stage[s] = "Leased" => age[s] # 0
              /\ ~(s \in effects /\ Live(s))
          BY <1>1, <2>4, <3>1, <4>1, <4>2 DEF Holds, Owned, Found
        <4> QED BY <1>2, <1>4, <4>1, <4>3 DEF Owned, Found, Live
      <3> QED BY <3>2, <3>3
    <2>5. \A s \in Calls : KeyOf(s) = k => Holds(s)' /\ Found(s)'
      BY <1>4, <2>3, <2>4 DEF Holds, Found
    <2> QED BY <1>4, <2>1, <2>2, <2>5 DEF At
  <1> QED BY <1>5, <1>6, <1>7, <1>8, <1>9

\* The cache follows what the call of this key committed.
LEMMA PublishKeeps ==
    ASSUME CallsInv, NEW r \in Calls, Publish(r)
    PROVE  CallsInv'
  <1> USE DEF CallsInv
  <1> PICK k \in Keys : k = KeyOf(r)
    BY AskTypes
  <1>1. /\ k \in Keys /\ At(k) /\ db \in [Keys -> Record] /\ cache \in [Keys -> Record]
        /\ stage \in [Calls -> {"New", "Leased", "Checked", "Committed", "Released", "Done"}]
        /\ outcome \in [Calls -> Calls \cup Refusals]
        /\ Holds(r) /\ (Prompt(k) => cache[k] = Lease(r) /\ age[r] = 0)
    BY AskTypes DEF CallsTypeOK, At, Holds, Placed, Owned, Publish
  <1>2. /\ UNCHANGED <<db, effects, age, asks, stalled, mayFail, mayCrash, mayStall>>
        /\ stage' = [stage EXCEPT ![r] = "Done"]
        /\ \/ /\ stage[r] = "Committed" /\ cache' = [cache EXCEPT ![k] = Reply(r)]
              /\ outcome' = [outcome EXCEPT ![r] = r] /\ r \in effects
              /\ Prompt(k) => db[k] = Reply(r)
           \/ /\ stage[r] = "Released"
              /\ cache' = cache \/ cache' = [cache EXCEPT ![k] = NoRecord]
              /\ outcome' = [outcome EXCEPT ![r] = "Refused"]
              /\ Prompt(k) => db[k] = NoRecord /\ cache' = [cache EXCEPT ![k] = NoRecord]
    BY <1>1 DEF Publish, Refreshed, Answered, Reply, Owns, world, fixed, Holds, Placed, Owned
  <1>3. /\ cache' \in [Keys -> Record] /\ \A j \in Keys : j # k => cache'[j] = cache[j]
        /\ (cache'[k] = Reply(r) /\ r \in effects) \/ cache'[k] \in {cache[k], NoRecord}
        /\ Prompt(k) => \/ cache'[k] = Reply(r) /\ db[k] = Reply(r)
                        \/ cache'[k] = NoRecord /\ db[k] = NoRecord
    BY <1>1, <1>2, Records
  <1>4. /\ \A s : KeyOf(s)' = KeyOf(s)
        /\ (\A j : Prompt(j)' <=> Prompt(j)) /\ StalledKeys' = StalledKeys
    BY <1>2, SameKeys
  <1>5. CallsTypeOK'
    BY <1>1, <1>2, <1>3 DEF CallsTypeOK, Refusals
  <1>6. Told'
    BY <1>1, <1>2, IdempotencyAssumption DEF Told, Refusals
  <1>7. Bounded'
    BY <1>2, <1>4 DEF Bounded, Used, Counted
  <1>8. ASSUME NEW j \in Keys, j # k
        PROVE  At(j)'
    <2>1. \A s \in Calls : KeyOf(s) = j => stage'[s] = stage[s]
      BY <1>1, <1>2, <1>8
    <2> QED BY <1>2, <1>3, <1>8, <2>1, OtherKey
  <1>9. At(k)'
    <2>1. Filed(k, db[k])' /\ Filed(k, cache[k])'
      BY <1>1, <1>2, <1>3, <1>4, Records DEF At, Filed
    <2>3. Known(k)'
      BY <1>1, <1>2, <1>3, <1>4, Records DEF Known
    <2>2. ASSUME NEW s \in Calls, KeyOf(s) = k
          PROVE  Holds(s)' /\ Found(s)'
      <3>1. Holds(s) /\ Found(s) /\ KeyOf(s)' = k /\ (Prompt(k)' <=> Prompt(k))
        BY <1>1, <1>4, <2>2 DEF At
      <3>2. Found(s)'
        <4>1. effects' = effects /\ age' = age /\ db' = db
          BY <1>2
        <4> QED BY <1>4, <3>1, <4>1 DEF Found, Live
      <3>3. CASE s = r
        <4>1. stage'[r] = "Done"
          BY <1>1, <1>2
        <4> QED BY <3>2, <3>3, <4>1 DEF Holds, Placed, Owned
      <3>4. CASE s # r
        <4>1. stage'[s] = stage[s] /\ (Prompt(k) => cache[k] # Lease(s))
          BY <1>1, <1>2, <3>4, Records
        <4>2. cache[k] = cache[KeyOf(s)] /\ db' = db /\ effects' = effects /\ age' = age
          BY <1>2, <2>2
        <4>3. Prompt(k) =>
                /\ stage[s] \notin {"Checked", "Committed", "Released"}
                /\ stage[s] = "Leased" => age[s] # 0
          BY <2>2, <3>1, <4>1, <4>2 DEF Holds, Owned
        <4>4. Placed(s)'
          BY <3>1, <4>1, <4>2 DEF Holds, Placed
        <4>5. Prompt(k) => Owned(s)'
          BY <4>1, <4>2, <4>3 DEF Owned
        <4> QED BY <3>1, <3>2, <4>4, <4>5 DEF Holds
      <3> QED BY <3>2, <3>3, <3>4
    <2> QED BY <1>4, <2>1, <2>2, <2>3 DEF At
  <1> QED BY <1>5, <1>6, <1>7, <1>8, <1>9

LEMMA CleanupKeeps ==
    ASSUME CallsInv, Cleanup
    PROVE  CallsInv'
  <1> USE DEF CallsInv, Cleanup, world, fixed
  <1>1. CallsTypeOK'
    BY Records DEF CallsTypeOK, Swept
  <1>2. Told'
    BY DEF Told
  <1>3. Bounded'
    BY NoMore, SameKeys DEF Used, Swept
  <1>4. \A k \in Keys : At(k)'
    BY OtherKey
  <1> QED BY <1>1, <1>2, <1>3, <1>4

LEMMA CrashKeeps ==
    ASSUME CallsInv, Crash
    PROVE  CallsInv'
  <1> USE DEF CallsInv
  <1>1. /\ cache' = [k \in Keys |-> NoRecord]
        /\ stage' = [r \in Calls |-> IF stage[r] = "New" THEN "New" ELSE "Done"]
        /\ UNCHANGED <<asks, db, outcome, effects, age, stalled, mayFail, mayStall>>
    BY DEF Crash
  <1>2. CallsTypeOK'
    BY <1>1, Records, IdempotencyAssumption DEF CallsTypeOK, Crash
  <1>3. Told' /\ Bounded'
    BY <1>1, SameKeys DEF Told, Bounded, Used, Counted
  <1>4. ASSUME NEW k \in Keys
        PROVE  At(k)'
    BY <1>1, <1>4, SameKeys, Records DEF At, Filed, Known, Holds, Placed, Owned, Found, Live, KeyOf
  <1> QED BY <1>2, <1>3, <1>4

\* A lease that ends while its handler is between the check and the update of
\* the cache takes the key out of what is known; any other is not held.
LEMMA AgesKeeps ==
    ASSUME CallsInv, NEW r \in Calls, LeaseOver(r) \/ AnswerOver(r)
    PROVE  CallsInv'
  <1> USE DEF CallsInv
  <1>1. /\ UNCHANGED <<db, cache, stage, outcome, effects, asks, mayFail, mayCrash>>
        /\ age[r] \in 0..1 /\ age' = [age EXCEPT ![r] = age[r] + 1] /\ age \in [Calls -> 0..2]
        /\ stage[r] \in {"Leased", "Checked", "Committed", "Released", "Done"}
        /\ stage[r] # "Done" => age[r] = 0
        /\ mayStall' \in 0..MaxStalls
        /\ \/ stage[r] \in {"Leased", "Done"} /\ stalled' = stalled
           \/ stalled' = stalled \cup {r}
    BY IdempotencyAssumption DEF LeaseOver, AnswerOver, world, fixed, CallsTypeOK
  <1>2. age' \in [Calls -> 0..2] /\ \A s \in Calls : s # r => age'[s] = age[s]
    BY <1>1
  <1>3. age'[r] = age[r] + 1
    BY <1>1
  <1>4. /\ \A s : KeyOf(s)' = KeyOf(s)
        /\ \A j : Prompt(j)' => Prompt(j)
        /\ Prompt(KeyOf(r))' => stage[r] \in {"Leased", "Done"}
    BY <1>1 DEF KeyOf, Prompt, StalledKeys
  <1>5. CallsTypeOK' /\ Told'
    BY <1>1, <1>2 DEF CallsTypeOK, Told
  <1>6. Bounded'
    BY <1>1, <1>4, NoMore DEF Used
  <1>7. ASSUME NEW k \in Keys
        PROVE  At(k)'
    <2>1. Filed(k, db[k])' /\ Filed(k, cache[k])' /\ Known(k)'
      BY <1>1, <1>4 DEF At, Filed, Known
    <2>2. ASSUME NEW s \in Calls, KeyOf(s) = k
          PROVE  Holds(s)' /\ Found(s)'
      <3>1. Holds(s) /\ Found(s)
        BY <2>2 DEF At
      <3>2. CASE s = r
        BY <1>1, <1>3, <1>4, <3>1, <3>2 DEF Holds, Placed, Owned, Found, Live
      <3>3. CASE s # r
        BY <1>1, <1>2, <1>4, <3>1, <3>3 DEF Holds, Placed, Owned, Found, Live
      <3> QED BY <3>2, <3>3
    <2> QED BY <1>4, <2>1, <2>2 DEF At
  <1> QED BY <1>5, <1>6, <1>7

LEMMA CallsKept ==
    ASSUME CallsInv, UNCHANGED callVars
    PROVE  CallsInv'
  <1> USE DEF CallsInv, callVars
  <1>1. CallsTypeOK' /\ Told' /\ Bounded'
    BY SameKeys DEF CallsTypeOK, Told, Bounded, Used, Counted
  <1>2. \A k \in Keys : At(k)'
    BY SameKeys DEF At, Filed, Known, Holds, Placed, Owned, Found, Live, KeyOf
  <1> QED BY <1>1, <1>2

LEMMA CallsStep ==
    ASSUME CallsInv, [Next]_vars
    PROVE  CallsInv'
  <1>1. ASSUME NEW r \in Requests, Arrive(r) \/ EventLoop(r)
        PROVE  CallsInv'
    BY <1>1, CallsKept DEF Arrive, EventLoop
  <1>2. ASSUME NEW w \in Workers, Thread(w)
        PROVE  CallsInv'
    BY <1>2, CallsKept, CleanupKeeps DEF Thread, OperationEnds, SweepKeys, Sweeping
  <1>3. ASSUME NEW r \in Calls, CallStep(r)
        PROVE  CallsInv'
    BY <1>3, BeginKeeps, BeginFailsKeeps, CheckLeaseKeeps, CommitKeeps, RollBackKeeps, PublishKeeps
       DEF CallStep, Step
  <1>4. ASSUME NEW r \in Calls, Ages(r)
        PROVE  CallsInv'
    BY <1>4, AgesKeeps DEF Ages
  <1>5. CASE SweepFreely
    BY <1>5, CleanupKeeps DEF SweepFreely, Sweeping
  <1>6. CASE Restart
    BY <1>6, CrashKeeps DEF Restart
  <1>7. CASE Notify \/ Leave \/ Terminate \/ UNCHANGED vars
            \/ (\E w \in Workers : Wake(w)) \/ (\E e \in Entries : Schedule(e))
    BY <1>7, CallsKept DEF Notify, Leave, Terminate, Wake, Schedule, vars
  <1> QED BY <1>1, <1>2, <1>3, <1>4, <1>5, <1>6, <1>7 DEF Next

LEMMA CallsInvariant == Spec => []CallsInv
  <1>1. Init => CallsInv
    <2> SUFFICES ASSUME Init
                 PROVE  CallsInv
      OBVIOUS
    <2> USE DEF Init, CallsInit
    <2>1. CallsTypeOK
      BY Records DEF CallsTypeOK, Refusals
    <2>2. Told
      BY IdempotencyAssumption DEF Told, Refusals
    <2>3. Used(db) = {}
      BY DEF Used
    <2>4. Bounded
      <3>1. IsFiniteSet({}) /\ Cardinality({}) = 0 /\ 0 <= Capacity
        BY FS_EmptySet, IdempotencyAssumption
      <3>2. Counted = {}
        BY DEF Counted
      <3> HIDE DEF Init, CallsInit
      <3> QED BY <2>3, <3>1, <3>2 DEF Bounded
    <2>5. \A k \in Keys : At(k)
      BY Records DEF At, Filed, Known, Holds, Placed, Owned, Found
    <2> QED BY <2>1, <2>2, <2>4, <2>5 DEF CallsInv
  <1>2. CallsInv /\ [Next]_vars => CallsInv'
    BY CallsStep
  <1> QED BY <1>1, <1>2, PTL DEF Spec

\* An answer that can still be asked for is the record of its key, in a table
\* that stays within its capacity; a handler that is still at it when its lease
\* ends takes that from its own key only.
THEOREM LateResultsCanBeAskedAlways == Spec => []LateResultsCanBeAsked
  <1>1. CallsInv => LateResultsCanBeAsked
    <2> SUFFICES ASSUME CallsInv PROVE LateResultsCanBeAsked
      OBVIOUS
    <2>1. CallsTypeOK /\ Cardinality({k \in Keys \ StalledKeys : db[k] # NoRecord}) <= Capacity
      BY DEF CallsInv, Bounded, Counted
    <2>2. \A r \in Calls :
             /\ r \in effects
             /\ KeyOf(r) \notin StalledKeys
             /\ KeyOf(r) \in Permanent \/ age[r] < 2
             => db[KeyOf(r)] = [by |-> r, result |-> TRUE]
      BY AskTypes DEF CallsInv, At, Found, Live, Reply, Prompt
    <2> QED BY <2>1, <2>2 DEF LateResultsCanBeAsked, CallsTypeOK
  <1> QED BY <1>1, CallsInvariant, PTL

\* The effects of one key exclude each other as long as an answer is kept: each
\* of them would be the record of the key.
LEMMA OneRecord ==
    ASSUME CallsInv, NEW r \in effects, NEW s \in effects, KeyOf(r) = KeyOf(s), r # s,
           Prompt(KeyOf(r))
    PROVE  KeyOf(r) \notin Permanent /\ (age[r] = 2 \/ age[s] = 2)
  <1>1. r \in Calls /\ s \in Calls /\ age[r] \in 0..2 /\ age[s] \in 0..2
    BY DEF CallsInv, CallsTypeOK
  <1>2. Found(r) /\ Found(s)
    BY <1>1, AskTypes DEF CallsInv, At
  <1>3. Reply(r) # Reply(s)
    BY DEF Reply
  <1>4. ~(Live(r) /\ Live(s))
    BY <1>2, <1>3 DEF Found
  <1> QED BY <1>1, <1>4 DEF Live

\* The same key executes once: a second effect needs an answer that is over,
\* and never comes for the keys that are kept for ever; unless a handler of the
\* key was still at it when its lease ended.
THEOREM OneEffectPerKeyAlways == Spec => []OneEffectPerKey
  <1>1. CallsInv => OneEffectPerKey
    BY OneRecord DEF OneEffectPerKey, Prompt
  <1> QED BY <1>1, CallsInvariant, PTL

\* Whoever is told of success is told the committed result of its own request,
\* and all who ask with one key are told the same while that answer is kept,
\* unless a handler of the key was still at it when its lease ended.
THEOREM SameAnswerForAllAlways == Spec => []SameAnswerForAll
  <1>1. ASSUME CallsInv, NEW r \in Calls, outcome[r] \in Calls, Prompt(KeyOf(r)),
               NEW s \in Calls, outcome[s] \in Calls, KeyOf(s) = KeyOf(r), outcome[s] # outcome[r]
        PROVE  KeyOf(r) \notin Permanent /\ 2 \in {age[outcome[r]], age[outcome[s]]}
    <2>1. outcome[r] \in effects /\ outcome[s] \in effects
          /\ KeyOf(outcome[r]) = KeyOf(r) /\ KeyOf(outcome[s]) = KeyOf(r)
      BY <1>1 DEF CallsInv, Told, KeyOf
    <2> QED BY <1>1, <2>1, OneRecord
  <1>2. CallsInv => SameAnswerForAll
    BY <1>1 DEF CallsInv, Told, SameAnswerForAll, Prompt
  <1> QED BY <1>2, CallsInvariant, PTL

(***************************************************************************)
(* The service, seen from those who ask, is OncePerKey.  Beyond the        *)
(* invariant of the calls that takes the order of things: no effect before *)
(* the commit, no answer before the end.                                   *)
(***************************************************************************)
Early(r) ==
    /\ stage[r] \notin {"Committed", "Done"} => r \notin effects
    /\ stage[r] # "Done" => outcome[r] = "None"
InOrder == \A r \in Calls : Early(r)

\* A step of the service, or one that it does not show, in good order.
OnceStep == InOrder' /\ (Once!OnceNext \/ UNCHANGED Once!onceVars)

LEMMA TellsOnce ==
    ASSUME CallsTypeOK, InOrder, NEW r \in Calls, stage[r] # "Done", NEW a, Answered(r, a),
           asks' = asks, effects' = effects, age' = age, stalled' = stalled
    PROVE  InOrder' /\ Once!Told(r, a)
  <1> USE DEF CallsTypeOK, InOrder, Early, Answered
  <1>1. InOrder'
    OBVIOUS
  <1>2. {s \in Calls : stage'[s] # "Done"} = {s \in Calls : stage[s] # "Done"} \ {r}
    OBVIOUS
  <1>3. {s \in Calls : age'[s] = 2} = {s \in Calls : age[s] = 2}
    OBVIOUS
  <1> QED BY <1>1, <1>2, <1>3, SameKeys DEF Once!Told

LEMMA RefusesOnce ==
    ASSUME CallsTypeOK, InOrder, NEW r \in Calls, stage[r] \notin {"Committed", "Done"},
           NEW why \in Refusals \ {"None"}, Answered(r, why),
           asks' = asks, effects' = effects, age' = age, stalled' = stalled
    PROVE  OnceStep
  <1>1. InOrder' /\ Once!Told(r, why)
    BY TellsOnce
  <1>2. Once!Refuse(r, why)
    BY <1>1 DEF InOrder, Early, Once!Refuse
  <1> QED BY <1>1, <1>2 DEF OnceStep, Once!OnceNext

\* What begin replays is a kept result of the same request.
LEMMA BeginOnce ==
    ASSUME CallsInv, InOrder, NEW r \in Calls, Begin(r)
    PROVE  OnceStep
  <1> DEFINE k == KeyOf(r)
             rec == Loaded(k)
  <1>1. /\ CallsTypeOK /\ k \in Keys /\ At(k) /\ stage[r] = "New"
        /\ UNCHANGED <<effects, age, asks, stalled>> /\ r \notin effects
    BY AskTypes DEF CallsInv, Begin, world, fixed, InOrder, Early
  <1>2. rec \in Record /\ Filed(k, rec)
    BY <1>1 DEF CallsTypeOK, At, Loaded
  <1>3. CASE rec # NoRecord /\ ~Expired(k, rec) /\ Answered(r, Verdict(r, rec))
    <2>1. rec.by \in Calls /\ KeyOf(rec.by) = k /\ (rec.result => rec.by \in effects)
      BY <1>2, <1>3, Records DEF Filed
    <2>2. CASE Verdict(r, rec) \in {"Conflict", "InProgress"}
      BY <1>1, <1>3, <2>2, RefusesOnce DEF Refusals
    <2>3. CASE rec.result /\ asks[rec.by].body = asks[r].body /\ Verdict(r, rec) = rec.by
      <3> PICK e \in Calls : e = rec.by
        BY <2>1
      <3>1. InOrder' /\ Once!Told(r, e)
        <4>1. Answered(r, e)
          BY <1>3, <2>3 DEF Answered
        <4> QED BY <1>1, <4>1, TellsOnce
      <3>2. asks[e] = asks[r]
        BY <1>1, <2>1, <2>3, AskTypes DEF KeyOf
      <3>3. Once!Kept(e)
        BY <1>3, <2>1, <2>3 DEF Expired, Once!Kept, KeyOf
      <3>4. Once!Answer(r, e)
        BY <1>1, <2>1, <2>3, <3>1, <3>2, <3>3 DEF Once!Answer
      <3> QED BY <2>1, <3>1, <3>4 DEF OnceStep, Once!OnceNext
    <2> QED BY <2>2, <2>3 DEF Verdict
  <1>4. CASE Answered(r, "CapacityExceeded")
    BY <1>1, <1>4, RefusesOnce DEF Refusals
  <1>5. CASE stage' = [stage EXCEPT ![r] = "Leased"] /\ outcome' = outcome
    <2>1. InOrder'
      BY <1>1, <1>5 DEF InOrder, Early, CallsTypeOK
    <2>2. {s \in Calls : stage'[s] # "Done"} = {s \in Calls : stage[s] # "Done"}
      BY <1>1, <1>5 DEF CallsTypeOK
    <2> QED BY <1>1, <1>5, <2>1, <2>2, SameKeys DEF OnceStep, Once!onceVars
  <1> QED BY <1>3, <1>4, <1>5 DEF Begin

\* The effect comes when no effect of the key is kept: the key is leased.
LEMMA CommitOnce ==
    ASSUME CallsInv, InOrder, NEW r \in Calls, CommitAnswer(r)
    PROVE  OnceStep
  <1>1. /\ CallsTypeOK /\ KeyOf(r) \in Keys /\ At(KeyOf(r)) /\ stage[r] = "Checked"
        /\ effects' = effects \cup {r} /\ stage' = [stage EXCEPT ![r] = "Committed"]
        /\ UNCHANGED <<asks, age, outcome, stalled>>
    BY AskTypes DEF CallsInv, CommitAnswer, world, fixed
  <1>2. /\ age[r] < 2 /\ r \notin effects
        /\ Prompt(KeyOf(r)) => age[r] = 0 /\ db[KeyOf(r)] = Lease(r)
    BY <1>1 DEF At, Holds, Placed, Owned, InOrder, Early
  <1>3. ASSUME NEW e \in effects, KeyOf(e) = KeyOf(r), Prompt(KeyOf(r))
        PROVE  ~Live(e)
    BY <1>1, <1>2, <1>3, Records DEF At, Found, CallsTypeOK
  <1>4. ASSUME NEW e \in effects, ~Live(e)
        PROVE  ~Once!Kept(e)
    BY <1>1, <1>4, AskTypes DEF Live, Once!Kept, KeyOf, CallsTypeOK
  <1>5. {s \in Calls : stage'[s] # "Done"} = {s \in Calls : stage[s] # "Done"}
    BY <1>1 DEF CallsTypeOK
  <1>6. {s \in Calls : age'[s] = 2} = {s \in Calls : age[s] = 2} /\ StalledKeys' = StalledKeys
    BY <1>1, SameKeys
  <1>7. Once!Spoilt(r) \/ \A e \in effects : asks[e].key = asks[r].key => ~Once!Kept(e)
    BY <1>3, <1>4 DEF Once!Spoilt, KeyOf, Prompt
  <1>8. Once!Execute(r)
    BY <1>1, <1>2, <1>5, <1>6, <1>7 DEF Once!Execute
  <1>9. InOrder'
    BY <1>1 DEF InOrder, Early, CallsTypeOK
  <1> QED BY <1>8, <1>9 DEF OnceStep, Once!OnceNext

LEMMA StepOnce ==
    ASSUME CallsInv, InOrder, NEW r \in Calls, Step(r)
    PROVE  OnceStep
  <1>1. CallsTypeOK
    BY DEF CallsInv
  <1>2. CASE CheckLease(r)
    <2>1. CASE stage' = [stage EXCEPT ![r] = "Checked"] /\ outcome' = outcome
      <3>1. InOrder'
        BY <1>1, <1>2, <2>1 DEF CheckLease, InOrder, Early, CallsTypeOK
      <3>2. {s \in Calls : stage'[s] # "Done"} = {s \in Calls : stage[s] # "Done"}
        BY <1>1, <1>2, <2>1 DEF CheckLease, CallsTypeOK
      <3> QED BY <1>2, <2>1, <3>1, <3>2, SameKeys DEF CheckLease, fixed, OnceStep, Once!onceVars
    <2>2. CASE Answered(r, "LeaseLost")
      BY <1>1, <1>2, <2>2, RefusesOnce DEF CheckLease, fixed, Refusals
    <2> QED BY <1>2, <2>1, <2>2 DEF CheckLease
  <1>3. CASE CommitAnswer(r)
    BY <1>3, CommitOnce
  <1>4. CASE CommitRefusal(r)
    <2>1. stage[r] = "Checked" /\ stage' = [stage EXCEPT ![r] = "Released"]
          /\ UNCHANGED <<asks, effects, age, outcome, stalled>>
      BY <1>4 DEF CommitRefusal, world, fixed
    <2>2. InOrder'
      BY <1>1, <2>1 DEF InOrder, Early, CallsTypeOK
    <2>3. {s \in Calls : stage'[s] # "Done"} = {s \in Calls : stage[s] # "Done"}
      BY <1>1, <2>1 DEF CallsTypeOK
    <2> QED BY <2>1, <2>2, <2>3, SameKeys DEF OnceStep, Once!onceVars
  <1>5. CASE RollBack(r)
    BY <1>1, <1>5, RefusesOnce DEF RollBack, fixed, Refusals
  <1>6. CASE Publish(r) /\ stage[r] = "Committed"
    <2>1. r \in effects /\ age[r] < 2 /\ Answered(r, r) /\ UNCHANGED <<asks, effects, age, stalled>>
      BY <1>6, AskTypes DEF Publish, world, fixed, CallsInv, At, Holds, Placed, Owned
    <2>2. InOrder' /\ Once!Told(r, r)
      BY <1>1, <1>6, <2>1, TellsOnce
    <2>3. Once!Answer(r, r)
      BY <2>1, <2>2 DEF Once!Answer, Once!Kept
    <2> QED BY <2>2, <2>3 DEF OnceStep, Once!OnceNext
  <1>7. CASE Publish(r) /\ stage[r] = "Released"
    BY <1>1, <1>7, RefusesOnce DEF Publish, world, fixed, Refusals
  <1> QED BY <1>2, <1>3, <1>4, <1>5, <1>6, <1>7 DEF Step, Publish

LEMMA AgesOnce ==
    ASSUME CallsInv, InOrder, NEW r \in Calls, LeaseOver(r) \/ AnswerOver(r)
    PROVE  OnceStep
  <1>1. CallsTypeOK /\ UNCHANGED <<stage, outcome, effects, asks>>
    BY DEF CallsInv, LeaseOver, AnswerOver, world, fixed
  <1>2. InOrder'
    BY <1>1 DEF InOrder, Early
  <1>3. CASE LeaseOver(r)
    <2>1. {s \in Calls : age'[s] = 2} = {s \in Calls : age[s] = 2}
      BY <1>1, <1>3 DEF LeaseOver, CallsTypeOK
    <2>2. CASE stalled' = stalled
      BY <1>1, <1>2, <2>1, <2>2, SameKeys DEF OnceStep, Once!onceVars
    <2>3. CASE stage[r] \in {"Checked", "Committed", "Released"} /\ stalled' = stalled \cup {r}
      <3>1. StalledKeys' = StalledKeys \cup {asks[r].key}
        BY <1>1, <2>3 DEF StalledKeys, KeyOf
      <3>2. Once!Spoil(r)
        BY <1>1, <2>1, <2>3, <3>1 DEF Once!Spoil
      <3> QED BY <1>2, <3>2 DEF OnceStep, Once!OnceNext
    <2> QED BY <1>3, <2>2, <2>3 DEF LeaseOver
  <1>4. CASE AnswerOver(r)
    <2>1. {s \in Calls : age'[s] = 2} = {s \in Calls : age[s] = 2} \cup {r}
      BY <1>1, <1>4 DEF AnswerOver, CallsTypeOK
    <2>2. Once!Forget(r)
      BY <1>1, <1>4, <2>1, SameKeys DEF AnswerOver, world, fixed, Once!Forget
    <2> QED BY <1>2, <2>2 DEF OnceStep, Once!OnceNext
  <1> QED BY <1>3, <1>4

\* A crash tells nobody anything; a call that was under way has had its effect
\* by then or will never have it.
LEMMA CrashOnce ==
    ASSUME CallsInv, InOrder, Crash
    PROVE  OnceStep
  <1>1. UNCHANGED <<asks, outcome, effects, age, stalled>>
    BY DEF Crash
  <1>2. {s \in Calls : stage'[s] # "Done"} \subseteq {s \in Calls : stage[s] # "Done"}
    BY DEF Crash
  <1>3. InOrder'
    BY DEF InOrder, Early, Crash
  <1>4. Once!Lose
    BY <1>1, <1>2, SameKeys DEF Once!Lose
  <1> QED BY <1>3, <1>4 DEF OnceStep, Once!OnceNext

LEMMA HiddenOnce ==
    ASSUME InOrder, UNCHANGED <<stage, outcome, effects, asks, age, stalled>>
    PROVE  OnceStep
  BY SameKeys DEF InOrder, Early, OnceStep, Once!onceVars

LEMMA EveryStepOnce ==
    ASSUME CallsInv, InOrder, [Next]_vars
    PROVE  OnceStep
  <1>1. CASE UNCHANGED callVars
    BY <1>1, HiddenOnce DEF callVars
  <1>2. CASE Cleanup
    BY <1>2, HiddenOnce DEF Cleanup, world, fixed
  <1>3. ASSUME NEW r \in Calls, Begin(r) \/ BeginFails(r) \/ Step(r)
        PROVE  OnceStep
    <2>1. CASE BeginFails(r)
      BY <2>1, RefusesOnce DEF BeginFails, fixed, CallsInv, Refusals
    <2> QED BY <1>3, <2>1, BeginOnce, StepOnce
  <1>4. ASSUME NEW r \in Calls, LeaseOver(r) \/ AnswerOver(r)
        PROVE  OnceStep
    BY <1>4, AgesOnce
  <1>5. CASE Crash
    BY <1>5, CrashOnce
  <1>6. \/ UNCHANGED callVars \/ Cleanup \/ Crash
        \/ \E r \in Calls : Begin(r) \/ BeginFails(r) \/ Step(r) \/ LeaseOver(r) \/ AnswerOver(r)
    <2>1. ASSUME NEW w \in Workers, Thread(w)
          PROVE  UNCHANGED callVars \/ Cleanup
      BY <2>1 DEF Thread, OperationEnds, SweepKeys, Sweeping
    <2>2. ASSUME NEW r \in Requests, Arrive(r) \/ EventLoop(r)
          PROVE  UNCHANGED callVars
      BY <2>2 DEF Arrive, EventLoop
    <2>3. ASSUME NEW r \in Calls, CallStep(r) \/ Ages(r)
          PROVE  Begin(r) \/ BeginFails(r) \/ Step(r) \/ LeaseOver(r) \/ AnswerOver(r)
      BY <2>3 DEF CallStep, Ages
    <2>4. CASE SweepFreely \/ Restart
      BY <2>4 DEF SweepFreely, Sweeping, Restart
    <2>5. CASE Notify \/ Leave \/ Terminate \/ UNCHANGED vars
               \/ (\E w \in Workers : Wake(w)) \/ (\E e \in Entries : Schedule(e))
      BY <2>5 DEF Notify, Leave, Terminate, Wake, Schedule, vars
    <2> QED BY <2>1, <2>2, <2>3, <2>4, <2>5 DEF Next
  <1> QED BY <1>1, <1>2, <1>3, <1>4, <1>5, <1>6

\* The service executes once per key, whatever threads, sweeps, failing
\* statements and crashes do: an effect comes only when none of its key is
\* kept, an answer is a kept effect of the same request, and whoever is refused
\* has had no effect and will have none; but for the keys of which a handler
\* was still at it when its lease ended.
THEOREM OncePerKeyImplemented == Spec => ImplementsOncePerKey
  <1>1. Init => Once!OnceInit /\ InOrder
    BY DEF Init, CallsInit, StalledKeys, Once!OnceInit, InOrder, Early
  <1>2. CallsInv /\ InOrder /\ [Next]_vars => InOrder' /\ [Once!OnceNext]_(Once!onceVars)
    BY EveryStepOnce DEF OnceStep
  <1> QED
    BY <1>1, <1>2, CallsInvariant, PTL DEF Spec, ImplementsOncePerKey, Once!OnceSpec
=============================================================================

--------------------------- MODULE OutboxDelivery ---------------------------
(***************************************************************************)
(* The transactional outbox in front of the event hub: business            *)
(* transactions append rows, and the dispatcher, one pass at a time, polls *)
(* the pending rows that are due, publishes each through the hub and marks *)
(* the batch afterwards.  Any statement may fail, and the process may die  *)
(* between any two steps; with it go the hub, its connections and the      *)
(* sessions.  Row ids are 1..Rows, in the order of the commits.            *)
(***************************************************************************)
EXTENDS EventHub

CONSTANTS
    Rows,          \* how many events are committed
    Hopeless,      \* the rows whose data is missing or whose type is unknown
    BatchLimit,    \* kBatchLimit
    MaxAttempts,   \* failures after which a row is dead (10 in the code)
    Scenes         \* bound: the environment of one behaviour: the connections that are
                   \* made, those whose clients may fall silent, the sessions that may
                   \* be revoked or expire, the frames others publish while fewer are
                   \* numbered, the rows, the failing statements, and the ends of the
                   \* process

Ids == 1..Rows

ASSUME OutboxAssumption ==
    /\ Rows \in Nat /\ Hopeless \subseteq Ids
    /\ BatchLimit \in Nat \ {0} /\ MaxAttempts \in Nat \ {0}
    /\ Scenes \subseteq [conns: SUBSET Conns, quiet: SUBSET Conns, revocable: SUBSET Sessions,
                       frames: Nat, rows: 0..Rows, failures: Nat, ends: Nat, options: Options]

VARIABLES
    status,     \* delivery_status of each row, "None" before its commit
    attempts,   \* delivery_attempts
    due,        \* whether available_at has come
    publishedThisRun, \* rows published by this process and not yet marked
    batch,      \* the rows of this pass still to be processed
    deliveredIds, deadIds, \* the rows of this pass to be marked
    pass,       \* "Idle", "Processing" or "Marking"
    sent,       \* how often this process has published each row
    everSent,   \* the rows that any process has published
    scene,
    failures, ends   \* how often statements failed, and how often the process ended

outboxVars == <<status, attempts, due, publishedThisRun, batch, deliveredIds, deadIds, pass,
                sent, everSent, failures, ends, scene>>
vars == <<outboxVars, hubVars>>
rows == <<status, attempts, due>>
run  == <<sent, everSent, failures, ends, scene, hubVars>>

OutboxTypeOK ==
    /\ scene \in Scenes
    /\ status \in [Ids -> {"None", "Pending", "Delivered", "Dead"}]
    /\ attempts \in [Ids -> 0..MaxAttempts] /\ due \in [Ids -> BOOLEAN]
    /\ publishedThisRun \subseteq Ids
    /\ batch \in Seq(Ids) /\ Len(batch) <= BatchLimit
    /\ deliveredIds \in Seq(Ids) /\ deadIds \in Seq(Ids)
    /\ pass \in {"Idle", "Processing", "Marking"}
    /\ sent \in [Ids -> Nat] /\ everSent \subseteq Ids
    /\ failures \in 0..scene.failures /\ ends \in 0..scene.ends

Init ==
    /\ HubInit /\ scene \in Scenes /\ options = scene.options
    /\ status = [e \in Ids |-> "None"]
    /\ attempts = [e \in Ids |-> 0] /\ due = [e \in Ids |-> TRUE]
    /\ publishedThisRun = {}
    /\ batch = <<>> /\ deliveredIds = <<>> /\ deadIds = <<>> /\ pass = "Idle"
    /\ sent = [e \in Ids |-> 0] /\ everSent = {}
    /\ failures = 0 /\ ends = 0

-----------------------------------------------------------------------------
\* addFlowEvent, addChargerStatusEvent: in the transaction of the change.
Commit(e) ==
    /\ e <= scene.rows /\ status[e] = "None" /\ \A d \in Ids : d < e => status[d] # "None"
    /\ status' = [status EXCEPT ![e] = "Pending"]
    /\ UNCHANGED <<attempts, due, publishedThisRun, batch, deliveredIds, deadIds, pass, run>>

\* Mutation of Pollable: a row that failed is not tried again.
PollableOnce == {e \in Ids : status[e] = "Pending" /\ attempts[e] = 0}
Pollable == {e \in Ids : status[e] = "Pending" /\ due[e]}

\* pollOutbox: the first rows in the order of their ids.
FirstRows(q) ==
    /\ \A i, j \in DOMAIN q : i < j => q[i] < q[j]
    /\ \A e \in Pollable, i \in DOMAIN q : e < q[i] => \E j \in DOMAIN q : q[j] = e
Poll ==
    LET n == Min({BatchLimit, Cardinality(Pollable)})
    IN /\ pass = "Idle" /\ Pollable # {}
       /\ \E q \in [1..n -> Pollable] : FirstRows(q) /\ batch' = q
       /\ pass' = "Processing"
       /\ deliveredIds' = <<>> /\ deadIds' = <<>>
       /\ UNCHANGED <<rows, publishedThisRun, run>>

AlreadyPublished(e) == e \in publishedThisRun

\* Mutation of Accepted: what publish returns is not looked at.
AcceptedAnyway == TRUE
\* publish returns false when the hub is shut down.
Accepted == hubOpen

\* One row of the batch: only marked when it was published before, drained
\* when it can never be published, published, or left when the hub is closed.
\* publish returns when it has given back the mutex of the hub.
ProcessRow ==
    LET e == Head(batch) IN
    /\ pass = "Processing" /\ batch # <<>> /\ HubFree
    /\ batch' = Tail(batch)
    /\ \/ /\ AlreadyPublished(e)
          /\ deliveredIds' = Append(deliveredIds, e)
          /\ UNCHANGED <<deadIds, publishedThisRun, sent, everSent, hubVars>>
       \/ /\ ~AlreadyPublished(e) /\ e \in Hopeless
          /\ deadIds' = Append(deadIds, e)
          /\ UNCHANGED <<deliveredIds, publishedThisRun, sent, everSent, hubVars>>
       \/ /\ ~AlreadyPublished(e) /\ e \notin Hopeless
          /\ sent' = [sent EXCEPT ![e] = IF hubOpen THEN @ + 1 ELSE @]
          /\ everSent' = IF hubOpen THEN everSent \cup {e} ELSE everSent
          /\ deliveredIds' = IF Accepted THEN Append(deliveredIds, e) ELSE deliveredIds
          /\ publishedThisRun' = IF Accepted THEN publishedThisRun \cup {e} ELSE publishedThisRun
          /\ IF hubOpen
             THEN /\ \E scope \in Scopes : TakeNumber(FALSE, scope)
                  /\ UNCHANGED HubButPublishing
             ELSE UNCHANGED hubVars
          /\ UNCHANGED deadIds
    /\ UNCHANGED <<rows, pass, failures, ends, scene>>

\* Mutation of Attempted: dead at once.
AttemptedOnce(e) ==
    /\ attempts' = [attempts EXCEPT ![e] = @ + 1]
    /\ due' = [due EXCEPT ![e] = FALSE]
    /\ status' = [status EXCEPT ![e] = "Dead"]
\* markOutboxAttempted: one more failure, later next time, dead at the last.
Attempted(e) ==
    /\ attempts' = [attempts EXCEPT ![e] = @ + 1]
    /\ due' = [due EXCEPT ![e] = FALSE]
    /\ status' = [status EXCEPT ![e] = IF attempts[e] + 1 >= MaxAttempts THEN "Dead" ELSE @]

\* Reading the data of a row throws: its attempt is counted, unless that
\* statement fails too.
RowFails ==
    LET e == Head(batch) IN
    /\ failures < scene.failures /\ failures' = failures + 1
    /\ pass = "Processing" /\ batch # <<>>
    /\ ~AlreadyPublished(e)
    /\ batch' = Tail(batch)
    /\ \/ Attempted(e)
       \/ UNCHANGED rows
    /\ UNCHANGED <<publishedThisRun, deliveredIds, deadIds, pass, sent, everSent, ends, scene, hubVars>>

StartMarking ==
    /\ pass = "Processing" /\ batch = <<>> /\ HubFree
    /\ pass' = "Marking"
    /\ UNCHANGED <<rows, publishedThisRun, batch, deliveredIds, deadIds, run>>

\* markOutboxDead, then markOutboxDelivered: a statement of its own per row.
MarkDead ==
    /\ pass = "Marking" /\ deadIds # <<>>
    /\ status' = [status EXCEPT ![Head(deadIds)] = "Dead"]
    /\ deadIds' = Tail(deadIds)
    /\ UNCHANGED <<attempts, due, publishedThisRun, batch, deliveredIds, pass, run>>

MarkDelivered ==
    /\ pass = "Marking" /\ deadIds = <<>> /\ deliveredIds # <<>>
    /\ status' = [status EXCEPT ![Head(deliveredIds)] = IF @ = "Pending" THEN "Delivered" ELSE @]
    /\ deliveredIds' = Tail(deliveredIds)
    /\ UNCHANGED <<attempts, due, publishedThisRun, batch, deadIds, pass, run>>

\* The rows that were marked need not be remembered any longer.
Forgotten == {e \in publishedThisRun : status[e] = "Pending"}

\* The last row is marked (a dashboard.refresh, which is no row, may follow) ...
EndPass ==
    /\ pass = "Marking" /\ deadIds = <<>> /\ deliveredIds = <<>>
    /\ pass' = "Idle"
    /\ publishedThisRun' = Forgotten
    /\ UNCHANGED <<rows, batch, deliveredIds, deadIds, run>>

\* Mutation of Remembered: a pass that gives up forgets what it published.
RememberedNothing == {}
Remembered == publishedThisRun

\* ... or a mark fails and the pass gives up: what was published is
\* remembered, what was not marked stays pending.
MarkFails ==
    /\ failures < scene.failures /\ failures' = failures + 1
    /\ pass = "Marking" /\ deadIds \o deliveredIds # <<>>
    /\ pass' = "Idle" /\ deliveredIds' = <<>> /\ deadIds' = <<>>
    /\ publishedThisRun' = Remembered
    /\ UNCHANGED <<rows, batch, sent, everSent, ends, scene, hubVars>>

\* The back-off of a failed row is over.
BackoffOver(e) ==
    /\ ~due[e]
    /\ due' = [due EXCEPT ![e] = TRUE]
    /\ UNCHANGED <<status, attempts, publishedThisRun, batch, deliveredIds, deadIds, pass, run>>

\* The process ends, orderly or not.  A new one knows the rows and nothing
\* else: the connections are gone, and the sessions, which are not stored.
Restart ==
    /\ ends < scene.ends \/ ~hubOpen
    /\ ends' = IF hubOpen THEN ends + 1 ELSE ends
    /\ publishedThisRun' = {} /\ batch' = <<>> /\ deliveredIds' = <<>> /\ deadIds' = <<>>
    /\ pass' = "Idle" /\ sent' = [e \in Ids |-> 0]
    /\ hubOpen' = TRUE /\ valid' = {} /\ notices' = {} /\ peers' = {} /\ inClose' = {}
    /\ stage' = [c \in Conns |-> IF stage[c] = "New" THEN "New" ELSE "Closed"]
    /\ closeCode' = [c \in Conns |-> 0] /\ publishing' = NoFrame /\ sequence' = 0
    /\ window' = [c \in Conns |-> <<>>] /\ check' = NoCheck
    /\ silence' = [c \in Conns |-> "Unset"] /\ pinged' = [c \in Conns |-> FALSE]
    /\ owed' = [c \in Conns |-> 0]
    /\ UNCHANGED <<rows, everSent, failures, scene, lastSeq, ended, options>>

Pass == Poll \/ ProcessRow \/ StartMarking \/ MarkDead \/ MarkDelivered \/ EndPass

-----------------------------------------------------------------------------
\* The hub, by itself.
HubAlone(c) ==
    \/ CheckAgain(c) \/ Register(c) \/ Ready(c) \/ SendTo(c) \/ SendRevoked(c) \/ Close(c)
    \/ OnClose(c)
Notice(s) == NotifyRevoked(s) \/ CloseSession(s)
Environment ==
    \/ \E c \in scene.conns : Accept(c) \/ WindowMoves(c) \/ Pong(c) \/ Drop(c)
    \/ \E c \in scene.quiet : SilenceGrows(c)
    \/ \E s \in scene.revocable : Revoke(s)
    \/ /\ sequence < scene.frames
       /\ \E scope \in Scopes, progress \in BOOLEAN : Publish(progress, scope)
Hub ==
    \/ Environment
    \/ \E c \in Conns : HubAlone(c)
    \/ \E s \in Sessions : AskAbout(s) \/ Notice(s)
    \/ EndPublish \/ Heartbeat \/ CloseDead

\* EventHub::shutdown at the end of the process.
HubShutdown ==
    /\ ends < scene.ends /\ ends' = ends + 1
    /\ Shutdown
    /\ UNCHANGED <<rows, publishedThisRun, batch, deliveredIds, deadIds, pass, sent, everSent,
                   failures, scene>>

Next ==
    \/ \E e \in Ids : Commit(e) \/ BackoffOver(e)
    \/ Pass \/ RowFails \/ MarkFails \/ HubShutdown \/ Restart
    \/ Hub /\ UNCHANGED outboxVars

Spec == Init /\ [][Next]_vars

Alone(A) == A /\ UNCHANGED outboxVars

\* The scheduler starts a pass every two seconds and a heartbeat every five,
\* threads run, mutexes are granted, time passes, and a process that is shut
\* down is started again.
FairSpec ==
    /\ Spec /\ WF_vars(Pass) /\ WF_vars(~hubOpen /\ Restart)
    /\ \A e \in Ids : WF_vars(BackoffOver(e))
    /\ WF_vars(Alone(EndPublish)) /\ WF_vars(Alone(Heartbeat)) /\ WF_vars(Alone(CloseDead))
    /\ \A c \in Conns : WF_vars(Alone(HubAlone(c))) /\ WF_vars(c \in scene.quiet /\ Alone(SilenceGrows(c)))
    /\ \A s \in Sessions : WF_vars(Alone(AskAbout(s))) /\ WF_vars(Alone(Notice(s)))

-----------------------------------------------------------------------------

\* At least once: a row is marked as delivered only after it was published,
\* by this process or by one that died in between; and database-api.md, 13.5:
\* while the process runs an event is not delivered twice, however often its
\* mark fails.  And nothing is given up that had a chance: a dead row is one
\* that nothing could be made of, or one that failed the full number of times,
\* each failure of its own; trouble with one row does not use up the attempts
\* of another.
MarksAreTrue ==
    /\ OutboxTypeOK
    /\ \A e \in Ids :
          /\ sent[e] <= 1
          /\ status[e] = "Delivered" => e \in everSent
          /\ status[e] = "Dead" => e \in Hopeless \/ attempts[e] = MaxAttempts

\* Seen from the events, all of this is a promise to tell each of them at
\* least once.
Promise == INSTANCE AtLeastOnce WITH
    Events <- Ids, fate <- status, told <- sent, everTold <- everSent

\* Every step, whatever fails and whenever the process ends, keeps the
\* promise: no event is told twice in one life, nor settled before it was
\* told, nor given up by the life that told it, nor settled twice.
ImplementsAtLeastOnce == Promise!PromiseSpec

\* Every committed event is delivered or given up in the end.
EventsAreDealtWith == \A e \in Ids : status[e] = "Pending" ~> status[e] \in {"Delivered", "Dead"}

\* The mutex of the hub is always given back: the publisher that waits for a
\* peer's mutex never waits for a thread that waits for the hub's.
LocksAreReleased == publishing # NoFrame ~> publishing = NoFrame

\* A revoked or expired session loses its connection, also when the revocation
\* passed the hub before the connection was registered.
DeadSessionsAreClosed ==
    \A c \in Conns : Connected(c) /\ SessionOf[c] \notin valid /\ hubOpen
        ~> ~Connected(c) \/ ~hubOpen
=============================================================================

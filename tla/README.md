# Verification of the charging station platform

The platform serves drivers who charge electric cars and the administrators of
the stations. One server process (C++17: Crow for HTTP and web sockets, SQLite
for storage) owns every decision; a phone app, a desktop app and an
administrators' console (Qt), a dashboard, ML tools and a device simulator call
it. This directory holds TLA+ modules that model the server and the apps, TLC
configurations that check them, and proofs.

    tlc -config ChargeFlow_wallet.cfg MCChargeFlow      one run (see "Runs")
    tlapm ChargeFlowProofs.tla                          the proofs of one module

## Inventory

State is in SQLite unless said otherwise. All writers use
`SqliteRepository::withTransaction` (`BEGIN IMMEDIATE`), so write transactions
are serial; HTTP handlers on the pool, the periodic scheduler and web socket
callbacks run concurrently around them.

| Component | State | Operations | Hard part | Correct when | Module |
|---|---|---|---|---|---|
| Charge flow service (`core/application/charge_flow_service.cpp`) | `charging_flow`, `flow_queue`, `charging_order`, `charger.status`, the mirror `user_account.has_active_flow` | create, confirm, cancel, start, settle, maintenance, recovery at startup, administrative release and settlement | every operation that frees a charger also promotes the queue; deadlines race with users | one holder per charger, one active flow per user, exact queue, first come first served, final states are final | `ChargeFlow` |
| Settlement (`settle` inside `idempotency_service.cpp`) | the above, `wallet_account`, `wallet_transaction`, `idempotency_record` | seven writes and a promotion, compensation to status 80, retry | nested transactions, crash, lost answer | all or nothing, exactly once | `SettlementTxn` |
| Wallet (`wallet_service.cpp`) | `wallet_account`, `recharge_order` | recharge, list | debt before balance | money is conserved | `ChargeFlow` |
| Stations and chargers (`admin_station_service.cpp`) | `station`, `charger`, `device_command`, tariffs | create, enable, disable, set status, restart, due commands | a command falls due long after it was given | a command never takes a charger from its user, none is forgotten | `ChargeFlow` |
| Pricing (`pricing.cpp`) | none | price, energy, amount | rounding, bounds | no settlement below what was shown | `Pricing` |
| Idempotency (`idempotency_service.cpp`) | `idempotency_record`, a cache in memory | begin, execute and complete, lease, clean-up | lease expiry, handlers that outlast their lease, failing statements, crashes | one effect per key, one answer for all who ask | `Idempotency` |
| Executor and scheduler (`bounded_executor.cpp`, `periodic_scheduler.cpp`, `async_response.cpp`, `main.cpp`) | bounded task queue, flags of the entries, deadlines, in memory | submit, run, time out, shut down | shutdown races with submit, deadline races with result | every accepted task runs, one answer per request, no entry overlaps itself | `Executor` |
| Event hub (`event_hub.cpp`, `server/websocket`) | peers and windows, in memory | handshake, publish, pong, heartbeat, revoke, close | a reconnect replaces a peer while its callbacks are under way; two mutexes | no orphan, no frame after the end, no close without a cause | `EventHub` |
| Outbox (`outbox_dispatcher.cpp`) | `event_outbox` | publish, mark, retry, give up | crash between publishing and marking | at least once | `OutboxDelivery` |
| Sessions, logins (`session_manager.cpp`, `admin_auth_service.cpp`, `admin_account_service.cpp`) | in memory, with limits; `admin_account` | issue, replace, revoke, lock out | a login overlaps a change of its account | revoked is revoked, limits hold | `Sessions`, `Credentials`, `Access` |
| Users (`user_identity_service.cpp`, `admin_user_service.cpp`, `verification_code_service.cpp`) | `user_account`; codes in memory | register, log in, delete, freeze, change password and profile | as above, and deletion against an open flow | a deleted user has no open flow and no session | `Access`, `Credentials`, `ChargeFlow` |
| Routes and middleware (`server/controller`, `server/middleware`) | rate-limit buckets, in memory | authorise, limit, dispatch | each route states its own demands | nothing is let in that the interface forbids | `Routes`, `Credentials` |
| ML tasks (`admin_ops_service.cpp`, `analytics_service.cpp`, `ml_process_manager.cpp`, `ml/worker.py`) | `ml_task`, models, predictions, files, child processes | start, report, time out, retain | late reports, crash between file and row, lock order | a row that promises a file has it; every task ends | `MlTasks` |
| Backups (`admin_ops_service.cpp`, `sqlite_repository.cpp`) | `backup_record`, files | create, verify, prune | failing commits, crash | as above | `Backups` |
| Apps (`apps/mobile`, `apps/user`, `apps/admin`) | session, kept keys, shown pages, busy flags | every tap, reply, retry and poll | lost and late replies, logout and login of somebody else | one effect per intent, nothing foreign shown, the screen catches up | `MobileApp`, `DesktopApp`, `ConsoleApp` |
| Business numbers, station search, navigation, analytics views, audit rows, configuration, map, dashboard, simulator | queries, formatting, input and output | | | | not modelled |

How they interact: a request passes the middleware (session, rate limit,
policy) on the event loop, waits for a thread of the pool, and calls a service,
writing routes through the idempotency service. Services change the database in
one transaction, which also appends to the outbox. The scheduler submits
maintenance, due device commands, clean-up and the outbox dispatcher to the
same pool; the dispatcher hands committed events to the event hub, which sends
them to the web sockets. A change of an account revokes its sessions after the
commit; the revocation is a task of the pool that closes the web sockets. The
ML thread of a task reports over HTTP like any client. The apps know the server
only through requests whose replies may be late or lost.

`PROJECT.json` lists every component with its status, and under `hazards` the
places in the code that are hard to test, each with the properties that cover
it.

## Modules

| Module | Extends | What it models |
|---|---|---|
| `ChargerLease` | | abstract: customers line up for chargers, hold one, leave |
| `AtLeastOnce` | | abstract: events committed in order, told, settled |
| `OncePerKey` | | abstract: one effect per key, one result for all who ask |
| `ChargeFlow` | | the charging flow; implements `ChargerLease` |
| `SettlementTxn` | | one settlement, statement by statement, with crash and retry |
| `Executor`, `Idempotency` | | the pool and its requests; requests with keys |
| `RequestHandling` | both | a request from the event loop to the database and back; implements `OncePerKey` |
| `EventHub` | | connections, publisher, heartbeat, revocation |
| `OutboxDelivery` | `EventHub` | the dispatcher in front of the hub; implements `AtLeastOnce` |
| `Sessions`, `Credentials`, `Routes` | | session indexes; lock-out, codes, buckets; the demands of each route |
| `Access` | the three | logins, changes of accounts and calls, on threads |
| `WriteLock` | | who holds the database's write lock, and the busy timeout |
| `MlTasks`, `Backups` | `WriteLock` | tasks with processes, threads and files; backups |
| `Operations` | both | the two beside each other, crash and shutdown |
| `AppCalls` | | what the apps share: requests, network, the server as they see it |
| `MobileApp`, `DesktopApp`, `ConsoleApp` | `AppCalls` | one app each |
| `Clients` | the three, `SettlementTxn` | an app against the server |
| `Pricing` | | prices and amounts as operators |
| `MC...` | | instances for TLC |
| `ChargeFlowProofs` | `ChargeFlow` | theorems: types, holders, queue, mirror, deleted accounts |
| `ChargeLeaseProofs` | `ChargeFlowProofs` | theorems: the lease is implemented, disabled stations, no idle charger |
| `ChargeOrderProofs` | `ChargeFlowProofs`, `Pricing` | theorems: orders, money, prices |
| `RequestProofs` | `RequestHandling` | theorems: answers, wake-ups, entries, shutdown, keys, `OncePerKey` is implemented |
| `ClientsProofs` | `Clients` | theorems: the settlement, intents, what is shown, flags |
| `DeliveryProofs` | `OutboxDelivery` | theorems: connections, frames, lock order, marks, `AtLeastOnce` is implemented |
| `AccessProofs` | `Access` | theorems about sessions, guesses and permissions |
| `OperationsProofs` | `Operations` | theorems: tasks, backups and their files, the prune |

### ChargeFlow

Everything that decides who charges where and what it costs: the operations of
the charge flow service, the wallet's recharge, account deletion and freezing,
and the administrators' operations on chargers, stations and flows.

| Code | Model |
|---|---|
| `charging_flow` row, `FlowStatus` | `flow[f]`: user, pool (station and type), status, charger, version, and whether its deadline has passed |
| `flow_queue.sequence` (AUTOINCREMENT) | `ticket[f]`, `lastTicket` |
| `charging_order` | `order[f]` |
| `charger.status` | `charger[c]`, with `Absent` for one not created yet |
| unfinished `device_command` rows | `commands[c]`: how many are not due, how many are due |
| `wallet_account`; `recharge_order` and opening balance | `wallet[u]`; `recharged[u]` |
| `user_account.status`, `has_active_flow` | `account[u]`, `hasActiveFlow[u]` |
| `station.enabled`, a tariff in effect | `enabled[s]`, `tariff[s]` |

Each action is one transaction. An operation that is refused changes nothing
and is no action, except where the code writes before it refuses (a preferred
charger that is taken: the queue was served already). The environment moves the
clock (`DeadlinePasses`, `CommandIsDue`) and the tariffs (`TariffChanges`).

Promotion of the queue (`promoteQueueLocked`, `promoteAvailable`) is the
operators `Grants` and `Serve`: every set of grants that repeated steps can
produce, and their effect. The operations first build the flows, chargers and
queue they leave, then serve from them, as in the code.

Abstractions, and why they lose nothing that a property asks:

- Deadlines and due times are Booleans that time sets once, in any order.
- The code takes the idle charger with the lowest id; the model takes any.
- `RunMaintenance` and `CompleteDueCommands` treat all expired flows or due
  commands of one transaction together: who gets which of the freed chargers is
  any of the combinations, the code's order being one of them. The code reads
  at most 100 due commands per pass; the rest come with the next tick.
- The price of a charge is any member of `Amounts`; `Pricing` says which
  amounts there are. Money is counted in units of the minimum starting balance.
- A client sends the current version of its flow; a stale one is refused.
- Audit rows, status events, the outbox, totals and `charger.version` are left
  out.
- `SettleFails` states the contract of `settle` when a statement throws: all of
  it is rolled back and only status 80 is written. A caller outside a transaction
  gets that; the settlement route does not, see `SettlementTxn` and finding 2.
  So what `ChargeFlow` shows of chargers, orders, money and the mirror after a
  settlement that *failed* holds given the contract, and tells nothing of a
  failing settlement that came over the route. Modelling the route's
  partial commits here would only repeat that finding in each property.

`ChargerLease` is what this is for, seen from outside: a customer lines up for
a pool, gets one charger and keeps it until it leaves for good; no charger is
shared; those who wait in a pool are served in the order they came. `ChargeFlow`
maps `flow.pool`, the tickets, the chargers of holding flows and the ended flows
to it (`Lease`), and every transaction is one of its steps (`ImplementsLease`).

### SettlementTxn

One settlement, statement by statement, with what is committed (`db`) kept
apart from what the open transaction sees (`work`), the idempotency key and its
lease, failing statements, crashes and retries. The last statement promotes the
queue (`Promote`), so the charger may be gone when the transaction commits, and
an exception there is one more place to fail. A caller is nested (the REST
route, inside `executeAndComplete`) or not (the service called directly, as in
the repository tests). `OtherFlow` stands for the next user of the charger; the
unique index `uq_active_flow_charger` says when there can be one.

### Executor, Idempotency, RequestHandling

`Executor` has the queue, the condition variable with sleeping threads and
pending wake-ups, the deadline that answers 503 while the operation goes on,
refusals (429), entries with their "running" flag, revocation notices that
tasks submit themselves, and the shutdown that drains what was accepted.
`Idempotency` has the record with lease token, body hash, stored answer and
expiry, the cache and the moments at which the two differ. Time strikes a lease
whether its handler runs or not (`LeaseOver`): nobody looks at it again between
the check and the update of the cache, so a handler that outlasts its lease
executes beside the next owner of its key. A step ends where
another thread can see or change something: a critical section, a transaction,
a single statement. In `RequestHandling` requests with a key run their calls on
the threads of the executor.

`OncePerKey` is what the keys are for, seen by those who ask: a call executes
only while no result of its key is kept, is told a kept result of its own
request, and had no effect when it is refused. `RequestHandling` maps its calls
that are not `Done` to the open ones and those of age 2 (the record has expired)
to the forgotten ones; leases, cache, threads, failing statements and crashes
disappear (`ImplementsOncePerKey`). The key of a handler that outlasted its lease
(`StalledKeys`, a history) is spoilt from then on: of its effects nothing is
promised any more, while each caller is still told the result of its own
request, or a refusal without an effect. Every other key is as good as before.

### EventHub, OutboxDelivery

The handshake is three steps (authenticate, authenticate again, register), each
publish is "take the hub's mutex, send to each peer under the peer's mutex",
`close` may call back into the hub while it holds the peer's mutex. A frame is
its number, its kind and its scope. The heartbeat asks the session manager
outside the mutex; a check that throws counts as a dead session (`unsure`), as in
the code. `OutboxDelivery` adds rows with state,
attempts and back-off, and a pass: poll, publish each row, mark the batch. A
crash takes hub, connections and sessions with it and leaves the rows.

`AtLeastOnce` is what the outbox promises: events are committed in order, a life
of the process tells each at most once, an event is settled once, as done only
after it was told, as dead only by a life that has not told it. `OutboxDelivery`
maps the state of a row to the fate of its event and what was published, in this
life and in any, to what was told; batches, marks, back-offs and the hub
disappear (`ImplementsAtLeastOnce`).

### Sessions, Credentials, Routes, Access

`Sessions` keeps the three indexes of the session manager apart, because the
hazard is that they disagree. `Credentials` is the three guards of a guess, each
a table behind a mutex. `Routes` is a table of the routes and what each handler
asks before it calls a service; the readiness probe from the host itself, which
is asked nothing (`health_routes.cpp:44`), is in no row. In `Access` an operation is decided on arrival,
waits for a thread, reads, verifies a password, writes, and tells the session
manager, with other operations between any two of these.

### WriteLock, MlTasks, Backups, Operations

A transaction holds the write lock from `BEGIN IMMEDIATE` to its end; who waits
for five seconds throws. A start runs inside the transaction of its request and
waits there for the start mutex; the sweep holds the mutex and waits for the
write lock. A process reports progress, success or failure once, late, or
never; files are written, renamed and removed beside the rows, with a crash
between any two steps. What a prune keeps is stated as what it is for, the
newest of each of the last days and weeks (`Kept`); that the loop of the code
computes it (`KeptByLoop`, a fold over the backups from the newest to the oldest)
is the property `PruningKeepsTheNewest`.

### AppCalls, MobileApp, DesktopApp, ConsoleApp, Clients

A call is a record: kind, key, intent, the session it was sent under, and where
it is (sent, at the server, replying). Calls overtake each other and may be
lost on either way. The server executes each by one step that says what the
app can learn of it. The apps are modelled with the variables that decide what
they send and show: session, busy counters and flags, kept keys, the shown flow
and the readings of each page, and which replies they still accept. In the
scene `PhoneSettles` the server's step is replaced by `SettlementTxn`, so a lost
reply, the phone's retry with its kept key and a crash between two statements
meet.

### Type invariants

The types (`ChargeFlow!TypeOK`, `PoolTypeOK`, `CallsTypeOK`, `HubTypeOK`,
`OutboxTypeOK`, `AccessTypeOK`, `CredentialsTypeOK`, `SettlementTxn!TypeOK`) and
the bounds of the tables are a conjunct of one of the properties: `MirrorExact`,
`AnsweredOnce`, `LateResultsCanBeAsked`, `NoOrphans`, `MarksAreTrue`,
`NoStaleSession`, `GuessesAreBounded`, `AnswerStoredWithSettlement`.

## Runs

| Run | Instance | Question |
|---|---|---|
| wallet | `ChargeFlow`: 2 users, 1 charger, 3 flows, prices 1 and 3, opening balance 2, freezing, deletion, a tariff that comes and goes | Do money, orders, the mirror and deleted accounts stay consistent through debt, recharges and ends of every kind? |
| pool | 3 users, 2 chargers of one pool (one is added later), 3 flows, repairs and a restart | One holder per charger, an exact queue, no charger idle while a flow waits, and every step one of `ChargerLease` |
| restart | 2 users, 2 chargers of two types, 2 flows, disabling, restarts; fair tick and clock | Is a station disabled only when quiet, does every quote, reservation and restart end? |
| tick | 2 users, 1 charger, a tariff that comes and goes; fair | Does the tick promote the queues? It does not, see below |
| settle_route | `SettlementTxn` called by the route, statements may fail | Is the settlement all or nothing? It is not, see below |
| requests | `RequestHandling`: 4 requests, 2 threads, a queue of 1, one entry, table of 1 record, one failing statement, one crash, one handler that outlasts its lease | One answer, late results kept, no wake-up lost, no entry beside itself, nothing left behind by the shutdown, and every step one of `OncePerKey`: one effect per key, the same answer for all, but for the key of the late handler |
| requests_live | 2 requests, fair | Is every request answered, does every entry go on, every lease end, the shutdown return? |
| delivery | `OutboxDelivery`: 3 connections of 2 sessions, up to 3 rows and 3 frames, failures, a restart | No orphan, no close without a cause, no frame after the end, no mark without a publish, no two threads waiting for each other's mutex, and every step one of `AtLeastOnce` |
| delivery_live | 1 connection that falls silent, up to 2 rows, fair | Is every event dealt with, every mutex given back, every dead session closed? |
| access | `Access`: an owner, an operator, a viewer, 2 accounts of one phone, 2 threads | Does a session outlive what should have ended it, are guesses bounded, is every call permitted? |
| operations | `Operations`: 2 tasks, 3 backups, 2 starts, a sweep, a crash, one failure; fair | Does a row that promises a file have it, does one pass of the prune keep the newest of each of the last days and weeks, does every task and start end? |
| clients | `Clients`: one app, 2 users, 3 sessions, 2 flows, up to 4 taps, 2 lost replies | One effect per intent, nothing foreign shown, no flag up without a request that lowers it, the screen catches up, the app is never stuck; the settlement of the phone, and called directly, is all or nothing |

Deadlock is checked for `ChargeFlow`, where the server can always restart. In
the other modules requests, failures and scenes are finite, so a behaviour may
simply be over; that nothing is stuck before is what the liveness properties of
their runs say.

### Scenes and bounds

The larger modules are checked in scenes: an initial state chooses what happens
at all in its behaviours (which operations, which clocks, how many faults), and
everything chosen interleaves freely. A scene brings together operations that
can disturb each other; all of them together would be out of reach and show
nothing that a pair does not. `access` has eleven scenes, `operations` five,
`clients` fifteen, `delivery` seven, `requests` six; every action is taken in
one of them.

Every counter is bounded by a constant: the flows that may be created
(`Flows`), the money paid in (`MaxRecharged`), unfinished commands per charger
(`MaxCommands`), requests (`Requests`, `Calls`), rows (`Rows`), connections
(`Conns`), sessions (`MaxIds`, `MaxSessions`), versions (`MaxVersion`), tasks and
backups (`LastTask`, `LastBackup`, `LastDay`), faults (`MaxFailures`,
`MaxCrashes`, `MaxStalls`), and of an app its taps, lost replies and events (the scene's
`bounds`), its keys and calls under way (`MaxKeys`, `MaxCalls`). Limits of the
code appear as small constants of the same name or meaning: a pool of two with a
queue of one, a window of one or two frames, a bucket of two tokens, three wrong
passwords, two tries per code, one record in the idempotency table, one of
the 30 repeated polls of a command (`MaxPolls`). They are small so that a run
reaches them and what comes after.

Why they are enough. Three flows are one that holds the charger, one that waits
and one that comes later (overtaking); where chargers are the question, two
suffice, both waiting or one charging on a charger that an old command reaches.
Price 3 against balance 2, and price 1, give a paid settlement, a debt and a
recharge that covers part of it. Three connections of two sessions give a
replacement and a bystander; three requests on two threads give two that race
and one that comes after. One crash and one failure are tried at every step;
what a second one meets is a state the first one reached, or (for settlements)
`MaxAttempts = 4` repeats them. Two threads show every race of two critical
sections.

The remaining constants cut the environment down to what a run asks about
(`ManagedUsers`, `AdminStatuses`, `TariffLapses`). Users, flows and chargers of
one pool are interchangeable, so the safety runs of `ChargeFlow` use symmetry;
the liveness runs use none.

### Fairness

- `ChargeFlow`: `main.cpp` schedules maintenance and due commands every 15
  seconds, a pass that throws is repeated by the next, and time passes; so
  `RunMaintenance`, `CompleteDueCommands`, `DeadlinePasses` and `CommandIsDue`
  are weakly fair. Nothing a user or administrator does is.
- `RequestHandling`: threads run, tasks end, a notification that was sent
  arrives, timers expire, the scheduler ticks. Nobody has to send a request, a
  sleeping thread does not wake without a reason, the process need not stop.
- `OutboxDelivery`: a pass every two seconds, a heartbeat every five, threads
  run, mutexes are granted, back-offs end, a process that was shut down is
  started again. Connections that fall silent stay silent; the rest is up to the
  client, of whom nothing is asked but to answer pings if it is not silent.
- `Operations`: threads and the sweep run, tasks age. A start that waits for the
  mutex is strongly fair: a sweep that fails holds the mutex for the five seconds
  of the busy timeout and leaves it free for the ten that follow. A process may
  hang for ever.
- `Clients`: timers fire, the server serves what arrived, replies come or are
  given up (losses are finite), settlements go on. Recurring polls are fair
  apart from the other calls, for they recur for ever and would otherwise pass
  for the service of the others. The phone is assumed in the foreground, where
  its timer runs.

## What the runs found

1. *The tick does not promote* (run `tick`). `charge_flow_service.h:209`
   announces that the runtime tick promotes the queues; `runMaintenance`
   promotes only behind a flow that it expires. Promotion needs a tariff in
   effect: when a charger is released during a gap between two tariffs, the
   flow that waits for it is not served, and when the next tariff begins nothing
   serves it either, until some other request happens to promote that pool.

2. *A failing settlement is committed in part* (run `settle_route`). `settle`
   catches the exception of its own `withTransaction` and then writes status 80,
   on the understanding that the transaction "has rolled back"
   (`charge_flow_service.cpp:749`). The settlement route runs inside the
   transaction of `IdempotencyService::executeAndComplete`, and a nested
   `withTransaction` only calls its argument. Nothing is rolled back: the
   statements before the failing one are committed with status 80, and the
   answer of 400 or more releases the key, so a retry executes them again.
   `SRS UC-U-09` (`docs/01-requirements-specification.md:299`) wants the whole
   settlement rolled back. The test in `tests/sqlite_repository_test.cpp`
   injects such a failure but calls the service directly, where it does.

## Observations

Met while modelling, not stated by a run of their own: the properties leave
them out, as their comments say, or no document promises otherwise.

Server:

- `idempotency_service.cpp:145`: the lease is checked before the transaction and
  not in it. A handler that stalls past its ten minutes in between executes
  beside the next owner of its key, although `docs/database-api.md:126` has
  everybody who asks with a key get the first result; and the one that commits
  last, or is refused, overwrites or removes the stored answer of the other. The
  model has such handlers, and `ImplementsOncePerKey`, `LateResultsCanBeAsked`,
  `OneEffectPerKey` and `SameAnswerForAll` exempt their keys (`StalledKeys`); without
  the exemption TLC refutes `LateResultsCanBeAsked` in six steps. What is shown is
  that the harm stays with that key: other keys, the capacity of the table and the
  end of the leases are not touched.
- A login that read the account before it was disabled gets its session after
  the revocation (`docs/database-api.md:850` says disabling revokes all
  sessions at once). `NoStaleSession` exempts such a login. Likewise an
  operation is authorised on the event loop, before it waits for a thread.
- Two owners can disable each other; the comment at
  `admin_account_service.cpp:66` is right only for one at a time.
- When the table of failed logins is full, failures of further names are not
  counted.
- An idle dashboard session holds its place among the limited sessions until it
  is looked up.
- The audit record of a forced release is written after its transaction
  (`admin_ops_service.cpp:38`); a crash in between loses it.
- Between the second authentication of a web socket and its registration a
  revocation finds nobody (`websocket_routes.cpp:118-122`); the heartbeat closes
  the connection later (`DeadSessionsAreClosed`).
- `event_hub.cpp:398-406` gives up the progress frames at the head of a full
  window only; one behind another frame keeps its place, and the peer is closed
  although `docs/database-api.md` 13.5 has them all given up first. 13.3 has
  `dashboard.refresh` without data, the code adds `dataVersion`
  (`analytics_service.cpp:140`); by 13.4 a pong refreshes the session, in the
  code the check before the ping does.
- Training, a prediction with that model and another training in a row of
  retentions: `latestQualifiedModel` can name a file that is gone, and
  predictions fail until the next training (`sqlite_repository.cpp:3883`,
  `model_artifact_store.cpp:113-141`). `FilesBehindRows` asks for the files of
  the last 90 days only. At `main.cpp:451` the clean-up runs with nothing kept
  when reading the latest model throws.
- `AnalyticsService::complete` puts the artifact in place before the
  transaction that looks at the status of the task; its comment and
  `docs/database-api.md:1149` have it the other way round.
- A start waits for its mutex inside its transaction and the sweep for its
  transaction inside the mutex; only the busy timeout parts them. A start whose
  commit fails leaves its process running.

Apps:

- The desktop app makes a new key for every tap; `docs/database-api.md:130` wants
  the old key for a retry. `OncePerIntent` counts a second tap there as a new
  intent. Its automatic retry keeps the key but sends the token of the moment.
- After a logout the desktop app keeps `activeFlowNo_` and polls on, and late
  replies of the old session are shown under the next login
  (`docs/01-requirements-specification.md:220`: the session is cleared).
  `ShownIsOwn` asks less of the desktop than of the phone and the console.
- `chargingStarted_` survives a logout and a settlement elsewhere; a later
  quoted flow is then polled for progress only, and its expiry is not noticed.
  When both replies to a settlement are lost the desktop stays on the charging
  page. `ShownFlowCatchesUp` therefore asks of the desktop only what it shows as
  waiting, quoted or reserved.
- A reply to a poll of an older flow can clear the newer one on the desktop; a
  quote dialog answered after that sends an empty flow number.
- The end of a phone's session drops its kept keys, so a recharge repeated after
  the next login is a new one. A lost reply to a request for a charger, a cancel
  and a new request replay the old answer until the poll corrects it.
- The phone's list of orders has no serial number and may go back to an older
  reading; status 80 cannot be settled from the phone; its flag for the reviews of
  a station (`stationReviewsBusy_`, not modelled) stays set when the session ends
  while they load. The flag of its review dialog does not (`FlagsAreTrue`).
- The console's catalogue of stations may stay stale when a change completes
  while it loads.

## Proofs

Every theorem holds for any values of the constants that fulfil the assumption
of their module, `...Assumption`. The assumptions name types, keep apart names
that must differ (`None` is no user, a starter is no sweeper), and ask what the
configuration of the code guarantees: capacities, attempts and limits of at
least one, finitely many threads, chargers and flows. A bucket must not be idle
for so short that it is forgotten before it is full (`IdleTicks >= Burst`), which
the values of the code fulfil. Scenes restrict only how many faults and which operations
there are; the theorems hold for every choice of them.

Every invariant and every action property that the passing runs check is a
theorem, and so are the three refinements. `SettlementIsAllOrNothing` and
`AnswerStoredWithSettlement` are proved where they hold (see below).

### The charging flow

All theorems about `ChargeFlow` take a settlement that fails to be rolled back
(`SettleFails`, its contract). On the route it is not (finding 2), so
`ChargerExclusive`, `LeaseImplemented`, `OrdersFit`, `BooksBalance` and the others
say nothing of what follows a settlement that fails there.

`ChargeFlowProofs`: `TypeCorrect`, `ChargerExclusive`, `QueueExact`,
`OneFlowPerUser`, `MirrorCorrect`, `DeletedStayQuiet`, and the inductive
invariant `IInv` they follow from (`Invariant`). None of them is inductive
alone. That a charger has one holder needs that only queued flows are promoted
and that they hold nothing, which needs that the queue has no rows of other
flows; that the release of a charger clears the right user's mirror needs that
the user has one active flow; that a deleted user stays quiet needs the mirror
to be exact. `IInv` joins them: `Rest` (types of what has no part in this),
`Now` (types, `Held`, `Lined`, `Solo`) and `Quiet`. `Held`, `Lined` and `Solo` are
predicates of flows, chargers and tickets, not of the variables, because a
transaction has two halves: it ends flows and frees chargers, then it serves the
queue. `EndingKeeps` shows that the first half keeps `Good` whatever set of flows
ends, `ServeKeeps` that serving keeps it whatever is granted (`GrantFacts` says
what a grant is). Each action is then a short lemma.

`DeletedStayQuiet` and `MirrorCorrect` show that `recoverAtStartup` finds nothing
to repair as far as the mirror goes, and `QueueExact` that the branch of
`promoteQueueLocked` that drops stale rows is never taken.

`ChargeLeaseProofs`: `LeaseImplemented`, that `ChargeFlow` implements
`ChargerLease`, `DisabledIsQuiet`, and `NoneIdle`. A transaction may end several
flows, serve several and admit one; the abstract step does all this at once and
says what becomes of each customer. So each action is first reduced to the fates
of the single flows (`Stays`, `Leaves`, `Comes`, `IsServed`), and one lemma makes
a step of the lease out of the fates (`LeaseSteps`). `Pooled`, that a flow in use
has a pool, is the invariant it needs beside `IInv`.

`NoneIdle` says that no charger is idle while a flow waits for its pool. It is a
question of counting: a transaction takes a number of promotion steps for
each pool, and they must be enough for the chargers it has freed. If a charger
stayed idle beside a waiting flow, every step granted one, and the grants, an
injection into the chargers freed, would be as many as these and exhaust
them. The theorem assumes `~TariffLapses`: nothing is promoted while a station
has no tariff, and nothing promotes when one begins again, which is what the run
`tick` shows.

`ChargeOrderProofs`: `OrdersFit`, that the order goes with its flow. `Ordered`
is inductive given `IInv`; promotion touches only queued flows, which have no
order (`ServedFits`), so each action is looked at before it promotes.
`BooksBalance` is about a sum over the completed orders of a user. The prover
has no induction over sets, so the law of the sum (`SpentStep`: one more order
adds its amount) is shown from the finiteness of the flows by a smallest
counterexample. With it, an action has to say only
which order it completes, if any. `ServicePriceBounded`, `QueueNeverCheapens`
and `NeverBelowShown` are about `Pricing`, by the monotony of products and
quotients.

### Requests, events and their delivery

`RequestProofs` keeps two invariants. That of the pool, `PoolInv`, says of each
request that it is ended exactly when it was claimed, that what was accepted has
run, waits or runs (`NoneLost`), and that threads leave an empty queue that
nothing can be added to (`Leaving`); `AnsweredOnceAlways` and
`NothingLeftBehindAlways` follow. That of the keys, `CallsInv`, says for each key
what its row in the database and its entry in the cache may be, given where each
of its callers stands (`At`). The point is the moment between the commit and
the update of the cache: there the cache still shows a lease, and the only caller
who may complete or release it is the one who committed (`Known`, `Owned`).
All this is known of a key only while every handler of it ended before its lease
(`Prompt`); of the others there remains that their records and answers belong to
calls with that key which had their effect (`Filed`, `Placed`, `Told`). A lease
that ends under its handler takes one key from the first kind to the second
(`AgesKeeps`), and no other step changes who is of which (`SameKeys`): that is why
no other key suffers.
`LateResultsCanBeAskedAlways` follows, and so do `OneEffectPerKeyAlways` and
`SameAnswerForAllAlways`, what `OncePerKey` means for two calls of one key.
`OncePerKeyImplemented`, that every step is one of `OncePerKey`, takes beside it only the order of things within a call
(`InOrder`): no effect before the commit, nothing told before the end.

`NoWakeUpLostAlways` is a question of counting, too: either everybody asleep is
meant by a notification (`signals`), or the queue is no longer than the
notifications and the threads that still look at it together (`Noticed`). A step
moves one thread or one task, and each of the counts by one at most; the lemmas
on the cardinality of the sets of threads carry that. `EntriesAlwaysRunAlone`
rests on an invariant of places (`Alone`): a pass whose flag is up is once in the
queue or with one thread, never both. `OutboxDelivery` and `MlTasks` have one pass
and one sweep because of it.

`DeliveryProofs`: the hub's invariant `HubInv` holds under every step the
dispatcher makes of the hub, the outbox's `OutboxInv` under every step of the
hub (`DeliveryInvariant`). `HubInv` has to say of a connection what its handshake
knows while the session is revoked, replaced or checked (`Handled`), why it may
be closed (`Caused`), and that what is queued for it comes after what it was sent
(`Numbered`); `OutboxInv` says of each row what was published in this run and what
the pass has in hand. `NoOrphansAlways`, `ClosedWithCauseAlways`,
`MarksAreTrueAlways` and the action property `StreamAlwaysSound` follow.
`NeverALockCycle` needs that a connection whose close runs inline left the registry
before (`Inline`): whoever holds the hub's mutex, and takes those of the peers,
meets no peer that is waiting for it. `AtLeastOnceImplemented`, that every step is
one of `AtLeastOnce`, takes three facts beside `OutboxInv` (`Unsaid`): an event of
which nothing can be told never was, what a pass will give up was committed, and
what this life told is remembered.

### Accounts and permissions

`AccessProofs`: `SessionsInv` relates the table of sessions to its three indexes
and limits; `AccessInv` says what each operation under way has read and may
still rely on. A login notes the epoch of its account and a change raises it, so
a session is either founded on the present state, or its login overlapped the
change, or somebody is about to revoke it (`FreshInv`); that only one thread
writes (`WritersInv`) keeps two changes apart. `SessionsAreFresh` follows.
`GuessesAlwaysBounded` has an invariant of its own per table: a locked name has
had at most the wrong guesses that count, plus those of threads which read the
lock before (`Counted`); a code has had the tries that are gone (`Spent`); a
bucket lost the tokens that were granted. `RoutesArePermitted` is inductive: the
demands of the routes, as the table `Routes` states them, let nobody else
in.

### Tasks, backups and their files

`OperationsProofs`: the invariant says of models (`MlInv`) that drafts belong to
the start that holds the write lock (`Drafted`), that numbers are given once
although the row of a start may be rolled back (`NumberedOnce`), and that a model is
registered before its success is reported, with its file in place from the moment
the report waits for its verdict (`Registered`); and of backups (`BackupsInv`)
what requests and prunes have in hand. `FilesAlwaysBehindRows` follows. Each half
needs of the other only that it leaves the lock to its holder.

`PruningAlwaysKeepsTheNewest` says that the loop keeps what it is there to keep,
however many backups there are. The loop is a fold, and what a fold computes is
shown by induction, which the prover does not have. Instead: `GoneThrough(T)` says
what the loop has met when the newest backups, T, are behind it; it holds of no
backup, and of one more if it holds of those before (`MeetTakes`). If it failed for
some T, there would be a smallest such set, and there is none without a smaller one.

### The settlement and the apps

`ClientsProofs`, first of `SettlementTxn`: `IInv` says what each statement has
made of the rows (`Halfway`) and that nobody else writes the flow while the
transaction is open (`Alone`). `ChargerNeverTaken` holds for every caller.
`AllOrNothingWhenRolledBack` and `AnswerStoredWhenRolledBack` hold under
`RollsBack`, that is for whoever calls the service directly, and for the route
as long as no exception passes it; the other case is refuted by the run
`settle_route`.

`AppsImplementSettlement` says that every behaviour of `Clients` is one of
`SettlementTxn`, so that all of this holds beneath the apps too.
`OncePerIntentAlways` needs to know what each key was made for, which no variable
remembers: the invariant (`OnceInv`) says that there is a set of the keys made for
settlements such that every call and every kept key agrees with it, and every
key that was carried out left its answer, or the completed flow that makes a
second attempt harmless. It is shown for each app and each of its actions, and
for every way the server, the network and a crash can treat a call.

`ShownIsOwnAlways` ties the requests under way to the page and to the session
(`OwnInv`). Of a page that numbers its loads (`Numbered`) there is one newest load
under way, and its reply is no older than what the page shows. A request of the
present session carries its token, and a login is of none (`InSession`); so a phone
never has two logins under way (`OnPhone`) and a review is of the page that is
open; on the desktop only the newest list is of the session (`OnDesk`). The
version of the server only grows, so a reply that fits when it is made fits when
it comes.

`FlagsAlwaysTrue` says of each flag which requests lower it (`FlagsInv`): those of
a kind, those of a page of reviews, or on the console those of its generation
(`Waits`). There is one of them exactly when the flag is up, which is stronger than
the count that the property takes and survives each step: a flag goes up where the
code has just seen it down, down where the one request has been answered, and
losses, repetitions and pauses replace the request by its like. On the console the
end of a session lowers all flags at once, and what pauses for the old session
must not be counted for the new one, nor be asked again by it (`Tidy`: a command
carries the number of its session).

### Only model-checked

- The liveness properties, `ChargersComeBack`, `RequestsAreAnswered`, `PoolGoesOn`,
  `LeasesEnd`,
  `EventsAreDealtWith`, `LocksAreReleased`, `DeadSessionsAreClosed`, `TasksEnd`,
  `ShownFlowCatchesUp`, `OperationsEnd`: fairness is beyond this prover.
- `TickPromotesTheQueues` and, for the route, `SettlementIsAllOrNothing` are
  violated, see the findings.

## Not modelled

- Business numbers: a counter row per prefix and day, formatted; the tables'
  unique columns refuse a duplicate.
- Audit records, statistics and metrics, station search, navigation, map
  requests, the dashboard's snapshots, order lists and receipts on the server:
  queries over committed data, or rows nothing reads back.
- Master data of stations and tariffs, but for "there is a tariff in effect".
- Migrations and seeds of the database, `server_config.cpp`, parsing,
  validation and formatting of requests: one-shot or pure.
- Of the apps: maps, location, avatars, requests for codes, the demo service,
  layout and wording. The dashboard, the training pipeline and the simulator.
- The in-memory repositories, which are test doubles.

## What is left

1. Liveness as theorems, which needs a prover with fairness; the invariants such
   proofs would start from are there (`NoWakeUpLost`, `NoLockCycle`, `FlagsAreTrue`
   and `EntriesRunAlone` say that what must happen is not blocked for good).
2. Station search, dashboards and analytics as functions of the committed rows, if
   they ever decide anything that is written.
3. The dashboard's client and the device simulator, when the server acts on what
   they send.

------------------------------ MODULE Clients ------------------------------
(***************************************************************************)
(* The apps against the server, one app at a time; and, in a linked scene, *)
(* the phone that settles against the settlement as the server carries it  *)
(* out, statement by statement, with its crashes (SettlementTxn).  Without *)
(* an app the settlement is called directly, as its tests do.              *)
(***************************************************************************)
EXTENDS SettlementTxn, MobileApp, DesktopApp, ConsoleApp

all == <<vars, appVars>>

NoApp == scene.app = "none"

ClientsInit ==
    /\ Init
    /\ scene \in AppScenes /\ NoApp = ~caller.nested
    /\ left = scene.bounds /\ calls = {} /\ ServerInit
    /\ \/ IsMobile /\ MobileInit
       \/ IsDesktop /\ DesktopInit
       \/ IsConsole /\ ConsoleInit
       \/ NoApp /\ device = [token |-> 0]

-----------------------------------------------------------------------------
(* The settlement the phone asks for. *)

Settles(c)  == scene.linked /\ Serving(c) /\ c.kind = "settle" /\ c.by \in server.live
Settled     == [Ok EXCEPT !.no = 1, !.status = Over]
Handled(c)  == c.at \in {"Handled", "LateHandled"}
TakenUp(c)  == [c EXCEPT !.at = IF GivenUp(c) THEN "LateHandled" ELSE "Handled"]

\* executeAndComplete: a thread takes the call up, or the record of its key
\* answers it.
SettleTaken(c) ==
    /\ Settles(c)
    /\ \/ Begin /\ calls' = (calls \ {c}) \union {TakenUp(c)}
       \/ db.key = "Stored" /\ Replied(c, Settled) /\ UNCHANGED vars
       \/ db.key = "Leased" /\ Replied(c, Failure("Conflict")) /\ UNCHANGED vars
    /\ UNCHANGED <<scene, left, device, server>>

SettleOpened(c) ==
    /\ Handled(c) /\ Open
    /\ IF stage' = "Running" THEN UNCHANGED calls ELSE Replied(c, Failure("Conflict"))
    /\ UNCHANGED <<scene, left, device, server>>

SettleCommitted(c) ==
    /\ Handled(c) /\ Commit /\ Replied(c, Settled)
    /\ server' = [server EXCEPT !.flows[1].status = Over, !.done[c.intent] = @ + 1]
    /\ UNCHANGED <<scene, left, device>>

SettleCrashed(c) ==
    /\ Handled(c) /\ Crash /\ Replied(c, Failure("Unreachable"))
    /\ UNCHANGED <<scene, left, device, server>>

SettlementGoesOn ==
    \/ \E c \in calls : SettleOpened(c) \/ SettleCommitted(c)
    \/ (Execute \/ Promote) /\ UNCHANGED appVars

Linked ==
    \/ \E c \in calls : SettleTaken(c) \/ SettleCrashed(c)
    \/ SettlementGoesOn
    \/ scene.linked /\ (LeaseExpires \/ OtherFlow) /\ UNCHANGED appVars

-----------------------------------------------------------------------------
Receives(c) ==
    \/ MobileReceives(c)
    \/ DesktopPauses(c) \/ DesktopSendsAgain(c) \/ DesktopReceives(c)
    \/ ConsoleReceives(c) \/ ConsoleAsksAgain(c)

Apps ==
    /\ \/ MobileTaps \/ MobilePolls \/ DesktopTaps \/ DesktopPolls
       \/ ConsoleTaps \/ ConsoleForgets
       \/ ServerEvent \/ CommandEnds
       \/ \E c \in calls : Lose(c) \/ Serve(c) \/ Receives(c)
    /\ UNCHANGED vars

ClientsNext ==
    \/ NoApp /\ Next /\ UNCHANGED appVars
    \/ Linked
    \/ Apps

\* The timers fire, what the app waits for comes or is given up, and the
\* server serves what has arrived.  Polls recur for ever, so they are served
\* for themselves.
Recurring(c) == c.kind \in {"flow", "progress", "command"}

Fairness ==
    /\ \A recurring \in BOOLEAN :
          /\ WF_all(\E c \in calls : /\ Recurring(c) = recurring /\ c.at = "Sent"
                                     /\ Serve(c) /\ UNCHANGED vars)
          /\ WF_all(\E c \in calls : /\ Recurring(c) = recurring
                                     /\ Receives(c) /\ UNCHANGED vars)
    /\ WF_all((MobilePolls \/ DesktopPolls) /\ UNCHANGED vars)
    /\ WF_all(CommandEnds /\ UNCHANGED vars)
    /\ WF_all(\E c \in calls : c.at = "Sent" /\ SettleTaken(c))
    /\ WF_all(SettlementGoesOn)

ClientsSpec == ClientsInit /\ [][ClientsNext]_all /\ Fairness

-----------------------------------------------------------------------------
\* docs/database-api.md, 2.4, and the comment of beginReview: however often an
\* app repeats a request whose reply was lost, by itself or because the user
\* taps again on the phone, and however late the first one arrives, the server
\* carries out what the user meant once.
OncePerIntent == \A i \in 1..MaxKeys : server.done[i] <= 1

\* The guards of the replies: what a page newly shows was read in the session
\* that is logged in, and a page that numbers its loads never falls back to an
\* earlier reading.  The phone and the console keep to it on every page; on
\* the desktop only the list of stations asks whose reply it is.
Owned   == CASE IsMobile -> {"list", "orders", "profile", "avatar", "review", "flow"}
             [] IsConsole -> {"list", "catalog"}
             [] OTHER -> {"list"}
Ordered == IF IsDesktop THEN {"list", "orders"} ELSE {"list"}

ShownIsOwn ==
    [][/\ \A p \in Owned \intersect DOMAIN device :
             device'[p] # device[p] => device'[p].by \in {0, device.token}
       /\ \A p \in Ordered \intersect DOMAIN device :
             device'[p].by = device[p].by => device'[p].version >= device[p].version]_all

\* What keeps a button or a poll waiting is one request, or the pause before
\* its next try, and its reply lets go: the flag is up exactly while there is
\* such a request, and there are never two, through losses, repetitions,
\* sessions that end and dialogs that are closed.
Awaiting(kinds)  == {c \in Awaited : c.kind \in kinds}
Reviewing(page)  == {c \in Awaiting({"review", "submit"}) : c.serial = page}
OfNow(requests)  == {c \in requests : c.generation = device.generation}
Operations       == {"put", "detail", "reauth", "restart", "predict", "command"}
UpFor(flag, requests) == Cardinality(requests) = IF flag THEN 1 ELSE 0

FlagsAreTrue ==
    /\ IsMobile => UpFor(device.reviewBusy, Reviewing(device.reviewSerial))
    /\ IsDesktop =>
          /\ UpFor(device.loggingIn, Awaiting({"login"}))
          /\ UpFor(device.polling, Awaiting({"flow", "progress"}))
          /\ UpFor(device.reviewBusy, Reviewing(device.reviewKey))
    /\ IsConsole =>
          /\ UpFor(device.loggingIn, OfNow(Awaiting({"login"})))
          /\ UpFor(device.busy, OfNow(Awaiting(Operations)))
          /\ UpFor(device.catalogLoading, OfNow(Awaiting({"catalog"})))

\* What the polls are for: a flow the app shows as waiting, quoted or reserved
\* (on the phone, in any state) does not go on being shown in a state it is no
\* longer in, though the app is told nothing when it is promoted, expires or is
\* ended by somebody else.
Behind ==
    /\ IsMobile \/ IsDesktop
    /\ device.flow.no # 0
    /\ device.flow.status # server.flows[device.flow.no].status
    /\ IsDesktop =>
          /\ device.flow.status \in {Waiting, Quoted, Reserved} /\ ~device.charging
          /\ device.token \in server.live
          /\ server.owner[device.token] = server.flows[device.flow.no].user

ShownFlowCatchesUp == Behind ~> ~Behind

\* Whatever holds the window, or keeps the polls from being sent, ends: with a
\* reply, a timeout, a command that ends or is given up, or the session.
Working ==
    CASE IsMobile  -> Busy
      [] IsDesktop -> device.polling \/ device.loggingIn \/ device.reviewBusy
      [] IsConsole -> device.busy
      [] OTHER     -> FALSE

OperationsEnd == Working ~> ~Working
=============================================================================

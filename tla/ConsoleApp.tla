----------------------------- MODULE ConsoleApp -----------------------------
(***************************************************************************)
(* The console of the administrators (apps/admin): a client that drops     *)
(* what belongs to an earlier session, and a window with a list per page,  *)
(* a catalogue of the stations, and one operation at a time, some of which *)
(* are followed until they end.                                            *)
(***************************************************************************)
EXTENDS AppCalls

CONSTANT MaxPolls   \* how often the window asks how a command is doing

ASSUME ConsoleAppAssumption == MaxPolls \in Nat

ConsoleInit ==
    device = [token |-> server.issued, generation |-> 0, session |-> 0, busy |-> FALSE,
              loggingIn |-> FALSE, list |-> Nothing, serial |-> 0, catalog |-> Nothing,
              catalogLoading |-> FALSE, proven |-> FALSE, nextKey |-> 1]

IsConsole  == scene.app = "console"
HasSession == device.token # 0
Idle       == IsConsole /\ HasSession /\ ~device.busy

-----------------------------------------------------------------------------
(* Requests, and what one does before it sends them. *)

\* beginPage: the rows are gone until the newest load is answered.
Turned(d) == [d EXCEPT !.serial = @ + 1, !.list = Nothing]
\* loadList.
ListOf(d) == {[Request(d, "list") EXCEPT !.serial = d.serial]}

\* loadCatalog does nothing while a load is under way.
CatalogOf(d) ==
    IF d.catalogLoading THEN {} ELSE {[Request(d, "catalog") EXCEPT !.serial = d.session]}
Asked(d) == [d EXCEPT !.catalogLoading = TRUE]

Once(kind) == [Request(device, kind) EXCEPT !.key = device.nextKey, !.intent = device.nextKey]

ConsoleLogin ==
    /\ IsConsole /\ ~HasSession /\ ~device.loggingIn /\ Taps("login")
    /\ \E u \in scene.users :
          Sends([device EXCEPT !.loggingIn = TRUE],
                {[Request(device, "login") EXCEPT !.user = u]})

ConsoleLogout ==
    IsConsole /\ HasSession /\ Taps("logout") /\ Sends(device, {Request(device, "logout")})

ConsoleOpensPage ==
    IsConsole /\ HasSession /\ Taps("list") /\ Sends(Turned(device), ListOf(Turned(device)))

\* mutate: the row is changed as the page shows it; of a station (no is 1)
\* or of something else.
ConsoleMutates ==
    /\ Idle /\ device.list # Nothing /\ device.nextKey <= MaxKeys /\ Taps("put")
    /\ \E page \in {0, 1} :
          Sends([device EXCEPT !.busy = TRUE, !.nextKey = @ + 1],
                {[Once("put") EXCEPT !.version = device.list.version, !.no = page]})

\* toggleUserStatus asks for the row of the user first.
ConsoleToggles ==
    Idle /\ Taps("toggle") /\ Sends([device EXCEPT !.busy = TRUE], {Request(device, "detail")})

\* restartCharger, behind a proof of identity if there is none any more;
\* runPrediction without.
ConsoleSubmits ==
    /\ Idle /\ device.nextKey <= MaxKeys
    /\ \/ /\ Taps("restart")
          /\ IF device.proven
             THEN Sends([device EXCEPT !.busy = TRUE, !.nextKey = @ + 1], {Once("restart")})
             ELSE Sends([device EXCEPT !.busy = TRUE], {Request(device, "reauth")})
       \/ /\ Taps("predict")
          /\ Sends([device EXCEPT !.busy = TRUE, !.nextKey = @ + 1], {Once("predict")})

\* The time of the proof the window keeps runs out.
ConsoleForgets ==
    /\ IsConsole /\ device.proven /\ "forget" \in scene.events
    /\ Sends([device EXCEPT !.proven = FALSE], {}) /\ UNCHANGED <<scene, left, server>>

-----------------------------------------------------------------------------
(* What it does with the replies. *)

\* Mutation of BackAtLogin: the operation under way still holds the window.
BackButBusy(d) ==
    [Turned(d) EXCEPT !.token = 0, !.generation = @ + 1, !.session = @ + 1,
        !.proven = FALSE, !.catalog = Nothing, !.catalogLoading = FALSE, !.loggingIn = FALSE]
\* clearSession of the client and returnToLogin.
BackAtLogin(d) ==
    [Turned(d) EXCEPT !.token = 0, !.generation = @ + 1, !.session = @ + 1, !.busy = FALSE,
        !.proven = FALSE, !.catalog = Nothing, !.catalogLoading = FALSE, !.loggingIn = FALSE]

\* The client aborts whatever is under way, and drops how it ends.
AfterAbort ==
    {c \in calls : GivenUp(c) \/ c.at = "Pausing"} \union UNION {Remains(c) : c \in Awaited}

ConsoleEnds(c) ==
    /\ \/ c.kind = "logout"
       \/ c.by # 0 /\ c.kind # "reauth" /\ c.reply.code = "Unauthorized"
    /\ device' = BackAtLogin(device) /\ calls' = AfterAbort
    /\ UNCHANGED <<scene, left, server>>

ConsoleLoggedIn(c) ==
    /\ c.kind = "login"
    /\ LET d    == [device EXCEPT !.loggingIn = FALSE]
           here == [Turned(d) EXCEPT !.token = c.reply.no, !.generation = @ + 1, !.session = @ + 1]
       IN  IF c.reply.code = "Ok"
           THEN /\ device' = Asked(here)
                /\ calls' = AfterAbort \union CatalogOf(here) \union ListOf(here)
                /\ UNCHANGED <<scene, left, server>>
           ELSE Handles(c, d, {})

\* Mutation of Newest: whichever load the rows are from.
NewestOrNot(c) == TRUE
Newest(c) == c.serial = device.serial

ConsoleShowsPage(c) ==
    \/ /\ c.kind = "list"
       /\ Handles(c, IF Newest(c) /\ c.reply.code = "Ok" THEN [device EXCEPT !.list = Read(c)]
                     ELSE device, {})
    \/ /\ c.kind = "catalog"
       /\ Handles(c, IF c.serial # device.session THEN device
                     ELSE [device EXCEPT !.catalogLoading = FALSE,
                              !.catalog = IF c.reply.code = "Ok" THEN Read(c) ELSE @], {})

Rest(d) == [d EXCEPT !.busy = FALSE]

\* After a success, and after a conflict, the page is loaded again, and after
\* those of a station the catalogue.
ConsoleMutated(c) ==
    /\ c.kind = "put"
    /\ LET d == Rest(device)
       IN  IF c.reply.code \notin {"Ok", "Conflict"} THEN Handles(c, d, {})
           ELSE IF c.no = 1
           THEN Handles(c, Turned(Asked([d EXCEPT !.catalog = Nothing])),
                        CatalogOf(d) \union ListOf(Turned(d)))
           ELSE Handles(c, Turned(d), ListOf(Turned(d)))

\* The dialog that asks whether to go on: yes, or no.
ConsoleDetailed(c) ==
    /\ c.kind = "detail"
    /\ \/ Handles(c, Rest(device), {})
       \/ /\ c.reply.code = "Ok" /\ device.nextKey <= MaxKeys
          /\ Handles(c, [device EXCEPT !.nextKey = @ + 1],
                     {[Once("put") EXCEPT !.version = c.reply.version]})

ConsoleProven(c) ==
    /\ c.kind = "reauth"
    /\ IF c.reply.code = "Ok" /\ device.nextKey <= MaxKeys
       THEN Handles(c, [device EXCEPT !.proven = TRUE, !.nextKey = @ + 1], {Once("restart")})
       ELSE Handles(c, Rest(device), {})

Poll(d, tries, at) ==
    [Request(d, "command") EXCEPT !.tries = tries, !.serial = d.session, !.at = at]

ConsoleSubmitted(c) ==
    /\ c.kind \in {"restart", "predict"}
    /\ IF c.reply.code = "Ok" THEN Handles(c, device, {Poll(device, 0, "Sent")})
       ELSE Handles(c, Rest([device EXCEPT !.proven = @ /\ c.reply.code # "Forbidden"]), {})

\* pollCommand, pollPrediction.
ConsolePolled(c) ==
    /\ c.kind = "command"
    /\ \/ c.reply.code # "Ok" /\ Handles(c, Rest(device), {})
       \/ /\ c.reply.code = "Ok" /\ c.reply.status = 0 /\ c.tries < MaxPolls
          /\ Handles(c, device, {Poll(device, c.tries, "Pausing")})
       \/ /\ c.reply.code = "Ok" /\ (c.reply.status = 1 \/ c.tries >= MaxPolls)
          /\ \/ Handles(c, Turned(Rest(device)), ListOf(Turned(device)))
             \/ Handles(c, Rest(device), {})    \* a prediction that failed

ConsoleReceives(c) ==
    /\ IsConsole /\ c.at = "Answered" /\ c.generation = device.generation
    /\ \/ ConsoleEnds(c)
       \/ /\ ~(c.by # 0 /\ c.kind # "reauth" /\ c.reply.code = "Unauthorized")
          /\ \/ ConsoleLoggedIn(c) \/ ConsoleShowsPage(c) \/ ConsoleMutated(c)
             \/ ConsoleDetailed(c) \/ ConsoleProven(c) \/ ConsoleSubmitted(c)
             \/ ConsolePolled(c)

\* The timer of a command under way fires, in the same session or another.
ConsoleAsksAgain(c) ==
    /\ IsConsole /\ c.at = "Pausing"
    /\ Handles(c, device, IF c.serial = device.session /\ HasSession
                          THEN {Poll(device, c.tries + 1, "Sent")} ELSE {})

ConsoleTaps ==
    \/ ConsoleLogin \/ ConsoleLogout \/ ConsoleOpensPage \/ ConsoleMutates \/ ConsoleToggles
    \/ ConsoleSubmits
=============================================================================

----------------------------- MODULE DesktopApp -----------------------------
(***************************************************************************)
(* The users' app on the desktop (apps/user): a client that repeats a      *)
(* request once when the transport fails, and a window whose timer asks    *)
(* for the flow or its progress.  A dialog runs an event loop of its own,  *)
(* so replies go on arriving while it is open.                             *)
(***************************************************************************)
EXTENDS AppCalls

DesktopInit ==
    device = [token |-> server.issued, generation |-> 0, online |-> scene.signedIn,
              inside |-> scene.signedIn, loggingIn |-> FALSE, nextKey |-> 1,
              flow |-> IF scene.flow = 0 THEN NoFlow
                       ELSE [no |-> 1, status |-> scene.flow, by |-> 1],
              charging |-> scene.flow = Charging, asking |-> 0, polling |-> FALSE,
              list |-> Nothing, serial |-> 0, orders |-> Nothing, ordersSerial |-> 0,
              profile |-> Nothing, avatar |-> Nothing,
              review |-> Nothing, reviewKey |-> 0, reviewBusy |-> FALSE,
              reviewed |-> FALSE]

IsDesktop == scene.app = "desktop"

-----------------------------------------------------------------------------
(* The client. *)

\* Mutation of Again: the repeated request is given a key of its own.
AgainAfresh(c) ==
    [c EXCEPT !.at = "Sent", !.by = device.token, !.tries = 1,
              !.key = IF @ = 0 THEN 0 ELSE MaxKeys]
\* The same headers, the key among them, with the token the client has now.
Again(c) == [c EXCEPT !.at = "Sent", !.by = device.token, !.tries = 1]

Repeatable(c) == c.reply.code = "Unreachable" /\ c.tries = 0 /\ c.kind # "avatar"

DesktopPauses(c) ==
    /\ IsDesktop /\ c.at = "Answered" /\ Repeatable(c)
    /\ Handles(c, device, {[c EXCEPT !.at = "Pausing", !.reply = NoReply]})

DesktopSendsAgain(c) ==
    /\ IsDesktop /\ c.at = "Pausing"
    /\ Handles(c, device, {Again(c)})

-----------------------------------------------------------------------------
(* What the user may ask for: not while a dialog is open. *)

AtWindow == IsDesktop /\ device.asking = 0 /\ device.reviewKey = 0
Inside   == AtWindow /\ device.inside

\* The button is disabled until the reply.
DesktopLogin ==
    /\ AtWindow /\ ~device.inside /\ ~device.loggingIn /\ Taps("login")
    /\ \E u \in scene.users :
          Sends([device EXCEPT !.loggingIn = TRUE],
                {[Request(device, "login") EXCEPT !.user = u]})

DesktopSignOff ==
    /\ Inside
    /\ \E kind \in {"logout", "delete"} : Taps(kind) /\ Sends(device, {Request(device, kind)})

\* requestRefresh, refreshAvailability (which the timer calls, too),
\* refreshOrders, refreshProfile.
DesktopOpensPage ==
    /\ Inside
    /\ \/ /\ device.online /\ Taps("list")
          /\ Sends([device EXCEPT !.serial = @ + 1],
                   {[Request(device, "list") EXCEPT !.serial = device.serial + 1]})
       \/ /\ device.online /\ Taps("orders")
          /\ Sends([device EXCEPT !.ordersSerial = @ + 1],
                   {[Request(device, "orders") EXCEPT !.serial = device.ordersSerial + 1]})
       \/ Taps("profile") /\ Sends(device, {Request(device, "profile")})
       \/ /\ Taps("rename")
          /\ Sends(device, {[Request(device, "rename") EXCEPT !.version = device.profile.version]})

Keyed(kind) == [Request(device, kind) EXCEPT !.key = device.nextKey, !.intent = device.nextKey]
OfFlow(kind) ==
    [Keyed(kind) EXCEPT !.no = device.flow.no, !.version = device.flow.status]

\* Every tap has a key of its own, and none waits for a reply.
DesktopPosts ==
    /\ Inside /\ device.nextKey <= MaxKeys
    /\ \/ /\ Taps("recharge")
          /\ Sends([device EXCEPT !.nextKey = @ + 1], {Keyed("recharge")})
       \/ \E kind \in {"start", "cancel", "settle"} :
             /\ device.flow.no # 0 /\ device.flow.status \in From[kind] \ {Quoted} /\ Taps(kind)
             /\ Sends([device EXCEPT !.nextKey = @ + 1], {OfFlow(kind)})

\* beginFlowRequest first asks whether there is a flow.
DesktopBegins ==
    Inside /\ Taps("create") /\ Sends(device, {Request(device, "ask")})

\* The dialog about the quote is answered: for the flow the window has by now.
DesktopAnswers ==
    /\ IsDesktop /\ device.asking > 0 /\ device.nextKey <= MaxKeys
    /\ \E kind \in {"confirm", "decline"} :
          /\ Taps(kind)
          /\ Sends([device EXCEPT !.asking = @ - 1, !.nextKey = @ + 1], {OfFlow(kind)})

\* The dialog makes the one key of its review, and loads what there is.
DesktopOpensReview ==
    /\ Inside /\ Taps("review") /\ device.nextKey <= MaxKeys
    /\ Sends([device EXCEPT !.reviewKey = device.nextKey, !.nextKey = @ + 1,
                            !.review = Nothing, !.reviewBusy = TRUE, !.reviewed = FALSE],
             {[Request(device, "review") EXCEPT !.serial = device.nextKey]})

DesktopInReview ==
    /\ IsDesktop /\ device.asking = 0 /\ device.reviewKey # 0
    /\ \/ /\ ~device.reviewBusy /\ ~device.reviewed /\ Taps("submit")
          /\ Sends([device EXCEPT !.reviewBusy = TRUE],
                   {[Request(device, "submit") EXCEPT !.serial = device.reviewKey,
                        !.key = device.reviewKey, !.intent = device.reviewKey]})
       \/ /\ ~device.reviewBusy /\ ~device.reviewed /\ Taps("review")
          /\ Sends([device EXCEPT !.reviewBusy = TRUE],
                   {[Request(device, "review") EXCEPT !.serial = device.reviewKey]})
       \/ /\ Taps("close")
          /\ Sends([device EXCEPT !.reviewKey = 0, !.reviewBusy = FALSE], {})

\* refreshCharge, by the timer: whoever is logged in.
DesktopPolls ==
    /\ IsDesktop /\ device.flow.no # 0 /\ ~device.polling
    /\ device.charging \/ device.flow.status \in {Waiting, Quoted, Reserved}
    /\ Sends([device EXCEPT !.polling = TRUE],
             {[Request(device, IF device.charging THEN "progress" ELSE "flow")
                 EXCEPT !.no = device.flow.no]})
    /\ UNCHANGED <<scene, left, server>>

-----------------------------------------------------------------------------
(* What it does with the replies. *)

\* restoreFlow, whichever flow the reply is about: a quote is asked about, and
\* any other state opens a page.
Restored(c, d) ==
    LET shown == [d EXCEPT !.flow = Shown(c)]
        paged == [shown EXCEPT !.inside = TRUE]
    IN  CASE c.reply.status = Quoted   -> [shown EXCEPT !.asking = @ + 1]
          [] c.reply.status = Charging -> [paged EXCEPT !.charging = TRUE]
          [] c.reply.status \in {Waiting, Reserved} -> [paged EXCEPT !.charging = FALSE]
          [] OTHER -> [paged EXCEPT !.flow.no = 0]

Answer(c, kinds) == c.kind \in kinds /\ c.reply.code = "Ok"

DesktopLoggedIn(c) ==
    /\ c.kind = "login"
    /\ LET d == [device EXCEPT !.loggingIn = FALSE]
       IN  \/ /\ c.reply.code = "Ok"
              /\ LET home == [d EXCEPT !.token = c.reply.no, !.online = TRUE,
                                       !.inside = TRUE, !.serial = @ + 1]
                 IN  Handles(c, home, {[Request(home, "list") EXCEPT !.serial = home.serial]})
           \/ c.reply.code = "Refused" /\ Handles(c, d, {})
           \* The server is out of reach: the demonstration on this machine.
           \/ /\ c.reply.code = "Unreachable"
              /\ Handles(c, [d EXCEPT !.online = FALSE, !.inside = TRUE], {})

\* The window goes back to the login; the flow it knows stays.
DesktopEnds(c) ==
    /\ c.kind = "logout" \/ Answer(c, {"delete"})
    /\ Handles(c, [device EXCEPT !.token = 0, !.online = FALSE, !.inside = FALSE], {})

\* Mutation of PollEnds: a poll that fails is never over.
PollGoesOn(d) == d
\* progressRequestInFlight_ is reset by every reply.
PollEnds(d) == [d EXCEPT !.polling = FALSE]

\* After a quote was declined, whatever the answer: the flow may be there still.
Forgotten(d) == [d EXCEPT !.flow.no = 0, !.inside = TRUE]

DesktopFails(c) ==
    /\ c.reply.code # "Ok" /\ c.kind \notin {"login", "logout", "review", "submit"}
    /\ Handles(c, IF c.kind = "decline" THEN Forgotten(device)
                  ELSE IF c.kind \in {"flow", "progress"} THEN PollEnds(device)
                  ELSE device, {})

\* Mutation of LatestList: a reply is shown whenever it arrives.
AnyList(c) == TRUE
LatestList(c) == device.online /\ c.serial = device.serial

DesktopShowsStations(c) ==
    /\ Answer(c, {"list"})
    /\ Handles(c, IF LatestList(c) THEN [device EXCEPT !.list = Read(c)] ELSE device, {})

DesktopShowsOrders(c) ==
    /\ Answer(c, {"orders"})
    /\ Handles(c, IF c.serial = device.ordersSerial THEN [device EXCEPT !.orders = Read(c)]
                  ELSE device, {})

DesktopShowsProfile(c) ==
    \/ /\ Answer(c, {"profile"})
       /\ Handles(c, [device EXCEPT !.profile = Read(c), !.avatar = Nothing],
                  {Request(device, "avatar")})
    \/ Answer(c, {"avatar"}) /\ Handles(c, [device EXCEPT !.avatar = Read(c)], {})

DesktopProfileChanged(c) ==
    Answer(c, {"recharge", "rename"}) /\ Handles(c, device, {Request(device, "profile")})

\* The flow there is, or else the request for a new one.
DesktopAsked(c) ==
    \/ /\ Answer(c, {"ask"})
       /\ IF c.reply.no # 0 THEN Handles(c, Restored(c, device), {})
          ELSE /\ device.nextKey <= MaxKeys
               /\ Handles(c, [device EXCEPT !.nextKey = @ + 1], {Keyed("create")})
    \/ Answer(c, {"create"}) /\ Handles(c, Restored(c, device), {})

DesktopShowsFlow(c) ==
    \/ /\ Answer(c, {"confirm"})
       /\ Handles(c, [device EXCEPT !.flow = Shown(c), !.charging = FALSE, !.inside = TRUE], {})
    \/ /\ Answer(c, {"start"})
       /\ Handles(c, [device EXCEPT !.flow.status = c.reply.status, !.charging = TRUE], {})
    \/ /\ Answer(c, {"cancel", "settle"})
       /\ Handles(c, [device EXCEPT !.flow = NoFlow, !.charging = FALSE, !.inside = TRUE], {})
    \/ Answer(c, {"decline"}) /\ Handles(c, Forgotten(device), {})

\* A poll of the flow shows the flow when its status is another one.
DesktopPolled(c) ==
    /\ Answer(c, {"flow", "progress"})
    /\ LET d == PollEnds(device)
       IN  Handles(c, IF c.kind = "flow" /\ c.reply.status # device.flow.status
                      THEN Restored(c, d) ELSE d, {})

\* A reply to a dialog that was closed finds nobody; a review there is
\* already is loaded again.
DesktopReviewed(c) ==
    /\ c.kind \in {"review", "submit"}
    /\ IF c.serial # device.reviewKey THEN Handles(c, device, {})
       ELSE IF c.kind = "submit" /\ c.reply.code = "Refused"
       THEN Handles(c, device, {[Request(device, "review") EXCEPT !.serial = c.serial]})
       ELSE LET d == [device EXCEPT !.reviewBusy = FALSE]
            IN  Handles(c, IF c.reply.code # "Ok" THEN d
                           ELSE [d EXCEPT !.review = Read(c), !.reviewed = @ \/ Written(c)], {})

DesktopReceives(c) ==
    /\ IsDesktop /\ c.at = "Answered" /\ ~Repeatable(c)
    /\ \/ DesktopLoggedIn(c) \/ DesktopEnds(c) \/ DesktopFails(c)
       \/ DesktopShowsStations(c) \/ DesktopShowsOrders(c) \/ DesktopShowsProfile(c)
       \/ DesktopProfileChanged(c) \/ DesktopAsked(c) \/ DesktopShowsFlow(c)
       \/ DesktopPolled(c) \/ DesktopReviewed(c)

DesktopTaps ==
    \/ DesktopLogin \/ DesktopSignOff \/ DesktopOpensPage \/ DesktopPosts \/ DesktopBegins
    \/ DesktopAnswers \/ DesktopOpensReview \/ DesktopInReview
=============================================================================

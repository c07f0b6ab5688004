----------------------------- MODULE MobileApp -----------------------------
(***************************************************************************)
(* The app on the phone (apps/mobile): one object that sends requests,     *)
(* counts those it waits for and handles their replies, and pages that     *)
(* load what they show and poll the flow every second.                     *)
(***************************************************************************)
EXTENDS AppCalls

MobileInit ==
    device = [token |-> server.issued, generation |-> 0, serial |-> 0, nextKey |-> 1,
              keys |-> {}, meant |-> {},
              flow |-> IF scene.flow = 0 THEN NoFlow
                       ELSE [no |-> 1, status |-> scene.flow, by |-> 1],
              list |-> Nothing, orders |-> Nothing, profile |-> Nothing, avatar |-> Nothing,
              review |-> Nothing, reviewSerial |-> 0, reviewKey |-> 0, reviewBusy |-> FALSE,
              reviewed |-> FALSE]

IsMobile == scene.app = "mobile"
LoggedIn == device.token # 0

\* pending_: the requests that are counted; the picture and a submitted review
\* are not.
Busy == \E c \in Awaited : c.kind \notin {"avatar", "submit"}

\* Mutation of Cleared: the requests under way still belong to the session.
ClearedOnlyShown(d) ==
    [d EXCEPT !.token = 0, !.keys = {}, !.meant = {}, !.flow = NoFlow, !.list = Nothing,
              !.orders = Nothing, !.profile = Nothing, !.avatar = Nothing, !.review = Nothing]
\* clearSession.
Cleared(d) ==
    [d EXCEPT !.token = 0, !.generation = @ + 1, !.serial = @ + 1, !.reviewSerial = @ + 1,
              !.keys = {}, !.meant = {}, !.flow = NoFlow, !.list = Nothing,
              !.orders = Nothing, !.profile = Nothing, !.avatar = Nothing,
              !.review = Nothing, !.reviewKey = 0, !.reviewBusy = FALSE, !.reviewed = FALSE]

Load(d, kind) == [Request(d, kind) EXCEPT !.serial = d.serial]

-----------------------------------------------------------------------------
(* What the user may ask for. *)

\* Mutation of MayLogin: the button does not wait for other requests.
MayLoginAnyTime == ~LoggedIn
MayLogin == ~LoggedIn /\ ~Busy

MobileLogin ==
    /\ IsMobile /\ MayLogin /\ Taps("login")
    /\ \E u \in scene.users : Sends(device, {[Request(device, "login") EXCEPT !.user = u]})

\* logout, deleteAccount.
MobileSignOff ==
    /\ IsMobile /\ LoggedIn /\ ~Busy
    /\ \E kind \in {"logout", "delete"} : Taps(kind) /\ Sends(device, {Request(device, kind)})

\* Pages are opened at any time, also while a request is under way; only the
\* lists of stations, chargers and reviews number their loads.
MobileOpensPage ==
    /\ IsMobile /\ LoggedIn
    /\ \/ /\ Taps("list")
          /\ LET d == [device EXCEPT !.serial = @ + 1] IN Sends(d, {Load(d, "list")})
       \/ \E kind \in {"orders", "profile", "active"} :
             Taps(kind) /\ Sends(device, {Load(device, kind)})

Of(pairs, scope) == {p[2] : p \in {q \in pairs : q[1] = scope}}

\* postJson: the key of a path and body is made once and kept until its
\* success is reported.
Post(kind, no, version) ==
    LET scope  == <<kind, no, version>>
        keys   == Of(device.keys, scope)
        wishes == Of(device.meant, scope)
        key    == IF keys = {} THEN device.nextKey ELSE CHOOSE k \in keys : TRUE
        wish   == IF wishes = {} THEN device.nextKey ELSE CHOOSE w \in wishes : TRUE
    IN  /\ ~Busy /\ device.nextKey <= MaxKeys
        /\ Sends([device EXCEPT !.keys = @ \union {<<scope, key>>},
                                !.meant = @ \union {<<scope, wish>>},
                                !.nextKey = IF keys = {} THEN @ + 1 ELSE @],
                 {[Request(device, kind) EXCEPT !.key = key, !.intent = wish, !.no = no,
                                                !.version = version]})

\* updateNickname: no key, but the version of the profile shown.
MobileRenames ==
    /\ IsMobile /\ LoggedIn /\ ~Busy /\ Taps("rename")
    /\ Sends(device, {[Request(device, "rename") EXCEPT !.version = device.profile.version]})

\* requestCharge, confirmCharge, startCharge, settleCharge, cancelCharge,
\* recharge; the page enables what the status shown allows.
MobilePosts ==
    /\ IsMobile /\ LoggedIn
    /\ \/ Taps("recharge") /\ Post("recharge", 0, 0)
       \/ device.flow.no = 0 /\ Taps("create") /\ Post("create", 0, 0)
       \/ \E kind \in DOMAIN From :
             /\ device.flow.status \in From[kind]
             /\ Taps(kind) /\ Post(kind, device.flow.no, device.flow.status)

\* beginReview: a review has one key, however often it is sent.
MobileBeginsReview ==
    /\ IsMobile /\ LoggedIn /\ Taps("review") /\ device.nextKey <= MaxKeys
    /\ LET d == [device EXCEPT !.reviewSerial = @ + 1, !.reviewKey = device.nextKey,
                               !.nextKey = @ + 1, !.review = Nothing, !.reviewBusy = TRUE,
                               !.reviewed = FALSE]
       IN  Sends(d, {[Request(d, "review") EXCEPT !.serial = d.reviewSerial]})

MobileSubmitsReview ==
    /\ IsMobile /\ LoggedIn /\ device.reviewKey # 0 /\ ~device.reviewBusy /\ ~device.reviewed
    /\ Taps("submit")
    /\ LET d == [device EXCEPT !.reviewBusy = TRUE]
       IN  Sends(d, {[Request(d, "submit") EXCEPT !.serial = d.reviewSerial,
                                                  !.key = d.reviewKey, !.intent = d.reviewKey]})

\* Mutation of MayPoll: a flow is looked after once it is charging.
MayPollCharging == device.flow.status = Charging
MayPoll == device.flow.no # 0

\* loadFlowProgress, each second.
MobilePolls ==
    /\ IsMobile /\ LoggedIn /\ MayPoll /\ ~Busy
    /\ Sends(device, {[Request(device, "flow") EXCEPT !.no = device.flow.no]})
    /\ UNCHANGED <<scene, left, server>>

-----------------------------------------------------------------------------
(* What it does with the replies. *)

\* Mutation of OfThisSession: whose reply it is does not matter.
OfAnySession(c) == TRUE
OfThisSession(c) == c.generation = device.generation

ByReview(c) == c.kind \in {"review", "submit"}
Plain(c)    == c.kind \notin {"review", "submit", "avatar", "logout"}

MobileDrops(c) ==
    /\ \/ Plain(c) /\ ~OfThisSession(c)
       \/ c.kind = "avatar" /\ ~OfThisSession(c)
       \/ ByReview(c) /\ c.serial # device.reviewSerial
    /\ Handles(c, device, {})

\* The session is over: it was ended, or the server knows it no more.
MobileEnds(c) ==
    /\ \/ c.kind = "logout"
       \/ Plain(c) /\ OfThisSession(c) /\ c.reply.code = "Unauthorized"
       \/ ByReview(c) /\ c.serial = device.reviewSerial /\ c.reply.code = "Unauthorized"
       \/ c.kind = "delete" /\ OfThisSession(c) /\ c.reply = Ok
    /\ Handles(c, Cleared(device), {})

Scope(c) == <<c.kind, c.no, c.version>>

\* Mutation of AfterFailure: a failed request gives up its key, too.
FailureDropsKey(c, d) == [d EXCEPT !.keys = {p \in @ : p[1] # Scope(c)}]
\* A key outlives every failure.
AfterFailure(c, d) == d

MobileFails(c) ==
    /\ c.reply.code \notin {"Ok", "Unauthorized"}
    /\ Plain(c) /\ OfThisSession(c)
    /\ Handles(c, AfterFailure(c, device), {})

\* The request did what the user meant: another tap is another wish.
Reported(c, d) ==
    [d EXCEPT !.keys = {p \in @ : p[1] # Scope(c)}, !.meant = {p \in @ : p[1] # Scope(c)}]

Succeeded(c, kinds) ==
    c.kind \in kinds /\ OfThisSession(c) /\ c.reply.code = "Ok"

\* login: the page that follows asks for the flow, too.
MobileLoggedIn(c) ==
    /\ Succeeded(c, {"login"})
    /\ LET d == [device EXCEPT !.token = c.reply.no, !.serial = @ + 1]
       IN  Handles(c, d, {Load(d, kind) : kind \in {"profile", "list", "active"}})

MobileShowsStations(c) ==
    /\ Succeeded(c, {"list"})
    /\ Handles(c, IF c.serial = device.serial THEN [device EXCEPT !.list = Read(c)]
                  ELSE device, {})

MobileShowsOrders(c) ==
    Succeeded(c, {"orders"}) /\ Handles(c, [device EXCEPT !.orders = Read(c)], {})

MobileShowsProfile(c) ==
    \/ /\ Succeeded(c, {"profile"})
       /\ Handles(c, [device EXCEPT !.profile = Read(c)], {Load(device, "avatar")})
    \/ /\ c.kind = "avatar" /\ OfThisSession(c)
       /\ Handles(c, [device EXCEPT !.avatar = IF c.reply.code = "Ok" THEN Read(c)
                                               ELSE Nothing], {})

MobileShowsFlow(c) ==
    \/ /\ Succeeded(c, {"active"})
       /\ Handles(c, [device EXCEPT !.flow = IF c.reply.no = 0 THEN NoFlow ELSE Shown(c)], {})
    \/ /\ Succeeded(c, {"create", "confirm", "start"})
       /\ Handles(c, [Reported(c, device) EXCEPT !.flow = Shown(c)], {})
    \/ /\ Succeeded(c, {"cancel"})
       /\ Handles(c, [Reported(c, device) EXCEPT !.flow = NoFlow], {})

MobileSettled(c) ==
    /\ Succeeded(c, {"settle"})
    /\ Handles(c, [Reported(c, device) EXCEPT !.flow = NoFlow],
               {Load(device, "orders"), Load(device, "profile")})

\* The reply to a poll, of the flow and then of its progress.
MobilePolled(c) ==
    /\ Succeeded(c, {"flow", "progress"})
    /\ \/ device.flow.no # c.no /\ Handles(c, device, {})
       \/ /\ device.flow.no = c.no
          /\ Handles(c, [device EXCEPT !.flow = Shown(c)],
                CASE c.kind = "flow" /\ c.reply.status >= Over ->
                        {Load(device, kind) : kind \in {"active", "orders", "profile"}}
                  [] c.kind = "flow" /\ c.reply.status = Charging ->
                        {[Request(device, "progress") EXCEPT !.no = c.no]}
                  [] OTHER -> {})

MobileProfileChanged(c) ==
    /\ Succeeded(c, {"recharge", "rename"})
    /\ Handles(c, Reported(c, device), {Load(device, "profile")})

MobileReviewed(c) ==
    /\ ByReview(c) /\ c.serial = device.reviewSerial /\ c.reply.code # "Unauthorized"
    /\ LET d == [device EXCEPT !.reviewBusy = FALSE]
       IN  Handles(c, IF c.reply.code # "Ok" THEN d
                      ELSE [d EXCEPT !.review = Read(c), !.reviewed = @ \/ Written(c)], {})

MobileReceives(c) ==
    /\ IsMobile /\ c.at = "Answered"
    /\ \/ MobileDrops(c) \/ MobileEnds(c) \/ MobileFails(c) \/ MobileLoggedIn(c)
       \/ MobileShowsStations(c) \/ MobileShowsOrders(c) \/ MobileShowsProfile(c)
       \/ MobileShowsFlow(c) \/ MobileSettled(c) \/ MobilePolled(c)
       \/ MobileProfileChanged(c) \/ MobileReviewed(c)

MobileTaps ==
    \/ MobileLogin \/ MobileSignOff \/ MobileOpensPage \/ MobileRenames \/ MobilePosts
    \/ MobileBeginsReview \/ MobileSubmitsReview
=============================================================================

----------------------------- MODULE MCClients -----------------------------
(***************************************************************************)
(* The scenes in which TLC looks at Clients.  A scene names the app, the   *)
(* status of the flow it begins with (0: none), what the user may tap,     *)
(* what else may happen at the server, and how many taps, lost or late     *)
(* replies and events there are.  Every operation of an app is in a scene  *)
(* beside those it could disturb:                                          *)
(*   Alone             no app: the settlement is called directly, with     *)
(*                     failing statements;                                 *)
(*   PhoneSettles      the settlement of a phone, statement by statement,  *)
(*                     with crashes and a lost reply;                      *)
(*   ...Rides, ...Books  one flow from its request to its end;             *)
(*   ...Signs, ConsoleLists  a logout, or a revoked session, and the login *)
(*                     of somebody else, while pages load;                 *)
(*   the others        what is left of the app's pages.                    *)
(***************************************************************************)
EXTENDS Clients

Direct == [nested |-> FALSE, throws |-> TRUE]
Route  == [nested |-> TRUE, throws |-> FALSE]
DirectOrCrashing == {Direct, Route}

Bounds(taps, losses, events) == [taps |-> taps, losses |-> losses, events |-> events]

Scene(app, flow, taps, events, bounds) ==
    [app |-> app, signedIn |-> TRUE, user |-> "a", users |-> {"a"}, flow |-> flow,
     linked |-> FALSE, taps |-> taps, events |-> events, bounds |-> bounds]

\* "a" is logged in when it begins, and "b" is who logs in next.
Signing(app, taps, bounds) ==
    [Scene(app, 0, {"login", "logout"} \union taps, {"revoke", "change"}, bounds)
        EXCEPT !.users = {"b"}]

Alone == Scene("none", 0, {}, {}, Bounds(0, 0, 0))

PhoneSettles ==
    [Scene("mobile", Charging, {"settle"}, {}, Bounds(3, 1, 0)) EXCEPT !.linked = TRUE]
PhoneRides ==
    Scene("mobile", Reserved, {"start", "cancel", "active", "settle"}, {"end"}, Bounds(2, 1, 1))
PhoneBooks ==
    Scene("mobile", 0, {"create", "confirm", "cancel"}, {"quote"}, Bounds(3, 1, 1))
PhoneSigns == Signing("mobile", {"list", "orders"}, Bounds(3, 1, 1))
PhoneRecharges ==
    Scene("mobile", 0, {"recharge", "rename", "profile"}, {}, Bounds(3, 2, 0))
PhoneReviews ==
    Scene("mobile", 0, {"review", "submit", "delete"}, {"revoke"}, Bounds(4, 1, 1))

DeskRides ==
    Scene("desktop", Reserved, {"start", "cancel", "settle", "logout"}, {"end"},
          Bounds(2, 1, 1))
DeskBooks ==
    Scene("desktop", 0, {"create", "confirm", "decline"}, {"quote", "end"}, Bounds(3, 1, 1))
DeskSigns == Signing("desktop", {"list"}, Bounds(3, 2, 1))
DeskReads ==
    Scene("desktop", 0, {"orders", "recharge", "rename", "profile"}, {"change"},
          Bounds(2, 1, 1))
DeskReviews ==
    Scene("desktop", 0, {"review", "submit", "close", "delete"}, {"review"}, Bounds(4, 1, 1))

ConsoleLists == Signing("console", {"list", "put"}, Bounds(3, 1, 1))
ConsoleUsers == Scene("console", 0, {"list", "toggle"}, {"change"}, Bounds(2, 1, 1))
ConsoleCommands ==
    Scene("console", 0, {"restart", "predict", "logout"}, {"forget", "revoke"},
          Bounds(2, 1, 1))

MCAppScenes ==
    {Alone,
     PhoneSettles, PhoneRides, PhoneBooks, PhoneSigns, PhoneRecharges, PhoneReviews,
     DeskRides, DeskBooks, DeskSigns, DeskReads, DeskReviews,
     ConsoleLists, ConsoleUsers, ConsoleCommands}
=============================================================================

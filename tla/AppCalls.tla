------------------------------ MODULE AppCalls ------------------------------
(***************************************************************************)
(* What the apps of the users and of the operators have in common: the     *)
(* requests they have under way, the network between them and the server,  *)
(* and the server as they meet it (its inside is the matter of the other   *)
(* modules).  Every request has a connection of its own, so replies        *)
(* overtake each other, and a request the app has given up may still reach *)
(* the server.                                                             *)
(***************************************************************************)
EXTENDS Naturals, FiniteSets

CONSTANTS
    MaxSessions, MaxFlows, MaxKeys, MaxVersion,   \* bounds: of what is issued
    MaxCalls,        \* bound: nobody taps while so many requests are under way
    AppScenes        \* bounds: the app, what is tapped and what happens to it

ASSUME AppCallsAssumption ==
    /\ MaxSessions \in Nat \ {0} /\ MaxFlows \in Nat \ {0} /\ MaxKeys \in Nat
    /\ MaxVersion \in Nat /\ MaxCalls \in Nat

VARIABLES
    scene,
    left,     \* how many taps, losses and events the scene has left
    device,   \* what the app remembers and shows
    calls,    \* the requests under way, with their replies
    server

appVars == <<scene, left, device, calls, server>>

Nothing == [by |-> 0, version |-> 0]
NoFlow  == [no |-> 0, status |-> 0, by |-> 0]
NoReply == [code |-> "None", no |-> 0, status |-> 0, version |-> 0]
Ok      == [NoReply EXCEPT !.code = "Ok"]
Failure(code) == [NoReply EXCEPT !.code = code]

\* The status codes of a flow; 60 stands for all of those that are over.
Waiting  == 10
Quoted   == 20
Reserved == 30
Charging == 40
Over     == 60

\* A request carries the token of the session (here its number) and what its
\* handler will compare: the generation of the session and the number of the
\* page's load.  no and version are the flow and its version (here its
\* status), or the version of a row; intent is the wish of the user it serves.
\* It is Sent, perhaps Handled by a thread of the server, and Answered; Late
\* (LateHandled) when the app has given it up; Pausing when it waits for a
\* timer of the app.
Request(d, kind) ==
    [kind |-> kind, by |-> d.token, generation |-> d.generation, serial |-> 0,
     key |-> 0, intent |-> 0, no |-> 0, version |-> 0, user |-> "",
     tries |-> 0, at |-> "Sent", reply |-> NoReply]

GivenUp(c) == c.at \in {"Late", "LateHandled"}
Awaited == {c \in calls : ~GivenUp(c)}

ServerInit ==
    server = [live    |-> IF scene.signedIn THEN {1} ELSE {},
              issued  |-> IF scene.signedIn THEN 1 ELSE 0,
              owner   |-> [s \in 1..MaxSessions |-> IF s = 1 THEN scene.user ELSE ""],
              flows   |-> [n \in 1..MaxFlows |->
                              IF n = 1 /\ scene.flow # 0
                              THEN [user |-> scene.user, status |-> scene.flow]
                              ELSE [user |-> "", status |-> 0]],
              answers |-> [k \in 1..MaxKeys |-> NoReply],
              done    |-> [k \in 1..MaxKeys |-> 0],
              version |-> 1, reviewed |-> FALSE, proven |-> {}, command |-> "None"]

-----------------------------------------------------------------------------
(* The network. *)

Replied(c, r) ==
    calls' = (calls \ {c}) \union
             (IF GivenUp(c) THEN {} ELSE {[c EXCEPT !.at = "Answered", !.reply = r]})

\* What is left at the server of a request the app gives up.
Remains(c) == CASE c.at = "Sent"    -> {[c EXCEPT !.at = "Late"]}
                [] c.at = "Handled" -> {[c EXCEPT !.at = "LateHandled"]}
                [] OTHER            -> {}

\* The timeout runs out, or the connection breaks: before the request got
\* there, while it is on its way or handled, or after it was answered.
Lose(c) ==
    /\ c.at \in {"Sent", "Handled", "Answered"} /\ left.losses > 0
    /\ \E remains \in {Remains(c)} \union (IF c.at = "Sent" THEN {{}} ELSE {}) :
          calls' = (calls \ {c}) \union remains
                   \union {[c EXCEPT !.at = "Answered", !.reply = Failure("Unreachable")]}
    /\ left' = [left EXCEPT !.losses = @ - 1]
    /\ UNCHANGED <<scene, device, server>>

-----------------------------------------------------------------------------
(* The server. *)

Serving(c) == c.at \in {"Sent", "Late"}
User(c)    == server.owner[c.by]
Current(u) == {n \in 1..MaxFlows : server.flows[n].user = u /\ server.flows[n].status \in 1..50}
Unused     == {n \in 1..MaxFlows : server.flows[n].status = 0}

\* The session a device had before is replaced.
ServeLogin(c) ==
    /\ Serving(c) /\ c.kind = "login"
    /\ \/ Replied(c, Failure("Refused")) /\ UNCHANGED server
       \/ /\ server.issued < MaxSessions
          /\ LET new == server.issued + 1
             IN  /\ server' = [server EXCEPT !.issued = new, !.owner[new] = c.user,
                                  !.live = {s \in @ : server.owner[s] # c.user} \union {new}]
                 /\ Replied(c, [Ok EXCEPT !.no = new])
    /\ UNCHANGED <<scene, left, device>>

ServeUnauthorized(c) ==
    /\ Serving(c) /\ c.kind # "login" /\ c.by \notin server.live
    /\ Replied(c, Failure("Unauthorized"))
    /\ UNCHANGED <<scene, left, device, server>>

Answered(c) == c.key # 0 /\ server.answers[c.key] # NoReply
Serves(c, kinds) == Serving(c) /\ c.kind \in kinds /\ c.by \in server.live /\ ~Answered(c)

ServeAgain(c) ==
    /\ Serving(c) /\ c.by \in server.live /\ Answered(c)
    /\ Replied(c, server.answers[c.key])
    /\ UNCHANGED <<scene, left, device, server>>

\* Mutation of Recorded: the answer is not kept under its key.
NotRecorded(c, r, s) == [s EXCEPT !.done[c.intent] = @ + 1]
\* What was done, and its answer under the key.
Recorded(c, r, s) == [s EXCEPT !.answers[c.key] = r, !.done[c.intent] = @ + 1]

Carried(c, r, s) == server' = Recorded(c, r, s) /\ Replied(c, r)
Refused(c, code) == Replied(c, Failure(code)) /\ UNCHANGED server

ServeSignOff(c) ==
    /\ Serves(c, {"logout", "delete"})
    /\ \/ /\ server' = [server EXCEPT !.live = IF c.kind = "logout" THEN @ \ {c.by}
                                               ELSE {s \in @ : server.owner[s] # User(c)}]
          /\ Replied(c, Ok)
       \/ c.kind = "delete" /\ Refused(c, "Refused")
    /\ UNCHANGED <<scene, left, device>>

View(n) == [Ok EXCEPT !.no = n, !.status = IF n = 0 THEN 0 ELSE server.flows[n].status]

ServeReading(c) ==
    /\ \/ /\ Serves(c, {"list", "orders", "profile", "avatar", "review", "detail", "catalog"})
          /\ Replied(c, [Ok EXCEPT !.version = server.version,
                            !.status = IF c.kind = "review" /\ server.reviewed THEN 1 ELSE 0])
       \/ /\ Serves(c, {"active", "ask"})
          /\ \/ Current(User(c)) = {} /\ Replied(c, View(0))
             \/ \E n \in Current(User(c)) : Replied(c, View(n))
       \/ /\ Serves(c, {"flow", "progress"})
          /\ LET flow == server.flows[c.no]
             IN  Replied(c, IF /\ flow.user = User(c)
                               /\ c.kind = "progress" => flow.status = Charging
                            THEN View(c.no) ELSE Failure("Refused"))
       \/ /\ Serves(c, {"command"})
          /\ Replied(c, [Ok EXCEPT !.status = IF server.command = "Ended" THEN 1 ELSE 0])
    /\ UNCHANGED <<scene, left, device, server>>

\* decline is the cancellation of a flow whose quote the user does not want.
From == [confirm |-> {Quoted}, start |-> {Reserved}, settle |-> {Charging},
         cancel |-> {Waiting, Quoted, Reserved}, decline |-> {Waiting, Quoted, Reserved}]
To   == [confirm |-> Reserved, start |-> Charging, settle |-> Over,
         cancel |-> Over, decline |-> Over]

ServeCreate(c) ==
    /\ Serves(c, {"create"})
    /\ \/ /\ Current(User(c)) = {}
          /\ \E n \in Unused, status \in {Waiting, Quoted} :
                /\ \A m \in Unused : n <= m
                /\ Carried(c, [Ok EXCEPT !.no = n, !.status = status],
                          [server EXCEPT !.flows[n] = [user |-> User(c), status |-> status]])
       \/ Current(User(c)) # {} /\ Refused(c, "Refused")
    /\ UNCHANGED <<scene, left, device>>

\* A request of an earlier version of the flow is refused.
ServeFlow(c) ==
    /\ Serves(c, DOMAIN From) /\ ~(scene.linked /\ c.kind = "settle")
    /\ LET now == IF c.no = 0 THEN [user |-> "", status |-> 0] ELSE server.flows[c.no]
       IN  IF /\ now.user = User(c) /\ now.status = c.version
              /\ now.status \in From[c.kind]
           THEN Carried(c, [Ok EXCEPT !.no = c.no, !.status = To[c.kind]],
                        [server EXCEPT !.flows[c.no].status = To[c.kind]])
           ELSE Refused(c, "Conflict")
    /\ UNCHANGED <<scene, left, device>>

ServeOther(c) ==
    /\ \/ Serves(c, {"recharge"}) /\ Carried(c, Ok, server)
       \/ /\ Serves(c, {"submit"})
          /\ IF server.reviewed THEN Refused(c, "Refused")
             ELSE Carried(c, Ok, [server EXCEPT !.reviewed = TRUE])
       \/ /\ Serves(c, {"put", "rename"})
          /\ IF c.version = server.version /\ server.version < MaxVersion
             THEN LET changed == [server EXCEPT !.version = @ + 1]
                  IN  IF c.key # 0 THEN Carried(c, Ok, changed)
                      ELSE server' = changed /\ Replied(c, Ok)
             ELSE Refused(c, "Conflict")
       \/ /\ Serves(c, {"reauth"})
          /\ \/ /\ server' = [server EXCEPT !.proven = @ \union {c.by}]
                /\ Replied(c, Ok)
             \/ Refused(c, "Unauthorized")
       \/ /\ Serves(c, {"restart", "predict"})
          /\ IF c.kind = "restart" /\ c.by \notin server.proven THEN Refused(c, "Forbidden")
             ELSE Carried(c, Ok, [server EXCEPT !.command = "Pending"])
    /\ UNCHANGED <<scene, left, device>>

Serve(c) ==
    \/ ServeLogin(c) \/ ServeUnauthorized(c) \/ ServeAgain(c) \/ ServeSignOff(c)
    \/ ServeReading(c) \/ ServeCreate(c) \/ ServeFlow(c) \/ ServeOther(c)

\* What else happens at the server: a quote is made, a flow expires or is
\* ended by an administrator, a session is revoked, rows change, the order is
\* reviewed from elsewhere, a proof of identity expires; and a command ends.
ServerEvent ==
    /\ left.events > 0 /\ left' = [left EXCEPT !.events = @ - 1]
    /\ \/ /\ "quote" \in scene.events
          /\ \E n \in 1..MaxFlows :
                /\ server.flows[n].status = Waiting
                /\ server' = [server EXCEPT !.flows[n].status = Quoted]
       \/ /\ "end" \in scene.events
          /\ \E n \in 1..MaxFlows :
                /\ server.flows[n].status \in 1..50
                /\ server' = [server EXCEPT !.flows[n].status = Over]
       \/ /\ "revoke" \in scene.events
          /\ \E s \in server.live : server' = [server EXCEPT !.live = @ \ {s}]
       \/ /\ "change" \in scene.events /\ server.version < MaxVersion
          /\ server' = [server EXCEPT !.version = @ + 1]
       \/ /\ "review" \in scene.events /\ server' = [server EXCEPT !.reviewed = TRUE]
       \/ /\ "forget" \in scene.events /\ server.proven # {}
          /\ server' = [server EXCEPT !.proven = {}]
    /\ UNCHANGED <<scene, device, calls>>

CommandEnds ==
    /\ server.command = "Pending"
    /\ server' = [server EXCEPT !.command = "Ended"]
    /\ UNCHANGED <<scene, left, device, calls>>

-----------------------------------------------------------------------------
(* The apps. *)

\* The user taps something, and the app sends what that asks for.
Taps(kind) ==
    /\ kind \in scene.taps /\ left.taps > 0 /\ Cardinality(Awaited) < MaxCalls
    /\ left' = [left EXCEPT !.taps = @ - 1]
    /\ UNCHANGED <<scene, server>>

Sends(d, requests) == device' = d /\ calls' = calls \union requests

\* The app handles a reply: its state becomes d, and it sends what follows.
Handles(c, d, requests) ==
    /\ device' = d /\ calls' = (calls \ {c}) \union requests
    /\ UNCHANGED <<scene, left, server>>

\* What a reply shows of the flow.
Shown(c) == [no |-> c.reply.no, status |-> c.reply.status, by |-> c.by]
Read(c)  == [by |-> c.by, version |-> c.reply.version]
\* There is a review now: it may not be written again.
Written(c) == c.kind = "submit" \/ c.reply.status = 1
=============================================================================

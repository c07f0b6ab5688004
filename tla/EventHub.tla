------------------------------ MODULE EventHub ------------------------------
(***************************************************************************)
(* The event hub and the web sockets in front of it: the handshake in its  *)
(* three steps, the registry of peers, the publisher that sends under the  *)
(* hub's mutex, the heartbeat whose liveness checks run outside it, the    *)
(* revocation of sessions, and the closing of a connection, which may call *)
(* back into the hub while it holds the mutex of the peer.                 *)
(***************************************************************************)
EXTENDS Naturals, Sequences, FiniteSets, FiniteSetsExt

CONSTANTS
    Conns,      \* web socket connections
    Sessions,
    SessionOf,  \* the session whose token a connection presents
    Scopes,     \* the sets of sessions that events are addressed to
    Options     \* EventHubOptions: maxPeers and maxWindowFrames, bytes are frames here, and
                \* the sessions whose livenessCheck may throw

ASSUME HubAssumption ==
    /\ SessionOf \in [Conns -> Sessions] /\ Scopes \subseteq SUBSET Sessions
    /\ Options \subseteq [maxPeers: Nat \ {0}, maxWindow: Nat \ {0}, unsure: SUBSET Sessions]

VARIABLES
    options,    \* options_
    valid,      \* the sessions that authenticate
    stage,      \* the life of each connection
    peers,      \* peers_
    closeCode,  \* close() that somebody owes a connection, by its code, 0 if nobody does
    inClose,    \* the connections whose peer mutex is held by an inline close
    publishing, \* the frame whose publisher holds the mutex of the hub
    sequence,   \* sequence_
    window,     \* the frames a peer was sent within the last minute, TRUE for progress
    silence,    \* time since the last pong
    pinged,     \* whether this silence was answered by a ping
    check,      \* the heartbeat's liveness checks: sessions to ask about, and those found dead
    notices,    \* sessions whose revocation is on its way to the hub
    owed,       \* the number of the session.revoked frame a peer has still to be sent, or 0
    lastSeq, ended, \* what a client sees: the last sequence, and the end of its stream
    hubOpen     \* ~shuttingDown_

hubVars == <<valid, stage, peers, closeCode, inClose, publishing, sequence, window, silence, pinged,
             check, notices, owed, lastSeq, ended, hubOpen, options>>
wire == <<owed, lastSeq, ended>>
pulse == <<silence, pinged, check>>

NoFrame == [seq |-> 0, progress |-> FALSE, left |-> {}]
NoCheck == [ask |-> {}, dead |-> {}]

Stages == {"New", "Accepted", "Checked", "Registered", "Open", "Detached", "Closed"}

HubTypeOK ==
    /\ options \in Options
    /\ valid \subseteq Sessions /\ notices \subseteq Sessions
    /\ stage \in [Conns -> Stages]
    /\ peers \subseteq Conns /\ inClose \subseteq Conns
    /\ closeCode \in [Conns -> {0, 1001, 1013, 4000, 4001, 4002}]
    /\ publishing \in [seq: Nat, progress: BOOLEAN, left: SUBSET Conns]
    /\ sequence \in Nat /\ lastSeq \in [Conns -> Nat] /\ owed \in [Conns -> Nat]
    /\ \A c \in Conns : window[c] \in Seq(BOOLEAN) /\ Len(window[c]) <= options.maxWindow
    /\ silence \in [Conns -> {"Unset", "Fresh", "Due", "Over"}] /\ pinged \in [Conns -> BOOLEAN]
    /\ check \in [ask: SUBSET Sessions, dead: SUBSET Sessions]
    /\ ended \in [Conns -> {"No", "Revoked", "Closed"}] /\ hubOpen \in BOOLEAN

HubInit ==
    /\ options \in Options
    /\ valid = Sessions /\ notices = {}
    /\ stage = [c \in Conns |-> "New"]
    /\ peers = {} /\ inClose = {} /\ closeCode = [c \in Conns |-> 0]
    /\ publishing = NoFrame /\ sequence = 0
    /\ window = [c \in Conns |-> <<>>]
    /\ silence = [c \in Conns |-> "Unset"] /\ pinged = [c \in Conns |-> FALSE]
    /\ check = NoCheck
    /\ owed = [c \in Conns |-> 0] /\ lastSeq = owed /\ ended = [c \in Conns |-> "No"]
    /\ hubOpen = TRUE

\* The mutex of the hub: every action that takes it waits for the publisher.
HubFree == publishing = NoFrame
PeerOf(s) == {c \in peers : SessionOf[c] = s}
Full(registry) == Cardinality(registry) >= options.maxPeers
Connected(c) == stage[c] \in {"Registered", "Open"}

-----------------------------------------------------------------------------
\* onaccept: authenticated and room for it, or answered 401 or 403.
Accept(c) ==
    /\ stage[c] = "New" /\ HubFree
    /\ stage' = [stage EXCEPT ![c] =
           IF /\ SessionOf[c] \in valid /\ hubOpen
              /\ Full(peers) => PeerOf(SessionOf[c]) # {}
           THEN "Accepted" ELSE "Closed"]
    /\ UNCHANGED <<valid, peers, closeCode, inClose, publishing, sequence, window, pulse, notices,
                   wire, hubOpen, options>>

\* Ends a connection that is no peer: closeWith, or the client gives up.
Refused(c) ==
    /\ stage' = [stage EXCEPT ![c] = "Closed"]
    /\ ended' = [ended EXCEPT ![c] = "Closed"]
    /\ UNCHANGED <<owed, lastSeq>>

\* onopen, its second authentication.
CheckAgain(c) ==
    /\ stage[c] = "Accepted"
    /\ IF SessionOf[c] \in valid
       THEN stage' = [stage EXCEPT ![c] = "Checked"] /\ UNCHANGED wire
       ELSE Refused(c)
    /\ UNCHANGED <<valid, peers, closeCode, inClose, publishing, sequence, window, pulse, notices,
                   hubOpen, options>>

Admits(rest) == hubOpen /\ ~Full(rest)
Replaced(c) ==
    closeCode' = [d \in Conns |-> IF d \in PeerOf(SessionOf[c]) THEN 1001 ELSE closeCode[d]]

\* onopen, registerPeer: the newer connection of a session takes over.
Register(c) ==
    LET rest == peers \ PeerOf(SessionOf[c]) IN
    /\ stage[c] = "Checked" /\ HubFree
    /\ \/ /\ Admits(rest)
          /\ peers' = rest \cup {c}
          /\ Replaced(c)
          /\ stage' = [stage EXCEPT ![c] = "Registered"]
          /\ UNCHANGED wire
       \/ /\ ~Admits(rest)
          /\ peers' = IF hubOpen THEN rest ELSE peers
          /\ Refused(c)
          /\ UNCHANGED closeCode
    /\ UNCHANGED <<valid, inClose, publishing, sequence, window, pulse, notices, hubOpen, options>>

-----------------------------------------------------------------------------
\* publish takes the mutex and a number ...
TakeNumber(progress, scope) ==
    /\ HubFree /\ hubOpen
    /\ sequence' = sequence + 1
    /\ publishing' = [seq |-> sequence + 1, progress |-> progress,
                      left |-> {c \in peers : SessionOf[c] \in scope}]

HubButPublishing ==
    <<valid, stage, peers, closeCode, inClose, window, pulse, notices, wire, hubOpen, options>>

\* ... from the outbox, the dashboard or the progress pusher, ...
Publish(progress, scope) ==
    /\ TakeNumber(progress, scope)
    /\ UNCHANGED HubButPublishing

\* ... or as the session.ready of a connection.
Ready(c) ==
    /\ stage[c] = "Registered"
    /\ stage' = [stage EXCEPT ![c] = "Open"]
    /\ IF hubOpen THEN TakeNumber(FALSE, {SessionOf[c]}) ELSE UNCHANGED <<sequence, publishing>>
    /\ UNCHANGED <<valid, peers, closeCode, inClose, window, pulse, notices, wire, hubOpen, options>>

\* The progress frames at the head of the window give way.
Relieved(w) ==
    LET head == {i \in 1..Len(w) : \A j \in 1..i : w[j]}
    IN SubSeq(w, Cardinality(head) + 1, Len(w))

\* Mutation of Fits: one too many.
FitsOneMore(w) == Len(w) <= options.maxWindow
Fits(w) == Len(w) < options.maxWindow

\* Mutation of Overflows: the frame is dropped, whatever it is.
OverflowDrops(progress) == FALSE
\* What does not fit ends the connection, unless it is progress.
Overflows(progress) == ~progress

\* Mutation of Unlisted: whoever is to be closed leaves when it is closed.
UnlistedLater(who) == peers' = peers
\* Whoever is to be closed leaves the registry first.
Unlisted(who) == peers' = peers \ who

\* enqueueLocked for the next peer; its transport drops what it cannot send.
SendTo(c) ==
    LET relieved == IF Fits(window[c]) THEN window[c] ELSE Relieved(window[c])
        fits == Fits(relieved)
    IN /\ c \in publishing.left /\ c \notin inClose
       /\ publishing' = [publishing EXCEPT !.left = @ \ {c}]
       /\ \/ /\ fits
             /\ window' = [window EXCEPT ![c] = Append(relieved, publishing.progress)]
             /\ lastSeq' = [lastSeq EXCEPT ![c] = IF Connected(c) THEN publishing.seq ELSE @]
             /\ UNCHANGED <<peers, closeCode>>
          \/ /\ ~fits /\ ~Overflows(publishing.progress)
             /\ window' = [window EXCEPT ![c] = relieved]
             /\ UNCHANGED <<peers, closeCode, lastSeq>>
          \/ /\ ~fits /\ Overflows(publishing.progress)
             /\ window' = [window EXCEPT ![c] = relieved]
             /\ Unlisted({c})
             /\ closeCode' = [closeCode EXCEPT ![c] = 1013]
             /\ UNCHANGED lastSeq
       /\ UNCHANGED <<valid, stage, inClose, sequence, pulse, notices, owed, ended, hubOpen, options>>

\* Mutation of Releases: the overflowing peers are closed under the mutex.
ReleasesLate == publishing.left = {} /\ \A c \in Conns : closeCode[c] # 1013 /\ c \notin inClose
Releases == publishing.left = {}

EndPublish ==
    /\ publishing # NoFrame /\ Releases
    /\ publishing' = NoFrame
    /\ UNCHANGED <<valid, stage, peers, closeCode, inClose, sequence, window, pulse, notices, wire,
                   hubOpen, options>>

\* A minute after a frame.
WindowMoves(c) ==
    /\ c \in peers /\ window[c] # <<>> /\ HubFree
    /\ window' = [window EXCEPT ![c] = Tail(@)]
    /\ UNCHANGED <<valid, stage, peers, closeCode, inClose, publishing, sequence, pulse, notices,
                   wire, hubOpen, options>>

-----------------------------------------------------------------------------
\* tickHeartbeat, under the mutex: the silent are closed, the quiet pinged.
Heartbeat ==
    LET over == {c \in peers : silence[c] = "Over"}
        due == {c \in peers : silence[c] = "Due" /\ ~pinged[c]}
    IN /\ HubFree /\ check = NoCheck /\ due \cap inClose = {}
       /\ \/ over \cup due # {}
          \/ \E c \in peers : silence[c] = "Unset"
       /\ Unlisted(over)
       /\ closeCode' = [c \in Conns |-> IF c \in over THEN 4000 ELSE closeCode[c]]
       /\ pinged' = [c \in Conns |-> pinged[c] \/ c \in due]
       /\ silence' = [c \in Conns |-> IF c \in peers /\ silence[c] = "Unset" THEN "Fresh"
                                      ELSE silence[c]]
       /\ check' = [ask |-> {SessionOf[c] : c \in due}, dead |-> {}]
       /\ UNCHANGED <<valid, stage, inClose, publishing, sequence, window, notices, wire, hubOpen, options>>

\* Mutation of Alive: a session is not asked about again.
AliveForEver(s) == TRUE
\* Mutation of Alive: whoever had to be pinged is dead.
AliveIfHeard(s) == FALSE
Alive(s) == s \in valid

\* Outside it: livenessCheck for one session; a check that throws finds it dead.
AskAbout(s) ==
    /\ s \in check.ask
    /\ \/ /\ Alive(s)
          /\ check' = [ask |-> check.ask \ {s}, dead |-> check.dead]
       \/ /\ ~Alive(s) \/ s \in options.unsure
          /\ check' = [ask |-> check.ask \ {s}, dead |-> check.dead \cup {s}]
    /\ UNCHANGED <<valid, stage, peers, closeCode, inClose, publishing, sequence, window, silence,
                   pinged, notices, wire, hubOpen, options>>

\* Under it again: whoever is the peer of a dead session by now.
CloseDead ==
    LET who == {c \in peers : SessionOf[c] \in check.dead} IN
    /\ check.ask = {} /\ check.dead # {} /\ HubFree
    /\ Unlisted(who)
    /\ closeCode' = [c \in Conns |-> IF c \in who THEN 4002 ELSE closeCode[c]]
    /\ check' = NoCheck
    /\ UNCHANGED <<valid, stage, inClose, publishing, sequence, window, silence, pinged, notices,
                   wire, hubOpen, options>>

SilenceGrows(c) ==
    /\ c \in peers /\ silence[c] \in {"Fresh", "Due"}
    /\ silence' = [silence EXCEPT ![c] = IF @ = "Fresh" THEN "Due" ELSE "Over"]
    /\ UNCHANGED <<valid, stage, peers, closeCode, inClose, publishing, sequence, window, pinged,
                   check, notices, wire, hubOpen, options>>

Heard(c) == peers \cap {c}

\* onmessage, recordPong: a client answers a ping, possibly late.
Pong(c) ==
    /\ pinged[c] /\ stage[c] = "Open" /\ HubFree
    /\ silence' = [d \in Conns |-> IF d \in Heard(c) THEN "Fresh" ELSE silence[d]]
    /\ pinged' = [d \in Conns |-> pinged[d] /\ d \notin Heard(c) \cup {c}]
    /\ UNCHANGED <<valid, stage, peers, closeCode, inClose, publishing, sequence, window, check,
                   notices, wire, hubOpen, options>>

-----------------------------------------------------------------------------
\* A session is revoked, and the observer will tell the hub, or it expires.
Revoke(s) ==
    /\ s \in valid
    /\ valid' = valid \ {s}
    /\ \/ notices' = notices \cup {s}
       \/ UNCHANGED notices
    /\ UNCHANGED <<stage, peers, closeCode, inClose, publishing, sequence, window, pulse, wire,
                   hubOpen, options>>

\* notifySessionRevoked under the mutex; the frame and the close follow
\* outside it, in this order.
NotifyRevoked(s) ==
    LET who == PeerOf(s) IN
    /\ s \in notices /\ HubFree
    /\ notices' = notices \ {s}
    /\ Unlisted(who)
    /\ closeCode' = [c \in Conns |-> IF c \in who THEN 4001 ELSE closeCode[c]]
    /\ sequence' = IF who # {} THEN sequence + 1 ELSE sequence
    /\ owed' = [c \in Conns |-> IF c \in who THEN sequence' ELSE owed[c]]
    /\ UNCHANGED <<valid, stage, inClose, publishing, window, pulse, lastSeq, ended, hubOpen, options>>

SendRevoked(c) ==
    /\ owed[c] # 0 /\ c \notin inClose
    /\ owed' = [owed EXCEPT ![c] = 0]
    /\ IF Connected(c)
       THEN /\ lastSeq' = [lastSeq EXCEPT ![c] = owed[c]]
            /\ ended' = [ended EXCEPT ![c] = "Revoked"]
       ELSE UNCHANGED <<lastSeq, ended>>
    /\ UNCHANGED <<valid, stage, peers, closeCode, inClose, publishing, sequence, window, pulse,
                   notices, hubOpen, options>>

\* The executor refuses the notice: closeSession at once.
CloseSession(s) ==
    LET who == PeerOf(s) IN
    /\ s \in notices /\ HubFree
    /\ notices' = notices \ {s}
    /\ Unlisted(who)
    /\ closeCode' = [c \in Conns |-> IF c \in who THEN 4001 ELSE closeCode[c]]
    /\ UNCHANGED <<valid, stage, inClose, publishing, sequence, window, pulse, wire, hubOpen, options>>

-----------------------------------------------------------------------------
\* CrowWebSocketPeer::close takes the mutex of the peer and may run onclose
\* inline, still holding it.
Close(c) ==
    /\ closeCode[c] # 0 /\ owed[c] = 0 /\ c \notin inClose
    /\ closeCode' = [closeCode EXCEPT ![c] = 0]
    /\ IF Connected(c)
       THEN /\ ended' = [ended EXCEPT ![c] = "Closed"]
            /\ stage' = [stage EXCEPT ![c] = "Detached"]
            /\ inClose' \in {inClose, inClose \cup {c}}
       ELSE UNCHANGED <<ended, stage, inClose>>
    /\ UNCHANGED <<valid, peers, publishing, sequence, window, pulse, notices, owed, lastSeq,
                   hubOpen, options>>

\* The client or the network ends the connection: onclose detaches the peer ...
Drop(c) ==
    /\ Connected(c) \/ stage[c] \in {"Accepted", "Checked"}
    /\ stage' = [stage EXCEPT ![c] = IF Connected(c) THEN "Detached" ELSE "Closed"]
    /\ UNCHANGED <<valid, peers, closeCode, inClose, publishing, sequence, window, pulse, notices,
                   wire, hubOpen, options>>

\* Mutation of Same: unregisterPeer goes by the session.
SameSession(c) == PeerOf(SessionOf[c])
Same(c) == {c}

\* ... and unregisters it, if the session's peer is still this one.
OnClose(c) ==
    /\ stage[c] = "Detached" /\ HubFree
    /\ stage' = [stage EXCEPT ![c] = "Closed"]
    /\ peers' = peers \ Same(c)
    /\ inClose' = inClose \ {c}
    /\ window' = [window EXCEPT ![c] = <<>>]
    /\ silence' = [silence EXCEPT ![c] = "Unset"] /\ pinged' = [pinged EXCEPT ![c] = FALSE]
    /\ UNCHANGED <<valid, closeCode, publishing, sequence, check, notices, wire, hubOpen, options>>

\* shutdown, when the process ends: the sockets end with it.
Shutdown ==
    /\ hubOpen /\ HubFree
    /\ hubOpen' = FALSE /\ peers' = {}
    /\ UNCHANGED <<valid, stage, closeCode, inClose, publishing, sequence, window, pulse, notices,
                   wire, options>>

\* event_hub.cpp:142: "close() dispatches inline on io threads and its close
\* handler re-enters this hub."  A connection whose inline close holds its
\* mutex, and waits for the hub's, is none that a publisher or the heartbeat,
\* which hold the hub's, could be waiting for.
NoLockCycle == \A c \in inClose : c \notin peers /\ c \notin publishing.left

\* Nobody is connected and forgotten: a connection that was told it is ready
\* is in the registry, or somebody is about to close it; and however handshakes
\* race, the registry has one connection of a session and room for them all, and
\* none whose close is about to wait for it.
NoOrphans ==
    /\ HubTypeOK /\ Cardinality(peers) <= options.maxPeers
    /\ \A s \in Sessions : Cardinality({c \in peers : SessionOf[c] = s}) <= 1
    /\ \A c \in Conns : hubOpen /\ Connected(c) => c \in peers \/ closeCode[c] # 0
    /\ NoLockCycle

\* A connection is closed as revoked only when its session is, and as dead when
\* it is or the check of it may throw, also when the one that was asked about has
\* been replaced meanwhile; and as silent only when nothing was heard of it for
\* the whole time.
ClosedWithCause ==
    \A c \in Conns :
        /\ closeCode[c] = 4001 => SessionOf[c] \notin valid
        /\ closeCode[c] = 4002 => SessionOf[c] \notin valid \ options.unsure
        /\ closeCode[c] = 4000 /\ Connected(c) => silence[c] = "Over"

\* What a step leaves of the frames: a number that moves grows, of a connection
\* that has not ended; a peer taken off the list of a publication got its frame.
SoundStep ==
    /\ \A c \in Conns :
          lastSeq'[c] # lastSeq[c] => lastSeq'[c] > lastSeq[c] /\ ended[c] = "No"
    /\ \A c \in publishing.left \ publishing'.left :
          \/ publishing.progress \/ ~Connected(c) \/ c \notin peers'
          \/ lastSeq'[c] = publishing.seq

\* database-api.md, 13.2 and event_hub.cpp, "frame-then-close order is
\* preserved on the wire": the numbers a client sees only grow, and after
\* session.revoked or the close there is nothing more; and 13.5: a peer that
\* stays connected got every frame meant for it, but for progress.
StreamIsSound == [][SoundStep]_hubVars

=============================================================================

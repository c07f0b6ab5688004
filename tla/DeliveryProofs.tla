--------------------------- MODULE DeliveryProofs ---------------------------
(***************************************************************************)
(* Proofs about the event hub and the outbox in front of it, for any       *)
(* connections, sessions, rows and scenes.  The invariant of the hub says  *)
(* of every connection where it stands: before registration nothing has    *)
(* happened to it, a peer owes and is owed nothing, and whoever left the   *)
(* registry while connected is about to be closed.  The numbers on the     *)
(* wire are ordered: what was sent, what is being published, what is owed. *)
(* The invariant of the outbox says where a row is: in the batch, among    *)
(* those to be marked, remembered, or marked.                              *)
(***************************************************************************)
EXTENDS OutboxDelivery, FiniteSetTheorems, SequenceTheorems, TLAPS

\* The types of the hub in four groups, each of them inductive.
LifeTyped ==
    /\ stage \in [Conns -> Stages]
    /\ closeCode \in [Conns -> {0, 1001, 1013, 4000, 4001, 4002}]
    /\ ended \in [Conns -> {"No", "Revoked", "Closed"}]
PeersTyped ==
    /\ peers \subseteq Conns /\ inClose \subseteq Conns /\ IsFiniteSet(peers)
    /\ valid \subseteq Sessions /\ notices \subseteq Sessions /\ hubOpen \in BOOLEAN
    /\ publishing \in [seq: Nat, progress: BOOLEAN, left: SUBSET Conns]
    /\ sequence \in Nat /\ lastSeq \in [Conns -> Nat] /\ owed \in [Conns -> Nat]
PulseTyped ==
    /\ silence \in [Conns -> {"Unset", "Fresh", "Due", "Over"}] /\ pinged \in [Conns -> BOOLEAN]
    /\ check \in [ask: SUBSET Sessions, dead: SUBSET Sessions]
WindowTyped ==
    /\ options \in Options
    /\ window \in [Conns -> Seq(BOOLEAN)]
    /\ \A c \in Conns : Len(window[c]) <= options.maxWindow

Typed == LifeTyped /\ PeersTyped /\ PulseTyped /\ WindowTyped

Seated ==
    /\ Cardinality(peers) <= options.maxPeers
    /\ \A c, d \in peers : SessionOf[c] = SessionOf[d] => c = d

Early(c) == stage[c] \in {"New", "Accepted", "Checked"}

\* Untouched before it is registered, quiet while it is a peer, and not
\* forgotten as long as it is connected.
Handled(c) ==
    /\ Early(c) => /\ c \notin peers /\ closeCode[c] = 0 /\ owed[c] = 0
                   /\ lastSeq[c] = 0 /\ ended[c] = "No"
    /\ c \in peers => closeCode[c] = 0 /\ owed[c] = 0 /\ ended[c] = "No"
    /\ hubOpen /\ Connected(c) => c \in peers \/ closeCode[c] # 0

DeadAreDead == notices \cap valid = {} /\ check.dead \cap valid \subseteq options.unsure

Caused(c) ==
    /\ closeCode[c] = 4001 => SessionOf[c] \notin valid
    /\ closeCode[c] = 4002 => SessionOf[c] \notin valid \ options.unsure
    /\ closeCode[c] = 4000 /\ Connected(c) => silence[c] = "Over"

Publishing == publishing.left \subseteq peers /\ publishing.seq <= sequence

Numbered(c) ==
    /\ owed[c] <= sequence
    /\ Connected(c) =>
          /\ lastSeq[c] <= sequence
          /\ c \in publishing.left => lastSeq[c] < publishing.seq
          /\ owed[c] # 0 => lastSeq[c] < owed[c] /\ ended[c] = "No"

HubInv ==
    /\ Typed /\ Seated /\ DeadAreDead /\ Publishing
    /\ \A c \in Conns : Handled(c) /\ Caused(c) /\ Numbered(c)

\* A row without a future attempt is not polled again, and one that was
\* published is remembered until it is marked.
RowAt(e) ==
    /\ status[e] = "None" => sent[e] = 0
    /\ status[e] \in {"None", "Pending"} => attempts[e] < MaxAttempts
    /\ status[e] = "Delivered" => e \in everSent
    /\ status[e] = "Dead" => e \in Hopeless \/ attempts[e] = MaxAttempts
    /\ sent[e] <= 1
    /\ sent[e] = 1 => e \in publishedThisRun \/ status[e] # "Pending"

Batched ==
    /\ pass # "Processing" => batch = <<>>
    /\ \A i \in DOMAIN batch : status[batch[i]] = "Pending"
    /\ \A i, j \in DOMAIN batch : batch[i] = batch[j] => i = j

ToMark ==
    /\ publishedThisRun \subseteq everSent
    /\ \A i \in DOMAIN deliveredIds : deliveredIds[i] \in publishedThisRun
    /\ \A i \in DOMAIN deadIds : deadIds[i] \in Hopeless

\* The types of the outbox in three groups, each of them inductive.
RowsTyped ==
    /\ status \in [Ids -> {"None", "Pending", "Delivered", "Dead"}]
    /\ attempts \in [Ids -> 0..MaxAttempts] /\ due \in [Ids -> BOOLEAN]
    /\ sent \in [Ids -> Nat] /\ everSent \subseteq Ids /\ publishedThisRun \subseteq Ids
PassTyped ==
    /\ batch \in Seq(Ids) /\ Len(batch) <= BatchLimit
    /\ deliveredIds \in Seq(Ids) /\ deadIds \in Seq(Ids)
    /\ pass \in {"Idle", "Processing", "Marking"}
SceneTyped ==
    /\ scene \in Scenes
    /\ failures \in 0..scene.failures /\ ends \in 0..scene.ends

OutboxInv == RowsTyped /\ PassTyped /\ SceneTyped /\ Batched /\ ToMark /\ \A e \in Ids : RowAt(e)

-----------------------------------------------------------------------------
\* The steps of the hub, with no scene to bound them.
OfConn(c) ==
    \/ Accept(c) \/ CheckAgain(c) \/ Register(c) \/ Ready(c) \/ SendTo(c) \/ SendRevoked(c)
    \/ Close(c) \/ OnClose(c) \/ WindowMoves(c) \/ Pong(c) \/ Drop(c) \/ SilenceGrows(c)
OfSession(s) == Revoke(s) \/ AskAbout(s) \/ NotifyRevoked(s) \/ CloseSession(s)
HubNext ==
    \/ \E c \in Conns : OfConn(c)
    \/ \E s \in Sessions : OfSession(s)
    \/ \E progress \in BOOLEAN, scope \in Scopes : Publish(progress, scope)
    \/ EndPublish \/ Heartbeat \/ CloseDead \/ Shutdown \/ Restart

\* Whatever moves the hub is one of its steps: its own, a row published by the
\* outbox, or the end of the process.
LEMMA HubMoves ==
    ASSUME SceneTyped, [Next]_vars
    PROVE  HubNext \/ UNCHANGED hubVars
  <1>1. scene.conns \subseteq Conns /\ scene.quiet \subseteq Conns /\ scene.revocable \subseteq Sessions
    BY OutboxAssumption DEF SceneTyped
  <1>2. CASE Hub
    <2>1. CASE Environment
      BY <1>1, <2>1 DEF Environment, HubNext, OfConn, OfSession
    <2>2. CASE \E c \in Conns : HubAlone(c)
      BY <2>2 DEF HubAlone, HubNext, OfConn
    <2>3. CASE \E s \in Sessions : AskAbout(s) \/ Notice(s)
      BY <2>3 DEF Notice, HubNext, OfSession
    <2>4. CASE EndPublish \/ Heartbeat \/ CloseDead
      BY <2>4 DEF HubNext
    <2> QED BY <1>2, <2>1, <2>2, <2>3, <2>4 DEF Hub
  <1>3. CASE ProcessRow
    <2>1. UNCHANGED hubVars \/ \E scope \in Scopes : Publish(FALSE, scope)
      BY <1>3 DEF ProcessRow, Publish
    <2> QED BY <2>1 DEF HubNext
  <1>4. CASE HubShutdown \/ Restart
    BY <1>4 DEF HubShutdown, HubNext
  <1>5. CASE \/ \E e \in Ids : Commit(e) \/ BackoffOver(e)
             \/ Poll \/ StartMarking \/ MarkDead \/ MarkDelivered \/ EndPass
             \/ RowFails \/ MarkFails \/ UNCHANGED vars
    BY <1>5 DEF Commit, BackoffOver, Poll, StartMarking, MarkDead, MarkDelivered, EndPass,
                RowFails, MarkFails, run, vars
  <1> QED BY <1>2, <1>3, <1>4, <1>5 DEF Next, Pass

\* Progress that gives way leaves a window of frames that is not longer.
LEMMA RelievedShorter ==
    ASSUME NEW w \in Seq(BOOLEAN)
    PROVE  Relieved(w) \in Seq(BOOLEAN) /\ Len(Relieved(w)) <= Len(w)
  <1> DEFINE head == {i \in 1..Len(w) : \A j \in 1..i : w[j]}
             n == Cardinality(head)
  <1>1. Len(w) \in Nat
    BY LenProperties
  <1>2. IsFiniteSet(1..Len(w)) /\ Cardinality(1..Len(w)) = Len(w)
    BY SMTT(30), <1>1, FS_Interval
  <1>3. n \in Nat /\ n <= Len(w)
    <2>1. head \in SUBSET (1..Len(w))
      OBVIOUS
    <2>2. IsFiniteSet(head) /\ Cardinality(head) <= Len(w)
      BY <2>1, <1>2, FS_Subset
    <2> QED BY <2>2, FS_CardinalityType
  <1> HIDE DEF n
  <1>4. \A i \in (n + 1)..Len(w) : w[i] \in BOOLEAN
    BY <1>1, <1>3, ElementOfSeq
  <1>5. SubSeq(w, n + 1, Len(w)) \in Seq(BOOLEAN)
    BY <1>1, <1>3, <1>4, SubSeqProperties
  <1>6. Len(SubSeq(w, n + 1, Len(w))) = IF n + 1 <= Len(w) THEN Len(w) - (n + 1) + 1 ELSE 0
    BY <1>1, <1>3, <1>4, SubSeqProperties
  <1>7. Relieved(w) = SubSeq(w, n + 1, Len(w))
    BY DEF Relieved, n
  <1> QED BY <1>1, <1>3, <1>5, <1>6, <1>7

\* What SendTo puts into the window of a peer keeps to the bound.
LEMMA WindowKept ==
    ASSUME WindowTyped, NEW c \in Conns,
           NEW p \in BOOLEAN,
           NEW w, w = IF Fits(window[c]) THEN window[c] ELSE Relieved(window[c])
    PROVE  /\ w \in Seq(BOOLEAN) /\ Len(w) <= options.maxWindow
           /\ Fits(w) => Append(w, p) \in Seq(BOOLEAN) /\ Len(Append(w, p)) <= options.maxWindow
  <1>1. window[c] \in Seq(BOOLEAN) /\ Len(window[c]) <= options.maxWindow
    BY DEF WindowTyped
  <1>2. options.maxWindow \in Nat
    BY HubAssumption DEF WindowTyped
  <1>3. w \in Seq(BOOLEAN) /\ Len(w) <= Len(window[c])
    BY <1>1, RelievedShorter, LenProperties
  <1>4. Len(w) \in Nat /\ Len(window[c]) \in Nat
    BY <1>1, <1>3, LenProperties
  <1>5. Append(w, p) \in Seq(BOOLEAN) /\ Len(Append(w, p)) = Len(w) + 1
    BY <1>3, AppendProperties
  <1> QED BY <1>1, <1>2, <1>3, <1>4, <1>5 DEF Fits

-----------------------------------------------------------------------------
LEMMA LifeStep ==
    ASSUME LifeTyped, HubNext
    PROVE  LifeTyped'
  <1> USE DEF LifeTyped, Stages
  <1>1. ASSUME NEW c \in Conns, OfConn(c)
        PROVE  LifeTyped'
    <2>1. CASE Accept(c)
      BY <2>1 DEF Accept, wire
    <2>2. CASE CheckAgain(c)
      BY <2>2 DEF CheckAgain, Refused, wire
    <2>3. CASE Register(c)
      BY <2>3 DEF Register, Refused, Replaced, wire
    <2>4. CASE Ready(c)
      BY <2>4 DEF Ready, TakeNumber, wire
    <2>9. CASE Drop(c)
      BY <2>9 DEF Drop, wire
    <2>5. CASE SendTo(c) \/ SendRevoked(c)
      BY <2>5 DEF SendTo, SendRevoked
    <2>6. CASE Close(c)
      BY <2>6 DEF Close
    <2>7. CASE OnClose(c)
      BY <2>7 DEF OnClose, wire
    <2>8. CASE WindowMoves(c) \/ Pong(c) \/ SilenceGrows(c)
      BY <2>8 DEF WindowMoves, Pong, SilenceGrows, wire
    <2> QED BY <1>1, <2>1, <2>2, <2>3, <2>4, <2>5, <2>6, <2>7, <2>8, <2>9 DEF OfConn
  <1>2. ASSUME NEW s \in Sessions, OfSession(s)
        PROVE  LifeTyped'
    <2>1. CASE Revoke(s) \/ AskAbout(s)
      BY <2>1 DEF Revoke, AskAbout, wire
    <2>2. CASE NotifyRevoked(s) \/ CloseSession(s)
      BY <2>2 DEF NotifyRevoked, CloseSession, wire
    <2> QED BY <1>2, <2>1, <2>2 DEF OfSession
  <1>3. ASSUME NEW progress \in BOOLEAN, NEW scope \in Scopes, Publish(progress, scope)
        PROVE  LifeTyped'
    BY <1>3 DEF Publish, HubButPublishing, wire
  <1>4. CASE EndPublish \/ Shutdown
    BY <1>4 DEF EndPublish, Shutdown, wire
  <1>5. CASE Heartbeat \/ CloseDead
    BY <1>5 DEF Heartbeat, CloseDead, wire
  <1>6. CASE Restart
    BY <1>6 DEF Restart
  <1> QED BY <1>1, <1>2, <1>3, <1>4, <1>5, <1>6 DEF HubNext

LEMMA PeersStep ==
    ASSUME PeersTyped, HubNext
    PROVE  PeersTyped'
  <1> USE DEF PeersTyped
  <1>1. ASSUME NEW c \in Conns, OfConn(c)
        PROVE  PeersTyped'
    <2>1. CASE Accept(c) \/ Drop(c)
      BY <2>1 DEF Accept, Drop, wire
    <2>2. CASE CheckAgain(c)
      BY <2>2 DEF CheckAgain, Refused, wire
    <2>3. CASE Register(c)
      <3>1. IsFiniteSet(peers \ PeerOf(SessionOf[c]))
        BY FS_Difference
      <3>2. IsFiniteSet((peers \ PeerOf(SessionOf[c])) \cup {c})
        BY <3>1, FS_AddElement
      <3>3. peers' \in {peers, peers \ PeerOf(SessionOf[c]), (peers \ PeerOf(SessionOf[c])) \cup {c}}
        BY <2>3 DEF Register
      <3>4. IsFiniteSet(peers') /\ peers' \subseteq Conns
        BY <3>1, <3>2, <3>3
      <3>5. lastSeq' = lastSeq /\ owed' = owed
        BY <2>3 DEF Register, Refused, wire
      <3> QED BY <2>3, <3>4, <3>5 DEF Register
    <2>4. CASE Ready(c)
      <3>1. sequence' \in Nat /\ publishing' \in [seq: Nat, progress: BOOLEAN, left: SUBSET Conns]
        <4>1. CASE TakeNumber(FALSE, {SessionOf[c]})
          BY <4>1 DEF TakeNumber
        <4> QED BY <2>4, <4>1 DEF Ready
      <3> QED BY <2>4, <3>1 DEF Ready, wire
    <2>5. CASE SendTo(c)
      <3>1. peers' \in {peers, peers \ {c}}
        BY <2>5 DEF SendTo, Unlisted
      <3>2. IsFiniteSet(peers') /\ peers' \subseteq Conns
        BY <3>1, FS_RemoveElement
      <3> QED BY SMTT(30), <2>5, <3>2 DEF SendTo
    <2>6. CASE SendRevoked(c) \/ Close(c)
      BY <2>6 DEF SendRevoked, Close
    <2>7. CASE OnClose(c)
      <3>1. IsFiniteSet(peers') /\ peers' \subseteq Conns
        BY <2>7, FS_RemoveElement DEF OnClose, Same
      <3> QED BY <2>7, <3>1 DEF OnClose, wire
    <2>8. CASE WindowMoves(c) \/ Pong(c) \/ SilenceGrows(c)
      BY <2>8 DEF WindowMoves, Pong, SilenceGrows, wire
    <2> QED BY <1>1, <2>1, <2>2, <2>3, <2>4, <2>5, <2>6, <2>7, <2>8 DEF OfConn
  <1>2. ASSUME NEW s \in Sessions, OfSession(s)
        PROVE  PeersTyped'
    <2>1. CASE Revoke(s) \/ AskAbout(s)
      BY <2>1 DEF Revoke, AskAbout, wire
    <2>2. CASE NotifyRevoked(s)
      <3>1. IsFiniteSet(peers') /\ peers' \subseteq Conns
        BY ZenonT(60), <2>2, FS_Difference DEF NotifyRevoked, Unlisted
      <3>2. sequence' \in Nat
        BY <2>2 DEF NotifyRevoked
      <3>3. owed' \in [Conns -> Nat]
        BY <2>2, <3>2 DEF NotifyRevoked
      <3> QED BY <2>2, <3>1, <3>2, <3>3 DEF NotifyRevoked
    <2>3. CASE CloseSession(s)
      <3>1. IsFiniteSet(peers') /\ peers' \subseteq Conns
        BY ZenonT(60), <2>3, FS_Difference DEF CloseSession, Unlisted
      <3> QED BY <2>3, <3>1 DEF CloseSession, wire
    <2> QED BY <1>2, <2>1, <2>2, <2>3 DEF OfSession
  <1>3. ASSUME NEW progress \in BOOLEAN, NEW scope \in Scopes, Publish(progress, scope)
        PROVE  PeersTyped'
    BY <1>3 DEF Publish, TakeNumber, HubButPublishing, wire
  <1>4. CASE EndPublish
    BY <1>4 DEF EndPublish, NoFrame, wire
  <1>5. CASE Heartbeat \/ CloseDead
    <2>1. \E who : Unlisted(who)
      <3>1. CASE Heartbeat
        BY <3>1 DEF Heartbeat
      <3>2. CASE CloseDead
        BY <3>2 DEF CloseDead
      <3> QED BY <1>5, <3>1, <3>2
    <2>2. PICK who : peers' = peers \ who
      BY <2>1 DEF Unlisted
    <2>3. IsFiniteSet(peers \ who)
      BY FS_Difference
    <2> QED BY <1>5, <2>2, <2>3 DEF Heartbeat, CloseDead, wire
  <1>6. CASE Shutdown
    BY <1>6, FS_EmptySet DEF Shutdown, wire
  <1>7. CASE Restart
    BY <1>7, FS_EmptySet DEF Restart, NoFrame
  <1> QED BY <1>1, <1>2, <1>3, <1>4, <1>5, <1>6, <1>7 DEF HubNext

LEMMA PulseStep ==
    ASSUME PulseTyped, PeersTyped, HubNext
    PROVE  PulseTyped'
  <1> USE DEF PulseTyped, pulse
  <1>1. ASSUME NEW c \in Conns, OfConn(c)
        PROVE  PulseTyped'
    <2>1. CASE Accept(c) \/ CheckAgain(c) \/ Register(c) \/ Ready(c) \/ Drop(c)
      BY <2>1 DEF Accept, CheckAgain, Register, Ready, Drop
    <2>2. CASE SendTo(c) \/ SendRevoked(c) \/ Close(c) \/ WindowMoves(c)
      BY <2>2 DEF SendTo, SendRevoked, Close, WindowMoves
    <2>3. CASE OnClose(c)
      BY <2>3 DEF OnClose
    <2>4. CASE Pong(c) \/ SilenceGrows(c)
      BY <2>4 DEF Pong, SilenceGrows
    <2> QED BY <1>1, <2>1, <2>2, <2>3, <2>4 DEF OfConn
  <1>2. ASSUME NEW s \in Sessions, OfSession(s)
        PROVE  PulseTyped'
    <2>1. CASE Revoke(s) \/ NotifyRevoked(s) \/ CloseSession(s)
      BY <2>1 DEF Revoke, NotifyRevoked, CloseSession
    <2>2. CASE AskAbout(s)
      BY <2>2 DEF AskAbout
    <2> QED BY <1>2, <2>1, <2>2 DEF OfSession
  <1>3. ASSUME NEW progress \in BOOLEAN, NEW scope \in Scopes, Publish(progress, scope)
        PROVE  PulseTyped'
    BY <1>3 DEF Publish, HubButPublishing
  <1>4. CASE EndPublish \/ Shutdown
    BY <1>4 DEF EndPublish, Shutdown
  <1>5. CASE Heartbeat
    <2>1. {SessionOf[c] : c \in {d \in peers : silence[d] = "Due" /\ ~pinged[d]}} \subseteq Sessions
      BY HubAssumption DEF PeersTyped
    <2> QED BY <1>5, <2>1 DEF Heartbeat
  <1>6. CASE CloseDead
    BY <1>6 DEF CloseDead, NoCheck
  <1>7. CASE Restart
    BY <1>7 DEF Restart, NoCheck
  <1> QED BY <1>1, <1>2, <1>3, <1>4, <1>5, <1>6, <1>7 DEF HubNext

LEMMA WindowStep ==
    ASSUME WindowTyped, PeersTyped, HubNext
    PROVE  WindowTyped'
  <1> USE DEF WindowTyped
  <1>1. ASSUME NEW c \in Conns, OfConn(c)
        PROVE  WindowTyped'
    <2>1. CASE Accept(c) \/ CheckAgain(c) \/ Register(c) \/ Ready(c) \/ Drop(c)
      BY <2>1 DEF Accept, CheckAgain, Register, Ready, Drop
    <2>2. CASE SendRevoked(c) \/ Close(c) \/ Pong(c) \/ SilenceGrows(c)
      BY <2>2 DEF SendRevoked, Close, Pong, SilenceGrows
    <2>3. CASE SendTo(c)
      <3> DEFINE w == IF Fits(window[c]) THEN window[c] ELSE Relieved(window[c])
      <3>1. publishing.progress \in BOOLEAN
        BY DEF PeersTyped
      <3>2. /\ w \in Seq(BOOLEAN) /\ Len(w) <= options.maxWindow
            /\ Fits(w) => /\ Append(w, publishing.progress) \in Seq(BOOLEAN)
                          /\ Len(Append(w, publishing.progress)) <= options.maxWindow
        BY <3>1, WindowKept
      <3>3. \/ Fits(w) /\ window' = [window EXCEPT ![c] = Append(w, publishing.progress)]
            \/ window' = [window EXCEPT ![c] = w]
        BY <2>3 DEF SendTo
      <3>4. options' = options
        BY <2>3 DEF SendTo
      <3> HIDE DEF w
      <3> QED BY <3>2, <3>3, <3>4
    <2>4. CASE OnClose(c)
      BY <2>4, HubAssumption DEF OnClose
    <2>5. CASE WindowMoves(c)
      <3>1. Tail(window[c]) \in Seq(BOOLEAN) /\ Len(Tail(window[c])) <= Len(window[c])
        BY <2>5, HeadTailProperties, LenProperties DEF WindowMoves
      <3>2. Len(Tail(window[c])) <= options.maxWindow
        BY <3>1, LenProperties, HubAssumption
      <3> QED BY <2>5, <3>1, <3>2 DEF WindowMoves
    <2> QED BY <1>1, <2>1, <2>2, <2>3, <2>4, <2>5 DEF OfConn
  <1>2. ASSUME NEW s \in Sessions, OfSession(s)
        PROVE  WindowTyped'
    BY <1>2 DEF OfSession, Revoke, AskAbout, NotifyRevoked, CloseSession
  <1>3. ASSUME NEW progress \in BOOLEAN, NEW scope \in Scopes, Publish(progress, scope)
        PROVE  WindowTyped'
    BY <1>3 DEF Publish, HubButPublishing
  <1>4. CASE EndPublish \/ Shutdown \/ Heartbeat \/ CloseDead
    BY <1>4 DEF EndPublish, Shutdown, Heartbeat, CloseDead
  <1>5. CASE Restart
    BY <1>5, HubAssumption DEF Restart
  <1> QED BY <1>1, <1>2, <1>3, <1>4, <1>5 DEF HubNext

LEMMA TypedStep ==
    ASSUME Typed, HubNext
    PROVE  Typed'
  BY LifeStep, PeersStep, PulseStep, WindowStep DEF Typed

-----------------------------------------------------------------------------
\* The registry: room for every peer, and one peer of a session.
LEMMA SeatedStep ==
    ASSUME PeersTyped, WindowTyped, Seated, HubNext
    PROVE  Seated'
  <1>1. options' = options
    <2>1. ASSUME NEW c \in Conns, OfConn(c) PROVE options' = options
      BY <2>1 DEF OfConn, Accept, CheckAgain, Register, Ready, SendTo, SendRevoked, Close, OnClose,
                  WindowMoves, Pong, Drop, SilenceGrows
    <2>2. ASSUME NEW s \in Sessions, OfSession(s) PROVE options' = options
      BY <2>2 DEF OfSession, Revoke, AskAbout, NotifyRevoked, CloseSession
    <2> QED BY <2>1, <2>2 DEF HubNext, Publish, HubButPublishing, EndPublish, Heartbeat, CloseDead,
                              Shutdown, Restart
  <1>2. options.maxPeers \in Nat \ {0}
    BY HubAssumption DEF WindowTyped
  <1>3. CASE peers' \subseteq peers
    <2>1. Cardinality(peers') <= Cardinality(peers) /\ IsFiniteSet(peers')
      BY <1>3, FS_Subset DEF PeersTyped
    <2>2. Cardinality(peers) \in Nat /\ Cardinality(peers') \in Nat
      BY <2>1, FS_CardinalityType DEF PeersTyped
    <2> QED BY <1>1, <1>2, <1>3, <2>1, <2>2 DEF Seated
  <1>4. ASSUME NEW c \in Conns,
               Admits(peers \ PeerOf(SessionOf[c])), peers' = (peers \ PeerOf(SessionOf[c])) \cup {c}
        PROVE  Seated'
    <2> DEFINE rest == peers \ PeerOf(SessionOf[c])
    <2>1. IsFiniteSet(rest)
      BY FS_Difference DEF PeersTyped
    <2>2. Cardinality(rest) \in Nat /\ Cardinality(rest) < options.maxPeers
      BY <1>2, <1>4, <2>1, FS_CardinalityType DEF Admits, Full
    <2>3. Cardinality(rest \cup {c}) <= Cardinality(rest) + 1 /\ Cardinality(rest \cup {c}) \in Nat
      BY SMTT(30), <2>1, <2>2, FS_AddElement, FS_CardinalityType
    <2>4. Cardinality(peers') <= options.maxPeers
      BY <1>2, <1>4, <2>2, <2>3
    <2>5. \A d, e \in peers' : SessionOf[d] = SessionOf[e] => d = e
      BY <1>4 DEF Seated, PeerOf
    <2> QED BY <1>1, <2>4, <2>5 DEF Seated
  <1>5. \/ peers' \subseteq peers
        \/ \E c \in Conns : /\ Admits(peers \ PeerOf(SessionOf[c]))
                            /\ peers' = (peers \ PeerOf(SessionOf[c])) \cup {c}
    <2>1. ASSUME NEW c \in Conns, OfConn(c)
          PROVE  \/ peers' \subseteq peers
                 \/ /\ Admits(peers \ PeerOf(SessionOf[c]))
                    /\ peers' = (peers \ PeerOf(SessionOf[c])) \cup {c}
      <3>1. CASE Register(c)
        BY <3>1 DEF Register
      <3>2. CASE SendTo(c) \/ OnClose(c)
        BY <3>2 DEF SendTo, OnClose, Unlisted
      <3> QED BY <2>1, <3>1, <3>2
              DEF OfConn, Accept, CheckAgain, Ready, SendRevoked, Close, WindowMoves, Pong, Drop,
                  SilenceGrows
    <2>2. ASSUME NEW s \in Sessions, OfSession(s) PROVE peers' \subseteq peers
      BY <2>2 DEF OfSession, Revoke, AskAbout, NotifyRevoked, CloseSession, Unlisted
    <2> QED BY <2>1, <2>2 DEF HubNext, Publish, HubButPublishing, EndPublish, Heartbeat, CloseDead,
                              Shutdown, Restart, Unlisted
  <1> QED BY <1>3, <1>4, <1>5

\* A session that is dead to the hub does not come to life.
LEMMA DeadStep ==
    ASSUME DeadAreDead, HubNext
    PROVE  DeadAreDead' /\ valid' \subseteq valid
  <1> USE DEF DeadAreDead
  <1>1. ASSUME NEW c \in Conns, OfConn(c) PROVE DeadAreDead' /\ valid' = valid
    BY <1>1 DEF OfConn, Accept, CheckAgain, Register, Ready, SendTo, SendRevoked, Close, OnClose,
                WindowMoves, Pong, Drop, SilenceGrows, pulse
  <1>2. ASSUME NEW s \in Sessions, OfSession(s) PROVE DeadAreDead' /\ valid' \subseteq valid
    <2>1. CASE Revoke(s)
      BY <2>1 DEF Revoke, pulse
    <2>2. CASE AskAbout(s)
      BY <2>2 DEF AskAbout, Alive
    <2>3. CASE NotifyRevoked(s) \/ CloseSession(s)
      BY <2>3 DEF NotifyRevoked, CloseSession, pulse
    <2> QED BY <1>2, <2>1, <2>2, <2>3 DEF OfSession
  <1>3. CASE Heartbeat \/ CloseDead \/ Restart
    BY <1>3 DEF Heartbeat, CloseDead, Restart, NoCheck
  <1>4. CASE EndPublish \/ Shutdown \/ \E p \in BOOLEAN, scope \in Scopes : Publish(p, scope)
    BY <1>4 DEF EndPublish, Shutdown, Publish, HubButPublishing, pulse
  <1> QED BY <1>1, <1>2, <1>3, <1>4 DEF HubNext

-----------------------------------------------------------------------------
\* A registration is not refused at the expense of the session's own peer:
\* when that gives way there is room.
LEMMA NobodyDropped ==
    ASSUME PeersTyped, WindowTyped, Seated, hubOpen,
           NEW c \in Conns, ~Admits(peers \ PeerOf(SessionOf[c]))
    PROVE  PeerOf(SessionOf[c]) = {}
  <1> DEFINE rest == peers \ PeerOf(SessionOf[c])
  <1>1. options.maxPeers \in Nat
    BY HubAssumption DEF WindowTyped
  <1>2. Cardinality(rest) >= options.maxPeers
    BY DEF Admits, Full
  <1>3. /\ IsFiniteSet(rest) /\ Cardinality(rest) <= Cardinality(peers)
        /\ Cardinality(peers) = Cardinality(rest) => peers = rest
    BY FS_Subset DEF PeersTyped
  <1>4. Cardinality(rest) \in Nat /\ Cardinality(peers) \in Nat
    BY <1>3, FS_CardinalityType DEF PeersTyped
  <1>5. Cardinality(peers) <= options.maxPeers
    BY DEF Seated
  <1> HIDE DEF rest
  <1>6. peers = rest
    BY <1>1, <1>2, <1>3, <1>4, <1>5
  <1> QED BY <1>6 DEF PeerOf, rest

\* What a step does to one connection: it comes nearer to being a peer, it is
\* a peer, or it is about to be closed.
LEMMA HandledStep ==
    ASSUME LifeTyped, PeersTyped, WindowTyped, Seated, Publishing,
           NEW d \in Conns, Handled(d), HubNext
    PROVE  Handled(d)'
  <1> USE DEF LifeTyped, PeersTyped, Handled, Early, Connected
  <1>1. ASSUME NEW c \in Conns, OfConn(c)
        PROVE  Handled(d)'
    <2>1. CASE Accept(c)
      BY <2>1 DEF Accept, wire
    <2>2. CASE CheckAgain(c)
      BY <2>2 DEF CheckAgain, Refused, wire
    <2>3. CASE Register(c)
      <3> DEFINE rest == peers \ PeerOf(SessionOf[c])
      <3>1. CASE Admits(rest)
        <4>1. /\ peers' = rest \cup {c} /\ Replaced(c) /\ stage' = [stage EXCEPT ![c] = "Registered"]
              /\ UNCHANGED <<wire, hubOpen>> /\ stage[c] = "Checked"
          BY <2>3, <3>1 DEF Register
        <4>2. closeCode'[d] = IF d \in PeerOf(SessionOf[c]) THEN 1001 ELSE closeCode[d]
          BY <4>1 DEF Replaced
        <4>3. owed' = owed /\ lastSeq' = lastSeq /\ ended' = ended /\ hubOpen' = hubOpen
          BY <4>1 DEF wire
        <4>4. CASE d = c
          BY <4>1, <4>2, <4>3, <4>4 DEF PeerOf
        <4>5. CASE d # c
          <5>1. d \in peers' <=> d \in peers /\ d \notin PeerOf(SessionOf[c])
            BY <4>1, <4>5
          <5>2. stage'[d] = stage[d]
            BY <4>1, <4>5
          <5>3. closeCode'[d] = closeCode[d] \/ (closeCode'[d] = 1001 /\ d \notin peers' /\ d \in peers)
            BY <4>2, <5>1 DEF PeerOf
          <5> QED BY <4>2, <4>3, <5>1, <5>2, <5>3
        <4> QED BY <4>4, <4>5
      <3>2. CASE ~Admits(rest)
        <4>1. /\ peers' = IF hubOpen THEN rest ELSE peers
              /\ Refused(c) /\ UNCHANGED <<closeCode, hubOpen>> /\ stage[c] = "Checked"
          BY <2>3, <3>2 DEF Register
        <4>2. CASE hubOpen
          <5> HIDE DEF LifeTyped, PeersTyped, Handled
          <5>1. PeerOf(SessionOf[c]) = {}
            BY <3>2, <4>2, NobodyDropped
          <5> QED BY <4>1, <4>2, <5>1 DEF Refused, LifeTyped, PeersTyped, Handled
        <4>3. CASE ~hubOpen
          <5>1. peers' = peers /\ ~hubOpen' /\ closeCode' = closeCode
            BY <4>1, <4>3
          <5>2. /\ stage' = [stage EXCEPT ![c] = "Closed"] /\ ended' = [ended EXCEPT ![c] = "Closed"]
                /\ owed' = owed /\ lastSeq' = lastSeq
            BY <4>1 DEF Refused
          <5> QED BY <4>1, <5>1, <5>2
        <4> QED BY <4>2, <4>3
      <3> QED BY <3>1, <3>2
    <2>4. CASE Ready(c)
      <3>1. stage'[d] = IF d = c THEN "Open" ELSE stage[d]
        BY <2>4 DEF Ready
      <3>2. stage[c] = "Registered" /\ UNCHANGED <<peers, closeCode, owed, lastSeq, ended, hubOpen>>
        BY <2>4 DEF Ready, wire
      <3> QED BY <3>1, <3>2
    <2>5. CASE SendTo(c)
      BY <2>5 DEF SendTo, Unlisted, Publishing
    <2>6. CASE SendRevoked(c)
      BY <2>6 DEF SendRevoked
    <2>7. CASE Close(c)
      BY <2>7 DEF Close
    <2>8. CASE OnClose(c)
      BY <2>8 DEF OnClose, Same, wire
    <2>9. CASE WindowMoves(c) \/ Pong(c) \/ SilenceGrows(c)
      BY <2>9 DEF WindowMoves, Pong, SilenceGrows, wire
    <2>10. CASE Drop(c)
      BY <2>10 DEF Drop, wire
    <2> QED BY <1>1, <2>1, <2>2, <2>3, <2>4, <2>5, <2>6, <2>7, <2>8, <2>9, <2>10 DEF OfConn
  <1>2. ASSUME NEW s \in Sessions, OfSession(s)
        PROVE  Handled(d)'
    <2>1. CASE Revoke(s) \/ AskAbout(s)
      BY <2>1 DEF Revoke, AskAbout, wire
    <2>2. CASE NotifyRevoked(s)
      BY <2>2 DEF NotifyRevoked, Unlisted, PeerOf
    <2>3. CASE CloseSession(s)
      BY <2>3 DEF CloseSession, Unlisted, PeerOf, wire
    <2> QED BY <1>2, <2>1, <2>2, <2>3 DEF OfSession
  <1>3. ASSUME NEW progress \in BOOLEAN, NEW scope \in Scopes, Publish(progress, scope)
        PROVE  Handled(d)'
    BY <1>3 DEF Publish, HubButPublishing, wire
  <1>4. CASE EndPublish \/ Shutdown
    BY <1>4 DEF EndPublish, Shutdown, wire
  <1>5. CASE Heartbeat
    BY <1>5 DEF Heartbeat, Unlisted, wire
  <1>6. CASE CloseDead
    BY <1>6 DEF CloseDead, Unlisted, wire
  <1>7. CASE Restart
    BY <1>7 DEF Restart
  <1> QED BY <1>1, <1>2, <1>3, <1>4, <1>5, <1>6, <1>7 DEF HubNext

LEMMA CausedStep ==
    ASSUME LifeTyped, PeersTyped, PulseTyped, DeadAreDead,
           NEW d \in Conns, Handled(d), Caused(d), HubNext
    PROVE  Caused(d)'
  <1> USE DEF LifeTyped, PeersTyped, PulseTyped, Caused, Connected, pulse
  <1>1. ASSUME NEW c \in Conns, OfConn(c)
        PROVE  Caused(d)'
    <2>1. CASE Accept(c)
      BY <2>1 DEF Accept
    <2>2. CASE CheckAgain(c)
      BY <2>2 DEF CheckAgain, Refused
    <2>3. CASE Register(c)
      BY <2>3 DEF Register, Refused, Replaced, PeerOf, Handled, Early
    <2>4. CASE Ready(c)
      BY <2>4 DEF Ready
    <2>5. CASE SendTo(c)
      BY <2>5 DEF SendTo
    <2>6. CASE SendRevoked(c) \/ WindowMoves(c)
      BY <2>6 DEF SendRevoked, WindowMoves
    <2>7. CASE Close(c)
      BY <2>7 DEF Close
    <2>8. CASE OnClose(c)
      BY <2>8 DEF OnClose
    <2>9. CASE Pong(c)
      BY <2>9 DEF Pong, Heard, Handled
    <2>10. CASE SilenceGrows(c)
      BY <2>10 DEF SilenceGrows, Handled
    <2>11. CASE Drop(c)
      BY <2>11 DEF Drop
    <2> QED BY <1>1, <2>1, <2>2, <2>3, <2>4, <2>5, <2>6, <2>7, <2>8, <2>9, <2>10, <2>11 DEF OfConn
  <1>2. ASSUME NEW s \in Sessions, OfSession(s)
        PROVE  Caused(d)'
    <2>1. CASE Revoke(s)
      BY <2>1 DEF Revoke
    <2>2. CASE AskAbout(s)
      BY <2>2 DEF AskAbout
    <2>3. CASE NotifyRevoked(s)
      BY <2>3 DEF NotifyRevoked, PeerOf, DeadAreDead
    <2>4. CASE CloseSession(s)
      BY <2>4 DEF CloseSession, PeerOf, DeadAreDead
    <2> QED BY <1>2, <2>1, <2>2, <2>3, <2>4 DEF OfSession
  <1>3. ASSUME NEW progress \in BOOLEAN, NEW scope \in Scopes, Publish(progress, scope)
        PROVE  Caused(d)'
    BY <1>3 DEF Publish, HubButPublishing
  <1>4. CASE EndPublish \/ Shutdown
    BY <1>4 DEF EndPublish, Shutdown
  <1>5. CASE Heartbeat
    BY <1>5 DEF Heartbeat
  <1>6. CASE CloseDead
    BY <1>6 DEF CloseDead, DeadAreDead
  <1>7. CASE Restart
    BY <1>7 DEF Restart
  <1> QED BY <1>1, <1>2, <1>3, <1>4, <1>5, <1>6, <1>7 DEF HubNext

\* Only a peer is in the middle of being published to.
LEMMA PublishingStep ==
    ASSUME PeersTyped, Publishing, HubNext
    PROVE  Publishing'
  <1> USE DEF PeersTyped, Publishing
  <1>1. ASSUME NEW c \in Conns, OfConn(c)
        PROVE  Publishing'
    <2>1. CASE Accept(c) \/ CheckAgain(c) \/ Drop(c) \/ SendRevoked(c) \/ Close(c)
      BY <2>1 DEF Accept, CheckAgain, Drop, SendRevoked, Close
    <2>2. CASE Register(c)
      BY <2>2 DEF Register, HubFree, NoFrame
    <2>3. CASE Ready(c)
      <3>1. CASE TakeNumber(FALSE, {SessionOf[c]})
        BY <2>3, <3>1 DEF Ready, TakeNumber
      <3> QED BY <2>3, <3>1 DEF Ready
    <2>4. CASE SendTo(c)
      BY <2>4 DEF SendTo, Unlisted
    <2>5. CASE OnClose(c)
      BY <2>5 DEF OnClose, HubFree, NoFrame
    <2>6. CASE WindowMoves(c) \/ Pong(c) \/ SilenceGrows(c)
      BY <2>6 DEF WindowMoves, Pong, SilenceGrows
    <2> QED BY <1>1, <2>1, <2>2, <2>3, <2>4, <2>5, <2>6 DEF OfConn
  <1>2. ASSUME NEW s \in Sessions, OfSession(s)
        PROVE  Publishing'
    <2>1. CASE Revoke(s) \/ AskAbout(s)
      BY <2>1 DEF Revoke, AskAbout
    <2>2. CASE NotifyRevoked(s) \/ CloseSession(s)
      BY <2>2 DEF NotifyRevoked, CloseSession, HubFree, NoFrame
    <2> QED BY <1>2, <2>1, <2>2 DEF OfSession
  <1>3. ASSUME NEW progress \in BOOLEAN, NEW scope \in Scopes, Publish(progress, scope)
        PROVE  Publishing'
    BY <1>3 DEF Publish, TakeNumber, HubButPublishing
  <1>4. CASE EndPublish \/ Restart
    BY <1>4 DEF EndPublish, Restart, NoFrame
  <1>5. CASE Heartbeat \/ CloseDead \/ Shutdown
    BY <1>5 DEF Heartbeat, CloseDead, Shutdown, HubFree, NoFrame
  <1> QED BY <1>1, <1>2, <1>3, <1>4, <1>5 DEF HubNext

\* What a client has seen is below what is on its way to it.
LEMMA NumberedStep ==
    ASSUME LifeTyped, PeersTyped, Publishing, NEW d \in Conns, Handled(d), Numbered(d), HubNext
    PROVE  Numbered(d)'
  <1> USE DEF LifeTyped, PeersTyped, Numbered, Connected
  <1>1. ASSUME NEW c \in Conns, OfConn(c)
        PROVE  Numbered(d)'
    <2>1. CASE Accept(c)
      BY <2>1 DEF Accept, wire
    <2>2. CASE CheckAgain(c)
      BY <2>2 DEF CheckAgain, Refused, wire
    <2>3. CASE Register(c)
      <3>1. publishing.left = {} /\ publishing' = publishing /\ sequence' = sequence
        BY <2>3 DEF Register, HubFree, NoFrame
      <3>2. owed' = owed /\ lastSeq' = lastSeq
        BY <2>3 DEF Register, Refused, wire
      <3>3. CASE d = c
        BY <2>3, <3>1, <3>2, <3>3 DEF Register, Handled, Early
      <3>4. CASE d # c
        BY <2>3, <3>1, <3>2, <3>4 DEF Register, Refused, wire
      <3> QED BY <3>3, <3>4
    <2>4. CASE Ready(c)
      <3>1. stage'[d] = IF d = c THEN "Open" ELSE stage[d]
        BY <2>4 DEF Ready
      <3>2. stage[c] = "Registered" /\ owed' = owed /\ lastSeq' = lastSeq /\ ended' = ended
        BY <2>4 DEF Ready, wire
      <3>3. \/ sequence' = sequence + 1 /\ publishing'.seq = sequence + 1
            \/ sequence' = sequence /\ publishing' = publishing
        BY <2>4 DEF Ready, TakeNumber
      <3>4. Connected(d)' => Connected(d)
        BY <3>1, <3>2
      <3>5. CASE sequence' = sequence + 1 /\ publishing'.seq = sequence + 1
        BY <3>2, <3>4, <3>5
      <3>6. CASE sequence' = sequence /\ publishing' = publishing
        BY <3>2, <3>4, <3>6
      <3> QED BY <3>3, <3>5, <3>6
    <2>5. CASE SendTo(c)
      <3>1. publishing' = [publishing EXCEPT !.left = @ \ {c}] /\ c \in publishing.left
        BY <2>5 DEF SendTo
      <3>2. UNCHANGED <<stage, owed, ended, sequence>>
        BY <2>5 DEF SendTo
      <3>3. lastSeq' = lastSeq \/ lastSeq' = [lastSeq EXCEPT ![c] = IF Connected(c) THEN publishing.seq ELSE @]
        BY <2>5 DEF SendTo
      <3>4. d \in publishing.left => owed[d] = 0
        BY DEF Publishing, Handled
      <3> QED BY <3>1, <3>2, <3>3, <3>4 DEF Publishing
    <2>6. CASE SendRevoked(c)
      BY <2>6 DEF SendRevoked, Publishing, Handled
    <2>7. CASE Close(c)
      BY <2>7 DEF Close
    <2>8. CASE OnClose(c)
      BY <2>8 DEF OnClose, wire
    <2>9. CASE WindowMoves(c) \/ Pong(c) \/ SilenceGrows(c)
      BY <2>9 DEF WindowMoves, Pong, SilenceGrows, wire
    <2>10. CASE Drop(c)
      BY <2>10 DEF Drop, wire
    <2> QED BY <1>1, <2>1, <2>2, <2>3, <2>4, <2>5, <2>6, <2>7, <2>8, <2>9, <2>10 DEF OfConn
  <1>2. ASSUME NEW s \in Sessions, OfSession(s)
        PROVE  Numbered(d)'
    <2>1. CASE Revoke(s) \/ AskAbout(s)
      BY <2>1 DEF Revoke, AskAbout, wire
    <2>2. CASE NotifyRevoked(s)
      <3>1. publishing.left = {} /\ UNCHANGED <<publishing, stage, lastSeq, ended>>
        BY <2>2 DEF NotifyRevoked, HubFree, NoFrame
      <3>2. CASE d \in PeerOf(s)
        <4>1. sequence' = sequence + 1 /\ owed'[d] = sequence'
          BY <2>2, <3>2 DEF NotifyRevoked
        <4>2. ended[d] = "No"
          BY <3>2 DEF PeerOf, Handled
        <4> QED BY <3>1, <4>1, <4>2
      <3>3. CASE d \notin PeerOf(s)
        <4>1. sequence' \in {sequence, sequence + 1} /\ owed'[d] = owed[d]
          BY <2>2, <3>3 DEF NotifyRevoked
        <4> QED BY <3>1, <4>1
      <3> QED BY <3>2, <3>3
    <2>3. CASE CloseSession(s)
      BY <2>3 DEF CloseSession, wire
    <2> QED BY <1>2, <2>1, <2>2, <2>3 DEF OfSession
  <1>3. ASSUME NEW progress \in BOOLEAN, NEW scope \in Scopes, Publish(progress, scope)
        PROVE  Numbered(d)'
    BY <1>3 DEF Publish, TakeNumber, HubButPublishing, wire
  <1>4. CASE EndPublish
    BY <1>4 DEF EndPublish, NoFrame, wire
  <1>5. CASE Heartbeat \/ CloseDead \/ Shutdown
    BY <1>5 DEF Heartbeat, CloseDead, Shutdown, wire
  <1>6. CASE Restart
    BY <1>6 DEF Restart
  <1> QED BY <1>1, <1>2, <1>3, <1>4, <1>5, <1>6 DEF HubNext

-----------------------------------------------------------------------------
LEMMA HubStep ==
    ASSUME HubInv, HubNext
    PROVE  HubInv'
  BY TypedStep, SeatedStep, DeadStep, PublishingStep, HandledStep, CausedStep, NumberedStep
     DEF HubInv, Typed

LEMMA HubQuiet ==
    ASSUME HubInv, UNCHANGED hubVars
    PROVE  HubInv'
  <1>1. UNCHANGED <<valid, stage, peers, closeCode, inClose, publishing, sequence, window>>
    BY DEF hubVars
  <1>2. UNCHANGED <<silence, pinged, check, notices, owed, lastSeq, ended, hubOpen, options>>
    BY DEF hubVars
  <1>3. LifeTyped' /\ PeersTyped' /\ PulseTyped' /\ WindowTyped'
    BY <1>1, <1>2 DEF HubInv, Typed, LifeTyped, PeersTyped, PulseTyped, WindowTyped
  <1>4. Seated' /\ DeadAreDead' /\ Publishing'
    BY <1>1, <1>2 DEF HubInv, Seated, DeadAreDead, Publishing
  <1>5. ASSUME NEW c \in Conns PROVE (Handled(c) /\ Caused(c) /\ Numbered(c))'
    BY <1>1, <1>2 DEF HubInv, Handled, Caused, Numbered, Early, Connected
  <1> QED BY <1>3, <1>4, <1>5 DEF HubInv, Typed

LEMMA HubStarts ==
    Init => HubInv
  <1> SUFFICES ASSUME Init PROVE HubInv
    OBVIOUS
  <1> USE DEF Init, HubInit
  <1>1. LifeTyped /\ PulseTyped
    BY DEF LifeTyped, PulseTyped, Stages, NoCheck
  <1>2. PeersTyped
    BY FS_EmptySet DEF PeersTyped, NoFrame
  <1>3. WindowTyped
    BY HubAssumption DEF WindowTyped
  <1>4. Seated
    <2>1. options.maxPeers \in Nat
      BY HubAssumption
    <2> QED BY <2>1, FS_EmptySet DEF Seated
  <1>5. DeadAreDead /\ Publishing
    BY DEF DeadAreDead, Publishing, NoCheck, NoFrame
  <1>6. ASSUME NEW c \in Conns PROVE Handled(c) /\ Caused(c) /\ Numbered(c)
    BY DEF Handled, Caused, Numbered, Early, Connected
  <1> QED BY <1>1, <1>2, <1>3, <1>4, <1>5, <1>6 DEF HubInv, Typed

-----------------------------------------------------------------------------
\* The outbox.  Nothing but its own steps and the end of the process moves it.
OutboxNext ==
    \/ \E e \in Ids : Commit(e) \/ BackoffOver(e)
    \/ Poll \/ ProcessRow \/ StartMarking \/ MarkDead \/ MarkDelivered \/ EndPass
    \/ RowFails \/ MarkFails \/ HubShutdown \/ Restart

LEMMA OutboxMoves ==
    ASSUME [Next]_vars
    PROVE  OutboxNext \/ UNCHANGED outboxVars
  BY DEF Next, OutboxNext, Pass, vars

LEMMA SceneStep ==
    ASSUME SceneTyped, OutboxNext
    PROVE  SceneTyped'
  <1> USE OutboxAssumption DEF SceneTyped
  <1>1. scene' = scene
    BY DEF OutboxNext, Commit, BackoffOver, Poll, ProcessRow, StartMarking, MarkDead, MarkDelivered,
           EndPass, RowFails, MarkFails, HubShutdown, Restart, run
  <1>2. scene.failures \in Nat /\ scene.ends \in Nat
    OBVIOUS
  <1>3. CASE RowFails \/ MarkFails
    BY <1>1, <1>2, <1>3 DEF RowFails, MarkFails
  <1>4. CASE HubShutdown
    BY <1>1, <1>2, <1>4 DEF HubShutdown
  <1>5. CASE Restart
    BY <1>1, <1>2, <1>5 DEF Restart
  <1>6. CASE UNCHANGED <<failures, ends>>
    BY <1>1, <1>6
  <1>7. RowFails \/ MarkFails \/ HubShutdown \/ Restart \/ UNCHANGED <<failures, ends>>
    BY DEF OutboxNext, Commit, BackoffOver, Poll, ProcessRow, StartMarking, MarkDead, MarkDelivered,
           EndPass, run
  <1> QED BY <1>3, <1>4, <1>5, <1>6, <1>7

\* A poll takes pending rows, each of them once, and no more than the limit.
LEMMA PollTakes ==
    ASSUME Poll
    PROVE  /\ batch' \in Seq(Pollable) /\ Len(batch') <= BatchLimit
           /\ \A i, j \in DOMAIN batch' : batch'[i] = batch'[j] => i = j
  <1> DEFINE n == Min({BatchLimit, Cardinality(Pollable)})
  <1>1. IsFiniteSet(Pollable)
    <2>1. IsFiniteSet(Ids)
      BY FS_Interval, OutboxAssumption DEF Ids
    <2>2. Pollable \in SUBSET Ids
      BY DEF Pollable
    <2> QED BY <2>1, <2>2, FS_Subset
  <1>2. Cardinality(Pollable) \in Nat /\ BatchLimit \in Nat
    BY <1>1, FS_CardinalityType, OutboxAssumption
  <1>3. \E x \in {BatchLimit, Cardinality(Pollable)} :
            \A y \in {BatchLimit, Cardinality(Pollable)} : x <= y
    BY <1>2
  <1>4. n \in Nat /\ n <= BatchLimit
    BY <1>2, <1>3 DEF Min
  <1> HIDE DEF n
  <1>5. PICK q \in [1..n -> Pollable] : FirstRows(q) /\ batch' = q
    BY DEF Poll, n
  <1>6. q \in Seq(Pollable) /\ Len(q) = n
    BY <1>4, <1>5
  <1>7. \A i, j \in 1..n : i < j => q[i] < q[j]
    BY <1>5 DEF FirstRows
  <1>8. \A i \in 1..n : q[i] \in Int
    BY <1>5, OutboxAssumption DEF Pollable, Ids
  <1>9. \A i, j \in 1..n : q[i] = q[j] => i = j
    BY <1>4, <1>7, <1>8
  <1> QED BY <1>4, <1>5, <1>6, <1>9

LEMMA PassStep ==
    ASSUME PassTyped, OutboxNext
    PROVE  PassTyped'
  <1> USE DEF PassTyped
  <1>1. CASE Poll
    <2>1. Pollable \subseteq Ids
      BY DEF Pollable
    <2>2. batch' \in Seq(Ids) /\ Len(batch') <= BatchLimit
      BY <1>1, <2>1, PollTakes, SeqMonotonic
    <2> QED BY <1>1, <2>2 DEF Poll
  <1>2. CASE ProcessRow \/ RowFails
    <2>1. /\ Head(batch) \in Ids /\ Tail(batch) \in Seq(Ids)
          /\ Len(Tail(batch)) = Len(batch) - 1 /\ Len(batch) \in Nat
      BY <1>2, HeadTailProperties, LenProperties DEF ProcessRow, RowFails
    <2>2. batch' = Tail(batch) /\ pass' = pass
      BY <1>2 DEF ProcessRow, RowFails
    <2>3. deliveredIds' \in {deliveredIds, Append(deliveredIds, Head(batch))}
      BY <1>2 DEF ProcessRow, RowFails
    <2>4. deadIds' \in {deadIds, Append(deadIds, Head(batch))}
      BY <1>2 DEF ProcessRow, RowFails
    <2>5. deliveredIds' \in Seq(Ids) /\ deadIds' \in Seq(Ids)
      <3>1. /\ Append(deliveredIds, Head(batch)) \in Seq(Ids)
            /\ Append(deadIds, Head(batch)) \in Seq(Ids)
        BY <2>1, AppendProperties
      <3> QED BY <2>3, <2>4, <3>1
    <2>6. Len(batch') <= BatchLimit
      BY <2>1, <2>2, OutboxAssumption
    <2> QED BY <2>1, <2>2, <2>5, <2>6
  <1>3. CASE MarkDead
    <2>1. Tail(deadIds) \in Seq(Ids)
      BY <1>3, HeadTailProperties DEF MarkDead
    <2> QED BY <1>3, <2>1 DEF MarkDead
  <1>4. CASE MarkDelivered
    <2>1. Tail(deliveredIds) \in Seq(Ids)
      BY <1>4, HeadTailProperties DEF MarkDelivered
    <2> QED BY <1>4, <2>1 DEF MarkDelivered
  <1>5. CASE StartMarking \/ EndPass
    BY <1>5 DEF StartMarking, EndPass
  <1>7. CASE MarkFails \/ Restart
    <2>1. <<>> \in Seq(Ids) /\ Len(<<>>) <= BatchLimit
      BY OutboxAssumption
    <2> QED BY <1>7, <2>1 DEF MarkFails, Restart
  <1>6. CASE HubShutdown \/ \E e \in Ids : Commit(e) \/ BackoffOver(e)
    BY <1>6 DEF HubShutdown, Commit, BackoffOver
  <1> QED BY <1>1, <1>2, <1>3, <1>4, <1>5, <1>6, <1>7 DEF OutboxNext

\* The members of a sequence that grew by one, or lost its first.
LEMMA Appended ==
    ASSUME NEW q \in Seq(Ids), NEW e \in Ids
    PROVE  \A i \in DOMAIN Append(q, e) : Append(q, e)[i] = e \/ (i \in DOMAIN q /\ Append(q, e)[i] = q[i])
  BY AppendProperties, LenProperties

LEMMA Dropped ==
    ASSUME NEW q \in Seq(Ids), q # <<>>
    PROVE  \A i \in DOMAIN Tail(q) : \E j \in DOMAIN q : Tail(q)[i] = q[j]
  <1>1. /\ Tail(q) \in Seq(Ids) /\ Len(Tail(q)) = Len(q) - 1 /\ Len(q) \in Nat
        /\ \A i \in 1..Len(Tail(q)) : Tail(q)[i] = q[i + 1]
    BY HeadTailProperties, LenProperties
  <1>2. DOMAIN Tail(q) = 1..Len(Tail(q)) /\ DOMAIN q = 1..Len(q)
    BY <1>1, LenProperties
  <1> QED BY <1>1, <1>2

LEMMA AtFront ==
    ASSUME NEW q \in Seq(Ids), q # <<>>
    PROVE  Head(q) \in Ids /\ \E i \in DOMAIN q : Head(q) = q[i]
  BY EmptySeq, HeadTailProperties, LenProperties

\* The row that a pass is at.
LEMMA AtHead ==
    ASSUME PassTyped, Batched, batch # <<>>
    PROVE  /\ Head(batch) \in Ids /\ status[Head(batch)] = "Pending" /\ pass = "Processing"
           /\ \A i \in DOMAIN Tail(batch) : i + 1 \in DOMAIN batch /\ Tail(batch)[i] = batch[i + 1]
           /\ \A i \in DOMAIN Tail(batch) : Tail(batch)[i] # Head(batch)
  <1>1. batch \in Seq(Ids) /\ Len(batch) \in Nat \ {0}
    BY EmptySeq DEF PassTyped
  <1>2. /\ Head(batch) = batch[1] /\ Head(batch) \in Ids /\ Tail(batch) \in Seq(Ids)
        /\ Len(Tail(batch)) = Len(batch) - 1
        /\ \A i \in 1..Len(Tail(batch)) : Tail(batch)[i] = batch[i + 1]
    BY <1>1, HeadTailProperties
  <1>3. 1 \in DOMAIN batch /\ DOMAIN Tail(batch) = 1..Len(Tail(batch))
    BY <1>1, <1>2, LenProperties
  <1>4. \A i \in DOMAIN Tail(batch) : i + 1 \in DOMAIN batch /\ i + 1 # 1
    BY <1>1, <1>2, <1>3, LenProperties
  <1> QED BY <1>2, <1>3, <1>4 DEF Batched

LEMMA TailOnce ==
    ASSUME PassTyped, Batched, batch # <<>>
    PROVE  \A i, j \in DOMAIN Tail(batch) : Tail(batch)[i] = Tail(batch)[j] => i = j
  <1>1. DOMAIN Tail(batch) \subseteq Nat
    BY HeadTailProperties, LenProperties DEF PassTyped
  <1> QED BY <1>1, AtHead DEF Batched

LEMMA RowsStep ==
    ASSUME RowsTyped, PassTyped, Batched, \A e \in Ids : RowAt(e), OutboxNext
    PROVE  RowsTyped'
  <1> USE DEF RowsTyped
  <1>1. ASSUME NEW e \in Ids, Commit(e) \/ BackoffOver(e) PROVE RowsTyped'
    BY <1>1 DEF Commit, BackoffOver, run
  <1>2. CASE Poll \/ StartMarking
    BY <1>2 DEF Poll, StartMarking, rows, run
  <1>3. CASE ProcessRow
    <2>1. Head(batch) \in Ids
      BY <1>3, AtHead DEF ProcessRow
    <2>2. publishedThisRun' \subseteq Ids /\ everSent' \subseteq Ids
      BY <1>3, <2>1 DEF ProcessRow
    <2>3. sent' \in {sent, [sent EXCEPT ![Head(batch)] = IF hubOpen THEN @ + 1 ELSE @]}
      BY <1>3 DEF ProcessRow
    <2>4. sent' \in [Ids -> Nat]
      BY <2>1, <2>3
    <2> QED BY <1>3, <2>2, <2>4 DEF ProcessRow, rows
  <1>4. CASE RowFails
    <2>1. Head(batch) \in Ids /\ status[Head(batch)] = "Pending"
      BY <1>4, AtHead DEF RowFails
    <2>2. attempts[Head(batch)] + 1 \in 0..MaxAttempts
      BY <2>1, OutboxAssumption DEF RowAt
    <2>3. CASE Attempted(Head(batch))
      BY <1>4, <2>1, <2>2, <2>3 DEF Attempted, RowFails
    <2>4. CASE UNCHANGED rows
      BY <1>4, <2>4 DEF RowFails, rows
    <2> QED BY <1>4, <2>3, <2>4 DEF RowFails
  <1>5. CASE MarkDead
    BY <1>5 DEF MarkDead, run
  <1>6. CASE MarkDelivered
    BY <1>6 DEF MarkDelivered, run
  <1>7. CASE EndPass \/ MarkFails
    BY <1>7 DEF EndPass, MarkFails, Forgotten, Remembered, rows, run
  <1>8. CASE HubShutdown \/ Restart
    BY <1>8 DEF HubShutdown, Restart, rows
  <1> QED BY <1>1, <1>2, <1>3, <1>4, <1>5, <1>6, <1>7, <1>8 DEF OutboxNext

\* The batch holds pending rows, each once, until the pass has been at them.
LEMMA BatchedStep ==
    ASSUME RowsTyped, PassTyped, Batched, OutboxNext
    PROVE  Batched'
  <1>1. ASSUME NEW e \in Ids, Commit(e) PROVE Batched'
    <2>1. \A i \in DOMAIN batch : batch[i] \in Ids
      BY ElementOfSeq, LenProperties DEF PassTyped
    <2>2. status' = [status EXCEPT ![e] = "Pending"] /\ UNCHANGED <<batch, pass>>
      BY <1>1 DEF Commit
    <2> QED BY <2>1, <2>2 DEF Batched, RowsTyped
  <1>2. CASE Poll
    <2>1. batch' \in Seq(Pollable) /\ pass' = "Processing" /\ status' = status
      BY <1>2, PollTakes DEF Poll, rows
    <2>2. \A i \in DOMAIN batch' : batch'[i] \in Pollable
      BY <2>1, ElementOfSeq, LenProperties
    <2> QED BY <1>2, <2>1, <2>2, PollTakes DEF Batched, Pollable
  <1>3. CASE ProcessRow
    <2>1. batch # <<>> /\ batch' = Tail(batch) /\ UNCHANGED <<status, pass>>
      BY <1>3 DEF ProcessRow, rows
    <2> QED BY <2>1, AtHead, TailOnce DEF Batched
  <1>4. CASE RowFails
    <2>1. batch # <<>> /\ batch' = Tail(batch) /\ pass' = pass
      BY <1>4 DEF RowFails
    <2>2. \A e \in Ids : e # Head(batch) => status'[e] = status[e]
      BY <1>4 DEF RowFails, Attempted, rows, RowsTyped
    <2>3. \A i \in DOMAIN Tail(batch) : Tail(batch)[i] \in Ids
      BY <2>1, HeadTailProperties, ElementOfSeq, LenProperties DEF PassTyped
    <2> QED BY <2>1, <2>2, <2>3, AtHead, TailOnce DEF Batched
  <1>5. CASE \/ StartMarking \/ EndPass \/ MarkFails \/ HubShutdown \/ Restart
             \/ \E e \in Ids : BackoffOver(e)
    BY <1>5 DEF StartMarking, EndPass, MarkFails, HubShutdown, Restart, BackoffOver, Batched, rows
  <1>6. CASE MarkDead \/ MarkDelivered
    BY <1>6 DEF MarkDead, MarkDelivered, Batched
  <1> QED BY <1>1, <1>2, <1>3, <1>4, <1>5, <1>6 DEF OutboxNext

\* What a pass will mark as delivered has been published, and what it will
\* drain has no hope.
LEMMA ToMarkStep ==
    ASSUME PassTyped, Batched, ToMark, OutboxNext
    PROVE  ToMark'
  <1>1. CASE Poll
    BY <1>1 DEF Poll, ToMark, run
  <1>2. CASE ProcessRow
    <2>1. Head(batch) \in Ids
      BY <1>2, AtHead DEF ProcessRow
    <2>2. publishedThisRun \subseteq publishedThisRun' /\ publishedThisRun' \subseteq everSent'
      BY <1>2 DEF ProcessRow, ToMark, Accepted
    <2>3. \/ deliveredIds' = deliveredIds
          \/ deliveredIds' = Append(deliveredIds, Head(batch)) /\ Head(batch) \in publishedThisRun'
      BY <1>2 DEF ProcessRow, AlreadyPublished
    <2>4. \/ deadIds' = deadIds
          \/ deadIds' = Append(deadIds, Head(batch)) /\ Head(batch) \in Hopeless
      BY <1>2 DEF ProcessRow
    <2>5. \A i \in DOMAIN deliveredIds' : deliveredIds'[i] \in publishedThisRun'
      BY SMTT(30), <2>1, <2>2, <2>3, Appended DEF PassTyped, ToMark
    <2>6. \A i \in DOMAIN deadIds' : deadIds'[i] \in Hopeless
      <3>1. deadIds \in Seq(Ids)
        BY DEF PassTyped
      <3>2. \A i \in DOMAIN Append(deadIds, Head(batch)) :
                \/ Append(deadIds, Head(batch))[i] = Head(batch)
                \/ i \in DOMAIN deadIds /\ Append(deadIds, Head(batch))[i] = deadIds[i]
        BY <2>1, <3>1, Appended
      <3> QED BY <2>4, <3>2 DEF ToMark
    <2> QED BY <2>2, <2>5, <2>6 DEF ToMark
  <1>3. CASE RowFails \/ StartMarking \/ HubShutdown \/ \E e \in Ids : Commit(e) \/ BackoffOver(e)
    BY <1>3 DEF RowFails, StartMarking, HubShutdown, Commit, BackoffOver, ToMark, run
  <1>4. CASE MarkDead
    <2>1. \A i \in DOMAIN Tail(deadIds) : \E j \in DOMAIN deadIds : Tail(deadIds)[i] = deadIds[j]
      BY <1>4, Dropped DEF PassTyped, MarkDead
    <2> QED BY <1>4, <2>1 DEF MarkDead, ToMark, run
  <1>5. CASE MarkDelivered
    <2>1. \A i \in DOMAIN Tail(deliveredIds) :
              \E j \in DOMAIN deliveredIds : Tail(deliveredIds)[i] = deliveredIds[j]
      BY <1>5, Dropped DEF PassTyped, MarkDelivered
    <2> QED BY <1>5, <2>1 DEF MarkDelivered, ToMark, run
  <1>6. CASE EndPass
    BY <1>6 DEF EndPass, Forgotten, ToMark, run
  <1>7. CASE MarkFails \/ Restart
    BY <1>7 DEF MarkFails, Restart, Remembered, ToMark
  <1> QED BY <1>1, <1>2, <1>3, <1>4, <1>5, <1>6, <1>7 DEF OutboxNext

LEMMA RowStep ==
    ASSUME RowsTyped, PassTyped, Batched, ToMark, NEW e \in Ids, RowAt(e), OutboxNext
    PROVE  RowAt(e)'
  <1> USE DEF RowsTyped, RowAt
  <1>1. ASSUME NEW f \in Ids, Commit(f) PROVE RowAt(e)'
    BY <1>1 DEF Commit, run
  <1>2. CASE Poll \/ StartMarking \/ \E f \in Ids : BackoffOver(f)
    BY <1>2 DEF Poll, StartMarking, BackoffOver, rows, run
  <1>3. CASE ProcessRow
    <2>1. Head(batch) \in Ids /\ status[Head(batch)] = "Pending"
      BY <1>3, AtHead DEF ProcessRow
    <2>2. UNCHANGED <<status, attempts>> /\ everSent \subseteq everSent'
      BY <1>3 DEF ProcessRow, rows
    <2>3. \/ sent' = sent /\ publishedThisRun' = publishedThisRun
          \/ /\ Head(batch) \notin publishedThisRun
             /\ sent' = [sent EXCEPT ![Head(batch)] = IF hubOpen THEN @ + 1 ELSE @]
             /\ publishedThisRun' = IF hubOpen THEN publishedThisRun \cup {Head(batch)}
                                    ELSE publishedThisRun
      BY <1>3 DEF ProcessRow, AlreadyPublished, Accepted
    <2> QED BY <2>1, <2>2, <2>3
  <1>4. CASE RowFails
    <2>1. Head(batch) \in Ids /\ status[Head(batch)] = "Pending" /\ Head(batch) \notin publishedThisRun
      BY <1>4, AtHead DEF RowFails, AlreadyPublished
    <2>2. UNCHANGED <<sent, everSent, publishedThisRun>>
      BY <1>4 DEF RowFails
    <2>3. CASE UNCHANGED rows
      BY <2>2, <2>3 DEF rows
    <2>4. CASE Attempted(Head(batch))
      BY <2>1, <2>2, <2>4, OutboxAssumption DEF Attempted
    <2> QED BY <1>4, <2>3, <2>4 DEF RowFails
  <1>5. CASE MarkDead
    <2>1. Head(deadIds) \in Hopeless
      BY <1>5, AtFront DEF PassTyped, MarkDead, ToMark
    <2> QED BY <1>5, <2>1 DEF MarkDead, run
  <1>6. CASE MarkDelivered
    <2>1. Head(deliveredIds) \in everSent
      BY <1>6, AtFront DEF PassTyped, MarkDelivered, ToMark
    <2> QED BY <1>6, <2>1 DEF MarkDelivered, run
  <1>7. CASE EndPass \/ MarkFails
    BY <1>7 DEF EndPass, MarkFails, Forgotten, Remembered, rows, run
  <1>8. CASE HubShutdown \/ Restart
    BY <1>8 DEF HubShutdown, Restart, rows
  <1> QED BY <1>1, <1>2, <1>3, <1>4, <1>5, <1>6, <1>7, <1>8 DEF OutboxNext

LEMMA OutboxStep ==
    ASSUME OutboxInv, OutboxNext
    PROVE  OutboxInv'
  BY RowsStep, PassStep, SceneStep, BatchedStep, ToMarkStep, RowStep DEF OutboxInv

LEMMA OutboxQuiet ==
    ASSUME OutboxInv, UNCHANGED outboxVars
    PROVE  OutboxInv'
  <1>1. UNCHANGED <<status, attempts, due, publishedThisRun, batch, deliveredIds, deadIds>>
    BY DEF outboxVars
  <1>2. UNCHANGED <<pass, sent, everSent, failures, ends, scene>>
    BY DEF outboxVars
  <1>3. RowsTyped' /\ PassTyped' /\ SceneTyped'
    BY <1>1, <1>2 DEF OutboxInv, RowsTyped, PassTyped, SceneTyped
  <1>4. Batched' /\ ToMark'
    BY <1>1, <1>2 DEF OutboxInv, Batched, ToMark
  <1>5. \A e \in Ids : RowAt(e)'
    BY <1>1, <1>2 DEF OutboxInv, RowAt
  <1> QED BY <1>3, <1>4, <1>5 DEF OutboxInv

LEMMA OutboxStarts ==
    Init => OutboxInv
  <1> SUFFICES ASSUME Init PROVE OutboxInv
    OBVIOUS
  <1> USE OutboxAssumption DEF Init
  <1>1. RowsTyped
    BY DEF RowsTyped
  <1>2. PassTyped
    BY DEF PassTyped
  <1>3. SceneTyped
    BY DEF SceneTyped
  <1>4. Batched /\ ToMark
    BY DEF Batched, ToMark
  <1>5. \A e \in Ids : RowAt(e)
    BY DEF RowAt
  <1> QED BY <1>1, <1>2, <1>3, <1>4, <1>5 DEF OutboxInv

\* The two invariants hold in every reachable state; that of the hub needs of
\* the outbox only that a scene names connections and sessions.
THEOREM DeliveryInvariant == Spec => [](HubInv /\ OutboxInv)
  <1>1. Init => HubInv /\ OutboxInv
    BY HubStarts, OutboxStarts
  <1>2. HubInv /\ OutboxInv /\ [Next]_vars => (HubInv /\ OutboxInv)'
    <2> SUFFICES ASSUME HubInv, OutboxInv, [Next]_vars PROVE HubInv' /\ OutboxInv'
      OBVIOUS
    <2>1. HubInv'
      <3>1. SceneTyped
        BY DEF OutboxInv
      <3> QED BY <3>1, HubMoves, HubStep, HubQuiet
    <2>2. OutboxInv'
      BY OutboxMoves, OutboxStep, OutboxQuiet
    <2> QED BY <2>1, <2>2
  <1> QED BY <1>1, <1>2, PTL DEF Spec

\* A connection is closed as dead, or as silent, only when it is, or when the
\* check of its session may throw.
THEOREM ClosedWithCauseAlways == Spec => []ClosedWithCause
  <1>1. HubInv => ClosedWithCause
    BY DEF HubInv, Caused, ClosedWithCause
  <1> QED BY <1>1, DeliveryInvariant, PTL

\* An inline close is of a connection that left the registry before, and comes
\* back to it no more.
Inline(c) == c \in inClose => stage[c] = "Detached" /\ c \notin peers
InlineInv == \A c \in Conns : Inline(c)

LEMMA InlineStep ==
    ASSUME LifeTyped, PeersTyped, NEW d \in Conns, Handled(d), Inline(d), HubNext
    PROVE  Inline(d)'
  <1> USE DEF LifeTyped, PeersTyped, Inline
  <1>1. ASSUME NEW c \in Conns, OfConn(c)
        PROVE  Inline(d)'
    <2>1. CASE Close(c)
      BY <2>1 DEF Close, Handled
    <2>2. CASE OnClose(c)
      BY <2>2 DEF OnClose, Same
    <2>3. CASE Register(c)
      BY <2>3 DEF Register, Refused
    <2>4. CASE Accept(c)
      BY <2>4 DEF Accept
    <2>5. CASE CheckAgain(c)
      BY <2>5 DEF CheckAgain, Refused
    <2>6. CASE Ready(c)
      BY <2>6 DEF Ready
    <2>8. CASE Drop(c)
      BY <2>8 DEF Drop, Connected
    <2>9. CASE SendTo(c) \/ SendRevoked(c)
      BY <2>9 DEF SendTo, SendRevoked, Unlisted
    <2>7. CASE WindowMoves(c) \/ Pong(c) \/ SilenceGrows(c)
      BY <2>7 DEF WindowMoves, Pong, SilenceGrows
    <2> QED BY <1>1, <2>1, <2>2, <2>3, <2>4, <2>5, <2>6, <2>7, <2>8, <2>9 DEF OfConn
  <1>2. ASSUME NEW s \in Sessions, OfSession(s)
        PROVE  Inline(d)'
    BY <1>2 DEF OfSession, Revoke, AskAbout, NotifyRevoked, CloseSession, Unlisted
  <1>3. ASSUME NEW progress \in BOOLEAN, NEW scope \in Scopes, Publish(progress, scope)
        PROVE  Inline(d)'
    BY <1>3 DEF Publish, HubButPublishing
  <1>4. CASE EndPublish \/ Shutdown \/ Restart
    BY <1>4 DEF EndPublish, Shutdown, Restart
  <1>5. CASE Heartbeat \/ CloseDead
    BY <1>5 DEF Heartbeat, CloseDead, Unlisted
  <1> QED BY <1>1, <1>2, <1>3, <1>4, <1>5 DEF HubNext

\* Close calls back into the hub while it holds the mutex of its peer, the hub
\* sends to peers while it holds its own: the two never wait for each other,
\* for whoever is closed was taken from the registry before and a publisher
\* goes through the registry.
THEOREM NeverALockCycle == Spec => []NoLockCycle
  <1>1. Init => InlineInv
    BY DEF Init, HubInit, Inline, InlineInv
  <1>2. HubInv /\ OutboxInv /\ InlineInv /\ [Next]_vars => InlineInv'
    <2> SUFFICES ASSUME HubInv, OutboxInv, InlineInv, [Next]_vars, NEW c \in Conns
                 PROVE  Inline(c)'
      BY DEF InlineInv
    <2>1. HubNext \/ UNCHANGED hubVars
      BY HubMoves DEF OutboxInv
    <2>2. CASE HubNext
      BY <2>2, InlineStep DEF HubInv, Typed, InlineInv
    <2>3. CASE UNCHANGED hubVars
      BY <2>3 DEF Inline, InlineInv, hubVars
    <2> QED BY <2>1, <2>2, <2>3
  <1>3. HubInv /\ InlineInv => NoLockCycle
    BY DEF InlineInv, HubInv, Typed, PeersTyped, Publishing, Inline, NoLockCycle
  <1> QED BY <1>1, <1>2, <1>3, DeliveryInvariant, PTL DEF Spec

\* Nobody is connected and forgotten, the registry keeps one connection of a
\* session and its bound, and no close waits for it in vain, however handshakes, frames, heartbeats, revocations
\* and the end of the process interleave.
THEOREM NoOrphansAlways == Spec => []NoOrphans
  <1>1. HubInv /\ NoLockCycle => NoOrphans
    <2> SUFFICES ASSUME HubInv, NoLockCycle PROVE NoOrphans
      OBVIOUS
    <2>1. HubTypeOK
      BY DEF HubInv, Typed, LifeTyped, PeersTyped, PulseTyped, WindowTyped, HubTypeOK
    <2>2. Cardinality(peers) <= options.maxPeers
      BY DEF HubInv, Seated
    <2>3. ASSUME NEW s \in Sessions
          PROVE  Cardinality({c \in peers : SessionOf[c] = s}) <= 1
      <3> DEFINE who == {c \in peers : SessionOf[c] = s}
      <3>1. \A c, d \in who : c = d
        BY DEF HubInv, Seated
      <3> HIDE DEF who
      <3>2. Cardinality(who) \in {0, 1}
        <4>1. who = {} \/ \E c \in who : who = {c}
          BY <3>1
        <4> QED BY <4>1, FS_EmptySet, FS_Singleton
      <3>3. Cardinality(who) <= 1
        BY <3>2
      <3> QED BY <3>3 DEF who
    <2>4. \A c \in Conns : hubOpen /\ Connected(c) => c \in peers \/ closeCode[c] # 0
      BY DEF HubInv, Handled
    <2> QED BY <2>1, <2>2, <2>3, <2>4 DEF NoOrphans
  <1> QED BY <1>1, DeliveryInvariant, NeverALockCycle, PTL

\* Delivered rows were published, no row twice by one process, and only rows
\* without hope or without attempts left are dead.
THEOREM MarksAreTrueAlways == Spec => []MarksAreTrue
  <1>1. OutboxInv => MarksAreTrue
    BY DEF OutboxInv, RowsTyped, PassTyped, SceneTyped, OutboxTypeOK, RowAt, MarksAreTrue
  <1> QED BY <1>1, DeliveryInvariant, PTL

\* What a step of the hub shows to one client.
LEMMA SeenStep ==
    ASSUME HubInv, NEW d \in Conns, HubNext, lastSeq'[d] # lastSeq[d]
    PROVE  lastSeq'[d] > lastSeq[d] /\ ended[d] = "No"
  <1> USE DEF HubInv, Typed, PeersTyped
  <1>1. PICK c \in Conns : SendTo(c) \/ SendRevoked(c)
    <2>1. ASSUME NEW c \in Conns, OfConn(c) PROVE SendTo(c) \/ SendRevoked(c) \/ lastSeq' = lastSeq
      BY <2>1 DEF OfConn, Accept, CheckAgain, Register, Refused, Ready, Close, OnClose, WindowMoves,
                  Pong, Drop, SilenceGrows, wire
    <2>2. ASSUME NEW s \in Sessions, OfSession(s) PROVE lastSeq' = lastSeq
      BY <2>2 DEF OfSession, Revoke, AskAbout, NotifyRevoked, CloseSession, wire
    <2>3. CASE EndPublish \/ Shutdown \/ Restart \/ \E p \in BOOLEAN, scope \in Scopes : Publish(p, scope)
      BY <2>3 DEF EndPublish, Shutdown, Restart, Publish, HubButPublishing, wire
    <2>4. CASE Heartbeat \/ CloseDead
      BY <2>4 DEF Heartbeat, CloseDead, wire
    <2> QED BY <2>1, <2>2, <2>3, <2>4 DEF HubNext
  <1>2. CASE SendTo(c)
    <2>1. c = d /\ Connected(d) /\ lastSeq'[d] = publishing.seq /\ d \in publishing.left
      BY <1>2 DEF SendTo
    <2> QED BY <2>1 DEF Publishing, Handled, Numbered
  <1>3. CASE SendRevoked(c)
    <2>1. c = d /\ Connected(d) /\ lastSeq'[d] = owed[d] /\ owed[d] # 0
      BY <1>3 DEF SendRevoked
    <2> QED BY <2>1 DEF Numbered
  <1> QED BY <1>1, <1>2, <1>3

\* A frame leaves nobody out without a reason.
LEMMA FrameStep ==
    ASSUME HubInv, HubNext, NEW d \in publishing.left \ publishing'.left
    PROVE  \/ publishing.progress \/ ~Connected(d) \/ d \notin peers'
           \/ lastSeq'[d] = publishing.seq
  <1> USE DEF HubInv, Typed, PeersTyped
  <1>1. CASE \E c \in Conns : SendTo(c)
    <2>1. PICK c \in Conns : SendTo(c)
      BY <1>1
    <2>2. publishing'.left = publishing.left \ {c}
      BY <2>1 DEF SendTo
    <2>3. c = d
      BY <2>2
    <2> QED BY <2>1, <2>3 DEF SendTo, Overflows, Unlisted
  <1>2. CASE Restart
    BY <1>2 DEF Restart
  <1>3. CASE publishing' = publishing \/ publishing.left = {}
    BY <1>3
  <1>4. (\E c \in Conns : SendTo(c)) \/ Restart \/ publishing' = publishing \/ publishing.left = {}
    <2>1. ASSUME NEW c \in Conns, OfConn(c)
          PROVE  SendTo(c) \/ publishing' = publishing \/ publishing.left = {}
      BY <2>1 DEF OfConn, Accept, CheckAgain, Register, Ready, TakeNumber, HubFree, NoFrame,
                  SendRevoked, Close, OnClose, WindowMoves, Pong, Drop, SilenceGrows
    <2>2. ASSUME NEW s \in Sessions, OfSession(s) PROVE publishing' = publishing
      BY <2>2 DEF OfSession, Revoke, AskAbout, NotifyRevoked, CloseSession
    <2>3. CASE EndPublish \/ \E p \in BOOLEAN, scope \in Scopes : Publish(p, scope)
      BY <2>3 DEF EndPublish, Releases, Publish, TakeNumber, HubFree, NoFrame
    <2>4. CASE Heartbeat \/ CloseDead \/ Shutdown
      BY <2>4 DEF Heartbeat, CloseDead, Shutdown
    <2> QED BY <2>1, <2>2, <2>3, <2>4 DEF HubNext
  <1> QED BY <1>1, <1>2, <1>3, <1>4

\* The numbers a client sees only grow, nothing follows session.revoked or the
\* close, and a peer that stays gets every frame meant for it, but for progress.
THEOREM StreamAlwaysSound == Spec => StreamIsSound
  <1>1. HubInv /\ OutboxInv /\ [Next]_vars => [SoundStep]_hubVars
    <2> SUFFICES ASSUME HubInv, OutboxInv, [Next]_vars, ~UNCHANGED hubVars
                 PROVE  SoundStep
      OBVIOUS
    <2>1. HubNext
      BY HubMoves DEF OutboxInv
    <2> QED BY <2>1, SeenStep, FrameStep DEF SoundStep
  <1> QED BY <1>1, DeliveryInvariant, PTL DEF Spec, StreamIsSound

-----------------------------------------------------------------------------
\* The outbox keeps the promise of AtLeastOnce.  Beyond the invariant of the
\* outbox that takes three facts: an event without hope is never told, what a
\* pass will drain has been committed, and what this life told is remembered
\* among what was ever told.
Unsaid ==
    /\ everSent \cap Hopeless = {}
    /\ \A i \in DOMAIN deadIds : status[deadIds[i]] # "None"
    /\ \A e \in Ids : sent[e] # 0 => e \in everSent

LEMMA UnsaidStep ==
    ASSUME OutboxInv, Unsaid, OutboxNext
    PROVE  Unsaid'
  <1> USE DEF OutboxInv, RowsTyped, Unsaid
  <1>1. ASSUME NEW e \in Ids, Commit(e) PROVE Unsaid'
    <2>1. \A i \in DOMAIN deadIds : deadIds[i] \in Ids
      BY ElementOfSeq, LenProperties DEF PassTyped
    <2> QED BY <1>1, <2>1 DEF Commit, run
  <1>2. CASE Poll
    BY <1>2 DEF Poll, rows, run
  <1>3. CASE ProcessRow
    <2>1. Head(batch) \in Ids /\ status[Head(batch)] = "Pending"
      BY <1>3, AtHead DEF ProcessRow
    <2>2. \/ UNCHANGED <<sent, everSent>>
          \/ /\ Head(batch) \notin Hopeless
             /\ sent' = [sent EXCEPT ![Head(batch)] = IF hubOpen THEN @ + 1 ELSE @]
             /\ everSent' = IF hubOpen THEN everSent \cup {Head(batch)} ELSE everSent
      BY <1>3 DEF ProcessRow
    <2>3. everSent' \cap Hopeless = {} /\ \A e \in Ids : sent'[e] # 0 => e \in everSent'
      BY <2>1, <2>2
    <2>4. status' = status /\ deadIds' \in {deadIds, Append(deadIds, Head(batch))}
      BY <1>3 DEF ProcessRow, rows
    <2>5. deadIds \in Seq(Ids)
      BY DEF PassTyped
    <2>6. \A i \in DOMAIN Append(deadIds, Head(batch)) :
              \/ Append(deadIds, Head(batch))[i] = Head(batch)
              \/ i \in DOMAIN deadIds /\ Append(deadIds, Head(batch))[i] = deadIds[i]
      BY <2>1, <2>5, Appended
    <2>7. \A i \in DOMAIN deadIds' : status[deadIds'[i]] # "None"
      BY <2>1, <2>4, <2>6
    <2> QED BY <2>3, <2>4, <2>7
  <1>4. CASE RowFails
    <2>1. \A e \in Ids : status[e] # "None" => status'[e] # "None"
      BY <1>4 DEF RowFails, Attempted, rows
    <2>2. \A i \in DOMAIN deadIds : deadIds[i] \in Ids
      BY ElementOfSeq, LenProperties DEF PassTyped
    <2> QED BY <1>4, <2>1, <2>2 DEF RowFails
  <1>5. CASE \/ StartMarking \/ EndPass \/ HubShutdown \/ MarkFails \/ Restart
             \/ \E e \in Ids : BackoffOver(e)
    BY <1>5 DEF StartMarking, EndPass, HubShutdown, MarkFails, Restart, BackoffOver, rows, run
  <1>6. CASE MarkDead
    <2>1. deadIds \in Seq(Ids) /\ deadIds # <<>>
      BY <1>6 DEF MarkDead, PassTyped
    <2>2. \A i \in DOMAIN Tail(deadIds) : \E j \in DOMAIN deadIds : Tail(deadIds)[i] = deadIds[j]
      BY <2>1, Dropped
    <2>3. \A i \in DOMAIN deadIds : deadIds[i] \in Ids
      BY <2>1, ElementOfSeq, LenProperties
    <2>4. \A e \in Ids : status[e] # "None" => status'[e] # "None"
      BY <1>6 DEF MarkDead
    <2> QED BY <1>6, <2>2, <2>3, <2>4 DEF MarkDead, run
  <1>7. CASE MarkDelivered
    <2>1. \A e \in Ids : status[e] # "None" => status'[e] # "None"
      BY <1>7 DEF MarkDelivered
    <2>2. \A i \in DOMAIN deadIds : deadIds[i] \in Ids
      BY ElementOfSeq, LenProperties DEF PassTyped
    <2> QED BY <1>7, <2>1, <2>2 DEF MarkDelivered, run
  <1> QED BY <1>1, <1>2, <1>3, <1>4, <1>5, <1>6, <1>7 DEF OutboxNext

\* Each step of the outbox is one of the promise, or shows nothing of itself.
LEMMA PromiseKept ==
    ASSUME OutboxInv, Unsaid, OutboxNext
    PROVE  Promise!PromiseNext \/ UNCHANGED <<status, sent, everSent>>
  <1> USE DEF OutboxInv, RowsTyped
  <1>1. ASSUME NEW e \in Ids, Commit(e) PROVE Promise!Committed(e)
    BY <1>1 DEF Commit, run, Promise!Committed
  <1>2. CASE ProcessRow
    <2> DEFINE e == Head(batch)
    <2>1. e \in Ids /\ status[e] = "Pending"
      BY <1>2, AtHead DEF ProcessRow
    <2>2. status' = status
      BY <1>2 DEF ProcessRow, rows
    <2>3. \/ UNCHANGED <<sent, everSent>>
          \/ /\ e \notin Hopeless /\ e \notin publishedThisRun
             /\ sent' = [sent EXCEPT ![e] = @ + 1] /\ everSent' = everSent \cup {e}
      BY <1>2 DEF ProcessRow, AlreadyPublished
    <2>4. CASE UNCHANGED <<sent, everSent>>
      BY <2>2, <2>4
    <2>5. CASE /\ e \notin Hopeless /\ e \notin publishedThisRun
               /\ sent' = [sent EXCEPT ![e] = @ + 1] /\ everSent' = everSent \cup {e}
      <3>1. sent[e] = 0
        BY <2>1, <2>5 DEF RowAt
      <3>2. Promise!Tell(e)
        BY <2>1, <2>2, <2>5, <3>1 DEF Promise!Tell
      <3> QED BY <2>1, <3>2 DEF Promise!PromiseNext
    <2> QED BY <2>3, <2>4, <2>5
  <1>3. CASE RowFails
    <2> DEFINE e == Head(batch)
    <2>1. e \in Ids /\ status[e] = "Pending" /\ e \notin publishedThisRun
      BY <1>3, AtHead DEF RowFails, AlreadyPublished
    <2>2. UNCHANGED <<sent, everSent>>
      BY <1>3 DEF RowFails
    <2>3. sent[e] = 0
      BY <2>1 DEF RowAt
    <2>4. status' = status \/ status' = [status EXCEPT ![e] = "Dead"]
      BY <1>3, <2>1 DEF RowFails, Attempted, rows
    <2>5. CASE status' = [status EXCEPT ![e] = "Dead"]
      <3>1. Promise!GiveUp(e)
        BY <2>1, <2>2, <2>3, <2>5 DEF Promise!GiveUp, Promise!Settle
      <3> QED BY <2>1, <3>1 DEF Promise!PromiseNext
    <2> QED BY <2>2, <2>4, <2>5
  <1>4. CASE MarkDead
    <2> DEFINE e == Head(deadIds)
    <2>1. e \in Hopeless /\ status[e] # "None"
      BY <1>4, AtFront DEF PassTyped, MarkDead, ToMark, Unsaid
    <2>2. e \in Ids /\ e \notin everSent
      BY <2>1, OutboxAssumption DEF Unsaid
    <2>3. sent[e] = 0 /\ status[e] \in {"Pending", "Dead"}
      BY <2>1, <2>2 DEF RowAt, Unsaid
    <2>4. status' = [status EXCEPT ![e] = "Dead"] /\ UNCHANGED <<sent, everSent>>
      BY <1>4 DEF MarkDead, run
    <2>5. CASE status[e] = "Pending"
      <3>1. Promise!GiveUp(e)
        BY <2>3, <2>4, <2>5 DEF Promise!GiveUp, Promise!Settle
      <3> QED BY <2>2, <3>1 DEF Promise!PromiseNext
    <2>6. CASE status[e] = "Dead"
      <3>1. status' = status
        BY <2>2, <2>4, <2>6
      <3> QED BY <2>4, <3>1
    <2> QED BY <2>3, <2>5, <2>6
  <1>5. CASE MarkDelivered
    <2> DEFINE e == Head(deliveredIds)
    <2>1. e \in everSent /\ e \in Ids
      BY <1>5, AtFront DEF PassTyped, MarkDelivered, ToMark
    <2>2. /\ status' = [status EXCEPT ![e] = IF @ = "Pending" THEN "Delivered" ELSE @]
          /\ UNCHANGED <<sent, everSent>>
      BY <1>5 DEF MarkDelivered, run
    <2>3. CASE status[e] = "Pending"
      <3>1. Promise!Acknowledge(e)
        BY <2>1, <2>2, <2>3 DEF Promise!Acknowledge, Promise!Settle
      <3> QED BY <2>1, <3>1 DEF Promise!PromiseNext
    <2>4. CASE status[e] # "Pending"
      <3>1. status' = status
        BY <2>1, <2>2, <2>4
      <3> QED BY <2>2, <3>1
    <2> QED BY <2>3, <2>4
  <1>6. CASE Restart
    <2>1. Promise!LifeEnds
      BY <1>6 DEF Restart, rows, Promise!LifeEnds
    <2> QED BY <2>1 DEF Promise!PromiseNext
  <1>7. CASE \/ Poll \/ StartMarking \/ EndPass \/ MarkFails \/ HubShutdown
             \/ \E e \in Ids : BackoffOver(e)
    BY <1>7 DEF Poll, StartMarking, EndPass, MarkFails, HubShutdown, BackoffOver, rows, run
  <1> QED BY <1>1, <1>2, <1>3, <1>4, <1>5, <1>6, <1>7 DEF OutboxNext, Promise!PromiseNext

\* The dispatcher implements the promise of at least once, whatever statements
\* fail and wherever the process ends: in one life no event is told twice, none
\* is marked as delivered that was never told, and none is given up by the life
\* that told it or settled a second time.
THEOREM AtLeastOnceImplemented == Spec => ImplementsAtLeastOnce
  <1>1. Init => Promise!PromiseInit /\ Unsaid
    BY DEF Init, Promise!PromiseInit, Unsaid
  <1>2. OutboxInv /\ Unsaid /\ [Next]_vars => Unsaid' /\ [Promise!PromiseNext]_(Promise!promiseVars)
    <2> SUFFICES ASSUME OutboxInv, Unsaid, [Next]_vars
                 PROVE  Unsaid' /\ [Promise!PromiseNext]_(Promise!promiseVars)
      OBVIOUS
    <2>1. CASE OutboxNext
      BY <2>1, UnsaidStep, PromiseKept DEF Promise!promiseVars
    <2>2. CASE UNCHANGED outboxVars
      BY <2>2 DEF outboxVars, Unsaid, Promise!promiseVars
    <2> QED BY <2>1, <2>2, OutboxMoves
  <1> QED
    BY <1>1, <1>2, DeliveryInvariant, PTL DEF Spec, ImplementsAtLeastOnce, Promise!PromiseSpec

=============================================================================

---------------------------- MODULE AccessProofs ----------------------------
(***************************************************************************)
(* Proofs about accounts, logins, sessions and routes, for any accounts,   *)
(* phones, threads, session ids and scenes.  Four invariants carry them.   *)
(* That of the sessions relates the table to its indexes and limits.  That *)
(* of the accounts says what a thread holds: the version it saw, the row   *)
(* its transaction has locked, the account of a phone.  And that of what   *)
(* is fresh follows each login from the read of its account: a login       *)
(* knows the epoch it read, or is marked as overtaken by the change that   *)
(* is being written; a session stands on what its login knew.  That of     *)
(* guesses counts what is still to come: the logins that read a lock open, *)
(* the tries a phone's codes have left, the tokens in a client's hand.     *)
(***************************************************************************)
EXTENDS Access, FiniteSetTheorems, SequenceTheorems, TLAPS

-----------------------------------------------------------------------------
\* Routes.

\* What deletes an account or edits a profile is for users.
OfUsers == {"user.me.delete", "user.me.nickname", "user.me.credential"}

\* What the interface promises of a route, as a row of the table asks it.
KeepsPromise(r, a) ==
    /\ r \in OwnersOnly => a.roles = {"Owner"}
    /\ r \in Sensitive => a.kinds = {"Administrator"} /\ a.reauth
    /\ \/ a.roles = {"User"} /\ a.kinds = {"User"}
       \/ "User" \notin a.roles /\ "User" \notin a.kinds
    /\ "Viewer" \in a.roles => r = "dashboard.summary"
    /\ "Dashboard" \in a.kinds => r \notin Keyed
    /\ r \in Keyed => a.key # "No"
    /\ r \in Money => a.key = "ForGood"
    /\ r \in OfUsers => a.roles = {"User"}

\* Routes of users: all but those of owners and those that follow a password.
LEMMA UserRoutes ==
    ASSUME NEW S, S \cap (OwnersOnly \cup Sensitive) = {}
    PROVE  /\ S \cap Keyed = {} => \A row \in All(S, AnyUser) : KeepsPromise(row.route, row.asks)
           /\ S \cap Money = {} =>
                \A row \in All(S, Once(AnyUser)) : KeepsPromise(row.route, row.asks)
           /\ \A row \in All(S, OnceForGood(AnyUser)) : KeepsPromise(row.route, row.asks)
<1>1. ASSUME NEW r \in S, S \cap Keyed = {} PROVE KeepsPromise(r, AnyUser)
  BY <1>1 DEF KeepsPromise, AnyUser, Asks, OfUsers, Keyed
<1>2. ASSUME NEW r \in S, S \cap Money = {} PROVE KeepsPromise(r, Once(AnyUser))
  BY <1>2 DEF KeepsPromise, AnyUser, Asks, Once, OfUsers
<1>3. ASSUME NEW r \in S PROVE KeepsPromise(r, OnceForGood(AnyUser))
  BY <1>3 DEF KeepsPromise, AnyUser, Asks, OnceForGood, OfUsers
<1> QED BY <1>1, <1>2, <1>3 DEF All

\* Routes of any administrator: none of those of users or of owners; those that
\* follow a password ask for it.
LEMMA AdminRoutes ==
    ASSUME NEW S, S \cap (OwnersOnly \cup Money \cup OfUsers) = {}
    PROVE  /\ S \cap (Sensitive \cup Keyed) = {} =>
                \A row \in All(S, AnyAdmin) : KeepsPromise(row.route, row.asks)
           /\ S \cap Sensitive = {} =>
                \A row \in All(S, Once(AnyAdmin)) : KeepsPromise(row.route, row.asks)
           /\ \A row \in All(S, Once(Proved(AnyAdmin))) : KeepsPromise(row.route, row.asks)
<1>1. ASSUME NEW r \in S, S \cap (Sensitive \cup Keyed) = {} PROVE KeepsPromise(r, AnyAdmin)
  BY <1>1 DEF KeepsPromise, AnyAdmin, Asks
<1>2. ASSUME NEW r \in S, S \cap Sensitive = {} PROVE KeepsPromise(r, Once(AnyAdmin))
  BY <1>2 DEF KeepsPromise, AnyAdmin, Asks, Once
<1>3. ASSUME NEW r \in S PROVE KeepsPromise(r, Once(Proved(AnyAdmin)))
  BY <1>3 DEF KeepsPromise, AnyAdmin, Asks, Once, Proved
<1> QED BY <1>1, <1>2, <1>3 DEF All

\* Routes of owners.
LEMMA OwnerRoutes ==
    ASSUME NEW S, S \cap (Money \cup OfUsers) = {}
    PROVE  /\ S \cap (Sensitive \cup Keyed) = {} =>
                \A row \in All(S, AnOwner) : KeepsPromise(row.route, row.asks)
           /\ S \cap Sensitive = {} =>
                \A row \in All(S, Once(AnOwner)) : KeepsPromise(row.route, row.asks)
           /\ \A row \in All(S, Once(Proved(AnOwner))) : KeepsPromise(row.route, row.asks)
<1>1. ASSUME NEW r \in S, S \cap (Sensitive \cup Keyed) = {} PROVE KeepsPromise(r, AnOwner)
  BY <1>1 DEF KeepsPromise, AnOwner, Asks
<1>2. ASSUME NEW r \in S, S \cap Sensitive = {} PROVE KeepsPromise(r, Once(AnOwner))
  BY <1>2 DEF KeepsPromise, AnOwner, Asks, Once
<1>3. ASSUME NEW r \in S PROVE KeepsPromise(r, Once(Proved(AnOwner)))
  BY <1>3 DEF KeepsPromise, AnOwner, Asks, Once, Proved
<1> QED BY <1>1, <1>2, <1>3 DEF All

\* Every row of the table asks what the interface promises.
LEMMA TableKeepsPromises == \A row \in Table : KeepsPromise(row.route, row.asks)
<1> DEFINE Kept(S) == \A row \in S : KeepsPromise(row.route, row.asks)
<1>1. Kept(IdentityRoutes) /\ Kept(ProfileRoutes) /\ Kept(FarewellRoute)
  BY UserRoutes DEF IdentityRoutes, ProfileRoutes, FarewellRoute,
     OwnersOnly, Sensitive, Keyed, Money
<1>2. Kept(QuoteRoutes) /\ Kept(ConfirmRoutes) /\ Kept(StartRoutes)
  <2>1. Kept(QuoteRoutes)
    BY UserRoutes DEF QuoteRoutes, OwnersOnly, Sensitive, Keyed, Money
  <2>2. Kept(ConfirmRoutes)
    BY UserRoutes DEF ConfirmRoutes, OwnersOnly, Sensitive, Keyed, Money
  <2>3. Kept(StartRoutes)
    BY UserRoutes DEF StartRoutes, OwnersOnly, Sensitive, Keyed, Money
  <2> QED BY <2>1, <2>2, <2>3
<1>3. Kept(SettleRoutes) /\ Kept(WalletRoutes) /\ Kept(ReviewRoutes)
  <2>1. Kept(SettleRoutes)
    BY UserRoutes DEF SettleRoutes, OwnersOnly, Sensitive, Keyed, Money
  <2>2. Kept(WalletRoutes)
    BY UserRoutes DEF WalletRoutes, OwnersOnly, Sensitive, Keyed, Money
  <2>3. Kept(ReviewRoutes)
    BY UserRoutes DEF ReviewRoutes, OwnersOnly, Sensitive, Keyed, Money
  <2> QED BY <2>1, <2>2, <2>3
<1>4. Kept(StationRoutes) /\ Kept(OfferRoutes) /\ Kept(NavigationRoutes)
  BY UserRoutes DEF StationRoutes, OfferRoutes, NavigationRoutes,
     OwnersOnly, Sensitive, Keyed, Money
<1>5. /\ Kept(AdminSessionRoutes) /\ Kept(AdminUserOrderRoutes) /\ Kept(AdminStatisticsRoutes)
      /\ Kept(AdminPredictionRoutes) /\ Kept(HealthRoutes)
  BY AdminRoutes DEF AdminSessionRoutes, AdminUserOrderRoutes, AdminStatisticsRoutes,
     AdminPredictionRoutes, HealthRoutes, OwnersOnly, Sensitive, Keyed, Money, OfUsers
<1>6. Kept(AdminUserRoutes)
  BY AdminRoutes DEF AdminUserRoutes, OwnersOnly, Sensitive, Keyed, Money, OfUsers
<1>7. Kept(AdminStationRoutes)
  BY AdminRoutes DEF AdminStationRoutes, OwnersOnly, Sensitive, Keyed, Money, OfUsers
<1>8. Kept(AdminStationUpdateRoutes)
  BY AdminRoutes DEF AdminStationUpdateRoutes, OwnersOnly, Sensitive, Keyed, Money, OfUsers
<1>9. Kept(AdminChargerRoutes)
  BY AdminRoutes DEF AdminChargerRoutes, OwnersOnly, Sensitive, Keyed, Money, OfUsers
<1>10. Kept(AdminRestartRoutes)
  BY AdminRoutes DEF AdminRestartRoutes, OwnersOnly, Sensitive, Keyed, Money, OfUsers
<1>11. Kept(AdminTariffRoutes)
  BY AdminRoutes DEF AdminTariffRoutes, OwnersOnly, Sensitive, Keyed, Money, OfUsers
<1>12. Kept(AdminAdjustmentRoutes)
  BY AdminRoutes DEF AdminAdjustmentRoutes, OwnersOnly, Sensitive, Keyed, Money, OfUsers
<1>13. Kept(AdminFlowRoutes)
  BY AdminRoutes DEF AdminFlowRoutes, OwnersOnly, Sensitive, Keyed, Money, OfUsers
<1>14. Kept(AdminMlRoutes)
  BY AdminRoutes DEF AdminMlRoutes, OwnersOnly, Sensitive, Keyed, Money, OfUsers
<1>15. Kept(AdminAccountRoutes)
  BY OwnerRoutes DEF AdminAccountRoutes, OwnersOnly, Sensitive, Keyed, Money, OfUsers
<1>16. Kept(AdminAccountStatusRoutes)
  BY AdminRoutes, OwnerRoutes DEF AdminAccountStatusRoutes, OwnersOnly, Sensitive, Keyed,
     Money, OfUsers
<1>17. Kept(AdminAuditRoutes)
  BY OwnerRoutes DEF AdminAuditRoutes, OwnersOnly, Sensitive, Keyed, Money, OfUsers
<1>18. Kept(AdminBackupRoutes)
  BY OwnerRoutes DEF AdminBackupRoutes, OwnersOnly, Sensitive, Keyed, Money, OfUsers
<1>19. Kept(DashboardRoutes)
  BY DEF DashboardRoutes, All, Asks, KeepsPromise, OwnersOnly, Sensitive, Keyed, Money, OfUsers
<1>20. Kept(MlRoutes)
  BY DEF MlRoutes, All, Asks, Once, KeepsPromise, OwnersOnly, Sensitive, Keyed, Money,
     OfUsers
<1> HIDE DEF Kept
<1> QED
  BY <1>1, <1>2, <1>3, <1>4, <1>5, <1>6, <1>7, <1>8, <1>9, <1>10, <1>11, <1>12,
     <1>13, <1>14, <1>15, <1>16, <1>17, <1>18, <1>19, <1>20
     DEF Table, Kept

\* So does every route, the way a call of it finds its row.
LEMMA RoutesKeepPromises ==
    /\ \A r \in DOMAIN Route : KeepsPromise(r, Route[r])
    /\ OfUsers \subseteq DOMAIN Route
<1>1. ASSUME NEW r \in DOMAIN Route PROVE KeepsPromise(r, Route[r])
  <2>1. PICK row \in Table : row.route = r
    BY DEF Route
  <2> DEFINE found == CHOOSE row1 \in Table : row1.route = r
  <2>2. found \in Table /\ found.route = r
    BY <2>1
  <2>3. Route[r] = found.asks
    BY <2>1 DEF Route
  <2> QED BY <2>2, <2>3, TableKeepsPromises
<1>2. /\ [route |-> "user.me.delete", asks |-> AnyUser] \in Table
      /\ [route |-> "user.me.nickname", asks |-> AnyUser] \in Table
      /\ [route |-> "user.me.credential", asks |-> AnyUser] \in Table
  BY DEF Table, FarewellRoute, ProfileRoutes, All
<1>3. \A row \in Table : row.route \in DOMAIN Route
  BY DEF Route
<1>4. {"user.me.delete", "user.me.nickname", "user.me.credential"} \subseteq DOMAIN Route
  BY <1>2, <1>3
<1> QED BY <1>1, <1>4 DEF OfUsers

-----------------------------------------------------------------------------
\* Sessions.  The invariant of the table, with the sessions of a kind a
\* principal has for what SessionsTypeOK says of each session's own.
OfKind(p, k) == {i \in Stored : sessions[i].of = p /\ sessions[i].kind = k}

SessionsTyped ==
    /\ sessions \in [Ids -> Session \cup {NoSession}]
    /\ nextId \in 1..MaxIds + 1 /\ \A i \in Stored : i < nextId
Indexed ==
    /\ digests = Stored
    /\ listed = [p \in Principals |-> {i \in Stored : sessions[i].of = p}]
Seated ==
    /\ Cardinality(Stored) <= MaximumSessions
    /\ \A p \in Principals, k \in Kinds :
         /\ Cardinality(OfKind(p, k)) <= Limits[k]
         /\ \A i, j \in OfKind(p, k) : sessions[i].device = sessions[j].device => i = j

Noticed == notices \subseteq Ids \ Stored /\ \A i \in notices : i < nextId

SessionsInv == SessionsTyped /\ Indexed /\ Seated /\ Noticed

LEMMA StoredIsSession ==
    ASSUME sessions \in [Ids -> Session \cup {NoSession}]
    PROVE  \A i \in Ids : i \in Stored <=> sessions[i] \in Session
  BY DEF Stored, Session, NoSession, Kinds

LEMMA StoredIsFinite ==
    /\ IsFiniteSet(Ids) /\ IsFiniteSet(Stored)
    /\ \A S \in SUBSET Stored : IsFiniteSet(S) /\ Cardinality(S) <= Cardinality(Stored)
<1>1. IsFiniteSet(Ids)
  BY FS_Interval, SessionsAssumption DEF Ids
<1>2. IsFiniteSet(Stored)
  BY <1>1, FS_Subset DEF Stored
<1> QED BY <1>1, <1>2, FS_Subset

\* It says what the type invariant says.
LEMMA SessionsInvIsType == SessionsInv => SessionsTypeOK
<1> SUFFICES ASSUME SessionsInv PROVE SessionsTypeOK
  OBVIOUS
<1>1. ASSUME NEW i \in Stored
      PROVE  LET same == {j \in Stored : /\ sessions[j].of = sessions[i].of
                                         /\ sessions[j].kind = sessions[i].kind} IN
             /\ Cardinality(same) <= Limits[sessions[i].kind]
             /\ \A j \in same : sessions[j].device = sessions[i].device => j = i
  <2> DEFINE p == sessions[i].of
             k == sessions[i].kind
  <2>1. sessions[i] \in Session
    BY StoredIsSession DEF SessionsInv, SessionsTyped, Stored
  <2>2. p \in Principals /\ k \in Kinds
    BY <2>1 DEF Session
  <2>3. OfKind(p, k) = {j \in Stored : /\ sessions[j].of = sessions[i].of
                                       /\ sessions[j].kind = sessions[i].kind}
    BY DEF OfKind
  <2>4. i \in OfKind(p, k)
    BY DEF OfKind
  <2>5. /\ Cardinality(OfKind(p, k)) <= Limits[k]
        /\ \A i1, j \in OfKind(p, k) : sessions[i1].device = sessions[j].device => i1 = j
    BY <2>2 DEF SessionsInv, Seated
  <2> QED BY <2>3, <2>4, <2>5
<1> QED BY <1>1 DEF SessionsTypeOK, SessionsInv, SessionsTyped, Indexed, Seated, Noticed

LEMMA SessionsStart == SessionsInit => SessionsInv
<1> SUFFICES ASSUME SessionsInit PROVE SessionsInv
  OBVIOUS
<1>1. Stored = {}
  BY DEF SessionsInit, Stored
<1>2. \A p, k : OfKind(p, k) = {}
  BY <1>1 DEF OfKind
<1>3. SessionsTyped /\ Indexed
  BY <1>1, SessionsAssumption DEF SessionsInit, SessionsTyped, Indexed
<1>4. Seated
  BY <1>1, <1>2, FS_EmptySet, SessionsAssumption DEF Seated
<1> QED BY <1>1, <1>3, <1>4 DEF SessionsInv, SessionsInit, Noticed

\* A step that takes sessions out, and tells of some of them.
TakesOut(gone) ==
    /\ sessions' = Without(gone) /\ digests' = digests \ gone /\ listed' = Unlisted(gone)
    /\ nextId' = nextId
    /\ notices \subseteq notices' /\ notices' \subseteq notices \cup gone

\* It keeps the table, for what it kept of it.
LEMMA TakenOut ==
    ASSUME SessionsInv, NEW gone \in SUBSET Stored, TakesOut(gone)
    PROVE  /\ SessionsInv'
           /\ Stored' = Stored \ gone
           /\ \A i \in Stored' : sessions'[i] = sessions[i]
<1>1. Stored' = Stored \ gone /\ \A i \in Stored' : sessions'[i] = sessions[i]
  BY DEF TakesOut, Without, Stored
<1>2. SessionsTyped'
  BY <1>1 DEF SessionsInv, SessionsTyped, TakesOut, Without
<1>3. Indexed'
  <2>1. listed' = [p \in Principals |-> {i \in Stored : sessions[i].of = p} \ gone]
    BY DEF SessionsInv, Indexed, TakesOut, Unlisted
  <2>2. \A p \in Principals :
          {i \in Stored : sessions[i].of = p} \ gone = {i \in Stored' : sessions'[i].of = p}
    BY <1>1
  <2>3. digests' = Stored'
    BY <1>1 DEF SessionsInv, Indexed, TakesOut
  <2> QED BY <2>1, <2>2, <2>3 DEF Indexed
<1>4. Seated'
  <2>1. Cardinality(Stored') <= MaximumSessions
    <3>1. Cardinality(Stored') <= Cardinality(Stored) /\ Cardinality(Stored') \in Nat
      BY <1>1, StoredIsFinite, FS_CardinalityType
    <3> QED BY <3>1, StoredIsFinite, FS_CardinalityType, SessionsAssumption
            DEF SessionsInv, Seated
  <2>2. ASSUME NEW p \in Principals, NEW k \in Kinds
        PROVE  /\ Cardinality(OfKind(p, k)') <= Limits[k]
               /\ \A i, j \in OfKind(p, k)' : sessions'[i].device = sessions'[j].device => i = j
    <3>1. OfKind(p, k)' \subseteq OfKind(p, k)
      BY <1>1 DEF OfKind
    <3>2. IsFiniteSet(OfKind(p, k))
      BY StoredIsFinite DEF OfKind
    <3>3. /\ Cardinality(OfKind(p, k)') <= Cardinality(OfKind(p, k))
          /\ Cardinality(OfKind(p, k)') \in Nat /\ Cardinality(OfKind(p, k)) \in Nat
      BY <3>1, <3>2, FS_Subset, FS_CardinalityType
    <3>4. Cardinality(OfKind(p, k)) <= Limits[k] /\ Limits[k] \in Nat
      BY SessionsAssumption DEF SessionsInv, Seated
    <3>5. \A i \in OfKind(p, k)' : i \in Stored' /\ i \in OfKind(p, k)
      BY <3>1 DEF OfKind
    <3> QED BY <1>1, <3>3, <3>4, <3>5 DEF SessionsInv, Seated
  <2> QED BY <2>1, <2>2 DEF Seated
<1>5. Noticed'
  BY <1>1 DEF SessionsInv, SessionsTyped, Noticed, TakesOut, Stored
<1> QED BY <1>1, <1>2, <1>3, <1>4, <1>5 DEF SessionsInv

\* A step that marks sessions: each stays whose it is, of its kind, on its device.
Marks ==
    /\ sessions' \in [Ids -> Session \cup {NoSession}]
    /\ \A i \in Ids :
         /\ sessions'[i] = NoSession <=> sessions[i] = NoSession
         /\ i \in Stored => /\ sessions'[i].of = sessions[i].of
                            /\ sessions'[i].kind = sessions[i].kind
                            /\ sessions'[i].device = sessions[i].device
    /\ UNCHANGED <<digests, listed, nextId, notices>>

LEMMA Marked ==
    ASSUME SessionsInv, Marks
    PROVE  SessionsInv' /\ Stored' = Stored
<1>1. Stored' = Stored
  BY DEF Marks, Stored
<1>2. \A p \in Principals, k \in Kinds : OfKind(p, k)' = OfKind(p, k)
  BY <1>1 DEF OfKind, Marks, Stored
<1>3. SessionsTyped'
  BY <1>1 DEF SessionsInv, SessionsTyped, Marks
<1>4. Indexed'
  <2>1. \A p \in Principals :
          {i \in Stored : sessions[i].of = p} = {i \in Stored' : sessions'[i].of = p}
    BY <1>1 DEF Marks, Stored
  <2> QED BY <1>1, <2>1 DEF SessionsInv, Indexed, Marks
<1>5. Seated'
  <2>1. \A i \in Stored : sessions'[i].device = sessions[i].device
    BY DEF Marks, Stored
  <2>2. \A p \in Principals, k \in Kinds : OfKind(p, k) \subseteq Stored
    BY DEF OfKind
  <2> QED BY <1>1, <1>2, <2>1, <2>2 DEF SessionsInv, Seated
<1> QED BY <1>1, <1>3, <1>4, <1>5 DEF SessionsInv, Noticed, Marks

\* What an issue finds: its peers are the live sessions of a principal and kind.
LEMMA PeersAreOfKind ==
    ASSUME SessionsInv, NEW p \in Principals, NEW k, NEW d
    PROVE  /\ Peers(p, k) = OfKind(p, k) \ Expired
           /\ Replaced(p, d, k) \subseteq Live /\ Replaced(p, d, k) \subseteq OfKind(p, k)
  BY DEF SessionsInv, Indexed, Peers, Replaced, OfKind, Live

\* A session that is issued takes the place of those on its device, and has room.
LEMMA Issued ==
    ASSUME SessionsInv, NEW p \in Principals, NEW d \in Devices, NEW k \in Kinds,
           Issue(p, d, k)
    PROVE  /\ SessionsInv'
           /\ nextId \in Ids \ Stored
           /\ Stored' = (Live \ Replaced(p, d, k)) \cup {nextId}
           /\ \A i \in Stored' \ {nextId} : sessions'[i] = sessions[i]
           /\ sessions'[nextId].of = p /\ sessions'[nextId].age = "Fresh"
<1> DEFINE new == [of |-> p, device |-> d, kind |-> k, age |-> "Fresh", reauth |-> "Never"]
           gone == Expired \cup Replaced(p, d, k)
           kept == Live \ Replaced(p, d, k)
<1>1. nextId \in Ids /\ nextId \notin Stored
  BY SessionsAssumption DEF Issue, SessionsInv, SessionsTyped, Ids
<1>2. new \in Session /\ new # NoSession
  BY DEF Session, NoSession, Kinds
<1>3. sessions' = [i \in Ids |-> IF i = nextId THEN new
                                 ELSE IF i \in gone THEN NoSession ELSE sessions[i]]
  BY <1>1 DEF Issue, Without
<1>4. /\ Stored' = kept \cup {nextId}
      /\ \A i \in Stored' \ {nextId} : sessions'[i] = sessions[i] /\ i \in kept
      /\ sessions'[nextId] = new
  <2>1. Stored' = {i \in Ids : sessions'[i] # NoSession}
    BY DEF Stored
  <2>2. \A i \in Ids : i \in Stored' <=> i = nextId \/ i \in Stored \ gone
    BY <1>1, <1>2, <1>3, <2>1 DEF Stored
  <2>3. Stored \ gone = kept /\ kept \subseteq Ids
    BY DEF Live, Stored
  <2> QED BY <1>1, <1>3, <2>1, <2>2, <2>3
<1>5. kept \subseteq Stored /\ nextId \notin kept
  BY <1>1 DEF Live
<1>6. SessionsTyped'
  <2>1. sessions' \in [Ids -> Session \cup {NoSession}]
    BY <1>2, <1>3 DEF SessionsInv, SessionsTyped
  <2>2. nextId' = nextId + 1 /\ nextId <= MaxIds /\ nextId \in 1..MaxIds + 1
    BY DEF Issue, SessionsInv, SessionsTyped
  <2>3. \A i \in Stored' : i < nextId'
    BY <1>4, <1>5, <2>2, SessionsAssumption DEF SessionsInv, SessionsTyped, Stored, Ids
  <2> QED BY <2>1, <2>2, <2>3, SessionsAssumption DEF SessionsTyped
<1>7. Indexed'
  <2>1. digests' = Stored'
    BY <1>4 DEF Issue, SessionsInv, Indexed, Live
  <2>2. listed' = [q \in Principals |->
                     IF q = p THEN (listed[q] \ gone) \cup {nextId} ELSE listed[q] \ gone]
    BY DEF Issue, Unlisted
  <2>3. ASSUME NEW q \in Principals
        PROVE  listed'[q] = {i \in Stored' : sessions'[i].of = q}
    <3>1. listed[q] \ gone = {i \in kept : sessions[i].of = q}
      BY DEF SessionsInv, Indexed, Live
    <3>2. {i \in Stored' : sessions'[i].of = q} =
            {i \in kept : sessions[i].of = q} \cup IF p = q THEN {nextId} ELSE {}
      BY <1>4, <1>5
    <3> QED BY <2>2, <3>1, <3>2
  <2> QED BY <2>1, <2>2, <2>3 DEF Indexed
<1> HIDE DEF new, gone
<1>8. Cardinality(Stored') <= MaximumSessions
  <2>1. IsFiniteSet(Live) /\ IsFiniteSet(Replaced(p, d, k)) /\ Replaced(p, d, k) \subseteq Live
    BY StoredIsFinite, PeersAreOfKind DEF Live
  <2>2. /\ IsFiniteSet(kept)
        /\ Cardinality(kept) = Cardinality(Live) - Cardinality(Live \cap Replaced(p, d, k))
    BY <2>1, FS_Difference
  <2>3. Live \cap Replaced(p, d, k) = Replaced(p, d, k)
    BY <2>1
  <2>4. Cardinality(kept \cup {nextId}) = Cardinality(kept) + 1
    BY <1>5, <2>2, FS_AddElement
  <2>5. Cardinality(Live) + 1 <= MaximumSessions + Cardinality(Replaced(p, d, k))
    BY DEF Issue, HasRoom
  <2>6. /\ Cardinality(Live) \in Nat /\ Cardinality(Replaced(p, d, k)) \in Nat
        /\ Cardinality(kept) \in Nat /\ MaximumSessions \in Nat
    BY <2>1, <2>2, FS_CardinalityType, SessionsAssumption
  <2>7. Cardinality(Stored') = Cardinality(kept) + 1
    BY <1>4, <2>4
  <2>8. Cardinality(kept) = Cardinality(Live) - Cardinality(Replaced(p, d, k))
    BY <2>2, <2>3
  <2> HIDE DEF kept
  <2> QED BY <2>5, <2>6, <2>7, <2>8
<1>9. ASSUME NEW q \in Principals, NEW l \in Kinds
      PROVE  /\ Cardinality(OfKind(q, l)') <= Limits[l]
             /\ \A i, j \in OfKind(q, l)' : sessions'[i].device = sessions'[j].device => i = j
  <2>0. IsFiniteSet(OfKind(q, l))
    BY StoredIsFinite DEF OfKind
  <2>1. CASE q = p /\ l = k
    <3> DEFINE others == Peers(p, k) \ Replaced(p, d, k)
    <3>1. OfKind(q, l)' = others \cup {nextId}
      <4>1. others = {i \in kept : sessions[i].of = p /\ sessions[i].kind = k}
        BY PeersAreOfKind DEF OfKind, Live
      <4>2. OfKind(q, l)' =
              {i \in kept : sessions[i].of = p /\ sessions[i].kind = k} \cup {nextId}
        BY <1>4, <1>5, <2>1 DEF OfKind, new
      <4> QED BY <4>1, <4>2
    <3>2. others \subseteq OfKind(q, l) /\ others \subseteq kept
      BY <2>1, PeersAreOfKind DEF Live, OfKind
    <3>3. IsFiniteSet(others) /\ Cardinality(others) \in Nat
      BY <2>0, <3>2, FS_Subset, FS_CardinalityType
    <3>4. Cardinality(others) < Limits[k] /\ Limits[k] \in Nat
      BY SessionsAssumption DEF Issue, HasRoom
    <3>5. Cardinality(others \cup {nextId}) = Cardinality(others) + 1
      <4>1. nextId \notin others
        BY <1>5, <3>2
      <4> HIDE DEF others
      <4> QED BY <3>3, <4>1, FS_AddElement
    <3>6. \A i \in others : sessions[i].device # d
      BY DEF Replaced
    <3>7. \A i, j \in others : sessions[i].device = sessions[j].device => i = j
      BY <3>2 DEF SessionsInv, Seated
    <3>8. sessions'[nextId].device = d /\ \A i \in others : sessions'[i] = sessions[i]
      BY <1>4, <1>5, <3>2 DEF new
    <3> HIDE DEF others
    <3> QED BY <2>1, <3>1, <3>3, <3>4, <3>5, <3>6, <3>7, <3>8
  <2>2. CASE ~(q = p /\ l = k)
    <3>1. OfKind(q, l)' \subseteq OfKind(q, l) /\ OfKind(q, l)' \subseteq kept
      BY <1>4, <1>5, <2>2 DEF OfKind, new
    <3>2. /\ Cardinality(OfKind(q, l)') <= Cardinality(OfKind(q, l))
          /\ Cardinality(OfKind(q, l)') \in Nat /\ Cardinality(OfKind(q, l)) \in Nat
      BY <2>0, <3>1, FS_Subset, FS_CardinalityType
    <3>3. Cardinality(OfKind(q, l)) <= Limits[l] /\ Limits[l] \in Nat
      BY SessionsAssumption DEF SessionsInv, Seated
    <3>4. \A i \in OfKind(q, l)' : sessions'[i] = sessions[i] /\ i \in OfKind(q, l)
      BY <1>4, <1>5, <3>1
    <3> QED BY <3>2, <3>3, <3>4 DEF SessionsInv, Seated
  <2> QED BY <2>1, <2>2
<1>10. Noticed'
  <2>1. /\ notices' = notices \cup Replaced(p, d, k) /\ notices \subseteq Ids \ Stored
        /\ nextId' = nextId + 1 /\ nextId \in Nat
        /\ \A i \in notices \cup Stored : i < nextId /\ i \in Nat
    BY SessionsAssumption DEF Issue, SessionsInv, SessionsTyped, Noticed, Stored, Ids
  <2>2. Replaced(p, d, k) \subseteq Ids /\ Replaced(p, d, k) \cap kept = {}
    BY PeersAreOfKind DEF Live, Stored
  <2>3. Replaced(p, d, k) \subseteq Stored
    BY PeersAreOfKind DEF Live
  <2>4. nextId \notin notices /\ \A i \in notices' : i < nextId'
    BY <2>1, <2>3
  <2>5. notices' \subseteq Ids \ Stored'
    <3>1. \A i \in notices' : i \in Ids /\ i \notin kept /\ i # nextId
      BY <1>1, <1>5, <2>1, <2>2, <2>3, <2>4
    <3> HIDE DEF kept
    <3> QED BY <1>4, <3>1
  <2> QED BY <2>4, <2>5 DEF Noticed
<1>11. Seated'
  BY <1>8, <1>9 DEF Seated
<1> QED BY <1>1, <1>4, <1>6, <1>7, <1>10, <1>11 DEF SessionsInv, new

\* What a step other than an issue leaves of the live sessions: some of them,
\* each of the principal it was of.
Fewer ==
    /\ nextId' = nextId
    /\ \A i \in Stored' : i \in Stored /\ sessions'[i].of = sessions[i].of
    /\ \A i \in Live' : i \in Live

LEMMA TakenOutFewer ==
    ASSUME SessionsInv, NEW gone \in SUBSET Stored, TakesOut(gone)
    PROVE  SessionsInv' /\ Fewer /\ Stored' = Stored \ gone
<1>1. /\ SessionsInv' /\ Stored' = Stored \ gone
      /\ \A i \in Stored' : sessions'[i] = sessions[i]
  BY TakenOut
<1>2. \A i \in Live' : i \in Live
  BY <1>1 DEF Live, Expired
<1> QED BY <1>1, <1>2 DEF Fewer, TakesOut

\* The operations that take sessions out.
LEMMA ErasedExpired ==
    ASSUME SessionsInv, Erase(Expired), UNCHANGED notices
    PROVE  SessionsInv' /\ Fewer
<1>1. Expired \subseteq Stored /\ TakesOut(Expired)
  BY DEF Erase, TakesOut, Expired
<1> QED BY <1>1, TakenOutFewer

LEMMA NotSeenFewer ==
    ASSUME SessionsInv, NEW i \in Ids, NotSeen(i)
    PROVE  SessionsInv' /\ Fewer
<1>1. {i} \subseteq Stored /\ TakesOut({i})
  BY DEF NotSeen, Erase, TakesOut, SessionsInv, Indexed
<1> QED BY <1>1, TakenOutFewer

LEMMA RevokedOne ==
    ASSUME SessionsInv, NEW p, NEW i, RevokeOne(p, i)
    PROVE  SessionsInv' /\ Fewer
<1>1. {i} \subseteq Stored /\ TakesOut({i})
  BY DEF RevokeOne, Erase, TakesOut
<1> QED BY <1>1, TakenOutFewer

\* Of a principal that is revoked nothing is left, ...
LEMMA RevokedPrincipal ==
    ASSUME SessionsInv, NEW p \in Principals, RevokePrincipal(p)
    PROVE  SessionsInv' /\ Fewer /\ \A i \in Stored' : sessions'[i].of # p
<1>1. listed[p] = {i \in Stored : sessions[i].of = p}
  BY DEF SessionsInv, Indexed
<1>2. listed' = Unlisted(listed[p])
  <2>1. \A q \in Principals : q # p => listed[q] \ listed[p] = listed[q]
    BY <1>1 DEF SessionsInv, Indexed
  <2>2. listed' = [q \in Principals |-> IF q = p THEN {} ELSE listed[q]]
    BY DEF RevokePrincipal, SessionsInv, Indexed
  <2> QED BY <2>1, <2>2 DEF Unlisted
<1>3. TakesOut(listed[p])
  BY <1>2 DEF RevokePrincipal, TakesOut
<1>4. SessionsInv' /\ Fewer /\ Stored' = Stored \ listed[p]
  BY <1>1, <1>3, TakenOutFewer
<1> QED BY <1>1, <1>4 DEF Fewer

\* ... and of one whose other sessions are, at most the one that goes on.
LEMMA RevokedOthers ==
    ASSUME SessionsInv, NEW p \in Principals, NEW current, RevokeOthers(p, current),
           current \in Stored => sessions[current].of = p
    PROVE  SessionsInv' /\ Fewer /\ \A i \in Stored' : sessions'[i].of = p => i = current
<1> DEFINE gone == listed[p] \ {current}
<1>1. listed[p] = {i \in Stored : sessions[i].of = p}
  BY DEF SessionsInv, Indexed
<1>2. listed' = Unlisted(gone)
  <2>1. \A q \in Principals : q # p => listed[q] \ gone = listed[q]
    BY <1>1 DEF SessionsInv, Indexed
  <2>2. listed[p] \ gone = IF listed[p] = {} \/ current \notin Stored THEN {} ELSE {current}
    BY <1>1
  <2>3. listed' = [q \in Principals |->
           IF q = p THEN IF listed[p] = {} \/ current \notin Stored THEN {} ELSE {current}
           ELSE listed[q]]
    BY DEF RevokeOthers, SessionsInv, Indexed
  <2> HIDE DEF gone
  <2> QED BY <2>1, <2>2, <2>3 DEF Unlisted
<1>3. TakesOut(gone)
  BY <1>2 DEF RevokeOthers, TakesOut
<1>4. gone \subseteq Stored
  BY <1>1
<1>5. SessionsInv' /\ Fewer /\ Stored' = Stored \ gone
  <2> HIDE DEF gone
  <2> QED BY <1>3, <1>4, TakenOutFewer
<1> QED BY <1>1, <1>5 DEF Fewer

\* The operations that mark one.
LEMMA MarkedFewer ==
    ASSUME SessionsInv, Marks, \A i \in Live' : i \in Live
    PROVE  SessionsInv' /\ Fewer
<1>1. SessionsInv' /\ Stored' = Stored
  BY Marked
<1> QED BY <1>1 DEF Fewer, Marks, Stored

LEMMA MarkOne ==
    ASSUME SessionsInv, NEW i \in Stored, NEW s \in Session,
           sessions' = [sessions EXCEPT ![i] = s],
           s.of = sessions[i].of, s.kind = sessions[i].kind, s.device = sessions[i].device,
           s.age # "Expired" => sessions[i].age # "Expired",
           UNCHANGED <<digests, listed, nextId, notices>>
    PROVE  SessionsInv' /\ Fewer
<1>1. s # NoSession /\ i \in Ids /\ sessions[i] # NoSession
  BY DEF Session, NoSession, Kinds, Stored
<1>2. sessions \in [Ids -> Session \cup {NoSession}]
  BY DEF SessionsInv, SessionsTyped
<1>3. Marks
  BY <1>1, <1>2 DEF Marks
<1>4. Stored' = Stored
  BY <1>3, Marked
<1>5. \A j \in Live' : j \in Live
  BY <1>1, <1>2, <1>4 DEF Live, Expired, Stored
<1> QED BY <1>3, <1>5, MarkedFewer

LEMMA SeenFewer ==
    ASSUME SessionsInv, NEW i \in Ids, Seen(i)
    PROVE  SessionsInv' /\ Fewer
<1>1. i \in Stored /\ sessions[i] \in Session
  BY StoredIsSession DEF Seen, SessionsInv, SessionsTyped, Indexed
<1> DEFINE s == [sessions[i] EXCEPT !.age = "Fresh"]
<1>2. s \in Session /\ s.of = sessions[i].of /\ s.kind = sessions[i].kind
      /\ s.device = sessions[i].device
  BY <1>1 DEF Session
<1>3. sessions' = [sessions EXCEPT ![i] = s] /\ UNCHANGED <<digests, listed, nextId, notices>>
  BY DEF Seen
<1>4. sessions[i].age # "Expired"
  BY DEF Seen, Lapsed
<1> HIDE DEF s
<1> QED BY <1>1, <1>2, <1>3, <1>4, MarkOne

LEMMA ReauthenticatedFewer ==
    ASSUME SessionsInv, NEW i \in Ids, MarkReauthenticated(i)
    PROVE  SessionsInv' /\ Fewer
<1>1. i \in Stored /\ sessions[i] \in Session
  BY StoredIsSession DEF MarkReauthenticated, SessionsInv, SessionsTyped, Live
<1> DEFINE s == [sessions[i] EXCEPT !.reauth = "Recent"]
<1>2. s \in Session /\ s.of = sessions[i].of /\ s.kind = sessions[i].kind
      /\ s.device = sessions[i].device /\ s.age = sessions[i].age
  BY <1>1 DEF Session
<1>3. sessions' = [sessions EXCEPT ![i] = s] /\ UNCHANGED <<digests, listed, nextId, notices>>
  BY DEF MarkReauthenticated
<1> HIDE DEF s
<1> QED BY <1>1, <1>2, <1>3, MarkOne

LEMMA OlderFewer ==
    ASSUME SessionsInv, NEW i \in Ids, Older(i)
    PROVE  SessionsInv' /\ Fewer
<1>1. i \in Stored /\ sessions[i] \in Session /\ sessions[i].age # "Expired"
  BY StoredIsSession DEF Older, SessionsInv, SessionsTyped, Live, Expired
<1>2. PICK s \in {[sessions[i] EXCEPT !.age = "Idle"], [sessions[i] EXCEPT !.age = "Expired"],
                  [sessions[i] EXCEPT !.reauth = "Old"]} :
        sessions' = [sessions EXCEPT ![i] = s]
  BY DEF Older
<1>3. s \in Session /\ s.of = sessions[i].of /\ s.kind = sessions[i].kind
      /\ s.device = sessions[i].device
  BY <1>1 DEF Session
<1>4. UNCHANGED <<digests, listed, nextId, notices>>
  BY DEF Older
<1> QED BY <1>1, <1>2, <1>3, <1>4, MarkOne

\* Nothing happens to the sessions.
LEMMA SameSessions ==
    ASSUME SessionsInv, UNCHANGED sessionVars
    PROVE  SessionsInv' /\ Fewer
<1>1. Stored' = Stored /\ Live' = Live
  BY DEF sessionVars, Stored, Live, Expired
<1>2. Fewer
  BY <1>1 DEF sessionVars, Fewer
<1>3. \A p, k : OfKind(p, k)' = OfKind(p, k)
  BY <1>1 DEF sessionVars, OfKind
<1> QED BY <1>1, <1>2, <1>3
        DEF sessionVars, SessionsInv, SessionsTyped, Indexed, Seated, Noticed

-----------------------------------------------------------------------------
\* Operations under way.
LoginOp == [op: {"Login"}, at: {"Read", "Judge", "Issue", "Find", "Create"},
            who: Principals \cup Phones, device: Devices, kind: Kinds,
            guess: Passwords \cup {"none"}, saw: Account, raced: BOOLEAN, epoch: Nat]
ChangeOp == [op: {"SetStatus", "ChangePassword", "DeleteAccount", "Reauthenticate"},
             at: {"Write", "Revoke", "Commit", "Mark"}, by: Ids, who: Principals,
             saw: Account, guess: Passwords \cup {"none"}, raced: BOOLEAN]

\* A login knows a phone first, or an account; the steps of a change are those
\* of its kind.
OpFits(o) ==
    \/ o = Idle
    \/ /\ o \in LoginOp
       /\ IF o.at \in {"Find", "Create"} THEN o.who \in Phones ELSE o.who \in Principals
    \/ /\ o \in ChangeOp
       /\ o.at = "Mark" <=> o.op = "Reauthenticate"
       /\ o.op = "SetStatus" => /\ o.saw.state \in {"Enabled", "Disabled"}
                                /\ o.at = "Revoke" => o.saw.state = "Disabled"
       /\ o.at = "Commit" => o.op = "SetStatus"
       /\ o.op = "DeleteAccount" => o.who \in Users

ThreadsInv == scene \in DOMAIN Scenes /\ DOMAIN threads = Threads /\ \A t \in Threads : OpFits(threads[t])

\* An account once made is there for ever: those with a session, those logged in
\* to and those a password is changed of are.
Made(p) == accounts[p].state # "None"
Met(o) ==
    /\ o.op = "Login" /\ o.at = "Judge" => o.saw.state = "None" \/ Made(o.who)
    /\ o.op = "Login" /\ o.at = "Issue" => Made(o.who)
    /\ o.op \in {"ChangePassword", "DeleteAccount"} => Made(o.who)
    /\ o \in ChangeOp /\ o.at \in {"Revoke", "Commit"} => Made(o.who)
AllMet ==
    /\ \A t \in Threads : Met(threads[t])
    /\ \A i \in Stored : Made(sessions[i].of)

\* The session that changes a password is one of the account.
Asked(o) ==
    o.op = "ChangePassword" =>
      /\ o.by \in Ids /\ o.by < nextId
      /\ o.by \in Stored => sessions[o.by].of = o.who
AllAsked == \A t \in Threads : Asked(threads[t])

AccountsInv ==
    /\ accounts \in [Principals -> Account] /\ audits \in [Principals -> Nat]
    /\ \A p \in Principals : Made(p) \/ accounts[p] = NoAccount
    /\ \A p \in Admins :
         audits[p] + Cardinality(Scenes[scene].present \cap {p}) = accounts[p].version
    /\ \A p, q \in Users : PhoneOf[p] = PhoneOf[q] /\ p # q
         => {accounts[p].state, accounts[q].state} \cap {"None", "Deleted"} # {}

\* One thread writes, and what it writes to is there to be written to.
WritersInv ==
    /\ \A t, u \in Writing : t = u
    /\ \A t \in Writing : accounts[threads[t].who].state \in {"Enabled", "Disabled"}

\* A change of p that takes its sessions away ...
Disabling == {t \in Writing : threads[t].saw.state = "Disabled"}
Revoking(p) ==
    {t \in Busied : /\ threads[t].op \in {"ChangePassword", "DeleteAccount"}
                    /\ threads[t].at = "Revoke" /\ threads[t].who = p}
\* ... leaves no login and no session from before it that nobody knows of.
EpochsTyped == epoch \in [Principals -> Nat] /\ basis \in [Ids -> Nat]
LoginsKnow ==
    \A p \in Principals : \A t \in LoggingIn(p) :
      threads[t].raced \/ threads[t].epoch = epoch[p]
Barred(t) ==
    /\ \A u \in LoggingIn(threads[t].who) : threads[u].raced
    /\ threads[t].at = "Commit" =>
         \A i \in Live : sessions[i].of = threads[t].who => i \in raced
AllBarred == \A t \in Disabling : Barred(t)
Founded(i) == i \in raced \/ basis[i] = epoch[sessions[i].of] \/ Revoking(sessions[i].of) # {}
AllFounded == \A i \in Live : Founded(i)
FreshInv == EpochsTyped /\ LoginsKnow /\ AllBarred /\ AllFounded

AccessInv == ThreadsInv /\ AllMet /\ AllAsked /\ AccountsInv /\ WritersInv /\ FreshInv

-----------------------------------------------------------------------------
\* What a step does to the sessions is one operation of the session manager.
LEMMA SessionCalls ==
    ASSUME Next
    PROVE  \/ UNCHANGED sessionVars
           \/ \E i \in Ids : Seen(i) \/ NotSeen(i) \/ MarkReauthenticated(i) \/ Older(i)
           \/ Erase(Expired) /\ UNCHANGED notices
           \/ \E p \in {sessions[i].of : i \in Live}, j \in Live : RevokeOne(p, j)
           \/ \E t \in Threads : \/ LoginIssues(t) \/ StatusRevokes(t)
                                 \/ DeletionRevokes(t) \/ PasswordRevokes(t)
<1>0. Live \subseteq Ids
  BY DEF Live, Stored
<1>1. CASE LoginSteps
  <2> USE <1>1
  <2>1. PICK t \in Scenes[scene].threads :
      \/ \E n \in Admins, d \in Scenes[scene].devices, k \in Scenes[scene].kinds,
            w \in Scenes[scene].guesses : AdminLogin(t, n, d, k, w)
      \/ \E u \in Users, d \in Scenes[scene].devices, w \in Scenes[scene].guesses,
            c \in Scenes[scene].clients : UserLogin(t, u, d, w, c)
      \/ \E ph \in Phones, d \in Scenes[scene].devices, right \in BOOLEAN :
           \/ SmsLogin(t, ph, d, right)
           \/ \E w \in Passwords : Register(t, ph, d, w, right)
      \/ LoginReads(t) \/ AdminJudged(t) \/ UserJudged(t) \/ LoginIssues(t)
      \/ SmsFinds(t) \/ CreateAccount(t)
    BY DEF LoginSteps
  <2>2. LoginIssues(t) => t \in Threads
    BY DEF LoginIssues, At, Busied
  <2> QED BY <2>1, <2>2 DEF AdminLogin, UserLogin, SmsLogin, Register, LoginReads,
                            AdminJudged, UserJudged, SmsFinds, CreateAccount
<1>2. CASE ChangeSteps
  <2> USE <1>2
  <2>1. PICK t \in Scenes[scene].threads :
      \/ \E i \in Live, p \in Scenes[scene].targets, state \in {"Enabled", "Disabled"} :
           SetStatus(t, i, p, state)
      \/ StatusWrites(t) \/ StatusRevokes(t) \/ StatusCommits(t)
      \/ \E i \in Live, w, guess \in Passwords : ChangePassword(t, i, w, guess)
      \/ \E i \in Live, w \in Passwords, right \in BOOLEAN : ResetPassword(t, i, w, right)
      \/ PasswordWrites(t) \/ PasswordRevokes(t)
      \/ \E i \in Live, proof \in {"password", "code", "wrong code"} :
           DeleteAccount(t, i, proof)
      \/ DeletionWrites(t) \/ DeletionRevokes(t)
      \/ \E i \in Live : Reauthenticate(t, i)
      \/ ReauthMarks(t)
    BY DEF ChangeSteps
  <2>2. StatusRevokes(t) \/ PasswordRevokes(t) \/ DeletionRevokes(t) => t \in Threads
    BY DEF StatusRevokes, PasswordRevokes, DeletionRevokes, At, Busied
  <2>3. CASE \E i \in Live, p \in Scenes[scene].targets, state \in {"Enabled", "Disabled"} :
               SetStatus(t, i, p, state)
    BY <1>0, <2>3 DEF SetStatus
  <2>4. CASE \E i \in Live, w, guess \in Passwords : ChangePassword(t, i, w, guess)
    BY <1>0, <2>4 DEF ChangePassword
  <2>5. CASE \E i \in Live, w \in Passwords, right \in BOOLEAN : ResetPassword(t, i, w, right)
    BY <1>0, <2>5 DEF ResetPassword
  <2>6. CASE \E i \in Live, proof \in {"password", "code", "wrong code"} :
               DeleteAccount(t, i, proof)
    BY <1>0, <2>6 DEF DeleteAccount
  <2>7. CASE \E i \in Live : Reauthenticate(t, i)
    BY <1>0, <2>7 DEF Reauthenticate
  <2>8. CASE ReauthMarks(t)
    BY <1>0, <2>8 DEF ReauthMarks, MarkReauthenticated
  <2>9. CASE StatusWrites(t) \/ StatusCommits(t) \/ PasswordWrites(t) \/ DeletionWrites(t)
    BY <2>9 DEF StatusWrites, StatusCommits, PasswordWrites, DeletionWrites
  <2> QED BY <2>1, <2>2, <2>3, <2>4, <2>5, <2>6, <2>7, <2>8, <2>9
<1>3. CASE Plays("Enter") /\ \E i \in Live, r \in DOMAIN Route : Enter(i, r)
  BY <1>0, <1>3 DEF Enter
<1>4. CASE \E i \in Live, p \in Admins, w \in Passwords : CreateAdmin(i, p, w)
  BY <1>0, <1>4 DEF CreateAdmin
<1>5. CASE \E i \in Live : EditProfile(i)
  BY <1>0, <1>5 DEF EditProfile
<1>6. CASE \E i, j \in Live : Logout(i, j)
  BY <1>6 DEF Logout
<1>7. CASE SessionsEnd
  BY <1>7 DEF SessionsEnd, CleanupSessions
<1>8. CASE \E ph \in Phones, purpose \in Purposes : AskForCode(ph, purpose)
  BY <1>8 DEF AskForCode
<1>9. CASE TimePasses
  BY <1>9 DEF TimePasses
<1> QED BY <1>1, <1>2, <1>3, <1>4, <1>5, <1>6, <1>7, <1>8, <1>9 DEF Next

\* What is left of the sessions is of whom it was of, whatever is issued.
Kept ==
    /\ nextId <= nextId'
    /\ \A i \in Stored' : i < nextId => i \in Stored /\ sessions'[i].of = sessions[i].of

LEMMA LoginIssued ==
    ASSUME SessionsInv, ThreadsInv, NEW t \in Threads, LoginIssues(t)
    PROVE  /\ SessionsInv'
           /\ \/ /\ Fewer /\ UNCHANGED <<basis, raced>>
              \/ /\ nextId \in Ids \ Stored /\ nextId' = nextId + 1
                 /\ \A i \in Stored' \ {nextId} : i \in Stored /\ sessions'[i].of = sessions[i].of
                 /\ \A i \in Live' \ {nextId} : i \in Live
                 /\ sessions'[nextId].of = threads[t].who
                 /\ basis' = [basis EXCEPT ![nextId] = threads[t].epoch]
                 /\ raced' = raced \cup IF threads[t].raced THEN {nextId} ELSE {}
<1> DEFINE o == threads[t]
<1>1. o.who \in Principals /\ o.device \in Devices /\ o.kind \in Kinds
  BY DEF ThreadsInv, OpFits, LoginIssues, At, Busied, Free, LoginOp, ChangeOp, Idle
<1>2. CASE NotIssued(o.who, o.device, o.kind) /\ UNCHANGED <<basis, raced>>
  BY <1>2, ErasedExpired DEF NotIssued
<1>3. CASE /\ Issue(o.who, o.device, o.kind)
           /\ basis' = [basis EXCEPT ![nextId] = o.epoch]
           /\ raced' = raced \cup IF o.raced THEN {nextId} ELSE {}
  <2>1. /\ SessionsInv'
        /\ nextId \in Ids \ Stored
        /\ Stored' = (Live \ Replaced(o.who, o.device, o.kind)) \cup {nextId}
        /\ \A i \in Stored' \ {nextId} : sessions'[i] = sessions[i]
        /\ sessions'[nextId].of = o.who
    BY <1>1, <1>3, Issued
  <2>2. \A i \in Stored' \ {nextId} : i \in Stored /\ i \in Live
    BY <2>1 DEF Live
  <2>3. \A i \in Live' \ {nextId} : i \in Live
    BY <2>2 DEF Live
  <2>4. nextId' = nextId + 1
    BY <1>3 DEF Issue
  <2> QED BY <1>3, <2>1, <2>2, <2>3, <2>4
<1> QED BY <1>2, <1>3 DEF LoginIssues

\* The table keeps its invariant, and all but an issue leave it fewer.
LEMMA NextSessions ==
    ASSUME SessionsInv, ThreadsInv, AllAsked, Next
    PROVE  SessionsInv' /\ Kept /\ (Fewer \/ \E t \in Threads : LoginIssues(t))
<1>0. /\ \A i \in Stored : sessions[i].of \in Principals
      /\ nextId \in Nat /\ \A i \in Stored : i < nextId
  BY StoredIsSession, SessionsAssumption DEF SessionsInv, SessionsTyped, Stored, Session
<1>8. Fewer => Kept
  BY <1>0 DEF Fewer, Kept
<1>1. CASE UNCHANGED sessionVars
  BY <1>1, <1>8, SameSessions
<1>2. CASE \E i \in Ids : Seen(i) \/ NotSeen(i) \/ MarkReauthenticated(i) \/ Older(i)
  BY <1>2, <1>8, SeenFewer, NotSeenFewer, ReauthenticatedFewer, OlderFewer
<1>3. CASE Erase(Expired) /\ UNCHANGED notices
  BY <1>3, <1>8, ErasedExpired
<1>4. CASE \E p \in {sessions[i].of : i \in Live}, j \in Live : RevokeOne(p, j)
  BY <1>4, <1>8, RevokedOne
<1>5. ASSUME NEW t \in Threads, StatusRevokes(t) \/ DeletionRevokes(t)
      PROVE  SessionsInv' /\ Fewer
  <2>1. threads[t].who \in Principals
    BY <1>5 DEF ThreadsInv, OpFits, StatusRevokes, DeletionRevokes, At, Busied, Free, LoginOp,
                ChangeOp, Idle
  <2>2. RevokePrincipal(threads[t].who)
    BY <1>5 DEF StatusRevokes, DeletionRevokes
  <2> QED BY <2>1, <2>2, RevokedPrincipal
<1>6. ASSUME NEW t \in Threads, PasswordRevokes(t)
      PROVE  SessionsInv' /\ Fewer
  <2>1. threads[t].who \in Principals
    BY <1>6 DEF ThreadsInv, OpFits, PasswordRevokes, At, Busied, Free, LoginOp, ChangeOp, Idle
  <2>2. RevokeOthers(threads[t].who, threads[t].by)
    BY <1>6 DEF PasswordRevokes
  <2>3. threads[t].by \in Stored => sessions[threads[t].by].of = threads[t].who
    BY <1>6 DEF PasswordRevokes, At, AllAsked, Asked
  <2> QED BY <2>1, <2>2, <2>3, RevokedOthers
<1>7. CASE \E t \in Threads : LoginIssues(t)
  <2>1. PICK t \in Threads : LoginIssues(t)
    BY <1>7
  <2>2. SessionsInv' /\ Kept
    BY <1>0, <2>1, LoginIssued DEF Kept, Fewer
  <2> QED BY <1>7, <2>2
<1> QED BY <1>1, <1>2, <1>3, <1>4, <1>5, <1>6, <1>7, <1>8, SessionCalls

-----------------------------------------------------------------------------
\* Threads.  What is known of an operation by its kind.
LEMMA OpByKind ==
    ASSUME NEW o, OpFits(o)
    PROVE  /\ o # Idle <=> o.op # "Idle"
           /\ o.op = "Login" => o \in LoginOp /\ (o.at \in {"Find", "Create"} => o.who \in Phones)
                                /\ (o.at \notin {"Find", "Create"} => o.who \in Principals)
           /\ o.op \notin {"Idle", "Login"} => o \in ChangeOp
  BY DEF OpFits, Idle, LoginOp, ChangeOp

LEMMA Under ==
    ASSUME ThreadsInv, NEW t, NEW op, NEW at, At(t, op, at)
    PROVE  /\ t \in Threads /\ OpFits(threads[t])
           /\ op = "Login" => threads[t] \in LoginOp
           /\ op # "Login" => threads[t] \in ChangeOp
  BY OpByKind DEF At, Busied, Free, ThreadsInv

\* A thread takes up an operation, or leaves its own.
LEMMA Placed ==
    ASSUME ThreadsInv, NEW t \in Threads, NEW o, OpFits(o),
           threads' = [threads EXCEPT ![t] = o], scene' = scene
    PROVE  ThreadsInv'
  BY DEF ThreadsInv

LEMMA Ended ==
    ASSUME ThreadsInv, NEW t \in Threads, Ends(t), scene' = scene
    PROVE  ThreadsInv'
<1>1. OpFits(Idle)
  BY DEF OpFits
<1> QED BY <1>1, Placed DEF Ends

\* A login moves on; one of a phone has found its account.
LEMMA LoginFits ==
    ASSUME NEW o \in LoginOp, OpFits(o)
    PROVE  /\ o.at = "Judge" => OpFits([o EXCEPT !.at = "Issue"])
           /\ o.at = "Find" => OpFits([o EXCEPT !.at = "Create"])
           /\ OpFits([o EXCEPT !.raced = TRUE])
           /\ \A saw \in Account, e \in Nat, r \in BOOLEAN : o.at = "Read" =>
                OpFits([o EXCEPT !.at = "Judge", !.saw = saw, !.epoch = e, !.raced = r])
           /\ \A p \in Principals, e \in Nat, r \in BOOLEAN :
                /\ OpFits([o EXCEPT !.at = "Issue", !.who = p, !.epoch = e, !.raced = r])
                /\ OpFits([o EXCEPT !.at = "Issue", !.who = p, !.epoch = e])
<1>1. ASSUME NEW x \in LoginOp
      PROVE  OpFits(x) <=> IF x.at \in {"Find", "Create"} THEN x.who \in Phones
                                                        ELSE x.who \in Principals
  BY DEF OpFits, LoginOp, ChangeOp, Idle
<1>2. o.at = "Judge" => OpFits([o EXCEPT !.at = "Issue"])
  BY <1>1 DEF LoginOp
<1>3. o.at = "Find" => OpFits([o EXCEPT !.at = "Create"])
  BY <1>1 DEF LoginOp
<1>4. OpFits([o EXCEPT !.raced = TRUE])
  <2>1. /\ [o EXCEPT !.raced = TRUE] \in LoginOp
        /\ [o EXCEPT !.raced = TRUE].at = o.at /\ [o EXCEPT !.raced = TRUE].who = o.who
    BY DEF LoginOp
  <2>2. IF o.at \in {"Find", "Create"} THEN o.who \in Phones ELSE o.who \in Principals
    BY <1>1
  <2> HIDE DEF LoginOp
  <2> QED BY <1>1, <2>1, <2>2
<1>5. ASSUME NEW saw \in Account, NEW e \in Nat, NEW r \in BOOLEAN, o.at = "Read"
      PROVE  OpFits([o EXCEPT !.at = "Judge", !.saw = saw, !.epoch = e, !.raced = r])
  BY <1>1, <1>5 DEF LoginOp
<1>6. ASSUME NEW p \in Principals, NEW e \in Nat, NEW r \in BOOLEAN
      PROVE  OpFits([o EXCEPT !.at = "Issue", !.who = p, !.epoch = e, !.raced = r])
  BY <1>1 DEF LoginOp
<1>7. ASSUME NEW p \in Principals, NEW e \in Nat
      PROVE  OpFits([o EXCEPT !.at = "Issue", !.who = p, !.epoch = e])
  BY <1>1 DEF LoginOp
<1> QED BY <1>2, <1>3, <1>4, <1>5, <1>6, <1>7

\* A change begins, and moves on.
LEMMA ChangeFits ==
    ASSUME NEW i \in Ids, NEW p \in Principals, NEW saw \in Account, NEW w \in Passwords
    PROVE  /\ saw.state \in {"Enabled", "Disabled"} =>
                OpFits([Change("SetStatus", "Write", i, p) EXCEPT !.saw = saw])
           /\ OpFits([Change("ChangePassword", "Write", i, p) EXCEPT !.saw = saw, !.guess = w])
           /\ p \in Users => OpFits(Change("DeleteAccount", "Write", i, p))
           /\ OpFits(Change("Reauthenticate", "Mark", i, p))
  BY DEF OpFits, Change, ChangeOp, NoAccount, Account

LEMMA ChangeMoves ==
    ASSUME NEW o \in ChangeOp, OpFits(o)
    PROVE  /\ o.op = "SetStatus" => OpFits([o EXCEPT !.at = "Commit"])
           /\ o.op = "SetStatus" /\ o.saw.state = "Disabled" => OpFits([o EXCEPT !.at = "Revoke"])
           /\ o.op \in {"ChangePassword", "DeleteAccount"} => OpFits([o EXCEPT !.at = "Revoke"])
  BY DEF OpFits, ChangeOp, LoginOp, Idle

\* An account has been written to: the logins that had read it are marked.
LEMMA WrittenFits ==
    ASSUME ThreadsInv, NEW t \in Threads, NEW p, NEW at, OpFits([threads[t] EXCEPT !.at = at]),
           threads' = Written(p, t, at), scene' = scene
    PROVE  ThreadsInv'
<1>1. ASSUME NEW u \in LoggingIn(p) PROVE OpFits([threads[u] EXCEPT !.raced = TRUE])
  <2>1. OpFits(threads[u]) /\ threads[u] \in LoginOp
    BY OpByKind DEF LoggingIn, Busied, Free, ThreadsInv
  <2> QED BY <2>1, LoginFits
<1> QED BY <1>1 DEF Written, ThreadsInv

\* The caller of a route for users is a user.
LEMMA CallerIsUser ==
    ASSUME SessionsInv, NEW i \in Ids, NEW r \in OfUsers, Permitted(i, r)
    PROVE  sessions[i].of \in Users
<1>1. i \in Stored /\ sessions[i].of \in Principals
  BY StoredIsSession DEF SessionsInv, SessionsTyped, Indexed, Permitted, Authenticates, Session
<1>2. r \in DOMAIN Route /\ Route[r].roles = {"User"}
  BY RoutesKeepPromises DEF KeepsPromise
<1> QED BY <1>1, <1>2, AccessAssumption DEF Permitted

LEMMA CallerIsKnown ==
    ASSUME SessionsInv, NEW i \in Ids, NEW r, Permitted(i, r)
    PROVE  i \in Stored /\ sessions[i].of \in Principals
  BY StoredIsSession DEF SessionsInv, SessionsTyped, Indexed, Permitted, Authenticates, Session

\* Every step keeps the threads at steps of their operations.
LEMMA NextThreads ==
    ASSUME SessionsInv, ThreadsInv, AccountsInv, epoch \in [Principals -> Nat], Next
    PROVE  ThreadsInv'
<1> DEFINE from == Scenes[scene]
<1>0. /\ scene \in DOMAIN Scenes /\ from.threads \subseteq Threads /\ from.devices \subseteq Devices
      /\ from.kinds \subseteq Kinds /\ from.guesses \subseteq Passwords
      /\ from.targets \subseteq Principals /\ from.clients \subseteq Clients
  BY ScenesAssumption DEF ThreadsInv
<1>00. /\ Admins \subseteq Principals /\ Users \subseteq Principals
       /\ \A p \in Principals : accounts[p] \in Account /\ epoch[p] \in Nat
       /\ NoAccount \in Account
  BY AccessAssumption DEF AccountsInv, NoAccount, Account
<1>000. Live \subseteq Ids
  BY DEF Live, Stored
<1> HIDE DEF from
<1>1. ASSUME NEW t \in Threads, NEW o \in {threads[t], Idle}, threads' = [threads EXCEPT ![t] = o],
             scene' = scene
      PROVE  ThreadsInv'
  <2>1. OpFits(o)
    BY DEF ThreadsInv, OpFits
  <2> QED BY <1>1, <2>1, Placed
<1>2. ASSUME UNCHANGED <<threads, scene>> PROVE ThreadsInv'
  BY <1>2 DEF ThreadsInv
<1>3. ASSUME NEW t \in Threads, NEW p \in Principals \cup Phones, NEW d \in Devices, NEW k \in Kinds,
             NEW w \in Passwords \cup {"none"}
      PROVE  /\ Login(p, d, k, w) \in LoginOp
             /\ p \in Principals => OpFits(Login(p, d, k, w))
             /\ p \in Phones => /\ OpFits([Login(p, d, k, w) EXCEPT !.at = "Find"])
                                /\ OpFits([Login(p, d, k, w) EXCEPT !.at = "Create"])
  BY <1>00 DEF OpFits, Login, LoginOp
<1>4. ASSUME NEW t \in Threads, NEW n \in Admins, NEW d \in Devices, NEW k \in Kinds,
             NEW w \in Passwords, AdminLogin(t, n, d, k, w)
      PROVE  ThreadsInv'
  <2>1. OpFits(Login(n, d, k, w))
    BY <1>00, <1>3
  <2> QED BY <1>4, <2>1, Placed DEF AdminLogin, Begin, Unlogged
<1>5. ASSUME NEW t \in Threads, NEW u \in Users, NEW d \in Devices, NEW w \in Passwords,
             NEW c, UserLogin(t, u, d, w, c)
      PROVE  ThreadsInv'
  <2>1. OpFits(Login(u, d, "User", w))
    BY <1>00, <1>3 DEF Kinds
  <2>2. threads' = threads \/ threads' = [threads EXCEPT ![t] = Login(u, d, "User", w)]
    BY <1>5 DEF UserLogin, Begin
  <2>3. scene' = scene
    BY <1>5 DEF UserLogin, Unlogged
  <2> QED BY <1>2, <2>1, <2>2, <2>3, Placed
<1>6. ASSUME NEW t \in Threads, NEW ph \in Phones, NEW d \in Devices, NEW right \in BOOLEAN,
             NEW w \in Passwords,
             SmsLogin(t, ph, d, right) \/ Register(t, ph, d, w, right)
      PROVE  ThreadsInv'
  <2>1. OpFits(ByPhone(ph, d, "none", "Find")) /\ OpFits(ByPhone(ph, d, w, "Create"))
    BY <1>3 DEF ByPhone, Kinds
  <2>2. \/ threads' = threads \/ threads' = [threads EXCEPT ![t] = ByPhone(ph, d, "none", "Find")]
        \/ threads' = [threads EXCEPT ![t] = ByPhone(ph, d, w, "Create")]
    BY <1>6 DEF SmsLogin, Register, Begin
  <2>3. scene' = scene
    BY <1>6 DEF SmsLogin, Register, Unlogged
  <2> QED BY <1>2, <2>1, <2>2, <2>3, Placed
<1>7. ASSUME NEW t, LoginReads(t) PROVE ThreadsInv'
  <2>1. t \in Threads /\ OpFits(threads[t]) /\ threads[t] \in LoginOp /\ threads[t].at = "Read"
    BY <1>7, Under DEF LoginReads, At
  <2>2. threads[t].who \in Principals
    BY <2>1, OpByKind DEF LoginOp
  <2>3. threads' = [threads EXCEPT ![t] = [threads[t] EXCEPT !.at = "Judge",
                      !.saw = accounts[threads[t].who], !.epoch = epoch[threads[t].who],
                      !.raced = Changing(threads[t].who)]]
    BY <1>7 DEF LoginReads
  <2>4. Changing(threads[t].who) \in BOOLEAN /\ scene' = scene
    BY <1>7 DEF Changing, LoginReads, Unlogged
  <2> QED BY <1>00, <2>1, <2>2, <2>3, <2>4, LoginFits, Placed
<1>8. ASSUME NEW t, AdminJudged(t) \/ UserJudged(t) PROVE ThreadsInv'
  <2>1. t \in Threads /\ OpFits(threads[t]) /\ threads[t] \in LoginOp /\ threads[t].at = "Judge"
    BY <1>8, Under DEF AdminJudged, UserJudged, At
  <2>2. Ends(t) \/ threads' = [threads EXCEPT ![t] = [threads[t] EXCEPT !.at = "Issue"]]
    BY <1>8 DEF AdminJudged, UserJudged, Goes
  <2>3. scene' = scene
    BY <1>8 DEF AdminJudged, UserJudged, Unlogged
  <2> QED BY <2>1, <2>2, <2>3, LoginFits, Placed, Ended
<1>9. ASSUME NEW t, \/ LoginIssues(t) \/ StatusCommits(t) \/ PasswordRevokes(t)
                    \/ DeletionRevokes(t) \/ ReauthMarks(t)
      PROVE  ThreadsInv'
  <2>1. t \in Threads /\ Ends(t)
    BY <1>9 DEF LoginIssues, StatusCommits, PasswordRevokes, DeletionRevokes, ReauthMarks,
                At, Busied
  <2>2. scene' = scene
    BY <1>9 DEF LoginIssues, StatusCommits, PasswordRevokes, DeletionRevokes, ReauthMarks,
                Unlogged, Unchanged
  <2> QED BY <2>1, <2>2, Ended
<1>10. ASSUME NEW t, SmsFinds(t) PROVE ThreadsInv'
  <2>1. t \in Threads /\ OpFits(threads[t]) /\ threads[t] \in LoginOp /\ threads[t].at = "Find"
    BY <1>10, Under DEF SmsFinds, At
  <2>2. \/ Ends(t) \/ threads' = [threads EXCEPT ![t] = [threads[t] EXCEPT !.at = "Create"]]
        \/ \E u \in Users : threads' = [threads EXCEPT ![t] =
             [threads[t] EXCEPT !.at = "Issue", !.who = u, !.epoch = epoch[u],
                                !.raced = Changing(u)]]
    BY ZenonT(60), <1>10 DEF SmsFinds, Goes, Owned
  <2>3. scene' = scene /\ \A u : Changing(u) \in BOOLEAN
    BY <1>10 DEF SmsFinds, Unlogged, Changing
  <2>4. CASE \E u \in Users : threads' = [threads EXCEPT ![t] =
             [threads[t] EXCEPT !.at = "Issue", !.who = u, !.epoch = epoch[u],
                                !.raced = Changing(u)]]
    <3>1. PICK u \in Users : threads' = [threads EXCEPT ![t] =
             [threads[t] EXCEPT !.at = "Issue", !.who = u, !.epoch = epoch[u],
                                !.raced = Changing(u)]]
      BY <2>4
    <3>2. OpFits([threads[t] EXCEPT !.at = "Issue", !.who = u, !.epoch = epoch[u],
                                    !.raced = Changing(u)])
      BY <1>00, <2>1, <2>3, LoginFits
    <3> QED BY <2>1, <2>3, <3>1, <3>2, Placed
  <2> QED BY <2>1, <2>2, <2>3, <2>4, LoginFits, Placed, Ended
<1>11. ASSUME NEW t, CreateAccount(t) PROVE ThreadsInv'
  <2>1. t \in Threads /\ OpFits(threads[t]) /\ threads[t] \in LoginOp /\ scene' = scene
    BY <1>11, Under DEF CreateAccount, At
  <2>2. CASE Ends(t)
    BY <2>1, <2>2, Ended
  <2>3. CASE \E u \in Users : threads' = [threads EXCEPT ![t] =
                [threads[t] EXCEPT !.at = "Issue", !.who = u, !.epoch = epoch[u]]]
    <3>1. PICK u \in Users : threads' = [threads EXCEPT ![t] =
                [threads[t] EXCEPT !.at = "Issue", !.who = u, !.epoch = epoch[u]]]
      BY <2>3
    <3>2. OpFits([threads[t] EXCEPT !.at = "Issue", !.who = u, !.epoch = epoch[u]])
      BY <1>00, <2>1, LoginFits
    <3> QED BY <2>1, <3>1, <3>2, Placed
  <2> QED BY <1>11, <2>2, <2>3 DEF CreateAccount
<1>12. ASSUME NEW t \in Threads, NEW i \in Live, NEW p \in Principals,
              NEW state \in {"Enabled", "Disabled"}, SetStatus(t, i, p, state)
       PROVE  ThreadsInv'
  <2>1. [accounts[p] EXCEPT !.state = state] \in Account
    BY <1>00 DEF Account
  <2>2. OpFits([Change("SetStatus", "Write", i, p) EXCEPT
                   !.saw = [accounts[p] EXCEPT !.state = state]])
    BY <1>000, <2>1, ChangeFits, AccessAssumption DEF AccountsInv, Account
  <2> QED BY <1>12, <2>2, Placed DEF SetStatus, Begin, Unchanged
<1>13. ASSUME NEW t, StatusWrites(t) PROVE ThreadsInv'
  <2>1. t \in Threads /\ OpFits(threads[t]) /\ threads[t] \in ChangeOp
        /\ threads[t].op = "SetStatus" /\ scene' = scene
    BY <1>13, Under DEF StatusWrites, At, Unchanged
  <2>2. OpFits([threads[t] EXCEPT !.at =
                  IF threads[t].saw.state = "Disabled" THEN "Revoke" ELSE "Commit"])
    BY <2>1, ChangeMoves
  <2> QED BY <1>13, <2>1, <2>2, WrittenFits, Ended DEF StatusWrites
<1>14. ASSUME NEW t, StatusRevokes(t) PROVE ThreadsInv'
  <2>1. t \in Threads /\ OpFits(threads[t]) /\ threads[t] \in ChangeOp
        /\ threads[t].op = "SetStatus" /\ scene' = scene
    BY <1>14, Under DEF StatusRevokes, At, Unchanged
  <2> QED BY <1>14, <2>1, ChangeMoves, Placed DEF StatusRevokes, Goes
<1>15. ASSUME NEW t \in Threads, NEW i \in Live, NEW w \in Passwords, NEW guess, NEW right,
              ChangePassword(t, i, w, guess) \/ ResetPassword(t, i, w, right)
       PROVE  ThreadsInv'
  <2> DEFINE p == sessions[i].of
             o == [Change("ChangePassword", "Write", i, p) EXCEPT
                        !.saw = accounts[p], !.guess = w]
  <2>1. p \in Principals
    BY <1>000, <1>15, CallerIsKnown DEF ChangePassword, ResetPassword
  <2>2. OpFits(o)
    BY <1>00, <1>000, <2>1, ChangeFits
  <2>3. scene' = scene /\ (threads' = threads \/ threads' = [threads EXCEPT ![t] = o])
    BY <1>15 DEF ChangePassword, ResetPassword, Begin, Unchanged
  <2> HIDE DEF o
  <2> QED BY <1>2, <2>2, <2>3, Placed
<1>16. ASSUME NEW t, PasswordWrites(t) \/ DeletionWrites(t) PROVE ThreadsInv'
  <2>1. t \in Threads /\ OpFits(threads[t]) /\ threads[t] \in ChangeOp
        /\ threads[t].op \in {"ChangePassword", "DeleteAccount"} /\ scene' = scene
    BY <1>16, Under DEF PasswordWrites, DeletionWrites, At, Unchanged
  <2>2. OpFits([threads[t] EXCEPT !.at = "Revoke"])
    BY <2>1, ChangeMoves
  <2>3. Ends(t) \/ threads' = Written(threads[t].who, t, "Revoke")
    BY <1>16 DEF PasswordWrites, DeletionWrites
  <2> QED BY <2>1, <2>2, <2>3, WrittenFits, Ended
<1>17. ASSUME NEW t \in Threads, NEW i \in Live, NEW proof, DeleteAccount(t, i, proof)
       PROVE  ThreadsInv'
  <2>1. sessions[i].of \in Users
    BY <1>000, <1>17, CallerIsUser DEF DeleteAccount, OfUsers
  <2>2. OpFits(Change("DeleteAccount", "Write", i, sessions[i].of))
    <3>1. NoAccount \in Account /\ FirstPassword \in Passwords
      BY <1>00, AccessAssumption
    <3> QED BY <1>00, <1>000, <2>1, <3>1, ChangeFits
  <2>3. scene' = scene /\ (threads' = threads \/
           threads' = [threads EXCEPT ![t] = Change("DeleteAccount", "Write", i, sessions[i].of)])
    BY <1>17 DEF DeleteAccount, Begin, Unchanged
  <2> QED BY <1>2, <2>2, <2>3, Placed
<1>18. ASSUME NEW t \in Threads, NEW i \in Live, Reauthenticate(t, i) PROVE ThreadsInv'
  <2>1. sessions[i].of \in Principals
    BY <1>000, <1>18, CallerIsKnown DEF Reauthenticate
  <2>2. OpFits(Change("Reauthenticate", "Mark", i, sessions[i].of))
    BY <1>00, <1>000, <2>1, ChangeFits, AccessAssumption
  <2> QED BY <1>18, <2>2, Placed DEF Reauthenticate, Begin, Unchanged
<1>19. CASE LoginSteps
  <2>1. PICK t \in from.threads :
      \/ \E n \in Admins, d \in from.devices, k \in from.kinds, w \in from.guesses :
           AdminLogin(t, n, d, k, w)
      \/ \E u \in Users, d \in from.devices, w \in from.guesses, c \in from.clients :
           UserLogin(t, u, d, w, c)
      \/ \E ph \in Phones, d \in from.devices, right \in BOOLEAN :
           \/ SmsLogin(t, ph, d, right)
           \/ \E w \in Passwords : Register(t, ph, d, w, right)
      \/ LoginReads(t) \/ AdminJudged(t) \/ UserJudged(t) \/ LoginIssues(t)
      \/ SmsFinds(t) \/ CreateAccount(t)
    BY <1>19 DEF LoginSteps, from
  <2>2. t \in Threads /\ FirstPassword \in Passwords
    BY <1>0, <2>1, AccessAssumption
  <2> QED BY <1>0, <1>4, <1>5, <1>6, <1>7, <1>8, <1>9, <1>10, <1>11, <2>1, <2>2
<1>20. CASE ChangeSteps
  <2>1. PICK t \in from.threads :
      \/ \E i \in Live, p \in from.targets, state \in {"Enabled", "Disabled"} :
           SetStatus(t, i, p, state)
      \/ StatusWrites(t) \/ StatusRevokes(t) \/ StatusCommits(t)
      \/ \E i \in Live, w, guess \in Passwords : ChangePassword(t, i, w, guess)
      \/ \E i \in Live, w \in Passwords, right \in BOOLEAN : ResetPassword(t, i, w, right)
      \/ PasswordWrites(t) \/ PasswordRevokes(t)
      \/ \E i \in Live, proof \in {"password", "code", "wrong code"} :
           DeleteAccount(t, i, proof)
      \/ DeletionWrites(t) \/ DeletionRevokes(t)
      \/ \E i \in Live : Reauthenticate(t, i)
      \/ ReauthMarks(t)
    BY <1>20 DEF ChangeSteps, from
  <2>2. t \in Threads
    BY <1>0, <2>1
  <2> QED BY <1>0, <1>9, <1>12, <1>13, <1>14, <1>15, <1>16, <1>17, <1>18, <2>1, <2>2
<1>21. CASE Plays("Enter") /\ \E i \in Live, r \in DOMAIN Route : Enter(i, r)
  BY <1>2, <1>21 DEF Enter
<1>22. CASE \E i \in Live, p \in Admins, w \in Passwords : CreateAdmin(i, p, w)
  BY <1>2, <1>22 DEF CreateAdmin, Unchanged
<1>23. CASE \E i \in Live : EditProfile(i)
  BY <1>2, <1>23 DEF EditProfile, Unchanged
<1>24. CASE (\E i, j \in Live : Logout(i, j)) \/ SessionsEnd \/ TimePasses
            \/ \E ph \in Phones, purpose \in Purposes : AskForCode(ph, purpose)
  BY <1>2, <1>24 DEF Logout, SessionsEnd, TimePasses, AskForCode, accessVars
<1> QED BY <1>19, <1>20, <1>21, <1>22, <1>23, <1>24 DEF Next

-----------------------------------------------------------------------------
\* The steps, for what is said of accounts, operations and sessions together.
\* Most of them leave the accounts as they are: ...
Rests == UNCHANGED <<scene, accounts, audits, epoch, basis, raced>>
OthersStay(t) == \A u \in Threads \ {t} : threads'[u] = threads[u]

\* ... an operation begins, a change with the session that asks for it, ...
Begins(t) ==
    /\ t \in Free /\ OthersStay(t) /\ Rests
    /\ threads'[t].at \in {"Read", "Find", "Create", "Write", "Mark"}
    /\ threads'[t].op = "Login" /\ threads'[t].at = "Read" /\ threads'[t].who \in Admins =>
         ~Locked(threads'[t].who)
    /\ threads'[t].op \in {"ChangePassword", "DeleteAccount"} =>
         /\ threads'[t].by \in Stored
         /\ threads'[t].who = sessions[threads'[t].by].of

\* ... or leaves nothing behind, ...
Leaves(t) ==
    /\ t \in Busied /\ threads[t].at \notin {"Revoke", "Commit"}
    /\ Ends(t) /\ Rests

\* ... or a login is judged well.
Passes(t) ==
    /\ At(t, "Login", "Judge") /\ threads[t].saw.state = "Enabled"
    /\ Goes(t, "Issue") /\ Rests

\* The others do what they are named for.
Acts(t) ==
    \/ LoginReads(t) \/ Passes(t) \/ SmsFinds(t) \/ CreateAccount(t) \/ LoginIssues(t)
    \/ StatusWrites(t) \/ StatusRevokes(t) \/ StatusCommits(t)
    \/ PasswordWrites(t) \/ PasswordRevokes(t) \/ DeletionWrites(t) \/ DeletionRevokes(t)

LEMMA NextMoves ==
    ASSUME SessionsInv, ThreadsInv, Next
    PROVE  \/ Rests /\ UNCHANGED threads
           \/ \E t \in Threads : Begins(t) \/ Leaves(t) \/ Acts(t)
           \/ \E i \in Live : EditProfile(i)
           \/ \E i \in Live, p \in Admins, w \in Passwords : CreateAdmin(i, p, w)
<1> DEFINE from == Scenes[scene]
<1>0. from.threads \subseteq Threads /\ Live \subseteq Ids /\ DOMAIN threads = Threads
  BY ScenesAssumption DEF ThreadsInv, Live, Stored
<1> HIDE DEF from
<1>1. ASSUME NEW t \in Threads, NEW n, NEW d, NEW k, NEW w, AdminLogin(t, n, d, k, w)
      PROVE  Begins(t)
  BY <1>0, <1>1 DEF AdminLogin, Starts, Begin, Login, Begins, OthersStay, Rests, Unlogged
<1>2. ASSUME NEW t \in Threads, NEW u \in Users, NEW d, NEW w, NEW c, UserLogin(t, u, d, w, c)
      PROVE  Begins(t) \/ (Rests /\ UNCHANGED threads)
  <2>1. Rests /\ t \in Free
    BY <1>2 DEF UserLogin, Starts, Rests, Unlogged
  <2>2. UNCHANGED threads \/ threads' = [threads EXCEPT ![t] = Login(u, d, "User", w)]
    BY <1>2 DEF UserLogin, Begin
  <2>3. u \notin Admins
    BY AccessAssumption
  <2> QED BY <1>0, <2>1, <2>2, <2>3 DEF Begins, OthersStay, Login
<1>3. ASSUME NEW t \in Threads, NEW ph, NEW d, NEW right, NEW w,
             SmsLogin(t, ph, d, right) \/ Register(t, ph, d, w, right)
      PROVE  Begins(t) \/ (Rests /\ UNCHANGED threads)
  <2>1. Rests /\ t \in Free
    BY <1>3 DEF SmsLogin, Register, Starts, Rests, Unlogged
  <2>2. \/ UNCHANGED threads \/ threads' = [threads EXCEPT ![t] = ByPhone(ph, d, "none", "Find")]
        \/ threads' = [threads EXCEPT ![t] = ByPhone(ph, d, w, "Create")]
    BY <1>3 DEF SmsLogin, Register, Begin
  <2> QED BY <1>0, <2>1, <2>2 DEF Begins, OthersStay, ByPhone, Login
<1>4. ASSUME NEW t, AdminJudged(t) \/ UserJudged(t) PROVE Leaves(t) \/ Passes(t)
  <2>1. Rests /\ At(t, "Login", "Judge")
    BY <1>4 DEF AdminJudged, UserJudged, Rests, Unlogged
  <2>2. Ends(t) \/ (Goes(t, "Issue") /\ threads[t].saw.state = "Enabled")
    BY <1>4 DEF AdminJudged, UserJudged, Right
  <2> QED BY <2>1, <2>2 DEF Leaves, Passes, At
<1>5. ASSUME NEW t \in Threads, NEW i \in Live, NEW p, NEW state, SetStatus(t, i, p, state)
      PROVE  Begins(t)
  BY <1>0, <1>5 DEF SetStatus, Starts, Begin, Change, Begins, OthersStay, Rests, Unchanged
<1>6. ASSUME NEW t \in Threads, NEW i \in Live, NEW w, NEW guess, NEW right,
             ChangePassword(t, i, w, guess) \/ ResetPassword(t, i, w, right)
      PROVE  Begins(t) \/ (Rests /\ UNCHANGED threads)
  <2>1. Rests /\ t \in Free /\ i \in Stored
    BY <1>6 DEF ChangePassword, ResetPassword, Starts, Rests, Unchanged, Live
  <2> DEFINE o == [Change("ChangePassword", "Write", i, sessions[i].of) EXCEPT
                     !.saw = accounts[sessions[i].of], !.guess = w]
  <2>2. UNCHANGED threads \/ threads' = [threads EXCEPT ![t] = o]
    BY <1>6 DEF ChangePassword, ResetPassword, Begin
  <2>3. o.at = "Write" /\ o.by = i /\ o.who = sessions[i].of
    BY DEF Change
  <2> HIDE DEF o
  <2> QED BY <1>0, <2>1, <2>2, <2>3 DEF Begins, OthersStay
<1>7. ASSUME NEW t \in Threads, NEW i \in Live, NEW proof, DeleteAccount(t, i, proof)
      PROVE  Begins(t) \/ (Rests /\ UNCHANGED threads)
  <2>1. Rests /\ t \in Free /\ i \in Stored
    BY <1>7 DEF DeleteAccount, Starts, Rests, Unchanged, Live
  <2>2. \/ UNCHANGED threads
        \/ threads' = [threads EXCEPT ![t] =
                         Change("DeleteAccount", "Write", i, sessions[i].of)]
    BY <1>7 DEF DeleteAccount, Begin
  <2> QED BY <1>0, <2>1, <2>2 DEF Begins, OthersStay, Change
<1>8. ASSUME NEW t \in Threads, NEW i \in Live, Reauthenticate(t, i) PROVE Begins(t)
  BY <1>0, <1>8 DEF Reauthenticate, Starts, Begin, Change, Begins, OthersStay, Rests, Unchanged
<1>9. ASSUME NEW t, ReauthMarks(t) PROVE Leaves(t)
  BY <1>9 DEF ReauthMarks, Leaves, At, Rests, Unchanged
<1>10. CASE LoginSteps
  <2>1. PICK t \in from.threads :
      \/ \E n \in Admins, d \in from.devices, k \in from.kinds, w \in from.guesses :
           AdminLogin(t, n, d, k, w)
      \/ \E u \in Users, d \in from.devices, w \in from.guesses, c \in from.clients :
           UserLogin(t, u, d, w, c)
      \/ \E ph \in Phones, d \in from.devices, right \in BOOLEAN :
           \/ SmsLogin(t, ph, d, right)
           \/ \E w \in Passwords : Register(t, ph, d, w, right)
      \/ LoginReads(t) \/ AdminJudged(t) \/ UserJudged(t) \/ LoginIssues(t)
      \/ SmsFinds(t) \/ CreateAccount(t)
    BY <1>10 DEF LoginSteps, from
  <2>2. t \in Threads
    BY <1>0, <2>1
  <2> QED BY <1>1, <1>2, <1>3, <1>4, <2>1, <2>2 DEF Acts
<1>11. CASE ChangeSteps
  <2>1. PICK t \in from.threads :
      \/ \E i \in Live, p \in from.targets, state \in {"Enabled", "Disabled"} :
           SetStatus(t, i, p, state)
      \/ StatusWrites(t) \/ StatusRevokes(t) \/ StatusCommits(t)
      \/ \E i \in Live, w, guess \in Passwords : ChangePassword(t, i, w, guess)
      \/ \E i \in Live, w \in Passwords, right \in BOOLEAN : ResetPassword(t, i, w, right)
      \/ PasswordWrites(t) \/ PasswordRevokes(t)
      \/ \E i \in Live, proof \in {"password", "code", "wrong code"} :
           DeleteAccount(t, i, proof)
      \/ DeletionWrites(t) \/ DeletionRevokes(t)
      \/ \E i \in Live : Reauthenticate(t, i)
      \/ ReauthMarks(t)
    BY <1>11 DEF ChangeSteps, from
  <2>2. t \in Threads
    BY <1>0, <2>1
  <2> QED BY <1>5, <1>6, <1>7, <1>8, <1>9, <2>1, <2>2 DEF Acts
<1>12. CASE Plays("Enter") /\ \E i \in Live, r \in DOMAIN Route : Enter(i, r)
  BY <1>12 DEF Enter, Rests
<1>13. CASE (\E i, j \in Live : Logout(i, j)) \/ SessionsEnd \/ TimePasses
            \/ \E ph \in Phones, purpose \in Purposes : AskForCode(ph, purpose)
  BY <1>13 DEF Logout, SessionsEnd, TimePasses, AskForCode, accessVars, Rests
<1> QED BY <1>10, <1>11, <1>12, <1>13 DEF Next

\* A thread that does not move: it may be told that what it read is old.
Alike(u) ==
    \/ threads'[u] = threads[u]
    \/ /\ u \in Busied /\ threads[u].op = "Login"
       /\ threads'[u] = [threads[u] EXCEPT !.raced = TRUE]

LEMMA AlikeKeeps ==
    ASSUME ThreadsInv, NEW u \in Threads, Alike(u)
    PROVE  /\ u \in Busied' <=> u \in Busied
           /\ threads'[u].op = threads[u].op
           /\ u \in Busied => /\ threads'[u].at = threads[u].at
                              /\ threads'[u].who = threads[u].who
                              /\ threads'[u].saw = threads[u].saw
           /\ u \in Busied /\ threads[u].op = "Login" =>
                threads'[u].epoch = threads[u].epoch /\ (threads[u].raced => threads'[u].raced)
           /\ threads[u].op # "Login" => threads'[u] = threads[u]
<1>1. CASE threads'[u] = threads[u]
  BY <1>1 DEF Busied, Free
<1>2. CASE /\ u \in Busied /\ threads[u].op = "Login"
           /\ threads'[u] = [threads[u] EXCEPT !.raced = TRUE]
  <2>1. threads[u] \in LoginOp
    BY <1>2, OpByKind DEF ThreadsInv
  <2>2. /\ threads'[u] \in LoginOp /\ threads'[u].op = "Login" /\ threads'[u].at = threads[u].at
        /\ threads'[u].who = threads[u].who /\ threads'[u].saw = threads[u].saw
        /\ threads'[u].epoch = threads[u].epoch /\ threads'[u].raced
    BY <1>2, <2>1 DEF LoginOp
  <2>3. threads'[u] # Idle
    BY <2>2 DEF Idle, LoginOp
  <2> QED BY <1>2, <2>2, <2>3 DEF Busied, Free
<1> QED BY <1>1, <1>2 DEF Alike

LEMMA WrittenAlike ==
    ASSUME ThreadsInv, NEW t \in Threads, NEW p, NEW at, threads' = Written(p, t, at)
    PROVE  /\ \A u \in Threads \ {t} : Alike(u)
           /\ \A u \in LoggingIn(p) : u # t => threads'[u].raced
           /\ threads'[t] = [threads[t] EXCEPT !.at = at]
<1>1. \A u \in LoggingIn(p) : u \in Busied /\ threads[u].op = "Login" /\ threads[u] \in LoginOp
  BY OpByKind DEF LoggingIn, ThreadsInv, Busied
<1>2. \A u \in LoggingIn(p) : [threads[u] EXCEPT !.raced = TRUE].raced
  BY <1>1 DEF LoginOp
<1>3. \A u \in Threads \ {t} :
        threads'[u] = IF u \in LoggingIn(p) THEN [threads[u] EXCEPT !.raced = TRUE] ELSE threads[u]
  BY DEF Written
<1>4. threads'[t] = [threads[t] EXCEPT !.at = at]
  BY DEF Written
<1>5. LoggingIn(p) \subseteq Threads
  BY DEF LoggingIn, Busied
<1>6. \A u \in Threads \ {t} : Alike(u)
  BY <1>1, <1>3 DEF Alike
<1>7. ASSUME NEW u \in LoggingIn(p), u # t PROVE threads'[u].raced
  <2>1. threads'[u] = [threads[u] EXCEPT !.raced = TRUE]
    BY <1>3, <1>5, <1>7
  <2> QED BY <1>2, <2>1
<1> QED BY <1>4, <1>6, <1>7

\* The other threads stay where they are.
LEMMA OthersAlike ==
    ASSUME ThreadsInv, NEW t \in Threads, Begins(t) \/ Leaves(t) \/ Acts(t)
    PROVE  \A u \in Threads \ {t} : Alike(u)
<1>0. DOMAIN threads = Threads
  BY DEF ThreadsInv
<1>1. CASE Begins(t)
  BY <1>1 DEF Begins, OthersStay, Alike
<1>2. CASE Leaves(t)
  BY <1>0, <1>2 DEF Leaves, Ends, Alike
<1>3. CASE LoginReads(t) \/ Passes(t) \/ SmsFinds(t)
  BY <1>0, <1>3 DEF LoginReads, Passes, SmsFinds, Goes, Ends, Alike
<1>4. CASE CreateAccount(t) \/ LoginIssues(t) \/ StatusRevokes(t) \/ StatusCommits(t)
           \/ PasswordRevokes(t) \/ DeletionRevokes(t)
  BY <1>0, <1>4 DEF CreateAccount, LoginIssues, StatusRevokes, StatusCommits, PasswordRevokes,
     DeletionRevokes, Goes, Ends, Alike
<1>5. CASE StatusWrites(t) \/ PasswordWrites(t) \/ DeletionWrites(t)
  <2>1. Ends(t) \/ \E p, at : threads' = Written(p, t, at)
    BY <1>5 DEF StatusWrites, PasswordWrites, DeletionWrites
  <2>2. CASE Ends(t)
    BY <1>0, <2>2 DEF Ends, Alike
  <2> QED BY <2>1, <2>2, WrittenAlike
<1> QED BY <1>1, <1>2, <1>3, <1>4, <1>5 DEF Acts

\* Only a status that is written makes a writer.
LEMMA WritersMove ==
    ASSUME ThreadsInv, ThreadsInv', NEW t \in Threads, Begins(t) \/ Leaves(t) \/ Acts(t)
    PROVE  \A u \in Writing' :
             /\ u \in Writing \/ (u = t /\ StatusWrites(t))
             /\ u \in Busied /\ threads'[u].who = threads[u].who
<1>0. /\ \A u \in Writing' : u \in Threads /\ u \in Busied' /\ threads'[u].op = "SetStatus"
                             /\ threads'[u].at # "Write"
      /\ DOMAIN threads = Threads
  BY DEF Writing, Busied, ThreadsInv
<1>1. ASSUME NEW u \in Writing', u # t
      PROVE  u \in Writing /\ u \in Busied /\ threads'[u].who = threads[u].who
  BY <1>0, <1>1, OthersAlike, AlikeKeeps DEF Writing
<1>2. ASSUME t \in Writing'
      PROVE  (t \in Writing \/ StatusWrites(t)) /\ t \in Busied /\ threads'[t].who = threads[t].who
  <2>0. /\ OpFits(threads'[t]) /\ threads'[t] \in ChangeOp
        /\ threads'[t].op = "SetStatus" /\ threads'[t].at \in {"Revoke", "Commit"}
    <3>1. OpFits(threads'[t])
      BY DEF ThreadsInv
    <3>2. threads'[t] \in ChangeOp
      BY <1>0, <1>2, <3>1, OpByKind
    <3> QED BY <1>0, <1>2, <3>1, <3>2 DEF OpFits, ChangeOp, LoginOp, Idle
  <2>1. ~Begins(t)
    BY <2>0 DEF Begins
  <2>2. ~Ends(t)
    BY <1>0, <2>0 DEF Ends, Idle
  <2>4. ~LoginReads(t) /\ ~Passes(t) /\ ~SmsFinds(t) /\ ~CreateAccount(t)
    <3>1. SUFFICES ASSUME \/ LoginReads(t) \/ Passes(t) \/ SmsFinds(t) \/ CreateAccount(t)
                   PROVE  FALSE
      OBVIOUS
    <3>2. threads[t] \in LoginOp /\ threads[t].op = "Login"
      BY <3>1, Under DEF LoginReads, Passes, SmsFinds, CreateAccount, At
    <3>3. threads'[t].op = threads[t].op
      <4>1. CASE LoginReads(t)
        BY <1>0, <3>2, <4>1 DEF LoginReads, LoginOp
      <4>2. CASE Passes(t)
        BY <1>0, <3>2, <4>2 DEF Passes, Goes, LoginOp
      <4>3. CASE SmsFinds(t)
        <5>1. \/ threads' = [threads EXCEPT ![t] = [threads[t] EXCEPT !.at = "Create"]]
              \/ \E u : threads' = [threads EXCEPT ![t] =
                   [threads[t] EXCEPT !.at = "Issue", !.who = u, !.epoch = epoch[u],
                                      !.raced = Changing(u)]]
          BY <2>2, <4>3 DEF SmsFinds, Goes
        <5> QED BY <1>0, <3>2, <5>1 DEF LoginOp
      <4>4. CASE CreateAccount(t)
        <5>1. \E u : threads' = [threads EXCEPT ![t] =
                   [threads[t] EXCEPT !.at = "Issue", !.who = u, !.epoch = epoch[u]]]
          BY <2>2, <4>4 DEF CreateAccount
        <5> QED BY <1>0, <3>2, <5>1 DEF LoginOp
      <4> QED BY <3>1, <4>1, <4>2, <4>3, <4>4
    <3> QED BY <2>0, <3>2, <3>3
  <2>5. ~PasswordWrites(t) /\ ~DeletionWrites(t)
    <3>1. SUFFICES ASSUME PasswordWrites(t) \/ DeletionWrites(t) PROVE FALSE
      OBVIOUS
    <3>2. threads[t] \in ChangeOp /\ threads[t].op \in {"ChangePassword", "DeleteAccount"}
      BY <3>1, Under DEF PasswordWrites, DeletionWrites, At
    <3>3. threads' = Written(threads[t].who, t, "Revoke")
      BY <2>2, <3>1 DEF PasswordWrites, DeletionWrites
    <3>4. threads'[t].op = threads[t].op
      BY <3>2, <3>3, WrittenAlike DEF ChangeOp
    <3> QED BY <2>0, <3>2, <3>4
  <2>6. CASE StatusWrites(t)
    <3>1. threads[t] \in ChangeOp /\ t \in Busied
      BY <2>6, Under DEF StatusWrites, At
    <3>2. \E p, at : threads' = Written(p, t, at)
      BY <2>2, <2>6 DEF StatusWrites
    <3>3. PICK at : threads'[t] = [threads[t] EXCEPT !.at = at]
      BY <3>2, WrittenAlike
    <3>4. threads'[t].who = threads[t].who
      BY <3>1, <3>3 DEF ChangeOp
    <3> QED BY <2>6, <3>1, <3>4
  <2>7. CASE StatusRevokes(t)
    <3>1. threads[t] \in ChangeOp /\ t \in Busied /\ t \in Writing
      BY <2>7, Under DEF StatusRevokes, At, Writing
    <3> QED BY <1>0, <2>7, <3>1 DEF StatusRevokes, Goes, ChangeOp
  <2>8. ~Leaves(t) /\ ~LoginIssues(t) /\ ~StatusCommits(t)
    BY <2>2 DEF Leaves, LoginIssues, StatusCommits
  <2>9. ~PasswordRevokes(t) /\ ~DeletionRevokes(t)
    BY <2>2 DEF PasswordRevokes, DeletionRevokes
  <2> QED BY <2>1, <2>4, <2>5, <2>6, <2>7, <2>8, <2>9 DEF Acts
<1> QED BY <1>1, <1>2

-----------------------------------------------------------------------------
\* Accounts.  A step changes one account, and makes none that was there unmade.
LEMMA OneAccount ==
    ASSUME AccountsInv, NEW p \in Principals, NEW a \in Account, a.state # "None",
           NEW n \in Nat, scene' = scene,
           accounts' = [accounts EXCEPT ![p] = a], audits' = [audits EXCEPT ![p] = n],
           p \in Admins => n - audits[p] = a.version - accounts[p].version,
           p \in Users => \/ a.state \notin {"Enabled", "Disabled"}
                          \/ accounts[p].state \in {"Enabled", "Disabled"}
                          \/ Owned(PhoneOf[p]) = {}
    PROVE  AccountsInv' /\ \A q \in Principals : Made(q) => Made(q)'
<1>0. /\ accounts \in [Principals -> Account] /\ audits \in [Principals -> Nat]
      /\ Admins \subseteq Principals /\ Users \subseteq Principals
  BY AccessAssumption DEF AccountsInv
<1>1. \A q \in Principals : accounts'[q] = IF q = p THEN a ELSE accounts[q]
  BY <1>0
<1>2. \A q \in Principals : audits'[q] = IF q = p THEN n ELSE audits[q]
  BY <1>0
<1>3. accounts' \in [Principals -> Account] /\ audits' \in [Principals -> Nat]
  BY <1>0
<1>4. \A q \in Principals : (Made(q) => Made(q)') /\ (Made(q)' \/ accounts'[q] = NoAccount)
  BY <1>1 DEF AccountsInv, Made
<1>5. ASSUME NEW q \in Admins
      PROVE  audits'[q] + Cardinality(Scenes[scene].present \cap {q}) = accounts'[q].version
  <2> DEFINE c == Cardinality(Scenes[scene].present \cap {q})
  <2>1. c \in Nat
    <3>1. IsFiniteSet(Scenes[scene].present \cap {q})
      BY FS_Singleton, FS_Intersection
    <3> QED BY <3>1, FS_CardinalityType
  <2>2. audits[q] + c = accounts[q].version
    BY DEF AccountsInv
  <2>3. audits[q] \in Nat /\ accounts[q].version \in Nat /\ a.version \in Nat
    BY <1>0 DEF Account
  <2> HIDE DEF c
  <2>4. CASE q = p
    <3>1. n - audits[q] = a.version - accounts[q].version
      BY <2>4
    <3>2. audits'[q] = n /\ accounts'[q] = a
      BY <1>0, <1>1, <1>2, <2>4
    <3>3. n + c = a.version
      BY <2>1, <2>2, <2>3, <3>1
    <3> QED BY <3>2, <3>3 DEF c
  <2>5. CASE q # p
    <3>1. audits'[q] = audits[q] /\ accounts'[q] = accounts[q]
      BY <1>0, <1>1, <1>2, <2>5
    <3> QED BY <2>2, <3>1 DEF c
  <2> QED BY <2>4, <2>5
<1>6. ASSUME NEW q \in Users, NEW r \in Users, PhoneOf[q] = PhoneOf[r], q # r
      PROVE  {accounts'[q].state, accounts'[r].state} \cap {"None", "Deleted"} # {}
  <2>0. \A x \in Users : accounts[x].state \in {"None", "Enabled", "Disabled", "Deleted"}
    BY <1>0 DEF Account
  <2>1. {accounts[q].state, accounts[r].state} \cap {"None", "Deleted"} # {}
    BY <1>6 DEF AccountsInv
  <2>2. ASSUME Owned(PhoneOf[p]) = {}, NEW x \in Users, PhoneOf[x] = PhoneOf[p]
        PROVE  accounts[x].state \in {"None", "Deleted"}
    BY <2>0, <2>2 DEF Owned
  <2>3. a.state \in {"None", "Enabled", "Disabled", "Deleted"}
    BY DEF Account
  <2>4. CASE q # p /\ r # p
    BY <1>0, <1>1, <2>1, <2>4
  <2>5. CASE q = p
    BY <1>0, <1>1, <1>6, <2>0, <2>1, <2>2, <2>3, <2>5
  <2>6. CASE r = p
    BY <1>0, <1>1, <1>6, <2>0, <2>1, <2>2, <2>3, <2>6
  <2> QED BY <2>4, <2>5, <2>6
<1> QED BY <1>3, <1>4, <1>5, <1>6 DEF AccountsInv

LEMMA SameAccounts ==
    ASSUME AccountsInv, UNCHANGED <<scene, accounts, audits>>
    PROVE  AccountsInv' /\ \A q \in Principals : Made(q) => Made(q)'
  BY DEF AccountsInv, Made

LEMMA NextAccounts ==
    ASSUME SessionsInv, ThreadsInv, AllMet, AccountsInv, WritersInv, Next
    PROVE  AccountsInv' /\ \A p \in Principals : Made(p) => Made(p)'
<1>0. /\ accounts \in [Principals -> Account] /\ audits \in [Principals -> Nat]
      /\ Admins \subseteq Principals /\ Users \subseteq Principals /\ Admins \cap Users = {}
      /\ \A t \in Threads : threads[t] \in ChangeOp => threads[t].who \in Principals
  BY AccessAssumption DEF AccountsInv, ChangeOp
<1>1. CASE Rests
  BY <1>1, SameAccounts DEF Rests
<1>2. ASSUME NEW t \in Threads, CreateAccount(t)
      PROVE  AccountsInv' /\ \A p \in Principals : Made(p) => Made(p)'
  <2>1. threads[t].guess \in Passwords \cup {"none"} /\ UNCHANGED <<scene, audits>>
    BY <1>2, Under DEF CreateAccount, LoginOp
  <2>2. CASE \E u \in Users : /\ Owned(threads[t].who) = {} /\ PhoneOf[u] = threads[t].who
                              /\ accounts' = [accounts EXCEPT ![u] = NewAccount(threads[t].guess)]
    <3>1. PICK u \in Users : /\ Owned(PhoneOf[u]) = {}
                             /\ accounts' = [accounts EXCEPT ![u] = NewAccount(threads[t].guess)]
      BY <2>2
    <3> DEFINE a == NewAccount(threads[t].guess)
    <3>2. a \in Account /\ a.state # "None"
      BY <2>1 DEF NewAccount, Account
    <3>3. u \in Principals /\ u \notin Admins /\ audits' = [audits EXCEPT ![u] = audits[u]]
          /\ audits[u] \in Nat
      BY <1>0, <2>1
    <3> HIDE DEF a
    <3> QED BY <2>1, <3>1, <3>2, <3>3, OneAccount DEF a
  <2> QED BY <1>2, <2>1, <2>2, SameAccounts DEF CreateAccount
<1>3. ASSUME NEW t \in Threads, StatusCommits(t)
      PROVE  AccountsInv' /\ \A p \in Principals : Made(p) => Made(p)'
  <2> DEFINE o == threads[t]
             a == [accounts[o.who] EXCEPT !.state = o.saw.state, !.version = @ + 1]
  <2>1. o \in ChangeOp /\ OpFits(o) /\ t \in Writing /\ UNCHANGED scene
    BY <1>3, Under DEF StatusCommits, At, Writing, Unchanged
  <2>2. o.who \in Principals /\ o.saw.state \in {"Enabled", "Disabled"}
    BY <1>3, <2>1 DEF OpFits, ChangeOp, LoginOp, Idle, StatusCommits, At
  <2>3. accounts[o.who].state \in {"Enabled", "Disabled"} /\ accounts[o.who] \in Account
    BY <1>0, <2>1, <2>2 DEF WritersInv
  <2>9. accounts[o.who].version \in Nat /\ audits[o.who] \in Nat
    BY <1>0, <2>2, <2>3 DEF Account
  <2>4. a \in Account /\ a.state # "None" /\ a.version = accounts[o.who].version + 1
    <3> DEFINE x == accounts[o.who]
               y == [x EXCEPT !.state = o.saw.state]
               v == x.version + 1
    <3>1. a = [y EXCEPT !.version = v]
      OBVIOUS
    <3>2. y \in Account /\ y.state = o.saw.state /\ v \in Nat
      BY <2>2, <2>3, <2>9 DEF Account
    <3> HIDE DEF a, y, v
    <3>3. a \in Account /\ a.state = o.saw.state /\ a.version = v
      BY <3>1, <3>2 DEF Account
    <3> QED BY <2>2, <3>3 DEF v
  <2>5. \/ UNCHANGED <<accounts, audits>>
        \/ /\ accounts' = [accounts EXCEPT ![o.who] = a]
           /\ audits' = [audits EXCEPT ![o.who] = audits[o.who] + 1]
    BY <1>3 DEF StatusCommits
  <2> HIDE DEF a, o
  <2>6. (audits[o.who] + 1) - audits[o.who] = a.version - accounts[o.who].version
        /\ audits[o.who] + 1 \in Nat
    BY <2>4, <2>9
  <2> QED BY <2>1, <2>2, <2>3, <2>4, <2>5, <2>6, SameAccounts, OneAccount
<1>4. ASSUME NEW t \in Threads, PasswordWrites(t) \/ DeletionWrites(t)
      PROVE  AccountsInv' /\ \A p \in Principals : Made(p) => Made(p)'
  <2> DEFINE p == threads[t].who
  <2>1. threads[t] \in ChangeOp /\ OpFits(threads[t]) /\ UNCHANGED scene
        /\ threads[t].op \in {"ChangePassword", "DeleteAccount"}
        /\ (DeletionWrites(t) => threads[t].op = "DeleteAccount")
    BY <1>4, Under DEF PasswordWrites, DeletionWrites, At, Unchanged
  <2>2. p \in Principals /\ threads[t].guess \in Passwords \cup {"none"} /\ accounts[p] \in Account
        /\ audits[p] \in Nat /\ accounts[p].version \in Nat /\ accounts[p].salt \in Nat
        /\ (threads[t].op = "DeleteAccount" => p \in Users /\ p \notin Admins)
    BY <1>0, <2>1 DEF ChangeOp, Account, OpFits, LoginOp, Idle
  <2>3. Made(p)
    BY <2>1 DEF AllMet, Met
  <2>4. CASE PasswordWrites(t) /\ ~UNCHANGED <<accounts, audits>>
    <3> DEFINE a == [accounts[p] EXCEPT !.password = threads[t].guess,
                        !.salt = accounts[p].salt + 1, !.version = accounts[p].version + 1]
               n == audits[p] + IF p \in Admins THEN 1 ELSE 0
    <3>1. accounts' = [accounts EXCEPT ![p] = a] /\ audits' = [audits EXCEPT ![p] = n]
      BY <2>4 DEF PasswordWrites
    <3>2. a \in Account /\ a.state = accounts[p].state /\ a.version = accounts[p].version + 1
      <4> DEFINE x == accounts[p]
                 y == [x EXCEPT !.password = threads[t].guess]
                 z == [y EXCEPT !.salt = x.salt + 1]
                 v == x.version + 1
      <4>1. a = [z EXCEPT !.version = v]
        OBVIOUS
      <4>2. y \in Account /\ y.state = x.state /\ x.salt + 1 \in Nat /\ v \in Nat
        BY <2>2 DEF Account
      <4> HIDE DEF a, y, v
      <4>3. z \in Account /\ z.state = x.state
        BY <4>2 DEF Account
      <4> HIDE DEF z
      <4>4. a \in Account /\ a.state = x.state /\ a.version = v
        BY <4>1, <4>2, <4>3 DEF Account
      <4> QED BY <4>4 DEF v
    <3>3. n \in Nat /\ (p \in Admins => n - audits[p] = a.version - accounts[p].version)
      BY <2>2, <3>2
    <3>4. \/ a.state \notin {"Enabled", "Disabled"} \/ accounts[p].state \in {"Enabled", "Disabled"}
      BY <3>2
    <3> HIDE DEF a, n
    <3> QED BY <2>1, <2>2, <2>3, <3>1, <3>2, <3>3, <3>4, OneAccount DEF Made
  <2>5. CASE DeletionWrites(t) /\ ~UNCHANGED accounts
    <3> DEFINE a == [accounts[p] EXCEPT !.state = "Deleted", !.password = "none",
                        !.version = accounts[p].version + 1]
    <3>1. accounts' = [accounts EXCEPT ![p] = a] /\ UNCHANGED audits
      BY <2>5 DEF DeletionWrites
    <3>2. a \in Account /\ a.state = "Deleted"
      <4> DEFINE x == accounts[p]
                 y == [x EXCEPT !.state = "Deleted"]
                 z == [y EXCEPT !.password = "none"]
      <4>1. a = [z EXCEPT !.version = x.version + 1]
        OBVIOUS
      <4>2. y \in Account /\ y.state = "Deleted" /\ x.version + 1 \in Nat
        BY <2>2 DEF Account
      <4> HIDE DEF a, y
      <4>3. z \in Account /\ z.state = "Deleted"
        BY <4>2 DEF Account
      <4> HIDE DEF z
      <4> QED BY <4>1, <4>2, <4>3 DEF Account
    <3>3. audits' = [audits EXCEPT ![p] = audits[p]] /\ p \notin Admins
      BY <1>0, <2>1, <2>2, <2>5, <3>1
    <3> HIDE DEF a
    <3> QED BY <2>1, <2>2, <3>1, <3>2, <3>3, OneAccount
  <2>6. CASE UNCHANGED <<accounts, audits>>
    BY <2>1, <2>6, SameAccounts
  <2>7. DeletionWrites(t) => UNCHANGED audits
    BY DEF DeletionWrites
  <2> QED BY <1>4, <2>4, <2>5, <2>6, <2>7
<1>5. ASSUME NEW i \in Live, EditProfile(i)
      PROVE  AccountsInv' /\ \A p \in Principals : Made(p) => Made(p)'
  <2> DEFINE p == sessions[i].of
             a == [accounts[p] EXCEPT !.version = accounts[p].version + 1]
  <2>1. i \in Ids /\ i \in Stored /\ UNCHANGED <<scene, audits>>
        /\ Permitted(i, "user.me.nickname") /\ accounts' = [accounts EXCEPT ![p] = a]
    BY <1>5 DEF EditProfile, Live, Stored, Unchanged
  <2>2. p \in Users /\ p \in Principals /\ p \notin Admins
    BY <1>0, <2>1, CallerIsUser DEF OfUsers
  <2>3. Made(p)
    BY <2>1 DEF AllMet
  <2>4. a \in Account /\ a.state = accounts[p].state
    BY <1>0, <2>2 DEF Account
  <2>5. audits' = [audits EXCEPT ![p] = audits[p]] /\ audits[p] \in Nat
    BY <1>0, <2>1, <2>2
  <2>6. a.state \notin {"Enabled", "Disabled"} \/ accounts[p].state \in {"Enabled", "Disabled"}
    BY <2>4
  <2> HIDE DEF a, p
  <2> QED BY <2>1, <2>2, <2>3, <2>4, <2>5, <2>6, OneAccount DEF Made
<1>6. ASSUME NEW i \in Live, NEW p \in Admins, NEW w \in Passwords, CreateAdmin(i, p, w)
      PROVE  AccountsInv' /\ \A q \in Principals : Made(q) => Made(q)'
  <2> DEFINE a == NewAccount(w)
  <2>1. accounts' = [accounts EXCEPT ![p] = a] /\ audits' = [audits EXCEPT ![p] = audits[p] + 1]
        /\ UNCHANGED scene /\ ~Made(p)
    BY <1>6 DEF CreateAdmin, Unchanged, Made
  <2>2. accounts[p].version = 0 /\ p \in Principals /\ p \notin Users /\ audits[p] \in Nat
    BY <1>0, <2>1 DEF AccountsInv, NoAccount
  <2>3. a \in Account /\ a.state # "None" /\ a.version = 1
    BY DEF NewAccount, Account
  <2>4. (audits[p] + 1) - audits[p] = a.version - accounts[p].version /\ audits[p] + 1 \in Nat
    BY <2>2, <2>3
  <2> HIDE DEF a
  <2> QED BY <2>1, <2>2, <2>3, <2>4, OneAccount
<1>7. ASSUME NEW t \in Threads, Begins(t) \/ Leaves(t) \/ Passes(t) PROVE Rests
  BY <1>7 DEF Begins, Leaves, Passes
<1>8. ASSUME NEW t \in Threads, \/ LoginReads(t) \/ SmsFinds(t) \/ LoginIssues(t)
             \/ StatusWrites(t) \/ StatusRevokes(t) \/ PasswordRevokes(t) \/ DeletionRevokes(t)
      PROVE  UNCHANGED <<scene, accounts, audits>>
  BY <1>8 DEF LoginReads, SmsFinds, LoginIssues, StatusWrites, StatusRevokes, PasswordRevokes,
     DeletionRevokes, Unlogged, Unchanged
<1>9. ASSUME NEW t \in Threads, Acts(t)
      PROVE  AccountsInv' /\ \A p \in Principals : Made(p) => Made(p)'
  BY <1>1, <1>2, <1>3, <1>4, <1>7, <1>8, <1>9, SameAccounts DEF Acts
<1> QED BY <1>1, <1>5, <1>6, <1>7, <1>9, NextMoves

-----------------------------------------------------------------------------
\* What a thread that acts comes to: a login ...
LEMMA LoginComes ==
    ASSUME ThreadsInv, NEW t \in Threads
    PROVE  LET o == threads[t]
               new == threads'[t] IN
           /\ LoginReads(t) => /\ new.op = "Login" /\ new.at = "Judge" /\ new.who = o.who
                               /\ new.saw = accounts[o.who] /\ new.epoch = epoch[o.who]
                               /\ new.raced = Changing(o.who)
           /\ Passes(t) => /\ new.op = "Login" /\ new.at = "Issue" /\ new.who = o.who
                           /\ new.epoch = o.epoch /\ new.raced = o.raced
           /\ SmsFinds(t) => \/ new = Idle
                             \/ new.op = "Login" /\ new.at = "Create"
                             \/ \E u \in Owned(o.who) :
                                  /\ new.op = "Login" /\ new.at = "Issue" /\ new.who = u
                                  /\ new.epoch = epoch[u] /\ new.raced = Changing(u)
           /\ CreateAccount(t) => \/ new = Idle /\ UNCHANGED accounts
                                  \/ \E u \in Users :
                                       /\ new.op = "Login" /\ new.at = "Issue" /\ new.who = u
                                       /\ new.epoch = epoch[u]
                                       /\ accounts' = [accounts EXCEPT ![u] = NewAccount(o.guess)]
<1> DEFINE o == threads[t]
           new == threads'[t]
<1>0. DOMAIN threads = Threads
  BY DEF ThreadsInv
<1>1. ASSUME LoginReads(t) \/ Passes(t) \/ SmsFinds(t) \/ CreateAccount(t)
      PROVE  o \in LoginOp /\ o.op = "Login"
  BY <1>1, Under DEF LoginReads, Passes, SmsFinds, CreateAccount, At
<1>2. ASSUME LoginReads(t)
      PROVE  /\ new.op = "Login" /\ new.at = "Judge" /\ new.who = o.who
             /\ new.saw = accounts[o.who] /\ new.epoch = epoch[o.who]
             /\ new.raced = Changing(o.who)
  <2>1. new = [o EXCEPT !.at = "Judge", !.saw = accounts[o.who], !.epoch = epoch[o.who],
                        !.raced = Changing(o.who)]
    BY <1>0, <1>2 DEF LoginReads
  <2> HIDE DEF new, o
  <2> QED BY <1>1, <1>2, <2>1 DEF LoginOp
<1>3. ASSUME Passes(t)
      PROVE  /\ new.op = "Login" /\ new.at = "Issue" /\ new.who = o.who
             /\ new.epoch = o.epoch /\ new.raced = o.raced
  <2>1. new = [o EXCEPT !.at = "Issue"]
    BY <1>0, <1>3 DEF Passes, Goes
  <2> HIDE DEF new, o
  <2> QED BY <1>1, <1>3, <2>1 DEF LoginOp
<1>4. ASSUME SmsFinds(t)
      PROVE  \/ new = Idle
             \/ new.op = "Login" /\ new.at = "Create"
             \/ \E u \in Owned(o.who) :
                  /\ new.op = "Login" /\ new.at = "Issue" /\ new.who = u
                  /\ new.epoch = epoch[u] /\ new.raced = Changing(u)
  <2>1. \/ new = Idle \/ new = [o EXCEPT !.at = "Create"]
        \/ \E u \in Owned(o.who) : new = [o EXCEPT !.at = "Issue", !.who = u,
                                            !.epoch = epoch[u], !.raced = Changing(u)]
    BY <1>0, <1>4 DEF SmsFinds, Goes, Ends
  <2> HIDE DEF new, o
  <2>2. o \in LoginOp /\ o.op = "Login"
    BY <1>1, <1>4
  <2>3. new = [o EXCEPT !.at = "Create"] => new.op = "Login" /\ new.at = "Create"
    BY <2>2 DEF LoginOp
  <2>4. ASSUME NEW u, new = [o EXCEPT !.at = "Issue", !.who = u,
                                !.epoch = epoch[u], !.raced = Changing(u)]
        PROVE  /\ new.op = "Login" /\ new.at = "Issue" /\ new.who = u
               /\ new.epoch = epoch[u] /\ new.raced = Changing(u)
    BY <2>2, <2>4 DEF LoginOp
  <2> QED BY <2>1, <2>3, <2>4
<1>5. ASSUME CreateAccount(t)
      PROVE  \/ new = Idle /\ UNCHANGED accounts
             \/ \E u \in Users :
                  /\ new.op = "Login" /\ new.at = "Issue" /\ new.who = u /\ new.epoch = epoch[u]
                  /\ accounts' = [accounts EXCEPT ![u] = NewAccount(o.guess)]
  <2>1. \/ new = Idle /\ UNCHANGED accounts
        \/ \E u \in Users :
             /\ new = [o EXCEPT !.at = "Issue", !.who = u, !.epoch = epoch[u]]
             /\ accounts' = [accounts EXCEPT ![u] = NewAccount(o.guess)]
    BY <1>0, <1>5 DEF CreateAccount, Ends
  <2> HIDE DEF new, o
  <2>2. o \in LoginOp /\ o.op = "Login"
    BY <1>1, <1>5
  <2>3. ASSUME NEW u, new = [o EXCEPT !.at = "Issue", !.who = u, !.epoch = epoch[u]]
        PROVE  new.op = "Login" /\ new.at = "Issue" /\ new.who = u /\ new.epoch = epoch[u]
    BY <2>2, <2>3 DEF LoginOp
  <2> QED BY <2>1, <2>3
<1> QED BY <1>2, <1>3, <1>4, <1>5

\* ... or a change.
LEMMA ChangeComes ==
    ASSUME ThreadsInv, NEW t \in Threads
    PROVE  LET o == threads[t]
               new == threads'[t] IN
           /\ StatusWrites(t) =>
                \/ new = Idle
                \/ /\ new.op = "SetStatus" /\ new.who = o.who /\ new.saw = o.saw
                   /\ new.at = IF o.saw.state = "Disabled" THEN "Revoke" ELSE "Commit"
                   /\ threads' = Written(o.who, t, new.at)
                   /\ accounts[o.who].state \notin {"None", "Deleted"}
           /\ StatusRevokes(t) =>
                new.op = "SetStatus" /\ new.who = o.who /\ new.saw = o.saw /\ new.at = "Commit"
           /\ PasswordWrites(t) \/ DeletionWrites(t) =>
                \/ new = Idle /\ UNCHANGED <<accounts, epoch>>
                \/ /\ new.op = o.op /\ new.who = o.who /\ new.by = o.by /\ new.at = "Revoke"
                   /\ threads' = Written(o.who, t, "Revoke")
                   /\ epoch' = [epoch EXCEPT ![o.who] = @ + 1]
<1> DEFINE o == threads[t]
           new == threads'[t]
<1>0. DOMAIN threads = Threads
  BY DEF ThreadsInv
<1>1. ASSUME StatusWrites(t) \/ StatusRevokes(t) \/ PasswordWrites(t) \/ DeletionWrites(t)
      PROVE  o \in ChangeOp
  BY <1>1, Under DEF StatusWrites, StatusRevokes, PasswordWrites, DeletionWrites, At
<1>2. ASSUME o \in ChangeOp, NEW at, new = [o EXCEPT !.at = at]
      PROVE  /\ new.op = o.op /\ new.who = o.who /\ new.saw = o.saw /\ new.at = at
             /\ new.by = o.by
  <2> HIDE DEF new, o
  <2> QED BY <1>2 DEF ChangeOp
<1>3. ASSUME StatusWrites(t)
      PROVE  \/ new = Idle
             \/ /\ new.op = "SetStatus" /\ new.who = o.who /\ new.saw = o.saw
                /\ new.at = IF o.saw.state = "Disabled" THEN "Revoke" ELSE "Commit"
                /\ threads' = Written(o.who, t, new.at)
                /\ accounts[o.who].state \notin {"None", "Deleted"}
  <2> DEFINE at == IF o.saw.state = "Disabled" THEN "Revoke" ELSE "Commit"
  <2>1. CASE Ends(t)
    BY <1>0, <2>1 DEF Ends
  <2>2. CASE /\ threads' = Written(o.who, t, at)
             /\ accounts[o.who].state \notin {"None", "Deleted"}
    <3>1. new = [o EXCEPT !.at = at]
      BY <2>2 DEF Written
    <3>2. o.op = "SetStatus"
      BY <1>3 DEF StatusWrites, At
    <3> HIDE DEF new, o, at
    <3>3. new.op = o.op /\ new.who = o.who /\ new.saw = o.saw /\ new.at = at
      BY <1>1, <1>2, <1>3, <3>1
    <3> QED BY <2>2, <3>2, <3>3 DEF at
  <2> QED BY <1>3, <2>1, <2>2 DEF StatusWrites
<1>4. ASSUME StatusRevokes(t)
      PROVE  new.op = "SetStatus" /\ new.who = o.who /\ new.saw = o.saw /\ new.at = "Commit"
  <2>1. new = [o EXCEPT !.at = "Commit"] /\ o.op = "SetStatus"
    BY <1>0, <1>4 DEF StatusRevokes, Goes, At
  <2> HIDE DEF new, o
  <2> QED BY <1>1, <1>2, <1>4, <2>1
<1>5. ASSUME PasswordWrites(t) \/ DeletionWrites(t)
      PROVE  \/ new = Idle /\ UNCHANGED <<accounts, epoch>>
             \/ /\ new.op = o.op /\ new.who = o.who /\ new.by = o.by /\ new.at = "Revoke"
                /\ threads' = Written(o.who, t, "Revoke")
                /\ epoch' = [epoch EXCEPT ![o.who] = @ + 1]
  <2>1. \/ new = Idle /\ UNCHANGED <<accounts, epoch>>
        \/ /\ threads' = Written(o.who, t, "Revoke")
           /\ epoch' = [epoch EXCEPT ![o.who] = @ + 1]
    BY <1>0, <1>5 DEF PasswordWrites, DeletionWrites, Ends
  <2>2. threads' = Written(o.who, t, "Revoke") => new = [o EXCEPT !.at = "Revoke"]
    BY DEF Written
  <2> HIDE DEF new, o
  <2> QED BY <1>1, <1>2, <1>5, <2>1, <2>2
<1> QED BY <1>3, <1>4, <1>5

-----------------------------------------------------------------------------
\* Writers: a status is written when nobody writes, to an account that is there;
\* no account is written but by the writer, or when there is none.
LEMMA NextWriters ==
    ASSUME SessionsInv, ThreadsInv, ThreadsInv', AccountsInv, WritersInv, Next
    PROVE  WritersInv'
<1>1. CASE UNCHANGED threads /\ (UNCHANGED accounts \/ Writing = {})
  <2>1. Writing' = Writing
    BY <1>1 DEF Writing, Busied, Free
  <2> QED BY <1>1, <2>1 DEF WritersInv, Writing
<1>2. ASSUME NEW t \in Threads, Begins(t) \/ Leaves(t) \/ Acts(t)
      PROVE  WritersInv'
  <2>1. \A u \in Writing' : /\ u \in Writing \/ (u = t /\ StatusWrites(t))
                            /\ u \in Busied /\ threads'[u].who = threads[u].who
    BY <1>2, WritersMove
  <2>2. CASE StatusWrites(t)
    <3>1. Writing = {} /\ UNCHANGED accounts /\ t \in Busied
      BY <2>2 DEF StatusWrites, At
    <3>2. \A u \in Writing' : u = t
      BY <2>1, <3>1
    <3>3. threads[t].who \in Principals
      BY <2>2, Under, AccessAssumption DEF StatusWrites, At, ChangeOp
    <3>4. accounts[threads[t].who].state \in {"None", "Enabled", "Disabled", "Deleted"}
      BY <3>3 DEF AccountsInv, Account
    <3>5. t \in Writing' => threads'[t] # Idle
      BY DEF Writing, Busied, Free
    <3>6. t \in Writing' => accounts'[threads'[t].who].state \in {"Enabled", "Disabled"}
      BY <2>1, <2>2, <3>1, <3>4, <3>5, ChangeComes
    <3> QED BY <3>2, <3>6 DEF WritersInv
  <2>3. CASE StatusCommits(t)
    <3>1. t \in Writing /\ threads'[t] = Idle
      BY <2>3 DEF StatusCommits, At, Ends, Writing, Busied, ThreadsInv
    <3>2. t \notin Writing'
      BY <3>1 DEF Writing, Busied, Free
    <3>3. Writing' = {}
      BY <2>1, <3>1, <3>2 DEF WritersInv, StatusWrites
    <3> QED BY <3>3 DEF WritersInv
  <2>4. CASE ~StatusWrites(t) /\ (UNCHANGED accounts \/ Writing = {})
    <3>1. \A u \in Writing' : u \in Writing /\ threads'[u].who = threads[u].who
      BY <2>1, <2>4
    <3> QED BY <2>4, <3>1 DEF WritersInv
  <2>5. UNCHANGED accounts \/ Writing = {} \/ StatusCommits(t)
    <3>1. CASE Begins(t) \/ Leaves(t) \/ Passes(t)
      BY <3>1 DEF Begins, Leaves, Passes, Rests
    <3>2. CASE CreateAccount(t) \/ PasswordWrites(t) \/ DeletionWrites(t) \/ StatusWrites(t)
      BY <3>2 DEF CreateAccount, PasswordWrites, DeletionWrites, StatusWrites
    <3>3. CASE \/ LoginReads(t) \/ SmsFinds(t) \/ LoginIssues(t) \/ StatusRevokes(t)
               \/ PasswordRevokes(t) \/ DeletionRevokes(t)
      BY <3>3 DEF LoginReads, SmsFinds, LoginIssues, StatusRevokes, PasswordRevokes,
         DeletionRevokes, Unlogged, Unchanged
    <3> QED BY <1>2, <3>1, <3>2, <3>3 DEF Acts
  <2> QED BY <2>2, <2>3, <2>4, <2>5
<1>3. ASSUME NEW i \in Live, EditProfile(i)
      PROVE  UNCHANGED threads /\ Writing = {}
  BY <1>3 DEF EditProfile
<1>4. ASSUME NEW i, NEW p, NEW w, CreateAdmin(i, p, w)
      PROVE  UNCHANGED threads /\ Writing = {}
  BY <1>4 DEF CreateAdmin
<1>5. CASE Rests /\ UNCHANGED threads
  BY <1>1, <1>5 DEF Rests
<1> QED BY <1>1, <1>2, <1>3, <1>4, <1>5, NextMoves

\* What a thread is at or under, said of each: nothing is, of an idle one.
LEMMA IdleIsMet == Met(Idle) /\ Asked(Idle) /\ Idle \notin ChangeOp /\ Idle.op = "Idle"
  BY DEF Met, Asked, Idle, ChangeOp

\* The account that an operation has met stays.
LEMMA NextMet ==
    ASSUME SessionsInv, ThreadsInv, ThreadsInv', AllMet, AccountsInv, WritersInv, Next,
           \A p \in Principals : Made(p) => Made(p)',
           Fewer \/ \E t \in Threads : LoginIssues(t)
    PROVE  AllMet'
<1>0. /\ Admins \subseteq Principals /\ Users \subseteq Principals
      /\ \A t \in Threads : OpFits(threads[t]) /\ OpFits(threads'[t])
      /\ \A p \in Principals : accounts[p].state \in {"None", "Enabled", "Disabled", "Deleted"}
      /\ \A i \in Stored : sessions[i].of \in Principals
  BY AccessAssumption, StoredIsSession
     DEF ThreadsInv, AccountsInv, Account, SessionsInv, SessionsTyped, Stored, Session
<1>1. ASSUME NEW u \in Threads, Alike(u) PROVE Met(threads[u])'
  <2> DEFINE o == threads[u]
             new == threads'[u]
  <2>1. /\ u \in Busied' <=> u \in Busied
        /\ new.op = o.op
        /\ u \in Busied => new.at = o.at /\ new.who = o.who /\ new.saw = o.saw
        /\ o.op # "Login" => new = o
    BY <1>1, AlikeKeeps
  <2>2. Met(o) /\ OpFits(o) /\ OpFits(new)
    BY <1>0 DEF AllMet
  <2>3. CASE o = Idle
    BY <2>1, <2>3, IdleIsMet DEF Met
  <2>4. CASE o # Idle /\ o.op = "Login"
    <3>1. u \in Busied /\ o \in LoginOp /\ new \in LoginOp
      BY <2>1, <2>2, <2>4, OpByKind DEF Busied, Free
    <3>2. o.at \in {"Judge", "Issue"} => o.who \in Principals
      BY <2>2, <2>4, OpByKind
    <3>3. new \notin ChangeOp
      BY <3>1 DEF LoginOp, ChangeOp
    <3> QED BY <2>1, <2>2, <2>4, <3>1, <3>2, <3>3 DEF Met
  <2>5. CASE o # Idle /\ o.op # "Login"
    <3>1. o \in ChangeOp /\ new = o
      BY <2>1, <2>2, <2>5, OpByKind
    <3>2. o.who \in Principals
      BY <3>1 DEF ChangeOp
    <3> QED BY <2>2, <2>5, <3>1, <3>2 DEF Met
  <2> QED BY <2>3, <2>4, <2>5
<1>2. ASSUME NEW t \in Threads, Begins(t) \/ Leaves(t) \/ Acts(t)
      PROVE  Met(threads[t])'
  <2> DEFINE o == threads[t]
             new == threads'[t]
  <2>0. /\ OpFits(o) /\ OpFits(new) /\ Met(o)
        /\ new.op = "Login" => new \notin ChangeOp
        /\ o \in ChangeOp => o.who \in Principals
    BY <1>0 DEF AllMet, ChangeOp
  <2>1. CASE Begins(t)
    <3>1. new.at \notin {"Judge", "Issue", "Revoke", "Commit"}
      BY <2>1 DEF Begins
    <3>2. ASSUME new.op \in {"ChangePassword", "DeleteAccount"}
          PROVE  accounts'[new.who].state # "None"
      <4>1. PICK i \in Stored : new.who = sessions[i].of
        BY <2>1, <3>2 DEF Begins
      <4>2. Made(sessions[i].of) /\ UNCHANGED accounts
        BY <2>1 DEF Begins, AllMet, Rests
      <4> QED BY <4>1, <4>2 DEF Made
    <3> QED BY <3>1, <3>2 DEF Met, Made
  <2>2. CASE new = Idle
    BY <2>2, IdleIsMet DEF Met
  <2>3. CASE Leaves(t) \/ LoginIssues(t) \/ StatusCommits(t) \/ PasswordRevokes(t)
             \/ DeletionRevokes(t)
    <3>1. new = Idle
      BY <2>3 DEF Leaves, LoginIssues, StatusCommits, PasswordRevokes, DeletionRevokes, Ends,
         ThreadsInv
    <3> QED BY <2>2, <3>1
  <2>4. CASE LoginReads(t)
    <3>1. UNCHANGED accounts
      BY <2>4 DEF LoginReads, Unlogged
    <3>2. new.op = "Login" /\ new.at = "Judge" /\ new.who = o.who /\ new.saw = accounts[o.who]
      BY <2>4, LoginComes
    <3> QED BY <2>0, <3>1, <3>2 DEF Met, Made
  <2>5. CASE Passes(t)
    <3>1. /\ new.op = "Login" /\ new.at = "Issue" /\ new.who = o.who
          /\ o.op = "Login" /\ o.at = "Judge" /\ o.saw.state = "Enabled" /\ UNCHANGED accounts
      BY <2>5, LoginComes DEF Passes, At, Rests
    <3>2. Made(o.who)
      BY <2>0, <3>1 DEF Met
    <3> QED BY <2>0, <3>1, <3>2 DEF Met, Made
  <2>6. CASE SmsFinds(t)
    <3>1. UNCHANGED accounts
      BY <2>6 DEF SmsFinds, Unlogged
    <3>2. \/ new = Idle
          \/ new.op = "Login" /\ new.at = "Create"
          \/ \E u \in Owned(o.who) : new.op = "Login" /\ new.at = "Issue" /\ new.who = u
      BY <2>6, LoginComes
    <3>3. \A u \in Owned(o.who) : Made(u)
      BY DEF Owned, Made
    <3> QED BY <2>0, <2>2, <3>1, <3>2, <3>3 DEF Met, Made
  <2>7. CASE CreateAccount(t)
    <3>1. CASE new # Idle
      <4>1. PICK u \in Users :
              /\ new.op = "Login" /\ new.at = "Issue" /\ new.who = u
              /\ accounts' = [accounts EXCEPT ![u] = NewAccount(o.guess)]
        BY <2>7, <3>1, LoginComes
      <4>2. accounts'[u].state = "Enabled"
        BY <1>0, <4>1 DEF NewAccount, AccountsInv
      <4> QED BY <2>0, <4>1, <4>2 DEF Met, Made
    <3> QED BY <2>2, <3>1
  <2>8. CASE StatusWrites(t)
    <3>1. o \in ChangeOp /\ UNCHANGED accounts
      BY <2>8, Under DEF StatusWrites, At
    <3>2. \/ new = Idle
          \/ new.op = "SetStatus" /\ new.who = o.who /\ accounts[o.who].state # "None"
      BY <2>8, ChangeComes
    <3> QED BY <2>0, <2>2, <3>1, <3>2 DEF Met, Made
  <2>9. CASE StatusRevokes(t)
    <3>1. o \in ChangeOp /\ o.at = "Revoke" /\ UNCHANGED accounts
      BY <2>9, Under DEF StatusRevokes, At
    <3>2. new.op = "SetStatus" /\ new.who = o.who
      BY <2>9, ChangeComes
    <3> QED BY <2>0, <3>1, <3>2 DEF Met, Made
  <2>10. CASE PasswordWrites(t) \/ DeletionWrites(t)
    <3>1. o \in ChangeOp /\ o.op \in {"ChangePassword", "DeleteAccount"}
      BY <2>10, Under DEF PasswordWrites, DeletionWrites, At
    <3>2. new = Idle \/ (new.op = o.op /\ new.who = o.who)
      BY <2>10, ChangeComes
    <3> QED BY <2>0, <2>2, <3>1, <3>2 DEF Met
  <2> QED BY <1>2, <2>1, <2>3, <2>4, <2>5, <2>6, <2>7, <2>8, <2>9, <2>10 DEF Acts
<1>3. \A t \in Threads : Met(threads[t])'
  <2>1. CASE UNCHANGED threads
    BY <1>1, <2>1 DEF Alike
  <2>2. CASE \E t \in Threads : Begins(t) \/ Leaves(t) \/ Acts(t)
    <3>1. PICK t \in Threads : Begins(t) \/ Leaves(t) \/ Acts(t)
      BY <2>2
    <3> QED BY <1>1, <1>2, <3>1, OthersAlike
  <2> QED BY <2>1, <2>2, NextMoves DEF EditProfile, CreateAdmin
<1>4. \A i \in Stored' : Made(sessions[i].of)'
  <2>1. CASE Fewer
    BY <1>0, <2>1 DEF Fewer, AllMet, Made
  <2>2. ASSUME NEW t \in Threads, LoginIssues(t)
        PROVE  \A i \in Stored' : Made(sessions[i].of)'
    <3>1. /\ threads[t].op = "Login" /\ threads[t].at = "Issue" /\ t \in Busied
          /\ UNCHANGED accounts
      BY <2>2 DEF LoginIssues, At, Unlogged
    <3>2. Made(threads[t].who)
      BY <3>1 DEF AllMet, Met
    <3>3. \A i \in Stored' : \/ i \in Stored /\ sessions'[i].of = sessions[i].of
                             \/ sessions'[i].of = threads[t].who
      BY <2>2, LoginIssued DEF Fewer
    <3> QED BY <3>1, <3>2, <3>3 DEF AllMet, Made
  <2> QED BY <2>1, <2>2
<1> QED BY <1>3, <1>4 DEF AllMet

\* A session that asked for a change of a password stays of that account.
LEMMA NextAsked ==
    ASSUME SessionsInv, SessionsInv', ThreadsInv, ThreadsInv', AllAsked, Kept, Next
    PROVE  AllAsked'
<1>0. /\ nextId \in Nat /\ nextId' \in Nat /\ nextId <= nextId'
      /\ \A i \in Stored : i < nextId /\ i \in Ids
      /\ \A i \in Stored' : i < nextId => i \in Stored /\ sessions'[i].of = sessions[i].of
      /\ Ids \subseteq Nat
  BY SessionsAssumption DEF Kept, SessionsInv, SessionsTyped, Stored, Ids
<1>1. ASSUME NEW i \in Ids, i < nextId
      PROVE  i < nextId' /\ (i \in Stored' => i \in Stored /\ sessions'[i].of = sessions[i].of)
  <2>1. i \in Nat
    BY <1>0
  <2>2. i < nextId'
    BY <1>0, <1>1, <2>1
  <2>3. i \in Stored' => i \in Stored /\ sessions'[i].of = sessions[i].of
    BY <1>0, <1>1
  <2> QED BY <2>2, <2>3
<1>2. ASSUME NEW u \in Threads, Alike(u) PROVE Asked(threads[u])'
  <2>1. /\ threads'[u].op = threads[u].op /\ Asked(threads[u])
        /\ threads[u].op # "Login" => threads'[u] = threads[u]
    BY <1>2, AlikeKeeps DEF AllAsked
  <2> QED BY <1>1, <2>1 DEF Asked
<1>3. ASSUME NEW t \in Threads, Begins(t) \/ Leaves(t) \/ Acts(t)
      PROVE  Asked(threads[t])'
  <2>1. SUFFICES ASSUME threads'[t].op = "ChangePassword" PROVE Asked(threads[t])'
    BY DEF Asked
  <2>2. threads'[t] # Idle
    BY <2>1, IdleIsMet
  <2>3. CASE Begins(t)
    <3>1. PICK i \in Stored : threads'[t].by = i /\ threads'[t].who = sessions[i].of
      BY <2>1, <2>3 DEF Begins
    <3> QED BY <1>0, <1>1, <3>1 DEF Asked
  <2>4. CASE PasswordWrites(t) \/ DeletionWrites(t)
    <3>1. threads'[t].op = threads[t].op /\ threads'[t].who = threads[t].who
          /\ threads'[t].by = threads[t].by
      BY <2>2, <2>4, ChangeComes
    <3>2. Asked(threads[t])
      BY DEF AllAsked
    <3> QED BY <1>1, <2>1, <3>1, <3>2 DEF Asked
  <2>5. ~Leaves(t) /\ ~LoginIssues(t) /\ ~StatusCommits(t) /\ ~PasswordRevokes(t)
        /\ ~DeletionRevokes(t)
    BY <2>2 DEF Leaves, LoginIssues, StatusCommits, PasswordRevokes, DeletionRevokes, Ends,
       ThreadsInv
  <2>6. /\ ~LoginReads(t) /\ ~Passes(t) /\ ~SmsFinds(t) /\ ~CreateAccount(t)
        /\ ~StatusWrites(t) /\ ~StatusRevokes(t)
    BY <2>1, <2>2, LoginComes, ChangeComes
  <2> QED BY <1>3, <2>3, <2>4, <2>5, <2>6 DEF Acts
<1>4. CASE UNCHANGED threads
  BY <1>2, <1>4 DEF AllAsked, Alike
<1>5. CASE \E t \in Threads : Begins(t) \/ Leaves(t) \/ Acts(t)
  <2>1. PICK t \in Threads : Begins(t) \/ Leaves(t) \/ Acts(t)
    BY <1>5
  <2> QED BY <1>2, <1>3, <2>1, OthersAlike DEF AllAsked
<1> QED BY <1>4, <1>5, NextMoves DEF EditProfile, CreateAdmin

-----------------------------------------------------------------------------
\* Logins and sessions against changes of the account.  What the logins, the
\* writers and the sessions of a step need, when the threads but t stay.
LEMMA KnowStays ==
    ASSUME ThreadsInv, LoginsKnow, NEW t \in Threads, \A u \in Threads \ {t} : Alike(u),
           \A p \in Principals : \/ epoch'[p] = epoch[p]
                                 \/ \A u \in LoggingIn(p)' \ {t} : threads'[u].raced,
           \A p \in Principals : t \in LoggingIn(p)' =>
             threads'[t].raced \/ threads'[t].epoch = epoch'[p]
    PROVE  LoginsKnow'
<1> SUFFICES ASSUME NEW p \in Principals, NEW u \in LoggingIn(p)', u # t
             PROVE  threads'[u].raced \/ threads'[u].epoch = epoch'[p]
  BY DEF LoginsKnow
<1>1. u \in Threads /\ u \in Busied' /\ threads'[u].op = "Login" /\ threads'[u].who = p
      /\ threads'[u].at \in {"Judge", "Issue"}
  BY DEF LoggingIn, Busied
<1>2. u \in LoggingIn(p)
  BY <1>1, AlikeKeeps DEF LoggingIn
<1>3. /\ threads'[u].epoch = threads[u].epoch
      /\ threads[u].raced => threads'[u].raced
  BY <1>1, <1>2, AlikeKeeps
<1>4. threads[u].raced \/ threads[u].epoch = epoch[p]
  BY <1>2 DEF LoginsKnow
<1> QED BY <1>3, <1>4

LEMMA BarsStay ==
    ASSUME ThreadsInv, AllBarred, NEW t \in Threads, \A u \in Threads \ {t} : Alike(u),
           raced \subseteq raced',
           \A u \in Disabling \ {t}, p \in Principals :
             threads[u].who = p /\ t \in LoggingIn(p)' => threads'[t].raced,
           \A u \in Disabling \ {t} : threads[u].at = "Commit" =>
             \A i \in Live' : sessions'[i].of = threads[u].who =>
               i \in raced' \/ (i \in Live /\ sessions[i].of = threads[u].who),
           t \in Disabling' => Barred(t)'
    PROVE  AllBarred'
<1> SUFFICES ASSUME NEW u \in Disabling', u # t PROVE Barred(u)'
  BY DEF AllBarred
<1>1. u \in Threads /\ u \in Busied' /\ threads'[u].op = "SetStatus" /\ threads'[u].at # "Write"
      /\ threads'[u].saw.state = "Disabled"
  BY DEF Disabling, Writing, Busied
<1>2. u \in Disabling \ {t} /\ threads'[u] = threads[u]
  BY <1>1, AlikeKeeps DEF Disabling, Writing
<1>3. Barred(u)
  BY <1>2 DEF AllBarred
<1>4. ASSUME NEW p \in Principals, p = threads[u].who, NEW v \in LoggingIn(p)'
      PROVE  threads'[v].raced
  <2>1. CASE v = t
    BY <1>2, <1>4, <2>1
  <2>2. CASE v # t
    <3>1. v \in Threads /\ v \in Busied' /\ threads'[v].op = "Login"
          /\ threads'[v].who = p /\ threads'[v].at \in {"Judge", "Issue"}
      BY <1>4 DEF LoggingIn, Busied
    <3>2. v \in LoggingIn(p)
      BY <2>2, <3>1, AlikeKeeps DEF LoggingIn
    <3>3. threads[v].raced => threads'[v].raced
      BY <2>2, <3>1, <3>2, AlikeKeeps
    <3> QED BY <1>3, <1>4, <3>2, <3>3 DEF Barred
  <2> QED BY <2>1, <2>2
<1>6. threads[u].who \in Principals
  BY <1>1, <1>2, OpByKind DEF ThreadsInv, ChangeOp, Busied, Free, Disabling, Writing
<1>5. ASSUME threads[u].at = "Commit", NEW i \in Live', sessions'[i].of = threads[u].who
      PROVE  i \in raced'
  <2>1. i \in raced' \/ (i \in Live /\ sessions[i].of = threads[u].who)
    BY <1>2, <1>5
  <2> QED BY <1>3, <1>5, <2>1 DEF Barred
<1> QED BY <1>2, <1>4, <1>5, <1>6 DEF Barred

LEMMA FoundedStay ==
    ASSUME ThreadsInv, AllFounded, NEW t \in Threads, \A u \in Threads \ {t} : Alike(u),
           raced \subseteq raced',
           \A i \in Live' : \/ Founded(i)'
                            \/ /\ i \in Live /\ sessions'[i].of = sessions[i].of
                               /\ basis'[i] = basis[i]
                               /\ epoch'[sessions[i].of] = epoch[sessions[i].of]
                               /\ t \notin Revoking(sessions[i].of)
    PROVE  AllFounded'
<1> SUFFICES ASSUME NEW i \in Live', ~Founded(i)' PROVE FALSE
  BY DEF AllFounded
<1> DEFINE p == sessions[i].of
<1>1. /\ i \in Live /\ sessions'[i].of = p /\ basis'[i] = basis[i]
      /\ epoch'[p] = epoch[p] /\ t \notin Revoking(p)
  OBVIOUS
<1>2. Founded(i) /\ i \notin raced /\ basis[i] # epoch[p]
  BY <1>1 DEF AllFounded, Founded
<1>3. PICK u \in Revoking(p) : TRUE
  BY <1>2 DEF Founded
<1>4. /\ u \in Threads /\ u # t /\ u \in Busied
      /\ threads[u].op \in {"ChangePassword", "DeleteAccount"}
  BY <1>1, <1>3 DEF Revoking, Busied
<1>5. threads'[u] = threads[u] /\ u \in Busied'
  BY <1>4, AlikeKeeps
<1>6. u \in Revoking(sessions[i].of)'
  BY <1>1, <1>3, <1>5 DEF Revoking
<1> QED BY <1>6 DEF Founded

\* When no account is written to and no session issued, what t comes to counts.
LEMMA StillFresh ==
    ASSUME SessionsInv, ThreadsInv, FreshInv, Fewer, NEW t \in Threads,
           \A u \in Threads \ {t} : Alike(u),
           UNCHANGED <<epoch, basis, raced>>,
           \A p \in Principals : t \in LoggingIn(p)' =>
             threads'[t].raced \/ threads'[t].epoch = epoch[p],
           \A u \in Disabling \ {t}, p \in Principals :
             threads[u].who = p /\ t \in LoggingIn(p)' => threads'[t].raced,
           t \in Disabling' => Barred(t)',
           \A p : t \notin Revoking(p)
    PROVE  FreshInv'
<1>1. \A i \in Live' : i \in Live /\ sessions'[i].of = sessions[i].of
  BY DEF Fewer, Live
<1>2. LoginsKnow'
  BY KnowStays DEF FreshInv
<1>3. AllBarred'
  BY <1>1, BarsStay DEF FreshInv
<1>4. AllFounded'
  BY <1>1, FoundedStay DEF FreshInv
<1> QED BY <1>2, <1>3, <1>4 DEF FreshInv, EpochsTyped

LEMMA NextFresh ==
    ASSUME SessionsInv, ThreadsInv, ThreadsInv', AllAsked, AccountsInv, WritersInv, FreshInv,
           Next, Fewer \/ \E t \in Threads : LoginIssues(t)
    PROVE  FreshInv'
<1>0. /\ \A t \in Threads : OpFits(threads[t]) /\ OpFits(threads'[t])
      /\ \A t : threads'[t] = Idle => t \notin Disabling' /\ \A p : t \notin LoggingIn(p)'
      /\ \A t : threads'[t].op = "Login" => t \notin Disabling'
      /\ \A t : threads'[t].op # "Login" => \A p : t \notin LoggingIn(p)'
      /\ \A t : threads[t].op \in {"Login", "SetStatus"} \/ threads[t].at # "Revoke" =>
           \A p : t \notin Revoking(p)
      /\ \A i \in Live : i \in Ids /\ i \in Stored /\ sessions[i].of \in Principals
      /\ \A t : Ends(t) /\ t \in Threads => threads'[t] = Idle
      /\ Live' \subseteq Stored'
  BY StoredIsSession
     DEF ThreadsInv, Disabling, Writing, LoggingIn, Revoking, Busied, Free, SessionsInv,
         SessionsTyped, Live, Stored, Session, Ends
<1>1. CASE UNCHANGED <<threads, epoch, basis, raced>> /\ Fewer
  <2>1. /\ \A p : LoggingIn(p)' = LoggingIn(p) /\ Revoking(p)' = Revoking(p)
        /\ Disabling' = Disabling
    BY <1>1 DEF LoggingIn, Revoking, Disabling, Writing, Busied, Free
  <2>2. \A i \in Live' : i \in Live /\ sessions'[i].of = sessions[i].of
    BY <1>1 DEF Fewer, Live
  <2>3. LoginsKnow'
    BY <1>1, <2>1 DEF FreshInv, LoginsKnow
  <2>4. AllBarred'
    BY <1>1, <2>1, <2>2 DEF FreshInv, AllBarred, Barred
  <2>5. AllFounded'
    BY <1>1, <2>1, <2>2 DEF FreshInv, AllFounded, Founded
  <2> QED BY <1>1, <2>3, <2>4, <2>5 DEF FreshInv, EpochsTyped
<1>2. ASSUME NEW t \in Threads, LoginIssues(t) PROVE FreshInv'
  <2> DEFINE o == threads[t]
             q == o.who
  <2>0. /\ Ends(t) /\ threads'[t] = Idle /\ UNCHANGED epoch
        /\ o \in LoginOp /\ o.op = "Login" /\ o.at = "Issue" /\ t \in Busied
        /\ \A u \in Threads \ {t} : Alike(u)
        /\ \A p : t \notin Revoking(p)
    BY <1>0, <1>2, Under, OthersAlike DEF LoginIssues, At, Unlogged, Acts
  <2>1. CASE Fewer /\ UNCHANGED <<basis, raced>>
    BY <1>0, <2>0, <2>1, StillFresh
  <2>2. CASE /\ nextId \in Ids \ Stored /\ nextId' = nextId + 1
             /\ \A i \in Stored' \ {nextId} : i \in Stored /\ sessions'[i].of = sessions[i].of
             /\ \A i \in Live' \ {nextId} : i \in Live
             /\ sessions'[nextId].of = q
             /\ basis' = [basis EXCEPT ![nextId] = o.epoch]
             /\ raced' = raced \cup IF o.raced THEN {nextId} ELSE {}
    <3>1. t \in LoggingIn(q) /\ q \in Principals /\ o.epoch \in Nat
      BY <1>0, <2>0, OpByKind DEF LoggingIn, LoginOp
    <3>2. o.raced \/ o.epoch = epoch[q]
      BY <3>1 DEF FreshInv, LoginsKnow
    <3>3. \A i \in Live' \ {nextId} : i \in Live /\ sessions'[i].of = sessions[i].of
      BY <1>0, <2>2
    <3>4. /\ \A i \in Ids \ {nextId} : basis'[i] = basis[i]
          /\ basis'[nextId] = o.epoch /\ basis' \in [Ids -> Nat]
      BY <2>2, <3>1 DEF FreshInv, EpochsTyped
    <3>5. LoginsKnow'
      BY <1>0, <2>0, KnowStays DEF FreshInv
    <3>6. AllBarred'
      <4>1. ASSUME NEW u \in Disabling \ {t}, threads[u].at = "Commit",
                   NEW i \in Live', sessions'[i].of = threads[u].who
            PROVE  i \in raced' \/ (i \in Live /\ sessions[i].of = threads[u].who)
        <5>1. CASE i # nextId
          BY <3>3, <4>1, <5>1
        <5>2. CASE i = nextId
          <6>1. t \in LoggingIn(threads[u].who)
            BY <2>2, <3>1, <4>1, <5>2
          <6>2. o.raced
            BY <6>1 DEF FreshInv, AllBarred, Barred
          <6> QED BY <2>2, <5>2, <6>2
        <5> QED BY <5>1, <5>2
      <4>2. raced \subseteq raced'
        BY <2>2
      <4> QED BY <1>0, <2>0, <4>1, <4>2, BarsStay DEF FreshInv
    <3>7. AllFounded'
      <4>1. ASSUME NEW i \in Live', i = nextId PROVE Founded(i)'
        BY <2>0, <2>2, <3>2, <3>4, <4>1 DEF Founded
      <4>2. ASSUME NEW i \in Live', i # nextId
            PROVE  /\ i \in Live /\ sessions'[i].of = sessions[i].of
                   /\ basis'[i] = basis[i]
                   /\ epoch'[sessions[i].of] = epoch[sessions[i].of]
                   /\ t \notin Revoking(sessions[i].of)
        BY <1>0, <2>0, <3>3, <3>4, <4>2
      <4>3. raced \subseteq raced'
        BY <2>2
      <4> QED BY <2>0, <4>1, <4>2, <4>3, FoundedStay DEF FreshInv
    <3> QED BY <2>0, <3>4, <3>5, <3>6, <3>7 DEF FreshInv, EpochsTyped
  <2> QED BY <1>2, <2>1, <2>2, LoginIssued
<1>3. ASSUME Fewer, NEW t \in Threads,
             Begins(t) \/ Leaves(t) \/ LoginReads(t) \/ Passes(t) \/ SmsFinds(t)
      PROVE  FreshInv'
  <2> DEFINE o == threads[t]
             new == threads'[t]
  <2>0. /\ \A u \in Threads \ {t} : Alike(u)
        /\ UNCHANGED <<epoch, basis, raced>>
    BY <1>3, OthersAlike DEF Acts, Begins, Leaves, Passes, Rests, LoginReads, SmsFinds, Unlogged
  <2>1. \A p : t \notin Revoking(p)
    <3>1. o = Idle \/ o.at # "Revoke"
      BY <1>3 DEF Begins, Leaves, LoginReads, Passes, SmsFinds, At, Free
    <3> QED BY <1>0, <3>1 DEF Revoking, Busied, Free
  <2>2. \A u \in Disabling \ {t} : Changing(threads[u].who)
    BY DEF Disabling, Writing, Changing, OpFits, ThreadsInv, ChangeOp, LoginOp, Idle, Busied, Free
  <2>3. CASE Begins(t)
    <3>1. new.at \notin {"Judge", "Issue"} /\ t \notin Disabling'
      BY <1>0, <2>3 DEF Begins, Disabling, Writing, OpFits, Idle, LoginOp, ChangeOp
    <3>2. \A p : t \notin LoggingIn(p)'
      BY <3>1 DEF LoggingIn
    <3> QED BY <1>3, <2>0, <2>1, <3>1, <3>2, StillFresh
  <2>4. CASE new = Idle
    BY <1>0, <1>3, <2>0, <2>1, <2>4, StillFresh
  <2>5. CASE LoginReads(t)
    <3>1. /\ new.op = "Login" /\ new.who = o.who
          /\ new.epoch = epoch[o.who] /\ new.raced = Changing(o.who)
      BY <2>5, LoginComes
    <3>2. \A p : t \in LoggingIn(p)' => p = o.who
      BY <3>1 DEF LoggingIn
    <3> QED BY <1>0, <1>3, <2>0, <2>1, <2>2, <3>1, <3>2, StillFresh
  <2>6. CASE Passes(t)
    <3>1. /\ new.op = "Login" /\ new.who = o.who /\ new.epoch = o.epoch /\ new.raced = o.raced
          /\ t \in LoggingIn(o.who)
      BY <2>6, LoginComes DEF Passes, At, LoggingIn
    <3>2. \A p : t \in LoggingIn(p)' => p = o.who
      BY <3>1 DEF LoggingIn
    <3>3. \A p \in Principals : p = o.who => new.raced \/ new.epoch = epoch[p]
      BY <3>1 DEF FreshInv, LoginsKnow
    <3>4. \A u \in Disabling : threads[u].who = o.who => new.raced
      BY <3>1 DEF FreshInv, AllBarred, Barred
    <3> QED BY <1>0, <1>3, <2>0, <2>1, <3>1, <3>2, <3>3, <3>4, StillFresh
  <2>7. CASE SmsFinds(t) /\ new # Idle
    <3>1. CASE new.op = "Login" /\ new.at = "Create"
      <4>1. \A p : t \notin LoggingIn(p)'
        BY <3>1 DEF LoggingIn
      <4> QED BY <1>0, <1>3, <2>0, <2>1, <3>1, <4>1, StillFresh
    <3>2. CASE \E u \in Owned(o.who) :
                 /\ new.op = "Login" /\ new.at = "Issue" /\ new.who = u
                 /\ new.epoch = epoch[u] /\ new.raced = Changing(u)
      <4>1. PICK w : new.op = "Login" /\ new.who = w
                     /\ new.epoch = epoch[w] /\ new.raced = Changing(w)
        BY <3>2
      <4>2. \A p : t \in LoggingIn(p)' => p = w
        BY <4>1 DEF LoggingIn
      <4> QED BY <1>0, <1>3, <2>0, <2>1, <2>2, <4>1, <4>2, StillFresh
    <3> QED BY <2>7, <3>1, <3>2, LoginComes
  <2>8. Leaves(t) => new = Idle
    BY <1>0 DEF Leaves
  <2> QED BY <1>3, <2>3, <2>4, <2>5, <2>6, <2>7, <2>8
<1>4. ASSUME Fewer, NEW t \in Threads,
             CreateAccount(t) \/ StatusWrites(t) \/ StatusRevokes(t)
      PROVE  FreshInv'
  <2> DEFINE o == threads[t]
             new == threads'[t]
  <2>0. /\ \A u \in Threads \ {t} : Alike(u)
        /\ UNCHANGED <<epoch, basis, raced>> /\ t \in Busied
        /\ \A p : t \notin Revoking(p)
    BY <1>0, <1>4, OthersAlike DEF Acts, CreateAccount, StatusWrites, StatusRevokes, Unchanged, At
  <2>1. CASE new = Idle
    BY <1>0, <1>4, <2>0, <2>1, StillFresh
  <2>2. CASE CreateAccount(t) /\ new # Idle
    <3>1. PICK w : new.op = "Login" /\ new.who = w /\ new.epoch = epoch[w]
      BY <2>2, LoginComes
    <3>2. Disabling = {}
      BY <2>2 DEF CreateAccount, Disabling
    <3>3. \A p : t \in LoggingIn(p)' => p = w
      BY <3>1 DEF LoggingIn
    <3> QED BY <1>0, <1>4, <2>0, <3>1, <3>2, <3>3, StillFresh
  <2>3. CASE StatusWrites(t) /\ new # Idle
    <3>1. /\ new.op = "SetStatus" /\ new.who = o.who /\ new.saw = o.saw
          /\ new.at = IF o.saw.state = "Disabled" THEN "Revoke" ELSE "Commit"
          /\ threads' = Written(o.who, t, new.at)
      BY <2>3, ChangeComes
    <3>2. \A u \in LoggingIn(o.who) : u # t => threads'[u].raced
      BY <3>1, WrittenAlike
    <3>3. ASSUME NEW p, p = o.who, NEW u \in LoggingIn(p)' PROVE threads'[u].raced
      <4>1. u # t /\ u \in Threads /\ u \in Busied'
        BY <1>0, <3>1, <3>3 DEF LoggingIn, Busied
      <4>2. u \in LoggingIn(p)
        BY <2>0, <3>3, <4>1, AlikeKeeps DEF LoggingIn
      <4> QED BY <3>2, <3>3, <4>1, <4>2
    <3>4. t \in Disabling' => new.at # "Commit"
      BY <3>1 DEF Disabling
    <3>5. t \in Disabling' => Barred(t)'
      BY <3>1, <3>3, <3>4 DEF Barred
    <3> QED BY <1>0, <1>4, <2>0, <3>1, <3>5, StillFresh
  <2>4. CASE StatusRevokes(t)
    <3>1. new.op = "SetStatus" /\ new.who = o.who /\ new.saw = o.saw /\ new.at = "Commit"
      BY <2>4, ChangeComes
    <3>2. o.op = "SetStatus" /\ o.at = "Revoke" /\ o \in ChangeOp /\ RevokePrincipal(o.who)
      BY <2>4, Under DEF StatusRevokes, At
    <3>3. \A i \in Live' : sessions'[i].of # o.who
      <4>1. o.who \in Principals
        BY <3>2 DEF ChangeOp
      <4> QED BY <1>0, <3>2, <4>1, RevokedPrincipal
    <3>4. ASSUME t \in Disabling', NEW p, p = o.who, NEW u \in LoggingIn(p)'
          PROVE  threads'[u].raced
      <4>1. t \in Disabling
        BY <2>0, <3>1, <3>2, <3>4 DEF Disabling, Writing
      <4>2. u # t /\ u \in Threads /\ u \in Busied' /\ threads'[u].op = "Login"
        BY <1>0, <3>1, <3>4 DEF LoggingIn, Busied
      <4>3. u \in LoggingIn(p)
        BY <2>0, <3>4, <4>2, AlikeKeeps DEF LoggingIn
      <4>4. threads[u].raced
        BY <3>4, <4>1, <4>3 DEF FreshInv, AllBarred, Barred
      <4> QED BY <2>0, <4>2, <4>3, <4>4, AlikeKeeps DEF LoggingIn
    <3>5. t \in Disabling' => Barred(t)'
      BY <3>1, <3>3, <3>4 DEF Barred
    <3> QED BY <1>0, <1>4, <2>0, <3>1, <3>5, StillFresh
  <2> QED BY <1>4, <2>1, <2>2, <2>3, <2>4
<1>5. ASSUME Fewer, NEW t \in Threads, NEW q, q = threads[t].who,
             StatusCommits(t)
      PROVE  FreshInv'
  <2> DEFINE o == threads[t]
  <2>0. /\ \A u \in Threads \ {t} : Alike(u)
        /\ UNCHANGED <<basis, raced>> /\ threads'[t] = Idle /\ t \in Writing /\ t \in Busied
        /\ o.op = "SetStatus" /\ o.at = "Commit" /\ o \in ChangeOp
        /\ \A p : t \notin Revoking(p)
    BY <1>0, <1>5, OthersAlike, Under DEF Acts, StatusCommits, Unchanged, At, Writing
  <2>1. CASE UNCHANGED epoch
    BY <1>0, <1>5, <2>0, <2>1, StillFresh
  <2>2. CASE o.saw.state = "Disabled" /\ epoch' = [epoch EXCEPT ![q] = @ + 1]
    <3>1. Disabling = {t}
      BY <2>0, <2>2 DEF Disabling, WritersInv
    <3>2. Barred(t)
      BY <3>1 DEF FreshInv, AllBarred
    <3>3. q \in Principals /\ epoch' \in [Principals -> Nat]
          /\ \A p \in Principals \ {q} : epoch'[p] = epoch[p]
      BY <1>5, <2>0, <2>2 DEF ChangeOp, FreshInv, EpochsTyped
    <3>4. ASSUME NEW u \in LoggingIn(q)' \ {t} PROVE threads'[u].raced
      <4>1. u \in Threads /\ u \in Busied' /\ threads'[u].op = "Login"
        BY DEF LoggingIn, Busied
      <4>2. u \in LoggingIn(q)
        BY <2>0, <3>4, <4>1, AlikeKeeps DEF LoggingIn
      <4> QED BY <1>5, <2>0, <3>2, <3>4, <4>1, <4>2, AlikeKeeps DEF LoggingIn, Barred
    <3>5. LoginsKnow'
      BY <1>0, <2>0, <3>3, <3>4, KnowStays DEF FreshInv
    <3>6. \A i \in Live' : i \in Live /\ sessions'[i].of = sessions[i].of
      BY <1>0, <1>5 DEF Fewer
    <3>7. AllBarred'
      BY <1>0, <2>0, <3>1, BarsStay DEF FreshInv
    <3>8. \A i \in Live' : sessions[i].of = q => Founded(i)'
      BY <1>5, <2>0, <3>2, <3>6 DEF Barred, Founded
    <3>9. AllFounded'
      BY <1>0, <2>0, <3>3, <3>6, <3>8, FoundedStay DEF FreshInv
    <3> QED BY <2>0, <3>3, <3>5, <3>7, <3>9 DEF FreshInv, EpochsTyped
  <2> QED BY <1>5, <2>1, <2>2 DEF StatusCommits
<1>6. ASSUME Fewer, NEW t \in Threads, NEW q, q = threads[t].who,
             PasswordWrites(t) \/ DeletionWrites(t)
      PROVE  FreshInv'
  <2> DEFINE o == threads[t]
             new == threads'[t]
  <2>0. /\ \A u \in Threads \ {t} : Alike(u)
        /\ UNCHANGED <<basis, raced>> /\ t \in Busied /\ Writing = {} /\ o \in ChangeOp
        /\ o.op \in {"ChangePassword", "DeleteAccount"} /\ o.at = "Write"
        /\ \A p : t \notin Revoking(p)
    BY <1>0, <1>6, OthersAlike, Under DEF Acts, PasswordWrites, DeletionWrites, Unchanged, At
  <2>1. CASE new = Idle /\ UNCHANGED epoch
    BY <1>0, <1>6, <2>0, <2>1, StillFresh
  <2>2. CASE /\ new.op = o.op /\ new.who = q /\ new.at = "Revoke"
             /\ threads' = Written(q, t, "Revoke")
             /\ epoch' = [epoch EXCEPT ![q] = @ + 1]
    <3>1. Disabling = {} /\ t \notin Disabling'
      BY <2>0, <2>2 DEF Disabling, Writing
    <3>3. q \in Principals /\ epoch' \in [Principals -> Nat]
          /\ \A p \in Principals \ {q} : epoch'[p] = epoch[p]
      BY <1>6, <2>0, <2>2 DEF ChangeOp, FreshInv, EpochsTyped
    <3>4. ASSUME NEW u \in LoggingIn(q)' \ {t} PROVE threads'[u].raced
      <4>1. u \in Threads /\ u \in Busied' /\ threads'[u].op = "Login"
        BY DEF LoggingIn, Busied
      <4>2. u \in LoggingIn(q)
        BY <2>0, <3>4, <4>1, AlikeKeeps DEF LoggingIn
      <4>3. \A v \in LoggingIn(q) : v # t => threads'[v].raced
        BY <2>2, WrittenAlike
      <4> QED BY <3>4, <4>2, <4>3
    <3>5. LoginsKnow'
      BY <1>0, <2>0, <2>2, <3>3, <3>4, KnowStays DEF FreshInv
    <3>6. \A i \in Live' : i \in Live /\ sessions'[i].of = sessions[i].of
      BY <1>0, <1>6 DEF Fewer
    <3>7. AllBarred'
      BY <1>0, <2>0, <3>1, BarsStay DEF FreshInv
    <3>8. t \in Revoking(q)'
      <4>1. new # Idle
        BY <2>0, <2>2 DEF Idle
      <4> QED BY <2>0, <2>2, <4>1 DEF Revoking, Busied, Free
    <3>9. \A i \in Live' : sessions[i].of = q => Founded(i)'
      BY <3>6, <3>8 DEF Founded
    <3>10. AllFounded'
      BY <1>0, <2>0, <3>3, <3>6, <3>9, FoundedStay DEF FreshInv
    <3> QED BY <2>0, <3>3, <3>5, <3>7, <3>10 DEF FreshInv, EpochsTyped
  <2> QED BY <1>6, <2>1, <2>2, ChangeComes
<1>7. ASSUME Fewer, NEW t \in Threads, NEW q, q = threads[t].who,
             PasswordRevokes(t) \/ DeletionRevokes(t)
      PROVE  FreshInv'
  <2> DEFINE o == threads[t]
  <2>0. /\ \A u \in Threads \ {t} : Alike(u)
        /\ UNCHANGED <<epoch, raced>> /\ threads'[t] = Idle /\ t \in Busied /\ o \in ChangeOp
        /\ q \in Principals /\ \A p : p # q => t \notin Revoking(p)
    BY <1>0, <1>7, OthersAlike, Under
       DEF Acts, PasswordRevokes, DeletionRevokes, Unchanged, At, ChangeOp, Revoking
  <2>1. \A i \in Live' : i \in Live /\ sessions'[i].of = sessions[i].of
    BY <1>0, <1>7 DEF Fewer
  <2>2. /\ basis' \in [Ids -> Nat]
        /\ \A i \in Live' : /\ sessions[i].of = q => basis'[i] = epoch[q]
                            /\ sessions[i].of # q => basis'[i] = basis[i]
    <3>1. CASE DeletionRevokes(t)
      <4>1. \A i \in Live' : sessions'[i].of # q
        BY <1>0, <1>7, <2>0, <3>1, RevokedPrincipal DEF DeletionRevokes
      <4> QED BY <2>1, <3>1, <4>1 DEF DeletionRevokes, Unchanged, FreshInv, EpochsTyped
    <3>2. CASE PasswordRevokes(t)
      <4>1. /\ o.by \in Ids /\ (o.by \in Stored => sessions[o.by].of = q)
            /\ RevokeOthers(q, o.by) /\ basis' = [basis EXCEPT ![o.by] = epoch[q]]
        BY <1>7, <3>2 DEF PasswordRevokes, At, AllAsked, Asked
      <4>2. \A i \in Live' : sessions'[i].of = q => i = o.by
        BY <1>0, <2>0, <4>1, RevokedOthers
      <4>3. basis' \in [Ids -> Nat] /\ basis'[o.by] = epoch[q]
            /\ \A i \in Ids \ {o.by} : basis'[i] = basis[i]
        BY <2>0, <4>1 DEF FreshInv, EpochsTyped
      <4>4. \A i \in Live' : i = o.by => sessions[i].of = q
        BY <1>0, <2>1, <4>1
      <4> QED BY <1>0, <2>1, <4>2, <4>3, <4>4
    <3> QED BY <1>7, <3>1, <3>2
  <2>3. LoginsKnow'
    BY <1>0, <2>0, KnowStays DEF FreshInv
  <2>4. AllBarred'
    BY <1>0, <2>0, <2>1, BarsStay DEF FreshInv
  <2>5. \A i \in Live' : sessions[i].of = q => Founded(i)'
    BY <2>0, <2>1, <2>2 DEF Founded
  <2>6. AllFounded'
    BY <1>0, <2>0, <2>1, <2>2, <2>5, FoundedStay DEF FreshInv
  <2> QED BY <2>0, <2>2, <2>3, <2>4, <2>6 DEF FreshInv, EpochsTyped
<1>8. ASSUME Fewer, NEW i, NEW p, NEW w, EditProfile(i) \/ CreateAdmin(i, p, w) PROVE FreshInv'
  BY <1>1, <1>8 DEF EditProfile, CreateAdmin, Unchanged
<1>9. CASE Fewer /\ Rests /\ UNCHANGED threads
  BY <1>1, <1>9 DEF Rests
<1>10. ASSUME Fewer, NEW t \in Threads, Begins(t) \/ Leaves(t) \/ Acts(t) PROVE FreshInv'
  BY <1>2, <1>3, <1>4, <1>5, <1>6, <1>7, <1>10 DEF Acts
<1> QED BY <1>2, <1>8, <1>9, <1>10, NextMoves

-----------------------------------------------------------------------------
LEMMA AccessStep ==
    ASSUME SessionsInv, AccessInv, [Next]_vars
    PROVE  SessionsInv' /\ AccessInv'
<1>1. CASE Next
  <2>1. SessionsInv' /\ Kept /\ (Fewer \/ \E t \in Threads : LoginIssues(t))
    BY <1>1, NextSessions DEF AccessInv
  <2>2. ThreadsInv'
    BY <1>1, NextThreads DEF AccessInv, FreshInv, EpochsTyped
  <2>3. AccountsInv' /\ \A p \in Principals : Made(p) => Made(p)'
    BY <1>1, NextAccounts DEF AccessInv
  <2>4. WritersInv'
    BY <1>1, <2>2, NextWriters DEF AccessInv
  <2>5. AllMet'
    BY <1>1, <2>1, <2>2, <2>3, NextMet DEF AccessInv
  <2>6. AllAsked'
    BY <1>1, <2>1, <2>2, NextAsked DEF AccessInv
  <2>7. FreshInv'
    BY <1>1, <2>1, <2>2, NextFresh DEF AccessInv
  <2> QED BY <2>1, <2>2, <2>3, <2>4, <2>5, <2>6, <2>7 DEF AccessInv
<1>2. CASE UNCHANGED vars
  <2>1. UNCHANGED sessionVars /\ UNCHANGED accessVars
    BY <1>2 DEF vars
  <2>2. UNCHANGED <<scene, accounts, audits, threads, epoch, basis, raced>>
    BY <2>1 DEF accessVars
  <2>3. SessionsInv'
    BY <2>1, SameSessions
  <2>4. /\ Stored' = Stored /\ Live' = Live
        /\ UNCHANGED <<sessions, nextId>>
    BY <2>1 DEF sessionVars, Stored, Live, Expired
  <2>5. ThreadsInv' /\ AccountsInv'
    BY <2>2 DEF AccessInv, ThreadsInv, AccountsInv, Made
  <2>6. AllMet' /\ AllAsked'
    BY <2>2, <2>4 DEF AccessInv, AllMet, Met, Made, AllAsked, Asked
  <2>7. WritersInv'
    BY <2>2 DEF AccessInv, WritersInv, Writing, Busied, Free
  <2>8. /\ \A p : LoggingIn(p)' = LoggingIn(p) /\ Revoking(p)' = Revoking(p)
        /\ Disabling' = Disabling
    BY <2>2 DEF LoggingIn, Revoking, Disabling, Writing, Busied, Free
  <2>9. FreshInv'
    BY <2>2, <2>4, <2>8 DEF AccessInv, FreshInv, EpochsTyped, LoginsKnow, AllBarred, Barred,
       AllFounded, Founded
  <2> QED BY <2>3, <2>5, <2>6, <2>7, <2>9 DEF AccessInv
<1> QED BY <1>1, <1>2

LEMMA AccessStart == Init => SessionsInv /\ AccessInv
<1> SUFFICES ASSUME Init PROVE SessionsInv /\ AccessInv
  OBVIOUS
<1>1. SessionsInv
  BY SessionsStart DEF Init
<1>2. Stored = {} /\ Live = {}
  BY DEF Init, SessionsInit, Stored, Live
<1>3. /\ DOMAIN threads = Threads /\ \A t \in Threads : threads[t] = Idle
      /\ Busied = {}
  BY DEF Init, Busied, Free
<1>4. Writing = {} /\ Disabling = {} /\ \A p : LoggingIn(p) = {}
  BY <1>3 DEF Writing, Disabling, LoggingIn
<1>5. ThreadsInv
  BY <1>3 DEF ThreadsInv, OpFits, Init
<1>6. AllMet /\ AllAsked
  BY <1>2, <1>3, IdleIsMet DEF AllMet, AllAsked
<1>7. AccountsInv
  <2> DEFINE present == Scenes[scene].present
  <2>1. /\ present \subseteq Principals /\ Admins \subseteq Principals
        /\ \A p, q \in present \cap Users : PhoneOf[p] = PhoneOf[q] => p = q
        /\ Users \subseteq Principals
    BY ScenesAssumption, AccessAssumption DEF Init
  <2>2. /\ accounts = [p \in Principals |->
                          IF p \in present THEN NewAccount(FirstPassword) ELSE NoAccount]
        /\ audits = [p \in Principals |-> 0]
    BY DEF Init
  <2> HIDE DEF present
  <2>3. NewAccount(FirstPassword) \in Account /\ NoAccount \in Account
        /\ NewAccount(FirstPassword).version = 1 /\ NoAccount.version = 0
        /\ NoAccount.state = "None"
    BY AccessAssumption DEF NewAccount, NoAccount, Account
  <2>4. ASSUME NEW p \in Admins
        PROVE  audits[p] + Cardinality(present \cap {p}) = accounts[p].version
    <3>1. CASE p \in present
      <4>1. present \cap {p} = {p} /\ Cardinality({p}) = 1
        BY <3>1, FS_Singleton
      <4> QED BY <2>1, <2>2, <2>3, <3>1, <4>1
    <3>2. CASE p \notin present
      <4>1. present \cap {p} = {} /\ Cardinality({}) = 0
        BY <3>2, FS_EmptySet
      <4> QED BY <2>1, <2>2, <2>3, <3>2, <4>1
    <3> QED BY <3>1, <3>2
  <2>5. ASSUME NEW p \in Users, NEW q \in Users, PhoneOf[p] = PhoneOf[q], p # q
        PROVE  {accounts[p].state, accounts[q].state} \cap {"None", "Deleted"} # {}
    BY <2>1, <2>2, <2>3, <2>5
  <2>6. /\ accounts \in [Principals -> Account] /\ audits \in [Principals -> Nat]
        /\ \A p \in Principals : Made(p) \/ accounts[p] = NoAccount
    BY <2>2, <2>3 DEF Made, NewAccount
  <2> QED BY <2>4, <2>5, <2>6 DEF AccountsInv, present
<1>8. WritersInv
  BY <1>4 DEF WritersInv
<1>9. FreshInv
  BY <1>2, <1>4 DEF Init, FreshInv, EpochsTyped, LoginsKnow, AllBarred, AllFounded
<1> QED BY <1>1, <1>5, <1>6, <1>7, <1>8, <1>9 DEF AccessInv

\* The table of sessions with its indexes and limits, the operations under way,
\* the accounts, their one writer, and what logins and sessions know of the
\* account's changes hold at all times.
THEOREM AccessInvariant == Spec => [](SessionsInv /\ AccessInv)
<1>1. Init => SessionsInv /\ AccessInv
  BY AccessStart
<1>2. (SessionsInv /\ AccessInv) /\ [Next]_vars => (SessionsInv /\ AccessInv)'
  BY AccessStep
<1> QED BY <1>1, <1>2, PTL DEF Spec

\* A live session stands on its account as it is now (auth_service.cpp,
\* admin_account_service.cpp, user_service.cpp: sessions are revoked with every
\* change), unless its login overlapped the change or the change is under way; the
\* indexes of the session manager agree and keep its limits, and one thread writes.
THEOREM SessionsAreFresh == Spec => []NoStaleSession
<1>1. SessionsInv /\ AccessInv => NoStaleSession
  <2> SUFFICES ASSUME SessionsInv, AccessInv PROVE NoStaleSession
    OBVIOUS
  <2>1. Cardinality(Writing) <= 1
    <3>1. CASE Writing = {}
      BY <3>1, FS_EmptySet
    <3>2. CASE Writing # {}
      <4>1. PICK t \in Writing : Writing = {t}
        BY <3>2 DEF AccessInv, WritersInv
      <4> QED BY <4>1, FS_Singleton
    <3> QED BY <3>1, <3>2
  <2>2. AccessTypeOK
    BY <2>1, SessionsInvIsType DEF AccessInv, AccountsInv, AccessTypeOK
  <2>3. \A p : Revoking(p) # {} => Changing(p)
    BY DEF Revoking, Changing
  <2>4. \A i \in Live : Founded(i)
    BY DEF AccessInv, FreshInv, AllFounded
  <2> QED BY <2>2, <2>3, <2>4 DEF NoStaleSession, Founded
<1> QED BY <1>1, AccessInvariant, PTL

-----------------------------------------------------------------------------
\* Only a request that is let in is a call.
LEMMA OnlyEnterCalls ==
    ASSUME Next
    PROVE  UNCHANGED lastCall \/ \E i \in Live, r \in DOMAIN Route : Enter(i, r)
<1>1. CASE LoginSteps
  <2>1. PICK t : \/ \E n, d, k, w : AdminLogin(t, n, d, k, w)
                 \/ \E u, d, w, c : UserLogin(t, u, d, w, c)
                 \/ \E ph, d, right : SmsLogin(t, ph, d, right)
                 \/ \E ph, d, w, right : Register(t, ph, d, w, right)
                 \/ LoginReads(t) \/ AdminJudged(t) \/ UserJudged(t) \/ LoginIssues(t)
                 \/ SmsFinds(t) \/ CreateAccount(t)
    BY <1>1 DEF LoginSteps
  <2> QED BY <2>1 DEF AdminLogin, UserLogin, SmsLogin, Register, LoginReads, AdminJudged,
     UserJudged, LoginIssues, SmsFinds, CreateAccount, Unlogged
<1>2. CASE ChangeSteps
  <2>1. PICK t : \/ \E i, p, state : SetStatus(t, i, p, state)
                 \/ StatusWrites(t) \/ StatusRevokes(t) \/ StatusCommits(t)
                 \/ \E i, w, guess : ChangePassword(t, i, w, guess)
                 \/ \E i, w, right : ResetPassword(t, i, w, right)
                 \/ PasswordWrites(t) \/ PasswordRevokes(t)
                 \/ \E i, proof : DeleteAccount(t, i, proof)
                 \/ DeletionWrites(t) \/ DeletionRevokes(t)
                 \/ \E i : Reauthenticate(t, i)
                 \/ ReauthMarks(t)
    BY <1>2 DEF ChangeSteps
  <2> QED BY <2>1 DEF SetStatus, StatusWrites, StatusRevokes, StatusCommits, ChangePassword,
     ResetPassword, PasswordWrites, PasswordRevokes, DeleteAccount, DeletionWrites,
     DeletionRevokes, Reauthenticate, ReauthMarks, Unchanged
<1>3. CASE \E i \in Live, p \in Admins, w \in Passwords : CreateAdmin(i, p, w)
  BY <1>3 DEF CreateAdmin, Unchanged
<1>4. CASE \E i \in Live : EditProfile(i)
  BY <1>4 DEF EditProfile, Unchanged
<1>5. CASE (\E i, j \in Live : Logout(i, j)) \/ SessionsEnd \/ TimePasses
           \/ \E ph \in Phones, purpose \in Purposes : AskForCode(ph, purpose)
  BY <1>5 DEF Logout, SessionsEnd, TimePasses, AskForCode, accessVars
<1> QED BY <1>1, <1>2, <1>3, <1>4, <1>5 DEF Next

\* What the interface promises of a route is kept by whoever enters it
\* (src/server/main.cpp and each controller's routes, through
\* middleware::authorize): owners' routes by owners, sensitive ones after a recent
\* password, users' by users, and what moves money under a key.
THEOREM RoutesArePermitted == Spec => []OnlyPermitted
<1>1. Init => OnlyPermitted
  BY DEF Init, OnlyPermitted
<1>2. ASSUME OnlyPermitted, [Next]_vars PROVE OnlyPermitted'
  <2>1. CASE UNCHANGED lastCall
    BY <1>2, <2>1 DEF OnlyPermitted
  <2>2. ASSUME NEW i \in Live, NEW r \in DOMAIN Route, Enter(i, r) PROVE OnlyPermitted'
    <3> DEFINE a == Route[r]
               role == RoleOf[sessions[i].of]
    <3>1. KeepsPromise(r, a)
      BY RoutesKeepPromises
    <3>2. /\ sessions[i].kind \in a.kinds /\ role \in a.roles
          /\ a.reauth => sessions[i].reauth = "Recent"
          /\ lastCall' = [route |-> r, kind |-> sessions[i].kind, key |-> a.key,
                          role |-> role, proof |-> sessions[i].reauth]
      BY <2>2 DEF Enter, Permitted, RecentlyReauthenticated
    <3>3. /\ lastCall'.route = r /\ lastCall'.kind = sessions[i].kind /\ lastCall'.key = a.key
          /\ lastCall'.role = role /\ lastCall'.proof = sessions[i].reauth
      BY <3>2
    <3> HIDE DEF a, role
    <3>4. /\ r \in OwnersOnly => role = "Owner"
          /\ r \in Sensitive => sessions[i].kind = "Administrator" /\ sessions[i].reauth = "Recent"
          /\ role = "User" <=> sessions[i].kind = "User"
      BY <3>1, <3>2 DEF KeepsPromise
    <3>5. /\ role = "Viewer" => r = "dashboard.summary"
          /\ sessions[i].kind = "Dashboard" => r \notin Keyed
          /\ r \in Keyed => a.key # "No"
          /\ r \in Money => a.key = "ForGood"
      BY <3>1, <3>2 DEF KeepsPromise
    <3> QED BY <3>3, <3>4, <3>5 DEF OnlyPermitted
  <2>3. CASE UNCHANGED vars
    BY <2>1, <2>3 DEF vars, accessVars
  <2> QED BY <1>2, <2>1, <2>2, <2>3, OnlyEnterCalls
<1>3. OnlyPermitted /\ [Next]_vars => OnlyPermitted'
  BY <1>2
<1> QED BY <1>1, <1>3, PTL DEF Spec

-----------------------------------------------------------------------------
\* What a step does to the tables that bound guesses is one operation of each.
LockCalls ==
    \/ UNCHANGED lockVars
    \/ \E t \in Threads : AdminJudged(t)
    \/ \E n \in Names : (LockOver(n) \/ Forget(n)) /\ UNCHANGED threads
CodeCalls ==
    \/ UNCHANGED codeVars
    \/ \E ph \in Phones, purpose \in Purposes :
         \/ Accepted(ph, purpose) \/ Rejected(ph, purpose) \/ IssueCode(ph, purpose)
         \/ CooldownOver(ph, purpose) \/ CodeExpires(ph, purpose)
    \/ CleanupCodes \/ DayPasses
RateCalls ==
    \/ UNCHANGED rateVars
    \/ \E c \in Clients, allowed \in BOOLEAN : Allow(c, allowed)
    \/ Tick \/ OpenWindow

OneCallEach == LockCalls /\ CodeCalls /\ RateCalls

LEMMA CredentialCalls ==
    ASSUME ThreadsInv, SessionsInv, Next
    PROVE  OneCallEach
<1> DEFINE from == Scenes[scene]
<1>0. from.threads \subseteq Threads /\ from.clients \subseteq Clients /\ Live \subseteq Stored \cap Ids
      /\ {"LOGIN", "REGISTER", "RESET"} \subseteq Purposes
  BY ScenesAssumption, AccessAssumption DEF ThreadsInv, Live, Stored
<1>1. ASSUME UNCHANGED credentialVars PROVE OneCallEach
  BY <1>1 DEF OneCallEach, credentialVars, LockCalls, CodeCalls, RateCalls, lockVars, codeVars, rateVars
<1>2. ASSUME UNCHANGED <<lockVars, rateVars>>, CodeCalls PROVE OneCallEach
  BY <1>2 DEF OneCallEach, LockCalls, RateCalls
<1> HIDE DEF from
<1>3. CASE LoginSteps
  <2>1. PICK t \in from.threads :
      \/ \E n \in Admins, d \in from.devices, k \in from.kinds, w \in from.guesses :
           AdminLogin(t, n, d, k, w)
      \/ \E u \in Users, d \in from.devices, w \in from.guesses, c \in from.clients :
           UserLogin(t, u, d, w, c)
      \/ \E ph \in Phones, d \in from.devices, right \in BOOLEAN :
           \/ SmsLogin(t, ph, d, right)
           \/ \E w \in Passwords : Register(t, ph, d, w, right)
      \/ LoginReads(t) \/ AdminJudged(t) \/ UserJudged(t) \/ LoginIssues(t)
      \/ SmsFinds(t) \/ CreateAccount(t)
    BY <1>3 DEF LoginSteps, from
  <2>2. CASE \E n, d, k, w : AdminLogin(t, n, d, k, w)
    BY <1>1, <2>2 DEF AdminLogin
  <2>3. ASSUME NEW u, NEW d, NEW w, NEW c \in from.clients, UserLogin(t, u, d, w, c) PROVE OneCallEach
    <3>1. UNCHANGED <<lockVars, codeVars>> /\ \E allowed \in BOOLEAN : Allow(c, allowed)
      BY <2>3 DEF UserLogin
    <3> QED BY <1>0, <3>1 DEF OneCallEach, LockCalls, CodeCalls, RateCalls
  <2>4. ASSUME NEW ph \in Phones, NEW d, NEW right, SmsLogin(t, ph, d, right) PROVE OneCallEach
    <3>1. UNCHANGED <<lockVars, rateVars>> /\ (Accepted(ph, "LOGIN") \/ Rejected(ph, "LOGIN"))
      BY <2>4 DEF SmsLogin
    <3>2. CodeCalls
      BY <1>0, <3>1 DEF CodeCalls
    <3> QED BY <1>2, <3>1, <3>2
  <2>5. ASSUME NEW ph \in Phones, NEW d, NEW w, NEW right, Register(t, ph, d, w, right)
        PROVE  OneCallEach
    <3>1. /\ UNCHANGED <<lockVars, rateVars>>
          /\ Accepted(ph, "REGISTER") \/ Rejected(ph, "REGISTER")
      BY <2>5 DEF Register
    <3>2. CodeCalls
      BY <1>0, <3>1 DEF CodeCalls
    <3> QED BY <1>2, <3>1, <3>2
  <2>6. CASE AdminJudged(t)
    <3>1. UNCHANGED codeVars /\ UNCHANGED rateVars
      BY <2>6 DEF AdminJudged
    <3> QED BY <1>0, <2>6, <3>1 DEF OneCallEach, LockCalls, CodeCalls, RateCalls
  <2>7. CASE LoginReads(t) \/ UserJudged(t) \/ LoginIssues(t) \/ SmsFinds(t) \/ CreateAccount(t)
    BY <1>1, <2>7 DEF LoginReads, UserJudged, LoginIssues, SmsFinds, CreateAccount
  <2> QED BY <2>1, <2>2, <2>3, <2>4, <2>5, <2>6, <2>7
<1>4. CASE ChangeSteps
  <2>1. PICK t \in from.threads :
      \/ \E i \in Live, p \in from.targets, state \in {"Enabled", "Disabled"} :
           SetStatus(t, i, p, state)
      \/ StatusWrites(t) \/ StatusRevokes(t) \/ StatusCommits(t)
      \/ \E i \in Live, w, guess \in Passwords : ChangePassword(t, i, w, guess)
      \/ \E i \in Live, w \in Passwords, right \in BOOLEAN : ResetPassword(t, i, w, right)
      \/ PasswordWrites(t) \/ PasswordRevokes(t)
      \/ \E i \in Live, proof \in {"password", "code", "wrong code"} :
           DeleteAccount(t, i, proof)
      \/ DeletionWrites(t) \/ DeletionRevokes(t)
      \/ \E i \in Live : Reauthenticate(t, i)
      \/ ReauthMarks(t)
    BY <1>4 DEF ChangeSteps, from
  <2>2. ASSUME NEW i \in Live, NEW r \in OfUsers, Permitted(i, r)
        PROVE  PhoneOf[sessions[i].of] \in Phones
    <3>1. sessions[i].of \in Principals
      BY <1>0, StoredIsSession DEF SessionsInv, SessionsTyped, Session
    <3>2. RoleOf[sessions[i].of] = "User"
      BY <2>2, RoutesKeepPromises DEF Permitted, KeepsPromise
    <3> QED BY <3>1, <3>2, AccessAssumption
  <2>3. ASSUME NEW i \in Live, NEW w, NEW right, ResetPassword(t, i, w, right) PROVE OneCallEach
    <3> DEFINE ph == PhoneOf[sessions[i].of]
    <3>1. UNCHANGED <<lockVars, rateVars>> /\ (Accepted(ph, "RESET") \/ Rejected(ph, "RESET"))
      BY <2>3 DEF ResetPassword
    <3>2. ph \in Phones
      BY <2>2, <2>3 DEF ResetPassword, OfUsers
    <3> HIDE DEF ph
    <3>3. CodeCalls
      BY <1>0, <3>1, <3>2 DEF CodeCalls
    <3> QED BY <1>2, <3>1, <3>3
  <2>4. ASSUME NEW i \in Live, NEW proof, DeleteAccount(t, i, proof) PROVE OneCallEach
    <3> DEFINE ph == PhoneOf[sessions[i].of]
    <3>1. /\ UNCHANGED <<lockVars, rateVars>>
          /\ UNCHANGED codeVars \/ Accepted(ph, "RESET") \/ Rejected(ph, "RESET")
      BY <2>4 DEF DeleteAccount
    <3>2. ph \in Phones
      BY <2>2, <2>4 DEF DeleteAccount, OfUsers
    <3> HIDE DEF ph
    <3>3. CodeCalls
      BY <1>0, <3>1, <3>2 DEF CodeCalls
    <3> QED BY <1>2, <3>1, <3>3
  <2>5. CASE \/ \E i, p, state : SetStatus(t, i, p, state)
             \/ \E i, w, guess : ChangePassword(t, i, w, guess)
             \/ \E i : Reauthenticate(t, i)
    BY <1>1, <2>5 DEF SetStatus, ChangePassword, Reauthenticate
  <2>6. CASE \/ StatusWrites(t) \/ StatusRevokes(t) \/ StatusCommits(t) \/ PasswordWrites(t)
             \/ PasswordRevokes(t) \/ DeletionWrites(t) \/ DeletionRevokes(t) \/ ReauthMarks(t)
    BY <1>1, <2>6 DEF StatusWrites, StatusRevokes, StatusCommits, PasswordWrites,
       PasswordRevokes, DeletionWrites, DeletionRevokes, ReauthMarks
  <2> QED BY <2>1, <2>3, <2>4, <2>5, <2>6
<1>5. CASE \/ \E i, r : Enter(i, r)
           \/ \E i, p, w : CreateAdmin(i, p, w)
           \/ \E i : EditProfile(i) \/ \E j : Logout(i, j)
           \/ SessionsEnd
  BY <1>1, <1>5 DEF Enter, CreateAdmin, EditProfile, Logout, SessionsEnd
<1>6. ASSUME NEW ph \in Phones, NEW purpose \in Purposes, AskForCode(ph, purpose) PROVE OneCallEach
  <2>1. \/ IssueCode(ph, purpose) \/ CooldownOver(ph, purpose) \/ CodeExpires(ph, purpose)
        \/ CleanupCodes
    BY <1>6 DEF AskForCode
  <2>2. UNCHANGED <<lockVars, rateVars>>
    BY <2>1 DEF IssueCode, CooldownOver, CodeExpires, CleanupCodes
  <2>3. CodeCalls
    BY <2>1 DEF CodeCalls
  <2> QED BY <1>2, <2>2, <2>3
<1>7. CASE TimePasses
  <2>1. UNCHANGED threads
    BY <1>7 DEF TimePasses, accessVars
  <2>2. \/ UNCHANGED credentialVars \/ \E n \in Names : LockOver(n) \/ Forget(n)
        \/ DayPasses \/ Tick \/ OpenWindow
    BY <1>7 DEF TimePasses
  <2>3. ASSUME NEW n \in Names, LockOver(n) \/ Forget(n) PROVE OneCallEach
    <3>1. UNCHANGED codeVars /\ UNCHANGED rateVars
      BY <2>3 DEF LockOver, Forget
    <3> QED BY <2>1, <2>3, <3>1 DEF OneCallEach, LockCalls, CodeCalls, RateCalls
  <2>4. CASE DayPasses
    <3>1. UNCHANGED <<lockVars, rateVars>>
      BY <2>4 DEF DayPasses
    <3> QED BY <1>2, <2>4, <3>1 DEF CodeCalls
  <2>5. CASE Tick \/ OpenWindow
    <3>1. UNCHANGED lockVars /\ UNCHANGED codeVars
      BY <2>5 DEF Tick, OpenWindow
    <3> QED BY <2>5, <3>1 DEF OneCallEach, LockCalls, CodeCalls, RateCalls
  <2> QED BY <1>1, <2>2, <2>3, <2>4, <2>5
<1> QED BY <1>3, <1>4, <1>5, <1>6, <1>7 DEF Next

-----------------------------------------------------------------------------
\* Locks.  The guesses of a name that may still be wrong: when it is locked, each
\* is one that read the lock before.
Guessing(n) ==
    {t \in Busied : /\ threads[t].op = "Login" /\ threads[t].who = n
                    /\ threads[t].at \in {"Read", "Judge"}}
LocksTyped ==
    /\ attempts \in [Names -> [failures: 0..MaxFailures - 1, locked: BOOLEAN, known: BOOLEAN]]
    /\ IsFiniteSet(Known(attempts)) /\ Cardinality(Known(attempts)) <= MaximumAttempts
    /\ misses \in [Names -> Nat]
Counted(n) ==
    IF Locked(n)
    THEN misses[n] + Cardinality(Guessing(n)) <= MaxFailures + Cardinality(Threads) - 1
    ELSE misses[n] = attempts[n].failures
LocksInv == LocksTyped /\ \A n \in Names : Counted(n)

LEMMA GuessersAreFew ==
    \A n : /\ Guessing(n) \subseteq Threads /\ IsFiniteSet(Guessing(n))
           /\ Cardinality(Guessing(n)) \in Nat /\ Cardinality(Threads) \in Nat
           /\ Cardinality(Guessing(n)) <= Cardinality(Threads)
           /\ \A S : S \subseteq Guessing(n) =>
                /\ Cardinality(S) \in Nat /\ Cardinality(S) <= Cardinality(Guessing(n))
                /\ \A t \in Guessing(n) : t \notin S =>
                     Cardinality(S) + 1 <= Cardinality(Guessing(n))
<1> TAKE n
<1>1. Guessing(n) \subseteq Threads /\ IsFiniteSet(Threads)
  BY AccessAssumption DEF Guessing, Busied
<1>2. /\ IsFiniteSet(Guessing(n)) /\ Cardinality(Guessing(n)) <= Cardinality(Threads)
      /\ Cardinality(Guessing(n)) \in Nat /\ Cardinality(Threads) \in Nat
  BY <1>1, FS_Subset, FS_CardinalityType
<1>3. ASSUME NEW S, S \subseteq Guessing(n)
      PROVE  /\ Cardinality(S) \in Nat /\ Cardinality(S) <= Cardinality(Guessing(n))
             /\ \A t \in Guessing(n) : t \notin S =>
                  Cardinality(S) + 1 <= Cardinality(Guessing(n))
  <2>1. /\ IsFiniteSet(S) /\ Cardinality(S) <= Cardinality(Guessing(n))
        /\ Cardinality(S) = Cardinality(Guessing(n)) => S = Guessing(n)
    BY <1>2, <1>3, FS_Subset
  <2>2. Cardinality(S) \in Nat
    BY <2>1, FS_CardinalityType
  <2> QED BY <1>2, <2>1, <2>2
<1> QED BY <1>1, <1>2, <1>3

\* Only a name that is not locked gets another guess.
LEMMA LockedIsNotGuessed ==
    ASSUME SessionsInv, ThreadsInv, Next, NEW n \in Names, Locked(n)
    PROVE  Guessing(n)' \subseteq Guessing(n)
<1> SUFFICES ASSUME NEW u \in Guessing(n)' PROVE u \in Guessing(n)
  OBVIOUS
<1>0. /\ u \in Threads /\ threads'[u] # Idle /\ threads'[u].op = "Login"
      /\ threads'[u].who = n /\ threads'[u].at \in {"Read", "Judge"}
      /\ n \in Admins
  BY AccessAssumption DEF Guessing, Busied, Free
<1>1. CASE UNCHANGED threads
  BY <1>0, <1>1 DEF Guessing, Busied, Free
<1>2. ASSUME NEW t \in Threads, Begins(t) \/ Leaves(t) \/ Acts(t), u # t
      PROVE  u \in Guessing(n)
  BY <1>0, <1>2, OthersAlike, AlikeKeeps DEF Guessing
<1>3. ASSUME Begins(u) PROVE FALSE
  BY <1>0, <1>3 DEF Begins
<1>4. ASSUME Leaves(u) PROVE FALSE
  BY <1>0, <1>4 DEF Leaves, Ends, ThreadsInv
<1>5. ASSUME Acts(u) PROVE u \in Guessing(n)
  <2> DEFINE o == threads[u]
             new == threads'[u]
  <2>1. LoginReads(u) => new.who = o.who
    BY <1>0, LoginComes
  <2>2. LoginReads(u) => u \in Busied /\ o.op = "Login" /\ o.at = "Read"
    BY DEF LoginReads, At
  <2>3. Passes(u) => new.at = "Issue"
    BY <1>0, LoginComes
  <2>4. SmsFinds(u) => new = Idle \/ new.at = "Create" \/ new.at = "Issue"
    BY <1>0, LoginComes
  <2>5. CreateAccount(u) => new = Idle \/ new.at = "Issue"
    BY <1>0, LoginComes
  <2>6. LoginIssues(u) \/ StatusCommits(u) \/ PasswordRevokes(u) \/ DeletionRevokes(u)
          => new = Idle
    BY <1>0 DEF LoginIssues, StatusCommits, PasswordRevokes, DeletionRevokes, Ends, ThreadsInv
  <2>7. StatusWrites(u) \/ StatusRevokes(u) => new = Idle \/ new.op = "SetStatus"
    BY <1>0, ChangeComes
  <2>8. PasswordWrites(u) \/ DeletionWrites(u) => new = Idle \/ new.at = "Revoke"
    BY <1>0, ChangeComes
  <2> HIDE DEF new, o
  <2>9. new # Idle /\ new.op = "Login" /\ new.at \in {"Read", "Judge"} /\ new.who = n
    BY <1>0 DEF new
  <2>10. LoginReads(u)
    BY <1>5, <2>3, <2>4, <2>5, <2>6, <2>7, <2>8, <2>9 DEF Acts
  <2> QED BY <2>1, <2>2, <2>9, <2>10 DEF Guessing, o
<1>6. CASE (\E i : EditProfile(i)) \/ \E i, p, w : CreateAdmin(i, p, w)
  BY <1>1, <1>6 DEF EditProfile, CreateAdmin
<1> QED BY <1>0, <1>1, <1>2, <1>3, <1>4, <1>5, <1>6, NextMoves

\* A failure that is counted takes one of the guesses with it.
LEMMA FailureCounted ==
    ASSUME LocksInv, ThreadsInv, NEW t \in Threads, NEW n \in Names,
           At(t, "Login", "Judge"), threads[t].who = n, Ends(t), RecordFailure(n),
           \A m \in Names : Locked(m) => Guessing(m)' \subseteq Guessing(m)
    PROVE  LocksInv'
<1> DEFINE a == attempts[n]
           failures == a.failures + 1
           b == IF failures >= MaxFailures
                THEN [failures |-> 0, locked |-> TRUE, known |-> TRUE]
                ELSE [a EXCEPT !.failures = failures, !.known = TRUE]
<1>1. /\ MaxFailures \in Nat \ {0} /\ MaximumAttempts \in Nat
      /\ a \in [failures: 0..MaxFailures - 1, locked: BOOLEAN, known: BOOLEAN]
      /\ misses[n] \in Nat
  BY CredentialsAssumption DEF LocksInv, LocksTyped
<1>2. t \in Guessing(n) /\ Guessing(n)' \subseteq Guessing(n) \ {t}
  <2>1. t \in Guessing(n)
    BY DEF At, Guessing
  <2>2. \A u \in Threads : u # t => threads'[u] = threads[u]
    BY DEF Ends, ThreadsInv
  <2>3. threads'[t] = Idle
    BY DEF Ends, ThreadsInv
  <2> QED BY <2>1, <2>2, <2>3 DEF Guessing, Busied, Free
<1>3. /\ Cardinality(Guessing(n)') \in Nat /\ Cardinality(Guessing(n)) \in Nat
      /\ Cardinality(Threads) \in Nat
      /\ Cardinality(Guessing(n)') + 1 <= Cardinality(Guessing(n))
      /\ Cardinality(Guessing(n)) <= Cardinality(Threads)
  BY <1>2, GuessersAreFew
<1>4. CASE UNCHANGED lockVars
  <2>1. attempts' = attempts /\ misses' = misses
    BY <1>4 DEF lockVars
  <2>2. ASSUME NEW m \in Names PROVE Counted(m)'
    <3>1. /\ Locked(m) => Cardinality(Guessing(m)') \in Nat /\ Cardinality(Guessing(m)) \in Nat
                          /\ Cardinality(Guessing(m)') <= Cardinality(Guessing(m))
          /\ Cardinality(Threads) \in Nat
      BY GuessersAreFew
    <3>2. Counted(m) /\ misses[m] \in Nat
      BY DEF LocksInv, LocksTyped
    <3> QED BY <1>1, <2>1, <3>1, <3>2 DEF Counted, Locked
  <2> QED BY <2>1, <2>2 DEF LocksInv, LocksTyped
<1>5. CASE ~UNCHANGED lockVars
  <2>1. /\ attempts' = [attempts EXCEPT ![n] = b]
        /\ misses' = [misses EXCEPT ![n] = misses[n] + 1]
        /\ attempts[n].known \/ ~(Cardinality(Known(attempts)) >= MaximumAttempts)
    BY <1>5 DEF RecordFailure
  <2>2. /\ b \in [failures: 0..MaxFailures - 1, locked: BOOLEAN, known: BOOLEAN] /\ b.known
        /\ failures >= MaxFailures => b.locked
        /\ ~(failures >= MaxFailures) => b.failures = failures /\ b.locked = a.locked
    <3>1. CASE failures >= MaxFailures
      <4>1. b = [failures |-> 0, locked |-> TRUE, known |-> TRUE]
        BY <3>1
      <4> HIDE DEF b, failures, a
      <4>2. 0 \in 0..MaxFailures - 1
        BY <1>1
      <4> QED BY <3>1, <4>1, <4>2
    <3>2. CASE ~(failures >= MaxFailures)
      <4> DEFINE c == [a EXCEPT !.failures = failures]
      <4>1. c \in [failures: 0..MaxFailures - 1, locked: BOOLEAN, known: BOOLEAN]
            /\ c.failures = failures /\ c.locked = a.locked
        BY <1>1, <3>2
      <4>2. b = [c EXCEPT !.known = TRUE]
        BY <3>2
      <4> HIDE DEF c, b, a
      <4> QED BY <3>2, <4>1, <4>2
    <3> QED BY <3>1, <3>2
  <2> HIDE DEF b
  <2>3. /\ attempts'[n] = b /\ \A m \in Names \ {n} : attempts'[m] = attempts[m]
        /\ attempts' \in [Names -> [failures: 0..MaxFailures - 1, locked: BOOLEAN,
                                    known: BOOLEAN]]
        /\ DOMAIN attempts = Names
    BY <2>1, <2>2 DEF LocksInv, LocksTyped
  <2>4. /\ misses'[n] = misses[n] + 1 /\ \A m \in Names \ {n} : misses'[m] = misses[m]
        /\ misses' \in [Names -> Nat]
    BY <1>1, <2>1 DEF LocksInv, LocksTyped
  <2>5. IsFiniteSet(Known(attempts)') /\ Cardinality(Known(attempts)') <= MaximumAttempts
    <3>1. Known(attempts)' = Known(attempts) \cup {n}
      BY <2>2, <2>3 DEF Known
    <3>2. n \in Known(attempts) <=> attempts[n].known
      BY <2>3 DEF Known
    <3>3. IsFiniteSet(Known(attempts)) /\ Cardinality(Known(attempts)) <= MaximumAttempts
      BY DEF LocksInv, LocksTyped
    <3>4. Cardinality(Known(attempts)) \in Nat
      BY <3>3, FS_CardinalityType
    <3>5. /\ IsFiniteSet(Known(attempts) \cup {n})
          /\ Cardinality(Known(attempts) \cup {n}) =
               IF n \in Known(attempts) THEN Cardinality(Known(attempts))
               ELSE Cardinality(Known(attempts)) + 1
      BY <3>3, FS_AddElement
    <3>6. CASE n \in Known(attempts)
      BY <3>1, <3>3, <3>5, <3>6
    <3>7. CASE n \notin Known(attempts)
      <4>1. Cardinality(Known(attempts)) + 1 <= MaximumAttempts
        BY <1>1, <2>1, <3>2, <3>4, <3>7
      <4> QED BY <3>1, <3>5, <3>7, <4>1
    <3> QED BY <3>6, <3>7
  <2>6. Counted(n)'
    <3>1. /\ IF a.locked
             THEN misses[n] + Cardinality(Guessing(n)) <= MaxFailures + Cardinality(Threads) - 1
             ELSE misses[n] = a.failures
          /\ a.failures \in 0..MaxFailures - 1
      BY <1>1 DEF LocksInv, Counted, Locked
    <3>2. IF b.locked
          THEN misses[n] + 1 + Cardinality(Guessing(n)') <= MaxFailures + Cardinality(Threads) - 1
          ELSE misses[n] + 1 = b.failures
      BY <1>1, <1>3, <2>2, <3>1
    <3> QED BY <2>3, <2>4, <3>2 DEF Counted, Locked
  <2>7. ASSUME NEW m \in Names, m # n PROVE Counted(m)'
    <3>1. /\ Locked(m) => Cardinality(Guessing(m)') \in Nat /\ Cardinality(Guessing(m)) \in Nat
                          /\ Cardinality(Guessing(m)') <= Cardinality(Guessing(m))
          /\ Cardinality(Threads) \in Nat
      BY GuessersAreFew
    <3>2. Counted(m) /\ misses[m] \in Nat /\ attempts'[m] = attempts[m] /\ misses'[m] = misses[m]
      BY <2>3, <2>4, <2>7 DEF LocksInv, LocksTyped
    <3> QED BY <1>1, <3>1, <3>2 DEF Counted, Locked
  <2> QED BY <2>3, <2>4, <2>5, <2>6, <2>7 DEF LocksInv, LocksTyped
<1> QED BY <1>4, <1>5

\* The table of locks is kept by every step.
LEMMA NextLocks ==
    ASSUME SessionsInv, ThreadsInv, LocksInv, Next
    PROVE  LocksInv'
<1>1. \A m \in Names : Locked(m) => Guessing(m)' \subseteq Guessing(m)
  BY LockedIsNotGuessed
<1>2. \A m \in Names :
        /\ Cardinality(Guessing(m)) \in Nat /\ Cardinality(Threads) \in Nat
        /\ Locked(m) => Cardinality(Guessing(m)') \in Nat
                        /\ Cardinality(Guessing(m)') <= Cardinality(Guessing(m))
  BY <1>1, GuessersAreFew
<1>3. MaxFailures \in Nat \ {0} /\ 0 \in 0..MaxFailures - 1
  BY CredentialsAssumption
<1>4. ASSUME NEW m \in Names, attempts'[m] = attempts[m], misses'[m] = misses[m]
      PROVE  Counted(m)'
  <2>1. Counted(m) /\ misses[m] \in Nat
    BY DEF LocksInv, LocksTyped
  <2> QED BY <1>2, <1>3, <1>4, <2>1 DEF Counted, Locked
<1>5. CASE UNCHANGED lockVars
  <2>1. attempts' = attempts /\ misses' = misses
    BY <1>5 DEF lockVars
  <2> QED BY <1>4, <2>1 DEF LocksInv, LocksTyped
\* A name that is cleared, or whose lock is over.
<1>6. ASSUME NEW n \in Names, NEW b, b \in {NoAttempts, [attempts[n] EXCEPT !.locked = FALSE]},
             attempts' = [attempts EXCEPT ![n] = b], misses' = [misses EXCEPT ![n] = b.failures]
      PROVE  LocksInv'
  <2>1. /\ b \in [failures: 0..MaxFailures - 1, locked: BOOLEAN, known: BOOLEAN]
        /\ ~b.locked /\ b.failures \in 0..MaxFailures - 1
        /\ b.known => attempts[n].known
    <3> DEFINE a == attempts[n]
    <3>1. a \in [failures: 0..MaxFailures - 1, locked: BOOLEAN, known: BOOLEAN]
      BY DEF LocksInv, LocksTyped
    <3>2. CASE b = NoAttempts
      BY <1>3, <3>2 DEF NoAttempts
    <3>3. ASSUME b = [a EXCEPT !.locked = FALSE]
          PROVE  /\ b \in [failures: 0..MaxFailures - 1, locked: BOOLEAN, known: BOOLEAN]
                 /\ b.locked = FALSE /\ b.failures = a.failures /\ b.known = a.known
      <4> HIDE DEF a
      <4> QED BY <3>1, <3>3
    <3>4. a.failures \in 0..MaxFailures - 1
      BY <3>1
    <3> QED BY <1>6, <3>2, <3>3, <3>4
  <2>2. /\ attempts'[n] = b /\ \A m \in Names \ {n} : attempts'[m] = attempts[m]
        /\ attempts' \in [Names -> [failures: 0..MaxFailures - 1, locked: BOOLEAN,
                                    known: BOOLEAN]]
        /\ DOMAIN attempts = Names
    BY <1>6, <2>1 DEF LocksInv, LocksTyped
  <2>3. /\ misses'[n] = b.failures /\ \A m \in Names \ {n} : misses'[m] = misses[m]
        /\ misses' \in [Names -> Nat]
    BY <1>3, <1>6, <2>1 DEF LocksInv, LocksTyped
  <2>4. IsFiniteSet(Known(attempts)') /\ Cardinality(Known(attempts)') <= MaximumAttempts
    <3>1. Known(attempts)' \subseteq Known(attempts)
      BY <2>1, <2>2 DEF Known
    <3>2. IsFiniteSet(Known(attempts)) /\ Cardinality(Known(attempts)) <= MaximumAttempts
      BY DEF LocksInv, LocksTyped
    <3>3. /\ IsFiniteSet(Known(attempts)')
          /\ Cardinality(Known(attempts)') <= Cardinality(Known(attempts))
      BY <3>1, <3>2, FS_Subset
    <3>4. Cardinality(Known(attempts)') \in Nat /\ Cardinality(Known(attempts)) \in Nat
          /\ MaximumAttempts \in Nat
      BY <3>2, <3>3, FS_CardinalityType, CredentialsAssumption
    <3> QED BY <3>2, <3>3, <3>4
  <2>5. Counted(n)'
    BY <2>1, <2>2, <2>3 DEF Counted, Locked
  <2>6. ASSUME NEW m \in Names, m # n PROVE Counted(m)'
    BY <1>4, <2>2, <2>3, <2>6
  <2> QED BY <2>2, <2>3, <2>4, <2>5, <2>6 DEF LocksInv, LocksTyped
<1>7. ASSUME NEW n \in Names, ClearFailures(n) PROVE LocksInv'
  BY <1>6, <1>7 DEF ClearFailures, NoAttempts
<1>8. ASSUME NEW n \in Names, LockOver(n) PROVE LocksInv'
  <2> DEFINE a == attempts[n]
             b == [a EXCEPT !.locked = FALSE]
  <2>1. a \in [failures: 0..MaxFailures - 1, locked: BOOLEAN, known: BOOLEAN]
        /\ n \in DOMAIN attempts
    BY DEF LocksInv, LocksTyped
  <2>2. attempts' = [attempts EXCEPT ![n] = b] /\ misses' = [misses EXCEPT ![n] = a.failures]
    BY <1>8 DEF LockOver
  <2>3. b.failures = a.failures
    <3> HIDE DEF a
    <3> QED BY <2>1
  <2>4. b \in {NoAttempts, [attempts[n] EXCEPT !.locked = FALSE]}
    OBVIOUS
  <2> HIDE DEF a, b
  <2> QED BY <1>6, <2>2, <2>3, <2>4
<1>9. ASSUME NEW t \in Threads, AdminJudged(t) PROVE LocksInv'
  <2> DEFINE n == threads[t].who
  <2>1. n \in Names /\ At(t, "Login", "Judge")
    BY <1>9, AccessAssumption DEF AdminJudged
  <2>2. CASE RecordFailure(n) /\ Ends(t)
    BY <1>1, <2>1, <2>2, FailureCounted
  <2>3. CASE ClearFailures(n)
    BY <1>7, <2>1, <2>3
  <2> QED BY <1>5, <1>9, <2>2, <2>3 DEF AdminJudged
<1>10. ASSUME NEW n \in Names, Forget(n) PROVE LocksInv'
  BY <1>7, <1>10 DEF Forget
<1> QED BY <1>5, <1>8, <1>9, <1>10, CredentialCalls DEF OneCallEach, LockCalls

-----------------------------------------------------------------------------
\* Codes.  The tries that the codes of a phone have left: each a place to put a
\* wrong guess.
TriesLeft(ph) ==
    {x \in Purposes \X (1..MaxTries) :
        codes[<<ph, x[1]>>].age # "None" /\ codes[<<ph, x[1]>>].tries < x[2]}
Code == [tries: 0..MaxTries, cooling: BOOLEAN, age: {"None", "Valid", "Expired"}]
CodesTyped ==
    /\ codes \in [Phones \X Purposes -> Code]
    /\ issued \in [Phones -> 0..DailyIssues] /\ tries \in [Phones -> Nat]
Spent(ph) ==
    tries[ph] + Cardinality(TriesLeft(ph)) <= MaxTries * (issued[ph] + Cardinality(Purposes))
CodesInv == CodesTyped /\ \A ph \in Phones : Spent(ph)

LEMMA TriesAreFew ==
    \A ph : /\ IsFiniteSet(TriesLeft(ph)) /\ Cardinality(TriesLeft(ph)) \in Nat
            /\ Cardinality(Purposes) \in Nat
            /\ Cardinality(TriesLeft(ph)) <= MaxTries * Cardinality(Purposes)
<1> TAKE ph
<1>1. MaxTries \in Nat /\ IsFiniteSet(Purposes)
  BY CredentialsAssumption
<1>2. IsFiniteSet(1..MaxTries) /\ Cardinality(1..MaxTries) = MaxTries
  BY <1>1, FS_Interval
<1>3. /\ IsFiniteSet(Purposes \X (1..MaxTries))
      /\ Cardinality(Purposes \X (1..MaxTries)) = Cardinality(Purposes) * MaxTries
  BY <1>1, <1>2, FS_Product
<1>4. /\ TriesLeft(ph) \subseteq Purposes \X (1..MaxTries)
  BY DEF TriesLeft
<1>5. /\ IsFiniteSet(TriesLeft(ph)) /\ Cardinality(Purposes) \in Nat
      /\ Cardinality(TriesLeft(ph)) <= Cardinality(Purposes \X (1..MaxTries))
  BY <1>1, <1>3, <1>4, FS_Subset, FS_CardinalityType
<1>6. Cardinality(TriesLeft(ph)) \in Nat
  BY <1>5, FS_CardinalityType
<1>7. Cardinality(Purposes) * MaxTries = MaxTries * Cardinality(Purposes)
  BY <1>1, <1>5
<1> QED BY <1>3, <1>5, <1>6, <1>7

\* A phone with no more tries left than before, and no others, ...
LEMMA FewerTries ==
    ASSUME CodesInv, NEW ph \in Phones, TriesLeft(ph)' \subseteq TriesLeft(ph),
           issued'[ph] = issued[ph], tries'[ph] = tries[ph]
    PROVE  Spent(ph)'
<1>1. Cardinality(TriesLeft(ph)') \in Nat /\ Cardinality(TriesLeft(ph)') <= Cardinality(TriesLeft(ph))
      /\ Cardinality(TriesLeft(ph)) \in Nat
  BY TriesAreFew, FS_Subset, FS_CardinalityType
<1>2. Spent(ph) /\ tries[ph] \in Nat /\ issued[ph] \in Nat /\ MaxTries \in Nat
      /\ Cardinality(Purposes) \in Nat
  BY CredentialsAssumption, TriesAreFew DEF CodesInv, CodesTyped
<1> DEFINE most == MaxTries * (issued[ph] + Cardinality(Purposes))
<1>3. most \in Nat /\ tries[ph] + Cardinality(TriesLeft(ph)) <= most
  BY <1>2 DEF Spent
<1> HIDE DEF most
<1>4. tries[ph] + Cardinality(TriesLeft(ph)') <= most
  BY <1>1, <1>2, <1>3
<1> QED BY <1>4 DEF Spent, most

\* ... as after a step that leaves each code as it is, or takes it away.
LEMMA CodesGo ==
    ASSUME CodesInv, codes' \in [Phones \X Purposes -> Code],
           UNCHANGED <<issued, tries>>,
           \A e \in Phones \X Purposes : \/ codes'[e].age = "None"
                                         \/ /\ codes[e].age # "None"
                                            /\ codes'[e].tries = codes[e].tries
    PROVE  CodesInv'
<1>1. ASSUME NEW ph \in Phones PROVE Spent(ph)'
  <2>1. ASSUME NEW x \in TriesLeft(ph)' PROVE x \in TriesLeft(ph)
    <3>1. <<ph, x[1]>> \in Phones \X Purposes /\ x \in Purposes \X (1..MaxTries)
      BY DEF TriesLeft
    <3> QED BY <2>1, <3>1 DEF TriesLeft
  <2> QED BY <2>1, FewerTries
<1> QED BY <1>1 DEF CodesInv, CodesTyped

LEMMA NextCodes ==
    ASSUME CodesInv, CodeCalls
    PROVE  CodesInv'
<1> DEFINE Entries == Phones \X Purposes
<1>1. /\ codes \in [Entries -> Code] /\ NoCode \in Code /\ NoCode.age = "None"
      /\ issued \in [Phones -> 0..DailyIssues] /\ tries \in [Phones -> Nat]
      /\ MaxTries \in Nat \ {0} /\ DailyIssues \in Nat \ {0} /\ Cardinality(Purposes) \in Nat
  BY CredentialsAssumption, TriesAreFew DEF CodesInv, CodesTyped, NoCode, Code
<1>2. Swept \in [Entries -> Code] /\ \A e \in Entries : Swept[e] = NoCode \/ Swept[e] = codes[e]
  BY <1>1 DEF Swept
<1>3. CASE UNCHANGED codeVars
  BY <1>1, <1>3, CodesGo DEF codeVars
<1>4. ASSUME NEW e \in Entries, codes' = [codes EXCEPT ![e] = NoCode],
             UNCHANGED <<issued, tries>>
      PROVE  CodesInv'
  <2>1. codes' \in [Entries -> Code]
    BY <1>1, <1>4
  <2>2. \A f \in Entries : codes'[f] = NoCode \/ codes'[f] = codes[f]
    BY <1>1, <1>4
  <2> QED BY <1>1, <1>4, <2>1, <2>2, CodesGo
<1>5. CASE CleanupCodes
  BY <1>1, <1>2, <1>5, CodesGo DEF CleanupCodes
<1>6. ASSUME NEW ph \in Phones, NEW purpose \in Purposes,
             CooldownOver(ph, purpose) \/ CodeExpires(ph, purpose)
      PROVE  CodesInv'
  <2> DEFINE e == <<ph, purpose>>
             a == codes[e]
  <2>1. PICK b : /\ codes' = [codes EXCEPT ![e] = b]
                 /\ \/ b = [a EXCEPT !.cooling = FALSE]
                    \/ b = [a EXCEPT !.age = "Expired"] /\ a.age # "None"
    BY <1>1, <1>6 DEF CooldownOver, CodeExpires
  <2>2. a \in Code /\ e \in Entries
    BY <1>1
  <2>3. b \in Code /\ b.tries = a.tries /\ (b.age = "None" \/ a.age # "None")
    <3> HIDE DEF a
    <3> QED BY <2>1, <2>2 DEF Code
  <2>4. codes' \in [Entries -> Code] /\ codes'[e] = b /\ \A f \in Entries \ {e} : codes'[f] = codes[f]
    BY <1>1, <2>1, <2>2, <2>3
  <2>5. UNCHANGED <<issued, tries>>
    BY <1>6 DEF CooldownOver, CodeExpires
  <2>6. \A f \in Entries : \/ codes'[f].age = "None"
                           \/ codes[f].age # "None" /\ codes'[f].tries = codes[f].tries
    BY <2>3, <2>4
  <2> HIDE DEF e, a
  <2> QED BY <2>4, <2>5, <2>6, CodesGo
\* A wrong guess takes a try.
<1>7. ASSUME NEW ph \in Phones, NEW purpose \in Purposes, Rejected(ph, purpose) PROVE CodesInv'
  <2> DEFINE e == <<ph, purpose>>
             a == codes[e]
             b == [a EXCEPT !.tries = a.tries + 1]
             x == <<purpose, a.tries + 1>>
  <2>1. \/ UNCHANGED codeVars
        \/ codes' = [codes EXCEPT ![e] = NoCode] /\ UNCHANGED <<issued, tries>>
        \/ /\ a.age \notin {"None", "Expired"} /\ ~(a.tries >= MaxTries)
           /\ codes' = [codes EXCEPT ![e] = b]
           /\ tries' = [tries EXCEPT ![ph] = tries[ph] + 1] /\ UNCHANGED issued
    BY <1>1, <1>7 DEF Rejected
  <2>2. a \in Code /\ e \in Entries
    BY <1>1
  <2>3. ASSUME a.age \notin {"None", "Expired"}, ~(a.tries >= MaxTries),
               codes' = [codes EXCEPT ![e] = b],
               tries' = [tries EXCEPT ![ph] = tries[ph] + 1], UNCHANGED issued
        PROVE  CodesInv'
    <3>1. b \in Code /\ b.tries = a.tries + 1 /\ b.age = a.age /\ a.tries + 1 \in 1..MaxTries
      <4> HIDE DEF a, e
      <4> QED BY <1>1, <2>2, <2>3 DEF Code
    <3>2. /\ codes' \in [Entries -> Code] /\ codes'[e] = b
          /\ \A f \in Entries \ {e} : codes'[f] = codes[f]
      BY <1>1, <2>2, <2>3, <3>1
    <3>3. tries' \in [Phones -> Nat] /\ tries'[ph] = tries[ph] + 1
          /\ \A p \in Phones \ {ph} : tries'[p] = tries[p]
      BY <1>1, <2>3
    <3>4. x \in TriesLeft(ph) /\ x \notin TriesLeft(ph)'
      <4>1. x \in Purposes \X (1..MaxTries) /\ x[1] = purpose /\ x[2] = a.tries + 1
        BY <3>1
      <4>2. a.tries < a.tries + 1 /\ ~(b.tries < a.tries + 1)
        <5>1. a.tries \in Nat
          BY <2>2 DEF Code
        <5> HIDE DEF a, b
        <5> QED BY <3>1, <5>1
      <4> HIDE DEF x, a, b
      <4> QED BY <2>3, <3>2, <4>1, <4>2 DEF TriesLeft, a
    <3>5. TriesLeft(ph)' \subseteq TriesLeft(ph)
      <4> SUFFICES ASSUME NEW y \in TriesLeft(ph)' PROVE y \in TriesLeft(ph)
        OBVIOUS
      <4>1. /\ y \in Purposes \X (1..MaxTries) /\ <<ph, y[1]>> \in Entries /\ y[2] \in Nat
            /\ codes'[<<ph, y[1]>>].age # "None" /\ codes'[<<ph, y[1]>>].tries < y[2]
        BY DEF TriesLeft
      <4>2. CASE <<ph, y[1]>> = e
        <5>1. a.tries \in Nat /\ a.age # "None" /\ a.tries + 1 < y[2]
          BY <2>2, <2>3, <3>1, <3>2, <4>1, <4>2 DEF Code
        <5>2. a.tries < y[2] /\ a = codes[<<ph, y[1]>>]
          <6>1. a = codes[<<ph, y[1]>>]
            BY <4>2
          <6> HIDE DEF a
          <6> QED BY <4>1, <5>1, <6>1
        <5> QED BY <4>1, <5>1, <5>2 DEF TriesLeft
      <4>3. CASE <<ph, y[1]>> # e
        BY <3>2, <4>1, <4>3 DEF TriesLeft
      <4> QED BY <4>2, <4>3
    <3>6. Spent(ph)'
      <4>1. TriesLeft(ph)' \subseteq TriesLeft(ph) \ {x} /\ IsFiniteSet(TriesLeft(ph))
        BY <3>4, <3>5, TriesAreFew
      <4>2. /\ IsFiniteSet(TriesLeft(ph) \ {x})
            /\ Cardinality(TriesLeft(ph) \ {x}) = Cardinality(TriesLeft(ph)) - 1
        BY <3>4, <4>1, FS_RemoveElement
      <4>3. /\ IsFiniteSet(TriesLeft(ph)')
            /\ Cardinality(TriesLeft(ph)') <= Cardinality(TriesLeft(ph) \ {x})
        BY <4>1, <4>2, FS_Subset
      <4>4. Cardinality(TriesLeft(ph)') \in Nat /\ Cardinality(TriesLeft(ph)) \in Nat
        BY <4>3, TriesAreFew, FS_CardinalityType
      <4> DEFINE most == MaxTries * (issued[ph] + Cardinality(Purposes))
      <4>5. most \in Nat /\ tries[ph] + Cardinality(TriesLeft(ph)) <= most /\ tries[ph] \in Nat
        BY <1>1 DEF CodesInv, Spent
      <4>6. most = MaxTries * (issued'[ph] + Cardinality(Purposes))
        BY <2>3
      <4> HIDE DEF most, x
      <4>7. tries[ph] + 1 + Cardinality(TriesLeft(ph)') <= most
        BY <4>2, <4>3, <4>4, <4>5
      <4> QED BY <3>3, <4>6, <4>7 DEF Spent
    <3>7. ASSUME NEW p \in Phones, p # ph PROVE Spent(p)'
      <4>1. TriesLeft(p)' \subseteq TriesLeft(p)
        <5> SUFFICES ASSUME NEW y \in TriesLeft(p)' PROVE y \in TriesLeft(p)
          OBVIOUS
        <5>1. y \in Purposes \X (1..MaxTries) /\ <<p, y[1]>> \in Entries /\ <<p, y[1]>> # e
          BY <3>7 DEF TriesLeft
        <5>2. codes'[<<p, y[1]>>] = codes[<<p, y[1]>>]
          BY <3>2, <5>1
        <5> QED BY <5>1, <5>2 DEF TriesLeft
      <4> QED BY <2>3, <3>3, <3>7, <4>1, FewerTries
    <3> QED BY <1>1, <2>3, <3>2, <3>3, <3>6, <3>7 DEF CodesInv, CodesTyped
  <2> HIDE DEF a, b, x, e
  <2> QED BY <1>3, <1>4, <2>1, <2>2, <2>3
<1>8. ASSUME NEW ph \in Phones, NEW purpose \in Purposes, Accepted(ph, purpose) PROVE CodesInv'
  BY <1>4, <1>8 DEF Accepted
\* A new code brings new ones.
<1>9. ASSUME NEW ph \in Phones, NEW purpose \in Purposes, IssueCode(ph, purpose) PROVE CodesInv'
  <2> DEFINE e == <<ph, purpose>>
             b == [tries |-> 0, cooling |-> TRUE, age |-> "Valid"]
  <2>1. e \in Entries /\ b \in Code
    BY <1>1 DEF Code
  <2>2. /\ codes' = [Swept EXCEPT ![e] = b] /\ issued' = [issued EXCEPT ![ph] = issued[ph] + 1]
        /\ issued[ph] < DailyIssues /\ tries' = tries
    BY <1>9 DEF IssueCode
  <2> HIDE DEF b, e
  <2>3. /\ codes' \in [Entries -> Code]
        /\ \A f \in Entries \ {e} : codes'[f] = NoCode \/ codes'[f] = codes[f]
    BY <1>2, <2>1, <2>2
  <2>4. /\ issued' \in [Phones -> 0..DailyIssues] /\ issued'[ph] = issued[ph] + 1
        /\ \A p \in Phones \ {ph} : issued'[p] = issued[p]
    BY <1>1, <2>2
  <2>5. ASSUME NEW p \in Phones, NEW y \in TriesLeft(p)', <<p, y[1]>> # e
        PROVE  y \in TriesLeft(p)
    <3>1. y \in Purposes \X (1..MaxTries) /\ <<p, y[1]>> \in Entries
          /\ codes'[<<p, y[1]>>].age # "None"
      BY DEF TriesLeft
    <3>2. codes'[<<p, y[1]>>] = codes[<<p, y[1]>>]
      BY <1>1, <2>3, <2>5, <3>1
    <3> QED BY <3>1, <3>2 DEF TriesLeft
  <2>6. ASSUME NEW p \in Phones, p # ph PROVE Spent(p)'
    <3>1. \A y : <<p, y[1]>> # e
      BY <2>6 DEF e
    <3>2. TriesLeft(p)' \subseteq TriesLeft(p)
      BY <2>5, <3>1
    <3> QED BY <2>2, <2>4, <2>6, <3>2, FewerTries
  <2>7. Spent(ph)'
    <3> DEFINE fresh == {purpose} \X (1..MaxTries)
    <3>1. TriesLeft(ph)' \subseteq TriesLeft(ph) \cup fresh
      <4> SUFFICES ASSUME NEW y \in TriesLeft(ph)', y \notin TriesLeft(ph) PROVE y \in fresh
        OBVIOUS
      <4>1. <<ph, y[1]>> = e /\ y \in Purposes \X (1..MaxTries)
        BY <2>5 DEF TriesLeft
      <4> QED BY <4>1 DEF e
    <3>2. IsFiniteSet(fresh) /\ Cardinality(fresh) = MaxTries
      <4>0. MaxTries \in Nat
        BY <1>1
      <4>1. IsFiniteSet(1..MaxTries) /\ Cardinality(1..MaxTries) = MaxTries
        BY <4>0, FS_Interval
      <4>2. IsFiniteSet({purpose}) /\ Cardinality({purpose}) = 1
        BY FS_Singleton
      <4>3. IsFiniteSet(fresh) /\ Cardinality(fresh) = 1 * MaxTries
        BY <4>1, <4>2, FS_Product
      <4> QED BY <1>1, <4>3
    <3> HIDE DEF fresh
    <3>3. /\ IsFiniteSet(TriesLeft(ph) \cup fresh)
          /\ Cardinality(TriesLeft(ph) \cup fresh)
               = Cardinality(TriesLeft(ph)) + Cardinality(fresh) - Cardinality(TriesLeft(ph) \cap fresh)
      BY <3>2, TriesAreFew, FS_Union
    <3>4. Cardinality(TriesLeft(ph) \cap fresh) \in Nat /\ Cardinality(TriesLeft(ph)) \in Nat
      BY <3>2, TriesAreFew, FS_Intersection, FS_CardinalityType
    <3>5. /\ Cardinality(TriesLeft(ph)') \in Nat
          /\ Cardinality(TriesLeft(ph)') <= Cardinality(TriesLeft(ph) \cup fresh)
      BY <3>1, <3>3, FS_Subset, FS_CardinalityType
    <3> DEFINE most == MaxTries * (issued[ph] + Cardinality(Purposes))
    <3>6. most \in Nat /\ tries[ph] + Cardinality(TriesLeft(ph)) <= most /\ tries[ph] \in Nat
      BY <1>1 DEF CodesInv, Spent
    <3>7. MaxTries * (issued'[ph] + Cardinality(Purposes)) = most + MaxTries
      BY <1>1, <2>4
    <3> HIDE DEF most
    <3>8. tries[ph] + Cardinality(TriesLeft(ph)') <= most + MaxTries
      BY <1>1, <3>2, <3>3, <3>4, <3>5, <3>6
    <3> QED BY <2>2, <3>7, <3>8 DEF Spent
  <2> QED BY <1>1, <2>2, <2>3, <2>4, <2>6, <2>7 DEF CodesInv, CodesTyped
<1>10. CASE DayPasses
  <2>1. ASSUME NEW ph \in Phones PROVE Spent(ph)'
    <3>1. TriesLeft(ph)' = TriesLeft(ph)
      BY <1>10 DEF DayPasses, TriesLeft
    <3>2. tries'[ph] = 0 /\ issued'[ph] = 0
      BY <1>10 DEF DayPasses
    <3>3. 0 + Cardinality(TriesLeft(ph)) <= MaxTries * (0 + Cardinality(Purposes))
      BY <1>1, TriesAreFew
    <3> QED BY <3>1, <3>2, <3>3 DEF Spent
  <2>2. CodesTyped'
    BY <1>1, <1>10 DEF DayPasses, CodesTyped
  <2> QED BY <2>1, <2>2 DEF CodesInv
<1> QED BY <1>3, <1>5, <1>6, <1>7, <1>8, <1>9, <1>10 DEF CodeCalls

-----------------------------------------------------------------------------
\* The limiter.  What a client's bucket would give at once.
InHand(c) ==
    IF ~buckets[c].known \/ buckets[c].tokens + buckets[c].since > Burst
    THEN Burst ELSE buckets[c].tokens + buckets[c].since
Bucket == [tokens: 0..Burst, since: 0..IdleTicks + 1, known: BOOLEAN]
BucketsTyped ==
    /\ buckets \in [Clients -> Bucket]
    /\ \A c \in Clients : ~buckets[c].known => buckets[c] = NoBucket
Sorted(list) ==
    \A i, j \in 1..Len(list) :
      /\ list[i] = list[j] => i = j
      /\ i < j => buckets[list[i]].since >= buckets[list[j]].since
ListInv ==
    /\ BucketsTyped /\ recency \in Seq(Clients) /\ Len(recency) <= MaximumBuckets
    /\ \A c \in Clients : buckets[c].known <=> \E j \in 1..Len(recency) : recency[j] = c
    /\ Sorted(recency)
WatchInv ==
    /\ admitted \in [ticks: Nat, of: [Clients -> Nat], lost: SUBSET Clients]
    /\ \A c \in Clients \ admitted.lost : admitted.of[c] + InHand(c) <= Burst + admitted.ticks

\* A list without its k-th client.
IsWithout(out, list, k) ==
    /\ out \in Seq(Clients)
    /\ Len(out) = IF k \in 1..Len(list) THEN Len(list) - 1 ELSE Len(list)
    /\ \A i \in 1..Len(out) : out[i] = IF i < k THEN list[i] ELSE list[i + 1]

LEMMA ElementsOf ==
    ASSUME NEW list \in Seq(Clients)
    PROVE  /\ Len(list) \in Nat /\ \A i \in 1..Len(list) : list[i] \in Clients
           /\ \A c : c \in ToSet(list) <=> \E i \in 1..Len(list) : list[i] = c
  BY DEF ToSet

LEMMA Removed ==
    ASSUME NEW list \in Seq(Clients), NEW k \in 1..Len(list)
    PROVE  IsWithout(RemoveAt(list, k), list, k)
<1> DEFINE n == Len(list)
           a == SubSeq(list, 1, k - 1)
           b == SubSeq(list, k + 1, n)
<1>1. n \in Nat /\ k \in Nat /\ k >= 1 /\ k <= n /\ \A i \in 1..n : list[i] \in Clients
  OBVIOUS
<1>2. /\ a \in Seq(Clients) /\ Len(a) = k - 1 /\ \A i \in 1..k - 1 : a[i] = list[i]
  <2>1. k - 1 \in Int /\ \A i \in 1..k - 1 : list[i] \in Clients
    BY <1>1
  <2>2. /\ SubSeq(list, 1, k - 1) \in Seq(Clients)
        /\ Len(SubSeq(list, 1, k - 1)) = IF 1 <= k - 1 THEN k - 1 - 1 + 1 ELSE 0
        /\ \A i \in 1..k - 1 - 1 + 1 : SubSeq(list, 1, k - 1)[i] = list[1 + i - 1]
    BY <2>1, SubSeqProperties
  <2> HIDE DEF n
  <2> QED BY <1>1, <2>2
<1>3. /\ b \in Seq(Clients) /\ Len(b) = n - k /\ \A i \in 1..n - k : b[i] = list[k + i]
  <2>1. k + 1 \in Int /\ n \in Int /\ \A i \in k + 1..n : list[i] \in Clients
    BY <1>1
  <2>2. /\ SubSeq(list, k + 1, n) \in Seq(Clients)
        /\ Len(SubSeq(list, k + 1, n)) = IF k + 1 <= n THEN n - (k + 1) + 1 ELSE 0
        /\ \A i \in 1..n - (k + 1) + 1 : SubSeq(list, k + 1, n)[i] = list[k + 1 + i - 1]
    BY <2>1, SubSeqProperties
  <2> HIDE DEF n
  <2>3. b \in Seq(Clients) /\ Len(b) = n - k
    BY <1>1, <2>2
  <2>4. ASSUME NEW i \in 1..n - k PROVE b[i] = list[k + i]
    <3>1. i \in 1..n - (k + 1) + 1 /\ k + 1 + i - 1 = k + i
      BY <1>1
    <3> HIDE DEF b
    <3>2. b[i] = list[k + 1 + i - 1]
      BY <2>2, <3>1 DEF b
    <3> QED BY <3>1, <3>2
  <2> QED BY <2>3, <2>4
<1>4. RemoveAt(list, k) = a \o b
  BY DEF RemoveAt
<1> HIDE DEF a, b
<1>5. /\ a \o b \in Seq(Clients) /\ Len(a \o b) = Len(a) + Len(b)
      /\ \A i \in 1..Len(a) + Len(b) : (a \o b)[i] = IF i <= Len(a) THEN a[i] ELSE b[i - Len(a)]
  BY <1>2, <1>3, ConcatProperties
<1> HIDE DEF n
<1>6. Len(a \o b) = n - 1
  BY <1>1, <1>2, <1>3, <1>5
<1>7. ASSUME NEW i \in 1..n - 1
      PROVE  (a \o b)[i] = IF i < k THEN list[i] ELSE list[i + 1]
  <2>1. CASE i < k
    BY <1>1, <1>2, <1>3, <1>5, <1>7, <2>1
  <2>2. CASE ~(i < k)
    <3>1. i - (k - 1) \in 1..n - k /\ k + (i - (k - 1)) = i + 1
      BY <1>1, <1>7, <2>2
    <3> QED BY <1>1, <1>2, <1>3, <1>5, <1>7, <2>2, <3>1
  <2> QED BY <2>1, <2>2
<1> QED BY <1>1, <1>4, <1>5, <1>6, <1>7 DEF IsWithout, n

\* The clients left when one comes to a list: all but that one, and in a crowd
\* all but the first.
LEMMA OthersLeft ==
    ASSUME NEW list \in Seq(Clients), NEW c \in Clients, Len(list) <= MaximumBuckets
    PROVE  \E k \in 1..Len(list) + 1 :
             /\ IsWithout(Others(list, c), list, k)
             /\ Len(Others(list, c)) < MaximumBuckets
             /\ k \in 1..Len(list) => list[k] = IF Crowded(list, c) THEN Head(list) ELSE c
             /\ k = Len(list) + 1 => ~Crowded(list, c) /\ \A i \in 1..Len(list) : list[i] # c
<1>1. /\ MaximumBuckets \in Nat \ {0} /\ Len(list) \in Nat
      /\ \A d : d \in ToSet(list) <=> \E i \in 1..Len(list) : list[i] = d
  BY CredentialsAssumption, ElementsOf
<1>2. CASE Crowded(list, c)
  <2>1. list # <<>> /\ Len(list) >= 1
    BY <1>1, <1>2 DEF Crowded
  <2>2. /\ Tail(list) \in Seq(Clients) /\ Len(Tail(list)) = Len(list) - 1
        /\ \A i \in 1..Len(Tail(list)) : Tail(list)[i] = list[i + 1]
    BY <2>1, HeadTailProperties
  <2>3. Others(list, c) = Tail(list) /\ Head(list) = list[1]
    BY <1>2, <2>1 DEF Others
  <2>4. IsWithout(Tail(list), list, 1)
    BY <1>1, <2>1, <2>2 DEF IsWithout
  <2>5. 1 \in 1..Len(list) + 1 /\ 1 # Len(list) + 1 /\ Len(Tail(list)) < MaximumBuckets
    BY <1>1, <2>1, <2>2
  <2> QED BY <1>2, <2>3, <2>4, <2>5
<1>3. CASE ~Crowded(list, c) /\ c \in ToSet(list)
  <2> DEFINE k == CHOOSE j \in DOMAIN list : list[j] = c
  <2>1. k \in 1..Len(list) /\ list[k] = c
    BY <1>1, <1>3
  <2>2. Others(list, c) = RemoveAt(list, k)
    BY <1>3 DEF Others
  <2> HIDE DEF k
  <2>3. IsWithout(RemoveAt(list, k), list, k)
    BY <2>1, Removed
  <2>4. Len(RemoveAt(list, k)) < MaximumBuckets /\ k \in 1..Len(list) + 1 /\ k # Len(list) + 1
    BY <1>1, <2>1, <2>3 DEF IsWithout
  <2> QED BY <1>3, <2>1, <2>2, <2>3, <2>4
<1>4. CASE ~Crowded(list, c) /\ c \notin ToSet(list)
  <2>1. Others(list, c) = list /\ Len(list) < MaximumBuckets
    BY <1>1, <1>4 DEF Others, Crowded
  <2>2. IsWithout(list, list, Len(list) + 1) /\ Len(list) + 1 \in 1..Len(list) + 1
    BY <1>1 DEF IsWithout
  <2>3. Len(list) + 1 \notin 1..Len(list)
    BY <1>1
  <2> QED BY <1>1, <1>4, <2>1, <2>2, <2>3
<1> QED BY <1>2, <1>3, <1>4

\* The clients that are left are as they were, in their order.
LEMMA WithoutKeeps ==
    ASSUME NEW list \in Seq(Clients), NEW out, NEW k \in 1..Len(list) + 1,
           IsWithout(out, list, k), Sorted(list)
    PROVE  /\ Sorted(out)
           /\ \A i \in 1..Len(out) : \E j \in 1..Len(list) : out[i] = list[j] /\ j # k
           /\ \A j \in 1..Len(list) : j # k => \E i \in 1..Len(out) : out[i] = list[j]
<1> DEFINE at(i) == IF i < k THEN i ELSE i + 1
<1>1. Len(list) \in Nat /\ Len(out) \in Nat /\ k \in Nat
  BY DEF IsWithout
<1>2. ASSUME NEW i \in 1..Len(out)
      PROVE  at(i) \in 1..Len(list) /\ at(i) # k /\ out[i] = list[at(i)]
  <2>1. i < k \/ i + 1 \in 1..Len(list)
    BY <1>1 DEF IsWithout
  <2> QED BY <1>1, <2>1 DEF IsWithout
<1>3. ASSUME NEW i \in 1..Len(out), NEW j \in 1..Len(out)
      PROVE  (at(i) = at(j) => i = j) /\ (i < j => at(i) < at(j))
  BY <1>1
<1>4. Sorted(out)
  <2> SUFFICES ASSUME NEW i \in 1..Len(out), NEW j \in 1..Len(out)
               PROVE  /\ out[i] = out[j] => i = j
                      /\ i < j => buckets[out[i]].since >= buckets[out[j]].since
    BY DEF Sorted
  <2>1. /\ at(i) \in 1..Len(list) /\ at(j) \in 1..Len(list)
        /\ out[i] = list[at(i)] /\ out[j] = list[at(j)]
        /\ at(i) = at(j) => i = j
        /\ i < j => at(i) < at(j)
    BY <1>2, <1>3
  <2> HIDE DEF at
  <2> QED BY <2>1 DEF Sorted
<1>5. ASSUME NEW j \in 1..Len(list), j # k PROVE \E i \in 1..Len(out) : out[i] = list[j]
  <2>1. CASE j < k
    BY <1>1, <1>5, <2>1 DEF IsWithout
  <2>2. CASE ~(j < k)
    <3>1. j - 1 \in 1..Len(out) /\ ~(j - 1 < k) /\ j - 1 + 1 = j
      BY <1>1, <1>5, <2>2 DEF IsWithout
    <3>2. out[j - 1] = list[j - 1 + 1]
      BY <3>1 DEF IsWithout
    <3> QED BY <3>1, <3>2
  <2> QED BY <2>1, <2>2
<1> QED BY <1>2, <1>4, <1>5

\* What allow does to the list and the buckets when c comes, and those in out
\* and c are left.
Serves(c, allowed, out, evicted) ==
    /\ out \in Seq(Clients) /\ Len(out) < MaximumBuckets /\ Sorted(out)
    /\ \A i \in 1..Len(out) : out[i] # c /\ buckets[out[i]].known
    /\ c \notin evicted /\ evicted \subseteq Clients
    /\ \A d \in Clients \ (evicted \cup {c}) :
         InHand(d) = Burst \/ \E i \in 1..Len(out) : out[i] = d
    /\ recency' = Append(out, c) /\ allowed = (InHand(c) >= 1)
    /\ \A d \in Clients : buckets'[d] =
         IF d = c THEN [tokens |-> IF allowed THEN InHand(c) - 1 ELSE InHand(c),
                        since |-> 0, known |-> TRUE]
         ELSE IF \E i \in 1..Len(out) : out[i] = d THEN buckets[d] ELSE NoBucket
    /\ buckets' = [d \in Clients |-> buckets'[d]]
    /\ admitted' = [admitted EXCEPT
         !.lost = admitted.lost \cup evicted,
         !.of = [d \in Clients |->
           IF d \in admitted.lost \cup evicted THEN 0
           ELSE admitted.of[d] + IF d = c /\ allowed THEN 1 ELSE 0]]

LEMMA AllowServes ==
    ASSUME ListInv, NEW c \in Clients, NEW allowed \in BOOLEAN, Allow(c, allowed)
    PROVE  \E out, evicted : Serves(c, allowed, out, evicted)
<1>1. PICK k \in 0..Len(recency) :
    LET others == Others(Busy(k), c)
        evicted == IF Crowded(Busy(k), c) THEN {Head(Busy(k))} ELSE {}
        tokens == Refilled(IF c \in ToSet(Busy(k)) THEN buckets[c] ELSE NoBucket)
    IN /\ CleansUpTo(k) /\ allowed = (tokens >= 1)
       /\ buckets' = [b \in Clients |->
            IF b = c THEN [tokens |-> IF allowed THEN tokens - 1 ELSE tokens,
                           since |-> 0, known |-> TRUE]
            ELSE IF b \in ToSet(others) THEN buckets[b] ELSE NoBucket]
       /\ recency' = Append(others, c)
       /\ admitted' = [admitted EXCEPT
            !.lost = @ \cup evicted,
            !.of = [b \in Clients |->
              IF b \in admitted.lost \cup evicted THEN 0
              ELSE admitted.of[b] + IF b = c /\ allowed THEN 1 ELSE 0]]
  BY DEF Allow
<1> DEFINE list == Busy(k)
           out == Others(list, c)
           evicted == IF Crowded(list, c) THEN {Head(list)} ELSE {}
           tokens == Refilled(IF c \in ToSet(list) THEN buckets[c] ELSE NoBucket)
<1>2. /\ allowed = (tokens >= 1) /\ recency' = Append(out, c)
      /\ buckets' = [b \in Clients |->
           IF b = c THEN [tokens |-> IF allowed THEN tokens - 1 ELSE tokens,
                          since |-> 0, known |-> TRUE]
           ELSE IF b \in ToSet(out) THEN buckets[b] ELSE NoBucket]
      /\ admitted' = [admitted EXCEPT
           !.lost = admitted.lost \cup evicted,
           !.of = [b \in Clients |->
             IF b \in admitted.lost \cup evicted THEN 0
             ELSE admitted.of[b] + IF b = c /\ allowed THEN 1 ELSE 0]]
      /\ CleansUpTo(k)
  BY <1>1
<1>3. /\ recency \in Seq(Clients) /\ Len(recency) \in Nat /\ k \in Nat /\ k <= Len(recency)
      /\ Len(recency) <= MaximumBuckets /\ MaximumBuckets \in Nat \ {0}
      /\ \A d \in Clients : buckets[d] \in Bucket
      /\ \A d \in Clients : buckets[d].known <=> \E j \in 1..Len(recency) : recency[j] = d
      /\ {Burst, IdleTicks} \subseteq Nat /\ IdleTicks >= Burst
  BY CredentialsAssumption DEF ListInv, BucketsTyped
<1>4. /\ list \in Seq(Clients) /\ Len(list) = Len(recency) - k
      /\ \A i \in 1..Len(recency) - k : list[i] = recency[k + i]
  <2> DEFINE n == Len(recency)
  <2>1. k + 1 \in Int /\ n \in Int /\ \A i \in k + 1..n : recency[i] \in Clients
    BY <1>3
  <2>2. /\ list \in Seq(Clients) /\ Len(list) = IF k + 1 <= n THEN n - (k + 1) + 1 ELSE 0
        /\ \A i \in 1..n - (k + 1) + 1 : list[i] = recency[k + 1 + i - 1]
    BY <2>1, SubSeqProperties DEF Busy
  <2> HIDE DEF list, n
  <2>3. Len(list) = n - k
    BY <1>3, <2>1, <2>2 DEF n
  <2>4. ASSUME NEW i \in 1..n - k PROVE list[i] = recency[k + i]
    <3>1. i \in 1..n - (k + 1) + 1 /\ k + 1 + i - 1 = k + i
      BY <1>3, <2>1
    <3>2. list[i] = recency[k + 1 + i - 1]
      BY <2>2, <3>1
    <3> QED BY <3>1, <3>2
  <2> QED BY <2>2, <2>3, <2>4 DEF n
<1> HIDE DEF list
<1>5. /\ Sorted(list) /\ Len(list) <= MaximumBuckets
      /\ \A i \in 1..Len(list) : buckets[list[i]].known
      /\ \A d : d \in ToSet(list) <=> \E i \in 1..Len(list) : list[i] = d
  <2>1. \A i \in 1..Len(list) : k + i \in 1..Len(recency) /\ list[i] = recency[k + i]
                                /\ recency[k + i] \in Clients
    BY <1>3, <1>4
  <2>2. \A i, j \in 1..Len(list) : (k + i = k + j => i = j) /\ (i < j => k + i < k + j)
    BY <1>3, <1>4
  <2>3. Sorted(list)
    <3> SUFFICES ASSUME NEW i \in 1..Len(list), NEW j \in 1..Len(list)
                 PROVE  /\ list[i] = list[j] => i = j
                        /\ i < j => buckets[list[i]].since >= buckets[list[j]].since
      BY DEF Sorted
    <3>1. /\ k + i \in 1..Len(recency) /\ k + j \in 1..Len(recency)
          /\ list[i] = recency[k + i] /\ list[j] = recency[k + j]
          /\ (k + i = k + j => i = j) /\ (i < j => k + i < k + j)
      BY <2>1, <2>2
    <3>2. Sorted(recency)
      BY DEF ListInv
    <3> QED BY <3>1, <3>2 DEF Sorted
  <2>4. Len(list) <= MaximumBuckets
    BY <1>3, <1>4
  <2> QED BY <1>3, <1>4, <2>1, <2>3, <2>4, ElementsOf
\* Whoever is known and not in the list was idle.
<1>6. ASSUME NEW d \in Clients, \A i \in 1..Len(list) : list[i] # d PROVE InHand(d) = Burst
  <2>1. CASE ~buckets[d].known
    BY <2>1 DEF InHand
  <2>2. CASE buckets[d].known
    <3>1. PICK j \in 1..Len(recency) : recency[j] = d
      BY <1>3, <2>2
    <3>2. j \in 1..k
      <4>1. ~(j - k \in 1..Len(list))
        <5>1. ASSUME j - k \in 1..Len(list) PROVE FALSE
          <6>1. k + (j - k) = j /\ j - k \in 1..Len(recency) - k
            BY <1>3, <1>4, <5>1
          <6> QED BY <1>4, <1>6, <3>1, <5>1, <6>1
        <5> QED BY <5>1
      <4> QED BY <1>3, <1>4, <4>1
    <3>3. buckets[d].since > IdleTicks
      BY <1>2, <3>1, <3>2 DEF CleansUpTo, IsIdle
    <3>4. buckets[d].tokens \in Nat /\ buckets[d].since \in Nat
      BY <1>3 DEF Bucket
    <3>5. buckets[d].tokens + buckets[d].since > Burst
      BY <1>3, <3>3, <3>4
    <3> QED BY <3>5 DEF InHand
  <2> QED BY <2>1, <2>2
<1>7. tokens = InHand(c)
  <2>1. CASE c \in ToSet(list)
    BY <2>1 DEF Refilled, InHand
  <2>2. CASE c \notin ToSet(list)
    <3>1. InHand(c) = Burst
      BY <1>5, <1>6, <2>2
    <3>2. tokens = Burst
      BY <2>2 DEF Refilled, NoBucket
    <3> QED BY <3>1, <3>2
  <2> QED BY <2>1, <2>2
<1>8. PICK q \in 1..Len(list) + 1 :
        /\ IsWithout(out, list, q)
        /\ Len(out) < MaximumBuckets
        /\ q \in 1..Len(list) => list[q] = IF Crowded(list, c) THEN Head(list) ELSE c
        /\ q = Len(list) + 1 => ~Crowded(list, c) /\ \A i \in 1..Len(list) : list[i] # c
  BY <1>4, <1>5, OthersLeft
<1> DEFINE crowded == Crowded(list, c)
<1>9. crowded => /\ \A i \in 1..Len(list) : list[i] # c
                 /\ Head(list) \in Clients /\ Head(list) # c
  <2> SUFFICES ASSUME crowded PROVE /\ \A i \in 1..Len(list) : list[i] # c
                                    /\ Head(list) \in Clients /\ Head(list) # c
    OBVIOUS
  <2>1. (\A i \in 1..Len(list) : list[i] # c) /\ Len(list) >= 1
    BY <1>3, <1>4, <1>5 DEF Crowded
  <2>2. list # <<>> /\ 1 \in 1..Len(list) /\ Head(list) = list[1]
    BY <1>4, <2>1
  <2> QED BY <1>4, <2>1, <2>2
<1> HIDE DEF out, tokens
<1>10. /\ Sorted(out)
       /\ \A i \in 1..Len(out) : \E j \in 1..Len(list) : out[i] = list[j] /\ j # q
       /\ \A j \in 1..Len(list) : j # q => \E i \in 1..Len(out) : out[i] = list[j]
       /\ out \in Seq(Clients)
  <2>1. IsWithout(out, list, q) /\ Sorted(list) /\ list \in Seq(Clients)
    BY <1>4, <1>5, <1>8
  <2>2. out \in Seq(Clients)
    BY <2>1 DEF IsWithout
  <2> QED BY <2>1, <2>2, WithoutKeeps
<1>11. \A i \in 1..Len(out) : out[i] # c /\ buckets[out[i]].known
  <2> SUFFICES ASSUME NEW i \in 1..Len(out) PROVE out[i] # c /\ buckets[out[i]].known
    OBVIOUS
  <2>1. PICK j \in 1..Len(list) : out[i] = list[j] /\ j # q
    BY <1>10
  <2>2. list[j] # c
    <3>1. CASE crowded
      BY <1>9, <3>1
    <3>2. CASE ~crowded /\ q \in 1..Len(list)
      BY <1>5, <1>8, <2>1, <3>2 DEF Sorted
    <3>3. CASE q = Len(list) + 1
      BY <1>8, <3>3
    <3>4. q \in 1..Len(list) \/ q = Len(list) + 1
      <4>1. Len(list) \in Nat
        BY <1>4, ElementsOf
      <4> QED BY <4>1
    <3> QED BY <3>1, <3>2, <3>3, <3>4
  <2> QED BY <1>5, <2>1, <2>2
<1>12. c \notin evicted /\ evicted \subseteq Clients
  BY <1>9
<1>13. ASSUME NEW d \in Clients \ (evicted \cup {c}), InHand(d) # Burst
       PROVE  \E i \in 1..Len(out) : out[i] = d
  <2>1. PICK j \in 1..Len(list) : list[j] = d
    BY <1>6, <1>13
  <2>2. j # q
    BY <1>8, <1>13, <2>1
  <2> QED BY <1>10, <2>1, <2>2
<1>14. \A d : d \in ToSet(out) <=> \E i \in 1..Len(out) : out[i] = d
  BY <1>10, ElementsOf
<1> HIDE DEF evicted
<1>15. \A d \in Clients : buckets'[d] =
         IF d = c THEN [tokens |-> IF allowed THEN tokens - 1 ELSE tokens,
                        since |-> 0, known |-> TRUE]
         ELSE IF \E i \in 1..Len(out) : out[i] = d THEN buckets[d] ELSE NoBucket
  BY <1>2, <1>14
<1>16. buckets' = [d \in Clients |-> buckets'[d]]
  BY <1>2
<1>17. Serves(c, allowed, out, evicted)
  <2>1. Len(out) < MaximumBuckets
    BY <1>8
  <2>2. /\ recency' = Append(out, c) /\ allowed = (InHand(c) >= 1)
        /\ \A d \in Clients : buckets'[d] =
             IF d = c THEN [tokens |-> IF allowed THEN InHand(c) - 1 ELSE InHand(c),
                            since |-> 0, known |-> TRUE]
             ELSE IF \E i \in 1..Len(out) : out[i] = d THEN buckets[d] ELSE NoBucket
    BY <1>2, <1>7, <1>15
  <2>3. admitted' = [admitted EXCEPT
          !.lost = admitted.lost \cup evicted,
          !.of = [d \in Clients |->
            IF d \in admitted.lost \cup evicted THEN 0
            ELSE admitted.of[d] + IF d = c /\ allowed THEN 1 ELSE 0]]
    BY <1>2
  <2> QED BY <1>10, <1>11, <1>12, <1>13, <1>16, <2>1, <2>2, <2>3 DEF Serves
<1> QED BY <1>17

\* The list and the window after a client has come.
LEMMA ServedList ==
    ASSUME ListInv, WatchInv, NEW c \in Clients, NEW allowed \in BOOLEAN, NEW out, NEW evicted,
           Serves(c, allowed, out, evicted)
    PROVE  ListInv' /\ WatchInv'
<1> DEFINE n == Len(out)
           b == [tokens |-> IF allowed THEN InHand(c) - 1 ELSE InHand(c),
                 since |-> 0, known |-> TRUE]
<1>1. /\ out \in Seq(Clients) /\ n \in Nat /\ n < MaximumBuckets /\ Sorted(out)
      /\ \A i \in 1..n : out[i] \in Clients /\ out[i] # c /\ buckets[out[i]].known
      /\ {MaximumBuckets, Burst, IdleTicks} \subseteq Nat
  BY CredentialsAssumption DEF Serves
<1>2. /\ buckets \in [Clients -> Bucket]
      /\ \A d \in Clients : ~buckets[d].known => buckets[d] = NoBucket
  BY DEF ListInv, BucketsTyped
<1>3. \A d \in Clients : InHand(d) \in 0..Burst
  <2> SUFFICES ASSUME NEW d \in Clients PROVE InHand(d) \in 0..Burst
    OBVIOUS
  <2>1. buckets[d].tokens \in Nat /\ buckets[d].since \in Nat
    BY <1>1, <1>2 DEF Bucket
  <2> QED BY <1>1, <2>1 DEF InHand
<1>4. b \in Bucket /\ b.known /\ b.since = 0 /\ NoBucket \in Bucket /\ ~NoBucket.known
      /\ b.tokens = InHand(c) - (IF allowed THEN 1 ELSE 0)
  <2>1. allowed => InHand(c) >= 1
    BY DEF Serves
  <2>2. (IF allowed THEN InHand(c) - 1 ELSE InHand(c)) \in 0..Burst
    BY <1>1, <1>3, <2>1
  <2> QED BY <1>1, <1>3, <2>2 DEF Bucket, NoBucket
<1>5. /\ buckets'[c] = b
      /\ \A d \in Clients \ {c} : buckets'[d] =
           IF \E i \in 1..n : out[i] = d THEN buckets[d] ELSE NoBucket
      /\ buckets' = [d \in Clients |-> buckets'[d]]
  BY DEF Serves
<1> HIDE DEF b
<1>6. BucketsTyped'
  <2>1. \A d \in Clients : buckets'[d] \in Bucket
    BY <1>2, <1>4, <1>5
  <2>2. \A d \in Clients : ~buckets'[d].known => buckets'[d] = NoBucket
    BY <1>2, <1>4, <1>5
  <2> QED BY <1>5, <2>1, <2>2 DEF BucketsTyped
<1>7. /\ recency' \in Seq(Clients) /\ Len(recency') = n + 1
      /\ \A i \in 1..n : recency'[i] = out[i]
      /\ recency'[n + 1] = c
  <2>1. recency' = Append(out, c)
    BY DEF Serves
  <2> QED BY <1>1, <2>1, AppendProperties
<1>8. \A j \in 1..n + 1 : j \in 1..n \/ j = n + 1
  BY <1>1
<1>9. Len(recency') <= MaximumBuckets
  BY <1>1, <1>7
<1>10. ASSUME NEW d \in Clients
       PROVE  buckets'[d].known <=> \E j \in 1..n + 1 : recency'[j] = d
  <2>1. CASE d = c
    <3>1. n + 1 \in 1..n + 1
      BY <1>1
    <3> QED BY <1>4, <1>5, <1>7, <2>1, <3>1
  <2>2. CASE d # c
    <3>1. (\E j \in 1..n + 1 : recency'[j] = d) <=> \E i \in 1..n : out[i] = d
      <4>1. \A i \in 1..n : i \in 1..n + 1
        BY <1>1
      <4> QED BY <1>7, <1>8, <2>2, <4>1
    <3>2. buckets'[d].known <=> \E i \in 1..n : out[i] = d
      BY <1>1, <1>4, <1>5, <2>2
    <3> QED BY <3>1, <3>2
  <2> QED BY <2>1, <2>2
<1>11. ASSUME NEW i \in 1..n + 1, NEW j \in 1..n + 1
       PROVE  /\ recency'[i] = recency'[j] => i = j
              /\ i < j => buckets'[recency'[i]].since >= buckets'[recency'[j]].since
  <2>1. CASE i \in 1..n /\ j \in 1..n
    <3>1. buckets'[out[i]] = buckets[out[i]] /\ buckets'[out[j]] = buckets[out[j]]
      BY <1>1, <1>5, <2>1
    <3>2. /\ out[i] = out[j] => i = j
          /\ i < j => buckets[out[i]].since >= buckets[out[j]].since
      BY <1>1, <2>1 DEF Sorted
    <3> QED BY <1>7, <2>1, <3>1, <3>2
  <2>2. CASE i \in 1..n /\ j = n + 1
    <3>1. recency'[i] = out[i] /\ recency'[j] = c /\ out[i] # c
      BY <1>1, <1>7, <2>2
    <3>2. buckets'[out[i]].since \in Nat /\ buckets'[c].since = 0
      <4>1. out[i] \in Clients
        BY <1>1, <2>2
      <4>2. buckets'[out[i]] = buckets[out[i]] /\ buckets[out[i]] \in Bucket
        BY <1>1, <1>2, <1>5, <2>2, <4>1
      <4> QED BY <1>1, <1>4, <1>5, <4>2 DEF Bucket
    <3> QED BY <3>1, <3>2
  <2>3. CASE i = n + 1 /\ j \in 1..n
    <3>1. recency'[j] = out[j] /\ recency'[i] = c /\ out[j] # c /\ ~(i < j)
      BY <1>1, <1>7, <2>3
    <3> QED BY <3>1
  <2>4. CASE i = n + 1 /\ j = n + 1
    BY <1>1, <2>4
  <2> QED BY <1>8, <2>1, <2>2, <2>3, <2>4
<1>12. ListInv'
  BY <1>6, <1>7, <1>9, <1>10, <1>11 DEF ListInv, Sorted
<1> DEFINE lost == admitted.lost \cup evicted
           of == [d \in Clients |-> IF d \in lost THEN 0
                    ELSE admitted.of[d] + IF d = c /\ allowed THEN 1 ELSE 0]
<1>13. /\ admitted \in [ticks: Nat, of: [Clients -> Nat], lost: SUBSET Clients]
       /\ \A d \in Clients \ admitted.lost : admitted.of[d] + InHand(d) <= Burst + admitted.ticks
       /\ evicted \subseteq Clients /\ c \notin evicted
       /\ \A d \in Clients \ (evicted \cup {c}) :
            InHand(d) = Burst \/ \E i \in 1..n : out[i] = d
  BY DEF WatchInv, Serves
<1>14. of \in [Clients -> Nat] /\ lost \subseteq Clients
  BY <1>13
<1>15. admitted' = [admitted EXCEPT !.lost = lost, !.of = of]
  BY DEF Serves
<1> HIDE DEF of, lost
<1>16. /\ admitted' \in [ticks: Nat, of: [Clients -> Nat], lost: SUBSET Clients]
       /\ admitted'.ticks = admitted.ticks /\ admitted'.of = of /\ admitted'.lost = lost
  BY <1>13, <1>14, <1>15
<1>17. ASSUME NEW d \in Clients \ lost PROVE of[d] + InHand(d)' <= Burst + admitted.ticks
  <2>1. admitted.of[d] \in Nat /\ admitted.of[d] + InHand(d) <= Burst + admitted.ticks
        /\ admitted.ticks \in Nat /\ d \notin evicted
    BY <1>13, <1>17 DEF lost
  <2>2. of[d] = admitted.of[d] + IF d = c /\ allowed THEN 1 ELSE 0
    BY <1>17 DEF of
  <2>3. CASE d = c
    <3>1. InHand(c)' = b.tokens
      <4>1. b.tokens \in 0..Burst /\ b.tokens + b.since = b.tokens
        BY <1>1, <1>4 DEF Bucket
      <4> QED BY <1>1, <1>4, <1>5, <4>1 DEF InHand
    <3> QED BY <1>1, <1>3, <1>4, <2>1, <2>2, <2>3, <3>1
  <2>4. CASE d # c
    <3>1. CASE \E i \in 1..n : out[i] = d
      <4>1. buckets'[d] = buckets[d]
        BY <1>5, <2>4, <3>1
      <4>2. InHand(d)' = InHand(d)
        BY <4>1 DEF InHand
      <4> QED BY <1>1, <1>3, <2>1, <2>2, <2>4, <4>2
    <3>2. CASE ~\E i \in 1..n : out[i] = d
      <4>1. InHand(d) = Burst
        BY <1>13, <2>1, <2>4, <3>2
      <4>2. buckets'[d] = NoBucket
        BY <1>5, <2>4, <3>2
      <4>3. InHand(d)' = Burst
        BY <1>4, <4>2 DEF InHand
      <4> QED BY <1>1, <2>1, <2>2, <2>4, <4>1, <4>3
    <3> QED BY <3>1, <3>2
  <2> QED BY <2>3, <2>4
<1>18. WatchInv'
  BY <1>16, <1>17 DEF WatchInv
<1> QED BY <1>12, <1>18

\* The limiter is kept by every step.
LEMMA NextRates ==
    ASSUME ListInv, WatchInv, RateCalls
    PROVE  ListInv' /\ WatchInv'
<1>0. Burst \in Nat /\ IdleTicks \in Nat
  BY CredentialsAssumption
<1>1. /\ {MaximumBuckets, Burst, IdleTicks} \subseteq Nat
      /\ buckets \in [Clients -> Bucket]
      /\ \A d \in Clients : ~buckets[d].known => buckets[d] = NoBucket
      /\ recency \in Seq(Clients) /\ Len(recency) \in Nat
      /\ admitted \in [ticks: Nat, of: [Clients -> Nat], lost: SUBSET Clients]
      /\ \A d \in Clients \ admitted.lost : admitted.of[d] + InHand(d) <= Burst + admitted.ticks
  BY CredentialsAssumption DEF ListInv, BucketsTyped, WatchInv
<1>2. CASE UNCHANGED rateVars
  <2>1. buckets' = buckets /\ recency' = recency /\ admitted' = admitted
    BY <1>2 DEF rateVars
  <2>2. ListInv'
    BY <2>1 DEF ListInv, BucketsTyped, Sorted
  <2>3. WatchInv'
    BY <2>1 DEF WatchInv, InHand
  <2> QED BY <2>2, <2>3
<1>3. ASSUME NEW c \in Clients, NEW allowed \in BOOLEAN, Allow(c, allowed)
      PROVE  ListInv' /\ WatchInv'
  BY <1>3, AllowServes, ServedList
<1>4. CASE OpenWindow
  <2>1. buckets' = buckets /\ recency' = recency
        /\ admitted' = [ticks |-> 0, of |-> [c \in Clients |-> 0], lost |-> {}]
    BY <1>4 DEF OpenWindow
  <2>2. ListInv'
    BY <2>1 DEF ListInv, BucketsTyped, Sorted
  <2>3. ASSUME NEW d \in Clients PROVE InHand(d)' <= Burst /\ InHand(d)' \in Nat
    <3>1. buckets[d].tokens \in Nat /\ buckets[d].since \in Nat
      BY <1>1 DEF Bucket
    <3> QED BY <1>1, <2>1, <3>1 DEF InHand
  <2>4. ASSUME NEW d \in Clients
        PROVE  admitted'.of[d] + InHand(d)' <= Burst + admitted'.ticks
    <3>1. admitted'.of[d] = 0 /\ admitted'.ticks = 0
      BY <2>1
    <3>2. 0 + InHand(d)' <= Burst + 0
      BY <1>1, <2>3
    <3> QED BY <3>1, <3>2
  <2>5. admitted' \in [ticks: Nat, of: [Clients -> Nat], lost: SUBSET Clients]
    BY <2>1
  <2> QED BY <2>2, <2>4, <2>5 DEF WatchInv
<1>5. CASE Tick
  <2>1. /\ admitted' = [admitted EXCEPT !.ticks = admitted.ticks + 1] /\ recency' = recency
        /\ buckets' = [c \in Clients |->
             IF buckets[c].known /\ buckets[c].since <= IdleTicks
             THEN [buckets[c] EXCEPT !.since = buckets[c].since + 1] ELSE buckets[c]]
    BY <1>1, <1>5 DEF Tick
  <2>2. ASSUME NEW c \in Clients
        PROVE  /\ buckets'[c] \in Bucket /\ buckets'[c].known = buckets[c].known
               /\ buckets'[c].tokens = buckets[c].tokens
               /\ buckets'[c].since =
                    IF buckets[c].known /\ buckets[c].since <= IdleTicks
                    THEN buckets[c].since + 1 ELSE buckets[c].since
               /\ ~buckets[c].known => buckets'[c] = buckets[c]
    <3> DEFINE a == buckets[c]
               b == buckets'[c]
    <3>1. a \in Bucket /\ a.since \in 0..IdleTicks + 1
      BY <1>1 DEF Bucket
    <3>2. b = IF a.known /\ a.since <= IdleTicks THEN [a EXCEPT !.since = a.since + 1] ELSE a
      BY <2>1
    <3> HIDE DEF a, b
    <3>3. ASSUME b = [a EXCEPT !.since = a.since + 1], a.since <= IdleTicks
          PROVE  b \in Bucket /\ b.known = a.known /\ b.tokens = a.tokens
                 /\ b.since = a.since + 1
      <4>1. a.since + 1 \in 0..IdleTicks + 1
        BY <1>0, <3>1, <3>3
      <4>2. a \in Bucket /\ b = [a EXCEPT !.since = a.since + 1]
        BY <3>1, <3>3
      <4> DEFINE more == a.since + 1
      <4> HIDE DEF more
      <4>3. b = [a EXCEPT !.since = more] /\ more \in 0..IdleTicks + 1
        BY <4>1, <4>2 DEF more
      <4>4. b \in Bucket /\ b.known = a.known /\ b.tokens = a.tokens /\ b.since = more
        BY <4>2, <4>3 DEF Bucket
      <4> QED BY <4>4 DEF more
    <3>4. /\ b \in Bucket /\ b.known = a.known /\ b.tokens = a.tokens
          /\ b.since = IF a.known /\ a.since <= IdleTicks THEN a.since + 1 ELSE a.since
          /\ ~a.known => b = a
      BY <3>1, <3>2, <3>3
    <3> QED BY <3>4 DEF a, b
  <2>3. \A d \in Clients : buckets[d].since \in 0..IdleTicks + 1 /\ buckets[d].tokens \in 0..Burst
    BY <1>1 DEF Bucket
  <2>4. ListInv'
    <3>1. BucketsTyped'
      BY <1>1, <2>1, <2>2 DEF BucketsTyped
    <3>2. ASSUME NEW i \in 1..Len(recency), NEW j \in 1..Len(recency), i < j
          PROVE  buckets'[recency[i]].since >= buckets'[recency[j]].since
      <4> DEFINE p == recency[i]
                 q == recency[j]
      <4>1. p \in Clients /\ q \in Clients /\ buckets[p].known /\ buckets[q].known
            /\ buckets[p].since >= buckets[q].since
        BY <1>1, <3>2 DEF ListInv, Sorted
      <4> HIDE DEF p, q
      <4>3. /\ buckets[p].since \in Nat /\ buckets[q].since \in Nat
            /\ buckets[p].since <= IdleTicks + 1
        BY <1>0, <2>3, <4>1
      <4>4. /\ buckets'[p].since = IF buckets[p].since <= IdleTicks
                                   THEN buckets[p].since + 1 ELSE buckets[p].since
            /\ buckets'[q].since = IF buckets[q].since <= IdleTicks
                                   THEN buckets[q].since + 1 ELSE buckets[q].since
        BY <2>2, <4>1
      <4>2. buckets'[p].since >= buckets'[q].since
        BY <1>0, <4>1, <4>3, <4>4
      <4> QED BY <4>2 DEF p, q
    <3>3. \A c \in Clients : buckets'[c].known <=> \E j \in 1..Len(recency) : recency[j] = c
      BY <2>2 DEF ListInv
    <3>4. Sorted(recency)'
      BY <2>1, <3>2 DEF Sorted, ListInv
    <3> QED BY <2>1, <3>1, <3>3, <3>4 DEF ListInv
  <2>5. /\ admitted' \in [ticks: Nat, of: [Clients -> Nat], lost: SUBSET Clients]
        /\ admitted'.ticks = admitted.ticks + 1 /\ admitted'.of = admitted.of
        /\ admitted'.lost = admitted.lost
    <3>1. admitted.ticks + 1 \in Nat
      BY <1>1
    <3> DEFINE more == admitted.ticks + 1
    <3> HIDE DEF more
    <3>2. admitted' = [admitted EXCEPT !.ticks = more] /\ more \in Nat
      BY <2>1, <3>1 DEF more
    <3>3. /\ admitted' \in [ticks: Nat, of: [Clients -> Nat], lost: SUBSET Clients]
          /\ admitted'.ticks = more /\ admitted'.of = admitted.of
          /\ admitted'.lost = admitted.lost
      BY <1>1, <3>2
    <3> QED BY <3>3 DEF more
  <2>6. ASSUME NEW d \in Clients \ admitted.lost
        PROVE  admitted.of[d] + InHand(d)' <= Burst + (admitted.ticks + 1)
    <3>1. admitted.of[d] \in Nat /\ admitted.ticks \in Nat
          /\ admitted.of[d] + InHand(d) <= Burst + admitted.ticks
      BY <1>1
    <3>2. InHand(d)' \in Nat /\ InHand(d) \in Nat /\ InHand(d)' <= InHand(d) + 1
      <4>1. /\ buckets[d].tokens \in Nat /\ buckets[d].since \in Nat
            /\ buckets'[d].known = buckets[d].known /\ buckets'[d].tokens = buckets[d].tokens
            /\ buckets'[d].since = buckets[d].since \/ buckets'[d].since = buckets[d].since + 1
        BY <1>0, <2>2, <2>3
      <4> QED BY <1>0, <4>1 DEF InHand
    <3> QED BY <1>0, <3>1, <3>2
  <2> QED BY <2>4, <2>5, <2>6 DEF WatchInv
<1> QED BY <1>2, <1>3, <1>4, <1>5 DEF RateCalls

-----------------------------------------------------------------------------
CredentialsInv == LocksInv /\ CodesInv /\ ListInv /\ WatchInv

LEMMA CredentialsStart == Init => CredentialsInv
<1> SUFFICES ASSUME Init PROVE CredentialsInv
  OBVIOUS
<1>1. /\ {MaxFailures, MaximumAttempts, MaxTries, DailyIssues, Burst, IdleTicks,
           MaximumBuckets} \subseteq Nat \ {0}
      /\ Cardinality(Purposes) \in Nat
  BY CredentialsAssumption, TriesAreFew
<1>2. LocksInv
  <2>1. attempts = [n \in Names |-> NoAttempts] /\ misses = [n \in Names |-> 0]
    BY DEF Init, CredentialsInit
  <2>2. NoAttempts \in [failures: 0..MaxFailures - 1, locked: BOOLEAN, known: BOOLEAN]
        /\ NoAttempts.failures = 0 /\ ~NoAttempts.known /\ ~NoAttempts.locked
    BY <1>1 DEF NoAttempts
  <2>3. Known(attempts) = {}
    BY <2>1, <2>2 DEF Known
  <2>4. IsFiniteSet(Known(attempts)) /\ Cardinality(Known(attempts)) <= MaximumAttempts
    BY <1>1, <2>3, FS_EmptySet
  <2> QED BY <2>1, <2>2, <2>4 DEF LocksInv, LocksTyped, Counted, Locked
<1>3. CodesInv
  <2>1. /\ codes = [e \in Phones \X Purposes |-> NoCode] /\ issued = [ph \in Phones |-> 0]
        /\ tries = [ph \in Phones |-> 0]
    BY DEF Init, CredentialsInit
  <2>2. NoCode \in Code /\ NoCode.age = "None"
    BY <1>1 DEF Code, NoCode
  <2>3. ASSUME NEW ph \in Phones PROVE Spent(ph)
    <3>1. tries[ph] = 0 /\ issued[ph] = 0
      BY <2>1
    <3>2. 0 + Cardinality(TriesLeft(ph)) <= MaxTries * (0 + Cardinality(Purposes))
      BY <1>1, TriesAreFew
    <3> QED BY <3>1, <3>2 DEF Spent
  <2>4. CodesTyped
    BY <1>1, <2>1, <2>2 DEF CodesTyped
  <2> QED BY <2>3, <2>4 DEF CodesInv
<1>4. buckets = [c \in Clients |-> NoBucket] /\ recency = <<>>
      /\ admitted = [ticks |-> 0, of |-> [c \in Clients |-> 0], lost |-> {}]
  BY DEF Init, CredentialsInit
<1>5. NoBucket \in Bucket /\ ~NoBucket.known
  BY <1>1 DEF Bucket, NoBucket
<1>6. ListInv
  <2>1. BucketsTyped
    BY <1>4, <1>5 DEF BucketsTyped
  <2>2. recency \in Seq(Clients) /\ Len(recency) = 0 /\ 0 <= MaximumBuckets
    BY <1>1, <1>4
  <2> QED BY <1>4, <1>5, <2>1, <2>2 DEF ListInv, Sorted
<1>7. WatchInv
  <2>1. \A c \in Clients : InHand(c) = Burst
    BY <1>4, <1>5 DEF InHand
  <2>2. admitted \in [ticks: Nat, of: [Clients -> Nat], lost: SUBSET Clients]
    BY <1>4
  <2>3. ASSUME NEW c \in Clients PROVE admitted.of[c] + InHand(c) <= Burst + admitted.ticks
    <3>1. admitted.of[c] = 0 /\ admitted.ticks = 0 /\ InHand(c) = Burst
      BY <1>4, <2>1
    <3> QED BY <1>1, <3>1
  <2> QED BY <2>2, <2>3 DEF WatchInv
<1> QED BY <1>2, <1>3, <1>6, <1>7 DEF CredentialsInv

LEMMA CredentialsStep ==
    ASSUME SessionsInv, AccessInv, CredentialsInv, [Next]_vars
    PROVE  CredentialsInv'
<1>1. CASE Next
  <2>1. OneCallEach
    BY <1>1, CredentialCalls DEF AccessInv
  <2>2. LocksInv'
    BY <1>1, NextLocks DEF AccessInv, CredentialsInv
  <2>3. CodesInv' /\ ListInv' /\ WatchInv'
    BY <2>1, NextCodes, NextRates DEF OneCallEach, CredentialsInv
  <2> QED BY <2>2, <2>3 DEF CredentialsInv
<1>2. CASE UNCHANGED vars
  <2>1. UNCHANGED credentialVars /\ UNCHANGED accessVars
    BY <1>2 DEF vars
  <2>2. attempts' = attempts /\ misses' = misses /\ threads' = threads
    BY <2>1 DEF credentialVars, accessVars
  <2>3. \A n : Guessing(n)' = Guessing(n)
    BY <2>2 DEF Guessing, Busied, Free
  <2>4. LocksInv'
    BY <2>2, <2>3 DEF CredentialsInv, LocksInv, LocksTyped, Counted, Locked, Known
  <2>5. CodeCalls /\ RateCalls
    BY <2>1 DEF credentialVars, CodeCalls, RateCalls, codeVars, rateVars
  <2>6. CodesInv' /\ ListInv' /\ WatchInv'
    BY <2>5, NextCodes, NextRates DEF CredentialsInv
  <2> QED BY <2>4, <2>6 DEF CredentialsInv
<1> QED BY <1>1, <1>2

\* A table within its bound.
LEMMA ListIsBounded ==
    ASSUME ListInv
    PROVE  /\ Cardinality(Known(buckets)) <= MaximumBuckets
           /\ ToSet(recency) = Known(buckets) /\ IsInjective(recency)
           /\ \A i, j \in DOMAIN recency :
                i < j => buckets[recency[i]].since >= buckets[recency[j]].since
<1>1. /\ recency \in Seq(Clients) /\ Len(recency) <= MaximumBuckets /\ Len(recency) \in Nat
      /\ DOMAIN recency = 1..Len(recency) /\ DOMAIN buckets = Clients
      /\ \A i \in 1..Len(recency) : recency[i] \in Clients
      /\ MaximumBuckets \in Nat
  BY CredentialsAssumption DEF ListInv, BucketsTyped
<1>2. ToSet(recency) = Known(buckets)
  <2>1. \A c : c \in ToSet(recency) <=> \E i \in 1..Len(recency) : recency[i] = c
    BY <1>1, ElementsOf
  <2>2. \A c : c \in Known(buckets) <=> c \in Clients /\ buckets[c].known
    BY <1>1 DEF Known
  <2>3. \A c \in Clients : buckets[c].known <=> \E j \in 1..Len(recency) : recency[j] = c
    BY DEF ListInv
  <2>4. \A c : c \in ToSet(recency) <=> c \in Known(buckets)
    BY <1>1, <2>1, <2>2, <2>3
  <2> QED BY <2>4
<1>3. recency \in Surjection(1..Len(recency), Known(buckets))
  <2>1. \A i \in 1..Len(recency) : recency[i] \in Known(buckets)
    BY <1>1, <1>2, ElementsOf
  <2>2. \A c \in Known(buckets) : \E i \in 1..Len(recency) : recency[i] = c
    BY <1>1, <1>2, ElementsOf
  <2>3. recency \in [1..Len(recency) -> Known(buckets)]
    BY <1>1, <2>1
  <2> QED BY <2>2, <2>3 DEF Surjection
<1>4. Cardinality(Known(buckets)) <= Len(recency) /\ Cardinality(Known(buckets)) \in Nat
  <2> DEFINE n == Len(recency)
  <2>1. n \in Nat
    BY <1>1
  <2> HIDE DEF n
  <2>2. IsFiniteSet(1..n) /\ Cardinality(1..n) = n
    BY <2>1, FS_Interval
  <2>3. recency \in Surjection(1..n, Known(buckets))
    BY <1>3 DEF n
  <2>4. IsFiniteSet(Known(buckets)) /\ Cardinality(Known(buckets)) <= Cardinality(1..n)
    BY <2>2, <2>3, FS_Surjection
  <2>5. Cardinality(Known(buckets)) \in Nat
    BY <2>4, FS_CardinalityType
  <2> QED BY <2>2, <2>4, <2>5 DEF n
<1> QED BY <1>1, <1>2, <1>3, <1>4 DEF ListInv, Sorted, IsInjective

LEMMA ProductGrows ==
    ASSUME NEW a \in Nat, NEW b \in Nat, NEW k \in Nat, a <= b
    PROVE  k * a <= k * b
<1>1. k * b = k * a + k * (b - a) /\ b - a \in Nat
  OBVIOUS
<1>2. k * (b - a) \in Nat /\ k * a \in Nat
  BY <1>1
<1> QED BY <1>1, <1>2

\* However logins interleave (admin_auth_service.cpp, verification_code_service.cpp,
\* the limiter of password work): a name is guessed wrong at most as often as the
\* limit, and once by each other login under way, before it is locked; a phone's
\* codes are guessed wrong as often a day as the codes it got have tries; a client
\* that was not evicted gets no more password work in a stretch of time than its
\* bucket and that time allow; and none of the tables outgrows its bound.
THEOREM GuessesAlwaysBounded == Spec => []GuessesAreBounded
<1>1. Init => CredentialsInv
  BY CredentialsStart
<1>2. (SessionsInv /\ AccessInv) /\ CredentialsInv /\ [Next]_vars => CredentialsInv'
  BY CredentialsStep
<1>3. CredentialsInv => GuessesAreBounded
  <2> SUFFICES ASSUME CredentialsInv PROVE GuessesAreBounded
    OBVIOUS
  <2>1. LocksInv /\ CodesInv /\ ListInv /\ WatchInv
    BY DEF CredentialsInv
  <2>2. CredentialsTypeOK
    <3>1. buckets \in [Clients -> [tokens: 0..Burst, since: 0..IdleTicks + 1, known: BOOLEAN]]
      BY <2>1 DEF ListInv, BucketsTyped, Bucket
    <3>2. codes \in [Phones \X Purposes -> [tries: 0..MaxTries, cooling: BOOLEAN,
                                            age: {"None", "Valid", "Expired"}]]
      BY <2>1 DEF CodesInv, CodesTyped, Code
    <3> QED BY <2>1, <3>1, <3>2, ListIsBounded
        DEF CredentialsTypeOK, LocksInv, LocksTyped, CodesInv, CodesTyped
  <2>3. ASSUME NEW n \in Names PROVE misses[n] <= MaxFailures + Cardinality(Threads) - 1
    <3>1. /\ Cardinality(Guessing(n)) \in Nat /\ Cardinality(Threads) \in Nat
          /\ MaxFailures \in Nat \ {0} /\ misses[n] \in Nat
          /\ attempts[n].failures \in 0..MaxFailures - 1
      BY <2>1, GuessersAreFew, CredentialsAssumption DEF LocksInv, LocksTyped
    <3>2. Counted(n)
      BY <2>1 DEF LocksInv
    <3> QED BY <3>1, <3>2 DEF Counted
  <2>4. ASSUME NEW ph \in Phones
        PROVE  tries[ph] <= MaxTries * (DailyIssues + Cardinality(Purposes))
    <3> DEFINE most == MaxTries * (issued[ph] + Cardinality(Purposes))
               top == MaxTries * (DailyIssues + Cardinality(Purposes))
    <3>1. /\ Cardinality(TriesLeft(ph)) \in Nat /\ Cardinality(Purposes) \in Nat
          /\ issued[ph] \in 0..DailyIssues /\ DailyIssues \in Nat /\ MaxTries \in Nat
          /\ tries[ph] \in Nat
      BY <2>1, TriesAreFew, CredentialsAssumption DEF CodesInv, CodesTyped
    <3>2. most <= top /\ most \in Nat /\ top \in Nat
      <4>1. /\ issued[ph] + Cardinality(Purposes) \in Nat
            /\ DailyIssues + Cardinality(Purposes) \in Nat
            /\ issued[ph] + Cardinality(Purposes) <= DailyIssues + Cardinality(Purposes)
        BY <3>1
      <4> QED BY <3>1, <4>1, ProductGrows
    <3>3. tries[ph] + Cardinality(TriesLeft(ph)) <= most
      BY <2>1 DEF CodesInv, Spent
    <3> HIDE DEF most, top
    <3>4. tries[ph] <= top
      BY <3>1, <3>2, <3>3
    <3> QED BY <3>4 DEF top
  <2>5. ASSUME NEW c \in Clients \ admitted.lost
        PROVE  admitted.of[c] <= Burst + admitted.ticks
    <3>1. /\ admitted.of[c] \in Nat /\ admitted.ticks \in Nat /\ Burst \in Nat
          /\ admitted.of[c] + InHand(c) <= Burst + admitted.ticks
          /\ c \in Clients
      BY <2>1, CredentialsAssumption DEF WatchInv
    <3>2. buckets[c].tokens \in Nat /\ buckets[c].since \in Nat
      BY <2>1, <3>1 DEF ListInv, BucketsTyped, Bucket
    <3>3. InHand(c) \in Nat
      BY <3>1, <3>2 DEF InHand
    <3> QED BY <3>1, <3>3
  <2> QED BY <2>2, <2>3, <2>4, <2>5 DEF GuessesAreBounded
<1> QED BY <1>1, <1>2, <1>3, AccessInvariant, PTL DEF Spec
=============================================================================

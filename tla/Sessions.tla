------------------------------ MODULE Sessions ------------------------------
(***************************************************************************)
(* The session manager: sessions by id, their tokens, and the sessions of  *)
(* each principal, three indexes under one mutex; limits per principal and *)
(* kind of token and for all; replacement on the same device; expiry, and  *)
(* for dashboards idleness.  Every operation is one critical section, the  *)
(* notice of a revocation follows it.                                      *)
(*                                                                         *)
(* Time is the age of a session: "Fresh"; "Idle", a dashboard not seen for *)
(* half an hour; "Expired".                                                *)
(***************************************************************************)
EXTENDS Naturals, FiniteSets

CONSTANTS
    Principals,
    Devices,
    MaxIds,          \* bound: sessions issued
    Limits,          \* sessionLimit of each kind of token
    MaximumSessions  \* maximumSessions_

Kinds == {"User", "Administrator", "Dashboard", "MlTask"}
Ids == 1..MaxIds

ASSUME SessionsAssumption ==
    MaxIds \in Nat /\ MaximumSessions \in Nat /\ Limits \in [Kinds -> Nat]

VARIABLES
    sessions,  \* sessionsById_
    digests,   \* sessionIdByDigest_: the sessions their token still finds
    listed,    \* sessionIdsByPrincipal_
    nextId,    \* nextSessionId_
    notices    \* the sessions whose revocation the observer was told of

sessionVars == <<sessions, digests, listed, nextId, notices>>

Session == [of: Principals, device: Devices, kind: Kinds,
            age: {"Fresh", "Idle", "Expired"}, reauth: {"Never", "Recent", "Old"}]
NoSession == [kind |-> "None"]

Stored == {i \in Ids : sessions[i] # NoSession}
Expired == {i \in Stored : sessions[i].age = "Expired"}
Live == Stored \ Expired
SessionsOf(p) == {i \in Live : sessions[i].of = p}

\* The three indexes agree, nobody has more sessions of a kind than the limit,
\* nor two of a kind on one device, and the table is bounded.
SessionsTypeOK ==
    /\ sessions \in [Ids -> Session \cup {NoSession}]
    /\ digests = Stored
    /\ listed = [p \in Principals |-> {i \in Stored : sessions[i].of = p}]
    /\ Cardinality(Stored) <= MaximumSessions
    /\ \A i \in Stored :
         LET same == {j \in Stored : /\ sessions[j].of = sessions[i].of
                                     /\ sessions[j].kind = sessions[i].kind} IN
         /\ Cardinality(same) <= Limits[sessions[i].kind]
         /\ \A j \in same : sessions[j].device = sessions[i].device => j = i
    /\ nextId \in 1..MaxIds + 1 /\ \A i \in Stored : i < nextId
    /\ notices \subseteq Ids \ Stored

SessionsInit ==
    /\ sessions = [i \in Ids |-> NoSession] /\ digests = {}
    /\ listed = [p \in Principals |-> {}]
    /\ nextId = 1 /\ notices = {}

-----------------------------------------------------------------------------
\* eraseSession and cleanupUnlocked take a session out of all three indexes.
Without(gone) == [i \in Ids |-> IF i \in gone THEN NoSession ELSE sessions[i]]
Unlisted(gone) == [p \in Principals |-> listed[p] \ gone]

Erase(gone) ==
    /\ sessions' = Without(gone)
    /\ digests' = digests \ gone
    /\ listed' = Unlisted(gone)
    /\ UNCHANGED nextId

\* issue, after its cleanup: the sessions it would replace, ...
Peers(p, k) == {i \in listed[p] \ Expired : sessions[i].kind = k}
Replaced(p, d, k) == {i \in Peers(p, k) : sessions[i].device = d}
\* Mutation of HasRoom: the limit is tested too late.
HasRoomAbove(p, d, k) == Cardinality(Peers(p, k) \ Replaced(p, d, k)) <= Limits[k]
\* ... and whether it has room for one more.
HasRoom(p, d, k) ==
    /\ Cardinality(Peers(p, k) \ Replaced(p, d, k)) < Limits[k]
    /\ Cardinality(Live) + 1 <= MaximumSessions + Cardinality(Replaced(p, d, k))

Issue(p, d, k) ==
    LET replaced == Replaced(p, d, k)
        gone == Expired \cup replaced
        new == [of |-> p, device |-> d, kind |-> k, age |-> "Fresh", reauth |-> "Never"]
    IN /\ nextId <= MaxIds /\ HasRoom(p, d, k)
       /\ sessions' = [Without(gone) EXCEPT ![nextId] = new]
       /\ digests' = (digests \ gone) \cup {nextId}
       /\ listed' = [Unlisted(gone) EXCEPT ![p] = @ \cup {nextId}]
       /\ nextId' = nextId + 1
       /\ notices' = notices \cup replaced

\* issue returns nothing; what was expired is gone.
NotIssued(p, d, k) == ~HasRoom(p, d, k) /\ Erase(Expired) /\ UNCHANGED notices

Lapsed(i) == sessions[i].age # "Fresh"

\* authenticate: the session is seen, or erased without a word.
Seen(i) ==
    /\ i \in digests /\ ~Lapsed(i)
    /\ sessions' = [sessions EXCEPT ![i].age = "Fresh"]
    /\ UNCHANGED <<digests, listed, nextId, notices>>
NotSeen(i) == i \in digests /\ Lapsed(i) /\ Erase({i}) /\ UNCHANGED notices

Authenticates(i) == i \in digests /\ ~Lapsed(i)

\* revoke, revokeForPrincipal.
RevokeOne(p, i) ==
    /\ i \in Stored /\ sessions[i].of = p
    /\ Erase({i}) /\ notices' = notices \cup {i}

\* Mutation of RevokePrincipal: administrator sessions only.
RevokeAdministrator(p) ==
    LET gone == {i \in listed[p] : sessions[i].kind = "Administrator"} IN
    Erase(gone) /\ notices' = notices \cup gone

\* revokePrincipal drops the whole list, ...
RevokePrincipal(p) ==
    LET gone == listed[p] IN
    /\ sessions' = Without(gone) /\ digests' = digests \ gone
    /\ listed' = [listed EXCEPT ![p] = {}]
    /\ notices' = notices \cup gone
    /\ UNCHANGED nextId

\* ... and revokeOtherSessions writes it anew: the current session, when it is
\* still there.
RevokeOthers(p, current) ==
    LET gone == listed[p] \ {current} IN
    /\ sessions' = Without(gone) /\ digests' = digests \ gone
    /\ listed' = [listed EXCEPT ![p] =
                    IF @ = {} \/ current \notin Stored THEN {} ELSE {current}]
    /\ notices' = notices \cup gone
    /\ UNCHANGED nextId

CleanupSessions == Expired # {} /\ Erase(Expired) /\ UNCHANGED notices

\* markReauthenticated, and what hasRecentReauthentication sees of it for a
\* quarter of an hour.
MarkReauthenticated(i) ==
    /\ i \in Live
    /\ sessions' = [sessions EXCEPT ![i].reauth = "Recent"]
    /\ UNCHANGED <<digests, listed, nextId, notices>>
RecentlyReauthenticated(i) == sessions[i].reauth = "Recent"

\* Time passes: a dashboard is left alone, a session ends, a password grows old.
Older(i) ==
    /\ i \in Live
    /\ \/ /\ sessions[i].kind = "Dashboard" /\ sessions[i].age = "Fresh"
          /\ sessions' = [sessions EXCEPT ![i].age = "Idle"]
       \/ sessions' = [sessions EXCEPT ![i].age = "Expired"]
       \/ /\ sessions[i].reauth = "Recent"
          /\ sessions' = [sessions EXCEPT ![i].reauth = "Old"]
    /\ UNCHANGED <<digests, listed, nextId, notices>>
=============================================================================

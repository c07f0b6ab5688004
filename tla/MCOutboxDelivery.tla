-------------------------- MODULE MCOutboxDelivery --------------------------
(***************************************************************************)
(* Instances of OutboxDelivery.  c1 and c2 are two connections of one      *)
(* session, c3 belongs to another.  Each behaviour plays one scene: three  *)
(* handshakes that race for one place; two connections of one session,     *)
(* one or both of which fall silent, also while the checks of the session  *)
(* may throw; two peers and more frames than a window holds; rows without  *)
(* anybody listening; rows and one listener; for liveness, a connection    *)
(* that falls silent with a window of one frame.                           *)
(***************************************************************************)
EXTENDS OutboxDelivery

CONSTANTS a, b, c1, c2, c3

SecondIsHopeless == {2}
OneThenOther == [c \in Conns |-> IF c = c3 THEN b ELSE a]
ToAll == {Sessions}

OnePlace  == [maxPeers |-> 1, maxWindow |-> 2, unsure |-> {}]
TwoPlaces == [OnePlace EXCEPT !.maxPeers = 2]
Narrow    == [TwoPlaces EXCEPT !.maxWindow = 1]
Doubt     == [OnePlace EXCEPT !.unsure = {a}]
MCOptions == {OnePlace, TwoPlaces, Narrow, Doubt}

Scene(conns, quiet, revocable, frames, opts) ==
    [conns |-> conns, quiet |-> quiet, revocable |-> revocable, frames |-> frames,
     rows |-> 0, failures |-> 0, ends |-> 0, options |-> opts]
Outbox(conns, n, fail, end) ==
    [conns |-> conns, quiet |-> {}, revocable |-> {}, frames |-> 0,
     rows |-> n, failures |-> fail, ends |-> end, options |-> OnePlace]

Handshakes == Scene(Conns, {}, {a}, 0, OnePlace)
Silence    == Scene({c1, c2}, {c1}, {a}, 0, OnePlace)
LatePongs  == Scene({c1, c2}, {c1, c2}, {}, 0, OnePlace)
Doubted    == Scene({c1, c2}, {c1}, {a}, 0, Doubt)
Frames     == Scene({c1, c3}, {}, {a}, 3, TwoPlaces)
Unheard    == Outbox({}, 3, 3, 1)
Listened     == Outbox({c1}, 2, 1, 1)
Lonely     == Scene({c1}, {c1}, {a}, 2, Narrow)
FairScenes == {Lonely, Outbox({}, 2, 2, 1), Outbox({c1}, 1, 1, 1)}
MCScenes   == {Handshakes, Silence, LatePongs, Doubted, Frames, Unheard, Listened}
=============================================================================

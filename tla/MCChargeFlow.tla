---------------------------- MODULE MCChargeFlow ----------------------------
(***************************************************************************)
(* Instances of ChargeFlow for TLC.  Users, flows and the chargers of one  *)
(* pool are interchangeable in Next and in every property, so the safety   *)
(* runs use symmetry (that Init may single out a charger does not matter:  *)
(* a permuted state is reachable from the permuted Init, and the same      *)
(* steps follow it); the liveness runs do not.                             *)
(***************************************************************************)
EXTENDS ChargeFlow, TLC

CONSTANTS u1, u2, u3, s1, s2, t1, t2, c1, c2, c3, f1, f2, f3, f4

OnePool  == [c \in Chargers |-> <<s1, t1>>]
TwoTypes == [c \in Chargers |-> IF c = c1 THEN <<s1, t1>> ELSE <<s1, t2>>]

UsersAndFlows == Permutations(Users) \cup Permutations(Flows)
AllAlike      == UsersAndFlows \cup Permutations(Chargers)
=============================================================================

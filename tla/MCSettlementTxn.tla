-------------------------- MODULE MCSettlementTxn --------------------------
(***************************************************************************)
(* The settlement called by the route while a statement may fail.  The     *)
(* other callers are part of MCClients.                                    *)
(***************************************************************************)
EXTENDS SettlementTxn

ThrowingRoute == {[nested |-> TRUE, throws |-> TRUE]}
=============================================================================

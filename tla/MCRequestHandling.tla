------------------------- MODULE MCRequestHandling -------------------------
(***************************************************************************)
(* Instances of RequestHandling: two threads and a queue of one.  r1 is    *)
(* without a key and revokes a session; r2, r3 and r4 are calls, that      *)
(* share a key, or of which r4 asks for a permanent one, in a table of one *)
(* record, or of which r4 has another body; in some scenes one handler     *)
(* stalls past its lease.                                                  *)
(***************************************************************************)
EXTENDS RequestHandling

CONSTANTS w1, w2, r1, r2, r3, r4, e1, k1, k2

OnlyFirst == {r1}

OneKey  == [r \in Calls |-> [key |-> k1, body |-> IF r = r4 THEN 2 ELSE 1]]
TwoKeys == [r \in Calls |-> [key |-> IF r = r4 THEN k1 ELSE k2, body |-> 1]]
MCAsked == {OneKey, TwoKeys}

Faults(n) == [fail |-> n, crash |-> n, stall |-> 0]
Stall     == [fail |-> 0, crash |-> 1, stall |-> 1]
Pooled(sent, faults) ==
    [sent |-> sent, entries |-> {e1}, ends |-> TRUE, free |-> {}, asks |-> OneKey,
     faults |-> faults]
Free(asked, faults) ==
    [sent |-> {}, entries |-> {}, ends |-> FALSE, free |-> Calls, asks |-> asked,
     faults |-> faults]

MCScenes == {Pooled({r1, r2}, Faults(0)), Pooled({r2}, Faults(1)),
             Free(OneKey, Faults(1)), Free(TwoKeys, Faults(1)),
             Free(OneKey, Stall), Free(TwoKeys, Stall)}
FairScenes == {Pooled({r1}, Faults(0)), Pooled({r2}, [Faults(1) EXCEPT !.stall = 1])}
=============================================================================

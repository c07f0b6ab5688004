------------------------------- MODULE Pricing -------------------------------
(***************************************************************************)
(* What a charge costs (core/application/pricing.cpp): the price quoted    *)
(* for a kilowatt hour, the energy drawn in a time, and the amount for it. *)
(* Prices are cents, adjustments are basis points, energies milliwatt      *)
(* hours, times seconds.  The code divides toward zero, TLA+ downwards;    *)
(* the two agree on what is divided here, which is never negative.         *)
(*                                                                         *)
(* ChargeFlow charges any amount; ChargeOrderProofs says which amounts     *)
(* these are, and that a settlement costs no less than what the progress   *)
(* view showed before.                                                     *)
(***************************************************************************)
EXTENDS Integers

Smaller(a, b) == IF a <= b THEN a ELSE b
Larger(a, b)  == IF a <= b THEN b ELSE a
Clamped(x, low, high) == Larger(low, Smaller(high, x))

QueueAdjustment(waiting) == Smaller(5000, 1000 * Larger(0, waiting))
Adjustment(waiting, ml)  == Clamped(QueueAdjustment(waiting) + ml, -2000, 4000)
ServicePrice(base, waiting, ml) == (base * (10000 + Adjustment(waiting, ml)) + 5000) \div 10000
TotalPrice(electricity, base, waiting, ml) == electricity + ServicePrice(base, waiting, ml)

\* progress and settle: the simulated time since the start, the energy of that
\* time and the amount for it; the clock may have been set back.
Elapsed(start, now, scale) == Larger(0, (now - start) * scale)
Energy(power, seconds)     == (power * seconds * 10) \div 36
Amount(energy, price)      == (energy * price + 500000) \div 1000000
AmountAt(start, now, scale, power, price) ==
    Amount(Energy(power, Elapsed(start, now, scale)), price)
=============================================================================

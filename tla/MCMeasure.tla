----------------------------- MODULE MCMeasure -----------------------------
(* TLC instances of Measure.  With the one setting 0 switches the relay    *)
(* on, with the other off; 2 lies in the band of both.                     *)
EXTENDS Measure

MCValues   == {0, 2}
MCSettings == [threshold: {2}, hysteresis: {-1, 1}]
=============================================================================

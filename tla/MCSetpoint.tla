----------------------------- MODULE MCSetpoint -----------------------------
(* TLC instance of Setpoint.                                               *)
EXTENDS Setpoint, TLC

CONSTANTS h1, h2

MCHosts    == {h1, h2}
MCRequests == {3, 45, 254}
MCAsked    == {3, 45}
OutOfByte  == {-2}
OneCfg     == {[pwr |-> 70, adv |-> 0, latency |-> 255, cnt |-> 3, meas |-> 1]}
Symmetry   == Permutations(MCHosts)
=============================================================================

------------------------------ MODULE Battery -------------------------------
(***************************************************************************)
(* The running average of the battery voltage (check_battery of            *)
(* battery.c).  Up to Window - 1 samples are averaged as they are; from    *)
(* then on each new sample pushes out one average.                         *)
(***************************************************************************)
EXTENDS Integers

CONSTANTS
    Window,   (* 1 << BAT_AVERAGE_COUNT_SHL                                *)
    Samples   (* what the converter may measure, in mV                     *)

ASSUME BatteryAssumption ==
    /\ Window \in Nat /\ Window >= 2
    /\ Samples \subseteq Nat \ {0}

NoSamples == [mv |-> 0, summ |-> 0, count |-> 0, shown |-> 0]

(* Mutant: the sum keeps the sample that was pushed out.                   *)
AverageKeepsSum(b) ==
    LET s == b.summ + b.mv
        c == b.count + 1
        average == s \div c
    IN  [b EXCEPT !.summ = s, !.shown = average,
                  !.count = IF c >= Window THEN c - 1 ELSE c]

(* The sample mv goes into the average.  The count never exceeds Window,   *)
(* so that a shift by BAT_AVERAGE_COUNT_SHL divides by the count as well.  *)
Average(b) ==
    LET s == b.summ + b.mv
        c == b.count + 1
        average == s \div c
    IN  IF c >= Window
        THEN [b EXCEPT !.summ = s - average, !.count = c - 1, !.shown = average]
        ELSE [b EXCEPT !.summ = s, !.count = c, !.shown = average]

(* The sum stands for count samples between lo and hi, and what is shown   *)
(* lies between them too.                                                  *)
Between(b, lo, hi) ==
    /\ b.count * lo <= b.summ /\ b.summ <= b.count * hi
    /\ b.shown = 0 \/ b.shown \in lo .. hi
=============================================================================

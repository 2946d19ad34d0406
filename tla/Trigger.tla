------------------------------ MODULE Trigger -------------------------------
(***************************************************************************)
(* The relay's hysteresis (set_trigger_out of trigger.c), the same for     *)
(* temperature and for humidity.  A positive hysteresis switches on above  *)
(* threshold + hysteresis and off below threshold - hysteresis; a negative *)
(* one mirrors this; with 0 the relay is off.  The 16-bit numbers are      *)
(* compared as int, so nothing wraps.                                      *)
(***************************************************************************)
EXTENDS Integers

SwitchesOff(v, t) ==
    IF t.hysteresis < 0 THEN v > t.threshold - t.hysteresis
                        ELSE v < t.threshold - t.hysteresis

SwitchesOn(v, t) ==
    IF t.hysteresis < 0 THEN v < t.threshold + t.hysteresis
                        ELSE v > t.threshold + t.hysteresis

(* The flag after a measured value v, when it was isOn before.             *)
Switched(isOn, v, t) ==
    /\ t.hysteresis # 0
    /\ IF isOn THEN ~SwitchesOff(v, t) ELSE SwitchesOn(v, t)

(* What the flag means while the settings stand: on and off overlap in the *)
(* band of the hysteresis and nowhere else.                                *)
InBand(isOn, v, t) ==
    /\ t.hysteresis = 0 => ~isOn
    /\ t.hysteresis > 0 => IF isOn THEN v >= t.threshold - t.hysteresis
                                   ELSE v <= t.threshold + t.hysteresis
    /\ t.hysteresis < 0 => IF isOn THEN v <= t.threshold - t.hysteresis
                                   ELSE v >= t.threshold + t.hysteresis
=============================================================================

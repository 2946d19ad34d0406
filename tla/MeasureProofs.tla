--------------------------- MODULE MeasureProofs ---------------------------
(***************************************************************************)
(* Proofs about Measure, for any intervals, counts, settings and voltages. *)
(* The state falls into four parts that are invariant on their own: what   *)
(* counts the advertising events, the relay, the battery and the rest.     *)
(***************************************************************************)
EXTENDS Measure, TLAPS

(***************************************************************************)
(* The relay's hysteresis.                                                 *)
(***************************************************************************)

(* Whatever the flag was, even under other settings, after set_trigger_out *)
(* it lies in its band.                                                    *)
LEMMA SwitchedInBand ==
    ASSUME NEW isOn \in BOOLEAN, NEW v \in Int, NEW t \in [threshold: Int, hysteresis: Int]
    PROVE  InBand(Switched(isOn, v, t), v, t)
<1> DEFINE th == t.threshold
           hy == t.hysteresis
<1>1. th \in Int /\ hy \in Int
    OBVIOUS
<1> HIDE DEF th, hy
<1>2. CASE hy = 0
    BY <1>1, <1>2 DEF InBand, Switched, SwitchesOn, SwitchesOff, th, hy
<1>3. CASE hy > 0
    BY <1>1, <1>3 DEF InBand, Switched, SwitchesOn, SwitchesOff, th, hy
<1>4. CASE hy < 0
    BY <1>1, <1>4 DEF InBand, Switched, SwitchesOn, SwitchesOff, th, hy
<1> QED BY <1>1, <1>2, <1>3, <1>4

(* Within the band the relay stays as it is: set_trigger_out does not let  *)
(* it chatter on values near the threshold.                                *)
THEOREM NoChatter ==
    ASSUME NEW isOn \in BOOLEAN, NEW v \in Int,
           NEW t \in [threshold: Int, hysteresis: Int],
           t.hysteresis # 0,
           \/ t.threshold - t.hysteresis <= v /\ v <= t.threshold + t.hysteresis
           \/ t.threshold + t.hysteresis <= v /\ v <= t.threshold - t.hysteresis
    PROVE  Switched(isOn, v, t) = isOn
<1> DEFINE th == t.threshold
           hy == t.hysteresis
<1>1. th \in Int /\ hy \in Int /\ hy # 0
    OBVIOUS
<1>2. \/ th - hy <= v /\ v <= th + hy
      \/ th + hy <= v /\ v <= th - hy
    OBVIOUS
<1> HIDE DEF th, hy
<1>3. SwitchesOff(v, t) = FALSE /\ SwitchesOn(v, t) = FALSE
    BY <1>1, <1>2 DEF SwitchesOn, SwitchesOff, th, hy
<1> QED BY <1>1, <1>3 DEF Switched, hy

(***************************************************************************)
(* The counting of the advertising events.                                 *)
(***************************************************************************)

(* A burst has its count, and ends before the count of the events can      *)
(* leave its range; outside of a burst the events are counted up to        *)
(* measure_interval and no further.                                        *)
Counting ==
    /\ advEvent => reload >= 1
    /\ link = "adv" /\ advEvent => measCount + reload <= Top
    /\ link = "adv" /\ ~advEvent => measCount <= MeasureInterval

AdvOK ==
    /\ link \in {"adv", "restart", "conn", "asleep"}
    /\ interval \in {"user", "key", "event"}
    /\ measCount \in 0 .. Top
    /\ reload \in 0 .. Greatest(EventCnt, KeyCnt)
    /\ sensor \in {"idle", "converting"}

AdvInv == AdvOK /\ advEvent \in BOOLEAN /\ Counting /\ FreshReading

LEMMA Bounds ==
    /\ Top \in Nat /\ MeasureInterval <= Top /\ Greatest(EventCnt, KeyCnt) <= Top
    /\ Greatest(EventCnt, KeyCnt) \in Nat
    /\ EventCnt <= Greatest(EventCnt, KeyCnt) /\ KeyCnt <= Greatest(EventCnt, KeyCnt)
    /\ EventCnt \in Nat \ {0} /\ KeyCnt \in Nat \ {0}
    /\ MeasureInterval \in Nat /\ MeasureInterval >= 2
<1>1. /\ EventCnt \in Nat \ {0} /\ KeyCnt \in Nat \ {0}
      /\ MeasureInterval \in Nat /\ MeasureInterval >= 2
    BY MeasureAssumption
<1> QED BY <1>1 DEF Top, Greatest

LEMMA AdvInit == Init => AdvInv
<1> SUFFICES ASSUME Init PROVE AdvInv
    OBVIOUS
<1>1. AdvOK
    BY Bounds DEF Init, AdvOK
<1>2. ~advEvent /\ advEvent \in BOOLEAN
    BY DEF Init
<1>3. Counting /\ FreshReading
    BY <1>2, Bounds DEF Init, Counting, FreshReading
<1> QED BY <1>1, <1>2, <1>3 DEF AdvInv

(* The handlers and calls that touch the counting, one after the other.    *)
LEMMA AdvStep == AdvInv /\ [Next]_vars => AdvInv'
<1> USE Bounds DEF AdvInv, AdvOK
<1> DEFINE g == Greatest(EventCnt, KeyCnt)
<1> SUFFICES ASSUME AdvInv, [Next]_vars PROVE AdvInv'
    OBVIOUS
<1> USE DEF Counting, FreshReading, AdvEnabled
<1>1. CASE AdvRepeat
    <2> USE <1>1 DEF AdvRepeat, SetNewAdvInterval, senseVars
    <2>1. AdvOK'
        OBVIOUS
    <2>2. advEvent' => reload' >= 1
        OBVIOUS
    <2>3. link' = "adv" /\ advEvent' => measCount' + reload' <= Top
        OBVIOUS
    <2>4. link' = "adv" /\ ~advEvent' => measCount' <= MeasureInterval
        OBVIOUS
    <2>5. FreshReading'
        OBVIOUS
    <2>6. advEvent' \in BOOLEAN
        OBVIOUS
    <2> QED BY <2>1, <2>2, <2>3, <2>4, <2>5, <2>6
<1>2. CASE AdvCount
    <2> USE <1>2 DEF AdvCount, Measures, CountDown, SetNewAdvInterval, senseVars
    <2>1. AdvOK'
        OBVIOUS
    <2>2. advEvent' => reload' >= 1
        OBVIOUS
    <2>3. link' = "adv" /\ advEvent' => measCount' + reload' <= Top
        OBVIOUS
    <2>4. link' = "adv" /\ ~advEvent' => measCount' <= MeasureInterval
        OBVIOUS
    <2>5. FreshReading'
        OBVIOUS
    <2>6. advEvent' \in BOOLEAN
        OBVIOUS
    <2> QED BY <2>1, <2>2, <2>3, <2>4, <2>5, <2>6
<1>3. CASE AdvStart
    <2> USE <1>3 DEF AdvStart, Measures, CountDown, SetNewAdvInterval
    <2>1. AdvOK'
        OBVIOUS
    <2>2. advEvent' => reload' >= 1
        OBVIOUS
    <2>3. link' = "adv" /\ advEvent' => measCount' + reload' <= Top
        OBVIOUS
    <2>4. link' = "adv" /\ ~advEvent' => measCount' <= MeasureInterval
        OBVIOUS
    <2>5. FreshReading'
        OBVIOUS
    <2>6. advEvent' \in BOOLEAN
        OBVIOUS
    <2> QED BY <2>1, <2>2, <2>3, <2>4, <2>5, <2>6
<1>4. CASE AdvRead
    <2> USE <1>4 DEF AdvRead, Measures, CountDown, SetNewAdvInterval
    <2>1. AdvOK'
        OBVIOUS
    <2>2. advEvent' => reload' >= 1
        OBVIOUS
    <2>3. link' = "adv" /\ advEvent' => measCount' + reload' <= Top
        OBVIOUS
    <2>4. link' = "adv" /\ ~advEvent' => measCount' <= MeasureInterval
        OBVIOUS
    <2>5. FreshReading'
        OBVIOUS
    <2>6. advEvent' \in BOOLEAN
        OBVIOUS
    <2> QED BY <2>1, <2>2, <2>3, <2>4, <2>5, <2>6
<1>5. CASE AdvBurst
    <2> USE <1>5 DEF AdvBurst, CountDown, SetNewAdvInterval, senseVars
    <2>1. AdvOK'
        <3>1. measCount' \in 0 .. Top
            OBVIOUS
        <3>2. reload' \in 0 .. Greatest(EventCnt, KeyCnt)
            OBVIOUS
        <3>3. /\ link' \in {"adv", "restart"} /\ sensor' = sensor
              /\ interval' \in {"user", "key", "event"}
            OBVIOUS
        <3> QED BY <3>1, <3>2, <3>3
    <2>2. advEvent' => reload' >= 1
        OBVIOUS
    <2>3. link' = "adv" /\ advEvent' => measCount' + reload' <= Top
        OBVIOUS
    <2>4. link' = "adv" /\ ~advEvent' => measCount' <= MeasureInterval
        OBVIOUS
    <2>5. FreshReading'
        OBVIOUS
    <2>6. advEvent' \in BOOLEAN
        OBVIOUS
    <2> QED BY <2>1, <2>2, <2>3, <2>4, <2>5, <2>6
<1>6. CASE TimerEvent
    <2> USE <1>6 DEF TimerEvent, advVars
    <2>1. AdvOK'
        OBVIOUS
    <2>2. advEvent' => reload' >= 1
        OBVIOUS
    <2>3. link' = "adv" /\ advEvent' => measCount' + reload' <= Top
        OBVIOUS
    <2>4. link' = "adv" /\ ~advEvent' => measCount' <= MeasureInterval
        OBVIOUS
    <2>5. FreshReading'
        OBVIOUS
    <2>6. advEvent' \in BOOLEAN
        OBVIOUS
    <2> QED BY <2>1, <2>2, <2>3, <2>4, <2>5, <2>6
<1>7. CASE PinInput
    <2> USE <1>7 DEF PinInput, SetNewAdvInterval
    <2>1. AdvOK'
        OBVIOUS
    <2>2. advEvent' => reload' >= 1
        <3>1. CASE reload' = EventCnt
            BY <3>1
        <3>2. CASE UNCHANGED <<advEvent, reload>>
            BY <3>2
        <3> QED BY <3>1, <3>2
    <2>3. link' = "adv" /\ advEvent' => measCount' + reload' <= Top
        OBVIOUS
    <2>4. link' = "adv" /\ ~advEvent' => measCount' <= MeasureInterval
        OBVIOUS
    <2>5. FreshReading'
        OBVIOUS
    <2>6. advEvent' \in BOOLEAN
        OBVIOUS
    <2> QED BY <2>1, <2>2, <2>3, <2>4, <2>5, <2>6
<1>8. CASE KeyReleased
    <2> USE <1>8 DEF KeyReleased, SetNewAdvInterval, senseVars
    <2>1. AdvOK'
        OBVIOUS
    <2>2. advEvent' => reload' >= 1
        OBVIOUS
    <2>3. link' = "adv" /\ advEvent' => measCount' + reload' <= Top
        OBVIOUS
    <2>4. link' = "adv" /\ ~advEvent' => measCount' <= MeasureInterval
        OBVIOUS
    <2>5. FreshReading'
        OBVIOUS
    <2>6. advEvent' \in BOOLEAN
        OBVIOUS
    <2> QED BY <2>1, <2>2, <2>3, <2>4, <2>5, <2>6
<1>9. CASE Judge
    <2> USE <1>9 DEF Judge, Restless, contactVars, senseVars
    <2>1. AdvOK'
        OBVIOUS
    <2>2. advEvent' => reload' >= 1
        OBVIOUS
    <2>3. link' = "adv" /\ advEvent' => measCount' + reload' <= Top
        OBVIOUS
    <2>4. link' = "adv" /\ ~advEvent' => measCount' <= MeasureInterval
        OBVIOUS
    <2>5. FreshReading'
        OBVIOUS
    <2>6. advEvent' \in BOOLEAN
        OBVIOUS
    <2> QED BY <2>1, <2>2, <2>3, <2>4, <2>5, <2>6
<1>10. CASE Advertising
    <2> USE <1>10 DEF Advertising, senseVars
    <2>1. AdvOK'
        OBVIOUS
    <2>2. advEvent' => reload' >= 1
        OBVIOUS
    <2>3. link' = "adv" /\ advEvent' => measCount' + reload' <= Top
        OBVIOUS
    <2>4. link' = "adv" /\ ~advEvent' => measCount' <= MeasureInterval
        OBVIOUS
    <2>5. FreshReading'
        OBVIOUS
    <2>6. advEvent' \in BOOLEAN
        OBVIOUS
    <2> QED BY <2>1, <2>2, <2>3, <2>4, <2>5, <2>6
<1>11. CASE Connected
    <2> USE <1>11 DEF Connected, senseVars
    <2>1. AdvOK'
        OBVIOUS
    <2>2. advEvent' => reload' >= 1
        OBVIOUS
    <2>3. link' = "adv" /\ advEvent' => measCount' + reload' <= Top
        OBVIOUS
    <2>4. link' = "adv" /\ ~advEvent' => measCount' <= MeasureInterval
        OBVIOUS
    <2>5. FreshReading'
        OBVIOUS
    <2>6. advEvent' \in BOOLEAN
        OBVIOUS
    <2> QED BY <2>1, <2>2, <2>3, <2>4, <2>5, <2>6
<1>12. CASE Disconnected
    <2> USE <1>12 DEF Disconnected, senseVars
    <2>1. AdvOK'
        OBVIOUS
    <2>2. advEvent' => reload' >= 1
        OBVIOUS
    <2>3. link' = "adv" /\ advEvent' => measCount' + reload' <= Top
        OBVIOUS
    <2>4. link' = "adv" /\ ~advEvent' => measCount' <= MeasureInterval
        OBVIOUS
    <2>5. FreshReading'
        OBVIOUS
    <2>6. advEvent' \in BOOLEAN
        OBVIOUS
    <2> QED BY <2>1, <2>2, <2>3, <2>4, <2>5, <2>6
<1>13. CASE WakeUp
    <2> USE <1>13 DEF WakeUp
    <2>1. AdvOK'
        OBVIOUS
    <2>2. advEvent' => reload' >= 1
        OBVIOUS
    <2>3. link' = "adv" /\ advEvent' => measCount' + reload' <= Top
        OBVIOUS
    <2>4. link' = "adv" /\ ~advEvent' => measCount' <= MeasureInterval
        OBVIOUS
    <2>5. FreshReading'
        OBVIOUS
    <2>6. advEvent' \in BOOLEAN
        OBVIOUS
    <2> QED BY <2>1, <2>2, <2>3, <2>4, <2>5, <2>6
<1>14. CASE UNCHANGED advVars /\ UNCHANGED sensor
    BY <1>14 DEF advVars
<1>15. AdvIgnored \/ BattValue \/ Add \/ Clear \/ AdcDone \/ AdvEvent \/ TimerExpires
          \/ KeyEdge \/ Contact \/ CmdTrg \/ VbatDrops \/ UNCHANGED vars
          => UNCHANGED advVars /\ UNCHANGED sensor
    BY DEF AdvIgnored, BattValue, Add, Clear, Restless, AdcDone, AdvEvent, TimerExpires,
           KeyEdge, Contact, CmdTrg, VbatDrops, Event, vars, advVars, senseVars
<1> QED BY <1>1, <1>2, <1>3, <1>4, <1>5, <1>6, <1>7, <1>8, <1>9, <1>10, <1>11, <1>12,
           <1>13, <1>14, <1>15 DEF Next, App

(* FreshReading: what adv_measure reads was started after the last reading.*)
THEOREM ReadsFresh == Spec => []FreshReading
<1>1. AdvInv => FreshReading
    BY DEF AdvInv
<1> QED BY AdvInit, AdvStep, <1>1, PTL DEF Spec

(***************************************************************************)
(* The relay.                                                              *)
(***************************************************************************)

RelayOK ==
    /\ value \in [Quantities -> Int] /\ on \in [Quantities -> BOOLEAN]
    /\ trg \in [Quantities -> [threshold: Int, hysteresis: Int]]

RelayInv == RelayOK /\ settled \in BOOLEAN /\ RelayInBand

LEMMA RelayInit == Init => RelayInv
<1> SUFFICES ASSUME Init PROVE RelayInv
    OBVIOUS
<1>1. RelayOK
    BY MeasureAssumption DEF Init, RelayOK, Zero, Off
<1>2. settled = FALSE
    BY DEF Init
<1> QED BY <1>1, <1>2 DEF RelayInv, RelayInBand

(* A reading leaves the relay within its band.                             *)
LEMMA ReadingInBand ==
    RelayOK /\ ReadSensors /\ UNCHANGED trg => RelayInv'
<1> SUFFICES ASSUME RelayOK, ReadSensors, UNCHANGED trg PROVE RelayInv'
    OBVIOUS
<1>1. value' \in [Quantities -> Int]
    <2>1. PICK v \in [Quantities -> Values] : value' \in {v, value}
        BY DEF ReadSensors
    <2> QED BY <2>1, MeasureAssumption DEF RelayOK
<1>2. on' = [q \in Quantities |-> Switched(on[q], value'[q], trg[q])]
    BY DEF ReadSensors
<1>3. on' \in [Quantities -> BOOLEAN]
    <2>1. \A q \in Quantities : Switched(on[q], value'[q], trg[q]) \in BOOLEAN
        BY DEF Switched
    <2> QED BY <1>2, <2>1
<1>4. ASSUME NEW q \in Quantities
      PROVE  InBand(on'[q], value'[q], trg'[q])
    <2>1. /\ on[q] \in BOOLEAN /\ value'[q] \in Int
          /\ trg[q] \in [threshold: Int, hysteresis: Int]
        BY <1>1 DEF RelayOK
    <2>2. InBand(Switched(on[q], value'[q], trg[q]), value'[q], trg[q])
        BY <2>1, SwitchedInBand
    <2>3. on'[q] = Switched(on[q], value'[q], trg[q]) /\ trg'[q] = trg[q]
        BY <1>2
    <2> QED BY <2>2, <2>3
<1>5. settled' = TRUE
    BY DEF ReadSensors
<1>6. RelayOK'
    BY <1>1, <1>3 DEF RelayOK
<1> QED BY <1>4, <1>5, <1>6 DEF RelayInv, RelayInBand

LEMMA RelayStep == RelayInv /\ [Next]_vars => RelayInv'
<1> SUFFICES ASSUME RelayInv, [Next]_vars PROVE RelayInv'
    OBVIOUS
<1>1. CASE AdvRead
    BY <1>1, ReadingInBand DEF AdvRead, Measures, RelayInv
<1>2. CASE TimerEvent
    BY <1>2, ReadingInBand DEF TimerEvent, RelayInv
<1>3. CASE CmdTrg
    <2>1. settled' = FALSE /\ UNCHANGED <<value, on>>
        BY <1>3 DEF CmdTrg
    <2>2. trg' \in [Quantities -> [threshold: Int, hysteresis: Int]]
        BY <1>3, MeasureAssumption DEF CmdTrg
    <2> QED BY <2>1, <2>2 DEF RelayInv, RelayOK, RelayInBand
<1>4. CASE WakeUp
    <2>1. settled' = FALSE /\ value' = Zero /\ on' = Off /\ UNCHANGED trg
        BY <1>4 DEF WakeUp
    <2>2. Zero \in [Quantities -> Int] /\ Off \in [Quantities -> BOOLEAN]
        BY DEF Zero, Off
    <2> QED BY <2>1, <2>2 DEF RelayInv, RelayOK, RelayInBand
<1>5. CASE UNCHANGED <<value, on, trg, settled>>
    BY <1>5 DEF RelayInv, RelayOK, RelayInBand
<1>6. \/ AdvIgnored \/ AdvRepeat \/ AdvCount \/ AdvStart \/ AdvBurst \/ BattValue
      \/ PinInput \/ KeyReleased \/ Judge \/ Add \/ Clear \/ AdcDone \/ Advertising
      \/ Connected \/ Disconnected \/ AdvEvent \/ TimerExpires \/ KeyEdge \/ Contact
      \/ VbatDrops \/ UNCHANGED vars
      => UNCHANGED <<value, on, trg, settled>>
    BY DEF AdvIgnored, AdvRepeat, AdvCount, AdvStart, Measures, AdvBurst, BattValue,
           PinInput, KeyReleased, Judge, Add, Clear, Restless, AdcDone, Advertising,
           Connected, Disconnected, AdvEvent, TimerExpires, KeyEdge, Contact, VbatDrops,
           Event, vars, senseVars
<1> QED BY <1>1, <1>2, <1>3, <1>4, <1>5, <1>6 DEF Next, App

(* RelayInBand: the relay is on and off where its settings say, with any   *)
(* threshold, hysteresis and sequence of values, whatever was set before.  *)
THEOREM RelayStaysInBand == Spec => []RelayInBand
<1>1. RelayInv => RelayInBand
    BY DEF RelayInv
<1> QED BY RelayInit, RelayStep, <1>1, PTL DEF Spec

(***************************************************************************)
(* The average of the battery.                                             *)
(***************************************************************************)

(* What div computes.                                                      *)
LEMMA Division ==
    ASSUME NEW s \in Nat, NEW c \in Nat \ {0}
    PROVE  /\ s \div c \in Nat
           /\ (s \div c) * c <= s /\ s < (s \div c) * c + c
    OBVIOUS

LEMMA Monotone ==
    ASSUME NEW a \in Nat, NEW b \in Nat, NEW c \in Nat, a <= b
    PROVE  a * c <= b * c
    OBVIOUS

(* A sum of c samples between lo and hi has its quotient between them, and *)
(* without the quotient it is a sum of c - 1 samples between them.         *)
LEMMA QuotientBetween ==
    ASSUME NEW s \in Nat, NEW c \in Nat \ {0}, NEW lo \in Nat, NEW hi \in Nat,
           c * lo <= s, s <= c * hi
    PROVE  /\ s \div c \in lo .. hi
           /\ s - (s \div c) \in Nat
           /\ (c - 1) * lo <= s - (s \div c) /\ s - (s \div c) <= (c - 1) * hi
<1> DEFINE q == s \div c
<1>1. q \in Nat /\ q * c <= s /\ s < q * c + c
    BY Division
<1> HIDE DEF q
<1>2. lo <= q
    <2>1. ASSUME q + 1 <= lo PROVE FALSE
        <3>1. (q + 1) * c <= lo * c
            BY <1>1, <2>1, Monotone
        <3>2. (q + 1) * c = q * c + c /\ lo * c = c * lo
            BY <1>1
        <3> QED BY <1>1, <3>1, <3>2
    <2> QED BY <1>1, <2>1
<1>3. q <= hi
    <2>1. ASSUME hi + 1 <= q PROVE FALSE
        <3>1. (hi + 1) * c <= q * c
            BY <1>1, <2>1, Monotone
        <3>2. (hi + 1) * c = c * hi + c
            OBVIOUS
        <3> QED BY <1>1, <3>1, <3>2
    <2> QED BY <1>1, <2>1
<1>4. q * c = (c - 1) * q + q
    BY <1>1
<1>5. lo * (c - 1) <= q * (c - 1)
    BY <1>1, <1>2, Monotone
<1>6. q * (c - 1) = (c - 1) * q /\ lo * (c - 1) = (c - 1) * lo
    BY <1>1
<1>7. (c - 1) * lo <= s - q
    BY <1>1, <1>4, <1>5, <1>6
<1>8. s - q <= (c - 1) * hi
    <2>1. CASE q = hi
        <3>1. c * hi = (c - 1) * hi + hi
            OBVIOUS
        <3> QED BY <1>1, <2>1, <3>1
    <2>2. CASE q + 1 <= hi
        <3>1. (q + 1) * (c - 1) <= hi * (c - 1)
            BY <1>1, <2>2, Monotone
        <3>2. (q + 1) * (c - 1) = (c - 1) * q + (c - 1) /\ hi * (c - 1) = (c - 1) * hi
            BY <1>1
        <3> QED BY <1>1, <1>4, <3>1, <3>2
    <2> QED BY <1>1, <1>3, <2>1, <2>2
<1>9. s - q \in Nat
    <2>1. (c - 1) * lo \in Nat
        OBVIOUS
    <2> QED BY <1>1, <1>7, <2>1
<1> QED BY <1>1, <1>2, <1>3, <1>7, <1>8, <1>9 DEF q

BattType ==
    batt \in [mv: Samples \union {0}, summ: Nat, count: 0 .. Window - 1, shown: Nat]

(* Only a sample is added.                                                 *)
AddsSample == check = "add" => batt.mv \in Samples

BattInv ==
    /\ BattType /\ AddsSample /\ AverageInRange
    /\ vbat \in Samples /\ check \in {"none", "judge", "add", "clear"}

LEMMA BatteryInit == Init => BattInv
<1> SUFFICES ASSUME Init PROVE BattInv
    OBVIOUS
<1>1. batt = NoSamples /\ check = "none" /\ vbat \in Samples
    BY DEF Init
<1>2. BattType
    BY <1>1, BatteryAssumption DEF BattType, NoSamples
<1>3. \A lo, hi \in Samples : Between(NoSamples, lo, hi)
    BY BatteryAssumption DEF Between, NoSamples
<1> QED BY <1>1, <1>2, <1>3 DEF BattInv, AddsSample, AverageInRange

(* A sample that is averaged leaves the average between the samples.       *)
LEMMA AddKeepsAverage ==
    ASSUME BattType, AverageInRange, batt.mv \in Samples
    PROVE  /\ Average(batt) \in
                [mv: Samples \union {0}, summ: Nat, count: 0 .. Window - 1, shown: Nat]
           /\ \A lo, hi \in Samples : (\A v \in Samples : lo <= v /\ v <= hi) =>
                Between(Average(batt), lo, hi)
<1> DEFINE s == batt.summ + batt.mv
           c == batt.count + 1
           q == s \div c
<1>1. /\ batt.mv \in Nat \ {0} /\ batt.summ \in Nat /\ batt.count \in 0 .. Window - 1
      /\ Window \in Nat /\ Window >= 2
    BY BatteryAssumption DEF BattType
<1>2. s \in Nat /\ c \in Nat \ {0} /\ c <= Window
    BY <1>1
<1>3. q \in Nat /\ q <= s
    <2> HIDE DEF s, c
    <2>1. q \in Nat /\ q * c <= s
        BY <1>2, Division
    <2>2. q * 1 <= q * c
        <3> HIDE DEF q
        <3>1. 1 * q <= c * q
            BY <1>2, <2>1, Monotone
        <3> QED BY <1>2, <2>1, <3>1
    <2> HIDE DEF q
    <2> QED BY <1>2, <2>1, <2>2
<1>4. Average(batt) = IF c >= Window
                      THEN [batt EXCEPT !.summ = s - q, !.count = c - 1, !.shown = q]
                      ELSE [batt EXCEPT !.summ = s, !.count = c, !.shown = q]
    BY DEF Average
<1> HIDE DEF q, s
<1>5. s - q \in Nat
    BY <1>2, <1>3
<1>6. Average(batt) \in
        [mv: Samples \union {0}, summ: Nat, count: 0 .. Window - 1, shown: Nat]
    <2>1. CASE c >= Window
        <3>1. c - 1 \in 0 .. Window - 1
            BY <1>1
        <3> HIDE DEF c
        <3> QED BY <1>3, <1>4, <1>5, <2>1, <3>1 DEF BattType
    <2>2. CASE ~(c >= Window)
        <3>1. c \in 0 .. Window - 1
            BY <1>1, <2>2
        <3> HIDE DEF c
        <3> QED BY <1>2, <1>3, <1>4, <2>2, <3>1 DEF BattType
    <2> QED BY <2>1, <2>2
<1>7. ASSUME NEW lo \in Samples, NEW hi \in Samples,
             \A v \in Samples : lo <= v /\ v <= hi
      PROVE  Between(Average(batt), lo, hi)
    <2>1. lo \in Nat /\ hi \in Nat /\ lo <= batt.mv /\ batt.mv <= hi
        BY <1>7, BatteryAssumption
    <2>2. batt.count * lo <= batt.summ /\ batt.summ <= batt.count * hi
        BY <1>7 DEF AverageInRange, Between
    <2>3. c * lo <= s /\ s <= c * hi
        <3>1. c * lo = batt.count * lo + lo /\ c * hi = batt.count * hi + hi
            BY <1>1, <2>1
        <3> QED BY <1>1, <2>1, <2>2, <3>1 DEF s
    <2>4. /\ q \in lo .. hi
          /\ (c - 1) * lo <= s - q /\ s - q <= (c - 1) * hi
        <3> HIDE DEF c
        <3> QED BY <1>2, <2>1, <2>3, QuotientBetween DEF q
    <2>5. CASE c >= Window
        <3>1. /\ Average(batt).count = c - 1 /\ Average(batt).summ = s - q
              /\ Average(batt).shown = q
            BY <1>4, <2>5 DEF BattType
        <3> QED BY <2>4, <3>1 DEF Between
    <2>6. CASE ~(c >= Window)
        <3>1. /\ Average(batt).count = c /\ Average(batt).summ = s
              /\ Average(batt).shown = q
            BY <1>4, <2>6 DEF BattType
        <3> QED BY <2>3, <2>4, <3>1 DEF Between
    <2> QED BY <2>5, <2>6
<1> QED BY <1>6, <1>7

(* Storing or clearing a sample does not touch the average.                *)
LEMMA SampleKeepsAverage ==
    ASSUME BattType, AverageInRange, NEW m \in Samples \union {0},
           batt' = [batt EXCEPT !.mv = m]
    PROVE  BattType' /\ AverageInRange' /\ batt'.mv = m
<1>1. batt'.summ = batt.summ /\ batt'.count = batt.count /\ batt'.shown = batt.shown
    BY DEF BattType
<1>2. BattType' /\ batt'.mv = m
    BY DEF BattType
<1>3. \A lo, hi \in Samples : Between(batt', lo, hi) = Between(batt, lo, hi)
    BY <1>1 DEF Between
<1> QED BY <1>2, <1>3 DEF AverageInRange

LEMMA BatteryStep == BattInv /\ [Next]_vars => BattInv'
<1> SUFFICES ASSUME BattInv, [Next]_vars PROVE BattInv'
    OBVIOUS
<1> DEFINE checks == {"none", "judge", "add", "clear"}
<1>1. CASE Judge
    <2>1. UNCHANGED <<batt, vbat>> /\ check' \in {"none", "add"}
        BY <1>1 DEF Judge, Restless
    <2>2. check' = "add" => batt.mv # 0
        BY <1>1 DEF Judge
    <2> QED BY <2>1, <2>2 DEF BattInv, BattType, AddsSample, AverageInRange
<1>2. CASE Add
    <2>1. batt.mv \in Samples /\ batt' = Average(batt) /\ check' = "clear"
          /\ UNCHANGED vbat
        BY <1>2 DEF Add, BattInv, AddsSample, Restless
    <2> QED BY <2>1, AddKeepsAverage DEF BattInv, BattType, AddsSample, AverageInRange
<1>3. CASE Clear
    <2>1. batt' = [batt EXCEPT !.mv = 0] /\ check' = "none" /\ UNCHANGED vbat
        BY <1>3 DEF Clear, Restless
    <2> QED BY <2>1, SampleKeepsAverage DEF BattInv, AddsSample
<1>4. CASE AdcDone
    <2>1. batt' = [batt EXCEPT !.mv = vbat] /\ UNCHANGED <<check, vbat>>
        BY <1>4 DEF AdcDone
    <2> QED BY <2>1, SampleKeepsAverage DEF BattInv, AddsSample
<1>5. CASE WakeUp
    <2>1. batt' = NoSamples /\ check' = "none" /\ vbat' \in Samples
        BY <1>5 DEF WakeUp
    <2>2. BattType'
        BY <2>1, BatteryAssumption DEF BattType, NoSamples
    <2>3. \A lo, hi \in Samples : Between(NoSamples, lo, hi)
        BY BatteryAssumption DEF Between, NoSamples
    <2> QED BY <2>1, <2>2, <2>3 DEF BattInv, AddsSample, AverageInRange
<1>6. CASE UNCHANGED batt /\ vbat' \in Samples
           /\ (UNCHANGED check \/ check' \in {"none", "judge"})
    BY <1>6 DEF BattInv, BattType, AddsSample, AverageInRange
<1>7. CASE VbatDrops
    BY <1>6, <1>7 DEF VbatDrops, battVars
<1>8. CASE AdvRead \/ AdvBurst \/ BattValue
    BY <1>6, <1>8 DEF AdvRead, Measures, AdvBurst, CheckNewBattery, BattValue, converter,
                      BattInv
<1>9. \/ AdvIgnored \/ AdvRepeat \/ AdvCount \/ AdvStart \/ TimerEvent \/ PinInput
      \/ KeyReleased \/ Advertising \/ Connected \/ Disconnected \/ AdvEvent
      \/ TimerExpires \/ KeyEdge \/ Contact \/ CmdTrg \/ UNCHANGED vars
      => UNCHANGED <<batt, vbat, check>>
    BY DEF AdvIgnored, AdvRepeat, AdvCount, AdvStart, Measures, TimerEvent, PinInput,
           KeyReleased, Advertising, Connected, Disconnected, AdvEvent, TimerExpires,
           KeyEdge, Contact, CmdTrg, Event, vars, converter, battVars
<1>10. CASE UNCHANGED <<batt, vbat, check>>
    BY <1>10 DEF BattInv, BattType, AddsSample, AverageInRange
<1> QED BY <1>1, <1>2, <1>3, <1>4, <1>5, <1>7, <1>8, <1>9, <1>10 DEF Next, App

(* AverageInRange: the voltage shown and recorded is an average of samples *)
(* that were measured, for any window and any interrupts.                  *)
THEOREM AverageStaysInRange == Spec => []AverageInRange
<1>1. BattInv => AverageInRange
    BY DEF BattInv
<1> QED BY BatteryInit, BatteryStep, <1>1, PTL DEF Spec

(***************************************************************************)
(* The rest of the state, and the types of all of it.                      *)
(***************************************************************************)

RestOK ==
    /\ {pin, pinInput} \subseteq 0 .. 1
    /\ rdsAge \in 0 .. RdsStep /\ battAge \in 0 .. BattStep
    /\ rdsCount \in Nat /\ opens \in Nat
    /\ events \subseteq {"adv", "timer", "batt", "pin", "key"}
    /\ inputs \in 0 .. MaxInputs

FlagsOK == {adc, newBattery} \subseteq BOOLEAN

LEMMA RestInit == Init => RestOK /\ FlagsOK
<1> SUFFICES ASSUME Init PROVE RestOK /\ FlagsOK
    OBVIOUS
<1>1. RestOK
    BY MeasureAssumption DEF Init, RestOK
<1>2. FlagsOK
    BY DEF Init, FlagsOK
<1> QED BY <1>1, <1>2

LEMMA AgedInRange ==
    ASSUME NEW limit \in Nat, NEW age \in 0 .. limit
    PROVE  Aged(age, limit) \in 0 .. limit /\ AgedHere(age, limit) \in 0 .. limit
    BY DEF Aged, AgedHere

LEMMA RestStep == RestOK /\ [Next]_vars => RestOK'
<1> SUFFICES ASSUME RestOK, [Next]_vars PROVE RestOK'
    OBVIOUS
<1>a. /\ RdsStep \in Nat /\ BattStep \in Nat /\ MaxInputs \in Nat
      /\ RdsStart \in 0 .. RdsStep /\ RdsDouble \in 0 .. RdsStep
    BY MeasureAssumption
<1>b. /\ Aged(rdsAge, RdsStep) \in 0 .. RdsStep
      /\ AgedHere(rdsAge, RdsStep) \in 0 .. RdsStep
      /\ Aged(battAge, BattStep) \in 0 .. BattStep
      /\ AgedHere(battAge, BattStep) \in 0 .. BattStep
    BY <1>a, AgedInRange DEF RestOK
<1> USE <1>a, <1>b DEF RestOK
<1>1. CASE AdvIgnored
    BY <1>1 DEF AdvIgnored, Handles, contactVars, senseVars, battVars
<1>2. CASE AdvRepeat
    BY <1>2 DEF AdvRepeat, Handles, senseVars
<1>3. CASE AdvCount
    BY <1>3 DEF AdvCount, Measures, BattStart, Handles, senseVars
<1>4. CASE AdvStart
    BY <1>4 DEF AdvStart, Measures, BattStart, Handles
<1>5. CASE AdvRead
    BY <1>5 DEF AdvRead, Measures, BattStart, Handles, ReadSensors
<1>6. CASE AdvBurst
    BY <1>6 DEF AdvBurst, Handles, contactVars, senseVars
<1>7. CASE TimerEvent
    BY <1>7 DEF TimerEvent, BattStart, Handles, ReadSensors
<1>8. CASE BattValue
    BY <1>8 DEF BattValue, Handles, contactVars, senseVars
<1>9. CASE PinInput
    BY <1>9 DEF PinInput, Handles, battVars
<1>10. CASE KeyReleased
    BY <1>10 DEF KeyReleased, Handles, contactVars, senseVars, battVars
<1>11. CASE Judge \/ Add \/ Clear
    BY <1>11 DEF Judge, Add, Clear, Restless, contactVars, senseVars
<1>12. CASE AdcDone
    BY <1>12 DEF AdcDone, contactVars, senseVars
<1>13. CASE Advertising
    BY <1>13 DEF Advertising, contactVars, senseVars, battVars
<1>14. CASE Connected
    BY <1>14 DEF Connected, Input, contactVars, senseVars, battVars
<1>15. CASE Disconnected
    BY <1>15 DEF Disconnected, contactVars, senseVars, battVars
<1>16. CASE AdvEvent \/ TimerExpires
    BY <1>16 DEF AdvEvent, TimerExpires, Event, contactVars, senseVars, battVars
<1>17. CASE KeyEdge
    BY <1>17 DEF KeyEdge, Input, Event, contactVars, senseVars, battVars
<1>18. CASE Contact
    BY <1>18 DEF Contact, Input, Event, senseVars, battVars
<1>19. CASE CmdTrg
    BY <1>19 DEF CmdTrg, contactVars, battVars
<1>20. CASE VbatDrops
    BY <1>20 DEF VbatDrops, contactVars, senseVars, battVars
<1>21. CASE WakeUp
    BY <1>21 DEF WakeUp
<1>22. CASE UNCHANGED vars
    BY <1>22 DEF vars, contactVars, senseVars, battVars
<1> QED BY <1>1, <1>2, <1>3, <1>4, <1>5, <1>6, <1>7, <1>8, <1>9, <1>10, <1>11, <1>12,
           <1>13, <1>14, <1>15, <1>16, <1>17, <1>18, <1>19, <1>20, <1>21, <1>22
        DEF Next, App

LEMMA FlagsStep == FlagsOK /\ [Next]_vars => FlagsOK'
<1> SUFFICES ASSUME FlagsOK, [Next]_vars PROVE FlagsOK'
    OBVIOUS
<1>1. adc' \in {adc, TRUE, FALSE}
    BY DEF Next, App, AdvIgnored, AdvRepeat, AdvCount, AdvStart, AdvRead, Measures,
           BattStart, AdvBurst, TimerEvent, BattValue, PinInput, KeyReleased, Judge, Add,
           Clear, Restless, AdcDone, Advertising, Connected, Disconnected, AdvEvent,
           TimerExpires, KeyEdge, Contact, CmdTrg, VbatDrops, WakeUp, Event, vars, converter
<1>2. newBattery' \in {newBattery, TRUE, FALSE}
    BY DEF Next, App, AdvIgnored, AdvRepeat, AdvCount, AdvStart, AdvRead, Measures,
           CheckNewBattery, AdvBurst, TimerEvent, BattValue, PinInput, KeyReleased, Judge,
           Add, Clear, Restless, AdcDone, Advertising, Connected, Disconnected, AdvEvent,
           TimerExpires, KeyEdge, Contact, CmdTrg, VbatDrops, WakeUp, Event, vars, battVars
<1> QED BY <1>1, <1>2 DEF FlagsOK

(* TypeOK, with the bound on adv_wrk.meas_count: no sequence of bursts and *)
(* connections lets it leave its eight bits.                               *)
THEOREM TypeCorrect == Spec => []TypeOK
<1>1. AdvInv /\ RelayInv /\ BattInv /\ RestOK /\ FlagsOK => TypeOK
    BY DEF AdvInv, AdvOK, RelayInv, RelayOK, BattInv, BattType, RestOK, FlagsOK, TypeOK
<1> QED BY AdvInit, AdvStep, RelayInit, RelayStep, BatteryInit, BatteryStep, RestInit,
           RestStep, FlagsStep, <1>1, PTL DEF Spec
=============================================================================

------------------------------ MODULE Measure -------------------------------
(***************************************************************************)
(* What the application does with its events: adv_measure, TIMER_BATT_EVT, *)
(* BATT_VALUE_EVT, PIN_INPUT_EVT of thb2_main.c, with read_sensors and     *)
(* set_trigger_out, and the battery's converter, whose interrupt may fall  *)
(* into check_battery.  The build is one with contact and relay and        *)
(* without a display.                                                      *)
(*                                                                         *)
(* While the device advertises, its events count the time: at              *)
(* MeasureInterval - 1 a conversion of the sensor is started, at the next  *)
(* event it is read.  While it is connected a timer reads and starts.  A   *)
(* change of the contact, the repetition of its state and a key press      *)
(* start the advertising again, and the count with it.                     *)
(*                                                                         *)
(* Abstractions.  Starting the advertising again is one step, taken before *)
(* the next handler: GapRole shows that it is (LayersAgree).  Time passes  *)
(* with the advertising events at the user's interval and with the timer;  *)
(* the short bursts take none.  Display, history and payload are left out, *)
(* as are the relay's inversion and its pin, which follow the flags.       *)
(***************************************************************************)
EXTENDS Integers, Trigger, Battery

CONSTANTS
    MeasureInterval, (* cfg.measure_interval, at least 2 (test_config)     *)
    EventCnt,        (* cfg.adv_event_cnt                                  *)
    KeyCnt,          (* adv_reload_count after a key press                 *)
    BattStep,        (* cfg.batt_interval, in user intervals               *)
    RdsStep,         (* RDS_EVENT_STEP_SEC, in user intervals              *)
    RdsStart,        (* age of the repetition at the start                 *)
    RdsDouble,       (* and after a change of the contact                  *)
    Quantities,      (* what is measured: temperature, humidity            *)
    Values,          (* measured values                                    *)
    Settings,        (* what a TRG command may set                         *)
    Low,             (* 1900 mV                                            *)
    MaxInputs        (* bound: contact, key and connections             *)

Greatest(a, b) == IF a >= b THEN a ELSE b
Top == Greatest(MeasureInterval, Greatest(EventCnt, KeyCnt))

ASSUME MeasureAssumption ==
    /\ MeasureInterval \in Nat /\ MeasureInterval >= 2
    /\ {EventCnt, KeyCnt, BattStep, RdsStep} \subseteq Nat \ {0}
    /\ {RdsStart, RdsDouble} \subseteq 0 .. RdsStep
    /\ Values \subseteq Int /\ 0 \in Values
    /\ Settings \subseteq [threshold: Int, hysteresis: Int]
    /\ Settings # {} /\ Samples # {}
    /\ Low \in Nat /\ MaxInputs \in Nat

VARIABLES
    link,       (* the role as the application finds it                    *)
    interval,   (* the advertising interval: user, key or event            *)
    measCount,  (* adv_wrk.meas_count                                      *)
    reload,     (* adv_wrk.adv_reload_count                                *)
    advEvent,   (* adv_wrk.adv_event                                       *)
    pin,        (* the contact is open                                     *)
    pinInput,   (* measured_data.flg.pin_input                             *)
    rdsAge,     (* time since adv_wrk.rds_timer_tik                        *)
    rdsCount,   (* adv_wrk.rds_count                                       *)
    opens,      (* ghost: how often the contact was opened                 *)
    sensor,     (* a conversion has been started since the last reading    *)
    value,      (* measured_data.temp, .humi                               *)
    on,         (* measured_data.flg.temp_trg_on, .humi_trg_on             *)
    trg,        (* the trigger's settings                                  *)
    settled,    (* ghost: nobody changed them since the last reading       *)
    vbat,       (* the battery's voltage                                   *)
    adc,        (* the converter is running                                *)
    newBattery, (* adv_wrk.new_battery                                     *)
    battAge,    (* time since adv_wrk.measure_batt_tik                     *)
    batt,       (* bat_average and measured_data.battery_mv                *)
    check,      (* where check_battery is                                  *)
    events,     (* events of the application                               *)
    inputs

advVars     == <<link, interval, measCount, reload, advEvent>>
contactVars == <<pin, rdsAge, rdsCount, opens>>
senseVars   == <<sensor, value, on, settled, pinInput>>
converter   == <<vbat, adc, batt>>
battVars    == <<newBattery, battAge, check>>
vars == <<advVars, contactVars, senseVars, trg, converter, battVars, events, inputs>>

Off  == [q \in Quantities |-> FALSE]
Zero == [q \in Quantities |-> 0]

(* After SimpleBLEPeripheral_Init, which starts the first conversion of    *)
(* the battery, when the role has begun to advertise.                      *)
Init ==
    /\ link = "adv" /\ interval = "user" /\ measCount = 0 /\ reload = 0
    /\ advEvent = FALSE
    /\ pinInput = 0 /\ rdsAge = RdsStart /\ rdsCount = 0 /\ opens = 0
    /\ sensor = "idle" /\ value = Zero /\ on = Off /\ settled = FALSE
    /\ adc = TRUE /\ newBattery = FALSE /\ battAge = 0 /\ batt = NoSamples
    /\ check = "none" /\ events = {}
    /\ pin \in 0 .. 1
    /\ trg \in [Quantities -> Settings]
    /\ vbat \in Samples
    /\ inputs = 0

-----------------------------------------------------------------------------
(* The handlers, in the order in which BLEPeripheral_ProcessEvent looks    *)
(* for them.                                                               *)
Before(e) ==
    CASE e = "adv"   -> {}
      [] e = "timer" -> {"adv"}
      [] e = "batt"  -> {"adv", "timer"}
      [] e = "pin"   -> {"adv", "timer", "batt"}
      [] e = "key"   -> {"adv", "timer", "batt", "pin"}

Handles(e) ==
    /\ link \in {"adv", "conn"} /\ check = "none"
    /\ e \in events /\ Before(e) \cap events = {}
    /\ events' = events \ {e}

(* gapRole_AdvEnabled, as a handler finds it                               *)
AdvEnabled == link = "adv"

(* set_new_adv_interval                                                    *)
SetNewAdvInterval(i) == interval' = i /\ link' = "restart"

(* Time passes up to a limit.                                              *)
Aged(age, limit) == IF age < limit THEN age + 1 ELSE age
AgedHere(age, limit) == IF interval = "user" THEN Aged(age, limit) ELSE age

(* Mutant: set_trigger_out is only called when the sensor has answered.    *)
ReadSensorsAnswered ==
    \/ /\ \E v \in [Quantities -> Values] : value' = v
       /\ on' = [q \in Quantities |-> Switched(on[q], value'[q], trg[q])]
       /\ settled' = TRUE
       /\ pinInput' = pin
    \/ UNCHANGED <<value, on, settled, pinInput>>

(* read_sensors: new values, or the old ones when the sensor does not      *)
(* answer; then set_trigger_out.                                           *)
ReadSensors ==
    /\ \E v \in [Quantities -> Values] : value' \in {v, value}
    /\ on' = [q \in Quantities |-> Switched(on[q], value'[q], trg[q])]
    /\ settled' = TRUE
    /\ pinInput' = pin

(* Sensor and battery: batt_start_measure when its interval is over        *)
BattStart(age) ==
    IF age >= BattStep THEN battAge' = 0 /\ adc' = TRUE
                       ELSE battAge' = age /\ UNCHANGED adc

(* if(adv_wrk.new_battery) check_battery()                                 *)
CheckNewBattery ==
    /\ newBattery' = FALSE
    /\ check' = IF newBattery THEN "judge" ELSE "none"

(* adv_reload_count: back to the user's interval when it is used up        *)
CountDown ==
    /\ reload' = IF reload = 0 THEN 0 ELSE reload - 1
    /\ IF reload = 1
       THEN SetNewAdvInterval("user") /\ advEvent' = FALSE
       ELSE UNCHANGED <<interval, link, advEvent>>

(* ADV_BROADCAST_EVT of an event sent before the connection                *)
AdvIgnored ==
    /\ Handles("adv") /\ ~AdvEnabled
    /\ UNCHANGED <<advVars, contactVars, senseVars, trg, converter, battVars, inputs>>

(* Mutant: the time of the repetition is not noted.                        *)
AdvRepeatAlways ==
    /\ Handles("adv") /\ AdvEnabled /\ ~advEvent
    /\ AgedHere(rdsAge, RdsStep) >= RdsStep
    /\ rdsAge' = RdsStep
    /\ advEvent' = TRUE /\ reload' = EventCnt
    /\ SetNewAdvInterval("event")
    /\ battAge' = AgedHere(battAge, BattStep)
    /\ UNCHANGED <<measCount, pin, rdsCount, opens, senseVars, trg, converter,
                   newBattery, check, inputs>>

(* adv_measure repeats the state of the contact in a burst.                *)
AdvRepeat ==
    /\ Handles("adv") /\ AdvEnabled /\ ~advEvent
    /\ AgedHere(rdsAge, RdsStep) >= RdsStep
    /\ rdsAge' = 0
    /\ advEvent' = TRUE /\ reload' = EventCnt
    /\ SetNewAdvInterval("event")
    /\ battAge' = AgedHere(battAge, BattStep)
    /\ UNCHANGED <<measCount, pin, rdsCount, opens, senseVars, trg, converter,
                   newBattery, check, inputs>>

Measures ==
    /\ Handles("adv") /\ AdvEnabled /\ ~advEvent
    /\ AgedHere(rdsAge, RdsStep) < RdsStep
    /\ rdsAge' = AgedHere(rdsAge, RdsStep)
    /\ BattStart(AgedHere(battAge, BattStep))
    /\ CountDown
    /\ UNCHANGED <<pin, rdsCount, opens, trg, vbat, batt, inputs>>

(* adv_measure of an event that neither starts nor reads                   *)
AdvCount ==
    /\ Measures
    /\ measCount < MeasureInterval - 1
    /\ measCount' = measCount + 1
    /\ UNCHANGED <<senseVars, newBattery, check>>

AdvStart ==
    /\ Measures
    /\ measCount = MeasureInterval - 1
    /\ measCount' = measCount + 1
    /\ sensor' = "converting"
    /\ UNCHANGED <<value, on, settled, pinInput, newBattery, check>>

(* A sensor that does not answer is initialised, and started again by the  *)
(* next count: it is idle as well.                                         *)
AdvRead ==
    /\ Measures
    /\ measCount >= MeasureInterval
    /\ measCount' = 1
    /\ ReadSensors
    /\ sensor' = "idle"
    /\ CheckNewBattery

(* adv_measure within a burst                                              *)
AdvBurst ==
    /\ Handles("adv") /\ AdvEnabled /\ advEvent
    /\ measCount' = measCount + 1
    /\ CountDown
    /\ IF reload = 1 THEN CheckNewBattery ELSE UNCHANGED <<newBattery, check>>
    /\ UNCHANGED <<contactVars, senseVars, trg, converter, battAge, inputs>>

(* TIMER_BATT_EVT.  It asks nobody whether there still is a connection.    *)
TimerEvent ==
    /\ Handles("timer")
    /\ BattStart(Aged(battAge, BattStep))
    /\ rdsAge' = Aged(rdsAge, RdsStep)
    /\ ReadSensors
    /\ sensor' = "converting"
    /\ UNCHANGED <<advVars, pin, rdsCount, opens, trg, vbat, batt, newBattery, check,
                   inputs>>

(* BATT_VALUE_EVT: check_battery, whatever new_battery says                *)
BattValue ==
    /\ Handles("batt")
    /\ check' = "judge"
    /\ UNCHANGED <<advVars, contactVars, senseVars, trg, converter, newBattery, battAge,
                   inputs>>

(* PIN_INPUT_EVT: the pin as it is now against the flag                    *)
PinInput ==
    /\ Handles("pin")
    /\ pinInput' = pin
    /\ rdsCount' = IF pin = 1 /\ pinInput = 0 THEN rdsCount + 1 ELSE rdsCount
    /\ IF pinInput # pin /\ AdvEnabled
       THEN /\ advEvent' = TRUE /\ reload' = EventCnt
            /\ rdsAge' = RdsDouble
            /\ SetNewAdvInterval("event")
       ELSE UNCHANGED <<advEvent, reload, rdsAge, interval, link>>
    /\ UNCHANGED <<measCount, pin, opens, sensor, value, on, settled, trg, converter,
                   battVars, inputs>>

(* KEY_CHANGE_EVT of a key released: increase_advertising_frequency        *)
KeyReleased ==
    /\ Handles("key")
    /\ IF AdvEnabled THEN reload' = KeyCnt /\ SetNewAdvInterval("key")
                     ELSE UNCHANGED <<reload, interval, link>>
    /\ UNCHANGED <<measCount, advEvent, contactVars, senseVars, trg, converter, battVars,
                   inputs>>

-----------------------------------------------------------------------------
(* check_battery.  The converter's interrupt may come between its lines.   *)
Restless == <<interval, measCount, reload, advEvent, contactVars, senseVars, trg, vbat,
              adc, newBattery, battAge, events, inputs>>

(* Mutant: no comparison with the lowest voltage.                          *)
JudgeNever ==
    /\ check = "judge"
    /\ check' = IF batt.mv = 0 THEN "none" ELSE "add"
    /\ UNCHANGED <<link, batt>> /\ UNCHANGED Restless

(* No sample: return.  Below the lowest voltage: low_vbat, which sleeps    *)
(* for an hour and resets.                                                 *)
Judge ==
    /\ check = "judge"
    /\ IF batt.mv # 0 /\ batt.mv < Low
       THEN link' = "asleep" /\ check' = "none"
       ELSE check' = (IF batt.mv = 0 THEN "none" ELSE "add") /\ UNCHANGED link
    /\ UNCHANGED batt /\ UNCHANGED Restless

Add ==
    /\ check = "add"
    /\ batt' = Average(batt)
    /\ check' = "clear"
    /\ UNCHANGED link /\ UNCHANGED Restless

(* bat_average.battery_mv = 0: a sample of the last moment is lost.        *)
Clear ==
    /\ check = "clear"
    /\ batt' = [batt EXCEPT !.mv = 0]
    /\ check' = "none"
    /\ UNCHANGED link /\ UNCHANGED Restless

(* hal_ADC_IRQHandler.  Advertising, the value waits for the next reading. *)
AdcDone ==
    /\ link # "asleep" /\ adc
    /\ adc' = FALSE
    /\ batt' = [batt EXCEPT !.mv = vbat]
    /\ newBattery' = TRUE
    /\ events' = IF link = "conn" THEN events \union {"batt"} ELSE events
    /\ UNCHANGED <<advVars, contactVars, senseVars, trg, vbat, battAge, check, inputs>>

-----------------------------------------------------------------------------
(* peripheralStateNotificationCB, called by the role's task.               *)
HandlerDone == check = "none"

(* Mutant: the count goes on where the last advertising left it.           *)
AdvertisingKeepsCount ==
    /\ link = "restart" /\ HandlerDone
    /\ link' = "adv"
    /\ UNCHANGED <<interval, measCount, reload, advEvent, contactVars, senseVars, trg,
                   converter, battVars, events, inputs>>

(* GAPROLE_ADVERTISING                                                     *)
Advertising ==
    /\ link = "restart" /\ HandlerDone
    /\ link' = "adv" /\ measCount' = 0
    /\ UNCHANGED <<interval, reload, advEvent, contactVars, senseVars, trg, converter,
                   battVars, events, inputs>>

Awake == link # "asleep" /\ check = "none"
Input == Awake /\ inputs < MaxInputs /\ inputs' = inputs + 1

(* GAPROLE_CONNECTED                                                       *)
Connected ==
    /\ Input /\ link \in {"adv", "restart"}
    /\ link' = "conn"
    /\ advEvent' = FALSE /\ measCount' = 0 /\ reload' = 1
    /\ UNCHANGED <<interval, contactVars, senseVars, trg, converter, battVars, events>>

(* GAPROLE_WAITING does what GAPROLE_CONNECTED did; after a time-out       *)
(* nothing is called.  The timer stops, its event may be left over.        *)
Disconnected ==
    /\ Awake /\ link = "conn"
    /\ link' = "restart"
    /\ \/ UNCHANGED <<advEvent, measCount, reload>>
       \/ advEvent' = FALSE /\ measCount' = 0 /\ reload' = 1
    /\ UNCHANGED <<interval, contactVars, senseVars, trg, converter, battVars, events,
                   inputs>>

-----------------------------------------------------------------------------
(* The environment.                                                        *)
Event(e) ==
    /\ Awake /\ e \notin events
    /\ events' = events \union {e}
    /\ UNCHANGED <<advVars, senseVars, trg, converter, battVars>>

AdvEvent     == link = "adv" /\ Event("adv") /\ UNCHANGED <<contactVars, inputs>>
TimerExpires == link = "conn" /\ Event("timer") /\ UNCHANGED <<contactVars, inputs>>
KeyEdge      == Input /\ Event("key") /\ UNCHANGED contactVars

(* The contact is slow (README.md:257): the application sees each edge     *)
(* before the next.                                                        *)
Contact ==
    /\ Input /\ Event("pin")
    /\ pin' = 1 - pin
    /\ opens' = opens + pin'
    /\ UNCHANGED <<rdsAge, rdsCount>>

(* CMD_ID_TRG over a connection; the flags wait for the next reading.      *)
CmdTrg ==
    /\ Awake /\ link = "conn" /\ events = {}
    /\ \E t \in [Quantities -> Settings] : trg' = t
    /\ settled' = FALSE
    /\ UNCHANGED <<advVars, contactVars, sensor, value, on, pinInput, converter, battVars,
                   events, inputs>>

VbatDrops ==
    /\ Awake
    /\ \E v \in Samples : v < vbat /\ vbat' = v
    /\ UNCHANGED <<advVars, contactVars, senseVars, trg, adc, batt, battVars, events,
                   inputs>>

(* The hour is over; the battery may have been changed.                    *)
WakeUp ==
    /\ link = "asleep"
    /\ link' = "adv" /\ interval' = "user" /\ measCount' = 0 /\ reload' = 0
    /\ advEvent' = FALSE
    /\ pinInput' = 0 /\ rdsAge' = RdsStart /\ rdsCount' = 0 /\ opens' = 0
    /\ sensor' = "idle" /\ value' = Zero /\ on' = Off /\ settled' = FALSE
    /\ adc' = TRUE /\ newBattery' = FALSE /\ battAge' = 0 /\ batt' = NoSamples
    /\ check' = "none" /\ events' = {}
    /\ \E v \in Samples : vbat' = v
    /\ UNCHANGED <<pin, trg, inputs>>

-----------------------------------------------------------------------------
App ==
    \/ AdvIgnored \/ AdvRepeat \/ AdvCount \/ AdvStart \/ AdvRead \/ AdvBurst
    \/ TimerEvent \/ BattValue \/ PinInput \/ KeyReleased
    \/ Judge \/ Add \/ Clear

Next ==
    \/ App \/ AdcDone \/ Advertising \/ Connected \/ Disconnected
    \/ AdvEvent \/ TimerExpires \/ KeyEdge \/ Contact \/ CmdTrg \/ VbatDrops \/ WakeUp

Spec == Init /\ [][Next]_vars

(* The processor runs its handlers, the converter ends, the radio and the  *)
(* timer send their events.  Between two of these, which are 62 ms apart   *)
(* at least, the handlers further down have their turn: hence SF.          *)
FairSpec ==
    /\ Spec
    /\ WF_vars(App) /\ SF_vars(BattValue)
    /\ WF_vars(AdcDone) /\ WF_vars(Advertising)
    /\ WF_vars(AdvEvent) /\ WF_vars(TimerExpires)

-----------------------------------------------------------------------------
TypeOK ==
    /\ link \in {"adv", "restart", "conn", "asleep"}
    /\ interval \in {"user", "key", "event"}
    /\ measCount \in 0 .. Top
    /\ reload \in 0 .. Greatest(EventCnt, KeyCnt)
    /\ {advEvent, settled, adc, newBattery} \subseteq BOOLEAN
    /\ {pin, pinInput} \subseteq 0 .. 1
    /\ rdsAge \in 0 .. RdsStep /\ battAge \in 0 .. BattStep
    /\ rdsCount \in Nat /\ opens \in Nat
    /\ sensor \in {"idle", "converting"}
    /\ value \in [Quantities -> Int] /\ on \in [Quantities -> BOOLEAN]
    /\ trg \in [Quantities -> [threshold: Int, hysteresis: Int]]
    /\ vbat \in Samples
    /\ batt \in [mv: Samples \union {0}, summ: Nat, count: 0 .. Window - 1, shown: Nat]
    /\ check \in {"none", "judge", "add", "clear"}
    /\ events \subseteq {"adv", "timer", "batt", "pin", "key"}
    /\ inputs \in 0 .. MaxInputs

(* Whatever bursts, key presses and connections came in between, what      *)
(* adv_measure reads was started after the last reading.                   *)
FreshReading ==
    AdvEnabled /\ ~advEvent /\ measCount >= MeasureInterval => sensor = "converting"

(* New settings reach the relay, whatever links, bursts and keys do then,  *)
(* and even if the sensor never answers again: its flag becomes one that   *)
(* set_trigger_out leaves as it is, with the value known last.             *)
Agrees(q) == on[q] = Switched(on[q], value[q], trg[q])
RelayFollows == \A q \in Quantities : ~Agrees(q) ~> Agrees(q) \/ link = "asleep"

(* The flag under the settings it was computed with lies in the band, in   *)
(* the direction trigger.c:41-61 has.                                      *)
RelayInBand == settled => \A q \in Quantities : InBand(on[q], value[q], trg[q])

(* README.md:300-301 has the opposite direction: with a positive           *)
(* hysteresis the relay is switched on below setpoint + hysteresis, with a *)
(* negative one above it.  The code does not do this.                      *)
RelayAsDocumented ==
    [][\A q \in Quantities : ~on[q] /\ on'[q] =>
          LET limit == trg[q].threshold + trg[q].hysteresis
          IN  IF trg[q].hysteresis > 0 THEN value'[q] < limit ELSE value'[q] > limit]_vars

(* The voltage shown and recorded is an average of voltages measured,      *)
(* even when the converter's interrupt falls into the averaging.           *)
AverageInRange ==
    \A lo, hi \in Samples :
        (\A v \in Samples : lo <= v /\ v <= hi) => Between(batt, lo, hi)

(* A battery too low to go on is noticed, advertising or connected, and    *)
(* the device goes to sleep.                                               *)
LowVoltageSleeps == vbat < Low ~> link = "asleep"

(* docs/user-introduction.md:47: the sensor is read every advertising      *)
(* interval x measurement step.  At least it is started and read again and *)
(* again.                                                                  *)
SamplingGoesOn ==
    /\ sensor = "idle" ~> sensor = "converting" \/ link = "asleep"
    /\ sensor = "converting" ~> sensor = "idle" \/ link \in {"conn", "asleep"}

(* README.md:263: "At each Open event a counter is added."                 *)
EachOpeningCounted == "pin" \notin events => rdsCount = opens
=============================================================================

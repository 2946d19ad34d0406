----------------------------- MODULE KeyDisplay -----------------------------
(***************************************************************************)
(* The key, the display and its sleep mode: KEY_CHANGE_EVT, LCD_TIMER_EVT  *)
(* and SBP_CMDDATA of BLEPeripheral_ProcessEvent (thb2_main.c), the        *)
(* configuration command of cmd_parser.c and init_lcd / power_off_lcd.     *)
(*                                                                         *)
(* The edges of the key and the expiry of the timer set bits in the task's *)
(* events; the task handles one bit at a time, the timer before the key    *)
(* before the command, and a bit set twice is handled once.                *)
(*                                                                         *)
(* Abstractions.  cfg.flg keeps the three flags these handlers read.  The  *)
(* timer is known by the delay it was started with and may expire at any   *)
(* time.  A write of the configuration to the EEP succeeds (module         *)
(* FlashEep).  The display answers on the bus.                             *)
(***************************************************************************)
EXTENDS Naturals

CONSTANTS
    ShortWrites,  (* commands may carry less than the four bytes of flg    *)
    Bounces,      (* two edges of the key may come before one is handled   *)
    MaxInputs     (* bound: edges of the key, commands and resets          *)

ASSUME InputsAssumption ==
    /\ {ShortWrites, Bounces} \subseteq BOOLEAN
    /\ MaxInputs \in Nat

VARIABLES
    flg,      (* cfg.flg                                                   *)
    saved,    (* the same flags of the configuration in the EEP            *)
    sleeping, (* wrk.lcd_sleeping                                          *)
    dark,     (* the display controller is in power saving mode            *)
    press,    (* wrk.long_press_state                                      *)
    timer,    (* the delay the LCD timer is running with, or "off"         *)
    events,   (* bits of the task's events                                 *)
    expired,  (* the delay whose expiry set LCD_TIMER_EVT                  *)
    pin,      (* the key is pressed                                        *)
    buffer,   (* cmd_in_buffer: the last configuration written             *)
    inputs

vars == <<flg, saved, sleeping, dark, press, timer, events, expired, pin,
          buffer, inputs>>

Flags    == [off: BOOLEAN, sleep: BOOLEAN, tf: BOOLEAN]
Presses  == {"NONE", "BEFORE_UNIT_CHANGE", "UNIT_CHANGED", "DO_RESET"}
Delays   == {"off", "SLEEP", "UNIT_CHANGE", "RESET"}
Bits     == {"START", "LCD_TIMER", "KEY_CHANGE", "CMDDATA"}
Commands == [flg: Flags, short: BOOLEAN, stale: BOOLEAN]

display == <<sleeping, dark>>

(* init_lcd: on, unless the flags want it off.                             *)
InitLcd(f, s) == dark' = (f.off \/ (f.sleep /\ s))

(* start_display_sleep_timer: restarts a running timer.                    *)
StartSleepTimer(f) ==
    timer' = IF ~f.off /\ f.sleep THEN "SLEEP" ELSE timer

(* The device starts with the configuration of the EEP.                    *)
Restart ==
    /\ flg' = saved
    /\ sleeping' = FALSE
    /\ InitLcd(saved, FALSE)
    /\ press' = "NONE"
    /\ timer' = "off" /\ expired' = "off"
    /\ events' = {"START"}
    /\ UNCHANGED saved

Init ==
    /\ saved \in Flags
    /\ flg = saved
    /\ sleeping = FALSE
    /\ dark = saved.off
    /\ press = "NONE"
    /\ timer = "off" /\ expired = "off"
    /\ events = {"START"}
    /\ pin = FALSE
    /\ buffer = [flg |-> saved, short |-> FALSE, stale |-> FALSE]
    /\ inputs = 0

-----------------------------------------------------------------------------
(* Bit e is handled: no bit before it in ProcessEvent is set.              *)
Before(e) ==
    CASE e = "START"      -> {}
      [] e = "LCD_TIMER"  -> {"START"}
      [] e = "KEY_CHANGE" -> {"START", "LCD_TIMER"}
      [] e = "CMDDATA"    -> {"START", "LCD_TIMER", "KEY_CHANGE"}

HandleKeyFirst(e) ==
    /\ e \in events /\ (e = "LCD_TIMER" => "KEY_CHANGE" \notin events)
    /\ events' = events \ {e}

Handle(e) ==
    /\ e \in events /\ Before(e) \cap events = {}
    /\ events' = events \ {e}

(* SBP_START_DEVICE_EVT                                                    *)
StartDevice ==
    /\ Handle("START")
    /\ StartSleepTimer(flg)
    /\ UNCHANGED <<flg, saved, display, press, expired, pin, buffer, inputs>>

(* LCD_TIMER_EVT                                                           *)
LcdTimerOff ==
    /\ flg.off
    /\ UNCHANGED <<flg, display, press, timer>>

LcdTimerSleep ==
    /\ ~flg.off /\ press = "NONE"
    /\ IF flg.sleep THEN sleeping' = TRUE /\ dark' = TRUE
       ELSE UNCHANGED display
    /\ UNCHANGED <<flg, press, timer>>

LcdTimerUnit ==
    /\ ~flg.off /\ press = "BEFORE_UNIT_CHANGE"
    /\ flg' = [flg EXCEPT !.tf = ~@]
    /\ press' = "UNIT_CHANGED"
    /\ timer' = "RESET"
    /\ UNCHANGED display

LcdTimerReset ==
    /\ ~flg.off /\ press \in {"UNIT_CHANGED", "DO_RESET"}
    /\ press' = "DO_RESET"
    /\ UNCHANGED <<flg, display, timer>>

LcdTimer ==
    /\ Handle("LCD_TIMER")
    /\ LcdTimerOff \/ LcdTimerSleep \/ LcdTimerUnit \/ LcdTimerReset
    /\ expired' = "off"
    /\ UNCHANGED <<saved, pin, buffer, inputs>>

(* KEY_CHANGE_EVT, the key being down.                                     *)
KeyDown ==
    /\ Handle("KEY_CHANGE") /\ pin
    /\ IF flg.off THEN UNCHANGED <<display, press, timer>>
       ELSE IF flg.sleep /\ sleeping
            THEN /\ sleeping' = FALSE
                 /\ InitLcd(flg, FALSE)
                 /\ UNCHANGED <<press, timer>>
            ELSE /\ press' = "BEFORE_UNIT_CHANGE"
                 /\ timer' = "UNIT_CHANGE"
                 /\ UNCHANGED display
    /\ UNCHANGED <<flg, saved, expired, pin, buffer, inputs>>

(* KEY_CHANGE_EVT, the key being up; in DO_RESET the chip is reset.        *)
KeyUpNoSave ==
    /\ Handle("KEY_CHANGE") /\ ~pin /\ press # "DO_RESET"
    /\ press' = "NONE"
    /\ timer' = IF flg.sleep /\ ~flg.off THEN "SLEEP" ELSE "off"
    /\ UNCHANGED <<flg, saved, display, expired, pin, buffer, inputs>>

KeyUpNoTimer ==
    /\ Handle("KEY_CHANGE") /\ ~pin /\ press # "DO_RESET"
    /\ press' = "NONE" /\ timer' = "off"
    /\ saved' = IF press = "UNIT_CHANGED" THEN flg ELSE saved
    /\ UNCHANGED <<flg, display, expired, pin, buffer, inputs>>

KeyUp ==
    /\ Handle("KEY_CHANGE") /\ ~pin
    /\ \/ flg.off
       \/ press # "DO_RESET"
    /\ IF flg.off THEN UNCHANGED <<saved, press, timer>>
       ELSE /\ saved' = IF press = "UNIT_CHANGED" THEN flg ELSE saved
            /\ press' = "NONE"
            /\ timer' = IF flg.sleep THEN "SLEEP" ELSE "off"
    /\ UNCHANGED <<flg, display, expired, pin, buffer, inputs>>

KeyUpReset ==
    /\ "KEY_CHANGE" \in events /\ Before("KEY_CHANGE") \cap events = {}
    /\ ~pin /\ ~flg.off /\ press = "DO_RESET"
    /\ Restart
    /\ UNCHANGED <<pin, buffer, inputs>>

(* SBP_CMDDATA with CMD_ID_CFG or CMD_ID_CFG_DEF: the new flags, what      *)
(* update_display_mode is told has changed, and the save.  A short write   *)
(* replaces the low byte only (off, tf), while the change is computed from *)
(* the four bytes of the buffer (stale: its SLEEP bit is not the new one). *)
NewFlags(c) == IF c.short THEN [c.flg EXCEPT !.sleep = flg.sleep] ELSE c.flg
OffChanged(c) == c.flg.off # flg.off
SleepChanged(c) ==
    IF c.short THEN c.stale # flg.sleep ELSE c.flg.sleep # flg.sleep

UpdateDisplayModeOffOnly(c, f) ==
    IF OffChanged(c)
    THEN /\ InitLcd(f, sleeping)
         /\ sleeping' = FALSE /\ press' = "NONE"
         /\ StartSleepTimer(f)
    ELSE UNCHANGED <<display, press, timer>>

UpdateDisplayMode(c, f) ==
    IF OffChanged(c) \/ SleepChanged(c)
    THEN /\ IF OffChanged(c) \/ (~f.off /\ ~f.sleep)
            THEN InitLcd(f, sleeping) ELSE UNCHANGED dark
         /\ sleeping' = FALSE
         /\ press' = "NONE"
         /\ StartSleepTimer(f)
    ELSE UNCHANGED <<display, press, timer>>

CmdCfg ==
    /\ Handle("CMDDATA")
    /\ flg' = NewFlags(buffer) /\ saved' = NewFlags(buffer)
    /\ UpdateDisplayMode(buffer, NewFlags(buffer))
    /\ UNCHANGED <<expired, pin, buffer, inputs>>

-----------------------------------------------------------------------------
(* The timer expires.                                                      *)
TimerExpires ==
    /\ timer # "off" /\ "START" \notin events
    /\ timer' = "off" /\ expired' = timer
    /\ events' = events \union {"LCD_TIMER"}
    /\ UNCHANGED <<flg, saved, display, press, pin, buffer, inputs>>

Input == inputs < MaxInputs /\ inputs' = inputs + 1

(* The interrupts of the key.                                              *)
Edge ==
    /\ Input
    /\ Bounces \/ "KEY_CHANGE" \notin events
    /\ pin' = ~pin
    /\ events' = events \union {"KEY_CHANGE"}
    /\ UNCHANGED <<flg, saved, display, press, timer, expired, buffer>>

(* simpleProfile_WriteAttrCB: a client writes into the buffer.             *)
WriteCmd(c) ==
    /\ Input
    /\ c.short => ShortWrites
    /\ buffer' = c
    /\ events' = events \union {"CMDDATA"}
    /\ UNCHANGED <<flg, saved, display, press, timer, expired, pin>>

(* A loss of power or a watchdog reset.                                    *)
PowerCycle ==
    /\ Input
    /\ Restart
    /\ UNCHANGED <<pin, buffer>>

Task == StartDevice \/ LcdTimer \/ KeyDown \/ KeyUp \/ KeyUpReset \/ CmdCfg

Next ==
    \/ Task
    \/ TimerExpires
    \/ Edge
    \/ \E c \in Commands : WriteCmd(c)
    \/ PowerCycle

Spec == Init /\ [][Next]_vars

(* The scheduler runs the task while bits are set; timers expire.          *)
FairSpec == Spec /\ WF_vars(Task) /\ WF_vars(TimerExpires)

-----------------------------------------------------------------------------
TypeOK ==
    /\ {flg, saved} \subseteq Flags
    /\ {sleeping, dark, pin} \subseteq BOOLEAN
    /\ press \in Presses
    /\ {timer, expired} \subseteq Delays
    /\ events \subseteq Bits
    /\ buffer \in Commands
    /\ inputs \in 0 .. MaxInputs

(* The display is dark exactly when it was turned off or sleeps, so that   *)
(* no sequence of keys and commands leaves the user with a display that    *)
(* the firmware believes to be on.                                         *)
DarkWhenMeant == dark = (flg.off \/ (flg.sleep /\ sleeping))

(* The unit changes, and the reset is prepared, only when the delay        *)
(* counted from that very press has expired: never on the expiry of a      *)
(* timer that was started for another purpose.                             *)
HeldLongEnough ==
    [][LcdTimer /\ press' # press =>
          expired = IF press' = "UNIT_CHANGED" THEN "UNIT_CHANGE" ELSE "RESET"]_vars

(* config.h:621: the display is re-enabled after a key press.  A press     *)
(* that was handled leaves the display on, unless it is turned off.        *)
KeyWakes ==
    [][KeyDown /\ ~flg.off => ~dark']_vars

(* When the inputs stop and the key is released, a display whose sleep     *)
(* mode is on goes dark, whatever timers the key and the commands left.    *)
SleepsInTheEnd == <>[](~pin /\ flg.sleep /\ ~flg.off => dark)

(* config.h:646: a unit changed by the key is saved when it is released.   *)
Settled == ~pin /\ events = {} /\ press = "NONE"
UnitSaved == Settled => saved = flg
=============================================================================

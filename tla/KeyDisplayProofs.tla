-------------------------- MODULE KeyDisplayProofs --------------------------
(***************************************************************************)
(* Proofs about KeyDisplay: its types, that the display is dark when the   *)
(* firmware believes so, that a long press is counted from its own press,  *)
(* and that a display that is to sleep has a timer that leads there. Any   *)
(* number of edges, commands and restarts.                                 *)
(***************************************************************************)
EXTENDS KeyDisplay, TLAPS

(* A sleeping display has its sleep mode on and is not turned off: this    *)
(* is why update_display_mode may forget that it slept.                    *)
SleepsAsAsked == sleeping => flg.sleep /\ ~ flg.off

(* What is in the buffer is whole.                                         *)
WholeWrites == ~ buffer.short

DarkInv == SleepsAsAsked /\ WholeWrites /\ DarkWhenMeant

(* Before the device has started nothing is timed.                         *)
StartsIdle == "START" \in events => timer = "off" /\ "LCD_TIMER" \notin events /\ press = "NONE"

(* One timer: once it has expired it does not run.                         *)
OneTimer == "LCD_TIMER" \in events => timer = "off"

(* While the key is held the timer is that of the press.                   *)
TimerOfPress ==
    /\ press = "BEFORE_UNIT_CHANGE" =>
          /\ timer \in {"UNIT_CHANGE", "off"}
          /\ "LCD_TIMER" \in events => expired = "UNIT_CHANGE"
    /\ press = "UNIT_CHANGED" =>
          /\ timer \in {"RESET", "off"}
          /\ "LCD_TIMER" \in events => expired = "RESET"

HoldInv == StartsIdle /\ OneTimer /\ TimerOfPress

Counted ==
    LcdTimer /\ press' # press =>
        expired = IF press' = "UNIT_CHANGED" THEN "UNIT_CHANGE" ELSE "RESET"

-----------------------------------------------------------------------------
LEMMA TypeInit == Init => TypeOK
<1> SUFFICES ASSUME Init PROVE TypeOK
    OBVIOUS
<1>1. inputs \in 0 .. MaxInputs
  BY InputsAssumption DEF Init, InputsAssumption
<1>2. saved.off \in BOOLEAN /\ {flg, saved} \subseteq Flags
  BY DEF Init, Flags
<1>3. buffer \in Commands
  BY <1>2 DEF Init, Commands
<1> QED
  BY <1>1, <1>2, <1>3 DEF Init, TypeOK, Presses, Delays, Bits

LEMMA TypeNext == TypeOK /\ [Next]_vars => TypeOK'
<1> SUFFICES ASSUME TypeOK, [Next]_vars PROVE TypeOK'
    OBVIOUS
<1>1. CASE StartDevice
  BY <1>1 DEF StartDevice, Handle, StartSleepTimer, TypeOK, Delays, display
<1>2. CASE LcdTimer
  BY <1>2 DEF LcdTimer, LcdTimerOff, LcdTimerSleep, LcdTimerUnit, LcdTimerReset, Handle, TypeOK, Flags, Presses, Delays, display
<1>3. CASE KeyDown
  BY <1>3 DEF KeyDown, Handle, InitLcd, TypeOK, Flags, Presses, Delays, display
<1>4. CASE KeyUp
  BY <1>4 DEF KeyUp, Handle, TypeOK, Flags, Presses, Delays, display
<1>5. CASE KeyUpReset
  BY <1>5 DEF KeyUpReset, Restart, InitLcd, TypeOK, Flags, Presses, Delays, Bits
<1>6. CASE CmdCfg
  <2>1. NewFlags(buffer) \in Flags
    BY DEF TypeOK, Commands, NewFlags, Flags
  <2>2. /\ sleeping' \in BOOLEAN /\ dark' \in BOOLEAN
        /\ press' \in Presses /\ timer' \in Delays
    BY <1>6, <2>1 DEF CmdCfg, UpdateDisplayMode, InitLcd, StartSleepTimer, TypeOK, Flags, Presses, Delays, display
  <2> QED
    BY <1>6, <2>1, <2>2 DEF CmdCfg, Handle, TypeOK
<1>7. CASE TimerExpires
  BY <1>7 DEF TimerExpires, TypeOK, Delays, Bits, display
<1>8. CASE Edge
  BY <1>8, InputsAssumption DEF Edge, Input, TypeOK, Bits, display, InputsAssumption
<1>9. ASSUME NEW c \in Commands, WriteCmd(c) PROVE TypeOK'
  BY <1>9, InputsAssumption DEF WriteCmd, Input, TypeOK, Bits, display, InputsAssumption
<1>10. CASE PowerCycle
  <2>1. inputs' \in 0 .. MaxInputs
    BY <1>10, InputsAssumption DEF PowerCycle, Input, TypeOK, InputsAssumption
  <2>2. dark' \in BOOLEAN /\ {flg', saved'} \subseteq Flags
    BY <1>10 DEF PowerCycle, Restart, InitLcd, TypeOK, Flags
  <2> QED
    BY <1>10, <2>1, <2>2 DEF PowerCycle, Restart, TypeOK, Presses, Delays, Bits
<1>11. CASE UNCHANGED vars
  BY <1>11 DEF vars, TypeOK
<1> QED
  BY <1>1, <1>2, <1>3, <1>4, <1>5, <1>6, <1>7, <1>8, <1>9, <1>10, <1>11 DEF Next, Task

(* The state of key and display is well typed.                             *)
THEOREM TypeCorrect == Spec => []TypeOK
BY TypeInit, TypeNext, PTL DEF Spec

-----------------------------------------------------------------------------
(* The display                                                             *)

LEMMA DarkInit == Init => DarkInv
<1> SUFFICES ASSUME Init PROVE DarkInv
    OBVIOUS
<1>1. flg = saved /\ dark = saved.off /\ sleeping = FALSE /\ ~ buffer.short
  BY DEF Init
<1>2. saved.off \in BOOLEAN
  BY DEF Init, Flags
<1> QED
  BY <1>1, <1>2 DEF DarkInv, SleepsAsAsked, WholeWrites, DarkWhenMeant

LEMMA DarkNext ==
    ~ ShortWrites /\ TypeOK /\ DarkInv /\ [Next]_vars => DarkInv'
<1> SUFFICES ASSUME ~ ShortWrites, TypeOK, DarkInv, [Next]_vars PROVE DarkInv'
    OBVIOUS
<1> USE DEF DarkInv, SleepsAsAsked, WholeWrites, DarkWhenMeant
<1>1. CASE StartDevice
  BY <1>1 DEF StartDevice, display
<1>2. CASE LcdTimer
  <2>1. CASE LcdTimerOff
    BY <1>2, <2>1 DEF LcdTimer, LcdTimerOff, display
  <2>2. CASE LcdTimerSleep
    BY <1>2, <2>2 DEF LcdTimer, LcdTimerSleep, display
  <2>3. CASE LcdTimerUnit
    <3>1. flg'.off = flg.off /\ flg'.sleep = flg.sleep
      BY <2>3 DEF LcdTimerUnit, TypeOK, Flags
    <3> QED
      BY <1>2, <2>3, <3>1 DEF LcdTimer, LcdTimerUnit, display
  <2>4. CASE LcdTimerReset
    BY <1>2, <2>4 DEF LcdTimer, LcdTimerReset, display
  <2> QED
    BY <1>2, <2>1, <2>2, <2>3, <2>4 DEF LcdTimer
<1>3. CASE KeyDown
  BY <1>3 DEF KeyDown, InitLcd, display
<1>4. CASE KeyUp
  BY <1>4 DEF KeyUp, display
<1>5. CASE KeyUpReset
  BY <1>5 DEF KeyUpReset, Restart, InitLcd
<1>6. CASE CmdCfg
  BY <1>6 DEF CmdCfg, NewFlags, OffChanged, SleepChanged, UpdateDisplayMode, InitLcd, StartSleepTimer, display, TypeOK, Flags, Commands
<1>7. CASE TimerExpires
  BY <1>7 DEF TimerExpires, display
<1>8. CASE Edge
  BY <1>8 DEF Edge, display
<1>9. ASSUME NEW c \in Commands, WriteCmd(c) PROVE DarkInv'
  BY <1>9 DEF WriteCmd, display
<1>10. CASE PowerCycle
  BY <1>10 DEF PowerCycle, Restart, InitLcd
<1>11. CASE UNCHANGED vars
  BY <1>11 DEF vars
<1> QED
  BY <1>1, <1>2, <1>3, <1>4, <1>5, <1>6, <1>7, <1>8, <1>9, <1>10, <1>11 DEF Next, Task

(* The display is dark when it is turned off or sleeps, and only then, if  *)
(* clients write whole configurations.                                     *)
THEOREM DarkAsBelieved == ~ ShortWrites => (Spec => []DarkWhenMeant)
<1> SUFFICES ASSUME ~ ShortWrites PROVE Spec => []DarkWhenMeant
    OBVIOUS
<1>1. Init => TypeOK /\ DarkInv
  BY TypeInit, DarkInit
<1>2. TypeOK /\ DarkInv /\ [Next]_vars => TypeOK' /\ DarkInv'
  BY TypeNext, DarkNext
<1>3. DarkInv => DarkWhenMeant
  BY DEF DarkInv
<1> QED
  BY <1>1, <1>2, <1>3, PTL DEF Spec

-----------------------------------------------------------------------------
(* The long press                                                          *)

LEMMA HoldInit == Init => HoldInv
BY DEF Init, HoldInv, StartsIdle, OneTimer, TimerOfPress

LEMMA HoldNext == TypeOK /\ HoldInv /\ [Next]_vars => HoldInv'
<1> SUFFICES ASSUME TypeOK, HoldInv, [Next]_vars PROVE HoldInv'
    OBVIOUS
<1> USE DEF HoldInv, StartsIdle, OneTimer, TimerOfPress
<1>1. CASE StartDevice
  BY <1>1 DEF StartDevice, Handle, StartSleepTimer, display
<1>2. CASE LcdTimer
  <2>1. events' = events \ {"LCD_TIMER"} /\ "START" \notin events
    BY <1>2 DEF LcdTimer, Handle, Before
  <2>2. CASE LcdTimerOff
    BY <2>1, <2>2 DEF LcdTimerOff
  <2>3. CASE LcdTimerSleep
    BY <2>1, <2>3 DEF LcdTimerSleep
  <2>4. CASE LcdTimerUnit
    BY <2>1, <2>4 DEF LcdTimerUnit
  <2>5. CASE LcdTimerReset
    BY <2>1, <2>5 DEF LcdTimerReset
  <2> QED
    BY <1>2, <2>2, <2>3, <2>4, <2>5 DEF LcdTimer
<1>3. CASE KeyDown
  <2>1. events' \subseteq events /\ "START" \notin events /\ "LCD_TIMER" \notin events
    BY <1>3 DEF KeyDown, Handle, Before
  <2> QED
    BY <1>3, <2>1 DEF KeyDown
<1>4. CASE KeyUp
  <2>1. events' \subseteq events /\ "START" \notin events /\ "LCD_TIMER" \notin events
    BY <1>4 DEF KeyUp, Handle, Before
  <2> QED
    BY <1>4, <2>1 DEF KeyUp
<1>5. CASE KeyUpReset
  BY <1>5 DEF KeyUpReset, Restart
<1>6. CASE CmdCfg
  <2>1. events' \subseteq events /\ "START" \notin events /\ "LCD_TIMER" \notin events
    BY <1>6 DEF CmdCfg, Handle, Before
  <2>2. press' = "NONE" \/ UNCHANGED <<press, timer>>
    BY <1>6 DEF CmdCfg, UpdateDisplayMode
  <2> QED
    BY <1>6, <2>1, <2>2 DEF CmdCfg
<1>7. CASE TimerExpires
  BY <1>7 DEF TimerExpires
<1>8. CASE Edge
  BY <1>8 DEF Edge
<1>9. ASSUME NEW c \in Commands, WriteCmd(c) PROVE HoldInv'
  BY <1>9 DEF WriteCmd
<1>10. CASE PowerCycle
  BY <1>10 DEF PowerCycle, Restart
<1>11. CASE UNCHANGED vars
  BY <1>11 DEF vars
<1> QED
  BY <1>1, <1>2, <1>3, <1>4, <1>5, <1>6, <1>7, <1>8, <1>9, <1>10, <1>11 DEF Next, Task

LEMMA PressCounted == HoldInv => Counted
BY DEF HoldInv, TimerOfPress, Counted, LcdTimer, Handle, LcdTimerOff, LcdTimerSleep, LcdTimerUnit, LcdTimerReset, display

(* The unit changes, and the reset is prepared, only on the expiry of the  *)
(* delay that this press started, whatever the timer was used for before.  *)
THEOREM LongPressIsHeld == Spec => HeldLongEnough
<1>1. Init => TypeOK /\ HoldInv
  BY TypeInit, HoldInit
<1>2. TypeOK /\ HoldInv /\ [Next]_vars => TypeOK' /\ HoldInv'
  BY TypeNext, HoldNext
<1>3. HoldInv => [Counted]_vars
  BY PressCounted
<1>4. HeldLongEnough <=> [][Counted]_vars
  BY PTL DEF HeldLongEnough, Counted
<1> QED
  BY <1>1, <1>2, <1>3, <1>4, PTL DEF Spec

-----------------------------------------------------------------------------
(* The way to sleep                                                        *)

(* The key is up, which the task has seen, and the display in use.         *)
Released == ~ pin /\ "KEY_CHANGE" \notin events /\ ~ flg.off

(* Then no press is under way, and a display that is to sleep but is on    *)
(* has its timer running, expired or about to be started.                  *)
SleepComes ==
    Released => /\ press = "NONE"
                /\ flg.sleep /\ ~ dark => timer # "off" \/ events \cap {"START", "LCD_TIMER"} # {}

LEMMA SleepInit == Init => SleepComes
BY DEF Init, SleepComes

LEMMA SleepNext == TypeOK /\ SleepComes /\ [Next]_vars => SleepComes'
<1> SUFFICES ASSUME TypeOK, SleepComes, [Next]_vars, Released'
             PROVE  /\ press' = "NONE"
                    /\ flg'.sleep /\ ~ dark' =>
                          timer' # "off" \/ events' \cap {"START", "LCD_TIMER"} # {}
  BY DEF SleepComes
<1> USE DEF SleepComes, Released
<1>1. CASE StartDevice
  BY <1>1 DEF StartDevice, Handle, StartSleepTimer, display
<1>2. CASE LcdTimer
  <2>1. events' = events \ {"LCD_TIMER"} /\ UNCHANGED pin
    BY <1>2 DEF LcdTimer, Handle
  <2>2. CASE LcdTimerOff
    BY <2>2 DEF LcdTimerOff
  <2>3. CASE LcdTimerSleep
    BY <2>1, <2>3 DEF LcdTimerSleep, display
  <2>4. CASE LcdTimerUnit
    BY <2>1, <2>4 DEF LcdTimerUnit
  <2>5. CASE LcdTimerReset
    BY <2>1, <2>5 DEF LcdTimerReset
  <2> QED
    BY <1>2, <2>2, <2>3, <2>4, <2>5 DEF LcdTimer
<1>3. CASE KeyDown
  BY <1>3 DEF KeyDown
<1>4. CASE KeyUp
  BY <1>4 DEF KeyUp, display
<1>5. CASE KeyUpReset
  BY <1>5 DEF KeyUpReset, Restart
<1>6. CASE CmdCfg
  <2>1. events' = events \ {"CMDDATA"} /\ UNCHANGED pin /\ flg' = NewFlags(buffer)
    BY <1>6 DEF CmdCfg, Handle
  <2>2. CASE OffChanged(buffer) \/ SleepChanged(buffer)
    <3>1. press' = "NONE" /\ StartSleepTimer(flg')
      BY <1>6, <2>1, <2>2 DEF CmdCfg, UpdateDisplayMode
    <3> QED
      BY <3>1 DEF StartSleepTimer
  <2>3. CASE ~ OffChanged(buffer) /\ ~ SleepChanged(buffer)
    <3>1. UNCHANGED <<display, press, timer>>
      BY <1>6, <2>3 DEF CmdCfg, UpdateDisplayMode
    <3>2. flg'.off = flg.off /\ flg'.sleep = flg.sleep
      BY <2>1, <2>3 DEF NewFlags, OffChanged, SleepChanged, TypeOK, Commands, Flags
    <3> QED
      BY <2>1, <3>1, <3>2 DEF display
  <2> QED
    BY <2>2, <2>3
<1>7. CASE TimerExpires
  BY <1>7 DEF TimerExpires, display
<1>8. CASE Edge
  BY <1>8 DEF Edge
<1>9. ASSUME NEW c \in Commands, WriteCmd(c)
      PROVE  /\ press' = "NONE"
             /\ flg'.sleep /\ ~ dark' =>
                   timer' # "off" \/ events' \cap {"START", "LCD_TIMER"} # {}
  BY <1>9 DEF WriteCmd, display
<1>10. CASE PowerCycle
  BY <1>10 DEF PowerCycle, Restart
<1>11. CASE UNCHANGED vars
  BY <1>11 DEF vars
<1> QED
  BY <1>1, <1>2, <1>3, <1>4, <1>5, <1>6, <1>7, <1>8, <1>9, <1>10, <1>11 DEF Next, Task

(* A display that is on although it is to sleep never waits for nothing:   *)
(* once the key is up, its timer runs, has expired, or is started with the *)
(* device, whatever keys, bounces, commands (short ones too) and restarts  *)
(* came before; and when the timer has expired then, the display goes dark.*)
THEOREM SleepIsTimed ==
    Spec => /\ []SleepComes
            /\ [][LcdTimer /\ Released /\ flg.sleep => dark']_vars
<1>1. SleepComes => [LcdTimer /\ Released /\ flg.sleep => dark']_vars
  BY DEF SleepComes, Released, LcdTimer, LcdTimerOff, LcdTimerSleep, LcdTimerUnit, LcdTimerReset
<1> QED
  BY <1>1, TypeInit, TypeNext, SleepInit, SleepNext, PTL DEF Spec
=============================================================================

-------------------------------- MODULE Clock --------------------------------
(***************************************************************************)
(* The device's clock (config.c): seconds and microseconds kept up from a  *)
(* free-running tick counter whenever somebody reads it, retained in two   *)
(* registers over a reset, taken from the log after a loss of power when   *)
(* the log's open sector has a record, and set by a client; with the       *)
(* script auto_time_sync.py, which compares it with the host's time and    *)
(* sets it.                                                                *)
(*                                                                         *)
(* World time is counted in ticks. The calibration of the tick, an         *)
(* average the controller keeps, is taken as constant and right: what the  *)
(* properties find is the error of the arithmetic and of the protocol.     *)
(***************************************************************************)
EXTENDS Integers

CONSTANTS
    CounterMod,   (* the tick counter's range, 2^32                        *)
    Window,       (* a reading covers less than this, 2^21 ticks (64 s)    *)
    Half,         (* ticks of the conversion's coarse part, 2^16           *)
    Avg, Scale,   (* a tick lasts Avg/Scale microseconds, 7812/256         *)
    Second,       (* microseconds in a second, 10^6                        *)
    Credit,       (* added at a start, 2^16 microseconds                   *)
    LogAdd,       (* the fraction a time from the log gets, 1024           *)
    SecRecs,      (* the records a sector of the log holds, MEMO_SEC_RECS  *)
    Epoch,        (* the host's time at the beginning, seconds             *)
    Summer,       (* the seconds of daylight saving in force, or 0         *)
    Delay,        (* a command arrives within this many ticks, or never    *)
    MaxNow,       (* bound: ticks                                          *)
    MaxReadings,  (* bound: readings since the clock was set               *)
    MaxDowns      (* bound: resets and losses of power                     *)

ASSUME ClockAssumption ==
    /\ Window \in Nat \ {0} /\ Half \in Nat \ {0} /\ Scale \in Nat \ {0}
    /\ CounterMod \in Nat \ {0} /\ CounterMod % Window = 0
    /\ Half % Scale = 0
    /\ Avg \in Nat \ {0} /\ Second \in Nat \ {0}
    /\ Credit \in Nat /\ LogAdd \in 0..Second /\ SecRecs \in Nat \ {0}
    /\ Epoch \in Nat /\ Summer \in Nat /\ Delay \in Nat
    /\ MaxNow \in Nat /\ MaxReadings \in Nat /\ MaxDowns \in Nat

VARIABLES
    now,          (* the world's time                                      *)
    rtc,          (* AP_AON->RTCCNT                                        *)
    on,           (* the device runs                                       *)
    sec, add, tik,(* clkt: utc_time_sec, utc_time_add, utc_time_tik        *)
    saved,        (* AP_AON->SLEEP_R[3] and [2]                            *)
    open,         (* the log's open sector: its records, their latest time *)
    rec,          (* history: the time of the record written last          *)
    host,         (* the script: phase, the time it saw or sends, when     *)
    downs,
    gap,          (* history: ticks since tik was taken                    *)
    base,         (* history: what the clock was set to,                   *)
    ran,          (* the ticks from then to the last reading,              *)
    readings,     (* the readings and                                      *)
    starts,       (* the starts since                                      *)
    was,          (* history: the clock when the device went down          *)
    missed,       (* history: a reading came too late for the window       *)
    synced        (* history: it was the script that set the clock         *)

clkt == <<sec, add, tik>>
past == <<base, ran, readings, starts, missed, synced>>
vars == <<now, rtc, on, clkt, saved, open, rec, host, downs, gap, past, was>>

Idle == [phase |-> "idle", time |-> 0, at |-> 0]

(* memo_sec_init: nothing is written yet.                                  *)
Fresh == [cnt |-> 0, top |-> 0]

(* The clock in microseconds.                                              *)
Stamp(s, a) == s * Second + a

Init ==
    /\ now = 0 /\ rtc = 0
    /\ on = FALSE
    /\ sec = 0 /\ add = 0 /\ tik = 0
    /\ saved = [sec |-> 0, add |-> 0]
    /\ open = Fresh /\ rec = 0 /\ host = Idle /\ downs = 0
    /\ gap = 0 /\ base = 0 /\ ran = 0 /\ readings = 0 /\ starts = 0
    /\ missed = FALSE /\ synced = FALSE /\ was = 0

-----------------------------------------------------------------------------
(* get_utc_time_sec                                                        *)

(* The branch for a counter that has wrapped is taken when it has not: it  *)
(* takes the range for one less than it is.                                *)
Delta(new, old) ==
    IF new <= old THEN (new - old) % Window ELSE (new - old - 1) % Window

(* Mutant: without the ticks above the lower half.                         *)
MicrosLow(d) == ((d % Half) * Avg) \div Scale

(* Ticks into microseconds, in two parts that fit into 32 bits.            *)
Micros(d) == (d \div Half) * Avg * (Half \div Scale) + ((d % Half) * Avg) \div Scale

(* while(add > 1000000): a full second of microseconds is not yet carried. *)
Carry(a) == IF a > Second THEN (a - 1) \div Second ELSE 0

(* The clock s, a, kept up to the tick new.                                *)
Reading(s, a, old, new) ==
    LET all == a + Micros(Delta(new, old)) IN
    /\ sec' = s + Carry(all)
    /\ add' = all - Carry(all) * Second
    /\ tik' = new
    /\ saved' = [sec |-> sec', add |-> add']

(* On an advertising event, the timer's in a connection, a key's event.    *)
Read ==
    /\ on /\ readings < MaxReadings
    /\ Reading(sec, add, tik, rtc)
    /\ gap' = 0 /\ ran' = ran + gap /\ readings' = readings + 1
    /\ missed' = (missed \/ gap >= Window)
    /\ UNCHANGED <<now, rtc, on, open, rec, host, downs, base, starts, synced, was>>

(* The open sector with a record of now.                                   *)
Written == [cnt |-> open.cnt + 1, top |-> IF sec > open.top THEN sec ELSE open.top]

(* write_memo, once its samples are there: a full sector is closed at once *)
(* and the next one begun. The handlers that call it have just read the    *)
(* clock. What is recorded after the last of the starts is left out.       *)
Record ==
    /\ on /\ downs < MaxDowns
    /\ gap = 0
    /\ rec' = sec
    /\ open' = IF Written.cnt = SecRecs THEN Fresh ELSE Written
    /\ UNCHANGED <<now, rtc, on, clkt, saved, host, downs, gap, past, was>>

(* CMD_ID_CLRLOG. An empty sector stays as it is.                          *)
ClearMemo ==
    /\ on /\ downs < MaxDowns /\ open # Fresh
    /\ open' = Fresh
    /\ UNCHANGED <<now, rtc, on, clkt, saved, rec, host, downs, gap, past, was>>

-----------------------------------------------------------------------------
(* Start and stop                                                          *)

(* Mutant: the seconds are not taken.                                      *)
RestoreAnew == [sec |-> 0, add |-> saved.add + Credit]

(* restore_utc_time_sec, then memo_init, which looks at the records of the *)
(* open sector only: restore_time leaves the clock when there is none.     *)
Restore ==
    IF saved.sec = 0 /\ open.top # 0 THEN [sec |-> open.top, add |-> LogAdd]
    ELSE [sec |-> saved.sec, add |-> saved.add + Credit]

(* memo_init closes an open sector that is full.                           *)
Start ==
    /\ ~ on
    /\ on' = TRUE
    /\ sec' = Restore.sec /\ add' = Restore.add /\ tik' = rtc
    /\ gap' = 0
    /\ IF saved.sec = 0
       THEN /\ base' = Stamp(sec', add') /\ ran' = 0 /\ readings' = 0
            /\ starts' = 0 /\ missed' = FALSE /\ synced' = FALSE
       ELSE /\ ran' = ran + gap /\ starts' = starts + 1
            /\ UNCHANGED <<base, readings, missed, synced>>
    /\ open' = IF open.cnt = SecRecs THEN Fresh ELSE open
    /\ was' = 0
    /\ UNCHANGED <<now, rtc, saved, rec, host, downs>>

(* What is left when the registers are not: the latest record, while it is *)
(* in the open sector.                                                     *)
Remembered == IF open.cnt = 0 THEN 0 ELSE Stamp(rec, 0)

Stops ==
    /\ on /\ downs < MaxDowns
    /\ on' = FALSE /\ downs' = downs + 1
    /\ sec' = 0 /\ add' = 0 /\ tik' = 0
    /\ host' = Idle
    /\ UNCHANGED <<now, gap, past>>

(* The registers are of the domain that is always on, and so the counter.  *)
PowerLost == saved' = [sec |-> 0, add |-> 0] /\ rtc' = 0 /\ was' = Remembered'

(* A reset keeps the registers and the counter, a loss of power neither. A *)
(* clock from the log is in the registers once it has been read.           *)
Down ==
    /\ Stops
    /\ UNCHANGED <<open, rec>>
    /\ \/ /\ was' = IF saved.sec = sec THEN Stamp(sec, add) ELSE Remembered
          /\ UNCHANGED <<rtc, saved>>
       \/ PowerLost

(* Power is lost in write_memo, after the record that fills the sector and *)
(* before the sector is closed.                                            *)
CutRecord ==
    /\ Stops
    /\ Written.cnt = SecRecs
    /\ rec' = sec /\ open' = Written
    /\ PowerLost

-----------------------------------------------------------------------------
(* CMD_ID_UTC_TIME with a time                                             *)

(* Mutant: the tick of the last reading stays.                             *)
SetTimeKeepsTik(t) == Reading(t, add, tik, rtc)

(* The fraction is kept, the tick is taken anew, then the clock is read.   *)
SetTime(t) == Reading(t, add, rtc, rtc)

SetBy(t, script) ==
    /\ on
    /\ SetTime(t)
    /\ base' = Stamp(t, add) /\ gap' = 0 /\ ran' = 0 /\ readings' = 1 /\ starts' = 0
    /\ missed' = FALSE /\ synced' = script
    /\ UNCHANGED <<now, rtc, on, open, rec, downs, was>>

(* Another client, which may know no better; left out after the last      *)
(* start.                                                                  *)
SetOther ==
    /\ host.phase = "idle" /\ downs < MaxDowns /\ sec # 1
    /\ SetBy(1, FALSE)
    /\ UNCHANGED host

-----------------------------------------------------------------------------
(* auto_time_sync.py                                                       *)

Local(t) == Epoch + ((t * Avg) \div Scale) \div Second

(* Mutant: the offset of the standard time.                                *)
AdjustedStandard(t) == Local(t)

(* set_device_time takes the offset in force, the comparison the standard  *)
(* time's.                                                                 *)
Adjusted(t) == Local(t) + Summer

(* The device answers 0x33 with the seconds as they were read last.        *)
Ask ==
    /\ on /\ host.phase = "idle"
    /\ host' = [Idle EXCEPT !.phase = "seen", !.time = sec]
    /\ UNCHANGED <<now, rtc, on, clkt, saved, open, rec, downs, gap, past, was>>

Compare ==
    /\ host.phase = "seen"
    /\ LET d == host.time - Local(now) IN
       host' = IF d > 3 \/ d < -3
               THEN [phase |-> "sent", time |-> Adjusted(now), at |-> now]
               ELSE Idle
    /\ UNCHANGED <<now, rtc, on, clkt, saved, open, rec, downs, gap, past, was>>

Arrive ==
    /\ host.phase = "sent"
    /\ SetBy(host.time, TRUE)
    /\ host' = Idle

(* The link is lost, or the script gives up.                               *)
Fail ==
    /\ host.phase # "idle"
    /\ host' = Idle
    /\ UNCHANGED <<now, rtc, on, clkt, saved, open, rec, downs, gap, past, was>>

Tick ==
    /\ now < MaxNow
    /\ host.phase = "sent" => now - host.at < Delay
    /\ now' = now + 1 /\ gap' = gap + 1
    /\ rtc' = (rtc + 1) % CounterMod
    /\ UNCHANGED <<on, clkt, saved, open, rec, host, downs, past, was>>

Next ==
    \/ Read \/ Record \/ ClearMemo \/ Start \/ Down \/ CutRecord \/ SetOther
    \/ Ask \/ Compare \/ Arrive \/ Fail \/ Tick

Spec == Init /\ [][Next]_vars

-----------------------------------------------------------------------------
TypeOK ==
    /\ now \in 0..MaxNow /\ rtc \in 0..(CounterMod - 1) /\ tik \in 0..(CounterMod - 1)
    /\ on \in BOOLEAN /\ downs \in 0..MaxDowns
    /\ sec \in Nat /\ rec \in Nat /\ open \in [cnt : 0..SecRecs, top : Nat]
    /\ add \in 0..(Second + Credit)
    /\ saved \in [sec : Nat, add : 0..Second]
    /\ host \in [phase : {"idle", "seen", "sent"}, time : Nat, at : 0..MaxNow]
    /\ gap \in Nat /\ base \in Nat /\ ran \in Nat /\ readings \in Nat /\ starts \in Nat
    /\ was \in Nat /\ missed \in BOOLEAN /\ synced \in BOOLEAN

(* However it is read, the clock gains nothing on the world but the credit *)
(* of each start: not by a counter that wraps, not by a carry.             *)
NeverAhead ==
    on => Scale * (Stamp(sec, add) - base) <= ran * Avg + starts * Scale * Credit

(* While it is read often enough and not restarted, each reading loses at  *)
(* most the tick of the swapped branches and the fraction of a             *)
(* microsecond.                                                            *)
LagBounded ==
    on /\ ~ missed /\ starts = 0 =>
        ran * Avg <= Scale * (Stamp(sec, add) - base) + readings * (Avg + Scale)

(* The clock never goes back but by a client's command: not by a reading,  *)
(* not over a reset, and over a loss of power not before the latest record *)
(* of the log, while that record is in the open sector. A record that      *)
(* fills its sector, or a cleared log, leaves the open sector empty: then  *)
(* memo_init finds no time, the clock begins anew near 0, and the records  *)
(* that follow are earlier than those before.                              *)
NeverBack ==
    [][on' => IF on THEN SetOther \/ Arrive \/ Stamp(sec', add') >= Stamp(sec, add)
              ELSE Stamp(sec', add') >= was]_vars

(* After auto_time_sync.py set the clock ("ensures their internal clocks   *)
(* are synchronized with the host computer's time") it is right: at most   *)
(* the kept fraction of a second ahead of local time, and late by no more  *)
(* than a second, the delay of the command and the losses of the readings. *)
SyncedClose ==
    on /\ synced /\ ~ missed /\ starts = 0 =>
        LET device == Scale * Stamp(sec, add)
            local  == (now - gap) * Avg + Scale * Second * (Epoch + Summer) IN
        /\ device - local <= Scale * (Second + Credit)
        /\ local - device <= Scale * (Second + 1) + Avg * Delay + readings * (Avg + Scale)
=============================================================================

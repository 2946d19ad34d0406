# THB2 thermostat firmware: verification project

TLA+ models of the firmware of the THB2 / BTH01 / TH05 family of Bluetooth thermometers (`bthome_phy6222/source`, built for
PHY6222/PHY6252): what it keeps in flash, what it does when the power fails, and how its tasks share the radio, the key and the display.
Each module names the code it models in its head; `PROJECT.json` maps every definition to its lines.

## 1. The system

One chip runs one of two builds of the same sources: the *boot* firmware (`OTA_TYPE_BOOT`, the OTA server) below `FADDR_APP_SEC`, and the
*application* (`OTA_TYPE_APP`) above it. There are no threads. OSAL keeps an event word and a message queue per task and always runs the
first task in `tasksArr` (`osal_peripheral.c`) that has something to do; a handler runs to its end. Interrupts (key, radio, timers) set event
bits. Concurrency is therefore between *handlers*, between handlers and interrupts, between the device and its clients over the link, and
between the program and the power supply.

| component | state | operations | correct when | hard because |
|---|---|---|---|---|
| EEP object store, `flash_eep.c` | two or more flash sectors with a generation counter and appended records | read, write, compaction, start-up, format | a saved object is what a later boot reads | NOR flash, power loss between any two flash operations, rare compactions |
| OTA server, `ble_ota.c` | transfer state `ota`, application area, mode register | START, SET, END, data blocks, boot decision | only whole images start | lost, repeated, damaged blocks; resets; switching images in mid transfer |
| Web updater, `web/PHY62x2BTHome.html` | block number | the client side of the above | a patient user ends with the new image | every step may fail |
| History log, `logger.c`, `sbp_profile.c` | ring of sectors, write position in RAM, read-out in progress | write, clear, find the position at start-up, read-out in notifications | records are read in order, once | writing, clearing and losing power during a read-out that takes a minute |
| Key and display, `thb2_main.c`, `cmd_parser.c`, `lcd_*.c` | flags, sleep state, long-press state, one timer for three purposes | key edges, timer, configuration command | the display is on when it should be; the unit toggles and is saved | event bits merge, expiry races the key |
| GAP role and advertising, `thb2_peripheral.c`, `thb2_main.c` | role, advertising state in three layers | change of interval, connect, disconnect, reboot | always reachable again, interval restored | application overwrites the role's state; interrupts |
| Measurement, `thb2_main.c`, `sensors.c`, `trigger.c`, `battery.c` | count of advertising events, sensor started or not, relay flags, contact and its counter, running average | advertising event, timer, contact, battery value, `TRG` command | readings are fresh and go on, new settings reach the relay, a low battery stops the device | bursts, keys and connections restart the count; the converter's interrupt falls into the averaging |
| Settings and setpoint, `config.c`, `setpoint.c`, `cmd_parser.c`, `th05_setpoint.py` | RAM copies of EEP objects, a command buffer, notifications on their way, the attempts of each host | load, validate, set, save, answer; connect, write, wait, try again | what was saved comes up, what is in force has passed `test_config`, what a host prints was true, a version stands for one setpoint | one buffer for all commands, power loss between RAM and flash, retries while another host sets |
| Clock, `config.c`, `logger.c`, `cmd_parser.c`, `auto_time_sync.py` | seconds, fraction and tick of the last reading, two retained registers, the log's last time | read, restore, set, compare | never ahead, never back but where the log forgets, late by a known bound | a counter that wraps, a window of 64 s, restarts that keep or lose the registers |
| GATT services, `sbp_profile.c` ... | write buffers | callbacks | | buffers overwritten before they are parsed |
| Payload and encryption, LCD drivers, sensors' bus, serial programmer, SDK | | | | not protocols |

They interact so: GATT write callbacks put a command into a buffer and set `SBP_CMDDATA`; `cmd_parser` changes settings and calls
`flash_write_cfg`, `clear_memo`, the read-out, or sets `wrk.reboot`; advertising events drive measurements, which write the log; the GAP role
calls back the application on each change of state; a reboot passes the boot flag through `OTA_MODE_SELECT_REG` to the boot firmware.

## 2. Modules

| module | models | composed of |
|---|---|---|
| `FlashEep` | `flash_eep.c`, one action per flash operation | implements `EepStore` |
| `EepStore` | what the store promises: a map, with what a power loss and a compaction may do to it | |
| `Ota` | `ota_parser`, `start_app`, the boot decision, resets | implements `AppSlot` |
| `AppSlot` | what the OTA server promises: a slot replaced only by way of empty, of which only whole images run | |
| `OtaUpdate` | the web client with the device | extends `Ota` |
| `Logger` | `logger.c`, its commands and `wrk_notify` | implements `LogStore` |
| `LogStore` | what the log promises: the records since the last clear without the oldest ones, of which only a clear and the making of room take any away | |
| `KeyDisplay` | key, LCD timer, configuration command, restart | |
| `GapRole` | role, advertising manager, the application's interval changes, over the link layer | |
| `Trigger` | `set_trigger_out`: the relay's hysteresis as operators | |
| `Battery` | `check_battery`: the running average as an operator | |
| `Measure` | advertising events, timer, contact, converter, low-voltage sleep | extends `Trigger`, `Battery` |
| `Settings` | setpoint and configuration: write callback, parser, save, start-up | stands on `EepStore`, which `FlashEep` implements |
| `Setpoint` | hosts that run `th05_setpoint.py` or save the configuration | extends `Settings` |
| `Clock` | `get_utc_time_sec`, its restore, the set command, `auto_time_sync.py` | |
| `FlashEepProofs`, `OtaProofs`, `MeasureProofs`, `SetpointProofs`, `ClockProofs`, `KeyDisplayProofs`, `GapRoleProofs`, `LoggerProofs` | the theorems | extend `FlashEep`, `OtaUpdate`, `Measure`, `Setpoint`, `Clock`, `KeyDisplay`, `GapRole`, `Logger` |
| `MC*` | constants of the runs | |

Operators whose comment says *Mutant* are deliberate mistakes (a dropped guard, an off-by-one, a missing reset) next to the definition they
distort. No specification uses them; replacing the definition by one must break the property that `PROJECT.json` pairs it with.

### FlashEep
`gen` and `bank` are the flash, `pc` is the flash operation that comes next, so a `Crash` falls between any two. A write
(`WriteCfg`) finds room or walks through the compaction `PackErase`, `PackBusy`, `PackCopy`, `PackCommit`, `PackEraseOld`, and then programs
header and data. Start-up (`BootFirstStart`, `BootSupported`, `BootFormat`) picks the bank with the smallest counter and formats when the
version is unsupported. A record takes one place whatever its size; erasing a sector and programming a word are atomic. `acked` is a history
variable: the value whose write returned last.

### Ota, OtaUpdate
Addresses count blocks of 16 bytes; a block is its first word and its body. A data packet is handled in one action; the flash operations it
asks for (`EraseSector`, `WriteBlock`, `WriteFlag`) are steps of their own, so that the power can fail between them and leave a torn block.
Sums of addresses wrap at 32 bits (`Address`), and an address past the end of the chip reaches its front (`Cell`), because flash commands carry 24 bits of which
the chip has blocks for fewer. The check of SET (`Taken`) is the code's, with the end of a 2 MB flash (`MaxBlocks`), whatever the chip has (`FlashBlocks`);
`ClientsFit` says of the clients what the check does not.
Clients may send any packet of any image in any order. The CRC is a comparison of contents: collisions are excluded. `OtaUpdate` narrows the
client to `startDFU`, `updateBegin`, `sendBlkOTA` and `sendLastOTA` of the web page, with a user who starts again when the page reports a failure.

### Logger
Records are numbered as they are written; the number stands for the (possibly averaged) measurement. `rd` is `rd_memo`; the ghost `rd.asked`
and `last` remember when the read-out was asked for and what was sent. Each notification is a step, since `wrk_notify` can stop after any.
`LogStore` sees the numbers in the sectors that carry an id (`InLog`): writing is `Append`, the erase of the next sector `Forget`, `clear_memo` is `Clear` at
once, however many sectors are still to be erased, and everything else, restarts and readers above all, leaves the log alone.

### KeyDisplay
One task; `events` is its event word, `Handle(e)` the order in which `BLEPeripheral_ProcessEvent` tests the bits. The LCD timer is known by
the delay it was started with: `timer` while running, `expired` once its event is pending.

### GapRole
`gapQ` and `roleQ` are the message queues of the two host tasks, `GapTurn`, `RoleTurn`, `AppTurn` the scheduler's choice. The radio's interrupt
may fall into a handler; the link layer's task, first in the table, runs when that handler has returned (`late`).
An HCI command acts on the link layer at once and its completion comes as a message. Commands are never refused: the branch for a failed status
(`thb2_peripheral.c:1147-1150`, and its like) that ends in `GAPROLE_ERROR` is left out, so `NeverInError` is about the sequence of messages and not about errors of the controller.

### Measure, Trigger, Battery
The build with contact and relay (`SERVICE_RDS`, `SERVICE_TH_TRG`, no display: THB1, THB2 ...). One action per branch of `adv_measure` (`AdvRepeat`,
`AdvCount`, `AdvStart`, `AdvRead`, `AdvBurst`) and per event (`TimerEvent`, `BattValue`, `PinInput`, `KeyReleased`); `check_battery` is three steps
(`Judge`, `Add`, `Clear`), between which the interrupt `AdcDone` may fall. Time is counted in user intervals: only advertising events at the
user's interval and the timer let `rdsAge` and `battAge` grow. `opens` and `settled` are history variables. `set_trigger_out` leaves a flag alone within the band and
puts it out where the hysteresis is 0; a flag *agrees* with settings and value when another call would leave it as it is.

### Settings, Setpoint
`Settings` is the device with clients that may write anything at any time (`DevSpec`). `store` and `wr` are the EEP as `EepStore` promises it: `Begin`,
`Tear`, `Put` are a write, `Lose` a loss of power in it, `Compact` forgets all objects but one. `app` says where the application's task is: `check`,
`renew`, `formatted`, `format` are the start-up, `saving` is `flash_write_cfg` within a command. `rx` is a write that the link layer has received, `buf` is
`cmd_in_buffer`, `out` the notifications not yet taken by the host. `Slow` lets another event of the task (an erase of a sector, say) last longer than a
connection interval, so that a second write meets an unparsed first one. `kept`, `damaged`, `changes`, `told`, `held`, `lost` are history variables: what the last
save returned, whether the store lost or tore a setting, what was answered since, what the device held since the link came up, and
whether a write was overwritten. `Setpoint` narrows the clients to the phases of the script: connect, write SET, write GET, wait for a
notification of the setpoint, leave; any of them may fail and is tried again. Only the configuration's numbers that `test_config` looks at are
kept; its flags are in `KeyDisplay`.

### Clock
World time is counted in ticks; `rtc` is the counter that wraps, `sec`, `add`, `tik` are `clkt`, `saved` the two registers that survive a reset. `Reading`
is `get_utc_time_sec` with the code's arithmetic: `Delta` with its two branches and the mask, `Micros` in two parts, `Carry`. `Start` restores from
registers or log, `SetTime` is the command, `Ask`, `Compare`, `Arrive` and `Fail` are the script. `base`, `ran`, `readings`, `starts`, `missed`, `synced`, `gap` and
`was` are history variables: since when, how long and how often the clock has been kept up. The calibration of the tick, which the
controller averages, is a constant and right: the properties are about the error of arithmetic and protocol. Of the log there is what `memo_init` takes
a time from: the open sector alone (`open`: how many records, the latest time among them). `Record` is `write_memo`, which closes a sector as soon as it
is full, `CutRecord` a loss of power before it does, `ClearMemo` the command (a clear that is interrupted is left out here; `Logger` has it). `rec` is the
time of the latest record, wherever it is, and `Remembered` what a start after a loss of power has to come back to: that record, if it is in the open sector.

## 3. Runs

| run | question | bounds and why they are enough |
|---|---|---|
| `flash_eep` | generation protocol, no stale reads, refinement, start-up ends | 3 banks of 4 records, 2 objects besides the version, 2 power losses: banks are compacted several times (the counter runs down to `MinGen`), with a second loss during the recovery from the first |
| `flash_eep_persistence` | *violated*: a compaction forgets saved settings | the shortest history, no power loss |
| `ota` | whole images only, refinement of `AppSlot` | three images, one of which has 2^16 blocks (`Wrap` in the model), sectors of 2 blocks so that transfers cross sectors, a chip of 6 blocks where SET checks for 8, addresses modulo 16, a SET below the application, one past the largest flash and one that is taken, 2 losses. The run's clients know the chip's size (`FitAssumption`) |
| `ota_update` | the update completes, and "finished" means installed | damaged blocks, lost links, time-outs and power losses |
| `logger` | refinement of `LogStore`; order, completeness and end of a read-out; one open sector; clock restored | 3 sectors of 2 records, 7 records: the ring wraps; 2 crashes |
| `key_display` | display and sleep state agree, delays counted from their own press, sleeps in the end | 6 edges, commands or restarts |
| `gap_role` | the three layers agree whenever the application runs, never an error, reachable again, user interval restored | 5 connections, keys and commands, 2 fast events: a new change of interval and a connection fall into each phase of one |
| `gap_role_race` | *violated*: a reboot that was asked for is forgotten | 3 inputs |
| `measure` | fresh readings that go on, new settings reach the relay, average in range, low battery noticed | one key press, edge of the contact or connection besides the bursts the device starts by itself, which meet every phase of the count; commands and voltages unbounded. All its safety properties are also proved, for any number |
| `measure_reed` | *violated*: an opening of the contact is not counted | 2 inputs |
| `setpoint` | what was saved comes up, one version one value, true prints, a set takes effect | 2 hosts, 2 runs of script or page with 2 attempts each, one request below, one within and one above the range, a configuration with every number out of range, 1 loss of power at any step: a retry of one host meets a set of the other, and an attempt of each may fall on either side of the loss |
| `clock` | never ahead, never back, late by at most a tick per reading, right after the script set it | a counter of 8 ticks that wraps, a window of 4 that is missed, 12 ticks, 3 readings, sectors of 2 records, so that the open one is empty, in use or full and not yet closed, 1 reset or loss of power, also within `write_memo`, summer time; a tick of 1.5 us in a second of 4 us makes rounding and carry happen at almost every reading. The proofs have the device's numbers |

The type invariants of `FlashEep`, `Ota`, `Logger`, `Measure`, `Settings`, `Clock` and `KeyDisplay` are theorems, and the runs do not repeat them.

`CHECK_DEADLOCK FALSE`: a bounded environment runs out of inputs, crashes or generations, and the device then idles.

Fairness. The processor runs what it has started: flash operations, pending events and messages (`WF` of the tasks); an armed timer expires;
advertising events come while the link layer advertises. In `Logger` a notification that is offered again and again finds a buffer in the end
(`SF`), because the stack sends what it holds. In `Measure` the event of a battery value is handled although the timer's comes first in the order of
the handlers (`SF`), because at least 62 ms pass between two of the timer's. In `OtaUpdate` the user keeps trying and disturbances are bounded. No
fairness is assumed of clients elsewhere.

## 4. What the checks found

1. **A compaction of the EEP keeps at most one object** (`Persistence`). `pack_cfg_fmem` never advances `wraddr` (`flash_eep.c:273`), so
   all survivors are programmed over each other; the version object is lost with them and the next boot formats. `EepStore` states the weaker
   promise the code keeps, and `flash_eep` shows that it does keep that one.
2. **An opening of the contact is not counted** (`EachOpeningCounted`): every reading of the sensors ends in `set_trigger_out`, which copies the pin
   into `flg.pin_input` (`trigger.c:99`). If the reading's event is handled between the edge and its `PIN_INPUT_EVT`, the latter finds no change:
   no count and no burst.
3. **A reboot command can be forgotten** (`RebootOnDisconnect`): the GAP role handles the disconnect before the application parses the command. A link lost by
   supervision timeout ends in `GAPROLE_WAITING_AFTER_TIMEOUT`, which does not reboot either (the same run with `Reasons = {"timeout"}`).

Found while modelling, with what reproduces it:

- *A bounce loses the unit.* Two edges are one event, the handler reads the pin as it is now, and the long press starts again with the toggled
  unit unsaved (`thb2_main.c:887`; `config.h:646`: "Config is saved when key is released in this state"). `KeyDisplay` with `ShortWrites = FALSE`,
  `Bounces = TRUE`, `MaxInputs = 4` violates the invariant `UnitSaved`.
- *A short configuration write can leave the display dark.* The change mask is computed from four bytes of the buffer though fewer were written
  (`cmd_parser.c:179-183`; `config.h:621`: "Re-enable after key press"). `ShortWrites = TRUE`, `Bounces = FALSE`, `MaxInputs = 4` violates the property `KeyWakes`.
- *A setpoint below zero becomes 28 degrees.* `th05_setpoint.py:84` sends `c_x2 & 0xFF`, so -1 degree is 254 half degrees, which the device clamps to
  its upper limit; `docs/thermostat-setpoint.md` has it clamped "to the nearest valid limit". `MCSetpoint` with `Asked <- OutOfByte` violates `SetTakesEffect`.
- *SET lets a transfer past the end of the chip.* `ble_ota.c:155-157` compares with `FLASH_MAX_SIZE`, 2 MB (`ble_ota.h:13`), and the chips have 256 or 512 KB; the
  sum is a `uint32_t`. A block past the end reaches the front of the chip, where the boot firmware is. `MCOta` with `[offset |-> 6, value |-> phy6, total |-> 2]` as its second
  SET (and without `FitAssumption`) violates `BootIntact` in six steps: `PowerUp`, `Connect`, `SetParam`, `DataFirst`, `EraseSector`, `WriteBlock`. The clients of the repository do not send such a
  SET; the theorems about where a transfer writes therefore have the hypothesis `ClientsFit`.
- *The hysteresis has the direction of the page, not of the README.* README.md:300-301 switches on below setpoint + hysteresis when the hysteresis is positive and above
  it when negative; `trigger.c:41-61`, and the tooltips of `PHY62x2BTHome.html` ("negative: the output is on below the setpoint, heater"), the other way round.
  `Measure.cfg` with `SPECIFICATION Spec` and the property `RelayAsDocumented` alone ends after `Connected`, `TimerExpires`, `TimerEvent`: threshold 2, hysteresis -1, value 0, relay on.
- *An interval above 10 s stays in force.* README.md:311-312: "The firmware checks all settings for compliance with Bluetooth SIG standards. If the interval is more than 10 sec,
  it will set 10 sec"; `config.c:164-165` has this check commented out. `Setpoint.cfg` with the invariant `SettingsLegal` is violated by a torn configuration (255, see below), and with an
  interval of 161 or more in `OneCfg` by one that a client sends. What `test_config` does derive, the supervision timeout, is right for every latency (`TimeoutOutlastsLatency`).
- *The clock can begin anew although the log has times.* `memo_init` takes its time from the open sector (`logger.c:97-98`, `119`). `write_memo` closes a sector with the record that fills it
  (`logger.c:213-215`), so after every `MEMO_SEC_RECS`-th record the open one is empty until the next, and so it is after a clear. A loss of power then leaves the clock near 0, and the records that follow are dated
  before those already there. So `NeverBack` promises the time of the latest record only while that record is in the open sector: with `Remembered == Stamp(rec, 0)` it is violated. A reset
  before the first reading of a clock taken from the log counts like a loss of power, for the registers do not have it yet.
- *A SET can be overwritten by the GET that follows it.* Both are accepted by the stack, and there is one buffer (`sbp_profile.c:401`). When
  another event of the task lasts longer than a connection interval the SET is gone, and the script prints the old setpoint as if it had
  been set. `SetTakesEffect` without its `~ lost` shows it.
- *In summer `auto_time_sync.py` sets the clock each time it looks*: it compares with `time.timezone` (line 109) and sets with `time.altzone` (line 82). The
  clock is right all the same (`SyncedClose`). The seconds it compares are those of the last reading, 10 s old with the default intervals, so that a
  difference of more than 3 s need not be a drift.
- *The swapped branches of `get_utc_time_sec`* (`config.c:83-86`) lose one tick of 1/32768 s per reading (`LagBounded`), 3 ppm with a reading every 10 s;
  a connection whose timer is set to more than 64 s loses all full turns of the window (`missed`).
- *A torn configuration comes up all ones.* The power fails between header and data of its record: `flash_read_cfg` returns erased flash, and
  `test_config` corrects what it looks at and neither the flags nor the upper bound of the interval. `SettingsLegal` is violated when power is lost after the header
  (`Tear`): advertising interval, latency, count and period come up as 255. `UpAsSaved` excepts it (`damaged`).

Also, and outside of the models: for an image without an entry point in its header, `start_app` uses `info_seg.waddr` before it has
read a segment (the tools always write an entry point; `NeverLost` assumes `StandardImages`); a sensor whose `measure_interval` times the advertising
interval exceeds 30 minutes is never read, because the repetition of the contact's state starts the count again (`SamplingGoesOn` fails with `RdsStep` below
`MeasureInterval`; `docs/user-introduction.md:47` promises the product as the period, and `test_config` allows 255 times 10 s); two clients of the repository differ on the number of segments (the page accepts 16,
`start_app` and `phy62x2_ota.py` at most 15); SET with `pkt_total` 0 is checked for the place of its first packet only; a START with its own erase address
keeps the old start flag while the image under it changes (so the proof of `FlagMeansImage` assumes `StandardClients`); the end marker of a read-out that
finds no buffer is lost; a power loss inside the EEP's format loop may bring back an old bank (assumption `FormatNotInterrupted`); one between closing a
log sector and opening the next on a wrapped log loses the order (`Interruptible`); an interrupted `clear_memo` keeps records, and may leave two sectors open
(`Logger` with `Interruptible = TRUE` violates `Readable` and `OneOpen`).

## 5. What is proved

The proof modules prove, for every value of the constants that satisfies the modules' assumptions (clients, crashes, banks, records, images,
blocks, ranges of counters):

- `FlashEep`: `FormatNotInterrupted => (Spec => []X)` for `TypeOK`, `ErasedIsBlank`, `OldBankRulesUntilCommit`, `NewBankRulesAfterCommit`,
  `NoStaleRead`, and `FormatNotInterrupted => (Spec => ImplementsStore)`. None of them is inductive. `IInv` adds where each bank stands at each step. In a compaction (`PackInv`) the old bank is the current one and
  the new one is blank, then marked busy, which is above every counter in use; from the commit on the new bank is the current one and
  holds at most one record; a header is only written where there is room. Between starts some bank is in use or the device never came
  up (`Started`, `NeverStarted`), and the format loop (`FormatInv`) has blanked the banks behind it and keeps one counter that the
  loop turns into a started store. `CurrentExists` and `CurrentUnique` tie the `CHOOSE` in `Current` to the smallest counter; each
  action has a lemma. The refinement adds what a compaction keeps (`CopyInv`): the new bank has at most one record, of an object other than the one
  being written, and as the old bank has it. `ReadAppend` and `ReadData` say what a header and its data do to the latest record of an object;
  with them each step has its counterpart: the header is `Tear`, the data `Put`, the commit `Compact`, the start of a format `Wipe`, a power loss
  `Lose`, and everything else leaves the view of the callers alone. `NoStaleRead` follows from the same lemmas. `BusyForBoundedTime` is the part of
  `StartupCompletes` that can be proved: `WorkLeft`, at most `2 * NBanks + BankRecs + 11`, goes down with every flash operation, so that nothing but power losses
  and new writes keeps the store from being idle.
- `Ota`, whatever its client sends: `TypeOK` and `NothingAfterError`; for clients that know the chip's size, whatever else they do (`ClientsFit`), that erases and writes stay inside the
  flash (`WritesStayInFlash`) and leave the boot alone (`BootIntact`), for which the check of SET is needed and is not enough. Their invariant is small (`AnyInv`): while no error is latched
  the destination is not below the application (`AboveBoot`), because SET has checked it (`Taken`) or START has reset it, and a transfer's packets end where the client meant.
  `AddressFits` and `CellFits` say that sums and cells are what they seem to be as long as that end is on the chip; `DivMod`, `AtLeast`, `Small` are the arithmetic under them.
  Under `StandardClients` (no erase address of the client's own, a destination that SET takes is the application's start, as in the run), `SessionIntact`, `FlagMeansImage`,
  `FlagWriteSucceeds`, with `StandardImages` also `NeverLost`, and `Spec => ImplementsAppSlot`. The inductive invariant follows one transfer: how far the erases have got (`Progress`), that the
  packet in hand is the one after the last accepted (`InHand`), that there is no flag from the first erase to the last packet
  (`FlagOut`), that what was erased and not programmed is blank (`BlankAhead`), and that what was accepted is in the flash (`Received`). The refinement maps
  each step to `Drop`, `Install`, `Run`, `Stop` or a stutter.
- `OtaUpdate`: `UpdateSpec => []DoneMeansInstalled`, without a hypothesis about clients, since the page's own START and SET are tame (`TameStep`). Every step of the client with the device is a step of `Ota` or leaves the device alone
  (`UpdateIsOta`), so the invariant of `Ota` holds; `UpdateInv` adds that a packet in hand is of the client's image (`OwnPacket`), that `OTA_END` is only
  answered when that image is in the flash with its flag (`EndIsOwn`), and that nothing writes after the client is done (`DoneIsOwn`).

- `Measure`: `TypeOK`, `FreshReading`, `AverageInRange`, and of the relay `RelayInBand` (in the direction of `trigger.c`, which is not README.md's) and `NoChatter`, a fact about `Switched`. The state falls into four parts, each
  with an invariant of its own. `AdvInv` adds `Counting`: outside of a burst `meas_count` is at most `measure_interval`, within one
  the events left bound it; every event that could break this restarts the advertising, and with it the count. `RelayInv` needs no
  induction over values: `SwitchedInBand` holds after a reading whatever the flag was. `BattInv` says that the sum stands for `count` samples and that only
  a sample is added (`AddsSample`, which the interrupt keeps); `QuotientBetween` is the arithmetic of taking one average out.

- `Settings` with `Setpoint`: `DevSpec => []X` for `TypeOK`, `UpAsSaved`, `VersionTells`, the device with any clients, and
  `ScriptSpec => DevSpec`, so that they hold with the hosts of the run. `TimeoutOutlastsLatency` is the part of the legality of settings that the code has: a supervision timeout within the standard's
  bounds that outlasts twice the latency, for every configuration of bytes. `UpAsSaved` needs what the store holds as long as nothing was
  damaged (`StoreInv`): the object of the last save, nothing where the default was never changed, or a torn one that is being written; and that without a
  version there is no other object, so that the format at a start forgets nothing. `VersionTells` adds (`VersionInv`) that before the counter has gone
  round it grows with every change, that no version told is above that of the last setpoint saved, and that one being saved is above it.
  Of the hosts, `ScriptSpec => PrintedWasTrue`, and `ScriptSpec => SetTakesEffect` when what is asked fits a byte (`Asked \subseteq 0..255`, which
  `OutOfByte` breaks). The queue of notifications is empty without a link and holds only what was in force since the link came up (`LinkInv`);
  an attempt's SET is on its way to its parser with the queue still empty (`Pending`), or alone in force and alone in the queue (`Done`), so that what is printed is its effect (`AttemptInv`).
- `Clock`: `TypeOK`, `NeverAhead`, `LagBounded`, `SyncedClose`, `NeverBack`. `DeltaBounds` says that a reading counts the ticks that passed, or one less,
  while they are fewer than the window, and never more; `MicrosBounds` that the conversion in two parts loses less than a microsecond; `CarryBounds`
  that the carry keeps the sum. The invariant has `tik` the counter as it was `gap` ticks ago (`TickInv`), the registers as good as the RAM
  (`AheadInv`, `BackInv`; where they are not, the latest record while it is in the open sector), and, from the script's comparison to the command's arrival, how old the time sent may be (`SentInv`, `SyncInv`).
- `KeyDisplay`: `TypeOK`; `DarkWhenMeant` when clients write whole configurations, because a display sleeps only while its mode is on and it is not
  turned off; `HeldLongEnough`, because there is one timer, which the task has handled before it starts it for another purpose (`OneTimer`), so that
  its expiry is that of the press as long as the press lasts (`TimerOfPress`). The part of `SleepsInTheEnd` that needs no fairness is proved too
  (`SleepIsTimed`), with short writes and bounces: once the key is up and the task has seen it, no press is under way, and a display that is to sleep but
  is on has its timer running, expired or about to be started (`SleepComes`); its expiry then darkens it. TLC adds that the task runs and the timer expires.
- `GapRole`: `TypeOK`, `LayersAgree`, `OneMeasurer`, and that the role is never in `GAPROLE_ERROR` (`NeverInError`), for any reasons, numbers of fast
  events and numbers of inputs. The invariant is the protocol itself, a case distinction of 14 phases (`Phase`): each says where
  the one message of a start or a stop of the advertising is, and how far the news of the link have come behind it (`BehindGap`, `Coming`,
  `LinkBehind`, `LinkNext`, `LinkKnown`). An interrupt in the middle of a phase moves the news and never the phase (`LinkMovesKeep`); a message belongs to one
  or two phases (`GapHeads`, `RoleHeads`); the application finds three of them (`NoMessages`). The case that decides is `Ending`: a client that
  connects in the handler that stops the advertising is only known to the host after that handler (`late`), so `Ended` has no connection that
  nobody was told of. From the phases also follows a measure of the handlers still to run before the application's turn: `HostWork` counts each
  message with all that will follow from it. It is at most 20, every handler of the link layer, the GAP and the role lowers it, it is 0 exactly when the turn
  is the application's, and only an interrupt of the radio or the application raises it (`ApplicationGetsItsTurn`); no queue holds more than three messages
  (`QueuesShort`). It is the part of `ReachableAgain` that needs no fairness: starts and stops of the advertising cannot feed each other. Of `UserIntervalInTheEnd` the same is proved (`FastIsCounted`): the link layer advertises at the
  interval the application means, at the faster one only with events left to count, each event counts, the last returns to the user's interval, and nothing but
  a key press sets the count above one (`IntervalInv`). What TLC adds is that advertising events keep coming.
- `Logger`: `TypeOK`, `NoGap`, `RestoreSound`, and, when power does not fail between a sector's becoming full and the erasing of the next
  or in a clear (`~Interruptible`), `Readable`, `OneOpen`, `SnapshotRead` and `Spec => ImplementsLog`, for any number and size of sectors. The invariant numbers the sectors on as they are opened since the log was
  last cleared: number `t` lies in sector `t % MEMO_SEC_COUNT` (`At`) and holds the records from `t * MEMO_SEC_RECS + 1` on. `LogInv` says that for some `q` the sectors with
  the last `MEMO_SEC_COUNT - 1` numbers before `q` are full, that those not opened yet have no id, and how far number `q` is; a start-up finds `q` again (`FirstStopIs`, `FilledIs`),
  which is where the restart needs that exactly one sector stops the scan. `PlaceIs` shows that `get_memo` counts back over the numbers, wherever
  the end of the ring is; what it finds is `InPlace`, or, a round back, the open sector, or one without an id, so that it stops. A transfer keeps the number it started from (`ReadInv`),
  so that the record it has come to, as long as the log keeps it, is in its place in a sector that `get_memo` reads (`AskedInPlace`): it is what is sent, and the end is not. For the
  refinement, a sector with an id is that of `q` or of one of the full numbers (`RingNumber`), so the other sectors hold exactly the last records that `LogStore` keeps (`OthersKept`, `LogForgets`),
  and a write leaves no more in the log than there is room for (`LogAppends`).

Only model-checked: the liveness properties (`StartupCompletes`, `UpdateCompletes`, `TransferEnds`, `SleepsInTheEnd`, `ReachableAgain`, `UserIntervalInTheEnd`,
`LowVoltageSleeps`, `SamplingGoesOn`, `RelayFollows`). Liveness under fairness and `ENABLED` are beyond the proof system, and so is induction over
recursively defined data.

## 6. Not modelled

Payload layout and encryption, segment drawing, bus transfers of sensors and display, GATT attribute tables, serial flashing and the script for the
smiley: input to output in one call, with no state another component can disturb. The commands for sensor coefficients, device name,
bind key and MAC address save one object each, in the way `Settings` has it for the setpoint. The SDK is vendored; `GapRole` takes from it what the role
depends on. `ota_boot`, the older boot, copies an image in place with no record of how far it got: a loss of power in that copy leaves neither
image, and there is no protocol to state beyond that.

## 7. Order of the work

`FlashEep` with `EepStore`, its proofs; `Ota` with `AppSlot`, its proofs; `OtaUpdate`; `Logger`; `KeyDisplay`; `GapRole`; `Measure` with
its proofs; `Settings` and `Setpoint` on top of `EepStore`, their proofs; `Clock`, its proofs; the proofs of `KeyDisplay`, `GapRole`, `Logger` and `OtaUpdate`. What would come next:
the older boot with a loss of power in its copy, and the commands for sensor coefficients and keys in `Settings`.

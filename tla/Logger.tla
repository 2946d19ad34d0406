------------------------------- MODULE Logger -------------------------------
(***************************************************************************)
(* The history of measurements: bthome_phy6222/source/logger.c, with its   *)
(* reader (CMD_ID_LOGGER of cmd_parser.c, wrk_notify of sbp_profile.c).    *)
(*                                                                         *)
(* The flash area is a ring of sectors.  A sector has a head (an id, and a *)
(* flag that is programmed to 0 when the sector is full) and room for      *)
(* MEMO_SEC_RECS records, which fill it exactly.  The sector after a full  *)
(* one is erased at once, the oldest records with it.  A client reads      *)
(* records counted back from the newest one at the time of its request, in *)
(* notifications that may have to wait for buffers.                        *)
(*                                                                         *)
(* Abstractions.  Records are numbered as they are written; number n       *)
(* stands for the measurement, which averaging may have made out of        *)
(* several, and one unit of time passes with each.  A record is programmed *)
(* in one step, a sector is erased in one step.  The event handlers of the *)
(* application run one at a time; wrk_notify sends a message per step,     *)
(* since it can stop after any of them and continue in a later event.      *)
(***************************************************************************)
EXTENDS Integers, FiniteSets

CONSTANTS
    MEMO_SEC_COUNT,  (* sectors                                            *)
    MEMO_SEC_RECS,   (* records in a sector                                *)
    Counts,          (* record counts a client asks for                    *)
    Starts,          (* where a client starts to read                      *)
    Interruptible,   (* BOOLEAN: power may fail while a sector that holds  *)
                     (* records is about to be erased                      *)
    MaxRecords,      (* bound: records written in a behaviour              *)
    MaxCrashes       (* bound: resets and power losses in a behaviour      *)

ASSUME LoggerAssumption ==
    /\ MEMO_SEC_COUNT \in Nat \ {0, 1} /\ MEMO_SEC_RECS \in Nat \ {0}
    /\ Counts \subseteq Nat \ {0} /\ Starts \subseteq Nat
    /\ Interruptible \in BOOLEAN
    /\ MaxRecords \in Nat /\ MaxCrashes \in Nat

Sectors == 0 .. MEMO_SEC_COUNT - 1
Slots   == 0 .. MEMO_SEC_RECS - 1

VARIABLES
    sec,      (* sec[s]: sector s                                          *)
    memo,     (* memo.faddr, as a sector and the records in it; RAM        *)
    pc, at,   (* the next flash operation, and its sector                  *)
    clkt,     (* clkt.utc_time_sec, 0 when not set                         *)
    rd,       (* rd_memo; asked is the newest record when it was set       *)
    timer,    (* WRK_NOTIFY_EVT is to come                                 *)
    conn,     (* a client is connected                                     *)
    last,     (* the last index sent since the request                     *)
    written,  (* records written so far                                    *)
    cleared,  (* records written when the log was last cleared             *)
    crashes

flashVars == <<sec, written>>
readVars  == <<rd, timer, conn, last>>
vars == <<sec, memo, pc, at, clkt, rd, timer, conn, last, written, cleared,
          crashes>>

Erased == [n |-> 0, time |-> 0]
NoRead == [sec |-> 0, saved |-> 0, cnt |-> 0, cur |-> 0, asked |-> 0]
Blank  == [id |-> FALSE, closed |-> FALSE, recs |-> [i \in Slots |-> Erased]]

Next1(s) == (s + 1) % MEMO_SEC_COUNT      (* test_next_memo_sec_addr       *)

(* The record that fills the sector.  Mutant: one too early.               *)
IsLastEarly(i) == i >= MEMO_SEC_RECS - 2

IsLast(i) == i >= MEMO_SEC_RECS - 1

-----------------------------------------------------------------------------
Init ==
    /\ sec = [s \in Sectors |-> Blank]
    /\ memo = [sec |-> 0, cnt |-> 0]
    /\ pc = "off" /\ at = 0
    /\ clkt = 0
    /\ rd = NoRead
    /\ timer = FALSE /\ conn = FALSE /\ last = 0
    /\ written = 0 /\ cleared = 0 /\ crashes = 0

Idle == pc = "idle"

-----------------------------------------------------------------------------
(***************************************************************************)
(* Writing.                                                                *)
(***************************************************************************)

(* write_memo, as far as the record itself.                                *)
WriteMemo ==
    /\ Idle /\ written < MaxRecords
    /\ written' = written + 1
    /\ clkt' = clkt + 1
    /\ sec' = [sec EXCEPT ![memo.sec].recs[memo.cnt] =
                  [n |-> written', time |-> clkt']]
    /\ IF IsLast(memo.cnt)
       THEN pc' = "close" /\ at' = memo.sec /\ UNCHANGED memo
       ELSE memo' = [memo EXCEPT !.cnt = @ + 1] /\ UNCHANGED <<pc, at>>
    /\ UNCHANGED readVars /\ UNCHANGED <<cleared, crashes>>

(* Mutant: the sector is left open.                                        *)
CloseUnmarked ==
    /\ pc = "close"
    /\ pc' = "erase" /\ at' = Next1(at)
    /\ UNCHANGED readVars
    /\ UNCHANGED <<sec, memo, clkt, written, cleared, crashes>>

(* memo_sec_close: the full sector, then the next one.                     *)
Close ==
    /\ pc = "close"
    /\ sec' = [sec EXCEPT ![at].closed = TRUE]
    /\ pc' = "erase" /\ at' = Next1(at)
    /\ UNCHANGED readVars
    /\ UNCHANGED <<memo, clkt, written, cleared, crashes>>

(* memo_sec_init: erase, ...                                               *)
Erase ==
    /\ pc = "erase"
    /\ sec' = [sec EXCEPT ![at] = Blank]
    /\ pc' = "head"
    /\ UNCHANGED readVars
    /\ UNCHANGED <<memo, at, clkt, written, cleared, crashes>>

(* ... and program the head.                                               *)
WriteHead ==
    /\ pc = "head"
    /\ sec' = [sec EXCEPT ![at].id = TRUE]
    /\ memo' = [sec |-> at, cnt |-> 0]
    /\ pc' = "idle"
    /\ UNCHANGED readVars
    /\ UNCHANGED <<at, clkt, written, cleared, crashes>>

(* clear_memo, for CMD_ID_CLRLOG: all sectors but the first, ...           *)
ClearMemo ==
    /\ Idle /\ conn
    /\ pc' = "clear" /\ at' = 1
    /\ memo' = [memo EXCEPT !.cnt = 0]
    /\ cleared' = written
    /\ UNCHANGED readVars /\ UNCHANGED <<sec, clkt, written, crashes>>

(* Mutant: the last sector is not looked at.                               *)
ClearSectorShort ==
    /\ pc = "clear"
    /\ sec' = [sec EXCEPT ![at] = Blank]
    /\ IF at + 1 >= MEMO_SEC_COUNT - 1 THEN pc' = "erase" /\ at' = 0
                                       ELSE pc' = pc /\ at' = at + 1
    /\ UNCHANGED readVars
    /\ UNCHANGED <<memo, clkt, written, cleared, crashes>>

(* ... those with an id erased one by one, and memo_sec_init of the first. *)
ClearSector ==
    /\ pc = "clear"
    /\ sec' = [sec EXCEPT ![at] = IF sec[at].id THEN Blank ELSE @]
    /\ IF at = MEMO_SEC_COUNT - 1 THEN pc' = "erase" /\ at' = 0
                                  ELSE pc' = pc /\ at' = at + 1
    /\ UNCHANGED readVars
    /\ UNCHANGED <<memo, clkt, written, cleared, crashes>>

-----------------------------------------------------------------------------
(***************************************************************************)
(* Start-up.                                                               *)
(***************************************************************************)

(* A sector the scan of memo_init stops at: no id, or not closed.          *)
Stops == {s \in Sectors : ~sec[s].id \/ ~sec[s].closed}
First(S) == CHOOSE s \in S : \A t \in S : s <= t

(* The records of sector s, up to the first erased one.                    *)
Filled(s) ==
    Cardinality({i \in Slots : \A j \in 0 .. i : sec[s].recs[j].time # 0})

(* restore_time: a clock that was not kept continues from the latest       *)
(* record in the open sector.  Mutant: even when the clock was kept.       *)
RestoreTimeAlways(s) ==
    IF Filled(s) = 0 THEN clkt
    ELSE CHOOSE t \in {sec[s].recs[i].time : i \in 0 .. Filled(s) - 1} :
            \A i \in 0 .. Filled(s) - 1 : sec[s].recs[i].time <= t

RestoreTime(s) ==
    IF clkt # 0 \/ Filled(s) = 0 THEN clkt
    ELSE CHOOSE t \in {sec[s].recs[i].time : i \in 0 .. Filled(s) - 1} :
            \A i \in 0 .. Filled(s) - 1 : sec[s].recs[i].time <= t

(* memo_init.                                                              *)
MemoInit ==
    /\ pc = "off"
    /\ IF Stops = {} THEN pc' = "erase" /\ at' = 0 /\ UNCHANGED <<memo, clkt>>
       ELSE LET s == First(Stops) IN
            IF ~sec[s].id
            THEN pc' = "erase" /\ at' = s /\ UNCHANGED <<memo, clkt>>
            ELSE /\ clkt' = RestoreTime(s)
                 /\ memo' = [sec |-> s, cnt |-> Filled(s)]
                 /\ at' = s
                 /\ pc' = IF Filled(s) = MEMO_SEC_RECS THEN "close" ELSE "idle"
    /\ UNCHANGED readVars /\ UNCHANGED <<sec, written, cleared, crashes>>

(* A reset keeps the clock (in SLEEP_R), a power loss does not.            *)
Crash ==
    /\ pc # "off" /\ crashes < MaxCrashes
    /\ \/ Interruptible
       \/ pc # "clear" /\ ~(pc = "erase" /\ sec[at].id)
    /\ crashes' = crashes + 1
    /\ pc' = "off"
    /\ clkt' \in {0, clkt}
    /\ rd' = NoRead
    /\ timer' = FALSE /\ conn' = FALSE /\ last' = 0
    /\ UNCHANGED <<sec, memo, at, written, cleared>>

(* The client sets the clock.                                              *)
SetTime ==
    /\ Idle /\ conn
    /\ clkt' = written
    /\ UNCHANGED readVars
    /\ UNCHANGED <<sec, memo, pc, at, written, cleared, crashes>>

-----------------------------------------------------------------------------
(***************************************************************************)
(* Reading.                                                                *)
(***************************************************************************)

Back(s, k) == (s + k * (MEMO_SEC_COUNT - 1)) % MEMO_SEC_COUNT

(* Where get_memo finds record number bnum, counted back from a position   *)
(* in the log.  Mutant: a full sector back is one record short.            *)
PlaceShort(pos, cnt, bnum) ==
    IF bnum <= cnt THEN <<pos, cnt - bnum>>
    ELSE <<Back(pos, 1 + (bnum - cnt) \div MEMO_SEC_RECS),
           MEMO_SEC_RECS - 1 - ((bnum - cnt) % MEMO_SEC_RECS)>>

Place(pos, cnt, bnum) ==
    IF bnum <= cnt THEN <<pos, cnt - bnum>>
    ELSE LET before == bnum - cnt - 1
         IN  <<Back(pos, 1 + before \div MEMO_SEC_RECS),
               MEMO_SEC_RECS - 1 - (before % MEMO_SEC_RECS)>>

(* get_memo returns 0 when that is not in a closed sector, unless it is in *)
(* the sector the count starts from.                                       *)
Found(cnt, bnum, place) ==
    bnum <= cnt \/ (sec[place[1]].id /\ sec[place[1]].closed)
GetMemo(place) == sec[place[1]].recs[place[2]]

(* CMD_ID_LOGGER: remember the position, and start to notify.              *)
Request(cnt, start) ==
    /\ Idle /\ conn
    /\ rd' = [sec |-> memo.sec, saved |-> memo.cnt, cnt |-> cnt, cur |-> start,
              asked |-> written]
    /\ timer' = TRUE
    /\ last' = start
    /\ UNCHANGED <<sec, memo, pc, at, clkt, conn, written, cleared, crashes>>

(* CMD_ID_LOGGER with a count of 0 stops a transfer.                       *)
RequestNone ==
    /\ Idle /\ conn
    /\ rd' = [rd EXCEPT !.cnt = 0] /\ timer' = TRUE
    /\ UNCHANGED <<sec, memo, pc, at, clkt, conn, last, written, cleared, crashes>>

(* The next message of send_memo_blk carries a record.                     *)
NextPlace == Place(rd.sec, rd.saved, rd.cur + 1)
HasRecord == rd.cur + 1 <= rd.cnt /\ Found(rd.saved, rd.cur + 1, NextPlace)

(* wrk_notify outside a transfer.                                          *)
NotifyNothing ==
    /\ Idle /\ timer /\ rd.cnt = 0
    /\ timer' = FALSE
    /\ UNCHANGED flashVars
    /\ UNCHANGED <<memo, pc, at, clkt, rd, conn, last, cleared, crashes>>

(* A record is sent.                                                       *)
NotifyRecord ==
    /\ Idle /\ timer /\ rd.cnt # 0 /\ conn /\ HasRecord
    /\ rd' = [rd EXCEPT !.cur = @ + 1]
    /\ last' = rd.cur + 1
    /\ UNCHANGED flashVars
    /\ UNCHANGED <<memo, pc, at, clkt, timer, conn, cleared, crashes>>

(* The end of the transfer is sent.                                        *)
NotifyEnd ==
    /\ Idle /\ timer /\ rd.cnt # 0 /\ conn /\ ~HasRecord
    /\ rd' = [rd EXCEPT !.cur = @ + 1, !.cnt = 0]
    /\ timer' = FALSE
    /\ UNCHANGED flashVars
    /\ UNCHANGED <<memo, pc, at, clkt, conn, last, cleared, crashes>>

(* Mutant: cur is not set back when there was no buffer.                   *)
NotifyBusySkips ==
    /\ Idle /\ timer /\ rd.cnt # 0 /\ conn
    /\ rd' = [rd EXCEPT !.cnt = IF HasRecord THEN @ ELSE 0, !.cur = @ + 1]
    /\ UNCHANGED flashVars
    /\ UNCHANGED <<memo, pc, at, clkt, timer, conn, last, cleared, crashes>>

(* Mutant: the event does not come again.                                  *)
NotifyBusyForgets ==
    /\ Idle /\ timer /\ rd.cnt # 0 /\ conn
    /\ timer' = FALSE
    /\ UNCHANGED flashVars
    /\ UNCHANGED <<memo, pc, at, clkt, rd, conn, last, cleared, crashes>>

(* No buffer: cur is set back and the event comes again.  When it was the  *)
(* end that found no buffer, cnt is 0 already.                             *)
NotifyBusy ==
    /\ Idle /\ timer /\ rd.cnt # 0 /\ conn
    /\ rd' = [rd EXCEPT !.cnt = IF HasRecord THEN @ ELSE 0]
    /\ UNCHANGED flashVars
    /\ UNCHANGED <<memo, pc, at, clkt, timer, conn, last, cleared, crashes>>

(* No connection: the message is lost and nothing is tried again.          *)
NotifyGone ==
    /\ Idle /\ timer /\ rd.cnt # 0 /\ ~conn
    /\ rd' = [rd EXCEPT !.cnt = IF HasRecord THEN @ ELSE 0, !.cur = @ + 1]
    /\ timer' = FALSE
    /\ UNCHANGED flashVars
    /\ UNCHANGED <<memo, pc, at, clkt, conn, last, cleared, crashes>>

Link ==
    /\ pc # "off"
    /\ conn' = ~conn
    /\ UNCHANGED flashVars
    /\ UNCHANGED <<memo, pc, at, clkt, rd, timer, last, cleared, crashes>>

-----------------------------------------------------------------------------
FlashOp == Close \/ Erase \/ WriteHead \/ ClearSector
Notify  == NotifyNothing \/ NotifyRecord \/ NotifyEnd \/ NotifyGone

Next ==
    \/ WriteMemo \/ FlashOp \/ ClearMemo
    \/ MemoInit \/ Crash
    \/ SetTime
    \/ \E c \in Counts, s \in Starts : Request(c, s)
    \/ RequestNone
    \/ Notify \/ NotifyBusy
    \/ Link

Spec == Init /\ [][Next]_vars

(* Flash operations end; OSAL runs a pending event; buffers come free, so  *)
(* a message that is offered again and again is taken.                     *)
Fairness ==
    /\ WF_vars(FlashOp) /\ WF_vars(MemoInit)
    /\ WF_vars(NotifyNothing) /\ WF_vars(NotifyGone)
    /\ SF_vars(NotifyRecord) /\ SF_vars(NotifyEnd)

FairSpec == Spec /\ Fairness

-----------------------------------------------------------------------------
(***************************************************************************)
(* Properties.                                                             *)
(***************************************************************************)
TypeOK ==
    /\ sec \in [Sectors -> [id: BOOLEAN, closed: BOOLEAN,
                            recs: [Slots -> [n: 0 .. MaxRecords,
                                             time: 0 .. MaxRecords]]]]
    /\ memo \in [sec: Sectors, cnt: 0 .. MEMO_SEC_RECS]
    /\ Idle => memo.cnt < MEMO_SEC_RECS
    /\ pc \in {"off", "idle", "close", "erase", "head", "clear"}
    /\ at \in Sectors
    /\ clkt \in 0 .. MaxRecords
    /\ rd \in [sec: Sectors, saved: 0 .. MEMO_SEC_RECS, cnt: Counts \union {0},
               cur: Nat, asked: 0 .. MaxRecords]
    /\ timer \in BOOLEAN /\ conn \in BOOLEAN
    /\ last \in Nat
    /\ written \in 0 .. MaxRecords /\ cleared \in 0 .. written
    /\ crashes \in 0 .. MaxCrashes

Retained == (MEMO_SEC_COUNT - 1) * MEMO_SEC_RECS
Least(a, b) == IF a <= b THEN a ELSE b

(* Counting back from the write position, get_memo finds the records in    *)
(* the order they were written, without a gap, from the newest one; it     *)
(* finds as many as were written since the log was cleared, up to all the  *)
(* sectors but one, and none that was written before.                      *)
Readable ==
    Idle => \A k \in 1 .. MEMO_SEC_COUNT * MEMO_SEC_RECS :
               LET place == Place(memo.sec, memo.cnt, k)
               IN  IF Found(memo.cnt, k, place)
                   THEN /\ GetMemo(place).n = written + 1 - k
                        /\ GetMemo(place).n > cleared
                   ELSE k > Least(written - cleared, Retained)

(* The walk back is bounded by the ring: exactly one sector is open, or    *)
(* about to be.                                                            *)
OneOpen == Idle => Stops \cap {s \in Sectors : sec[s].id} = {memo.sec}

(* A transfer reads at the position it was asked at, while records are     *)
(* being added.  As long as the record that it has come to is one that the *)
(* log keeps, that is the record it sends, and it does not end before it   *)
(* has sent as many as were asked for.                                     *)
Kept(n) == n > cleared /\ n > written - Retained
SnapshotRead ==
    [][Kept(rd.asked - rd.cur)
       => /\ NotifyRecord => GetMemo(NextPlace).n = rd.asked - rd.cur
          /\ NotifyEnd => rd.cur >= rd.cnt]_vars

(* The ring of sectors implements LogStore: erasing the next sector takes  *)
(* away exactly the records that are older than the last Retained ones;    *)
(* closing, opening, restarts and readers take none.                       *)
InLog == {n \in cleared + 1 .. written :
             \E s \in Sectors, i \in Slots : sec[s].id /\ sec[s].recs[i].n = n}
Log == INSTANCE LogStore
          WITH log <- InLog, top <- written,
               Capacity <- MEMO_SEC_COUNT * MEMO_SEC_RECS
ImplementsLog == Log!LogSpec

(* Whatever waits for buffers, records are sent one after the other.       *)
NoGap ==
    [][last' # last => \/ last' = last + 1
                       \/ crashes' # crashes
                       \/ \E c \in Counts, s \in Starts : Request(c, s)]_vars

(* The clock is never set back by a start-up, nor ahead of the time of the *)
(* last record.                                                            *)
RestoreSound == [][pc = "off" /\ clkt' # clkt => clkt = 0 /\ clkt' <= written]_vars

(* A transfer that the client does not start anew comes to its end, unless *)
(* the client goes away.                                                   *)
NewRequest == \E c \in Counts, s \in Starts : Request(c, s)
TransferEnds ==
    <>[][~NewRequest]_vars => (rd.cnt # 0 /\ timer ~> rd.cnt = 0 \/ ~conn)
=============================================================================

------------------------------ MODULE FlashEep ------------------------------
(***************************************************************************)
(* The EEP object store of bthome_phy6222/source/flash_eep.c: settings are *)
(* records appended to one of NBanks flash sectors; word 0 of a sector is  *)
(* a generation counter that goes down with every compaction, so that the  *)
(* sector with the smallest counter is the current one.                    *)
(*                                                                         *)
(* The flash is NOR: an erase sets a whole sector to ones, a write only    *)
(* clears bits (writing x over y leaves x & y).  One step below is one     *)
(* flash operation, so that a power loss (Crash) can hit between any two.  *)
(*                                                                         *)
(* Abstractions.  A record (header word and data) takes one place of its   *)
(* bank, whatever its size.  A record is [id, val]; val = Torn is a header *)
(* whose data was not written.  Two different records written over each    *)
(* other leave a Mixed record, that has no caller's id.  The counter has   *)
(* one bit over Half: Half stands for 2^31.                                *)
(***************************************************************************)
EXTENDS Integers, Sequences, FiniteSets

CONSTANTS
    NBanks,      (* FMEMORY_SCFG_BANKS                                      *)
    BankRecs,    (* records that fit in one bank                            *)
    Ids,         (* object ids a caller writes                              *)
    Ver,         (* EEP_ID_VER, the id of the layout version                *)
    Values,      (* values a caller writes                                  *)
    Versions,    (* values of the object Ver: APP_VERSION of some build     *)
    NoVal, Torn, (* a missing object, a record without data                 *)
    MixedId,     (* the id of records written over each other               *)
    Half,        (* 2^31: half of the counter's range                       *)
    MinGen,      (* bound: an idle device compacts only above this counter  *)
    MaxCrashes,  (* bound: power losses in a behaviour                      *)
    CrashPoints  (* the program points at which the power may fail          *)

Banks == 0 .. NBanks - 1

Steps == {"boot", "idle", "erase", "busy", "copy", "eraseOld", "hdr",
          "data", "fmtErase", "fmtGen"}

ASSUME BanksAssumption == NBanks \in Nat /\ NBanks >= 2
ASSUME SizesAssumption ==
    /\ BankRecs \in Nat /\ BankRecs >= 2
    /\ Half \in Nat /\ Half >= 2
    /\ MinGen \in Nat /\ MinGen >= 1
    /\ MaxCrashes \in Nat
ASSUME IdsAssumption ==
    /\ Ver \notin Ids /\ MixedId \notin Ids /\ MixedId # Ver
    /\ NoVal \notin Values \union Versions
    /\ Torn \notin Values \union Versions
    /\ NoVal # Torn
(* NoVal also stands for "no write under way" in the refinement.           *)
ASSUME NoWriteAssumption ==
    NoVal \notin [id: Ids \union {Ver}, val: Values \union Versions \union {Torn}]
ASSUME CrashAssumption == CrashPoints \subseteq Steps

VARIABLES
    gen,      (* gen[b]: word 0 of bank b                                  *)
    bank,     (* bank[b]: the records of bank b, oldest first              *)
    pc,       (* which flash operation comes next                          *)
    op,       (* the object being written: the arguments of flash_write_cfg *)
    seg,      (* the bank of the write in progress                         *)
    scan,     (* pack_cfg_fmem: index of the record it looks at; the       *)
              (* format loop: the bank it is at                            *)
    word,     (* the format loop's tmp: the counter read before the erase  *)
    crashes,  (* power losses so far                                       *)
    acked     (* history: the last value whose write returned              *)

flash == <<gen, bank>>
vars == <<gen, bank, pc, op, seg, scan, word, crashes, acked>>

AllIds == Ids \union {Ver}
Erased == 2 * Half - 1        (* 0xFFFFFFFF *)
Busy   == Half - 1            (* 0x7FFFFFFF *)
(* Programming x over 0x7FFFFFFF clears the top bit of x.                  *)
LowBits(x) == IF x >= Half THEN x - Half ELSE x

Record == [id: AllIds \union {MixedId},
           val: Values \union Versions \union {Torn}]
Mixed  == [id |-> MixedId, val |-> Torn]

(***************************************************************************)
(* Reading.                                                                *)
(***************************************************************************)

(* get_addr_bscfg: the first of the banks with the smallest counter.       *)
Current ==
    CHOOSE b \in Banks :
        \A c \in Banks : gen[b] < gen[c] \/ (gen[b] = gen[c] /\ b <= c)

(* get_addr_fobj(.., false): the places of the records of id i in bank b.  *)
Places(b, i) == {k \in 1 .. Len(bank[b]) : bank[b][k].id = i}

(* Mutant: the search stops at the first record of the id.                 *)
EarliestPlace(b, i) ==
    CHOOSE k \in Places(b, i) : \A m \in Places(b, i) : k <= m

Latest(b, i) ==
    CHOOSE k \in Places(b, i) : \A m \in Places(b, i) : m <= k

(* flash_read_cfg.                                                         *)
Read(i) ==
    IF Places(Current, i) = {} THEN NoVal
    ELSE bank[Current][Latest(Current, i)].val

(* get_addr_fobj_save: there is room for one more record.                  *)
HasRoom(b) == Len(bank[b]) < BankRecs

(* Bank contents s after record r is programmed at the first place.        *)
Overwrite(s, r) ==
    CASE s = <<>> -> <<r>>
      [] s # <<>> /\ s[1] = r -> s
      [] OTHER -> [s EXCEPT ![1] = Mixed]

-----------------------------------------------------------------------------
Init ==
    /\ gen = [b \in Banks |-> Erased]
    /\ bank = [b \in Banks |-> <<>>]
    /\ pc = "boot"
    /\ op = [id |-> Ver, val |-> Torn]
    /\ seg = 0 /\ scan = 0 /\ word = 0
    /\ crashes = 0
    /\ acked = [i \in AllIds |-> NoVal]

(* Bound: the counter has not run out (2^31 compactions, beyond the        *)
(* endurance of the flash).                                                *)
CounterLeft(b) == LowBits(gen[b]) > 0

(* _flash_write_cfg up to its first flash operation: append to the current *)
(* bank, or compact first when the record does not fit.                    *)
BeginWrite(i, v) ==
    /\ op' = [id |-> i, val |-> v]
    /\ seg' = Current
    /\ pc' = IF HasRoom(Current) THEN "hdr" ELSE "erase"
    /\ HasRoom(Current) \/ CounterLeft(Current)

(* flash_write_cfg(ptr, id, size) of an object that differs from the       *)
(* stored one.                                                             *)
WriteCfg(i, v) ==
    /\ pc = "idle"
    /\ Read(i) # v
    /\ HasRoom(Current) \/ LowBits(gen[Current]) > MinGen
    /\ BeginWrite(i, v)
    /\ UNCHANGED <<gen, bank, scan, word, crashes, acked>>

(* flash_write_cfg of an object that is stored already: no flash write.    *)
WriteIdentical(i, v) ==
    /\ pc = "idle"
    /\ Read(i) = v
    /\ acked' = [acked EXCEPT ![i] = v]
    /\ UNCHANGED <<gen, bank, pc, op, seg, scan, word, crashes>>

(* _flash_write_cfg: the header word.                                      *)
WriteHeader ==
    /\ pc = "hdr"
    /\ bank' = [bank EXCEPT ![seg] = Append(@, [id |-> op.id, val |-> Torn])]
    /\ pc' = "data"
    /\ UNCHANGED <<gen, op, seg, scan, word, crashes, acked>>

(* _flash_write_cfg: the data, and the return to the caller.               *)
WriteData ==
    /\ pc = "data"
    /\ bank' = [bank EXCEPT ![seg][Len(bank[seg])].val = op.val]
    /\ acked' = [acked EXCEPT ![op.id] = op.val]
    /\ pc' = "idle"
    /\ UNCHANGED <<gen, op, seg, scan, word, crashes>>

-----------------------------------------------------------------------------
(***************************************************************************)
(* pack_cfg_fmem.  seg is the old bank until the old bank is erased.       *)
(***************************************************************************)
NewSeg == IF seg + 1 >= NBanks THEN 0 ELSE seg + 1

(* The new bank is erased unless its first word is erased already.         *)
PackErase ==
    /\ pc = "erase"
    /\ IF gen[NewSeg] # Erased
       THEN /\ gen' = [gen EXCEPT ![NewSeg] = Erased]
            /\ bank' = [bank EXCEPT ![NewSeg] = <<>>]
       ELSE UNCHANGED flash
    /\ pc' = "busy"
    /\ UNCHANGED <<op, seg, scan, word, crashes, acked>>

(* Mutant: the counter that makes the new bank current is written first.   *)
PackBusyWithCounter ==
    /\ pc = "busy"
    /\ gen' = [gen EXCEPT ![NewSeg] = gen[seg] - 1]
    /\ scan' = 1
    /\ pc' = "copy"
    /\ UNCHANGED <<bank, op, seg, word, crashes, acked>>

(* The new bank is marked as taken.                                        *)
PackBusy ==
    /\ pc = "busy"
    /\ gen' = [gen EXCEPT ![NewSeg] = Busy]
    /\ scan' = 1
    /\ pc' = "copy"
    /\ UNCHANGED <<bank, op, seg, word, crashes, acked>>

(* One turn of the copy loop.  The latest record of every other id is      *)
(* programmed at wraddr, which stays at the bank's first place throughout. *)
PackCopy ==
    /\ pc = "copy"
    /\ scan <= Len(bank[seg])
    /\ LET r == bank[seg][scan]
           latest == bank[seg][Latest(seg, r.id)]
       IN  IF r.id # op.id /\ Places(NewSeg, r.id) = {}
           THEN bank' = [bank EXCEPT ![NewSeg] = Overwrite(@, latest)]
           ELSE UNCHANGED bank
    /\ scan' = scan + 1
    /\ UNCHANGED <<gen, pc, op, seg, word, crashes, acked>>

(* Mutant: the counter counts up.                                          *)
PackCommitUp ==
    /\ pc = "copy"
    /\ scan > Len(bank[seg])
    /\ gen' = [gen EXCEPT ![NewSeg] = LowBits(gen[seg] + 1)]
    /\ pc' = "eraseOld"
    /\ UNCHANGED <<bank, op, seg, scan, word, crashes, acked>>

(* The new bank becomes the current one: old counter - 1, programmed over  *)
(* 0x7FFFFFFF.                                                             *)
PackCommit ==
    /\ pc = "copy"
    /\ scan > Len(bank[seg])
    /\ gen' = [gen EXCEPT ![NewSeg] = LowBits(gen[seg] - 1)]
    /\ pc' = "eraseOld"
    /\ UNCHANGED <<bank, op, seg, scan, word, crashes, acked>>

(* The old bank is erased, and the caller goes on in the new one if the    *)
(* record fits.                                                            *)
PackEraseOld ==
    /\ pc = "eraseOld"
    /\ gen' = [gen EXCEPT ![seg] = Erased]
    /\ bank' = [bank EXCEPT ![seg] = <<>>]
    /\ seg' = NewSeg
    /\ pc' = IF HasRoom(NewSeg) THEN "hdr" ELSE "idle"
    /\ UNCHANGED <<op, scan, word, crashes, acked>>

-----------------------------------------------------------------------------
(***************************************************************************)
(* Start-up: load_eep_config calls flash_supported_eep_ver(0, APP_VERSION).*)
(* The build that starts may differ from the one that ran before.          *)
(***************************************************************************)

(* get_addr_bscfg on a blank store marks bank 0 (first start).             *)
BootFirstStart ==
    /\ pc = "boot"
    /\ gen[Current] = Erased
    /\ gen' = [gen EXCEPT ![Current] = Busy]
    /\ UNCHANGED <<bank, pc, op, seg, scan, word, crashes, acked>>

(* A version object is there: keep the objects, bring the version up to    *)
(* date.                                                                   *)
BootSupported(v) ==
    /\ pc = "boot"
    /\ gen[Current] # Erased
    /\ Read(Ver) # NoVal
    /\ IF Read(Ver) = v
       THEN /\ pc' = "idle"
            /\ UNCHANGED <<op, seg>>
       ELSE BeginWrite(Ver, v)
    /\ UNCHANGED <<gen, bank, scan, word, crashes, acked>>

(* Mutant: a store without a version is left for the next start.           *)
BootFormatNever ==
    /\ pc = "boot"
    /\ gen[Current] # Erased
    /\ Read(Ver) = NoVal
    /\ acked' = [i \in AllIds |-> NoVal]
    /\ UNCHANGED <<gen, bank, pc, op, seg, scan, word, crashes>>

(* No version object: every bank is erased in turn, and its counter moved  *)
(* down by one.                                                            *)
BootFormat ==
    /\ pc = "boot"
    /\ gen[Current] # Erased
    /\ Read(Ver) = NoVal
    /\ \A b \in Banks : CounterLeft(b)
    /\ scan' = 0
    /\ acked' = [i \in AllIds |-> NoVal]
    /\ pc' = "fmtErase"
    /\ UNCHANGED <<gen, bank, op, seg, word, crashes>>

FormatErase ==
    /\ pc = "fmtErase"
    /\ word' = gen[scan]
    /\ gen' = [gen EXCEPT ![scan] = Erased]
    /\ bank' = [bank EXCEPT ![scan] = <<>>]
    /\ pc' = "fmtGen"
    /\ UNCHANGED <<op, seg, scan, crashes, acked>>

(* The counter of the bank just erased; after the last bank the new        *)
(* version is written with flash_write_cfg.                                *)
FormatGen(v) ==
    /\ pc = "fmtGen"
    /\ gen' = [gen EXCEPT ![scan] = word - 1]
    /\ IF scan < NBanks - 1
       THEN /\ scan' = scan + 1
            /\ pc' = "fmtErase"
            /\ UNCHANGED <<op, seg>>
       ELSE /\ op' = [id |-> Ver, val |-> v]
            /\ seg' = Current'
            /\ pc' = "hdr"
            /\ UNCHANGED scan
    /\ UNCHANGED <<bank, word, crashes, acked>>

(* The power fails, or the chip resets: only the flash remains.            *)
Crash ==
    /\ pc \in CrashPoints
    /\ crashes < MaxCrashes
    /\ crashes' = crashes + 1
    /\ pc' = "boot"
    /\ UNCHANGED <<gen, bank, op, seg, scan, word, acked>>

Next ==
    \/ \E i \in Ids, v \in Values : WriteCfg(i, v)
    \/ \E i \in Ids, v \in Values : WriteIdentical(i, v)
    \/ WriteHeader \/ WriteData
    \/ PackErase \/ PackBusy \/ PackCopy \/ PackCommit \/ PackEraseOld
    \/ BootFirstStart \/ BootFormat \/ FormatErase
    \/ \E v \in Versions : BootSupported(v)
    \/ \E v \in Versions : FormatGen(v)
    \/ Crash

Spec == Init /\ [][Next]_vars

(* The code runs to the end of what it started; calls of flash_write_cfg   *)
(* and power losses need not happen.                                       *)
Running ==
    \/ WriteHeader \/ WriteData
    \/ PackErase \/ PackBusy \/ PackCopy \/ PackCommit \/ PackEraseOld
    \/ BootFirstStart \/ BootFormat \/ FormatErase
    \/ \E v \in Versions : BootSupported(v)
    \/ \E v \in Versions : FormatGen(v)

FairSpec == Spec /\ WF_vars(Running)

-----------------------------------------------------------------------------
(***************************************************************************)
(* Properties.                                                             *)
(***************************************************************************)

(* The power does not fail inside the format loop: see the README for what *)
(* happens when it does.                                                   *)
FormatNotInterrupted == CrashPoints \cap {"fmtErase", "fmtGen"} = {}

(* The state is well formed: banks hold at most BankRecs records, counters *)
(* stay within their word.                                                 *)
TypeOK ==
    /\ gen \in [Banks -> 0 .. Erased]
    /\ bank \in [Banks -> Seq(Record)]
    /\ \A b \in Banks : Len(bank[b]) <= BankRecs
    /\ pc \in Steps
    /\ op \in [id: AllIds, val: Values \union Versions \union {Torn}]
    /\ seg \in Banks
    /\ scan \in Nat
    /\ word \in Nat
    /\ crashes \in 0 .. MaxCrashes
    /\ acked \in [AllIds -> Values \union Versions \union {NoVal}]

(* A bank whose first word is erased holds no record.  pack_cfg_fmem only  *)
(* looks at that word to decide that the bank need not be erased; a record *)
(* left there would be programmed over.                                    *)
ErasedIsBlank == \A b \in Banks : gen[b] = Erased => bank[b] = <<>>

(* Until pack_cfg_fmem writes the new counter, the old bank is still the   *)
(* current one: a power loss during the copy restarts with the store as it *)
(* was.                                                                    *)
OldBankRulesUntilCommit ==
    pc \in {"erase", "busy", "copy"} => seg = Current

(* From the new counter on, the new bank is the current one even before    *)
(* the old bank is erased, and the caller's write goes there.              *)
NewBankRulesAfterCommit ==
    /\ pc = "eraseOld" => NewSeg = Current
    /\ pc \in {"hdr", "data"} => seg = Current

(* A value read back is the one whose write returned last: no compaction,  *)
(* power loss or restart brings an older value of an object back.          *)
NoStaleRead ==
    pc = "idle" =>
        \A i \in AllIds :
            Read(i) \in Values \union Versions => Read(i) = acked[i]

(* README.md, of the setpoint: "Persistence: saved in EEP and restored     *)
(* after reboot".  An object whose write returned is still there.          *)
Persistence ==
    pc = "idle" => \A i \in Ids : acked[i] # NoVal => Read(i) = acked[i]

(* After a power loss the device comes up again: start-up reaches the      *)
(* application, formatting the store or not.                               *)
StartupCompletes == pc = "boot" ~> pc = "idle"

(* The store implements the map that EepStore promises: outside a          *)
(* compaction and a format, a power loss changes at most the object being  *)
(* written.                                                                *)
View ==
    [i \in AllIds |-> IF pc \in {"fmtErase", "fmtGen"} THEN NoVal ELSE Read(i)]

Writing == pc \in {"erase", "busy", "copy", "eraseOld", "hdr", "data"}

Store == INSTANCE EepStore
            WITH Ids <- AllIds, Values <- Values \union Versions,
                 NoWrite <- NoVal,
                 store <- View, wr <- (IF Writing THEN op ELSE NoVal)

ImplementsStore == Store!StoreSpec
=============================================================================

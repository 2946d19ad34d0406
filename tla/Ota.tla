-------------------------------- MODULE Ota ---------------------------------
(***************************************************************************)
(* The boot firmware's over-the-air update: ota_parser of                  *)
(* bthome_phy6222/source/ble_ota.c, the start-up decision of main.c and    *)
(* start_app, and the registers and flash they share across resets.        *)
(*                                                                         *)
(* An image is sent as packets of 16 bytes, numbered from 0; the first     *)
(* word of packet 0 is the START_UP_FLAG, the last packet carries the CRC  *)
(* of the packets before it.  The flag is kept out of the flash until that *)
(* CRC has been compared with what the flash holds.                        *)
(*                                                                         *)
(* Abstractions.  Addresses count 16-byte blocks from FADDR_APP_SEC, so    *)
(* the boot firmware lies below 0; they are computed in 32 bits, and the   *)
(* chip has fewer blocks than they can name.  A block is [id, body]: its first word  *)
(* and the other twelve bytes; body <<i, k>> is packet k of image i.  Two  *)
(* different images share no block, and only equal contents have equal     *)
(* CRCs.  A block is programmed or left torn, a sector erase is atomic.    *)
(* Commands are those of a client that may lose, repeat and reorder        *)
(* packets and switch images, on a link that drops at any time.            *)
(***************************************************************************)
EXTENDS Integers

CONSTANTS
    Images,       (* what clients send                                     *)
    NBlocks,      (* NBlocks[i]: packets of image i, the CRC one included  *)
    Id,           (* Id[i]: the first word of image i                      *)
    HasStart,     (* the images whose header gives a start address         *)
    Segments,     (* Segments[i]: seg_count of image i                     *)
    Ids,          (* first words a client may send or ask for              *)
    StartUpFlag,  (* START_UP_FLAG                                         *)
    Word, Ones, Garbled, (* some data, erased flash, the AND of two data   *)
    SecBlocks,    (* blocks in a sector                                    *)
    BootBlocks,   (* blocks below FADDR_APP_SEC                            *)
    FlashBlocks,  (* blocks from FADDR_APP_SEC to the end of the chip      *)
    MaxBlocks,    (* the same to FADDR_START_ADDR + FLASH_MAX_SIZE, 2 MB   *)
    AppAddr,      (* FADDR_APP_SEC itself, in blocks                       *)
    AddrMod,      (* the range of an address, 2^32 bytes, in blocks        *)
    Wrap,         (* 2^16, the range of a packet number                    *)
    CmdStart,     (* 0xff00: from here on packet numbers are commands      *)
    EraseParams,  (* erase_addr a START command may carry, as sectors      *)
    SetParams,    (* what a SET command may carry: [offset, value, total]  *)
    Regs,         (* values of OTA_MODE_SELECT_REG                         *)
    MaxLosses,    (* bound: power losses in a behaviour                    *)
    NoImage

Area == -BootBlocks .. FlashBlocks - 1

ASSUME SizesAssumption ==
    /\ SecBlocks \in Nat \ {0}
    /\ BootBlocks \in Nat
    /\ FlashBlocks \in Nat \ {0}
    /\ MaxBlocks \in Nat /\ FlashBlocks <= MaxBlocks
    /\ AppAddr \in Nat /\ BootBlocks <= AppAddr
    /\ AddrMod \in Nat /\ AppAddr + MaxBlocks < AddrMod
    /\ Wrap \in Nat /\ CmdStart \in 1 .. Wrap - 1
    /\ MaxLosses \in Nat
ASSUME ImagesAssumption ==
    /\ Images # {}
    /\ NBlocks \in [Images -> 1 .. Wrap]
    /\ \A i \in Images : NBlocks[i] <= FlashBlocks
    /\ Id \in [Images -> Ids]
    /\ HasStart \subseteq Images
    /\ Segments \in [Images -> Nat]
    /\ NoImage \notin Images
ASSUME WordsAssumption ==
    /\ StartUpFlag \in Ids
    /\ {Word, Ones, Garbled} \cap Ids = {}
    /\ Word # Ones /\ Word # Garbled /\ Ones # Garbled
    /\ {Ones, Garbled} \cap (Images \X (0 .. Wrap - 1)) = {}
ASSUME ParamsAssumption ==
    /\ EraseParams \subseteq Int
    /\ SetParams \subseteq [offset: -AppAddr .. AddrMod - AppAddr - 1,
                            value: Ids, total: 0 .. Wrap - 1]
    /\ {0, 1, 51, 85} \subseteq Regs

VARIABLES
    flash,    (* flash[b]: block b                                         *)
    ota,      (* the struct ota of ble_ota.c                               *)
    pkt,      (* the data packet being handled                             *)
    pc,       (* "idle", or the next flash operation of the data packet    *)
    mode,     (* which program runs                                        *)
    reg,      (* OTA_MODE_SELECT_REG: survives a reset, not a power loss   *)
    bootFlg,  (* wrk.boot_flg: the register at start-up                    *)
    conn,     (* a client is connected                                     *)
    losses

vars == <<flash, ota, pkt, pc, mode, reg, bootFlg, conn, losses>>

BOOT_FLG_OTA == 85    (* 0x55 *)
BOOT_FLG_FW0 == 51    (* 0x33 *)

Status == {"OTA_SUCCESS", "OTA_UNKNOWN_CMD", "OTA_NO_START", "OTA_NO_PARAM",
           "OTA_ERR_PARAM", "OTA_PKT_SIZE_ERR", "OTA_PKT_CRC_ERR",
           "OTA_PACKET_LOSS", "OTA_WRITE_FLASH_ERR", "OTA_OVERFLOW",
           "OTA_FW_CHECK_ERR", "OTA_FW_CRC32_ERR", "OTA_END"}

Packet == [img: Images, k: 0 .. Wrap - 1]
Block  == [id: Ids \union {Word, Ones, Garbled},
           body: {Ones, Garbled} \union (Images \X (0 .. Wrap - 1))]
Blank  == [id |-> Ones, body |-> Ones]

Sector(b) == b \div SecBlocks

(* A sum of addresses in a uint32_t.                                       *)
Address(b) == ((AppAddr + b) % AddrMod) - AppAddr

(* The block of the chip an address reaches: the commands carry 24 bits of *)
(* it, and the chip looks at those it has blocks for.                      *)
Cell(b) == ((BootBlocks + b) % (BootBlocks + FlashBlocks)) - BootBlocks

(* FADDR_START_ADDR as erase_addr: below every sector of the application.  *)
EraseAll == -1

(* Programming y where x is: flash bits only go from 1 to 0.               *)
And(x, y) == IF x = Ones THEN y ELSE IF x = y \/ y = Ones THEN x ELSE Garbled
Program(x, y) == [id |-> And(x.id, y.id), body |-> And(x.body, y.body)]

(* What packet p puts in the flash: the first word of packet 0 is          *)
(* withheld, as ones.                                                      *)
Payload(p) == [id   |-> IF p.k = 0 THEN Ones ELSE Word,
               body |-> <<p.img, p.k>>]

(* (uint16_t)(ota.pkt_index + 1), where -1 is Wrap - 1.                    *)
NextIndex == IF ota.pkt_index = Wrap - 1 THEN 0 ELSE ota.pkt_index + 1

(* pkt_total as computed from the size in the header of image i: 16 bits.  *)
HeaderTotal(i) == IF NBlocks[i] = Wrap THEN 0 ELSE NBlocks[i]

(* The blocks from base on hold image i, all but its first word.           *)
Holds(i, base) ==
    /\ flash[Cell(base)].body = <<i, 0>>
    /\ \A k \in 1 .. NBlocks[i] - 2 :
          flash[Cell(Address(base + k))] = [id |-> Word, body |-> <<i, k>>]

(* Mutant: the check covers the blocks of the last sector only.            *)
CrcMatchesTail(p) ==
    /\ p.k = NBlocks[p.img] - 1
    /\ ota.fw_value = Id[p.img]
    /\ \A k \in 1 .. NBlocks[p.img] - 2 :
          Sector(ota.program_offset + k) = Sector(ota.program_offset + p.k - 1)
          => flash[Cell(Address(ota.program_offset + k))]
                = [id |-> Word, body |-> <<p.img, k>>]

(* ota_test_crc() = the CRC in packet p.                                   *)
CrcMatches(p) ==
    /\ p.k = NBlocks[p.img] - 1
    /\ ota.fw_value = Id[p.img]
    /\ Holds(p.img, ota.program_offset)

FreshOta == [err_flag |-> "OTA_SUCCESS", start_flag |-> 0,
             program_offset |-> 0, pkt_index |-> Wrap - 1, pkt_total |-> 0,
             fw_value |-> StartUpFlag, erase_addr |-> EraseAll]

-----------------------------------------------------------------------------
(* A device that left the factory with the boot firmware, and perhaps with *)
(* an application written by cable.                                        *)
Factory(i) ==
    [b \in Area |->
        CASE b = 0 -> [id |-> Id[i], body |-> <<i, 0>>]
          [] b \in 1 .. NBlocks[i] - 2 -> [id |-> Word, body |-> <<i, b>>]
          [] OTHER -> Blank]

Init ==
    /\ \/ flash = [b \in Area |-> Blank]
       \/ \E i \in Images : /\ Id[i] = StartUpFlag /\ NBlocks[i] >= 2
                            /\ flash = Factory(i)
    /\ ota = FreshOta
    /\ pkt = [img |-> CHOOSE i \in Images : TRUE, k |-> 0]
    /\ pc = "idle"
    /\ mode = "reset"
    /\ reg = 0 /\ bootFlg = 0
    /\ conn = FALSE
    /\ losses = 0

-----------------------------------------------------------------------------
(***************************************************************************)
(* ota_parser.  It runs in the BLE task for every write of the OTA         *)
(* characteristic; a data packet ends with up to two flash operations.     *)
(***************************************************************************)
Listening == mode = "boot" /\ conn /\ pc = "idle"

Answer(err) == ota' = [ota EXCEPT !.err_flag = err]

RestOfDevice == <<flash, mode, reg, bootFlg, conn, losses>>

(* Mutant: CMD_OTA_START does not clear the error.                         *)
StartKeepError(e) ==
    /\ Listening
    /\ ota' = [FreshOta EXCEPT !.erase_addr = e, !.err_flag = ota.err_flag]
    /\ UNCHANGED RestOfDevice /\ UNCHANGED <<pkt, pc>>

(* CMD_OTA_START, with or without an erase address (EraseAll).             *)
Start(e) ==
    /\ Listening
    /\ ota' = [FreshOta EXCEPT !.erase_addr = e]
    /\ UNCHANGED RestOfDevice /\ UNCHANGED <<pkt, pc>>

(* CMD_OTA_SET without parameters.                                         *)
Set ==
    /\ Listening
    /\ IF ota.start_flag = 1 THEN Answer("OTA_NO_START")
       ELSE ota' = [ota EXCEPT !.start_flag = 1]
    /\ UNCHANGED RestOfDevice /\ UNCHANGED <<pkt, pc>>

(* Mutant: any offset will do.                                             *)
SetParamUnchecked(s) ==
    /\ Listening
    /\ ota.start_flag = 0
    /\ ota' = [ota EXCEPT !.program_offset = s.offset, !.fw_value = s.value,
                          !.pkt_total = s.total, !.start_flag = 1]
    /\ UNCHANGED RestOfDevice /\ UNCHANGED <<pkt, pc>>

(* The parameters of a SET that starts a transfer: the end is compared     *)
(* with the largest flash there is, not with the chip's.                   *)
Taken(s) == s.offset >= 0 /\ Address(s.offset + s.total) <= MaxBlocks

(* CMD_OTA_SET with an offset, a first word and a number of packets.       *)
SetParam(s) ==
    /\ Listening
    /\ IF ota.start_flag = 1 THEN Answer("OTA_NO_START")
       ELSE LET set == [ota EXCEPT !.program_offset = s.offset,
                                   !.fw_value = s.value,
                                   !.pkt_total = s.total]
            IN  ota' = IF Taken(s)
                       THEN [set EXCEPT !.start_flag = 1]
                       ELSE [set EXCEPT !.err_flag = "OTA_ERR_PARAM"]
    /\ UNCHANGED RestOfDevice /\ UNCHANGED <<pkt, pc>>

(* A command that is none of the three, or a SET of the wrong size.        *)
Malformed ==
    /\ Listening
    /\ \/ Answer("OTA_UNKNOWN_CMD")
       \/ ota.start_flag = 0 /\ Answer("OTA_PKT_SIZE_ERR")
    /\ UNCHANGED RestOfDevice /\ UNCHANGED <<pkt, pc>>

(* CMD_OTA_END: drop the connection, set the register (or leave it, r =    *)
(* reg), and reset.                                                        *)
End(r) ==
    /\ Listening
    /\ mode' = "reset" /\ conn' = FALSE /\ reg' = r
    /\ UNCHANGED <<flash, ota, pkt, pc, bootFlg, losses>>

(* Mutant: an earlier error does not stop the transfer.                    *)
ReceivingAfterError == Listening

(* A data packet is looked at only after SET and while there is no error.  *)
Receiving == Listening /\ ota.err_flag = "OTA_SUCCESS"

DataNotStarted ==
    /\ Receiving
    /\ ota.start_flag = 0
    /\ Answer("OTA_NO_PARAM")
    /\ UNCHANGED RestOfDevice /\ UNCHANGED <<pkt, pc>>

(* A packet beyond the one expected; one before it is ignored.             *)
DataLost(p) ==
    /\ Receiving
    /\ ota.start_flag = 1
    /\ p.k > NextIndex
    /\ Answer("OTA_PACKET_LOSS")
    /\ UNCHANGED RestOfDevice /\ UNCHANGED <<pkt, pc>>

Expected(p) == Receiving /\ ota.start_flag = 1 /\ p.k = NextIndex

(* The expected packet is short or its CRC16 is wrong.                     *)
DataDamaged(p) ==
    /\ Expected(p)
    /\ \E err \in {"OTA_PKT_SIZE_ERR", "OTA_PKT_CRC_ERR"} : Answer(err)
    /\ UNCHANGED RestOfDevice /\ UNCHANGED <<pkt, pc>>

(* The packet goes to the flash, after an erase when it is the first one   *)
(* of a sector above erase_addr.                                           *)
Accept(p, total) ==
    /\ ota' = [ota EXCEPT !.pkt_total = total]
    /\ pkt' = p
    /\ pc' = IF Sector(Address(ota.program_offset + p.k)) > ota.erase_addr
             THEN "erase" ELSE "write"

DataFirst(p) ==
    /\ Expected(p)
    /\ p.k = 0
    /\ LET total == IF ota.pkt_total = 0 THEN HeaderTotal(p.img)
                    ELSE ota.pkt_total
       IN  \/ /\ Id[p.img] # ota.fw_value
              /\ Answer(IF ota.pkt_total = 0 THEN "OTA_ERR_PARAM"
                        ELSE "OTA_FW_CHECK_ERR")
              /\ UNCHANGED <<pkt, pc>>
           \/ /\ Id[p.img] = ota.fw_value /\ total = 0
              /\ Answer("OTA_ERR_PARAM")
              /\ UNCHANGED <<pkt, pc>>
           \/ /\ Id[p.img] = ota.fw_value /\ total # 0
              /\ Accept(p, total)
    /\ UNCHANGED RestOfDevice

DataMiddle(p) ==
    /\ Expected(p)
    /\ p.k # 0 /\ p.k # ota.pkt_total - 1
    /\ IF p.k < ota.pkt_total
       THEN Accept(p, ota.pkt_total)
       ELSE Answer("OTA_OVERFLOW") /\ UNCHANGED <<pkt, pc>>
    /\ UNCHANGED RestOfDevice

DataLast(p) ==
    /\ Expected(p)
    /\ p.k # 0 /\ p.k = ota.pkt_total - 1
    /\ IF CrcMatches(p)
       THEN /\ pc' = "flag" /\ pkt' = p
            /\ UNCHANGED ota
       ELSE Answer("OTA_FW_CRC32_ERR") /\ UNCHANGED <<pkt, pc>>
    /\ UNCHANGED RestOfDevice

Target == Address(ota.program_offset + pkt.k)

EraseSector ==
    /\ pc = "erase"
    /\ flash' = [b \in Area |->
                    IF Sector(b) = Sector(Cell(Target)) THEN Blank ELSE flash[b]]
    /\ ota' = [ota EXCEPT !.erase_addr = Sector(Target)]
    /\ pc' = "write"
    /\ UNCHANGED <<pkt, mode, reg, bootFlg, conn, losses>>

(* Mutant: the first packet goes to the flash with its flag.               *)
WriteBlockWithFlag ==
    /\ pc = "write"
    /\ flash' = [flash EXCEPT ![Cell(Target)] =
                    Program(@, [id |-> IF pkt.k = 0 THEN Id[pkt.img] ELSE Word,
                                body |-> <<pkt.img, pkt.k>>])]
    /\ ota' = [ota EXCEPT !.pkt_index = pkt.k]
    /\ pc' = "idle"
    /\ UNCHANGED <<pkt, mode, reg, bootFlg, conn, losses>>

WriteBlock ==
    /\ pc = "write"
    /\ flash' = [flash EXCEPT ![Cell(Target)] = Program(@, Payload(pkt))]
    /\ ota' = [ota EXCEPT !.pkt_index = pkt.k]
    /\ pc' = "idle"
    /\ UNCHANGED <<pkt, mode, reg, bootFlg, conn, losses>>

(* Mutant: the write is not verified, and was not done.                    *)
WriteFlagUnverified ==
    /\ pc = "flag"
    /\ Answer("OTA_END")
    /\ pc' = "idle"
    /\ UNCHANGED <<flash, pkt, mode, reg, bootFlg, conn, losses>>

(* The CRC was right: write the first word and read it back.               *)
WriteFlag ==
    /\ pc = "flag"
    /\ flash' = [flash EXCEPT ![Cell(ota.program_offset)].id = And(@, ota.fw_value)]
    /\ Answer(IF flash'[Cell(ota.program_offset)].id = ota.fw_value
              THEN "OTA_END" ELSE "OTA_WRITE_FLASH_ERR")
    /\ pc' = "idle"
    /\ UNCHANGED <<pkt, mode, reg, bootFlg, conn, losses>>

-----------------------------------------------------------------------------
(***************************************************************************)
(* Connections, resets, start-up.                                          *)
(***************************************************************************)
Connect ==
    /\ mode \in {"boot", "app"} /\ ~conn
    /\ conn' = TRUE
    /\ UNCHANGED <<flash, ota, pkt, pc, mode, reg, bootFlg, losses>>

(* The link drops; the transfer's state stays in RAM.                      *)
Disconnect ==
    /\ conn /\ pc = "idle"
    /\ conn' = FALSE
    /\ UNCHANGED <<flash, ota, pkt, pc, mode, reg, bootFlg, losses>>

(* adv_measure in a boot firmware that the application asked for: nobody   *)
(* connected in time, or the client is gone.                               *)
BootTimeout ==
    /\ mode = "boot" /\ ~conn /\ pc = "idle" /\ bootFlg = BOOT_FLG_OTA
    /\ mode' = "reset"
    /\ UNCHANGED <<flash, ota, pkt, pc, reg, bootFlg, conn, losses>>

(* The application resets the device, with a value for the register.       *)
AppReset(r) ==
    /\ mode = "app"
    /\ mode' = "reset" /\ reg' = r /\ conn' = FALSE
    /\ UNCHANGED <<flash, ota, pkt, pc, bootFlg, losses>>

(* What start_app returns for image i: an entry point, 0 (no application), *)
(* or something else.  With no start address in the header it is the waddr *)
(* of a segment record that has not been read yet; with more than 15       *)
(* segments none is loaded.  Mutant: the limit is off by one.              *)
StartAppFourteen(i) ==
    IF Segments[i] >= 15 THEN {"lost"}
    ELSE IF i \in HasStart THEN {"app"}
    ELSE IF Segments[i] = 0 THEN {"boot"} ELSE {"boot", "lost"}

StartApp(i) ==
    IF Segments[i] > 15 THEN {"lost"}
    ELSE IF i \in HasStart THEN {"app"}
    ELSE IF Segments[i] = 0 THEN {"boot"} ELSE {"boot", "lost"}

(* The image whose first packet is in block 0.                             *)
HeaderImages == {i \in Images : flash[0].body = <<i, 0>>}

Startable ==
    CASE flash[0].id # StartUpFlag -> {"boot"}
      [] flash[0].id = StartUpFlag /\ HeaderImages = {} -> {"lost"}
      [] OTHER -> UNION {StartApp(i) : i \in HeaderImages}

(* main(): the key or the register keeps the boot firmware running, else   *)
(* the application is started if there is one.                             *)
PowerUp(keyPressed) ==
    /\ mode = "reset"
    /\ bootFlg' = reg
    /\ IF keyPressed \/ reg \in {BOOT_FLG_OTA, BOOT_FLG_FW0}
       THEN reg' = 0 /\ mode' = "boot"
       ELSE reg' = reg /\ mode' \in Startable
    /\ ota' = FreshOta
    /\ UNCHANGED <<flash, pkt, pc, conn, losses>>

(* The power fails, maybe in the middle of programming a block.            *)
PowerLoss ==
    /\ mode # "reset"
    /\ losses < MaxLosses
    /\ losses' = losses + 1
    /\ mode' = "reset" /\ reg' = 0 /\ conn' = FALSE /\ pc' = "idle"
    /\ \/ UNCHANGED flash
       \/ /\ pc = "write"
          /\ flash' = [flash EXCEPT ![Cell(Target)].body = Garbled]
    /\ UNCHANGED <<ota, pkt, bootFlg>>

(* A data packet: packet k of image i, whose number is not a command.      *)
Packets == {p \in Packet : p.k < NBlocks[p.img] /\ p.k < CmdStart}

(* A data packet before the one expected, or after an error: no effect.    *)
DataIgnored(p) ==
    /\ Listening
    /\ \/ ota.err_flag # "OTA_SUCCESS"
       \/ ota.start_flag = 1 /\ p.k < NextIndex
    /\ UNCHANGED vars

Data(p) ==
    \/ DataIgnored(p) \/ DataLost(p) \/ DataDamaged(p)
    \/ DataFirst(p) \/ DataMiddle(p) \/ DataLast(p)

FlashOp == EraseSector \/ WriteBlock \/ WriteFlag

Next ==
    \/ \E e \in EraseParams \union {EraseAll} : Start(e)
    \/ Set
    \/ \E s \in SetParams : SetParam(s)
    \/ Malformed
    \/ \E r \in Regs \union {reg} : End(r)
    \/ DataNotStarted
    \/ \E p \in Packets : Data(p)
    \/ FlashOp
    \/ Connect \/ Disconnect \/ BootTimeout
    \/ \E r \in Regs \ {0} : AppReset(r)
    \/ \E key \in BOOLEAN : PowerUp(key)
    \/ PowerLoss

Spec == Init /\ [][Next]_vars

-----------------------------------------------------------------------------
(***************************************************************************)
(* Properties.                                                             *)
(***************************************************************************)

(* Clients have the application area erased from its front and start every *)
(* transfer there, as PHY62x2BTHome.html does (it sends the commands       *)
(* without parameters): no erase address, and no offset that is taken but  *)
(* the default.  Images have what phy62x2_ota.py puts in a header: a start *)
(* address and at most 15 segments.                                        *)
StandardClients ==
    /\ EraseParams = {}
    /\ \A s \in SetParams : Taken(s) => s.offset = 0
StandardImages == HasStart = Images /\ \A i \in Images : Segments[i] <= 15

(* Clients know the chip's size, which CMD_OTA_SET does not check: what it *)
(* takes ends on the chip, by the number of packets or by the images.      *)
ClientsFit ==
    \A s \in SetParams : Taken(s) =>
        /\ s.offset + s.total <= FlashBlocks
        /\ s.total = 0 => \A i \in Images : s.offset + NBlocks[i] <= FlashBlocks

TypeOK ==
    /\ flash \in [Area -> Block]
    /\ ota \in [err_flag: Status, start_flag: {0, 1}, program_offset: Int,
                pkt_index: 0 .. Wrap - 1, pkt_total: 0 .. Wrap - 1,
                fw_value: Ids, erase_addr: Int]
    /\ pkt \in Packet
    /\ pc \in {"idle", "erase", "write", "flag"}
    /\ mode \in {"reset", "boot", "app", "lost"}
    /\ reg \in Regs /\ bootFlg \in Regs
    /\ conn \in BOOLEAN
    /\ losses \in 0 .. MaxLosses

(* The start-up code looks at the first word only.  Whatever clients,      *)
(* links and the power did, a first word that says START_UP_FLAG is        *)
(* followed by every block of one image.                                   *)
FlagMeansImage ==
    flash[0].id = StartUpFlag =>
        \E i \in Images : Id[i] = StartUpFlag /\ Holds(i, 0)

(* The packets accepted in a transfer are in the flash, each one unmixed   *)
(* with what was there before: no sector is programmed that was not erased *)
(* in this transfer, and none is erased after it was programmed.           *)
SessionIntact ==
    ota.pkt_index # Wrap - 1 /\ mode = "boot" =>
        \A k \in 0 .. ota.pkt_index :
            \E i \in Images : flash[k].body = <<i, k>>

(* The flag is written to an erased word, so the write does not fail.      *)
FlagWriteSucceeds == ota.err_flag # "OTA_WRITE_FLASH_ERR"

(* After an error, and after OTA_END, nothing is written to the flash      *)
(* until the next START, however many packets are still on their way.      *)
NothingAfterError ==
    [][ota.err_flag # "OTA_SUCCESS" => flash' = flash]_vars

(* CMD_OTA_SET checks its offset: no transfer erases or writes the boot    *)
(* firmware below FADDR_APP_SEC, for clients that know the chip's size     *)
(* (ClientsFit). A transfer past the chip's end reaches its front.         *)
BootIntact ==
    [][\A b \in Area : b < 0 => flash'[b] = flash[b]]_vars

(* start_app jumps to the application and nowhere else.                    *)
NeverLost == mode # "lost"

(* The application area implements AppSlot.                                *)
Slot ==
    IF flash[0].id # StartUpFlag THEN NoImage
    ELSE IF \E i \in Images : Id[i] = StartUpFlag /\ Holds(i, 0)
         THEN CHOOSE i \in Images : Id[i] = StartUpFlag /\ Holds(i, 0)
         ELSE "broken"

App == INSTANCE AppSlot
          WITH slot <- Slot,
               running <- (IF mode \in {"app", "lost"} THEN Slot ELSE NoImage)

ImplementsAppSlot == App!SlotSpec
=============================================================================

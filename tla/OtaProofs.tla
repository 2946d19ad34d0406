----------------------------- MODULE OtaProofs ------------------------------
(***************************************************************************)
(* Proofs about Ota, for every set of images, flash size and number of     *)
(* power losses.                                                           *)
(*                                                                         *)
(* The first part is about clients of any kind: where a transfer writes,   *)
(* if they know the chip's size (ClientsFit), and that an error stops it,  *)
(* whatever they know.  The second is about clients that start at the      *)
(* front of the application area (StandardClients): the flag is only ever  *)
(* in front of a whole image.  Its inductive invariant follows a transfer: *)
(* which sectors have been erased (everything ahead of the last packet up  *)
(* to erase_addr is blank), and that the old flag is gone from the first   *)
(* erase on.                                                               *)
(*                                                                         *)
(* The last part is about OtaUpdate, whose steps are steps of Ota.  What   *)
(* is proved of Ota does not use the assumption about the web client.      *)
(***************************************************************************)
EXTENDS OtaUpdate, TLAPS

(* A transfer starts at the front of the application area.                 *)
Default == ota.err_flag = "OTA_SUCCESS" => ota.program_offset = 0

(* How far the erases have got.                                            *)
Progress ==
    /\ ota.pkt_index = Wrap - 1 /\ pc # "write" => ota.erase_addr = EraseAll
    /\ ota.pkt_index # Wrap - 1 => /\ Sector(ota.pkt_index) <= ota.erase_addr
                                   /\ ota.pkt_index < FlashBlocks

(* The packet being handled is the one after the last one accepted.        *)
InHand ==
    /\ pc # "idle" => /\ ota.err_flag = "OTA_SUCCESS"
                      /\ pkt.k = NextIndex /\ pkt \in Packets
    /\ pc = "erase" => Sector(pkt.k) > ota.erase_addr
    /\ pc = "write" => Sector(pkt.k) <= ota.erase_addr
    /\ pc = "flag" => pkt.k # 0 /\ CrcMatches(pkt)

(* From the first erase to the last packet there is no flag.               *)
FlagOut ==
    (ota.pkt_index # Wrap - 1 \/ pc = "write") /\ ota.err_flag = "OTA_SUCCESS"
    => flash[0].id = Ones

(* What has been erased and not yet programmed is blank.                   *)
BlankAhead ==
    \A b \in Area :
        b >= NextIndex /\ Sector(b) <= ota.erase_addr => flash[b] = Blank

Received ==
    ota.pkt_index # Wrap - 1 =>
        \A k \in 0 .. ota.pkt_index : \E i \in Images : flash[k].body = <<i, k>>

Transfer == Progress /\ InHand /\ FlagOut /\ BlankAhead /\ Received

IInv ==
    /\ TypeOK
    /\ pc # "idle" => mode = "boot"
    /\ Default
    /\ FlagMeansImage
    /\ FlagWriteSucceeds
    /\ mode = "boot" => Transfer

-----------------------------------------------------------------------------
(* Sectors are numbered in the order of the blocks; block 0 starts one.    *)
LEMMA SectorType == ASSUME NEW a \in Int PROVE Sector(a) \in Int
BY SizesAssumption DEF Sector

LEMMA SectorZero == Sector(0) = 0
BY SizesAssumption DEF Sector

LEMMA SectorNegative == ASSUME NEW a \in Int, a < 0 PROVE Sector(a) < 0
BY SizesAssumption DEF Sector

LEMMA SectorMonotone ==
    ASSUME NEW a \in Int, NEW b \in Int, a <= b
    PROVE  Sector(a) <= Sector(b)
BY SizesAssumption DEF Sector

(* Programming an erased block stores the data.                            *)
LEMMA ProgramBlank ==
    ASSUME NEW y \in Block PROVE Program(Blank, y) = y
BY DEF Program, And, Blank, Block

LEMMA BlockClosed ==
    ASSUME NEW x \in Block, NEW y \in Block PROVE Program(x, y) \in Block
BY DEF Program, And, Block

LEMMA PayloadType ==
    ASSUME NEW p \in Packet PROVE Payload(p) \in Block
BY DEF Payload, Packet, Block

LEMMA BlankType == Blank \in Block
BY DEF Blank, Block

LEMMA AreaFacts == 0 \in Area /\ Area \subseteq Int
BY SizesAssumption DEF Area

LEMMA DivMod ==
    ASSUME NEW a \in Int, NEW w \in Nat \ {0}
    PROVE  \E q \in Int, r \in 0..(w - 1) :
             q = a \div w /\ r = a % w /\ a = w * q + r
<1>1. a \div w \in Int /\ a % w \in 0..(w - 1)
  OBVIOUS
<1>2. \A q, r \in Int : q = a \div w /\ r = a % w => a = w * q + r
  OBVIOUS
<1> QED
  BY <1>1, <1>2

LEMMA AtLeast ==
    ASSUME NEW x \in Int, NEW w \in Nat \ {0}, x >= 1
    PROVE  x * w >= w
OBVIOUS

LEMMA Small ==
    ASSUME NEW w \in Nat \ {0}, NEW a \in 0..(w - 1)
    PROVE  a % w = a
<1>1. PICK q \in Int, r \in 0..(w - 1) : q = a \div w /\ r = a % w /\ a = w * q + r
  BY DivMod
<1>2. ~ (q >= 1) /\ ~ (-q >= 1)
  BY <1>1, AtLeast
<1>3. q = 0
  BY <1>1, <1>2
<1> QED
  BY <1>1, <1>3

(* A sum of addresses does not wrap up to the largest flash there is, and  *)
(* reaches the block it names when the chip has it.                        *)
LEMMA AddressType == ASSUME NEW b \in Int PROVE Address(b) \in Int
BY SizesAssumption DEF Address

LEMMA AddressFits == ASSUME NEW b \in 0 .. MaxBlocks PROVE Address(b) = b
<1>1. AddrMod \in Nat \ {0} /\ AppAddr + b \in 0 .. AddrMod - 1
  BY SizesAssumption
<1>2. (AppAddr + b) % AddrMod = AppAddr + b
  BY <1>1, Small
<1> QED BY <1>2, SizesAssumption DEF Address

LEMMA CellType == ASSUME NEW b \in Int PROVE Cell(b) \in Area
<1>1. /\ BootBlocks + FlashBlocks \in Nat \ {0} /\ BootBlocks + b \in Int
      /\ BootBlocks \in Nat /\ FlashBlocks \in Nat
  BY SizesAssumption
<1>2. (BootBlocks + b) % (BootBlocks + FlashBlocks) \in 0 .. BootBlocks + FlashBlocks - 1
  BY <1>1
<1> QED BY <1>1, <1>2 DEF Cell, Area

LEMMA CellFits == ASSUME NEW b \in Area PROVE Cell(b) = b
<1>1. /\ BootBlocks + FlashBlocks \in Nat \ {0} /\ BootBlocks \in Nat
      /\ BootBlocks + b \in 0 .. (BootBlocks + FlashBlocks) - 1
      /\ b \in Int
  BY SizesAssumption DEF Area
<1>2. (BootBlocks + b) % (BootBlocks + FlashBlocks) = BootBlocks + b
  BY <1>1, Small
<1> QED BY <1>1, <1>2 DEF Cell

LEMMA FrontBlock ==
    ASSUME NEW b \in 0 .. FlashBlocks - 1
    PROVE  b \in Area /\ Address(b) = b /\ Cell(b) = b /\ Cell(Address(b)) = b
<1>1. b \in Area /\ b \in 0 .. MaxBlocks
  BY SizesAssumption DEF Area
<1> QED BY <1>1, AddressFits, CellFits

LEMMA FrontPacket ==
    ASSUME NEW p \in Packets
    PROVE  /\ p.k \in 0 .. FlashBlocks - 1 /\ p.k \in Area
           /\ 0 + p.k = p.k /\ Address(p.k) = p.k /\ Cell(p.k) = p.k
<1>1. p.k \in 0 .. FlashBlocks - 1 /\ 0 + p.k = p.k
  BY SizesAssumption, ImagesAssumption DEF Packets, Packet
<1> QED BY <1>1, FrontBlock

(* An image at the front of the area, in terms of the blocks it occupies.  *)
Whole(i) ==
    /\ flash[0].body = <<i, 0>>
    /\ \A k \in 1 .. NBlocks[i] - 2 : flash[k] = [id |-> Word, body |-> <<i, k>>]

LEMMA FrontImage ==
    ASSUME NEW i \in Images
    PROVE  /\ Cell(0) = 0
           /\ \A k \in 1 .. NBlocks[i] - 2 : Cell(Address(0 + k)) = k /\ k \in Area \ {0}
<1>1. 0 \in 0 .. FlashBlocks - 1
  BY SizesAssumption
<1>2. ASSUME NEW k \in 1 .. NBlocks[i] - 2
      PROVE  k \in 0 .. FlashBlocks - 1 /\ 0 + k = k /\ k # 0
  BY SizesAssumption, ImagesAssumption
<1> QED BY <1>1, <1>2, FrontBlock

LEMMA HoldsWhole == ASSUME NEW i \in Images PROVE Holds(i, 0) <=> Whole(i)
BY FrontImage DEF Holds, Whole

LEMMA HoldsWholeNext == ASSUME NEW i \in Images PROVE Holds(i, 0)' <=> Whole(i)'
BY FrontImage DEF Holds, Whole

-----------------------------------------------------------------------------
(***************************************************************************)
(* Every client.                                                           *)
(***************************************************************************)

(* The steps that START and SET with parameters have no part in.           *)
PlainStep ==
    \/ Set \/ Malformed \/ DataNotStarted
    \/ \E r \in Regs \union {reg} : End(r)
    \/ \E p \in Packets : Data(p)
    \/ FlashOp
    \/ Connect \/ Disconnect \/ BootTimeout
    \/ \E r \in Regs \ {0} : AppReset(r)
    \/ \E key \in BOOLEAN : PowerUp(key)
    \/ PowerLoss

LEMMA NextCases ==
    ASSUME Next
    PROVE  \/ \E e \in EraseParams \union {EraseAll} : Start(e)
           \/ \E s \in SetParams : SetParam(s)
           \/ PlainStep
BY DEF Next, PlainStep

LEMMA TypeInit == ASSUME Init PROVE TypeOK
<1>0. ota = FreshOta
  BY DEF Init
<1>1. flash \in [Area -> Block]
  <2>1. CASE flash = [b \in Area |-> Blank]
    BY <2>1, BlankType
  <2>2. ASSUME NEW i \in Images, flash = Factory(i) PROVE flash \in [Area -> Block]
    <3>1. ASSUME NEW b \in Area, b \in 1 .. NBlocks[i] - 2
          PROVE  <<i, b>> \in Images \X (0 .. Wrap - 1)
      BY <3>1, SizesAssumption, ImagesAssumption
    <3>2. <<i, 0>> \in Images \X (0 .. Wrap - 1) /\ Id[i] \in Ids
      BY SizesAssumption, ImagesAssumption
    <3> QED BY <2>2, <3>1, <3>2, BlankType DEF Factory, Block
  <2> QED BY <2>1, <2>2 DEF Init
<1>2. ota \in [err_flag: Status, start_flag: {0, 1}, program_offset: Int,
               pkt_index: 0 .. Wrap - 1, pkt_total: 0 .. Wrap - 1,
               fw_value: Ids, erase_addr: Int]
  BY <1>0, SizesAssumption, WordsAssumption DEF FreshOta, EraseAll, Status
<1>3. pkt \in Packet
  <2>1. (CHOOSE i \in Images : TRUE) \in Images /\ 0 \in 0 .. Wrap - 1
    BY SizesAssumption, ImagesAssumption
  <2> QED BY <2>1 DEF Init, Packet
<1>4. 0 \in Regs /\ 0 \in 0 .. MaxLosses
  BY SizesAssumption, ParamsAssumption
<1> QED
  BY <1>1, <1>2, <1>3, <1>4 DEF TypeOK, Init

LEMMA TypeStep ==
    ASSUME TypeOK, Next
    PROVE  TypeOK'
<1>0. /\ flash \in [Area -> Block] /\ ota.pkt_index \in 0 .. Wrap - 1
      /\ Wrap \in Nat /\ Wrap >= 2
  BY SizesAssumption DEF TypeOK
<1>1. ASSUME NEW e \in EraseParams \union {EraseAll}, Start(e) PROVE TypeOK'
  <2>1. e \in Int
    BY ParamsAssumption DEF EraseAll
  <2> QED BY <1>0, <1>1, <2>1, WordsAssumption
             DEF TypeOK, Start, FreshOta, Status, RestOfDevice
<1>12. ASSUME NEW s \in SetParams, SetParam(s) PROVE TypeOK'
  <2>1. s \in [offset: Int, value: Ids, total: 0 .. Wrap - 1]
    BY ParamsAssumption
  <2>2. ota' \in [err_flag: Status, start_flag: {0, 1}, program_offset: Int,
                  pkt_index: 0 .. Wrap - 1, pkt_total: 0 .. Wrap - 1,
                  fw_value: Ids, erase_addr: Int]
    BY <1>0, <1>12, <2>1 DEF TypeOK, SetParam, Answer, Status
  <2> QED BY <1>12, <2>2 DEF TypeOK, SetParam, RestOfDevice
<1>2. CASE Set \/ Malformed \/ DataNotStarted
  BY <1>2 DEF TypeOK, Set, Malformed, DataNotStarted, Answer, RestOfDevice, Status
<1>3. ASSUME NEW r \in Regs \union {reg}, End(r) PROVE TypeOK'
  BY <1>3 DEF TypeOK, End
<1>4. ASSUME NEW p \in Packets, Data(p) PROVE TypeOK'
  <2>0. p \in Packet /\ p.img \in Images /\ HeaderTotal(p.img) \in 0 .. Wrap - 1
    BY <1>0, ImagesAssumption DEF Packets, Packet, HeaderTotal
  <2>1. CASE DataLost(p) \/ DataDamaged(p)
    BY <2>1 DEF TypeOK, DataLost, DataDamaged, Answer, RestOfDevice, Status
  <2>2. CASE DataFirst(p)
    BY <2>0, <2>2 DEF TypeOK, DataFirst, Accept, Answer, RestOfDevice, Status
  <2>3. CASE DataMiddle(p)
    BY <2>0, <2>3 DEF TypeOK, DataMiddle, Accept, Answer, RestOfDevice, Status
  <2>4. CASE DataLast(p)
    BY <2>0, <2>4 DEF TypeOK, DataLast, Answer, RestOfDevice, Status
  <2>5. CASE DataIgnored(p)
    BY <2>5 DEF TypeOK, DataIgnored, vars
  <2> QED BY <1>4, <2>1, <2>2, <2>3, <2>4, <2>5 DEF Data
<1>5. CASE EraseSector
  <2>1. pkt.k \in Int /\ Target \in Int /\ Sector(Target) \in Int
    BY <1>0, SectorType, AddressType DEF TypeOK, Packet, Target
  <2>2. flash' \in [Area -> Block]
    BY <1>0, <1>5, BlankType DEF EraseSector
  <2> QED BY <1>5, <2>1, <2>2 DEF TypeOK, EraseSector
<1>6. CASE WriteBlock
  <2>1. flash' \in [Area -> Block]
    <3>1. \A b \in Area : Program(flash[b], Payload(pkt)) \in Block
      BY <1>0, BlockClosed, PayloadType DEF TypeOK
    <3> QED BY <1>0, <1>6, <3>1 DEF WriteBlock
  <2>2. pkt.k \in 0 .. Wrap - 1
    BY DEF TypeOK, Packet
  <2> QED BY <1>6, <2>1, <2>2 DEF TypeOK, WriteBlock
<1>7. CASE WriteFlag
  <2>1. \A b \in Area : [flash[b] EXCEPT !.id = And(@, ota.fw_value)] \in Block
    BY <1>0, WordsAssumption DEF Block, And, TypeOK
  <2>2. flash' \in [Area -> Block]
    BY <1>0, <1>7, <2>1 DEF WriteFlag
  <2> QED BY <1>7, <2>2 DEF TypeOK, WriteFlag, Answer, Status
<1>8. CASE Connect \/ Disconnect \/ BootTimeout
  BY <1>8 DEF TypeOK, Connect, Disconnect, BootTimeout
<1>9. ASSUME NEW r \in Regs \ {0}, AppReset(r) PROVE TypeOK'
  BY <1>9 DEF TypeOK, AppReset
<1>10. ASSUME NEW key \in BOOLEAN, PowerUp(key) PROVE TypeOK'
  <2>1. Startable \subseteq {"boot", "app", "lost"}
    BY ImagesAssumption DEF Startable, StartApp, HeaderImages
  <2>2. mode' \in {"reset", "boot", "app", "lost"}
    BY <1>10, <2>1 DEF PowerUp
  <2>3. reg' \in Regs /\ bootFlg' \in Regs
    BY <1>10, ParamsAssumption DEF PowerUp, TypeOK
  <2>4. ota' \in [err_flag: Status, start_flag: {0, 1}, program_offset: Int,
                  pkt_index: 0 .. Wrap - 1, pkt_total: 0 .. Wrap - 1,
                  fw_value: Ids, erase_addr: Int]
    BY <1>0, <1>10, WordsAssumption DEF PowerUp, FreshOta, EraseAll, Status
  <2> QED BY <1>10, <2>2, <2>3, <2>4 DEF TypeOK, PowerUp
<1>11. CASE PowerLoss
  <2>1. \A b \in Area : [flash[b] EXCEPT !.body = Garbled] \in Block
    BY <1>0 DEF Block
  <2>2. flash' \in [Area -> Block]
    BY <1>0, <1>11, <2>1 DEF PowerLoss
  <2>3. losses' \in 0 .. MaxLosses /\ reg' \in Regs
    BY <1>11, SizesAssumption, ParamsAssumption DEF TypeOK, PowerLoss
  <2> QED BY <1>11, <2>2, <2>3 DEF TypeOK, PowerLoss
<1> QED
  BY <1>1, <1>2, <1>3, <1>4, <1>5, <1>6, <1>7, <1>8, <1>9, <1>10, <1>11, <1>12,
     NextCases DEF PlainStep, FlashOp

(* The state stays well formed: in particular the 16-bit counters do.      *)
THEOREM TypeCorrect == Spec => []TypeOK
<1>1. TypeOK /\ [Next]_vars => TypeOK'
  BY TypeStep DEF TypeOK, vars
<1> QED BY TypeInit, <1>1, PTL DEF Spec

(* A flash operation is pending only while there is no error; then the     *)
(* transfer lies in the application area, because only START, which goes   *)
(* back to the default offset, makes an error go away.                     *)
NoError == pc # "idle" => mode = "boot" /\ ota.err_flag = "OTA_SUCCESS"
AboveBoot == ota.err_flag = "OTA_SUCCESS" => ota.program_offset >= 0
InTransfer ==
    /\ pc \in {"erase", "write"} => pkt.k < ota.pkt_total
    /\ pc = "flag" => ota.pkt_total # 0

(* The check of SET bounds a transfer by the largest flash there is; that  *)
(* it stays on the chip is the client's doing, by the number of packets or *)
(* by the image's size.                                                    *)
Room ==
    ota.err_flag = "OTA_SUCCESS" =>
        /\ ota.program_offset + ota.pkt_total <= FlashBlocks
        /\ ota.pkt_total = 0 =>
              \A i \in Images : ota.program_offset + NBlocks[i] <= FlashBlocks

AnyInv == TypeOK /\ NoError /\ AboveBoot /\ InTransfer /\ (ClientsFit => Room)

LEMMA AnyInit == ASSUME Init PROVE AnyInv
<1>1. pc = "idle" /\ ota = FreshOta
  BY DEF Init
<1> QED BY <1>1, TypeInit, SizesAssumption, ImagesAssumption
        DEF AnyInv, NoError, AboveBoot, InTransfer, Room, FreshOta

(* A step that neither starts nor goes on with a packet.                   *)
LEMMA AnyQuiet ==
    ASSUME AnyInv, TypeOK', pkt' = pkt, pc' = pc,
           pc # "idle" => mode' = mode /\ ota' = ota,
           ota'.err_flag = "OTA_SUCCESS" =>
               \/ ota' = FreshOta \/ \E e : ota' = [FreshOta EXCEPT !.erase_addr = e]
               \/ /\ ota.err_flag = "OTA_SUCCESS"
                  /\ ota'.program_offset = ota.program_offset
                  /\ ota'.pkt_total = ota.pkt_total
               \/ \E s \in SetParams : /\ Taken(s)
                                       /\ ota'.program_offset = s.offset
                                       /\ ota'.pkt_total = s.total
    PROVE  AnyInv'
<1>1. NoError' /\ InTransfer'
  BY DEF AnyInv, NoError, InTransfer
<1>2. SUFFICES ASSUME ota'.err_flag = "OTA_SUCCESS"
               PROVE  ota'.program_offset >= 0 /\ (ClientsFit => Room')
  BY <1>1 DEF AnyInv, AboveBoot, Room
<1>3. CASE ota' = FreshOta \/ \E e : ota' = [FreshOta EXCEPT !.erase_addr = e]
  <2>1. ota'.program_offset = 0 /\ ota'.pkt_total = 0
    BY <1>3 DEF FreshOta
  <2> QED BY <2>1, SizesAssumption, ImagesAssumption DEF Room
<1>4. CASE /\ ota.err_flag = "OTA_SUCCESS"
           /\ ota'.program_offset = ota.program_offset
           /\ ota'.pkt_total = ota.pkt_total
  BY <1>4 DEF AnyInv, AboveBoot, Room
<1>5. ASSUME NEW s \in SetParams, Taken(s), ota'.program_offset = s.offset,
             ota'.pkt_total = s.total
      PROVE  ota'.program_offset >= 0 /\ (ClientsFit => Room')
  BY <1>5 DEF Taken, ClientsFit, Room
<1> QED BY <1>2, <1>3, <1>4, <1>5

LEMMA AnyData ==
    ASSUME AnyInv, NEW p \in Packets, Data(p), TypeOK'
    PROVE  AnyInv'
<1>1. /\ ota \in [err_flag: Status, start_flag: {0, 1}, program_offset: Int,
                  pkt_index: 0 .. Wrap - 1, pkt_total: 0 .. Wrap - 1,
                  fw_value: Ids, erase_addr: Int]
      /\ p.img \in Images /\ p.k \in 0 .. Wrap - 1 /\ Wrap \in Nat
  BY SizesAssumption DEF AnyInv, TypeOK, Packets, Packet
<1>2. CASE DataIgnored(p)
  BY <1>2, AnyQuiet DEF DataIgnored, vars, Listening, AnyInv
<1>3. ASSUME pc = "idle", UNCHANGED <<pkt, pc>>,
             NEW err \in Status \ {"OTA_SUCCESS"}, Answer(err)
      PROVE  AnyInv'
  <2>1. ota'.err_flag # "OTA_SUCCESS"
    BY <1>1, <1>3 DEF Answer
  <2> QED BY <1>3, <2>1, AnyQuiet
<1>4. CASE DataLost(p) \/ DataDamaged(p)
  <2>1. pc = "idle" /\ UNCHANGED <<pkt, pc>>
    BY <1>4 DEF DataLost, DataDamaged, Expected, Receiving, Listening
  <2>2. \E err \in Status \ {"OTA_SUCCESS"} : Answer(err)
    BY <1>4 DEF DataLost, DataDamaged, Status
  <2> QED BY <1>3, <2>1, <2>2
<1>5. ASSUME Expected(p), mode' = mode, NEW total \in 0 .. Wrap - 1, Accept(p, total),
             p.k < total,
             \/ total = ota.pkt_total
             \/ ota.pkt_total = 0 /\ total = NBlocks[p.img]
      PROVE  AnyInv'
  <2>1. /\ ota'.err_flag = ota.err_flag /\ ota.err_flag = "OTA_SUCCESS" /\ mode = "boot"
        /\ ota'.program_offset = ota.program_offset /\ ota'.pkt_total = total
        /\ pkt' = p /\ pc' \in {"erase", "write"}
    BY <1>1, <1>5 DEF Accept, Expected, Receiving, Listening
  <2>2. NoError' /\ AboveBoot' /\ InTransfer'
    BY <1>5, <2>1 DEF AnyInv, NoError, AboveBoot, InTransfer
  <2>3. ClientsFit => Room'
    BY <1>1, <1>5, <2>1 DEF AnyInv, Room
  <2> QED BY <2>2, <2>3 DEF AnyInv
<1>6. CASE DataFirst(p)
  <2>1. Expected(p) /\ pc = "idle" /\ mode' = mode /\ p.k = 0
    BY <1>6 DEF DataFirst, Expected, Receiving, Listening, RestOfDevice
  <2>2. \/ /\ UNCHANGED <<pkt, pc>>
           /\ \E err \in {"OTA_ERR_PARAM", "OTA_FW_CHECK_ERR"} : Answer(err)
        \/ \E total \in 0 .. Wrap - 1 :
              /\ Accept(p, total) /\ total # 0
              /\ \/ total = ota.pkt_total
                 \/ ota.pkt_total = 0 /\ total = NBlocks[p.img]
    <3>1. /\ HeaderTotal(p.img) \in 0 .. Wrap - 1
          /\ HeaderTotal(p.img) # 0 => HeaderTotal(p.img) = NBlocks[p.img]
      BY <1>1, ImagesAssumption DEF HeaderTotal
    <3> QED BY <1>1, <1>6, <3>1 DEF DataFirst
  <2>3. CASE UNCHANGED <<pkt, pc>>
             /\ \E err \in {"OTA_ERR_PARAM", "OTA_FW_CHECK_ERR"} : Answer(err)
    BY <1>3, <2>1, <2>3 DEF Status
  <2> QED BY <1>5, <2>1, <2>2, <2>3
<1>7. CASE DataMiddle(p)
  <2>1. Expected(p) /\ pc = "idle" /\ mode' = mode
    BY <1>7 DEF DataMiddle, Expected, Receiving, Listening, RestOfDevice
  <2>2. CASE p.k < ota.pkt_total
    BY <1>1, <1>5, <1>7, <2>1, <2>2 DEF DataMiddle
  <2>3. CASE ~ (p.k < ota.pkt_total)
    BY <1>3, <1>7, <2>1, <2>3 DEF DataMiddle, Status
  <2> QED BY <2>2, <2>3
<1>8. CASE DataLast(p)
  <2>1. /\ pc = "idle" /\ mode' = mode /\ mode = "boot" /\ ota.err_flag = "OTA_SUCCESS"
        /\ p.k # 0 /\ p.k = ota.pkt_total - 1
    BY <1>8 DEF DataLast, Expected, Receiving, Listening, RestOfDevice
  <2>2. CASE CrcMatches(p)
    <3>1. pc' = "flag" /\ ota' = ota /\ ota.pkt_total # 0
      BY <1>1, <1>8, <2>1, <2>2 DEF DataLast
    <3> QED BY <2>1, <3>1 DEF AnyInv, NoError, AboveBoot, InTransfer, Room
  <2>3. CASE ~ CrcMatches(p)
    BY <1>3, <1>8, <2>1, <2>3 DEF DataLast, Status
  <2> QED BY <2>2, <2>3
<1> QED BY <1>2, <1>4, <1>6, <1>7, <1>8 DEF Data

LEMMA AnyStep == ASSUME AnyInv, Next PROVE AnyInv'
<1>0. TypeOK'
  BY TypeStep DEF AnyInv
<1>1. /\ ota \in [err_flag: Status, start_flag: {0, 1}, program_offset: Int,
                  pkt_index: 0 .. Wrap - 1, pkt_total: 0 .. Wrap - 1,
                  fw_value: Ids, erase_addr: Int]
      /\ pc # "idle" => mode = "boot"
  BY DEF AnyInv, TypeOK, NoError
<1>2. ASSUME NEW e, Start(e) PROVE AnyInv'
  BY <1>0, <1>2, AnyQuiet DEF Start, Listening
<1>3. ASSUME NEW s \in SetParams, SetParam(s) PROVE AnyInv'
  <2>1. pc = "idle" /\ pkt' = pkt /\ pc' = pc
    BY <1>3 DEF SetParam, Listening
  <2>2. ota'.err_flag = "OTA_SUCCESS" =>
           Taken(s) /\ ota'.program_offset = s.offset /\ ota'.pkt_total = s.total
    BY <1>1, <1>3 DEF SetParam, Answer
  <2> QED BY <1>0, <2>1, <2>2, AnyQuiet
<1>4. CASE Set \/ Malformed \/ DataNotStarted
  <2>1. pc = "idle" /\ pkt' = pkt /\ pc' = pc
    BY <1>4 DEF Set, Malformed, DataNotStarted, Receiving, Listening
  <2>2. ota'.err_flag = "OTA_SUCCESS" =>
           /\ ota.err_flag = "OTA_SUCCESS"
           /\ ota'.program_offset = ota.program_offset
           /\ ota'.pkt_total = ota.pkt_total
    BY <1>1, <1>4 DEF Set, Malformed, DataNotStarted, Answer
  <2> QED BY <1>0, <2>1, <2>2, AnyQuiet
<1>5. ASSUME NEW p \in Packets, Data(p) PROVE AnyInv'
  BY <1>0, <1>5, AnyData
<1>6. CASE EraseSector \/ WriteBlock
  <2>1. /\ ota'.err_flag = ota.err_flag /\ ota'.program_offset = ota.program_offset
        /\ ota'.pkt_total = ota.pkt_total /\ pkt' = pkt /\ mode' = mode
        /\ pc' \in {"write", "idle"} /\ pc \in {"erase", "write"}
    BY <1>1, <1>6 DEF EraseSector, WriteBlock
  <2> QED BY <1>0, <2>1 DEF AnyInv, NoError, AboveBoot, InTransfer, Room
<1>7. CASE WriteFlag
  <2>1. pc' = "idle" /\ ota'.err_flag # "OTA_SUCCESS"
    BY <1>1, <1>7 DEF WriteFlag, Answer
  <2> QED BY <1>0, <2>1 DEF AnyInv, NoError, AboveBoot, InTransfer, Room
<1>8. CASE Connect \/ Disconnect \/ BootTimeout
  BY <1>0, <1>8, AnyQuiet DEF Connect, Disconnect, BootTimeout
<1>9. ASSUME NEW r, End(r) \/ AppReset(r) PROVE AnyInv'
  BY <1>0, <1>1, <1>9, AnyQuiet DEF End, Listening, AppReset
<1>10. ASSUME NEW key, PowerUp(key) PROVE AnyInv'
  BY <1>0, <1>1, <1>10, AnyQuiet DEF PowerUp
<1>11. CASE PowerLoss
  <2>1. pc' = "idle" /\ ota' = ota
    BY <1>11 DEF PowerLoss
  <2> QED BY <1>0, <2>1 DEF AnyInv, NoError, AboveBoot, InTransfer, Room
<1> QED BY <1>2, <1>3, <1>4, <1>5, <1>6, <1>7, <1>8, <1>9, <1>10, <1>11, NextCases
        DEF PlainStep, FlashOp

LEMMA AnyInvariance == Spec => []AnyInv
<1>1. AnyInv /\ [Next]_vars => AnyInv'
  <2>1. CASE UNCHANGED vars
    BY <2>1 DEF vars, AnyInv, TypeOK, NoError, AboveBoot, InTransfer, Room
  <2> QED BY <2>1, AnyStep
<1> QED BY AnyInit, <1>1, PTL DEF Spec

(* Only PowerUp enters a program; the flash changes only by a flash        *)
(* operation of ota_parser, or when the power fails during one.            *)
LEMMA OtherSteps ==
    ASSUME Next
    PROVE  \/ \E key \in BOOLEAN : PowerUp(key)
           \/ FlashOp
           \/ PowerLoss
           \/ flash' = flash /\ mode' \in {mode, "reset"}
<1>1. CASE \E p \in Packets : Data(p)
  BY <1>1 DEF Data, DataIgnored, vars, DataLost, DataDamaged, DataFirst, DataMiddle, DataLast,
              RestOfDevice
<1>2. CASE ~ \E p \in Packets : Data(p)
  BY <1>2 DEF Next, Start, Set, SetParam, Malformed, End, DataNotStarted,
              RestOfDevice, Connect, Disconnect, BootTimeout, AppReset
<1> QED BY <1>1, <1>2

LEMMA FlashSteps ==
    ASSUME Next
    PROVE  flash' = flash \/ (pc # "idle" /\ (FlashOp \/ PowerLoss))
BY OtherSteps DEF FlashOp, EraseSector, WriteBlock, WriteFlag, PowerUp, PowerLoss

(* Whatever a client sends, nothing is written to the flash after an       *)
(* error, until the next START.                                            *)
THEOREM ErrorStopsWriting == Spec => NothingAfterError
<1>1. AnyInv /\ [Next]_vars => [ota.err_flag # "OTA_SUCCESS" => flash' = flash]_vars
  BY FlashSteps DEF AnyInv, NoError
<1> QED BY <1>1, AnyInvariance, PTL DEF Spec, NothingAfterError

(* What an operation in hand is about to change.                           *)
InFlash ==
    /\ pc \in {"erase", "write"} => Target \in 0 .. FlashBlocks - 1
    /\ pc = "flag" => ota.program_offset \in 0 .. FlashBlocks - 1

LEMMA RoomInFlash == ASSUME AnyInv, Room PROVE InFlash
<1> SUFFICES ASSUME pc # "idle" PROVE InFlash
  BY DEF InFlash
<1>1. /\ ota.program_offset \in Nat /\ ota.pkt_total \in Nat /\ pkt.k \in Nat
      /\ ota.program_offset + ota.pkt_total <= FlashBlocks /\ FlashBlocks \in Nat
  BY SizesAssumption DEF AnyInv, TypeOK, NoError, AboveBoot, Room, Packet
<1>2. ASSUME pc \in {"erase", "write"} PROVE Target \in 0 .. FlashBlocks - 1
  <2>1. ota.program_offset + pkt.k \in 0 .. FlashBlocks - 1
    BY <1>1, <1>2 DEF AnyInv, InTransfer
  <2> QED BY <2>1, FrontBlock DEF Target
<1>3. ASSUME pc = "flag" PROVE ota.program_offset \in 0 .. FlashBlocks - 1
  BY <1>1, <1>3 DEF AnyInv, InTransfer
<1> QED BY <1>2, <1>3 DEF InFlash

(* The flash operations stay on the chip, and no address wraps to its      *)
(* front, if no SET that CMD_OTA_SET takes names a transfer that ends      *)
(* beyond the chip.  The command itself only looks at the largest flash.   *)
THEOREM WritesStayInFlash ==
    ClientsFit =>
        (Spec => [](/\ pc \in {"erase", "write"} => Target \in 0 .. FlashBlocks - 1
                    /\ pc = "flag" => ota.program_offset \in 0 .. FlashBlocks - 1))
<1> SUFFICES ASSUME ClientsFit
             PROVE  Spec => [](/\ pc \in {"erase", "write"} => Target \in 0 .. FlashBlocks - 1
                               /\ pc = "flag" => ota.program_offset \in 0 .. FlashBlocks - 1)
  OBVIOUS
<1>1. AnyInv => /\ pc \in {"erase", "write"} => Target \in 0 .. FlashBlocks - 1
                /\ pc = "flag" => ota.program_offset \in 0 .. FlashBlocks - 1
  BY RoomInFlash DEF AnyInv, InFlash
<1> QED BY <1>1, AnyInvariance, PTL

(* Whatever such clients send, no transfer erases or programs the boot     *)
(* firmware: a sector of the application holds no block below it.          *)
THEOREM BootNeverWritten == ClientsFit => (Spec => BootIntact)
<1> SUFFICES ASSUME ClientsFit PROVE Spec => BootIntact
  OBVIOUS
<1>1. AnyInv /\ [Next]_vars => [\A b \in Area : b < 0 => flash'[b] = flash[b]]_vars
  <2> SUFFICES ASSUME AnyInv, Next, NEW b \in Area, b < 0 PROVE flash'[b] = flash[b]
    OBVIOUS
  <2>0. InFlash /\ flash \in [Area -> Block] /\ b \in Int
    BY RoomInFlash, AreaFacts DEF AnyInv, TypeOK
  <2>a. ASSUME NEW c \in 0 .. FlashBlocks - 1
        PROVE  c \in Area /\ c \in Int /\ c >= 0 /\ c # b /\ Cell(c) = c
    BY <2>0, <2>a, FrontBlock
  <2>1. CASE flash' = flash
    BY <2>1
  <2>2. CASE pc # "idle" /\ (FlashOp \/ PowerLoss)
    <3>3. CASE EraseSector
      <4>1. /\ Target \in Int /\ Target >= 0 /\ Cell(Target) = Target
        BY <2>0, <2>a, <3>3 DEF InFlash, EraseSector
      <4>2. Sector(b) # Sector(Target)
        BY <2>0, <4>1, SectorNegative, SectorZero, SectorMonotone, SectorType
      <4> QED BY <3>3, <4>1, <4>2 DEF EraseSector
    <3>4. CASE WriteBlock
      BY <2>0, <2>a, <3>4 DEF InFlash, WriteBlock
    <3>5. CASE WriteFlag
      BY <2>0, <2>a, <3>5 DEF InFlash, WriteFlag
    <3>6. CASE PowerLoss
      BY <2>0, <2>a, <3>6 DEF InFlash, PowerLoss
    <3> QED BY <2>2, <3>3, <3>4, <3>5, <3>6 DEF FlashOp
  <2> QED BY <2>1, <2>2, FlashSteps
<1> QED BY <1>1, AnyInvariance, PTL DEF Spec, BootIntact

-----------------------------------------------------------------------------
(***************************************************************************)
(* Standard clients.                                                       *)
(***************************************************************************)

(* What the parts of the invariant need to know of a record that changes   *)
(* in its flags, or in the parameters of a SET.                            *)
SameTransfer(new) ==
    /\ new.pkt_index = ota.pkt_index
    /\ new.erase_addr = ota.erase_addr

-----------------------------------------------------------------------------
(* The state of the transfer starts afresh: CMD_OTA_START, and a reset.    *)
LEMMA FreshStep ==
    ASSUME IInv, pc = "idle", ota' = FreshOta,
           flash' = flash, pkt' = pkt, pc' = pc
    PROVE  Default' /\ FlagMeansImage' /\ FlagWriteSucceeds' /\ Transfer'
<1>1. Default' /\ FlagMeansImage' /\ FlagWriteSucceeds'
  BY DEF IInv, Default, FlagMeansImage, FlagWriteSucceeds, Holds, FreshOta
<1>2. Progress' /\ InHand' /\ FlagOut' /\ Received'
  BY DEF Progress, InHand, FlagOut, Received, FreshOta
<1>3. BlankAhead'
  <2>1. NextIndex' = 0 /\ ota'.erase_addr = -1
    BY DEF NextIndex, FreshOta, EraseAll
  <2>2. ASSUME NEW b \in Area, b >= 0 PROVE ~ (Sector(b) <= -1)
    <3>1. b \in Int BY AreaFacts
    <3>2. 0 <= Sector(b) BY <2>2, <3>1, SectorZero, SectorMonotone
    <3> QED BY <3>1, <3>2, SectorType
  <2> QED BY <2>1, <2>2 DEF BlankAhead
<1> QED BY <1>1, <1>2, <1>3 DEF Transfer

(* A step that leaves the flash and the place in the transfer alone.  Only *)
(* START makes an error go away.                                           *)
LEMMA QuietStep ==
    ASSUME IInv, SameTransfer(ota'), Default',
           ota'.err_flag = "OTA_SUCCESS" => ota.err_flag = "OTA_SUCCESS",
           ota'.err_flag # "OTA_WRITE_FLASH_ERR",
           pc # "idle" => ota' = ota,
           mode' = "boot" => mode = "boot",
           flash' = flash, pkt' = pkt, pc' = pc
    PROVE  Default' /\ FlagMeansImage' /\ FlagWriteSucceeds'
           /\ (mode' = "boot" => Transfer')
<1>1. Default' /\ FlagMeansImage' /\ FlagWriteSucceeds'
  BY DEF IInv, FlagMeansImage, FlagWriteSucceeds, Holds
<1>2. SUFFICES ASSUME mode' = "boot" PROVE Transfer'
  BY <1>1
<1>3. Transfer
  BY <1>2 DEF IInv
<1>4. NextIndex' = NextIndex
  BY DEF NextIndex, SameTransfer
<1>5. Progress'
  BY <1>3 DEF Transfer, Progress, SameTransfer
<1>6. InHand'
  BY <1>3, <1>4 DEF Transfer, InHand, CrcMatches, Holds, SameTransfer
<1>7. FlagOut'
  BY <1>3 DEF Transfer, FlagOut, SameTransfer
<1>8. BlankAhead'
  BY <1>3, <1>4 DEF Transfer, BlankAhead, SameTransfer
<1>9. Received'
  BY <1>3 DEF Transfer, Received, SameTransfer
<1> QED BY <1>5, <1>6, <1>7, <1>8, <1>9 DEF Transfer

(* A data packet is accepted and its flash operations are about to start.  *)
LEMMA AcceptStep ==
    ASSUME IInv, mode' = mode, flash' = flash,
           NEW p \in Packets, Expected(p), NEW total, Accept(p, total)
    PROVE  Default' /\ FlagMeansImage' /\ FlagWriteSucceeds' /\ Transfer'
<1>0. /\ Transfer /\ pc = "idle" /\ ota.err_flag = "OTA_SUCCESS"
      /\ p.k = NextIndex
  BY DEF IInv, Expected, Receiving, Listening
<1>1. /\ SameTransfer(ota') /\ ota'.err_flag = ota.err_flag
      /\ ota'.program_offset = ota.program_offset
      /\ pkt' = p /\ pc' \in {"erase", "write"}
      /\ pc' = "erase" <=> Sector(Address(ota.program_offset + p.k)) > ota.erase_addr
  BY DEF Accept, SameTransfer, IInv, TypeOK
<1>2. /\ Default' /\ FlagMeansImage' /\ FlagWriteSucceeds'
      /\ NextIndex' = NextIndex
  BY <1>1 DEF IInv, Default, FlagMeansImage, FlagWriteSucceeds, Holds,
             SameTransfer, NextIndex
<1>3. p.k \in 0 .. Wrap - 1 /\ Address(ota.program_offset + p.k) = p.k
  BY <1>0, FrontPacket DEF Packets, Packet, IInv, Default
<1>4. Sector(p.k) \in Int /\ ota.erase_addr \in Int /\ 0 <= Sector(p.k)
  BY <1>3, SectorType, SectorZero, SectorMonotone, SizesAssumption DEF IInv, TypeOK
<1>5. InHand'
  BY <1>0, <1>1, <1>2, <1>3, <1>4 DEF InHand, SameTransfer
<1>6. pc' = "write" => ota.pkt_index # Wrap - 1
  BY <1>0, <1>1, <1>3, <1>4 DEF Transfer, Progress, EraseAll
<1>7. Progress'
  BY <1>0, <1>1, <1>6 DEF Transfer, Progress, SameTransfer
<1>8. FlagOut'
  BY <1>0, <1>1, <1>6 DEF Transfer, FlagOut, SameTransfer
<1>9. BlankAhead' /\ Received'
  BY <1>0, <1>1, <1>2 DEF Transfer, BlankAhead, Received, SameTransfer
<1> QED BY <1>2, <1>5, <1>7, <1>8, <1>9 DEF Transfer

(* The last packet's CRC was right.                                        *)
LEMMA LastStep ==
    ASSUME IInv, mode' = mode, flash' = flash, ota' = ota,
           NEW p \in Packets, Expected(p), CrcMatches(p), p.k # 0,
           pkt' = p, pc' = "flag"
    PROVE  Default' /\ FlagMeansImage' /\ FlagWriteSucceeds' /\ Transfer'
<1>0. /\ Transfer /\ pc = "idle" /\ ota.err_flag = "OTA_SUCCESS"
      /\ p.k = NextIndex /\ NextIndex' = NextIndex
  BY DEF IInv, Expected, Receiving, Listening, NextIndex
<1>1. Default' /\ FlagMeansImage' /\ FlagWriteSucceeds'
  BY DEF IInv, Default, FlagMeansImage, FlagWriteSucceeds, Holds
<1>2. CrcMatches(p)'
  BY DEF CrcMatches, Holds
<1>3. InHand'
  BY <1>0, <1>2 DEF InHand
<1>4. Progress' /\ FlagOut' /\ BlankAhead' /\ Received'
  BY <1>0 DEF Transfer, Progress, FlagOut, BlankAhead, Received
<1> QED BY <1>1, <1>3, <1>4 DEF Transfer

(* A sector is erased: the old flag is gone, and the packets of this       *)
(* transfer are in sectors below.                                          *)
LEMMA EraseStep ==
    ASSUME IInv, EraseSector
    PROVE  Default' /\ FlagMeansImage' /\ FlagWriteSucceeds' /\ Transfer'
<1>0. /\ TypeOK /\ Transfer /\ pc = "erase" /\ ota.err_flag = "OTA_SUCCESS"
      /\ pkt.k = NextIndex /\ pkt \in Packets
  BY DEF IInv, EraseSector, Transfer, InHand
<1>1. pkt.k \in 0 .. Wrap - 1 /\ Target = pkt.k /\ Cell(pkt.k) = pkt.k
  BY <1>0, FrontPacket DEF Target, IInv, Default, Packets, Packet
<1>2. /\ ota'.erase_addr = Sector(pkt.k) /\ pc' = "write" /\ pkt' = pkt
      /\ ota'.program_offset = ota.program_offset
      /\ ota'.pkt_index = ota.pkt_index
      /\ ota'.err_flag = ota.err_flag
  BY <1>0, <1>1 DEF EraseSector, TypeOK
<1>3. NextIndex' = NextIndex
  BY <1>2 DEF NextIndex
<1>4. \A b \in Area : flash'[b] = IF Sector(b) = Sector(pkt.k)
                                  THEN Blank ELSE flash[b]
  BY <1>1 DEF EraseSector
<1>5. flash'[0].id = Ones
  <2>1. CASE pkt.k = 0
    BY <2>1, <1>4, AreaFacts DEF Blank
  <2>2. CASE pkt.k # 0
    <3>1. ota.pkt_index # Wrap - 1
      BY <2>2, <1>0 DEF NextIndex
    <3>2. flash[0].id = Ones
      BY <3>1, <1>0 DEF Transfer, FlagOut
    <3> QED BY <3>2, <1>4, AreaFacts DEF Blank
  <2> QED BY <2>1, <2>2
<1>6. Default' /\ FlagWriteSucceeds' /\ FlagOut'
  BY <1>2, <1>5 DEF IInv, Default, FlagWriteSucceeds, FlagOut
<1>7. FlagMeansImage'
  BY <1>5, WordsAssumption DEF FlagMeansImage
<1>8. InHand'
  <2>1. Sector(pkt.k) \in Int
    BY <1>1, SectorType, SizesAssumption
  <2> QED BY <2>1, <1>0, <1>2, <1>3 DEF InHand
<1>9. Progress'
  <2>1. ASSUME ota.pkt_index # Wrap - 1 PROVE Sector(ota.pkt_index) <= Sector(pkt.k)
    <3>1. ota.pkt_index \in Int /\ ota.pkt_index <= pkt.k
      BY <2>1, <1>0, <1>1, SizesAssumption DEF NextIndex, TypeOK
    <3> QED BY <3>1, <1>1, SectorMonotone, SizesAssumption
  <2> QED BY <2>1, <1>0, <1>2 DEF Transfer, Progress
<1>10. BlankAhead'
  <2> SUFFICES ASSUME NEW b \in Area, b >= NextIndex, Sector(b) <= Sector(pkt.k)
               PROVE  flash'[b] = Blank
    BY <1>2, <1>3 DEF BlankAhead
  <2>1. b \in Int /\ Sector(b) \in Int /\ Sector(pkt.k) \in Int
    BY <1>1, AreaFacts, SectorType, SizesAssumption
  <2>2. Sector(pkt.k) <= Sector(b)
    BY <1>0, <1>1, <2>1, SectorMonotone, SizesAssumption
  <2> QED BY <2>1, <2>2, <1>4
<1>11. Received'
  <2> SUFFICES ASSUME ota.pkt_index # Wrap - 1, NEW k \in 0 .. ota.pkt_index
               PROVE  \E i \in Images : flash'[k].body = <<i, k>>
    BY <1>2 DEF Received
  <2>1. ota.pkt_index \in 0 .. FlashBlocks - 1 /\ k \in Area /\ k \in Int
    BY <1>0, SizesAssumption DEF TypeOK, Transfer, Progress, Area
  <2>2. /\ Sector(k) <= Sector(ota.pkt_index)
        /\ Sector(k) \in Int /\ Sector(ota.pkt_index) \in Int
        /\ Sector(pkt.k) \in Int
    BY <2>1, <1>1, SectorMonotone, SectorType, SizesAssumption
  <2>3. Sector(ota.pkt_index) <= ota.erase_addr /\ ota.erase_addr < Sector(pkt.k)
    BY <1>0 DEF Transfer, Progress, InHand
  <2>4. flash'[k] = flash[k]
    BY <2>1, <2>2, <2>3, <1>0, <1>4 DEF TypeOK
  <2> QED BY <2>4, <1>0 DEF Transfer, Received
<1> QED BY <1>6, <1>7, <1>8, <1>9, <1>10, <1>11 DEF Transfer

(* A packet is programmed into blank flash.                                *)
LEMMA WriteStep ==
    ASSUME IInv, WriteBlock
    PROVE  Default' /\ FlagMeansImage' /\ FlagWriteSucceeds' /\ Transfer'
<1>0. /\ TypeOK /\ Transfer /\ pc = "write" /\ ota.err_flag = "OTA_SUCCESS"
      /\ pkt.k = NextIndex /\ pkt \in Packets
  BY DEF IInv, WriteBlock, Transfer, InHand
<1>1. /\ pkt.k \in 0 .. Wrap - 2 /\ pkt.k < FlashBlocks
      /\ pkt \in Packet /\ pkt.img \in Images /\ pkt.k \in Area
      /\ Target = pkt.k /\ Cell(Target) = pkt.k
  <2>1. ota.program_offset = 0
    BY <1>0 DEF IInv, Default
  <2>2. pkt.k \in 0 .. Wrap - 2 /\ pkt \in Packet /\ pkt.img \in Images
    BY <1>0, SizesAssumption DEF Packets, Packet
  <2> QED BY <1>0, <2>1, <2>2, FrontPacket, SizesAssumption DEF Target
<1>2. /\ ota'.pkt_index = pkt.k /\ pc' = "idle" /\ pkt' = pkt
      /\ ota'.program_offset = ota.program_offset
      /\ ota'.erase_addr = ota.erase_addr
      /\ ota'.err_flag = ota.err_flag
  BY <1>0 DEF WriteBlock, TypeOK
<1>3. NextIndex' = pkt.k + 1 /\ pkt.k # Wrap - 1
  BY <1>1, <1>2, SizesAssumption DEF NextIndex
<1>4. flash[pkt.k] = Blank
  BY <1>0, <1>1, SizesAssumption DEF Transfer, BlankAhead, InHand
<1>5. /\ flash'[pkt.k] = Payload(pkt)
      /\ \A b \in Area : b # pkt.k => flash'[b] = flash[b]
  <2>1. Program(flash[pkt.k], Payload(pkt)) = Payload(pkt)
    BY <1>1, <1>4, PayloadType, ProgramBlank
  <2> QED BY <2>1, <1>0, <1>1 DEF WriteBlock, TypeOK
<1>6. flash'[0].id = Ones
  <2>1. CASE pkt.k = 0
    BY <2>1, <1>5 DEF Payload
  <2>2. CASE pkt.k # 0
    BY <2>2, <1>0, <1>5, AreaFacts DEF Transfer, FlagOut
  <2> QED BY <2>1, <2>2
<1>7. Default' /\ FlagWriteSucceeds' /\ FlagOut' /\ InHand'
  BY <1>2, <1>6 DEF IInv, Default, FlagWriteSucceeds, FlagOut, InHand
<1>8. FlagMeansImage'
  BY <1>6, WordsAssumption DEF FlagMeansImage
<1>9. Progress'
  BY <1>0, <1>1, <1>2, <1>3 DEF Progress, Transfer, InHand
<1>10. BlankAhead'
  <2> SUFFICES ASSUME NEW b \in Area, b >= pkt.k + 1, Sector(b) <= ota.erase_addr
               PROVE  flash'[b] = Blank
    BY <1>2, <1>3 DEF BlankAhead
  <2>1. b \in Int /\ b >= NextIndex /\ b # pkt.k
    BY <1>0, <1>1, AreaFacts, SizesAssumption
  <2> QED BY <2>1, <1>0, <1>5 DEF Transfer, BlankAhead
<1>11. Received'
  <2> SUFFICES ASSUME NEW k \in 0 .. pkt.k
               PROVE  \E i \in Images : flash'[k].body = <<i, k>>
    BY <1>2 DEF Received
  <2>1. CASE k = pkt.k
    BY <2>1, <1>1, <1>5 DEF Payload
  <2>2. CASE k # pkt.k
    <3>1. ota.pkt_index # Wrap - 1 /\ k \in 0 .. ota.pkt_index
      BY <2>2, <1>0, <1>1, SizesAssumption DEF NextIndex, TypeOK
    <3>2. k \in Area
      BY <1>1, SizesAssumption DEF Area
    <3> QED BY <2>2, <3>1, <3>2, <1>0, <1>5 DEF Transfer, Received
  <2> QED BY <2>1, <2>2
<1> QED BY <1>7, <1>8, <1>9, <1>10, <1>11 DEF Transfer

(* The flag is programmed in front of the image whose CRC was checked.     *)
LEMMA FlagStep ==
    ASSUME IInv, WriteFlag
    PROVE  /\ Default' /\ FlagMeansImage' /\ FlagWriteSucceeds' /\ Transfer'
           /\ flash[0].id = Ones
<1>0. /\ TypeOK /\ Transfer /\ pc = "flag" /\ ota.err_flag = "OTA_SUCCESS"
      /\ pkt.k = NextIndex /\ pkt \in Packets /\ pkt.k # 0 /\ CrcMatches(pkt)
      /\ ota.program_offset = 0 /\ ota.fw_value \in Ids
  BY DEF IInv, TypeOK, WriteFlag, Transfer, InHand, Default
<1>1. ota.pkt_index # Wrap - 1
  BY <1>0 DEF NextIndex
<1>2. flash[0].id = Ones
  BY <1>0, <1>1 DEF Transfer, FlagOut
<1>3. /\ flash'[0].id = ota.fw_value /\ flash'[0].body = flash[0].body
      /\ \A b \in Area : b # 0 => flash'[b] = flash[b]
  <2>1. flash[0] \in Block /\ flash' = [flash EXCEPT ![0].id = ota.fw_value]
    BY <1>0, <1>2, AreaFacts, FrontImage, ImagesAssumption DEF WriteFlag, TypeOK, And
  <2> QED BY <2>1, <1>0, AreaFacts DEF TypeOK, Block
<1>4. /\ SameTransfer(ota') /\ ota'.err_flag = "OTA_END"
      /\ pc' = "idle" /\ pkt' = pkt
  <2>1. Cell(ota.program_offset) = 0
    BY <1>0, FrontImage, ImagesAssumption
  <2> QED BY <1>0, <1>3, <2>1 DEF WriteFlag, Answer, SameTransfer, TypeOK
<1>5. NextIndex' = NextIndex /\ NextIndex >= 1 /\ NextIndex \in Int
  BY <1>0, <1>4, SizesAssumption DEF NextIndex, SameTransfer, TypeOK
<1>6. Default' /\ FlagWriteSucceeds' /\ FlagOut' /\ InHand' /\ Progress'
  BY <1>0, <1>1, <1>4 DEF IInv, Default, FlagWriteSucceeds, FlagOut, InHand,
                    Transfer, Progress, SameTransfer
<1>7. FlagMeansImage'
  <2>0. SUFFICES ASSUME ota.fw_value = StartUpFlag PROVE FlagMeansImage'
    BY <1>3 DEF FlagMeansImage
  <2>1. PICK i \in Images : Id[i] = StartUpFlag /\ Holds(i, 0)
    BY <1>0, <2>0 DEF CrcMatches, Packets, Packet
  <2>2. Whole(i)'
    BY <2>1, <1>3, HoldsWhole, FrontImage DEF Whole
  <2>3. Holds(i, 0)'
    BY <2>2, HoldsWholeNext
  <2> QED BY <2>1, <2>3 DEF FlagMeansImage
<1>8. BlankAhead'
  <2> SUFFICES ASSUME NEW b \in Area, b >= NextIndex, Sector(b) <= ota.erase_addr
               PROVE  flash'[b] = Blank
    BY <1>4, <1>5 DEF BlankAhead, SameTransfer
  <2>1. b # 0
    BY <1>5, AreaFacts
  <2> QED BY <2>1, <1>0, <1>3 DEF Transfer, BlankAhead
<1>9. Received'
  <2> SUFFICES ASSUME NEW k \in 0 .. ota.pkt_index
               PROVE  \E i \in Images : flash'[k].body = <<i, k>>
    BY <1>4 DEF Received, SameTransfer
  <2>1. k \in Area
    BY <1>0, <1>1, SizesAssumption DEF Area, Transfer, Progress, TypeOK
  <2>2. flash'[k].body = flash[k].body
    BY <2>1, <1>3
  <2> QED BY <2>2, <1>0, <1>1 DEF Transfer, Received
<1> QED BY <1>2, <1>6, <1>7, <1>8, <1>9 DEF Transfer

(* The power fails: a torn block is one of an image without a flag.        *)
LEMMA LossStep ==
    ASSUME IInv, PowerLoss
    PROVE  /\ Default' /\ FlagMeansImage' /\ FlagWriteSucceeds' /\ mode' = "reset"
           /\ flash' # flash => flash[0].id = Ones /\ flash'[0].id = Ones
<1>1. ota' = ota /\ mode' = "reset"
  BY DEF PowerLoss
<1>2. Default' /\ FlagWriteSucceeds'
  BY <1>1 DEF IInv, Default, FlagWriteSucceeds
<1>3. CASE flash' = flash
  BY <1>1, <1>2, <1>3 DEF IInv, FlagMeansImage, Holds
<1>4. CASE flash' # flash
  <2>1. pc = "write" /\ flash' = [flash EXCEPT ![Cell(Target)].body = Garbled]
    BY <1>4 DEF PowerLoss
  <2>2. flash[0].id = Ones
    BY <2>1 DEF IInv, Transfer, InHand, FlagOut
  <2>3. flash'[0].id = flash[0].id
    BY <2>1, AreaFacts DEF IInv, TypeOK, Block
  <2>4. FlagMeansImage'
    BY <2>2, <2>3, WordsAssumption DEF FlagMeansImage
  <2> QED BY <1>1, <1>2, <2>2, <2>3, <2>4
<1> QED BY <1>3, <1>4

-----------------------------------------------------------------------------
(* The steps of the standard clients.                                      *)
TameStep ==
    \/ Start(EraseAll)
    \/ \E s \in SetParams : (Taken(s) => s.offset = 0) /\ SetParam(s)
    \/ PlainStep

LEMMA TameNext == ASSUME StandardClients, Next PROVE TameStep
BY NextCases DEF StandardClients, TameStep

LEMMA TameIsNext == ASSUME TameStep PROVE Next
BY DEF TameStep, PlainStep, Next

(* The invariant holds at the start and every step keeps it.               *)
LEMMA InvInit == ASSUME Init PROVE IInv
<1>1. /\ pc = "idle" /\ mode = "reset" /\ ota = FreshOta
  BY DEF Init
<1>2. TypeOK
  BY TypeInit
<1>3. Default /\ FlagWriteSucceeds
  BY <1>1 DEF Default, FlagWriteSucceeds, FreshOta
<1>4. FlagMeansImage
  <2>1. CASE flash = [b \in Area |-> Blank]
    BY <2>1, AreaFacts, WordsAssumption DEF FlagMeansImage, Blank
  <2>2. ASSUME NEW i \in Images, Id[i] = StartUpFlag, flash = Factory(i)
        PROVE  FlagMeansImage
    <3>1. flash[0].body = <<i, 0>>
      BY <2>2, AreaFacts DEF Factory
    <3>2. ASSUME NEW k \in 1 .. NBlocks[i] - 2
          PROVE  flash[k] = [id |-> Word, body |-> <<i, k>>]
      <4>1. k \in Area /\ k # 0
        BY SizesAssumption, ImagesAssumption DEF Area
      <4> QED BY <2>2, <4>1 DEF Factory
    <3> QED BY <2>2, <3>1, <3>2, HoldsWhole DEF FlagMeansImage, Whole
  <2> QED BY <2>1, <2>2 DEF Init
<1> QED BY <1>1, <1>2, <1>3, <1>4 DEF IInv

LEMMA InvStep ==
    ASSUME IInv, TameStep
    PROVE  IInv'
<1>0. TypeOK'
  BY TypeStep, TameIsNext DEF IInv
<1>1. SUFFICES /\ pc' # "idle" => mode' = "boot"
               /\ Default' /\ FlagMeansImage' /\ FlagWriteSucceeds'
               /\ mode' = "boot" => Transfer'
  BY <1>0 DEF IInv
<1>2. pc # "idle" => mode = "boot"
  BY DEF IInv
<1> DEFINE Goal == /\ pc' # "idle" => mode' = "boot"
                   /\ Default' /\ FlagMeansImage' /\ FlagWriteSucceeds'
                   /\ mode' = "boot" => Transfer'
<1>3. CASE Start(EraseAll)
  <2>1. /\ pc = "idle" /\ ota' = FreshOta
        /\ flash' = flash /\ pkt' = pkt /\ pc' = pc
    BY <1>3 DEF Start, Listening, RestOfDevice, FreshOta, EraseAll
  <2> QED BY <2>1, FreshStep
<1>4. ASSUME NEW key \in BOOLEAN, PowerUp(key) PROVE Goal
  <2>1. /\ pc = "idle" /\ ota' = FreshOta
        /\ flash' = flash /\ pkt' = pkt /\ pc' = pc
    BY <1>2, <1>4 DEF PowerUp
  <2> QED BY <2>1, FreshStep
<1>5. ASSUME pc = "idle", mode' = mode, UNCHANGED <<flash, pkt, pc>>,
             NEW err, Answer(err), err # "OTA_WRITE_FLASH_ERR", err # "OTA_SUCCESS"
      PROVE  Goal
  <2>1. ota' = [ota EXCEPT !.err_flag = err] /\ TypeOK
    BY <1>5 DEF Answer, IInv
  <2>2. SameTransfer(ota') /\ ota'.err_flag = err /\ Default'
    BY <1>5, <2>1 DEF SameTransfer, TypeOK, Default
  <2> QED BY <1>5, <2>2, QuietStep
<1>6. CASE Set
  <2>1. pc = "idle" /\ mode' = mode /\ UNCHANGED <<flash, pkt, pc>> /\ TypeOK
    BY <1>6 DEF Set, Listening, RestOfDevice, IInv
  <2>2. CASE Answer("OTA_NO_START")
    BY <1>5, <2>1, <2>2
  <2>3. CASE ota' = [ota EXCEPT !.start_flag = 1]
    <3>1. SameTransfer(ota') /\ ota'.err_flag = ota.err_flag /\ Default'
      BY <2>1, <2>3 DEF SameTransfer, TypeOK, IInv, Default
    <3>2. ota.err_flag # "OTA_WRITE_FLASH_ERR"
      BY DEF IInv, FlagWriteSucceeds
    <3> QED BY <2>1, <3>1, <3>2, QuietStep
  <2> QED BY <1>6, <2>2, <2>3 DEF Set
<1>16. ASSUME NEW s \in SetParams, Taken(s) => s.offset = 0, SetParam(s) PROVE Goal
  <2>1. pc = "idle" /\ mode' = mode /\ UNCHANGED <<flash, pkt, pc>> /\ TypeOK
    BY <1>16 DEF SetParam, Listening, RestOfDevice, IInv
  <2>2. CASE Answer("OTA_NO_START")
    BY <1>5, <2>1, <2>2
  <2>3. CASE ~ Answer("OTA_NO_START")
    <3>1. /\ SameTransfer(ota')
          /\ \/ ota'.err_flag = ota.err_flag /\ ota'.program_offset = 0
             \/ ota'.err_flag = "OTA_ERR_PARAM"
      BY <1>16, <2>1, <2>3 DEF SetParam, SameTransfer, TypeOK
    <3>2. ota'.err_flag # "OTA_WRITE_FLASH_ERR" /\ Default'
      BY <3>1 DEF IInv, FlagWriteSucceeds, Default
    <3> QED BY <2>1, <3>1, <3>2, QuietStep
  <2> QED BY <2>2, <2>3
<1>7. CASE Malformed \/ DataNotStarted
  <2>1. pc = "idle" /\ mode' = mode /\ UNCHANGED <<flash, pkt, pc>>
    BY <1>7 DEF Malformed, DataNotStarted, Receiving, Listening, RestOfDevice
  <2>2. \E err \in {"OTA_UNKNOWN_CMD", "OTA_PKT_SIZE_ERR", "OTA_NO_PARAM"} :
           Answer(err)
    BY <1>7 DEF Malformed, DataNotStarted
  <2> QED BY <1>5, <2>1, <2>2
<1>10. ASSUME UNCHANGED <<flash, ota, pkt, pc>>, mode' = "boot" => mode = "boot",
              pc # "idle" => mode' = mode
       PROVE  Goal
  <2>1. ota.err_flag # "OTA_WRITE_FLASH_ERR" /\ SameTransfer(ota') /\ Default'
    BY <1>10 DEF IInv, FlagWriteSucceeds, SameTransfer, Default
  <2> QED BY <1>2, <1>10, <2>1, QuietStep
<1>8. ASSUME NEW p \in Packets, Data(p) PROVE Goal
  <2>1. CASE DataLost(p) \/ DataDamaged(p)
    <3>1. pc = "idle" /\ mode' = mode /\ UNCHANGED <<flash, pkt, pc>>
      BY <2>1 DEF DataLost, DataDamaged, Expected, Receiving, Listening,
                  RestOfDevice
    <3>2. \E err \in {"OTA_PACKET_LOSS", "OTA_PKT_SIZE_ERR", "OTA_PKT_CRC_ERR"} :
             Answer(err)
      BY <2>1 DEF DataLost, DataDamaged
    <3> QED BY <1>5, <3>1, <3>2
  <2>2. CASE DataFirst(p) \/ DataMiddle(p) \/ DataLast(p)
    <3>1. /\ Expected(p) /\ pc = "idle" /\ mode = "boot"
          /\ mode' = mode /\ flash' = flash
      BY <2>2 DEF DataFirst, DataMiddle, DataLast, Expected, Receiving,
                  Listening, RestOfDevice
    <3>2. \/ /\ UNCHANGED <<pkt, pc>>
             /\ \E err \in {"OTA_ERR_PARAM", "OTA_FW_CHECK_ERR", "OTA_OVERFLOW",
                            "OTA_FW_CRC32_ERR"} : Answer(err)
          \/ \E total : Accept(p, total)
          \/ CrcMatches(p) /\ p.k # 0 /\ pkt' = p /\ pc' = "flag" /\ ota' = ota
      BY <2>2 DEF DataFirst, DataMiddle, DataLast
    <3>3. CASE UNCHANGED <<pkt, pc>> /\ \E err \in {"OTA_ERR_PARAM",
                 "OTA_FW_CHECK_ERR", "OTA_OVERFLOW", "OTA_FW_CRC32_ERR"} : Answer(err)
      BY <1>5, <3>1, <3>3
    <3>4. CASE \E total : Accept(p, total)
      BY <3>1, <3>4, AcceptStep
    <3>5. CASE CrcMatches(p) /\ p.k # 0 /\ pkt' = p /\ pc' = "flag" /\ ota' = ota
      BY <3>1, <3>5, LastStep
    <3> QED BY <3>2, <3>3, <3>4, <3>5
  <2>3. CASE DataIgnored(p)
    BY <1>10, <2>3 DEF DataIgnored, vars
  <2> QED BY <1>8, <2>1, <2>2, <2>3 DEF Data
<1>9. CASE FlashOp
  <2>1. mode' = mode /\ pc # "idle"
    BY <1>9 DEF FlashOp, EraseSector, WriteBlock, WriteFlag
  <2> QED BY <1>2, <1>9, <2>1, EraseStep, WriteStep, FlagStep DEF FlashOp
<1>11. CASE Connect \/ Disconnect
  BY <1>10, <1>11 DEF Connect, Disconnect
<1>12. ASSUME NEW r, End(r) PROVE Goal
  BY <1>10, <1>12 DEF End, Listening
<1>13. ASSUME NEW r, AppReset(r) PROVE Goal
  BY <1>2, <1>10, <1>13 DEF AppReset
<1>14. CASE BootTimeout
  BY <1>10, <1>14 DEF BootTimeout
<1>15. CASE PowerLoss
  <2>1. pc' = "idle"
    BY <1>15 DEF PowerLoss
  <2> QED BY <1>15, <2>1, LossStep
<1> QED
  BY <1>3, <1>4, <1>6, <1>7, <1>8, <1>9, <1>11, <1>12, <1>13, <1>14, <1>15, <1>16
     DEF TameStep, PlainStep

-----------------------------------------------------------------------------
LEMMA InvNext ==
    ASSUME IInv, [TameStep]_vars
    PROVE  IInv'
<1>1. CASE UNCHANGED vars
  BY <1>1 DEF vars, IInv, TypeOK, Default, FlagMeansImage, FlagWriteSucceeds,
              Holds, Transfer, Progress, InHand, FlagOut, BlankAhead, Received,
              NextIndex, CrcMatches
<1> QED BY <1>1, InvStep

LEMMA Invariance == StandardClients => (Spec => []IInv)
<1> SUFFICES ASSUME StandardClients PROVE Spec => []IInv
  OBVIOUS
<1>1. Init => IInv
  BY InvInit
<1>2. IInv /\ [Next]_vars => IInv'
  BY InvNext, TameNext
<1> QED BY <1>1, <1>2, PTL DEF Spec

(* Whatever clients, links and the power did, a flag in the flash is       *)
(* followed by every block of one image.                                   *)
THEOREM FlaggedImageIsWhole == StandardClients => (Spec => []FlagMeansImage)
<1>1. IInv => FlagMeansImage
  BY DEF IInv
<1> QED BY <1>1, Invariance, PTL

(* Every accepted packet is in the flash, unmixed with older data.         *)
THEOREM TransferIntact == StandardClients => (Spec => []SessionIntact)
<1>1. IInv => SessionIntact
  BY DEF IInv, SessionIntact, Transfer, Received
<1> QED BY <1>1, Invariance, PTL

(* The write of the flag never fails.                                      *)
THEOREM FlagIsWritten == StandardClients => (Spec => []FlagWriteSucceeds)
<1>1. IInv => FlagWriteSucceeds
  BY DEF IInv
<1> QED BY <1>1, Invariance, PTL

(* With images whose headers are well formed, start_app jumps to the       *)
(* application or stays in the boot firmware.                              *)
THEOREM NeverJumpsAstray ==
    StandardClients /\ StandardImages => (Spec => []NeverLost)
<1> SUFFICES ASSUME StandardClients, StandardImages PROVE Spec => []NeverLost
  OBVIOUS
<1>1. Init => NeverLost
  BY DEF Init, NeverLost
<1>2. IInv /\ NeverLost /\ [Next]_vars => NeverLost'
  <2> SUFFICES ASSUME IInv, NeverLost, Next PROVE NeverLost'
    BY DEF vars, NeverLost
  <2>1. ASSUME NEW key \in BOOLEAN, PowerUp(key) PROVE NeverLost'
    <3>1. Startable \subseteq {"app", "boot"}
      <4>1. CASE flash[0].id # StartUpFlag
        BY <4>1 DEF Startable
      <4>2. CASE flash[0].id = StartUpFlag
        <5>1. HeaderImages # {}
          BY <4>2, HoldsWhole DEF IInv, FlagMeansImage, Whole, HeaderImages
        <5>2. \A i \in HeaderImages : StartApp(i) = {"app"}
          <6> SUFFICES ASSUME NEW i \in HeaderImages PROVE StartApp(i) = {"app"}
            OBVIOUS
          <6>1. i \in Images
            BY DEF HeaderImages
          <6>2. i \in HasStart /\ Segments[i] \in Nat /\ ~ (Segments[i] > 15)
            BY <6>1, ImagesAssumption DEF StandardImages
          <6> QED BY <6>2 DEF StartApp
        <5> QED BY <4>2, <5>1, <5>2 DEF Startable
      <4> QED BY <4>1, <4>2
    <3> QED BY <2>1, <3>1 DEF PowerUp, NeverLost
  <2>2. ASSUME mode' \in {mode, "reset"} PROVE NeverLost'
    BY <2>2 DEF NeverLost
  <2> QED
    BY <2>1, <2>2, OtherSteps
       DEF FlashOp, EraseSector, WriteBlock, WriteFlag, PowerLoss
<1> QED BY <1>1, <1>2, Invariance, PTL DEF Spec

-----------------------------------------------------------------------------
(***************************************************************************)
(* The application area implements AppSlot.                                *)
(***************************************************************************)
LEMMA SlotType == ASSUME FlagMeansImage PROVE Slot \in Images \union {NoImage}
BY DEF FlagMeansImage, Slot

LEMMA NoFlagNoImage ==
    ASSUME flash[0].id # StartUpFlag PROVE Slot = NoImage
BY DEF Slot

LEMMA SameFlashSameSlot == ASSUME flash' = flash PROVE Slot' = Slot
BY DEF Slot, Holds

(* The program that runs, as AppSlot sees it.                              *)
Running == IF mode \in {"app", "lost"} THEN Slot ELSE NoImage

LEMMA SlotStep ==
    ASSUME IInv, IInv', Next
    PROVE  \/ Running = NoImage /\ Slot' = NoImage /\ Running' = Running
           \/ /\ Running = NoImage /\ Slot = NoImage /\ Running' = Running
              /\ Slot' \in Images
           \/ Running = NoImage /\ Running' = Slot /\ Slot' = Slot
           \/ Running' = NoImage /\ Slot' = Slot
           \/ Running' = Running /\ Slot' = Slot
<1>0. StartUpFlag # Ones
  BY WordsAssumption
<1>1. ASSUME NEW key \in BOOLEAN, PowerUp(key)
      PROVE  Running = NoImage /\ Slot' = Slot
             /\ (Running' = Slot \/ Running' = NoImage)
  BY <1>1, SameFlashSameSlot DEF PowerUp, Running
<1>2. CASE EraseSector \/ WriteBlock
  <2>1. mode = "boot" /\ mode' = "boot" /\ pc' # "flag"
    BY <1>2 DEF IInv, EraseSector, WriteBlock
  <2>2. /\ ota'.pkt_index # Wrap - 1 \/ pc' = "write"
        /\ ota'.err_flag = "OTA_SUCCESS"
    <3>1. /\ ota'.err_flag = ota.err_flag /\ ota.err_flag = "OTA_SUCCESS"
          /\ pkt.k \in 0 .. Wrap - 2
      BY <1>2, SizesAssumption
         DEF IInv, TypeOK, Transfer, InHand, EraseSector, WriteBlock, Packets, Packet
    <3>2. CASE EraseSector
      BY <3>1, <3>2 DEF EraseSector
    <3>3. CASE WriteBlock
      BY <3>1, <3>3, SizesAssumption DEF WriteBlock, IInv, TypeOK
    <3> QED BY <1>2, <3>2, <3>3
  <2>3. flash'[0].id = Ones
    BY <2>1, <2>2 DEF IInv, Transfer, FlagOut
  <2>4. Slot' = NoImage
    BY <2>3, <1>0 DEF Slot
  <2> QED BY <2>1, <2>4 DEF Running
<1>3. CASE WriteFlag
  <2>1. mode = "boot" /\ mode' = "boot"
    BY <1>3 DEF IInv, WriteFlag
  <2>2. Slot = NoImage
    BY <1>0, <1>3, FlagStep, NoFlagNoImage
  <2>3. Slot' \in Images \union {NoImage}
    BY DEF IInv, FlagMeansImage, Slot
  <2> QED BY <2>1, <2>2, <2>3 DEF Running
<1>4. CASE PowerLoss
  <2>1. Running' = NoImage
    BY <1>4, LossStep DEF Running
  <2>2. CASE flash' = flash
    BY <2>1, <2>2, SameFlashSameSlot
  <2>3. CASE flash' # flash
    <3>1. flash[0].id = Ones /\ flash'[0].id = Ones
      BY <1>4, <2>3, LossStep
    <3> QED BY <2>1, <3>1, <1>0 DEF Slot
  <2> QED BY <2>2, <2>3
<1>5. CASE flash' = flash /\ mode' \in {mode, "reset"}
  BY <1>5, SameFlashSameSlot DEF Running
<1> QED BY <1>1, <1>2, <1>3, <1>4, <1>5, OtherSteps DEF FlashOp

(* Ota implements AppSlot: the application area always holds one whole     *)
(* image or none, an image is only replaced by way of none, and only what  *)
(* the area holds is run.                                                  *)
THEOREM ImplementsSlot == StandardClients => (Spec => ImplementsAppSlot)
<1> SUFFICES ASSUME StandardClients PROVE Spec => ImplementsAppSlot
  OBVIOUS
<1>1. Init => App!SlotInit
  <2> SUFFICES ASSUME Init PROVE App!SlotInit
    OBVIOUS
  <2>1. Slot \in Images \union {NoImage}
    BY InvInit, SlotType DEF IInv
  <2>2. mode = "reset"
    BY DEF Init
  <2> QED BY <2>1, <2>2 DEF App!SlotInit
<1>2. IInv /\ IInv' /\ [Next]_vars => [App!SlotNext]_(App!slotVars)
  <2>1. ASSUME UNCHANGED vars PROVE Slot' = Slot /\ Running' = Running
    BY <2>1 DEF vars, Slot, Holds, Running
  <2>2. ASSUME IInv, IInv', Next PROVE [App!SlotNext]_(App!slotVars)
    BY <2>2, SlotStep
       DEF Running, App!SlotNext, App!Drop, App!Install, App!Run, App!Stop,
           App!slotVars
  <2> QED BY <2>1, <2>2 DEF Running, App!slotVars
<1> QED
  BY <1>1, <1>2, Invariance, PTL DEF Spec, ImplementsAppSlot, App!SlotSpec

-----------------------------------------------------------------------------
(***************************************************************************)
(* The web client: what it takes for installed is installed.               *)
(***************************************************************************)
Installed(i) == flash[0].id = StartUpFlag /\ Holds(i, 0)

(* The blocks it sends are those of its image.                             *)
Sending == step \in {"block", "poll"} => blockNr \in 0 .. NBlocks[Image] - 1
OwnPacket == pc # "idle" => pkt.img = Image

(* OTA_END is only ever the answer for its own image.                      *)
EndIsOwn == mode = "boot" /\ ota.err_flag = "OTA_END" => Installed(Image)
DoneIsOwn == step = "done" => pc = "idle" /\ Installed(Image)

UpdateInv == Sending /\ OwnPacket /\ EndIsOwn /\ DoneIsOwn

LEMMA OwnBlocks ==
    ASSUME NEW k \in 0 .. NBlocks[Image] - 1
    PROVE  [img |-> Image, k |-> k] \in Packets
<1>1. Image \in Images /\ NBlocks[Image] \in 1 .. Wrap /\ NBlocks[Image] <= CmdStart
  BY ClientAssumption, ImagesAssumption
<1>2. k \in 0 .. Wrap - 1 /\ k < NBlocks[Image] /\ k < CmdStart
  BY <1>1, SizesAssumption
<1> QED BY <1>1, <1>2 DEF Packets, Packet

(* Whatever client and device do is a step of Ota.                         *)
LEMMA UpdateIsOta ==
    ASSUME Sending, UpdateNext
    PROVE  TameStep \/ UNCHANGED vars
<1>1. CASE Device
  BY <1>1 DEF Device, TameStep, PlainStep
<1>2. CASE Disrupt
  BY <1>2 DEF Disrupt, TameStep, PlainStep
<1>3. CASE ClientConnect \/ ClientStart \/ ClientSet
  BY <1>3 DEF ClientConnect, ClientStart, ClientSet, TameStep, PlainStep
<1>4. CASE ClientSwitch
  <2>1. BOOT_FLG_OTA \in Regs \ {0}
    BY ParamsAssumption DEF BOOT_FLG_OTA
  <2> QED BY <1>4, <2>1 DEF ClientSwitch, TameStep, PlainStep
<1>5. CASE ClientCheck \/ ClientPoll
  BY <1>5 DEF ClientCheck, ClientPoll
<1>6. CASE ClientBlock
  <2> DEFINE p == [img |-> Image, k |-> blockNr]
  <2>1. p \in Packets
    BY <1>6, OwnBlocks DEF ClientBlock, Sending
  <2>2. DataNotStarted \/ Data(p)
    BY <1>6 DEF ClientBlock, Data
  <2> QED BY <2>1, <2>2 DEF TameStep, PlainStep
<1>7. CASE ClientLast
  <2>1. End(reg) \/ UNCHANGED vars
    BY <1>7 DEF ClientLast
  <2>2. reg \in Regs \union {reg}
    OBVIOUS
  <2> QED BY <2>1, <2>2 DEF TameStep, PlainStep
<1> QED BY <1>1, <1>2, <1>3, <1>4, <1>5, <1>6, <1>7 DEF UpdateNext, Client

LEMMA SendingStep ==
    ASSUME Sending, [UpdateNext]_updateVars
    PROVE  Sending'
<1>1. NBlocks[Image] \in Nat /\ NBlocks[Image] >= 2
  BY ClientAssumption, ImagesAssumption
<1>2. CASE ClientBlock
  <2>1. blockNr' = blockNr + 1 /\ blockNr \in 0 .. NBlocks[Image] - 1
    BY <1>2 DEF ClientBlock, Sending
  <2>2. blockNr = NBlocks[Image] - 1 => step' = "last"
    BY <1>2 DEF ClientBlock
  <2> QED BY <1>1, <2>1, <2>2 DEF Sending
<1>3. CASE ClientCheck
  BY <1>1, <1>3 DEF ClientCheck, Sending
<1>4. CASE ClientPoll
  BY <1>4 DEF ClientPoll, Goto, Sending
<1>5. CASE ClientConnect \/ ClientSwitch \/ ClientStart \/ ClientSet \/ ClientLast \/ Disrupt
  BY <1>5 DEF ClientConnect, ClientSwitch, ClientStart, ClientSet, ClientLast, Disrupt, Goto, Sending
<1>6. CASE Device \/ UNCHANGED updateVars
  BY <1>6 DEF Device, updateVars, clientVars, Sending
<1> QED BY <1>2, <1>3, <1>4, <1>5, <1>6 DEF UpdateNext, Client

LEMMA FlashSameInstalled ==
    ASSUME flash' = flash, Installed(Image) PROVE Installed(Image)'
BY DEF Installed, Holds

(* Steps outside of the flash: an answer other than OTA_END, a new start,  *)
(* a change of mode.                                                       *)
LEMMA EndKept ==
    ASSUME EndIsOwn, flash' = flash,
           mode' = "boot" /\ ota'.err_flag = "OTA_END"
              => mode = "boot" /\ ota.err_flag = "OTA_END"
    PROVE  EndIsOwn'
BY FlashSameInstalled DEF EndIsOwn

LEMMA EndStep ==
    ASSUME IInv, OwnPacket, EndIsOwn, UpdateNext
    PROVE  EndIsOwn'
<1>t. /\ ota \in [err_flag: Status, start_flag: {0, 1}, program_offset: Int,
                   pkt_index: 0 .. Wrap - 1, pkt_total: 0 .. Wrap - 1,
                   fw_value: Ids, erase_addr: Int]
      /\ flash \in [Area -> Block]
  BY DEF IInv, TypeOK
<1>a. ASSUME NEW err, Answer(err), err # "OTA_END" PROVE ota'.err_flag # "OTA_END"
  BY <1>a, <1>t DEF Answer
<1>1. CASE EraseSector \/ WriteBlock
  <2>1. mode = "boot" /\ ota.err_flag = "OTA_SUCCESS"
    BY <1>1 DEF EraseSector, WriteBlock, IInv, Transfer, InHand
  <2>2. ota'.err_flag = ota.err_flag
    BY <1>1, <1>t DEF EraseSector, WriteBlock
  <2> QED BY <2>1, <2>2 DEF EndIsOwn
<1>2. CASE WriteFlag
  <2>1. /\ mode = "boot" /\ pkt.img = Image /\ CrcMatches(pkt)
        /\ ota.program_offset = 0
    BY <1>2 DEF WriteFlag, OwnPacket, IInv, Transfer, InHand, Default
  <2>2. Holds(Image, 0) /\ ota.fw_value = StartUpFlag
    BY <2>1, ClientAssumption DEF CrcMatches
  <2>0. Image \in Images /\ Cell(ota.program_offset) = 0
    BY <2>1, ClientAssumption, FrontImage
  <2>3. flash' = [flash EXCEPT ![0].id = And(flash[0].id, StartUpFlag)]
    BY <1>2, <2>0, <2>2 DEF WriteFlag
  <2>4. flash'[0].body = flash[0].body /\ \A b \in Area \ {0} : flash'[b] = flash[b]
    BY <2>3, <1>t, AreaFacts DEF Block
  <2>5. Whole(Image)'
    BY <2>0, <2>2, <2>4, HoldsWhole, FrontImage DEF Whole
  <2>6. Holds(Image, 0)'
    BY <2>0, <2>5, HoldsWholeNext
  <2>7. ota'.err_flag = IF flash'[0].id = StartUpFlag THEN "OTA_END" ELSE "OTA_WRITE_FLASH_ERR"
    BY <1>2, <1>t, <2>0, <2>1, <2>2 DEF WriteFlag, Answer
  <2> QED BY <2>6, <2>7 DEF EndIsOwn, Installed
<1>3. CASE PowerUp(FALSE)
  <2>1. flash' = flash /\ ota'.err_flag = "OTA_SUCCESS"
    BY <1>3 DEF PowerUp, FreshOta
  <2> QED BY <2>1, EndKept
<1>4. CASE Disrupt
  BY <1>4, EndKept DEF Disrupt, PowerLoss, Disconnect, BootTimeout, EndIsOwn
<1>5. CASE ClientConnect \/ ClientSwitch \/ ClientCheck \/ ClientPoll \/ ClientLast
  <2>1. flash' = flash /\ ota' = ota /\ mode' \in {mode, "reset"}
    BY <1>5 DEF ClientConnect, ClientSwitch, ClientCheck, ClientPoll, ClientLast, Connect,
                AppReset, End, vars
  <2> QED BY <2>1, EndKept
<1>6. CASE ClientStart
  <2>1. flash' = flash /\ ota'.err_flag = "OTA_SUCCESS"
    BY <1>6 DEF ClientStart, Start, RestOfDevice, FreshOta
  <2> QED BY <2>1, EndKept
<1>7. CASE ClientSet
  <2>1. flash' = flash /\ mode' = mode /\ (ota'.err_flag = "OTA_END" => ota.err_flag = "OTA_END")
    BY <1>7, <1>t, <1>a DEF ClientSet, Set, RestOfDevice
  <2> QED BY <2>1, EndKept
<1>8. CASE ClientBlock
  <2> DEFINE p == [img |-> Image, k |-> blockNr]
  <2>1. /\ flash' = flash /\ mode' = mode
    BY <1>8 DEF ClientBlock, DataNotStarted, DataIgnored, DataLost, DataFirst, DataMiddle, DataLast,
                DataDamaged, RestOfDevice, vars
  <2>2. \/ ota' = ota
        \/ \E err : err # "OTA_END" /\ Answer(err)
        \/ \E total : ota' = [ota EXCEPT !.pkt_total = total]
    BY <1>8 DEF ClientBlock, DataNotStarted, DataIgnored, DataLost, DataFirst, DataMiddle, DataLast,
                DataDamaged, Accept, vars
  <2>3. ota'.err_flag = "OTA_END" => ota.err_flag = "OTA_END"
    BY <2>2, <1>t, <1>a
  <2> QED BY <2>1, <2>3, EndKept
<1> QED BY <1>1, <1>2, <1>3, <1>4, <1>5, <1>6, <1>7, <1>8
        DEF UpdateNext, Client, Device, FlashOp

LEMMA OwnPacketStep ==
    ASSUME OwnPacket, UpdateNext
    PROVE  OwnPacket'
<1>1. CASE ClientBlock
  <2> DEFINE p == [img |-> Image, k |-> blockNr]
  <2>1. (pkt' = pkt /\ pc' = pc) \/ pkt' = p
    BY <1>1 DEF ClientBlock, DataNotStarted, DataIgnored, DataLost, DataFirst, DataMiddle, DataLast,
                DataDamaged, Accept, vars
  <2> QED BY <2>1 DEF OwnPacket
<1>2. CASE FlashOp
  BY <1>2 DEF FlashOp, EraseSector, WriteBlock, WriteFlag, OwnPacket
<1>3. CASE PowerUp(FALSE) \/ Disrupt
  BY <1>3 DEF PowerUp, Disrupt, PowerLoss, Disconnect, BootTimeout, OwnPacket
<1>4. CASE ClientConnect \/ ClientSwitch \/ ClientStart \/ ClientSet \/ ClientCheck
           \/ ClientPoll \/ ClientLast
  BY <1>4 DEF ClientConnect, ClientSwitch, ClientStart, ClientSet, ClientCheck, ClientPoll,
              ClientLast, Connect, AppReset, Start, Set, End, vars, OwnPacket
<1> QED BY <1>1, <1>2, <1>3, <1>4 DEF UpdateNext, Client, Device

LEMMA DoneStep ==
    ASSUME EndIsOwn, DoneIsOwn, UpdateNext
    PROVE  DoneIsOwn'
<1> SUFFICES ASSUME step' = "done" PROVE pc' = "idle" /\ Installed(Image)'
  BY DEF DoneIsOwn
<1>1. CASE step = "done"
  <2>1. Device
    BY <1>1 DEF UpdateNext, Disrupt, Client, ClientConnect, ClientSwitch, ClientStart, ClientSet,
                ClientCheck, ClientBlock, ClientPoll, ClientLast
  <2>2. pc = "idle" /\ Installed(Image)
    BY <1>1 DEF DoneIsOwn
  <2>3. PowerUp(FALSE)
    BY <2>1, <2>2 DEF Device, FlashOp, EraseSector, WriteBlock, WriteFlag
  <2> QED BY <2>2, <2>3, FlashSameInstalled DEF PowerUp
<1>2. CASE step # "done"
  <2>1. ClientLast
    BY <1>2 DEF UpdateNext, Disrupt, Device, clientVars, Client, ClientConnect, ClientSwitch,
                ClientStart, ClientSet, ClientCheck, ClientBlock, ClientPoll, Goto
  <2>2. mode = "boot" /\ pc = "idle" /\ ota.err_flag = "OTA_END" /\ End(reg)
    BY <2>1 DEF ClientLast, Listening, Goto
  <2> QED BY <2>2, FlashSameInstalled DEF EndIsOwn, End
<1> QED BY <1>1, <1>2

LEMMA UpdateInvariance == UpdateSpec => [](IInv /\ UpdateInv)
<1>1. UpdateInit => IInv /\ UpdateInv
  <2> SUFFICES ASSUME UpdateInit PROVE IInv /\ UpdateInv
    OBVIOUS
  <2>1. IInv
    BY InvInit DEF UpdateInit
  <2>2. UpdateInv
    BY DEF UpdateInit, Init, UpdateInv, Sending, OwnPacket, EndIsOwn, DoneIsOwn
  <2> QED BY <2>1, <2>2
<1>2. IInv /\ UpdateInv /\ [UpdateNext]_updateVars => IInv' /\ UpdateInv'
  <2> SUFFICES ASSUME IInv, UpdateInv, [UpdateNext]_updateVars PROVE IInv' /\ UpdateInv'
    OBVIOUS
  <2>1. [TameStep]_vars
    BY UpdateIsOta DEF UpdateInv, updateVars
  <2>2. IInv'
    BY <2>1, InvNext
  <2>3. CASE UpdateNext
    BY <2>2, <2>3, SendingStep, OwnPacketStep, EndStep, DoneStep DEF UpdateInv
  <2>4. CASE UNCHANGED updateVars
    BY <2>2, <2>4 DEF updateVars, clientVars, vars, UpdateInv, Sending, OwnPacket, EndIsOwn,
                      DoneIsOwn, Installed, Holds
  <2> QED BY <2>3, <2>4
<1> QED BY <1>1, <1>2, PTL DEF UpdateSpec

(* When the page of the web client says that flashing has finished, the    *)
(* device holds its image, whole and with its flag, whatever link, power   *)
(* and damaged blocks did on the way.                                      *)
THEOREM DoneIsInstalled == UpdateSpec => []DoneMeansInstalled
<1>1. IInv /\ UpdateInv => DoneMeansInstalled
  <2> SUFFICES ASSUME Installed(Image) PROVE Slot = Image
    BY DEF UpdateInv, DoneIsOwn, DoneMeansInstalled
  <2>1. Image \in Images /\ Id[Image] = StartUpFlag
    BY ClientAssumption
  <2>2. \A i \in Images : Holds(i, 0) => i = Image
    BY DEF Installed, Holds
  <2> QED BY <2>1, <2>2 DEF Slot, Installed
<1> QED BY <1>1, UpdateInvariance, PTL
=============================================================================

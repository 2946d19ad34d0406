----------------------------- MODULE OtaUpdate ------------------------------
(***************************************************************************)
(* An update from end to end: the device of module Ota and the web client  *)
(* bthome_phy6222/web/PHY62x2BTHome.html (startDFU, updateBegin,           *)
(* sendBlkOTA, sendLastOTA), with a user who tries again when an update    *)
(* failed.                                                                 *)
(*                                                                         *)
(* The client waits for each GATT write and read to be answered, so a      *)
(* packet is not lost unless the link is: then the client gives up and the *)
(* user starts again.                                                      *)
(***************************************************************************)
EXTENDS Ota

CONSTANTS
    Image,    (* the image the user wants                                  *)
    Poll,     (* the client reads the status every Poll blocks (16)        *)
    MaxDrops  (* bound: lost links, damaged blocks, start-up time-outs      *)

ASSUME ClientAssumption ==
    /\ Image \in Images /\ NBlocks[Image] >= 2 /\ NBlocks[Image] <= CmdStart
    /\ Id[Image] = StartUpFlag /\ Image \in HasStart /\ Segments[Image] <= 15
    /\ Poll \in Nat \ {0}
    /\ MaxDrops \in Nat

VARIABLES
    step,     (* what the client does next                                 *)
    blockNr,  (* the block sendBlkOTA sends next                           *)
    drops

clientVars == <<step, blockNr, drops>>
updateVars == <<vars, clientVars>>

UpdateInit == Init /\ step = "connect" /\ blockNr = 0 /\ drops = 0

(* A failed client is not kept: the user connects and starts again.        *)
Goto(s) == step' = s /\ UNCHANGED <<blockNr, drops>>

ClientConnect ==
    /\ step = "connect"
    /\ Connect
    /\ Goto("dfu")

(* startDFU: an application is asked to reboot into the boot firmware,     *)
(* with the command 0x72 0x55; its reboot drops the link.                  *)
ClientSwitch ==
    /\ step = "dfu" /\ mode = "app" /\ conn
    /\ AppReset(BOOT_FLG_OTA)
    /\ Goto("connect")

ClientStart ==
    /\ step = "dfu"
    /\ Start(EraseAll)
    /\ Goto("set")

ClientSet ==
    /\ step = "set"
    /\ Set
    /\ Goto("check")

(* readValue after SET: blocks are sent only if there is no error.         *)
ClientCheck ==
    /\ step = "check" /\ Listening
    /\ step' = IF ota.err_flag = "OTA_SUCCESS" THEN "block" ELSE "dfu"
    /\ blockNr' = 0
    /\ UNCHANGED vars /\ UNCHANGED drops

(* sendBlkOTA(blockNr).  The block may be damaged on the way (bounded).    *)
ClientBlock ==
    /\ step = "block"
    /\ LET p == [img |-> Image, k |-> blockNr]
       IN  \/ /\ \/ DataNotStarted \/ DataIgnored(p) \/ DataLost(p)
                 \/ DataFirst(p) \/ DataMiddle(p) \/ DataLast(p)
              /\ UNCHANGED drops
           \/ /\ DataDamaged(p)
              /\ drops < MaxDrops /\ drops' = drops + 1
    /\ blockNr' = blockNr + 1
    /\ step' = CASE blockNr = NBlocks[Image] - 1 -> "last"
                 [] blockNr # NBlocks[Image] - 1 /\ (blockNr + 1) % Poll = 0 -> "poll"
                 [] OTHER -> "block"

ClientPoll ==
    /\ step = "poll" /\ Listening
    /\ Goto(IF ota.err_flag = "OTA_SUCCESS" THEN "block" ELSE "dfu")
    /\ UNCHANGED vars

(* sendLastOTA: END only when the device answers OTA_END.                  *)
ClientLast ==
    /\ step = "last" /\ Listening
    /\ IF ota.err_flag = "OTA_END" THEN End(reg) /\ Goto("done")
       ELSE UNCHANGED vars /\ Goto("dfu")

(* The link or the power fails, or the boot firmware stops waiting.        *)
Disrupt ==
    /\ step # "done"
    /\ \/ PowerLoss /\ UNCHANGED drops
       \/ /\ drops < MaxDrops /\ drops' = drops + 1
          /\ Disconnect \/ BootTimeout
    /\ step' = "connect"
    /\ UNCHANGED blockNr

Device ==
    /\ FlashOp \/ PowerUp(FALSE)
    /\ UNCHANGED clientVars

Client ==
    \/ ClientConnect \/ ClientSwitch \/ ClientStart \/ ClientSet
    \/ ClientCheck \/ ClientBlock \/ ClientPoll \/ ClientLast

UpdateNext == Device \/ Client \/ Disrupt

(* The device runs, and the user keeps the client going until it is done;  *)
(* lost links and power losses come to an end (MaxDrops, MaxLosses).       *)
UpdateSpec ==
    /\ UpdateInit /\ [][UpdateNext]_updateVars
    /\ WF_updateVars(Device) /\ WF_updateVars(Client)

-----------------------------------------------------------------------------
(* When the client says that flashing has finished, the device holds that  *)
(* image, whole and with its flag, whatever happened on the way.           *)
DoneMeansInstalled ==
    step = "done" => Slot = Image

(* A user who tries again after each failure ends with the device running  *)
(* the image, from whatever point the failures left it at.                 *)
UpdateCompletes == <>(step = "done" /\ mode = "app" /\ Slot = Image)
=============================================================================

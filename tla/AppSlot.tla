------------------------------ MODULE AppSlot -------------------------------
(***************************************************************************)
(* What the boot firmware promises about the application area of the       *)
(* flash: it holds one whole image or none that would be started, an image *)
(* is replaced only by way of "none", and only the image in the slot runs. *)
(***************************************************************************)
CONSTANTS
    Images,   (* the application images a client may send                  *)
    NoImage   (* nothing the start-up code would start                     *)

VARIABLES
    slot,     (* the image the start-up code would start                   *)
    running   (* the image that runs, NoImage in the boot firmware         *)

slotVars == <<slot, running>>

SlotInit ==
    /\ slot \in Images \union {NoImage}
    /\ running = NoImage

(* The first sector of the area is erased.                                 *)
Drop ==
    /\ running = NoImage
    /\ slot' = NoImage
    /\ UNCHANGED running

(* The START_UP_FLAG is written.                                           *)
Install(i) ==
    /\ running = NoImage /\ slot = NoImage
    /\ slot' = i
    /\ UNCHANGED running

(* startup_app jumps to the image.                                         *)
Run ==
    /\ running = NoImage
    /\ running' = slot
    /\ UNCHANGED slot

(* A reset or a power loss.                                                *)
Stop ==
    /\ running' = NoImage
    /\ UNCHANGED slot

SlotNext == Drop \/ (\E i \in Images : Install(i)) \/ Run \/ Stop

SlotSpec == SlotInit /\ [][SlotNext]_slotVars
=============================================================================

------------------------------ MODULE EepStore ------------------------------
(***************************************************************************)
(* What the EEP object store of flash_eep.c promises to its callers        *)
(* (flash_write_cfg, flash_read_cfg): a map from object ids to values.     *)
(*                                                                         *)
(* The promise is the one the code keeps, which is weaker than a plain     *)
(* map: a power loss in the middle of a write leaves that object torn, and *)
(* writing an object into a full bank compacts the store, which forgets    *)
(* every object but at most one.                                           *)
(***************************************************************************)
EXTENDS Integers, FiniteSets

CONSTANTS
    Ids,      (* the object ids, EEP_ID_* of flash_eep.h                   *)
    Values,   (* what callers store                                        *)
    NoVal,    (* flash_read_cfg answers FMEM_NOT_FOUND                     *)
    Torn,     (* a header without (all of) its data                        *)
    Ver,      (* the object that carries the layout version, EEP_ID_VER    *)
    NoWrite   (* no write is under way                                     *)

VARIABLES
    store,    (* what a read of each id returns                            *)
    wr        (* the object being written, or NoWrite                      *)

storeVars == <<store, wr>>

StoreInit ==
    /\ store = [i \in Ids |-> NoVal]
    /\ wr = NoWrite

(* flash_write_cfg is called.                                              *)
Begin(i, v) ==
    /\ wr = NoWrite
    /\ wr' = [id |-> i, val |-> v]
    /\ UNCHANGED store

(* The bank was full: at most one object other than the one being written  *)
(* survives, unchanged.                                                    *)
Compact ==
    /\ wr # NoWrite
    /\ \E kept \in {{}} \union {{j} : j \in Ids \ {wr.id}} :
          store' = [j \in Ids |-> IF j \in kept THEN store[j] ELSE NoVal]
    /\ UNCHANGED wr

(* The header of the new record hides the value written before.            *)
Tear ==
    /\ wr # NoWrite
    /\ store' = [store EXCEPT ![wr.id] = Torn]
    /\ UNCHANGED wr

(* The data follow: flash_write_cfg is done.                               *)
Put ==
    /\ wr # NoWrite
    /\ store[wr.id] = Torn
    /\ store' = [store EXCEPT ![wr.id] = wr.val]
    /\ wr' = NoWrite

(* The power fails during a write.                                         *)
Lose == wr' = NoWrite /\ UNCHANGED store

(* flash_supported_eep_ver found no version: all objects are dropped.      *)
Wipe ==
    /\ wr = NoWrite
    /\ store[Ver] = NoVal
    /\ store' = [i \in Ids |-> NoVal]
    /\ UNCHANGED wr

StoreNext ==
    \/ \E i \in Ids, v \in Values : Begin(i, v)
    \/ Compact \/ Tear \/ Put \/ Lose \/ Wipe

StoreSpec == StoreInit /\ [][StoreNext]_storeVars
=============================================================================

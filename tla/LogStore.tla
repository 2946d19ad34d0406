------------------------------ MODULE LogStore ------------------------------
(***************************************************************************)
(* What the history of logger.c promises to its readers: the records       *)
(* written since the last clear, numbered in the order they were written,  *)
(* without the oldest ones.  Room is made for many records at once, but    *)
(* never at the cost of the last Retained ones, and nothing else, neither  *)
(* a reader nor a restart, takes a record away.                            *)
(***************************************************************************)
EXTENDS Integers

CONSTANTS
    Retained,   (* records that stay when room is made                     *)
    Capacity    (* records there is room for                               *)

VARIABLES
    log,        (* the numbers of the records in the log                   *)
    top         (* the number of the last record written                   *)

logVars == <<log, top>>

LogInit == log = {} /\ top = 0

(* write_memo, which must find room.                                       *)
Append ==
    /\ \A n \in log : n > top + 1 - Capacity
    /\ top' = top + 1
    /\ log' = log \union {top'}

(* Room is made.                                                           *)
Forget ==
    /\ log' = {n \in log : n > top - Retained}
    /\ UNCHANGED top

(* clear_memo.                                                             *)
Clear ==
    /\ log' = {}
    /\ UNCHANGED top

LogNext == Append \/ Forget \/ Clear

LogSpec == LogInit /\ [][LogNext]_logVars
=============================================================================

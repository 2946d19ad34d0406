------------------------------ MODULE Setpoint ------------------------------
(***************************************************************************)
(* The script th05_setpoint.py, which reads or sets the setpoint over the  *)
(* command channel, and the configuration page, with the device of module  *)
(* Settings. Several hosts share the one link the device serves.           *)
(***************************************************************************)
EXTENDS Settings

CONSTANTS
    Asked,        (* the setpoints users ask for, twice the degrees        *)
    Retries,      (* attempts of the script, 3 by default                  *)
    MaxRuns       (* bound: runs of the script and of the page             *)

ASSUME ScriptAssumption ==
    /\ Asked \subseteq Int /\ {a % 256 : a \in Asked} \subseteq Requests
    /\ Retries \in Nat \ {0} /\ MaxRuns \in Nat

VARIABLES
    run,          (* each host: kind, argument, phase and attempt          *)
    runs

hostVars == <<run, runs>>
allVars  == <<devVars, hostVars>>

Idle == [kind |-> "get", arg |-> 0, cfg |-> DefCfg, phase |-> "done", tries |-> 0]

ScriptInit ==
    /\ DevInit
    /\ run = [h \in Hosts |-> Idle]
    /\ runs = 0

Phase(h, p) == run' = [run EXCEPT ![h].phase = p]

(* A user starts the script, or saves settings on the page.                *)
Start(h) ==
    /\ run[h].phase = "done" /\ runs < MaxRuns
    /\ \E new \in {[Idle EXCEPT !.phase = "connect", !.tries = 1]} :
          \/ run' = [run EXCEPT ![h] = new]
          \/ \E a \in Asked : run' = [run EXCEPT ![h] = [new EXCEPT !.kind = "set", !.arg = a]]
          \/ \E c \in CfgRequests : run' = [run EXCEPT ![h] = [new EXCEPT !.kind = "cfg", !.cfg = c]]
    /\ runs' = runs + 1
    /\ UNCHANGED devVars

(* _run_once: connect, with an empty queue of notifications.               *)
HostConnect(h) ==
    /\ run[h].phase = "connect"
    /\ Connect(h)
    /\ Phase(h, IF run[h].kind = "get" THEN "get" ELSE "set")
    /\ UNCHANGED runs

(* The argument is cut to the byte of the command: c_x2 & 0xFF.            *)
Payload(h) ==
    IF run[h].kind = "cfg" THEN Packet("cfg", 0, run[h].cfg)
    ELSE Packet("set", run[h].arg % 256, DefCfg)

WriteSet(h) ==
    /\ run[h].phase = "set" /\ link = h
    /\ Receive(Payload(h))
    /\ Phase(h, "setRsp")
    /\ UNCHANGED runs

SetAccepted(h) ==
    /\ run[h].phase = "setRsp" /\ link = h /\ rsp
    /\ Phase(h, IF run[h].kind = "cfg" THEN "leave" ELSE "get")
    /\ UNCHANGED <<devVars, runs>>

(* _read_setpoint: write the request, then take notifications until one is *)
(* a setpoint's (others are left out); that of the SET command will do.    *)
WriteGet(h) ==
    /\ run[h].phase = "get" /\ link = h
    /\ Receive(Packet("get", 0, DefCfg))
    /\ Phase(h, "getRsp")
    /\ UNCHANGED runs

GetAccepted(h) ==
    /\ run[h].phase = "getRsp" /\ link = h /\ rsp
    /\ Phase(h, "wait")
    /\ UNCHANGED <<devVars, runs>>

ReadState(h) ==
    /\ run[h].phase = "wait" /\ link = h
    /\ out # <<>>
    /\ Deliver
    /\ Phase(h, "leave")
    /\ UNCHANGED runs

(* An attempt that failed is made again from the beginning.                *)
Again(h) ==
    run' = [run EXCEPT ![h] =
              IF run[h].tries < Retries
              THEN [run[h] EXCEPT !.phase = "connect", !.tries = run[h].tries + 1]
              ELSE Idle]

(* The link is lost, or five seconds pass without a notification.          *)
LinkLost(h) ==
    /\ run[h].phase \in {"set", "setRsp", "get", "getRsp", "wait"} /\ link = h
    /\ LinkDown
    /\ Again(h)
    /\ UNCHANGED runs

(* The connection is refused, or has gone with the device's power.         *)
Unreachable(h) ==
    /\ run[h].phase \in {"connect", "set", "setRsp", "get", "getRsp", "wait"} /\ link # h
    /\ Again(h)
    /\ UNCHANGED <<devVars, runs>>

Leave(h) ==
    /\ run[h].phase = "leave"
    /\ IF link = h THEN LinkDown ELSE UNCHANGED devVars
    /\ run' = [run EXCEPT ![h] = Idle]
    /\ UNCHANGED runs

HostNext(h) ==
    \/ Start(h) \/ HostConnect(h) \/ WriteSet(h) \/ SetAccepted(h) \/ WriteGet(h)
    \/ GetAccepted(h) \/ ReadState(h) \/ LinkLost(h)
    \/ Unreachable(h) \/ Leave(h)

ScriptNext ==
    \/ DevStep /\ UNCHANGED hostVars
    \/ PowerLoss /\ UNCHANGED hostVars
    \/ \E h \in Hosts : HostNext(h)

ScriptSpec == ScriptInit /\ [][ScriptNext]_allVars

-----------------------------------------------------------------------------
Prints(h) == run[h].phase = "wait" /\ run'[h].phase = "leave"

(* What the script prints is a setpoint the device held while this attempt *)
(* was connected, never one from an earlier attempt between which another  *)
(* host changed it.                                                        *)
PrintedWasTrue == [][\A h \in Hosts : Prints(h) => Head(out).val \in held]_allVars

(* "If a client writes a value outside the supported range, the firmware   *)
(* clamps it to the nearest valid limit" (docs/thermostat-setpoint.md): a  *)
(* set that ends in a printed state has put the legal setpoint nearest to  *)
(* what the user asked in force, unless its SET was overwritten by its GET *)
(* in the one buffer.                                                      *)
Distance(a, b) == IF a < b THEN b - a ELSE a - b

Nearest(v, a) ==
    /\ v \in SETPOINT_C_X2_MIN..SETPOINT_C_X2_MAX
    /\ \A w \in SETPOINT_C_X2_MIN..SETPOINT_C_X2_MAX : Distance(v, a) <= Distance(w, a)

SetTakesEffect ==
    [][\A h \in Hosts : Prints(h) /\ run[h].kind = "set" /\ ~ lost =>
         Nearest(Head(out).val, run[h].arg) /\ sp.val = Head(out).val]_allVars
=============================================================================

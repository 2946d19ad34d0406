------------------------------ MODULE Settings ------------------------------
(***************************************************************************)
(* The settings a client may change over the command characteristic and    *)
(* that must survive a loss of power: the thermostat's setpoint            *)
(* (setpoint.c) and the configuration (config.c), from the write callback  *)
(* (sbp_profile.c) over the parser (cmd_parser.c) to the objects of the    *)
(* EEP store, and back at start-up (load_eep_config).                      *)
(*                                                                         *)
(* The store is EepStore, which flash_eep.c implements (module FlashEep).  *)
(* One action is one turn of the scheduler, save that a write to the store *)
(* takes several steps, so that the power may fail in between.             *)
(***************************************************************************)
EXTENDS Integers, Sequences, FiniteSets

CONSTANTS
    Hosts,        (* the clients; the device serves one link               *)
    NoHost,
    Requests,     (* the values SET commands carry, bytes                  *)
    CfgRequests,  (* the configurations CFG commands carry                 *)
    VerMod,       (* versions are counted modulo 2^16                      *)
    Slow,         (* may another event of the application's task last      *)
                  (* longer than a connection interval?                    *)
    MaxCrashes,   (* bound: losses of power                                *)
    ThisVersion,  (* APP_VERSION                                           *)
    NoPacket, NoVal, Torn, NoWrite

SETPOINT_C_X2_MIN     == 8
SETPOINT_C_X2_MAX     == 56
SETPOINT_C_X2_DEFAULT == 42

-----------------------------------------------------------------------------
(* Values                                                                  *)

(* Mutant: out of range, the default.                                      *)
ClampDefault(v) ==
    IF v \in SETPOINT_C_X2_MIN..SETPOINT_C_X2_MAX THEN v ELSE SETPOINT_C_X2_DEFAULT

(* setpoint_clamp                                                          *)
Clamp(v) ==
    IF v < SETPOINT_C_X2_MIN THEN SETPOINT_C_X2_MIN
    ELSE IF v > SETPOINT_C_X2_MAX THEN SETPOINT_C_X2_MAX ELSE v

DefSetpoint == [val |-> SETPOINT_C_X2_DEFAULT, ver |-> 0]

Cfgs == [pwr : 0..255, adv : 0..255, latency : 0..255, cnt : 0..255, meas : 0..255]

Setpoints == [val : 0..255, ver : 0..(VerMod - 1)]

DefCfg == [pwr |-> 63, adv |-> 80, latency |-> 29, cnt |-> 16, meas |-> 2]

(* test_config: what is out of range is replaced; the flags are not tested *)
(* and left out.                                                           *)
Tested(c) ==
    [c EXCEPT !.pwr  = IF @ > 63 THEN 63 ELSE @,
              !.adv  = IF @ = 0 THEN 1 ELSE @,
              !.meas = IF @ < 2 THEN 2 ELSE @,
              !.cnt  = IF @ < 6 THEN 16 ELSE @]

(* The connection parameters test_config derives and the role asks for, in *)
(* 10 ms and 1.25 ms.                                                      *)
SupervisionTimeout(c) ==
    LET t == (c.latency + 1) * 3 * 4 IN IF t > 2048 THEN 2048 ELSE t
ConnInterval == 24

(* A header whose data were not programmed reads as erased flash.          *)
Blank == [val |-> 255, ver |-> VerMod - 1]
BlankCfg == [pwr |-> 255, adv |-> 255, latency |-> 255, cnt |-> 255, meas |-> 255]

(* Commands.                                                               *)
Packet(cmd, v, c) == [cmd |-> cmd, val |-> v, cfg |-> c]

Packets ==
    {Packet("get", 0, DefCfg), Packet("def", 0, DefCfg)}
      \union {Packet("set", v, DefCfg) : v \in Requests}
      \union {Packet("cfg", 0, c) : c \in CfgRequests}

(* What is written to the store: an object's id and its value.             *)
SP  == "setpoint"
CFG == "config"
VER == "version"

Writes ==
    [id : {SP}, val : Setpoints] \union [id : {CFG}, val : Cfgs]
      \union [id : {VER}, val : {ThisVersion}]

ASSUME SettingsAssumption ==
    /\ Requests \subseteq 0..255 /\ CfgRequests \subseteq Cfgs
    /\ VerMod \in Nat \ {0}
    /\ MaxCrashes \in Nat
    /\ Slow \in BOOLEAN
    /\ NoHost \notin Hosts
    /\ NoVal # Torn
    /\ \A none \in {NoVal, Torn} : none \notin Setpoints /\ none \notin Cfgs /\ none # ThisVersion
    /\ NoWrite \notin Writes /\ NoPacket \notin Packets

-----------------------------------------------------------------------------
VARIABLES
    store, wr,    (* the EEP store, see EepStore                           *)
    app,          (* where the application's task is                       *)
    sp,           (* setpoint_cfg                                          *)
    cfg,
    link,         (* the connected host                                    *)
    rx,           (* a write the link layer has received                   *)
    buf,          (* cmd_in_buffer                                         *)
    cmdEvt,       (* SBP_CMDDATA is pending                                *)
    rsp,          (* the write response is sent                            *)
    out,          (* notifications sent over this link                     *)
    crashes,
    kept,         (* history: what is to come up after a loss of power     *)
    damaged,      (* history: the store lost a setting, or tore it         *)
    changes,      (* history: changes of the setpoint                      *)
    told,         (* history: the setpoints answered, until damaged        *)
    held,         (* history: the setpoints held since the link came up    *)
    lost          (* history: a write was overwritten before it was parsed *)

devVars == <<store, wr, app, sp, cfg, link, rx, buf, cmdEvt, rsp, out, crashes,
             kept, damaged, changes, told, held, lost>>

ramVars  == <<sp, cfg>>
linkVars == <<link, rx, buf, cmdEvt, rsp, held, lost>>
pastVars == <<kept, damaged, changes>>

EEP == INSTANCE EepStore WITH
           Ids <- {SP, CFG, VER}, Values <- {}, Ver <- VER

DevInit ==
    /\ EEP!StoreInit
    /\ app = "off"
    /\ sp = DefSetpoint /\ cfg = DefCfg
    /\ link = NoHost /\ rx = NoPacket /\ buf = NoPacket /\ cmdEvt = FALSE
    /\ rsp = FALSE /\ out = <<>>
    /\ crashes = 0
    /\ kept = [sp |-> DefSetpoint, cfg |-> DefCfg]
    /\ damaged = FALSE /\ changes = 0 /\ told = {} /\ held = {} /\ lost = FALSE

-----------------------------------------------------------------------------
(* Start-up: load_eep_config                                               *)

Stored(i, default, blank) ==
    IF store[i] = NoVal THEN default ELSE IF store[i] = Torn THEN blank ELSE store[i]

(* Mutant: without the version.                                            *)
SetpointLoadAnew == sp' = [Stored(SP, DefSetpoint, Blank) EXCEPT !.val = Clamp(@), !.ver = 0]

(* setpoint_load: the version is taken as it is stored.                    *)
SetpointLoad ==
    LET s == Stored(SP, DefSetpoint, Blank) IN
    sp' = [s EXCEPT !.val = Clamp(@)]

Load ==
    /\ SetpointLoad
    /\ cfg' = Tested(Stored(CFG, DefCfg, BlankCfg))
    /\ app' = "idle"

PowerOn ==
    /\ app = "off"
    /\ app' = "check"
    /\ UNCHANGED <<store, wr, ramVars, linkVars, out, crashes, pastVars, told>>

(* flash_supported_eep_ver finds the version of this firmware.             *)
VersionFound ==
    /\ app = "check"
    /\ store[VER] \notin {NoVal, Torn}
    /\ Load
    /\ UNCHANGED <<store, wr, linkVars, out, crashes, pastVars, told>>

(* Another version, or none that can be read, is written over.             *)
VersionRenew ==
    /\ app = "check"
    /\ store[VER] = Torn
    /\ EEP!Begin(VER, ThisVersion)
    /\ app' = "renew"
    /\ UNCHANGED <<ramVars, linkVars, out, crashes, pastVars, told>>

(* No version: the store is formatted, then the version written.           *)
Format ==
    /\ app = "check"
    /\ store[VER] = NoVal
    /\ EEP!Wipe
    /\ app' = "formatted"
    /\ UNCHANGED <<ramVars, linkVars, out, crashes, pastVars, told>>

FormatVersion ==
    /\ app = "formatted"
    /\ EEP!Begin(VER, ThisVersion)
    /\ app' = "format"
    /\ UNCHANGED <<ramVars, linkVars, out, crashes, pastVars, told>>

VersionWritten ==
    /\ EEP!Put
    /\ \/ app = "renew" /\ SetpointLoad
          /\ cfg' = Tested(Stored(CFG, DefCfg, BlankCfg))
       \/ app = "format" /\ sp' = DefSetpoint /\ cfg' = Tested(DefCfg)
    /\ app' = "idle"
    /\ UNCHANGED <<linkVars, out, crashes, pastVars, told>>

-----------------------------------------------------------------------------
(* The store                                                               *)

(* A full bank forgets all objects but one; one that was just formatted is *)
(* not full.                                                               *)
Compact ==
    /\ app # "format"
    /\ EEP!Compact
    /\ damaged' = TRUE /\ told' = {}
    /\ UNCHANGED <<app, ramVars, linkVars, out, crashes, kept, changes>>

Tear ==
    /\ EEP!Tear
    /\ UNCHANGED <<app, ramVars, linkVars, out, crashes, pastVars, told>>

-----------------------------------------------------------------------------
(* Commands                                                                *)

(* simpleProfile_WriteAttrCB: one buffer, not asked whether its last       *)
(* command has been parsed. The host's tasks come before the application's.*)
WriteCmd ==
    /\ rx # NoPacket
    /\ app = "idle"
    /\ buf' = rx /\ cmdEvt' = TRUE /\ rx' = NoPacket /\ rsp' = TRUE
    /\ lost' = (lost \/ cmdEvt)
    /\ UNCHANGED <<store, wr, app, ramVars, link, held, out, crashes, pastVars, told>>

(* new_cmd_data: the setpoint is answered to the connected host; the       *)
(* answer is lost when there is none, or no buffer for it. Answers of      *)
(* other commands are left out.                                            *)
Reply(s) ==
    \/ /\ link # NoHost
       /\ out' = Append(out, s)
       /\ told' = told \union (IF damaged THEN {} ELSE {s})
    \/ UNCHANGED <<out, told>>

(* flash_write_cfg finds the object as it is, and writes nothing.          *)
Unchanged(i, v) == store[i] \notin {NoVal, Torn} /\ store[i] = v

(* A command's turn: the application has nothing before it, and the host's *)
(* tasks have nothing to do.                                               *)
Parses(cmds) ==
    /\ app = "idle" /\ rx = NoPacket
    /\ cmdEvt /\ buf.cmd \in cmds
    /\ cmdEvt' = FALSE
    /\ UNCHANGED <<link, rx, buf, rsp, lost, crashes>>

CmdGet ==
    /\ Parses({"get"})
    /\ Reply(sp)
    /\ UNCHANGED <<store, wr, app, ramVars, held, pastVars>>

(* Mutant: the counter stands still.                                       *)
NextVersionSame(ver) == ver

(* setpoint_set_c_x2: nothing to do.                                       *)
CmdSetSame ==
    /\ Parses({"set"})
    /\ Clamp(buf.val) = sp.val
    /\ Reply(sp)
    /\ UNCHANGED <<store, wr, app, ramVars, held, pastVars>>

NextVersion(ver) == (ver + 1) % VerMod

(* setpoint_set_c_x2: the setpoint in RAM, its version and its object.     *)
CmdSet ==
    /\ Parses({"set"})
    /\ Clamp(buf.val) # sp.val
    /\ sp' = [val |-> Clamp(buf.val), ver |-> NextVersion(sp.ver)]
    /\ EEP!Begin(SP, sp')
    /\ app' = "saving"
    /\ held' = held \union {sp'.val}
    /\ changes' = changes + 1
    /\ UNCHANGED <<cfg, out, told, kept, damaged>>

(* CMD_ID_CFG and CMD_ID_CFG_DEF.                                          *)
NewCfg == Tested(IF buf.cmd = "def" THEN DefCfg ELSE buf.cfg)

CmdCfg ==
    /\ Parses({"cfg", "def"})
    /\ cfg' = NewCfg
    /\ \/ /\ ~ Unchanged(CFG, cfg')
          /\ EEP!Begin(CFG, cfg') /\ app' = "saving"
          /\ UNCHANGED kept
       \/ /\ Unchanged(CFG, cfg')
          /\ kept' = [kept EXCEPT !.cfg = cfg']
          /\ UNCHANGED <<store, wr, app>>
    /\ UNCHANGED <<sp, held, out, told, damaged, changes>>

(* The object is written: the command's handler answers and returns.       *)
Saved ==
    /\ app = "saving"
    /\ EEP!Put
    /\ app' = "idle"
    /\ \/ /\ wr.id = SP
          /\ kept' = [kept EXCEPT !.sp = sp]
          /\ Reply(sp)
       \/ /\ wr.id = CFG
          /\ kept' = [kept EXCEPT !.cfg = cfg]
          /\ UNCHANGED <<out, told>>
    /\ UNCHANGED <<ramVars, linkVars, crashes, damaged, changes>>

(* Any event the application's task handles before SBP_CMDDATA, such as    *)
(* the timer's, whose record may have a sector of the log erased.          *)
OtherEvent ==
    /\ Slow
    /\ app = "idle" /\ rx = NoPacket
    /\ app' = "busy"
    /\ UNCHANGED <<store, wr, ramVars, linkVars, out, crashes, pastVars, told>>

OtherDone ==
    /\ app = "busy"
    /\ app' = "idle"
    /\ UNCHANGED <<store, wr, ramVars, linkVars, out, crashes, pastVars, told>>

-----------------------------------------------------------------------------
(* The link and the power                                                  *)

(* A host connects and turns notifications on, which takes much longer     *)
(* than what the device had to do before.                                  *)
Connect(h) ==
    /\ app = "idle" /\ link = NoHost /\ ~ cmdEvt
    /\ link' = h /\ held' = {sp.val} /\ lost' = FALSE
    /\ UNCHANGED <<store, wr, app, ramVars, rx, buf, cmdEvt, rsp, out, crashes, pastVars, told>>

(* Mutant: what was notified on the last link is still in the queue.       *)
LinkDownKeepsQueue ==
    /\ link # NoHost
    /\ link' = NoHost /\ rx' = NoPacket /\ rsp' = FALSE
    /\ held' = {} /\ lost' = FALSE
    /\ UNCHANGED <<store, wr, app, ramVars, buf, cmdEvt, out, crashes, pastVars, told>>

(* The radio receives a write. While the processor is not in a handler it  *)
(* works off its events within a connection interval.                      *)
Receive(p) ==
    /\ link # NoHost /\ rx = NoPacket
    /\ app \in {"idle", "busy", "saving"}
    /\ app = "idle" => ~ cmdEvt
    /\ rx' = p /\ rsp' = FALSE
    /\ UNCHANGED <<store, wr, app, ramVars, link, buf, cmdEvt, held, lost, out, crashes, pastVars, told>>

LinkDown ==
    /\ link # NoHost
    /\ link' = NoHost /\ rx' = NoPacket /\ rsp' = FALSE /\ out' = <<>>
    /\ held' = {} /\ lost' = FALSE
    /\ UNCHANGED <<store, wr, app, ramVars, buf, cmdEvt, crashes, pastVars, told>>

PowerLoss ==
    /\ app # "off" /\ crashes < MaxCrashes
    /\ crashes' = crashes + 1
    /\ app' = "off"
    /\ EEP!Lose
    /\ damaged' = (damaged \/ (wr # NoWrite /\ wr.id # VER /\ store[wr.id] = Torn))
    /\ told' = IF damaged' THEN {} ELSE told
    /\ link' = NoHost /\ rx' = NoPacket /\ rsp' = FALSE /\ out' = <<>>
    /\ buf' = NoPacket /\ cmdEvt' = FALSE
    /\ sp' = DefSetpoint /\ cfg' = DefCfg
    /\ held' = {} /\ lost' = FALSE
    /\ UNCHANGED <<kept, changes>>

(* The client's stack hands over a notification.                           *)
Deliver ==
    /\ out # <<>>
    /\ out' = Tail(out)
    /\ UNCHANGED <<store, wr, app, ramVars, linkVars, crashes, pastVars, told>>

DevStep ==
    \/ PowerOn \/ VersionFound \/ VersionRenew \/ Format \/ FormatVersion
    \/ VersionWritten \/ Compact \/ Tear \/ WriteCmd
    \/ CmdGet \/ CmdSetSame \/ CmdSet \/ CmdCfg \/ Saved
    \/ OtherEvent \/ OtherDone

DevNext ==
    \/ DevStep
    \/ \E h \in Hosts : Connect(h)
    \/ \E p \in Packets : Receive(p)
    \/ LinkDown \/ PowerLoss \/ Deliver

(* The device with clients that may do anything.                           *)
DevSpec == DevInit /\ [][DevNext]_devVars

-----------------------------------------------------------------------------
TypeOK ==
    /\ DOMAIN store = {SP, CFG, VER}
    /\ store[SP] \in Setpoints \union {NoVal, Torn}
    /\ store[CFG] \in Cfgs \union {NoVal, Torn}
    /\ store[VER] \in {ThisVersion, NoVal, Torn}
    /\ wr \in Writes \union {NoWrite}
    /\ app \in {"off", "check", "renew", "formatted", "format", "idle", "busy", "saving"}
    /\ sp \in Setpoints /\ cfg \in Cfgs
    /\ link \in Hosts \union {NoHost}
    /\ {rx, buf} \subseteq Packets \union {NoPacket}
    /\ cmdEvt \in BOOLEAN /\ rsp \in BOOLEAN /\ lost \in BOOLEAN
    /\ out \in Seq(Setpoints)
    /\ crashes \in 0..MaxCrashes
    /\ kept \in [sp : Setpoints, cfg : Cfgs]
    /\ damaged \in BOOLEAN /\ changes \in Nat
    /\ told \subseteq Setpoints /\ held \subseteq 0..255

(* After a start, and whenever no command is being worked off, the device  *)
(* goes by what it saved last, and a save cut off by a loss of power has   *)
(* left no trace in between (docs/thermostat-setpoint.md: "persisted in    *)
(* flash and restored on boot"), unless the store compacted, or the power  *)
(* failed between the header and the data of an object.                    *)
UpAsSaved ==
    app \in {"idle", "busy"} /\ ~ damaged => sp = kept.sp /\ cfg = kept.cfg

(* A client can detect by its version that the setpoint changed: answers   *)
(* with one version carry one value, across losses of power too, until the *)
(* counter of 16 bits has gone round.                                      *)
VersionTells ==
    changes < VerMod =>
        \A a, b \in told : a.ver = b.ver => a.val = b.val

(* The supervision timeout the BLE standard demands: it outlasts the       *)
(* connection's latency twice.                                             *)
TimeoutLegal(c) ==
    /\ SupervisionTimeout(c) \in 10..3200
    /\ SupervisionTimeout(c) * 1000 > 2 * (c.latency + 1) * ConnInterval * 125

(* README.md:311-312: the firmware checks all settings for compliance with *)
(* the standard, and an interval above 10 s becomes 10 s.                  *)
Legal(c) ==
    /\ c.pwr <= 63 /\ c.adv \in 1..160 /\ c.meas >= 2 /\ c.cnt >= 6
    /\ TimeoutLegal(c)

(* The code does not do this: config.c:164-165 has the upper bound of the  *)
(* interval commented out, so that a client's 255, or the 255 of a torn    *)
(* object, is in force.                                                    *)
SettingsLegal ==
    app \in {"idle", "busy", "saving"} =>
        /\ sp.val \in SETPOINT_C_X2_MIN..SETPOINT_C_X2_MAX
        /\ Legal(cfg)
=============================================================================

--------------------------- MODULE SetpointProofs ---------------------------
(***************************************************************************)
(* Theorems about Settings, for any clients, requests and losses of power, *)
(* and of Setpoint, whose hosts are such clients.                          *)
(*                                                                         *)
(* UpAsSaved is not inductive: what comes up is what the store holds, so   *)
(* the invariant follows the store through a save (StoreInv), and the      *)
(* version object, whose absence makes the next start format the store.    *)
(***************************************************************************)
EXTENDS Setpoint, TLAPS

(* test_config makes any configuration legal, and leaves a legal one.      *)
InRange(c) == c.pwr <= 63 /\ c.adv >= 1 /\ c.meas >= 2 /\ c.cnt >= 6

LEMMA TestedConfig ==
    ASSUME NEW c \in Cfgs
    PROVE  /\ Tested(c) \in Cfgs
           /\ InRange(Tested(c))
           /\ InRange(c) => Tested(c) = c
<1> DEFINE pwr  == IF c.pwr > 63 THEN 63 ELSE c.pwr
           adv  == IF c.adv = 0 THEN 1 ELSE c.adv
           meas == IF c.meas < 2 THEN 2 ELSE c.meas
           cnt  == IF c.cnt < 6 THEN 16 ELSE c.cnt
<1>1. Tested(c) = [pwr |-> pwr, adv |-> adv, latency |-> c.latency, cnt |-> cnt, meas |-> meas]
  <2>1. Tested(c) = [c EXCEPT !.pwr = pwr, !.adv = adv, !.meas = meas, !.cnt = cnt]
    BY Zenon DEF Tested
  <2> HIDE DEF pwr, adv, meas, cnt
  <2> QED BY <2>1 DEF Cfgs
<1>2. /\ pwr \in 0..63 /\ adv \in 1..255 /\ meas \in 2..255 /\ cnt \in 6..255
      /\ c.latency \in 0..255
  BY DEF Cfgs
<1>3. InRange(c) => pwr = c.pwr /\ adv = c.adv /\ meas = c.meas /\ cnt = c.cnt
  BY DEF InRange, Cfgs
<1>4. InRange(c) => Tested(c) = c
  BY <1>1, <1>3 DEF Cfgs
<1>5. Tested(c) \in Cfgs
  <2> HIDE DEF pwr, adv, meas, cnt
  <2> QED BY <1>1, <1>2 DEF Cfgs
<1>6. InRange(Tested(c))
  <2> HIDE DEF pwr, adv, meas, cnt
  <2> QED BY <1>1, <1>2 DEF InRange
<1> QED
  BY <1>4, <1>5, <1>6

(* test_config derives from every latency of a byte a supervision timeout  *)
(* that the BLE standard allows: its cap at 20.48 s is not too low for the *)
(* greatest one.                                                           *)
THEOREM TimeoutOutlastsLatency ==
    ASSUME NEW c \in Cfgs
    PROVE  TimeoutLegal(Tested(c))
<1>1. Tested(c).latency = c.latency /\ c.latency \in 0..255
  BY DEF Tested, Cfgs
<1> QED
  BY <1>1 DEF TimeoutLegal, SupervisionTimeout, ConnInterval

LEMMA ClampInRange ==
    \A v \in 0..255 :
           /\ Clamp(v) \in 8..56 /\ Clamp(v) \in 0..255
           /\ v \in 8..56 => Clamp(v) = v
BY DEF Clamp, SETPOINT_C_X2_MIN, SETPOINT_C_X2_MAX

LEMMA Defaults ==
    /\ DefSetpoint \in Setpoints /\ DefSetpoint.val \in 8..56 /\ DefSetpoint.ver = 0
    /\ DefCfg \in Cfgs /\ InRange(DefCfg) /\ Tested(DefCfg) = DefCfg
    /\ Blank \in Setpoints /\ BlankCfg \in Cfgs
<1>1. DefSetpoint \in Setpoints /\ DefSetpoint.val \in 8..56 /\ DefSetpoint.ver = 0
  BY SettingsAssumption DEF DefSetpoint, Setpoints, SETPOINT_C_X2_DEFAULT
<1>2. DefCfg \in Cfgs /\ InRange(DefCfg)
  BY DEF DefCfg, Cfgs, InRange
<1>3. Blank \in Setpoints /\ BlankCfg \in Cfgs
  BY SettingsAssumption DEF Blank, BlankCfg, Setpoints, Cfgs
<1> QED
  BY <1>1, <1>2, <1>3, TestedConfig

LEMMA PacketFields ==
    ASSUME NEW p \in Packets
    PROVE  p.val \in 0..255 /\ p.cfg \in Cfgs
<1>1. CASE p \in {Packet("get", 0, DefCfg), Packet("def", 0, DefCfg)}
  BY <1>1, Defaults DEF Packet
<1>2. CASE \E v \in Requests : p = Packet("set", v, DefCfg)
  BY <1>2, Defaults, SettingsAssumption DEF Packet
<1>3. CASE \E c \in CfgRequests : p = Packet("cfg", 0, c)
  BY <1>3, SettingsAssumption DEF Packet
<1> QED
  BY <1>1, <1>2, <1>3 DEF Packets

(* What is loaded at start-up is legal, whatever the flash holds.          *)
LEMMA Loaded ==
    ASSUME NEW s \in Setpoints \union {NoVal, Torn}, NEW c \in Cfgs \union {NoVal, Torn},
           store[SP] = s, store[CFG] = c
    PROVE  LET l == Stored(SP, DefSetpoint, Blank)
               d == Stored(CFG, DefCfg, BlankCfg) IN
           /\ l \in Setpoints
           /\ [l EXCEPT !.val = Clamp(@)] \in Setpoints
           /\ [l EXCEPT !.val = Clamp(@)].val \in 8..56
           /\ l.val \in 8..56 => [l EXCEPT !.val = Clamp(@)] = l
           /\ d \in Cfgs /\ Tested(d) \in Cfgs /\ InRange(Tested(d))
           /\ InRange(d) => Tested(d) = d
<1> DEFINE l == Stored(SP, DefSetpoint, Blank)
           d == Stored(CFG, DefCfg, BlankCfg)
<1>1. l \in Setpoints /\ d \in Cfgs
  BY Defaults, SettingsAssumption DEF Stored
<1>2. l.val \in 0..255 /\ Clamp(l.val) \in 8..56 /\ Clamp(l.val) \in 0..255
      /\ (l.val \in 8..56 => Clamp(l.val) = l.val)
  <2> HIDE DEF l, d
  <2>1. l.val \in 0..255 BY <1>1 DEF Setpoints
  <2> DEFINE v == l.val
  <2> HIDE DEF v
  <2>2. v \in 0..255 BY <2>1 DEF v
  <2>3. /\ Clamp(v) \in 8..56 /\ Clamp(v) \in 0..255
        /\ (v \in 8..56 => Clamp(v) = v)
    BY <2>2, ClampInRange
  <2> QED BY <2>2, <2>3 DEF v
<1>3. /\ [l EXCEPT !.val = Clamp(@)] \in Setpoints
      /\ [l EXCEPT !.val = Clamp(@)].val \in 8..56
      /\ l.val \in 8..56 => [l EXCEPT !.val = Clamp(@)] = l
  <2> HIDE DEF l
  <2> QED BY <1>1, <1>2 DEF Setpoints
<1>4. Tested(d) \in Cfgs /\ InRange(Tested(d)) /\ (InRange(d) => Tested(d) = d)
  BY <1>1, TestedConfig
<1> QED
  BY <1>1, <1>3, <1>4

-----------------------------------------------------------------------------
(* Type correctness                                                        *)

StoreType ==
    /\ DOMAIN store = {SP, CFG, VER}
    /\ store[SP] \in Setpoints \union {NoVal, Torn}
    /\ store[CFG] \in Cfgs \union {NoVal, Torn}
    /\ store[VER] \in {ThisVersion, NoVal, Torn}

RamType == sp \in Setpoints /\ cfg \in Cfgs

PacketType ==
    /\ rx \in Packets \union {NoPacket} /\ buf \in Packets \union {NoPacket}
    /\ cmdEvt => buf \in Packets

FlagType == cmdEvt \in BOOLEAN /\ rsp \in BOOLEAN /\ lost \in BOOLEAN /\ damaged \in BOOLEAN

RestType ==
    /\ app \in {"off", "check", "renew", "formatted", "format", "idle", "busy", "saving"}
    /\ link \in Hosts \union {NoHost}
    /\ crashes \in 0..MaxCrashes
    /\ changes \in Nat

PastType ==
    /\ out \in Seq(Setpoints)
    /\ kept \in [sp : Setpoints, cfg : Cfgs]
    /\ told \subseteq Setpoints /\ held \subseteq 0..255

WrType == wr \in Writes \union {NoWrite}

TypeInv == StoreType /\ WrType /\ RamType /\ PacketType /\ FlagType /\ RestType /\ PastType

LEMMA TypeParts == TypeInv => TypeOK
BY DEF TypeInv, TypeOK, StoreType, WrType, RamType, PacketType, FlagType, RestType, PastType

LEMMA WriteKinds ==
    ASSUME NEW w \in Writes
    PROVE  /\ w = [id |-> w.id, val |-> w.val]
           /\ \/ w.id = SP /\ w.val \in Setpoints
              \/ w.id = CFG /\ w.val \in Cfgs
              \/ w.id = VER /\ w.val = ThisVersion
BY DEF Writes, SP, CFG, VER

LEMMA ReplyType ==
    ASSUME NEW s \in Setpoints, PastType, Reply(s)
    PROVE  out' \in Seq(Setpoints) /\ told' \subseteq Setpoints
BY DEF Reply, PastType

(* What a load leaves in RAM, from a well typed store.                     *)
LEMMA LoadType ==
    ASSUME StoreType
    PROVE  /\ SetpointLoad => sp' \in Setpoints /\ sp'.val \in 8..56
           /\ Tested(Stored(CFG, DefCfg, BlankCfg)) \in Cfgs
           /\ InRange(Tested(Stored(CFG, DefCfg, BlankCfg)))
BY Loaded DEF StoreType, SetpointLoad

LEMMA TypeInit == DevInit => TypeInv
<1> SUFFICES ASSUME DevInit PROVE TypeInv
  OBVIOUS
<1>1. StoreType /\ WrType
  BY DEF DevInit, EEP!StoreInit, StoreType, WrType, SP, CFG, VER
<1>2. RamType /\ PastType
  BY Defaults DEF DevInit, RamType, PastType
<1>3. PacketType /\ FlagType
  BY DEF DevInit, PacketType, FlagType
<1>4. RestType
  BY SettingsAssumption DEF DevInit, RestType
<1> QED
  BY <1>1, <1>2, <1>3, <1>4 DEF TypeInv

LEMMA TypeStep == TypeInv /\ [DevNext]_devVars => TypeInv'
<1> SUFFICES ASSUME TypeInv, [DevNext]_devVars PROVE TypeInv'
  OBVIOUS
<1> USE DEF TypeInv
<1>1. CASE PowerOn
  <2>1. StoreType' /\ WrType' /\ RamType' /\ PacketType' /\ FlagType' /\ PastType'
    BY <1>1 DEF PowerOn, StoreType, WrType, RamType, PacketType, FlagType, PastType, ramVars, linkVars, pastVars
  <2>2. RestType'
    BY <1>1, SettingsAssumption DEF PowerOn, RestType, ramVars, linkVars, pastVars
  <2> QED
    BY <2>1, <2>2
<1>2. CASE VersionFound
  <2>1. StoreType' /\ WrType' /\ PacketType' /\ FlagType' /\ PastType'
    BY <1>2 DEF VersionFound, StoreType, WrType, PacketType, FlagType, PastType, ramVars, linkVars, pastVars
  <2>2. RamType'
    BY <1>2, LoadType, Defaults, ClampInRange, PacketFields, TestedConfig DEF VersionFound, RamType, StoreType, Load, ramVars, linkVars, pastVars
  <2>3. RestType'
    BY <1>2, SettingsAssumption DEF VersionFound, Load, RestType, ramVars, linkVars, pastVars
  <2> QED
    BY <2>1, <2>2, <2>3
<1>3. CASE VersionRenew
  <2>1. StoreType' /\ RamType' /\ PacketType' /\ FlagType' /\ PastType'
    BY <1>3 DEF VersionRenew, EEP!Begin, StoreType, RamType, PacketType, FlagType, PastType, ramVars, linkVars, pastVars
  <2>2. WrType'
    BY <1>3 DEF VersionRenew, EEP!Begin, WrType, SP, CFG, VER, Writes, RamType, ramVars, linkVars, pastVars
  <2>3. RestType'
    BY <1>3, SettingsAssumption DEF VersionRenew, EEP!Begin, RestType, ramVars, linkVars, pastVars
  <2> QED
    BY <2>1, <2>2, <2>3
<1>4. CASE Format
  <2>1. WrType' /\ RamType' /\ PacketType' /\ FlagType' /\ PastType'
    BY <1>4 DEF Format, EEP!Wipe, WrType, RamType, PacketType, FlagType, PastType, ramVars, linkVars, pastVars
  <2>2. StoreType'
    BY <1>4 DEF Format, EEP!Wipe, StoreType, SP, CFG, VER, ramVars, linkVars, pastVars
  <2>3. RestType'
    BY <1>4, SettingsAssumption DEF Format, EEP!Wipe, RestType, ramVars, linkVars, pastVars
  <2> QED
    BY <2>1, <2>2, <2>3
<1>5. CASE FormatVersion
  <2>1. StoreType' /\ RamType' /\ PacketType' /\ FlagType' /\ PastType'
    BY <1>5 DEF FormatVersion, EEP!Begin, StoreType, RamType, PacketType, FlagType, PastType, ramVars, linkVars, pastVars
  <2>2. WrType'
    BY <1>5 DEF FormatVersion, EEP!Begin, WrType, SP, CFG, VER, Writes, RamType, ramVars, linkVars, pastVars
  <2>3. RestType'
    BY <1>5, SettingsAssumption DEF FormatVersion, EEP!Begin, RestType, ramVars, linkVars, pastVars
  <2> QED
    BY <2>1, <2>2, <2>3
<1>6. CASE VersionWritten
  <2>1. PacketType' /\ FlagType' /\ PastType'
    BY <1>6 DEF VersionWritten, EEP!Put, PacketType, FlagType, PastType, ramVars, linkVars, pastVars
  <2>2. StoreType'
    BY <1>6, WriteKinds DEF VersionWritten, EEP!Put, StoreType, WrType, SP, CFG, VER, ramVars, linkVars, pastVars
  <2>3. WrType'
    BY <1>6 DEF VersionWritten, EEP!Put, WrType, SP, CFG, VER, Writes, RamType, ramVars, linkVars, pastVars
  <2>4. RamType'
    <3>1. CASE app = "renew"
      BY <1>6, <3>1, LoadType DEF VersionWritten, RamType
    <3>2. CASE app = "format"
      BY <1>6, <3>2, Defaults DEF VersionWritten, RamType
    <3> QED BY <1>6, <3>1, <3>2 DEF VersionWritten
  <2>5. RestType'
    BY <1>6, SettingsAssumption DEF VersionWritten, EEP!Put, RestType, ramVars, linkVars, pastVars
  <2> QED
    BY <2>1, <2>2, <2>3, <2>4, <2>5
<1>7. CASE Compact
  <2>1. WrType' /\ RamType' /\ PacketType' /\ RestType'
    BY <1>7 DEF Compact, EEP!Compact, WrType, RamType, PacketType, RestType, ramVars, linkVars, pastVars
  <2>2. StoreType'
    BY <1>7 DEF Compact, EEP!Compact, StoreType, SP, CFG, VER, ramVars, linkVars, pastVars
  <2>3. FlagType'
    BY <1>7 DEF Compact, EEP!Compact, FlagType, ramVars, linkVars, pastVars
  <2>4. PastType'
    BY <1>7 DEF Compact, EEP!Compact, PastType, RamType, ramVars, linkVars, pastVars
  <2> QED
    BY <2>1, <2>2, <2>3, <2>4
<1>8. CASE Tear
  <2>1. WrType' /\ RamType' /\ PacketType' /\ FlagType' /\ RestType' /\ PastType'
    BY <1>8 DEF Tear, EEP!Tear, WrType, RamType, PacketType, FlagType, RestType, PastType, ramVars, linkVars, pastVars
  <2>2. StoreType'
    BY <1>8, WriteKinds DEF Tear, EEP!Tear, StoreType, WrType, SP, CFG, VER, ramVars, linkVars, pastVars
  <2> QED
    BY <2>1, <2>2
<1>9. CASE WriteCmd
  <2>1. StoreType' /\ WrType' /\ RamType' /\ RestType' /\ PastType'
    BY <1>9 DEF WriteCmd, StoreType, WrType, RamType, RestType, PastType, ramVars, linkVars, pastVars
  <2>2. PacketType'
    BY <1>9 DEF WriteCmd, PacketType, ramVars, linkVars, pastVars
  <2>3. FlagType'
    BY <1>9 DEF WriteCmd, FlagType, ramVars, linkVars, pastVars
  <2> QED
    BY <2>1, <2>2, <2>3
<1>10. CASE CmdGet
  <2>1. StoreType' /\ WrType' /\ RamType' /\ RestType'
    BY <1>10 DEF CmdGet, Parses, StoreType, WrType, RamType, RestType, ramVars, linkVars, pastVars
  <2>2. PacketType'
    BY <1>10 DEF CmdGet, Parses, PacketType, ramVars, linkVars, pastVars
  <2>3. FlagType'
    BY <1>10 DEF CmdGet, Parses, FlagType, ramVars, linkVars, pastVars
  <2>4. PastType'
    BY <1>10, ReplyType DEF CmdGet, Parses, PastType, RamType, ramVars, linkVars, pastVars
  <2> QED
    BY <2>1, <2>2, <2>3, <2>4
<1>11. CASE CmdSetSame
  <2>1. StoreType' /\ WrType' /\ RamType' /\ RestType'
    BY <1>11 DEF CmdSetSame, Parses, StoreType, WrType, RamType, RestType, ramVars, linkVars, pastVars
  <2>2. PacketType'
    BY <1>11 DEF CmdSetSame, Parses, PacketType, ramVars, linkVars, pastVars
  <2>3. FlagType'
    BY <1>11 DEF CmdSetSame, Parses, FlagType, ramVars, linkVars, pastVars
  <2>4. PastType'
    BY <1>11, ReplyType DEF CmdSetSame, Parses, PastType, RamType, ramVars, linkVars, pastVars
  <2> QED
    BY <2>1, <2>2, <2>3, <2>4
<1>12. CASE CmdSet
  <2>1. StoreType'
    BY <1>12 DEF CmdSet, Parses, EEP!Begin, StoreType, ramVars, linkVars, pastVars
  <2>0. sp' \in Setpoints /\ cfg' \in Cfgs /\ sp'.val \in 0..255
    <3>1. buf \in Packets
      BY <1>12 DEF CmdSet, Parses, PacketType
    <3>2. Clamp(buf.val) \in 0..255
      BY <3>1, PacketFields, ClampInRange
    <3>3. NextVersion(sp.ver) \in 0..(VerMod - 1)
      BY SettingsAssumption DEF NextVersion, RamType, Setpoints
    <3> QED BY <1>12, <3>2, <3>3 DEF CmdSet, Setpoints, RamType
  <2>2. WrType'
    BY <1>12, <2>0 DEF CmdSet, EEP!Begin, WrType, Writes, SP
  <2>3. RamType'
    BY <2>0 DEF RamType
  <2>4. PacketType'
    BY <1>12 DEF CmdSet, Parses, EEP!Begin, PacketType, ramVars, linkVars, pastVars
  <2>5. FlagType'
    BY <1>12 DEF CmdSet, Parses, EEP!Begin, FlagType, ramVars, linkVars, pastVars
  <2>6. RestType'
    BY <1>12, SettingsAssumption DEF CmdSet, Parses, EEP!Begin, RestType, ramVars, linkVars, pastVars
  <2>7. PastType'
    BY <1>12, <2>0 DEF CmdSet, PastType
  <2> QED
    BY <2>1, <2>2, <2>3, <2>4, <2>5, <2>6, <2>7
<1>13. CASE CmdCfg
  <2>1. StoreType'
    BY <1>13 DEF CmdCfg, Parses, EEP!Begin, StoreType, ramVars, linkVars, pastVars
  <2>0. cfg' \in Cfgs
    <3>1. buf \in Packets
      BY <1>13 DEF CmdCfg, Parses, PacketType
    <3>2. (IF buf.cmd = "def" THEN DefCfg ELSE buf.cfg) \in Cfgs
      BY <3>1, PacketFields, Defaults
    <3> QED BY <1>13, <3>2, TestedConfig DEF CmdCfg, NewCfg
  <2>2. WrType'
    BY <1>13, <2>0 DEF CmdCfg, EEP!Begin, WrType, Writes, CFG
  <2>3. RamType'
    BY <1>13, <2>0 DEF CmdCfg, RamType
  <2>4. PacketType'
    BY <1>13 DEF CmdCfg, Parses, EEP!Begin, PacketType, ramVars, linkVars, pastVars
  <2>5. FlagType'
    BY <1>13 DEF CmdCfg, Parses, EEP!Begin, FlagType, ramVars, linkVars, pastVars
  <2>6. RestType'
    BY <1>13, SettingsAssumption DEF CmdCfg, Parses, EEP!Begin, RestType, ramVars, linkVars, pastVars
  <2>7. PastType'
    BY <1>13, <2>0 DEF CmdCfg, PastType
  <2> QED
    BY <2>1, <2>2, <2>3, <2>4, <2>5, <2>6, <2>7
<1>14. CASE Saved
  <2>1. RamType' /\ PacketType' /\ FlagType'
    BY <1>14 DEF Saved, EEP!Put, RamType, PacketType, FlagType, ramVars, linkVars, pastVars
  <2>2. StoreType'
    BY <1>14, WriteKinds DEF Saved, EEP!Put, StoreType, WrType, SP, CFG, VER, ramVars, linkVars, pastVars
  <2>3. WrType'
    BY <1>14 DEF Saved, EEP!Put, WrType, SP, CFG, VER, Writes, RamType, ramVars, linkVars, pastVars
  <2>4. RestType'
    BY <1>14, SettingsAssumption DEF Saved, EEP!Put, RestType, ramVars, linkVars, pastVars
  <2>5. PastType'
    BY <1>14, ReplyType DEF Saved, EEP!Put, PastType, RamType, ramVars, linkVars, pastVars
  <2> QED
    BY <2>1, <2>2, <2>3, <2>4, <2>5
<1>15. CASE OtherEvent
  <2>1. StoreType' /\ WrType' /\ RamType' /\ PacketType' /\ FlagType' /\ PastType'
    BY <1>15 DEF OtherEvent, StoreType, WrType, RamType, PacketType, FlagType, PastType, ramVars, linkVars, pastVars
  <2>2. RestType'
    BY <1>15, SettingsAssumption DEF OtherEvent, RestType, ramVars, linkVars, pastVars
  <2> QED
    BY <2>1, <2>2
<1>16. CASE OtherDone
  <2>1. StoreType' /\ WrType' /\ RamType' /\ PacketType' /\ FlagType' /\ PastType'
    BY <1>16 DEF OtherDone, StoreType, WrType, RamType, PacketType, FlagType, PastType, ramVars, linkVars, pastVars
  <2>2. RestType'
    BY <1>16, SettingsAssumption DEF OtherDone, RestType, ramVars, linkVars, pastVars
  <2> QED
    BY <2>1, <2>2
<1>17. ASSUME NEW h \in Hosts, Connect(h) PROVE TypeInv'
  <2>1. StoreType' /\ WrType' /\ RamType' /\ PacketType'
    BY <1>17 DEF Connect, StoreType, WrType, RamType, PacketType, ramVars, linkVars, pastVars
  <2>2. FlagType'
    BY <1>17 DEF Connect, FlagType, ramVars, linkVars, pastVars
  <2>3. RestType'
    BY <1>17, SettingsAssumption DEF Connect, RestType, ramVars, linkVars, pastVars
  <2>4. PastType'
    BY <1>17 DEF Connect, PastType, RamType, Setpoints, ramVars, linkVars, pastVars
  <2> QED
    BY <2>1, <2>2, <2>3, <2>4
<1>18. ASSUME NEW p \in Packets, Receive(p) PROVE TypeInv'
  <2>1. StoreType' /\ WrType' /\ RamType' /\ RestType' /\ PastType'
    BY <1>18 DEF Receive, StoreType, WrType, RamType, RestType, PastType, ramVars, linkVars, pastVars
  <2>2. PacketType'
    BY <1>18 DEF Receive, PacketType, ramVars, linkVars, pastVars
  <2>3. FlagType'
    BY <1>18 DEF Receive, FlagType, ramVars, linkVars, pastVars
  <2> QED
    BY <2>1, <2>2, <2>3
<1>19. CASE LinkDown
  <2>1. StoreType' /\ WrType' /\ RamType'
    BY <1>19 DEF LinkDown, StoreType, WrType, RamType, ramVars, linkVars, pastVars
  <2>2. PacketType'
    BY <1>19 DEF LinkDown, PacketType, ramVars, linkVars, pastVars
  <2>3. FlagType'
    BY <1>19 DEF LinkDown, FlagType, ramVars, linkVars, pastVars
  <2>4. RestType'
    BY <1>19, SettingsAssumption DEF LinkDown, RestType, ramVars, linkVars, pastVars
  <2>5. PastType'
    BY <1>19 DEF LinkDown, PastType, RamType, ramVars, linkVars, pastVars
  <2> QED
    BY <2>1, <2>2, <2>3, <2>4, <2>5
<1>20. CASE PowerLoss
  <2>1. StoreType'
    BY <1>20 DEF PowerLoss, EEP!Lose, StoreType, ramVars, linkVars, pastVars
  <2>2. WrType'
    BY <1>20 DEF PowerLoss, EEP!Lose, WrType, SP, CFG, VER, Writes, RamType, ramVars, linkVars, pastVars
  <2>3. RamType'
    BY <1>20, LoadType, Defaults, ClampInRange, PacketFields, TestedConfig DEF PowerLoss, EEP!Lose, RamType, StoreType, ramVars, linkVars, pastVars
  <2>4. PacketType'
    BY <1>20 DEF PowerLoss, EEP!Lose, PacketType, ramVars, linkVars, pastVars
  <2>5. FlagType'
    BY <1>20 DEF PowerLoss, EEP!Lose, FlagType, ramVars, linkVars, pastVars
  <2>6. RestType'
    BY <1>20, SettingsAssumption DEF PowerLoss, EEP!Lose, RestType, ramVars, linkVars, pastVars
  <2>7. PastType'
    BY <1>20 DEF PowerLoss, EEP!Lose, PastType, RamType, ramVars, linkVars, pastVars
  <2> QED
    BY <2>1, <2>2, <2>3, <2>4, <2>5, <2>6, <2>7
<1>21. CASE Deliver
  <2>1. StoreType' /\ WrType' /\ RamType' /\ PacketType' /\ FlagType' /\ RestType'
    BY <1>21 DEF Deliver, StoreType, WrType, RamType, PacketType, FlagType, RestType, ramVars, linkVars, pastVars
  <2>2. PastType'
    BY <1>21 DEF Deliver, PastType, RamType, ramVars, linkVars, pastVars
  <2> QED
    BY <2>1, <2>2
<1>22. CASE UNCHANGED devVars
  <2>1. StoreType'
    BY <1>22 DEF StoreType, devVars
  <2>2. WrType'
    BY <1>22 DEF WrType, devVars
  <2>3. RamType'
    BY <1>22 DEF RamType, devVars
  <2>4. PacketType'
    BY <1>22 DEF PacketType, devVars
  <2>5. FlagType'
    BY <1>22 DEF FlagType, devVars
  <2>6. RestType'
    BY <1>22 DEF RestType, devVars
  <2>7. PastType'
    BY <1>22 DEF PastType, devVars
  <2> QED
    BY <2>1, <2>2, <2>3, <2>4, <2>5, <2>6, <2>7
<1> QED
  BY <1>1, <1>2, <1>3, <1>4, <1>5, <1>6, <1>7, <1>8, <1>9, <1>10, <1>11, <1>12, <1>13, <1>14, <1>15, <1>16, <1>17, <1>18, <1>19, <1>20, <1>21, <1>22 DEF DevNext, DevStep

(* The state of the settings and of the link is well typed.                *)
THEOREM TypeCorrect == DevSpec => []TypeOK
<1>1. DevSpec => []TypeInv
  BY TypeInit, TypeStep, PTL DEF DevSpec
<1> QED
  BY <1>1, TypeParts, PTL

-----------------------------------------------------------------------------
(* The write under way belongs to what the application's task is doing.    *)
PhaseInv ==
    /\ app \in {"off", "check", "formatted", "idle", "busy"} => wr = NoWrite
    /\ app \in {"renew", "format"} => wr.id = VER
    /\ app = "saving" => wr \in Writes
    /\ app = "saving" =>
          \/ wr.id = SP /\ wr.val = sp
          \/ wr.id = CFG /\ wr.val = cfg


LEMMA PhaseStep == TypeInv /\ PhaseInv /\ [DevNext]_devVars => PhaseInv'
<1> SUFFICES ASSUME TypeInv, PhaseInv, [DevNext]_devVars PROVE PhaseInv'
  OBVIOUS
<1>1. CASE PowerOn
  BY <1>1 DEF PowerOn, PhaseInv, ramVars, linkVars, pastVars
<1>2. CASE VersionFound
  BY <1>2 DEF VersionFound, Load, PhaseInv
<1>3. CASE VersionRenew
  BY <1>3 DEF VersionRenew, EEP!Begin, PhaseInv, ramVars, linkVars, pastVars
<1>4. CASE Format
  BY <1>4 DEF Format, EEP!Wipe, PhaseInv, ramVars, linkVars, pastVars
<1>5. CASE FormatVersion
  BY <1>5 DEF FormatVersion, EEP!Begin, PhaseInv, ramVars, linkVars, pastVars
<1>6. CASE VersionWritten
  BY <1>6 DEF VersionWritten, EEP!Put, PhaseInv, ramVars, linkVars, pastVars
<1>7. CASE Compact
  BY <1>7 DEF Compact, EEP!Compact, PhaseInv, ramVars, linkVars, pastVars
<1>8. CASE Tear
  BY <1>8 DEF Tear, EEP!Tear, PhaseInv, ramVars, linkVars, pastVars
<1>9. CASE WriteCmd
  BY <1>9 DEF WriteCmd, PhaseInv, ramVars, linkVars, pastVars
<1>10. CASE CmdGet
  BY <1>10 DEF CmdGet, Parses, PhaseInv, ramVars, linkVars, pastVars
<1>11. CASE CmdSetSame
  BY <1>11 DEF CmdSetSame, Parses, PhaseInv, ramVars, linkVars, pastVars
<1>12. CASE CmdSet
  <2>1. app' = "saving" /\ wr' = [id |-> SP, val |-> sp']
    BY <1>12 DEF CmdSet, EEP!Begin
  <2>2. wr' \in Writes
    BY <2>1, TypeStep, [DevNext]_devVars, SettingsAssumption DEF TypeInv, RamType, Writes, SP
  <2>3. wr'.id = SP /\ wr'.val = sp'
    BY <2>1
  <2>4. app' \notin {"off", "check", "formatted", "idle", "busy", "renew", "format"}
    BY <2>1
  <2> QED
    BY <2>2, <2>3, <2>4 DEF PhaseInv
<1>13. CASE CmdCfg
  <2>1. CASE app' = "saving" /\ wr' = [id |-> CFG, val |-> cfg'] /\ sp' = sp
    <3>1. wr' \in Writes
      BY <2>1, TypeStep, [DevNext]_devVars DEF TypeInv, RamType, Writes, CFG
    <3> QED BY <2>1, <3>1 DEF PhaseInv
  <2>2. CASE app' = app /\ wr' = wr /\ app = "idle"
    BY <2>2 DEF PhaseInv
  <2> QED
    BY <1>13, <2>1, <2>2 DEF CmdCfg, Parses, EEP!Begin
<1>14. CASE Saved
  BY <1>14 DEF Saved, EEP!Put, PhaseInv, ramVars, linkVars, pastVars
<1>15. CASE OtherEvent
  BY <1>15 DEF OtherEvent, PhaseInv, ramVars, linkVars, pastVars
<1>16. CASE OtherDone
  BY <1>16 DEF OtherDone, PhaseInv, ramVars, linkVars, pastVars
<1>17. ASSUME NEW h \in Hosts, Connect(h) PROVE PhaseInv'
  BY <1>17 DEF Connect, PhaseInv, ramVars, linkVars, pastVars
<1>18. ASSUME NEW p \in Packets, Receive(p) PROVE PhaseInv'
  BY <1>18 DEF Receive, PhaseInv, ramVars, linkVars, pastVars
<1>19. CASE LinkDown
  BY <1>19 DEF LinkDown, PhaseInv, ramVars, linkVars, pastVars
<1>20. CASE PowerLoss
  BY <1>20 DEF PowerLoss, EEP!Lose, PhaseInv, ramVars, linkVars, pastVars
<1>21. CASE Deliver
  BY <1>21 DEF Deliver, PhaseInv, ramVars, linkVars, pastVars
<1>22. CASE UNCHANGED devVars
  BY <1>22 DEF PhaseInv, ramVars, linkVars, pastVars, devVars
<1> QED
  BY <1>1, <1>2, <1>3, <1>4, <1>5, <1>6, <1>7, <1>8, <1>9, <1>10, <1>11, <1>12, <1>13, <1>14, <1>15, <1>16, <1>17, <1>18, <1>19, <1>20, <1>21, <1>22 DEF DevNext, DevStep

(* What is in force while the device is up is in its range.                *)
TestedInv ==
    app \in {"idle", "busy", "saving"} => sp.val \in 8..56 /\ InRange(cfg)


LEMMA TestedStep == TypeInv /\ TestedInv /\ [DevNext]_devVars => TestedInv'
<1> SUFFICES ASSUME TypeInv, TestedInv, [DevNext]_devVars PROVE TestedInv'
  OBVIOUS
<1>1. CASE PowerOn
  BY <1>1 DEF PowerOn, TestedInv, ramVars, linkVars, pastVars
<1>2. CASE VersionFound
  BY <1>2, LoadType DEF VersionFound, Load, TestedInv, TypeInv
<1>3. CASE VersionRenew
  BY <1>3 DEF VersionRenew, EEP!Begin, TestedInv, ramVars, linkVars, pastVars
<1>4. CASE Format
  BY <1>4 DEF Format, EEP!Wipe, TestedInv, ramVars, linkVars, pastVars
<1>5. CASE FormatVersion
  BY <1>5 DEF FormatVersion, EEP!Begin, TestedInv, ramVars, linkVars, pastVars
<1>6. CASE VersionWritten
  <2>1. CASE app = "renew"
    BY <1>6, <2>1, LoadType DEF VersionWritten, TestedInv, TypeInv
  <2>2. CASE app = "format"
    BY <1>6, <2>2, Defaults DEF VersionWritten, TestedInv
  <2> QED BY <1>6, <2>1, <2>2 DEF VersionWritten
<1>7. CASE Compact
  BY <1>7 DEF Compact, EEP!Compact, TestedInv, ramVars, linkVars, pastVars
<1>8. CASE Tear
  BY <1>8 DEF Tear, EEP!Tear, TestedInv, ramVars, linkVars, pastVars
<1>9. CASE WriteCmd
  BY <1>9 DEF WriteCmd, TestedInv, ramVars, linkVars, pastVars
<1>10. CASE CmdGet
  BY <1>10 DEF CmdGet, Parses, TestedInv, ramVars, linkVars, pastVars
<1>11. CASE CmdSetSame
  BY <1>11 DEF CmdSetSame, Parses, TestedInv, ramVars, linkVars, pastVars
<1>12. CASE CmdSet
  <2>1. buf \in Packets
    BY <1>12 DEF CmdSet, Parses, TypeInv, PacketType
  <2>2. Clamp(buf.val) \in 8..56
    BY <2>1, PacketFields, ClampInRange
  <2> QED BY <1>12, <2>2 DEF CmdSet, Parses, TestedInv
<1>13. CASE CmdCfg
  <2>1. buf \in Packets
    BY <1>13 DEF CmdCfg, Parses, TypeInv, PacketType
  <2>2. (IF buf.cmd = "def" THEN DefCfg ELSE buf.cfg) \in Cfgs
    BY <2>1, PacketFields, Defaults
  <2>3. InRange(cfg')
    BY <1>13, <2>2, TestedConfig DEF CmdCfg, NewCfg
  <2> QED BY <1>13, <2>3 DEF CmdCfg, Parses, TestedInv
<1>14. CASE Saved
  BY <1>14 DEF Saved, EEP!Put, TestedInv, ramVars, linkVars, pastVars
<1>15. CASE OtherEvent
  BY <1>15 DEF OtherEvent, TestedInv, ramVars, linkVars, pastVars
<1>16. CASE OtherDone
  BY <1>16 DEF OtherDone, TestedInv, ramVars, linkVars, pastVars
<1>17. ASSUME NEW h \in Hosts, Connect(h) PROVE TestedInv'
  BY <1>17 DEF Connect, TestedInv, ramVars, linkVars, pastVars
<1>18. ASSUME NEW p \in Packets, Receive(p) PROVE TestedInv'
  BY <1>18 DEF Receive, TestedInv, ramVars, linkVars, pastVars
<1>19. CASE LinkDown
  BY <1>19 DEF LinkDown, TestedInv, ramVars, linkVars, pastVars
<1>20. CASE PowerLoss
  BY <1>20 DEF PowerLoss, EEP!Lose, TestedInv, ramVars, linkVars, pastVars
<1>21. CASE Deliver
  BY <1>21 DEF Deliver, TestedInv, ramVars, linkVars, pastVars
<1>22. CASE UNCHANGED devVars
  BY <1>22 DEF TestedInv, ramVars, linkVars, pastVars, devVars
<1> QED
  BY <1>1, <1>2, <1>3, <1>4, <1>5, <1>6, <1>7, <1>8, <1>9, <1>10, <1>11, <1>12, <1>13, <1>14, <1>15, <1>16, <1>17, <1>18, <1>19, <1>20, <1>21, <1>22 DEF DevNext, DevStep

-----------------------------------------------------------------------------
(* What the store holds, as long as it lost and tore nothing: the object   *)
(* of the last save, or nothing where the default was never changed; an    *)
(* object may be torn only while it is being written. Without a version    *)
(* there is no other object, so a format forgets nothing.                  *)
KeptInv == kept.sp \in Setpoints /\ kept.cfg \in Cfgs /\ kept.sp.val \in 8..56 /\ InRange(kept.cfg)

Writing(i) == app = "saving" /\ wr.id = i

SpInv ==
    \/ store[SP] = kept.sp
    \/ store[SP] = NoVal /\ kept.sp = DefSetpoint
    \/ store[SP] = Torn /\ Writing(SP)

CfgInv ==
    \/ store[CFG] = kept.cfg
    \/ store[CFG] = NoVal /\ kept.cfg = DefCfg
    \/ store[CFG] = Torn /\ Writing(CFG)

NoneStored == store[SP] = NoVal /\ store[CFG] = NoVal

VerInv ==
    /\ store[VER] = NoVal => NoneStored
    /\ app \in {"idle", "busy", "saving"} => store[VER] # NoVal
    /\ app \in {"formatted", "format"} => NoneStored

ForceInv ==
    /\ app \in {"idle", "busy"} => sp = kept.sp /\ cfg = kept.cfg
    /\ Writing(SP) => cfg = kept.cfg
    /\ Writing(CFG) => sp = kept.sp

StoreInv == ~ damaged => KeptInv /\ SpInv /\ CfgInv /\ VerInv /\ ForceInv


LEMMA StoreStep == TypeInv /\ PhaseInv /\ TestedInv /\ StoreInv /\ [DevNext]_devVars => StoreInv'
<1> SUFFICES ASSUME TypeInv /\ PhaseInv /\ TestedInv, StoreInv, [DevNext]_devVars PROVE StoreInv'
  OBVIOUS
<1>1. CASE PowerOn
  BY <1>1 DEF PowerOn, StoreInv, KeptInv, SpInv, CfgInv, VerInv, ForceInv, NoneStored, Writing, ramVars, linkVars, pastVars
<1>2. CASE VersionFound
  <2> SUFFICES ASSUME ~ damaged PROVE StoreInv'
    BY <1>2 DEF VersionFound, StoreInv, pastVars
  <2> USE <1>2 DEF VersionFound, Load, StoreInv, linkVars, pastVars
  <2>1. ~ Writing(SP) /\ ~ Writing(CFG) /\ ~ Writing(SP)' /\ ~ Writing(CFG)'
    BY DEF Writing
  <2>2. sp' = kept.sp
    <3>1. Stored(SP, DefSetpoint, Blank) = kept.sp
      BY <2>1, SettingsAssumption DEF SpInv, KeptInv, Stored
    <3>2. kept.sp.val \in 8..56
      BY DEF KeptInv
    <3> QED BY <3>1, <3>2, Loaded DEF SetpointLoad, TypeInv, StoreType
  <2>3. cfg' = kept.cfg
    <3>1. Stored(CFG, DefCfg, BlankCfg) = kept.cfg
      BY <2>1, SettingsAssumption DEF CfgInv, KeptInv, Stored
    <3> QED BY <3>1, TestedConfig DEF KeptInv
  <2>4. kept' = kept /\ store' = store /\ app' = "idle" /\ store[VER] # NoVal
    OBVIOUS
  <2>5. KeptInv' /\ SpInv' /\ CfgInv'
    BY <2>1, <2>4 DEF KeptInv, SpInv, CfgInv
  <2>6. VerInv'
    BY <2>4 DEF VerInv, NoneStored
  <2>7. ForceInv'
    BY <2>1, <2>2, <2>3, <2>4 DEF ForceInv
  <2> QED BY <2>5, <2>6, <2>7
<1>3. CASE VersionRenew
  BY <1>3 DEF VersionRenew, EEP!Begin, StoreInv, KeptInv, SpInv, CfgInv, VerInv, ForceInv, NoneStored, Writing, ramVars, linkVars, pastVars
<1>4. CASE Format
  BY <1>4, SettingsAssumption DEF Format, EEP!Wipe, StoreInv, KeptInv, SpInv, CfgInv, VerInv, ForceInv, NoneStored, Writing, SP, CFG, VER, TypeInv, StoreType, ramVars, linkVars, pastVars
<1>5. CASE FormatVersion
  BY <1>5 DEF FormatVersion, EEP!Begin, StoreInv, KeptInv, SpInv, CfgInv, VerInv, ForceInv, NoneStored, Writing, ramVars, linkVars, pastVars
<1>6. CASE VersionWritten
  <2> SUFFICES ASSUME ~ damaged PROVE StoreInv'
    BY <1>6 DEF VersionWritten, StoreInv, pastVars
  <2> USE <1>6 DEF VersionWritten, StoreInv, pastVars
  <2>1. ~ Writing(SP) /\ ~ Writing(CFG) /\ ~ Writing(SP)' /\ ~ Writing(CFG)'
    BY DEF Writing
  <2>2. /\ store'[SP] = store[SP] /\ store'[CFG] = store[CFG] /\ store'[VER] # NoVal
        /\ kept' = kept /\ app' = "idle"
    <3>1. wr.id = VER /\ wr \in Writes
      BY DEF PhaseInv, EEP!Put, TypeInv, WrType
    <3>2. wr.val = ThisVersion
      BY <3>1, WriteKinds DEF SP, CFG, VER
    <3> QED BY <3>1, <3>2, SettingsAssumption DEF EEP!Put, TypeInv, StoreType, SP, CFG, VER
  <2>3. sp' = kept.sp /\ cfg' = kept.cfg
    <3>1. CASE app = "format"
      <4>1. kept.sp = DefSetpoint /\ kept.cfg = DefCfg
        BY <2>1, <3>1, SettingsAssumption DEF SpInv, CfgInv, VerInv, NoneStored, KeptInv
      <4> QED BY <3>1, <4>1, Defaults
    <3>2. CASE app = "renew"
      <4>1. Stored(SP, DefSetpoint, Blank) = kept.sp
        BY <2>1, SettingsAssumption DEF SpInv, KeptInv, Stored
      <4>2. Stored(CFG, DefCfg, BlankCfg) = kept.cfg
        BY <2>1, SettingsAssumption DEF CfgInv, KeptInv, Stored
      <4>3. kept.sp.val \in 8..56 /\ InRange(kept.cfg) /\ kept.cfg \in Cfgs
        BY DEF KeptInv
      <4>4. sp' = kept.sp
        BY <3>2, <4>1, <4>3, Loaded DEF SetpointLoad, TypeInv, StoreType
      <4> QED BY <3>2, <4>2, <4>3, <4>4, TestedConfig
    <3> QED BY <3>1, <3>2
  <2>4. KeptInv' /\ SpInv' /\ CfgInv'
    BY <2>1, <2>2 DEF KeptInv, SpInv, CfgInv
  <2>5. VerInv'
    BY <2>2 DEF VerInv, NoneStored
  <2>6. ForceInv'
    BY <2>1, <2>2, <2>3 DEF ForceInv
  <2> QED BY <2>4, <2>5, <2>6
<1>7. CASE Compact
  BY <1>7 DEF Compact, StoreInv
<1>8. CASE Tear
  <2> SUFFICES ASSUME ~ damaged PROVE StoreInv'
    BY <1>8 DEF Tear, StoreInv, pastVars
  <2> USE <1>8 DEF Tear, EEP!Tear, StoreInv, pastVars, ramVars
  <2>1. wr \in Writes /\ app \in {"renew", "format", "saving"}
    BY DEF PhaseInv, TypeInv, WrType, RestType
  <2>2. Writing(SP)' = Writing(SP) /\ Writing(CFG)' = Writing(CFG)
    BY DEF Writing
  <2>3. KeptInv' /\ ForceInv'
    BY <2>2 DEF KeptInv, ForceInv
  <2>4. CASE wr.id = SP
    <3>1. store'[SP] = Torn /\ store'[CFG] = store[CFG] /\ store'[VER] = store[VER] /\ app = "saving"
      BY <2>1, <2>4 DEF PhaseInv, TypeInv, StoreType, SP, CFG, VER
    <3>2. SpInv' /\ CfgInv'
      BY <2>2, <2>4, <3>1 DEF SpInv, CfgInv, Writing
    <3>3. VerInv'
      BY <3>1 DEF VerInv
    <3> QED BY <2>3, <3>2, <3>3
  <2>5. CASE wr.id = CFG
    <3>1. store'[CFG] = Torn /\ store'[SP] = store[SP] /\ store'[VER] = store[VER] /\ app = "saving"
      BY <2>1, <2>5 DEF PhaseInv, TypeInv, StoreType, SP, CFG, VER
    <3>2. SpInv' /\ CfgInv'
      BY <2>2, <2>5, <3>1 DEF SpInv, CfgInv, Writing
    <3>3. VerInv'
      BY <3>1 DEF VerInv
    <3> QED BY <2>3, <3>2, <3>3
  <2>6. CASE wr.id = VER
    <3>1. store'[CFG] = store[CFG] /\ store'[SP] = store[SP] /\ store'[VER] = Torn
      BY <2>6 DEF TypeInv, StoreType, SP, CFG, VER
    <3>2. SpInv' /\ CfgInv'
      BY <2>2, <3>1 DEF SpInv, CfgInv
    <3>3. VerInv'
      BY <3>1, SettingsAssumption DEF VerInv, NoneStored
    <3> QED BY <2>3, <3>2, <3>3
  <2> QED BY <2>1, <2>4, <2>5, <2>6, WriteKinds
<1>9. CASE WriteCmd
  BY <1>9 DEF WriteCmd, StoreInv, KeptInv, SpInv, CfgInv, VerInv, ForceInv, NoneStored, Writing, ramVars, linkVars, pastVars
<1>10. CASE CmdGet
  BY <1>10 DEF CmdGet, Parses, StoreInv, KeptInv, SpInv, CfgInv, VerInv, ForceInv, NoneStored, Writing, ramVars, linkVars, pastVars
<1>11. CASE CmdSetSame
  BY <1>11 DEF CmdSetSame, Parses, StoreInv, KeptInv, SpInv, CfgInv, VerInv, ForceInv, NoneStored, Writing, ramVars, linkVars, pastVars
<1>12. CASE CmdSet
  <2> SUFFICES ASSUME ~ damaged PROVE StoreInv'
    BY <1>12 DEF CmdSet, StoreInv
  <2> USE <1>12 DEF CmdSet, Parses, EEP!Begin, StoreInv
  <2>1. ~ Writing(SP) /\ ~ Writing(CFG) /\ ~ Writing(CFG)' /\ app' = "saving"
    BY DEF Writing, SP, CFG
  <2>2. kept' = kept /\ store' = store /\ cfg' = cfg /\ cfg = kept.cfg /\ store[VER] # NoVal
    BY DEF ForceInv, VerInv
  <2>3. KeptInv' /\ SpInv' /\ CfgInv'
    BY <2>1, <2>2 DEF KeptInv, SpInv, CfgInv
  <2>4. VerInv'
    BY <2>1, <2>2 DEF VerInv
  <2>5. ForceInv'
    BY <2>1, <2>2 DEF ForceInv
  <2> QED BY <2>3, <2>4, <2>5
<1>13. CASE CmdCfg
  <2> SUFFICES ASSUME ~ damaged PROVE StoreInv'
    BY <1>13 DEF CmdCfg, StoreInv
  <2> USE <1>13 DEF CmdCfg, Parses, StoreInv
  <2>1. ~ Writing(SP) /\ ~ Writing(CFG) /\ sp = kept.sp /\ sp' = sp /\ store' = store /\ store[VER] # NoVal
    BY DEF Writing, ForceInv, VerInv, EEP!Begin
  <2>2. cfg' \in Cfgs /\ InRange(cfg')
    BY TypeStep, TestedStep, [DevNext]_devVars DEF TypeInv, RamType, TestedInv, EEP!Begin
  <2>3. CASE EEP!Begin(CFG, cfg') /\ app' = "saving" /\ kept' = kept
    <3>1. ~ Writing(SP)'
      BY <2>3 DEF Writing, EEP!Begin, SP, CFG
    <3>2. KeptInv' /\ SpInv' /\ CfgInv'
      BY <2>1, <2>3, <3>1 DEF KeptInv, SpInv, CfgInv
    <3>3. VerInv' /\ ForceInv'
      BY <2>1, <2>3, <3>1 DEF VerInv, ForceInv
    <3> QED BY <3>2, <3>3
  <2>4. CASE Unchanged(CFG, cfg') /\ app' = app /\ wr' = wr /\ kept' = [kept EXCEPT !.cfg = cfg']
    <3>1. ~ Writing(SP)' /\ ~ Writing(CFG)'
      BY <2>4 DEF Writing
    <3>2. kept'.sp = kept.sp /\ kept'.cfg = cfg' /\ store[CFG] = cfg'
      BY <2>4 DEF Unchanged, TypeInv, PastType
    <3>3. KeptInv' /\ SpInv' /\ CfgInv'
      BY <2>1, <2>2, <3>1, <3>2 DEF KeptInv, SpInv, CfgInv
    <3>4. VerInv' /\ ForceInv'
      BY <2>1, <2>4, <3>1, <3>2 DEF VerInv, ForceInv
    <3> QED BY <3>3, <3>4
  <2> QED BY <2>3, <2>4
<1>14. CASE Saved
  <2> SUFFICES ASSUME ~ damaged PROVE StoreInv'
    BY <1>14 DEF Saved, StoreInv
  <2> USE <1>14 DEF Saved, EEP!Put, StoreInv, ramVars
  <2>1. wr \in Writes /\ app' = "idle" /\ sp' = sp /\ cfg' = cfg
    BY DEF PhaseInv
  <2>2. ~ Writing(SP)' /\ ~ Writing(CFG)'
    BY DEF Writing
  <2>3. sp \in Setpoints /\ cfg \in Cfgs /\ sp.val \in 8..56 /\ InRange(cfg) /\ store[VER] # NoVal
    BY DEF TypeInv, RamType, TestedInv, VerInv
  <2>4. CASE wr.id = SP
    <3>1. /\ store'[SP] = sp /\ store'[CFG] = store[CFG] /\ store'[VER] = store[VER]
          /\ kept'.sp = sp /\ kept'.cfg = kept.cfg /\ cfg = kept.cfg
      BY <2>1, <2>4 DEF PhaseInv, TypeInv, StoreType, PastType, SP, CFG, VER, ForceInv, Writing
    <3>2. KeptInv' /\ SpInv'
      BY <2>3, <3>1 DEF KeptInv, SpInv
    <3>3. CfgInv'
      BY <2>4, <3>1 DEF CfgInv, Writing, SP, CFG
    <3>4. VerInv'
      BY <2>1, <2>3, <3>1 DEF VerInv
    <3>5. ForceInv'
      BY <2>1, <2>2, <3>1 DEF ForceInv
    <3> QED BY <3>2, <3>3, <3>4, <3>5
  <2>5. CASE wr.id = CFG
    <3>1. /\ store'[CFG] = cfg /\ store'[SP] = store[SP] /\ store'[VER] = store[VER]
          /\ kept'.cfg = cfg /\ kept'.sp = kept.sp /\ sp = kept.sp
      BY <2>1, <2>5 DEF PhaseInv, TypeInv, StoreType, PastType, SP, CFG, VER, ForceInv, Writing
    <3>2. KeptInv' /\ CfgInv'
      BY <2>3, <3>1 DEF KeptInv, CfgInv
    <3>3. SpInv'
      BY <2>5, <3>1 DEF SpInv, Writing, SP, CFG
    <3>4. VerInv'
      BY <2>1, <2>3, <3>1 DEF VerInv
    <3>5. ForceInv'
      BY <2>1, <2>2, <3>1 DEF ForceInv
    <3> QED BY <3>2, <3>3, <3>4, <3>5
  <2> QED BY <2>4, <2>5
<1>15. CASE OtherEvent
  BY <1>15 DEF OtherEvent, StoreInv, KeptInv, SpInv, CfgInv, VerInv, ForceInv, NoneStored, Writing, ramVars, linkVars, pastVars
<1>16. CASE OtherDone
  BY <1>16 DEF OtherDone, StoreInv, KeptInv, SpInv, CfgInv, VerInv, ForceInv, NoneStored, Writing, ramVars, linkVars, pastVars
<1>17. ASSUME NEW h \in Hosts, Connect(h) PROVE StoreInv'
  BY <1>17 DEF Connect, StoreInv, KeptInv, SpInv, CfgInv, VerInv, ForceInv, NoneStored, Writing, ramVars, linkVars, pastVars
<1>18. ASSUME NEW p \in Packets, Receive(p) PROVE StoreInv'
  BY <1>18 DEF Receive, StoreInv, KeptInv, SpInv, CfgInv, VerInv, ForceInv, NoneStored, Writing, ramVars, linkVars, pastVars
<1>19. CASE LinkDown
  BY <1>19 DEF LinkDown, StoreInv, KeptInv, SpInv, CfgInv, VerInv, ForceInv, NoneStored, Writing, ramVars, linkVars, pastVars
<1>20. CASE PowerLoss
  <2> SUFFICES ASSUME ~ damaged' PROVE StoreInv'
    BY DEF StoreInv
  <2> USE <1>20 DEF PowerLoss, EEP!Lose, StoreInv
  <2>1. ~ damaged /\ (wr # NoWrite /\ wr.id # VER => store[wr.id] # Torn)
    OBVIOUS
  <2>2. kept' = kept /\ store' = store /\ app' = "off" /\ ~ Writing(SP)' /\ ~ Writing(CFG)'
    BY DEF Writing
  <2>3. (Writing(SP) => store[SP] # Torn) /\ (Writing(CFG) => store[CFG] # Torn)
    <3>1. Writing(SP) => wr \in Writes /\ wr.id # VER
      BY DEF Writing, PhaseInv, SP, VER
    <3>2. Writing(CFG) => wr \in Writes /\ wr.id # VER
      BY DEF Writing, PhaseInv, CFG, VER
    <3> QED BY <2>1, <3>1, <3>2, SettingsAssumption DEF Writing
  <2>4. KeptInv' /\ SpInv' /\ CfgInv'
    BY <2>1, <2>2, <2>3 DEF KeptInv, SpInv, CfgInv
  <2>5. VerInv' /\ ForceInv'
    BY <2>1, <2>2 DEF VerInv, NoneStored, ForceInv
  <2> QED BY <2>4, <2>5
<1>21. CASE Deliver
  BY <1>21 DEF Deliver, StoreInv, KeptInv, SpInv, CfgInv, VerInv, ForceInv, NoneStored, Writing, ramVars, linkVars, pastVars
<1>22. CASE UNCHANGED devVars
  BY <1>22 DEF StoreInv, KeptInv, SpInv, CfgInv, VerInv, ForceInv, NoneStored, Writing, ramVars, linkVars, pastVars, devVars
<1> QED
  BY <1>1, <1>2, <1>3, <1>4, <1>5, <1>6, <1>7, <1>8, <1>9, <1>10, <1>11, <1>12, <1>13, <1>14, <1>15, <1>16, <1>17, <1>18, <1>19, <1>20, <1>21, <1>22 DEF DevNext, DevStep

-----------------------------------------------------------------------------
(* As long as the counter has not gone round, it grows with every change:  *)
(* an answer's version is at most that of the last setpoint saved, and the *)
(* one in RAM is later while it is being saved.                            *)
Counting == ~ damaged /\ changes < VerMod

KeptVersion == kept.sp.ver <= changes

NewVersion == Writing(SP) => sp.ver > kept.sp.ver /\ sp.ver <= changes

ToldVersions ==
    \A t \in told : t.ver <= kept.sp.ver /\ (t.ver = kept.sp.ver => t = kept.sp)

VersionInv == Counting => KeptVersion /\ NewVersion /\ ToldVersions /\ VersionTells

SettingsInv == TypeInv /\ PhaseInv /\ TestedInv /\ StoreInv

LEMMA Versions ==
    ASSUME TypeInv
    PROVE  /\ changes \in Nat /\ sp.ver \in Nat /\ kept.sp.ver \in Nat /\ kept.sp \in Setpoints
           /\ sp.ver < VerMod
           /\ \A t \in told : t \in Setpoints /\ t.ver \in Nat
BY SettingsAssumption DEF TypeInv, RestType, RamType, PastType, Setpoints

(* After damage no answer is remembered.                                   *)
EmptyInv == damaged => told = {}


LEMMA EmptyStep == TypeInv /\ EmptyInv /\ [DevNext]_devVars => EmptyInv'
<1> SUFFICES ASSUME TypeInv, EmptyInv, [DevNext]_devVars PROVE EmptyInv'
  OBVIOUS
<1>1. CASE PowerOn
  BY <1>1 DEF PowerOn, EmptyInv, Reply, ramVars, linkVars, pastVars
<1>2. CASE VersionFound
  BY <1>2 DEF VersionFound, EmptyInv, Reply, ramVars, linkVars, pastVars
<1>3. CASE VersionRenew
  BY <1>3 DEF VersionRenew, EEP!Begin, EmptyInv, Reply, ramVars, linkVars, pastVars
<1>4. CASE Format
  BY <1>4 DEF Format, EEP!Wipe, EmptyInv, Reply, ramVars, linkVars, pastVars
<1>5. CASE FormatVersion
  BY <1>5 DEF FormatVersion, EEP!Begin, EmptyInv, Reply, ramVars, linkVars, pastVars
<1>6. CASE VersionWritten
  BY <1>6 DEF VersionWritten, EEP!Put, EmptyInv, Reply, ramVars, linkVars, pastVars
<1>7. CASE Compact
  BY <1>7 DEF Compact, EEP!Compact, EmptyInv, Reply, ramVars, linkVars, pastVars
<1>8. CASE Tear
  BY <1>8 DEF Tear, EEP!Tear, EmptyInv, Reply, ramVars, linkVars, pastVars
<1>9. CASE WriteCmd
  BY <1>9 DEF WriteCmd, EmptyInv, Reply, ramVars, linkVars, pastVars
<1>10. CASE CmdGet
  BY <1>10 DEF CmdGet, Parses, EmptyInv, Reply, ramVars, linkVars, pastVars
<1>11. CASE CmdSetSame
  BY <1>11 DEF CmdSetSame, Parses, EmptyInv, Reply, ramVars, linkVars, pastVars
<1>12. CASE CmdSet
  BY <1>12 DEF CmdSet, Parses, EEP!Begin, EmptyInv, Reply, ramVars, linkVars, pastVars
<1>13. CASE CmdCfg
  BY <1>13 DEF CmdCfg, Parses, EEP!Begin, EmptyInv, Reply, ramVars, linkVars, pastVars
<1>14. CASE Saved
  BY <1>14 DEF Saved, EEP!Put, EmptyInv, Reply, ramVars, linkVars, pastVars
<1>15. CASE OtherEvent
  BY <1>15 DEF OtherEvent, EmptyInv, Reply, ramVars, linkVars, pastVars
<1>16. CASE OtherDone
  BY <1>16 DEF OtherDone, EmptyInv, Reply, ramVars, linkVars, pastVars
<1>17. ASSUME NEW h \in Hosts, Connect(h) PROVE EmptyInv'
  BY <1>17 DEF Connect, EmptyInv, Reply, ramVars, linkVars, pastVars
<1>18. ASSUME NEW p \in Packets, Receive(p) PROVE EmptyInv'
  BY <1>18 DEF Receive, EmptyInv, Reply, ramVars, linkVars, pastVars
<1>19. CASE LinkDown
  BY <1>19 DEF LinkDown, EmptyInv, Reply, ramVars, linkVars, pastVars
<1>20. CASE PowerLoss
  BY <1>20 DEF PowerLoss, EEP!Lose, EmptyInv, Reply, ramVars, linkVars, pastVars
<1>21. CASE Deliver
  BY <1>21 DEF Deliver, EmptyInv, Reply, ramVars, linkVars, pastVars
<1>22. CASE UNCHANGED devVars
  BY <1>22 DEF EmptyInv, Reply, ramVars, linkVars, pastVars, devVars
<1> QED
  BY <1>1, <1>2, <1>3, <1>4, <1>5, <1>6, <1>7, <1>8, <1>9, <1>10, <1>11, <1>12, <1>13, <1>14, <1>15, <1>16, <1>17, <1>18, <1>19, <1>20, <1>21, <1>22 DEF DevNext, DevStep


LEMMA VersionStep == SettingsInv /\ VersionInv /\ [DevNext]_devVars => VersionInv'
<1> SUFFICES ASSUME SettingsInv, VersionInv, [DevNext]_devVars PROVE VersionInv'
  OBVIOUS
<1> USE DEF SettingsInv
<1>1. CASE PowerOn
  BY <1>1 DEF PowerOn, VersionInv, Counting, KeptVersion, NewVersion, ToldVersions, VersionTells, Writing, ramVars, linkVars, pastVars
<1>2. CASE VersionFound
  BY <1>2 DEF VersionFound, Load, VersionInv, Counting, KeptVersion, NewVersion, ToldVersions, VersionTells, Writing, ramVars, linkVars, pastVars
<1>3. CASE VersionRenew
  BY <1>3 DEF VersionRenew, EEP!Begin, VersionInv, Counting, KeptVersion, NewVersion, ToldVersions, VersionTells, Writing, ramVars, linkVars, pastVars
<1>4. CASE Format
  BY <1>4 DEF Format, EEP!Wipe, VersionInv, Counting, KeptVersion, NewVersion, ToldVersions, VersionTells, Writing, ramVars, linkVars, pastVars
<1>5. CASE FormatVersion
  BY <1>5 DEF FormatVersion, EEP!Begin, VersionInv, Counting, KeptVersion, NewVersion, ToldVersions, VersionTells, Writing, ramVars, linkVars, pastVars
<1>6. CASE VersionWritten
  BY <1>6 DEF VersionWritten, EEP!Put, VersionInv, Counting, KeptVersion, NewVersion, ToldVersions, VersionTells, Writing, ramVars, linkVars, pastVars
<1>7. CASE Compact
  BY <1>7 DEF Compact, VersionInv, Counting
<1>8. CASE Tear
  BY <1>8 DEF Tear, EEP!Tear, VersionInv, Counting, KeptVersion, NewVersion, ToldVersions, VersionTells, Writing, ramVars, linkVars, pastVars
<1>9. CASE WriteCmd
  BY <1>9 DEF WriteCmd, VersionInv, Counting, KeptVersion, NewVersion, ToldVersions, VersionTells, Writing, ramVars, linkVars, pastVars
<1>10. CASE CmdGet
  <2> SUFFICES ASSUME Counting PROVE VersionInv'
    BY <1>10 DEF CmdGet, Parses, VersionInv, Counting, pastVars
  <2> USE <1>10 DEF CmdGet, Parses, VersionInv, Reply, ramVars, pastVars
  <2>1. sp = kept.sp /\ app = "idle"
    BY DEF StoreInv, ForceInv, Counting
  <2>2. KeptVersion' /\ NewVersion'
    BY <2>1 DEF KeptVersion, NewVersion, Writing
  <2>3. told' = told \/ told' = told \union {kept.sp}
    BY <2>1
  <2>4. ToldVersions'
    BY <2>3, Versions DEF ToldVersions
  <2>5. VersionTells'
    BY <2>3 DEF VersionTells, ToldVersions, Counting
  <2> QED BY <2>2, <2>4, <2>5
<1>11. CASE CmdSetSame
  <2> SUFFICES ASSUME Counting PROVE VersionInv'
    BY <1>11 DEF CmdSetSame, Parses, VersionInv, Counting, pastVars
  <2> USE <1>11 DEF CmdSetSame, Parses, VersionInv, Reply, ramVars, pastVars
  <2>1. sp = kept.sp /\ app = "idle"
    BY DEF StoreInv, ForceInv, Counting
  <2>2. KeptVersion' /\ NewVersion'
    BY <2>1 DEF KeptVersion, NewVersion, Writing
  <2>3. told' = told \/ told' = told \union {kept.sp}
    BY <2>1
  <2>4. ToldVersions'
    BY <2>3, Versions DEF ToldVersions
  <2>5. VersionTells'
    BY <2>3 DEF VersionTells, ToldVersions, Counting
  <2> QED BY <2>2, <2>4, <2>5
<1>12. CASE CmdSet
  <2> SUFFICES ASSUME Counting' PROVE VersionInv'
    BY DEF VersionInv
  <2> USE <1>12 DEF CmdSet, Parses, VersionInv
  <2>1. Counting /\ sp = kept.sp /\ changes' = changes + 1
    BY Versions, SettingsAssumption DEF StoreInv, ForceInv, Counting, SettingsInv
  <2>2. sp'.ver = sp.ver + 1
    <3>1. sp.ver <= changes /\ changes + 1 < VerMod
      BY <2>1 DEF KeptVersion, Counting
    <3>2. (sp.ver + 1) % VerMod = sp.ver + 1
      BY <3>1, Versions, SettingsAssumption DEF SettingsInv
    <3> QED BY <3>2 DEF NextVersion
  <2>3. KeptVersion' /\ NewVersion'
    BY <2>1, <2>2, Versions DEF KeptVersion, NewVersion, SettingsInv
  <2>4. ToldVersions' /\ VersionTells'
    BY <2>1 DEF ToldVersions, VersionTells, Counting
  <2> QED BY <2>3, <2>4
<1>13. CASE CmdCfg
  <2> SUFFICES ASSUME Counting PROVE VersionInv'
    BY <1>13 DEF CmdCfg, Parses, VersionInv, Counting
  <2> USE <1>13 DEF CmdCfg, Parses, VersionInv
  <2>1. ~ Writing(SP)' /\ kept'.sp = kept.sp /\ changes' = changes /\ told' = told
    BY DEF Writing, EEP!Begin, SP, CFG, SettingsInv, TypeInv, PastType
  <2> QED BY <2>1 DEF Counting, KeptVersion, NewVersion, ToldVersions, VersionTells
<1>14. CASE Saved
  <2> SUFFICES ASSUME Counting PROVE VersionInv'
    BY <1>14 DEF Saved, VersionInv, Counting
  <2> USE <1>14 DEF Saved, VersionInv, ramVars
  <2>1. app' = "idle" /\ changes' = changes /\ ~ Writing(SP)'
    BY DEF Writing
  <2>2. CASE wr.id = SP
    <3>1. /\ kept'.sp = sp /\ sp.ver > kept.sp.ver /\ sp.ver <= changes
          /\ told' = told \/ told' = told \union {sp}
      BY <2>2 DEF NewVersion, Writing, SettingsInv, TypeInv, PastType, Reply, SP, CFG
    <3>2. KeptVersion' /\ NewVersion'
      BY <2>1, <3>1 DEF KeptVersion, NewVersion
    <3>3. \A t \in told : t.ver < sp.ver
      BY <3>1, Versions DEF ToldVersions, SettingsInv
    <3>4. ToldVersions'
      BY <3>1, <3>3, Versions DEF ToldVersions, SettingsInv
    <3>5. VersionTells'
      BY <3>1, <3>3, Versions DEF VersionTells, Counting, SettingsInv
    <3> QED BY <3>2, <3>4, <3>5
  <2>3. CASE wr.id = CFG
    <3>1. kept'.sp = kept.sp /\ told' = told
      BY <2>3 DEF SettingsInv, TypeInv, PastType, SP, CFG
    <3> QED BY <2>1, <3>1 DEF Counting, KeptVersion, NewVersion, ToldVersions, VersionTells
  <2> QED BY <2>2, <2>3
<1>15. CASE OtherEvent
  BY <1>15 DEF OtherEvent, VersionInv, Counting, KeptVersion, NewVersion, ToldVersions, VersionTells, Writing, ramVars, linkVars, pastVars
<1>16. CASE OtherDone
  BY <1>16 DEF OtherDone, VersionInv, Counting, KeptVersion, NewVersion, ToldVersions, VersionTells, Writing, ramVars, linkVars, pastVars
<1>17. ASSUME NEW h \in Hosts, Connect(h) PROVE VersionInv'
  BY <1>17 DEF Connect, VersionInv, Counting, KeptVersion, NewVersion, ToldVersions, VersionTells, Writing, ramVars, linkVars, pastVars
<1>18. ASSUME NEW p \in Packets, Receive(p) PROVE VersionInv'
  BY <1>18 DEF Receive, VersionInv, Counting, KeptVersion, NewVersion, ToldVersions, VersionTells, Writing, ramVars, linkVars, pastVars
<1>19. CASE LinkDown
  BY <1>19 DEF LinkDown, VersionInv, Counting, KeptVersion, NewVersion, ToldVersions, VersionTells, Writing, ramVars, linkVars, pastVars
<1>20. CASE PowerLoss
  <2> SUFFICES ASSUME Counting' PROVE VersionInv'
    BY DEF VersionInv
  <2> USE <1>20 DEF PowerLoss, VersionInv
  <2>1. Counting /\ told' = told /\ kept' = kept /\ changes' = changes /\ ~ Writing(SP)'
    BY DEF Counting, Writing
  <2> QED BY <2>1 DEF Counting, KeptVersion, NewVersion, ToldVersions, VersionTells
<1>21. CASE Deliver
  BY <1>21 DEF Deliver, VersionInv, Counting, KeptVersion, NewVersion, ToldVersions, VersionTells, Writing, ramVars, linkVars, pastVars
<1>22. CASE UNCHANGED devVars
  BY <1>22 DEF VersionInv, Counting, KeptVersion, NewVersion, ToldVersions, VersionTells, Writing, ramVars, linkVars, pastVars, devVars
<1> QED
  BY <1>1, <1>2, <1>3, <1>4, <1>5, <1>6, <1>7, <1>8, <1>9, <1>10, <1>11, <1>12, <1>13, <1>14, <1>15, <1>16, <1>17, <1>18, <1>19, <1>20, <1>21, <1>22 DEF DevNext, DevStep

-----------------------------------------------------------------------------
LEMMA SettingsInvInit == DevInit => SettingsInv /\ EmptyInv /\ VersionInv
<1> SUFFICES ASSUME DevInit PROVE SettingsInv /\ EmptyInv /\ VersionInv
  OBVIOUS
<1>1. TypeInv
  BY TypeInit
<1>2. PhaseInv /\ TestedInv
  BY DEF DevInit, EEP!StoreInit, PhaseInv, TestedInv
<1>3. StoreInv
  BY Defaults DEF DevInit, EEP!StoreInit, StoreInv, KeptInv, SpInv, CfgInv, VerInv, ForceInv,
                  NoneStored, Writing, SP, CFG, VER
<1>4. EmptyInv /\ VersionInv
  BY Defaults DEF DevInit, EmptyInv, VersionInv, KeptVersion, NewVersion, ToldVersions, VersionTells, Writing
<1> QED
  BY <1>1, <1>2, <1>3, <1>4 DEF SettingsInv

LEMMA SettingsInvStep == SettingsInv /\ [DevNext]_devVars => SettingsInv'
BY TypeStep, PhaseStep, TestedStep, StoreStep DEF SettingsInv

LEMMA Invariant == DevSpec => [](SettingsInv /\ EmptyInv /\ VersionInv)
<1>1. SettingsInv /\ EmptyInv /\ [DevNext]_devVars => EmptyInv'
  BY EmptyStep DEF SettingsInv
<1> QED
  BY <1>1, SettingsInvInit, SettingsInvStep, VersionStep, PTL DEF DevSpec

(* After any start and between commands the device goes by what it saved   *)
(* last, for any number of commands, losses of power and clients.          *)
THEOREM SettingsComeUpAsSaved == DevSpec => []UpAsSaved
<1>1. SettingsInv => UpAsSaved
  BY DEF SettingsInv, StoreInv, ForceInv, UpAsSaved
<1> QED
  BY <1>1, Invariant, PTL

(* Answers with one version carry one setpoint, for any width of the       *)
(* counter, until it has gone round.                                       *)
THEOREM VersionIdentifies == DevSpec => []VersionTells
<1>1. EmptyInv /\ VersionInv => VersionTells
  BY DEF EmptyInv, VersionInv, Counting, VersionTells
<1> QED
  BY <1>1, Invariant, PTL

-----------------------------------------------------------------------------
(* The script and the page are clients of the device: they send only       *)
(* commands of the device's Packets.                                       *)
Phases == {"done", "connect", "set", "setRsp", "get", "getRsp", "wait", "leave"}

Runs == [kind : {"get", "set", "cfg"}, arg : Int, cfg : Cfgs, phase : Phases, tries : Nat]

Sound(r) ==
    /\ r.kind = "set" => r.arg \in Asked
    /\ r.kind = "cfg" => r.cfg \in CfgRequests
    /\ r.phase = "set" => r.kind # "get"

RunType == run \in [Hosts -> Runs]

RunInv == \A h \in Hosts : Sound(run[h])

HostInv == RunType /\ RunInv

LEMMA IdleType ==
    /\ Idle \in Runs /\ Sound(Idle)
    /\ Idle.kind = "get" /\ Idle.phase = "done"
BY Defaults DEF Idle, Phases, Runs, Sound

(* A host's run is replaced by a sound one.                                *)
LEMMA RunReplaced ==
    ASSUME HostInv, NEW h \in Hosts, NEW r \in Runs, Sound(r), run' = [run EXCEPT ![h] = r]
    PROVE  HostInv'
<1>1. RunType'
  BY DEF HostInv, RunType
<1>2. \A g \in Hosts : run'[g] = IF g = h THEN r ELSE run[g]
  BY DEF HostInv, RunType
<1>3. RunInv'
  BY <1>2 DEF HostInv, RunInv
<1> QED
  BY <1>1, <1>3 DEF HostInv

LEMMA HostInvInit == ScriptInit => HostInv
BY IdleType DEF ScriptInit, HostInv, RunType, RunInv

LEMMA PhaseKeeps ==
    ASSUME HostInv, NEW h \in Hosts, NEW p \in Phases, Phase(h, p),
           p = "set" => run[h].kind # "get"
    PROVE  HostInv'
<1> DEFINE r == [run[h] EXCEPT !.phase = p]
<1>1. run[h] \in Runs /\ Sound(run[h])
  BY DEF HostInv, RunType, RunInv
<1>2. r \in Runs /\ Sound(r)
  BY <1>1 DEF Runs, Sound
<1>3. run' = [run EXCEPT ![h] = r]
  BY DEF Phase
<1> HIDE DEF r
<1> QED
  BY <1>2, <1>3, RunReplaced

LEMMA AgainKeeps == ASSUME HostInv, NEW h \in Hosts, Again(h) PROVE HostInv'
<1> DEFINE r == [run[h] EXCEPT !.phase = "connect", !.tries = run[h].tries + 1]
<1>1. run[h] \in Runs /\ Sound(run[h])
  BY DEF HostInv, RunType, RunInv
<1>2. r \in Runs /\ Sound(r)
  <2>1. run[h].tries + 1 \in Nat
    BY <1>1 DEF Runs
  <2> QED BY <1>1, <2>1 DEF Runs, Sound, Phases
<1>3. CASE run[h].tries < Retries
  <2>1. run' = [run EXCEPT ![h] = r]
    BY <1>3 DEF Again
  <2> HIDE DEF r
  <2> QED BY <1>2, <2>1, RunReplaced
<1>4. CASE ~ (run[h].tries < Retries)
  <2>1. run' = [run EXCEPT ![h] = Idle]
    BY <1>4 DEF Again
  <2> QED BY <2>1, IdleType, RunReplaced
<1> QED
  BY <1>3, <1>4

LEMMA HostInvStep == HostInv /\ [ScriptNext]_allVars => HostInv'
<1> SUFFICES ASSUME HostInv, [ScriptNext]_allVars PROVE HostInv'
  OBVIOUS
<1>1. CASE UNCHANGED run
  BY <1>1 DEF HostInv, RunType, RunInv
<1>2. ASSUME NEW h \in Hosts, HostNext(h) PROVE HostInv'
  <2>1. CASE Start(h)
    <3> DEFINE new == [Idle EXCEPT !.phase = "connect", !.tries = 1]
               Set(a) == [new EXCEPT !.kind = "set", !.arg = a]
               Save(c) == [new EXCEPT !.kind = "cfg", !.cfg = c]
    <3>1. new \in Runs /\ new.kind = "get" /\ new.phase = "connect" /\ Sound(new)
      BY IdleType DEF Phases, Runs, Sound
    <3>2. \/ run' = [run EXCEPT ![h] = new]
          \/ \E a \in Asked : run' = [run EXCEPT ![h] = Set(a)]
          \/ \E c \in CfgRequests : run' = [run EXCEPT ![h] = Save(c)]
      BY <2>1, Zenon DEF Start
    <3> HIDE DEF new
    <3>3. ASSUME NEW a \in Asked PROVE Set(a) \in Runs /\ Sound(Set(a))
      <4>1. a \in Int
        BY ScriptAssumption
      <4> QED BY <3>1, <4>1 DEF Runs, Sound
    <3>4. ASSUME NEW c \in CfgRequests PROVE Save(c) \in Runs /\ Sound(Save(c))
      <4>1. c \in Cfgs
        BY SettingsAssumption
      <4> QED BY <3>1, <4>1 DEF Runs, Sound
    <3> HIDE DEF Set, Save
    <3> QED BY <3>1, <3>2, <3>3, <3>4, RunReplaced
  <2>2. CASE HostConnect(h)
    BY <2>2, PhaseKeeps DEF HostConnect, Phases
  <2>3. CASE WriteSet(h) \/ WriteGet(h) \/ GetAccepted(h) \/ ReadState(h)
    BY <2>3, PhaseKeeps DEF WriteSet, WriteGet, GetAccepted, ReadState, Phases
  <2>4. CASE SetAccepted(h)
    BY <2>4, PhaseKeeps DEF SetAccepted, Phases
  <2>5. CASE LinkLost(h) \/ Unreachable(h)
    BY <2>5, AgainKeeps DEF LinkLost, Unreachable
  <2>6. CASE Leave(h)
    BY <2>6, IdleType, RunReplaced DEF Leave
  <2> QED
    BY <1>2, <2>1, <2>2, <2>3, <2>4, <2>5, <2>6 DEF HostNext
<1> QED
  BY <1>1, <1>2 DEF ScriptNext, allVars, hostVars

LEMMA PayloadIsPacket ==
    ASSUME HostInv, NEW h \in Hosts, run[h].phase = "set"
    PROVE  Payload(h) \in Packets
<1>1. CASE run[h].kind = "cfg"
  BY <1>1 DEF HostInv, RunInv, Sound, Payload, Packets
<1>2. CASE run[h].kind = "set"
  <2>1. run[h].arg % 256 \in Requests
    BY <1>2, ScriptAssumption DEF HostInv, RunInv, Sound
  <2> QED BY <1>2, <2>1 DEF Payload, Packets
<1> QED
  BY <1>1, <1>2 DEF HostInv, RunType, RunInv, Runs, Sound

(* Every step of the script and the page is a step of the device with some *)
(* client, or none of the device: what holds of the device with any        *)
(* clients holds with these.                                               *)
THEOREM ScriptIsClient == ScriptSpec => DevSpec
<1>1. ScriptInit => DevInit
  BY DEF ScriptInit
<1>2. HostInv /\ [ScriptNext]_allVars => [DevNext]_devVars
  <2> SUFFICES ASSUME HostInv, [ScriptNext]_allVars PROVE [DevNext]_devVars
    OBVIOUS
  <2>1. CASE DevStep \/ PowerLoss \/ UNCHANGED allVars
    BY <2>1 DEF DevNext, allVars
  <2>2. ASSUME NEW h \in Hosts, HostNext(h) PROVE [DevNext]_devVars
    <3>1. CASE HostConnect(h)
      BY <3>1 DEF HostConnect, DevNext
    <3>2. CASE WriteSet(h)
      BY <3>2, PayloadIsPacket DEF WriteSet, DevNext
    <3>3. CASE WriteGet(h)
      BY <3>3 DEF WriteGet, DevNext, Packets
    <3>4. CASE ReadState(h)
      BY <3>4 DEF ReadState, DevNext
    <3>5. CASE LinkLost(h) \/ Leave(h)
      BY <3>5 DEF LinkLost, Leave, DevNext
    <3>6. CASE Start(h) \/ SetAccepted(h) \/ GetAccepted(h) \/ Unreachable(h)
      BY <3>6 DEF Start, SetAccepted, GetAccepted, Unreachable
    <3> QED
      BY <2>2, <3>1, <3>2, <3>3, <3>4, <3>5, <3>6 DEF HostNext
  <2> QED
    BY <2>1, <2>2 DEF ScriptNext
<1> QED
  BY <1>1, <1>2, HostInvInit, HostInvStep, PTL DEF ScriptSpec, DevSpec
-----------------------------------------------------------------------------
(* What a host prints. The queue of notifications belongs to the link: it  *)
(* is empty when a host connects, and holds only what was in force since.  *)
UpWhileLinked == link # NoHost => app \in {"idle", "busy", "saving"} /\ sp.val \in held

EmptyWithoutLink == link = NoHost => out = <<>> /\ rx = NoPacket

OutWasHeld == \A i \in 1..Len(out) : out[i].val \in held

LinkInv == UpWhileLinked /\ EmptyWithoutLink /\ OutWasHeld

(* The SET of an attempt, p, from before it is written: nothing of another *)
(* command is under way ...                                                *)
Fresh == rx = NoPacket /\ ~ cmdEvt /\ out = <<>> /\ app \in {"idle", "busy"}

(* ... to where it waits for its parser, if the GET did not take its place *)
(* in the buffer ...                                                       *)
Pending(p) ==
    /\ out = <<>> /\ app \in {"idle", "busy"}
    /\ \/ rx = p /\ ~ cmdEvt
       \/ cmdEvt /\ buf = p /\ (rx = NoPacket \/ rx.cmd = "get")

(* ... and to its effect: only its value is in force and in the queue.     *)
Done(p) ==
    /\ sp.val = Clamp(p.val)
    /\ \A i \in 1..Len(out) : out[i].val = Clamp(p.val)
    /\ cmdEvt => buf.cmd = "get"
    /\ rx = NoPacket \/ rx.cmd = "get"

SetPacket(h) == Packet("set", run[h].arg % 256, DefCfg)

Attempt(h) ==
    link = h /\ run[h].kind = "set" /\ ~ lost =>
        /\ run[h].phase = "set" => Fresh
        /\ run[h].phase \in {"setRsp", "get", "getRsp", "wait"} =>
              Pending(SetPacket(h)) \/ Done(SetPacket(h))

AttemptInv == \A h \in Hosts : Attempt(h)

LEMMA ReplyOut ==
    ASSUME NEW s \in Setpoints, PastType, Reply(s)
    PROVE  /\ out' \in Seq(Setpoints)
           /\ \/ out' = out
              \/ /\ link # NoHost
                 /\ Len(out') = Len(out) + 1
                 /\ \A i \in 1..Len(out') :
                       out'[i] = IF i = Len(out) + 1 THEN s ELSE out[i]
<1>1. out \in Seq(Setpoints)
  BY DEF PastType
<1>2. CASE UNCHANGED out
  BY <1>1, <1>2
<1>3. CASE link # NoHost /\ out' = Append(out, s)
  BY <1>1, <1>3
<1> QED
  BY <1>2, <1>3 DEF Reply

(* What holds of an answer's value and of all in the queue holds after it. *)
LEMMA ReplyKeeps ==
    ASSUME NEW s \in Setpoints, PastType, Reply(s), NEW V,
           s.val \in V, \A i \in 1..Len(out) : out[i].val \in V
    PROVE  \A i \in 1..Len(out') : out'[i].val \in V
<1>1. out \in Seq(Setpoints) /\ Len(out) \in Nat
  BY DEF PastType
<1>2. CASE out' = out
  BY <1>2
<1>3. CASE /\ Len(out') = Len(out) + 1
           /\ \A i \in 1..Len(out') : out'[i] = IF i = Len(out) + 1 THEN s ELSE out[i]
  BY <1>1, <1>3
<1> QED
  BY <1>2, <1>3, ReplyOut

LEMMA DeliverKeeps ==
    ASSUME PastType, Deliver, NEW V, \A i \in 1..Len(out) : out[i].val \in V
    PROVE  /\ \A i \in 1..Len(out') : out'[i].val \in V
           /\ Head(out).val \in V
<1>1. out \in Seq(Setpoints) /\ Len(out) \in Nat /\ out # <<>> /\ out' = Tail(out)
  BY DEF PastType, Deliver
<1>2. /\ Len(out') = Len(out) - 1 /\ Len(out) >= 1
      /\ \A i \in 1..Len(out') : out'[i] = out[i + 1]
      /\ Head(out) = out[1]
  BY <1>1
<1> QED
  BY <1>1, <1>2

LEMMA LinkInvInit == DevInit => LinkInv
BY SettingsAssumption DEF DevInit, LinkInv, UpWhileLinked, EmptyWithoutLink, OutWasHeld

LEMMA LinkInvStep == TypeInv /\ LinkInv /\ [DevNext]_devVars => LinkInv'
<1> SUFFICES ASSUME TypeInv, LinkInv, [DevNext]_devVars PROVE LinkInv'
  OBVIOUS
<1>t. sp \in Setpoints /\ PastType /\ out \in Seq(Setpoints)
  BY DEF TypeInv, RamType, PastType
<1>1. CASE /\ app' \in {"idle", "busy", "saving"} \/ link = NoHost
           /\ sp' = sp \/ link = NoHost
           /\ UNCHANGED <<link, held, out>>
           /\ rx' = rx \/ rx' = NoPacket \/ link # NoHost
  BY <1>1 DEF LinkInv, UpWhileLinked, EmptyWithoutLink, OutWasHeld
<1>2. CASE PowerOn \/ VersionFound \/ VersionRenew \/ Format \/ FormatVersion \/ VersionWritten
  <2>1. link = NoHost
    BY <1>2 DEF PowerOn, VersionFound, VersionRenew, Format, FormatVersion, VersionWritten,
                LinkInv, UpWhileLinked
  <2>2. UNCHANGED <<link, held, out, rx>>
    BY <1>2 DEF PowerOn, VersionFound, VersionRenew, Format, FormatVersion, VersionWritten, linkVars
  <2> QED BY <1>1, <2>1, <2>2
<1>3. CASE Compact \/ Tear \/ OtherEvent \/ OtherDone
  BY <1>1, <1>3 DEF Compact, Tear, OtherEvent, OtherDone, ramVars, linkVars,
                    LinkInv, UpWhileLinked
<1>4. CASE WriteCmd
  BY <1>1, <1>4 DEF WriteCmd, ramVars
<1>5. CASE CmdCfg
  BY <1>1, <1>5 DEF CmdCfg, Parses
<1>6. ASSUME Reply(sp), UNCHANGED <<link, held, rx, sp>>, app' = "idle"
      PROVE  LinkInv'
  <2>1. CASE UNCHANGED out
    BY <1>1, <1>6, <2>1
  <2>2. CASE link # NoHost
    <3>1. \A i \in 1..Len(out') : out'[i].val \in held
      BY <1>6, <1>t, <2>2, ReplyKeeps DEF LinkInv, UpWhileLinked, OutWasHeld
    <3> QED BY <1>6, <2>2, <3>1 DEF LinkInv, UpWhileLinked, EmptyWithoutLink, OutWasHeld
  <2> QED BY <1>6, <2>1, <2>2 DEF Reply
<1>7. CASE CmdGet \/ CmdSetSame
  BY <1>6, <1>7 DEF CmdGet, CmdSetSame, Parses, ramVars
<1>8. CASE CmdSet
  <2>1. UNCHANGED <<link, rx, out>> /\ app' = "saving" /\ held' = held \union {sp'.val}
    BY <1>8 DEF CmdSet, Parses
  <2> QED BY <2>1 DEF LinkInv, UpWhileLinked, EmptyWithoutLink, OutWasHeld
<1>9. CASE Saved
  BY <1>1, <1>6, <1>9 DEF Saved, ramVars, linkVars
<1>10. ASSUME NEW h \in Hosts, Connect(h) PROVE LinkInv'
  <2>1. out' = <<>> /\ link' = h /\ held' = {sp'.val} /\ app' = "idle"
    BY <1>10 DEF Connect, ramVars, LinkInv, EmptyWithoutLink
  <2>2. h # NoHost
    BY SettingsAssumption
  <2> QED BY <2>1, <2>2 DEF LinkInv, UpWhileLinked, EmptyWithoutLink, OutWasHeld
<1>11. ASSUME NEW p \in Packets, Receive(p) PROVE LinkInv'
  BY <1>1, <1>11 DEF Receive, ramVars
<1>12. CASE LinkDown \/ PowerLoss
  <2>1. link' = NoHost /\ out' = <<>> /\ rx' = NoPacket
    BY <1>12 DEF LinkDown, PowerLoss
  <2> QED BY <2>1 DEF LinkInv, UpWhileLinked, EmptyWithoutLink, OutWasHeld
<1>13. CASE Deliver
  <2>1. \A i \in 1..Len(out') : out'[i].val \in held
    BY <1>13, <1>t, DeliverKeeps DEF LinkInv, OutWasHeld
  <2>2. UNCHANGED <<link, held, rx, sp, app>> /\ out # <<>>
    BY <1>13 DEF Deliver, linkVars, ramVars
  <2> QED BY <2>1, <2>2 DEF LinkInv, UpWhileLinked, EmptyWithoutLink, OutWasHeld
<1>14. CASE UNCHANGED devVars
  BY <1>14 DEF devVars, LinkInv, UpWhileLinked, EmptyWithoutLink, OutWasHeld
<1> QED
  BY <1>2, <1>3, <1>4, <1>5, <1>7, <1>8, <1>9, <1>10, <1>11, <1>12, <1>13, <1>14 DEF DevNext, DevStep

LEMMA LinkInvariant == DevSpec => [](TypeInv /\ LinkInv)
BY TypeInit, TypeStep, LinkInvInit, LinkInvStep, PTL DEF DevSpec

LEMMA HostInvariant == ScriptSpec => []HostInv
BY HostInvInit, HostInvStep, PTL DEF ScriptSpec

(* A host prints only as it takes a notification.                          *)
LEMMA PrintsReads ==
    ASSUME HostInv, [ScriptNext]_allVars, NEW h \in Hosts, Prints(h)
    PROVE  ReadState(h) /\ link = h
<1>1. run \in [Hosts -> Runs]
  BY DEF HostInv, RunType
<1>2. run' # run
  BY DEF Prints
<1>3. PICK g \in Hosts : HostNext(g)
  BY <1>2 DEF ScriptNext, allVars, hostVars
<1>4. g = h
  <2>1. \E r : run' = [run EXCEPT ![g] = r]
    BY <1>2, <1>3, Zenon DEF HostNext, Start, HostConnect, WriteSet, SetAccepted, WriteGet, GetAccepted,
                ReadState, LinkLost, Unreachable, Leave, Phase, Again
  <2> QED BY <1>1, <2>1 DEF Prints
<1>5. ~ Again(h)
  <2> SUFFICES ASSUME Again(h) PROVE FALSE
    OBVIOUS
  <2>1. CASE run[h].tries < Retries
    <3>1. run'[h] = [run[h] EXCEPT !.phase = "connect", !.tries = run[h].tries + 1]
      BY <1>1, <2>1 DEF Again
    <3>2. run'[h].phase = "connect"
      BY <1>1, <3>1 DEF Runs
    <3> QED BY <3>2 DEF Prints
  <2>2. CASE ~ (run[h].tries < Retries)
    BY <1>1, <2>2, IdleType DEF Again, Prints
  <2> QED BY <2>1, <2>2
<1> QED
  BY <1>1, <1>3, <1>4, <1>5 DEF Prints, HostNext, Start, HostConnect, WriteSet, SetAccepted, WriteGet,
     GetAccepted, ReadState, LinkLost, Unreachable, Leave, Phase

(* What a host prints was in force during its own connection, whatever     *)
(* other hosts set, and however often it tried.                            *)
THEOREM WhatIsPrintedWasTrue == ScriptSpec => PrintedWasTrue
<1>1. TypeInv /\ LinkInv /\ HostInv /\ [ScriptNext]_allVars
        => [\A h \in Hosts : Prints(h) => Head(out).val \in held]_allVars
  <2> SUFFICES ASSUME TypeInv, LinkInv, HostInv, [ScriptNext]_allVars,
                      NEW h \in Hosts, Prints(h)
               PROVE  Head(out).val \in held
    OBVIOUS
  <2>1. Deliver
    BY PrintsReads DEF ReadState
  <2> QED BY <2>1, DeliverKeeps DEF TypeInv, LinkInv, OutWasHeld
<1> QED
  BY <1>1, ScriptIsClient, LinkInvariant, HostInvariant, PTL DEF ScriptSpec, PrintedWasTrue

(* The parser's value of a SET, of any byte, is the nearest legal one.     *)
LEMMA ClampIsNearest == \A a \in 0..255 : Nearest(Clamp(a), a)
BY DEF Nearest, Distance, Clamp, SETPOINT_C_X2_MIN, SETPOINT_C_X2_MAX

(* What the device does on its own brings an attempt's SET on its way, and *)
(* no further than into force.                                             *)
LEMMA FreshStep ==
    ASSUME TypeInv, LinkInv, Fresh, DevStep, link # NoHost
    PROVE  Fresh'
<1>1. app \in {"idle", "busy"} /\ rx = NoPacket /\ ~ cmdEvt /\ out = <<>>
  BY DEF Fresh
<1>2. OtherEvent \/ OtherDone \/ Compact \/ Tear
  BY <1>1 DEF DevStep, PowerOn, VersionFound, VersionRenew, Format, FormatVersion, VersionWritten,
              WriteCmd, CmdGet, CmdSetSame, CmdSet, CmdCfg, Saved, Parses
<1> QED
  BY <1>1, <1>2 DEF Fresh, OtherEvent, OtherDone, Compact, Tear, linkVars

LEMMA PendingStep ==
    ASSUME TypeInv, PhaseInv, LinkInv, NEW a \in 0..255, DevStep, link # NoHost, ~ lost',
           NEW p, p = Packet("set", a, DefCfg), Pending(p)
    PROVE  Pending(p)' \/ Done(p)'
<1>1. app \in {"idle", "busy"} /\ out = <<>> /\ p.cmd = "set" /\ p.val = a
  BY DEF Pending, Packet
<1>2. wr = NoWrite
  BY <1>1 DEF PhaseInv
<1>3. sp \in Setpoints /\ PastType /\ out \in Seq(Setpoints)
  BY DEF TypeInv, RamType, PastType
<1>4. CASE OtherEvent \/ OtherDone
  BY <1>1, <1>4 DEF Pending, OtherEvent, OtherDone, linkVars
<1>5. CASE WriteCmd
  <2>1. ~ cmdEvt /\ rx = p
    BY <1>5 DEF WriteCmd, Pending
  <2> QED BY <1>1, <1>5, <2>1 DEF WriteCmd, Pending
<1>6. CASE CmdGet \/ CmdCfg
  BY <1>1, <1>6 DEF CmdGet, CmdCfg, Parses, Pending
<1>7. CASE CmdSetSame
  <2>1. buf = p /\ rx = NoPacket /\ ~ cmdEvt' /\ rx' = rx
    BY <1>7 DEF CmdSetSame, Parses, Pending
  <2>2. sp' = sp /\ sp.val = Clamp(p.val) /\ Reply(sp)
    BY <1>7, <2>1 DEF CmdSetSame, ramVars
  <2>3. sp.val \in {Clamp(p.val)} /\ \A i \in 1..Len(out) : out[i].val \in {Clamp(p.val)}
    BY <1>1, <2>2
  <2>4. \A i \in 1..Len(out') : out'[i].val \in {Clamp(p.val)}
    BY <1>3, <2>2, <2>3, ReplyKeeps
  <2> QED BY <2>1, <2>2, <2>4 DEF Done
<1>8. CASE CmdSet
  <2>1. buf = p /\ rx = NoPacket /\ ~ cmdEvt' /\ rx' = rx /\ out' = <<>>
    BY <1>1, <1>8 DEF CmdSet, Parses, Pending
  <2>2. sp'.val = Clamp(p.val)
    BY <1>8, <2>1 DEF CmdSet
  <2> QED BY <2>1, <2>2 DEF Done
<1> QED
  BY <1>1, <1>2, <1>4, <1>5, <1>6, <1>7, <1>8
     DEF DevStep, PowerOn, VersionFound, VersionRenew, Format, FormatVersion, VersionWritten, Saved,
         Compact, Tear, EEP!Compact, EEP!Tear

LEMMA DoneStep ==
    ASSUME TypeInv, LinkInv, DevStep, link # NoHost, NEW p, Done(p)
    PROVE  Done(p)'
<1>1. sp \in Setpoints /\ PastType /\ app \in {"idle", "busy", "saving"}
  BY DEF TypeInv, RamType, LinkInv, UpWhileLinked
<1>2. CASE OtherEvent \/ OtherDone \/ Compact \/ Tear
  BY <1>2 DEF Done, OtherEvent, OtherDone, Compact, Tear, linkVars, ramVars
<1>3. CASE WriteCmd
  BY <1>3 DEF Done, WriteCmd, ramVars
<1>4. CASE CmdGet \/ (Saved /\ Reply(sp))
  <2>1. Reply(sp) /\ sp' = sp /\ rx' = rx /\ (cmdEvt' => cmdEvt) /\ buf' = buf
    BY <1>4 DEF CmdGet, Saved, Parses, ramVars, linkVars
  <2>2. \A i \in 1..Len(out') : out'[i].val \in {Clamp(p.val)}
    BY <1>1, <2>1, ReplyKeeps DEF Done
  <2> QED BY <2>1, <2>2 DEF Done
<1>5. CASE Saved /\ UNCHANGED out
  BY <1>5 DEF Done, Saved, ramVars, linkVars
<1>6. ~ CmdSetSame /\ ~ CmdSet /\ ~ CmdCfg
  BY DEF CmdSetSame, CmdSet, CmdCfg, Parses, Done
<1> QED
  BY <1>1, <1>2, <1>3, <1>4, <1>5, <1>6
     DEF DevStep, PowerOn, VersionFound, VersionRenew, Format, FormatVersion, VersionWritten, Saved

LEMMA DeviceKeepsLink ==
    DevStep => link' = link /\ (lost => lost')
<1>1. CASE WriteCmd
  <2>1. link' = link
    BY <1>1 DEF WriteCmd
  <2>2. lost => lost'
    BY <1>1, Zenon DEF WriteCmd
  <2> QED BY <2>1, <2>2
<1>2. ASSUME DevStep, ~ WriteCmd PROVE link' = link /\ lost' = lost
  BY <1>2 DEF DevStep, PowerOn, VersionFound, VersionRenew, Format, FormatVersion, VersionWritten,
              Compact, Tear, CmdGet, CmdSetSame, CmdSet, CmdCfg, Saved, OtherEvent, OtherDone,
              Parses, linkVars
<1> QED
  BY <1>1, <1>2

LEMMA PhaseOf ==
    ASSUME HostInv, NEW h \in Hosts, NEW p \in Phases, Phase(h, p)
    PROVE  /\ run'[h].phase = p /\ run'[h].kind = run[h].kind /\ run'[h].arg = run[h].arg
           /\ SetPacket(h)' = SetPacket(h)
<1>1. run[h] \in Runs /\ run' = [run EXCEPT ![h].phase = p]
  BY DEF HostInv, RunType, Phase
<1>2. run'[h] = [run[h] EXCEPT !.phase = p]
  BY <1>1 DEF HostInv, RunType
<1>3. run'[h].phase = p /\ run'[h].kind = run[h].kind /\ run'[h].arg = run[h].arg
  BY <1>1, <1>2 DEF Runs
<1> QED
  BY <1>3 DEF SetPacket

(* A step that leaves an attempt on its way, and the device as it was.     *)
LEMMA AttemptKept ==
    ASSUME NEW h \in Hosts, Attempt(h), UNCHANGED devVars,
           run'[h].kind = run[h].kind, SetPacket(h)' = SetPacket(h),
           \/ run'[h].phase = run[h].phase
           \/ /\ run[h].phase \in {"setRsp", "get", "getRsp", "wait"}
              /\ run'[h].phase \in {"get", "wait"}
    PROVE  Attempt(h)'
<1>1. /\ Fresh' = Fresh
      /\ Pending(SetPacket(h))' = Pending(SetPacket(h))
      /\ Done(SetPacket(h))' = Done(SetPacket(h))
  BY DEF Fresh, Pending, Done, devVars
<1>2. link' = link /\ lost' = lost
  BY DEF devVars
<1> QED
  BY <1>1, <1>2 DEF Attempt

LEMMA OwnStep ==
    ASSUME HostInv, TypeInv, LinkInv, NEW h \in Hosts, Attempt(h), HostNext(h)
    PROVE  Attempt(h)'
<1> SUFFICES ASSUME link' = h, run'[h].kind = "set", ~ lost' PROVE Attempt(h)'
  BY DEF Attempt
<1>h. h # NoHost
  BY SettingsAssumption
<1>1. CASE Start(h) \/ ReadState(h) \/ Leave(h) \/ Unreachable(h) \/ LinkLost(h)
  <2>1. CASE Start(h)
    <3> DEFINE new == [Idle EXCEPT !.phase = "connect", !.tries = 1]
               Set(a) == [new EXCEPT !.kind = "set", !.arg = a]
               Save(c) == [new EXCEPT !.kind = "cfg", !.cfg = c]
    <3>1. new \in Runs /\ new.phase = "connect"
      BY IdleType DEF Phases, Runs
    <3>2. \/ run'[h] = new
          \/ \E a \in Asked : run'[h] = Set(a)
          \/ \E c \in CfgRequests : run'[h] = Save(c)
      <4>1. \/ run' = [run EXCEPT ![h] = new]
            \/ \E a \in Asked : run' = [run EXCEPT ![h] = Set(a)]
            \/ \E c \in CfgRequests : run' = [run EXCEPT ![h] = Save(c)]
        BY <2>1, Zenon DEF Start
      <4> HIDE DEF new, Set, Save
      <4> QED BY <4>1 DEF HostInv, RunType
    <3> HIDE DEF new
    <3>3. ASSUME NEW a PROVE Set(a).phase = "connect"
      BY <3>1 DEF Runs
    <3>4. ASSUME NEW c PROVE Save(c).phase = "connect"
      BY <3>1 DEF Runs
    <3> HIDE DEF Set, Save
    <3>5. run'[h].phase = "connect"
      BY <3>1, <3>2, <3>3, <3>4
    <3> QED BY <3>5 DEF Attempt
  <2>2. CASE ReadState(h)
    <3>1. run'[h].phase = "leave"
      BY <2>2, PhaseOf DEF ReadState, Phases
    <3> QED BY <3>1 DEF Attempt
  <2>3. ~ Leave(h)
    BY <1>h DEF Leave, LinkDown, devVars
  <2>4. ~ Unreachable(h) /\ ~ LinkLost(h)
    BY <1>h DEF Unreachable, LinkLost, LinkDown, devVars
  <2> QED BY <1>1, <2>1, <2>2, <2>3, <2>4
<1>2. CASE HostConnect(h)
  <2>1. run'[h].phase \in {"get", "set"} /\ run'[h].kind = run[h].kind
        /\ (run[h].kind # "get" => run'[h].phase = "set")
    BY <1>2, PhaseOf DEF HostConnect, Phases
  <2>2. Fresh'
    BY <1>2 DEF HostConnect, Connect, Fresh, LinkInv, EmptyWithoutLink
  <2> QED BY <2>1, <2>2 DEF Attempt
<1>3. CASE WriteSet(h)
  <2>1. run'[h].phase = "setRsp" /\ run[h].kind = "set" /\ SetPacket(h)' = SetPacket(h)
    BY <1>3, PhaseOf DEF WriteSet, Phases
  <2>2. Fresh /\ rx' = SetPacket(h) /\ UNCHANGED <<out, app, cmdEvt>>
    BY <1>3, <2>1 DEF WriteSet, Receive, Attempt, Payload, SetPacket
  <2>3. rx' = SetPacket(h)' /\ out' = <<>> /\ app' \in {"idle", "busy"} /\ ~ cmdEvt'
    BY <2>1, <2>2 DEF Fresh
  <2>4. Pending(SetPacket(h))'
    BY <2>3 DEF Pending
  <2> QED BY <2>1, <2>4 DEF Attempt
<1>4. CASE SetAccepted(h)
  <2>1. run'[h].kind = run[h].kind /\ run'[h].phase \in {"leave", "get"}
        /\ SetPacket(h)' = SetPacket(h) /\ UNCHANGED devVars
    BY <1>4, PhaseOf DEF SetAccepted, Phases
  <2>2. CASE run'[h].phase = "leave"
    BY <2>2 DEF Attempt
  <2> QED BY <1>4, <2>1, <2>2, AttemptKept DEF SetAccepted
<1>5. CASE WriteGet(h)
  <2> DEFINE get == Packet("get", 0, DefCfg)
  <2>1. run'[h].phase = "getRsp" /\ run[h].kind = "set" /\ SetPacket(h)' = SetPacket(h)
    BY <1>5, PhaseOf DEF WriteGet, Phases
  <2>2. /\ link = h /\ rx = NoPacket /\ rx' = get /\ get.cmd = "get"
        /\ UNCHANGED <<sp, out, app, cmdEvt, buf>> /\ ~ lost
    BY <1>5 DEF WriteGet, Receive, Packet, ramVars
  <2> HIDE DEF get
  <2>3. Pending(SetPacket(h)) \/ Done(SetPacket(h))
    BY <1>5, <2>1, <2>2 DEF WriteGet, Attempt
  <2>4. SetPacket(h) # NoPacket
    <3>1. run[h].arg % 256 \in Requests
      BY <2>1, ScriptAssumption DEF HostInv, RunInv, Sound
    <3>2. SetPacket(h) \in Packets
      BY <3>1 DEF SetPacket, Packets
    <3> QED BY <3>2, SettingsAssumption
  <2>5. CASE Pending(SetPacket(h))
    <3>1. Pending(SetPacket(h))'
      BY <2>1, <2>2, <2>4, <2>5 DEF Pending
    <3> QED BY <2>1, <3>1 DEF Attempt
  <2>6. CASE Done(SetPacket(h))
    <3>1. Done(SetPacket(h))'
      BY <2>1, <2>2, <2>6 DEF Done
    <3> QED BY <2>1, <3>1 DEF Attempt
  <2> QED BY <2>3, <2>5, <2>6
<1>6. CASE GetAccepted(h)
  <2>1. run'[h].kind = run[h].kind /\ run'[h].phase = "wait"
        /\ SetPacket(h)' = SetPacket(h) /\ UNCHANGED devVars
    BY <1>6, PhaseOf DEF GetAccepted, Phases
  <2> QED BY <1>6, <2>1, AttemptKept DEF GetAccepted
<1> QED
  BY <1>1, <1>2, <1>3, <1>4, <1>5, <1>6 DEF HostNext

LEMMA OthersStep ==
    ASSUME HostInv, NEW h \in Hosts, Attempt(h), NEW g \in Hosts, g # h, HostNext(g)
    PROVE  Attempt(h)'
<1>1. run'[h] = run[h]
  <2>1. \E r : run' = [run EXCEPT ![g] = r]
    BY Zenon DEF HostNext, Start, HostConnect, WriteSet, SetAccepted, WriteGet, GetAccepted,
                 ReadState, LinkLost, Unreachable, Leave, Phase, Again
  <2> QED BY <2>1 DEF HostInv, RunType
<1>2. SetPacket(h)' = SetPacket(h)
  BY <1>1 DEF SetPacket
<1>3. UNCHANGED devVars \/ link' # h
  BY SettingsAssumption DEF HostNext, Start, HostConnect, WriteSet, SetAccepted, WriteGet, GetAccepted,
     ReadState, LinkLost, Unreachable, Leave, Connect, Receive, Deliver, LinkDown, linkVars
<1>4. CASE UNCHANGED devVars
  BY <1>1, <1>2, <1>4, AttemptKept
<1>5. CASE link' # h
  BY <1>5 DEF Attempt
<1> QED
  BY <1>3, <1>4, <1>5

LEMMA DeviceStep ==
    ASSUME HostInv, TypeInv, PhaseInv, LinkInv, NEW h \in Hosts, Attempt(h), DevStep, UNCHANGED run
    PROVE  Attempt(h)'
<1> SUFFICES ASSUME link' = h, run'[h].kind = "set", ~ lost' PROVE Attempt(h)'
  BY DEF Attempt
<1>1. link = h /\ link # NoHost /\ ~ lost /\ run[h].kind = "set"
  BY DeviceKeepsLink, SettingsAssumption
<1>2. CASE run[h].phase = "set"
  BY <1>1, <1>2, FreshStep DEF Attempt
<1>3. CASE run[h].phase \in {"setRsp", "get", "getRsp", "wait"}
  <2>1. PICK a : a = run[h].arg % 256
    OBVIOUS
  <2>2. a \in 0..255
    BY <1>1, <2>1, ScriptAssumption, SettingsAssumption DEF HostInv, RunInv, Sound
  <2>3. PICK p : p = Packet("set", a, DefCfg)
    OBVIOUS
  <2>4. SetPacket(h) = p /\ SetPacket(h)' = p
    BY <2>1, <2>3 DEF SetPacket
  <2>5. Pending(p)' \/ Done(p)'
    BY <1>1, <1>3, <2>2, <2>3, <2>4, PendingStep, DoneStep DEF Attempt
  <2>6. Pending(SetPacket(h))' \/ Done(SetPacket(h))'
    BY <2>4, <2>5 DEF Pending, Done
  <2> QED BY <1>3, <2>6 DEF Attempt
<1>4. CASE run[h].phase \notin {"set", "setRsp", "get", "getRsp", "wait"}
  BY <1>4 DEF Attempt
<1> QED
  BY <1>2, <1>3, <1>4

LEMMA AttemptInvInit == ScriptInit => AttemptInv
BY IdleType DEF ScriptInit, AttemptInv, Attempt

LEMMA AttemptInvStep ==
    HostInv /\ TypeInv /\ PhaseInv /\ LinkInv /\ AttemptInv /\ [ScriptNext]_allVars => AttemptInv'
<1> SUFFICES ASSUME HostInv, TypeInv, PhaseInv, LinkInv, AttemptInv, [ScriptNext]_allVars,
                    NEW h \in Hosts
             PROVE  Attempt(h)'
  BY DEF AttemptInv
<1>a. Attempt(h)
  BY DEF AttemptInv
<1>1. CASE DevStep /\ UNCHANGED hostVars
  BY <1>1, <1>a, DeviceStep DEF hostVars
<1>2. CASE PowerLoss
  BY <1>2, SettingsAssumption DEF PowerLoss, Attempt
<1>3. ASSUME NEW g \in Hosts, HostNext(g) PROVE Attempt(h)'
  BY <1>3, <1>a, OwnStep, OthersStep
<1>4. CASE UNCHANGED allVars
  <2>1. SetPacket(h)' = SetPacket(h)
    BY <1>4 DEF SetPacket, allVars, hostVars
  <2> QED BY <1>4, <1>a, <2>1, AttemptKept DEF allVars, hostVars
<1> QED
  BY <1>1, <1>2, <1>3, <1>4 DEF ScriptNext

(* A set that ends in a printed state has put the legal setpoint nearest   *)
(* to what the user asked in force, for every byte that can be asked,      *)
(* whatever other hosts do, unless its SET was overwritten in the buffer.  *)
THEOREM SetIsInForce == Asked \subseteq 0..255 => (ScriptSpec => SetTakesEffect)
<1> SUFFICES ASSUME Asked \subseteq 0..255 PROVE ScriptSpec => SetTakesEffect
  OBVIOUS
<1>1. HostInv /\ TypeInv /\ AttemptInv /\ [ScriptNext]_allVars
        => [\A h \in Hosts : Prints(h) /\ run[h].kind = "set" /\ ~ lost =>
              Nearest(Head(out).val, run[h].arg) /\ sp.val = Head(out).val]_allVars
  <2> SUFFICES ASSUME HostInv, TypeInv, AttemptInv, [ScriptNext]_allVars,
                      NEW h \in Hosts, Prints(h), run[h].kind = "set", ~ lost
               PROVE  Nearest(Head(out).val, run[h].arg) /\ sp.val = Head(out).val
    OBVIOUS
  <2>1. Deliver /\ link = h /\ run[h].phase = "wait"
    BY PrintsReads DEF ReadState
  <2>2. Done(SetPacket(h))
    BY <2>1 DEF AttemptInv, Attempt, Pending, Deliver
  <2>3. run[h].arg \in 0..255
    BY DEF HostInv, RunInv, Sound
  <2>4. SetPacket(h).val = run[h].arg
    BY <2>3 DEF SetPacket, Packet
  <2>5. \A i \in 1..Len(out) : out[i].val \in {Clamp(run[h].arg)}
    BY <2>2, <2>4 DEF Done
  <2>6. Head(out).val \in {Clamp(run[h].arg)} /\ sp.val = Clamp(run[h].arg)
    BY <2>1, <2>2, <2>4, <2>5, DeliverKeeps DEF TypeInv, Done
  <2> QED BY <2>3, <2>6, ClampIsNearest
<1>2. ScriptSpec => [](SettingsInv /\ EmptyInv /\ VersionInv) /\ [](TypeInv /\ LinkInv) /\ []HostInv
  BY ScriptIsClient, Invariant, LinkInvariant, HostInvariant, PTL
<1>3. SettingsInv => PhaseInv
  BY DEF SettingsInv
<1>4. ScriptSpec => []AttemptInv
  BY <1>2, <1>3, AttemptInvInit, AttemptInvStep, PTL DEF ScriptSpec
<1> QED
  BY <1>1, <1>2, <1>4, PTL DEF ScriptSpec, SetTakesEffect
=============================================================================

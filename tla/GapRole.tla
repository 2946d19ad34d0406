------------------------------ MODULE GapRole -------------------------------
(***************************************************************************)
(* Advertising, connecting and rebooting: the tasks that share the role    *)
(* state.  The application (adv_measure, increase_advertising_frequency,   *)
(* set_new_adv_interval, peripheralStateNotificationCB of thb2_main.c),    *)
(* the GAP role (thb2_peripheral.c) and the GAP's advertising manager      *)
(* (SDK/lib/ble_host/gap_peridevmgr.c), over a link layer whose interrupts *)
(* connect and disconnect.                                                 *)
(*                                                                         *)
(* The OSAL scheduler runs one handler at a time and always the task that  *)
(* comes first in tasksArr (osal_peripheral.c): LL, GAP, GAP role,         *)
(* application; a task takes its messages before its events.  To change    *)
(* the advertising interval the application stops advertising, writes the  *)
(* role's state and asks for a new start at once: this is right only       *)
(* because the tasks before it finish the stop first.                      *)
(*                                                                         *)
(* Abstractions.  An HCI command acts on the link layer at once, is never  *)
(* refused, and its completion is a message to the GAP, so that the role's *)
(* branches for a failed status (thb2_peripheral.c:1147-1150) do not come  *)
(* up.  Allocations succeed.  Intervals                                    *)
(* are the configured one and the faster one of a key press.  The          *)
(* measurements that the events drive are left out, their drivers kept.    *)
(* An interrupt of the radio may fall into a handler: the link layer's     *)
(* task then runs when that handler has returned.                          *)
(***************************************************************************)
EXTENDS Integers, Sequences

CONSTANTS
    Reasons,     (* how links may end: "remote", "timeout"                 *)
    FastEvents,  (* adv_reload_count after a key press                     *)
    MaxInputs    (* bound: connections, keys and commands                  *)

ASSUME RoleAssumption ==
    /\ Reasons \subseteq {"remote", "timeout"}
    /\ FastEvents \in Nat \ {0}
    /\ MaxInputs \in Nat

VARIABLES
    role,       (* gapRole_state                                           *)
    advEnabled, (* gapRole_AdvEnabled                                      *)
    startAdv,   (* START_ADVERTISING_EVT is set                            *)
    roleQ,      (* messages to the GAP role                                *)
    adv,        (* pGapAdvertState->state, "NONE" when not allocated       *)
    gapQ,       (* messages to the GAP                                     *)
    ll,         (* the link layer: idle, advertising or connected          *)
    llEvent,    (* what an interrupt left for the link layer's task        *)
    late,       (* a handler has returned since that interrupt             *)
    appEvents,  (* events of the application                               *)
    interval,   (* gapParameters: the next advertising interval            *)
    llInterval, (* the interval the link layer was last given              *)
    reload,     (* adv_wrk.adv_reload_count                                *)
    battTimer,  (* TIMER_BATT_EVT is running                               *)
    reboot,     (* wrk.reboot                                              *)
    inputs

hostVars == <<role, advEnabled, startAdv, roleQ, adv, gapQ>>
linkVars == <<ll, llEvent>>
appVars  == <<appEvents, interval, reload, battTimer, reboot>>
vars == <<hostVars, linkVars, late, appVars, llInterval, inputs>>

Roles == {"INIT", "STARTED", "ADVERTISING", "WAITING",
          "WAITING_AFTER_TIMEOUT", "CONNECTED", "ERROR"}
GapMsgs  == {"advData", "scanRsp", "params", "enable", "connected"} \union Reasons
RoleMsgs == {"INIT_DONE", "ADV_DATA_DONE", "SCAN_RSP_DONE", "MAKE_DONE",
             "END_DONE", "LINK_ESTABLISHED"} \union Reasons

(* The device has just called GAPRole_StartDevice.                         *)
Init ==
    /\ role = "INIT" /\ advEnabled = FALSE /\ startAdv = FALSE
    /\ roleQ = <<"INIT_DONE">>
    /\ adv = "NONE" /\ gapQ = <<>>
    /\ ll = "idle" /\ llEvent = "none" /\ late = FALSE
    /\ appEvents = {} /\ interval = "user" /\ llInterval = "user"
    /\ reload = 0 /\ battTimer = FALSE /\ reboot = FALSE
    /\ inputs = 0

-----------------------------------------------------------------------------
(* Which task the scheduler runs.                                          *)
GapTurn  == gapQ # <<>>
RoleTurnAtOnce == roleQ # <<>> \/ startAdv    (* the role's task before the GAP's *)
RoleTurn == gapQ = <<>> /\ (roleQ # <<>> \/ startAdv)
AppTurn  == gapQ = <<>> /\ roleQ = <<>> /\ ~startAdv

(* A handler that an interrupt fell into ends; the LL task is next.        *)
Runs == ~(late /\ llEvent # "none") /\ late' = (llEvent # "none")

ToGap(m)  == gapQ' = Append(gapQ, m)
ToRole(m) == gapQ' = Tail(gapQ) /\ roleQ' = Append(roleQ, m)

(* GAP_MakeDiscoverable, when there is no advertising state yet.           *)
MakeDiscoverable ==
    /\ adv' = "SET_PARAMS"
    /\ llInterval' = interval
    /\ ToGap("params")

(* GAP_EndDiscoverable; the link layer stops unless it has connected.      *)
EndDiscoverable ==
    IF adv = "NONE" THEN UNCHANGED <<adv, gapQ, ll>>
    ELSE /\ adv' = "ENDING"
         /\ ll' = IF ll = "conn" THEN "conn" ELSE "idle"
         /\ ToGap("enable")

-----------------------------------------------------------------------------
(* The GAP task.                                                           *)
GapHandles(m) == Runs /\ GapTurn /\ Head(gapQ) = m

GapAdvData ==
    /\ GapHandles("advData") /\ ToRole("ADV_DATA_DONE")
    /\ UNCHANGED <<role, advEnabled, startAdv, adv, linkVars, appVars, llInterval, inputs>>

GapScanRsp ==
    /\ GapHandles("scanRsp") /\ ToRole("SCAN_RSP_DONE")
    /\ UNCHANGED <<role, advEnabled, startAdv, adv, linkVars, appVars, llInterval, inputs>>

(* gapSetAdvParamsStatus: on to enabling the link layer, which is idle     *)
(* then (LayersAgree).                                                     *)
GapParams ==
    /\ GapHandles("params")
    /\ IF adv = "NONE" THEN gapQ' = Tail(gapQ) /\ UNCHANGED <<adv, ll>>
       ELSE /\ adv' = "SET_MODE"
            /\ ll' = IF ll = "idle" THEN "adv" ELSE ll
            /\ gapQ' = Append(Tail(gapQ), "enable")
    /\ UNCHANGED <<role, advEnabled, startAdv, roleQ, llEvent, appVars, llInterval, inputs>>

(* gapWriteAdvEnableStatus                                                 *)
GapEnable ==
    /\ GapHandles("enable")
    /\ IF adv = "NONE" THEN gapQ' = Tail(gapQ) /\ UNCHANGED <<adv, roleQ>>
       ELSE IF adv = "SET_MODE"
            THEN adv' = "ADVERTISING" /\ ToRole("MAKE_DONE")
            ELSE adv' = "NONE" /\ ToRole("END_DONE")
    /\ UNCHANGED <<role, advEnabled, startAdv, linkVars, appVars, llInterval, inputs>>

(* gapProcessConnectionCompleteEvt frees the advertising state             *)
(* (gapConnectedCleanUpAdvertising).                                       *)
GapConnected ==
    /\ GapHandles("connected") /\ ToRole("LINK_ESTABLISHED")
    /\ adv' = "NONE"
    /\ UNCHANGED <<role, advEnabled, startAdv, linkVars, appVars, llInterval, inputs>>

GapDisconnected(r) ==
    /\ GapHandles(r) /\ ToRole(r)
    /\ UNCHANGED <<role, advEnabled, startAdv, adv, linkVars, appVars, llInterval, inputs>>

Gap ==
    \/ GapAdvData \/ GapScanRsp \/ GapParams \/ GapEnable \/ GapConnected
    \/ \E r \in Reasons : GapDisconnected(r)

-----------------------------------------------------------------------------
(* peripheralStateNotificationCB, called with the new state.               *)
NotifyKeepsTimer(s) ==
    /\ battTimer' = IF s = "CONNECTED" THEN TRUE
                    ELSE IF s = "WAITING" THEN FALSE ELSE battTimer
    /\ reload' = IF s \in {"CONNECTED", "WAITING"} THEN 1 ELSE reload
    /\ appEvents' = IF s = "STARTED" THEN appEvents \union {"RESET_ADV"} ELSE appEvents
    /\ UNCHANGED <<interval, reboot>>

Notify(s) ==
    /\ battTimer' = CASE s = "CONNECTED" -> TRUE
                      [] s \in {"ADVERTISING", "WAITING"} -> FALSE
                      [] OTHER -> battTimer
    /\ reload' = IF s \in {"CONNECTED", "WAITING"} THEN 1 ELSE reload
    /\ appEvents' = IF s = "STARTED" THEN appEvents \union {"RESET_ADV"} ELSE appEvents
    /\ UNCHANGED <<interval, reboot>>

(* The GAP role takes a message (gapRole_ProcessGAPMsg).                   *)
RoleHandles(m) ==
    /\ Runs /\ RoleTurn /\ roleQ # <<>> /\ Head(roleQ) = m
    /\ roleQ' = Tail(roleQ)

InitDone ==
    /\ RoleHandles("INIT_DONE")
    /\ role' = "STARTED" /\ ToGap("advData")
    /\ Notify("STARTED")
    /\ UNCHANGED <<advEnabled, startAdv, adv, linkVars, llInterval, inputs>>

AdvDataDone ==
    /\ RoleHandles("ADV_DATA_DONE")
    /\ ToGap("scanRsp")
    /\ UNCHANGED <<role, advEnabled, startAdv, adv, linkVars, appVars, llInterval, inputs>>

ScanRspDone ==
    /\ RoleHandles("SCAN_RSP_DONE")
    /\ startAdv' = (startAdv \/ role # "ADVERTISING")
    /\ UNCHANGED <<role, advEnabled, adv, gapQ, linkVars, appVars, llInterval, inputs>>

MakeDone ==
    /\ RoleHandles("MAKE_DONE")
    /\ role' = "ADVERTISING"
    /\ Notify("ADVERTISING")
    /\ UNCHANGED <<advEnabled, startAdv, adv, gapQ, linkVars, llInterval, inputs>>

(* gapRole_AdvertOffTime is 0.                                             *)
EndDoneStaysOff ==
    /\ RoleHandles("END_DONE")
    /\ advEnabled' = FALSE
    /\ IF role = "WAITING_AFTER_TIMEOUT" THEN UNCHANGED role /\ Notify(role)
       ELSE role' = "WAITING" /\ Notify("WAITING")
    /\ UNCHANGED <<startAdv, adv, gapQ, linkVars, llInterval, inputs>>

EndDone ==
    /\ RoleHandles("END_DONE")
    /\ IF role = "WAITING_AFTER_TIMEOUT"
       THEN /\ advEnabled' = TRUE /\ startAdv' = TRUE
            /\ UNCHANGED role /\ Notify(role)
       ELSE /\ advEnabled' = FALSE
            /\ role' = "WAITING" /\ Notify("WAITING")
            /\ UNCHANGED startAdv
    /\ UNCHANGED <<adv, gapQ, linkVars, llInterval, inputs>>

LinkEstablished ==
    /\ RoleHandles("LINK_ESTABLISHED")
    /\ role' = "CONNECTED" /\ advEnabled' = FALSE
    /\ Notify("CONNECTED")
    /\ UNCHANGED <<startAdv, adv, gapQ, linkVars, llInterval, inputs>>

(* GAP_LINK_TERMINATED_EVENT: the callback is called last and, in state    *)
(* WAITING, resets a device that was asked to reboot.                      *)
LinkTerminated(r) ==
    /\ RoleHandles(r)
    /\ LET s == IF r = "timeout" THEN "WAITING_AFTER_TIMEOUT" ELSE "WAITING"
       IN  /\ ~(s = "WAITING" /\ reboot)
           /\ role' = s /\ Notify(s)
    /\ IF advEnabled THEN EndDiscoverable /\ UNCHANGED <<advEnabled, startAdv>>
       ELSE advEnabled' = TRUE /\ startAdv' = TRUE /\ UNCHANGED <<adv, gapQ, ll>>
    /\ UNCHANGED <<llEvent, llInterval, inputs>>

SoftReset ==
    /\ Runs /\ RoleTurn /\ roleQ # <<>> /\ Head(roleQ) = "remote" /\ reboot
    /\ role' = "INIT" /\ advEnabled' = FALSE /\ startAdv' = FALSE
    /\ roleQ' = <<"INIT_DONE">>
    /\ adv' = "NONE" /\ gapQ' = <<>>
    /\ ll' = "idle" /\ llEvent' = "none"
    /\ appEvents' = {} /\ interval' = "user" /\ llInterval' = "user"
    /\ reload' = 0 /\ battTimer' = FALSE /\ reboot' = FALSE
    /\ UNCHANGED inputs

(* START_ADVERTISING_EVT                                                   *)
StartAdvertising ==
    /\ Runs /\ RoleTurn /\ roleQ = <<>>
    /\ startAdv' = FALSE
    /\ IF ~advEnabled THEN UNCHANGED <<role, adv, gapQ, llInterval>>
       ELSE IF adv # "NONE"
            THEN role' = "ERROR" /\ UNCHANGED <<adv, gapQ, llInterval>>
            ELSE MakeDiscoverable /\ UNCHANGED role
    /\ UNCHANGED <<advEnabled, roleQ, linkVars, appVars, inputs>>

Role ==
    \/ InitDone \/ AdvDataDone \/ ScanRspDone \/ MakeDone \/ EndDone
    \/ LinkEstablished \/ \E r \in Reasons : LinkTerminated(r)
    \/ SoftReset \/ StartAdvertising

-----------------------------------------------------------------------------
(* The application handles event e, after those before it.                 *)
AppHandles(e) ==
    /\ Runs /\ AppTurn /\ e \in appEvents
    /\ CASE e = "ADV_BROADCAST" -> TRUE
         [] e = "RESET_ADV"     -> "ADV_BROADCAST" \notin appEvents
         [] e = "KEY_CHANGE"    -> {"ADV_BROADCAST", "RESET_ADV"} \cap appEvents = {}
         [] e = "CMDDATA"       -> appEvents = {"CMDDATA"}
    /\ appEvents' = appEvents \ {e}

(* set_new_adv_interval                                                    *)
SetNewAdvInterval(i) ==
    /\ interval' = i
    /\ EndDiscoverable
    /\ role' = "WAITING_AFTER_TIMEOUT"
    /\ startAdv' = TRUE

NoNewInterval == UNCHANGED <<interval, adv, gapQ, ll, role, startAdv>>

(* ADV_BROADCAST_EVT: adv_measure counts down to the configured interval.  *)
AdvMeasure ==
    /\ AppHandles("ADV_BROADCAST")
    /\ IF ~advEnabled \/ reload = 0 THEN NoNewInterval /\ UNCHANGED reload
       ELSE /\ reload' = reload - 1
            /\ IF reload = 1 THEN SetNewAdvInterval("user") ELSE NoNewInterval
    /\ UNCHANGED <<advEnabled, roleQ, llEvent, battTimer, reboot, llInterval, inputs>>

(* SBP_RESET_ADV_EVT: gatrole_advert_enable(TRUE)                          *)
ResetAdv ==
    /\ AppHandles("RESET_ADV")
    /\ advEnabled' = TRUE
    /\ startAdv' = (~advEnabled /\ role \in {"STARTED", "WAITING", "CONNECTED",
                                             "WAITING_AFTER_TIMEOUT"})
    /\ UNCHANGED <<role, roleQ, adv, gapQ, linkVars, interval, reload, battTimer,
                   reboot, llInterval, inputs>>

(* KEY_CHANGE_EVT of a key released: increase_advertising_frequency        *)
KeyReleasedNoCount ==
    /\ AppHandles("KEY_CHANGE")
    /\ IF advEnabled THEN SetNewAdvInterval("fast") ELSE NoNewInterval
    /\ UNCHANGED <<reload, advEnabled, roleQ, llEvent, battTimer, reboot, llInterval, inputs>>

KeyReleased ==
    /\ AppHandles("KEY_CHANGE")
    /\ IF advEnabled THEN reload' = FastEvents /\ SetNewAdvInterval("fast")
       ELSE NoNewInterval /\ UNCHANGED reload
    /\ UNCHANGED <<advEnabled, roleQ, llEvent, battTimer, reboot, llInterval, inputs>>

(* SBP_CMDDATA with CMD_ID_REBOOT (or a new address)                       *)
CmdReboot ==
    /\ AppHandles("CMDDATA")
    /\ reboot' = TRUE
    /\ UNCHANGED <<hostVars, linkVars, interval, reload, battTimer, llInterval, inputs>>

App == AdvMeasure \/ ResetAdv \/ KeyReleased \/ CmdReboot

-----------------------------------------------------------------------------
(* The link layer's task, first in tasksArr.                               *)
LlTask ==
    /\ llEvent # "none"
    /\ ToGap(llEvent)
    /\ llEvent' = "none" /\ late' = FALSE
    /\ UNCHANGED <<role, advEnabled, startAdv, roleQ, adv, ll, appVars, llInterval, inputs>>

Input == inputs < MaxInputs /\ inputs' = inputs + 1

(* Interrupts of the radio: a client connects, the link ends.              *)
Connect ==
    /\ Input /\ ll = "adv" /\ llEvent = "none"
    /\ ll' = "conn" /\ llEvent' = "connected"
    /\ UNCHANGED <<hostVars, late, appVars, llInterval>>

Disconnect(r) ==
    /\ ll = "conn" /\ llEvent = "none"
    /\ ll' = "idle" /\ llEvent' = r
    /\ UNCHANGED <<hostVars, late, appVars, llInterval, inputs>>

(* An advertising event has been sent.                                     *)
AdvEvent ==
    /\ ll = "adv" /\ "ADV_BROADCAST" \notin appEvents
    /\ appEvents' = appEvents \union {"ADV_BROADCAST"}
    /\ UNCHANGED <<hostVars, linkVars, late, interval, reload, battTimer, reboot,
                   llInterval, inputs>>

KeyEdge ==
    /\ Input
    /\ appEvents' = appEvents \union {"KEY_CHANGE"}
    /\ UNCHANGED <<hostVars, linkVars, late, interval, reload, battTimer, reboot,
                   llInterval>>

WriteCmd ==
    /\ Input /\ ll = "conn" /\ role = "CONNECTED"
    /\ appEvents' = appEvents \union {"CMDDATA"}
    /\ UNCHANGED <<hostVars, linkVars, late, interval, reload, battTimer, reboot,
                   llInterval>>

Environment ==
    Connect \/ (\E r \in Reasons : Disconnect(r)) \/ AdvEvent \/ KeyEdge \/ WriteCmd

Tasks == LlTask \/ Gap \/ Role \/ App

Next == Tasks \/ Environment

Spec == Init /\ [][Next]_vars

(* The scheduler runs a task that has work; the radio sends what it is     *)
(* told to send.                                                           *)
FairSpec == Spec /\ WF_vars(Tasks) /\ WF_vars(AdvEvent)

-----------------------------------------------------------------------------
TypeOK ==
    /\ role \in Roles
    /\ {advEnabled, startAdv, late, battTimer, reboot} \subseteq BOOLEAN
    /\ roleQ \in Seq(RoleMsgs) /\ gapQ \in Seq(GapMsgs)
    /\ adv \in {"NONE", "SET_PARAMS", "SET_MODE", "ADVERTISING", "ENDING"}
    /\ ll \in {"idle", "adv", "conn"}
    /\ llEvent \in {"none", "connected"} \union Reasons
    /\ appEvents \subseteq {"ADV_BROADCAST", "RESET_ADV", "KEY_CHANGE", "CMDDATA"}
    /\ {interval, llInterval} \subseteq {"user", "fast"}
    /\ reload \in 0 .. FastEvents
    /\ inputs \in 0 .. MaxInputs

(* Whenever the application's turn comes, the three layers below agree:    *)
(* all advertise or all are connected, and the application's own flag says *)
(* which.  So restarting the advertising never meets a stop that is not    *)
(* finished, which would leave the role in GAPROLE_ERROR for good.         *)
LayersAgree ==
    AppTurn /\ llEvent = "none" =>
        \/ role = "ADVERTISING" /\ adv = "ADVERTISING" /\ ll = "adv" /\ advEnabled
        \/ role = "CONNECTED" /\ adv = "NONE" /\ ll = "conn" /\ ~advEnabled
        \/ role = "STARTED" /\ adv = "NONE" /\ ll = "idle" /\ "RESET_ADV" \in appEvents

(* The sensors have one driver at a time: the timer while connected,       *)
(* advertising events otherwise, however the last connection ended.        *)
OneMeasurer ==
    AppTurn /\ llEvent = "none" => battTimer = (role = "CONNECTED")

(* A device that neither advertises nor is connected does not stay so.     *)
ReachableAgain == ll = "idle" ~> ll # "idle"

(* The faster interval of a key press, which drains the battery, is left   *)
(* again, whatever connections came in between.                            *)
UserIntervalInTheEnd == <>[](ll = "adv" => llInterval = "user")

(* config.h:658: "reboot on disconnect".  A device that was asked to       *)
(* reboot does not go back to advertising.                                 *)
RebootOnDisconnect == role = "ADVERTISING" => ~reboot
=============================================================================

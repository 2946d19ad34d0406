---------------------------- MODULE GapRoleProofs ----------------------------
(***************************************************************************)
(* Proofs about GapRole: whenever the application's turn comes, the layers *)
(* below agree and the sensors have one driver, for any number of          *)
(* connections, keys and commands.                                         *)
(*                                                                         *)
(* The invariant says in which phase a start or a stop of the advertising  *)
(* is, and how far the news of the link have come: from the interrupt over *)
(* the GAP's queue to the role's, never past what was sent before them.    *)
(*                                                                         *)
(* Every handler of those layers leaves less to do before the application  *)
(* has its turn (HostWork).                                                *)
(***************************************************************************)
EXTENDS GapRole, SequenceTheorems, TLAPS

(* The link layer does x, unless a client has connected, and perhaps gone  *)
(* again, which the role does not know yet: the news come behind b.        *)
BehindGap(b, x) ==
    \/ gapQ = <<b>> /\ ll = x /\ llEvent = "none"
    \/ gapQ = <<b>> /\ ll = "conn" /\ llEvent = "connected"
    \/ gapQ = <<b, "connected">> /\ ll = "conn" /\ llEvent = "none"
    \/ gapQ = <<b, "connected">> /\ ll = "idle" /\ llEvent \in Reasons
    \/ \E r \in Reasons : gapQ = <<b, "connected", r>> /\ ll = "idle" /\ llEvent = "none"

Coming(x) ==
    \/ gapQ = <<>> /\ ll = x /\ llEvent = "none"
    \/ gapQ = <<>> /\ ll = "conn" /\ llEvent = "connected"
    \/ gapQ = <<"connected">> /\ ll = "conn" /\ llEvent = "none"
    \/ gapQ = <<"connected">> /\ ll = "idle" /\ llEvent \in Reasons
    \/ \E r \in Reasons : gapQ = <<"connected", r>> /\ ll = "idle" /\ llEvent = "none"

(* The connection has reached the role's queue.                            *)
LinkBehind(b) ==
    \/ roleQ = <<b, "LINK_ESTABLISHED">> /\ gapQ = <<>> /\ ll = "conn" /\ llEvent = "none"
    \/ roleQ = <<b, "LINK_ESTABLISHED">> /\ gapQ = <<>> /\ ll = "idle" /\ llEvent \in Reasons
    \/ \E r \in Reasons :
          /\ ll = "idle" /\ llEvent = "none"
          /\ \/ roleQ = <<b, "LINK_ESTABLISHED">> /\ gapQ = <<r>>
             \/ roleQ = <<b, "LINK_ESTABLISHED", r>> /\ gapQ = <<>>

LinkNext ==
    \/ roleQ = <<"LINK_ESTABLISHED">> /\ gapQ = <<>> /\ ll = "conn" /\ llEvent = "none"
    \/ roleQ = <<"LINK_ESTABLISHED">> /\ gapQ = <<>> /\ ll = "idle" /\ llEvent \in Reasons
    \/ \E r \in Reasons :
          /\ ll = "idle" /\ llEvent = "none"
          /\ \/ roleQ = <<"LINK_ESTABLISHED">> /\ gapQ = <<r>>
             \/ roleQ = <<"LINK_ESTABLISHED", r>> /\ gapQ = <<>>

LinkKnown ==
    \/ roleQ = <<>> /\ gapQ = <<>> /\ ll = "conn" /\ llEvent = "none"
    \/ roleQ = <<>> /\ gapQ = <<>> /\ ll = "idle" /\ llEvent \in Reasons
    \/ \E r \in Reasons :
          /\ ll = "idle" /\ llEvent = "none"
          /\ \/ roleQ = <<>> /\ gapQ = <<r>>
             \/ roleQ = <<r>> /\ gapQ = <<>>

-----------------------------------------------------------------------------
(* The phases.                                                             *)
Quiet == ll = "idle" /\ llEvent = "none" /\ adv = "NONE"

Booting ==
    /\ role = "INIT" /\ ~advEnabled /\ ~startAdv /\ Quiet
    /\ roleQ = <<"INIT_DONE">> /\ gapQ = <<>>

Configuring ==
    /\ role = "STARTED" /\ ~advEnabled /\ Quiet
    /\ \/ ~startAdv /\ roleQ = <<>> /\ gapQ = <<"advData">>
       \/ ~startAdv /\ roleQ = <<"ADV_DATA_DONE">> /\ gapQ = <<>>
       \/ ~startAdv /\ roleQ = <<>> /\ gapQ = <<"scanRsp">>
       \/ ~startAdv /\ roleQ = <<"SCAN_RSP_DONE">> /\ gapQ = <<>>
       \/ roleQ = <<>> /\ gapQ = <<>>

Resting == role \in {"STARTED", "WAITING", "WAITING_AFTER_TIMEOUT"} /\ advEnabled

Starting == Resting /\ startAdv /\ Quiet /\ roleQ = <<>> /\ gapQ = <<>>

Setting ==
    /\ Resting /\ ~startAdv /\ adv = "SET_PARAMS"
    /\ roleQ = <<>> /\ gapQ = <<"params">> /\ ll = "idle" /\ llEvent = "none"

Enabling == Resting /\ ~startAdv /\ adv = "SET_MODE" /\ roleQ = <<>> /\ BehindGap("enable", "adv")

Made == Resting /\ ~startAdv /\ adv = "ADVERTISING" /\ roleQ = <<"MAKE_DONE">> /\ Coming("adv")

MadeLinked == Resting /\ ~startAdv /\ adv = "NONE" /\ LinkBehind("MAKE_DONE")

Advertising ==
    /\ role = "ADVERTISING" /\ advEnabled /\ ~startAdv
    /\ adv = "ADVERTISING" /\ roleQ = <<>> /\ Coming("adv")

AdvertisingLinked ==
    role = "ADVERTISING" /\ advEnabled /\ ~startAdv /\ adv = "NONE" /\ LinkNext

(* The application has stopped the advertising and asked for a new start.  *)
Again == role = "WAITING_AFTER_TIMEOUT" /\ advEnabled /\ startAdv

Ending ==
    /\ Again /\ adv = "ENDING" /\ roleQ = <<>> /\ BehindGap("enable", "idle")
    /\ llEvent = "connected" => late

Ended ==
    /\ Again /\ adv = "NONE" /\ roleQ = <<"END_DONE">> /\ Coming("idle")
    /\ llEvent # "connected"

EndedLinked == Again /\ adv = "NONE" /\ LinkBehind("END_DONE")

AgainLinked == Again /\ adv = "NONE" /\ LinkNext

Connected == role = "CONNECTED" /\ ~advEnabled /\ adv = "NONE" /\ LinkKnown

Phase ==
    \/ Booting \/ Configuring \/ Starting \/ Setting \/ Enabling \/ Made \/ MadeLinked
    \/ Advertising \/ AdvertisingLinked
    \/ Ending \/ Ended \/ EndedLinked \/ AgainLinked \/ Connected

(* The first start is asked for once; the sensors' timer runs in a         *)
(* connection, and perhaps until the advertising is on again.              *)
NotYetOn == role = "STARTED" /\ ~advEnabled

ResetInv == "RESET_ADV" \in appEvents <=> NotYetOn

TimerInv ==
    /\ role \in {"INIT", "ADVERTISING"} \/ NotYetOn => ~battTimer
    /\ role = "CONNECTED" => battTimer

IInv == Phase /\ ResetInv /\ TimerInv

-----------------------------------------------------------------------------
(* Short queues.                                                           *)
LEMMA AppendOne ==
    ASSUME NEW S, NEW a \in S, NEW b \in S
    PROVE  Append(<<a>>, b) = <<a, b>>
<1> DEFINE s == Append(<<a>>, b)
           t == <<a, b>>
<1>1. <<a>> \in Seq(S) /\ Len(<<a>>) = 1 /\ <<a>>[1] = a
  OBVIOUS
<1>2. s \in Seq(S) /\ Len(s) = 2 /\ s[1] = a /\ s[2] = b
  BY <1>1, AppendProperties
<1>3. t \in Seq(S) /\ Len(t) = 2 /\ t[1] = a /\ t[2] = b
  OBVIOUS
<1> HIDE DEF s, t
<1>4. \A i \in 1 .. Len(s) : s[i] = t[i]
  BY <1>2, <1>3
<1>5. s = t
  BY <1>2, <1>3, <1>4, SeqEqual
<1> QED BY <1>5 DEF s, t

LEMMA AppendTwo ==
    ASSUME NEW S, NEW a \in S, NEW b \in S, NEW c \in S
    PROVE  Append(<<a, b>>, c) = <<a, b, c>>
<1> DEFINE s == Append(<<a, b>>, c)
           t == <<a, b, c>>
<1>1. <<a, b>> \in Seq(S) /\ Len(<<a, b>>) = 2 /\ <<a, b>>[1] = a /\ <<a, b>>[2] = b
  OBVIOUS
<1>2. s \in Seq(S) /\ Len(s) = 3 /\ s[1] = a /\ s[2] = b /\ s[3] = c
  BY <1>1, AppendProperties
<1>3. t \in Seq(S) /\ Len(t) = 3 /\ t[1] = a /\ t[2] = b /\ t[3] = c
  OBVIOUS
<1> HIDE DEF s, t
<1>4. \A i \in 1 .. Len(s) : s[i] = t[i]
  BY <1>2, <1>3
<1>5. s = t
  BY <1>2, <1>3, <1>4, SeqEqual
<1> QED BY <1>5 DEF s, t

LEMMA Queues ==
    \A a, b, c :
       /\ Append(<<>>, a) = <<a>>
       /\ Append(<<a>>, b) = <<a, b>>
       /\ Append(<<a, b>>, c) = <<a, b, c>>
       /\ Head(<<a>>) = a /\ Head(<<a, b>>) = a /\ Head(<<a, b, c>>) = a
       /\ Tail(<<a>>) = <<>> /\ Tail(<<a, b>>) = <<b>> /\ Tail(<<a, b, c>>) = <<b, c>>
       /\ <<a>> # <<>> /\ <<a, b>> # <<>> /\ <<a, b, c>> # <<>>
<1> TAKE a, b, c
<1> DEFINE S == {a, b, c}
<1>1. Append(<<>>, a) = <<a>>
  OBVIOUS
<1>2. Append(<<a>>, b) = <<a, b>>
  <2>1. a \in S /\ b \in S
    OBVIOUS
  <2> QED BY <2>1, AppendOne
<1>3. Append(<<a, b>>, c) = <<a, b, c>>
  <2>1. a \in S /\ b \in S /\ c \in S
    OBVIOUS
  <2> QED BY <2>1, AppendTwo
<1>4. /\ Head(<<a>>) = a /\ Head(<<a, b>>) = a /\ Head(<<a, b, c>>) = a
      /\ Tail(<<a>>) = <<>> /\ Tail(<<a, b>>) = <<b>> /\ Tail(<<a, b, c>>) = <<b, c>>
      /\ <<a>> # <<>> /\ <<a, b>> # <<>> /\ <<a, b, c>> # <<>>
  OBVIOUS
<1> QED BY <1>1, <1>2, <1>3, <1>4

-----------------------------------------------------------------------------
(* The device starts in the first phase.                                   *)
LEMMA InitHolds == Init => IInv
BY DEF Init, IInv, Phase, Booting, Quiet, ResetInv, TimerInv, NotYetOn

(* Where the messages are, each of them means a phase.                     *)
LEMMA GapHeads ==
    ASSUME Phase, gapQ # <<>>
    PROVE  /\ Head(gapQ) \in {"advData", "scanRsp"} =>
                 Configuring /\ ~startAdv /\ roleQ = <<>> /\ gapQ = <<Head(gapQ)>>
           /\ Head(gapQ) = "params" => Setting
           /\ Head(gapQ) = "enable" => Enabling \/ Ending
           /\ Head(gapQ) = "connected" => Made \/ Advertising \/ Ended
           /\ Head(gapQ) \in Reasons =>
                 /\ MadeLinked \/ AdvertisingLinked \/ EndedLinked \/ AgainLinked \/ Connected
                 /\ gapQ = <<Head(gapQ)>>
<1> USE RoleAssumption, Queues
    DEF Phase, Booting, Configuring, Starting, Setting, Enabling, Made, MadeLinked,
        Advertising, AdvertisingLinked, Ending, Ended, EndedLinked, AgainLinked, Connected,
        Quiet, BehindGap, Coming, LinkBehind, LinkNext, LinkKnown
<1>1. Head(gapQ) \in {"advData", "scanRsp"} =>
         Configuring /\ ~startAdv /\ roleQ = <<>> /\ gapQ = <<Head(gapQ)>>
  OBVIOUS
<1>2. Head(gapQ) = "params" => Setting
  OBVIOUS
<1>3. Head(gapQ) = "enable" => Enabling \/ Ending
  OBVIOUS
<1>4. Head(gapQ) = "connected" => Made \/ Advertising \/ Ended
  OBVIOUS
<1>5. Head(gapQ) \in Reasons =>
         /\ MadeLinked \/ AdvertisingLinked \/ EndedLinked \/ AgainLinked \/ Connected
         /\ gapQ = <<Head(gapQ)>>
  OBVIOUS
<1> QED BY <1>1, <1>2, <1>3, <1>4, <1>5

LEMMA RoleHeads ==
    ASSUME Phase, gapQ = <<>>, roleQ # <<>>
    PROVE  /\ Head(roleQ) = "INIT_DONE" => Booting
           /\ Head(roleQ) \in {"ADV_DATA_DONE", "SCAN_RSP_DONE"} =>
                 Configuring /\ ~startAdv /\ roleQ = <<Head(roleQ)>>
           /\ Head(roleQ) = "MAKE_DONE" => Made \/ MadeLinked
           /\ Head(roleQ) = "END_DONE" => Ended \/ EndedLinked
           /\ Head(roleQ) = "LINK_ESTABLISHED" => AdvertisingLinked \/ AgainLinked
           /\ Head(roleQ) \in Reasons =>
                 Connected /\ roleQ = <<Head(roleQ)>> /\ ll = "idle" /\ llEvent = "none"
<1> USE RoleAssumption, Queues
    DEF Phase, Booting, Configuring, Starting, Setting, Enabling, Made, MadeLinked,
        Advertising, AdvertisingLinked, Ending, Ended, EndedLinked, AgainLinked, Connected,
        Quiet, BehindGap, Coming, LinkBehind, LinkNext, LinkKnown
<1>1. Head(roleQ) = "INIT_DONE" => Booting
  OBVIOUS
<1>2. Head(roleQ) \in {"ADV_DATA_DONE", "SCAN_RSP_DONE"} =>
         Configuring /\ ~startAdv /\ roleQ = <<Head(roleQ)>>
  OBVIOUS
<1>3. Head(roleQ) = "MAKE_DONE" => Made \/ MadeLinked
  OBVIOUS
<1>4. Head(roleQ) = "END_DONE" => Ended \/ EndedLinked
  OBVIOUS
<1>5. Head(roleQ) = "LINK_ESTABLISHED" => AdvertisingLinked \/ AgainLinked
  OBVIOUS
<1>6. Head(roleQ) \in Reasons =>
         Connected /\ roleQ = <<Head(roleQ)>> /\ ll = "idle" /\ llEvent = "none"
  OBVIOUS
<1> QED BY <1>1, <1>2, <1>3, <1>4, <1>5, <1>6

LEMMA NoMessages ==
    ASSUME Phase, gapQ = <<>>, roleQ = <<>>
    PROVE  /\ Configuring \/ Starting \/ Advertising \/ Connected
           /\ ~startAdv => Configuring \/ Advertising \/ Connected
BY Queues
   DEF Phase, Booting, Configuring, Starting, Setting, Enabling, Made, MadeLinked,
       Advertising, AdvertisingLinked, Ending, Ended, EndedLinked, AgainLinked, Connected,
       Quiet, BehindGap, LinkBehind, LinkNext

LEMMA SamePhase ==
    ASSUME Phase, UNCHANGED <<hostVars, linkVars>>, late' = late \/ gapQ = <<>>
    PROVE  Phase'
BY Queues
   DEF Phase, Booting, Configuring, Starting, Setting, Enabling, Made, MadeLinked,
       Advertising, AdvertisingLinked, Ending, Ended, EndedLinked, AgainLinked, Connected,
       Quiet, Resting, Again, BehindGap, Coming, LinkBehind, LinkNext, LinkKnown, hostVars, linkVars

(* The news of the link move on with the messages before them.             *)
LEMMA GapTakes ==
    ASSUME NEW b, NEW x, BehindGap(b, x), gapQ' = Tail(gapQ), UNCHANGED <<ll, llEvent>>
    PROVE  Coming(x)'
<1>1. CASE gapQ = <<b>>
  <2>1. gapQ' = <<>> /\ gapQ # <<b, "connected">> /\ \A r : gapQ # <<b, "connected", r>>
    BY <1>1, Queues
  <2> QED BY <2>1 DEF BehindGap, Coming
<1>2. CASE gapQ = <<b, "connected">>
  <2>1. gapQ' = <<"connected">> /\ gapQ # <<b>> /\ \A r : gapQ # <<b, "connected", r>>
    BY <1>2, Queues
  <2> QED BY <2>1 DEF BehindGap, Coming
<1>3. ASSUME NEW r \in Reasons, gapQ = <<b, "connected", r>>, ll = "idle", llEvent = "none"
      PROVE  Coming(x)'
  <2>1. gapQ' = <<"connected", r>>
    BY <1>3, Queues
  <2> QED BY <1>3, <2>1 DEF Coming
<1> QED BY <1>1, <1>2, <1>3 DEF BehindGap

LEMMA GapLinks ==
    ASSUME NEW b, NEW x, Coming(x), gapQ # <<>>, roleQ = <<b>>,
           gapQ' = Tail(gapQ), roleQ' = Append(roleQ, "LINK_ESTABLISHED"), UNCHANGED <<ll, llEvent>>
    PROVE  LinkBehind(b)'
<1>0. roleQ' = <<b, "LINK_ESTABLISHED">>
  BY Queues
<1>1. CASE gapQ = <<"connected">>
  <2>1. gapQ' = <<>> /\ \A r : gapQ # <<"connected", r>>
    BY <1>1, Queues
  <2> QED BY <1>0, <2>1 DEF Coming, LinkBehind
<1>2. ASSUME NEW r \in Reasons, gapQ = <<"connected", r>>, ll = "idle", llEvent = "none"
      PROVE  LinkBehind(b)'
  <2>1. gapQ' = <<r>>
    BY <1>2, Queues
  <2> QED BY <1>0, <1>2, <2>1 DEF LinkBehind
<1> QED BY <1>1, <1>2 DEF Coming

LEMMA GapLinksNext ==
    ASSUME NEW x, Coming(x), gapQ # <<>>, roleQ = <<>>,
           gapQ' = Tail(gapQ), roleQ' = Append(roleQ, "LINK_ESTABLISHED"), UNCHANGED <<ll, llEvent>>
    PROVE  LinkNext'
<1>0. roleQ' = <<"LINK_ESTABLISHED">>
  BY Queues
<1>1. CASE gapQ = <<"connected">>
  <2>1. gapQ' = <<>> /\ \A r : gapQ # <<"connected", r>>
    BY <1>1, Queues
  <2> QED BY <1>0, <2>1 DEF Coming, LinkNext
<1>2. ASSUME NEW r \in Reasons, gapQ = <<"connected", r>>, ll = "idle", llEvent = "none"
      PROVE  LinkNext'
  <2>1. gapQ' = <<r>>
    BY <1>2, Queues
  <2> QED BY <1>0, <1>2, <2>1 DEF LinkNext
<1> QED BY <1>1, <1>2 DEF Coming

LEMMA RoleTakes ==
    ASSUME NEW b, LinkBehind(b), gapQ = <<>>, roleQ' = Tail(roleQ), UNCHANGED <<gapQ, ll, llEvent>>
    PROVE  LinkNext'
<1>1. CASE roleQ = <<b, "LINK_ESTABLISHED">>
  <2>1. roleQ' = <<"LINK_ESTABLISHED">> /\ \A r : roleQ # <<b, "LINK_ESTABLISHED", r>> /\ gapQ # <<r>>
    BY <1>1, Queues
  <2> QED BY <2>1 DEF LinkBehind, LinkNext
<1>2. ASSUME NEW r \in Reasons, roleQ = <<b, "LINK_ESTABLISHED", r>>, ll = "idle", llEvent = "none"
      PROVE  LinkNext'
  <2>1. roleQ' = <<"LINK_ESTABLISHED", r>>
    BY <1>2, Queues
  <2> QED BY <1>2, <2>1 DEF LinkNext
<1> QED BY <1>1, <1>2 DEF LinkBehind

LEMMA RoleLinks ==
    ASSUME LinkNext, gapQ = <<>>, roleQ' = Tail(roleQ), UNCHANGED <<gapQ, ll, llEvent>>
    PROVE  LinkKnown'
<1>1. CASE roleQ = <<"LINK_ESTABLISHED">>
  <2>1. roleQ' = <<>> /\ \A r : roleQ # <<"LINK_ESTABLISHED", r>> /\ gapQ # <<r>>
    BY <1>1, Queues
  <2> QED BY <2>1 DEF LinkNext, LinkKnown
<1>2. ASSUME NEW r \in Reasons, roleQ = <<"LINK_ESTABLISHED", r>>, ll = "idle", llEvent = "none"
      PROVE  LinkKnown'
  <2>1. roleQ' = <<r>>
    BY <1>2, Queues
  <2> QED BY <1>2, <2>1 DEF LinkKnown
<1> QED BY <1>1, <1>2 DEF LinkNext

-----------------------------------------------------------------------------
(* The GAP task.                                                           *)
LEMMA GapKeeps == IInv /\ Gap => IInv'
<1> SUFFICES ASSUME IInv, Gap PROVE IInv'
  OBVIOUS
<1>1. UNCHANGED <<role, advEnabled, startAdv, llEvent, appEvents, battTimer>>
  BY DEF Gap, GapAdvData, GapScanRsp, GapParams, GapEnable, GapConnected, GapDisconnected,
         linkVars, appVars
<1>2. ResetInv' /\ TimerInv'
  BY <1>1 DEF IInv, ResetInv, TimerInv, NotYetOn
<1>3. Phase /\ gapQ # <<>> /\ Runs
  BY DEF IInv, Gap, GapAdvData, GapScanRsp, GapParams, GapEnable, GapConnected,
         GapDisconnected, GapHandles, GapTurn
<1>4. CASE GapAdvData
  <2>1. Configuring /\ ~startAdv /\ roleQ = <<>> /\ gapQ = <<"advData">>
    BY <1>3, <1>4, GapHeads DEF GapAdvData, GapHandles
  <2>2. Configuring'
    BY <1>4, <2>1, Queues DEF GapAdvData, ToRole, Configuring, Quiet, linkVars
  <2> QED BY <1>2, <2>2 DEF IInv, Phase
<1>5. CASE GapScanRsp
  <2>1. Configuring /\ ~startAdv /\ roleQ = <<>> /\ gapQ = <<"scanRsp">>
    BY <1>3, <1>5, GapHeads DEF GapScanRsp, GapHandles
  <2>2. Configuring'
    BY <1>5, <2>1, Queues DEF GapScanRsp, ToRole, Configuring, Quiet, linkVars
  <2> QED BY <1>2, <2>2 DEF IInv, Phase
<1>6. CASE GapParams
  <2>1. Setting
    BY <1>3, <1>6, GapHeads DEF GapParams, GapHandles
  <2>2. Enabling'
    BY <1>6, <2>1, Queues DEF GapParams, Setting, Enabling, Resting, BehindGap
  <2> QED BY <1>2, <2>2 DEF IInv, Phase
<1>7. CASE GapEnable
  <2>1. CASE Enabling
    <3>1. gapQ' = Tail(gapQ) /\ roleQ' = <<"MAKE_DONE">> /\ adv' = "ADVERTISING"
      BY <1>7, <2>1, Queues DEF GapEnable, ToRole, Enabling
    <3>2. Coming("adv")'
      BY <1>1, <1>7, <2>1, <3>1, GapTakes DEF GapEnable, Enabling, linkVars
    <3>3. Made'
      BY <1>1, <2>1, <3>1, <3>2 DEF Made, Enabling, Resting
    <3> QED BY <1>2, <3>3 DEF IInv, Phase
  <2>2. CASE Ending
    <3>1. gapQ' = Tail(gapQ) /\ roleQ' = <<"END_DONE">> /\ adv' = "NONE"
      BY <1>7, <2>2, Queues DEF GapEnable, ToRole, Ending
    <3>2. Coming("idle")'
      BY <1>1, <1>7, <2>2, <3>1, GapTakes DEF GapEnable, Ending, linkVars
    <3>3. llEvent' # "connected"
      BY <1>1, <1>3, <2>2 DEF Ending, Runs
    <3>4. Ended'
      BY <1>1, <2>2, <3>1, <3>2, <3>3 DEF Ended, Ending, Again
    <3> QED BY <1>2, <3>4 DEF IInv, Phase
  <2> QED BY <1>3, <1>7, <2>1, <2>2, GapHeads DEF GapEnable, GapHandles
<1>8. CASE GapConnected
  <2>0. Head(gapQ) = "connected"
    BY <1>8 DEF GapConnected, GapHandles
  <2>a. /\ gapQ' = Tail(gapQ) /\ roleQ' = Append(roleQ, "LINK_ESTABLISHED")
        /\ adv' = "NONE" /\ UNCHANGED <<ll, llEvent>>
    BY <1>8 DEF GapConnected, ToRole, linkVars
  <2>1. CASE Made
    <3>1. LinkBehind("MAKE_DONE")'
      BY <1>3, <2>a, <2>1, GapLinks DEF Made
    <3>2. MadeLinked'
      BY <1>1, <2>a, <2>1, <3>1 DEF Made, MadeLinked, Resting
    <3> QED BY <1>2, <3>2 DEF IInv, Phase
  <2>2. CASE Advertising
    <3>1. LinkNext'
      BY <1>3, <2>a, <2>2, GapLinksNext DEF Advertising
    <3>2. AdvertisingLinked'
      BY <1>1, <2>a, <2>2, <3>1 DEF Advertising, AdvertisingLinked
    <3> QED BY <1>2, <3>2 DEF IInv, Phase
  <2>3. CASE Ended
    <3>1. LinkBehind("END_DONE")'
      BY <1>3, <2>a, <2>3, GapLinks DEF Ended
    <3>2. EndedLinked'
      BY <1>1, <2>a, <2>3, <3>1 DEF Ended, EndedLinked, Again
    <3> QED BY <1>2, <3>2 DEF IInv, Phase
  <2> QED BY <1>3, <2>0, <2>1, <2>2, <2>3, GapHeads
<1>9. ASSUME NEW r \in Reasons, GapDisconnected(r) PROVE IInv'
  <2>1. gapQ = <<r>>
    BY <1>3, <1>9, GapHeads DEF GapDisconnected, GapHandles
  <2>2. gapQ' = <<>> /\ roleQ' = Append(roleQ, r) /\ UNCHANGED <<adv, ll>>
    BY <1>9, <2>1, Queues DEF GapDisconnected, ToRole, linkVars
  <2>3. CASE MadeLinked
    <3>1. roleQ = <<"MAKE_DONE", "LINK_ESTABLISHED">> /\ ll = "idle" /\ llEvent = "none"
      BY <2>1, <2>3, Queues DEF MadeLinked, LinkBehind
    <3>2. roleQ' = <<"MAKE_DONE", "LINK_ESTABLISHED", r>>
      BY <2>2, <3>1, Queues
    <3>3. MadeLinked'
      BY <1>1, <2>2, <2>3, <3>1, <3>2 DEF MadeLinked, Resting, LinkBehind
    <3> QED BY <1>2, <3>3 DEF IInv, Phase
  <2>4. CASE AdvertisingLinked
    <3>1. AdvertisingLinked'
      BY <1>1, <2>1, <2>2, <2>4, RoleAssumption, Queues DEF AdvertisingLinked, LinkNext
    <3> QED BY <1>2, <3>1 DEF IInv, Phase
  <2>5. CASE EndedLinked
    <3>1. EndedLinked'
      BY <1>1, <2>1, <2>2, <2>5, RoleAssumption, Queues DEF EndedLinked, Again, LinkBehind
    <3> QED BY <1>2, <3>1 DEF IInv, Phase
  <2>6. CASE AgainLinked
    <3>1. AgainLinked'
      BY <1>1, <2>1, <2>2, <2>6, RoleAssumption, Queues DEF AgainLinked, Again, LinkNext
    <3> QED BY <1>2, <3>1 DEF IInv, Phase
  <2>7. CASE Connected
    <3>1. Connected'
      BY <1>1, <2>1, <2>2, <2>7, RoleAssumption, Queues DEF Connected, LinkKnown
    <3> QED BY <1>2, <3>1 DEF IInv, Phase
  <2> QED BY <1>3, <2>1, <2>3, <2>4, <2>5, <2>6, <2>7, Queues, GapHeads
<1> QED BY <1>4, <1>5, <1>6, <1>7, <1>8, <1>9 DEF Gap

-----------------------------------------------------------------------------
(* The GAP role.                                                           *)
LEMMA RoleMessageKeeps ==
    IInv /\ (InitDone \/ AdvDataDone \/ ScanRspDone \/ MakeDone \/ EndDone \/ LinkEstablished)
       => IInv'
<1> SUFFICES ASSUME IInv,
                    InitDone \/ AdvDataDone \/ ScanRspDone \/ MakeDone \/ EndDone \/ LinkEstablished
             PROVE  IInv'
  OBVIOUS
<1>1. Phase /\ gapQ = <<>> /\ roleQ # <<>> /\ Runs /\ roleQ' = Tail(roleQ)
  BY DEF IInv, InitDone, AdvDataDone, ScanRspDone, MakeDone, EndDone, LinkEstablished,
         RoleHandles, RoleTurn
<1>2. CASE InitDone
  <2>1. Booting
    BY <1>1, <1>2, RoleHeads DEF InitDone, RoleHandles
  <2>2. Configuring'
    BY <1>1, <1>2, <2>1, Queues DEF InitDone, ToGap, Booting, Configuring, Quiet, linkVars
  <2>3. ResetInv' /\ TimerInv'
    BY <1>2, <2>1 DEF IInv, InitDone, Notify, Booting, ResetInv, TimerInv, NotYetOn
  <2> QED BY <2>2, <2>3 DEF IInv, Phase
<1>3. CASE AdvDataDone
  <2>1. Configuring /\ ~startAdv /\ roleQ = <<"ADV_DATA_DONE">>
    BY <1>1, <1>3, RoleHeads DEF AdvDataDone, RoleHandles
  <2>2. Configuring'
    BY <1>1, <1>3, <2>1, Queues DEF AdvDataDone, ToGap, Configuring, Quiet, linkVars
  <2>3. ResetInv' /\ TimerInv'
    BY <1>3 DEF IInv, AdvDataDone, ResetInv, TimerInv, NotYetOn, appVars
  <2> QED BY <2>2, <2>3 DEF IInv, Phase
<1>4. CASE ScanRspDone
  <2>1. Configuring /\ ~startAdv /\ roleQ = <<"SCAN_RSP_DONE">>
    BY <1>1, <1>4, RoleHeads DEF ScanRspDone, RoleHandles
  <2>2. Configuring'
    BY <1>1, <1>4, <2>1, Queues DEF ScanRspDone, Configuring, Quiet, linkVars
  <2>3. ResetInv' /\ TimerInv'
    BY <1>4 DEF IInv, ScanRspDone, ResetInv, TimerInv, NotYetOn, appVars
  <2> QED BY <2>2, <2>3 DEF IInv, Phase
<1>5. CASE MakeDone
  <2>0. Head(roleQ) = "MAKE_DONE"
    BY <1>5 DEF MakeDone, RoleHandles
  <2>1. advEnabled
    BY <1>1, <2>0, RoleHeads DEF Made, MadeLinked, Resting
  <2>2. ResetInv' /\ TimerInv'
    BY <1>5, <2>1 DEF IInv, MakeDone, Notify, ResetInv, TimerInv, NotYetOn
  <2>3. CASE Made
    <3>1. Advertising'
      BY <1>1, <1>5, <2>3, Queues DEF MakeDone, Made, Advertising, Resting, Coming, linkVars
    <3> QED BY <2>2, <3>1 DEF IInv, Phase
  <2>4. CASE MadeLinked
    <3>1. LinkNext'
      BY <1>1, <1>5, <2>4, RoleTakes DEF MakeDone, MadeLinked, linkVars
    <3>2. AdvertisingLinked'
      BY <1>5, <2>4, <3>1 DEF MakeDone, MadeLinked, AdvertisingLinked, Resting
    <3> QED BY <2>2, <3>2 DEF IInv, Phase
  <2> QED BY <1>1, <2>0, <2>3, <2>4, RoleHeads
<1>6. CASE EndDone
  <2>0. Head(roleQ) = "END_DONE"
    BY <1>6 DEF EndDone, RoleHandles
  <2>1. Again
    BY <1>1, <2>0, RoleHeads DEF Ended, EndedLinked
  <2>2. ResetInv' /\ TimerInv' /\ Again' /\ UNCHANGED <<role, adv, gapQ, ll, llEvent>>
    BY <1>6, <2>1 DEF IInv, EndDone, Notify, Again, ResetInv, TimerInv, NotYetOn, linkVars
  <2>3. CASE Ended
    <3>1. roleQ' = <<>> /\ Coming("idle")' /\ gapQ' = <<>> /\ adv' = "NONE"
      BY <1>1, <2>2, <2>3, Queues DEF Ended, Coming
    <3>2. ll' = "idle" /\ llEvent' = "none"
      BY <1>1, <2>2, <2>3, Queues DEF Ended, Coming
    <3>3. Starting'
      BY <2>2, <3>1, <3>2 DEF Starting, Resting, Again, Quiet
    <3> QED BY <2>2, <3>3 DEF IInv, Phase
  <2>4. CASE EndedLinked
    <3>1. LinkNext'
      BY <1>1, <2>2, <2>4, RoleTakes DEF EndedLinked
    <3>2. AgainLinked'
      BY <2>2, <2>4, <3>1 DEF EndedLinked, AgainLinked
    <3> QED BY <2>2, <3>2 DEF IInv, Phase
  <2> QED BY <1>1, <2>0, <2>3, <2>4, RoleHeads
<1>7. CASE LinkEstablished
  <2>0. Head(roleQ) = "LINK_ESTABLISHED"
    BY <1>7 DEF LinkEstablished, RoleHandles
  <2>1. LinkNext /\ adv = "NONE" /\ advEnabled
    BY <1>1, <2>0, RoleHeads DEF AdvertisingLinked, AgainLinked, Again
  <2>2. LinkKnown'
    BY <1>1, <1>7, <2>1, RoleLinks DEF LinkEstablished, linkVars
  <2>3. Connected'
    BY <1>7, <2>1, <2>2 DEF LinkEstablished, Connected
  <2>4. ResetInv' /\ TimerInv'
    BY <1>7, <2>1 DEF IInv, LinkEstablished, Notify, ResetInv, TimerInv, NotYetOn
  <2> QED BY <2>3, <2>4 DEF IInv, Phase
<1> QED BY <1>2, <1>3, <1>4, <1>5, <1>6, <1>7

LEMMA LinkTerminatedKeeps ==
    ASSUME IInv, NEW r \in Reasons, LinkTerminated(r)
    PROVE  IInv'
<1>1. Phase /\ gapQ = <<>> /\ roleQ # <<>> /\ Head(roleQ) = r
  BY DEF IInv, LinkTerminated, RoleHandles, RoleTurn
<1>2. Connected /\ roleQ = <<r>> /\ ll = "idle" /\ llEvent = "none"
  BY <1>1, RoleHeads
<1>3. roleQ' = <<>> /\ advEnabled' /\ startAdv' /\ UNCHANGED <<adv, gapQ, ll, llEvent>>
  BY <1>2, Queues DEF LinkTerminated, RoleHandles, Connected
<1>4. role' \in {"WAITING", "WAITING_AFTER_TIMEOUT"} /\ UNCHANGED appEvents
  BY DEF LinkTerminated, Notify
<1>5. Starting'
  BY <1>1, <1>2, <1>3, <1>4 DEF Starting, Resting, Quiet, Connected
<1>6. ResetInv' /\ TimerInv'
  BY <1>2, <1>3, <1>4 DEF IInv, Connected, ResetInv, TimerInv, NotYetOn
<1> QED BY <1>5, <1>6 DEF IInv, Phase

LEMMA SoftResetKeeps == IInv /\ SoftReset => IInv'
BY DEF SoftReset, IInv, Phase, Booting, Quiet, ResetInv, TimerInv, NotYetOn

LEMMA StartAdvertisingKeeps == IInv /\ StartAdvertising => IInv'
<1> SUFFICES ASSUME IInv, StartAdvertising PROVE IInv'
  OBVIOUS
<1>1. Phase /\ gapQ = <<>> /\ roleQ = <<>> /\ startAdv /\ ~startAdv'
  BY DEF IInv, StartAdvertising, RoleTurn
<1>2. UNCHANGED <<advEnabled, roleQ, ll, llEvent, appEvents, battTimer>>
  BY DEF StartAdvertising, linkVars, appVars
<1>3. CASE Starting
  <2>1. Setting' /\ UNCHANGED role
    BY <1>1, <1>2, <1>3, Queues
       DEF StartAdvertising, Starting, Setting, Resting, Quiet, MakeDiscoverable, ToGap
  <2> QED BY <1>2, <2>1 DEF IInv, Phase, ResetInv, TimerInv, NotYetOn
<1>4. CASE Configuring \/ Connected
  <2>1. UNCHANGED <<role, adv, gapQ>>
    BY <1>4 DEF StartAdvertising, Configuring, Connected
  <2>2. Configuring' \/ Connected'
    BY <1>1, <1>2, <1>4, <2>1 DEF Configuring, Connected, Quiet, LinkKnown
  <2> QED BY <1>2, <2>1, <2>2 DEF IInv, Phase, ResetInv, TimerInv, NotYetOn
<1> QED BY <1>1, <1>3, <1>4, NoMessages DEF Advertising

LEMMA RoleKeeps == IInv /\ Role => IInv'
BY RoleMessageKeeps, LinkTerminatedKeeps, SoftResetKeeps, StartAdvertisingKeeps DEF Role

-----------------------------------------------------------------------------
(* The application.                                                        *)
LEMMA AppSees ==
    ASSUME IInv, NEW e, AppHandles(e)
    PROVE  /\ gapQ = <<>> /\ roleQ = <<>> /\ ~startAdv /\ Phase
           /\ Configuring \/ Advertising \/ Connected
           /\ advEnabled => Advertising
           /\ late' = (llEvent # "none")
           /\ e # "RESET_ADV" => ("RESET_ADV" \in appEvents' <=> "RESET_ADV" \in appEvents)
<1>1. gapQ = <<>> /\ roleQ = <<>> /\ ~startAdv /\ Phase /\ late' = (llEvent # "none")
  BY DEF AppHandles, AppTurn, Runs, IInv
<1>2. Configuring \/ Advertising \/ Connected
  BY <1>1, NoMessages
<1>3. advEnabled => Advertising
  BY <1>2 DEF Configuring, Connected
<1>4. e # "RESET_ADV" => ("RESET_ADV" \in appEvents' <=> "RESET_ADV" \in appEvents)
  BY DEF AppHandles
<1> QED BY <1>1, <1>2, <1>3, <1>4

(* The application's turn leaves the stop to the tasks before it.          *)
LEMMA NewIntervalEnds ==
    ASSUME Advertising, gapQ = <<>>, NEW i, SetNewAdvInterval(i),
           UNCHANGED <<advEnabled, roleQ, llEvent>>, late' = (llEvent # "none")
    PROVE  Ending' /\ role' = "WAITING_AFTER_TIMEOUT"
<1>1. roleQ = <<>> /\ \/ ll = "adv" /\ llEvent = "none"
                      \/ ll = "conn" /\ llEvent = "connected"
  BY Queues DEF Advertising, Coming
<1>2. adv' = "ENDING" /\ gapQ' = <<"enable">> /\ ll' = IF ll = "conn" THEN "conn" ELSE "idle"
  BY Queues DEF Advertising, SetNewAdvInterval, EndDiscoverable, ToGap
<1>3. BehindGap("enable", "idle")'
  BY <1>1, <1>2 DEF BehindGap
<1>4. Again' /\ role' = "WAITING_AFTER_TIMEOUT"
  BY DEF Again, SetNewAdvInterval, Advertising
<1>5. llEvent' = "connected" => late'
  BY <1>1
<1> QED BY <1>1, <1>2, <1>3, <1>4, <1>5 DEF Ending

LEMMA AdvMeasureKeeps == IInv /\ AdvMeasure => IInv'
<1> SUFFICES ASSUME IInv, AdvMeasure PROVE IInv'
  OBVIOUS
<1>1. UNCHANGED <<advEnabled, roleQ, llEvent, battTimer>> /\ AppHandles("ADV_BROADCAST")
  BY DEF AdvMeasure
<1>2. CASE SetNewAdvInterval("user") /\ advEnabled
  <2>1. Ending' /\ role' = "WAITING_AFTER_TIMEOUT"
    BY <1>1, <1>2, AppSees, NewIntervalEnds
  <2>2. role = "ADVERTISING" /\ advEnabled
    BY <1>1, <1>2, AppSees DEF Advertising
  <2>3. ResetInv' /\ TimerInv'
    BY <1>1, <2>1, <2>2, AppSees DEF IInv, ResetInv, TimerInv, NotYetOn
  <2> QED BY <2>1, <2>3 DEF IInv, Phase
<1>3. CASE NoNewInterval
  <2>1. Phase'
    BY <1>1, <1>3, AppSees, SamePhase DEF NoNewInterval, hostVars, linkVars
  <2>2. ResetInv' /\ TimerInv'
    BY <1>1, <1>3, AppSees DEF IInv, NoNewInterval, ResetInv, TimerInv, NotYetOn
  <2> QED BY <2>1, <2>2 DEF IInv
<1> QED BY <1>2, <1>3 DEF AdvMeasure

LEMMA KeyReleasedKeeps == IInv /\ KeyReleased => IInv'
<1> SUFFICES ASSUME IInv, KeyReleased PROVE IInv'
  OBVIOUS
<1>1. UNCHANGED <<advEnabled, roleQ, llEvent, battTimer>> /\ AppHandles("KEY_CHANGE")
  BY DEF KeyReleased
<1>2. CASE SetNewAdvInterval("fast") /\ advEnabled
  <2>1. Ending' /\ role' = "WAITING_AFTER_TIMEOUT"
    BY <1>1, <1>2, AppSees, NewIntervalEnds
  <2>2. role = "ADVERTISING" /\ advEnabled
    BY <1>1, <1>2, AppSees DEF Advertising
  <2>3. ResetInv' /\ TimerInv'
    BY <1>1, <2>1, <2>2, AppSees DEF IInv, ResetInv, TimerInv, NotYetOn
  <2> QED BY <2>1, <2>3 DEF IInv, Phase
<1>3. CASE NoNewInterval
  <2>1. Phase'
    BY <1>1, <1>3, AppSees, SamePhase DEF NoNewInterval, hostVars, linkVars
  <2>2. ResetInv' /\ TimerInv'
    BY <1>1, <1>3, AppSees DEF IInv, NoNewInterval, ResetInv, TimerInv, NotYetOn
  <2> QED BY <2>1, <2>2 DEF IInv
<1> QED BY <1>2, <1>3 DEF KeyReleased

LEMMA ResetAdvKeeps == IInv /\ ResetAdv => IInv'
<1> SUFFICES ASSUME IInv, ResetAdv PROVE IInv'
  OBVIOUS
<1>1. AppHandles("RESET_ADV") /\ UNCHANGED <<role, roleQ, adv, gapQ, ll, llEvent, battTimer>>
  BY DEF ResetAdv, linkVars
<1>2. role = "STARTED" /\ ~advEnabled
  BY <1>1 DEF IInv, ResetInv, NotYetOn, AppHandles
<1>3. Configuring
  BY <1>1, <1>2, AppSees DEF Advertising, Connected
<1>4. advEnabled' /\ startAdv'
  BY <1>2 DEF ResetAdv
<1>5. Starting'
  BY <1>1, <1>2, <1>3, <1>4, AppSees DEF Configuring, Starting, Resting, Quiet
<1>6. "RESET_ADV" \notin appEvents'
  BY <1>1 DEF AppHandles
<1>7. ResetInv' /\ TimerInv'
  BY <1>1, <1>2, <1>4, <1>6 DEF ResetInv, TimerInv, NotYetOn
<1> QED BY <1>5, <1>7 DEF IInv, Phase

LEMMA CmdRebootKeeps == IInv /\ CmdReboot => IInv'
<1> SUFFICES ASSUME IInv, CmdReboot PROVE IInv'
  OBVIOUS
<1>1. AppHandles("CMDDATA") /\ UNCHANGED <<hostVars, linkVars, battTimer>>
  BY DEF CmdReboot
<1>2. Phase'
  BY <1>1, AppSees, SamePhase
<1>3. ResetInv' /\ TimerInv'
  BY <1>1, AppSees DEF IInv, ResetInv, TimerInv, NotYetOn, hostVars
<1> QED BY <1>2, <1>3 DEF IInv

-----------------------------------------------------------------------------
(* The link: what an interrupt leaves, and the task that passes it on.     *)
LinkMoves ==
    \/ /\ ll = "adv" /\ llEvent = "none" /\ ll' = "conn" /\ llEvent' = "connected"
       /\ UNCHANGED gapQ
    \/ /\ ll = "conn" /\ llEvent = "none" /\ ll' = "idle" /\ llEvent' \in Reasons
       /\ UNCHANGED gapQ
    \/ /\ llEvent # "none" /\ llEvent' = "none" /\ gapQ' = Append(gapQ, llEvent)
       /\ UNCHANGED ll

LEMMA NotNone == "none" \notin Reasons /\ "connected" \notin Reasons
BY RoleAssumption

LEMMA BehindMoves ==
    ASSUME NEW b, NEW x, BehindGap(b, x), x \in {"adv", "idle"}, LinkMoves
    PROVE  BehindGap(b, x)'
<1>1. CASE gapQ = <<b>> /\ ll = x /\ llEvent = "none"
  <2>1. gapQ' = <<b>> /\ ll' = "conn" /\ llEvent' = "connected"
    BY <1>1 DEF LinkMoves
  <2> QED BY <2>1 DEF BehindGap
<1>2. CASE gapQ = <<b>> /\ ll = "conn" /\ llEvent = "connected"
  <2>1. gapQ' = <<b, "connected">> /\ ll' = "conn" /\ llEvent' = "none"
    BY <1>2, Queues DEF LinkMoves
  <2> QED BY <2>1 DEF BehindGap
<1>3. CASE gapQ = <<b, "connected">> /\ ll = "conn" /\ llEvent = "none"
  <2>1. gapQ' = <<b, "connected">> /\ ll' = "idle" /\ llEvent' \in Reasons
    BY <1>3 DEF LinkMoves
  <2> QED BY <2>1 DEF BehindGap
<1>4. CASE gapQ = <<b, "connected">> /\ ll = "idle" /\ llEvent \in Reasons
  <2>1. gapQ' = <<b, "connected", llEvent>> /\ ll' = "idle" /\ llEvent' = "none"
    BY <1>4, NotNone, Queues DEF LinkMoves
  <2> QED BY <1>4, <2>1 DEF BehindGap
<1>5. ~(ll = "idle" /\ llEvent = "none")
  BY DEF LinkMoves
<1> QED BY <1>1, <1>2, <1>3, <1>4, <1>5 DEF BehindGap

LEMMA ComingMoves ==
    ASSUME NEW x, Coming(x), x \in {"adv", "idle"}, LinkMoves
    PROVE  Coming(x)'
<1>1. CASE gapQ = <<>> /\ ll = x /\ llEvent = "none"
  <2>1. gapQ' = <<>> /\ ll' = "conn" /\ llEvent' = "connected"
    BY <1>1 DEF LinkMoves
  <2> QED BY <2>1 DEF Coming
<1>2. CASE gapQ = <<>> /\ ll = "conn" /\ llEvent = "connected"
  <2>1. gapQ' = <<"connected">> /\ ll' = "conn" /\ llEvent' = "none"
    BY <1>2, Queues DEF LinkMoves
  <2> QED BY <2>1 DEF Coming
<1>3. CASE gapQ = <<"connected">> /\ ll = "conn" /\ llEvent = "none"
  <2>1. gapQ' = <<"connected">> /\ ll' = "idle" /\ llEvent' \in Reasons
    BY <1>3 DEF LinkMoves
  <2> QED BY <2>1 DEF Coming
<1>4. CASE gapQ = <<"connected">> /\ ll = "idle" /\ llEvent \in Reasons
  <2>1. gapQ' = <<"connected", llEvent>> /\ ll' = "idle" /\ llEvent' = "none"
    BY <1>4, NotNone, Queues DEF LinkMoves
  <2> QED BY <1>4, <2>1 DEF Coming
<1>5. ~(ll = "idle" /\ llEvent = "none")
  BY DEF LinkMoves
<1> QED BY <1>1, <1>2, <1>3, <1>4, <1>5 DEF Coming

LEMMA LinkBehindMoves ==
    ASSUME NEW b, LinkBehind(b), LinkMoves, UNCHANGED roleQ
    PROVE  LinkBehind(b)'
BY NotNone, Queues DEF LinkBehind, LinkMoves

LEMMA LinkNextMoves ==
    ASSUME LinkNext, LinkMoves, UNCHANGED roleQ
    PROVE  LinkNext'
BY NotNone, Queues DEF LinkNext, LinkMoves

LEMMA LinkKnownMoves ==
    ASSUME LinkKnown, LinkMoves, UNCHANGED roleQ
    PROVE  LinkKnown'
BY NotNone, Queues DEF LinkKnown, LinkMoves

LEMMA LinkMovesKeep ==
    ASSUME IInv, LinkMoves, late' = late \/ llEvent' = "none",
           UNCHANGED <<role, advEnabled, startAdv, roleQ, adv, appEvents, battTimer>>
    PROVE  IInv'
<1>1. ResetInv' /\ TimerInv'
  BY DEF IInv, ResetInv, TimerInv, NotYetOn
<1>2. CASE Booting \/ Configuring \/ Starting \/ Setting
  BY <1>2 DEF Booting, Configuring, Starting, Setting, Quiet, LinkMoves
<1>3. CASE Enabling
  <2>1. Enabling'
    BY <1>3, BehindMoves DEF Enabling, Resting
  <2> QED BY <1>1, <2>1 DEF IInv, Phase
<1>4. CASE Made
  <2>1. Made'
    BY <1>4, ComingMoves DEF Made, Resting
  <2> QED BY <1>1, <2>1 DEF IInv, Phase
<1>5. CASE MadeLinked
  <2>1. MadeLinked'
    BY <1>5, LinkBehindMoves DEF MadeLinked, Resting
  <2> QED BY <1>1, <2>1 DEF IInv, Phase
<1>6. CASE Advertising
  <2>1. Advertising'
    BY <1>6, ComingMoves DEF Advertising
  <2> QED BY <1>1, <2>1 DEF IInv, Phase
<1>7. CASE AdvertisingLinked
  <2>1. AdvertisingLinked'
    BY <1>7, LinkNextMoves DEF AdvertisingLinked
  <2> QED BY <1>1, <2>1 DEF IInv, Phase
<1>8. CASE Ending
  <2>1. BehindGap("enable", "idle")'
    BY <1>8, BehindMoves DEF Ending
  <2>2. llEvent' # "connected"
    BY <1>8, NotNone DEF Ending, BehindGap, LinkMoves
  <2>3. Ending'
    BY <1>8, <2>1, <2>2 DEF Ending, Again
  <2> QED BY <1>1, <2>3 DEF IInv, Phase
<1>9. CASE Ended
  <2>1. Coming("idle")'
    BY <1>9, ComingMoves DEF Ended
  <2>2. llEvent' # "connected"
    BY <1>9, NotNone DEF Ended, Coming, LinkMoves
  <2>3. Ended'
    BY <1>9, <2>1, <2>2 DEF Ended, Again
  <2> QED BY <1>1, <2>3 DEF IInv, Phase
<1>10. CASE EndedLinked
  <2>1. EndedLinked'
    BY <1>10, LinkBehindMoves DEF EndedLinked, Again
  <2> QED BY <1>1, <2>1 DEF IInv, Phase
<1>11. CASE AgainLinked
  <2>1. AgainLinked'
    BY <1>11, LinkNextMoves DEF AgainLinked, Again
  <2> QED BY <1>1, <2>1 DEF IInv, Phase
<1>12. CASE Connected
  <2>1. Connected'
    BY <1>12, LinkKnownMoves DEF Connected
  <2> QED BY <1>1, <2>1 DEF IInv, Phase
<1> QED
  BY <1>2, <1>3, <1>4, <1>5, <1>6, <1>7, <1>8, <1>9, <1>10, <1>11, <1>12 DEF IInv, Phase

(* The other inputs only add events, never the first start's.              *)
LEMMA EventsKeep ==
    ASSUME IInv, UNCHANGED <<hostVars, linkVars, late, battTimer>>,
           "RESET_ADV" \in appEvents' <=> "RESET_ADV" \in appEvents
    PROVE  IInv'
<1>1. Phase'
  BY SamePhase DEF IInv
<1>2. ResetInv' /\ TimerInv'
  BY DEF IInv, ResetInv, TimerInv, NotYetOn, hostVars
<1> QED BY <1>1, <1>2 DEF IInv

LEMMA NextKeeps == IInv /\ [Next]_vars => IInv'
<1> SUFFICES ASSUME IInv, [Next]_vars PROVE IInv'
  OBVIOUS
<1>1. CASE LlTask
  <2>1. LinkMoves
    BY <1>1 DEF LlTask, ToGap, LinkMoves
  <2> QED BY <1>1, <2>1, LinkMovesKeep DEF LlTask, appVars
<1>2. CASE Connect
  <2>1. LinkMoves
    BY <1>2 DEF Connect, hostVars, LinkMoves
  <2> QED BY <1>2, <2>1, LinkMovesKeep DEF Connect, hostVars, appVars
<1>3. ASSUME NEW r \in Reasons, Disconnect(r) PROVE IInv'
  <2>1. LinkMoves
    BY <1>3 DEF Disconnect, hostVars, LinkMoves
  <2> QED BY <1>3, <2>1, LinkMovesKeep DEF Disconnect, hostVars, appVars
<1>4. CASE AdvEvent \/ KeyEdge \/ WriteCmd
  BY <1>4, EventsKeep DEF AdvEvent, KeyEdge, WriteCmd
<1>5. CASE App
  BY <1>5, AdvMeasureKeeps, ResetAdvKeeps, KeyReleasedKeeps, CmdRebootKeeps DEF App
<1>6. CASE UNCHANGED vars
  BY <1>6, EventsKeep DEF vars, appVars
<1> QED
  BY <1>1, <1>2, <1>3, <1>4, <1>5, <1>6, GapKeeps, RoleKeeps DEF Next, Tasks, Environment

-----------------------------------------------------------------------------
(* Types.                                                                  *)
TypeInv ==
    /\ advEnabled \in BOOLEAN /\ startAdv \in BOOLEAN
    /\ late \in BOOLEAN /\ battTimer \in BOOLEAN /\ reboot \in BOOLEAN
    /\ appEvents \subseteq {"ADV_BROADCAST", "RESET_ADV", "KEY_CHANGE", "CMDDATA"}
    /\ interval \in {"user", "fast"} /\ llInterval \in {"user", "fast"}
    /\ reload \in 0 .. FastEvents
    /\ inputs \in 0 .. MaxInputs

LEMMA NotifyTypes ==
    ASSUME TypeInv, NEW s, Notify(s)
    PROVE  /\ battTimer' \in BOOLEAN /\ reload' \in 0 .. FastEvents
           /\ appEvents' \subseteq {"ADV_BROADCAST", "RESET_ADV", "KEY_CHANGE", "CMDDATA"}
           /\ UNCHANGED <<interval, reboot>>
<1>1. battTimer' \in BOOLEAN
  BY DEF TypeInv, Notify
<1>2. reload' \in 0 .. FastEvents
  BY RoleAssumption DEF TypeInv, Notify
<1>3. appEvents' \subseteq {"ADV_BROADCAST", "RESET_ADV", "KEY_CHANGE", "CMDDATA"}
  BY DEF TypeInv, Notify
<1> QED BY <1>1, <1>2, <1>3 DEF Notify

LEMMA RunsTypes == Runs => late' \in BOOLEAN
BY DEF Runs

LEMMA GapTypes == TypeInv /\ Gap => TypeInv'
<1> SUFFICES ASSUME TypeInv, Gap PROVE TypeInv'
  OBVIOUS
<1>1. UNCHANGED <<advEnabled, startAdv, appVars, llInterval, inputs>> /\ Runs
  BY DEF Gap, GapAdvData, GapScanRsp, GapParams, GapEnable, GapConnected, GapDisconnected, GapHandles
<1> QED BY <1>1, RunsTypes DEF TypeInv, appVars

LEMMA RoleTypes == TypeInv /\ Role => TypeInv'
<1> SUFFICES ASSUME TypeInv, Role PROVE TypeInv'
  OBVIOUS
<1>1. late' \in BOOLEAN
  BY RunsTypes DEF Role, InitDone, AdvDataDone, ScanRspDone, MakeDone, EndDone, LinkEstablished,
     LinkTerminated, SoftReset, StartAdvertising, RoleHandles
<1>a. advEnabled' \in BOOLEAN /\ startAdv' \in BOOLEAN
  BY DEF Role, InitDone, AdvDataDone, ScanRspDone, MakeDone, EndDone, LinkEstablished,
         LinkTerminated, SoftReset, StartAdvertising, TypeInv
<1>2. ASSUME NEW s, Notify(s), UNCHANGED <<llInterval, inputs>>
      PROVE  TypeInv'
  BY <1>1, <1>a, <1>2, NotifyTypes DEF TypeInv
<1>3. CASE InitDone \/ MakeDone \/ LinkEstablished
  BY <1>2, <1>3 DEF InitDone, MakeDone, LinkEstablished
<1>4. CASE EndDone
  BY <1>2, <1>4 DEF EndDone
<1>5. ASSUME NEW r \in Reasons, LinkTerminated(r) PROVE TypeInv'
  BY <1>2, <1>5 DEF LinkTerminated
<1>6. CASE AdvDataDone \/ ScanRspDone
  BY <1>1, <1>a, <1>6 DEF AdvDataDone, ScanRspDone, TypeInv, appVars
<1>7. CASE SoftReset
  <2>1. reload' \in 0 .. FastEvents
    BY <1>7, RoleAssumption DEF SoftReset
  <2> QED BY <1>1, <1>a, <1>7, <2>1 DEF SoftReset, TypeInv
<1>8. CASE StartAdvertising
  BY <1>1, <1>a, <1>8 DEF StartAdvertising, MakeDiscoverable, TypeInv, appVars
<1> QED BY <1>3, <1>4, <1>5, <1>6, <1>7, <1>8 DEF Role

LEMMA AppTypes == TypeInv /\ App => TypeInv'
<1> SUFFICES ASSUME TypeInv, App PROVE TypeInv'
  OBVIOUS
<1>1. ASSUME NEW e, AppHandles(e)
      PROVE  /\ late' \in BOOLEAN
             /\ appEvents' \subseteq {"ADV_BROADCAST", "RESET_ADV", "KEY_CHANGE", "CMDDATA"}
  BY <1>1, RunsTypes DEF AppHandles, TypeInv
<1>2. CASE AdvMeasure
  <2>1. reload' \in 0 .. FastEvents
    <3>1. reload' = reload \/ (reload # 0 /\ reload' = reload - 1)
      BY <1>2 DEF AdvMeasure
    <3>2. reload \in 0 .. FastEvents /\ FastEvents \in Nat
      BY RoleAssumption DEF TypeInv
    <3> QED BY <3>1, <3>2
  <2>2. interval' \in {"user", "fast"}
    BY <1>2 DEF AdvMeasure, SetNewAdvInterval, NoNewInterval, TypeInv
  <2>3. advEnabled' \in BOOLEAN /\ startAdv' \in BOOLEAN
    BY <1>2 DEF AdvMeasure, SetNewAdvInterval, NoNewInterval, TypeInv
  <2> QED BY <1>1, <1>2, <2>1, <2>2, <2>3 DEF AdvMeasure, TypeInv
<1>3. CASE KeyReleased
  <2>1. reload' \in 0 .. FastEvents
    BY <1>3, RoleAssumption DEF KeyReleased, TypeInv
  <2>2. interval' \in {"user", "fast"}
    BY <1>3 DEF KeyReleased, SetNewAdvInterval, NoNewInterval, TypeInv
  <2>3. advEnabled' \in BOOLEAN /\ startAdv' \in BOOLEAN
    BY <1>3 DEF KeyReleased, SetNewAdvInterval, NoNewInterval, TypeInv
  <2> QED BY <1>1, <1>3, <2>1, <2>2, <2>3 DEF KeyReleased, TypeInv
<1>4. CASE ResetAdv
  BY <1>1, <1>4 DEF ResetAdv, TypeInv
<1>5. CASE CmdReboot
  BY <1>1, <1>5 DEF CmdReboot, TypeInv, hostVars
<1> QED BY <1>2, <1>3, <1>4, <1>5 DEF App

LEMMA NextTypes == TypeInv /\ [Next]_vars => TypeInv'
<1> SUFFICES ASSUME TypeInv, [Next]_vars PROVE TypeInv'
  OBVIOUS
<1>1. CASE LlTask
  BY <1>1 DEF LlTask, TypeInv, appVars
<1>2. Input => inputs' \in 0 .. MaxInputs
  BY RoleAssumption DEF Input, TypeInv
<1>3. CASE Environment
  BY <1>2, <1>3 DEF Environment, Connect, Disconnect, AdvEvent, KeyEdge, WriteCmd, TypeInv,
     appVars, hostVars
<1>4. CASE UNCHANGED vars
  BY <1>4 DEF vars, hostVars, appVars, TypeInv
<1> QED BY <1>1, <1>3, <1>4, GapTypes, RoleTypes, AppTypes DEF Next, Tasks

LinkTypes == ll \in {"idle", "adv", "conn"} /\ llEvent \in {"none", "connected"} \union Reasons

LEMMA GapWords ==
    /\ <<>> \in Seq(GapMsgs)
    /\ {"advData", "scanRsp", "params", "enable", "connected"} \subseteq GapMsgs
    /\ Reasons \subseteq GapMsgs
    /\ \A a \in GapMsgs : <<a>> \in Seq(GapMsgs)
    /\ \A a, b \in GapMsgs : <<a, b>> \in Seq(GapMsgs)
    /\ \A a, b, c \in GapMsgs : <<a, b, c>> \in Seq(GapMsgs)
BY DEF GapMsgs

LEMMA RoleWords ==
    /\ <<>> \in Seq(RoleMsgs)
    /\ {"INIT_DONE", "ADV_DATA_DONE", "SCAN_RSP_DONE", "MAKE_DONE", "END_DONE",
        "LINK_ESTABLISHED"} \subseteq RoleMsgs
    /\ Reasons \subseteq RoleMsgs
    /\ \A a \in RoleMsgs : <<a>> \in Seq(RoleMsgs)
    /\ \A a, b \in RoleMsgs : <<a, b>> \in Seq(RoleMsgs)
    /\ \A a, b, c \in RoleMsgs : <<a, b, c>> \in Seq(RoleMsgs)
BY DEF RoleMsgs

LEMMA PhaseTypes ==
    ASSUME Phase
    PROVE  /\ role \in Roles
           /\ adv \in {"NONE", "SET_PARAMS", "SET_MODE", "ADVERTISING", "ENDING"}
           /\ roleQ \in Seq(RoleMsgs) /\ gapQ \in Seq(GapMsgs) /\ LinkTypes
<1> DEFINE Good == roleQ \in Seq(RoleMsgs) /\ gapQ \in Seq(GapMsgs) /\ LinkTypes
<1>1. role \in Roles /\ adv \in {"NONE", "SET_PARAMS", "SET_MODE", "ADVERTISING", "ENDING"}
  BY DEF Phase, Booting, Configuring, Starting, Setting, Enabling, Made, MadeLinked,
         Advertising, AdvertisingLinked, Ending, Ended, EndedLinked, AgainLinked, Connected,
         Quiet, Resting, Again, Roles
<1>2. ASSUME NEW b \in GapMsgs, NEW x \in {"idle", "adv", "conn"}, BehindGap(b, x)
      PROVE  LinkTypes /\ gapQ \in Seq(GapMsgs)
  BY <1>2, GapWords DEF BehindGap, LinkTypes
<1>3. ASSUME NEW x \in {"idle", "adv", "conn"}, Coming(x)
      PROVE  LinkTypes /\ gapQ \in Seq(GapMsgs)
  BY <1>3, GapWords DEF Coming, LinkTypes
<1>4. ASSUME NEW b \in RoleMsgs, LinkBehind(b)
      PROVE  Good
  BY <1>4, GapWords, RoleWords DEF LinkBehind, LinkTypes
<1>5. LinkNext \/ LinkKnown => Good
  BY GapWords, RoleWords DEF LinkNext, LinkKnown, LinkTypes
<1>6. CASE Booting \/ Configuring \/ Starting \/ Setting
  <2>1. LinkTypes
    BY <1>6 DEF Booting, Configuring, Starting, Setting, Quiet, LinkTypes
  <2>2. roleQ \in {<<>>, <<"INIT_DONE">>, <<"ADV_DATA_DONE">>, <<"SCAN_RSP_DONE">>}
    BY <1>6 DEF Booting, Configuring, Starting, Setting
  <2>3. gapQ \in {<<>>, <<"advData">>, <<"scanRsp">>, <<"params">>}
    BY <1>6 DEF Booting, Configuring, Starting, Setting
  <2>4. roleQ \in Seq(RoleMsgs)
    BY <2>2, RoleWords
  <2>5. gapQ \in Seq(GapMsgs)
    BY <2>3, GapWords
  <2> QED BY <1>1, <2>1, <2>4, <2>5
<1>7. CASE Enabling \/ Ending
  <2>1. LinkTypes /\ gapQ \in Seq(GapMsgs)
    <3>1. "enable" \in GapMsgs /\ "adv" \in {"idle", "adv", "conn"} /\ "idle" \in {"idle", "adv", "conn"}
      BY GapWords
    <3>2. BehindGap("enable", "adv") \/ BehindGap("enable", "idle")
      BY <1>7 DEF Enabling, Ending
    <3> QED BY <1>2, <3>1, <3>2
  <2>2. roleQ = <<>>
    BY <1>7 DEF Enabling, Ending
  <2> QED BY <1>1, <2>1, <2>2, RoleWords
<1>8. CASE Made \/ Advertising \/ Ended
  <2>1. LinkTypes /\ gapQ \in Seq(GapMsgs)
    <3>1. "adv" \in {"idle", "adv", "conn"} /\ "idle" \in {"idle", "adv", "conn"}
      OBVIOUS
    <3>2. Coming("adv") \/ Coming("idle")
      BY <1>8 DEF Made, Advertising, Ended
    <3> QED BY <1>3, <3>1, <3>2
  <2>2. roleQ \in {<<>>, <<"MAKE_DONE">>, <<"END_DONE">>}
    BY <1>8 DEF Made, Advertising, Ended
  <2>3. roleQ \in Seq(RoleMsgs)
    BY <2>2, RoleWords
  <2> QED BY <1>1, <2>1, <2>3
<1>9. CASE MadeLinked \/ EndedLinked
  <2>1. "MAKE_DONE" \in RoleMsgs /\ "END_DONE" \in RoleMsgs
    BY RoleWords
  <2>2. LinkBehind("MAKE_DONE") \/ LinkBehind("END_DONE")
    BY <1>9 DEF MadeLinked, EndedLinked
  <2> QED BY <1>1, <1>4, <2>1, <2>2
<1>10. CASE AdvertisingLinked \/ AgainLinked \/ Connected
  <2>1. LinkNext \/ LinkKnown
    BY <1>10 DEF AdvertisingLinked, AgainLinked, Connected
  <2> QED BY <1>1, <1>5, <2>1
<1> QED BY <1>1, <1>6, <1>7, <1>8, <1>9, <1>10 DEF Phase

-----------------------------------------------------------------------------
(* The variables keep their types.                                         *)
THEOREM TypeCorrect == Spec => []TypeOK
<1>1. Init => TypeInv
  <2>1. Init => reload \in 0 .. FastEvents /\ inputs \in 0 .. MaxInputs
    BY RoleAssumption DEF Init
  <2> QED BY <2>1 DEF Init, TypeInv
<1>2. IInv /\ TypeInv => TypeOK
  BY PhaseTypes DEF IInv, TypeInv, TypeOK, LinkTypes
<1> QED BY <1>1, <1>2, InitHolds, NextKeeps, NextTypes, PTL DEF Spec

(* Whenever the application may act, the role, the advertising manager and *)
(* the link layer agree, whatever links came and went before: a restart    *)
(* of the advertising never meets an unfinished stop.                      *)
THEOREM LayersAlwaysAgree == Spec => []LayersAgree
<1>1. IInv => LayersAgree
  <2> SUFFICES ASSUME IInv, AppTurn, llEvent = "none" PROVE LayersAgree
    BY DEF LayersAgree
  <2>1. Configuring \/ Advertising \/ Connected
    BY NoMessages DEF IInv, AppTurn
  <2>2. CASE Configuring
    BY <2>2 DEF IInv, ResetInv, NotYetOn, Configuring, Quiet, LayersAgree
  <2>3. CASE Advertising
    BY <2>3, Queues DEF Advertising, Coming, AppTurn, LayersAgree
  <2>4. CASE Connected
    BY <2>4, NotNone, Queues DEF Connected, LinkKnown, AppTurn, LayersAgree
  <2> QED BY <2>1, <2>2, <2>3, <2>4
<1> QED BY <1>1, InitHolds, NextKeeps, PTL DEF Spec

(* The sensors have one driver at a time, however a connection ended.      *)
THEOREM OneDriver == Spec => []OneMeasurer
<1>1. IInv /\ TypeOK => OneMeasurer
  <2> SUFFICES ASSUME IInv, AppTurn, battTimer \in BOOLEAN
               PROVE  battTimer = (role = "CONNECTED")
    BY DEF OneMeasurer, TypeOK
  <2>1. Configuring \/ Advertising \/ Connected
    BY NoMessages DEF IInv, AppTurn
  <2>2. CASE Configuring
    BY <2>2 DEF IInv, TimerInv, NotYetOn, Configuring
  <2>3. CASE Advertising
    BY <2>3 DEF IInv, TimerInv, Advertising
  <2>4. CASE Connected
    BY <2>4 DEF IInv, TimerInv, Connected
  <2> QED BY <2>1, <2>2, <2>3, <2>4
<1> QED BY <1>1, TypeCorrect, InitHolds, NextKeeps, PTL DEF Spec

(* The role never meets an unfinished stop: a start does not fail.         *)
THEOREM NeverInError == Spec => [](role # "ERROR")
<1>1. IInv => role # "ERROR"
  BY DEF IInv, Phase, Booting, Configuring, Starting, Setting, Enabling, Made, MadeLinked,
         Advertising, AdvertisingLinked, Ending, Ended, EndedLinked, AgainLinked, Connected,
         Resting, Again
<1> QED BY <1>1, InitHolds, NextKeeps, PTL DEF Spec
-----------------------------------------------------------------------------
(* How many handlers the tasks before the application's still have to run: *)
(* each message counts itself and all that will follow from it, a start of *)
(* the advertising the four handlers it takes.                             *)
GapCost ==
    [m \in GapMsgs |-> CASE m = "advData" -> 8
                         [] m = "scanRsp" -> 6
                         [] m = "params"  -> 3
                         [] m \in {"enable", "connected"} -> 2
                         [] OTHER -> 11]

RoleCost ==
    [m \in RoleMsgs |-> CASE m = "INIT_DONE"     -> 9
                          [] m = "ADV_DATA_DONE" -> 7
                          [] m = "SCAN_RSP_DONE" -> 5
                          [] m \in {"MAKE_DONE", "END_DONE", "LINK_ESTABLISHED"} -> 1
                          [] OTHER -> 10]

QueueCost(q, cost) ==
    (IF Len(q) >= 1 THEN cost[q[1]] ELSE 0) + (IF Len(q) >= 2 THEN cost[q[2]] ELSE 0)
       + (IF Len(q) >= 3 THEN cost[q[3]] ELSE 0)

StartCost == IF startAdv THEN 4 ELSE 0
LinkCost  == IF llEvent = "none" THEN 0 ELSE IF llEvent = "connected" THEN 3 ELSE 12

HostWork == QueueCost(gapQ, GapCost) + QueueCost(roleQ, RoleCost) + StartCost + LinkCost

LEMMA Costs ==
    /\ GapCost \in [GapMsgs -> Nat \ {0}] /\ RoleCost \in [RoleMsgs -> Nat \ {0}]
    /\ GapCost["advData"] = 8 /\ GapCost["scanRsp"] = 6 /\ GapCost["params"] = 3
    /\ GapCost["enable"] = 2 /\ GapCost["connected"] = 2
    /\ \A r \in Reasons : GapCost[r] = 11 /\ RoleCost[r] = 10
    /\ RoleCost["INIT_DONE"] = 9 /\ RoleCost["ADV_DATA_DONE"] = 7
    /\ RoleCost["SCAN_RSP_DONE"] = 5 /\ RoleCost["MAKE_DONE"] = 1
    /\ RoleCost["END_DONE"] = 1 /\ RoleCost["LINK_ESTABLISHED"] = 1
BY RoleAssumption DEF GapCost, RoleCost, GapMsgs, RoleMsgs

(* A message that is taken or sent changes the work by its own cost.       *)
LEMMA ShortCosts ==
    ASSUME NEW S, NEW c \in [S -> Nat \ {0}]
    PROVE  /\ QueueCost(<<>>, c) = 0
           /\ \A a \in S : QueueCost(<<a>>, c) = c[a]
           /\ \A a, b \in S : QueueCost(<<a, b>>, c) = c[a] + c[b]
           /\ \A a, b, d \in S : QueueCost(<<a, b, d>>, c) = c[a] + c[b] + c[d]
BY DEF QueueCost

LEMMA TakenCost ==
    ASSUME NEW S, NEW c \in [S -> Nat \ {0}], NEW q \in Seq(S), Len(q) <= 3
    PROVE  /\ QueueCost(q, c) \in Nat
           /\ QueueCost(q, c) = 0 <=> q = <<>>
           /\ q # <<>> => /\ Head(q) \in S
                          /\ QueueCost(Tail(q), c) = QueueCost(q, c) - c[Head(q)]
<1>0. Len(q) \in Nat /\ \A i \in 1 .. Len(q) : q[i] \in S /\ c[q[i]] \in Nat \ {0}
  OBVIOUS
<1>1. QueueCost(q, c) \in Nat /\ (Len(q) >= 1 => QueueCost(q, c) > 0)
  BY <1>0 DEF QueueCost
<1>2. CASE q = <<>>
  BY <1>2 DEF QueueCost
<1>3. CASE q # <<>>
  <2> DEFINE t == Tail(q)
  <2>1. Len(q) = 1 \/ Len(q) = 2 \/ Len(q) = 3
    <3>1. Len(q) # 0
      BY <1>3, EmptySeq
    <3>2. \A n \in Nat : n # 0 /\ n <= 3 => n = 1 \/ n = 2 \/ n = 3
      OBVIOUS
    <3>3. Len(q) \in Nat /\ Len(q) <= 3
      BY <1>0
    <3> QED BY <3>1, <3>2, <3>3
  <2>2. Head(q) = q[1]
    BY <1>3
  <2>3. Len(t) = Len(q) - 1 /\ \A i \in 1 .. Len(t) : t[i] = q[i + 1]
    BY <1>3, HeadTailProperties
  <2> HIDE DEF t
  <2>4. ASSUME Len(q) = 1 PROVE QueueCost(t, c) = QueueCost(q, c) - c[Head(q)]
    <3>1. Len(t) = 0
      BY <2>3, <2>4
    <3> QED BY <1>0, <2>2, <2>4, <3>1 DEF QueueCost
  <2>5. ASSUME Len(q) = 2 PROVE QueueCost(t, c) = QueueCost(q, c) - c[Head(q)]
    <3>1. Len(t) = 1 /\ t[1] = q[2]
      BY <2>3, <2>5
    <3> QED BY <1>0, <2>2, <2>5, <3>1 DEF QueueCost
  <2>6. ASSUME Len(q) = 3 PROVE QueueCost(t, c) = QueueCost(q, c) - c[Head(q)]
    <3>1. Len(t) = 2 /\ t[1] = q[2] /\ t[2] = q[3]
      BY <2>3, <2>6
    <3> QED BY <1>0, <2>2, <2>6, <3>1 DEF QueueCost
  <2>7. QueueCost(t, c) = QueueCost(q, c) - c[Head(q)]
    BY <2>1, <2>4, <2>5, <2>6
  <2>8. Head(q) \in S
    BY <1>0, <2>1, <2>2
  <2>9. Len(q) >= 1
    <3>1. \A n : n = 1 \/ n = 2 \/ n = 3 => n >= 1
      OBVIOUS
    <3> QED BY <2>1, <3>1
  <2> QED BY <1>1, <1>3, <2>7, <2>8, <2>9 DEF t
<1> QED BY <1>1, <1>2, <1>3

LEMMA SentCost ==
    ASSUME NEW S, NEW c \in [S -> Nat \ {0}], NEW q \in Seq(S), NEW m \in S,
           Len(Append(q, m)) <= 3
    PROVE  /\ QueueCost(Append(q, m), c) = QueueCost(q, c) + c[m]
           /\ Len(q) <= 3
<1>0. Len(q) \in Nat /\ (\A i \in 1 .. Len(q) : q[i] \in S /\ c[q[i]] \in Nat) /\ c[m] \in Nat
  OBVIOUS
<1>1. /\ Len(Append(q, m)) = Len(q) + 1 /\ Append(q, m)[Len(q) + 1] = m
      /\ \A i \in 1 .. Len(q) : Append(q, m)[i] = q[i]
  BY AppendProperties
<1> DEFINE t == Append(q, m)
<1>a. Len(t) = Len(q) + 1 /\ t[Len(q) + 1] = m /\ Len(q) <= 2
  BY <1>0, <1>1
<1>b. \A i \in 1 .. Len(q) : t[i] = q[i]
  BY <1>1
<1> HIDE DEF t
<1>2. ASSUME Len(q) = 0 PROVE QueueCost(t, c) = QueueCost(q, c) + c[m]
  BY <1>0, <1>a, <1>b, <1>2 DEF QueueCost
<1>3. ASSUME Len(q) = 1 PROVE QueueCost(t, c) = QueueCost(q, c) + c[m]
  BY <1>0, <1>a, <1>b, <1>3 DEF QueueCost
<1>4. ASSUME Len(q) = 2 PROVE QueueCost(t, c) = QueueCost(q, c) + c[m]
  BY <1>0, <1>a, <1>b, <1>4 DEF QueueCost
<1>5. QueueCost(t, c) = QueueCost(q, c) + c[m]
  <2>1. \A n \in Nat : n <= 2 => n = 0 \/ n = 1 \/ n = 2
    OBVIOUS
  <2>2. Len(q) = 0 \/ Len(q) = 1 \/ Len(q) = 2
    BY <1>0, <1>a, <2>1
  <2> QED BY <2>2, <1>2, <1>3, <1>4
<1>6. Len(q) <= 3
  BY <1>0, <1>a
<1> QED BY <1>5, <1>6 DEF t

-----------------------------------------------------------------------------
(* No queue grows beyond three messages, nor the work beyond twenty.       *)
LEMMA QueuesShort ==
    ASSUME Phase
    PROVE  Len(gapQ) \in 0 .. 3 /\ Len(roleQ) \in 0 .. 3
<1>1. /\ Len(<<>>) = 0
      /\ \A a, b, c : Len(<<a>>) = 1 /\ Len(<<a, b>>) = 2 /\ Len(<<a, b, c>>) = 3
  OBVIOUS
<1>2. ASSUME NEW b, NEW x, BehindGap(b, x) \/ Coming(x)
      PROVE  Len(gapQ) \in 0 .. 3
  BY <1>1, <1>2 DEF BehindGap, Coming
<1>3. ASSUME NEW b, LinkBehind(b) \/ LinkNext \/ LinkKnown
      PROVE  Len(gapQ) \in 0 .. 3 /\ Len(roleQ) \in 0 .. 3
  BY <1>1, <1>3 DEF LinkBehind, LinkNext, LinkKnown
<1>4. CASE Booting \/ Configuring \/ Starting \/ Setting
  BY <1>1, <1>4 DEF Booting, Configuring, Starting, Setting
<1>5. CASE Enabling \/ Made \/ Advertising \/ Ending \/ Ended
  <2>1. Len(roleQ) \in 0 .. 3
    BY <1>1, <1>5 DEF Enabling, Made, Advertising, Ending, Ended
  <2>2. \E b, x : BehindGap(b, x) \/ Coming(x)
    BY <1>5 DEF Enabling, Made, Advertising, Ending, Ended
  <2> QED BY <1>2, <2>1, <2>2
<1>6. CASE MadeLinked \/ AdvertisingLinked \/ EndedLinked \/ AgainLinked \/ Connected
  <2>1. \E b : LinkBehind(b) \/ LinkNext \/ LinkKnown
    BY <1>6 DEF MadeLinked, AdvertisingLinked, EndedLinked, AgainLinked, Connected
  <2> QED BY <1>3, <2>1
<1> QED BY <1>4, <1>5, <1>6 DEF Phase

LEMMA WorkIsNat ==
    ASSUME Phase
    PROVE  /\ QueueCost(gapQ, GapCost) \in Nat /\ QueueCost(roleQ, RoleCost) \in Nat
           /\ StartCost \in {0, 4} /\ LinkCost \in {0, 3, 12} /\ HostWork \in Nat
           /\ HostWork = 0 <=> AppTurn /\ llEvent = "none"
<1>a. gapQ \in Seq(GapMsgs) /\ roleQ \in Seq(RoleMsgs)
  BY PhaseTypes
<1>b. Len(gapQ) <= 3 /\ Len(roleQ) <= 3
  <2>1. \A n \in 0 .. 3 : n <= 3
    OBVIOUS
  <2> QED BY <2>1, QueuesShort
<1>c. GapCost \in [GapMsgs -> Nat \ {0}] /\ RoleCost \in [RoleMsgs -> Nat \ {0}]
  BY Costs
<1>1. QueueCost(gapQ, GapCost) \in Nat /\ (QueueCost(gapQ, GapCost) = 0 <=> gapQ = <<>>)
  BY <1>a, <1>b, <1>c, TakenCost
<1>2. QueueCost(roleQ, RoleCost) \in Nat /\ (QueueCost(roleQ, RoleCost) = 0 <=> roleQ = <<>>)
  BY <1>a, <1>b, <1>c, TakenCost
<1>3. StartCost \in {0, 4} /\ (StartCost = 0 <=> ~startAdv)
  BY DEF StartCost
<1>4. LinkCost \in {0, 3, 12} /\ (LinkCost = 0 <=> llEvent = "none")
  BY DEF LinkCost
<1>5. HostWork \in Nat
  BY <1>1, <1>2, <1>3, <1>4 DEF HostWork
<1>6. HostWork = 0 <=> /\ QueueCost(gapQ, GapCost) = 0 /\ QueueCost(roleQ, RoleCost) = 0
                       /\ StartCost = 0 /\ LinkCost = 0
  BY <1>1, <1>2, <1>3, <1>4 DEF HostWork
<1> QED BY <1>1, <1>2, <1>3, <1>4, <1>5, <1>6 DEF AppTurn

LEMMA WorkBounded == Phase => HostWork <= 20
<1> SUFFICES ASSUME Phase PROVE HostWork <= 20
  OBVIOUS
<1> DEFINE G == QueueCost(gapQ, GapCost)
           R == QueueCost(roleQ, RoleCost)
<1>0. G \in Nat /\ R \in Nat /\ StartCost \in {0, 4} /\ LinkCost \in {0, 3, 12}
  BY WorkIsNat
<1>c. /\ QueueCost(<<>>, GapCost) = 0 /\ QueueCost(<<>>, RoleCost) = 0
      /\ \A a \in GapMsgs : QueueCost(<<a>>, GapCost) = GapCost[a]
      /\ \A a, b \in GapMsgs : QueueCost(<<a, b>>, GapCost) = GapCost[a] + GapCost[b]
      /\ \A a, b, c \in GapMsgs :
            QueueCost(<<a, b, c>>, GapCost) = GapCost[a] + GapCost[b] + GapCost[c]
      /\ \A a \in RoleMsgs : QueueCost(<<a>>, RoleCost) = RoleCost[a]
      /\ \A a, b \in RoleMsgs : QueueCost(<<a, b>>, RoleCost) = RoleCost[a] + RoleCost[b]
      /\ \A a, b, c \in RoleMsgs :
            QueueCost(<<a, b, c>>, RoleCost) = RoleCost[a] + RoleCost[b] + RoleCost[c]
  BY Costs, ShortCosts
<1>l. /\ llEvent = "none" => LinkCost = 0
      /\ llEvent = "connected" => LinkCost = 3
      /\ llEvent \in Reasons => LinkCost = 12
  BY NotNone DEF LinkCost
<1>w. /\ {"advData", "scanRsp", "params", "enable", "connected"} \subseteq GapMsgs
      /\ Reasons \subseteq GapMsgs /\ Reasons \subseteq RoleMsgs
      /\ {"INIT_DONE", "ADV_DATA_DONE", "SCAN_RSP_DONE", "MAKE_DONE", "END_DONE",
          "LINK_ESTABLISHED"} \subseteq RoleMsgs
  BY GapWords, RoleWords
<1> HIDE DEF G, R
<1>1. ASSUME NEW x, BehindGap("enable", x) PROVE G + LinkCost <= 16
  BY <1>1, <1>c, <1>l, <1>w, Costs DEF BehindGap, G
<1>2. ASSUME NEW x, Coming(x) PROVE G + LinkCost <= 14
  BY <1>2, <1>c, <1>l, <1>w, Costs DEF Coming, G
<1>3. ASSUME NEW b \in {"MAKE_DONE", "END_DONE"}, LinkBehind(b) PROVE G + R + LinkCost <= 14
  <2>1. b \in RoleMsgs /\ RoleCost[b] = 1
    BY <1>w, Costs
  <2> QED BY <1>3, <1>c, <1>l, <1>w, <2>1, Costs DEF LinkBehind, G, R
<1>4. LinkNext \/ LinkKnown => G + R + LinkCost <= 13
  BY <1>c, <1>l, <1>w, Costs DEF LinkNext, LinkKnown, G, R
<1>5. HostWork = G + R + StartCost + LinkCost
  BY DEF HostWork, G, R
<1>6. CASE Booting \/ Configuring \/ Starting \/ Setting
  <2>1. LinkCost = 0
    BY <1>6, <1>l DEF Booting, Configuring, Starting, Setting, Quiet
  <2>2. G + R <= 9
    BY <1>6, <1>c, <1>w, Costs DEF Booting, Configuring, Starting, Setting, G, R
  <2> QED BY <1>0, <1>5, <2>1, <2>2
<1>7. CASE Enabling \/ Ending
  <2>1. R = 0 /\ (BehindGap("enable", "adv") \/ BehindGap("enable", "idle"))
    BY <1>7, <1>c DEF Enabling, Ending, R
  <2>2. G + LinkCost <= 16
    BY <1>1, <2>1
  <2> QED BY <1>0, <1>5, <2>1, <2>2
<1>8. CASE Made \/ Advertising \/ Ended
  <2>1. R <= 1
    BY <1>8, <1>c, <1>w, Costs DEF Made, Advertising, Ended, R
  <2>2. G + LinkCost <= 14
    <3>1. Coming("adv") \/ Coming("idle")
      BY <1>8 DEF Made, Advertising, Ended
    <3> QED BY <1>2, <3>1
  <2> QED BY <1>0, <1>5, <2>1, <2>2
<1>9. CASE MadeLinked \/ EndedLinked \/ AdvertisingLinked \/ AgainLinked \/ Connected
  <2>1. G + R + LinkCost <= 14
    <3>1. LinkBehind("MAKE_DONE") \/ LinkBehind("END_DONE") \/ LinkNext \/ LinkKnown
      BY <1>9 DEF MadeLinked, EndedLinked, AdvertisingLinked, AgainLinked, Connected
    <3> QED BY <1>0, <1>3, <1>4, <3>1
  <2> QED BY <1>0, <1>5, <2>1
<1> QED BY <1>6, <1>7, <1>8, <1>9 DEF Phase

-----------------------------------------------------------------------------
(* Every handler of those tasks takes work away.                           *)
Sized ==
    /\ gapQ \in Seq(GapMsgs) /\ roleQ \in Seq(RoleMsgs)
    /\ Len(gapQ) <= 3 /\ Len(roleQ) <= 3
    /\ QueueCost(gapQ, GapCost) \in Nat /\ QueueCost(roleQ, RoleCost) \in Nat
    /\ StartCost \in {0, 4} /\ LinkCost \in {0, 3, 12}

LEMMA PhaseSized == Phase => Sized
<1>1. \A n \in 0 .. 3 : n <= 3
  OBVIOUS
<1> QED BY <1>1, PhaseTypes, QueuesShort, WorkIsNat DEF Sized

LEMMA NextSized == Phase' => Sized'
BY PhaseSized, PTL

Measured == HostWork \in Nat

LEMMA NextWorkIsNat == Phase' => Measured'
<1>1. Phase => Measured
  BY WorkIsNat DEF Measured
<1> QED BY <1>1, PTL

LEMMA FromGap ==
    ASSUME Phase, gapQ # <<>>
    PROVE  /\ Tail(gapQ) \in Seq(GapMsgs) /\ Head(gapQ) \in GapMsgs
           /\ QueueCost(Tail(gapQ), GapCost) = QueueCost(gapQ, GapCost) - GapCost[Head(gapQ)]
<1>1. gapQ \in Seq(GapMsgs) /\ Len(gapQ) <= 3
  BY PhaseSized DEF Sized
<1>2. GapCost \in [GapMsgs -> Nat \ {0}]
  BY Costs
<1> QED BY <1>1, <1>2, TakenCost

LEMMA FromRole ==
    ASSUME Phase, roleQ # <<>>
    PROVE  /\ Head(roleQ) \in RoleMsgs
           /\ QueueCost(Tail(roleQ), RoleCost) = QueueCost(roleQ, RoleCost) - RoleCost[Head(roleQ)]
<1>1. roleQ \in Seq(RoleMsgs) /\ Len(roleQ) <= 3
  BY PhaseSized DEF Sized
<1>2. RoleCost \in [RoleMsgs -> Nat \ {0}]
  BY Costs
<1> QED BY <1>1, <1>2, TakenCost

LEMMA IntoGap ==
    ASSUME Phase', NEW q \in Seq(GapMsgs), NEW m \in GapMsgs, gapQ' = Append(q, m)
    PROVE  QueueCost(gapQ, GapCost)' = QueueCost(q, GapCost) + GapCost[m]
<1>1. Len(gapQ') <= 3
  BY NextSized DEF Sized
<1>2. GapCost \in [GapMsgs -> Nat \ {0}]
  BY Costs
<1> QED BY <1>1, <1>2, SentCost

LEMMA IntoRole ==
    ASSUME Phase, Phase', NEW m \in RoleMsgs, roleQ' = Append(roleQ, m)
    PROVE  QueueCost(roleQ, RoleCost)' = QueueCost(roleQ, RoleCost) + RoleCost[m]
<1>1. roleQ \in Seq(RoleMsgs) /\ Len(roleQ') <= 3
  BY PhaseSized, NextSized DEF Sized
<1>2. RoleCost \in [RoleMsgs -> Nat \ {0}]
  BY Costs
<1> QED BY <1>1, <1>2, SentCost

LEMMA GapWorks ==
    ASSUME Phase, Phase', Gap
    PROVE  HostWork' < HostWork
<1> DEFINE G == QueueCost(gapQ, GapCost)
           R == QueueCost(roleQ, RoleCost)
<1>0. /\ G \in Nat /\ R \in Nat /\ G' \in Nat /\ R' \in Nat
      /\ StartCost \in {0, 4} /\ LinkCost \in {0, 3, 12}
  BY PhaseSized, NextSized DEF Sized
<1>1. gapQ # <<>> /\ UNCHANGED <<startAdv, llEvent>>
  BY DEF Gap, GapAdvData, GapScanRsp, GapParams, GapEnable, GapConnected, GapDisconnected,
         GapHandles, GapTurn, linkVars
<1>2. StartCost' = StartCost /\ LinkCost' = LinkCost
  BY <1>1 DEF StartCost, LinkCost
<1>3. Head(gapQ) \in GapMsgs /\ QueueCost(Tail(gapQ), GapCost) = G - GapCost[Head(gapQ)]
  BY <1>1, FromGap
<1>4. HostWork = G + R + StartCost + LinkCost /\ HostWork' = G' + R' + StartCost' + LinkCost'
  BY DEF HostWork
<1>5. ASSUME NEW m \in RoleMsgs, ToRole(m)
      PROVE  G' = G - GapCost[Head(gapQ)] /\ R' = R + RoleCost[m]
  BY <1>3, <1>5, IntoRole DEF ToRole
<1>6. \A m \in GapMsgs : GapCost[m] \in Nat \ {0}
  BY Costs
<1> HIDE DEF G, R
<1>7. CASE GapAdvData
  <2>1. ToRole("ADV_DATA_DONE") /\ Head(gapQ) = "advData"
    BY <1>7 DEF GapAdvData, GapHandles
  <2>2. G' = G - 8 /\ R' = R + 7
    BY <1>5, <2>1, RoleWords, Costs
  <2> QED BY <1>0, <1>2, <1>4, <2>2
<1>8. CASE GapScanRsp
  <2>1. ToRole("SCAN_RSP_DONE") /\ Head(gapQ) = "scanRsp"
    BY <1>8 DEF GapScanRsp, GapHandles
  <2>2. G' = G - 6 /\ R' = R + 5
    BY <1>5, <2>1, RoleWords, Costs
  <2> QED BY <1>0, <1>2, <1>4, <2>2
<1>9. CASE GapParams
  <2>1. Head(gapQ) = "params" /\ UNCHANGED roleQ
    BY <1>9 DEF GapParams, GapHandles
  <2>2. R' = R
    BY <2>1 DEF R
  <2>3. CASE gapQ' = Tail(gapQ)
    <3>1. G' = G - 3
      BY <1>3, <2>1, <2>3, Costs DEF G
    <3> QED BY <1>0, <1>2, <1>4, <2>2, <3>1
  <2>4. CASE gapQ' = Append(Tail(gapQ), "enable")
    <3>1. G' = QueueCost(Tail(gapQ), GapCost) + GapCost["enable"]
      BY <1>1, <2>4, FromGap, IntoGap, GapWords DEF G
    <3>2. G' = (G - 3) + 2
      BY <1>3, <2>1, <3>1, Costs
    <3> QED BY <1>0, <1>2, <1>4, <2>2, <3>2
  <2> QED BY <1>9, <2>3, <2>4 DEF GapParams
<1>10. CASE GapEnable
  <2>1. Head(gapQ) = "enable"
    BY <1>10 DEF GapEnable, GapHandles
  <2>2. CASE adv = "NONE"
    <3>1. gapQ' = Tail(gapQ) /\ UNCHANGED roleQ
      BY <1>10, <2>2 DEF GapEnable
    <3>2. G' = G - 2 /\ R' = R
      BY <1>3, <2>1, <3>1, Costs DEF G, R
    <3> QED BY <1>0, <1>2, <1>4, <3>2
  <2>3. CASE adv # "NONE"
    <3>1. ToRole("MAKE_DONE") \/ ToRole("END_DONE")
      BY <1>10, <2>3 DEF GapEnable
    <3>2. G' = G - 2 /\ R' = R + 1
      BY <1>5, <2>1, <3>1, RoleWords, Costs
    <3> QED BY <1>0, <1>2, <1>4, <3>2
  <2> QED BY <2>2, <2>3
<1>11. CASE GapConnected
  <2>1. ToRole("LINK_ESTABLISHED") /\ Head(gapQ) = "connected"
    BY <1>11 DEF GapConnected, GapHandles
  <2>2. G' = G - 2 /\ R' = R + 1
    BY <1>5, <2>1, RoleWords, Costs
  <2> QED BY <1>0, <1>2, <1>4, <2>2
<1>12. ASSUME NEW r \in Reasons, GapDisconnected(r) PROVE HostWork' < HostWork
  <2>1. ToRole(r) /\ Head(gapQ) = r
    BY <1>12 DEF GapDisconnected, GapHandles
  <2>2. G' = G - 11 /\ R' = R + 10
    BY <1>5, <2>1, RoleWords, Costs
  <2> QED BY <1>0, <1>2, <1>4, <2>2
<1> QED BY <1>7, <1>8, <1>9, <1>10, <1>11, <1>12 DEF Gap

LEMMA RoleWorks ==
    ASSUME IInv, Phase', Role
    PROVE  HostWork' < HostWork
<1> DEFINE G == QueueCost(gapQ, GapCost)
           R == QueueCost(roleQ, RoleCost)
<1>0. /\ G \in Nat /\ R \in Nat /\ G' \in Nat /\ R' \in Nat
      /\ StartCost \in {0, 4} /\ LinkCost \in {0, 3, 12} /\ StartCost' \in {0, 4}
  BY PhaseSized, NextSized DEF Sized, IInv
<1>p. Phase /\ gapQ = <<>>
  BY DEF IInv, Role, InitDone, AdvDataDone, ScanRspDone, MakeDone, EndDone, LinkEstablished,
         LinkTerminated, SoftReset, StartAdvertising, RoleHandles, RoleTurn
<1>1. gapQ \in Seq(GapMsgs) /\ G = 0
  BY <1>p, PhaseSized, Costs, ShortCosts DEF Sized
<1>2. HostWork = G + R + StartCost + LinkCost /\ HostWork' = G' + R' + StartCost' + LinkCost'
  BY DEF HostWork
<1>3. ASSUME NEW m, RoleHandles(m)
      PROVE  m \in RoleMsgs /\ Head(roleQ) = m /\ roleQ # <<>> /\ R' = R - RoleCost[m]
  BY <1>p, <1>3, FromRole DEF RoleHandles
<1>4. ASSUME NEW m \in GapMsgs, ToGap(m) PROVE G' = G + GapCost[m]
  BY <1>1, <1>4, IntoGap DEF ToGap
<1>5. UNCHANGED gapQ => G' = G
  OBVIOUS
<1>6. /\ UNCHANGED startAdv => StartCost' = StartCost
      /\ UNCHANGED llEvent => LinkCost' = LinkCost
  BY DEF StartCost, LinkCost
<1> HIDE DEF G, R
<1>a. /\ StartCost \in Nat /\ StartCost' \in Nat /\ LinkCost \in Nat
      /\ StartCost >= 0 /\ StartCost' <= 4
  BY <1>0
<1>7. CASE InitDone
  <2>1. G' = G + 8 /\ R' = R - 9
    BY <1>3, <1>4, <1>7, GapWords, Costs DEF InitDone
  <2>2. StartCost' = StartCost /\ LinkCost' = LinkCost
    BY <1>6, <1>7 DEF InitDone, linkVars
  <2> QED BY <1>0, <1>2, <2>1, <2>2
<1>8. CASE AdvDataDone
  <2>1. G' = G + 6 /\ R' = R - 7
    BY <1>3, <1>4, <1>8, GapWords, Costs DEF AdvDataDone
  <2>2. StartCost' = StartCost /\ LinkCost' = LinkCost
    BY <1>6, <1>8 DEF AdvDataDone, linkVars
  <2> QED BY <1>0, <1>2, <2>1, <2>2
<1>9. CASE ScanRspDone
  <2>1. G' = G /\ R' = R - 5
    BY <1>3, <1>5, <1>9, Costs DEF ScanRspDone
  <2>2. LinkCost' = LinkCost
    BY <1>6, <1>9 DEF ScanRspDone, linkVars
  <2>3. HostWork = G + R + StartCost + LinkCost /\ HostWork' = G + (R - 5) + StartCost' + LinkCost
    BY <1>2, <2>1, <2>2
  <2>4. \A g, r, x, y, l \in Nat : y <= 4 => g + (r - 5) + y + l < g + r + x + l
    OBVIOUS
  <2> QED BY <1>0, <1>a, <2>3, <2>4
<1>10. CASE MakeDone \/ LinkEstablished
  <2>1. G' = G /\ R' = R - 1
    BY <1>3, <1>5, <1>10, Costs DEF MakeDone, LinkEstablished
  <2>2. StartCost' = StartCost /\ LinkCost' = LinkCost
    BY <1>6, <1>10 DEF MakeDone, LinkEstablished, linkVars
  <2> QED BY <1>0, <1>2, <2>1, <2>2
<1>11. CASE EndDone
  <2>1. G' = G /\ R' = R - 1
    BY <1>3, <1>5, <1>11, Costs DEF EndDone
  <2>2. startAdv
    <3>1. Head(roleQ) = "END_DONE" /\ roleQ # <<>>
      BY <1>11 DEF EndDone, RoleHandles
    <3> QED BY <1>p, <3>1, RoleHeads DEF Ended, EndedLinked, Again
  <2>3. StartCost' = StartCost /\ LinkCost' = LinkCost
    BY <1>6, <1>11, <2>2 DEF EndDone, linkVars, StartCost
  <2> QED BY <1>0, <1>2, <2>1, <2>3
<1>12. ASSUME NEW r \in Reasons, LinkTerminated(r) PROVE HostWork' < HostWork
  <2>1. Head(roleQ) = r /\ roleQ # <<>> /\ R' = R - 10
    BY <1>3, <1>12, Costs DEF LinkTerminated
  <2>2. ~advEnabled
    BY <1>p, <2>1, RoleHeads DEF Connected
  <2>3. UNCHANGED <<gapQ, llEvent>>
    BY <1>12, <2>2 DEF LinkTerminated
  <2>4. G' = G /\ LinkCost' = LinkCost
    BY <1>5, <1>6, <2>3
  <2>5. HostWork = G + R + StartCost + LinkCost /\ HostWork' = G + (R - 10) + StartCost' + LinkCost
    BY <1>2, <2>1, <2>4
  <2>6. \A g, h, x, y, l \in Nat : y <= 4 => g + (h - 10) + y + l < g + h + x + l
    OBVIOUS
  <2> QED BY <1>0, <1>a, <2>5, <2>6
<1>13. CASE SoftReset
  <2>1. Head(roleQ) = "remote" /\ roleQ # <<>>
    BY <1>13 DEF SoftReset
  <2>2. "remote" \in Reasons
    <3>1. Head(roleQ) \in RoleMsgs
      BY <1>p, <2>1, FromRole
    <3> QED BY <2>1, <3>1 DEF RoleMsgs
  <2>3. R >= 10
    <3>1. roleQ = <<"remote">>
      BY <1>p, <2>1, <2>2, RoleHeads
    <3>2. R = RoleCost["remote"]
      BY <3>1, <2>2, RoleWords, Costs, ShortCosts DEF R
    <3> QED BY <2>2, <3>2, Costs
  <2>4. G' = 0 /\ R' = 9
    BY <1>13, RoleWords, Costs, ShortCosts DEF SoftReset, G, R
  <2>5. StartCost' = 0 /\ LinkCost' = 0
    BY <1>13 DEF SoftReset, StartCost, LinkCost
  <2> QED BY <1>0, <1>2, <2>3, <2>4, <2>5
<1>14. CASE StartAdvertising
  <2>1. startAdv /\ ~startAdv'
    BY <1>14 DEF StartAdvertising, RoleTurn
  <2>2. StartCost = 4 /\ StartCost' = 0
    BY <2>1 DEF StartCost
  <2>3. R' = R /\ LinkCost' = LinkCost
    BY <1>6, <1>14 DEF StartAdvertising, linkVars, R
  <2>4. G' = G \/ G' = G + 3
    <3>1. UNCHANGED gapQ \/ ToGap("params")
      BY <1>14 DEF StartAdvertising, MakeDiscoverable
    <3> QED BY <1>4, <1>5, <3>1, GapWords, Costs
  <2>5. HostWork = G + R + 4 + LinkCost /\ HostWork' = G' + R + 0 + LinkCost
    BY <1>2, <2>2, <2>3
  <2>6. \A g, h, r, l \in Nat : h = g \/ h = g + 3 => h + r + 0 + l < g + r + 4 + l
    OBVIOUS
  <2> QED BY <1>0, <1>a, <2>4, <2>5, <2>6
<1> QED BY <1>7, <1>8, <1>9, <1>10, <1>11, <1>12, <1>13, <1>14 DEF Role

LEMMA LlWorks ==
    ASSUME Phase, Phase', LlTask
    PROVE  HostWork' < HostWork
<1> DEFINE G == QueueCost(gapQ, GapCost)
           R == QueueCost(roleQ, RoleCost)
<1>0. /\ G \in Nat /\ R \in Nat /\ G' \in Nat /\ R' \in Nat
      /\ StartCost \in {0, 4} /\ gapQ \in Seq(GapMsgs)
  BY PhaseSized, NextSized DEF Sized
<1>1. HostWork = G + R + StartCost + LinkCost /\ HostWork' = G' + R' + StartCost' + LinkCost'
  BY DEF HostWork
<1>2. llEvent \in {"connected"} \union Reasons /\ llEvent \in GapMsgs
  BY PhaseTypes, GapWords DEF LlTask, LinkTypes
<1>3. G' = G + GapCost[llEvent]
  BY <1>0, <1>2, IntoGap DEF LlTask, ToGap
<1>4. R' = R /\ StartCost' = StartCost /\ LinkCost' = 0
  BY DEF LlTask, StartCost, LinkCost
<1> HIDE DEF G, R
<1>5. LinkCost = GapCost[llEvent] + 1
  BY <1>2, NotNone, Costs DEF LinkCost
<1>6. GapCost[llEvent] \in Nat
  BY <1>2, Costs
<1>7. PICK g \in Nat : g = GapCost[llEvent]
  BY <1>6
<1>8. HostWork = G + R + StartCost + (g + 1) /\ HostWork' = (G + g) + R + StartCost + 0
  BY <1>1, <1>3, <1>4, <1>5, <1>7
<1>9. StartCost \in Nat
  BY <1>0
<1>10. \A a, b, c, d \in Nat : (a + d) + b + c + 0 < a + b + c + (d + 1)
  OBVIOUS
<1> QED BY <1>0, <1>8, <1>9, <1>10

LEMMA OthersLeaveWork ==
    AdvEvent \/ KeyEdge \/ WriteCmd \/ UNCHANGED vars => HostWork' = HostWork
<1> SUFFICES ASSUME AdvEvent \/ KeyEdge \/ WriteCmd \/ UNCHANGED vars
             PROVE  HostWork' = HostWork
  OBVIOUS
<1>1. UNCHANGED <<gapQ, roleQ, startAdv, llEvent>>
  BY DEF AdvEvent, KeyEdge, WriteCmd, vars, hostVars, linkVars
<1> QED BY <1>1 DEF HostWork, StartCost, LinkCost

(* The link layer, the GAP and the role never keep the application from    *)
(* its turn for long: whatever came before, no queue holds more than three *)
(* messages, they have at most twenty handlers to run, each of them leaves *)
(* fewer, and none is left exactly when it is the application's turn.      *)
(* Only an interrupt of the radio or the application gives them more work. *)
THEOREM ApplicationGetsItsTurn ==
    Spec => /\ [](Len(gapQ) <= 3 /\ Len(roleQ) <= 3)
            /\ [](HostWork \in 0 .. 20 /\ (HostWork = 0 <=> AppTurn /\ llEvent = "none"))
            /\ [][LlTask \/ Gap \/ Role => HostWork' < HostWork]_vars
            /\ [][HostWork' > HostWork => App \/ Connect \/ \E r \in Reasons : Disconnect(r)]_vars
<1>1. IInv => HostWork \in 0 .. 20 /\ (HostWork = 0 <=> AppTurn /\ llEvent = "none")
  <2> SUFFICES ASSUME IInv PROVE HostWork \in 0 .. 20 /\ (HostWork = 0 <=> AppTurn /\ llEvent = "none")
    OBVIOUS
  <2>1. HostWork \in Nat /\ (HostWork = 0 <=> AppTurn /\ llEvent = "none")
    BY WorkIsNat DEF IInv
  <2>2. HostWork <= 20
    BY WorkBounded DEF IInv
  <2>3. HostWork \in 0 .. 20
    BY <2>1, <2>2
  <2> QED BY <2>1, <2>3
<1>2. IInv /\ IInv' => [LlTask \/ Gap \/ Role => HostWork' < HostWork]_vars
  BY GapWorks, RoleWorks, LlWorks DEF IInv
<1>3. IInv /\ IInv' /\ [Next]_vars
         => [HostWork' > HostWork => App \/ Connect \/ \E r \in Reasons : Disconnect(r)]_vars
  <2> SUFFICES ASSUME IInv, IInv', [Next]_vars, HostWork' > HostWork
               PROVE  App \/ Connect \/ \E r \in Reasons : Disconnect(r)
    OBVIOUS
  <2>1. HostWork \in Nat /\ HostWork' \in Nat
    <3>1. Phase => HostWork \in Nat
      BY WorkIsNat
    <3>2. HostWork' \in Nat
      BY NextWorkIsNat DEF IInv, Measured
    <3> QED BY <3>1, <3>2 DEF IInv
  <2>2. ~(HostWork' < HostWork) /\ HostWork' # HostWork
    BY <2>1
  <2>3. ~LlTask /\ ~Gap /\ ~Role
    BY <2>2, GapWorks, RoleWorks, LlWorks DEF IInv
  <2> QED BY <2>2, <2>3, OthersLeaveWork DEF Next, Tasks, Environment
<1>4. IInv => Len(gapQ) <= 3 /\ Len(roleQ) <= 3
  BY PhaseSized DEF IInv, Sized
<1> QED BY <1>1, <1>2, <1>3, <1>4, InitHolds, NextKeeps, PTL DEF Spec

-----------------------------------------------------------------------------
(* The faster interval of a key press.                                     *)
IntervalInv ==
    /\ adv \in {"SET_PARAMS", "SET_MODE", "ADVERTISING"} => llInterval = interval
    /\ interval = "fast" => reload > 0

(* The start of the advertising takes the interval over.                   *)
LEMMA GapIntervals == IInv /\ IntervalInv /\ Gap => IntervalInv'
<1> SUFFICES ASSUME IInv, IntervalInv, Gap PROVE IntervalInv'
  OBVIOUS
<1>1. UNCHANGED <<interval, reload, llInterval>>
  BY DEF Gap, GapAdvData, GapScanRsp, GapParams, GapEnable, GapConnected, GapDisconnected, appVars
<1>2. adv' \in {"SET_PARAMS", "SET_MODE", "ADVERTISING"} => adv \in {"SET_PARAMS", "SET_MODE", "ADVERTISING"}
  <2>1. CASE GapParams
    <3>1. Setting
      BY <2>1, GapHeads DEF IInv, GapParams, GapHandles, GapTurn
    <3> QED BY <3>1 DEF Setting
  <2>2. CASE GapEnable
    BY <2>2 DEF GapEnable
  <2>3. CASE GapConnected
    BY <2>3 DEF GapConnected
  <2>4. CASE GapAdvData \/ GapScanRsp \/ \E r \in Reasons : GapDisconnected(r)
    BY <2>4 DEF GapAdvData, GapScanRsp, GapDisconnected
  <2> QED BY <2>1, <2>2, <2>3, <2>4 DEF Gap
<1> QED BY <1>1, <1>2 DEF IntervalInv

LEMMA NotifyCounts ==
    ASSUME IntervalInv, NEW s, Notify(s), UNCHANGED llInterval,
           adv' = adv \/ adv' = "ENDING"
    PROVE  IntervalInv'
<1>1. UNCHANGED interval /\ (reload' = reload \/ reload' = 1)
  BY DEF Notify
<1>2. interval' = "fast" => reload' > 0
  BY <1>1 DEF IntervalInv
<1>3. adv' \in {"SET_PARAMS", "SET_MODE", "ADVERTISING"} => llInterval' = interval'
  BY <1>1 DEF IntervalInv
<1> QED BY <1>2, <1>3 DEF IntervalInv

LEMMA RoleIntervals == IntervalInv /\ Role => IntervalInv'
<1> SUFFICES ASSUME IntervalInv, Role PROVE IntervalInv'
  OBVIOUS
<1>1. CASE InitDone \/ MakeDone \/ LinkEstablished
  BY <1>1, NotifyCounts DEF InitDone, MakeDone, LinkEstablished
<1>2. CASE EndDone
  BY <1>2, NotifyCounts DEF EndDone
<1>3. ASSUME NEW r \in Reasons, LinkTerminated(r) PROVE IntervalInv'
  <2>1. adv' = adv \/ adv' = "ENDING"
    BY <1>3 DEF LinkTerminated, EndDiscoverable
  <2> QED BY <1>3, <2>1, NotifyCounts DEF LinkTerminated
<1>4. CASE AdvDataDone \/ ScanRspDone
  BY <1>4 DEF AdvDataDone, ScanRspDone, appVars, IntervalInv
<1>5. CASE SoftReset
  BY <1>5 DEF SoftReset, IntervalInv
<1>6. CASE StartAdvertising
  BY <1>6 DEF StartAdvertising, MakeDiscoverable, appVars, IntervalInv
<1> QED BY <1>1, <1>2, <1>3, <1>4, <1>5, <1>6 DEF Role

(* The application leaves the faster interval with its last count.         *)
LEMMA AppIntervals == IInv /\ TypeInv /\ IntervalInv /\ App => IntervalInv'
<1> SUFFICES ASSUME IInv, TypeInv, IntervalInv, App PROVE IntervalInv'
  OBVIOUS
<1>r. reload \in Nat /\ FastEvents \in Nat /\ FastEvents > 0
  BY RoleAssumption DEF TypeInv
<1>1. ASSUME NEW e, AppHandles(e), advEnabled, NEW i, SetNewAdvInterval(i)
      PROVE  adv' = "ENDING" /\ interval' = i
  <2>1. Advertising
    BY <1>1, AppSees
  <2> QED BY <1>1, <2>1 DEF Advertising, SetNewAdvInterval, EndDiscoverable
<1>2. CASE AdvMeasure
  <2>0. AppHandles("ADV_BROADCAST") /\ UNCHANGED llInterval
    BY <1>2 DEF AdvMeasure
  <2>1. CASE NoNewInterval /\ UNCHANGED reload
    BY <2>0, <2>1 DEF NoNewInterval, IntervalInv
  <2>2. CASE advEnabled /\ reload # 0 /\ reload = 1
    <3>1. SetNewAdvInterval("user")
      BY <1>2, <2>2 DEF AdvMeasure
    <3> QED BY <1>1, <2>0, <2>2, <3>1 DEF IntervalInv
  <2>3. CASE reload # 0 /\ reload # 1 /\ reload' = reload - 1 /\ NoNewInterval
    <3>1. reload' > 0
      BY <1>r, <2>3
    <3> QED BY <2>0, <2>3, <3>1 DEF NoNewInterval, IntervalInv
  <2> QED BY <1>2, <2>1, <2>2, <2>3 DEF AdvMeasure
<1>3. CASE KeyReleased
  <2>0. AppHandles("KEY_CHANGE") /\ UNCHANGED llInterval
    BY <1>3 DEF KeyReleased
  <2>1. CASE advEnabled
    <3>1. SetNewAdvInterval("fast") /\ reload' = FastEvents
      BY <1>3, <2>1 DEF KeyReleased
    <3> QED BY <1>1, <1>r, <2>0, <2>1, <3>1 DEF IntervalInv
  <2>2. CASE ~advEnabled
    BY <1>3, <2>2 DEF KeyReleased, NoNewInterval, IntervalInv
  <2> QED BY <2>1, <2>2
<1>4. CASE ResetAdv
  BY <1>4 DEF ResetAdv, IntervalInv
<1>5. CASE CmdReboot
  BY <1>5 DEF CmdReboot, hostVars, IntervalInv
<1> QED BY <1>2, <1>3, <1>4, <1>5 DEF App

LEMMA NextIntervals == IInv /\ TypeInv /\ IntervalInv /\ [Next]_vars => IntervalInv'
<1>1. ASSUME IntervalInv, LlTask \/ Environment \/ UNCHANGED vars PROVE IntervalInv'
  <2>1. UNCHANGED <<adv, interval, llInterval, reload>>
    BY <1>1 DEF LlTask, Environment, Connect, Disconnect, AdvEvent, KeyEdge, WriteCmd, vars,
           hostVars, appVars
  <2> QED BY <1>1, <2>1 DEF IntervalInv
<1> QED BY <1>1, GapIntervals, RoleIntervals, AppIntervals DEF Next, Tasks

(* The link layer that advertises has been started by the manager.         *)
LEMMA AdvertisesAsSet ==
    ASSUME Phase, ll = "adv"
    PROVE  adv \in {"SET_MODE", "ADVERTISING"} /\ advEnabled
BY NotNone
   DEF Phase, Booting, Configuring, Starting, Setting, Enabling, Made, MadeLinked,
       Advertising, AdvertisingLinked, Ending, Ended, EndedLinked, AgainLinked, Connected,
       Quiet, Resting, Again, BehindGap, Coming, LinkBehind, LinkNext, LinkKnown

(* The faster advertising of a key press is always counted down: the link  *)
(* layer advertises at the interval the application means, at the faster   *)
(* one only while there are events to count, each of them counts, and the  *)
(* last returns to the user's interval. Only a key press sets the count,   *)
(* but for the one event after a connection began or ended.                *)
THEOREM FastIsCounted ==
    Spec => /\ [](ll = "adv" => llInterval = interval /\ (interval = "fast" => reload > 0))
            /\ [][AdvMeasure /\ ll = "adv" /\ llInterval = "fast"
                    => reload' = reload - 1 /\ (reload' = 0 => interval' = "user")]_vars
            /\ [][reload' > reload => KeyReleased \/ reload' = 1]_vars
<1> DEFINE I == IInv /\ TypeInv /\ IntervalInv
           Counted == ll = "adv" => llInterval = interval /\ (interval = "fast" => reload > 0)
<1>1. Init => TypeInv /\ IntervalInv
  <2>1. Init => reload \in 0 .. FastEvents /\ inputs \in 0 .. MaxInputs
    BY RoleAssumption DEF Init
  <2> QED BY <2>1 DEF Init, TypeInv, IntervalInv
<1>2. I => Counted
  BY AdvertisesAsSet DEF IInv, IntervalInv
<1>3. I => [AdvMeasure /\ ll = "adv" /\ llInterval = "fast"
              => reload' = reload - 1 /\ (reload' = 0 => interval' = "user")]_vars
  <2> SUFFICES ASSUME I, AdvMeasure, ll = "adv", llInterval = "fast"
               PROVE  reload' = reload - 1 /\ (reload' = 0 => interval' = "user")
    OBVIOUS
  <2>1. advEnabled /\ reload > 0 /\ reload \in Nat
    <3>1. reload \in Nat
      BY RoleAssumption DEF TypeInv
    <3> QED BY <3>1, <1>2, AdvertisesAsSet DEF IInv
  <2>2. reload # 0
    BY <2>1
  <2>3. reload' = reload - 1 /\ (reload = 1 => interval' = "user")
    BY <2>1, <2>2 DEF AdvMeasure, SetNewAdvInterval
  <2>4. reload' = 0 => reload = 1
    BY <2>1, <2>3
  <2> QED BY <2>3, <2>4
<1>4. I /\ [Next]_vars => [reload' > reload => KeyReleased \/ reload' = 1]_vars
  <2> SUFFICES ASSUME I, [Next]_vars, reload' > reload PROVE KeyReleased \/ reload' = 1
    OBVIOUS
  <2>r. reload \in Nat
    BY RoleAssumption DEF TypeInv
  <2>1. reload' # reload
    BY <2>r
  <2>2. ~(reload' = reload - 1)
    BY <2>r
  <2>3. CASE Role
    <3>1. \/ UNCHANGED reload \/ reload' = 0
          \/ \E s : Notify(s)
      BY <2>3 DEF Role, InitDone, AdvDataDone, ScanRspDone, MakeDone, EndDone, LinkEstablished,
             LinkTerminated, SoftReset, StartAdvertising, appVars
    <3>2. ~(reload' = 0)
      BY <2>r
    <3> QED BY <2>1, <3>1, <3>2 DEF Notify
  <2>4. CASE App
    BY <2>1, <2>2, <2>4 DEF App, AdvMeasure, ResetAdv, CmdReboot
  <2>5. CASE Gap \/ LlTask \/ Environment \/ UNCHANGED vars
    BY <2>1, <2>5 DEF Gap, GapAdvData, GapScanRsp, GapParams, GapEnable, GapConnected, GapDisconnected,
       LlTask, Environment, Connect, Disconnect, AdvEvent, KeyEdge, WriteCmd, vars, appVars
  <2> QED BY <2>3, <2>4, <2>5 DEF Next, Tasks
<1> HIDE DEF Counted
<1> QED BY <1>1, <1>2, <1>3, <1>4, InitHolds, NextKeeps, NextTypes, NextIntervals, PTL DEF Spec, Counted
=============================================================================

---------------------------- MODULE LoggerProofs ----------------------------
(***************************************************************************)
(* Proofs about Logger: for any number and size of sectors, records,       *)
(* clears and restarts, exactly one sector is open, and counting back from *)
(* the write position finds every record that should be there.             *)
(*                                                                         *)
(* The sectors are numbered on as they are opened since the log was last   *)
(* cleared: number t lies in sector t % MEMO_SEC_COUNT and holds records   *)
(* t * MEMO_SEC_RECS + 1 onwards.  The invariant says which numbers are    *)
(* still in the ring.                                                      *)
(***************************************************************************)
EXTENDS Logger, FiniteSetTheorems, TLAPS

(***************************************************************************)
(* Division.                                                               *)
(***************************************************************************)
LEMMA DivMod ==
    ASSUME NEW a \in Int, NEW w \in Nat \ {0}
    PROVE  \E q \in Int, r \in 0 .. w - 1 :
              q = a \div w /\ r = a % w /\ a = q * w + r
<1>1. a \div w \in Int /\ a % w \in 0 .. w - 1
  OBVIOUS
<1>2. \A q, r \in Int : q = a \div w /\ r = a % w => a = q * w + r
  OBVIOUS
<1> QED BY <1>1, <1>2

LEMMA AtLeast ==
    ASSUME NEW x \in Int, NEW w \in Nat \ {0}, x >= 1
    PROVE  x * w >= w
OBVIOUS

LEMMA DivModUnique ==
    ASSUME NEW w \in Nat \ {0}, NEW q \in Int, NEW r \in 0 .. w - 1, NEW a \in Int, a = q * w + r
    PROVE  a % w = r /\ a \div w = q
<1>1. PICK p \in Int, s \in 0 .. w - 1 : p = a \div w /\ s = a % w /\ a = p * w + s
  BY DivMod
<1>2. (p - q) * w = r - s /\ (q - p) * w = s - r
  BY <1>1
<1>3. ~(p - q >= 1)
  <2> SUFFICES ASSUME p - q >= 1 PROVE FALSE
    OBVIOUS
  <2>1. p - q \in Int
    BY <1>1
  <2>2. (p - q) * w >= w
    BY <2>1, AtLeast
  <2> QED BY <1>1, <1>2, <2>2
<1>4. ~(q - p >= 1)
  <2> SUFFICES ASSUME q - p >= 1 PROVE FALSE
    OBVIOUS
  <2>1. q - p \in Int
    BY <1>1
  <2>2. (q - p) * w >= w
    BY <2>1, AtLeast
  <2> QED BY <1>1, <1>2, <2>2
<1>5. p = q
  BY <1>1, <1>3, <1>4
<1> QED BY <1>1, <1>5

(***************************************************************************)
(* The ring.                                                               *)
(***************************************************************************)
At(t) == t % MEMO_SEC_COUNT

LEMMA Sizes == MEMO_SEC_COUNT \in Nat \ {0, 1} /\ MEMO_SEC_RECS \in Nat \ {0}
BY LoggerAssumption

LEMMA AtIs ==
    ASSUME NEW d \in Int, NEW s \in Sectors, NEW t \in Int, t = d * MEMO_SEC_COUNT + s
    PROVE  At(t) = s
BY Sizes, DivModUnique DEF At, Sectors

LEMMA AtSector ==
    ASSUME NEW t \in Int
    PROVE  At(t) \in Sectors /\ \E d \in Int : t = d * MEMO_SEC_COUNT + At(t)
BY Sizes, DivMod DEF At, Sectors

(* The first time round.                                                   *)
LEMMA AtFirst ==
    ASSUME NEW s \in Sectors
    PROVE  At(s) = s
<1>1. s = 0 * MEMO_SEC_COUNT + s /\ s \in Int
  BY Sizes DEF Sectors
<1> QED BY <1>1, AtIs

(* Two numbers closer than the ring lie in different sectors.              *)
LEMMA AtDiffer ==
    ASSUME NEW t \in Int, NEW u \in Int, t < u, u < t + MEMO_SEC_COUNT
    PROVE  At(t) # At(u)
<1> SUFFICES ASSUME At(t) = At(u) PROVE FALSE
  OBVIOUS
<1>1. PICK d \in Int : t = d * MEMO_SEC_COUNT + At(t)
  BY AtSector
<1>2. PICK e \in Int : u = e * MEMO_SEC_COUNT + At(u)
  BY AtSector
<1>3. At(t) \in Int /\ MEMO_SEC_COUNT \in Nat \ {0}
  BY AtSector, Sizes DEF Sectors
<1>4. (e - d) * MEMO_SEC_COUNT = u - t
  BY <1>1, <1>2, <1>3
<1>5. e - d >= 1
  <2> SUFFICES ASSUME d - e >= 0 PROVE FALSE
    BY <1>1, <1>2
  <2>1. (d - e) * MEMO_SEC_COUNT >= 0
    BY <1>3, <1>1, <1>2
  <2>2. (d - e) * MEMO_SEC_COUNT = t - u
    BY <1>1, <1>2, <1>3
  <2> QED BY <2>1, <2>2
<1>6. (e - d) * MEMO_SEC_COUNT >= MEMO_SEC_COUNT
  BY <1>3, <1>5, AtLeast
<1> QED BY <1>4, <1>6, <1>3

LEMMA AtNext ==
    ASSUME NEW t \in Int
    PROVE  Next1(At(t)) = At(t + 1)
<1>1. PICK d \in Int : t = d * MEMO_SEC_COUNT + At(t)
  BY AtSector
<1>2. At(t) \in Sectors
  BY AtSector
<1>3. CASE At(t) < MEMO_SEC_COUNT - 1
  <2>1. At(t) + 1 \in Sectors /\ t + 1 = d * MEMO_SEC_COUNT + (At(t) + 1)
    BY <1>1, <1>2, <1>3, Sizes DEF Sectors
  <2>2. At(t + 1) = At(t) + 1
    BY <2>1, AtIs
  <2>3. At(At(t) + 1) = At(t) + 1
    BY <2>1, AtFirst
  <2> QED BY <2>2, <2>3 DEF Next1, At
<1>4. CASE At(t) = MEMO_SEC_COUNT - 1
  <2>1. 0 \in Sectors /\ t + 1 = (d + 1) * MEMO_SEC_COUNT + 0
    BY <1>1, <1>4, Sizes DEF Sectors
  <2>2. At(t + 1) = 0
    BY <2>1, AtIs
  <2>3. At(t) + 1 = 1 * MEMO_SEC_COUNT + 0
    BY <1>4, Sizes
  <2>4. At(At(t) + 1) = 0
    <3>1. At(t) + 1 \in Int /\ 1 \in Int
      BY <1>4, Sizes
    <3> HIDE DEF At
    <3> QED BY <2>1, <2>3, <3>1, AtIs
  <2>5. \A s : Next1(s) = At(s + 1)
    BY DEF Next1, At
  <2> HIDE DEF At
  <2> QED BY <2>2, <2>4, <2>5
<1>5. At(t) < MEMO_SEC_COUNT - 1 \/ At(t) = MEMO_SEC_COUNT - 1
  <2> HIDE DEF At
  <2> QED BY <1>2, Sizes DEF Sectors
<1> QED BY <1>3, <1>4, <1>5

LEMMA AtBack ==
    ASSUME NEW t \in Int, NEW k \in Nat
    PROVE  Back(At(t), k) = At(t - k)
<1>1. PICK d \in Int : t = d * MEMO_SEC_COUNT + At(t)
  BY AtSector
<1>2. PICK e \in Int : t - k = e * MEMO_SEC_COUNT + At(t - k)
  BY AtSector
<1>3. At(t) \in Int /\ At(t - k) \in Sectors /\ At(t - k) \in Int /\ MEMO_SEC_COUNT \in Int
  BY AtSector, Sizes DEF Sectors
<1>4. At(t) + k * (MEMO_SEC_COUNT - 1) = (k + e - d) * MEMO_SEC_COUNT + At(t - k)
  BY <1>1, <1>2, <1>3
<1>5. At(At(t) + k * (MEMO_SEC_COUNT - 1)) = At(t - k)
  <2> DEFINE x == At(t) + k * (MEMO_SEC_COUNT - 1)
             f == k + e - d
             s == At(t - k)
  <2>1. f \in Int /\ x \in Int /\ s \in Sectors /\ x = f * MEMO_SEC_COUNT + s
    BY <1>3, <1>4
  <2> HIDE DEF x, f, s
  <2>2. At(x) = s
    BY <2>1, AtIs
  <2> QED BY <2>2 DEF x, s
<1> QED BY <1>5 DEF Back, At

(* Once the log has gone round, every sector is among the last ones.       *)
LEMMA AtAll ==
    ASSUME NEW q \in Nat, q >= MEMO_SEC_COUNT - 1, NEW s \in Sectors
    PROVE  \E t \in Nat : q - MEMO_SEC_COUNT < t /\ t <= q /\ At(t) = s
<1>1. PICK d \in Int : q = d * MEMO_SEC_COUNT + At(q)
  BY AtSector
<1>2. At(q) \in Sectors /\ MEMO_SEC_COUNT \in Nat \ {0}
  BY AtSector, Sizes
<1>3. CASE s <= At(q)
  <2> DEFINE t == d * MEMO_SEC_COUNT + s
  <2>1. t \in Int /\ q - MEMO_SEC_COUNT < t /\ t <= q
    BY <1>1, <1>2, <1>3 DEF Sectors
  <2>2. At(t) = s
    BY <2>1, AtIs
  <2>3. d >= 0
    <3> SUFFICES ASSUME 0 - d >= 1 PROVE FALSE
      OBVIOUS
    <3>1. (0 - d) * MEMO_SEC_COUNT >= MEMO_SEC_COUNT
      BY <1>2, AtLeast
    <3> QED BY <1>1, <1>2, <3>1 DEF Sectors
  <2>4. t >= 0
    BY <1>2, <2>3 DEF Sectors
  <2> QED BY <2>1, <2>2, <2>4
<1>4. CASE s > At(q)
  <2> DEFINE t == (d - 1) * MEMO_SEC_COUNT + s
  <2>1. t \in Int /\ q - MEMO_SEC_COUNT < t /\ t <= q
    BY <1>1, <1>2, <1>4 DEF Sectors
  <2>2. At(t) = s
    BY <2>1, AtIs
  <2>3. t >= 0
    BY <1>1, <1>2, <1>4, <2>1 DEF Sectors
  <2> QED BY <2>1, <2>2, <2>3
<1> QED BY <1>2, <1>3, <1>4 DEF Sectors
-----------------------------------------------------------------------------
(***************************************************************************)
(* The invariant.                                                          *)
(***************************************************************************)

(* Nothing is from the future.                                             *)
Bounded ==
    /\ clkt <= written
    /\ \A s \in Sectors, i \in Slots :
          sec[s].recs[i].n <= written /\ sec[s].recs[i].time <= written

(* Slot i of sector number t holds the record that belongs there.          *)
Holds(t, i) ==
    /\ sec[At(t)].recs[i].n = cleared + t * MEMO_SEC_RECS + i + 1
    /\ sec[At(t)].recs[i].time # 0

FullAt(t) ==
    /\ sec[At(t)].id /\ sec[At(t)].closed
    /\ \A i \in Slots : Holds(t, i)

OpenAt(q, c) ==
    /\ sec[At(q)].id /\ ~sec[At(q)].closed
    /\ \A i \in Slots : IF i < c THEN Holds(q, i)
                                  ELSE sec[At(q)].recs[i] = Erased

(* The sectors other than that of number q: the last ones are full, and    *)
(* the first time round the others have no id.                             *)
Ring(q) ==
    /\ \A t \in 0 .. q - 1 : q - MEMO_SEC_COUNT < t => FullAt(t)
    /\ q < MEMO_SEC_COUNT => \A s \in Sectors : s > q => ~sec[s].id

Counted(q, c) == written = cleared + q * MEMO_SEC_RECS + c

IdleAt(q) ==
    /\ pc = "idle" /\ memo.sec = At(q) /\ memo.cnt < MEMO_SEC_RECS
    /\ Ring(q) /\ OpenAt(q, memo.cnt) /\ Counted(q, memo.cnt)

ClosingAt(q) ==
    /\ pc = "close" /\ at = At(q)
    /\ Ring(q) /\ OpenAt(q, MEMO_SEC_RECS) /\ Counted(q, MEMO_SEC_RECS)

ErasingAt(q) == pc = "erase" /\ at = At(q) /\ Ring(q) /\ Counted(q, 0)

HeadAt(q) ==
    pc = "head" /\ at = At(q) /\ sec[at] = Blank /\ Ring(q) /\ Counted(q, 0)

OffAt(q) ==
    /\ pc = "off" /\ Ring(q)
    /\ \/ ~sec[At(q)].id /\ Counted(q, 0)
       \/ \E c \in 0 .. MEMO_SEC_RECS : OpenAt(q, c) /\ Counted(q, c)

Clearing ==
    /\ pc = "clear" /\ cleared = written /\ at >= 1
    /\ \A s \in Sectors : 1 <= s /\ s < at => ~sec[s].id

LogAt(q) ==
    IdleAt(q) \/ ClosingAt(q) \/ ErasingAt(q) \/ HeadAt(q) \/ OffAt(q)

LogInv == Clearing \/ \E q \in Nat : LogAt(q)

(* What was sent last is where the transfer is.                            *)
SentTo == timer /\ rd.cnt # 0 => last = rd.cur

(* A transfer that no clear has overtaken starts from the end of the log   *)
(* at the time of its request.                                             *)
AskedAt(p) ==
    /\ rd.sec = At(p) /\ rd.saved < MEMO_SEC_RECS
    /\ rd.asked = cleared + p * MEMO_SEC_RECS + rd.saved

ReadInv ==
    /\ rd.asked <= written
    /\ cleared < rd.asked => \E p \in Nat : AskedAt(p)

-----------------------------------------------------------------------------
(***************************************************************************)
(* Types, and nothing from the future.                                     *)
(***************************************************************************)
Record == [n: 0 .. MaxRecords, time: 0 .. MaxRecords]
Sector == [id: BOOLEAN, closed: BOOLEAN, recs: [Slots -> Record]]

TypeInv == TypeOK /\ Bounded

RdType == [sec: Sectors, saved: 0 .. MEMO_SEC_RECS, cnt: Counts \union {0},
           cur: Nat, asked: 0 .. MaxRecords]

LogTypes ==
    /\ memo \in [sec: Sectors, cnt: 0 .. MEMO_SEC_RECS]
    /\ Idle => memo.cnt < MEMO_SEC_RECS
    /\ pc \in {"off", "idle", "close", "erase", "head", "clear"}
    /\ at \in Sectors
    /\ clkt \in 0 .. MaxRecords
    /\ written \in 0 .. MaxRecords /\ cleared \in 0 .. written
    /\ crashes \in 0 .. MaxCrashes

ReadTypes ==
    /\ rd \in RdType
    /\ timer \in BOOLEAN /\ conn \in BOOLEAN
    /\ last \in Nat

LEMMA TypeParts == TypeOK <=> sec \in [Sectors -> Sector] /\ LogTypes /\ ReadTypes
BY DEF TypeOK, LogTypes, ReadTypes, Sector, Record, RdType

LEMMA TypePartsNext == TypeOK' <=> sec' \in [Sectors -> Sector] /\ LogTypes' /\ ReadTypes'
BY DEF TypeOK, LogTypes, ReadTypes, Sector, Record, RdType, Idle

LEMMA BlankSector ==
    /\ Blank \in Sector
    /\ \A i \in Slots : Blank.recs[i].n = 0 /\ Blank.recs[i].time = 0
BY LoggerAssumption DEF Blank, Erased, Sector, Record

(* A non-empty set of numbers up to b has a greatest element.              *)
LEMMA Greatest ==
    ASSUME NEW b \in Nat, NEW T \in SUBSET (0 .. b), T # {}
    PROVE  \E n \in T : \A m \in T : m <= n
<1> DEFINE Down(n) == n .. b
           U == {Down(n) : n \in T}
<1>1. IsWellFoundedOn(StrictSubsetOrdering(Nat), FiniteSubsetsOf(Nat))
  BY FS_StrictSubsetOrderingWellFounded
<1>2. U \subseteq FiniteSubsetsOf(Nat)
  <2> SUFFICES ASSUME NEW n \in T PROVE Down(n) \in FiniteSubsetsOf(Nat)
    OBVIOUS
  <2>1. IsFiniteSet(n .. b)
    BY FS_Interval
  <2>2. n .. b \in SUBSET Nat
    OBVIOUS
  <2> QED BY <2>1, <2>2 DEF FiniteSubsetsOf
<1>3. U # {}
  OBVIOUS
<1>4. PICK x \in U : \A y \in U : <<y, x>> \notin StrictSubsetOrdering(Nat)
  <2> HIDE DEF U
  <2> QED BY <1>1, <1>2, <1>3, WFMin
<1>5. PICK n \in T : x = Down(n)
  BY <1>4
<1>6. ASSUME NEW m \in T, m > n PROVE FALSE
  <2>1. /\ m .. b \in SUBSET Nat /\ n .. b \in SUBSET Nat
        /\ m .. b \subseteq n .. b /\ n \in n .. b /\ n \notin m .. b
    BY <1>6
  <2>2. <<Down(m), Down(n)>> \in StrictSubsetOrdering(Nat)
    BY <2>1 DEF StrictSubsetOrdering
  <2>3. Down(m) \in U
    OBVIOUS
  <2> QED BY <1>4, <1>5, <2>2, <2>3
<1>7. \A m \in T : m \in Int /\ n \in Int
  OBVIOUS
<1> QED BY <1>6, <1>7

LEMMA FilledSlots ==
    ASSUME NEW s \in Sectors
    PROVE  Filled(s) \in 0 .. MEMO_SEC_RECS
<1> DEFINE F == {i \in Slots : \A j \in 0 .. i : sec[s].recs[j].time # 0}
<1>1. IsFiniteSet(Slots) /\ Cardinality(Slots) = MEMO_SEC_RECS
  BY Sizes, FS_Interval DEF Slots
<1>2. IsFiniteSet(F) /\ Cardinality(F) <= Cardinality(Slots)
  BY <1>1, FS_Subset
<1>3. Cardinality(F) \in Nat
  BY <1>2, FS_CardinalityType
<1> QED BY <1>1, <1>2, <1>3, Sizes DEF Filled

(* The clock that a start-up continues with.                               *)
LEMMA RestoreBounded ==
    ASSUME TypeOK, Bounded, NEW s \in Sectors
    PROVE  RestoreTime(s) \in 0 .. written /\ (clkt # 0 => RestoreTime(s) = clkt)
<1>1. CASE clkt # 0 \/ Filled(s) = 0
  BY <1>1 DEF RestoreTime, TypeOK, Bounded
<1>2. CASE ~(clkt # 0 \/ Filled(s) = 0)
  <2> DEFINE T == {sec[s].recs[i].time : i \in 0 .. Filled(s) - 1}
  <2>1. 0 \in 0 .. Filled(s) - 1 /\ 0 .. Filled(s) - 1 \subseteq Slots
    BY <1>2, FilledSlots, Sizes DEF Slots
  <2>2. \A i \in Slots : sec[s].recs[i].time \in 0 .. written
    BY DEF TypeOK, Bounded
  <2>3. T \in SUBSET (0 .. written) /\ T # {}
    BY <2>1, <2>2
  <2>4. written \in Nat
    BY DEF TypeOK
  <2>5. \E n \in T : \A m \in T : m <= n
    <3> HIDE DEF T
    <3> QED BY <2>3, <2>4, Greatest
  <2>6. RestoreTime(s) = CHOOSE t \in T : \A i \in 0 .. Filled(s) - 1 : sec[s].recs[i].time <= t
    BY <1>2 DEF RestoreTime
  <2>7. \E t \in T : \A i \in 0 .. Filled(s) - 1 : sec[s].recs[i].time <= t
    BY <2>5
  <2>8. RestoreTime(s) \in T
    <3> HIDE DEF T
    <3> QED BY <2>6, <2>7
  <2> QED BY <1>2, <2>3, <2>8
<1> QED BY <1>1, <1>2
(* A set of sectors has a first one.                                       *)
LEMMA FirstStop ==
    ASSUME NEW S \in SUBSET Sectors, S # {}
    PROVE  First(S) \in S /\ \A t \in S : First(S) <= t
<1> DEFINE b == MEMO_SEC_COUNT - 1
           T == {b - s : s \in S}
<1>a. b \in Nat /\ \A s \in Sectors : s \in Nat /\ b - s \in 0 .. b
  BY Sizes DEF Sectors
<1>1. b \in Nat /\ T \in SUBSET (0 .. b) /\ T # {}
  <2> HIDE DEF b
  <2> QED BY <1>a
<1>2. PICK n \in T : \A m \in T : m <= n
  <2> HIDE DEF T, b
  <2> QED BY <1>1, Greatest
<1>3. PICK s \in S : n = b - s
  BY <1>2
<1>4. ASSUME NEW t \in S PROVE s <= t
  <2>1. b - t <= b - s
    BY <1>2, <1>3
  <2> HIDE DEF b, T
  <2> QED BY <1>a, <2>1
<1> QED BY <1>4 DEF First

LEMMA NoReadTyped == NoRead \in RdType
BY Sizes, LoggerAssumption DEF NoRead, Sectors, RdType

LEMMA TypeAtInit == Init => TypeInv
<1> SUFFICES ASSUME Init PROVE TypeInv
  OBVIOUS
<1>1. sec \in [Sectors -> Sector] /\ 0 \in Sectors
  BY BlankSector, Sizes DEF Init, Sectors
<1>2. Bounded
  BY BlankSector DEF Init, Bounded
<1>3. LogTypes
  BY <1>1, Sizes, LoggerAssumption DEF Init, LogTypes, Idle
<1>4. ReadTypes
  BY NoReadTyped DEF Init, ReadTypes
<1> QED BY <1>1, <1>2, <1>3, <1>4, TypeParts DEF TypeInv

LEMMA TypeStep == TypeInv /\ [Next]_vars => TypeInv'
<1> SUFFICES ASSUME TypeOK, Bounded, [Next]_vars
             PROVE  Bounded' /\ sec' \in [Sectors -> Sector] /\ LogTypes' /\ ReadTypes'
  BY TypePartsNext DEF TypeInv
<1> DEFINE Goal == Bounded' /\ sec' \in [Sectors -> Sector] /\ LogTypes' /\ ReadTypes'
<1>s. sec \in [Sectors -> Sector] /\ LogTypes /\ ReadTypes
  BY TypeParts
<1>t. /\ memo \in [sec: Sectors, cnt: 0 .. MEMO_SEC_RECS]
      /\ at \in Sectors /\ clkt \in Nat /\ written \in 0 .. MaxRecords
      /\ cleared \in 0 .. written /\ crashes \in 0 .. MaxCrashes /\ MaxRecords \in Nat
  BY <1>s, LoggerAssumption DEF LogTypes
<1>r. UNCHANGED readVars => ReadTypes'
  BY <1>s DEF ReadTypes, readVars
<1>l. UNCHANGED <<memo, pc, at, clkt, written, cleared, crashes>> => LogTypes'
  BY <1>s DEF LogTypes, Idle
<1>b. UNCHANGED <<sec, clkt, written>> => Bounded' /\ sec' \in [Sectors -> Sector]
  BY <1>s DEF Bounded
<1>1. CASE WriteMemo
  <2>1. written' = written + 1 /\ written' \in 0 .. MaxRecords /\ clkt' = clkt + 1 /\ clkt' <= written'
    BY <1>1, <1>t DEF WriteMemo, Bounded
  <2>2. memo.cnt \in Slots /\ memo.sec \in Sectors
    BY <1>1, <1>s, <1>t, Sizes DEF WriteMemo, LogTypes, Slots
  <2> DEFINE r == [n |-> written', time |-> clkt']
  <2>3. r \in Record /\ r.n <= written' /\ r.time <= written'
    BY <2>1, <1>t DEF Record
  <2>4. sec' = [sec EXCEPT ![memo.sec].recs[memo.cnt] = r]
    BY <1>1 DEF WriteMemo
  <2>5. sec' \in [Sectors -> Sector]
    <3> HIDE DEF r
    <3> QED BY <2>2, <2>3, <2>4, <1>s DEF Sector
  <2>6. \A s \in Sectors, i \in Slots :
           sec'[s].recs[i] = IF s = memo.sec /\ i = memo.cnt THEN r ELSE sec[s].recs[i]
    <3> HIDE DEF r
    <3> QED BY <2>2, <2>3, <2>4, <1>s DEF Sector
  <2>7. \A s \in Sectors, i \in Slots :
           sec[s].recs[i].n <= written + 1 /\ sec[s].recs[i].time <= written + 1
    BY <1>s, <1>t DEF Bounded, Sector, Record
  <2>8. Bounded'
    BY <2>1, <2>3, <2>6, <2>7 DEF Bounded
  <2>9. /\ memo' \in [sec: Sectors, cnt: 0 .. MEMO_SEC_RECS] /\ at' \in Sectors
        /\ pc' \in {"idle", "close"} /\ (pc' = "idle" => memo'.cnt < MEMO_SEC_RECS)
    <3>1. CASE IsLast(memo.cnt)
      BY <1>1, <1>t, <2>2, <3>1 DEF WriteMemo
    <3>2. CASE ~IsLast(memo.cnt)
      BY <1>1, <1>t, <2>2, <3>2, Sizes DEF WriteMemo, IsLast, Idle, Slots
    <3> QED BY <3>1, <3>2
  <2>10. cleared' \in 0 .. written' /\ crashes' = crashes /\ clkt' \in 0 .. MaxRecords
    BY <1>1, <2>1, <1>t DEF WriteMemo
  <2>11. LogTypes'
    BY <2>1, <2>9, <2>10, <1>t DEF LogTypes, Idle
  <2> QED BY <1>1, <1>r, <2>5, <2>8, <2>11 DEF WriteMemo
<1>2. CASE Close
  <2>1. sec' = [sec EXCEPT ![at].closed = TRUE]
    BY <1>2 DEF Close
  <2>2. sec' \in [Sectors -> Sector] /\ \A s \in Sectors : sec'[s].recs = sec[s].recs
    BY <2>1, <1>s, <1>t DEF Sector
  <2>3. Next1(at) \in Sectors
    BY <1>t, Sizes DEF Next1, Sectors
  <2>4. LogTypes'
    BY <1>2, <1>s, <2>3 DEF Close, LogTypes, Idle
  <2>5. Bounded'
    BY <1>2, <2>2 DEF Close, Bounded
  <2> QED BY <1>2, <1>r, <2>2, <2>4, <2>5 DEF Close
<1>3. CASE Erase
  <2>1. sec' = [sec EXCEPT ![at] = Blank]
    BY <1>3 DEF Erase
  <2>2. sec' \in [Sectors -> Sector]
        /\ \A s \in Sectors : sec'[s] = IF s = at THEN Blank ELSE sec[s]
    BY <2>1, <1>s, <1>t, BlankSector
  <2>3. Bounded'
    BY <1>3, <2>2, <1>t, BlankSector DEF Erase, Bounded
  <2>4. LogTypes'
    BY <1>3, <1>s DEF Erase, LogTypes, Idle
  <2> QED BY <1>3, <1>r, <2>2, <2>3, <2>4 DEF Erase
<1>4. CASE WriteHead
  <2>1. sec' = [sec EXCEPT ![at].id = TRUE]
    BY <1>4 DEF WriteHead
  <2>2. sec' \in [Sectors -> Sector] /\ \A s \in Sectors : sec'[s].recs = sec[s].recs
    BY <2>1, <1>s, <1>t DEF Sector
  <2>3. memo' = [sec |-> at, cnt |-> 0] /\ pc' = "idle"
    BY <1>4 DEF WriteHead
  <2>4. memo' \in [sec: Sectors, cnt: 0 .. MEMO_SEC_RECS] /\ memo'.cnt < MEMO_SEC_RECS
    BY <2>3, <1>t, Sizes
  <2>5. LogTypes'
    BY <1>4, <1>s, <2>3, <2>4 DEF WriteHead, LogTypes, Idle
  <2>6. Bounded'
    BY <1>4, <2>2 DEF WriteHead, Bounded
  <2> QED BY <1>4, <1>r, <2>2, <2>5, <2>6 DEF WriteHead
<1>5. CASE ClearMemo
  <2>1. 1 \in Sectors /\ written \in 0 .. written
    BY Sizes, <1>t DEF Sectors
  <2>2. memo' \in [sec: Sectors, cnt: 0 .. MEMO_SEC_RECS]
    BY <1>5, <1>t, Sizes DEF ClearMemo
  <2>3. LogTypes'
    BY <1>5, <1>s, <2>1, <2>2 DEF ClearMemo, LogTypes, Idle
  <2> QED BY <1>5, <1>r, <1>b, <2>3 DEF ClearMemo
<1>6. CASE ClearSector
  <2>1. sec' = [sec EXCEPT ![at] = IF sec[at].id THEN Blank ELSE sec[at]]
    BY <1>6 DEF ClearSector
  <2>2. sec' \in [Sectors -> Sector]
        /\ \A s \in Sectors : sec'[s] = Blank \/ sec'[s] = sec[s]
    BY <2>1, <1>s, <1>t, BlankSector
  <2>3. Bounded'
    BY <1>6, <2>2, <1>t, BlankSector DEF ClearSector, Bounded
  <2>4. at' \in Sectors /\ pc' \in {"erase", "clear"}
    BY <1>6, <1>t, Sizes DEF ClearSector, Sectors
  <2>5. LogTypes'
    BY <1>6, <1>s, <2>4 DEF ClearSector, LogTypes, Idle
  <2> QED BY <1>6, <1>r, <2>2, <2>3, <2>5 DEF ClearSector
<1>7. CASE MemoInit
  <2>1. UNCHANGED readVars /\ UNCHANGED <<sec, written, cleared, crashes>>
    BY <1>7 DEF MemoInit
  <2>2. ASSUME NEW s \in Sectors, pc' = "erase", at' = s, memo' = memo, clkt' = clkt
        PROVE  Goal
    <3>1. LogTypes'
      BY <1>s, <2>1, <2>2 DEF LogTypes, Idle
    <3> QED BY <1>r, <1>b, <2>1, <2>2, <3>1
  <2>3. CASE Stops = {}
    <3>1. 0 \in Sectors
      BY Sizes DEF Sectors
    <3>2. pc' = "erase" /\ at' = 0 /\ memo' = memo /\ clkt' = clkt
      BY <1>7, <2>3 DEF MemoInit
    <3> QED BY <2>2, <3>1, <3>2
  <2>4. CASE Stops # {}
    <3> DEFINE s == First(Stops)
    <3>1. s \in Sectors
      BY <2>4, FirstStop DEF Stops
    <3>2. CASE ~sec[s].id
      <4>1. pc' = "erase" /\ at' = s /\ memo' = memo /\ clkt' = clkt
        BY <1>7, <2>4, <3>2 DEF MemoInit
      <4> HIDE DEF s
      <4> QED BY <2>2, <3>1, <4>1
    <3>3. CASE sec[s].id
      <4>1. /\ clkt' = RestoreTime(s) /\ memo' = [sec |-> s, cnt |-> Filled(s)] /\ at' = s
            /\ pc' = IF Filled(s) = MEMO_SEC_RECS THEN "close" ELSE "idle"
        BY <1>7, <2>4, <3>3 DEF MemoInit
      <4> HIDE DEF s
      <4>2. clkt' \in 0 .. written
        BY <4>1, <3>1, RestoreBounded
      <4>3. Filled(s) \in 0 .. MEMO_SEC_RECS
        BY <3>1, FilledSlots
      <4>4. /\ memo' \in [sec: Sectors, cnt: 0 .. MEMO_SEC_RECS]
            /\ pc' \in {"idle", "close"} /\ (pc' = "idle" => memo'.cnt < MEMO_SEC_RECS)
        BY <4>1, <4>3, <3>1, Sizes
      <4>5. LogTypes'
        BY <1>t, <2>1, <3>1, <4>1, <4>2, <4>4 DEF LogTypes, Idle
      <4>6. Bounded'
        BY <2>1, <4>2 DEF Bounded
      <4> QED BY <1>s, <1>r, <2>1, <4>5, <4>6
    <3> QED BY <3>2, <3>3
  <2> QED BY <2>3, <2>4
<1>8. CASE Crash
  <2>2. ReadTypes'
    BY <1>8, NoReadTyped DEF Crash, ReadTypes
  <2>3. crashes' \in 0 .. MaxCrashes
    BY <1>8, <1>t, LoggerAssumption DEF Crash
  <2>4. LogTypes'
    BY <1>8, <1>s, <1>t, <2>3 DEF Crash, LogTypes, Idle
  <2>5. Bounded'
    BY <1>8, <1>t DEF Crash, Bounded
  <2> QED BY <1>8, <1>s, <2>2, <2>4, <2>5 DEF Crash
<1>9. CASE SetTime
  <2>1. LogTypes'
    BY <1>9, <1>s, <1>t DEF SetTime, LogTypes, Idle
  <2>2. Bounded'
    BY <1>9, <1>t DEF SetTime, Bounded
  <2> QED BY <1>9, <1>s, <1>r, <2>1, <2>2 DEF SetTime
<1>10. ASSUME NEW c \in Counts, NEW s \in Starts, Request(c, s) PROVE Goal
  <2>1. s \in Nat /\ c \in Counts \union {0}
    BY LoggerAssumption
  <2>2. rd' \in RdType
    BY <1>10, <1>t, <2>1 DEF Request, RdType
  <2>3. ReadTypes'
    BY <1>10, <1>s, <2>1, <2>2 DEF Request, ReadTypes
  <2> QED BY <1>10, <1>l, <1>b, <2>3 DEF Request
<1>11. ASSUME NEW c \in Counts \union {0}, NEW k \in Nat,
              rd' = [rd EXCEPT !.cnt = c, !.cur = k]
       PROVE  rd' \in RdType
  BY <1>s, <1>11 DEF ReadTypes, RdType
<1>12. /\ rd \in RdType /\ rd.cnt \in Counts \union {0} /\ 0 \in Counts \union {0}
       /\ rd.cur \in Nat /\ rd.cur + 1 \in Nat
  <2>1. rd \in RdType
    BY <1>s DEF ReadTypes
  <2> QED BY <2>1 DEF RdType
<1>13. CASE RequestNone
  <2>1. rd' \in RdType
    BY <1>13, <1>12 DEF RequestNone, RdType
  <2> QED BY <1>13, <1>s, <1>l, <1>b, <2>1 DEF RequestNone, ReadTypes
<1>14. CASE NotifyNothing
  BY <1>14, <1>s, <1>l, <1>b DEF NotifyNothing, ReadTypes, flashVars
<1>15. CASE NotifyRecord
  <2>1. rd' \in RdType
    BY <1>15, <1>12 DEF NotifyRecord, RdType
  <2> QED BY <1>15, <1>s, <1>l, <1>b, <1>12, <2>1 DEF NotifyRecord, ReadTypes, flashVars
<1>16. CASE NotifyEnd
  <2>1. rd' \in RdType
    BY <1>16, <1>12 DEF NotifyEnd, RdType
  <2> QED BY <1>16, <1>s, <1>l, <1>b, <2>1 DEF NotifyEnd, ReadTypes, flashVars
<1>17. CASE NotifyGone
  <2>1. rd' \in RdType
    <3> DEFINE c == IF HasRecord THEN rd.cnt ELSE 0
    <3>1. c \in Counts \union {0} /\ rd' = [rd EXCEPT !.cnt = c, !.cur = rd.cur + 1]
      BY <1>17, <1>12 DEF NotifyGone
    <3> HIDE DEF c
    <3> QED BY <3>1, <1>11, <1>12
  <2> QED BY <1>17, <1>s, <1>l, <1>b, <2>1 DEF NotifyGone, ReadTypes, flashVars
<1>18. CASE NotifyBusy
  <2>1. rd' \in RdType
    BY <1>18, <1>12 DEF NotifyBusy, RdType
  <2> QED BY <1>18, <1>s, <1>l, <1>b, <2>1 DEF NotifyBusy, ReadTypes, flashVars
<1>19. CASE Link
  BY <1>19, <1>s, <1>l, <1>b DEF Link, ReadTypes, flashVars
<1>20. CASE UNCHANGED vars
  BY <1>20, <1>r, <1>l, <1>b DEF vars, readVars
<1> QED
  BY <1>1, <1>2, <1>3, <1>4, <1>5, <1>6, <1>7, <1>8, <1>9, <1>10, <1>13, <1>14,
     <1>15, <1>16, <1>17, <1>18, <1>19, <1>20 DEF Next, FlashOp, Notify
-----------------------------------------------------------------------------
(***************************************************************************)
(* Where the records are.                                                  *)
(***************************************************************************)

(* What happens to one sector leaves the others as they were.              *)
LEMMA RingKept ==
    ASSUME NEW q \in Nat, Ring(q), cleared' = cleared,
           \A s \in Sectors : s # At(q) => sec'[s] = sec[s]
    PROVE  Ring(q)'
<1> HIDE DEF At
<1>1. ASSUME NEW t \in 0 .. q - 1, q - MEMO_SEC_COUNT < t
      PROVE  FullAt(t)'
  <2>1. t \in Int /\ q \in Int /\ t < q /\ q < t + MEMO_SEC_COUNT
    BY <1>1, Sizes
  <2>2. At(t) # At(q) /\ At(t) \in Sectors
    BY <2>1, AtDiffer, AtSector
  <2>3. FullAt(t) /\ sec'[At(t)] = sec[At(t)]
    BY <1>1, <2>2 DEF Ring
  <2> QED BY <2>3 DEF FullAt, Holds
<1>2. ASSUME q < MEMO_SEC_COUNT, NEW s \in Sectors, s > q
      PROVE  ~sec'[s].id
  <2>1. q \in Sectors
    BY <1>2, Sizes DEF Sectors
  <2>2. At(q) = q
    BY <2>1, AtFirst
  <2>3. sec'[s] = sec[s] /\ ~sec[s].id
    BY <1>2, <2>1, <2>2 DEF Ring, Sectors
  <2> QED BY <2>3
<1> QED BY <1>1, <1>2 DEF Ring

LEMMA OpenKept ==
    ASSUME NEW q \in Nat, NEW c \in Int, OpenAt(q, c), cleared' = cleared,
           sec'[At(q)] = sec[At(q)]
    PROVE  OpenAt(q, c)'
<1> HIDE DEF At
<1> QED BY DEF OpenAt, Holds

(* The next number is opened when this sector is full.                     *)
LEMMA RingNext ==
    ASSUME NEW q \in Nat, Ring(q)', FullAt(q)'
    PROVE  Ring(q + 1)'
<1> HIDE DEF At
<1>1. ASSUME NEW t \in 0 .. (q + 1) - 1, (q + 1) - MEMO_SEC_COUNT < t
      PROVE  FullAt(t)'
  <2>1. CASE t = q
    BY <2>1
  <2>2. CASE t # q
    <3>1. t \in 0 .. q - 1 /\ q - MEMO_SEC_COUNT < t
      BY <1>1, <2>2, Sizes
    <3> QED BY <3>1 DEF Ring
  <2> QED BY <2>1, <2>2
<1>2. ASSUME q + 1 < MEMO_SEC_COUNT, NEW s \in Sectors, s > q + 1
      PROVE  ~sec'[s].id
  <2>1. q < MEMO_SEC_COUNT /\ s > q
    BY <1>2, Sizes DEF Sectors
  <2> QED BY <2>1 DEF Ring
<1> QED BY <1>1, <1>2 DEF Ring

LEMMA FilledIs ==
    ASSUME NEW s \in Sectors, NEW c \in 0 .. MEMO_SEC_RECS,
           \A i \in Slots : IF i < c THEN sec[s].recs[i].time # 0
                                      ELSE sec[s].recs[i] = Erased
    PROVE  Filled(s) = c
<1> DEFINE F == {i \in Slots : \A j \in 0 .. i : sec[s].recs[j].time # 0}
<1>1. ASSUME NEW i \in Slots, i < c, NEW j \in 0 .. i PROVE sec[s].recs[j].time # 0
  BY <1>1, Sizes DEF Slots
<1>2. ASSUME NEW i \in Slots, ~(i < c) PROVE c \in 0 .. i /\ sec[s].recs[c].time = 0
  BY <1>2, Sizes DEF Slots, Erased
<1>3. \A i \in Slots : i \in 0 .. c - 1 <=> i < c
  BY Sizes DEF Slots
<1>4. 0 .. c - 1 \subseteq Slots
  BY Sizes DEF Slots
<1>5. F = 0 .. c - 1
  BY <1>1, <1>2, <1>3, <1>4
<1>6. Cardinality(0 .. c - 1) = c
  BY FS_Interval
<1> QED BY <1>5, <1>6 DEF Filled

(* A start-up finds the sector of the last number.                         *)
LEMMA FirstStopIs ==
    ASSUME TypeOK, NEW q \in Nat, Ring(q), ~sec[At(q)].id \/ ~sec[At(q)].closed
    PROVE  Stops # {} /\ First(Stops) = At(q)
<1> HIDE DEF At
<1>1. At(q) \in Stops /\ Stops \in SUBSET Sectors
  BY AtSector DEF Stops
<1>2. First(Stops) \in Stops /\ \A t \in Stops : First(Stops) <= t
  BY <1>1, FirstStop
<1>3. ASSUME NEW t \in 0 .. q - 1, q - MEMO_SEC_COUNT < t PROVE At(t) \notin Stops
  BY <1>3 DEF Ring, FullAt, Stops
<1>4. CASE q < MEMO_SEC_COUNT
  <2>1. q \in Sectors
    BY <1>4, Sizes DEF Sectors
  <2>2. At(q) = q
    BY <2>1, AtFirst
  <2>3. ASSUME NEW s \in Sectors, s < q PROVE s \notin Stops
    <3>1. s \in 0 .. q - 1 /\ q - MEMO_SEC_COUNT < s
      BY <1>4, <2>3, Sizes DEF Sectors
    <3>2. At(s) = s
      BY AtFirst
    <3> QED BY <1>3, <3>1, <3>2
  <2>4. First(Stops) \in Sectors /\ First(Stops) <= q /\ ~(First(Stops) < q)
    BY <1>1, <1>2, <2>2, <2>3
  <2> QED BY <1>1, <2>1, <2>2, <2>4 DEF Sectors
<1>5. CASE q >= MEMO_SEC_COUNT
  <2>1. ASSUME NEW s \in Stops PROVE s = At(q)
    <3>1. s \in Sectors /\ q >= MEMO_SEC_COUNT - 1
      BY <1>1, <1>5, Sizes
    <3>2. PICK t \in Nat : q - MEMO_SEC_COUNT < t /\ t <= q /\ At(t) = s
      BY <3>1, AtAll
    <3>3. ~(t \in 0 .. q - 1)
      BY <1>3, <3>2
    <3> QED BY <3>2, <3>3
  <2> QED BY <1>1, <1>2, <2>1
<1> QED BY <1>4, <1>5, Sizes
LEMMA LogAtInit == Init => LogInv
<1> SUFFICES ASSUME Init PROVE LogInv
  OBVIOUS
<1>1. 0 \in Sectors /\ At(0) = 0
  BY Sizes, AtFirst DEF Sectors
<1>2. \A s \in Sectors : ~sec[s].id
  BY DEF Init, Blank
<1>3. Ring(0)
  BY <1>2 DEF Ring
<1>4. Counted(0, 0)
  BY Sizes DEF Init, Counted
<1>5. OffAt(0)
  <2> HIDE DEF At
  <2> QED BY <1>1, <1>2, <1>3, <1>4 DEF OffAt, Init
<1> QED BY <1>5 DEF LogInv, LogAt

LEMMA LogStep ==
    ASSUME TypeInv, TypeInv', LogInv, ~Interruptible, [Next]_vars
    PROVE  LogInv'
<1> HIDE DEF At
<1>s. /\ sec \in [Sectors -> Sector] /\ at \in Sectors /\ memo.sec \in Sectors
      /\ memo.cnt \in 0 .. MEMO_SEC_RECS
      /\ pc \in {"off", "idle", "close", "erase", "head", "clear"}
      /\ clkt \in Nat /\ written \in Nat /\ cleared \in Nat /\ cleared <= written
  BY TypeParts DEF TypeInv, LogTypes
<1>n. /\ sec' \in [Sectors -> Sector] /\ memo'.cnt \in 0 .. MEMO_SEC_RECS
  BY TypePartsNext DEF TypeInv, LogTypes
<1>p. pc # "clear" => \E q \in Nat : LogAt(q)
  BY DEF LogInv, Clearing
<1>k. ASSUME UNCHANGED <<sec, memo, pc, at, written, cleared>>
      PROVE  LogInv'
  <2>1. Clearing => Clearing'
    BY <1>k DEF Clearing
  <2>2. ASSUME NEW q \in Nat, LogAt(q) PROVE LogAt(q)'
    <3>1. Ring(q) => Ring(q)'
      BY <1>k, RingKept
    <3>2. \A c \in Int : OpenAt(q, c) => OpenAt(q, c)'
      BY <1>k, OpenKept
    <3>3. \A c \in Int : Counted(q, c) => Counted(q, c)'
      BY <1>k DEF Counted
    <3> QED BY <1>k, <1>s, <2>2, <3>1, <3>2, <3>3, Sizes
            DEF LogAt, IdleAt, ClosingAt, ErasingAt, HeadAt, OffAt
  <2> QED BY <2>1, <2>2 DEF LogInv
<1>1. CASE WriteMemo
  <2>1. PICK q \in Nat : IdleAt(q)
    BY <1>1, <1>p DEF WriteMemo, Idle, LogAt, ClosingAt, ErasingAt, HeadAt, OffAt
  <2> PICK c \in 0 .. MEMO_SEC_RECS : c = memo.cnt
    BY <1>s
  <2> DEFINE r == [n |-> written', time |-> clkt']
  <2>2. /\ memo.sec = At(q) /\ At(q) \in Sectors /\ c \in Slots /\ Ring(q) /\ OpenAt(q, c)
        /\ written = cleared + q * MEMO_SEC_RECS + c
    BY <2>1, <1>s, AtSector, Sizes DEF IdleAt, Counted, Slots
  <2>3. /\ written' = written + 1 /\ clkt' = clkt + 1 /\ cleared' = cleared
        /\ sec' = [sec EXCEPT ![At(q)].recs[c] = r]
    BY <1>1, <2>2 DEF WriteMemo
  <2> HIDE DEF r
  <2>4. \A s \in Sectors : s # At(q) => sec'[s] = sec[s]
    BY <2>3, <1>s
  <2>5. /\ sec'[At(q)].id = sec[At(q)].id /\ sec'[At(q)].closed = sec[At(q)].closed
        /\ \A i \in Slots : sec'[At(q)].recs[i] = IF i = c THEN r ELSE sec[At(q)].recs[i]
    BY <2>2, <2>3, <1>s DEF Sector
  <2>6. r.n = cleared + q * MEMO_SEC_RECS + c + 1 /\ r.time # 0
    BY <2>2, <2>3, <1>s DEF r
  <2>7. c \in Int /\ \A i \in Slots : i \in Int /\ (i < c + 1 <=> i < c \/ i = c) /\ ~(i < c /\ i = c)
    BY <2>2 DEF Slots
  <2>8. OpenAt(q, c + 1)'
    <3>1. ASSUME NEW i \in Slots, i < c + 1 PROVE Holds(q, i)'
      BY <2>2, <2>3, <2>5, <2>6, <2>7, <3>1 DEF OpenAt, Holds
    <3>2. ASSUME NEW i \in Slots, ~(i < c + 1) PROVE sec'[At(q)].recs[i] = Erased
      BY <2>2, <2>5, <2>7, <3>2 DEF OpenAt
    <3> QED BY <2>2, <2>5, <3>1, <3>2 DEF OpenAt
  <2>9. Ring(q)'
    BY <2>2, <2>3, <2>4, RingKept
  <2>10. written' = cleared' + q * MEMO_SEC_RECS + (c + 1)
    <3>1. q * MEMO_SEC_RECS \in Int
      BY Sizes
    <3> QED BY <2>2, <2>3, <2>7, <3>1, <1>s
  <2>11. CASE IsLast(c)
    <3>1. c + 1 = MEMO_SEC_RECS
      BY <2>2, <2>11, Sizes DEF IsLast, Slots
    <3>2. pc' = "close" /\ at' = At(q)
      BY <1>1, <2>2, <2>11 DEF WriteMemo
    <3>3. ClosingAt(q)'
      BY <2>8, <2>9, <2>10, <3>1, <3>2 DEF ClosingAt, Counted
    <3> QED BY <3>3 DEF LogInv, LogAt
  <2>12. CASE ~IsLast(c)
    <3>1. pc' = "idle" /\ memo'.sec = At(q) /\ memo'.cnt = c + 1
      BY <1>1, <1>s, <2>2, <2>12, TypeParts DEF WriteMemo, Idle, TypeInv, LogTypes
    <3>2. c + 1 < MEMO_SEC_RECS
      BY <2>2, <2>12, Sizes DEF IsLast, Slots
    <3>3. IdleAt(q)'
      BY <2>8, <2>9, <2>10, <3>1, <3>2 DEF IdleAt, Counted
    <3> QED BY <3>3 DEF LogInv, LogAt
  <2> QED BY <2>11, <2>12
<1>2. CASE Close
  <2>1. PICK q \in Nat : ClosingAt(q)
    BY <1>2, <1>p DEF Close, LogAt, IdleAt, ErasingAt, HeadAt, OffAt
  <2>2. /\ at = At(q) /\ Ring(q) /\ OpenAt(q, MEMO_SEC_RECS)
        /\ written = cleared + q * MEMO_SEC_RECS + MEMO_SEC_RECS
    BY <2>1 DEF ClosingAt, Counted
  <2>3. /\ written' = written /\ cleared' = cleared /\ pc' = "erase"
        /\ at' = At(q + 1) /\ sec' = [sec EXCEPT ![At(q)].closed = TRUE]
    BY <1>2, <2>2, AtNext DEF Close
  <2>4. \A s \in Sectors : s # At(q) => sec'[s] = sec[s]
    BY <2>3, <1>s
  <2>5. sec'[At(q)].id = sec[At(q)].id /\ sec'[At(q)].closed /\ sec'[At(q)].recs = sec[At(q)].recs
    BY <2>2, <2>3, <1>s DEF Sector
  <2>6. \A i \in Slots : i < MEMO_SEC_RECS
    BY Sizes DEF Slots
  <2>7. FullAt(q)'
    BY <2>2, <2>3, <2>5, <2>6 DEF OpenAt, FullAt, Holds
  <2>8. Ring(q)'
    BY <2>2, <2>3, <2>4, RingKept
  <2>9. Ring(q + 1)'
    BY <2>7, <2>8, RingNext
  <2>10. written' = cleared' + (q + 1) * MEMO_SEC_RECS + 0
    BY <2>2, <2>3, <1>s, Sizes
  <2>11. ErasingAt(q + 1)' /\ q + 1 \in Nat
    BY <2>3, <2>9, <2>10 DEF ErasingAt, Counted
  <2> QED BY <2>11 DEF LogInv, LogAt
<1>3. CASE Erase
  <2>1. PICK q \in Nat : ErasingAt(q)
    BY <1>3, <1>p DEF Erase, LogAt, IdleAt, ClosingAt, HeadAt, OffAt
  <2>2. /\ written' = written /\ cleared' = cleared /\ pc' = "head" /\ at' = at
        /\ sec' = [sec EXCEPT ![at] = Blank]
    BY <1>3 DEF Erase
  <2>3. at = At(q) /\ Ring(q) /\ Counted(q, 0)
    BY <2>1 DEF ErasingAt
  <2>4. \A s \in Sectors : s # At(q) => sec'[s] = sec[s]
    BY <2>2, <2>3, <1>s
  <2>5. sec'[at'] = Blank
    BY <2>2, <1>s
  <2>6. Ring(q)'
    BY <2>2, <2>3, <2>4, RingKept
  <2>7. HeadAt(q)'
    BY <2>2, <2>3, <2>5, <2>6 DEF HeadAt, Counted
  <2> QED BY <2>7 DEF LogInv, LogAt
<1>4. CASE WriteHead
  <2>1. PICK q \in Nat : HeadAt(q)
    BY <1>4, <1>p DEF WriteHead, LogAt, IdleAt, ClosingAt, ErasingAt, OffAt
  <2>2. /\ written' = written /\ cleared' = cleared /\ pc' = "idle"
        /\ memo' = [sec |-> at, cnt |-> 0] /\ sec' = [sec EXCEPT ![at].id = TRUE]
    BY <1>4 DEF WriteHead
  <2>3. at = At(q) /\ Ring(q) /\ Counted(q, 0) /\ sec[at] = Blank
    BY <2>1 DEF HeadAt
  <2>4. \A s \in Sectors : s # At(q) => sec'[s] = sec[s]
    BY <2>2, <2>3, <1>s
  <2>5. Ring(q)'
    BY <2>2, <2>3, <2>4, RingKept
  <2>6. /\ sec'[At(q)].id /\ ~sec'[At(q)].closed
        /\ \A i \in Slots : sec'[At(q)].recs[i] = Erased
    BY <2>2, <2>3, <1>s DEF Blank, Sector
  <2>7. \A i \in Slots : ~(i < 0)
    BY DEF Slots
  <2>8. OpenAt(q, 0)'
    BY <2>6, <2>7 DEF OpenAt
  <2>9. memo'.cnt = 0 /\ memo'.sec = At(q) /\ memo'.cnt < MEMO_SEC_RECS
    BY <2>2, <2>3, Sizes
  <2>10. IdleAt(q)'
    BY <2>2, <2>3, <2>5, <2>8, <2>9 DEF IdleAt, Counted
  <2> QED BY <2>10 DEF LogInv, LogAt
<1>5. CASE ClearMemo
  <2>1. pc' = "clear" /\ at' = 1 /\ cleared' = written' /\ sec' = sec
    BY <1>5 DEF ClearMemo
  <2>2. \A s \in Sectors : ~(1 <= s /\ s < 1)
    BY Sizes DEF Sectors
  <2> QED BY <2>1, <2>2 DEF LogInv, Clearing
<1>6. CASE ClearSector
  <2>1. Clearing
    BY <1>6 DEF ClearSector, LogInv, LogAt, IdleAt, ClosingAt, ErasingAt, HeadAt, OffAt
  <2>2. /\ written' = written /\ cleared' = cleared
        /\ sec' = [sec EXCEPT ![at] = IF sec[at].id THEN Blank ELSE sec[at]]
    BY <1>6 DEF ClearSector
  <2>3. \A s \in Sectors : s # at => sec'[s] = sec[s]
    BY <2>2, <1>s
  <2>4. ~sec'[at].id
    BY <2>2, <1>s DEF Blank
  <2>5. ASSUME NEW s \in Sectors, 1 <= s, s <= at PROVE ~sec'[s].id
    <3>1. CASE s = at
      BY <2>4, <3>1
    <3>2. CASE s # at
      <4>1. s < at
        BY <2>5, <3>2, <1>s DEF Sectors
      <4> QED BY <2>1, <2>3, <2>5, <3>2, <4>1 DEF Clearing
    <3> QED BY <3>1, <3>2
  <2>6. CASE at = MEMO_SEC_COUNT - 1
    <3>1. pc' = "erase" /\ at' = 0
      BY <1>6, <2>6 DEF ClearSector
    <3>2. 0 \in Sectors /\ At(0) = 0
      BY Sizes, AtFirst DEF Sectors
    <3>3. \A s \in Sectors : s > 0 => ~sec'[s].id
      BY <2>5, <2>6, Sizes DEF Sectors
    <3>4. Ring(0)'
      BY <3>3 DEF Ring
    <3>5. Counted(0, 0)'
      BY <2>1, <2>2, <1>s, Sizes DEF Counted, Clearing
    <3>6. ErasingAt(0)'
      BY <3>1, <3>2, <3>4, <3>5 DEF ErasingAt
    <3> QED BY <3>6 DEF LogInv, LogAt
  <2>7. CASE at # MEMO_SEC_COUNT - 1
    <3>1. pc' = "clear" /\ at' = at + 1
      BY <1>6, <2>7 DEF ClearSector
    <3>2. at' >= 1 /\ \A s \in Sectors : s < at' => s <= at
      BY <2>1, <3>1, <1>s DEF Clearing, Sectors
    <3> QED BY <2>1, <2>2, <2>5, <3>1, <3>2 DEF LogInv, Clearing
  <2> QED BY <2>6, <2>7
<1>7. CASE MemoInit
  <2>1. PICK q \in Nat : OffAt(q)
    BY <1>7, <1>p DEF MemoInit, LogAt, IdleAt, ClosingAt, ErasingAt, HeadAt
  <2>2. sec' = sec /\ written' = written /\ cleared' = cleared
    BY <1>7 DEF MemoInit
  <2>3. Ring(q) /\ (~sec[At(q)].id \/ ~sec[At(q)].closed)
    BY <2>1 DEF OffAt, OpenAt
  <2>4. Stops # {} /\ First(Stops) = At(q) /\ At(q) \in Sectors
    BY <2>3, FirstStopIs, AtSector DEF TypeInv
  <2>5. Ring(q)'
    BY <2>2, <2>3, RingKept
  <2>6. CASE ~sec[At(q)].id
    <3>1. pc' = "erase" /\ at' = At(q)
      BY <1>7, <2>4, <2>6 DEF MemoInit
    <3>2. Counted(q, 0)'
      BY <2>1, <2>2, <2>6 DEF OffAt, OpenAt, Counted
    <3>3. ErasingAt(q)'
      BY <2>5, <3>1, <3>2 DEF ErasingAt
    <3> QED BY <3>3 DEF LogInv, LogAt
  <2>7. CASE sec[At(q)].id
    <3>1. PICK c \in 0 .. MEMO_SEC_RECS : OpenAt(q, c) /\ Counted(q, c)
      BY <2>1, <2>7 DEF OffAt
    <3>2. Filled(At(q)) = c
      <4>1. \A i \in Slots : IF i < c THEN sec[At(q)].recs[i].time # 0
                                        ELSE sec[At(q)].recs[i] = Erased
        BY <3>1 DEF OpenAt, Holds
      <4> QED BY <2>4, <4>1, FilledIs
    <3>3. /\ memo' = [sec |-> At(q), cnt |-> c] /\ at' = At(q)
          /\ pc' = IF c = MEMO_SEC_RECS THEN "close" ELSE "idle"
      BY <1>7, <2>4, <2>7, <3>2 DEF MemoInit
    <3>4. OpenAt(q, c)' /\ Counted(q, c)'
      BY <2>2, <3>1, OpenKept DEF Counted
    <3>5. CASE c = MEMO_SEC_RECS
      <4>1. ClosingAt(q)'
        BY <2>5, <3>3, <3>4, <3>5 DEF ClosingAt
      <4> QED BY <4>1 DEF LogInv, LogAt
    <3>6. CASE c # MEMO_SEC_RECS
      <4>1. c < MEMO_SEC_RECS /\ memo'.cnt = c /\ memo'.sec = At(q) /\ pc' = "idle"
        BY <3>1, <3>3, <3>6, Sizes
      <4>2. IdleAt(q)'
        BY <2>5, <3>4, <4>1 DEF IdleAt
      <4> QED BY <4>2 DEF LogInv, LogAt
    <3> QED BY <3>5, <3>6
  <2> QED BY <2>6, <2>7
<1>8. CASE Crash
  <2>1. /\ pc # "clear" /\ pc # "off" /\ ~(pc = "erase" /\ sec[at].id) /\ pc' = "off"
        /\ sec' = sec /\ written' = written /\ cleared' = cleared
    BY <1>8 DEF Crash
  <2>2. PICK q \in Nat : LogAt(q)
    BY <2>1, <1>p
  <2>3. Ring(q)
    BY <2>2 DEF LogAt, IdleAt, ClosingAt, ErasingAt, HeadAt, OffAt
  <2>4. Ring(q)'
    BY <2>1, <2>3, RingKept
  <2>5. ASSUME NEW c \in 0 .. MEMO_SEC_RECS, OpenAt(q, c), Counted(q, c) PROVE LogInv'
    <3>1. OpenAt(q, c)' /\ Counted(q, c)'
      BY <2>1, <2>5, OpenKept DEF Counted
    <3>2. OffAt(q)'
      BY <2>1, <2>4, <3>1 DEF OffAt
    <3> QED BY <3>2 DEF LogInv, LogAt
  <2>6. ASSUME ~sec[At(q)].id, Counted(q, 0) PROVE LogInv'
    <3>1. ~sec'[At(q)].id /\ Counted(q, 0)'
      BY <2>1, <2>6 DEF Counted
    <3>2. OffAt(q)'
      BY <2>1, <2>4, <3>1 DEF OffAt
    <3> QED BY <3>2 DEF LogInv, LogAt
  <2>7. CASE IdleAt(q)
    BY <1>s, <2>5, <2>7 DEF IdleAt
  <2>8. CASE ClosingAt(q)
    <3>1. MEMO_SEC_RECS \in 0 .. MEMO_SEC_RECS
      BY Sizes
    <3> QED BY <2>5, <2>8, <3>1 DEF ClosingAt
  <2>9. CASE ErasingAt(q)
    BY <2>1, <2>6, <2>9 DEF ErasingAt
  <2>10. CASE HeadAt(q)
    BY <2>6, <2>10 DEF HeadAt, Blank
  <2> QED BY <2>1, <2>2, <2>7, <2>8, <2>9, <2>10 DEF LogAt, OffAt
<1>9. CASE SetTime
  BY <1>9, <1>k DEF SetTime
<1>10. ASSUME NEW c \in Counts, NEW s \in Starts, Request(c, s) PROVE LogInv'
  BY <1>10, <1>k DEF Request
<1>11. CASE RequestNone
  BY <1>11, <1>k DEF RequestNone
<1>12. CASE Notify
  BY <1>12, <1>k DEF Notify, NotifyNothing, NotifyRecord, NotifyEnd, NotifyGone, flashVars
<1>13. CASE NotifyBusy
  BY <1>13, <1>k DEF NotifyBusy, flashVars
<1>14. CASE Link
  BY <1>14, <1>k DEF Link, flashVars
<1>15. CASE UNCHANGED vars
  BY <1>15, <1>k DEF vars
<1> QED
  BY <1>1, <1>2, <1>3, <1>4, <1>5, <1>6, <1>7, <1>8, <1>9, <1>10, <1>11, <1>12,
     <1>13, <1>14, <1>15 DEF Next, FlashOp
-----------------------------------------------------------------------------
(***************************************************************************)
(* Counting back.                                                          *)
(***************************************************************************)
LEMMA Product ==
    ASSUME NEW x \in Int, NEW y \in Int, NEW w \in Nat, x >= y
    PROVE  x * w \in Int /\ y * w \in Int /\ x * w >= y * w
<1>1. (x - y) * w >= 0 /\ (x - y) * w = x * w - y * w /\ x * w \in Int /\ y * w \in Int
  OBVIOUS
<1> QED BY <1>1

(* get_memo goes back over the numbers of the sectors, not over the ring.  *)
LEMMA PlaceIs ==
    ASSUME NEW p \in Nat, NEW c \in Slots, NEW k \in Nat \ {0}
    PROVE  \E t \in Int, i \in Slots :
              /\ Place(At(p), c, k) = <<At(t), i>>
              /\ t * MEMO_SEC_RECS + i = p * MEMO_SEC_RECS + c - k
              /\ IF k <= c THEN t = p /\ i < c ELSE t < p
<1> HIDE DEF At
<1>1. CASE k <= c
  <2>1. c - k \in Slots /\ c - k < c
    BY <1>1, Sizes DEF Slots
  <2>2. Place(At(p), c, k) = <<At(p), c - k>>
    BY <1>1 DEF Place
  <2>3. p * MEMO_SEC_RECS + (c - k) = p * MEMO_SEC_RECS + c - k
    BY Sizes, Product DEF Slots
  <2> QED BY <1>1, <2>1, <2>2, <2>3
<1>2. CASE ~(k <= c)
  <2>1. PICK before \in Nat : before = k - c - 1
    BY <1>2 DEF Slots
  <2>2. PICK a \in Int, b \in 0 .. MEMO_SEC_RECS - 1 :
           /\ a = before \div MEMO_SEC_RECS /\ b = before % MEMO_SEC_RECS
           /\ before = a * MEMO_SEC_RECS + b
    BY Sizes, DivMod
  <2>3. a >= 0
    <3> SUFFICES ASSUME 0 - a >= 1 PROVE FALSE
      OBVIOUS
    <3>1. (0 - a) * MEMO_SEC_RECS >= MEMO_SEC_RECS
      BY Sizes, AtLeast
    <3> QED BY <2>1, <2>2, <3>1, Sizes
  <2>4. Place(At(p), c, k) = <<Back(At(p), 1 + a), MEMO_SEC_RECS - 1 - b>>
    BY <1>2, <2>1, <2>2 DEF Place
  <2>5. Back(At(p), 1 + a) = At(p - (1 + a))
    BY <2>3, AtBack
  <2>6. MEMO_SEC_RECS - 1 - b \in Slots /\ p - (1 + a) \in Int /\ p - (1 + a) < p
    BY <2>2, <2>3, Sizes DEF Slots
  <2>7. (p - (1 + a)) * MEMO_SEC_RECS + (MEMO_SEC_RECS - 1 - b) = p * MEMO_SEC_RECS + c - k
    <3>1. (p - (1 + a)) * MEMO_SEC_RECS = p * MEMO_SEC_RECS - MEMO_SEC_RECS - a * MEMO_SEC_RECS
      BY <2>2, Sizes
    <3>2. p * MEMO_SEC_RECS \in Int /\ a * MEMO_SEC_RECS \in Int
      BY <2>2, Sizes
    <3> QED BY <2>1, <2>2, <3>1, <3>2, Sizes DEF Slots
  <2> QED BY <1>2, <2>4, <2>5, <2>6, <2>7
<1> QED BY <1>1, <1>2

(* A number and its neighbours a whole round away share the sector.        *)
LEMMA AtRound ==
    ASSUME NEW q \in Int
    PROVE  At(q - MEMO_SEC_COUNT) = At(q)
<1>1. PICK d \in Int : q = d * MEMO_SEC_COUNT + At(q)
  BY AtSector
<1>2. At(q) \in Sectors /\ At(q) \in Int
  BY AtSector, Sizes DEF Sectors
<1> HIDE DEF At
<1>3. q - MEMO_SEC_COUNT = (d - 1) * MEMO_SEC_COUNT + At(q)
  BY <1>1, <1>2, Sizes
<1>4. q - MEMO_SEC_COUNT \in Int /\ d - 1 \in Int
  BY Sizes
<1> QED BY <1>2, <1>3, <1>4, AtIs

(* The records between the last clear and the write position, as far back  *)
(* as the ring goes, are in their places.                                  *)
LEMMA InPlace ==
    ASSUME TypeOK, NEW q \in Nat, IdleAt(q), NEW t \in Nat, NEW i \in Slots,
           q - MEMO_SEC_COUNT < t,
           t * MEMO_SEC_RECS + i < q * MEMO_SEC_RECS + memo.cnt
    PROVE  /\ Holds(t, i) /\ sec[At(t)].id /\ (t = q \/ sec[At(t)].closed)
<1> HIDE DEF At
<1>1. i \in 0 .. MEMO_SEC_RECS - 1 /\ memo.cnt \in 0 .. MEMO_SEC_RECS - 1
  BY Sizes DEF IdleAt, Slots, TypeOK
<1>2. CASE t < q
  BY <1>2 DEF IdleAt, Ring, FullAt
<1>3. CASE t = q
  <2>1. t * MEMO_SEC_RECS \in Int
    BY Sizes
  <2>2. i < memo.cnt
    BY <1>1, <1>3, <2>1
  <2> QED BY <1>3, <2>2 DEF IdleAt, OpenAt
<1>4. CASE t > q
  <2>1. (q + 1) * MEMO_SEC_RECS = q * MEMO_SEC_RECS + MEMO_SEC_RECS /\ q * MEMO_SEC_RECS \in Int
    BY Sizes
  <2>2. t * MEMO_SEC_RECS >= (q + 1) * MEMO_SEC_RECS /\ t * MEMO_SEC_RECS \in Int
    BY <1>4, Sizes, Product
  <2> QED BY <1>1, <2>1, <2>2, Sizes
<1> QED BY <1>2, <1>3, <1>4
LEMMA ReadableHere ==
    ASSUME TypeOK, NEW q \in Nat, IdleAt(q)
    PROVE  Readable
<1> HIDE DEF At
<1>1. /\ memo.cnt \in Slots /\ memo.sec = At(q) /\ written \in Nat /\ cleared \in Nat
      /\ written = cleared + q * MEMO_SEC_RECS + memo.cnt /\ q * MEMO_SEC_RECS \in Nat
  BY Sizes DEF IdleAt, Slots, TypeOK, Counted
<1> SUFFICES ASSUME NEW k \in 1 .. MEMO_SEC_COUNT * MEMO_SEC_RECS
             PROVE  LET place == Place(memo.sec, memo.cnt, k)
                    IN  IF Found(memo.cnt, k, place)
                        THEN /\ GetMemo(place).n = written + 1 - k
                             /\ GetMemo(place).n > cleared
                        ELSE k > Least(written - cleared, Retained)
  BY DEF Readable
<1>2. k \in Nat \ {0} /\ k <= MEMO_SEC_COUNT * MEMO_SEC_RECS /\ MEMO_SEC_COUNT * MEMO_SEC_RECS \in Int
  BY Sizes
<1>3. PICK t \in Int, i \in Slots :
         /\ Place(At(q), memo.cnt, k) = <<At(t), i>>
         /\ t * MEMO_SEC_RECS + i = q * MEMO_SEC_RECS + memo.cnt - k
         /\ IF k <= memo.cnt THEN t = q /\ i < memo.cnt ELSE t < q
  BY <1>1, <1>2, PlaceIs
<1> DEFINE c == memo.cnt
           place == <<At(t), i>>
<1>4. place[1] = At(t) /\ place[2] = i
  OBVIOUS
<1>5. i \in 0 .. MEMO_SEC_RECS - 1 /\ c \in 0 .. MEMO_SEC_RECS - 1
  BY <1>1 DEF Slots
<1>6. SUFFICES IF Found(c, k, place)
               THEN GetMemo(place).n = written + 1 - k /\ GetMemo(place).n > cleared
               ELSE k > Least(written - cleared, Retained)
  BY <1>1, <1>3
<1> HIDE DEF place
<1>7. CASE t >= 0 /\ q - MEMO_SEC_COUNT < t
  <2>1. t * MEMO_SEC_RECS + i < q * MEMO_SEC_RECS + c
    BY <1>1, <1>2, <1>3, <1>5
  <2>2. Holds(t, i) /\ sec[At(t)].id /\ (t = q \/ sec[At(t)].closed)
    BY <1>7, <2>1, InPlace
  <2>3. Found(c, k, place)
    BY <1>3, <1>4, <2>2 DEF Found
  <2>4. GetMemo(place).n = cleared + t * MEMO_SEC_RECS + i + 1
    BY <1>4, <2>2 DEF GetMemo, Holds
  <2>5. t * MEMO_SEC_RECS \in Nat
    BY <1>7, Sizes
  <2>6. GetMemo(place).n = written + 1 - k
    BY <1>1, <1>2, <1>3, <1>5, <2>4, <2>5
  <2>7. GetMemo(place).n > cleared
    BY <1>1, <1>5, <2>4, <2>5
  <2> QED BY <2>3, <2>6, <2>7
<1>8. q - MEMO_SEC_COUNT <= t
  <2> SUFFICES ASSUME q - MEMO_SEC_COUNT - 1 >= t PROVE FALSE
    BY Sizes
  <2>1. /\ (q - MEMO_SEC_COUNT - 1) * MEMO_SEC_RECS >= t * MEMO_SEC_RECS
        /\ t * MEMO_SEC_RECS \in Int
    BY Sizes, Product
  <2>2. (q - MEMO_SEC_COUNT - 1) * MEMO_SEC_RECS
          = q * MEMO_SEC_RECS - MEMO_SEC_COUNT * MEMO_SEC_RECS - MEMO_SEC_RECS
    BY Sizes
  <2> QED BY <1>1, <1>2, <1>3, <1>5, <2>1, <2>2, Sizes
<1>9. CASE t >= 0 /\ t = q - MEMO_SEC_COUNT
  <2>1. t # q
    BY <1>9, Sizes
  <2>2. ~(k <= c)
    BY <1>3, <2>1
  <2>3. At(t) = At(q)
    BY <1>9, AtRound
  <2>4. ~Found(c, k, place)
    BY <1>4, <2>2, <2>3 DEF Found, IdleAt, OpenAt
  <2>5. t * MEMO_SEC_RECS = q * MEMO_SEC_RECS - MEMO_SEC_COUNT * MEMO_SEC_RECS
        /\ Retained = MEMO_SEC_COUNT * MEMO_SEC_RECS - MEMO_SEC_RECS
    BY <1>9, Sizes DEF Retained
  <2>6. k > Retained /\ Retained \in Int
    BY <1>1, <1>2, <1>3, <1>5, <2>5, Sizes
  <2>7. k > Least(written - cleared, Retained)
    BY <1>1, <1>2, <2>6 DEF Least
  <2> QED BY <2>4, <2>7
<1>10. CASE t < 0
  <2>1. ~(k <= c)
    BY <1>3, <1>10
  <2>2. ~Found(c, k, place)
    <3>1. CASE t = q - MEMO_SEC_COUNT
      <4>1. At(t) = At(q)
        BY <3>1, AtRound
      <4> QED BY <1>4, <2>1, <4>1 DEF Found, IdleAt, OpenAt
    <3>2. CASE t # q - MEMO_SEC_COUNT
      <4>1. t + MEMO_SEC_COUNT \in Sectors /\ t + MEMO_SEC_COUNT > q /\ q < MEMO_SEC_COUNT
        BY <1>8, <1>10, <3>2, Sizes DEF Sectors
      <4>2. t = (0 - 1) * MEMO_SEC_COUNT + (t + MEMO_SEC_COUNT)
        BY Sizes
      <4>3. At(t) = t + MEMO_SEC_COUNT
        BY <4>1, <4>2, AtIs
      <4>4. ~sec[At(t)].id
        BY <4>1, <4>3 DEF IdleAt, Ring
      <4> QED BY <1>4, <2>1, <4>4 DEF Found
    <3> QED BY <3>1, <3>2
  <2>3. (0 - 1) * MEMO_SEC_RECS >= t * MEMO_SEC_RECS /\ t * MEMO_SEC_RECS \in Int
    BY <1>10, Sizes, Product
  <2>4. k > written - cleared
    BY <1>1, <1>2, <1>3, <1>5, <2>3, Sizes
  <2>5. Retained \in Int
    BY Sizes DEF Retained
  <2>6. k > Least(written - cleared, Retained)
    BY <1>1, <1>2, <2>4, <2>5 DEF Least
  <2> QED BY <2>2, <2>6
<1> QED BY <1>7, <1>8, <1>9, <1>10, Sizes

LEMMA OneOpenHere ==
    ASSUME TypeOK, NEW q \in Nat, IdleAt(q)
    PROVE  OneOpen
<1> HIDE DEF At
<1>1. At(q) \in Stops /\ sec[At(q)].id /\ memo.sec = At(q) /\ At(q) \in Sectors
  BY AtSector DEF IdleAt, OpenAt, Stops
<1>2. ASSUME NEW t \in 0 .. q - 1, q - MEMO_SEC_COUNT < t PROVE At(t) \notin Stops
  BY <1>2 DEF IdleAt, Ring, FullAt, Stops
<1>3. ASSUME NEW s \in Sectors, s \in Stops, sec[s].id PROVE s = At(q)
  <2>1. CASE q >= MEMO_SEC_COUNT
    <3>1. q >= MEMO_SEC_COUNT - 1
      BY <2>1, Sizes
    <3>2. PICK t \in Nat : q - MEMO_SEC_COUNT < t /\ t <= q /\ At(t) = s
      BY <3>1, AtAll
    <3>3. ~(t \in 0 .. q - 1)
      BY <1>2, <1>3, <3>2
    <3> QED BY <3>2, <3>3
  <2>2. CASE q < MEMO_SEC_COUNT
    <3>1. ~(s > q)
      BY <1>3, <2>2 DEF IdleAt, Ring
    <3>2. At(s) = s
      BY AtFirst
    <3>3. ~(s < q)
      <4> SUFFICES ASSUME s < q PROVE FALSE
        OBVIOUS
      <4>1. s \in 0 .. q - 1 /\ q - MEMO_SEC_COUNT < s
        BY <2>2, Sizes DEF Sectors
      <4> QED BY <1>2, <1>3, <3>2, <4>1
    <3>4. s = q
      BY <3>1, <3>3 DEF Sectors
    <3> QED BY <3>2, <3>4
  <2> QED BY <2>1, <2>2, Sizes
<1> QED BY <1>1, <1>3 DEF OneOpen
-----------------------------------------------------------------------------
(***************************************************************************)
(* The ring implements LogStore.                                           *)
(***************************************************************************)

(* A sector with an id is that of the last number, or one of those before  *)
(* it as far back as the ring goes.                                        *)
LEMMA RingNumber ==
    ASSUME NEW q \in Nat, Ring(q), NEW s \in Sectors, s # At(q), sec[s].id
    PROVE  \E t \in 0 .. q - 1 : q - MEMO_SEC_COUNT < t /\ At(t) = s
<1> HIDE DEF At
<1>1. CASE q >= MEMO_SEC_COUNT
  <2>1. q >= MEMO_SEC_COUNT - 1
    BY <1>1, Sizes
  <2>2. PICK t \in Nat : q - MEMO_SEC_COUNT < t /\ t <= q /\ At(t) = s
    BY <2>1, AtAll
  <2> QED BY <2>2
<1>2. CASE q < MEMO_SEC_COUNT
  <2>1. ~(s > q) /\ At(s) = s /\ s # q
    BY <1>2, AtFirst DEF Ring
  <2>2. s \in 0 .. q - 1 /\ q - MEMO_SEC_COUNT < s
    BY <1>2, <2>1, Sizes DEF Sectors
  <2> QED BY <2>1, <2>2
<1> QED BY <1>1, <1>2, Sizes

(* So what the other sectors hold is not older than what stays.            *)
LEMMA OthersKept ==
    ASSUME NEW q \in Nat, Ring(q), NEW s \in Sectors, s # At(q), sec[s].id,
           NEW i \in Slots, cleared \in Nat
    PROVE  sec[s].recs[i].n > cleared + q * MEMO_SEC_RECS - Retained
<1> HIDE DEF At
<1>1. PICK t \in 0 .. q - 1 : q - MEMO_SEC_COUNT < t /\ At(t) = s
  BY RingNumber
<1>2. sec[s].recs[i].n = cleared + t * MEMO_SEC_RECS + i + 1
  BY <1>1 DEF Ring, FullAt, Holds
<1>3. t >= q - MEMO_SEC_COUNT + 1 /\ t \in Int
  BY <1>1, Sizes
<1>4. /\ t * MEMO_SEC_RECS >= (q - MEMO_SEC_COUNT + 1) * MEMO_SEC_RECS
      /\ t * MEMO_SEC_RECS \in Int
  BY <1>3, Sizes, Product
<1>5. /\ (q - MEMO_SEC_COUNT + 1) * MEMO_SEC_RECS = q * MEMO_SEC_RECS - Retained
      /\ q * MEMO_SEC_RECS \in Int /\ Retained \in Int
  BY Sizes DEF Retained
<1> QED BY <1>2, <1>4, <1>5 DEF Slots

LEMMA Counters ==
    ASSUME TypeInv
    PROVE  /\ sec \in [Sectors -> Sector] /\ at \in Sectors /\ memo.sec \in Sectors
           /\ memo.cnt \in 0 .. MEMO_SEC_RECS
           /\ written \in Nat /\ cleared \in Nat /\ cleared <= written
BY TypeParts DEF TypeInv, LogTypes

LEMMA LogAppends ==
    ASSUME TypeInv, LogInv, WriteMemo
    PROVE  Log!Append
<1> HIDE DEF At
<1>t. /\ sec \in [Sectors -> Sector] /\ memo.cnt \in 0 .. MEMO_SEC_RECS
      /\ written \in Nat /\ cleared \in Nat /\ cleared <= written
  BY Counters
<1>1. PICK q \in Nat : IdleAt(q)
  BY DEF WriteMemo, Idle, LogInv, Clearing, LogAt, ClosingAt, ErasingAt, HeadAt, OffAt
<1> PICK c \in 0 .. MEMO_SEC_RECS : c = memo.cnt
  BY <1>t
<1>2. /\ memo.sec = At(q) /\ At(q) \in Sectors /\ c \in Slots /\ Ring(q) /\ OpenAt(q, c)
      /\ written = cleared + q * MEMO_SEC_RECS + c /\ q * MEMO_SEC_RECS \in Int
  BY <1>1, <1>t, AtSector, Sizes DEF IdleAt, Counted, Slots
<1> DEFINE r == [n |-> written', time |-> clkt']
<1>3. /\ written' = written + 1 /\ cleared' = cleared
      /\ sec' = [sec EXCEPT ![At(q)].recs[c] = r]
  BY <1>2 DEF WriteMemo
<1>4. r.n = written + 1
  BY <1>3
<1> HIDE DEF r
<1>5. \A s \in Sectors, i \in Slots :
         /\ sec'[s].id = sec[s].id
         /\ sec'[s].recs[i] = IF s = At(q) /\ i = c THEN r ELSE sec[s].recs[i]
  BY <1>2, <1>3, <1>t DEF Sector
<1>6. sec[At(q)].recs[c].n = 0 /\ sec[At(q)].id
  BY <1>2 DEF OpenAt, Erased, Slots
<1>7. ASSUME NEW n \in InLog PROVE n > written + 1 - MEMO_SEC_COUNT * MEMO_SEC_RECS
  <2>1. PICK s \in Sectors, i \in Slots : sec[s].id /\ sec[s].recs[i].n = n /\ n >= 1 /\ n \in Int
    BY <1>t DEF InLog
  <2>2. /\ Retained = MEMO_SEC_COUNT * MEMO_SEC_RECS - MEMO_SEC_RECS
        /\ MEMO_SEC_COUNT * MEMO_SEC_RECS \in Int /\ Retained >= 0 /\ Retained \in Int
    <3>1. (MEMO_SEC_COUNT - 1) * MEMO_SEC_RECS >= MEMO_SEC_RECS
      BY Sizes, AtLeast
    <3> QED BY <3>1, Sizes DEF Retained
  <2>3. n > cleared + q * MEMO_SEC_RECS - Retained
    <3>1. CASE s # At(q)
      BY <1>2, <1>t, <2>1, <3>1, OthersKept
    <3>2. CASE s = At(q)
      <4>1. i < c
        BY <1>2, <2>1, <3>2 DEF OpenAt, Erased
      <4>2. n = cleared + q * MEMO_SEC_RECS + i + 1
        BY <1>2, <2>1, <3>2, <4>1 DEF OpenAt, Holds
      <4> QED BY <1>2, <1>t, <2>2, <4>2 DEF Slots
    <3> QED BY <3>1, <3>2
  <2>4. written + 1 <= cleared + q * MEMO_SEC_RECS + MEMO_SEC_RECS
    BY <1>2, <1>t, Sizes DEF Slots
  <2> QED BY <1>2, <1>t, <2>1, <2>2, <2>3, <2>4, Sizes
<1>8. InLog' = InLog \union {written + 1}
  <2>1. \A n \in Int : n \in cleared + 1 .. written + 1 <=> n \in cleared + 1 .. written \/ n = written + 1
    BY <1>t
  <2>2. \A n \in Int : n \in cleared + 1 .. written => n # 0 /\ n # written + 1
    BY <1>t
  <2>3. ASSUME NEW n \in InLog' PROVE n \in InLog \union {written + 1}
    <3>1. PICK s \in Sectors, i \in Slots : sec'[s].id /\ sec'[s].recs[i].n = n
      BY <2>3 DEF InLog
    <3>2. n \in Int /\ n \in cleared + 1 .. written + 1
      BY <1>3, <2>3 DEF InLog
    <3>3. n = written + 1 \/ (sec[s].id /\ sec[s].recs[i].n = n)
      BY <1>4, <1>5, <3>1
    <3> QED BY <2>1, <3>2, <3>3 DEF InLog
  <2>4. ASSUME NEW n \in InLog PROVE n \in InLog'
    <3>1. PICK s \in Sectors, i \in Slots : sec[s].id /\ sec[s].recs[i].n = n
      BY <2>4 DEF InLog
    <3>2. n \in Int /\ n \in cleared + 1 .. written
      BY <2>4 DEF InLog
    <3>3. ~(s = At(q) /\ i = c)
      BY <1>6, <2>2, <3>1, <3>2
    <3>4. sec'[s].id /\ sec'[s].recs[i].n = n
      BY <1>5, <3>1, <3>3
    <3> QED BY <1>3, <2>1, <3>2, <3>4 DEF InLog
  <2>5. written + 1 \in InLog'
    <3>1. sec'[At(q)].id /\ sec'[At(q)].recs[c].n = written + 1
      BY <1>2, <1>4, <1>5, <1>6
    <3>2. written + 1 \in cleared' + 1 .. written'
      BY <1>3, <1>t
    <3> QED BY <1>2, <3>1, <3>2 DEF InLog
  <2> QED BY <2>3, <2>4, <2>5
<1> QED BY <1>3, <1>7, <1>8 DEF Log!Append

LEMMA LogForgets ==
    ASSUME TypeInv, LogInv, Erase
    PROVE  Log!Forget
<1> HIDE DEF At
<1>t. /\ sec \in [Sectors -> Sector]
      /\ written \in Nat /\ cleared \in Nat /\ cleared <= written
  BY Counters
<1>1. PICK q \in Nat : ErasingAt(q)
  BY DEF Erase, LogInv, Clearing, LogAt, IdleAt, ClosingAt, HeadAt, OffAt
<1>2. /\ at = At(q) /\ At(q) \in Sectors /\ Ring(q)
      /\ written = cleared + q * MEMO_SEC_RECS /\ q * MEMO_SEC_RECS \in Int
  BY <1>1, <1>t, AtSector, Sizes DEF ErasingAt, Counted
<1>3. /\ written' = written /\ cleared' = cleared
      /\ sec' = [sec EXCEPT ![At(q)] = Blank]
  BY <1>2 DEF Erase
<1>4. ~sec'[At(q)].id /\ \A s \in Sectors : s # At(q) => sec'[s] = sec[s]
  BY <1>2, <1>3, <1>t DEF Blank
<1>5. ASSUME NEW n \in InLog' PROVE n \in InLog /\ n > written - Retained
  <2>1. PICK s \in Sectors, i \in Slots : sec'[s].id /\ sec'[s].recs[i].n = n
    BY <1>5 DEF InLog
  <2>2. s # At(q) /\ sec[s].id /\ sec[s].recs[i].n = n
    BY <1>4, <2>1
  <2>3. n > cleared + q * MEMO_SEC_RECS - Retained
    BY <1>2, <1>t, <2>2, OthersKept
  <2>4. n \in InLog
    BY <1>3, <1>5, <2>2 DEF InLog
  <2>5. n > written - Retained
    <3>1. Retained \in Int
      BY Sizes DEF Retained
    <3> QED BY <1>2, <1>t, <2>3, <3>1
  <2> QED BY <2>4, <2>5
<1>6. ASSUME NEW n \in InLog, n > written - Retained PROVE n \in InLog'
  <2>1. PICK m \in Nat : m = n - cleared - 1 /\ m < q * MEMO_SEC_RECS /\ m >= q * MEMO_SEC_RECS - Retained
    <3>1. n \in cleared + 1 .. written
      BY <1>6 DEF InLog
    <3>2. Retained \in Int
      BY Sizes DEF Retained
    <3> QED BY <1>2, <1>6, <1>t, <3>1, <3>2
  <2>2. PICK t \in Int, i \in 0 .. MEMO_SEC_RECS - 1 :
           t = m \div MEMO_SEC_RECS /\ i = m % MEMO_SEC_RECS /\ m = t * MEMO_SEC_RECS + i
    <3>1. m \in Int
      OBVIOUS
    <3> QED BY <3>1, Sizes, DivMod
  <2>3. t * MEMO_SEC_RECS \in Int /\ i \in Int
    BY <2>2, Sizes
  <2>4. t >= 0
    <3> SUFFICES ASSUME 0 - 1 >= t PROVE FALSE
      OBVIOUS
    <3>1. (0 - 1) * MEMO_SEC_RECS >= t * MEMO_SEC_RECS
      BY Sizes, Product
    <3> QED BY <2>2, <2>3, <3>1, Sizes
  <2>5. t < q
    <3> SUFFICES ASSUME t >= q PROVE FALSE
      OBVIOUS
    <3>1. t * MEMO_SEC_RECS >= q * MEMO_SEC_RECS
      BY Sizes, Product
    <3> QED BY <1>2, <2>1, <2>2, <2>3, <3>1
  <2>6. q - MEMO_SEC_COUNT < t
    <3> SUFFICES ASSUME q - MEMO_SEC_COUNT >= t PROVE FALSE
      BY Sizes
    <3>1. (q - MEMO_SEC_COUNT) * MEMO_SEC_RECS >= t * MEMO_SEC_RECS
      BY Sizes, Product
    <3>2. /\ (q - MEMO_SEC_COUNT) * MEMO_SEC_RECS = q * MEMO_SEC_RECS - Retained - MEMO_SEC_RECS
          /\ Retained \in Int
      BY Sizes DEF Retained
    <3> QED BY <1>2, <2>1, <2>2, <2>3, <3>1, <3>2, Sizes
  <2>7. FullAt(t) /\ At(t) \in Sectors /\ At(t) # At(q)
    <3>1. t \in 0 .. q - 1 /\ t < q /\ q < t + MEMO_SEC_COUNT /\ q \in Int
      BY <2>4, <2>5, <2>6, Sizes
    <3> QED BY <1>2, <2>6, <3>1, AtSector, AtDiffer DEF Ring
  <2>8. i \in Slots /\ sec[At(t)].id /\ sec[At(t)].recs[i].n = n
    <3>1. i \in Slots
      BY <2>2 DEF Slots
    <3>2. sec[At(t)].recs[i].n = cleared + t * MEMO_SEC_RECS + i + 1
      BY <2>7, <3>1 DEF FullAt, Holds
    <3>3. cleared + t * MEMO_SEC_RECS + i + 1 = n
      <4>1. n \in Int
        BY <1>6 DEF InLog
      <4> QED BY <1>t, <2>1, <2>2, <2>3, <4>1
    <3> QED BY <2>7, <3>1, <3>2, <3>3 DEF FullAt
  <2>9. sec'[At(t)].id /\ sec'[At(t)].recs[i].n = n
    BY <1>4, <2>7, <2>8
  <2>10. n \in cleared' + 1 .. written'
    BY <1>3, <1>6 DEF InLog
  <2> QED BY <2>7, <2>8, <2>9, <2>10 DEF InLog
<1>7. InLog' = {n \in InLog : n > written - Retained}
  BY <1>5, <1>6
<1> QED BY <1>3, <1>7 DEF Log!Forget

(* Every step is a step of LogStore, or leaves the log as it is.           *)
LEMMA LogStoreStep ==
    ASSUME TypeInv, LogInv, [Next]_vars
    PROVE  [Log!LogNext]_(Log!logVars)
<1> HIDE DEF At
<1>t. /\ sec \in [Sectors -> Sector] /\ at \in Sectors
      /\ written \in Nat /\ cleared \in Nat /\ cleared <= written
  BY Counters
<1>k. ASSUME written' = written, cleared' = cleared,
             \A s \in Sectors, i \in Slots :
                sec'[s].id = sec[s].id /\ sec'[s].recs[i].n = sec[s].recs[i].n
      PROVE  [Log!LogNext]_(Log!logVars)
  <2>1. InLog' = InLog
    BY <1>k DEF InLog
  <2> QED BY <1>k, <2>1 DEF Log!logVars
<1>s. UNCHANGED <<sec, written, cleared>> => [Log!LogNext]_(Log!logVars)
  BY <1>k
<1>1. CASE WriteMemo
  BY <1>1, LogAppends DEF Log!LogNext
<1>2. CASE Close
  <2>1. /\ written' = written /\ cleared' = cleared
        /\ sec' = [sec EXCEPT ![at].closed = TRUE]
    BY <1>2 DEF Close
  <2>2. \A s \in Sectors, i \in Slots :
           sec'[s].id = sec[s].id /\ sec'[s].recs[i].n = sec[s].recs[i].n
    BY <2>1, <1>t DEF Sector
  <2> QED BY <1>k, <2>1, <2>2
<1>3. CASE Erase
  BY <1>3, LogForgets DEF Log!LogNext
<1>4. CASE WriteHead
  <2>1. sec[at] = Blank
    BY <1>4 DEF WriteHead, LogInv, Clearing, LogAt, IdleAt, ClosingAt, ErasingAt, HeadAt, OffAt
  <2>2. written' = written /\ cleared' = cleared /\ sec' = [sec EXCEPT ![at].id = TRUE]
    BY <1>4 DEF WriteHead
  <2>3. \A s \in Sectors : sec'[s].recs = sec[s].recs /\ (s # at => sec'[s].id = sec[s].id)
    BY <2>2, <1>t DEF Sector
  <2>4. \A i \in Slots : sec[at].recs[i].n = 0
    BY <2>1 DEF Blank, Erased
  <2>5. \A n \in cleared + 1 .. written : n # 0
    BY <1>t
  <2>6. InLog' = InLog
    <3>1. ASSUME NEW n \in cleared + 1 .. written, NEW s \in Sectors, NEW i \in Slots
          PROVE  sec'[s].id /\ sec'[s].recs[i].n = n <=> sec[s].id /\ sec[s].recs[i].n = n
      BY <2>3, <2>4, <2>5
    <3> QED BY <2>2, <3>1 DEF InLog
  <2> QED BY <2>2, <2>6 DEF Log!logVars
<1>5. CASE ClearMemo
  <2>1. written' = written /\ cleared' = written
    BY <1>5 DEF ClearMemo
  <2>2. cleared' + 1 .. written' = {}
    BY <1>t, <2>1
  <2>3. InLog' = {}
    BY <2>2 DEF InLog
  <2> QED BY <2>1, <2>3 DEF Log!LogNext, Log!Clear
<1>6. CASE ClearSector
  <2>1. cleared = written
    BY <1>6 DEF ClearSector, LogInv, Clearing, LogAt, IdleAt, ClosingAt, ErasingAt, HeadAt, OffAt
  <2>2. written' = written /\ cleared' = cleared
    BY <1>6 DEF ClearSector
  <2>3. cleared + 1 .. written = {}
    BY <1>t, <2>1
  <2>4. InLog = {} /\ InLog' = {}
    BY <2>2, <2>3 DEF InLog
  <2> QED BY <2>2, <2>4 DEF Log!logVars
<1>7. CASE MemoInit
  BY <1>7, <1>s DEF MemoInit
<1>8. CASE Crash
  BY <1>8, <1>s DEF Crash
<1>9. CASE SetTime
  BY <1>9, <1>s DEF SetTime
<1>10. ASSUME NEW c \in Counts, NEW s \in Starts, Request(c, s)
       PROVE  [Log!LogNext]_(Log!logVars)
  BY <1>10, <1>s DEF Request
<1>11. CASE RequestNone \/ Notify \/ NotifyBusy \/ Link
  BY <1>11, <1>s DEF RequestNone, Notify, NotifyNothing, NotifyRecord, NotifyEnd, NotifyGone,
                     NotifyBusy, Link, flashVars
<1>12. CASE UNCHANGED vars
  BY <1>12, <1>s DEF vars
<1> QED
  BY <1>1, <1>2, <1>3, <1>4, <1>5, <1>6, <1>7, <1>8, <1>9, <1>10, <1>11, <1>12
     DEF Next, FlashOp

-----------------------------------------------------------------------------
(***************************************************************************)
(* Reading.                                                                *)
(***************************************************************************)
LEMMA SentToStep == TypeInv /\ SentTo /\ [Next]_vars => SentTo' /\ [last' # last =>
          \/ last' = last + 1 \/ crashes' # crashes
          \/ \E c \in Counts, s \in Starts : Request(c, s)]_vars
<1> SUFFICES ASSUME TypeOK, SentTo, [Next]_vars
             PROVE  SentTo' /\ [last' # last =>
                        \/ last' = last + 1 \/ crashes' # crashes
                        \/ \E c \in Counts, s \in Starts : Request(c, s)]_vars
  BY DEF TypeInv
<1>t. rd \in RdType /\ crashes \in Nat
  BY TypeParts DEF ReadTypes, LogTypes
<1>k. UNCHANGED readVars => SentTo' /\ last' = last
  BY DEF readVars, SentTo
<1>1. CASE WriteMemo \/ FlashOp \/ ClearMemo \/ MemoInit \/ SetTime
  BY <1>1, <1>k DEF WriteMemo, FlashOp, Close, Erase, WriteHead, ClearSector, ClearMemo,
                    MemoInit, SetTime
<1>2. CASE Crash
  BY <1>2, <1>t DEF Crash, SentTo, NoRead
<1>3. ASSUME NEW c \in Counts, NEW s \in Starts, Request(c, s)
      PROVE  SentTo' /\ Request(c, s)
  BY <1>3 DEF Request, SentTo
<1>4. CASE RequestNone
  BY <1>4, <1>t DEF RequestNone, SentTo, RdType
<1>5. CASE NotifyNothing \/ NotifyEnd \/ NotifyGone
  BY <1>5 DEF NotifyNothing, NotifyEnd, NotifyGone, SentTo
<1>6. CASE NotifyRecord
  BY <1>6, <1>t DEF NotifyRecord, SentTo, RdType
<1>7. CASE NotifyBusy
  BY <1>7, <1>t DEF NotifyBusy, SentTo, RdType
<1>8. CASE Link
  BY <1>8 DEF Link, SentTo
<1>9. CASE UNCHANGED vars
  BY <1>9, <1>k DEF vars, readVars
<1> QED
  BY <1>1, <1>2, <1>3, <1>4, <1>5, <1>6, <1>7, <1>8, <1>9 DEF Next, Notify

LEMMA ReadStep ==
    ASSUME TypeInv, TypeInv', LogInv, ReadInv, [Next]_vars
    PROVE  ReadInv'
<1> HIDE DEF At
<1>t. /\ rd \in RdType /\ written \in Nat /\ cleared \in Nat /\ cleared <= written
      /\ rd.asked \in Nat
  <2>1. rd \in RdType /\ written \in Nat /\ cleared \in Nat /\ cleared <= written
    BY TypeParts DEF TypeInv, ReadTypes, LogTypes
  <2> QED BY <2>1 DEF RdType
<1>k. ASSUME rd'.sec = rd.sec, rd'.saved = rd.saved, rd'.asked = rd.asked,
             cleared' = cleared, written' \in Nat, written' >= written
      PROVE  ReadInv'
  BY <1>k, <1>t DEF ReadInv, AskedAt
<1>r. UNCHANGED readVars /\ cleared' = cleared /\ written' \in {written, written + 1} => ReadInv'
  BY <1>k, <1>t DEF readVars
<1>1. CASE WriteMemo \/ FlashOp \/ MemoInit \/ SetTime
  BY <1>1, <1>r DEF WriteMemo, FlashOp, Close, Erase, WriteHead, ClearSector, MemoInit, SetTime
<1>2. CASE ClearMemo
  BY <1>2, <1>t DEF ClearMemo, readVars, ReadInv
<1>3. CASE Crash
  BY <1>3, <1>t DEF Crash, NoRead, ReadInv
<1>4. ASSUME NEW c \in Counts, NEW s \in Starts, Request(c, s) PROVE ReadInv'
  <2>1. PICK q \in Nat : IdleAt(q)
    BY <1>4 DEF Request, Idle, LogInv, Clearing, LogAt, ClosingAt, ErasingAt, HeadAt, OffAt
  <2>2. /\ rd'.sec = memo.sec /\ rd'.saved = memo.cnt /\ rd'.asked = written
        /\ cleared' = cleared /\ written' = written
    BY <1>4 DEF Request
  <2>3. AskedAt(q)'
    BY <2>1, <2>2 DEF AskedAt, IdleAt, Counted
  <2> QED BY <1>t, <2>2, <2>3 DEF ReadInv
<1>5. CASE RequestNone \/ NotifyBusy \/ NotifyRecord \/ NotifyEnd \/ NotifyGone
  <2>1. rd'.sec = rd.sec /\ rd'.saved = rd.saved /\ rd'.asked = rd.asked
    BY <1>5, <1>t DEF RequestNone, NotifyBusy, NotifyRecord, NotifyEnd, NotifyGone, RdType
  <2>2. cleared' = cleared /\ written' = written
    BY <1>5 DEF RequestNone, NotifyBusy, NotifyRecord, NotifyEnd, NotifyGone, flashVars
  <2> QED BY <1>k, <1>t, <2>1, <2>2
<1>6. CASE NotifyNothing \/ Link
  BY <1>6, <1>k, <1>t DEF NotifyNothing, Link, flashVars
<1>7. CASE UNCHANGED vars
  BY <1>7, <1>k, <1>t DEF vars
<1> QED BY <1>1, <1>2, <1>3, <1>4, <1>5, <1>6, <1>7 DEF Next, Notify

(* The record that a transfer has come to, when the log keeps it, is there *)
(* and in its place.                                                       *)
LEMMA AskedInPlace ==
    ASSUME TypeInv, LogInv, ReadInv, Idle, Kept(rd.asked - rd.cur)
    PROVE  /\ GetMemo(NextPlace).n = rd.asked - rd.cur
           /\ Found(rd.saved, rd.cur + 1, NextPlace)
<1> HIDE DEF At
<1>t. /\ rd \in RdType /\ written \in Nat /\ cleared \in Nat /\ cleared <= written
      /\ rd.asked \in Nat /\ rd.cur \in Nat /\ rd.saved \in Nat
  <2>1. rd \in RdType /\ written \in Nat /\ cleared \in Nat /\ cleared <= written
    BY TypeParts DEF TypeInv, ReadTypes, LogTypes
  <2> QED BY <2>1 DEF RdType
<1>1. PICK k \in Nat \ {0} : k = rd.cur + 1
  BY <1>t
<1>2. PICK q \in Nat : IdleAt(q)
  BY DEF Idle, LogInv, Clearing, LogAt, ClosingAt, ErasingAt, HeadAt, OffAt
<1>3. cleared < rd.asked /\ rd.asked <= written
  BY <1>1, <1>t DEF ReadInv, Kept
<1>4. PICK p \in Nat : AskedAt(p)
  BY <1>3 DEF ReadInv
<1>5. rd.saved \in Slots /\ rd.sec = At(p) /\ rd.asked = cleared + p * MEMO_SEC_RECS + rd.saved
  BY <1>4, <1>t, Sizes DEF AskedAt, Slots
<1>6. PICK t \in Int, i \in Slots :
         /\ Place(At(p), rd.saved, k) = <<At(t), i>>
         /\ t * MEMO_SEC_RECS + i = p * MEMO_SEC_RECS + rd.saved - k
         /\ IF k <= rd.saved THEN t = p /\ i < rd.saved ELSE t < p
  BY <1>5, PlaceIs
<1>7. /\ written = cleared + q * MEMO_SEC_RECS + memo.cnt
      /\ memo.cnt \in Nat /\ memo.cnt < MEMO_SEC_RECS /\ i \in 0 .. MEMO_SEC_RECS - 1
      /\ p * MEMO_SEC_RECS \in Int /\ q * MEMO_SEC_RECS \in Int /\ t * MEMO_SEC_RECS \in Int
  <2>1. p * MEMO_SEC_RECS \in Int /\ q * MEMO_SEC_RECS \in Int /\ t * MEMO_SEC_RECS \in Int
    BY Sizes
  <2> QED BY <1>2, <2>1, Sizes DEF IdleAt, Counted, Slots, TypeInv, TypeOK
<1>8. cleared + t * MEMO_SEC_RECS + i = rd.asked - k
  BY <1>5, <1>6, <1>7, <1>t
<1>a. cleared <= rd.asked - k /\ written - (rd.asked - k) <= Retained
  <2>1. Retained \in Int
    BY Sizes DEF Retained
  <2> QED BY <1>1, <1>t, <2>1 DEF Kept
<1>9. t >= 0
  <2> SUFFICES ASSUME 0 - 1 >= t PROVE FALSE
    OBVIOUS
  <2>1. (0 - 1) * MEMO_SEC_RECS >= t * MEMO_SEC_RECS
    BY Sizes, Product
  <2> QED BY <1>7, <1>8, <1>a, <1>t, <2>1, Sizes
<1>10. t * MEMO_SEC_RECS + i < q * MEMO_SEC_RECS + memo.cnt
  BY <1>1, <1>3, <1>7, <1>8, <1>t
<1>11. q - MEMO_SEC_COUNT < t
  <2> SUFFICES ASSUME q - MEMO_SEC_COUNT >= t PROVE FALSE
    BY Sizes
  <2>1. (q - MEMO_SEC_COUNT) * MEMO_SEC_RECS >= t * MEMO_SEC_RECS
    BY Sizes, Product
  <2>2. /\ (q - MEMO_SEC_COUNT) * MEMO_SEC_RECS
              = q * MEMO_SEC_RECS - MEMO_SEC_COUNT * MEMO_SEC_RECS
        /\ Retained = MEMO_SEC_COUNT * MEMO_SEC_RECS - MEMO_SEC_RECS
        /\ MEMO_SEC_COUNT * MEMO_SEC_RECS \in Int
    BY Sizes DEF Retained
  <2> QED BY <1>7, <1>8, <1>a, <1>t, <2>1, <2>2, Sizes
<1>12. Holds(t, i) /\ sec[At(t)].id /\ (t = q \/ sec[At(t)].closed)
  BY <1>2, <1>9, <1>10, <1>11, InPlace DEF TypeInv
<1>13. NextPlace[1] = At(t) /\ NextPlace[2] = i
  BY <1>1, <1>5, <1>6 DEF NextPlace
<1>14. GetMemo(NextPlace).n = rd.asked - rd.cur
  <2>1. GetMemo(NextPlace).n = cleared + t * MEMO_SEC_RECS + i + 1
    BY <1>12, <1>13 DEF GetMemo, Holds
  <2>2. PICK x \in Int : x = t * MEMO_SEC_RECS
    BY <1>7
  <2>3. i \in Int /\ cleared + x + i = rd.asked - k
    BY <1>7, <1>8, <2>2
  <2>4. cleared + x + i + 1 = rd.asked - rd.cur
    BY <1>1, <1>t, <2>3
  <2> QED BY <2>1, <2>2, <2>4
<1>15. k <= rd.saved \/ t # q
  <2>1. p <= q
    <3> SUFFICES ASSUME p >= q + 1 PROVE FALSE
      OBVIOUS
    <3>1. p * MEMO_SEC_RECS >= (q + 1) * MEMO_SEC_RECS
      BY Sizes, Product
    <3>2. (q + 1) * MEMO_SEC_RECS = q * MEMO_SEC_RECS + MEMO_SEC_RECS
      BY Sizes
    <3> QED BY <1>3, <1>5, <1>7, <1>t, <3>1, <3>2, Sizes
  <2> QED BY <1>6, <2>1
<1>16. Found(rd.saved, rd.cur + 1, NextPlace)
  BY <1>1, <1>12, <1>13, <1>15 DEF Found
<1> QED BY <1>14, <1>16

(* What a message carries, and when there is none.                         *)
LEMMA SentIs ==
    ASSUME TypeInv, LogInv, ReadInv, NotifyRecord, Kept(rd.asked - rd.cur)
    PROVE  GetMemo(NextPlace).n = rd.asked - rd.cur
BY AskedInPlace DEF NotifyRecord

LEMMA EndIs ==
    ASSUME TypeInv, LogInv, ReadInv, NotifyEnd, Kept(rd.asked - rd.cur)
    PROVE  rd.cur >= rd.cnt
<1>1. Found(rd.saved, rd.cur + 1, NextPlace)
  BY AskedInPlace DEF NotifyEnd
<1>2. ~(rd.cur + 1 <= rd.cnt)
  BY <1>1 DEF NotifyEnd, HasRecord
<1>3. rd.cur \in Nat /\ rd.cnt \in Nat
  <2>1. rd \in RdType
    BY TypeParts DEF TypeInv, ReadTypes
  <2>2. rd.cur \in Nat /\ rd.cnt \in Counts \union {0}
    BY <2>1 DEF RdType
  <2>3. \A c \in Counts : c \in Nat
    BY LoggerAssumption
  <2> QED BY <2>2, <2>3
<1> QED BY <1>2, <1>3

-----------------------------------------------------------------------------
(***************************************************************************)
(* The theorems.                                                           *)
(***************************************************************************)
LEMMA TypeInvariance == Spec => []TypeInv
BY TypeAtInit, TypeStep, PTL DEF Spec

LEMMA LogInvariance ==
    ASSUME ~Interruptible
    PROVE  Spec => [](LogInv /\ ReadInv)
<1>1. Init => LogInv /\ ReadInv
  BY LogAtInit DEF Init, ReadInv, NoRead
<1>2. TypeInv /\ TypeInv' /\ LogInv /\ ReadInv /\ [Next]_vars => LogInv' /\ ReadInv'
  BY LogStep, ReadStep
<1> QED BY <1>1, <1>2, TypeInvariance, PTL DEF Spec

(* All values stay in their ranges, above all memo.cnt, the position in    *)
(* the open sector, and the clock that a start-up restores.                *)
THEOREM TypeCorrect == Spec => []TypeOK
<1>1. TypeInv => TypeOK
  BY DEF TypeInv
<1> QED BY <1>1, TypeInvariance, PTL

(* memo_init and restore_time never set a running clock, and never ahead   *)
(* of the records.                                                         *)
THEOREM RestoreIsSound == Spec => RestoreSound
<1>1. TypeInv /\ [Next]_vars => [pc = "off" /\ clkt' # clkt => clkt = 0 /\ clkt' <= written]_vars
  <2> SUFFICES ASSUME TypeOK, Bounded, Next, pc = "off", clkt' # clkt
               PROVE  clkt = 0 /\ clkt' <= written
    BY DEF TypeInv
  <2>1. MemoInit
    BY DEF Next, WriteMemo, FlashOp, Close, Erase, WriteHead, ClearSector, ClearMemo, Crash,
           SetTime, Request, RequestNone, Notify, NotifyNothing, NotifyRecord, NotifyEnd,
           NotifyGone, NotifyBusy, Link, Idle
  <2>2. Stops # {} /\ clkt' = RestoreTime(First(Stops))
    BY <2>1 DEF MemoInit
  <2>3. First(Stops) \in Sectors
    BY <2>2, FirstStop DEF Stops
  <2>4. RestoreTime(First(Stops)) \in 0 .. written /\ (clkt # 0 => RestoreTime(First(Stops)) = clkt)
    BY <2>3, RestoreBounded
  <2>5. written \in Int
    BY DEF TypeOK
  <2> QED BY <2>2, <2>4, <2>5
<1> QED BY <1>1, TypeInvariance, PTL DEF Spec, RestoreSound

(* wrk_notify sends the records one after the other, whatever waits for    *)
(* buffers: cur is set back exactly when a message was not taken.          *)
THEOREM NoGapEver == Spec => NoGap
<1>1. Init => SentTo
  BY DEF Init, SentTo, NoRead
<1>2. TypeInv /\ SentTo /\ [Next]_vars => SentTo'
  BY SentToStep
<1>3. TypeInv /\ SentTo /\ [Next]_vars => [last' # last =>
          \/ last' = last + 1 \/ crashes' # crashes
          \/ \E c \in Counts, s \in Starts : Request(c, s)]_vars
  BY SentToStep
<1> QED BY <1>1, <1>2, <1>3, TypeInvariance, PTL DEF Spec, NoGap

(* When power does not fail between a sector's becoming full and the       *)
(* erasing of the next: get_memo finds every record since the last clear,  *)
(* as many as all sectors but one hold, in order, and none from before.    *)
THEOREM RecordsReadable == ~Interruptible => (Spec => []Readable)
<1> SUFFICES ASSUME ~Interruptible PROVE Spec => []Readable
  OBVIOUS
<1>1. TypeInv /\ LogInv => Readable
  <2> SUFFICES ASSUME TypeOK, LogInv, Idle PROVE Readable
    BY DEF TypeInv, Readable
  <2>1. \E q \in Nat : IdleAt(q)
    BY DEF Idle, LogInv, Clearing, LogAt, ClosingAt, ErasingAt, HeadAt, OffAt
  <2> QED BY <2>1, ReadableHere
<1> QED BY <1>1, TypeInvariance, LogInvariance, PTL

(* Exactly the sector that is written is open: the walk of get_memo ends,  *)
(* and memo_init finds the place again.                                    *)
THEOREM OneSectorOpen == ~Interruptible => (Spec => []OneOpen)
<1> SUFFICES ASSUME ~Interruptible PROVE Spec => []OneOpen
  OBVIOUS
<1>1. TypeInv /\ LogInv => OneOpen
  <2> SUFFICES ASSUME TypeOK, LogInv, Idle PROVE OneOpen
    BY DEF TypeInv, OneOpen
  <2>1. \E q \in Nat : IdleAt(q)
    BY DEF Idle, LogInv, Clearing, LogAt, ClosingAt, ErasingAt, HeadAt, OffAt
  <2> QED BY <2>1, OneOpenHere
<1> QED BY <1>1, TypeInvariance, LogInvariance, PTL

(* A transfer sends the records that a reader at the time of its request   *)
(* would have found, all that were asked for, while new ones are written,  *)
(* until the ring has come round to them or the log is cleared.            *)
THEOREM TransferReadsSnapshot == ~Interruptible => (Spec => SnapshotRead)
<1> SUFFICES ASSUME ~Interruptible PROVE Spec => SnapshotRead
  OBVIOUS
<1>1. TypeInv /\ LogInv /\ ReadInv /\ [Next]_vars =>
        [Kept(rd.asked - rd.cur)
          => /\ NotifyRecord => GetMemo(NextPlace).n = rd.asked - rd.cur
             /\ NotifyEnd => rd.cur >= rd.cnt]_vars
  BY SentIs, EndIs
<1> QED BY <1>1, TypeInvariance, LogInvariance, PTL DEF Spec, SnapshotRead

(* The history implements LogStore: a record that was written stays until  *)
(* a clear, or until it is older than all sectors but one can hold; no     *)
(* restart and no transfer takes one away, and write_memo finds room.      *)
THEOREM RingImplementsLog == ~Interruptible => (Spec => ImplementsLog)
<1> SUFFICES ASSUME ~Interruptible PROVE Spec => ImplementsLog
  OBVIOUS
<1>1. Init => Log!LogInit
  <2>1. Init => InLog = {} /\ written = 0
    BY DEF Init, InLog
  <2> QED BY <2>1 DEF Log!LogInit
<1>2. TypeInv /\ LogInv /\ [Next]_vars => [Log!LogNext]_(Log!logVars)
  BY LogStoreStep
<1> QED BY <1>1, <1>2, TypeInvariance, LogInvariance, PTL DEF Spec, ImplementsLog, Log!LogSpec
=============================================================================

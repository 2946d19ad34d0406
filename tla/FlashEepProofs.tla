--------------------------- MODULE FlashEepProofs ---------------------------
(***************************************************************************)
(* Proofs about FlashEep: for any number of banks, any size of a bank and  *)
(* any set of objects, power loss during a compaction finds the old bank   *)
(* current before the commit and the new one after it; no older value of   *)
(* an object is ever read again; and the store implements EepStore.        *)
(***************************************************************************)
EXTENDS FlashEep, TLAPS, FiniteSetTheorems, WellFoundedInduction

(***************************************************************************)
(* Least and greatest elements.                                            *)
(***************************************************************************)

(* A non-empty set of naturals has a least element.                        *)
LEMMA NatMin ==
    ASSUME NEW T \in SUBSET Nat, T # {}
    PROVE  \E n \in T : \A m \in T : n <= m
<1> DEFINE U == {0 .. n : n \in T}
<1>1. IsWellFoundedOn(StrictSubsetOrdering(Nat), FiniteSubsetsOf(Nat))
    BY FS_StrictSubsetOrderingWellFounded
<1>2. U \subseteq FiniteSubsetsOf(Nat)
    <2> SUFFICES ASSUME NEW n \in T PROVE 0 .. n \in FiniteSubsetsOf(Nat)
        OBVIOUS
    <2>1. IsFiniteSet(0 .. n)
        BY FS_Interval
    <2>2. 0 .. n \in SUBSET Nat
        OBVIOUS
    <2> QED BY <2>1, <2>2 DEF FiniteSubsetsOf
<1>3. U # {}
    OBVIOUS
<1>4. PICK x \in U : \A y \in U : <<y, x>> \notin StrictSubsetOrdering(Nat)
    <2> HIDE DEF U
    <2> QED BY <1>1, <1>2, <1>3, WFMin
<1>5. PICK n \in T : x = 0 .. n
    BY <1>4
<1>6. ASSUME NEW m \in T, m < n PROVE FALSE
    <2>1. /\ 0 .. m \in SUBSET Nat
          /\ 0 .. n \in SUBSET Nat
          /\ 0 .. m \subseteq 0 .. n
          /\ n \in 0 .. n /\ n \notin 0 .. m
        BY <1>6
    <2>2. <<0 .. m, 0 .. n>> \in StrictSubsetOrdering(Nat)
        BY <2>1 DEF StrictSubsetOrdering
    <2> QED BY <2>2, <1>4, <1>5
<1> QED BY <1>6

(* A set of naturals with an upper bound has a greatest element.           *)
LEMMA NatMax ==
    ASSUME NEW n \in Nat, NEW T \in SUBSET (0 .. n), T # {}
    PROVE  \E k \in T : \A m \in T : m <= k
<1> DEFINE D == {n - k : k \in T}
<1>1. D \in SUBSET Nat /\ D # {}
    <2>1. \A k \in T : n - k \in Nat
        OBVIOUS
    <2> QED BY <2>1
<1>2. PICK d \in D : \A e \in D : d <= e
    <2> HIDE DEF D
    <2> QED BY <1>1, NatMin
<1>3. PICK k \in T : d = n - k
    BY <1>2
<1>4. ASSUME NEW m \in T PROVE m <= k
    <2>1. n - k <= n - m
        BY <1>2, <1>3
    <2> QED BY <2>1
<1> QED BY <1>3, <1>4

-----------------------------------------------------------------------------
(***************************************************************************)
(* The current bank.                                                       *)
(***************************************************************************)

(* b comes before every other bank in the order get_addr_bscfg searches.   *)
IsCurrent(b) ==
    \A c \in Banks : gen[b] < gen[c] \/ (gen[b] = gen[c] /\ b <= c)

(* Every choice of counters has such a bank.                               *)
LEMMA FirstMinimum ==
    ASSUME NEW g \in [Banks -> Nat]
    PROVE  \E b \in Banks :
              \A c \in Banks : g[b] < g[c] \/ (g[b] = g[c] /\ b <= c)
<1> USE BanksAssumption DEF Banks
<1> DEFINE G == {g[b] : b \in Banks}
<1>1. G \in SUBSET Nat /\ G # {}
    OBVIOUS
<1>2. PICK x \in G : \A h \in G : x <= h
    <2> HIDE DEF G
    <2> QED BY <1>1, NatMin
<1> DEFINE S == {b \in Banks : g[b] = x}
<1>3. S \in SUBSET Nat /\ S # {}
    BY <1>2
<1>4. PICK b \in S : \A c \in S : b <= c
    <2> HIDE DEF S
    <2> QED BY <1>3, NatMin
<1>5. ASSUME NEW c \in Banks
      PROVE  g[b] < g[c] \/ (g[b] = g[c] /\ b <= c)
    <2>1. g[b] = x /\ x <= g[c] /\ x \in Nat /\ g[c] \in Nat
        BY <1>1, <1>2, <1>4
    <2>2. CASE g[c] = x
        BY <2>1, <2>2, <1>4
    <2> QED BY <2>1, <2>2
<1> QED BY <1>4, <1>5

(* get_addr_bscfg finds it.                                                *)
LEMMA CurrentExists ==
    ASSUME gen \in [Banks -> Nat]
    PROVE  Current \in Banks /\ IsCurrent(Current)
BY FirstMinimum DEF Current, IsCurrent

(* There is only one.                                                      *)
LEMMA CurrentUnique ==
    ASSUME gen \in [Banks -> Nat], NEW b \in Banks, IsCurrent(b)
    PROVE  Current = b
<1>1. Current \in Banks /\ IsCurrent(Current)
    BY CurrentExists
<1> QED BY <1>1, BanksAssumption DEF IsCurrent, Banks
(* The latest record of an id that has one.                                *)
LEMMA LatestIsPlace ==
    ASSUME NEW b \in Banks, bank[b] \in Seq(Record), NEW i, Places(b, i) # {}
    PROVE  /\ Latest(b, i) \in Places(b, i)
           /\ \A m \in Places(b, i) : m <= Latest(b, i)
<1>1. Len(bank[b]) \in Nat /\ Places(b, i) \in SUBSET (0 .. Len(bank[b]))
    BY DEF Places
<1>2. \E k \in Places(b, i) : \A m \in Places(b, i) : m <= k
    BY <1>1, NatMax
<1> QED BY <1>2 DEF Latest

-----------------------------------------------------------------------------
(***************************************************************************)
(* The inductive invariant.                                                *)
(***************************************************************************)

(* Between two starts of the device some bank carries a counter below      *)
(* 0x7FFFFFFF; a device that never came up is blank.                       *)
Started == \E b \in Banks : gen[b] < Busy

NeverStarted ==
    /\ \A b \in Banks : bank[b] = <<>>
    /\ \/ \A b \in Banks : gen[b] = Erased
       \/ \E b \in Banks : gen[b] = Busy

(* The format loop has done the banks before scan; one of the banks, done  *)
(* or to do, makes the store started when the loop ends.                   *)
FormatInv ==
    /\ pc \in {"fmtErase", "fmtGen"} =>
          /\ scan \in Banks
          /\ \A b \in Banks : b < scan => bank[b] = <<>> /\ gen[b] < Erased
    /\ pc = "fmtErase" =>
          /\ \A b \in Banks : b >= scan => gen[b] > 0
          /\ \E b \in Banks : IF b < scan THEN gen[b] < Busy ELSE gen[b] <= Busy
    /\ pc = "fmtGen" =>
          /\ word \in 1 .. Erased
          /\ bank[scan] = <<>>
          /\ gen[scan] = Erased
          /\ \A b \in Banks : b > scan => gen[b] > 0
          /\ \E b \in Banks :
                 \/ b < scan /\ gen[b] < Busy
                 \/ b = scan /\ word <= Busy
                 \/ b > scan /\ gen[b] <= Busy

PackInv ==
    /\ Writing => op.val # Torn
    /\ pc \in {"erase", "busy", "copy"} => IsCurrent(seg) /\ gen[seg] > 0
    /\ pc \in {"erase", "busy", "copy", "hdr", "data"} => gen[seg] < Busy
    /\ pc = "busy" => gen[NewSeg] = Erased /\ bank[NewSeg] = <<>>
    /\ pc = "copy" => gen[NewSeg] = Busy /\ Len(bank[NewSeg]) <= 1 /\ scan > 0
    /\ pc = "eraseOld" =>
          /\ IsCurrent(NewSeg)
          /\ gen[NewSeg] < Busy
          /\ Len(bank[NewSeg]) <= 1
    /\ pc \in {"hdr", "data"} => IsCurrent(seg)
    /\ pc = "hdr" => HasRoom(seg)
    /\ pc = "data" => bank[seg] # <<>>

IInv ==
    /\ TypeOK
    /\ ErasedIsBlank
    /\ pc = "boot" => Started \/ NeverStarted
    /\ pc = "idle" => Started
    /\ FormatInv
    /\ PackInv

(***************************************************************************)
(* Small facts the steps below rest on.                                    *)
(***************************************************************************)

LEMMA NewSegFacts ==
    ASSUME seg \in Banks
    PROVE  NewSeg \in Banks /\ NewSeg # seg
BY BanksAssumption DEF NewSeg, Banks

LEMMA NonEmpty ==
    ASSUME NEW S, NEW s \in Seq(S), s # <<>>
    PROVE  Len(s) \in Nat \ {0} /\ s[1] \in S /\ s[Len(s)] \in S
OBVIOUS

LEMMA OverwriteFacts ==
    ASSUME NEW s \in Seq(Record), Len(s) <= 1, NEW r \in Record
    PROVE  Overwrite(s, r) \in Seq(Record) /\ Len(Overwrite(s, r)) = 1
<1>1. CASE s = <<>>
    BY <1>1 DEF Overwrite
<1>2. CASE s # <<>>
    <2>1. Len(s) = 1
        <3>1. Len(s) \in Nat \ {0}
            BY <1>2, NonEmpty
        <3>2. \A n \in Nat \ {0} : n <= 1 => n = 1
            OBVIOUS
        <3> QED BY <3>1, <3>2
    <2>2. Mixed \in Record
        BY DEF Mixed, Record
    <2> QED BY <1>2, <2>1, <2>2 DEF Overwrite
<1> QED BY <1>1, <1>2

LEMMA CounterFacts ==
    /\ Erased \in Nat /\ Busy \in Nat
    /\ 1 <= Busy /\ Busy < Erased
    /\ \A x \in 1 .. Busy : LowBits(x - 1) = x - 1
    /\ \A x \in Nat : LowBits(x) > 0 => x > 0
BY SizesAssumption DEF Erased, Busy, LowBits

(* The current bank under the invariant.                                   *)
LEMMA CurrentFacts ==
    ASSUME TypeOK
    PROVE  /\ Current \in Banks /\ IsCurrent(Current)
           /\ \A b \in Banks : IsCurrent(b) => Current = b
           /\ \A b \in Banks : gen[Current] <= gen[b]
<1>1. gen \in [Banks -> Nat]
    BY CounterFacts DEF TypeOK
<1>2. Current \in Banks /\ IsCurrent(Current)
    BY <1>1, CurrentExists
<1>3. \A b \in Banks : IsCurrent(b) => Current = b
    BY <1>1, CurrentUnique
<1>4. \A b \in Banks : gen[Current] <= gen[b]
    BY <1>1, <1>2 DEF IsCurrent
<1> QED BY <1>2, <1>3, <1>4

-----------------------------------------------------------------------------
LEMMA InitInv == Init => IInv
<1> SUFFICES ASSUME Init PROVE IInv
    OBVIOUS
<1> USE BanksAssumption, SizesAssumption, CounterFacts DEF Init
<1>1. TypeOK
    BY DEF TypeOK, Banks, Steps, AllIds
<1>2. NeverStarted
    BY DEF NeverStarted
<1> QED BY <1>1, <1>2 DEF IInv, ErasedIsBlank, FormatInv, PackInv, Writing

(* BeginWrite, from a started device.                                      *)
LEMMA BeginWriteInv ==
    ASSUME IInv, Started, NEW i \in AllIds, NEW v \in Values \union Versions,
           BeginWrite(i, v),
           UNCHANGED <<gen, bank, scan, word, crashes, acked>>
    PROVE  IInv'
<1> USE DEF IInv, BeginWrite
<1>1. /\ Current \in Banks /\ IsCurrent(Current)
      /\ gen[Current] < Busy
    BY CurrentFacts, CounterFacts DEF Started, TypeOK
<1>2. TypeOK'
    BY <1>1 DEF TypeOK, Steps
<1>3. ErasedIsBlank'
    BY DEF ErasedIsBlank
<1>4. PackInv'
    BY <1>1, CounterFacts, IdsAssumption
    DEF PackInv, IsCurrent, HasRoom, CounterLeft, TypeOK, Writing
<1> QED BY <1>2, <1>3, <1>4 DEF FormatInv

LEMMA WriteCfgInv ==
    ASSUME IInv, NEW i \in Ids, NEW v \in Values, WriteCfg(i, v)
    PROVE  IInv'
BY BeginWriteInv DEF WriteCfg, IInv, AllIds

LEMMA WriteIdenticalInv ==
    ASSUME IInv, NEW i \in Ids, NEW v \in Values, WriteIdentical(i, v)
    PROVE  IInv'
<1> USE DEF IInv, WriteIdentical
<1>1. TypeOK'
    BY DEF TypeOK, AllIds
<1> QED
    BY <1>1 DEF ErasedIsBlank, Started, FormatInv, PackInv, Writing

LEMMA WriteHeaderInv ==
    ASSUME IInv, WriteHeader
    PROVE  IInv'
<1> USE DEF IInv, WriteHeader
<1> DEFINE r == [id |-> op.id, val |-> Torn]
<1>1. seg \in Banks /\ r \in Record /\ bank[seg] \in Seq(Record)
    BY DEF TypeOK, Record
<1>2. /\ Append(bank[seg], r) \in Seq(Record)
      /\ Len(Append(bank[seg], r)) = Len(bank[seg]) + 1
      /\ Append(bank[seg], r) # <<>>
    BY <1>1
<1>3. bank'[seg] = Append(bank[seg], r) /\ \A b \in Banks \ {seg} : bank'[b] = bank[b]
    BY <1>1 DEF TypeOK
<1>4. Len(bank[seg]) < BankRecs /\ Len(bank[seg]) \in Nat
    BY <1>1 DEF PackInv, HasRoom
<1>5. \A b \in Banks : bank'[b] \in Seq(Record) /\ Len(bank'[b]) <= BankRecs
    BY <1>2, <1>3, <1>4, SizesAssumption DEF TypeOK
<1>6. TypeOK'
    BY <1>5 DEF TypeOK, Steps
<1>7. ErasedIsBlank'
    BY <1>3, CounterFacts DEF ErasedIsBlank, PackInv, TypeOK
<1>8. PackInv'
    BY <1>2, <1>3 DEF PackInv, IsCurrent, Writing
<1> QED BY <1>6, <1>7, <1>8 DEF FormatInv

LEMMA WriteDataInv ==
    ASSUME IInv, WriteData
    PROVE  IInv'
<1> USE DEF IInv, WriteData
<1> DEFINE n == Len(bank[seg])
           s == [bank[seg] EXCEPT ![n].val = op.val]
<1>1. seg \in Banks /\ bank[seg] \in Seq(Record) /\ n \in Nat \ {0}
    BY DEF TypeOK, PackInv
<1>2. bank[seg][n] \in Record /\ op.val \in Values \union Versions \union {Torn}
    BY <1>1 DEF TypeOK
<1>3. [bank[seg][n] EXCEPT !.val = op.val] \in Record
    BY <1>2 DEF Record
<1>4. s \in Seq(Record) /\ Len(s) = n
    BY <1>1, <1>3
<1>5. bank'[seg] = s /\ \A b \in Banks \ {seg} : bank'[b] = bank[b]
    BY <1>1 DEF TypeOK
<1>6. \A b \in Banks : bank'[b] \in Seq(Record) /\ Len(bank'[b]) <= BankRecs
    BY <1>4, <1>5 DEF TypeOK
<1>7. op.val \in Values \union Versions
    BY DEF TypeOK, PackInv, Writing
<1>8. TypeOK'
    BY <1>6, <1>7 DEF TypeOK, Steps
<1>9. ErasedIsBlank'
    BY <1>5, CounterFacts DEF ErasedIsBlank, PackInv, TypeOK
<1>10. Started'
    BY <1>1 DEF PackInv, Started
<1> QED BY <1>8, <1>9, <1>10 DEF FormatInv, PackInv, Writing

-----------------------------------------------------------------------------
(***************************************************************************)
(* Compaction.                                                             *)
(***************************************************************************)
LEMMA PackEraseInv ==
    ASSUME IInv, PackErase
    PROVE  IInv'
<1> USE DEF IInv, PackErase
<1>1. seg \in Banks /\ NewSeg \in Banks /\ NewSeg # seg /\ NewSeg' = NewSeg
    BY NewSegFacts DEF TypeOK, NewSeg
<1>2. /\ gen'[NewSeg] = Erased /\ bank'[NewSeg] = <<>>
      /\ \A b \in Banks \ {NewSeg} : gen'[b] = gen[b] /\ bank'[b] = bank[b]
      /\ \A b \in Banks : gen'[b] = gen[b] \/ gen'[b] = Erased
    BY <1>1 DEF TypeOK, ErasedIsBlank, flash
<1>3. TypeOK'
    <2>1. gen' \in [Banks -> 0 .. Erased] /\ bank' \in [Banks -> Seq(Record)]
        <3>1. CASE gen[NewSeg] # Erased
            <4>1. Erased \in 0 .. Erased
                BY CounterFacts
            <4>2. <<>> \in Seq(Record)
                OBVIOUS
            <4> QED BY <1>1, <3>1, <4>1, <4>2 DEF TypeOK
        <3>2. CASE gen[NewSeg] = Erased
            BY <3>2 DEF TypeOK, flash
        <3> QED BY <3>1, <3>2
    <2>2. \A b \in Banks : Len(bank'[b]) <= BankRecs
        <3> SUFFICES ASSUME NEW b \in Banks PROVE Len(bank'[b]) <= BankRecs
            OBVIOUS
        <3>1. bank'[b] = <<>> \/ bank'[b] = bank[b]
            BY <1>2
        <3>2. Len(<<>>) <= BankRecs
            BY SizesAssumption
        <3> QED BY <3>1, <3>2 DEF TypeOK
    <2> QED BY <2>1, <2>2 DEF TypeOK, Steps
<1>4. ErasedIsBlank'
    BY <1>2 DEF ErasedIsBlank
<1>5. IsCurrent(seg)'
    <2>1. gen[seg] < Erased /\ gen'[seg] = gen[seg]
        BY <1>1, <1>2, CounterFacts DEF PackInv, TypeOK
    <2> QED BY <1>1, <1>2, <2>1 DEF PackInv, IsCurrent
<1>6. PackInv'
    BY <1>1, <1>2, <1>5 DEF PackInv, Writing
<1> QED BY <1>3, <1>4, <1>6 DEF FormatInv

LEMMA PackBusyInv ==
    ASSUME IInv, PackBusy
    PROVE  IInv'
<1> USE DEF IInv, PackBusy
<1>1. seg \in Banks /\ NewSeg \in Banks /\ NewSeg # seg /\ NewSeg' = NewSeg
    BY NewSegFacts DEF TypeOK, NewSeg
<1>2. gen'[NewSeg] = Busy /\ \A b \in Banks \ {NewSeg} : gen'[b] = gen[b]
    BY <1>1 DEF TypeOK
<1>3. TypeOK'
    <2>1. gen' \in [Banks -> 0 .. Erased]
        BY <1>1, CounterFacts DEF TypeOK
    <2> QED BY <2>1 DEF TypeOK, Steps
<1>4. ErasedIsBlank'
    BY <1>1, <1>2, CounterFacts DEF ErasedIsBlank
<1>5. IsCurrent(seg)'
    BY <1>1, <1>2 DEF PackInv, IsCurrent
<1>6. Len(bank[NewSeg]) <= 1
    BY DEF PackInv
<1>7. PackInv'
    BY <1>1, <1>2, <1>5, <1>6 DEF PackInv, Writing
<1> QED BY <1>3, <1>4, <1>7 DEF FormatInv

LEMMA PackCopyInv ==
    ASSUME IInv, PackCopy
    PROVE  IInv'
<1> USE DEF IInv, PackCopy
<1>1. seg \in Banks /\ NewSeg \in Banks /\ NewSeg # seg /\ NewSeg' = NewSeg
    BY NewSegFacts DEF TypeOK, NewSeg
<1> DEFINE r == bank[seg][scan]
           latest == bank[seg][Latest(seg, r.id)]
           s == bank[NewSeg]
           t == Overwrite(s, latest)
<1>2. bank[seg] \in Seq(Record) /\ s \in Seq(Record) /\ Len(s) <= 1
    BY <1>1 DEF TypeOK, PackInv
<1>3. latest \in Record
    <2>1. scan \in Places(seg, r.id)
        BY <1>2 DEF Places, TypeOK, PackInv
    <2>2. Latest(seg, r.id) \in Places(seg, r.id)
        BY <1>1, <1>2, <2>1, LatestIsPlace
    <2> QED BY <1>2, <2>2 DEF Places
<1>4. t \in Seq(Record) /\ Len(t) <= 1
    <2>1. /\ Overwrite(s, latest) \in Seq(Record)
          /\ Len(Overwrite(s, latest)) = 1
        <3> HIDE DEF s, latest
        <3> QED BY <1>2, <1>3, OverwriteFacts
    <2> QED BY <2>1
<1>5. /\ bank' \in [Banks -> Seq(Record)]
      /\ bank'[NewSeg] \in {s, t}
      /\ \A b \in Banks \ {NewSeg} : bank'[b] = bank[b]
    <2>1. bank' = bank \/ bank' = [bank EXCEPT ![NewSeg] = t]
        OBVIOUS
    <2> HIDE DEF t
    <2> QED BY <1>1, <1>2, <1>4, <2>1 DEF TypeOK
<1>6. TypeOK'
    <2>1. \A b \in Banks : Len(bank'[b]) <= BankRecs
        <3> SUFFICES ASSUME NEW b \in Banks PROVE Len(bank'[b]) <= BankRecs
            OBVIOUS
        <3>1. Len(bank'[b]) \in Nat
            BY <1>5
        <3> HIDE DEF s, t
        <3>2. CASE b = NewSeg
            BY <1>2, <1>4, <1>5, <3>1, <3>2, SizesAssumption
        <3>3. CASE b # NewSeg
            BY <1>5, <3>3 DEF TypeOK
        <3> QED BY <3>2, <3>3
    <2> QED BY <1>5, <2>1 DEF TypeOK, Steps
<1>7. ErasedIsBlank'
    BY <1>1, <1>5, CounterFacts DEF ErasedIsBlank, PackInv
<1>8. PackInv'
    <2>1. Len(bank'[NewSeg]) <= 1
        BY <1>2, <1>4, <1>5
    <2> HIDE DEF s, t, r, latest
    <2> QED BY <1>1, <1>5, <2>1 DEF PackInv, IsCurrent, Writing, TypeOK
<1> QED BY <1>6, <1>7, <1>8 DEF FormatInv

LEMMA PackCommitInv ==
    ASSUME IInv, PackCommit
    PROVE  IInv'
<1> USE DEF IInv, PackCommit
<1>1. seg \in Banks /\ NewSeg \in Banks /\ NewSeg # seg /\ NewSeg' = NewSeg
    BY NewSegFacts DEF TypeOK, NewSeg
<1>2. gen[seg] \in 1 .. Busy - 1
    BY <1>1, CounterFacts DEF TypeOK, PackInv
<1>3. LowBits(gen[seg] - 1) = gen[seg] - 1
    BY <1>2, CounterFacts
<1>4. gen'[NewSeg] = gen[seg] - 1 /\ \A b \in Banks \ {NewSeg} : gen'[b] = gen[b]
    BY <1>1, <1>3 DEF TypeOK
<1>5. TypeOK'
    <2>1. gen' \in [Banks -> 0 .. Erased]
        BY <1>1, <1>2, <1>3, CounterFacts DEF TypeOK
    <2> QED BY <2>1 DEF TypeOK, Steps
<1>6. ErasedIsBlank'
    BY <1>1, <1>2, <1>4, CounterFacts DEF ErasedIsBlank
<1>7. IsCurrent(NewSeg)'
    <2>1. \A c \in Banks : gen[seg] <= gen[c]
        <3>1. gen \in [Banks -> Nat]
            BY CounterFacts DEF TypeOK
        <3>2. IsCurrent(seg)
            BY DEF PackInv
        <3> QED BY <1>1, <3>1, <3>2 DEF IsCurrent
    <2>2. \A c \in Banks \ {NewSeg} : gen'[NewSeg] < gen'[c]
        BY <1>1, <1>2, <1>4, <2>1 DEF TypeOK
    <2> QED BY <1>1, <2>2, BanksAssumption DEF IsCurrent, Banks
<1>8. PackInv'
    BY <1>1, <1>2, <1>4, <1>7, CounterFacts DEF PackInv, Writing
<1> QED BY <1>5, <1>6, <1>8 DEF FormatInv

LEMMA PackEraseOldInv ==
    ASSUME IInv, PackEraseOld
    PROVE  IInv'
<1> USE DEF IInv, PackEraseOld
<1>1. seg \in Banks /\ NewSeg \in Banks /\ NewSeg # seg
    BY NewSegFacts DEF TypeOK
<1>2. /\ gen'[seg] = Erased /\ bank'[seg] = <<>>
      /\ \A b \in Banks \ {seg} : gen'[b] = gen[b] /\ bank'[b] = bank[b]
    BY <1>1 DEF TypeOK
<1>3. TypeOK'
    BY <1>1, CounterFacts, SizesAssumption DEF TypeOK, Steps
<1>4. ErasedIsBlank'
    BY <1>2 DEF ErasedIsBlank
<1>5. IsCurrent(NewSeg) /\ gen[NewSeg] < Busy /\ Len(bank[NewSeg]) <= 1
    BY DEF PackInv
<1>6. \A c \in Banks : gen'[NewSeg] < gen'[c] \/ (gen'[NewSeg] = gen'[c] /\ NewSeg <= c)
    <2>1. gen'[NewSeg] = gen[NewSeg] /\ gen[NewSeg] < Erased
        BY <1>1, <1>2, <1>5, CounterFacts DEF TypeOK
    <2> QED BY <1>1, <1>2, <1>5, <2>1 DEF IsCurrent
<1>7. IsCurrent(seg)'
    BY <1>6 DEF IsCurrent
<1>8. HasRoom(seg)' /\ gen'[NewSeg] < Busy
    <2>1. Len(bank'[seg']) <= 1
        BY <1>1, <1>2, <1>5
    <2>2. Len(bank'[seg']) \in Nat
        BY <1>1, <1>2 DEF TypeOK
    <2> QED BY <2>1, <2>2, <1>1, <1>2, <1>5, SizesAssumption DEF HasRoom
<1>9. Started'
    BY <1>1, <1>8 DEF Started
<1>10. PackInv'
    BY <1>7, <1>8 DEF PackInv, Writing
<1> QED BY <1>3, <1>4, <1>9, <1>10 DEF FormatInv

-----------------------------------------------------------------------------
(***************************************************************************)
(* Start-up and format.                                                    *)
(***************************************************************************)
LEMMA BootFirstStartInv ==
    ASSUME IInv, BootFirstStart
    PROVE  IInv'
<1> USE DEF IInv, BootFirstStart
<1>1. Current \in Banks /\ \A b \in Banks : gen[Current] <= gen[b]
    BY CurrentFacts
<1>2. NeverStarted
    BY <1>1, CounterFacts DEF Started, TypeOK
<1>3. gen'[Current] = Busy
    BY <1>1 DEF TypeOK
<1>4. NeverStarted'
    BY <1>1, <1>2, <1>3 DEF NeverStarted
<1>5. TypeOK'
    <2>1. gen' \in [Banks -> 0 .. Erased]
        BY <1>1, CounterFacts DEF TypeOK
    <2> QED BY <2>1 DEF TypeOK
<1> QED BY <1>2, <1>4, <1>5
    DEF ErasedIsBlank, NeverStarted, FormatInv, PackInv, Writing

LEMMA BootSupportedInv ==
    ASSUME IInv, NEW v \in Versions, BootSupported(v)
    PROVE  IInv'
<1> USE DEF IInv, BootSupported
<1>1. Current \in Banks
    BY CurrentFacts
<1>2. Started
    BY <1>1 DEF Read, Places, NeverStarted
<1>3. CASE Read(Ver) = v
    BY <1>2, <1>3 DEF TypeOK, Steps, ErasedIsBlank, Started, FormatInv, PackInv, Writing
<1>4. CASE Read(Ver) # v
    BY <1>2, <1>4, BeginWriteInv DEF AllIds
<1> QED BY <1>3, <1>4

LEMMA BootFormatInv ==
    ASSUME IInv, BootFormat
    PROVE  IInv'
<1> USE DEF IInv, BootFormat
<1>1. Current \in Banks
    BY CurrentFacts
<1>2. \E b \in Banks : gen[b] <= Busy
    BY <1>1, CounterFacts DEF Started, NeverStarted, TypeOK
<1>3. \A b \in Banks : gen[b] > 0
    BY CounterFacts DEF CounterLeft, TypeOK
<1>4. TypeOK'
    BY DEF TypeOK, Steps, AllIds
<1>5. 0 \in Banks /\ \A b \in Banks : b >= 0 /\ ~(b < 0)
    BY BanksAssumption DEF Banks
<1>6. FormatInv'
    BY <1>2, <1>3, <1>5 DEF FormatInv
<1> QED BY <1>4, <1>6 DEF ErasedIsBlank, PackInv, Writing

LEMMA FormatEraseInv ==
    ASSUME IInv, FormatErase
    PROVE  IInv'
<1> USE DEF IInv, FormatErase
<1>1. scan \in Banks
    BY DEF FormatInv
<1>2. /\ gen'[scan] = Erased /\ bank'[scan] = <<>>
      /\ \A b \in Banks \ {scan} : gen'[b] = gen[b] /\ bank'[b] = bank[b]
    BY <1>1 DEF TypeOK
<1>3. word' = gen[scan] /\ gen[scan] \in 1 .. Erased
    BY <1>1, CounterFacts, BanksAssumption DEF TypeOK, FormatInv, Banks
<1>4. TypeOK'
    <2>1. gen' \in [Banks -> 0 .. Erased] /\ bank' \in [Banks -> Seq(Record)]
        BY <1>1, CounterFacts DEF TypeOK
    <2>2. \A b \in Banks : Len(bank'[b]) <= BankRecs
        <3> SUFFICES ASSUME NEW b \in Banks PROVE Len(bank'[b]) <= BankRecs
            OBVIOUS
        <3>1. bank'[b] = <<>> \/ bank'[b] = bank[b]
            BY <1>2
        <3>2. Len(<<>>) <= BankRecs
            BY SizesAssumption
        <3> QED BY <3>1, <3>2 DEF TypeOK
    <2> QED BY <1>3, <2>1, <2>2 DEF TypeOK, Steps
<1>5. ErasedIsBlank'
    BY <1>2 DEF ErasedIsBlank
<1>6. PICK m \in Banks : IF m < scan THEN gen[m] < Busy ELSE gen[m] <= Busy
    BY DEF FormatInv
<1>7. \/ m < scan' /\ gen'[m] < Busy
      \/ m = scan' /\ word' <= Busy
      \/ m > scan' /\ gen'[m] <= Busy
    BY <1>1, <1>2, <1>3, <1>6, BanksAssumption DEF Banks
<1>8. FormatInv'
    <2>1. \A b \in Banks : b < scan => bank'[b] = <<>> /\ gen'[b] < Erased
        BY <1>1, <1>2, BanksAssumption DEF FormatInv, Banks
    <2>2. \A b \in Banks : b > scan => gen'[b] > 0
        BY <1>1, <1>2, BanksAssumption DEF FormatInv, Banks
    <2> QED BY <1>1, <1>2, <1>3, <1>6, <1>7, <2>1, <2>2 DEF FormatInv
<1> QED BY <1>4, <1>5, <1>8 DEF PackInv, Writing

LEMMA FormatGenInv ==
    ASSUME IInv, NEW v \in Versions, FormatGen(v)
    PROVE  IInv'
<1> USE DEF IInv, FormatGen
<1>1. scan \in Banks /\ word \in 1 .. Erased
    BY DEF FormatInv
<1>2. gen'[scan] = word - 1 /\ \A b \in Banks \ {scan} : gen'[b] = gen[b]
    BY <1>1 DEF TypeOK
<1>3. gen' \in [Banks -> 0 .. Erased]
    BY <1>1, CounterFacts DEF TypeOK
<1>4. TypeOK /\ bank' = bank
    OBVIOUS
<1>5. \A b \in Banks : b <= scan => bank[b] = <<>> /\ gen'[b] < Erased
    BY <1>1, <1>2, CounterFacts, BanksAssumption DEF FormatInv, Banks
<1>6. ErasedIsBlank'
    BY <1>1, <1>2, CounterFacts DEF ErasedIsBlank, FormatInv
<1>7. PICK m \in Banks : \/ m < scan /\ gen[m] < Busy
                         \/ m = scan /\ word <= Busy
                         \/ m > scan /\ gen[m] <= Busy
    BY DEF FormatInv
<1>8. IF m <= scan THEN gen'[m] < Busy ELSE gen'[m] <= Busy
    BY <1>1, <1>2, <1>7, CounterFacts, BanksAssumption DEF Banks
<1>9. CASE scan < NBanks - 1
    <2>1. scan' = scan + 1 /\ pc' = "fmtErase" /\ scan' \in Banks
        BY <1>1, <1>9, BanksAssumption DEF Banks
    <2>2. TypeOK'
        BY <1>3, <1>9, <2>1, BanksAssumption DEF TypeOK, Steps, Banks
    <2>3. \A b \in Banks : b < scan' => bank'[b] = <<>> /\ gen'[b] < Erased
        BY <1>1, <1>5, <2>1, BanksAssumption DEF Banks
    <2>4. \A b \in Banks : b >= scan' => gen'[b] > 0
        BY <1>1, <1>2, <2>1, BanksAssumption DEF FormatInv, Banks
    <2>5. IF m < scan' THEN gen'[m] < Busy ELSE gen'[m] <= Busy
        BY <1>1, <1>8, <2>1, BanksAssumption DEF Banks
    <2>6. FormatInv'
        BY <2>1, <2>3, <2>4, <2>5 DEF FormatInv
    <2> QED BY <1>6, <2>1, <2>2, <2>6 DEF PackInv, Writing
<1>10. CASE scan = NBanks - 1
    <2>1. pc' = "hdr" /\ op' = [id |-> Ver, val |-> v] /\ seg' = Current'
        BY <1>10
    <2>2. gen' \in [Banks -> Nat]
        BY <1>3, CounterFacts
    <2>3. Current' \in Banks /\ IsCurrent(Current)'
        BY <2>2, FirstMinimum DEF Current, IsCurrent
    <2>4. gen'[seg'] < Busy
        <3>1. gen'[m] < Busy
            BY <1>8, <1>10, BanksAssumption DEF Banks
        <3> QED BY <2>1, <2>2, <2>3, <3>1, CounterFacts DEF IsCurrent
    <2>5. bank'[seg'] = <<>>
        BY <1>5, <1>10, <2>1, <2>3, BanksAssumption DEF Banks
    <2>6. HasRoom(seg)'
        BY <2>5, SizesAssumption DEF HasRoom
    <2>7. TypeOK'
        BY <1>3, <1>10, <2>1, <2>3 DEF TypeOK, Steps, AllIds
    <2>8. PackInv'
        BY <2>1, <2>3, <2>4, <2>6, IdsAssumption DEF PackInv, Writing, IsCurrent
    <2> QED BY <1>6, <2>1, <2>7, <2>8 DEF FormatInv
<1> QED BY <1>1, <1>9, <1>10, BanksAssumption DEF Banks

LEMMA CrashInv ==
    ASSUME IInv, FormatNotInterrupted, Crash
    PROVE  IInv'
<1> USE DEF IInv, Crash
<1>1. pc \notin {"fmtErase", "fmtGen"}
    BY DEF FormatNotInterrupted
<1>2. seg \in Banks /\ NewSeg \in Banks
    BY NewSegFacts DEF TypeOK
<1>3. Started \/ NeverStarted
    BY <1>1, <1>2 DEF TypeOK, Steps, PackInv, Started
<1>4. TypeOK'
    BY SizesAssumption DEF TypeOK, Steps
<1> QED BY <1>3, <1>4
    DEF Started, NeverStarted, ErasedIsBlank, FormatInv, PackInv, Writing

-----------------------------------------------------------------------------
(***************************************************************************)
(* The theorems.                                                           *)
(***************************************************************************)

(* Every step keeps the inductive invariant.                               *)
LEMMA StepInv ==
    ASSUME IInv, FormatNotInterrupted, [Next]_vars
    PROVE  IInv'
<1>1. CASE UNCHANGED vars
    BY <1>1 DEF vars, IInv, TypeOK, ErasedIsBlank, Started, NeverStarted, FormatInv,
                PackInv, IsCurrent, Writing, HasRoom, NewSeg
<1>2. CASE Next
    BY <1>2, WriteCfgInv, WriteIdenticalInv, WriteHeaderInv, WriteDataInv,
       PackEraseInv, PackBusyInv, PackCopyInv, PackCommitInv, PackEraseOldInv,
       BootFirstStartInv, BootSupportedInv, BootFormatInv, FormatEraseInv,
       FormatGenInv, CrashInv
    DEF Next
<1> QED BY <1>1, <1>2

LEMMA Invariance == FormatNotInterrupted => (Spec => []IInv)
<1> SUFFICES ASSUME FormatNotInterrupted PROVE Spec => []IInv
    OBVIOUS
<1>1. Init => IInv
    BY InitInv
<1>2. IInv /\ [Next]_vars => IInv'
    BY StepInv
<1> QED BY <1>1, <1>2, PTL DEF Spec

(* Type correctness of the store.                                          *)
THEOREM TypeCorrect == FormatNotInterrupted => (Spec => []TypeOK)
<1>1. IInv => TypeOK
    BY DEF IInv
<1> QED BY <1>1, Invariance, PTL

(* A bank whose counter word is erased is blank, so that pack_cfg_fmem may *)
(* skip its erase.                                                         *)
THEOREM BlankBanks == FormatNotInterrupted => (Spec => []ErasedIsBlank)
<1>1. IInv => ErasedIsBlank
    BY DEF IInv
<1> QED BY <1>1, Invariance, PTL

(* Power loss before the commit of a compaction restarts in the old bank.  *)
THEOREM OldBankUntilCommit ==
    FormatNotInterrupted => (Spec => []OldBankRulesUntilCommit)
<1>1. IInv => OldBankRulesUntilCommit
    BY CurrentFacts DEF IInv, PackInv, OldBankRulesUntilCommit, TypeOK
<1> QED BY <1>1, Invariance, PTL

(* Power loss after the commit restarts in the new bank, where the write   *)
(* goes on.                                                                *)
THEOREM NewBankAfterCommit ==
    FormatNotInterrupted => (Spec => []NewBankRulesAfterCommit)
<1>1. IInv => NewBankRulesAfterCommit
    <2> SUFFICES ASSUME IInv PROVE NewBankRulesAfterCommit
        OBVIOUS
    <2>1. seg \in Banks /\ NewSeg \in Banks /\ TypeOK
        BY NewSegFacts DEF IInv, TypeOK
    <2> QED BY <2>1, CurrentFacts DEF IInv, PackInv, NewBankRulesAfterCommit
<1> QED BY <1>1, Invariance, PTL


-----------------------------------------------------------------------------
(***************************************************************************)
(* What a read of id i returns in a bank with contents s.                  *)
(***************************************************************************)
PlacesIn(s, i) == {k \in 1 .. Len(s) : s[k].id = i}
LatestIn(s, i) == CHOOSE k \in PlacesIn(s, i) : \A m \in PlacesIn(s, i) : m <= k
ReadIn(s, i) == IF PlacesIn(s, i) = {} THEN NoVal ELSE s[LatestIn(s, i)].val

LEMMA ReadIsReadIn ==
    \A i : Read(i) = ReadIn(bank[Current], i)
BY DEF Read, ReadIn, Latest, LatestIn, Places, PlacesIn

LEMMA ReadIsReadInPrime ==
    \A i : Read(i)' = ReadIn(bank'[Current'], i)
BY DEF Read, ReadIn, Latest, LatestIn, Places, PlacesIn

LEMMA LatestInIs ==
    ASSUME NEW s, Len(s) \in Nat, NEW i, NEW k \in PlacesIn(s, i), \A m \in PlacesIn(s, i) : m <= k
    PROVE  ReadIn(s, i) = s[k].val
<1>1. \A m \in PlacesIn(s, i) : m \in Nat
    BY DEF PlacesIn
<1>2. \A m \in PlacesIn(s, i) : (\A n \in PlacesIn(s, i) : n <= m) => m = k
    BY <1>1
<1>3. LatestIn(s, i) = k
    BY <1>2 DEF LatestIn
<1> QED BY <1>3 DEF ReadIn

LEMMA LatestInPlaces ==
    ASSUME NEW s, Len(s) \in Nat, NEW i, PlacesIn(s, i) # {}
    PROVE  /\ LatestIn(s, i) \in PlacesIn(s, i)
           /\ \A m \in PlacesIn(s, i) : m <= LatestIn(s, i)
<1>1. PlacesIn(s, i) \in SUBSET (0 .. Len(s))
    BY DEF PlacesIn
<1>2. \E k \in PlacesIn(s, i) : \A m \in PlacesIn(s, i) : m <= k
    BY <1>1, NatMax
<1> QED BY <1>2 DEF LatestIn

LEMMA ReadBlank == \A i : ReadIn(<<>>, i) = NoVal
BY DEF ReadIn, PlacesIn

LEMMA ReadAppend ==
    ASSUME NEW s \in Seq(Record), NEW r \in Record, NEW i
    PROVE  ReadIn(Append(s, r), i) = IF i = r.id THEN r.val ELSE ReadIn(s, i)
<1> DEFINE t == Append(s, r)
           n == Len(s)
<1>1. n \in Nat /\ Len(t) = n + 1 /\ t[n + 1] = r /\ \A k \in 1 .. n : t[k] = s[k]
    OBVIOUS
<1> HIDE DEF t, n
<1>2. CASE i = r.id
    <2>1. n + 1 \in PlacesIn(t, i) /\ \A m \in PlacesIn(t, i) : m <= n + 1
        BY <1>1, <1>2 DEF PlacesIn
    <2>2. Len(t) \in Nat
        BY <1>1
    <2>3. ReadIn(t, i) = t[n + 1].val
        BY <2>1, <2>2, LatestInIs
    <2> QED BY <1>1, <1>2, <2>3 DEF t
<1>3. CASE i # r.id
    <2>1. PlacesIn(t, i) = PlacesIn(s, i)
        BY <1>1, <1>3 DEF PlacesIn, n
    <2>2. CASE PlacesIn(s, i) = {}
        BY <1>3, <2>1, <2>2 DEF ReadIn, t
    <2>3. CASE PlacesIn(s, i) # {}
        <3>1. LatestIn(t, i) = LatestIn(s, i)
            BY <2>1 DEF LatestIn
        <3>2. LatestIn(s, i) \in 1 .. n
            BY <1>1, <2>3, LatestInPlaces DEF PlacesIn, n
        <3> QED BY <1>1, <1>3, <2>1, <2>3, <3>1, <3>2 DEF ReadIn, t
    <2> QED BY <2>2, <2>3
<1> QED BY <1>2, <1>3

LEMMA ReadData ==
    ASSUME NEW s \in Seq(Record), s # <<>>, NEW v, NEW i
    PROVE  ReadIn([s EXCEPT ![Len(s)].val = v], i)
              = IF i = s[Len(s)].id THEN v ELSE ReadIn(s, i)
<1> DEFINE n == Len(s)
           t == [s EXCEPT ![n].val = v]
<1>1. n \in Nat \ {0} /\ s[n] \in Record
    BY NonEmpty
<1>7. Len(t) = n
    BY <1>1
<1>2. /\ Len(t) = n /\ t[n] = [s[n] EXCEPT !.val = v]
      /\ \A k \in 1 .. n : k # n => t[k] = s[k]
    BY <1>1
<1>3. t[n].id = s[n].id /\ t[n].val = v
    BY <1>1, <1>2 DEF Record
<1> HIDE DEF t
<1>4. PlacesIn(t, i) = PlacesIn(s, i)
    BY <1>1, <1>2, <1>3 DEF PlacesIn
<1>5. CASE i = s[n].id
    <2>0. t[n].id = i
        BY <1>3, <1>5
    <2>1. n \in PlacesIn(t, i) /\ \A m \in PlacesIn(t, i) : m <= n
        <3> HIDE DEF n
        <3> QED BY <1>1, <1>7, <2>0 DEF PlacesIn
    <2>2. Len(t) \in Nat
        <3> HIDE DEF n
        <3> QED BY <1>1, <1>7
    <2>3. ReadIn(t, i) = t[n].val
        BY <2>1, <2>2, LatestInIs
    <2> QED BY <1>3, <1>5, <2>3 DEF t
<1>6. CASE i # s[n].id
    <2>2. CASE PlacesIn(s, i) = {}
        BY <1>6, <1>4, <2>2 DEF ReadIn, t
    <2>3. CASE PlacesIn(s, i) # {}
        <3>1. LatestIn(t, i) = LatestIn(s, i)
            BY <1>4 DEF LatestIn
        <3>2. LatestIn(s, i) \in 1 .. n /\ LatestIn(s, i) # n
            BY <1>1, <1>6, <2>3, LatestInPlaces DEF PlacesIn
        <3>3. t[LatestIn(s, i)] = s[LatestIn(s, i)]
            BY <1>2, <3>2
        <3>4. ReadIn(t, i) = t[LatestIn(t, i)].val /\ ReadIn(s, i) = s[LatestIn(s, i)].val
            BY <1>4, <2>3 DEF ReadIn
        <3>5. ReadIn(t, i) = ReadIn(s, i)
            BY <3>1, <3>3, <3>4
        <3> QED BY <1>6, <3>5 DEF t
    <2> QED BY <2>2, <2>3
<1> QED BY <1>5, <1>6 DEF t

-----------------------------------------------------------------------------
(***************************************************************************)
(* The view of the callers.                                                *)
(***************************************************************************)
Formatting == pc \in {"fmtErase", "fmtGen"}

LEMMA ViewIs ==
    /\ DOMAIN View = AllIds /\ View = [i \in AllIds |-> View[i]]
    /\ ~Formatting => \A i \in AllIds : View[i] = ReadIn(bank[Current], i)
    /\ Formatting => \A i \in AllIds : View[i] = NoVal
BY ReadIsReadIn DEF View, Formatting

LEMMA ViewIsPrime ==
    /\ DOMAIN View' = AllIds /\ View' = [i \in AllIds |-> View'[i]]
    /\ ~Formatting' => \A i \in AllIds : View'[i] = ReadIn(bank'[Current'], i)
    /\ Formatting' => \A i \in AllIds : View'[i] = NoVal
BY ReadIsReadInPrime DEF View, Formatting

LEMMA ViewSame ==
    ASSUME ~Formatting, ~Formatting', bank'[Current'] = bank[Current]
    PROVE  View' = View
BY ViewIs, ViewIsPrime

LEMMA CurrentPrime ==
    ASSUME TypeOK'
    PROVE  /\ Current' \in Banks
           /\ \A b \in Banks : IsCurrent(b)' => Current' = b
<1>1. gen' \in [Banks -> Nat]
    BY CounterFacts DEF TypeOK
<1>2. Current' \in Banks /\ IsCurrent(Current)'
    BY <1>1, FirstMinimum DEF Current, IsCurrent
<1>3. \A b \in Banks : IsCurrent(b)' => Current' = b
    BY <1>1, <1>2, BanksAssumption DEF IsCurrent, Banks
<1> QED BY <1>2, <1>3

-----------------------------------------------------------------------------
(***************************************************************************)
(* What a compaction keeps: the new bank holds at most one record, which   *)
(* is not of the object being written and is no one's or says what the old *)
(* bank says of its object.                                                *)
(***************************************************************************)
KeepsOne(old, new) ==
    new # <<>> => /\ new[1].id # op.id
                  /\ new[1].id \in AllIds => new[1].val = ReadIn(old, new[1].id)

CopyInv ==
    /\ pc = "copy" => KeepsOne(bank[seg], bank[NewSeg])
    /\ pc = "data" => bank[seg][Len(bank[seg])] = [id |-> op.id, val |-> Torn]

LEMMA PackCopyKeeps ==
    ASSUME IInv, CopyInv, PackCopy
    PROVE  CopyInv'
<1> USE DEF IInv, PackCopy
<1>1. seg \in Banks /\ NewSeg \in Banks /\ NewSeg # seg /\ NewSeg' = NewSeg
    BY NewSegFacts DEF TypeOK, NewSeg
<1> DEFINE r == bank[seg][scan]
           latest == bank[seg][Latest(seg, r.id)]
           s == bank[NewSeg]
<1>2. bank[seg] \in Seq(Record) /\ s \in Seq(Record) /\ KeepsOne(bank[seg], s)
    BY <1>1 DEF TypeOK, CopyInv
<1>3. latest.id = r.id /\ latest.val = ReadIn(bank[seg], r.id)
    <2>1. scan \in Places(seg, r.id)
        BY <1>2 DEF Places, TypeOK, PackInv
    <2>2. Latest(seg, r.id) \in Places(seg, r.id)
        BY <1>1, <1>2, <2>1, LatestIsPlace
    <2>3. latest.id = r.id
        BY <2>2 DEF Places
    <2>4. Latest(seg, r.id) = LatestIn(bank[seg], r.id) /\ PlacesIn(bank[seg], r.id) # {}
        BY <2>1 DEF Latest, LatestIn, Places, PlacesIn
    <2> QED BY <2>3, <2>4 DEF ReadIn
<1>4. bank'[seg] = bank[seg] /\ pc' = "copy" /\ op' = op /\ seg' = seg
    BY <1>1 DEF TypeOK
<1>5. CASE bank' = bank
    BY <1>1, <1>2, <1>4, <1>5 DEF CopyInv, KeepsOne
<1>6. CASE r.id # op.id /\ bank'[NewSeg] = Overwrite(s, latest)
    <2>1. CASE s = <<>>
        <3>1. bank'[NewSeg] = <<latest>> /\ <<latest>>[1] = latest
            BY <1>6, <2>1 DEF Overwrite
        <3> HIDE DEF latest
        <3>2. bank'[NewSeg][1] = latest
            BY <3>1
        <3> QED BY <1>1, <1>3, <1>4, <1>6, <3>2 DEF CopyInv, KeepsOne
    <2>2. CASE s # <<>> /\ s[1] = latest
        <3>1. bank'[NewSeg] = s
            BY <1>6, <2>2 DEF Overwrite
        <3> QED BY <1>1, <1>2, <1>4, <3>1 DEF CopyInv, KeepsOne
    <2>3. CASE s # <<>> /\ s[1] # latest
        <3>1. bank'[NewSeg] = [s EXCEPT ![1] = Mixed]
            <4> HIDE DEF s, latest
            <4> QED BY <1>6, <2>3 DEF Overwrite
        <3>2. Len(s) \in Nat \ {0}
            BY <1>2, <2>3, NonEmpty
        <3>3. bank'[NewSeg][1] = Mixed
            <4> HIDE DEF s
            <4> QED BY <1>2, <3>1, <3>2
        <3>4. Mixed.id \notin AllIds /\ op.id \in AllIds
            BY IdsAssumption DEF Mixed, AllIds, TypeOK
        <3> QED BY <1>1, <1>4, <3>3, <3>4 DEF CopyInv, KeepsOne
    <2> QED BY <2>1, <2>2, <2>3
<1>7. bank' = bank \/ (r.id # op.id /\ bank' = [bank EXCEPT ![NewSeg] = Overwrite(s, latest)])
    OBVIOUS
<1>8. bank' = [bank EXCEPT ![NewSeg] = Overwrite(s, latest)] => bank'[NewSeg] = Overwrite(s, latest)
    <2> HIDE DEF s, latest
    <2> QED BY <1>1 DEF TypeOK
<1> QED BY <1>5, <1>6, <1>7, <1>8

LEMMA CopyStep ==
    ASSUME IInv, CopyInv, [Next]_vars
    PROVE  CopyInv'
<1> USE DEF CopyInv, IInv
<1>1. CASE WriteHeader
    <2>1. seg \in Banks /\ bank[seg] \in Seq(Record)
        BY DEF TypeOK
    <2>2. bank'[seg] = Append(bank[seg], [id |-> op.id, val |-> Torn])
        BY <1>1, <2>1 DEF WriteHeader, TypeOK
    <2>3. bank'[seg][Len(bank'[seg])] = [id |-> op.id, val |-> Torn]
        BY <2>1, <2>2
    <2> QED BY <1>1, <2>3 DEF WriteHeader
<1>2. CASE PackBusy
    <2>1. bank[NewSeg] = <<>> /\ NewSeg' = NewSeg
        BY <1>2 DEF PackInv, PackBusy, NewSeg
    <2> QED BY <1>2, <2>1 DEF PackBusy, KeepsOne
<1>3. CASE PackCopy
    BY <1>3, PackCopyKeeps
<1>4. CASE UNCHANGED vars
    BY <1>4 DEF vars, NewSeg, KeepsOne
<1>5. ASSUME NEW i, NEW v, WriteIdentical(i, v) PROVE CopyInv'
    BY <1>5 DEF WriteIdentical
<1>6. ASSUME NEW i, NEW v, WriteCfg(i, v) PROVE CopyInv'
    BY <1>6 DEF WriteCfg, BeginWrite
<1>7. CASE WriteData \/ PackErase \/ PackCommit \/ PackEraseOld \/ BootFirstStart \/ BootFormat
             \/ FormatErase \/ Crash
    BY <1>7 DEF WriteData, PackErase, PackCommit, PackEraseOld, BootFirstStart, BootFormat,
                FormatErase, Crash
<1>8. ASSUME NEW v, BootSupported(v) PROVE CopyInv'
    BY <1>8 DEF BootSupported, BeginWrite
<1>9. ASSUME NEW v, FormatGen(v) PROVE CopyInv'
    BY <1>9 DEF FormatGen
<1> QED BY <1>1, <1>2, <1>3, <1>4, <1>5, <1>6, <1>7, <1>8, <1>9 DEF Next

-----------------------------------------------------------------------------
(***************************************************************************)
(* Each step as the callers see it.                                        *)
(***************************************************************************)
LEMMA WriteHeaderView ==
    ASSUME IInv, IInv', WriteHeader
    PROVE  View' = [View EXCEPT ![op.id] = Torn]
<1>1. seg \in Banks /\ Current = seg /\ Current' = seg
    <2>1. seg \in Banks /\ Current = seg
        BY CurrentFacts DEF IInv, PackInv, TypeOK, WriteHeader
    <2>2. Current' = Current
        BY DEF WriteHeader, Current
    <2> QED BY <2>1, <2>2
<1>2. bank[seg] \in Seq(Record) /\ [id |-> op.id, val |-> Torn] \in Record /\ op.id \in AllIds
    BY <1>1 DEF IInv, TypeOK, Record
<1>3. bank'[seg] = Append(bank[seg], [id |-> op.id, val |-> Torn])
    BY <1>1 DEF WriteHeader, IInv, TypeOK
<1>4. ~Formatting /\ ~Formatting'
    BY DEF WriteHeader, Formatting
<1>5. \A i \in AllIds : View'[i] = IF i = op.id THEN Torn ELSE View[i]
    BY <1>1, <1>2, <1>3, <1>4, ViewIs, ViewIsPrime, ReadAppend
<1> QED BY <1>5, ViewIs, ViewIsPrime

LEMMA WriteDataView ==
    ASSUME IInv, CopyInv, WriteData
    PROVE  View[op.id] = Torn /\ View' = [View EXCEPT ![op.id] = op.val]
<1>1. seg \in Banks /\ Current = seg /\ Current' = seg
    <2>1. seg \in Banks /\ Current = seg
        BY CurrentFacts DEF IInv, PackInv, TypeOK, WriteData
    <2>2. Current' = Current
        BY DEF WriteData, Current
    <2> QED BY <2>1, <2>2
<1>2. /\ bank[seg] \in Seq(Record) /\ bank[seg] # <<>> /\ op.id \in AllIds
      /\ bank[seg][Len(bank[seg])] = [id |-> op.id, val |-> Torn]
    BY <1>1 DEF IInv, TypeOK, PackInv, CopyInv, WriteData
<1> DEFINE n == Len(bank[seg])
           t == [bank[seg] EXCEPT ![n].val = op.val]
<1>3. bank'[seg] = t
    BY <1>1 DEF WriteData, IInv, TypeOK
<1>4. ~Formatting /\ ~Formatting'
    BY DEF WriteData, Formatting
<1>5. \A i : ReadIn(t, i) = IF i = op.id THEN op.val ELSE ReadIn(bank[seg], i)
    <2>1. bank[seg][n].id = op.id
        BY <1>2
    <2>2. \A i : ReadIn(t, i) = IF i = bank[seg][n].id THEN op.val ELSE ReadIn(bank[seg], i)
        BY <1>2, ReadData
    <2> HIDE DEF t
    <2> QED BY <2>1, <2>2
<1>6. ReadIn(bank[seg], op.id) = Torn
    <2>1. n \in Nat \ {0}
        BY <1>2, NonEmpty
    <2>2. n \in PlacesIn(bank[seg], op.id) /\ \A m \in PlacesIn(bank[seg], op.id) : m <= n
        BY <1>2, <2>1 DEF PlacesIn
    <2> QED BY <1>2, <2>1, <2>2, LatestInIs
<1> HIDE DEF t
<1>7. \A i \in AllIds : View'[i] = IF i = op.id THEN op.val ELSE View[i]
    BY <1>1, <1>3, <1>4, <1>5, ViewIs, ViewIsPrime
<1> QED BY <1>1, <1>2, <1>4, <1>6, <1>7, ViewIs, ViewIsPrime

LEMMA PackCommitView ==
    ASSUME IInv, IInv', CopyInv, PackCommit
    PROVE  \E kept \in {{}} \union {{j} : j \in AllIds \ {op.id}} :
              View' = [j \in AllIds |-> IF j \in kept THEN View[j] ELSE NoVal]
<1>1. seg \in Banks /\ NewSeg \in Banks /\ NewSeg # seg /\ NewSeg' = NewSeg
    BY NewSegFacts DEF IInv, TypeOK, NewSeg, PackCommit
<1>2. Current = seg
    BY <1>1, CurrentFacts DEF IInv, PackInv, PackCommit
<1>3. Current' = NewSeg
    BY <1>1, CurrentPrime DEF IInv, PackInv, PackCommit
<1> DEFINE s == bank[NewSeg]
<1>4. s \in Seq(Record) /\ Len(s) <= 1 /\ KeepsOne(bank[seg], s)
    BY <1>1 DEF IInv, TypeOK, PackInv, CopyInv, PackCommit
<1>5. ~Formatting /\ ~Formatting' /\ bank' = bank
    BY DEF PackCommit, Formatting
<1>6. \A j \in AllIds : View[j] = ReadIn(bank[seg], j) /\ View'[j] = ReadIn(s, j)
    BY <1>2, <1>3, <1>5, ViewIs, ViewIsPrime
<1>9. ASSUME \A j \in AllIds : View'[j] = NoVal
      PROVE  \E kept \in {{}} \union {{j} : j \in AllIds \ {op.id}} :
                View' = [j \in AllIds |-> IF j \in kept THEN View[j] ELSE NoVal]
    <2> DEFINE none == {}
    <2>1. \A j \in AllIds : j \notin none
        OBVIOUS
    <2>2. none \in {{}} \union {{j} : j \in AllIds \ {op.id}}
        OBVIOUS
    <2> HIDE DEF none
    <2>3. View' = [j \in AllIds |-> IF j \in none THEN View[j] ELSE NoVal]
        BY <1>9, <2>1, ViewIsPrime
    <2> QED BY <2>2, <2>3
<1>7. CASE s = <<>>
    <2>1. \A j \in AllIds : View'[j] = NoVal
        BY <1>6, <1>7, ReadBlank
    <2> QED BY <1>9, <2>1
<1>8. CASE s # <<>>
    <2>1. Len(s) = 1 /\ s[1] \in Record
        <3>0. s \in Seq(Record) /\ s # <<>>
            BY <1>4, <1>8
        <3> HIDE DEF s
        <3>1. Len(s) \in Nat \ {0}
            BY <3>0, NonEmpty
        <3>2. s[1] \in Record
            BY <3>0, NonEmpty
        <3>3. Len(s) <= 1
            BY <1>4
        <3>4. \A n \in Nat \ {0} : n <= 1 => n = 1
            OBVIOUS
        <3> QED BY <3>1, <3>2, <3>3, <3>4
    <2>2. \A j : PlacesIn(s, j) = IF s[1].id = j THEN {1} ELSE {}
        <3> HIDE DEF s
        <3> QED BY <2>1 DEF PlacesIn
    <2>3. \A j : ReadIn(s, j) = IF s[1].id = j THEN s[1].val ELSE NoVal
        <3> HIDE DEF s
        <3> SUFFICES ASSUME NEW j PROVE ReadIn(s, j) = IF s[1].id = j THEN s[1].val ELSE NoVal
            OBVIOUS
        <3>1. CASE s[1].id = j
            <4>1. 1 \in PlacesIn(s, j) /\ (\A m \in PlacesIn(s, j) : m <= 1) /\ Len(s) \in Nat
                BY <2>1, <2>2, <3>1
            <4> QED BY <3>1, <4>1, LatestInIs
        <3>2. CASE s[1].id # j
            BY <2>2, <3>2 DEF ReadIn
        <3> QED BY <3>1, <3>2
    <2>4. s[1].id # op.id /\ (s[1].id \in AllIds => s[1].val = ReadIn(bank[seg], s[1].id))
        BY <1>4, <1>8 DEF KeepsOne
    <2>5. CASE s[1].id \in AllIds
        <3> DEFINE kept == {s[1].id}
        <3>1. \A j \in AllIds : View'[j] = IF j \in kept THEN View[j] ELSE NoVal
            BY <1>6, <2>3, <2>4, <2>5
        <3>2. kept \in {{}} \union {{j} : j \in AllIds \ {op.id}}
            BY <2>4, <2>5
        <3>3. View' = [j \in AllIds |-> IF j \in kept THEN View[j] ELSE NoVal]
            BY <3>1, ViewIsPrime
        <3> QED BY <3>2, <3>3
    <2>6. CASE s[1].id \notin AllIds
        <3>1. \A j \in AllIds : View'[j] = NoVal
            BY <1>6, <2>3, <2>6
        <3> QED BY <1>9, <3>1
    <2> QED BY <2>5, <2>6
<1> QED BY <1>7, <1>8

LEMMA SameBankView ==
    ASSUME IInv, IInv', ~Formatting, ~Formatting',
           NEW b \in Banks, IsCurrent(b), IsCurrent(b)', bank'[b] = bank[b]
    PROVE  View' = View
<1>1. Current = b /\ Current' = b
    BY CurrentFacts, CurrentPrime DEF IInv
<1> QED BY <1>1, ViewSame

LEMMA PackView ==
    ASSUME IInv, IInv', PackErase \/ PackBusy \/ PackCopy \/ PackEraseOld
    PROVE  View' = View /\ Writing /\ Writing' /\ op' = op
<1>1. seg \in Banks /\ NewSeg \in Banks /\ NewSeg # seg
    BY NewSegFacts DEF IInv, TypeOK
<1>2. ~Formatting /\ Writing
    BY DEF Formatting, Writing, PackErase, PackBusy, PackCopy, PackEraseOld
<1>3. CASE PackErase \/ PackBusy \/ PackCopy
    <2>1. seg' = seg /\ bank'[seg] = bank[seg] /\ op' = op /\ pc' \in {"busy", "copy"}
        BY <1>1, <1>3 DEF PackErase, PackBusy, PackCopy, IInv, TypeOK, flash
    <2>2. IsCurrent(seg)
        BY <1>3 DEF PackErase, PackBusy, PackCopy, IInv, PackInv
    <2>3. IsCurrent(seg)'
        BY <2>1 DEF IInv, PackInv
    <2>4. IsCurrent(seg)' /\ seg' = seg => \A b \in Banks : b = seg => IsCurrent(b)'
        BY DEF IsCurrent
    <2>5. ~Formatting' /\ Writing'
        BY <2>1 DEF Formatting, Writing
    <2> QED BY <1>1, <1>2, <2>1, <2>2, <2>3, <2>4, <2>5, SameBankView
<1>4. CASE PackEraseOld
    <2>1. seg' = NewSeg /\ bank'[NewSeg] = bank[NewSeg] /\ op' = op
        BY <1>1, <1>4 DEF PackEraseOld, IInv, TypeOK
    <2>2. IsCurrent(NewSeg) /\ HasRoom(NewSeg)
        <3>1. IsCurrent(NewSeg) /\ Len(bank[NewSeg]) <= 1
            BY <1>4 DEF PackEraseOld, IInv, PackInv
        <3>2. Len(bank[NewSeg]) \in Nat
            BY <1>1 DEF IInv, TypeOK
        <3> QED BY <3>1, <3>2, SizesAssumption DEF HasRoom
    <2>3. pc' = "hdr"
        BY <1>4, <2>2 DEF PackEraseOld
    <2>4. Current' = NewSeg
        <3>1. IsCurrent(seg)' /\ TypeOK' /\ seg' \in Banks
            BY <1>1, <2>1, <2>3 DEF IInv, PackInv
        <3>2. \A b \in Banks : b = seg' => (IsCurrent(seg)' => Current' = b)
            BY <3>1, CurrentPrime DEF IsCurrent
        <3> QED BY <2>1, <3>1, <3>2
    <2>5. Current = NewSeg
        BY <1>1, <2>2, CurrentFacts DEF IInv
    <2>6. ~Formatting' /\ Writing'
        BY <2>3 DEF Formatting, Writing
    <2> QED BY <1>2, <2>1, <2>4, <2>5, <2>6, ViewSame
<1> QED BY <1>3, <1>4

(* Steps that write no bank and leave its counter alone.                   *)
LEMMA SameFlashView ==
    ASSUME UNCHANGED flash, ~Formatting, ~Formatting'
    PROVE  View' = View
<1>1. Current' = Current
    BY DEF Current, flash
<1> QED BY <1>1, ViewSame DEF flash

LEMMA BootFirstStartView ==
    ASSUME IInv, IInv', BootFirstStart
    PROVE  View' = View
<1>1. Current \in Banks /\ \A b \in Banks : gen[Current] <= gen[b]
    BY CurrentFacts DEF IInv
<1>2. \A b \in Banks : bank[b] = <<>> /\ bank'[b] = <<>>
    <2>1. \A b \in Banks : gen[b] \in 0 .. Erased /\ gen[b] = Erased
        BY <1>1, CounterFacts DEF IInv, TypeOK, BootFirstStart
    <2> QED BY <2>1 DEF IInv, ErasedIsBlank, BootFirstStart
<1>3. Current' \in Banks
    BY CurrentPrime DEF IInv
<1>4. ~Formatting /\ ~Formatting'
    BY DEF BootFirstStart, Formatting
<1> QED BY <1>1, <1>2, <1>3, <1>4, ViewSame

LEMMA FormatView ==
    /\ BootFormat => ~Formatting /\ View[Ver] = NoVal /\ View' = [i \in AllIds |-> NoVal]
    /\ FormatErase => View' = View
    /\ IInv /\ IInv' /\ (\E v \in Versions : FormatGen(v)) => View' = View
<1>1. ASSUME BootFormat PROVE ~Formatting /\ View[Ver] = NoVal /\ View' = [i \in AllIds |-> NoVal]
    <2>1. ~Formatting /\ Formatting' /\ Ver \in AllIds /\ Read(Ver) = NoVal
        BY <1>1 DEF BootFormat, Formatting, AllIds
    <2>2. View[Ver] = NoVal
        BY <2>1 DEF View, Formatting
    <2> QED BY <2>1, <2>2, ViewIsPrime
<1>2. ASSUME FormatErase PROVE View' = View
    <2>1. Formatting /\ Formatting'
        BY <1>2 DEF FormatErase, Formatting
    <2> QED BY <2>1, ViewIs, ViewIsPrime
<1>3. ASSUME IInv, IInv', NEW v \in Versions, FormatGen(v) PROVE View' = View
    <2>1. Formatting
        BY <1>3 DEF FormatGen, Formatting
    <2>2. CASE Formatting'
        BY <2>1, <2>2, ViewIs, ViewIsPrime
    <2>3. CASE ~Formatting'
        <3>1. scan \in Banks /\ ~(scan < NBanks - 1) /\ UNCHANGED bank
            BY <1>3, <2>3 DEF FormatGen, Formatting, IInv, FormatInv
        <3>2. \A b \in Banks : b <= scan
            BY <3>1, BanksAssumption DEF Banks
        <3>3. \A b \in Banks : bank[b] = <<>>
            <4>1. bank[scan] = <<>> /\ \A b \in Banks : b < scan => bank[b] = <<>>
                BY <1>3 DEF FormatGen, IInv, FormatInv
            <4> QED BY <3>1, <3>2, <4>1, BanksAssumption DEF Banks
        <3>4. Current' \in Banks
            BY <1>3, CurrentPrime DEF IInv
        <3>5. bank'[Current'] = <<>>
            BY <3>1, <3>3, <3>4
        <3>6. \A i \in AllIds : View'[i] = NoVal /\ View[i] = NoVal
            BY <2>1, <2>3, <3>5, ViewIs, ViewIsPrime, ReadBlank
        <3> QED BY <3>6, ViewIs, ViewIsPrime
    <2> QED BY <2>2, <2>3
<1> QED BY <1>1, <1>2, <1>3

-----------------------------------------------------------------------------
(***************************************************************************)
(* The store implements EepStore.                                          *)
(***************************************************************************)
Pending == IF Writing THEN op ELSE NoVal

LEMMA OpIsNoNoVal == IInv => op # NoVal /\ (Writing => op.id \in AllIds)
<1> SUFFICES ASSUME IInv PROVE op # NoVal /\ op.id \in AllIds
    OBVIOUS
<1>1. op \in [id: AllIds, val: Values \union Versions \union {Torn}]
    BY DEF IInv, TypeOK
<1>2. op # NoVal
    BY <1>1, NoWriteAssumption DEF AllIds
<1> QED BY <1>1, <1>2

LEMMA BeginStep ==
    ASSUME NEW i \in AllIds, NEW v \in Values \union Versions,
           ~Writing, Writing', op' = [id |-> i, val |-> v], View' = View
    PROVE  Store!StoreNext
<1>1. Store!Begin(i, v)
    BY DEF Store!Begin
<1> QED BY <1>1 DEF Store!StoreNext

LEMMA StutterStep ==
    ASSUME View' = View, Pending' = Pending
    PROVE  UNCHANGED Store!storeVars
BY DEF Pending, Store!storeVars

LEMMA StepRefines ==
    ASSUME IInv, IInv', CopyInv, FormatNotInterrupted, [Next]_vars
    PROVE  [Store!StoreNext]_(Store!storeVars)
<1>1. ASSUME NEW i \in Ids, NEW v \in Values, WriteCfg(i, v)
      PROVE  Store!StoreNext
    <2>1. ~Writing /\ Writing' /\ op' = [id |-> i, val |-> v] /\ i \in AllIds
        BY <1>1 DEF WriteCfg, BeginWrite, Writing, AllIds
    <2>2. UNCHANGED flash /\ ~Formatting /\ ~Formatting'
        BY <1>1 DEF WriteCfg, BeginWrite, Formatting, flash
    <2> QED BY <2>1, <2>2, SameFlashView, BeginStep
<1>2. ASSUME NEW v \in Versions, BootSupported(v)
      PROVE  Store!StoreNext \/ UNCHANGED Store!storeVars
    <2>1. UNCHANGED flash /\ ~Formatting /\ ~Formatting' /\ ~Writing
        BY <1>2 DEF BootSupported, BeginWrite, Formatting, Writing, flash
    <2>2. View' = View
        BY <2>1, SameFlashView
    <2>3. CASE pc' = "idle"
        <3>1. ~Writing'
            BY <2>3 DEF Writing
        <3> QED BY <2>1, <2>2, <3>1, StutterStep DEF Pending
    <2>4. CASE pc' # "idle"
        <3>1. Writing' /\ op' = [id |-> Ver, val |-> v] /\ Ver \in AllIds
            BY <1>2, <2>4 DEF BootSupported, BeginWrite, Writing, AllIds
        <3> QED BY <2>1, <2>2, <3>1, BeginStep
    <2> QED BY <2>3, <2>4
<1>3. CASE WriteHeader
    <2>1. Writing /\ Writing' /\ op' = op
        BY <1>3 DEF WriteHeader, Writing
    <2>2. View' = [View EXCEPT ![op.id] = Torn]
        BY <1>3, WriteHeaderView
    <2>3. Store!Tear
        BY <2>1, <2>2, OpIsNoNoVal DEF Store!Tear
    <2> QED BY <2>3 DEF Store!StoreNext
<1>4. CASE WriteData
    <2>1. Writing /\ ~Writing'
        BY <1>4 DEF WriteData, Writing
    <2>2. View[op.id] = Torn /\ View' = [View EXCEPT ![op.id] = op.val]
        BY <1>4, WriteDataView
    <2>3. Store!Put
        BY <2>1, <2>2, OpIsNoNoVal DEF Store!Put
    <2> QED BY <2>3 DEF Store!StoreNext
<1>5. CASE PackErase \/ PackBusy \/ PackCopy \/ PackEraseOld
    BY <1>5, PackView, StutterStep DEF Pending
<1>6. CASE PackCommit
    <2>1. Writing /\ Writing' /\ op' = op
        BY <1>6 DEF PackCommit, Writing
    <2>2. \E kept \in {{}} \union {{j} : j \in AllIds \ {op.id}} :
             View' = [j \in AllIds |-> IF j \in kept THEN View[j] ELSE NoVal]
        BY <1>6, PackCommitView
    <2>3. Store!Compact
        BY <2>1, <2>2, OpIsNoNoVal DEF Store!Compact
    <2> QED BY <2>3 DEF Store!StoreNext
<1>7. CASE BootFirstStart
    <2>1. ~Writing /\ ~Writing'
        BY <1>7 DEF BootFirstStart, Writing
    <2> QED BY <1>7, <2>1, BootFirstStartView, StutterStep DEF Pending
<1>8. CASE BootFormat
    <2>1. ~Writing /\ ~Writing'
        BY <1>8 DEF BootFormat, Writing
    <2>2. Store!Wipe
        BY <1>8, <2>1, FormatView DEF Store!Wipe
    <2> QED BY <2>2 DEF Store!StoreNext
<1>9. CASE FormatErase
    <2>1. ~Writing /\ ~Writing'
        BY <1>9 DEF FormatErase, Writing
    <2> QED BY <1>9, <2>1, FormatView, StutterStep DEF Pending
<1>10. ASSUME NEW v \in Versions, FormatGen(v)
       PROVE  Store!StoreNext \/ UNCHANGED Store!storeVars
    <2>1. View' = View /\ ~Writing
        BY <1>10, FormatView DEF FormatGen, Writing
    <2>2. CASE scan < NBanks - 1
        <3>1. ~Writing'
            BY <1>10, <2>2 DEF FormatGen, Writing
        <3> QED BY <2>1, <3>1, StutterStep DEF Pending
    <2>3. CASE ~(scan < NBanks - 1)
        <3>1. Writing' /\ op' = [id |-> Ver, val |-> v] /\ Ver \in AllIds
            BY <1>10, <2>3 DEF FormatGen, Writing, AllIds
        <3> QED BY <2>1, <3>1, BeginStep
    <2> QED BY <2>2, <2>3
<1>11. CASE Crash
    <2>1. UNCHANGED flash /\ ~Formatting /\ ~Formatting' /\ ~Writing'
        BY <1>11 DEF Crash, Formatting, Writing, flash, FormatNotInterrupted
    <2>2. View' = View
        BY <2>1, SameFlashView
    <2>3. Store!Lose
        BY <2>1, <2>2 DEF Store!Lose
    <2> QED BY <2>3 DEF Store!StoreNext
<1>12. CASE (\E i \in Ids, v \in Values : WriteIdentical(i, v)) \/ UNCHANGED vars
    <2>1. UNCHANGED <<gen, bank, pc, op>>
        BY <1>12 DEF WriteIdentical, vars
    <2>2. Pending' = Pending /\ View' = View
        BY <2>1 DEF Pending, Writing, View, Read, Places, Latest, Current
    <2> QED BY <2>2, StutterStep
<1> QED BY <1>1, <1>2, <1>3, <1>4, <1>5, <1>6, <1>7, <1>8, <1>9, <1>10, <1>11, <1>12 DEF Next

LEMMA CopyInvariance == FormatNotInterrupted => (Spec => [](IInv /\ CopyInv))
<1> SUFFICES ASSUME FormatNotInterrupted PROVE Spec => [](IInv /\ CopyInv)
    OBVIOUS
<1>1. Init => IInv /\ CopyInv
    BY InitInv DEF Init, CopyInv
<1>2. IInv /\ CopyInv /\ [Next]_vars => (IInv /\ CopyInv)'
    BY StepInv, CopyStep
<1> QED BY <1>1, <1>2, PTL DEF Spec

(* The store implements the map that EepStore promises, whatever the power *)
(* loses, as long as it does not fail in the format loop.                  *)
THEOREM StoreImplemented == FormatNotInterrupted => (Spec => ImplementsStore)
<1> SUFFICES ASSUME FormatNotInterrupted PROVE Spec => ImplementsStore
    OBVIOUS
<1>1. Init => Store!StoreInit
    <2> SUFFICES ASSUME Init PROVE Store!StoreInit
        OBVIOUS
    <2>1. ~Writing /\ ~Formatting
        BY DEF Init, Writing, Formatting
    <2>2. Current \in Banks
        BY InitInv, CurrentFacts DEF IInv
    <2>3. bank[Current] = <<>>
        BY <2>2 DEF Init
    <2>4. View = [i \in AllIds |-> NoVal]
        BY <2>1, <2>3, ViewIs, ReadBlank
    <2> QED BY <2>1, <2>4 DEF Store!StoreInit
<1>2. IInv /\ CopyInv /\ IInv' /\ [Next]_vars => [Store!StoreNext]_(Store!storeVars)
    BY StepRefines
<1> QED BY <1>1, <1>2, CopyInvariance, PTL DEF Spec, ImplementsStore, Store!StoreSpec

(* What is read is what was written last, in every state of the store: no  *)
(* compaction, power loss or format brings an older value back.            *)
NoneStale == \A i \in AllIds : View[i] \in Values \union Versions => View[i] = acked[i]

LEMMA StepNotStale ==
    ASSUME IInv, IInv', CopyInv, NoneStale, FormatNotInterrupted, [Next]_vars
    PROVE  NoneStale'
<1>1. ASSUME View' = View, UNCHANGED acked PROVE NoneStale'
    BY <1>1 DEF NoneStale
<1>2. ASSUME \A i \in AllIds : View'[i] \in {NoVal, View[i]}, UNCHANGED acked PROVE NoneStale'
    BY <1>2, IdsAssumption DEF NoneStale
<1>3. ASSUME NEW i \in Ids, NEW v \in Values, WriteCfg(i, v) PROVE NoneStale'
    <2>1. UNCHANGED flash /\ ~Formatting /\ ~Formatting' /\ UNCHANGED acked
        BY <1>3 DEF WriteCfg, BeginWrite, Formatting, flash
    <2> QED BY <1>1, <2>1, SameFlashView
<1>4. ASSUME NEW v \in Versions, BootSupported(v) PROVE NoneStale'
    <2>1. UNCHANGED flash /\ ~Formatting /\ ~Formatting' /\ UNCHANGED acked
        BY <1>4 DEF BootSupported, BeginWrite, Formatting, flash
    <2> QED BY <1>1, <2>1, SameFlashView
<1>5. CASE Crash
    <2>1. UNCHANGED flash /\ ~Formatting /\ ~Formatting' /\ UNCHANGED acked
        BY <1>5 DEF Crash, Formatting, flash, FormatNotInterrupted
    <2> QED BY <1>1, <2>1, SameFlashView
<1>6. CASE WriteHeader
    <2>1. View' = [View EXCEPT ![op.id] = Torn] /\ UNCHANGED acked
        BY <1>6, WriteHeaderView DEF WriteHeader
    <2>2. \A i \in AllIds : View'[i] \in {Torn, View[i]}
        BY <2>1, ViewIs
    <2> QED BY <2>1, <2>2, IdsAssumption DEF NoneStale
<1>7. CASE WriteData
    <2>1. View' = [View EXCEPT ![op.id] = op.val] /\ acked' = [acked EXCEPT ![op.id] = op.val]
        BY <1>7, WriteDataView DEF WriteData
    <2>2. DOMAIN View = AllIds /\ DOMAIN acked = AllIds
        BY ViewIs DEF IInv, TypeOK
    <2> QED BY <2>1, <2>2 DEF NoneStale
<1>8. CASE PackErase \/ PackBusy \/ PackCopy \/ PackEraseOld
    BY <1>1, <1>8, PackView DEF PackErase, PackBusy, PackCopy, PackEraseOld
<1>9. CASE PackCommit
    <2>1. \A i \in AllIds : View'[i] \in {NoVal, View[i]}
        BY <1>9, PackCommitView
    <2> QED BY <1>2, <1>9, <2>1 DEF PackCommit
<1>10. CASE BootFirstStart
    BY <1>1, <1>10, BootFirstStartView DEF BootFirstStart
<1>11. CASE BootFormat
    BY <1>11, FormatView, IdsAssumption DEF NoneStale
<1>12. CASE FormatErase
    BY <1>1, <1>12, FormatView DEF FormatErase
<1>13. ASSUME NEW v \in Versions, FormatGen(v) PROVE NoneStale'
    BY <1>1, <1>13, FormatView DEF FormatGen
<1>14. ASSUME NEW i \in Ids, NEW v \in Values, WriteIdentical(i, v) PROVE NoneStale'
    <2>1. UNCHANGED flash /\ ~Formatting /\ ~Formatting' /\ i \in AllIds
        BY <1>14 DEF WriteIdentical, Formatting, flash, AllIds
    <2>2. View' = View
        BY <2>1, SameFlashView
    <2>3. View[i] = v /\ acked' = [acked EXCEPT ![i] = v]
        BY <1>14, <2>1 DEF WriteIdentical, View, Formatting
    <2>4. DOMAIN acked = AllIds
        BY DEF IInv, TypeOK
    <2> QED BY <2>1, <2>2, <2>3, <2>4 DEF NoneStale
<1>15. CASE UNCHANGED vars
    <2>1. View' = View
        BY <1>15 DEF vars, View, Read, Places, Latest, Current
    <2> QED BY <1>1, <1>15, <2>1 DEF vars
<1> QED BY <1>3, <1>4, <1>5, <1>6, <1>7, <1>8, <1>9, <1>10, <1>11, <1>12, <1>13, <1>14, <1>15 DEF Next

(* A value read back is the one whose write returned last.                 *)
THEOREM ReadsNotStale == FormatNotInterrupted => (Spec => []NoStaleRead)
<1> SUFFICES ASSUME FormatNotInterrupted PROVE Spec => []NoStaleRead
    OBVIOUS
<1>1. Init => NoneStale
    <2> SUFFICES ASSUME Init PROVE NoneStale
        OBVIOUS
    <2>1. Current \in Banks
        BY InitInv, CurrentFacts DEF IInv
    <2>2. bank[Current] = <<>> /\ ~Formatting
        BY <2>1 DEF Init, Formatting
    <2> QED BY <2>2, ViewIs, ReadBlank, IdsAssumption DEF NoneStale
<1>2. IInv /\ CopyInv /\ IInv' /\ NoneStale /\ [Next]_vars => NoneStale'
    BY StepNotStale
<1>3. NoneStale => NoStaleRead
    <2> SUFFICES ASSUME NoneStale, pc = "idle" PROVE \A i \in AllIds : View[i] = Read(i)
        BY DEF NoneStale, NoStaleRead
    <2> QED BY DEF View
<1> QED BY <1>1, <1>2, <1>3, CopyInvariance, PTL DEF Spec

-----------------------------------------------------------------------------
(***************************************************************************)
(* How long the store can be busy.                                         *)
(***************************************************************************)

(* A bound of the steps until the store is idle again, if the power does   *)
(* not fail: a record takes two, a compaction one for each record of a     *)
(* bank and five more, a format two for each bank.                         *)
BootWork == 2 * NBanks + BankRecs + 10

WorkLeft ==
    CASE pc = "boot"     -> IF gen[Current] = Erased THEN BootWork + 1 ELSE BootWork
      [] pc = "fmtErase" -> 2 * (NBanks - scan) + 3
      [] pc = "fmtGen"   -> 2 * (NBanks - scan) + 2
      [] pc = "erase"    -> BankRecs + 8
      [] pc = "busy"     -> BankRecs + 7
      [] pc = "copy"     -> BankRecs + 6 - scan
      [] pc = "eraseOld" -> 4
      [] pc = "hdr"      -> 2
      [] pc = "data"     -> 1
      [] pc = "idle"     -> 0

(* The copy loop has not gone past the end of the old bank.                *)
ScanInv == pc = "copy" => scan <= Len(bank[seg]) + 1

LEMMA WorkIs ==
    /\ pc = "boot" => WorkLeft = IF gen[Current] = Erased THEN BootWork + 1 ELSE BootWork
    /\ pc = "fmtErase" => WorkLeft = 2 * (NBanks - scan) + 3
    /\ pc = "fmtGen" => WorkLeft = 2 * (NBanks - scan) + 2
    /\ pc = "erase" => WorkLeft = BankRecs + 8
    /\ pc = "busy" => WorkLeft = BankRecs + 7
    /\ pc = "copy" => WorkLeft = BankRecs + 6 - scan
    /\ pc = "eraseOld" => WorkLeft = 4
    /\ pc = "hdr" => WorkLeft = 2
    /\ pc = "data" => WorkLeft = 1
    /\ pc = "idle" => WorkLeft = 0
BY DEF WorkLeft

LEMMA WorkIsPrime ==
    /\ pc' = "boot" => WorkLeft' = IF (gen[Current])' = Erased THEN BootWork + 1 ELSE BootWork
    /\ pc' = "fmtErase" => WorkLeft' = 2 * (NBanks - scan') + 3
    /\ pc' = "fmtGen" => WorkLeft' = 2 * (NBanks - scan') + 2
    /\ pc' = "erase" => WorkLeft' = BankRecs + 8
    /\ pc' = "busy" => WorkLeft' = BankRecs + 7
    /\ pc' = "copy" => WorkLeft' = BankRecs + 6 - scan'
    /\ pc' = "eraseOld" => WorkLeft' = 4
    /\ pc' = "hdr" => WorkLeft' = 2
    /\ pc' = "data" => WorkLeft' = 1
    /\ pc' = "idle" => WorkLeft' = 0
BY DEF WorkLeft, Erased

LEMMA ScanStep == IInv /\ ScanInv /\ [Next]_vars => ScanInv'
<1> SUFFICES ASSUME IInv, ScanInv, [Next]_vars, pc' = "copy"
             PROVE  scan' <= (Len(bank[seg]))' + 1
    BY DEF ScanInv
<1>t. seg \in Banks /\ NewSeg \in Banks /\ NewSeg # seg /\ bank \in [Banks -> Seq(Record)]
    BY NewSegFacts DEF IInv, TypeOK
<1>1. CASE PackBusy
    <2>1. scan' = 1 /\ bank'[seg'] = bank[seg] /\ Len(bank[seg]) \in Nat
        BY <1>1, <1>t DEF PackBusy
    <2> QED BY <2>1
<1>2. CASE PackCopy
    <2>1. scan' = scan + 1 /\ scan <= Len(bank[seg]) /\ scan \in Nat /\ seg' = seg
        BY <1>2 DEF PackCopy, IInv, TypeOK
    <2>2. bank'[seg] = bank[seg] /\ Len(bank[seg]) \in Nat
        BY <1>2, <1>t DEF PackCopy
    <2> QED BY <2>1, <2>2
<1>3. CASE UNCHANGED vars
    BY <1>3 DEF vars, ScanInv
<1> QED BY <1>1, <1>2, <1>3
    DEF Next, WriteCfg, BeginWrite, WriteIdentical, WriteHeader, WriteData, PackErase,
        PackCommit, PackEraseOld, BootFirstStart, BootFormat, FormatErase, BootSupported,
        FormatGen, Crash

LEMMA WorkTyped ==
    ASSUME IInv, ScanInv
    PROVE  WorkLeft \in 0 .. BootWork + 1
<1>t. NBanks \in Nat /\ BankRecs \in Nat /\ NBanks >= 2 /\ BankRecs >= 2
    BY BanksAssumption, SizesAssumption
<1>1. CASE pc = "copy"
    <2>1. seg \in Banks /\ Len(bank[seg]) \in Nat /\ Len(bank[seg]) <= BankRecs /\ scan \in Nat
        BY DEF IInv, TypeOK
    <2> QED BY <1>1, <1>t, <2>1, WorkIs DEF ScanInv, BootWork
<1>2. CASE pc \in {"fmtErase", "fmtGen"}
    <2>1. scan \in 0 .. NBanks - 1
        BY <1>2 DEF IInv, FormatInv, Banks
    <2> QED BY <1>2, <1>t, <2>1, WorkIs DEF BootWork
<1>3. CASE pc = "boot"
    BY <1>3, <1>t, WorkIs DEF BootWork
<1>4. CASE pc \in {"erase", "busy", "eraseOld", "hdr", "data", "idle"}
    BY <1>4, <1>t, WorkIs DEF BootWork
<1>5. pc \in Steps
    BY DEF IInv, TypeOK
<1> QED BY <1>1, <1>2, <1>3, <1>4, <1>5 DEF Steps

LEMMA WorkStep ==
    ASSUME IInv, ScanInv, Running
    PROVE  WorkLeft' < WorkLeft
<1>t. /\ NBanks \in Nat /\ BankRecs \in Nat /\ NBanks >= 2 /\ BankRecs >= 2
      /\ scan \in Nat /\ BootWork \in Nat
    BY BanksAssumption, SizesAssumption DEF IInv, TypeOK, BootWork
<1>1. CASE WriteHeader
    BY <1>1, WorkIs, WorkIsPrime DEF WriteHeader
<1>2. CASE WriteData
    BY <1>2, WorkIs, WorkIsPrime DEF WriteData
<1>3. CASE PackErase
    BY <1>3, <1>t, WorkIs, WorkIsPrime DEF PackErase
<1>4. CASE PackBusy
    <2>1. pc = "busy" /\ pc' = "copy" /\ scan' = 1
        BY <1>4 DEF PackBusy
    <2> QED BY <2>1, <1>t, WorkIs, WorkIsPrime
<1>5. CASE PackCopy
    <2>1. pc = "copy" /\ pc' = "copy" /\ scan' = scan + 1
        BY <1>5 DEF PackCopy
    <2> QED BY <2>1, <1>t, WorkIs, WorkIsPrime
<1>6. CASE PackCommit
    <2>1. pc = "copy" /\ pc' = "eraseOld"
        BY <1>6 DEF PackCommit
    <2>2. seg \in Banks /\ Len(bank[seg]) \in Nat /\ Len(bank[seg]) <= BankRecs
        BY DEF IInv, TypeOK
    <2>3. scan <= BankRecs + 1
        BY <2>1, <2>2, <1>t DEF ScanInv
    <2> QED BY <2>1, <2>3, <1>t, WorkIs, WorkIsPrime
<1>7. CASE PackEraseOld
    <2>1. pc = "eraseOld" /\ pc' \in {"hdr", "idle"}
        BY <1>7 DEF PackEraseOld
    <2> QED BY <2>1, WorkIs, WorkIsPrime
<1>8. CASE BootFirstStart
    <2>1. pc = "boot" /\ pc' = "boot" /\ gen[Current] = Erased /\ gen' = [gen EXCEPT ![Current] = Busy]
        BY <1>8 DEF BootFirstStart
    <2>2. Current \in Banks /\ gen'[Current] = Busy
        BY <2>1, CurrentFacts DEF IInv, TypeOK
    <2>3. IInv'
        BY <1>8, BootFirstStartInv
    <2>4. \A b \in Banks : (gen[Current])' <= gen'[b]
        <3>1. gen' \in [Banks -> Nat]
            BY <2>3, CounterFacts DEF IInv, TypeOK
        <3>2. Current' \in Banks /\ IsCurrent(Current)'
            BY <3>1, FirstMinimum DEF Current, IsCurrent
        <3> QED BY <3>1, <3>2 DEF IsCurrent
    <2>5. (gen[Current])' # Erased
        BY <2>2, <2>4, CounterFacts
    <2> QED BY <2>1, <2>5, <1>t, WorkIs, WorkIsPrime
<1>9. CASE BootFormat
    <2>1. pc = "boot" /\ pc' = "fmtErase" /\ scan' = 0
        BY <1>9 DEF BootFormat
    <2> QED BY <2>1, <1>t, WorkIs, WorkIsPrime DEF BootWork
<1>10. CASE FormatErase
    <2>1. pc = "fmtErase" /\ pc' = "fmtGen" /\ scan' = scan
        BY <1>10 DEF FormatErase
    <2> QED BY <2>1, <1>t, WorkIs, WorkIsPrime
<1>11. ASSUME NEW v \in Versions, BootSupported(v) PROVE WorkLeft' < WorkLeft
    <2>1. pc = "boot" /\ pc' \in {"idle", "hdr", "erase"}
        BY <1>11 DEF BootSupported, BeginWrite
    <2> QED BY <2>1, <1>t, WorkIs, WorkIsPrime DEF BootWork
<1>12. ASSUME NEW v \in Versions, FormatGen(v) PROVE WorkLeft' < WorkLeft
    <2>1. /\ pc = "fmtGen"
          /\ IF scan < NBanks - 1 THEN pc' = "fmtErase" /\ scan' = scan + 1 ELSE pc' = "hdr"
        BY <1>12 DEF FormatGen
    <2>2. scan <= NBanks - 1
        BY <2>1, <1>t DEF IInv, FormatInv, Banks
    <2>3. CASE scan < NBanks - 1
        BY <2>1, <2>3, <1>t, WorkIs, WorkIsPrime
    <2>4. CASE ~(scan < NBanks - 1)
        BY <2>1, <2>2, <2>4, <1>t, WorkIs, WorkIsPrime
    <2> QED BY <2>3, <2>4
<1> QED BY <1>1, <1>2, <1>3, <1>4, <1>5, <1>6, <1>7, <1>8, <1>9, <1>10, <1>11, <1>12
    DEF Running

(* Whatever the store is doing, each step of flash_eep.c brings it nearer  *)
(* to idle: no start-up, compaction or format runs in circles, and without *)
(* a power loss each ends within BootWork + 1 flash operations.            *)
THEOREM BusyForBoundedTime ==
    FormatNotInterrupted =>
        (Spec => /\ [](WorkLeft \in 0 .. BootWork + 1)
                 /\ [][Running => WorkLeft' < WorkLeft]_vars)
<1> SUFFICES ASSUME FormatNotInterrupted
             PROVE  Spec => /\ [](WorkLeft \in 0 .. BootWork + 1)
                            /\ [][Running => WorkLeft' < WorkLeft]_vars
    OBVIOUS
<1>1. Init => ScanInv
    BY DEF Init, ScanInv
<1>2. IInv /\ ScanInv /\ [Next]_vars => ScanInv'
    BY ScanStep
<1>3. IInv /\ ScanInv => WorkLeft \in 0 .. BootWork + 1
    BY WorkTyped
<1>4. IInv /\ ScanInv /\ [Next]_vars => [Running => WorkLeft' < WorkLeft]_vars
    BY WorkStep
<1> QED BY <1>1, <1>2, <1>3, <1>4, Invariance, PTL DEF Spec
=============================================================================

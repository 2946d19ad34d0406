----------------------------- MODULE ClockProofs -----------------------------
(* Proofs about Clock, for every size of the counter, every calibration of *)
(* the tick and every length of a second.                                  *)
EXTENDS Clock, TLAPS

-----------------------------------------------------------------------------
(* Arithmetic                                                              *)

LEMMA DivMod ==
    ASSUME NEW a \in Int, NEW w \in Nat \ {0}
    PROVE  \E q \in Int, r \in 0..(w - 1) :
             q = a \div w /\ r = a % w /\ a = w * q + r
<1>1. a \div w \in Int /\ a % w \in 0..(w - 1)
  OBVIOUS
<1>2. \A q, r \in Int : q = a \div w /\ r = a % w => a = w * q + r
  OBVIOUS
<1> QED
  BY <1>1, <1>2

LEMMA AtLeast ==
    ASSUME NEW x \in Int, NEW w \in Nat \ {0}, x >= 1
    PROVE  x * w >= w
OBVIOUS

LEMMA Reorder ==
    ASSUME NEW a \in Int, NEW b \in Int, NEW c \in Int, NEW d \in Int
    PROVE  (a * b * c) * d = a * (c * d * b)
OBVIOUS

LEMMA Distribute ==
    ASSUME NEW a \in Int, NEW b \in Int, NEW c \in Int
    PROVE  a * (b + c) = a * b + a * c
OBVIOUS

(* The quotient and the remainder are the only ones.                       *)
LEMMA Remainder ==
    ASSUME NEW a \in Int, NEW w \in Nat \ {0}, NEW q \in Int, NEW r \in 0..(w - 1),
           a = q * w + r
    PROVE  a % w = r
<1>1. PICK d \in Int, e \in 0..(w - 1) : d = a \div w /\ e = a % w /\ a = w * d + e
  BY DivMod
<1>2. (q - d) * w = e - r
  BY <1>1
<1>3. ~ (q - d >= 1)
  <2>1. q - d \in Int
    BY <1>1
  <2>2. ASSUME q - d >= 1 PROVE (q - d) * w >= w
    BY <2>1, <2>2, AtLeast
  <2> QED BY <1>1, <1>2, <2>2
<1>4. ~ (d - q >= 1)
  <2>1. d - q \in Int /\ (d - q) * w = r - e
    BY <1>1
  <2>2. ASSUME d - q >= 1 PROVE (d - q) * w >= w
    BY <2>1, <2>2, AtLeast
  <2> QED BY <1>1, <2>1, <2>2
<1>5. d = q
  BY <1>1, <1>3, <1>4
<1> QED
  BY <1>1, <1>5

LEMMA Small ==
    ASSUME NEW w \in Nat \ {0}, NEW a \in 0..(w - 1)
    PROVE  a % w = a
<1>1. PICK q \in Int, r \in 0..(w - 1) : q = a \div w /\ r = a % w /\ a = w * q + r
  BY DivMod
<1>2. ~ (q >= 1) /\ ~ (-q >= 1)
  BY <1>1, AtLeast
<1>3. q = 0
  BY <1>1, <1>2
<1> QED
  BY <1>1, <1>3

LEMMA Shifted ==
    ASSUME NEW a \in Nat, NEW w \in Nat \ {0}, NEW q \in Int
    PROVE  /\ (a - q * w) % w \in 0..(w - 1)
           /\ (a - q * w) % w <= a
           /\ a < w => (a - q * w) % w = a
<1>1. PICK d \in Int, e \in 0..(w - 1) : d = a \div w /\ e = a % w /\ a = w * d + e
  BY DivMod
<1>2. (a - q * w) % w = e
  <2>1. d - q \in Int /\ a - q * w \in Int /\ a - q * w = (d - q) * w + e
    BY <1>1
  <2> QED BY <1>1, <2>1, Remainder
<1>3. d >= 0
  <2>1. ASSUME -d >= 1 PROVE FALSE
    <3>1. (-d) * w >= w
      BY <1>1, <2>1, AtLeast
    <3> QED BY <1>1, <3>1
  <2> QED BY <1>1, <2>1
<1>4. e <= a
  BY <1>1, <1>3
<1>5. ASSUME a < w PROVE e = a
  <2>1. ~ (d >= 1)
    BY <1>1, <1>5, AtLeast
  <2>2. d = 0
    BY <1>1, <1>3, <2>1
  <2> QED BY <1>1, <2>2
<1> QED
  BY <1>1, <1>2, <1>4, <1>5
(* A reading takes the ticks since the last one, or one less, once the     *)
(* counter has gone round or not, while they are fewer than the window.    *)
LEMMA DeltaBounds ==
    ASSUME NEW old \in 0..(CounterMod - 1), NEW g \in Nat, NEW new,
           new = (old + g) % CounterMod
    PROVE  /\ Delta(new, old) \in Nat /\ Delta(new, old) <= g
           /\ g < Window => Delta(new, old) >= g - 1
           /\ new = old /\ g < Window => Delta(new, old) = g
<1>1. PICK m \in Int : CounterMod = m * Window
  <2>1. CounterMod \in Int /\ Window \in Nat \ {0} /\ CounterMod % Window = 0
    BY ClockAssumption
  <2>2. PICK q \in Int, r \in 0..(Window - 1) :
          q = CounterMod \div Window /\ r = CounterMod % Window /\ CounterMod = Window * q + r
    BY <2>1, DivMod
  <2> QED BY <2>1, <2>2
<1>2. PICK k \in Int : old + g = CounterMod * k + new /\ new \in 0..(CounterMod - 1)
  <2>1. PICK q \in Int, r \in 0..(CounterMod - 1) :
          q = (old + g) \div CounterMod /\ r = (old + g) % CounterMod /\ old + g = CounterMod * q + r
    BY DivMod, ClockAssumption
  <2> QED BY <2>1
<1> DEFINE n == k * m
<1>3. n \in Int /\ new - old = g - n * Window
  <2>1. CounterMod \in Int /\ Window \in Int /\ n \in Int
    BY ClockAssumption
  <2>2. CounterMod * k = n * Window
    BY <1>1, <2>1
  <2>3. n * Window \in Int
    BY <2>1
  <2> QED BY <1>2, <2>1, <2>2, <2>3
<1> HIDE DEF n
<1>4. CASE new <= old
  <2>1. Delta(new, old) = (g - n * Window) % Window
    <3>1. Delta(new, old) = (new - old) % Window
      BY <1>4, Zenon DEF Delta
    <3>2. new - old = g - n * Window
      BY <1>3
    <3> QED BY <3>1, <3>2, Zenon
  <2>2. /\ (g - n * Window) % Window \in 0..(Window - 1)
        /\ (g - n * Window) % Window <= g
        /\ g < Window => (g - n * Window) % Window = g
    BY <1>3, Shifted, ClockAssumption
  <2>3. \A v : v = Delta(new, old) =>
            v \in 0..(Window - 1) /\ v <= g /\ (g < Window => v = g)
    BY <2>1, <2>2, Zenon
  <2>4. Delta(new, old) \in 0..(Window - 1) /\ Delta(new, old) <= g /\ (g < Window => Delta(new, old) = g)
    BY <2>3
  <2>5. Window \in Nat
    BY ClockAssumption
  <2> QED BY <2>4, <2>5
<1>5. CASE ~ (new <= old)
  <2>1. g >= 1 /\ g - 1 \in Nat
    <3>1. ~ (g = 0)
      <4>1. ASSUME g = 0 PROVE FALSE
        <5>1. old % CounterMod = old
          BY Small, ClockAssumption
        <5> QED BY <4>1, <5>1, <1>5, <1>2
      <4> QED BY <4>1
    <3> QED BY <3>1
  <2>2. Delta(new, old) = ((g - 1) - n * Window) % Window
    <3>1. new \in Int /\ old \in Int /\ n * Window \in Int
      BY <1>2, <1>3, ClockAssumption
    <3>2. new - old - 1 = (g - 1) - n * Window
      BY <1>3, <3>1
    <3> QED BY <3>2, <1>5, Zenon DEF Delta
  <2> QED BY <1>2, <1>3, <1>5, <2>1, <2>2, Shifted, ClockAssumption
<1> QED
  BY <1>4, <1>5

(* The conversion rounds down to a microsecond, once.                      *)
LEMMA MicrosBounds ==
    ASSUME NEW d \in Nat
    PROVE  /\ Micros(d) \in Nat
           /\ Scale * Micros(d) <= d * Avg
           /\ d * Avg < Scale * Micros(d) + Scale
<1>1. PICK h \in Int, l \in 0..(Half - 1) : h = d \div Half /\ l = d % Half /\ d = Half * h + l
  BY DivMod, ClockAssumption
<1>2. PICK s \in Int : s = Half \div Scale /\ Half = Scale * s
  <2>1. PICK q \in Int, r \in 0..(Scale - 1) :
          q = Half \div Scale /\ r = Half % Scale /\ Half = Scale * q + r
    BY DivMod, ClockAssumption
  <2> QED BY <2>1, ClockAssumption
<1>3. l * Avg \in Int
  BY <1>1, ClockAssumption
<1>4. PICK x \in Int, y \in 0..(Scale - 1) :
        x = (l * Avg) \div Scale /\ l * Avg = Scale * x + y
  BY <1>3, DivMod, ClockAssumption
<1>5. h >= 0
  <2>1. ASSUME -h >= 1 PROVE FALSE
    <3>1. (-h) * Half >= Half
      BY <1>1, <2>1, AtLeast, ClockAssumption
    <3> QED BY <1>1, <3>1, ClockAssumption
  <2> QED BY <1>1, <2>1
<1>6. s >= 0
  <2>1. ASSUME -s >= 1 PROVE FALSE
    <3>1. (-s) * Scale >= Scale
      BY <1>2, <2>1, AtLeast, ClockAssumption
    <3> QED BY <1>2, <3>1, ClockAssumption
  <2> QED BY <1>2, <2>1
<1>7. x >= 0
  <2>1. ASSUME -x >= 1 PROVE FALSE
    <3>1. (-x) * Scale >= Scale
      BY <1>4, <2>1, AtLeast, ClockAssumption
    <3>2. l * Avg >= 0
      BY <1>1, ClockAssumption
    <3> QED BY <1>4, <3>1, <3>2, ClockAssumption
  <2> QED BY <1>4, <2>1
<1>8. h * Avg * s \in Nat
  <2>1. h * Avg \in Nat
    BY <1>5, ClockAssumption
  <2> QED BY <1>6, <2>1
<1>9. PICK u \in Nat : u = h * Avg * s
  BY <1>8
<1>10. Micros(d) = u + x
  <2>1. Micros(d) = h * Avg * s + x
    BY <1>1, <1>2, <1>4, Zenon DEF Micros
  <2> QED BY <1>9, <2>1
<1>11. d * Avg = Scale * u + l * Avg
  <2>1. Avg \in Int /\ Scale \in Int
    BY ClockAssumption
  <2>2. d * Avg = (Scale * s * h) * Avg + l * Avg
    BY <1>1, <1>2, <2>1
  <2>3. (Scale * s * h) * Avg = Scale * (h * Avg * s)
    BY <1>1, <1>2, <2>1, Reorder
  <2>4. Scale * (h * Avg * s) = Scale * u
    BY <1>9, Zenon
  <2> QED BY <2>2, <2>3, <2>4
<1>12. Scale * (u + x) = Scale * u + Scale * x
  BY <1>4, Distribute, ClockAssumption
<1>13. u + x \in Nat
  BY <1>4, <1>7
<1> QED
  BY <1>3, <1>4, <1>10, <1>11, <1>12, <1>13, ClockAssumption

LEMMA CarryBounds ==
    ASSUME NEW a \in Nat
    PROVE  /\ Carry(a) \in Nat
           /\ a - Carry(a) * Second \in 0..Second
<1>1. CASE a > Second
  <2>1. PICK q \in Int, r \in 0..(Second - 1) :
          q = (a - 1) \div Second /\ a - 1 = Second * q + r
    BY <1>1, DivMod, ClockAssumption
  <2>2. Carry(a) = q
    BY <1>1, <2>1 DEF Carry
  <2>3. q >= 0
    <3>1. ASSUME -q >= 1 PROVE FALSE
      <4>1. (-q) * Second >= Second
        BY <2>1, <3>1, AtLeast, ClockAssumption
      <4> QED BY <1>1, <2>1, <4>1, ClockAssumption
    <3> QED BY <2>1, <3>1
  <2> QED BY <2>1, <2>2, <2>3, ClockAssumption
<1>2. CASE ~ (a > Second)
  BY <1>2, ClockAssumption DEF Carry
<1> QED
  BY <1>1, <1>2
LEMMA Monotone ==
    ASSUME NEW x \in Nat, NEW y \in Nat, NEW c \in Nat, x <= y
    PROVE  x * c <= y * c
<1>1. (y - x) * c >= 0
  OBVIOUS
<1>2. (y - x) * c = y * c - x * c
  OBVIOUS
<1>3. x * c \in Int /\ y * c \in Int
  OBVIOUS
<1> QED
  BY <1>1, <1>2, <1>3

(* The counter, one tick later.                                            *)
LEMMA NextTick ==
    ASSUME NEW a \in Nat
    PROVE  ((a % CounterMod) + 1) % CounterMod = (a + 1) % CounterMod
<1>1. CounterMod \in Nat \ {0}
  BY ClockAssumption
<1>2. PICK q \in Int, r \in 0..(CounterMod - 1) :
        q = a \div CounterMod /\ r = a % CounterMod /\ a = CounterMod * q + r
  BY <1>1, DivMod
<1>3. PICK p \in Int, e \in 0..(CounterMod - 1) :
        p = (r + 1) \div CounterMod /\ e = (r + 1) % CounterMod /\ r + 1 = CounterMod * p + e
  BY <1>1, DivMod
<1>4. PICK z \in Int, x \in Int : x = a + 1 /\ z = q + p /\ x = z * CounterMod + e
  <2>1. CounterMod * (q + p) = CounterMod * q + CounterMod * p
    BY <1>1, Distribute
  <2>2. \A z, x \in Int : x = a + 1 /\ z = q + p => x = CounterMod * z + e
    BY <1>1, <1>2, <1>3, <2>1
  <2>3. \A z, x \in Int : x = a + 1 /\ z = q + p => x = z * CounterMod + e
    BY <1>1, <2>2
  <2>4. a + 1 \in Int /\ q + p \in Int
    OBVIOUS
  <2> QED BY <2>3, <2>4
<1>5. x % CounterMod = e
  BY <1>1, <1>4, Remainder
<1> QED
  BY <1>2, <1>3, <1>4, <1>5, Zenon

(* What a reading g ticks after the last makes of the clock.               *)
LEMMA ReadingEffect ==
    ASSUME NEW s \in Nat, NEW a \in Nat, NEW old \in 0..(CounterMod - 1), NEW g \in Nat,
           rtc = (old + g) % CounterMod, Reading(s, a, old, rtc)
    PROVE  /\ sec' \in Nat /\ add' \in 0..Second
           /\ saved' = [sec |-> sec', add |-> add'] /\ tik' = rtc
           /\ \E m \in Nat :
                /\ Stamp(sec', add') = Stamp(s, a) + m
                /\ Scale * m <= g * Avg
                /\ g < Window => g * Avg <= Scale * m + Avg + Scale
<1> DEFINE d == Delta(rtc, old)
           m == Micros(d)
           n == Carry(a + m)
<1>1. d \in Nat /\ d <= g /\ (g < Window => d >= g - 1)
  BY DeltaBounds
<1> HIDE DEF d
<1>2. m \in Nat /\ Scale * m <= d * Avg /\ d * Avg < Scale * m + Scale
  BY <1>1, MicrosBounds
<1> HIDE DEF m
<1>3. n \in Nat /\ (a + m) - n * Second \in 0..Second
  BY <1>2, CarryBounds
<1> HIDE DEF n
<1>4. sec' = s + n /\ add' = (a + m) - n * Second
      /\ saved' = [sec |-> sec', add |-> add'] /\ tik' = rtc
  BY Zenon DEF Reading, d, m, n
<1>5. Stamp(sec', add') = Stamp(s, a) + m
  <2>1. Second \in Nat
    BY ClockAssumption
  <2>2. (s + n) * Second = s * Second + n * Second
    BY <1>3, <2>1
  <2>3. s * Second \in Int /\ n * Second \in Int
    BY <1>3, <2>1
  <2> QED BY <1>2, <1>3, <1>4, <2>2, <2>3 DEF Stamp
<1>6. Scale * m <= g * Avg
  <2>1. d * Avg <= g * Avg
    BY <1>1, Monotone, ClockAssumption
  <2> QED BY <1>1, <1>2, <2>1, ClockAssumption
<1>7. ASSUME g < Window PROVE g * Avg <= Scale * m + Avg + Scale
  <2>1. g * Avg <= (d + 1) * Avg
    BY <1>1, <1>7, Monotone, ClockAssumption
  <2>2. (d + 1) * Avg = d * Avg + Avg
    BY <1>1, ClockAssumption
  <2> QED BY <1>1, <1>2, <2>1, <2>2, ClockAssumption
<1>8. sec' \in Nat /\ add' \in 0..Second
  BY <1>3, <1>4
<1> QED
  BY <1>2, <1>4, <1>5, <1>6, <1>7, <1>8
-----------------------------------------------------------------------------
(* Types                                                                   *)

CountType ==
    /\ now \in 0..MaxNow /\ rtc \in 0..(CounterMod - 1) /\ tik \in 0..(CounterMod - 1)
    /\ downs \in 0..MaxDowns
    /\ gap \in Nat /\ base \in Nat /\ ran \in Nat /\ readings \in Nat /\ starts \in Nat
    /\ was \in Nat

TimeType ==
    /\ sec \in Nat /\ rec \in Nat
    /\ add \in 0..(Second + Credit)
    /\ saved \in [sec : Nat, add : 0..Second]
    /\ open \in [cnt : 0..SecRecs, top : Nat]

HostType == host \in [phase : {"idle", "seen", "sent"}, time : Nat, at : 0..MaxNow]

FlagType == on \in BOOLEAN /\ missed \in BOOLEAN /\ synced \in BOOLEAN

(* The last reading's tick and the ticks since make up the counter.        *)
TickInv == on => rtc = (tik + gap) % CounterMod

(* The open sector has room, and its greatest time is none before the      *)
(* latest record while it has that record.                                 *)
LogInv ==
    /\ on => open.cnt < SecRecs
    /\ open.cnt = 0 => open.top = 0
    /\ open.cnt # 0 => rec <= open.top

TypeInv == CountType /\ TimeType /\ HostType /\ FlagType /\ TickInv /\ LogInv

Stays == UNCHANGED <<now, rtc, on, clkt, saved, open, rec, downs, gap, past, was>>

LEMMA TypeInit == Init => TypeInv
<1> SUFFICES ASSUME Init PROVE TypeInv
  OBVIOUS
<1>1. CountType
  BY ClockAssumption DEF Init, CountType
<1>2. TimeType
  BY ClockAssumption DEF Init, TimeType, Fresh
<1>3. HostType
  BY ClockAssumption DEF Init, HostType, Idle
<1>4. FlagType /\ TickInv /\ LogInv
  BY DEF Init, FlagType, TickInv, LogInv, Fresh
<1> QED
  BY <1>1, <1>2, <1>3, <1>4 DEF TypeInv

LEMMA RestoreType ==
    ASSUME TypeInv
    PROVE  /\ Restore.sec \in Nat /\ Restore.add \in 0..(Second + Credit)
           /\ Stamp(Restore.sec, Restore.add) \in Nat
<1>1. Restore.sec \in Nat /\ Restore.add \in 0..(Second + Credit)
  BY ClockAssumption DEF Restore, TypeInv, TimeType
<1>2. Stamp(Restore.sec, Restore.add) \in Nat
  BY <1>1, ClockAssumption DEF Stamp
<1> QED
  BY <1>1, <1>2

(* The host's time in whole seconds.                                       *)
LEMMA LocalTime ==
    ASSUME NEW t \in Nat
    PROVE  \E x \in Nat :
             /\ Local(t) = Epoch + x
             /\ Scale * (Second * x) <= t * Avg
             /\ t * Avg < Scale * (Second * x) + Scale * Second
<1>1. t * Avg \in Nat /\ Scale \in Nat \ {0} /\ Second \in Nat \ {0} /\ Epoch \in Nat
  BY ClockAssumption
<1>2. PICK w \in Nat : w = t * Avg
  BY <1>1
<1>3. PICK y \in Int, e \in 0..(Scale - 1) : y = w \div Scale /\ w = Scale * y + e
  BY <1>1, DivMod
<1>4. PICK x \in Int, f \in 0..(Second - 1) : x = y \div Second /\ y = Second * x + f
  BY <1>1, DivMod
<1>5. Local(t) = Epoch + x
  BY <1>2, <1>3, <1>4, Zenon DEF Local
<1>6. y >= 0
  <2>1. ASSUME -y >= 1 PROVE FALSE
    <3>1. (-y) * Scale >= Scale
      BY <1>1, <2>1, AtLeast
    <3> QED BY <1>1, <1>3, <3>1
  <2> QED BY <2>1
<1>7. x >= 0
  <2>1. ASSUME -x >= 1 PROVE FALSE
    <3>1. (-x) * Second >= Second
      BY <1>1, <2>1, AtLeast
    <3> QED BY <1>1, <1>4, <1>6, <3>1
  <2> QED BY <2>1
<1>8. PICK z \in Int : z = Second * x
  BY <1>1
<1>9. Scale * y = Scale * z + Scale * f
  BY <1>1, <1>4, <1>8, Distribute
<1>10. Scale * f >= 0 /\ Scale * f <= Scale * Second - Scale
  <2>1. f * Scale <= (Second - 1) * Scale
    BY <1>1, Monotone
  <2>2. (Second - 1) * Scale = Scale * Second - Scale
    BY <1>1
  <2> QED BY <1>1, <2>1, <2>2
<1>11. Scale * z <= w /\ w < Scale * z + Scale * Second
  BY <1>1, <1>3, <1>9, <1>10
<1> QED
  BY <1>2, <1>5, <1>7, <1>8, <1>11

LEMMA WrittenType ==
    ASSUME TypeInv, on
    PROVE  /\ Written \in [cnt : 0..SecRecs, top : Nat]
           /\ Written.cnt # 0 /\ sec <= Written.top
           /\ Written.top = 0 => sec = 0
           /\ Written.cnt # SecRecs => Written.cnt < SecRecs
BY ClockAssumption DEF Written, TypeInv, TimeType, LogInv

LEMMA TypeStep == TypeInv /\ [Next]_vars => TypeInv'
<1> SUFFICES ASSUME TypeInv, [Next]_vars PROVE TypeInv'
  OBVIOUS
<1>1. CASE Read
  <2>1. /\ sec' \in Nat /\ add' \in 0..Second
        /\ saved' = [sec |-> sec', add |-> add'] /\ tik' = rtc
    <3>1. sec \in Nat /\ add \in Nat /\ tik \in 0..(CounterMod - 1) /\ gap \in Nat
          /\ rtc = (tik + gap) % CounterMod
      BY <1>1, ClockAssumption DEF TypeInv, CountType, TimeType, TickInv, Read
    <3> QED BY <1>1, <3>1, ReadingEffect DEF Read
  <2>2. CountType'
    BY <1>1, <2>1 DEF Read, TypeInv, CountType
  <2>3. TimeType'
    BY <1>1, <2>1, ClockAssumption DEF Read, TypeInv, TimeType
  <2>4. HostType' /\ FlagType'
    BY <1>1 DEF Read, TypeInv, HostType, FlagType
  <2>5. TickInv'
    BY <1>1, <2>1, Small, ClockAssumption DEF Read, TypeInv, CountType, TickInv
  <2>6. LogInv'
    BY <1>1 DEF Read, TypeInv, LogInv
  <2> QED BY <2>2, <2>3, <2>4, <2>5, <2>6 DEF TypeInv
<1>2. CASE Record \/ ClearMemo
  <2>1. Fresh \in [cnt : 0..SecRecs, top : Nat] /\ Fresh.cnt = 0 /\ Fresh.top = 0
    BY ClockAssumption DEF Fresh
  <2>2. CASE Record
    <3>1. on /\ rec' = sec /\ (open' = Fresh \/ (open' = Written /\ Written.cnt # SecRecs))
      BY <2>2, Zenon DEF Record
    <3>2. UNCHANGED <<on, sec, add, saved>>
      BY <2>2 DEF Record, clkt
    <3>3. TimeType' /\ LogInv'
      BY <2>1, <3>1, <3>2, WrittenType, ClockAssumption DEF TypeInv, TimeType, LogInv
    <3> QED BY <2>2, <3>3 DEF Record, clkt, past, TypeInv, CountType, HostType, FlagType, TickInv
  <2>3. CASE ClearMemo
    <3>1. TimeType' /\ LogInv'
      BY <2>1, <2>3, ClockAssumption DEF ClearMemo, clkt, TypeInv, TimeType, LogInv
    <3> QED BY <2>3, <3>1 DEF ClearMemo, clkt, past, TypeInv, CountType, HostType, FlagType, TickInv
  <2> QED BY <1>2, <2>2, <2>3
<1>3. CASE Start
  <2>1. CountType' /\ TimeType'
    <3>1. PICK s \in Nat, a \in 0..(Second + Credit), b \in Nat :
            s = Restore.sec /\ a = Restore.add /\ b = Stamp(s, a)
      BY RestoreType
    <3>2. sec' = s /\ add' = a /\ tik' = rtc /\ gap' = 0 /\ was' = 0
          /\ UNCHANGED <<now, rtc, saved, rec, downs>>
          /\ (open' = Fresh \/ open' = open)
      BY <1>3, <3>1 DEF Start
    <3>4. Fresh \in [cnt : 0..SecRecs, top : Nat]
      BY ClockAssumption DEF Fresh
    <3>3. base' \in Nat /\ ran' \in Nat /\ readings' \in Nat /\ starts' \in Nat
      <4>1. CASE saved.sec = 0
        <5>1. base' = Stamp(sec', add')
          BY <1>3, <4>1 DEF Start
        <5> QED BY <1>3, <3>1, <3>2, <4>1, <5>1 DEF Start
      <4>2. CASE saved.sec # 0
        BY <1>3, <4>2 DEF Start, TypeInv, CountType
      <4> QED BY <4>1, <4>2
    <3> QED BY <3>2, <3>3, <3>4 DEF TypeInv, CountType, TimeType
  <2>2. HostType' /\ FlagType'
    BY <1>3 DEF Start, TypeInv, HostType, FlagType
  <2>3. TickInv'
    BY <1>3, Small, ClockAssumption DEF Start, TypeInv, CountType, TickInv
  <2>4. LogInv'
    <3>1. rec' = rec /\ open' = IF open.cnt = SecRecs THEN Fresh ELSE open
      BY <1>3 DEF Start
    <3> QED BY <3>1, ClockAssumption DEF TypeInv, TimeType, LogInv, Fresh
  <2> QED BY <2>1, <2>2, <2>3, <2>4 DEF TypeInv
<1>4. CASE Down \/ CutRecord
  <2>0. Stops /\ ~ on'
    BY <1>4 DEF Down, CutRecord, Stops
  <2>1. TimeType' /\ LogInv'
    <3>1. saved' \in [sec : Nat, add : 0..Second]
      BY <1>4, ClockAssumption DEF Down, CutRecord, PowerLost, TypeInv, TimeType
    <3>2. CASE Down
      BY <2>0, <3>1, <3>2, ClockAssumption DEF Down, Stops, TypeInv, TimeType, LogInv
    <3>3. CASE CutRecord
      BY <2>0, <3>1, <3>3, WrittenType, ClockAssumption
         DEF CutRecord, Stops, TypeInv, TimeType, LogInv
    <3> QED BY <1>4, <3>2, <3>3
  <2>2. CountType'
    <3>1. Stamp(sec, add) \in Nat /\ Remembered \in Nat /\ Remembered' \in Nat
      <4>1. Second \in Nat /\ rec \in Nat /\ rec' \in Nat /\ sec \in Nat /\ add \in Nat
        BY <2>1, ClockAssumption DEF TypeInv, TimeType
      <4>2. \A x, y \in Nat : x * Second + y \in Nat
        BY <4>1
      <4>3. sec * Second + add \in Nat /\ rec * Second + 0 \in Nat /\ rec' * Second + 0 \in Nat
        BY <4>1, <4>2, Zenon
      <4> QED BY <4>3, Zenon DEF Remembered, Stamp
    <3>2. was' \in Nat
      BY <1>4, <3>1 DEF Down, CutRecord, PowerLost
    <3>3. rtc' \in 0..(CounterMod - 1)
      BY <1>4, ClockAssumption DEF Down, CutRecord, PowerLost, TypeInv, CountType
    <3> QED BY <2>0, <3>2, <3>3, ClockAssumption DEF Stops, past, TypeInv, CountType
  <2>3. HostType'
    BY <2>0, ClockAssumption DEF Stops, HostType, Idle
  <2>4. FlagType' /\ TickInv'
    BY <2>0 DEF Stops, past, TypeInv, FlagType, TickInv
  <2> QED BY <2>1, <2>2, <2>3, <2>4 DEF TypeInv
<1>5. ASSUME NEW t \in Nat, NEW by \in BOOLEAN, SetBy(t, by)
      PROVE  CountType' /\ TimeType' /\ FlagType' /\ TickInv' /\ LogInv'
  <2>1. /\ sec' \in Nat /\ add' \in 0..Second
        /\ saved' = [sec |-> sec', add |-> add'] /\ tik' = rtc
    <3>1. add \in Nat /\ rtc \in 0..(CounterMod - 1) /\ rtc = (rtc + 0) % CounterMod
      BY Small, ClockAssumption DEF TypeInv, CountType, TimeType
    <3> QED BY <1>5, <3>1, ReadingEffect DEF SetBy, SetTime
  <2>2. CountType'
    <3>1. Stamp(t, add) \in Nat
      BY ClockAssumption DEF Stamp, TypeInv, TimeType
    <3> QED BY <1>5, <2>1, <3>1 DEF SetBy, TypeInv, CountType
  <2>3. TimeType'
    BY <1>5, <2>1, ClockAssumption DEF SetBy, TypeInv, TimeType
  <2>4. FlagType'
    BY <1>5 DEF SetBy, TypeInv, FlagType
  <2>5. TickInv'
    BY <1>5, <2>1, Small, ClockAssumption DEF SetBy, TypeInv, CountType, TickInv
  <2>6. LogInv'
    BY <1>5 DEF SetBy, TypeInv, LogInv
  <2> QED BY <2>2, <2>3, <2>4, <2>5, <2>6
<1>6. CASE SetOther
  <2>1. HostType'
    BY <1>6 DEF SetOther, TypeInv, HostType
  <2> QED BY <1>5, <1>6, <2>1 DEF SetOther, TypeInv
<1>7. CASE Arrive
  <2>1. HostType'
    BY <1>7, ClockAssumption DEF Arrive, TypeInv, HostType, Idle
  <2>2. host.time \in Nat
    BY DEF TypeInv, HostType
  <2> QED BY <1>5, <1>7, <2>1, <2>2 DEF Arrive, TypeInv
<1>8. CASE Ask \/ Compare \/ Fail
  <2>1. Stays
    BY <1>8 DEF Ask, Compare, Fail, Stays
  <2>2. CountType' /\ TimeType' /\ FlagType' /\ TickInv' /\ LogInv'
    BY <2>1 DEF Stays, clkt, past, TypeInv, CountType, TimeType, FlagType, TickInv, LogInv
  <2>3. HostType'
    <3>1. Adjusted(now) \in Nat
      <4>1. now \in Nat
        BY DEF TypeInv, CountType
      <4>2. PICK x \in Nat : Local(now) = Epoch + x
        BY <4>1, LocalTime
      <4> QED BY <4>2, ClockAssumption DEF Adjusted
    <3>2. Idle \in [phase : {"idle", "seen", "sent"}, time : Nat, at : 0..MaxNow]
      BY ClockAssumption DEF Idle
    <3>3. CASE Ask
      <4>1. host' = [phase |-> "seen", time |-> sec, at |-> 0]
        BY <3>3 DEF Ask, Idle
      <4> QED BY <4>1, ClockAssumption DEF TypeInv, TimeType, HostType
    <3>4. CASE Compare
      <4> DEFINE sent == [phase |-> "sent", time |-> Adjusted(now), at |-> now]
      <4>1. sent \in [phase : {"idle", "seen", "sent"}, time : Nat, at : 0..MaxNow]
        BY <3>1 DEF TypeInv, CountType
      <4>2. host' = sent \/ host' = Idle
        BY <3>4, Zenon DEF Compare
      <4> HIDE DEF sent
      <4> QED BY <3>2, <4>1, <4>2 DEF HostType
    <3>5. CASE Fail
      BY <3>2, <3>5 DEF Fail, HostType
    <3> QED BY <1>8, <3>3, <3>4, <3>5
  <2> QED BY <2>2, <2>3 DEF TypeInv
<1>9. CASE Tick
  <2>1. (rtc + 1) % CounterMod \in 0..(CounterMod - 1)
    BY ClockAssumption DEF TypeInv, CountType
  <2>2. CountType'
    BY <1>9, <2>1, ClockAssumption DEF Tick, clkt, past, TypeInv, CountType
  <2>3. TimeType' /\ HostType' /\ FlagType' /\ LogInv'
    BY <1>9 DEF Tick, clkt, TypeInv, TimeType, HostType, FlagType, LogInv, past
  <2>4. TickInv'
    <3>1. tik + gap \in Nat /\ tik' = tik /\ (tik + gap) + 1 = tik' + gap'
      BY <1>9, ClockAssumption DEF Tick, clkt, TypeInv, CountType
    <3>2. (((tik + gap) % CounterMod) + 1) % CounterMod = ((tik + gap) + 1) % CounterMod
      BY <3>1, NextTick
    <3> QED BY <1>9, <3>1, <3>2, Zenon DEF Tick, TypeInv, TickInv
  <2> QED BY <2>2, <2>3, <2>4 DEF TypeInv
<1>10. CASE UNCHANGED vars
  BY <1>10 DEF vars, clkt, past, TypeInv, CountType, TimeType, HostType, FlagType, TickInv, LogInv
<1> QED
  BY <1>1, <1>2, <1>3, <1>4, <1>6, <1>7, <1>8, <1>9, <1>10 DEF Next

LEMMA TypeAlways == Spec => []TypeInv
  BY TypeInit, TypeStep, PTL DEF Spec

(* Every variable keeps its type: the fraction of a second never holds     *)
(* more than a second and the credit of a start.                           *)
THEOREM TypeCorrect == Spec => []TypeOK
<1>1. TypeInv => TypeOK
  BY DEF TypeInv, TypeOK, CountType, TimeType, HostType, FlagType
<1> QED
  BY <1>1, TypeAlways, PTL
-----------------------------------------------------------------------------
(* What a step does to the clock, for the invariants below: nothing, a     *)
(* reading, a set, a start, or the end.                                    *)
Kept == UNCHANGED <<on, sec, add, saved, base, ran, readings, starts, missed, synced>>

ReadBy(m) ==
    /\ on /\ on'
    /\ Stamp(sec', add') = Stamp(sec, add) + m
    /\ sec' \in Nat /\ add' \in 0..Second
    /\ saved' = [sec |-> sec', add |-> add']
    /\ Scale * m <= gap * Avg
    /\ gap < Window => gap * Avg <= Scale * m + Avg + Scale
    /\ ran' = ran + gap /\ readings' = readings + 1
    /\ missed' = (missed \/ gap >= Window)
    /\ gap' = 0
    /\ UNCHANGED <<now, open, rec, base, starts, synced>>

SetTo(t, m) ==
    /\ on /\ on'
    /\ Stamp(sec', add') = Stamp(t, add) + m /\ Scale * m <= 0
    /\ sec' \in Nat /\ add' \in 0..Second
    /\ saved' = [sec |-> sec', add |-> add']
    /\ base' = Stamp(t, add) /\ ran' = 0 /\ readings' = 1 /\ starts' = 0 /\ gap' = 0
    /\ UNCHANGED <<now, open, rec>>

LEMMA ReadEffect == ASSUME TypeInv, Read PROVE \E m \in Nat : ReadBy(m)
<1>1. sec \in Nat /\ add \in Nat /\ tik \in 0..(CounterMod - 1) /\ gap \in Nat
      /\ rtc = (tik + gap) % CounterMod
  BY ClockAssumption DEF TypeInv, CountType, TimeType, TickInv, Read
<1>2. /\ sec' \in Nat /\ add' \in 0..Second
      /\ saved' = [sec |-> sec', add |-> add'] /\ tik' = rtc
      /\ \E m \in Nat :
           /\ Stamp(sec', add') = Stamp(sec, add) + m
           /\ Scale * m <= gap * Avg
           /\ gap < Window => gap * Avg <= Scale * m + Avg + Scale
  BY <1>1, ReadingEffect DEF Read
<1> QED
  BY <1>2, Zenon DEF Read, ReadBy

LEMMA SetEffect ==
    ASSUME TypeInv, NEW t \in Nat, NEW by, SetBy(t, by)
    PROVE  \E m \in Nat : SetTo(t, m)
<1>1. add \in Nat /\ rtc \in 0..(CounterMod - 1) /\ rtc = (rtc + 0) % CounterMod
  BY Small, ClockAssumption DEF TypeInv, CountType, TimeType
<1>2. /\ sec' \in Nat /\ add' \in 0..Second
      /\ saved' = [sec |-> sec', add |-> add'] /\ tik' = rtc
      /\ \E m \in Nat : Stamp(sec', add') = Stamp(t, add) + m /\ Scale * m <= 0 * Avg
  BY <1>1, ReadingEffect DEF SetBy, SetTime
<1>3. 0 * Avg = 0
  BY ClockAssumption
<1> QED
  BY <1>2, <1>3, Zenon DEF SetBy, SetTo

LEMMA Still ==
    ASSUME Record \/ ClearMemo \/ Ask \/ Compare \/ Fail \/ Tick \/ UNCHANGED vars
    PROVE  Kept
BY DEF Record, ClearMemo, Ask, Compare, Fail, Tick, vars, clkt, past, Kept

-----------------------------------------------------------------------------
(* The clock gains nothing                                                 *)

Ahead(x) == Scale * (x - base) <= ran * Avg + starts * Scale * Credit

AheadInv ==
    /\ on => Ahead(Stamp(sec, add))
    /\ saved.sec # 0 => Ahead(Stamp(saved.sec, saved.add))

LEMMA Stamps ==
    ASSUME TypeInv
    PROVE  Stamp(sec, add) \in Nat /\ Stamp(saved.sec, saved.add) \in Nat
BY ClockAssumption DEF Stamp, TypeInv, TimeType

LEMMA AheadLater ==
    ASSUME NEW x \in Int, NEW m \in Nat, NEW b \in Int, NEW r \in Nat, NEW g \in Nat, NEW k \in Int,
           Scale * (x - b) <= r * Avg + k, Scale * m <= g * Avg
    PROVE  Scale * ((x + m) - b) <= (r + g) * Avg + k
<1>1. Scale \in Int /\ Avg \in Int
  BY ClockAssumption
<1>2. (r + g) * Avg = r * Avg + g * Avg
  BY <1>1
<1>3. PICK y \in Int : y = x - b /\ (x + m) - b = y + m
  OBVIOUS
<1>4. Scale * (y + m) = Scale * y + Scale * m
  BY <1>1, <1>3, Distribute
<1>5. Scale * y \in Int /\ Scale * m \in Int /\ r * Avg \in Int /\ g * Avg \in Int
  BY <1>1, <1>3
<1> QED
  BY <1>2, <1>3, <1>4, <1>5

LEMMA AheadStep == TypeInv /\ AheadInv /\ [Next]_vars => AheadInv'
<1> SUFFICES ASSUME TypeInv, AheadInv, [Next]_vars PROVE AheadInv'
  OBVIOUS
<1> USE Stamps
<1>0. /\ base \in Nat /\ ran \in Nat /\ gap \in Nat /\ starts \in Nat
      /\ starts * Scale * Credit \in Nat /\ Scale \in Nat /\ Credit \in Nat /\ Avg \in Nat
  BY ClockAssumption DEF TypeInv, CountType
<1>1. CASE Read
  <2>1. PICK m \in Nat : ReadBy(m)
    BY <1>1, ReadEffect
  <2>2. Scale * ((Stamp(sec, add) + m) - base) <= (ran + gap) * Avg + starts * Scale * Credit
    BY <1>0, <2>1, AheadLater DEF AheadInv, Ahead, ReadBy
  <2>3. Ahead(Stamp(sec, add))'
    BY <2>1, <2>2 DEF ReadBy, Ahead
  <2>4. Stamp(saved'.sec, saved'.add) = Stamp(sec', add')
    BY <2>1 DEF ReadBy
  <2> QED BY <2>3, <2>4 DEF AheadInv, Ahead
<1>2. CASE Start
  <2>1. CASE saved.sec = 0
    <3>1. base' = Stamp(sec', add') /\ ran' = 0 /\ starts' = 0 /\ saved' = saved
      BY <1>2, <2>1 DEF Start
    <3>2. sec' = Restore.sec /\ add' = Restore.add
      BY <1>2 DEF Start
    <3>3. Stamp(sec', add') \in Nat
      BY <3>2, RestoreType
    <3>4. Scale * (Stamp(sec', add') - base') = 0 /\ ran' * Avg + starts' * Scale * Credit = 0
      BY <1>0, <3>1, <3>3
    <3> QED BY <2>1, <3>1, <3>4 DEF AheadInv, Ahead
  <2>2. CASE saved.sec # 0
    <3>1. /\ sec' = saved.sec /\ add' = saved.add + Credit /\ saved' = saved
          /\ base' = base /\ ran' = ran + gap /\ starts' = starts + 1
      BY <1>2, <2>2 DEF Start, Restore
    <3>2. Stamp(sec', add') = Stamp(saved.sec, saved.add) + Credit
      BY <3>1, ClockAssumption DEF Stamp, TypeInv, TimeType
    <3>3. PICK x \in Nat, k \in Nat : x = Stamp(saved.sec, saved.add) /\ k = starts * Scale * Credit
      BY <1>0
    <3>4. starts' * Scale * Credit = k + Scale * Credit
      <4>1. (starts + 1) * Scale = starts * Scale + Scale
        BY <1>0
      <4>2. PICK y \in Nat : y = starts * Scale
        BY <1>0
      <4>3. (y + Scale) * Credit = y * Credit + Scale * Credit
        BY <1>0
      <4> QED BY <3>1, <3>3, <4>1, <4>2, <4>3
    <3>5. Scale * (x - base) <= ran * Avg + k
      BY <2>2, <3>3 DEF AheadInv, Ahead
    <3>6. ran * Avg <= ran' * Avg
      BY <1>0, <3>1, Monotone
    <3>7. Scale * (x - base) <= ran' * Avg + k
      BY <1>0, <3>1, <3>3, <3>5, <3>6
    <3>8. Scale * ((x + Credit) - base) <= ran' * Avg + k + Scale * Credit
      <4>1. PICK y \in Int : y = x - base /\ (x + Credit) - base = y + Credit
        BY <1>0, <3>3
      <4>2. Scale * (y + Credit) = Scale * y + Scale * Credit
        BY <1>0, <4>1, Distribute
      <4> QED BY <1>0, <3>1, <3>3, <3>7, <4>1, <4>2
    <3>9. Scale * Credit \in Nat
      BY <1>0
    <3> QED BY <1>0, <2>2, <3>1, <3>2, <3>3, <3>4, <3>7, <3>8, <3>9 DEF AheadInv, Ahead
  <2> QED BY <2>1, <2>2
<1>3. CASE Down \/ CutRecord
  BY <1>3 DEF Down, CutRecord, Stops, PowerLost, past, AheadInv, Ahead
<1>4. ASSUME NEW t \in Nat, NEW by, SetBy(t, by) PROVE AheadInv'
  <2>1. PICK m \in Nat : SetTo(t, m)
    BY <1>4, SetEffect
  <2>2. Stamp(t, add) \in Nat
    BY ClockAssumption DEF Stamp, TypeInv, TimeType
  <2>3. Stamp(sec', add') - base' = m
    BY <2>1, <2>2 DEF SetTo
  <2>4. ran' * Avg + starts' * Scale * Credit = 0
    BY <1>0, <2>1 DEF SetTo
  <2>5. Ahead(Stamp(sec, add))'
    BY <2>1, <2>3, <2>4 DEF SetTo, Ahead
  <2>6. Stamp(saved'.sec, saved'.add) = Stamp(sec', add')
    BY <2>1 DEF SetTo
  <2> QED BY <2>5, <2>6 DEF AheadInv, Ahead
<1>5. CASE SetOther \/ Arrive
  <2>1. 1 \in Nat /\ host.time \in Nat
    BY DEF TypeInv, HostType
  <2> QED BY <1>4, <1>5, <2>1 DEF SetOther, Arrive
<1>6. CASE Record \/ ClearMemo \/ Ask \/ Compare \/ Fail \/ Tick \/ UNCHANGED vars
  BY <1>6, Still DEF Kept, AheadInv, Ahead
<1> QED
  BY <1>1, <1>2, <1>3, <1>5, <1>6 DEF Next

LEMMA AheadInit == Init => AheadInv
BY DEF Init, AheadInv

(* The clock gains nothing on the world but the credit of its starts.      *)
THEOREM ClockNeverAhead == Spec => []NeverAhead
<1>1. AheadInv => NeverAhead
  BY DEF AheadInv, Ahead, NeverAhead
<1> QED
  BY <1>1, AheadInit, AheadStep, TypeAlways, PTL DEF Spec
-----------------------------------------------------------------------------
(* The clock loses little                                                  *)

Behind(x) == ran * Avg <= Scale * (x - base) + readings * (Avg + Scale)

LagInv == on /\ ~ missed /\ starts = 0 => Behind(Stamp(sec, add))

LEMMA LagStep == TypeInv /\ LagInv /\ [Next]_vars => LagInv'
<1> SUFFICES ASSUME TypeInv, LagInv, [Next]_vars PROVE LagInv'
  OBVIOUS
<1> USE Stamps
<1>0. /\ base \in Nat /\ ran \in Nat /\ gap \in Nat /\ readings \in Nat
      /\ Scale \in Nat /\ Avg \in Nat
  BY ClockAssumption DEF TypeInv, CountType
<1>1. CASE Read
  <2>1. PICK m \in Nat : ReadBy(m)
    BY <1>1, ReadEffect
  <2>2. ASSUME ~ missed', starts' = 0 PROVE Behind(Stamp(sec, add))'
    <3>1. gap < Window /\ ~ missed /\ starts = 0 /\ on
      <4>1. ~ (gap >= Window) /\ ~ missed /\ starts = 0 /\ on
        BY <2>1, <2>2, Zenon DEF ReadBy
      <4> QED BY <1>0, <4>1, ClockAssumption
    <3>2. ran * Avg <= Scale * (Stamp(sec, add) - base) + readings * (Avg + Scale)
      BY <3>1 DEF LagInv, Behind
    <3>3. gap * Avg <= Scale * m + Avg + Scale
      BY <2>1, <3>1 DEF ReadBy
    <3>4. (ran + gap) * Avg = ran * Avg + gap * Avg
      BY <1>0
    <3>5. (readings + 1) * (Avg + Scale) = readings * (Avg + Scale) + Avg + Scale
      BY <1>0
    <3>6. PICK y \in Int : y = Stamp(sec, add) - base /\ (Stamp(sec, add) + m) - base = y + m
      BY <1>0
    <3>7. Scale * (y + m) = Scale * y + Scale * m
      BY <1>0, Distribute
    <3>8. (ran + gap) * Avg <= Scale * (y + m) + (readings + 1) * (Avg + Scale)
      BY <1>0, <3>2, <3>3, <3>4, <3>5, <3>6, <3>7
    <3>9. y + m = Stamp(sec', add') - base' /\ ran' = ran + gap /\ readings' = readings + 1
      BY <2>1, <3>6 DEF ReadBy
    <3> QED BY <3>8, <3>9 DEF Behind
  <2> QED BY <2>2 DEF LagInv
<1>2. CASE Start
  <2>1. CASE saved.sec = 0
    <3>1. base' = Stamp(sec', add') /\ ran' = 0 /\ readings' = 0
      BY <1>2, <2>1 DEF Start
    <3>2. Stamp(sec', add') \in Nat
      BY <1>2, RestoreType DEF Start
    <3> QED BY <1>0, <3>1, <3>2 DEF LagInv, Behind
  <2>2. CASE saved.sec # 0
    BY <1>2, <2>2 DEF Start, LagInv, TypeInv, CountType
  <2> QED BY <2>1, <2>2
<1>3. CASE Down \/ CutRecord
  BY <1>3 DEF Down, CutRecord, Stops, LagInv
<1>4. ASSUME NEW t \in Nat, NEW by, SetBy(t, by) PROVE LagInv'
  <2>1. PICK m \in Nat : SetTo(t, m)
    BY <1>4, SetEffect
  <2>2. Stamp(t, add) \in Nat
    BY ClockAssumption DEF Stamp, TypeInv, TimeType
  <2>3. Stamp(sec', add') - base' = m /\ ran' = 0 /\ readings' = 1
    BY <2>1, <2>2 DEF SetTo
  <2> QED BY <1>0, <2>3 DEF LagInv, Behind
<1>5. CASE SetOther \/ Arrive
  <2>1. 1 \in Nat /\ host.time \in Nat
    BY DEF TypeInv, HostType
  <2> QED BY <1>4, <1>5, <2>1 DEF SetOther, Arrive
<1>6. CASE Record \/ ClearMemo \/ Ask \/ Compare \/ Fail \/ Tick \/ UNCHANGED vars
  BY <1>6, Still DEF Kept, LagInv, Behind
<1> QED
  BY <1>1, <1>2, <1>3, <1>5, <1>6 DEF Next

LEMMA LagInit == Init => LagInv
BY DEF Init, LagInv

(* Between a set and a restart, each reading within the window loses at    *)
(* most a tick and a microsecond.                                          *)
THEOREM ClockLosesLittle == Spec => []LagBounded
<1>1. LagInv => LagBounded
  BY DEF LagInv, Behind, LagBounded
<1> QED
  BY <1>1, LagInit, LagStep, TypeAlways, PTL DEF Spec

-----------------------------------------------------------------------------
(* The clock never goes back                                               *)

(* What a start would make of the registers and the log as they are is not *)
(* behind the clock, nor, while the device is down, behind what it was.    *)
BackInv ==
    /\ on => saved.sec = sec \/ saved.sec = 0
    /\ on /\ saved.sec = sec => add <= saved.add + Credit
    /\ on /\ saved.sec = sec /\ sec = 0 /\ open.top # 0 => add <= Second
    /\ ~ on => was <= Stamp(Restore.sec, Restore.add)

LEMMA StampOrder ==
    ASSUME NEW s \in Nat, NEW a \in Nat
    PROVE  /\ Stamp(s, a) \in Nat
           /\ \A b \in Nat : a <= b => Stamp(s, a) <= Stamp(s, b)
           /\ s = 0 => Stamp(s, a) = a
           /\ s # 0 => Stamp(s, a) >= Second
<1>1. Second \in Nat \ {0}
  BY ClockAssumption
<1>2. s * Second \in Nat
  BY <1>1
<1>3. s # 0 => s * Second >= Second
  BY <1>1, AtLeast
<1>4. s = 0 => s * Second = 0
  BY <1>1
<1> QED
  BY <1>1, <1>2, <1>3, <1>4 DEF Stamp

LEMMA BackInit == Init => BackInv
<1> SUFFICES ASSUME Init PROVE BackInv
  OBVIOUS
<1>1. Stamp(Restore.sec, Restore.add) \in Nat
  BY TypeInit, RestoreType
<1> QED
  BY <1>1 DEF Init, BackInv

(* A start after a loss of power finds the latest record, or its sector    *)
(* was left.                                                               *)
LEMMA Found ==
    ASSUME TypeInv, saved.sec = 0
    PROVE  Remembered <= Stamp(Restore.sec, Restore.add)
<1>0. Second \in Nat \ {0} /\ Credit \in Nat /\ LogAdd \in 0..Second
      /\ rec \in Nat /\ open.top \in Nat
  BY ClockAssumption DEF TypeInv, TimeType
<1>1. Stamp(Restore.sec, Restore.add) \in Nat
  BY RestoreType
<1>2. CASE open.cnt = 0
  BY <1>1, <1>2 DEF Remembered
<1>3. CASE open.cnt # 0 /\ open.top = 0
  <2>1. rec = 0
    BY <1>0, <1>3 DEF TypeInv, LogInv
  <2>2. Stamp(rec, 0) = 0
    BY <1>0, <2>1, StampOrder
  <2> QED BY <1>1, <1>3, <2>2 DEF Remembered
<1>4. CASE open.cnt # 0 /\ open.top # 0
  <2>1. rec * Second <= open.top * Second
    BY <1>0, <1>4, Monotone DEF TypeInv, LogInv
  <2>2. Restore = [sec |-> open.top, add |-> LogAdd]
    BY <1>4 DEF Restore
  <2>3. rec * Second \in Int /\ open.top * Second \in Int
    BY <1>0
  <2>4. Stamp(rec, 0) <= Stamp(open.top, LogAdd)
    BY <1>0, <2>1, <2>3 DEF Stamp
  <2> QED BY <1>4, <2>2, <2>4 DEF Remembered
<1> QED
  BY <1>2, <1>3, <1>4

LEMMA FoundNow == TypeInv /\ saved.sec = 0 => Remembered <= Stamp(Restore.sec, Restore.add)
BY Found

LEMMA FoundNext ==
    TypeInv' /\ saved'.sec = 0 => Remembered' <= Stamp(Restore'.sec, Restore'.add)
<1>1. TypeInv' /\ (saved.sec = 0)' => (Remembered <= Stamp(Restore.sec, Restore.add))'
  BY FoundNow, PTL
<1> QED
  BY <1>1

LEMMA BackStep == TypeInv /\ BackInv /\ [Next]_vars => BackInv'
<1> SUFFICES ASSUME TypeInv, BackInv, [Next]_vars PROVE BackInv'
  OBVIOUS
<1>0. Second \in Nat \ {0} /\ Credit \in Nat /\ LogAdd \in 0..Second
  BY ClockAssumption
<1>1. ASSUME on', sec' \in Nat, add' \in 0..Second,
             saved' = [sec |-> sec', add |-> add']
      PROVE  BackInv'
  <2>1. saved'.add = add' /\ saved'.sec = sec'
    BY <1>1
  <2>2. add' <= add' + Credit /\ add' <= Second
    <3>1. \A a \in 0..Second : a <= a + Credit /\ a <= Second
      BY <1>0
    <3> QED BY <1>1, <3>1
  <2> QED BY <1>1, <2>1, <2>2 DEF BackInv
<1>2. CASE Read
  <2>1. PICK m \in Nat : ReadBy(m)
    BY <1>2, ReadEffect
  <2> QED BY <1>1, <2>1 DEF ReadBy
<1>3. ASSUME NEW t \in Nat, NEW by, SetBy(t, by) PROVE BackInv'
  <2>1. PICK m \in Nat : SetTo(t, m)
    BY <1>3, SetEffect
  <2> QED BY <1>1, <2>1 DEF SetTo
<1>4. CASE SetOther \/ Arrive
  <2>1. 1 \in Nat /\ host.time \in Nat
    BY DEF TypeInv, HostType
  <2> QED BY <1>3, <1>4, <2>1 DEF SetOther, Arrive
<1>5. CASE Record \/ ClearMemo
  <2>1. on /\ UNCHANGED <<on, sec, add, saved>>
    BY <1>5 DEF Record, ClearMemo, clkt
  <2>2. ASSUME sec = 0, open'.top # 0 PROVE open.top # 0
    BY <1>5, <2>2 DEF Record, ClearMemo, Written, Fresh, TypeInv, TimeType
  <2> QED BY <2>1, <2>2 DEF BackInv
<1>6. CASE Start
  <2>1. on' /\ sec' = Restore.sec /\ add' = Restore.add /\ saved' = saved
        /\ (open' = Fresh \/ open' = open)
    BY <1>6 DEF Start
  <2>2. CASE saved.sec = 0 /\ open.top # 0
    <3>1. sec' # saved'.sec /\ saved'.sec = 0
      BY <2>1, <2>2 DEF Restore
    <3> QED BY <2>1, <3>1, Zenon DEF BackInv
  <2>3. CASE ~ (saved.sec = 0 /\ open.top # 0)
    <3>1. sec' = saved.sec /\ add' = saved.add + Credit
      BY <2>1, <2>3 DEF Restore
    <3>2. add' <= saved'.add + Credit
      BY <2>1, <3>1, <1>0 DEF TypeInv, TimeType
    <3>3. ~ (sec' = 0 /\ open'.top # 0)
      BY <2>1, <2>3, <3>1 DEF Fresh
    <3>4. saved'.sec = sec'
      BY <2>1, <3>1
    <3> QED BY <2>1, <3>2, <3>3, <3>4, Zenon DEF BackInv
  <2> QED BY <2>2, <2>3
<1>7. CASE Down \/ CutRecord
  <2>1. on /\ ~ on'
    BY <1>7 DEF Down, CutRecord, Stops
  <2>2. ASSUME PowerLost PROVE BackInv'
    <3>1. TypeInv'
      BY TypeStep
    <3> QED BY <2>1, <2>2, <3>1, FoundNext DEF PowerLost, BackInv
  <2>3. CASE Down /\ ~ PowerLost
    <3>1. UNCHANGED <<open, rec, saved>>
          /\ was' = IF saved.sec = sec THEN Stamp(sec, add) ELSE Remembered
      BY <2>3 DEF Down
    <3>2. Restore' = Restore
      BY <3>1 DEF Restore
    <3>3. CASE saved.sec = sec /\ ~ (sec = 0 /\ open.top # 0)
      <4>1. Restore = [sec |-> sec, add |-> saved.add + Credit] /\ add <= saved.add + Credit
        BY <2>1, <3>3 DEF Restore, BackInv
      <4>2. sec \in Nat /\ add \in Nat /\ saved.add + Credit \in Nat
        BY <1>0 DEF TypeInv, TimeType
      <4>3. Stamp(sec, add) <= Stamp(sec, saved.add + Credit)
        BY <4>1, <4>2, StampOrder
      <4> QED BY <2>1, <3>1, <3>2, <3>3, <4>1, <4>3 DEF BackInv
    <3>4. CASE saved.sec = sec /\ sec = 0 /\ open.top # 0
      <4>1. Restore = [sec |-> open.top, add |-> LogAdd] /\ add <= Second
        BY <2>1, <3>4 DEF Restore, BackInv
      <4>2. add \in Nat /\ open.top \in Nat /\ LogAdd \in Nat
        BY <1>0 DEF TypeInv, TimeType
      <4>3. Stamp(sec, add) = add
        BY <3>4, <4>2, StampOrder
      <4>4. Stamp(open.top, LogAdd) >= Second /\ Stamp(open.top, LogAdd) \in Nat
        BY <3>4, <4>2, StampOrder
      <4>5. Stamp(sec, add) <= Stamp(open.top, LogAdd)
        BY <1>0, <4>1, <4>2, <4>3, <4>4
      <4> QED BY <2>1, <3>1, <3>2, <3>4, <4>1, <4>5 DEF BackInv
    <3>5. CASE saved.sec # sec
      <4>1. was' = Remembered /\ saved.sec = 0
        BY <2>1, <3>1, <3>5 DEF BackInv
      <4> QED BY <2>1, <3>2, <4>1, Found DEF BackInv
    <3> QED BY <3>3, <3>4, <3>5
  <2> QED BY <1>7, <2>2, <2>3 DEF CutRecord
<1>8. CASE Ask \/ Compare \/ Fail \/ Tick \/ UNCHANGED vars
  <2>1. UNCHANGED <<on, sec, add, saved, open, rec, was>>
    BY <1>8 DEF Ask, Compare, Fail, Tick, vars, clkt
  <2>2. Restore' = Restore
    BY <2>1 DEF Restore
  <2> QED BY <2>1, <2>2 DEF BackInv
<1> QED
  BY <1>2, <1>4, <1>5, <1>6, <1>7, <1>8 DEF Next
(* The clock never goes back but by a client's command.                    *)
THEOREM ClockNeverBack == Spec => NeverBack
<1>1. TypeInv /\ BackInv /\ [Next]_vars =>
        [on' => IF on THEN SetOther \/ Arrive \/ Stamp(sec', add') >= Stamp(sec, add)
                ELSE Stamp(sec', add') >= was]_vars
  <2> SUFFICES ASSUME TypeInv, BackInv, Next, on'
               PROVE  IF on THEN SetOther \/ Arrive \/ Stamp(sec', add') >= Stamp(sec, add)
                      ELSE Stamp(sec', add') >= was
    OBVIOUS
  <2>1. CASE Read
    <3>1. PICK m \in Nat : ReadBy(m)
      BY <2>1, ReadEffect
    <3> QED BY <3>1, Stamps DEF ReadBy
  <2>2. CASE Record \/ ClearMemo \/ Ask \/ Compare \/ Fail \/ Tick
    <3>1. CASE on
      BY <2>2, <3>1, Still, Stamps DEF Kept
    <3>2. CASE ~ on
      <4>1. on' = on
        BY <2>2, Still DEF Kept
      <4> QED BY <3>2, <4>1
    <3> QED BY <3>1, <3>2
  <2>3. CASE Start
    <3>1. ~ on /\ was <= Stamp(Restore.sec, Restore.add)
      BY <2>3 DEF Start, BackInv
    <3>2. sec' = Restore.sec /\ add' = Restore.add
      BY <2>3 DEF Start
    <3>3. was \in Nat
      BY DEF TypeInv, CountType
    <3> QED BY <3>1, <3>2, <3>3, RestoreType
  <2>4. CASE Down \/ CutRecord
    BY <2>4 DEF Down, CutRecord, Stops
  <2>5. CASE SetOther \/ Arrive
    <3>1. on
      BY <2>5 DEF SetOther, Arrive, SetBy
    <3> QED BY <2>5, <3>1
  <2> QED
    BY <2>1, <2>2, <2>3, <2>4, <2>5 DEF Next
<1> QED
  BY <1>1, BackInit, BackStep, TypeAlways, PTL DEF Spec, NeverBack

-----------------------------------------------------------------------------
(* The clock is right after the script set it                              *)

(* The host's time in the unit of the properties: Scale for a microsecond. *)
Zone == Scale * (Second * (Epoch + Summer))

(* A time under way was right when it was sent, at most Delay ago.         *)
SentInv ==
    host.phase = "sent" =>
        /\ host.time = Adjusted(host.at)
        /\ host.at <= now /\ now <= host.at + Delay

(* What the clock was set to, against the world's time at that moment.     *)
Offset == Scale * base - (now - gap - ran) * Avg - Zone

SyncInv ==
    synced /\ starts = 0 =>
        /\ Offset <= Scale * (Second + Credit)
        /\ -Offset <= Scale * Second + Avg * Delay

LEMMA SentStep == TypeInv /\ SentInv /\ [Next]_vars => SentInv'
<1> SUFFICES ASSUME TypeInv, SentInv, [Next]_vars PROVE SentInv'
  OBVIOUS
<1>1. CASE Compare
  <2> DEFINE sent == [phase |-> "sent", time |-> Adjusted(now), at |-> now]
  <2>1. (host' = sent \/ host' = Idle) /\ now' = now
    BY <1>1, Zenon DEF Compare
  <2>2. now \in Nat /\ Delay \in Nat
    BY ClockAssumption DEF TypeInv, CountType
  <2> QED BY <2>1, <2>2 DEF SentInv, Idle
<1>2. CASE Tick
  BY <1>2, ClockAssumption DEF Tick, SentInv, TypeInv, CountType, HostType
<1>3. CASE Ask \/ Fail \/ Arrive \/ Down \/ CutRecord
  <2>1. Idle.phase # "sent" /\ [Idle EXCEPT !.phase = "seen", !.time = sec].phase # "sent"
    BY DEF Idle
  <2>2. host'.phase # "sent"
    BY <1>3, <2>1, Zenon DEF Ask, Fail, Arrive, Down, CutRecord, Stops
  <2> QED BY <2>2 DEF SentInv
<1>4. CASE Read \/ Record \/ ClearMemo \/ Start \/ SetOther \/ UNCHANGED vars
  BY <1>4 DEF Read, Record, ClearMemo, Start, SetOther, SetBy, vars, SentInv
<1> QED
  BY <1>1, <1>2, <1>3, <1>4 DEF Next
LEMMA SyncStep == TypeInv /\ SentInv /\ SyncInv /\ [Next]_vars => SyncInv'
<1> SUFFICES ASSUME TypeInv, SentInv, SyncInv, [Next]_vars PROVE SyncInv'
  OBVIOUS
<1>0. /\ now \in Nat /\ gap \in Nat /\ ran \in Nat /\ base \in Nat
      /\ Scale \in Nat /\ Avg \in Nat /\ Second \in Nat /\ Delay \in Nat
      /\ Epoch \in Nat /\ Summer \in Nat /\ Credit \in Nat
  BY ClockAssumption DEF TypeInv, CountType
<1>1. ASSUME base' = base, now' - gap' - ran' = now - gap - ran,
             synced' /\ starts' = 0 => synced /\ starts = 0
      PROVE  SyncInv'
  <2>1. Offset' = Offset
    BY <1>1 DEF Offset, Zone
  <2> QED BY <1>1, <2>1 DEF SyncInv
<1>2. CASE Read
  <2>1. now' - gap' - ran' = now - gap - ran
    BY <1>0, <1>2 DEF Read
  <2> QED BY <1>1, <1>2, <2>1 DEF Read
<1>3. CASE Start
  <2>1. CASE saved.sec = 0
    BY <1>3, <2>1 DEF Start, SyncInv
  <2>2. CASE saved.sec # 0
    <3>1. starts' # 0
      BY <1>3, <2>2 DEF Start, TypeInv, CountType
    <3> QED BY <3>1 DEF SyncInv
  <2> QED BY <2>1, <2>2
<1>4. CASE SetOther
  <2>1. ~ synced'
    BY <1>4 DEF SetOther, SetBy
  <2> QED BY <2>1 DEF SyncInv
<1>5. CASE Arrive
  <2>1. /\ base' = Stamp(host.time, add) /\ gap' = 0 /\ ran' = 0 /\ now' = now
        /\ host.phase = "sent"
    BY <1>5 DEF Arrive, SetBy
  <2>2. PICK at \in Nat : at = host.at /\ host.time = Adjusted(at) /\ at <= now /\ now <= at + Delay
    BY <2>1 DEF SentInv, TypeInv, HostType
  <2>3. PICK x \in Nat :
          /\ Local(at) = Epoch + x
          /\ Scale * (Second * x) <= at * Avg
          /\ at * Avg < Scale * (Second * x) + Scale * Second
    BY LocalTime
  <2>4. host.time = Epoch + Summer + x
    BY <1>0, <2>2, <2>3 DEF Adjusted
  <2>5. add \in Nat /\ add <= Second + Credit
    BY <1>0 DEF TypeInv, TimeType
  <2>6. PICK z \in Nat, y \in Nat : z = Second * (Epoch + Summer) /\ y = Second * x
    BY <1>0
  <2>7. base' = z + y + add
    <3>1. (Epoch + Summer + x) * Second = Second * (Epoch + Summer) + Second * x
      BY <1>0
    <3> QED BY <1>0, <2>1, <2>4, <2>5, <2>6, <3>1 DEF Stamp
  <2>8. Offset' = Scale * y + Scale * add - now * Avg
    <3>1. Scale * (z + y + add) = Scale * z + Scale * y + Scale * add
      BY <1>0, <2>5
    <3>2. Zone' = Scale * z
      BY <2>6 DEF Zone
    <3>3. now' - gap' - ran' = now
      BY <1>0, <2>1
    <3>4. Offset' = Scale * (z + y + add) - now * Avg - Scale * z
      BY <2>7, <3>2, <3>3 DEF Offset
    <3>5. Scale * z \in Int /\ Scale * y \in Int /\ Scale * add \in Int /\ now * Avg \in Int
      BY <1>0, <2>5
    <3> QED BY <3>1, <3>4, <3>5
  <2>9. Scale * add >= 0 /\ Scale * add <= Scale * (Second + Credit)
    <3>1. add * Scale <= (Second + Credit) * Scale
      BY <1>0, <2>5, Monotone
    <3> QED BY <1>0, <2>5, <3>1
  <2>10. at * Avg <= now * Avg /\ now * Avg <= at * Avg + Avg * Delay
    <3>1. at * Avg <= now * Avg
      BY <1>0, <2>2, Monotone
    <3>2. now * Avg <= (at + Delay) * Avg
      BY <1>0, <2>2, Monotone
    <3>3. (at + Delay) * Avg = at * Avg + Avg * Delay
      BY <1>0
    <3> QED BY <3>1, <3>2, <3>3
  <2>11. /\ Scale * y \in Int /\ Scale * add \in Int /\ now * Avg \in Int /\ at * Avg \in Int
         /\ Avg * Delay \in Int /\ Scale * Second \in Int /\ Scale * (Second + Credit) \in Int
    BY <1>0, <2>5
  <2>12. Scale * y <= at * Avg /\ at * Avg < Scale * y + Scale * Second
    BY <2>3, <2>6
  <2>13. Offset' <= Scale * (Second + Credit) /\ -Offset' <= Scale * Second + Avg * Delay
    BY <2>8, <2>9, <2>10, <2>11, <2>12
  <2> QED BY <2>13 DEF SyncInv
<1>6. CASE Down \/ CutRecord \/ Record \/ ClearMemo \/ Ask \/ Compare \/ Fail \/ UNCHANGED vars
  BY <1>1, <1>6 DEF Down, CutRecord, Stops, Record, ClearMemo, Ask, Compare, Fail, vars, past
<1>7. CASE Tick
  <2>1. now' - gap' - ran' = now - gap - ran
    BY <1>0, <1>7 DEF Tick, past
  <2> QED BY <1>1, <1>7, <2>1 DEF Tick, past
<1> QED
  BY <1>2, <1>3, <1>4, <1>5, <1>6, <1>7 DEF Next

LEMMA SyncInit == Init => SentInv /\ SyncInv
BY DEF Init, Idle, SentInv, SyncInv

(* After the script set the clock it is right, to the kept fraction of a   *)
(* second, the delay of the command and the losses of the readings.        *)
THEOREM ClockSynced == Spec => []SyncedClose
<1>1. TypeInv /\ AheadInv /\ LagInv /\ SyncInv => SyncedClose
  <2> SUFFICES ASSUME TypeInv, AheadInv, LagInv, SyncInv, on, synced, ~ missed, starts = 0
               PROVE  /\ Scale * Stamp(sec, add) - ((now - gap) * Avg + Scale * Second * (Epoch + Summer))
                            <= Scale * (Second + Credit)
                      /\ ((now - gap) * Avg + Scale * Second * (Epoch + Summer)) - Scale * Stamp(sec, add)
                            <= Scale * (Second + 1) + Avg * Delay + readings * (Avg + Scale)
    BY DEF SyncedClose
  <2>0. /\ now \in Nat /\ gap \in Nat /\ ran \in Nat /\ base \in Nat /\ readings \in Nat
        /\ Scale \in Nat /\ Avg \in Nat /\ Second \in Nat /\ Delay \in Nat
        /\ Epoch \in Nat /\ Summer \in Nat /\ Credit \in Nat
    BY ClockAssumption DEF TypeInv, CountType
  <2>1. PICK x \in Nat : x = Stamp(sec, add)
    BY Stamps
  <2>2. Scale * (x - base) = Scale * x - Scale * base
    BY <2>0
  <2>3. Scale * x - Scale * base <= ran * Avg
    <3>1. starts * Scale * Credit = 0
      BY <2>0
    <3>2. Scale * (x - base) <= ran * Avg + starts * Scale * Credit
      BY <2>1 DEF AheadInv, Ahead
    <3>3. ran * Avg \in Int
      BY <2>0
    <3> QED BY <2>2, <3>1, <3>2, <3>3
  <2>4. ran * Avg <= Scale * x - Scale * base + readings * (Avg + Scale)
    BY <2>1, <2>2 DEF LagInv, Behind
  <2>5. (now - gap) * Avg = (now - gap - ran) * Avg + ran * Avg
    BY <2>0
  <2>6. PICK w \in Int, k \in Int :
          w = (now - gap - ran) * Avg /\ k = Scale * (Second * (Epoch + Summer))
    BY <2>0
  <2>7. Scale * Second * (Epoch + Summer) = k
    BY <2>0, <2>6
  <2>8. Scale * base - w - k <= Scale * (Second + Credit)
        /\ -(Scale * base - w - k) <= Scale * Second + Avg * Delay
    BY <2>6 DEF SyncInv, Offset, Zone
  <2>9. Scale * (Second + 1) = Scale * Second + Scale
    BY <2>0
  <2>10. /\ Scale * x \in Int /\ Scale * base \in Int /\ ran * Avg \in Int
         /\ readings * (Avg + Scale) \in Int /\ Avg * Delay \in Int
         /\ Scale * Second \in Int /\ Scale * (Second + Credit) \in Int
    BY <2>0
  <2>11. (now - gap) * Avg + Scale * Second * (Epoch + Summer) = w + ran * Avg + k
    BY <2>5, <2>6, <2>7
  <2>12. Scale * x - (w + ran * Avg + k) <= Scale * (Second + Credit)
    BY <2>3, <2>8, <2>10
  <2>13. (w + ran * Avg + k) - Scale * x
           <= Scale * (Second + 1) + Avg * Delay + readings * (Avg + Scale)
    BY <2>0, <2>4, <2>8, <2>9, <2>10
  <2> QED BY <2>1, <2>11, <2>12, <2>13
<1>2. Spec => []AheadInv
  BY AheadInit, AheadStep, TypeAlways, PTL DEF Spec
<1>3. Spec => []LagInv
  BY LagInit, LagStep, TypeAlways, PTL DEF Spec
<1>4. Spec => []SentInv
  BY SyncInit, SentStep, TypeAlways, PTL DEF Spec
<1>5. Spec => []SyncInv
  BY <1>4, SyncInit, SyncStep, TypeAlways, PTL DEF Spec
<1> QED
  BY <1>1, <1>2, <1>3, <1>5, TypeAlways, PTL
=============================================================================

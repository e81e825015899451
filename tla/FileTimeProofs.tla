---------------------------- MODULE FileTimeProofs ----------------------------
(***************************************************************************)
(* Proofs about the comparison of file times, for every number of          *)
(* nanoseconds in a second and every smaller carry.                        *)
(***************************************************************************)
EXTENDS FileTime, TLAPS

\* What the carries rely on: the nanoseconds of the second time, which leave
\* their range when it is carried, stay less than a second away from the
\* first's.
Near(a, b) == a.tv_nsec - b.tv_nsec < Second /\ b.tv_nsec - a.tv_nsec < Second

AnyTime == [tv_sec : Int, tv_nsec : Int]

TimeInv ==
    /\ x \in Time /\ read \in Time /\ y \in AnyTime /\ times \in Nat
    /\ Near(x, y)
    /\ times = 0 => y = read /\ result = 0
    /\ ComparesRight
    /\ result = -1 => x.tv_sec < y.tv_sec

\* pal_filetime_diff's quotient of less than a second is zero.
LEMMA QuotientZero ==
    ASSUME NEW a \in Int, 0 <= a, a < Second
    PROVE  Quotient(a) = 0
<1>1. a \div Second = 0  BY FileTimeAssumption
<1> QED  BY <1>1 DEF Quotient

LEMMA TimeIsAny ==
    ASSUME NEW a \in Time
    PROVE  /\ a \in AnyTime /\ a.tv_sec \in Int /\ a.tv_nsec \in Int
           /\ 0 <= a.tv_nsec /\ a.tv_nsec < Second
<1>1. a.tv_sec \in Sec /\ a.tv_nsec \in 0..(Second - 1)  BY DEF Time, Nsec
<1>2. a.tv_sec \in Int /\ a.tv_nsec \in Int
  <2>1. Sec \subseteq Int  BY FileTimeAssumption
  <2>2. a.tv_sec \in Int  BY <1>1, <2>1
  <2>3. a.tv_nsec \in Int  BY <1>1
  <2> QED  BY <2>2, <2>3
<1>3. 0 <= a.tv_nsec /\ a.tv_nsec < Second  BY <1>1, FileTimeAssumption
<1>4. a = [tv_sec |-> a.tv_sec, tv_nsec |-> a.tv_nsec]  BY DEF Time
<1>5. a \in AnyTime  BY <1>2, <1>4 DEF AnyTime
<1> QED  BY <1>2, <1>3, <1>5

\* Of two times that are near, the second is carried up by one when its
\* nanoseconds are more, and is left alone otherwise: the second carry of
\* pal_filetime_diff never changes anything.
LEMMA CarriedIs ==
    ASSUME NEW a \in Time, NEW b \in AnyTime, Near(a, b)
    PROVE  Carried(a, b) =
             IF a.tv_nsec < b.tv_nsec
             THEN [tv_sec |-> b.tv_sec + 1, tv_nsec |-> b.tv_nsec - Carry]
             ELSE b
<1>1. a.tv_nsec \in Int /\ b.tv_nsec \in Int /\ b.tv_sec \in Int
  BY TimeIsAny DEF AnyTime
<1>2. Carry \in Int /\ 0 < Carry /\ Carry < Second /\ Second \in Int
  BY FileTimeAssumption
<1>3. CASE a.tv_nsec < b.tv_nsec
  <2> DEFINE up == [tv_sec |-> b.tv_sec + 1, tv_nsec |-> b.tv_nsec - Carry]
  <2>1. Quotient(b.tv_nsec - a.tv_nsec) = 0
    <3>1. b.tv_nsec - a.tv_nsec \in Int /\ 0 <= b.tv_nsec - a.tv_nsec
          /\ b.tv_nsec - a.tv_nsec < Second
      BY <1>1, <1>3 DEF Near
    <3> QED  BY <3>1, QuotientZero
  <2>2. CarriedUp(a, b) = up
    BY <1>1, <1>2, <1>3, <2>1 DEF CarriedUp
  <2>3. ~(a.tv_nsec - up.tv_nsec > Carry)
    BY <1>1, <1>2, <1>3
  <2>4. CarriedDown(a, up) = up
    BY <2>3 DEF CarriedDown
  <2> QED  BY <1>3, <2>2, <2>4 DEF Carried
<1>4. CASE ~(a.tv_nsec < b.tv_nsec)
  <2>1. CarriedUp(a, b) = b  BY <1>4 DEF CarriedUp
  <2>2. Quotient(a.tv_nsec - b.tv_nsec) = 0
    <3>1. a.tv_nsec - b.tv_nsec \in Int /\ 0 <= a.tv_nsec - b.tv_nsec
          /\ a.tv_nsec - b.tv_nsec < Second
      BY <1>1, <1>4 DEF Near
    <3> QED  BY <3>1, QuotientZero
  <2>3. [tv_sec |-> b.tv_sec - 0, tv_nsec |-> b.tv_nsec + Carry * 0] = b
    BY <1>1, <1>2 DEF AnyTime
  <2>4. CarriedDown(a, b) = b
    BY <2>2, <2>3 DEF CarriedDown
  <2> QED  BY <1>4, <2>1, <2>4 DEF Carried
<1> QED  BY <1>3, <1>4

\* What was carried is near still, and in no earlier second.
LEMMA CarriedNear ==
    ASSUME NEW a \in Time, NEW b \in AnyTime, Near(a, b)
    PROVE  /\ Carried(a, b) \in AnyTime
           /\ Near(a, Carried(a, b))
           /\ b.tv_sec <= Carried(a, b).tv_sec
<1>1. a.tv_nsec \in Int /\ b.tv_nsec \in Int /\ b.tv_sec \in Int
  BY TimeIsAny DEF AnyTime
<1>2. Carry \in Int /\ 0 < Carry /\ Carry < Second /\ Second \in Int
  BY FileTimeAssumption
<1>3. CASE a.tv_nsec < b.tv_nsec
  <2>1. Carried(a, b) = [tv_sec |-> b.tv_sec + 1, tv_nsec |-> b.tv_nsec - Carry]
    BY <1>3, CarriedIs
  <2> QED  BY <1>1, <1>2, <1>3, <2>1 DEF Near, AnyTime
<1>4. CASE ~(a.tv_nsec < b.tv_nsec)
  <2>1. Carried(a, b) = b  BY <1>4, CarriedIs
  <2> QED  BY <1>1, <2>1
<1> QED  BY <1>3, <1>4

\* One comparison of two times as they were read orders them, ties excepted,
\* and ties are of times whose nanoseconds are carried.
LEMMA FirstComparison ==
    ASSUME NEW a \in Time, NEW b \in Time
    PROVE  /\ ~Tied(a, b) => Ordered(a, Carried(a, b)) = Order(a, b)
           /\ a.tv_nsec >= b.tv_nsec =>
                Carried(a, b) = b /\ Ordered(a, Carried(a, b)) = Order(a, b)
<1>1. /\ a \in AnyTime /\ a.tv_sec \in Int /\ a.tv_nsec \in Int
      /\ b \in AnyTime /\ b.tv_sec \in Int /\ b.tv_nsec \in Int
      /\ Near(a, b)
  <2>1. 0 <= a.tv_nsec /\ a.tv_nsec < Second /\ 0 <= b.tv_nsec /\ b.tv_nsec < Second
    BY TimeIsAny
  <2>2. a.tv_nsec \in Int /\ b.tv_nsec \in Int /\ Second \in Int
    BY TimeIsAny, FileTimeAssumption
  <2>3. Near(a, b)  BY <2>1, <2>2 DEF Near
  <2> QED  BY <2>3, TimeIsAny
<1>2. Carry \in Int  BY FileTimeAssumption
<1>3. CASE a.tv_nsec < b.tv_nsec
  <2> DEFINE up == [tv_sec |-> b.tv_sec + 1, tv_nsec |-> b.tv_nsec - Carry]
  <2>1. Carried(a, b) = up  BY <1>1, <1>3, CarriedIs
  <2>2. a # b  BY <1>1, <1>3
  <2>3. a = up => Tied(a, b)
    BY <1>1, <1>2 DEF Tied
  <2>4. a.tv_sec < up.tv_sec <=> Earlier(a, b)
    BY <1>1, <1>3 DEF Earlier
  <2> QED  BY <1>1, <1>3, <2>1, <2>2, <2>3, <2>4 DEF Ordered, Order
<1>4. CASE ~(a.tv_nsec < b.tv_nsec)
  <2>1. Carried(a, b) = b  BY <1>1, <1>4, CarriedIs
  <2>2. a.tv_sec < b.tv_sec <=> Earlier(a, b)
    BY <1>1, <1>4 DEF Earlier
  <2> QED  BY <2>1, <2>2 DEF Ordered, Order
<1> QED  BY <1>3, <1>4

LEMMA TimeInvInit == TimeInit => TimeInv
<1> SUFFICES ASSUME TimeInit PROVE TimeInv
  OBVIOUS
<1>1. x \in Time /\ y \in Time /\ read = y /\ result = 0 /\ times = 0
  BY DEF TimeInit
<1>2. Near(x, y)
  BY <1>1, TimeIsAny, FileTimeAssumption DEF Near
<1> QED  BY <1>1, <1>2, TimeIsAny DEF TimeInv, ComparesRight

LEMMA TimeInvStep == TimeInv /\ [TimeNext]_timeVars => TimeInv'
<1> SUFFICES ASSUME TimeInv, [TimeNext]_timeVars PROVE TimeInv'
  OBVIOUS
<1>1. CASE Compare
  <2>1. /\ x' = x /\ read' = read /\ y' = Carried(x, y)
        /\ result' = Ordered(x, y') /\ times' = times + 1
    BY <1>1 DEF Compare
  <2>2. /\ x \in Time /\ read \in Time /\ y \in AnyTime /\ times \in Nat
        /\ Near(x, y)
    BY DEF TimeInv
  <2>3. y' \in AnyTime /\ Near(x, y') /\ y.tv_sec <= y'.tv_sec
    BY <2>1, <2>2, CarriedNear
  <2>4. result' = -1 => x.tv_sec < y'.tv_sec
    BY <2>1 DEF Ordered
  <2>5. (times' = 1 /\ ~Tied(x, read)) => result' = Order(x, read)
    <3> SUFFICES ASSUME times' = 1, ~Tied(x, read) PROVE result' = Order(x, read)
      OBVIOUS
    <3>1. times = 0  BY <2>1, <2>2
    <3>2. y = read  BY <3>1 DEF TimeInv
    <3> QED  BY <2>1, <2>2, <3>2, FirstComparison
  <2>6. x.tv_nsec >= read.tv_nsec => y' = read /\ result' = Order(x, read)
    <3> SUFFICES ASSUME x.tv_nsec >= read.tv_nsec
                 PROVE  y' = read /\ result' = Order(x, read)
      OBVIOUS
    <3>1. y = read  BY DEF TimeInv, ComparesRight
    <3> QED  BY <2>1, <2>2, <3>1, FirstComparison
  <2>7. ComparesRight'
    BY <2>1, <2>5, <2>6 DEF ComparesRight
  <2>8. times' \in Nat /\ times' # 0  BY <2>1, <2>2
  <2>9. Near(x, y)'  BY <2>1, <2>3
  <2>10. (result = -1 => x.tv_sec < y.tv_sec)'  BY <2>1, <2>4
  <2> QED  BY <2>1, <2>2, <2>3, <2>7, <2>8, <2>9, <2>10 DEF TimeInv
<1>2. CASE UNCHANGED timeVars
  BY <1>2 DEF timeVars, TimeInv, ComparesRight, Near
<1> QED  BY <1>1, <1>2 DEF TimeNext, Over

\* The invariant of the comparisons.
THEOREM TimeInvariant == TimeSpec => []TimeInv
<1>1. TimeInit => TimeInv  BY TimeInvInit
<1>2. TimeInv /\ [TimeNext]_timeVars => TimeInv'  BY TimeInvStep
<1> QED  BY <1>1, <1>2, PTL DEF TimeSpec

\* For every second and carry, pal_filetime_cmp orders two times right the
\* first time, ties excepted, and every time when no carry is needed.
THEOREM FirstIsRight == TimeSpec => []ComparesRight
<1>1. TimeInv => ComparesRight  BY DEF TimeInv
<1> QED  BY <1>1, TimeInvariant, PTL

\* Whatever the times and however often they are compared, one that was found
\* to be the earlier is found to be so again.
THEOREM EarlierIsKept == TimeSpec => EarlierStays
<1>1. TimeInv /\ [TimeNext]_timeVars => [result = -1 => result' = -1]_timeVars
  <2> SUFFICES ASSUME TimeInv, TimeNext, result = -1 PROVE result' = -1 \/ UNCHANGED timeVars
    OBVIOUS
  <2>1. CASE Compare
    <3>1. x \in Time /\ y \in AnyTime /\ Near(x, y) /\ x.tv_sec < y.tv_sec
      BY DEF TimeInv
    <3>2. y' = Carried(x, y) /\ result' = Ordered(x, y')
      BY <2>1 DEF Compare
    <3>3. y' \in AnyTime /\ y.tv_sec <= y'.tv_sec
      BY <3>1, <3>2, CarriedNear
    <3>4. x.tv_sec < y'.tv_sec
      <4>1. x.tv_sec \in Int /\ y.tv_sec \in Int /\ y'.tv_sec \in Int
        BY <3>1, <3>3, TimeIsAny DEF AnyTime
      <4> QED  BY <3>1, <3>3, <4>1
    <3>5. x # y'
      <4>1. x.tv_sec \in Int  BY <3>1, TimeIsAny
      <4> QED  BY <3>4, <4>1
    <3> QED  BY <3>2, <3>4, <3>5 DEF Ordered
  <2>2. CASE Over
    BY <2>2 DEF Over
  <2> QED  BY <2>1, <2>2 DEF TimeNext
<1> QED  BY <1>1, TimeInvariant, PTL DEF TimeSpec, EarlierStays
=============================================================================

---------------------------- MODULE MArenaProofs ----------------------------
(***************************************************************************)
(* Proofs about the arena, for every size of its first buffer, growth step *)
(* and U32, and every number of bytes a client stages.                     *)
(***************************************************************************)
EXTENDS MArena, SequenceTheorems, TLAPS

\* A U32 holds the first size, and what growing a size below half of it gives.
U32Holds ==
    /\ \A n \in InitSizes : RoundUp(RoundUp(n, MinSP), SizeRounding) <= MaxU32
    /\ \A m \in Nat : 2 * m <= MaxU32 => Grown(m) <= MaxU32

\* No one addition has more bytes than a growth is sure to make room for.
SmallAdditions ==
    /\ \A n \in ZeroedSizes \cup UnsetSizes \cup TypedSizes : n <= GrowStep
    /\ \A s \in Payload : Len(s) <= GrowStep
    /\ \A a \in Alignments : a <= GrowStep + 1

-----------------------------------------------------------------------------
(* Sizes.                                                                  *)

\* Rounding up gives a multiple that is not smaller, by less than a.
LEMMA RoundUpFacts ==
    ASSUME NEW n \in Nat, NEW a \in Nat \ {0}
    PROVE  /\ RoundUp(n, a) \in Nat
           /\ RoundUp(n, a) >= n
           /\ RoundUp(n, a) - n < a
<1> DEFINE x == n + a - 1
<1>1. x \in Nat
  OBVIOUS
<1>2. /\ x \div a \in Nat /\ x % a \in 0..(a - 1)
      /\ x = a * (x \div a) + (x % a)
  <2> HIDE DEF x
  <2>1. x \div a \in Nat /\ x % a \in 0..(a - 1)
    BY <1>1
  <2>2. QED BY <1>1, <2>1
<1>3. a * (x \div a) \in Nat /\ (x \div a) * a = a * (x \div a)
  BY <1>2
<1>4. QED BY <1>2, <1>3 DEF RoundUp

\* Rounding up something gives at least what it is rounded to.
LEMMA RoundUpReaches ==
    ASSUME NEW n \in Nat \ {0}, NEW a \in Nat \ {0}
    PROVE  RoundUp(n, a) \in Nat /\ RoundUp(n, a) >= a
<1>1. n + a - 1 >= a /\ n + a - 1 \in Nat
  OBVIOUS
<1>2. (n + a - 1) \div a >= 1
  BY <1>1
<1>3. (n + a - 1) \div a \in Nat
  BY <1>1
<1>4. \A q, b \in Nat : q >= 1 => q * b >= b
  OBVIOUS
<1>5. QED BY <1>2, <1>3, <1>4, RoundUpFacts DEF RoundUp

\* A growth stays in a U32 and adds the growth step, or leaves all of a U32.
LEMMA GrownFacts ==
    ASSUME U32Holds, NEW m \in 0..MaxU32
    PROVE  /\ Grown(m) \in m..MaxU32
           /\ Grown(m) >= m + GrowStep \/ Grown(m) = MaxU32
<1>1. MaxU32 \in Nat /\ GrowStep \in Nat \ {0} /\ m \in Nat
  BY ArenaAssumption
<1>2. CASE 2 * m > MaxU32
  BY <1>1, <1>2 DEF Grown
<1>3. CASE ~(2 * m > MaxU32)
  <2>1. Grown(m) <= MaxU32
    BY <1>1, <1>3 DEF U32Holds
  <2>2. Grown(m) = (5 * m) \div 4 + GrowStep
    BY <1>3 DEF Grown
  <2>3. (5 * m) \div 4 \in Nat /\ (5 * m) \div 4 >= m
    BY <1>1
  <2>4. QED BY <1>1, <2>1, <2>2, <2>3
<1>4. QED BY <1>2, <1>3

-----------------------------------------------------------------------------
(* The inductive invariant.                                                *)

Sizes ==
    /\ data_max_size = 0 => data_size = 0 /\ staging_size = 0 /\ ~failed
    /\ Valid => MinSP <= data_size
    /\ InContext => data_size <= staging_size
    /\ failed => InContext

ArenaInv == TypeOK /\ Sizes

\* A string written in a typed buffer leaves it typed.
LEMMA PutType ==
    ASSUME NEW max \in Nat, NEW buf \in [0..(max - 1) -> Cell], NEW at \in Nat,
           NEW s \in Seq(Byte)
    PROVE  Put(buf, at, s) \in [0..(max - 1) -> Cell]
<1>1. \A i \in 0..(max - 1) :
        (IF i >= at /\ i < at + Len(s) THEN s[i - at + 1] ELSE buf[i]) \in Cell
  <2> SUFFICES ASSUME NEW i \in 0..(max - 1)
               PROVE  (IF i >= at /\ i < at + Len(s) THEN s[i - at + 1] ELSE buf[i]) \in Cell
    OBVIOUS
  <2>1. CASE i >= at /\ i < at + Len(s)
    <3>1. i - at + 1 \in 1..Len(s)
      BY <2>1
    <3>2. QED BY <2>1, <3>1 DEF Cell
  <2>2. CASE ~(i >= at /\ i < at + Len(s))
    BY <2>2
  <2>3. QED BY <2>1, <2>2
<1>2. QED BY <1>1 DEF Put

\* A reallocated buffer is typed.
LEMMA ExtendedType ==
    ASSUME TypeOK, NEW newsize \in Nat
    PROVE  Extended(newsize) \in [0..(newsize - 1) -> Cell]
<1>1. \A i \in 0..(newsize - 1) :
        (IF i < data_max_size THEN buffer[i] ELSE Junk) \in Cell
  BY ArenaAssumption DEF TypeOK, Cell
<1>2. QED BY <1>1 DEF Extended

\* Where room was asked for, the buffer is as it was, and had it, or has grown.
LEMMA RoomMade ==
    ASSUME U32Holds, ArenaInv, InContext, NEW size \in Nat, Accomodated(size)
    PROVE  /\ data_max_size' \in data_max_size..MaxU32 /\ data_max_size' # 0
           /\ \/ data_max_size' = data_max_size /\ data_size + size < data_max_size
              \/ data_max_size' >= data_max_size + GrowStep
              \/ data_max_size' = MaxU32
<1>1. /\ data_max_size \in 0..MaxU32 /\ MaxU32 \in Nat /\ GrowStep \in Nat
      /\ data_max_size # 0
  BY ArenaAssumption DEF ArenaInv, TypeOK, InContext, Valid
<1>2. CASE Fits(size) /\ data_max_size' = data_max_size
  BY <1>1, <1>2 DEF Fits
<1>3. CASE data_max_size' = Grown(data_max_size)
  <2>1. /\ Grown(data_max_size) \in data_max_size..MaxU32
        /\ \/ Grown(data_max_size) >= data_max_size + GrowStep
           \/ Grown(data_max_size) = MaxU32
    BY <1>1, GrownFacts
  <2>2. QED BY <1>1, <1>3, <2>1
<1>4. QED BY <1>2, <1>3 DEF Accomodated

\* Every addition preserves the invariant, wherever it writes.
LEMMA AddPreserves ==
    ASSUME U32Holds, ArenaInv, NEW size \in Nat, NEW at \in Nat, NEW s \in Seq(Byte),
           AddBytes(size, at, s)
    PROVE  ArenaInv'
<1>1. /\ InContext /\ UNCHANGED <<data_size, ref>>
  BY DEF AddBytes
<1>2. /\ data_size \in Nat /\ data_max_size \in 0..MaxU32 /\ staging_size \in Nat
      /\ MaxU32 \in Nat /\ data_max_size # 0 /\ staging_size # 0
      /\ MinSP <= data_size /\ data_size <= staging_size
  BY <1>1, ArenaAssumption DEF ArenaInv, TypeOK, InContext, Valid, Sizes
<1>3. CASE Refused(size) /\ failed' = TRUE
           /\ UNCHANGED <<buffer, data_max_size, staging_size, overrun>>
  BY <1>1, <1>2, <1>3 DEF ArenaInv, TypeOK, Sizes, InContext, Valid
<1> DEFINE old == IF data_max_size' = data_max_size
                  THEN buffer ELSE Extended(data_max_size')
<1>4. CASE /\ Accomodated(size)
           /\ buffer' = Put(old, at, s)
           /\ staging_size' = staging_size + size
           /\ overrun' = (overrun \/ (s # <<>> /\ at + Len(s) > data_max_size'))
           /\ UNCHANGED failed
  <2>1. data_max_size' \in data_max_size..MaxU32 /\ data_max_size' # 0
    BY <1>1, <1>4, RoomMade
  <2>2. data_max_size' \in Nat
    BY <1>2, <2>1
  <2>3. old \in [0..(data_max_size' - 1) -> Cell]
    BY <2>2, ExtendedType DEF ArenaInv, TypeOK
  <2>4. buffer' \in [0..(data_max_size' - 1) -> Cell]
    <3> HIDE DEF old
    <3>1. QED BY <1>4, <2>2, <2>3, PutType
  <2>5. overrun' \in BOOLEAN
    BY <1>4 DEF ArenaInv, TypeOK
  <2>6. failed' = FALSE
    BY <1>4 DEF Accomodated, ArenaInv, TypeOK
  <2>7. staging_size' \in 0..MaxU32 /\ data_max_size' \in 0..MaxU32
    BY <1>2, <1>4, <2>1 DEF Accomodated
  <2>8. TypeOK'
    BY <1>1, <2>4, <2>5, <2>6, <2>7 DEF ArenaInv, TypeOK
  <2>9. Sizes'
    BY <1>1, <1>2, <1>4, <2>1, <2>6 DEF Sizes, InContext, Valid
  <2>10. QED BY <2>8, <2>9 DEF ArenaInv
<1>5. QED BY <1>3, <1>4 DEF AddBytes

\* The invariant holds at first.
LEMMA InitEstablishes == Init => ArenaInv
<1> SUFFICES ASSUME Init PROVE ArenaInv
  OBVIOUS
<1>1. buffer \in [0..(data_max_size - 1) -> Cell]
  BY DEF Init
<1>2. /\ data_size = 0 /\ data_max_size = 0 /\ staging_size = 0 /\ ref = 0
      /\ failed = FALSE /\ overrun = FALSE
  BY DEF Init
<1>3. /\ data_size \in 0..MaxU32 /\ data_max_size \in 0..MaxU32
      /\ staging_size \in 0..MaxU32 /\ ref \in 0..MaxU32
  BY <1>2, ArenaAssumption
<1>4. failed \in BOOLEAN /\ overrun \in BOOLEAN
  BY <1>2
<1>5. TypeOK
  BY <1>1, <1>3, <1>4 DEF TypeOK
<1>6. QED BY <1>2, <1>5 DEF ArenaInv, Sizes, Valid, InContext

\* marena_new establishes it anew.
LEMMA NewPreserves ==
    ASSUME U32Holds, ArenaInv, NEW n \in InitSizes, New(n)
    PROVE  ArenaInv'
<1> DEFINE size == RoundUp(RoundUp(n, MinSP), SizeRounding)
<1>1. n \in Nat \ {0} /\ MinSP \in Nat \ {0} /\ SizeRounding \in Nat \ {0}
      /\ MaxU32 \in Nat
  BY ArenaAssumption
<1>2. RoundUp(n, MinSP) \in Nat /\ RoundUp(n, MinSP) >= n
  BY <1>1, RoundUpFacts
<1>3. RoundUp(n, MinSP) >= MinSP
  BY <1>1, RoundUpReaches
<1>4. size \in Nat /\ size >= RoundUp(n, MinSP)
  BY <1>1, <1>2, RoundUpFacts
<1>5. size <= MaxU32
  BY DEF U32Holds
<1> HIDE DEF size
<1>6. data_max_size' = size /\ size >= MinSP /\ size # 0
  BY <1>1, <1>2, <1>3, <1>4 DEF New, size
<1>7. buffer' \in [0..(data_max_size' - 1) -> Cell]
  BY <1>4, <1>6 DEF New, Cell
<1>8. data_max_size = 0 /\ staging_size = 0 /\ ~failed
  BY DEF New, Valid, ArenaInv, Sizes
<1>9. QED
  BY <1>1, <1>4, <1>5, <1>6, <1>7, <1>8
  DEF New, ArenaInv, TypeOK, Sizes, Valid, InContext

\* Beginning, closing and dropping a context, popping, clearing and deleting
\* move sizes within the buffer, or empty it.
LEMMA OthersPreserve ==
    ASSUME ArenaInv,
           \/ Begin \/ Commit \/ Dismiss \/ Clear \/ Del
           \/ \E r \in MinSP..data_size : PopUpto(r)
    PROVE  ArenaInv'
<1> USE ArenaAssumption
<1>1. /\ data_size \in 0..MaxU32 /\ data_max_size \in 0..MaxU32
      /\ buffer \in [0..(data_max_size - 1) -> Cell]
      /\ staging_size \in 0..MaxU32 /\ ref \in 0..MaxU32
      /\ failed \in BOOLEAN /\ overrun \in BOOLEAN
  BY DEF ArenaInv, TypeOK
<1>2. /\ data_max_size = 0 => data_size = 0 /\ staging_size = 0 /\ failed = FALSE
      /\ data_max_size # 0 => MinSP <= data_size
      /\ data_max_size # 0 /\ staging_size # 0
           => data_size <= staging_size
      /\ failed = TRUE => data_max_size # 0 /\ staging_size # 0
  BY <1>1 DEF ArenaInv, Sizes, Valid, InContext
\* What the steps that keep the buffer have in common.
<1>3. ASSUME data_max_size # 0,
             buffer' = buffer, data_max_size' = data_max_size, overrun' = overrun,
             data_size' \in MinSP..MaxU32, ref' \in 0..MaxU32,
             failed' = FALSE,
             staging_size' = 0
               \/ (data_size' <= staging_size' /\ staging_size' \in 0..MaxU32)
      PROVE  ArenaInv'
  <2>1. /\ data_size' \in 0..MaxU32 /\ data_max_size' \in 0..MaxU32
        /\ staging_size' \in 0..MaxU32
    BY <1>1, <1>3
  <2>2. buffer' \in [0..(data_max_size' - 1) -> Cell]
    BY <1>1, <1>3
  <2>3. TypeOK'
    BY <1>1, <1>3, <2>1, <2>2 DEF TypeOK
  <2>4. Sizes'
    BY <1>1, <1>3, <2>1 DEF Sizes, Valid, InContext
  <2>5. QED BY <1>1, <1>3, <2>3, <2>4 DEF ArenaInv
<1>4. MinSP \in 0..MaxU32 \/ data_max_size = 0
  BY <1>1, <1>2
<1>5. CASE Begin
  <2>1. data_max_size # 0 /\ failed' = FALSE
    BY <1>1, <1>2, <1>5 DEF Begin, Valid
  <2>2. buffer' = buffer /\ data_max_size' = data_max_size /\ overrun' = overrun
    BY <1>5 DEF Begin
  <2>3. data_size' \in MinSP..MaxU32 /\ ref' \in 0..MaxU32
    BY <1>1, <1>2, <1>5, <2>1 DEF Begin, Valid
  <2>4. staging_size' = 0
          \/ (data_size' <= staging_size' /\ staging_size' \in 0..MaxU32)
    BY <1>1, <1>2, <1>5, <2>1 DEF Begin, Valid
  <2>5. QED BY <1>3, <2>1, <2>2, <2>3, <2>4
<1>6. CASE Commit
  <2>1. data_max_size # 0 /\ failed' = FALSE
    BY <1>1, <1>2, <1>6 DEF Commit, InContext, Valid
  <2>2. buffer' = buffer /\ data_max_size' = data_max_size /\ overrun' = overrun
    BY <1>6 DEF Commit
  <2>3. data_size' \in MinSP..MaxU32 /\ ref' \in 0..MaxU32
    BY <1>1, <1>2, <1>6, <2>1 DEF Commit, InContext, Valid
  <2>4. staging_size' = 0
          \/ (data_size' <= staging_size' /\ staging_size' \in 0..MaxU32)
    BY <1>1, <1>2, <1>6, <2>1 DEF Commit, InContext, Valid
  <2>5. QED BY <1>3, <2>1, <2>2, <2>3, <2>4
<1>7. CASE Dismiss
  <2>1. data_max_size # 0 /\ failed' = FALSE
    BY <1>1, <1>2, <1>7 DEF Dismiss, InContext, Valid
  <2>2. buffer' = buffer /\ data_max_size' = data_max_size /\ overrun' = overrun
    BY <1>7 DEF Dismiss
  <2>3. data_size' \in MinSP..MaxU32 /\ ref' \in 0..MaxU32
    BY <1>1, <1>2, <1>7, <2>1 DEF Dismiss, InContext, Valid
  <2>4. staging_size' = 0
          \/ (data_size' <= staging_size' /\ staging_size' \in 0..MaxU32)
    BY <1>1, <1>2, <1>7, <2>1 DEF Dismiss, InContext, Valid
  <2>5. QED BY <1>3, <2>1, <2>2, <2>3, <2>4
<1>8. CASE Clear
  <2>1. data_max_size # 0 /\ failed' = FALSE
    BY <1>1, <1>2, <1>8 DEF Clear, Valid
  <2>2. buffer' = buffer /\ data_max_size' = data_max_size /\ overrun' = overrun
    BY <1>8 DEF Clear
  <2>3. data_size' \in MinSP..MaxU32 /\ ref' \in 0..MaxU32
    BY <1>1, <1>2, <1>8, <2>1 DEF Clear, Valid
  <2>4. staging_size' = 0
          \/ (data_size' <= staging_size' /\ staging_size' \in 0..MaxU32)
    BY <1>1, <1>2, <1>8, <2>1 DEF Clear, Valid
  <2>5. QED BY <1>3, <2>1, <2>2, <2>3, <2>4
<1>9. CASE Del
  <2>1. buffer' \in [0..(data_max_size' - 1) -> Cell]
    BY <1>9 DEF Del
  <2>2. QED
    BY <1>1, <1>9, <2>1 DEF Del, ArenaInv, TypeOK, Sizes, Valid, InContext
<1>10. CASE \E r \in MinSP..data_size : PopUpto(r)
  <2>1. PICK r \in MinSP..data_size : PopUpto(r)
    BY <1>10
  <2>2. data_max_size # 0 /\ failed' = FALSE /\ staging_size' = 0
    BY <1>1, <1>2, <2>1 DEF PopUpto, Valid
  <2>3. buffer' = buffer /\ data_max_size' = data_max_size /\ overrun' = overrun
    BY <2>1 DEF PopUpto
  <2>4. data_size' \in MinSP..MaxU32 /\ ref' \in 0..MaxU32
    BY <1>1, <1>2, <2>1, <2>2 DEF PopUpto
  <2>5. staging_size' = 0
          \/ (data_size' <= staging_size' /\ staging_size' \in 0..MaxU32)
    BY <2>2
  <2>6. QED BY <1>3, <2>2, <2>3, <2>4, <2>5
<1>11. QED BY <1>5, <1>6, <1>7, <1>8, <1>9, <1>10

\* The zeros and the padding that are added, as strings of bytes.
LEMMA ZerosType ==
    ASSUME NEW n \in Nat
    PROVE  Zeros(n) \in Seq(Byte) /\ Len(Zeros(n)) = n
BY ArenaAssumption DEF Zeros

LEMMA PaddingType ==
    ASSUME ArenaInv, NEW a \in Alignments
    PROVE  Padding(a) \in Nat /\ Padding(a) < a
<1>1. a \in Nat \ {0} /\ data_size \in Nat
  BY ArenaAssumption DEF ArenaInv, TypeOK
<1>2. QED BY <1>1, RoundUpFacts DEF Padding

\* Every step preserves the invariant.
LEMMA StepPreserves ==
    ASSUME U32Holds, ArenaInv, [Next]_vars
    PROVE  ArenaInv'
<1>0. staging_size \in Nat
  BY DEF ArenaInv, TypeOK
<1>1. ASSUME NEW n \in InitSizes, New(n) PROVE ArenaInv'
  BY <1>1, NewPreserves
<1>2. ASSUME NEW n \in ZeroedSizes, AddZeroed(n) PROVE ArenaInv'
  <2>1. n \in Nat
    BY <1>2, ArenaAssumption
  <2>2. QED BY <1>0, <1>2, <2>1, ZerosType, AddPreserves DEF AddZeroed
<1>3. ASSUME NEW n \in UnsetSizes, AddUnset(n) PROVE ArenaInv'
  <2>1. n \in Nat /\ <<>> \in Seq(Byte)
    BY <1>3, ArenaAssumption
  <2>2. QED BY <1>0, <1>3, <2>1, AddPreserves DEF AddUnset
<1>4. ASSUME NEW s \in Payload, AddData(s) PROVE ArenaInv'
  <2>1. s \in Seq(Byte)
    BY ArenaAssumption
  <2>2. Len(s) \in Nat
    BY <2>1
  <2>3. QED BY <1>0, <1>4, <2>1, <2>2, AddPreserves DEF AddData
<1>5. ASSUME NEW n \in TypedSizes, NEW v \in Byte, AddTyped(n, v) PROVE ArenaInv'
  <2>1. n \in Nat
    BY ArenaAssumption
  <2>2. [i \in 1..n |-> v] \in Seq(Byte) /\ n * staging_size \in Nat
    BY <1>0, <2>1
  <2>3. QED BY <1>5, <2>1, <2>2, AddPreserves DEF AddTyped
<1>6. ASSUME NEW a \in Alignments, AskAlignment(a) PROVE ArenaInv'
  <2>1. Padding(a) \in Nat
    BY PaddingType
  <2>2. AddBytes(Padding(a), staging_size, Zeros(Padding(a)))
    BY <1>6 DEF AskAlignment, AddZeroed
  <2>3. QED BY <1>0, <2>1, <2>2, ZerosType, AddPreserves
<1>7. CASE UNCHANGED vars
  BY <1>7 DEF vars, ArenaInv, TypeOK, Sizes, Valid, InContext
<1>8. QED
  BY <1>1, <1>2, <1>3, <1>4, <1>5, <1>6, <1>7, OthersPreserve DEF Next

-----------------------------------------------------------------------------
\* The invariant holds in every state.
THEOREM ArenaInvariant ==
    ASSUME U32Holds
    PROVE  Spec => []ArenaInv
<1>1. ArenaInv /\ [Next]_vars => ArenaInv'
  BY StepPreserves
<1>2. QED BY <1>1, InitEstablishes, PTL DEF Spec

\* The arena keeps its types, data_size within a U32 included.
THEOREM ArenaTypeCorrect ==
    ASSUME U32Holds
    PROVE  Spec => []TypeOK
<1>1. ArenaInv => TypeOK
  BY DEF ArenaInv
<1>2. QED BY <1>1, ArenaInvariant, PTL

\* An accepted addition leaves the sizes within the bound: a fit that ignores
\* the staged bytes leaves one, and a growth gains what the addition takes.
LEMMA AddBounded ==
    ASSUME U32Holds, ArenaInv, OverrunBounded, NEW size \in Nat, size <= GrowStep,
           NEW at, NEW s, AddBytes(size, at, s)
    PROVE  OverrunBounded'
<1>1. /\ InContext /\ Valid /\ staging_size - data_size <= MaxStaged
      /\ data_size' = data_size
  BY DEF AddBytes, InContext
<1>2. /\ data_size \in Nat /\ data_max_size \in 0..MaxU32 /\ staging_size \in Nat
      /\ MaxU32 \in Nat /\ MaxStaged \in Nat \ {0} /\ GrowStep \in Nat
      /\ data_size <= staging_size
      /\ data_size < data_max_size + MaxStaged
      /\ staging_size < data_max_size + MaxStaged
  BY <1>1, ArenaAssumption DEF ArenaInv, TypeOK, Sizes, OverrunBounded
<1>3. CASE UNCHANGED <<data_max_size, staging_size>>
  BY <1>1, <1>2, <1>3 DEF OverrunBounded, Valid
<1>4. CASE Accomodated(size) /\ staging_size' = staging_size + size
  <2>1. /\ data_max_size' \in data_max_size..MaxU32
        /\ \/ data_max_size' = data_max_size /\ data_size + size < data_max_size
           \/ data_max_size' >= data_max_size + GrowStep
           \/ data_max_size' = MaxU32
    BY <1>1, <1>4, RoomMade
  <2>2. staging_size + size <= MaxU32
    BY <1>4 DEF Accomodated
  <2>3. PICK max, new, start, end \in Nat :
          /\ max = data_max_size /\ new = data_max_size'
          /\ start = data_size /\ end = staging_size
    BY <1>2, <2>1
  <2>4. /\ max <= new /\ start <= end /\ end + size <= MaxU32
        /\ end < max + MaxStaged /\ start < max + MaxStaged
        /\ \/ new = max /\ start + size < max
           \/ new >= max + GrowStep
           \/ new = MaxU32
    BY <1>2, <2>1, <2>2, <2>3
  <2>5. end <= start + MaxStaged
    BY <1>1, <1>2, <2>3
  <2>6. end + size < new + MaxStaged /\ start < new + MaxStaged
    BY <1>2, <2>4, <2>5
  <2>7. QED BY <1>1, <1>4, <2>3, <2>6 DEF OverrunBounded
<1>5. QED BY <1>3, <1>4 DEF AddBytes

\* Nothing else moves a size past the end of the buffer.
LEMMA StepBounded ==
    ASSUME U32Holds, SmallAdditions, ArenaInv, OverrunBounded, [Next]_vars
    PROVE  OverrunBounded'
<1> USE ArenaAssumption
<1>1. /\ data_size \in Nat /\ data_max_size \in Nat /\ staging_size \in Nat
      /\ MaxStaged \in Nat \ {0}
  BY DEF ArenaInv, TypeOK
<1>2. ASSUME NEW n \in InitSizes, New(n) PROVE OverrunBounded'
  <2>1. ArenaInv'
    BY <1>2, NewPreserves
  <2>2. data_max_size' \in Nat /\ data_size' = MinSP /\ staging_size' = 0
    BY <1>2, <2>1 DEF New, ArenaInv, TypeOK, Sizes, Valid
  <2>3. MinSP <= RoundUp(RoundUp(n, MinSP), SizeRounding)
    <3>1. n \in Nat \ {0} /\ MinSP \in Nat \ {0} /\ SizeRounding \in Nat \ {0}
      OBVIOUS
    <3>2. RoundUp(n, MinSP) \in Nat /\ RoundUp(n, MinSP) >= MinSP
      BY <3>1, RoundUpReaches
    <3>3. PICK r \in Nat : r = RoundUp(n, MinSP)
      BY <3>2
    <3>4. RoundUp(r, SizeRounding) \in Nat /\ RoundUp(r, SizeRounding) >= r
      BY <3>1, RoundUpFacts
    <3>5. QED BY <3>1, <3>2, <3>3, <3>4
  <2>4. data_max_size' = RoundUp(RoundUp(n, MinSP), SizeRounding)
    BY <1>2 DEF New
  <2>5. QED BY <1>1, <2>2, <2>3, <2>4 DEF OverrunBounded
<1>3. ASSUME NEW n \in ZeroedSizes, AddZeroed(n) PROVE OverrunBounded'
  <2>1. n \in Nat /\ n <= GrowStep
    BY DEF SmallAdditions
  <2>2. QED BY <1>3, <2>1, AddBounded DEF AddZeroed
<1>4. ASSUME NEW n \in UnsetSizes, AddUnset(n) PROVE OverrunBounded'
  <2>1. n \in Nat /\ n <= GrowStep
    BY DEF SmallAdditions
  <2>2. QED BY <1>4, <2>1, AddBounded DEF AddUnset
<1>5. ASSUME NEW s \in Payload, AddData(s) PROVE OverrunBounded'
  <2>1. Len(s) \in Nat /\ Len(s) <= GrowStep
    BY DEF SmallAdditions
  <2>2. QED BY <1>5, <2>1, AddBounded DEF AddData
<1>6. ASSUME NEW n \in TypedSizes, NEW v \in Byte, AddTyped(n, v) PROVE OverrunBounded'
  <2>1. n \in Nat /\ n <= GrowStep
    BY DEF SmallAdditions
  <2>2. QED BY <1>6, <2>1, AddBounded DEF AddTyped
<1>7. ASSUME NEW a \in Alignments, AskAlignment(a) PROVE OverrunBounded'
  <2>1. Padding(a) \in Nat /\ Padding(a) <= GrowStep
    BY PaddingType DEF SmallAdditions
  <2>2. QED BY <1>7, <2>1, AddBounded DEF AskAlignment, AddZeroed
<1>8. CASE Begin \/ Commit \/ Dismiss
  BY <1>1, <1>8 DEF Begin, Commit, Dismiss, OverrunBounded, Valid, InContext
<1>9. CASE \E r \in MinSP..data_size : PopUpto(r)
  BY <1>1, <1>9 DEF PopUpto, OverrunBounded, Valid
<1>10. CASE Clear
  <2>1. MinSP <= data_size /\ Valid
    BY <1>10 DEF Clear, ArenaInv, Sizes
  <2>2. QED BY <1>1, <1>10, <2>1 DEF Clear, OverrunBounded, Valid
<1>11. CASE Del
  BY <1>11 DEF Del, OverrunBounded, Valid
<1>12. CASE UNCHANGED vars
  BY <1>12 DEF vars, OverrunBounded, Valid
<1>13. QED
  BY <1>2, <1>3, <1>4, <1>5, <1>6, <1>7, <1>8, <1>9, <1>10, <1>11, <1>12 DEF Next

\* However often a client adds, and however its contexts follow one another, the
\* sizes run past the buffer by fewer bytes than one context held staged when it
\* was last added to.
THEOREM OverrunIsBounded ==
    ASSUME U32Holds, SmallAdditions
    PROVE  Spec => []OverrunBounded
<1>1. Init => OverrunBounded
  BY DEF Init, OverrunBounded, Valid
<1>2. ArenaInv /\ OverrunBounded /\ [Next]_vars => OverrunBounded'
  BY StepBounded
<1>3. QED BY <1>1, <1>2, ArenaInvariant, PTL DEF Spec

\* A commit of some bytes returns a reference to them.
THEOREM CommitsAreValid ==
    ASSUME U32Holds
    PROVE  Spec => CommitReturnsValidRef
<1>1. ArenaInv /\ [Next]_vars
        => [Commit /\ staging_size > data_size /\ ~failed => Unpackable(ref)']_vars
  <2> SUFFICES ASSUME ArenaInv, Commit, staging_size > data_size, ~failed
               PROVE  Unpackable(ref)'
    OBVIOUS
  <2>1. QED
    BY ArenaAssumption
    DEF Commit, Unpackable, ArenaInv, TypeOK, Sizes, InContext, Valid
<1>2. QED BY <1>1, ArenaInvariant, PTL DEF CommitReturnsValidRef, Spec

-----------------------------------------------------------------------------
(* The bytes between two offsets, as a sequence.                           *)

\* All of them lie in the buffer.
Inside(buf, from, upto) ==
    \A j \in from..(upto - 1) : j \in DOMAIN buf /\ buf[j] \in Cell

\* They are a sequence of cells.
LEMMA BytesType ==
    ASSUME NEW buf, NEW from \in Nat, NEW upto \in Nat, from <= upto,
           Inside(buf, from, upto)
    PROVE  /\ Bytes(buf, from, upto) \in Seq(Cell)
           /\ Len(Bytes(buf, from, upto)) = upto - from
           /\ \A i \in 1..(upto - from) : Bytes(buf, from, upto)[i] = buf[from + i - 1]
<1>1. \A i \in 1..(upto - from) :
        from + i - 1 \in DOMAIN buf /\ buf[from + i - 1] \in Cell
  BY DEF Inside
<1>2. upto - from \in Nat
  OBVIOUS
<1>3. QED BY <1>1, <1>2 DEF Bytes

\* Buffers that agree between two offsets hold the same bytes there.
LEMMA BytesAgree ==
    ASSUME NEW buf, NEW new, NEW from \in Nat, NEW upto \in Nat,
           \A j \in from..(upto - 1) :
             j \in DOMAIN new /\ j \in DOMAIN buf /\ new[j] = buf[j]
    PROVE  Bytes(new, from, upto) = Bytes(buf, from, upto)
<1>1. \A i \in 1..(upto - from) :
        /\ from + i - 1 \in DOMAIN new /\ from + i - 1 \in DOMAIN buf
        /\ new[from + i - 1] = buf[from + i - 1]
  OBVIOUS
<1>2. QED BY <1>1 DEF Bytes

\* The bytes up to an offset, and those from it on, are all the bytes.
LEMMA BytesConcat ==
    ASSUME NEW buf, NEW a \in Nat, NEW b \in Nat, NEW c \in Nat, a <= b, b <= c,
           Inside(buf, a, c)
    PROVE  Bytes(buf, a, c) = Bytes(buf, a, b) \o Bytes(buf, b, c)
<1> DEFINE l == Bytes(buf, a, b)
           r == Bytes(buf, b, c)
           w == Bytes(buf, a, c)
<1>0. a <= c /\ Inside(buf, a, b) /\ Inside(buf, b, c)
  BY DEF Inside
<1>1. /\ l \in Seq(Cell) /\ Len(l) = b - a
      /\ \A i \in 1..(b - a) : l[i] = buf[a + i - 1]
  BY <1>0, BytesType
<1>2. /\ r \in Seq(Cell) /\ Len(r) = c - b
      /\ \A i \in 1..(c - b) : r[i] = buf[b + i - 1]
  BY <1>0, BytesType
<1>3. /\ w \in Seq(Cell) /\ Len(w) = c - a
      /\ \A i \in 1..(c - a) : w[i] = buf[a + i - 1]
  BY <1>0, BytesType
<1> HIDE DEF l, r, w
<1>4. /\ l \o r \in Seq(Cell) /\ Len(l \o r) = Len(l) + Len(r)
      /\ \A i \in 1..(Len(l) + Len(r)) :
           (l \o r)[i] = IF i <= Len(l) THEN l[i] ELSE r[i - Len(l)]
  BY <1>1, <1>2, ConcatProperties
<1>5. Len(w) = Len(l \o r)
  BY <1>1, <1>2, <1>3, <1>4
<1>6. ASSUME NEW i \in 1..Len(w) PROVE w[i] = (l \o r)[i]
  <2>1. w[i] = buf[a + i - 1] /\ i \in 1..(c - a) /\ i \in 1..(Len(l) + Len(r))
    BY <1>1, <1>2, <1>3
  <2>2. CASE i <= b - a
    <3>1. i \in 1..(b - a)
      BY <2>1, <2>2
    <3>2. (l \o r)[i] = l[i]
      BY <1>1, <1>4, <2>1, <2>2
    <3>3. QED BY <1>1, <2>1, <3>1, <3>2
  <2>3. CASE ~(i <= b - a)
    <3>1. i - (b - a) \in 1..(c - b)
      BY <2>1, <2>3
    <3>2. (l \o r)[i] = r[i - (b - a)]
      BY <1>1, <1>4, <2>1, <2>3
    <3>3. r[i - (b - a)] = buf[b + (i - (b - a)) - 1]
      BY <1>2, <3>1
    <3>4. b + (i - (b - a)) - 1 = a + i - 1
      BY <2>1
    <3>5. QED BY <2>1, <3>2, <3>3, <3>4
  <2>4. QED BY <2>2, <2>3
<1>7. w = l \o r
  BY <1>3, <1>4, <1>5, <1>6, SeqEqual
<1>8. QED BY <1>7 DEF l, r, w

\* What was written is what is read.
LEMMA PutBytes ==
    ASSUME NEW max \in Nat, NEW buf \in [0..(max - 1) -> Cell], NEW at \in Nat,
           NEW s \in Seq(Byte), at + Len(s) <= max
    PROVE  /\ Bytes(Put(buf, at, s), at, at + Len(s)) = s
           /\ \A j \in 0..(at - 1) : Put(buf, at, s)[j] = buf[j]
<1>1. Len(s) \in Nat /\ s \in Seq(Cell) /\ DOMAIN buf = 0..(max - 1)
  BY SeqMonotonic DEF Cell
<1>2. Put(buf, at, s) \in [0..(max - 1) -> Cell]
  BY PutType
<1> DEFINE w == Bytes(Put(buf, at, s), at, at + Len(s))
           new == Put(buf, at, s)
<1>0. DOMAIN Put(buf, at, s) = 0..(max - 1) /\ Inside(Put(buf, at, s), at, at + Len(s))
  BY <1>1, <1>2 DEF Inside
<1>3. /\ w \in Seq(Cell) /\ Len(w) = at + Len(s) - at
      /\ \A i \in 1..(at + Len(s) - at) : w[i] = Put(buf, at, s)[at + i - 1]
  <2>1. PICK upto \in Nat : upto = at + Len(s)
    BY <1>1
  <2>2. at <= upto /\ Inside(new, at, upto)
    BY <1>0, <1>1, <2>1
  <2> HIDE DEF new
  <2>3. /\ Bytes(new, at, upto) \in Seq(Cell) /\ Len(Bytes(new, at, upto)) = upto - at
        /\ \A i \in 1..(upto - at) : Bytes(new, at, upto)[i] = new[at + i - 1]
    BY <2>2, BytesType
  <2>4. QED BY <2>1, <2>3 DEF new
<1>4. ASSUME NEW i \in 1..Len(s) PROVE Put(buf, at, s)[at + i - 1] = s[i]
  <2>1. /\ at + i - 1 \in DOMAIN buf /\ at + i - 1 >= at /\ at + i - 1 < at + Len(s)
        /\ at + i - 1 - at + 1 = i
    BY <1>1
  <2>2. QED BY <2>1 DEF Put
<1> HIDE DEF w
<1>5. Len(w) = Len(s) /\ \A i \in 1..Len(w) : w[i] = s[i]
  <2>1. Len(w) = Len(s)
    BY <1>1, <1>3
  <2>2. ASSUME NEW i \in 1..Len(w) PROVE w[i] = s[i]
    <3>1. i \in 1..Len(s) /\ i \in 1..(at + Len(s) - at)
      BY <1>1, <2>1
    <3>2. QED BY <1>3, <1>4, <3>1
  <2>3. QED BY <2>1, <2>2
<1>6. w = s
  BY <1>1, <1>3, <1>5, SeqEqual
<1>7. ASSUME NEW j \in 0..(at - 1) PROVE Put(buf, at, s)[j] = buf[j]
  <2>1. j \in DOMAIN buf
    BY <1>1
  <2>2. QED BY <2>1 DEF Put
<1>8. QED BY <1>6, <1>7 DEF w

-----------------------------------------------------------------------------
(* The refinement.                                                         *)

\* In a context, where the bytes lie.
LEMMA Offsets ==
    ASSUME ArenaInv, StagedBytesFit, Valid
    PROVE  /\ MinSP \in Nat /\ data_size \in Nat /\ data_max_size \in Nat
           /\ MinSP <= data_size /\ data_size <= data_max_size
           /\ Inside(buffer, 0, data_max_size)
           /\ DOMAIN buffer = 0..(data_max_size - 1)
           /\ InContext => /\ staging_size \in Nat /\ data_size <= staging_size
                           /\ staging_size <= data_max_size
BY ArenaAssumption DEF ArenaInv, TypeOK, Sizes, StagedBytesFit, Inside

\* The committed bytes lie between base and start and the staged ones up to end,
\* in a buffer of max bytes that grows to top, where they are to reach upto.
Layout(max, top, base, start, end, upto) ==
    /\ max \in Nat /\ top \in Nat /\ base \in Nat
    /\ start \in Nat /\ end \in Nat /\ upto \in Nat
    /\ base <= start /\ start <= end /\ end <= max /\ max <= top
    /\ end <= upto /\ upto <= top

\* The buffer keeps its bytes as it grows, and then s is put in it.
PutInGrown(mem, max, mem1, top, at, s) ==
    \E grown \in [0..(top - 1) -> Cell] :
        /\ \A j \in 0..(max - 1) : grown[j] = mem[j]
        /\ mem1 = Put(grown, at, s)

\* Bytes put above the staged ones, in a buffer that keeps what it had, leave the
\* committed and the staged bytes as they are and extend the staged ones.
LEMMA PutAbove ==
    ASSUME NEW max, NEW top, NEW base, NEW start, NEW end, NEW upto, NEW at, NEW s,
           NEW mem, NEW mem1,
           Layout(max, top, base, start, end, upto),
           PutInGrown(mem, max, mem1, top, at, s),
           mem \in [0..(max - 1) -> Cell], s \in Seq(Byte), at \in Nat, end <= at
    PROVE  /\ Bytes(mem1, base, start) = Bytes(mem, base, start)
           /\ Len(Bytes(mem1, start, upto)) = Len(Bytes(mem, start, end)) + (upto - end)
           /\ \A i \in 1..Len(Bytes(mem, start, end)) :
                Bytes(mem1, start, upto)[i] = Bytes(mem, start, end)[i]
           /\ at = end /\ upto = end + Len(s)
                => Bytes(mem1, start, upto) = Bytes(mem, start, end) \o s
<1>0. PICK grown \in [0..(top - 1) -> Cell] :
        /\ \A j \in 0..(max - 1) : grown[j] = mem[j]
        /\ mem1 = Put(grown, at, s)
  BY DEF PutInGrown
<1>1. mem1 \in [0..(top - 1) -> Cell]
  BY <1>0, PutType DEF Layout
<1>2. /\ Inside(mem, start, end) /\ Inside(mem1, start, upto)
      /\ Inside(mem1, start, end) /\ Inside(mem1, end, upto)
  BY <1>1 DEF Inside, Layout
<1>3. ASSUME NEW j \in 0..(end - 1)
      PROVE  j \in DOMAIN mem1 /\ j \in DOMAIN mem /\ mem1[j] = mem[j]
  <2>1. j \in 0..(max - 1) /\ j \in DOMAIN grown /\ ~(j >= at)
    BY DEF Layout
  <2>2. mem1[j] = grown[j]
    BY <1>0, <2>1 DEF Put
  <2>3. QED BY <1>0, <1>1, <2>1, <2>2 DEF Layout
<1>4. Bytes(mem1, base, start) = Bytes(mem, base, start)
  <2>1. base \in Nat /\ start \in Nat
    BY DEF Layout
  <2>2. \A j \in base..(start - 1) : j \in 0..(end - 1)
    BY DEF Layout
  <2>3. \A j \in base..(start - 1) :
          j \in DOMAIN mem1 /\ j \in DOMAIN mem /\ mem1[j] = mem[j]
    BY <1>3, <2>2
  <2>4. QED BY <2>1, <2>3, BytesAgree
<1>5. Bytes(mem1, start, end) = Bytes(mem, start, end)
  <2>1. start \in Nat /\ end \in Nat
    BY DEF Layout
  <2>2. \A j \in start..(end - 1) : j \in 0..(end - 1)
    BY <2>1
  <2>3. \A j \in start..(end - 1) :
          j \in DOMAIN mem1 /\ j \in DOMAIN mem /\ mem1[j] = mem[j]
    BY <1>3, <2>2
  <2>4. QED BY <2>1, <2>3, BytesAgree
<1> DEFINE l == Bytes(mem, start, end)
           r == Bytes(mem1, end, upto)
<1>6. Bytes(mem1, start, upto) = l \o r
  <2>1. /\ start \in Nat /\ end \in Nat /\ upto \in Nat
        /\ start <= end /\ end <= upto
    BY DEF Layout
  <2>2. Bytes(mem1, start, upto) = Bytes(mem1, start, end) \o Bytes(mem1, end, upto)
    BY <1>2, <2>1, BytesConcat
  <2>3. QED BY <1>5, <2>2
<1>7. /\ l \in Seq(Cell) /\ Len(l) = end - start /\ r \in Seq(Cell) /\ Len(r) = upto - end
      /\ Len(l) \in Nat
  <2>1. /\ start \in Nat /\ end \in Nat /\ upto \in Nat
        /\ start <= end /\ end <= upto
    BY DEF Layout
  <2>2. l \in Seq(Cell) /\ Len(l) = end - start
    BY <1>2, <2>1, BytesType
  <2>3. r \in Seq(Cell) /\ Len(r) = upto - end
    BY <1>2, <2>1, BytesType
  <2>4. QED BY <2>2, <2>3
<1>8. ASSUME at = end, upto = end + Len(s) PROVE r = s
  <2>1. Len(s) \in Nat /\ at + Len(s) <= top /\ top \in Nat
    BY <1>8 DEF Layout
  <2>2. Bytes(Put(grown, at, s), at, at + Len(s)) = s
    BY <1>0, <2>1, PutBytes
  <2>3. QED BY <1>0, <1>8, <2>2
<1> HIDE DEF l, r
<1>9. /\ Len(l \o r) = Len(l) + Len(r)
      /\ \A i \in 1..(Len(l) + Len(r)) :
           (l \o r)[i] = IF i <= Len(l) THEN l[i] ELSE r[i - Len(l)]
  BY <1>7, ConcatProperties
<1>10. Len(Bytes(mem1, start, upto)) = Len(l) + (upto - end)
  BY <1>6, <1>7, <1>9
<1>11. ASSUME NEW i \in 1..Len(l) PROVE Bytes(mem1, start, upto)[i] = l[i]
  <2>1. i \in 1..(Len(l) + Len(r)) /\ i <= Len(l)
    BY <1>7
  <2>2. QED BY <1>6, <1>9, <2>1
<1>12. QED BY <1>4, <1>6, <1>8, <1>10, <1>11 DEF l

\* A successful addition appends to the staged bytes and leaves the committed
\* ones as they are, the buffer having moved or not.
LEMMA AddAppends ==
    ASSUME U32Holds, ArenaInv, StagedBytesFit, StagedBytesFit',
           NEW size \in Nat, NEW at \in Nat, NEW s \in Seq(Byte), at >= staging_size,
           AddBytes(size, at, s), ~failed'
    PROVE  /\ InContext /\ InContext' /\ ~failed
           /\ size <= MaxU32
           /\ CommittedBytes' = CommittedBytes
           /\ Len(StagedBytes') = Len(StagedBytes) + size
           /\ \A i \in 1..Len(StagedBytes) : StagedBytes'[i] = StagedBytes[i]
           /\ Len(s) = size /\ at = staging_size => StagedBytes' = StagedBytes \o s
<1> DEFINE old == IF data_max_size' = data_max_size
                  THEN buffer ELSE Extended(data_max_size')
<1>1. InContext /\ Valid /\ data_size' = data_size
  BY DEF AddBytes, InContext
<1>2. /\ Accomodated(size)
      /\ buffer' = Put(old, at, s)
      /\ staging_size' = staging_size + size
      /\ failed' = failed
  BY DEF AddBytes
<1>3. /\ MinSP \in Nat /\ data_size \in Nat /\ data_max_size \in Nat /\ staging_size \in Nat
      /\ MinSP <= data_size /\ data_size <= staging_size /\ staging_size <= data_max_size
      /\ MaxU32 \in Nat /\ size \in Nat /\ staging_size # 0 /\ data_max_size # 0
      /\ buffer \in [0..(data_max_size - 1) -> Cell]
  BY <1>1, Offsets, ArenaAssumption DEF InContext, Valid, ArenaInv, TypeOK
<1>4. /\ data_max_size' \in Nat /\ data_max_size <= data_max_size' /\ data_max_size' # 0
      /\ staging_size' <= data_max_size' /\ staging_size' \in Nat /\ staging_size' # 0
      /\ staging_size <= staging_size' /\ staging_size' - staging_size = size
  <2>1. data_max_size' \in data_max_size..MaxU32 /\ data_max_size' # 0
    BY <1>1, <1>2, RoomMade
  <2>2. QED BY <1>2, <1>3, <2>1 DEF StagedBytesFit
<1>5. old \in [0..(data_max_size' - 1) -> Cell]
  BY <1>3, <1>4, ExtendedType DEF ArenaInv
<1>6. \A j \in 0..(data_max_size - 1) : old[j] = buffer[j]
  <2>1. ASSUME NEW j \in 0..(data_max_size - 1) PROVE old[j] = buffer[j]
    <3>1. j \in 0..(data_max_size' - 1) /\ j < data_max_size
      BY <1>3, <1>4
    <3>2. QED BY <3>1 DEF Extended
  <2>2. QED BY <2>1
<1> HIDE DEF old
<1>7. /\ Bytes(buffer', MinSP, data_size) = Bytes(buffer, MinSP, data_size)
      /\ Len(Bytes(buffer', data_size, staging_size'))
           = Len(Bytes(buffer, data_size, staging_size)) + (staging_size' - staging_size)
      /\ \A i \in 1..Len(Bytes(buffer, data_size, staging_size)) :
           Bytes(buffer', data_size, staging_size')[i]
             = Bytes(buffer, data_size, staging_size)[i]
      /\ at = staging_size /\ staging_size' = staging_size + Len(s)
           => Bytes(buffer', data_size, staging_size')
                = Bytes(buffer, data_size, staging_size) \o s
  <2>1. Layout(data_max_size, data_max_size', MinSP, data_size, staging_size, staging_size')
    BY <1>3, <1>4 DEF Layout
  <2>2. PutInGrown(buffer, data_max_size, buffer', data_max_size', at, s)
    BY <1>2, <1>5, <1>6 DEF PutInGrown
  <2>3. /\ buffer \in [0..(data_max_size - 1) -> Cell] /\ s \in Seq(Byte)
        /\ at \in Nat /\ staging_size <= at
    BY <1>3
  <2>4. PICK top, upto, new : top = data_max_size' /\ upto = staging_size' /\ new = buffer'
    OBVIOUS
  <2>5. /\ Layout(data_max_size, top, MinSP, data_size, staging_size, upto)
        /\ PutInGrown(buffer, data_max_size, new, top, at, s)
    BY <2>1, <2>2, <2>4
  <2>6. /\ Bytes(new, MinSP, data_size) = Bytes(buffer, MinSP, data_size)
        /\ Len(Bytes(new, data_size, upto))
             = Len(Bytes(buffer, data_size, staging_size)) + (upto - staging_size)
        /\ \A i \in 1..Len(Bytes(buffer, data_size, staging_size)) :
             Bytes(new, data_size, upto)[i] = Bytes(buffer, data_size, staging_size)[i]
        /\ at = staging_size /\ upto = staging_size + Len(s)
             => Bytes(new, data_size, upto) = Bytes(buffer, data_size, staging_size) \o s
    BY <2>3, <2>5, PutAbove
  <2>7. QED BY <2>4, <2>6
<1>8. InContext' /\ Valid'
  BY <1>4 DEF InContext, Valid
<1>9. /\ CommittedBytes = Bytes(buffer, MinSP, data_size)
      /\ CommittedBytes' = Bytes(buffer', MinSP, data_size)
      /\ StagedBytes = Bytes(buffer, data_size, staging_size)
      /\ StagedBytes' = Bytes(buffer', data_size, staging_size')
  BY <1>1, <1>8 DEF CommittedBytes, StagedBytes
<1>10. ~failed /\ size <= MaxU32
  BY <1>2, <1>3 DEF Accomodated
<1>11. QED BY <1>1, <1>2, <1>4, <1>7, <1>8, <1>9, <1>10

\* A refused addition changes nothing but the context's failure.
LEMMA AddRefused ==
    ASSUME ArenaInv, NEW size, NEW at, NEW s, AddBytes(size, at, s), failed'
    PROVE  Client!AddFails
<1>1. ~(Accomodated(size) /\ UNCHANGED failed)
  BY DEF Accomodated
<1>2. /\ InContext /\ failed' = TRUE
      /\ UNCHANGED <<buffer, data_max_size, staging_size, data_size>>
  BY <1>1 DEF AddBytes
<1>3. QED
  BY <1>2
  DEF Client!AddFails, CommittedBytes, StagedBytes, InContext, Valid

\* An addition of a string appends it, or fails.
LEMMA AddRefines ==
    ASSUME U32Holds, ArenaInv, StagedBytesFit, StagedBytesFit',
           NEW s \in Seq(Byte), s \in Added, AddBytes(Len(s), staging_size, s)
    PROVE  Client!Next
<1>1. CASE failed'
  BY <1>1, AddRefused DEF Client!Next
<1>2. CASE ~failed'
  <2>1. /\ InContext /\ InContext' /\ ~failed
        /\ CommittedBytes' = CommittedBytes
        /\ StagedBytes' = StagedBytes \o s
    <3>1. Len(s) \in Nat /\ staging_size \in Nat
      BY DEF ArenaInv, TypeOK
    <3>2. staging_size >= staging_size
      BY <3>1
    <3>3. /\ InContext /\ InContext' /\ ~failed
          /\ CommittedBytes' = CommittedBytes
          /\ Len(s) = Len(s) /\ staging_size = staging_size
               => StagedBytes' = StagedBytes \o s
      BY <1>2, <3>1, <3>2, AddAppends
    <3>4. QED BY <3>3
  <2>2. failed' = failed
    BY <1>2 DEF AddBytes
  <2>3. Client!Add(s)
    BY <2>1, <2>2 DEF Client!Add
  <2>4. QED BY <2>3 DEF Client!Next
<1>3. QED BY <1>1, <1>2

\* An addition of bytes left as they are, or of a wide value that is written
\* further up, makes room, or fails.
LEMMA AddUnsetRefines ==
    ASSUME U32Holds, ArenaInv, StagedBytesFit, StagedBytesFit',
           NEW n \in LeftUnset, n \in Nat, NEW at \in Nat, at >= staging_size,
           NEW s \in Seq(Byte), AddBytes(n, at, s)
    PROVE  Client!Next
<1>1. CASE failed'
  BY <1>1, AddRefused DEF Client!Next
<1>2. CASE ~failed'
  <2>1. /\ InContext /\ InContext' /\ ~failed
        /\ CommittedBytes' = CommittedBytes
        /\ Len(StagedBytes') = Len(StagedBytes) + n
        /\ \A i \in 1..Len(StagedBytes) : StagedBytes'[i] = StagedBytes[i]
    BY <1>2, AddAppends
  <2>2. failed' = failed
    BY <1>2 DEF AddBytes
  <2>3. Client!AddUnset(n)
    BY <2>1, <2>2 DEF Client!AddUnset
  <2>4. QED BY <2>3 DEF Client!Next
<1>3. QED BY <1>1, <1>2

\* No bytes lie between an offset and itself.
LEMMA NoBytes == \A buf : \A a \in Nat : Bytes(buf, a, a) = <<>>
<1>1. SUFFICES ASSUME NEW buf, NEW a \in Nat PROVE Bytes(buf, a, a) = <<>>
  OBVIOUS
<1>2. 1..(a - a) = {}
  OBVIOUS
<1>3. QED BY <1>2 DEF Bytes

\* Commit makes the staged bytes visible, all or none of them.
LEMMA CommitRefines ==
    ASSUME ArenaInv, StagedBytesFit, Commit
    PROVE  Client!Commit
<1>1. InContext /\ Valid /\ Valid' /\ ~InContext'
  BY DEF Commit, InContext, Valid
<1>2. failed' = FALSE /\ StagedBytes' = <<>> /\ InContext' = FALSE
  BY <1>1 DEF Commit, StagedBytes
<1>3. CASE failed
  <2>1. UNCHANGED <<buffer, data_size>>
    BY <1>3 DEF Commit
  <2>2. CommittedBytes' = CommittedBytes
    BY <1>1, <2>1 DEF CommittedBytes
  <2>3. QED BY <1>1, <1>2, <1>3, <2>2 DEF Client!Commit, Client!Close
<1>4. CASE ~failed
  <2>1. buffer' = buffer /\ data_size' = staging_size
    BY <1>4 DEF Commit
  <2>2. PICK buf, base, start, end : buf = buffer /\ base = MinSP /\ start = data_size
                                     /\ end = staging_size
    OBVIOUS
  <2>3. /\ base \in Nat /\ start \in Nat /\ end \in Nat /\ base <= start /\ start <= end
        /\ Inside(buf, base, end)
    BY <1>1, <2>2, Offsets DEF Inside
  <2>4. Bytes(buf, base, end) = Bytes(buf, base, start) \o Bytes(buf, start, end)
    BY <2>3, BytesConcat
  <2>5. /\ CommittedBytes = Bytes(buf, base, start) /\ StagedBytes = Bytes(buf, start, end)
        /\ CommittedBytes' = Bytes(buf, base, end)
    BY <1>1, <2>1, <2>2 DEF CommittedBytes, StagedBytes
  <2>6. QED BY <1>1, <1>2, <1>4, <2>4, <2>5 DEF Client!Commit, Client!Close
<1>5. QED BY <1>3, <1>4

\* Popping keeps the first of the committed bytes.
LEMMA PopRefines ==
    ASSUME ArenaInv, StagedBytesFit, Valid, staging_size = 0, staging_size' = 0, failed' = FALSE,
           UNCHANGED <<buffer, data_max_size>>,
           data_size' \in Nat, MinSP <= data_size', data_size' <= data_size
    PROVE  Client!Pop
<1>1. PICK buf, base, top, low : buf = buffer /\ base = MinSP /\ top = data_size
                                 /\ low = data_size'
  OBVIOUS
<1>2. /\ base \in Nat /\ top \in Nat /\ low \in Nat /\ base <= low /\ low <= top
      /\ base <= top /\ Inside(buf, base, top)
  BY <1>1, Offsets DEF Inside
<1>3. /\ Len(Bytes(buf, base, top)) = top - base
      /\ \A i \in 1..(top - base) : Bytes(buf, base, top)[i] = buf[base + i - 1]
  BY <1>2, BytesType
<1>4. Inside(buf, base, low)
  BY <1>2 DEF Inside
<1>5. /\ Len(Bytes(buf, base, low)) = low - base
      /\ \A i \in 1..(low - base) : Bytes(buf, base, low)[i] = buf[base + i - 1]
  BY <1>2, <1>4, BytesType
<1>6. /\ CommittedBytes = Bytes(buf, base, top) /\ CommittedBytes' = Bytes(buf, base, low)
  BY <1>1 DEF CommittedBytes, Valid
<1>7. /\ Len(CommittedBytes') <= Len(CommittedBytes)
      /\ \A i \in 1..Len(CommittedBytes') : CommittedBytes'[i] = CommittedBytes[i]
  BY <1>2, <1>3, <1>5, <1>6
<1>8. ~InContext /\ ~InContext' /\ StagedBytes = <<>> /\ StagedBytes' = <<>>
  BY DEF InContext, StagedBytes
<1>9. failed' = failed
  BY <1>8 DEF ArenaInv, Sizes, TypeOK
<1>10. QED BY <1>7, <1>8, <1>9 DEF Client!Pop, InContext

\* The other operations.
LEMMA OthersRefine ==
    ASSUME ArenaInv, StagedBytesFit,
           \/ \E n \in InitSizes : New(n)
           \/ Begin \/ Dismiss \/ Clear \/ Del
           \/ \E r \in MinSP..data_size : PopUpto(r)
    PROVE  [Client!Next]_(Client!vars)
<1>1. MinSP \in Nat \ {0} /\ MinSP <= MinSP
  BY ArenaAssumption
<1>2. CASE \E n \in InitSizes : New(n)
  <2>1. data_size' = MinSP /\ ~Valid /\ staging_size' = 0 /\ failed' = failed
    BY <1>2 DEF New, ArenaInv, Sizes, Valid
  <2>2. CommittedBytes' = <<>> /\ CommittedBytes = <<>>
    BY <1>1, <2>1, NoBytes DEF CommittedBytes
  <2>3. /\ InContext' = FALSE /\ InContext = FALSE
        /\ StagedBytes' = <<>> /\ StagedBytes = <<>>
    BY <2>1 DEF InContext, StagedBytes
  <2>4. QED BY <2>1, <2>2, <2>3 DEF Client!vars
<1>3. CASE Begin
  <2>1. /\ Valid /\ staging_size = 0 /\ staging_size' = data_size
        /\ UNCHANGED <<buffer, data_size, data_max_size, failed>>
    BY <1>3 DEF Begin
  <2>2. data_size \in Nat /\ data_size # 0
    BY <1>1, <2>1, Offsets
  <2>3. InContext = FALSE /\ InContext' = TRUE /\ CommittedBytes' = CommittedBytes
    BY <2>1, <2>2 DEF InContext, Valid, CommittedBytes
  <2>4. StagedBytes = <<>> /\ StagedBytes' = <<>>
    BY <2>1, <2>2, <2>3, NoBytes DEF StagedBytes
  <2>5. Client!Begin
    BY <2>1, <2>3, <2>4 DEF Client!Begin
  <2>6. QED BY <2>5 DEF Client!Next
<1>4. CASE Dismiss
  <2>1. /\ InContext /\ InContext' = FALSE /\ failed' = FALSE /\ StagedBytes' = <<>>
        /\ CommittedBytes' = CommittedBytes
    BY <1>4 DEF Dismiss, InContext, Valid, StagedBytes, CommittedBytes
  <2>2. Client!Dismiss
    BY <2>1 DEF Client!Dismiss, Client!Close
  <2>3. QED BY <2>2 DEF Client!Next
<1>5. CASE Clear
  <2>1. data_size' = MinSP /\ MinSP <= data_size
    BY <1>5, Offsets DEF Clear
  <2>2. Client!Pop
    BY <1>1, <1>5, <2>1, PopRefines DEF Clear
  <2>3. QED BY <2>2 DEF Client!Next
<1>6. CASE Del
  <2>1. /\ InContext' = FALSE /\ failed' = FALSE /\ StagedBytes' = <<>>
        /\ CommittedBytes' = <<>>
    BY <1>6 DEF Del, InContext, Valid, StagedBytes, CommittedBytes
  <2>2. Client!Delete
    BY <2>1 DEF Client!Delete
  <2>3. QED BY <2>2 DEF Client!Next
<1>7. CASE \E r \in MinSP..data_size : PopUpto(r)
  <2>1. PICK r \in MinSP..data_size : PopUpto(r)
    BY <1>7
  <2>2. data_size' \in Nat /\ MinSP <= data_size' /\ data_size' <= data_size
    BY <1>1, <2>1, Offsets DEF PopUpto
  <2>3. failed' = FALSE /\ staging_size' = 0
    BY <2>1 DEF PopUpto, ArenaInv, Sizes, TypeOK, InContext
  <2>4. Client!Pop
    BY <2>1, <2>2, <2>3, PopRefines DEF PopUpto
  <2>5. QED BY <2>4 DEF Client!Next
<1>8. QED BY <1>2, <1>3, <1>4, <1>5, <1>6, <1>7

\* Every step of the arena that leaves its bytes inside the buffer is a step of
\* the abstract stack, or none.
LEMMA StepRefines ==
    ASSUME U32Holds, ArenaInv, StagedBytesFit, StagedBytesFit', [Next]_vars
    PROVE  [Client!Next]_(Client!vars)
<1>0. MaxU32 \in Nat /\ staging_size \in Nat
  BY ArenaAssumption DEF ArenaInv, TypeOK
<1>1. ASSUME NEW n \in Nat, AddZeroed(n) PROVE Client!Next
  <2>1. Zeros(n) \in Seq(Byte) /\ Len(Zeros(n)) = n
    BY ZerosType
  <2>2. AddBytes(Len(Zeros(n)), staging_size, Zeros(n))
    BY <1>1, <2>1 DEF AddZeroed
  <2>3. CASE failed'
    BY <2>2, <2>3, AddRefused DEF Client!Next
  <2>4. CASE ~failed'
    <3>1. n <= MaxU32
      BY <1>0, <2>1, <2>2, <2>4, AddAppends
    <3>2. Zeros(n) \in Added
      BY <1>0, <3>1 DEF Added
    <3>3. QED BY <2>1, <2>2, <3>2, AddRefines
  <2>5. QED BY <2>3, <2>4
<1>2. ASSUME NEW n \in ZeroedSizes, AddZeroed(n) PROVE Client!Next
  <2>1. n \in Nat
    BY ArenaAssumption
  <2>2. QED BY <1>1, <1>2, <2>1
<1>3. ASSUME NEW s \in Payload, AddData(s) PROVE Client!Next
  <2>1. s \in Seq(Byte) /\ s \in Added
    BY ArenaAssumption DEF Added
  <2>2. QED BY <1>3, <2>1, AddRefines DEF AddData
<1>4. ASSUME NEW n \in UnsetSizes, AddUnset(n) PROVE Client!Next
  <2>1. n \in LeftUnset /\ n \in Nat /\ <<>> \in Seq(Byte) /\ staging_size >= staging_size
    BY <1>0, ArenaAssumption DEF LeftUnset
  <2>2. QED BY <1>0, <1>4, <2>1, AddUnsetRefines DEF AddUnset
<1>5. ASSUME NEW v \in Byte, AddTyped(1, v) PROVE Client!Next
  <2> DEFINE s == [i \in 1..1 |-> v]
  <2>1. s \in Seq(Byte) /\ Len(s) = 1
    OBVIOUS
  <2>2. s \in Added
    BY DEF Added
  <2>3. 1 * staging_size = staging_size
    BY <1>0
  <2>4. AddBytes(Len(s), staging_size, s)
    BY <1>5, <2>1, <2>3 DEF AddTyped
  <2> HIDE DEF s
  <2>5. QED BY <2>1, <2>2, <2>4, AddRefines
<1>6. ASSUME NEW n \in TypedSizes, NEW v \in Byte, AddTyped(n, v), n # 1 PROVE Client!Next
  <2>1. n \in LeftUnset /\ n \in Nat /\ n >= 1
    BY <1>6, ArenaAssumption DEF LeftUnset
  <2>2. n * staging_size \in Nat /\ n * staging_size >= staging_size
    <3>1. \A k, x \in Nat : k >= 1 => k * x \in Nat /\ k * x >= x
      OBVIOUS
    <3>2. QED BY <1>0, <2>1, <3>1
  <2>3. [i \in 1..n |-> v] \in Seq(Byte)
    BY <2>1
  <2>4. QED BY <1>6, <2>1, <2>2, <2>3, AddUnsetRefines DEF AddTyped
<1>7. ASSUME NEW a \in Alignments, AskAlignment(a) PROVE Client!Next
  BY <1>1, <1>7, PaddingType DEF AskAlignment
<1>8. CASE UNCHANGED vars
  BY <1>8 DEF vars, Client!vars, CommittedBytes, StagedBytes, InContext, Valid
<1>9. CASE Commit
  BY <1>9, CommitRefines DEF Client!Next
<1>10. QED
  BY <1>2, <1>3, <1>4, <1>5, <1>6, <1>7, <1>8, <1>9, OthersRefine DEF Next

\* The arena begins as the abstract stack does.
LEMMA InitRefines == Init => Client!Init
BY DEF Init, Client!Init, CommittedBytes, StagedBytes, InContext, Valid

\* Whatever its client adds, the arena does nothing the abstract stack does not
\* do, as long as what it accepted lies in the buffer.
THEOREM ArenaRefinesWhileFit ==
    ASSUME U32Holds
    PROVE  Spec => RefinesWhileFit
<1>1. ArenaInv /\ [Next]_vars
        => [StagedBytesFit /\ StagedBytesFit' => [Client!Next]_(Client!vars)]_vars
  BY StepRefines
<1>2. QED
  BY <1>1, InitRefines, ArenaInvariant, PTL DEF Spec, RefinesWhileFit

\* So that a behaviour in which every addition fits is one of the stack.
THEOREM ArenaRefinesAtomicStack ==
    ASSUME U32Holds
    PROVE  Spec /\ []StagedBytesFit => RefinesAtomicStack
<1>1. ArenaInv /\ StagedBytesFit /\ StagedBytesFit' /\ [Next]_vars
        => [Client!Next]_(Client!vars)
  BY StepRefines
<1>2. QED
  BY <1>1, InitRefines, ArenaInvariant, PTL DEF Spec, RefinesAtomicStack, Client!Spec
=============================================================================

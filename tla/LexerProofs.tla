----------------------------- MODULE LexerProofs -----------------------------
(***************************************************************************)
(* The lexer for every input, client, size of the staging area, arena and  *)
(* memory granted: its types, the staging area, and the lengths of tokens; *)
(* that the arena is walked from token to token; as long as the staging    *)
(* area did not overflow (NotOverfull), positions, the end of the input,   *)
(* that the texts of tokens are what was taken, what strings decode to, and*)
(* that the tokens are consecutive stretches of the input; and that it does*)
(* not overflow and the assertion of staging_area_enqueue holds, when few  *)
(* backslashes are misplaced.                                              *)
(***************************************************************************)
EXTENDS Lexer, SequenceTheorems, FiniteSetTheorems, TLAPS

-----------------------------------------------------------------------------
(* Positions in the ring, which has one more than StagingMax.              *)

LEMMA IncTyped ==
    ASSUME NEW i \in Positions
    PROVE  Inc(i) \in Positions
BY StagingAssumption DEF Inc, Positions

LEMMA DistanceTyped ==
    ASSUME NEW i \in Positions, NEW j \in Positions
    PROVE  /\ Distance(i, j) \in 0..StagingMax
           /\ (Distance(i, j) = 0) <=> (i = j)
BY StagingAssumption DEF Distance, Positions

\* One position further, unless that is where the ring began.
LEMMA DistanceGrows ==
    ASSUME NEW i \in Positions, NEW j \in Positions, Distance(i, j) # StagingMax
    PROVE  Distance(i, Inc(j)) = Distance(i, j) + 1
BY StagingAssumption DEF Distance, Inc, Positions

LEMMA DistanceShrinks ==
    ASSUME NEW i \in Positions, NEW j \in Positions, i # j
    PROVE  Distance(Inc(i), j) = Distance(i, j) - 1
BY StagingAssumption DEF Distance, Inc, Positions

LEMMA IndexTyped ==
    ASSUME NEW i \in Positions, NEW k \in 0..StagingMax
    PROVE  Index(i, k) \in Positions
BY StagingAssumption DEF Index, Positions

LEMMA IndexOfDistance ==
    ASSUME NEW i \in Positions, NEW j \in Positions
    PROVE  Index(i, Distance(i, j)) = j
BY StagingAssumption DEF Index, Distance, Positions

\* Different distances are different positions.
LEMMA IndexApart ==
    ASSUME NEW i \in Positions, NEW k \in 0..StagingMax, NEW m \in 0..StagingMax, k # m
    PROVE  Index(i, k) # Index(i, m)
BY StagingAssumption DEF Index, Positions

LEMMA IndexFromNext ==
    ASSUME NEW i \in Positions, NEW k \in 0..(StagingMax - 1)
    PROVE  Index(Inc(i), k) = Index(i, k + 1)
BY StagingAssumption DEF Index, Inc, Positions

-----------------------------------------------------------------------------
(* What every operation on a lexer keeps.                                  *)

Arena == [data_size : Nat, data_max : Nat, spilled : BOOLEAN]

LexRec ==
    [src : Seq(Byte), off : Nat, start_it : Positions, end_it : Positions,
     it : Positions, buf : [Positions -> Byte], err : SUBSET Errors,
     emitted_cnt : Nat, line_num : Nat, column : Nat, arena : Arena,
     text : Seq(Byte), room : Nat, failed : BOOLEAN, taken : Nat,
     full : BOOLEAN, asserted : BOOLEAN]

\* Byte k of an input, as next() shows it.
Shown(s, k) == IF k <= Len(s) THEN s[k] ELSE Nul

Smaller(a, b) == IF a < b THEN a ELSE b

\* No byte was enqueued that made end_it meet start_it.
NotOverfull == ~lx.full

StagedBytes(l) ==
    \A k \in 1..Staged(l) : l.buf[Index(l.start_it, k - 1)] = Shown(l.src, l.taken + k)

\* The staged bytes follow those taken, and the stream has given both.
InStep(l) ==
    /\ Distance(l.start_it, l.it) <= Staged(l)
    /\ StagedBytes(l)
    /\ l.off = Smaller(l.taken + Staged(l), Len(l.src))

Sound(l) ==
    /\ l \in LexRec
    /\ l.off <= Len(l.src)
    /\ ~l.full => InStep(l)

\* lex_emit counts what the arena took.
Counted(l) == ~l.failed => l.emitted_cnt = Len(l.text)

\* Where the tokens committed end.
DataEnd ==
    IF tokens = <<>> THEN ArenaBegin
    ELSE LET t == tokens[Len(tokens)] IN t.ref + TokenSize + Len(t.text) + 1

\* The arena's data ends there.
Placed(l) == l.arena.data_size = DataEnd

Fine(l) == Sound(l) /\ Counted(l) /\ Placed(l)

\* An addition that may make the arena grow leaves its data as it is.
LEMMA AccomodatedTyped ==
    ASSUME NEW a \in Arena, NEW n \in Nat, NEW k \in Nat
    PROVE  /\ Accomodated(a, n, k) \in Arena
           /\ Accomodated(a, n, k).data_size = a.data_size
<1> DEFINE max == IF a.data_size + n < a.data_max THEN a.data_max ELSE Grown(a.data_max)
           spilled == a.spilled \/ a.data_size + k + n > max
<1>1. a.data_size \in Nat /\ a.data_max \in Nat /\ a.spilled \in BOOLEAN  BY DEF Arena
<1>2. max \in Nat  BY <1>1, TokenAssumption DEF Grown
<1>3. spilled \in BOOLEAN  OBVIOUS
<1>4. Accomodated(a, n, k) = [a EXCEPT !.data_max = max, !.spilled = spilled]
  BY DEF Accomodated
<1> HIDE DEF max, spilled
<1> QED  BY <1>2, <1>3, <1>4 DEF Arena

LEMMA Bytes == Nul \in Byte
BY ByteAssumption DEF Nul

LEMMA NextCharTyped ==
    ASSUME NEW l, Sound(l)
    PROVE  NextChar(l) \in Byte /\ DequeChar(l) \in Byte
<1>1. /\ l.src \in Seq(Byte) /\ l.off \in Nat
      /\ l.buf \in [Positions -> Byte] /\ l.it \in Positions /\ l.start_it \in Positions
  BY DEF Sound, LexRec
<1>2. HasByte(l) => StreamByte(l) \in Byte
  BY <1>1 DEF HasByte, StreamByte
<1>3. l.off + 1 < Len(l.src) => StreamByte(l) \in Byte
  BY <1>1 DEF StreamByte
<1>4. l.buf[l.it] \in Byte /\ l.buf[l.start_it] \in Byte  BY <1>1
<1> QED  BY <1>2, <1>3, <1>4, Bytes DEF NextChar, DequeChar

LEMMA UndoKeeps ==
    ASSUME NEW l, Sound(l)
    PROVE  /\ Sound(Undo(l)) /\ Undo(l).it = Undo(l).start_it
           /\ Counted(l) => Counted(Undo(l))
           /\ Undo(l).emitted_cnt = l.emitted_cnt /\ Undo(l).arena = l.arena
<1> DEFINE u == Undo(l)
<1>1. l \in LexRec  BY DEF Sound
<1>2. u \in LexRec
  BY <1>1 DEF LexRec, Undo
<1>3. /\ u.src = l.src /\ u.off = l.off /\ u.start_it = l.start_it /\ u.end_it = l.end_it
      /\ u.it = l.start_it /\ u.buf = l.buf /\ u.taken = l.taken /\ u.full = l.full
      /\ u.text = l.text /\ u.failed = l.failed /\ u.emitted_cnt = l.emitted_cnt
      /\ u.arena = l.arena
  BY <1>1 DEF LexRec, Undo
<1> HIDE DEF u
<1>4. ~u.full => InStep(u)
  <2> SUFFICES ASSUME ~u.full PROVE InStep(u)  OBVIOUS
  <2>1. InStep(l)  BY <1>3 DEF Sound
  <2>2. l.start_it \in Positions /\ l.end_it \in Positions  BY <1>1 DEF LexRec
  <2>3. Distance(u.start_it, u.it) <= Staged(u)
    BY <1>3, <2>2, DistanceTyped DEF Staged
  <2>4. Staged(u) = Staged(l)  BY <1>3 DEF Staged
  <2> QED  BY <1>3, <2>1, <2>3, <2>4 DEF InStep, StagedBytes
<1> QED  BY <1>2, <1>3, <1>4 DEF Sound, Counted, u

\* What next() stages is the input's next byte, in the next position.
LEMMA FetchedKeeps ==
    ASSUME NEW l, Sound(l), l.it = l.end_it
    PROVE  LET f == Fetched(l) IN
           /\ f \in LexRec /\ f.off <= Len(f.src)
           /\ ~f.full =>
                /\ StagedBytes(f) /\ f.off = Smaller(f.taken + Staged(f), Len(f.src))
                /\ Staged(f) = Staged(l) + 1
                /\ Distance(f.start_it, f.it) = Staged(l)
           /\ f.it = l.it /\ f.arena = l.arena
           /\ f.text = l.text /\ f.failed = l.failed /\ f.emitted_cnt = l.emitted_cnt
<1> DEFINE f == Fetched(l)
           c == NextChar(l)
           more == IF HasByte(l) THEN l.off + 1 ELSE l.off
<1>1. /\ l \in LexRec
      /\ l.src \in Seq(Byte) /\ l.off \in Nat /\ l.taken \in Nat
      /\ l.buf \in [Positions -> Byte] /\ l.full \in BOOLEAN /\ l.err \in SUBSET Errors
      /\ l.start_it \in Positions /\ l.end_it \in Positions
      /\ l.off <= Len(l.src) /\ Len(l.src) \in Nat
  BY DEF Sound, LexRec
<1>2. c \in Byte  BY NextCharTyped
<1>3. Inc(l.end_it) \in Positions  BY <1>1, IncTyped
<1>4. more \in Nat /\ more <= Len(l.src)  BY <1>1 DEF HasByte
<1>5. Overfull(l) \in BOOLEAN /\ IsFull(l) \in BOOLEAN  BY DEF Overfull, IsFull
<1> DEFINE buf == [l.buf EXCEPT ![l.end_it] = c]
           full == l.full \/ Overfull(l)
           asserted == l.asserted \/ IsFull(l)
           err == IF c # Nul /\ c \in InvalidChars
                  THEN l.err \cup {"InvalidInputBytes"} ELSE l.err
           inc == Inc(l.end_it)
<1>6. /\ buf \in [Positions -> Byte] /\ full \in BOOLEAN /\ err \in SUBSET Errors
      /\ inc \in Positions /\ asserted \in BOOLEAN
      /\ f = [[l EXCEPT !.buf = buf, !.end_it = inc, !.full = full, !.asserted = asserted]
              EXCEPT !.off = more, !.err = err]
  <2>1. buf \in [Positions -> Byte]  BY <1>1, <1>2
  <2>2. err \in SUBSET Errors  BY <1>1 DEF Errors
  <2> QED  BY <1>1, <1>3, <1>5, <2>1, <2>2 DEF Fetched, Enqueue
<1> HIDE DEF c, more, buf, full, asserted, err, inc
<1>7. /\ f \in LexRec /\ f.arena = l.arena
      /\ f.src = l.src /\ f.off = more /\ f.start_it = l.start_it
      /\ f.end_it = inc /\ f.it = l.it /\ f.taken = l.taken
      /\ f.buf = buf /\ f.full = full
      /\ f.text = l.text /\ f.failed = l.failed /\ f.emitted_cnt = l.emitted_cnt
  <2> HIDE DEF f
  <2>1. f \in LexRec  BY <1>1, <1>4, <1>6 DEF LexRec
  <2> QED  BY <1>1, <1>6, <2>1 DEF LexRec
<1> HIDE DEF f
<1>8. ASSUME ~f.full
      PROVE  /\ StagedBytes(f) /\ f.off = Smaller(f.taken + Staged(f), Len(f.src))
             /\ Staged(f) = Staged(l) + 1
             /\ Distance(f.start_it, f.it) = Staged(l)
  <2>1. InStep(l) /\ Staged(l) # StagingMax
    BY <1>7, <1>8 DEF Sound, Overfull, full
  <2>2. Staged(l) \in 0..StagingMax  BY <1>1, DistanceTyped DEF Staged
  <2>3. Staged(f) = Staged(l) + 1
    BY <1>1, <1>7, <2>1, DistanceGrows DEF Staged, inc
  <2>4. l.off = Smaller(l.taken + Staged(l), Len(l.src))  BY <2>1 DEF InStep
  <2>5. f.off = Smaller(f.taken + Staged(f), Len(f.src))
    BY <1>1, <1>7, <2>2, <2>3, <2>4 DEF Smaller, HasByte, more
  <2>6. c = Shown(l.src, l.taken + Staged(l) + 1)
    BY <1>1, <2>2, <2>4 DEF c, NextChar, HasByte, StreamByte, Smaller, Shown
  <2>7. l.taken \in Nat  BY <1>1
  <2>8. ASSUME NEW k \in 1..Staged(f)
        PROVE  f.buf[Index(f.start_it, k - 1)] = Shown(f.src, f.taken + k)
    <3>1. k - 1 \in 0..StagingMax /\ k - 1 <= Staged(l)  BY <2>2, <2>3, StagingAssumption
    <3>2. Index(l.start_it, Staged(l)) = l.end_it
      BY <1>1, IndexOfDistance DEF Staged
    <3>3. Index(l.start_it, k - 1) \in Positions  BY <1>1, <3>1, IndexTyped
    <3>4. CASE k = Staged(l) + 1
      <4>1. k - 1 = Staged(l) /\ l.taken + Staged(l) + 1 = l.taken + k
        BY <2>2, <3>4, <2>7
      <4> QED  BY <1>1, <1>7, <2>6, <3>2, <4>1 DEF buf
    <3>5. CASE k # Staged(l) + 1
      <4>1. k \in 1..Staged(l) /\ k - 1 # Staged(l)  BY <2>2, <2>3, <3>5
      <4>2. Index(l.start_it, k - 1) # l.end_it
        BY <1>1, <2>2, <3>1, <3>2, <4>1, IndexApart
      <4>3. f.buf[Index(l.start_it, k - 1)] = l.buf[Index(l.start_it, k - 1)]
        BY <1>1, <1>7, <3>3, <4>2 DEF buf
      <4> QED  BY <1>7, <2>1, <4>1, <4>3 DEF InStep, StagedBytes
    <3> QED  BY <3>4, <3>5
  <2> QED  BY <1>7, <2>3, <2>5, <2>8 DEF StagedBytes, Staged
<1> QED  BY <1>1, <1>4, <1>7, <1>8 DEF f

\* next(): a byte looked at before, or one more of the stream.
LEMMA NextKeeps ==
    ASSUME NEW l, Sound(l)
    PROVE  /\ Sound(Next(l))
           /\ Counted(l) => Counted(Next(l))
           /\ Next(l).emitted_cnt = l.emitted_cnt /\ Next(l).arena = l.arena
<1> DEFINE f == IF l.it # l.end_it THEN l ELSE Fetched(l)
           n == Next(l)
           inc == Inc(l.it)
<1>1. /\ l \in LexRec /\ l.start_it \in Positions /\ l.end_it \in Positions
      /\ l.it \in Positions
  BY DEF Sound, LexRec
<1>2. /\ f \in LexRec /\ f.off <= Len(f.src) /\ f.it = l.it /\ f.arena = l.arena
      /\ f.text = l.text /\ f.failed = l.failed /\ f.emitted_cnt = l.emitted_cnt
  BY FetchedKeeps DEF Sound
<1>3. ~f.full => /\ StagedBytes(f) /\ f.off = Smaller(f.taken + Staged(f), Len(f.src))
                 /\ Distance(f.start_it, f.it) < Staged(f)
  <2>1. CASE l.it = l.end_it
    <3>1. Staged(l) \in Nat  BY <1>1, DistanceTyped DEF Staged
    <3> QED  BY <2>1, <3>1, FetchedKeeps
  <2>2. CASE l.it # l.end_it
    <3> SUFFICES ASSUME ~l.full
                 PROVE  InStep(l) /\ Distance(l.start_it, l.it) < Staged(l)
      BY <2>2 DEF InStep
    <3>1. InStep(l)  BY DEF Sound
    <3>2. Distance(l.start_it, l.it) \in Nat /\ Staged(l) \in Nat
      BY <1>1, DistanceTyped DEF Staged
    <3>3. Distance(l.start_it, l.it) # Staged(l)
      BY <1>1, <2>2, IndexOfDistance DEF Staged
    <3> QED  BY <3>1, <3>2, <3>3 DEF InStep
  <2> QED  BY <2>1, <2>2
<1>4. n = [f EXCEPT !.it = inc]  BY DEF Next
<1> HIDE DEF f, n
<1>5. f.start_it \in Positions /\ f.end_it \in Positions /\ f.it \in Positions
  BY <1>2 DEF LexRec
<1>6. inc \in Positions  BY <1>1, IncTyped
<1>7. /\ n \in LexRec /\ n.arena = f.arena
      /\ n.src = f.src /\ n.off = f.off /\ n.start_it = f.start_it /\ n.end_it = f.end_it
      /\ n.it = inc /\ n.buf = f.buf /\ n.taken = f.taken /\ n.full = f.full
      /\ n.text = f.text /\ n.failed = f.failed /\ n.emitted_cnt = f.emitted_cnt
  <2> HIDE DEF inc
  <2> QED  BY <1>2, <1>4, <1>6 DEF LexRec
<1>8. ASSUME ~n.full
      PROVE  InStep(n)
  <2>1. /\ StagedBytes(f) /\ f.off = Smaller(f.taken + Staged(f), Len(f.src))
        /\ Distance(f.start_it, f.it) < Staged(f)
    BY <1>3, <1>7, <1>8
  <2>2. Staged(f) \in 0..StagingMax /\ Distance(f.start_it, f.it) \in 0..StagingMax
    BY <1>5, DistanceTyped DEF Staged
  <2>3. Distance(f.start_it, inc) = Distance(f.start_it, f.it) + 1
    BY <1>2, <1>5, <2>1, <2>2, StagingAssumption, DistanceGrows
  <2>4. Staged(n) = Staged(f)  BY <1>7 DEF Staged
  <2>5. Distance(n.start_it, n.it) <= Staged(n)  BY <1>7, <2>1, <2>2, <2>3, <2>4
  <2> QED  BY <1>7, <2>1, <2>4, <2>5 DEF InStep, StagedBytes
<1> QED  BY <1>2, <1>7, <1>8 DEF Sound, Counted, n

\* staging_area_deque
LEMMA DroppedKeeps ==
    ASSUME NEW l, Sound(l), ~IsEmpty(l)
    PROVE  LET d == Dropped(l) IN
           /\ d \in LexRec /\ d.off = l.off /\ d.src = l.src /\ d.full = l.full
           /\ d.taken = l.taken /\ d.arena = l.arena /\ d.asserted = l.asserted
           /\ ~d.full =>
                /\ Distance(d.start_it, d.it) <= Staged(d)
                /\ Staged(d) = Staged(l) - 1
                /\ \A k \in 1..Staged(d) :
                      d.buf[Index(d.start_it, k - 1)] = Shown(l.src, l.taken + 1 + k)
           /\ d.text = l.text /\ d.failed = l.failed /\ d.emitted_cnt = l.emitted_cnt
<1> DEFINE d == Dropped(l)
           it == IF l.it = l.start_it THEN Inc(l.it) ELSE l.it
           inc == Inc(l.start_it)
<1>1. /\ l \in LexRec /\ l.start_it \in Positions /\ l.end_it \in Positions
      /\ l.it \in Positions /\ l.taken \in Nat /\ l.start_it # l.end_it
  BY DEF Sound, LexRec, IsEmpty
<1>2. it \in Positions /\ inc \in Positions  BY <1>1, IncTyped
<1>3. d = [l EXCEPT !.it = it, !.start_it = inc]  BY DEF Dropped
<1> HIDE DEF d
<1>4. /\ d \in LexRec /\ d.arena = l.arena /\ d.asserted = l.asserted
      /\ d.src = l.src /\ d.off = l.off /\ d.start_it = inc /\ d.end_it = l.end_it
      /\ d.it = it /\ d.buf = l.buf /\ d.taken = l.taken /\ d.full = l.full
      /\ d.text = l.text /\ d.failed = l.failed /\ d.emitted_cnt = l.emitted_cnt
  <2> HIDE DEF inc, it
  <2> QED  BY <1>1, <1>2, <1>3 DEF LexRec
<1>5. ASSUME ~d.full
      PROVE  /\ Distance(d.start_it, d.it) <= Staged(d)
             /\ Staged(d) = Staged(l) - 1
             /\ \A k \in 1..Staged(d) :
                   d.buf[Index(d.start_it, k - 1)] = Shown(l.src, l.taken + 1 + k)
  <2>1. InStep(l)  BY <1>4, <1>5 DEF Sound
  <2>2. Staged(l) \in 0..StagingMax /\ Staged(l) # 0
    BY <1>1, DistanceTyped DEF Staged
  <2>3. Staged(d) = Staged(l) - 1  BY <1>1, <1>4, DistanceShrinks DEF Staged
  <2>4. Distance(d.start_it, d.it) <= Staged(d)
    <3>1. CASE l.it = l.start_it
      <4>1. Distance(inc, it) = 0  BY <1>1, <1>2, <3>1, DistanceTyped
      <4> QED  BY <1>4, <2>2, <2>3, <4>1
    <3>2. CASE l.it # l.start_it
      <4>1. Distance(inc, it) = Distance(l.start_it, l.it) - 1
        BY <1>1, <3>2, DistanceShrinks
      <4>2. Distance(l.start_it, l.it) \in Nat  BY <1>1, DistanceTyped
      <4> QED  BY <1>4, <2>1, <2>2, <2>3, <4>1, <4>2 DEF InStep
    <3> QED  BY <3>1, <3>2
  <2>5. ASSUME NEW k \in 1..Staged(d)
        PROVE  d.buf[Index(d.start_it, k - 1)] = Shown(l.src, l.taken + 1 + k)
    <3>1. k - 1 \in 0..(StagingMax - 1) /\ k + 1 \in 1..Staged(l)
      BY <2>2, <2>3, StagingAssumption
    <3>2. Index(inc, k - 1) = Index(l.start_it, (k - 1) + 1)
      BY <1>1, <3>1, IndexFromNext
    <3>3. (k - 1) + 1 = (k + 1) - 1 /\ l.taken + (k + 1) = l.taken + 1 + k
      BY <1>1
    <3>4. l.buf[Index(l.start_it, (k + 1) - 1)] = Shown(l.src, l.taken + (k + 1))
      BY <2>1, <3>1 DEF InStep, StagedBytes
    <3> QED  BY <1>4, <3>2, <3>3, <3>4
  <2> QED  BY <2>3, <2>4, <2>5
<1> QED  BY <1>4, <1>5 DEF d

\* deque() with its byte dropped: one more byte is behind.
LEMMA RejectKeeps ==
    ASSUME NEW l, Sound(l)
    PROVE  /\ Sound(Reject(l))
           /\ Counted(l) => Counted(Reject(l))
           /\ Reject(l).emitted_cnt = l.emitted_cnt /\ Reject(l).arena = l.arena
<1> DEFINE d == IF ~IsEmpty(l) THEN Dropped(l)
                ELSE IF HasByte(l) THEN [l EXCEPT !.off = l.off + 1]
                ELSE l
           column == IF DequeChar(l) = "\n" THEN 0 ELSE l.column + 1
           line_num == IF DequeChar(l) = "\n" THEN l.line_num + 1 ELSE l.line_num
           taken == l.taken + 1
           r == Reject(l)
<1>1. /\ l \in LexRec /\ l.start_it \in Positions /\ l.end_it \in Positions
      /\ l.it \in Positions /\ l.taken \in Nat /\ l.off \in Nat /\ l.off <= Len(l.src)
      /\ l.src \in Seq(Byte) /\ Len(l.src) \in Nat /\ l.column \in Nat /\ l.line_num \in Nat
  BY DEF Sound, LexRec
<1>2. r = [d EXCEPT !.column = column, !.line_num = line_num, !.taken = taken]
  BY DEF Reject
<1>3. column \in Nat /\ line_num \in Nat /\ taken \in Nat  BY <1>1
<1>4. /\ d \in LexRec /\ d.src = l.src /\ d.off <= Len(l.src) /\ d.full = l.full
      /\ d.arena = l.arena
      /\ d.text = l.text /\ d.failed = l.failed /\ d.emitted_cnt = l.emitted_cnt
  <2>1. CASE ~IsEmpty(l)  BY <1>1, <2>1, DroppedKeeps
  <2>2. CASE IsEmpty(l) /\ HasByte(l)
    <3> DEFINE off == l.off + 1
    <3>1. d = [l EXCEPT !.off = off]  BY <2>2
    <3>2. off \in Nat /\ off <= Len(l.src)  BY <1>1, <2>2 DEF HasByte
    <3> HIDE DEF off, d
    <3> QED  BY <1>1, <3>1, <3>2 DEF LexRec
  <2>3. CASE IsEmpty(l) /\ ~HasByte(l)  BY <1>1, <2>3
  <2> QED  BY <2>1, <2>2, <2>3
<1>5. ASSUME ~l.full
      PROVE  /\ Distance(d.start_it, d.it) <= Staged(d)
             /\ \A k \in 1..Staged(d) :
                   d.buf[Index(d.start_it, k - 1)] = Shown(l.src, taken + k)
             /\ d.off = Smaller(taken + Staged(d), Len(l.src))
  <2>1. InStep(l)  BY <1>5 DEF Sound
  <2>2. Staged(l) \in 0..StagingMax  BY <1>1, DistanceTyped DEF Staged
  <2>3. l.off = Smaller(l.taken + Staged(l), Len(l.src))  BY <2>1 DEF InStep
  <2>4. CASE ~IsEmpty(l)
    <3>1. d = Dropped(l)  BY <2>4
    <3>2. /\ Distance(d.start_it, d.it) <= Staged(d)
          /\ Staged(d) = Staged(l) - 1 /\ d.off = l.off
          /\ \A k \in 1..Staged(d) :
                d.buf[Index(d.start_it, k - 1)] = Shown(l.src, l.taken + 1 + k)
      BY <1>5, <2>4, <3>1, DroppedKeeps
    <3>3. l.taken + Staged(l) = taken + Staged(d)
      <4>1. l.taken \in Nat /\ Staged(l) \in Nat /\ Staged(d) = Staged(l) - 1
        BY <1>1, <2>2, <3>2
      <4> HIDE DEF d
      <4> QED  BY <4>1
    <3> QED  BY <2>3, <3>2, <3>3
  <2>5. CASE IsEmpty(l)
    <3>1. Staged(l) = 0  BY <1>1, <2>5, DistanceTyped DEF IsEmpty, Staged
    <3>2. Distance(l.start_it, l.it) <= 0  BY <2>1, <3>1 DEF InStep
    <3>3. /\ d.start_it = l.start_it /\ d.end_it = l.end_it /\ d.it = l.it
          /\ d.off = IF HasByte(l) THEN l.off + 1 ELSE l.off
      <4>1. CASE HasByte(l)  BY <1>1, <2>5, <4>1 DEF LexRec
      <4>2. CASE ~HasByte(l)  BY <2>5, <4>2
      <4> QED  BY <4>1, <4>2
    <3>4. Staged(d) = 0  BY <3>1, <3>3 DEF Staged
    <3>5. d.off = Smaller(taken + Staged(d), Len(l.src))
      BY <1>1, <2>3, <3>1, <3>3, <3>4 DEF Smaller, HasByte
    <3> QED  BY <3>2, <3>3, <3>4, <3>5
  <2> QED  BY <2>4, <2>5
<1> HIDE DEF d, column, line_num, taken, r
<1>6. /\ r \in LexRec /\ r.arena = d.arena
      /\ r.src = d.src /\ r.off = d.off /\ r.start_it = d.start_it /\ r.end_it = d.end_it
      /\ r.it = d.it /\ r.buf = d.buf /\ r.taken = taken /\ r.full = d.full
      /\ r.text = d.text /\ r.failed = d.failed /\ r.emitted_cnt = d.emitted_cnt
  BY <1>2, <1>3, <1>4 DEF LexRec
<1>7. ~r.full => InStep(r)
  <2>1. Staged(r) = Staged(d)  BY <1>6 DEF Staged
  <2> QED  BY <1>4, <1>5, <1>6, <2>1 DEF InStep, StagedBytes
<1> QED  BY <1>4, <1>6, <1>7 DEF Sound, Counted, r

\* marena_add_char
LEMMA AddedKeeps ==
    ASSUME NEW l, Sound(l), NEW c \in Byte
    PROVE  LET a == Added(l, c) IN
           /\ Sound(a)
           /\ a.emitted_cnt = l.emitted_cnt /\ a.it = l.it /\ a.start_it = l.start_it
           /\ a.line_num = l.line_num /\ a.taken = l.taken
           /\ a.arena.data_size = l.arena.data_size
           /\ ~a.failed => ~l.failed /\ a.text = Append(l.text, c)
<1> DEFINE a == Added(l, c)
           text == Append(l.text, c)
           room == l.room - 1
           arena == Accomodated(l.arena, 1, TokenSize + Len(l.text))
<1>1. /\ l \in LexRec /\ l.text \in Seq(Byte) /\ l.room \in Nat /\ l.failed \in BOOLEAN
      /\ l.arena \in Arena
  BY DEF Sound, LexRec
<1>8. arena \in Arena /\ arena.data_size = l.arena.data_size
  <2>1. TokenSize + Len(l.text) \in Nat  BY <1>1, TokenAssumption
  <2> QED  BY <1>1, <2>1, AccomodatedTyped
<1>2. \/ /\ l.room > 0 /\ ~l.failed
         /\ a = [l EXCEPT !.text = text, !.room = room, !.arena = arena]
      \/ a = [l EXCEPT !.failed = TRUE]
  BY DEF Added
<1>3. text \in Seq(Byte)  BY <1>1
<1>4. l.room > 0 => room \in Nat  BY <1>1
<1> HIDE DEF a, text, room, arena
<1>5. /\ a \in LexRec /\ a.arena.data_size = l.arena.data_size
      /\ a.src = l.src /\ a.off = l.off /\ a.start_it = l.start_it /\ a.end_it = l.end_it
      /\ a.it = l.it /\ a.buf = l.buf /\ a.taken = l.taken /\ a.full = l.full
      /\ a.line_num = l.line_num /\ a.emitted_cnt = l.emitted_cnt
      /\ ~a.failed => ~l.failed /\ a.text = text
  <2>1. CASE /\ l.room > 0 /\ ~l.failed
             /\ a = [l EXCEPT !.text = text, !.room = room, !.arena = arena]
    BY <1>1, <1>3, <1>4, <1>8, <2>1 DEF LexRec
  <2>2. CASE a = [l EXCEPT !.failed = TRUE]
    BY <1>1, <2>2 DEF LexRec
  <2> QED  BY <1>2, <2>1, <2>2
<1>6. ~a.full => InStep(a)
  <2>1. Staged(a) = Staged(l)  BY <1>5 DEF Staged
  <2> QED  BY <1>5, <2>1 DEF Sound, InStep, StagedBytes
<1>7. Sound(a)  BY <1>5, <1>6 DEF Sound
<1> QED  BY <1>5, <1>7 DEF a, text

\* lex_emit
LEMMA EmitKeeps ==
    ASSUME NEW l, Sound(l), NEW c \in Byte
    PROVE  /\ Sound(Emit(l, c))
           /\ Counted(l) => Counted(Emit(l, c))
           /\ Emit(l, c).arena.data_size = l.arena.data_size
<1> DEFINE a == Added(l, c)
           e == [a EXCEPT !.emitted_cnt = l.emitted_cnt + 1]
           cnt == l.emitted_cnt + 1
<1>1. Emit(l, c) = l \/ Emit(l, c) = e  BY DEF Emit
<1>2. /\ Sound(a) /\ a.arena.data_size = l.arena.data_size
      /\ ~a.failed => ~l.failed /\ a.text = Append(l.text, c)
  BY AddedKeeps
<1>3. /\ l \in LexRec /\ l.text \in Seq(Byte) /\ cnt \in Nat /\ l.emitted_cnt \in Nat
  BY DEF Sound, LexRec
<1>4. a \in LexRec /\ e = [a EXCEPT !.emitted_cnt = cnt]  BY <1>2 DEF Sound
<1> HIDE DEF a, e
<1>5. /\ e \in LexRec /\ e.arena = a.arena
      /\ e.src = a.src /\ e.off = a.off /\ e.start_it = a.start_it /\ e.end_it = a.end_it
      /\ e.it = a.it /\ e.buf = a.buf /\ e.taken = a.taken /\ e.full = a.full
      /\ e.text = a.text /\ e.failed = a.failed /\ e.emitted_cnt = cnt
  <2> HIDE DEF cnt
  <2> QED  BY <1>3, <1>4 DEF LexRec
<1>6. Sound(e)
  <2>1. Staged(e) = Staged(a)  BY <1>5 DEF Staged
  <2> QED  BY <1>2, <1>5, <2>1 DEF Sound, InStep, StagedBytes
<1>7. Counted(l) => Counted(e)
  <2> SUFFICES ASSUME Counted(l), ~e.failed PROVE e.emitted_cnt = Len(e.text)
    BY DEF Counted
  <2>1. e.text = Append(l.text, c) /\ l.emitted_cnt = Len(l.text)
    BY <1>2, <1>5 DEF Counted
  <2> QED  BY <1>3, <1>5, <2>1
<1>8. e.arena.data_size = l.arena.data_size  BY <1>2, <1>5
<1> QED  BY <1>1, <1>6, <1>7, <1>8

LEMMA AcceptKeeps ==
    ASSUME NEW l, Sound(l)
    PROVE  /\ Sound(Accept(l))
           /\ Counted(l) => Counted(Accept(l))
           /\ Accept(l).arena.data_size = l.arena.data_size
<1>1. DequeChar(l) \in Byte  BY NextCharTyped
<1> QED  BY <1>1, RejectKeeps, EmitKeeps DEF Accept

LEMMA FineUndo ==
    ASSUME NEW l, Fine(l)
    PROVE  Fine(Undo(l))
BY UndoKeeps DEF Fine, Placed

LEMMA FineNext ==
    ASSUME NEW l, Fine(l)
    PROVE  Fine(Next(l)) /\ Fine(Next2(l)) /\ Fine(Next3(l)) /\ Fine(Next4(l)) /\ Fine(Next6(l))
<1>1. ASSUME NEW m, Fine(m) PROVE Fine(Next(m))
  BY <1>1, NextKeeps DEF Fine, Placed
<1>2. Fine(Next2(l))  BY <1>1 DEF Next2
<1>3. ASSUME NEW m, Fine(m) PROVE Fine(Next3(m))
  BY <1>1, <1>3 DEF Next2, Next3
<1>4. Fine(Next4(l))  BY <1>1, <1>3 DEF Next4
<1>5. Fine(Next6(l))  BY <1>3 DEF Next6
<1> QED  BY <1>1, <1>2, <1>3, <1>4, <1>5

LEMMA FineReject ==
    ASSUME NEW l, Fine(l)
    PROVE  Fine(Reject(l)) /\ Fine(Reject2(l)) /\ Fine(Reject3(l)) /\ Fine(Reject4(l))
<1>1. ASSUME NEW m, Fine(m) PROVE Fine(Reject(m))
  BY <1>1, RejectKeeps DEF Fine, Placed
<1>2. ASSUME NEW m, Fine(m) PROVE Fine(Reject2(m))
  BY <1>1, <1>2 DEF Reject2
<1>3. Fine(Reject3(l))  BY <1>1, <1>2 DEF Reject3
<1>4. Fine(Reject4(l))  BY <1>2 DEF Reject4
<1> QED  BY <1>1, <1>2, <1>3, <1>4

LEMMA FineAccept ==
    ASSUME NEW l, Fine(l)
    PROVE  Fine(Accept(l)) /\ Fine(Accept2(l)) /\ Fine(Accept3(l))
<1>1. ASSUME NEW m, Fine(m) PROVE Fine(Accept(m))
  BY <1>1, AcceptKeeps DEF Fine, Placed
<1>2. Fine(Accept2(l))  BY <1>1 DEF Accept2
<1>3. Fine(Accept3(l))  BY <1>1, <1>2 DEF Accept3
<1> QED  BY <1>1, <1>2, <1>3

LEMMA FineEmit ==
    ASSUME NEW l, Fine(l), NEW c \in Byte
    PROVE  Fine(Emit(l, c))
BY EmitKeeps DEF Fine, Placed

LEMMA FineWithError ==
    ASSUME NEW l, NEW e \in SUBSET Errors
    PROVE  LET w == WithError(l, e) IN
           /\ Fine(l) => Fine(w)
           /\ Sound(l) => /\ Sound(w) /\ w.it = l.it /\ w.start_it = l.start_it
                          /\ w.arena = l.arena
<1> DEFINE w == WithError(l, e)
           err == l.err \cup e
<1>1. ASSUME Sound(l)
      PROVE  /\ Sound(w) /\ w.it = l.it /\ w.start_it = l.start_it
             /\ Counted(l) => Counted(w)
             /\ w.arena = l.arena
  <2>1. l \in LexRec /\ err \in SUBSET Errors  BY <1>1 DEF Sound, LexRec
  <2>2. w = [l EXCEPT !.err = err]  BY DEF WithError
  <2> HIDE DEF w, err
  <2>3. /\ w \in LexRec /\ w.arena = l.arena
        /\ w.src = l.src /\ w.off = l.off /\ w.start_it = l.start_it /\ w.end_it = l.end_it
        /\ w.it = l.it /\ w.buf = l.buf /\ w.taken = l.taken /\ w.full = l.full
        /\ w.text = l.text /\ w.failed = l.failed /\ w.emitted_cnt = l.emitted_cnt
    BY <2>1, <2>2 DEF LexRec
  <2>4. Staged(w) = Staged(l)  BY <2>3 DEF Staged
  <2> QED  BY <1>1, <2>3, <2>4 DEF Sound, InStep, StagedBytes, Counted
<1> QED  BY <1>1 DEF Fine, Placed

-----------------------------------------------------------------------------
(* The inductive invariant.                                                *)

TokenPcs == {"logic", "identifier", "spaces", "comment", "string", "digits", "number",
             "suffix", "close"}

Pcs == TokenPcs \cup {"idle", "eat", "open", "stop"}

Tok == [kind : Kinds, line_num : Nat, column : Nat, from : Nat, delimiter : Byte,
        is_hex : BOOLEAN, dot_found : BOOLEAN, exponent_found : BOOLEAN]

Token == [ref : Nat, kind : Kinds, line_num : Nat, column : Nat, len : Nat,
          text : Seq(Byte), from : Nat, to : Nat, err : SUBSET Errors]

OtherTypes ==
    /\ client \in Clients /\ pc \in Pcs /\ todo \in Seq(Recognisers) /\ tok \in Tok
    /\ tokens \in Seq(Token) /\ result \in BOOLEAN /\ oom \in BOOLEAN

\* The length a token says it has is that of its text.
LengthsAreTheTexts == \A i \in 1..Len(tokens) : tokens[i].len = Len(tokens[i].text)

\* The first token is where the arena's data begins, each other where the data
\* ended with the one before it.
InArena ==
    /\ tokens # <<>> => tokens[1].ref = ArenaBegin
    /\ \A i \in 1..(Len(tokens) - 1) :
          tokens[i + 1].ref = tokens[i].ref + TokenSize + Len(tokens[i].text) + 1

TokensMeet == LengthsAreTheTexts /\ InArena

LexerInv ==
    /\ Sound(lx)
    /\ pc \in TokenPcs => Counted(lx)
    /\ pc \in {"eat", "open"} => lx.emitted_cnt = 0
    /\ Placed(lx)
    /\ StartsUndone
    /\ OtherTypes
    /\ TokensMeet

\* A step inside a token.
LEMMA LoopStep ==
    ASSUME LexerInv, pc \in TokenPcs, NEW l, Fine(l), NEW p \in TokenPcs \ {"logic"},
           Goto(l, p), tok' \in Tok
    PROVE  LexerInv'
<1>1. /\ lx' = l /\ pc' = p
      /\ UNCHANGED <<client, todo, tokens, result, oom>>
  BY DEF Goto
<1>2. Sound(lx)' /\ Counted(lx)'  BY <1>1 DEF Fine
<1>3. pc' \in TokenPcs /\ pc' \notin {"idle", "open", "logic", "stop", "eat"}
  BY <1>1 DEF TokenPcs
<1>4. StartsUndone'  BY <1>3 DEF StartsUndone
<1>5. OtherTypes'  BY <1>1, <1>3 DEF LexerInv, OtherTypes, Pcs
<1>6. TokensMeet'  BY <1>1 DEF LexerInv, TokensMeet, LengthsAreTheTexts, InArena
<1>7. Placed(lx)'  BY <1>1 DEF Fine, Placed, DataEnd
<1> QED  BY <1>2, <1>3, <1>4, <1>5, <1>6, <1>7 DEF LexerInv

LEMMA LoopOn ==
    ASSUME LexerInv, pc \in TokenPcs, NEW l, Fine(l), NEW p \in TokenPcs \ {"logic"}, On(l, p)
    PROVE  LexerInv'
BY LoopStep DEF On, LexerInv, OtherTypes

LEMMA LexerFine ==
    ASSUME LexerInv, pc \in TokenPcs
    PROVE  Fine(lx) /\ tok \in Tok /\ NextChar(lx) \in Byte
BY NextCharTyped DEF LexerInv, Fine, OtherTypes

LEMMA FreshFine ==
    ASSUME NEW s \in Seq(Byte), NEW n \in ArenaSizes
    PROVE  LET l == Fresh(s, n) IN
           Sound(l) /\ l.it = l.start_it /\ l.arena.data_size = ArenaBegin
<1> DEFINE l == Fresh(s, n)
           arena == [data_size |-> ArenaBegin, data_max |-> n, spilled |-> FALSE]
           buf == [i \in 0..StagingMax |-> Nul]
<1>1. 0 \in Positions /\ buf \in [Positions -> Byte]
  BY StagingAssumption, Bytes DEF Positions
<1>2. <<>> \in Seq(Byte) /\ Len(s) \in Nat  OBVIOUS
<1>7. arena \in Arena /\ arena.data_size = ArenaBegin  BY TokensArenaAssumption DEF Arena
<1>3. l \in LexRec /\ l.arena = arena
  <2> HIDE DEF buf, arena
  <2>1. l = [src |-> s, off |-> 0,
             start_it |-> 0, end_it |-> 0, it |-> 0, buf |-> buf,
             err |-> {}, emitted_cnt |-> 0, line_num |-> 1, column |-> 0,
             arena |-> arena,
             text |-> <<>>, room |-> 0, failed |-> FALSE, taken |-> 0,
             full |-> FALSE, asserted |-> FALSE]
    BY DEF Fresh, buf, arena
  <2> QED  BY <1>1, <1>2, <1>7, <2>1 DEF LexRec
<1>4. /\ l.start_it = 0 /\ l.end_it = 0 /\ l.it = 0 /\ l.src = s /\ l.off = 0 /\ l.taken = 0
  BY DEF Fresh
<1> HIDE DEF l, arena
<1>5. Staged(l) = 0 /\ Distance(l.start_it, l.it) = 0
  BY <1>1, <1>4, DistanceTyped DEF Staged
<1>6. InStep(l)
  <2>1. StagedBytes(l)  BY <1>5 DEF StagedBytes
  <2>2. l.off = Smaller(l.taken + Staged(l), Len(l.src))
    BY <1>2, <1>4, <1>5 DEF Smaller
  <2> QED  BY <1>5, <2>1, <2>2 DEF InStep
<1> QED  BY <1>2, <1>3, <1>4, <1>6, <1>7 DEF Sound, l

LEMMA LexerInvInit ==
    ASSUME Init
    PROVE  LexerInv
<1>1. PICK s \in Inputs, n \in ArenaSizes : lx = Fresh(s, n)  BY DEF Init
<1>2. Sound(lx) /\ lx.it = lx.start_it /\ lx.arena.data_size = ArenaBegin
  BY <1>1, LexerAssumption, FreshFine
<1>3. NoToken \in Tok  BY Bytes DEF NoToken, Tok, Kinds
<1>4. OtherTypes
  <2>1. <<>> \in Seq(Recognisers) /\ <<>> \in Seq(Token)  OBVIOUS
  <2>2. /\ client \in Clients /\ pc = "idle" /\ todo = <<>> /\ tok = NoToken
        /\ tokens = <<>> /\ result = TRUE /\ oom = FALSE
    BY DEF Init
  <2>3. pc \in Pcs  BY <2>2 DEF Pcs
  <2> QED  BY <1>3, <2>1, <2>2, <2>3 DEF OtherTypes
<1>5. TokensMeet  BY DEF Init, TokensMeet, LengthsAreTheTexts, InArena
<1>6. pc = "idle" /\ Placed(lx)  BY <1>2 DEF Init, Placed, DataEnd
<1> QED  BY <1>2, <1>4, <1>5, <1>6 DEF LexerInv, StartsUndone, TokenPcs

-----------------------------------------------------------------------------
(* Steps: lexer_next_token before and after the client's logic.            *)

LEMMA CalledKeeps ==
    ASSUME NEW l, Sound(l)
    PROVE  LET c == [l EXCEPT !.emitted_cnt = 0, !.err = {}] IN
           /\ Sound(c) /\ c.emitted_cnt = 0 /\ c.it = l.it /\ c.start_it = l.start_it
           /\ c.arena = l.arena
<1> DEFINE c == [l EXCEPT !.emitted_cnt = 0, !.err = {}]
<1>1. l \in LexRec  BY DEF Sound
<1>2. /\ c \in LexRec
      /\ c.src = l.src /\ c.off = l.off /\ c.start_it = l.start_it /\ c.end_it = l.end_it
      /\ c.it = l.it /\ c.buf = l.buf /\ c.taken = l.taken /\ c.full = l.full
      /\ c.emitted_cnt = 0 /\ c.arena = l.arena
  BY <1>1 DEF LexRec
<1> HIDE DEF c
<1>3. Staged(c) = Staged(l)  BY <1>2 DEF Staged
<1>4. Sound(c)  BY <1>2, <1>3 DEF Sound, InStep, StagedBytes
<1> QED  BY <1>2, <1>4 DEF c

\* A step outside a token.
LEMMA CallStep ==
    ASSUME LexerInv, NEW l, Sound(l), lx' = l, l.arena = lx.arena,
           pc' \in {"idle", "eat", "open", "stop"},
           pc' # "eat" => l.it = l.start_it,
           pc' \in {"eat", "open"} => l.emitted_cnt = 0,
           result' \in BOOLEAN, oom' \in BOOLEAN,
           UNCHANGED <<client, todo, tok, tokens>>
    PROVE  LexerInv'
<1>1. Sound(lx)'  OBVIOUS
<1>2. pc' \notin TokenPcs  BY DEF TokenPcs
<1>3. StartsUndone'  BY DEF StartsUndone
<1>4. OtherTypes'  BY DEF LexerInv, OtherTypes, Pcs
<1>5. TokensMeet'  BY DEF LexerInv, TokensMeet, LengthsAreTheTexts, InArena
<1>6. Placed(lx)'  BY DEF LexerInv, Placed, DataEnd
<1> QED  BY <1>1, <1>2, <1>3, <1>4, <1>5, <1>6 DEF LexerInv

LEMMA StepsBefore ==
    ASSUME LexerInv,
           CallAtEnd \/ Call \/ EatWhitespace \/ StopEating \/ OpenAtEnd \/ OpenInvalid
             \/ OpenWithoutRoom
    PROVE  LexerInv'
<1>1. /\ Sound(lx)
      /\ pc \in {"idle", "open"} => lx.it = lx.start_it
      /\ pc \in {"eat", "open"} => lx.emitted_cnt = 0
      /\ result \in BOOLEAN /\ oom \in BOOLEAN
  BY DEF LexerInv, StartsUndone, OtherTypes
<1>2. CASE CallAtEnd \/ Call
  <2>1. /\ Sound(Called) /\ Called.emitted_cnt = 0 /\ Called.arena = lx.arena
        /\ pc = "idle" => Called.it = Called.start_it
    BY <1>1, CalledKeeps DEF Called
  <2>2. /\ lx' = Called /\ pc = "idle" /\ pc' \in {"stop", "eat", "open"}
        /\ result' \in BOOLEAN /\ UNCHANGED <<client, todo, tok, tokens, oom>>
    BY <1>1, <1>2 DEF CallAtEnd, Call, Return, On, Goto
  <2> QED  BY <1>1, <2>1, <2>2, CallStep
<1>3. CASE EatWhitespace
  <2> DEFINE l == Reject(Next(lx))
  <2>1. Sound(l) /\ l.emitted_cnt = lx.emitted_cnt /\ l.arena = lx.arena
    BY <1>1, NextKeeps, RejectKeeps
  <2>2. /\ lx' = l /\ pc = "eat" /\ pc' = "eat"
        /\ UNCHANGED <<result, client, todo, tok, tokens, oom>>
    BY <1>3 DEF EatWhitespace, On, Goto
  <2> HIDE DEF l
  <2> QED  BY <1>1, <2>1, <2>2, CallStep
<1>4. CASE StopEating
  <2>1. PICK l \in {Undo(lx), Undo(Next(lx))} :
          /\ lx' = l /\ pc = "eat" /\ pc' = "open"
          /\ UNCHANGED <<result, client, todo, tok, tokens, oom>>
    BY <1>4 DEF StopEating, On, Goto
  <2>2. /\ Sound(l) /\ l.it = l.start_it /\ l.emitted_cnt = lx.emitted_cnt
        /\ l.arena = lx.arena
    BY <1>1, NextKeeps, UndoKeeps
  <2> QED  BY <1>1, <2>1, <2>2, CallStep
<1>5. CASE OpenAtEnd \/ OpenInvalid \/ OpenWithoutRoom
  <2>1. /\ lx' = lx /\ pc = "open" /\ pc' \in {"stop", "idle"}
        /\ result' \in BOOLEAN /\ oom' \in BOOLEAN
        /\ UNCHANGED <<client, todo, tok, tokens>>
    BY <1>1, <1>5 DEF OpenAtEnd, OpenInvalid, OpenWithoutRoom, Return
  <2> QED  BY <1>1, <2>1, CallStep
<1> QED  BY <1>2, <1>3, <1>4, <1>5

LEMMA StepOpen ==
    ASSUME LexerInv, Open
    PROVE  LexerInv'
<1>1. PICK n \in Rooms \ {0} :
        /\ lx' = [lx EXCEPT !.text = <<>>, !.room = n, !.failed = FALSE,
                            !.arena = Accomodated(lx.arena, TokenSize, 0)]
        /\ tok' = [NoToken EXCEPT !.line_num = lx.line_num, !.column = lx.column,
                                  !.from = lx.taken]
        /\ pc = "open" /\ pc' = "logic" /\ todo' = client.tests
        /\ UNCHANGED <<client, tokens, result, oom>>
  BY DEF Open
<1> DEFINE arena == Accomodated(lx.arena, TokenSize, 0)
<1>14. arena \in Arena /\ arena.data_size = lx.arena.data_size
  <2>1. lx.arena \in Arena  BY DEF LexerInv, Sound, LexRec
  <2> QED  BY <2>1, TokenAssumption, AccomodatedTyped
<1> HIDE DEF arena
<1>2. /\ lx \in LexRec /\ lx.line_num \in Nat /\ lx.column \in Nat /\ lx.taken \in Nat
      /\ Sound(lx) /\ lx.it = lx.start_it /\ lx.emitted_cnt = 0
  BY <1>1 DEF LexerInv, Sound, LexRec, StartsUndone
<1>3. n \in Nat  BY LexerAssumption
<1>4. <<>> \in Seq(Byte) /\ Len(<<>>) = 0  OBVIOUS
<1> DEFINE l == [lx EXCEPT !.text = <<>>, !.room = n, !.failed = FALSE, !.arena = arena]
<1>5. /\ l \in LexRec /\ l.arena = arena
      /\ l.src = lx.src /\ l.off = lx.off /\ l.start_it = lx.start_it
      /\ l.end_it = lx.end_it /\ l.it = lx.it /\ l.buf = lx.buf /\ l.taken = lx.taken
      /\ l.full = lx.full /\ l.emitted_cnt = lx.emitted_cnt /\ l.text = <<>>
  BY <1>2, <1>3, <1>4, <1>14 DEF LexRec
<1>6. lx' = l  BY <1>1 DEF arena
<1> HIDE DEF l
<1>7. Staged(l) = Staged(lx)  BY <1>5 DEF Staged
<1>8. Sound(l) /\ Counted(l)
  BY <1>2, <1>4, <1>5, <1>7 DEF Sound, InStep, StagedBytes, Counted
<1>9. Sound(lx)' /\ Counted(lx)'  BY <1>6, <1>8
<1>10. tok' \in Tok
  <2>1. NoToken \in Tok  BY Bytes DEF NoToken, Tok, Kinds
  <2> QED  BY <1>1, <1>2, <2>1 DEF Tok
<1>11. OtherTypes'
  <2>1. client.tests \in Seq(Recognisers)
    BY LexerAssumption DEF LexerInv, OtherTypes
  <2> QED  BY <1>1, <1>10, <2>1 DEF LexerInv, OtherTypes, Pcs, TokenPcs
<1>12. StartsUndone'  BY <1>2, <1>5, <1>6 DEF StartsUndone
<1>13. TokensMeet'  BY <1>1 DEF LexerInv, TokensMeet, LengthsAreTheTexts, InArena
<1>15. Placed(lx)'  BY <1>1, <1>5, <1>6, <1>14 DEF LexerInv, Placed, DataEnd
<1> QED  BY <1>1, <1>9, <1>11, <1>12, <1>13, <1>15 DEF LexerInv

\* A token put behind the others.
LEMMA RefsGrow ==
    ASSUME tokens \in Seq(Token), InArena, NEW new, new.ref = DataEnd,
           Len(tokens') = Len(tokens) + 1, tokens'[Len(tokens) + 1] = new,
           \A i \in 1..Len(tokens) : tokens'[i] = tokens[i]
    PROVE  InArena'
<1>1. Len(tokens) \in Nat  OBVIOUS
<1>2. tokens'[1].ref = ArenaBegin
  <2>1. CASE tokens = <<>>  BY <2>1 DEF DataEnd
  <2>2. CASE tokens # <<>>
    <3>1. 1 \in 1..Len(tokens)  BY <2>2
    <3> QED  BY <2>2, <3>1 DEF InArena
  <2> QED  BY <2>1, <2>2
<1>3. ASSUME NEW i \in 1..(Len(tokens') - 1)
      PROVE  tokens'[i + 1].ref = tokens'[i].ref + TokenSize + Len(tokens'[i].text) + 1
  <2>1. i \in 1..Len(tokens) /\ tokens'[i] = tokens[i]  BY <1>1, <1>3
  <2>2. CASE i = Len(tokens)
    <3>1. tokens # <<>>  BY <2>1
    <3> QED  BY <2>1, <2>2, <3>1 DEF DataEnd
  <2>3. CASE i # Len(tokens)
    <3>1. i \in 1..(Len(tokens) - 1) /\ i + 1 \in 1..Len(tokens)  BY <1>1, <2>1, <2>3
    <3> QED  BY <2>1, <3>1 DEF InArena
  <2> QED  BY <2>2, <2>3
<1> QED  BY <1>2, <1>3 DEF InArena

LEMMA StepCloseToken ==
    ASSUME LexerInv, CloseToken
    PROVE  LexerInv'
<1> DEFINE t == Terminated
           size == t.arena.data_size + TokenSize + Len(t.text)
           c == [t EXCEPT !.text = <<>>, !.arena.data_size = size]
           new == Committed(t)
<1>1. /\ pc = "close" /\ ~t.failed /\ tokens' = Append(tokens, new)
      /\ lx' = Undo(c) /\ result' = TRUE /\ pc' = "idle" /\ tok' = NoToken
      /\ UNCHANGED <<client, todo, oom>>
  BY DEF CloseToken, Return
<1>2. Fine(lx) /\ tok \in Tok  BY <1>1, LexerFine DEF TokenPcs
<1>3. /\ Sound(t) /\ t.emitted_cnt = lx.emitted_cnt
      /\ ~lx.failed /\ t.text = Append(lx.text, Nul)
      /\ t.arena.data_size = lx.arena.data_size
  BY <1>1, <1>2, AddedKeeps, Bytes DEF Terminated, Fine
<1>4. lx.text \in Seq(Byte) /\ lx.emitted_cnt = Len(lx.text)
  BY <1>2, <1>3 DEF Fine, Sound, LexRec, Counted
<1>5. t \in LexRec /\ t.taken \in Nat /\ t.err \in SUBSET Errors /\ t.emitted_cnt \in Nat
  BY <1>3 DEF Sound, LexRec
<1>15. t.arena \in Arena /\ t.text \in Seq(Byte) /\ Len(t.text) = Len(lx.text) + 1
  BY <1>3, <1>4, <1>5, Bytes DEF LexRec
<1>16. t.arena.data_size = DataEnd  BY <1>3 DEF LexerInv, Placed
<1>17. size \in Nat  BY <1>15, TokenAssumption DEF Arena
<1> HIDE DEF t, size
<1>6. Sound(c) /\ c.arena.data_size = size
  <2>1. <<>> \in Seq(Byte)  OBVIOUS
  <2>4. [t.arena EXCEPT !.data_size = size] \in Arena  BY <1>15, <1>17 DEF Arena
  <2>2. /\ c \in LexRec /\ c.arena = [t.arena EXCEPT !.data_size = size]
        /\ c.src = t.src /\ c.off = t.off /\ c.start_it = t.start_it /\ c.end_it = t.end_it
        /\ c.it = t.it /\ c.buf = t.buf /\ c.taken = t.taken /\ c.full = t.full
    BY <1>5, <2>1, <2>4 DEF LexRec
  <2> HIDE DEF c
  <2>3. Staged(c) = Staged(t)  BY <2>2 DEF Staged
  <2>5. c.arena.data_size = size  BY <1>15, <2>2 DEF Arena
  <2> QED  BY <1>3, <2>2, <2>3, <2>5 DEF Sound, InStep, StagedBytes
<1> HIDE DEF c
<1>7. Sound(lx)' /\ lx'.it = lx'.start_it /\ lx'.arena.data_size = size
  BY <1>1, <1>6, UndoKeeps
<1>9. tokens \in Seq(Token)  BY DEF LexerInv, OtherTypes
<1>8. /\ new \in Token /\ new.len = Len(new.text) /\ new.ref = DataEnd
      /\ new.ref + TokenSize + Len(new.text) + 1 = size
  <2> DEFINE text == SubSeq(t.text, 1, Len(t.text) - 1)
  <2>1. text \in Seq(Byte) /\ Len(text) = Len(lx.text) /\ Len(lx.text) \in Nat
    <3>1. Len(t.text) = Len(lx.text) + 1 /\ t.text \in Seq(Byte) /\ Len(lx.text) \in Nat
      BY <1>3, <1>4, Bytes
    <3> QED  BY <3>1, SubSeqProperties
  <2>2. new = [ref |-> t.arena.data_size, kind |-> tok.kind, line_num |-> tok.line_num, column |-> tok.column,
               len |-> t.emitted_cnt, text |-> text,
               from |-> tok.from, to |-> t.taken, err |-> t.err]
    BY DEF Committed
  <2> HIDE DEF text, new
  <2>4. t.arena.data_size \in Nat  BY <1>15 DEF Arena
  <2>3. new \in Token  BY <1>2, <1>5, <2>1, <2>2, <2>4 DEF Tok, Token
  <2>5. new.ref = t.arena.data_size /\ Len(new.text) = Len(lx.text)  BY <2>1, <2>2
  <2>6. new.ref + TokenSize + Len(new.text) + 1 = size
    <3> DEFINE a == t.arena.data_size
               n == Len(lx.text)
    <3>1. a \in Nat /\ n \in Nat /\ TokenSize \in Nat  BY <2>1, <2>4, TokenAssumption
    <3>2. size = a + TokenSize + (n + 1)  BY <1>15 DEF size
    <3>3. new.ref = a /\ Len(new.text) = n  BY <2>5
    <3> HIDE DEF a, n, size
    <3> QED  BY <3>1, <3>2, <3>3
  <2> QED  BY <1>3, <1>4, <1>16, <2>1, <2>2, <2>3, <2>5, <2>6
<1> HIDE DEF new
<1>10. /\ tokens' \in Seq(Token) /\ Len(tokens') = Len(tokens) + 1
       /\ tokens'[Len(tokens) + 1] = new
       /\ \A i \in 1..Len(tokens) : tokens'[i] = tokens[i]
  BY <1>1, <1>8, <1>9, AppendProperties
<1>11. TokensMeet'
  <2>1. LengthsAreTheTexts'
    BY <1>8, <1>9, <1>10 DEF LexerInv, TokensMeet, LengthsAreTheTexts
  <2>2. InArena'  BY <1>8, <1>9, <1>10, RefsGrow DEF LexerInv, TokensMeet
  <2> QED  BY <2>1, <2>2 DEF TokensMeet
<1>12. OtherTypes'
  <2>1. NoToken \in Tok  BY Bytes DEF NoToken, Tok, Kinds
  <2> QED  BY <1>1, <1>10, <2>1 DEF LexerInv, OtherTypes, Pcs
<1>13. StartsUndone'  BY <1>7 DEF StartsUndone
<1>14. Placed(lx)'
  <2>1. tokens' # <<>> /\ tokens'[Len(tokens')] = new  BY <1>10
  <2>2. DataEnd' = new.ref + TokenSize + Len(new.text) + 1  BY <2>1 DEF DataEnd
  <2> QED  BY <1>7, <1>8, <2>2 DEF Placed
<1> QED  BY <1>1, <1>7, <1>11, <1>12, <1>13, <1>14 DEF LexerInv, TokenPcs

LEMMA StepCloseFailed ==
    ASSUME LexerInv, CloseFailed
    PROVE  LexerInv'
<1> DEFINE w == WithError(Terminated, {"OutOfMem"})
           c == [w EXCEPT !.text = <<>>, !.failed = FALSE,
                          !.line_num = tok.line_num, !.column = tok.column]
<1>1. /\ pc = "close"
      /\ lx' = Undo(c) /\ result' = TRUE /\ pc' = "idle" /\ tok' = NoToken /\ oom' = TRUE
      /\ UNCHANGED <<client, todo, tokens>>
  BY DEF CloseFailed, Return
<1>2. Fine(lx) /\ tok \in Tok  BY <1>1, LexerFine DEF TokenPcs
<1>3. Sound(Terminated) /\ Terminated.arena.data_size = lx.arena.data_size
  BY <1>2, AddedKeeps, Bytes DEF Terminated, Fine
<1>4. {"OutOfMem"} \in SUBSET Errors  BY DEF Errors
<1>5. Sound(w) /\ w.arena = Terminated.arena  BY <1>3, <1>4, FineWithError
<1> HIDE DEF w
<1>6. Sound(c) /\ c.arena = w.arena
  <2>1. w \in LexRec /\ tok.line_num \in Nat /\ tok.column \in Nat /\ <<>> \in Seq(Byte)
    BY <1>2, <1>5 DEF Sound, Tok
  <2>2. /\ c \in LexRec /\ c.arena = w.arena
        /\ c.src = w.src /\ c.off = w.off /\ c.start_it = w.start_it /\ c.end_it = w.end_it
        /\ c.it = w.it /\ c.buf = w.buf /\ c.taken = w.taken /\ c.full = w.full
    BY <2>1 DEF LexRec
  <2> HIDE DEF c
  <2>3. Staged(c) = Staged(w)  BY <2>2 DEF Staged
  <2> QED  BY <1>5, <2>2, <2>3 DEF Sound, InStep, StagedBytes
<1> HIDE DEF c
<1>7. Sound(lx)' /\ lx'.it = lx'.start_it /\ lx'.arena = c.arena
  BY <1>1, <1>6, UndoKeeps
<1>8. OtherTypes'
  <2>1. NoToken \in Tok  BY Bytes DEF NoToken, Tok, Kinds
  <2> QED  BY <1>1, <2>1 DEF LexerInv, OtherTypes, Pcs
<1>9. StartsUndone' /\ TokensMeet'
  BY <1>1, <1>7 DEF LexerInv, StartsUndone, TokensMeet, LengthsAreTheTexts, InArena
<1>10. Placed(lx)'  BY <1>1, <1>3, <1>5, <1>6, <1>7 DEF LexerInv, Placed, DataEnd
<1> QED  BY <1>1, <1>7, <1>8, <1>9, <1>10 DEF LexerInv, TokenPcs

-----------------------------------------------------------------------------
(* Steps: the client's logic and the recognisers.                          *)

LEMMA LookedFine ==
    ASSUME Fine(lx), NEW r
    PROVE  Fine(Looked(r)) /\ Fine(Tested(r))
<1>1. Fine(Looked(r))  BY FineNext DEF Looked
<1> QED  BY <1>1, FineUndo DEF Tested

LEMMA StepTestFails ==
    ASSUME LexerInv, TestFails
    PROVE  LexerInv'
<1> DEFINE l == Looked(Head(todo))
<1>1. /\ pc = "logic" /\ todo # <<>> /\ lx' = Undo(l) /\ todo' = Tail(todo)
      /\ UNCHANGED <<client, pc, tok, tokens, result, oom>>
  BY DEF TestFails
<1>2. Fine(l)  BY <1>1, LexerFine, LookedFine DEF TokenPcs
<1> HIDE DEF l
<1>3. Fine(Undo(l)) /\ Undo(l).it = Undo(l).start_it
  BY <1>2, FineUndo, UndoKeeps DEF Fine
<1>4. Sound(lx)' /\ Counted(lx)'  BY <1>1, <1>3 DEF Fine
<1>5. StartsUndone'  BY <1>1, <1>3 DEF StartsUndone
<1>6. Tail(todo) \in Seq(Recognisers)  BY <1>1 DEF LexerInv, OtherTypes
<1>7. OtherTypes'  BY <1>1, <1>6 DEF LexerInv, OtherTypes
<1>8. TokensMeet'  BY <1>1 DEF LexerInv, TokensMeet, LengthsAreTheTexts, InArena
<1>9. Placed(lx)'  BY <1>1, <1>3 DEF Fine, Placed, DataEnd
<1> QED  BY <1>1, <1>4, <1>5, <1>7, <1>8, <1>9 DEF LexerInv

LEMMA KindTyped ==
    ASSUME tok \in Tok, NEW k \in Kinds, Kind(k)
    PROVE  tok' \in Tok
BY DEF Kind, Tok

LEMMA StepsStart ==
    ASSUME LexerInv, StartIdentifier \/ StartComment \/ StartString \/ StartNumber \/ StartSpaces
    PROVE  LexerInv'
<1>1. pc = "logic"
  BY DEF StartIdentifier, StartComment, StartString, StartNumber, StartSpaces, Chosen
<1>2. pc \in TokenPcs /\ Fine(lx) /\ tok \in Tok /\ NextChar(lx) \in Byte
  BY <1>1, LexerFine DEF TokenPcs
<1>3. /\ "identifier" \in TokenPcs \ {"logic"} /\ "comment" \in TokenPcs \ {"logic"}
      /\ "string" \in TokenPcs \ {"logic"} /\ "digits" \in TokenPcs \ {"logic"}
      /\ "spaces" \in TokenPcs \ {"logic"}
  BY DEF TokenPcs
<1>4. /\ "identifier" \in Kinds /\ "comment" \in Kinds /\ "string" \in Kinds
      /\ "integer" \in Kinds /\ "spaces" \in Kinds
  BY DEF Kinds
<1>5. CASE StartIdentifier
  <2>1. Goto(lx, "identifier") /\ Kind("identifier")  BY <1>5 DEF StartIdentifier
  <2>2. tok' \in Tok  BY <1>2, <1>4, <2>1, KindTyped
  <2> QED  BY <1>2, <1>3, <2>1, <2>2, LoopStep
<1>6. CASE StartComment
  <2> DEFINE l == Reject4(Tested("comment"))
  <2>1. Goto(l, "comment") /\ Kind("comment")  BY <1>6 DEF StartComment
  <2>2. tok' \in Tok  BY <1>2, <1>4, <2>1, KindTyped
  <2>3. Fine(l)  BY <1>2, LookedFine, FineReject
  <2> QED  BY <1>2, <1>3, <2>1, <2>2, <2>3, LoopStep
<1>7. CASE StartString
  <2> DEFINE l == Reject(Next(Tested("string")))
  <2>1. /\ Goto(l, "string")
        /\ tok' = [tok EXCEPT !.kind = "string", !.delimiter = NextChar(lx)]
    BY <1>7 DEF StartString
  <2>2. tok' \in Tok  BY <1>2, <1>4, <2>1 DEF Tok
  <2>3. Fine(l)  BY <1>2, LookedFine, FineNext, FineReject
  <2> QED  BY <1>2, <1>3, <2>1, <2>2, <2>3, LoopStep
<1>8. CASE StartNumber
  <2> DEFINE t == Tested("number")
  <2>1. PICK m \in {Accept2(Next2(t)), Accept(Next2(t)), Next2(t)}, hex \in BOOLEAN :
          /\ Goto(Undo(m), "digits")
          /\ tok' = [tok EXCEPT !.kind = "integer", !.is_hex = hex]
    BY <1>8 DEF StartNumber
  <2>2. tok' \in Tok  BY <1>2, <1>4, <2>1 DEF Tok
  <2>3. Fine(t)  BY <1>2, LookedFine
  <2> HIDE DEF t
  <2>4. Fine(Undo(m))
    <3>1. Fine(m)  BY <2>3, FineNext, FineAccept
    <3> QED  BY <3>1, FineUndo
  <2> QED  BY <1>2, <1>3, <2>1, <2>2, <2>4, LoopStep
<1>9. CASE StartSpaces
  <2>1. Goto(Tested("spaces"), "spaces") /\ Kind("spaces")  BY <1>9 DEF StartSpaces
  <2>2. tok' \in Tok  BY <1>2, <1>4, <2>1, KindTyped
  <2>3. Fine(Tested("spaces"))  BY <1>2, LookedFine
  <2> QED  BY <1>2, <1>3, <2>1, <2>2, <2>3, LoopStep
<1> QED  BY <1>5, <1>6, <1>7, <1>8, <1>9

LEMMA EscapeLengths ==
    ASSUME NEW e \in XmlEscapes
    PROVE  Len(e) \in {4, 5, 6}
<1>1. Len(<<"&", "l", "t", ";">>) = 4 /\ Len(<<"&", "g", "t", ";">>) = 4  OBVIOUS
<1>2. Len(<<"&", "a", "m", "p", ";">>) = 5  OBVIOUS
<1>3. Len(<<"&", "a", "p", "o", "s", ";">>) = 6 /\ Len(<<"&", "q", "u", "o", "t", ";">>) = 6
  OBVIOUS
<1> QED  BY <1>1, <1>2, <1>3 DEF XmlEscapes

LEMMA EscapedCharTyped ==
    ASSUME NEW e
    PROVE  EscapedChar(e) \in Byte
BY ByteAssumption DEF EscapedChar

LEMMA StepLexEscape ==
    ASSUME LexerInv, LexEscape
    PROVE  LexerInv'
<1> DEFINE l == Tested("escape")
           r == Reject4(Next6(l))
<1>1. PICK e \in EscapesAt(Seen(l, Next6(l), 6)) :
        Goto(Emit(CASE Len(e) = 4 -> r
                    [] Len(e) = 5 -> Reject(r)
                    [] Len(e) = 6 -> Reject2(r), EscapedChar(e)),
             "close")
  BY DEF LexEscape
<1>2. pc = "logic" /\ Kind("escape")  BY DEF LexEscape, Chosen
<1>3. pc \in TokenPcs /\ Fine(lx) /\ tok \in Tok
  BY <1>2, LexerFine DEF TokenPcs
<1>4. Len(e) \in {4, 5, 6}  BY EscapeLengths DEF EscapesAt
<1>5. Fine(r)  BY <1>3, LookedFine, FineNext, FineReject
<1> HIDE DEF r
<1>6. PICK m \in {r, Reject(r), Reject2(r)} : Goto(Emit(m, EscapedChar(e)), "close")
  BY <1>1, <1>4
<1>7. Fine(Emit(m, EscapedChar(e)))
  <2>1. Fine(m)  BY <1>5, FineReject
  <2> QED  BY <2>1, EscapedCharTyped, FineEmit
<1>8. tok' \in Tok
  <2>1. "escape" \in Kinds  BY DEF Kinds
  <2> QED  BY <1>2, <1>3, <2>1, KindTyped
<1>9. "close" \in TokenPcs \ {"logic"}  BY DEF TokenPcs
<1> QED  BY <1>3, <1>6, <1>7, <1>8, <1>9, LoopStep

LEMMA StepLexPunctuator ==
    ASSUME LexerInv, LexPunctuator
    PROVE  LexerInv'
<1> DEFINE l == Tested("punctuator")
           n == PunctuatorLength(Seen(l, Next3(l), 3))
           t == Next3(l)
<1>1. /\ pc = "logic"
      /\ Goto(CASE n = 0 -> t
                [] n = 1 -> Accept(t)
                [] n = 2 -> Accept2(t)
                [] n = 3 -> Accept3(t), "close")
      /\ Kind(IF n = 0 THEN "null" ELSE "punctuator")
  BY DEF LexPunctuator, Chosen
<1>2. pc \in TokenPcs /\ Fine(lx) /\ tok \in Tok
  BY <1>1, LexerFine DEF TokenPcs
<1>3. n \in {0, 1, 2, 3}  BY DEF PunctuatorLength
<1>4. Fine(t)  BY <1>2, LookedFine, FineNext
<1> HIDE DEF n, t
<1>5. PICK m \in {t, Accept(t), Accept2(t), Accept3(t)} : Goto(m, "close")
  BY <1>1, <1>3
<1>6. Fine(m)  BY <1>4, FineAccept
<1>7. tok' \in Tok
  <2>1. (IF n = 0 THEN "null" ELSE "punctuator") \in Kinds  BY DEF Kinds
  <2> QED  BY <1>1, <1>2, <2>1, KindTyped
<1>8. "close" \in TokenPcs \ {"logic"}  BY DEF TokenPcs
<1> QED  BY <1>2, <1>5, <1>6, <1>7, <1>8, LoopStep

LEMMA StepsIdentifier ==
    ASSUME LexerInv, IdentifierStep \/ IdentifierEnd \/ SpacesStep \/ SpacesEnd
    PROVE  LexerInv'
<1>1. PICK m \in {Accept(Next(lx)), lx, Next(lx)}, p \in {"identifier", "spaces", "close"} :
        On(m, p) /\ pc \in {"identifier", "spaces"}
  BY DEF IdentifierStep, IdentifierEnd, SpacesStep, SpacesEnd
<1>2. pc \in TokenPcs /\ p \in TokenPcs \ {"logic"}  BY <1>1 DEF TokenPcs
<1>3. Fine(lx)  BY <1>2, LexerFine
<1>4. Fine(m)  BY <1>3, FineNext, FineAccept
<1> QED  BY <1>1, <1>2, <1>4, LoopOn

LEMMA StepsComment ==
    ASSUME LexerInv, CommentStep \/ CommentCut
    PROVE  LexerInv'
<1>1. pc = "comment"  BY DEF CommentStep, CommentCut
<1>2. pc \in TokenPcs /\ Fine(lx)  BY <1>1, LexerFine DEF TokenPcs
<1>3. /\ "comment" \in TokenPcs \ {"logic"} /\ "close" \in TokenPcs \ {"logic"}
  BY DEF TokenPcs
<1>4. CASE CommentStep
  <2> DEFINE c == Seen(lx, Next3(lx), 3)
  <2>1. c[1] = "-" /\ c[2] = "-" /\ c[3] = ">" => c = <<"-", "-", ">">>
    BY DEF Seen
  <2> HIDE DEF c
  <2>2. PICK m \in {Accept(Next(lx)), Accept2(Next2(lx)), Accept3(Next3(lx)),
                    Reject3(Next3(lx))},
             p \in {"comment", "close"} : On(m, p)
    <3>1. CASE c[1] # "-"  BY <1>4, <3>1 DEF CommentStep, c
    <3>2. CASE c[1] = "-" /\ c[2] # "-"  BY <1>4, <3>2 DEF CommentStep, c
    <3>3. CASE c[1] = "-" /\ c[2] = "-" /\ c[3] # ">"  BY <1>4, <3>3 DEF CommentStep, c
    <3>4. CASE c[1] = "-" /\ c[2] = "-" /\ c[3] = ">"
      BY <1>4, <2>1, <3>4 DEF CommentStep, c
    <3> QED  BY <3>1, <3>2, <3>3, <3>4
  <2>3. Fine(m)
    BY <1>2, FineNext, FineAccept, FineReject
  <2> QED  BY <1>2, <1>3, <2>2, <2>3, LoopOn
<1>5. CASE CommentCut
  <2>1. On(lx, "close")  BY <1>5 DEF CommentCut
  <2> QED  BY <1>2, <1>3, <2>1, LoopOn
<1> QED  BY <1>4, <1>5

LEMMA StepsString ==
    ASSUME LexerInv, StringEscape \/ StringChar \/ StringEnd \/ StringNewline \/ StringCut
    PROVE  LexerInv'
<1>1. pc = "string"
  BY DEF StringEscape, StringChar, StringEnd, StringNewline, StringCut
<1>2. pc \in TokenPcs /\ Fine(lx)  BY <1>1, LexerFine DEF TokenPcs
<1>3. "string" \in TokenPcs \ {"logic"} /\ "close" \in TokenPcs \ {"logic"}
  BY DEF TokenPcs
<1>4. Fine(Next(lx)) /\ Fine(Next2(lx))  BY <1>2, FineNext
<1>5. CASE StringEscape
  <2> DEFINE c == NextChar(Next(lx))
  <2>1. c \in Byte  BY <1>4, NextCharTyped DEF Fine
  <2>2. PICK m \in {Emit(Reject2(Next2(lx)), c), Reject(Next2(lx))} : On(m, "string")
    BY <1>5 DEF StringEscape
  <2> HIDE DEF c
  <2>3. Fine(Reject(Next2(lx))) /\ Fine(Reject2(Next2(lx)))  BY <1>4, FineReject
  <2>4. Fine(m)  BY <2>1, <2>2, <2>3, FineEmit
  <2> QED  BY <1>2, <1>3, <2>2, <2>4, LoopOn
<1>6. CASE StringChar \/ StringEnd
  <2>1. PICK m \in {Accept(Next(lx)), Reject(Next(lx))}, p \in {"string", "close"} : On(m, p)
    BY <1>6 DEF StringChar, StringEnd
  <2>2. Fine(m)  BY <1>4, FineAccept, FineReject
  <2> QED  BY <1>2, <1>3, <2>1, <2>2, LoopOn
<1>7. CASE StringNewline \/ StringCut
  <2>1. PICK m \in {Reject(Next(lx)), lx},
             e \in {{"InvalidString", "PrematureEndOfString"}, {"PrematureEndOfString"}} :
          On(WithError(m, e), "close")
    BY <1>7 DEF StringNewline, StringCut
  <2>2. e \in SUBSET Errors  BY DEF Errors
  <2>3. Fine(m)  BY <1>2, <1>4, FineReject
  <2>4. Fine(WithError(m, e))  BY <2>2, <2>3, FineWithError
  <2> QED  BY <1>2, <1>3, <2>1, <2>4, LoopOn
<1> QED  BY <1>5, <1>6, <1>7

LEMMA StepsNumber ==
    ASSUME LexerInv,
           DigitsStep \/ DigitsEnd \/ NumberDigit \/ NumberDot \/ NumberExponent \/ NumberEnd
             \/ NumberSuffix
    PROVE  LexerInv'
<1>1. pc \in {"digits", "number", "suffix"}
  BY DEF DigitsStep, DigitsEnd, NumberDigit, NumberDot, NumberExponent, NumberEnd,
         NumberSuffix
<1>2. pc \in TokenPcs /\ Fine(lx) /\ tok \in Tok  BY <1>1, LexerFine DEF TokenPcs
<1>3. /\ "digits" \in TokenPcs \ {"logic"} /\ "number" \in TokenPcs \ {"logic"}
      /\ "suffix" \in TokenPcs \ {"logic"} /\ "close" \in TokenPcs \ {"logic"}
  BY DEF TokenPcs
<1>4. /\ Fine(Next(lx)) /\ Fine(Next2(lx))
      /\ Fine(Accept(Next(lx))) /\ Fine(Accept(Next2(lx))) /\ Fine(Accept2(Next2(lx)))
      /\ Fine(Undo(lx)) /\ Fine(Undo(Next(lx)))
  <2>1. Fine(Next(lx)) /\ Fine(Next2(lx))  BY <1>2, FineNext
  <2> QED  BY <1>2, <2>1, FineAccept, FineUndo
<1>5. CASE DigitsStep \/ DigitsEnd \/ NumberDigit \/ NumberEnd
  <2>1. PICK m \in {Accept(Next(lx)), Undo(lx), Undo(Next(lx))},
             p \in {"digits", "number", "suffix"} : On(m, p)
    BY <1>5 DEF DigitsStep, DigitsEnd, NumberDigit, NumberEnd
  <2> QED  BY <1>2, <1>3, <1>4, <2>1, LoopOn
<1>6. CASE NumberDot \/ NumberExponent
  <2>1. PICK m \in {Accept(Next(lx)), Accept(Next2(lx)), Accept2(Next2(lx))} :
          Goto(m, "number")
    BY <1>6 DEF NumberDot, NumberExponent
  <2>2. \/ tok' = [tok EXCEPT !.kind = "float", !.dot_found = TRUE]
        \/ tok' = [tok EXCEPT !.kind = "float", !.exponent_found = TRUE]
    BY <1>6 DEF NumberDot, NumberExponent
  <2>3. tok' \in Tok  BY <1>2, <2>2 DEF Tok, Kinds
  <2> QED  BY <1>2, <1>3, <1>4, <2>1, <2>3, LoopStep
<1>7. CASE NumberSuffix
  <2>1. PICK m \in {Accept(Next(lx)), Accept(Next2(lx)), Accept2(Next2(lx)), Next(lx)} :
          On(m, "close")
    BY <1>7 DEF NumberSuffix
  <2> QED  BY <1>2, <1>3, <1>4, <2>1, LoopOn
<1> QED  BY <1>5, <1>6, <1>7

LEMMA LexerInvStep ==
    ASSUME LexerInv, [LexerNext]_vars
    PROVE  LexerInv'
<1>1. CASE UNCHANGED vars
  <2>1. /\ lx' = lx /\ pc' = pc
        /\ UNCHANGED <<client, todo, tok, tokens, result, oom>>
    BY <1>1 DEF vars
  <2>2. OtherTypes' /\ StartsUndone' /\ TokensMeet'
    BY <2>1 DEF LexerInv, OtherTypes, StartsUndone, TokensMeet, LengthsAreTheTexts, InArena
  <2>3. Placed(lx)'  BY <2>1 DEF LexerInv, Placed, DataEnd
  <2> QED  BY <2>1, <2>2, <2>3 DEF LexerInv
<1>2. CASE NextToken
  BY <1>2, StepsBefore, StepOpen, StepTestFails, StepsStart, StepLexEscape,
     StepLexPunctuator, StepsIdentifier, StepsComment, StepsString, StepsNumber,
     StepCloseToken, StepCloseFailed
  DEF NextToken
<1> QED  BY <1>1, <1>2 DEF LexerNext, Stopped

-----------------------------------------------------------------------------
(* Where bytes are in the input, and stretches of it.                      *)

NewLines(s, n) == {i \in 1..n : Shown(s, i) = "\n"}

\* The column counts from the last new line, or from the input's first byte.
IsColumn(s, n, column) ==
    \E b \in 0..n :
        /\ b = 0 \/ Shown(s, b) = "\n"
        /\ \A i \in (b + 1)..n : Shown(s, i) # "\n"
        /\ column = n - b

IsPlace(s, n, line_num, column) ==
    line_num = 1 + Cardinality(NewLines(s, n)) /\ IsColumn(s, n, column)

Stretch(s, i, j) == [k \in 1..(j - i) |-> Shown(s, i + k)]

LEMMA PlaceOfFirst ==
    ASSUME NEW s
    PROVE  IsPlace(s, 0, 1, 0)
<1>1. NewLines(s, 0) = {} /\ Cardinality({}) = 0  BY FS_EmptySet DEF NewLines
<1>2. 0 \in 0..0 /\ 0 = 0 - 0 /\ \A i \in (0 + 1)..0 : FALSE  OBVIOUS
<1>3. IsColumn(s, 0, 0)  BY <1>2 DEF IsColumn
<1> QED  BY <1>1, <1>3 DEF IsPlace

\* One byte further.
LEMMA PlaceOfNext ==
    ASSUME NEW s, NEW n \in Nat, NEW line_num, NEW column, IsPlace(s, n, line_num, column)
    PROVE  IF Shown(s, n + 1) = "\n" THEN IsPlace(s, n + 1, line_num + 1, 0)
           ELSE IsPlace(s, n + 1, line_num, column + 1)
<1>1. NewLines(s, n) \subseteq 1..n /\ IsFiniteSet(NewLines(s, n))
      /\ Cardinality(NewLines(s, n)) \in Nat
  <2>1. IsFiniteSet(1..n)  BY FS_Interval
  <2>2. NewLines(s, n) \subseteq 1..n  BY DEF NewLines
  <2>3. IsFiniteSet(NewLines(s, n))  BY <2>1, <2>2, FS_Subset
  <2> QED  BY <2>2, <2>3, FS_CardinalityType
<1>2. 1..(n + 1) = 1..n \cup {n + 1} /\ n + 1 \notin 1..n  OBVIOUS
<1>3. CASE Shown(s, n + 1) = "\n"
  <2>1. NewLines(s, n + 1) = NewLines(s, n) \cup {n + 1}
    BY <1>2, <1>3 DEF NewLines
  <2>2. n + 1 \notin NewLines(s, n)  BY <1>1, <1>2
  <2>3. Cardinality(NewLines(s, n + 1)) = Cardinality(NewLines(s, n)) + 1
    BY <1>1, <2>1, <2>2, FS_AddElement
  <2>4. IsColumn(s, n + 1, 0)
    <3>1. n + 1 \in 0..(n + 1) /\ 0 = (n + 1) - (n + 1)
          /\ \A i \in ((n + 1) + 1)..(n + 1) : FALSE
      OBVIOUS
    <3> QED  BY <1>3, <3>1 DEF IsColumn
  <2>5. line_num + 1 = 1 + Cardinality(NewLines(s, n + 1))
    BY <1>1, <2>3 DEF IsPlace
  <2> QED  BY <1>3, <2>4, <2>5 DEF IsPlace
<1>4. CASE Shown(s, n + 1) # "\n"
  <2>1. NewLines(s, n + 1) = NewLines(s, n)  BY <1>2, <1>4 DEF NewLines
  <2>2. IsColumn(s, n + 1, column + 1)
    <3>1. PICK b \in 0..n : /\ b = 0 \/ Shown(s, b) = "\n"
                            /\ \A i \in (b + 1)..n : Shown(s, i) # "\n"
                            /\ column = n - b
      BY DEF IsPlace, IsColumn
    <3>2. b \in 0..(n + 1) /\ column + 1 = (n + 1) - b  BY <3>1
    <3>3. \A i \in (b + 1)..(n + 1) : i = n + 1 \/ i \in (b + 1)..n  OBVIOUS
    <3> QED  BY <1>4, <3>1, <3>2, <3>3 DEF IsColumn
  <2> QED  BY <1>4, <2>1, <2>2 DEF IsPlace
<1> QED  BY <1>3, <1>4

\* Places are what the properties say.
LEMMA PlaceIsAt ==
    ASSUME NEW n \in Nat, NEW line_num, NEW column, IsPlace(lx.src, n, line_num, column)
    PROVE  line_num = LineAt(n) /\ column = ColumnAt(n)
<1>1. NewLines(lx.src, n) = NewlinesIn(n)
  BY DEF NewLines, NewlinesIn, Shown, Source
<1>2. line_num = LineAt(n)  BY <1>1 DEF IsPlace, LineAt
<1>3. PICK b \in 0..n : /\ b = 0 \/ Shown(lx.src, b) = "\n"
                        /\ \A i \in (b + 1)..n : Shown(lx.src, i) # "\n"
                        /\ column = n - b
  BY DEF IsPlace, IsColumn
<1> DEFINE N == NewlinesIn(n)
           last == CHOOSE i \in N : \A j \in N : j <= i
<1>4. \A i \in N : i \in 1..n /\ Shown(lx.src, i) = "\n" /\ i <= b
  BY <1>1, <1>3 DEF NewLines
<1>5. CASE b = 0
  <2>1. N = {}  BY <1>4, <1>5
  <2> QED  BY <1>2, <1>3, <1>5, <2>1 DEF ColumnAt
<1>6. CASE b # 0
  <2>1. b \in N  BY <1>1, <1>3, <1>6 DEF NewLines
  <2>2. last \in N /\ \A j \in N : j <= last  BY <1>4, <2>1
  <2>3. last = b
    <3>1. last <= b /\ b <= last  BY <1>4, <2>1, <2>2
    <3>2. last \in Nat /\ b \in Nat  BY <1>4, <2>2
    <3> HIDE DEF last
    <3> QED  BY <3>1, <3>2
  <2>4. ColumnAt(n) = n - last  BY <2>1 DEF ColumnAt
  <2> QED  BY <1>2, <1>3, <2>3, <2>4
<1> QED  BY <1>5, <1>6

LEMMA StretchGrows ==
    ASSUME NEW s \in Seq(Byte), NEW i \in Nat, NEW j \in Nat, i <= j
    PROVE  /\ Stretch(s, i, j) \in Seq(Byte)
           /\ Append(Stretch(s, i, j), Shown(s, j + 1)) = Stretch(s, i, j + 1)
<1> DEFINE a == Stretch(s, i, j)
           b == Stretch(s, i, j + 1)
           n == j - i
<1>0. n \in Nat  OBVIOUS
<1>1. \A k \in Nat \ {0} : Shown(s, k) \in Byte
  <2> SUFFICES ASSUME NEW k \in Nat \ {0} PROVE Shown(s, k) \in Byte  OBVIOUS
  <2>1. k <= Len(s) => s[k] \in Byte  OBVIOUS
  <2> QED  BY <2>1, Bytes DEF Shown
<1>2. \A k \in 1..n : i + k \in Nat \ {0}  OBVIOUS
<1>3. a = [k \in 1..n |-> Shown(s, i + k)] /\ a \in Seq(Byte) /\ Len(a) = n
  BY <1>0, <1>1, <1>2 DEF Stretch
<1>4. b = [k \in 1..(n + 1) |-> Shown(s, i + k)]
  BY <1>0 DEF Stretch
<1> HIDE DEF a, b
<1>5. Append(a, Shown(s, j + 1)) = b
  <2>0. Shown(s, j + 1) \in Byte  BY <1>1
  <2> DEFINE c == Append(a, Shown(s, j + 1))
  <2>1. /\ c \in Seq(Byte) /\ Len(c) = n + 1
        /\ \A k \in 1..n : c[k] = a[k]
        /\ c[n + 1] = Shown(s, j + 1)
    BY <1>3, <2>0, AppendProperties
  <2>2. c = [k \in 1..(n + 1) |-> c[k]]
    BY <1>0, <2>1
  <2>3. i + (n + 1) = j + 1  BY <1>0
  <2>4. \A k \in 1..(n + 1) : c[k] = Shown(s, i + k)
    <3> SUFFICES ASSUME NEW k \in 1..(n + 1) PROVE c[k] = Shown(s, i + k)  OBVIOUS
    <3>1. CASE k = n + 1  BY <2>1, <2>3, <3>1
    <3>2. CASE k # n + 1
      <4>1. k \in 1..n  BY <1>0, <3>2
      <4> QED  BY <1>3, <2>1, <4>1
    <3> QED  BY <3>1, <3>2
  <2> HIDE DEF c, n
  <2>5. c = [k \in 1..(n + 1) |-> Shown(s, i + k)]  BY <2>2, <2>4
  <2> QED  BY <1>4, <2>5 DEF c
<1> QED  BY <1>3, <1>5 DEF a, b

-----------------------------------------------------------------------------
(* What an operation leaves as it was, and what it moves.                  *)

\* The positions and the text, and what stays bad.
Frame(a, b) ==
    /\ b.src = a.src /\ b.taken = a.taken /\ b.line_num = a.line_num /\ b.column = a.column
    /\ b.text = a.text /\ b.failed = a.failed
    /\ ~b.full => ~a.full
    /\ b.err = {} => a.err = {}

LEMMA FetchedFrames ==
    ASSUME NEW l, Sound(l)
    PROVE  Frame(l, Fetched(l)) /\ Fetched(l).it = l.it /\ Fetched(l).start_it = l.start_it
<1> DEFINE c == NextChar(l)
           more == IF HasByte(l) THEN l.off + 1 ELSE l.off
           buf == [l.buf EXCEPT ![l.end_it] = c]
           full == l.full \/ Overfull(l)
           asserted == l.asserted \/ IsFull(l)
           err == IF c # Nul /\ c \in InvalidChars
                  THEN l.err \cup {"InvalidInputBytes"} ELSE l.err
           inc == Inc(l.end_it)
           f == Fetched(l)
<1>1. l \in LexRec  BY DEF Sound
<1>2. f = [[l EXCEPT !.buf = buf, !.end_it = inc, !.full = full, !.asserted = asserted]
           EXCEPT !.off = more, !.err = err]
  BY <1>1 DEF Fetched, Enqueue, LexRec
<1>3. (err = {} => l.err = {}) /\ (~full => ~l.full)  OBVIOUS
<1> HIDE DEF c, more, buf, full, asserted, err, inc, f
<1>4. /\ f.src = l.src /\ f.start_it = l.start_it
      /\ f.it = l.it /\ f.taken = l.taken
      /\ f.line_num = l.line_num /\ f.column = l.column
      /\ f.full = full /\ f.err = err
      /\ f.text = l.text /\ f.failed = l.failed
  BY <1>1, <1>2 DEF LexRec
<1> QED  BY <1>3, <1>4 DEF Frame, f

\* next() goes one byte ahead of those taken.
LEMMA NextFrames ==
    ASSUME NEW l, Sound(l)
    PROVE  /\ Frame(l, Next(l))
           /\ ~Next(l).full =>
                Distance(Next(l).start_it, Next(l).it) = Distance(l.start_it, l.it) + 1
<1> DEFINE f == IF l.it # l.end_it THEN l ELSE Fetched(l)
           inc == Inc(l.it)
           n == Next(l)
<1>1. Frame(l, f) /\ f.it = l.it /\ f.start_it = l.start_it
  BY FetchedFrames DEF Frame
<1>2. l \in LexRec /\ l.start_it \in Positions /\ l.it \in Positions /\ inc \in Positions
      /\ l.end_it \in Positions
  BY IncTyped DEF Sound, LexRec
<1>3. f \in LexRec
  <2>1. l.it = l.end_it => Fetched(l) \in LexRec  BY FetchedKeeps
  <2> QED  BY <1>2, <2>1
<1>4. n = [f EXCEPT !.it = inc]  BY DEF Next
<1>5. ~f.full => Distance(l.start_it, l.it) # StagingMax
  <2>1. CASE l.it = l.end_it
    <3>1. Staged(l) # StagingMax \/ Fetched(l).full
      <4>1. ASSUME Staged(l) = StagingMax PROVE Fetched(l).full
        <5> DEFINE c == NextChar(l)
                   more == IF HasByte(l) THEN l.off + 1 ELSE l.off
                   buf == [l.buf EXCEPT ![l.end_it] = c]
                   err == IF c # Nul /\ c \in InvalidChars
                          THEN l.err \cup {"InvalidInputBytes"} ELSE l.err
                   next == Inc(l.end_it)
                   asserted == l.asserted \/ IsFull(l)
        <5>1. Overfull(l)  BY <4>1 DEF Overfull
        <5>2. Fetched(l) = [[l EXCEPT !.buf = buf, !.end_it = next, !.full = TRUE,
                                      !.asserted = asserted]
                            EXCEPT !.off = more, !.err = err]
          BY <1>2, <5>1 DEF Fetched, Enqueue, LexRec
        <5> HIDE DEF c, more, buf, err, next, asserted
        <5> QED  BY <1>2, <5>2 DEF LexRec
      <4> QED  BY <4>1
    <3> QED  BY <2>1, <3>1 DEF Staged
  <2>2. CASE l.it # l.end_it
    <3>1. ~l.full => Distance(l.start_it, l.it) <= Staged(l)  BY DEF Sound, InStep
    <3>2. Staged(l) \in 0..StagingMax /\ Distance(l.start_it, l.it) \in 0..StagingMax
      BY <1>2, DistanceTyped DEF Staged
    <3>3. Distance(l.start_it, l.it) # Staged(l)
      BY <1>2, <2>2, IndexOfDistance DEF Staged
    <3> QED  BY <2>2, <3>1, <3>2, <3>3, StagingAssumption
  <2> QED  BY <2>1, <2>2
<1> HIDE DEF f, n
<1>6. /\ n.src = f.src /\ n.start_it = f.start_it /\ n.it = inc /\ n.taken = f.taken
      /\ n.line_num = f.line_num /\ n.column = f.column /\ n.full = f.full /\ n.err = f.err
      /\ n.text = f.text /\ n.failed = f.failed
  <2> HIDE DEF inc
  <2> QED  BY <1>3, <1>4 DEF LexRec
<1>7. Frame(l, n)  BY <1>1, <1>6 DEF Frame
<1>8. ~n.full => Distance(n.start_it, n.it) = Distance(l.start_it, l.it) + 1
  BY <1>1, <1>2, <1>5, <1>6, DistanceGrows
<1> QED  BY <1>7, <1>8 DEF n

LEMMA UndoFrames ==
    ASSUME NEW l, Sound(l)
    PROVE  Frame(l, Undo(l)) /\ Staged(Undo(l)) = Staged(l)
<1>1. l \in LexRec  BY DEF Sound
<1> QED  BY <1>1 DEF Frame, Undo, LexRec, Staged

\* deque() of a staged byte takes the byte that follows those taken.
LEMMA RejectMoves ==
    ASSUME NEW l, Sound(l)
    PROVE  LET r == Reject(l) IN
           /\ r.src = l.src /\ r.full = l.full /\ r.asserted = l.asserted /\ r.err = l.err
           /\ r.text = l.text /\ r.failed = l.failed /\ r.taken = l.taken + 1
           /\ ~l.full /\ Staged(l) >= 1 =>
                /\ Staged(r) = Staged(l) - 1
                /\ DequeChar(l) = Shown(l.src, l.taken + 1)
                /\ r.line_num = IF DequeChar(l) = "\n" THEN l.line_num + 1 ELSE l.line_num
                /\ r.column = IF DequeChar(l) = "\n" THEN 0 ELSE l.column + 1
<1> DEFINE d == IF ~IsEmpty(l) THEN Dropped(l)
                ELSE IF HasByte(l) THEN [l EXCEPT !.off = l.off + 1]
                ELSE l
           it == IF l.it = l.start_it THEN Inc(l.it) ELSE l.it
           inc == Inc(l.start_it)
           column == IF DequeChar(l) = "\n" THEN 0 ELSE l.column + 1
           line_num == IF DequeChar(l) = "\n" THEN l.line_num + 1 ELSE l.line_num
           taken == l.taken + 1
           r == Reject(l)
<1>1. /\ l \in LexRec /\ l.start_it \in Positions /\ l.end_it \in Positions
      /\ l.taken \in Nat
  BY DEF Sound, LexRec
<1>2. r = [d EXCEPT !.column = column, !.line_num = line_num, !.taken = taken]
  BY DEF Reject
<1>3. /\ d \in LexRec
      /\ d.src = l.src /\ d.full = l.full /\ d.err = l.err
      /\ d.text = l.text /\ d.failed = l.failed /\ d.asserted = l.asserted
      /\ ~IsEmpty(l) => d.start_it = inc /\ d.end_it = l.end_it
  <2>1. CASE ~IsEmpty(l)
    <3>1. d \in LexRec  BY <2>1, DroppedKeeps
    <3>2. d = [l EXCEPT !.it = it, !.start_it = inc]  BY <2>1 DEF Dropped
    <3> HIDE DEF d, it, inc
    <3> QED  BY <1>1, <3>1, <3>2 DEF LexRec
  <2>2. CASE IsEmpty(l) /\ HasByte(l)
    <3> DEFINE off == l.off + 1
    <3>1. d = [l EXCEPT !.off = off] /\ off \in Nat  BY <1>1, <2>2 DEF LexRec
    <3> HIDE DEF off, d
    <3> QED  BY <1>1, <2>2, <3>1 DEF LexRec
  <2>3. CASE IsEmpty(l) /\ ~HasByte(l)  BY <1>1, <2>3
  <2> QED  BY <2>1, <2>2, <2>3
<1> HIDE DEF d, r
<1>4. /\ r.src = d.src /\ r.full = d.full /\ r.err = d.err /\ r.text = d.text
      /\ r.failed = d.failed /\ r.taken = taken /\ r.line_num = line_num
      /\ r.asserted = d.asserted /\ r.column = column /\ r.start_it = d.start_it /\ r.end_it = d.end_it
  <2> HIDE DEF column, line_num, taken
  <2> QED  BY <1>2, <1>3 DEF LexRec
<1>5. ASSUME ~l.full, Staged(l) >= 1
      PROVE  Staged(r) = Staged(l) - 1 /\ DequeChar(l) = Shown(l.src, l.taken + 1)
  <2>1. InStep(l) /\ Staged(l) \in 0..StagingMax
    BY <1>1, <1>5, DistanceTyped DEF Sound, Staged
  <2>2. l.start_it # l.end_it
    BY <1>1, <1>5, <2>1, DistanceTyped DEF Staged
  <2>3. ~IsEmpty(l)  BY <2>2 DEF IsEmpty
  <2>4. Staged(r) = Staged(l) - 1
    BY <1>1, <1>3, <1>4, <2>2, <2>3, DistanceShrinks DEF Staged
  <2>5. l.buf[Index(l.start_it, 1 - 1)] = Shown(l.src, l.taken + 1)
    BY <1>5, <2>1 DEF InStep, StagedBytes
  <2>6. Index(l.start_it, 1 - 1) = l.start_it
    BY <1>1, StagingAssumption DEF Index, Positions
  <2> QED  BY <2>3, <2>4, <2>5, <2>6 DEF DequeChar
<1> QED  BY <1>3, <1>4, <1>5 DEF r

\* lex_emit stores the byte, or the text is not whole any more.
LEMMA EmitMoves ==
    ASSUME NEW l, Sound(l), NEW c \in Byte
    PROVE  LET e == Emit(l, c) IN
           /\ e.src = l.src /\ e.taken = l.taken /\ e.line_num = l.line_num
           /\ e.column = l.column /\ e.full = l.full /\ e.err = l.err
           /\ e.asserted = l.asserted
           /\ Staged(e) = Staged(l)
           /\ l.err = {} /\ ~e.failed => ~l.failed /\ e.text = Append(l.text, c)
<1> DEFINE text == Append(l.text, c)
           room == l.room - 1
           cnt == l.emitted_cnt + 1
           arena == Accomodated(l.arena, 1, TokenSize + Len(l.text))
           a == Added(l, c)
           e == Emit(l, c)
<1>1. l \in LexRec /\ l.text \in Seq(Byte)  BY DEF Sound, LexRec
<1>2. \/ a = [l EXCEPT !.text = text, !.room = room, !.arena = arena] /\ ~l.failed
      \/ a = [l EXCEPT !.failed = TRUE]
  BY DEF Added
<1>3. \/ e = [a EXCEPT !.emitted_cnt = cnt]
      \/ e = l /\ l.err # {}
  BY DEF Emit
<1> HIDE DEF text, room, cnt, arena, a, e
<1>4. /\ a.src = l.src /\ a.taken = l.taken /\ a.line_num = l.line_num
      /\ a.column = l.column /\ a.full = l.full /\ a.err = l.err
      /\ a.asserted = l.asserted
      /\ a.start_it = l.start_it /\ a.end_it = l.end_it
      /\ ~a.failed => ~l.failed /\ a.text = text
      /\ DOMAIN a = DOMAIN l
  <2>1. CASE a = [l EXCEPT !.text = text, !.room = room, !.arena = arena] /\ ~l.failed
    BY <1>1, <2>1 DEF LexRec
  <2>2. CASE a = [l EXCEPT !.failed = TRUE]  BY <1>1, <2>2 DEF LexRec
  <2> QED  BY <1>2, <2>1, <2>2
<1>5. CASE e = [a EXCEPT !.emitted_cnt = cnt]
  <2>1. /\ e.src = a.src /\ e.taken = a.taken /\ e.line_num = a.line_num
        /\ e.column = a.column /\ e.full = a.full /\ e.err = a.err
        /\ e.asserted = a.asserted
        /\ e.start_it = a.start_it /\ e.end_it = a.end_it
        /\ e.failed = a.failed /\ e.text = a.text
    BY <1>5
  <2> QED  BY <1>4, <2>1 DEF Staged, e, text
<1>6. CASE e = l /\ l.err # {}
  BY <1>6 DEF e
<1> QED  BY <1>3, <1>5, <1>6

-----------------------------------------------------------------------------
(* How far ahead of the bytes taken a recogniser looks.                    *)

\* How many bytes were looked at and not taken.
Drift(l) == Distance(l.start_it, l.it)

\* Within a step: k more bytes were taken, n are looked at, and all had room.
At(l, k, n) ==
    /\ Sound(lx) /\ Sound(l) /\ ~l.full
    /\ l.src = lx.src /\ l.taken = lx.taken + k /\ Drift(l) = n

LEMMA AtTyped ==
    ASSUME NEW l, NEW k, NEW n, At(l, k, n)
    PROVE  /\ l \in LexRec /\ InStep(l) /\ Staged(l) \in 0..StagingMax /\ n \in 0..StagingMax
           /\ n <= Staged(l) /\ (l.it = l.end_it <=> n = Staged(l))
           /\ l.start_it \in Positions /\ l.it \in Positions /\ l.end_it \in Positions
           /\ l.taken \in Nat /\ Len(l.src) \in Nat /\ (n = 0 <=> l.it = l.start_it)
<1>1. /\ l \in LexRec /\ InStep(l)
      /\ l.start_it \in Positions /\ l.it \in Positions /\ l.end_it \in Positions
      /\ l.taken \in Nat /\ Len(l.src) \in Nat /\ Drift(l) = n
  BY DEF At, Sound, LexRec
<1>2. Staged(l) \in 0..StagingMax /\ n \in 0..StagingMax /\ (n = 0 <=> l.it = l.start_it)
  BY <1>1, DistanceTyped DEF Staged, Drift
<1>3. n <= Staged(l)  BY <1>1 DEF InStep, Drift
<1>4. l.it = l.end_it <=> n = Staged(l)
  <2>1. Index(l.start_it, n) = l.it /\ Index(l.start_it, Staged(l)) = l.end_it
    BY <1>1, IndexOfDistance DEF Staged, Drift
  <2> QED  BY <1>1, <2>1 DEF Staged, Drift
<1> QED  BY <1>1, <1>2, <1>3, <1>4

\* next() shows the byte that follows those looked at.
LEMMA AtShows ==
    ASSUME NEW l, NEW k, NEW n, At(l, k, n)
    PROVE  NextChar(l) = Shown(lx.src, lx.taken + k + n + 1)
<1>1. /\ InStep(l) /\ Staged(l) \in Nat /\ n \in Nat /\ n <= Staged(l)
      /\ (l.it = l.end_it <=> n = Staged(l))
      /\ l.start_it \in Positions /\ l.it \in Positions
      /\ l.taken \in Nat /\ Len(l.src) \in Nat
  BY AtTyped
<1>2. l.src = lx.src /\ l.taken = lx.taken + k  BY DEF At
<1>3. NextChar(l) = Shown(l.src, l.taken + (n + 1))
  <2>1. CASE l.it # l.end_it
    <3>1. n + 1 \in 1..Staged(l) /\ (n + 1) - 1 = n  BY <1>1, <2>1
    <3>2. l.buf[Index(l.start_it, (n + 1) - 1)] = Shown(l.src, l.taken + (n + 1))
      BY <1>1, <3>1 DEF InStep, StagedBytes
    <3>3. Index(l.start_it, n) = l.it  BY <1>1, IndexOfDistance DEF At, Drift
    <3> QED  BY <2>1, <3>1, <3>2, <3>3 DEF NextChar
  <2>2. CASE l.it = l.end_it
    <3>1. n = Staged(l) /\ l.off = Smaller(l.taken + n, Len(l.src))
      BY <1>1, <2>2 DEF InStep
    <3>2. l.taken + (n + 1) = (l.taken + n) + 1 /\ l.taken + n \in Nat  BY <1>1
    <3>3. CASE HasByte(l)
      <4>1. l.off = l.taken + n /\ l.taken + (n + 1) <= Len(l.src) /\ l.off + 1 = l.taken + (n + 1)
        BY <1>1, <3>1, <3>2, <3>3 DEF HasByte, Smaller
      <4> QED  BY <2>2, <3>3, <4>1 DEF NextChar, StreamByte, Shown
    <3>4. CASE ~HasByte(l)
      <4>1. ~(l.taken + (n + 1) <= Len(l.src))
        BY <1>1, <3>1, <3>2, <3>4 DEF HasByte, Smaller
      <4> QED  BY <2>2, <3>4, <4>1 DEF NextChar, Shown
    <3> QED  BY <3>3, <3>4
  <2> QED  BY <2>1, <2>2
<1>4. l.taken + (n + 1) = lx.taken + k + n + 1
  <2>1. l.taken + (n + 1) = l.taken + n + 1  BY <1>1
  <2> QED  BY <1>2, <2>1
<1> QED  BY <1>2, <1>3, <1>4

\* Unless it overflows, next() goes one byte further ahead.
LEMMA AtNext ==
    ASSUME NEW l, NEW k, NEW n, At(l, k, n), ~Next(l).full
    PROVE  At(Next(l), k, n + 1)
<1>1. Sound(l) /\ Sound(Next(l))  BY NextKeeps DEF At
<1>2. /\ Frame(l, Next(l))
      /\ Distance(Next(l).start_it, Next(l).it) = Distance(l.start_it, l.it) + 1
  BY <1>1, NextFrames
<1> QED  BY <1>1, <1>2 DEF At, Frame, Drift

\* With a byte to spare for the one that is looked at, it does not overflow.
LEMMA NextHasRoom ==
    ASSUME NEW l, NEW k, NEW n, At(l, k, n), n <= StagingMax - 2
    PROVE  ~Next(l).full /\ Next(l).asserted = l.asserted
<1>1. /\ l \in LexRec /\ Staged(l) \in 0..StagingMax
      /\ l.start_it \in Positions /\ l.end_it \in Positions /\ ~l.full
      /\ (l.it = l.end_it <=> n = Staged(l)) /\ n \in Nat
  BY AtTyped DEF At
<1> DEFINE f == IF l.it # l.end_it THEN l ELSE Fetched(l)
           inc == Inc(l.it)
<1>2. f \in LexRec /\ ~f.full /\ f.asserted = l.asserted
  <2>1. CASE l.it # l.end_it  BY <1>1, <2>1
  <2>2. CASE l.it = l.end_it
    <3>1. Staged(l) <= StagingMax - 2  BY <1>1, <2>2
    <3>2. ~Overfull(l) /\ ~IsFull(l)
      <4>1. Staged(l) # StagingMax  BY <1>1, <3>1, StagingAssumption
      <4>2. (l.end_it + 1) % StagingMax # l.start_it
        <5>1. CASE l.end_it + 1 < StagingMax
          <6>1. (l.end_it + 1) % StagingMax = l.end_it + 1
            BY <1>1, <5>1, StagingAssumption DEF Positions
          <6> QED  BY <1>1, <3>1, <5>1, <6>1, StagingAssumption DEF Staged, Distance, Positions
        <5>2. CASE l.end_it + 1 = StagingMax
          <6>1. (l.end_it + 1) % StagingMax = 0  BY <5>2, StagingAssumption
          <6> QED  BY <1>1, <3>1, <5>2, <6>1, StagingAssumption DEF Staged, Distance, Positions
        <5>3. CASE l.end_it = StagingMax
          <6>1. (l.end_it + 1) % StagingMax = 1  BY <5>3, StagingAssumption
          <6> QED  BY <1>1, <3>1, <5>3, <6>1, StagingAssumption DEF Staged, Distance, Positions
        <5> QED  BY <1>1, <5>1, <5>2, <5>3, StagingAssumption DEF Positions
      <4> QED  BY <4>1, <4>2 DEF Overfull, IsFull
    <3>3. Fetched(l) \in LexRec  BY <2>2, FetchedKeeps DEF At
    <3>4. /\ Fetched(l).full = (l.full \/ Overfull(l))
          /\ Fetched(l).asserted = (l.asserted \/ IsFull(l))
      <4> DEFINE c == NextChar(l)
                 more == IF HasByte(l) THEN l.off + 1 ELSE l.off
                 buf == [l.buf EXCEPT ![l.end_it] = c]
                 full == l.full \/ Overfull(l)
                 asserted == l.asserted \/ IsFull(l)
                 err == IF c # Nul /\ c \in InvalidChars
                        THEN l.err \cup {"InvalidInputBytes"} ELSE l.err
                 next == Inc(l.end_it)
      <4>1. Fetched(l) = [[l EXCEPT !.buf = buf, !.end_it = next, !.full = full,
                                    !.asserted = asserted]
                          EXCEPT !.off = more, !.err = err]
        BY <1>1 DEF Fetched, Enqueue, LexRec
      <4> HIDE DEF c, more, buf, err, next, full, asserted
      <4>2. Fetched(l).full = full /\ Fetched(l).asserted = asserted  BY <1>1, <4>1 DEF LexRec
      <4> QED  BY <4>2 DEF full, asserted
    <3>5. l.asserted \in BOOLEAN  BY <1>1 DEF LexRec
    <3> QED  BY <1>1, <2>2, <3>2, <3>3, <3>4, <3>5
  <2> QED  BY <2>1, <2>2
<1>3. Next(l) = [f EXCEPT !.it = inc]  BY DEF Next
<1> HIDE DEF f, inc
<1> QED  BY <1>2, <1>3 DEF LexRec

\* The bytes rejected are first among those looked at.
LEMMA AtReject ==
    ASSUME NEW l, NEW k \in Nat, NEW n, At(l, k, n)
    PROVE  At(Reject(l), k + 1, IF n = 0 THEN 0 ELSE n - 1)
<1> DEFINE d == IF ~IsEmpty(l) THEN Dropped(l)
                ELSE IF HasByte(l) THEN [l EXCEPT !.off = l.off + 1]
                ELSE l
           it == IF l.it = l.start_it THEN Inc(l.it) ELSE l.it
           inc == Inc(l.start_it)
           column == IF DequeChar(l) = "\n" THEN 0 ELSE l.column + 1
           line_num == IF DequeChar(l) = "\n" THEN l.line_num + 1 ELSE l.line_num
           taken == l.taken + 1
           r == Reject(l)
           m == IF n = 0 THEN 0 ELSE n - 1
<1>1. /\ l \in LexRec /\ l.start_it \in Positions /\ l.end_it \in Positions
      /\ l.it \in Positions /\ l.taken \in Nat /\ Sound(l)
      /\ n \in 0..StagingMax /\ n <= Staged(l) /\ (n = 0 <=> l.it = l.start_it)
      /\ Staged(l) \in 0..StagingMax
  BY AtTyped DEF At
<1>2. r = [d EXCEPT !.column = column, !.line_num = line_num, !.taken = taken]
  BY DEF Reject
<1>3. /\ d \in LexRec
      /\ IsEmpty(l) => d.start_it = l.start_it /\ d.it = l.it
      /\ ~IsEmpty(l) => d.start_it = inc /\ d.it = it
  <2>1. CASE ~IsEmpty(l)
    <3>1. d \in LexRec  BY <1>1, <2>1, DroppedKeeps
    <3>2. d = [l EXCEPT !.it = it, !.start_it = inc]  BY <2>1 DEF Dropped
    <3> HIDE DEF d, it, inc
    <3> QED  BY <1>1, <2>1, <3>1, <3>2 DEF LexRec
  <2>2. CASE IsEmpty(l) /\ HasByte(l)
    <3> DEFINE off == l.off + 1
    <3>1. d = [l EXCEPT !.off = off] /\ off \in Nat  BY <1>1, <2>2 DEF LexRec
    <3> HIDE DEF off, d
    <3> QED  BY <1>1, <2>2, <3>1 DEF LexRec
  <2>3. CASE IsEmpty(l) /\ ~HasByte(l)  BY <1>1, <2>3
  <2> QED  BY <2>1, <2>2, <2>3
<1>4. Distance(d.start_it, d.it) = m
  <2> HIDE DEF d
  <2>1. CASE IsEmpty(l)
    <3>1. Staged(l) = 0  BY <1>1, <2>1, DistanceTyped DEF IsEmpty, Staged
    <3>2. n = 0  BY <1>1, <3>1
    <3> QED  BY <1>1, <1>3, <2>1, <3>2, DistanceTyped
  <2>2. CASE ~IsEmpty(l) /\ n = 0
    <3>1. it = inc  BY <1>1, <2>2
    <3>2. inc \in Positions  BY <1>1, IncTyped
    <3> HIDE DEF it, inc
    <3> QED  BY <1>3, <2>2, <3>1, <3>2, DistanceTyped
  <2>3. CASE ~IsEmpty(l) /\ n # 0
    <3>1. it = l.it /\ l.start_it # l.it  BY <1>1, <2>3
    <3>2. Distance(inc, l.it) = n - 1  BY <1>1, <3>1, DistanceShrinks DEF At, Drift
    <3> HIDE DEF it, inc
    <3> QED  BY <1>3, <2>3, <3>1, <3>2
  <2> QED  BY <2>1, <2>2, <2>3
<1> HIDE DEF d, r
<1>5. r.start_it = d.start_it /\ r.it = d.it
  <2> HIDE DEF column, line_num, taken
  <2> QED  BY <1>2, <1>3 DEF LexRec
<1>6. Sound(r) /\ r.src = l.src /\ r.full = l.full /\ r.taken = l.taken + 1
  BY <1>1, RejectKeeps, RejectMoves DEF r
<1>7. l.taken = lx.taken + k /\ l.src = lx.src /\ ~l.full  BY DEF At
<1>8. r.taken = lx.taken + (k + 1)
  <2>1. lx.taken \in Nat  BY DEF At, Sound, LexRec
  <2> QED  BY <1>6, <1>7, <2>1
<1>9. Drift(r) = m  BY <1>4, <1>5 DEF Drift
<1> HIDE DEF m
<1>10. At(r, k + 1, m)  BY <1>6, <1>7, <1>8, <1>9 DEF At
<1> QED  BY <1>10 DEF r, m

LEMMA EmitDrifts ==
    ASSUME NEW l, Sound(l), NEW c
    PROVE  Drift(Emit(l, c)) = Drift(l)
<1> DEFINE text == Append(l.text, c)
           room == l.room - 1
           cnt == l.emitted_cnt + 1
           arena == Accomodated(l.arena, 1, TokenSize + Len(l.text))
           a == Added(l, c)
           e == Emit(l, c)
<1>1. l \in LexRec  BY DEF Sound
<1>2. \/ a = [l EXCEPT !.text = text, !.room = room, !.arena = arena]
      \/ a = [l EXCEPT !.failed = TRUE]
  BY DEF Added
<1>3. \/ e = [a EXCEPT !.emitted_cnt = cnt]
      \/ e = l
  BY DEF Emit
<1> HIDE DEF text, room, cnt, arena, a, e
<1>4. a.start_it = l.start_it /\ a.it = l.it /\ DOMAIN a = DOMAIN l
  BY <1>1, <1>2 DEF LexRec
<1>5. e.start_it = l.start_it /\ e.it = l.it
  <2>1. CASE e = [a EXCEPT !.emitted_cnt = cnt]
    <3>1. e.start_it = a.start_it /\ e.it = a.it  BY <2>1
    <3> QED  BY <1>4, <3>1
  <2>2. CASE e = l  BY <2>2
  <2> QED  BY <1>3, <2>1, <2>2
<1> QED  BY <1>5 DEF Drift, e

LEMMA AtEmit ==
    ASSUME NEW l, NEW k, NEW n, At(l, k, n), NEW c \in Byte
    PROVE  At(Emit(l, c), k, n)
<1> DEFINE e == Emit(l, c)
<1>1. Sound(e) /\ e.src = l.src /\ e.taken = l.taken /\ e.full = l.full
  BY EmitKeeps, EmitMoves DEF At
<1>2. Drift(e) = Drift(l)  BY EmitDrifts DEF At
<1> HIDE DEF e
<1>3. At(e, k, n)  BY <1>1, <1>2 DEF At
<1> QED  BY <1>3 DEF e

LEMMA AtAccept ==
    ASSUME NEW l, NEW k \in Nat, NEW n, At(l, k, n)
    PROVE  At(Accept(l), k + 1, IF n = 0 THEN 0 ELSE n - 1)
<1>1. DequeChar(l) \in Byte  BY NextCharTyped DEF At
<1> QED  BY <1>1, AtReject, AtEmit DEF Accept

LEMMA AtUndo ==
    ASSUME NEW l, NEW k, NEW n, At(l, k, n)
    PROVE  At(Undo(l), k, 0)
<1> DEFINE u == Undo(l)
<1>1. Sound(l) /\ Sound(u) /\ u.it = u.start_it  BY UndoKeeps DEF At
<1>2. l \in LexRec  BY <1>1 DEF Sound
<1>3. u.src = l.src /\ u.taken = l.taken /\ u.full = l.full  BY <1>2 DEF Undo, LexRec
<1> HIDE DEF u
<1>4. u.start_it \in Positions /\ u.it \in Positions  BY <1>1 DEF Sound, LexRec
<1>5. Drift(u) = 0  BY <1>1, <1>4, DistanceTyped DEF Drift
<1> QED  BY <1>1, <1>3, <1>5 DEF At, u

LEMMA AtWithError ==
    ASSUME NEW l, NEW k, NEW n, At(l, k, n), NEW e \in SUBSET Errors
    PROVE  At(WithError(l, e), k, n)
<1> DEFINE w == WithError(l, e)
           err == l.err \cup e
<1>1. Sound(w) /\ l \in LexRec /\ w = [l EXCEPT !.err = err]
  BY FineWithError DEF At, Sound, WithError
<1> HIDE DEF w, err
<1>2. /\ w.src = l.src /\ w.full = l.full /\ w.start_it = l.start_it /\ w.it = l.it
      /\ w.taken = l.taken
  BY <1>1 DEF LexRec
<1> QED  BY <1>1, <1>2 DEF At, Drift, w

\* As At, and staging_area_is_full held before none of them.
Within(l, k, n) == At(l, k, n) /\ ~l.asserted

LEMMA WithinNext ==
    ASSUME NEW l, NEW k, NEW n, Within(l, k, n), n <= StagingMax - 2
    PROVE  Within(Next(l), k, n + 1)
BY NextHasRoom, AtNext DEF Within

LEMMA WithinReject ==
    ASSUME NEW l, NEW k \in Nat, NEW n, Within(l, k, n)
    PROVE  Within(Reject(l), k + 1, IF n = 0 THEN 0 ELSE n - 1)
<1>1. Reject(l).asserted = l.asserted  BY RejectMoves DEF Within, At
<1> QED  BY <1>1, AtReject DEF Within

LEMMA WithinEmit ==
    ASSUME NEW l, NEW k, NEW n, Within(l, k, n), NEW c \in Byte
    PROVE  Within(Emit(l, c), k, n)
<1>1. Emit(l, c).asserted = l.asserted  BY EmitMoves DEF Within, At
<1> QED  BY <1>1, AtEmit DEF Within

LEMMA WithinAccept ==
    ASSUME NEW l, NEW k \in Nat, NEW n, Within(l, k, n)
    PROVE  Within(Accept(l), k + 1, IF n = 0 THEN 0 ELSE n - 1)
<1>1. DequeChar(l) \in Byte  BY NextCharTyped DEF Within, At
<1> QED  BY <1>1, WithinReject, WithinEmit DEF Accept

LEMMA WithinUndo ==
    ASSUME NEW l, NEW k, NEW n, Within(l, k, n)
    PROVE  Within(Undo(l), k, 0)
<1>1. Undo(l).asserted = l.asserted  BY DEF Undo, Within, At, Sound, LexRec
<1> QED  BY <1>1, AtUndo DEF Within

LEMMA WithinWithError ==
    ASSUME NEW l, NEW k, NEW n, Within(l, k, n), NEW e \in SUBSET Errors
    PROVE  Within(WithError(l, e), k, n)
<1>1. WithError(l, e).asserted = l.asserted  BY DEF WithError, Within, At, Sound, LexRec
<1> QED  BY <1>1, AtWithError DEF Within

\* What the recognisers do: some bytes are looked at, and then taken.
LEMMA WithinLooks ==
    ASSUME NEW l, NEW k, Within(l, k, 0), StagingMax >= 7
    PROVE  /\ Within(Next(l), k, 1) /\ Within(Next2(l), k, 2) /\ Within(Next3(l), k, 3)
           /\ Within(Next4(l), k, 4) /\ Within(Next6(l), k, 6)
<1>1. ASSUME NEW m, NEW n \in 0..5, Within(m, k, n)
      PROVE  Within(Next(m), k, n + 1)
  <2>1. n <= StagingMax - 2  BY StagingAssumption
  <2> QED  BY <1>1, <2>1, WithinNext
<1>2. Within(Next(l), k, 0 + 1)  BY <1>1
<1>3. Within(Next2(l), k, 1 + 1)  BY <1>1, <1>2 DEF Next2
<1>4. Within(Next3(l), k, 2 + 1)  BY <1>1, <1>3 DEF Next3
<1>5. Within(Next4(l), k, 3 + 1)  BY <1>1, <1>4 DEF Next4
<1>6. Within(Next(Next3(l)), k, 3 + 1)  BY <1>1, <1>4
<1>7. Within(Next(Next(Next3(l))), k, 4 + 1)  BY <1>1, <1>6
<1>8. Within(Next6(l), k, 5 + 1)  BY <1>1, <1>7 DEF Next6, Next3, Next2
<1> QED  BY <1>2, <1>3, <1>4, <1>5, <1>8

LEMMA WithinRejects ==
    ASSUME NEW l, NEW k \in Nat
    PROVE  /\ Within(l, k, 0) => Within(Reject(l), k + 1, 0) /\ Within(Reject4(l), k + 4, 0)
           /\ Within(l, k, 1) => Within(Reject(l), k + 1, 0)
           /\ Within(l, k, 3) => Within(Reject3(l), k + 3, 0)
           /\ Within(l, k, 6) => Within(Reject4(l), k + 4, 2)
<1>1. /\ k + 1 \in Nat /\ k + 2 \in Nat /\ k + 3 \in Nat
      /\ (k + 1) + 1 = k + 2 /\ (k + 2) + 1 = k + 3 /\ (k + 3) + 1 = k + 4
  OBVIOUS
<1>2. ASSUME NEW m, NEW j \in Nat, Within(m, j, 0) PROVE Within(Reject(m), j + 1, 0)
  BY <1>2, WithinReject
<1>3. ASSUME NEW m, NEW j \in Nat, NEW n \in 1..6, Within(m, j, n) PROVE Within(Reject(m), j + 1, n - 1)
  <2>1. n # 0  OBVIOUS
  <2> QED  BY <1>3, <2>1, WithinReject
<1>4. ASSUME Within(l, k, 0) PROVE Within(Reject4(l), k + 4, 0)
  <2>1. Within(Reject(l), k + 1, 0)  BY <1>2, <1>4
  <2>2. Within(Reject(Reject(l)), k + 2, 0)  BY <1>1, <1>2, <2>1
  <2>3. Within(Reject(Reject(Reject(l))), k + 3, 0)  BY <1>1, <1>2, <2>2
  <2>4. Within(Reject(Reject(Reject(Reject(l)))), k + 4, 0)  BY <1>1, <1>2, <2>3
  <2> QED  BY <2>4 DEF Reject4, Reject2
<1>5. ASSUME Within(l, k, 1) PROVE Within(Reject(l), k + 1, 0)
  <2>1. Within(Reject(l), k + 1, 1 - 1)  BY <1>3, <1>5
  <2> QED  BY <2>1
<1>6. ASSUME Within(l, k, 3) PROVE Within(Reject3(l), k + 3, 0)
  <2>1. Within(Reject(l), k + 1, 3 - 1)  BY <1>3, <1>6
  <2>2. Within(Reject(l), k + 1, 2)  BY <2>1
  <2>3. Within(Reject(Reject(l)), k + 2, 2 - 1)  BY <1>1, <1>3, <2>2
  <2>4. Within(Reject(Reject(l)), k + 2, 1)  BY <2>3
  <2>5. Within(Reject(Reject(Reject(l))), k + 3, 1 - 1)  BY <1>1, <1>3, <2>4
  <2> QED  BY <2>5 DEF Reject3, Reject2
<1>7. ASSUME Within(l, k, 6) PROVE Within(Reject4(l), k + 4, 2)
  <2>1. Within(Reject(l), k + 1, 6 - 1)  BY <1>3, <1>7
  <2>2. Within(Reject(l), k + 1, 5)  BY <2>1
  <2>3. Within(Reject(Reject(l)), k + 2, 5 - 1)  BY <1>1, <1>3, <2>2
  <2>4. Within(Reject(Reject(l)), k + 2, 4)  BY <2>3
  <2>5. Within(Reject(Reject(Reject(l))), k + 3, 4 - 1)  BY <1>1, <1>3, <2>4
  <2>6. Within(Reject(Reject(Reject(l))), k + 3, 3)  BY <2>5
  <2>7. Within(Reject(Reject(Reject(Reject(l)))), k + 4, 3 - 1)  BY <1>1, <1>3, <2>6
  <2> QED  BY <2>7 DEF Reject4, Reject2
<1> QED  BY <1>2, <1>4, <1>5, <1>6, <1>7

LEMMA WithinAccepts ==
    ASSUME NEW l, NEW k \in Nat
    PROVE  /\ Within(l, k, 1) => Within(Accept(l), k + 1, 0)
           /\ Within(l, k, 2) => Within(Accept(l), k + 1, 1) /\ Within(Accept2(l), k + 2, 0)
           /\ Within(l, k, 3) => Within(Accept(l), k + 1, 2) /\ Within(Accept2(l), k + 2, 1)
                             /\ Within(Accept3(l), k + 3, 0)
<1>1. k + 1 \in Nat /\ k + 2 \in Nat /\ (k + 1) + 1 = k + 2 /\ (k + 2) + 1 = k + 3  OBVIOUS
<1>2. ASSUME NEW m, NEW j \in Nat
      PROVE  /\ Within(m, j, 1) => Within(Accept(m), j + 1, 0)
             /\ Within(m, j, 2) => Within(Accept(m), j + 1, 1)
             /\ Within(m, j, 3) => Within(Accept(m), j + 1, 2)
  <2>1. /\ (IF 1 = 0 THEN 0 ELSE 1 - 1) = 0 /\ (IF 2 = 0 THEN 0 ELSE 2 - 1) = 1
        /\ (IF 3 = 0 THEN 0 ELSE 3 - 1) = 2
    OBVIOUS
  <2>2. Within(m, j, 1) => Within(Accept(m), j + 1, IF 1 = 0 THEN 0 ELSE 1 - 1)  BY WithinAccept
  <2>3. Within(m, j, 2) => Within(Accept(m), j + 1, IF 2 = 0 THEN 0 ELSE 2 - 1)  BY WithinAccept
  <2>4. Within(m, j, 3) => Within(Accept(m), j + 1, IF 3 = 0 THEN 0 ELSE 3 - 1)  BY WithinAccept
  <2> QED  BY <2>1, <2>2, <2>3, <2>4
<1>3. ASSUME NEW m, NEW j \in Nat, Within(m, j, 2) PROVE Within(Accept2(m), j + 2, 0)
  <2>1. Within(Accept(m), j + 1, 1)  BY <1>2, <1>3
  <2>2. Within(Accept(Accept(m)), (j + 1) + 1, 0)  BY <1>2, <2>1
  <2>3. (j + 1) + 1 = j + 2  OBVIOUS
  <2> QED  BY <2>2, <2>3 DEF Accept2
<1>4. ASSUME Within(l, k, 3) PROVE Within(Accept2(l), k + 2, 1) /\ Within(Accept3(l), k + 3, 0)
  <2>1. Within(Accept(l), k + 1, 2)  BY <1>2, <1>4
  <2>2. Within(Accept(Accept(l)), k + 2, 1)  BY <1>1, <1>2, <2>1
  <2>3. Within(Accept(Accept(Accept(l))), k + 3, 0)  BY <1>1, <1>2, <2>2
  <2> QED  BY <2>2, <2>3 DEF Accept2, Accept3
<1> QED  BY <1>2, <1>3, <1>4

-----------------------------------------------------------------------------
(* Strings without the backslashes that escape.                            *)

LEMMA StretchIs ==
    ASSUME NEW s, NEW b \in Nat, NEW e \in Nat, b <= e
    PROVE  /\ Len(Stretch(s, b, e)) = e - b /\ e - b \in Nat
           /\ \A k \in 1..(e - b) : Stretch(s, b, e)[k] = Shown(s, b + k)
<1>1. e - b \in Nat  OBVIOUS
<1> QED  BY <1>1 DEF Stretch

\* The characters that a backslash may precede in a string that q begins.
Escapable(q) == {q, "\\", "\n", "\f", "\t"}

\* One of the escaping backslashes E behind byte b precedes another one.
Misleads(s, b, E) == \E i \in E : Shown(s, b + i + 1) \notin Escapable(Shown(s, b))

\* The text is that of the string that byte b begins and the byte after e ends,
\* unless a backslash in it is misplaced.
Decoded(s, text, b, e) ==
    /\ b <= e
    /\ \E E \in SUBSET (1..(e - b)) :
         /\ AreEscaping(Stretch(s, b, e), E)
         /\ \/ Misleads(s, b, E)
            \/ IsWithout(text, Stretch(s, b, e), E) /\ Shown(s, e + 1) = Shown(s, b)

\* While no backslash was misplaced, nothing is looked at and not taken, and the
\* text is that of the bytes after b, up to e, and no backslash escapes the next.
Stored(s, text, b, e, drift) ==
    /\ b <= e
    /\ \E E \in SUBSET (1..(e - b)) :
         /\ AreEscaping(Stretch(s, b, e), E)
         /\ \/ Misleads(s, b, E)
            \/ drift = 0 /\ e - b \notin E /\ IsWithout(text, Stretch(s, b, e), E)

\* One byte more is escaping, or it is not.
LEMMA EscapingGrows ==
    ASSUME NEW s, NEW b \in Nat, NEW e \in Nat, b <= e,
           NEW E \in SUBSET (1..(e - b)), AreEscaping(Stretch(s, b, e), E)
    PROVE  LET F == IF Shown(s, e + 1) = "\\" /\ e - b \notin E THEN E \cup {e - b + 1} ELSE E
           IN  F \in SUBSET (1..(e + 1 - b)) /\ AreEscaping(Stretch(s, b, e + 1), F)
<1> DEFINE n == e - b
           v == Stretch(s, b, e)
           w == Stretch(s, b, e + 1)
           F == IF Shown(s, e + 1) = "\\" /\ n \notin E THEN E \cup {n + 1} ELSE E
<1>1. /\ n \in Nat /\ e + 1 - b = n + 1 /\ b + (n + 1) = e + 1 /\ b <= e + 1 /\ e + 1 \in Nat
      /\ (n + 1) - 1 = n
  OBVIOUS
<1>2. /\ Len(v) = n /\ \A k \in 1..n : v[k] = Shown(s, b + k)
      /\ Len(w) = n + 1 /\ \A k \in 1..(n + 1) : w[k] = Shown(s, b + k)
  BY <1>1, StretchIs
<1>3. E \in SUBSET (1..n) /\ \A i \in 1..n : i \in E <=> v[i] = "\\" /\ i - 1 \notin E
  BY <1>2 DEF AreEscaping
<1> HIDE DEF n, v, w
<1>4. F \in SUBSET (1..(n + 1))  BY <1>1, <1>3
<1>5. ASSUME NEW i \in 1..(n + 1)
      PROVE  i \in F <=> w[i] = "\\" /\ i - 1 \notin F
  <2>1. CASE i = n + 1
    <3>1. w[i] = Shown(s, e + 1) /\ n + 1 \notin E /\ i - 1 = n
      BY <1>1, <1>2, <1>3, <2>1
    <3>2. n \in F <=> n \in E  BY <1>1
    <3> QED  BY <2>1, <3>1, <3>2
  <2>2. CASE i # n + 1
    <3>1. i \in 1..n /\ i - 1 # n + 1  BY <1>1, <2>2
    <3>2. w[i] = v[i] /\ (i \in F <=> i \in E) /\ (i - 1 \in F <=> i - 1 \in E)
      BY <1>1, <1>2, <2>2, <3>1
    <3> QED  BY <1>3, <3>1, <3>2
  <2> QED  BY <2>1, <2>2
<1> HIDE DEF F
<1>6. AreEscaping(w, F)  BY <1>2, <1>5 DEF AreEscaping
<1> QED  BY <1>1, <1>4, <1>6 DEF F, n, w

\* A backslash that escapes is left out.
LEMMA WithoutEscape ==
    ASSUME NEW s, NEW b \in Nat, NEW e \in Nat, b <= e, NEW t,
           NEW E \in SUBSET (1..(e - b)), IsWithout(t, Stretch(s, b, e), E)
    PROVE  IsWithout(t, Stretch(s, b, e + 1), E \cup {e - b + 1})
<1> DEFINE n == e - b
           v == Stretch(s, b, e)
           w == Stretch(s, b, e + 1)
<1>1. n \in Nat /\ e + 1 - b = n + 1 /\ b <= e + 1 /\ e + 1 \in Nat  OBVIOUS
<1>2. /\ Len(v) = n /\ \A k \in 1..n : v[k] = Shown(s, b + k)
      /\ Len(w) = n + 1 /\ \A k \in 1..(n + 1) : w[k] = Shown(s, b + k)
  BY <1>1, StretchIs
<1> HIDE DEF n, v, w
<1>3. 1..(n + 1) = 1..n \cup {n + 1} /\ n + 1 \notin 1..n  BY <1>1
<1>4. Kept(w, E \cup {n + 1}) = Kept(v, E)  BY <1>2, <1>3 DEF Kept
<1>5. \A i \in Kept(v, E) : w[i] = v[i]  BY <1>2, <1>3 DEF Kept
<1> QED  BY <1>4, <1>5 DEF IsWithout, n, v, w

\* Any other byte is stored.
LEMMA WithoutGrows ==
    ASSUME NEW s, NEW b \in Nat, NEW e \in Nat, b <= e, NEW t \in Seq(Byte),
           NEW E \in SUBSET (1..(e - b)), IsWithout(t, Stretch(s, b, e), E),
           Shown(s, e + 1) \in Byte
    PROVE  IsWithout(Append(t, Shown(s, e + 1)), Stretch(s, b, e + 1), E)
<1> DEFINE n == e - b
           v == Stretch(s, b, e)
           w == Stretch(s, b, e + 1)
           K == Kept(v, E)
           c == Shown(s, e + 1)
           u == Append(t, c)
           upto(S, i) == {j \in S : j <= i}
<1>1. n \in Nat /\ e + 1 - b = n + 1 /\ b + (n + 1) = e + 1 /\ b <= e + 1 /\ e + 1 \in Nat
  OBVIOUS
<1>2. /\ Len(v) = n /\ \A k \in 1..n : v[k] = Shown(s, b + k)
      /\ Len(w) = n + 1 /\ \A k \in 1..(n + 1) : w[k] = Shown(s, b + k)
  BY <1>1, StretchIs
<1>3. Len(u) = Len(t) + 1 /\ u[Len(t) + 1] = c /\ \A i \in 1..Len(t) : u[i] = t[i]
  OBVIOUS
<1>4. Len(t) = Cardinality(K) /\ \A i \in K : t[Cardinality(upto(K, i))] = v[i]
  BY DEF IsWithout
<1> HIDE DEF n, v, w, K, u, c
<1>5. K \in SUBSET (1..n) /\ IsFiniteSet(K) /\ n + 1 \notin K /\ Cardinality(K) \in Nat
  <2>1. K \in SUBSET (1..n)  BY <1>2 DEF K, Kept
  <2>2. IsFiniteSet(1..n)  BY <1>1, FS_Interval
  <2>3. IsFiniteSet(K)  BY <2>1, <2>2, FS_Subset
  <2> QED  BY <1>1, <2>1, <2>3, FS_CardinalityType
<1>6. Kept(w, E) = K \cup {n + 1}
  <2>1. 1..(n + 1) = 1..n \cup {n + 1} /\ n + 1 \notin E  BY <1>1 DEF n
  <2> QED  BY <1>2, <2>1 DEF Kept, K
<1>7. Cardinality(K \cup {n + 1}) = Len(t) + 1  BY <1>4, <1>5, FS_AddElement
<1>8. ASSUME NEW i \in K \cup {n + 1}
      PROVE  u[Cardinality(upto(K \cup {n + 1}, i))] = w[i]
  <2>1. CASE i = n + 1
    <3>1. upto(K \cup {n + 1}, i) = K \cup {n + 1}
      <4>1. \A j \in K \cup {n + 1} : j <= n + 1  BY <1>1, <1>5
      <4> QED  BY <2>1, <4>1
    <3>2. w[n + 1] = c
      <4>1. n + 1 \in 1..(n + 1)  BY <1>1
      <4>2. w[n + 1] = Shown(s, b + (n + 1))  BY <1>2, <4>1
      <4> QED  BY <1>1, <4>2 DEF c
    <3>3. Cardinality(upto(K \cup {n + 1}, i)) = Len(t) + 1  BY <1>7, <3>1
    <3> QED  BY <1>3, <2>1, <3>2, <3>3
  <2>2. CASE i # n + 1
    <3>1. i \in K /\ i \in 1..n  BY <1>5, <2>2
    <3>2. upto(K \cup {n + 1}, i) = upto(K, i)  BY <1>1, <3>1
    <3>3. Cardinality(upto(K, i)) \in 1..Len(t)
      <4>1. upto(K, i) \subseteq K /\ i \in upto(K, i)  BY <3>1
      <4>2. IsFiniteSet(upto(K, i)) /\ Cardinality(upto(K, i)) <= Cardinality(K)
        BY <1>5, <4>1, FS_Subset
      <4>3. Cardinality(upto(K, i)) \in Nat  BY <4>2, FS_CardinalityType
      <4>4. Cardinality(upto(K, i)) # 0  BY <4>1, <4>2, FS_EmptySet
      <4> QED  BY <1>4, <1>5, <4>2, <4>3, <4>4
    <3>4. w[i] = v[i]  BY <1>1, <1>2, <3>1
    <3> QED  BY <1>3, <1>4, <3>1, <3>2, <3>3, <3>4
  <2> QED  BY <2>1, <2>2
<1>9. IsWithout(u, w, E)  BY <1>3, <1>6, <1>7, <1>8 DEF IsWithout
<1> QED  BY <1>9 DEF u, c, w

LEMMA NothingStored ==
    ASSUME NEW s, NEW b \in Nat
    PROVE  Stored(s, <<>>, b, b, 0)
<1>1. b - b = 0 /\ b <= b  OBVIOUS
<1>2. Len(Stretch(s, b, b)) = 0  BY <1>1, StretchIs
<1>3. AreEscaping(Stretch(s, b, b), {})  BY <1>2 DEF AreEscaping
<1>4. IsWithout(<<>>, Stretch(s, b, b), {})
  <2>1. Kept(Stretch(s, b, b), {}) = {}  BY <1>2 DEF Kept
  <2> QED  BY <2>1, FS_EmptySet DEF IsWithout
<1>5. {} \in SUBSET (1..(b - b))  OBVIOUS
<1> QED  BY <1>1, <1>3, <1>4, <1>5 DEF Stored

\* A byte that is no backslash is stored.
LEMMA StoredChar ==
    ASSUME NEW s \in Seq(Byte), NEW b \in Nat, NEW e \in Nat, NEW text \in Seq(Byte), NEW d, NEW c,
           Stored(s, text, b, e, d),
           d = 0 => c = Shown(s, e + 1) /\ c \in Byte /\ c # "\\"
    PROVE  Stored(s, Append(text, c), b, e + 1, d)
<1>1. b <= e  BY DEF Stored
<1>2. PICK E \in SUBSET (1..(e - b)) :
        /\ AreEscaping(Stretch(s, b, e), E)
        /\ \/ Misleads(s, b, E)
           \/ d = 0 /\ e - b \notin E /\ IsWithout(text, Stretch(s, b, e), E)
  BY DEF Stored
<1> DEFINE F == IF Shown(s, e + 1) = "\\" /\ e - b \notin E THEN E \cup {e - b + 1} ELSE E
<1>3. F \in SUBSET (1..(e + 1 - b)) /\ AreEscaping(Stretch(s, b, e + 1), F)
  BY <1>1, <1>2, EscapingGrows
<1>4. CASE Misleads(s, b, E)
  <2>1. Misleads(s, b, F)  BY <1>4 DEF Misleads
  <2> HIDE DEF F
  <2> QED  BY <1>1, <1>3, <2>1 DEF Stored
<1>5. CASE d = 0 /\ IsWithout(text, Stretch(s, b, e), E)
  <2>1. F = E  BY <1>5
  <2>2. e + 1 - b \notin E
    <3>1. e + 1 - b \notin 1..(e - b)  BY <1>1
    <3> QED  BY <3>1
  <2>3. IsWithout(Append(text, Shown(s, e + 1)), Stretch(s, b, e + 1), E)
    BY <1>1, <1>2, <1>5, WithoutGrows
  <2>4. b <= e + 1  BY <1>1
  <2> QED  BY <1>3, <1>5, <2>1, <2>2, <2>3, <2>4 DEF Stored
<1> QED  BY <1>2, <1>4, <1>5

\* Of two bytes the first escapes the second, which is stored.
LEMMA StoredEscape ==
    ASSUME NEW s \in Seq(Byte), NEW b \in Nat, NEW e \in Nat, NEW text \in Seq(Byte), NEW d, NEW c,
           Stored(s, text, b, e, d),
           d = 0 => Shown(s, e + 1) = "\\" /\ c = Shown(s, e + 2) /\ c \in Byte
    PROVE  Stored(s, Append(text, c), b, e + 2, d)
<1>1. /\ b <= e /\ b <= e + 1 /\ b <= e + 2 /\ e + 1 \in Nat /\ (e + 1) + 1 = e + 2
      /\ e + 1 - b = e - b + 1
  BY DEF Stored
<1>2. PICK E \in SUBSET (1..(e - b)) :
        /\ AreEscaping(Stretch(s, b, e), E)
        /\ \/ Misleads(s, b, E)
           \/ d = 0 /\ e - b \notin E /\ IsWithout(text, Stretch(s, b, e), E)
  BY DEF Stored
<1> DEFINE F == IF Shown(s, e + 1) = "\\" /\ e - b \notin E THEN E \cup {e - b + 1} ELSE E
<1>3. F \in SUBSET (1..(e + 1 - b)) /\ AreEscaping(Stretch(s, b, e + 1), F)
  BY <1>1, <1>2, EscapingGrows
<1>4. E \subseteq F
      /\ (Shown(s, e + 1) = "\\" /\ e - b \notin E => F = E \cup {e - b + 1})
  OBVIOUS
<1> HIDE DEF F
<1> DEFINE G == IF Shown(s, (e + 1) + 1) = "\\" /\ e + 1 - b \notin F
                THEN F \cup {e + 1 - b + 1} ELSE F
<1>5. G \in SUBSET (1..((e + 1) + 1 - b)) /\ AreEscaping(Stretch(s, b, (e + 1) + 1), G)
  <2> HIDE DEF G
  <2>1. ASSUME NEW f \in Nat, b <= f, F \in SUBSET (1..(f - b)),
               AreEscaping(Stretch(s, b, f), F),
               NEW H, H = IF Shown(s, f + 1) = "\\" /\ f - b \notin F
                          THEN F \cup {f - b + 1} ELSE F
        PROVE  H \in SUBSET (1..(f + 1 - b)) /\ AreEscaping(Stretch(s, b, f + 1), H)
    BY <2>1, EscapingGrows
  <2>2. G = IF Shown(s, (e + 1) + 1) = "\\" /\ e + 1 - b \notin F
            THEN F \cup {e + 1 - b + 1} ELSE F
    BY DEF G
  <2> QED  BY <1>1, <1>3, <2>1, <2>2
<1>6. G \in SUBSET (1..(e + 2 - b)) /\ AreEscaping(Stretch(s, b, e + 2), G)
  <2> HIDE DEF G
  <2> QED  BY <1>1, <1>5
<1>7. F \subseteq G /\ (e + 1 - b \in F => G = F)  OBVIOUS
<1> HIDE DEF G
<1>8. CASE Misleads(s, b, E)
  <2>1. Misleads(s, b, G)  BY <1>4, <1>7, <1>8 DEF Misleads
  <2> QED  BY <1>1, <1>6, <2>1 DEF Stored
<1>9. CASE d = 0 /\ e - b \notin E /\ IsWithout(text, Stretch(s, b, e), E)
  <2>1. F = E \cup {e - b + 1}  BY <1>4, <1>9
  <2>2. G = F  BY <1>1, <1>7, <2>1
  <2>3. e + 2 - b \notin F
    <3>1. e + 2 - b \notin 1..(e + 1 - b)  BY <1>1
    <3> QED  BY <1>3, <3>1
  <2>4. IsWithout(text, Stretch(s, b, e + 1), F)
    BY <1>1, <1>2, <1>9, <2>1, WithoutEscape
  <2>5. c = Shown(s, (e + 1) + 1) /\ c \in Byte  BY <1>1, <1>9
  <2>6. IsWithout(Append(text, c), Stretch(s, b, (e + 1) + 1), F)
    BY <1>1, <1>3, <2>4, <2>5, WithoutGrows
  <2>7. IsWithout(Append(text, c), Stretch(s, b, e + 2), G)  BY <1>1, <2>2, <2>6
  <2> QED  BY <1>1, <1>6, <1>9, <2>2, <2>3, <2>7 DEF Stored
<1> QED  BY <1>2, <1>8, <1>9

\* From a misplaced backslash on, nothing is said of the text.
LEMMA StoredMisplaced ==
    ASSUME NEW s \in Seq(Byte), NEW b \in Nat, NEW e \in Nat, NEW text, NEW d,
           Stored(s, text, b, e, d),
           d = 0 => Shown(s, e + 1) = "\\" /\ Shown(s, e + 2) \notin Escapable(Shown(s, b)),
           NEW text2, NEW d2
    PROVE  Stored(s, text2, b, e + 1, d2)
<1>1. b <= e /\ b <= e + 1 /\ e + 1 \in Nat /\ b + (e - b + 1) + 1 = e + 2
  BY DEF Stored
<1>2. PICK E \in SUBSET (1..(e - b)) :
        /\ AreEscaping(Stretch(s, b, e), E)
        /\ \/ Misleads(s, b, E)
           \/ d = 0 /\ e - b \notin E /\ IsWithout(text, Stretch(s, b, e), E)
  BY DEF Stored
<1> DEFINE F == IF Shown(s, e + 1) = "\\" /\ e - b \notin E THEN E \cup {e - b + 1} ELSE E
<1>3. F \in SUBSET (1..(e + 1 - b)) /\ AreEscaping(Stretch(s, b, e + 1), F)
  BY <1>1, <1>2, EscapingGrows
<1>4. Misleads(s, b, F)
  <2>1. CASE Misleads(s, b, E)  BY <2>1 DEF Misleads
  <2>2. CASE d = 0 /\ e - b \notin E
    <3>1. e - b + 1 \in F  BY <2>2
    <3>2. Shown(s, b + (e - b + 1) + 1) \notin Escapable(Shown(s, b))  BY <1>1, <2>2
    <3> HIDE DEF F
    <3> QED  BY <3>1, <3>2 DEF Misleads
  <2> QED  BY <1>2, <2>1, <2>2
<1> HIDE DEF F
<1> QED  BY <1>1, <1>3, <1>4 DEF Stored

\* The delimiter ends the string.
LEMMA StoredEnds ==
    ASSUME NEW s, NEW text, NEW b, NEW e, NEW d, Stored(s, text, b, e, d),
           d = 0 => Shown(s, e + 1) = Shown(s, b)
    PROVE  Decoded(s, text, b, e)
BY DEF Stored, Decoded

-----------------------------------------------------------------------------
(* What happens to a lexer from the state of lx, within a step.            *)

\* Until the staging area overflows, n bytes are staged, and the position is
\* that of the bytes taken.
Since(l, n) ==
    /\ Sound(l)
    /\ ~l.full =>
         /\ ~lx.full /\ l.src = lx.src
         /\ Staged(l) >= n
         /\ ~oom => IsPlace(l.src, l.taken, l.line_num, l.column)

\* n bytes were looked at.
Looks(l, n) == Since(l, n) /\ (~l.full => Distance(l.start_it, l.it) >= n)

\* The text stored is the input from byte b to the last one taken.
TextFrom(l, b) ==
    ~l.full /\ l.err = {} /\ ~l.failed =>
        b <= l.taken /\ l.text = Stretch(l.src, b, l.taken)

LEMMA FrameKeepsText ==
    ASSUME NEW l, NEW m, Frame(l, m), NEW b, TextFrom(l, b)
    PROVE  TextFrom(m, b)
BY DEF Frame, TextFrom

LEMMA StagedTyped ==
    ASSUME NEW l, Sound(l)
    PROVE  Staged(l) \in Nat /\ Distance(l.start_it, l.it) \in Nat
BY DistanceTyped DEF Sound, LexRec, Staged

LEMMA FewerStaged ==
    ASSUME NEW n \in Nat, NEW m \in Nat, m <= n, NEW l, Since(l, n)
    PROVE  Since(l, m)
BY StagedTyped DEF Since

LEMMA LooksNext ==
    ASSUME NEW n \in Nat, NEW l, Looks(l, n)
    PROVE  Looks(Next(l), n + 1)
<1>1. Sound(l) /\ Sound(Next(l))  BY NextKeeps DEF Looks, Since
<1>2. Frame(l, Next(l))  BY <1>1, NextFrames
<1>3. ASSUME ~Next(l).full
      PROVE  /\ Distance(Next(l).start_it, Next(l).it) >= n + 1
             /\ Staged(Next(l)) >= n + 1
  <2>1. Distance(Next(l).start_it, Next(l).it) = Distance(l.start_it, l.it) + 1
    BY <1>1, <1>3, NextFrames
  <2>2. Distance(l.start_it, l.it) >= n  BY <1>2, <1>3 DEF Looks, Frame
  <2>3. Distance(Next(l).start_it, Next(l).it) <= Staged(Next(l))
    BY <1>1, <1>3 DEF Sound, InStep
  <2>4. Distance(l.start_it, l.it) \in Nat /\ Staged(Next(l)) \in Nat  BY <1>1, StagedTyped
  <2> QED  BY <2>1, <2>2, <2>3, <2>4
<1> QED  BY <1>1, <1>2, <1>3 DEF Looks, Since, Frame

LEMMA SinceNext ==
    ASSUME NEW l, Since(l, 0)
    PROVE  /\ Since(Next(l), 1) /\ Since(Next2(l), 2) /\ Since(Next3(l), 3)
           /\ Since(Next4(l), 4) /\ Since(Next6(l), 6)
<1>1. Looks(l, 0)
  <2>1. Distance(l.start_it, l.it) \in Nat  BY StagedTyped DEF Since
  <2> QED  BY <2>1 DEF Looks
<1>2. Looks(Next(l), 1)  BY <1>1, LooksNext
<1>3. Looks(Next2(l), 2)  BY <1>2, LooksNext DEF Next2
<1>4. Looks(Next3(l), 3)  BY <1>3, LooksNext DEF Next3
<1>5. Looks(Next4(l), 4)  BY <1>4, LooksNext DEF Next4
<1>6. Looks(Next(Next3(l)), 4)  BY <1>4, LooksNext
<1>7. Looks(Next(Next(Next3(l))), 5)  BY <1>6, LooksNext
<1>8. Looks(Next6(l), 6)
  BY <1>7, LooksNext DEF Next6, Next2, Next3
<1> QED  BY <1>2, <1>3, <1>4, <1>5, <1>8 DEF Looks

LEMMA SinceUndo ==
    ASSUME NEW l, NEW n, Since(l, n)
    PROVE  Since(Undo(l), n)
<1>1. Sound(l) /\ Sound(Undo(l)) /\ Frame(l, Undo(l)) /\ Staged(Undo(l)) = Staged(l)
  BY UndoKeeps, UndoFrames DEF Since
<1> QED  BY <1>1 DEF Since, Frame

LEMMA SinceReject ==
    ASSUME NEW n \in Nat, NEW l, Since(l, n + 1)
    PROVE  Since(Reject(l), n)
<1> DEFINE r == Reject(l)
<1>1. Sound(l) /\ Sound(r)  BY RejectKeeps DEF Since
<1>2. SUFFICES ASSUME ~r.full
      PROVE  /\ ~lx.full /\ r.src = lx.src
             /\ Staged(r) >= n
             /\ ~oom => IsPlace(r.src, r.taken, r.line_num, r.column)
  BY <1>1 DEF Since
<1>3. ~l.full /\ r.src = l.src /\ r.taken = l.taken + 1
  BY <1>1, <1>2, RejectMoves
<1>4. Staged(l) \in Nat /\ Staged(l) >= n + 1  BY <1>1, <1>3, StagedTyped DEF Since
<1>5. /\ Staged(r) = Staged(l) - 1
      /\ DequeChar(l) = Shown(l.src, l.taken + 1)
      /\ r.line_num = IF DequeChar(l) = "\n" THEN l.line_num + 1 ELSE l.line_num
      /\ r.column = IF DequeChar(l) = "\n" THEN 0 ELSE l.column + 1
  <2>1. Staged(l) >= 1  BY <1>4
  <2> QED  BY <1>1, <1>3, <2>1, RejectMoves
<1>6. l.taken \in Nat  BY <1>1 DEF Sound, LexRec
<1>7. ASSUME ~oom
      PROVE  IsPlace(r.src, r.taken, r.line_num, r.column)
  <2>1. IsPlace(l.src, l.taken, l.line_num, l.column)  BY <1>3, <1>7 DEF Since
  <2> HIDE DEF r
  <2> QED  BY <1>3, <1>5, <1>6, <2>1, PlaceOfNext
<1>8. ~lx.full /\ r.src = lx.src  BY <1>3 DEF Since
<1>9. Staged(r) >= n  BY <1>4, <1>5
<1> QED  BY <1>7, <1>8, <1>9

LEMMA SinceEmit ==
    ASSUME NEW n, NEW l, Since(l, n), NEW c \in Byte
    PROVE  Since(Emit(l, c), n)
<1>1. Sound(l) /\ Sound(Emit(l, c))  BY EmitKeeps DEF Since
<1> QED  BY <1>1, EmitMoves DEF Since

LEMMA SinceAccept ==
    ASSUME NEW n \in Nat, NEW l, Since(l, n + 1)
    PROVE  Since(Accept(l), n)
<1>1. DequeChar(l) \in Byte  BY NextCharTyped DEF Since
<1>2. Since(Reject(l), n)  BY SinceReject
<1> QED  BY <1>1, <1>2, SinceEmit DEF Accept

\* Accepting a staged byte makes the text one byte longer.
LEMMA TextAccept ==
    ASSUME NEW n \in Nat, NEW l, Since(l, n + 1), NEW b \in Nat, TextFrom(l, b)
    PROVE  TextFrom(Accept(l), b)
<1> DEFINE r == Reject(l)
           a == Accept(l)
           c == DequeChar(l)
<1>1. Sound(l) /\ Sound(r) /\ c \in Byte
  BY RejectKeeps, NextCharTyped DEF Since
<1>2. a = Emit(r, c)  BY DEF Accept
<1>3. /\ r.src = l.src /\ r.full = l.full /\ r.err = l.err
      /\ r.text = l.text /\ r.failed = l.failed /\ r.taken = l.taken + 1
  BY <1>1, RejectMoves
<1>4. SUFFICES ASSUME ~a.full, a.err = {}, ~a.failed
               PROVE  b <= a.taken /\ a.text = Stretch(a.src, b, a.taken)
  BY DEF TextFrom
<1> HIDE DEF r, a
<1>5. /\ a.src = r.src /\ a.taken = r.taken /\ a.full = r.full /\ a.err = r.err
      /\ r.err = {} /\ ~a.failed => ~r.failed /\ a.text = Append(r.text, c)
  BY <1>1, <1>2, EmitMoves
<1>6. ~l.full /\ b <= l.taken /\ l.text = Stretch(l.src, b, l.taken)
  BY <1>3, <1>4, <1>5 DEF TextFrom
<1>7. l.taken \in Nat /\ l.src \in Seq(Byte)  BY <1>1 DEF Sound, LexRec
<1>8. c = Shown(l.src, l.taken + 1)
  <2>1. Staged(l) \in Nat /\ Staged(l) >= n + 1  BY <1>1, <1>6, StagedTyped DEF Since
  <2>2. Staged(l) >= 1  BY <2>1
  <2> QED  BY <1>1, <1>6, <2>2, RejectMoves
<1>9. Append(l.text, c) = Stretch(l.src, b, l.taken + 1)
  <2>1. b <= l.taken  BY <1>6
  <2>2. Append(Stretch(l.src, b, l.taken), Shown(l.src, l.taken + 1))
          = Stretch(l.src, b, l.taken + 1)
    BY <1>7, <2>1, StretchGrows
  <2> QED  BY <1>6, <1>8, <2>2
<1>10. b <= l.taken + 1  BY <1>6, <1>7
<1> QED  BY <1>3, <1>4, <1>5, <1>9, <1>10

\* Both: n bytes are staged, and the text stored is the input from byte b.
Reads(l, n, b) == Since(l, n) /\ TextFrom(l, b)

LEMMA ReadsNext ==
    ASSUME NEW l, NEW b, Reads(l, 0, b)
    PROVE  /\ Reads(Next(l), 1, b) /\ Reads(Next2(l), 2, b) /\ Reads(Next3(l), 3, b)
           /\ Reads(Next4(l), 4, b) /\ Reads(Next6(l), 6, b)
<1>1. ASSUME NEW m, Sound(m) /\ TextFrom(m, b)
      PROVE  Sound(Next(m)) /\ TextFrom(Next(m), b)
  BY <1>1, NextKeeps, NextFrames, FrameKeepsText
<1>2. Sound(l) /\ TextFrom(l, b)  BY DEF Reads, Since
<1>3. Sound(Next(l)) /\ TextFrom(Next(l), b)  BY <1>1, <1>2
<1>4. Sound(Next2(l)) /\ TextFrom(Next2(l), b)  BY <1>1, <1>3 DEF Next2
<1>5. Sound(Next3(l)) /\ TextFrom(Next3(l), b)  BY <1>1, <1>4 DEF Next3
<1>6. Sound(Next4(l)) /\ TextFrom(Next4(l), b)  BY <1>1, <1>5 DEF Next4
<1>7. Sound(Next6(l)) /\ TextFrom(Next6(l), b)
  BY <1>1, <1>5 DEF Next6, Next3, Next2
<1>8. /\ Since(Next(l), 1) /\ Since(Next2(l), 2) /\ Since(Next3(l), 3)
      /\ Since(Next4(l), 4) /\ Since(Next6(l), 6)
  BY SinceNext DEF Reads
<1> QED  BY <1>3, <1>4, <1>5, <1>6, <1>7, <1>8 DEF Reads

LEMMA ReadsUndo ==
    ASSUME NEW l, NEW n, NEW b, Reads(l, n, b)
    PROVE  Reads(Undo(l), n, b)
<1>1. Sound(l)  BY DEF Reads, Since
<1>2. TextFrom(Undo(l), b)  BY <1>1, UndoFrames, FrameKeepsText DEF Reads
<1>3. Since(Undo(l), n)  BY SinceUndo DEF Reads
<1> QED  BY <1>2, <1>3 DEF Reads

LEMMA FewerReads ==
    ASSUME NEW n \in Nat, NEW m \in Nat, m <= n, NEW l, NEW b, Reads(l, n, b)
    PROVE  Reads(l, m, b)
BY FewerStaged DEF Reads

LEMMA ReadsAccept ==
    ASSUME NEW n \in Nat, NEW b \in Nat, NEW l
    PROVE  /\ Reads(l, n + 1, b) => Reads(Accept(l), n, b)
           /\ Reads(l, n + 2, b) => Reads(Accept2(l), n, b)
           /\ Reads(l, n + 3, b) => Reads(Accept3(l), n, b)
<1>1. ASSUME NEW k \in Nat, NEW m, Reads(m, k + 1, b)
      PROVE  Reads(Accept(m), k, b)
  BY <1>1, SinceAccept, TextAccept DEF Reads
<1>2. n + 1 \in Nat /\ n + 2 \in Nat /\ n + 2 = (n + 1) + 1 /\ n + 3 = (n + 2) + 1  OBVIOUS
<1>3. ASSUME NEW m, Reads(m, n + 2, b) PROVE Reads(Accept2(m), n, b)
  <2>1. Reads(Accept(m), n + 1, b)  BY <1>1, <1>2, <1>3
  <2> QED  BY <1>1, <2>1 DEF Accept2
<1>4. ASSUME Reads(l, n + 3, b) PROVE Reads(Accept3(l), n, b)
  <2>1. Reads(Accept(l), n + 2, b)  BY <1>1, <1>2, <1>4
  <2>2. Reads(Accept(Accept(l)), n + 1, b)  BY <1>1, <1>2, <2>1
  <2>3. Reads(Accept(Accept(Accept(l))), n, b)  BY <1>1, <2>2
  <2> QED  BY <2>3 DEF Accept3, Accept2
<1> QED  BY <1>1, <1>3, <1>4

LEMMA SinceRejects ==
    ASSUME NEW n \in Nat, NEW l
    PROVE  /\ Since(l, n + 2) => Since(Reject2(l), n)
           /\ Since(l, n + 3) => Since(Reject3(l), n)
           /\ Since(l, n + 4) => Since(Reject4(l), n)
<1>1. /\ n + 1 \in Nat /\ n + 2 \in Nat /\ n + 3 \in Nat
      /\ n + 2 = (n + 1) + 1 /\ n + 3 = (n + 2) + 1 /\ n + 4 = (n + 3) + 1
  OBVIOUS
<1>2. Since(l, n + 2) => Since(Reject2(l), n)  BY <1>1, SinceReject DEF Reject2
<1>3. ASSUME Since(l, n + 3) PROVE Since(Reject3(l), n)
  <2>1. Since(Reject(l), n + 2)  BY <1>1, <1>3, SinceReject
  <2>2. Since(Reject(Reject(l)), n + 1)  BY <1>1, <2>1, SinceReject
  <2> QED  BY <2>2, SinceReject DEF Reject3, Reject2
<1>4. ASSUME Since(l, n + 4) PROVE Since(Reject4(l), n)
  <2>1. Since(Reject(l), n + 3)  BY <1>1, <1>4, SinceReject
  <2>2. Since(Reject(Reject(l)), n + 2)  BY <1>1, <2>1, SinceReject
  <2>3. Since(Reject(Reject(Reject(l))), n + 1)  BY <1>1, <2>2, SinceReject
  <2> QED  BY <2>3, SinceReject DEF Reject4, Reject2
<1> QED  BY <1>2, <1>3, <1>4

\* The bytes rejected are not stored.
LEMMA RejectsSkip ==
    ASSUME NEW l, Sound(l)
    PROVE  /\ LET r == Reject3(l) IN
                /\ r.src = l.src /\ r.full = l.full /\ r.err = l.err
                /\ r.text = l.text /\ r.failed = l.failed /\ r.taken = l.taken + 3
           /\ LET r == Reject4(l) IN
                /\ r.src = l.src /\ r.full = l.full /\ r.err = l.err
                /\ r.text = l.text /\ r.failed = l.failed /\ r.taken = l.taken + 4
<1> DEFINE a == Reject(l)
           b == Reject(a)
           c == Reject(b)
           d == Reject(c)
<1>1. Sound(a) /\ Sound(b) /\ Sound(c)
  <2>1. Sound(a)  BY RejectKeeps
  <2> HIDE DEF a
  <2>2. Sound(b)  BY <2>1, RejectKeeps
  <2> HIDE DEF b
  <2> QED  BY <2>1, <2>2, RejectKeeps
<1>2. Reject3(l) = c /\ Reject4(l) = d  BY DEF Reject3, Reject4, Reject2
<1>3. l.taken \in Nat  BY DEF Sound, LexRec
<1>4. /\ a.src = l.src /\ a.full = l.full /\ a.err = l.err
      /\ a.text = l.text /\ a.failed = l.failed /\ a.taken = l.taken + 1
  BY RejectMoves
<1> HIDE DEF a
<1>5. /\ b.src = a.src /\ b.full = a.full /\ b.err = a.err
      /\ b.text = a.text /\ b.failed = a.failed /\ b.taken = a.taken + 1
  BY <1>1, RejectMoves
<1> HIDE DEF b
<1>6. /\ c.src = b.src /\ c.full = b.full /\ c.err = b.err
      /\ c.text = b.text /\ c.failed = b.failed /\ c.taken = b.taken + 1
  BY <1>1, RejectMoves
<1> HIDE DEF c
<1>7. /\ d.src = c.src /\ d.full = c.full /\ d.err = c.err
      /\ d.text = c.text /\ d.failed = c.failed /\ d.taken = c.taken + 1
  BY <1>1, RejectMoves
<1> HIDE DEF d
<1> QED  BY <1>2, <1>3, <1>4, <1>5, <1>6, <1>7

LEMMA SinceWithError ==
    ASSUME NEW l, NEW n, NEW e \in SUBSET Errors, Since(l, n)
    PROVE  Since(WithError(l, e), n)
<1> DEFINE w == WithError(l, e)
           err == l.err \cup e
<1>1. Sound(l) /\ Sound(w)  BY FineWithError DEF Since
<1>2. l \in LexRec /\ w = [l EXCEPT !.err = err]  BY <1>1 DEF Sound, WithError
<1> HIDE DEF w, err
<1>3. /\ w.src = l.src /\ w.full = l.full /\ w.start_it = l.start_it /\ w.end_it = l.end_it
      /\ w.taken = l.taken /\ w.line_num = l.line_num /\ w.column = l.column
  BY <1>2 DEF LexRec
<1>4. Staged(w) = Staged(l)  BY <1>3 DEF Staged
<1>5. Since(w, n)  BY <1>1, <1>3, <1>4 DEF Since
<1> QED  BY <1>5 DEF w

\* Nothing is stored yet.
LEMMA EmptyStretch ==
    ASSUME NEW s, NEW n \in Nat
    PROVE  Stretch(s, n, n) = <<>>
BY DEF Stretch

-----------------------------------------------------------------------------
(* The inductive invariant of what was read.                               *)

\* The kinds whose text is all they took.
PlainKinds == {"identifier", "integer", "float", "punctuator", "spaces"}

TokenRead(s, t) ==
    t.err = {} =>
        /\ t.kind \in PlainKinds => t.text = Stretch(s, t.from, t.to)
        /\ t.kind = "comment" =>
             \E j \in {t.to - 3, t.to} : t.text = Stretch(s, t.from + 4, j)
        /\ t.kind = "string" => Decoded(s, t.text, t.from + 1, t.to - 1)

\* A comment's marks are not stored; the last one is missing when the input ends.
CommentRead(l, b) ==
    ~l.full /\ l.err = {} /\ ~l.failed =>
        \E j \in {l.taken - 3, l.taken} : l.text = Stretch(l.src, b + 4, j)

StringStored(l, b) ==
    ~l.full /\ l.err = {} /\ ~l.failed => Stored(l.src, l.text, b, l.taken, Drift(l))

StringRead(l, b) ==
    ~l.full /\ l.err = {} /\ ~l.failed => Decoded(l.src, l.text, b, l.taken - 1)

\* What is stored of the open token t, at each place p.
OpenRead(l, p, t) ==
    /\ p = "logic" => t.from = l.taken /\ TextFrom(l, t.from)
    /\ p \in {"identifier", "spaces", "digits", "number", "suffix"} =>
         t.kind \in PlainKinds /\ TextFrom(l, t.from)
    /\ p = "comment" => t.kind = "comment" /\ TextFrom(l, t.from + 4)
    /\ p = "string" =>
         /\ t.kind = "string" /\ StringStored(l, t.from + 1)
         /\ ~l.full => t.delimiter = Shown(l.src, t.from + 1)
    /\ p = "close" =>
         /\ t.kind \in PlainKinds => TextFrom(l, t.from)
         /\ t.kind = "comment" => CommentRead(l, t.from)
         /\ t.kind = "string" => StringRead(l, t.from + 1)

TextsRead ==
    /\ ~lx.full => \A i \in 1..Len(tokens) : TokenRead(lx.src, tokens[i])
    /\ pc \in TokenPcs => OpenRead(lx, pc, tok)

TokenPlaced(s, t) == IsPlace(s, t.from, t.line_num, t.column)

AtEnd(l) == Shown(l.src, l.taken + 1) \in {Nul, Eof, Etx}

PlacesRead ==
    ~lx.full /\ ~oom =>
        /\ IsPlace(lx.src, lx.taken, lx.line_num, lx.column)
        /\ \A i \in 1..Len(tokens) : TokenPlaced(lx.src, tokens[i])
        /\ pc \in TokenPcs => TokenPlaced(lx.src, tok)
        /\ pc = "stop" => AtEnd(lx)

ReadInv == LexerInv /\ TextsRead /\ PlacesRead

LEMMA ReadSince ==
    ASSUME ReadInv
    PROVE  Since(lx, 0)
<1>1. Sound(lx)  BY DEF ReadInv, LexerInv
<1>2. Staged(lx) \in Nat  BY <1>1, StagedTyped
<1> QED  BY <1>1, <1>2 DEF ReadInv, PlacesRead, Since

SamePlace == tok'.from = tok.from /\ tok'.line_num = tok.line_num /\ tok'.column = tok.column

\* A step inside a token.
LEMMA ReadStep ==
    ASSUME ReadInv, pc \in TokenPcs, NEW l, NEW p \in TokenPcs,
           lx' = l, pc' = p, tokens' = tokens, oom' = oom, SamePlace,
           Since(l, 0), OpenRead(l, p, tok')
    PROVE  TextsRead' /\ PlacesRead'
<1>1. ~lx'.full => ~lx.full /\ lx'.src = lx.src  BY DEF Since
<1>2. TextsRead'
  <2>1. OpenRead(lx', pc', tok')  OBVIOUS
  <2>2. ASSUME ~lx'.full PROVE \A i \in 1..Len(tokens') : TokenRead(lx'.src, tokens'[i])
    BY <1>1, <2>2 DEF ReadInv, TextsRead
  <2> QED  BY <2>1, <2>2 DEF TextsRead
<1>3. PlacesRead'
  <2> SUFFICES ASSUME ~lx'.full, ~oom'
               PROVE  /\ IsPlace(lx'.src, lx'.taken, lx'.line_num, lx'.column)
                      /\ \A i \in 1..Len(tokens') : TokenPlaced(lx'.src, tokens'[i])
                      /\ TokenPlaced(lx'.src, tok')
                      /\ pc' # "stop"
    BY DEF PlacesRead
  <2>1. IsPlace(lx'.src, lx'.taken, lx'.line_num, lx'.column)  BY DEF Since
  <2>2. /\ \A i \in 1..Len(tokens) : TokenPlaced(lx.src, tokens[i])
        /\ TokenPlaced(lx.src, tok)
    BY <1>1 DEF ReadInv, PlacesRead
  <2>3. TokenPlaced(lx'.src, tok')
    BY <1>1, <2>2 DEF TokenPlaced, SamePlace
  <2>4. pc' # "stop"  BY DEF TokenPcs
  <2> QED  BY <1>1, <2>1, <2>2, <2>3, <2>4
<1> QED  BY <1>2, <1>3

LEMMA ReadOn ==
    ASSUME ReadInv, pc \in TokenPcs, NEW l, NEW p \in TokenPcs, On(l, p),
           Since(l, 0), OpenRead(l, p, tok)
    PROVE  TextsRead' /\ PlacesRead'
<1>1. /\ lx' = l /\ pc' = p /\ tokens' = tokens /\ oom' = oom /\ tok' = tok
  BY DEF On, Goto
<1>2. OpenRead(l, p, tok')  BY <1>1
<1> QED  BY <1>1, <1>2, ReadStep DEF SamePlace

\* A step outside a token.
LEMMA ReadCall ==
    ASSUME ReadInv, NEW l, NEW p \in {"idle", "eat", "open", "stop"},
           lx' = l, pc' = p, tokens' = tokens, oom' = oom,
           Since(l, 0), p = "stop" /\ ~l.full => AtEnd(l)
    PROVE  TextsRead' /\ PlacesRead'
<1>1. ~lx'.full => ~lx.full /\ lx'.src = lx.src  BY DEF Since
<1>2. pc' \notin TokenPcs  BY DEF TokenPcs
<1>3. TextsRead'
  <2>1. ASSUME ~lx'.full PROVE \A i \in 1..Len(tokens') : TokenRead(lx'.src, tokens'[i])
    BY <1>1, <2>1 DEF ReadInv, TextsRead
  <2> QED  BY <1>2, <2>1 DEF TextsRead
<1>4. PlacesRead'
  <2> SUFFICES ASSUME ~lx'.full, ~oom'
               PROVE  /\ IsPlace(lx'.src, lx'.taken, lx'.line_num, lx'.column)
                      /\ \A i \in 1..Len(tokens') : TokenPlaced(lx'.src, tokens'[i])
                      /\ pc' = "stop" => AtEnd(lx')
    BY <1>2 DEF PlacesRead
  <2>1. IsPlace(lx'.src, lx'.taken, lx'.line_num, lx'.column)  BY DEF Since
  <2>2. \A i \in 1..Len(tokens) : TokenPlaced(lx.src, tokens[i])
    BY <1>1 DEF ReadInv, PlacesRead
  <2>3. pc' = "stop" => AtEnd(lx')  OBVIOUS
  <2> QED  BY <1>1, <2>1, <2>2, <2>3
<1> QED  BY <1>3, <1>4

\* No memory for a token: the position means nothing from here on.
LEMMA ReadLost ==
    ASSUME ReadInv, NEW l, Since(l, 0), lx'.src = l.src, lx'.full = l.full,
           pc' \in {"idle", "stop"}, tokens' = tokens, oom' = TRUE
    PROVE  TextsRead' /\ PlacesRead'
<1>1. ~lx'.full => ~lx.full /\ lx'.src = lx.src  BY DEF Since
<1>2. pc' \notin TokenPcs  BY DEF TokenPcs
<1>3. ASSUME ~lx'.full PROVE \A i \in 1..Len(tokens') : TokenRead(lx'.src, tokens'[i])
  BY <1>1, <1>3 DEF ReadInv, TextsRead
<1> QED  BY <1>2, <1>3 DEF TextsRead, PlacesRead

\* lexer_is_end_of_input says what comes next.
LEMMA EndIsShown ==
    ASSUME NEW l, Sound(l), ~l.full, IsEnd(l)
    PROVE  AtEnd(l)
<1>1. /\ InStep(l) /\ l.start_it \in Positions /\ l.end_it \in Positions
      /\ l.taken \in Nat /\ Len(l.src) \in Nat
  BY DEF Sound, LexRec
<1>2. Staged(l) \in 0..StagingMax /\ (Staged(l) = 0 <=> l.start_it = l.end_it)
  BY <1>1, DistanceTyped DEF Staged
<1>3. CASE IsEmpty(l)
  <2>1. Staged(l) = 0  BY <1>2, <1>3 DEF IsEmpty
  <2>2. l.off = Smaller(l.taken, Len(l.src))
    <3>1. l.taken + Staged(l) = l.taken  BY <1>1, <2>1
    <3> QED  BY <1>1, <3>1 DEF InStep
  <2>3. CASE HasByte(l)
    <3>1. l.off = l.taken /\ l.taken + 1 <= Len(l.src)
      BY <1>1, <2>2, <2>3 DEF HasByte, Smaller
    <3>2. StreamByte(l) = Shown(l.src, l.taken + 1)  BY <3>1 DEF StreamByte, Shown
    <3>3. StreamByte(l) \in {Eof, Etx, Nul}  BY <1>3, <2>3 DEF IsEnd
    <3> QED  BY <3>2, <3>3 DEF AtEnd
  <2>4. CASE ~HasByte(l)
    <3>1. ~(l.taken + 1 <= Len(l.src))  BY <1>1, <2>2, <2>4 DEF HasByte, Smaller
    <3> QED  BY <3>1 DEF AtEnd, Shown
  <2> QED  BY <2>3, <2>4
<1>4. CASE ~IsEmpty(l)
  <2>1. 1 \in 1..Staged(l)  BY <1>2, <1>4 DEF IsEmpty
  <2>2. l.buf[Index(l.start_it, 1 - 1)] = Shown(l.src, l.taken + 1)
    BY <1>1, <2>1 DEF InStep, StagedBytes
  <2>3. Index(l.start_it, 1 - 1) = l.start_it
    BY <1>1, StagingAssumption DEF Index, Positions
  <2>4. l.buf[l.start_it] \in {Eof, Nul}  BY <1>4 DEF IsEnd
  <2> QED  BY <2>2, <2>3, <2>4 DEF AtEnd
<1> QED  BY <1>3, <1>4

LEMMA ReadInit ==
    ASSUME Init
    PROVE  ReadInv
<1>1. LexerInv  BY LexerInvInit
<1>2. PICK s \in Inputs, n \in ArenaSizes : lx = Fresh(s, n)  BY DEF Init
<1>3. lx.taken = 0 /\ lx.line_num = 1 /\ lx.column = 0 /\ lx.src = s
  BY <1>2 DEF Fresh
<1>4. IsPlace(lx.src, lx.taken, lx.line_num, lx.column)
  BY <1>3, PlaceOfFirst
<1>5. pc \notin TokenPcs /\ pc # "stop" /\ 1..Len(tokens) = {}
  BY DEF Init, TokenPcs
<1> QED  BY <1>1, <1>4, <1>5 DEF ReadInv, TextsRead, PlacesRead

-----------------------------------------------------------------------------
(* Steps outside a token.                                                  *)

LEMMA CalledReads ==
    ASSUME ReadInv
    PROVE  /\ Since(Called, 0)
           /\ Called.full = lx.full /\ Called.src = lx.src /\ Called.taken = lx.taken
<1> DEFINE c == Called
<1>1. Since(lx, 0) /\ Sound(c)  BY ReadSince, CalledKeeps DEF Called, Since
<1>2. lx \in LexRec  BY <1>1 DEF Since, Sound
<1>3. /\ c.src = lx.src /\ c.full = lx.full /\ c.start_it = lx.start_it
      /\ c.end_it = lx.end_it /\ c.taken = lx.taken /\ c.line_num = lx.line_num
      /\ c.column = lx.column
  BY <1>2 DEF Called, LexRec
<1> HIDE DEF c
<1>4. Staged(c) = Staged(lx)  BY <1>3 DEF Staged
<1>5. Since(c, 0)  BY <1>1, <1>3, <1>4 DEF Since
<1> QED  BY <1>3, <1>5 DEF c

LEMMA ReadsBefore ==
    ASSUME ReadInv,
           CallAtEnd \/ Call \/ EatWhitespace \/ StopEating \/ OpenAtEnd \/ OpenInvalid
             \/ OpenWithoutRoom
    PROVE  TextsRead' /\ PlacesRead'
<1>1. Since(lx, 0) /\ Sound(lx)  BY ReadSince DEF Since
<1>2. CASE CallAtEnd
  <2>1. /\ lx' = Called /\ pc' = "stop" /\ tokens' = tokens /\ oom' = oom /\ IsEnd(lx)
    BY <1>2 DEF CallAtEnd, Return
  <2>2. ~Called.full => AtEnd(Called)
    BY <1>1, <2>1, CalledReads, EndIsShown DEF AtEnd
  <2> QED  BY <2>1, <2>2, CalledReads, ReadCall
<1>3. CASE Call
  <2>1. PICK p \in {"eat", "open"} : lx' = Called /\ pc' = p /\ tokens' = tokens /\ oom' = oom
    BY <1>3 DEF Call, On, Goto
  <2> QED  BY <2>1, CalledReads, ReadCall
<1>4. CASE EatWhitespace
  <2> DEFINE l == Reject(Next(lx))
  <2>1. lx' = l /\ pc' = "eat" /\ tokens' = tokens /\ oom' = oom
    BY <1>4 DEF EatWhitespace, On, Goto
  <2>2. Since(l, 0)
    <3>1. Since(Next(lx), 0 + 1)  BY <1>1, SinceNext
    <3> QED  BY <3>1, SinceReject
  <2> HIDE DEF l
  <2> QED  BY <2>1, <2>2, ReadCall
<1>5. CASE StopEating
  <2>1. PICK l \in {Undo(lx), Undo(Next(lx))} :
          lx' = l /\ pc' = "open" /\ tokens' = tokens /\ oom' = oom
    BY <1>5 DEF StopEating, On, Goto
  <2>2. Since(l, 0)
    <3>1. Since(Next(lx), 0)
      <4>1. Since(Next(lx), 1)  BY <1>1, SinceNext
      <4> QED  BY <4>1, FewerStaged
    <3> QED  BY <1>1, <2>1, <3>1, SinceUndo
  <2> QED  BY <2>1, <2>2, ReadCall
<1>6. CASE OpenAtEnd
  <2>1. lx' = lx /\ pc' = "stop" /\ tokens' = tokens /\ oom' = oom /\ IsEnd(lx)
    BY <1>6 DEF OpenAtEnd, Return
  <2>2. ~lx.full => AtEnd(lx)  BY <1>1, <2>1, EndIsShown
  <2> QED  BY <1>1, <2>1, <2>2, ReadCall
<1>7. CASE OpenInvalid
  <2>1. lx' = lx /\ pc' = "idle" /\ tokens' = tokens /\ oom' = oom
    BY <1>7 DEF OpenInvalid, Return
  <2> QED  BY <1>1, <2>1, ReadCall
<1>8. CASE OpenWithoutRoom
  <2>1. lx' = lx /\ pc' = "stop" /\ tokens' = tokens /\ oom' = TRUE
    BY <1>8 DEF OpenWithoutRoom, Return
  <2> QED  BY <1>1, <2>1, ReadLost
<1> QED  BY <1>2, <1>3, <1>4, <1>5, <1>6, <1>7, <1>8

LEMMA ReadsOpen ==
    ASSUME ReadInv, Open
    PROVE  TextsRead' /\ PlacesRead'
<1>1. PICK n \in Rooms \ {0} :
        /\ lx' = [lx EXCEPT !.text = <<>>, !.room = n, !.failed = FALSE,
                            !.arena = Accomodated(lx.arena, TokenSize, 0)]
        /\ tok' = [NoToken EXCEPT !.line_num = lx.line_num, !.column = lx.column,
                                  !.from = lx.taken]
        /\ pc' = "logic" /\ UNCHANGED <<tokens, oom>>
  BY DEF Open
<1> DEFINE arena == Accomodated(lx.arena, TokenSize, 0)
           l == [lx EXCEPT !.text = <<>>, !.room = n, !.failed = FALSE, !.arena = arena]
<1>2. Sound(lx) /\ lx \in LexRec /\ lx.taken \in Nat
  BY DEF ReadInv, LexerInv, Sound, LexRec
<1>3. /\ l.src = lx.src /\ l.full = lx.full /\ l.taken = lx.taken
      /\ l.line_num = lx.line_num /\ l.column = lx.column /\ l.text = <<>>
  <2> HIDE DEF arena
  <2> QED  BY <1>2 DEF LexRec
<1>4. lx' = l  BY <1>1
<1> HIDE DEF l
<1>5. tok'.from = lx.taken /\ tok'.line_num = lx.line_num /\ tok'.column = lx.column
  BY <1>1 DEF NoToken
<1>6. TextFrom(l, lx.taken)
  BY <1>2, <1>3, EmptyStretch DEF TextFrom
<1>7. OpenRead(lx', pc', tok')
  BY <1>1, <1>3, <1>4, <1>5, <1>6 DEF OpenRead
<1>8. ~lx'.full => ~lx.full /\ lx'.src = lx.src  BY <1>3, <1>4
<1>9. TextsRead'
  <2>1. ASSUME ~lx'.full PROVE \A i \in 1..Len(tokens') : TokenRead(lx'.src, tokens'[i])
    BY <1>1, <1>8, <2>1 DEF ReadInv, TextsRead
  <2> QED  BY <1>7, <2>1 DEF TextsRead
<1>10. PlacesRead'
  <2> SUFFICES ASSUME ~lx'.full, ~oom'
               PROVE  /\ IsPlace(lx'.src, lx'.taken, lx'.line_num, lx'.column)
                      /\ \A i \in 1..Len(tokens') : TokenPlaced(lx'.src, tokens'[i])
                      /\ TokenPlaced(lx'.src, tok')
                      /\ pc' # "stop"
    BY DEF PlacesRead
  <2>1. /\ IsPlace(lx.src, lx.taken, lx.line_num, lx.column)
        /\ \A i \in 1..Len(tokens) : TokenPlaced(lx.src, tokens[i])
    BY <1>1, <1>8 DEF ReadInv, PlacesRead
  <2>2. TokenPlaced(lx'.src, tok')
    BY <1>5, <1>8, <2>1 DEF TokenPlaced
  <2> QED  BY <1>1, <1>3, <1>4, <2>1, <2>2
<1> QED  BY <1>9, <1>10

\* The terminator is dropped from the text again.
LEMMA WithoutTerminator ==
    ASSUME NEW s \in Seq(Byte), NEW c \in Byte, NEW t, t = Append(s, c)
    PROVE  SubSeq(t, 1, Len(t) - 1) = s
<1>1. /\ t \in Seq(Byte) /\ Len(t) = Len(s) + 1 /\ Len(s) \in Nat
      /\ \A i \in 1..Len(s) : t[i] = s[i]
  BY AppendProperties
<1> DEFINE u == SubSeq(t, 1, Len(t) - 1)
<1>2. /\ u \in Seq(Byte) /\ Len(u) = Len(s)
      /\ \A i \in 1..Len(s) : u[i] = t[i]
  BY <1>1, SubSeqProperties
<1> HIDE DEF u
<1>3. u = s
  <2>1. \A i \in 1..Len(s) : u[i] = s[i]  BY <1>1, <1>2
  <2> QED  BY <1>2, <2>1, SeqEqual
<1> QED  BY <1>3 DEF u

LEMMA ReadsCloseToken ==
    ASSUME ReadInv, CloseToken
    PROVE  TextsRead' /\ PlacesRead'
<1> DEFINE t == Terminated
           size == t.arena.data_size + TokenSize + Len(t.text)
           c == [t EXCEPT !.text = <<>>, !.arena.data_size = size]
           u == Undo(c)
           new == Committed(t)
<1>1. /\ pc = "close" /\ ~t.failed /\ tokens' = Append(tokens, new)
      /\ lx' = u /\ pc' = "idle" /\ oom' = oom
  BY DEF CloseToken, Return
<1>2. /\ Sound(lx) /\ lx \in LexRec /\ lx.text \in Seq(Byte) /\ tokens \in Seq(Token)
      /\ pc \in TokenPcs
  BY <1>1 DEF ReadInv, LexerInv, Sound, LexRec, OtherTypes, TokenPcs
<1>3. /\ t.src = lx.src /\ t.taken = lx.taken /\ t.line_num = lx.line_num
      /\ t.column = lx.column /\ t.full = lx.full /\ t.err = lx.err
      /\ ~lx.failed /\ t.text = Append(lx.text, Nul) /\ DOMAIN t = DOMAIN lx
  <2> DEFINE text == Append(lx.text, Nul)
             room == lx.room - 1
             arena == Accomodated(lx.arena, 1, TokenSize + Len(lx.text))
  <2>1. t = [lx EXCEPT !.text = text, !.room = room, !.arena = arena] /\ ~lx.failed
    <3>1. [lx EXCEPT !.failed = TRUE].failed  BY <1>2 DEF LexRec
    <3> QED  BY <1>1, <3>1 DEF Terminated, Added
  <2> HIDE DEF t, text, room, arena
  <2> QED  BY <1>2, <2>1 DEF LexRec, text
<1>4. /\ u.src = lx.src /\ u.taken = lx.taken /\ u.line_num = lx.line_num
      /\ u.column = lx.column /\ u.full = lx.full
  <2>0. c = [t EXCEPT !.text = <<>>, !.arena = [t.arena EXCEPT !.data_size = size]]
    BY <1>2, <1>3 DEF LexRec
  <2> HIDE DEF t, size, c
  <2>1. /\ c.src = t.src /\ c.taken = t.taken /\ c.line_num = t.line_num
        /\ c.column = t.column /\ c.full = t.full /\ DOMAIN c = DOMAIN t
    BY <1>2, <1>3, <2>0 DEF LexRec
  <2>2. /\ u.src = c.src /\ u.taken = c.taken /\ u.line_num = c.line_num
        /\ u.column = c.column /\ u.full = c.full
    BY <1>2, <1>3, <2>1 DEF LexRec, Undo
  <2> QED  BY <1>3, <2>1, <2>2
<1> HIDE DEF u
<1>5. /\ new.kind = tok.kind /\ new.line_num = tok.line_num /\ new.column = tok.column
      /\ new.from = tok.from /\ new.to = lx.taken /\ new.err = lx.err
      /\ new.text = lx.text
  <2>1. SubSeq(t.text, 1, Len(t.text) - 1) = lx.text
    BY <1>2, <1>3, Bytes, WithoutTerminator
  <2> HIDE DEF t
  <2> QED  BY <1>3, <2>1 DEF Committed
<1> HIDE DEF t, new
<1>6. /\ Len(tokens') = Len(tokens) + 1 /\ Len(tokens) \in Nat
      /\ tokens'[Len(tokens) + 1] = new
      /\ \A i \in 1..Len(tokens) : tokens'[i] = tokens[i]
  BY <1>1, <1>2
<1>7. \A i \in 1..Len(tokens') : i \in 1..Len(tokens) \/ i = Len(tokens) + 1
  BY <1>6
<1>8. pc' \notin TokenPcs /\ pc' # "stop"  BY <1>1 DEF TokenPcs
<1>9. TextsRead'
  <2> SUFFICES ASSUME ~lx'.full
               PROVE  \A i \in 1..Len(tokens') : TokenRead(lx'.src, tokens'[i])
    BY <1>8 DEF TextsRead
  <2>1. \A i \in 1..Len(tokens) : TokenRead(lx.src, tokens[i])
    BY <1>1, <1>4 DEF ReadInv, TextsRead
  <2>2. TokenRead(lx.src, new)
    <3> SUFFICES ASSUME new.err = {} PROVE TokenRead(lx.src, new)  BY DEF TokenRead
    <3>1. ~lx.full /\ lx.err = {} /\ ~lx.failed  BY <1>1, <1>3, <1>4, <1>5
    <3>2. OpenRead(lx, "close", tok)  BY <1>1, <1>2 DEF ReadInv, TextsRead
    <3>3. tok.kind \in PlainKinds => lx.text = Stretch(lx.src, tok.from, lx.taken)
      BY <3>1, <3>2 DEF OpenRead, TextFrom
    <3>4. tok.kind = "comment" =>
            \E j \in {lx.taken - 3, lx.taken} : lx.text = Stretch(lx.src, tok.from + 4, j)
      BY <3>1, <3>2 DEF OpenRead, CommentRead
    <3>5. tok.kind = "string" => Decoded(lx.src, lx.text, tok.from + 1, lx.taken - 1)
      BY <3>1, <3>2 DEF OpenRead, StringRead
    <3> QED  BY <1>5, <3>3, <3>4, <3>5 DEF TokenRead
  <2> QED  BY <1>1, <1>4, <1>6, <1>7, <2>1, <2>2
<1>10. PlacesRead'
  <2> SUFFICES ASSUME ~lx'.full, ~oom'
               PROVE  /\ IsPlace(lx'.src, lx'.taken, lx'.line_num, lx'.column)
                      /\ \A i \in 1..Len(tokens') : TokenPlaced(lx'.src, tokens'[i])
    BY <1>8 DEF PlacesRead
  <2>1. /\ IsPlace(lx.src, lx.taken, lx.line_num, lx.column)
        /\ \A i \in 1..Len(tokens) : TokenPlaced(lx.src, tokens[i])
        /\ TokenPlaced(lx.src, tok)
    BY <1>1, <1>2, <1>4 DEF ReadInv, PlacesRead
  <2>2. TokenPlaced(lx.src, new)  BY <1>5, <2>1 DEF TokenPlaced
  <2> QED  BY <1>1, <1>4, <1>6, <1>7, <2>1, <2>2
<1> QED  BY <1>9, <1>10

LEMMA ReadsCloseFailed ==
    ASSUME ReadInv, CloseFailed
    PROVE  TextsRead' /\ PlacesRead'
<1> DEFINE t == Terminated
           w == WithError(t, {"OutOfMem"})
           c == [w EXCEPT !.text = <<>>, !.failed = FALSE,
                          !.line_num = tok.line_num, !.column = tok.column]
           u == Undo(c)
<1>1. lx' = u /\ pc' = "idle" /\ oom' = TRUE /\ tokens' = tokens
  BY DEF CloseFailed, Return
<1>2. lx \in LexRec /\ Since(lx, 0)  BY ReadSince DEF Since, Sound
<1>3. t.src = lx.src /\ t.full = lx.full /\ DOMAIN t = DOMAIN lx
  <2> DEFINE text == Append(lx.text, Nul)
             room == lx.room - 1
             arena == Accomodated(lx.arena, 1, TokenSize + Len(lx.text))
  <2>1. \/ t = [lx EXCEPT !.text = text, !.room = room, !.arena = arena]
        \/ t = [lx EXCEPT !.failed = TRUE]
    BY DEF Terminated, Added
  <2> HIDE DEF t, text, room, arena
  <2> QED  BY <1>2, <2>1 DEF LexRec
<1> HIDE DEF t
<1>4. w.src = t.src /\ w.full = t.full /\ DOMAIN w = DOMAIN t  BY <1>2, <1>3 DEF WithError, LexRec
<1> HIDE DEF w
<1>5. c.src = w.src /\ c.full = w.full /\ DOMAIN c = DOMAIN w  BY <1>2, <1>3, <1>4 DEF LexRec
<1> HIDE DEF c
<1>6. u.src = c.src /\ u.full = c.full  BY <1>2, <1>3, <1>4, <1>5 DEF LexRec, Undo
<1> HIDE DEF u
<1>7. lx'.src = lx.src /\ lx'.full = lx.full  BY <1>1, <1>3, <1>4, <1>5, <1>6
<1> QED  BY <1>1, <1>2, <1>7, ReadLost

-----------------------------------------------------------------------------
(* Steps inside a token.                                                   *)

\* Before the recogniser: the token begins where the bytes taken end.
LEMMA ReadLogic ==
    ASSUME ReadInv, pc = "logic"
    PROVE  /\ Reads(lx, 0, tok.from) /\ tok.from = lx.taken /\ tok.from \in Nat
           /\ pc \in TokenPcs
<1>1. pc \in TokenPcs /\ OpenRead(lx, "logic", tok)
  BY DEF TokenPcs, ReadInv, TextsRead
<1>2. lx.taken \in Nat  BY DEF ReadInv, LexerInv, Sound, LexRec
<1> QED  BY <1>1, <1>2, ReadSince DEF OpenRead, Reads

\* A predicate leaves all but the staged bytes as it was.
LEMMA LookedReads ==
    ASSUME ReadInv, pc = "logic", NEW r
    PROVE  /\ Reads(Tested(r), 0, tok.from)
           /\ Tested(r).taken = lx.taken
<1>1. Reads(lx, 0, tok.from) /\ Sound(lx)  BY ReadLogic DEF Reads, Since
<1>2. Reads(Looked(r), 0, tok.from)
  <2>1. Looked(r) \in {Next4(lx), Next6(lx), Next(lx)}  BY DEF Looked
  <2>2. Reads(Next(lx), 0, tok.from)
    <3>1. Reads(Next(lx), 1, tok.from)  BY <1>1, ReadsNext
    <3> QED  BY <3>1, FewerReads
  <2>3. Reads(Next4(lx), 0, tok.from)
    <3>1. Reads(Next4(lx), 4, tok.from)  BY <1>1, ReadsNext
    <3> QED  BY <3>1, FewerReads
  <2>4. Reads(Next6(lx), 0, tok.from)
    <3>1. Reads(Next6(lx), 6, tok.from)  BY <1>1, ReadsNext
    <3> QED  BY <3>1, FewerReads
  <2> QED  BY <2>1, <2>2, <2>3, <2>4
<1>3. ASSUME NEW m, Sound(m) PROVE Sound(Next(m)) /\ Next(m).taken = m.taken
  BY <1>3, NextKeeps, NextFrames DEF Frame
<1>4. Sound(Looked(r)) /\ Looked(r).taken = lx.taken
  <2>1. Sound(Next(lx)) /\ Next(lx).taken = lx.taken  BY <1>1, <1>3
  <2>2. Sound(Next2(lx)) /\ Next2(lx).taken = lx.taken  BY <1>3, <2>1 DEF Next2
  <2>3. Sound(Next3(lx)) /\ Next3(lx).taken = lx.taken  BY <1>3, <2>2 DEF Next3
  <2>4. Sound(Next4(lx)) /\ Next4(lx).taken = lx.taken  BY <1>3, <2>3 DEF Next4
  <2>5. Sound(Next6(lx)) /\ Next6(lx).taken = lx.taken
    <3>1. Sound(Next(Next3(lx))) /\ Next(Next3(lx)).taken = lx.taken  BY <1>3, <2>3
    <3>2. Sound(Next(Next(Next3(lx)))) /\ Next(Next(Next3(lx))).taken = lx.taken
      BY <1>3, <3>1
    <3>3. Sound(Next(Next(Next(Next3(lx))))) /\ Next(Next(Next(Next3(lx)))).taken = lx.taken
      BY <1>3, <3>2
    <3> QED  BY <3>3 DEF Next6, Next3, Next2
  <2>6. Looked(r) \in {Next4(lx), Next6(lx), Next(lx)}  BY DEF Looked
  <2> QED  BY <2>1, <2>4, <2>5, <2>6
<1>5. Reads(Tested(r), 0, tok.from)  BY <1>2, ReadsUndo DEF Tested
<1>6. Tested(r).taken = lx.taken  BY <1>4, UndoFrames DEF Tested, Frame
<1> QED  BY <1>5, <1>6

LEMMA ReadsTestFails ==
    ASSUME ReadInv, TestFails
    PROVE  TextsRead' /\ PlacesRead'
<1> DEFINE l == Tested(Head(todo))
<1>1. /\ pc = "logic" /\ lx' = l /\ pc' = "logic" /\ tok' = tok
      /\ tokens' = tokens /\ oom' = oom
  BY DEF TestFails, Tested
<1>2. Reads(l, 0, tok.from) /\ l.taken = tok.from /\ pc \in TokenPcs
  BY <1>1, ReadLogic, LookedReads
<1> HIDE DEF l
<1>3. OpenRead(l, "logic", tok')  BY <1>1, <1>2 DEF OpenRead, Reads
<1>4. SamePlace /\ Since(l, 0) /\ "logic" \in TokenPcs
  BY <1>1, <1>2 DEF SamePlace, Reads, TokenPcs
<1> QED  BY <1>1, <1>2, <1>3, <1>4, ReadStep

LEMMA KindSet ==
    ASSUME ReadInv, NEW k, Kind(k)
    PROVE  SamePlace /\ tok'.kind = k
<1>1. tok \in Tok  BY DEF ReadInv, LexerInv, OtherTypes
<1> QED  BY <1>1 DEF Kind, Tok, SamePlace

\* Before the staging area overflows.
LEMMA ReadAt ==
    ASSUME ReadInv, ~lx.full
    PROVE  /\ At(lx, 0, Drift(lx)) /\ Drift(lx) \in Nat
           /\ pc = "logic" => At(lx, 0, 0)
<1>1. /\ Sound(lx) /\ lx.taken \in Nat /\ lx.start_it \in Positions /\ lx.it \in Positions
      /\ pc = "logic" => lx.it = lx.start_it
  BY DEF ReadInv, LexerInv, StartsUndone, Sound, LexRec
<1>2. lx.taken + 0 = lx.taken  BY <1>1
<1>3. At(lx, 0, Drift(lx))  BY <1>1, <1>2 DEF At
<1>4. Drift(lx) \in 0..StagingMax /\ (pc = "logic" => Drift(lx) = 0)
  BY <1>1, DistanceTyped DEF Drift
<1> QED  BY <1>3, <1>4, StagingAssumption

LEMMA ReadsStart ==
    ASSUME ReadInv, StartIdentifier \/ StartComment \/ StartString \/ StartNumber \/ StartSpaces
    PROVE  TextsRead' /\ PlacesRead'
<1>1. pc = "logic" /\ tok \in Tok
  BY DEF StartIdentifier, StartComment, StartString, StartNumber, StartSpaces, Chosen,
         ReadInv, LexerInv, OtherTypes
<1>2. Reads(lx, 0, tok.from) /\ tok.from = lx.taken /\ tok.from \in Nat /\ pc \in TokenPcs
  BY <1>1, ReadLogic
<1>3. /\ "identifier" \in TokenPcs /\ "comment" \in TokenPcs /\ "string" \in TokenPcs
      /\ "digits" \in TokenPcs /\ "spaces" \in TokenPcs
  BY DEF TokenPcs
<1>4. CASE StartIdentifier
  <2>1. /\ lx' = lx /\ pc' = "identifier" /\ tokens' = tokens /\ oom' = oom
        /\ SamePlace /\ tok'.kind = "identifier"
    BY <1>4, KindSet DEF StartIdentifier, Goto
  <2>2. OpenRead(lx, "identifier", tok')
    BY <1>2, <2>1 DEF OpenRead, PlainKinds, Reads, SamePlace
  <2> QED  BY <1>2, <1>3, <2>1, <2>2, ReadSince, ReadStep
<1>5. CASE StartComment
  <2> DEFINE t == Tested("comment")
             l == Reject4(t)
  <2>1. /\ lx' = l /\ pc' = "comment" /\ tokens' = tokens /\ oom' = oom
        /\ SamePlace /\ tok'.kind = "comment"
    BY <1>5, KindSet DEF StartComment, Goto
  <2>2. Since(l, 0)
    <3>1. Chosen("comment")  BY <1>5 DEF StartComment
    <3>2. Since(t, 4)
      <4>1. Since(Next4(lx), 4)  BY <1>2, SinceNext DEF Reads
      <4> QED  BY <4>1, SinceUndo DEF Tested, Looked
    <3>3. Since(t, 0 + 4)  BY <3>2
    <3> HIDE DEF t
    <3> QED  BY <3>3, SinceRejects
  <2>3. Reads(t, 0, tok.from) /\ t.taken = tok.from  BY <1>1, <1>2, LookedReads
  <2> HIDE DEF t
  <2>4. /\ l.src = t.src /\ l.full = t.full /\ l.err = t.err
        /\ l.text = t.text /\ l.failed = t.failed /\ l.taken = t.taken + 4
    BY <2>3, RejectsSkip DEF Reads, Since
  <2> HIDE DEF l
  <2>5. TextFrom(l, tok.from + 4)
    <3> SUFFICES ASSUME ~l.full, l.err = {}, ~l.failed
                 PROVE  /\ tok.from + 4 <= l.taken
                        /\ l.text = Stretch(l.src, tok.from + 4, l.taken)
      BY DEF TextFrom
    <3>1. t.text = Stretch(t.src, tok.from, t.taken)  BY <2>3, <2>4 DEF Reads, TextFrom
    <3>2. t.text = <<>>  BY <1>2, <2>3, <3>1, EmptyStretch
    <3>3. tok.from + 4 \in Nat /\ l.taken = tok.from + 4  BY <1>2, <2>3, <2>4
    <3>4. Stretch(l.src, tok.from + 4, tok.from + 4) = <<>>  BY <3>3, EmptyStretch
    <3> QED  BY <2>4, <3>2, <3>3, <3>4
  <2>6. OpenRead(l, "comment", tok')
    BY <2>1, <2>5 DEF OpenRead, SamePlace
  <2> QED  BY <1>2, <1>3, <2>1, <2>2, <2>6, ReadStep
<1>6. CASE StartString
  <2> DEFINE t == Tested("string")
             l == Reject(Next(t))
  <2>1. /\ lx' = l /\ pc' = "string" /\ tokens' = tokens /\ oom' = oom
    BY <1>6 DEF StartString, Goto
  <2>2. SamePlace /\ tok'.kind = "string"
    BY <1>1, <1>6 DEF StartString, Tok, SamePlace
  <2>3. Since(t, 0)  BY <1>1, LookedReads DEF Reads
  <2> HIDE DEF t
  <2>4. Since(l, 0)
    <3>1. Since(Next(t), 0 + 1)  BY <2>3, SinceNext
    <3> QED  BY <3>1, SinceReject
  <2>5. ASSUME ~l.full
        PROVE  /\ NextChar(lx) = Shown(l.src, tok.from + 1)
               /\ l.taken = tok.from + 1 /\ Drift(l) = 0
               /\ l.err = {} /\ ~l.failed => l.text = <<>>
    <3>1. Sound(lx) /\ Sound(Next(lx)) /\ Sound(t) /\ Sound(Next(t))
      BY <1>2, <2>3, NextKeeps DEF Reads, Since
    <3>2. t = Undo(Next(lx))  BY DEF t, Tested, Looked
    <3>3. Frame(lx, Next(lx)) /\ Frame(Next(lx), t) /\ Frame(t, Next(t))
      BY <3>1, <3>2, NextFrames, UndoFrames
    <3>4. /\ l.text = Next(t).text /\ l.failed = Next(t).failed /\ l.err = Next(t).err
          /\ l.full = Next(t).full
      BY <3>1, RejectMoves
    <3>5. /\ ~lx.full /\ ~Next(lx).full /\ ~t.full /\ ~Next(t).full
          /\ l.err = {} => lx.err = {}
          /\ l.failed = lx.failed /\ l.text = lx.text
      BY <2>5, <3>3, <3>4 DEF Frame
    <3>6. At(lx, 0, 0)  BY <1>1, <3>5, ReadAt
    <3>7. At(Next(lx), 0, 0 + 1)  BY <3>5, <3>6, AtNext
    <3>8. At(t, 0, 0)  BY <3>2, <3>7, AtUndo
    <3>9. At(Next(t), 0, 1)
      <4>1. At(Next(t), 0, 0 + 1)  BY <3>5, <3>8, AtNext
      <4> QED  BY <4>1
    <3>10. At(l, 0 + 1, 0)
      <4>1. At(l, 0 + 1, IF 1 = 0 THEN 0 ELSE 1 - 1)  BY <3>9, AtReject
      <4> QED  BY <4>1
    <3>11. NextChar(lx) = Shown(lx.src, lx.taken + 0 + 0 + 1)  BY <3>6, AtShows
    <3>12. lx.taken + 0 + 0 + 1 = tok.from + 1 /\ 0 + 1 = 1  BY <1>2
    <3>13. l.err = {} /\ ~l.failed => l.text = <<>>
      BY <1>2, <3>5, EmptyStretch DEF Reads, TextFrom
    <3> QED  BY <1>2, <3>10, <3>11, <3>12, <3>13 DEF At
  <2>6. tok'.delimiter = NextChar(lx) /\ tok'.from = tok.from
    BY <1>1, <1>6 DEF StartString, Tok
  <2> HIDE DEF l
  <2>7. StringStored(l, tok'.from + 1)
    BY <1>2, <2>5, <2>6, NothingStored DEF StringStored
  <2>8. OpenRead(l, "string", tok')  BY <2>2, <2>5, <2>6, <2>7 DEF OpenRead
  <2> QED  BY <1>2, <1>3, <2>1, <2>2, <2>4, <2>8, ReadStep
<1>7. CASE StartNumber
  <2> DEFINE t == Tested("number")
  <2>1. PICK m \in {Accept2(Next2(t)), Accept(Next2(t)), Next2(t)}, hex \in BOOLEAN :
          /\ Goto(Undo(m), "digits")
          /\ tok' = [tok EXCEPT !.kind = "integer", !.is_hex = hex]
    BY <1>7 DEF StartNumber
  <2>2. SamePlace /\ tok'.kind = "integer"  BY <1>1, <2>1 DEF Tok, SamePlace
  <2>3. Reads(t, 0, tok.from)  BY <1>1, LookedReads
  <2> HIDE DEF t
  <2>4. Reads(Undo(m), 0, tok.from)
    <3>1. Reads(Next2(t), 2, tok.from)  BY <2>3, ReadsNext
    <3>2. Reads(Next2(t), 0, tok.from) /\ Reads(Next2(t), 0 + 1, tok.from)
          /\ Reads(Next2(t), 0 + 2, tok.from)
      BY <3>1, FewerReads
    <3>3. Reads(m, 0, tok.from)  BY <1>2, <2>1, <3>2, ReadsAccept
    <3> QED  BY <3>3, ReadsUndo
  <2> DEFINE l == Undo(m)
  <2>5. lx' = l /\ pc' = "digits" /\ tokens' = tokens /\ oom' = oom  BY <2>1 DEF Goto
  <2>6. Since(l, 0) /\ TextFrom(l, tok.from)  BY <2>4 DEF Reads
  <2> HIDE DEF l
  <2>7. OpenRead(l, "digits", tok')
    BY <2>2, <2>6 DEF OpenRead, PlainKinds, SamePlace
  <2> QED  BY <1>2, <1>3, <2>2, <2>5, <2>6, <2>7, ReadStep
<1>8. CASE StartSpaces
  <2> DEFINE l == Tested("spaces")
  <2>1. /\ lx' = l /\ pc' = "spaces" /\ tokens' = tokens /\ oom' = oom
        /\ SamePlace /\ tok'.kind = "spaces"
    BY <1>8, KindSet DEF StartSpaces, Goto
  <2>2. Since(l, 0) /\ TextFrom(l, tok.from)  BY <1>1, LookedReads DEF Reads
  <2> HIDE DEF l
  <2>3. OpenRead(l, "spaces", tok')
    BY <2>1, <2>2 DEF OpenRead, PlainKinds, SamePlace
  <2> QED  BY <1>2, <1>3, <2>1, <2>2, <2>3, ReadStep
<1> QED  BY <1>4, <1>5, <1>6, <1>7, <1>8

LEMMA ReadsLexEscape ==
    ASSUME ReadInv, LexEscape
    PROVE  TextsRead' /\ PlacesRead'
<1> DEFINE t == Tested("escape")
           s == Next6(t)
           r == Reject4(s)
<1>1. PICK e \in EscapesAt(Seen(t, Next6(t), 6)) :
        Goto(Emit(CASE Len(e) = 4 -> r
                    [] Len(e) = 5 -> Reject(r)
                    [] Len(e) = 6 -> Reject2(r), EscapedChar(e)),
             "close")
  BY DEF LexEscape
<1>2. pc = "logic" /\ SamePlace /\ tok'.kind = "escape"
  BY KindSet DEF LexEscape, Chosen
<1>3. Len(e) \in {4, 5, 6}  BY EscapeLengths DEF EscapesAt
<1>4. Since(t, 0) /\ pc \in TokenPcs /\ "close" \in TokenPcs
  BY <1>2, LookedReads DEF Reads, TokenPcs
<1> HIDE DEF t
<1>5. Since(s, 6)  BY <1>4, SinceNext
<1> HIDE DEF s
<1>6. Since(r, 2)
  <2>1. Since(s, 2 + 4)  BY <1>5
  <2> QED  BY <2>1, SinceRejects
<1> HIDE DEF r
<1>7. PICK m \in {r, Reject(r), Reject2(r)} : Goto(Emit(m, EscapedChar(e)), "close")
  BY <1>1, <1>3
<1>8. Since(m, 0)
  <2>1. Since(r, 0) /\ Since(r, 0 + 1) /\ Since(r, 0 + 2)  BY <1>6, FewerStaged
  <2> QED  BY <2>1, SinceReject, SinceRejects
<1> DEFINE l == Emit(m, EscapedChar(e))
<1>9. Since(l, 0)  BY <1>8, EscapedCharTyped, SinceEmit
<1>10. lx' = l /\ pc' = "close" /\ tokens' = tokens /\ oom' = oom  BY <1>7 DEF Goto
<1> HIDE DEF l
<1>11. OpenRead(l, "close", tok')  BY <1>2 DEF OpenRead, PlainKinds
<1> QED  BY <1>2, <1>4, <1>9, <1>10, <1>11, ReadStep

LEMMA ReadsLexPunctuator ==
    ASSUME ReadInv, LexPunctuator
    PROVE  TextsRead' /\ PlacesRead'
<1> DEFINE l == Tested("punctuator")
           n == PunctuatorLength(Seen(l, Next3(l), 3))
           t == Next3(l)
<1>1. /\ pc = "logic"
      /\ Goto(CASE n = 0 -> t
                [] n = 1 -> Accept(t)
                [] n = 2 -> Accept2(t)
                [] n = 3 -> Accept3(t), "close")
      /\ Kind(IF n = 0 THEN "null" ELSE "punctuator")
  BY DEF LexPunctuator, Chosen
<1>2. n \in {0, 1, 2, 3}  BY DEF PunctuatorLength
<1>3. SamePlace /\ tok'.kind \in {"null", "punctuator"}
  <2> HIDE DEF n
  <2> QED  BY <1>1, KindSet
<1>4. Reads(l, 0, tok.from) /\ tok.from \in Nat /\ pc \in TokenPcs /\ "close" \in TokenPcs
  BY <1>1, ReadLogic, LookedReads DEF TokenPcs
<1> HIDE DEF l, n
<1>5. Reads(t, 3, tok.from)  BY <1>4, ReadsNext
<1> HIDE DEF t
<1>6. PICK m \in {t, Accept(t), Accept2(t), Accept3(t)} : Goto(m, "close")
  BY <1>1, <1>2
<1>7. Reads(m, 0, tok.from)
  <2>1. Reads(t, 0, tok.from) /\ Reads(t, 0 + 1, tok.from) /\ Reads(t, 0 + 2, tok.from)
        /\ Reads(t, 0 + 3, tok.from)
    BY <1>5, FewerReads
  <2> QED  BY <1>4, <2>1, ReadsAccept
<1>8. lx' = m /\ pc' = "close" /\ tokens' = tokens /\ oom' = oom  BY <1>6 DEF Goto
<1>9. OpenRead(m, "close", tok')
  BY <1>3, <1>7 DEF OpenRead, Reads, SamePlace
<1> QED  BY <1>3, <1>4, <1>7, <1>8, <1>9, ReadStep DEF Reads

\* The loops that store all they take.
LEMMA ReadsTaking ==
    ASSUME ReadInv, tok.from \in Nat, NEW b \in Nat, TextFrom(lx, b)
    PROVE  /\ Reads(lx, 0, b) /\ Reads(Undo(lx), 0, b)
           /\ Reads(Next(lx), 0, b) /\ Reads(Undo(Next(lx)), 0, b)
           /\ Reads(Accept(Next(lx)), 0, b) /\ Reads(Accept(Next2(lx)), 0, b)
           /\ Reads(Accept2(Next2(lx)), 0, b) /\ Reads(Accept3(Next3(lx)), 0, b)
<1>1. Reads(lx, 0, b)  BY ReadSince DEF Reads
<1>2. /\ Reads(Next(lx), 0 + 1, b) /\ Reads(Next2(lx), 0 + 2, b) /\ Reads(Next3(lx), 0 + 3, b)
  BY <1>1, ReadsNext
<1>3. Reads(Next(lx), 0, b) /\ Reads(Next2(lx), 0 + 1, b)
  BY <1>2, FewerReads
<1>4. Reads(Undo(lx), 0, b) /\ Reads(Undo(Next(lx)), 0, b)
  BY <1>1, <1>3, ReadsUndo
<1> QED  BY <1>1, <1>2, <1>3, <1>4, ReadsAccept

LEMMA ReadsIdentifier ==
    ASSUME ReadInv, IdentifierStep \/ IdentifierEnd \/ SpacesStep \/ SpacesEnd
    PROVE  TextsRead' /\ PlacesRead'
<1>1. PICK m \in {Accept(Next(lx)), lx, Next(lx)}, p \in {"identifier", "spaces", "close"} :
        On(m, p) /\ pc \in {"identifier", "spaces"}
  BY DEF IdentifierStep, IdentifierEnd, SpacesStep, SpacesEnd
<1>2. pc \in TokenPcs /\ p \in TokenPcs /\ tok.from \in Nat
  BY <1>1 DEF TokenPcs, ReadInv, LexerInv, OtherTypes, Tok
<1>3. tok.kind \in PlainKinds /\ TextFrom(lx, tok.from)
  BY <1>1, <1>2 DEF ReadInv, TextsRead, OpenRead
<1>4. Reads(m, 0, tok.from)  BY <1>1, <1>2, <1>3, ReadsTaking
<1>5. OpenRead(m, p, tok)
  BY <1>1, <1>3, <1>4 DEF OpenRead, Reads, PlainKinds
<1> QED  BY <1>1, <1>2, <1>4, <1>5, ReadOn DEF Reads

LEMMA ReadsComment ==
    ASSUME ReadInv, CommentStep \/ CommentCut
    PROVE  TextsRead' /\ PlacesRead'
<1>1. pc = "comment"  BY DEF CommentStep, CommentCut
<1>2. pc \in TokenPcs /\ tok.from \in Nat /\ tok.from + 4 \in Nat
      /\ "comment" \in TokenPcs /\ "close" \in TokenPcs
  BY <1>1 DEF TokenPcs, ReadInv, LexerInv, OtherTypes, Tok
<1>3. tok.kind = "comment" /\ TextFrom(lx, tok.from + 4)
  BY <1>1, <1>2 DEF ReadInv, TextsRead, OpenRead
<1>4. CASE CommentStep
  <2> DEFINE c == Seen(lx, Next3(lx), 3)
  <2>1. c[1] = "-" /\ c[2] = "-" /\ c[3] = ">" => c = <<"-", "-", ">">>
    BY DEF Seen
  <2> HIDE DEF c
  <2>2. \/ \E m \in {Accept(Next(lx)), Accept2(Next2(lx)), Accept3(Next3(lx))} :
             On(m, "comment")
        \/ On(Reject3(Next3(lx)), "close")
    <3>1. CASE c[1] # "-"  BY <1>4, <3>1 DEF CommentStep, c
    <3>2. CASE c[1] = "-" /\ c[2] # "-"  BY <1>4, <3>2 DEF CommentStep, c
    <3>3. CASE c[1] = "-" /\ c[2] = "-" /\ c[3] # ">"  BY <1>4, <3>3 DEF CommentStep, c
    <3>4. CASE c[1] = "-" /\ c[2] = "-" /\ c[3] = ">"
      BY <1>4, <2>1, <3>4 DEF CommentStep, c
    <3> QED  BY <3>1, <3>2, <3>3, <3>4
  <2>3. CASE \E m \in {Accept(Next(lx)), Accept2(Next2(lx)), Accept3(Next3(lx))} :
               On(m, "comment")
    <3>1. PICK m \in {Accept(Next(lx)), Accept2(Next2(lx)), Accept3(Next3(lx))} :
            On(m, "comment")
      BY <2>3
    <3>2. Reads(m, 0, tok.from + 4)  BY <1>2, <1>3, ReadsTaking
    <3>3. OpenRead(m, "comment", tok)  BY <1>3, <3>2 DEF OpenRead, Reads
    <3> QED  BY <1>2, <3>1, <3>2, <3>3, ReadOn DEF Reads
  <2>4. CASE On(Reject3(Next3(lx)), "close")
    <3> DEFINE s == Next3(lx)
               l == Reject3(s)
    <3>1. Reads(s, 3, tok.from + 4)
      <4>1. Reads(lx, 0, tok.from + 4)  BY <1>3, ReadSince DEF Reads
      <4> QED  BY <4>1, ReadsNext
    <3> HIDE DEF s
    <3>2. Since(l, 0)
      <4>1. Since(s, 0 + 3)  BY <3>1 DEF Reads
      <4> QED  BY <4>1, SinceRejects
    <3>3. /\ l.src = s.src /\ l.full = s.full /\ l.err = s.err
          /\ l.text = s.text /\ l.failed = s.failed /\ l.taken = s.taken + 3
      BY <3>1, RejectsSkip DEF Reads, Since
    <3>4. s.taken \in Nat  BY <3>1 DEF Reads, Since, Sound, LexRec
    <3> HIDE DEF l
    <3>5. CommentRead(l, tok.from)
      <4> SUFFICES ASSUME ~l.full, l.err = {}, ~l.failed
                   PROVE  \E j \in {l.taken - 3, l.taken} :
                             l.text = Stretch(l.src, tok.from + 4, j)
        BY DEF CommentRead
      <4>1. l.text = Stretch(l.src, tok.from + 4, s.taken)
        BY <3>1, <3>3 DEF Reads, TextFrom
      <4>2. s.taken = l.taken - 3  BY <3>3, <3>4
      <4> QED  BY <4>1, <4>2
    <3>6. OpenRead(l, "close", tok)
      BY <1>3, <3>5 DEF OpenRead, PlainKinds
    <3> QED  BY <1>2, <2>4, <3>2, <3>6, ReadOn DEF l, s
  <2> QED  BY <2>2, <2>3, <2>4
<1>5. CASE CommentCut
  <2>1. On(lx, "close")  BY <1>5 DEF CommentCut
  <2>2. CommentRead(lx, tok.from)  BY <1>3 DEF CommentRead, TextFrom
  <2>3. OpenRead(lx, "close", tok)  BY <1>3, <2>2 DEF OpenRead, PlainKinds
  <2> QED  BY <1>2, <2>1, <2>3, ReadSince, ReadOn
<1> QED  BY <1>4, <1>5

\* What the recogniser of strings knows, before the staging area overflows.
LEMMA StringNow ==
    ASSUME ReadInv, pc = "string", ~lx.full
    PROVE  /\ lx.src \in Seq(Byte) /\ tok.from + 1 \in Nat /\ lx.taken \in Nat
           /\ lx.text \in Seq(Byte)
           /\ At(lx, 0, Drift(lx)) /\ Drift(lx) \in Nat /\ NextChar(lx) \in Byte
           /\ Drift(lx) = 0 => NextChar(lx) = Shown(lx.src, lx.taken + 1)
           /\ tok.delimiter = Shown(lx.src, tok.from + 1)
           /\ lx.err = {} /\ ~lx.failed =>
                Stored(lx.src, lx.text, tok.from + 1, lx.taken, Drift(lx))
<1>1. pc \in TokenPcs  BY DEF TokenPcs
<1>2. /\ Sound(lx) /\ lx.src \in Seq(Byte) /\ tok.from \in Nat /\ lx.taken \in Nat
      /\ lx.text \in Seq(Byte)
  BY DEF ReadInv, LexerInv, OtherTypes, Tok, Sound, LexRec
<1>3. At(lx, 0, Drift(lx)) /\ Drift(lx) \in Nat  BY ReadAt
<1>4. ASSUME Drift(lx) = 0 PROVE NextChar(lx) = Shown(lx.src, lx.taken + 1)
  <2>1. NextChar(lx) = Shown(lx.src, lx.taken + 0 + 0 + 1)  BY <1>3, <1>4, AtShows
  <2> QED  BY <1>2, <2>1
<1>5. OpenRead(lx, "string", tok)  BY <1>1 DEF ReadInv, TextsRead
<1>6. NextChar(lx) \in Byte  BY <1>2, NextCharTyped
<1> QED  BY <1>2, <1>3, <1>4, <1>5, <1>6 DEF OpenRead, StringStored

\* After one more byte was looked at and taken.
LEMMA StringTaken ==
    ASSUME ReadInv, pc = "string", NEW r, r = Reject(Next(lx)), ~r.full
    PROVE  /\ ~lx.full /\ r.src = lx.src /\ r.text = lx.text /\ r.failed = lx.failed
           /\ r.err = {} => lx.err = {}
           /\ r.taken = lx.taken + 1 /\ Drift(r) = Drift(lx) /\ Sound(r)
           /\ DequeChar(Next(lx)) = Shown(lx.src, lx.taken + 1)
           /\ DequeChar(Next(lx)) \in Byte
<1> DEFINE n == Next(lx)
<1>1. Since(lx, 0) /\ Since(n, 1) /\ Sound(lx) /\ Sound(n) /\ Frame(lx, n)
  BY ReadSince, SinceNext, NextFrames DEF Since
<1>2. r = Reject(n)  OBVIOUS
<1> HIDE DEF n
<1>3. /\ r.src = n.src /\ r.full = n.full /\ r.err = n.err /\ r.text = n.text
      /\ r.failed = n.failed /\ r.taken = n.taken + 1 /\ Sound(r)
  BY <1>1, <1>2, RejectMoves, RejectKeeps
<1>4. ~n.full /\ ~lx.full  BY <1>1, <1>3 DEF Frame
<1>5. Staged(n) >= 1  BY <1>1, <1>4 DEF Since
<1>6. DequeChar(n) = Shown(n.src, n.taken + 1)  BY <1>1, <1>4, <1>5, RejectMoves
<1>7. Drift(r) = Drift(lx)
  <2>1. At(lx, 0, Drift(lx)) /\ Drift(lx) \in Nat  BY <1>4, ReadAt
  <2>2. At(n, 0, Drift(lx) + 1)  BY <1>4, <2>1, AtNext DEF n
  <2>3. At(r, 0 + 1, IF Drift(lx) + 1 = 0 THEN 0 ELSE (Drift(lx) + 1) - 1)
    BY <1>2, <2>2, AtReject
  <2>4. Drift(lx) + 1 # 0 /\ (Drift(lx) + 1) - 1 = Drift(lx)  BY <2>1
  <2> QED  BY <2>3, <2>4 DEF At
<1>8. DequeChar(n) \in Byte  BY <1>1, NextCharTyped
<1> QED  BY <1>1, <1>3, <1>4, <1>6, <1>7, <1>8 DEF Frame, n

\* A character of the string is stored.
LEMMA StringCharStored ==
    ASSUME ReadInv, StringChar
    PROVE  /\ StringStored(Accept(Next(lx)), tok.from + 1)
           /\ ~Accept(Next(lx)).full =>
                tok.delimiter = Shown(Accept(Next(lx)).src, tok.from + 1)
<1> DEFINE r == Reject(Next(lx))
           c == DequeChar(Next(lx))
           m == Accept(Next(lx))
<1>1. pc = "string" /\ NextChar(lx) # "\\"  BY DEF StringChar
<1>2. Sound(Next(lx)) /\ Sound(r) /\ c \in Byte
  BY NextKeeps, RejectKeeps, NextCharTyped DEF ReadInv, LexerInv
<1>3. m = Emit(r, c)  BY DEF Accept
<1> HIDE DEF r, c, m
<1>4. /\ m.src = r.src /\ m.taken = r.taken /\ m.full = r.full /\ m.err = r.err
      /\ r.err = {} /\ ~m.failed => ~r.failed /\ m.text = Append(r.text, c)
  BY <1>2, <1>3, EmitMoves
<1>5. ASSUME ~m.full
      PROVE  /\ tok.delimiter = Shown(m.src, tok.from + 1)
             /\ m.err = {} /\ ~m.failed =>
                  Stored(m.src, m.text, tok.from + 1, m.taken, Drift(m))
  <2>1. /\ ~lx.full /\ r.src = lx.src /\ r.text = lx.text /\ r.failed = lx.failed
        /\ r.err = {} => lx.err = {}
        /\ r.taken = lx.taken + 1 /\ Drift(r) = Drift(lx)
        /\ c = Shown(lx.src, lx.taken + 1) /\ c \in Byte
    BY <1>1, <1>4, <1>5, StringTaken DEF r, c
  <2>2. /\ lx.src \in Seq(Byte) /\ tok.from + 1 \in Nat /\ lx.taken \in Nat
        /\ lx.text \in Seq(Byte)
        /\ Drift(lx) = 0 => NextChar(lx) = Shown(lx.src, lx.taken + 1)
        /\ tok.delimiter = Shown(lx.src, tok.from + 1)
        /\ lx.err = {} /\ ~lx.failed =>
             Stored(lx.src, lx.text, tok.from + 1, lx.taken, Drift(lx))
    BY <1>1, <2>1, StringNow
  <2>3. Drift(m) = Drift(lx)  BY <1>2, <1>3, <2>1, EmitDrifts
  <2>4. ASSUME m.err = {}, ~m.failed
        PROVE  Stored(m.src, m.text, tok.from + 1, m.taken, Drift(m))
    <3>1. Stored(lx.src, lx.text, tok.from + 1, lx.taken, Drift(lx))
      BY <1>4, <2>1, <2>2, <2>4
    <3>2. Drift(lx) = 0 => c = Shown(lx.src, lx.taken + 1) /\ c \in Byte /\ c # "\\"
      BY <1>1, <2>1, <2>2
    <3>3. Stored(lx.src, Append(lx.text, c), tok.from + 1, lx.taken + 1, Drift(lx))
      BY <2>2, <3>1, <3>2, StoredChar
    <3> QED  BY <1>4, <2>1, <2>3, <2>4, <3>3
  <2> QED  BY <1>4, <2>1, <2>2, <2>4
<1> QED  BY <1>5 DEF StringStored, m

\* A backslash is left out before a character that it may precede, and takes the
\* recogniser out of step before any other.
LEMMA StringEscapeStored ==
    ASSUME ReadInv, StringEscape, NEW m, lx' = m
    PROVE  /\ StringStored(m, tok.from + 1)
           /\ ~m.full => tok.delimiter = Shown(m.src, tok.from + 1)
<1> DEFINE n == Next(lx)
           n2 == Next2(lx)
           c == NextChar(n)
           r == Reject(n2)
           r2 == Reject2(n2)
<1>1. /\ pc = "string" /\ NextChar(lx) = "\\"
      /\ m = IF c \in EscapableChars THEN Emit(r2, c) ELSE r
  BY DEF StringEscape, On, Goto
<1>2. Sound(lx) /\ Sound(n) /\ Sound(n2) /\ Frame(lx, n) /\ Frame(n, n2)
  BY NextKeeps, NextFrames DEF ReadInv, LexerInv, Next2
<1>3. c \in Byte  BY <1>2, NextCharTyped
<1>4. n2 = Next(n) /\ r2 = Reject(r)  BY DEF Next2, Reject2
<1> HIDE DEF c, n, n2, r, r2
<1>5. /\ Sound(r) /\ Sound(r2)
      /\ r.src = n2.src /\ r.full = n2.full /\ r.err = n2.err /\ r.text = n2.text
      /\ r.failed = n2.failed /\ r.taken = n2.taken + 1
      /\ r2.src = r.src /\ r2.full = r.full /\ r2.err = r.err /\ r2.text = r.text
      /\ r2.failed = r.failed /\ r2.taken = r.taken + 1
  <2>1. Sound(r)  BY <1>2, RejectKeeps DEF r
  <2>2. Sound(r2)  BY <1>4, <2>1, RejectKeeps
  <2>3. /\ r.src = n2.src /\ r.full = n2.full /\ r.err = n2.err /\ r.text = n2.text
        /\ r.failed = n2.failed /\ r.taken = n2.taken + 1
    BY <1>2, RejectMoves DEF r
  <2>4. /\ r2.src = r.src /\ r2.full = r.full /\ r2.err = r.err /\ r2.text = r.text
        /\ r2.failed = r.failed /\ r2.taken = r.taken + 1
    BY <1>4, <2>1, RejectMoves
  <2> QED  BY <2>1, <2>2, <2>3, <2>4
<1>6. /\ c \in EscapableChars => m = Emit(r2, c)
      /\ c \notin EscapableChars => m = r
  BY <1>1
<1>7. c \in EscapableChars =>
        /\ m.src = r2.src /\ m.taken = r2.taken /\ m.full = r2.full /\ m.err = r2.err
        /\ r2.err = {} /\ ~m.failed => ~r2.failed /\ m.text = Append(r2.text, c)
  BY <1>3, <1>5, <1>6, EmitMoves
<1>8. ASSUME ~m.full
      PROVE  /\ tok.delimiter = Shown(m.src, tok.from + 1)
             /\ m.err = {} /\ ~m.failed =>
                  Stored(m.src, m.text, tok.from + 1, m.taken, Drift(m))
  <2>1. ~n2.full /\ ~n.full /\ ~lx.full  BY <1>2, <1>5, <1>6, <1>7, <1>8 DEF Frame
  <2>2. /\ lx.src \in Seq(Byte) /\ tok.from + 1 \in Nat /\ lx.taken \in Nat
        /\ lx.text \in Seq(Byte) /\ At(lx, 0, Drift(lx)) /\ Drift(lx) \in Nat
        /\ Drift(lx) = 0 => NextChar(lx) = Shown(lx.src, lx.taken + 1)
        /\ tok.delimiter = Shown(lx.src, tok.from + 1)
        /\ lx.err = {} /\ ~lx.failed =>
             Stored(lx.src, lx.text, tok.from + 1, lx.taken, Drift(lx))
    BY <1>1, <2>1, StringNow
  <2>3. At(n, 0, Drift(lx) + 1)  BY <2>1, <2>2, AtNext DEF n
  <2>4. At(n2, 0, (Drift(lx) + 1) + 1)  BY <1>4, <2>1, <2>3, AtNext
  <2>5. Drift(lx) = 0 => c = Shown(lx.src, lx.taken + 2)
    <3>1. c = Shown(lx.src, lx.taken + 0 + (Drift(lx) + 1) + 1)  BY <2>3, AtShows DEF c
    <3>2. Drift(lx) = 0 => lx.taken + 0 + (Drift(lx) + 1) + 1 = lx.taken + 2  BY <2>2
    <3> QED  BY <3>1, <3>2
  <2>6. /\ n2.src = lx.src /\ n2.taken = lx.taken /\ n2.text = lx.text
        /\ n2.failed = lx.failed /\ (n2.err = {} => lx.err = {})
    BY <1>2 DEF Frame
  <2>7. CASE c \in EscapableChars
    <3>1. Drift(m) = Drift(lx)
      <4>1. At(r, 0 + 1, IF (Drift(lx) + 1) + 1 = 0 THEN 0 ELSE ((Drift(lx) + 1) + 1) - 1)
        BY <2>4, AtReject DEF r
      <4>2. At(r, 1, Drift(lx) + 1)
        <5>1. (Drift(lx) + 1) + 1 # 0 /\ ((Drift(lx) + 1) + 1) - 1 = Drift(lx) + 1 /\ 0 + 1 = 1
          BY <2>2
        <5> QED  BY <4>1, <5>1
      <4>3. At(r2, 1 + 1, IF Drift(lx) + 1 = 0 THEN 0 ELSE (Drift(lx) + 1) - 1)
        BY <1>4, <4>2, AtReject
      <4>4. Drift(lx) + 1 # 0 /\ (Drift(lx) + 1) - 1 = Drift(lx)  BY <2>2
      <4>5. Drift(r2) = Drift(lx)  BY <4>3, <4>4 DEF At
      <4> QED  BY <1>3, <1>5, <1>6, <2>7, <4>5, EmitDrifts
    <3>2. m.src = lx.src /\ m.taken = lx.taken + 2
      <4>1. (lx.taken + 1) + 1 = lx.taken + 2  BY <2>2
      <4> QED  BY <1>5, <1>7, <2>6, <2>7, <4>1
    <3>3. ASSUME m.err = {}, ~m.failed
          PROVE  Stored(m.src, m.text, tok.from + 1, m.taken, Drift(m))
      <4>1. lx.err = {} /\ ~lx.failed /\ m.text = Append(lx.text, c)
        BY <1>5, <1>7, <2>6, <2>7, <3>3
      <4>2. Stored(lx.src, lx.text, tok.from + 1, lx.taken, Drift(lx))  BY <2>2, <4>1
      <4>3. Drift(lx) = 0 => /\ Shown(lx.src, lx.taken + 1) = "\\"
                             /\ c = Shown(lx.src, lx.taken + 2) /\ c \in Byte
        BY <1>1, <1>3, <2>2, <2>5
      <4>4. Stored(lx.src, Append(lx.text, c), tok.from + 1, lx.taken + 2, Drift(lx))
        BY <2>2, <4>2, <4>3, StoredEscape
      <4> QED  BY <3>1, <3>2, <4>1, <4>4
    <3> QED  BY <2>2, <3>2, <3>3
  <2>8. CASE c \notin EscapableChars
    <3>1. m.src = lx.src /\ m.taken = lx.taken + 1  BY <1>5, <1>6, <2>6, <2>8
    <3>2. ASSUME m.err = {}, ~m.failed
          PROVE  Stored(m.src, m.text, tok.from + 1, m.taken, Drift(m))
      <4>1. lx.err = {} /\ ~lx.failed  BY <1>5, <1>6, <2>6, <2>8, <3>2
      <4>2. Stored(lx.src, lx.text, tok.from + 1, lx.taken, Drift(lx))  BY <2>2, <4>1
      <4>3. Drift(lx) = 0 =>
              /\ Shown(lx.src, lx.taken + 1) = "\\"
              /\ Shown(lx.src, lx.taken + 2) \notin Escapable(Shown(lx.src, tok.from + 1))
        BY <1>1, <2>2, <2>5, <2>8 DEF EscapableChars, Escapable
      <4>4. Stored(lx.src, m.text, tok.from + 1, lx.taken + 1, Drift(m))
        BY <2>2, <4>2, <4>3, StoredMisplaced
      <4> QED  BY <3>1, <4>4
    <3> QED  BY <2>2, <3>1, <3>2
  <2> QED  BY <2>7, <2>8
<1> QED  BY <1>8 DEF StringStored

LEMMA StringEndRead ==
    ASSUME ReadInv, StringEnd
    PROVE  StringRead(Reject(Next(lx)), tok.from + 1)
<1> DEFINE r == Reject(Next(lx))
<1>1. pc = "string" /\ NextChar(lx) = tok.delimiter  BY DEF StringEnd
<1> SUFFICES ASSUME ~r.full, r.err = {}, ~r.failed
             PROVE  Decoded(r.src, r.text, tok.from + 1, r.taken - 1)
  BY DEF StringRead
<1>2. /\ ~lx.full /\ r.src = lx.src /\ r.text = lx.text /\ r.failed = lx.failed
      /\ r.err = {} => lx.err = {}
      /\ r.taken = lx.taken + 1
  BY <1>1, StringTaken
<1> HIDE DEF r
<1>3. /\ lx.taken \in Nat
      /\ Drift(lx) = 0 => NextChar(lx) = Shown(lx.src, lx.taken + 1)
      /\ tok.delimiter = Shown(lx.src, tok.from + 1)
      /\ Stored(lx.src, lx.text, tok.from + 1, lx.taken, Drift(lx))
  BY <1>1, <1>2, StringNow
<1>4. Decoded(lx.src, lx.text, tok.from + 1, lx.taken)  BY <1>1, <1>3, StoredEnds
<1>5. r.taken - 1 = lx.taken  BY <1>2, <1>3
<1> QED  BY <1>2, <1>4, <1>5

LEMMA ReadsString ==
    ASSUME ReadInv, StringEscape \/ StringChar \/ StringEnd \/ StringNewline \/ StringCut
    PROVE  TextsRead' /\ PlacesRead'
<1>1. pc = "string"
  BY DEF StringEscape, StringChar, StringEnd, StringNewline, StringCut
<1>2. pc \in TokenPcs /\ "string" \in TokenPcs /\ "close" \in TokenPcs
  BY <1>1 DEF TokenPcs
<1>3. tok.kind = "string"  BY <1>1, <1>2 DEF ReadInv, TextsRead, OpenRead
<1>4. \A l : StringRead(l, tok.from + 1) => OpenRead(l, "close", tok)
  BY <1>3 DEF OpenRead, PlainKinds
<1>5. Since(lx, 0) /\ Since(Next(lx), 0 + 1) /\ Since(Next2(lx), 0 + 2)
  BY ReadSince, SinceNext
<1>6. /\ Since(Reject(Next(lx)), 0) /\ Since(Accept(Next(lx)), 0)
      /\ Since(Reject2(Next2(lx)), 0) /\ Since(Reject(Next2(lx)), 0)
  <2>1. Since(Next2(lx), 0 + 1)  BY <1>5, FewerStaged
  <2> QED  BY <1>5, <2>1, SinceReject, SinceAccept, SinceRejects
<1>7. CASE StringEscape
  <2> DEFINE c == NextChar(Next(lx))
  <2>1. c \in Byte  BY <1>5, NextCharTyped DEF Since
  <2>2. PICK m \in {Emit(Reject2(Next2(lx)), c), Reject(Next2(lx))} : On(m, "string")
    BY <1>7 DEF StringEscape
  <2> HIDE DEF c
  <2>3. Since(m, 0)  BY <1>6, <2>1, <2>2, SinceEmit
  <2>4. lx' = m  BY <2>2 DEF On, Goto
  <2>5. OpenRead(m, "string", tok)  BY <1>3, <1>7, <2>4, StringEscapeStored DEF OpenRead
  <2> QED  BY <1>2, <2>2, <2>3, <2>5, ReadOn
<1>8. CASE StringChar
  <2>1. On(Accept(Next(lx)), "string")  BY <1>8 DEF StringChar
  <2>2. OpenRead(Accept(Next(lx)), "string", tok)
    BY <1>3, <1>8, StringCharStored DEF OpenRead
  <2> QED  BY <1>2, <1>6, <2>1, <2>2, ReadOn
<1>9. CASE StringEnd
  <2>1. On(Reject(Next(lx)), "close")  BY <1>9 DEF StringEnd
  <2>2. OpenRead(Reject(Next(lx)), "close", tok)  BY <1>4, <1>9, StringEndRead
  <2> QED  BY <1>2, <1>6, <2>1, <2>2, ReadOn
<1>10. CASE StringNewline \/ StringCut
  <2>1. PICK m \in {Reject(Next(lx)), lx},
             e \in {{"InvalidString", "PrematureEndOfString"}, {"PrematureEndOfString"}} :
          On(WithError(m, e), "close")
    BY <1>10 DEF StringNewline, StringCut
  <2>2. e \in SUBSET Errors  BY DEF Errors
  <2>3. Since(m, 0)  BY <1>5, <1>6, <2>1
  <2>4. Since(WithError(m, e), 0)  BY <2>2, <2>3, SinceWithError
  <2>5. WithError(m, e).err # {}
    <3> DEFINE err == m.err \cup e
    <3>1. m \in LexRec /\ WithError(m, e) = [m EXCEPT !.err = err]
      BY <2>3 DEF Since, Sound, WithError
    <3>2. err # {}
      <4>1. "PrematureEndOfString" \in e  OBVIOUS
      <4> QED  BY <4>1
    <3> HIDE DEF err
    <3> QED  BY <3>1, <3>2 DEF LexRec
  <2>6. OpenRead(WithError(m, e), "close", tok)  BY <1>4, <2>5 DEF StringRead
  <2> QED  BY <1>2, <2>1, <2>4, <2>6, ReadOn
<1> QED  BY <1>7, <1>8, <1>9, <1>10

LEMMA ReadsNumber ==
    ASSUME ReadInv,
           DigitsStep \/ DigitsEnd \/ NumberDigit \/ NumberDot \/ NumberExponent \/ NumberEnd
             \/ NumberSuffix
    PROVE  TextsRead' /\ PlacesRead'
<1>1. pc \in {"digits", "number", "suffix"}
  BY DEF DigitsStep, DigitsEnd, NumberDigit, NumberDot, NumberExponent, NumberEnd,
         NumberSuffix
<1>2. pc \in TokenPcs /\ tok \in Tok /\ tok.from \in Nat
  BY <1>1 DEF TokenPcs, ReadInv, LexerInv, OtherTypes, Tok
<1>3. tok.kind \in PlainKinds /\ TextFrom(lx, tok.from)
  BY <1>1, <1>2 DEF ReadInv, TextsRead, OpenRead
<1>4. PICK m \in {Undo(lx), Next(lx), Undo(Next(lx)), Accept(Next(lx)), Accept(Next2(lx)),
                  Accept2(Next2(lx))},
           p \in {"digits", "number", "suffix", "close"} :
        /\ Goto(m, p)
        /\ \/ tok' = tok
           \/ tok' = [tok EXCEPT !.kind = "float", !.dot_found = TRUE]
           \/ tok' = [tok EXCEPT !.kind = "float", !.exponent_found = TRUE]
  <2>1. CASE DigitsStep \/ DigitsEnd \/ NumberDigit \/ NumberEnd
    BY <2>1 DEF DigitsStep, DigitsEnd, NumberDigit, NumberEnd, On
  <2>2. CASE NumberDot \/ NumberExponent
    BY <2>2 DEF NumberDot, NumberExponent
  <2>3. CASE NumberSuffix
    <3>1. PICK m \in {Accept(Next(lx)), Accept(Next2(lx)), Accept2(Next2(lx)), Next(lx)} :
            On(m, "close")
      BY <2>3 DEF NumberSuffix
    <3> QED  BY <3>1 DEF On
  <2> QED  BY <2>1, <2>2, <2>3
<1>5. Reads(m, 0, tok.from)  BY <1>2, <1>3, <1>4, ReadsTaking
<1>6. SamePlace /\ tok'.kind \in PlainKinds
  BY <1>2, <1>3, <1>4 DEF Tok, SamePlace, PlainKinds
<1>7. OpenRead(m, p, tok')
  BY <1>4, <1>5, <1>6 DEF OpenRead, Reads, PlainKinds, SamePlace
<1>8. p \in TokenPcs /\ lx' = m /\ pc' = p /\ tokens' = tokens /\ oom' = oom
  BY <1>4 DEF Goto, TokenPcs
<1> QED  BY <1>2, <1>5, <1>6, <1>7, <1>8, ReadStep DEF Reads

LEMMA ReadInvStep ==
    ASSUME ReadInv, [LexerNext]_vars
    PROVE  ReadInv'
<1>1. LexerInv'  BY LexerInvStep DEF ReadInv
<1>2. CASE UNCHANGED vars
  <2>1. TextsRead' /\ PlacesRead'
    BY <1>2 DEF vars, ReadInv, TextsRead, PlacesRead
  <2> QED  BY <1>1, <2>1 DEF ReadInv
<1>3. CASE NextToken
  <2>1. TextsRead' /\ PlacesRead'
    BY <1>3, ReadsBefore, ReadsOpen, ReadsTestFails, ReadsStart, ReadsLexEscape,
       ReadsLexPunctuator, ReadsIdentifier, ReadsComment, ReadsString, ReadsNumber,
       ReadsCloseToken, ReadsCloseFailed
    DEF NextToken
  <2> QED  BY <1>1, <2>1 DEF ReadInv
<1> QED  BY <1>2, <1>3 DEF LexerNext, Stopped

-----------------------------------------------------------------------------
(* Every token takes at least one byte.                                    *)

\* What an operation takes.
LEMMA TakenStays ==
    ASSUME NEW l, Sound(l)
    PROVE  /\ Undo(l).taken = l.taken /\ Next(l).taken = l.taken
           /\ Next2(l).taken = l.taken /\ Next3(l).taken = l.taken
           /\ Next4(l).taken = l.taken /\ Next6(l).taken = l.taken
           /\ \A c \in Byte : Emit(l, c).taken = l.taken
<1>1. ASSUME NEW m, Sound(m) PROVE Sound(Next(m)) /\ Next(m).taken = m.taken
  BY <1>1, NextKeeps, NextFrames DEF Frame
<1>2. ASSUME NEW m, Sound(m) PROVE Sound(Next3(m)) /\ Next3(m).taken = m.taken
  <2>1. Sound(Next(m)) /\ Next(m).taken = m.taken  BY <1>1, <1>2
  <2>2. Sound(Next(Next(m))) /\ Next(Next(m)).taken = m.taken  BY <1>1, <2>1
  <2>3. Sound(Next(Next(Next(m)))) /\ Next(Next(Next(m))).taken = m.taken  BY <1>1, <2>2
  <2> QED  BY <2>3 DEF Next3, Next2
<1>3. Sound(Next(l)) /\ Next(l).taken = l.taken  BY <1>1
<1>4. Next2(l).taken = l.taken  BY <1>1, <1>3 DEF Next2
<1>5. Sound(Next3(l)) /\ Next3(l).taken = l.taken  BY <1>2
<1>6. Next4(l).taken = l.taken  BY <1>1, <1>5 DEF Next4
<1>7. Next6(l).taken = l.taken  BY <1>2, <1>5 DEF Next6
<1>8. Undo(l).taken = l.taken  BY UndoFrames DEF Frame
<1>9. \A c \in Byte : Emit(l, c).taken = l.taken  BY EmitMoves
<1> QED  BY <1>3, <1>4, <1>5, <1>6, <1>7, <1>8, <1>9

LEMMA TakenGrows ==
    ASSUME NEW l, Sound(l)
    PROVE  /\ l.taken \in Nat
           /\ Reject(l).taken = l.taken + 1 /\ Reject2(l).taken = l.taken + 2
           /\ Reject3(l).taken = l.taken + 3 /\ Reject4(l).taken = l.taken + 4
           /\ Accept(l).taken = l.taken + 1 /\ Accept2(l).taken = l.taken + 2
           /\ Accept3(l).taken = l.taken + 3
<1>0. l.taken \in Nat  BY DEF Sound, LexRec
<1>1. ASSUME NEW m, Sound(m)
      PROVE  /\ Sound(Reject(m)) /\ Reject(m).taken = m.taken + 1
             /\ Sound(Accept(m)) /\ Accept(m).taken = m.taken + 1
  <2>1. Sound(Reject(m)) /\ Reject(m).taken = m.taken + 1
    BY <1>1, RejectKeeps, RejectMoves
  <2>2. DequeChar(m) \in Byte  BY <1>1, NextCharTyped
  <2> QED  BY <1>1, <2>1, <2>2, AcceptKeeps, TakenStays DEF Accept
<1>2. Sound(Reject(l)) /\ Reject(l).taken = l.taken + 1  BY <1>1
<1>3. Sound(Reject2(l)) /\ Reject2(l).taken = l.taken + 2
  BY <1>0, <1>1, <1>2 DEF Reject2
<1>4. Sound(Reject3(l)) /\ Reject3(l).taken = l.taken + 3
  BY <1>0, <1>1, <1>3 DEF Reject3
<1>5. Reject4(l).taken = l.taken + 4
  <2>1. Reject4(l) = Reject(Reject3(l))  BY DEF Reject4, Reject3, Reject2
  <2> QED  BY <1>0, <1>1, <1>4, <2>1
<1>6. Sound(Accept(l)) /\ Accept(l).taken = l.taken + 1  BY <1>1
<1>7. Sound(Accept2(l)) /\ Accept2(l).taken = l.taken + 2
  BY <1>0, <1>1, <1>6 DEF Accept2
<1>8. Accept3(l).taken = l.taken + 3
  BY <1>0, <1>1, <1>7 DEF Accept3
<1> QED  BY <1>0, <1>2, <1>3, <1>4, <1>5, <1>6, <1>7, <1>8

\* The byte that follows those taken.
Ahead(l) == Shown(l.src, l.taken + 1)

\* With nothing looked at, next() shows it.
LEMMA NextIsAhead ==
    ASSUME NEW l, Sound(l), ~l.full, l.it = l.start_it
    PROVE  NextChar(l) = Ahead(l)
<1>1. /\ InStep(l) /\ l.start_it \in Positions /\ l.end_it \in Positions
      /\ l.taken \in Nat /\ Len(l.src) \in Nat
  BY DEF Sound, LexRec
<1>2. Staged(l) \in 0..StagingMax /\ (Staged(l) = 0 <=> l.start_it = l.end_it)
  BY <1>1, DistanceTyped DEF Staged
<1>3. CASE l.it # l.end_it
  <2>1. 1 \in 1..Staged(l)  BY <1>2, <1>3
  <2>2. l.buf[Index(l.start_it, 1 - 1)] = Ahead(l)
    BY <1>1, <2>1 DEF InStep, StagedBytes, Ahead
  <2>3. Index(l.start_it, 1 - 1) = l.start_it
    BY <1>1, StagingAssumption DEF Index, Positions
  <2> QED  BY <1>3, <2>2, <2>3 DEF NextChar
<1>4. CASE l.it = l.end_it
  <2>1. l.taken + Staged(l) = l.taken  BY <1>1, <1>2, <1>4
  <2>2. l.off = Smaller(l.taken, Len(l.src))  BY <1>1, <2>1 DEF InStep
  <2> QED  BY <1>1, <1>4, <2>2 DEF NextChar, HasByte, StreamByte, Smaller, Ahead, Shown
<1> QED  BY <1>3, <1>4

\* Staged or not, it is not the end's, when lexer_is_end_of_input says so.
LEMMA NotAtEnd ==
    ASSUME NEW l, Sound(l), ~l.full
    PROVE  /\ ~IsEnd(l) => Ahead(l) \notin {Eof, Nul}
           /\ Staged(l) >= 1 /\ Ahead(l) \notin {Eof, Nul} => ~IsEnd(l)
<1>1. /\ InStep(l) /\ l.start_it \in Positions /\ l.end_it \in Positions
      /\ l.taken \in Nat /\ Len(l.src) \in Nat
  BY DEF Sound, LexRec
<1>2. Staged(l) \in 0..StagingMax /\ (Staged(l) = 0 <=> l.start_it = l.end_it)
  BY <1>1, DistanceTyped DEF Staged
<1>3. CASE ~IsEmpty(l)
  <2>1. 1 \in 1..Staged(l)  BY <1>2, <1>3 DEF IsEmpty
  <2>2. l.buf[Index(l.start_it, 1 - 1)] = Ahead(l)
    BY <1>1, <2>1 DEF InStep, StagedBytes, Ahead
  <2>3. Index(l.start_it, 1 - 1) = l.start_it
    BY <1>1, StagingAssumption DEF Index, Positions
  <2> QED  BY <1>3, <2>2, <2>3 DEF IsEnd
<1>4. CASE IsEmpty(l)
  <2>0. Staged(l) = 0  BY <1>2, <1>4 DEF IsEmpty
  <2>1. l.off = Smaller(l.taken, Len(l.src))
    <3>1. l.taken + Staged(l) = l.taken  BY <1>1, <2>0
    <3> QED  BY <1>1, <3>1 DEF InStep
  <2>2. ASSUME ~IsEnd(l) PROVE Ahead(l) \notin {Eof, Nul}
    <3>1. HasByte(l) /\ StreamByte(l) \notin {Eof, Etx, Nul}  BY <1>4, <2>2 DEF IsEnd
    <3>2. l.off = l.taken /\ l.taken + 1 <= Len(l.src)
      BY <1>1, <2>1, <3>1 DEF HasByte, Smaller
    <3>3. StreamByte(l) = Ahead(l)  BY <3>2 DEF StreamByte, Ahead, Shown
    <3> QED  BY <3>1, <3>3
  <2> QED  BY <2>0, <2>2
<1> QED  BY <1>3, <1>4

-----------------------------------------------------------------------------
(* The invariant.                                                          *)

Ready(l) == l.it = l.start_it /\ ~IsEnd(l)

Past(l, t) == t.from < l.taken

\* The token t is not empty, or the byte ahead is its first and will be taken.
Takes(l, p, t, asks, d) ==
    LET first(S) == Ready(l) /\ l.taken = t.from /\ Ahead(l) \in S
    IN /\ p = "logic" =>
            /\ Ready(l) /\ ~t.dot_found
            /\ asks.eat => Ahead(l) \notin WhitespaceChars
            /\ "spaces" \in Asked(asks.tests) \ Asked(d) => Ahead(l) \notin WhitespaceChars
            /\ "punctuator" \in Asked(asks.tests) \ Asked(d) => Ahead(l) \notin PunctuatorChars
       /\ p = "identifier" =>
            Past(l, t) \/ first(Byte \ (WhitespaceChars \cup PunctuatorChars))
       /\ p = "spaces" => Past(l, t) \/ first(WhitespaceChars)
       /\ p \in {"digits", "number"} =>
            Past(l, t) \/ (first(Digits \cup {"."}) /\ ~t.dot_found)
       /\ p \in {"comment", "string", "suffix", "close"} => Past(l, t)

Eaten ==
    /\ pc = "eat" => lx.it = lx.start_it
    /\ pc = "open" /\ client.eat => Ahead(lx) \notin WhitespaceChars

\* The token opened begins behind those committed.
InOrder ==
    /\ pc \in TokenPcs => tok.from <= lx.taken
    /\ Len(tokens) > 0 =>
         tokens[Len(tokens)].to <= IF pc \in TokenPcs THEN tok.from ELSE lx.taken

TakesInv ==
    /\ ReadInv
    /\ InOrder
    /\ ~lx.full =>
         /\ lx.src \in Inputs
         /\ Eaten
         /\ pc \in TokenPcs => Takes(lx, pc, tok, client, todo)

\* A step inside a token.
LEMMA TakeStep ==
    ASSUME TakesInv, pc \in TokenPcs, NEW l, NEW p \in TokenPcs,
           lx' = l, pc' = p, tokens' = tokens, client' = client, SamePlace,
           Since(l, 0), l.taken >= lx.taken,
           ~l.full => Takes(l, p, tok', client, todo')
    PROVE  InOrder' /\ (~lx'.full => lx'.src \in Inputs /\ Eaten'
                                      /\ (pc' \in TokenPcs => Takes(lx, pc, tok, client, todo)'))
<1>1. ~lx'.full => ~lx.full /\ lx'.src = lx.src  BY DEF Since
<1>2. InOrder'
  <2>1. tok.from \in Nat /\ lx.taken \in Nat /\ l.taken \in Nat
    BY DEF TakesInv, ReadInv, LexerInv, OtherTypes, Tok, Sound, LexRec, Since
  <2>2. tok'.from <= lx'.taken  BY <2>1 DEF TakesInv, InOrder, SamePlace
  <2>3. Len(tokens') > 0 => tokens'[Len(tokens')].to <= tok'.from
    BY DEF TakesInv, InOrder, SamePlace
  <2> QED  BY <2>2, <2>3 DEF InOrder
<1>3. pc' # "eat" /\ pc' # "open"  BY DEF TokenPcs
<1>4. ASSUME ~lx'.full PROVE lx'.src \in Inputs  BY <1>1, <1>4 DEF TakesInv
<1>5. Eaten'  BY <1>3 DEF Eaten
<1>6. ~lx'.full => Takes(lx, pc, tok, client, todo)'  OBVIOUS
<1> QED  BY <1>2, <1>4, <1>5, <1>6

\* A step outside a token.
LEMMA TakeCall ==
    ASSUME TakesInv, pc \notin TokenPcs, NEW l, NEW p \in {"idle", "eat", "open", "stop"},
           lx' = l, pc' = p, tokens' = tokens, client' = client,
           Since(l, 0), l.taken >= lx.taken,
           p = "eat" /\ ~l.full => l.it = l.start_it,
           p = "open" /\ client.eat /\ ~l.full => Ahead(l) \notin WhitespaceChars
    PROVE  InOrder' /\ (~lx'.full => lx'.src \in Inputs /\ Eaten'
                                      /\ (pc' \in TokenPcs => Takes(lx, pc, tok, client, todo)'))
<1>1. ~lx'.full => ~lx.full /\ lx'.src = lx.src  BY DEF Since
<1>2. pc' \notin TokenPcs  BY DEF TokenPcs
<1>3. InOrder'
  <2>1. lx.taken \in Nat /\ l.taken \in Nat
    BY DEF TakesInv, ReadInv, LexerInv, Sound, LexRec, Since
  <2>2. ASSUME Len(tokens) > 0 PROVE tokens[Len(tokens)].to <= l.taken
    <3>1. tokens[Len(tokens)].to <= lx.taken  BY <2>2 DEF TakesInv, InOrder
    <3>2. tokens[Len(tokens)] \in Token
      BY <2>2 DEF TakesInv, ReadInv, LexerInv, OtherTypes
    <3> QED  BY <2>1, <3>1, <3>2 DEF Token
  <2> QED  BY <1>2, <2>2 DEF InOrder
<1>4. ASSUME ~lx'.full PROVE lx'.src \in Inputs /\ Eaten'
  BY <1>1, <1>4 DEF TakesInv, Eaten
<1> QED  BY <1>2, <1>3, <1>4

\* What the steps have to show.
Taken ==
    InOrder /\ (~lx.full => /\ lx.src \in Inputs
                            /\ Eaten
                            /\ pc \in TokenPcs => Takes(lx, pc, tok, client, todo))

LEMMA TakesInit ==
    ASSUME Init
    PROVE  TakesInv
<1>1. ReadInv  BY ReadInit
<1>2. PICK s \in Inputs, n \in ArenaSizes : lx = Fresh(s, n)  BY DEF Init
<1>3. lx.src \in Inputs  BY <1>2 DEF Fresh
<1>4. pc = "idle" /\ Len(tokens) = 0  BY DEF Init
<1>5. pc \notin TokenPcs  BY <1>4 DEF TokenPcs
<1> QED  BY <1>1, <1>3, <1>4, <1>5 DEF TakesInv, InOrder, Eaten

LEMMA TakesFacts ==
    ASSUME TakesInv
    PROVE  /\ Since(lx, 0) /\ Sound(lx) /\ lx.taken \in Nat /\ tok \in Tok /\ tok.from \in Nat
           /\ client \in Clients /\ todo \in Seq(Recognisers)
           /\ Ahead(lx) \in Byte
<1>1. Since(lx, 0) /\ Sound(lx)  BY ReadSince DEF TakesInv, Since
<1>2. lx.taken \in Nat /\ lx.src \in Seq(Byte)  BY <1>1 DEF Sound, LexRec
<1>3. Ahead(lx) \in Byte
  <2>1. lx.taken + 1 <= Len(lx.src) => lx.src[lx.taken + 1] \in Byte  BY <1>2
  <2> QED  BY <2>1, Bytes DEF Ahead, Shown
<1> QED  BY <1>1, <1>2, <1>3 DEF TakesInv, ReadInv, LexerInv, OtherTypes, Tok

\* White space does not end the input, nor a digit, nor what an identifier may have.
LEMMA Classes ==
    /\ Eof \notin WhitespaceChars /\ Etx \notin WhitespaceChars /\ Nul \notin WhitespaceChars
BY DEF Eof, Etx, Nul, WhitespaceChars

\* Eating: what next() shows and deque() takes is one byte.
LEMMA EatenReady ==
    ASSUME NEW l, Since(l, 0), l.it = l.start_it
    PROVE  ~Reject(Next(l)).full => Reject(Next(l)).it = Reject(Next(l)).start_it
<1> DEFINE n == Next(l)
           f == IF l.it # l.end_it THEN l ELSE Fetched(l)
           r == Reject(n)
<1>1. Sound(l) /\ Since(n, 1)  BY SinceNext DEF Since
<1>2. Sound(n) /\ n \in LexRec /\ l \in LexRec  BY <1>1 DEF Since, Sound
<1>3. n.it = Inc(l.it) /\ n.start_it = l.start_it
  <2>1. n = [f EXCEPT !.it = Inc(l.it)]  BY DEF Next
  <2>2. f \in LexRec /\ f.start_it = l.start_it
    <3>1. CASE l.it # l.end_it  BY <1>2, <3>1
    <3>2. CASE l.it = l.end_it  BY <1>1, <3>2, FetchedKeeps, FetchedFrames
    <3> QED  BY <3>1, <3>2
  <2> DEFINE inc == Inc(l.it)
  <2> HIDE DEF f, n, inc
  <2>3. n = [f EXCEPT !.it = inc]  BY <2>1 DEF inc
  <2>4. n.it = inc /\ n.start_it = f.start_it  BY <2>2, <2>3 DEF LexRec
  <2> QED  BY <2>2, <2>4 DEF inc
<1> HIDE DEF n
<1>4. SUFFICES ASSUME ~r.full PROVE r.it = r.start_it  BY DEF n, r
<1>5. r.full = n.full  BY <1>2, RejectMoves
<1>6. Staged(n) >= 1 /\ Staged(n) \in Nat  BY <1>1, <1>2, <1>4, <1>5, StagedTyped DEF Since
<1>7. n.start_it \in Positions /\ n.end_it \in Positions  BY <1>2 DEF LexRec
<1>8. ~IsEmpty(n)
  <2>1. n.start_it # n.end_it  BY <1>6, <1>7, DistanceTyped DEF Staged
  <2> QED  BY <2>1 DEF IsEmpty
<1>9. Inc(l.start_it) # l.start_it
  BY <1>3, <1>7, StagingAssumption DEF Inc, Positions
<1> DEFINE d == Dropped(n)
           column == IF DequeChar(n) = "\n" THEN 0 ELSE n.column + 1
           line_num == IF DequeChar(n) = "\n" THEN n.line_num + 1 ELSE n.line_num
           taken == n.taken + 1
<1>10. r = [d EXCEPT !.column = column, !.line_num = line_num, !.taken = taken]
  BY <1>8 DEF Reject
<1>11. d \in LexRec  BY <1>2, <1>8, DroppedKeeps
<1>12. d.it = Inc(l.start_it) /\ d.start_it = Inc(l.start_it)
  <2> DEFINE it == IF n.it = n.start_it THEN Inc(n.it) ELSE n.it
             start == Inc(n.start_it)
  <2>1. it = Inc(l.start_it) /\ start = Inc(l.start_it)  BY <1>3, <1>9
  <2>2. d = [n EXCEPT !.it = it, !.start_it = start]  BY DEF Dropped
  <2> HIDE DEF it, start, d
  <2>3. d.it = it /\ d.start_it = start  BY <1>2, <2>2 DEF LexRec
  <2> QED  BY <2>1, <2>3
<1> HIDE DEF d, r, column, line_num, taken
<1>13. r.it = d.it /\ r.start_it = d.start_it  BY <1>10, <1>11 DEF LexRec
<1> QED  BY <1>12, <1>13

LEMMA TakesBefore ==
    ASSUME TakesInv,
           CallAtEnd \/ Call \/ EatWhitespace \/ StopEating \/ OpenAtEnd \/ OpenInvalid
             \/ OpenWithoutRoom
    PROVE  Taken' /\ lx'.taken >= lx.taken /\ tokens' = tokens
<1>0. Since(lx, 0) /\ Sound(lx) /\ lx.taken \in Nat  BY TakesFacts
<1>1. ReadInv /\ StartsUndone  BY DEF TakesInv, ReadInv, LexerInv
<1>2. pc \notin TokenPcs
  BY DEF CallAtEnd, Call, EatWhitespace, StopEating, OpenAtEnd, OpenInvalid,
         OpenWithoutRoom, TokenPcs
<1>3. CASE CallAtEnd \/ Call
  <2>1. PICK p \in {"stop", "eat", "open"} :
          /\ pc = "idle" /\ lx' = Called /\ pc' = p /\ tokens' = tokens /\ client' = client
          /\ p = "open" => ~client.eat
    BY <1>3 DEF CallAtEnd, Call, Return, On, Goto
  <2>2. /\ Since(Called, 0) /\ Called.taken = lx.taken
        /\ Called.it = Called.start_it
    <3>1. lx.it = lx.start_it  BY <1>1, <2>1 DEF StartsUndone
    <3> QED  BY <1>0, <1>1, <3>1, CalledReads, CalledKeeps DEF Called
  <2> QED  BY <1>0, <1>2, <2>1, <2>2, TakeCall DEF Taken
<1>4. CASE EatWhitespace
  <2> DEFINE l == Reject(Next(lx))
  <2>1. /\ pc = "eat" /\ lx' = l /\ pc' = "eat" /\ tokens' = tokens /\ client' = client
    BY <1>4 DEF EatWhitespace, On, Goto
  <2>2. Since(l, 0) /\ l.taken = lx.taken + 1
    <3>1. Since(Next(lx), 0 + 1)  BY <1>0, SinceNext
    <3>2. Since(l, 0)  BY <3>1, SinceReject
    <3>3. l.taken = lx.taken + 1
      <4>1. Sound(Next(lx)) /\ Next(lx).taken = lx.taken  BY <1>0, TakenStays, NextKeeps
      <4> QED  BY <4>1, TakenGrows
    <3> QED  BY <3>2, <3>3
  <2>3. ~l.full => l.it = l.start_it
    <3>1. ASSUME ~l.full PROVE lx.it = lx.start_it
      BY <2>1, <2>2, <3>1 DEF TakesInv, Eaten, Since
    <3> QED  BY <1>0, <3>1, EatenReady
  <2>4. l.taken >= lx.taken  BY <1>0, <2>2
  <2> HIDE DEF l
  <2> QED  BY <1>2, <2>1, <2>2, <2>3, <2>4, TakeCall DEF Taken
<1>5. CASE StopEating
  <2>1. PICK l \in {Undo(lx), Undo(Next(lx))} :
          /\ pc = "eat" /\ lx' = l /\ pc' = "open" /\ tokens' = tokens /\ client' = client
          /\ IsEnd(lx) \/ NextChar(lx) \notin WhitespaceChars
    BY <1>5 DEF StopEating, On, Goto
  <2>2. Sound(Next(lx)) /\ Since(Next(lx), 0)
    <3>1. Since(Next(lx), 1)  BY <1>0, SinceNext
    <3> QED  BY <1>0, <3>1, FewerStaged, NextKeeps
  <2>3. Since(l, 0)  BY <1>0, <2>1, <2>2, SinceUndo
  <2>4. l.taken = lx.taken  BY <1>0, <2>1, <2>2, TakenStays
  <2>5. ASSUME ~l.full PROVE Ahead(l) \notin WhitespaceChars
    <3>1. ~lx.full /\ l.src = lx.src  BY <2>3, <2>5 DEF Since
    <3>2. lx.it = lx.start_it  BY <2>1, <3>1 DEF TakesInv, Eaten
    <3>3. NextChar(lx) = Ahead(lx)  BY <1>0, <3>1, <3>2, NextIsAhead
    <3>4. IsEnd(lx) => Ahead(lx) \notin WhitespaceChars
      <4>1. IsEnd(lx) => Ahead(lx) \in {Nul, Eof, Etx}
        BY <1>0, <3>1, EndIsShown DEF AtEnd, Ahead
      <4> QED  BY <4>1, Classes
    <3>5. Ahead(l) = Ahead(lx)  BY <2>4, <3>1 DEF Ahead
    <3> QED  BY <2>1, <3>3, <3>4, <3>5
  <2>6. l.taken >= lx.taken  BY <1>0, <2>4
  <2> QED  BY <1>2, <2>1, <2>3, <2>5, <2>6, TakeCall DEF Taken
<1>6. CASE OpenAtEnd \/ OpenInvalid \/ OpenWithoutRoom
  <2>1. PICK p \in {"stop", "idle"} :
          lx' = lx /\ pc' = p /\ tokens' = tokens /\ client' = client
    BY <1>6 DEF OpenAtEnd, OpenInvalid, OpenWithoutRoom, Return
  <2> QED  BY <1>0, <1>2, <2>1, TakeCall DEF Taken
<1> QED  BY <1>3, <1>4, <1>5, <1>6

\* A lexer that differs in what its arena has.
LEMMA SameAhead ==
    ASSUME NEW l, NEW m, m.src = l.src, m.taken = l.taken, m.it = l.it,
           m.start_it = l.start_it, m.end_it = l.end_it, m.buf = l.buf, m.off = l.off
    PROVE  /\ Ahead(m) = Ahead(l)
           /\ Ready(m) <=> Ready(l)
BY DEF Ahead, Ready, IsEnd, IsEmpty, HasByte, StreamByte

LEMMA TakesOpen ==
    ASSUME TakesInv, Open
    PROVE  Taken' /\ lx'.taken = lx.taken /\ tokens' = tokens
<1>0. Sound(lx) /\ lx \in LexRec /\ lx.taken \in Nat  BY TakesFacts DEF Sound
<1>1. PICK n \in Rooms \ {0} :
        /\ lx' = [lx EXCEPT !.text = <<>>, !.room = n, !.failed = FALSE,
                            !.arena = Accomodated(lx.arena, TokenSize, 0)]
        /\ tok' = [NoToken EXCEPT !.line_num = lx.line_num, !.column = lx.column,
                                  !.from = lx.taken]
        /\ pc = "open" /\ pc' = "logic" /\ todo' = client.tests /\ ~IsEnd(lx)
        /\ client' = client /\ tokens' = tokens
  BY DEF Open
<1> DEFINE arena == Accomodated(lx.arena, TokenSize, 0)
           l == [lx EXCEPT !.text = <<>>, !.room = n, !.failed = FALSE, !.arena = arena]
<1>2. /\ l.src = lx.src /\ l.full = lx.full /\ l.taken = lx.taken /\ l.it = lx.it
      /\ l.start_it = lx.start_it /\ l.end_it = lx.end_it /\ l.buf = lx.buf /\ l.off = lx.off
  <2> HIDE DEF arena
  <2> QED  BY <1>0 DEF LexRec
<1>3. lx' = l  BY <1>1
<1> HIDE DEF l
<1>4. tok'.from = lx.taken /\ tok'.dot_found = FALSE
  BY <1>1 DEF NoToken
<1>5. pc \notin TokenPcs /\ pc' \in TokenPcs /\ lx.it = lx.start_it
  BY <1>1 DEF TokenPcs, TakesInv, ReadInv, LexerInv, StartsUndone
<1>6. InOrder'
  <2>1. Len(tokens) > 0 => tokens[Len(tokens)].to <= lx.taken
    BY <1>5 DEF TakesInv, InOrder
  <2>2. lx'.taken = lx.taken  BY <1>2, <1>3
  <2> QED  BY <1>0, <1>1, <1>4, <1>5, <2>1, <2>2 DEF InOrder
<1>7. Ahead(l) = Ahead(lx) /\ Ready(l)
  <2>1. Ready(lx)  BY <1>1, <1>5 DEF Ready
  <2> QED  BY <1>2, <2>1, SameAhead
<1>8. ASSUME ~lx'.full PROVE lx'.src \in Inputs /\ Eaten' /\ Takes(lx', pc', tok', client', todo')
  <2>1. ~lx.full /\ lx'.src \in Inputs  BY <1>2, <1>3, <1>8 DEF TakesInv
  <2>2. Eaten'  BY <1>1 DEF Eaten
  <2>3. client.eat => Ahead(lx) \notin WhitespaceChars
    BY <1>1, <2>1 DEF TakesInv, Eaten
  <2>4. Takes(l, "logic", tok', client, client.tests)
    BY <1>4, <1>7, <2>3 DEF Takes
  <2> QED  BY <1>1, <1>3, <2>1, <2>2, <2>4
<1> QED  BY <1>1, <1>2, <1>3, <1>6, <1>8 DEF Taken

LEMMA TakesClose ==
    ASSUME TakesInv, CloseToken \/ CloseFailed
    PROVE  /\ Taken' /\ lx'.taken = lx.taken
           /\ CloseToken => tokens' = Append(tokens, Committed(Terminated))
                            /\ Committed(Terminated).from = tok.from
                            /\ Committed(Terminated).to = lx.taken
<1>0. Since(lx, 0) /\ Sound(lx) /\ lx \in LexRec /\ lx.taken \in Nat /\ tok.from \in Nat
  BY TakesFacts DEF Sound
<1> DEFINE t == Terminated
<1>1. t.src = lx.src /\ t.full = lx.full /\ t.taken = lx.taken /\ DOMAIN t = DOMAIN lx
  <2> DEFINE text == Append(lx.text, Nul)
             room == lx.room - 1
             arena == Accomodated(lx.arena, 1, TokenSize + Len(lx.text))
  <2>1. \/ t = [lx EXCEPT !.text = text, !.room = room, !.arena = arena]
        \/ t = [lx EXCEPT !.failed = TRUE]
    BY DEF Terminated, Added
  <2> HIDE DEF t, text, room, arena
  <2> QED  BY <1>0, <2>1 DEF LexRec
<1>2. pc = "close" /\ pc \in TokenPcs /\ pc' = "idle" /\ client' = client
  BY DEF CloseToken, CloseFailed, Return, TokenPcs
<1>3. pc' \notin TokenPcs /\ Eaten'  BY <1>2 DEF TokenPcs, Eaten
<1>4. CASE CloseToken
  <2> DEFINE size == t.arena.data_size + TokenSize + Len(t.text)
             c == [t EXCEPT !.text = <<>>, !.arena.data_size = size]
             u == Undo(c)
             new == Committed(t)
  <2>1. lx' = u /\ tokens' = Append(tokens, new)
    BY <1>4 DEF CloseToken, Return
  <2>2. new.from = tok.from /\ new.to = lx.taken
    <3> HIDE DEF t
    <3> QED  BY <1>1 DEF Committed
  <2>3. u.src = lx.src /\ u.full = lx.full /\ u.taken = lx.taken
    <3>0. c = [t EXCEPT !.text = <<>>, !.arena = [t.arena EXCEPT !.data_size = size]]
      BY <1>0, <1>1 DEF LexRec
    <3> HIDE DEF t, size, c
    <3>1. c.src = t.src /\ c.full = t.full /\ c.taken = t.taken /\ DOMAIN c = DOMAIN t
      BY <1>0, <1>1, <3>0 DEF LexRec
    <3>2. u.src = c.src /\ u.full = c.full /\ u.taken = c.taken
      BY <1>0, <1>1, <3>1 DEF LexRec, Undo
    <3> QED  BY <1>1, <3>1, <3>2
  <2> HIDE DEF u, new
  <2>4. tokens'[Len(tokens')] = new
    <3>1. tokens \in Seq(Token)  BY DEF TakesInv, ReadInv, LexerInv, OtherTypes
    <3> QED  BY <2>1, <3>1
  <2>5. InOrder'  BY <1>0, <1>3, <2>1, <2>2, <2>3, <2>4 DEF InOrder
  <2>6. ~lx'.full => lx'.src \in Inputs  BY <2>1, <2>3 DEF TakesInv
  <2>7. tokens' = Append(tokens, Committed(Terminated))
        /\ Committed(Terminated).from = tok.from /\ Committed(Terminated).to = lx.taken
    BY <2>1, <2>2 DEF new
  <2> QED  BY <1>3, <2>1, <2>3, <2>5, <2>6, <2>7 DEF Taken
<1>5. CASE CloseFailed
  <2> DEFINE w == WithError(t, {"OutOfMem"})
             c == [w EXCEPT !.text = <<>>, !.failed = FALSE,
                            !.line_num = tok.line_num, !.column = tok.column]
             u == Undo(c)
  <2>1. lx' = u /\ tokens' = tokens  BY <1>5 DEF CloseFailed, Return
  <2> HIDE DEF t
  <2>2. w.src = t.src /\ w.full = t.full /\ w.taken = t.taken /\ DOMAIN w = DOMAIN t
    BY <1>0, <1>1 DEF WithError, LexRec
  <2> HIDE DEF w
  <2>3. c.src = w.src /\ c.full = w.full /\ c.taken = w.taken /\ DOMAIN c = DOMAIN w
    BY <1>0, <1>1, <2>2 DEF LexRec
  <2> HIDE DEF c
  <2>4. u.src = c.src /\ u.full = c.full /\ u.taken = c.taken
    BY <1>0, <1>1, <2>2, <2>3 DEF LexRec, Undo
  <2> HIDE DEF u
  <2>5. lx'.src = lx.src /\ lx'.full = lx.full /\ lx'.taken = lx.taken
    BY <1>1, <2>1, <2>2, <2>3, <2>4
  <2>6. InOrder'
    <3>1. tok.from <= lx.taken
          /\ (Len(tokens) > 0 => tokens[Len(tokens)].to <= tok.from)
      BY <1>2 DEF TakesInv, InOrder
    <3>2. ASSUME Len(tokens) > 0 PROVE tokens[Len(tokens)].to <= lx.taken
      <4>1. tokens[Len(tokens)] \in Token
        BY <3>2 DEF TakesInv, ReadInv, LexerInv, OtherTypes
      <4> QED  BY <1>0, <3>1, <3>2, <4>1 DEF Token
    <3> QED  BY <1>3, <2>1, <2>5, <3>2 DEF InOrder
  <2>7. ~lx'.full => lx'.src \in Inputs  BY <2>5 DEF TakesInv
  <2>8. ~CloseToken
    BY <1>5 DEF CloseToken, CloseFailed
  <2> QED  BY <1>3, <2>5, <2>6, <2>7, <2>8 DEF Taken
<1> QED  BY <1>4, <1>5

-----------------------------------------------------------------------------
(* Steps inside a token, and that it takes a byte.                         *)

\* The first step of a token sees the byte that the lexer saw when it opened it.
LEMMA AtLogic ==
    ASSUME TakesInv, pc = "logic"
    PROVE  /\ pc \in TokenPcs /\ tok.from = lx.taken
           /\ ~lx.full => /\ Takes(lx, "logic", tok, client, todo)
                          /\ Ready(lx) /\ NextChar(lx) = Ahead(lx) /\ Ahead(lx) \notin {Eof, Nul}
<1>1. pc \in TokenPcs /\ tok.from = lx.taken  BY ReadLogic DEF TakesInv
<1>2. ASSUME ~lx.full
      PROVE  /\ Takes(lx, "logic", tok, client, todo)
             /\ Ready(lx) /\ NextChar(lx) = Ahead(lx) /\ Ahead(lx) \notin {Eof, Nul}
  <2>1. Takes(lx, "logic", tok, client, todo)  BY <1>1, <1>2 DEF TakesInv
  <2>2. Ready(lx)  BY <2>1 DEF Takes
  <2> QED  BY <1>2, <2>1, <2>2, TakesFacts, NextIsAhead, NotAtEnd DEF Ready
<1> QED  BY <1>1, <1>2

\* A predicate looks at one byte at least, and the first is the same after it.
LEMMA TestedReady ==
    ASSUME TakesInv, pc = "logic", NEW r
    PROVE  LET t == Tested(r) IN
           /\ Since(t, 1) /\ t.taken = lx.taken
           /\ ~t.full => ~lx.full /\ Ahead(t) = Ahead(lx) /\ Ready(t) /\ NextChar(t) = Ahead(lx)
<1> DEFINE t == Tested(r)
<1>1. Since(lx, 0) /\ Sound(lx)  BY TakesFacts
<1>2. Looked(r) \in {Next4(lx), Next6(lx), Next(lx)}  BY DEF Looked
<1>3. Since(Looked(r), 1)
  <2>1. Since(Next(lx), 1) /\ Since(Next4(lx), 4) /\ Since(Next6(lx), 6)  BY <1>1, SinceNext
  <2>2. Since(Next4(lx), 1) /\ Since(Next6(lx), 1)  BY <2>1, FewerStaged
  <2> QED  BY <1>2, <2>1, <2>2
<1>4. Since(t, 1)  BY <1>3, SinceUndo DEF Tested
<1>5. t.taken = lx.taken
  <2>1. Sound(Looked(r)) /\ Looked(r).taken = lx.taken  BY <1>1, <1>2, <1>3, TakenStays DEF Since
  <2> QED  BY <2>1, TakenStays DEF Tested
<1>6. t.it = t.start_it
  BY <1>3, UndoKeeps DEF Since, Tested
<1> HIDE DEF t
<1>7. ASSUME ~t.full
      PROVE  ~lx.full /\ Ahead(t) = Ahead(lx) /\ Ready(t) /\ NextChar(t) = Ahead(lx)
  <2>1. Sound(t) /\ ~lx.full /\ t.src = lx.src /\ Staged(t) >= 1  BY <1>4, <1>7 DEF Since
  <2>2. Ahead(t) = Ahead(lx)  BY <1>5, <2>1 DEF Ahead
  <2>3. Ahead(lx) \notin {Eof, Nul}  BY <2>1, AtLogic
  <2> QED  BY <1>6, <1>7, <2>1, <2>2, <2>3, NotAtEnd, NextIsAhead DEF Ready
<1> QED  BY <1>4, <1>5, <1>7 DEF t

LEMMA AskedTail ==
    ASSUME NEW s \in Seq(Recognisers), s # <<>>
    PROVE  Asked(s) = {Head(s)} \cup Asked(Tail(s))
<1>1. Len(s) \in Nat /\ Len(s) >= 1 /\ Len(Tail(s)) = Len(s) - 1  OBVIOUS
<1>2. \A i \in 1..(Len(s) - 1) : Tail(s)[i] = s[i + 1]  OBVIOUS
<1>3. Head(s) = s[1]  OBVIOUS
<1>4. \A i \in 1..Len(s) : i = 1 \/ i - 1 \in 1..(Len(s) - 1)  BY <1>1
<1>5. \A i \in 1..(Len(s) - 1) : i + 1 \in 1..Len(s)  BY <1>1
<1>6. ASSUME NEW r \in Asked(s) PROVE r \in {Head(s)} \cup Asked(Tail(s))
  <2>1. PICK i \in 1..Len(s) : r = s[i]  BY DEF Asked
  <2>2. CASE i = 1  BY <1>3, <2>1, <2>2
  <2>3. CASE i # 1
    <3>1. i - 1 \in 1..(Len(s) - 1) /\ (i - 1) + 1 = i  BY <1>4, <2>3
    <3>2. Tail(s)[i - 1] = r  BY <1>2, <2>1, <3>1
    <3> QED  BY <1>1, <3>1, <3>2 DEF Asked
  <2> QED  BY <2>2, <2>3
<1>7. Head(s) \in Asked(s)  BY <1>1, <1>3 DEF Asked
<1>8. ASSUME NEW r \in Asked(Tail(s)) PROVE r \in Asked(s)
  <2>1. PICK i \in 1..(Len(s) - 1) : r = Tail(s)[i]  BY <1>1 DEF Asked
  <2> QED  BY <1>2, <1>5, <2>1 DEF Asked
<1> QED  BY <1>6, <1>7, <1>8

LEMMA TakesTestFails ==
    ASSUME TakesInv, TestFails
    PROVE  Taken' /\ lx'.taken = lx.taken
<1> DEFINE r == Head(todo)
           l == Tested(r)
<1>1. /\ pc = "logic" /\ todo # <<>> /\ ~Is(r) /\ lx' = l /\ pc' = "logic" /\ tok' = tok
      /\ tokens' = tokens /\ client' = client /\ todo' = Tail(todo)
  BY DEF TestFails, Tested
<1>2. pc \in TokenPcs /\ tok.from = lx.taken /\ "logic" \in TokenPcs
  BY <1>1, AtLogic DEF TokenPcs
<1>3. /\ Since(l, 1) /\ l.taken = lx.taken
      /\ ~l.full => ~lx.full /\ Ahead(l) = Ahead(lx) /\ Ready(l)
  BY <1>1, TestedReady
<1>4. Since(l, 0)  BY <1>3, FewerStaged
<1> HIDE DEF l
<1>5. ASSUME ~l.full PROVE Takes(l, "logic", tok', client, todo')
  <2>1. Takes(lx, "logic", tok, client, todo) /\ NextChar(lx) = Ahead(lx)
    BY <1>1, <1>3, <1>5, AtLogic
  <2>2. r = "spaces" => Ahead(lx) \notin WhitespaceChars
    BY <1>1, <2>1 DEF Is
  <2>3. r = "punctuator" => Ahead(lx) \notin PunctuatorChars
    BY <1>1, <2>1 DEF Is
  <2>4. Asked(todo) = {r} \cup Asked(todo')  BY <1>1, TakesFacts, AskedTail
  <2> HIDE DEF r
  <2> QED  BY <1>1, <1>3, <1>5, <2>1, <2>2, <2>3, <2>4 DEF Takes
<1>6. lx.taken \in Nat  BY TakesFacts
<1> QED  BY <1>1, <1>2, <1>3, <1>4, <1>5, <1>6, TakeStep DEF Taken, SamePlace

LEMMA TakesStart ==
    ASSUME AsksForAll, TakesInv,
           StartIdentifier \/ StartComment \/ StartString \/ StartNumber \/ StartSpaces
    PROVE  Taken' /\ lx'.taken >= lx.taken
<1>1. pc = "logic"
  BY DEF StartIdentifier, StartComment, StartString, StartNumber, StartSpaces, Chosen
<1>2. /\ pc \in TokenPcs /\ tok.from = lx.taken /\ lx.taken \in Nat /\ tok \in Tok
      /\ ReadInv /\ Since(lx, 0)
  BY <1>1, AtLogic, TakesFacts DEF TakesInv
<1>3. /\ "identifier" \in TokenPcs /\ "comment" \in TokenPcs /\ "string" \in TokenPcs
      /\ "digits" \in TokenPcs /\ "spaces" \in TokenPcs
  BY DEF TokenPcs
<1>4. CASE StartIdentifier
  <2>1. /\ lx' = lx /\ pc' = "identifier" /\ tokens' = tokens /\ client' = client
        /\ SamePlace /\ todo = <<>>
    BY <1>2, <1>4, KindSet DEF StartIdentifier, Goto
  <2>2. ASSUME ~lx.full PROVE Takes(lx, "identifier", tok', client, todo')
    <3>1. Takes(lx, "logic", tok, client, todo)  BY <1>1, <2>2, AtLogic
    <3>2. Asked(todo) = {}  BY <2>1 DEF Asked
    <3>3. /\ "punctuator" \in Asked(client.tests)
          /\ client.eat \/ "spaces" \in Asked(client.tests)
      BY TakesFacts DEF AsksForAll
    <3>4. Ahead(lx) \notin WhitespaceChars \cup PunctuatorChars /\ Ready(lx)
      BY <3>1, <3>2, <3>3 DEF Takes
    <3>5. Ahead(lx) \in Byte  BY TakesFacts
    <3> QED  BY <1>2, <2>1, <3>4, <3>5 DEF Takes, SamePlace
  <2> QED  BY <1>2, <1>3, <2>1, <2>2, TakeStep DEF Taken
<1>5. CASE StartComment
  <2> DEFINE t == Tested("comment")
             l == Reject4(t)
  <2>1. /\ lx' = l /\ pc' = "comment" /\ tokens' = tokens /\ client' = client /\ SamePlace
    BY <1>2, <1>5, KindSet DEF StartComment, Goto
  <2>2. Since(l, 0)
    <3>1. Since(Next4(lx), 4)  BY <1>2, SinceNext
    <3>2. Since(t, 0 + 4)  BY <3>1, SinceUndo DEF Tested, Looked
    <3> HIDE DEF t
    <3> QED  BY <3>2, SinceRejects
  <2>3. l.taken = lx.taken + 4
    <3>1. Sound(t) /\ t.taken = lx.taken  BY <1>1, TestedReady DEF Since
    <3> QED  BY <3>1, TakenGrows
  <2> HIDE DEF l
  <2>4. Takes(l, "comment", tok', client, todo') /\ l.taken >= lx.taken
    BY <1>2, <2>1, <2>3 DEF Takes, Past, SamePlace
  <2> QED  BY <1>2, <1>3, <2>1, <2>2, <2>4, TakeStep DEF Taken
<1>6. CASE StartString
  <2> DEFINE t == Tested("string")
             l == Reject(Next(t))
  <2>1. /\ lx' = l /\ pc' = "string" /\ tokens' = tokens /\ client' = client /\ SamePlace
    BY <1>2, <1>6 DEF StartString, Goto, Tok, SamePlace
  <2>2. Since(t, 1) /\ Sound(t) /\ t.taken = lx.taken  BY <1>1, TestedReady DEF Since
  <2> HIDE DEF t
  <2>3. Since(l, 0)
    <3>1. Since(t, 0)  BY <2>2, FewerStaged
    <3>2. Since(Next(t), 0 + 1)  BY <3>1, SinceNext
    <3> QED  BY <3>2, SinceReject
  <2>4. l.taken = lx.taken + 1
    <3>1. Sound(Next(t)) /\ Next(t).taken = lx.taken  BY <2>2, TakenStays, NextKeeps
    <3> QED  BY <3>1, TakenGrows
  <2> HIDE DEF l
  <2>5. Takes(l, "string", tok', client, todo') /\ l.taken >= lx.taken
    BY <1>2, <2>1, <2>4 DEF Takes, Past, SamePlace
  <2> QED  BY <1>2, <1>3, <2>1, <2>3, <2>5, TakeStep DEF Taken
<1>7. CASE StartNumber
  <2> DEFINE t == Tested("number")
  <2>1. PICK m \in {Accept2(Next2(t)), Accept(Next2(t)), Next2(t)}, hex \in BOOLEAN :
          /\ Goto(Undo(m), "digits") /\ Is("number")
          /\ tok' = [tok EXCEPT !.kind = "integer", !.is_hex = hex]
    BY <1>7 DEF StartNumber, Chosen
  <2>2. /\ Since(t, 1) /\ Sound(t) /\ t.taken = lx.taken
        /\ ~t.full => ~lx.full
    BY <1>1, TestedReady DEF Since
  <2> HIDE DEF t
  <2>3. Since(Next2(t), 2) /\ Sound(Next2(t)) /\ Next2(t).taken = lx.taken
    <3>1. Since(t, 0)  BY <2>2, FewerStaged
    <3>2. Since(Next2(t), 2)  BY <3>1, SinceNext
    <3> QED  BY <2>2, <3>2, TakenStays DEF Since
  <2> DEFINE l == Undo(m)
  <2>4. Since(m, 0) /\ (m = Next2(t) => Since(m, 1))
        /\ (m.taken = lx.taken => m = Next2(t)) /\ m.taken >= lx.taken
    <3>1. Since(Next2(t), 0 + 1) /\ Since(Next2(t), 0)  BY <2>3, FewerStaged
    <3>2. Since(Accept(Next2(t)), 0)  BY <3>1, SinceAccept
    <3>3. Since(Accept2(Next2(t)), 0)
      <4>1. Since(Next2(t), 1 + 1)  BY <2>3
      <4>2. Since(Accept(Next2(t)), 0 + 1)  BY <4>1, SinceAccept
      <4> QED  BY <4>2, SinceAccept DEF Accept2
    <3>4. Accept(Next2(t)).taken = lx.taken + 1 /\ Accept2(Next2(t)).taken = lx.taken + 2
      BY <2>3, TakenGrows
    <3>5. CASE m = Next2(t)  BY <1>2, <2>3, <3>1, <3>5
    <3>6. CASE m = Accept(Next2(t))  BY <1>2, <2>3, <3>2, <3>4, <3>6
    <3>7. CASE m = Accept2(Next2(t))  BY <1>2, <2>3, <3>3, <3>4, <3>7
    <3> QED  BY <2>1, <3>5, <3>6, <3>7
  <2>5. Since(l, 0) /\ (m = Next2(t) => Since(l, 1)) /\ l.taken = m.taken /\ l.it = l.start_it
    <3>1. Sound(m)  BY <2>4 DEF Since
    <3> QED  BY <2>4, <3>1, SinceUndo, TakenStays, UndoKeeps
  <2>6. lx' = l /\ pc' = "digits" /\ tokens' = tokens /\ client' = client
    BY <2>1 DEF Goto
  <2>7. SamePlace /\ tok'.dot_found = tok.dot_found  BY <1>2, <2>1 DEF Tok, SamePlace
  <2> HIDE DEF l
  <2>8. ASSUME ~l.full PROVE Takes(l, "digits", tok', client, todo')
    <3>1. CASE m = Next2(t)
      <4>1. Sound(l) /\ Staged(l) >= 1 /\ l.taken = lx.taken /\ l.src = lx.src /\ ~lx.full
        BY <2>3, <2>5, <2>8, <3>1 DEF Since
      <4>2. Ahead(l) = Ahead(lx)  BY <4>1 DEF Ahead
      <4>3. /\ Takes(lx, "logic", tok, client, todo) /\ NextChar(lx) = Ahead(lx)
            /\ Ahead(lx) \notin {Eof, Nul}
        BY <1>1, <4>1, AtLogic
      <4>4. Ahead(lx) \in Digits \cup {"."}  BY <2>1, <4>3 DEF Is
      <4>5. Ready(l)  BY <2>5, <2>8, <4>1, <4>2, <4>3, NotAtEnd DEF Ready
      <4> QED  BY <1>2, <2>7, <4>1, <4>2, <4>3, <4>4, <4>5 DEF Takes, SamePlace
    <3>2. CASE m # Next2(t)
      <4>1. Sound(m) /\ m.taken \in Nat  BY <2>4 DEF Since, Sound, LexRec
      <4>2. l.taken > lx.taken  BY <1>2, <2>4, <2>5, <3>2, <4>1
      <4> QED  BY <1>2, <2>7, <4>2 DEF Takes, Past, SamePlace
    <3> QED  BY <3>1, <3>2
  <2> QED  BY <1>2, <1>3, <2>4, <2>5, <2>6, <2>7, <2>8, TakeStep DEF Taken
<1>8. CASE StartSpaces
  <2> DEFINE l == Tested("spaces")
  <2>1. /\ lx' = l /\ pc' = "spaces" /\ tokens' = tokens /\ client' = client
        /\ SamePlace /\ Is("spaces")
    BY <1>2, <1>8, KindSet DEF StartSpaces, Goto, Chosen
  <2>2. /\ Since(l, 1) /\ l.taken = lx.taken
        /\ ~l.full => ~lx.full /\ Ahead(l) = Ahead(lx) /\ Ready(l)
    BY <1>1, TestedReady
  <2> HIDE DEF l
  <2>3. Since(l, 0)  BY <2>2, FewerStaged
  <2>4. ASSUME ~l.full PROVE Takes(l, "spaces", tok', client, todo')
    <3>1. NextChar(lx) = Ahead(lx)  BY <1>1, <2>2, <2>4, AtLogic
    <3>2. Ahead(lx) \in WhitespaceChars  BY <2>1, <3>1 DEF Is
    <3> QED  BY <1>2, <2>1, <2>2, <2>4, <3>2 DEF Takes, SamePlace
  <2> QED  BY <1>2, <1>3, <2>1, <2>2, <2>3, <2>4, TakeStep DEF Taken
<1> QED  BY <1>4, <1>5, <1>6, <1>7, <1>8

LEMMA TakesLexEscape ==
    ASSUME TakesInv, LexEscape
    PROVE  Taken' /\ lx'.taken >= lx.taken
<1> DEFINE t == Tested("escape")
           s == Next6(t)
           r == Reject4(s)
<1>1. PICK e \in EscapesAt(Seen(t, Next6(t), 6)) :
        Goto(Emit(CASE Len(e) = 4 -> r
                    [] Len(e) = 5 -> Reject(r)
                    [] Len(e) = 6 -> Reject2(r), EscapedChar(e)),
             "close")
  BY DEF LexEscape
<1>2. pc = "logic" /\ SamePlace
  BY KindSet DEF LexEscape, Chosen, TakesInv
<1>3. Len(e) \in {4, 5, 6}  BY EscapeLengths DEF EscapesAt
<1>4. /\ pc \in TokenPcs /\ tok.from = lx.taken /\ lx.taken \in Nat /\ "close" \in TokenPcs
  BY <1>2, AtLogic, TakesFacts DEF TokenPcs
<1>5. Since(t, 0) /\ Sound(t) /\ t.taken = lx.taken
  BY <1>2, TestedReady, FewerStaged DEF Since
<1> HIDE DEF t
<1>6. Since(s, 6) /\ Sound(s) /\ s.taken = lx.taken
  BY <1>5, SinceNext, TakenStays DEF Since
<1> HIDE DEF s
<1>7. Since(r, 2) /\ Sound(r) /\ r.taken = lx.taken + 4
  <2>1. Since(s, 2 + 4)  BY <1>6
  <2>2. Since(r, 2)  BY <2>1, SinceRejects
  <2> QED  BY <1>6, <2>2, TakenGrows DEF Since
<1> HIDE DEF r
<1>8. PICK m \in {r, Reject(r), Reject2(r)} : Goto(Emit(m, EscapedChar(e)), "close")
  BY <1>1, <1>3
<1>9. Since(m, 0) /\ m.taken > lx.taken
  <2>1. Since(r, 0) /\ Since(r, 0 + 1) /\ Since(r, 0 + 2)  BY <1>7, FewerStaged
  <2>2. Since(m, 0)  BY <2>1, SinceReject, SinceRejects
  <2>3. Reject(r).taken = r.taken + 1 /\ Reject2(r).taken = r.taken + 2
    BY <1>7, TakenGrows
  <2> QED  BY <1>4, <1>7, <2>2, <2>3
<1> DEFINE l == Emit(m, EscapedChar(e))
<1>10. Since(l, 0) /\ l.taken = m.taken
  <2>1. EscapedChar(e) \in Byte  BY EscapedCharTyped
  <2> QED  BY <1>9, <2>1, SinceEmit, TakenStays DEF Since
<1>11. lx' = l /\ pc' = "close" /\ tokens' = tokens /\ client' = client  BY <1>8 DEF Goto
<1> HIDE DEF l
<1>12. l.taken > lx.taken /\ l.taken \in Nat
  BY <1>9, <1>10 DEF Since, Sound, LexRec
<1>13. Takes(l, "close", tok', client, todo') /\ l.taken >= lx.taken
  BY <1>2, <1>4, <1>12 DEF Takes, Past, SamePlace
<1> QED  BY <1>2, <1>4, <1>10, <1>11, <1>13, TakeStep DEF Taken

\* A punctuator that is known has a length.
LEMMA TakesLexPunctuator ==
    ASSUME KnownPunctuators, TakesInv, LexPunctuator
    PROVE  Taken' /\ lx'.taken >= lx.taken
<1> DEFINE l == Tested("punctuator")
           t == Next3(l)
           c == Seen(l, t, 3)
           n == PunctuatorLength(c)
<1>1. /\ pc = "logic" /\ Is("punctuator")
      /\ Goto(CASE n = 0 -> t
                [] n = 1 -> Accept(t)
                [] n = 2 -> Accept2(t)
                [] n = 3 -> Accept3(t), "close")
      /\ SamePlace
  BY KindSet DEF LexPunctuator, Chosen, TakesInv
<1>2. n \in {0, 1, 2, 3} /\ (n = 0 => c[1] \notin Punctuators1)
  BY DEF PunctuatorLength
<1>3. /\ pc \in TokenPcs /\ tok.from = lx.taken /\ lx.taken \in Nat /\ "close" \in TokenPcs
  BY <1>1, AtLogic, TakesFacts DEF TokenPcs
<1>4. /\ Since(l, 1) /\ Sound(l) /\ l.taken = lx.taken /\ Since(l, 0)
      /\ ~l.full => ~lx.full /\ Ready(l) /\ Ahead(l) = Ahead(lx)
  BY <1>1, TestedReady, FewerStaged DEF Since
<1>5. c[1] = t.buf[Index(l.it, 0)]
  <2>1. 1 \in 1..3 /\ 1 - 1 = 0  OBVIOUS
  <2> QED  BY <2>1 DEF Seen
<1> HIDE DEF l
<1>6. Since(t, 3) /\ Sound(t) /\ t.taken = lx.taken
  BY <1>4, SinceNext, TakenStays DEF Since
<1>7. t.start_it = l.start_it /\ (~t.full => ~l.full)
  <2>1. ASSUME NEW m, Sound(m)
        PROVE  Sound(Next(m)) /\ Next(m).start_it = m.start_it /\ (~Next(m).full => ~m.full)
    <3> DEFINE f == IF m.it # m.end_it THEN m ELSE Fetched(m)
               inc == Inc(m.it)
    <3>1. Sound(Next(m)) /\ (~Next(m).full => ~m.full)
      BY <2>1, NextKeeps, NextFrames DEF Frame
    <3>2. f \in LexRec /\ f.start_it = m.start_it
      <4>1. m \in LexRec  BY <2>1 DEF Sound
      <4>2. CASE m.it # m.end_it  BY <4>1, <4>2
      <4>3. CASE m.it = m.end_it  BY <2>1, <4>3, FetchedKeeps, FetchedFrames
      <4> QED  BY <4>2, <4>3
    <3>3. Next(m) = [f EXCEPT !.it = inc]  BY DEF Next
    <3> HIDE DEF f, inc
    <3>4. Next(m).start_it = f.start_it  BY <3>2, <3>3 DEF LexRec
    <3> QED  BY <3>1, <3>2, <3>4
  <2>2. Sound(Next(l)) /\ Next(l).start_it = l.start_it /\ (~Next(l).full => ~l.full)
    BY <1>4, <2>1
  <2>3. /\ Sound(Next(Next(l))) /\ Next(Next(l)).start_it = l.start_it
        /\ ~Next(Next(l)).full => ~l.full
    BY <2>1, <2>2
  <2> QED  BY <2>1, <2>3 DEF Next3, Next2
<1> HIDE DEF t, c
<1>8. ASSUME ~t.full PROVE n # 0
  <2>1. ~lx.full /\ t.src = lx.src /\ Staged(t) >= 3 /\ Staged(t) \in Nat
    BY <1>6, <1>8, StagedTyped DEF Since
  <2>2. l.it = l.start_it  BY <1>4, <1>7, <1>8 DEF Ready
  <2>3. t.start_it \in Positions /\ InStep(t)  BY <1>6, <1>8 DEF Sound, LexRec
  <2>4. t.buf[Index(t.start_it, 1 - 1)] = Ahead(lx)
    <3>1. 1 \in 1..Staged(t)  BY <2>1
    <3> QED  BY <1>6, <2>1, <2>3, <3>1 DEF InStep, StagedBytes, Ahead
  <2>5. c[1] = Ahead(lx)  BY <1>5, <1>7, <2>2, <2>4
  <2>6. Ahead(lx) \in PunctuatorChars
    <3>1. NextChar(lx) = Ahead(lx)  BY <1>1, <2>1, AtLogic
    <3> QED  BY <1>1, <3>1 DEF Is
  <2>7. Ahead(lx) \notin {"#", "$", "DEL"}
    <3>1. lx.src \in Inputs /\ Ahead(lx) # Nul
      BY <1>1, <2>1, AtLogic DEF TakesInv
    <3>2. lx.taken + 1 <= Len(lx.src) /\ Ahead(lx) = lx.src[lx.taken + 1]
      BY <3>1 DEF Ahead, Shown
    <3>3. lx.taken + 1 \in 1..Len(lx.src)
      <4>1. lx.src \in Seq(Byte)  BY <3>1, LexerAssumption
      <4> QED  BY <1>3, <3>2, <4>1
    <3> QED  BY <3>1, <3>2, <3>3 DEF KnownPunctuators
  <2>8. c[1] \in Punctuators1  BY <2>5, <2>6, <2>7 DEF Punctuators1
  <2> QED  BY <1>2, <2>8
<1> HIDE DEF n
<1>9. PICK m \in {t, Accept(t), Accept2(t), Accept3(t)} :
        Goto(m, "close") /\ (n # 0 => m \in {Accept(t), Accept2(t), Accept3(t)})
  <2>1. CASE n = 0  BY <1>1, <2>1
  <2>2. CASE n = 1  BY <1>1, <2>2
  <2>3. CASE n = 2  BY <1>1, <2>3
  <2>4. CASE n = 3  BY <1>1, <2>4
  <2> QED  BY <1>2, <2>1, <2>2, <2>3, <2>4
<1>10. Since(m, 0)
  <2>1. Since(t, 0)  BY <1>6, FewerStaged
  <2>2. Since(Accept(t), 1 + 1)
    <3>1. Since(t, 2 + 1)  BY <1>6
    <3> QED  BY <3>1, SinceAccept
  <2>3. Since(Accept2(t), 0 + 1)  BY <2>2, SinceAccept DEF Accept2
  <2>4. Since(Accept3(t), 0)  BY <2>3, SinceAccept DEF Accept3
  <2>5. Since(Accept(t), 0) /\ Since(Accept2(t), 0)  BY <2>2, <2>3, FewerStaged
  <2> QED  BY <2>1, <2>4, <2>5
<1>11. m.taken >= lx.taken /\ (n # 0 => m.taken > lx.taken)
  BY <1>3, <1>6, <1>9, TakenGrows
<1>12. m.full = t.full
  <2>1. ASSUME NEW k, Sound(k) PROVE Sound(Accept(k)) /\ Accept(k).full = k.full
    <3>1. Sound(Reject(k)) /\ Reject(k).full = k.full /\ DequeChar(k) \in Byte
      BY <2>1, RejectKeeps, RejectMoves, NextCharTyped
    <3> QED  BY <2>1, <3>1, AcceptKeeps, EmitMoves DEF Accept
  <2>2. Sound(Accept(t)) /\ Accept(t).full = t.full  BY <1>6, <2>1
  <2>3. Sound(Accept2(t)) /\ Accept2(t).full = t.full  BY <2>1, <2>2 DEF Accept2
  <2>4. Accept3(t).full = t.full  BY <2>1, <2>3 DEF Accept3
  <2> QED  BY <2>2, <2>3, <2>4
<1>13. lx' = m /\ pc' = "close" /\ tokens' = tokens /\ client' = client  BY <1>9 DEF Goto
<1>14. ~m.full => Takes(m, "close", tok', client, todo')
  BY <1>1, <1>3, <1>8, <1>11, <1>12 DEF Takes, Past, SamePlace
<1> QED  BY <1>1, <1>3, <1>10, <1>11, <1>13, <1>14, TakeStep DEF Taken

\* What the loops leave, and how many bytes each turn takes.
LEMMA Turns ==
    ASSUME TakesInv
    PROVE  /\ \A m \in {lx, Next(lx), Undo(lx), Undo(Next(lx))} :
                 Since(m, 0) /\ m.taken = lx.taken
           /\ \A m \in {Accept(Next(lx)), Accept(Next2(lx)), Accept2(Next2(lx)),
                        Accept3(Next3(lx)), Reject(Next(lx)), Reject(Next2(lx)),
                        Reject2(Next2(lx)), Reject3(Next3(lx))} :
                 Since(m, 0) /\ m.taken > lx.taken
<1>0. Since(lx, 0) /\ Sound(lx) /\ lx.taken \in Nat  BY TakesFacts
<1>1. /\ Since(Next(lx), 0 + 1) /\ Since(Next2(lx), 0 + 2) /\ Since(Next3(lx), 0 + 3)
  BY <1>0, SinceNext
<1>2. /\ Since(Next(lx), 0) /\ Since(Next2(lx), 0 + 1) /\ Since(Next2(lx), 1 + 1)
      /\ Since(Next3(lx), 2 + 1)
  BY <1>1, FewerStaged
<1>3. /\ Next(lx).taken = lx.taken /\ Next2(lx).taken = lx.taken /\ Next3(lx).taken = lx.taken
      /\ Sound(Next(lx)) /\ Sound(Next2(lx)) /\ Sound(Next3(lx))
  BY <1>0, <1>1, TakenStays DEF Since
<1>4. \A m \in {lx, Next(lx), Undo(lx), Undo(Next(lx))} : Since(m, 0) /\ m.taken = lx.taken
  BY <1>0, <1>2, <1>3, SinceUndo, TakenStays
<1>5. /\ Since(Accept(Next(lx)), 0) /\ Since(Accept(Next2(lx)), 0)
      /\ Since(Accept2(Next2(lx)), 0) /\ Since(Accept3(Next3(lx)), 0)
  <2>1. Since(Accept(Next2(lx)), 0 + 1)
    <3>1. Since(Accept(Next2(lx)), 1)  BY <1>2, SinceAccept
    <3> QED  BY <3>1
  <2>2. Since(Accept2(Next2(lx)), 0)  BY <2>1, SinceAccept DEF Accept2
  <2>3. Since(Accept(Next3(lx)), 1 + 1)
    <3>1. Since(Accept(Next3(lx)), 2)  BY <1>2, SinceAccept
    <3> QED  BY <3>1
  <2>4. Since(Accept2(Next3(lx)), 0 + 1)
    <3>1. Since(Accept2(Next3(lx)), 1)  BY <2>3, SinceAccept DEF Accept2
    <3> QED  BY <3>1
  <2>5. Since(Accept3(Next3(lx)), 0)  BY <2>4, SinceAccept DEF Accept3
  <2>6. Since(Accept(Next(lx)), 0) /\ Since(Accept(Next2(lx)), 0)
    BY <1>1, <1>2, SinceAccept
  <2> QED  BY <2>2, <2>5, <2>6
<1>6. /\ Since(Reject(Next(lx)), 0) /\ Since(Reject(Next2(lx)), 0)
      /\ Since(Reject2(Next2(lx)), 0) /\ Since(Reject3(Next3(lx)), 0)
  BY <1>1, <1>2, SinceReject, SinceRejects
<1>7. /\ Accept(Next(lx)).taken = lx.taken + 1 /\ Accept(Next2(lx)).taken = lx.taken + 1
      /\ Accept2(Next2(lx)).taken = lx.taken + 2 /\ Accept3(Next3(lx)).taken = lx.taken + 3
      /\ Reject(Next(lx)).taken = lx.taken + 1 /\ Reject(Next2(lx)).taken = lx.taken + 1
      /\ Reject2(Next2(lx)).taken = lx.taken + 2 /\ Reject3(Next3(lx)).taken = lx.taken + 3
  BY <1>3, TakenGrows
<1>8. lx.taken + 1 > lx.taken /\ lx.taken + 2 > lx.taken /\ lx.taken + 3 > lx.taken  BY <1>0
<1> QED  BY <1>4, <1>5, <1>6, <1>7, <1>8

\* A turn that takes a byte: the token is not empty after it.
LEMMA TakingTurn ==
    ASSUME TakesInv, pc \in TokenPcs, NEW m, NEW p \in TokenPcs \ {"logic"},
           lx' = m, pc' = p, tokens' = tokens, client' = client, SamePlace,
           Since(m, 0), m.taken > lx.taken
    PROVE  Taken' /\ lx'.taken >= lx.taken
<1>1. lx.taken \in Nat /\ tok.from \in Nat /\ m.taken \in Nat
  BY TakesFacts DEF Since, Sound, LexRec
<1>2. tok'.from < m.taken  BY <1>1 DEF TakesInv, InOrder, SamePlace
<1>3. Takes(m, p, tok', client, todo')  BY <1>2 DEF Takes, Past
<1>4. m.taken >= lx.taken  BY <1>1
<1> QED  BY <1>3, <1>4, TakeStep DEF Taken

\* A turn that takes none, of a token that is not empty when there is no overflow.
LEMMA EndingTurn ==
    ASSUME TakesInv, pc \in TokenPcs, NEW m, NEW p \in TokenPcs \ {"logic"},
           lx' = m, pc' = p, tokens' = tokens, client' = client, SamePlace,
           Since(m, 0), m.taken = lx.taken, ~lx.full => Past(lx, tok)
    PROVE  Taken' /\ lx'.taken >= lx.taken
<1>1. lx.taken \in Nat  BY TakesFacts
<1>2. ~m.full => Takes(m, p, tok', client, todo')  BY DEF Since, Takes, Past, SamePlace
<1>3. m.taken >= lx.taken  BY <1>1
<1> QED  BY <1>2, <1>3, TakeStep DEF Taken

\* Where no byte is taken yet, next() shows the first.
LEMMA FirstAhead ==
    ASSUME TakesInv, ~lx.full, Ready(lx)
    PROVE  NextChar(lx) = Ahead(lx)
BY TakesFacts, NextIsAhead DEF Ready

LEMMA TakesIdentifier ==
    ASSUME TakesInv, IdentifierStep \/ IdentifierEnd \/ SpacesStep \/ SpacesEnd
    PROVE  Taken' /\ lx'.taken >= lx.taken
<1>1. pc \in TokenPcs /\ "close" \in TokenPcs \ {"logic"}
      /\ "identifier" \in TokenPcs \ {"logic"} /\ "spaces" \in TokenPcs \ {"logic"}
  BY DEF IdentifierStep, IdentifierEnd, SpacesStep, SpacesEnd, TokenPcs
<1>2. CASE IdentifierStep \/ SpacesStep
  <2>1. PICK p \in {"identifier", "spaces"} : On(Accept(Next(lx)), p)
    BY <1>2 DEF IdentifierStep, SpacesStep
  <2> QED  BY <1>1, <2>1, Turns, TakingTurn DEF On, Goto, SamePlace
<1>3. CASE IdentifierEnd
  <2>1. PICK m \in {lx, Next(lx)} :
          /\ On(m, "close") /\ pc = "identifier"
          /\ IsEnd(lx) \/ NextChar(lx) \in WhitespaceChars \cup PunctuatorChars
    BY <1>3 DEF IdentifierEnd
  <2>2. ASSUME ~lx.full PROVE Past(lx, tok)
    <3>1. Takes(lx, pc, tok, client, todo)  BY <1>1, <2>2 DEF TakesInv
    <3>2. Past(lx, tok)
          \/ (Ready(lx) /\ Ahead(lx) \notin WhitespaceChars \cup PunctuatorChars)
      BY <2>1, <3>1 DEF Takes
    <3>3. Ready(lx) => ~IsEnd(lx) /\ NextChar(lx) = Ahead(lx)  BY <2>2, FirstAhead DEF Ready
    <3> QED  BY <2>1, <3>2, <3>3
  <2> QED  BY <1>1, <2>1, <2>2, Turns, EndingTurn DEF On, Goto, SamePlace
<1>4. CASE SpacesEnd
  <2>1. PICK m \in {lx, Next(lx)} :
          /\ On(m, "close") /\ pc = "spaces"
          /\ IsEnd(lx) \/ NextChar(lx) \notin WhitespaceChars
    BY <1>4 DEF SpacesEnd
  <2>2. ASSUME ~lx.full PROVE Past(lx, tok)
    <3>1. Takes(lx, pc, tok, client, todo)  BY <1>1, <2>2 DEF TakesInv
    <3>2. Past(lx, tok) \/ (Ready(lx) /\ Ahead(lx) \in WhitespaceChars)
      BY <2>1, <3>1 DEF Takes
    <3>3. Ready(lx) => ~IsEnd(lx) /\ NextChar(lx) = Ahead(lx)  BY <2>2, FirstAhead DEF Ready
    <3> QED  BY <2>1, <3>2, <3>3
  <2> QED  BY <1>1, <2>1, <2>2, Turns, EndingTurn DEF On, Goto, SamePlace
<1> QED  BY <1>2, <1>3, <1>4

LEMMA TakesComment ==
    ASSUME TakesInv, CommentStep \/ CommentCut
    PROVE  Taken' /\ lx'.taken >= lx.taken
<1>1. pc = "comment" /\ pc \in TokenPcs /\ "comment" \in TokenPcs \ {"logic"}
      /\ "close" \in TokenPcs \ {"logic"}
  BY DEF CommentStep, CommentCut, TokenPcs
<1>2. CASE CommentStep
  <2> DEFINE c == Seen(lx, Next3(lx), 3)
  <2>1. c[1] = "-" /\ c[2] = "-" /\ c[3] = ">" => c = <<"-", "-", ">">>
    BY DEF Seen
  <2> HIDE DEF c
  <2>2. PICK m \in {Accept(Next(lx)), Accept2(Next2(lx)), Accept3(Next3(lx)),
                    Reject3(Next3(lx))},
             p \in {"comment", "close"} : On(m, p)
    <3>1. CASE c[1] # "-"  BY <1>2, <3>1 DEF CommentStep, c
    <3>2. CASE c[1] = "-" /\ c[2] # "-"  BY <1>2, <3>2 DEF CommentStep, c
    <3>3. CASE c[1] = "-" /\ c[2] = "-" /\ c[3] # ">"  BY <1>2, <3>3 DEF CommentStep, c
    <3>4. CASE c[1] = "-" /\ c[2] = "-" /\ c[3] = ">"
      BY <1>2, <2>1, <3>4 DEF CommentStep, c
    <3> QED  BY <3>1, <3>2, <3>3, <3>4
  <2>3. Since(m, 0) /\ m.taken > lx.taken  BY <2>2, Turns
  <2> QED  BY <1>1, <2>2, <2>3, TakingTurn DEF On, Goto, SamePlace
<1>3. CASE CommentCut
  <2>1. On(lx, "close")  BY <1>3 DEF CommentCut
  <2>2. ~lx.full => Past(lx, tok)  BY <1>1 DEF TakesInv, Takes
  <2> QED  BY <1>1, <2>1, <2>2, Turns, EndingTurn DEF On, Goto, SamePlace
<1> QED  BY <1>2, <1>3

LEMMA TakesString ==
    ASSUME TakesInv, StringEscape \/ StringChar \/ StringEnd \/ StringNewline \/ StringCut
    PROVE  Taken' /\ lx'.taken >= lx.taken
<1>1. pc = "string" /\ pc \in TokenPcs /\ "string" \in TokenPcs \ {"logic"}
      /\ "close" \in TokenPcs \ {"logic"}
  BY DEF StringEscape, StringChar, StringEnd, StringNewline, StringCut, TokenPcs
<1>2. ASSUME NEW m, Since(m, 0), NEW e \in SUBSET Errors
      PROVE  Since(WithError(m, e), 0) /\ WithError(m, e).taken = m.taken
  <2>1. m \in LexRec  BY <1>2 DEF Since, Sound
  <2>2. WithError(m, e).taken = m.taken  BY <2>1 DEF WithError, LexRec
  <2> QED  BY <1>2, <2>2, SinceWithError
<1>3. CASE StringEscape
  <2> DEFINE c == NextChar(Next(lx))
  <2>1. c \in Byte
    <3>1. Sound(Next(lx))  BY Turns DEF Since
    <3> QED  BY <3>1, NextCharTyped
  <2>2. PICK m \in {Emit(Reject2(Next2(lx)), c), Reject(Next2(lx))} : On(m, "string")
    BY <1>3 DEF StringEscape
  <2> HIDE DEF c
  <2>3. Since(m, 0) /\ m.taken > lx.taken
    <3>1. CASE m = Reject(Next2(lx))  BY <3>1, Turns
    <3>2. CASE m = Emit(Reject2(Next2(lx)), c)
      <4> DEFINE r == Reject2(Next2(lx))
      <4>1. Since(r, 0) /\ r.taken > lx.taken /\ Sound(r)  BY Turns DEF Since
      <4> HIDE DEF r
      <4>2. Since(Emit(r, c), 0) /\ Emit(r, c).taken = r.taken
        BY <2>1, <4>1, SinceEmit, TakenStays
      <4> QED  BY <3>2, <4>1, <4>2 DEF r
    <3> QED  BY <2>2, <3>1, <3>2
  <2> QED  BY <1>1, <2>2, <2>3, TakingTurn DEF On, Goto, SamePlace
<1>4. CASE StringChar \/ StringEnd
  <2>1. PICK m \in {Accept(Next(lx)), Reject(Next(lx))}, p \in {"string", "close"} : On(m, p)
    BY <1>4 DEF StringChar, StringEnd
  <2>2. Since(m, 0) /\ m.taken > lx.taken  BY <2>1, Turns
  <2> QED  BY <1>1, <2>1, <2>2, TakingTurn DEF On, Goto, SamePlace
<1>5. CASE StringNewline
  <2> DEFINE e == {"InvalidString", "PrematureEndOfString"}
             r == Reject(Next(lx))
             w == WithError(r, e)
  <2>1. On(w, "close")  BY <1>5 DEF StringNewline
  <2>2. e \in SUBSET Errors  BY DEF Errors
  <2>3. Since(r, 0) /\ r.taken > lx.taken  BY Turns
  <2> HIDE DEF e, r
  <2>4. Since(w, 0) /\ w.taken > lx.taken  BY <1>2, <2>2, <2>3
  <2> HIDE DEF w
  <2> QED  BY <1>1, <2>1, <2>4, TakingTurn DEF On, Goto, SamePlace
<1>6. CASE StringCut
  <2> DEFINE e == {"PrematureEndOfString"}
             w == WithError(lx, e)
  <2>1. On(w, "close")  BY <1>6 DEF StringCut
  <2>2. e \in SUBSET Errors  BY DEF Errors
  <2>3. Since(lx, 0)  BY TakesFacts
  <2> HIDE DEF e
  <2>4. Since(w, 0) /\ w.taken = lx.taken  BY <1>2, <2>2, <2>3
  <2> HIDE DEF w
  <2>5. ~lx.full => Past(lx, tok)  BY <1>1 DEF TakesInv, Takes
  <2> QED  BY <1>1, <2>1, <2>4, <2>5, EndingTurn DEF On, Goto, SamePlace
<1> QED  BY <1>3, <1>4, <1>5, <1>6

LEMMA TakesNumber ==
    ASSUME TakesInv,
           DigitsStep \/ DigitsEnd \/ NumberDigit \/ NumberDot \/ NumberExponent \/ NumberEnd
             \/ NumberSuffix
    PROVE  Taken' /\ lx'.taken >= lx.taken
<1>1. /\ pc \in TokenPcs /\ tok \in Tok /\ lx.taken \in Nat
      /\ "digits" \in TokenPcs \ {"logic"} /\ "number" \in TokenPcs \ {"logic"}
      /\ "suffix" \in TokenPcs \ {"logic"} /\ "close" \in TokenPcs \ {"logic"}
  BY TakesFacts DEF DigitsStep, DigitsEnd, NumberDigit, NumberDot, NumberExponent, NumberEnd,
         NumberSuffix, TokenPcs
<1>2. CASE DigitsStep \/ NumberDigit
  <2>1. PICK p \in {"digits", "number"} : On(Accept(Next(lx)), p)
    BY <1>2 DEF DigitsStep, NumberDigit
  <2> QED  BY <1>1, <2>1, Turns, TakingTurn DEF On, Goto, SamePlace
<1>3. CASE NumberDot \/ NumberExponent
  <2>1. PICK m \in {Accept(Next(lx)), Accept(Next2(lx)), Accept2(Next2(lx))} :
          Goto(m, "number")
    BY <1>3 DEF NumberDot, NumberExponent
  <2>2. \/ tok' = [tok EXCEPT !.kind = "float", !.dot_found = TRUE]
        \/ tok' = [tok EXCEPT !.kind = "float", !.exponent_found = TRUE]
    BY <1>3 DEF NumberDot, NumberExponent
  <2>3. SamePlace  BY <1>1, <2>2 DEF Tok, SamePlace
  <2>4. Since(m, 0) /\ m.taken > lx.taken  BY <2>1, Turns
  <2> QED  BY <1>1, <2>1, <2>3, <2>4, TakingTurn DEF Goto
<1>4. CASE DigitsEnd
  <2>1. /\ pc = "digits"
        /\ \/ IsEnd(lx) /\ On(Undo(lx), "number")
           \/ On(Undo(Next(lx)), "number")
    BY <1>4 DEF DigitsEnd
  <2>2. ~lx.full =>
          \/ Past(lx, tok)
          \/ /\ Ready(lx) /\ lx.taken = tok.from /\ Ahead(lx) \in Digits \cup {"."}
             /\ ~tok.dot_found
    BY <1>1, <2>1 DEF TakesInv, Takes
  <2>3. CASE IsEnd(lx) /\ On(Undo(lx), "number")
    <3>1. ~lx.full => Past(lx, tok)  BY <2>2, <2>3 DEF Ready
    <3> QED  BY <1>1, <2>3, <3>1, Turns, EndingTurn DEF On, Goto, SamePlace
  <2>4. CASE On(Undo(Next(lx)), "number")
    <3> DEFINE l == Undo(Next(lx))
    <3>1. /\ lx' = l /\ pc' = "number" /\ tokens' = tokens /\ client' = client /\ tok' = tok
      BY <2>4 DEF On, Goto
    <3>2. /\ Since(l, 1) /\ l.taken = lx.taken /\ Since(l, 0) /\ Sound(l)
          /\ l.it = l.start_it
      <4>1. Since(Next(lx), 1)  BY TakesFacts, SinceNext
      <4>2. Since(l, 1) /\ l.it = l.start_it  BY <4>1, SinceUndo, UndoKeeps DEF Since
      <4> QED  BY <4>2, Turns DEF Since
    <3> HIDE DEF l
    <3>3. ASSUME ~l.full PROVE Takes(l, "number", tok', client, todo')
      <4>1. ~lx.full /\ l.src = lx.src /\ Staged(l) >= 1  BY <3>2, <3>3 DEF Since
      <4>2. Ahead(l) = Ahead(lx)  BY <3>2, <4>1 DEF Ahead
      <4>3. CASE Past(lx, tok)  BY <3>1, <3>2, <4>3 DEF Takes, Past
      <4>4. CASE /\ Ready(lx) /\ lx.taken = tok.from /\ Ahead(lx) \in Digits \cup {"."}
                 /\ ~tok.dot_found
        <5>1. Ahead(lx) \notin {Eof, Nul}  BY <4>1, <4>4, TakesFacts, NotAtEnd DEF Ready
        <5>2. Ready(l)  BY <3>2, <3>3, <4>1, <4>2, <5>1, NotAtEnd DEF Ready
        <5> QED  BY <3>1, <3>2, <4>2, <4>4, <5>2 DEF Takes
      <4> QED  BY <2>2, <4>1, <4>3, <4>4
    <3>4. l.taken >= lx.taken /\ SamePlace  BY <1>1, <3>1, <3>2 DEF SamePlace
    <3> QED  BY <1>1, <3>1, <3>2, <3>3, <3>4, TakeStep DEF Taken
  <2> QED  BY <2>1, <2>3, <2>4
<1>5. CASE NumberEnd
  <2>1. PICK m \in {Undo(lx), Undo(Next(lx))} :
          /\ On(m, "suffix") /\ pc = "number"
          /\ \/ IsEnd(lx)
             \/ NextChar(lx) \notin Digits /\ ~StartsDot(NextChar(lx))
    BY <1>5 DEF NumberEnd
  <2>2. ASSUME ~lx.full PROVE Past(lx, tok)
    <3>1. \/ Past(lx, tok)
          \/ Ready(lx) /\ Ahead(lx) \in Digits \cup {"."} /\ ~tok.dot_found
      BY <1>1, <2>1, <2>2 DEF TakesInv, Takes
    <3>2. Ready(lx) => ~IsEnd(lx) /\ NextChar(lx) = Ahead(lx)  BY <2>2, FirstAhead DEF Ready
    <3> QED  BY <2>1, <3>1, <3>2 DEF StartsDot
  <2> QED  BY <1>1, <2>1, <2>2, Turns, EndingTurn DEF On, Goto, SamePlace
<1>6. CASE NumberSuffix
  <2>1. /\ pc = "suffix"
        /\ \E m \in {Accept(Next(lx)), Accept(Next2(lx)), Accept2(Next2(lx)), Next(lx)} :
             On(m, "close")
    BY <1>6 DEF NumberSuffix
  <2>2. PICK m \in {Accept(Next(lx)), Accept(Next2(lx)), Accept2(Next2(lx)), Next(lx)} :
          On(m, "close")
    BY <2>1
  <2>3. CASE m = Next(lx)
    <3>1. ~lx.full => Past(lx, tok)  BY <1>1, <2>1 DEF TakesInv, Takes
    <3> QED  BY <1>1, <2>2, <2>3, <3>1, Turns, EndingTurn DEF On, Goto, SamePlace
  <2>4. CASE m # Next(lx)
    <3>1. Since(m, 0) /\ m.taken > lx.taken  BY <2>2, <2>4, Turns
    <3> QED  BY <1>1, <2>2, <3>1, TakingTurn DEF On, Goto, SamePlace
  <2> QED  BY <2>3, <2>4
<1> QED  BY <1>2, <1>3, <1>4, <1>5, <1>6

\* The steps of the client's logic and of its recognisers.
LEMMA TakesInside ==
    ASSUME AsksForAll, KnownPunctuators, TakesInv, NextToken,
           pc \in TokenPcs, pc # "close"
    PROVE  Taken' /\ lx'.taken >= lx.taken /\ tokens' = tokens
<1>0. lx.taken \in Nat  BY TakesFacts
<1>1. ~CallAtEnd /\ ~Call /\ ~EatWhitespace /\ ~StopEating /\ ~OpenAtEnd /\ ~OpenInvalid
      /\ ~OpenWithoutRoom /\ ~Open /\ ~CloseToken /\ ~CloseFailed
  BY DEF CallAtEnd, Call, EatWhitespace, StopEating, OpenAtEnd, OpenInvalid,
         OpenWithoutRoom, Open, CloseToken, CloseFailed, TokenPcs
<1>2. CASE TestFails
  <2>1. tokens' = tokens  BY <1>2 DEF TestFails
  <2> QED  BY <1>0, <1>2, <2>1, TakesTestFails
<1>3. CASE StartIdentifier \/ StartComment \/ StartString \/ StartNumber \/ StartSpaces
  <2>1. tokens' = tokens
    BY <1>3 DEF StartIdentifier, StartComment, StartString, StartNumber, StartSpaces, Goto
  <2> QED  BY <1>3, <2>1, TakesStart
<1>4. CASE LexEscape
  <2>1. tokens' = tokens  BY <1>4 DEF LexEscape, Goto
  <2> QED  BY <1>4, <2>1, TakesLexEscape
<1>5. CASE LexPunctuator
  <2>1. tokens' = tokens  BY <1>5 DEF LexPunctuator, Goto
  <2> QED  BY <1>5, <2>1, TakesLexPunctuator
<1>6. CASE IdentifierStep \/ IdentifierEnd \/ SpacesStep \/ SpacesEnd
  <2>1. tokens' = tokens
    BY <1>6 DEF IdentifierStep, IdentifierEnd, SpacesStep, SpacesEnd, On, Goto
  <2> QED  BY <1>6, <2>1, TakesIdentifier
<1>7. CASE CommentStep \/ CommentCut
  <2>1. tokens' = tokens
    <3>1. CASE CommentCut  BY <3>1 DEF CommentCut, On, Goto
    <3>2. CASE CommentStep
      <4> DEFINE c == Seen(lx, Next3(lx), 3)
      <4>1. c[1] = "-" /\ c[2] = "-" /\ c[3] = ">" => c = <<"-", "-", ">">>
        BY DEF Seen
      <4> HIDE DEF c
      <4>2. \E m \in {Accept(Next(lx)), Accept2(Next2(lx)), Accept3(Next3(lx)),
                      Reject3(Next3(lx))},
               p \in {"comment", "close"} : On(m, p)
        <5>1. CASE c[1] # "-"  BY <3>2, <5>1 DEF CommentStep, c
        <5>2. CASE c[1] = "-" /\ c[2] # "-"  BY <3>2, <5>2 DEF CommentStep, c
        <5>3. CASE c[1] = "-" /\ c[2] = "-" /\ c[3] # ">"  BY <3>2, <5>3 DEF CommentStep, c
        <5>4. CASE c[1] = "-" /\ c[2] = "-" /\ c[3] = ">"
          BY <3>2, <4>1, <5>4 DEF CommentStep, c
        <5> QED  BY <5>1, <5>2, <5>3, <5>4
      <4> QED  BY <4>2 DEF On, Goto
    <3> QED  BY <1>7, <3>1, <3>2
  <2> QED  BY <1>7, <2>1, TakesComment
<1>8. CASE StringEscape \/ StringChar \/ StringEnd \/ StringNewline \/ StringCut
  <2>1. tokens' = tokens
    BY <1>8 DEF StringEscape, StringChar, StringEnd, StringNewline, StringCut, On, Goto
  <2> QED  BY <1>8, <2>1, TakesString
<1>9. CASE DigitsStep \/ DigitsEnd \/ NumberDigit \/ NumberDot \/ NumberExponent \/ NumberEnd
             \/ NumberSuffix
  <2>1. tokens' = tokens
    BY <1>9 DEF DigitsStep, DigitsEnd, NumberDigit, NumberDot, NumberExponent, NumberEnd,
           NumberSuffix, On, Goto
  <2> QED  BY <1>9, <2>1, TakesNumber
<1> QED  BY <1>1, <1>2, <1>3, <1>4, <1>5, <1>6, <1>7, <1>8, <1>9 DEF NextToken

\* What a step does to the bytes taken and to the tokens.
Streams ==
    \/ lx'.taken >= lx.taken /\ tokens' = tokens
    \/ /\ pc = "close" /\ lx'.taken = lx.taken
       /\ tokens' = Append(tokens, Committed(Terminated))
       /\ Committed(Terminated).from = tok.from /\ Committed(Terminated).to = lx.taken

LEMMA TakesInvStep ==
    ASSUME AsksForAll, KnownPunctuators, TakesInv, [LexerNext]_vars
    PROVE  TakesInv' /\ Streams
<1>1. ReadInv'  BY ReadInvStep DEF TakesInv
<1>2. lx.taken \in Nat  BY TakesFacts
<1>3. CASE UNCHANGED vars
  <2>1. Taken'  BY <1>3 DEF TakesInv, Taken, InOrder, Eaten, vars
  <2> QED  BY <1>1, <1>2, <1>3, <2>1 DEF TakesInv, Taken, Streams, vars
<1>4. CASE NextToken
  <2>1. CASE pc \in TokenPcs /\ pc # "close"
    <3>1. Taken' /\ lx'.taken >= lx.taken /\ tokens' = tokens  BY <1>4, <2>1, TakesInside
    <3> QED  BY <1>1, <3>1 DEF TakesInv, Taken, Streams
  <2>2. CASE ~(pc \in TokenPcs /\ pc # "close")
    <3>1. \/ CallAtEnd \/ Call \/ EatWhitespace \/ StopEating \/ OpenAtEnd \/ OpenInvalid
          \/ OpenWithoutRoom \/ Open \/ CloseToken \/ CloseFailed
      BY <1>4, <2>2 DEF NextToken, TokenPcs, TestFails, Chosen, StartIdentifier, StartComment,
           StartString, StartNumber, StartSpaces, LexEscape, LexPunctuator,
           IdentifierStep, IdentifierEnd, SpacesStep, SpacesEnd, CommentStep, CommentCut,
           StringEscape, StringChar, StringEnd, StringNewline, StringCut,
           DigitsStep, DigitsEnd, NumberDigit, NumberDot, NumberExponent, NumberEnd,
           NumberSuffix
    <3>2. CASE CallAtEnd \/ Call \/ EatWhitespace \/ StopEating \/ OpenAtEnd \/ OpenInvalid
               \/ OpenWithoutRoom
      <4>1. Taken' /\ lx'.taken >= lx.taken /\ tokens' = tokens  BY <3>2, TakesBefore
      <4> QED  BY <1>1, <4>1 DEF TakesInv, Taken, Streams
    <3>3. CASE Open
      <4>1. Taken' /\ lx'.taken = lx.taken /\ tokens' = tokens  BY <3>3, TakesOpen
      <4> QED  BY <1>1, <1>2, <4>1 DEF TakesInv, Taken, Streams
    <3>4. CASE CloseToken
      <4>1. Taken' /\ lx'.taken = lx.taken
            /\ tokens' = Append(tokens, Committed(Terminated))
            /\ Committed(Terminated).from = tok.from /\ Committed(Terminated).to = lx.taken
        BY <3>4, TakesClose
      <4>2. pc = "close"  BY <3>4 DEF CloseToken
      <4> QED  BY <1>1, <4>1, <4>2 DEF TakesInv, Taken, Streams
    <3>5. CASE CloseFailed
      <4>1. Taken' /\ lx'.taken = lx.taken  BY <3>5, TakesClose
      <4>2. tokens' = tokens  BY <3>5 DEF CloseFailed
      <4> QED  BY <1>1, <1>2, <4>1, <4>2 DEF TakesInv, Taken, Streams
    <3> QED  BY <3>1, <3>2, <3>3, <3>4, <3>5
  <2> QED  BY <2>1, <2>2
<1> QED  BY <1>3, <1>4 DEF LexerNext, Stopped

Spans(s) == [i \in 1..Len(s) |-> [from |-> s[i].from, to |-> s[i].to]]

LEMMA SpansAppend ==
    ASSUME NEW s \in Seq(Token), NEW t
    PROVE  Spans(Append(s, t)) = Append(Spans(s), [from |-> t.from, to |-> t.to])
<1> DEFINE a == Append(s, t)
           n == Len(s)
           e == [from |-> t.from, to |-> t.to]
<1>1. n \in Nat /\ Len(a) = n + 1 /\ a[n + 1] = t /\ \A i \in 1..n : a[i] = s[i]  OBVIOUS
<1>2. Spans(s) \in Seq({Spans(s)[i] : i \in 1..n}) /\ Len(Spans(s)) = n
  <2>1. DOMAIN Spans(s) = 1..n  BY DEF Spans
  <2>2. Spans(s) = [i \in 1..n |-> Spans(s)[i]]  BY DEF Spans
  <2> HIDE DEF n
  <2>3. \A i \in 1..n : Spans(s)[i] \in {Spans(s)[j] : j \in 1..n}  OBVIOUS
  <2> DEFINE f == Spans(s)
             S == {f[j] : j \in 1..n}
  <2>4. f = [i \in 1..n |-> f[i]] /\ \A i \in 1..n : f[i] \in S  BY <2>2, <2>3
  <2> HIDE DEF f, S
  <2>5. f \in [1..n -> S]  BY <2>4
  <2>6. f \in Seq(S) /\ Len(f) = n  BY <1>1, <2>5
  <2> QED  BY <2>6 DEF f, S
<1>3. Append(Spans(s), e) = [i \in 1..(n + 1) |-> IF i = n + 1 THEN e ELSE Spans(s)[i]]
  <2> DEFINE f == Spans(s)
             S == {f[i] : i \in 1..n} \cup {e}
             b == Append(f, e)
  <2>1. f \in Seq({f[i] : i \in 1..n}) /\ Len(f) = n  BY <1>2
  <2> HIDE DEF f, e, n
  <2>2. f \in Seq(S) /\ Len(f) = n /\ e \in S  BY <1>1, <2>1
  <2> HIDE DEF S
  <2>3. b \in Seq(S) /\ Len(b) = n + 1 /\ b[n + 1] = e /\ \A i \in 1..n : b[i] = f[i]
    BY <1>1, <2>2
  <2> HIDE DEF b
  <2>4. b = [i \in 1..(n + 1) |-> b[i]]  BY <1>1, <2>3
  <2>5. \A i \in 1..(n + 1) : b[i] = IF i = n + 1 THEN e ELSE f[i]
    <3>1. \A i \in 1..(n + 1) : i = n + 1 \/ i \in 1..n  BY <1>1
    <3> QED  BY <2>3, <3>1
  <2>6. b = [i \in 1..(n + 1) |-> IF i = n + 1 THEN e ELSE f[i]]  BY <2>4, <2>5
  <2> QED  BY <2>6 DEF b, f
<1>4. \A i \in 1..(n + 1) :
        [from |-> a[i].from, to |-> a[i].to] = IF i = n + 1 THEN e ELSE Spans(s)[i]
  <2>1. \A i \in 1..n : Spans(s)[i] = [from |-> s[i].from, to |-> s[i].to]  BY DEF Spans
  <2>2. \A i \in 1..(n + 1) : i = n + 1 \/ i \in 1..n  BY <1>1
  <2> HIDE DEF a, n
  <2> QED  BY <1>1, <2>1, <2>2
<1>5. Spans(a) = [i \in 1..(n + 1) |-> [from |-> a[i].from, to |-> a[i].to]]
  BY <1>1 DEF Spans
<1> HIDE DEF a, e, n
<1>6. Spans(a) = Append(Spans(s), e)  BY <1>3, <1>4, <1>5
<1> QED  BY <1>6 DEF a, e

\* A step of the lexer is one of the stream's, or leaves it as it is.
LEMMA StreamStep ==
    ASSUME TakesInv, TakesInv', Streams, NotOverfull
    PROVE  [Stream!Next]_(Stream!vars)
<1>1. lx.taken \in Nat /\ lx'.taken \in Nat /\ tok.from \in Nat /\ tokens \in Seq(Token)
  <2>1. Sound(lx) /\ Sound(lx')
    BY DEF TakesInv, ReadInv, LexerInv
  <2> QED  BY <2>1, TakesFacts DEF Sound, LexRec, TakesInv, ReadInv, LexerInv, OtherTypes
<1>2. Stream!vars = <<lx.taken, Spans(tokens)>>  BY DEF Stream!vars, Spans
<1>3. CASE lx'.taken >= lx.taken /\ tokens' = tokens
  <2>1. CASE lx'.taken = lx.taken
    <3>1. UNCHANGED Stream!vars  BY <1>3, <2>1 DEF Stream!vars
    <3> QED  BY <3>1
  <2>2. CASE lx'.taken > lx.taken
    <3>1. Stream!Skip  BY <1>3, <2>2 DEF Stream!Skip
    <3> QED  BY <3>1 DEF Stream!Next
  <2> QED  BY <1>1, <1>3, <2>1, <2>2
<1>4. CASE /\ pc = "close" /\ lx'.taken = lx.taken
           /\ tokens' = Append(tokens, Committed(Terminated))
           /\ Committed(Terminated).from = tok.from /\ Committed(Terminated).to = lx.taken
  <2> DEFINE t == Committed(Terminated)
  <2>1. t.from = tok.from /\ t.to = lx.taken /\ tokens' = Append(tokens, t)  BY <1>4
  <2> HIDE DEF t
  <2>2. Spans(tokens') = Append(Spans(tokens), [from |-> tok.from, to |-> lx.taken])
    BY <1>1, <2>1, SpansAppend
  <2>3. pc \in TokenPcs  BY <1>4 DEF TokenPcs
  <2>4. tok.from < lx.taken
    BY <1>4, <2>3 DEF TakesInv, NotOverfull, Takes, Past
  <2>5. Stream!Behind \in Nat /\ Stream!Behind <= tok.from
    <3>1. CASE Spans(tokens) = <<>>
      <4>1. Stream!Behind = 0  BY <3>1 DEF Stream!Behind, Spans
      <4> QED  BY <1>1, <4>1
    <3>2. CASE Spans(tokens) # <<>>
      <4>1. Len(tokens) \in Nat /\ Len(tokens) > 0
        <5>1. Len(tokens) = 0 => Spans(tokens) = <<>>  BY DEF Spans
        <5> QED  BY <1>1, <3>2, <5>1
      <4>2. DOMAIN Spans(tokens) = 1..Len(tokens)
            /\ \A i \in 1..Len(tokens) : Spans(tokens)[i].to = tokens[i].to
        BY DEF Spans
      <4>3. Len(Spans(tokens)) = Len(tokens)  BY <4>1, <4>2
      <4>4. Stream!Behind = Spans(tokens)[Len(Spans(tokens))].to
        BY <3>2 DEF Stream!Behind, Spans
      <4>5. Stream!Behind = tokens[Len(tokens)].to  BY <4>1, <4>2, <4>3, <4>4
      <4>6. tokens[Len(tokens)].to <= tok.from  BY <2>3, <4>1 DEF TakesInv, InOrder
      <4>7. tokens[Len(tokens)].to \in Nat
        <5>1. tokens[Len(tokens)] \in Token  BY <1>1, <4>1
        <5> QED  BY <5>1 DEF Token
      <4> QED  BY <4>5, <4>6, <4>7
    <3> QED  BY <3>1, <3>2
  <2>6. tok.from \in Stream!Behind..(lx.taken - 1)  BY <1>1, <2>4, <2>5
  <2>7. Stream!Produce  BY <1>4, <2>2, <2>6 DEF Stream!Produce, Spans
  <2> QED  BY <2>7 DEF Stream!Next
<1> QED  BY <1>3, <1>4 DEF Streams

-----------------------------------------------------------------------------
(* The inductive invariant of the room that is left.                       *)

\* A recogniser looks at what it takes; only a string looks further, by a byte
\* for each backslash that was misplaced, and a number by the byte after an `e`.
Drifts(l, p, t) ==
    /\ p \in {"eat", "identifier", "spaces", "comment", "digits", "suffix"} => Drift(l) = 0
    /\ p = "number" => Drift(l) \in {0, 1} /\ (Drift(l) = 1 => t.exponent_found)
    /\ p = "string" =>
         /\ t.delimiter \in {"'", "\""}
         /\ Drift(l) <= Cardinality(Misplaced(l.src, t.delimiter, l.taken + Drift(l)))

Roomy == ~lx.full /\ ~lx.asserted /\ lx.src \in Inputs /\ Drifts(lx, pc, tok)

RoomInv == LexerInv /\ Roomy

LEMMA MisplacedTyped ==
    ASSUME NEW s, NEW q, NEW n \in Nat
    PROVE  /\ IsFiniteSet(Misplaced(s, q, n)) /\ Cardinality(Misplaced(s, q, n)) \in Nat
           /\ Misplaced(s, q, n) =
                {i \in 1..n : Shown(s, i) = "\\"
                              /\ Shown(s, i + 1) \notin {q, "\\", "\n", "\f", "\t"}}
<1>1. IsFiniteSet(1..n)  BY FS_Interval
<1>2. Misplaced(s, q, n) \subseteq 1..n  BY DEF Misplaced
<1>3. IsFiniteSet(Misplaced(s, q, n))  BY <1>1, <1>2, FS_Subset
<1>4. Cardinality(Misplaced(s, q, n)) \in Nat  BY <1>3, FS_CardinalityType
<1> QED  BY <1>3, <1>4 DEF Misplaced, Shown

\* No more of them are among the bytes looked at than in the whole input.
LEMMA MisplacedInAll ==
    ASSUME NEW s \in Seq(Byte), NEW q, NEW n \in Nat
    PROVE  Cardinality(Misplaced(s, q, n)) <= Cardinality(Misplaced(s, q, Len(s)))
<1>1. Len(s) \in Nat  OBVIOUS
<1>2. Misplaced(s, q, n) \subseteq Misplaced(s, q, Len(s))
  <2> SUFFICES ASSUME NEW i \in 1..n, Shown(s, i) = "\\",
                      Shown(s, i + 1) \notin {q, "\\", "\n", "\f", "\t"}
               PROVE  i \in 1..Len(s)
    BY <1>1, MisplacedTyped
  <2>1. Nul # "\\"  BY DEF Nul
  <2>2. i <= Len(s)  BY <2>1 DEF Shown
  <2> QED  BY <1>1, <2>2
<1> QED  BY <1>1, <1>2, MisplacedTyped, FS_Subset

LEMMA MisplacedGrows ==
    ASSUME NEW s, NEW q, NEW n \in Nat, NEW m \in Nat, n <= m
    PROVE  Cardinality(Misplaced(s, q, n)) <= Cardinality(Misplaced(s, q, m))
<1>1. Misplaced(s, q, n) \subseteq Misplaced(s, q, m)
  <2>1. 1..n \subseteq 1..m  OBVIOUS
  <2> QED  BY <2>1, MisplacedTyped
<1> QED  BY <1>1, MisplacedTyped, FS_Subset

LEMMA MisplacedOneMore ==
    ASSUME NEW s, NEW q, NEW n \in Nat, Shown(s, n + 1) = "\\",
           Shown(s, n + 2) \notin {q, "\\", "\n", "\f", "\t"}
    PROVE  Cardinality(Misplaced(s, q, n)) + 1 <= Cardinality(Misplaced(s, q, n + 2))
<1> DEFINE M == Misplaced(s, q, n)
<1>1. n + 2 \in Nat /\ (n + 1) + 1 = n + 2 /\ n + 1 \in 1..(n + 2) /\ n + 1 \notin 1..n
      /\ 1..n \subseteq 1..(n + 2)
  OBVIOUS
<1>2. M \cup {n + 1} \subseteq Misplaced(s, q, n + 2)  BY <1>1, MisplacedTyped
<1>3. n + 1 \notin M /\ IsFiniteSet(M) /\ Cardinality(M) \in Nat  BY <1>1, MisplacedTyped
<1> HIDE DEF M
<1>4. Cardinality(M \cup {n + 1}) = Cardinality(M) + 1  BY <1>3, FS_AddElement
<1>5. Cardinality(M \cup {n + 1}) <= Cardinality(Misplaced(s, q, n + 2))
  BY <1>1, <1>2, MisplacedTyped, FS_Subset
<1> QED  BY <1>4, <1>5 DEF M

LEMMA RoomyNow ==
    ASSUME RoomInv
    PROVE  /\ Within(lx, 0, Drift(lx)) /\ tok \in Tok /\ Sound(lx) /\ lx \in LexRec
           /\ pc \in {"idle", "eat", "open", "logic", "stop", "identifier", "spaces", "comment",
                      "digits", "suffix"} => Within(lx, 0, 0)
<1>1. /\ Sound(lx) /\ lx \in LexRec /\ lx.taken \in Nat /\ ~lx.full /\ tok \in Tok
      /\ lx.start_it \in Positions /\ lx.it \in Positions
  BY DEF RoomInv, Roomy, LexerInv, Sound, LexRec, OtherTypes
<1>2. lx.taken + 0 = lx.taken  BY <1>1
<1>3. Within(lx, 0, Drift(lx))  BY <1>1, <1>2 DEF RoomInv, Roomy, Within, At
<1>4. pc \in {"idle", "open", "logic", "stop"} => Drift(lx) = 0
  BY <1>1, DistanceTyped DEF RoomInv, LexerInv, StartsUndone, Drift
<1>5. pc \in {"eat", "identifier", "spaces", "comment", "digits", "suffix"} => Drift(lx) = 0
  BY DEF RoomInv, Roomy, Drifts
<1>6. pc \in {"idle", "eat", "open", "logic", "stop", "identifier", "spaces", "comment",
              "digits", "suffix"} => Drift(lx) = 0
  BY <1>4, <1>5
<1> QED  BY <1>1, <1>3, <1>6

\* A step to a place that has looked at nothing more than it took.
LEMMA RoomSettles ==
    ASSUME RoomInv, NEW l, NEW k, Within(l, k, 0), lx' = l, pc' # "string"
    PROVE  Roomy'
<1>1. ~lx'.full /\ ~lx'.asserted /\ lx'.src = lx.src /\ Drift(lx') = 0  BY DEF Within, At
<1>2. 0 \in {0, 1} /\ 0 # 1  OBVIOUS
<1>3. Drift(lx') \in {0, 1} /\ Drift(lx') # 1  BY <1>1, <1>2
<1>4. Drifts(lx', pc', tok')  BY <1>1, <1>3, Zenon DEF Drifts
<1> QED  BY <1>1, <1>4 DEF RoomInv, Roomy

\* A step to a place from which it goes on undone.
LEMMA RoomAfter ==
    ASSUME RoomInv, lx'.full = lx.full, lx'.asserted = lx.asserted, lx'.src = lx.src,
           pc' \in {"idle", "open", "logic", "close", "stop"}
    PROVE  Roomy'
<1>1. Drifts(lx', pc', tok')  BY DEF Drifts
<1> QED  BY <1>1 DEF RoomInv, Roomy

LEMMA RoomCloses ==
    ASSUME RoomInv, NEW l, NEW k, NEW n, Within(l, k, n), lx' = l, pc' = "close"
    PROVE  Roomy'
<1>1. ~lx'.full /\ ~lx'.asserted /\ lx'.src = lx.src  BY DEF Within, At
<1>2. Drifts(lx', pc', tok')  BY DEF Drifts
<1> QED  BY <1>1, <1>2 DEF RoomInv, Roomy

LEMMA RoomBefore ==
    ASSUME RoomInv, StagingMax >= 7,
           CallAtEnd \/ Call \/ EatWhitespace \/ StopEating \/ OpenAtEnd \/ OpenInvalid
             \/ OpenWithoutRoom \/ Open
    PROVE  Roomy'
<1>1. /\ Sound(lx) /\ lx \in LexRec
      /\ pc \in {"idle", "eat", "open"} => Within(lx, 0, 0)
  BY RoomyNow
<1>2. CASE CallAtEnd \/ Call
  <2>1. /\ pc = "idle" /\ lx' = Called /\ pc' \in {"stop", "eat", "open"}
    BY <1>2 DEF CallAtEnd, Call, Return, On, Goto
  <2> DEFINE c == Called
  <2>2. Sound(c)  BY <1>1, CalledKeeps DEF Called
  <2>3. /\ c.src = lx.src /\ c.full = lx.full /\ c.start_it = lx.start_it /\ c.it = lx.it
        /\ c.taken = lx.taken /\ c.asserted = lx.asserted
    BY <1>1 DEF Called, LexRec
  <2> HIDE DEF c
  <2>4. Within(c, 0, 0)  BY <1>1, <2>1, <2>2, <2>3 DEF Within, At, Drift
  <2> QED  BY <2>1, <2>4, RoomSettles DEF c
<1>3. CASE EatWhitespace
  <2>1. pc = "eat" /\ lx' = Reject(Next(lx)) /\ pc' = "eat"
    BY <1>3 DEF EatWhitespace, On, Goto
  <2>2. Within(Next(lx), 0, 1)  BY <1>1, <2>1, WithinLooks
  <2>3. Within(Reject(Next(lx)), 0 + 1, 0)  BY <2>2, WithinRejects
  <2> QED  BY <2>1, <2>3, RoomSettles
<1>4. CASE StopEating
  <2>1. PICK l \in {Undo(lx), Undo(Next(lx))} : pc = "eat" /\ lx' = l /\ pc' = "open"
    BY <1>4 DEF StopEating, On, Goto
  <2>2. Within(Next(lx), 0, 1)  BY <1>1, <2>1, WithinLooks
  <2>3. Within(l, 0, 0)  BY <1>1, <2>1, <2>2, WithinUndo
  <2> QED  BY <2>1, <2>3, RoomSettles
<1>5. CASE OpenAtEnd \/ OpenInvalid \/ OpenWithoutRoom
  <2>1. lx' = lx /\ pc' \in {"stop", "idle"}
    BY <1>5 DEF OpenAtEnd, OpenInvalid, OpenWithoutRoom, Return
  <2> QED  BY <2>1, RoomAfter
<1>6. CASE Open
  <2>1. PICK n \in Rooms \ {0} :
          /\ lx' = [lx EXCEPT !.text = <<>>, !.room = n, !.failed = FALSE,
                              !.arena = Accomodated(lx.arena, TokenSize, 0)]
          /\ pc' = "logic"
    BY <1>6 DEF Open
  <2>2. lx'.full = lx.full /\ lx'.asserted = lx.asserted /\ lx'.src = lx.src
    <3> DEFINE arena == Accomodated(lx.arena, TokenSize, 0)
    <3> HIDE DEF arena
    <3>1. lx' = [lx EXCEPT !.text = <<>>, !.room = n, !.failed = FALSE, !.arena = arena]
      BY <2>1 DEF arena
    <3> QED  BY <1>1, <3>1 DEF LexRec
  <2> QED  BY <2>1, <2>2, RoomAfter
<1> QED  BY <1>2, <1>3, <1>4, <1>5, <1>6

\* The predicates look at six bytes at most, and undo.
LEMMA AtTested ==
    ASSUME RoomInv, StagingMax >= 7, pc = "logic", NEW r
    PROVE  Within(Tested(r), 0, 0)
<1>1. Within(lx, 0, 0)  BY RoomyNow
<1>2. Within(Next(lx), 0, 1) /\ Within(Next4(lx), 0, 4) /\ Within(Next6(lx), 0, 6)  BY <1>1, WithinLooks
<1>3. Looked(r) \in {Next4(lx), Next6(lx), Next(lx)}  BY DEF Looked
<1> QED  BY <1>2, <1>3, WithinUndo DEF Tested

\* is_xml_string_literal
LEMMA StringDelimiter ==
    ASSUME StartString
    PROVE  NextChar(lx) \in {"'", "\""}
BY DEF StartString, Chosen, Is

LEMMA RoomLogic ==
    ASSUME RoomInv, StagingMax >= 7,
           TestFails \/ StartIdentifier \/ StartComment \/ StartNumber \/ StartSpaces
             \/ LexEscape \/ LexPunctuator
    PROVE  Roomy'
<1>1. pc = "logic"
  BY DEF TestFails, StartIdentifier, StartComment, StartNumber, StartSpaces, LexEscape,
         LexPunctuator, Chosen
<1>2. Within(lx, 0, 0)  BY <1>1, RoomyNow
<1>3. \A r : Within(Tested(r), 0, 0)  BY <1>1, AtTested
<1>4. CASE TestFails
  <2>1. lx' = Tested(Head(todo)) /\ pc' = "logic"  BY <1>1, <1>4 DEF TestFails, Tested
  <2> QED  BY <1>3, <2>1, RoomSettles
<1>5. CASE StartIdentifier
  <2>1. lx' = lx /\ pc' = "identifier"  BY <1>5 DEF StartIdentifier, Goto
  <2> QED  BY <1>2, <2>1, RoomSettles
<1>6. CASE StartComment
  <2>1. lx' = Reject4(Tested("comment")) /\ pc' = "comment"
    BY <1>6 DEF StartComment, Goto
  <2>2. Within(Reject4(Tested("comment")), 0 + 4, 0)  BY <1>3, WithinRejects
  <2> QED  BY <2>1, <2>2, RoomSettles
<1>7. CASE StartNumber
  <2> DEFINE t == Tested("number")
  <2>1. PICK m \in {Accept2(Next2(t)), Accept(Next2(t)), Next2(t)} :
          lx' = Undo(m) /\ pc' = "digits"
    BY <1>7 DEF StartNumber, Goto
  <2>2. Within(t, 0, 0)  BY <1>3
  <2> HIDE DEF t
  <2>3. Within(Next2(t), 0, 2)  BY <2>2, WithinLooks
  <2>4. Within(Accept(Next2(t)), 0 + 1, 1) /\ Within(Accept2(Next2(t)), 0 + 2, 0)
    BY <2>3, WithinAccepts
  <2>5. PICK k : Within(Undo(m), k, 0)  BY <2>1, <2>3, <2>4, WithinUndo
  <2> QED  BY <2>1, <2>5, RoomSettles
<1>8. CASE StartSpaces
  <2>1. lx' = Tested("spaces") /\ pc' = "spaces"  BY <1>8 DEF StartSpaces, Goto
  <2> QED  BY <1>3, <2>1, RoomSettles
<1>9. CASE LexEscape
  <2> DEFINE l == Tested("escape")
             r == Reject4(Next6(l))
  <2>1. PICK e \in EscapesAt(Seen(l, Next6(l), 6)) :
          /\ lx' = Emit(CASE Len(e) = 4 -> r
                          [] Len(e) = 5 -> Reject(r)
                          [] Len(e) = 6 -> Reject2(r), EscapedChar(e))
          /\ pc' = "close"
    BY <1>9 DEF LexEscape, Goto
  <2>2. Len(e) \in {4, 5, 6}  BY EscapeLengths DEF EscapesAt
  <2>3. Within(l, 0, 0)  BY <1>3
  <2> HIDE DEF l
  <2>4. Within(Next6(l), 0, 6)  BY <2>3, WithinLooks
  <2>5. Within(r, 0 + 4, 2)  BY <2>4, WithinRejects
  <2> HIDE DEF r
  <2>6. Within(Reject(r), (0 + 4) + 1, IF 2 = 0 THEN 0 ELSE 2 - 1)  BY <2>5, WithinReject
  <2>7. PICK n : Within(Reject(r), 5, n)  BY <2>6
  <2>8. Within(Reject(Reject(r)), 5 + 1, IF n = 0 THEN 0 ELSE n - 1)  BY <2>7, WithinReject
  <2>9. PICK m \in {r, Reject(r), Reject2(r)} : lx' = Emit(m, EscapedChar(e))
    BY <2>1, <2>2
  <2>10. PICK k1, n1 : Within(m, k1, n1)  BY <2>5, <2>7, <2>8, <2>9 DEF Reject2
  <2>11. Within(Emit(m, EscapedChar(e)), k1, n1)  BY <2>10, EscapedCharTyped, WithinEmit
  <2> QED  BY <2>1, <2>9, <2>11, RoomCloses
<1>10. CASE LexPunctuator
  <2> DEFINE l == Tested("punctuator")
             n == PunctuatorLength(Seen(l, Next3(l), 3))
             t == Next3(l)
  <2>1. /\ lx' = CASE n = 0 -> t
                   [] n = 1 -> Accept(t)
                   [] n = 2 -> Accept2(t)
                   [] n = 3 -> Accept3(t)
        /\ pc' = "close"
    BY <1>10 DEF LexPunctuator, Goto
  <2>2. n \in {0, 1, 2, 3}  BY DEF PunctuatorLength
  <2>3. Within(l, 0, 0)  BY <1>3
  <2>4. Within(t, 0, 3)
    <3> HIDE DEF l
    <3> QED  BY <2>3, WithinLooks
  <2> HIDE DEF n, t
  <2>5. /\ Within(Accept(t), 0 + 1, 2) /\ Within(Accept2(t), 0 + 2, 1) /\ Within(Accept3(t), 0 + 3, 0)
    BY <2>4, WithinAccepts
  <2>6. PICK m \in {t, Accept(t), Accept2(t), Accept3(t)} : lx' = m  BY <2>1, <2>2
  <2>7. PICK k1, n1 : Within(m, k1, n1)  BY <2>4, <2>5, <2>6
  <2> QED  BY <2>1, <2>6, <2>7, RoomCloses
<1> QED  BY <1>4, <1>5, <1>6, <1>7, <1>8, <1>9, <1>10

LEMMA RoomLoops ==
    ASSUME RoomInv, StagingMax >= 7,
           IdentifierStep \/ IdentifierEnd \/ SpacesStep \/ SpacesEnd \/ CommentStep
             \/ CommentCut \/ DigitsStep \/ DigitsEnd
    PROVE  Roomy'
<1>1. pc \in {"identifier", "spaces", "comment", "digits"}
  BY DEF IdentifierStep, IdentifierEnd, SpacesStep, SpacesEnd, CommentStep, CommentCut,
         DigitsStep, DigitsEnd
<1>2. Within(lx, 0, 0)  BY <1>1, RoomyNow
<1>3. Within(Next(lx), 0, 1) /\ Within(Next2(lx), 0, 2) /\ Within(Next3(lx), 0, 3)  BY <1>2, WithinLooks
<1>4. /\ Within(Accept(Next(lx)), 0 + 1, 0) /\ Within(Accept2(Next2(lx)), 0 + 2, 0)
      /\ Within(Accept3(Next3(lx)), 0 + 3, 0) /\ Within(Reject3(Next3(lx)), 0 + 3, 0)
  BY <1>3, WithinAccepts, WithinRejects
<1>5. Within(Undo(lx), 0, 0) /\ Within(Undo(Next(lx)), 0, 0)  BY <1>2, <1>3, WithinUndo
<1>6. CASE IdentifierStep \/ SpacesStep \/ DigitsStep
  <2>1. lx' = Accept(Next(lx)) /\ pc' \in {"identifier", "spaces", "digits"}
    BY <1>6 DEF IdentifierStep, SpacesStep, DigitsStep, On, Goto
  <2> QED  BY <1>4, <2>1, RoomSettles
<1>7. CASE IdentifierEnd \/ SpacesEnd
  <2>1. PICK m \in {lx, Next(lx)} : lx' = m /\ pc' = "close"
    BY <1>7 DEF IdentifierEnd, SpacesEnd, On, Goto
  <2> QED  BY <1>2, <1>3, <2>1, RoomCloses
<1>8. CASE CommentStep
  <2> DEFINE c == Seen(lx, Next3(lx), 3)
  <2>1. c[1] = "-" /\ c[2] = "-" /\ c[3] = ">" => c = <<"-", "-", ">">>
    BY DEF Seen
  <2> HIDE DEF c
  <2>2. PICK m \in {Accept(Next(lx)), Accept2(Next2(lx)), Accept3(Next3(lx)),
                    Reject3(Next3(lx))} : lx' = m /\ pc' \in {"comment", "close"}
    <3>1. CASE c[1] # "-"  BY <1>8, <3>1 DEF CommentStep, c, On, Goto
    <3>2. CASE c[1] = "-" /\ c[2] # "-"  BY <1>8, <3>2 DEF CommentStep, c, On, Goto
    <3>3. CASE c[1] = "-" /\ c[2] = "-" /\ c[3] # ">"
      BY <1>8, <3>3 DEF CommentStep, c, On, Goto
    <3>4. CASE c[1] = "-" /\ c[2] = "-" /\ c[3] = ">"
      BY <1>8, <2>1, <3>4 DEF CommentStep, c, On, Goto
    <3> QED  BY <3>1, <3>2, <3>3, <3>4
  <2>3. PICK k : Within(m, k, 0)  BY <1>4, <2>2
  <2> QED  BY <2>2, <2>3, RoomSettles
<1>9. CASE CommentCut
  <2>1. lx' = lx /\ pc' = "close"  BY <1>9 DEF CommentCut, On, Goto
  <2> QED  BY <1>2, <2>1, RoomCloses
<1>10. CASE DigitsEnd
  <2>1. PICK m \in {Undo(lx), Undo(Next(lx))} : lx' = m /\ pc' = "number"
    BY <1>10 DEF DigitsEnd, On, Goto
  <2> QED  BY <1>5, <2>1, RoomSettles
<1> QED  BY <1>6, <1>7, <1>8, <1>9, <1>10

LEMMA RoomNumber ==
    ASSUME RoomInv, StagingMax >= 7,
           NumberDigit \/ NumberDot \/ NumberExponent \/ NumberEnd \/ NumberSuffix
    PROVE  Roomy'
<1>1. Within(lx, 0, Drift(lx)) /\ tok \in Tok  BY RoomyNow
<1>2. ASSUME pc = "number"
      PROVE  /\ Drift(lx) = 0 \/ (Drift(lx) = 1 /\ tok.exponent_found)
             /\ Within(Next(lx), 0, Drift(lx) + 1) /\ Within(Accept(Next(lx)), 0 + 1, Drift(lx))
  <2>1. Drift(lx) \in {0, 1} /\ (Drift(lx) = 1 => tok.exponent_found)
    BY <1>2 DEF RoomInv, Roomy, Drifts
  <2>2. Drift(lx) <= StagingMax - 2  BY <2>1, StagingAssumption
  <2>3. Within(Next(lx), 0, Drift(lx) + 1)  BY <1>1, <2>2, WithinNext
  <2>4. /\ Drift(lx) = 0 => Within(Next(lx), 0, 1)
        /\ Drift(lx) = 1 => Within(Next(lx), 0, 2)
    BY <2>3
  <2>5. Within(Accept(Next(lx)), 0 + 1, Drift(lx))  BY <2>1, <2>4, WithinAccepts
  <2> QED  BY <2>1, <2>3, <2>5
<1>3. CASE NumberDigit \/ NumberDot
  <2>1. /\ pc = "number" /\ lx' = Accept(Next(lx)) /\ pc' = "number"
        /\ tok' = tok \/ tok' = [tok EXCEPT !.kind = "float", !.dot_found = TRUE]
    BY <1>3 DEF NumberDigit, NumberDot, On, Goto
  <2>2. tok'.exponent_found = tok.exponent_found  BY <1>1, <2>1 DEF Tok
  <2>3. /\ Drift(lx) = 0 \/ (Drift(lx) = 1 /\ tok.exponent_found)
        /\ Within(lx', 0 + 1, Drift(lx))
    BY <1>2, <2>1
  <2>4. Drift(lx') = Drift(lx) /\ ~lx'.full /\ ~lx'.asserted /\ lx'.src = lx.src
    BY <2>3 DEF Within, At
  <2>5. Drifts(lx', pc', tok')  BY <2>1, <2>2, <2>3, <2>4 DEF Drifts
  <2> QED  BY <2>4, <2>5 DEF RoomInv, Roomy
<1>4. CASE NumberExponent
  <2>1. /\ pc = "number" /\ ~tok.exponent_found /\ pc' = "number"
        /\ lx' \in {Accept2(Next2(lx)), Accept(Next2(lx))}
        /\ tok' = [tok EXCEPT !.kind = "float", !.exponent_found = TRUE]
    BY <1>4 DEF NumberExponent, StartsExponent, Goto
  <2>2. Within(lx, 0, 0)  BY <1>1, <1>2, <2>1
  <2>3. Within(Next2(lx), 0, 2)  BY <2>2, WithinLooks
  <2>4. Within(Accept(Next2(lx)), 0 + 1, 1) /\ Within(Accept2(Next2(lx)), 0 + 2, 0)
    BY <2>3, WithinAccepts
  <2>5. tok'.exponent_found  BY <1>1, <2>1 DEF Tok
  <2>6. ~lx'.full /\ ~lx'.asserted /\ lx'.src = lx.src /\ Drift(lx') \in {0, 1}
    BY <2>1, <2>4 DEF Within, At
  <2>7. Drifts(lx', pc', tok')  BY <2>1, <2>5, <2>6 DEF Drifts
  <2> QED  BY <2>6, <2>7 DEF RoomInv, Roomy
<1>5. CASE NumberEnd
  <2>1. PICK m \in {Undo(lx), Undo(Next(lx))} : pc = "number" /\ lx' = m /\ pc' = "suffix"
    BY <1>5 DEF NumberEnd, On, Goto
  <2>2. Within(Undo(lx), 0, 0) /\ Within(Undo(Next(lx)), 0, 0)  BY <1>1, <1>2, <2>1, WithinUndo
  <2> QED  BY <2>1, <2>2, RoomSettles
<1>6. CASE NumberSuffix
  <2>1. pc = "suffix" /\ pc' = "close"
    BY <1>6 DEF NumberSuffix, On, Goto
  <2>2. PICK m \in {Accept(Next(lx)), Accept(Next2(lx)), Accept2(Next2(lx)), Next(lx)} :
          lx' = m
    BY <1>6 DEF NumberSuffix, On, Goto
  <2>3. Within(lx, 0, 0)  BY <2>1, RoomyNow
  <2>4. Within(Next(lx), 0, 1) /\ Within(Next2(lx), 0, 2)  BY <2>3, WithinLooks
  <2>5. /\ Within(Accept(Next(lx)), 0 + 1, 0) /\ Within(Accept(Next2(lx)), 0 + 1, 1)
        /\ Within(Accept2(Next2(lx)), 0 + 2, 0)
    BY <2>4, WithinAccepts
  <2>6. PICK k, n : Within(m, k, n)  BY <2>2, <2>4, <2>5
  <2> QED  BY <2>1, <2>2, <2>6, RoomCloses
<1> QED  BY <1>3, <1>4, <1>5, <1>6

\* In a string as much is looked at as there are misplaced backslashes, and that
\* leaves room for the two bytes of one more.
LEMMA RoomInString ==
    ASSUME RoomInv, FewMisplaced, pc = "string"
    PROVE  LET d == Drift(lx) IN
           /\ d \in Nat /\ Within(lx, 0, d) /\ Within(Next(lx), 0, d + 1) /\ Within(Next2(lx), 0, d + 2)
           /\ tok.delimiter \in {"'", "\""}
           /\ d <= Cardinality(Misplaced(lx.src, tok.delimiter, lx.taken + d))
<1> DEFINE d == Drift(lx)
<1>1. /\ Within(lx, 0, d) /\ tok.delimiter \in {"'", "\""} /\ lx.src \in Inputs
      /\ d <= Cardinality(Misplaced(lx.src, tok.delimiter, lx.taken + d))
  BY RoomyNow DEF RoomInv, Roomy, Drifts
<1>2. d \in Nat /\ lx.taken \in Nat /\ lx.src \in Seq(Byte)
  <2>1. d \in 0..StagingMax  BY <1>1, AtTyped DEF Within
  <2>2. lx \in LexRec  BY RoomyNow
  <2> QED  BY <2>1, <2>2, StagingAssumption DEF LexRec
<1> HIDE DEF d
<1>3. lx.taken + d \in Nat /\ Len(lx.src) \in Nat  BY <1>2
<1>4. d <= StagingMax - 3
  <2> DEFINE m == Cardinality(Misplaced(lx.src, tok.delimiter, lx.taken + d))
             n == Cardinality(Misplaced(lx.src, tok.delimiter, Len(lx.src)))
  <2>1. m \in Nat /\ n \in Nat  BY <1>3, MisplacedTyped
  <2>2. m <= n  BY <1>2, <1>3, MisplacedInAll
  <2>3. n <= StagingMax - 3  BY <1>1 DEF FewMisplaced
  <2>4. d <= m  BY <1>1
  <2> HIDE DEF m, n
  <2> QED  BY <1>2, <2>1, <2>2, <2>3, <2>4, StagingAssumption
<1>5. d <= StagingMax - 2 /\ d + 1 <= StagingMax - 2 /\ (d + 1) + 1 = d + 2
  BY <1>2, <1>4, StagingAssumption
<1>6. Within(Next(lx), 0, d + 1)  BY <1>1, <1>5, WithinNext
<1>7. Within(Next2(lx), 0, d + 2)  BY <1>5, <1>6, WithinNext DEF Next2
<1> QED  BY <1>1, <1>2, <1>6, <1>7 DEF d

\* A step inside a string that takes k bytes and leaves n looked at.
LEMMA RoomOnString ==
    ASSUME RoomInv, tok.delimiter \in {"'", "\""}, NEW l, NEW k \in Nat, NEW n \in Nat, Within(l, k, n),
           lx' = l, pc' = "string", tok' = tok,
           n <= Cardinality(Misplaced(lx.src, tok.delimiter, lx.taken + k + n))
    PROVE  Roomy'
<1>1. /\ ~lx'.full /\ ~lx'.asserted /\ lx'.src = lx.src /\ Drift(lx') = n
      /\ lx'.taken = lx.taken + k
  BY DEF Within, At
<1>2. Drifts(lx', pc', tok')  BY <1>1 DEF Drifts
<1> QED  BY <1>1, <1>2 DEF RoomInv, Roomy

LEMMA RoomString ==
    ASSUME RoomInv, FewMisplaced,
           StartString \/ StringEscape \/ StringChar \/ StringEnd \/ StringNewline \/ StringCut
    PROVE  Roomy'
<1>0. StagingMax >= 7  BY DEF FewMisplaced
<1>1. lx.taken \in Nat /\ tok \in Tok  BY RoomyNow DEF LexRec
<1>2. CASE StartString
  <2> DEFINE l == Reject(Next(Tested("string")))
  <2>1. /\ pc = "logic" /\ lx' = l /\ pc' = "string"
        /\ tok' = [tok EXCEPT !.kind = "string", !.delimiter = NextChar(lx)]
    BY <1>2 DEF StartString, Chosen, Goto
  <2>2. Within(Tested("string"), 0, 0)  BY <1>0, <2>1, AtTested
  <2>3. Within(Next(Tested("string")), 0, 1)  BY <1>0, <2>2, WithinLooks
  <2>4. Within(l, 0 + 1, 0)  BY <2>3, WithinRejects
  <2> HIDE DEF l
  <2>5. tok'.delimiter \in {"'", "\""}
    <3>1. tok'.delimiter = NextChar(lx)  BY <1>1, <2>1 DEF Tok
    <3> QED  BY <1>2, <3>1, StringDelimiter
  <2>6. /\ ~lx'.full /\ ~lx'.asserted /\ lx'.src = lx.src /\ Drift(lx') = 0 /\ lx'.taken = lx.taken + 1
    BY <2>1, <2>4 DEF Within, At
  <2>7. Drifts(lx', pc', tok')
    <3>1. lx'.taken + Drift(lx') \in Nat  BY <1>1, <2>6
    <3>2. Drift(lx') <= Cardinality(Misplaced(lx'.src, tok'.delimiter, lx'.taken + Drift(lx')))
      BY <2>6, <3>1, MisplacedTyped
    <3> QED  BY <2>1, <2>5, <3>2 DEF Drifts
  <2> QED  BY <2>6, <2>7 DEF RoomInv, Roomy
<1> DEFINE d == Drift(lx)
<1>3. ASSUME pc = "string"
      PROVE  /\ d \in Nat /\ Within(lx, 0, d) /\ Within(Next(lx), 0, d + 1) /\ Within(Next2(lx), 0, d + 2)
             /\ tok.delimiter \in {"'", "\""}
             /\ d <= Cardinality(Misplaced(lx.src, tok.delimiter, lx.taken + d))
  BY <1>3, RoomInString
<1> HIDE DEF d
<1>4. CASE StringEscape
  <2> DEFINE c == NextChar(Next(lx))
             q == tok.delimiter
             next == Next2(lx)
  <2>1. /\ pc = "string" /\ NextChar(lx) = "\\" /\ pc' = "string" /\ tok' = tok
        /\ lx' = IF c \in EscapableChars THEN Emit(Reject2(next), c) ELSE Reject(next)
    BY <1>4 DEF StringEscape, On, Goto
  <2>2. Within(Next(lx), 0, d + 1) /\ Within(next, 0, d + 2) /\ d \in Nat  BY <1>3, <2>1
  <2> HIDE DEF next
  <2>3. Within(Reject(next), 0 + 1, IF d + 2 = 0 THEN 0 ELSE (d + 2) - 1)  BY <2>2, WithinReject
  <2>4. d + 2 # 0 /\ (d + 2) - 1 = d + 1 /\ 0 + 1 = 1 /\ d + 1 # 0 /\ (d + 1) - 1 = d
        /\ 1 + 1 = 2
    BY <2>2
  <2>5. Within(Reject(next), 1, d + 1)  BY <2>3, <2>4
  <2>6. CASE c \in EscapableChars
    <3>1. Within(Reject(Reject(next)), 1 + 1, IF d + 1 = 0 THEN 0 ELSE (d + 1) - 1)
      BY <2>5, WithinReject
    <3>2. Within(Reject2(next), 2, d)  BY <2>4, <3>1 DEF Reject2
    <3>3. c \in Byte  BY <2>2, NextCharTyped DEF Within, At
    <3> HIDE DEF c
    <3>4. Within(Emit(Reject2(next), c), 2, d)  BY <3>2, <3>3, WithinEmit
    <3>5. d <= Cardinality(Misplaced(lx.src, q, lx.taken + 2 + d))
      <4> DEFINE m == Cardinality(Misplaced(lx.src, q, lx.taken + d))
                 n == Cardinality(Misplaced(lx.src, q, lx.taken + 2 + d))
      <4>1. lx.taken + d \in Nat /\ lx.taken + 2 + d \in Nat
            /\ lx.taken + d <= lx.taken + 2 + d
        BY <1>1, <2>2
      <4>2. m <= n  BY <4>1, MisplacedGrows
      <4>3. m \in Nat /\ n \in Nat  BY <4>1, MisplacedTyped
      <4>4. d <= m  BY <1>3, <2>1
      <4> HIDE DEF m, n
      <4>5. d <= n  BY <2>2, <4>2, <4>3, <4>4
      <4> QED  BY <4>5 DEF n
    <3> QED  BY <1>3, <2>1, <2>2, <2>6, <3>4, <3>5, RoomOnString
  <2>7. CASE c \notin EscapableChars
    <3>1. lx.taken + d \in Nat /\ lx.taken + 0 + d + 1 = (lx.taken + d) + 1
          /\ lx.taken + 0 + (d + 1) + 1 = (lx.taken + d) + 2
          /\ lx.taken + 1 + (d + 1) = (lx.taken + d) + 2
      BY <1>1, <2>2
    <3>2. Shown(lx.src, (lx.taken + d) + 1) = "\\"
      <4>1. NextChar(lx) = Shown(lx.src, lx.taken + 0 + d + 1)  BY <1>3, <2>1, AtShows DEF Within
      <4> QED  BY <2>1, <3>1, <4>1
    <3>3. Shown(lx.src, (lx.taken + d) + 2) \notin {q, "\\", "\n", "\f", "\t"}
      <4>1. c = Shown(lx.src, lx.taken + 0 + (d + 1) + 1)  BY <2>2, AtShows DEF Within
      <4> QED  BY <2>7, <3>1, <4>1 DEF EscapableChars
    <3> HIDE DEF c
    <3>4. d + 1 <= Cardinality(Misplaced(lx.src, q, lx.taken + 1 + (d + 1)))
      <4> DEFINE m == Cardinality(Misplaced(lx.src, q, lx.taken + d))
                 n == Cardinality(Misplaced(lx.src, q, (lx.taken + d) + 2))
      <4>1. m + 1 <= n  BY <3>1, <3>2, <3>3, MisplacedOneMore
      <4>2. (lx.taken + d) + 2 \in Nat  BY <3>1
      <4>3. m \in Nat /\ n \in Nat  BY <3>1, <4>2, MisplacedTyped
      <4>4. d <= m  BY <1>3, <2>1
      <4> HIDE DEF m, n
      <4>5. d + 1 <= n  BY <2>2, <4>1, <4>3, <4>4
      <4> QED  BY <3>1, <4>5 DEF n
    <3>5. d + 1 \in Nat  BY <2>2
    <3> QED  BY <1>3, <2>1, <2>5, <2>7, <3>4, <3>5, RoomOnString
  <2> QED  BY <2>6, <2>7
<1>5. CASE StringChar
  <2>1. pc = "string" /\ pc' = "string" /\ tok' = tok /\ lx' = Accept(Next(lx))
    BY <1>5 DEF StringChar, On, Goto
  <2>2. Within(Next(lx), 0, d + 1) /\ d \in Nat  BY <1>3, <2>1
  <2>3. Within(Accept(Next(lx)), 0 + 1, IF d + 1 = 0 THEN 0 ELSE (d + 1) - 1)
    BY <2>2, WithinAccept
  <2>4. d + 1 # 0 /\ (d + 1) - 1 = d /\ 0 + 1 = 1  BY <2>2
  <2>5. Within(Accept(Next(lx)), 1, d)  BY <2>3, <2>4
  <2>6. d <= Cardinality(Misplaced(lx.src, tok.delimiter, lx.taken + 1 + d))
    <3> DEFINE m == Cardinality(Misplaced(lx.src, tok.delimiter, lx.taken + d))
               n == Cardinality(Misplaced(lx.src, tok.delimiter, lx.taken + 1 + d))
    <3>1. lx.taken + d \in Nat /\ lx.taken + 1 + d \in Nat
          /\ lx.taken + d <= lx.taken + 1 + d
      BY <1>1, <2>2
    <3>2. m <= n  BY <3>1, MisplacedGrows
    <3>3. m \in Nat /\ n \in Nat  BY <3>1, MisplacedTyped
    <3>4. d <= m  BY <1>3, <2>1
    <3> HIDE DEF m, n
    <3>5. d <= n  BY <2>2, <3>2, <3>3, <3>4
    <3> QED  BY <3>5 DEF n
  <2> QED  BY <1>3, <2>1, <2>2, <2>5, <2>6, RoomOnString
<1>6. CASE StringEnd
  <2>1. pc = "string" /\ pc' = "close" /\ lx' = Reject(Next(lx))
    BY <1>6 DEF StringEnd, On, Goto
  <2>2. Within(Next(lx), 0, d + 1)  BY <1>3, <2>1
  <2> QED  BY <2>1, <2>2, WithinReject, RoomCloses
<1>7. CASE StringNewline \/ StringCut
  <2>1. PICK m \in {Reject(Next(lx)), lx},
             e \in {{"InvalidString", "PrematureEndOfString"}, {"PrematureEndOfString"}} :
          pc = "string" /\ lx' = WithError(m, e) /\ pc' = "close"
    BY <1>7 DEF StringNewline, StringCut, On, Goto
  <2>2. e \in SUBSET Errors  BY DEF Errors
  <2>3. Within(lx, 0, d) /\ Within(Next(lx), 0, d + 1)  BY <1>3, <2>1
  <2>4. PICK k, n : Within(m, k, n)  BY <2>1, <2>3, WithinReject
  <2>5. Within(WithError(m, e), k, n)  BY <2>2, <2>4, WithinWithError
  <2> QED  BY <2>1, <2>5, RoomCloses
<1> QED  BY <1>2, <1>4, <1>5, <1>6, <1>7

LEMMA AddedFrames ==
    ASSUME NEW l \in LexRec, NEW c
    PROVE  LET a == Added(l, c) IN
           a.src = l.src /\ a.full = l.full /\ a.asserted = l.asserted /\ DOMAIN a = DOMAIN l
<1> DEFINE text == Append(l.text, c)
           room == l.room - 1
           arena == Accomodated(l.arena, 1, TokenSize + Len(l.text))
           a == Added(l, c)
<1>1. \/ a = [l EXCEPT !.text = text, !.room = room, !.arena = arena]
      \/ a = [l EXCEPT !.failed = TRUE]
  BY DEF Added
<1> HIDE DEF text, room, arena, a
<1>2. a.src = l.src /\ a.full = l.full /\ a.asserted = l.asserted /\ DOMAIN a = DOMAIN l
  BY <1>1 DEF LexRec
<1> QED  BY <1>2 DEF a

LEMMA RoomClose ==
    ASSUME RoomInv, CloseToken \/ CloseFailed
    PROVE  Roomy'
<1> DEFINE t == Terminated
           w == WithError(t, {"OutOfMem"})
<1>1. lx \in LexRec  BY RoomyNow
<1>2. t.src = lx.src /\ t.full = lx.full /\ t.asserted = lx.asserted /\ DOMAIN t = DOMAIN lx
  BY <1>1, AddedFrames DEF Terminated
<1>3. CASE CloseToken
  <2> DEFINE size == t.arena.data_size + TokenSize + Len(t.text)
             c == [t EXCEPT !.text = <<>>, !.arena.data_size = size]
  <2>1. pc' = "idle" /\ lx' = Undo(c)  BY <1>3 DEF CloseToken, Return
  <2>2. c = [t EXCEPT !.text = <<>>, !.arena = [t.arena EXCEPT !.data_size = size]]
    BY <1>1, <1>2 DEF LexRec
  <2> HIDE DEF t, size, c
  <2>3. c.src = t.src /\ c.full = t.full /\ c.asserted = t.asserted /\ DOMAIN c = DOMAIN t
    BY <1>1, <1>2, <2>2 DEF LexRec
  <2>4. lx'.full = lx.full /\ lx'.asserted = lx.asserted /\ lx'.src = lx.src
    BY <1>1, <1>2, <2>1, <2>3 DEF Undo, LexRec
  <2> QED  BY <2>1, <2>4, RoomAfter
<1>4. CASE CloseFailed
  <2>1. /\ pc' = "idle"
        /\ lx' = Undo([w EXCEPT !.text = <<>>, !.failed = FALSE,
                                !.line_num = tok.line_num, !.column = tok.column])
    BY <1>4 DEF CloseFailed, Return
  <2> HIDE DEF t
  <2>2. w.src = t.src /\ w.full = t.full /\ w.asserted = t.asserted /\ DOMAIN w = DOMAIN t
    BY <1>1, <1>2 DEF WithError, LexRec
  <2> HIDE DEF w
  <2>3. lx'.full = lx.full /\ lx'.asserted = lx.asserted /\ lx'.src = lx.src
    BY <1>1, <1>2, <2>1, <2>2 DEF Undo, LexRec
  <2> QED  BY <2>1, <2>3, RoomAfter
<1> QED  BY <1>3, <1>4

LEMMA RoomInit ==
    ASSUME Init
    PROVE  RoomInv
<1>1. PICK s \in Inputs, n \in ArenaSizes : lx = Fresh(s, n)  BY DEF Init
<1>2. ~lx.full /\ ~lx.asserted /\ lx.src \in Inputs  BY <1>1 DEF Fresh
<1>3. pc = "idle"  BY DEF Init
<1>4. Drifts(lx, pc, tok)  BY <1>3 DEF Drifts
<1> QED  BY <1>2, <1>4, LexerInvInit DEF RoomInv, Roomy

LEMMA RoomInvStep ==
    ASSUME FewMisplaced, RoomInv, [LexerNext]_vars
    PROVE  RoomInv'
<1>1. LexerInv'  BY LexerInvStep DEF RoomInv
<1>2. StagingMax >= 7  BY DEF FewMisplaced
<1>3. CASE UNCHANGED vars
  <2>1. lx' = lx /\ pc' = pc /\ tok' = tok  BY <1>3 DEF vars
  <2> QED  BY <1>1, <2>1 DEF RoomInv, Roomy
<1>4. CASE NextToken
  <2>1. Roomy'
    BY <1>2, <1>4, RoomBefore, RoomLogic, RoomLoops, RoomNumber, RoomString, RoomClose
    DEF NextToken
  <2> QED  BY <1>1, <2>1 DEF RoomInv
<1>5. CASE Stopped  BY <1>3, <1>5 DEF Stopped
<1> QED  BY <1>3, <1>4, <1>5 DEF LexerNext

-----------------------------------------------------------------------------
(* The results.                                                            *)

\* The staging area and the stream are in step, what is open in the arena is
\* counted, and every call begins with nothing looked at: whatever the input, the
\* client's logic, the memory for tokens and the size of the staging area.
THEOREM LexerInvariant == Spec => []LexerInv
<1>1. Init => LexerInv  BY LexerInvInit
<1>2. LexerInv /\ [LexerNext]_vars => LexerInv'  BY LexerInvStep
<1> QED  BY <1>1, <1>2, PTL DEF Spec

\* Every value keeps its type; the positions of the staging area stay in the
\* array and its padding byte.
THEOREM LexerTypeCorrect == Spec => []TypeOK
<1>1. LexerInv => TypeOK
  <2> SUFFICES ASSUME LexerInv PROVE TypeOK  OBVIOUS
  <2>1. Sound(lx) /\ OtherTypes  BY DEF LexerInv
  <2>2. /\ lx \in LexRec /\ lx.off <= Len(lx.src) /\ client \in Clients
        /\ todo \in Seq(Recognisers) /\ tok \in Tok /\ tokens \in Seq(Token)
        /\ result \in BOOLEAN /\ oom \in BOOLEAN
    BY <2>1 DEF Sound, OtherTypes
  <2>3. pc \in {"idle", "eat", "open", "logic", "identifier", "spaces", "comment", "string",
                "digits", "number", "suffix", "close", "stop"}
    BY <2>1 DEF OtherTypes, Pcs, TokenPcs
  <2> QED  BY <2>2, <2>3 DEF TypeOK, LexRec, Arena, Tok, Token
<1> QED  BY <1>1, LexerInvariant, PTL

\* Until the staging area overflows no byte of the input is lost, repeated or
\* moved by looking ahead, undoing and taking, and each call begins undone.
THEOREM BytesOnce == Spec => []EachByteOnce
<1>1. LexerInv => EachByteOnce
  <2> SUFFICES ASSUME LexerInv PROVE EachByteOnce  OBVIOUS
  <2>1. Sound(lx) /\ StartsUndone  BY DEF LexerInv
  <2>2. ASSUME ~lx.full
        PROVE  /\ \A k \in 1..Staged(lx) :
                     lx.buf[Index(lx.start_it, k - 1)] = Source(lx.taken + k)
               /\ lx.off = IF lx.taken + Staged(lx) < Len(lx.src) THEN lx.taken + Staged(lx)
                           ELSE Len(lx.src)
    BY <2>1, <2>2 DEF Sound, InStep, StagedBytes, Smaller, Shown, Source
  <2> QED  BY <2>1, <2>2 DEF EachByteOnce
<1> QED  BY <1>1, LexerInvariant, PTL

\* A walk by tokens_arena_next from the arena's first position meets each token
\* that was committed, and no other, and then the end of the data, however much
\* memory the tokens before were given and whichever were dropped for want of it.
\* That is so of the code as it is built: with TOKENS_ARENA_PACK_WITH_ALIGNMENT
\* the walk would round up what lexer_next_token does not.
THEOREM WalksMeetTokens ==
    ASSUME ~PackWithAlignment
    PROVE  Spec => []WalkMeetsTokens
<1>1. LexerInv => WalkMeetsTokens
  <2> SUFFICES ASSUME LexerInv PROVE WalkMeetsTokens  OBVIOUS
  <2>1. tokens \in Seq(Token) /\ LengthsAreTheTexts /\ InArena
    BY DEF LexerInv, OtherTypes, TokensMeet
  <2>2. ASSUME NEW i \in 1..Len(tokens)
        PROVE  TokensArenaNext(tokens[i]) =
                 IF i < Len(tokens) THEN tokens[i + 1].ref ELSE lx.arena.data_size
    <3>1. TokensArenaNext(tokens[i]) = tokens[i].ref + TokenSize + Len(tokens[i].text) + 1
      <4>1. tokens[i].len = Len(tokens[i].text)  BY <2>1 DEF LengthsAreTheTexts
      <4> QED  BY <4>1 DEF TokensArenaNext
    <3>2. CASE i < Len(tokens)
      <4>1. i \in 1..(Len(tokens) - 1)  BY <2>1, <3>2
      <4> QED  BY <2>1, <3>1, <3>2, <4>1 DEF InArena
    <3>3. CASE ~(i < Len(tokens))
      <4>1. i = Len(tokens) /\ tokens # <<>>  BY <2>1, <3>3
      <4>2. lx.arena.data_size = DataEnd  BY DEF LexerInv, Placed
      <4> QED  BY <3>1, <3>3, <4>1, <4>2 DEF DataEnd
    <3> QED  BY <3>2, <3>3
  <2> QED  BY <2>1, <2>2 DEF WalkMeetsTokens, InArena
<1> QED  BY <1>1, LexerInvariant, PTL

\* The length that tokens_arena_next walks by, which lex_emit counts on without
\* looking at what the arena answered, is that of the text that was committed: a
\* token of which a byte was refused is never committed.  How much of the text is
\* inside the arena's buffer is another matter.
THEOREM CountsAreLengths == Spec => []LengthsAreTheTexts
<1>1. LexerInv => LengthsAreTheTexts  BY DEF LexerInv, TokensMeet
<1> QED  BY <1>1, LexerInvariant, PTL

-----------------------------------------------------------------------------
(* What was read.                                                          *)

\* What is open and what was committed is the input between two bytes, and every
\* position that the lexer or a token has is that of a byte of the input.
THEOREM ReadInvariant == Spec => []ReadInv
<1>1. Init => ReadInv  BY ReadInit
<1>2. ReadInv /\ [LexerNext]_vars => ReadInv'  BY ReadInvStep
<1> QED  BY <1>1, <1>2, PTL DEF Spec

\* lexer_next_token gives a token the line and column of its first byte, whatever
\* was skipped, rejected or looked at before, until the staging area overflows or
\* a token is lost.
THEOREM PositionsAreExact == Spec => [](NotOverfull => PositionExact)
<1>1. ReadInv => (NotOverfull => PositionExact)
  <2> SUFFICES ASSUME ReadInv, ~lx.full, ~oom
               PROVE  /\ lx.line_num = LineAt(lx.taken) /\ lx.column = ColumnAt(lx.taken)
                      /\ \A t \in Produced : t.line_num = LineAt(t.from)
                                             /\ t.column = ColumnAt(t.from)
    BY DEF PositionExact, NotOverfull
  <2>1. lx.taken \in Nat /\ tokens \in Seq(Token)
    BY DEF ReadInv, LexerInv, Sound, LexRec, OtherTypes
  <2>2. /\ IsPlace(lx.src, lx.taken, lx.line_num, lx.column)
        /\ \A i \in 1..Len(tokens) : TokenPlaced(lx.src, tokens[i])
    BY DEF ReadInv, PlacesRead
  <2>3. ASSUME NEW t \in Produced
        PROVE  t.line_num = LineAt(t.from) /\ t.column = ColumnAt(t.from)
    <3>1. PICK i \in 1..Len(tokens) : t = tokens[i]  BY DEF Produced
    <3>2. t.from \in Nat
      <4>1. tokens[i] \in Token  BY <2>1
      <4> QED  BY <3>1, <4>1 DEF Token
    <3>3. IsPlace(lx.src, t.from, t.line_num, t.column)
      BY <2>2, <3>1 DEF TokenPlaced
    <3> QED  BY <3>2, <3>3, PlaceIsAt
  <2> QED  BY <2>1, <2>2, <2>3, PlaceIsAt
<1> QED  BY <1>1, ReadInvariant, PTL

\* lexer_next_token says FALSE at a byte that ends the input, or when there is no
\* memory for a token; what is staged is looked at as well as the stream.
THEOREM FalseMeansEnd == Spec => [](NotOverfull => StopsAtEnd)
<1>1. ReadInv => (NotOverfull => StopsAtEnd)
  BY DEF ReadInv, PlacesRead, AtEnd, StopsAtEnd, NotOverfull, Shown, Source
<1> QED  BY <1>1, ReadInvariant, PTL

\* The text that a recogniser stores is the stretch of input that it takes, for
\* every composition of looking ahead, undoing, accepting and rejecting in them.
THEOREM TextsAreTaken == Spec => [](NotOverfull => TextIsTaken)
<1>1. ReadInv => (NotOverfull => TextIsTaken)
  <2> SUFFICES ASSUME ReadInv, ~lx.full, NEW t \in Produced, t.err = {}
               PROVE  CASE t.kind \in PlainKinds -> t.text = Slice(t.from, t.to)
                        [] t.kind = "comment" ->
                              \E j \in {t.to - 3, t.to} : t.text = Slice(t.from + 4, j)
                        [] OTHER -> TRUE
    BY DEF TextIsTaken, TakenText, PlainKinds, NotOverfull
  <2>1. PICK i \in 1..Len(tokens) : t = tokens[i]  BY DEF Produced
  <2>2. TokenRead(lx.src, t)  BY <2>1 DEF ReadInv, TextsRead
  <2>3. \A a, b : Slice(a, b) = Stretch(lx.src, a, b)
    BY DEF Slice, Stretch, Source, Shown
  <2>4. t.kind \in PlainKinds => t.kind # "comment"  BY DEF PlainKinds
  <2> QED  BY <2>2, <2>3, <2>4 DEF TokenRead
<1> QED  BY <1>1, ReadInvariant, PTL

\* A string whose escaping backslashes all precede a character they may precede
\* is stored as its source between the delimiters without them, however many there
\* are and whatever they follow: each is left out of the text and out of nothing
\* else, and the string ends at the first delimiter that none of them escapes.
THEOREM StringsDecode == Spec => [](NotOverfull => StringDecodes)
<1>1. ReadInv => (NotOverfull => StringDecodes)
  <2> SUFFICES ASSUME ReadInv, ~lx.full, NEW t \in Produced, t.kind = "string", t.err = {}
               PROVE  LET s == Slice(t.from + 1, t.to - 1)
                          quote == Source(t.from + 1)
                      IN \E E \in SUBSET {i \in 1..Len(s) : s[i] = "\\"} :
                            /\ AreEscaping(s, E)
                            /\ (\A i \in E : i < Len(s)
                                             /\ s[i + 1] \in {quote, "\\", "\n", "\f", "\t"})
                               => IsWithout(t.text, s, E) /\ Source(t.to) = quote
    BY DEF StringDecodes, NotOverfull
  <2> DEFINE b == t.from + 1
             e == t.to - 1
             s == Stretch(lx.src, b, e)
             quote == Shown(lx.src, b)
  <2>1. PICK i \in 1..Len(tokens) : t = tokens[i]  BY DEF Produced
  <2>2. t.from \in Nat /\ t.to \in Nat
    <3>1. tokens[i] \in Token  BY DEF ReadInv, LexerInv, OtherTypes
    <3> QED  BY <2>1, <3>1 DEF Token
  <2>3. Decoded(lx.src, t.text, b, e)  BY <2>1 DEF ReadInv, TextsRead, TokenRead
  <2>4. PICK E \in SUBSET (1..(e - b)) :
          /\ AreEscaping(s, E)
          /\ \/ Misleads(lx.src, b, E)
             \/ IsWithout(t.text, s, E) /\ Shown(lx.src, e + 1) = quote
    BY <2>3 DEF Decoded
  <2>5. b \in Nat /\ e \in Nat /\ b <= e /\ e + 1 = t.to  BY <2>2, <2>3 DEF Decoded
  <2>6. Slice(t.from + 1, t.to - 1) = s /\ \A k : Source(k) = Shown(lx.src, k)
    BY DEF Slice, Stretch, Source, Shown
  <2> HIDE DEF b, e
  <2>7. Len(s) = e - b /\ e - b \in Nat /\ \A k \in 1..(e - b) : s[k] = Shown(lx.src, b + k)
    BY <2>5, StretchIs
  <2> HIDE DEF s
  <2>8. E \in SUBSET {k \in 1..Len(s) : s[k] = "\\"}  BY <2>4, <2>7 DEF AreEscaping
  <2>9. ASSUME \A k \in E : k < Len(s) /\ s[k + 1] \in {quote, "\\", "\n", "\f", "\t"}
        PROVE  ~Misleads(lx.src, b, E)
    <3> SUFFICES ASSUME NEW k \in E PROVE Shown(lx.src, b + k + 1) \in Escapable(quote)
      BY DEF Misleads
    <3>1. k + 1 \in 1..(e - b) /\ b + (k + 1) = b + k + 1  BY <2>5, <2>7, <2>9
    <3>2. s[k + 1] = Shown(lx.src, b + k + 1)  BY <2>7, <3>1
    <3> QED  BY <2>9, <3>2 DEF Escapable
  <2>10. (\A k \in E : k < Len(s) /\ s[k + 1] \in {quote, "\\", "\n", "\f", "\t"})
           => IsWithout(t.text, s, E) /\ Shown(lx.src, t.to) = quote
    BY <2>4, <2>5, <2>9
  <2>11. Source(t.from + 1) = quote /\ Source(t.to) = Shown(lx.src, t.to)
    BY <2>6 DEF b
  <2> HIDE DEF quote
  <2> QED  BY <2>4, <2>6, <2>8, <2>10, <2>11
<1> QED  BY <1>1, ReadInvariant, PTL

\* When the client's logic asks for punctuators and, unless it eats it, for
\* white space, and the inputs have no punctuator that lex_c11_punctuator does
\* not know, each token is a stretch of the input that is not empty and begins
\* where the one before it ended, or later.
THEOREM LexerRefinesTokenStream ==
    ASSUME AsksForAll, KnownPunctuators
    PROVE  Spec /\ []NotOverfull => RefinesTokenStream
<1>1. Init => TakesInv  BY TakesInit
<1>2. TakesInv /\ [LexerNext]_vars => TakesInv' /\ Streams  BY TakesInvStep
<1>3. Init => Stream!Init
  <2> SUFFICES ASSUME Init PROVE Stream!Init  OBVIOUS
  <2>1. PICK s \in Inputs, n \in ArenaSizes : lx = Fresh(s, n)  BY DEF Init
  <2>2. lx.taken = 0 /\ tokens = <<>>  BY <2>1 DEF Init, Fresh
  <2> QED  BY <2>2 DEF Stream!Init
<1>4. TakesInv /\ TakesInv' /\ Streams /\ NotOverfull => [Stream!Next]_(Stream!vars)
  BY StreamStep
<1> QED  BY <1>1, <1>2, <1>3, <1>4, PTL DEF Spec, RefinesTokenStream, Stream!Spec

\* With few misplaced backslashes the assertion of staging_area_enqueue holds:
\* whatever is looked at, undone and taken, the staging area has room for it.
THEOREM FewMisplacedHaveRoom ==
    ASSUME FewMisplaced
    PROVE  Spec => [](StagingHasRoom /\ NotOverfull)
<1>1. Init => RoomInv  BY RoomInit
<1>2. RoomInv /\ [LexerNext]_vars => RoomInv'  BY RoomInvStep
<1>3. RoomInv => StagingHasRoom /\ NotOverfull
  BY DEF RoomInv, Roomy, StagingHasRoom, NotOverfull
<1> QED  BY <1>1, <1>2, <1>3, PTL DEF Spec

\* So with few misplaced backslashes the claims made of a staging area with room
\* hold outright: the line and the column are exact, FALSE means the end, each
\* text is what was taken, and a string's text is what it decodes to.
COROLLARY FewMisplacedReadExactly ==
    ASSUME FewMisplaced
    PROVE  Spec => [](PositionExact /\ StopsAtEnd /\ TextIsTaken /\ StringDecodes)
BY FewMisplacedHaveRoom, PositionsAreExact, FalseMeansEnd, TextsAreTaken, StringsDecode, PTL

\* And the lexer refines TokenStream with no hypothesis on a run, only on the
\* client's logic and on the inputs.
COROLLARY FewMisplacedRefine ==
    ASSUME AsksForAll, KnownPunctuators, FewMisplaced
    PROVE  Spec => RefinesTokenStream
BY FewMisplacedHaveRoom, LexerRefinesTokenStream, PTL
=============================================================================

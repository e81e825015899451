---------------------------- MODULE IStreamProofs ----------------------------
(***************************************************************************)
(* Proofs about the input stream, for all files, handles and cache sizes.  *)
(***************************************************************************)
EXTENDS IStream, SequenceTheorems, TLAPS

\* What the client has when a stream was read to its end.
AllGiven == got = content /\ shown = SubSeq(content, 1, Len(content) - 1)

\* Where the stream is: before a byte it has all of TRUE; with no bytes it
\* never had any; behind the last byte, which came with FALSE, it has given all.
Where ==
    /\ buffer_it < Len(buffer) => result /\ shown = got
    /\ buffer = <<>> =>
          got = <<>> /\ shown = <<>> /\ offset = 0 /\ (~erred => content = <<>>)
    /\ buffer # <<>> /\ buffer_it = Len(buffer) /\ ~erred => AllGiven

StreamInv ==
    TypeOK /\ NothingRepeatedOrSkipped /\ ClosesOnlyOpenFiles /\ Where

-----------------------------------------------------------------------------
(* Stretches of a file.                                                    *)

LEMMA FilesAreSeqs ==
    /\ \A f \in File \cup {<<>>} : f \in Seq(Nat)
    /\ CacheSize \in Nat \ {0}
BY StreamAssumption, EmptySeq

LEMMA EmptyStretch ==
    ASSUME NEW s, NEW n \in Int
    PROVE  SubSeq(s, n + 1, n) = <<>>
BY SubSeqEmpty

\* The bytes that follow the first o, n of them.
LEMMA Stretch ==
    ASSUME NEW f \in Seq(Nat), NEW o \in 0..Len(f), NEW n \in Nat, o + n <= Len(f)
    PROVE  /\ SubSeq(f, o + 1, o + n) \in Seq(Nat)
           /\ Len(SubSeq(f, o + 1, o + n)) = n
<1>1. Len(f) \in Nat  BY LenProperties
<1>2. \A i \in (o + 1)..(o + n) : f[i] \in Nat
  BY <1>1, ElementOfSeq
<1>3. o + 1 \in Int /\ o + n \in Int  BY <1>1
<1>4. SubSeq(f, o + 1, o + n) \in Seq(Nat)
  BY <1>2, <1>3, SubSeqProperties
<1>5. Len(SubSeq(f, o + 1, o + n)) =
        IF o + 1 <= o + n THEN (o + n) - (o + 1) + 1 ELSE 0
  BY <1>2, <1>3, SubSeqProperties
<1> QED  BY <1>1, <1>4, <1>5

LEMMA StretchesJoin ==
    ASSUME NEW f \in Seq(Nat), NEW o \in 0..Len(f), NEW n \in Nat, o + n <= Len(f)
    PROVE  SubSeq(f, 1, o) \o SubSeq(f, o + 1, o + n) = SubSeq(f, 1, o + n)
<1>1. Len(f) \in Nat  BY LenProperties
<1>2. 1 \in 1..(Len(f) + 1) /\ o \in (1 - 1)..Len(f) /\ o + n \in o..Len(f)
  BY <1>1
<1> QED  BY <1>2, ConcatAdjacentSubSeq

LEMMA Regrouped ==
    ASSUME NEW s \in Seq(Nat), NEW t \in Seq(Nat), NEW u \in Seq(Nat)
    PROVE  (s \o t) \o u = s \o (t \o u)
BY ConcatAssociative

\* Taking the next of the buffered bytes leaves the same ones in the same order.
LEMMA ByteMoves ==
    ASSUME NEW g \in Seq(Nat), NEW b \in Seq(Nat), NEW i \in Nat, i < Len(b)
    PROVE  /\ b[i + 1] \in Nat
           /\ Append(g, b[i + 1]) \in Seq(Nat)
           /\ Append(g, b[i + 1]) \o SubSeq(b, i + 2, Len(b))
                = g \o SubSeq(b, i + 1, Len(b))
<1>1. Len(b) \in Nat  BY LenProperties
<1>2. b[i + 1] \in Nat  BY <1>1, ElementOfSeq
<1>3. Append(g, b[i + 1]) = g \o <<b[i + 1]>> /\ Append(g, b[i + 1]) \in Seq(Nat)
  BY <1>2, AppendIsConcat, AppendProperties
<1>4. SubSeq(b, i + 1, Len(b)) = <<b[i + 1]>> \o SubSeq(b, i + 2, Len(b))
  <2>1. i + 1 \in 1..Len(b) /\ Len(b) \in (i + 1)..Len(b) /\ (i + 1) + 1 = i + 2
    BY <1>1
  <2> QED  BY <2>1, SubSeqRecursiveFirst
<1>5. SubSeq(b, i + 2, Len(b)) \in Seq(Nat)
  <2>1. \A k \in (i + 2)..Len(b) : b[k] \in Nat  BY <1>1, ElementOfSeq
  <2> QED  BY <1>1, <2>1, SubSeqProperties
<1>6. <<b[i + 1]>> \in Seq(Nat)  BY <1>2
<1>7. (g \o <<b[i + 1]>>) \o SubSeq(b, i + 2, Len(b))
        = g \o (<<b[i + 1]>> \o SubSeq(b, i + 2, Len(b)))
  BY <1>5, <1>6, Regrouped
<1> QED  BY <1>2, <1>3, <1>4, <1>7

\* What is a file once its last byte is added was all of it but that byte.
LEMMA AllButLast ==
    ASSUME NEW g \in Seq(Nat), NEW e \in Nat
    PROVE  g = SubSeq(Append(g, e), 1, Len(Append(g, e)) - 1)
<1>1. Append(g, e) \in Seq(Nat) /\ Len(Append(g, e)) = Len(g) + 1 /\ Len(g) \in Nat
  BY AppendProperties, LenProperties
<1>2. Append(g, e) = g \o <<e>>  BY AppendIsConcat
<1>3. <<e>> \in Seq(Nat)  OBVIOUS
<1>4. CASE Len(g) = 0
  <2>1. g = <<>>  BY <1>4, EmptySeq
  <2>2. SubSeq(Append(g, e), 1, 0) = <<>>  BY SubSeqEmpty
  <2> QED  BY <1>1, <1>4, <2>1, <2>2
<1>5. CASE Len(g) # 0
  <2>1. 1 \in 1..Len(g) /\ Len(g) \in 1..Len(g)  BY <1>1, <1>5
  <2>2. SubSeq(g \o <<e>>, 1, Len(g)) = SubSeq(g, 1, Len(g))
    BY <1>3, <2>1, SubSeqOfConcat1
  <2>3. SubSeq(g, 1, Len(g)) = g  BY SubSeqFull
  <2> QED  BY <1>1, <1>2, <2>2, <2>3
<1> QED  BY <1>4, <1>5

-----------------------------------------------------------------------------
(* The refill.                                                             *)

\* A refill that gets bytes puts behind those given what follows in the file.
LEMMA RefilledContinues ==
    ASSUME NEW f \in Seq(Nat), NEW o \in 0..Len(f), NEW g, g = SubSeq(f, 1, o),
           Refilled(f, o)
    PROVE  /\ buffer' \in Seq(Nat) /\ 0 < Len(buffer') /\ Len(buffer') <= CacheSize
           /\ buffer' # <<>> /\ buffer_it' = 0
           /\ offset' \in 0..Len(f) /\ result' = TRUE
           /\ g \o SubSeq(buffer', buffer_it' + 1, Len(buffer')) = SubSeq(f, 1, offset')
<1>1. PICK n \in Readable(f, o) :
        /\ buffer' = SubSeq(f, o + 1, o + n) /\ buffer_it' = 0
        /\ offset' = o + n /\ result' = TRUE
  BY DEF Refilled
<1>2. n \in Nat /\ 0 < n /\ n <= CacheSize /\ o + n <= Len(f)
  BY <1>1, FilesAreSeqs DEF Readable
<1>3. buffer' \in Seq(Nat) /\ Len(buffer') = n
  BY <1>1, <1>2, Stretch
<1>4. buffer' # <<>>
  BY <1>2, <1>3
<1>5. SubSeq(buffer', 1, Len(buffer')) = buffer'
  BY <1>3, SubSeqFull
<1>6. g \o buffer' = SubSeq(f, 1, offset')
  BY <1>1, <1>2, StretchesJoin
<1>7. offset' \in 0..Len(f)
  <2>1. Len(f) \in Nat  BY LenProperties
  <2> QED  BY <1>1, <1>2, <2>1
<1>8. buffer_it' + 1 = 1  BY <1>1
<1> QED  BY <1>1, <1>2, <1>3, <1>4, <1>5, <1>6, <1>7, <1>8

\* A refill gets nothing only at the end of the file.
LEMMA NothingAtEnd ==
    ASSUME NEW f \in Seq(Nat), NEW o \in 0..Len(f), Readable(f, o) = {}
    PROVE  o = Len(f)
<1>1. Len(f) \in Nat /\ CacheSize \in Nat \ {0}
  BY LenProperties, FilesAreSeqs
<1>2. 1 \in 1..CacheSize  BY <1>1
<1>3. ~(o + 1 <= Len(f))  BY <1>2 DEF Readable
<1> QED  BY <1>1, <1>3

-----------------------------------------------------------------------------
(* The invariant, operation by operation.                                  *)

LEMMA StreamInvInit == Init => StreamInv
<1> SUFFICES ASSUME Init PROVE StreamInv
  OBVIOUS
<1>1. /\ fh = Stdin /\ buffer = <<>> /\ buffer_it = 0 /\ content = <<>> /\ offset = 0
      /\ erred = FALSE /\ opened = Standard /\ got = <<>> /\ shown = <<>> /\ result = FALSE
  BY DEF Init
<1>2. Len(<<>>) = 0 /\ <<>> \in Seq(Nat)  BY EmptySeq
<1>3. TypeOK
  <2>1. fh \in Standard /\ opened \in SUBSET (Standard \cup Handle)
    BY <1>1 DEF Stdin, Standard
  <2>2. buffer \in Seq(Nat) /\ got \in Seq(Nat) /\ shown \in Seq(Nat)
    BY <1>1, <1>2
  <2>3. Len(buffer) <= CacheSize /\ buffer_it \in 0..Len(buffer) /\ offset \in 0..Len(content)
    BY <1>1, <1>2, FilesAreSeqs
  <2> QED  BY <1>1, <2>1, <2>2, <2>3 DEF TypeOK
<1>4. NothingRepeatedOrSkipped
  <2>1. SubSeq(<<>>, 1, 0) = <<>>  BY SubSeqEmpty
  <2>2. <<>> \o <<>> = <<>>  BY <1>2, ConcatEmptySeq
  <2> QED  BY <1>1, <1>2, <2>1, <2>2 DEF NothingRepeatedOrSkipped
<1>5. ClosesOnlyOpenFiles
  BY <1>1 DEF ClosesOnlyOpenFiles, Standard, Stdin
<1>6. Where
  BY <1>1, <1>2 DEF Where
<1> QED  BY <1>3, <1>4, <1>5, <1>6 DEF StreamInv

\* A stream is set up: on a file or on the standard input.
LEMMA SetUp ==
    ASSUME StreamInv, Idle, NEW f \in File,
           fh' \in Standard \cup Handle, opened' \in SUBSET (Standard \cup Handle),
           fh' \in opened', Standard \subseteq opened',
           content' = f, Refill(f, 0, <<>>, 0), UNCHANGED <<got, shown>>
    PROVE  StreamInv'
<1>1. f \in Seq(Nat) /\ Len(f) \in Nat /\ 0 \in 0..Len(f)
  BY FilesAreSeqs, LenProperties
<1>2. got = <<>> /\ shown = <<>> /\ erred \in BOOLEAN
  BY DEF StreamInv, Where, TypeOK, Idle
<1>3. Len(<<>>) = 0 /\ <<>> \in Seq(Nat)  BY EmptySeq
<1>4. SubSeq(f, 1, 0) = <<>>  BY SubSeqEmpty
<1>5. ClosesOnlyOpenFiles'
  BY DEF ClosesOnlyOpenFiles
<1>6. CASE Refilled(f, 0) /\ UNCHANGED erred
  <2>1. /\ buffer' \in Seq(Nat) /\ 0 < Len(buffer') /\ Len(buffer') <= CacheSize
        /\ buffer' # <<>> /\ buffer_it' = 0
        /\ offset' \in 0..Len(f) /\ result' = TRUE
        /\ <<>> \o SubSeq(buffer', buffer_it' + 1, Len(buffer')) = SubSeq(f, 1, offset')
    BY <1>1, <1>4, <1>6, RefilledContinues
  <2>2. Len(buffer') \in Nat  BY <2>1, LenProperties
  <2>3. TypeOK'
    BY <1>2, <1>3, <1>6, <2>1, <2>2 DEF TypeOK
  <2>4. NothingRepeatedOrSkipped'
    BY <1>2, <2>1 DEF NothingRepeatedOrSkipped
  <2>5. Where'
    BY <1>2, <2>1, <2>2 DEF Where
  <2> QED  BY <1>5, <2>3, <2>4, <2>5 DEF StreamInv
<1>7. CASE /\ NotRefilled(0, <<>>, 0) /\ erred' \in BOOLEAN
           /\ (~erred' => Readable(f, 0) = {})
  <2>1. buffer' = <<>> /\ buffer_it' = 0 /\ offset' = 0 /\ result' = FALSE
    BY <1>7 DEF NotRefilled
  <2>2. ~erred' => f = <<>>
    <3> SUFFICES ASSUME ~erred' PROVE f = <<>>
      OBVIOUS
    <3>1. 0 = Len(f)  BY <1>1, <1>7, NothingAtEnd
    <3> QED  BY <1>1, <3>1, EmptySeq
  <2>3. TypeOK'
    <3>1. buffer' \in Seq(Nat) /\ got' \in Seq(Nat) /\ shown' \in Seq(Nat)
      BY <1>2, <1>3, <2>1
    <3>2. Len(buffer') <= CacheSize /\ buffer_it' \in 0..Len(buffer') /\ offset' \in 0..Len(content')
      BY <1>1, <1>3, <2>1, FilesAreSeqs
    <3> QED  BY <1>7, <2>1, <3>1, <3>2 DEF TypeOK
  <2>4. NothingRepeatedOrSkipped'
    <3>1. SubSeq(<<>>, 1, 0) = <<>>  BY SubSeqEmpty
    <3>2. <<>> \o <<>> = <<>>  BY <1>3, ConcatEmptySeq
    <3> QED  BY <1>2, <1>3, <1>4, <2>1, <3>1, <3>2 DEF NothingRepeatedOrSkipped
  <2>5. Where'
    BY <1>2, <1>3, <2>1, <2>2 DEF Where
  <2> QED  BY <1>5, <2>3, <2>4, <2>5 DEF StreamInv
<1> QED  BY <1>2, <1>6, <1>7 DEF Refill

LEMMA StepInits ==
    ASSUME StreamInv
    PROVE  /\ \A f \in File, h \in Handle : InitFromFile(f, h) => StreamInv'
           /\ InitFails => StreamInv'
           /\ \A f \in File : InitFromStdin(f) => StreamInv'
<1>1. ASSUME NEW f \in File, NEW h \in Handle, InitFromFile(f, h) PROVE StreamInv'
  BY <1>1, SetUp DEF InitFromFile, client, StreamInv, TypeOK, ClosesOnlyOpenFiles
<1>2. ASSUME InitFails PROVE StreamInv'
  <2>1. /\ fh' = Invalid /\ result' = FALSE /\ buffer = <<>>
        /\ UNCHANGED <<buffer, buffer_it, content, offset, erred, opened, got, shown>>
    BY <1>2 DEF InitFails, Idle
  <2>2. Len(<<>>) = 0  BY EmptySeq
  <2>3. TypeOK'  BY <2>1 DEF StreamInv, TypeOK
  <2>4. NothingRepeatedOrSkipped'
    BY <2>1 DEF StreamInv, NothingRepeatedOrSkipped
  <2>5. ClosesOnlyOpenFiles'
    BY <2>1 DEF StreamInv, ClosesOnlyOpenFiles
  <2>6. ~(buffer_it < Len(buffer))
    BY <2>1, <2>2 DEF StreamInv, TypeOK
  <2>7. Where'
    BY <2>1, <2>6 DEF StreamInv, Where
  <2> QED  BY <2>3, <2>4, <2>5, <2>7 DEF StreamInv
<1>3. ASSUME NEW f \in File, InitFromStdin(f) PROVE StreamInv'
  <2>1. fh' \in Standard /\ opened' = opened /\ Standard \subseteq opened
    BY <1>3 DEF InitFromStdin, StreamInv, ClosesOnlyOpenFiles, Stdin, Standard
  <2> QED  BY <1>3, <2>1, SetUp DEF InitFromStdin, StreamInv, TypeOK
<1> QED  BY <1>1, <1>2, <1>3

LEMMA StepReadNextByte ==
    ASSUME StreamInv, ReadNextByte
    PROVE  StreamInv'
<1> DEFINE len == Len(buffer)
           byte == buffer[buffer_it + 1]
           more == Append(got, byte)
<1>1. /\ buffer \in Seq(Nat) /\ len \in Nat /\ len <= CacheSize
      /\ buffer_it \in Nat /\ buffer_it < len
      /\ content \in Seq(Nat) /\ Len(content) \in Nat /\ offset \in 0..Len(content)
      /\ got \in Seq(Nat) /\ shown \in Seq(Nat) /\ erred \in BOOLEAN
  <2>1. buffer \in Seq(Nat) /\ len <= CacheSize /\ buffer_it \in 0..len
    BY DEF StreamInv, TypeOK
  <2>2. len \in Nat  BY <2>1, LenProperties
  <2>3. content \in Seq(Nat)  BY FilesAreSeqs DEF StreamInv, TypeOK
  <2>4. Len(content) \in Nat  BY <2>3, LenProperties
  <2>5. buffer_it < len  BY DEF ReadNextByte, PeekSucceeds
  <2> QED  BY <2>1, <2>2, <2>3, <2>4, <2>5 DEF StreamInv, TypeOK
<1>2. /\ got' = more /\ shown' = (IF result' THEN more ELSE shown)
      /\ UNCHANGED <<fh, content, opened>>
  BY DEF ReadNextByte
<1>3. shown = got  BY <1>1 DEF StreamInv, Where
<1>4. /\ byte \in Nat /\ more \in Seq(Nat)
      /\ more \o SubSeq(buffer, buffer_it + 2, len) = SubSeq(content, 1, offset)
  BY <1>1, ByteMoves DEF StreamInv, NothingRepeatedOrSkipped
<1>5. ClosesOnlyOpenFiles'
  BY <1>2 DEF StreamInv, ClosesOnlyOpenFiles
<1>6. CASE buffer_it + 1 # len
  <2>1. buffer_it' = buffer_it + 1 /\ result' = TRUE /\ UNCHANGED <<buffer, offset, erred>>
    BY <1>6 DEF ReadNextByte
  <2>2. buffer_it' \in 0..len /\ buffer_it' < len /\ buffer_it' + 1 = buffer_it + 2
    BY <1>1, <1>6, <2>1
  <2>3. shown' = more  BY <1>2, <2>1
  <2>4. TypeOK'
    BY <1>2, <1>4, <2>1, <2>2, <2>3 DEF StreamInv, TypeOK
  <2>5. NothingRepeatedOrSkipped'
    BY <1>2, <1>4, <2>1, <2>2 DEF NothingRepeatedOrSkipped
  <2>6. Where'
    <3>1. buffer # <<>>  BY <1>1, EmptySeq
    <3> QED  BY <1>1, <1>2, <2>1, <2>2, <2>3, <3>1 DEF Where
  <2> QED  BY <1>5, <2>4, <2>5, <2>6 DEF StreamInv
<1>7. CASE buffer_it + 1 = len
  <2>1. Refill(content, offset, buffer, buffer_it + 1)
    BY <1>7 DEF ReadNextByte
  <2>2. more = SubSeq(content, 1, offset)
    <3>1. SubSeq(buffer, buffer_it + 2, len) = <<>>
      <4>1. buffer_it + 2 \in Int /\ len < buffer_it + 2  BY <1>1, <1>7
      <4> QED  BY <1>1, <4>1, SubSeqEmpty
    <3>2. more \o <<>> = more  BY <1>4, ConcatEmptySeq
    <3> QED  BY <1>4, <3>1, <3>2
  <2>3. CASE Refilled(content, offset) /\ UNCHANGED erred
    <3>1. /\ buffer' \in Seq(Nat) /\ 0 < Len(buffer') /\ Len(buffer') <= CacheSize
          /\ buffer' # <<>> /\ buffer_it' = 0
          /\ offset' \in 0..Len(content) /\ result' = TRUE
          /\ more \o SubSeq(buffer', buffer_it' + 1, Len(buffer')) = SubSeq(content, 1, offset')
      BY <1>1, <2>2, <2>3, RefilledContinues
    <3>2. Len(buffer') \in Nat  BY <3>1, LenProperties
    <3>3. shown' = more  BY <1>2, <3>1
    <3>4. buffer_it' \in 0..Len(buffer')  BY <3>1, <3>2
    <3>5. TypeOK'
      BY <1>2, <1>4, <2>3, <3>1, <3>3, <3>4 DEF StreamInv, TypeOK
    <3>6. NothingRepeatedOrSkipped'
      BY <1>2, <3>1 DEF NothingRepeatedOrSkipped
    <3>7. Where'
      BY <1>2, <3>1, <3>2, <3>3 DEF Where
    <3> QED  BY <1>5, <3>5, <3>6, <3>7 DEF StreamInv
  <2>4. CASE /\ NotRefilled(offset, buffer, buffer_it + 1) /\ erred' \in BOOLEAN
             /\ (~erred' => Readable(content, offset) = {})
    <3>1. buffer' = buffer /\ buffer_it' = len /\ offset' = offset /\ result' = FALSE
      BY <1>7, <2>4 DEF NotRefilled
    <3>2. shown' = got  BY <1>2, <1>3, <3>1
    <3>3. len \in 0..len  BY <1>1
    <3>4. TypeOK'
      BY <1>1, <1>2, <1>4, <2>4, <3>1, <3>2, <3>3 DEF StreamInv, TypeOK
    <3>5. NothingRepeatedOrSkipped'
      <4>1. SubSeq(buffer, len + 1, len) = <<>>  BY <1>1, EmptyStretch
      <4>2. more \o <<>> = more  BY <1>4, ConcatEmptySeq
      <4> QED  BY <1>2, <2>2, <3>1, <4>1, <4>2 DEF NothingRepeatedOrSkipped
    <3>6. ~erred' => AllGiven'
      <4> SUFFICES ASSUME ~erred' PROVE AllGiven'
        OBVIOUS
      <4>1. offset = Len(content)  BY <1>1, <2>4, NothingAtEnd
      <4>2. more = content  BY <1>1, <2>2, <4>1, SubSeqFull
      <4>3. got = SubSeq(more, 1, Len(more) - 1)  BY <1>1, <1>4, AllButLast
      <4> QED  BY <1>2, <3>2, <4>2, <4>3 DEF AllGiven
    <3>7. Where'
      <4>1. buffer # <<>>  BY <1>1, EmptySeq
      <4>2. ~(len < len)  BY <1>1
      <4> QED  BY <3>1, <3>6, <4>1, <4>2 DEF Where
    <3> QED  BY <1>5, <3>4, <3>5, <3>7 DEF StreamInv
  <2> QED  BY <1>1, <2>1, <2>3, <2>4 DEF Refill
<1> QED  BY <1>6, <1>7

LEMMA StepReadAtEnd ==
    ASSUME StreamInv, ReadAtEnd
    PROVE  StreamInv'
<1>1. /\ ~(buffer_it < Len(buffer)) /\ result' = FALSE
      /\ UNCHANGED <<fh, buffer, buffer_it, content, offset, erred, opened, got, shown>>
  BY DEF ReadAtEnd, PeekSucceeds
<1>2. TypeOK'  BY <1>1 DEF StreamInv, TypeOK
<1>3. NothingRepeatedOrSkipped'  BY <1>1 DEF StreamInv, NothingRepeatedOrSkipped
<1>4. ClosesOnlyOpenFiles'  BY <1>1 DEF StreamInv, ClosesOnlyOpenFiles
<1>5. Where'  BY <1>1 DEF StreamInv, Where, AllGiven
<1> QED  BY <1>2, <1>3, <1>4, <1>5 DEF StreamInv

LEMMA StepDeinit ==
    ASSUME StreamInv, NEW close \in BOOLEAN, Deinit(close)
    PROVE  StreamInv'
<1>1. /\ opened' = (IF Closes(close) THEN opened \ {fh} ELSE opened)
      /\ fh' = Stdin /\ buffer' = <<>> /\ buffer_it' = 0 /\ content' = <<>> /\ offset' = 0
      /\ erred' = FALSE /\ got' = <<>> /\ shown' = <<>> /\ result' = result
  BY DEF Deinit
<1>2. Len(<<>>) = 0 /\ <<>> \in Seq(Nat)  BY EmptySeq
<1>3. TypeOK'
  <2>0. fh' \in Standard
    BY <1>1 DEF Stdin, Standard
  <2>1. opened' \in SUBSET (Standard \cup Handle)
    <3>1. opened \in SUBSET (Standard \cup Handle)  BY DEF StreamInv, TypeOK
    <3>2. opened' \subseteq opened  BY <1>1
    <3> QED  BY <3>1, <3>2
  <2>2. buffer' \in Seq(Nat) /\ got' \in Seq(Nat) /\ shown' \in Seq(Nat)
    BY <1>1, <1>2
  <2>3. Len(buffer') <= CacheSize /\ buffer_it' \in 0..Len(buffer') /\ offset' \in 0..Len(content')
    BY <1>1, <1>2, FilesAreSeqs
  <2> QED  BY <1>1, <2>0, <2>1, <2>2, <2>3 DEF StreamInv, TypeOK
<1>4. NothingRepeatedOrSkipped'
  <2>1. SubSeq(<<>>, 1, 0) = <<>>  BY SubSeqEmpty
  <2>2. <<>> \o <<>> = <<>>  BY <1>2, ConcatEmptySeq
  <2> QED  BY <1>1, <1>2, <2>1, <2>2 DEF NothingRepeatedOrSkipped
<1>5. ClosesOnlyOpenFiles'
  BY <1>1 DEF StreamInv, ClosesOnlyOpenFiles, Closes, Stdin, Standard
<1>6. Where'  BY <1>1, <1>2 DEF Where
<1> QED  BY <1>3, <1>4, <1>5, <1>6 DEF StreamInv

LEMMA StreamInvStep == StreamInv /\ [Next]_vars => StreamInv'
<1> SUFFICES ASSUME StreamInv, [Next]_vars PROVE StreamInv'
  OBVIOUS
<1>1. CASE UNCHANGED vars
  BY <1>1 DEF vars, StreamInv, TypeOK, NothingRepeatedOrSkipped, ClosesOnlyOpenFiles,
              Where, AllGiven
<1> QED
  BY <1>1, StepInits, StepReadNextByte, StepReadAtEnd, StepDeinit DEF Next

\* The invariant of the stream.
THEOREM StreamInvariant == Spec => []StreamInv
<1>1. Init => StreamInv  BY StreamInvInit
<1>2. StreamInv /\ [Next]_vars => StreamInv'  BY StreamInvStep
<1> QED  BY <1>1, <1>2, PTL DEF Spec

\* The stream keeps its types, and its position stays within its buffer.
THEOREM StreamTypes == Spec => []TypeOK
<1>1. StreamInv => TypeOK  BY DEF StreamInv
<1> QED  BY <1>1, StreamInvariant, PTL

\* For every file, cache size and outcome of the refills no byte is repeated,
\* dropped or moved.
THEOREM EachByteInOrder == Spec => []NothingRepeatedOrSkipped
<1>1. StreamInv => NothingRepeatedOrSkipped  BY DEF StreamInv
<1> QED  BY <1>1, StreamInvariant, PTL

\* However often istream_deinit is called, it closes only what is open.
THEOREM DeinitIsSafe == Spec => []ClosesOnlyOpenFiles
<1>1. StreamInv => ClosesOnlyOpenFiles  BY DEF StreamInv
<1> QED  BY <1>1, StreamInvariant, PTL

\* FALSE without a failed read() means that the client has the whole file, and
\* had its last byte with that FALSE.
THEOREM FalseIsTheEnd == Spec => []FalseOnlyAtEnd
<1>1. StreamInv => FalseOnlyAtEnd
  <2> SUFFICES ASSUME StreamInv, ~result, ~erred PROVE AllGiven
    BY DEF FalseOnlyAtEnd, AllGiven
  <2>1. buffer \in Seq(Nat) /\ buffer_it \in 0..Len(buffer)
    BY DEF StreamInv, TypeOK
  <2>2. Len(buffer) \in Nat  BY <2>1, LenProperties
  <2>3. buffer_it = Len(buffer)
    <3>1. ~(buffer_it < Len(buffer))  BY DEF StreamInv, Where
    <3> QED  BY <2>1, <2>2, <3>1
  <2>4. CASE buffer = <<>>
    <3>1. got = <<>> /\ shown = <<>> /\ content = <<>>
      BY <2>4 DEF StreamInv, Where
    <3>2. Len(<<>>) - 1 = -1  BY EmptySeq
    <3>3. SubSeq(<<>>, 1, -1) = <<>>  BY SubSeqEmpty
    <3> QED  BY <3>1, <3>2, <3>3 DEF AllGiven
  <2>5. CASE buffer # <<>>
    BY <2>3, <2>5 DEF StreamInv, Where
  <2> QED  BY <2>4, <2>5
<1> QED  BY <1>1, StreamInvariant, PTL
=============================================================================

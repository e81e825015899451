---------------------------- MODULE MFListProofs ----------------------------
(***************************************************************************)
(* The free list for every set of addresses, categories, header sizes and  *)
(* lengths: only the last block of a chunk is ever available, the blocks   *)
(* tile the chunk, the maximum kept is exact, and the list implements the  *)
(* abstract byte store, although what it clears overhangs its chunk.       *)
(***************************************************************************)
EXTENDS MFList, SequenceTheorems, FiniteSetTheorems, TLAPS

\* What is cut off a block is at least two headers long: a tenth of 16 KB and
\* more is, and the alignment of the first block takes less than one.
RestsAreBlocks ==
    \A k \in 1..Len(CategSize) : CategSize[k] \div LeastPart >= 2 * BlockHeader

-----------------------------------------------------------------------------
(* The inductive invariant.                                                *)

Block == [at : Nat, size : Nat, avail : BOOLEAN]

ChunkInfo == [categ : Categ, size : Nat, max : Nat, blocks : Blocks]

After(block) == block.at + BlockHeader + block.size

\* Where the last block of a chunk ends: beyond the chunk, if the first is
\* aligned further than the chunk's header ends.
EndAt(c, chunk) == FirstAt(c) - ChunkHeader + chunk.size

InOrder(blocks) ==
    \A i \in 1..Len(blocks) : \A j \in (i + 1)..Len(blocks) :
        After(blocks[i]) <= blocks[j].at

Joined(blocks) ==
    \A i \in 1..(Len(blocks) - 1) :
        ~blocks[i].avail /\ blocks[i + 1].at = After(blocks[i])

Last(blocks) == blocks[Len(blocks)]

Tiled(c, chunk) ==
    /\ chunk.blocks[1].at = FirstAt(c)
    /\ InOrder(chunk.blocks)
    /\ Joined(chunk.blocks)
    /\ After(Last(chunk.blocks)) = EndAt(c, chunk)
    /\ Len(chunk.blocks) > 1 => Last(chunk.blocks).at + BlockHeader < chunk.size
    /\ chunk.max = IF Last(chunk.blocks).avail THEN Last(chunk.blocks).size ELSE 0

Sound(c, chunk) ==
    /\ chunk \in ChunkInfo
    /\ chunk.blocks # <<>>
    /\ chunk.categ # More => chunk.size = CategSize[chunk.categ]
    /\ Tiled(c, chunk)

\* What the client asked for at h lies in a block of its own.
LiveAt(headers, h, n) ==
    /\ \E i \in DOMAIN headers[h[1]].blocks :
          LET block == headers[h[1]].blocks[i]
          IN  ~block.avail /\ PayloadAt(block) = h[2] /\ n <= block.size
    /\ h[2] + n <= headers[h[1]].size

Fresh(g) == \A h \in DOMAIN live : h # g

IsBlock(blocks, block) == \E j \in 1..Len(blocks) : blocks[j] = block

ListTypes ==
    /\ chunks \in [Categ -> Seq(Chunk)]
    /\ Chained \subseteq DOMAIN info /\ DOMAIN info \subseteq Chunk
    /\ user_usage \in Nat /\ alloc_usage \in Nat

ChunksSound == \A c \in DOMAIN info : Sound(c, info[c])

BytesTyped ==
    /\ DOMAIN mem = DOMAIN info
    /\ \A c \in DOMAIN mem : mem[c] \in [0..(info[c].size - 1) -> Cell]

ChunksApart ==
    \A c, d \in DOMAIN info : c # d => Apart(c, info[c].size, d, info[d].size)

LiveTypes ==
    /\ DOMAIN live \subseteq (DOMAIN info) \X Nat
    /\ \A h \in DOMAIN live : live[h] \in Length

\* TypeOK says nothing of how the blocks of a chunk follow each other, the
\* maximum is exact only because a block before the last is never available, and
\* a clear that leaves its chunk meets no more than the header of another one.
ListInv ==
    ListTypes /\ ChunksSound /\ ChunksApart /\ BytesTyped /\ LiveTypes /\ LiveInsideBlocks

-----------------------------------------------------------------------------
(* Sizes.                                                                  *)

LEMMA LeastExists ==
    ASSUME NEW S \in SUBSET Nat, S # {}
    PROVE  \E x \in S : \A y \in S : x <= y
<1> DEFINE T == {1..x : x \in S}
<1>1. T \subseteq FiniteSubsetsOf(Nat) /\ T # {}
  <2>1. \A x \in Nat : 1..x \in SUBSET Nat /\ IsFiniteSet(1..x)
    BY FS_Interval
  <2> QED  BY <2>1 DEF FiniteSubsetsOf
<1>2. PICK t \in T : \A u \in T : ~(<<u, t>> \in StrictSubsetOrdering(Nat))
  <2> HIDE DEF T
  <2> QED  BY <1>1, FS_StrictSubsetOrderingWellFounded, WFMin
<1>3. PICK x \in S : t = 1..x
  OBVIOUS
<1>4. \A y \in S : x <= y
  <2> SUFFICES ASSUME NEW y \in S, ~(x <= y) PROVE FALSE
    OBVIOUS
  <2>1. y < x /\ x \in Nat /\ y \in Nat  OBVIOUS
  <2>2. 1..y \subseteq 1..x /\ x \in 1..x /\ x \notin 1..y
    BY <2>1
  <2>3. 1..y # 1..x  BY <2>2
  <2>4. <<1..y, 1..x>> \in StrictSubsetOrdering(Nat)
    BY <2>1, <2>2, <2>3 DEF StrictSubsetOrdering
  <2> QED  BY <1>2, <1>3, <2>4
<1> QED  BY <1>4

LEMMA RoundUpBounds ==
    ASSUME NEW n \in Nat, NEW a \in Nat \ {0}
    PROVE  /\ RoundUp(n, a) \in Nat
           /\ n <= RoundUp(n, a)
           /\ RoundUp(n, a) < n + a
BY DEF RoundUp

LEMMA Sizes ==
    /\ ChunkHeader \in Nat /\ ChunkHeader > 0
    /\ BlockHeader \in Nat /\ BlockHeader > 0
    /\ Page \in Nat /\ Page > 0
    /\ Share \in Nat /\ Share > 0
    /\ LeastPart \in Nat /\ LeastPart > 0
    /\ Len(CategSize) \in Nat
    /\ \A k \in 1..Len(CategSize) : CategSize[k] \in Nat
BY ListAssumption, LenProperties, ElementOfSeq

LEMMA Headers ==
    /\ ChunkHeader \in Nat /\ ChunkHeader > 0
    /\ BlockHeader \in Nat /\ BlockHeader > 0
BY ListAssumption

LEMMA AllocSizeBounds ==
    ASSUME NEW n \in Nat
    PROVE  AllocSize(n) \in Nat /\ n + BlockHeader <= AllocSize(n)
<1>1. n + BlockHeader \in Nat /\ BlockHeader \in Nat \ {0}  BY Sizes
<1>2. n + BlockHeader <= RoundUp(n + BlockHeader, BlockHeader)
      /\ RoundUp(n + BlockHeader, BlockHeader) \in Nat
  BY <1>1, RoundUpBounds
<1> QED  BY <1>2 DEF AllocSize

LEMMA FirstAtBounds ==
    ASSUME NEW c \in Chunk
    PROVE  /\ FirstAt(c) \in Nat
           /\ ChunkHeader <= FirstAt(c)
           /\ FirstAt(c) < ChunkHeader + BlockHeader
<1>1. c \in Nat  BY ListAssumption
<1>2. c + ChunkHeader \in Nat /\ BlockHeader \in Nat \ {0}  BY <1>1, Sizes
<1>3. /\ RoundUp(c + ChunkHeader, BlockHeader) \in Nat
      /\ c + ChunkHeader <= RoundUp(c + ChunkHeader, BlockHeader)
      /\ RoundUp(c + ChunkHeader, BlockHeader) < c + ChunkHeader + BlockHeader
  BY <1>2, RoundUpBounds
<1> QED  BY <1>1, <1>3, Sizes DEF FirstAt

\* The category of a request exists, and its chunks have room for it.
LEMMA CategOfSuits ==
    ASSUME NEW size \in Nat
    PROVE  CategOf(size) \in Categ /\ Suits(CategOf(size), size)
<1> DEFINE S == {k \in Categ : Suits(k, size)}
<1>1. Categ \in SUBSET Nat /\ More \in Categ  BY Sizes DEF Categ, More
<1>2. S \in SUBSET Nat /\ S # {}  BY <1>1 DEF Suits
<1>3. PICK k \in S : \A j \in S : k <= j
  <2> HIDE DEF S
  <2> QED  BY <1>2, LeastExists
<1>4. \A j \in 1..(k - 1) : ~Suits(j, size)
  <2> SUFFICES ASSUME NEW j \in 1..(k - 1), Suits(j, size) PROVE FALSE
    OBVIOUS
  <2>1. k \in 1..(Len(CategSize) + 1)  BY DEF Categ
  <2>2. j \in Categ /\ j < k  BY <2>1, Sizes DEF Categ
  <2>3. j \in S  BY <2>2
  <2> QED  BY <1>1, <1>3, <2>1, <2>2, <2>3
<1> QED  BY <1>3, <1>4 DEF CategOf

LEMMA ChunkSizeBounds ==
    ASSUME NEW size \in Nat
    PROVE  /\ ChunkSize(size) \in Nat
           /\ size + ChunkHeader + BlockHeader <= ChunkSize(size)
           /\ CategOf(size) # More => ChunkSize(size) = CategSize[CategOf(size)]
<1>1. Needed(size) \in Nat /\ Needed(size) = size + ChunkHeader + BlockHeader
  BY Sizes DEF Needed
<1>2. CASE CategOf(size) = More
  BY <1>1, <1>2, Sizes, RoundUpBounds DEF ChunkSize
<1>3. CASE CategOf(size) # More
  <2>1. /\ CategOf(size) \in 1..Len(CategSize)
        /\ Needed(size) * Share <= CategSize[CategOf(size)]
    <3>1. CategOf(size) \in Categ /\ Suits(CategOf(size), size)  BY CategOfSuits
    <3>2. CategOf(size) \in 1..Len(CategSize)
      BY <1>3, <3>1, Sizes DEF Categ, More
    <3> QED  BY <1>3, <3>1, <3>2 DEF Suits
  <2>2. ChunkSize(size) = CategSize[CategOf(size)]  BY <1>3 DEF ChunkSize
  <2>3. CategSize[CategOf(size)] \in Nat  BY <2>1, Sizes
  <2>4. Needed(size) <= Needed(size) * Share  BY <1>1, Sizes
  <2> QED  BY <1>1, <2>1, <2>2, <2>3, <2>4, Sizes
<1> QED  BY <1>2, <1>3

-----------------------------------------------------------------------------
(* Chunks.                                                                 *)

\* A chunk of one block, of any size that holds the two headers.
LEMMA NewChunkSound ==
    ASSUME NEW c \in Chunk, NEW k \in Categ, NEW size \in Nat,
           size >= ChunkHeader + BlockHeader,
           k # More => size = CategSize[k]
    PROVE  Sound(c, NewChunk(c, k, size))
<1> DEFINE first == FirstBlock(c, size)
           chunk == NewChunk(c, k, size)
<1>1. FirstAt(c) \in Nat /\ size - ChunkHeader - BlockHeader \in Nat
  BY FirstAtBounds, Sizes
<1>2. /\ first = [at |-> FirstAt(c), size |-> size - ChunkHeader - BlockHeader,
                  avail |-> TRUE]
      /\ first \in Block
  BY <1>1 DEF FirstBlock, Block
<1>3. /\ chunk = [categ |-> k, size |-> size, max |-> size - ChunkHeader - BlockHeader,
                  blocks |-> <<first>>]
      /\ <<first>> \in Seq(Block) /\ Len(<<first>>) = 1 /\ <<first>>[1] = first
      /\ <<first>> # <<>>
  BY <1>2 DEF NewChunk
<1>4. chunk \in ChunkInfo
  BY <1>1, <1>3 DEF ChunkInfo, Blocks, Block
<1>5. After(first) = EndAt(c, chunk)
  BY <1>1, <1>2, <1>3, Sizes DEF After, EndAt
<1> HIDE DEF first
<1>6. InOrder(<<first>>)  BY <1>3 DEF InOrder
<1>7. Joined(<<first>>)  BY <1>3 DEF Joined
<1> HIDE DEF chunk
<1>8. Tiled(c, chunk)
  BY <1>2, <1>3, <1>5, <1>6, <1>7 DEF Tiled, Last
<1>9. chunk.categ = k /\ chunk.size = size /\ chunk.blocks # <<>>
  BY <1>3
<1>10. Sound(c, chunk)  BY <1>4, <1>8, <1>9 DEF Sound
<1> QED  BY <1>10 DEF chunk

\* What a sound chunk's blocks are like.
LEMMA BlockFacts ==
    ASSUME NEW c \in Chunk, NEW chunk, Sound(c, chunk)
    PROVE  /\ Len(chunk.blocks) \in Nat \ {0}
           /\ chunk.blocks \in Seq(Block)
           /\ \A i \in 1..Len(chunk.blocks) : chunk.blocks[i] \in Block
           /\ \A i \in 1..Len(chunk.blocks) :
                 /\ FirstAt(c) <= chunk.blocks[i].at
                 /\ After(chunk.blocks[i]) <= EndAt(c, chunk)
<1> DEFINE blocks == chunk.blocks
           n == Len(blocks)
<1>1. blocks \in Seq(Block) /\ blocks # <<>>
  BY DEF Sound, ChunkInfo, Blocks, Block
<1>2. n \in Nat \ {0} /\ \A i \in 1..n : blocks[i] \in Block
  BY <1>1, EmptySeq, ElementOfSeq
<1>3. /\ blocks[1].at = FirstAt(c) /\ InOrder(blocks) /\ After(blocks[n]) = EndAt(c, chunk)
  BY DEF Sound, Tiled, Last
<1> HIDE DEF blocks
<1>4. \A i \in 1..n : /\ blocks[i].at \in Nat /\ blocks[i].size \in Nat
                      /\ After(blocks[i]) \in Nat /\ blocks[i].at < After(blocks[i])
  BY <1>2, Sizes DEF Block, After
<1>5. ASSUME NEW i \in 1..n
      PROVE  FirstAt(c) <= blocks[i].at /\ After(blocks[i]) <= EndAt(c, chunk)
  <2>1. FirstAt(c) <= blocks[i].at
    <3>1. CASE i = 1  BY <3>1, <1>3, <1>4
    <3>2. CASE i # 1
      <4>1. 1 \in 1..n /\ i \in 2..n  BY <1>2, <3>2
      <4>2. After(blocks[1]) <= blocks[i].at  BY <1>3, <4>1 DEF InOrder
      <4> QED  BY <1>3, <1>4, <4>1, <4>2
    <3> QED  BY <3>1, <3>2
  <2>2. After(blocks[i]) <= EndAt(c, chunk)
    <3>1. CASE i = n  BY <3>1, <1>3, <1>4
    <3>2. CASE i # n
      <4>1. n \in 1..n /\ n \in (i + 1)..n  BY <1>2, <3>2
      <4>2. After(blocks[i]) <= blocks[n].at  BY <1>3, <4>1 DEF InOrder
      <4> QED  BY <1>3, <1>4, <4>1, <4>2
    <3> QED  BY <3>1, <3>2
  <2> QED  BY <2>1, <2>2
<1> QED  BY <1>1, <1>2, <1>5 DEF blocks

\* A sound chunk can be initialised again.
LEMMA AgainSound ==
    ASSUME NEW c \in Chunk, NEW chunk, Sound(c, chunk)
    PROVE  Sound(c, NewChunk(c, chunk.categ, chunk.size))
<1>1. chunk.categ \in Categ /\ chunk.size \in Nat
      /\ (chunk.categ # More => chunk.size = CategSize[chunk.categ])
  BY DEF Sound, ChunkInfo
<1>2. PICK b \in Block : FirstAt(c) <= b.at /\ After(b) <= EndAt(c, chunk)
  <2>1. 1 \in 1..Len(chunk.blocks)  BY BlockFacts
  <2> QED  BY <2>1, BlockFacts
<1>3. b.at \in Nat /\ b.size \in Nat  BY DEF Block
<1>4. chunk.size >= ChunkHeader + BlockHeader
  BY <1>1, <1>2, <1>3, Sizes, FirstAtBounds DEF After, EndAt
<1> QED  BY <1>1, <1>4, NewChunkSound

LEMMA BlockCut ==
    ASSUME NEW b \in Block, NEW size \in Nat
    PROVE  LET cut == [b EXCEPT !.size = size, !.avail = FALSE]
               held == [b EXCEPT !.avail = FALSE]
           IN  /\ cut \in Block /\ cut.at = b.at /\ cut.size = size /\ ~cut.avail
               /\ held \in Block /\ held.at = b.at /\ held.size = b.size /\ ~held.avail
BY DEF Block

\* Cutting the last block of a chunk adds one behind it.
LEMMA SplitLast ==
    ASSUME NEW blocks \in Seq(Block), NEW n \in Nat \ {0}, n = Len(blocks),
           NEW size \in Nat, size + BlockHeader <= blocks[n].size,
           NEW parts, parts = Split(blocks, n, size)
    PROVE  /\ parts \in Seq(Block) /\ Len(parts) = n + 1
           /\ \A i \in 1..(n - 1) : parts[i] = blocks[i]
           /\ parts[n].at = blocks[n].at /\ parts[n].size = size /\ ~parts[n].avail
           /\ parts[n + 1].at = blocks[n].at + BlockHeader + size
           /\ parts[n + 1].size = blocks[n].size - size - BlockHeader
           /\ parts[n + 1].avail
<1> DEFINE front == SubSeq(blocks, 1, n - 1)
           one == [blocks[n] EXCEPT !.size = size, !.avail = FALSE]
           two == [at    |-> blocks[n].at + BlockHeader + size,
                   size  |-> blocks[n].size - size - BlockHeader,
                   avail |-> TRUE]
           cut == front \o <<one, two>>
<1>1. n \in Nat \ {0} /\ blocks[n] \in Block
  BY LenProperties, ElementOfSeq
<1>2. one \in Block /\ one.at = blocks[n].at /\ one.size = size /\ ~one.avail
  BY <1>1, BlockCut
<1>3. two \in Block
  <2>1. blocks[n].at \in Nat /\ blocks[n].size \in Nat  BY <1>1 DEF Block
  <2>2. /\ blocks[n].at + BlockHeader + size \in Nat
        /\ blocks[n].size - size - BlockHeader \in Nat
    BY <2>1, Sizes
  <2> QED  BY <2>2 DEF Block
<1>4. front \in Seq(Block) /\ Len(front) = n - 1
      /\ \A i \in 1..(n - 1) : front[i] = blocks[i]
  <2>1. \A i \in 1..(n - 1) : blocks[i] \in Block  BY <1>1, ElementOfSeq
  <2>2. 1 \in Int /\ n - 1 \in Int  BY <1>1
  <2>3. /\ front \in Seq(Block) /\ Len(front) = IF 1 <= n - 1 THEN n - 1 - 1 + 1 ELSE 0
        /\ \A i \in 1..(n - 1 - 1 + 1) : front[i] = blocks[1 + i - 1]
    BY <2>1, <2>2, SubSeqProperties
  <2> QED  BY <1>1, <2>3
<1>5. SubSeq(blocks, n + 1, Len(blocks)) = <<>>
  BY <1>1, SubSeqEmpty
<1>6. <<one, two>> \in Seq(Block) /\ Len(<<one, two>>) = 2
      /\ <<one, two>>[1] = one /\ <<one, two>>[2] = two
  BY <1>2, <1>3
<1>7. /\ cut \in Seq(Block) /\ Len(cut) = n + 1
      /\ \A i \in 1..(n + 1) : cut[i] = IF i <= n - 1 THEN front[i]
                                        ELSE <<one, two>>[i - (n - 1)]
  <2> HIDE DEF front, one, two
  <2>1. /\ cut \in Seq(Block) /\ Len(cut) = Len(front) + 2
        /\ \A i \in 1..(Len(front) + 2) :
              cut[i] = IF i <= Len(front) THEN front[i]
                       ELSE <<one, two>>[i - Len(front)]
    BY <1>4, <1>6, ConcatProperties
  <2> QED  BY <1>1, <1>4, <2>1
<1>8. Split(blocks, n, size) = cut
  <2>1. Split(blocks, n, size) = cut \o <<>>
    BY <1>5 DEF Split
  <2> HIDE DEF cut
  <2> QED  BY <1>7, <2>1, ConcatEmptySeq
<1> HIDE DEF front, one, two, cut
<1>9. \A i \in 1..(n - 1) : cut[i] = blocks[i]
  <2> SUFFICES ASSUME NEW i \in 1..(n - 1) PROVE cut[i] = blocks[i]
    OBVIOUS
  <2>1. i \in 1..(n + 1) /\ i <= n - 1  BY <1>1
  <2> QED  BY <1>4, <1>7, <2>1
<1>10. n \in 1..(n + 1) /\ n + 1 \in 1..(n + 1) /\ ~(n <= n - 1) /\ ~(n + 1 <= n - 1)
       /\ n - (n - 1) = 1 /\ n + 1 - (n - 1) = 2
  BY <1>1
<1>11. cut[n] = one /\ cut[n + 1] = two
  BY <1>6, <1>7, <1>10
<1>12. /\ two.at = blocks[n].at + BlockHeader + size
       /\ two.size = blocks[n].size - size - BlockHeader /\ two.avail
  BY DEF two
<1>13. cut[n].at = blocks[n].at /\ cut[n].size = size /\ ~cut[n].avail
  BY <1>2, <1>11
<1>14. parts = cut  BY <1>8
<1> QED  BY <1>7, <1>9, <1>11, <1>12, <1>13, <1>14

LEMMA NotTheLast ==
    ASSUME NEW n \in Nat \ {0}, NEW j \in 1..n, j # n
    PROVE  j \in 1..(n - 1)
OBVIOUS

LEMMA LargestOfOne ==
    ASSUME NEW v \in Nat
    PROVE  Largest({v}) = v
<1>1. Largest({v}) = CHOOSE n \in {v} : \A m \in {v} : m <= n
  BY DEF Largest
<1>2. v \in {v} /\ \A m \in {v} : m <= v
  OBVIOUS
<1>3. (CHOOSE n \in {v} : \A m \in {v} : m <= n) \in {v}
  BY <1>2
<1> QED  BY <1>1, <1>3

\* Only the last block of a sound chunk may be available.
LEMMA OnlyTheLast ==
    ASSUME NEW blocks \in Seq(Block), Len(blocks) # 0, Joined(blocks),
           NEW k \in 1..Len(blocks)
    PROVE  /\ Len(blocks) \in 1..Len(blocks) /\ DOMAIN blocks = 1..Len(blocks)
           /\ {j \in k..Len(blocks) : blocks[j].avail}
                = IF Last(blocks).avail THEN {Len(blocks)} ELSE {}
           /\ {j \in 1..(k - 1) : blocks[j].avail} = {}
<1> DEFINE n == Len(blocks)
<1>1. n \in Nat \ {0} /\ DOMAIN blocks = 1..n  BY LenProperties
<1>2. \A j \in 1..n : j # n => ~blocks[j].avail
  <2> SUFFICES ASSUME NEW j \in 1..n, j # n PROVE ~blocks[j].avail
    OBVIOUS
  <2>1. j \in 1..(n - 1)
    <3> HIDE DEF n
    <3> QED  BY <1>1, NotTheLast
  <2> QED  BY <2>1 DEF Joined
<1>3. n \in 1..n /\ n \in k..n  BY <1>1
<1>4. \A j \in k..n : j \in 1..n  BY <1>1
<1>5. \A j \in 1..(k - 1) : j \in 1..n /\ j # n
  <2>1. PICK m \in Nat : m = n /\ k \in 1..m  BY <1>1
  <2> HIDE DEF n
  <2> QED  BY <2>1
<1> QED  BY <1>1, <1>2, <1>3, <1>4, <1>5 DEF Last

\* Where the first half of the search leaves the maximum, and where the second.
LEMMA MaxAvailIsLast ==
    ASSUME NEW blocks \in Seq(Block), Len(blocks) # 0, Joined(blocks),
           NEW k \in 1..Len(blocks)
    PROVE  /\ MaxAvail(blocks, 1..(k - 1)) = 0
           /\ MaxAvail(blocks, k..Len(blocks))
                = IF Last(blocks).avail THEN Last(blocks).size ELSE 0
<1> DEFINE A == {j \in k..Len(blocks) : blocks[j].avail}
           S == {blocks[i].size : i \in A}
           B == {j \in 1..(k - 1) : blocks[j].avail}
           T == {blocks[i].size : i \in B}
<1>1. MaxAvail(blocks, k..Len(blocks)) = Largest(S) /\ MaxAvail(blocks, 1..(k - 1)) = Largest(T)
  BY DEF MaxAvail
<1>2. Largest(T) = 0
  <2>1. B = {}  BY OnlyTheLast
  <2>2. T = {}
    <3> HIDE DEF B
    <3> QED  BY <2>1
  <2> HIDE DEF T
  <2> QED  BY <2>2 DEF Largest
<1>3. CASE Last(blocks).avail
  <2>1. A = {Len(blocks)}  BY <1>3, OnlyTheLast
  <2>2. S = {Last(blocks).size}
    <3> HIDE DEF A
    <3> QED  BY <2>1 DEF Last
  <2>3. Last(blocks).size \in Nat
    <3>1. Last(blocks) \in Block  BY OnlyTheLast, ElementOfSeq DEF Last
    <3> QED  BY <3>1 DEF Block
  <2> HIDE DEF S
  <2>4. Largest(S) = Last(blocks).size  BY <2>2, <2>3, LargestOfOne
  <2> HIDE DEF T
  <2> QED  BY <1>1, <1>2, <1>3, <2>4
<1>4. CASE ~Last(blocks).avail
  <2>1. A = {}  BY <1>4, OnlyTheLast
  <2>2. S = {}
    <3> HIDE DEF A
    <3> QED  BY <2>1
  <2> HIDE DEF S, T
  <2>3. Largest(S) = 0  BY <2>2 DEF Largest
  <2> QED  BY <1>1, <1>2, <1>4, <2>3
<1> QED  BY <1>3, <1>4

\* The block found is the last one, and large enough.
LEMMA FoundIsLast ==
    ASSUME NEW c \in Chunk, NEW chunk, Sound(c, chunk), NEW size \in Nat \ {0},
           chunk.max >= size
    PROVE  /\ Found(chunk, size) = Len(chunk.blocks)
           /\ Last(chunk.blocks).avail
           /\ Last(chunk.blocks) \in Block
           /\ Last(chunk.blocks).size >= size
<1> DEFINE blocks == chunk.blocks
           n == Len(blocks)
<1>1. /\ n \in Nat \ {0} /\ blocks \in Seq(Block) /\ \A i \in 1..n : blocks[i] \in Block
  BY BlockFacts
<1>2. Joined(blocks) /\ chunk.max = IF Last(blocks).avail THEN Last(blocks).size ELSE 0
  BY DEF Sound, Tiled
<1>3. Last(blocks).avail /\ Last(blocks).size >= size  BY <1>2
<1>4. n \in 1..n /\ Last(blocks) \in Block  BY <1>1 DEF Last
<1>5. Available(chunk) = {n}
  <2>1. 1 \in 1..n  BY <1>1
  <2> QED  BY <1>1, <1>2, <1>3, <2>1, OnlyTheLast DEF Available
<1>6. Found(chunk, size) = n
  BY <1>1, <1>3, <1>5 DEF Found, Last
<1> QED  BY <1>3, <1>4, <1>6

\* The blocks still tile the chunk once the last was cut in two.
LEMMA CutInOrder ==
    ASSUME NEW old \in Seq(Block), NEW n \in Nat \ {0}, n = Len(old),
           InOrder(old), Joined(old), NEW size \in Nat,
           NEW cut \in Seq(Block), Len(cut) = n + 1,
           \A i \in 1..(n - 1) : cut[i] = old[i],
           cut[n].at = old[n].at, cut[n].size = size, ~cut[n].avail,
           cut[n + 1].at = old[n].at + BlockHeader + size,
           cut[n + 1].size = old[n].size - size - BlockHeader
    PROVE  /\ cut[1].at = old[1].at
           /\ InOrder(cut) /\ Joined(cut)
           /\ After(cut[n + 1]) = After(old[n])
<1>0. BlockHeader \in Nat /\ BlockHeader > 0
  BY Sizes
<1>1. \A i \in 1..n : /\ old[i] \in Block /\ old[i].at \in Nat /\ old[i].size \in Nat
                      /\ After(old[i]) \in Nat
  <2> SUFFICES ASSUME NEW i \in 1..n
               PROVE  /\ old[i] \in Block /\ old[i].at \in Nat /\ old[i].size \in Nat
                      /\ After(old[i]) \in Nat
    OBVIOUS
  <2>1. old[i] \in Block  BY ElementOfSeq
  <2>2. old[i].at \in Nat /\ old[i].size \in Nat  BY <2>1 DEF Block
  <2> QED  BY <1>0, <2>1, <2>2 DEF After
<1>2. n \in 1..n /\ old[n].at \in Nat /\ old[n].size \in Nat  BY <1>1
<1>3. \A j \in 1..n : cut[j].at = old[j].at
  <2> SUFFICES ASSUME NEW j \in 1..n PROVE cut[j].at = old[j].at
    OBVIOUS
  <2>1. CASE j = n  BY <2>1
  <2>2. CASE j # n  BY <2>2, NotTheLast
  <2> QED  BY <2>1, <2>2
<1>4. /\ After(cut[n]) = cut[n + 1].at
      /\ After(cut[n + 1]) = After(old[n])
      /\ cut[n + 1].at \in Nat
      /\ old[n].at <= cut[n + 1].at
  <2>1. PICK at \in Nat : at = old[n].at  BY <1>2
  <2>2. PICK was \in Nat : was = old[n].size  BY <1>2
  <2>3. After(cut[n]) = at + BlockHeader + size  BY <2>1 DEF After
  <2>4. After(cut[n + 1]) = at + BlockHeader + size + BlockHeader
                              + (was - size - BlockHeader)
    BY <2>1, <2>2 DEF After
  <2>5. cut[n + 1].at = at + BlockHeader + size  BY <2>1
  <2>6. After(old[n]) = at + BlockHeader + was  BY <2>1, <2>2 DEF After
  <2>7. at + BlockHeader + size + BlockHeader + (was - size - BlockHeader)
           = at + BlockHeader + was
    BY <1>0
  <2>8. at + BlockHeader + size \in Nat /\ at <= at + BlockHeader + size
    BY <1>0
  <2> QED  BY <2>1, <2>3, <2>4, <2>5, <2>6, <2>7, <2>8
<1>5. InOrder(cut)
  <2> SUFFICES ASSUME NEW i \in 1..(n + 1), NEW j \in (i + 1)..(n + 1)
               PROVE  After(cut[i]) <= cut[j].at
    BY DEF InOrder
  <2>1. CASE i = n
    <3>1. j = n + 1  BY <2>1
    <3> QED  BY <2>1, <3>1, <1>4
  <2>2. CASE i \in 1..(n - 1) /\ j \in (i + 1)..n
    <3>1. After(cut[i]) = After(old[i])  BY <2>2
    <3>2. cut[j].at = old[j].at
      <4>1. j \in 1..n  BY <2>2
      <4> QED  BY <1>3, <4>1
    <3>3. i \in 1..Len(old) /\ j \in (i + 1)..Len(old)  BY <2>2
    <3>4. After(old[i]) <= old[j].at  BY <3>3 DEF InOrder
    <3> QED  BY <3>1, <3>2, <3>4
  <2>3. CASE i \in 1..(n - 1) /\ j = n + 1
    <3>1. After(cut[i]) = After(old[i])  BY <2>3
    <3>2. i \in 1..Len(old) /\ n \in (i + 1)..Len(old)  BY <2>3
    <3>3. After(old[i]) <= old[n].at  BY <3>2 DEF InOrder
    <3>4. After(old[i]) \in Nat  BY <1>1, <3>2
    <3> QED  BY <3>1, <3>3, <3>4, <2>3, <1>2, <1>4
  <2>4. \/ i = n
        \/ i \in 1..(n - 1) /\ j \in (i + 1)..n
        \/ i \in 1..(n - 1) /\ j = n + 1
    OBVIOUS
  <2> QED  BY <2>1, <2>2, <2>3, <2>4
<1>6. Joined(cut)
  <2> SUFFICES ASSUME NEW i \in 1..n
               PROVE  ~cut[i].avail /\ cut[i + 1].at = After(cut[i])
    BY DEF Joined
  <2>1. CASE i = n  BY <2>1, <1>4
  <2>2. CASE i # n
    <3>1. i \in 1..(n - 1)  BY <2>2, NotTheLast
    <3>2. cut[i] = old[i]  BY <3>1
    <3>3. i \in 1..(Len(old) - 1)  BY <3>1
    <3>4. ~old[i].avail /\ old[i + 1].at = After(old[i])
      BY <3>3 DEF Joined
    <3>5. i + 1 \in 1..n  BY <3>1
    <3> QED  BY <3>2, <3>4, <3>5, <1>3
  <2> QED  BY <2>1, <2>2
<1>7. 1 \in 1..n  OBVIOUS
<1> QED  BY <1>3, <1>4, <1>5, <1>6, <1>7

\* A part that is cut off is met by mflist__next_block.
LEMMA CutIsMet ==
    ASSUME NEW at \in Nat, NEW old \in Nat, NEW size \in Nat, NEW limit \in Nat,
           NEW first \in Nat, first < ChunkHeader + BlockHeader,
           at + BlockHeader + old = first - ChunkHeader + limit,
           old - size > 2 * BlockHeader
    PROVE  at + BlockHeader + size + BlockHeader < limit
BY Sizes

LEMMA RestIsRoom ==
    ASSUME RestsAreBlocks, NEW c \in Chunk, NEW chunk, Sound(c, chunk), NEW rest \in Int,
           Splits(chunk, rest)
    PROVE  rest > 2 * BlockHeader
<1>1. PICK k \in Categ : k = chunk.categ
  BY DEF Sound, ChunkInfo
<1>2. PICK m \in Nat : m = chunk.size
  BY DEF Sound, ChunkInfo
<1>3. k # More /\ rest > m \div LeastPart
  BY <1>1, <1>2 DEF Splits
<1>4. k \in 1..Len(CategSize)  BY <1>3, Sizes DEF Categ, More
<1>5. m = CategSize[k]  BY <1>1, <1>2, <1>3 DEF Sound
<1>6. m \div LeastPart >= 2 * BlockHeader  BY <1>4, <1>5 DEF RestsAreBlocks
<1>7. m \div LeastPart \in Int /\ BlockHeader \in Nat  BY Sizes
<1> QED  BY <1>3, <1>6, <1>7

\* What a chunk is like once a block of it is taken.
LEMMA TakenSound ==
    ASSUME RestsAreBlocks, NEW c \in Chunk, NEW chunk, Sound(c, chunk),
           NEW size \in Nat \ {0}, chunk.max >= size
    PROVE  LET new == Taken(chunk, size)
               n   == Len(chunk.blocks)
           IN  /\ Sound(c, new)
               /\ Found(chunk, size) = n /\ n \in 1..Len(new.blocks)
               /\ chunk.blocks[n].avail
               /\ \A i \in 1..(n - 1) : new.blocks[i] = chunk.blocks[i]
               /\ new.blocks[n].at = chunk.blocks[n].at
               /\ ~new.blocks[n].avail /\ size <= new.blocks[n].size
               /\ new.size = chunk.size
<1> DEFINE old == chunk.blocks
           after == BlocksAfter(chunk, size)
           new == Taken(chunk, size)
<1>1. PICK n \in Nat \ {0} : n = Len(old)
  BY BlockFacts
<1>2. /\ old \in Seq(Block) /\ chunk \in ChunkInfo
      /\ \A i \in 1..n : old[i] \in Block
      /\ FirstAt(c) \in Nat
  BY <1>1, BlockFacts, FirstAtBounds DEF Sound
<1>3. /\ Found(chunk, size) = n /\ old[n].avail /\ old[n] \in Block /\ size <= old[n].size
  BY <1>1, FoundIsLast DEF Last
<1>4. /\ old[1].at = FirstAt(c) /\ InOrder(old) /\ Joined(old)
      /\ After(old[n]) = EndAt(c, chunk)
      /\ n > 1 => old[n].at + BlockHeader < chunk.size
      /\ chunk.categ # More => chunk.size = CategSize[chunk.categ]
  BY <1>1 DEF Sound, Tiled, Last
<1>5. PICK at \in Nat, was \in Nat, limit \in Nat :
          at = old[n].at /\ was = old[n].size /\ limit = chunk.size
  BY <1>2, <1>3 DEF Block, ChunkInfo
<1>6. /\ after \in Seq(Block) /\ Len(after) \in {n, n + 1}
      /\ \A i \in 1..(n - 1) : after[i] = old[i]
      /\ after[n].at = old[n].at /\ ~after[n].avail /\ size <= after[n].size
      /\ after[1].at = FirstAt(c) /\ InOrder(after) /\ Joined(after)
      /\ After(Last(after)) = EndAt(c, chunk)
      /\ Len(after) > 1 => Last(after).at + BlockHeader < chunk.size
  <2>1. CASE Splits(chunk, was - size)
    <3> DEFINE cut == Split(old, n, size)
    <3>1. after = cut  BY <1>3, <1>5, <2>1 DEF BlocksAfter
    <3>2. was - size > 2 * BlockHeader
      BY <2>1, RestIsRoom
    <3>3. size + BlockHeader <= was  BY <3>2, Sizes
    <3>4. /\ cut \in Seq(Block) /\ Len(cut) = n + 1
          /\ \A i \in 1..(n - 1) : cut[i] = old[i]
          /\ cut[n].at = old[n].at /\ cut[n].size = size /\ ~cut[n].avail
          /\ cut[n + 1].at = old[n].at + BlockHeader + size
          /\ cut[n + 1].size = old[n].size - size - BlockHeader
          /\ cut[n + 1].avail
      <4>1. n = Len(old) /\ size \in Nat /\ old \in Seq(Block)
        BY <1>1, <1>2
      <4>2. size + BlockHeader <= old[n].size  BY <1>5, <3>3
      <4> HIDE DEF old, cut
      <4>3. cut = Split(old, n, size)  BY DEF cut
      <4> QED  BY <4>1, <4>2, <4>3, SplitLast
    <3> HIDE DEF cut
    <3>5. /\ cut[1].at = old[1].at
          /\ InOrder(cut) /\ Joined(cut)
          /\ After(cut[n + 1]) = After(old[n])
      <4>1. n = Len(old) /\ size \in Nat /\ old \in Seq(Block) /\ InOrder(old) /\ Joined(old)
        BY <1>1, <1>2, <1>4
      <4> HIDE DEF old
      <4> QED  BY <3>4, <4>1, CutInOrder
    <3>6. Last(cut) = cut[n + 1]  BY <3>4 DEF Last
    <3>7. at + BlockHeader + was = FirstAt(c) - ChunkHeader + limit
      BY <1>4, <1>5 DEF After, EndAt
    <3>8. at + BlockHeader + size + BlockHeader < limit
      BY <1>2, <3>2, <3>7, FirstAtBounds, CutIsMet
    <3>9. cut[n + 1].at + BlockHeader < chunk.size
      BY <1>5, <3>4, <3>8
    <3>10. size <= cut[n].size  BY <3>4
    <3> QED
      BY <1>4, <3>1, <3>4, <3>5, <3>6, <3>9, <3>10
  <2>2. CASE ~Splits(chunk, was - size)
    <3> DEFINE held == [old[n] EXCEPT !.avail = FALSE]
    <3>1. after = [old EXCEPT ![n] = held]
      BY <1>3, <1>5, <2>2 DEF BlocksAfter
    <3>2. held \in Block /\ held.at = old[n].at /\ held.size = old[n].size /\ ~held.avail
      BY <1>3, BlockCut
    <3> HIDE DEF held
    <3>3. /\ after \in Seq(Block) /\ Len(after) = n
          /\ \A j \in 1..n : after[j] = IF j = n THEN held ELSE old[j]
      <4>1. n \in 1..Len(old)  BY <1>1
      <4> HIDE DEF after
      <4> QED  BY <1>1, <1>2, <3>1, <3>2, <4>1, ExceptSeq
    <3> HIDE DEF after
    <3>4. after[n] = held /\ \A i \in 1..(n - 1) : after[i] = old[i]
      BY <3>3
    <3>5. \A j \in 1..n : after[j].at = old[j].at /\ After(after[j]) = After(old[j])
      BY <3>2, <3>3 DEF After
    <3>6. InOrder(after)
      <4> SUFFICES ASSUME NEW i \in 1..n, NEW j \in (i + 1)..n
                   PROVE  After(after[i]) <= after[j].at
        BY <3>3 DEF InOrder
      <4>1. i \in 1..Len(old) /\ j \in (i + 1)..Len(old) /\ j \in 1..n  BY <1>1
      <4>2. After(old[i]) <= old[j].at  BY <1>4, <4>1 DEF InOrder
      <4> QED  BY <3>5, <4>1, <4>2
    <3>7. Joined(after)
      <4> SUFFICES ASSUME NEW i \in 1..(n - 1)
                   PROVE  ~after[i].avail /\ after[i + 1].at = After(after[i])
        BY <3>3 DEF Joined
      <4>1. i \in 1..(Len(old) - 1) /\ i \in 1..n /\ i + 1 \in 1..n  BY <1>1
      <4>2. ~old[i].avail /\ old[i + 1].at = After(old[i])  BY <1>4, <4>1 DEF Joined
      <4> QED  BY <3>4, <3>5, <4>1, <4>2
    <3>8. Last(after) = after[n]  BY <3>3 DEF Last
    <3>9. 1 \in 1..n /\ n \in 1..n  OBVIOUS
    <3>10. size <= after[n].size  BY <1>3, <3>2, <3>4
    <3>11. after[1].at = FirstAt(c)  BY <1>4, <3>5, <3>9
    <3>12. After(after[n]) = EndAt(c, chunk) /\ after[n].at = old[n].at
      BY <1>4, <3>5, <3>9
    <3> QED
      BY <1>4, <3>2, <3>3, <3>4, <3>6, <3>7, <3>8, <3>10, <3>11, <3>12
  <2> QED  BY <2>1, <2>2
<1> HIDE DEF after
<1>7. PICK m \in Nat \ {0} : m = Len(after)  BY <1>6
<1>8. n \in 1..m /\ m \in 1..m  BY <1>6, <1>7
<1>9. after # <<>> /\ after \in Blocks
  BY <1>6, <1>7, EmptySeq DEF Blocks, Block
<1> DEFINE top == Larger(MaxAvail(old, 1..(n - 1)), MaxAvail(after, n..Len(after)))
<1>10. /\ top = IF Last(after).avail THEN Last(after).size ELSE 0
       /\ top \in Nat
  <2>1. MaxAvail(old, 1..(n - 1)) = 0
    <3>1. n \in 1..Len(old) /\ Len(old) # 0  BY <1>1
    <3> HIDE DEF old
    <3> QED  BY <1>2, <1>4, <3>1, MaxAvailIsLast
  <2>2. MaxAvail(after, n..Len(after))
           = IF Last(after).avail THEN Last(after).size ELSE 0
    BY <1>6, <1>7, <1>8, MaxAvailIsLast
  <2>3. Last(after) \in Block  BY <1>6, <1>7, <1>8, ElementOfSeq DEF Last
  <2>4. Last(after).size \in Nat  BY <2>3 DEF Block
  <2>5. PICK v \in Nat : v = IF Last(after).avail THEN Last(after).size ELSE 0
    BY <2>4
  <2>6. Larger(0, v) = v  BY DEF Larger
  <2> QED  BY <2>1, <2>2, <2>5, <2>6
<1>11. new = [chunk EXCEPT !.blocks = after, !.max = top]
  BY <1>3 DEF Taken, after
<1> HIDE DEF top
<1>12. /\ new \in ChunkInfo
       /\ new.categ = chunk.categ /\ new.size = chunk.size
       /\ new.blocks = after /\ new.max = top
  <2> HIDE DEF new
  <2>1. chunk \in ChunkInfo /\ after \in Blocks /\ top \in Nat  BY <1>2, <1>9, <1>10
  <2> QED  BY <1>11, <2>1 DEF ChunkInfo
<1> HIDE DEF new
<1>13. EndAt(c, new) = EndAt(c, chunk)  BY <1>12 DEF EndAt
<1>14. Tiled(c, new)
  BY <1>6, <1>10, <1>12, <1>13 DEF Tiled
<1>15. Sound(c, new)  BY <1>4, <1>9, <1>12, <1>14 DEF Sound
<1> QED
  BY <1>1, <1>3, <1>6, <1>7, <1>8, <1>12, <1>15 DEF new, old

\* What is asked for at a block's payload, with room for a header, ends before
\* the chunk does, although the block itself may reach beyond it.
LEMMA EndsInside ==
    ASSUME NEW at \in Nat, NEW was \in Nat, NEW first \in Nat, NEW limit \in Nat,
           NEW n \in Nat,
           first < ChunkHeader + BlockHeader, n + BlockHeader <= was,
           at + BlockHeader + was <= first - ChunkHeader + limit
    PROVE  at + BlockHeader + n <= limit /\ at + BlockHeader \in Nat
BY Headers

LEMMA PayloadFits ==
    ASSUME NEW c \in Chunk, NEW chunk, Sound(c, chunk),
           NEW i \in 1..Len(chunk.blocks), NEW n \in Nat,
           n + BlockHeader <= chunk.blocks[i].size
    PROVE  /\ PayloadAt(chunk.blocks[i]) \in Nat
           /\ PayloadAt(chunk.blocks[i]) + n <= chunk.size
<1>1. PICK b \in Block : b = chunk.blocks[i] /\ After(b) <= EndAt(c, chunk)
  BY BlockFacts
<1>2. PICK limit \in Nat : limit = chunk.size
  BY DEF Sound, ChunkInfo
<1>3. /\ b.at \in Nat /\ b.size \in Nat
      /\ n + BlockHeader <= b.size
      /\ b.at + BlockHeader + b.size <= FirstAt(c) - ChunkHeader + limit
  BY <1>1, <1>2 DEF Block, After, EndAt
<1>4. b.at + BlockHeader + n <= limit /\ b.at + BlockHeader \in Nat
  <2>1. PICK at \in Nat, was \in Nat, first \in Nat :
            /\ at = b.at /\ was = b.size /\ first = FirstAt(c)
            /\ first < ChunkHeader + BlockHeader
    BY <1>3, FirstAtBounds
  <2>2. n + BlockHeader <= was /\ at + BlockHeader + was <= first - ChunkHeader + limit
    BY <1>3, <2>1
  <2>3. at + BlockHeader + n <= limit /\ at + BlockHeader \in Nat
    BY <2>1, <2>2, EndsInside
  <2> QED  BY <2>1, <2>3
<1> QED  BY <1>1, <1>2, <1>4 DEF PayloadAt

-----------------------------------------------------------------------------
(* Bytes.                                                                  *)

LEMMA CellHas == 0 \in Cell /\ Junk \in Cell /\ Data \subseteq Cell
BY DEF Cell

LEMMA FillTyped ==
    ASSUME NEW n, NEW bytes \in [0..n -> Cell], NEW from, NEW len, NEW v \in Cell
    PROVE  Fill(bytes, from, len, v) \in [0..n -> Cell]
BY DEF Fill

LEMMA HeadedTyped ==
    ASSUME NEW n, NEW bytes \in [0..n -> Cell], NEW blocks
    PROVE  Headed(bytes, blocks) \in [0..n -> Cell]
BY CellHas DEF Headed

LEMMA CopyTyped ==
    ASSUME NEW n, NEW bytes \in [0..n -> Cell], NEW to, NEW len, NEW from,
           NEW m, NEW src \in [0..m -> Cell]
    PROVE  Copy(bytes, to, len, src, from) \in [0..n -> Cell]
BY CellHas DEF Copy

-----------------------------------------------------------------------------
(* Taking a block.                                                         *)

LEMMA WithFacts ==
    ASSUME NEW f, NEW x, NEW v
    PROVE  /\ DOMAIN With(f, x, v) = DOMAIN f \cup {x}
           /\ With(f, x, v)[x] = v
           /\ \A y \in DOMAIN f : y # x => With(f, x, v)[y] = f[y]
BY DEF With

LEMMA WithoutFacts ==
    ASSUME NEW f, NEW S
    PROVE  /\ DOMAIN Without(f, S) = DOMAIN f \ S
           /\ \A y \in DOMAIN f \ S : Without(f, S)[y] = f[y]
BY DEF Without

LEMMA Prefix ==
    ASSUME NEW q \in Seq(Chunk), NEW m \in Nat, m <= Len(q)
    PROVE  /\ SubSeq(q, 1, m) \in Seq(Chunk)
           /\ \A i \in DOMAIN SubSeq(q, 1, m) : i \in DOMAIN q /\ SubSeq(q, 1, m)[i] = q[i]
<1>1. Len(q) \in Nat /\ DOMAIN q = 1..Len(q)  BY LenProperties
<1>2. \A i \in 1..m : i \in 1..Len(q) /\ q[i] \in Chunk  BY <1>1, ElementOfSeq
<1>3. /\ SubSeq(q, 1, m) \in Seq(Chunk)
      /\ Len(SubSeq(q, 1, m)) = IF 1 <= m THEN m - 1 + 1 ELSE 0
      /\ \A i \in 1..(m - 1 + 1) : SubSeq(q, 1, m)[i] = q[1 + i - 1]
  BY <1>2, SubSeqProperties
<1>4. Len(SubSeq(q, 1, m)) = m /\ \A i \in 1..m : SubSeq(q, 1, m)[i] = q[i]
  BY <1>3
<1>5. DOMAIN SubSeq(q, 1, m) = 1..m  BY <1>3, <1>4, LenProperties
<1> QED  BY <1>1, <1>2, <1>3, <1>4, <1>5

\* What is left of a chain whose links are cleared is a part of it.
LEMMA UpToFacts ==
    ASSUME NEW chain \in Seq(Chunk), NEW S
    PROVE  /\ UpTo(chain, S) \in Seq(Chunk)
           /\ \A i \in DOMAIN UpTo(chain, S) : i \in DOMAIN chain /\ UpTo(chain, S)[i] = chain[i]
<1> DEFINE cleared == {i \in DOMAIN chain : chain[i] \in S}
           first == CHOOSE i \in cleared : \A j \in cleared : i <= j
<1>1. Len(chain) \in Nat /\ DOMAIN chain = 1..Len(chain)  BY LenProperties
<1>2. CASE cleared = {}
  <2>1. UpTo(chain, S) = chain  BY <1>2 DEF UpTo
  <2> QED  BY <2>1
<1>3. CASE cleared # {}
  <2>1. UpTo(chain, S) = SubSeq(chain, 1, first)  BY <1>3 DEF UpTo
  <2>2. cleared \in SUBSET Nat /\ \A i \in cleared : i \in 1..Len(chain)  BY <1>1
  <2> HIDE DEF cleared
  <2>3. PICK x \in cleared : \A y \in cleared : x <= y  BY <1>3, <2>2, LeastExists
  <2>4. first \in cleared  BY <2>3
  <2> HIDE DEF first
  <2>5. PICK m \in Nat : m = first /\ m <= Len(chain)  BY <1>1, <2>2, <2>4
  <2>6. UpTo(chain, S) = SubSeq(chain, 1, m)  BY <2>1, <2>5
  <2> QED  BY <2>5, <2>6, Prefix
<1> QED  BY <1>2, <1>3

LEMMA CutChains ==
    ASSUME NEW links \in [Categ -> Seq(Chunk)], NEW S,
           chunks' = [k \in Categ |-> UpTo(links[k], S)]
    PROVE  /\ chunks' \in [Categ -> Seq(Chunk)]
           /\ \A d \in Chained' : \E k \in Categ : \E i \in DOMAIN links[k] : d = links[k][i]
<1>1. \A k \in Categ : links[k] \in Seq(Chunk)  OBVIOUS
<1>2. \A k \in Categ :
         /\ chunks'[k] \in Seq(Chunk)
         /\ \A i \in DOMAIN chunks'[k] : i \in DOMAIN links[k] /\ chunks'[k][i] = links[k][i]
  <2> SUFFICES ASSUME NEW k \in Categ
               PROVE  /\ chunks'[k] \in Seq(Chunk)
                      /\ \A i \in DOMAIN chunks'[k] :
                            i \in DOMAIN links[k] /\ chunks'[k][i] = links[k][i]
    OBVIOUS
  <2>1. chunks'[k] = UpTo(links[k], S)  OBVIOUS
  <2> QED  BY <1>1, <2>1, UpToFacts
<1>3. chunks' = [k \in Categ |-> chunks'[k]]  OBVIOUS
<1>4. chunks' \in [Categ -> Seq(Chunk)]  BY <1>2, <1>3
<1>5. ASSUME NEW d \in Chained'
      PROVE  \E k \in Categ : \E i \in DOMAIN links[k] : d = links[k][i]
  <2>1. PICK k \in Categ : d \in Linked(k)'  BY DEF Chained
  <2>2. PICK i \in DOMAIN chunks'[k] : d = chunks'[k][i]  BY <2>1 DEF Linked
  <2> QED  BY <1>2, <2>2
<1> QED  BY <1>4, <1>5

\* The chains of the list when nothing but links was cleared.
LEMMA ChainsCut ==
    ASSUME ListTypes, NEW S, chunks' = [k \in Categ |-> UpTo(chunks[k], S)]
    PROVE  chunks' \in [Categ -> Seq(Chunk)] /\ Chained' \subseteq Chained
<1>1. chunks \in [Categ -> Seq(Chunk)]  BY DEF ListTypes
<1>2. /\ chunks' \in [Categ -> Seq(Chunk)]
      /\ \A d \in Chained' : \E k \in Categ : \E i \in DOMAIN chunks[k] : d = chunks[k][i]
  BY <1>1, CutChains
<1>3. ASSUME NEW d \in Chained' PROVE d \in Chained
  <2>1. PICK k \in Categ : \E i \in DOMAIN chunks[k] : d = chunks[k][i]  BY <1>2
  <2>2. d \in Linked(k)  BY <2>1 DEF Linked
  <2> QED  BY <2>2 DEF Chained
<1> QED  BY <1>2, <1>3

LEMMA Appended ==
    ASSUME NEW q \in Seq(Chunk), NEW c \in Chunk
    PROVE  /\ Append(q, c) \in Seq(Chunk)
           /\ \A i \in DOMAIN Append(q, c) :
                 \/ Append(q, c)[i] = c
                 \/ i \in DOMAIN q /\ Append(q, c)[i] = q[i]
<1>1. Len(q) \in Nat /\ DOMAIN q = 1..Len(q)  BY LenProperties
<1>2. /\ Append(q, c) \in Seq(Chunk) /\ Len(Append(q, c)) = Len(q) + 1
      /\ \A i \in 1..Len(q) : Append(q, c)[i] = q[i]
      /\ Append(q, c)[Len(q) + 1] = c
  BY AppendProperties
<1>3. DOMAIN Append(q, c) = 1..(Len(q) + 1)  BY <1>2, LenProperties
<1>4. \A i \in 1..(Len(q) + 1) : i \in 1..Len(q) \/ i = Len(q) + 1  BY <1>1
<1> QED  BY <1>1, <1>2, <1>3, <1>4

\* The chunk a block is taken from is sound, has room, and lies apart from the
\* others.
LEMMA ChunkToTake ==
    ASSUME ListTypes, ChunksSound, ChunksApart, NEW size \in Nat \ {0}, NEW c \in Chunk,
           NEW unlinked, Allocate(size, c, unlinked)
    PROVE  /\ Sound(c, ChunkBefore(size, c)) /\ ChunkBefore(size, c).max >= size
           /\ chunks' \in [Categ -> Seq(Chunk)]
           /\ Chained' \subseteq Chained \cup {c}
           /\ alloc_usage' \in Nat
           /\ \A d \in DOMAIN info :
                 d # c => Apart(c, ChunkBefore(size, c).size, d, info[d].size)
<1> DEFINE k == CategOf(size)
<1>0. /\ FindChunk(size, c) \/ ChainNewChunk(size, c)
      /\ chunks' = [j \in Categ |-> UpTo(ChainsWith(size, c)[j], unlinked)]
      /\ alloc_usage' = alloc_usage + (IF c \in DOMAIN info THEN 0 ELSE ChunkSize(size))
  BY DEF Allocate
<1>1. k \in Categ  BY CategOfSuits
<1>2. chunks \in [Categ -> Seq(Chunk)] /\ alloc_usage \in Nat /\ Chained \subseteq DOMAIN info
  BY DEF ListTypes
<1>3. CASE FindChunk(size, c)
  <2>1. PICK i \in DOMAIN chunks[k] : c = chunks[k][i] /\ Room(k, i, size)
    BY <1>3 DEF FindChunk
  <2>2. c \in Linked(k)  BY <2>1 DEF Linked
  <2>3. c \in Chained  BY <1>1, <2>2 DEF Chained
  <2>4. c \in DOMAIN info /\ ChunkBefore(size, c) = info[c] /\ ChainsWith(size, c) = chunks
    BY <1>2, <2>3 DEF ChunkBefore, ChainsWith
  <2>5. chunks' = [j \in Categ |-> UpTo(chunks[j], unlinked)] /\ alloc_usage' = alloc_usage
    BY <1>0, <1>2, <2>4
  <2>6. chunks' \in [Categ -> Seq(Chunk)] /\ Chained' \subseteq Chained
    BY <2>5, ChainsCut
  <2>7. Sound(c, info[c]) /\ info[c].max >= size
    BY <2>1, <2>4 DEF ChunksSound, Room
  <2>8. \A d \in DOMAIN info : d # c => Apart(c, info[c].size, d, info[d].size)
    BY <2>4 DEF ChunksApart
  <2> QED  BY <1>2, <2>3, <2>4, <2>5, <2>6, <2>7, <2>8
<1>4. CASE ChainNewChunk(size, c)
  <2>1. c \notin DOMAIN info
        /\ \A d \in DOMAIN info : Apart(c, ChunkSize(size), d, info[d].size)
    BY <1>4 DEF ChainNewChunk
  <2>2. /\ ChunkBefore(size, c) = NewChunk(c, k, ChunkSize(size))
        /\ ChainsWith(size, c) = [chunks EXCEPT ![k] = Append(@, c)]
    BY <2>1 DEF ChunkBefore, ChainsWith
  <2>3. PICK s \in Nat : /\ s = ChunkSize(size) /\ size + ChunkHeader + BlockHeader <= s
                         /\ k # More => s = CategSize[k]
    BY ChunkSizeBounds
  <2>4. s >= ChunkHeader + BlockHeader /\ s - ChunkHeader - BlockHeader >= size
    BY <2>3, Sizes
  <2>5. Sound(c, NewChunk(c, k, s))  BY <1>1, <2>3, <2>4, NewChunkSound
  <2>6. NewChunk(c, k, s).max = s - ChunkHeader - BlockHeader /\ NewChunk(c, k, s).size = s
    BY DEF NewChunk
  <2>7. chunks[k] \in Seq(Chunk)  BY <1>1, <1>2
  <2> HIDE DEF k
  <2>8. PICK links : links = [chunks EXCEPT ![k] = Append(@, c)]  OBVIOUS
  <2>9. /\ links[k] = Append(chunks[k], c)
        /\ \A j \in Categ : j # k => links[j] = chunks[j]
    BY <1>1, <1>2, <2>8
  <2>10. Append(chunks[k], c) \in Seq(Chunk)  BY <2>7, Appended
  <2>11. links \in [Categ -> Seq(Chunk)]  BY <1>2, <2>8, <2>10
  <2>12. chunks' = [j \in Categ |-> UpTo(links[j], unlinked)]  BY <1>0, <2>2, <2>8
  <2>13. /\ chunks' \in [Categ -> Seq(Chunk)]
         /\ \A d \in Chained' : \E j \in Categ : \E i \in DOMAIN links[j] : d = links[j][i]
    BY <2>11, <2>12, CutChains
  <2>14. ASSUME NEW d \in Chained' PROVE d \in Chained \cup {c}
    <3>1. PICK j \in Categ : \E i \in DOMAIN links[j] : d = links[j][i]  BY <2>13
    <3>2. PICK i \in DOMAIN links[j] : d = links[j][i]  BY <3>1
    <3>3. d = c \/ \E n \in DOMAIN chunks[j] : d = chunks[j][n]
      <4>1. CASE j = k
        <5>1. i \in DOMAIN Append(chunks[k], c) /\ d = Append(chunks[k], c)[i]
          BY <2>9, <3>2, <4>1
        <5> QED  BY <2>7, <4>1, <5>1, Appended
      <4>2. CASE j # k  BY <2>9, <3>2, <4>2
      <4> QED  BY <4>1, <4>2
    <3>4. d = c \/ d \in Linked(j)  BY <3>3 DEF Linked
    <3> QED  BY <3>4 DEF Chained
  <2>15. alloc_usage' \in Nat  BY <1>0, <1>2, <2>1, <2>3
  <2> QED  BY <2>1, <2>2, <2>3, <2>4, <2>5, <2>6, <2>13, <2>14, <2>15
<1> QED  BY <1>0, <1>3, <1>4

LEMMA ApartBothWays ==
    ASSUME NEW c \in Nat, NEW m \in Nat, NEW d \in Nat, NEW n \in Nat, Apart(c, m, d, n)
    PROVE  Apart(d, n, c, m)
BY DEF Apart

\* What Allocate does: the chunk stays sound, the allocations stay where they
\* are, and the block that was available is taken.
LEMMA AllocateStep ==
    ASSUME RestsAreBlocks, ListInv, NEW size \in Nat \ {0}, NEW c \in Chunk,
           NEW unlinked, Allocate(size, c, unlinked), NEW block, block = BlockTaken(size, c)
    PROVE  /\ ListTypes' /\ ChunksSound' /\ ChunksApart'
           /\ DOMAIN info' = DOMAIN info \cup {c}
           /\ \A d \in DOMAIN info : info'[d].size = info[d].size
           /\ info'[c].size = ChunkBefore(size, c).size
           /\ \A h \in DOMAIN live : LiveAt(info', h, live[h])
           /\ PayloadAt(block) \in Nat /\ block.size \in Nat /\ size <= block.size
           /\ Fresh(<<c, PayloadAt(block)>>)
           /\ info'[c] = Taken(ChunkBefore(size, c), size)
           /\ IsBlock(info'[c].blocks, block)
           /\ \A n \in Nat : n + BlockHeader <= size
                               => LiveAt(info', <<c, PayloadAt(block)>>, n)
<1> DEFINE chunk == ChunkBefore(size, c)
           new == Taken(chunk, size)
           n == Len(chunk.blocks)
<1>1. /\ ListTypes /\ ChunksSound /\ ChunksApart /\ LiveTypes /\ LiveInsideBlocks
  BY DEF ListInv
<1>2. /\ info' = With(info, c, new)
      /\ user_usage' = user_usage + block.size
  BY DEF Allocate
<1>3. /\ Sound(c, chunk) /\ chunk.max >= size
      /\ chunks' \in [Categ -> Seq(Chunk)]
      /\ Chained' \subseteq Chained \cup {c}
      /\ alloc_usage' \in Nat
      /\ \A d \in DOMAIN info : d # c => Apart(c, chunk.size, d, info[d].size)
  BY <1>1, ChunkToTake
<1>4. /\ Sound(c, new)
      /\ Found(chunk, size) = n /\ n \in 1..Len(new.blocks)
      /\ chunk.blocks[n].avail
      /\ \A i \in 1..(n - 1) : new.blocks[i] = chunk.blocks[i]
      /\ new.blocks[n].at = chunk.blocks[n].at
      /\ ~new.blocks[n].avail /\ size <= new.blocks[n].size
      /\ new.size = chunk.size
  BY <1>3, TakenSound
<1>5. block = new.blocks[n]  BY <1>4 DEF BlockTaken
<1>6. c \in DOMAIN info => chunk = info[c]  BY DEF ChunkBefore
<1>7. n \in Nat \ {0} /\ DOMAIN chunk.blocks = 1..n /\ DOMAIN new.blocks = 1..Len(new.blocks)
  <2>1. n \in Nat \ {0} /\ chunk.blocks \in Seq(Block)  BY <1>3, BlockFacts
  <2>2. new.blocks \in Seq(Block)  BY <1>4, BlockFacts
  <2> QED  BY <2>1, <2>2, LenProperties
<1>8. block \in Block /\ block.size \in Nat
  <2>1. block \in Block  BY <1>4, <1>5, BlockFacts
  <2> QED  BY <2>1 DEF Block
<1> HIDE DEF chunk, new, n
<1>9. /\ DOMAIN info' = DOMAIN info \cup {c} /\ info'[c] = new
      /\ \A d \in DOMAIN info : d # c => info'[d] = info[d]
  BY <1>2 DEF With
<1>10. ListTypes'
  BY <1>1, <1>2, <1>3, <1>8, <1>9 DEF ListTypes
<1>11. ChunksSound'  BY <1>1, <1>4, <1>9 DEF ChunksSound
<1>12. \A d \in DOMAIN info : info'[d].size = info[d].size
  BY <1>4, <1>6, <1>9
<1>16. ChunksApart'
  <2>1. ASSUME NEW d \in DOMAIN info, d # c
        PROVE  Apart(c, info'[c].size, d, info'[d].size) /\ Apart(d, info'[d].size, c, info'[c].size)
    <3>1. Apart(c, info'[c].size, d, info'[d].size)
      BY <1>3, <1>4, <1>9, <1>12, <2>1
    <3>2. c \in Nat /\ d \in Nat /\ info'[c].size \in Nat /\ info'[d].size \in Nat
      BY <1>1, <1>9, <1>10, <1>11, ListAssumption DEF ListTypes, ChunksSound, Sound, ChunkInfo
    <3> QED  BY <3>1, <3>2, ApartBothWays
  <2>2. ASSUME NEW d \in DOMAIN info, NEW e \in DOMAIN info, d # e
        PROVE  Apart(d, info'[d].size, e, info'[e].size)
    BY <1>1, <1>12, <2>2 DEF ChunksApart
  <2> QED  BY <1>9, <2>1, <2>2 DEF ChunksApart
<1>13. ASSUME NEW h \in DOMAIN live
       PROVE  LiveAt(info', h, live[h]) /\ h # <<c, PayloadAt(block)>>
  <2>1. /\ h \in (DOMAIN info) \X Nat /\ h[1] \in DOMAIN info
    BY <1>1 DEF LiveTypes, ListTypes
  <2>2. PICK i \in DOMAIN info[h[1]].blocks :
            /\ ~info[h[1]].blocks[i].avail
            /\ PayloadAt(info[h[1]].blocks[i]) = h[2]
            /\ live[h] <= info[h[1]].blocks[i].size
            /\ h[2] + live[h] <= info[h[1]].size
    BY <1>1 DEF LiveInsideBlocks
  <2>3. CASE h[1] # c
    <3>1. info'[h[1]] = info[h[1]]  BY <1>9, <2>1, <2>3
    <3>2. LiveAt(info', h, live[h])  BY <2>2, <3>1 DEF LiveAt
    <3> QED  BY <2>3, <3>2
  <2>4. CASE h[1] = c
    <3>1. chunk = info[h[1]]  BY <1>6, <2>1, <2>4
    <3>2. i \in 1..n /\ i # n  BY <1>4, <1>7, <2>2, <3>1
    <3>3. i \in 1..(n - 1)  BY <1>7, <3>2, NotTheLast
    <3>4. new.blocks[i] = info[h[1]].blocks[i]  BY <1>4, <3>1, <3>3
    <3>5. i \in DOMAIN new.blocks
      <4>1. n <= Len(new.blocks) /\ Len(new.blocks) \in Nat
        <5>1. Len(new.blocks) \in Nat  BY <1>4, BlockFacts
        <5> QED  BY <1>4, <1>7, <5>1
      <4> QED  BY <1>7, <3>2, <4>1
    <3>6. info'[h[1]] = new /\ new.size = info[h[1]].size  BY <1>4, <1>9, <2>4, <3>1
    <3>7. LiveAt(info', h, live[h])  BY <2>2, <3>4, <3>5, <3>6 DEF LiveAt
    <3>8. PayloadAt(block) # h[2]
      <4>1. n \in 1..n /\ i \in 1..Len(chunk.blocks) /\ n \in (i + 1)..Len(chunk.blocks)
        BY <1>7, <3>3 DEF n
      <4>2. After(chunk.blocks[i]) <= chunk.blocks[n].at
        BY <1>3, <4>1 DEF Sound, Tiled, InOrder
      <4>3. chunk.blocks[i] \in Block /\ chunk.blocks[n] \in Block
        BY <1>3, <4>1, BlockFacts DEF n
      <4>4. PICK at \in Nat, was \in Nat, last \in Nat :
                /\ at = chunk.blocks[i].at /\ was = chunk.blocks[i].size
                /\ last = chunk.blocks[n].at
        BY <4>3 DEF Block
      <4>5. at + BlockHeader + was <= last  BY <4>2, <4>4 DEF After
      <4>6. at + BlockHeader # last + BlockHeader  BY <4>4, <4>5, Headers
      <4>7. PayloadAt(block) = last + BlockHeader
        BY <1>4, <1>5, <4>4 DEF PayloadAt
      <4>8. h[2] = at + BlockHeader  BY <2>2, <3>1, <4>4 DEF PayloadAt
      <4> QED  BY <4>6, <4>7, <4>8
    <3> QED  BY <3>7, <3>8
  <2> QED  BY <2>3, <2>4
<1>14. ASSUME NEW m \in Nat, m + BlockHeader <= size
       PROVE  LiveAt(info', <<c, PayloadAt(block)>>, m)
  <2>1. m + BlockHeader <= block.size /\ m <= block.size
    BY <1>4, <1>5, <1>8, <1>14, Sizes
  <2>2. n \in 1..Len(new.blocks) /\ n \in DOMAIN new.blocks  BY <1>4, <1>7
  <2>3. PayloadAt(block) + m <= new.size
    BY <1>4, <1>5, <2>1, <2>2, PayloadFits
  <2> QED  BY <1>4, <1>5, <1>9, <2>1, <2>2, <2>3 DEF LiveAt
<1>15. PayloadAt(block) \in Nat
  <2>1. block.at \in Nat  BY <1>8 DEF Block
  <2> QED  BY <2>1, Sizes DEF PayloadAt
<1> QED
  BY <1>3, <1>4, <1>5, <1>8, <1>9, <1>10, <1>11, <1>12, <1>13, <1>14, <1>15, <1>16
     DEF chunk, new, Fresh, IsBlock

\* The bytes of the chunk a block is taken from, once its headers are written.
LEMMA BytesAfterTyped ==
    ASSUME ListInv, NEW size \in Nat \ {0}, NEW c \in Chunk,
           Sound(c, ChunkBefore(size, c)), NEW m, m = ChunkBefore(size, c).size
    PROVE  BytesAfter(size, c) \in [0..(m - 1) -> Cell]
<1> DEFINE bytes == BytesBefore(size, c)
<1>1. bytes \in [0..(m - 1) -> Cell]
  <2>1. CASE c \in DOMAIN mem
    <3>1. c \in DOMAIN info /\ mem[c] \in [0..(info[c].size - 1) -> Cell]
      BY <2>1 DEF ListInv, BytesTyped
    <3> QED  BY <2>1, <3>1 DEF BytesBefore, ChunkBefore
  <2>2. CASE c \notin DOMAIN mem
    <3>1. c \notin DOMAIN info  BY <2>2 DEF ListInv, BytesTyped
    <3>2. m = ChunkSize(size)  BY <3>1 DEF ChunkBefore, NewChunk
    <3> QED  BY <2>2, <3>2, CellHas DEF BytesBefore
  <2> QED  BY <2>1, <2>2
<1> HIDE DEF bytes
<1>2. Headed(bytes, Taken(ChunkBefore(size, c), size).blocks) \in [0..(m - 1) -> Cell]
  BY <1>1, HeadedTyped
<1> QED  BY <1>2 DEF BytesAfter, bytes

\* Bytes stay typed when those of one chunk are replaced.
LEMMA BytesTypedAfter ==
    ASSUME ListInv, NEW c \in Chunk, NEW bytes,
           mem' = With(mem, c, bytes),
           bytes \in [0..(info'[c].size - 1) -> Cell],
           DOMAIN info' = DOMAIN info \cup {c},
           \A d \in DOMAIN info : info'[d].size = info[d].size
    PROVE  BytesTyped'
<1>1. /\ DOMAIN mem = DOMAIN info
      /\ \A d \in DOMAIN mem : mem[d] \in [0..(info[d].size - 1) -> Cell]
  BY DEF ListInv, BytesTyped
<1>2. DOMAIN mem' = DOMAIN info'  BY <1>1 DEF With
<1>3. ASSUME NEW d \in DOMAIN mem' PROVE mem'[d] \in [0..(info'[d].size - 1) -> Cell]
  <2>1. CASE d = c  BY <2>1 DEF With
  <2>2. CASE d # c
    <3>1. d \in DOMAIN mem /\ mem'[d] = mem[d]  BY <2>2, <1>3 DEF With
    <3> QED  BY <1>1, <3>1
  <2> QED  BY <2>1, <2>2
<1> QED  BY <1>2, <1>3 DEF BytesTyped

\* A stretch of n words, in chunk c but for less than a header, of chunks apart.
Overhangs(bytes, size, c, from, n) ==
    /\ c \in DOMAIN bytes /\ DOMAIN bytes \subseteq Chunk
    /\ \A d \in DOMAIN bytes : size[d] \in Nat /\ bytes[d] \in [0..(size[d] - 1) -> Cell]
    /\ \A d \in DOMAIN bytes : d # c => Apart(c, size[c], d, size[d])
    /\ from \in Nat /\ ChunkHeader <= from /\ n \in Nat
    /\ from + n <= size[c] + ChunkHeader

LEMMA OutsideCleared ==
    ASSUME NEW c \in Nat, NEW m \in Nat, NEW d \in Nat, NEW k \in Nat,
           NEW from \in Nat, NEW n \in Nat, from + n <= m + ChunkHeader,
           Apart(c, m, d, k), NEW u \in Nat, u >= ChunkHeader, u < k
    PROVE  ~(d + u >= c + from /\ d + u < c + from + n)
BY Headers DEF Apart

\* Clearing what overhangs its chunk by less than a header is filling the chunk:
\* in the next one it meets links only.
LEMMA ClearedIsFill ==
    ASSUME NEW bytes, NEW size, NEW c, NEW from, NEW n, Overhangs(bytes, size, c, from, n),
           NEW after, after = Cleared(bytes, c, from, n)
    PROVE  /\ DOMAIN after = DOMAIN bytes
           /\ after[c] = Fill(bytes[c], from, n, 0)
           /\ \A d \in DOMAIN bytes : d # c => after[d] = bytes[d]
<1> c \in DOMAIN bytes /\ from \in Nat /\ n \in Nat
  BY DEF Overhangs
<1> DOMAIN bytes \subseteq Chunk /\ ChunkHeader <= from /\ from + n <= size[c] + ChunkHeader
  BY DEF Overhangs
<1> /\ \A d \in DOMAIN bytes : size[d] \in Nat /\ bytes[d] \in [0..(size[d] - 1) -> Cell]
    /\ \A d \in DOMAIN bytes : d # c => Apart(c, size[c], d, size[d])
  BY DEF Overhangs
<1>1. /\ DOMAIN after = DOMAIN bytes
      /\ \A d \in DOMAIN bytes :
            after[d] = [u \in DOMAIN bytes[d] |->
                          IF u >= ChunkHeader /\ d + u >= c + from /\ d + u < c + from + n
                          THEN 0 ELSE bytes[d][u]]
  BY DEF Cleared
<1>2. \A d \in DOMAIN bytes : d \in Nat  BY ListAssumption
<1>3. ASSUME NEW d \in DOMAIN bytes, d # c
      PROVE  after[d] = bytes[d]
  <2>1. PICK k \in Nat : k = size[d] /\ bytes[d] \in [0..(k - 1) -> Cell]  OBVIOUS
  <2>2. PICK m \in Nat : m = size[c] /\ Apart(c, m, d, k) /\ from + n <= m + ChunkHeader
    BY <1>3, <2>1
  <2>3. ASSUME NEW u \in 0..(k - 1), u >= ChunkHeader
        PROVE  ~(d + u >= c + from /\ d + u < c + from + n)
    <3>1. u \in Nat /\ u < k /\ c \in Nat /\ d \in Nat  BY <1>2, <2>1
    <3> QED  BY <2>2, <2>3, <3>1, OutsideCleared
  <2>4. after[d] = [u \in 0..(k - 1) |->
                       IF u >= ChunkHeader /\ d + u >= c + from /\ d + u < c + from + n
                       THEN 0 ELSE bytes[d][u]]
    BY <1>1, <2>1
  <2>5. after[d] = [u \in 0..(k - 1) |-> bytes[d][u]]  BY <2>3, <2>4
  <2> QED  BY <2>1, <2>5
<1>4. after[c] = Fill(bytes[c], from, n, 0)
  <2>1. PICK m \in Nat : m = size[c] /\ bytes[c] \in [0..(m - 1) -> Cell]  OBVIOUS
  <2>2. \A u \in 0..(m - 1) :
           u >= ChunkHeader /\ c + u >= c + from /\ c + u < c + from + n
             <=> u >= from /\ u < from + n
    BY <1>2, <2>1, Headers
  <2>3. after[c] = [u \in 0..(m - 1) |->
                       IF u >= ChunkHeader /\ c + u >= c + from /\ c + u < c + from + n
                       THEN 0 ELSE bytes[c][u]]
    BY <1>1, <2>1
  <2>4. Fill(bytes[c], from, n, 0)
          = [u \in 0..(m - 1) |-> IF u >= from /\ u < from + n THEN 0 ELSE bytes[c][u]]
    BY <2>1 DEF Fill
  <2> QED  BY <2>2, <2>3, <2>4
<1> QED  BY <1>1, <1>3, <1>4

\* A block overhangs its chunk by less than the header of another.
LEMMA Overhang ==
    ASSUME NEW c \in Chunk, NEW chunk, Sound(c, chunk), NEW block, IsBlock(chunk.blocks, block)
    PROVE  /\ PayloadAt(block) \in Nat /\ block.size \in Nat /\ chunk.size \in Nat
           /\ ChunkHeader <= PayloadAt(block)
           /\ PayloadAt(block) + block.size <= chunk.size + ChunkHeader
<1>1. PICK j \in 1..Len(chunk.blocks) : chunk.blocks[j] = block  BY DEF IsBlock
<1>2. /\ block \in Block /\ FirstAt(c) <= block.at /\ After(block) <= EndAt(c, chunk)
  BY <1>1, BlockFacts
<1>3. PICK at \in Nat, was \in Nat, first \in Nat, limit \in Nat :
          /\ at = block.at /\ was = block.size /\ first = FirstAt(c) /\ limit = chunk.size
          /\ ChunkHeader <= first /\ first < ChunkHeader + BlockHeader
  BY <1>2, FirstAtBounds DEF Block, Sound, ChunkInfo
<1>4. first <= at /\ at + BlockHeader + was <= first - ChunkHeader + limit
  BY <1>2, <1>3 DEF After, EndAt
<1>5. BlockHeader <= ChunkHeader  BY ListAssumption
<1>6. /\ at + BlockHeader \in Nat /\ ChunkHeader <= at + BlockHeader
      /\ at + BlockHeader + was <= limit + ChunkHeader
  <2>1. ChunkHeader <= first /\ first < ChunkHeader + BlockHeader  BY <1>3
  <2> QED  BY <1>4, <1>5, <2>1, Headers
<1> QED  BY <1>3, <1>6 DEF PayloadAt

\* The block taken is cleared, from some word of it on, in its own chunk only.
LEMMA ClearedTaken ==
    ASSUME RestsAreBlocks, ListInv, NEW size \in Nat \ {0}, NEW c \in Chunk,
           NEW unlinked, Allocate(size, c, unlinked), NEW block, block = BlockTaken(size, c),
           NEW bytes \in [0..(info'[c].size - 1) -> Cell],
           NEW from \in Nat, PayloadAt(block) <= from, NEW n \in Nat,
           from + n = PayloadAt(block) + block.size
    PROVE  Cleared(With(mem, c, bytes), c, from, n) = With(mem, c, Fill(bytes, from, n, 0))
<1>1. /\ ListTypes' /\ ChunksSound' /\ ChunksApart'
      /\ DOMAIN info' = DOMAIN info \cup {c}
      /\ \A d \in DOMAIN info : info'[d].size = info[d].size
      /\ IsBlock(info'[c].blocks, block)
  BY AllocateStep
<1> DEFINE all == With(mem, c, bytes)
           size2 == [d \in DOMAIN info' |-> info'[d].size]
           after == Cleared(all, c, from, n)
<1>2. DOMAIN mem = DOMAIN info /\ \A d \in DOMAIN mem : mem[d] \in [0..(info[d].size - 1) -> Cell]
  BY DEF ListInv, BytesTyped
<1>3. /\ DOMAIN all = DOMAIN info' /\ all[c] = bytes /\ c \in DOMAIN all
      /\ \A d \in DOMAIN mem : d # c => all[d] = mem[d]
  BY <1>1, <1>2 DEF With
<1>4. DOMAIN info' \subseteq Chunk /\ \A d \in DOMAIN info' : info'[d].size \in Nat
  BY <1>1 DEF ListTypes, ChunksSound, Sound, ChunkInfo
<1>5. \A d \in DOMAIN info' : size2[d] = info'[d].size  OBVIOUS
<1>6. /\ ChunkHeader <= PayloadAt(block) /\ PayloadAt(block) \in Nat /\ block.size \in Nat
      /\ PayloadAt(block) + block.size <= info'[c].size + ChunkHeader
  <2>1. c \in DOMAIN info'  BY <1>1
  <2>2. Sound(c, info'[c])  BY <1>1, <2>1 DEF ChunksSound
  <2> QED  BY <1>1, <2>2, Overhang
<1> HIDE DEF all, size2, after
<1>7. \A d \in DOMAIN all : size2[d] \in Nat /\ all[d] \in [0..(size2[d] - 1) -> Cell]
  <2> SUFFICES ASSUME NEW d \in DOMAIN all
               PROVE  size2[d] \in Nat /\ all[d] \in [0..(size2[d] - 1) -> Cell]
    OBVIOUS
  <2>1. d \in DOMAIN info' /\ size2[d] = info'[d].size /\ size2[d] \in Nat  BY <1>3, <1>4, <1>5
  <2>2. CASE d = c  BY <1>3, <2>1, <2>2
  <2>3. CASE d # c
    <3>1. d \in DOMAIN mem /\ d \in DOMAIN info  BY <1>1, <1>2, <2>1, <2>3
    <3> QED  BY <1>1, <1>2, <1>3, <2>1, <2>3, <3>1
  <2> QED  BY <2>2, <2>3
<1>8. \A d \in DOMAIN all : d # c => Apart(c, size2[c], d, size2[d])
  BY <1>1, <1>3, <1>5 DEF ChunksApart
<1>9. ChunkHeader <= from /\ from + n <= size2[c] + ChunkHeader
  <2>1. size2[c] = info'[c].size /\ ChunkHeader \in Nat  BY <1>3, <1>5, Headers
  <2> QED  BY <1>6, <2>1
<1>10. PICK cleared : cleared = Cleared(all, c, from, n)  OBVIOUS
<1>11. /\ DOMAIN cleared = DOMAIN all
       /\ cleared[c] = Fill(all[c], from, n, 0)
       /\ \A d \in DOMAIN all : d # c => cleared[d] = all[d]
  <2>1. DOMAIN all \subseteq Chunk  BY <1>3, <1>4
  <2>2. Overhangs(all, size2, c, from, n)
    BY <1>3, <1>7, <1>8, <1>9, <2>1 DEF Overhangs
  <2> QED  BY <1>10, <2>2, ClearedIsFill
<1>12. cleared = [d \in DOMAIN all |-> cleared[d]]
  BY <1>10, <1>11 DEF Cleared
<1>13. With(mem, c, Fill(bytes, from, n, 0))
          = [d \in DOMAIN all |-> IF d = c THEN Fill(bytes, from, n, 0) ELSE mem[d]]
  BY <1>1, <1>2, <1>3 DEF With
<1>14. \A d \in DOMAIN all : cleared[d] = IF d = c THEN Fill(bytes, from, n, 0) ELSE mem[d]
  BY <1>1, <1>2, <1>3, <1>11
<1>15. cleared = With(mem, c, Fill(bytes, from, n, 0))
  BY <1>12, <1>13, <1>14
<1> QED  BY <1>10, <1>15 DEF all

\* The allocations the client holds, once it has another one at g.
LEMMA LiveAfter ==
    ASSUME ListInv, NEW c \in Chunk, NEW at \in Nat, NEW n \in Length, NEW kept,
           DOMAIN kept \subseteq DOMAIN live,
           \A h \in DOMAIN kept : kept[h] = live[h],
           live' = With(kept, <<c, at>>, n),
           DOMAIN info' = DOMAIN info \cup {c},
           \A h \in DOMAIN live : LiveAt(info', h, live[h]),
           LiveAt(info', <<c, at>>, n)
    PROVE  LiveTypes' /\ LiveInsideBlocks'
<1>1. /\ DOMAIN live \subseteq (DOMAIN info) \X Nat
      /\ \A h \in DOMAIN live : live[h] \in Length
  BY DEF ListInv, LiveTypes
<1>2. DOMAIN live' = DOMAIN kept \cup {<<c, at>>}  BY DEF With
<1>3. ASSUME NEW h \in DOMAIN live'
      PROVE  h \in (DOMAIN info') \X Nat /\ live'[h] \in Length /\ LiveAt(info', h, live'[h])
  <2>1. CASE h = <<c, at>>
    <3>1. live'[h] = n  BY <2>1 DEF With
    <3> QED  BY <2>1, <3>1
  <2>2. CASE h # <<c, at>>
    <3>1. h \in DOMAIN live /\ h \in DOMAIN kept  BY <1>2, <1>3, <2>2
    <3>2. live'[h] = live[h]  BY <2>2, <3>1 DEF With
    <3> QED  BY <1>1, <3>1, <3>2
  <2> QED  BY <2>1, <2>2
<1>4. LiveTypes'  BY <1>3 DEF LiveTypes
<1>5. LiveInsideBlocks'  BY <1>3 DEF LiveInsideBlocks, LiveAt
<1> QED  BY <1>4, <1>5

-----------------------------------------------------------------------------
(* The steps.                                                              *)

LEMMA LengthsAreSizes ==
    ASSUME NEW n \in Length
    PROVE  /\ n \in Nat /\ AllocSize(n) \in Nat \ {0} /\ n + BlockHeader <= AllocSize(n)
           /\ AllocSize(AllocSize(n)) \in Nat \ {0}
           /\ AllocSize(n) + BlockHeader <= AllocSize(AllocSize(n))
           /\ n + BlockHeader <= AllocSize(AllocSize(n))
<1>1. n \in Nat  BY ListAssumption
<1>2. AllocSize(n) \in Nat /\ n + BlockHeader <= AllocSize(n)
  BY <1>1, AllocSizeBounds
<1>3. AllocSize(AllocSize(n)) \in Nat
      /\ AllocSize(n) + BlockHeader <= AllocSize(AllocSize(n))
  BY <1>2, AllocSizeBounds
<1> QED  BY <1>1, <1>2, <1>3, Headers

LEMMA ListInvInit == Init => ListInv
<1> SUFFICES ASSUME Init PROVE ListInv
  OBVIOUS
<1>1. /\ chunks = [k \in Categ |-> <<>>] /\ DOMAIN info = {} /\ DOMAIN mem = {}
      /\ user_usage = 0 /\ alloc_usage = 0 /\ DOMAIN live = {}
  BY DEF Init
<1>2. Chained = {}
  BY <1>1 DEF Chained, Linked
<1>3. <<>> \in Seq(Chunk)  BY EmptySeq
<1>4. ListTypes  BY <1>1, <1>2, <1>3 DEF ListTypes
<1> QED
  BY <1>1, <1>4 DEF ListInv, ChunksSound, ChunksApart, BytesTyped, LiveTypes, LiveInsideBlocks

\* Zeroing an allocation is filling its block, whatever else is cleared.
LEMMA AllocMem ==
    ASSUME RestsAreBlocks, ListInv, NEW n \in Length, NEW zero \in BOOLEAN,
           NEW c \in Chunk, Alloc(n, zero, c)
    PROVE  LET size  == AllocSize(n)
               block == BlockTaken(size, c)
               after == BytesAfter(size, c)
           IN  mem' = With(mem, c, IF zero THEN Fill(after, PayloadAt(block), block.size, 0)
                                           ELSE after)
<1> DEFINE size == AllocSize(n)
           block == BlockTaken(size, c)
           at == PayloadAt(block)
           after == BytesAfter(size, c)
           cut == IF zero THEN Unlinked(c, at, block.size) ELSE {}
<1>1. size \in Nat \ {0}  BY LengthsAreSizes
<1>2. /\ Allocate(size, c, cut)
      /\ mem' = IF zero THEN Cleared(With(mem, c, after), c, at, block.size)
                        ELSE With(mem, c, after)
  BY DEF Alloc
<1> HIDE DEF size, after, cut
<1>3. PICK b : b = block  OBVIOUS
<1>4. /\ PayloadAt(b) \in Nat /\ b.size \in Nat
      /\ info'[c].size = ChunkBefore(size, c).size
  BY <1>1, <1>2, <1>3, AllocateStep
<1>5. Sound(c, ChunkBefore(size, c))
  BY <1>1, <1>2, ChunkToTake DEF ListInv
<1>6. after \in [0..(info'[c].size - 1) -> Cell]
  BY <1>1, <1>4, <1>5, BytesAfterTyped DEF after
<1>7. Cleared(With(mem, c, after), c, PayloadAt(b), b.size)
         = With(mem, c, Fill(after, PayloadAt(b), b.size, 0))
  <2>1. PICK from \in Nat, m \in Nat : from = PayloadAt(b) /\ m = b.size  BY <1>4
  <2>2. PayloadAt(b) <= from /\ from + m = PayloadAt(b) + b.size  BY <2>1
  <2> QED  BY <1>1, <1>2, <1>3, <1>6, <2>1, <2>2, ClearedTaken
<1>8. mem' = With(mem, c, IF zero THEN Fill(after, PayloadAt(b), b.size, 0) ELSE after)
  <2>1. CASE zero  BY <1>2, <1>3, <1>7, <2>1
  <2>2. CASE ~zero  BY <1>2, <2>2
  <2> QED  BY <2>1, <2>2
<1> QED  BY <1>3, <1>8 DEF size, after

LEMMA StepAlloc ==
    ASSUME RestsAreBlocks, ListInv, NEW n \in Length, NEW zero \in BOOLEAN,
           NEW c \in Chunk, Alloc(n, zero, c)
    PROVE  ListInv'
<1> DEFINE size == AllocSize(n)
           block == BlockTaken(size, c)
           at == PayloadAt(block)
           cut == IF zero THEN Unlinked(c, at, block.size) ELSE {}
           bytes == IF zero THEN Fill(BytesAfter(size, c), at, block.size, 0)
                            ELSE BytesAfter(size, c)
<1>1. n \in Nat /\ size \in Nat \ {0} /\ n + BlockHeader <= size
  BY LengthsAreSizes
<1>2. Allocate(size, c, cut) /\ live' = With(live, <<c, at>>, n)
  BY DEF Alloc
<1>9. mem' = With(mem, c, bytes)
  BY AllocMem
<1> HIDE DEF size, block, cut
<1>3. /\ ListTypes' /\ ChunksSound' /\ ChunksApart'
      /\ DOMAIN info' = DOMAIN info \cup {c}
      /\ \A d \in DOMAIN info : info'[d].size = info[d].size
      /\ info'[c].size = ChunkBefore(size, c).size
      /\ \A h \in DOMAIN live : LiveAt(info', h, live[h])
      /\ at \in Nat /\ LiveAt(info', <<c, at>>, n)
  BY <1>1, <1>2, AllocateStep DEF block
<1>4. Sound(c, ChunkBefore(size, c))
  BY <1>1, <1>2, ChunkToTake DEF ListInv
<1>5. BytesAfter(size, c) \in [0..(info'[c].size - 1) -> Cell]
  BY <1>1, <1>3, <1>4, BytesAfterTyped
<1>6. bytes \in [0..(info'[c].size - 1) -> Cell]
  BY <1>5, CellHas, FillTyped
<1> HIDE DEF at, bytes
<1>7. BytesTyped'  BY <1>3, <1>6, <1>9, BytesTypedAfter
<1>8. LiveTypes' /\ LiveInsideBlocks'  BY <1>2, <1>3, LiveAfter
<1> QED  BY <1>3, <1>7, <1>8 DEF ListInv

\* And so is zeroing what lies behind a copy.
LEMMA MovedMem ==
    ASSUME RestsAreBlocks, ListInv, NEW h \in DOMAIN live, NEW n \in Length,
           NEW zero \in BOOLEAN, NEW c \in Chunk, ReallocMoved(h, n, zero, c)
    PROVE  LET newsize == AllocSize(n)
               size    == AllocSize(newsize)
               block   == BlockTaken(size, c)
               at      == PayloadAt(block)
               copied  == Copy(BytesAfter(size, c), at,
                               Smaller(newsize, BlockOf(h).size), mem[h[1]], h[2])
           IN  mem' = With(mem, c,
                           IF zero THEN Fill(copied, at + newsize, block.size - newsize, 0)
                                   ELSE copied)
<1> DEFINE newsize == AllocSize(n)
           size == AllocSize(newsize)
           block == BlockTaken(size, c)
           at == PayloadAt(block)
           copied == Copy(BytesAfter(size, c), at,
                          Smaller(newsize, BlockOf(h).size), mem[h[1]], h[2])
           cut == IF zero THEN Unlinked(c, at + newsize, block.size - newsize) ELSE {}
<1>1. newsize \in Nat /\ size \in Nat \ {0} /\ newsize + BlockHeader <= size
  BY LengthsAreSizes
<1>2. /\ Allocate(size, c, cut)
      /\ mem' = IF zero
                THEN Cleared(With(mem, c, copied), c, at + newsize, block.size - newsize)
                ELSE With(mem, c, copied)
  BY DEF ReallocMoved
<1> HIDE DEF newsize, size, cut
<1>3. PICK b : b = block  OBVIOUS
<1>4. /\ PayloadAt(b) \in Nat /\ b.size \in Nat /\ size <= b.size
      /\ info'[c].size = ChunkBefore(size, c).size
  BY <1>1, <1>2, <1>3, AllocateStep
<1>5. Sound(c, ChunkBefore(size, c))
  BY <1>1, <1>2, ChunkToTake DEF ListInv
<1>6. BytesAfter(size, c) \in [0..(info'[c].size - 1) -> Cell]
  BY <1>1, <1>4, <1>5, BytesAfterTyped
<1>7. mem[h[1]] \in [0..(info[h[1]].size - 1) -> Cell]
  <2>1. h[1] \in DOMAIN mem
    BY DEF ListInv, LiveTypes, BytesTyped
  <2> QED  BY <2>1 DEF ListInv, BytesTyped
<1>8. copied \in [0..(info'[c].size - 1) -> Cell]
  BY <1>6, <1>7, CopyTyped
<1> HIDE DEF copied
<1>9. Cleared(With(mem, c, copied), c, PayloadAt(b) + newsize, b.size - newsize)
         = With(mem, c, Fill(copied, PayloadAt(b) + newsize, b.size - newsize, 0))
  <2>1. PICK from \in Nat, m \in Nat : from = PayloadAt(b) + newsize /\ m = b.size - newsize
    BY <1>1, <1>4, Headers
  <2>2. PayloadAt(b) <= from /\ from + m = PayloadAt(b) + b.size  BY <1>1, <1>4, <2>1
  <2> QED  BY <1>1, <1>2, <1>3, <1>8, <2>1, <2>2, ClearedTaken
<1>10. mem' = With(mem, c, IF zero
                           THEN Fill(copied, PayloadAt(b) + newsize, b.size - newsize, 0)
                           ELSE copied)
  <2>1. CASE zero  BY <1>2, <1>3, <1>9, <2>1
  <2>2. CASE ~zero  BY <1>2, <2>2
  <2> QED  BY <2>1, <2>2
<1> QED  BY <1>3, <1>10 DEF newsize, size, copied

LEMMA StepReallocMoved ==
    ASSUME RestsAreBlocks, ListInv, NEW h \in DOMAIN live, NEW n \in Length,
           NEW zero \in BOOLEAN, NEW c \in Chunk, ReallocMoved(h, n, zero, c)
    PROVE  ListInv'
<1> DEFINE newsize == AllocSize(n)
           size == AllocSize(newsize)
           block == BlockTaken(size, c)
           at == PayloadAt(block)
           copied == Copy(BytesAfter(size, c), at,
                          Smaller(newsize, BlockOf(h).size), mem[h[1]], h[2])
           bytes == IF zero THEN Fill(copied, at + newsize, block.size - newsize, 0)
                            ELSE copied
           kept == Without(live, {h})
           cut == IF zero THEN Unlinked(c, at + newsize, block.size - newsize) ELSE {}
<1>1. n \in Nat /\ size \in Nat \ {0} /\ n + BlockHeader <= size
  BY LengthsAreSizes
<1>2. Allocate(size, c, cut) /\ live' = With(kept, <<c, at>>, n)
  BY DEF ReallocMoved
<1>12. mem' = With(mem, c, bytes)
  BY MovedMem
<1> HIDE DEF size, block, cut
<1>3. /\ ListTypes' /\ ChunksSound' /\ ChunksApart'
      /\ DOMAIN info' = DOMAIN info \cup {c}
      /\ \A d \in DOMAIN info : info'[d].size = info[d].size
      /\ info'[c].size = ChunkBefore(size, c).size
      /\ \A g \in DOMAIN live : LiveAt(info', g, live[g])
      /\ at \in Nat /\ LiveAt(info', <<c, at>>, n)
  BY <1>1, <1>2, AllocateStep DEF block
<1>4. Sound(c, ChunkBefore(size, c))
  BY <1>1, <1>2, ChunkToTake DEF ListInv
<1>5. BytesAfter(size, c) \in [0..(info'[c].size - 1) -> Cell]
  BY <1>1, <1>3, <1>4, BytesAfterTyped
<1>6. mem[h[1]] \in [0..(info[h[1]].size - 1) -> Cell]
  <2>1. h[1] \in DOMAIN mem
    BY DEF ListInv, LiveTypes, ListTypes, BytesTyped
  <2> QED  BY <2>1 DEF ListInv, BytesTyped
<1>7. copied \in [0..(info'[c].size - 1) -> Cell]
  BY <1>5, <1>6, CopyTyped
<1> HIDE DEF copied
<1>8. bytes \in [0..(info'[c].size - 1) -> Cell]
  BY <1>7, CellHas, FillTyped
<1> HIDE DEF at, bytes
<1>9. BytesTyped'  BY <1>3, <1>8, <1>12, BytesTypedAfter
<1>10. DOMAIN kept \subseteq DOMAIN live /\ \A g \in DOMAIN kept : kept[g] = live[g]
  BY DEF Without
<1> HIDE DEF kept
<1>11. LiveTypes' /\ LiveInsideBlocks'  BY <1>2, <1>3, <1>10, LiveAfter
<1> QED  BY <1>3, <1>9, <1>11 DEF ListInv

\* A block is found by where its payload is.
LEMMA BlockOfHeld ==
    ASSUME ListInv, NEW h \in DOMAIN live
    PROVE  /\ h[1] \in DOMAIN info /\ h[1] \in DOMAIN mem /\ h[2] \in Nat
           /\ mem[h[1]] \in [0..(info[h[1]].size - 1) -> Cell]
           /\ Sound(h[1], info[h[1]]) /\ live[h] \in Length /\ live[h] \in Nat
           /\ h = <<h[1], h[2]>>
           /\ \E i \in 1..Len(info[h[1]].blocks) :
                 /\ BlockOf(h) = info[h[1]].blocks[i] /\ ~BlockOf(h).avail
                 /\ PayloadAt(BlockOf(h)) = h[2] /\ live[h] <= BlockOf(h).size
           /\ h[2] + live[h] <= info[h[1]].size
<1>1. /\ h \in (DOMAIN info) \X Nat /\ live[h] \in Length
      /\ Chained \subseteq DOMAIN info /\ DOMAIN info \subseteq Chunk
      /\ DOMAIN mem = DOMAIN info /\ ChunksSound /\ BytesTyped
  BY DEF ListInv, LiveTypes, ListTypes, BytesTyped
<1>2. PICK c \in DOMAIN info : c = h[1] /\ c \in Chunk
  BY <1>1
<1>3. Sound(c, info[c])  BY <1>1 DEF ChunksSound
<1> DEFINE blocks == info[c].blocks
<1>4. PICK n \in Nat \ {0} : n = Len(blocks) /\ DOMAIN blocks = 1..n
  <2>1. Len(blocks) \in Nat \ {0} /\ blocks \in Seq(Block)  BY <1>2, <1>3, BlockFacts
  <2> QED  BY <2>1, LenProperties
<1>5. InOrder(blocks) /\ \A j \in 1..n : blocks[j] \in Block
  BY <1>2, <1>3, <1>4, BlockFacts DEF Sound, Tiled
<1>6. PICK i \in 1..n : /\ ~blocks[i].avail /\ PayloadAt(blocks[i]) = h[2]
                        /\ live[h] <= blocks[i].size
                        /\ h[2] + live[h] <= info[c].size
  BY <1>2, <1>4 DEF ListInv, LiveInsideBlocks
<1> HIDE DEF blocks
<1>7. \A j, k \in 1..n : PayloadAt(blocks[j]) = PayloadAt(blocks[k]) => ~(j < k)
  <2> SUFFICES ASSUME NEW j \in 1..n, NEW k \in 1..n, j < k
               PROVE  PayloadAt(blocks[j]) # PayloadAt(blocks[k])
    OBVIOUS
  <2>1. k \in (j + 1)..n  OBVIOUS
  <2>2. After(blocks[j]) <= blocks[k].at  BY <1>4, <1>5, <2>1 DEF InOrder
  <2>3. PICK a \in Nat, w \in Nat, b \in Nat :
            a = blocks[j].at /\ w = blocks[j].size /\ b = blocks[k].at
    BY <1>5 DEF Block
  <2>4. a + BlockHeader + w <= b  BY <2>2, <2>3 DEF After
  <2>5. a + BlockHeader # b + BlockHeader  BY <2>3, <2>4, Headers
  <2> QED  BY <2>3, <2>5 DEF PayloadAt
<1>8. \A j \in 1..n : PayloadAt(blocks[j]) = h[2] => j = i
  <2> SUFFICES ASSUME NEW j \in 1..n, PayloadAt(blocks[j]) = h[2] PROVE j = i
    OBVIOUS
  <2>1. ~(j < i) /\ ~(i < j)  BY <1>6, <1>7
  <2> QED  BY <2>1
<1>9. (CHOOSE j \in DOMAIN blocks : PayloadAt(blocks[j]) = h[2]) = i
  BY <1>4, <1>6, <1>8
<1>10. BlockOf(h) = blocks[i]  BY <1>2, <1>9 DEF BlockOf, blocks
<1>11. live[h] \in Nat  BY <1>1, ListAssumption
<1>12. mem[c] \in [0..(info[c].size - 1) -> Cell]  BY <1>1, <1>2 DEF BytesTyped
<1>13. i \in 1..Len(info[h[1]].blocks) /\ BlockOf(h) = info[h[1]].blocks[i]
  BY <1>2, <1>4, <1>10 DEF blocks
<1>14. h = <<h[1], h[2]>> /\ h[2] \in Nat  BY <1>1
<1> QED  BY <1>1, <1>2, <1>3, <1>6, <1>10, <1>11, <1>12, <1>13, <1>14

LEMMA StepWrite ==
    ASSUME ListInv, NEW h \in DOMAIN live, NEW v \in Data, Write(h, v)
    PROVE  ListInv'
<1>1. /\ mem' = [mem EXCEPT ![h[1]] = Fill(@, h[2], live[h], v)]
      /\ UNCHANGED <<chunks, info, user_usage, alloc_usage, live>>
  BY DEF Write
<1>2. /\ DOMAIN mem = DOMAIN info /\ h[1] \in DOMAIN mem
      /\ \A d \in DOMAIN mem : mem[d] \in [0..(info[d].size - 1) -> Cell]
  BY BlockOfHeld DEF ListInv, BytesTyped
<1>3. Fill(mem[h[1]], h[2], live[h], v) \in [0..(info[h[1]].size - 1) -> Cell]
  BY <1>2, CellHas, FillTyped
<1>4. BytesTyped'
  BY <1>1, <1>2, <1>3 DEF BytesTyped
<1>5. Chained' = Chained  BY <1>1 DEF Chained, Linked
<1>6. ListTypes' /\ LiveTypes'
  BY <1>1, <1>5 DEF ListInv, ListTypes, LiveTypes
<1>7. ChunksSound' /\ ChunksApart'
  <2>1. info' = info  BY <1>1
  <2> QED  BY <2>1 DEF ListInv, ChunksSound, ChunksApart
<1>8. LiveInsideBlocks'
  <2>1. info' = info /\ live' = live  BY <1>1
  <2> QED  BY <2>1 DEF ListInv, LiveInsideBlocks
<1> QED  BY <1>4, <1>6, <1>7, <1>8 DEF ListInv

LEMMA StepFree ==
    ASSUME ListInv, NEW h \in DOMAIN live, Free(h)
    PROVE  ListInv'
<1>1. /\ live' = Without(live, {h})
      /\ UNCHANGED <<chunks, info, mem, user_usage, alloc_usage>>
  BY DEF Free
<1>2. DOMAIN live' \subseteq DOMAIN live /\ \A g \in DOMAIN live' : live'[g] = live[g]
  BY <1>1 DEF Without
<1>3. Chained' = Chained  BY <1>1 DEF Chained, Linked
<1>4. LiveTypes' /\ LiveInsideBlocks'
  BY <1>1, <1>2, <1>3 DEF ListInv, LiveTypes, LiveInsideBlocks
<1> QED
  BY <1>1, <1>3, <1>4 DEF ListInv, ListTypes, ChunksSound, ChunksApart, BytesTyped

\* Zeroing the rest of a block that is kept is filling it, whatever else is
\* cleared.
LEMMA InPlaceMem ==
    ASSUME ListInv, NEW h \in DOMAIN live, NEW n \in Length, NEW zero \in BOOLEAN,
           ReallocInPlace(h, n, zero)
    PROVE  mem' = IF zero
                  THEN [mem EXCEPT ![h[1]] = Fill(mem[h[1]], h[2] + AllocSize(n),
                                                  BlockOf(h).size - AllocSize(n), 0)]
                  ELSE mem
<1> DEFINE c == h[1]
           from == h[2] + AllocSize(n)
           sizes == [d \in DOMAIN info |-> info[d].size]
<1>1. /\ mem' = IF zero THEN Cleared(mem, c, from, h[2] + BlockOf(h).size - from) ELSE mem
      /\ BlockOf(h).size >= AllocSize(n)
  BY DEF ReallocInPlace, InPlace, Keeps
<1>2. /\ c \in DOMAIN info /\ c \in Chunk /\ c \in DOMAIN mem /\ h[2] \in Nat
      /\ Sound(c, info[c])
      /\ PayloadAt(BlockOf(h)) = h[2] /\ IsBlock(info[c].blocks, BlockOf(h))
  BY BlockOfHeld DEF ListInv, ListTypes, IsBlock
<1>3. AllocSize(n) \in Nat  BY LengthsAreSizes
<1>4. /\ ChunkHeader <= h[2] /\ BlockOf(h).size \in Nat /\ info[c].size \in Nat
      /\ h[2] + BlockOf(h).size <= info[c].size + ChunkHeader
  BY <1>2, Overhang
<1>5. /\ DOMAIN mem = DOMAIN info /\ DOMAIN info \subseteq Chunk
      /\ \A d \in DOMAIN mem : mem[d] \in [0..(info[d].size - 1) -> Cell]
      /\ \A d \in DOMAIN info : info[d].size \in Nat
      /\ ChunksApart
  BY DEF ListInv, ListTypes, BytesTyped, ChunksSound, Sound, ChunkInfo
<1>6. PICK m \in Nat, f \in Nat :
          /\ f = from /\ ChunkHeader <= f
          /\ m = BlockOf(h).size - AllocSize(n) /\ m = h[2] + BlockOf(h).size - from
          /\ f + m <= info[c].size + ChunkHeader
  <2>1. PICK a \in Nat, b \in Nat, w \in Nat, k \in Nat :
            /\ a = h[2] /\ b = BlockOf(h).size /\ w = AllocSize(n) /\ k = info[c].size
            /\ ChunkHeader <= a /\ b >= w /\ a + b <= k + ChunkHeader
    BY <1>1, <1>2, <1>3, <1>4
  <2>2. /\ a + w \in Nat /\ b - w \in Nat /\ b - w = a + b - (a + w)
        /\ ChunkHeader <= a + w /\ (a + w) + (b - w) <= k + ChunkHeader
    BY <2>1, Headers
  <2> QED  BY <2>1, <2>2
<1> HIDE DEF from
<1>7. \A d \in DOMAIN mem : sizes[d] = info[d].size  BY <1>5
<1> HIDE DEF sizes
<1>8. PICK cleared : cleared = Cleared(mem, c, f, m)  OBVIOUS
<1>9. /\ DOMAIN cleared = DOMAIN mem /\ cleared[c] = Fill(mem[c], f, m, 0)
      /\ \A d \in DOMAIN mem : d # c => cleared[d] = mem[d]
  <2>1. \A d \in DOMAIN mem : d # c => Apart(c, sizes[c], d, sizes[d])
    BY <1>2, <1>5, <1>7 DEF ChunksApart
  <2>2. \A d \in DOMAIN mem : sizes[d] \in Nat /\ mem[d] \in [0..(sizes[d] - 1) -> Cell]
    BY <1>5, <1>7
  <2>3. DOMAIN mem \subseteq Chunk /\ c \in DOMAIN mem /\ f + m <= sizes[c] + ChunkHeader
    BY <1>2, <1>5, <1>6, <1>7
  <2>4. ChunkHeader <= f  BY <1>6
  <2> HIDE DEF c
  <2>5. Overhangs(mem, sizes, c, f, m)
    BY <2>1, <2>2, <2>3, <2>4 DEF Overhangs
  <2> QED  BY <1>8, <2>5, ClearedIsFill
<1>10. cleared = [mem EXCEPT ![c] = Fill(mem[c], f, m, 0)]
  <2>1. cleared = [d \in DOMAIN mem |-> cleared[d]]  BY <1>8 DEF Cleared
  <2>2. \A d \in DOMAIN mem : cleared[d] = IF d = c THEN Fill(mem[c], f, m, 0) ELSE mem[d]
    BY <1>9
  <2>3. [mem EXCEPT ![c] = Fill(mem[c], f, m, 0)]
           = [d \in DOMAIN mem |-> IF d = c THEN Fill(mem[c], f, m, 0) ELSE mem[d]]
    BY <1>2
  <2> QED  BY <2>1, <2>2, <2>3
<1>11. CASE zero
  <2>1. mem' = cleared  BY <1>1, <1>6, <1>8, <1>11
  <2> QED  BY <1>6, <1>10, <1>11, <2>1 DEF from
<1>12. CASE ~zero  BY <1>1, <1>12
<1> QED  BY <1>11, <1>12

LEMMA StepReallocInPlace ==
    ASSUME ListInv, NEW h \in DOMAIN live, NEW n \in Length, NEW zero \in BOOLEAN,
           ReallocInPlace(h, n, zero)
    PROVE  ListInv'
<1> DEFINE size == AllocSize(n)
           c == h[1]
           filled == Fill(mem[c], h[2] + size, BlockOf(h).size - size, 0)
<1>1. /\ live' = With(live, h, n)
      /\ BlockOf(h).size >= size
      /\ UNCHANGED <<info, user_usage, alloc_usage>>
  BY DEF ReallocInPlace, InPlace, Keeps
<1>18. mem' = (IF zero THEN [mem EXCEPT ![c] = filled] ELSE mem)
  BY InPlaceMem
<1>12. chunks' \in [Categ -> Seq(Chunk)] /\ Chained' \subseteq Chained
  <2>1. ListTypes  BY DEF ListInv
  <2>2. CASE zero
    <3>1. chunks' = [k \in Categ |-> UpTo(chunks[k], Unlinked(c, h[2] + size,
                                                     h[2] + BlockOf(h).size - (h[2] + size)))]
      BY <2>2 DEF ReallocInPlace, InPlace
    <3> QED  BY <2>1, <3>1, ChainsCut
  <2>3. CASE ~zero
    <3>1. chunks' = chunks  BY <2>3 DEF ReallocInPlace, InPlace
    <3>2. Chained' = Chained  BY <3>1 DEF Chained, Linked
    <3> QED  BY <2>1, <3>1, <3>2 DEF ListTypes
  <2> QED  BY <2>2, <2>3
<1>2. /\ c \in DOMAIN info /\ c \in Chunk /\ c \in DOMAIN mem /\ h[2] \in Nat
      /\ Sound(c, info[c]) /\ h = <<c, h[2]>>
  BY BlockOfHeld DEF ListInv, ListTypes
<1>3. PICK i \in 1..Len(info[c].blocks) :
          /\ BlockOf(h) = info[c].blocks[i] /\ ~BlockOf(h).avail
          /\ PayloadAt(BlockOf(h)) = h[2]
  BY BlockOfHeld
<1>4. n \in Nat /\ size \in Nat /\ n + BlockHeader <= size
  BY LengthsAreSizes
<1>5. BlockOf(h) \in Block  BY <1>2, <1>3, BlockFacts
<1>6. BlockOf(h).size \in Nat  BY <1>5 DEF Block
<1> HIDE DEF size
<1>7. n + BlockHeader <= BlockOf(h).size /\ n <= BlockOf(h).size
  BY <1>1, <1>4, <1>6, Headers
<1>8. h[2] + n <= info[c].size  BY <1>2, <1>3, <1>4, <1>7, PayloadFits
<1>9. i \in DOMAIN info[c].blocks
  <2>1. info[c].blocks \in Seq(Block)  BY <1>2, BlockFacts
  <2> QED  BY <1>3, <2>1, LenProperties
<1>10. LiveAt(info, h, n)  BY <1>3, <1>7, <1>8, <1>9 DEF LiveAt
<1>11. /\ DOMAIN live' = DOMAIN live /\ live'[h] = n
       /\ \A g \in DOMAIN live : g # h => live'[g] = live[g]
  BY <1>1 DEF With
<1>13. \A g \in DOMAIN live' : live'[g] \in Length /\ LiveAt(info, g, live'[g])
  BY <1>10, <1>11 DEF ListInv, LiveTypes, LiveInsideBlocks, LiveAt
<1>14. LiveTypes' /\ LiveInsideBlocks'
  BY <1>1, <1>11, <1>13 DEF ListInv, LiveTypes, LiveInsideBlocks, LiveAt
<1>15. /\ DOMAIN mem = DOMAIN info
       /\ \A d \in DOMAIN mem : mem[d] \in [0..(info[d].size - 1) -> Cell]
  BY DEF ListInv, BytesTyped
<1>16. filled \in [0..(info[c].size - 1) -> Cell]
  BY <1>2, <1>15, CellHas, FillTyped
<1> HIDE DEF filled
<1>17. BytesTyped'  BY <1>1, <1>2, <1>15, <1>16, <1>18 DEF BytesTyped
<1>19. ListTypes'
  BY <1>1, <1>12 DEF ListInv, ListTypes
<1> QED
  BY <1>1, <1>14, <1>17, <1>19 DEF ListInv, ChunksSound, ChunksApart

LEMMA StepClear ==
    ASSUME ListInv, ~ClearsLarge, Clear
    PROVE  ListInv'
<1> DEFINE Again(c) == NewChunk(c, info[c].categ, info[c].size)
<1>1. /\ chunks' = [k \in Categ |-> SubSeq(chunks[k], 1, Smaller(1, Len(chunks[k])))]
      /\ info' = [c \in DOMAIN info |-> IF c \in Chained THEN Again(c) ELSE info[c]]
      /\ mem' = [c \in DOMAIN info' |->
                     IF c \in Chained THEN Headed(mem[c], info'[c].blocks) ELSE mem[c]]
      /\ live' = Without(live, DOMAIN live)
      /\ UNCHANGED <<user_usage, alloc_usage>>
  <2>1. {c \in Chained : ShouldDel(c)} = {}  BY DEF Clear
  <2>2. DOMAIN info \ {} = DOMAIN info  OBVIOUS
  <2> QED  BY <2>1, <2>2 DEF Clear
<1>2. /\ chunks \in [Categ -> Seq(Chunk)]
      /\ Chained \subseteq DOMAIN info /\ DOMAIN info \subseteq Chunk
      /\ DOMAIN mem = DOMAIN info
      /\ \A d \in DOMAIN mem : mem[d] \in [0..(info[d].size - 1) -> Cell]
      /\ ChunksSound
  BY DEF ListInv, ListTypes, BytesTyped
<1>3. ASSUME NEW k \in Categ
      PROVE  chunks'[k] \in Seq(Chunk) /\ Linked(k)' \subseteq Linked(k)
  <2> DEFINE q == chunks[k]
             m == Smaller(1, Len(q))
  <2>1. q \in Seq(Chunk) /\ Len(q) \in Nat /\ DOMAIN q = 1..Len(q)
    BY <1>2, LenProperties
  <2>2. m \in Nat /\ m <= Len(q)  BY <2>1 DEF Smaller
  <2>3. chunks'[k] = SubSeq(q, 1, m)  BY <1>1
  <2> HIDE DEF q, m
  <2>4. \A i \in 1..m : i \in 1..Len(q) /\ q[i] \in Chunk  BY <2>1, <2>2, ElementOfSeq
  <2>5. /\ SubSeq(q, 1, m) \in Seq(Chunk)
        /\ Len(SubSeq(q, 1, m)) = IF 1 <= m THEN m - 1 + 1 ELSE 0
        /\ \A i \in 1..(m - 1 + 1) : SubSeq(q, 1, m)[i] = q[1 + i - 1]
    BY <2>2, <2>4, SubSeqProperties
  <2>6. Len(SubSeq(q, 1, m)) = m /\ \A i \in 1..m : SubSeq(q, 1, m)[i] = q[i]
    BY <2>2, <2>5
  <2>7. DOMAIN SubSeq(q, 1, m) = 1..m  BY <2>5, <2>6, LenProperties
  <2>8. Linked(k)' \subseteq Linked(k)
    BY <2>1, <2>3, <2>4, <2>6, <2>7 DEF Linked, q
  <2> QED  BY <2>3, <2>5, <2>8
<1>4. chunks' \in [Categ -> Seq(Chunk)]
  <2>1. DOMAIN chunks' = Categ /\ chunks' = [k \in Categ |-> chunks'[k]]  BY <1>1
  <2> QED  BY <1>3, <2>1
<1>5. Chained' \subseteq Chained  BY <1>3 DEF Chained
<1>6. ListTypes'
  BY <1>1, <1>2, <1>4, <1>5 DEF ListInv, ListTypes
<1>7. ASSUME NEW c \in DOMAIN info
      PROVE  Sound(c, info'[c]) /\ info'[c].size = info[c].size
  <2>1. c \in Chunk /\ Sound(c, info[c])  BY <1>2 DEF ChunksSound
  <2>2. Sound(c, Again(c)) /\ Again(c).size = info[c].size
    BY <2>1, AgainSound DEF NewChunk
  <2> HIDE DEF Again
  <2> QED  BY <1>1, <2>1, <2>2
<1>8. ChunksSound' /\ ChunksApart'
  BY <1>1, <1>7 DEF ListInv, ChunksSound, ChunksApart
<1>9. BytesTyped'
  <2>1. DOMAIN mem' = DOMAIN info' /\ DOMAIN info' = DOMAIN info  BY <1>1
  <2>2. ASSUME NEW c \in DOMAIN mem'
        PROVE  mem'[c] \in [0..(info'[c].size - 1) -> Cell]
    <3>1. c \in DOMAIN mem /\ info'[c].size = info[c].size
      BY <1>2, <1>7, <2>1
    <3>2. mem[c] \in [0..(info'[c].size - 1) -> Cell]  BY <1>2, <3>1
    <3>3. Headed(mem[c], info'[c].blocks) \in [0..(info'[c].size - 1) -> Cell]
      BY <3>2, HeadedTyped
    <3>4. mem'[c] = IF c \in Chained THEN Headed(mem[c], info'[c].blocks) ELSE mem[c]
      BY <1>1, <2>1
    <3> QED  BY <3>2, <3>3, <3>4
  <2> QED  BY <2>1, <2>2 DEF BytesTyped
<1>10. DOMAIN live' = {}  BY <1>1 DEF Without
<1> QED
  BY <1>6, <1>8, <1>9, <1>10 DEF ListInv, LiveTypes, LiveInsideBlocks

LEMMA StepDel ==
    ASSUME ListInv, Del
    PROVE  ListInv'
<1>1. /\ chunks' = [k \in Categ |-> <<>>]
      /\ info' = Without(info, Chained) /\ mem' = Without(mem, Chained)
      /\ user_usage' = 0 /\ alloc_usage' = 0 /\ live' = Without(live, DOMAIN live)
  BY DEF Del
<1>2. Chained' = {}  BY <1>1 DEF Chained, Linked
<1>3. <<>> \in Seq(Chunk)  BY EmptySeq
<1>4. ListTypes'
  BY <1>1, <1>2, <1>3 DEF ListInv, ListTypes, Without
<1>5. ChunksSound' /\ ChunksApart'
  BY <1>1 DEF ListInv, ChunksSound, ChunksApart, Without
<1>6. BytesTyped'  BY <1>1 DEF ListInv, BytesTyped, Without
<1>7. DOMAIN live' = {}  BY <1>1 DEF Without
<1> QED
  BY <1>4, <1>5, <1>6, <1>7 DEF ListInv, LiveTypes, LiveInsideBlocks

LEMMA ListInvStep ==
    ASSUME RestsAreBlocks, ~ClearsLarge
    PROVE  ListInv /\ [Next]_vars => ListInv'
<1> SUFFICES ASSUME ListInv, [Next]_vars PROVE ListInv'
  OBVIOUS
<1>1. CASE UNCHANGED vars
  BY <1>1 DEF vars, ListInv, ListTypes, ChunksSound, ChunksApart, BytesTyped, LiveTypes,
              LiveInsideBlocks, Chained, Linked
<1> QED
  BY <1>1, StepAlloc, StepWrite, StepFree, StepReallocInPlace, StepReallocMoved,
     StepClear, StepDel DEF Next

-----------------------------------------------------------------------------
(* What holds of every list.                                               *)

\* The inductive invariant of the list.
THEOREM ListInvariant ==
    ASSUME RestsAreBlocks, ~ClearsLarge
    PROVE  Spec => []ListInv
<1>1. Init => ListInv  BY ListInvInit
<1>2. ListInv /\ [Next]_vars => ListInv'  BY ListInvStep
<1> QED  BY <1>1, <1>2, PTL DEF Spec

\* The list keeps its types: sizes of blocks and chunks stay natural numbers
\* through every cut, and a chunk's bytes are those its header tells of.
THEOREM ListTypeCorrect ==
    ASSUME RestsAreBlocks, ~ClearsLarge
    PROVE  Spec => []TypeOK
<1>1. ListInv => TypeOK
  <2> SUFFICES ASSUME ListInv PROVE TypeOK
    OBVIOUS
  <2>1. \A c \in DOMAIN info :
           /\ info[c].categ \in Categ /\ info[c].size \in Nat /\ info[c].max \in Nat
           /\ info[c].blocks \in Blocks
    BY DEF ListInv, ChunksSound, Sound, ChunkInfo
  <2> QED
    BY <2>1 DEF ListInv, ListTypes, BytesTyped, LiveTypes, TypeOK
<1> QED  BY <1>1, ListInvariant, PTL

\* However blocks are cut and chunks cleared, a walk by mflist__next_block meets
\* each block of a chunk once, and stops at the last.
THEOREM WalksMeetEveryBlock ==
    ASSUME RestsAreBlocks, ~ClearsLarge
    PROVE  Spec => []BlocksTileChunk
<1>1. ListInv => BlocksTileChunk
  <2> SUFFICES ASSUME ListInv, NEW c \in DOMAIN info
               PROVE  LET blocks == info[c].blocks
                      IN  /\ blocks[1].at = FirstAt(c)
                          /\ \A i \in DOMAIN blocks :
                                NextAt(info[c], blocks[i]) =
                                  IF i = Len(blocks) THEN {} ELSE {blocks[i + 1].at}
    BY DEF BlocksTileChunk
  <2> DEFINE blocks == info[c].blocks
  <2>1. c \in Chunk /\ Sound(c, info[c])  BY DEF ListInv, ListTypes, ChunksSound
  <2>2. PICK n \in Nat \ {0} : n = Len(blocks) /\ DOMAIN blocks = 1..n
    <3>1. blocks \in Seq(Block) /\ Len(blocks) \in Nat \ {0}  BY <2>1, BlockFacts
    <3> QED  BY <3>1, LenProperties
  <2>3. /\ blocks[1].at = FirstAt(c) /\ InOrder(blocks) /\ Joined(blocks)
        /\ After(blocks[n]) = EndAt(c, info[c])
        /\ n > 1 => blocks[n].at + BlockHeader < info[c].size
        /\ \A i \in 1..n : blocks[i] \in Block
    BY <2>1, <2>2, BlockFacts DEF Sound, Tiled, Last
  <2>4. PICK limit \in Nat : limit = info[c].size
    BY <2>1 DEF Sound, ChunkInfo
  <2> HIDE DEF blocks
  <2>5. ASSUME NEW i \in 1..n
        PROVE  NextAt(info[c], blocks[i]) =
                 IF i = n THEN {} ELSE {blocks[i + 1].at}
    <3>1. NextAt(info[c], blocks[i]) = IF After(blocks[i]) + BlockHeader < limit
                                       THEN {After(blocks[i])} ELSE {}
      BY <2>4 DEF NextAt, After
    <3>2. CASE i = n
      <4>1. After(blocks[n]) = FirstAt(c) - ChunkHeader + limit
        BY <2>3, <2>4 DEF EndAt
      <4>2. ~(After(blocks[n]) + BlockHeader < limit)
        BY <2>1, <4>1, FirstAtBounds, Headers
      <4> QED  BY <3>1, <3>2, <4>2
    <3>3. CASE i # n
      <4>1. i \in 1..(n - 1)  BY <3>3, NotTheLast
      <4>2. blocks[i + 1].at = After(blocks[i])  BY <2>2, <2>3, <4>1 DEF Joined
      <4>3. n > 1 /\ n \in 1..n /\ i + 1 \in 1..n  BY <4>1
      <4>4. PICK next \in Nat, last \in Nat, was \in Nat :
                /\ next = blocks[i + 1].at /\ was = blocks[i + 1].size
                /\ last = blocks[n].at
        BY <2>3, <4>3 DEF Block
      <4>5. last + BlockHeader < limit  BY <2>3, <2>4, <4>3, <4>4
      <4>6. next <= last
        <5>1. CASE i + 1 = n  BY <5>1, <4>4
        <5>2. CASE i + 1 # n
          <6>1. n \in (i + 1 + 1)..n /\ i + 1 \in 1..Len(blocks)
            BY <2>2, <4>1, <5>2
          <6>2. After(blocks[i + 1]) <= blocks[n].at
            BY <2>2, <2>3, <6>1 DEF InOrder
          <6>3. next + BlockHeader + was <= last  BY <4>4, <6>2 DEF After
          <6> QED  BY <4>4, <6>3, Headers
        <5> QED  BY <5>1, <5>2
      <4>7. next + BlockHeader < limit  BY <4>4, <4>5, <4>6, Headers
      <4> QED  BY <3>1, <3>3, <4>2, <4>4, <4>7
    <3> QED  BY <3>2, <3>3
  <2> QED  BY <2>2, <2>3, <2>5 DEF blocks
<1> QED  BY <1>1, ListInvariant, PTL

\* mflist_alloc1 never skips a chunk that has a block for it, nor trusts one
\* that has none.
THEOREM MaximumIsExact ==
    ASSUME RestsAreBlocks, ~ClearsLarge
    PROVE  Spec => []MaxContiguousExact
<1>1. ListInv => MaxContiguousExact
  <2> SUFFICES ASSUME ListInv, NEW c \in DOMAIN info
               PROVE  info[c].max = MaxAvail(info[c].blocks, DOMAIN info[c].blocks)
    BY DEF MaxContiguousExact
  <2>1. c \in Chunk /\ Sound(c, info[c])  BY DEF ListInv, ListTypes, ChunksSound
  <2>2. info[c].blocks \in Seq(Block) /\ Len(info[c].blocks) # 0
    BY <2>1, BlockFacts
  <2>3. /\ Joined(info[c].blocks)
        /\ info[c].max = IF Last(info[c].blocks).avail THEN Last(info[c].blocks).size ELSE 0
    BY <2>1 DEF Sound, Tiled
  <2>4. PICK blocks : blocks = info[c].blocks  OBVIOUS
  <2>5. 1 \in 1..Len(blocks) /\ DOMAIN blocks = 1..Len(blocks)
    BY <2>2, <2>4, LenProperties
  <2>6. MaxAvail(blocks, 1..Len(blocks)) = IF Last(blocks).avail THEN Last(blocks).size ELSE 0
    BY <2>2, <2>3, <2>4, <2>5, MaxAvailIsLast
  <2> QED  BY <2>3, <2>4, <2>5, <2>6
<1> QED  BY <1>1, ListInvariant, PTL

\* No allocation reaches beyond its block or its mapping, whatever the address
\* of the chunk does to the first block.
THEOREM AllocationsLieInside ==
    ASSUME RestsAreBlocks, ~ClearsLarge
    PROVE  Spec => []LiveInsideBlocks
<1>1. ListInv => LiveInsideBlocks  BY DEF ListInv
<1> QED  BY <1>1, ListInvariant, PTL

-----------------------------------------------------------------------------
(* The list implements the byte store.                                     *)

Store == [h \in DOMAIN live |-> Seen(h)]

LEMMA Between ==
    ASSUME NEW a \in Nat, NEW m \in Nat, NEW b \in Nat, NEW n \in Nat,
           NEW u \in Nat, a + BlockHeader + m <= b
    PROVE  /\ a + BlockHeader <= u /\ u < a + BlockHeader + m => u < b
           /\ b + BlockHeader <= u /\ u < b + BlockHeader + n
                => ~(u < a + BlockHeader) /\ ~(u < a + BlockHeader + m)
BY Headers

\* A byte of a block's payload is in no header, and in no other payload.
LEMMA PayloadsApart ==
    ASSUME NEW c \in Chunk, NEW chunk, Sound(c, chunk), NEW blocks, blocks = chunk.blocks,
           NEW i \in 1..Len(blocks), NEW j \in 1..Len(blocks), NEW u \in Nat,
           PayloadAt(blocks[i]) <= u, u < PayloadAt(blocks[i]) + blocks[i].size
    PROVE  /\ ~(blocks[j].at <= u /\ u < blocks[j].at + BlockHeader)
           /\ j # i => ~(PayloadAt(blocks[j]) <= u /\ u < PayloadAt(blocks[j]) + blocks[j].size)
<1>1. PICK n \in Nat \ {0} : n = Len(blocks)  BY BlockFacts
<1>2. InOrder(blocks) /\ \A k \in 1..n : blocks[k] \in Block
  BY <1>1, BlockFacts DEF Sound, Tiled
<1>3. PICK a \in Nat, m \in Nat, b \in Nat, w \in Nat :
          /\ a = blocks[i].at /\ m = blocks[i].size
          /\ b = blocks[j].at /\ w = blocks[j].size
  BY <1>1, <1>2 DEF Block
<1>4. a + BlockHeader <= u /\ u < a + BlockHeader + m
  BY <1>3 DEF PayloadAt
<1>5. CASE j = i
  <2>1. ~(u < a + BlockHeader)  BY <1>4, Headers
  <2> QED  BY <1>3, <1>5, <2>1
<1>6. CASE i < j
  <2>1. j \in (i + 1)..Len(blocks)  BY <1>1, <1>6
  <2>2. a + BlockHeader + m <= b  BY <1>2, <1>3, <2>1 DEF InOrder, After
  <2>3. u < b  BY <1>4, <2>2, Between
  <2>4. ~(b <= u) /\ ~(b + BlockHeader <= u)  BY <2>3, Headers
  <2> QED  BY <1>3, <2>4 DEF PayloadAt
<1>7. CASE j < i
  <2>1. i \in (j + 1)..Len(blocks)  BY <1>1, <1>7
  <2>2. b + BlockHeader + w <= a  BY <1>2, <1>3, <2>1 DEF InOrder, After
  <2>3. ~(u < b + BlockHeader) /\ ~(u < b + BlockHeader + w)
    BY <1>4, <2>2, Between
  <2> QED  BY <1>3, <2>3 DEF PayloadAt
<1> QED  BY <1>1, <1>5, <1>6, <1>7

\* A byte that the client holds at h is none of what is held at g.
LEMMA OthersApart ==
    ASSUME ListInv, NEW g \in DOMAIN live, NEW h \in DOMAIN live, g # h, g[1] = h[1],
           NEW u \in Nat, h[2] <= u, u < h[2] + live[h]
    PROVE  ~(g[2] <= u /\ u < g[2] + BlockOf(g).size)
<1> DEFINE chunk == info[h[1]]
           blocks == chunk.blocks
<1>1. Sound(h[1], chunk) /\ h[1] \in Chunk /\ h[2] \in Nat /\ live[h] \in Nat
  BY BlockOfHeld DEF ListInv, ListTypes
<1>2. PICK i \in 1..Len(blocks) :
          /\ BlockOf(h) = blocks[i] /\ PayloadAt(blocks[i]) = h[2]
          /\ live[h] <= blocks[i].size
  BY BlockOfHeld
<1>3. PICK j \in 1..Len(blocks) :
          BlockOf(g) = blocks[j] /\ PayloadAt(blocks[j]) = g[2]
  BY BlockOfHeld
<1>4. g = <<g[1], g[2]>> /\ h = <<h[1], h[2]>>  BY BlockOfHeld
<1>5. j # i  BY <1>2, <1>3, <1>4
<1>6. blocks[i].size \in Nat
  <2>1. blocks[i] \in Block  BY <1>1, BlockFacts
  <2> QED  BY <2>1 DEF Block
<1>7. u < h[2] + blocks[i].size  BY <1>1, <1>2, <1>6
<1> HIDE DEF chunk, blocks
<1>8. blocks = chunk.blocks  BY DEF blocks
<1> QED  BY <1>1, <1>2, <1>3, <1>5, <1>7, <1>8, PayloadsApart

\* A byte that the client holds is left alone when a block is taken, and is not
\* of that block.
LEMMA TakingKeeps ==
    ASSUME RestsAreBlocks, ListInv, NEW size \in Nat \ {0}, NEW c \in Chunk,
           NEW unlinked, Allocate(size, c, unlinked), NEW block, block = BlockTaken(size, c)
    PROVE  \A h \in DOMAIN live, u \in Nat :
              h[1] = c /\ h[2] <= u /\ u < h[2] + live[h]
                => /\ c \in DOMAIN mem /\ u \in DOMAIN mem[c]
                   /\ u \in DOMAIN BytesAfter(size, c)
                   /\ BytesAfter(size, c)[u] = mem[c][u]
                   /\ ~(PayloadAt(block) <= u /\ u < PayloadAt(block) + block.size)
<1>0. /\ ChunksSound' /\ DOMAIN info' = DOMAIN info \cup {c}
      /\ \A h \in DOMAIN live : LiveAt(info', h, live[h]) /\ h # <<c, PayloadAt(block)>>
      /\ info'[c] = Taken(ChunkBefore(size, c), size)
      /\ \E k \in 1..Len(info'[c].blocks) : info'[c].blocks[k] = block
  <2>1. ChunksSound'  BY AllocateStep
  <2>2. DOMAIN info' = DOMAIN info \cup {c}  BY AllocateStep
  <2>3. \A h \in DOMAIN live : LiveAt(info', h, live[h])  BY AllocateStep
  <2>4. Fresh(<<c, PayloadAt(block)>>)  BY AllocateStep
  <2>5. info'[c] = Taken(ChunkBefore(size, c), size)  BY AllocateStep
  <2>6. IsBlock(info'[c].blocks, block)  BY AllocateStep
  <2> QED  BY <2>1, <2>2, <2>3, <2>4, <2>5, <2>6 DEF Fresh, IsBlock
<1> SUFFICES ASSUME NEW h \in DOMAIN live, NEW u \in Nat, h[1] = c, h[2] <= u,
                    u < h[2] + live[h]
             PROVE  /\ c \in DOMAIN mem /\ u \in DOMAIN mem[c]
                    /\ u \in DOMAIN BytesAfter(size, c)
                    /\ BytesAfter(size, c)[u] = mem[c][u]
                    /\ ~(PayloadAt(block) <= u /\ u < PayloadAt(block) + block.size)
  OBVIOUS
<1> DEFINE chunk == info'[c]
           blocks == chunk.blocks
<1>1. /\ c \in DOMAIN mem /\ mem[c] \in [0..(info[c].size - 1) -> Cell]
      /\ h[2] \in Nat /\ live[h] \in Nat /\ h[2] + live[h] <= info[c].size
      /\ Sound(c, info[c]) /\ h = <<c, h[2]>>
  BY BlockOfHeld
<1>2. PICK limit \in Nat : limit = info[c].size  BY <1>1 DEF Sound, ChunkInfo
<1>3. u \in 0..(limit - 1)  BY <1>1, <1>2
<1>4. BytesBefore(size, c) = mem[c] /\ DOMAIN mem[c] = 0..(limit - 1)
  BY <1>1, <1>2 DEF BytesBefore
<1>5. /\ ChunksSound' /\ c \in DOMAIN info' /\ LiveAt(info', h, live[h])
      /\ chunk = Taken(ChunkBefore(size, c), size)
      /\ \E k \in 1..Len(blocks) : blocks[k] = block
      /\ h # <<c, PayloadAt(block)>>
  BY <1>0
<1>6. Sound(c, chunk)  BY <1>5 DEF ChunksSound
<1> HIDE DEF chunk
<1>7. blocks \in Seq(Block) /\ DOMAIN blocks = 1..Len(blocks)
      /\ \A k \in 1..Len(blocks) : blocks[k] \in Block
  <2>1. blocks \in Seq(Block) /\ \A k \in 1..Len(blocks) : blocks[k] \in Block
    BY <1>6, BlockFacts
  <2> QED  BY <2>1, LenProperties
<1>8. PICK i \in 1..Len(blocks) :
          PayloadAt(blocks[i]) = h[2] /\ live[h] <= blocks[i].size
  BY <1>1, <1>5, <1>7 DEF LiveAt, chunk
<1>9. blocks[i].size \in Nat  BY <1>7 DEF Block
<1>10. PayloadAt(blocks[i]) <= u /\ u < PayloadAt(blocks[i]) + blocks[i].size
  BY <1>1, <1>8, <1>9
<1> HIDE DEF blocks
<1>11. blocks = chunk.blocks  BY DEF blocks
<1>12. \A j \in 1..Len(blocks) :
          /\ ~(blocks[j].at <= u /\ u < blocks[j].at + BlockHeader)
          /\ j # i => ~(PayloadAt(blocks[j]) <= u /\ u < PayloadAt(blocks[j]) + blocks[j].size)
  BY <1>6, <1>10, <1>11, PayloadsApart
<1>13. BytesAfter(size, c) = Headed(mem[c], blocks)
  BY <1>4, <1>5, <1>11 DEF BytesAfter
<1>14. u \in DOMAIN BytesAfter(size, c) /\ BytesAfter(size, c)[u] = mem[c][u]
  BY <1>3, <1>4, <1>7, <1>12, <1>13 DEF Headed
<1>15. ~(PayloadAt(block) <= u /\ u < PayloadAt(block) + block.size)
  <2>1. PICK k \in 1..Len(blocks) : blocks[k] = block  BY <1>5
  <2>2. k # i  BY <1>1, <1>5, <1>8, <2>1
  <2> QED  BY <1>12, <2>1, <2>2
<1> QED  BY <1>1, <1>3, <1>4, <1>14, <1>15

LEMMA ByteAt ==
    ASSUME NEW a \in Nat, NEW n \in Nat, NEW i \in 0..(n - 1)
    PROVE  \E u \in Nat : u = a + i /\ a <= u /\ u < a + n
OBVIOUS

\* What an allocation holds is what its bytes are.
LEMMA SeenKept ==
    ASSUME NEW h \in DOMAIN live, h \in DOMAIN live', live'[h] = live[h],
           \A i \in 0..(live[h] - 1) : mem'[h[1]][h[2] + i] = mem[h[1]][h[2] + i]
    PROVE  Store'[h] = Store[h]
BY DEF Store, Seen

LEMMA StoreDomain == DOMAIN Store = DOMAIN live
BY DEF Store

LEMMA SeenDomain ==
    ASSUME NEW h \in DOMAIN live
    PROVE  /\ DOMAIN Store[h] = 0..(live[h] - 1)
           /\ \A i \in 0..(live[h] - 1) : Store[h][i] = mem[h[1]][h[2] + i]
BY DEF Store, Seen

\* Taking a block and filling it changes nothing that is held elsewhere.
LEMMA OthersKept ==
    ASSUME RestsAreBlocks, ListInv, NEW size \in Nat \ {0}, NEW c \in Chunk,
           NEW unlinked, Allocate(size, c, unlinked), NEW block, block = BlockTaken(size, c),
           NEW bytes, mem' = With(mem, c, bytes),
           \A u \in DOMAIN BytesAfter(size, c) :
              ~(PayloadAt(block) <= u /\ u < PayloadAt(block) + block.size)
                => bytes[u] = BytesAfter(size, c)[u],
           NEW h \in DOMAIN live, h \in DOMAIN live', live'[h] = live[h]
    PROVE  Store'[h] = Store[h]
<1>1. /\ h[1] \in DOMAIN mem /\ h[2] \in Nat /\ live[h] \in Nat
  BY BlockOfHeld
<1>2. ASSUME NEW i \in 0..(live[h] - 1)
      PROVE  mem'[h[1]][h[2] + i] = mem[h[1]][h[2] + i]
  <2>1. CASE h[1] # c
    <3>1. mem'[h[1]] = mem[h[1]]  BY <1>1, <2>1 DEF With
    <3> QED  BY <3>1
  <2>2. CASE h[1] = c
    <3>1. PICK u \in Nat : u = h[2] + i /\ h[2] <= u /\ u < h[2] + live[h]
      BY <1>1
    <3>2. /\ u \in DOMAIN BytesAfter(size, c)
          /\ BytesAfter(size, c)[u] = mem[c][u]
          /\ ~(PayloadAt(block) <= u /\ u < PayloadAt(block) + block.size)
      BY <2>2, <3>1, TakingKeeps
    <3>3. bytes[u] = mem[c][u]  BY <3>2
    <3>4. mem'[c] = bytes  BY DEF With
    <3> QED  BY <2>2, <3>1, <3>3, <3>4
  <2> QED  BY <2>1, <2>2
<1> QED  BY <1>2, SeenKept

LEMMA AllocRefines ==
    ASSUME RestsAreBlocks, ListInv, NEW n \in Length, NEW zero \in BOOLEAN,
           NEW c \in Chunk, Alloc(n, zero, c)
    PROVE  Client!Next
<1> DEFINE size == AllocSize(n)
           block == BlockTaken(size, c)
           at == PayloadAt(block)
           after == BytesAfter(size, c)
           bytes == IF zero THEN Fill(after, at, block.size, 0) ELSE after
           g == <<c, at>>
           cut == IF zero THEN Unlinked(c, at, block.size) ELSE {}
<1>1. n \in Nat /\ size \in Nat \ {0} /\ n + BlockHeader <= size
  BY LengthsAreSizes
<1>2. Allocate(size, c, cut) /\ live' = With(live, g, n)
  BY DEF Alloc
<1>13. mem' = With(mem, c, bytes)
  BY AllocMem
<1> HIDE DEF size, cut
<1>3. PICK b : b = block  OBVIOUS
<1>4. Fresh(<<c, PayloadAt(b)>>)  BY <1>1, <1>2, <1>3, AllocateStep
<1>5. g \notin DOMAIN live  BY <1>3, <1>4 DEF Fresh
<1>6. \A u \in DOMAIN after :
         ~(PayloadAt(b) <= u /\ u < PayloadAt(b) + b.size) => bytes[u] = after[u]
  BY <1>3 DEF Fill
<1> HIDE DEF bytes, at, block
<1>7. /\ DOMAIN live' = DOMAIN live \cup {g} /\ live'[g] = n
      /\ \A h \in DOMAIN live : live'[h] = live[h]
  BY <1>2, <1>5 DEF With
<1>8. \A h \in DOMAIN live : Store'[h] = Store[h]
  BY <1>1, <1>2, <1>3, <1>6, <1>7, <1>13, OthersKept DEF block
<1>9. DOMAIN Store = DOMAIN live /\ DOMAIN Store' = DOMAIN live'
  BY DEF Store
<1>10. DOMAIN Store'[g] = 0..(n - 1)
  BY <1>7 DEF Store, Seen
<1>11. Client!Alloc(g, n)
  BY <1>5, <1>7, <1>8, <1>9, <1>10 DEF Client!Alloc, Client!Others, Store
<1>12. g \in DOMAIN Store'  BY <1>7, <1>9
<1> QED  BY <1>11, <1>12 DEF Client!Next, Store

LEMMA WriteRefines ==
    ASSUME ListInv, NEW h \in DOMAIN live, NEW v \in Data, Write(h, v)
    PROVE  Client!Next
<1> DEFINE c == h[1]
           filled == Fill(mem[c], h[2], live[h], v)
<1>1. /\ mem' = [mem EXCEPT ![c] = filled]
      /\ live' = live
  BY DEF Write
<1>2. /\ c \in DOMAIN mem /\ h[2] \in Nat /\ live[h] \in Nat
      /\ mem[c] \in [0..(info[c].size - 1) -> Cell]
      /\ h[2] + live[h] <= info[c].size
      /\ info[c].size \in Nat
  BY BlockOfHeld DEF Sound, ChunkInfo
<1>3. mem'[c] = filled /\ \A d \in DOMAIN mem : d # c => mem'[d] = mem[d]
  BY <1>1, <1>2
<1>4. ASSUME NEW g \in DOMAIN live, g # h
      PROVE  Store'[g] = Store[g]
  <2>1. g[1] \in DOMAIN mem /\ g[2] \in Nat /\ live[g] \in Nat
        /\ mem[g[1]] \in [0..(info[g[1]].size - 1) -> Cell]
        /\ g[2] + live[g] <= info[g[1]].size /\ info[g[1]].size \in Nat
    BY BlockOfHeld DEF Sound, ChunkInfo
  <2>2. ASSUME NEW i \in 0..(live[g] - 1)
        PROVE  mem'[g[1]][g[2] + i] = mem[g[1]][g[2] + i]
    <3>1. CASE g[1] # c  BY <1>3, <2>1, <3>1
    <3>2. CASE g[1] = c
      <4>1. PICK u \in Nat : u = g[2] + i /\ g[2] <= u /\ u < g[2] + live[g]
        BY <2>1, ByteAt
      <4>2. ~(h[2] <= u /\ u < h[2] + BlockOf(h).size)
        BY <1>4, <3>2, <4>1, OthersApart
      <4>3. live[h] <= BlockOf(h).size /\ BlockOf(h).size \in Nat
        <5>1. live[h] <= BlockOf(h).size  BY BlockOfHeld
        <5>2. BlockOf(h) \in Block
          <6>1. h[1] \in Chunk /\ Sound(h[1], info[h[1]])
            BY BlockOfHeld DEF ListInv, ListTypes
          <6>2. \E j \in 1..Len(info[h[1]].blocks) : BlockOf(h) = info[h[1]].blocks[j]
            BY BlockOfHeld
          <6> QED  BY <6>1, <6>2, BlockFacts
        <5> QED  BY <5>1, <5>2 DEF Block
      <4>4. ~(u >= h[2] /\ u < h[2] + live[h])  BY <1>2, <4>2, <4>3
      <4>5. u \in DOMAIN mem[c]  BY <2>1, <3>2, <4>1
      <4>6. filled[u] = mem[c][u]  BY <4>4, <4>5 DEF Fill
      <4> QED  BY <1>3, <3>2, <4>1, <4>6
    <3> QED  BY <3>1, <3>2
  <2> QED  BY <1>1, <2>2, SeenKept
<1>5. Store'[h] = [i \in 0..(live[h] - 1) |-> v]
  <2>1. ASSUME NEW i \in 0..(live[h] - 1) PROVE filled[h[2] + i] = v
    <3>1. PICK u \in Nat : u = h[2] + i /\ u >= h[2] /\ u < h[2] + live[h]
      BY <1>2
    <3>2. u \in DOMAIN mem[c]  BY <1>2, <3>1
    <3> QED  BY <3>1, <3>2 DEF Fill
  <2>2. Store'[h] = [i \in 0..(live[h] - 1) |-> filled[h[2] + i]]
    BY <1>1, <1>3 DEF Store, Seen
  <2> HIDE DEF filled
  <2> QED  BY <2>1, <2>2
<1>6. DOMAIN Store = DOMAIN live /\ DOMAIN Store' = DOMAIN live
      /\ DOMAIN Store[h] = 0..(live[h] - 1)
  BY <1>1 DEF Store, Seen
<1>7. Store' = [Store EXCEPT ![h] = [i \in DOMAIN Store[h] |-> v]]
  <2>1. Store' = [g \in DOMAIN live |-> Store'[g]]
    BY <1>1 DEF Store
  <2> HIDE DEF filled
  <2>2. \A g \in DOMAIN live :
           Store'[g] = [Store EXCEPT ![h] = [i \in DOMAIN Store[h] |-> v]][g]
    BY <1>4, <1>5, <1>6
  <2>3. [Store EXCEPT ![h] = [i \in DOMAIN Store[h] |-> v]]
           = [g \in DOMAIN live |-> [Store EXCEPT ![h] = [i \in DOMAIN Store[h] |-> v]][g]]
    BY <1>6
  <2> QED  BY <2>1, <2>2, <2>3
<1>8. Client!Write(h, v)
  BY <1>6, <1>7 DEF Client!Write, Store
<1> QED  BY <1>6, <1>8 DEF Client!Next, Store

LEMMA FreeRefines ==
    ASSUME ListInv, NEW h \in DOMAIN live, Free(h)
    PROVE  Client!Next
<1>1. live' = Without(live, {h}) /\ mem' = mem
  BY DEF Free
<1>2. DOMAIN live' = DOMAIN live \ {h} /\ \A g \in DOMAIN live' : live'[g] = live[g]
  BY <1>1 DEF Without
<1>3. \A g \in DOMAIN live' : Store'[g] = Store[g]
  BY <1>1, <1>2 DEF Store, Seen
<1>4. DOMAIN Store = DOMAIN live /\ Store' = [g \in DOMAIN live' |-> Store'[g]]
  BY DEF Store
<1>5. Store' = [g \in DOMAIN Store \ {h} |-> Store[g]]
  <2> DEFINE D == DOMAIN live \ {h}
  <2>1. Store' = [g \in D |-> Store'[g]] /\ \A g \in D : Store'[g] = Store[g]
    BY <1>2, <1>3, <1>4
  <2>2. D = DOMAIN Store \ {h}  BY <1>4
  <2> HIDE DEF D
  <2> QED  BY <2>1, <2>2
<1>6. Client!Free(h)  BY <1>4, <1>5 DEF Client!Free, Store
<1> QED  BY <1>4, <1>6 DEF Client!Next, Store

\* The sizes of a block that is held.
LEMMA HeldSizes ==
    ASSUME ListInv, NEW h \in DOMAIN live
    PROVE  /\ h[1] \in DOMAIN mem /\ h[1] \in Chunk /\ h[2] \in Nat /\ live[h] \in Nat
           /\ mem[h[1]] \in [0..(info[h[1]].size - 1) -> Cell]
           /\ info[h[1]].size \in Nat
           /\ h[2] + live[h] <= info[h[1]].size
           /\ live[h] <= BlockOf(h).size /\ BlockOf(h).size \in Nat
           /\ h = <<h[1], h[2]>>
<1>1. /\ h[1] \in DOMAIN mem /\ h[1] \in Chunk /\ h[2] \in Nat /\ live[h] \in Nat
      /\ mem[h[1]] \in [0..(info[h[1]].size - 1) -> Cell]
      /\ Sound(h[1], info[h[1]])
      /\ h[2] + live[h] <= info[h[1]].size
      /\ h = <<h[1], h[2]>>
  BY BlockOfHeld DEF ListInv, ListTypes
<1>2. PICK j \in 1..Len(info[h[1]].blocks) :
          BlockOf(h) = info[h[1]].blocks[j] /\ live[h] <= BlockOf(h).size
  BY BlockOfHeld
<1>3. BlockOf(h) \in Block  BY <1>1, <1>2, BlockFacts
<1>4. BlockOf(h).size \in Nat  BY <1>3 DEF Block
<1>5. info[h[1]].size \in Nat  BY <1>1 DEF Sound, ChunkInfo
<1> QED  BY <1>1, <1>2, <1>4, <1>5

LEMMA InPlaceRefines ==
    ASSUME ListInv, NEW h \in DOMAIN live, NEW n \in Length, NEW zero \in BOOLEAN,
           ReallocInPlace(h, n, zero)
    PROVE  Client!Next
<1> DEFINE c == h[1]
           size == AllocSize(n)
           filled == Fill(mem[c], h[2] + size, BlockOf(h).size - size, 0)
<1>1. /\ mem' = (IF zero THEN [mem EXCEPT ![c] = filled] ELSE mem)
      /\ live' = With(live, h, n)
      /\ BlockOf(h).size >= size
  <2>1. live' = With(live, h, n) /\ BlockOf(h).size >= size
    BY DEF ReallocInPlace, InPlace, Keeps
  <2>2. mem' = (IF zero THEN [mem EXCEPT ![c] = filled] ELSE mem)
    BY InPlaceMem
  <2> QED  BY <2>1, <2>2
<1>2. /\ c \in DOMAIN mem /\ h[2] \in Nat /\ live[h] \in Nat
      /\ mem[c] \in [0..(info[c].size - 1) -> Cell]
      /\ info[c].size \in Nat /\ h[2] + live[h] <= info[c].size
      /\ BlockOf(h).size \in Nat
  BY HeldSizes
<1>3. n \in Nat /\ size \in Nat /\ n + BlockHeader <= size
  BY LengthsAreSizes
<1> HIDE DEF size
<1>4. /\ \A d \in DOMAIN mem : d # c => mem'[d] = mem[d]
      /\ \A u \in DOMAIN mem[c] :
            ~(h[2] + size <= u /\ u < h[2] + BlockOf(h).size) => mem'[c][u] = mem[c][u]
  <2>1. \A u \in DOMAIN mem[c] :
           ~(h[2] + size <= u /\ u < h[2] + BlockOf(h).size) => filled[u] = mem[c][u]
    <3>1. h[2] + size + (BlockOf(h).size - size) = h[2] + BlockOf(h).size
      BY <1>2, <1>3
    <3> QED  BY <3>1 DEF Fill
  <2> HIDE DEF filled
  <2>2. CASE zero  BY <1>1, <1>2, <2>1, <2>2
  <2>3. CASE ~zero  BY <1>1, <2>3
  <2> QED  BY <2>2, <2>3
<1>5. /\ DOMAIN live' = DOMAIN live /\ live'[h] = n
      /\ \A g \in DOMAIN live : g # h => live'[g] = live[g]
  BY <1>1 DEF With
<1>6. ASSUME NEW g \in DOMAIN live, g # h
      PROVE  Store'[g] = Store[g]
  <2>1. /\ g[1] \in DOMAIN mem /\ g[2] \in Nat /\ live[g] \in Nat
        /\ mem[g[1]] \in [0..(info[g[1]].size - 1) -> Cell]
        /\ info[g[1]].size \in Nat /\ g[2] + live[g] <= info[g[1]].size
    BY HeldSizes
  <2>2. ASSUME NEW i \in 0..(live[g] - 1)
        PROVE  mem'[g[1]][g[2] + i] = mem[g[1]][g[2] + i]
    <3>1. CASE g[1] # c  BY <1>4, <2>1, <3>1
    <3>2. CASE g[1] = c
      <4>1. PICK u \in Nat : u = g[2] + i /\ g[2] <= u /\ u < g[2] + live[g]
        BY <2>1, ByteAt
      <4>2. ~(h[2] <= u /\ u < h[2] + BlockOf(h).size)
        BY <1>6, <3>2, <4>1, OthersApart
      <4>3. ~(h[2] + size <= u /\ u < h[2] + BlockOf(h).size)
        BY <1>2, <1>3, <4>2
      <4>4. u \in DOMAIN mem[c]  BY <2>1, <3>2, <4>1
      <4> QED  BY <1>4, <3>2, <4>1, <4>3, <4>4
    <3> QED  BY <3>1, <3>2
  <2> QED  BY <1>5, <1>6, <2>2, SeenKept
<1>7. ASSUME NEW i \in 0..(live[h] - 1), i \in 0..(n - 1)
      PROVE  Store'[h][i] = Store[h][i]
  <2>1. PICK u \in Nat : u = h[2] + i /\ h[2] <= u /\ u < h[2] + live[h]
    BY <1>2, ByteAt
  <2>2. i < n /\ i \in Nat  BY <1>3, <1>7
  <2>3. ~(h[2] + size <= u)  BY <1>2, <1>3, <2>1, <2>2, Headers
  <2>4. u \in DOMAIN mem[c]  BY <1>2, <2>1
  <2>5. mem'[c][u] = mem[c][u]  BY <1>4, <2>3, <2>4
  <2>6. Store'[h][i] = mem'[c][h[2] + i] /\ Store[h][i] = mem[c][h[2] + i]
    BY <1>5, <1>7 DEF Store, Seen
  <2> QED  BY <2>1, <2>5, <2>6
<1>8. /\ DOMAIN Store = DOMAIN live /\ DOMAIN Store' = DOMAIN live
      /\ DOMAIN Store[h] = 0..(live[h] - 1) /\ DOMAIN Store'[h] = 0..(n - 1)
  BY <1>5 DEF Store, Seen
<1>9. (DOMAIN Store \ {h}) \cup {h} = DOMAIN Store  BY <1>8
<1>10. \A i \in DOMAIN Store[h] \cap 0..(n - 1) : Store'[h][i] = Store[h][i]
  BY <1>7, <1>8
<1>11. \A g \in DOMAIN Store \ {h} : Store'[g] = Store[g]
  BY <1>6, <1>8
<1> HIDE DEF filled
<1>12. Client!Move(h, h, n)
  BY <1>8, <1>9, <1>10, <1>11 DEF Client!Move, Store
<1> QED  BY <1>8, <1>12 DEF Client!Next, Store

LEMMA MovedRefines ==
    ASSUME RestsAreBlocks, ListInv, NEW h \in DOMAIN live, NEW n \in Length,
           NEW zero \in BOOLEAN, NEW c \in Chunk, ReallocMoved(h, n, zero, c)
    PROVE  Client!Next
<1> DEFINE newsize == AllocSize(n)
           size == AllocSize(newsize)
           block == BlockTaken(size, c)
           at == PayloadAt(block)
           after == BytesAfter(size, c)
           kept == Smaller(newsize, BlockOf(h).size)
           copied == Copy(after, at, kept, mem[h[1]], h[2])
           bytes == IF zero THEN Fill(copied, at + newsize, block.size - newsize, 0)
                            ELSE copied
           g == <<c, at>>
           cut == IF zero THEN Unlinked(c, at + newsize, block.size - newsize) ELSE {}
<1>1. /\ n \in Nat /\ newsize \in Nat /\ n + BlockHeader <= newsize
      /\ size \in Nat \ {0} /\ newsize + BlockHeader <= size /\ n + BlockHeader <= size
  BY LengthsAreSizes
<1>17. Allocate(size, c, cut) /\ live' = With(Without(live, {h}), g, n)
  BY DEF ReallocMoved
<1>2. /\ Allocate(size, c, cut) /\ mem' = With(mem, c, bytes)
      /\ live' = With(Without(live, {h}), g, n)
  <2>1. mem' = With(mem, c, bytes)  BY MovedMem
  <2> QED  BY <1>17, <2>1
<1>3. /\ h[1] \in DOMAIN mem /\ h[2] \in Nat /\ live[h] \in Nat
      /\ mem[h[1]] \in [0..(info[h[1]].size - 1) -> Cell]
      /\ info[h[1]].size \in Nat /\ h[2] + live[h] <= info[h[1]].size
      /\ live[h] <= BlockOf(h).size /\ BlockOf(h).size \in Nat
  BY HeldSizes
<1>4. kept \in Nat /\ kept <= newsize /\ (newsize < BlockOf(h).size => kept = newsize)
      /\ (~(newsize < BlockOf(h).size) => kept = BlockOf(h).size)
  BY <1>1, <1>3 DEF Smaller
<1> HIDE DEF newsize, size, kept, cut
<1>5. PICK b : b = block  OBVIOUS
<1>6. /\ Fresh(<<c, PayloadAt(b)>>) /\ PayloadAt(b) \in Nat
      /\ b.size \in Nat /\ size <= b.size
      /\ \A k \in Nat : k + BlockHeader <= size
                          => LiveAt(info', <<c, PayloadAt(b)>>, k)
      /\ info'[c].size = ChunkBefore(size, c).size
  BY <1>1, <1>2, <1>5, AllocateStep
<1>7. g \notin DOMAIN live /\ at \in Nat /\ at = PayloadAt(b)
  BY <1>5, <1>6 DEF Fresh
<1>8. at + newsize + (block.size - newsize) = at + b.size
      /\ kept <= b.size
  BY <1>1, <1>4, <1>5, <1>6, <1>7, Headers
<1>9. \A u \in DOMAIN after :
         ~(PayloadAt(b) <= u /\ u < PayloadAt(b) + b.size) => bytes[u] = after[u]
  <2> SUFFICES ASSUME NEW u \in DOMAIN after,
                      ~(PayloadAt(b) <= u /\ u < PayloadAt(b) + b.size)
               PROVE  bytes[u] = after[u]
    OBVIOUS
  <2>1. DOMAIN after \subseteq Nat
    <3>1. Sound(c, ChunkBefore(size, c))
      BY <1>1, <1>2, ChunkToTake DEF ListInv
    <3>2. PICK m : m = ChunkBefore(size, c).size  OBVIOUS
    <3>3. after \in [0..(m - 1) -> Cell]  BY <1>1, <3>1, <3>2, BytesAfterTyped
    <3> QED  BY <3>3
  <2>2. u \in Nat  BY <2>1
  <2>3. u < at \/ u >= at + b.size  BY <1>6, <1>7, <2>2
  <2>4. u < at \/ u >= at + kept  BY <1>4, <1>6, <1>7, <1>8, <2>2, <2>3
  <2>5. copied[u] = after[u] /\ u \in DOMAIN copied  BY <2>4 DEF Copy
  <2>6. ~(u >= at + newsize /\ u < at + b.size)
    BY <1>1, <1>6, <1>7, <2>2, <2>3
  <2> HIDE DEF copied
  <2> QED  BY <1>8, <2>5, <2>6 DEF Fill
<1>10. ASSUME NEW i \in 0..(live[h] - 1), i \in 0..(n - 1)
       PROVE  bytes[at + i] = mem[h[1]][h[2] + i]
  <2>1. PICK u \in Nat : u = at + i /\ at <= u /\ u < at + n
    BY <1>1, <1>7, <1>10, ByteAt
  <2>2. i \in Nat /\ i < n /\ i < live[h]  BY <1>1, <1>3, <1>10
  <2>3. i < newsize /\ i < BlockOf(h).size  BY <1>1, <1>3, <2>2, Headers
  <2>4. i < kept  BY <1>4, <2>3
  <2>5. at <= u /\ u < at + kept /\ u - at + h[2] = h[2] + i
    BY <1>3, <1>4, <1>7, <2>1, <2>2, <2>4
  <2>6. h[2] + i \in DOMAIN mem[h[1]]
    <3>1. PICK w \in Nat : w = h[2] + i /\ h[2] <= w /\ w < h[2] + live[h]
      BY <1>3, ByteAt
    <3> QED  BY <1>3, <3>1
  <2>7. u \in DOMAIN after
    <3>1. Sound(c, ChunkBefore(size, c))
      BY <1>1, <1>2, ChunkToTake DEF ListInv
    <3>2. PICK m \in Nat : m = ChunkBefore(size, c).size
      BY <3>1 DEF Sound, ChunkInfo
    <3>3. after \in [0..(m - 1) -> Cell]  BY <1>1, <3>1, <3>2, BytesAfterTyped
    <3>4. PayloadAt(b) + n <= m
      <4>1. LiveAt(info', <<c, PayloadAt(b)>>, n)  BY <1>1, <1>6
      <4> QED  BY <1>6, <3>2, <4>1 DEF LiveAt
    <3> QED  BY <1>1, <1>7, <2>1, <3>2, <3>3, <3>4
  <2>8. u \in DOMAIN copied /\ copied[u] = mem[h[1]][h[2] + i]
    <3>1. ~(u < at \/ u >= at + kept)  BY <1>4, <1>7, <2>5
    <3> QED  BY <2>5, <2>6, <2>7, <3>1 DEF Copy
  <2>9. ~(u >= at + newsize)  BY <1>1, <1>7, <2>1, Headers
  <2>10. bytes[u] = copied[u]
    <3> HIDE DEF copied
    <3> QED  BY <2>8, <2>9 DEF Fill
  <2> QED  BY <2>1, <2>8, <2>10
<1> HIDE DEF bytes, copied, at, block, after
<1>11. /\ DOMAIN live' = (DOMAIN live \ {h}) \cup {g} /\ live'[g] = n
       /\ \A f \in DOMAIN live \ {h} : live'[f] = live[f]
  BY <1>2, <1>7 DEF With, Without
<1>12. \A f \in DOMAIN live \ {h} : Store'[f] = Store[f]
  <2> SUFFICES ASSUME NEW f \in DOMAIN live \ {h} PROVE Store'[f] = Store[f]
    OBVIOUS
  <2>1. f \in DOMAIN live /\ f \in DOMAIN live' /\ live'[f] = live[f]
    BY <1>11
  <2>2. b = BlockTaken(size, c)  BY <1>5 DEF block
  <2>3. \A u \in DOMAIN BytesAfter(size, c) :
           ~(PayloadAt(b) <= u /\ u < PayloadAt(b) + b.size)
             => bytes[u] = BytesAfter(size, c)[u]
    BY <1>9 DEF after
  <2>4. Allocate(size, c, cut) /\ mem' = With(mem, c, bytes) /\ size \in Nat \ {0}
    BY <1>1, <1>2
  <2> QED  BY <2>1, <2>2, <2>3, <2>4, OthersKept
<1>13. /\ DOMAIN Store = DOMAIN live /\ DOMAIN Store' = DOMAIN live'
       /\ DOMAIN Store[h] = 0..(live[h] - 1) /\ DOMAIN Store'[g] = 0..(n - 1)
  BY <1>11 DEF Store, Seen
<1>14. \A i \in DOMAIN Store[h] \cap 0..(n - 1) : Store'[g][i] = Store[h][i]
  <2> SUFFICES ASSUME NEW i \in 0..(live[h] - 1), i \in 0..(n - 1)
               PROVE  Store'[g][i] = Store[h][i]
    BY <1>13
  <2>1. Store[h][i] = mem[h[1]][h[2] + i]  BY DEF Store, Seen
  <2>2. Store'[g][i] = mem'[c][at + i]  BY <1>11 DEF Store, Seen
  <2>3. mem'[c] = bytes  BY <1>2 DEF With
  <2> QED  BY <1>10, <2>1, <2>2, <2>3
<1>15. Client!Move(h, g, n)
  BY <1>7, <1>11, <1>12, <1>13, <1>14 DEF Client!Move, Store
<1>16. g \in DOMAIN Store'  BY <1>11, <1>13
<1> QED  BY <1>13, <1>15, <1>16 DEF Client!Next, Store

LEMMA NoneLeft ==
    ASSUME DOMAIN live' = {}
    PROVE  Client!Next
<1>1. Store' = [h \in {} |-> 0]  BY DEF Store
<1>2. Client!Reset  BY <1>1 DEF Client!Reset, Store
<1> QED  BY <1>2 DEF Client!Next

LEMMA StepRefines ==
    ASSUME RestsAreBlocks, ListInv, [Next]_vars
    PROVE  [Client!Next]_Store
<1>1. CASE UNCHANGED vars
  <2>1. Store' = Store  BY <1>1 DEF vars, Store, Seen
  <2> QED  BY <2>1
<1>2. CASE \E n \in Length, zero \in BOOLEAN, c \in Chunk : Alloc(n, zero, c)
  BY <1>2, AllocRefines
<1>3. CASE \E h \in DOMAIN live, v \in Data : Write(h, v)
  BY <1>3, WriteRefines
<1>4. CASE \E h \in DOMAIN live : Free(h)
  BY <1>4, FreeRefines
<1>5. CASE \E h \in DOMAIN live, n \in Length, zero \in BOOLEAN : ReallocInPlace(h, n, zero)
  BY <1>5, InPlaceRefines
<1>6. CASE \E h \in DOMAIN live, n \in Length, zero \in BOOLEAN, c \in Chunk :
              ReallocMoved(h, n, zero, c)
  BY <1>6, MovedRefines
<1>7. CASE Clear \/ Del
  <2>1. DOMAIN live' = {}  BY <1>7 DEF Clear, Del, Without
  <2> QED  BY <2>1, NoneLeft
<1> QED  BY <1>1, <1>2, <1>3, <1>4, <1>5, <1>6, <1>7 DEF Next

\* For every client the list is a byte store: what is held is kept through the
\* cuts, clears and copies of other blocks, and through its own reallocation.
THEOREM ListRefinesByteStore ==
    ASSUME RestsAreBlocks, ~ClearsLarge
    PROVE  Spec => RefinesByteStore
<1>1. Init => Client!Init
  BY DEF Init, Client!Init
<1>2. ListInv /\ [Next]_vars => [Client!Next]_Store
  BY StepRefines
<1> QED
  BY <1>1, <1>2, ListInvariant, PTL DEF Spec, RefinesByteStore, Client!Spec, Store
=============================================================================

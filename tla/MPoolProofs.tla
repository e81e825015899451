---------------------------- MODULE MPoolProofs ----------------------------
(***************************************************************************)
(* Proofs about the pool, for every chunk size, block size of at least two *)
(* words, set of addresses and client.                                     *)
(***************************************************************************)
EXTENDS MPool, FiniteSetTheorems, TLAPS

USE DEF Null, True, Flag, Link, Ptr, BlockAt

-----------------------------------------------------------------------------
(* Layout.                                                                 *)

\* The blocks of a chunk are numbered from 0 without a gap, and the test of
\* mpool__get_next_adjacent_block finds the next one exactly when there is one.
LEMMA BlockFacts ==
    /\ Block \subseteq Nat
    /\ 0 \in Block
    /\ \A b \in Block : Fits(b + 1) => b + 1 \in Block
    /\ \A b, d \in Block : d > b => Fits(b + 1)
<1>1. Block \subseteq Nat /\ 0 \in Block
  BY PoolAssumption DEF Block
<1>2. ASSUME NEW b \in Block, Fits(b + 1)
      PROVE  b + 1 \in Block
  <2>1. b \in Nat
    BY <1>1
  <2>2. (b + 1 + 1) * BlockWords >= b + 1 + 1
    <3>1. \A x, y \in Nat : y >= 1 => x * y >= x
      OBVIOUS
    <3>2. QED BY <2>1, <3>1, PoolAssumption
  <2>3. (b + 1 + 1) * BlockWords \in Nat
    BY <2>1, PoolAssumption
  <2>4. b + 1 \in 0..ChunkWords
    BY <1>2, <2>1, <2>2, <2>3, PoolAssumption DEF Fits
  <2>5. QED BY <1>2, <2>4 DEF Block
<1>3. ASSUME NEW b \in Block, NEW d \in Block, d > b
      PROVE  Fits(b + 1)
  <2>1. b \in Nat /\ d \in Nat /\ d # 0
    BY <1>1, <1>3
  <2>2. Fits(d)
    BY <2>1 DEF Block
  <2>3. (b + 1 + 1) * BlockWords <= (d + 1) * BlockWords
    <3>1. \A x, y, z \in Nat : x <= y => x * z <= y * z
      OBVIOUS
    <3>2. QED BY <1>3, <2>1, <3>1, PoolAssumption
  <2>4. (b + 1 + 1) * BlockWords \in Nat /\ (d + 1) * BlockWords \in Nat
    BY <2>1, PoolAssumption
  <2>5. QED BY <2>2, <2>3, <2>4, PoolAssumption DEF Fits
<1>4. QED BY <1>1, <1>2, <1>3

Seg == [Slot -> [Word -> Nat]]

\* With two words or more in a block, a header stays inside its block.
LEMMA HeaderInside ==
    ASSUME BlockWords >= 2, NEW seg \in Seg, NEW b \in Block, NEW v \in Nat,
           NEW f \in {Flag, Link}
    PROVE  /\ Load(seg, b, f) = seg[b][f]
           /\ seg[b][f] \in Nat
           /\ Store(seg, b, f, v) = [seg EXCEPT ![b][f] = v]
           /\ Store(seg, b, f, v) \in Seg
           /\ Store(seg, b, f, v)[b][f] = v
           /\ \A w \in Word : w # f => Store(seg, b, f, v)[b][w] = seg[b][w]
           /\ \A d \in Slot : d # b => Store(seg, b, f, v)[d] = seg[d]
<1>1. f \in Nat /\ f < BlockWords /\ f \in Word /\ b \in Slot
  BY PoolAssumption DEF Word, Slot
<1>2. SlotOf(b, f) = b /\ WordOf(f) = f
  BY <1>1 DEF SlotOf, WordOf
<1>3. Load(seg, b, f) = seg[b][f] /\ Store(seg, b, f, v) = [seg EXCEPT ![b][f] = v]
  BY <1>2 DEF Load, Store
<1>4. seg[b] \in [Word -> Nat]
  BY <1>1 DEF Seg
<1>5. QED BY <1>1, <1>3, <1>4 DEF Seg

\* Reading a header field reads a word of the block.
LEMMA HeaderLoad ==
    ASSUME BlockWords >= 2, NEW seg \in Seg
    PROVE  \A b \in Block : /\ Load(seg, b, Flag) = seg[b][Flag]
                            /\ Load(seg, b, Link) = seg[b][Link]
<1>1. Flag \in {Flag, Link} /\ Link \in {Flag, Link} /\ 0 \in Nat
  OBVIOUS
<1>2. QED BY <1>1, HeaderInside

-----------------------------------------------------------------------------
(* The free list under the pool's four helpers.                            *)


\* A sound free list, with the header fields as words of the blocks.
ListShape(seg, head, own, fl) ==
    LET n == Len(fl)
    IN  /\ n = 0 => head = Null
        /\ n > 0 => head = Ptr(fl[1])
        /\ \A i, j \in 1..n : i # j => fl[i] # fl[j]
        /\ \A i \in 1..(n - 1) : seg[fl[i]][Flag] = 0
        /\ \A i \in 1..(n - 1) : seg[fl[i]][Link] = Ptr(fl[i + 1])
        /\ n > 0 => seg[fl[n]][Flag] # 0 \/ seg[fl[n]][Link] = Null
        /\ \A i \in 1..n : fl[i] \notin own
        /\ n > 0 /\ seg[fl[n]][Flag] # 0
             => \A b \in Block : b > fl[n] => b \notin own /\ b \notin Listed(fl)

\* The indices and members of a list of blocks.
LEMMA SeqFacts ==
    ASSUME NEW fl \in Seq(Block)
    PROVE  /\ Len(fl) \in Nat
           /\ \A i \in 1..Len(fl) : fl[i] \in Block
           /\ \A i \in 1..Len(fl) : fl[i] \in Nat
           /\ Len(fl) > 0 => 1 \in 1..Len(fl) /\ Len(fl) \in 1..Len(fl)
           /\ \A i \in 1..(Len(fl) - 1) : i \in 1..Len(fl) /\ i + 1 \in 1..Len(fl)
<1>1. Len(fl) \in Nat /\ \A i \in 1..Len(fl) : fl[i] \in Block
  OBVIOUS
<1>2. \A i \in 1..Len(fl) : fl[i] \in Nat
  BY <1>1, BlockFacts
<1>3. /\ Len(fl) > 0 => 1 \in 1..Len(fl) /\ Len(fl) \in 1..Len(fl)
      /\ \A i \in 1..(Len(fl) - 1) : i \in 1..Len(fl) /\ i + 1 \in 1..Len(fl)
  BY <1>1
<1>4. QED BY <1>1, <1>2, <1>3

\* Read from the blocks' words, the virgin tail of a list.
LEMMA VirginFacts ==
    ASSUME BlockWords >= 2, NEW seg \in Seg, NEW fl \in Seq(Block)
    PROVE  VirginTail(seg, fl) =
             {b \in Block : /\ Len(fl) > 0
                            /\ seg[fl[Len(fl)]][Flag] # 0
                            /\ b > fl[Len(fl)]}
BY HeaderLoad, SeqFacts DEF VirginTail

\* SoundList says of the header fields what ListShape says of the words.
LEMMA ListShapeSound ==
    ASSUME BlockWords >= 2, NEW seg \in Seg, NEW head, NEW own,
           NEW fl \in Seq(Block)
    PROVE  SoundList(seg, head, own, fl) <=> ListShape(seg, head, own, fl)
<1>1. \A b \in Block : Load(seg, b, Flag) = seg[b][Flag] /\ Load(seg, b, Link) = seg[b][Link]
  BY HeaderLoad
<1>2. ASSUME SoundList(seg, head, own, fl)
      PROVE  ListShape(seg, head, own, fl)
  <2>1. IsFreeList(seg, head, fl) /\ VirginTail(seg, fl) \cap Listed(fl) = {}
        /\ (Listed(fl) \cup VirginTail(seg, fl)) \cap own = {}
    BY <1>2 DEF SoundList, FreeSet
  <2>2. \A i \in 1..Len(fl) : fl[i] \notin own
    BY <2>1 DEF Listed
  <2>3. Len(fl) > 0 /\ seg[fl[Len(fl)]][Flag] # 0
          => \A b \in Block : b > fl[Len(fl)] => b \notin own /\ b \notin Listed(fl)
    BY <2>1, VirginFacts
  <2>4. \A i \in 1..(Len(fl) - 1) : seg[fl[i]][Flag] = 0 /\ seg[fl[i]][Link] = Ptr(fl[i + 1])
    BY <1>1, <2>1, SeqFacts DEF IsFreeList
  <2>5. Len(fl) > 0 => seg[fl[Len(fl)]][Flag] # 0 \/ seg[fl[Len(fl)]][Link] = Null
    BY <1>1, <2>1, SeqFacts DEF IsFreeList
  <2>6. (Len(fl) = 0 => head = Null) /\ (Len(fl) > 0 => head = Ptr(fl[1]))
    BY <2>1, SeqFacts DEF IsFreeList
  <2>7. \A i, j \in 1..Len(fl) : i # j => fl[i] # fl[j]
    BY <2>1 DEF IsFreeList
  <2>8. QED BY <2>2, <2>3, <2>4, <2>5, <2>6, <2>7 DEF ListShape
<1>3. ASSUME ListShape(seg, head, own, fl)
      PROVE  SoundList(seg, head, own, fl)
  <2>1. \A i \in 1..(Len(fl) - 1) : /\ Load(seg, fl[i], Flag) = 0
                                    /\ Load(seg, fl[i], Link) = Ptr(fl[i + 1])
    <3>1. \A i \in 1..(Len(fl) - 1) : fl[i] \in Block
      BY SeqFacts
    <3>2. \A i \in 1..(Len(fl) - 1) : /\ seg[fl[i]][Flag] = 0
                                      /\ seg[fl[i]][Link] = Ptr(fl[i + 1])
      BY <1>3 DEF ListShape
    <3>3. QED BY <1>1, <3>1, <3>2
  <2>2. Len(fl) > 0 => \/ Load(seg, fl[Len(fl)], Flag) # 0
                       \/ Load(seg, fl[Len(fl)], Link) = Null
    BY <1>1, <1>3, SeqFacts DEF ListShape
  <2>3. head = IF Len(fl) = 0 THEN Null ELSE Ptr(fl[1])
    BY <1>3, SeqFacts DEF ListShape
  <2>4. \A i, j \in 1..Len(fl) : i # j => fl[i] # fl[j]
    BY <1>3 DEF ListShape
  <2>5. IsFreeList(seg, head, fl)
    BY <2>1, <2>2, <2>3, <2>4 DEF IsFreeList
  <2>6. \A b \in VirginTail(seg, fl) : b \notin own /\ b \notin Listed(fl)
    BY <1>3, VirginFacts DEF ListShape
  <2>7. \A b \in Listed(fl) : b \notin own
    BY <1>3 DEF ListShape, Listed
  <2>8. QED BY <2>5, <2>6, <2>7 DEF SoundList, FreeSet
<1>4. QED BY <1>2, <1>3

\* The free blocks of the list and the blocks held make up the chunk.
Covers(seg, fl, own) == FreeSet(seg, fl) \cup own = Block

\* A cleared block is a block.
LEMMA ZeroedType == Zeroed \in [Word -> Nat]
BY DEF Zeroed

\* What mpool__mark_block_as_used writes: block b, and the flag of the block
\* after it when b carried the flag and is not the last.
LEMMA MarkUsedFacts ==
    ASSUME BlockWords >= 2, NEW seg \in Seg, NEW b \in Block
    PROVE  /\ MarkUsed(seg, b) \in Seg
           /\ MarkUsed(seg, b)[b] = Zeroed
           /\ \A d \in Slot : d # b /\ ~(seg[b][Flag] # 0 /\ d = b + 1)
                                => MarkUsed(seg, b)[d] = seg[d]
           /\ seg[b][Flag] # 0 /\ Fits(b + 1)
                => b + 1 \in Block /\ MarkUsed(seg, b)[b + 1][Flag] = 1
<1>1. b \in Slot /\ b \in Nat
  BY BlockFacts DEF Slot
<1>2. Load(seg, b, Flag) = seg[b][Flag]
  BY HeaderLoad
<1>3. CASE seg[b][Flag] # 0 /\ Fits(b + 1)
  <2> DEFINE s == Store(seg, b + 1, Flag, True)
  <2>1. b + 1 \in Block /\ b + 1 # b /\ b + 1 \in Slot
    BY <1>1, <1>3, BlockFacts DEF Slot
  <2>2. /\ s \in Seg
        /\ s[b + 1][Flag] = 1
        /\ \A d \in Slot : d # b + 1 => s[d] = seg[d]
    <3>1. Flag \in {Flag, Link} /\ 1 \in Nat
      OBVIOUS
    <3>2. QED BY <2>1, <3>1, HeaderInside
  <2>3. MarkUsed(seg, b) = [s EXCEPT ![b] = Zeroed]
    BY <1>2, <1>3 DEF MarkUsed
  <2> HIDE DEF s
  <2>4. \A d \in Slot : MarkUsed(seg, b)[d] = IF d = b THEN Zeroed ELSE s[d]
    BY <2>2, <2>3 DEF Seg
  <2>5. MarkUsed(seg, b) \in Seg
    BY <2>2, <2>3, ZeroedType DEF Seg
  <2>6. QED BY <1>1, <1>3, <2>1, <2>2, <2>4, <2>5
<1>4. CASE ~(seg[b][Flag] # 0 /\ Fits(b + 1))
  <2>1. MarkUsed(seg, b) = [seg EXCEPT ![b] = Zeroed]
    BY <1>2, <1>4 DEF MarkUsed
  <2>2. QED BY <1>1, <1>4, <2>1, ZeroedType DEF Seg
<1>5. QED BY <1>3, <1>4

\* mpool__mark_block_as_used takes the head off the list: what remains is a
\* sound list without it, and no block is lost.
LEMMA PopSound ==
    ASSUME BlockWords >= 2, NEW seg \in Seg, NEW own \in SUBSET Block,
           NEW fl \in Seq(Block), NEW head, head # Null,
           SoundList(seg, head, own, fl)
    PROVE  /\ BlockAt(head) \in Block
           /\ BlockAt(head) \notin own
           /\ seg[BlockAt(head)][Flag] # 0 => BlockAt(head) + 1 \notin own
           /\ NextHead(seg, BlockAt(head)) \in Nat
           /\ \E fl2 \in Seq(Block) :
                /\ SoundList(MarkUsed(seg, BlockAt(head)), NextHead(seg, BlockAt(head)),
                             own \cup {BlockAt(head)}, fl2)
                /\ Covers(seg, fl, own)
                     => Covers(MarkUsed(seg, BlockAt(head)), fl2, own \cup {BlockAt(head)})
<1> DEFINE n == Len(fl)
<1> DEFINE b == BlockAt(head)
<1> DEFINE seg2 == MarkUsed(seg, b)
<1> DEFINE head2 == NextHead(seg, b)
<1> DEFINE own2 == own \cup {b}
<1> SUFFICES /\ b \in Block
             /\ b \notin own
             /\ seg[b][Flag] # 0 => b + 1 \notin own
             /\ head2 \in Nat
             /\ \E fl2 \in Seq(Block) :
                  /\ SoundList(seg2, head2, own2, fl2)
                  /\ Covers(seg, fl, own) => Covers(seg2, fl2, own2)
  OBVIOUS
<1>b. b = BlockAt(head) /\ own2 = own \cup {b}
  OBVIOUS
<1>s. seg2 = MarkUsed(seg, b) /\ head2 = NextHead(seg, b)
  OBVIOUS
<1> HIDE DEF b, seg2, head2, own2
<1>1. ListShape(seg, head, own, fl)
  BY ListShapeSound
<1>2. n \in Nat /\ n > 0 /\ 1 \in 1..n /\ n \in 1..n
  BY <1>1, SeqFacts DEF ListShape
<1>3. fl[1] = b /\ b \in Block /\ b \notin own /\ b \in Nat
  BY <1>1, <1>2, <1>b, SeqFacts DEF ListShape
<1>4. /\ seg2 \in Seg
      /\ seg2[b] = Zeroed
      /\ \A d \in Slot : d # b /\ ~(seg[b][Flag] # 0 /\ d = b + 1) => seg2[d] = seg[d]
      /\ seg[b][Flag] # 0 /\ Fits(b + 1) => b + 1 \in Block /\ seg2[b + 1][Flag] = 1
  BY <1>3, <1>s, MarkUsedFacts
<1>5. head2 = IF seg[b][Flag] # 0 THEN IF Fits(b + 1) THEN Ptr(b + 1) ELSE Null
              ELSE seg[b][Link]
  BY <1>3, <1>s, HeaderLoad DEF NextHead, Adjacent
<1>6. ASSUME seg[b][Flag] # 0
      PROVE  /\ n = 1
             /\ \A d \in Block : d > b => d \notin own /\ d \notin Listed(fl)
             /\ VirginTail(seg, fl) = {d \in Block : d > b}
  <2>1. n = 1
    <3>1. n # 1 => 1 \in 1..(n - 1)
      <4> HIDE DEF n
      <4>1. QED BY <1>2
    <3>2. 1 \notin 1..(n - 1)
      BY <1>1, <1>3, <1>6 DEF ListShape
    <3>3. QED BY <3>1, <3>2
  <2>2. \A d \in Block : d > b => d \notin own /\ d \notin Listed(fl)
    BY <1>1, <1>3, <1>6, <2>1 DEF ListShape
  <2>3. VirginTail(seg, fl) = {d \in Block : d > b}
    <3>1. fl[n] = b
      BY <1>3, <2>1
    <3>2. \A d \in Block : d \in VirginTail(seg, fl) <=> d > b
      BY <1>2, <1>6, <3>1, VirginFacts
    <3>3. VirginTail(seg, fl) \subseteq Block
      BY DEF VirginTail
    <3>4. QED BY <3>2, <3>3
  <2>4. QED BY <2>1, <2>2, <2>3
<1>7. CASE seg[b][Flag] # 0 /\ Fits(b + 1)
  <2> DEFINE fl2 == <<b + 1>>
  <2>1. fl2 \in Seq(Block) /\ Len(fl2) = 1 /\ fl2[1] = b + 1
    BY <1>4, <1>7
  <2>2. b + 1 \in Block /\ b + 1 \notin own /\ b + 1 \notin own2 /\ b + 1 > b
    BY <1>b, <1>3, <1>4, <1>6, <1>7
  <2>3. head2 = Ptr(b + 1) /\ head2 \in Nat
    BY <1>3, <1>5, <1>7
  <2> HIDE DEF fl2
  <2>4. Listed(fl2) = {b + 1}
    BY <2>1 DEF Listed
  <2>5. \A d \in Block : d > b + 1 => d \notin own2 /\ d \notin Listed(fl2)
    <3>1. \A d \in Block : d > b + 1 => d > b /\ d # b /\ d # b + 1
      BY <1>3, BlockFacts
    <3>2. QED BY <1>b, <1>6, <1>7, <2>4, <3>1
  <2>6. SoundList(seg2, head2, own2, fl2)
    <3>1. ListShape(seg2, head2, own2, fl2)
      BY <1>4, <1>7, <2>1, <2>2, <2>3, <2>5 DEF ListShape
    <3>2. QED BY <1>4, <2>1, <3>1, ListShapeSound
  <2>7. ASSUME Covers(seg, fl, own)
        PROVE  Covers(seg2, fl2, own2)
    <3>1. VirginTail(seg2, fl2) = {d \in Block : d > b + 1}
      <4>1. \A d \in Block : d \in VirginTail(seg2, fl2) <=> d > b + 1
        <5>1. VirginTail(seg2, fl2) =
                {d \in Block : /\ Len(fl2) > 0
                               /\ seg2[fl2[Len(fl2)]][Flag] # 0
                               /\ d > fl2[Len(fl2)]}
          BY <1>4, <2>1, VirginFacts
        <5>2. fl2[Len(fl2)] = b + 1 /\ Len(fl2) > 0
          BY <2>1
        <5>3. QED BY <1>4, <1>7, <5>1, <5>2
      <4>2. VirginTail(seg2, fl2) \subseteq Block
        BY DEF VirginTail
      <4>3. QED BY <4>1, <4>2
    <3>2. Listed(fl) = {b}
      BY <1>2, <1>3, <1>6, <1>7 DEF Listed
    <3>3. \A d \in Block : d = b \/ d > b \/ d \in own
      BY <1>6, <1>7, <2>7, <3>2 DEF Covers, FreeSet
    <3>4. \A d \in Block : d > b => d = b + 1 \/ d > b + 1
      <4>1. \A d \in Nat : d > b => d = b + 1 \/ d > b + 1
        BY <1>3
      <4>2. QED BY <4>1, BlockFacts
    <3>5. \A d \in Block : d \in FreeSet(seg2, fl2) \cup own2
      BY <1>b, <2>4, <3>1, <3>3, <3>4 DEF FreeSet
    <3>6. FreeSet(seg2, fl2) \cup own2 \subseteq Block
      BY <1>b, <1>3, <2>2, <2>4, <3>1 DEF FreeSet
    <3>7. QED BY <3>5, <3>6 DEF Covers
  <2>8. QED BY <1>3, <2>1, <2>2, <2>3, <2>6, <2>7
<1>8. CASE n = 1 /\ ~(seg[b][Flag] # 0 /\ Fits(b + 1))
  <2> DEFINE fl2 == << >>
  <2>1. fl2 \in Seq(Block) /\ Len(fl2) = 0
    OBVIOUS
  <2> HIDE DEF fl2
  <2>2. head2 = Null
    BY <1>1, <1>2, <1>3, <1>5, <1>8 DEF ListShape
  <2>3. SoundList(seg2, head2, own2, fl2)
    <3>1. ListShape(seg2, head2, own2, fl2)
      BY <1>b, <2>1, <2>2 DEF ListShape
    <3>2. QED BY <1>4, <2>1, <3>1, ListShapeSound
  <2>4. ASSUME Covers(seg, fl, own)
        PROVE  Covers(seg2, fl2, own2)
    <3>1. Listed(fl) = {b}
      BY <1>2, <1>3, <1>8 DEF Listed
    <3>2. VirginTail(seg, fl) = {}
      <4>1. seg[b][Flag] # 0 => \A d \in Block : ~(d > b)
        BY <1>3, <1>8, BlockFacts
      <4>2. VirginTail(seg, fl) \subseteq Block
        BY DEF VirginTail
      <4>3. fl[n] = b
        BY <1>3, <1>8
      <4>4. \A d \in Block : d \notin VirginTail(seg, fl)
        BY <1>2, <4>1, <4>3, VirginFacts
      <4>5. QED BY <4>2, <4>4
    <3>3. own2 = Block
      BY <1>b, <2>4, <3>1, <3>2 DEF Covers, FreeSet
    <3>4. VirginTail(seg2, fl2) = {} /\ Listed(fl2) = {}
      BY <2>1 DEF VirginTail, Listed
    <3>5. QED BY <3>3, <3>4 DEF Covers, FreeSet
  <2>5. seg[b][Flag] # 0 => b + 1 \notin own
    <3>1. seg[b][Flag] # 0 => b + 1 \notin Block
      BY <1>3, <1>8, BlockFacts
    <3>2. QED BY <3>1
  <2>6. head2 \in Nat
    BY <2>2
  <2>7. QED BY <1>3, <2>1, <2>3, <2>4, <2>5, <2>6
<1>9. CASE n # 1
  <2> DEFINE fl2 == Tail(fl)
  <2>1. n > 1 /\ fl # <<>>
    <3>1. n > 1
      <4>1. \A m \in Nat : m > 0 /\ m # 1 => m > 1
        OBVIOUS
      <4> HIDE DEF n
      <4>2. QED BY <1>2, <1>9, <4>1
    <3>2. Len(<<>>) = 0
      OBVIOUS
    <3>3. QED BY <1>2, <3>1, <3>2
  <2>2. /\ fl2 \in Seq(Block) /\ Len(fl2) = n - 1
        /\ \A i \in 1..(n - 1) : fl2[i] = fl[i + 1]
    BY <2>1
  <2> HIDE DEF fl2
  <2>3. seg[b][Flag] = 0 /\ seg[b][Link] = Ptr(fl[2]) /\ fl[2] \in Nat
    <3>1. 1 \in 1..(n - 1) /\ 2 \in 1..n
      BY <1>2, <2>1
    <3>2. QED BY <1>1, <1>3, <3>1, SeqFacts DEF ListShape
  <2>4. head2 = Ptr(fl2[1]) /\ head2 \in Nat
    <3>1. 1 \in 1..(n - 1)
      BY <1>2, <2>1
    <3>2. QED BY <1>5, <2>2, <2>3, <3>1
  <2>5. \A i \in 1..(n - 1) : /\ fl2[i] \in Block /\ fl2[i] \notin own2 /\ fl2[i] # b
                              /\ seg2[fl2[i]] = seg[fl2[i]]
    <3>1. \A i \in 1..(n - 1) : i + 1 \in 1..n /\ i + 1 # 1
      BY <1>2, <2>1
    <3>2. \A i \in 1..(n - 1) : fl2[i] \in Block /\ fl2[i] \notin own /\ fl2[i] # b
      <4>1. \A i \in 1..n : fl[i] \in Block /\ fl[i] \notin own
        BY <1>1, SeqFacts DEF ListShape
      <4>2. \A i \in 1..n : i # 1 => fl[i] # fl[1]
        BY <1>1, <1>2 DEF ListShape
      <4>3. QED BY <1>3, <2>2, <3>1, <4>1, <4>2
    <3>3. Block \subseteq Slot
      BY DEF Slot
    <3>4. QED BY <1>b, <1>4, <2>3, <3>2, <3>3
  <2>6. Listed(fl) = {b} \cup Listed(fl2)
    <3>1. \A i \in 1..n : i = 1 \/ (i - 1 \in 1..(n - 1) /\ fl[i] = fl2[i - 1])
      <4>1. \A i \in 1..n : i = 1 \/ (i - 1 \in 1..(n - 1) /\ (i - 1) + 1 = i)
        BY <1>2
      <4>2. QED BY <2>2, <4>1
    <3>2. \A i \in 1..n : fl[i] = b \/ fl[i] \in Listed(fl2)
      BY <1>3, <2>2, <3>1 DEF Listed
    <3>3. \A i \in 1..(n - 1) : fl2[i] \in Listed(fl)
      BY <1>2, <2>2 DEF Listed
    <3>4. b \in Listed(fl)
      BY <1>2, <1>3 DEF Listed
    <3>5. QED BY <2>2, <3>2, <3>3, <3>4 DEF Listed
  <2>7. /\ n - 1 \in 1..(n - 1) /\ n - 1 > 0 /\ n - 1 \in Nat
        /\ fl2[n - 1] = fl[n] /\ fl[n] # b /\ fl[n] \in Block
        /\ seg2[fl2[n - 1]] = seg[fl[n]]
    <3>1. n - 1 \in 1..(n - 1) /\ (n - 1) + 1 = n /\ n - 1 > 0 /\ n - 1 \in Nat
      BY <1>2, <2>1
    <3>2. fl2[n - 1] = fl[n]
      BY <2>2, <3>1
    <3>3. QED BY <2>5, <3>1, <3>2
  <2>8. VirginTail(seg2, fl2) = VirginTail(seg, fl)
    <3>1. \A d \in Block : d \in VirginTail(seg2, fl2) <=> seg[fl[n]][Flag] # 0 /\ d > fl[n]
      BY <1>4, <2>2, <2>7, VirginFacts
    <3>2. \A d \in Block : d \in VirginTail(seg, fl) <=> seg[fl[n]][Flag] # 0 /\ d > fl[n]
      BY <1>2, VirginFacts
    <3>3. VirginTail(seg, fl) \subseteq Block /\ VirginTail(seg2, fl2) \subseteq Block
      BY DEF VirginTail
    <3>4. QED BY <3>1, <3>2, <3>3
  <2>9. ListShape(seg2, head2, own2, fl2)
    <3>1. \A i, j \in 1..(n - 1) : i # j => fl2[i] # fl2[j]
      <4>1. \A i, j \in 1..(n - 1) : i + 1 \in 1..n /\ (i # j => i + 1 # j + 1)
        BY <1>2
      <4>2. QED BY <1>1, <2>2, <4>1 DEF ListShape
    <3>2. \A i \in 1..(n - 2) : /\ seg2[fl2[i]][Flag] = 0
                                /\ seg2[fl2[i]][Link] = Ptr(fl2[i + 1])
      <4>1. \A i \in 1..(n - 2) : i \in 1..(n - 1) /\ i + 1 \in 1..(n - 1)
        BY <1>2
      <4>2. \A i \in 1..(n - 2) : /\ seg[fl[i + 1]][Flag] = 0
                                  /\ seg[fl[i + 1]][Link] = Ptr(fl[(i + 1) + 1])
        BY <1>1, <4>1 DEF ListShape
      <4>3. QED BY <2>2, <2>5, <4>1, <4>2
    <3>3. \/ seg2[fl2[n - 1]][Flag] # 0
          \/ seg2[fl2[n - 1]][Link] = Null
      BY <1>1, <1>2, <2>7 DEF ListShape
    <3>4. seg2[fl2[n - 1]][Flag] # 0
            => \A d \in Block : d > fl2[n - 1] => d \notin own2 /\ d \notin Listed(fl2)
      <4>1. b \in Listed(fl)
        BY <2>6
      <4>2. QED BY <1>b, <1>1, <1>2, <2>6, <2>7, <4>1 DEF ListShape
    <3>5. (n - 1) - 1 = n - 2
      BY <1>2
    <3>6. /\ ~(n - 1 = 0) /\ n - 1 > 0
          /\ \A i \in 1..(n - 1) : fl2[i] \notin own2
      BY <2>5, <2>7
    <3> HIDE DEF n
    <3>7. QED BY <2>2, <2>4, <3>1, <3>2, <3>3, <3>4, <3>5, <3>6 DEF ListShape
  <2>10. SoundList(seg2, head2, own2, fl2)
    BY <1>4, <2>2, <2>9, ListShapeSound
  <2>11. Covers(seg, fl, own) => Covers(seg2, fl2, own2)
    BY <1>b, <2>6, <2>8 DEF Covers, FreeSet
  <2>12. QED BY <1>3, <2>2, <2>3, <2>4, <2>10, <2>11
<1>10. QED BY <1>6, <1>7, <1>8, <1>9

\* What mpool__mark_block_as_avail writes: the two header words of block b.
LEMMA MarkAvailFacts ==
    ASSUME BlockWords >= 2, NEW seg \in Seg, NEW b \in Block, NEW head \in Nat
    PROVE  /\ MarkAvail(seg, b, head) \in Seg
           /\ MarkAvail(seg, b, head)[b][Flag] = 0
           /\ MarkAvail(seg, b, head)[b][Link] = head
           /\ \A d \in Slot : d # b => MarkAvail(seg, b, head)[d] = seg[d]
<1>1. b \in Slot /\ 0 \in Word /\ 1 \in Word
  BY PoolAssumption DEF Slot, Word
<1>2. MarkAvail(seg, b, head) = [[seg EXCEPT ![b][0] = 0] EXCEPT ![b][1] = head]
  <2>1. 0 < BlockWords /\ 1 < BlockWords
    BY PoolAssumption
  <2>2. QED BY <2>1 DEF MarkAvail, Store, SlotOf, WordOf
<1> DEFINE s == [seg EXCEPT ![b][0] = 0]
<1>3. /\ s \in Seg
      /\ s[b][0] = 0
      /\ \A d \in Slot : d # b => s[d] = seg[d]
  <2>1. seg[b] \in [Word -> Nat]
    BY <1>1 DEF Seg
  <2>2. QED BY <1>1, <2>1 DEF Seg
<1>4. MarkAvail(seg, b, head) = [s EXCEPT ![b][1] = head]
  BY <1>2
<1> HIDE DEF s
<1>5. s[b] \in [Word -> Nat]
  BY <1>1, <1>3 DEF Seg
<1>6. QED BY <1>1, <1>3, <1>4, <1>5 DEF Seg

\* mpool__mark_block_as_avail puts a held block at the head of the list.
LEMMA PushSound ==
    ASSUME BlockWords >= 2, NEW seg \in Seg, NEW own \in SUBSET Block,
           NEW fl \in Seq(Block), NEW head \in Nat,
           SoundList(seg, head, own, fl),
           NEW b \in own
    PROVE  \E fl2 \in Seq(Block) :
             /\ SoundList(MarkAvail(seg, b, head), Ptr(b), own \ {b}, fl2)
             /\ Covers(seg, fl, own) => Covers(MarkAvail(seg, b, head), fl2, own \ {b})
<1> DEFINE n == Len(fl)
<1> DEFINE fl2 == <<b>> \o fl
<1> DEFINE seg2 == MarkAvail(seg, b, head)
<1> DEFINE own2 == own \ {b}
<1>b. own2 = own \ {b} /\ seg2 = MarkAvail(seg, b, head)
  OBVIOUS
<1> SUFFICES \E fl3 \in Seq(Block) : /\ SoundList(seg2, Ptr(b), own2, fl3)
                                     /\ Covers(seg, fl, own) => Covers(seg2, fl3, own2)
  OBVIOUS
<1> HIDE DEF seg2, own2
<1>1. ListShape(seg, head, own, fl)
  BY ListShapeSound
<1>2. b \in Block /\ b \in Nat /\ n \in Nat
  BY BlockFacts, SeqFacts
<1>3. /\ seg2 \in Seg
      /\ seg2[b][Flag] = 0
      /\ seg2[b][Link] = head
      /\ \A d \in Slot : d # b => seg2[d] = seg[d]
  BY <1>b, <1>2, MarkAvailFacts
<1>4. /\ fl2 \in Seq(Block) /\ Len(fl2) = n + 1 /\ fl2[1] = b
      /\ \A i \in 1..n : fl2[i + 1] = fl[i]
  BY <1>2
<1>5. \A i \in 1..n : fl[i] # b /\ seg2[fl[i]] = seg[fl[i]] /\ fl[i] \in Block
  <2>1. Block \subseteq Slot
    BY DEF Slot
  <2>2. QED BY <1>1, <1>3, <2>1, SeqFacts DEF ListShape
<1> HIDE DEF fl2
<1>6. \A i \in 1..(n + 1) : i = 1 \/ (i - 1 \in 1..n /\ fl2[i] = fl[i - 1])
  <2>1. \A i \in 1..(n + 1) : i = 1 \/ (i - 1 \in 1..n /\ (i - 1) + 1 = i)
    <3> HIDE DEF n
    <3>1. QED BY <1>2
  <2>2. QED BY <1>4, <2>1
<1>7. Listed(fl2) = {b} \cup Listed(fl)
  <2>1. \A i \in 1..n : i + 1 \in 1..(n + 1)
    BY <1>2
  <2>2. 1 \in 1..(n + 1)
    BY <1>2
  <2>3. QED BY <1>4, <1>6, <2>1, <2>2 DEF Listed
<1>8. /\ n > 0 => fl2[n + 1] = fl[n] /\ n \in 1..n /\ seg2[fl[n]] = seg[fl[n]]
      /\ n = 0 => fl2[n + 1] = b
  BY <1>2, <1>4, <1>5, SeqFacts
<1>9. ListShape(seg2, Ptr(b), own2, fl2)
  <2>1. \A i, j \in 1..(n + 1) : i # j => fl2[i] # fl2[j]
    <3>1. \A i, j \in 1..(n + 1) : i - 1 = j - 1 <=> i = j
      BY <1>2
    <3>2. \A i, j \in 1..n : i # j => fl[i] # fl[j]
      BY <1>1 DEF ListShape
    <3>3. \A i \in 1..(n + 1) : i # 1 => fl2[i] # fl2[1]
      BY <1>4, <1>5, <1>6
    <3>4. \A i, j \in 1..(n + 1) : i # 1 /\ j # 1 /\ i # j => fl2[i] # fl2[j]
      BY <1>6, <3>1, <3>2
    <3>5. QED BY <3>3, <3>4
  <2>2. \A i \in 1..n : /\ seg2[fl2[i]][Flag] = 0
                        /\ seg2[fl2[i]][Link] = Ptr(fl2[i + 1])
    <3>1. ASSUME n > 0 PROVE seg2[b][Link] = Ptr(fl2[2])
      <4>1. head = Ptr(fl[1]) /\ 1 \in 1..n
        BY <1>1, <3>1, SeqFacts DEF ListShape
      <4>2. QED BY <1>3, <1>4, <4>1
    <3>2. \A i \in 1..n : i = 1 \/ i - 1 \in 1..(n - 1)
      <4> HIDE DEF n
      <4>1. QED BY <1>2
    <3>3. \A i \in 1..(n - 1) : /\ seg[fl[i]][Flag] = 0
                                /\ seg[fl[i]][Link] = Ptr(fl[i + 1])
      BY <1>1 DEF ListShape
    <3>4. \A i \in 1..(n - 1) : i \in 1..n /\ i + 1 \in 1..n
      BY <1>2
    <3>5. \A i \in 1..(n - 1) : /\ seg2[fl2[i + 1]][Flag] = 0
                                /\ seg2[fl2[i + 1]][Link] = Ptr(fl2[(i + 1) + 1])
      <4> SUFFICES ASSUME NEW i \in 1..(n - 1)
                   PROVE  /\ seg2[fl2[i + 1]][Flag] = 0
                          /\ seg2[fl2[i + 1]][Link] = Ptr(fl2[(i + 1) + 1])
        OBVIOUS
      <4>1. fl2[i + 1] = fl[i] /\ fl2[(i + 1) + 1] = fl[i + 1]
        BY <1>4, <3>4
      <4>2. seg2[fl[i]] = seg[fl[i]]
        BY <1>5, <3>4
      <4>3. QED BY <3>3, <4>1, <4>2
    <3>6. \A i \in 1..n : i # 1 => /\ seg2[fl2[i]][Flag] = 0
                                   /\ seg2[fl2[i]][Link] = Ptr(fl2[i + 1])
      <4>1. \A i \in 1..n : (i - 1) + 1 = i
        BY <1>2
      <4>2. QED BY <3>2, <3>5, <4>1
    <3>7. \A i \in 1..n : n > 0
      BY <1>2
    <3>8. QED BY <1>3, <1>4, <3>1, <3>6, <3>7
  <2>3. seg2[fl2[n + 1]][Flag] # 0 \/ seg2[fl2[n + 1]][Link] = Null
    <3>1. CASE n = 0
      BY <1>1, <1>3, <1>8, <3>1 DEF ListShape
    <3>2. CASE n > 0
      BY <1>1, <1>8, <3>2 DEF ListShape
    <3>3. QED BY <1>2, <3>1, <3>2
  <2>4. \A i \in 1..(n + 1) : fl2[i] \notin own2
    <3>1. \A i \in 1..n : fl[i] \notin own2
      BY <1>b, <1>1 DEF ListShape
    <3>2. b \notin own2
      BY <1>b
    <3>3. QED BY <1>4, <1>6, <3>1, <3>2
  <2>5. seg2[fl2[n + 1]][Flag] # 0
          => \A d \in Block : d > fl2[n + 1] => d \notin own2 /\ d \notin Listed(fl2)
    <3>1. seg2[fl2[n + 1]][Flag] # 0
            => n > 0 /\ seg[fl[n]][Flag] # 0 /\ fl2[n + 1] = fl[n]
      BY <1>2, <1>3, <1>8
    <3>2. seg2[fl2[n + 1]][Flag] # 0
            => \A d \in Block : d > fl[n] => d \notin own /\ d \notin Listed(fl)
      BY <1>1, <3>1 DEF ListShape
    <3>3. QED BY <1>b, <1>7, <3>1, <3>2
  <2>6. (n + 1) - 1 = n /\ n + 1 > 0 /\ ~(n + 1 = 0)
    BY <1>2
  <2> HIDE DEF n
  <2>7. QED BY <1>4, <2>1, <2>2, <2>3, <2>4, <2>5, <2>6 DEF ListShape
<1>10. SoundList(seg2, Ptr(b), own2, fl2)
  BY <1>3, <1>4, <1>9, ListShapeSound
<1>11. VirginTail(seg2, fl2) = VirginTail(seg, fl)
  <2>1. n + 1 > 0
    BY <1>2
  <2>2. \A d \in Block : d \in VirginTail(seg2, fl2)
                           <=> seg2[fl2[n + 1]][Flag] # 0 /\ d > fl2[n + 1]
    <3>1. VirginTail(seg2, fl2) =
            {d \in Block : /\ Len(fl2) > 0
                           /\ seg2[fl2[Len(fl2)]][Flag] # 0
                           /\ d > fl2[Len(fl2)]}
      BY <1>3, <1>4, VirginFacts
    <3>2. QED BY <1>4, <2>1, <3>1
  <2>3. \A d \in Block : d \in VirginTail(seg, fl)
                           <=> n > 0 /\ seg[fl[n]][Flag] # 0 /\ d > fl[n]
    BY VirginFacts
  <2>4. VirginTail(seg, fl) \subseteq Block /\ VirginTail(seg2, fl2) \subseteq Block
    BY DEF VirginTail
  <2>5. \A d \in Block : d \in VirginTail(seg2, fl2) <=> d \in VirginTail(seg, fl)
    <3>1. CASE n = 0
      BY <1>3, <1>8, <2>2, <2>3, <3>1
    <3>2. CASE n > 0
      BY <1>8, <2>2, <2>3, <3>2
    <3>3. QED BY <1>2, <3>1, <3>2
  <2>6. QED BY <2>4, <2>5
<1>12. Covers(seg, fl, own) => Covers(seg2, fl2, own2)
  BY <1>b, <1>2, <1>7, <1>11 DEF Covers, FreeSet
<1>13. QED BY <1>4, <1>10, <1>12

\* mpool__init_chunk: the whole chunk is free, through the flag of block 0.
LEMMA InitSegFacts ==
    ASSUME BlockWords >= 2, NEW seg \in Seg
    PROVE  /\ InitSeg(seg) \in Seg
           /\ \E fl \in Seq(Block) : /\ SoundList(InitSeg(seg), Ptr(0), {}, fl)
                                     /\ Covers(InitSeg(seg), fl, {})
<1> DEFINE fl == <<0>>
<1> DEFINE seg2 == InitSeg(seg)
<1>1. 0 \in Block /\ Flag \in {Flag, Link} /\ True \in Nat
  BY BlockFacts
<1>2. seg2 \in Seg /\ seg2[0][Flag] = 1
  BY <1>1, HeaderInside DEF InitSeg
<1>3. fl \in Seq(Block) /\ Len(fl) = 1 /\ fl[1] = 0
  BY <1>1
<1> HIDE DEF fl, seg2
<1>4. Listed(fl) = {0}
  BY <1>3 DEF Listed
<1>5. ListShape(seg2, Ptr(0), {}, fl)
  BY <1>2, <1>3, <1>4, BlockFacts DEF ListShape
<1>6. SoundList(seg2, Ptr(0), {}, fl)
  BY <1>2, <1>3, <1>5, ListShapeSound
<1>7. VirginTail(seg2, fl) = {d \in Block : d > 0}
  <2>1. VirginTail(seg2, fl) = {d \in Block : /\ Len(fl) > 0
                                              /\ seg2[fl[Len(fl)]][Flag] # 0
                                              /\ d > fl[Len(fl)]}
    BY <1>2, <1>3, VirginFacts
  <2>2. \A d \in Block : d \in VirginTail(seg2, fl) <=> d > 0
    BY <1>2, <1>3, <2>1
  <2>3. QED BY <2>1, <2>2
<1>8. \A d \in Block : d = 0 \/ d > 0
  <2>1. \A d \in Nat : d = 0 \/ d > 0
    OBVIOUS
  <2>2. QED BY <2>1, BlockFacts
<1>9. Covers(seg2, fl, {})
  BY <1>1, <1>4, <1>7, <1>8 DEF Covers, FreeSet
<1>10. QED BY <1>2, <1>3, <1>6, <1>9 DEF seg2

\* A write that leaves the blocks outside `own` alone leaves the list alone.
LEMMA FrameSound ==
    ASSUME BlockWords >= 2, NEW seg \in Seg, NEW seg2 \in Seg, NEW own, NEW head,
           NEW fl \in Seq(Block), SoundList(seg, head, own, fl),
           \A d \in Block : d \notin own => seg2[d] = seg[d]
    PROVE  /\ SoundList(seg2, head, own, fl)
           /\ Covers(seg, fl, own) => Covers(seg2, fl, own)
<1>1. ListShape(seg, head, own, fl)
  BY ListShapeSound
<1>2. \A i \in 1..Len(fl) : seg2[fl[i]] = seg[fl[i]]
  BY <1>1, SeqFacts DEF ListShape
<1>3. ListShape(seg2, head, own, fl)
  BY <1>1, <1>2, SeqFacts DEF ListShape
<1>4. VirginTail(seg2, fl) = VirginTail(seg, fl)
  <2>1. \A d \in Block : d \in VirginTail(seg2, fl) <=> d \in VirginTail(seg, fl)
    BY <1>2, SeqFacts, VirginFacts
  <2>2. VirginTail(seg, fl) \subseteq Block /\ VirginTail(seg2, fl) \subseteq Block
    BY DEF VirginTail
  <2>3. QED BY <2>1, <2>2
<1>5. QED BY <1>3, <1>4, ListShapeSound DEF Covers, FreeSet

-----------------------------------------------------------------------------
(* The inductive invariant.                                                *)

\* block_size divides the address of every block: mpool_free takes them all.
AllAligned == \A h \in Handle : Aligned(h)

ChunkOK(c) ==
    \E fl \in Seq(Block) :
        /\ SoundList(mem[c], next_block[c], OwnedIn(c), fl)
        /\ AllAligned => Covers(mem[c], fl, OwnedIn(c))

ClientOK == \A h \in owned : h[1] \in Chained

UsageOK == IsFiniteSet(owned) /\ user_usage >= Cardinality(owned)

PoolInv ==
    /\ TypeOK
    /\ Chained \subseteq mapped
    /\ ClientOK
    /\ \A c \in Chained : ChunkOK(c)
    /\ UsageOK

\* A freshly mapped chunk is typed.
LEMMA FreshType == Fresh \in Seg
BY ZeroedType DEF Fresh, Seg

\* The effect of mpool_alloc's tail on the chunk that serves the request.
LEMMA HandOutOK ==
    ASSUME BlockWords >= 2, TypeOK, UsageOK,
           NEW c \in Chunk, NEW seg \in Seg, NEW head,
           HandOut(c, seg, head), head # Null,
           NEW fl \in Seq(Block), SoundList(seg, head, OwnedIn(c), fl),
           AllAligned => Covers(seg, fl, OwnedIn(c))
    PROVE  /\ BlockAt(head) \in Block
           /\ <<c, BlockAt(head)>> \notin owned
           /\ owned' = owned \cup {<<c, BlockAt(head)>>}
           /\ owned' \in SUBSET Handle
           /\ mem' \in [Chunk -> Seg]
           /\ next_block' \in [Chunk -> Nat]
           /\ user_usage' \in Nat
           /\ UsageOK'
           /\ ChunkOK(c)'
           /\ mem'[c][BlockAt(head)] = Zeroed
           /\ \A d \in OwnedIn(c) : mem'[c][d] = seg[d]
           /\ \A e \in Chunk : e # c => /\ mem'[e] = mem[e]
                                        /\ next_block'[e] = next_block[e]
                                        /\ OwnedIn(e)' = OwnedIn(e)
<1> DEFINE b == BlockAt(head)
<1>1. mem \in [Chunk -> Seg] /\ next_block \in [Chunk -> Nat] /\ owned \in SUBSET Handle
      /\ user_usage \in Nat
  BY DEF TypeOK, Seg
<1>2. OwnedIn(c) \in SUBSET Block
  BY DEF OwnedIn
<1>3. /\ b \in Block
      /\ b \notin OwnedIn(c)
      /\ seg[b][Flag] # 0 => b + 1 \notin OwnedIn(c)
      /\ NextHead(seg, b) \in Nat
      /\ \E fl2 \in Seq(Block) :
           /\ SoundList(MarkUsed(seg, b), NextHead(seg, b), OwnedIn(c) \cup {b}, fl2)
           /\ Covers(seg, fl, OwnedIn(c))
                => Covers(MarkUsed(seg, b), fl2, OwnedIn(c) \cup {b})
  BY <1>2, PopSound
<1>4. /\ MarkUsed(seg, b) \in Seg
      /\ MarkUsed(seg, b)[b] = Zeroed
      /\ \A d \in Slot : d # b /\ ~(seg[b][Flag] # 0 /\ d = b + 1)
                           => MarkUsed(seg, b)[d] = seg[d]
  BY <1>3, MarkUsedFacts
<1>5. /\ mem' = [mem EXCEPT ![c] = MarkUsed(seg, b)]
      /\ next_block' = [next_block EXCEPT ![c] = NextHead(seg, b)]
      /\ user_usage' = user_usage + 1
      /\ owned' = owned \cup {<<c, b>>}
  BY DEF HandOut
<1> HIDE DEF b
<1>6. <<c, b>> \notin owned /\ <<c, b>> \in Handle
  BY <1>3 DEF OwnedIn, Handle
<1>7. mem'[c] = MarkUsed(seg, b) /\ next_block'[c] = NextHead(seg, b)
  BY <1>1, <1>5
<1>8. OwnedIn(c)' = OwnedIn(c) \cup {b}
  BY <1>3, <1>5 DEF OwnedIn
<1>9. ChunkOK(c)'
  BY <1>3, <1>7, <1>8 DEF ChunkOK
<1>10. \A d \in OwnedIn(c) : mem'[c][d] = seg[d]
  <2>1. OwnedIn(c) \subseteq Slot
    BY DEF OwnedIn, Slot
  <2>2. QED BY <1>3, <1>4, <1>7, <2>1
<1>11. \A e \in Chunk : e # c => /\ mem'[e] = mem[e]
                                 /\ next_block'[e] = next_block[e]
                                 /\ OwnedIn(e)' = OwnedIn(e)
  BY <1>1, <1>5 DEF OwnedIn
<1>12. UsageOK'
  <2>1. IsFiniteSet(owned') /\ Cardinality(owned') = Cardinality(owned) + 1
    BY <1>5, <1>6, FS_AddElement DEF UsageOK
  <2>2. Cardinality(owned) \in Nat
    BY FS_CardinalityType DEF UsageOK
  <2>3. QED BY <1>1, <1>5, <2>1, <2>2 DEF UsageOK
<1>13. /\ mem' \in [Chunk -> Seg]
       /\ next_block' \in [Chunk -> Nat]
       /\ user_usage' \in Nat
       /\ owned' \in SUBSET Handle
  <2>1. mem' \in [Chunk -> Seg]
    BY <1>1, <1>4, <1>5
  <2>2. next_block' \in [Chunk -> Nat]
    BY <1>1, <1>3, <1>5
  <2>3. user_usage' \in Nat
    BY <1>1, <1>5
  <2>4. owned' \in SUBSET Handle
    BY <1>1, <1>5, <1>6
  <2>5. QED BY <2>1, <2>2, <2>3, <2>4
<1>14. QED BY <1>3, <1>4, <1>5, <1>6, <1>7, <1>9, <1>10, <1>11, <1>12, <1>13 DEF b

\* A chunk on which neither the memory, the head nor the holders changed.
LEMMA ChunkUnchanged ==
    ASSUME NEW c \in Chunk, ChunkOK(c), mem'[c] = mem[c],
           next_block'[c] = next_block[c], OwnedIn(c)' = OwnedIn(c)
    PROVE  ChunkOK(c)'
BY DEF ChunkOK

\* A chunk that mpool__init_chunk has just set up, none of it held.
LEMMA ChunkInitialised ==
    ASSUME BlockWords >= 2, NEW c \in Chunk, NEW seg \in Seg,
           mem'[c] = InitSeg(seg), next_block'[c] = Ptr(0), OwnedIn(c)' = {}
    PROVE  ChunkOK(c)'
BY InitSegFacts DEF ChunkOK

\* The invariant holds of an unset pool.
LEMMA InvInit == ASSUME BlockWords >= 2, Init PROVE PoolInv
<1>1. chain \in Seq(Chunk) /\ Chained = {}
  BY DEF Init, Chained
<1>2. mem \in [Chunk -> Seg]
  BY FreshType DEF Init
<1>3. TypeOK
  BY <1>1, <1>2 DEF Init, TypeOK, Seg
<1>4. UsageOK
  BY FS_EmptySet DEF Init, UsageOK
<1>5. QED BY <1>1, <1>3, <1>4 DEF Init, PoolInv, ClientOK

\* TypeOK, with the memory of a chunk named.
LEMMA TypeFacts ==
    TypeOK <=> /\ chain \in Seq(Chunk)
               /\ next_block \in [Chunk -> Nat]
               /\ mem \in [Chunk -> Seg]
               /\ user_usage \in Nat
               /\ alloc_usage \in Nat
               /\ mapped \in SUBSET Chunk
               /\ owned \in SUBSET Handle
BY DEF TypeOK, Seg

\* mpool_init establishes the invariant anew.
LEMMA InvInitPool ==
    ASSUME BlockWords >= 2, PoolInv, NEW c \in Chunk, InitPool(c)
    PROVE  PoolInv'
<1>1. TypeOK /\ Chained = {} /\ ClientOK
  BY DEF PoolInv, InitPool, Chained
<1>2. owned = {}
  BY <1>1 DEF ClientOK, TypeOK, Handle
<1>3. Chained' = {c} /\ chain' \in Seq(Chunk)
  BY DEF InitPool, Chained
<1>4. InitSeg(Fresh) \in Seg
  BY FreshType, InitSegFacts
<1>5. mem' \in [Chunk -> Seg] /\ mem'[c] = InitSeg(Fresh)
  BY <1>1, <1>4, TypeFacts DEF InitPool
<1>6. next_block' \in [Chunk -> Nat] /\ next_block'[c] = Ptr(0)
  BY <1>1, TypeFacts DEF InitPool
<1>7. TypeOK'
  <2>1. /\ user_usage' \in Nat /\ alloc_usage' \in Nat
        /\ mapped' \in SUBSET Chunk /\ owned' \in SUBSET Handle
    BY <1>1, TypeFacts DEF InitPool
  <2>2. QED BY <1>3, <1>5, <1>6, <2>1 DEF TypeOK, Seg
<1>8. OwnedIn(c)' = {} /\ owned' = {}
  BY <1>2 DEF InitPool, OwnedIn
<1>9. ChunkOK(c)'
  BY <1>5, <1>6, <1>8, FreshType, ChunkInitialised
<1>10. UsageOK'
  BY <1>7, <1>8, FS_EmptySet DEF UsageOK, TypeOK
<1>11. Chained' \subseteq mapped'
  BY <1>3 DEF InitPool
<1>12. ClientOK'
  BY <1>8 DEF ClientOK
<1>13. QED BY <1>3, <1>7, <1>9, <1>10, <1>11, <1>12 DEF PoolInv

\* A handle names a chunk and a block of it.
LEMMA HandleFacts ==
    ASSUME TypeOK, NEW h \in owned
    PROVE  /\ h[1] \in Chunk /\ h[2] \in Block /\ h = <<h[1], h[2]>>
           /\ h[2] \in OwnedIn(h[1])
<1>1. h \in Chunk \X Block
  BY TypeFacts DEF Handle
<1>2. h[1] \in Chunk /\ h[2] \in Block /\ h = <<h[1], h[2]>>
  BY <1>1
<1>3. QED BY <1>2 DEF OwnedIn

\* What a served request does to the pool, whichever chunk serves it.
Served(c, b) ==
    /\ c \in Chunk /\ b \in Block
    /\ <<c, b>> \notin owned
    /\ owned' = owned \cup {<<c, b>>}
    /\ mem'[c][b] = Zeroed
    /\ \A h \in owned : mem'[h[1]][h[2]] = mem[h[1]][h[2]]

\* An allocation from a linked chunk preserves the invariant.
LEMMA InvAllocFromChunk ==
    ASSUME BlockWords >= 2, PoolInv, NEW i \in DOMAIN chain, AllocFromChunk(i)
    PROVE  PoolInv' /\ \E c \in Chunk, b \in Block : Served(c, b)
<1>1. TypeOK /\ UsageOK /\ ClientOK /\ \A d \in Chained : ChunkOK(d)
  BY DEF PoolInv
<1>2. PICK c \in Chunk : c = chain[i] /\ c \in Chained /\ Chained \subseteq Chunk
  BY <1>1, TypeFacts DEF Chained
<1>3. HandOut(c, mem[c], next_block[c]) /\ next_block[c] # Null
      /\ UNCHANGED <<chain, alloc_usage, mapped>>
  BY <1>2 DEF AllocFromChunk
<1>4. Chained' = Chained
  BY <1>3 DEF Chained
<1>5. PICK fl \in Seq(Block) : /\ SoundList(mem[c], next_block[c], OwnedIn(c), fl)
                               /\ AllAligned => Covers(mem[c], fl, OwnedIn(c))
  BY <1>1, <1>2 DEF ChunkOK
<1>6. mem[c] \in Seg
  BY <1>1, <1>2, TypeFacts
<1> DEFINE b == BlockAt(next_block[c])
<1>7. /\ b \in Block
      /\ <<c, b>> \notin owned
      /\ owned' = owned \cup {<<c, b>>}
      /\ owned' \in SUBSET Handle
      /\ mem' \in [Chunk -> Seg]
      /\ next_block' \in [Chunk -> Nat]
      /\ user_usage' \in Nat
      /\ UsageOK'
      /\ ChunkOK(c)'
      /\ mem'[c][b] = Zeroed
      /\ \A d \in OwnedIn(c) : mem'[c][d] = mem[c][d]
      /\ \A e \in Chunk : e # c => /\ mem'[e] = mem[e]
                                   /\ next_block'[e] = next_block[e]
                                   /\ OwnedIn(e)' = OwnedIn(e)
  BY <1>1, <1>2, <1>3, <1>5, <1>6, HandOutOK
<1> HIDE DEF b
<1>8. TypeOK'
  BY <1>1, <1>3, <1>7, TypeFacts DEF TypeOK, Seg
<1>9. \A d \in Chained' : ChunkOK(d)'
  BY <1>1, <1>2, <1>4, <1>7, ChunkUnchanged
<1>10. ClientOK'
  BY <1>1, <1>2, <1>4, <1>7 DEF ClientOK
<1>11. Chained' \subseteq mapped'
  BY <1>3, <1>4 DEF PoolInv
<1>12. \A h \in owned : mem'[h[1]][h[2]] = mem[h[1]][h[2]]
  <2>1. \A h \in owned : h[1] \in Chunk /\ (h[1] = c => h[2] \in OwnedIn(c))
    BY <1>1, HandleFacts
  <2>2. QED BY <1>7, <2>1
<1>13. Served(c, b)
  BY <1>2, <1>7, <1>12 DEF Served
<1>14. QED BY <1>7, <1>8, <1>9, <1>10, <1>11, <1>13 DEF PoolInv

\* An allocation that chains a new chunk preserves the invariant.
LEMMA InvAllocFromNewChunk ==
    ASSUME BlockWords >= 2, PoolInv, NEW c \in Chunk, AllocFromNewChunk(c)
    PROVE  PoolInv' /\ \E b \in Block : Served(c, b)
<1>1. TypeOK /\ UsageOK /\ ClientOK /\ Chained \subseteq mapped /\ \A d \in Chained : ChunkOK(d)
  BY DEF PoolInv
<1>2. c \notin Chained /\ c \notin mapped /\ mapped' = mapped \cup {c}
      /\ alloc_usage' = alloc_usage + 1 /\ chain' = Append(chain, c)
      /\ HandOut(c, InitSeg(Fresh), Ptr(0))
  BY <1>1 DEF AllocFromNewChunk
<1>3. Chained' = Chained \cup {c} /\ chain' \in Seq(Chunk) /\ Chained \subseteq Chunk
  <2>1. chain \in Seq(Chunk) /\ chain' \in Seq(Chunk) /\ Len(chain') = Len(chain) + 1
        /\ chain'[Len(chain) + 1] = c /\ \A j \in 1..Len(chain) : chain'[j] = chain[j]
    BY <1>1, <1>2, TypeFacts
  <2>2. DOMAIN chain = 1..Len(chain) /\ DOMAIN chain' = 1..(Len(chain) + 1)
        /\ Len(chain) \in Nat
    BY <2>1
  <2>3. DOMAIN chain' = DOMAIN chain \cup {Len(chain) + 1}
    BY <2>2
  <2>4. QED BY <2>1, <2>2, <2>3 DEF Chained
<1>4. OwnedIn(c) = {}
  BY <1>1, <1>2 DEF ClientOK, OwnedIn
<1>5. InitSeg(Fresh) \in Seg
  BY FreshType, InitSegFacts
<1>6. PICK fl \in Seq(Block) : /\ SoundList(InitSeg(Fresh), Ptr(0), OwnedIn(c), fl)
                               /\ Covers(InitSeg(Fresh), fl, OwnedIn(c))
  BY <1>4, FreshType, InitSegFacts
<1> DEFINE b == BlockAt(Ptr(0))
<1>7. /\ b \in Block
      /\ <<c, b>> \notin owned
      /\ owned' = owned \cup {<<c, b>>}
      /\ owned' \in SUBSET Handle
      /\ mem' \in [Chunk -> Seg]
      /\ next_block' \in [Chunk -> Nat]
      /\ user_usage' \in Nat
      /\ UsageOK'
      /\ ChunkOK(c)'
      /\ mem'[c][b] = Zeroed
      /\ \A e \in Chunk : e # c => /\ mem'[e] = mem[e]
                                   /\ next_block'[e] = next_block[e]
                                   /\ OwnedIn(e)' = OwnedIn(e)
  <2>1. Ptr(0) # Null
    OBVIOUS
  <2>2. QED BY <1>1, <1>2, <1>5, <1>6, <2>1, HandOutOK
<1> HIDE DEF b
<1>8. TypeOK'
  BY <1>1, <1>2, <1>3, <1>7, TypeFacts DEF TypeOK, Seg
<1>9. \A d \in Chained' : ChunkOK(d)'
  BY <1>1, <1>2, <1>3, <1>7, ChunkUnchanged
<1>10. ClientOK'
  BY <1>1, <1>3, <1>7 DEF ClientOK
<1>11. Chained' \subseteq mapped'
  BY <1>1, <1>2, <1>3
<1>12. \A h \in owned : mem'[h[1]][h[2]] = mem[h[1]][h[2]]
  <2>1. \A h \in owned : h[1] \in Chunk /\ h[1] # c
    BY <1>1, <1>2, TypeFacts DEF Handle, ClientOK
  <2>2. QED BY <1>7, <2>1
<1>13. Served(c, b)
  BY <1>7, <1>12 DEF Served
<1>14. QED BY <1>7, <1>8, <1>9, <1>10, <1>11, <1>13 DEF PoolInv

\* A write of the client in a block it holds preserves the invariant.
LEMMA InvWrite ==
    ASSUME BlockWords >= 2, PoolInv, NEW h \in owned, NEW w \in Word, NEW v \in Data,
           Write(h, w, v)
    PROVE  PoolInv'
<1>1. TypeOK /\ UsageOK /\ ClientOK /\ Chained \subseteq mapped /\ \A d \in Chained : ChunkOK(d)
  BY DEF PoolInv
<1>2. PICK c \in Chunk, b \in Block : h = <<c, b>> /\ b \in OwnedIn(c)
  BY <1>1, HandleFacts
<1>3. /\ mem' = [mem EXCEPT ![c][b][w] = v]
      /\ UNCHANGED <<chain, next_block, user_usage, alloc_usage, mapped, owned>>
  BY <1>2 DEF Write
<1>4. /\ mem[c] \in Seg /\ mem[c][b] \in [Word -> Nat] /\ b \in Slot
      /\ v \in Nat /\ Chained \subseteq Chunk
  BY <1>1, TypeFacts, PoolAssumption DEF Seg, Slot, Chained
<1>5. /\ mem' \in [Chunk -> Seg]
      /\ \A d \in Block : d # b => mem'[c][d] = mem[c][d]
      /\ \A e \in Chunk : e # c => mem'[e] = mem[e]
  <2> DEFINE seg == [mem[c] EXCEPT ![b][w] = v]
  <2>1. seg \in Seg /\ \A d \in Block : d # b => seg[d] = mem[c][d]
    BY <1>4 DEF Seg, Slot
  <2>2. mem' = [mem EXCEPT ![c] = seg]
    BY <1>3
  <2> HIDE DEF seg
  <2>3. QED BY <1>1, <2>1, <2>2, TypeFacts
<1>6. Chained' = Chained /\ \A e \in Chunk : OwnedIn(e)' = OwnedIn(e)
  BY <1>3 DEF Chained, OwnedIn
<1>7. TypeOK'
  BY <1>1, <1>3, <1>5, TypeFacts DEF TypeOK, Seg
<1>8. ChunkOK(c) => ChunkOK(c)'
  <2>1. mem'[c] \in Seg /\ \A d \in Block : d \notin OwnedIn(c) => mem'[c][d] = mem[c][d]
    BY <1>2, <1>5
  <2> SUFFICES ASSUME NEW fl \in Seq(Block),
                      SoundList(mem[c], next_block[c], OwnedIn(c), fl),
                      AllAligned => Covers(mem[c], fl, OwnedIn(c))
               PROVE  /\ SoundList(mem'[c], next_block[c], OwnedIn(c), fl)
                      /\ AllAligned => Covers(mem'[c], fl, OwnedIn(c))
    BY <1>3, <1>6 DEF ChunkOK
  <2>2. QED BY <1>4, <2>1, FrameSound
<1>9. \A d \in Chained' : ChunkOK(d)'
  BY <1>1, <1>3, <1>4, <1>5, <1>6, <1>8, ChunkUnchanged
<1>10. ClientOK' /\ UsageOK' /\ Chained' \subseteq mapped'
  BY <1>1, <1>3, <1>6 DEF ClientOK, UsageOK
<1>11. QED BY <1>7, <1>9, <1>10 DEF PoolInv

\* mpool_free changes no word of a block that stays held.
LEMMA InvFree ==
    ASSUME BlockWords >= 2, PoolInv, NEW h \in owned, Free(h)
    PROVE  PoolInv' /\ \A g \in owned' : mem'[g[1]][g[2]] = mem[g[1]][g[2]]
<1>1. TypeOK /\ UsageOK /\ ClientOK /\ Chained \subseteq mapped /\ \A d \in Chained : ChunkOK(d)
  BY DEF PoolInv
<1>2. PICK c \in Chunk, b \in Block : h = <<c, b>> /\ b \in OwnedIn(c) /\ c \in Chained
  BY <1>1, HandleFacts DEF ClientOK
<1>3. owned' = owned \ {<<c, b>>} /\ mapped' = mapped /\ chain' = chain
      /\ alloc_usage' = alloc_usage /\ Chained' = Chained
  BY <1>2 DEF Free, pool, Chained
<1>4. /\ IsFiniteSet(owned') /\ Cardinality(owned) \in Nat
      /\ Cardinality(owned') = Cardinality(owned) - 1 /\ Cardinality(owned) > 0
  <2>1. <<c, b>> \in owned
    BY <1>2
  <2>2. IsFiniteSet(owned') /\ Cardinality(owned') = Cardinality(owned) - 1
    BY <1>1, <1>3, <2>1, FS_RemoveElement DEF UsageOK
  <2>3. Cardinality(owned) \in Nat /\ Cardinality(owned') \in Nat
    BY <1>1, <2>2, FS_CardinalityType DEF UsageOK
  <2>4. QED BY <2>2, <2>3
<1>5. /\ OwnedIn(c)' = OwnedIn(c) \ {b}
      /\ \A e \in Chunk : e # c => OwnedIn(e)' = OwnedIn(e)
  BY <1>3 DEF OwnedIn
<1>6. \A g \in owned' : g \in owned /\ (g[1] = c => g[2] # b) /\ g[1] \in Chunk /\ g[2] \in Block
  BY <1>1, <1>3, HandleFacts
<1>7. mem[c] \in Seg /\ Chained \subseteq Chunk /\ OwnedIn(c) \in SUBSET Block
      /\ next_block[c] \in Nat
  BY <1>1, TypeFacts DEF Chained, OwnedIn
<1>8. CASE Aligned(h)
  <2> DEFINE seg == MarkAvail(mem[c], b, next_block[c])
  <2>1. /\ mem' = [mem EXCEPT ![c] = seg]
        /\ next_block' = [next_block EXCEPT ![c] = Ptr(b)]
        /\ user_usage' = user_usage - 1
    BY <1>1, <1>2, <1>8, TypeFacts DEF Free
  <2>2. seg \in Seg /\ \A d \in Block : d # b => seg[d] = mem[c][d]
    <3>1. Block \subseteq Slot
      BY DEF Slot
    <3>2. PICK m \in Seg, head \in Nat : m = mem[c] /\ head = next_block[c]
      BY <1>7
    <3>3. /\ MarkAvail(m, b, head) \in Seg
          /\ \A d \in Slot : d # b => MarkAvail(m, b, head)[d] = m[d]
      BY <3>2, MarkAvailFacts
    <3>4. QED BY <3>1, <3>2, <3>3
  <2>3. ChunkOK(c)'
    <3>1. PICK fl \in Seq(Block) : /\ SoundList(mem[c], next_block[c], OwnedIn(c), fl)
                                   /\ AllAligned => Covers(mem[c], fl, OwnedIn(c))
      BY <1>1, <1>2 DEF ChunkOK
    <3>2. PICK fl2 \in Seq(Block) :
             /\ SoundList(seg, Ptr(b), OwnedIn(c) \ {b}, fl2)
             /\ Covers(mem[c], fl, OwnedIn(c)) => Covers(seg, fl2, OwnedIn(c) \ {b})
      BY <1>2, <1>7, <3>1, PushSound
    <3>3. mem'[c] = seg /\ next_block'[c] = Ptr(b)
      <4> HIDE DEF seg
      <4>1. QED BY <1>1, <2>1, TypeFacts
    <3> HIDE DEF seg
    <3>4. QED BY <1>5, <3>1, <3>2, <3>3 DEF ChunkOK
  <2> HIDE DEF seg
  <2>4. /\ mem' \in [Chunk -> Seg]
        /\ next_block' \in [Chunk -> Nat]
        /\ \A e \in Chunk : e # c => mem'[e] = mem[e] /\ next_block'[e] = next_block[e]
        /\ mem'[c] = seg
    <3>1. Ptr(b) \in Nat
      BY BlockFacts
    <3>2. QED BY <1>1, <2>1, <2>2, <3>1, TypeFacts
  <2>5. user_usage' \in Nat /\ UsageOK'
    BY <1>1, <1>4, <2>1, TypeFacts DEF UsageOK
  <2>6. TypeOK'
    <3>1. owned' \in SUBSET Handle
      BY <1>1, <1>3, TypeFacts
    <3>2. QED BY <1>1, <1>3, <2>4, <2>5, <3>1, TypeFacts DEF TypeOK, Seg
  <2>7. \A d \in Chained' : ChunkOK(d)'
    BY <1>1, <1>3, <1>5, <1>7, <2>3, <2>4, ChunkUnchanged
  <2>8. ClientOK'
    BY <1>1, <1>3 DEF ClientOK
  <2>9. \A g \in owned' : mem'[g[1]][g[2]] = mem[g[1]][g[2]]
    BY <1>6, <2>2, <2>4
  <2>10. QED BY <1>1, <1>3, <2>5, <2>6, <2>7, <2>8, <2>9 DEF PoolInv
<1>9. CASE ~Aligned(h)
  <2>1. UNCHANGED <<mem, next_block, user_usage>>
    BY <1>9 DEF Free, pool
  <2>2. ~AllAligned
    <3>1. h \in Handle
      BY <1>1, TypeFacts
    <3>2. QED BY <1>9, <3>1 DEF AllAligned
  <2>3. ChunkOK(c)'
    <3>1. PICK fl \in Seq(Block) : SoundList(mem[c], next_block[c], OwnedIn(c), fl)
      BY <1>1, <1>2 DEF ChunkOK
    <3>2. SoundList(mem[c], next_block[c], OwnedIn(c) \ {b}, fl)
      BY <3>1 DEF SoundList
    <3>3. QED BY <1>5, <2>1, <2>2, <3>2 DEF ChunkOK
  <2>4. \A d \in Chained' : ChunkOK(d)'
    BY <1>1, <1>3, <1>5, <1>7, <2>1, <2>3, ChunkUnchanged
  <2>5. TypeOK'
    BY <1>1, <1>3, <2>1, TypeFacts DEF TypeOK, Seg
  <2>6. UsageOK'
    BY <1>1, <1>4, <2>1, TypeFacts DEF UsageOK
  <2>7. ClientOK'
    BY <1>1, <1>3 DEF ClientOK
  <2>8. QED BY <1>1, <1>3, <2>1, <2>4, <2>5, <2>6, <2>7 DEF PoolInv
<1>10. QED BY <1>8, <1>9

\* mpool_clear preserves the invariant.
LEMMA InvClear == ASSUME BlockWords >= 2, PoolInv, Clear PROVE PoolInv'
<1>1. TypeOK /\ Chained \subseteq mapped
  BY DEF PoolInv
<1>2. chain # <<>> /\ chain' = <<chain[1]>> /\ mapped' = mapped /\ owned' = {}
      /\ user_usage' = user_usage /\ alloc_usage' = alloc_usage
  BY DEF Clear
<1>3. chain[1] \in Chunk /\ chain[1] \in Chained /\ Chained \subseteq Chunk
  <2>1. 1 \in DOMAIN chain
    BY <1>1, <1>2, TypeFacts
  <2>2. QED BY <1>1, <2>1, TypeFacts DEF Chained
<1>4. chain' \in Seq(Chunk) /\ Chained' = {chain[1]}
  BY <1>2, <1>3 DEF Chained
<1>5. ASSUME NEW c \in Chunk, c \in Chained
      PROVE  /\ mem'[c] = InitSeg(mem[c]) /\ next_block'[c] = Ptr(0)
             /\ mem[c] \in Seg /\ mem'[c] \in Seg
  <2>1. mem[c] \in Seg
    BY <1>1, TypeFacts
  <2>2. QED BY <1>5, <2>1, InitSegFacts DEF Clear
<1>6. mem' \in [Chunk -> Seg] /\ next_block' \in [Chunk -> Nat]
  <2>1. ASSUME NEW c \in Chunk PROVE mem'[c] \in Seg /\ next_block'[c] \in Nat
    BY <1>1, <1>5, TypeFacts DEF Clear
  <2>2. QED BY <2>1 DEF Clear
<1>7. TypeOK'
  BY <1>1, <1>2, <1>4, <1>6, TypeFacts DEF TypeOK, Seg
<1>8. ASSUME NEW c \in Chunk, c \in Chained PROVE ChunkOK(c)'
  <2>1. OwnedIn(c)' = {}
    BY <1>2 DEF OwnedIn
  <2>2. QED BY <1>5, <1>8, <2>1, ChunkInitialised
<1>9. \A c \in Chained' : ChunkOK(c)'
  BY <1>3, <1>4, <1>8
<1>10. UsageOK' /\ ClientOK'
  BY <1>1, <1>2, FS_EmptySet, TypeFacts DEF UsageOK, ClientOK
<1>11. QED BY <1>1, <1>2, <1>3, <1>4, <1>7, <1>9, <1>10 DEF PoolInv

\* mpool_del preserves the invariant.
LEMMA InvDel == ASSUME BlockWords >= 2, PoolInv, Del PROVE PoolInv'
<1>1. TypeOK
  BY DEF PoolInv
<1>2. chain' = <<>> /\ mapped' \subseteq mapped /\ owned' = {}
      /\ user_usage' = 0 /\ alloc_usage' = 0
  BY DEF Del
<1>3. chain' \in Seq(Chunk) /\ Chained' = {}
  BY <1>2 DEF Chained
<1>4. mem' \in [Chunk -> Seg] /\ next_block' \in [Chunk -> Nat]
  BY <1>1, FreshType, TypeFacts DEF Del
<1>5. TypeOK'
  BY <1>1, <1>2, <1>3, <1>4, TypeFacts DEF TypeOK, Seg
<1>6. UsageOK'
  BY <1>2, FS_EmptySet DEF UsageOK
<1>7. QED BY <1>2, <1>3, <1>5, <1>6 DEF PoolInv, ClientOK

\* Every step of the pool and its client preserves the invariant.
LEMMA InvStep == ASSUME BlockWords >= 2, PoolInv, [Next]_vars PROVE PoolInv'
<1>1. ASSUME NEW c \in Chunk, InitPool(c) PROVE PoolInv'
  BY <1>1, InvInitPool
<1>2. ASSUME NEW c \in Chunk, AllocFromNewChunk(c) PROVE PoolInv'
  BY <1>2, InvAllocFromNewChunk
<1>3. ASSUME NEW i \in DOMAIN chain, AllocFromChunk(i) PROVE PoolInv'
  BY <1>3, InvAllocFromChunk
<1>4. ASSUME NEW h \in owned, NEW w \in Word, NEW v \in Data, Write(h, w, v) PROVE PoolInv'
  BY <1>4, InvWrite
<1>5. ASSUME NEW h \in owned, Free(h) PROVE PoolInv'
  BY <1>5, InvFree
<1>6. CASE Clear
  BY <1>6, InvClear
<1>7. CASE Del
  BY <1>7, InvDel
<1>8. CASE UNCHANGED vars
  BY <1>8 DEF vars, PoolInv, TypeOK, Chained, ClientOK, ChunkOK, OwnedIn, UsageOK
<1>9. QED BY <1>1, <1>2, <1>3, <1>4, <1>5, <1>6, <1>7, <1>8 DEF Next

\* The strengthened invariant of the pool, of which the properties are parts:
\* each linked chunk has a sound free list, the client holds blocks of linked
\* chunks only, and the usage counter covers what it holds.
THEOREM PoolInvariant == ASSUME BlockWords >= 2 PROVE Spec => []PoolInv
<1>1. Init => PoolInv
  BY InvInit
<1>2. PoolInv /\ [Next]_vars => PoolInv'
  BY InvStep
<1>3. QED BY <1>1, <1>2, PTL DEF Spec

\* Every variable of the pool keeps its type: in particular no free drives the
\* usage counter below zero and no block beyond the chunk's end is handed out.
THEOREM TypeCorrect == ASSUME BlockWords >= 2 PROVE Spec => []TypeOK
<1>1. PoolInv => TypeOK
  BY DEF PoolInv
<1>2. QED BY <1>1, PoolInvariant, PTL

\* total_user_memory_usage never understates what the client holds.
THEOREM UsageSafe == ASSUME BlockWords >= 2 PROVE Spec => []UsageCoversOwned
<1>1. PoolInv => UsageCoversOwned
  BY DEF PoolInv, UsageOK, UsageCoversOwned
<1>2. QED BY <1>1, PoolInvariant, PTL

\* A list of distinct blocks is no longer than the chunk has blocks.
LEMMA ListIsShort ==
    ASSUME NEW fl \in Seq(Block), \A i, j \in 1..Len(fl) : i # j => fl[i] # fl[j]
    PROVE  fl \in FreeLists
<1>1. IsFiniteSet(Block)
  <2>1. IsFiniteSet(0..ChunkWords)
    BY FS_Interval, PoolAssumption
  <2>2. Block \subseteq 0..ChunkWords
    BY DEF Block
  <2>3. QED BY <2>1, <2>2, FS_Subset
<1>2. Cardinality(Block) \in Nat
  BY <1>1, FS_CardinalityType
<1>3. Len(fl) \in Nat /\ fl \in [1..Len(fl) -> Block]
  OBVIOUS
<1>4. IsFiniteSet(1..Len(fl)) /\ Cardinality(1..Len(fl)) = Len(fl)
  BY <1>3, FS_Interval
<1>5. Len(fl) <= Cardinality(Block)
  <2> SUFFICES ASSUME Len(fl) > Cardinality(Block) PROVE FALSE
    BY <1>2, <1>3
  <2>1. \E i, j \in 1..Len(fl) : i # j /\ fl[i] = fl[j]
    BY <1>1, <1>2, <1>3, <1>4, FS_PigeonHole
  <2>2. QED BY <2>1
<1>6. Len(fl) \in 0..Cardinality(Block)
  BY <1>2, <1>3, <1>5
<1>7. QED BY <1>3, <1>6 DEF FreeLists

\* No order of allocs, frees, writes and clears makes the links kept inside the
\* blocks loop, or reach a block that the client holds.
THEOREM FreeListsSafe == ASSUME BlockWords >= 2 PROVE Spec => []FreeListSound
<1>1. ASSUME PoolInv, NEW c \in Chained
      PROVE  \E fl \in FreeLists : SoundList(mem[c], next_block[c], OwnedIn(c), fl)
  <2>1. PICK fl \in Seq(Block) : SoundList(mem[c], next_block[c], OwnedIn(c), fl)
    BY <1>1 DEF PoolInv, ChunkOK
  <2>2. fl \in FreeLists
    BY <2>1, ListIsShort DEF SoundList, IsFreeList
  <2>3. QED BY <2>1, <2>2
<1>2. PoolInv => FreeListSound
  BY <1>1 DEF FreeListSound
<1>3. QED BY <1>2, PoolInvariant, PTL

\* When block_size divides every block's address no block is ever lost: each is
\* held or free.
THEOREM NoBlockLost ==
    ASSUME BlockWords >= 2, AllAligned PROVE Spec => []EveryBlockFreeOrOwned
<1>1. ASSUME PoolInv, NEW c \in Chained
      PROVE  \E fl \in FreeLists : /\ SoundList(mem[c], next_block[c], OwnedIn(c), fl)
                                   /\ FreeSet(mem[c], fl) \cup OwnedIn(c) = Block
  <2>1. PICK fl \in Seq(Block) : /\ SoundList(mem[c], next_block[c], OwnedIn(c), fl)
                                 /\ Covers(mem[c], fl, OwnedIn(c))
    BY <1>1 DEF PoolInv, ChunkOK
  <2>2. fl \in FreeLists
    BY <2>1, ListIsShort DEF SoundList, IsFreeList
  <2>3. QED BY <2>1, <2>2 DEF Covers
<1>2. PoolInv => EveryBlockFreeOrOwned
  BY <1>1 DEF EveryBlockFreeOrOwned
<1>3. QED BY <1>2, PoolInvariant, PTL

\* With every block aligned, mpool_alloc maps a chunk only when each block of
\* each linked chunk is held.
THEOREM GrowthOnlyWhenFull ==
    ASSUME BlockWords >= 2, AllAligned PROVE Spec => GrowsOnlyWhenFull
<1> DEFINE Grows == Len(chain') > Len(chain) => Chained \X Block \subseteq owned
<1>1. ASSUME PoolInv, NEW c \in Chunk, AllocFromNewChunk(c) PROVE Grows
  <2>1. ASSUME NEW d \in Chained, NEW b \in Block PROVE <<d, b>> \in owned
    <3>1. next_block[d] = Null
      BY <1>1 DEF AllocFromNewChunk, Chained
    <3>2. PICK fl \in Seq(Block) : /\ SoundList(mem[d], next_block[d], OwnedIn(d), fl)
                                   /\ Covers(mem[d], fl, OwnedIn(d))
      BY <1>1 DEF PoolInv, ChunkOK
    <3>3. Len(fl) = 0
      <4>1. next_block[d] = IF Len(fl) = 0 THEN Null ELSE Ptr(fl[1])
        BY <3>2 DEF SoundList, IsFreeList
      <4>2. Len(fl) > 0 => fl[1] \in Nat
        BY SeqFacts
      <4>3. Len(fl) \in Nat
        BY SeqFacts
      <4>4. QED BY <3>1, <4>1, <4>2, <4>3
    <3>4. FreeSet(mem[d], fl) = {}
      BY <3>3 DEF FreeSet, Listed, VirginTail
    <3>5. QED BY <3>2, <3>4 DEF Covers, OwnedIn
  <2>2. QED BY <2>1
<1>2. ASSUME PoolInv, NEW c \in Chunk, InitPool(c) PROVE Grows
  BY <1>2 DEF InitPool, Chained
<1>3. ASSUME PoolInv, Clear PROVE Grows
  <2>1. Len(chain) \in Nat /\ Len(chain) >= 1
    BY <1>3, TypeFacts DEF PoolInv, Clear
  <2>2. Len(chain') = 1
    BY <1>3 DEF Clear
  <2>3. QED BY <2>1, <2>2
<1>4. ASSUME PoolInv, Del PROVE Grows
  <2>1. Len(chain) \in Nat /\ Len(chain') = 0
    BY <1>4, TypeFacts DEF PoolInv, Del
  <2>2. QED BY <2>1
<1>5. ASSUME PoolInv, UNCHANGED chain PROVE Grows
  <2>1. Len(chain) \in Nat
    BY <1>5, TypeFacts DEF PoolInv
  <2>2. QED BY <1>5, <2>1
<1>6. ASSUME PoolInv, [Next]_vars PROVE Grows
  <2>1. ASSUME NEW i \in DOMAIN chain, AllocFromChunk(i) PROVE UNCHANGED chain
    BY <2>1 DEF AllocFromChunk
  <2>2. ASSUME NEW h \in owned, NEW w \in Word, NEW v \in Data, Write(h, w, v)
        PROVE  UNCHANGED chain
    BY <2>2 DEF Write
  <2>3. ASSUME NEW h \in owned, Free(h) PROVE UNCHANGED chain
    BY <2>3 DEF Free, pool
  <2>4. UNCHANGED vars => UNCHANGED chain
    BY DEF vars
  <2> HIDE DEF Grows
  <2>5. QED BY <1>1, <1>2, <1>3, <1>4, <1>5, <1>6, <2>1, <2>2, <2>3, <2>4 DEF Next
<1>7. PoolInv /\ [Next]_vars => [Grows]_vars
  BY <1>6
<1>8. QED BY <1>7, PoolInvariant, PTL DEF Spec, GrowsOnlyWhenFull

-----------------------------------------------------------------------------
(* The pool implements the block store.                                    *)

\* The abstract store of a pool state.
Abs == [h \in owned |-> [w \in Word |-> mem[h[1]][h[2]][w]]]

\* A block handed out is an abstract allocation.
LEMMA ServedRefines ==
    ASSUME NEW c, NEW b, Served(c, b)
    PROVE  Client!Alloc(<<c, b>>) /\ <<c, b>> \in Handle
<1>1. c \in Chunk /\ b \in Block /\ <<c, b>> \notin owned /\ owned' = owned \cup {<<c, b>>}
      /\ mem'[c][b] = Zeroed /\ \A h \in owned : mem'[h[1]][h[2]] = mem[h[1]][h[2]]
  BY DEF Served
<1>2. Abs' = [g \in owned \cup {<<c, b>>} |->
                IF g = <<c, b>> THEN Client!Zeroed ELSE Abs[g]]
  <2>1. ASSUME NEW g \in owned'
        PROVE  [w \in Word |-> mem'[g[1]][g[2]][w]]
                 = IF g = <<c, b>> THEN Client!Zeroed ELSE Abs[g]
    <3>1. CASE g = <<c, b>>
      <4>1. mem'[g[1]][g[2]] = Zeroed
        BY <1>1, <3>1
      <4>2. QED BY <3>1, <4>1 DEF Zeroed, Client!Zeroed
    <3>2. CASE g # <<c, b>>
      BY <1>1, <2>1, <3>2 DEF Abs
    <3>3. QED BY <3>1, <3>2
  <2>2. QED BY <1>1, <2>1 DEF Abs
<1>3. DOMAIN Abs = owned
  BY DEF Abs
<1>4. QED BY <1>1, <1>2, <1>3 DEF Client!Alloc, Handle, Abs

\* A write of the client is an abstract write.
LEMMA WriteRefines ==
    ASSUME PoolInv, NEW h \in owned, NEW w \in Word, NEW v \in Data, Write(h, w, v)
    PROVE  Client!Write(h, w, v)
<1>1. TypeOK
  BY DEF PoolInv
<1>2. mem' = [mem EXCEPT ![h[1]][h[2]][w] = v] /\ owned' = owned
  BY DEF Write
<1>3. \A g \in owned : /\ g[1] \in Chunk /\ g[2] \in Slot /\ g = <<g[1], g[2]>>
                       /\ mem[g[1]][g[2]] \in [Word -> Nat]
                       /\ mem[g[1]] \in Seg
  <2>1. \A g \in owned : g[1] \in Chunk /\ g[2] \in Slot /\ g = <<g[1], g[2]>>
    BY <1>1, HandleFacts DEF Slot
  <2>2. QED BY <1>1, <2>1, TypeFacts DEF Seg
<1>4. \A g \in owned, x \in Word :
         mem'[g[1]][g[2]][x] = IF g = h /\ x = w THEN v ELSE mem[g[1]][g[2]][x]
  BY <1>1, <1>2, <1>3, TypeFacts DEF Seg
<1>5. Abs' = [Abs EXCEPT ![h][w] = v]
  <2>1. ASSUME NEW g \in owned
        PROVE  [x \in Word |-> mem'[g[1]][g[2]][x]]
                 = IF g = h THEN [Abs[h] EXCEPT ![w] = v] ELSE Abs[g]
    BY <1>4 DEF Abs
  <2>2. Abs' = [g \in owned |-> IF g = h THEN [Abs[h] EXCEPT ![w] = v] ELSE Abs[g]]
    BY <1>2, <2>1 DEF Abs
  <2>3. DOMAIN Abs = owned /\ Abs = [g \in owned |-> Abs[g]]
    BY DEF Abs
  <2> HIDE DEF Abs
  <2>4. QED BY <2>2, <2>3
<1>6. QED BY <1>5 DEF Client!Write, Abs

\* mpool_free is an abstract free.
LEMMA FreeRefines ==
    ASSUME BlockWords >= 2, PoolInv, NEW h \in owned, Free(h)
    PROVE  Client!Free(h)
<1>1. owned' = owned \ {h}
  BY DEF Free
<1>2. \A g \in owned' : mem'[g[1]][g[2]] = mem[g[1]][g[2]]
  BY InvFree
<1>3. QED BY <1>1, <1>2 DEF Client!Free

\* Taking every block back is an abstract reset.
LEMMA ResetRefines == ASSUME owned' = {} PROVE Client!Reset
BY DEF Client!Reset, Client!Empty

\* The pool implements the abstract store: blocks are handed out zeroed and to
\* one holder at a time, and whatever the allocator writes in the headers it
\* keeps inside the blocks, a holder finds in its block what it wrote there.
THEOREM PoolRefinesBlockStore == ASSUME BlockWords >= 2 PROVE Spec => RefinesBlockStore
<1>1. Init => Client!Init
  BY DEF Init, Client!Init, Client!Empty
<1>2. ASSUME PoolInv, [Next]_vars PROVE [Client!Next]_Abs
  <2>1. ASSUME NEW c \in Chunk, InitPool(c) PROVE UNCHANGED Abs
    <3>1. owned = {}
      BY <1>2, <2>1, HandleFacts DEF PoolInv, ClientOK, InitPool, Chained
    <3>2. QED BY <2>1, <3>1 DEF InitPool, Abs
  <2>2. ASSUME NEW c \in Chunk, AllocFromNewChunk(c) PROVE Client!Next
    BY <1>2, <2>2, InvAllocFromNewChunk, ServedRefines DEF Client!Next
  <2>3. ASSUME NEW i \in DOMAIN chain, AllocFromChunk(i) PROVE Client!Next
    BY <1>2, <2>3, InvAllocFromChunk, ServedRefines DEF Client!Next
  <2>4. ASSUME NEW h \in owned, NEW w \in Word, NEW v \in Data, Write(h, w, v)
        PROVE  Client!Next
    <3>1. h \in Handle
      BY <1>2, TypeFacts DEF PoolInv
    <3>2. QED BY <1>2, <2>4, <3>1, WriteRefines DEF Client!Next
  <2>5. ASSUME NEW h \in owned, Free(h) PROVE Client!Next
    <3>1. h \in Handle
      BY <1>2, TypeFacts DEF PoolInv
    <3>2. QED BY <1>2, <2>5, <3>1, FreeRefines DEF Client!Next
  <2>6. CASE Clear
    BY <2>6, ResetRefines DEF Clear, Client!Next
  <2>7. CASE Del
    BY <2>7, ResetRefines DEF Del, Client!Next
  <2>8. CASE UNCHANGED vars
    BY <2>8 DEF vars, Abs
  <2>9. QED BY <1>2, <2>1, <2>2, <2>3, <2>4, <2>5, <2>6, <2>7, <2>8 DEF Next
<1>3. QED BY <1>1, <1>2, PoolInvariant, PTL DEF Spec, RefinesBlockStore, Client!Spec, Abs
=============================================================================

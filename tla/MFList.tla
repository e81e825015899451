------------------------------- MODULE MFList -------------------------------
(***************************************************************************)
(* The free-list allocator of dpcrt_allocators.c and its client.  A chunk  *)
(* is cut into blocks, each a header and a payload; the list keeps a chain *)
(* of chunks for each category of request sizes, and one more for requests *)
(* that get a chunk of their own.  Sizes and addresses count machine words *)
(* of eight bytes: the header of a chunk is its two links, then the rest.  *)
(***************************************************************************)
EXTENDS Naturals, Sequences, FiniteSets

CONSTANTS Chunk,       \* addresses that mmap may return
          CategSize,   \* the chunk size of each category but the last
          ChunkHeader, \* sizeof(MFListChunk)
          BlockHeader, \* sizeof(MFListBlock)
          NextChunkAt, \* offsetof(MFListChunk, next_chunk)
          Page,        \* what a chunk of its own is rounded up to
          Share,       \* a request may take one such part of a chunk
          LeastPart,   \* and what is left is a block only above this part
          KeepLimit,   \* the 64 KB up to which mflist_clear keeps a chunk
          Length,      \* the lengths the client asks for
          Data,        \* what it writes in a byte
          Junk,        \* what a byte of a header holds, to the client
          ClearsLarge, \* bound: the client clears a list with large chunks
          MaxUsage     \* bound: the client allocates up to this user_usage

ASSUME ListAssumption ==
    /\ Chunk \subseteq Nat
    /\ CategSize \in Seq(Nat \ {0})
    /\ ChunkHeader \in Nat \ {0} /\ BlockHeader \in Nat \ {0} /\ NextChunkAt \in Nat
    /\ BlockHeader <= ChunkHeader \* no more than the links of a chunk
    /\ BlockHeader <= NextChunkAt + 2 \* is where a block of another overhangs
    /\ Page \in Nat \ {0} /\ Share \in Nat \ {0} /\ LeastPart \in Nat \ {0}
    /\ KeepLimit \in Nat
    /\ Length \subseteq Nat \ {0}
    /\ Data \subseteq Nat /\ Junk \in Nat
    /\ ClearsLarge \in BOOLEAN /\ MaxUsage \in Nat

VARIABLES chunks,      \* the chunks linked in each category, in order
          info,        \* the header and the blocks of each chunk mapped
          mem,         \* and its bytes
          user_usage,  \* total_user_memory_usage
          alloc_usage, \* total_allocator_memory_usage
          live         \* the client's: the length it asked for, by address

vars == <<chunks, info, mem, user_usage, alloc_usage, live>>

-----------------------------------------------------------------------------
RoundUp(n, a) == ((n + a - 1) \div a) * a

\* The size that mflist_alloc1 makes of a request.
AllocSize(n) == RoundUp(n + BlockHeader, BlockHeader)

Categ == 1..(Len(CategSize) + 1)

More == Len(CategSize) + 1

\* mflist__get_chunk_requirements
Needed(size) == size + ChunkHeader + BlockHeader

Suits(k, size) == k = More \/ Needed(size) * Share <= CategSize[k]

CategOf(size) ==
    CHOOSE k \in Categ : Suits(k, size) /\ \A j \in 1..(k - 1) : ~Suits(j, size)

ChunkSize(size) ==
    IF CategOf(size) = More THEN RoundUp(Needed(size), Page) ELSE CategSize[CategOf(size)]

-----------------------------------------------------------------------------
(* A chunk: blocks in the order of their addresses, by offset.             *)

\* mflist__get_first_block_from_chunk aligns the address and not the offset,
\* and mflist__init_chunk takes no account of it in the size.
FirstAt(c) == RoundUp(c + ChunkHeader, BlockHeader) - c

FirstBlock(c, size) ==
    [at |-> FirstAt(c), size |-> size - ChunkHeader - BlockHeader, avail |-> TRUE]

NewChunk(c, k, size) ==
    [categ  |-> k,
     size   |-> size,
     max    |-> size - ChunkHeader - BlockHeader,
     blocks |-> <<FirstBlock(c, size)>>]

\* mflist__next_block, as the offset it finds.
NextAt(chunk, block) ==
    LET at == block.at + BlockHeader + block.size
    IN  IF at + BlockHeader < chunk.size THEN {at} ELSE {}

Available(chunk) == {i \in DOMAIN chunk.blocks : chunk.blocks[i].avail}

Largest(S) == IF S = {} THEN 0 ELSE CHOOSE n \in S : \A m \in S : m <= n

\* The largest block available among those of I.
MaxAvail(blocks, I) == Largest({blocks[i].size : i \in {j \in I : blocks[j].avail}})

\* Mutants (Name_Bug): a bug of a line each, that a property must find.
Splits_Always(chunk, rest) == chunk.categ # More

\* mflist__suballoc_fork cuts the rest of a block off when it is large enough.
Splits(chunk, rest) ==
    chunk.categ # More /\ rest > BlockHeader /\ rest > chunk.size \div LeastPart

Split_Overlap(blocks, i, size) ==
    SubSeq(blocks, 1, i - 1)
      \o << [blocks[i] EXCEPT !.size = size, !.avail = FALSE],
            [at    |-> blocks[i].at + size,
             size  |-> blocks[i].size - size - BlockHeader,
             avail |-> TRUE] >>
      \o SubSeq(blocks, i + 1, Len(blocks))

Split(blocks, i, size) ==
    SubSeq(blocks, 1, i - 1)
      \o << [blocks[i] EXCEPT !.size = size, !.avail = FALSE],
            [at    |-> blocks[i].at + BlockHeader + size,
             size  |-> blocks[i].size - size - BlockHeader,
             avail |-> TRUE] >>
      \o SubSeq(blocks, i + 1, Len(blocks))

\* The block mflist_alloc1 finds in a chunk: the first that is large enough.
Found(chunk, size) ==
    CHOOSE i \in Available(chunk) :
        /\ chunk.blocks[i].size >= size
        /\ \A j \in Available(chunk) : j < i => chunk.blocks[j].size < size

BlocksAfter(chunk, size) ==
    LET i == Found(chunk, size)
    IN  IF Splits(chunk, chunk.blocks[i].size - size)
        THEN Split(chunk.blocks, i, size)
        ELSE [chunk.blocks EXCEPT ![i].avail = FALSE]

Larger(m, n) == IF m >= n THEN m ELSE n

Taken_RestNotScanned(chunk, size) ==
    LET i == Found(chunk, size)
    IN  [chunk EXCEPT !.blocks = BlocksAfter(chunk, size),
                      !.max = MaxAvail(chunk.blocks, 1..(i - 1))]

\* The chunk once the block is taken.  The maximum is computed anew on the way:
\* over the blocks passed by before the one found, in the chunk as it was, then
\* from that one on, in the chunk as mflist__suballoc_fork left it.
Taken(chunk, size) ==
    LET i     == Found(chunk, size)
        after == BlocksAfter(chunk, size)
    IN  [chunk EXCEPT !.blocks = after,
                      !.max = Larger(MaxAvail(chunk.blocks, 1..(i - 1)),
                                     MaxAvail(after, i..Len(after)))]

-----------------------------------------------------------------------------
(* Bytes.  The headers' are kept in `chunks' and `info': a cell of one is  *)
(* Junk to the client.  A block may overhang its chunk (see FirstAt), so   *)
(* that clearing it leaves the mapping.  What the list has mapped there is *)
(* cleared too; where it has nothing the process faults, or clears what is *)
(* not the list's.  memcpy never writes there, as a moved allocation has   *)
(* room for a header more than is copied; it may read there.               *)

Fill(bytes, from, n, v) ==
    [u \in DOMAIN bytes |-> IF u >= from /\ u < from + n THEN v ELSE bytes[u]]

\* memclr of n words from offset `from' of chunk c, in whatever chunk they are.
Cleared(bytes, c, from, n) ==
    [d \in DOMAIN bytes |->
        [u \in DOMAIN bytes[d] |->
            IF u >= ChunkHeader /\ d + u >= c + from /\ d + u < c + from + n
            THEN 0 ELSE bytes[d][u]]]

\* The chunks whose next_chunk it clears.
Unlinked(c, from, n) ==
    {d \in Chunk : d + NextChunkAt >= c + from /\ d + NextChunkAt < c + from + n}

\* The chunks that a walk of the chain still meets.
UpTo(chain, S) ==
    LET cleared == {i \in DOMAIN chain : chain[i] \in S}
    IN  IF cleared = {}
        THEN chain
        ELSE SubSeq(chain, 1, CHOOSE i \in cleared : \A j \in cleared : i <= j)

\* memcpy within a chunk or between two.
Copy(bytes, to, n, src, from) ==
    [u \in DOMAIN bytes |->
        IF u < to \/ u >= to + n THEN bytes[u]
        ELSE IF u - to + from \in DOMAIN src THEN src[u - to + from] ELSE Junk]

\* The bytes of a chunk with the headers of its blocks written in them.
Headed(bytes, blocks) ==
    [u \in DOMAIN bytes |->
        IF \E i \in DOMAIN blocks : u >= blocks[i].at /\ u < blocks[i].at + BlockHeader
        THEN Junk ELSE bytes[u]]

\* f with the value v at x, and without the domain S.
With(f, x, v) == [y \in DOMAIN f \cup {x} |-> IF y = x THEN v ELSE f[y]]

Without(f, S) == [y \in DOMAIN f \ S |-> f[y]]

-----------------------------------------------------------------------------
Init ==
    /\ chunks = [k \in Categ |-> <<>>]
    /\ info = [c \in {} |-> 0]
    /\ mem = [c \in {} |-> 0]
    /\ user_usage = 0
    /\ alloc_usage = 0
    /\ live = [h \in {} |-> 0]

Room(k, i, size) == info[chunks[k][i]].max >= size

\* mflist_alloc1 stops at the first chunk with room.
FindChunk(size, c) ==
    LET k == CategOf(size)
    IN  \E i \in DOMAIN chunks[k] : /\ c = chunks[k][i]
                                    /\ Room(k, i, size)
                                    /\ \A j \in 1..(i - 1) : ~Room(k, j, size)

Apart(c, m, d, n) == c + m <= d \/ d + n <= c

\* mflist__chain_new_chunk, mmap having succeeded (if it fails NULL is returned
\* and nothing changes).
ChainNewChunk(size, c) ==
    LET k == CategOf(size)
    IN  /\ \A i \in DOMAIN chunks[k] : ~Room(k, i, size)
        /\ c \notin DOMAIN info
        /\ \A d \in DOMAIN info : Apart(c, ChunkSize(size), d, info[d].size)

\* The chains with the chunk that mflist_alloc1 uses.
ChainsWith(size, c) ==
    IF c \in DOMAIN info THEN chunks ELSE [chunks EXCEPT ![CategOf(size)] = Append(@, c)]

ChunkBefore(size, c) ==
    IF c \in DOMAIN info THEN info[c] ELSE NewChunk(c, CategOf(size), ChunkSize(size))

BytesBefore(size, c) ==
    IF c \in DOMAIN mem
    THEN mem[c]
    ELSE [u \in 0..(ChunkSize(size) - 1) |-> IF u < ChunkHeader THEN Junk ELSE 0]

\* The bytes of chunk c once the headers of its blocks are written.
BytesAfter(size, c) ==
    Headed(BytesBefore(size, c), Taken(ChunkBefore(size, c), size).blocks)

\* The block that mflist_alloc1 takes for `size` bytes in chunk c.
BlockTaken(size, c) ==
    LET chunk == ChunkBefore(size, c)
    IN  Taken(chunk, size).blocks[Found(chunk, size)]

PayloadAt(block) == block.at + BlockHeader

\* mflist_alloc1 up to the contents, the next_chunk of `unlinked' being cleared
\* in the end.
Allocate(size, c, unlinked) ==
    /\ user_usage <= MaxUsage
    /\ FindChunk(size, c) \/ ChainNewChunk(size, c)
    /\ chunks' = [k \in Categ |-> UpTo(ChainsWith(size, c)[k], unlinked)]
    /\ alloc_usage' = alloc_usage + (IF c \in DOMAIN info THEN 0 ELSE ChunkSize(size))
    /\ info' = With(info, c, Taken(ChunkBefore(size, c), size))
    /\ user_usage' = user_usage + BlockTaken(size, c).size

\* mflist_alloc1
Alloc(n, zero, c) ==
    LET size  == AllocSize(n)
        block == BlockTaken(size, c)
        at    == PayloadAt(block)
        bytes == With(mem, c, BytesAfter(size, c))
    IN  /\ Allocate(size, c, IF zero THEN Unlinked(c, at, block.size) ELSE {})
        /\ mem' = IF zero THEN Cleared(bytes, c, at, block.size) ELSE bytes
        /\ live' = With(live, <<c, at>>, n)

\* The client fills what it asked for.
Write(h, v) ==
    /\ mem' = [mem EXCEPT ![h[1]] = Fill(@, h[2], live[h], v)]
    /\ UNCHANGED <<chunks, info, user_usage, alloc_usage, live>>

\* mflist__get_block_from_user_addr
BlockOf(h) ==
    LET blocks == info[h[1]].blocks
    IN  blocks[CHOOSE i \in DOMAIN blocks : PayloadAt(blocks[i]) = h[2]]

\* mflist_free asserts that the block is held, and mflist__free_block_and_merge
\* returns at once if it is.
Free(h) ==
    /\ ~BlockOf(h).avail
    /\ live' = Without(live, {h})
    /\ UNCHANGED <<chunks, info, mem, user_usage, alloc_usage>>

Keeps_AnySize(h, n) == info[h[1]].categ = CategOf(AllocSize(n))

\* mflist_realloc1 may keep the block.
Keeps(h, n) ==
    /\ info[h[1]].categ = CategOf(AllocSize(n))
    /\ BlockOf(h).size >= AllocSize(n)

\* mflist_realloc1 keeping the block and clearing it from offset `from' on.
InPlace(h, n, zero, from) ==
    LET rest == h[2] + BlockOf(h).size - from
    IN  /\ Keeps(h, n)
        /\ chunks' = IF zero
                     THEN [k \in Categ |-> UpTo(chunks[k], Unlinked(h[1], from, rest))]
                     ELSE chunks
        /\ mem' = IF zero THEN Cleared(mem, h[1], from, rest) ELSE mem
        /\ live' = With(live, h, n)
        /\ UNCHANGED <<info, user_usage, alloc_usage>>

ReallocInPlace_ClearsAll(h, n, zero) == InPlace(h, n, zero, h[2])

ReallocInPlace(h, n, zero) == InPlace(h, n, zero, h[2] + AllocSize(n))

Smaller(m, n) == IF m <= n THEN m ELSE n

\* Or it frees the block, to no effect, and moves what is in it to a new one.
ReallocMoved(h, n, zero, c) ==
    LET newsize == AllocSize(n)
        size    == AllocSize(newsize)
        block   == BlockTaken(size, c)
        at      == PayloadAt(block)
        from    == at + newsize
        rest    == block.size - newsize
        copied  == With(mem, c, Copy(BytesAfter(size, c), at,
                                     Smaller(newsize, BlockOf(h).size), mem[h[1]], h[2]))
    IN  /\ ~Keeps(h, n)
        /\ Allocate(size, c, IF zero THEN Unlinked(c, from, rest) ELSE {})
        /\ mem' = IF zero THEN Cleared(copied, c, from, rest) ELSE copied
        /\ live' = With(Without(live, {h}), <<c, at>>, n)

\* mflist__should_del_chunk
IsEmpty(chunk) == Len(chunk.blocks) = 1 /\ ~chunk.blocks[1].avail

ShouldDel(c) == info[c].size > KeepLimit \/ IsEmpty(info[c])

Linked(k) == {chunks[k][i] : i \in DOMAIN chunks[k]}

Chained == UNION {Linked(k) : k \in Categ}

\* mflist_clear.  A first chunk to be deleted is unmapped and stays the head of
\* its chain (the next one would be unlinked through it: a fault).  The others
\* are initialised one by one, and lose their links.
Clear ==
    LET deleted == {c \in Chained : ShouldDel(c)}
        Again(c) == NewChunk(c, info[c].categ, info[c].size)
    IN  /\ deleted # {} => ClearsLarge
        /\ \A k \in Categ : Linked(k) \cap deleted # {} => Len(chunks[k]) = 1
        /\ chunks' = [k \in Categ |-> SubSeq(chunks[k], 1, Smaller(1, Len(chunks[k])))]
        /\ info' = [c \in DOMAIN info \ deleted |-> IF c \in Chained THEN Again(c) ELSE info[c]]
        /\ mem' = [c \in DOMAIN info' |->
                     IF c \in Chained THEN Headed(mem[c], info'[c].blocks) ELSE mem[c]]
        /\ live' = Without(live, DOMAIN live)
        /\ UNCHANGED <<user_usage, alloc_usage>>

\* mflist_del
Del ==
    /\ chunks' = [k \in Categ |-> <<>>]
    /\ info' = Without(info, Chained)
    /\ mem' = Without(mem, Chained)
    /\ user_usage' = 0
    /\ alloc_usage' = 0
    /\ live' = Without(live, DOMAIN live)

Next ==
    \/ \E n \in Length, zero \in BOOLEAN, c \in Chunk : Alloc(n, zero, c)
    \/ \E h \in DOMAIN live, v \in Data : Write(h, v)
    \/ \E h \in DOMAIN live : Free(h)
    \/ \E h \in DOMAIN live, n \in Length, zero \in BOOLEAN : ReallocInPlace(h, n, zero)
    \/ \E h \in DOMAIN live, n \in Length, zero \in BOOLEAN, c \in Chunk :
            ReallocMoved(h, n, zero, c)
    \/ Clear
    \/ Del

Spec == Init /\ [][Next]_vars

-----------------------------------------------------------------------------
Cell == Data \cup {0, Junk}

Blocks == Seq([at : Nat, size : Nat, avail : BOOLEAN])

TypeOK ==
    /\ chunks \in [Categ -> Seq(Chunk)]
    /\ DOMAIN info \subseteq Chunk
    /\ \A c \in DOMAIN info :
          /\ info[c].categ \in Categ /\ info[c].size \in Nat /\ info[c].max \in Nat
          /\ info[c].blocks \in Blocks
    /\ DOMAIN mem = DOMAIN info
    /\ \A c \in DOMAIN mem : mem[c] \in [0..(info[c].size - 1) -> Cell]
    /\ user_usage \in Nat /\ alloc_usage \in Nat
    /\ \A h \in DOMAIN live : h[1] \in DOMAIN info /\ live[h] \in Length

\* "As long we are inside the chunk region the next block is given by" its size
\* (dpcrt_allocators.h): walking a chunk by mflist__next_block meets its blocks
\* one after the other and stops at the last.
BlocksTileChunk ==
    \A c \in DOMAIN info :
        LET blocks == info[c].blocks
        IN  /\ blocks[1].at = FirstAt(c)
            /\ \A i \in DOMAIN blocks :
                  NextAt(info[c], blocks[i]) =
                    IF i = Len(blocks) THEN {} ELSE {blocks[i + 1].at}

\* max_contiguous_block_size_avail, by which mflist_alloc1 skips a chunk or
\* trusts it to have a block, is the size of the largest block available.
MaxContiguousExact ==
    \A c \in DOMAIN info : info[c].max = MaxAvail(info[c].blocks, DOMAIN info[c].blocks)

\* What the client asked for lies inside a block of its own and inside the
\* mapping, although a chunk's blocks may reach beyond the chunk's end.
LiveInsideBlocks ==
    \A h \in DOMAIN live :
        /\ \E i \in DOMAIN info[h[1]].blocks :
              LET block == info[h[1]].blocks[i]
              IN  /\ ~block.avail
                  /\ PayloadAt(block) = h[2]
                  /\ live[h] <= block.size
        /\ h[2] + live[h] <= info[h[1]].size

\* The bytes the client sees at an address it holds.
Seen(h) == [i \in 0..(live[h] - 1) |-> mem[h[1]][h[2] + i]]

Client == INSTANCE ByteStore WITH store <- [h \in DOMAIN live |-> Seen(h)]

\* The list implements the abstract byte store: no header it writes, no block
\* it cuts, clears or copies touches a byte that the client holds elsewhere,
\* and a reallocation keeps what was there.
RefinesByteStore == Client!Spec

\* "Returns the merged blocks ... or if no merge happened returns the same block
\* passed" (mflist__free_block_and_merge): a block freed is available again,
\* unless its chunk is unmapped.
FreedIsAvailable ==
    [][\A h \in DOMAIN live :
          Free(h) /\ h[1] \in DOMAIN info' => BlockOf(h)'.avail]_vars
=============================================================================

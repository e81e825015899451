------------------------------- MODULE MPool -------------------------------
(***************************************************************************)
(* The fixed-block pool allocator of dpcrt_allocators.c (mpool_init_aux,   *)
(* mpool_alloc, mpool_free, mpool_clear, mpool_del) and its client.        *)
(*                                                                         *)
(* The pool keeps no table of free blocks: a free block stores in its own  *)
(* first two words, the payload the client will be given, the flag         *)
(* `following_blocks_are_all_free` and the pointer `next_block`.  Memory   *)
(* is therefore modelled word by word (a word is sizeof(void star)), for   *)
(* what the allocator writes and what the client writes share it.          *)
(***************************************************************************)
EXTENDS Naturals, Sequences, FiniteSets

CONSTANTS Chunk,        \* base addresses, in words, that mmap may return
          ChunkWords,   \* chunk_size
          HeaderWords,  \* MPOOL_RESERVED_CHUNK_HEADER_SIZE
          BlockWords,   \* block_size
          OnDemand,     \* allocate_more_chunks_on_demand
          Data,         \* values a client writes in a word of its block
          MaxStale      \* bound: mpool_clear is called only up to this usage

ASSUME PoolAssumption ==
    /\ Chunk \subseteq Nat
    /\ ChunkWords \in Nat /\ HeaderWords \in Nat
    /\ BlockWords \in Nat \ {0}
    /\ OnDemand \in BOOLEAN
    /\ Data \subseteq Nat
    /\ MaxStale \in Nat

VARIABLES chain,        \* the chunks linked from first_chunk, in order
          next_block,   \* each chunk's free-list head
          mem,          \* mem[c][b][w]: word w of block b of chunk c
          user_usage,   \* total_user_memory_usage, in blocks
          alloc_usage,  \* total_allocator_memory_usage, in chunks
          mapped,       \* the chunks the process has mapped
          owned         \* the client's: blocks it was given and has not freed

vars == <<chain, next_block, mem, user_usage, alloc_usage, mapped, owned>>

pool == <<chain, next_block, mem, user_usage, alloc_usage>>

-----------------------------------------------------------------------------
(* Layout of a chunk.  Block 0 is set up whether or not it fits: only the  *)
(* blocks after it are tested.                                             *)

Fits(b) == HeaderWords + (b + 1) * BlockWords <= ChunkWords

Block == {b \in 0..ChunkWords : b = 0 \/ Fits(b)}

\* A block's two header words spill into the next block if a block is one word.
Slot == Block \cup {b + 1 : b \in Block}

Word == 0..(BlockWords - 1)

Zeroed == [w \in Word |-> 0]

Fresh == [b \in Slot |-> Zeroed]

Null == 0

True == 1

Ptr(b) == b + 2

BlockAt(p) == p - 2

Handle == Chunk \X Block

\* The header fields of a free block.
Flag == 0
Link == 1

SlotOf(b, field) == IF field < BlockWords THEN b ELSE b + 1

WordOf(field) == IF field < BlockWords THEN field ELSE field - BlockWords

Load(seg, b, field) == seg[SlotOf(b, field)][WordOf(field)]

Store(seg, b, field, v) == [seg EXCEPT ![SlotOf(b, field)][WordOf(field)] = v]

-----------------------------------------------------------------------------
(* The helpers of the pool, on one chunk's memory.                         *)

\* mpool__init_chunk: only the first block is touched.
InitSeg(seg) == Store(seg, 0, Flag, True)

\* Mutants (Name_Bug): a bug of a line each, that a property must find.
Adjacent_Unbounded(b) == Ptr(b + 1)

Adjacent(b) == IF Fits(b + 1) THEN Ptr(b + 1) ELSE Null

\* The head that replaces block b when b is handed out.
NextHead(seg, b) ==
    IF Load(seg, b, Flag) # 0 THEN Adjacent(b) ELSE Load(seg, b, Link)

MarkUsed_NotCleared(seg, b) ==
    IF Load(seg, b, Flag) # 0 /\ Fits(b + 1)
    THEN Store(seg, b + 1, Flag, True)
    ELSE seg

\* mpool__mark_block_as_used: the virgin flag moves on, then b is cleared.
MarkUsed(seg, b) ==
    LET moved == IF Load(seg, b, Flag) # 0 /\ Fits(b + 1)
                 THEN Store(seg, b + 1, Flag, True)
                 ELSE seg
    IN  [moved EXCEPT ![b] = Zeroed]

MarkAvail_FlagKept(seg, b, head) == Store(seg, b, Link, head)

MarkAvail_Unlinked(seg, b, head) == Store(Store(seg, b, Flag, 0), b, Link, Null)

\* mpool__mark_block_as_avail, with `head` the chunk's free-list head.
MarkAvail(seg, b, head) == Store(Store(seg, b, Flag, 0), b, Link, head)

\* mpool_get_chunk_from_addr rejects an address by its remainder alone.
Aligned(h) == (h[1] + h[2] * BlockWords) % BlockWords = 0

Chained == {chain[i] : i \in DOMAIN chain}

-----------------------------------------------------------------------------
Init ==
    /\ chain = <<>>
    /\ next_block = [c \in Chunk |-> Null]
    /\ mem = [c \in Chunk |-> Fresh]
    /\ user_usage = 0
    /\ alloc_usage = 0
    /\ mapped = {}
    /\ owned = {}

\* mpool_init_aux, mmap having succeeded (a failure leaves the pool unset).
InitPool(c) ==
    /\ chain = <<>>
    /\ c \notin mapped
    /\ mapped' = mapped \cup {c}
    /\ chain' = <<c>>
    /\ mem' = [mem EXCEPT ![c] = InitSeg(Fresh)]
    /\ next_block' = [next_block EXCEPT ![c] = Ptr(0)]
    /\ user_usage' = 0
    /\ alloc_usage' = 0
    /\ UNCHANGED owned

HandOut_Uncounted(c, seg, head) ==
    LET b == BlockAt(head)
    IN  /\ mem' = [mem EXCEPT ![c] = MarkUsed(seg, b)]
        /\ next_block' = [next_block EXCEPT ![c] = NextHead(seg, b)]
        /\ UNCHANGED user_usage
        /\ owned' = owned \cup {<<c, b>>}

\* The tail of mpool_alloc: hand out the head of chunk c, whose memory and
\* head are `seg` and `head` by then.
HandOut(c, seg, head) ==
    LET b == BlockAt(head)
    IN  /\ mem' = [mem EXCEPT ![c] = MarkUsed(seg, b)]
        /\ next_block' = [next_block EXCEPT ![c] = NextHead(seg, b)]
        /\ user_usage' = user_usage + 1
        /\ owned' = owned \cup {<<c, b>>}

\* mpool_alloc finds a free block: the first chunk that has one serves it.
AllocFromChunk(i) ==
    /\ i \in DOMAIN chain
    /\ next_block[chain[i]] # Null
    /\ \A j \in 1..(i - 1) : next_block[chain[j]] = Null
    /\ HandOut(chain[i], mem[chain[i]], next_block[chain[i]])
    /\ UNCHANGED <<chain, alloc_usage, mapped>>

AllocFromNewChunk_Eager(c) ==
    /\ chain # <<>>
    /\ OnDemand
    /\ c \notin mapped
    /\ mapped' = mapped \cup {c}
    /\ chain' = Append(chain, c)
    /\ alloc_usage' = alloc_usage + 1
    /\ HandOut(c, InitSeg(Fresh), Ptr(0))

\* mpool_alloc finds every chunk full and chains a new one.  When mmap fails,
\* when the pool may not grow and when the request exceeds block_size it
\* returns NULL and nothing changes.
AllocFromNewChunk(c) ==
    /\ chain # <<>>
    /\ \A i \in DOMAIN chain : next_block[chain[i]] = Null
    /\ OnDemand
    /\ c \notin mapped
    /\ mapped' = mapped \cup {c}
    /\ chain' = Append(chain, c)
    /\ alloc_usage' = alloc_usage + 1
    /\ HandOut(c, InitSeg(Fresh), Ptr(0))

\* The client writes in a block it holds.
Write(h, w, v) ==
    /\ h \in owned
    /\ mem' = [mem EXCEPT ![h[1]][h[2]][w] = v]
    /\ UNCHANGED <<chain, next_block, user_usage, alloc_usage, mapped, owned>>

\* mpool_free: the client gives a block up whether or not the pool takes it.
Free(h) ==
    /\ h \in owned
    /\ owned' = owned \ {h}
    /\ IF Aligned(h) /\ h[1] \in Chained
       THEN /\ mem' = [mem EXCEPT ![h[1]] = MarkAvail(@, h[2], next_block[h[1]])]
            /\ next_block' = [next_block EXCEPT ![h[1]] = Ptr(h[2])]
            /\ user_usage' = user_usage - 1
            /\ UNCHANGED <<chain, alloc_usage>>
       ELSE UNCHANGED pool
    /\ UNCHANGED mapped

\* mpool_clear: every chunk is set up again, next_chunk = NULL included.
Clear ==
    /\ chain # <<>>
    /\ user_usage <= MaxStale
    /\ mem' = [c \in Chunk |-> IF c \in Chained THEN InitSeg(mem[c]) ELSE mem[c]]
    /\ next_block' = [c \in Chunk |-> IF c \in Chained THEN Ptr(0) ELSE next_block[c]]
    /\ chain' = <<chain[1]>>
    /\ owned' = {}
    /\ UNCHANGED <<user_usage, alloc_usage, mapped>>

\* mpool_del: the linked chunks are unmapped and the pool is zeroed.
Del ==
    /\ chain # <<>>
    /\ mapped' = mapped \ Chained
    /\ mem' = [c \in Chunk |-> IF c \in Chained THEN Fresh ELSE mem[c]]
    /\ next_block' = [c \in Chunk |-> IF c \in Chained THEN Null ELSE next_block[c]]
    /\ chain' = <<>>
    /\ user_usage' = 0
    /\ alloc_usage' = 0
    /\ owned' = {}

Next ==
    \/ \E c \in Chunk : InitPool(c) \/ AllocFromNewChunk(c)
    \/ \E i \in DOMAIN chain : AllocFromChunk(i)
    \/ \E h \in owned, w \in Word, v \in Data : Write(h, w, v)
    \/ \E h \in owned : Free(h)
    \/ Clear
    \/ Del

Spec == Init /\ [][Next]_vars

-----------------------------------------------------------------------------
(* The free list of a chunk, read from its memory and its head.            *)

\* The blocks listed in fl are those the links reach from `head`; only the
\* last may carry the flag, and the list then goes on to the chunk's end.
IsFreeList(seg, head, fl) ==
    LET n == Len(fl)
    IN  /\ head = IF n = 0 THEN Null ELSE Ptr(fl[1])
        /\ \A i, j \in 1..n : i # j => fl[i] # fl[j]
        /\ \A i \in 1..(n - 1) : /\ Load(seg, fl[i], Flag) = 0
                                 /\ Load(seg, fl[i], Link) = Ptr(fl[i + 1])
        /\ n > 0 => \/ Load(seg, fl[n], Flag) # 0
                    \/ Load(seg, fl[n], Link) = Null

Listed(fl) == {fl[i] : i \in 1..Len(fl)}

\* The blocks after the last one listed that its flag declares free.
VirginTail(seg, fl) ==
    {b \in Block : /\ Len(fl) > 0
                   /\ Load(seg, fl[Len(fl)], Flag) # 0
                   /\ b > fl[Len(fl)]}

FreeSet(seg, fl) == Listed(fl) \cup VirginTail(seg, fl)

\* fl is a free list that holds no block twice and none of `own`.
SoundList(seg, head, own, fl) ==
    /\ IsFreeList(seg, head, fl)
    /\ VirginTail(seg, fl) \cap Listed(fl) = {}
    /\ FreeSet(seg, fl) \cap own = {}

OwnedIn(c) == {b \in Block : <<c, b>> \in owned}

TypeOK ==
    /\ chain \in Seq(Chunk)
    /\ next_block \in [Chunk -> Nat]
    /\ mem \in [Chunk -> [Slot -> [Word -> Nat]]]
    /\ user_usage \in Nat
    /\ alloc_usage \in Nat
    /\ mapped \in SUBSET Chunk
    /\ owned \in SUBSET Handle

\* The lists a chunk of this size can have.
FreeLists == UNION {[1..n -> Block] : n \in 0..Cardinality(Block)}

\* In every linked chunk the links kept inside the blocks form a list without
\* cycle or repetition, the blocks its virgin flag declares free are not also
\* on it, and neither holds a block that the client still has: mpool_alloc can
\* hand no block out twice, whatever the order of allocs, frees and clears.
FreeListSound ==
    \A c \in Chained : \E fl \in FreeLists :
        SoundList(mem[c], next_block[c], OwnedIn(c), fl)

\* Every block of a linked chunk is either held by the client or reachable
\* from the chunk's free list: mpool_alloc and mpool_free lose none.
EveryBlockFreeOrOwned ==
    \A c \in Chained : \E fl \in FreeLists :
        /\ SoundList(mem[c], next_block[c], OwnedIn(c), fl)
        /\ FreeSet(mem[c], fl) \cup OwnedIn(c) = Block

\* total_user_memory_usage never understates what the client holds, although
\* mpool_clear takes every block back without resetting it.
UsageCoversOwned == user_usage >= Cardinality(owned)

\* mpool_alloc maps another chunk only when no linked chunk has a block left.
GrowsOnlyWhenFull ==
    [][Len(chain') > Len(chain) => Chained \X Block \subseteq owned]_vars

\* The client's view of the pool.
Client == INSTANCE BlockStore
            WITH store <- [h \in owned |-> [w \in Word |-> mem[h[1]][h[2]][w]]]

\* The pool implements the abstract block store: a block is handed out zeroed
\* and to one holder, and no write the allocator makes in its headers, for any
\* alloc, free or clear, changes a word of a block the client holds.
RefinesBlockStore == Client!Spec

\* mpool_clear "frees EVERY BLOCK, but the actual memory is not unmapped, and it
\* will be reused" (dpcrt_allocators.h): what is mapped stays linked to the pool.
MappedChunksStayLinked == mapped \subseteq Chained
=============================================================================

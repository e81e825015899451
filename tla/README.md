# A verification project for dpcrt

dpcrt is a C utility library: allocators, buffered input, a lexer, and a platform
layer under them. It has no tests and few documents, so what its parts promise is
read off the code, its header comments and its assertions. This directory holds
TLA+ modules that model those parts, TLC configurations that check them on small
instances, and proofs that TLAPS checks for every value of the constants.

Paths below are relative to `src/`.

## Inventory

| Component | State it keeps | Operations | What it talks to |
|---|---|---|---|
| **MPool** (`dpcrt_allocators.c` 1-353) | chain of chunks, a free-list head per chunk, free-list links *inside* the free blocks, two usage counters | init, alloc, free, clear, del | mmap/munmap through the memory layer; its client, who writes in the same words |
| **MFList** (`dpcrt_allocators.c` 358-1181) | chain of chunks of several size categories, blocks that tile each chunk, `max_contiguous` per chunk | init, alloc1, realloc1, free, clear, del | memory layer; its client |
| **MArena** (`dpcrt_allocators.c` 1190-1874) | one buffer, `data_size`, `data_max_size`, and a context (`staging_size`, `failed`) | new, begin, the additions, ask_alignment, commit, dismiss, pop_upto, clear, del | memory layer (growth by mremap); the lexer stages tokens in it |
| **Memory layer** (`dpcrt_mem.c`) | none of its own (statistics aside) | xmalloc family, mmap, unmap, alloc, realloc, dealloc | platform layer |
| **IStream** (`dpcrt_streams.c`) | a cache buffer, a position in it, a file handle | init from file or handle, peek, read, deinit | platform layer (open, read, close); the lexer |
| **Lexer** (`dpcrt_lexer.c`, `dpcrt_lexer_core.h`) | a ring of staged bytes, line and column, a token context in an arena | init, next_token, deinit; enqueue, deque, peek, undo, accept, reject | IStream below it, MArena beside it, the recognisers it calls |
| **Lexer builtin logic** (`dpcrt_lexer_builtin_logic.c`) | none: recognisers over the lexer's bytes | whitespace, XML comments and strings, escapes, numeric literals, identifiers, C11 punctuators | the lexer core |
| **Platform layer, Linux** (`PLATFORM_SPECIFIC/dpcrt_pal_linux.c`) | process-wide: file descriptors and pipe ends, children, one inotify instance; the kernel keeps the rest | spawn (three ways) and wait, change notification, file times, files, memory mapping, directories, libraries | the kernel, and through it the child processes |
| **Platform layer, Windows** | – | stubs and thin system calls | – |
| **Lists and buffers** (`dpcrt_types.h`, `dpcrt_data_structures.h`) | intrusive doubly linked lists, growing buffers | macros | their users |
| **Algorithms and hashing** (`dpcrt_algorithms.c`, `dpcrt_hash.h`) | none | Levenshtein distance, hashes | the growing buffers |
| **Memory layout, endianness, utilities** | none | bit packing, byte order, `ALIGN` | the allocators use `ALIGN` |
| **Mathematics**, **strings**, **atomics**, **threads and sync**, **glue** | none, or empty files | – | `non_thread_safe` uses one compare-and-exchange |

`PROJECT.json` lists every component with its status, and every hazard at its line.

### What is hard, and what would make each part correct

* **MPool.** The allocator has no table: a free block's first two words hold a
  flag ("all the blocks after me are free") and a link, in the words the client
  writes while it holds the block. Handing out, freeing and clearing in some order,
  with any client data in between, must never list a block twice, list a held one,
  lose one, or change a word of a held block.
* **MArena.** Additions happen past `data_size` and are visible only on commit;
  any of them may grow the buffer or fail. A failed addition must fail the whole
  context; a growth must keep what was staged; an accepted byte should lie inside the
  buffer (it need not: the check that makes room ignores what is staged), or not far
  outside; a commit must return a reference that can be unpacked.
* **IStream.** The refill is made *after* the byte that exhausts the buffer has
  been read, its outcome is returned as the outcome of the read, and it may be
  short, empty or fail. No byte may be repeated or dropped, the whole file must
  arrive, and tearing down twice, or after a failed init, must close no foreign
  handle.
* **MFList.** Blocks must tile their chunk through every split and merge,
  `max_contiguous`, which is computed half before a cut and half after it, must be the
  size of the largest free block, and live allocations must stay disjoint, although
  blocks may reach beyond the end of their chunk.
* **Lexer.** Predicates and recognisers look ahead by one to six bytes into a ring
  that wraps after its size, over bytes that others left there; the stream says
  false with its last byte; past the end there are zeros without end; the arena may
  refuse any byte, and that is looked at only at the end, or take it and write it past its
  buffer. Every byte must be
  taken once, tokens must be consecutive stretches of the input with their text,
  length and position, the ring must not overflow, and every input must end.
* **Processes.** A child inherits every pipe end its parent holds at the fork, so one
  process too many may hold a write end and a reader waits for ever; a synchronous wait
  may reap another's child; a failed fork leaves ends behind.
* **Change notification.** Flags are converted to the kernel's and back in another
  order; a read has no room for a name; the kernel merges, drops and adds events.
* **File times.** A comparison carries nanoseconds by a wrong unit and changes one of
  the times it compares.

## What is modelled

### `BlockStore`, `MPool`, `MCMPool`, `MPoolProofs`

`MPool` models all of the pool's operations.

| In the code | In the module |
|---|---|
| `MPool.first_chunk` and the `next_chunk` links | `chain`, a sequence of chunk addresses |
| `MPoolChunk.next_block` | `next_block[c]` |
| the memory of a chunk's blocks | `mem[c][b][w]`, a word being `sizeof(void*)` |
| `MPoolBlock.following_blocks_are_all_free`, `.next_block` | words `Flag` and `Link` of the block, through `Load` and `Store` |
| `total_user_memory_usage`, `total_allocator_memory_usage` | `user_usage`, `alloc_usage`, counted in blocks and chunks |
| the kernel's mappings, the client's pointers | `mapped`, `owned` |

A pointer to block *b* is the number `b + 2`, so that 0 is NULL and 1 can stand
for the boolean `true` that a flag word holds: client data, a flag and a link are
then all numbers in the same words, and the model shows if one is taken for the
other. A one-word block makes the second header word fall in the next block, as
it does in memory. `InitPool`, `AllocFromChunk`, `AllocFromNewChunk`, `Free`,
`Clear`, `Del` are the operations; `Write` is the client's. A call that fails (mmap
fails, the pool may not grow, the request is larger than a block) returns NULL and
changes nothing; it is a stuttering step. `Free` of a block the pool does not
recognise changes nothing in the pool, as in `mpool_free`, although the client
has let go of it.

`BlockStore` is the abstract specification: a partial function from handles to
contents. `RefinesBlockStore` says the pool implements it under the mapping that
reads a held block's words from `mem`.

### `AtomicStack`, `MArena`, `MCMArena`, `MArenaProofs`

| In the code | In the module |
|---|---|
| `buffer` | `buffer`, a function on `0 .. data_max_size - 1`; `Junk` is a byte nobody set |
| `data_size`, `data_max_size` | the same |
| `alloc_context.staging_size`, `.failed` | `staging_size`, `failed` |
| a write outside the buffer | `overrun` becomes true, and the write is dropped |
| the value of `marena_commit` | `ref` |

Every addition is one `AddBytes(size, at, s)`: it finds or makes room
(`Accomodated`), or fails the context (`Refused`). A debug build reallocates at
every push (`ForceRealloc`), so there any addition may fail; the configurations set
it, because every behaviour of a build that does not is among those of one that
does. `marena_add_cstr` and the `marena_push_*` wrappers are sequences of the
modelled steps.

The growth formula multiplies by 1.25 in an `F32` and adds pages; the model
computes `5n div 4 + GrowStep`. The mapping itself is rounded up to pages, so
`overrun` says that a byte lies beyond `data_max_size`, which is what the arena
believes it has, and not that the access traps. The code's assertions on context
(`marena_begin` outside a context, additions inside) are the client's
obligations and are guards here.

`Fits` is the check as it is: it compares `data_size` with the buffer and not
`staging_size` (l. 1258), and an arena grows once, however much is asked (l. 1269). So an
addition may be accepted and lie past the buffer. `StagedBytesFit` says that this does not
happen and is false of the documented, incremental use (`marena_many_adds`) and of the
lexer's. What the other properties say is meant for a client that adds as it likes:
`OverrunBounded`, how far the sizes get past the buffer; `CommitReturnsValidRef`; and
`RefinesWhileFit`, each step before and after which what was accepted lies in the buffer.
A typed addition stores through `(T*)buffer + staging_size`, so that its offset is scaled by
`sizeof(T)` (`dpcrt_allocators.c:1545`): `AddTyped` has that offset, and the abstract stack
takes it for an addition of bytes left unset.

`AtomicStack` is the abstract specification: a committed string, a staged string,
a failure bit. `Client` maps the two strings to the ranges of the buffer that the
sizes delimit.

### `ByteStore`, `MFList`, `MCMFList`, `MFListProofs`

| In the code | In the module |
|---|---|
| `MFList.chunks[categ]` and the `next_chunk` links | `chunks[k]`, a sequence for each category; the last, `More`, is that of chunks of their own |
| `MFListChunk.size`, `.categ`, `.max_contiguous_block_size_avail` | the fields of `info[c]` |
| a chunk's `MFListBlock` headers | `info[c].blocks`, in address order, with their offsets |
| the memory of a chunk, in words of eight bytes | `mem[c]`; a word of a header is `Junk` |
| the chunks that are mapped | the domain of `info` and of `mem` |
| `total_user_memory_usage`, `total_allocator_memory_usage` | `user_usage`, `alloc_usage` |
| the client's pointers | `live`, the length asked for at each address |

A block's offset is kept beside its size, although the code computes the one from
the other, so that `BlocksTileChunk` can say that `mflist__next_block` meets the blocks
in their order and stops after the last. Addresses matter because the first block is aligned by
address (`FirstAt`). `prev_block` is not kept: only the free path reads it, and that
path returns before it does. Sizes and addresses count machine words: the header of a chunk
is four of them (its two links, sizes, category) and that of a block three.

A chunk is sized by offsets and its first block aligned by address to 24 bytes, which do not
divide a page. So the last block may reach beyond the chunk's end by one word or two, and an
allocation or reallocation that clears it writes there (l. 403, l. 562, l. 934, 1124, 1174).
`Cleared` clears what the list has mapped at those addresses, whichever chunk it is in, and
`Unlinked` says whose `next_chunk` is there: a walk of that chain ends at it from then on
(`UpTo`), and what was behind is mapped and out of the list's reach. (`prev_chunk`, which is
cleared as well, is read by nothing that runs.) Where the list has nothing mapped the process
faults or the memory is not the list's, which no model of the list can follow: the step leaves
the list as it is. `memcpy` never writes beyond a chunk, because a moved allocation is given a
header's size more than is copied; it may read there (`Copy`).
`LiveInsideBlocks` says that what the client asked for is inside the chunk all the same,
because `mflist_alloc1` adds a header's size to every request, and `RefinesByteStore` that no
other allocation changes, because what overhangs meets no more than another chunk's links.

`max_contiguous_block_size_avail` is computed on the way: over the blocks that the search passes
by, before the cut, and over those from the block found on, after it (l. 1022-1082); `Taken` has
the two halves. Since no free has an effect (below) only the last block is ever available, and
the first half finds nothing in any state that is reached; a cut, on the other hand, always
leaves the second half to find the rest.

`mflist_free` asserts that the block is held, and then returns because it is
(`dpcrt_allocators.c:671`): in the model `Free` is a step of the client alone. It
follows that only the last block of a chunk is ever available, and the merging code is
never run. `Clear` reinitialises the chunks of each category and thereby unlinks all
but the first. A first chunk of more than 64 KB it unmaps and leaves at the head of its
category: an assertion fails there in a debug build, and without assertions the next call
reads unmapped memory (l. 796). The model does not go on from there: `ClearsLarge` says
whether the client clears such a list, and is `FALSE` in the runs and the proofs.

`ByteStore` is the abstract specification: lengths, contents, and a `Move` that keeps
what both lengths have.

### `IStream`, `MCIStream`, `IStreamProofs`

| In the code | In the module |
|---|---|
| `IStream.fh`, `.buffer` up to `.buffer_len`, `.buffer_it` | `fh`, `buffer`, `buffer_it` |
| the file behind the handle and the kernel's position in it | `content`, `offset` |
| the process's descriptors | `opened` |
| the bytes a caller of `istream_read_next_byte` received; those of them it received with `true` | `got`, `shown` |
| the last result of an init or a read | `result` |

`Refill` has the three outcomes of `pal_readfile` as `istream__refill_buffer` sees
them: some bytes (any number up to the cache size), none at the end of the file,
an error. `erred` remembers that an error happened, because nothing recovers from
it: the next refill would come after a byte that can no longer be read.

### `LexCore`, `Lexer`, `TokenStream`, `MCLexer`, `LexerProofs`

`LexCore` is `dpcrt_lexer_core.h` and the tables of the recognisers: a lexer is a
record, and each operation an operator from a lexer to a lexer, because a recogniser
composes them by the dozen. `Lexer` is `lexer_next_token` with the recognisers.

| In the code | In the modules |
|---|---|
| the `IStream`, as its promise: bytes one by one, false with the last | `lx.src`, `lx.off` |
| `staging_area`: `buf`, `start_it`, `end_it`, `it` | the fields of those names |
| `err`, `emitted_cnt`, `line_num`, `column` | the same |
| the arena: `data_size`, `data_max_size` | the fields of `lx.arena` |
| its open context: the text staged, how many more additions are granted memory, `failed` | `lx.text`, `lx.room`, `lx.failed` |
| the locals of `lexer_next_token` and of the recogniser, the token's fields | `tok` |
| the committed tokens in the arena | `tokens`, with the position of each, `ref` |
| where the function is; the predicates the client's logic has yet to ask | `pc`, `todo` |

`lx.taken`, `lx.asserted`, `lx.full`, `lx.arena.spilled` and `oom` are history: how many bytes
were taken; that a byte was enqueued with `staging_area_is_full`, so that the assertion fails;
that one was enqueued with no position left, so that the ring reads as empty; that a byte was
written past the arena's buffer; that the arena refused a token. One step is one turn of a
loop, or what lies between two loops.

The client's `lex_logic` is the repository's interface and the client's code. It is
modelled as its intended use: it asks some of the `is_` predicates in turn, calls the
recogniser of the first that holds, and `lex_identifier_or_keyword` otherwise. Which
it asks, in which order, and whether white space is eaten automatically, is `client`.

Whether an addition has room is what `marena_accomodate_for_size` says (`Accomodated`): it
compares with what is committed, so that the structure of a token makes the arena grow and its
text does not: a long text is accepted and written past the buffer (`spilled`). Then the heap is
no longer what the model says, and `TextIsSource`, `WalkMeetsTokens` and `StringDecodes` claim
nothing. The arena is one that may be reallocated and is smaller than 2 GB; memory for a
reallocation is granted to so many additions of a token as `Rooms` says (a debug build
reallocates at every push), and to the structure or not. An arena that may not be reallocated
refuses structures only, which is among these.

`TokenStream` is the abstract specification: the input is gone through once, front to
back, and each token is a stretch of it that is not empty and begins where the one
before it ended, or later.

What the modules have in them because the code does it:

* The ring has one position more than `buf` (`LexCore`, `Inc`): index 16 of `buf[16]` is
  the structure's padding byte. `staging_area_is_full` computes modulo 16: it holds
  when there is no room, or one byte sooner, and never when `start_it` is at index 16. `IsFull`
  is what it computes, `Overfull` that there is no room.
* `deque` from an empty ring drops a byte that the stream gives with false, its last
  one; the library's own recognisers always look first, so it never happens to them.
* An unknown escape in a string has two bytes looked at and one taken, with no undo: from
  there on the lookahead is a byte ahead, more with each (`lexer_escapes`).
* The digits of an exponent without a sign: two bytes are looked at and one is taken, so the
  loop goes on a byte ahead too, and `1e5` leaves its last digit for the next token.
* A suffix `L` takes whatever byte follows it, a zero past the end included: the test
  for `LL` looks at the first byte again. A comment that the input ends behind a hyphen takes
  the zeros that were looked at for `-->`. For both (`1L`, `<!---`) the debug assertion that
  `strlen` of the text is its length (`dpcrt_lexer.c:127`) fails: `ZerosExplained`, in
  `TextIsSource`, says that these are the only ones.
* `dpcrt_lexer.h:215-218` says that a token follows the one before it rounded up to a
  `sizeof(token_t)` boundary. Neither the commit nor, as it is built, the walk rounds anything.
  `TOKENS_ARENA_PACK_WITH_ALIGNMENT`, which nothing defines, makes the walk round
  (`PackWithAlignment`) and not the commit: then `WalkMeetsTokens` is false.
* The hexadecimal digits lack `e` and `E`; after `0b` only the `0` is taken; `--->` does not end
  a comment; an unterminated comment is a token without error.
* `#`, `$` and DEL are punctuators to the predicate and have no branch in the recogniser: the
  token is empty, of no type, and the same byte is met again.
* An invalid byte ends or flags the token during which it was *looked at*; when it is
  taken later nobody checks it. ETX is an end only as long as it is not staged.
* When the arena has no memory for the structure, `lexer_next_token` returns FALSE, as
  at the end of the input. When it refuses a byte of the text, line and column are
  put back to the token's first byte, and the bytes are not.

### `PalProcess`, `MCPalProcess`, `PalProcessProofs`

| In the code and the kernel | In the module |
|---|---|
| a child process: not yet there, forked, running its command, ended, waited for | `state` |
| the pipes of `pal_spawnproc_async_piped`, and which its caller asked for | `job` |
| the descriptor tables, for ends of pipes | `held`, for each process |
| the bytes in a pipe | `level` |
| the call the parent is in: a spawn between fork and its closes, or a wait | `call` |
| the handles the caller was given | `client` |
| what a wait wrote to its caller's status | `report`: whose status that is |

Every call of the parent is split at the points where others run: the fork, the parent's
branch after it (`Attach`), the wait. The child's branch up to `execl` is `ChildExecs`;
both processes hold all four ends in between. `lost` remembers the ends that a failed
fork leaves open (l. 692); that it fails once is a bound. A child reads, writes and may end
at any time; a command that fails to exec ends at once.

Two constants are assumptions about the client. `SyncAlone`: it calls
`pal_spawnproc_sync` only when it has no other child. `SpawnsBare`: it spawns only when
it holds no pipe to write to. Both are needed. Without the first, the wait of
`pal_spawnproc_sync` takes another child's status (`spawn_wait`). Without the second, a
later child inherits the write end of the first's input (no end is closed on exec), the first never
sees the end of its input although the client has closed it, and the two wait for
each other and the parent for them: with `SpawnsBare = FALSE` TLC refutes
`WaitsReturn` with a state in which everyone waits.

### `PalWatch`, `FileTime`, `MCFiles`, `PalWatchProofs`, `FileTimeProofs`

`PalWatch` is change notification: `watches` are the kernel's watches by descriptor,
`queue` its queue, `delivered` what `pal_read_notify_event` gave. The kernel merges an
event with an equal one before it, ends a full queue with an overflow event, and adds an
event when a watch ends. A set of flags is a set of bit numbers, and the two conversions
are the two tables of the code. The read's buffer is one `struct inotify_event`:
an event with a name does not fit, the read fails and consumes nothing, and every
later read fails on it too. `nonblock` keeps what `pal_notify_start_watch_file` does
with `fcntl`: it sets O_NONBLOCK on the number of the watch descriptor, which is no file
descriptor (l. 850); whichever file has that number is changed. No property speaks
of it, because no comment does.

`FileTime` is `pal_filetime_cmp` by `pal_filetime_diff`. The first carry divides by 10^9
and subtracts multiples of 10^6; the constants `Second` and `Carry` are these two. It follows
that the second time leaves the documented range of nanoseconds (`dpcrt_pal.h:218`), that the
second carry never acts (proved), that two times which are a second less 10^6 ns apart compare
as equal, and that a comparison made again may turn a 1 into a -1 (never the other way:
`EarlierStays`). `ComparesRight` says when the result is right.

`MCFiles` puts the two in one run; `part` chooses which is in use, since they share nothing.

## What the runs check

Passing runs:

* **mpool** (`MPool.cfg`): two chunks of eight words with a two-word header, hence
  three two-word blocks each, one data value, growth on demand. Three blocks are
  the fewest that allow a list whose order differs from the addresses' with a virgin
  tail behind it; two chunks the fewest that tell a first chunk from a chained one.
  The client's one value is 1, which is also what the flag word holds when true:
  client data that was taken for a flag would be seen. `Clear` leaves
  `user_usage` as it is, so that clears in a row raise it without end; `MaxStale`
  stops calling `Clear` above two. Checks `TypeOK`, `FreeListSound`,
  `EveryBlockFreeOrOwned`, `UsageCoversOwned`, `GrowsOnlyWhenFull` and
  `RefinesBlockStore`. The chunk addresses are multiples of the block size:
  `mpool_get_chunk_from_addr` takes the remainder of the *absolute* address
  (`dpcrt_allocators.c:54`), and with a block size that does not divide it `mpool_free`
  does nothing and every free loses a block.
* **marena** (`MArena.cfg`): one reserved byte, a first buffer of three bytes and a
  U32 of three bits, so that the arena grows 3 → 5 → 7 and the second growth takes
  the branch of `marena_grow` that stops at `U32_MAX`. Additions are of zero to two
  bytes, set, unset, zeroed, aligned, and typed with types of one byte and of two.
  `MaxStaged = 2` bounds the client: it adds to no more than two staged bytes, so that a
  context may hold four, and sizes get past the end of the buffer (by one byte, as
  `OverrunBounded` says).
  Checks `TypeOK`, `OverrunBounded`, `CommitReturnsValidRef` and `RefinesWhileFit`; 564,786
  states.
* **mflist** (`MFList.cfg`): one category of chunks of 23 words and chunks of their own of
  46, with the code's headers of four words and three. The addresses 69, 92 and 115 are
  one behind the other, and their remainders by three are such that the last block
  overhangs its chunk by two words, by none and by one: the links of the middle chunk are
  what the first one's overhang clears. Lengths 1, 7 and 16 are such that
  two blocks fill a chunk, or one, that a reallocation stays, moves to another chunk, or changes
  category, and that what is left of a block may be less than a header.
  `MaxUsage = 24` is more than a full chunk holds: the client allocates until it is in the
  second chunk of the category, or the third. The code's quarter (`Share`) and tenth (`LeastPart`)
  are a whole and a third here, to keep chunks small; the code's assumption that a first
  allocation never fills a chunk still holds. Checks `TypeOK`, `BlocksTileChunk`,
  `MaxContiguousExact`, `LiveInsideBlocks`, `RefinesByteStore`; 231,482 states.
* **istream** (`IStream.cfg`): a cache of two bytes and files of zero, one, three and
  five, so that there are one, two and three refills and a last one that is full,
  short or empty; two handles, so that a handle is reused while another is open.
  Checks `TypeOK`, `NothingRepeatedOrSkipped`, `ClosesOnlyOpenFiles`,
  `FalseOnlyAtEnd` and the liveness property `WholeFileDelivered`. The last byte of a file
  comes with false (`dpcrt_streams.c:141`), so that the loop in the usage comment of
  `dpcrt_streams.h` drops it: `FalseOnlyAtEnd` says when false means that all was given.
* **lexer** (`Lexer.cfg`): all inputs of up to four or five bytes behind the marks
  that begin a comment, a string and a number, all sequences of up to three of the
  punctuators' characters, the XML escapes whole and cut, all inputs of up to four of
  letters, spaces, new lines and the bytes that end or spoil an input, and pairs of longer
  tokens. Each family is over the characters that its recogniser tells apart and goes past its
  longest lookahead. `StagingMax = 8` is the least power of two with room for the longest
  lookahead, six bytes, behind bytes left staged, and the pairs take the ring round twice; 16
  changes nothing but the number of turns. `Rooms = {0, 3, 12}` refuses the structure,
  a byte in the middle of a text, and nothing. `ArenaSizes = {6, 60}`, with a structure of two
  bytes and growth by a quarter and one: in the first arena the second token makes it grow and
  texts of a few bytes are written past it, the second has room for all. One client has white space eaten, the other makes
  tokens of it. There is no `#`, `$` or DEL in the inputs, of which the
  tokens would be empty without end. Checks `TypeOK`, `EachByteOnce`, `StagingHasRoom`,
  `TextIsSource`, `WalkMeetsTokens`, `PositionExact`, `StopsAtEnd`, `StringDecodes`,
  `RefinesTokenStream` and the liveness property `InputEnds`.
* **process** (`PalProcess.cfg`): two children and four pipes, of one byte each; a child writes up to
  two bytes, so that it blocks on a full pipe. Two children are the fewest of which one
  inherits what belongs to the other, or whose status is taken for the other's; four pipes are two for
  each, or two for one and two lost. Checks `TypeOK`, `OwnStatus`, `EndsAccounted`,
  `OnlyTheClientFeeds` and the liveness properties `WaitsReturn` and `OutputsEnd`.
* **files** (`Files.cfg`): two watches, two events and a queue of two, with requests for every
  other flag, so that a flag converted to a neighbour is one that was not asked for; every pair of
  times of four seconds of six units with a carry of two, compared up to four times, once more than
  a carry can be due. Checks
  `EventsInOrder`, `ReportsWhatWasAsked`, `ComparesRight` and `EarlierStays`.

`CHECK_DEADLOCK` is never turned off. The allocators and the stream cannot stop; the lexer's
client, the processes and the comparisons end in a state of their own (`Stopped`, `Over`), so
that any other end would be a deadlock.

Runs that end in a violation, each a disagreement between the code and what a
comment or an assertion of it says:

* **mpool_clear**: the header says that after `mpool_clear` "the actual memory is not
  unmapped, and it will be reused". `mpool__init_chunk` sets `next_chunk` to NULL, so
  that every chunk but the first leaves the chain, still mapped
  (`dpcrt_allocators.c:154`).
* **marena_many_adds**: the room check of an addition compares `data_size + size` and
  not `staging_size + size` with the buffer: additions that fit one by one overrun
  it together (`dpcrt_allocators.c:1258`).
* **mflist_free**: a block that was freed is not available: the guard of
  `mflist__free_block_and_merge` is the opposite of its assertion (l. 671).
* **lexer_escapes** (`StagingMax = 16`, the code's): behind a name of one letter, a string with
  sixteen backslashes before letters leaves the lookahead a byte further ahead with each, and with
  `start_it` 0 and `end_it` 15 a byte is enqueued, against the assertion of
  `staging_area_enqueue` (`dpcrt_lexer_builtin_logic.c:287`, `dpcrt_lexer_core.h:105`). Without
  the name `start_it` is at index 16 when the ring is full, where the assertion holds all the same
  (above). Without assertions `end_it` comes round to `start_it`, and what was staged is
  lost with the ring read as empty.
  The strings of `lexer` are too short for that.
* **spawn_wait** (`SyncAlone = FALSE`): `pal_spawnproc_sync` waits with `waitpid(-1)` and returns with
  another child's status, its own child still running (`dpcrt_pal_linux.c:646`).

Every property of a passing run has a mutant: a definition `Name_Bug` beside the
one it replaces, that a plausible slip would have produced, and that the property
refutes under the same configuration.

### Fairness

* `IStream`: weak fairness of `ReadNextByte`, the client that reads on while there is
  something to read, which is what the lexer's `deque` does with its stream. Not assumed:
  that a read succeeds, that the client sets the stream up, or that it deinits it. The
  property leaves out streams that met a read error or were given up.
* `Lexer`: the lexer and its client are one sequential program that runs on, so the
  whole next-state relation is weakly fair. `FairSpec` spells that out with `pc # "stop"` for
  ENABLED, which TLC would otherwise compute in every state.
* `PalProcess`: the kernel schedules every process; a command reads its input, writes its
  output and then ends; the client closes what it writes to, reads what it reads to the end and then
  waits. Spawning is not fair, nor are the client's writes, nor that a
  command ends before its input does.
* The other modules have none: the allocators are called and return, and reading
  events or comparing times promises no progress.

## What is proved

TLAPS checks the theorems of eight modules, each for every value of the constants that meets
the named assumptions. Every proof has the same course: an inductive invariant, a lemma
for each action that preserves it, and the properties as consequences.

`MPoolProofs`, for every set of chunk addresses, chunk size, header size and
client data, and every block size of at least two words (the block holds its own
header; a one-word block does not, and then `RefinesBlockStore` is false):

* `PoolInvariant`: the inductive invariant `PoolInv`. `FreeListSound` is not inductive
  alone: a free needs to know that the block given back is one of a chunk on the chain
  and in its range, and a new chunk that its memory is nobody's. `PoolInv` adds
  that linked chunks are mapped, that every owned block is in a linked chunk
  (`ClientOK`), that the usage counter covers the owned set (`UsageOK`), and, in one
  existential with the list, that list and owned blocks cover the chunk when all
  addresses are aligned (`ChunkOK`): soundness and coverage must speak of the same list.
* `TypeCorrect`, `FreeListsSafe`, `UsageSafe`: from it.
* `NoBlockLost` and `GrowthOnlyWhenFull`: also every chunk address is a multiple of
  the block size (`AllAligned`); without it every free loses a block.
* `PoolRefinesBlockStore`: each operation maps to one of `BlockStore`, or a stutter.

The lemmas say what popping and pushing do to a free list; the proof goes through the
two ways of popping (an explicit link, the virgin block whose flag moves on) and
through the frames: an operation on one chunk leaves the others' lists alone.

`MArenaProofs`, for every initial size, growth step, payload and client, however often and with
whatever types it adds: `ArenaInvariant`, `ArenaTypeCorrect`, `OverrunIsBounded`,
`CommitsAreValid`, `ArenaRefinesWhileFit` and `ArenaRefinesAtomicStack`. One hypothesis is
about the machine, `U32Holds`: a U32 holds the first size, and what growing makes of any size up to
half of its range (else the growth that is not clamped would wrap). `OverrunIsBounded` needs that
no one addition is larger than the pages a growth adds (`SmallAdditions`), since an arena
grows once per addition. The argument for the refinement: whatever `Fits` let through, a step
with what was accepted inside the buffer before and after it wrote inside the buffer, and
the bytes below are kept by `Extended`. `ArenaRefinesAtomicStack` says it of behaviours in which
that is so throughout (`[]StagedBytesFit`, the claim that `marena_many_adds` refutes).

`MFListProofs`, for every set of addresses, categories and lengths, and headers of which a block's is
no larger than a chunk's, nor than the two links that begin a chunk with the word behind
(`ListAssumption`; the code's are three words and four):
`ListInvariant`, `ListTypeCorrect`, `WalksMeetEveryBlock`, `MaximumIsExact`,
`AllocationsLieInside`, `ListRefinesByteStore`. The invariant `ListInv`: only the last
block of a chunk may be available, blocks are joined and in order, the maximum is the last
block's size if it is available, mappings do not overlap, and every allocation lies in a block of
its own and inside its mapping. Two
hypotheses: `~ClearsLarge` (above), and `RestsAreBlocks`: a least part of a category is two headers
or more, which the code's categories (16 KB and more, a tenth of which is over 1600 bytes)
satisfy; with less, the size of what is cut off could be negative. `MaximumIsExact` is a theorem
about the two halves of the walk: that what the first has seen before the cut and the second after
it are together the blocks there are. The refinement has two hard cases. A
move: the bytes are copied to a new block, and the lemmas say that it meets no other
allocation and that the copy is what both lengths have. And a clear that leaves its chunk: what it
overhangs is less than a block's header, so that in another chunk it meets the chunk's header only,
where no client's word is.

`IStreamProofs`, for every file, cache size and set of handles, without a hypothesis:
`StreamInvariant`, `StreamTypes`, `EachByteInOrder`, `DeinitIsSafe`,
`FalseIsTheEnd`. `StreamInv` adds `Where` to the properties: what the last result and
the position in the buffer tell about what the client has had.

`LexerProofs`, for every set of inputs, clients, arenas and rooms and every ring of two bytes or
more: `LexerInvariant`, `LexerTypeCorrect`, `BytesOnce`, `CountsAreLengths`,
`WalksMeetTokens`, `ReadInvariant`, `PositionsAreExact`, `FalseMeansEnd`, `TextsAreTaken`,
`StringsDecode`, `LexerRefinesTokenStream`, `FewMisplacedHaveRoom`, `FewMisplacedReadExactly`,
`FewMisplacedRefine`. The core of
`LexerInv` is `Sound`: the staged bytes are those that follow what was taken, and the stream has
given those and no others, until the ring overflows (`full`, that is `~NotOverfull`). Each operation of `LexCore` preserves it, so
every recogniser does, whatever it is composed of. `CountsAreLengths` says that a committed
token's length is the number of bytes that the arena accepted for it, although `lex_emit` ignores
what it answered, and `WalksMeetTokens` that so a walk by `tokens_arena_next` goes from commit to
commit and ends at the end of the data, however the arena grew; it supposes a build without
`PACK_WITH_ALIGNMENT`, as the code is, and like the property says nothing once a text was written
past the buffer.
What `ReadInvariant` and the four theorems behind it say is as long as `NotOverfull`: after an
overflow bytes are lost, and the properties are false. `ReadInv` says of each place in `lexer_next_token` from which byte on the
input is stored (`OpenRead`), and that the positions are those of bytes (`PlacesRead`). The lemmas
`ReadsNext`, `ReadsAccept` and `SinceRejects` say how many staged bytes each operation needs and
leaves, so that a recogniser is a sum: what it takes was looked at. `TextsAreTaken` is the first
conjunct of `TextIsSource`.
A string's text is not a stretch of the input but one without some of its bytes. `Stored` says
of the open text that some set of positions is that of the backslashes that escape
(`AreEscaping`), and that the text is the stretch without them, unless one of them precedes
a character that it may not; two bytes that are taken for one that is stored are two steps
of that set (`StoredEscape`).

`StagingHasRoom` is false in general, as `lexer_escapes` shows, and `FewMisplacedHaveRoom`
says when it and `NotOverfull` are true: a backslash in a string before a character that it may not precede
leaves the recogniser one byte further ahead of what it takes (`Drift`), and nothing else does.
`RoomInv` says where each loop of a recogniser stands (`Drifts`): nowhere further ahead
than it took, but for a number by the byte behind an `e`, and for a string by one byte for each
misplaced backslash that it passed. What a step then looks at is at most six bytes, and counts from
there. The hypothesis is `FewMisplaced`: a ring
of seven bytes or more, and no input with more than `StagingMax - 3` backslashes that would be
misplaced in a string; the code's sixteen allow thirteen. Under it the claims made of a
staging area with room hold outright.
The refinement of `TokenStream` has two hypotheses: `AsksForAll`, the client's logic asks for
punctuators and its white space is asked for or eaten, and `KnownPunctuators`, no input holds
`#`, `$` or DEL; without either a token may be empty. Clients and inputs of `lexer` satisfy
both, and `FewMisplaced`, as TLC evaluates (`LexerSuppositions`). `TakesInv` says
of each place in `lexer_next_token` that the token has a byte already, or that the byte ahead is
one its recogniser is sure to take (`Takes`): what the predicates refused, one after the other,
is what an identifier may not begin with.

`PalProcessProofs`, for every set of children and pipes: `ProcessInvariant`,
`ProcessTypes`, `NoEndKept` without a hypothesis; `StatusIsOwn` under `SyncAlone` and
`InputsAreTheClients` under `SpawnsBare`, the two assumptions about the client that
the runs show to be needed. `ProcInv` accounts for each end that the parent holds: it is the
client's, lost, or the current call's, and one of these only.

`PalWatchProofs`: `WatchInvariant`, `ReadsInOrder`, `ReportsAreAsked`, for every number of
watches and events, length of the queue and request. What was delivered and what is queued are
together what happened, and every event is of a bit that its watch was asked for; that the
second conversion undoes the first is a lemma.

`FileTimeProofs`: `TimeInvariant`, `FirstIsRight`, `EarlierIsKept`, for every second and
every smaller carry. The invariant is that the nanoseconds of the two times stay less than
a second apart, however often the second one is carried.

### What is only model-checked

* Liveness (`WholeFileDelivered`, `InputEnds`, `WaitsReturn`, `OutputsEnd`): fairness is beyond
  the prover.
* The second conjunct of `TextIsSource`, on which zeros a text has.

Every other safety property that a run checks, and every refinement, is the conclusion of a
theorem; those that need a hypothesis are named above with it. Of a lexer whose staging area has
overflown, or of texts behind an arena that was written past its buffer, nothing is claimed.

## What is not modelled, and why

* `Mathematics` is floating point; `Strings` declares types; `Threads` and `Sync` are empty;
  the Windows layer is stubs; the glue is declarations. They keep no state.
* The growing buffers and what is built on them do not compile: `BUF_NEW` names an
  undeclared `n`, and the Levenshtein distance keeps its table in such a buffer; the list macros
  name helpers that are not defined; the longest common subsequence is a TODO. Bit packing, byte
  order and hashes are expressions without state.
* `is_c11_comment` and `lex_char_const_or_string_literal` are assertions that they are yet to be
  written; `lex_peek` is called by nothing.
* `pal_init`, with the only compare-and-exchange of the library (`non_thread_safe`), runs before
  `main` in the one thread there is.
* `xmalloc` and its family end the process or return; nothing depends on an order. The
  other calls of the platform layer (mapping, directories, libraries, access information) are single system
  calls; the last leaves `tv_nsec` unset (`dpcrt_pal_linux.c:523`). In
  `PalProcess` a `pipe()` that fails is left out: the code goes on with descriptors of zero.
* In `MArena`, page rounding of the mapping: `marena_del` gives `munmap` a size that is
  rounded to 128 only, which the memory layer's assertion refuses
  (`dpcrt_mem.c:83`); `marena_ask_alignment` computes from `data_size` and so aligns only the
  first addition of a context (l. 1840).
* In `MPool`, block sizes near the chunk's: block 0 is set up whether or not it fits
  (l. 151-158), and the assertion on sizes (l. 321) leaves out the header.
* In `MFList`, requests near 2^32, whose sizes wrap (l. 950), clears of large chunks (l. 796),
  the merges, which no call reaches, and what happens to memory that is not the list's when a block
  that overhangs is cleared.
* In `Lexer`, what happens once a byte was written past the arena's buffer, and arenas of 2 GB.
* In `IStream`, `pal_closefile` is taken to succeed.

## Plan

What remains, the most useful first:

1. The memory layer's pages: what the arena and the lists ask of `mmap`, `mremap` and
   `munmap`, with rounding, as a module that they share.
2. `MFList` with the merges behind the guard of the free path, should it be corrected: `prev_block`
   and the block behind a cut (l. 913) matter only then.
3. The widths of `ALIGN` and of requests, as operators checked at their boundaries.

------------------------------- MODULE MArena -------------------------------
(***************************************************************************)
(* The stack arena of dpcrt_allocators.c and its client.  Bytes are added  *)
(* beyond data_size, counted by alloc_context.staging_size, and become     *)
(* visible when marena_commit moves data_size up to it.                    *)
(***************************************************************************)
EXTENDS Naturals, Sequences

CONSTANTS Byte,         \* what the client writes in a byte; 0 is one
          Junk,         \* what a byte nobody wrote holds
          Payload,      \* byte strings given to marena_add_data
          TypedSizes,   \* sizeof(T) of the marena_add_<type> calls made
          ZeroedSizes,  \* sizes given to marena_add, to be set to zero
          UnsetSizes,   \* sizes given to marena_add, to be left as they are
          Alignments,   \* alignments given to marena_ask_alignment
          InitSizes,    \* sizes given to marena_new
          MinSP,        \* MARENA_MINIMUM_ALLOWED_STACK_POINTER_VALUE
          SizeRounding, \* the 128 that marena_new_aux rounds the size to
          GrowStep,     \* the 8 pages that marena_grow adds
          MaxU32,       \* U32_MAX
          CanRealloc,   \* realloc_strategy # ReallocStrategy_None
          ForceRealloc, \* a debug build reallocates at every push
          MaxStaged     \* bound: the client adds to at most so many staged bytes

ASSUME ArenaAssumption ==
    /\ Byte \subseteq Nat /\ 0 \in Byte /\ Junk \in Nat
    /\ Payload \subseteq Seq(Byte)
    /\ TypedSizes \subseteq Nat \ {0} /\ ZeroedSizes \cup UnsetSizes \subseteq Nat
    /\ Alignments \subseteq Nat \ {0} /\ InitSizes \subseteq Nat \ {0}
    /\ MinSP \in Nat \ {0} /\ SizeRounding \in Nat \ {0} /\ GrowStep \in Nat \ {0}
    /\ MaxU32 \in Nat /\ MaxStaged \in Nat \ {0}
    /\ CanRealloc \in BOOLEAN /\ ForceRealloc \in BOOLEAN

Cell == Byte \cup {Junk}

VARIABLES buffer,        \* the allocated bytes, 0 .. data_max_size - 1
          data_size,
          data_max_size, \* 0 when there is no buffer
          staging_size,  \* alloc_context.staging_size; 0 outside a context
          failed,        \* alloc_context.failed
          overrun,       \* some write fell outside the buffer
          ref            \* what the last marena_commit returned

vars == <<buffer, data_size, data_max_size, staging_size, failed, overrun, ref>>

Valid == data_max_size # 0

InContext == Valid /\ staging_size # 0

-----------------------------------------------------------------------------
RoundUp(n, a) == ((n + a - 1) \div a) * a

\* Mutants (Name_Bug): a bug of a line each, that a property must find.
Grown_Unclamped(max) == (5 * max) \div 4 + GrowStep

Grown_NoPages(max) == IF 2 * max > MaxU32 THEN MaxU32 ELSE (5 * max) \div 4

\* marena_grow's new size: all of a U32 once doubling would overflow one.
Grown(max) == IF 2 * max > MaxU32 THEN MaxU32 ELSE (5 * max) \div 4 + GrowStep

CanGrow == CanRealloc /\ data_max_size # MaxU32

Extended_NoCopy(newsize) == [i \in 0..(newsize - 1) |-> Junk]

\* mem_realloc keeps the bytes that were there.
Extended(newsize) ==
    [i \in 0..(newsize - 1) |-> IF i < data_max_size THEN buffer[i] ELSE Junk]

Put(buf, at, s) ==
    [i \in DOMAIN buf |-> IF i >= at /\ i < at + Len(s) THEN s[i - at + 1] ELSE buf[i]]

Fits_Exactly(size) == data_size + size <= data_max_size

\* marena_accomodate_for_size asks whether what is committed, and not what is
\* staged, leaves room for the new bytes.
Fits(size) == data_size + size < data_max_size

\* marena_ensure_add_operation_is_possible finds or makes room.
Accomodated(size) ==
    /\ ~failed
    /\ staging_size + size <= MaxU32
    /\ \/ /\ Fits(size)
          /\ UNCHANGED data_max_size
       \/ /\ ~Fits(size)
          /\ CanGrow
          /\ data_max_size' = Grown(data_max_size)

\* It does not: the context failed, the size overflows, the arena may not or
\* cannot grow, or the reallocation failed.
Refused(size) ==
    \/ failed
    \/ staging_size + size > MaxU32
    \/ ~Fits(size)
    \/ ForceRealloc /\ CanRealloc

\* An addition of `size` bytes that writes the string s at offset `at`.
AddBytes(size, at, s) ==
    /\ InContext
    /\ staging_size - data_size <= MaxStaged
    /\ \/ /\ Accomodated(size)
          /\ buffer' = Put(IF data_max_size' = data_max_size
                           THEN buffer ELSE Extended(data_max_size'), at, s)
          /\ staging_size' = staging_size + size
          /\ overrun' = (overrun \/ (s # <<>> /\ at + Len(s) > data_max_size'))
          /\ UNCHANGED failed
       \/ /\ Refused(size)
          /\ failed' = TRUE
          /\ UNCHANGED <<buffer, data_max_size, staging_size, overrun>>
    /\ UNCHANGED <<data_size, ref>>

Zeros(n) == [i \in 1..n |-> 0]

-----------------------------------------------------------------------------
Init ==
    /\ buffer = [i \in {} |-> Junk]
    /\ data_size = 0
    /\ data_max_size = 0
    /\ staging_size = 0
    /\ failed = FALSE
    /\ overrun = FALSE
    /\ ref = 0

\* marena_new, marena_new_aux, the allocation having succeeded (the arena is
\* left zeroed if it fails).
New(n) ==
    /\ ~Valid
    /\ data_max_size' = RoundUp(RoundUp(n, MinSP), SizeRounding)
    /\ buffer' = [i \in 0..(data_max_size' - 1) |-> Junk]
    /\ data_size' = MinSP
    /\ UNCHANGED <<staging_size, failed, overrun, ref>>

\* marena_begin
Begin ==
    /\ Valid
    /\ staging_size = 0
    /\ staging_size' = data_size
    /\ UNCHANGED <<buffer, data_size, data_max_size, failed, overrun, ref>>

\* marena_add, that sets the bytes to zero or leaves them as they are.
AddZeroed(n) == AddBytes(n, staging_size, Zeros(n))

AddUnset(n) == AddBytes(n, staging_size, <<>>)

\* marena_add_data, and through it marena_add_pstr32 and _str32_nodata.
AddData(s) == AddBytes(Len(s), staging_size, s)

\* marena_add_pointer, _byte, _char .. _usize: the pointer the staging size is
\* added to is a pointer to T, so that the offset is in units of sizeof(T).
AddTyped(n, v) == AddBytes(n, n * staging_size, [i \in 1..n |-> v])

\* What marena_ask_alignment adds, for a buffer that starts aligned.
Padding(a) == RoundUp(data_size, a) - data_size

\* marena_ask_alignment
AskAlignment(a) == AddZeroed(Padding(a))

Commit_RefAfter ==
    /\ InContext
    /\ IF failed
       THEN ref' = 0 /\ UNCHANGED data_size
       ELSE ref' = staging_size /\ data_size' = staging_size
    /\ staging_size' = 0
    /\ failed' = FALSE
    /\ UNCHANGED <<buffer, data_max_size, overrun>>

\* marena_commit, with the marena_dismiss it ends in.
Commit ==
    /\ InContext
    /\ IF failed
       THEN ref' = 0 /\ UNCHANGED data_size
       ELSE ref' = data_size /\ data_size' = staging_size
    /\ staging_size' = 0
    /\ failed' = FALSE
    /\ UNCHANGED <<buffer, data_max_size, overrun>>

\* What marena_unpack_ref__unsafe asserts of the reference it is given.
Unpackable(r) == r >= MinSP /\ r < data_size

\* marena_dismiss
Dismiss ==
    /\ InContext
    /\ staging_size' = 0
    /\ failed' = FALSE
    /\ UNCHANGED <<buffer, data_size, data_max_size, overrun, ref>>

\* marena_pop_upto
PopUpto(r) ==
    /\ Valid
    /\ staging_size = 0
    /\ r >= MinSP /\ r < data_size
    /\ data_size' = r
    /\ UNCHANGED <<buffer, data_max_size, staging_size, failed, overrun, ref>>

\* marena_clear
Clear ==
    /\ Valid
    /\ staging_size = 0
    /\ data_size' = MinSP
    /\ failed' = FALSE
    /\ UNCHANGED <<buffer, data_max_size, staging_size, overrun, ref>>

\* marena_del
Del ==
    /\ Valid
    /\ buffer' = [i \in {} |-> Junk]
    /\ data_size' = 0
    /\ data_max_size' = 0
    /\ staging_size' = 0
    /\ failed' = FALSE
    /\ UNCHANGED <<overrun, ref>>

Next ==
    \/ \E n \in InitSizes : New(n)
    \/ Begin
    \/ \E n \in ZeroedSizes : AddZeroed(n)
    \/ \E n \in UnsetSizes : AddUnset(n)
    \/ \E s \in Payload : AddData(s)
    \/ \E n \in TypedSizes, v \in Byte : AddTyped(n, v)
    \/ \E a \in Alignments : AskAlignment(a)
    \/ Commit
    \/ Dismiss
    \/ \E r \in MinSP..data_size : PopUpto(r)
    \/ Clear
    \/ Del

Spec == Init /\ [][Next]_vars

-----------------------------------------------------------------------------
TypeOK ==
    /\ data_size \in 0..MaxU32
    /\ data_max_size \in 0..MaxU32
    /\ buffer \in [0..(data_max_size - 1) -> Cell]
    /\ staging_size \in 0..MaxU32
    /\ failed \in BOOLEAN /\ overrun \in BOOLEAN
    /\ ref \in 0..MaxU32

\* "They all return a bool saying if the request successed"
\* (dpcrt_allocators.h): bytes that an add accepted lie inside the buffer, and
\* so do those that are committed.  Fits ignores what is staged, so that this
\* fails once a context is added to more than once.
StagedBytesFit ==
    /\ ~overrun
    /\ staging_size <= data_max_size
    /\ data_size <= data_max_size

\* What does hold: the sizes run past the buffer by fewer bytes than were staged
\* when a byte was last added, however many contexts follow one another, because
\* a context that starts past the end makes the arena grow.
OverrunBounded ==
    Valid => /\ data_size < data_max_size + MaxStaged
             /\ staging_size < data_max_size + MaxStaged

\* A commit of some bytes of which no addition failed returns a reference that
\* marena_unpack_ref__unsafe takes.
CommitReturnsValidRef ==
    [][Commit /\ staging_size > data_size /\ ~failed => Unpackable(ref)']_vars

\* The bytes of a buffer from offset `from` up to offset `upto`, those outside
\* the buffer being anyone's.
Bytes(buf, from, upto) ==
    [i \in 1..(upto - from) |->
        IF from + i - 1 \in DOMAIN buf THEN buf[from + i - 1] ELSE Junk]

CommittedBytes == IF Valid THEN Bytes(buffer, MinSP, data_size) ELSE <<>>

StagedBytes == IF InContext THEN Bytes(buffer, data_size, staging_size) ELSE <<>>

\* The byte strings that additions append.
Added == Payload \cup {Zeros(n) : n \in 0..MaxU32}
           \cup {[i \in 1..1 |-> v] : v \in Byte}

\* What is added without being set: a wide value lands elsewhere, above.
LeftUnset == UnsetSizes \cup (TypedSizes \ {1})

Client == INSTANCE AtomicStack
            WITH committed <- CommittedBytes, staged <- StagedBytes,
                 open <- InContext, Payload <- Added, Unset <- LeftUnset

\* The arena implements the abstract stack in every step before and after which
\* StagedBytesFit holds: what a client added is what it finds once committed,
\* across reallocations, refused adds, dismissed contexts and pops, and nothing
\* that happens above data_size shows below it.
RefinesWhileFit ==
    /\ Client!Init
    /\ [][StagedBytesFit /\ StagedBytesFit'
            => [Client!Next]_(Client!vars)]_vars

\* The arena implements the abstract stack; of a behaviour in which every
\* addition fits.
RefinesAtomicStack == Client!Spec
=============================================================================

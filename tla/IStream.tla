------------------------------ MODULE IStream ------------------------------
(***************************************************************************)
(* The buffered input stream of dpcrt_streams.c, the file handle it reads  *)
(* and its client.  A refill asks the kernel for a cacheful and gets some  *)
(* bytes, none (the end), or an error; there is no refill before the byte  *)
(* that empties the buffer has been read.                                  *)
(***************************************************************************)
EXTENDS Integers, Sequences

CONSTANTS File,       \* the contents of the files there are
          Handle,     \* the handles open() may return, above the standard three
          CacheSize   \* ISTREAM_CACHE_BUFFER_SIZE

ASSUME StreamAssumption ==
    /\ \A f \in File : f \in Seq(Nat)
    /\ Handle \subseteq Nat \ {0, 1, 2}
    /\ CacheSize \in Nat \ {0}

VARIABLES fh,         \* the stream's handle
          buffer,     \* the buffer_len bytes of its buffer
          buffer_it,
          content,    \* the file behind the handle
          offset,     \* how much of it read() has returned
          erred,      \* a read() of it failed
          opened,     \* the handles the process has open
          got,        \* the client's: the bytes its reads stored
          shown,      \* those of them that came with TRUE
          result      \* what the last init or read returned

client == <<got, shown>>

vars == <<fh, buffer, buffer_it, content, offset, erred, opened, got, shown, result>>

Invalid == -1

Stdin == 0

Standard == 0..2

-----------------------------------------------------------------------------
(* istream__refill_buffer, from buffer `old`, position `it` and offset `o`. *)

\* Mutants (Name_Bug): a bug of a line each, that a property must find.
Readable_Over(f, o) == {n \in 1..(CacheSize + 1) : o + n <= Len(f)}

\* pal_readfile returns n bytes, none once the file has no more.
Readable(f, o) ==
    {n \in 1..CacheSize : o + n <= Len(f)}

Refilled_NotRewound(f, o) ==
    \E n \in Readable(f, o) :
        /\ buffer' = SubSeq(f, o + 1, o + n)
        /\ buffer_it' = buffer_it + 1
        /\ offset' = o + n
        /\ result' = TRUE

Refilled(f, o) ==
    \E n \in Readable(f, o) :
        /\ buffer' = SubSeq(f, o + 1, o + n)
        /\ buffer_it' = 0
        /\ offset' = o + n
        /\ result' = TRUE

\* The buffer stays as it was.
NotRefilled(o, old, it) ==
    /\ buffer' = old
    /\ buffer_it' = it
    /\ offset' = o
    /\ result' = FALSE

\* read() gives some bytes, or is at the end of the file, or fails.
Refill(f, o, old, it) ==
    \/ Refilled(f, o) /\ UNCHANGED erred
    \/ Readable(f, o) = {} /\ NotRefilled(o, old, it) /\ UNCHANGED erred
    \/ erred' = TRUE /\ NotRefilled(o, old, it)

-----------------------------------------------------------------------------
Init ==
    /\ fh = Stdin
    /\ buffer = <<>>
    /\ buffer_it = 0
    /\ content = <<>>
    /\ offset = 0
    /\ erred = FALSE
    /\ opened = Standard
    /\ got = <<>>
    /\ shown = <<>>
    /\ result = FALSE

\* The client sets a stream up only when it holds no file, as after deinit.
Idle == fh \notin Handle /\ buffer = <<>>

\* istream_init_from_file; it returns FALSE with the file left open when the
\* first read gives nothing.
InitFromFile(f, h) ==
    /\ Idle
    /\ h \notin opened
    /\ fh' = h
    /\ opened' = opened \cup {h}
    /\ content' = f
    /\ Refill(f, 0, <<>>, 0)
    /\ UNCHANGED client

\* The file could not be opened.
InitFails ==
    /\ Idle
    /\ fh' = Invalid
    /\ result' = FALSE
    /\ UNCHANGED <<buffer, buffer_it, content, offset, erred, opened, got, shown>>

\* istream_init_from_filehandle on the standard input.
InitFromStdin(f) ==
    /\ Idle
    /\ fh' = Stdin
    /\ content' = f
    /\ Refill(f, 0, <<>>, 0)
    /\ UNCHANGED <<opened, got, shown>>

PeekSucceeds_Short == buffer_it + 1 < Len(buffer)

\* istream_peek_byte
PeekSucceeds == buffer_it < Len(buffer)

ReadNextByte_NoRefill ==
    /\ PeekSucceeds
    /\ got' = Append(got, buffer[buffer_it + 1])
    /\ buffer_it' = buffer_it + 1
    /\ result' = TRUE
    /\ shown' = got'
    /\ UNCHANGED <<fh, buffer, content, offset, erred, opened>>

\* istream_read_next_byte: the byte goes to the client, then the position
\* moves and, if that exhausts the buffer, a refill decides what is returned.
ReadNextByte ==
    /\ PeekSucceeds
    /\ got' = Append(got, buffer[buffer_it + 1])
    /\ IF buffer_it + 1 = Len(buffer)
       THEN Refill(content, offset, buffer, buffer_it + 1)
       ELSE /\ buffer_it' = buffer_it + 1
            /\ result' = TRUE
            /\ UNCHANGED <<buffer, offset, erred>>
    /\ shown' = IF result' THEN got' ELSE shown
    /\ UNCHANGED <<fh, content, opened>>

ReadAtEnd ==
    /\ ~PeekSucceeds
    /\ result' = FALSE
    /\ UNCHANGED <<fh, buffer, buffer_it, content, offset, erred, opened, got, shown>>

Closes(close) == close /\ fh # Invalid /\ fh \notin Standard

Deinit_HandleKept(close) ==
    /\ opened' = IF Closes(close) THEN opened \ {fh} ELSE opened
    /\ buffer' = <<>> /\ buffer_it' = 0
    /\ content' = <<>> /\ offset' = 0 /\ erred' = FALSE
    /\ got' = <<>> /\ shown' = <<>>
    /\ UNCHANGED <<fh, result>>

\* istream_deinit
Deinit(close) ==
    /\ opened' = IF Closes(close) THEN opened \ {fh} ELSE opened
    /\ fh' = Stdin
    /\ buffer' = <<>> /\ buffer_it' = 0
    /\ content' = <<>> /\ offset' = 0 /\ erred' = FALSE
    /\ got' = <<>> /\ shown' = <<>>
    /\ UNCHANGED result

Next ==
    \/ \E f \in File, h \in Handle : InitFromFile(f, h)
    \/ InitFails
    \/ \E f \in File : InitFromStdin(f)
    \/ ReadNextByte
    \/ ReadAtEnd
    \/ \E close \in BOOLEAN : Deinit(close)

Spec == Init /\ [][Next]_vars

\* A client that reads on while there is something to read, as the lexer does.
FairSpec == Spec /\ WF_vars(ReadNextByte)

-----------------------------------------------------------------------------
TypeOK ==
    /\ fh \in {Invalid} \cup Standard \cup Handle
    /\ buffer \in Seq(Nat) /\ Len(buffer) <= CacheSize
    /\ buffer_it \in 0..Len(buffer)
    /\ content \in File \cup {<<>>}
    /\ offset \in 0..Len(content)
    /\ erred \in BOOLEAN
    /\ opened \in SUBSET (Standard \cup Handle)
    /\ got \in Seq(Nat) /\ shown \in Seq(Nat)
    /\ result \in BOOLEAN

\* The bytes the client was given and those still buffered are together what
\* read() returned, in order: no refill, short, empty or failed, repeats or
\* drops a byte.
NothingRepeatedOrSkipped ==
    got \o SubSeq(buffer, buffer_it + 1, Len(buffer)) = SubSeq(content, 1, offset)

\* The handle istream_deinit would close is open, however often it was called
\* before, and the standard streams are never closed.
ClosesOnlyOpenFiles ==
    /\ fh \notin {Invalid} \cup Standard => fh \in opened
    /\ Standard \subseteq opened

\* A stream no read() of which failed says FALSE only when it has given its
\* client the whole file, the last byte with that FALSE: a loop that uses a byte
\* when it came with TRUE, as the one in dpcrt_streams.h does, misses that one.
FalseOnlyAtEnd ==
    ~result /\ ~erred =>
        /\ got = content
        /\ shown = SubSeq(content, 1, Len(content) - 1)

\* Every byte of a file reaches the client, unless it gives the stream up or a
\* read() fails, which no later read recovers from.
WholeFileDelivered ==
    \A f \in File : content = f ~> (got = f \/ content # f \/ erred)
=============================================================================

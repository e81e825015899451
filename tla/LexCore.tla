------------------------------- MODULE LexCore -------------------------------
(***************************************************************************)
(* What a lexer does with single bytes (dpcrt_lexer_core.h): the ring of   *)
(* bytes it has looked at and not yet taken, and the operations on it.     *)
(* Each operation is an operator from a lexer to a lexer.  A lexer is a    *)
(* record:                                                                 *)
(*   src, off             the bytes its stream will give, how many it gave *)
(*   start_it, end_it, it, buf   the staging area                          *)
(*   err, emitted_cnt, line_num, column   the fields of those names        *)
(*   arena                the tokens' arena: its data_size, data_max_size, *)
(*                        and history: a byte was written outside of it    *)
(*   text, room, failed   its open context: the text that is staged behind *)
(*                        a token, how many more additions are granted     *)
(*                        memory, and whether one was not                  *)
(*   taken                history: how many bytes were taken               *)
(*   full, asserted       history: a byte was enqueued with no position    *)
(*                        left for it; with staging_area_is_full           *)
(***************************************************************************)
EXTENDS Naturals, Sequences

CONSTANTS Byte,       \* the bytes of inputs; each printing character is itself
          StagingMax, \* LEXER_STAGING_AREA_MAX_SIZE
          TokenSize,  \* sizeof(struct token), that is the offset of its text
          GrowStep    \* the 8 pages that marena_grow adds

ASSUME StagingAssumption == StagingMax \in Nat /\ StagingMax >= 2

ASSUME TokenAssumption == TokenSize \in Nat \ {0} /\ GrowStep \in Nat \ {0}

ASSUME ByteAssumption == {"NUL", "<", ">", "&", "'", "\""} \subseteq Byte

Nul == "NUL"

Eof == "EOF"  \* byte 255, which is -1 in a char

Etx == "ETX"

\* "CTRL" stands for the control characters that are not spaces and for the
\* bytes above 127 but 255, "VT" for \v, "DEL" for 127.
InvalidChars == {"NUL", "EOF", "CTRL", "DEL"}

Errors == {"OutOfMem", "InvalidInputBytes", "InvalidString", "PrematureEndOfString"}

-----------------------------------------------------------------------------
(* The staging area.  Positions run from 0 to StagingMax, one more than    *)
(* the array has; the byte after the array is padding of the structure.    *)

\* Mutants (Name_Bug): a bug of a line each, that a property must find.
Inc_TooFar(i) == IF i > StagingMax THEN 0 ELSE i + 1

\* STAGING_AREA_ITERATOR_INC_AND_WRAP
Inc(i) == IF i = StagingMax THEN 0 ELSE i + 1

\* The position k after i.
Index(i, k) == IF i + k > StagingMax THEN i + k - StagingMax - 1 ELSE i + k

\* How far position j is ahead of i.
Distance(i, j) == IF j >= i THEN j - i ELSE j + StagingMax + 1 - i

IsEmpty(lx) == lx.end_it = lx.start_it

\* staging_area_is_full, which staging_area_enqueue asserts is not so.
IsFull(lx) == (lx.end_it + 1) % StagingMax = lx.start_it

Staged(lx) == Distance(lx.start_it, lx.end_it)

\* There is no room: with one byte more end_it meets start_it, and the staging
\* area reads as empty.  IsFull may hold sooner, or not at all.
Overfull(lx) == Staged(lx) = StagingMax

Enqueue(lx, c) ==
    [lx EXCEPT !.buf[lx.end_it] = c,
               !.end_it = Inc(lx.end_it),
               !.full = lx.full \/ Overfull(lx),
               !.asserted = lx.asserted \/ IsFull(lx)]

Undo_Missing(lx) == lx

Undo(lx) == [lx EXCEPT !.it = lx.start_it]

-----------------------------------------------------------------------------
(* The bytes.                                                              *)

\* The stream's next byte.
StreamByte(lx) == lx.src[lx.off + 1]

HasByte_NotLast(lx) == lx.off + 1 < Len(lx.src)

\* istream_peek_char succeeds.
HasByte(lx) == lx.off < Len(lx.src)

IsEnd(lx) ==
    IF IsEmpty(lx)
    THEN HasByte(lx) => StreamByte(lx) \in {Eof, Etx, Nul}
    ELSE lx.buf[lx.start_it] \in {Eof, Nul}

NextChar_Checked(lx) ==
    IF lx.it # lx.end_it THEN lx.buf[lx.it]
    ELSE IF lx.off + 1 < Len(lx.src) THEN StreamByte(lx)
    ELSE Nul

\* What next() returns: a byte looked at before, or the stream's, or 0 after
\* the stream's last.
NextChar(lx) ==
    IF lx.it # lx.end_it THEN lx.buf[lx.it]
    ELSE IF HasByte(lx) THEN StreamByte(lx)
    ELSE Nul

\* The stream's byte is staged; that the read says FALSE with the last byte
\* makes no difference to next().
Fetched(lx) ==
    LET c == NextChar(lx)
    IN [Enqueue(lx, c) EXCEPT
          !.off = IF HasByte(lx) THEN lx.off + 1 ELSE lx.off,
          !.err = IF c # Nul /\ c \in InvalidChars
                  THEN lx.err \cup {"InvalidInputBytes"} ELSE lx.err]

Next_ChecksStaged(lx) ==
    LET l == IF lx.it # lx.end_it THEN lx ELSE Fetched(lx)
        c == NextChar(lx)
    IN [l EXCEPT !.it = Inc(lx.it),
                 !.err = IF c # Nul /\ c \in InvalidChars
                         THEN lx.err \cup {"InvalidInputBytes"} ELSE lx.err]

Next(lx) ==
    LET l == IF lx.it # lx.end_it THEN lx ELSE Fetched(lx)
    IN [l EXCEPT !.it = Inc(lx.it)]

Next2(lx) == Next(Next(lx))

Next3(lx) == Next(Next2(lx))

Next4(lx) == Next(Next3(lx))

Next6(lx) == Next3(Next3(lx))

\* The n bytes that next() returned between `before` and `after`.
Seen(before, after, n) == [k \in 1..n |-> after.buf[Index(before.it, k - 1)]]

DequeChar_AtIt(lx) ==
    IF ~IsEmpty(lx) THEN lx.buf[lx.it]
    ELSE IF lx.off + 1 < Len(lx.src) THEN StreamByte(lx)
    ELSE Nul

\* deque() of an empty staging area reads the stream, and takes a read that
\* says FALSE for one that gave nothing.
DequeChar(lx) ==
    IF ~IsEmpty(lx) THEN lx.buf[lx.start_it]
    ELSE IF lx.off + 1 < Len(lx.src) THEN StreamByte(lx)
    ELSE Nul

\* staging_area_deque: a position still at the first byte moves with it.
Dropped(lx) ==
    [lx EXCEPT !.it = IF lx.it = lx.start_it THEN Inc(lx.it) ELSE lx.it,
               !.start_it = Inc(lx.start_it)]

Reject_NoColumn(lx) ==
    LET l == IF ~IsEmpty(lx) THEN Dropped(lx)
             ELSE IF HasByte(lx) THEN [lx EXCEPT !.off = lx.off + 1]
             ELSE lx
        newline == DequeChar(lx) = "\n"
    IN [l EXCEPT !.column = lx.column + 1,
                 !.line_num = IF newline THEN lx.line_num + 1 ELSE lx.line_num,
                 !.taken = lx.taken + 1]

\* lex_reject, that is deque() with its value dropped.
Reject(lx) ==
    LET l == IF ~IsEmpty(lx) THEN Dropped(lx)
             ELSE IF HasByte(lx) THEN [lx EXCEPT !.off = lx.off + 1]
             ELSE lx
        newline == DequeChar(lx) = "\n"
    IN [l EXCEPT !.column = IF newline THEN 0 ELSE lx.column + 1,
                 !.line_num = IF newline THEN lx.line_num + 1 ELSE lx.line_num,
                 !.taken = lx.taken + 1]

Reject2(lx) == Reject(Reject(lx))

Reject3(lx) == Reject(Reject2(lx))

Reject4(lx) == Reject2(Reject2(lx))

\* marena_grow, for an arena of less than 2 GB.
Grown(max) == (5 * max) \div 4 + GrowStep

\* The arena that n more bytes behind those staged are added to: to see whether
\* it has to grow, marena_accomodate_for_size looks at what is committed only.
Accomodated(arena, n, staged) ==
    LET max == IF arena.data_size + n < arena.data_max
               THEN arena.data_max ELSE Grown(arena.data_max)
    IN  [arena EXCEPT !.data_max = max,
                      !.spilled = arena.spilled \/ arena.data_size + staged + n > max]

\* The byte goes into the open context of the arena, or fails it for good.
Added(lx, c) ==
    IF lx.room > 0 /\ ~lx.failed
    THEN [lx EXCEPT !.text = Append(lx.text, c),
                    !.room = lx.room - 1,
                    !.arena = Accomodated(lx.arena, 1, TokenSize + Len(lx.text))]
    ELSE [lx EXCEPT !.failed = TRUE]

Emit_CountsRefused(lx, c) ==
    IF lx.err \cap {"OutOfMem", "InvalidInputBytes"} = {}
    THEN [Added(lx, c) EXCEPT !.emitted_cnt = lx.emitted_cnt + 1]
    ELSE [lx EXCEPT !.emitted_cnt = lx.emitted_cnt + 1]

\* lex_emit: what marena_add_char returned is not looked at.
Emit(lx, c) ==
    IF lx.err \cap {"OutOfMem", "InvalidInputBytes"} = {}
    THEN [Added(lx, c) EXCEPT !.emitted_cnt = lx.emitted_cnt + 1]
    ELSE lx

Accept(lx) == Emit(Reject(lx), DequeChar(lx))

Accept2(lx) == Accept(Accept(lx))

Accept3(lx) == Accept(Accept2(lx))

-----------------------------------------------------------------------------
(* Character classes and tables (dpcrt_lexer_builtin_logic.c).             *)

Digits == {"0", "1", "2", "3", "4", "5", "6", "7", "8", "9"}

\* The letters that the loop over hexadecimal digits knows: not `e`.
HexLetters == {"a", "A", "b", "B", "c", "C", "d", "D", "f", "F"}

WhitespaceChars == {" ", "\t", "\n", "\r", "VT", "\f"}

PunctuatorChars ==
    {"!", "\"", "#", "$", "%", "&", "'", "(", ")", "*", "+", ",", "-", ".", "/",
     ":", ";", "<", "=", ">", "?", "@", "[", "\\", "]", "^", "{", "|", "}", "~", "DEL"}

\* What lex_c11_punctuator has a branch for, of three, two and one characters.
Punctuators3 == {<<".", ".", ".">>, <<">", ">", "=">>, <<"<", "<", "=">>}

Punctuators2 ==
    {<<"+", "+">>, <<"+", "=">>, <<"-", "-">>, <<"-", ">">>, <<"-", "=">>,
     <<"*", "=">>, <<"/", "=">>, <<"/", ">">>, <<"%", "=">>, <<"=", "=">>,
     <<"!", "=">>, <<">", "=">>, <<">", ">">>, <<"<", "=">>, <<"<", "<">>,
     <<"&", "=">>, <<"&", "&">>, <<"|", "=">>, <<"|", "|">>, <<"^", "=">>}

Punctuators1_NoAnd == PunctuatorChars \ {"#", "$", "DEL", "&"}

Punctuators1 == PunctuatorChars \ {"#", "$", "DEL"}

PunctuatorLength(c) ==
    IF c \in Punctuators3 THEN 3
    ELSE IF SubSeq(c, 1, 2) \in Punctuators2 THEN 2
    ELSE IF c[1] \in Punctuators1 THEN 1
    ELSE 0

XmlEscapes ==
    {<<"&", "l", "t", ";">>, <<"&", "g", "t", ";">>, <<"&", "a", "m", "p", ";">>,
     <<"&", "a", "p", "o", "s", ";">>, <<"&", "q", "u", "o", "t", ";">>}

EscapedChar(e) ==
    CASE e[2] = "l" -> "<"
      [] e[2] = "g" -> ">"
      [] e[2] = "q" -> "\""
      [] OTHER -> IF e[3] = "m" THEN "&" ELSE "'"

\* The escape sequences that six bytes begin with: one or none.
EscapesAt(c) == {e \in XmlEscapes : SubSeq(c, 1, Len(e)) = e}
=============================================================================

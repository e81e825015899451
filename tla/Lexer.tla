-------------------------------- MODULE Lexer --------------------------------
(***************************************************************************)
(* lexer_next_token (dpcrt_lexer.c) with the recognisers of                *)
(* dpcrt_lexer_builtin_logic.c and a client that calls it until it says    *)
(* FALSE.  The client's lex_logic asks some of the is_ predicates in turn  *)
(* and calls the recogniser of the first that holds, or else               *)
(* lex_identifier_or_keyword.  One step is one turn of a loop.             *)
(***************************************************************************)
EXTENDS LexCore, FiniteSets

CONSTANTS Inputs,            \* what the stream may hold
          Clients,           \* records: eat_whitespaces_automatically, the predicates
          ArenaBegin,        \* MARENA_MINIMUM_ALLOWED_STACK_POINTER_VALUE
          ArenaSizes,        \* data_max_size of the arenas given
          Rooms,             \* how many additions of a token may be granted memory
          PackWithAlignment  \* TOKENS_ARENA_PACK_WITH_ALIGNMENT: defined nowhere

Recognisers == {"comment", "escape", "string", "number", "punctuator", "spaces"}

ASSUME LexerAssumption ==
    /\ Inputs \subseteq Seq(Byte)
    /\ Clients \subseteq [eat : BOOLEAN, tests : Seq(Recognisers)]
    /\ Rooms \subseteq Nat

ASSUME TokensArenaAssumption ==
    /\ ArenaBegin \in Nat
    /\ ArenaSizes \subseteq {n \in Nat : n > ArenaBegin}
    /\ PackWithAlignment \in BOOLEAN

VARIABLES lx,      \* the lexer, its stream and the open context of its arena
          client,  \* the client's settings
          pc,      \* where lexer_next_token is
          todo,    \* the predicates the client's logic has yet to ask
          tok,     \* the locals of next_token and of the recogniser
          tokens,  \* the tokens committed
          result,  \* what lexer_next_token returned last
          oom      \* history: the arena refused a token

vars == <<lx, client, pc, todo, tok, tokens, result, oom>>

\* lexer_init, and an empty arena of n bytes.
Fresh(s, n) ==
    [src |-> s, off |-> 0,
     start_it |-> 0, end_it |-> 0, it |-> 0, buf |-> [i \in 0..StagingMax |-> Nul],
     err |-> {}, emitted_cnt |-> 0, line_num |-> 1, column |-> 0,
     arena |-> [data_size |-> ArenaBegin, data_max |-> n, spilled |-> FALSE],
     text |-> <<>>, room |-> 0, failed |-> FALSE, taken |-> 0,
     full |-> FALSE, asserted |-> FALSE]

NoToken ==
    [kind |-> "null", line_num |-> 0, column |-> 0, from |-> 0,
     delimiter |-> Nul, is_hex |-> FALSE, dot_found |-> FALSE, exponent_found |-> FALSE]

Init ==
    /\ lx \in {Fresh(s, n) : s \in Inputs, n \in ArenaSizes}
    /\ client \in Clients
    /\ pc = "idle"
    /\ todo = <<>>
    /\ tok = NoToken
    /\ tokens = <<>>
    /\ result = TRUE
    /\ oom = FALSE

\* The step leaves the lexer as l and goes on at p.
Goto(l, p) ==
    /\ lx' = l
    /\ pc' = p
    /\ UNCHANGED <<client, todo, tokens, result, oom>>

\* As Goto, with the locals unchanged.
On(l, p) == Goto(l, p) /\ UNCHANGED tok

Return(l, r, p) ==
    /\ lx' = l
    /\ result' = r
    /\ pc' = p

-----------------------------------------------------------------------------
(* lexer_next_token up to the client's logic.                              *)

Called == [lx EXCEPT !.emitted_cnt = 0, !.err = {}]

CallAtEnd ==
    /\ pc = "idle" /\ IsEnd(lx)
    /\ Return(Called, FALSE, "stop")
    /\ UNCHANGED <<client, todo, tok, tokens, oom>>

Call ==
    /\ pc = "idle" /\ ~IsEnd(lx)
    /\ On(Called, IF client.eat THEN "eat" ELSE "open")

EatWhitespace ==
    /\ pc = "eat" /\ ~IsEnd(lx)
    /\ NextChar(lx) \in WhitespaceChars
    /\ On(Reject(Next(lx)), "eat")

StopEating ==
    /\ pc = "eat"
    /\ \/ IsEnd(lx) /\ On(Undo(lx), "open")
       \/ /\ ~IsEnd(lx) /\ NextChar(lx) \notin WhitespaceChars
          /\ On(Undo(Next(lx)), "open")

OpenAtEnd ==
    /\ pc = "open" /\ IsEnd(lx)
    /\ Return(lx, FALSE, "stop")
    /\ UNCHANGED <<client, todo, tok, tokens, oom>>

\* Skipping white space met an invalid byte: no token, with TRUE.
OpenInvalid ==
    /\ pc = "open" /\ ~IsEnd(lx) /\ lx.err # {}
    /\ Return(lx, TRUE, "idle")
    /\ UNCHANGED <<client, todo, tok, tokens, oom>>

\* There is no memory for the structure: the context is dismissed.
OpenWithoutRoom ==
    /\ pc = "open" /\ ~IsEnd(lx) /\ lx.err = {}
    /\ 0 \in Rooms
    /\ Return(lx, FALSE, "stop")
    /\ oom' = TRUE
    /\ UNCHANGED <<client, todo, tok, tokens>>

Open ==
    /\ pc = "open" /\ ~IsEnd(lx) /\ lx.err = {}
    /\ \E n \in Rooms \ {0} :
          lx' = [lx EXCEPT !.text = <<>>, !.room = n, !.failed = FALSE,
                           !.arena = Accomodated(lx.arena, TokenSize, 0)]
    /\ tok' = [NoToken EXCEPT !.line_num = lx.line_num, !.column = lx.column,
                              !.from = lx.taken]
    /\ pc' = "logic"
    /\ todo' = client.tests
    /\ UNCHANGED <<client, tokens, result, oom>>

-----------------------------------------------------------------------------
(* The client's logic.                                                     *)

\* What the predicate of a recogniser leaves behind before it undoes.
Looked(r) ==
    CASE r = "comment" -> Next4(lx)
      [] r = "escape" -> Next6(lx)
      [] OTHER -> Next(lx)

\* is_xml_comment, is_xml_escape_sequence, is_xml_string_literal,
\* is_c11_numeric_constant, is_c11_punctuator, is_whitespace
Is(r) ==
    LET c == NextChar(lx)
    IN CASE r = "comment" -> Seen(lx, Looked(r), 4) = <<"<", "!", "-", "-">>
         [] r = "escape" -> EscapesAt(Seen(lx, Looked(r), 6)) # {}
         [] r = "string" -> c \in {"'", "\""}
         [] r = "number" -> c \in Digits \cup {"."}
         [] r = "punctuator" -> c \in PunctuatorChars
         [] r = "spaces" -> c \in WhitespaceChars

\* The predicate does not hold; what it looked at stays staged.
TestFails ==
    /\ pc = "logic" /\ todo # <<>>
    /\ ~Is(Head(todo))
    /\ lx' = Undo(Looked(Head(todo)))
    /\ todo' = Tail(todo)
    /\ UNCHANGED <<client, pc, tok, tokens, result, oom>>

Chosen(r) == pc = "logic" /\ todo # <<>> /\ Head(todo) = r /\ Is(r)

\* The lexer when the recogniser r is called.
Tested(r) == Undo(Looked(r))

Kind(k) == tok' = [tok EXCEPT !.kind = k]

StartIdentifier ==
    /\ pc = "logic" /\ todo = <<>>
    /\ Goto(lx, "identifier") /\ Kind("identifier")

\* lex_xml_comment; in a debug build it looks at the four bytes once more.
StartComment ==
    /\ Chosen("comment")
    /\ Goto(Reject4(Tested("comment")), "comment") /\ Kind("comment")

\* lex_xml_string_literal; the opening delimiter is not stored.
StartString ==
    /\ Chosen("string")
    /\ Goto(Reject(Next(Tested("string"))), "string")
    /\ tok' = [tok EXCEPT !.kind = "string", !.delimiter = NextChar(lx)]

\* lex_c11_numeric_constant up to its digits: 0x and 0b.
StartNumber ==
    LET l == Tested("number")
        c == Seen(l, Next2(l), 2)
        hex == c[1] = "0" /\ c[2] \in {"x", "X"}
        binary == c[1] = "0" /\ c[2] \in {"b", "B"}
    IN /\ Chosen("number")
       /\ Goto(Undo(IF hex THEN Accept2(Next2(l))
                    ELSE IF binary THEN Accept(Next2(l))
                    ELSE Next2(l)),
               "digits")
       /\ tok' = [tok EXCEPT !.kind = "integer", !.is_hex = hex]

StartSpaces ==
    /\ Chosen("spaces")
    /\ Goto(Tested("spaces"), "spaces") /\ Kind("spaces")

\* lex_xml_escape_sequence; that it matches none of them is an assertion.
LexEscape ==
    LET l == Tested("escape")
        r == Reject4(Next6(l))
    IN /\ Chosen("escape")
       /\ \E e \in EscapesAt(Seen(l, Next6(l), 6)) :
             Goto(Emit(CASE Len(e) = 4 -> r
                         [] Len(e) = 5 -> Reject(r)
                         [] Len(e) = 6 -> Reject2(r), EscapedChar(e)),
                  "close")
       /\ Kind("escape")

\* lex_c11_punctuator: a character it has no branch for is not taken, and the
\* token has no type.
LexPunctuator ==
    LET l == Tested("punctuator")
        n == PunctuatorLength(Seen(l, Next3(l), 3))
    IN /\ Chosen("punctuator")
       /\ Goto(CASE n = 0 -> Next3(l)
                 [] n = 1 -> Accept(Next3(l))
                 [] n = 2 -> Accept2(Next3(l))
                 [] n = 3 -> Accept3(Next3(l)), "close")
       /\ Kind(IF n = 0 THEN "null" ELSE "punctuator")

-----------------------------------------------------------------------------
(* The loops of the recognisers.                                           *)

IdentifierStep ==
    /\ pc = "identifier" /\ ~IsEnd(lx)
    /\ NextChar(lx) \notin WhitespaceChars \cup PunctuatorChars
    /\ On(Accept(Next(lx)), "identifier")

IdentifierEnd ==
    /\ pc = "identifier"
    /\ \/ IsEnd(lx) /\ On(lx, "close")
       \/ /\ ~IsEnd(lx) /\ NextChar(lx) \in WhitespaceChars \cup PunctuatorChars
          /\ On(Next(lx), "close")

\* lex_whitespaces
SpacesStep ==
    /\ pc = "spaces" /\ ~IsEnd(lx)
    /\ NextChar(lx) \in WhitespaceChars
    /\ On(Accept(Next(lx)), "spaces")

SpacesEnd ==
    /\ pc = "spaces"
    /\ \/ IsEnd(lx) /\ On(lx, "close")
       \/ /\ ~IsEnd(lx) /\ NextChar(lx) \notin WhitespaceChars
          /\ On(Next(lx), "close")

\* Bytes are taken as many as were looked at to see whether `-->` is here.
CommentStep ==
    /\ pc = "comment" /\ ~IsEnd(lx)
    /\ LET c == Seen(lx, Next3(lx), 3)
       IN CASE c[1] # "-" -> On(Accept(Next(lx)), "comment")
            [] c[1] = "-" /\ c[2] # "-" -> On(Accept2(Next2(lx)), "comment")
            [] c[1] = "-" /\ c[2] = "-" /\ c[3] # ">" -> On(Accept3(Next3(lx)), "comment")
            [] c = <<"-", "-", ">">> -> On(Reject3(Next3(lx)), "close")

\* The input ends inside a comment; it is a token like any other.
CommentCut ==
    /\ pc = "comment" /\ IsEnd(lx)
    /\ On(lx, "close")

EscapableChars_NoQuote == {"\\", "\n", "\f", "\t"}

\* The characters that a backslash may precede: not letters.
EscapableChars == {tok.delimiter, "\\", "\n", "\f", "\t"}

StringEscape ==
    LET c == NextChar(Next(lx))
    IN /\ pc = "string" /\ ~IsEnd(lx)
       /\ NextChar(lx) = "\\"
       /\ On(IF c \in EscapableChars THEN Emit(Reject2(Next2(lx)), c)
             ELSE Reject(Next2(lx)),
             "string")

StringChar ==
    /\ pc = "string" /\ ~IsEnd(lx)
    /\ NextChar(lx) \notin {"\\", tok.delimiter, "\n"}
    /\ On(Accept(Next(lx)), "string")

WithError(l, e) == [l EXCEPT !.err = l.err \cup e]

StringEnd ==
    /\ pc = "string" /\ ~IsEnd(lx)
    /\ NextChar(lx) = tok.delimiter
    /\ On(Reject(Next(lx)), "close")

\* A new line ends a string, and its end counts as missing too.
StringNewline ==
    /\ pc = "string" /\ ~IsEnd(lx)
    /\ NextChar(lx) = "\n"
    /\ On(WithError(Reject(Next(lx)), {"InvalidString", "PrematureEndOfString"}), "close")

StringCut ==
    /\ pc = "string" /\ IsEnd(lx)
    /\ On(WithError(lx, {"PrematureEndOfString"}), "close")

DigitsStep ==
    /\ pc = "digits" /\ ~IsEnd(lx)
    /\ \/ NextChar(lx) \in Digits
       \/ tok.is_hex /\ NextChar(lx) \in HexLetters
    /\ On(Accept(Next(lx)), "digits")

DigitsEnd ==
    /\ pc = "digits"
    /\ \/ IsEnd(lx) /\ On(Undo(lx), "number")
       \/ /\ ~IsEnd(lx) /\ NextChar(lx) \notin Digits
          /\ ~(tok.is_hex /\ NextChar(lx) \in HexLetters)
          /\ On(Undo(Next(lx)), "number")

\* The letters that begin an exponent.
ExponentChars == IF tok.is_hex THEN {"p", "P"} ELSE {"e", "E"}

StartsDot(c) == ~tok.dot_found /\ c = "."

StartsExponent(c) == ~tok.exponent_found /\ c \in ExponentChars

NumberDigit ==
    /\ pc = "number" /\ ~IsEnd(lx)
    /\ NextChar(lx) \in Digits
    /\ On(Accept(Next(lx)), "number")

NumberDot ==
    /\ pc = "number" /\ ~IsEnd(lx)
    /\ StartsDot(NextChar(lx))
    /\ Goto(Accept(Next(lx)), "number")
    /\ tok' = [tok EXCEPT !.kind = "float", !.dot_found = TRUE]

\* Two bytes are looked at; without a sign only one of them is taken.
NumberExponent ==
    LET sign == NextChar(Next(lx)) \in {"+", "-"}
    IN /\ pc = "number" /\ ~IsEnd(lx)
       /\ StartsExponent(NextChar(lx))
       /\ Goto(IF sign THEN Accept2(Next2(lx)) ELSE Accept(Next2(lx)), "number")
       /\ tok' = [tok EXCEPT !.kind = "float", !.exponent_found = TRUE]

NumberEnd ==
    /\ pc = "number"
    /\ \/ IsEnd(lx) /\ On(Undo(lx), "suffix")
       \/ LET c == NextChar(lx)
          IN /\ ~IsEnd(lx) /\ c \notin Digits /\ ~StartsDot(c) /\ ~StartsExponent(c)
             /\ On(Undo(Next(lx)), "suffix")

\* `L` takes whatever follows it: the test for `LL` looks at the first byte.
NumberSuffix ==
    LET c == NextChar(lx)
        d == NextChar(Next(lx))
    IN /\ pc = "suffix"
       /\ On(CASE tok.kind = "float" /\ c \in {"f", "F"} ->
                    IF d \in {"f", "F"} THEN Accept2(Next2(lx)) ELSE Accept(Next2(lx))
               [] tok.kind = "integer" /\ c \in {"u", "U"} -> Accept(Next(lx))
               [] c \in {"l", "L"} ->
                    IF d = "l" \/ c = "L" THEN Accept2(Next2(lx)) ELSE Accept(Next2(lx))
               [] OTHER -> Next(lx),
             "close")

-----------------------------------------------------------------------------
(* lexer_next_token after the client's logic: the text is terminated, the  *)
(* context committed, and the structure filled in.                         *)

Terminated == Added(lx, Nul)

\* The token that the context becomes; ref is where marena_commit says it is.
Committed(l) ==
    [ref |-> l.arena.data_size, kind |-> tok.kind, line_num |-> tok.line_num, column |-> tok.column,
     len |-> l.emitted_cnt, text |-> SubSeq(l.text, 1, Len(l.text) - 1),
     from |-> tok.from, to |-> l.taken, err |-> l.err]

CloseToken ==
    /\ pc = "close" /\ ~Terminated.failed
    /\ tokens' = Append(tokens, Committed(Terminated))
    /\ Return(Undo([Terminated EXCEPT
                      !.text = <<>>,
                      !.arena.data_size = @ + TokenSize + Len(Terminated.text)]),
              TRUE, "idle")
    /\ tok' = NoToken
    /\ UNCHANGED <<client, todo, oom>>

RoundUp(n, a) == ((n + a - 1) \div a) * a

\* tokens_arena_next, of a buffer that starts aligned.
TokensArenaNext(t) ==
    LET at == t.ref + TokenSize + t.len + 1
    IN  IF PackWithAlignment THEN RoundUp(at, TokenSize) ELSE at

\* The commit of a failed context gives nothing back.  The position is that of
\* the token again; its bytes are not.
CloseFailed ==
    /\ pc = "close" /\ Terminated.failed
    /\ Return(Undo([WithError(Terminated, {"OutOfMem"}) EXCEPT
                      !.text = <<>>, !.failed = FALSE,
                      !.line_num = tok.line_num, !.column = tok.column]),
              TRUE, "idle")
    /\ oom' = TRUE
    /\ tok' = NoToken
    /\ UNCHANGED <<client, todo, tokens>>

\* The client's loop has ended.
Stopped == pc = "stop" /\ UNCHANGED vars

NextToken ==
    \/ CallAtEnd \/ Call \/ EatWhitespace \/ StopEating
    \/ OpenAtEnd \/ OpenInvalid \/ OpenWithoutRoom \/ Open
    \/ TestFails \/ StartIdentifier \/ StartComment \/ StartString \/ StartNumber
    \/ StartSpaces \/ LexEscape \/ LexPunctuator
    \/ IdentifierStep \/ IdentifierEnd \/ SpacesStep \/ SpacesEnd
    \/ CommentStep \/ CommentCut
    \/ StringEscape \/ StringChar \/ StringEnd \/ StringNewline \/ StringCut
    \/ DigitsStep \/ DigitsEnd \/ NumberDigit \/ NumberDot \/ NumberExponent
    \/ NumberEnd \/ NumberSuffix
    \/ CloseToken \/ CloseFailed

LexerNext == NextToken \/ Stopped

Spec == Init /\ [][LexerNext]_vars

\* The lexer and its client are one sequential program, that runs on until it
\* stops: WF_vars(NextToken), with ENABLED NextToken put as pc # "stop".
FairSpec == Spec /\ ([]<>(pc = "stop") \/ []<><<TRUE>>_vars)

-----------------------------------------------------------------------------
(* Properties.                                                             *)

\* The input as next() shows it: zeros after its end.
Source(k) == IF k <= Len(lx.src) THEN lx.src[k] ELSE Nul

Slice(i, j) == [k \in 1..(j - i) |-> Source(i + k)]

Produced == {tokens[i] : i \in 1..Len(tokens)}

Kinds == {"null", "identifier", "comment", "escape", "string", "integer", "float",
          "punctuator", "spaces"}

Positions == 0..StagingMax

TypeOK ==
    /\ lx \in [src : Seq(Byte), off : Nat, start_it : Positions, end_it : Positions,
               it : Positions, buf : [Positions -> Byte], err : SUBSET Errors,
               emitted_cnt : Nat, line_num : Nat, column : Nat,
               arena : [data_size : Nat, data_max : Nat, spilled : BOOLEAN],
               text : Seq(Byte), room : Nat, failed : BOOLEAN, taken : Nat,
               full : BOOLEAN, asserted : BOOLEAN]
    /\ lx.off <= Len(lx.src)
    /\ client \in Clients
    /\ pc \in {"idle", "eat", "open", "logic", "identifier", "spaces", "comment", "string",
              "digits", "number", "suffix", "close", "stop"}
    /\ todo \in Seq(Recognisers)
    /\ tok \in [kind : Kinds, line_num : Nat, column : Nat, from : Nat, delimiter : Byte,
                is_hex : BOOLEAN, dot_found : BOOLEAN, exponent_found : BOOLEAN]
    /\ tokens \in Seq([ref : Nat, kind : Kinds, line_num : Nat, column : Nat, len : Nat,
                       text : Seq(Byte), from : Nat, to : Nat, err : SUBSET Errors])
    /\ result \in BOOLEAN /\ oom \in BOOLEAN

\* lexer_next_token starts with nothing looked at, as it asserts, and so does
\* each predicate that the client's logic asks.
StartsUndone == pc \in {"idle", "open", "logic", "stop"} => lx.it = lx.start_it

\* Until the staging area overflows, its bytes are the ones that follow those
\* taken, and the stream has given those and no others: whatever is looked at,
\* undone and taken, no byte is lost, repeated or moved, and a call that starts
\* finds nothing looked at.
EachByteOnce ==
    /\ StartsUndone
    /\ ~lx.full =>
         /\ \A k \in 1..Staged(lx) : lx.buf[Index(lx.start_it, k - 1)] = Source(lx.taken + k)
         /\ lx.off = IF lx.taken + Staged(lx) < Len(lx.src) THEN lx.taken + Staged(lx)
                     ELSE Len(lx.src)

\* "assert(!staging_area_is_full(lex))" (staging_area_enqueue): the lexer never
\* looks so far ahead that its staging area is full.
StagingHasRoom == ~lx.asserted

\* The backslashes among the first n bytes of s that precede a character which,
\* in a string between the delimiters q, a backslash may not precede.
Misplaced(s, q, n) ==
    LET shown(k) == IF k <= Len(s) THEN s[k] ELSE Nul
    IN {i \in 1..n : shown(i) = "\\" /\ shown(i + 1) \notin {q, "\\", "\n", "\f", "\t"}}

\* A misplaced backslash leaves the string recogniser one byte further ahead of
\* the bytes it takes.  With no more of them than this StagingHasRoom holds.
FewMisplaced ==
    /\ StagingMax >= 7
    /\ \A s \in Inputs : \A q \in {"'", "\""} :
          Cardinality(Misplaced(s, q, Len(s))) <= StagingMax - 3

Asked(tests) == {tests[i] : i \in 1..Len(tests)}

\* The client asks for all that cannot begin an identifier.
AsksForAll ==
    \A c \in Clients :
        /\ "punctuator" \in Asked(c.tests)
        /\ c.eat \/ "spaces" \in Asked(c.tests)

\* lex_c11_punctuator has a branch for every punctuator of the inputs.
KnownPunctuators ==
    \A s \in Inputs : \A i \in 1..Len(s) : s[i] \notin {"#", "$", "DEL"}

\* A zero in a text is behind a hyphen of a comment, or it is the byte that the
\* suffix `L` of a number takes along: elsewhere "strlen(t->payload.data) ==
\* (size_t) t->payload.len" (lexer_next_token) is true, and there it is not.
ZerosExplained(t) ==
    \A i \in 1..Len(t.text) : t.text[i] = Nul =>
        /\ i > 1
        /\ CASE t.kind = "comment" -> t.text[i - 1] = "-"
             [] t.kind \in {"integer", "float"} -> i = Len(t.text) /\ t.text[i - 1] \in {"l", "L"}
             [] OTHER -> FALSE

\* The text is the stretch of input that the token took, the marks of a comment
\* left out, with zeros where the input has ended.
TakenText(t) ==
    CASE t.kind \in {"identifier", "integer", "float", "punctuator", "spaces"} ->
              t.text = Slice(t.from, t.to)
      [] t.kind = "comment" -> \E j \in {t.to - 3, t.to} : t.text = Slice(t.from + 4, j)
      [] OTHER -> TRUE

TextIsTaken ==
    ~lx.arena.spilled => \A t \in Produced : t.err = {} => TakenText(t)

\* As long as the arena is written inside its buffer, the text of a token that
\* was read without an error has the bytes that were taken, which may be others
\* than those looked at, and of the zeros behind the input's end none but those
\* explained.
TextIsSource ==
    /\ TextIsTaken
    /\ ~lx.arena.spilled => \A t \in Produced : t.err = {} => ZerosExplained(t)

\* As long as the arena is written inside its buffer, tokens_arena_next leads
\* from the arena's first position through every token to the end of its data:
\* a walk by payload.len, which lex_emit counts whether or not the arena took
\* the byte, meets what was committed.
WalkMeetsTokens ==
    ~lx.arena.spilled =>
        /\ tokens # <<>> => tokens[1].ref = ArenaBegin
        /\ \A i \in 1..Len(tokens) :
              TokensArenaNext(tokens[i]) =
                IF i < Len(tokens) THEN tokens[i + 1].ref ELSE lx.arena.data_size

NewlinesIn(n) == {i \in 1..n : Source(i) = "\n"}

LineAt(n) == 1 + Cardinality(NewlinesIn(n))

\* The column counts from the last new line.
ColumnAt(n) ==
    n - (IF NewlinesIn(n) = {} THEN 0
         ELSE CHOOSE i \in NewlinesIn(n) : \A j \in NewlinesIn(n) : j <= i)

\* The position is that of the bytes taken, and a token's is that of its first
\* byte, until a token is lost for want of memory.
PositionExact ==
    ~oom =>
        /\ lx.line_num = LineAt(lx.taken) /\ lx.column = ColumnAt(lx.taken)
        /\ \A t \in Produced : t.line_num = LineAt(t.from) /\ t.column = ColumnAt(t.from)

\* FALSE means the end of the input, or that there was no memory for a token:
\* no byte that could begin a token is left.
StopsAtEnd ==
    pc = "stop" /\ ~oom => Source(lx.taken + 1) \in {Nul, Eof, Etx}

\* E are the positions of s that hold a backslash which is not itself escaped.
AreEscaping(s, E) ==
    \A i \in 1..Len(s) : i \in E <=> s[i] = "\\" /\ i - 1 \notin E

Kept(s, E) == (1..Len(s)) \ E

\* t is s without the positions E.
IsWithout(t, s, E) ==
    /\ Len(t) = Cardinality(Kept(s, E))
    /\ \A i \in Kept(s, E) : t[Cardinality({j \in Kept(s, E) : j <= i})] = s[i]

\* A string of which every backslash that escapes precedes a character it may
\* precede is its source between the delimiters, without those backslashes.
StringDecodes ==
    \A t \in Produced :
        t.kind = "string" /\ t.err = {} /\ ~lx.arena.spilled =>
            LET s == Slice(t.from + 1, t.to - 1)
                quote == Source(t.from + 1)
            IN \E E \in SUBSET {i \in 1..Len(s) : s[i] = "\\"} :
                  /\ AreEscaping(s, E)
                  /\ (\A i \in E : i < Len(s) /\ s[i + 1] \in {quote, "\\", "\n", "\f", "\t"})
                     => IsWithout(t.text, s, E) /\ Source(t.to) = quote

Stream == INSTANCE TokenStream WITH
    pos <- lx.taken,
    spans <- [i \in 1..Len(tokens) |-> [from |-> tokens[i].from, to |-> tokens[i].to]]

\* When the client's logic asks for all that does not begin an identifier, the
\* tokens are consecutive stretches of the input, and none is empty.
RefinesTokenStream == Stream!Spec

\* Every input is read to its end, unless it has one of the characters "#", "$"
\* and 127, which lex_c11_punctuator takes for a punctuator and returns without
\* taking: no recogniser waits or turns in a circle.
InputEnds == <>(pc = "stop")
=============================================================================

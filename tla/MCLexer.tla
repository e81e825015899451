------------------------------ MODULE MCLexer ------------------------------
(***************************************************************************)
(* The lexer on all short inputs of six kinds, each over the characters    *)
(* that its recogniser tells apart, and on pairs of longer tokens, with a  *)
(* client that has white space eaten and one that makes tokens of it.      *)
(***************************************************************************)
EXTENDS Lexer

UpTo(n, chars) == UNION {[1..k -> chars] : k \in 0..n}

After(prefix, rest) == {prefix \o s : s \in rest}

Comments == After(<<"<", "!", "-", "-">>, UpTo(4, {"-", ">", "a"}))

Strings == After(<<"\"">>, UpTo(5, {"\"", "\\", "a", "\n"}))

Numbers ==
    After(<<"0">>, UpTo(2, {"0", "x", "b", "1", "e", "p", ".", "+", "f", "u", "L", "l"}))
    \cup After(<<"1">>, UpTo(3, {"e", "+", ".", "5", "L", "f"}))
    \cup After(<<"0", "x">>, UpTo(3, {"e", "d", "p", "-", "1"}))

Marks == UpTo(3, {"<", "=", ">", "-", "&", "."})

Escapes ==
    {e \o s : e \in XmlEscapes, s \in UpTo(1, {"a", ";"})}
    \cup {SubSeq(e, 1, n) : e \in XmlEscapes, n \in 1..3}

Ends == UpTo(4, {"a", " ", "\n", "CTRL", "ETX", "NUL"})

Samples ==
    {<<"<", "!", "-", "-", "-", "a", "-", "-", ">">>, <<"\"", "\\", "\"", "a", "\"">>,
     <<"1", ".", "5", "e", "+", "1">>, <<"&", "l", "t", ";">>, <<"-", ">">>, <<"a", "b">>}

\* Two tokens, long enough that the staging area is gone round twice.
Pairs == {s \o <<" ">> \o t : s, t \in Samples}

MCInputs ==
    Comments \cup Strings \cup Numbers \cup Marks \cup Escapes \cup Ends \cup Pairs

MCByte ==
    {"<", "!", "-", ">", "a", "\"", "\\", "\n", "0", "1", "5", "x", "b", "d", "e", "f", "p",
     "u", "L", "l", ".", "+", "=", "&", "t", "g", "m", "o", "s", "q", ";", " ", "CTRL",
     "ETX", "NUL", "n", "'"}

MCClients ==
    {[eat |-> TRUE, tests |-> <<"comment", "escape", "string", "number", "punctuator">>],
     [eat |-> FALSE, tests |-> <<"spaces", "comment", "string", "number", "punctuator">>]}

\* A name and a string with sixteen backslashes before letters.
LongEscapes == {<<"a", "\"">> \o [i \in 1..32 |-> IF i % 2 = 1 THEN "\\" ELSE "n"] \o <<"\"">>}

\* What the theorems about the lexer suppose of their constants holds of these:
\* but for the inputs that are meant to overflow the staging area.
ASSUME LexerSuppositions ==
    /\ AsksForAll /\ KnownPunctuators
    /\ FewMisplaced <=> Inputs # LongEscapes
=============================================================================

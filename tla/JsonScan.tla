------------------------------- MODULE JsonScan -------------------------------
(***************************************************************************)
(* lexer::scan() of nlohmann/json.hpp between the parser and the bytes of a*)
(* payload: the byte order mark, white space, a literal, the character that*)
(* ends a number and is put back, and the end of the input, which a NUL    *)
(* byte also is.  The texts are single values: parse() reads a first token *)
(* and, being strict, expects a second that is the end of the input.       *)
(***************************************************************************)
EXTENDS Integers, Sequences, SequencesExt

CONSTANT MaxChars     \* bounds the characters of a payload, its end not counted

VARIABLES
    input,            \* the characters the adapter has handed out
    next_unget,       \* the last of them is to be read again
    at,               \* where the lexer is, or what parse() did
    expected,         \* what is left of a mark or a literal
    tokens            \* how many tokens were scanned

vars == <<input, next_unget, at, expected, tokens>>

Bom   == <<"EF", "BB", "BF">>
Null  == <<"n", "u", "l", "l">>
Chars == ToSet(Bom) \cup ToSet(Null) \cup {" ", "NUL", "1", ","}

Init ==
    /\ input = <<>> /\ next_unget = FALSE
    /\ at = "start" /\ expected = <<>> /\ tokens = 0

\* The adapter repeats the end of the input; a character put back comes first.
Read(c) ==
    IF next_unget \/ (input # <<>> /\ Last(input) = "eof")
    THEN c = Last(input) /\ UNCHANGED input
    ELSE (c = "eof" \/ Len(input) < MaxChars) /\ input' = Append(input, c)

Get(c)   == Read(c) /\ next_unget' = FALSE
Unget(c) == Read(c) /\ next_unget' = TRUE

\* scan() goes on with rest, or has failed.
Expect(where, rest) == at' = where /\ expected' = rest /\ UNCHANGED tokens

\* scan() returns a token to parse().
Token(kind) ==
    /\ tokens' = tokens + 1
    /\ expected' = <<>>
    /\ at' = CASE tokens = 0 /\ kind = "value" -> "scan"
               [] tokens = 1 /\ kind = "end"   -> "accepted"
               [] OTHER                        -> "error"

-----------------------------------------------------------------------------

\* skip_bom(), in the first scan() only.
SkipBom(c) ==
    \/ /\ at = "start"
       /\ \/ c = "EF" /\ Get(c) /\ Expect("bom", Tail(Bom))
          \/ c # "EF" /\ Unget(c) /\ Expect("scan", <<>>)
    \/ /\ at = "bom"
       /\ Get(c)
       /\ IF c # Head(expected) THEN Expect("error", <<>>)
          ELSE Expect(IF Len(expected) = 1 THEN "scan" ELSE "bom", Tail(expected))

\* skip_whitespace() and the switch over the character after it.
Scan(c) ==
    /\ at = "scan"
    /\ Get(c)
    /\ \/ c = " " /\ Expect("scan", <<>>)
       \/ c = "n" /\ Expect("literal", Tail(Null))
       \/ c = "1" /\ Expect("number", <<>>)
       \/ c = "," /\ Token("separator")
       \/ c \in {"NUL", "eof"} /\ Token("end")
       \/ c \notin {" ", "n", "1", ",", "NUL", "eof"} /\ Expect("error", <<>>)

ScanLiteral(c) ==
    /\ at = "literal"
    /\ Get(c)
    /\ IF c # Head(expected) THEN Expect("error", <<>>)
       ELSE IF Len(expected) = 1 THEN Token("value") ELSE Expect("literal", Tail(expected))

\* scan_number(), of digits only: the character after them is put back.
ScanNumber(c) ==
    /\ at = "number"
    /\ \/ c = "1" /\ Get(c) /\ Expect("number", <<>>)
       \/ c # "1" /\ Unget(c) /\ Token("value")

Next == \E c \in Chars \cup {"eof"} :
            SkipBom(c) \/ Scan(c) \/ ScanLiteral(c) \/ ScanNumber(c)

Spec == Init /\ [][Next]_vars

-----------------------------------------------------------------------------
(* Properties *)

TypeOK ==
    /\ input \in Seq(Chars \cup {"eof"})
    /\ next_unget \in BOOLEAN /\ (next_unget => input # <<>>)
    /\ at \in {"start", "bom", "scan", "literal", "number", "accepted", "error"}
    /\ \E whole \in {Bom, Null} : IsSuffix(expected, whole)
    /\ tokens \in 0..2 /\ (at = "accepted" => tokens = 2 /\ ~next_unget)

\* A text is one value, with what may stand around it; begun, what a text begins with.
Blank(t)   == ToSet(t) \subseteq {" "}
IsValue(t) == t = Null \/ (t # <<>> /\ ToSet(t) = {"1"})
Unmarked(t) == IF IsPrefix(Bom, t) THEN SubSeq(t, Len(Bom) + 1, Len(t)) ELSE t
BlankedValue(t) ==
    \E i, j \in 0..Len(t) :
        i < j /\ Blank(SubSeq(t, 1, i)) /\ IsValue(SubSeq(t, i + 1, j)) /\ Blank(SubSeq(t, j + 1, Len(t)))

\* The lexer takes a NUL for the end as it takes the real one, and never looks behind
\* it (json.hpp:8889-8891).
Ends == {"NUL", "eof"}

IsText(t) == t # <<>> /\ Last(t) \in Ends /\ BlankedValue(Unmarked(Front(t)))
IsBegun(t) ==
    \/ IsText(t) \/ IsPrefix(t, Bom) \/ BlankedValue(Unmarked(t))
    \/ \E i \in 0..Len(Unmarked(t)) :
           /\ Blank(SubSeq(Unmarked(t), 1, i))
           /\ IsPrefix(SubSeq(Unmarked(t), i + 1, Len(Unmarked(t))), Null)

\* Every character a payload has counts once: two numbers do not run together,
\* nothing is swallowed after one, and a mark counts only whole and in front.  This
\* is said of the characters up to the first NUL outside a string: what stands behind
\* it is not read (json.hpp:8632-8688, 8791-8816, 8889-8891).
EveryCharacterCounts ==
    LET taken == IF next_unget THEN Front(input) ELSE input
    IN  CASE at = "accepted" -> IsText(input)
          [] at = "error"    -> ~IsBegun(taken)
          [] OTHER           -> tokens = 0 \/ at = "scan" => IsBegun(taken)
=============================================================================

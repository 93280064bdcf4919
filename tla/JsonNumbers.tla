----------------------------- MODULE JsonNumbers -----------------------------
(***************************************************************************)
(* The numbers of nlohmann/json.hpp: lexer::scan_number() reads one, and   *)
(* serializer::dump_integer() and dump_float() write it again into the body*)
(* the gateway forwards.                                                   *)
(*                                                                         *)
(* The conversions between decimal and binary (strtod, and Grisu2 back,    *)
(* which is JsonGrisu2's subject) are taken at what they promise for       *)
(* numbers of a few digits: the decimal that was read comes back without   *)
(* its trailing zeros.                                                     *)
(***************************************************************************)
EXTENDS Integers, Sequences, SequencesExt, TLC

CONSTANTS
    Chars,            \* characters of a text, " " for one that is in no number
    MaxText,
    Width,            \* bits of number_integer_t and number_unsigned_t, 64 in the code
    MinExp, MaxExp,   \* kMinExp and kMaxExp, -4 and 15 in the code
    LargestExp        \* beyond which strtod gives an infinity, below the negative a zero

VARIABLES
    text,
    scan              \* label: where scan_number() is; type: number_type

vars == <<text, scan>>

Digits == <<"0", "1", "2", "3", "4", "5", "6", "7", "8", "9">>
IsDigit(c) == c \in ToSet(Digits)
Digit(c) == (CHOOSE i \in 1..10 : Digits[i] = c) - 1

-----------------------------------------------------------------------------
(* lexer::scan_number() *)

WholeLabels == {"init", "minus", "zero", "any1"}
Labels == WholeLabels \cup {"decimal1", "decimal2", "exponent", "sign", "any2", "done", "error"}

\* The label scan_number() goes to from one before the point when it gets c.
GotoInWhole(label, c) ==
    CASE label = "init" /\ c = "-"                             -> "minus"
      [] label \in {"init", "minus"} /\ c = "0"                -> "zero"
      [] label \in {"init", "minus", "any1"} /\ IsDigit(c)     -> "any1"
      [] label \in {"zero", "any1"} /\ c = "."                 -> "decimal1"
      [] label \in {"zero", "any1"} /\ c = "e"                 -> "exponent"
      [] label \in {"zero", "any1"}                            -> "done"
      [] OTHER                                                 -> "error"

\* The same for the labels after the point or the exponent.
GotoInRest(label, c) ==
    CASE label = "decimal2" /\ c = "e"                         -> "exponent"
      [] label \in {"decimal1", "decimal2"} /\ IsDigit(c)      -> "decimal2"
      [] label = "exponent" /\ c \in {"+", "-"}                -> "sign"
      [] label \in {"exponent", "sign", "any2"} /\ IsDigit(c)  -> "any2"
      [] label \in {"decimal2", "any2"}                        -> "done"
      [] OTHER                                                 -> "error"

\* At scan_number_done c is put back.
Goto(label, c) ==
    IF label \in WholeLabels THEN GotoInWhole(label, c) ELSE GotoInRest(label, c)

Type(type, label) ==
    CASE label = "minus"                    -> "integer"
      [] label \in {"decimal1", "exponent"} -> "float"
      [] OTHER                              -> type

Scan(s, c) ==
    LET next == Goto(s.label, c) IN [label |-> next, type |-> Type(s.type, next)]

Start == [label |-> "init", type |-> "unsigned"]

\* (-1)^negative * digits * 10^exponent, with no zero at the end of digits.
RECURSIVE Decimal(_, _, _)
Decimal(negative, digits, exponent) ==
    CASE digits = 0 -> [negative |-> negative, digits |-> 0, exponent |-> 0]
      [] digits # 0 /\ digits % 10 = 0 -> Decimal(negative, digits \div 10, exponent + 1)
      [] OTHER -> [negative |-> negative, digits |-> digits, exponent |-> exponent]

\* What a number's text says: part is where the next character belongs.
Meaning(number) ==
    LET Read(r, c) ==
            CASE c = "." -> [r EXCEPT !.part = "fraction"]
              [] c = "e" -> [r EXCEPT !.part = "exponent"]
              [] c = "-" /\ r.part = "exponent" -> [r EXCEPT !.small = TRUE]
              [] c = "-" /\ r.part # "exponent" -> [r EXCEPT !.negative = TRUE]
              [] IsDigit(c) /\ r.part = "exponent" -> [r EXCEPT !.power = @ * 10 + Digit(c)]
              [] IsDigit(c) /\ r.part = "fraction" ->
                     [r EXCEPT !.digits = @ * 10 + Digit(c), !.shift = @ + 1]
              [] IsDigit(c) /\ r.part = "whole" -> [r EXCEPT !.digits = @ * 10 + Digit(c)]
              [] OTHER -> r
        r == FoldLeft(Read, [part |-> "whole", negative |-> FALSE, small |-> FALSE,
                             digits |-> 0, shift |-> 0, power |-> 0], number)
    IN  Decimal(r.negative, r.digits, (IF r.small THEN -r.power ELSE r.power) - r.shift)

Whole(decimal) ==
    (IF decimal.negative THEN -1 ELSE 1) * decimal.digits * 10^decimal.exponent

RECURSIVE CountDigits(_)
CountDigits(x) ==
    CASE x < 10          -> 1
      [] x \in 10..99     -> 2
      [] x \in 100..999   -> 3
      [] x \in 1000..9999 -> 4
      [] OTHER           -> 4 + CountDigits(x \div 10000)

\* The power of ten above the first digit.
FirstDigitAt(decimal) == CountDigits(decimal.digits) + decimal.exponent

\* The token at scan_number_done: a number that is too large for its type is read
\* as a double.
Token(s, number) ==
    LET decimal == Meaning(number)
    IN  CASE s.type = "unsigned" /\ Whole(decimal) < 2^Width ->
               [type |-> "unsigned", value |-> Whole(decimal)]
          [] s.type = "integer" /\ Whole(decimal) >= -(2^(Width - 1)) ->
               [type |-> "integer", value |-> Whole(decimal)]
          [] OTHER ->
               [type |-> IF FirstDigitAt(decimal) > LargestExp THEN "infinite" ELSE "float",
                value |-> IF FirstDigitAt(decimal) < -LargestExp
                          THEN Decimal(decimal.negative, 0, 0) ELSE decimal]

-----------------------------------------------------------------------------
(* serializer::dump_integer() *)

\* Mutated form: the sign is changed in the narrower type.
RemoveSignNarrow(x) == (-x) % 2^(Width - 1)

RemoveSign(x) == ((-(x + 1)) % 2^Width) + 1

\* The loop that fills number_buffer from at backwards, two digits at a time.
RECURSIVE Fill(_, _, _)
Fill(buffer, at, x) ==
    LET pair == [buffer EXCEPT ![at] = Digits[(x % 10) + 1], ![at - 1] = Digits[((x \div 10) % 10) + 1]]
    IN  CASE x >= 100    -> Fill(pair, at - 2, x \div 100)
          [] x \in 10..99 -> pair
          [] OTHER       -> [buffer EXCEPT ![at] = Digits[x + 1]]

\* "?" is what number_buffer holds from before.
DumpInteger(x) ==
    LET abs == IF x < 0 THEN RemoveSign(x) ELSE x
        n   == CountDigits(abs) + (IF x < 0 THEN 1 ELSE 0)
        old == [i \in 1..n |-> IF i = 1 /\ x < 0 THEN "-" ELSE "?"]
    IN  IF x = 0 THEN <<"0">> ELSE Fill(old, n, abs)

-----------------------------------------------------------------------------
(* serializer::dump_float(): to_chars() and what it calls *)

Zeros(n) == [i \in 1..n |-> "0"]

\* append_exponent(): at least two digits.
AppendExponent(e) ==
    LET k == IF e < 0 THEN -e ELSE e
    IN  <<IF e < 0 THEN "-" ELSE "+">> \o (IF k < 10 THEN <<"0">> ELSE <<>>) \o DumpInteger(k)

Exponential(buf, e) ==
    <<Head(buf)>> \o (IF Len(buf) = 1 THEN <<>> ELSE <<".">> \o Tail(buf)) \o <<"e">> \o AppendExponent(e)

\* format_buffer(): n is where the decimal point belongs in the k digits.
FormatBuffer(digits, exponent) ==
    LET buf == DumpInteger(digits)
        k   == Len(buf)
        n   == k + exponent
    IN  CASE k <= n /\ n <= MaxExp -> buf \o Zeros(n - k) \o <<".", "0">>
          [] 0 < n /\ n <= MaxExp /\ k > n ->
                 SubSeq(buf, 1, n) \o <<".">> \o SubSeq(buf, n + 1, k)
          [] MinExp < n /\ n <= 0 -> <<"0", ".">> \o Zeros(-n) \o buf
          [] OTHER -> Exponential(buf, n - 1)

DumpFloat(decimal) ==
    (IF decimal.negative THEN <<"-">> ELSE <<>>) \o
    (IF decimal.digits = 0 THEN <<"0", ".", "0">> ELSE FormatBuffer(decimal.digits, decimal.exponent))

Dump(token) == IF token.type = "float" THEN DumpFloat(token.value) ELSE DumpInteger(token.value)

-----------------------------------------------------------------------------

Init == text = <<>> /\ scan = Start

Feed(c) ==
    /\ Len(text) < MaxText
    /\ scan.label \notin {"done", "error"}
    /\ text' = Append(text, c)
    /\ scan' = Scan(scan, c)

Next == \E c \in Chars : Feed(c)

Spec == Init /\ [][Next]_vars

-----------------------------------------------------------------------------
(* The grammar of numbers, of RFC 8259 *)

AllDigits(t) == t # <<>> /\ \A i \in DOMAIN t : IsDigit(t[i])
IsWhole(t)   == AllDigits(t) /\ (Len(t) > 1 => t[1] # "0")
IsFraction(t) == t = <<>> \/ (t[1] = "." /\ AllDigits(Tail(t)))
IsExponent(t) ==
    \/ t = <<>>
    \/ t[1] = "e" /\ AllDigits(Tail(t))
    \/ /\ Len(t) > 1 /\ t[1] = "e" /\ t[2] \in {"+", "-"}
       /\ AllDigits(SubSeq(t, 3, Len(t)))

IsNumber(t) ==
    LET from == IF t # <<>> /\ t[1] = "-" THEN 2 ELSE 1
    IN  \E i \in from..Len(t), j \in from..Len(t) :
            /\ i <= j
            /\ IsWhole(SubSeq(t, from, i))
            /\ IsFraction(SubSeq(t, i + 1, j))
            /\ IsExponent(SubSeq(t, j + 1, Len(t)))

\* Some number begins with t.
BeginsNumber(t) == IsNumber(t) \/ IsNumber(Append(t, "0"))

-----------------------------------------------------------------------------
(* Properties *)

TypeOK ==
    /\ text \in Seq(Chars) /\ Len(text) <= MaxText
    /\ scan \in [label : Labels, type : {"unsigned", "integer", "float"}]
    /\ scan.label \in {"decimal1", "decimal2", "exponent", "sign", "any2"} => scan.type = "float"

Number  == Front(text)
Scanned == Token(scan, Number)

\* scan_number() ends after the longest text that is a number of the grammar, and
\* fails where none begins (json.hpp:8274-8550, a machine of gotos).
ScansTheGrammar ==
    CASE scan.label = "done"  -> IsNumber(Number) /\ ~BeginsNumber(text)
      [] scan.label = "error" -> ~BeginsNumber(text)
      [] scan.label = "init"  -> text = <<>>
      [] OTHER                -> BeginsNumber(text)

\* An integer of the request is forwarded as it was written, to the smallest and
\* the largest of the width (json.hpp:18636-18715, 18862-18880; issue #1708
\* quoted there).  Only -0 comes out as 0.
IntegersDumpAsWritten ==
    scan.label = "done" /\ Scanned.type \in {"unsigned", "integer"} =>
        Dump(Scanned) = IF Number = <<"-", "0">> THEN <<"0">> ELSE Number

\* Any other finite number is forwarded as a text that is a number, is a double
\* again, and has the value that was read (json.hpp:17801-17869).
FloatsKeepTheirValue ==
    scan.label = "done" /\ Scanned.type = "float" =>
        LET dumped == Dump(Scanned)
            again  == FoldLeft(Scan, Start, Append(dumped, " "))
        IN  /\ IsNumber(dumped)
            /\ again.label = "done"
            /\ Token(again, dumped) = Scanned
=============================================================================

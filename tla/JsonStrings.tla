----------------------------- MODULE JsonStrings -----------------------------
(***************************************************************************)
(* The strings of nlohmann/json.hpp: lexer::scan_string() reads one out of *)
(* a request or a reply, serializer::dump_escaped() writes one into the    *)
(* body that is forwarded or the answer to the client.  Both are functions *)
(* from a state and a byte to a state.                                     *)
(***************************************************************************)
EXTENDS Integers, Sequences

CONSTANT BufferSize   \* of string_buffer, 512 in the code

Byte == 0..255

\* Of UTF-16.
HighSurrogate == \hD800..\hDBFF
LowSurrogate  == \hDC00..\hDFFF

Quote     == \h22
Backslash == \h5C
LetterU   == \h75

-----------------------------------------------------------------------------
(* lexer::scan_string() *)

\* at: what comes next; buffer: token_buffer; ranges: those of the bytes to come;
\* digits and number: of the escape being read; high: the high surrogate before it.
Place == {"string", "escape", "hex", "low", "lowU", "bytes", "done", "error"}
Lexer == [at : Place, buffer : Seq(Byte), ranges : Seq(SUBSET Byte),
          digits : 0..3, number : Nat, high : {0} \cup HighSurrogate]

\* Outside an escape: between two characters, or within one that wants more bytes.
Within(buffer, ranges) ==
    [at |-> IF ranges = <<>> THEN "string" ELSE "bytes", buffer |-> buffer, ranges |-> ranges,
     digits |-> 0, number |-> 0, high |-> 0]

Start == Within(<<>>, <<>>)

Goto(s, at)   == [s EXCEPT !.at = at]
Add(s, bytes) == Within(s.buffer \o bytes, <<>>)

\* What the letters after a backslash stand for.
Escapes == {\h22, \h5C, \h2F, \h62, \h66, \h6E, \h72, \h74}
EscapeOf(b) ==
    CASE b = \h62 -> \h08 [] b = \h66 -> \h0C [] b = \h6E -> \h0A
      [] b = \h72 -> \h0D [] b = \h74 -> \h09 [] OTHER -> b

\* What follows the first byte of a code point of several.
Trail == \h80..\hBF

\* Mutated form: the bytes after ED may make a surrogate.
FollowersSurrogates(lead) ==
    CASE lead \in \hC2..\hDF -> <<Trail>>
      [] lead = \hE0         -> <<\hA0..\hBF, Trail>>
      [] lead \in \hE1..\hEF -> <<Trail, Trail>>
      [] lead = \hF0         -> <<\h90..\hBF, Trail, Trail>>
      [] lead \in \hF1..\hF3 -> <<Trail, Trail, Trail>>
      [] lead = \hF4         -> <<\h80..\h8F, Trail, Trail>>
      [] OTHER               -> <<>>

\* The ranges of the bytes that must follow a byte from 80 on.
Followers(lead) ==
    CASE lead \in \hC2..\hDF -> <<Trail>>
      [] lead = \hE0         -> <<\hA0..\hBF, Trail>>
      [] lead \in \hE1..\hEF /\ lead # \hED -> <<Trail, Trail>>
      [] lead = \hED         -> <<\h80..\h9F, Trail>>
      [] lead = \hF0         -> <<\h90..\hBF, Trail, Trail>>
      [] lead \in \hF1..\hF3 -> <<Trail, Trail, Trail>>
      [] lead = \hF4         -> <<\h80..\h8F, Trail, Trail>>
      [] OTHER               -> <<>>

Control(b) == b \in 0..\h1F
Plain(b)   == b \in \h20..\h7F /\ b # Quote /\ b # Backslash

ScanChar(s, b) ==
    CASE b = Quote      -> Goto(s, "done")
      [] b = Backslash  -> Goto(s, "escape")
      [] Control(b)     -> Goto(s, "error")
      [] Plain(b)       -> Add(s, <<b>>)
      [] OTHER -> IF Followers(b) = <<>> THEN Goto(s, "error")
                  ELSE Within(s.buffer \o <<b>>, Followers(b))

\* next_byte_in_range(), for one of its ranges.
NextByteInRange(s, b) ==
    IF b \notin Head(s.ranges) THEN Goto(s, "error")
    ELSE Within(s.buffer \o <<b>>, Tail(s.ranges))

ScanEscape(s, b) ==
    CASE b \in Escapes       -> Add(s, <<EscapeOf(b)>>)
      [] b = LetterU           -> Goto(s, "hex")
      [] OTHER                 -> Goto(s, "error")

Cont(n) == \h80 + (n % 64)

\* The bytes of a code point; they are not added up but or'ed in the code.
Utf8(n) ==
    IF n < \h80 THEN <<n>>
    ELSE IF n < \h800 THEN <<\hC0 + n \div 64, Cont(n)>>
    ELSE IF n <= \hFFFF THEN <<\hE0 + n \div 4096, Cont(n \div 64), Cont(n)>>
    ELSE <<\hF0 + n \div 262144, Cont(n \div 4096), Cont(n \div 64), Cont(n)>>

WithDigit(s, number) == [s EXCEPT !.digits = @ + 1, !.number = number]

\* A high surrogate wants a low one, and the two are one code point.
WithHigh(s, n)  == [s EXCEPT !.at = "low", !.high = n, !.digits = 0, !.number = 0]
Pair(high, low) == high * 1024 + low - \h35FDC00

\* What is done with a \u escape whose four digits are read.
Escaped(s, n) ==
    IF s.high = 0
    THEN CASE n \in HighSurrogate -> WithHigh(s, n)
           [] n \in LowSurrogate -> Goto(s, "error")
           [] OTHER                -> Add(s, Utf8(n))
    ELSE IF n \in LowSurrogate THEN Add(s, Utf8(Pair(s.high, n)))
                                 ELSE Goto(s, "error")

DigitOf(b) ==
    CASE b \in \h30..\h39 -> b - \h30
      [] b \in \h41..\h46 -> b - \h37
      [] b \in \h61..\h66 -> b - \h57
      [] OTHER            -> -1

\* get_codepoint(), for one of its four digits.
GetCodepoint(s, b) ==
    LET number == s.number * 16 + DigitOf(b)
    IN  IF DigitOf(b) = -1 THEN Goto(s, "error")
        ELSE IF s.digits = 3 THEN Escaped(s, number)
             ELSE WithDigit(s, number)

Scan(s, b) ==
    CASE s.at = "string" -> ScanChar(s, b)
      [] s.at = "escape" -> ScanEscape(s, b)
      [] s.at = "hex"    -> GetCodepoint(s, b)
      [] s.at = "low"    -> Goto(s, IF b = Backslash THEN "lowU" ELSE "error")
      [] s.at = "lowU"   -> Goto(s, IF b = LetterU THEN "hex" ELSE "error")
      [] s.at = "bytes"  -> NextByteInRange(s, b)
      [] OTHER           -> s

-----------------------------------------------------------------------------
(* serializer::dump_escaped(), with ensure_ascii off and errors strict *)

\* decode(): the class of a byte, and where each state goes.
TypeOf(b) ==
    CASE b < \h80 -> 0
      [] b \in \h80..\h8F -> 1
      [] b \in \h90..\h9F -> 9
      [] b \in \hA0..\hBF -> 7
      [] b \in \hC2..\hDF -> 2
      [] b = \hE0 -> 10
      [] b = \hED -> 4
      [] b \in \hE1..\hEF /\ b # \hED -> 3
      [] b = \hF0 -> 11
      [] b \in \hF1..\hF3 -> 6
      [] b = \hF4 -> 5
      [] OTHER -> 8

Accept == 0
Reject == 1

Decode(state, type) ==
    CASE state = Accept -> <<0, 1, 2, 3, 5, 8, 7, 1, 1, 1, 4, 6>>[type + 1]
      [] state = 2 /\ type \in {1, 7, 9} -> Accept
      [] state = 3 /\ type \in {1, 7, 9} -> 2
      [] state = 4 /\ type = 7 -> 2
      [] state = 5 /\ type \in {1, 9} -> 2
      [] state = 6 /\ type \in {7, 9} -> 3
      [] state = 7 /\ type \in {1, 7, 9} -> 3
      [] state = 8 /\ type = 1 -> 3
      [] OTHER -> Reject

Codepoint(state, codep, b) ==
    IF state # Accept THEN codep * 64 + (b % 64)
    ELSE IF TypeOf(b) > 8 THEN 0 ELSE b % <<256, 128, 64, 32, 16, 8, 4, 2, 1>>[TypeOf(b) + 1]

HexDigit(n) == IF n < 10 THEN \h30 + n ELSE \h57 + n
Hex4(n) == <<Backslash, LetterU, HexDigit(n \div 4096), HexDigit((n \div 256) % 16),
             HexDigit((n \div 16) % 16), HexDigit(n % 16)>>

\* The code points that are written as a backslash and a letter.
Lettered == {\h08, \h09, \h0A, \h0C, \h0D, \h22, \h5C}
LetterOf(codep) ==
    CASE codep = \h08 -> \h62 [] codep = \h09 -> \h74 [] codep = \h0A -> \h6E
      [] codep = \h0C -> \h66 [] codep = \h0D -> \h72 [] OTHER -> codep

\* The switch over an accepted code point, whose last byte is b.
Written(codep, b) ==
    CASE codep \in Lettered -> <<Backslash, LetterOf(codep)>>
      [] codep < \h20 /\ codep \notin Lettered -> Hex4(codep)
      [] OTHER -> <<b>>

\* used: the most bytes of string_buffer in use so far, the NUL of snprintf included.
DumpStart == [state |-> Accept, codep |-> 0, buffer |-> <<>>, out |-> <<>>, used |-> 0]

Copy(d, state, codep, bytes) ==
    LET inUse == Len(d.buffer) + Len(bytes) + (IF Len(bytes) = 6 THEN 1 ELSE 0)
    IN  [state |-> state, codep |-> codep, buffer |-> d.buffer \o bytes, out |-> d.out,
         used |-> IF inUse > d.used THEN inUse ELSE d.used]

\* Mutated form: room is kept for the bytes of one escape, not for the NUL after them.
FlushLate(d) ==
    IF BufferSize - Len(d.buffer) < 6 THEN [d EXCEPT !.out = @ \o d.buffer, !.buffer = <<>>] ELSE d

Flush(d) ==
    IF BufferSize - Len(d.buffer) < 13 THEN [d EXCEPT !.out = @ \o d.buffer, !.buffer = <<>>] ELSE d

\* What a byte adds to string_buffer: that of a code point not yet complete is
\* copied, that of a complete one is written.
Emitted(d, b) ==
    IF Decode(d.state, TypeOf(b)) = Accept THEN Written(Codepoint(d.state, d.codep, b), b) ELSE <<b>>

DumpByte(d, b) ==
    LET state  == Decode(d.state, TypeOf(b))
        copied == Copy(d, state, Codepoint(d.state, d.codep, b), Emitted(d, b))
    IN  CASE d.state = Reject \/ state = Reject -> [d EXCEPT !.state = Reject]
          [] d.state # Reject /\ state = Accept -> Flush(copied)
          [] d.state # Reject /\ state \notin {Accept, Reject} -> copied
=============================================================================

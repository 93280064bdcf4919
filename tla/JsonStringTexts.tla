--------------------------- MODULE JsonStringTexts ---------------------------
(***************************************************************************)
(* The strings of JsonStrings against Unicode: what scan_string() makes of *)
(* every text up to a bound and dump_escaped() of every string, compared   *)
(* with UTF-8 and UTF-16 as they are defined.                              *)
(***************************************************************************)
EXTENDS JsonStrings, SequencesExt, FiniteSetsExt

CONSTANTS
    Bytes,            \* bytes a text is made of
    Units,            \* what its \u escapes stand for
    MaxPieces         \* bounds the bytes and \u escapes of a text

VARIABLES
    pieces,           \* the text after the opening quote: bytes and \u escapes
    lexer             \* what scan_string() has made of it

vars == <<pieces, lexer>>

-----------------------------------------------------------------------------
(* A whole text, a whole string *)

ScanString(bytes) == FoldLeft(Scan, Start, bytes)

\* thrown: the type_error 316.
DumpEscaped(bytes) ==
    LET d == FoldLeft(DumpByte, DumpStart, bytes)
    IN  [thrown |-> d.state # Accept, text |-> d.out \o d.buffer]

-----------------------------------------------------------------------------
(* Texts, a byte or a \u escape at a time *)

Piece == {<<b>> : b \in Bytes} \cup {Hex4(n) : n \in Units}
Text  == FlattenSeq(pieces)

Init == pieces = <<>> /\ lexer = Start

Feed(piece) ==
    /\ Len(pieces) < MaxPieces
    /\ lexer.at \notin {"done", "error"}
    /\ pieces' = Append(pieces, piece)
    /\ lexer' = FoldLeft(Scan, lexer, piece)

Next == \E piece \in Piece : Feed(piece)

Spec == Init /\ [][Next]_vars

-----------------------------------------------------------------------------
(* UTF-8 and UTF-16 as Unicode defines them, by the numbers bytes stand for *)

Scalar(n) == n \in 0..\h10FFFF /\ n \notin \hD800..\hDFFF

RECURSIVE CodePoints(_)
CodePoints(bytes) ==
    IF bytes = <<>> THEN <<>>
    ELSE LET lead  == Head(bytes)
             n     == CASE lead < \h80 -> 1 [] lead \in \hC0..\hDF -> 2 [] lead \in \hE0..\hEF -> 3
                        [] lead \in \hF0..\hF7 -> 4 [] OTHER -> 0
             whole == n # 0 /\ n <= Len(bytes) /\ \A i \in 2..n : bytes[i] \in \h80..\hBF
             point == FoldLeft(LAMBDA v, b : v * 64 + (b % 64),
                               IF n = 1 THEN lead ELSE lead % 2^(7 - n), SubSeq(bytes, 2, n))
         IN  IF whole /\ Scalar(point) /\ point >= <<0, \h80, \h800, \h10000>>[n]
             THEN <<point>> \o CodePoints(SubSeq(bytes, n + 1, Len(bytes)))
             ELSE <<-1>>

WellFormed(bytes) == -1 \notin ToSet(CodePoints(bytes))

RECURSIVE OfUtf16(_)
OfUtf16(units) ==
    CASE units = <<>> -> <<>>
      [] units # <<>> /\ Scalar(units[1]) -> <<units[1]>> \o OfUtf16(Tail(units))
      [] Len(units) > 1 /\ units[1] \in \hD800..\hDBFF /\ units[2] \in \hDC00..\hDFFF ->
             <<\h10000 + (units[1] - \hD800) * 1024 + units[2] - \hDC00>>
                 \o OfUtf16(SubSeq(units, 3, Len(units)))
      [] OTHER -> <<-1>>

-----------------------------------------------------------------------------
(* Properties *)

TypeOK ==
    /\ pieces \in Seq(Piece) /\ Len(pieces) <= MaxPieces
    /\ lexer \in Lexer
    /\ lexer.at = "bytes" => lexer.ranges # <<>>

Closed   == pieces # <<>> /\ Last(pieces) = <<Quote>> /\ lexer.at \in {"done", "error"}
Inside   == Front(pieces)
AllBytes == \A i \in DOMAIN Inside : Len(Inside[i]) = 1 /\ Inside[i][1] \notin {Quote, Backslash}
AllUnits == \A i \in DOMAIN Inside : Len(Inside[i]) = 6

\* Bytes that are no escape are taken over as they are, and exactly if they are
\* UTF-8 without control characters (json.hpp:7727-8130, nineteen ranges by hand).
TakesUtf8Only ==
    Closed /\ AllBytes =>
        LET bytes == FlattenSeq(Inside)
        IN  /\ lexer.at = "done" <=> WellFormed(bytes) /\ \A b \in ToSet(bytes) : b >= \h20
            /\ lexer.at = "done" => lexer.buffer = bytes

\* \u escapes are taken exactly if their units are UTF-16, and then stand for its
\* code points, surrogate pairs for one (json.hpp:7624-7713, assertion at 7685).
EscapesAreUtf16 ==
    Closed /\ AllUnits =>
        LET points == OfUtf16([i \in DOMAIN Inside |->
                          FoldLeft(LAMBDA v, b : v * 16 + DigitOf(b), 0, SubSeq(Inside[i], 3, 6))])
        IN  /\ lexer.at = "done" <=> -1 \notin ToSet(points)
            /\ lexer.at = "done" => CodePoints(lexer.buffer) = points

\* What the lexer accepts is dumped without the exception that ends the process:
\* a request that was parsed can be forwarded (main.cpp:244, 260), and reads the
\* same on the other side.  A NUL would end the body early (HttpRequest.cpp:91).
ParsedStringsSurviveDump ==
    lexer.at = "done" =>
        LET dumped == DumpEscaped(lexer.buffer)
        IN  /\ ~dumped.thrown
            /\ ScanString(dumped.text \o <<Quote>>) = [lexer EXCEPT !.at = "done"]
            /\ \A b \in ToSet(dumped.text) : b >= \h20

\* A reply is put into the answer as it came (main.cpp:272-274): dump() throws if
\* it is not UTF-8, and only then; otherwise the client reads back what came.
\* Bytes may follow those the lexer stopped at.
RepliesDumpIffUtf8 ==
    \A more \in {<<>>, <<\hBF>>, <<\hBF, \hBF>>} :
        LET reply  == Text \o more
            dumped == DumpEscaped(reply)
            again  == ScanString(dumped.text \o <<Quote>>)
        IN  /\ dumped.thrown <=> ~WellFormed(reply)
            /\ ~dumped.thrown => again.at = "done" /\ again.buffer = reply
=============================================================================

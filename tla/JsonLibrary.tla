------------------------------ MODULE JsonLibrary ------------------------------
(***************************************************************************)
(* What the gateway runs of nlohmann/json.hpp to read and write a text: the *)
(* loop of the parser (JsonParser), the lexer around tokens (JsonScan), its*)
(* strings and numbers and how they are written again (JsonStringTexts,    *)
(* JsonNumbers, and JsonGrisu2 for the digits of a double); and the binary *)
(* formats it offers beside (JsonBinary).                                  *)
(*                                                                         *)
(* These routines call one another but share no state: each is modelled    *)
(* alone, over every input up to a bound, and a behaviour of this module   *)
(* runs one of them.  The variables of the others stay where they begin.   *)
(* What becomes of a document once it is read is in HandlerDocuments.      *)
(***************************************************************************)
EXTENDS JsonGrammar

CONSTANTS
    MaxChars,                           \* of JsonScan
    RawBytes, MaxBytes,                 \* of JsonStringTexts, for strings without \u
    EscapeBytes, Units, MaxEscapes,     \* of JsonStringTexts, for strings with \u
    BufferSize,
    NumberChars, MaxText, Width, MinExp, MaxExp, LargestExp,    \* of JsonNumbers
    Precision, Bias, MaxE, Q, Alpha, Gamma,               \* of JsonGrisu2
    CachedPowers, CachedPowersDecStep,
    Values, ReceivedBytes, MaxReceived, MaxCut, MaxCount  \* of JsonBinary

ASSUME LibraryAssumption == Q % 2 = 0 /\ Precision + 3 <= Q

VARIABLES
    routine,          \* the one that runs
    read, point, states, root, ref_stack, object_element, parsed,
    input, next_unget, lexerAt, expected, tokens,
    pieces, lexer,
    numeral, number,
    double, grisuAt, buffer, exponent, shift, p1, p2, pow10, digitsLeft, delta, dist, rest, unit,
    format, sent, encoded, source, decoded

parserVars   == <<read, point, states, root, ref_stack, object_element, parsed>>
scanVars     == <<input, next_unget, lexerAt, expected, tokens>>
stringVars   == <<pieces, lexer>>
numberVars   == <<numeral, number>>
grisuVars    == <<double, grisuAt, buffer, exponent, shift, p1, p2, pow10, digitsLeft, delta, dist, rest, unit>>
binaryVars   == <<format, sent, encoded, source, decoded>>
vars == <<routine, parserVars, scanVars, stringVars, numberVars, grisuVars, binaryVars>>

Parser    == INSTANCE JsonParser WITH outcome <- parsed
Lexer     == INSTANCE JsonScan WITH at <- lexerAt
Plain     == INSTANCE JsonStringTexts WITH Bytes <- RawBytes, Units <- {}, MaxPieces <- MaxBytes
Escaped   == INSTANCE JsonStringTexts WITH Bytes <- EscapeBytes, MaxPieces <- MaxEscapes
Numbers   == INSTANCE JsonNumbers WITH Chars <- NumberChars, text <- numeral, scan <- number
Grisu2    == INSTANCE JsonGrisu2 WITH
                 value <- double, at <- grisuAt, e <- shift, n <- digitsLeft
Binary    == INSTANCE JsonBinary WITH
                 value <- sent, bytes <- encoded, text <- source, result <- decoded

Routines == {"parse", "scan", "plainString", "escapedString", "number", "dtoa", "binary"}

\* One input for the routines that do not run.
Init ==
    /\ routine \in Routines
    /\ Parser!Init
    /\ Lexer!Init
    /\ Plain!Init
    /\ Numbers!Init
    /\ Grisu2!Init /\ (routine # "dtoa" => double = [E |-> 0, F |-> 1])
    /\ IF routine = "binary" THEN Binary!Init
       ELSE /\ format = [name |-> "msgpack"] /\ sent = [t |-> "null"]
            /\ encoded = <<>> /\ source = "none" /\ decoded = [ok |-> FALSE, error |-> "none"]

-----------------------------------------------------------------------------

Run(name) == routine = name /\ UNCHANGED routine

Parse ==
    /\ Run("parse") /\ Parser!Next
    /\ UNCHANGED <<scanVars, stringVars, numberVars, grisuVars, binaryVars>>

Scan ==
    /\ Run("scan") /\ Lexer!Next
    /\ UNCHANGED <<parserVars, stringVars, numberVars, grisuVars, binaryVars>>

ScanString ==
    /\ \/ Run("plainString") /\ Plain!Next
       \/ Run("escapedString") /\ Escaped!Next
    /\ UNCHANGED <<parserVars, scanVars, numberVars, grisuVars, binaryVars>>

ScanNumber ==
    /\ Run("number") /\ Numbers!Next
    /\ UNCHANGED <<parserVars, scanVars, stringVars, grisuVars, binaryVars>>

Dtoa ==
    /\ Run("dtoa") /\ Grisu2!Next
    /\ UNCHANGED <<parserVars, scanVars, stringVars, numberVars, binaryVars>>

WriteAndReadBinary ==
    /\ Run("binary") /\ Binary!Next
    /\ UNCHANGED <<parserVars, scanVars, stringVars, numberVars, grisuVars>>

Next == Parse \/ Scan \/ ScanString \/ ScanNumber \/ Dtoa \/ WriteAndReadBinary

Spec == Init /\ [][Next]_vars

-----------------------------------------------------------------------------
(* Properties, each of several routines *)

\* Each routine's state is of its type.
TypeOK ==
    CASE routine = "parse"         -> Parser!TypeOK
      [] routine = "scan"          -> Lexer!TypeOK
      [] routine = "plainString"   -> Plain!TypeOK
      [] routine = "escapedString" -> Escaped!TypeOK
      [] routine = "number"        -> Numbers!TypeOK
      [] routine = "dtoa"          -> Grisu2!TypeOK
      [] routine = "binary"        -> source \in {"none", "refused", "whole", "cut", "lengthened", "received"}

\* The parser accepts a text exactly if it is JSON: what it refuses continues to
\* no text of the grammar.
AcceptsTheGrammar ==
    /\ parsed = "accepted" => Front(read) \in Texts
    /\ parsed \in {"101", "406"} =>
           IF Last(read) = "eof" THEN Front(read) \notin Texts ELSE read \notin Begun

\* The value of an accepted text is the one it denotes, of members with one name
\* the last; and what dump() writes of it denotes it too.
BuildsAndDumpsTheValue ==
    parsed = "accepted" =>
        Pair(Front(read), root) \in Json /\ Pair(Parser!Dump(root), root) \in Json

\* What is taken for JSON is JSON up to its first NUL outside a string, or up to its
\* end if it has none: from the loop over the tokens and the characters around them
\* to escapes, UTF-8 and numbers.  Of such a text a handler acts on what RFC 8259
\* allows, and throws on what it does not.  The NUL is an exception to RFC 8259, and
\* to the comment at json.hpp:12230, "input must be completely read": the lexer calls
\* it the end of the input, so a payload of 1, a NUL and any garbage is taken for 1,
\* and this property does not say otherwise (main.cpp:244; json.hpp:7559-8900,
\* 8889-8891, 12282-12560).
TakesJsonUpToNul ==
    CASE routine = "parse"         -> AcceptsTheGrammar
      [] routine = "scan"          -> Lexer!EveryCharacterCounts
      [] routine = "plainString"   -> Plain!TakesUtf8Only
      [] routine = "escapedString" -> Escaped!EscapesAreUtf16
      [] routine = "number"        -> Numbers!ScansTheGrammar
      [] OTHER -> TRUE

\* What was read is what the text denotes, and what dump() writes of it denotes the
\* same: the body that is forwarded says what the client's said, the answer what
\* the reply said, and only a reply that is not UTF-8 throws (main.cpp:244-284).
ForwardsWhatWasRead ==
    CASE routine = "parse"         -> BuildsAndDumpsTheValue
      [] routine = "plainString"   -> Plain!RepliesDumpIffUtf8
      [] routine = "escapedString" -> Escaped!ParsedStringsSurviveDump
      [] routine = "number"        -> Numbers!IntegersDumpAsWritten /\ Numbers!FloatsKeepTheirValue
      [] OTHER -> TRUE

\* The digits written for a double are read back as that double, whichever way the
\* reader rounds; no number within the boundaries Grisu2 keeps has fewer digits, and
\* none of as many is nearer to the scaled double (json.hpp:17394-17400, 17655-17697).
ShortestDigits ==
    routine = "dtoa" =>
        /\ Grisu2!ProductsRounded
        /\ Grisu2!RoundTrips /\ Grisu2!FewDigits /\ Grisu2!ShortestAndNearest

\* No routine leaves its memory: the parser's raw pointers into the value it builds
\* and Grisu2's table of powers, without a check in a build without assertions
\* (json.hpp:6815-6899, 17295-17304, 17394-17400).
StaysInItsMemory ==
    CASE routine = "parse" -> Parser!PointersIntoTheValue
      [] routine = "dtoa"  -> Grisu2!AssertionsHold
      [] OTHER -> TRUE

\* What was written in a binary format is read back, whatever widths and markers the
\* writer chose for it, and so is what was received, read and written again; a BSON
\* document says its size; and bytes that lack the end of a value, or have something
\* behind it, are never taken for a value (json.hpp:9183-9236, 11955-11974,
\* 14994-16242).
BinaryReadsBack == routine = "binary" => Binary!ReadsBack /\ Binary!WholeTextsOnly
=============================================================================

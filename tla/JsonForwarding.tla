---------------------------- MODULE JsonForwarding ----------------------------
(***************************************************************************)
(* A string on its way through the gateway.  A request's is read by        *)
(* scan_string() and what it made of it is written by dump_escaped() into  *)
(* the body that is forwarded; a reply's bytes are written into the answer *)
(* as they came.  Who receives the body or the answer reads it with a lexer*)
(* of the same kind.  One byte is taken a step, so that a string is as long*)
(* as it likes.                                                            *)
(***************************************************************************)
EXTENDS JsonStrings

CONSTANTS
    Bytes,            \* bytes that requests and replies are made of
    MaxBytes          \* bounds the string: no byte is read beyond it but a quote

VARIABLES
    origin,           \* "request" or "reply"
    lexer,            \* what scan_string() has made of the request's text
    string,           \* the bytes that dump_escaped() has taken
    dump,             \* what it has made of them
    readBack,         \* how many bytes of that the receiver has read
    reader            \* what scan_string() has made of them there

vars == <<origin, lexer, string, dump, readBack, reader>>

Init ==
    /\ origin \in {"request", "reply"}
    /\ lexer = Start
    /\ string = <<>> /\ dump = DumpStart
    /\ readBack = 0 /\ reader = Start

ScanByte(b) ==
    /\ origin = "request" /\ lexer.at \notin {"done", "error"}
    /\ Len(lexer.buffer) < MaxBytes \/ b = Quote
    /\ lexer' = Scan(lexer, b)
    /\ UNCHANGED <<origin, string, dump, readBack, reader>>

\* The bytes that may be dumped next: of a request what is in token_buffer, of a
\* reply any.
NextBytes ==
    IF origin = "reply" THEN {b \in Bytes : Len(string) < MaxBytes}
    ELSE {lexer.buffer[i] : i \in {i \in DOMAIN lexer.buffer : lexer.at = "done" /\ i = Len(string) + 1}}

\* What has been written, to the output or into string_buffer.
Body == dump.out \o dump.buffer

\* The receiver keeps up: reading takes nothing from the writer.
CaughtUp == readBack = Len(Body)

TakeByte(b) ==
    /\ b \in NextBytes /\ dump.state # Reject /\ CaughtUp
    /\ string' = Append(string, b)
    /\ dump' = DumpByte(dump, b)
    /\ UNCHANGED <<origin, lexer, readBack, reader>>

ReadBack ==
    /\ ~CaughtUp
    /\ readBack' = readBack + 1
    /\ reader' = Scan(reader, Body[readBack + 1])
    /\ UNCHANGED <<origin, lexer, string, dump>>

Next ==
    \/ \E b \in Bytes : ScanByte(b)
    \/ \E b \in NextBytes : TakeByte(b)
    \/ ReadBack

Spec == Init /\ [][Next]_vars

-----------------------------------------------------------------------------
(* Properties *)

\* dump_escaped() has met a byte that is not UTF-8, or the end in a code point.
Thrown ==
    \/ dump.state = Reject
    \/ origin = "request" /\ lexer.at = "done" /\ string = lexer.buffer /\ dump.state # Accept

\* A string that was parsed is written without the exception that would end the
\* process; and whatever is written, a parsed string or a reply, is read back by
\* its receiver as the same bytes: no control character, quote or backslash of it
\* reaches the lexer there as such (main.cpp:244, 260, 272-274; json.hpp:18313-18480).
ForwardedAsItCame ==
    /\ origin = "request" => ~Thrown
    /\ CaughtUp /\ dump.state = Accept =>
           Scan(reader, Quote) = Goto(Within(string, <<>>), "done")

\* string_buffer is never written past its end: after each code point there is
\* room for the next (json.hpp:18414-18421, the comment there).
BufferNeverOverrun == dump.used <= BufferSize

-----------------------------------------------------------------------------
(* The inductive invariant of the proofs, in parts *)

States == Accept..8

\* Between its escapes a lexer holds no digits, within one those it has read.
Below(digits) == <<1, 16, 256, 4096>>[digits + 1]

DigitsOf(s) ==
    /\ s.at \in {"string", "escape", "low", "lowU"} => s.digits = 0 /\ s.number = 0
    /\ s.at = "hex" => s.number < Below(s.digits)

TypeOK ==
    /\ origin \in {"request", "reply"}
    /\ lexer \in Lexer /\ DigitsOf(lexer)
    /\ reader \in Lexer /\ DigitsOf(reader)
    /\ string \in Seq(Byte)
    /\ dump \in [state : States, codep : Nat, buffer : Seq(Byte), out : Seq(Byte), used : Nat]
    /\ readBack \in 0..Len(Body)

\* The ranges of the bytes that take decode() from a state to the end of a code point.
RangesOf(state) ==
    CASE state = 2 -> <<Trail>>
      [] state = 3 -> <<Trail, Trail>>
      [] state = 4 -> <<\hA0..\hBF, Trail>>
      [] state = 5 -> <<\h80..\h9F, Trail>>
      [] state = 6 -> <<\h90..\hBF, Trail, Trail>>
      [] state = 7 -> <<Trail, Trail, Trail>>
      [] state = 8 -> <<\h80..\h8F, Trail, Trail>>
      [] OTHER     -> <<>>

\* The lexer with bytes in token_buffer, after which decode() is in state.
Between(bytes, state) == Within(bytes, RangesOf(state))

\* What is in token_buffer takes decode() to a state that wants the bytes the lexer
\* wants, never to UTF8_REJECT, and dump_escaped() is on that way.
RequestRun(run) ==
    /\ run \in [0..Len(lexer.buffer) -> States \ {Reject}]
    /\ run[0] = Accept
    /\ \A i \in 1..Len(lexer.buffer) : run[i] = Decode(run[i - 1], TypeOf(lexer.buffer[i]))
    /\ lexer.at # "bytes" => run[Len(lexer.buffer)] = Accept
    /\ lexer.at = "bytes" =>
           /\ lexer.ranges = RangesOf(run[Len(lexer.buffer)])
           /\ run[Len(lexer.buffer)] # Accept
    /\ Len(string) <= Len(lexer.buffer)
    /\ dump.state = run[Len(string)]

RequestInv ==
    origin = "request" =>
        /\ lexer.at # "done" => string = <<>> /\ dump.state = Accept
        /\ lexer.at # "error" => \E run \in [0..Len(lexer.buffer) -> States] : RequestRun(run)

\* The room for the next code point, less the bytes of one that is not complete.
RoomFor(state) == CASE state = Accept -> 13 [] state = 2 -> 10 [] state = 3 -> 11 [] OTHER -> 12

RoomInv ==
    /\ BufferNeverOverrun
    /\ dump.state # Reject => Len(dump.buffer) + RoomFor(dump.state) <= BufferSize

\* A code point of several bytes is none that is escaped.
CodepointInv ==
    /\ dump.state = 2 => dump.codep >= 2
    /\ dump.state \in {3, 5, 7, 8} => dump.codep >= 1

\* What the receiver has not read yet takes its lexer to where it should be.
ReaderRun(run) ==
    /\ run \in [readBack..Len(Body) -> Lexer]
    /\ run[readBack] = reader
    /\ \A i \in readBack + 1..Len(Body) : run[i] = Scan(run[i - 1], Body[i])
    /\ run[Len(Body)] = Between(string, dump.state)

ReaderInv ==
    IF dump.state = Reject THEN CaughtUp
    ELSE \E run \in [readBack..Len(Body) -> Lexer] : ReaderRun(run)

IInv == TypeOK /\ RequestInv /\ RoomInv /\ CodepointInv /\ ReaderInv
=============================================================================

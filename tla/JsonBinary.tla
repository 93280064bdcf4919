------------------------------ MODULE JsonBinary ------------------------------
(***************************************************************************)
(* The binary formats of nlohmann/json.hpp: a value is written in one of   *)
(* them and the bytes are read, all of them, some of them or with another  *)
(* one behind; or bytes that nobody wrote are read, and the value is       *)
(* written in its turn.                                                    *)
(*                                                                         *)
(* to_cbor(), to_msgpack(), to_ubjson(), to_bjdata(), to_bson() and        *)
(* from_cbor() to from_bson() are one step each: a function of their input.*)
(***************************************************************************)
EXTENDS JsonBytes

CONSTANTS
    Values,                    \* that are written, for each format
    ReceivedBytes,             \* of texts nobody wrote, for each format
    MaxReceived,               \* and their length
    MaxCut                     \* a long text is cut to at most that, or by one byte

VARIABLES
    format, value,
    bytes,
    text,                      \* what the bytes are, or "none" before there are any
    result

vars == <<format, value, bytes, text, result>>

Cbor    == INSTANCE JsonCbor
MsgPack == INSTANCE JsonMsgPack
Ubjson  == INSTANCE JsonUbjson
Bson    == INSTANCE JsonBson

Formats ==
    [name : {"cbor"}, tags : {"error", "ignore", "store"}]
        \cup [name : {"msgpack", "bson"}]
        \cup {o \in [name : {"ubjson", "bjdata"}, count : BOOLEAN, type : BOOLEAN] : o.type => o.count}

IsUbjson(f) == f.name \in {"ubjson", "bjdata"}

None == [ok |-> FALSE, error |-> "none"]

-----------------------------------------------------------------------------

\* to_bson() throws for a value that is no object, and for one it has no bytes for.
Writable(f, v) == f.name = "bson" => v.t = "object" /\ ~Bson!Refuses(v)

Written(f, v) ==
    CASE f.name = "cbor"    -> Cbor!Write(v)
      [] f.name = "msgpack" -> MsgPack!Write(v)
      [] f.name = "bson"    -> Bson!WriteObject(v.members)
      [] IsUbjson(f)        ->
             Ubjson!Write(v, [count |-> f.count, type |-> f.type, bjdata |-> f.name = "bjdata"], TRUE)

Decoded(f, in) ==
    CASE f.name = "cbor"    -> Cbor!Read(in, 1, f.tags)
      [] f.name = "msgpack" -> MsgPack!Read(in, 1)
      [] f.name = "bson"    -> Bson!Read(in, 1)
      [] IsUbjson(f)        -> Ubjson!Read(in, 1, f.name = "bjdata")

\* Nothing but no-ops of UBJSON may follow the value.
Strict(f, in, r) ==
    IF r.ok /\ Get(in, IF IsUbjson(f) THEN Ubjson!Skip(in, r.at) ELSE r.at) # eof
    THEN Fails("110") ELSE r

\* sax_parse()
Parsed(f, in) == Strict(f, in, Decoded(f, in))

-----------------------------------------------------------------------------

Init ==
    /\ format \in Formats
    /\ \/ /\ text = "none"
          /\ \E v \in Values[format.name] : value = IF format.name = "bson" THEN Object(<< <<<<97>>, v>> >>) ELSE v
       \/ text = "received" /\ value = Null
    /\ bytes = <<>>
    /\ result = None

Write ==
    /\ text = "none" /\ Writable(format, value)
    /\ bytes' = Written(format, value)
    /\ text' = "whole"
    /\ UNCHANGED <<format, value, result>>

\* to_bson() throws.
Throw ==
    /\ text = "none" /\ ~Writable(format, value)
    /\ text' = "refused"
    /\ UNCHANGED <<format, value, bytes, result>>

\* What reaches the reader is short of some bytes, or has one more.
Cut ==
    /\ text = "whole" /\ result = None
    /\ \E n \in 0..(Len(bytes) - 1) :
           /\ n <= MaxCut \/ n = Len(bytes) - 1
           /\ bytes' = SubSeq(bytes, 1, n)
    /\ text' = "cut"
    /\ UNCHANGED <<format, value, result>>

Lengthen ==
    /\ text = "whole" /\ result = None
    /\ \E b \in ReceivedBytes[format.name] : bytes' = Append(bytes, b)
    /\ text' = "lengthened"
    /\ UNCHANGED <<format, value, result>>

Receive ==
    /\ text = "received" /\ result = None /\ Len(bytes) < MaxReceived
    /\ \E b \in ReceivedBytes[format.name] : bytes' = Append(bytes, b)
    /\ UNCHANGED <<format, value, text, result>>

Read ==
    /\ text \notin {"none", "refused"} /\ result = None
    /\ result' = Parsed(format, bytes)
    /\ UNCHANGED <<format, value, bytes, text>>

\* A value that was received is written in its turn.
Forward ==
    /\ text = "received" /\ result.ok
    /\ value' = result.val
    /\ bytes' = <<>> /\ text' = "none" /\ result' = None
    /\ UNCHANGED format

Next == Write \/ Throw \/ Cut \/ Lengthen \/ Receive \/ Read \/ Forward

Spec == Init /\ [][Next]_vars

-----------------------------------------------------------------------------
(* Properties *)

\* What a format keeps of a value: numbers by their value; of a binary value's subtype
\* a byte or nothing, or its bytes as numbers; of an array of dimensions a list, if it
\* has one dimension or none.
RECURSIVE Kept(_, _)

KeptBinary(f, v) ==
    CASE IsUbjson(f) -> Array([i \in DOMAIN v.data |-> Unsigned(Word(v.data[i]))])
      [] f.name = "cbor" -> Binary(v.data, IF f.tags = "ignore" THEN {} ELSE v.subtype)
      [] f.name = "msgpack" -> Binary(v.data, {Extend(Low(w, 1), FALSE) : w \in v.subtype})
      [] f.name = "bson" ->
             Binary(v.data, {Extend(Low(w, 1), FALSE) :
                                 w \in IF v.subtype = {} THEN {Word(0)} ELSE v.subtype})
      [] f.name = "itself" -> v

IsList(sizes) == Len(sizes) < 2 \/ (Len(sizes) = 2 /\ sizes[1] = 1) \/ Contains(sizes, 0)

Kept(f, v) ==
    LET Each(s) == [i \in DOMAIN s |-> Kept(f, s[i])]
    IN  CASE v.t = "integer" /\ ~IsNegative(v.word) -> Unsigned(v.word)
          [] v.t = "float" /\ IsNaN(v.double) -> Float(Double(0, 2047, 1))
          [] v.t = "binary" -> KeptBinary(f, v)
          [] v.t = "array"  -> Array(Each(v.items))
          [] v.t = "object" ->
                 IF /\ f.name = "bjdata" /\ Ubjson!IsNdarray(v.members)
                    /\ IsList(Ubjson!SizesOf(v.members[Ubjson!ArraySize]))
                 THEN Array(Each(v.members[Ubjson!ArrayData].items))
                 ELSE [v EXCEPT !.members = Each(@)]
          [] OTHER -> v

\* Whether a value has a subtype somewhere.
RECURSIVE Tagged(_)
Tagged(v) ==
    CASE v.t = "binary" -> v.subtype # {}
      [] v.t = "array"  -> \E i \in DOMAIN v.items : Tagged(v.items[i])
      [] v.t = "object" -> \E k \in DOMAIN v.members : Tagged(v.members[k])
      [] OTHER          -> FALSE

IsRead(v) == result.ok /\ Kept([name |-> "itself"], result.val) = Kept(format, v)

\* What was written in a format is read back, whatever the widths and the markers the
\* writer chose; only CBOR's tags are refused by default. A BSON document begins with
\* the number of its bytes, which no reader of this library would miss.
ReadsBack ==
    text = "whole" =>
        /\ result # None =>
               IF format.name = "cbor" /\ format.tags = "error" /\ Tagged(value)
               THEN ~result.ok ELSE IsRead(value)
        /\ format.name = "bson" => Bson!GetInt32(bytes, 1).val = Word(Len(bytes))

\* A text that lacks its end, or has something behind it, is never taken for a value.
WholeTextsOnly ==
    /\ text = "cut" => ~result.ok
    /\ text = "lengthened" /\ result.ok =>
           IsUbjson(format) /\ Last(bytes) = Ubjson!Marker.N /\ IsRead(value)
=============================================================================

------------------------------- MODULE JsonCbor -------------------------------
(***************************************************************************)
(* CBOR in nlohmann/json.hpp: binary_writer::write_cbor() and binary_      *)
(* reader::parse_cbor_internal().  The first byte of an item is its type   *)
(* and the length of what comes next, or a small number itself.            *)
(***************************************************************************)
EXTENDS JsonBytes

-----------------------------------------------------------------------------
(* binary_writer *)

\* A type and a number, or the number of bytes, elements or members.
Control(type, w) ==
    IF AtMost(w, 23) THEN <<type + w[8]>>
    ELSE <<type + 24 + LogWidth(w)>> \o Low(w, 2^LogWidth(w))

WriteInteger(w) == IF IsNegative(w) THEN Control(\h20, Complement(w)) ELSE Control(\h00, w)
WriteUnsigned(w) == Control(\h00, w)

WriteFloat(d) ==
    CASE IsNaN(d)      -> <<\hF9, \h7E, \h00>>
      [] IsInfinite(d) -> <<\hF9, IF IsNegative(d) THEN \hFC ELSE \h7C, \h00>>
      [] OTHER         -> CompactFloat(d, \hFA, \hFB)

WriteString(s) == Control(\h60, Word(Len(s))) \o s

WriteSubtype(w) == <<\hD8 + LogWidth(w)>> \o Low(w, 2^LogWidth(w))

WriteBinary(v) ==
    (IF v.subtype = {} THEN <<>> ELSE WriteSubtype(CHOOSE w \in v.subtype : TRUE))
        \o Control(\h40, Word(Len(v.data))) \o v.data

RECURSIVE Write(_)

WriteArray(items) ==
    Control(\h80, Word(Len(items))) \o FlattenSeq([i \in DOMAIN items |-> Write(items[i])])

WriteObject(members) ==
    LET names == Names(members)
    IN  Control(\hA0, Word(Len(names)))
            \o FlattenSeq([i \in DOMAIN names |-> WriteString(names[i]) \o Write(members[names[i]])])

Write(v) ==
    CASE v.t = "null"     -> <<\hF6>>
      [] v.t = "boolean"  -> <<IF v.truth THEN \hF5 ELSE \hF4>>
      [] v.t = "integer"  -> WriteInteger(v.word)
      [] v.t = "unsigned" -> WriteUnsigned(v.word)
      [] v.t = "float"    -> WriteFloat(v.double)
      [] v.t = "string"   -> WriteString(v.text)
      [] v.t = "binary"   -> WriteBinary(v)
      [] v.t = "array"    -> WriteArray(v.items)
      [] v.t = "object"   -> WriteObject(v.members)

-----------------------------------------------------------------------------
(* binary_reader *)

\* The number that a first byte holds or announces, info being what it adds to its type.
Argument(in, p, info) ==
    IF info < 24 THEN Returns(Word(info), p) ELSE GetUnsigned(in, p, 2^(info - 24), FALSE)

\* A string or a byte array at its first byte, in one piece or in chunks.
RECURSIVE Chunks(_, _, _)
Chunks(in, p, type) ==
    LET c == Get(in, p)
    IN  CASE c = eof -> Fails("110")
          [] c \in type..(type + 27) ->
                 Then(Argument(in, p + 1, c - type), LAMBDA w, q : GetBytes(in, q, Count(w)))
          [] c = type + 31 ->
                 Made(Until(in, p + 1, \hFF, LAMBDA q : q, LAMBDA q : Chunks(in, q, type)),
                      FlattenSeq)
          [] OTHER -> Fails("113")

GetCborString(in, p) == Chunks(in, p, \h60)
GetCborBinary(in, p) == Chunks(in, p, \h40)

RECURSIVE Read(_, _, _)

\* (size_t)-1 stands for a length that is not known.
NoLength == [i \in 1..8 |-> 255]

Elements(in, p, w, Element(_)) ==
    IF w = NoLength THEN Until(in, p, \hFF, LAMBDA q : q, Element)
    ELSE Repeat(p, Count(w), Element)

Length(in, p, info) == IF info = 31 THEN Returns(NoLength, p) ELSE Argument(in, p, info)

GetCborArray(in, p, info, tags) ==
    Then(Length(in, p, info), LAMBDA w, q :
         Made(Elements(in, q, w, LAMBDA r : Read(in, r, tags)), Array))

Member(in, p, tags) ==
    Then(GetCborString(in, p), LAMBDA k, q : Made(Read(in, q, tags), LAMBDA v : <<k, v>>))

GetCborObject(in, p, info, tags) ==
    Then(Length(in, p, info), LAMBDA w, q :
         Made(Elements(in, q, w, LAMBDA r : Member(in, r, tags)), Object))

\* What follows a tag is read without it, or gets it as its subtype; a tag without
\* bytes of its own is never kept.
Tagged(in, p, tags) ==
    LET c == in[p - 1]
        number == IF c < \hD8 THEN Returns(Word(0), p) ELSE GetUnsigned(in, p, 2^(c - \hD8), FALSE)
    IN  CASE tags = "error" -> Fails("112")
          [] tags = "store" /\ c >= \hD8 ->
                 Then(number, LAMBDA w, q : Made(GetCborBinary(in, q), LAMBDA b : Binary(b, {w})))
          [] OTHER -> Then(number, LAMBDA w, q : Read(in, q, tags))

\* Floats, of two, four and eight bytes.
ReadFloat(in, p, c) ==
    CASE c = \hF9 -> Made(GetBytes(in, p, 2), LAMBDA b : Float(FromHalf(b)))
      [] c = \hFA -> Made(GetBytes(in, p, 4), LAMBDA b : Float(FromSingle(b)))
      [] c = \hFB -> Made(GetBytes(in, p, 8), Float)

ReadUnsigned(in, p, info) == Made(Argument(in, p, info), Unsigned)
ReadNegative(in, p, info) == Made(Argument(in, p, info), LAMBDA w : Integer(Complement(w)))

ReadBinary(in, p) == Made(GetCborBinary(in, p), LAMBDA b : Binary(b, {}))
ReadString(in, p) == Made(GetCborString(in, p), String)

Read(in, p, tags) ==
    LET c == Get(in, p)
        q == p + 1
    IN  CASE c = eof                               -> Fails("110")
          [] c \in \h00..\h1B                      -> ReadUnsigned(in, q, c)
          [] c \in \h20..\h3B                      -> ReadNegative(in, q, c - \h20)
          [] c \in (\h40..\h5B) \cup {\h5F}        -> ReadBinary(in, p)
          [] c \in (\h60..\h7B) \cup {\h7F}        -> ReadString(in, p)
          [] c \in (\h80..\h9B) \cup {\h9F}        -> GetCborArray(in, q, c - \h80, tags)
          [] c \in (\hA0..\hBB) \cup {\hBF}        -> GetCborObject(in, q, c - \hA0, tags)
          [] c \in (\hC6..\hD4) \cup (\hD8..\hDB)  -> Tagged(in, q, tags)
          [] c \in {\hF4, \hF5}                    -> Returns(Boolean(c = \hF5), q)
          [] c = \hF6                              -> Returns(Null, q)
          [] c \in {\hF9, \hFA, \hFB}              -> ReadFloat(in, q, c)
          [] OTHER                                 -> Fails("112")
=============================================================================

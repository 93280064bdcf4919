------------------------------- MODULE JsonBson -------------------------------
(***************************************************************************)
(* BSON in nlohmann/json.hpp: binary_writer::write_bson() and binary_      *)
(* reader::parse_bson_internal().  A document begins with its size, which  *)
(* the writer calculates before it writes and the reader does not look at. *)
(***************************************************************************)
EXTENDS JsonBytes

\* Whether write_bson() throws for a member: 409 for a name with a NUL, 407 for an
\* integer that is no int64.
RECURSIVE Refuses(_)
Refuses(v) ==
    CASE v.t = "unsigned" -> IsNegative(v.word)
      [] v.t = "array"    -> \E i \in DOMAIN v.items : Refuses(v.items[i])
      [] v.t = "object"   -> \E k \in DOMAIN v.members : Contains(k, 0) \/ Refuses(v.members[k])
      [] OTHER            -> FALSE

\* The names of an array's elements: "0", "1", ...
Index(i) == Decimal(Word(i - 1))

IsInt32(v) == IF v.t = "integer" THEN FitsSigned(v.word, 4) ELSE Fits(v.word, 4) /\ v.word[5] < 128

-----------------------------------------------------------------------------
(* The sizes that are calculated first *)

Total(n, Size(_)) ==
    LET sum[i \in 0..n] == IF i = 0 THEN 0 ELSE sum[i - 1] + Size(i) IN sum[n]

HeaderSize(name) == 1 + Len(name) + 1

RECURSIVE ElementSize(_, _)

ArraySize(items) == 4 + Total(Len(items), LAMBDA i : ElementSize(Index(i), items[i])) + 1

ObjectSize(members) ==
    LET names == Names(members)
    IN  4 + Total(Len(names), LAMBDA i : ElementSize(names[i], members[names[i]])) + 1

ElementSize(name, v) ==
    HeaderSize(name) +
        CASE v.t = "object"                    -> ObjectSize(v.members)
          [] v.t = "array"                     -> ArraySize(v.items)
          [] v.t = "binary"                    -> 4 + Len(v.data) + 1
          [] v.t = "boolean"                   -> 1
          [] v.t = "float"                     -> 8
          [] v.t \in {"integer", "unsigned"}   -> IF IsInt32(v) THEN 4 ELSE 8
          [] v.t = "string"                    -> 4 + Len(v.text) + 1
          [] v.t = "null"                      -> 0

-----------------------------------------------------------------------------
(* binary_writer *)

WriteInt32(n) == Reverse(Low(Word(n), 4))

Header(type, name) == <<type>> \o name \o <<0>>

RECURSIVE WriteElement(_, _)

WriteObject(members) ==
    LET names == Names(members)
    IN  WriteInt32(ObjectSize(members))
            \o FlattenSeq([i \in DOMAIN names |-> WriteElement(names[i], members[names[i]])]) \o <<0>>

WriteArray(items) ==
    WriteInt32(ArraySize(items))
        \o FlattenSeq([i \in DOMAIN items |-> WriteElement(Index(i), items[i])]) \o <<0>>

WriteInteger(name, v) ==
    IF IsInt32(v) THEN Header(\h10, name) \o Reverse(Low(v.word, 4))
    ELSE Header(\h12, name) \o Reverse(v.word)

WriteBinary(v) ==
    WriteInt32(Len(v.data)) \o (IF v.subtype = {} THEN <<0>> ELSE Low(CHOOSE w \in v.subtype : TRUE, 1))
        \o v.data

WriteElement(name, v) ==
    CASE v.t = "object"                    -> Header(\h03, name) \o WriteObject(v.members)
      [] v.t = "array"                     -> Header(\h04, name) \o WriteArray(v.items)
      [] v.t = "binary"                    -> Header(\h05, name) \o WriteBinary(v)
      [] v.t = "boolean"                   -> Header(\h08, name) \o <<IF v.truth THEN 1 ELSE 0>>
      [] v.t = "float"                     -> Header(\h01, name) \o Reverse(v.double)
      [] v.t \in {"integer", "unsigned"}   -> WriteInteger(name, v)
      [] v.t = "string" ->
             Header(\h02, name) \o WriteInt32(Len(v.text) + 1) \o v.text \o <<0>>
      [] v.t = "null"                      -> Header(\h0A, name)

-----------------------------------------------------------------------------
(* binary_reader *)

\* A name, up to its NUL.
GetCstr(in, p) ==
    LET ends == {q \in p..Len(in) : in[q] = 0}
        z == CHOOSE q \in ends : \A r \in ends : q <= r
    IN  IF ends = {} THEN Fails("110") ELSE Returns(SubSeq(in, p, z - 1), z + 1)

GetInt32(in, p) == GetSigned(in, p, 4, TRUE)

\* A string has one byte more, whichever; if that is missing there is no error, and
\* the document is discarded.
GetString(in, p) ==
    Then(GetInt32(in, p), LAMBDA w, q :
         IF IsNegative(w) \/ AtMost(w, 0) THEN Fails("112")
         ELSE Then(GetBytes(in, q, Count(w) - 1), LAMBDA s, r :
                   IF Get(in, r) = eof THEN Fails("discarded") ELSE Returns(String(s), r + 1)))

GetBinary(in, p) ==
    Then(GetInt32(in, p), LAMBDA w, q :
         IF IsNegative(w) THEN Fails("112")
         ELSE Then(GetUnsigned(in, q, 1, FALSE), LAMBDA subtype, r :
                   Made(GetBytes(in, r, Count(w)), LAMBDA b : Binary(b, {subtype}))))

RECURSIVE Read(_, _)
RECURSIVE ReadArray(_, _)

\* A value of a type; the end of the input is taken for TRUE and found next.
ReadElement(in, p, type) ==
    CASE type = \h01 -> Made(GetNumber(in, p, 8, TRUE), Float)
      [] type = \h02 -> GetString(in, p)
      [] type = \h03 -> Read(in, p)
      [] type = \h04 -> ReadArray(in, p)
      [] type = \h05 -> GetBinary(in, p)
      [] type = \h08 -> Returns(Boolean(Get(in, p) # 0), p + 1)
      [] type = \h0A -> Returns(Null, p)
      [] type = \h10 -> Made(GetInt32(in, p), Integer)
      [] type = \h12 -> Made(GetSigned(in, p, 8, TRUE), Integer)
      [] OTHER       -> Fails("114")

Member(in, p) ==
    LET type == Get(in, p)
    IN  IF type = eof THEN Fails("110")
        ELSE Then(GetCstr(in, p + 1), LAMBDA k, q :
                  Made(ReadElement(in, q, type), LAMBDA v : <<k, v>>))

ElementList(in, p) == Until(in, p, 0, LAMBDA q : q, LAMBDA q : Member(in, q))

Read(in, p) ==
    Then(GetInt32(in, p), LAMBDA size, q : Made(ElementList(in, q), Object))

\* The names of its elements say nothing.
ReadArray(in, p) ==
    Then(GetInt32(in, p), LAMBDA size, q :
         Made(ElementList(in, q), LAMBDA ms : Array([i \in DOMAIN ms |-> ms[i][2]])))
=============================================================================

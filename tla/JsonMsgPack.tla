----------------------------- MODULE JsonMsgPack -----------------------------
(***************************************************************************)
(* MessagePack in nlohmann/json.hpp: binary_writer::write_msgpack() and    *)
(* binary_reader::parse_msgpack_internal().                                *)
(***************************************************************************)
EXTENDS JsonBytes

-----------------------------------------------------------------------------
(* binary_writer *)

\* An integer without a sign: positive fixnum, or uint 8 to uint 64.
WriteUnsigned(w) ==
    IF AtMost(w, 127) THEN <<w[8]>> ELSE <<\hCC + LogWidth(w)>> \o Low(w, 2^LogWidth(w))

\* One with a sign: negative fixnum, or int 8 to int 64.
WriteInteger(w) ==
    LET i == CHOOSE i \in 0..3 : FitsSigned(w, 2^i) /\ \A j \in 0..(i - 1) : ~FitsSigned(w, 2^j)
    IN  CASE ~IsNegative(w)             -> WriteUnsigned(w)
          [] AtMost(Complement(w), 31)  -> <<w[8]>>
          [] OTHER                      -> <<\hD0 + i>> \o Low(w, 2^i)

\* fixstr, str 8, str 16, str 32
WriteString(s) ==
    LET n == Word(Len(s))
    IN  (IF AtMost(n, 31) THEN <<\hA0 + n[8]>> ELSE <<\hD9 + LogWidth(n)>> \o Low(n, 2^LogWidth(n)))
            \o s

\* The size of an array or a map, which is fixed or has two or four bytes.
WriteSize(n, fixed, type16) ==
    LET w == Word(n)
    IN  CASE AtMost(w, 15)                  -> <<fixed + n>>
          [] ~AtMost(w, 15) /\ Fits(w, 2)   -> <<type16>> \o Low(w, 2)
          [] OTHER                          -> <<type16 + 1>> \o Low(w, 4)

\* bin 8 to bin 32; with a subtype fixext 1 to fixext 16, ext 8 to ext 32.
WriteBinary(v) ==
    LET n == Word(Len(v.data))
        ext == v.subtype # {}
        fixed == {i \in 0..4 : ext /\ Len(v.data) = 2^i}
        size == IF fixed # {} THEN <<\hD4 + CHOOSE i \in fixed : TRUE>>
                ELSE <<(IF ext THEN \hC7 ELSE \hC4) + LogWidth(n)>> \o Low(n, 2^LogWidth(n))
    IN  size \o (IF ext THEN Low(CHOOSE w \in v.subtype : TRUE, 1) ELSE <<>>) \o v.data

RECURSIVE Write(_)

WriteArray(items) ==
    WriteSize(Len(items), \h90, \hDC) \o FlattenSeq([i \in DOMAIN items |-> Write(items[i])])

WriteObject(members) ==
    LET names == Names(members)
    IN  WriteSize(Len(names), \h80, \hDE)
            \o FlattenSeq([i \in DOMAIN names |-> WriteString(names[i]) \o Write(members[names[i]])])

Write(v) ==
    CASE v.t = "null"     -> <<\hC0>>
      [] v.t = "boolean"  -> <<IF v.truth THEN \hC3 ELSE \hC2>>
      [] v.t = "integer"  -> WriteInteger(v.word)
      [] v.t = "unsigned" -> WriteUnsigned(v.word)
      [] v.t = "float"    -> CompactFloat(v.double, \hCA, \hCB)
      [] v.t = "string"   -> WriteString(v.text)
      [] v.t = "binary"   -> WriteBinary(v)
      [] v.t = "array"    -> WriteArray(v.items)
      [] v.t = "object"   -> WriteObject(v.members)

-----------------------------------------------------------------------------
(* binary_reader *)

Size(in, p, size) == GetUnsigned(in, p, size, FALSE)

GetMsgpackString(in, p) ==
    LET c == Get(in, p)
        n == CASE c \in \hA0..\hBF -> Returns(Word(c - \hA0), p + 1)
               [] c \in \hD9..\hDB -> Size(in, p + 1, 2^(c - \hD9))
               [] c = eof          -> Fails("110")
               [] OTHER            -> Fails("113")
    IN  Then(n, LAMBDA w, q : GetBytes(in, q, Count(w)))

\* An ext has its subtype before its bytes.
GetMsgpackBinary(in, p) ==
    LET c == Get(in, p)
        n == CASE c \in \hC4..\hC6 -> Size(in, p + 1, 2^(c - \hC4))
               [] c \in \hC7..\hC9 -> Size(in, p + 1, 2^(c - \hC7))
               [] c \in \hD4..\hD8 -> Returns(Word(2^(c - \hD4)), p + 1)
        Ext(w, q) == Then(GetUnsigned(in, q, 1, FALSE), LAMBDA subtype, r :
                          Made(GetBytes(in, r, Count(w)), LAMBDA b : Binary(b, {subtype})))
        Bin(w, q) == Made(GetBytes(in, q, Count(w)), LAMBDA b : Binary(b, {}))
    IN  IF c \in \hC4..\hC6 THEN Then(n, Bin) ELSE Then(n, Ext)

RECURSIVE Read(_, _)

GetMsgpackArray(in, p, w) == Made(Repeat(p, Count(w), LAMBDA q : Read(in, q)), Array)

Member(in, p) ==
    Then(GetMsgpackString(in, p), LAMBDA k, q : Made(Read(in, q), LAMBDA v : <<k, v>>))

GetMsgpackObject(in, p, w) == Made(Repeat(p, Count(w), LAMBDA q : Member(in, q)), Object)

\* Numbers that follow their first byte: floats, uint 8 to uint 64, int 8 to int 64.
ReadNumber(in, p, c) ==
    CASE c = \hCA          -> Made(GetBytes(in, p, 4), LAMBDA b : Float(FromSingle(b)))
      [] c = \hCB          -> Made(GetBytes(in, p, 8), Float)
      [] c \in \hCC..\hCF  -> Made(GetUnsigned(in, p, 2^(c - \hCC), FALSE), Unsigned)
      [] c \in \hD0..\hD3  -> Made(GetSigned(in, p, 2^(c - \hD0), FALSE), Integer)

\* First bytes with a number in them.
ReadPositive(c, p) == Returns(Unsigned(Word(c)), p)
ReadNegative(c, p) == Returns(Integer(Extend(<<c>>, TRUE)), p)

\* Containers whose size is in their first byte, or follows it in two or four bytes.
ReadFixed(in, p, c) ==
    IF c >= \h90 THEN GetMsgpackArray(in, p, Word(c - \h90)) ELSE GetMsgpackObject(in, p, Word(c - \h80))

ReadSized(in, p, c) ==
    IF c <= \hDD THEN Then(Size(in, p, 2^(c - \hDB)), LAMBDA w, q : GetMsgpackArray(in, q, w))
    ELSE Then(Size(in, p, 2^(c - \hDD)), LAMBDA w, q : GetMsgpackObject(in, q, w))

ReadString(in, p) == Made(GetMsgpackString(in, p), String)

Read(in, p) ==
    LET c == Get(in, p)
        q == p + 1
    IN  CASE c = eof                                -> Fails("110")
          [] c \in \h00..\h7F                       -> ReadPositive(c, q)
          [] c \in \hE0..\hFF                       -> ReadNegative(c, q)
          [] c \in \h80..\h9F                       -> ReadFixed(in, q, c)
          [] c \in \hDC..\hDF                       -> ReadSized(in, q, c)
          [] c \in (\hA0..\hBF) \cup (\hD9..\hDB)   -> ReadString(in, p)
          [] c = \hC0                               -> Returns(Null, q)
          [] c \in {\hC2, \hC3}                     -> Returns(Boolean(c = \hC3), q)
          [] c \in (\hC4..\hC9) \cup (\hD4..\hD8)   -> GetMsgpackBinary(in, p)
          [] c \in \hCA..\hD3                       -> ReadNumber(in, q, c)
          [] OTHER                                  -> Fails("112")
=============================================================================

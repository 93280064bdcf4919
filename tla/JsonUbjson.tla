------------------------------ MODULE JsonUbjson ------------------------------
(***************************************************************************)
(* UBJSON and its extension BJData in nlohmann/json.hpp: binary_writer::   *)
(* write_ubjson() and binary_reader::parse_ubjson_internal().              *)
(*                                                                         *)
(* Every value has a marker, a character.  A container may say the number  *)
(* of its elements (#) and the marker they share ($), which none of them   *)
(* has then; in BJData that number may be the sizes of an array of several *)
(* dimensions, which is an object of three members here and in JSON.  The  *)
(* names of those members and of the types are abbreviated.                *)
(***************************************************************************)
EXTENDS JsonBytes

Marker ==
    [Z |-> 90, T |-> 84, F |-> 70, N |-> 78, U |-> 85, i |-> 105, I |-> 73, u |-> 117, l |-> 108,
     m |-> 109, L |-> 76, M |-> 77, h |-> 104, d |-> 100, D |-> 68, H |-> 72, C |-> 67, S |-> 83,
     array |-> 91, endArray |-> 93, object |-> 123, endObject |-> 125, type |-> 36, count |-> 35]

IntegerType ==
    [i |-> [size |-> 1, signed |-> TRUE], U |-> [size |-> 1, signed |-> FALSE],
     I |-> [size |-> 2, signed |-> TRUE], u |-> [size |-> 2, signed |-> FALSE],
     l |-> [size |-> 4, signed |-> TRUE], m |-> [size |-> 4, signed |-> FALSE],
     L |-> [size |-> 8, signed |-> TRUE], M |-> [size |-> 8, signed |-> FALSE]]

\* Markers BJData has no optimized containers of.
Excluded == {Marker[c] : c \in {"F", "H", "N", "S", "T", "Z", "array", "object"}}

\* "_ArrayType_", "_ArraySize_" and "_ArrayData_", and the name of a type.
ArrayType == <<95, 84>>
ArraySize == <<95, 83>>
ArrayData == <<95, 68>>
TypeNames == {<<Marker[c]>> : c \in {"C", "D", "I", "L", "M", "U", "d", "i", "l", "m", "u"}}

-----------------------------------------------------------------------------
(* binary_writer; o has the options use_count, use_type and use_bjdata *)

InRange(v, type) ==
    CASE v.t = "unsigned"                 -> /\ Fits(v.word, type.size)
                                             /\ type.signed => v.word[9 - type.size] < 128
      [] v.t = "integer" /\ type.signed   -> FitsSigned(v.word, type.size)
      [] v.t = "integer" /\ ~type.signed  -> ~IsNegative(v.word) /\ Fits(v.word, type.size)

FirstInRange(v, ladder) ==
    LET fitting == {i \in DOMAIN ladder : InRange(v, IntegerType[ladder[i]])}
    IN  IF fitting = {} THEN "H"
        ELSE ladder[CHOOSE i \in fitting : \A j \in fitting : i <= j]

\* The types write_number_with_ubjson_prefix() tries for an integer, in its order.
TypesOf(v, bjdata) ==
    CASE ~bjdata                      -> <<"i", "U", "I", "l", "L">>
      [] bjdata /\ v.t = "integer"    -> <<"i", "U", "I", "u", "l", "m", "L">>
      [] bjdata /\ v.t = "unsigned"   -> <<"i", "U", "I", "u", "l", "m", "L", "M">>

RECURSIVE WriteInteger(_, _, _)
WriteInteger(v, o, prefix) ==
    LET m == FirstInRange(v, TypesOf(v, o.bjdata))
        text == Decimal(v.word)
    IN  (IF prefix THEN <<Marker[m]>> ELSE <<>>)
            \o (IF m # "H" THEN InOrder(Low(v.word, IntegerType[m].size), o.bjdata)
                ELSE WriteInteger(Unsigned(Word(Len(text))), o, TRUE) \o text)

WriteFloat(d, o, prefix) == (IF prefix THEN <<Marker.D>> ELSE <<>>) \o InOrder(d, o.bjdata)

WriteSize(n, o) == WriteInteger(Unsigned(Word(n)), o, TRUE)

WriteText(s, o) == WriteSize(Len(s), o) \o s

\* Mutated form of PrefixTypes: 'u' is forgotten.
PrefixTypesNoU(v, bjdata) == SelectSeq(TypesOf(v, bjdata), LAMBDA c : c # "u")

\* The types ubjson_prefix() tries, for the marker a container shares.
PrefixTypes(v, bjdata) ==
    CASE ~bjdata                      -> <<"i", "U", "I", "l", "L">>
      [] bjdata /\ v.t = "integer"    -> <<"i", "U", "I", "u", "l", "m", "L">>
      [] bjdata /\ v.t = "unsigned"   -> <<"i", "U", "I", "u", "l", "m", "L", "M">>

UbjsonPrefix(v, bjdata) ==
    Marker[CASE v.t = "null"                        -> "Z"
             [] v.t = "boolean"                     -> IF v.truth THEN "T" ELSE "F"
             [] v.t \in {"integer", "unsigned"}     -> FirstInRange(v, PrefixTypes(v, bjdata))
             [] v.t = "float"                       -> "D"
             [] v.t = "string"                      -> "S"
             [] v.t \in {"array", "binary"}         -> "array"
             [] v.t = "object"                      -> "object"]

\* The marker the elements share, if there is one they may share.
Shared(values, o) ==
    LET first == UbjsonPrefix(values[1], o.bjdata)
    IN  IF /\ o.type /\ values # <<>>
           /\ \A i \in DOMAIN values : UbjsonPrefix(values[i], o.bjdata) = first
           /\ ~(o.bjdata /\ first \in Excluded)
        THEN <<first>> ELSE <<>>

\* '$' with a marker that is shared and '#' with the count; the end if that is not said.
Sizes(shared, n, o) ==
    (IF shared = <<>> THEN <<>> ELSE <<Marker.type>> \o shared)
        \o (IF o.count THEN <<Marker.count>> \o WriteSize(n, o) ELSE <<>>)

End(c, o) == IF o.count THEN <<>> ELSE <<c>>

RECURSIVE Write(_, _, _)

WriteArray(items, o) ==
    LET shared == Shared(items, o)
    IN  Sizes(shared, Len(items), o)
            \o FlattenSeq([i \in DOMAIN items |-> Write(items[i], o, shared = <<>>)])
            \o End(Marker.endArray, o)

\* The bytes of a binary value, each with its marker if they do not share it.
WriteBinary(data, o) ==
    Sizes(IF o.type /\ data # <<>> THEN <<Marker.U>> ELSE <<>>, Len(data), o)
        \o (IF o.type THEN data ELSE FlattenSeq([i \in DOMAIN data |-> <<Marker.U, data[i]>>]))
        \o End(Marker.endArray, o)

WriteObject(members, o) ==
    LET names == Names(members)
        values == [i \in DOMAIN names |-> members[names[i]]]
        shared == Shared(values, o)
    IN  Sizes(shared, Len(names), o)
            \o FlattenSeq([i \in DOMAIN names |->
                               WriteText(names[i], o) \o Write(values[i], o, shared = <<>>)])
            \o End(Marker.endObject, o)

\* The sizes in "_ArraySize_", a list or one number.
SizesOf(v) == IF v.t = "array" THEN [i \in DOMAIN v.items |-> Count(v.items[i].word)]
              ELSE <<Count(v.word)>>

Product(sizes) == IF sizes = <<>> THEN 0 ELSE FoldLeft(LAMBDA a, n : a * n, 1, sizes)

\* An object that is an array of several dimensions: of a type there is, and with as
\* many data as its sizes say.  The data of one that is are numbers of its type.
IsNdarray(members) ==
    /\ DOMAIN members = {ArrayType, ArraySize, ArrayData}
    /\ members[ArrayType].text \in TypeNames
    /\ Len(members[ArrayData].items) = Product(SizesOf(members[ArraySize]))

WriteNdarray(members, o) ==
    LET type == members[ArrayType].text[1]
        data == members[ArrayData].items
        size == CASE type \in {Marker.i, Marker.U, Marker.C} -> 1
                  [] type \in {Marker.I, Marker.u} -> 2
                  [] type \in {Marker.l, Marker.m} -> 4
                  [] type \in {Marker.L, Marker.M} -> 8
        Datum(v) == CASE type = Marker.d -> Single(v.double)
                      [] type = Marker.D -> v.double
                      [] OTHER -> Low(v.word, size)
    IN  <<Marker.array, Marker.type, type, Marker.count>> \o Write(members[ArraySize], o, TRUE)
            \o FlattenSeq([i \in DOMAIN data |-> InOrder(Datum(data[i]), TRUE)])

Write(v, o, prefix) ==
    LET Prefixed(c, b) == IF prefix THEN <<Marker[c]>> \o b ELSE b
    IN  CASE v.t = "null"    -> Prefixed("Z", <<>>)
          [] v.t = "boolean" -> Prefixed(IF v.truth THEN "T" ELSE "F", <<>>)
          [] v.t \in {"integer", "unsigned"} -> WriteInteger(v, o, prefix)
          [] v.t = "float"   -> WriteFloat(v.double, o, prefix)
          [] v.t = "string"  -> Prefixed("S", WriteText(v.text, o))
          [] v.t = "array"   -> Prefixed("array", WriteArray(v.items, o))
          [] v.t = "binary"  -> Prefixed("array", WriteBinary(v.data, o))
          [] v.t = "object"  -> IF o.bjdata /\ IsNdarray(v.members) THEN WriteNdarray(v.members, o)
                                ELSE Prefixed("object", WriteObject(v.members, o))

-----------------------------------------------------------------------------
(* binary_reader *)

\* get_ignore_noop(): the position of the next byte that is no 'N'.
Skip(in, p) ==
    CHOOSE q \in p..(p + Len(in)) : /\ Get(in, q) # Marker.N
                                    /\ \A r \in p..(q - 1) : Get(in, r) = Marker.N

IntegerMarkers(bjdata) ==
    IF bjdata THEN DOMAIN IntegerType ELSE DOMAIN IntegerType \ {"u", "m", "M"}

\* Whether a byte is the marker of an integer, and the integer that follows it.
TypeOf(c, bjdata) == {type \in IntegerMarkers(bjdata) : Marker[type] = c}

GetInteger(in, p, c, bjdata) ==
    LET type == IntegerType[CHOOSE t \in TypeOf(c, bjdata) : TRUE]
    IN  IF type.signed THEN Made(GetSigned(in, p, type.size, bjdata), Integer)
        ELSE Made(GetUnsigned(in, p, type.size, bjdata), Unsigned)

IsBelow0(v) == v.t = "integer" /\ IsNegative(v.word)

\* As many bytes as a length says, none if it is negative.
Counted(in, length) ==
    IF length.ok
    THEN GetBytes(in, length.at, IF IsBelow0(length.val) THEN 0 ELSE Count(length.val.word))
    ELSE length

GetUbjsonString(in, p, bjdata) ==
    LET c == Get(in, p)
    IN  CASE c = eof                  -> Fails("110")
          [] TypeOf(c, bjdata) # {}   -> Counted(in, GetInteger(in, p + 1, c, bjdata))
          [] OTHER                    -> Fails("113")

npos == [i \in 1..8 |-> 255]

\* The size that the sizes of several dimensions make, and the sizes if there are
\* several indeed: none is 0, and it is no vector in a row.
OfDimensions(sizes) ==
    LET n == Len(sizes)
        product == FoldLeft(LAMBDA a, w : IF a > MaxCount THEN a ELSE a * Count(w), 1, sizes)
        row == n = 1 \/ (n = 2 /\ sizes[1] = Word(1))
    IN  CASE row                                          -> [size |-> sizes[n], dim |-> <<>>]
          [] ~row /\ n > 1 /\ ~Contains(sizes, Word(0))   -> [size |-> Word(product), dim |-> sizes]
          [] OTHER                                        -> [size |-> Word(0), dim |-> <<>>]

\* get_ubjson_ndarray_size(), get_ubjson_size_value() and get_ubjson_size_type()
RECURSIVE GetNdarraySize(_, _)

Size(length) ==
    IF length.ok /\ IsBelow0(length.val) THEN Fails("113")
    ELSE Made(length, LAMBDA v : [size |-> v.word, dim |-> <<>>])

\* A size after its marker c, which is not that of an array.
GetLength(in, p, c, bjdata) ==
    IF TypeOf(c, bjdata) # {} THEN Size(GetInteger(in, p, c, bjdata)) ELSE Fails("113")

\* A size after its marker c; inNdarray where the sizes of dimensions are not allowed.
GetSizeValue(in, p, c, inNdarray, bjdata) ==
    IF c = Marker.array /\ bjdata /\ ~inNdarray
    THEN Made(GetNdarraySize(in, p), OfDimensions)
    ELSE GetLength(in, p, c, bjdata)

GetSize(in, p, inNdarray, bjdata) ==
    LET s == Skip(in, p) IN GetSizeValue(in, s + 1, Get(in, s), inNdarray, bjdata)

\* The current byte is looked at once more where the size is npos.
WithType(r, c) ==
    IF r.ok THEN Returns([size |-> r.val.size, dim |-> r.val.dim, type |-> c],
                         IF r.val.size = npos THEN r.at - 1 ELSE r.at)
    ELSE r

Flat(r) == IF r.ok /\ r.val.dim # <<>> THEN Fails("112") ELSE r

\* A type at p, '#' and a size.
GetTypedSize(in, p, inNdarray, bjdata) ==
    LET type == Get(in, p)
        t == Skip(in, p + 1)
        size == GetSize(in, t + 1, FALSE, bjdata)
    IN  IF bjdata /\ type \in Excluded THEN Fails("112")
        ELSE IF type = eof \/ Get(in, t) = eof THEN Fails("110")
        ELSE IF Get(in, t) # Marker.count THEN Fails("112")
        ELSE WithType(IF inNdarray THEN Flat(size) ELSE size, type)

\* The number of elements and their type, npos and 0 if it is not said.
GetSizeType(in, p, inNdarray, bjdata) ==
    LET s == Skip(in, p)
    IN  CASE Get(in, s) = Marker.type  -> GetTypedSize(in, s + 1, inNdarray, bjdata)
          [] Get(in, s) = Marker.count -> WithType(Flat(GetSize(in, s + 1, FALSE, bjdata)), 0)
          [] OTHER -> Returns([size |-> npos, dim |-> <<>>, type |-> 0], s)

\* The size of a dimension; a marker of 0 is taken for none.
GetDimension(in, p, c) ==
    Made(IF c = 0 THEN GetSize(in, p, TRUE, TRUE) ELSE GetLength(in, p, c, TRUE), LAMBDA v : v.size)

Dimensions(in, st) ==
    CASE ~st.ok -> st
      [] st.ok /\ st.val.size = npos ->
             Until(in, st.at, Marker.endArray, LAMBDA r : Skip(in, r),
                   LAMBDA q : GetDimension(in, q + 1, Get(in, q)))
      [] st.ok /\ st.val.size # npos ->
             Repeat(st.at, Count(st.val.size), LAMBDA r : GetDimension(in, r, st.val.type))

GetNdarraySize(in, p) == Dimensions(in, GetSizeType(in, p, TRUE, TRUE))

\* The number that a text denotes, up to a NUL.  White space, a sign, a fraction, an
\* exponent and what is beyond uint64_t are the lexer's, which JsonScan and JsonNumbers
\* model: no input has them here.
HighPrecision(text, p) ==
    LET nul == SelectInSeq(text, LAMBDA c : c = 0)
        digits == IF nul = 0 THEN text ELSE SubSeq(text, 1, nul - 1)
        Plus(w, c) ==
            LET r == FoldRight(LAMBDA b, a : [carry |-> (10 * b + a.carry) \div 256,
                                              word |-> <<(10 * b + a.carry) % 256>> \o a.word],
                               w, [carry |-> c - 48, word |-> <<>>])
            IN  r.word
    IN  IF digits = <<>> \/ ToSet(digits) \ (48..57) # {} \/ (Len(digits) > 1 /\ digits[1] = 48)
        THEN Fails("115") ELSE Returns(Unsigned(FoldLeft(Plus, Word(0), digits)), p)

DenotedBy(text) == IF text.ok THEN HighPrecision(text.val, text.at) ELSE text

GetHighPrecision(in, p, bjdata) ==
    LET length == GetSize(in, p, TRUE, bjdata)
    IN  IF length.ok THEN DenotedBy(GetBytes(in, length.at, Count(length.val.size))) ELSE length

RECURSIVE GetValue(_, _, _, _)

\* parse_ubjson_internal(): a value at its marker.
Read(in, p, bjdata) == LET s == Skip(in, p) IN GetValue(in, s + 1, Get(in, s), bjdata)

\* An element: after the marker they share, or with one of its own.
GetElement(in, p, type, bjdata) ==
    IF type = 0 THEN Read(in, p, bjdata) ELSE GetValue(in, p, type, bjdata)

GetMember(in, k, type, bjdata) ==
    IF k.ok THEN Combined(k, GetElement(in, k.at, type, bjdata), Pair) ELSE k

\* As many elements as the size says, or up to the end.
Elements(in, st, end, Element(_)) ==
    IF st.val.size = npos THEN Until(in, st.at, end, LAMBDA q : Skip(in, q), Element)
    ELSE Repeat(st.at, Count(st.val.size), Element)

\* Several dimensions make an object.
GetNdarray(in, st, bjdata) ==
    LET type == IF st.val.type = Marker.C THEN Marker.U ELSE st.val.type
        Of(data) == Object(<< <<ArraySize, Array([i \in DOMAIN st.val.dim |-> Unsigned(st.val.dim[i])])>>,
                              <<ArrayType, String(<<st.val.type>>)>>, <<ArrayData, Array(data)>> >>)
    IN  IF <<st.val.type>> \notin TypeNames THEN Fails("112")
        ELSE Made(Repeat(st.at, Count(st.val.size), LAMBDA q : GetValue(in, q, type, bjdata)), Of)

\* No vector has 2^59 values of 16 bytes.
BeyondMaxSize(size) == size[1] >= 8

\* Of a type N there is no element to read, whatever the size.
ArrayOf(in, st, bjdata) ==
    CASE ~st.ok -> st
      [] st.ok /\ st.val.dim # <<>> -> GetNdarray(in, st, bjdata)
      [] st.ok /\ st.val.dim = <<>> ->
             IF st.val.size # npos /\ st.val.type = Marker.N
             THEN IF BeyondMaxSize(st.val.size) THEN Fails("408") ELSE Returns(Array(<<>>), st.at)
             ELSE Made(Elements(in, st, Marker.endArray,
                                LAMBDA q : GetElement(in, q, st.val.type, bjdata)), Array)

GetUbjsonArray(in, p, bjdata) == ArrayOf(in, GetSizeType(in, p, FALSE, bjdata), bjdata)

ObjectOf(in, st, bjdata) ==
    CASE ~st.ok -> st
      [] st.ok /\ st.val.dim # <<>> -> Fails("112")
      [] st.ok /\ st.val.dim = <<>> ->
             Made(Elements(in, st, Marker.endObject, LAMBDA q :
                           GetMember(in, GetUbjsonString(in, q, bjdata), st.val.type, bjdata)), Object)

GetUbjsonObject(in, p, bjdata) == ObjectOf(in, GetSizeType(in, p, FALSE, bjdata), bjdata)

\* One character that is a string.
GetChar(in, p) == IF Get(in, p) > 127 THEN Fails("113") ELSE Made(GetBytes(in, p, 1), String)

GetFloat(in, p, c, bjdata) ==
    CASE c = Marker.h -> Made(GetNumber(in, p, 2, bjdata), LAMBDA b : Float(FromHalf(b)))
      [] c = Marker.d -> Made(GetNumber(in, p, 4, bjdata), LAMBDA b : Float(FromSingle(b)))
      [] c = Marker.D -> Made(GetNumber(in, p, 8, bjdata), Float)

\* A value after its marker c.
GetValue(in, p, c, bjdata) ==
    CASE c = eof                                -> Fails("110")
      [] c \in {Marker.T, Marker.F}             -> Returns(Boolean(c = Marker.T), p)
      [] c = Marker.Z                           -> Returns(Null, p)
      [] TypeOf(c, bjdata) # {}                 -> GetInteger(in, p, c, bjdata)
      [] c = Marker.d \/ c = Marker.D \/ (bjdata /\ c = Marker.h) -> GetFloat(in, p, c, bjdata)
      [] c = Marker.H                           -> GetHighPrecision(in, p, bjdata)
      [] c = Marker.C                           -> GetChar(in, p)
      [] c = Marker.S                           -> Made(GetUbjsonString(in, p, bjdata), String)
      [] c = Marker.array                       -> GetUbjsonArray(in, p, bjdata)
      [] c = Marker.object                      -> GetUbjsonObject(in, p, bjdata)
      [] OTHER                                  -> Fails("112")
=============================================================================

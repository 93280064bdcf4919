---------------------------- MODULE MCJsonValues ----------------------------
(* Values and bytes for JsonBinary: numbers at both sides of each width;    *)
(* strings, arrays and objects at both sides of each length that has a form *)
(* of its own; arrays of dimensions of every type, and what is almost one;  *)
(* each of them alone, twice in an array and twice in an object.            *)
EXTENDS JsonBytes

Ubjson == INSTANCE JsonUbjson

\* An integer of n bytes: the first, and the others all ones or all zeros.
AllOnes(n, first)  == [i \in 1..8 |-> CASE i < 9 - n -> 0 [] i = 9 - n -> first [] i > 9 - n -> 255]
AllZeros(n, first) == [i \in 1..8 |-> IF i = 9 - n THEN first ELSE 0]

Words ==
    UNION {{AllOnes(n, 127), AllOnes(n, 255), AllZeros(n, 128)} : n \in {1, 2, 4, 8}}
        \cup {AllZeros(n, 1) : n \in {2, 3, 5}} \cup {Word(n) : n \in {0, 23, 24, 31, 32}}
Naturals63 == {w \in Words : ~IsNegative(w)}

Integers == {Unsigned(w) : w \in Words} \cup {Integer(w) : w \in Naturals63}
                \cup {Integer(Complement(w)) : w \in Naturals63}

\* 0, -1.5, both infinities, NaN, 0.1, and floats at the borders of a float's range.
Floats ==
    {Float(d) : d \in {Double(0, 0, 0), Double(1, 1023, 4194304), Double(0, 2047, 0), Double(1, 2047, 0),
                       Double(0, 2047, 1), <<63, 185, 153, 153, 153, 153, 153, 154>>, Double(0, 1151, 0),
                       Double(0, 897, 1), Double(0, 880, 0), Double(0, 873, 0)}}

Text(n) == [i \in 1..n |-> 78]
Strings == {String(Text(n)) : n \in {0, 1, 15, 16, 23, 24, 31, 32, 255, 256}} \cup {String(<<0>>)}

Binaries ==
    {Binary(Text(n), {}) : n \in {0, 1, 24}}
        \cup {Binary(Text(n), {Word(1)}) : n \in {0, 1, 2, 3, 4, 8, 16}}
        \cup {Binary(<<1>>, {w}) : w \in {Word(255), Word(256), Word(65536), AllZeros(8, 1)}}
LongBinaries == {Binary(Text(n), t) : n \in {255, 256}, t \in {{}, {Word(1)}}}

Arrays ==
    {Array(<<>>), Array(<<Array(<<>>), Array(<<Null>>)>>), Array(<<Null, Boolean(TRUE)>>),
     Array(<<Integer(Word(1)), Unsigned(Word(300))>>)}
        \cup {Array([i \in 1..n |-> Null]) : n \in {15, 16, 23, 24}}

Objects ==
    {Object(<<>>), Object(<< <<<<0>>, Null>> >>), Object(<< <<<<>>, Null>> >>)}
        \cup {Object([i \in 1..n |-> <<<<i>>, Boolean(i % 2 = 0)>>]) : n \in {15, 16, 23, 24}}

Ndarray(type, sizes, data) ==
    Object(<< <<Ubjson!ArrayType, String(<<Ubjson!Marker[type]>>)>>, <<Ubjson!ArraySize, sizes>>,
              <<Ubjson!ArrayData, Array(data)>> >>)
Sizes(s) == Array([i \in DOMAIN s |-> Unsigned(Word(s[i]))])
Four(v)  == <<v, v, v, v>>
Ndarrays ==
    {Ndarray(c, Sizes(<<2, 2>>), Four(Unsigned(Word(1)))) : c \in DOMAIN Ubjson!IntegerType \cup {"C"}}
        \cup {Ndarray(c, Sizes(<<2, 2>>), Four(Float(Double(0, 1023, 0)))) : c \in {"d", "D"}}
        \cup {Ndarray("i", s, Four(Integer(Complement(Word(0))))) :
                  s \in {Sizes(<<4>>), Sizes(<<1, 4>>), Sizes(<<4, 1>>), Sizes(<<1, 2, 2>>),
                         Unsigned(Word(4)), Sizes(<<3>>)}}
        \cup {Ndarray("i", s, <<>>) : s \in {Sizes(<<>>), Sizes(<<0>>), Sizes(<<2, 0>>)}}

Scalars == {Null, Boolean(TRUE), Boolean(FALSE)} \cup Integers \cup Floats \cup Strings \cup Binaries

Sent ==
    Scalars \cup Arrays \cup Objects \cup Ndarrays
        \cup {Array(<<v, v>>) : v \in Scalars \cup Ndarrays}
        \cup {Object(<< <<<<97>>, v>>, <<<<98>>, v>> >>) : v \in Scalars}

SentIn == [name \in {"cbor", "msgpack", "bson", "ubjson", "bjdata"} |->
              IF name \in {"cbor", "msgpack"} THEN Sent \cup LongBinaries ELSE Sent]

\* First bytes of each kind of value.
Markers(s) == {Ubjson!Marker[c] : c \in s}
Received ==
    [cbor    |-> {\h00, \h18, \h20, \h40, \h5F, \h61, \h7F, \h81, \h9F, \hA1, \hBF, \hC6, \hD8, \hF4, \hFF},
     msgpack |-> {\h00, \h81, \h91, \hA1, \hC0, \hC4, \hC7, \hCC, \hD0, \hD4, \hD9, \hDC, \hFF},
     bson    |-> {0},
     ubjson  |-> {0, 1, 48, 255} \cup Markers({"Z", "N", "U", "i", "C", "H", "S", "array", "endArray",
                                              "object", "endObject", "type", "count"}),
     bjdata  |-> {0, 1, 2} \cup Markers({"N", "U", "C", "array", "endArray", "object", "endObject",
                                         "type", "count"})]
=============================================================================

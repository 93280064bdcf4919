------------------------------ MODULE JsonBytes ------------------------------
(***************************************************************************)
(* What the binary formats of nlohmann/json.hpp share: values, integers and*)
(* doubles as their bytes, and the utility functions of binary_reader and  *)
(* binary_writer.                                                          *)
(*                                                                         *)
(* An integer is the eight bytes of an int64_t or a uint64_t, the highest  *)
(* first: TLC's own integers have 32 bits.  A double is its IEEE 754 bytes.*)
(***************************************************************************)
EXTENDS Integers, Sequences, SequencesExt, TLC

CONSTANT MaxCount          \* no input has more bytes than that

-----------------------------------------------------------------------------
(* Integers *)

Word(n) == <<0, 0, 0, 0, n \div 16777216, (n \div 65536) % 256, (n \div 256) % 256, n % 256>>

IsNegative(w) == w[1] >= 128
Complement(w) == [i \in 1..8 |-> 255 - w[i]]            \* -1 - n

\* Whether an integer is in the range of k bytes without and with a sign.
Fits(w, k)       == \A i \in 1..(8 - k) : w[i] = 0
FitsSigned(w, k) == \A i \in 1..(8 - k) : w[i] = IF w[9 - k] >= 128 THEN 255 ELSE 0
AtMost(w, n)     == Fits(w, 1) /\ w[8] <= n

\* static_cast to a narrower type, and the conversion back.
Low(w, k) == SubSeq(w, 9 - k, 8)
Extend(b, signed) ==
    [i \in 1..(8 - Len(b)) |-> IF signed /\ b[1] >= 128 THEN 255 ELSE 0] \o b

\* The least of 2^0..2^3 bytes for an integer without a sign, as its logarithm.
LogWidth(w) == CHOOSE i \in 0..3 : Fits(w, 2^i) /\ \A j \in 0..(i - 1) : ~Fits(w, 2^j)

\* The decimal digits of an integer without a sign.
RECURSIVE Decimal(_)
Decimal(w) ==
    LET tenth == FoldLeft(LAMBDA a, b : [q |-> Append(a.q, (256 * a.r + b) \div 10),
                                         r |-> (256 * a.r + b) % 10],
                          [q |-> <<>>, r |-> 0], w)
    IN  (IF tenth.q = Word(0) THEN <<>> ELSE Decimal(tenth.q)) \o <<48 + tenth.r>>

\* A size_t that bounds a loop over the input.
Count(w) == IF Fits(w, 2) /\ 256 * w[7] + w[8] <= MaxCount THEN 256 * w[7] + w[8] ELSE MaxCount + 1

-----------------------------------------------------------------------------
(* Doubles *)

\* A double of a sign, an exponent and the first 23 bits of its mantissa.
Double(sign, exponent, mantissa) ==
    <<128 * sign + exponent \div 16, 16 * (exponent % 16) + mantissa \div 524288,
      (mantissa \div 2048) % 256, (mantissa \div 8) % 256, 32 * (mantissa % 8), 0, 0, 0>>

\* The double that is equal to a number of fewer bits: its mantissa has bits of them.
FromIEEE(sign, exponent, mantissa, bits, bias) ==
    LET top == CHOOSE k \in 0..bits : 2^k <= mantissa /\ mantissa < 2^(k + 1)
        scale == 2^(23 - bits)
    IN  CASE exponent = 2 * bias + 1  -> Double(sign, 2047, mantissa * scale)
          [] exponent = 0 /\ mantissa = 0 -> Double(sign, 0, 0)
          [] exponent = 0 /\ mantissa > 0 ->
                 Double(sign, 1024 - bias - bits + top, (mantissa - 2^top) * 2^(bits - top) * scale)
          [] OTHER -> Double(sign, exponent - bias + 1023, mantissa * scale)

FromSingle(b) ==
    FromIEEE(b[1] \div 128, 2 * (b[1] % 128) + b[2] \div 128,
             65536 * (b[2] % 128) + 256 * b[3] + b[4], 23, 127)

FromHalf(b) ==
    FromIEEE(b[1] \div 128, (b[1] \div 4) % 32, 256 * (b[1] % 4) + b[2], 10, 15)

Exponent(d) == 16 * (d[1] % 128) + d[2] \div 16
Mantissa(d) == 524288 * (d[2] % 16) + 2048 * d[3] + 8 * d[4] + d[5] \div 32

IsNaN(d)      == Exponent(d) = 2047 /\ (d[2] % 16 > 0 \/ \E i \in 3..8 : d[i] > 0)
IsInfinite(d) == Exponent(d) = 2047 /\ ~IsNaN(d)

\* The four bytes of (float)n, for a number of a float's range that has no more bits.
Single(d) ==
    LET e == Exponent(d)
        sign == 128 * (d[1] \div 128)
        m == IF e >= 897 THEN Mantissa(d) ELSE (8388608 + Mantissa(d)) \div 2^(897 - e)
        f == IF e >= 897 THEN e - 896 ELSE 0
    IN  IF e < 874 THEN <<sign, 0, 0, 0>>
        ELSE <<sign + f \div 2, 128 * (f % 2) + m \div 65536, (m \div 256) % 256, m % 256>>

\* A float where that loses nothing.
CompactFloat(d, singlePrefix, doublePrefix) ==
    IF Exponent(d) <= 1150 /\ FromSingle(Single(d)) = d
    THEN <<singlePrefix>> \o Single(d)
    ELSE <<doublePrefix>> \o d

-----------------------------------------------------------------------------
(* Values *)

Null        == [t |-> "null"]
Boolean(b)  == [t |-> "boolean", truth |-> b]
Integer(w)  == [t |-> "integer", word |-> w]
Unsigned(w) == [t |-> "unsigned", word |-> w]
Float(d)    == [t |-> "float", double |-> d]
String(s)   == [t |-> "string", text |-> s]
Array(s)    == [t |-> "array", items |-> s]

\* subtype is empty or has the only one.
Binary(s, subtype) == [t |-> "binary", data |-> s, subtype |-> subtype]

\* Of members with one name the last.
Object(members) ==
    [t |-> "object",
     members |-> [k \in {m[1] : m \in ToSet(members)} |->
                      LET i == CHOOSE i \in DOMAIN members :
                                   members[i][1] = k /\ \A j \in DOMAIN members :
                                                            members[j][1] = k => j <= i
                      IN  members[i][2]]]

\* The names of an object in the order of std::map.
Names(members) ==
    LET Before(k, l) ==
            \/ IsStrictPrefix(k, l)
            \/ \E i \in 1..Len(k) : /\ i <= Len(l) /\ k[i] < l[i]
                                    /\ SubSeq(k, 1, i - 1) = SubSeq(l, 1, i - 1)
        Rank(k) == Cardinality({l \in DOMAIN members : Before(l, k)})
    IN  [i \in 1..Cardinality(DOMAIN members) |-> CHOOSE k \in DOMAIN members : Rank(k) = i - 1]

-----------------------------------------------------------------------------
(* Reading: a function that reads at a position of the input returns what it *)
(* has read and the position after it, or fails.                             *)

Returns(v, p) == [ok |-> TRUE, val |-> v, at |-> p]
Fails(error)  == [ok |-> FALSE, error |-> error]

Then(r, Go(_, _)) == IF r.ok THEN Go(r.val, r.at) ELSE r
Made(r, Make(_))  == IF r.ok THEN Returns(Make(r.val), r.at) ELSE r

eof == -1
Get(in, p) == IF p <= Len(in) THEN in[p] ELSE eof

\* len bytes, for a number, a string or a binary value.
GetBytes(in, p, len) ==
    IF p + len - 1 > Len(in) THEN Fails("110") ELSE Returns(SubSeq(in, p, p + len - 1), p + len)

InOrder(b, little) == IF little THEN Reverse(b) ELSE b

GetNumber(in, p, size, little) == Made(GetBytes(in, p, size), LAMBDA b : InOrder(b, little))

GetUnsigned(in, p, size, little) ==
    Made(GetNumber(in, p, size, little), LAMBDA b : Extend(b, FALSE))
GetSigned(in, p, size, little) ==
    Made(GetNumber(in, p, size, little), LAMBDA b : Extend(b, TRUE))

\* What is read after r, if that was read.
Combined(r, next, With(_, _)) ==
    CASE ~r.ok             -> r
      [] r.ok /\ ~next.ok  -> next
      [] r.ok /\ next.ok   -> Returns(With(r.val, next.val), next.at)

Pair(k, v) == <<k, v>>
Further(r, Element(_)) == IF r.ok THEN Combined(r, Element(r.at), Append) ELSE r
First(r, read) == IF r.ok THEN Combined(r, read[r.at], LAMBDA v, vs : <<v>> \o vs) ELSE r

\* n elements.  A count no input can serve ends in an error, whether it is the one
\* of start_array() for a size beyond max_size() or the end of the input.
Repeat(p, n, Element(_)) ==
    LET read[i \in 0..n] ==
            IF i = 0 THEN Returns(<<>>, p)
            ELSE Further(read[i - 1], Element)
    IN  IF n > MaxCount THEN Fails("408") ELSE read[n]

\* Elements up to a byte that ends them; Skip leads over bytes to ignore before each.
Until(in, p, end, Skip(_), Element(_)) ==
    LET read[q \in 1..(Len(in) + 2)] ==
            LET s == Skip(q)
            IN  IF Get(in, s) = end THEN Returns(<<>>, s + 1) ELSE First(Element(s), read)
    IN  read[p]
=============================================================================

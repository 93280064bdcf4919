------------------------------ MODULE JsonGrisu2 ------------------------------
(***************************************************************************)
(* dtoa_impl (nlohmann/json.hpp): the digits of a double the gateway       *)
(* forwards, by Grisu2.  v is scaled by a power of ten from a table, so    *)
(* that its boundaries M- and M+ have few digits before their point; digits*)
(* of M+ are generated until what is left is within the boundaries; then   *)
(* the last one is moved towards v.                                        *)
(*                                                                         *)
(* The code is written for doubles and a significand of 64 bits; here both *)
(* have parameters, with which the other constants of the code scale.      *)
(* Unsigned arithmetic wraps at Q bits.                                    *)
(***************************************************************************)
EXTENDS Integers, Sequences, SequencesExt

CONSTANTS
    Precision,        \* digits of the floating-point type, 53 for double
    Bias,             \* kBias
    MaxE,             \* the largest biased exponent of a finite number
    Q,                \* diyfp's kPrecision, 64
    Alpha, Gamma,     \* kAlpha and kGamma, -60 and -32
    CachedPowers,     \* kCachedPowers, ascending
    CachedPowersDecStep

VARIABLES
    value,            \* the biased exponent E and the fraction F of v
    at,               \* "scale", "whole", "fraction", "round", "done"
    buffer, exponent, \* the digits, decimal_exponent
    e,                \* the exponent of M+, M- and w
    p1, p2,           \* what is left of M+ before and after the point
    pow10, n,
    delta, dist,      \* M+ - M- and M+ - w
    rest, unit        \* rest and ten_k of grisu2_round()

digits == <<buffer, exponent>>
locals == <<e, p1, p2, pow10, n, delta, dist, rest, unit>>
vars   == <<value, at, digits, locals>>

U(x) == x % 2^Q

-----------------------------------------------------------------------------
(* diyfp *)

Diyfp(f, exp) == [f |-> f, e |-> exp]

Sub(x, y) == Diyfp(U(x.f - y.f), x.e)

\* The upper half of the product, of halves, rounded.
Mul(x, y) ==
    LET half == 2^(Q \div 2)
        ulo == x.f % half   uhi == x.f \div half
        vlo == y.f % half   vhi == y.f \div half
        mixed == ((ulo * vlo) \div half) + ((ulo * vhi) % half) + ((uhi * vlo) % half) + (half \div 2)
    IN  Diyfp(U(uhi * vhi + ((ulo * vhi) \div half) + ((uhi * vlo) \div half) + (mixed \div half)),
              x.e + y.e + Q)

\* The shift after which the highest bit is set.
Normalize(x) ==
    LET shift == CHOOSE s \in 0..(Q - 1) : x.f * 2^s \in 2^(Q - 1)..(2^Q - 1)
    IN  Diyfp(x.f * 2^shift, x.e - shift)

NormalizeTo(x, target) == Diyfp(U(x.f * 2^(x.e - target)), target)

-----------------------------------------------------------------------------
(* compute_boundaries() *)

HiddenBit == 2^(Precision - 1)

Number(x) == IF x.E = 0 THEN Diyfp(x.F, 1 - Bias)
             ELSE Diyfp(x.F + HiddenBit, x.E - Bias)

V == Number(value)

MPlus == Diyfp(2 * V.f + 1, V.e - 1)

\* Mutated form: the predecessor of a power of two is as far away as its successor.
MMinusAlwaysFar == Diyfp(2 * V.f - 1, V.e - 1)

MMinus ==
    IF value.F = 0 /\ value.E > 1 THEN Diyfp(4 * V.f - 1, V.e - 2)
    ELSE Diyfp(2 * V.f - 1, V.e - 1)

Boundaries ==
    LET plus == Normalize(MPlus)
    IN  [w |-> Normalize(V), minus |-> NormalizeTo(MMinus, plus.e), plus |-> plus]

-----------------------------------------------------------------------------
(* get_cached_power_for_binary_exponent() *)

\* C++ division rounds towards zero.
Quotient(a, b) == IF a < 0 THEN -((-a) \div b) ELSE a \div b

\* The index into the table for the binary exponent exp.
CachedPowerIndex(exp) ==
    LET f == Alpha - exp - 1
        k == Quotient(f * 78913, 2^18) + (IF f > 0 THEN 1 ELSE 0)
    IN  Quotient(k - CachedPowers[1].k + CachedPowersDecStep - 1, CachedPowersDecStep)

Cached == CachedPowers[CachedPowerIndex(Boundaries.plus.e) + 1]

-----------------------------------------------------------------------------
(* grisu2() *)

Init ==
    /\ value \in [E : 0..MaxE, F : 0..(HiddenBit - 1)] \ {[E |-> 0, F |-> 0]}
    /\ at = "scale"
    /\ buffer = <<>> /\ exponent = 0
    /\ e = 0 /\ p1 = 0 /\ p2 = 0 /\ pow10 = 1 /\ n = 0
    /\ delta = 0 /\ dist = 0 /\ rest = 0 /\ unit = 0

One == 2^(-e)

\* find_largest_pow10(), the number of digits of x.
Length(x) == IF x = 0 THEN 1 ELSE CHOOSE k \in 1..10 : x \in 10^(k - 1)..(10^k - 1)

\* The boundaries within which every number is v, whatever the products' error.
Safe(b) ==
    LET minus == Mul(b.minus, Cached)
        plus  == Mul(b.plus, Cached)
    IN  [minus |-> Diyfp(U(minus.f + 1), minus.e), plus |-> Diyfp(U(plus.f - 1), plus.e)]

Scale ==
    /\ at = "scale"
    /\ LET safe == Safe(Boundaries)
       IN  /\ e' = safe.plus.e
           /\ p1' = safe.plus.f \div One'
           /\ p2' = safe.plus.f % One'
           /\ delta' = Sub(safe.plus, safe.minus).f
           /\ dist' = Sub(safe.plus, Mul(Boundaries.w, Cached)).f
    /\ n' = Length(p1')
    /\ pow10' = 10^(n' - 1)
    /\ exponent' = -Cached.k
    /\ at' = "whole"
    /\ UNCHANGED <<value, buffer, rest, unit>>

StartRound(left, ten) ==
    /\ at' = "round"
    /\ rest' = left
    /\ unit' = ten

Enough(left, limit) == left <= limit

\* One digit before the point.
WholeDigit ==
    /\ at = "whole"
    /\ buffer' = Append(buffer, p1 \div pow10)
    /\ p1' = p1 % pow10
    /\ n' = n - 1
    /\ LET left == U(p1' * One) + p2
       IN  IF Enough(left, delta)
           THEN /\ StartRound(left, U(pow10 * One))
                /\ exponent' = exponent + n'
                /\ UNCHANGED pow10
           ELSE /\ at' = IF n' = 0 THEN "fraction" ELSE "whole"
                /\ pow10' = pow10 \div 10
                /\ UNCHANGED <<exponent, rest, unit>>
    /\ UNCHANGED <<value, e, p2, delta, dist>>

ScaleDistances == delta' = U(10 * delta) /\ dist' = U(10 * dist)

\* One digit after the point.
FractionDigit ==
    /\ at = "fraction"
    /\ buffer' = Append(buffer, U(10 * p2) \div One)
    /\ p2' = U(10 * p2) % One
    /\ exponent' = exponent - 1
    /\ ScaleDistances
    /\ IF Enough(p2', delta') THEN StartRound(p2', One) ELSE UNCHANGED <<at, rest, unit>>
    /\ UNCHANGED <<value, e, p1, pow10, n>>

\* The condition of grisu2_round()'s loop.
RoundingHelps ==
    /\ rest < dist
    /\ delta - rest >= unit
    /\ rest + unit < dist \/ dist - rest > rest + unit - dist

\* grisu2_round()
Round ==
    /\ at = "round"
    /\ IF RoundingHelps
       THEN /\ buffer' = [buffer EXCEPT ![Len(buffer)] = @ - 1]
            /\ rest' = rest + unit
            /\ UNCHANGED at
       ELSE at' = "done" /\ UNCHANGED <<buffer, rest>>
    /\ UNCHANGED <<value, exponent, e, p1, p2, pow10, n, delta, dist, unit>>

Next == Scale \/ WholeDigit \/ FractionDigit \/ Round

Spec == Init /\ [][Next]_vars

-----------------------------------------------------------------------------
(* Properties *)

Decimal == FoldLeft(LAMBDA x, d : 10 * x + d, 0, buffer)

\* ceil(Precision * log10(2)) + 1: that many digits tell all doubles apart.
MaxDigits10 == 2 + ((Precision * 78913) \div 2^18)

TypeOK ==
    /\ at \in {"scale", "whole", "fraction", "round", "done"}
    /\ \A i \in DOMAIN buffer : buffer[i] \in 0..9
    /\ {p1, p2, delta, dist, rest, unit} \subseteq 0..(2^Q - 1)
    /\ n >= 0 /\ (at = "whole" => pow10 = 10^(n - 1))
    /\ at \in {"round", "done"} => buffer # <<>>

\* What the code asserts: that no bit is lost on the way to a common exponent, the
\* table has the power (json.hpp:16990, 17299-17304), subtractions do not wrap
\* (16894), the scaled numbers have digits (17448, 17571, 17582), and a digit that is
\* decremented is not 0 (17371-17373, 17398).
AssertionsHold ==
    /\ at = "scale" =>
           /\ MMinus.f * 2^(MMinus.e - Boundaries.plus.e) < 2^Q
           /\ CachedPowerIndex(Boundaries.plus.e) + 1 \in DOMAIN CachedPowers
           /\ Cached.e + Boundaries.plus.e + Q \in Alpha..Gamma
           /\ Safe(Boundaries).plus.f >= Safe(Boundaries).minus.f
           /\ Safe(Boundaries).plus.f >= Mul(Boundaries.w, Cached).f
    /\ at = "whole" /\ buffer = <<>> => p1 > 0
    /\ at = "whole" => p1 < 10 * pow10
    /\ at = "fraction" => p2 > delta /\ p2 <= (2^Q - 1) \div 10
    /\ at = "round" => /\ dist <= delta /\ rest <= delta /\ unit > 0
                       /\ RoundingHelps => Last(buffer) # 0

\* The product of halves is the product's upper half, rounded, ties up
\* (json.hpp:16903-16962).
ProductsRounded ==
    at = "scale" => \A x \in {Boundaries.w, Boundaries.minus, Boundaries.plus} :
        Mul(x, Cached).f = (x.f * Cached.f + 2^(Q - 1)) \div 2^Q

\* x.f * 2^x.e < d * 10^k
Below(x, d, k) ==
    LET f == IF k < 0 THEN x.f * 5^(-k) ELSE x.f
        g == IF k > 0 THEN d * 5^k ELSE d
    IN  IF x.e < k THEN f < g * 2^(k - x.e) ELSE f * 2^(x.e - k) < g

\* d * 10^k < x.f * 2^x.e
Above(x, d, k) ==
    LET f == IF k < 0 THEN x.f * 5^(-k) ELSE x.f
        g == IF k > 0 THEN d * 5^k ELSE d
    IN  IF x.e < k THEN g * 2^(k - x.e) < f ELSE g < f * 2^(x.e - k)

Predecessor == IF value.F > 0 THEN [value EXCEPT !.F = @ - 1]
               ELSE [E |-> value.E - 1, F |-> HiddenBit - 1]

\* Half way from a number down to another one.
Midpoint(x, y) == Diyfp(x.f * 2^(x.e - y.e) + y.f, y.e - 1)

\* What is written is read back as v, whichever way the reader rounds: it lies
\* strictly between the middles to the numbers beside v (json.hpp:17655-17695, 17041-17060).
RoundTrips ==
    at = "done" =>
        /\ Below(Midpoint(V, Number(Predecessor)), Decimal, exponent)
        /\ Above(MPlus, Decimal, exponent)

\* No more digits are written than the buffer is meant for (json.hpp:17628-17640,
\* and the assertion at 17924), and they begin with one that is not 0.
FewDigits ==
    /\ Len(buffer) <= MaxDigits10
    /\ buffer # <<>> /\ at # "round" => buffer[1] # 0

\* How far a scaled number is below M+, when as many digits are behind the point
\* as were written.
Distance(x) ==
    (Safe(Boundaries).plus.f - x.f) * (IF exponent + Cached.k < 0 THEN 10^(-(exponent + Cached.k)) ELSE 1)

\* What is written is the number of its length nearest to w among those within
\* [M-, M+], and none is shorter (json.hpp:17387-17400, 17688-17693).  It is as far
\* below M+ as rest says.
ShortestAndNearest ==
    at = "done" =>
        LET w     == Distance(Mul(Boundaries.w, Cached))
            least == Distance(Safe(Boundaries).minus)
            off(x) == IF x < w THEN w - x ELSE x - w
        IN  /\ rest \in 0..least
            /\ \A other \in {rest - unit, rest + unit} : other \in 0..least => off(other) >= off(rest)
            /\ \A i \in 1..9 : /\ (Decimal + i) % 10 = 0 => rest - i * unit < 0
                             /\ (Decimal - i) % 10 = 0 => rest + i * unit > least
=============================================================================

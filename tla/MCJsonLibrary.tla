---------------------------- MODULE MCJsonLibrary ----------------------------
(* Texts long enough for each construct beside another one; bytes and code   *)
(* units at both sides of every boundary; integers of 14 bits; all numbers of*)
(* six bits with forty exponents, and significands of 14 bits for them.      *)
EXTENDS JsonLibrary

Binaries == INSTANCE MCJsonValues
BinaryValues == Binaries!SentIn
BinaryBytes  == Binaries!Received

Raw == {\h01, \h22, \h41, \h80, \h8F, \h90, \h9F, \hA0, \hBF,
        \hC1, \hC2, \hE0, \hE1, \hED, \hF0, \hF1, \hF4, \hF5}
Escape == {\h0A, \h22, \h41, \h5C, \h6E, \h75}
BoundaryUnits == {\h00, \h22, \h7F, \h80, \h7FF, \h800, \hD7FF, \hD800, \hDBFF, \hDC00,
                  \hDFFF, \hE000, \hFFFF}

FixedFrom     == -2
SmallestShift == -10
LargestShift  == -3

\* The powers of ten of 14 bits, rounded.
RoundedPowers ==
    << [f |-> 14074, e |-> -47, k |-> -10], [f |-> 10995, e |-> -40, k |-> -8],
       [f |-> 8590,  e |-> -33, k |-> -6],  [f |-> 13422, e |-> -27, k |-> -4],
       [f |-> 10486, e |-> -20, k |-> -2],  [f |-> 8192,  e |-> -13, k |-> 0],
       [f |-> 12800, e |-> -7,  k |-> 2],   [f |-> 10000, e |-> 0,   k |-> 4],
       [f |-> 15625, e |-> 6,   k |-> 6],   [f |-> 12207, e |-> 13,  k |-> 8],
       [f |-> 9537,  e |-> 20,  k |-> 10],  [f |-> 14901, e |-> 26,  k |-> 12] >>
=============================================================================

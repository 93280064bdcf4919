---------------------------- MODULE RequestService ----------------------------
(***************************************************************************)
(* What the gateway's backend service owes a client on the vehicle, each   *)
(* request by itself: it takes effect at the backend at most once, and only*)
(* between its arrival and its answer; it is answered at most once; and the*)
(* answer does not lie about the effect.  A request may also be dropped,   *)
(* before it had any effect.  How many threads serve the requests, and     *)
(* what they look at, is not the client's concern.                         *)
(***************************************************************************)
EXTENDS Integers, Sequences

CONSTANT Requests

VARIABLES
    phase,    \* of each request
    effect,   \* how often it was handed to the backend
    answer    \* what was sent back to the client, if anything

vars == <<phase, effect, answer>>

Init ==
    /\ phase = [r \in Requests |-> "new"]
    /\ effect = [r \in Requests |-> 0]
    /\ answer = [r \in Requests |-> <<>>]

Move(r, from, to) == phase[r] = from /\ phase' = [phase EXCEPT ![r] = to]

Accept(r) == Move(r, "new", "accepted") /\ UNCHANGED <<effect, answer>>

TakeEffect(r) ==
    /\ phase[r] = "accepted" /\ effect[r] = 0
    /\ effect' = [effect EXCEPT ![r] = 1]
    /\ UNCHANGED <<phase, answer>>

\* "502" says it had no effect, "code" that it had, "null" says neither.  The kinds
\* are told apart here by who composed the answer.  On the wire a backend's own 502
\* with an empty body is the same JSON value as the offline answer, so a client that
\* reads that value cannot tell "502" from such a "code".
Truthful(kind, times) ==
    /\ kind = "502" => times = 0
    /\ kind = "code" => times = 1

Answer(r) ==
    /\ Move(r, "accepted", "answered")
    /\ \E kind \in {"502", "code", "null"} :
          /\ Truthful(kind, effect[r])
          /\ answer' = [answer EXCEPT ![r] = <<kind>>]
    /\ UNCHANGED effect

Drop(r) == effect[r] = 0 /\ Move(r, "accepted", "dropped") /\ UNCHANGED <<effect, answer>>

Next == \E r \in Requests : Accept(r) \/ TakeEffect(r) \/ Answer(r) \/ Drop(r)

Spec == Init /\ [][Next]_vars
=============================================================================

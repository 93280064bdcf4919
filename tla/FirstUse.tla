------------------------------- MODULE FirstUse -------------------------------
(***************************************************************************)
(* The two things that threads of the gateway initialise on first use: the *)
(* Authenticator behind getInstance() (AuthenticatorInstance) and libcurl  *)
(* behind the constructor of HttpRequest (HttpGlobalInit), composed.       *)
(*                                                                         *)
(* A thread makes one call of getInstance() and constructs, uses and       *)
(* destroys one request.  A thread that is there from the start asks for   *)
(* the instance first, as main does to acquire the token; a thread started *)
(* later asks for it as it fills in the headers of its request.            *)
(***************************************************************************)
EXTENDS Integers

CONSTANTS Threads, MaxCleans

ASSUME FirstUseAssumption == MaxCleans \in Nat

VARIABLES
    early, callPc, pointer, count, m_mutex, ordered, made, got,
    pc, cleanPc, s_isGloballyInitialized, libCount, inits, cleans

instanceVars == <<early, callPc, pointer, count, m_mutex, ordered, made, got>>
globalVars   == <<pc, cleanPc, s_isGloballyInitialized, libCount, inits, cleans>>
vars         == <<instanceVars, globalVars>>

Instance == INSTANCE AuthenticatorInstance WITH pc <- callPc
Global   == INSTANCE HttpGlobalInit

TypeOK == Instance!TypeOK /\ Global!TypeOK

Init == Instance!Init /\ Global!Init

-----------------------------------------------------------------------------

\* Where in the life of its request a thread calls getInstance(): an HttpRequest
\* whose constructor failed is filled in all the same.
CallsAt(t) == IF t \in early THEN {"new"} ELSE {"ready", "gone"}

InstanceStep(t) ==
    /\ \/ got[t] = "nothing" /\ pc[t] \in CallsAt(t) /\ Instance!Call(t)
       \/ Instance!GetInstance(t)
       \/ \E child \in Threads : Instance!Spawn(t, child)
    /\ UNCHANGED globalVars

RequestStep(t) ==
    /\ callPc[t] = "idle"
    /\ pc[t] \in CallsAt(t) => got[t] # "nothing"
    /\ Global!Request(t)
    /\ UNCHANGED instanceVars

CleanStep == Global!Clean /\ UNCHANGED instanceVars

Next == CleanStep \/ \E t \in Threads : InstanceStep(t) \/ RequestStep(t)

Spec == Init /\ [][Next]_vars

-----------------------------------------------------------------------------
(* Properties: what the two classes promise each by itself still holds while *)
(* the threads are in both.                                                  *)

\* However the calls interleave, and whatever the unlocked test misses, one
\* Authenticator is made, so that a token acquired through one copy of the pointer
\* is seen through all (Authenticator.hpp:105-116).
OneAuthenticator == Instance!OneAuthenticator

\* A torn copy is handed out only to a thread that raced the assignment with
\* another one that was there from the start: if main is alone when it calls, as
\* in the gateway, every copy is whole (Authenticator.hpp:107, 115; main.cpp:297).
TornOnlyInRace == Instance!TornOnlyInRace

\* libcurl is never torn down under a live request, however the threads' tests and
\* settings of the flag and one cleaner's interleave (HttpRequest.cpp:22-32, 64-79).
LibraryUpForRequests == Global!LibraryUpForRequests

\* A thread that skips the initialisation of libcurl does so after somebody has
\* finished one (HttpRequest.cpp:29-32, 66-70).
ReadyAfterInit == Global!ReadyAfterInit

-----------------------------------------------------------------------------
(* The inductive invariant of the proofs: that of each class by itself. *)

IInv == Instance!IInv /\ Global!IInv

=============================================================================

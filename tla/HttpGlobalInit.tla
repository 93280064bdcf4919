---------------------------- MODULE HttpGlobalInit ----------------------------
(***************************************************************************)
(* The global state of the HTTP client (HttpRequest.cpp): threads construct*)
(* requests, and the first of them initialises libcurl.  The flag          *)
(* s_isGloballyInitialized is atomic, but it is tested, and later set,     *)
(* around the call it guards.  One more thread may call                    *)
(* cleanHttpRequestsGlobal() now and then.                                 *)
(*                                                                         *)
(* External: libcurl counts its initialisations.  curl_easy_init() makes   *)
(* the first one itself, curl_global_init() adds one, curl_global_cleanup()*)
(* takes one away, and the library is torn down at zero.                   *)
(***************************************************************************)
EXTENDS Integers, FiniteSets

CONSTANTS
    Threads,     \* each constructs one request and destroys it
    MaxCleans    \* bound on the calls of cleanHttpRequestsGlobal()

VARIABLES
    pc,                       \* program point of each constructing thread
    cleanPc,                  \* program point of the cleaning thread
    s_isGloballyInitialized,
    libCount,                 \* libcurl's count of initialisations
    inits,                    \* calls of curl_global_init() so far
    cleans                    \* calls of cleanHttpRequestsGlobal() so far

vars == <<pc, cleanPc, s_isGloballyInitialized, libCount, inits, cleans>>

CtorPcs   == {"check", "init", "globalInit", "store"}
HandlePcs == CtorPcs \cup {"ready"}

TypeOK ==
    /\ pc \in [Threads -> HandlePcs \cup {"new", "gone"}]
    /\ cleanPc \in {"idle", "check", "cleanup", "store"}
    /\ s_isGloballyInitialized \in BOOLEAN
    /\ libCount \in Nat
    /\ inits \in Nat
    /\ cleans \in 0..MaxCleans

Init ==
    /\ pc = [t \in Threads |-> "new"]
    /\ cleanPc = "idle"
    /\ s_isGloballyInitialized = FALSE
    /\ libCount = 0
    /\ inits = 0
    /\ cleans = 0

-----------------------------------------------------------------------------
(* A request, from its constructor to its destructor *)

Goto(t, from, to) ==
    /\ pc[t] = from
    /\ pc' = [pc EXCEPT ![t] = to]
    /\ UNCHANGED <<cleanPc, cleans>>

\* curl_easy_init() may fail; the constructor then returns at once.
EasyInit(t) ==
    /\ \/ Goto(t, "new", "gone") /\ UNCHANGED libCount
       \/ Goto(t, "new", "check") /\ libCount' = IF libCount = 0 THEN 1 ELSE libCount
    /\ UNCHANGED <<s_isGloballyInitialized, inits>>

CheckInConstructor(t) ==
    /\ Goto(t, "check", IF s_isGloballyInitialized THEN "ready" ELSE "init")
    /\ UNCHANGED <<s_isGloballyInitialized, libCount, inits>>

\* initHttpRequestsGlobal() tests again ...
CheckInInit(t) ==
    /\ Goto(t, "init", IF s_isGloballyInitialized THEN "ready" ELSE "globalInit")
    /\ UNCHANGED <<s_isGloballyInitialized, libCount, inits>>

\* Mutated form: the flag is set before the library is initialised.
GlobalInitFlagFirst(t) ==
    /\ \/ /\ Goto(t, "globalInit", "store")
          /\ s_isGloballyInitialized' = TRUE
          /\ UNCHANGED <<libCount, inits>>
       \/ /\ Goto(t, "store", "ready")
          /\ libCount' = libCount + 1
          /\ inits' = inits + 1
          /\ UNCHANGED s_isGloballyInitialized

\* ... initialises ...
GlobalInit(t) ==
    /\ Goto(t, "globalInit", "store")
    /\ libCount' = libCount + 1
    /\ inits' = inits + 1
    /\ UNCHANGED s_isGloballyInitialized

\* ... and sets the flag.
StoreFlag(t) ==
    /\ Goto(t, "store", "ready")
    /\ s_isGloballyInitialized' = TRUE
    /\ UNCHANGED <<libCount, inits>>

\* The request has been used and is destroyed.
Destroy(t) ==
    /\ Goto(t, "ready", "gone")
    /\ UNCHANGED <<s_isGloballyInitialized, libCount, inits>>

Request(t) ==
    \/ EasyInit(t) \/ CheckInConstructor(t) \/ CheckInInit(t) \/ GlobalInit(t)
    \/ StoreFlag(t) \/ Destroy(t)

-----------------------------------------------------------------------------
(* cleanHttpRequestsGlobal() *)

CleanGoto(from, to) ==
    /\ cleanPc = from
    /\ cleanPc' = to
    /\ UNCHANGED <<pc, inits>>

CleanCall ==
    /\ cleans < MaxCleans
    /\ cleans' = cleans + 1
    /\ CleanGoto("idle", "check")
    /\ UNCHANGED <<s_isGloballyInitialized, libCount>>

CleanCheck ==
    /\ CleanGoto("check", IF s_isGloballyInitialized THEN "cleanup" ELSE "store")
    /\ UNCHANGED <<s_isGloballyInitialized, libCount, cleans>>

CleanUp ==
    /\ CleanGoto("cleanup", "store")
    /\ libCount' = IF libCount = 0 THEN 0 ELSE libCount - 1
    /\ UNCHANGED <<s_isGloballyInitialized, cleans>>

\* Mutated form: the flag is not reset.
CleanStoreNothing ==
    /\ CleanGoto("store", "idle")
    /\ UNCHANGED <<s_isGloballyInitialized, libCount, cleans>>

CleanStore ==
    /\ CleanGoto("store", "idle")
    /\ s_isGloballyInitialized' = FALSE
    /\ UNCHANGED <<libCount, cleans>>

Clean == CleanCall \/ CleanCheck \/ CleanUp \/ CleanStore

-----------------------------------------------------------------------------

Next == Clean \/ \E t \in Threads : Request(t)

Spec == Init /\ [][Next]_vars

-----------------------------------------------------------------------------
(* Properties *)

\* libcurl is never torn down under a live request, however the threads' tests and
\* settings of the flag and one cleaner's interleave: the cleanups never outnumber
\* the initialisations by the class, and curl_easy_init() has made one more
\* (HttpRequest.cpp:22-32, 64-79).
LibraryUpForRequests == (\E t \in Threads : pc[t] \in HandlePcs) => libCount >= 1

\* A thread that skips the initialisation does so after somebody finished it, even
\* if the two tests and the setting of other threads interleave with its own
\* (HttpRequest.cpp:29-32, 66-70).
ReadyAfterInit == (\E t \in Threads : pc[t] = "ready") => inits >= 1

\* "it's an atomic operation to avoid multiple initialization if concurrent access
\* occurred" (HttpRequest.hpp:14-16).
InitializedOnce == inits <= 1

-----------------------------------------------------------------------------
(* The inductive invariant of the proofs, in parts *)

\* The threads that have initialised the library and not set the flag yet.
Storing == {t \in Threads : pc[t] = "store"}

\* curl_easy_init() has succeeded once: a request that is gone has seen an
\* initialisation too, so this never becomes false again.
Used == inits >= 1 \/ \E t \in Threads : pc[t] \in HandlePcs

\* An initialisation that the flag, or the cleaner past its test, stands for.
Pending == IF cleanPc = "cleanup" \/ (s_isGloballyInitialized /\ cleanPc # "store")
           THEN 1 ELSE 0

\* A flag that is set or was seen set, and a request past the tests, tell of an
\* initialisation that was made.
SeenInv ==
    /\ s_isGloballyInitialized \/ cleanPc = "cleanup" => inits >= 1
    /\ \A t \in Threads : pc[t] \in {"store", "ready"} => inits >= 1

\* Beside the one that curl_easy_init() made, the library has an initialisation
\* for each thread about to set the flag, and one more while a cleanup may come.
BalanceInv ==
    /\ IsFiniteSet(Storing)
    /\ Used => libCount >= 1 + Cardinality(Storing) + Pending

IInv == TypeOK /\ SeenInv /\ BalanceInv

=============================================================================

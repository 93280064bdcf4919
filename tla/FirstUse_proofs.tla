---------------------------- MODULE FirstUse_proofs ----------------------------
(***************************************************************************)
(* Machine-checked proofs about FirstUse, for every set of threads and any *)
(* number of cleanups: first each class by itself under its own steps, and *)
(* then the composition, whose steps are steps of one of the two.          *)
(***************************************************************************)
EXTENDS FirstUse, FiniteSetTheorems, TLAPS

-----------------------------------------------------------------------------
(* Authenticator::getInstance() *)

LEMMA InstanceInit == Instance!Init => Instance!IInv
  BY DEF Instance!Init, Instance!IInv, Instance!TypeOK, Instance!CallPcs,
         Instance!MutexInv, Instance!PointerInv, Instance!OneAuthenticator,
         Instance!OrderInv, Instance!TornOnlyInRace

\* A thread that starts another is ordered, and so is the thread it starts.
LEMMA SpawnKeepsIInv ==
    ASSUME Instance!IInv, NEW t \in Threads, NEW child \in Threads,
           Instance!Spawn(t, child)
    PROVE  Instance!IInv'
<1> USE DEF Instance!IInv, Instance!TypeOK, Instance!CallPcs, Instance!Spawn,
            Instance!Goto
<1>1. Instance!TypeOK' /\ Instance!MutexInv'
  BY DEF Instance!MutexInv
<1>2. Instance!PointerInv'
  BY DEF Instance!PointerInv, Instance!OneAuthenticator
<1>3. Instance!OrderInv'
  BY DEF Instance!OrderInv
<1>4. Instance!TornOnlyInRace'
  BY DEF Instance!TornOnlyInRace
<1> QED BY <1>1, <1>2, <1>3, <1>4

\* The steps of a call that write neither m_instance nor the mutex.
LEMMA ReadingKeepsIInv ==
    ASSUME Instance!IInv, NEW t \in Threads,
           \/ Instance!Call(t) \/ Instance!Test(t) \/ Instance!Retest(t)
           \/ Instance!Copy(t)
    PROVE  Instance!IInv'
<1> USE DEF Instance!IInv, Instance!TypeOK, Instance!CallPcs, Instance!Goto
<1>1. CASE Instance!Call(t)
  BY <1>1 DEF Instance!Call, Instance!MutexInv, Instance!PointerInv,
              Instance!OneAuthenticator, Instance!OrderInv, Instance!TornOnlyInRace
<1>2. CASE Instance!Test(t)
  <2>1. /\ \/ callPc' = [callPc EXCEPT ![t] = "copy"] /\ pointer
           \/ callPc' = [callPc EXCEPT ![t] = "lock"]
        /\ callPc[t] = "test"
        /\ UNCHANGED <<early, pointer, count, m_mutex, ordered, made, got>>
    <3>1. PICK seen \in {pointer} \cup {FALSE : u \in {t} \ ordered} :
              Instance!Goto(t, "test", IF seen THEN "copy" ELSE "lock")
      BY <1>2, Zenon DEF Instance!Test
    <3>2. seen => pointer
      BY <3>1, Zenon
    <3>3. UNCHANGED <<pointer, count, m_mutex, ordered, made, got>>
      BY <1>2 DEF Instance!Test
    <3> QED BY <3>1, <3>2, <3>3, Zenon
  <2> QED BY <2>1 DEF Instance!MutexInv, Instance!PointerInv, Instance!OrderInv,
                      Instance!OneAuthenticator, Instance!TornOnlyInRace
<1>3. CASE Instance!Retest(t)
  BY <1>3 DEF Instance!Retest, Instance!MutexInv, Instance!PointerInv,
              Instance!OneAuthenticator, Instance!OrderInv, Instance!TornOnlyInRace
<1>4. CASE Instance!Copy(t)
  <2>1. Instance!TypeOK' /\ Instance!MutexInv' /\ Instance!PointerInv' /\ Instance!OrderInv'
    BY <1>4 DEF Instance!Copy, Instance!MutexInv, Instance!PointerInv,
                Instance!OneAuthenticator, Instance!OrderInv
\* A torn copy: t is not ordered, so it is an early thread and not the maker.
  <2>2. ASSUME t \notin ordered
        PROVE  t \in early \ made /\ made # {} /\ made \subseteq early
    BY <1>4, <2>2 DEF Instance!Copy, Instance!PointerInv, Instance!OrderInv
  <2>3. Instance!TornOnlyInRace'
    BY <1>4, <2>2 DEF Instance!Copy, Instance!TornOnlyInRace
  <2> QED BY <2>1, <2>3
<1> QED BY <1>1, <1>2, <1>3, <1>4

\* The steps of a call that take the mutex, make the instance, and release it.
LEMMA LockedKeepsIInv ==
    ASSUME Instance!IInv, NEW t \in Threads,
           \/ Instance!Lock(t) \/ Instance!StorePointer(t) \/ Instance!StoreCount(t)
           \/ Instance!Unlock(t)
    PROVE  Instance!IInv'
<1> USE DEF Instance!IInv, Instance!TypeOK, Instance!CallPcs, Instance!Goto
<1>1. CASE Instance!Lock(t)
  BY <1>1 DEF Instance!Lock, Instance!MutexInv, Instance!PointerInv,
              Instance!OneAuthenticator, Instance!OrderInv, Instance!TornOnlyInRace
<1>2. CASE Instance!StorePointer(t)
  <2>1. made = {} /\ ~count /\ ordered = {} /\ t \in early
    BY <1>2 DEF Instance!StorePointer, Instance!PointerInv, Instance!OrderInv
  <2>2. Instance!TypeOK' /\ Instance!MutexInv'
    BY <1>2 DEF Instance!StorePointer, Instance!MutexInv
  <2>3. Instance!PointerInv'
    BY <1>2, <2>1 DEF Instance!StorePointer, Instance!MutexInv, Instance!PointerInv,
                      Instance!OneAuthenticator
  <2>4. Instance!OrderInv' /\ Instance!TornOnlyInRace'
    BY <1>2, <2>1 DEF Instance!StorePointer, Instance!OrderInv, Instance!TornOnlyInRace
  <2> QED BY <2>2, <2>3, <2>4
<1>3. CASE Instance!StoreCount(t)
  BY <1>3 DEF Instance!StoreCount, Instance!MutexInv, Instance!PointerInv,
              Instance!OneAuthenticator, Instance!OrderInv, Instance!TornOnlyInRace
<1>4. CASE Instance!Unlock(t)
  BY <1>4 DEF Instance!Unlock, Instance!MutexInv, Instance!PointerInv,
              Instance!OneAuthenticator, Instance!OrderInv, Instance!TornOnlyInRace
<1> QED BY <1>1, <1>2, <1>3, <1>4

LEMMA InstanceStutter == Instance!IInv /\ UNCHANGED instanceVars => Instance!IInv'
  BY DEF instanceVars, Instance!IInv, Instance!TypeOK, Instance!MutexInv,
         Instance!PointerInv, Instance!OneAuthenticator, Instance!OrderInv,
         Instance!TornOnlyInRace

-----------------------------------------------------------------------------
(* The global state of the HTTP client *)

\* The operators of FiniteSets are the same ones in HttpGlobalInit.
LEMMA SameFiniteSets ==
    ASSUME NEW S
    PROVE  /\ Global!IsFiniteSet(S) <=> IsFiniteSet(S)
           /\ Global!Cardinality(S) = Cardinality(S)
  BY DEF Global!IsFiniteSet, IsFiniteSet, Global!Cardinality, Cardinality

LEMMA GlobalStart == Global!Init => Global!IInv
<1> SUFFICES ASSUME Global!Init PROVE Global!IInv
  OBVIOUS
<1> USE DEF Global!Init, Global!HandlePcs, Global!CtorPcs
<1>1. Global!TypeOK
  <2>1. pc \in [Threads -> Global!HandlePcs \cup {"new", "gone"}]
    OBVIOUS
  <2>2. s_isGloballyInitialized \in BOOLEAN /\ cleanPc \in {"idle", "check", "cleanup", "store"}
    OBVIOUS
  <2>3. libCount \in Nat /\ inits \in Nat /\ cleans \in 0..MaxCleans
    BY FirstUseAssumption
  <2> QED BY <2>1, <2>2, <2>3 DEF Global!TypeOK
<1>2. Global!SeenInv
  BY DEF Global!SeenInv
<1>3. Global!Storing = {} /\ ~Global!Used
  BY DEF Global!Storing, Global!Used
<1>4. Global!BalanceInv
  BY <1>3, FS_EmptySet, SameFiniteSets DEF Global!BalanceInv
<1> QED BY <1>1, <1>2, <1>4 DEF Global!IInv

\* What BalanceInv says, with the operators of this module's FiniteSets.
LEMMA Balance ==
    ASSUME Global!IInv
    PROVE  /\ IsFiniteSet(Global!Storing)
           /\ Cardinality(Global!Storing) \in Nat
           /\ Global!Used => libCount >= 1 + Cardinality(Global!Storing) + Global!Pending
<1>1. IsFiniteSet(Global!Storing)
  BY SameFiniteSets DEF Global!IInv, Global!BalanceInv
<1> QED BY <1>1, FS_CardinalityType, SameFiniteSets DEF Global!IInv, Global!BalanceInv

\* A request under construction, or one that is destroyed, leaves the library as
\* it is; only the first curl_easy_init() of all initialises it.
LEMMA RequestKeepsIInv ==
    ASSUME Global!IInv, NEW t \in Threads, Global!Request(t)
    PROVE  Global!IInv'
<1> DEFINE n == Cardinality(Global!Storing)
<1>1. Global!TypeOK'
  <2> USE DEF Global!IInv, Global!TypeOK, Global!Request, Global!EasyInit,
              Global!CheckInConstructor, Global!CheckInInit, Global!GlobalInit,
              Global!StoreFlag, Global!Destroy, Global!Goto
  <2>1. pc' \in [Threads -> Global!HandlePcs \cup {"new", "gone"}]
    BY DEF Global!HandlePcs, Global!CtorPcs
  <2>2. s_isGloballyInitialized' \in BOOLEAN
    OBVIOUS
  <2>3. libCount' \in Nat /\ inits' \in Nat
    OBVIOUS
  <2>4. UNCHANGED <<cleanPc, cleans>>
    OBVIOUS
  <2> QED BY <2>1, <2>2, <2>3, <2>4
<1>2. Global!SeenInv'
  BY DEF Global!IInv, Global!TypeOK, Global!SeenInv, Global!Request,
         Global!EasyInit, Global!CheckInConstructor, Global!CheckInInit,
         Global!GlobalInit, Global!StoreFlag, Global!Destroy, Global!Goto
<1>3. /\ n \in Nat /\ IsFiniteSet(Global!Storing)
      /\ Global!Used => libCount >= 1 + n + Global!Pending
  BY Balance
<1>4. Global!Pending \in {0, 1} /\ Global!Pending' \in {0, 1}
  BY DEF Global!Pending
<1>5. libCount \in Nat /\ inits \in Nat
  BY DEF Global!IInv, Global!TypeOK
<1>6. CASE Global!EasyInit(t)
  <2>1. Global!Storing' = Global!Storing /\ Global!Pending' = Global!Pending
    BY <1>6 DEF Global!EasyInit, Global!Goto, Global!Storing, Global!Pending,
                Global!IInv, Global!TypeOK
  <2>2. CASE Global!Used
    <3>1. libCount >= 1 /\ libCount' = libCount
      BY <1>3, <1>4, <1>5, <1>6, <2>2 DEF Global!EasyInit
    <3> QED BY <1>1, <1>2, <1>3, <2>1, <2>2, <3>1, SameFiniteSets
        DEF Global!IInv, Global!BalanceInv
  <2>3. CASE ~Global!Used
    <3>1. Global!Storing = {} /\ Global!Pending = 0
      BY <2>3 DEF Global!Used, Global!Storing, Global!Pending, Global!IInv,
                  Global!SeenInv, Global!HandlePcs, Global!CtorPcs
    <3>2. n = 0
      BY <3>1, FS_EmptySet
    <3>3. Global!Used' => libCount' >= 1
      BY <1>5, <1>6, <2>3 DEF Global!EasyInit, Global!Goto, Global!Used,
                              Global!IInv, Global!TypeOK, Global!HandlePcs, Global!CtorPcs
    <3>4. Global!Used' => libCount' >= 1 + Cardinality(Global!Storing') + Global!Pending'
      BY <2>1, <3>1, <3>2, <3>3
    <3> QED BY <1>1, <1>2, <1>3, <2>1, <3>4, SameFiniteSets
        DEF Global!IInv, Global!BalanceInv
  <2> QED BY <2>2, <2>3
<1>7. CASE Global!CheckInConstructor(t) \/ Global!CheckInInit(t) \/ Global!Destroy(t)
  <2>1. /\ Global!Storing' = Global!Storing /\ Global!Pending' = Global!Pending
        /\ UNCHANGED libCount
    BY <1>7 DEF Global!CheckInConstructor, Global!CheckInInit, Global!Destroy,
                Global!Goto, Global!Storing, Global!Pending, Global!IInv, Global!TypeOK
  <2>2. Global!Used' => Global!Used
    BY <1>7 DEF Global!CheckInConstructor, Global!CheckInInit, Global!Destroy,
                Global!Goto, Global!Used, Global!HandlePcs, Global!CtorPcs,
                Global!IInv, Global!TypeOK
  <2> QED BY <1>1, <1>2, <1>3, <2>1, <2>2, SameFiniteSets
      DEF Global!IInv, Global!BalanceInv
<1>8. CASE Global!GlobalInit(t)
  <2>1. Global!Used
    BY <1>8 DEF Global!GlobalInit, Global!Goto, Global!Used, Global!HandlePcs,
                Global!CtorPcs
  <2>2. /\ t \notin Global!Storing /\ Global!Storing' = Global!Storing \cup {t}
        /\ Global!Pending' = Global!Pending /\ libCount' = libCount + 1
    BY <1>8 DEF Global!GlobalInit, Global!Goto, Global!Storing, Global!Pending,
                Global!IInv, Global!TypeOK
  <2>3. IsFiniteSet(Global!Storing') /\ Cardinality(Global!Storing') = n + 1
    BY <1>3, <2>2, FS_AddElement
  <2> QED BY <1>1, <1>2, <1>3, <1>4, <1>5, <2>1, <2>2, <2>3, SameFiniteSets
      DEF Global!IInv, Global!BalanceInv
\* The initialisation that the thread stood for is now the one of the flag.
<1>9. CASE Global!StoreFlag(t)
  <2>1. Global!Used
    BY <1>9 DEF Global!StoreFlag, Global!Goto, Global!Used, Global!HandlePcs,
                Global!CtorPcs
  <2>2. /\ t \in Global!Storing /\ Global!Storing' = Global!Storing \ {t}
        /\ UNCHANGED libCount
    BY <1>9 DEF Global!StoreFlag, Global!Goto, Global!Storing, Global!IInv, Global!TypeOK
  <2>3. IsFiniteSet(Global!Storing') /\ Cardinality(Global!Storing') = n - 1
    BY <1>3, <2>2, FS_RemoveElement
  <2> QED BY <1>1, <1>2, <1>3, <1>4, <1>5, <2>1, <2>2, <2>3, SameFiniteSets
      DEF Global!IInv, Global!BalanceInv
<1> QED BY <1>6, <1>7, <1>8, <1>9 DEF Global!Request

\* A cleanup takes away the initialisation that the flag it has seen stands for.
LEMMA CleanKeepsIInv ==
    ASSUME Global!IInv, Global!Clean
    PROVE  Global!IInv'
<1> DEFINE n == Cardinality(Global!Storing)
<1> USE DEF Global!Clean, Global!CleanCall, Global!CleanCheck, Global!CleanUp,
            Global!CleanStore, Global!CleanGoto
<1>1. Global!TypeOK'
  <2>1. s_isGloballyInitialized' \in BOOLEAN
    BY DEF Global!IInv, Global!TypeOK
  <2>2. libCount' \in Nat /\ inits' \in Nat /\ cleans' \in 0..MaxCleans
    BY FirstUseAssumption DEF Global!IInv, Global!TypeOK
  <2>3. /\ pc' \in [Threads -> Global!HandlePcs \cup {"new", "gone"}]
        /\ cleanPc' \in {"idle", "check", "cleanup", "store"}
    BY DEF Global!IInv, Global!TypeOK
  <2> QED BY <2>1, <2>2, <2>3 DEF Global!TypeOK
<1>2. Global!SeenInv'
  BY DEF Global!IInv, Global!SeenInv, Global!TypeOK
<1>3. /\ n \in Nat /\ IsFiniteSet(Global!Storing)
      /\ Global!Used => libCount >= 1 + n + Global!Pending
  BY Balance
<1>4. Global!Storing' = Global!Storing /\ (Global!Used' <=> Global!Used)
  BY DEF Global!Storing, Global!Used
<1>5. libCount \in Nat
  BY DEF Global!IInv, Global!TypeOK
<1>6. \/ UNCHANGED libCount /\ Global!Pending' <= Global!Pending
      \/ /\ libCount' = IF libCount = 0 THEN 0 ELSE libCount - 1
         /\ Global!Pending = 1 /\ Global!Pending' = 0
  BY DEF Global!Pending
<1>7. Global!Pending \in {0, 1} /\ Global!Pending' \in {0, 1}
  BY DEF Global!Pending
<1>8. Global!Used => libCount' >= 1 + n + Global!Pending'
  BY <1>3, <1>5, <1>6, <1>7
<1> QED BY <1>1, <1>2, <1>3, <1>4, <1>8, SameFiniteSets DEF Global!IInv, Global!BalanceInv

LEMMA GlobalStutter == Global!IInv /\ UNCHANGED globalVars => Global!IInv'
<1> SUFFICES ASSUME Global!IInv, UNCHANGED globalVars PROVE Global!IInv'
  OBVIOUS
<1>1. Global!TypeOK' /\ Global!SeenInv'
  BY DEF globalVars, Global!IInv, Global!TypeOK, Global!SeenInv
<1>2. /\ Global!Storing' = Global!Storing /\ (Global!Used' <=> Global!Used)
      /\ Global!Pending' = Global!Pending /\ libCount' = libCount
  BY DEF globalVars, Global!Storing, Global!Used, Global!Pending
<1> QED BY <1>1, <1>2 DEF Global!IInv, Global!BalanceInv

-----------------------------------------------------------------------------
(* The composition *)

\* Every step of a thread is one of either class, and leaves the other alone.
LEMMA StepIInv == IInv /\ [Next]_vars => IInv'
<1> SUFFICES ASSUME IInv, [Next]_vars PROVE IInv'
  OBVIOUS
<1> USE DEF IInv
<1>1. ASSUME NEW t \in Threads, InstanceStep(t) PROVE IInv'
  BY <1>1, GlobalStutter, SpawnKeepsIInv, ReadingKeepsIInv, LockedKeepsIInv
  DEF InstanceStep, Instance!GetInstance
<1>2. ASSUME NEW t \in Threads, RequestStep(t) PROVE IInv'
  BY <1>2, InstanceStutter, RequestKeepsIInv DEF RequestStep
<1>3. CASE CleanStep
  BY <1>3, InstanceStutter, CleanKeepsIInv DEF CleanStep
<1>4. CASE UNCHANGED vars
  BY <1>4, InstanceStutter, GlobalStutter DEF vars
<1> QED BY <1>1, <1>2, <1>3, <1>4 DEF Next

\* The inductive invariant holds in every reachable state.
THEOREM Invariance == Spec => []IInv
<1>1. Init => IInv
  BY InstanceInit, GlobalStart DEF Init, IInv
<1> QED BY <1>1, StepIInv, PTL DEF Spec

\* Types of both classes (Authenticator.hpp:105-116, HttpRequest.cpp:22-79).
THEOREM TypeCorrect == Spec => []TypeOK
<1>1. IInv => TypeOK
  BY DEF IInv, Instance!IInv, Global!IInv, TypeOK
<1> QED BY <1>1, Invariance, PTL

\* Any number of threads make one Authenticator: the pointer is tested again
\* under the mutex, and set before it is released (Authenticator.hpp:105-116).
THEOREM OneInstance == Spec => []OneAuthenticator
<1>1. IInv => OneAuthenticator
  BY DEF IInv, Instance!IInv, Instance!PointerInv, OneAuthenticator
<1> QED BY <1>1, Invariance, PTL

\* A torn copy needs two threads that were there from the start, of which the
\* one that gets it is not the maker (Authenticator.hpp:107, 115).
THEOREM TornInRaceOnly == Spec => []TornOnlyInRace
<1>1. IInv => TornOnlyInRace
  BY DEF IInv, Instance!IInv, TornOnlyInRace
<1> QED BY <1>1, Invariance, PTL

\* While a request is live the library is up: BalanceInv leaves it at least the
\* initialisation of curl_easy_init() (HttpRequest.cpp:22-32, 64-79).
THEOREM LibraryUp == Spec => []LibraryUpForRequests
<1>1. IInv => LibraryUpForRequests
  <2> SUFFICES ASSUME Global!IInv, NEW t \in Threads, pc[t] \in Global!HandlePcs
               PROVE  libCount >= 1
    BY DEF IInv, LibraryUpForRequests, Global!LibraryUpForRequests
  <2>1. libCount >= 1 + Cardinality(Global!Storing) + Global!Pending
    BY Balance DEF Global!Used
  <2>2. Global!Pending \in Nat /\ libCount \in Nat
    BY DEF Global!Pending, Global!IInv, Global!TypeOK
  <2> QED BY <2>1, <2>2, Balance
<1> QED BY <1>1, Invariance, PTL

\* Who skips the initialisation does so after one was made
\* (HttpRequest.cpp:29-32, 66-70).
THEOREM ReadyLate == Spec => []ReadyAfterInit
<1>1. IInv => ReadyAfterInit
  BY DEF IInv, Global!IInv, Global!SeenInv, ReadyAfterInit, Global!ReadyAfterInit
<1> QED BY <1>1, Invariance, PTL
=============================================================================

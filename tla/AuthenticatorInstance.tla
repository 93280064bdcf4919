------------------------- MODULE AuthenticatorInstance -------------------------
(***************************************************************************)
(* Authenticator::getInstance() (src/Authenticator.hpp): the instance is   *)
(* made by the first caller, with the test before the mutex repeated under *)
(* it.  m_instance is a plain shared_ptr: the first test and the copy that *)
(* is returned read it without the mutex.  Its assignment is two writes,   *)
(* the pointer and the count, and a thread that nothing orders after them  *)
(* may see any mix of old and new, or a pointer to an object whose         *)
(* contents it does not see: its copy is then "torn".                      *)
(*                                                                         *)
(* A thread is ordered after the assignment if it took the mutex after it, *)
(* or was started by a thread that is.  early are the threads that exist   *)
(* from the start; the others are started by threads whose first call has  *)
(* returned, as the gateway's request threads are after main's.            *)
(***************************************************************************)

CONSTANT Threads

VARIABLES
    early,       \* the threads that were there from the start
    pc,          \* program point of each thread in its call
    pointer,     \* m_instance's pointer is set
    count,       \* m_instance's count is set
    m_mutex,     \* the threads that hold it
    ordered,     \* the threads that the assignment happened before
    made,        \* the threads that constructed an Authenticator
    got          \* what the last call of each thread returned

vars == <<early, pc, pointer, count, m_mutex, ordered, made, got>>

CallPcs == {"test", "lock", "retest", "pointer", "count", "unlock", "copy"}

TypeOK ==
    /\ early \subseteq Threads
    /\ pc \in [Threads -> CallPcs \cup {"unborn", "idle"}]
    /\ pointer \in BOOLEAN /\ count \in BOOLEAN
    /\ m_mutex \subseteq Threads
    /\ ordered \subseteq Threads /\ made \subseteq Threads
    /\ got \in [Threads -> {"nothing", "whole", "torn"}]

Init ==
    /\ early \in SUBSET Threads \ {{}}
    /\ pc = [t \in Threads |-> IF t \in early THEN "idle" ELSE "unborn"]
    /\ pointer = FALSE /\ count = FALSE
    /\ m_mutex = {} /\ ordered = {} /\ made = {}
    /\ got = [t \in Threads |-> "nothing"]

-----------------------------------------------------------------------------

Goto(t, from, to) ==
    /\ pc[t] = from
    /\ pc' = [pc EXCEPT ![t] = to]
    /\ UNCHANGED early

\* Mutated form: threads are started before the first call.
SpawnEarly(t, child) ==
    /\ pc[t] = "idle"
    /\ Goto(child, "unborn", "idle")
    /\ ordered' = ordered \cup {c \in {child} : t \in ordered}
    /\ UNCHANGED <<pointer, count, m_mutex, made, got>>

\* A thread whose call has returned starts another, which is ordered after it.
Spawn(t, child) ==
    /\ pc[t] = "idle" /\ t \in ordered
    /\ Goto(child, "unborn", "idle")
    /\ ordered' = ordered \cup {child}
    /\ UNCHANGED <<pointer, count, m_mutex, made, got>>

Call(t) ==
    /\ Goto(t, "idle", "test")
    /\ UNCHANGED <<pointer, count, m_mutex, ordered, made, got>>

\* m_instance == nullptr outside the mutex: an unordered thread may miss the write.
Test(t) ==
    /\ \E seen \in {pointer} \cup {FALSE : u \in {t} \ ordered} :
          Goto(t, "test", IF seen THEN "copy" ELSE "lock")
    /\ UNCHANGED <<pointer, count, m_mutex, ordered, made, got>>

\* Taking the mutex after the one who assigned released it orders t.
Lock(t) ==
    /\ m_mutex = {}
    /\ m_mutex' = {t}
    /\ ordered' = ordered \cup {u \in {t} : count}
    /\ Goto(t, "lock", "retest")
    /\ UNCHANGED <<pointer, count, made, got>>

\* Mutated form: nothing is tested under the mutex.
RetestNothing(t) ==
    /\ Goto(t, "retest", "pointer")
    /\ UNCHANGED <<pointer, count, m_mutex, ordered, made, got>>

Retest(t) ==
    /\ Goto(t, "retest", IF pointer THEN "unlock" ELSE "pointer")
    /\ UNCHANGED <<pointer, count, m_mutex, ordered, made, got>>

\* make_shared, and the assignment's two writes.
StorePointer(t) ==
    /\ Goto(t, "pointer", "count")
    /\ made' = made \cup {t}
    /\ pointer' = TRUE
    /\ UNCHANGED <<count, m_mutex, ordered, got>>

StoreCount(t) ==
    /\ Goto(t, "count", "unlock")
    /\ count' = TRUE
    /\ ordered' = ordered \cup {t}
    /\ UNCHANGED <<pointer, m_mutex, made, got>>

Unlock(t) ==
    /\ Goto(t, "unlock", "copy")
    /\ m_mutex' = m_mutex \ {t}
    /\ UNCHANGED <<pointer, count, ordered, made, got>>

\* return m_instance: a copy, read outside the mutex.
Copy(t) ==
    /\ Goto(t, "copy", "idle")
    /\ \E kind \in {"whole"} \cup {"torn" : u \in {t} \ ordered} :
          got' = [got EXCEPT ![t] = kind]
    /\ UNCHANGED <<pointer, count, m_mutex, ordered, made>>

\* getInstance(), once called.
GetInstance(t) ==
    \/ Test(t) \/ Lock(t) \/ Retest(t) \/ StorePointer(t) \/ StoreCount(t)
    \/ Unlock(t) \/ Copy(t)

Next ==
    \E t \in Threads :
        \/ Call(t) \/ GetInstance(t)
        \/ \E child \in Threads : Spawn(t, child)

Spec == Init /\ [][Next]_vars

-----------------------------------------------------------------------------
(* Properties *)

\* However the calls interleave, and whatever the unlocked test misses, one
\* Authenticator is made, so that a token acquired through one copy of the pointer
\* is seen through all (Authenticator.hpp:105-116).
OneAuthenticator == \A t, u \in made : t = u

\* A torn copy is handed out only to a thread that raced the assignment with
\* another one: both were there from the start, and it is not the maker.  If main
\* is alone when it calls, as in the gateway, every copy is whole
\* (Authenticator.hpp:107, 115; main.cpp:297, 369).
TornOnlyInRace ==
    \A t \in Threads : got[t] = "torn" =>
        t \in early \ made /\ \E maker \in made : maker \in early

-----------------------------------------------------------------------------
(* The inductive invariant of the proofs, in parts *)

\* Whoever is between lock and unlock holds the mutex, alone.
MutexInv ==
    /\ \A t \in Threads :
          pc[t] \in {"retest", "pointer", "count", "unlock"} <=> t \in m_mutex
    /\ \A t, u \in m_mutex : t = u

\* The pointer is set by the one maker, and only while nobody has set it; the
\* count after it; and who has got past the tests found it set.
PointerInv ==
    /\ pointer <=> made # {}
    /\ count => pointer
    /\ \A t \in Threads :
          /\ pc[t] = "pointer" => ~pointer
          /\ pc[t] \in {"count", "unlock", "copy"} => pointer
    /\ OneAuthenticator

\* Threads are ordered after a finished assignment only.  The maker is ordered
\* after its own, and every thread started later is: so the maker is an early one.
OrderInv ==
    /\ ordered # {} => count
    /\ \A t \in Threads \ early : pc[t] # "unborn" => t \in ordered
    /\ \A t \in made : t \in ordered \/ pc[t] = "count"
    /\ made \subseteq early

IInv == TypeOK /\ MutexInv /\ PointerInv /\ OrderInv /\ TornOnlyInRace

=============================================================================

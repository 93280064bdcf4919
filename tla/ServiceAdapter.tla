---------------------------- MODULE ServiceAdapter ----------------------------
(***************************************************************************)
(* ServiceManagerAdapter: when the gateway offers its services.            *)
(*                                                                         *)
(*   owner      main: constructs the adapter, calls init(), later start()  *)
(*   offer      m_offer_thread_, started by the constructor: waits on      *)
(*              m_condition_ until m_blocked_ is set, then offers          *)
(*   vsomeip    the library, which after start() delivers registration     *)
(*              states to onState(), one at a time                         *)
(*                                                                         *)
(* onState() sets m_blocked_ and notifies without holding m_mutex_, so     *)
(* both may fall between the offer thread's test of m_blocked_ and its     *)
(* going to sleep.  m_blocked_ is a plain bool: the race is undefined      *)
(* behaviour in C++; the model gives a read the latest written value,      *)
(* since each test follows a lock or a wait and reads memory anew.         *)
(***************************************************************************)

CONSTANT Services   \* the entries of m_serviceIdCallbacks

VARIABLES
    ownerPc,
    offerPc,
    onStatePc,         \* where the running onState() is, "idle" if none runs
    appState,          \* vsomeip's last delivered state, "created" before any
    mutexHolders,      \* the threads inside m_mutex_
    m_blocked_,
    m_is_registered_,
    handlers,          \* services whose message handler is registered
    offered            \* services offered so far

vars == <<ownerPc, offerPc, onStatePc, appState, mutexHolders, m_blocked_,
          m_is_registered_, handlers, offered>>

OwnerPcs == {"construct", "init", "handlers", "start", "started"}
OfferPcs == {"unborn", "lock", "test", "wait", "asleep", "offer", "done"}

TypeOK ==
    /\ ownerPc \in OwnerPcs
    /\ offerPc \in OfferPcs
    /\ onStatePc \in {"idle", "set", "notify"}
    /\ appState \in {"created", "registered", "deregistered"}
    /\ mutexHolders \in {{}, {"owner"}, {"offer"}}
    /\ m_blocked_ \in BOOLEAN
    /\ m_is_registered_ \in BOOLEAN
    /\ handlers \subseteq Services
    /\ offered \subseteq Services

\* Before the constructor runs, m_blocked_ is memory holding anything.
Init ==
    /\ ownerPc = "construct"
    /\ offerPc = "unborn"
    /\ onStatePc = "idle"
    /\ appState = "created"
    /\ mutexHolders = {}
    /\ m_blocked_ \in BOOLEAN
    /\ m_is_registered_ = FALSE
    /\ handlers = {}
    /\ offered = {}

-----------------------------------------------------------------------------
(* The owner *)

\* Mutated form: the thread is declared before m_blocked_, so it starts first.
ConstructThreadFirst ==
    /\ ownerPc = "construct"
    /\ ownerPc' = "init"
    /\ offerPc' = "lock"
    /\ UNCHANGED <<onStatePc, appState, mutexHolders, m_blocked_, m_is_registered_,
                   handlers, offered>>

\* Members are initialised in the order of their declaration, the thread last.
Construct ==
    /\ ownerPc = "construct"
    /\ ownerPc' = "init"
    /\ m_blocked_' = FALSE
    /\ m_is_registered_' = FALSE
    /\ offerPc' = "lock"
    /\ UNCHANGED <<onStatePc, appState, mutexHolders, handlers, offered>>

\* init() takes the mutex and registers the state handler ...
InitLock ==
    /\ ownerPc = "init"
    /\ mutexHolders = {}
    /\ mutexHolders' = {"owner"}
    /\ ownerPc' = "handlers"
    /\ UNCHANGED <<offerPc, onStatePc, appState, m_blocked_, m_is_registered_,
                   handlers, offered>>

\* ... then a message handler for each service ...
RegisterHandler ==
    /\ ownerPc = "handlers"
    /\ \E service \in Services \ handlers : handlers' = handlers \cup {service}
    /\ UNCHANGED <<ownerPc, offerPc, onStatePc, appState, mutexHolders, m_blocked_,
                   m_is_registered_, offered>>

\* Mutated form: init() returns from inside the loop.
InitReturnEarly ==
    /\ ownerPc = "handlers"
    /\ ownerPc' = "start"
    /\ mutexHolders' = {}
    /\ UNCHANGED <<offerPc, onStatePc, appState, m_blocked_, m_is_registered_,
                   handlers, offered>>

\* ... and returns true.
InitReturn ==
    /\ ownerPc = "handlers"
    /\ handlers = Services
    /\ ownerPc' = "start"
    /\ mutexHolders' = {}
    /\ UNCHANGED <<offerPc, onStatePc, appState, m_blocked_, m_is_registered_,
                   handlers, offered>>

\* start() blocks in the application; from now on states are delivered.
Start ==
    /\ ownerPc = "start"
    /\ ownerPc' = "started"
    /\ UNCHANGED <<offerPc, onStatePc, appState, mutexHolders, m_blocked_,
                   m_is_registered_, handlers, offered>>

Owner == Construct \/ InitLock \/ RegisterHandler \/ InitReturn \/ Start

-----------------------------------------------------------------------------
(* The offer thread, run() *)

\* At the start of run(), and again whenever the wait ends.
RunLock ==
    /\ offerPc = "lock"
    /\ mutexHolders = {}
    /\ mutexHolders' = {"offer"}
    /\ offerPc' = "test"
    /\ UNCHANGED <<ownerPc, onStatePc, appState, m_blocked_, m_is_registered_,
                   handlers, offered>>

TestBlocked ==
    /\ offerPc = "test"
    /\ offerPc' = IF m_blocked_ THEN "offer" ELSE "wait"
    /\ UNCHANGED <<ownerPc, onStatePc, appState, mutexHolders, m_blocked_,
                   m_is_registered_, handlers, offered>>

\* wait() enqueues the thread and releases the mutex.
Wait ==
    /\ offerPc = "wait"
    /\ offerPc' = "asleep"
    /\ mutexHolders' = {}
    /\ UNCHANGED <<ownerPc, onStatePc, appState, m_blocked_, m_is_registered_,
                   handlers, offered>>

\* wait() may return without a notification.
SpuriousWakeup ==
    /\ offerPc = "asleep"
    /\ offerPc' = "lock"
    /\ UNCHANGED <<ownerPc, onStatePc, appState, mutexHolders, m_blocked_,
                   m_is_registered_, handlers, offered>>

\* offerServices(), under the mutex.
OfferService ==
    /\ offerPc = "offer"
    /\ \E service \in Services \ offered : offered' = offered \cup {service}
    /\ UNCHANGED <<ownerPc, offerPc, onStatePc, appState, mutexHolders, m_blocked_,
                   m_is_registered_, handlers>>

RunReturn ==
    /\ offerPc = "offer"
    /\ offered = Services
    /\ offerPc' = "done"
    /\ mutexHolders' = {}
    /\ UNCHANGED <<ownerPc, onStatePc, appState, m_blocked_, m_is_registered_,
                   handlers, offered>>

OfferThread == RunLock \/ TestBlocked \/ Wait \/ OfferService \/ RunReturn

-----------------------------------------------------------------------------
(* onState(), called by vsomeip *)

\* A registration is acted upon unless one is known already.
OnRegistered ==
    /\ appState' = "registered"
    /\ IF m_is_registered_
       THEN UNCHANGED <<onStatePc, m_is_registered_>>
       ELSE onStatePc' = "set" /\ m_is_registered_' = TRUE

OnDeregistered ==
    /\ appState' = "deregistered"
    /\ m_is_registered_' = FALSE
    /\ UNCHANGED onStatePc

OnState ==
    /\ ownerPc = "started"
    /\ onStatePc = "idle"
    /\ OnRegistered \/ OnDeregistered
    /\ UNCHANGED <<ownerPc, offerPc, mutexHolders, m_blocked_, handlers, offered>>

SetBlocked ==
    /\ onStatePc = "set"
    /\ m_blocked_' = TRUE
    /\ onStatePc' = "notify"
    /\ UNCHANGED <<ownerPc, offerPc, appState, mutexHolders, m_is_registered_,
                   handlers, offered>>

\* Mutated form: nobody is notified.
NotifyNobody ==
    /\ onStatePc = "notify"
    /\ onStatePc' = "idle"
    /\ UNCHANGED <<ownerPc, offerPc, appState, mutexHolders, m_blocked_,
                   m_is_registered_, handlers, offered>>

\* notify_one() wakes the offer thread if it is asleep, and is lost if not.
Notify ==
    /\ onStatePc = "notify"
    /\ onStatePc' = "idle"
    /\ offerPc' = IF offerPc = "asleep" THEN "lock" ELSE offerPc
    /\ UNCHANGED <<ownerPc, appState, mutexHolders, m_blocked_, m_is_registered_,
                   handlers, offered>>

StateHandler == SetBlocked \/ Notify

-----------------------------------------------------------------------------

Next == Owner \/ OfferThread \/ SpuriousWakeup \/ OnState \/ StateHandler

Spec == Init /\ [][Next]_vars

\* The offer thread and a running state handler are scheduled.  Nothing makes
\* main call start(), vsomeip deliver a state, or a wait end spuriously.
FairSpec ==
    /\ Spec
    /\ WF_vars(OfferThread)
    /\ WF_vars(StateHandler)

-----------------------------------------------------------------------------
(* Properties *)

\* No service is offered before vsomeip has delivered a registration, whatever
\* wakes the offer thread and whatever memory m_blocked_ was built on
\* (ServiceManagerAdapter.cpp:4-12, 43-48).
OfferedOnlyAfterRegistration == offered # {} => appState # "created"

\* A client that sees a service can call it: every message handler is in place
\* before the first offer, though init() and the offer thread run in two threads
\* (ServiceManagerAdapter.cpp:19-37 against 51-57).
HandlersBeforeOffers == offered # {} => handlers = Services

\* "wait until service is registered state": once registered, the wait ends and
\* the services are offered (ServiceManagerAdapter.cpp:41).
RegisteredIsOffered == (appState = "registered") ~> (offered = Services)

-----------------------------------------------------------------------------
(* The inductive invariant of the proofs, in parts *)

\* init() returns only with every handler registered, and before start() vsomeip
\* delivers nothing.
OwnerInv ==
    /\ ownerPc \in {"start", "started"} => handlers = Services
    /\ appState # "created" => ownerPc = "started"

\* From its construction on, m_blocked_ is set by a delivered registration alone.
BlockedInv ==
    /\ onStatePc # "idle" => appState # "created"
    /\ m_blocked_ => ownerPc = "construct" \/ appState # "created"

\* The offer thread is born of the constructor, and offers past its test only.
OfferInv ==
    /\ ownerPc = "construct" <=> offerPc = "unborn"
    /\ offerPc \in {"offer", "done"} => appState # "created"
    /\ offered # {} => offerPc \in {"offer", "done"}

IInv == TypeOK /\ OwnerInv /\ BlockedInv /\ OfferInv

=============================================================================

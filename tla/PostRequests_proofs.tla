-------------------------- MODULE PostRequests_proofs --------------------------
(***************************************************************************)
(* Machine-checked proofs about PostRequests, for every set of requests:   *)
(* what ends the process, and the promise each client is given.            *)
(***************************************************************************)
EXTENDS PostRequests, TLAPS

USE DEF HandlerPcs, PayloadKinds, ReplyKinds, ResponseKinds

\* The first answer of a request makes a sequence of one.
LEMMA AppendFirst ==
    ASSUME NEW kind PROVE Append(<<>>, kind) = <<kind>>
  OBVIOUS

-----------------------------------------------------------------------------
(* The inductive invariant *)

LEMMA InitThreadInv == Init => ThreadInv
  BY DEF Init, ThreadInv, TypeOK, BeforeReplyInv, ReplyInv, DroppedInv

\* The steps of a request's own thread, and its arrival.
LEMMA ThreadKeepsThreadInv ==
    ASSUME ThreadInv, NEW r \in Requests, Arrive(r) \/ Handler(r) \/ SendReturns(r)
    PROVE  ThreadInv'
<1> USE DEF ThreadInv, TypeOK, BeforeReplyInv, ReplyInv, DroppedInv
<1>1. CASE Arrive(r)
  BY <1>1 DEF Arrive
<1>2. CASE CheckOnline(r)
  BY <1>2 DEF CheckOnline, Goto
<1>3. CASE AnswerOffline(r)
  <2>1. responses[r] = <<>>
    BY <1>3 DEF AnswerOffline, Goto
  <2>2. responses' = [responses EXCEPT ![r] = <<"502">>]
    BY <1>3, <2>1, AppendFirst DEF AnswerOffline
  <2>3. pc' = [pc EXCEPT ![r] = "done"] /\ UNCHANGED <<reply, posted, payload>>
    BY <1>3 DEF AnswerOffline, Goto
  <2>4. responses' \in [Requests -> {<<>>} \cup {<<kind>> : kind \in ResponseKinds}]
    BY <2>2
  <2>5. TypeOK'
    BY <1>3, <2>3, <2>4 DEF AnswerOffline, Goto
  <2> QED BY <1>3, <2>2, <2>3, <2>5 DEF AnswerOffline, Goto
<1>4. CASE Parse(r)
  BY <1>4 DEF Parse, Goto, Terminate
<1>5. CASE SendReturns(r)
  BY <1>5 DEF SendReturns, Goto
<1>6. CASE Respond(r)
  <2>1. CASE reply[r] = "binary" /\ Terminate(r, "respond")
    BY <2>1 DEF Terminate
  <2>2. CASE reply[r] # "binary"
    <3>1. responses[r] = <<>>
      BY <1>6, <2>2 DEF Respond, Goto
    <3>2. PICK kind \in ResponseKinds :
              responses' = [responses EXCEPT ![r] = <<kind>>]
      BY <1>6, <2>2, <3>1, AppendFirst DEF Respond
    <3>3. Goto(r, "respond", "done") /\ UNCHANGED <<reply, posted>>
      BY <1>6, <2>2 DEF Respond
    <3> QED BY <3>2, <3>3 DEF Goto
  <2> QED BY <1>6, <2>1, <2>2 DEF Respond
<1> QED BY <1>1, <1>2, <1>3, <1>4, <1>5, <1>6 DEF Handler

\* A thread that ends the process has answered nothing, and has posted its request
\* exactly if a reply has come: the state of its request when it throws is known
\* from BeforeReplyInv and ReplyInv.
LEMMA KillerStandsUnanswered ==
    ASSUME ThreadInv, alive, NEW r \in Requests,
           Arrive(r) \/ Handler(r) \/ SendReturns(r)
    PROVE  KillerIsUnanswered'
<1> USE DEF ThreadInv, TypeOK, BeforeReplyInv, ReplyInv, KillerIsUnanswered
<1>1. CASE payload[r] \in {"badJson", "badRoute", "deep"} /\ Terminate(r, "parse")
  BY <1>1 DEF Terminate
<1>2. CASE reply[r] = "binary" /\ Terminate(r, "respond")
  BY <1>2 DEF Terminate
<1>3. CASE alive'
  BY <1>3
<1> QED BY <1>1, <1>2, <1>3 DEF Arrive, Handler, CheckOnline, AnswerOffline, Parse,
                                Respond, SendReturns, Goto, Terminate

LEMMA InitIInv == Init => IInv
  BY InitThreadInv DEF Init, IInv, KillerIsUnanswered

LEMMA StepIInv == IInv /\ [Next]_vars => IInv'
<1> SUFFICES ASSUME IInv, [Next]_vars PROVE IInv'
  OBVIOUS
<1>1. CASE IeProbe \/ UNCHANGED vars
  BY <1>1 DEF IeProbe, vars, IInv, ThreadInv, TypeOK, BeforeReplyInv, ReplyInv,
              DroppedInv, KillerIsUnanswered
<1> QED BY <1>1, ThreadKeepsThreadInv, KillerStandsUnanswered DEF Next, IInv

\* The inductive invariant holds in every reachable state.
THEOREM Invariance == Spec => []IInv
  BY InitIInv, StepIInv, PTL DEF Spec

\* Types of the threads' locals and of the shared flag (main.cpp:218-288).
THEOREM TypeCorrect == Spec => []TypeOK
<1>1. IInv => TypeOK
  BY DEF IInv, ThreadInv
<1> QED BY <1>1, Invariance, PTL

\* However many requests run beside each other, the one that ends the process is
\* unanswered, and was posted, once, exactly if a binary reply is the reason: a
\* payload that kills does so before the backend has seen it (main.cpp:222-274,
\* json.hpp:18092).
THEOREM KillerUnanswered == Spec => []KillerIsUnanswered
<1>1. IInv => KillerIsUnanswered
  BY DEF IInv
<1> QED BY <1>1, Invariance, PTL

-----------------------------------------------------------------------------
(* The promise to the client *)

Phases == [r \in Requests |-> Phase(r)]

\* The refinement mapping starts where RequestService does.
LEMMA InitPromise == Init => Service!Init
  BY DEF Init, Service!Init, Phase

\* A step of one thread moves no other request.
LEMMA PhaseOfOneMoves ==
    ASSUME NEW r \in Requests,
           \A q \in Requests \ {r} : pc'[q] = pc[q] /\ responses'[q] = responses[q]
    PROVE  Phases' = [Phases EXCEPT ![r] = Phase(r)']
<1>1. ASSUME NEW q \in Requests \ {r} PROVE Phase(q)' = Phase(q)
  BY DEF Phase
<1> QED BY <1>1, Zenon DEF Phases

\* Each step of a thread is what its request does in RequestService, or is
\* nothing the client can know of.
LEMMA ThreadKeepsPromise ==
    ASSUME ThreadInv, NEW r \in Requests, Arrive(r) \/ Handler(r) \/ SendReturns(r)
    PROVE  Service!Next \/ UNCHANGED <<Phases, posted, responses>>
<1> USE DEF ThreadInv, TypeOK, BeforeReplyInv, ReplyInv, DroppedInv
<1>1. \A q \in Requests \ {r} : pc'[q] = pc[q] /\ responses'[q] = responses[q]
  BY DEF Arrive, Handler, CheckOnline, AnswerOffline, Parse, Respond, SendReturns,
         Goto, Terminate
<1>2. Phases' = [Phases EXCEPT ![r] = Phase(r)']
  BY <1>1, PhaseOfOneMoves
<1>3. CASE Arrive(r)
  <2>1. Phase(r) = "new" /\ Phase(r)' = "accepted"
    BY <1>3 DEF Arrive, Phase
  <2>2. Service!Accept(r)
    BY <1>2, <1>3, <2>1 DEF Phases, Arrive, Service!Accept, Service!Move
  <2> QED BY <2>2 DEF Service!Next
<1>4. CASE CheckOnline(r)
  <2>1. Phase(r)' = Phase(r)
    BY <1>4 DEF CheckOnline, Goto, Phase
  <2> QED BY <1>2, <1>4, <2>1 DEF CheckOnline, Phases
<1>5. CASE AnswerOffline(r)
  <2>1. /\ responses' = [responses EXCEPT ![r] = <<"502">>]
        /\ posted[r] = 0 /\ posted' = posted
    BY <1>5, AppendFirst DEF AnswerOffline, Goto
  <2>2. Phase(r) = "accepted" /\ Phase(r)' = "answered"
    BY <1>5, <2>1 DEF AnswerOffline, Goto, Phase
  <2>3. Service!Answer(r)
    BY <1>2, <2>1, <2>2
    DEF Phases, Service!Answer, Service!Move, Service!Truthful
  <2> QED BY <2>3 DEF Service!Next
<1>6. CASE Parse(r)
  <2>1. CASE payload[r] = "noRoute"
    <3>1. Phase(r) = "accepted" /\ Phase(r)' = "dropped" /\ posted[r] = 0
      BY <1>6, <2>1 DEF Parse, Goto, Phase
    <3>2. Service!Drop(r)
      BY <1>2, <1>6, <3>1 DEF Phases, Parse, Service!Drop, Service!Move
    <3> QED BY <3>2 DEF Service!Next
  <2>2. CASE payload[r] # "noRoute"
    <3>1. Phase(r)' = Phase(r)
      BY <1>6, <2>2 DEF Parse, Goto, Terminate, Phase
    <3> QED BY <1>2, <1>6, <3>1 DEF Parse, Phases
  <2> QED BY <2>1, <2>2
<1>7. CASE SendReturns(r)
  <2>1. Phase(r) = "accepted" /\ Phase(r)' = "accepted"
    BY <1>7 DEF SendReturns, Goto, Phase
  <2>2. Phases' = Phases
    BY <1>2, <2>1 DEF Phases
  <2>3. posted[r] = 0
    BY <1>7 DEF SendReturns, Goto
  <2>4. PICK handled \in 0..1 : posted' = [posted EXCEPT ![r] = @ + handled]
    BY <1>7, Zenon DEF SendReturns
  <2>5. CASE handled = 0
    BY <1>7, <2>2, <2>3, <2>4, <2>5 DEF SendReturns
  <2>6. CASE handled = 1
    <3>1. Service!TakeEffect(r)
      BY <1>7, <2>1, <2>2, <2>3, <2>4, <2>6
      DEF SendReturns, Phases, Service!TakeEffect
    <3> QED BY <3>1 DEF Service!Next
  <2> QED BY <2>4, <2>5, <2>6
<1>8. CASE Respond(r)
  <2>1. CASE reply[r] = "binary" /\ Terminate(r, "respond")
    BY <1>2, <2>1 DEF Terminate, Phases, Phase
  <2>2. CASE reply[r] # "binary"
    <3>1. responses[r] = <<>> /\ pc[r] = "respond" /\ UNCHANGED posted
      BY <1>8, <2>2 DEF Respond, Goto
    <3>2. PICK kind \in {"null", "code"} :
              /\ responses' = [responses EXCEPT ![r] = <<kind>>]
              /\ kind = "code" => posted[r] = 1
      BY <1>8, <2>2, <3>1, AppendFirst DEF Respond
    <3>3. Phase(r) = "accepted" /\ Phase(r)' = "answered"
      BY <1>8, <3>1, <3>2 DEF Phase, Respond, Goto, Terminate
    <3>4. Service!Answer(r)
      BY <1>2, <3>1, <3>2, <3>3
      DEF Phases, Service!Answer, Service!Move, Service!Truthful
    <3> QED BY <3>4 DEF Service!Next
  <2> QED BY <1>8, <2>1, <2>2 DEF Respond
<1> QED BY <1>3, <1>4, <1>5, <1>6, <1>7, <1>8 DEF Handler

LEMMA StepKeepsPromise == IInv /\ [Next]_vars => [Service!Next]_(Service!vars)
<1> SUFFICES ASSUME IInv, [Next]_vars
             PROVE  Service!Next \/ UNCHANGED <<Phases, posted, responses>>
  BY DEF Service!vars, Phases
<1>1. CASE IeProbe \/ UNCHANGED vars
  BY <1>1 DEF IeProbe, vars, Phases, Phase
<1> QED BY <1>1, ThreadKeepsPromise DEF Next, IInv

\* Beside any number of other requests, each client is kept the promise of
\* RequestService: at most one POST and one truthful answer, in that order, and
\* a dropped request was never posted (main.cpp:218-288).
THEOREM PromiseKept == Spec => ServicePromise
  BY InitPromise, StepKeepsPromise, Invariance, PTL
  DEF Spec, ServicePromise, Service!Spec
=============================================================================

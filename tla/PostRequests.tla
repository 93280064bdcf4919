----------------------------- MODULE PostRequests -----------------------------
(***************************************************************************)
(* The backend service, sendPostRequestToServer() (src/main.cpp).  vsomeip *)
(* calls it for each request; it starts a detached thread that forwards    *)
(* the payload to the backend and answers the client.  The threads share   *)
(* internetConnectionState, which ie_thread keeps overwriting, and the     *)
(* process: an exception in one of them, or a stack that is exhausted,     *)
(* ends all of them.                                                       *)
(*                                                                         *)
(* An HTTP exchange is one action, its return, and may never come.         *)
(***************************************************************************)
EXTENDS Integers, Sequences

CONSTANT Requests

VARIABLES
    pc,                       \* program point of each request's thread
    payload,                  \* what kind of text each request carries
    reply,                    \* what came back from the backend
    posted,                   \* how often the backend was handed the request
    responses,                \* what was answered to the client
    internetConnectionState,
    alive                     \* FALSE once std::terminate has run

vars == <<pc, payload, reply, posted, responses, internetConnectionState, alive>>

\* "badJson" is no JSON text, "badRoute" has a route that is no string.  "deep" is
\* well-formed, with a route, and nested deeper than the thread's stack has room
\* for: parse() keeps the levels on the heap, dump() recurs once per level.
PayloadKinds == {"good", "deep", "noRoute", "badRoute", "badJson"}
\* "binary" is a body that is not UTF-8; "failed" a send other than CURLE_OK.
ReplyKinds == {"none", "text", "binary", "failed"}
\* The fixed offline answer, the code and body of the backend, the text "null".
ResponseKinds == {"502", "code", "null"}

HandlerPcs == {"check", "offline", "parse", "sending", "respond"}

TypeOK ==
    /\ pc \in [Requests -> HandlerPcs \cup {"unsent", "done"}]
    /\ payload \in [Requests -> PayloadKinds \cup {"none"}]
    /\ reply \in [Requests -> ReplyKinds]
    /\ posted \in [Requests -> 0..1]
    /\ responses \in [Requests -> {<<>>} \cup {<<kind>> : kind \in ResponseKinds}]
    /\ internetConnectionState \in BOOLEAN
    /\ alive \in BOOLEAN

Init ==
    /\ pc = [r \in Requests |-> "unsent"]
    /\ payload = [r \in Requests |-> "none"]
    /\ reply = [r \in Requests |-> "none"]
    /\ posted = [r \in Requests |-> 0]
    /\ responses = [r \in Requests |-> <<>>]
    /\ internetConnectionState \in BOOLEAN
    /\ alive = TRUE

-----------------------------------------------------------------------------

Goto(r, from, to) ==
    /\ pc[r] = from
    /\ pc' = [pc EXCEPT ![r] = to]
    /\ UNCHANGED <<payload, internetConnectionState, alive>>

\* The process ends at the point where the thread of r is: an exception leaves the
\* thread, or its stack is exhausted.
Terminate(r, at) ==
    /\ pc[r] = at
    /\ alive' = FALSE
    /\ UNCHANGED <<pc, payload, reply, posted, responses, internetConnectionState>>

\* ie_thread publishes what its last ping found.
IeProbe ==
    /\ internetConnectionState' \in BOOLEAN
    /\ UNCHANGED <<pc, payload, reply, posted, responses, alive>>

\* vsomeip calls the handler, which detaches a thread and returns.
Arrive(r) ==
    /\ pc[r] = "unsent"
    /\ pc' = [pc EXCEPT ![r] = "check"]
    /\ \E kind \in PayloadKinds : payload' = [payload EXCEPT ![r] = kind]
    /\ UNCHANGED <<reply, posted, responses, internetConnectionState, alive>>

CheckOnline(r) ==
    /\ Goto(r, "check", IF internetConnectionState THEN "parse" ELSE "offline")
    /\ UNCHANGED <<reply, posted, responses>>

\* Mutated form: the offline branch does not return.
AnswerOfflineAndGoOn(r) ==
    /\ Goto(r, "offline", "parse")
    /\ responses' = [responses EXCEPT ![r] = Append(@, "502")]
    /\ UNCHANGED <<reply, posted>>

AnswerOffline(r) ==
    /\ Goto(r, "offline", "done")
    /\ responses' = [responses EXCEPT ![r] = Append(@, "502")]
    /\ UNCHANGED <<reply, posted>>

\* The request is handed on after it was dumped.  parse() and the conversion of the
\* route throw, dump() exhausts the stack; before any of it is posted.  A missing
\* route ends the thread with no answer.
Parse(r) ==
    /\ \/ payload[r] = "good" /\ Goto(r, "parse", "sending")
       \/ payload[r] = "noRoute" /\ Goto(r, "parse", "done")
       \/ payload[r] \in {"badJson", "badRoute", "deep"} /\ Terminate(r, "parse")
    /\ UNCHANGED <<reply, posted, responses>>

\* Mutated form: a failed send ends the thread, as it does for a download.
SendReturnsOrEnds(r) ==
    /\ \/ /\ Goto(r, "sending", "respond")
          /\ reply' = [reply EXCEPT ![r] = "text"]
       \/ Goto(r, "sending", "done") /\ UNCHANGED reply
    /\ posted' = [posted EXCEPT ![r] = @ + 1]
    /\ UNCHANGED responses

\* send() returns: with the backend's reply, or with a failure that does not
\* tell whether the backend has handled the request.
SendReturns(r) ==
    /\ Goto(r, "sending", "respond")
    /\ \E kind \in {"text", "binary", "failed"}, handled \in 0..1 :
          /\ kind # "failed" => handled = 1
          /\ reply' = [reply EXCEPT ![r] = kind]
          /\ posted' = [posted EXCEPT ![r] = @ + handled]
    /\ UNCHANGED responses

\* After a failed send the JSON value was never assigned and is dumped as null;
\* dump() throws on a body that is not UTF-8.
Respond(r) ==
    \/ /\ reply[r] \in {"text", "failed"}
       /\ Goto(r, "respond", "done")
       /\ responses' = [responses EXCEPT
              ![r] = Append(@, IF reply[r] = "failed" THEN "null" ELSE "code")]
       /\ UNCHANGED <<reply, posted>>
    \/ reply[r] = "binary" /\ Terminate(r, "respond")

Handler(r) == CheckOnline(r) \/ AnswerOffline(r) \/ Parse(r) \/ Respond(r)

Next ==
    /\ alive
    /\ \/ IeProbe
       \/ \E r \in Requests : Arrive(r) \/ Handler(r) \/ SendReturns(r)

Spec == Init /\ [][Next]_vars

\* Every thread is scheduled; no exchange with the backend need ever return.
FairSpec == Spec /\ \A r \in Requests : WF_vars(alive /\ Handler(r))

-----------------------------------------------------------------------------
(* Properties *)

\* What of a request its client can know: the state of it in RequestService.
Phase(r) ==
    CASE pc[r] = "unsent" -> "new"
      [] responses[r] # <<>> -> "answered"
      [] pc[r] = "done" /\ responses[r] = <<>> -> "dropped"
      [] OTHER -> "accepted"

Service == INSTANCE RequestService WITH
    phase <- [r \in Requests |-> Phase(r)], effect <- posted, answer <- responses

\* Each request's thread, beside all others, keeps the promise to its client
\* (RequestService): at most one POST and one answer, no POST after the answer or
\* after the request was dropped (main.cpp:218-288).
ServicePromise == Service!Spec

\* A request that ends the process, and with it every other request, is never
\* answered, and what the backend knows of it tells how it did so.  By its payload,
\* malformed or too deep for dump(), it does before it is posted: the backend has
\* seen nothing, and whoever sends it again ends the next process.  By a reply that
\* is not UTF-8 it does after the backend has handled it, once: whoever sends it
\* again has it handled twice.  Nothing else ends the process (main.cpp:222-274,
\* json.hpp:18092).
KillerIsUnanswered ==
    ~alive => \E r \in Requests :
        /\ responses[r] = <<>>
        /\ \/ payload[r] \in {"badJson", "badRoute", "deep"} /\ posted[r] = 0
           \/ reply[r] = "binary" /\ posted[r] = 1

\* Every client is answered in the end, unless its request never came, had no
\* route, or waits for a backend that never returns, or the process died; a failed
\* send is answered too (main.cpp:218-288).
AnsweredUnlessExcused ==
    \A r \in Requests :
        <>[](\/ responses[r] # <<>>
             \/ pc[r] \in {"unsent", "sending"}
             \/ pc[r] = "done" /\ payload[r] = "noRoute"
             \/ ~alive)

-----------------------------------------------------------------------------
(* The inductive invariant of the proofs, in parts *)

\* Before its exchange has returned, a request is neither posted nor answered.
BeforeReplyInv ==
    \A r \in Requests :
        pc[r] \in {"unsent", "check", "offline", "parse", "sending"} =>
            posted[r] = 0 /\ responses[r] = <<>>

\* Once it has, the reply tells how often the backend was handed the request.
ReplyInv ==
    \A r \in Requests :
        pc[r] = "respond" =>
            /\ responses[r] = <<>>
            /\ reply[r] \in {"text", "binary"} => posted[r] = 1
            /\ reply[r] # "none"

\* A thread that ended without an answer never handed its request on.
DroppedInv ==
    \A r \in Requests : pc[r] = "done" /\ responses[r] = <<>> => posted[r] = 0

\* What holds of the request threads, whatever else may end the process.
ThreadInv == TypeOK /\ BeforeReplyInv /\ ReplyInv /\ DroppedInv

IInv == ThreadInv /\ KillerIsUnanswered

=============================================================================

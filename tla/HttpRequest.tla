------------------------------ MODULE HttpRequest ------------------------------
(***************************************************************************)
(* One HTTP request: HttpRequestBuilder, HttpRequest and its three derived *)
(* classes (dependencies/http_client).  The builder makes the object and   *)
(* its calls fill it; build() hands it over; send() performs the exchange, *)
(* during which libcurl calls back; the destructor frees what libcurl gave.*)
(*                                                                         *)
(* easy is what libcurl was told (external).  It keeps pointers, not       *)
(* copies: POSTFIELDS names a buffer, which requestBodyContent keeps alive.*)
(* The caller may call in any order, and go on after a send.               *)
(***************************************************************************)
EXTENDS Integers, Sequences, FiniteSets, SequencesExt

CONSTANTS
    MaxCalls,    \* bounds the calls made on one request
    MaxChunks    \* bounds the pieces in which one reply's body arrives

ASSUME BoundsAssumption == MaxCalls \in Nat /\ MaxChunks \in Nat

VARIABLES
    curl,      \* m_curlPtr # nullptr: curl_easy_init() succeeded
    easy,      \* the options libcurl was given
    req,       \* the members of the object
    mimes,     \* the parts of every curl_mime allocated, and whether it was freed
    owner,     \* who holds the unique_ptr
    exchange,  \* the exchange that send() performs, or performed last
    calls,     \* history: the calls made
    wire       \* history: what each send() put on the wire

vars == <<curl, easy, req, mimes, owner, exchange, calls, wire>>

RequestTypes == {"GET", "POST", "PUT"}
NUL == 0
Bodies == {<<>>, <<1>>, <<2, NUL, 1>>}   \* a body is a string of bytes
Headers == {"data", "jwt"}
PartKinds == {"text", "file"}
\* CURLcode; every failure is like one of the two.
CURLE_OK == 0
BAD_ARGUMENT == 43
COULDNT_CONNECT == 7

Idle == [state |-> "none", code |-> CURLE_OK, chunks |-> 0, hops |-> 0]

\* A call by its name and argument.
Calls == ({"header"} \X Headers) \cup ({"body"} \X Bodies)
             \cup ({"part"} \X PartKinds) \cup ({"init", "send"} \X {""})

TypeOK ==
    /\ curl \in BOOLEAN
    /\ easy \in [custom : RequestTypes, headers : {<<>>},
                 payload : {"none", "fields", "mime"}, fields : Nat, mime : Nat]
    /\ req \in [m_headers : Seq(Headers), body : [buf : Nat, bytes : Bodies],
                m_sendMultipartData : BOOLEAN, m_mime : Nat,
                response : Seq(Nat \X Nat), responseHeader : Seq({"redirect", "reply"})]
    /\ mimes \in Seq([parts : Seq(PartKinds), freed : BOOLEAN])
    /\ owner \in {"builder", "caller", "gone"}
    /\ exchange \in [state : {"none", "connecting", "replying", "ended"},
                     code : {CURLE_OK, BAD_ARGUMENT, COULDNT_CONNECT},
                     chunks : Nat, hops : Nat]
    /\ calls \in Seq(Calls) /\ Len(calls) <= MaxCalls
    /\ wire \in Seq(Range(wire))

\* The constructor and init(): with no handle both return early, unnoticed.
Init ==
    /\ curl \in BOOLEAN
    /\ \E requestType \in RequestTypes :
          easy = [custom |-> requestType, headers |-> <<>>, payload |-> "none",
                  fields |-> 0, mime |-> 0]
    /\ req = [m_headers |-> <<>>, body |-> [buf |-> 0, bytes |-> <<>>],
              m_sendMultipartData |-> FALSE, m_mime |-> 0,
              response |-> <<>>, responseHeader |-> <<>>]
    /\ mimes = <<>>
    /\ owner = "builder"
    /\ exchange = Idle
    /\ calls = <<>>
    /\ wire = <<>>

-----------------------------------------------------------------------------

\* A call on the request, through the builder or the pointer it handed over.
Call(op, arg) ==
    /\ owner # "gone"
    /\ exchange.state \in {"none", "ended"}
    /\ Len(calls) < MaxCalls
    /\ calls' = Append(calls, <<op, arg>>)
    /\ UNCHANGED <<curl, owner>>

AddDataToHeader(header) ==
    /\ Call("header", header)
    /\ req' = [req EXCEPT !.m_headers = Append(@, header)]
    /\ UNCHANGED <<easy, mimes, exchange, wire>>

\* Mutated form: the body is not kept, only handed to libcurl.
AddDataToBodyUnkept(bytes) ==
    /\ Call("body", bytes)
    /\ easy' = IF curl THEN [easy EXCEPT !.fields = Len(calls'), !.payload = "fields"]
                       ELSE easy
    /\ UNCHANGED <<req, mimes, exchange, wire>>

\* The buffer of the previous body is freed with its last shared_ptr.
AddDataToBody(bytes) ==
    /\ Call("body", bytes)
    /\ req' = [req EXCEPT !.body = [buf |-> Len(calls'), bytes |-> bytes]]
    /\ easy' = IF curl THEN [easy EXCEPT !.fields = Len(calls'), !.payload = "fields"]
                       ELSE easy
    /\ UNCHANGED <<mimes, exchange, wire>>

\* An earlier curl_mime is forgotten, its parts with it.
MultipartFormDataInit ==
    /\ Call("init", "")
    /\ mimes' = Append(mimes, [parts |-> <<>>, freed |-> FALSE])
    /\ req' = [req EXCEPT !.m_mime = Len(mimes'), !.m_sendMultipartData = TRUE]
    /\ UNCHANGED <<easy, exchange, wire>>

\* addTextToFormData(), addFileToFormData(): before the init the part is dropped.
AddToFormData(kind) ==
    /\ Call("part", kind)
    /\ mimes' = IF req.m_sendMultipartData
                THEN [mimes EXCEPT ![req.m_mime].parts = Append(@, kind)]
                ELSE mimes
    /\ UNCHANGED <<easy, req, exchange, wire>>

Build ==
    /\ owner = "builder" /\ owner' = "caller"
    /\ UNCHANGED <<curl, easy, req, mimes, exchange, calls, wire>>

-----------------------------------------------------------------------------
(* send() and what libcurl does in it *)

\* What strlen() finds of a body.
CString(bytes) ==
    LET nul == SelectInSeq(bytes, LAMBDA byte : byte = NUL)
    IN  IF nul = 0 THEN bytes ELSE SubSeq(bytes, 1, nul - 1)

\* What a freed body is found to hold: a value no byte has.
Dangling == <<-1>>

\* The message libcurl makes of its options: the payload set last counts.
Message(options) ==
    [method  |-> options.custom,
     headers |-> req.m_headers,
     payload |-> CASE options.payload = "mime"   -> mimes[options.mime].parts
                   [] options.payload = "fields" ->
                          IF options.fields = req.body.buf THEN CString(req.body.bytes)
                                                           ELSE Dangling
                   [] options.payload = "none"   -> <<>>]

\* The options are completed and curl_easy_perform() is entered; without a
\* handle it returns at once.
Send ==
    /\ owner = "caller"
    /\ Call("send", "")
    /\ easy' = IF curl /\ req.m_sendMultipartData
               THEN [easy EXCEPT !.payload = "mime", !.mime = req.m_mime] ELSE easy
    /\ wire' = IF curl THEN Append(wire, Message(easy')) ELSE wire
    /\ exchange' = IF curl THEN [Idle EXCEPT !.state = "connecting"]
                   ELSE [Idle EXCEPT !.state = "ended", !.code = BAD_ARGUMENT]
    /\ UNCHANGED <<req, mimes>>

\* Mutated form: the strings the callbacks fill hold the last piece only.
CallbackAssigns(field, piece) == req' = [req EXCEPT ![field] = <<piece>>]

\* writeFunction() and headerCallback() append to their string.
Callback(field, piece) == req' = [req EXCEPT ![field] = Append(@, piece)]

\* FOLLOWLOCATION: a redirect's header is kept, its body is not.
Redirect ==
    /\ exchange.state = "connecting" /\ exchange.hops = 0
    /\ Callback("responseHeader", "redirect")
    /\ exchange' = [exchange EXCEPT !.hops = 1]
    /\ UNCHANGED <<curl, easy, mimes, owner, calls, wire>>

ReplyHeader ==
    /\ exchange.state = "connecting"
    /\ Callback("responseHeader", "reply")
    /\ exchange' = [exchange EXCEPT !.state = "replying"]
    /\ UNCHANGED <<curl, easy, mimes, owner, calls, wire>>

ReplyChunk ==
    /\ exchange.state = "replying" /\ exchange.chunks < MaxChunks
    /\ exchange' = [exchange EXCEPT !.chunks = @ + 1]
    /\ Callback("response", <<Len(wire), exchange'.chunks>>)
    /\ UNCHANGED <<curl, easy, mimes, owner, calls, wire>>

\* The end of the body, or a failure at any point.
SendReturns ==
    /\ exchange.state \in {"connecting", "replying"}
    /\ \E code \in {CURLE_OK, COULDNT_CONNECT} :
          /\ code = CURLE_OK => exchange.state = "replying"
          /\ exchange' = [exchange EXCEPT !.state = "ended", !.code = code]
    /\ UNCHANGED <<curl, easy, req, mimes, owner, calls, wire>>

\* Mutated form: the destructor leaves the mime to curl_easy_cleanup().
DestroyKeepsMime ==
    /\ owner # "gone" /\ exchange.state \in {"none", "ended"}
    /\ owner' = "gone"
    /\ UNCHANGED <<curl, easy, req, mimes, exchange, calls, wire>>

Destroy ==
    /\ owner # "gone" /\ exchange.state \in {"none", "ended"}
    /\ owner' = "gone"
    /\ mimes' = [m \in DOMAIN mimes |->
                    [mimes[m] EXCEPT !.freed = @ \/ m = req.m_mime]]
    /\ UNCHANGED <<curl, easy, req, exchange, calls, wire>>

Next ==
    \/ \E header \in Headers : AddDataToHeader(header)
    \/ \E bytes \in Bodies : AddDataToBody(bytes)
    \/ \E kind \in PartKinds : AddToFormData(kind)
    \/ MultipartFormDataInit \/ Build \/ Send
    \/ Redirect \/ ReplyHeader \/ ReplyChunk \/ SendReturns
    \/ Destroy

Spec == Init /\ [][Next]_vars

-----------------------------------------------------------------------------
(* Properties *)

\* Where in a history, after a given call, op was called; and where it was last.
Positions(history, op, after) ==
    {i \in DOMAIN history : i > after /\ history[i][1] = op}
LastOf(history, op) ==
    CHOOSE last \in Positions(history, op, 0) \cup {0} :
        \A i \in Positions(history, op, 0) : i <= last

\* The n-th of some positions, and the arguments of the calls there, in order.
Nth(positions, n) ==
    CHOOSE i \in positions : Cardinality({j \in positions : j <= i}) = n
Args(history, op, after) ==
    LET positions == Positions(history, op, after)
    IN  [n \in 1..Cardinality(positions) |-> history[Nth(positions, n)][2]]

\* What a caller that made these calls means to send.
Meant(history) ==
    LET init == LastOf(history, "init")
        body == LastOf(history, "body")
    IN  [method  |-> easy.custom,
         headers |-> Args(history, "header", 0),
         payload |-> IF init # 0 THEN Args(history, "part", init)
                     ELSE IF body # 0 THEN CString(history[body][2])
                     ELSE <<>>]

\* However the calls are ordered, repeated and interleaved with sends, what goes
\* out is what they mean: the headers in order; the parts since the last
\* MultipartFormDataInit(), which replace a body even if it is set later; or the
\* last body, still alive, up to its first NUL (HttpRequest.cpp:81-117, 147-178).
WireIsWhatWasMeant ==
    exchange.state = "connecting" => Last(wire) = Meant(Front(calls))

\* A request that is sent once holds exactly the pieces of that reply, in order,
\* and the headers of every hop, the last being the reply's; what a success leaves
\* is complete (HttpRequest.cpp:8-20, 99-135).
HoldsTheReplyOfItsSend ==
    exchange.state = "ended" /\ Cardinality(Positions(calls, "send", 0)) = 1 =>
        /\ req.response = [i \in 1..exchange.chunks |-> <<1, i>>]
        /\ exchange.code = CURLE_OK =>
               /\ Len(req.responseHeader) = exchange.hops + 1
               /\ Last(req.responseHeader) = "reply"

\* The destructor frees every curl_mime, but for those that a repeated
\* MultipartFormDataInit() forgot (HttpRequest.cpp:137-152).
OnlyReinitLeaks ==
    owner = "gone" =>
        \A m \in DOMAIN mimes : mimes[m].freed <=> m = Len(mimes)

-----------------------------------------------------------------------------
(* The inductive invariant of the proofs, in parts *)

\* The members hold what the calls so far say: all headers, the last body in the
\* buffer it was called with, and the parts since the last init.
MembersInv ==
    /\ req.m_headers = Args(calls, "header", 0)
    /\ req.body.buf = LastOf(calls, "body")
    /\ req.body.buf # 0 => /\ req.body.buf \in DOMAIN calls
                           /\ req.body.bytes = calls[req.body.buf][2]
    /\ LastOf(calls, "init") \in 0..Len(calls)
    /\ req.m_sendMultipartData <=> LastOf(calls, "init") # 0
    /\ req.m_sendMultipartData =>
           mimes[req.m_mime].parts = Args(calls, "part", LastOf(calls, "init"))

\* There is an n-th position for every n, among those of the headers and among
\* those of the parts since the last init.
Counted(positions) ==
    \A n \in 1..Cardinality(positions) : Nth(positions, n) \in positions
CountInv ==
    /\ Counted(Positions(calls, "header", 0))
    /\ Counted(Positions(calls, "part", LastOf(calls, "init")))

\* The object knows its last curl_mime only, and frees none before its end.
MimesInv ==
    /\ req.m_mime = Len(mimes)
    /\ req.m_sendMultipartData <=> Len(mimes) # 0
    /\ owner # "gone" => \A m \in DOMAIN mimes : ~mimes[m].freed
    /\ OnlyReinitLeaks

\* libcurl points at the living body, and sends it unless a mime replaces it.
EasyInv ==
    curl => /\ easy.fields = req.body.buf
            /\ ~req.m_sendMultipartData =>
                   easy.payload = IF req.body.buf # 0 THEN "fields" ELSE "none"

\* Nothing has come before the first send; what came of it is what the first
\* exchange brought, and a reply's header precedes its body.
FirstSendInv ==
    LET sends == Positions(calls, "send", 0)
    IN  /\ sends = {} => /\ exchange = Idle /\ wire = <<>>
                         /\ req.response = <<>> /\ req.responseHeader = <<>>
        /\ Cardinality(sends) = 1 =>
               /\ Len(wire) = IF curl THEN 1 ELSE 0
               /\ exchange.state # "none"
               /\ ~curl => exchange.state = "ended" /\ exchange.code = BAD_ARGUMENT
               /\ req.response = [i \in 1..exchange.chunks |-> <<1, i>>]
               /\ exchange.state = "connecting" =>
                      exchange.chunks = 0 /\ Len(req.responseHeader) = exchange.hops
               /\ \/ exchange.state = "replying"
                  \/ exchange.state = "ended" /\ exchange.code = CURLE_OK
                  => /\ Len(req.responseHeader) = exchange.hops + 1
                     /\ Last(req.responseHeader) = "reply"

IInv ==
    /\ TypeOK /\ MembersInv /\ CountInv /\ MimesInv /\ EasyInv /\ FirstSendInv
    /\ WireIsWhatWasMeant

=============================================================================

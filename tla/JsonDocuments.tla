---------------------------- MODULE JsonDocuments ----------------------------
(***************************************************************************)
(* What the gateway does with a document it has parsed: the statements of  *)
(* sendPostRequestToServer(), downloadFileService(), getNewJWToken() and   *)
(* requestOTAUpdate() on it, over the operations of basic_json they use    *)
(* (nlohmann/json.hpp).  The other modules tell documents apart by a kind; *)
(* this one shows what documents each kind stands for.                     *)
(***************************************************************************)
EXTENDS Integers, Sequences, Functions, TLC

VARIABLES
    handler,          \* which function runs
    given,            \* the document as it was parsed
    doc,              \* the document now
    pc,               \* its next statement
    outcome           \* "running", "finished", "ended" by a return, or the exception

vars == <<handler, given, doc, pc, outcome>>

Keys     == {"route", "filepath", "token", "expiration", "update"}
Handlers == {"post", "download", "token", "update"}

Scalars == {"null", "false", "true", "number", "string", "array"}
Object(members) == [type |-> "object", members |-> members]
Value(type)     == [type |-> type, members |-> <<>>]

\* What a member holds if it is an object or an array is looked at by no handler.
MemberTypes == Scalars \cup {"object"}

UsedBy(h) == CASE h = "post"     -> {"route", "filepath"}
               [] h = "download" -> {"route", "filepath"}
               [] h = "token"    -> {"token", "expiration"}
               [] h = "update"   -> {"update"}

Documents(h) ==
    {Value(t) : t \in Scalars} \cup
    {Object(m) : m \in UNION {[ks -> MemberTypes] : ks \in SUBSET UsedBy(h)}}

-----------------------------------------------------------------------------
(* basic_json; a result is the document after the call and what was returned *)

Count(v, key) == IF v.type = "object" /\ key \in DOMAIN v.members THEN 1 ELSE 0

\* operator[]: null becomes an object, and a missing member is added as null.
Index(v, key) ==
    IF v.type \in {"null", "object"}
    THEN [exception |-> "none",
          doc       |-> Object([k \in DOMAIN v.members \cup {key} |->
                                   IF k \in DOMAIN v.members THEN v.members[k] ELSE "null"])]
    ELSE [exception |-> "305", doc |-> v]

\* Mutated form: the member stays, as null.
EraseToNull(v, key) ==
    IF v.type = "object" THEN [exception |-> "none", doc |-> Object((key :> "null") @@ v.members)]
    ELSE [exception |-> "307", doc |-> v]

Erase(v, key) ==
    IF v.type = "object"
    THEN [exception |-> "none", doc |-> Object(Restrict(v.members, DOMAIN v.members \ {key}))]
    ELSE [exception |-> "307", doc |-> v]

\* The conversion to std::string of the member that operator[] returned.
String(v, key) ==
    LET at == Index(v, key)
    IN  IF at.exception = "none" /\ at.doc.members[key] # "string"
        THEN [at EXCEPT !.exception = "302"] ELSE at

-----------------------------------------------------------------------------
(* The statements of the handlers on the document; a download asks for its *)
(* path again after the exchange with the backend.                         *)

Statements(h) ==
    CASE h = "post"     -> <<<<"count", "route">>, <<"string", "route">>, <<"erase", "route">>>>
      [] h = "download" -> <<<<"count", "route">>, <<"count", "filepath">>, <<"string", "route">>,
                             <<"erase", "route">>, <<"string", "filepath">>>>
      [] h = "token"    -> <<<<"count", "token">>, <<"count", "expiration">>,
                             <<"string", "token">>, <<"index", "expiration">>>>
      [] h = "update"   -> <<<<"count", "update">>, <<"isFalse", "update">>>>

Init ==
    /\ handler \in Handlers
    /\ given \in Documents(handler)
    /\ doc = given /\ pc = 1 /\ outcome = "running"

GoOn ==
    /\ pc' = pc + 1
    /\ outcome' = IF pc = Len(Statements(handler)) THEN "finished" ELSE "running"

Leave(how) == outcome' = how /\ UNCHANGED pc

Statement(kind) ==
    /\ outcome = "running"
    /\ Statements(handler)[pc][1] = kind
    /\ UNCHANGED <<handler, given>>

\* The member the next statement is about.
Member == Statements(handler)[pc][2]

\* if (doc.count(key) == 0) return;
CountOrReturn ==
    /\ Statement("count")
    /\ IF Count(doc, Member) = 0 THEN Leave("ended") ELSE GoOn
    /\ UNCHANGED doc

Call(result) ==
    /\ doc' = result.doc
    /\ IF result.exception = "none" THEN GoOn ELSE Leave(result.exception)

Read   == Statement("index")  /\ Call(Index(doc, Member))
Convert == Statement("string") /\ Call(String(doc, Member))
Remove == Statement("erase")  /\ Call(Erase(doc, Member))

\* if (doc[key] == false) skipUpdate();  only the boolean is equal to false.
CompareFalse ==
    /\ Statement("isFalse")
    /\ LET at == Index(doc, Member)
       IN  IF at.exception = "none" /\ at.doc.members[Member] = "false"
           THEN doc' = at.doc /\ Leave("ended") ELSE Call(at)

Next == CountOrReturn \/ Read \/ Convert \/ Remove \/ CompareFalse

Spec == Init /\ [][Next]_vars

-----------------------------------------------------------------------------
(* Properties *)

\* The members the documents are asked for.
Has(key)      == given.type = "object" /\ key \in DOMAIN given.members
IsString(key) == Has(key) /\ given.members[key] = "string"

\* What a document is called where only its effect counts: the kinds of a payload
\* in PostRequests and DownloadRequests, of a reply in Authenticator and
\* GatewayStartup.  The order in which members are asked for decides.
Kind ==
    CASE handler = "post" ->
           IF ~Has("route") THEN "ended" ELSE IF IsString("route") THEN "finished" ELSE "302"
      [] handler = "download" ->
           IF ~Has("route") \/ ~Has("filepath") THEN "ended"
           ELSE IF IsString("route") /\ IsString("filepath") THEN "finished" ELSE "302"
      [] handler = "token" ->
           IF ~Has("token") \/ ~Has("expiration") THEN "ended"
           ELSE IF IsString("token") THEN "finished" ELSE "302"
      [] handler = "update" ->
           IF Has("update") /\ given.members["update"] # "false" THEN "finished" ELSE "ended"

\* Asking with count() first is enough: the exception a document can still cause
\* is that a member is no string (302), never that the document is no object, and
\* each document has the effect of its kind (main.cpp:86-91, 168-201, 244-255;
\* Authenticator.hpp:130-142).
EndsAsItsKind == outcome # "running" => outcome = Kind

\* Reading adds nothing to the document, and what is forwarded is what the client
\* sent without the route (main.cpp:255, 260), although operator[] adds members.
ForwardsTheRest ==
    /\ doc.type = given.type
    /\ outcome = "finished" /\ handler \in {"post", "download"} =>
           doc.members = Restrict(given.members, DOMAIN given.members \ {"route"})

-----------------------------------------------------------------------------
(* The inductive invariant of the proofs, in parts *)

TypeOK ==
    /\ handler \in Handlers
    /\ given \in Documents(handler)
    /\ doc.type \in MemberTypes
    /\ doc.type = "object" => DOMAIN doc.members \subseteq DOMAIN given.members
    /\ pc \in 1..6
    /\ outcome \in {"running", "finished", "ended", "302", "305", "307"}

\* What the statements already executed have found.
AskedInv ==
    \A i \in 1..(pc - 1) :
        LET kind == Statements(handler)[i][1]
            key  == Statements(handler)[i][2]
        IN  /\ kind = "count" => Has(key)
            /\ kind = "string" => IsString(key)
            /\ kind = "isFalse" => given.members[key] # "false"

\* They change the document by the erasure alone.
DocInv ==
    doc = IF \E i \in 1..(pc - 1) : Statements(handler)[i][1] = "erase"
          THEN Object(Restrict(given.members, DOMAIN given.members \ {"route"}))
          ELSE given

OutcomeInv ==
    /\ EndsAsItsKind
    /\ outcome # "finished" => pc <= Len(Statements(handler))
    /\ outcome = "finished" => pc = Len(Statements(handler)) + 1

IInv == TypeOK /\ AskedInv /\ DocInv /\ OutcomeInv
=============================================================================

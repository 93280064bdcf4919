--------------------------- MODULE HandlerDocuments ---------------------------
(***************************************************************************)
(* What becomes, in a handler's thread, of a document that was read from   *)
(* bytes a client or the backend chose: its strings are written into what  *)
(* is forwarded or answered (JsonForwarding), the handler's statements are *)
(* executed on it (JsonDocuments), and it is destroyed (JsonDestroy).      *)
(*                                                                         *)
(* These are the routines of the JSON library whose correctness does not   *)
(* depend on how long a string is, how many values a document has or how   *)
(* deep it is.  They share no state: a behaviour of this module runs one of*)
(* them, and the variables of the others stay where they begin.            *)
(***************************************************************************)
EXTENDS Integers, Sequences

CONSTANTS
    Bytes, MaxBytes, BufferSize,    \* of JsonForwarding
    MaxValues                       \* of JsonDestroy

\* There is room in string_buffer for what one code point may be written as.
ASSUME DocumentsAssumption ==
    /\ Bytes \subseteq 0..255
    /\ BufferSize \in Nat /\ BufferSize >= 13
    /\ MaxValues \in Nat \ {0}

VARIABLES
    routine,          \* the one that runs
    origin, lexer, string, dump, readBack, reader,
    handler, given, doc, statement, ending,
    held, calls, freed

stringVars    == <<origin, lexer, string, dump, readBack, reader>>
statementVars == <<handler, given, doc, statement, ending>>
destroyVars   == <<held, calls, freed>>
documentsVars == <<routine, stringVars, statementVars, destroyVars>>

Strings    == INSTANCE JsonForwarding
Statements == INSTANCE JsonDocuments WITH pc <- statement, outcome <- ending
Destroy    == INSTANCE JsonDestroy WITH N <- MaxValues, members <- held

\* One document for the routines that do not run.
DocumentsInit ==
    /\ routine \in {"forward", "handle", "destroy"}
    /\ Strings!Init
    /\ Statements!Init
    /\ routine # "handle" => handler = "post" /\ given = Statements!Value("null")
    /\ Destroy!Init
    /\ routine # "destroy" => held = [v \in 1..MaxValues |-> {v + 1} \cap 1..MaxValues]

Runs(name) == routine = name /\ UNCHANGED routine

ForwardString == Runs("forward") /\ Strings!Next /\ UNCHANGED <<statementVars, destroyVars>>

HandleDocument == Runs("handle") /\ Statements!Next /\ UNCHANGED <<stringVars, destroyVars>>

DestroyDocument == Runs("destroy") /\ Destroy!Next /\ UNCHANGED <<stringVars, statementVars>>

DocumentsNext == ForwardString \/ HandleDocument \/ DestroyDocument

DocumentsSpec == DocumentsInit /\ [][DocumentsNext]_documentsVars

\* The thread that destroys a document goes on.
DocumentsFairSpec == DocumentsSpec /\ WF_documentsVars(DestroyDocument)

-----------------------------------------------------------------------------
(* Properties *)

\* A string that a request was found to have can be written again without the
\* exception that ends the process, and whatever is written is read as the same
\* bytes by the one who receives it, whatever bytes a client or the backend sends
\* (main.cpp:244, 260, 272-274; json.hpp:7559-8140, 18313-18480).
ForwardedAsItCame == Strings!ForwardedAsItCame

\* Two places where a sender's choice meets a fixed memory.  The buffer of
\* dump_escaped() is not overrun, however its bytes are escaped; and the destructor
\* of a document recurs no deeper for a deeper document, and neither frees a value
\* twice nor forgets one nor uses one that was freed.  Nothing is said of the stack of
\* dump(), which recurs once per level (json.hpp:18092): a document that is deep
\* enough exhausts it, as PostRequests has it (json.hpp:18414-18421, 19772-19878).
WithinTheirMemory ==
    /\ Strings!BufferNeverOverrun
    /\ Destroy!RecursionBounded
    /\ Destroy!EveryValueOnce

\* A document has the effect of its kind, which is all that PostRequests,
\* DownloadRequests, Authenticator and GatewayStartup know of it, and goes on
\* without its route and otherwise as it came, although operator[] adds members
\* (main.cpp:86-91, 168-201, 244-260; Authenticator.hpp:130-142).
HandledByKind == Statements!EndsAsItsKind /\ Statements!ForwardsTheRest

\* A document that is destroyed is freed in the end, all of it
\* (json.hpp:19772-19878).
AllFreed == routine = "destroy" => Destroy!AllFreed

-----------------------------------------------------------------------------
(* The inductive invariant of the proofs: that of each routine by itself. *)

DocumentsTypeOK ==
    /\ routine \in {"forward", "handle", "destroy"}
    /\ Strings!TypeOK /\ Statements!TypeOK /\ Destroy!TypeOK

DocumentsInv ==
    /\ routine \in {"forward", "handle", "destroy"}
    /\ Strings!IInv /\ Statements!IInv /\ Destroy!IInv
=============================================================================

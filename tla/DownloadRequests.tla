--------------------------- MODULE DownloadRequests ---------------------------
(***************************************************************************)
(* The download service, downloadFileService() (src/main.cpp).  Each       *)
(* request gets a detached thread that fetches a reply from the backend    *)
(* and writes it to the path the client names.  Nothing keeps two threads  *)
(* from one path, and the client is never answered.                        *)
(*                                                                         *)
(* A file is a sequence of blocks, each named by the download it came      *)
(* from.  A stream writes block by block at its own position; opening      *)
(* truncates.  The HTTP status is not looked at, so an error page is a     *)
(* reply like any other.                                                   *)
(***************************************************************************)
EXTENDS Integers, Sequences, FiniteSets, Functions

CONSTANTS
    Downloads,  \* the requests
    Paths,      \* the files they may name
    Size,       \* blocks in a reply
    Old,        \* names the blocks a file holds at the start
    Hole        \* names a block below a write past the end of a file

ASSUME DownloadAssumption ==
    /\ Size \in Nat \ {0}
    /\ Old \notin Downloads
    /\ Hole \notin Downloads

VARIABLES
    pc,       \* program point of each request's thread
    payload,  \* what kind of text each request carries
    path,     \* the path each request names, if it comes
    written,  \* how many blocks each stream has written
    file,     \* the contents of each path
    writers,  \* who opened each path, since its last opening by one alone
    alive     \* FALSE once std::terminate has run

vars == <<pc, payload, path, written, file, writers, alive>>

\* "badJson" is no JSON text; "badRoute" and "badPath" have a value that is no
\* string there; "incomplete" lacks the route or the filepath.
PayloadKinds == {"good", "incomplete", "badRoute", "badPath", "badJson"}
ThreadPcs == {"parse", "sending", "open", "write"}

TypeOK ==
    /\ pc \in [Downloads -> ThreadPcs \cup {"unsent", "done"}]
    /\ payload \in [Downloads -> PayloadKinds \cup {"none"}]
    /\ path \in [Downloads -> Paths]
    /\ written \in [Downloads -> 0..Size]
    /\ DOMAIN file = Paths
    /\ \A p \in Paths : Range(file[p]) \subseteq Downloads \cup {Old, Hole}
    /\ writers \in [Paths -> SUBSET Downloads]
    /\ alive \in BOOLEAN

\* The old file is longer than a reply, so that what is not truncated shows.
Init ==
    /\ pc = [d \in Downloads |-> "unsent"]
    /\ payload = [d \in Downloads |-> "none"]
    /\ path \in [Downloads -> Paths]
    /\ written = [d \in Downloads |-> 0]
    /\ file = [p \in Paths |-> [block \in 1..(Size + 1) |-> Old]]
    /\ writers = [p \in Paths |-> {}]
    /\ alive = TRUE

-----------------------------------------------------------------------------

Goto(d, from, to) ==
    /\ pc[d] = from
    /\ pc' = [pc EXCEPT ![d] = to]
    /\ UNCHANGED <<payload, path, alive>>

\* An exception leaves the thread of d at the point where it is.
Terminate(d, at) ==
    /\ pc[d] = at
    /\ alive' = FALSE
    /\ UNCHANGED <<pc, payload, path>>

\* The downloads whose stream is open on p.
OpenOn(p) == {d \in Downloads : pc[d] = "write" /\ path[d] = p}

\* vsomeip calls the handler, which detaches a thread and returns.
Arrive(d) ==
    /\ pc[d] = "unsent"
    /\ pc' = [pc EXCEPT ![d] = "parse"]
    /\ \E kind \in PayloadKinds : payload' = [payload EXCEPT ![d] = kind]
    /\ UNCHANGED <<path, written, file, writers, alive>>

\* Mutated form: neither route nor filepath is asked for before it is read.
ParseUnchecked(d) ==
    /\ IF payload[d] \in {"good", "badPath"}
       THEN Goto(d, "parse", "sending") ELSE Terminate(d, "parse")
    /\ UNCHANGED <<written, file, writers>>

Parse(d) ==
    /\ \/ payload[d] \in {"good", "badPath"} /\ Goto(d, "parse", "sending")
       \/ payload[d] = "incomplete" /\ Goto(d, "parse", "done")
       \/ payload[d] \in {"badRoute", "badJson"} /\ Terminate(d, "parse")
    /\ UNCHANGED <<written, file, writers>>

SendReturns(d) ==
    /\ \E outcome \in {"open", "done"} : Goto(d, "sending", outcome)
    /\ UNCHANGED <<written, file, writers>>

\* Mutated form: the file is opened without being truncated.
OpenWithoutTruncating(d) ==
    /\ payload[d] = "good"
    /\ Goto(d, "open", "write")
    /\ writers' = [writers EXCEPT ![path[d]] =
                       IF OpenOn(path[d]) = {} THEN {d} ELSE @ \cup {d}]
    /\ UNCHANGED <<written, file>>

\* The stream is constructed: a path that is no string throws; a file that cannot
\* be opened is logged, and the thread ends; otherwise the file is truncated.
Open(d) ==
    \/ /\ payload[d] = "good"
       /\ Goto(d, "open", "write")
       /\ file' = [file EXCEPT ![path[d]] = <<>>]
       /\ writers' = [writers EXCEPT ![path[d]] =
                          IF OpenOn(path[d]) = {} THEN {d} ELSE @ \cup {d}]
       /\ UNCHANGED written
    \/ /\ payload[d] = "good"
       /\ Goto(d, "open", "done")
       /\ UNCHANGED <<written, file, writers>>
    \/ /\ payload[d] = "badPath"
       /\ Terminate(d, "open")
       /\ UNCHANGED <<written, file, writers>>

\* Contents with block number at written by d; a gap below it reads as holes.
Put(contents, at, d) ==
    [block \in 1..(IF at > Len(contents) THEN at ELSE Len(contents)) |->
        IF block = at THEN d
        ELSE IF block <= Len(contents) THEN contents[block]
        ELSE Hole]

WriteBlock(d) ==
    /\ written[d] < Size
    /\ Goto(d, "write", "write")
    /\ written' = [written EXCEPT ![d] = @ + 1]
    /\ file' = [file EXCEPT ![path[d]] = Put(@, written[d] + 1, d)]
    /\ UNCHANGED writers

\* The stream is closed after its last block, or after the first that failed:
\* its state is not looked at.
Close(d) == Goto(d, "write", "done") /\ UNCHANGED <<written, file, writers>>

Thread(d) == Parse(d) \/ Open(d) \/ WriteBlock(d) \/ Close(d)

Next == alive /\ \E d \in Downloads : Arrive(d) \/ Thread(d) \/ SendReturns(d)

Spec == Init /\ [][Next]_vars

-----------------------------------------------------------------------------
(* Properties *)

\* What a path holds comes from the downloads that had it open together, block
\* by block, and a download that had it to itself leaves no trace of an older
\* file and no hole: only overlapping downloads mix (main.cpp:201-212).
ContentsFromLastWriters ==
    \A p \in Paths : writers[p] # {} =>
        Range(file[p]) \subseteq
            writers[p] \cup (IF Cardinality(writers[p]) > 1 THEN {Hole} ELSE {})

\* The process outlives every well-formed request: only text that is no JSON, a
\* route that is no string, or, once the exchange has already taken place, a path
\* that is no string, ends it and every other thread with it (main.cpp:168-201).
OnlyMalformedKills ==
    ~alive => \E d \in Downloads :
        \/ pc[d] = "parse" /\ payload[d] \in {"badJson", "badRoute"}
        \/ pc[d] = "open" /\ payload[d] = "badPath"

-----------------------------------------------------------------------------
(* The inductive invariant of the proofs, in parts *)

\* Every file is a sequence of blocks.
FileInv == file \in [Paths -> Seq(Downloads \cup {Old, Hole})]

\* A stream that is not open yet has written nothing.
StreamInv ==
    \A d \in Downloads : pc[d] \in {"unsent", "parse", "sending", "open"} => written[d] = 0

\* Those who have a path open are among its writers, who are finitely many.
WritersInv ==
    \A p \in Paths : OpenOn(p) \subseteq writers[p] /\ IsFiniteSet(writers[p])

\* Who has had the path to itself stands at the end of what the file holds.
SoleWriterInv ==
    \A d \in Downloads :
        pc[d] = "write" /\ writers[path[d]] = {d} => Len(file[path[d]]) = written[d]

\* Where a block comes from, with holes only below blocks of several writers.
BlockInv ==
    \A p \in Paths : writers[p] # {} =>
        \A block \in DOMAIN file[p] :
            \/ file[p][block] \in writers[p]
            \/ file[p][block] = Hole /\ \A d \in Downloads : writers[p] # {d}

IInv ==
    /\ TypeOK
    /\ FileInv
    /\ StreamInv
    /\ WritersInv
    /\ SoleWriterInv
    /\ BlockInv
    /\ OnlyMalformedKills

=============================================================================

----------------------------- MODULE JsonDestroy -----------------------------
(***************************************************************************)
(* json_value::destroy() of nlohmann/json.hpp, which runs for every        *)
(* document when its handler ends, or when an exception leaves it.  A      *)
(* payload nests as deep as its sender likes, so destroy() flattens the    *)
(* tree onto a stack of its own instead of leaving it to the destructors   *)
(* of the members, each of which would call destroy() again.               *)
(***************************************************************************)
EXTENDS Integers, Sequences, FiniteSets, SequencesExt

CONSTANT N            \* bounds the values of a document; 1 is the document

VARIABLES
    members,          \* the values each value holds
    calls,            \* the calls of destroy() under way
    freed             \* how often each value was freed

vars == <<members, calls, freed>>

Nodes == 1..N

\* What is moved out of n, in any order: what is left in n is null.
Taken(n) == SetToSeq(members[n])

Call(n) == [node |-> n, flat |-> FALSE, stack |-> <<>>]

\* A document is any tree.
Init ==
    /\ \E parent \in [2..N -> 1..N] :
          /\ \A n \in 2..N : parent[n] < n
          /\ members = [n \in Nodes |-> {m \in 2..N : parent[m] = n}]
    /\ calls = <<Call(1)>>
    /\ freed = [n \in Nodes |-> 0]

Top        == Last(calls)
SetTop(call) == Append(Front(calls), call)

Flatten ==
    /\ calls # <<>> /\ ~Top.flat
    /\ calls' = SetTop([node |-> Top.node, flat |-> TRUE, stack |-> Taken(Top.node)])
    /\ members' = [members EXCEPT ![Top.node] = {}]
    /\ UNCHANGED freed

\* Mutated form: an item's members take the place of the other items.
DestroyItemAlone ==
    /\ calls # <<>> /\ Top.flat /\ Top.stack # <<>>
    /\ LET item == Last(Top.stack)
       IN  /\ calls' = Append(SetTop([Top EXCEPT !.stack = Taken(item)]), Call(item))
           /\ members' = [members EXCEPT ![item] = {}]
    /\ UNCHANGED freed

\* One round of the loop: the destructor of current_item calls destroy().
DestroyItem ==
    /\ calls # <<>> /\ Top.flat /\ Top.stack # <<>>
    /\ LET item == Last(Top.stack)
       IN  /\ calls' = Append(SetTop([Top EXCEPT !.stack = Front(Top.stack) \o Taken(item)]),
                              Call(item))
           /\ members' = [members EXCEPT ![item] = {}]
    /\ UNCHANGED freed

\* The switch after the loop.
Free ==
    /\ calls # <<>> /\ Top.flat /\ Top.stack = <<>>
    /\ freed' = [freed EXCEPT ![Top.node] = @ + 1]
    /\ calls' = Front(calls)
    /\ UNCHANGED members

Next == Flatten \/ DestroyItem \/ Free

Spec == Init /\ [][Next]_vars

\* One thread, which runs.
FairSpec == Spec /\ WF_vars(Next)

-----------------------------------------------------------------------------
(* Properties *)

\* However deep the document, destroy() is never more than one call inside itself
\* (json.hpp:19790-19836): what the flattening is for.
RecursionBounded == Len(calls) <= 2

\* Where a value is: held by another that lives, being destroyed, on a stack.
Places(n) ==
    {<<"held", m, 0>> : m \in {m \in Nodes : freed[m] = 0 /\ n \in members[m]}} \cup
    {<<"called", c, 0>> : c \in {c \in DOMAIN calls : calls[c].node = n}} \cup
    UNION {{<<"stacked", c, i>> : i \in {i \in DOMAIN calls[c].stack : calls[c].stack[i] = n}} :
               c \in DOMAIN calls}

\* Every value is in one place, or was freed, once.  So none is freed twice, none
\* is forgotten, and none is used after it was freed.
EveryValueOnce == \A n \in Nodes : Cardinality(Places(n)) + freed[n] = 1

\* The document is freed in the end, all of it.
AllFreed == <>(calls = <<>> /\ \A n \in Nodes : freed[n] = 1)

-----------------------------------------------------------------------------
(* The inductive invariant of the proofs, in parts *)

TypeOK ==
    /\ members \in [Nodes -> SUBSET Nodes]
    /\ calls \in Seq([node : Nodes, flat : BOOLEAN, stack : Seq(Nodes)])
    /\ freed \in [Nodes -> 0..1]

\* Only the first call has a stack; the value of a call inside it has been emptied,
\* as has every value that is flattened or freed.
CallInv ==
    /\ RecursionBounded
    /\ \A c \in 1..Len(calls) :
          /\ ~calls[c].flat \/ c > 1 => calls[c].stack = <<>>
          /\ calls[c].flat \/ c > 1 => members[calls[c].node] = {}
    /\ \A n \in Nodes : freed[n] = 1 => members[n] = {}
    /\ Len(calls) = 2 => calls[1].flat

Stack == IF calls = <<>> THEN <<>> ELSE calls[1].stack

\* No value is in two places, or in one twice, or in one and freed.
PlaceInv ==
    /\ \A m1, m2, n \in Nodes : n \in members[m1] /\ n \in members[m2] => m1 = m2
    /\ \A m, n \in Nodes : n \in members[m] => freed[n] = 0
    /\ \A c \in 1..Len(calls) :
          /\ freed[calls[c].node] = 0
          /\ \A m \in Nodes : calls[c].node \notin members[m]
          /\ \A d \in 1..Len(calls) : calls[c].node = calls[d].node => c = d
          /\ \A i \in 1..Len(Stack) : Stack[i] # calls[c].node
    /\ \A i \in 1..Len(Stack) :
          /\ freed[Stack[i]] = 0
          /\ \A m \in Nodes : Stack[i] \notin members[m]
          /\ \A j \in 1..Len(Stack) : Stack[i] = Stack[j] => i = j

\* And every value is in one or freed.
NoneForgotten ==
    \A n \in Nodes :
        \/ freed[n] = 1
        \/ \E m \in Nodes : n \in members[m]
        \/ \E c \in 1..Len(calls) : calls[c].node = n
        \/ \E i \in 1..Len(Stack) : Stack[i] = n

IInv == TypeOK /\ CallInv /\ PlaceInv /\ NoneForgotten
=============================================================================

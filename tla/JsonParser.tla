------------------------------ MODULE JsonParser ------------------------------
(***************************************************************************)
(* json::parse() (nlohmann/json.hpp), with which the gateway reads request *)
(* payloads and the backend's replies: the parser's loop over the tokens of*)
(* the lexer, the value it builds through json_sax_dom_parser, and dump(), *)
(* which writes a value again.                                             *)
(*                                                                         *)
(* The tokens are those of JsonGrammar, and "eof" is the end of the input. *)
(* The parser does not recur: states remembers the open arrays (TRUE) and  *)
(* objects (FALSE), ref_stack points at the values they are.  A pointer    *)
(* into the value is modelled as its path from root.                       *)
(***************************************************************************)
EXTENDS JsonGrammar

VARIABLES
    read,             \* the tokens read so far
    point,            \* what the parser expects next
    states,
    root, ref_stack, object_element,
    outcome           \* "running", "accepted", or the number of the exception

dom  == <<root, ref_stack, object_element>>
vars == <<read, point, states, dom, outcome>>

Points  == {"value", "firstKey", "firstColon", "key", "colon", "firstItem",
            "inArray", "inObject", "end"}

Init ==
    /\ read = <<>>
    /\ point = "value"
    /\ states = <<>>
    /\ root = Leaf("null") /\ ref_stack = <<>> /\ object_element = <<>>
    /\ outcome = "running"

-----------------------------------------------------------------------------
(* The value under construction *)

At(path) == FoldLeft(LAMBDA value, step : value.children[step], root, path)

\* value with new at path; the last step of path may be a new one.
RECURSIVE Put(_, _, _)
Put(value, path, new) ==
    IF path = <<>> THEN new
    ELSE LET step  == Head(path)
             child == IF Tail(path) = <<>> THEN new
                      ELSE Put(value.children[step], Tail(path), new)
         IN  [value EXCEPT !.children = (step :> child) @@ value.children]

\* Where handle_value() puts a value: a pointer to it is what it returns.
Slot ==
    IF ref_stack = <<>> THEN <<>>
    ELSE IF At(Last(ref_stack)).type = "array"
         THEN Append(Last(ref_stack), Len(At(Last(ref_stack)).children) + 1)
         ELSE object_element

\* key(): operator[] adds a null member for a new key.
KeyElement(name) ==
    /\ object_element' = Append(Last(ref_stack), name)
    /\ root' = IF name \in DOMAIN At(Last(ref_stack)).children THEN root
               ELSE Put(root, object_element', Leaf("null"))
    /\ UNCHANGED ref_stack

-----------------------------------------------------------------------------
(* The loop, one action per token *)

Get(t) ==
    /\ outcome = "running"
    /\ t = "eof" \/ Len(read) < MaxTokens
    /\ read' = Append(read, t)

Fail(exception) == outcome' = exception /\ UNCHANGED <<point, dom>>

\* The state evaluation after a value, with stack the open containers.
After(stack) ==
    IF stack = <<>> THEN "end" ELSE IF Last(stack) THEN "inArray" ELSE "inObject"

GoOn(next) == point' = next /\ UNCHANGED outcome

\* The switch over the token a value begins with, with stack the open containers.
BeginValue(t, stack) ==
    \/ /\ t \in Scalars
       /\ root' = Put(root, Slot, Leaf(t))
       /\ GoOn(After(stack))
       /\ UNCHANGED <<ref_stack, object_element>>
    \/ /\ t \in {"{", "["}
       /\ root' = Put(root, Slot, Leaf(IF t = "{" THEN "object" ELSE "array"))
       /\ ref_stack' = Append(ref_stack, Slot)
       /\ GoOn(IF t = "{" THEN "firstKey" ELSE "firstItem")
       /\ UNCHANGED object_element
    \/ t = "inf" /\ Fail("406")
    \/ t \notin Scalars \cup {"{", "[", "inf"} /\ Fail("101")

\* Mutated form: the pointer to the closed container stays.
CloseKeepsPointer(stack) ==
    /\ states' = stack
    /\ GoOn(After(stack))
    /\ UNCHANGED dom

\* end_object(), end_array(), and the evaluation of the state around them.
Close(stack) ==
    /\ ref_stack' = Front(ref_stack)
    /\ states' = stack
    /\ GoOn(After(stack))
    /\ UNCHANGED <<root, object_element>>

Value(t) ==
    /\ point = "value"
    /\ Get(t)
    /\ BeginValue(t, states)
    /\ UNCHANGED states

FirstItem(t) ==
    /\ point = "firstItem"
    /\ Get(t)
    /\ IF t = "]" THEN Close(states)
       ELSE states' = Append(states, TRUE) /\ BeginValue(t, states')

Key(t) ==
    /\ point \in {"firstKey", "key"}
    /\ Get(t)
    /\ IF t = "}" /\ point = "firstKey" THEN Close(states)
       ELSE /\ UNCHANGED states
            /\ IF t \in Strings
               THEN KeyElement(t) /\ GoOn(IF point = "key" THEN "colon" ELSE "firstColon")
               ELSE Fail("101")

Colon(t) ==
    /\ point \in {"firstColon", "colon"}
    /\ Get(t)
    /\ IF t = ":"
       THEN /\ states' = IF point = "firstColon" THEN Append(states, FALSE) ELSE states
            /\ GoOn("value")
            /\ UNCHANGED dom
       ELSE Fail("101") /\ UNCHANGED states

InContainer(t) ==
    /\ point \in {"inArray", "inObject"}
    /\ Get(t)
    /\ \/ /\ t = ","
          /\ GoOn(IF point = "inArray" THEN "value" ELSE "key")
          /\ UNCHANGED <<states, dom>>
       \/ t = (IF point = "inArray" THEN "]" ELSE "}") /\ Close(Front(states))
       \/ t \notin {",", IF point = "inArray" THEN "]" ELSE "}"}
          /\ Fail("101") /\ UNCHANGED states

\* Strict mode: what follows the value must be the end of the input.
End(t) ==
    /\ point = "end"
    /\ Get(t)
    /\ IF t = "eof" THEN outcome' = "accepted" /\ UNCHANGED <<point, dom>> ELSE Fail("101")
    /\ UNCHANGED states

Next ==
    \E t \in Tokens \cup {"eof"} :
        Value(t) \/ FirstItem(t) \/ Key(t) \/ Colon(t) \/ InContainer(t) \/ End(t)

Spec == Init /\ [][Next]_vars

-----------------------------------------------------------------------------
(* serializer::dump(), compact *)

RECURSIVE Dump(_)
Dump(value) ==
    LET Join(texts) == FoldLeft(LAMBDA all, text : IF all = <<>> THEN text
                                                   ELSE all \o <<",">> \o text, <<>>, texts)
        Member(k)   == <<k, ":">> \o Dump(value.children[k])
        members     == SelectSeq(Keys, LAMBDA k : k \in DOMAIN value.children)
    IN  CASE value.type = "object" ->
               <<"{">> \o Join([i \in DOMAIN members |-> Member(members[i])]) \o <<"}">>
          [] value.type = "array" ->
               <<"[">> \o Join([i \in DOMAIN value.children |-> Dump(value.children[i])])
                       \o <<"]">>
          [] OTHER -> <<value.type>>

-----------------------------------------------------------------------------
(* Properties *)

TypeOK ==
    /\ read \in Seq(Tokens \cup {"eof"})
    /\ point \in Points
    /\ states \in Seq(BOOLEAN)
    /\ outcome \in {"running", "accepted", "101", "406"}
    /\ point = "end" => ref_stack = <<>>

\* The two stacks of the parser agree, and every pointer it holds points at a
\* value that is there: what the JSON_ASSERTs at json.hpp:6815-6848, 6888-6899
\* demand, in a build without them undefined behaviour.
PointersIntoTheValue ==
    LET unremembered == point \in {"firstKey", "firstColon", "firstItem"}
        Exists(path) == path = <<>> \/ Last(path) \in DOMAIN At(Front(path)).children
    IN  outcome = "running" =>
            /\ Len(ref_stack) = Len(states) + (IF unremembered THEN 1 ELSE 0)
            /\ \A i \in DOMAIN ref_stack :
                   /\ i > 1 => IsStrictPrefix(ref_stack[i - 1], ref_stack[i])
                   /\ Exists(ref_stack[i])
                   /\ i \in DOMAIN states =>
                          At(ref_stack[i]).type = (IF states[i] THEN "array" ELSE "object")
            /\ (point \in {"colon", "firstColon"} \/ (point = "value" /\ states # <<>> /\ ~Last(states))) =>
                   /\ object_element # <<>> /\ Exists(object_element)
                   /\ Front(object_element) = Last(ref_stack)
=============================================================================

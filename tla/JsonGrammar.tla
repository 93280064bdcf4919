----------------------------- MODULE JsonGrammar -----------------------------
(***************************************************************************)
(* The values of JSON, the tokens of their texts, and the grammar of RFC   *)
(* 8259 over these tokens, against which JsonParser is checked.            *)
(*                                                                         *)
(* Tokens stand for themselves: "a" and "b" are strings, "1" any other     *)
(* scalar, "inf" a number beyond the range of double, "bad" what the lexer *)
(* rejects.                                                                *)
(***************************************************************************)
EXTENDS Integers, Sequences, SequencesExt, TLC

CONSTANT MaxTokens    \* bounds the tokens of a text, its end not counted

Keys    == <<"a", "b">>    \* in the order of std::map
Strings == ToSet(Keys)
Scalars == Strings \cup {"1"}
Tokens  == Scalars \cup {"{", "}", "[", "]", ",", ":", "inf", "bad"}

Node(type, children) == [type |-> type, children |-> children]
Leaf(type)           == Node(type, <<>>)

-----------------------------------------------------------------------------
(* The JSON grammar, written down independently of the parser: for every   *)
(* length, the texts of that length that are values, items and members,    *)
(* each with what it denotes.                                              *)

Pair(text, denotes) == [text |-> text, denotes |-> denotes]

Longer(shorter, n) ==
    LET Of(part, m)  == IF m \in 1..(n - 1) THEN shorter[m][part] ELSE {}
        inner(part)  == IF n = 2 THEN {Pair(<<>>, <<>>)} ELSE Of(part, n - 2)
        values ==
            (IF n = 1 THEN {Pair(<<t>>, Leaf(t)) : t \in Scalars} ELSE {})
            \cup {Pair(<<"[">> \o p.text \o <<"]">>, Node("array", p.denotes)) : p \in inner("items")}
            \cup {Pair(<<"{">> \o p.text \o <<"}">>, Node("object", p.denotes)) : p \in inner("members")}
        member(m) == {Pair(<<k, ":">> \o v.text, k :> v.denotes) : k \in Strings, v \in Of("values", m - 2)}
    IN  [values |-> values,
         items  |-> {Pair(v.text, <<v.denotes>>) : v \in values}
                    \cup UNION {{Pair(v.text \o <<",">> \o l.text, <<v.denotes>> \o l.denotes) :
                                     v \in Of("values", m), l \in Of("items", n - m - 1)} : m \in 1..n},
         members |-> member(n)
                    \* of two members of one name the last counts
                    \cup UNION {{Pair(p.text \o <<",">> \o l.text, l.denotes @@ p.denotes) :
                                     p \in member(m), l \in Of("members", n - m - 1)} : m \in 1..n}]

Grammar == FoldLeft(LAMBDA g, n : Append(g, Longer(g, n)), <<>>, [n \in 1..MaxTokens |-> n])
Json    == UNION {Grammar[n].values : n \in 1..MaxTokens}
Texts   == {p.text : p \in Json}
Begun   == UNION {Prefixes(text) : text \in Texts}
=============================================================================

-------------------------- MODULE HttpRequest_proofs --------------------------
(***************************************************************************)
(* Machine-checked proofs about HttpRequest, for every bound on the calls  *)
(* and on the pieces of a reply: what is sent is what the calls mean, what *)
(* is held is what came, and what is freed.                                *)
(***************************************************************************)
EXTENDS HttpRequest, FiniteSetTheorems, SequenceTheorems, TLAPS

-----------------------------------------------------------------------------
(* Histories of calls, when one more is made *)

\* The positions of op after a call: one more if the call was of op.
LEMMA PositionsOfAppend ==
    ASSUME NEW history \in Seq(Calls), NEW call \in Calls, NEW op,
           NEW after \in 0..Len(history)
    PROVE  Positions(Append(history, call), op, after) =
               IF call[1] = op THEN Positions(history, op, after) \cup {Len(history) + 1}
                               ELSE Positions(history, op, after)
  BY DEF Positions

\* Positions are a finite set of positions of the history.
LEMMA PositionsFinite ==
    ASSUME NEW history \in Seq(Calls), NEW op, NEW after \in Nat
    PROVE  /\ Positions(history, op, after) \subseteq 1..Len(history)
           /\ IsFiniteSet(Positions(history, op, after))
           /\ Cardinality(Positions(history, op, after)) \in Nat
<1>1. Positions(history, op, after) \subseteq 1..Len(history)
  BY DEF Positions
<1>2. IsFiniteSet(1..Len(history))
  BY FS_Interval
<1>3. IsFiniteSet(Positions(history, op, after))
  BY <1>1, <1>2, FS_Subset
<1> QED BY <1>1, <1>3, FS_CardinalityType

\* A call of op is then the last of op, and no other call changes which that is.
LEMMA LastOfAppend ==
    ASSUME NEW history \in Seq(Calls), NEW call \in Calls, NEW op
    PROVE  LastOf(Append(history, call), op) =
               IF call[1] = op THEN Len(history) + 1 ELSE LastOf(history, op)
<1>1. Positions(history, op, 0) \subseteq 1..Len(history)
  BY PositionsFinite
<1>2. CASE call[1] # op
  BY <1>2, PositionsOfAppend DEF LastOf
<1>3. CASE call[1] = op
  <2> DEFINE all == Positions(history, op, 0) \cup {Len(history) + 1}
             L == CHOOSE last \in all \cup {0} : \A i \in all : i <= last
  <2>1. Positions(Append(history, call), op, 0) = all
    BY <1>3, PositionsOfAppend
  <2>2. Len(history) + 1 \in all \cup {0} /\ \A i \in all : i <= Len(history) + 1
    BY <1>1
  <2>3. \A last \in all \cup {0} :
            (\A i \in all : i <= last) => last = Len(history) + 1
    BY <1>1
  <2>4. L = Len(history) + 1
    BY <2>2, <2>3
  <2> QED BY <1>3, <2>1, <2>4 DEF LastOf
<1> QED BY <1>2, <1>3

\* Among positions and a later one, the n-th is the same as without it, or it is
\* the later one.
LEMMA NthOfMore ==
    ASSUME NEW positions, NEW top \in Nat, positions \subseteq 1..top
    PROVE  /\ \A n \in 1..Cardinality(positions) :
                  Nth(positions \cup {top + 1}, n) = Nth(positions, n)
           /\ Nth(positions \cup {top + 1}, Cardinality(positions) + 1) = top + 1
<1> DEFINE all == positions \cup {top + 1}
           Below(i) == {j \in positions : j <= i}
<1>1. IsFiniteSet(positions) /\ Cardinality(positions) \in Nat
  <2>1. IsFiniteSet(1..top) /\ positions \in SUBSET (1..top)
    BY FS_Interval
  <2> QED BY <2>1, FS_Subset, FS_CardinalityType
<1>2. \A i \in positions : /\ {j \in all : j <= i} = Below(i)
                           /\ Cardinality(Below(i)) \in 0..Cardinality(positions)
  <2> TAKE i \in positions
  <2>1. {j \in all : j <= i} = Below(i)
    OBVIOUS
  <2>2. Below(i) \in SUBSET positions
    OBVIOUS
  <2>3. IsFiniteSet(Below(i)) /\ Cardinality(Below(i)) <= Cardinality(positions)
    BY <1>1, <2>2, FS_Subset
  <2>4. Cardinality(Below(i)) \in Nat
    BY <2>3, FS_CardinalityType
  <2> QED BY <1>1, <2>1, <2>3, <2>4
<1>3. {j \in all : j <= top + 1} = all
  <2>1. \A j \in all : j <= top + 1
    OBVIOUS
  <2> QED BY <2>1
<1>4. Cardinality(all) = Cardinality(positions) + 1
  BY <1>1, FS_AddElement
<1>5. ASSUME NEW n \in 1..Cardinality(positions)
      PROVE  Nth(all, n) = Nth(positions, n)
  <2>1. \A i : (i \in all /\ Cardinality({j \in all : j <= i}) = n) <=>
               (i \in positions /\ Cardinality({j \in positions : j <= i}) = n)
    <3> TAKE i
    <3>1. CASE i \in positions
      <4>1. {j \in all : j <= i} = {j \in positions : j <= i}
        BY <1>2, <3>1
      <4> QED BY <3>1, <4>1
    <3>2. CASE i = top + 1
      <4>1. Cardinality({j \in all : j <= i}) = Cardinality(positions) + 1
        BY <1>3, <1>4, <3>2
      <4>2. i \notin positions /\ Cardinality(positions) + 1 # n
        BY <1>1, <3>2
      <4> QED BY <4>1, <4>2
    <3>3. CASE i \notin all
      BY <3>3
    <3> QED BY <3>1, <3>2, <3>3
  <2> HIDE DEF all
  <2> QED BY <2>1, Zenon DEF Nth
<1>6. Nth(all, Cardinality(positions) + 1) = top + 1
  <2>1. \A i \in all : Cardinality({j \in all : j <= i}) = Cardinality(positions) + 1
                           <=> i = top + 1
    BY <1>1, <1>2, <1>3, <1>4
  <2> QED BY <2>1 DEF Nth
<1> QED BY <1>5, <1>6

\* A later position leaves an n-th position for every n.
LEMMA CountedMore ==
    ASSUME NEW positions, NEW top \in Nat, positions \subseteq 1..top, Counted(positions)
    PROVE  Counted(positions \cup {top + 1})
<1>1. IsFiniteSet(positions) /\ Cardinality(positions) \in Nat
  <2>1. IsFiniteSet(1..top) /\ positions \in SUBSET (1..top)
    BY FS_Interval
  <2> QED BY <2>1, FS_Subset, FS_CardinalityType
<1>2. top + 1 \notin positions
  OBVIOUS
<1>3. Cardinality(positions \cup {top + 1}) = Cardinality(positions) + 1
  BY <1>1, <1>2, FS_AddElement
<1>4. ASSUME NEW n \in 1..Cardinality(positions) + 1
      PROVE  Nth(positions \cup {top + 1}, n) \in positions \cup {top + 1}
  <2>1. CASE n \in 1..Cardinality(positions)
    <3>1. Nth(positions \cup {top + 1}, n) = Nth(positions, n)
      BY <2>1, NthOfMore
    <3> QED BY <2>1, <3>1 DEF Counted
  <2>2. CASE n = Cardinality(positions) + 1
    <3>1. Nth(positions \cup {top + 1}, n) = top + 1
      BY <2>2, NthOfMore
    <3> QED BY <3>1
  <2> QED BY <1>1, <2>1, <2>2
<1> QED BY <1>3, <1>4 DEF Counted

\* The arguments of op are a sequence, and a call of op adds its argument.
LEMMA ArgsOfAppend ==
    ASSUME NEW history \in Seq(Calls), NEW call \in Calls, NEW op,
           NEW after \in 0..Len(history), Counted(Positions(history, op, after))
    PROVE  Args(Append(history, call), op, after) =
               IF call[1] = op THEN Append(Args(history, op, after), call[2])
                               ELSE Args(history, op, after)
<1> DEFINE P == Positions(history, op, after)
           S == {history[i][2] : i \in 1..Len(history)}
<1>1. /\ P \subseteq 1..Len(history)
      /\ IsFiniteSet(P) /\ Cardinality(P) \in Nat
  BY PositionsFinite
<1>2. \A n \in 1..Cardinality(P) : Nth(P, n) \in 1..Len(history)
  BY <1>1 DEF Counted
<1>3. \A i \in 1..Len(history) : Append(history, call)[i] = history[i]
  OBVIOUS
<1>4. CASE call[1] # op
  BY <1>2, <1>3, <1>4, PositionsOfAppend DEF Args
<1>5. CASE call[1] = op
  <2>1. Positions(Append(history, call), op, after) = P \cup {Len(history) + 1}
    BY <1>5, PositionsOfAppend
  <2>2. Len(history) \in Nat /\ Len(history) + 1 \notin P
    BY <1>1
  <2>3. Cardinality(P \cup {Len(history) + 1}) = Cardinality(P) + 1
    BY <1>1, <2>2, FS_AddElement
  <2>4. Append(history, call)[Len(history) + 1] = call
    OBVIOUS
  <2> DEFINE old == Args(history, op, after)
             new == Args(Append(history, call), op, after)
             C   == Cardinality(P)
  <2>5. old = [n \in 1..C |-> history[Nth(P, n)][2]]
    BY DEF Args
  <2>6. new = [n \in 1..C + 1 |-> Append(history, call)[Nth(P \cup {Len(history) + 1}, n)][2]]
    BY <2>1, <2>3 DEF Args
  <2>7. ASSUME NEW n \in 1..C
        PROVE  Nth(P \cup {Len(history) + 1}, n) = Nth(P, n)
    BY <1>1, <2>2, NthOfMore
  <2>8. Nth(P \cup {Len(history) + 1}, C + 1) = Len(history) + 1
    BY <1>1, <2>2, NthOfMore
  <2> HIDE DEF P, C
  <2>9. C \in Nat
    BY <1>1 DEF C
  <2>10. \A n \in 1..C : Nth(P, n) \in 1..Len(history)
    BY <1>2 DEF C
  <2>11. Len(old) = C /\ old \in Seq(S)
    BY <2>5, <2>9, <2>10
  <2>12. \A n \in 1..C : new[n] = old[n]
    <3> TAKE n \in 1..C
    <3> HIDE DEF new, S
    <3>0. n \in 1..C + 1
      BY <2>9
    <3>1. new[n] = Append(history, call)[Nth(P \cup {Len(history) + 1}, n)][2]
      BY <2>6, <3>0, Zenon
    <3>2. new[n] = Append(history, call)[Nth(P, n)][2]
      BY <2>7, <3>1
    <3> QED BY <1>3, <2>5, <2>10, <3>2
  <2>13. new[C + 1] = call[2]
    BY <2>4, <2>6, <2>8, <2>9
  <2>14. new = [n \in 1..C + 1 |-> IF n <= C THEN old[n] ELSE call[2]]
    <3>1. DOMAIN new = 1..C + 1
      BY <2>6
    <3>2. \A n \in 1..C + 1 : new[n] = IF n <= C THEN old[n] ELSE call[2]
      BY <2>9, <2>12, <2>13
    <3>3. new = [n \in 1..C + 1 |-> new[n]]
      BY <2>6
    <3> HIDE DEF new, old
    <3> QED BY <3>2, <3>3
  <2> HIDE DEF new, old
  <2> DEFINE app == Append(old, call[2])
  <2>15. app = [n \in 1..C + 1 |-> IF n <= C THEN old[n] ELSE call[2]]
    <3>1. /\ app \in Seq(S \cup {call[2]})
          /\ \A n \in 1..C : app[n] = old[n]
          /\ Len(app) = C + 1 /\ app[C + 1] = call[2]
      <4>1. old \in Seq(S \cup {call[2]})
        BY <2>11
      <4> QED BY <4>1, <2>9, <2>11, AppendProperties
    <3>2. app = [n \in 1..C + 1 |-> app[n]]
      BY <3>1, <2>9
    <3>3. \A n \in 1..C + 1 : app[n] = IF n <= C THEN old[n] ELSE call[2]
      BY <3>1, <2>9
    <3> HIDE DEF app
    <3> QED BY <3>2, <3>3
  <2>16. new = Append(old, call[2])
    BY <2>14, <2>15
  <2> QED BY <1>5, <2>16 DEF new, old
<1> QED BY <1>4, <1>5

\* Nothing was called after the last call.
LEMMA NoneAfterLast ==
    ASSUME NEW history \in Seq(Calls), NEW op
    PROVE  /\ Positions(history, op, Len(history)) = {}
           /\ Args(history, op, Len(history)) = <<>>
           /\ Counted(Positions(history, op, Len(history)))
<1>1. Positions(history, op, Len(history)) = {}
  BY DEF Positions
<1>2. Cardinality(Positions(history, op, Len(history))) = 0
  BY <1>1, FS_EmptySet
<1> QED BY <1>1, <1>2 DEF Args, Counted

\* What one more call makes of the history.
LEMMA AppendCall ==
    ASSUME calls \in Seq(Calls), LastOf(calls, "init") \in 0..Len(calls), CountInv,
           NEW call \in Calls, calls' = Append(calls, call)
    PROVE  /\ Len(calls') = Len(calls) + 1 /\ calls'[Len(calls')] = call
           /\ \A i \in DOMAIN calls : i \in DOMAIN calls' /\ calls'[i] = calls[i]
           /\ Args(calls', "header", 0) =
                  IF call[1] = "header" THEN Append(Args(calls, "header", 0), call[2])
                                        ELSE Args(calls, "header", 0)
           /\ LastOf(calls', "body") = IF call[1] = "body" THEN Len(calls')
                                                           ELSE LastOf(calls, "body")
           /\ LastOf(calls', "init") = IF call[1] = "init" THEN Len(calls')
                                                           ELSE LastOf(calls, "init")
           /\ Args(calls', "part", LastOf(calls', "init")) =
                  CASE call[1] = "part" ->
                           Append(Args(calls, "part", LastOf(calls, "init")), call[2])
                    [] call[1] = "init" -> <<>>
                    [] OTHER -> Args(calls, "part", LastOf(calls, "init"))
           /\ Positions(calls', "send", 0) =
                  IF call[1] = "send" THEN Positions(calls, "send", 0) \cup {Len(calls')}
                                      ELSE Positions(calls, "send", 0)
           /\ CountInv'
<1> DEFINE init == LastOf(calls, "init")
<1>1. /\ Len(calls) \in Nat /\ Len(calls') = Len(calls) + 1
      /\ calls'[Len(calls')] = call /\ calls' \in Seq(Calls)
      /\ \A i \in DOMAIN calls : i \in DOMAIN calls' /\ calls'[i] = calls[i]
  BY AppendProperties
<1>2. Counted(Positions(calls, "header", 0)) /\ Counted(Positions(calls, "part", init))
  BY DEF CountInv
<1>3. Args(calls', "header", 0) =
          IF call[1] = "header" THEN Append(Args(calls, "header", 0), call[2])
                                ELSE Args(calls, "header", 0)
  BY <1>1, <1>2, ArgsOfAppend
<1>4. \A op : LastOf(calls', op) = IF call[1] = op THEN Len(calls') ELSE LastOf(calls, op)
  BY <1>1, LastOfAppend
<1>5. /\ Args(calls', "part", init) =
             IF call[1] = "part" THEN Append(Args(calls, "part", init), call[2])
                                 ELSE Args(calls, "part", init)
      /\ Args(calls', "part", Len(calls')) = <<>>
  <2>1. init \in 0..Len(calls)
    OBVIOUS
  <2> HIDE DEF init
  <2>2. Args(calls', "part", init) =
            IF call[1] = "part" THEN Append(Args(calls, "part", init), call[2])
                                ELSE Args(calls, "part", init)
    BY <1>2, <2>1, ArgsOfAppend
  <2> QED BY <1>1, <2>2, NoneAfterLast
<1>6. Positions(calls', "send", 0) =
          IF call[1] = "send" THEN Positions(calls, "send", 0) \cup {Len(calls')}
                              ELSE Positions(calls, "send", 0)
  BY <1>1, PositionsOfAppend
<1>7. ASSUME NEW op, NEW after \in 0..Len(calls), Counted(Positions(calls, op, after))
      PROVE  Counted(Positions(calls', op, after))
  <2>1. Positions(calls, op, after) \subseteq 1..Len(calls)
    BY PositionsFinite
  <2>2. CASE call[1] = op
    BY <1>1, <1>7, <2>1, <2>2, PositionsOfAppend, CountedMore
  <2>3. CASE call[1] # op
    BY <1>7, <2>3, PositionsOfAppend
  <2> QED BY <2>2, <2>3
<1>8. Counted(Positions(calls', "part", Len(calls')))
  BY <1>1, NoneAfterLast
<1>9. CountInv'
  <2>1. Counted(Positions(calls', "header", 0))
    BY <1>1, <1>2, <1>7
  <2>2. Counted(Positions(calls', "part", init))
    BY <1>2, <1>7
  <2>3. Counted(Positions(calls', "part", LastOf(calls', "init")))
    BY <1>4, <1>8, <2>2
  <2> QED BY <2>1, <2>3 DEF CountInv
<1>10. Args(calls', "part", LastOf(calls', "init")) =
           CASE call[1] = "part" -> Append(Args(calls, "part", init), call[2])
             [] call[1] = "init" -> <<>>
             [] OTHER -> Args(calls, "part", init)
  BY <1>4, <1>5
<1> QED BY <1>1, <1>3, <1>4, <1>6, <1>9, <1>10

-----------------------------------------------------------------------------
(* The initial states *)

LEMMA InitIInv == Init => IInv
<1> SUFFICES ASSUME Init PROVE IInv
  OBVIOUS
<1> USE DEF Init
<1>1. TypeOK
  BY BoundsAssumption DEF TypeOK, RequestTypes, Bodies, Idle, CURLE_OK
<1>2. \A op : /\ Positions(calls, op, 0) = {} /\ LastOf(calls, op) = 0
              /\ Args(calls, op, 0) = <<>> /\ Counted(Positions(calls, op, 0))
  <2> TAKE op
  <2>1. calls \in Seq(Calls) /\ Len(calls) = 0
    OBVIOUS
  <2>2. Positions(calls, op, 0) = {}
    BY DEF Positions
  <2>3. LastOf(calls, op) = 0
    BY <2>2 DEF LastOf
  <2> QED BY <2>1, <2>2, <2>3, NoneAfterLast
<1>3. MembersInv
  BY <1>2 DEF MembersInv
<1>4. CountInv
  BY <1>2 DEF CountInv
<1>5. MimesInv
  BY DEF MimesInv, OnlyReinitLeaks
<1>6. EasyInv
  BY DEF EasyInv
<1>7. FirstSendInv
  <2> HIDE DEF Init
  <2>1. Positions(calls, "send", 0) = {}
    BY <1>2
  <2>2. Cardinality({}) = 0
    BY FS_EmptySet
  <2>3. Cardinality(Positions(calls, "send", 0)) # 1
    BY <2>1, <2>2
  <2>4. exchange = Idle /\ wire = <<>> /\ req.response = <<>> /\ req.responseHeader = <<>>
    BY DEF Init
  <2> QED BY <2>1, <2>3, <2>4, Zenon DEF FirstSendInv
<1>8. WireIsWhatWasMeant
  BY DEF WireIsWhatWasMeant, Idle
<1> QED BY <1>1, <1>3, <1>4, <1>5, <1>6, <1>7, <1>8 DEF IInv

-----------------------------------------------------------------------------
(* The calls that fill the request *)

\* What a call has in common with every other: the history grows by it, and no
\* exchange is connecting before and after it, unless the call begins one.
LEMMA CallGrows ==
    ASSUME IInv, NEW op, NEW arg, <<op, arg>> \in Calls, Call(op, arg)
    PROVE  /\ calls \in Seq(Calls) /\ Len(calls) \in Nat
           /\ calls' \in Seq(Calls) /\ Len(calls') = Len(calls) + 1
           /\ Len(calls') <= MaxCalls /\ Len(calls') \in Nat \ {0}
           /\ calls' = Append(calls, <<op, arg>>)
           /\ LastOf(calls, "init") \in 0..Len(calls) /\ CountInv
           /\ exchange.state # "connecting"
           /\ owner # "gone" /\ owner' = owner /\ curl' = curl
<1>1. calls \in Seq(Calls) /\ calls' = Append(calls, <<op, arg>>)
  BY DEF IInv, TypeOK, Call
<1>2. Len(calls) \in Nat /\ calls' \in Seq(Calls) /\ Len(calls') = Len(calls) + 1
  BY <1>1, AppendProperties
<1>3. Len(calls') <= MaxCalls
  BY <1>2, BoundsAssumption DEF Call
<1> QED BY <1>1, <1>2, <1>3 DEF IInv, MembersInv, Call

\* The first sends are as they were if a call is not a send and touches none of
\* what they left.
LEMMA NoFurtherSend ==
    ASSUME FirstSendInv, Positions(calls', "send", 0) = Positions(calls, "send", 0),
           curl' = curl, exchange' = exchange, wire' = wire,
           req'.response = req.response, req'.responseHeader = req.responseHeader
    PROVE  FirstSendInv'
  BY DEF FirstSendInv

\* AddDataToHeader preserves the invariant.
LEMMA AddDataToHeaderStep ==
    ASSUME IInv, NEW header \in Headers, AddDataToHeader(header)
    PROVE  IInv'
<1> USE DEF AddDataToHeader
<1>1. <<"header", header>> \in Calls
  BY DEF Calls
<1>2. Call("header", header)
  OBVIOUS
<1> DEFINE call == <<"header", header>>
<1>3. /\ calls \in Seq(Calls) /\ Len(calls) \in Nat
      /\ calls' \in Seq(Calls) /\ Len(calls') = Len(calls) + 1
      /\ Len(calls') <= MaxCalls
      /\ calls' = Append(calls, call)
      /\ LastOf(calls, "init") \in 0..Len(calls) /\ CountInv
      /\ exchange.state # "connecting"
      /\ owner # "gone" /\ owner' = owner /\ curl' = curl
  BY <1>1, <1>2, CallGrows
<1>4. /\ \A i \in DOMAIN calls : i \in DOMAIN calls' /\ calls'[i] = calls[i]
      /\ Args(calls', "header", 0) = Append(Args(calls, "header", 0), header)
      /\ LastOf(calls', "body") = LastOf(calls, "body")
      /\ LastOf(calls', "init") = LastOf(calls, "init")
      /\ Args(calls', "part", LastOf(calls', "init")) =
             Args(calls, "part", LastOf(calls, "init"))
      /\ Positions(calls', "send", 0) = Positions(calls, "send", 0)
      /\ CountInv'
  BY <1>1, <1>3, AppendCall
<1>5. TypeOK'
  <2>1. req' \in [m_headers : Seq(Headers), body : [buf : Nat, bytes : Bodies],
                m_sendMultipartData : BOOLEAN, m_mime : Nat,
                response : Seq(Nat \X Nat), responseHeader : Seq({"redirect", "reply"})]
    <3>1. Append(req.m_headers, header) \in Seq(Headers)
      BY AppendProperties DEF IInv, TypeOK
    <3>2. req' = [req EXCEPT !.m_headers = Append(req.m_headers, header)]
      OBVIOUS
    <3> HIDE DEF AddDataToHeader
    <3> QED BY <3>1, <3>2 DEF IInv, TypeOK
  <2>2. UNCHANGED <<curl, easy, mimes, owner, exchange, wire>>
    BY <1>3
  <2> HIDE DEF AddDataToHeader
  <2>3. calls' \in Seq(Calls) /\ Len(calls') <= MaxCalls
    BY <1>3
  <2>4. wire' \in Seq(Range(wire'))
    BY <2>2 DEF IInv, TypeOK
  <2> QED BY <2>1, <2>2, <2>3, <2>4, Zenon DEF IInv, TypeOK
<1>6. MembersInv'
  <2>1. /\ req'.m_headers = Append(req.m_headers, header)
        /\ req'.body = req.body /\ req'.m_mime = req.m_mime
        /\ req'.m_sendMultipartData = req.m_sendMultipartData
        /\ mimes' = mimes
    BY DEF IInv, TypeOK
  <2> HIDE DEF AddDataToHeader
  <2>2. req.body.buf # 0 => /\ req.body.buf \in DOMAIN calls'
                            /\ req.body.bytes = calls'[req.body.buf][2]
    BY <1>4 DEF IInv, MembersInv
  <2>3. LastOf(calls', "init") \in 0..Len(calls')
    BY <1>3, <1>4
  <2> QED BY <1>4, <2>1, <2>2, <2>3, Zenon DEF IInv, MembersInv
<1>7. MimesInv'
  BY <1>3 DEF IInv, TypeOK, MimesInv, OnlyReinitLeaks
<1>8. EasyInv'
  BY <1>3 DEF IInv, TypeOK, EasyInv
<1>9. FirstSendInv'
  BY <1>3, <1>4, NoFurtherSend DEF IInv, TypeOK
<1>10. WireIsWhatWasMeant'
  BY <1>3 DEF WireIsWhatWasMeant
<1> QED BY <1>4, <1>5, <1>6, <1>7, <1>8, <1>9, <1>10 DEF IInv

\* AddDataToBody preserves the invariant.
LEMMA AddDataToBodyStep ==
    ASSUME IInv, NEW bytes \in Bodies, AddDataToBody(bytes)
    PROVE  IInv'
<1> DEFINE call == <<"body", bytes>>
<1>1. call \in Calls
  BY DEF Calls
<1>2. Call("body", bytes)
  BY DEF AddDataToBody
<1>3. /\ calls \in Seq(Calls) /\ Len(calls) \in Nat
      /\ calls' \in Seq(Calls) /\ Len(calls') = Len(calls) + 1
      /\ Len(calls') <= MaxCalls
      /\ calls' = Append(calls, call)
      /\ LastOf(calls, "init") \in 0..Len(calls) /\ CountInv
      /\ exchange.state # "connecting"
      /\ owner # "gone" /\ owner' = owner /\ curl' = curl
  BY <1>1, <1>2, CallGrows
<1>4. /\ calls'[Len(calls')] = call
      /\ Args(calls', "header", 0) = Args(calls, "header", 0)
      /\ LastOf(calls', "body") = Len(calls')
      /\ LastOf(calls', "init") = LastOf(calls, "init")
      /\ Args(calls', "part", LastOf(calls', "init")) =
             Args(calls, "part", LastOf(calls, "init"))
      /\ Positions(calls', "send", 0) = Positions(calls, "send", 0)
      /\ CountInv'
  BY <1>1, <1>3, AppendCall
<1>5. /\ req' = [req EXCEPT !.body = [buf |-> Len(calls'), bytes |-> bytes]]
      /\ easy' = IF curl THEN [easy EXCEPT !.fields = Len(calls'), !.payload = "fields"]
                         ELSE easy
      /\ UNCHANGED <<mimes, exchange, wire>>
  BY DEF AddDataToBody
<1>6. /\ req'.body.buf = Len(calls') /\ req'.body.bytes = bytes
      /\ req'.m_headers = req.m_headers /\ req'.m_mime = req.m_mime
      /\ req'.m_sendMultipartData = req.m_sendMultipartData
      /\ req'.response = req.response /\ req'.responseHeader = req.responseHeader
  BY <1>5 DEF IInv, TypeOK
<1>7. TypeOK'
  <2> DEFINE buf == Len(calls')
  <2>0. buf \in Nat
    BY <1>3
  <2>1. req' \in [m_headers : Seq(Headers), body : [buf : Nat, bytes : Bodies],
                m_sendMultipartData : BOOLEAN, m_mime : Nat,
                response : Seq(Nat \X Nat), responseHeader : Seq({"redirect", "reply"})]
    <3>1. req' = [req EXCEPT !.body = [buf |-> buf, bytes |-> bytes]]
      BY <1>5
    <3> HIDE DEF buf
    <3> QED BY <2>0, <3>1 DEF IInv, TypeOK
  <2>2. easy' \in [custom : RequestTypes, headers : {<<>>},
                   payload : {"none", "fields", "mime"}, fields : Nat, mime : Nat]
    <3>1. easy' = IF curl THEN [easy EXCEPT !.fields = buf, !.payload = "fields"]
                          ELSE easy
      BY <1>5
    <3> HIDE DEF buf
    <3> QED BY <2>0, <3>1 DEF IInv, TypeOK
  <2>3. calls' \in Seq(Calls) /\ Len(calls') <= MaxCalls
    BY <1>3
  <2>4. wire' \in Seq(Range(wire'))
    BY <1>5 DEF IInv, TypeOK
  <2> QED BY <1>3, <1>5, <2>1, <2>2, <2>3, <2>4, Zenon DEF IInv, TypeOK
<1>8. MembersInv'
  <2>1. LastOf(calls', "init") \in 0..Len(calls') /\ Len(calls') \in DOMAIN calls'
    BY <1>3, <1>4
  <2>2. bytes = calls'[Len(calls')][2]
    BY <1>4
  <2> QED BY <1>4, <1>5, <1>6, <2>1, <2>2, Zenon DEF IInv, MembersInv
<1>9. MimesInv'
  BY <1>3, <1>5, <1>6, Zenon DEF IInv, MimesInv, OnlyReinitLeaks
<1>10. EasyInv'
  BY <1>3, <1>5, <1>6 DEF IInv, TypeOK, EasyInv
<1>11. FirstSendInv'
  BY <1>3, <1>4, <1>5, <1>6, NoFurtherSend DEF IInv
<1>12. WireIsWhatWasMeant'
  BY <1>3, <1>5 DEF WireIsWhatWasMeant
<1> QED BY <1>4, <1>7, <1>8, <1>9, <1>10, <1>11, <1>12 DEF IInv

\* MultipartFormDataInit preserves the invariant.
LEMMA MultipartFormDataInitStep ==
    ASSUME IInv, MultipartFormDataInit
    PROVE  IInv'
<1> DEFINE call == <<"init", "">>
<1>1. call \in Calls
  BY DEF Calls
<1>2. Call("init", "")
  BY DEF MultipartFormDataInit
<1>3. /\ calls \in Seq(Calls) /\ Len(calls) \in Nat
      /\ calls' \in Seq(Calls) /\ Len(calls') = Len(calls) + 1
      /\ Len(calls') <= MaxCalls /\ Len(calls') \in Nat \ {0}
      /\ calls' = Append(calls, call)
      /\ LastOf(calls, "init") \in 0..Len(calls) /\ CountInv
      /\ exchange.state # "connecting"
      /\ owner # "gone" /\ owner' = owner /\ curl' = curl
  BY <1>1, <1>2, CallGrows
<1>4. /\ \A i \in DOMAIN calls : i \in DOMAIN calls' /\ calls'[i] = calls[i]
      /\ Args(calls', "header", 0) = Args(calls, "header", 0)
      /\ LastOf(calls', "body") = LastOf(calls, "body")
      /\ LastOf(calls', "init") = Len(calls')
      /\ Args(calls', "part", LastOf(calls', "init")) = <<>>
      /\ Positions(calls', "send", 0) = Positions(calls, "send", 0)
      /\ CountInv'
  BY <1>1, <1>3, AppendCall
<1> DEFINE fresh == [parts |-> <<>>, freed |-> FALSE]
           Mimes == [parts : Seq(PartKinds), freed : BOOLEAN]
<1>5. /\ req' = [req EXCEPT !.m_mime = Len(mimes'), !.m_sendMultipartData = TRUE]
      /\ mimes' = Append(mimes, fresh)
      /\ UNCHANGED <<easy, exchange, wire>>
  BY DEF MultipartFormDataInit
<1>6. /\ req'.body = req.body
      /\ req'.m_headers = req.m_headers /\ req'.m_mime = Len(mimes')
      /\ req'.m_sendMultipartData
      /\ req'.response = req.response /\ req'.responseHeader = req.responseHeader
  BY <1>5 DEF IInv, TypeOK
<1>7. /\ mimes \in Seq(Mimes) /\ mimes' \in Seq(Mimes) /\ Len(mimes) \in Nat
      /\ Len(mimes') = Len(mimes) + 1 /\ mimes'[Len(mimes')] = fresh
      /\ DOMAIN mimes' = 1..Len(mimes) + 1 /\ DOMAIN mimes = 1..Len(mimes)
      /\ \A m \in DOMAIN mimes : mimes'[m] = mimes[m]
  <2>1. mimes \in Seq(Mimes) /\ fresh \in Mimes
    BY DEF IInv, TypeOK
  <2> HIDE DEF fresh, Mimes
  <2> QED BY <1>5, <2>1, AppendProperties
<1>8. TypeOK'
  <2>1. req' \in [m_headers : Seq(Headers), body : [buf : Nat, bytes : Bodies],
                m_sendMultipartData : BOOLEAN, m_mime : Nat,
                response : Seq(Nat \X Nat), responseHeader : Seq({"redirect", "reply"})]
    <3>1. Len(mimes') \in Nat
      BY <1>7
    <3> QED BY <1>5, <3>1 DEF IInv, TypeOK
  <2>2. calls' \in Seq(Calls) /\ Len(calls') <= MaxCalls
    BY <1>3
  <2>3. wire' \in Seq(Range(wire'))
    BY <1>5 DEF IInv, TypeOK
  <2> QED BY <1>3, <1>5, <1>7, <2>1, <2>2, <2>3, Zenon DEF IInv, TypeOK
<1>9. MembersInv'
  <2>0. Len(calls') \in Nat /\ Len(calls') # 0
    BY <1>3
  <2>1. LastOf(calls', "init") \in 0..Len(calls') /\ LastOf(calls', "init") # 0
    <3>1. LastOf(calls', "init") = Len(calls')
      BY <1>4
    <3>2. Len(calls') \in 0..Len(calls')
      BY <2>0
    <3> QED BY <2>0, <3>1, <3>2
  <2>2. req.body.buf # 0 => /\ req.body.buf \in DOMAIN calls'
                            /\ req.body.bytes = calls'[req.body.buf][2]
    BY <1>4 DEF IInv, MembersInv
  <2>3. mimes'[req'.m_mime].parts = <<>>
    BY <1>6, <1>7
  <2> QED BY <1>4, <1>6, <2>1, <2>2, <2>3, Zenon DEF IInv, MembersInv
<1>10. MimesInv'
  <2>1. \A m \in DOMAIN mimes' : ~mimes'[m].freed
    <3> TAKE m \in DOMAIN mimes'
    <3>1. CASE m \in DOMAIN mimes
      BY <1>3, <1>7, <3>1, Zenon DEF IInv, MimesInv
    <3>2. CASE m = Len(mimes')
      BY <1>7, <3>2
    <3> QED BY <1>7, <3>1, <3>2
  <2>2. Len(mimes') # 0
    BY <1>7
  <2> QED BY <1>3, <1>6, <2>1, <2>2, Zenon DEF MimesInv, OnlyReinitLeaks
<1>11. EasyInv'
  BY <1>3, <1>5, <1>6 DEF IInv, EasyInv
<1>12. FirstSendInv'
  BY <1>3, <1>4, <1>5, <1>6, NoFurtherSend DEF IInv
<1>13. WireIsWhatWasMeant'
  BY <1>3, <1>5 DEF WireIsWhatWasMeant
<1> QED BY <1>4, <1>8, <1>9, <1>10, <1>11, <1>12, <1>13 DEF IInv

\* AddToFormData preserves the invariant.
LEMMA AddToFormDataStep ==
    ASSUME IInv, NEW kind \in PartKinds, AddToFormData(kind)
    PROVE  IInv'
<1> DEFINE call == <<"part", kind>>
<1>1. call \in Calls
  BY DEF Calls
<1>2. Call("part", kind)
  BY DEF AddToFormData
<1>3. /\ calls \in Seq(Calls) /\ Len(calls) \in Nat
      /\ calls' \in Seq(Calls) /\ Len(calls') = Len(calls) + 1
      /\ Len(calls') <= MaxCalls
      /\ calls' = Append(calls, call)
      /\ LastOf(calls, "init") \in 0..Len(calls) /\ CountInv
      /\ exchange.state # "connecting"
      /\ owner # "gone" /\ owner' = owner /\ curl' = curl
  BY <1>1, <1>2, CallGrows
<1>4. /\ \A i \in DOMAIN calls : i \in DOMAIN calls' /\ calls'[i] = calls[i]
      /\ Args(calls', "header", 0) = Args(calls, "header", 0)
      /\ LastOf(calls', "body") = LastOf(calls, "body")
      /\ LastOf(calls', "init") = LastOf(calls, "init")
      /\ Args(calls', "part", LastOf(calls', "init")) =
             Append(Args(calls, "part", LastOf(calls, "init")), kind)
      /\ Positions(calls', "send", 0) = Positions(calls, "send", 0)
      /\ CountInv'
  BY <1>1, <1>3, AppendCall
<1> DEFINE Mimes == [parts : Seq(PartKinds), freed : BOOLEAN]
<1>5. /\ mimes' = IF req.m_sendMultipartData
                  THEN [mimes EXCEPT ![req.m_mime].parts = Append(@, kind)]
                  ELSE mimes
      /\ UNCHANGED <<easy, req, exchange, wire>>
  BY DEF AddToFormData
<1>6. /\ mimes \in Seq(Mimes) /\ Len(mimes) \in Nat /\ DOMAIN mimes = 1..Len(mimes)
      /\ req.m_sendMultipartData => req.m_mime \in DOMAIN mimes
  BY DEF IInv, TypeOK, MimesInv
<1>7. /\ mimes' \in Seq(Mimes) /\ Len(mimes') = Len(mimes)
      /\ DOMAIN mimes' = DOMAIN mimes
      /\ \A m \in DOMAIN mimes : mimes'[m].freed = mimes[m].freed
      /\ req.m_sendMultipartData =>
             mimes'[req.m_mime].parts = Append(mimes[req.m_mime].parts, kind)
  <2>1. CASE ~req.m_sendMultipartData
    BY <1>5, <1>6, <2>1
  <2>2. CASE req.m_sendMultipartData
    <3> DEFINE mime == [mimes[req.m_mime] EXCEPT !.parts = Append(@, kind)]
    <3>1. mimes[req.m_mime] \in Mimes
      BY <1>6, <2>2, ElementOfSeq
    <3>2. Append(mimes[req.m_mime].parts, kind) \in Seq(PartKinds)
      BY <3>1, AppendProperties
    <3>3. /\ mime \in Mimes /\ mime.freed = mimes[req.m_mime].freed
          /\ mime.parts = Append(mimes[req.m_mime].parts, kind)
      BY <3>1, <3>2
    <3>4. mimes' = [mimes EXCEPT ![req.m_mime] = mime]
      BY <1>5, <2>2
    <3> HIDE DEF mime, Mimes
    <3>5. /\ mimes' \in Seq(Mimes) /\ Len(mimes') = Len(mimes)
          /\ \A m \in 1..Len(mimes) :
                 mimes'[m] = IF m = req.m_mime THEN mime ELSE mimes[m]
      BY <1>6, <2>2, <3>3, <3>4, ExceptSeq
    <3>6. DOMAIN mimes' = DOMAIN mimes
      BY <3>4
    <3> QED BY <1>6, <2>2, <3>3, <3>5, <3>6
  <2> QED BY <2>1, <2>2
<1>8. TypeOK'
  <2>1. calls' \in Seq(Calls) /\ Len(calls') <= MaxCalls
    BY <1>3
  <2>2. wire' \in Seq(Range(wire'))
    BY <1>5 DEF IInv, TypeOK
  <2> QED BY <1>3, <1>5, <1>7, <2>1, <2>2, Zenon DEF IInv, TypeOK
<1>9. MembersInv'
  <2>1. LastOf(calls', "init") \in 0..Len(calls')
    BY <1>3, <1>4
  <2>2. req.body.buf # 0 => /\ req.body.buf \in DOMAIN calls'
                            /\ req.body.bytes = calls'[req.body.buf][2]
    BY <1>4 DEF IInv, MembersInv
  <2> QED BY <1>4, <1>5, <1>7, <2>1, <2>2, Zenon DEF IInv, MembersInv
<1>10. MimesInv'
  <2>1. owner' # "gone" => \A m \in DOMAIN mimes' : ~mimes'[m].freed
    BY <1>3, <1>7 DEF IInv, MimesInv
  <2> QED BY <1>3, <1>5, <1>7, <2>1, Zenon DEF IInv, MimesInv, OnlyReinitLeaks
<1>11. EasyInv'
  BY <1>3, <1>5 DEF IInv, EasyInv
<1>12. FirstSendInv'
  BY <1>3, <1>4, <1>5, NoFurtherSend DEF IInv
<1>13. WireIsWhatWasMeant'
  BY <1>3, <1>5 DEF WireIsWhatWasMeant
<1> QED BY <1>4, <1>8, <1>9, <1>10, <1>11, <1>12, <1>13 DEF IInv

-----------------------------------------------------------------------------
(* The send and what libcurl does in it *)

\* What is appended is last, and the rest is what was there.
LEMMA AppendLast ==
    ASSUME NEW S, NEW s \in Seq(S), NEW e \in S
    PROVE  Last(Append(s, e)) = e /\ Front(Append(s, e)) = s
<1> DEFINE t == Append(s, e)
<1>1. /\ t \in Seq(S) /\ Len(t) = Len(s) + 1 /\ t[Len(s) + 1] = e /\ Len(s) \in Nat
      /\ \A i \in 1..Len(s) : t[i] = s[i]
  BY AppendProperties
<1> HIDE DEF t
<1>2. Last(t) = e
  BY <1>1 DEF Last
<1>3. /\ SubSeq(t, 1, Len(s)) \in Seq(S) /\ Len(SubSeq(t, 1, Len(s))) = Len(s)
      /\ \A i \in 1..Len(s) : SubSeq(t, 1, Len(s))[i] = t[i]
  BY <1>1
<1>4. SubSeq(t, 1, Len(s)) = s
  BY <1>1, <1>3, SeqEqual
<1>5. Front(t) = s
  BY <1>1, <1>4 DEF Front
<1> QED BY <1>2, <1>5 DEF t

\* The message that send() puts on the wire is what the calls before it mean.
LEMMA MessageIsMeant ==
    ASSUME IInv, curl,
           easy' = IF req.m_sendMultipartData
                   THEN [easy EXCEPT !.payload = "mime", !.mime = req.m_mime] ELSE easy
    PROVE  easy'.custom = easy.custom /\ Message(easy') = Meant(calls)
<1> DEFINE init == LastOf(calls, "init")
           body == LastOf(calls, "body")
           P == CASE easy'.payload = "mime"   -> mimes[easy'.mime].parts
                  [] easy'.payload = "fields" ->
                         IF easy'.fields = req.body.buf THEN CString(req.body.bytes)
                                                        ELSE Dangling
                  [] easy'.payload = "none"   -> <<>>
           M == IF init # 0 THEN Args(calls, "part", init)
                ELSE IF body # 0 THEN CString(calls[body][2])
                ELSE <<>>
<1>1. easy'.custom = easy.custom
  BY DEF IInv, TypeOK
<1>2. ASSUME req.m_sendMultipartData PROVE P = M
  <2>1. easy'.payload = "mime" /\ easy'.mime = req.m_mime
    BY <1>2 DEF IInv, TypeOK
  <2>2. init # 0 /\ mimes[req.m_mime].parts = Args(calls, "part", init)
    BY <1>2 DEF IInv, MembersInv
  <2> QED BY <2>1, <2>2
<1>3. ASSUME ~req.m_sendMultipartData PROVE P = M
  <2>1. /\ easy' = easy /\ easy.fields = req.body.buf
        /\ easy.payload = IF req.body.buf # 0 THEN "fields" ELSE "none"
    BY <1>3 DEF IInv, EasyInv
  <2>2. /\ init = 0 /\ body = req.body.buf
        /\ body # 0 => req.body.bytes = calls[body][2]
    BY <1>3 DEF IInv, MembersInv
  <2> HIDE DEF init, body
  <2>3. CASE body = 0
    BY <2>1, <2>2, <2>3
  <2>4. CASE body # 0
    BY <2>1, <2>2, <2>4
  <2> QED BY <2>3, <2>4
<1>4. P = M
  BY <1>2, <1>3
<1>5. req.m_headers = Args(calls, "header", 0)
  BY DEF IInv, MembersInv
<1>6. /\ Message(easy') = [method |-> easy'.custom, headers |-> req.m_headers, payload |-> P]
      /\ Meant(calls) = [method |-> easy.custom, headers |-> Args(calls, "header", 0),
                         payload |-> M]
  BY DEF Message, Meant
<1> HIDE DEF P, M
<1> QED BY <1>1, <1>4, <1>5, <1>6

\* Send preserves the invariant, and begins the first exchange if it is the first.
LEMMA SendStep ==
    ASSUME IInv, Send
    PROVE  IInv'
<1> DEFINE call == <<"send", "">>
           sends == Positions(calls, "send", 0)
<1>1. call \in Calls
  BY DEF Calls
<1>2. Call("send", "")
  BY DEF Send
<1>3. /\ calls \in Seq(Calls) /\ Len(calls) \in Nat
      /\ calls' \in Seq(Calls) /\ Len(calls') = Len(calls) + 1
      /\ Len(calls') <= MaxCalls
      /\ calls' = Append(calls, call)
      /\ LastOf(calls, "init") \in 0..Len(calls) /\ CountInv
      /\ owner # "gone" /\ owner' = owner /\ curl' = curl
  BY <1>1, <1>2, CallGrows
<1>4. /\ \A i \in DOMAIN calls : i \in DOMAIN calls' /\ calls'[i] = calls[i]
      /\ Args(calls', "header", 0) = Args(calls, "header", 0)
      /\ LastOf(calls', "body") = LastOf(calls, "body")
      /\ LastOf(calls', "init") = LastOf(calls, "init")
      /\ Args(calls', "part", LastOf(calls', "init")) =
             Args(calls, "part", LastOf(calls, "init"))
      /\ Positions(calls', "send", 0) = sends \cup {Len(calls')}
      /\ CountInv'
  BY <1>1, <1>3, AppendCall
<1> HIDE DEF call, sends
<1>5. /\ easy' = IF curl /\ req.m_sendMultipartData
                 THEN [easy EXCEPT !.payload = "mime", !.mime = req.m_mime] ELSE easy
      /\ wire' = IF curl THEN Append(wire, Message(easy')) ELSE wire
      /\ exchange' = IF curl THEN [Idle EXCEPT !.state = "connecting"]
                     ELSE [Idle EXCEPT !.state = "ended", !.code = BAD_ARGUMENT]
      /\ UNCHANGED <<req, mimes>>
  BY DEF Send
<1>6. /\ exchange'.chunks = 0 /\ exchange'.hops = 0
      /\ exchange'.state = IF curl THEN "connecting" ELSE "ended"
      /\ exchange'.code = IF curl THEN CURLE_OK ELSE BAD_ARGUMENT
  BY <1>5 DEF Idle
<1>7. curl => /\ Message(easy') = Meant(calls) /\ easy'.custom = easy.custom
  BY <1>5, MessageIsMeant
<1>8. /\ wire \in Seq(Range(wire)) /\ wire' \in Seq(Range(wire'))
      /\ Len(wire) \in Nat /\ Len(wire') = Len(wire) + (IF curl THEN 1 ELSE 0)
      /\ curl => Last(wire') = Message(easy')
  <2>1. wire \in Seq(Range(wire)) /\ Len(wire) \in Nat
    BY DEF IInv, TypeOK
  <2>2. CASE ~curl
    BY <1>5, <2>1, <2>2
  <2>3. CASE curl
    <3> DEFINE m == Message(easy')
               All == Range(wire) \cup {m}
    <3>1. wire' = Append(wire, m)
      BY <1>5, <2>3
    <3>2. wire \in Seq(All)
      BY <2>1, SeqMonotonic
    <3> HIDE DEF m
    <3>3. /\ wire' \in Seq(All) /\ Len(wire') = Len(wire) + 1
          /\ \A i \in 1..Len(wire) : wire'[i] = wire[i]
          /\ wire'[Len(wire) + 1] = m /\ DOMAIN wire' = 1..Len(wire) + 1
      BY <3>1, <3>2, AppendProperties
    <3>4. Last(wire') = m
      BY <3>1, <3>2, AppendLast
    <3>5. \A i \in 1..Len(wire') : wire'[i] \in Range(wire')
      BY <3>3, <2>1 DEF Range
    <3>6. wire' \in Seq(Range(wire'))
      BY <3>3, <3>5
    <3> QED BY <2>1, <2>3, <3>3, <3>4, <3>6 DEF m
  <2> QED BY <2>2, <2>3
<1>9. TypeOK'
  <2>1. easy' \in [custom : RequestTypes, headers : {<<>>},
                   payload : {"none", "fields", "mime"}, fields : Nat, mime : Nat]
    BY <1>5 DEF IInv, TypeOK
  <2>2. exchange' \in [state : {"none", "connecting", "replying", "ended"},
                       code : {CURLE_OK, BAD_ARGUMENT, COULDNT_CONNECT},
                       chunks : Nat, hops : Nat]
    BY <1>5 DEF Idle
  <2>3. calls' \in Seq(Calls) /\ Len(calls') <= MaxCalls
    BY <1>3
  <2> QED BY <1>3, <1>5, <1>8, <2>1, <2>2, <2>3, Zenon DEF IInv, TypeOK
<1>10. MembersInv'
  <2>1. LastOf(calls', "init") \in 0..Len(calls')
    BY <1>3, <1>4
  <2>2. req.body.buf # 0 => /\ req.body.buf \in DOMAIN calls'
                            /\ req.body.bytes = calls'[req.body.buf][2]
    BY <1>4 DEF IInv, MembersInv
  <2> QED BY <1>4, <1>5, <2>1, <2>2, Zenon DEF IInv, MembersInv
<1>11. MimesInv'
  BY <1>3, <1>5, Zenon DEF IInv, MimesInv, OnlyReinitLeaks
<1>12. EasyInv'
  BY <1>3, <1>5 DEF IInv, TypeOK, EasyInv
<1>13. FirstSendInv'
  <2>1. sends \subseteq 1..Len(calls) /\ IsFiniteSet(sends) /\ Cardinality(sends) \in Nat
    BY <1>3, PositionsFinite DEF sends
  <2>2. Cardinality(sends \cup {Len(calls')}) = Cardinality(sends) + 1
    <3>1. Len(calls') \notin sends
      BY <1>3, <2>1
    <3> QED BY <2>1, <3>1, FS_AddElement
  <2>3. ASSUME sends = {}
        PROVE  /\ wire = <<>> /\ req.response = <<>> /\ req.responseHeader = <<>>
    BY <2>3 DEF IInv, FirstSendInv, sends
  <2>4. Cardinality(sends) = 0 => sends = {}
    BY <2>1, FS_EmptySet
  <2>5. <<>> = [i \in 1..0 |-> <<1, i>>] /\ Len(<<>>) = 0
    OBVIOUS
  <2>6. Positions(calls', "send", 0) # {}
    BY <1>4
  <2>7. ASSUME Cardinality(Positions(calls', "send", 0)) = 1
        PROVE  /\ Len(wire') = IF curl' THEN 1 ELSE 0
               /\ req'.response = [i \in 1..exchange'.chunks |-> <<1, i>>]
               /\ Len(req'.responseHeader) = exchange'.hops
    <3>1. sends = {}
      <4>1. Cardinality(sends \cup {Len(calls')}) = 1
        BY <1>4, <2>7
      <4> QED BY <2>1, <2>2, <2>4, <4>1
    <3>2. wire = <<>> /\ req'.response = <<>> /\ req'.responseHeader = <<>>
      BY <1>5, <2>3, <3>1
    <3>3. curl' = curl
      BY <1>3
    <3>4. Len(wire) = 0
      BY <2>5, <3>2
    <3>5. Len(wire') = IF curl' THEN 1 ELSE 0
      BY <1>8, <3>3, <3>4
    <3> QED BY <1>6, <2>5, <3>2, <3>5
  <2>8. /\ exchange'.state # "none" /\ exchange'.state # "replying"
        /\ ~(exchange'.state = "ended" /\ exchange'.code = CURLE_OK)
        /\ ~curl' => exchange'.state = "ended" /\ exchange'.code = BAD_ARGUMENT
    <3>1. curl' = curl
      BY <1>3
    <3>2. CASE curl
      BY <1>6, <3>1, <3>2
    <3>3. CASE ~curl
      BY <1>6, <3>1, <3>3 DEF CURLE_OK, BAD_ARGUMENT
    <3> QED BY <3>2, <3>3
  <2> QED BY <1>6, <2>6, <2>7, <2>8, Zenon DEF FirstSendInv
<1>14. WireIsWhatWasMeant'
  <2>1. CASE ~curl
    BY <1>6, <2>1 DEF WireIsWhatWasMeant
  <2>2. CASE curl
    <3>1. Front(calls') = calls
      BY <1>1, <1>3, AppendLast
    <3>2. Last(wire') = Meant(calls)
      BY <1>7, <1>8, <2>2
    <3> QED BY <1>7, <2>2, <3>1, <3>2 DEF WireIsWhatWasMeant, Meant
  <2> QED BY <2>1, <2>2
<1> QED BY <1>4, <1>9, <1>10, <1>11, <1>12, <1>13, <1>14 DEF IInv

\* The sends so far, while one is in progress: not none.
LEMMA InProgress ==
    ASSUME IInv, exchange.state \in {"connecting", "replying"}
    PROVE  Positions(calls, "send", 0) # {}
  BY DEF IInv, FirstSendInv, Idle

\* No callback and no return of the exchange touches what was asked for, and the
\* destructor waits for it.
LEMMA AskedIsKept ==
    ASSUME IInv, UNCHANGED <<curl, easy, mimes, owner, calls, wire>>,
           req'.m_headers = req.m_headers, req'.body = req.body,
           req'.m_sendMultipartData = req.m_sendMultipartData, req'.m_mime = req.m_mime
    PROVE  MembersInv' /\ CountInv' /\ MimesInv' /\ EasyInv'
<1>1. MembersInv'
  BY Zenon DEF IInv, MembersInv
<1>2. CountInv'
  BY Zenon DEF IInv, CountInv
<1>3. MimesInv'
  BY Zenon DEF IInv, MimesInv, OnlyReinitLeaks
<1>4. EasyInv'
  BY Zenon DEF IInv, EasyInv
<1> QED BY <1>1, <1>2, <1>3, <1>4

\* Redirect preserves the invariant: one header more, and one hop.
LEMMA RedirectStep ==
    ASSUME IInv, Redirect
    PROVE  IInv'
<1>1. /\ exchange.state = "connecting"
      /\ req' = [req EXCEPT !.responseHeader = Append(req.responseHeader, "redirect")]
      /\ exchange' = [exchange EXCEPT !.hops = 1] /\ exchange.hops = 0
      /\ UNCHANGED <<curl, easy, mimes, owner, calls, wire>>
  BY DEF Redirect, Callback
<1>2. Positions(calls, "send", 0) # {}
  BY <1>1, InProgress
<1>3. /\ req.responseHeader \in Seq({"redirect", "reply"})
      /\ Append(req.responseHeader, "redirect") \in Seq({"redirect", "reply"})
      /\ Len(Append(req.responseHeader, "redirect")) = Len(req.responseHeader) + 1
  BY AppendProperties DEF IInv, TypeOK
<1>4. /\ req'.responseHeader = Append(req.responseHeader, "redirect")
      /\ req'.m_headers = req.m_headers /\ req'.body = req.body
      /\ req'.m_sendMultipartData = req.m_sendMultipartData
      /\ req'.m_mime = req.m_mime /\ req'.response = req.response
      /\ exchange'.state = "connecting" /\ exchange'.code = exchange.code
      /\ exchange'.chunks = exchange.chunks /\ exchange'.hops = 1
  BY <1>1 DEF IInv, TypeOK
<1>5. TypeOK'
  <2>1. req' \in [m_headers : Seq(Headers), body : [buf : Nat, bytes : Bodies],
                m_sendMultipartData : BOOLEAN, m_mime : Nat,
                response : Seq(Nat \X Nat), responseHeader : Seq({"redirect", "reply"})]
    BY <1>1, <1>3 DEF IInv, TypeOK
  <2>2. exchange' \in [state : {"none", "connecting", "replying", "ended"},
                       code : {CURLE_OK, BAD_ARGUMENT, COULDNT_CONNECT},
                       chunks : Nat, hops : Nat]
    BY <1>1 DEF IInv, TypeOK
  <2> QED BY <1>1, <2>1, <2>2, Zenon DEF IInv, TypeOK
<1>6. MembersInv' /\ CountInv' /\ MimesInv' /\ EasyInv'
  BY <1>1, <1>4, AskedIsKept
<1>7. FirstSendInv'
  <2>1. ASSUME Cardinality(Positions(calls, "send", 0)) = 1
        PROVE  /\ exchange.chunks = 0 /\ Len(req.responseHeader) = 0
               /\ Len(wire) = IF curl THEN 1 ELSE 0
               /\ curl /\ req.response = [i \in 1..exchange.chunks |-> <<1, i>>]
    BY <1>1, <2>1 DEF IInv, FirstSendInv
  <2>2. ASSUME Cardinality(Positions(calls, "send", 0)) = 1
        PROVE  Len(req'.responseHeader) = exchange'.hops
    BY <1>3, <1>4, <2>1, <2>2
  <2>3. Positions(calls', "send", 0) = Positions(calls, "send", 0)
    BY <1>1
  <2> QED BY <1>1, <1>2, <1>4, <2>1, <2>2, <2>3, Zenon DEF FirstSendInv
<1>8. WireIsWhatWasMeant'
  <2>1. Last(wire) = Meant(Front(calls))
    BY <1>1 DEF IInv, WireIsWhatWasMeant
  <2> QED BY <1>1, <2>1 DEF WireIsWhatWasMeant, Meant
<1> QED BY <1>5, <1>6, <1>7, <1>8 DEF IInv

\* ReplyHeader preserves the invariant: the reply's header is the last.
LEMMA ReplyHeaderStep ==
    ASSUME IInv, ReplyHeader
    PROVE  IInv'
<1>1. /\ exchange.state = "connecting"
      /\ req' = [req EXCEPT !.responseHeader = Append(req.responseHeader, "reply")]
      /\ exchange' = [exchange EXCEPT !.state = "replying"]
      /\ UNCHANGED <<curl, easy, mimes, owner, calls, wire>>
  BY DEF ReplyHeader, Callback
<1>2. Positions(calls, "send", 0) # {}
  BY <1>1, InProgress
<1>3. /\ Append(req.responseHeader, "reply") \in Seq({"redirect", "reply"})
      /\ Len(Append(req.responseHeader, "reply")) = Len(req.responseHeader) + 1
      /\ Last(Append(req.responseHeader, "reply")) = "reply"
  BY AppendProperties, AppendLast DEF IInv, TypeOK
<1>4. /\ req'.responseHeader = Append(req.responseHeader, "reply")
      /\ req'.m_headers = req.m_headers /\ req'.body = req.body
      /\ req'.m_sendMultipartData = req.m_sendMultipartData
      /\ req'.m_mime = req.m_mime /\ req'.response = req.response
      /\ exchange'.state = "replying" /\ exchange'.code = exchange.code
      /\ exchange'.chunks = exchange.chunks /\ exchange'.hops = exchange.hops
  BY <1>1 DEF IInv, TypeOK
<1>5. TypeOK'
  <2>1. req' \in [m_headers : Seq(Headers), body : [buf : Nat, bytes : Bodies],
                m_sendMultipartData : BOOLEAN, m_mime : Nat,
                response : Seq(Nat \X Nat), responseHeader : Seq({"redirect", "reply"})]
    BY <1>1, <1>3 DEF IInv, TypeOK
  <2>2. exchange' \in [state : {"none", "connecting", "replying", "ended"},
                       code : {CURLE_OK, BAD_ARGUMENT, COULDNT_CONNECT},
                       chunks : Nat, hops : Nat]
    BY <1>1 DEF IInv, TypeOK
  <2> QED BY <1>1, <2>1, <2>2, Zenon DEF IInv, TypeOK
<1>6. MembersInv' /\ CountInv' /\ MimesInv' /\ EasyInv'
  BY <1>1, <1>4, AskedIsKept
<1>7. FirstSendInv'
  <2>1. ASSUME Cardinality(Positions(calls, "send", 0)) = 1
        PROVE  /\ Len(req.responseHeader) = exchange.hops
               /\ Len(wire) = IF curl THEN 1 ELSE 0
               /\ curl /\ req.response = [i \in 1..exchange.chunks |-> <<1, i>>]
    BY <1>1, <2>1 DEF IInv, FirstSendInv
  <2>2. ASSUME Cardinality(Positions(calls, "send", 0)) = 1
        PROVE  /\ Len(req'.responseHeader) = exchange'.hops + 1
               /\ Last(req'.responseHeader) = "reply"
    BY <1>3, <1>4, <2>1, <2>2
  <2>3. Positions(calls', "send", 0) = Positions(calls, "send", 0)
    BY <1>1
  <2> QED BY <1>1, <1>2, <1>4, <2>1, <2>2, <2>3, Zenon DEF FirstSendInv
<1>8. WireIsWhatWasMeant'
  BY <1>4 DEF WireIsWhatWasMeant
<1> QED BY <1>5, <1>6, <1>7, <1>8 DEF IInv

\* ReplyChunk preserves the invariant: one piece more, of the first exchange if
\* there was no other.
LEMMA ReplyChunkStep ==
    ASSUME IInv, ReplyChunk
    PROVE  IInv'
<1> DEFINE piece == <<Len(wire), exchange.chunks + 1>>
           R == Append(req.response, piece)
<1>1. /\ exchange.state = "replying"
      /\ exchange' = [exchange EXCEPT !.chunks = exchange.chunks + 1]
      /\ UNCHANGED <<curl, easy, mimes, owner, calls, wire>>
  BY DEF ReplyChunk
<1>2. Positions(calls, "send", 0) # {}
  BY <1>1, InProgress
<1>3. /\ exchange.chunks \in Nat /\ exchange'.chunks = exchange.chunks + 1
      /\ exchange'.state = "replying" /\ exchange'.code = exchange.code
      /\ exchange'.hops = exchange.hops
  BY <1>1 DEF IInv, TypeOK
<1>4. Len(wire) \in Nat
  BY DEF IInv, TypeOK
<1>5. req' = [req EXCEPT !.response = R]
  BY <1>3 DEF ReplyChunk, Callback
<1>6. R \in Seq(Nat \X Nat)
  <2>1. piece \in Nat \X Nat
    BY <1>3, <1>4
  <2> HIDE DEF piece
  <2> QED BY <2>1, AppendProperties DEF IInv, TypeOK
<1> HIDE DEF R
<1>7. /\ req'.response = R /\ req'.responseHeader = req.responseHeader
      /\ req'.m_headers = req.m_headers /\ req'.body = req.body
      /\ req'.m_sendMultipartData = req.m_sendMultipartData
      /\ req'.m_mime = req.m_mime
  BY <1>5 DEF IInv, TypeOK
<1>8. TypeOK'
  <2>1. req' \in [m_headers : Seq(Headers), body : [buf : Nat, bytes : Bodies],
                m_sendMultipartData : BOOLEAN, m_mime : Nat,
                response : Seq(Nat \X Nat), responseHeader : Seq({"redirect", "reply"})]
    BY <1>5, <1>6 DEF IInv, TypeOK
  <2>2. exchange' \in [state : {"none", "connecting", "replying", "ended"},
                       code : {CURLE_OK, BAD_ARGUMENT, COULDNT_CONNECT},
                       chunks : Nat, hops : Nat]
    <3> DEFINE c == exchange.chunks + 1
    <3>1. c \in Nat
      BY <1>3
    <3>2. exchange' = [exchange EXCEPT !.chunks = c]
      BY <1>1
    <3> HIDE DEF c
    <3> QED BY <3>1, <3>2 DEF IInv, TypeOK
  <2> QED BY <1>1, <2>1, <2>2, Zenon DEF IInv, TypeOK
<1>9. MembersInv' /\ CountInv' /\ MimesInv' /\ EasyInv'
  BY <1>1, <1>7, AskedIsKept
<1>10. FirstSendInv'
  <2>1. ASSUME Cardinality(Positions(calls, "send", 0)) = 1
        PROVE  /\ Len(req.responseHeader) = exchange.hops + 1
               /\ Last(req.responseHeader) = "reply"
               /\ curl /\ Len(wire) = IF curl THEN 1 ELSE 0
               /\ req.response = [i \in 1..exchange.chunks |-> <<1, i>>]
    BY <1>1, <2>1 DEF IInv, FirstSendInv
  <2>2. ASSUME Cardinality(Positions(calls, "send", 0)) = 1
        PROVE  req'.response = [i \in 1..exchange'.chunks |-> <<1, i>>]
    <3> DEFINE c   == exchange.chunks
               old == [i \in 1..c |-> <<1, i>>]
               new == [i \in 1..c + 1 |-> <<1, i>>]
    <3>1. Len(wire) = 1
      BY <2>1, <2>2
    <3>2. req.response = old /\ R = Append(old, <<1, c + 1>>)
      BY <2>1, <2>2, <3>1 DEF R
    <3>3. c \in Nat
      BY <1>3
    <3> HIDE DEF c
    <3>4. /\ old \in Seq(Nat \X Nat) /\ Len(old) = c /\ <<1, c + 1>> \in Nat \X Nat
          /\ new \in Seq(Nat \X Nat) /\ Len(new) = c + 1
      BY <3>3
    <3>5. /\ Append(old, <<1, c + 1>>) \in Seq(Nat \X Nat)
          /\ Len(Append(old, <<1, c + 1>>)) = c + 1
          /\ \A i \in 1..c : Append(old, <<1, c + 1>>)[i] = old[i]
          /\ Append(old, <<1, c + 1>>)[c + 1] = <<1, c + 1>>
      <4> HIDE DEF old
      <4> QED BY <3>4, AppendProperties
    <3>6. \A i \in 1..c + 1 : Append(old, <<1, c + 1>>)[i] = new[i]
      <4> TAKE i \in 1..c + 1
      <4>1. CASE i \in 1..c
        BY <3>3, <3>5, <4>1
      <4>2. CASE i = c + 1
        BY <3>3, <3>5, <4>2
      <4> QED BY <3>3, <4>1, <4>2
    <3>7. Append(old, <<1, c + 1>>) = new
      <4> HIDE DEF old, new
      <4> QED BY <3>4, <3>5, <3>6, SeqEqual
    <3> QED BY <1>3, <1>7, <3>2, <3>7 DEF c
  <2>3. Positions(calls', "send", 0) = Positions(calls, "send", 0)
    BY <1>1
  <2> QED BY <1>1, <1>2, <1>3, <1>7, <2>1, <2>2, <2>3, Zenon DEF FirstSendInv
<1>11. WireIsWhatWasMeant'
  BY <1>3 DEF WireIsWhatWasMeant
<1> QED BY <1>8, <1>9, <1>10, <1>11 DEF IInv

\* SendReturns preserves the invariant: a success comes after the reply's header.
LEMMA SendReturnsStep ==
    ASSUME IInv, SendReturns
    PROVE  IInv'
<1>1. PICK code \in {CURLE_OK, COULDNT_CONNECT} :
          /\ code = CURLE_OK => exchange.state = "replying"
          /\ exchange' = [exchange EXCEPT !.state = "ended", !.code = code]
  BY DEF SendReturns
<1>2. /\ exchange.state \in {"connecting", "replying"}
      /\ UNCHANGED <<curl, easy, req, mimes, owner, calls, wire>>
  BY DEF SendReturns
<1>3. /\ exchange'.state = "ended" /\ exchange'.code = code
      /\ exchange'.chunks = exchange.chunks /\ exchange'.hops = exchange.hops
  BY <1>1 DEF IInv, TypeOK
<1>4. Positions(calls, "send", 0) # {}
  BY <1>2, InProgress
<1>5. TypeOK'
  <2>1. exchange' \in [state : {"none", "connecting", "replying", "ended"},
                       code : {CURLE_OK, BAD_ARGUMENT, COULDNT_CONNECT},
                       chunks : Nat, hops : Nat]
    BY <1>1 DEF IInv, TypeOK
  <2> QED BY <1>2, <2>1, Zenon DEF IInv, TypeOK
<1>6. MembersInv' /\ CountInv' /\ MimesInv' /\ EasyInv'
  BY <1>2, AskedIsKept
<1>7. FirstSendInv'
  <2>1. ASSUME Cardinality(Positions(calls, "send", 0)) = 1
        PROVE  /\ exchange.state = "replying" =>
                      /\ Len(req.responseHeader) = exchange.hops + 1
                      /\ Last(req.responseHeader) = "reply"
               /\ curl /\ Len(wire) = IF curl THEN 1 ELSE 0
               /\ req.response = [i \in 1..exchange.chunks |-> <<1, i>>]
    BY <1>2, <2>1 DEF IInv, FirstSendInv
  <2>2. Positions(calls', "send", 0) = Positions(calls, "send", 0)
    BY <1>2
  <2> QED BY <1>1, <1>2, <1>3, <1>4, <2>1, <2>2, Zenon DEF FirstSendInv
<1>8. WireIsWhatWasMeant'
  BY <1>3 DEF WireIsWhatWasMeant
<1> QED BY <1>5, <1>6, <1>7, <1>8 DEF IInv

-----------------------------------------------------------------------------
(* The hand-over and the end *)

\* Build preserves the invariant.
LEMMA BuildStep ==
    ASSUME IInv, Build
    PROVE  IInv'
<1> USE DEF Build
<1>1. TypeOK'
  BY Zenon DEF IInv, TypeOK
<1>2. MembersInv' /\ CountInv' /\ EasyInv'
  BY Zenon DEF IInv, MembersInv, CountInv, EasyInv
<1>3. MimesInv'
  <2>1. owner # "gone" /\ owner' # "gone"
    OBVIOUS
  <2> QED BY <2>1, Zenon DEF IInv, MimesInv, OnlyReinitLeaks
<1>4. FirstSendInv'
  BY Zenon DEF IInv, FirstSendInv
<1>5. WireIsWhatWasMeant'
  BY Zenon DEF IInv, WireIsWhatWasMeant, Meant
<1> QED BY <1>1, <1>2, <1>3, <1>4, <1>5 DEF IInv

\* Destroy preserves the invariant: the mime the object knows is freed, and was the
\* last allocated.
LEMMA DestroyStep ==
    ASSUME IInv, Destroy
    PROVE  IInv'
<1> DEFINE Mimes == [parts : Seq(PartKinds), freed : BOOLEAN]
<1>1. /\ owner # "gone" /\ owner' = "gone" /\ exchange.state # "connecting"
      /\ mimes' = [m \in DOMAIN mimes |->
                      [mimes[m] EXCEPT !.freed = @ \/ m = req.m_mime]]
      /\ UNCHANGED <<curl, easy, req, exchange, calls, wire>>
  BY DEF Destroy
<1>2. mimes \in Seq(Mimes) /\ DOMAIN mimes = 1..Len(mimes) /\ Len(mimes) \in Nat
  BY DEF IInv, TypeOK
<1>3. \A m \in DOMAIN mimes : /\ mimes[m] \in Mimes /\ ~mimes[m].freed
                              /\ mimes'[m] \in Mimes
                              /\ mimes'[m].parts = mimes[m].parts
                              /\ mimes'[m].freed <=> m = Len(mimes)
  <2> TAKE m \in DOMAIN mimes
  <2>1. mimes[m] \in Mimes
    <3> HIDE DEF Mimes
    <3> QED BY <1>2, ElementOfSeq
  <2>2. ~mimes[m].freed /\ req.m_mime = Len(mimes)
    BY <1>1 DEF IInv, MimesInv
  <2>3. mimes'[m] = [mimes[m] EXCEPT !.freed = mimes[m].freed \/ m = req.m_mime]
    BY <1>1
  <2> QED BY <2>1, <2>2, <2>3
<1>4. /\ mimes' \in Seq(Mimes) /\ Len(mimes') = Len(mimes)
      /\ DOMAIN mimes' = DOMAIN mimes
  <2>1. mimes' = [m \in 1..Len(mimes) |-> mimes'[m]]
    BY <1>1, <1>2
  <2> HIDE DEF Mimes
  <2> QED BY <1>2, <1>3, <2>1
<1>5. TypeOK'
  BY <1>1, <1>4, Zenon DEF IInv, TypeOK
<1>6. MembersInv'
  <2>1. req.m_sendMultipartData => req.m_mime \in DOMAIN mimes
    BY <1>2 DEF IInv, MimesInv
  <2> QED BY <1>1, <1>3, <2>1, Zenon DEF IInv, MembersInv
<1>7. CountInv' /\ EasyInv'
  BY <1>1, Zenon DEF IInv, CountInv, EasyInv
<1>8. MimesInv'
  <2>1. OnlyReinitLeaks'
    BY <1>3, <1>4, Zenon DEF OnlyReinitLeaks
  <2> QED BY <1>1, <1>4, <2>1, Zenon DEF IInv, MimesInv
<1>9. FirstSendInv'
  BY <1>1, Zenon DEF IInv, FirstSendInv
<1>10. WireIsWhatWasMeant'
  BY <1>1 DEF WireIsWhatWasMeant
<1> QED BY <1>5, <1>6, <1>7, <1>8, <1>9, <1>10 DEF IInv

-----------------------------------------------------------------------------
(* The theorems *)

\* A step that changes nothing preserves the invariant.
LEMMA StutterStep ==
    ASSUME IInv, UNCHANGED vars
    PROVE  IInv'
<1> USE DEF vars
<1>1. TypeOK'
  BY Zenon DEF IInv, TypeOK
<1>2. MembersInv' /\ CountInv' /\ EasyInv'
  BY Zenon DEF IInv, MembersInv, CountInv, EasyInv
<1>3. MimesInv'
  BY Zenon DEF IInv, MimesInv, OnlyReinitLeaks
<1>4. FirstSendInv'
  BY Zenon DEF IInv, FirstSendInv
<1>5. WireIsWhatWasMeant'
  BY Zenon DEF IInv, WireIsWhatWasMeant, Meant
<1> QED BY <1>1, <1>2, <1>3, <1>4, <1>5 DEF IInv

\* The invariant holds in every state of every request.
THEOREM Invariance == Spec => []IInv
<1>1. Init => IInv
  BY InitIInv
<1>2. IInv /\ [Next]_vars => IInv'
  <2> SUFFICES ASSUME IInv, [Next]_vars PROVE IInv'
    OBVIOUS
  <2>1. ASSUME NEW header \in Headers, AddDataToHeader(header) PROVE IInv'
    BY <2>1, AddDataToHeaderStep
  <2>2. ASSUME NEW bytes \in Bodies, AddDataToBody(bytes) PROVE IInv'
    BY <2>2, AddDataToBodyStep
  <2>3. ASSUME NEW kind \in PartKinds, AddToFormData(kind) PROVE IInv'
    BY <2>3, AddToFormDataStep
  <2>4. CASE MultipartFormDataInit
    BY <2>4, MultipartFormDataInitStep
  <2>5. CASE Build
    BY <2>5, BuildStep
  <2>6. CASE Send
    BY <2>6, SendStep
  <2>7. CASE Redirect
    BY <2>7, RedirectStep
  <2>8. CASE ReplyHeader
    BY <2>8, ReplyHeaderStep
  <2>9. CASE ReplyChunk
    BY <2>9, ReplyChunkStep
  <2>10. CASE SendReturns
    BY <2>10, SendReturnsStep
  <2>11. CASE Destroy
    BY <2>11, DestroyStep
  <2>12. CASE UNCHANGED vars
    BY <2>12, StutterStep
  <2> QED BY <2>1, <2>2, <2>3, <2>4, <2>5, <2>6, <2>7, <2>8, <2>9, <2>10, <2>11, <2>12
          DEF Next
<1> QED BY <1>1, <1>2, PTL DEF Spec

\* Every variable keeps its type, however a request is used (HttpRequest.hpp:19-87).
THEOREM TypeCorrect == Spec => []TypeOK
<1>1. IInv => TypeOK
  BY DEF IInv
<1> QED BY <1>1, Invariance, PTL

\* For any number of calls in any order: what goes out is what they mean
\* (HttpRequest.cpp:81-117, 147-178).
THEOREM WireAsMeant == Spec => []WireIsWhatWasMeant
<1>1. IInv => WireIsWhatWasMeant
  BY DEF IInv
<1> QED BY <1>1, Invariance, PTL

\* A request that is sent once holds the pieces of that reply, however many, in
\* order, and a success is complete (HttpRequest.cpp:8-20, 99-135).
THEOREM HoldsItsReply == Spec => []HoldsTheReplyOfItsSend
<1>1. IInv => HoldsTheReplyOfItsSend
  BY DEF IInv, FirstSendInv, HoldsTheReplyOfItsSend
<1> QED BY <1>1, Invariance, PTL

\* However often MultipartFormDataInit() is called, the destructor frees the last
\* curl_mime and no other (HttpRequest.cpp:137-152).
THEOREM ReinitLeaks == Spec => []OnlyReinitLeaks
<1>1. IInv => OnlyReinitLeaks
  BY DEF IInv, MimesInv
<1> QED BY <1>1, Invariance, PTL
=============================================================================

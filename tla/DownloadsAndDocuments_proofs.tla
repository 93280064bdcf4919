-------------------- MODULE DownloadsAndDocuments_proofs --------------------
(***************************************************************************)
(* Machine-checked proofs about DownloadRequests, for every set of         *)
(* requests and paths and replies of every size: what a file holds while   *)
(* streams overlap, and what ends the process.  And about HandlerDocuments,*)
(* for documents of every size: what becomes of the text that a request or *)
(* a reply carries, of its values when they are destroyed, of a document   *)
(* under a handler's statements, and of its strings, byte by byte.         *)
(***************************************************************************)
EXTENDS DownloadRequests, HandlerDocuments, FiniteSetTheorems, SequenceTheorems, TLAPS

USE DEF ThreadPcs, PayloadKinds

Blocks == Downloads \cup {Old, Hole}

-----------------------------------------------------------------------------
(* The operators *)

\* Writing one block: the contents stay a sequence, the block is where it was
\* written, the others are where they were, and only a gap becomes holes.
LEMMA PutContents ==
    ASSUME NEW contents \in Seq(Blocks), NEW at \in Nat \ {0}, NEW d \in Downloads
    PROVE  /\ Put(contents, at, d) \in Seq(Blocks)
           /\ Len(Put(contents, at, d)) = IF at > Len(contents) THEN at ELSE Len(contents)
           /\ \A block \in DOMAIN Put(contents, at, d) :
                 \/ block = at /\ Put(contents, at, d)[block] = d
                 \/ /\ block \in DOMAIN contents
                    /\ Put(contents, at, d)[block] = contents[block]
                 \/ /\ Len(contents) < block /\ block < at
                    /\ Put(contents, at, d)[block] = Hole
<1> DEFINE n == IF at > Len(contents) THEN at ELSE Len(contents)
           put == Put(contents, at, d)
<1>1. n \in Nat
  OBVIOUS
<1>2. put = [block \in 1..n |-> IF block = at THEN d
                                ELSE IF block <= Len(contents) THEN contents[block]
                                ELSE Hole]
  BY DEF Put
<1>3. \A block \in 1..n : put[block] \in Blocks
  BY <1>2 DEF Blocks
<1>4. put \in [1..n -> Blocks]
  BY <1>2, <1>3
<1>5. put \in Seq(Blocks)
  BY <1>1, <1>4
<1>6. Len(put) = n
  BY <1>1, <1>4, <1>5
<1>7. ASSUME NEW block \in DOMAIN put
      PROVE  \/ block = at /\ put[block] = d
             \/ block \in DOMAIN contents /\ put[block] = contents[block]
             \/ Len(contents) < block /\ block < at /\ put[block] = Hole
  BY <1>1, <1>2
<1> QED BY <1>5, <1>6, <1>7

\* A finite set that is neither empty nor any one download's has several members.
LEMMA SeveralMembers ==
    ASSUME NEW S \in SUBSET Downloads, IsFiniteSet(S), S # {},
           \A d \in Downloads : S # {d}
    PROVE  Cardinality(S) > 1
<1>1. Cardinality(S) \in Nat /\ Cardinality(S) # 0
  BY FS_CardinalityType, FS_EmptySet
<1>2. Cardinality(S) # 1
  BY FS_Singleton
<1> QED BY <1>1, <1>2

-----------------------------------------------------------------------------
(* The inductive invariant *)

\* Before the first request is received nothing has been written.
LEMMA InitIInv == Init => IInv
<1> SUFFICES ASSUME Init PROVE IInv
  OBVIOUS
<1> USE DownloadAssumption DEF Init
<1>1. file \in [Paths -> Seq({Old})]
  <2>1. Size + 1 \in Nat
    OBVIOUS
  <2> QED BY <2>1
<1>2. FileInv
  BY <1>1 DEF FileInv
<1>3. TypeOK
  BY DEF TypeOK, Range
<1>4. StreamInv /\ SoleWriterInv /\ BlockInv /\ OnlyMalformedKills
  BY DEF StreamInv, SoleWriterInv, BlockInv, OnlyMalformedKills
<1>5. WritersInv
  BY FS_EmptySet DEF WritersInv, OpenOn
<1> QED BY <1>2, <1>3, <1>4, <1>5 DEF IInv

\* The steps of a thread that touch no file: nobody is added to the writers and
\* at most one stream is closed.
LEMMA QuietStepKeepsIInv ==
    ASSUME IInv, alive, NEW d \in Downloads,
           Arrive(d) \/ Parse(d) \/ SendReturns(d) \/ Close(d)
    PROVE  IInv'
<1>1. /\ UNCHANGED <<path, written, file, writers>>
      /\ payload' \in [Downloads -> PayloadKinds \cup {"none"}]
      /\ alive' \in BOOLEAN
      /\ \/ \E to \in ThreadPcs \cup {"done"} : pc' = [pc EXCEPT ![d] = to]
         \/ UNCHANGED pc
      /\ pc'[d] = "write" => pc[d] = "write"
      /\ pc'[d] \in {"unsent", "parse", "sending", "open"} =>
             pc[d] \in {"unsent", "parse", "sending", "open"}
  BY DEF IInv, TypeOK, Arrive, Parse, SendReturns, Close, Goto, Terminate
<1>2. TypeOK' /\ FileInv'
  BY <1>1 DEF IInv, TypeOK, FileInv
<1>3. StreamInv' /\ SoleWriterInv'
  <2>1. \A e \in Downloads \ {d} : pc'[e] = pc[e]
    BY <1>1 DEF IInv, TypeOK
  <2> QED BY <1>1, <2>1 DEF IInv, StreamInv, SoleWriterInv
<1>4. WritersInv'
  BY <1>1 DEF IInv, TypeOK, WritersInv, OpenOn
<1>5. BlockInv'
  BY <1>1 DEF IInv, BlockInv
<1>6. OnlyMalformedKills'
  BY DEF IInv, TypeOK, OnlyMalformedKills, Arrive, Parse, SendReturns, Close, Goto,
         Terminate
<1> QED BY <1>2, <1>3, <1>4, <1>5, <1>6 DEF IInv

\* Opening a path empties the file; who opens it while no stream is open has it
\* to himself, and who joins another stream never is its sole writer.
LEMMA OpenKeepsIInv ==
    ASSUME IInv, alive, NEW d \in Downloads, Open(d)
    PROVE  IInv'
<1>1. CASE UNCHANGED writers /\ pc'[d] # "write"
  <2>1. /\ UNCHANGED <<payload, path, written, file>>
        /\ pc' = [pc EXCEPT ![d] = "done"] \/ UNCHANGED pc
    BY <1>1 DEF Open, Goto, Terminate, IInv, TypeOK
  <2>2. TypeOK' /\ FileInv' /\ StreamInv' /\ SoleWriterInv'
    BY <1>1, <2>1 DEF IInv, TypeOK, FileInv, StreamInv, SoleWriterInv, Open, Goto,
                      Terminate
  <2>5. BlockInv'
    BY <1>1, <2>1 DEF IInv, BlockInv
  <2>3. WritersInv'
    BY <1>1, <2>1 DEF IInv, TypeOK, WritersInv, OpenOn
  <2>4. OnlyMalformedKills'
    BY <1>1, <2>1 DEF IInv, TypeOK, OnlyMalformedKills, Open, Goto, Terminate
  <2> QED BY <2>2, <2>3, <2>4, <2>5 DEF IInv
<1>2. CASE pc'[d] = "write"
  <2> DEFINE p == path[d]
             W == IF OpenOn(p) = {} THEN {d} ELSE writers[p] \cup {d}
  <2>1. /\ pc[d] = "open" /\ pc' = [pc EXCEPT ![d] = "write"]
        /\ file' = [file EXCEPT ![p] = <<>>]
        /\ writers' = [writers EXCEPT ![p] = W]
        /\ UNCHANGED <<payload, path, written, alive>>
    BY <1>2 DEF Open, Goto, Terminate, IInv, TypeOK
  <2>2. p \in Paths /\ W \in SUBSET Downloads
    BY DEF IInv, TypeOK
  <2>3. IsFiniteSet(W)
    BY <2>2, FS_AddElement, FS_EmptySet, FS_Singleton DEF IInv, WritersInv
  <2>4. FileInv' /\ StreamInv'
    BY <2>1, <2>2 DEF IInv, TypeOK, FileInv, StreamInv
  <2>5. TypeOK'
    BY <2>1, <2>2 DEF IInv, TypeOK, Range
  <2>6. WritersInv'
    <3>1. \A q \in Paths : OpenOn(q)' \subseteq OpenOn(q) \cup {d}
      BY <2>1 DEF OpenOn, IInv, TypeOK
    <3>2. \A q \in Paths \ {p} : d \notin OpenOn(q)'
      BY <2>1 DEF OpenOn
    <3> QED BY <2>1, <2>2, <2>3, <3>1, <3>2 DEF IInv, TypeOK, WritersInv
\* Nothing is written yet by d, and a path with another stream has two writers.
  <2>7. SoleWriterInv'
    <3> SUFFICES ASSUME NEW e \in Downloads,
                        pc'[e] = "write", writers'[path[e]] = {e}
                 PROVE  Len(file'[path[e]]) = written[e]
      BY <2>1 DEF SoleWriterInv
    <3>1. CASE e = d
      BY <2>1, <2>2, <3>1 DEF IInv, TypeOK, StreamInv
    <3>2. CASE e # d /\ path[e] = p
      <4>1. e \in OpenOn(p)
        BY <2>1, <3>2 DEF OpenOn, IInv, TypeOK
      <4>2. d \in writers'[p]
        BY <2>1, <2>2 DEF IInv, TypeOK
      <4> QED BY <3>2, <4>2
    <3>3. CASE path[e] # p
      BY <2>1, <2>2, <3>3 DEF IInv, TypeOK, SoleWriterInv
    <3> QED BY <3>1, <3>2, <3>3
  <2>8. BlockInv'
    <3>1. DOMAIN file'[p] = {}
      BY <2>1, <2>2 DEF IInv, FileInv
    <3>2. \A q \in Paths \ {p} : file'[q] = file[q] /\ writers'[q] = writers[q]
      BY <2>1, <2>2 DEF IInv, TypeOK, FileInv
    <3> QED BY <3>1, <3>2 DEF IInv, BlockInv
  <2>9. OnlyMalformedKills'
    BY <2>1 DEF IInv, TypeOK, OnlyMalformedKills
  <2> QED BY <2>4, <2>5, <2>6, <2>7, <2>8, <2>9 DEF IInv
<1> QED BY <1>1, <1>2 DEF Open, Goto, Terminate, IInv, TypeOK

\* Writing a block: the sole writer stands at the end and leaves no hole.
LEMMA WriteKeepsIInv ==
    ASSUME IInv, alive, NEW d \in Downloads, WriteBlock(d)
    PROVE  IInv'
<1> DEFINE p == path[d]
           at == written[d] + 1
<1>1. /\ pc[d] = "write" /\ written[d] < Size
      /\ file' = [file EXCEPT ![p] = Put(file[p], at, d)]
      /\ written' = [written EXCEPT ![d] = at]
      /\ UNCHANGED <<pc, payload, path, writers, alive>>
  BY DEF WriteBlock, Goto, IInv, TypeOK
<1>2. p \in Paths /\ at \in Nat \ {0} /\ at \in 0..Size /\ file[p] \in Seq(Blocks)
  BY <1>1, DownloadAssumption DEF IInv, TypeOK, FileInv, Blocks
<1>3. d \in writers[p]
  BY <1>1, <1>2 DEF IInv, WritersInv, OpenOn
<1>4. file'[p] = Put(file[p], at, d) /\ \A q \in Paths \ {p} : file'[q] = file[q]
  BY <1>1, <1>2 DEF IInv, TypeOK
<1>5. /\ file'[p] \in Seq(Blocks)
      /\ Len(file'[p]) = IF at > Len(file[p]) THEN at ELSE Len(file[p])
      /\ \A block \in DOMAIN file'[p] :
            \/ block = at /\ file'[p][block] = d
            \/ block \in DOMAIN file[p] /\ file'[p][block] = file[p][block]
            \/ Len(file[p]) < block /\ block < at /\ file'[p][block] = Hole
  <2> DEFINE put == Put(file[p], at, d)
  <2>1. /\ put \in Seq(Blocks)
        /\ Len(put) = IF at > Len(file[p]) THEN at ELSE Len(file[p])
        /\ \A block \in DOMAIN put :
              \/ block = at /\ put[block] = d
              \/ block \in DOMAIN file[p] /\ put[block] = file[p][block]
              \/ Len(file[p]) < block /\ block < at /\ put[block] = Hole
    <3> HIDE DEF p, at
    <3> QED BY <1>2, PutContents
  <2>2. file'[p] = put
    BY <1>4
  <2> HIDE DEF put, p, at
  <2> QED BY <2>1, <2>2
<1>6. FileInv'
  BY <1>1, <1>2, <1>5 DEF IInv, FileInv, Blocks
<1>7. TypeOK'
  <2>1. DOMAIN file' = Paths /\ \A q \in Paths : Range(file'[q]) \subseteq Blocks
    BY <1>6 DEF FileInv, Range, Blocks
  <2> QED BY <1>1, <1>2, <2>1 DEF IInv, TypeOK, Blocks
<1>8. StreamInv' /\ WritersInv' /\ OnlyMalformedKills'
  BY <1>1 DEF IInv, TypeOK, StreamInv, WritersInv, OpenOn, OnlyMalformedKills
<1>9. SoleWriterInv'
  <2> SUFFICES ASSUME NEW e \in Downloads, pc[e] = "write", writers[path[e]] = {e}
               PROVE  Len(file'[path[e]]) = written'[e]
    BY <1>1 DEF SoleWriterInv
  <2>1. Len(file[path[e]]) = written[e]
    BY DEF IInv, SoleWriterInv
  <2>2. CASE path[e] = p
    <3>1. e = d
      BY <1>3, <2>2
    <3> QED BY <1>1, <1>2, <1>5, <2>1, <3>1 DEF IInv, TypeOK
  <2>3. CASE path[e] # p
    BY <1>1, <1>4, <2>1, <2>3 DEF IInv, TypeOK
  <2> QED BY <2>2, <2>3
<1>10. BlockInv'
  <2> SUFFICES ASSUME NEW q \in Paths, writers[q] # {}, NEW block \in DOMAIN file'[q]
               PROVE  \/ file'[q][block] \in writers[q]
                      \/ /\ file'[q][block] = Hole
                         /\ \A e \in Downloads : writers[q] # {e}
    BY <1>1 DEF BlockInv
  <2>1. CASE q # p
    BY <1>4, <2>1 DEF IInv, BlockInv
  <2>2. CASE q = p
    <3>1. CASE block = at /\ file'[p][block] = d
      BY <1>3, <2>2, <3>1
    <3>2. CASE block \in DOMAIN file[p] /\ file'[p][block] = file[p][block]
      BY <2>2, <3>2 DEF IInv, BlockInv
    <3>3. CASE Len(file[p]) < block /\ block < at /\ file'[p][block] = Hole
      <4>1. Len(file[p]) # written[d]
        BY <1>2, <1>5, <2>2, <3>3
      <4>2. writers[p] # {d}
        BY <1>1, <4>1 DEF IInv, SoleWriterInv
      <4> QED BY <1>3, <2>2, <3>3, <4>2
    <3> QED BY <1>5, <2>2, <3>1, <3>2, <3>3
  <2> QED BY <2>1, <2>2
<1> QED BY <1>6, <1>7, <1>8, <1>9, <1>10 DEF IInv

\* Every step of every thread keeps the invariant.
LEMMA StepIInv == IInv /\ [Next]_vars => IInv'
<1> SUFFICES ASSUME IInv, [Next]_vars PROVE IInv'
  OBVIOUS
<1>1. CASE UNCHANGED vars
  <2>1. TypeOK' /\ FileInv' /\ StreamInv' /\ SoleWriterInv'
    BY <1>1 DEF vars, IInv, TypeOK, FileInv, StreamInv, SoleWriterInv
  <2>2. WritersInv' /\ BlockInv' /\ OnlyMalformedKills'
    BY <1>1 DEF vars, IInv, WritersInv, OpenOn, BlockInv, OnlyMalformedKills
  <2> QED BY <2>1, <2>2 DEF IInv
<1>2. CASE Next
  BY <1>2, QuietStepKeepsIInv, OpenKeepsIInv, WriteKeepsIInv DEF Next, Thread
<1> QED BY <1>1, <1>2

\* The inductive invariant holds in every reachable state.
THEOREM Invariance == Spec => []IInv
  BY InitIInv, StepIInv, PTL DEF Spec

-----------------------------------------------------------------------------
(* What follows from it *)

\* Types of the threads' locals and of the files (main.cpp:156-216).
THEOREM TypeCorrect == Spec => []TypeOK
<1>1. IInv => TypeOK
  BY DEF IInv
<1> QED BY <1>1, Invariance, PTL

\* However many downloads name one path, a file mixes only those that overlapped,
\* and one that had the path to itself leaves neither a trace of what was there
\* nor a hole (main.cpp:201-212).
THEOREM OnlyLastWriters == Spec => []ContentsFromLastWriters
<1>1. IInv => ContentsFromLastWriters
  <2> SUFFICES ASSUME IInv, NEW p \in Paths, writers[p] # {}, NEW b \in Range(file[p])
               PROVE  b \in writers[p] \cup
                             (IF Cardinality(writers[p]) > 1 THEN {Hole} ELSE {})
    BY DEF ContentsFromLastWriters
  <2>1. PICK block \in DOMAIN file[p] : b = file[p][block]
    BY DEF Range
  <2>2. CASE b \in writers[p]
    BY <2>2
  <2>3. CASE b = Hole /\ \A d \in Downloads : writers[p] # {d}
    <3>1. Cardinality(writers[p]) > 1
      BY <2>3, SeveralMembers DEF IInv, TypeOK, WritersInv
    <3> QED BY <2>3, <3>1
  <2> QED BY <2>1, <2>2, <2>3 DEF IInv, BlockInv
<1> QED BY <1>1, Invariance, PTL

\* Only a malformed request ends the process, at the point where its text, its
\* route or its path is converted (main.cpp:168-201).
THEOREM MalformedOnlyKills == Spec => []OnlyMalformedKills
<1>1. IInv => OnlyMalformedKills
  BY DEF IInv
<1> QED BY <1>1, Invariance, PTL

-----------------------------------------------------------------------------
(* destroy() *)

\* An instance has its own copy of the library's operators.
LEMMA SameCardinality == \A S : Destroy!Cardinality(S) = Cardinality(S)
  BY Zenon DEF Destroy!Cardinality, Cardinality

Values == 1..MaxValues

\* What is moved out of a value is a sequence of its members, each of them once.
LEMMA TakenSeq ==
    ASSUME NEW v \in Values, held \in [Values -> SUBSET Values]
    PROVE  /\ Destroy!Taken(v) \in Seq(Values)
           /\ \A i, j \in 1..Len(Destroy!Taken(v)) :
                 Destroy!Taken(v)[i] = Destroy!Taken(v)[j] => i = j
           /\ \A m : m \in held[v] <=>
                        \E i \in 1..Len(Destroy!Taken(v)) : Destroy!Taken(v)[i] = m
           /\ held[v] = {} => Destroy!Taken(v) = <<>>
<1> DEFINE S == held[v]
           k == Cardinality(S)
           s == Destroy!Taken(v)
<1>1. IsFiniteSet(S)
  <2>1. MaxValues \in Nat
    BY DocumentsAssumption
  <2>2. IsFiniteSet(1..MaxValues)
    BY <2>1, FS_Interval
  <2> QED  BY <2>2, FS_Subset DEF Values
<1>2. k \in Nat /\ ExistsBijection(1..k, S)
  BY <1>1, FS_CardinalityType
<1>3. PICK f \in Bijection(1..k, S) : TRUE
  BY <1>2 DEF ExistsBijection
<1>4. /\ f \in [1..k -> S]
      /\ \A a, b \in 1..k : f[a] = f[b] => a = b
  BY <1>3 DEF Bijection, Injection, Surjection, IsInjective
<1>5. f \in [1..k -> S] /\ Destroy!IsInjective(f)
  BY <1>4 DEF Destroy!IsInjective
<1>6. s = CHOOSE g \in [1..k -> S] : Destroy!IsInjective(g)
  BY SameCardinality, Zenon DEF Destroy!Taken, Destroy!SetToSeq
<1>7. s \in [1..k -> S] /\ Destroy!IsInjective(s)
  BY <1>5, <1>6, Zenon
<1>8. s \in Seq(S) /\ Len(s) = k
  <2> HIDE DEF s, k, S
  <2> QED  BY <1>2, <1>7
<1>9. \A a, b \in 1..k : s[a] = s[b] => a = b
  <2> HIDE DEF s, k
  <2> QED  BY <1>7 DEF Destroy!IsInjective
\* An injection of k positions into k members reaches all of them.
<1>10. \A m \in S : \E i \in 1..k : s[i] = m
  <2>1. s \in Injection(1..k, S)
    <3> HIDE DEF s, k, S
    <3> QED  BY <1>7, <1>9 DEF Injection, IsInjective
  <2>2. Cardinality(1..k) = k
    <3> HIDE DEF k
    <3> QED  BY <1>2, FS_Interval
  <2>3. s \in Surjection(1..k, S)
    <3> HIDE DEF s
    <3> QED  BY <1>1, <2>1, <2>2, FS_Injection
  <2> QED
    <3> HIDE DEF s, k, S
    <3> QED  BY <2>3 DEF Surjection
<1>11. S = {} => s = <<>>
  <2>1. SUFFICES ASSUME S = {} PROVE s = <<>>
    OBVIOUS
  <2>2. k = 0
    BY <2>1, FS_EmptySet
  <2> HIDE DEF s, k, S
  <2> QED  BY <2>2, <1>8, EmptySeq
<1>12. s \in Seq(Values)
  <2> HIDE DEF s
  <2> QED  BY <1>8, SeqMonotonic
<1>13. \A i \in 1..k : s[i] \in S
  <2> HIDE DEF s, k, S
  <2> QED  BY <1>7
<1>14. \A m : m \in S <=> \E i \in 1..Len(s) : s[i] = m
  <2> HIDE DEF s, k, S
  <2> QED  BY <1>8, <1>10, <1>13
<1>15. \A a, b \in 1..Len(s) : s[a] = s[b] => a = b
  <2> HIDE DEF s, k
  <2> QED  BY <1>8, <1>9
<1> QED  BY <1>11, <1>12, <1>14, <1>15, Zenon

DestroyCalls == [node : Values, flat : BOOLEAN, stack : Seq(Values)]

\* The end of a sequence, and what is before it.
LEMMA EndOfSeq ==
    ASSUME NEW S, NEW s \in Seq(S), s # <<>>
    PROVE  /\ Len(s) \in Nat \ {0}
           /\ Destroy!Last(s) = s[Len(s)] /\ s[Len(s)] \in S
           /\ Destroy!Front(s) \in Seq(S)
           /\ Len(Destroy!Front(s)) = Len(s) - 1
           /\ \A i \in 1..(Len(s) - 1) : Destroy!Front(s)[i] = s[i]
<1>1. Len(s) \in Nat \ {0} /\ s[Len(s)] \in S
  BY EmptySeq, ElementOfSeq
<1>2. \A i \in 1..(Len(s) - 1) : s[i] \in S
  BY <1>1, ElementOfSeq
<1>3. /\ SubSeq(s, 1, Len(s) - 1) \in Seq(S)
      /\ Len(SubSeq(s, 1, Len(s) - 1)) = Len(s) - 1
      /\ \A i \in 1..(Len(s) - 1) : SubSeq(s, 1, Len(s) - 1)[i] = s[i]
  <2> DEFINE m == Len(s) - 1
  <2>1. m \in Int /\ \A i \in 1..m : s[i] \in S
    BY <1>1, <1>2
  <2> HIDE DEF m
  <2>2. /\ SubSeq(s, 1, m) \in Seq(S)
        /\ Len(SubSeq(s, 1, m)) = IF 1 <= m THEN m - 1 + 1 ELSE 0
        /\ \A i \in 1..(m - 1 + 1) : SubSeq(s, 1, m)[i] = s[1 + i - 1]
    BY <2>1, SubSeqProperties
  <2>3. m = Len(s) - 1 /\ m \in Nat
    BY <1>1 DEF m
  <2>4. m - 1 + 1 = m
    BY <2>3
  <2>5. ASSUME NEW i \in 1..m PROVE SubSeq(s, 1, m)[i] = s[i]
    <3>1. 1 + i - 1 = i
      OBVIOUS
    <3> QED  BY <2>2, <2>4, <3>1
  <2>6. Len(SubSeq(s, 1, m)) = m
    BY <2>2, <2>3
  <2> QED  BY <2>2, <2>3, <2>5, <2>6 DEF m
<1> QED  BY <1>1, <1>3 DEF Destroy!Last, Destroy!Front

\* The innermost call, and what becomes of the calls when it changes or returns.
LEMMA TopCall ==
    ASSUME calls \in Seq(DestroyCalls), calls # <<>>, NEW call \in DestroyCalls
    PROVE  /\ Len(calls) \in Nat \ {0}
           /\ Destroy!Top = calls[Len(calls)] /\ Destroy!Top \in DestroyCalls
           /\ Destroy!SetTop(call) \in Seq(DestroyCalls)
           /\ Len(Destroy!SetTop(call)) = Len(calls)
           /\ Destroy!SetTop(call)[Len(calls)] = call
           /\ \A i \in 1..(Len(calls) - 1) : Destroy!SetTop(call)[i] = calls[i]
<1> DEFINE front == Destroy!Front(calls)
<1>1. /\ Len(calls) \in Nat \ {0} /\ Destroy!Top = calls[Len(calls)]
      /\ calls[Len(calls)] \in DestroyCalls
      /\ front \in Seq(DestroyCalls) /\ Len(front) = Len(calls) - 1
      /\ \A i \in 1..(Len(calls) - 1) : front[i] = calls[i]
  BY EndOfSeq DEF Destroy!Top
<1>2. Destroy!SetTop(call) = Append(front, call)
  BY DEF Destroy!SetTop
<1> HIDE DEF front
<1>3. /\ Append(front, call) \in Seq(DestroyCalls)
      /\ Len(Append(front, call)) = Len(front) + 1
      /\ \A i \in 1..Len(front) : Append(front, call)[i] = front[i]
      /\ Append(front, call)[Len(front) + 1] = call
  BY <1>1, AppendProperties
<1> QED  BY <1>1, <1>2, <1>3

\* What the invariant says of the types, call by call.
LEMMA DestroyTypes ==
    ASSUME Destroy!TypeOK
    PROVE  /\ held \in [Values -> SUBSET Values]
           /\ calls \in Seq(DestroyCalls) /\ Len(calls) \in Nat
           /\ freed \in [Values -> 0..1]
           /\ calls = <<>> <=> Len(calls) = 0
           /\ \A c \in 1..Len(calls) : calls[c] \in DestroyCalls
           /\ Destroy!Stack \in Seq(Values)
<1>1. /\ held \in [Values -> SUBSET Values]
      /\ calls \in Seq(DestroyCalls)
      /\ freed \in [Values -> 0..1]
  BY Zenon DEF Destroy!TypeOK, Destroy!Nodes, DestroyCalls, Values
<1>2. Len(calls) \in Nat /\ (calls = <<>> <=> Len(calls) = 0)
  BY <1>1, EmptySeq, LenProperties
<1>3. \A c \in 1..Len(calls) : calls[c] \in DestroyCalls
  BY <1>1, ElementOfSeq
<1>4. Destroy!Stack \in Seq(Values)
  <2>1. CASE calls = <<>>
    BY <2>1, EmptySeq DEF Destroy!Stack
  <2>2. CASE calls # <<>>
    BY <1>2, <1>3, <2>2 DEF Destroy!Stack, DestroyCalls
  <2> QED  BY <2>1, <2>2
<1> QED  BY <1>1, <1>2, <1>3, <1>4

\* A document that is about to be destroyed: every value has one place.
LEMMA DestroyInit ==
    ASSUME Destroy!Init
    PROVE  Destroy!IInv
<1> USE DEF Values
<1>1. PICK parent \in [2..MaxValues -> 1..MaxValues] :
         /\ \A v \in 2..MaxValues : parent[v] < v
         /\ held = [v \in Values |-> {m \in 2..MaxValues : parent[m] = v}]
  BY DEF Destroy!Init, Destroy!Nodes
<1>2. /\ calls = <<Destroy!Call(1)>>
      /\ freed = [v \in Values |-> 0]
  BY DEF Destroy!Init, Destroy!Nodes
<1>3. MaxValues \in Nat /\ 1 \in Values
  BY DocumentsAssumption
<1>4. Destroy!Call(1) \in DestroyCalls
  BY <1>3 DEF Destroy!Call, DestroyCalls
<1>5. /\ calls \in Seq(DestroyCalls) /\ Len(calls) = 1
      /\ calls[1].node = 1 /\ ~calls[1].flat /\ calls[1].stack = <<>>
  BY <1>2, <1>4 DEF Destroy!Call
<1>6. held \in [Values -> SUBSET Values] /\ freed \in [Values -> 0..1]
  BY <1>1, <1>2, <1>3
<1>7. Destroy!TypeOK
  BY <1>5, <1>6, Zenon DEF Destroy!TypeOK, Destroy!Nodes, DestroyCalls
<1>8. Destroy!Stack = <<>> /\ Len(Destroy!Stack) = 0
  BY <1>5 DEF Destroy!Stack
<1>9. \A m, v \in Values : v \in held[m] <=> v # 1 /\ parent[v] = m
  BY <1>1, <1>3
<1>10. \A v \in Values : freed[v] = 0
  BY <1>2
<1>11. Destroy!CallInv
  BY <1>5, <1>10 DEF Destroy!CallInv, Destroy!RecursionBounded, Destroy!Nodes
<1>12. Destroy!PlaceInv
  BY <1>3, <1>5, <1>8, <1>9, <1>10 DEF Destroy!PlaceInv, Destroy!Nodes
<1>13. Destroy!NoneForgotten
  <2>1. ASSUME NEW v \in Values PROVE v = 1 \/ \E m \in Values : v \in held[m]
    <3>1. CASE v # 1
      <4>1. parent[v] \in Values
        BY <1>3, <3>1
      <4> QED  BY <1>9, <3>1, <4>1
    <3> QED  BY <3>1
  <2> QED  BY <1>5, <2>1 DEF Destroy!NoneForgotten, Destroy!Nodes
<1> QED  BY <1>7, <1>11, <1>12, <1>13 DEF Destroy!IInv

\* The first round of the loop: the members of the call's value go to its stack.
LEMMA FlattenStep ==
    ASSUME Destroy!IInv, Destroy!Flatten
    PROVE  Destroy!IInv'
<1> DEFINE n == Len(calls)
           v == calls[n].node
           s == Destroy!Taken(v)
           call == [node |-> v, flat |-> TRUE, stack |-> s]
<1>1. /\ Destroy!TypeOK /\ Destroy!CallInv /\ Destroy!PlaceInv /\ Destroy!NoneForgotten
      /\ calls # <<>>
  BY DEF Destroy!IInv, Destroy!Flatten
<1>2. /\ held \in [Values -> SUBSET Values] /\ freed \in [Values -> 0..1]
      /\ calls \in Seq(DestroyCalls) /\ n \in Nat \ {0}
      /\ \A c \in 1..n : calls[c] \in DestroyCalls
      /\ Destroy!Stack \in Seq(Values)
  BY <1>1, DestroyTypes
<1>3. n \in 1..2
  <2>1. Len(calls) <= 2
    BY <1>1, Zenon DEF Destroy!CallInv, Destroy!RecursionBounded
  <2>2. Len(calls) \in Nat \ {0}
    BY <1>2
  <2>3. \A k \in Nat \ {0} : k <= 2 => k \in 1..2
    OBVIOUS
  <2> QED  BY <2>1, <2>2, <2>3, Zenon
<1>4. Destroy!Top = calls[n] /\ calls[n] \in DestroyCalls
  BY <1>1, <1>2, EndOfSeq DEF Destroy!Top
<1>5. v \in Values /\ ~calls[n].flat
  BY <1>4 DEF DestroyCalls, Destroy!Flatten
<1>6. /\ s \in Seq(Values)
      /\ \A i, j \in 1..Len(s) : s[i] = s[j] => i = j
      /\ \A m : m \in held[v] <=> \E i \in 1..Len(s) : s[i] = m
      /\ held[v] = {} => s = <<>>
  <2> HIDE DEF v
  <2> QED  BY <1>2, <1>5, TakenSeq, Zenon
<1> HIDE DEF s
<1>7. call = [node |-> v, flat |-> TRUE, stack |-> s] /\ call \in DestroyCalls
  BY <1>5, <1>6 DEF DestroyCalls
<1>8. calls' = Destroy!SetTop(call) /\ held' = [held EXCEPT ![v] = {}] /\ freed' = freed
  BY <1>4 DEF Destroy!Flatten, s
<1> HIDE DEF call
<1>9. /\ calls' \in Seq(DestroyCalls) /\ Len(calls') = n /\ calls'[n] = call
      /\ \A c \in 1..(n - 1) : calls'[c] = calls[c]
  BY <1>1, <1>2, <1>7, <1>8, TopCall
<1> HIDE DEF n, v
<1>10. held' \in [Values -> SUBSET Values] /\ \A m \in Values : held'[m] = IF m = v THEN {} ELSE held[m]
  BY <1>2, <1>5, <1>8
<1>11. Destroy!TypeOK'
  BY <1>2, <1>8, <1>9, <1>10, Zenon DEF Destroy!TypeOK, Destroy!Nodes, DestroyCalls, Values
<1>12. \A c \in 1..n : calls'[c].node = calls[c].node
  BY <1>3, <1>7, <1>9 DEF v
<1>13. n = 2 => s = <<>> /\ held[v] = {} /\ calls'[1].flat /\ calls[1].flat
  BY <1>1, <1>3, <1>6, <1>9 DEF Destroy!CallInv, v, n
<1>14. n = 1 => calls[1].stack = <<>> /\ Destroy!Stack = <<>>
  BY <1>1, <1>3, <1>5 DEF Destroy!CallInv, Destroy!Stack, n
<1>15. Destroy!Stack' = IF n = 1 THEN s ELSE Destroy!Stack
  <2>1. calls' # <<>>
    BY <1>3, <1>9
  <2> QED  BY <1>1, <1>3, <1>7, <1>9, <2>1 DEF Destroy!Stack
<1>16. Destroy!CallInv'
  <2>1. ASSUME NEW c \in 1..n
        PROVE  /\ ~calls'[c].flat \/ c > 1 => calls'[c].stack = <<>>
               /\ calls'[c].flat \/ c > 1 => held'[calls'[c].node] = {}
    <3>1. calls[c].node \in Values
      BY <1>2 DEF DestroyCalls
    <3>2. CASE c = n
      BY <1>3, <1>5, <1>7, <1>9, <1>10, <1>13, <3>2
    <3>3. CASE c # n
      <4>1. c = 1 /\ n = 2 /\ calls'[c] = calls[c]
        BY <1>3, <1>9, <3>3
      <4>2. calls[c].flat => held[calls[c].node] = {}
        BY <1>1 DEF Destroy!CallInv, n
      <4>3. ~calls[c].flat => calls[c].stack = <<>>
        BY <1>1 DEF Destroy!CallInv, n
      <4> QED  BY <1>10, <3>1, <4>1, <4>2, <4>3
    <3> QED  BY <3>2, <3>3
  <2>2. \A x \in Values : freed'[x] = 1 => held'[x] = {}
    BY <1>1, <1>8, <1>10 DEF Destroy!CallInv, Destroy!Nodes, Values
  <2> QED  BY <1>3, <1>9, <1>13, <2>1, <2>2 DEF Destroy!CallInv, Destroy!RecursionBounded, Destroy!Nodes, Values
<1>17. Destroy!PlaceInv'
  <2>1. \A m, x \in Values : x \in held'[m] => m # v /\ x \in held[m]
    BY <1>10
  <2>2. /\ \A m1, m2, x \in Values : x \in held'[m1] /\ x \in held'[m2] => m1 = m2
        /\ \A m, x \in Values : x \in held'[m] => freed'[x] = 0
    BY <1>1, <1>8, <2>1 DEF Destroy!PlaceInv, Destroy!Nodes, Values
  <2>3. ASSUME NEW i \in 1..Len(Destroy!Stack')
        PROVE  /\ freed'[Destroy!Stack'[i]] = 0
               /\ \A m \in Values : Destroy!Stack'[i] \notin held'[m]
               /\ \A j \in 1..Len(Destroy!Stack') : Destroy!Stack'[i] = Destroy!Stack'[j] => i = j
               /\ \A c \in 1..n : Destroy!Stack'[i] # calls'[c].node
    <3>1. CASE n = 1
      <4>1. Destroy!Stack' = s /\ s[i] \in held[v] /\ s[i] \in Values
        BY <1>2, <1>5, <1>6, <1>15, <3>1
      <4>2. freed[s[i]] = 0 /\ \A m \in Values : s[i] \in held[m] => m = v
        BY <1>1, <1>5, <4>1 DEF Destroy!PlaceInv, Destroy!Nodes, Values
      <4>3. v \notin held[v]
        BY <1>1, <1>2, <1>5 DEF Destroy!PlaceInv, Destroy!Nodes, Values, n, v
      <4>4. \A c \in 1..n : calls'[c].node = v
        BY <1>12, <3>1 DEF v
      <4> QED  BY <1>6, <1>8, <2>1, <4>1, <4>2, <4>3, <4>4, <3>1
    <3>2. CASE n = 2
      <4>1. Destroy!Stack' = Destroy!Stack
        BY <1>15, <3>2
      <4>2. Destroy!Stack[i] \in Values
        BY <1>2, <4>1, ElementOfSeq
      <4>3. /\ freed[Destroy!Stack[i]] = 0
            /\ \A m \in Values : Destroy!Stack[i] \notin held[m]
            /\ \A j \in 1..Len(Destroy!Stack) : Destroy!Stack[i] = Destroy!Stack[j] => i = j
            /\ \A c \in 1..n : Destroy!Stack[i] # calls[c].node
        BY <1>1, <4>1 DEF Destroy!PlaceInv, Destroy!Nodes, Values, n
      <4> QED  BY <1>8, <1>12, <2>1, <4>1, <4>2, <4>3
    <3> QED  BY <1>3, <3>1, <3>2
  <2>4. ASSUME NEW c \in 1..n
        PROVE  /\ freed'[calls'[c].node] = 0
               /\ \A m \in Values : calls'[c].node \notin held'[m]
               /\ \A d \in 1..n : calls'[c].node = calls'[d].node => c = d
    <3>1. calls[c].node \in Values
      BY <1>2 DEF DestroyCalls
    <3>2. /\ freed[calls[c].node] = 0
          /\ \A m \in Values : calls[c].node \notin held[m]
          /\ \A d \in 1..n : calls[c].node = calls[d].node => c = d
      BY <1>1 DEF Destroy!PlaceInv, Destroy!Nodes, Values, n
    <3> QED  BY <1>8, <1>12, <2>1, <3>1, <3>2
  <2> QED  BY <1>9, <2>2, <2>3, <2>4 DEF Destroy!PlaceInv, Destroy!Nodes, Values
<1>18. Destroy!NoneForgotten'
  <2>1. ASSUME NEW x \in Values
        PROVE  \/ freed'[x] = 1
               \/ \E m \in Values : x \in held'[m]
               \/ \E c \in 1..n : calls'[c].node = x
               \/ \E i \in 1..Len(Destroy!Stack') : Destroy!Stack'[i] = x
    <3>1. \/ freed[x] = 1
          \/ \E m \in Values : x \in held[m]
          \/ \E c \in 1..n : calls[c].node = x
          \/ \E i \in 1..Len(Destroy!Stack) : Destroy!Stack[i] = x
      BY <1>1 DEF Destroy!NoneForgotten, Destroy!Nodes, Values, n
    <3>2. ASSUME NEW m \in Values, x \in held[m]
          PROVE  (\E k \in Values : x \in held'[k]) \/ \E i \in 1..Len(Destroy!Stack') : Destroy!Stack'[i] = x
      BY <1>3, <1>6, <1>10, <1>13, <1>15, <3>2
    <3>3. ASSUME NEW i \in 1..Len(Destroy!Stack), Destroy!Stack[i] = x
          PROVE  Destroy!Stack' = Destroy!Stack
      BY <1>3, <1>14, <1>15, <3>3
    <3> QED  BY <1>8, <1>12, <3>1, <3>2, <3>3
  <2> QED  BY <1>9, <2>1 DEF Destroy!NoneForgotten, Destroy!Nodes, Values
<1> QED  BY <1>11, <1>16, <1>17, <1>18 DEF Destroy!IInv

\* A second element.
LEMMA AppendSecond ==
    ASSUME NEW S, NEW s \in Seq(S), Len(s) = 1, NEW e \in S
    PROVE  /\ Append(s, e) \in Seq(S) /\ Append(s, e) # <<>>
           /\ Len(Append(s, e)) = 2
           /\ Append(s, e)[1] = s[1] /\ Append(s, e)[2] = e
<1>1. /\ Append(s, e) \in Seq(S)
      /\ Append(s, e) # <<>>
      /\ Len(Append(s, e)) = Len(s) + 1
      /\ \A i \in 1..Len(s) : Append(s, e)[i] = s[i]
      /\ Append(s, e)[Len(s) + 1] = e
  BY AppendProperties, Zenon
<1> QED  BY <1>1

\* A further round: the members of the last item take its place on the stack, and
\* the item's own destructor is called.
LEMMA DestroyItemStep ==
    ASSUME Destroy!IInv, Destroy!DestroyItem
    PROVE  Destroy!IInv'
<1> DEFINE st == calls[1].stack
           item == st[Len(st)]
           s == Destroy!Taken(item)
           front == Destroy!Front(st)
           call == [calls[1] EXCEPT !.stack = front \o s]
<1>1. /\ Destroy!TypeOK /\ Destroy!CallInv /\ Destroy!PlaceInv /\ Destroy!NoneForgotten
      /\ calls # <<>>
  BY DEF Destroy!IInv, Destroy!DestroyItem
<1>2. /\ held \in [Values -> SUBSET Values] /\ freed \in [Values -> 0..1]
      /\ calls \in Seq(DestroyCalls) /\ Len(calls) \in Nat \ {0}
      /\ \A c \in 1..Len(calls) : calls[c] \in DestroyCalls
      /\ Destroy!Stack \in Seq(Values)
  BY <1>1, DestroyTypes
<1>3. Destroy!Top = calls[Len(calls)]
  BY <1>1, <1>2, EndOfSeq DEF Destroy!Top
\* Only the first call has items.
<1>4. Len(calls) = 1
  <2>1. calls[Len(calls)].stack # <<>>
    BY <1>3 DEF Destroy!DestroyItem
  <2>2. \A c \in 1..Len(calls) : c > 1 => calls[c].stack = <<>>
    BY <1>1 DEF Destroy!CallInv
  <2>3. Len(calls) \in 1..Len(calls) /\ ~(Len(calls) > 1)
    BY <1>2, <2>1, <2>2
  <2>4. \A c \in Nat \ {0} : ~(c > 1) => c = 1
    OBVIOUS
  <2> QED  BY <1>2, <2>3, <2>4, Zenon
<1>5. /\ st \in Seq(Values) /\ st # <<>> /\ calls[1].flat /\ calls[1].node \in Values
      /\ Destroy!Stack = st /\ calls[1] \in DestroyCalls
  BY <1>1, <1>2, <1>3, <1>4 DEF Destroy!DestroyItem, Destroy!Stack, DestroyCalls
<1> HIDE DEF st
<1>6. /\ Len(st) \in Nat \ {0} /\ Destroy!Last(st) = item /\ item \in Values
      /\ front \in Seq(Values) /\ Len(front) = Len(st) - 1
      /\ \A i \in 1..(Len(st) - 1) : front[i] = st[i]
  BY <1>5, EndOfSeq
<1> HIDE DEF item, front
<1>7. /\ s \in Seq(Values)
      /\ \A i, j \in 1..Len(s) : s[i] = s[j] => i = j
      /\ \A m : m \in held[item] <=> \E i \in 1..Len(s) : s[i] = m
  BY <1>2, <1>6, TakenSeq, Zenon
<1> HIDE DEF s
<1>8. /\ front \o s \in Seq(Values)
      /\ Len(front \o s) = Len(st) - 1 + Len(s) /\ Len(s) \in Nat
      /\ \A i \in 1..(Len(st) - 1 + Len(s)) :
            (front \o s)[i] = IF i <= Len(st) - 1 THEN st[i] ELSE s[i - (Len(st) - 1)]
  <2>1. /\ front \o s \in Seq(Values)
        /\ Len(front \o s) = Len(front) + Len(s) /\ Len(s) \in Nat
        /\ \A i \in 1..(Len(front) + Len(s)) :
              (front \o s)[i] = IF i <= Len(front) THEN front[i] ELSE s[i - Len(front)]
    <3>1. Len(s) \in Nat
      BY <1>7, LenProperties
    <3>2. front \in Seq(Values) /\ s \in Seq(Values)
      BY <1>6, <1>7
    <3>3. /\ front \o s \in Seq(Values)
          /\ Len(front \o s) = Len(front) + Len(s)
          /\ \A i \in 1..(Len(front) + Len(s)) :
                (front \o s)[i] = IF i <= Len(front) THEN front[i] ELSE s[i - Len(front)]
      BY <3>2, ConcatProperties
    <3> QED  BY <3>1, <3>3
  <2> QED  BY <1>6, <2>1
<1>9. call \in DestroyCalls /\ call.stack = front \o s /\ call.flat /\ call.node = calls[1].node
  BY <1>5, <1>8 DEF DestroyCalls
<1>10. /\ calls' = Append(Destroy!SetTop(call), Destroy!Call(item))
       /\ held' = [held EXCEPT ![item] = {}] /\ freed' = freed
  <2>1. calls[Len(calls)] = calls[1]
    BY <1>4
  <2> QED  BY <1>3, <1>6, <2>1 DEF Destroy!DestroyItem, s, st, front
<1>11. Destroy!Call(item) = [node |-> item, flat |-> FALSE, stack |-> <<>>]
       /\ Destroy!Call(item) \in DestroyCalls
  BY <1>6 DEF Destroy!Call, DestroyCalls
<1> HIDE DEF call
<1>12. /\ calls' \in Seq(DestroyCalls) /\ Len(calls') = 2 /\ calls' # <<>>
       /\ calls'[1] = call /\ calls'[2] = Destroy!Call(item)
  <2> DEFINE set  == Destroy!SetTop(call)
             next == Destroy!Call(item)
  <2>1. set \in Seq(DestroyCalls) /\ Len(set) = 1 /\ set[1] = call
    BY <1>1, <1>2, <1>4, <1>9, TopCall
  <2>2. next \in DestroyCalls
    BY <1>11
  <2> HIDE DEF set, next
  <2>3. /\ Append(set, next) \in Seq(DestroyCalls) /\ Append(set, next) # <<>>
        /\ Len(Append(set, next)) = 2
        /\ Append(set, next)[1] = set[1] /\ Append(set, next)[2] = next
    BY <2>1, <2>2, AppendSecond
  <2> QED  BY <1>10, <2>1, <2>3 DEF set, next
<1> DEFINE k == Destroy!Stack'
<1>13. k = front \o s
  BY <1>9, <1>12 DEF Destroy!Stack
<1>14. held' \in [Values -> SUBSET Values]
       /\ \A m \in Values : held'[m] = IF m = item THEN {} ELSE held[m]
  BY <1>2, <1>6, <1>10
<1>15. Destroy!TypeOK'
  BY <1>2, <1>10, <1>12, <1>14, Zenon DEF Destroy!TypeOK, Destroy!Nodes, DestroyCalls, Values
<1>16. /\ calls'[1].node = calls[1].node /\ calls'[1].flat
       /\ calls'[2].node = item /\ ~calls'[2].flat /\ calls'[2].stack = <<>>
  BY <1>9, <1>11, <1>12
<1>17. calls[1].node # item
  BY <1>1, <1>4, <1>5, <1>6 DEF Destroy!PlaceInv, item
<1>18. Destroy!CallInv'
  <2>1. held[calls[1].node] = {}
    BY <1>1, <1>4, <1>5 DEF Destroy!CallInv
  <2>2. held'[calls[1].node] = {} /\ held'[item] = {}
    BY <1>5, <1>6, <1>14, <2>1
  <2>3. \A x \in Values : freed'[x] = 1 => held'[x] = {}
    BY <1>1, <1>10, <1>14 DEF Destroy!CallInv, Destroy!Nodes, Values
  <2> QED  BY <1>12, <1>16, <2>2, <2>3 DEF Destroy!CallInv, Destroy!RecursionBounded, Destroy!Nodes, Values
<1>19. \A m, x \in Values : x \in held'[m] => m # item /\ x \in held[m]
  BY <1>14
\* What the stack holds was on it or was in the item.
<1>20. \A i \in 1..Len(k) :
          \/ i \in 1..(Len(st) - 1) /\ k[i] = st[i]
          \/ /\ i > Len(st) - 1 /\ i - (Len(st) - 1) \in 1..Len(s)
             /\ k[i] = s[i - (Len(st) - 1)]
  BY <1>6, <1>8, <1>13
<1> HIDE DEF k
<1>21. /\ \A i \in 1..Len(st) :
             /\ freed[st[i]] = 0 /\ st[i] # calls[1].node
             /\ \A m \in Values : st[i] \notin held[m]
             /\ \A j \in 1..Len(st) : st[i] = st[j] => i = j
       /\ \A m1, m2, x \in Values : x \in held[m1] /\ x \in held[m2] => m1 = m2
       /\ \A m, x \in Values : x \in held[m] => freed[x] = 0
       /\ freed[calls[1].node] = 0
       /\ \A m \in Values : calls[1].node \notin held[m]
  BY <1>1, <1>4, <1>5 DEF Destroy!PlaceInv, Destroy!Nodes, Values
<1>22. \A i \in 1..Len(s) : s[i] \in held[item] /\ s[i] \in Values
  BY <1>2, <1>6, <1>7
<1>23. \A i \in 1..(Len(st) - 1) : st[i] \in Values /\ st[i] # item /\ i \in 1..Len(st)
  <2>1. ASSUME NEW i \in 1..(Len(st) - 1)
        PROVE  st[i] \in Values /\ st[i] # st[Len(st)] /\ i \in 1..Len(st)
    <3>1. i \in 1..Len(st) /\ Len(st) \in 1..Len(st) /\ i # Len(st)
      BY <1>6
    <3> QED  BY <1>5, <1>21, <3>1, ElementOfSeq
  <2> QED  BY <2>1 DEF item
<1>24. freed[item] = 0 /\ \A m \in Values : item \notin held[m]
  BY <1>6, <1>21 DEF item
<1>25. Destroy!PlaceInv'
  <2>1. /\ \A m1, m2, x \in Values : x \in held'[m1] /\ x \in held'[m2] => m1 = m2
        /\ \A m, x \in Values : x \in held'[m] => freed'[x] = 0
    BY <1>10, <1>19, <1>21
  <2>2. ASSUME NEW i \in 1..Len(k)
        PROVE  /\ freed'[k[i]] = 0
               /\ \A m \in Values : k[i] \notin held'[m]
               /\ k[i] # calls[1].node /\ k[i] # item
    <3>1. CASE i \in 1..(Len(st) - 1) /\ k[i] = st[i]
      BY <1>10, <1>19, <1>21, <1>23, <3>1
    <3>2. CASE i - (Len(st) - 1) \in 1..Len(s) /\ k[i] = s[i - (Len(st) - 1)]
      <4>1. k[i] \in held[item] /\ k[i] \in Values
        BY <1>22, <3>2
      <4> QED  BY <1>5, <1>6, <1>10, <1>19, <1>21, <1>24, <4>1
    <3> QED  BY <1>20, <3>1, <3>2
  <2>5. ASSUME NEW i \in 1..(Len(st) - 1), NEW h \in 1..Len(s) PROVE st[i] # s[h]
    <3>1. s[h] \in held[item] /\ st[i] \notin held[item]
      BY <1>6, <1>21, <1>22, <1>23
    <3> QED  BY <3>1
  <2>3. ASSUME NEW i \in 1..Len(k), NEW j \in 1..Len(k), k[i] = k[j] PROVE i = j
    <3>1. CASE i \in 1..(Len(st) - 1) /\ k[i] = st[i] /\ j \in 1..(Len(st) - 1) /\ k[j] = st[j]
      <4>1. i \in 1..Len(st) /\ j \in 1..Len(st) /\ st[i] = st[j]
        BY <1>23, <2>3, <3>1
      <4>2. \A h \in 1..Len(st) : st[i] = st[h] => i = h
        BY <1>21, <4>1
      <4> QED  BY <4>1, <4>2
    <3>2. CASE i \in 1..(Len(st) - 1) /\ k[i] = st[i] /\ j - (Len(st) - 1) \in 1..Len(s)
               /\ k[j] = s[j - (Len(st) - 1)]
      BY <2>3, <2>5, <3>2
    <3>3. CASE j \in 1..(Len(st) - 1) /\ k[j] = st[j] /\ i - (Len(st) - 1) \in 1..Len(s)
               /\ k[i] = s[i - (Len(st) - 1)]
      BY <2>3, <2>5, <3>3
    <3>4. CASE /\ i - (Len(st) - 1) \in 1..Len(s) /\ k[i] = s[i - (Len(st) - 1)]
               /\ j - (Len(st) - 1) \in 1..Len(s) /\ k[j] = s[j - (Len(st) - 1)]
      <4>1. i - (Len(st) - 1) = j - (Len(st) - 1)
        BY <1>7, <2>3, <3>4
      <4>2. i \in Int /\ j \in Int /\ Len(st) \in Int
        BY <1>6
      <4> QED  BY <4>1, <4>2
    <3> QED  BY <1>20, <3>1, <3>2, <3>3, <3>4
  <2>4. /\ freed'[calls[1].node] = 0 /\ \A m \in Values : calls[1].node \notin held'[m]
        /\ freed'[item] = 0 /\ \A m \in Values : item \notin held'[m]
    BY <1>5, <1>6, <1>10, <1>19, <1>21, <1>24
  <2> QED  BY <1>12, <1>16, <1>17, <2>1, <2>2, <2>3, <2>4
           DEF Destroy!PlaceInv, Destroy!Nodes, Values, k
<1>26. Destroy!NoneForgotten'
  <2>1. ASSUME NEW i \in 1..(Len(st) - 1) PROVE \E j \in 1..Len(k) : k[j] = st[i]
    <3>1. i \in 1..Len(k) /\ k[i] = st[i]
      BY <1>6, <1>8, <1>13
    <3> QED  BY <3>1
  <2>2. ASSUME NEW i \in 1..Len(s) PROVE \E j \in 1..Len(k) : k[j] = s[i]
    <3>1. /\ Len(st) - 1 + i \in 1..Len(k) /\ ~(Len(st) - 1 + i <= Len(st) - 1)
          /\ Len(st) - 1 + i - (Len(st) - 1) = i
      BY <1>6, <1>8, <1>13
    <3>2. k[Len(st) - 1 + i] = s[i]
      BY <1>8, <1>13, <3>1
    <3> QED  BY <3>1, <3>2
  <2>3. ASSUME NEW x \in Values
        PROVE  \/ freed'[x] = 1
               \/ \E m \in Values : x \in held'[m]
               \/ \E c \in 1..2 : calls'[c].node = x
               \/ \E i \in 1..Len(k) : k[i] = x
    <3>1. \/ freed[x] = 1
          \/ \E m \in Values : x \in held[m]
          \/ calls[1].node = x
          \/ \E i \in 1..Len(st) : st[i] = x
      BY <1>1, <1>4, <1>5 DEF Destroy!NoneForgotten, Destroy!Nodes, Values
    <3>2. ASSUME NEW m \in Values, x \in held[m]
          PROVE  (\E j \in Values : x \in held'[j]) \/ \E i \in 1..Len(k) : k[i] = x
      <4>1. CASE m = item
        BY <1>7, <2>2, <3>2, <4>1
      <4>2. CASE m # item
        BY <1>14, <3>2, <4>2
      <4> QED  BY <4>1, <4>2
    <3>3. ASSUME NEW i \in 1..Len(st), st[i] = x
          PROVE  x = item \/ \E j \in 1..Len(k) : k[j] = x
      <4>1. CASE i = Len(st)
        BY <3>3, <4>1 DEF item
      <4>2. CASE i # Len(st)
        BY <1>6, <2>1, <3>3, <4>2
      <4> QED  BY <4>1, <4>2
    <3>4. calls[1].node = x => \E c \in 1..2 : calls'[c].node = x
      BY <1>16
    <3>5. x = item => \E c \in 1..2 : calls'[c].node = x
      BY <1>16
    <3>6. freed[x] = 1 => freed'[x] = 1
      BY <1>10
    <3> QED  BY <3>1, <3>2, <3>3, <3>4, <3>5, <3>6, Zenon
  <2> QED  BY <1>12, <2>3 DEF Destroy!NoneForgotten, Destroy!Nodes, Values, k
<1> QED  BY <1>15, <1>18, <1>25, <1>26 DEF Destroy!IInv

\* The switch after the loop.
LEMMA FreeStep ==
    ASSUME Destroy!IInv, Destroy!Free
    PROVE  Destroy!IInv'
<1> DEFINE n == Len(calls)
           v == calls[n].node
<1>1. /\ Destroy!TypeOK /\ Destroy!CallInv /\ Destroy!PlaceInv /\ Destroy!NoneForgotten
      /\ calls # <<>>
  BY DEF Destroy!IInv, Destroy!Free
<1>2. /\ held \in [Values -> SUBSET Values] /\ freed \in [Values -> 0..1]
      /\ calls \in Seq(DestroyCalls) /\ n \in Nat \ {0}
      /\ \A c \in 1..n : calls[c] \in DestroyCalls
      /\ Destroy!Stack \in Seq(Values)
  BY <1>1, DestroyTypes
<1>3. n \in 1..2
  <2>1. Len(calls) <= 2
    BY <1>1, Zenon DEF Destroy!CallInv, Destroy!RecursionBounded
  <2>2. Len(calls) \in Nat \ {0}
    BY <1>2
  <2>3. \A k \in Nat \ {0} : k <= 2 => k \in 1..2
    OBVIOUS
  <2> QED  BY <2>1, <2>2, <2>3, Zenon
<1>4. Destroy!Top = calls[n] /\ calls[n] \in DestroyCalls
  BY <1>1, <1>2, EndOfSeq DEF Destroy!Top
<1>5. v \in Values /\ calls[n].flat /\ calls[n].stack = <<>>
  BY <1>4 DEF DestroyCalls, Destroy!Free
<1>6. /\ calls' = Destroy!Front(calls) /\ held' = held
      /\ freed' = [freed EXCEPT ![v] = @ + 1]
  BY <1>4 DEF Destroy!Free
<1>7. /\ calls' \in Seq(DestroyCalls) /\ Len(calls') = n - 1
      /\ \A c \in 1..(n - 1) : calls'[c] = calls[c]
  BY <1>1, <1>2, <1>6, EndOfSeq
<1>8. /\ freed[v] = 0 /\ held[v] = {} /\ \A m \in Values : v \notin held[m]
      /\ \A c \in 1..n : calls[c].node = v => c = n
      /\ \A i \in 1..Len(Destroy!Stack) : Destroy!Stack[i] # v
  BY <1>1, <1>2, <1>5 DEF Destroy!PlaceInv, Destroy!CallInv, Destroy!Nodes, Values
<1> HIDE DEF n, v
<1>9. freed' \in [Values -> 0..1] /\ \A x \in Values : freed'[x] = IF x = v THEN 1 ELSE freed[x]
  BY <1>2, <1>5, <1>6, <1>8
<1>10. Destroy!TypeOK'
  BY <1>2, <1>6, <1>7, <1>9, Zenon DEF Destroy!TypeOK, Destroy!Nodes, DestroyCalls, Values
<1>11. n = 1 => calls' = <<>> /\ Destroy!Stack' = <<>> /\ Destroy!Stack = <<>>
  <2>1. SUFFICES ASSUME n = 1 PROVE calls' = <<>> /\ Destroy!Stack' = <<>> /\ Destroy!Stack = <<>>
    OBVIOUS
  <2>2. calls' = <<>>
    BY <1>7, <2>1, EmptySeq
  <2> QED  BY <1>1, <1>5, <2>1, <2>2 DEF Destroy!Stack
<1>12. n = 2 => calls' # <<>> /\ Destroy!Stack' = Destroy!Stack /\ calls'[1] = calls[1]
  <2>1. SUFFICES ASSUME n = 2
                 PROVE calls' # <<>> /\ Destroy!Stack' = Destroy!Stack /\ calls'[1] = calls[1]
    OBVIOUS
  <2>2. calls'[1] = calls[1] /\ Len(calls') = 1
    BY <1>7, <2>1
  <2>3. calls' # <<>>
    BY <2>2, EmptySeq
  <2> QED  BY <1>1, <2>2, <2>3 DEF Destroy!Stack
<1>13. \A c \in 1..(n - 1) : c \in 1..n /\ c # n /\ calls'[c] = calls[c] /\ calls[c].node \in Values
  BY <1>2, <1>7 DEF DestroyCalls
<1>14. Destroy!CallInv'
  <2>1. \A c \in 1..(n - 1) :
           /\ ~calls'[c].flat \/ c > 1 => calls'[c].stack = <<>>
           /\ calls'[c].flat \/ c > 1 => held'[calls'[c].node] = {}
    BY <1>1, <1>6, <1>13 DEF Destroy!CallInv, n
  <2>2. \A x \in Values : freed'[x] = 1 => held'[x] = {}
    BY <1>1, <1>6, <1>8, <1>9 DEF Destroy!CallInv, Destroy!Nodes, Values
  <2>3. Len(calls') <= 1
    BY <1>3, <1>7
  <2> QED  BY <1>7, <2>1, <2>2, <2>3 DEF Destroy!CallInv, Destroy!RecursionBounded, Destroy!Nodes, Values
<1>15. Destroy!PlaceInv'
  <2>1. /\ \A m1, m2, x \in Values : x \in held'[m1] /\ x \in held'[m2] => m1 = m2
        /\ \A m, x \in Values : x \in held'[m] => freed'[x] = 0
    BY <1>1, <1>6, <1>8, <1>9 DEF Destroy!PlaceInv, Destroy!Nodes, Values
  <2>2. ASSUME NEW c \in 1..(n - 1)
        PROVE  /\ freed'[calls'[c].node] = 0
               /\ \A m \in Values : calls'[c].node \notin held'[m]
               /\ \A d \in 1..(n - 1) : calls'[c].node = calls'[d].node => c = d
               /\ \A i \in 1..Len(Destroy!Stack) : Destroy!Stack[i] # calls'[c].node
    <3>1. calls[c].node # v
      BY <1>8, <1>13
    <3>2. /\ freed[calls[c].node] = 0
          /\ \A m \in Values : calls[c].node \notin held[m]
          /\ \A d \in 1..n : calls[c].node = calls[d].node => c = d
          /\ \A i \in 1..Len(Destroy!Stack) : Destroy!Stack[i] # calls[c].node
      BY <1>1, <1>13 DEF Destroy!PlaceInv, Destroy!Nodes, Values, n
    <3> QED  BY <1>6, <1>9, <1>13, <3>1, <3>2
  <2>3. ASSUME NEW i \in 1..Len(Destroy!Stack)
        PROVE  /\ freed'[Destroy!Stack[i]] = 0
               /\ \A m \in Values : Destroy!Stack[i] \notin held'[m]
               /\ \A j \in 1..Len(Destroy!Stack) : Destroy!Stack[i] = Destroy!Stack[j] => i = j
    <3>1. Destroy!Stack[i] \in Values
      BY <1>2, ElementOfSeq
    <3> QED  BY <1>1, <1>6, <1>8, <1>9, <3>1 DEF Destroy!PlaceInv, Destroy!Nodes, Values
  <2>4. CASE n = 1
    BY <1>7, <1>11, <2>1, <2>4 DEF Destroy!PlaceInv, Destroy!Nodes, Values
  <2>5. CASE n = 2
    BY <1>7, <1>12, <2>1, <2>2, <2>3, <2>5 DEF Destroy!PlaceInv, Destroy!Nodes, Values
  <2> QED  BY <1>3, <2>4, <2>5
<1>16. Destroy!NoneForgotten'
  <2>1. ASSUME NEW x \in Values
        PROVE  \/ freed'[x] = 1
               \/ \E m \in Values : x \in held'[m]
               \/ \E c \in 1..(n - 1) : calls'[c].node = x
               \/ \E i \in 1..Len(Destroy!Stack') : Destroy!Stack'[i] = x
    <3>1. \/ freed[x] = 1
          \/ \E m \in Values : x \in held[m]
          \/ \E c \in 1..n : calls[c].node = x
          \/ \E i \in 1..Len(Destroy!Stack) : Destroy!Stack[i] = x
      BY <1>1 DEF Destroy!NoneForgotten, Destroy!Nodes, Values, n
    <3>2. ASSUME NEW c \in 1..n, calls[c].node = x, x # v
          PROVE  \E d \in 1..(n - 1) : calls'[d].node = x
      <4>1. c \in 1..(n - 1)
        BY <1>3, <3>2 DEF v
      <4> QED  BY <1>13, <3>2, <4>1
    <3>3. ASSUME NEW i \in 1..Len(Destroy!Stack), Destroy!Stack[i] = x
          PROVE  Destroy!Stack' = Destroy!Stack
      BY <1>3, <1>11, <1>12, <3>3
    <3>4. freed[x] = 1 \/ x = v => freed'[x] = 1
      BY <1>9
    <3> QED  BY <1>6, <3>1, <3>2, <3>3, <3>4
  <2> QED  BY <1>7, <2>1 DEF Destroy!NoneForgotten, Destroy!Nodes, Values
<1> QED  BY <1>10, <1>14, <1>15, <1>16 DEF Destroy!IInv

\* Between the steps of the other routines.
LEMMA DestroyFrame ==
    ASSUME Destroy!IInv, UNCHANGED destroyVars
    PROVE  Destroy!IInv'
<1>1. held' = held /\ calls' = calls /\ freed' = freed
  BY DEF destroyVars
<1>2. Destroy!Stack' = Destroy!Stack
  BY <1>1, Zenon DEF Destroy!Stack
<1>3. Destroy!TypeOK' /\ Destroy!CallInv' /\ Destroy!NoneForgotten'
  BY <1>1, <1>2, Zenon DEF Destroy!IInv, Destroy!TypeOK, Destroy!CallInv,
     Destroy!RecursionBounded, Destroy!NoneForgotten
<1>4. Destroy!PlaceInv'
  BY <1>1, <1>2, Zenon DEF Destroy!IInv, Destroy!PlaceInv
<1> QED  BY <1>3, <1>4 DEF Destroy!IInv

\* A value in one place is counted once.
LEMMA PlacesCounted ==
    ASSUME Destroy!IInv
    PROVE  Destroy!EveryValueOnce
<1>1. Destroy!TypeOK /\ Destroy!CallInv /\ Destroy!PlaceInv /\ Destroy!NoneForgotten
  BY DEF Destroy!IInv
<1>2. /\ held \in [Values -> SUBSET Values] /\ freed \in [Values -> 0..1]
      /\ calls \in Seq(DestroyCalls) /\ Len(calls) \in Nat
      /\ calls = <<>> <=> Len(calls) = 0
      /\ \A c \in 1..Len(calls) : calls[c] \in DestroyCalls
      /\ Destroy!Stack \in Seq(Values)
  BY <1>1, DestroyTypes
<1>3. ASSUME NEW x \in Values
      PROVE  Destroy!Cardinality(Destroy!Places(x)) + freed[x] = 1
  <2> DEFINE InHeld(p)    == \E m \in Values : p = <<"held", m, 0>> /\ freed[m] = 0 /\ x \in held[m]
             InCalls(p)   == \E c \in 1..Len(calls) : p = <<"called", c, 0>> /\ calls[c].node = x
             InStack(p) == \E i \in 1..Len(Destroy!Stack) :
                                p = <<"stacked", 1, i>> /\ Destroy!Stack[i] = x
             places == Destroy!Places(x)
  <2>1. \A p : p \in places <=> InHeld(p) \/ InCalls(p) \/ InStack(p)
    <3>1. DOMAIN calls = 1..Len(calls)
      BY <1>2, LenProperties
    <3>2. \A c \in 1..Len(calls) : DOMAIN calls[c].stack = 1..Len(calls[c].stack)
      <4>1. \A c \in 1..Len(calls) : calls[c].stack \in Seq(Values)
        BY <1>2 DEF DestroyCalls
      <4> QED  BY <4>1, LenProperties
    <3>3. ASSUME NEW p
          PROVE  (\E c \in 1..Len(calls) : \E i \in 1..Len(calls[c].stack) :
                     p = <<"stacked", c, i>> /\ calls[c].stack[i] = x) <=> InStack(p)
      <4>1. ASSUME NEW c \in 1..Len(calls), NEW i \in 1..Len(calls[c].stack)
            PROVE  c = 1 /\ Destroy!Stack = calls[1].stack
        <5>1. c > 1 => calls[c].stack = <<>>
          BY <1>1 DEF Destroy!CallInv
        <5>2. calls # <<>>
          BY <1>2, EmptySeq
        <5> QED  BY <1>2, <5>1, <5>2 DEF Destroy!Stack
      <4>2. ASSUME NEW i \in 1..Len(Destroy!Stack)
            PROVE  1 \in 1..Len(calls) /\ Destroy!Stack = calls[1].stack
        BY <1>2 DEF Destroy!Stack
      <4> QED  BY <4>1, <4>2
    <3> DEFINE heldIn  == {<<"held", m, 0>> : m \in {m \in Values : freed[m] = 0 /\ x \in held[m]}}
               called  == {<<"called", c, 0>> : c \in {c \in DOMAIN calls : calls[c].node = x}}
               stacked(c) == {<<"stacked", c, i>> :
                                 i \in {i \in DOMAIN calls[c].stack : calls[c].stack[i] = x}}
               inStacks == UNION {stacked(c) : c \in DOMAIN calls}
    <3>4. places = heldIn \cup called \cup inStacks
      BY Zenon DEF Destroy!Places, Destroy!Nodes, Values
    <3>5. \A p : p \in heldIn <=> InHeld(p)
      BY Zenon
    <3>6. \A p : p \in called <=> InCalls(p)
      BY <3>1, Zenon
    <3>7. ASSUME NEW p PROVE p \in inStacks <=> InStack(p)
      <4>1. p \in inStacks <=> \E c \in DOMAIN calls : p \in stacked(c)
        <5> HIDE DEF stacked
        <5> QED  BY Zenon
      <4>2. ASSUME NEW c \in DOMAIN calls
            PROVE  p \in stacked(c) <=> \E i \in 1..Len(calls[c].stack) :
                                           p = <<"stacked", c, i>> /\ calls[c].stack[i] = x
        BY <3>1, <3>2, Zenon
      <4> HIDE DEF stacked, InStack, inStacks
      <4> QED  BY <3>1, <3>3, <4>1, <4>2, Zenon
    <3> HIDE DEF places, heldIn, called, inStacks, InHeld, InCalls, InStack
    <3>8. ASSUME NEW p PROVE p \in places <=> InHeld(p) \/ InCalls(p) \/ InStack(p)
      <4>1. p \in places <=> p \in heldIn \/ p \in called \/ p \in inStacks
        BY <3>4, Zenon
      <4> QED  BY <3>5, <3>6, <3>7, <4>1
    <3> QED  BY <3>8
  <2> HIDE DEF places
  <2>2. /\ \A m1, m2 \in Values : x \in held[m1] /\ x \in held[m2] => m1 = m2
        /\ \A m \in Values : x \in held[m] => freed[x] = 0
        /\ \A c \in 1..Len(calls) : calls[c].node = x =>
              /\ freed[x] = 0 /\ \A m \in Values : x \notin held[m]
              /\ \A d \in 1..Len(calls) : calls[d].node = x => c = d
              /\ \A i \in 1..Len(Destroy!Stack) : Destroy!Stack[i] # x
        /\ \A i \in 1..Len(Destroy!Stack) : Destroy!Stack[i] = x =>
              /\ freed[x] = 0 /\ \A m \in Values : x \notin held[m]
              /\ \A j \in 1..Len(Destroy!Stack) : Destroy!Stack[j] = x => i = j
    BY <1>1 DEF Destroy!PlaceInv, Destroy!Nodes, Values
  <2>3. CASE freed[x] = 1
    <3>1. \A p : ~InHeld(p) /\ ~InCalls(p) /\ ~InStack(p)
      BY <2>2, <2>3
    <3>2. places = {}
      BY <2>1, <3>1, Zenon
    <3>3. Destroy!Cardinality(places) = 0
      BY <3>2, SameCardinality, FS_EmptySet, Zenon
    <3> QED  BY <2>3, <3>3 DEF places
  <2>4. CASE freed[x] = 0
    <3>1. \E p : InHeld(p) \/ InCalls(p) \/ InStack(p)
      <4>1. \/ \E m \in Values : x \in held[m]
            \/ \E c \in 1..Len(calls) : calls[c].node = x
            \/ \E i \in 1..Len(Destroy!Stack) : Destroy!Stack[i] = x
        BY <1>1, <2>4 DEF Destroy!NoneForgotten, Destroy!Nodes, Values
      <4>2. ASSUME NEW m \in Values, x \in held[m] PROVE \E p : InHeld(p)
        <5>1. freed[m] = 0
          <6>1. freed[m] # 1
            BY <1>1, <4>2 DEF Destroy!CallInv, Destroy!Nodes, Values
          <6> QED  BY <1>2, <6>1
        <5> QED  BY <4>2, <5>1, Zenon
      <4>3. ASSUME NEW c \in 1..Len(calls), calls[c].node = x PROVE \E p : InCalls(p)
        BY <4>3, Zenon
      <4>4. ASSUME NEW i \in 1..Len(Destroy!Stack), Destroy!Stack[i] = x PROVE \E p : InStack(p)
        BY <4>4, Zenon
      <4> HIDE DEF InHeld, InCalls, InStack
      <4> QED  BY <4>1, <4>2, <4>3, <4>4, Zenon
    <3>2. ASSUME NEW p, NEW q, InHeld(p) \/ InCalls(p) \/ InStack(p),
                 InHeld(q) \/ InCalls(q) \/ InStack(q)
          PROVE  p = q
      <4>1. CASE InHeld(p)
        BY <2>2, <3>2, <4>1, Zenon
      <4>2. CASE InCalls(p)
        BY <2>2, <3>2, <4>2, Zenon
      <4>3. CASE InStack(p)
        BY <2>2, <3>2, <4>3, Zenon
      <4> HIDE DEF InHeld, InCalls, InStack
      <4> QED  BY <3>2, <4>1, <4>2, <4>3
    <3> HIDE DEF InHeld, InCalls, InStack
    <3>3. PICK p : places = {p}
      <4>1. PICK p : p \in places
        BY <2>1, <3>1, Zenon
      <4>2. \A q : q \in places => q = p
        BY <2>1, <3>2, <4>1, Zenon
      <4> QED  BY <4>1, <4>2
    <3>4. Destroy!Cardinality(places) = 1
      BY <3>3, SameCardinality, FS_Singleton, Zenon
    <3> QED  BY <2>4, <3>4 DEF places
  <2> QED  BY <1>2, <2>3, <2>4
<1> QED  BY <1>3 DEF Destroy!EveryValueOnce, Destroy!Nodes, Values

-----------------------------------------------------------------------------
(* The handlers' statements *)

StatementKinds == {"count", "string", "erase", "index", "isFalse"}

\* The statements of each handler, one by one.
PostList(S) ==
    /\ Len(S) = 3
    /\ S[1][1] = "count"  /\ S[1][2] = "route"
    /\ S[2][1] = "string" /\ S[2][2] = "route"
    /\ S[3][1] = "erase"  /\ S[3][2] = "route"
    /\ \A i \in 1..Len(S) : i = 1 \/ i = 2 \/ i = 3
DownloadList(S) ==
    /\ Len(S) = 5
    /\ S[1][1] = "count"  /\ S[1][2] = "route"
    /\ S[2][1] = "count"  /\ S[2][2] = "filepath"
    /\ S[3][1] = "string" /\ S[3][2] = "route"
    /\ S[4][1] = "erase"  /\ S[4][2] = "route"
    /\ S[5][1] = "string" /\ S[5][2] = "filepath"
    /\ \A i \in 1..Len(S) : i = 1 \/ i = 2 \/ i = 3 \/ i = 4 \/ i = 5
TokenList(S) ==
    /\ Len(S) = 4
    /\ S[1][1] = "count"  /\ S[1][2] = "token"
    /\ S[2][1] = "count"  /\ S[2][2] = "expiration"
    /\ S[3][1] = "string" /\ S[3][2] = "token"
    /\ S[4][1] = "index"  /\ S[4][2] = "expiration"
    /\ \A i \in 1..Len(S) : i = 1 \/ i = 2 \/ i = 3 \/ i = 4
UpdateList(S) ==
    /\ Len(S) = 2
    /\ S[1][1] = "count"   /\ S[1][2] = "update"
    /\ S[2][1] = "isFalse" /\ S[2][2] = "update"
    /\ \A i \in 1..Len(S) : i = 1 \/ i = 2

\* The statements of a handler, in the order of its code (main.cpp:86-91, 168-201,
\* 244-260; Authenticator.hpp:130-142), are of the shape that the steps below use.
LEMMA StatementList ==
    ASSUME NEW h
    PROVE  /\ h = "post" => PostList(Statements!Statements(h))
           /\ h = "download" => DownloadList(Statements!Statements(h))
           /\ h = "token" => TokenList(Statements!Statements(h))
           /\ h = "update" => UpdateList(Statements!Statements(h))
<1>1. Statements!Statements("post") =
          <<<<"count", "route">>, <<"string", "route">>, <<"erase", "route">>>>
  BY DEF Statements!Statements
<1>2. Statements!Statements("download") =
          <<<<"count", "route">>, <<"count", "filepath">>, <<"string", "route">>,
            <<"erase", "route">>, <<"string", "filepath">>>>
  BY DEF Statements!Statements
<1>3. Statements!Statements("token") =
          <<<<"count", "token">>, <<"count", "expiration">>,
            <<"string", "token">>, <<"index", "expiration">>>>
  BY DEF Statements!Statements
<1>4. Statements!Statements("update") = <<<<"count", "update">>, <<"isFalse", "update">>>>
  BY DEF Statements!Statements
<1>5. PostList(Statements!Statements("post"))
  BY <1>1 DEF PostList
<1>6. DownloadList(Statements!Statements("download"))
  <2> DEFINE S == Statements!Statements("download")
  <2>1. Len(S) = 5
    BY <1>2
  <2>2. /\ S[1][1] = "count" /\ S[1][2] = "route"
        /\ S[2][1] = "count" /\ S[2][2] = "filepath"
        /\ S[3][1] = "string" /\ S[3][2] = "route"
        /\ S[4][1] = "erase" /\ S[4][2] = "route"
        /\ S[5][1] = "string" /\ S[5][2] = "filepath"
    BY <1>2
  <2> HIDE DEF S
  <2>3. \A i \in 1..Len(S) : i = 1 \/ i = 2 \/ i = 3 \/ i = 4 \/ i = 5
    BY <2>1
  <2> QED  BY <2>1, <2>2, <2>3 DEF DownloadList, S
<1>7. TokenList(Statements!Statements("token"))
  <2> DEFINE S == Statements!Statements("token")
  <2>1. Len(S) = 4
    BY <1>3
  <2>2. /\ S[1][1] = "count" /\ S[1][2] = "token"
        /\ S[2][1] = "count" /\ S[2][2] = "expiration"
        /\ S[3][1] = "string" /\ S[3][2] = "token"
        /\ S[4][1] = "index" /\ S[4][2] = "expiration"
    BY <1>3
  <2> HIDE DEF S
  <2>3. \A i \in 1..Len(S) : i = 1 \/ i = 2 \/ i = 3 \/ i = 4
    BY <2>1
  <2> QED  BY <2>1, <2>2, <2>3 DEF TokenList, S
<1>8. UpdateList(Statements!Statements("update"))
  <2> DEFINE S == Statements!Statements("update")
  <2>1. Len(S) = 2
    BY <1>4
  <2>2. /\ S[1][1] = "count" /\ S[1][2] = "update"
        /\ S[2][1] = "isFalse" /\ S[2][2] = "update"
    BY <1>4
  <2> HIDE DEF S
  <2>3. \A i \in 1..Len(S) : i = 1 \/ i = 2
    BY <2>1
  <2> QED  BY <2>1, <2>2, <2>3 DEF UpdateList, S
<1> QED  BY <1>5, <1>6, <1>7, <1>8

\* The order in which a handler looks at a document: it counts a member before it
\* does anything else with it, and all it counts before it converts any; it erases
\* once, the route, and does not ask for it again.
LEMMA StatementOrder ==
    ASSUME NEW h \in Statements!Handlers
    PROVE  LET S == Statements!Statements(h)
           IN  /\ Len(S) \in 2..5
               /\ \A i \in 1..Len(S) : S[i][1] \in StatementKinds
               /\ \A i \in 1..Len(S) : S[i][1] = "erase" => S[i][2] = "route"
               /\ \A i \in 1..Len(S) : S[i][1] # "count" =>
                     \E j \in 1..(i - 1) : S[j][1] = "count" /\ S[j][2] = S[i][2]
               /\ \A i, j \in 1..Len(S) : j < i /\ S[j][1] = "erase" =>
                     S[i][1] \notin {"count", "erase"} /\ S[i][2] # "route"
               /\ \A i, j \in 1..Len(S) : S[i][1] = "count" /\ S[j][1] # "count" => i < j
               /\ \A i \in 1..Len(S) : S[i][1] = "isFalse" => i = Len(S)
<1> DEFINE S == Statements!Statements(h)
<1>1. CASE h = "post"
  <2>1. PostList(S)
    BY <1>1, StatementList
  <2> HIDE DEF S
  <2> QED  BY <2>1 DEF PostList, StatementKinds, S
<1>2. CASE h = "download"
  <2>1. DownloadList(S)
    BY <1>2, StatementList
  <2> HIDE DEF S
  <2> QED  BY <2>1 DEF DownloadList, StatementKinds, S
<1>3. CASE h = "token"
  <2>1. TokenList(S)
    BY <1>3, StatementList
  <2> HIDE DEF S
  <2> QED  BY <2>1 DEF TokenList, StatementKinds, S
<1>4. CASE h = "update"
  <2>1. UpdateList(S)
    BY <1>4, StatementList
  <2> HIDE DEF S
  <2> QED  BY <2>1 DEF UpdateList, StatementKinds, S
<1> QED  BY <1>1, <1>2, <1>3, <1>4 DEF Statements!Handlers

\* What the handler's questions about the document are answered.
Counted  == \A i \in 1..Len(Statements!Statements(handler)) :
                Statements!Statements(handler)[i][1] = "count" =>
                    Statements!Has(Statements!Statements(handler)[i][2])
Converted == \A i \in 1..Len(Statements!Statements(handler)) :
                Statements!Statements(handler)[i][1] = "string" =>
                    Statements!IsString(Statements!Statements(handler)[i][2])
NotFalse == \A i \in 1..Len(Statements!Statements(handler)) :
                Statements!Statements(handler)[i][1] = "isFalse" =>
                    given.members[Statements!Statements(handler)[i][2]] # "false"

\* What the kind of a document answers to the three questions a handler asks of it.
LEMMA KindOfAnswers ==
    ASSUME handler \in Statements!Handlers
    PROVE  Statements!Kind = IF ~Counted \/ ~NotFalse THEN "ended"
                             ELSE IF ~Converted THEN "302" ELSE "finished"
<1> DEFINE S == Statements!Statements(handler)
<1>1. CASE handler = "post"
  <2>1. Statements!Kind = IF ~Statements!Has("route") THEN "ended"
                          ELSE IF Statements!IsString("route") THEN "finished" ELSE "302"
    BY <1>1 DEF Statements!Kind
  <2>2. PostList(S)
    BY <1>1, StatementList
  <2> QED  BY <1>1, <2>1, <2>2 DEF PostList, Counted, Converted, NotFalse
<1>2. CASE handler = "download"
  <2>1. Statements!Kind = IF ~Statements!Has("route") \/ ~Statements!Has("filepath") THEN "ended"
                          ELSE IF Statements!IsString("route") /\ Statements!IsString("filepath")
                               THEN "finished" ELSE "302"
    BY <1>2 DEF Statements!Kind
  <2>2. DownloadList(S)
    BY <1>2, StatementList
  <2> QED  BY <1>2, <2>1, <2>2 DEF DownloadList, Counted, Converted, NotFalse
<1>3. CASE handler = "token"
  <2>1. Statements!Kind = IF ~Statements!Has("token") \/ ~Statements!Has("expiration") THEN "ended"
                          ELSE IF Statements!IsString("token") THEN "finished" ELSE "302"
    BY <1>3 DEF Statements!Kind
  <2>2. TokenList(S)
    BY <1>3, StatementList
  <2> QED  BY <1>3, <2>1, <2>2 DEF TokenList, Counted, Converted, NotFalse
<1>4. CASE handler = "update"
  <2>1. Statements!Kind = IF Statements!Has("update") /\ given.members["update"] # "false"
                          THEN "finished" ELSE "ended"
    BY <1>4 DEF Statements!Kind
  <2>2. UpdateList(S)
    BY <1>4, StatementList
  <2> QED  BY <1>4, <2>1, <2>2 DEF UpdateList, Counted, Converted, NotFalse
<1> QED  BY <1>1, <1>2, <1>3, <1>4 DEF Statements!Handlers

\* A document is null, a scalar or an array, or it is an object with members.
LEMMA DocumentTypes ==
    ASSUME handler \in Statements!Handlers, given \in Statements!Documents(handler)
    PROVE  /\ given.type \in Statements!MemberTypes
           /\ given = [type |-> given.type, members |-> given.members]
           /\ given.type = "object" =>
                 given.members \in [DOMAIN given.members -> Statements!MemberTypes]
<1>1. CASE given \in {Statements!Value(t) : t \in Statements!Scalars}
  BY <1>1 DEF Statements!Value, Statements!Scalars, Statements!MemberTypes
<1>2. CASE given \in {Statements!Object(m) : m \in UNION {[ks -> Statements!MemberTypes] :
                                         ks \in SUBSET Statements!UsedBy(handler)}}
  <2>1. PICK ks : \E m \in [ks -> Statements!MemberTypes] : given = Statements!Object(m)
    BY <1>2
  <2>2. PICK m \in [ks -> Statements!MemberTypes] : given = Statements!Object(m)
    BY <2>1
  <2> QED  BY <2>2 DEF Statements!Object, Statements!MemberTypes
<1> QED  BY <1>1, <1>2 DEF Statements!Documents

List == Statements!Statements(handler)

\* What is known of the document when a statement begins.
LEMMA AtStatement ==
    ASSUME Statements!IInv, ending = "running"
    PROVE  /\ statement \in 1..Len(List) /\ Len(List) \in 2..5
           /\ List[statement][1] \in StatementKinds
           /\ List[statement][1] = "count" => doc = given
           /\ List[statement][1] # "count" =>
                  Counted /\ Statements!Has(List[statement][2])
           /\ List[statement][1] \in {"string", "index", "isFalse"} =>
                  /\ Statements!Index(doc, List[statement][2]) = [exception |-> "none", doc |-> doc]
                  /\ doc.members[List[statement][2]] = given.members[List[statement][2]]
           /\ List[statement][1] = "erase" => doc = given /\ List[statement][2] = "route"
<1> DEFINE kind == List[statement][1]
           key  == List[statement][2]
<1>1. /\ Statements!TypeOK /\ Statements!AskedInv /\ Statements!DocInv /\ Statements!OutcomeInv
  BY DEF Statements!IInv
<1>2. handler \in Statements!Handlers /\ given \in Statements!Documents(handler) /\ statement \in 1..6
  BY <1>1 DEF Statements!TypeOK
<1>3. statement \in 1..Len(List) /\ Len(List) \in 2..5
  <2>1. Len(List) \in 2..5
    BY <1>2, StatementOrder DEF List
  <2>2. statement <= Len(List)
    BY <1>1 DEF Statements!OutcomeInv, List
  <2> QED  BY <1>2, <2>1, <2>2
<1>4. /\ \A i \in 1..Len(List) : List[i][1] \in StatementKinds
      /\ \A i \in 1..Len(List) : List[i][1] = "erase" => List[i][2] = "route"
      /\ \A i \in 1..Len(List) : List[i][1] # "count" =>
            \E j \in 1..(i - 1) : List[j][1] = "count" /\ List[j][2] = List[i][2]
      /\ \A i, j \in 1..Len(List) : j < i /\ List[j][1] = "erase" =>
            List[i][1] \notin {"count", "erase"} /\ List[i][2] # "route"
      /\ \A i, j \in 1..Len(List) : List[i][1] = "count" /\ List[j][1] # "count" => i < j
  BY <1>2, StatementOrder, Zenon DEF List
<1>5. \A i \in 1..(statement - 1) : i \in 1..Len(List) /\ i < statement
  BY <1>3
<1>6. \A i \in 1..(statement - 1) : List[i][1] = "count" => Statements!Has(List[i][2])
  BY <1>1 DEF Statements!AskedInv, List
<1>7. ASSUME kind # "count" PROVE Counted /\ Statements!Has(key)
  <2>1. Counted
    <3>1. \A i \in 1..Len(List) : List[i][1] = "count" => i < statement
      BY <1>3, <1>4, <1>7
    <3>2. \A i \in 1..Len(List) : List[i][1] = "count" => i \in 1..(statement - 1)
      BY <1>3, <3>1
    <3> QED  BY <1>6, <3>2, Zenon DEF Counted, List
  <2>2. PICK j \in 1..(statement - 1) : List[j][1] = "count" /\ List[j][2] = key
    BY <1>3, <1>4, <1>7, Zenon
  <2>3. Statements!Has(key)
    BY <1>6, <2>2
  <2> QED  BY <2>1, <2>3
<1>8. ASSUME kind \in {"count", "erase"} PROVE doc = given
  <2>1. ~\E i \in 1..(statement - 1) : List[i][1] = "erase"
    BY <1>3, <1>4, <1>5, <1>8
  <2> QED  BY <1>1, <2>1, Zenon DEF Statements!DocInv, List
<1>9. ASSUME kind \in {"string", "index", "isFalse"}
      PROVE  /\ Statements!Index(doc, key) = [exception |-> "none", doc |-> doc]
             /\ doc.members[key] = given.members[key]
  <2>1. given.type = "object" /\ key \in DOMAIN given.members
    BY <1>7, <1>9 DEF Statements!Has
  <2>2. given = [type |-> "object", members |-> given.members]
        /\ given.members \in [DOMAIN given.members -> Statements!MemberTypes]
    BY <1>2, <2>1, DocumentTypes
  <2>3. PICK m : /\ doc = [type |-> "object", members |-> m]
                 /\ m \in [DOMAIN m -> Statements!MemberTypes]
                 /\ key \in DOMAIN m /\ m[key] = given.members[key]
    <3>1. CASE \E i \in 1..(statement - 1) : List[i][1] = "erase"
      <4> DEFINE rest == Statements!Restrict(given.members, DOMAIN given.members \ {"route"})
      <4>1. key # "route"
        BY <1>3, <1>4, <1>5, <3>1
      <4>2. doc = [type |-> "object", members |-> rest]
        BY <1>1, <3>1 DEF Statements!DocInv, Statements!Object, List
      <4>3. /\ rest \in [DOMAIN rest -> Statements!MemberTypes]
            /\ key \in DOMAIN rest /\ rest[key] = given.members[key]
        BY <2>1, <2>2, <4>1 DEF Statements!Restrict
      <4> QED  BY <4>2, <4>3
    <3>2. CASE ~\E i \in 1..(statement - 1) : List[i][1] = "erase"
      <4>1. doc = given
        BY <1>1, <3>2, Zenon DEF Statements!DocInv, List
      <4> QED  BY <2>1, <2>2, <4>1
    <3> QED  BY <3>1, <3>2
  <2>4. doc.type = "object" /\ doc.members = m
    BY <2>3
  <2>5. DOMAIN m \cup {key} = DOMAIN m
    BY <2>3
  <2>6. [k \in DOMAIN m \cup {key} |-> IF k \in DOMAIN m THEN m[k] ELSE "null"] = m
    BY <2>3, <2>5
  <2>7. Statements!Index(doc, key) = [exception |-> "none", doc |-> Statements!Object(m)]
    BY <2>4, <2>6 DEF Statements!Index
  <2> QED  BY <2>3, <2>4, <2>7 DEF Statements!Object
<1> QED  BY <1>3, <1>4, <1>7, <1>8, <1>9 DEF StatementKinds

\* The statement was executed and the next one follows.
LEMMA GoesOn ==
    ASSUME Statements!IInv, ending = "running", handler' = handler, given' = given,
           statement' = statement + 1,
           ending' = IF statement = Len(List) THEN "finished" ELSE "running",
           List[statement][1] = "count" => Statements!Has(List[statement][2]),
           List[statement][1] = "string" => Statements!IsString(List[statement][2]),
           List[statement][1] = "isFalse" => given.members[List[statement][2]] # "false",
           doc' = IF List[statement][1] = "erase"
                  THEN Statements!Object(Statements!Restrict(given.members,
                                                             DOMAIN given.members \ {"route"}))
                  ELSE doc
    PROVE  Statements!IInv'
<1>1. /\ Statements!TypeOK /\ Statements!AskedInv /\ Statements!DocInv /\ Statements!OutcomeInv
  BY DEF Statements!IInv
<1>2. handler \in Statements!Handlers /\ given \in Statements!Documents(handler)
  BY <1>1 DEF Statements!TypeOK
<1>3. statement \in 1..Len(List) /\ Len(List) \in 2..5
  BY AtStatement
<1>4. List' = List
  BY DEF List
<1>5. \A i \in 1..(statement' - 1) : i = statement \/ i \in 1..(statement - 1)
  BY <1>3
<1>6. statement \in 1..(statement' - 1) /\ \A i \in 1..(statement - 1) : i \in 1..(statement' - 1)
  BY <1>3
<1>7. \A i \in 1..(statement' - 1) :
         /\ List[i][1] = "count" => Statements!Has(List[i][2])
         /\ List[i][1] = "string" => Statements!IsString(List[i][2])
         /\ List[i][1] = "isFalse" => given.members[List[i][2]] # "false"
  <2>1. \A i \in 1..(statement - 1) :
           /\ List[i][1] = "count" => Statements!Has(List[i][2])
           /\ List[i][1] = "string" => Statements!IsString(List[i][2])
           /\ List[i][1] = "isFalse" => given.members[List[i][2]] # "false"
    BY <1>1, Zenon DEF Statements!AskedInv, List
  <2> QED  BY <1>5, <2>1, Zenon
<1>8. Statements!AskedInv'
  BY <1>4, <1>7, Zenon DEF Statements!AskedInv, List, Statements!Has, Statements!IsString
<1>9. Statements!DocInv'
  <2> DEFINE rest == Statements!Object(Statements!Restrict(given.members, DOMAIN given.members \ {"route"}))
             Erased == \E i \in 1..(statement - 1) : List[i][1] = "erase"
  <2>1. doc = IF Erased THEN rest ELSE given
    BY <1>1, Zenon DEF Statements!DocInv, List
  <2>2. (\E i \in 1..(statement' - 1) : List[i][1] = "erase") <=> Erased \/ List[statement][1] = "erase"
    BY <1>5, <1>6, Zenon
  <2> HIDE DEF rest, Erased
  <2>3. doc' = IF \E i \in 1..(statement' - 1) : List[i][1] = "erase" THEN rest ELSE given
    BY <2>1, <2>2 DEF rest
  <2> QED  BY <1>4, <2>3, Zenon DEF Statements!DocInv, List, rest
<1>10. Statements!OutcomeInv'
  <2>1. CASE statement # Len(List)
    BY <1>3, <1>4, <2>1 DEF Statements!OutcomeInv, Statements!EndsAsItsKind, List
  <2>2. CASE statement = Len(List)
    <3>1. statement' - 1 = Len(List)
      BY <1>3, <2>2
    <3>2. Counted /\ Converted /\ NotFalse
      BY <1>7, <3>1 DEF Counted, Converted, NotFalse, List
    <3>3. Statements!Kind = "finished"
      BY <1>2, <3>2, KindOfAnswers
    <3>4. Statements!Kind' = Statements!Kind
      BY Zenon DEF Statements!Kind, Statements!Has, Statements!IsString
    <3> QED  BY <1>3, <1>4, <2>2, <3>3, <3>4 DEF Statements!OutcomeInv, Statements!EndsAsItsKind, List
  <2> QED  BY <2>1, <2>2
<1>11. Statements!TypeOK'
  <2>1. /\ given.type \in Statements!MemberTypes
        /\ doc.type \in Statements!MemberTypes
        /\ doc.type = "object" => DOMAIN doc.members \subseteq DOMAIN given.members
    BY <1>1, <1>2, DocumentTypes DEF Statements!TypeOK
  <2>2. /\ doc'.type \in Statements!MemberTypes
        /\ doc'.type = "object" => DOMAIN doc'.members \subseteq DOMAIN given.members
    BY <2>1 DEF Statements!Object, Statements!Restrict, Statements!MemberTypes
  <2>3. handler' \in Statements!Handlers /\ given' \in Statements!Documents(handler')
    BY <1>2, Zenon
  <2>4. statement' \in 1..6
    BY <1>3
  <2>5. ending' \in {"running", "finished", "ended", "302", "305", "307"}
    OBVIOUS
  <2>6. doc'.type = "object" => DOMAIN doc'.members \subseteq DOMAIN given'.members
    BY <2>2
  <2> QED  BY <2>2, <2>3, <2>4, <2>5, <2>6, Zenon DEF Statements!TypeOK
<1> QED  BY <1>8, <1>9, <1>10, <1>11 DEF Statements!IInv

\* The statement leaves the handler, by a return or by an exception.
LEMMA Leaves ==
    ASSUME Statements!IInv, ending = "running",
           handler' = handler, given' = given, doc' = doc, statement' = statement,
           ending' = Statements!Kind, ending' # "finished"
    PROVE  Statements!IInv'
<1>1. /\ Statements!TypeOK /\ Statements!AskedInv /\ Statements!DocInv /\ Statements!OutcomeInv
  BY DEF Statements!IInv
<1>2. ending' \in {"ended", "302"}
  BY <1>1, KindOfAnswers DEF Statements!TypeOK
<1>3. Statements!Kind' = Statements!Kind
  BY Zenon DEF Statements!Kind, Statements!Has, Statements!IsString
<1>4. Statements!TypeOK'
  BY <1>1, <1>2 DEF Statements!TypeOK
<1>5. Statements!AskedInv' /\ Statements!DocInv'
  BY <1>1, Zenon DEF Statements!AskedInv, Statements!DocInv, Statements!Has, Statements!IsString
<1>6. Statements!OutcomeInv'
  <2>1. statement <= Len(List) /\ List' = List
    BY <1>1 DEF Statements!OutcomeInv, List
  <2> QED  BY <1>2, <1>3, <2>1 DEF Statements!OutcomeInv, Statements!EndsAsItsKind, List
<1> QED  BY <1>4, <1>5, <1>6 DEF Statements!IInv

\* The return of a handler that finds too few members keeps the invariant.
LEMMA CountStep ==
    ASSUME Statements!IInv, Statements!CountOrReturn
    PROVE  Statements!IInv'
<1> DEFINE key == List[statement][2]
<1>1. /\ ending = "running" /\ handler' = handler /\ given' = given /\ doc' = doc
      /\ List[statement][1] = "count"
  BY DEF Statements!CountOrReturn, Statements!Statement, List
<1>2. statement \in 1..Len(List) /\ doc = given
  BY <1>1, AtStatement
<1>3. handler \in Statements!Handlers
  BY DEF Statements!IInv, Statements!TypeOK
<1>4. CASE Statements!Count(doc, key) = 0
  <2>1. ~Statements!Has(key)
    BY <1>2, <1>4 DEF Statements!Count, Statements!Has
  <2>2. ~Counted
    BY <1>1, <1>2, <2>1 DEF Counted, List
  <2>3. Statements!Kind = "ended"
    BY <1>3, <2>2, KindOfAnswers
  <2>4. ending' = "ended" /\ statement' = statement
    BY <1>4 DEF Statements!CountOrReturn, Statements!Leave, Statements!Member, List
  <2> QED  BY <1>1, <2>3, <2>4, Leaves
<1>5. CASE Statements!Count(doc, key) # 0
  <2>1. Statements!Has(key)
    BY <1>2, <1>5 DEF Statements!Count, Statements!Has
  <2>2. /\ statement' = statement + 1
        /\ ending' = IF statement = Len(List) THEN "finished" ELSE "running"
    BY <1>5 DEF Statements!CountOrReturn, Statements!GoOn, Statements!Member, List
  <2> QED  BY <1>1, <2>1, <2>2, GoesOn
<1> QED  BY <1>4, <1>5

\* Reading a member that a document has, or adding it, keeps the invariant.
LEMMA ReadStep ==
    ASSUME Statements!IInv, Statements!Read
    PROVE  Statements!IInv'
<1> DEFINE key == List[statement][2]
<1>1. /\ ending = "running" /\ handler' = handler /\ given' = given
      /\ List[statement][1] = "index"
  BY DEF Statements!Read, Statements!Statement, List
<1>2. Statements!Index(doc, key) = [exception |-> "none", doc |-> doc]
  BY <1>1, AtStatement
<1>3. /\ statement' = statement + 1 /\ doc' = doc
      /\ ending' = IF statement = Len(List) THEN "finished" ELSE "running"
  BY <1>2 DEF Statements!Read, Statements!Call, Statements!GoOn, Statements!Member, List
<1> QED  BY <1>1, <1>3, GoesOn

\* A conversion keeps the invariant, whether it throws or not.
LEMMA ConvertStep ==
    ASSUME Statements!IInv, Statements!Convert
    PROVE  Statements!IInv'
<1> DEFINE key == List[statement][2]
<1>1. /\ ending = "running" /\ handler' = handler /\ given' = given
      /\ List[statement][1] = "string"
  BY DEF Statements!Convert, Statements!Statement, List
<1>2. /\ Statements!Index(doc, key) = [exception |-> "none", doc |-> doc]
      /\ doc.members[key] = given.members[key]
      /\ Counted /\ Statements!Has(key) /\ statement \in 1..Len(List)
  BY <1>1, AtStatement
<1>3. handler \in Statements!Handlers
  BY DEF Statements!IInv, Statements!TypeOK
<1>4. CASE given.members[key] = "string"
  <2>1. Statements!String(doc, key) = [exception |-> "none", doc |-> doc]
    BY <1>2, <1>4 DEF Statements!String
  <2>2. /\ statement' = statement + 1 /\ doc' = doc
        /\ ending' = IF statement = Len(List) THEN "finished" ELSE "running"
    BY <2>1 DEF Statements!Convert, Statements!Call, Statements!GoOn, Statements!Member, List
  <2>3. Statements!IsString(key)
    BY <1>2, <1>4 DEF Statements!IsString
  <2> QED  BY <1>1, <2>2, <2>3, GoesOn
<1>5. CASE given.members[key] # "string"
  <2>1. Statements!String(doc, key) = [exception |-> "302", doc |-> doc]
    BY <1>2, <1>5 DEF Statements!String
  <2>2. statement' = statement /\ doc' = doc /\ ending' = "302"
    BY <2>1 DEF Statements!Convert, Statements!Call, Statements!Leave, Statements!Member, List
  <2>3. ~Converted
    BY <1>1, <1>2, <1>5 DEF Converted, Statements!IsString, List
  \* The one handler that compares with false converts nothing.
  <2>4. NotFalse
    <3>1. \A i \in 1..Len(List) : List[i][1] # "isFalse"
      <4>1. CASE handler = "post"
        BY <4>1, StatementList DEF PostList, List
      <4>2. CASE handler = "download"
        BY <4>2, StatementList DEF DownloadList, List
      <4>3. CASE handler = "token"
        BY <4>3, StatementList DEF TokenList, List
      <4>4. CASE handler = "update"
        BY <1>1, <1>2, <4>4, StatementList DEF UpdateList, List
      <4> QED  BY <1>3, <4>1, <4>2, <4>3, <4>4 DEF Statements!Handlers
    <3> QED  BY <3>1 DEF NotFalse, List
  <2>5. Statements!Kind = "302"
    BY <1>2, <1>3, <2>3, <2>4, KindOfAnswers
  <2> QED  BY <1>1, <2>2, <2>5, Leaves
<1> QED  BY <1>4, <1>5

\* Taking the route out of what is forwarded keeps the invariant.
LEMMA RemoveStep ==
    ASSUME Statements!IInv, Statements!Remove
    PROVE  Statements!IInv'
<1> DEFINE key  == List[statement][2]
           rest == Statements!Object(Statements!Restrict(given.members, DOMAIN given.members \ {"route"}))
<1>1. /\ ending = "running" /\ handler' = handler /\ given' = given
      /\ List[statement][1] = "erase"
  BY DEF Statements!Remove, Statements!Statement, List
<1>2. doc = given /\ key = "route" /\ Statements!Has(key)
  BY <1>1, AtStatement
<1>3. Statements!Erase(doc, key) = [exception |-> "none", doc |-> rest]
  BY <1>2 DEF Statements!Erase, Statements!Has
<1> HIDE DEF rest
<1>4. /\ statement' = statement + 1 /\ doc' = rest
      /\ ending' = IF statement = Len(List) THEN "finished" ELSE "running"
  BY <1>3 DEF Statements!Remove, Statements!Call, Statements!GoOn, Statements!Member, List
<1> QED  BY <1>1, <1>4, GoesOn DEF rest

\* The comparison with false keeps the invariant.
LEMMA CompareStep ==
    ASSUME Statements!IInv, Statements!CompareFalse
    PROVE  Statements!IInv'
<1> DEFINE key == List[statement][2]
<1>1. /\ ending = "running" /\ handler' = handler /\ given' = given
      /\ List[statement][1] = "isFalse"
  BY DEF Statements!CompareFalse, Statements!Statement, List
<1>2. /\ Statements!Index(doc, key) = [exception |-> "none", doc |-> doc]
      /\ doc.members[key] = given.members[key]
      /\ statement \in 1..Len(List)
  BY <1>1, AtStatement
<1>3. handler \in Statements!Handlers
  BY DEF Statements!IInv, Statements!TypeOK
<1>4. CASE given.members[key] = "false"
  <2>1. statement' = statement /\ doc' = doc /\ ending' = "ended"
    BY <1>2, <1>4 DEF Statements!CompareFalse, Statements!Leave, Statements!Member, List
  <2>2. ~NotFalse
    BY <1>1, <1>2, <1>4 DEF NotFalse, List
  <2>3. Statements!Kind = "ended"
    BY <1>3, <2>2, KindOfAnswers
  <2> QED  BY <1>1, <2>1, <2>3, Leaves
<1>5. CASE given.members[key] # "false"
  <2>1. /\ statement' = statement + 1 /\ doc' = doc
        /\ ending' = IF statement = Len(List) THEN "finished" ELSE "running"
    BY <1>2, <1>5 DEF Statements!CompareFalse, Statements!Call, Statements!GoOn, Statements!Member, List
  <2> QED  BY <1>1, <1>5, <2>1, GoesOn
<1> QED  BY <1>4, <1>5

\* A document as it is when the first statement begins.
LEMMA StatementsInit ==
    ASSUME Statements!Init
    PROVE  Statements!IInv
<1>1. /\ handler \in Statements!Handlers /\ given \in Statements!Documents(handler)
      /\ doc = given /\ statement = 1 /\ ending = "running"
  BY DEF Statements!Init
<1>2. \A i \in 1..(statement - 1) : FALSE
  BY <1>1
<1>3. Statements!AskedInv
  BY <1>2, Zenon DEF Statements!AskedInv
<1>4. Statements!DocInv
  BY <1>1, <1>2, Zenon DEF Statements!DocInv
<1>5. Len(List) \in 2..5
  BY <1>1, StatementOrder DEF List
<1>6. Statements!OutcomeInv
  BY <1>1, <1>5 DEF Statements!OutcomeInv, Statements!EndsAsItsKind, List
<1>7. Statements!TypeOK
  <2>1. given.type \in Statements!MemberTypes
    BY <1>1, DocumentTypes
  <2> QED  BY <1>1, <2>1 DEF Statements!TypeOK
<1> QED  BY <1>3, <1>4, <1>6, <1>7 DEF Statements!IInv

\* Whatever leaves the document and the handler's place alone keeps the invariant.
LEMMA StatementsFrame ==
    ASSUME Statements!IInv, UNCHANGED statementVars
    PROVE  Statements!IInv'
<1>1. handler' = handler /\ given' = given /\ doc' = doc /\ statement' = statement /\ ending' = ending
  BY DEF statementVars
<1>2. Statements!TypeOK' /\ Statements!AskedInv' /\ Statements!DocInv'
  BY <1>1, Zenon DEF Statements!IInv, Statements!TypeOK, Statements!AskedInv, Statements!DocInv,
     Statements!Has, Statements!IsString
<1>3. Statements!OutcomeInv'
  BY <1>1, Zenon DEF Statements!IInv, Statements!OutcomeInv, Statements!EndsAsItsKind,
     Statements!Kind, Statements!Has, Statements!IsString
<1> QED  BY <1>2, <1>3 DEF Statements!IInv

\* What is forwarded is the document without its route.
LEMMA WhatIsForwarded ==
    ASSUME Statements!IInv
    PROVE  Statements!ForwardsTheRest
<1>1. /\ Statements!TypeOK /\ Statements!AskedInv /\ Statements!DocInv /\ Statements!OutcomeInv
  BY DEF Statements!IInv
<1>2. handler \in Statements!Handlers /\ given \in Statements!Documents(handler)
  BY <1>1 DEF Statements!TypeOK
<1> DEFINE rest == Statements!Restrict(given.members, DOMAIN given.members \ {"route"})
<1>3. CASE \E i \in 1..(statement - 1) : List[i][1] = "erase"
  <2>1. doc = [type |-> "object", members |-> rest]
    BY <1>1, <1>3, Zenon DEF Statements!DocInv, Statements!Object, List
  <2>2. PICK i \in 1..(statement - 1) : List[i][1] = "erase"
    BY <1>3
  \* It was counted before it was erased.
  <2>3. given.type = "object"
    <3>1. i \in 1..Len(List)
      <4>1. Len(List) \in 2..5 /\ statement \in 1..6
        BY <1>1, <1>2, StatementOrder DEF List, Statements!TypeOK
      <4>2. statement <= Len(List) + 1
        BY <1>1, <4>1 DEF Statements!OutcomeInv, List
      <4> QED  BY <2>2, <4>1, <4>2
    <3>2. PICK j \in 1..(i - 1) : List[j][1] = "count"
      BY <1>2, <2>2, <3>1, StatementOrder DEF List
    <3>3. j \in 1..(statement - 1)
      BY <1>1, <2>2, <3>2 DEF Statements!TypeOK
    <3> QED  BY <1>1, <3>2, <3>3 DEF Statements!AskedInv, Statements!Has, List
  <2> QED  BY <2>1, <2>3 DEF Statements!ForwardsTheRest
<1>4. CASE ~\E i \in 1..(statement - 1) : List[i][1] = "erase"
  <2>1. doc = given
    BY <1>1, <1>4, Zenon DEF Statements!DocInv, List
  \* The handlers that forward erase.
  <2>2. ending = "finished" => handler \notin {"post", "download"}
    <3>1. SUFFICES ASSUME ending = "finished", handler \in {"post", "download"} PROVE FALSE
      OBVIOUS
    <3>2. statement - 1 = Len(List)
      <4>1. Len(List) \in 2..5 /\ statement = Len(List) + 1
        BY <1>1, <1>2, <3>1, StatementOrder DEF Statements!OutcomeInv, List
      <4> QED  BY <4>1
    <3>3. CASE handler = "post"
      <4>1. Len(List) = 3 /\ List[3][1] = "erase"
        BY <3>3, StatementList DEF PostList, List
      <4> QED  BY <1>4, <3>2, <4>1
    <3>4. CASE handler = "download"
      <4>1. Len(List) = 5 /\ List[4][1] = "erase"
        BY <3>4, StatementList DEF DownloadList, List
      <4> QED  BY <1>4, <3>2, <4>1
    <3> QED  BY <3>1, <3>3, <3>4
  <2> QED  BY <2>1, <2>2 DEF Statements!ForwardsTheRest
<1> QED  BY <1>3, <1>4

-----------------------------------------------------------------------------
(* The strings of a document: the bytes *)

\* The type of a byte.
LEMMA TypeOfByte ==
    ASSUME NEW b \in Strings!Byte
    PROVE  /\ b < 128 => Strings!TypeOf(b) = 0
           /\ b \in 128..143 => Strings!TypeOf(b) = 1
           /\ b \in 144..159 => Strings!TypeOf(b) = 9
           /\ b \in 160..191 => Strings!TypeOf(b) = 7
           /\ b \in 192..193 => Strings!TypeOf(b) = 8
           /\ b \in 194..223 => Strings!TypeOf(b) = 2
           /\ b = 224 => Strings!TypeOf(b) = 10
           /\ b \in 225..239 /\ b # 237 => Strings!TypeOf(b) = 3
           /\ b = 237 => Strings!TypeOf(b) = 4
           /\ b = 240 => Strings!TypeOf(b) = 11
           /\ b \in 241..243 => Strings!TypeOf(b) = 6
           /\ b = 244 => Strings!TypeOf(b) = 5
           /\ b > 244 => Strings!TypeOf(b) = 8
<1>1. b < 128 => Strings!TypeOf(b) = 0
  BY DEF Strings!Byte, Strings!TypeOf
<1>2. b \in 128..143 => Strings!TypeOf(b) = 1
  BY DEF Strings!Byte, Strings!TypeOf
<1>3. b \in 144..159 => Strings!TypeOf(b) = 9
  BY DEF Strings!Byte, Strings!TypeOf
<1>4. b \in 160..191 => Strings!TypeOf(b) = 7
  BY DEF Strings!Byte, Strings!TypeOf
<1>5. b \in 192..193 => Strings!TypeOf(b) = 8
  BY DEF Strings!Byte, Strings!TypeOf
<1>6. b \in 194..223 => Strings!TypeOf(b) = 2
  BY DEF Strings!Byte, Strings!TypeOf
<1>7. b = 224 => Strings!TypeOf(b) = 10
  BY DEF Strings!Byte, Strings!TypeOf
<1>8. b \in 225..239 /\ b # 237 => Strings!TypeOf(b) = 3
  BY DEF Strings!Byte, Strings!TypeOf
<1>9. b = 237 => Strings!TypeOf(b) = 4
  BY DEF Strings!Byte, Strings!TypeOf
<1>10. b = 240 => Strings!TypeOf(b) = 11
  BY DEF Strings!Byte, Strings!TypeOf
<1>11. b \in 241..243 => Strings!TypeOf(b) = 6
  BY DEF Strings!Byte, Strings!TypeOf
<1>12. b = 244 => Strings!TypeOf(b) = 5
  BY DEF Strings!Byte, Strings!TypeOf
<1>13. b > 244 => Strings!TypeOf(b) = 8
  BY DEF Strings!Byte, Strings!TypeOf
<1> QED
  BY <1>1, <1>2, <1>3, <1>4, <1>5, <1>6, <1>7, <1>8, <1>9, <1>10, <1>11, <1>12, <1>13

\* Where it takes decode() from the start of a code point.
LEMMA DecodeFromAccept ==
    /\ Strings!Decode(0, 0) = 0 /\ Strings!Decode(0, 1) = 1
    /\ Strings!Decode(0, 2) = 2 /\ Strings!Decode(0, 3) = 3
    /\ Strings!Decode(0, 4) = 5 /\ Strings!Decode(0, 5) = 8
    /\ Strings!Decode(0, 6) = 7 /\ Strings!Decode(0, 7) = 1
    /\ Strings!Decode(0, 8) = 1 /\ Strings!Decode(0, 9) = 1
    /\ Strings!Decode(0, 10) = 4 /\ Strings!Decode(0, 11) = 6
  BY DEF Strings!Decode, Strings!Accept

\* And within one.
LEMMA DecodeWithin ==
    ASSUME NEW state \in 2..8, NEW type \in 0..11
    PROVE  Strings!Decode(state, type) =
               IF state = 2 /\ type \in {1, 7, 9} THEN 0
               ELSE IF state \in {3} /\ type \in {1, 7, 9} THEN 2
               ELSE IF state = 4 /\ type = 7 THEN 2
               ELSE IF state = 5 /\ type \in {1, 9} THEN 2
               ELSE IF state = 6 /\ type \in {7, 9} THEN 3
               ELSE IF state = 7 /\ type \in {1, 7, 9} THEN 3
               ELSE IF state = 8 /\ type = 1 THEN 3
               ELSE 1
  BY DEF Strings!Decode, Strings!Accept, Strings!Reject

\* The bytes that take decode() from a state to the end of a code point.
LEMMA RangesByState ==
    /\ Strings!RangesOf(0) = <<>> /\ Strings!RangesOf(1) = <<>>
    /\ Strings!RangesOf(2) = <<Strings!Trail>>
    /\ Strings!RangesOf(3) = <<Strings!Trail, Strings!Trail>>
    /\ Strings!RangesOf(4) = <<160..191, Strings!Trail>>
    /\ Strings!RangesOf(5) = <<128..159, Strings!Trail>>
    /\ Strings!RangesOf(6) = <<144..191, Strings!Trail, Strings!Trail>>
    /\ Strings!RangesOf(7) = <<Strings!Trail, Strings!Trail, Strings!Trail>>
    /\ Strings!RangesOf(8) = <<128..143, Strings!Trail, Strings!Trail>>
  BY DEF Strings!RangesOf

\* Where decode() goes from a state with a byte.
After(state, b) == Strings!Decode(state, Strings!TypeOf(b))

\* A tuple of ranges, taken apart.
LEMMA HeadsAndTails ==
    /\ \A A : Head(<<A>>) = A /\ Tail(<<A>>) = <<>> /\ <<A>> # <<>>
    /\ \A A, B : Head(<<A, B>>) = A /\ Tail(<<A, B>>) = <<B>> /\ <<A, B>> # <<>>
    /\ \A A, B, C : Head(<<A, B, C>>) = A /\ Tail(<<A, B, C>>) = <<B, C>> /\ <<A, B, C>> # <<>>
  OBVIOUS

\* The lexer and decode() want the same bytes after the first one of a code point.
LEMMA DecodeLead ==
    ASSUME NEW b \in Strings!Byte
    PROVE  /\ b < 128 => After(0, b) = 0
           /\ b >= 128 =>
                 /\ After(0, b) \in 1..8
                 /\ Strings!Followers(b) = Strings!RangesOf(After(0, b))
<1>1. b < 128 => After(0, b) = 0
  BY TypeOfByte, DecodeFromAccept DEF After
<1>2. ASSUME b >= 128
      PROVE  /\ After(0, b) \in 1..8
             /\ Strings!Followers(b) = Strings!RangesOf(After(0, b))
  <2>0. b \in 128..255
    BY <1>2 DEF Strings!Byte
  <2>1. CASE b \in 194..223
    <3>1. After(0, b) = 2
      BY <2>0, <2>1, TypeOfByte, DecodeFromAccept DEF After
    <3>0. b # 224 /\ ~(b \in 225..239 /\ b # 237) /\ b # 237 /\ b # 240 /\ b \notin 241..243 /\ b # 244
      BY <2>1
    <3>2. Strings!Followers(b) = <<Strings!Trail>>
      BY <2>1, <3>0 DEF Strings!Followers
    <3>3. Strings!RangesOf(2) = <<Strings!Trail>>
      BY DEF Strings!RangesOf
    <3>4. Strings!Followers(b) = Strings!RangesOf(After(0, b))
      BY <2>1, <3>1, <3>2, <3>3, Zenon
    <3> QED
      BY <3>1, <3>4
  <2>2. CASE b = 224
    <3>1. After(0, b) = 4
      BY <2>0, <2>2, TypeOfByte, DecodeFromAccept DEF After
    <3>2. b = 224 => Strings!Followers(b) = <<160..191, Strings!Trail>>
      BY <2>0 DEF Strings!Followers
    <3>3. Strings!RangesOf(4) = <<160..191, Strings!Trail>>
      BY DEF Strings!RangesOf
    <3>4. Strings!Followers(b) = Strings!RangesOf(After(0, b))
      BY <2>2, <3>1, <3>2, <3>3, Zenon
    <3> QED
      BY <3>1, <3>4
  <2>3. CASE b \in 225..239 /\ b # 237
    <3>1. After(0, b) = 3
      BY <2>0, <2>3, TypeOfByte, DecodeFromAccept DEF After
    <3>2. b \in 225..239 /\ b # 237 => Strings!Followers(b) = <<Strings!Trail, Strings!Trail>>
      BY <2>0 DEF Strings!Followers
    <3>3. Strings!RangesOf(3) = <<Strings!Trail, Strings!Trail>>
      BY DEF Strings!RangesOf
    <3>4. Strings!Followers(b) = Strings!RangesOf(After(0, b))
      BY <2>3, <3>1, <3>2, <3>3, Zenon
    <3> QED
      BY <3>1, <3>4
  <2>4. CASE b = 237
    <3>1. After(0, b) = 5
      BY <2>0, <2>4, TypeOfByte, DecodeFromAccept DEF After
    <3>2. b = 237 => Strings!Followers(b) = <<128..159, Strings!Trail>>
      BY <2>0 DEF Strings!Followers
    <3>3. Strings!RangesOf(5) = <<128..159, Strings!Trail>>
      BY DEF Strings!RangesOf
    <3>4. Strings!Followers(b) = Strings!RangesOf(After(0, b))
      BY <2>4, <3>1, <3>2, <3>3, Zenon
    <3> QED
      BY <3>1, <3>4
  <2>5. CASE b = 240
    <3>1. After(0, b) = 6
      BY <2>0, <2>5, TypeOfByte, DecodeFromAccept DEF After
    <3>2. b = 240 => Strings!Followers(b) = <<144..191, Strings!Trail, Strings!Trail>>
      BY <2>0 DEF Strings!Followers
    <3>3. Strings!RangesOf(6) = <<144..191, Strings!Trail, Strings!Trail>>
      BY DEF Strings!RangesOf
    <3>4. Strings!Followers(b) = Strings!RangesOf(After(0, b))
      BY <2>5, <3>1, <3>2, <3>3, Zenon
    <3> QED
      BY <3>1, <3>4
  <2>6. CASE b \in 241..243
    <3>1. After(0, b) = 7
      BY <2>0, <2>6, TypeOfByte, DecodeFromAccept DEF After
    <3>2. b \in 241..243 => Strings!Followers(b) = <<Strings!Trail, Strings!Trail, Strings!Trail>>
      BY <2>0 DEF Strings!Followers
    <3>3. Strings!RangesOf(7) = <<Strings!Trail, Strings!Trail, Strings!Trail>>
      BY DEF Strings!RangesOf
    <3>4. Strings!Followers(b) = Strings!RangesOf(After(0, b))
      BY <2>6, <3>1, <3>2, <3>3, Zenon
    <3> QED
      BY <3>1, <3>4
  <2>7. CASE b = 244
    <3>1. After(0, b) = 8
      BY <2>0, <2>7, TypeOfByte, DecodeFromAccept DEF After
    <3>2. b = 244 => Strings!Followers(b) = <<128..143, Strings!Trail, Strings!Trail>>
      BY <2>0 DEF Strings!Followers
    <3>3. Strings!RangesOf(8) = <<128..143, Strings!Trail, Strings!Trail>>
      BY DEF Strings!RangesOf
    <3>4. Strings!Followers(b) = Strings!RangesOf(After(0, b))
      BY <2>7, <3>1, <3>2, <3>3, Zenon
    <3> QED
      BY <3>1, <3>4
  <2>8. CASE b < 194 \/ b > 244
    <3>1. After(0, b) = 1
      BY <2>0, <2>8, TypeOfByte, DecodeFromAccept DEF After
    <3>2. b < 194 \/ b > 244 => Strings!Followers(b) = <<>>
      BY <2>0 DEF Strings!Followers
    <3>3. Strings!RangesOf(1) = <<>>
      BY DEF Strings!RangesOf
    <3>4. Strings!Followers(b) = Strings!RangesOf(After(0, b))
      BY <2>8, <3>1, <3>2, <3>3, Zenon
    <3> QED
      BY <3>1, <3>4
  <2> QED
    BY <2>0, <2>1, <2>2, <2>3, <2>4, <2>5, <2>6, <2>7, <2>8
<1> QED
  BY <1>1, <1>2

\* The type of a byte is that of one that follows exactly if it is in Trail.
LEMMA TypeOfTrail ==
    ASSUME NEW b \in Strings!Byte
    PROVE  /\ Strings!TypeOf(b) \in 0..11
           /\ Strings!TypeOf(b) = 1 <=> b \in 128..143
           /\ Strings!TypeOf(b) = 9 <=> b \in 144..159
           /\ Strings!TypeOf(b) = 7 <=> b \in 160..191
<1>1. \/ b < 128 \/ b \in 128..143 \/ b \in 144..159 \/ b \in 160..191 \/ b \in 192..193
      \/ b \in 194..223 \/ b = 224 \/ (b \in 225..239 /\ b # 237) \/ b = 237
      \/ b = 240 \/ b \in 241..243 \/ b = 244 \/ b > 244
  BY DEF Strings!Byte
<1> QED
  BY <1>1, TypeOfByte DEF Strings!Byte

\* Within a code point decode() goes from state to state, or rejects.
LEMMA DecodeTail ==
    ASSUME NEW b \in Strings!Byte, NEW state \in 2..8
    PROVE  /\ After(state, b) \in {0, 1, 2, 3}
           /\ After(state, b) # 1 => b \in 128..191
           /\ After(state, b) = 0 <=> state = 2 /\ b \in 128..191
           /\ After(state, b) = 2 => state \in {3, 4, 5}
           /\ After(state, b) = 3 => state \in {6, 7, 8}
           /\ state = 4 /\ After(state, b) = 2 => b >= 160
           /\ state = 6 /\ After(state, b) = 3 => b >= 144
<1>1. Strings!TypeOf(b) \in 0..11
  BY TypeOfTrail
<1>2. After(state, b) = Strings!Decode(state, Strings!TypeOf(b))
  BY DEF After
<1> QED
  BY <1>1, <1>2, DecodeWithin, TypeOfTrail DEF Strings!Byte

\* And so the lexer and decode() do from each byte to the next.
LEMMA RangesTail ==
    ASSUME NEW b \in Strings!Byte, NEW state \in 2..8
    PROVE  /\ Strings!RangesOf(state) # <<>>
           /\ b \in Head(Strings!RangesOf(state)) <=> After(state, b) # 1
           /\ After(state, b) # 1 =>
                  Tail(Strings!RangesOf(state)) = Strings!RangesOf(After(state, b))
<1> DEFINE T == Strings!Trail
<1>0. T = 128..191
  BY DEF Strings!Trail
<1>1. b \in T <=> Strings!TypeOf(b) \in {1, 7, 9}
  BY <1>0, TypeOfTrail DEF Strings!Byte
<1>2. /\ b \in 160..191 <=> Strings!TypeOf(b) = 7
      /\ b \in 128..159 <=> Strings!TypeOf(b) \in {1, 9}
      /\ b \in 144..191 <=> Strings!TypeOf(b) \in {7, 9}
      /\ b \in 128..143 <=> Strings!TypeOf(b) = 1
  BY TypeOfTrail DEF Strings!Byte
<1>3. Strings!TypeOf(b) \in 0..11
  BY TypeOfTrail
<1>4. CASE state = 2
  <2>1. Strings!RangesOf(2) = <<T>> /\ Strings!RangesOf(0) = <<>>
    BY RangesByState
  <2>2. Head(<<T>>) = T /\ Tail(<<T>>) = <<>> /\ <<T>> # <<>>
    BY HeadsAndTails
  <2>3. After(state, b) = IF Strings!TypeOf(b) \in {1, 7, 9} THEN 0 ELSE 1
    BY <1>3, <1>4, DecodeWithin DEF After
  <2>4. /\ b \in T <=> After(state, b) # 1
        /\ After(state, b) # 1 => After(state, b) = 0
    BY <1>0, <1>1, <1>2, <2>3
  <2> QED
    BY <1>4, <2>1, <2>2, <2>4, Zenon
<1>5. CASE state = 3
  <2>1. Strings!RangesOf(3) = <<T, T>> /\ Strings!RangesOf(2) = <<T>>
    BY RangesByState
  <2>2. Head(<<T, T>>) = T /\ Tail(<<T, T>>) = <<T>> /\ <<T, T>> # <<>>
    BY HeadsAndTails
  <2>3. After(state, b) = IF Strings!TypeOf(b) \in {1, 7, 9} THEN 2 ELSE 1
    BY <1>3, <1>5, DecodeWithin DEF After
  <2>4. /\ b \in T <=> After(state, b) # 1
        /\ After(state, b) # 1 => After(state, b) = 2
    BY <1>0, <1>1, <1>2, <2>3
  <2> QED
    BY <1>5, <2>1, <2>2, <2>4, Zenon
<1>6. CASE state = 4
  <2>1. Strings!RangesOf(4) = <<160..191, T>> /\ Strings!RangesOf(2) = <<T>>
    BY RangesByState
  <2>2. Head(<<160..191, T>>) = 160..191 /\ Tail(<<160..191, T>>) = <<T>> /\ <<160..191, T>> # <<>>
    BY HeadsAndTails
  <2>3. After(state, b) = IF Strings!TypeOf(b) = 7 THEN 2 ELSE 1
    BY <1>3, <1>6, DecodeWithin DEF After
  <2>4. /\ b \in 160..191 <=> After(state, b) # 1
        /\ After(state, b) # 1 => After(state, b) = 2
    BY <1>0, <1>1, <1>2, <2>3
  <2> QED
    BY <1>6, <2>1, <2>2, <2>4, Zenon
<1>7. CASE state = 5
  <2>1. Strings!RangesOf(5) = <<128..159, T>> /\ Strings!RangesOf(2) = <<T>>
    BY RangesByState
  <2>2. Head(<<128..159, T>>) = 128..159 /\ Tail(<<128..159, T>>) = <<T>> /\ <<128..159, T>> # <<>>
    BY HeadsAndTails
  <2>3. After(state, b) = IF Strings!TypeOf(b) \in {1, 9} THEN 2 ELSE 1
    BY <1>3, <1>7, DecodeWithin DEF After
  <2>4. /\ b \in 128..159 <=> After(state, b) # 1
        /\ After(state, b) # 1 => After(state, b) = 2
    BY <1>0, <1>1, <1>2, <2>3
  <2> QED
    BY <1>7, <2>1, <2>2, <2>4, Zenon
<1>8. CASE state = 6
  <2>1. Strings!RangesOf(6) = <<144..191, T, T>> /\ Strings!RangesOf(3) = <<T, T>>
    BY RangesByState
  <2>2. Head(<<144..191, T, T>>) = 144..191 /\ Tail(<<144..191, T, T>>) = <<T, T>> /\ <<144..191, T, T>> # <<>>
    BY HeadsAndTails
  <2>3. After(state, b) = IF Strings!TypeOf(b) \in {7, 9} THEN 3 ELSE 1
    BY <1>3, <1>8, DecodeWithin DEF After
  <2>4. /\ b \in 144..191 <=> After(state, b) # 1
        /\ After(state, b) # 1 => After(state, b) = 3
    BY <1>0, <1>1, <1>2, <2>3
  <2> QED
    BY <1>8, <2>1, <2>2, <2>4, Zenon
<1>9. CASE state = 7
  <2>1. Strings!RangesOf(7) = <<T, T, T>> /\ Strings!RangesOf(3) = <<T, T>>
    BY RangesByState
  <2>2. Head(<<T, T, T>>) = T /\ Tail(<<T, T, T>>) = <<T, T>> /\ <<T, T, T>> # <<>>
    BY HeadsAndTails
  <2>3. After(state, b) = IF Strings!TypeOf(b) \in {1, 7, 9} THEN 3 ELSE 1
    BY <1>3, <1>9, DecodeWithin DEF After
  <2>4. /\ b \in T <=> After(state, b) # 1
        /\ After(state, b) # 1 => After(state, b) = 3
    BY <1>0, <1>1, <1>2, <2>3
  <2> QED
    BY <1>9, <2>1, <2>2, <2>4, Zenon
<1>10. CASE state = 8
  <2>1. Strings!RangesOf(8) = <<128..143, T, T>> /\ Strings!RangesOf(3) = <<T, T>>
    BY RangesByState
  <2>2. Head(<<128..143, T, T>>) = 128..143 /\ Tail(<<128..143, T, T>>) = <<T, T>> /\ <<128..143, T, T>> # <<>>
    BY HeadsAndTails
  <2>3. After(state, b) = IF Strings!TypeOf(b) = 1 THEN 3 ELSE 1
    BY <1>3, <1>10, DecodeWithin DEF After
  <2>4. /\ b \in 128..143 <=> After(state, b) # 1
        /\ After(state, b) # 1 => After(state, b) = 3
    BY <1>0, <1>1, <1>2, <2>3
  <2> QED
    BY <1>10, <2>1, <2>2, <2>4, Zenon
<1>11. state = 2 \/ state = 3 \/ state = 4 \/ state = 5 \/ state = 6 \/ state = 7 \/ state = 8
  OBVIOUS
<1> QED
  BY <1>11, <1>4, <1>5, <1>6, <1>7, <1>8, <1>9, <1>10, Zenon

-----------------------------------------------------------------------------
(* The strings of a document: the lexer *)

\* A lexer by its fields.
Lex(at, buffer, ranges, digits, number, high) ==
    [at |-> at, buffer |-> buffer, ranges |-> ranges, digits |-> digits, number |-> number, high |-> high]

\* The fields of a lexer that is written out.
LEMMA LexFields ==
    ASSUME NEW at, NEW buffer, NEW ranges, NEW digits, NEW number, NEW high
    PROVE  /\ Lex(at, buffer, ranges, digits, number, high).at = at
           /\ Lex(at, buffer, ranges, digits, number, high).buffer = buffer
           /\ Lex(at, buffer, ranges, digits, number, high).ranges = ranges
           /\ Lex(at, buffer, ranges, digits, number, high).digits = digits
           /\ Lex(at, buffer, ranges, digits, number, high).number = number
           /\ Lex(at, buffer, ranges, digits, number, high).high = high
  BY DEF Lex

\* A lexer that is written out, of fields of the right kind, is one.
LEMMA LexIsLexer ==
    ASSUME NEW at \in Strings!Place, NEW buffer \in Seq(Strings!Byte), NEW ranges \in Seq(SUBSET Strings!Byte),
           NEW digits \in 0..3, NEW number \in Nat, NEW high \in {0} \cup Strings!HighSurrogate
    PROVE  Lex(at, buffer, ranges, digits, number, high) \in Strings!Lexer
  BY DEF Lex, Strings!Lexer

\* Every lexer can be written out by its fields.
LEMMA LexerIsLex ==
    ASSUME NEW s \in Strings!Lexer
    PROVE  /\ s = Lex(s.at, s.buffer, s.ranges, s.digits, s.number, s.high)
           /\ s.at \in Strings!Place /\ s.buffer \in Seq(Strings!Byte) /\ s.ranges \in Seq(SUBSET Strings!Byte)
           /\ s.digits \in 0..3 /\ s.number \in Nat
           /\ s.high \in {0} \cup Strings!HighSurrogate
  BY DEF Lex, Strings!Lexer

\* Between two code points a lexer expects nothing, inside of one the rest of its bytes.
LEMMA WithinIsLex ==
    ASSUME NEW buffer, NEW ranges
    PROVE  /\ ranges = <<>> => Strings!Within(buffer, ranges) = Lex("string", buffer, ranges, 0, 0, 0)
           /\ ranges # <<>> => Strings!Within(buffer, ranges) = Lex("bytes", buffer, ranges, 0, 0, 0)
<1>1. ranges = <<>> => (IF ranges = <<>> THEN "string" ELSE "bytes") = "string"
  OBVIOUS
<1>2. ranges # <<>> => (IF ranges = <<>> THEN "string" ELSE "bytes") = "bytes"
  OBVIOUS
<1> QED
  BY <1>1, <1>2, Zenon DEF Lex, Strings!Within

\* Going to another place of a literal changes the place alone.
LEMMA GotoLex ==
    ASSUME NEW at, NEW buffer, NEW ranges, NEW digits, NEW number, NEW high, NEW to
    PROVE  Strings!Goto(Lex(at, buffer, ranges, digits, number, high), to) =
               Lex(to, buffer, ranges, digits, number, high)
  BY DEF Lex, Strings!Goto

\* Taking a digit of a \u escape counts it and keeps the number so far.
LEMMA DigitTaken ==
    ASSUME NEW at, NEW buffer, NEW ranges, NEW digits, NEW number, NEW high, NEW n
    PROVE  Strings!WithDigit(Lex(at, buffer, ranges, digits, number, high), n) =
               Lex(at, buffer, ranges, digits + 1, n, high)
<1> DEFINE r == Lex(at, buffer, ranges, digits, number, high)
           r1 == [r EXCEPT !.digits = digits + 1]
<1>1. r1 = Lex(at, buffer, ranges, digits + 1, number, high)
  BY DEF Lex
<1>2. [r EXCEPT !.digits = @ + 1, !.number = n] = [r1 EXCEPT !.number = n]
  BY Zenon DEF Lex
<1>3. [Lex(at, buffer, ranges, digits + 1, number, high) EXCEPT !.number = n]
          = Lex(at, buffer, ranges, digits + 1, n, high)
  BY DEF Lex
<1> HIDE DEF r, r1
<1> QED
  BY <1>1, <1>2, <1>3, Zenon DEF r, Strings!WithDigit

\* Taking the first half of a surrogate pair starts the second from nothing.
LEMMA HighTaken ==
    ASSUME NEW at, NEW buffer, NEW ranges, NEW digits, NEW number, NEW high, NEW n
    PROVE  Strings!WithHigh(Lex(at, buffer, ranges, digits, number, high), n) =
               Lex("low", buffer, ranges, 0, 0, n)
<1> DEFINE r == Lex(at, buffer, ranges, digits, number, high)
           r1 == [r EXCEPT !.at = "low"]
           r2 == [r1 EXCEPT !.high = n]
           r3 == [r2 EXCEPT !.digits = 0]
<1>1. r1 = Lex("low", buffer, ranges, digits, number, high)
  BY DEF Lex
<1>2. [Lex("low", buffer, ranges, digits, number, high) EXCEPT !.high = n]
          = Lex("low", buffer, ranges, digits, number, n)
  BY DEF Lex
<1>3. [Lex("low", buffer, ranges, digits, number, n) EXCEPT !.digits = 0]
          = Lex("low", buffer, ranges, 0, number, n)
  BY DEF Lex
<1>4. [Lex("low", buffer, ranges, 0, number, n) EXCEPT !.number = 0]
          = Lex("low", buffer, ranges, 0, 0, n)
  BY DEF Lex
<1>5. [r EXCEPT !.at = "low", !.high = n, !.digits = 0, !.number = 0] = [r3 EXCEPT !.number = 0]
  BY Zenon DEF Lex
<1> HIDE DEF r, r1
<1> QED
  BY <1>1, <1>2, <1>3, <1>4, <1>5, Zenon DEF r, Strings!WithHigh

\* The value of a hexadecimal digit.
LEMMA DigitValue ==
    ASSUME NEW b \in Strings!Byte
    PROVE  Strings!DigitOf(b) \in -1..15
<1>1. CASE b \in 48..57
  BY <1>1 DEF Strings!Byte, Strings!DigitOf
<1>2. CASE b \in 65..70
  BY <1>2 DEF Strings!Byte, Strings!DigitOf
<1>3. CASE b \in 97..102
  BY <1>3 DEF Strings!Byte, Strings!DigitOf
<1>4. CASE b \notin 48..57 /\ b \notin 65..70 /\ b \notin 97..102
  BY <1>4 DEF Strings!Byte, Strings!DigitOf
<1> QED
  BY <1>1, <1>2, <1>3, <1>4

-----------------------------------------------------------------------------
(* The strings of a document: bytes that are UTF-8 *)

\* Where decode() goes with the bytes that begin and continue a code point.
LEMMA AfterLead ==
    ASSUME NEW b \in Strings!Byte
    PROVE  /\ b \in 194..223 => After(0, b) = 2
           /\ b = 224 => After(0, b) = 4
           /\ b \in 225..239 /\ b # 237 => After(0, b) = 3
           /\ b = 237 => After(0, b) = 5
           /\ b = 240 => After(0, b) = 6
           /\ b \in 241..243 => After(0, b) = 7
           /\ b = 244 => After(0, b) = 8
  BY TypeOfByte, DecodeFromAccept DEF After

\* What the decode table answers to a byte that may follow (json.hpp:18824-18853).
LEMMA AfterTrail ==
    ASSUME NEW b \in Strings!Byte
    PROVE  /\ b \in 128..191 => After(2, b) = 0 /\ After(3, b) = 2 /\ After(7, b) = 3
           /\ b \in 160..191 => After(4, b) = 2
           /\ b \in 128..159 => After(5, b) = 2
           /\ b \in 144..191 => After(6, b) = 3
           /\ b \in 128..143 => After(8, b) = 3
<1>1. Strings!TypeOf(b) \in 0..11
  BY TypeOfTrail
<1>2. /\ b \in 128..191 <=> Strings!TypeOf(b) \in {1, 7, 9}
      /\ b \in 160..191 <=> Strings!TypeOf(b) = 7
      /\ b \in 128..159 <=> Strings!TypeOf(b) \in {1, 9}
      /\ b \in 144..191 <=> Strings!TypeOf(b) \in {7, 9}
      /\ b \in 128..143 <=> Strings!TypeOf(b) = 1
  BY TypeOfTrail DEF Strings!Byte
<1> QED
  BY <1>1, <1>2, DecodeWithin DEF After

\* The states of decode() over a sequence of bytes, none of them UTF8_REJECT.
Decodes(p, q) ==
    /\ q \in [0..Len(p) -> 0..8 \ {1}]
    /\ \A i \in 1..Len(p) : q[i] = After(q[i - 1], p[i])

\* They lead decode() from a state to a state.
Leads(p, from, to) == \E q : Decodes(p, q) /\ q[0] = from /\ q[Len(p)] = to

\* A run of the decoder over one byte.
LEMMA LeadsByOne ==
    ASSUME NEW b \in Strings!Byte, NEW from \in 0..8 \ {1}, NEW to \in 0..8 \ {1}, After(from, b) = to
    PROVE  Leads(<<b>>, from, to)
<1> DEFINE p == <<b>>
           q == [i \in 0..1 |-> IF i = 0 THEN from ELSE to]
<1>1. Len(p) = 1 /\ p[1] = b
  OBVIOUS
<1>2. q \in [0..1 -> 0..8 \ {1}] /\ q[0] = from /\ q[1] = to
  OBVIOUS
<1> HIDE DEF p, q
<1>3. \A i \in 1..1 : q[i] = After(q[i - 1], p[i])
  <2>1. q[1] = After(q[1 - 1], p[1])
    BY <1>1, <1>2
  <2>2. \A i \in 1..1 : i = 1
    OBVIOUS
  <2> QED
    BY <2>1, <2>2, Zenon
<1>4. Decodes(p, q)
  BY <1>1, <1>2, <1>3 DEF Decodes
<1>5. Leads(p, from, to)
  BY <1>1, <1>2, <1>4 DEF Leads
<1> QED
  BY <1>5 DEF p

\* Runs of the decoder, one after the other, are a run.
LEMMA LeadsOn ==
    ASSUME NEW p1 \in Seq(Strings!Byte), NEW p2 \in Seq(Strings!Byte), NEW from, NEW mid, NEW to,
           Leads(p1, from, mid), Leads(p2, mid, to)
    PROVE  Leads(p1 \o p2, from, to)
<1>1. PICK q1 : Decodes(p1, q1) /\ q1[0] = from /\ q1[Len(p1)] = mid
  BY Zenon DEF Leads
<1>2. PICK q2 : Decodes(p2, q2) /\ q2[0] = mid /\ q2[Len(p2)] = to
  BY Zenon DEF Leads
<1> DEFINE n1 == Len(p1)
           n2 == Len(p2)
           p == p1 \o p2
           q == [i \in 0..n1 + n2 |-> IF i <= n1 THEN q1[i] ELSE q2[i - n1]]
<1>3. n1 \in Nat /\ n2 \in Nat
  OBVIOUS
<1>4. /\ Len(p) = n1 + n2
      /\ \A i \in 1..n1 + n2 : p[i] = IF i <= n1 THEN p1[i] ELSE p2[i - n1]
  BY ConcatProperties
<1>5. /\ q1 \in [0..n1 -> 0..8 \ {1}] /\ q2 \in [0..n2 -> 0..8 \ {1}]
      /\ \A i \in 1..n1 : q1[i] = After(q1[i - 1], p1[i])
      /\ \A i \in 1..n2 : q2[i] = After(q2[i - 1], p2[i])
      /\ q1[0] = from /\ q1[n1] = mid /\ q2[0] = mid /\ q2[n2] = to
  BY <1>1, <1>2 DEF Decodes
<1> HIDE DEF n1, n2, p
<1>6. q \in [0..n1 + n2 -> 0..8 \ {1}]
  BY <1>3, <1>5
<1>7. ASSUME NEW i \in 0..n1 + n2
      PROVE  q[i] = IF i <= n1 THEN q1[i] ELSE q2[i - n1]
  OBVIOUS
<1> HIDE DEF q
<1>8. q[0] = from /\ q[n1 + n2] = to
  BY <1>3, <1>5, <1>7
<1>9. ASSUME NEW i \in 1..n1 + n2
      PROVE  q[i] = After(q[i - 1], p[i])
  <2>1. CASE i <= n1
    <3>1. i \in 1..n1 /\ i \in 0..n1 + n2 /\ i - 1 \in 0..n1 + n2 /\ i - 1 <= n1
      BY <1>3, <2>1
    <3>2. q[i] = q1[i] /\ q[i - 1] = q1[i - 1] /\ p[i] = p1[i]
      BY <1>4, <1>7, <2>1, <3>1
    <3> QED
      BY <1>5, <3>1, <3>2
  <2>2. CASE i > n1
    <3>1. i - n1 \in 1..n2 /\ i \in 0..n1 + n2 /\ i - 1 \in 0..n1 + n2 /\ ~(i <= n1)
      BY <1>3, <2>2
    <3>2. q[i] = q2[i - n1] /\ p[i] = p2[i - n1]
      BY <1>4, <1>7, <3>1
    <3>3. q[i - 1] = q2[i - n1 - 1]
      <4>1. CASE i - 1 <= n1
        <5>1. i - 1 = n1 /\ i - n1 - 1 = 0
          BY <1>3, <2>2, <4>1
        <5> QED
          BY <1>5, <1>7, <3>1, <5>1
      <4>2. CASE ~(i - 1 <= n1)
        <5>1. q[i - 1] = q2[i - 1 - n1] /\ i - 1 - n1 = i - n1 - 1
          BY <1>3, <1>7, <3>1, <4>2
        <5> QED
          BY <5>1
      <4> QED
        BY <4>1, <4>2
    <3> QED
      BY <1>5, <3>1, <3>2, <3>3
  <2> QED
    BY <1>3, <2>1, <2>2
<1>10. Decodes(p, q)
  BY <1>4, <1>6, <1>9 DEF Decodes
<1>11. Leads(p, from, to)
  BY <1>4, <1>8, <1>10 DEF Leads
<1> QED
  BY <1>11 DEF p

\* A run of the decoder goes on by one byte.
LEMMA LeadsByAppend ==
    ASSUME NEW p \in Seq(Strings!Byte), NEW b \in Strings!Byte,
           NEW from, NEW mid \in 0..8 \ {1}, NEW to \in 0..8 \ {1},
           Leads(p, from, mid), After(mid, b) = to
    PROVE  Append(p, b) \in Seq(Strings!Byte) /\ Leads(Append(p, b), from, to)
<1>1. Leads(<<b>>, mid, to) /\ <<b>> \in Seq(Strings!Byte)
  BY LeadsByOne
<1>2. Leads(p \o <<b>>, from, to)
  BY <1>1, LeadsOn
<1>3. Append(p, b) = p \o <<b>>
  BY AppendIsConcat
<1>4. Append(p, b) \in Seq(Strings!Byte)
  BY AppendProperties
<1> QED
  BY <1>2, <1>3, <1>4, Zenon

\* A run of the decoder over two bytes.
LEMMA LeadsByTwo ==
    ASSUME NEW a \in Strings!Byte, NEW b \in Strings!Byte,
           NEW s \in 0..8 \ {1}, NEW t \in 0..8 \ {1}, NEW u \in 0..8 \ {1},
           After(s, a) = t, After(t, b) = u
    PROVE  <<a, b>> \in Seq(Strings!Byte) /\ Leads(<<a, b>>, s, u)
<1>1. Leads(<<a>>, s, t) /\ <<a>> \in Seq(Strings!Byte)
  BY LeadsByOne
<1>2. <<a, b>> = Append(<<a>>, b)
  OBVIOUS
<1>3. Append(<<a>>, b) \in Seq(Strings!Byte) /\ Leads(Append(<<a>>, b), s, u)
  BY <1>1, LeadsByAppend
<1> QED
  BY <1>2, <1>3, Zenon

\* A run of the decoder over three bytes.
LEMMA LeadsByThree ==
    ASSUME NEW a \in Strings!Byte, NEW b \in Strings!Byte, NEW c \in Strings!Byte,
           NEW s \in 0..8 \ {1}, NEW t \in 0..8 \ {1}, NEW u \in 0..8 \ {1}, NEW v \in 0..8 \ {1},
           After(s, a) = t, After(t, b) = u, After(u, c) = v
    PROVE  <<a, b, c>> \in Seq(Strings!Byte) /\ Leads(<<a, b, c>>, s, v)
<1>1. Leads(<<a, b>>, s, u) /\ <<a, b>> \in Seq(Strings!Byte)
  BY LeadsByTwo
<1>2. <<a, b, c>> = Append(<<a, b>>, c)
  OBVIOUS
<1>3. Append(<<a, b>>, c) \in Seq(Strings!Byte) /\ Leads(Append(<<a, b>>, c), s, v)
  BY <1>1, LeadsByAppend
<1> QED
  BY <1>2, <1>3, Zenon

\* A run of the decoder over four bytes.
LEMMA LeadsByFour ==
    ASSUME NEW a \in Strings!Byte, NEW b \in Strings!Byte, NEW c \in Strings!Byte, NEW d \in Strings!Byte,
           NEW s \in 0..8 \ {1}, NEW t \in 0..8 \ {1}, NEW u \in 0..8 \ {1}, NEW v \in 0..8 \ {1}, NEW w \in 0..8 \ {1},
           After(s, a) = t, After(t, b) = u, After(u, c) = v, After(v, d) = w
    PROVE  <<a, b, c, d>> \in Seq(Strings!Byte) /\ Leads(<<a, b, c, d>>, s, w)
<1>1. Leads(<<a, b, c>>, s, v) /\ <<a, b, c>> \in Seq(Strings!Byte)
  BY LeadsByThree
<1>2. <<a, b, c, d>> = Append(<<a, b, c>>, d)
  OBVIOUS
<1>3. Append(<<a, b, c>>, d) \in Seq(Strings!Byte) /\ Leads(Append(<<a, b, c>>, d), s, w)
  BY <1>1, LeadsByAppend
<1> QED
  BY <1>2, <1>3, Zenon

\* A byte that follows, made of six bits.
LEMMA ContIsTrail ==
    ASSUME NEW n \in Nat
    PROVE  Strings!Cont(n) \in 128..191 /\ Strings!Cont(n) = 128 + (n % 64)
  BY DEF Strings!Cont

\* A code point that is no surrogate.
Scalar(n) == n <= 1114111 /\ n \notin Strings!HighSurrogate /\ n \notin Strings!LowSurrogate

\* What a \u escape or a pair of them is made into is UTF-8: the lexer refuses
\* surrogates that make no pair.
LEMMA Utf8Leads ==
    ASSUME NEW n \in Nat, Scalar(n)
    PROVE  Strings!Utf8(n) \in Seq(Strings!Byte) /\ Leads(Strings!Utf8(n), 0, 0)
<1> DEFINE U == Strings!Utf8(n)
<1>1. CASE n < 128
  <2>1. U = <<n>>
    BY <1>1 DEF Strings!Utf8
  <2>2. n \in Strings!Byte /\ <<n>> \in Seq(Strings!Byte)
    BY <1>1 DEF Strings!Byte
  <2>3. After(0, n) = 0
    BY <1>1, <2>2, DecodeLead
  <2>4. Leads(<<n>>, 0, 0)
    BY <2>2, <2>3, LeadsByOne
  <2> QED
    BY <2>1, <2>2, <2>4, Zenon
<1>2. CASE n \in 128..2047
  <2> DEFINE a == 192 + n \div 64
             b == Strings!Cont(n)
  <2>0. ~(n < 128) /\ n < 2048
    BY <1>2
  <2>1. U = <<a, b>>
    BY <1>2, <2>0, SMT DEF Strings!Utf8
  <2>2. a \in 194..223 /\ b \in 128..191
    BY <1>2, ContIsTrail
  <2> HIDE DEF a, b
  <2>3. a \in Strings!Byte /\ b \in Strings!Byte
    BY <2>2 DEF Strings!Byte
  <2>4. After(0, a) = 2 /\ After(2, b) = 0
    BY <2>2, <2>3, AfterLead, AfterTrail
  <2>5. <<a, b>> \in Seq(Strings!Byte) /\ Leads(<<a, b>>, 0, 0)
    BY <2>3, <2>4, LeadsByTwo
  <2> QED
    BY <2>1, <2>5, Zenon
<1>3. CASE ~(n < 128) /\ ~(n < 2048) /\ n <= 65535
  <2> DEFINE a == 224 + n \div 4096
             b == Strings!Cont(n \div 64)
             c == Strings!Cont(n)
  <2>1. U = <<a, b, c>>
    BY <1>3, SMT DEF Strings!Utf8
  <2>2. a \in 224..239 /\ n \div 64 \in Nat
    BY <1>3, SMT
  <2>3. b \in 128..191 /\ b = 128 + ((n \div 64) % 64) /\ c \in 128..191
    BY <2>2, ContIsTrail
  <2>4. ASSUME a = 224
        PROVE  b >= 160
    <3>1. n \in 2048..4095
      BY <1>3, <2>4, SMT
    <3>2. n \div 64 \in 32..63
      BY <3>1, SMT
    <3> QED
      BY <2>3, <3>2, SMT
  <2>5. ASSUME a = 237
        PROVE  b <= 159
    <3>1. 53248 <= n /\ n <= 57343
      BY <1>3, <2>5, SMT
    <3>2. 53248 <= n /\ n <= 55295
      BY <3>1, SMT DEF Scalar, Strings!HighSurrogate, Strings!LowSurrogate
    <3>3. n \div 64 >= 832 /\ n \div 64 <= 863
      BY <3>2, SMT
    <3> QED
      BY <2>3, <3>3, SMT
  <2> HIDE DEF a, b, c
  <2>6. a \in Strings!Byte /\ b \in Strings!Byte /\ c \in Strings!Byte
    BY <2>2, <2>3 DEF Strings!Byte
  <2>7. \E t \in {3, 4, 5} : After(0, a) = t /\ After(t, b) = 2
    BY <2>2, <2>3, <2>4, <2>5, <2>6, AfterLead, AfterTrail
  <2>8. After(2, c) = 0
    BY <2>3, <2>6, AfterTrail
  <2>9. <<a, b, c>> \in Seq(Strings!Byte) /\ Leads(<<a, b, c>>, 0, 0)
    BY <2>6, <2>7, <2>8, LeadsByThree
  <2> QED
    BY <2>1, <2>9, Zenon
<1>4. CASE ~(n < 128) /\ ~(n < 2048) /\ ~(n <= 65535)
  <2> DEFINE a == 240 + n \div 262144
             b == Strings!Cont(n \div 4096)
             c == Strings!Cont(n \div 64)
             d == Strings!Cont(n)
  <2>1. U = <<a, b, c, d>>
    BY <1>4, SMT DEF Strings!Utf8
  <2>2. a \in 240..244 /\ n \div 64 \in Nat /\ n \div 4096 \in Nat
    BY <1>4, SMT DEF Scalar
  <2>3. b \in 128..191 /\ b = 128 + ((n \div 4096) % 64) /\ c \in 128..191 /\ d \in 128..191
    BY <2>2, ContIsTrail
  <2>4. ASSUME a = 240
        PROVE  b >= 144
    <3>1. 65536 <= n /\ n <= 262143
      BY <1>4, <2>4, SMT
    <3>2. n \div 4096 \in 16..63
      BY <3>1, SMT
    <3> QED
      BY <2>3, <3>2, SMT
  <2>5. ASSUME a = 244
        PROVE  b <= 143
    <3>1. 1048576 <= n /\ n <= 1114111
      BY <1>4, <2>5, SMT DEF Scalar
    <3>2. n \div 4096 >= 256 /\ n \div 4096 <= 271
      BY <3>1, SMT
    <3> QED
      BY <2>3, <3>2, SMT
  <2> HIDE DEF a, b, c, d
  <2>6. a \in Strings!Byte /\ b \in Strings!Byte /\ c \in Strings!Byte /\ d \in Strings!Byte
    BY <2>2, <2>3 DEF Strings!Byte
  <2>7. \E t \in {6, 7, 8} : After(0, a) = t /\ After(t, b) = 3
    BY <2>2, <2>3, <2>4, <2>5, <2>6, AfterLead, AfterTrail
  <2>8. After(3, c) = 2 /\ After(2, d) = 0
    BY <2>3, <2>6, AfterTrail
  <2>9. <<a, b, c, d>> \in Seq(Strings!Byte) /\ Leads(<<a, b, c, d>>, 0, 0)
    BY <2>6, <2>7, <2>8, LeadsByFour
  <2> QED
    BY <2>1, <2>9, Zenon
<1>5. n < 128 \/ n \in 128..2047 \/ (~(n < 128) /\ ~(n < 2048))
  OBVIOUS
<1> QED
  BY <1>1, <1>2, <1>3, <1>4, <1>5

-----------------------------------------------------------------------------
(* The strings of a document: a step of the lexer *)

\* The bytes that next_byte_in_range may still ask for are none between two code points.
LEMMA RangesAreRanges ==
    ASSUME NEW st \in 0..8 \ {1}
    PROVE  /\ Strings!RangesOf(st) \in Seq(SUBSET Strings!Byte)
           /\ Strings!RangesOf(st) = <<>> <=> st = 0
<1> DEFINE T == Strings!Trail
           R == Seq(SUBSET Strings!Byte)
<1>1. /\ T \in SUBSET Strings!Byte /\ 160..191 \in SUBSET Strings!Byte /\ 128..159 \in SUBSET Strings!Byte
      /\ 144..191 \in SUBSET Strings!Byte /\ 128..143 \in SUBSET Strings!Byte
  BY DEF Strings!Trail, Strings!Byte
<1>2. /\ <<>> \in R
      /\ \A A \in SUBSET Strings!Byte : <<A>> \in R
      /\ \A A, B \in SUBSET Strings!Byte : <<A, B>> \in R
      /\ \A A, B, C \in SUBSET Strings!Byte : <<A, B, C>> \in R
  OBVIOUS
<1> HIDE DEF T, R
<1>3. <<>> \in R /\ <<T>> \in R /\ <<T, T>> \in R /\ <<T, T, T>> \in R
  BY <1>1, <1>2, Zenon
<1>7. /\ <<160..191, T>> \in R /\ <<128..159, T>> \in R
      /\ <<144..191, T, T>> \in R /\ <<128..143, T, T>> \in R
  BY <1>1, <1>2, Zenon
<1>4. /\ <<T>> # <<>> /\ <<T, T>> # <<>> /\ <<160..191, T>> # <<>> /\ <<128..159, T>> # <<>>
      /\ <<144..191, T, T>> # <<>> /\ <<T, T, T>> # <<>> /\ <<128..143, T, T>> # <<>>
  BY HeadsAndTails, Zenon
<1>5. /\ Strings!RangesOf(0) = <<>> /\ Strings!RangesOf(2) = <<T>> /\ Strings!RangesOf(3) = <<T, T>>
      /\ Strings!RangesOf(4) = <<160..191, T>> /\ Strings!RangesOf(5) = <<128..159, T>>
      /\ Strings!RangesOf(6) = <<144..191, T, T>> /\ Strings!RangesOf(7) = <<T, T, T>>
      /\ Strings!RangesOf(8) = <<128..143, T, T>>
  BY RangesByState, Zenon DEF T
<1>6. st = 0 \/ st = 2 \/ st = 3 \/ st = 4 \/ st = 5 \/ st = 6 \/ st = 7 \/ st = 8
  OBVIOUS
<1>10. CASE st = 0
  <2>1. Strings!RangesOf(0) = <<>>
    BY <1>5, Zenon
  <2>2. <<>> \in R
    BY <1>3, <1>4, <1>7, Zenon
  <2>3. Strings!RangesOf(st) = Strings!RangesOf(0) /\ st = 0
    BY <1>10
  <2> QED
    BY <2>1, <2>2, <2>3, Zenon DEF R
<1>11. CASE st = 2
  <2>1. Strings!RangesOf(2) = <<T>>
    BY <1>5, Zenon
  <2>2. <<T>> \in R /\ <<T>> # <<>>
    BY <1>3, <1>4, <1>7, Zenon
  <2>3. Strings!RangesOf(st) = Strings!RangesOf(2) /\ st # 0
    BY <1>11
  <2> QED
    BY <2>1, <2>2, <2>3, Zenon DEF R
<1>12. CASE st = 3
  <2>1. Strings!RangesOf(3) = <<T, T>>
    BY <1>5, Zenon
  <2>2. <<T, T>> \in R /\ <<T, T>> # <<>>
    BY <1>3, <1>4, <1>7, Zenon
  <2>3. Strings!RangesOf(st) = Strings!RangesOf(3) /\ st # 0
    BY <1>12
  <2> QED
    BY <2>1, <2>2, <2>3, Zenon DEF R
<1>13. CASE st = 4
  <2>1. Strings!RangesOf(4) = <<160..191, T>>
    BY <1>5, Zenon
  <2>2. <<160..191, T>> \in R /\ <<160..191, T>> # <<>>
    BY <1>3, <1>4, <1>7, Zenon
  <2>3. Strings!RangesOf(st) = Strings!RangesOf(4) /\ st # 0
    BY <1>13
  <2> QED
    BY <2>1, <2>2, <2>3, Zenon DEF R
<1>14. CASE st = 5
  <2>1. Strings!RangesOf(5) = <<128..159, T>>
    BY <1>5, Zenon
  <2>2. <<128..159, T>> \in R /\ <<128..159, T>> # <<>>
    BY <1>3, <1>4, <1>7, Zenon
  <2>3. Strings!RangesOf(st) = Strings!RangesOf(5) /\ st # 0
    BY <1>14
  <2> QED
    BY <2>1, <2>2, <2>3, Zenon DEF R
<1>15. CASE st = 6
  <2>1. Strings!RangesOf(6) = <<144..191, T, T>>
    BY <1>5, Zenon
  <2>2. <<144..191, T, T>> \in R /\ <<144..191, T, T>> # <<>>
    BY <1>3, <1>4, <1>7, Zenon
  <2>3. Strings!RangesOf(st) = Strings!RangesOf(6) /\ st # 0
    BY <1>15
  <2> QED
    BY <2>1, <2>2, <2>3, Zenon DEF R
<1>16. CASE st = 7
  <2>1. Strings!RangesOf(7) = <<T, T, T>>
    BY <1>5, Zenon
  <2>2. <<T, T, T>> \in R /\ <<T, T, T>> # <<>>
    BY <1>3, <1>4, <1>7, Zenon
  <2>3. Strings!RangesOf(st) = Strings!RangesOf(7) /\ st # 0
    BY <1>16
  <2> QED
    BY <2>1, <2>2, <2>3, Zenon DEF R
<1>17. CASE st = 8
  <2>1. Strings!RangesOf(8) = <<128..143, T, T>>
    BY <1>5, Zenon
  <2>2. <<128..143, T, T>> \in R /\ <<128..143, T, T>> # <<>>
    BY <1>3, <1>4, <1>7, Zenon
  <2>3. Strings!RangesOf(st) = Strings!RangesOf(8) /\ st # 0
    BY <1>17
  <2> QED
    BY <2>1, <2>2, <2>3, Zenon DEF R
<1> QED
  BY <1>6, <1>10, <1>11, <1>12, <1>13, <1>14, <1>15, <1>16, <1>17

\* What the lexer is between the bytes of a string.
LEMMA WithinFields ==
    ASSUME NEW buffer \in Seq(Strings!Byte), NEW st \in 0..8 \ {1}
    PROVE  /\ Strings!Within(buffer, Strings!RangesOf(st)) \in Strings!Lexer
           /\ Strings!DigitsOf(Strings!Within(buffer, Strings!RangesOf(st)))
           /\ Strings!Within(buffer, Strings!RangesOf(st)).buffer = buffer
           /\ Strings!Within(buffer, Strings!RangesOf(st)).ranges = Strings!RangesOf(st)
           /\ Strings!Within(buffer, Strings!RangesOf(st)).at = IF st = 0 THEN "string" ELSE "bytes"
           /\ Strings!Within(buffer, Strings!RangesOf(st)).digits = 0
           /\ Strings!Within(buffer, Strings!RangesOf(st)).number = 0
           /\ Strings!Within(buffer, Strings!RangesOf(st)).high = 0
<1> DEFINE R == Strings!RangesOf(st)
           at == IF st = 0 THEN "string" ELSE "bytes"
           L == Lex(at, buffer, R, 0, 0, 0)
<1>1. at \in Strings!Place /\ at # "hex"
  BY DEF Strings!Place
<1>2. Strings!Within(buffer, R) = L
  BY RangesAreRanges, WithinIsLex
<1>3. R \in Seq(SUBSET Strings!Byte)
  BY RangesAreRanges
<1> HIDE DEF R, at
<1>4. 0 \in 0..3 /\ 0 \in Nat /\ 0 \in {0} \cup Strings!HighSurrogate
  OBVIOUS
<1>5. L \in Strings!Lexer
  BY <1>1, <1>3, <1>4, LexIsLexer, Zenon
<1>6. /\ L.at = at /\ L.buffer = buffer /\ L.ranges = R
      /\ L.digits = 0 /\ L.number = 0 /\ L.high = 0
  BY LexFields
<1> HIDE DEF L
<1>7. Strings!DigitsOf(L)
  BY <1>1, <1>6 DEF Strings!DigitsOf
<1> QED
  BY <1>2, <1>5, <1>6, <1>7, Zenon DEF R, at

\* Where goto_ takes the lexer, all else unchanged.
LEMMA GotoFields ==
    ASSUME NEW s \in Strings!Lexer, NEW to \in Strings!Place
    PROVE  /\ Strings!Goto(s, to) \in Strings!Lexer
           /\ Strings!Goto(s, to).at = to /\ Strings!Goto(s, to).buffer = s.buffer
           /\ Strings!Goto(s, to).digits = s.digits /\ Strings!Goto(s, to).number = s.number
           /\ Strings!Goto(s, to).high = s.high /\ Strings!Goto(s, to).ranges = s.ranges
<1> DEFINE t == Lex(to, s.buffer, s.ranges, s.digits, s.number, s.high)
<1>1. /\ s = Lex(s.at, s.buffer, s.ranges, s.digits, s.number, s.high)
      /\ s.at \in Strings!Place /\ s.buffer \in Seq(Strings!Byte) /\ s.ranges \in Seq(SUBSET Strings!Byte)
      /\ s.digits \in 0..3 /\ s.number \in Nat /\ s.high \in {0} \cup Strings!HighSurrogate
  BY LexerIsLex
<1>2. Strings!Goto(s, to) = t
  <2>1. Strings!Goto(Lex(s.at, s.buffer, s.ranges, s.digits, s.number, s.high), to) = t
    BY GotoLex
  <2> QED
    BY <1>1, <2>1
<1>3. t \in Strings!Lexer
  BY <1>1, LexIsLexer
<1>4. /\ t.at = to /\ t.buffer = s.buffer /\ t.ranges = s.ranges
      /\ t.digits = s.digits /\ t.number = s.number /\ t.high = s.high
  BY LexFields
<1> QED
  BY <1>2, <1>3, <1>4, Zenon

\* What a step makes of a lexer: it stops, it goes on in an escape, or it adds bytes
\* that take decode() from a state to another and waits for those that this one wants.
Moves(s, t, from) ==
    \/ t.at = "error"
    \/ from = 0 /\ t.at # "bytes" /\ t.buffer = s.buffer
    \/ \E p \in Seq(Strings!Byte), to \in 0..8 \ {1} :
           Leads(p, from, to) /\ t = Strings!Within(s.buffer \o p, Strings!RangesOf(to))

Moved(s, t, from) == t \in Strings!Lexer /\ Strings!DigitsOf(t) /\ Moves(s, t, from)

\* A literal that is refused is a request that is refused.
LEMMA MovesToError ==
    ASSUME NEW s \in Strings!Lexer, NEW from
    PROVE  Moved(s, Strings!Goto(s, "error"), from)
<1>1. "error" \in Strings!Place
  BY DEF Strings!Place
<1>2. Strings!Goto(s, "error") \in Strings!Lexer /\ Strings!Goto(s, "error").at = "error"
  BY <1>1, GotoFields
<1> QED
  BY <1>2 DEF Moved, Moves, Strings!DigitsOf

\* A step that takes no byte into token_buffer leaves the decoder where it is.
LEMMA MovesAside ==
    ASSUME NEW s \in Strings!Lexer, NEW to \in Strings!Place,
           to # "bytes", s.digits = 0, s.number = 0
    PROVE  Moved(s, Strings!Goto(s, to), 0)
<1> DEFINE t == Strings!Goto(s, to)
<1>1. /\ t \in Strings!Lexer /\ t.at = to /\ t.buffer = s.buffer
      /\ t.digits = 0 /\ t.number = 0
  BY GotoFields
<1> HIDE DEF t
<1>2. Strings!Below(0) = 1
  BY SMT DEF Strings!Below
<1>3. Strings!DigitsOf(t)
  BY <1>1, <1>2 DEF Strings!DigitsOf
<1> QED
  BY <1>1, <1>3 DEF Moved, Moves, t

\* A step that takes bytes into token_buffer moves the decoder as they lead it.
LEMMA MovesOn ==
    ASSUME NEW s \in Strings!Lexer, NEW from, NEW p \in Seq(Strings!Byte), NEW to \in 0..8 \ {1},
           Leads(p, from, to)
    PROVE  Moved(s, Strings!Within(s.buffer \o p, Strings!RangesOf(to)), from)
<1>1. s.buffer \in Seq(Strings!Byte)
  BY LexerIsLex
<1>2. s.buffer \o p \in Seq(Strings!Byte)
  BY <1>1, ConcatProperties
<1> QED
  BY <1>2, WithinFields, Zenon DEF Moved, Moves

\* A step that takes whole code points leaves the decoder between two of them.
LEMMA MovesByAdd ==
    ASSUME NEW s \in Strings!Lexer, NEW p \in Seq(Strings!Byte), Leads(p, 0, 0)
    PROVE  Moved(s, Strings!Add(s, p), 0)
<1>1. Strings!Add(s, p) = Strings!Within(s.buffer \o p, Strings!RangesOf(0))
  BY RangesByState, Zenon DEF Strings!Add
<1>2. 0 \in 0..8 \ {1}
  OBVIOUS
<1> QED
  BY <1>1, <1>2, MovesOn, Zenon

\* A character, or the first byte of one.
LEMMA ScanCharMoves ==
    ASSUME NEW s \in Strings!Lexer, NEW b \in Strings!Byte, s.digits = 0, s.number = 0
    PROVE  Moved(s, Strings!ScanChar(s, b), 0)
<1>0. /\ "done" \in Strings!Place /\ "escape" \in Strings!Place
      /\ "done" # "bytes" /\ "escape" # "bytes"
  BY DEF Strings!Place
<1>1. CASE b = 34
  <2>1. b = Strings!Quote /\ b # Strings!Backslash /\ ~Strings!Control(b) /\ ~Strings!Plain(b)
    BY <1>1 DEF Strings!Quote, Strings!Backslash, Strings!Control, Strings!Plain
  <2>2. Strings!ScanChar(s, b) = Strings!Goto(s, "done")
    BY <2>1 DEF Strings!ScanChar
  <2> QED
    BY <1>0, <2>2, MovesAside
<1>2. CASE b = 92
  <2>1. b # Strings!Quote /\ b = Strings!Backslash /\ ~Strings!Control(b) /\ ~Strings!Plain(b)
    BY <1>2 DEF Strings!Quote, Strings!Backslash, Strings!Control, Strings!Plain
  <2>2. Strings!ScanChar(s, b) = Strings!Goto(s, "escape")
    BY <2>1 DEF Strings!ScanChar
  <2> QED
    BY <1>0, <2>2, MovesAside
<1>3. CASE b < 32
  <2>1. b # Strings!Quote /\ b # Strings!Backslash /\ Strings!Control(b) /\ ~Strings!Plain(b)
    BY <1>3 DEF Strings!Quote, Strings!Backslash, Strings!Control, Strings!Plain, Strings!Byte
  <2>2. Strings!ScanChar(s, b) = Strings!Goto(s, "error")
    BY <2>1 DEF Strings!ScanChar
  <2> QED
    BY <2>2, MovesToError
<1>4. CASE b >= 32 /\ b < 128 /\ b # 34 /\ b # 92
  <2>1. b # Strings!Quote /\ b # Strings!Backslash /\ ~Strings!Control(b) /\ Strings!Plain(b)
    BY <1>4 DEF Strings!Quote, Strings!Backslash, Strings!Control, Strings!Plain, Strings!Byte
  <2>2. Strings!ScanChar(s, b) = Strings!Add(s, <<b>>)
    BY <2>1 DEF Strings!ScanChar
  <2>3. After(0, b) = 0
    BY <1>4, DecodeLead
  <2>4. Leads(<<b>>, 0, 0) /\ <<b>> \in Seq(Strings!Byte)
    BY <2>3, LeadsByOne
  <2> QED
    BY <2>2, <2>4, MovesByAdd
<1>5. CASE b >= 128
  <2>1. b # Strings!Quote /\ b # Strings!Backslash /\ ~Strings!Control(b) /\ ~Strings!Plain(b)
    BY <1>5 DEF Strings!Quote, Strings!Backslash, Strings!Control, Strings!Plain, Strings!Byte
  <2>2. Strings!ScanChar(s, b) =
            IF Strings!Followers(b) = <<>> THEN Strings!Goto(s, "error")
            ELSE Strings!Within(s.buffer \o <<b>>, Strings!Followers(b))
    BY <2>1 DEF Strings!ScanChar
  <2>3. After(0, b) \in 1..8 /\ Strings!Followers(b) = Strings!RangesOf(After(0, b))
    BY <1>5, DecodeLead
  <2>4. CASE Strings!Followers(b) = <<>>
    BY <2>2, <2>4, MovesToError
  <2>5. CASE Strings!Followers(b) # <<>>
    <3>1. After(0, b) # 1
      BY <2>3, <2>5, RangesByState, Zenon
    <3>2. After(0, b) \in 0..8 \ {1} /\ 0 \in 0..8 \ {1}
      BY <2>3, <3>1
    <3>3. Leads(<<b>>, 0, After(0, b)) /\ <<b>> \in Seq(Strings!Byte)
      BY <3>2, LeadsByOne
    <3>4. Moved(s, Strings!Within(s.buffer \o <<b>>, Strings!RangesOf(After(0, b))), 0)
      BY <3>2, <3>3, MovesOn
    <3>5. Strings!ScanChar(s, b) = Strings!Within(s.buffer \o <<b>>, Strings!RangesOf(After(0, b)))
      BY <2>2, <2>3, <2>5, Zenon
    <3> QED
      BY <3>4, <3>5, Zenon
  <2> QED
    BY <2>4, <2>5
<1> QED
  BY <1>1, <1>2, <1>3, <1>4, <1>5 DEF Strings!Byte

\* What follows a backslash.
LEMMA ScanEscapeMoves ==
    ASSUME NEW s \in Strings!Lexer, NEW b \in Strings!Byte, s.digits = 0, s.number = 0
    PROVE  Moved(s, Strings!ScanEscape(s, b), 0)
<1>1. CASE b \in Strings!Escapes
  <2>1. b # Strings!LetterU
    BY <1>1 DEF Strings!Escapes, Strings!LetterU
  <2>2. Strings!ScanEscape(s, b) = Strings!Add(s, <<Strings!EscapeOf(b)>>)
    BY <1>1, <2>1 DEF Strings!ScanEscape
  <2>3. Strings!EscapeOf(b) \in Strings!Byte /\ Strings!EscapeOf(b) < 128
    BY <1>1 DEF Strings!Escapes, Strings!EscapeOf, Strings!Byte
  <2>4. After(0, Strings!EscapeOf(b)) = 0
    BY <2>3, DecodeLead
  <2>5. Leads(<<Strings!EscapeOf(b)>>, 0, 0) /\ <<Strings!EscapeOf(b)>> \in Seq(Strings!Byte)
    BY <2>3, <2>4, LeadsByOne
  <2> QED
    BY <2>2, <2>5, MovesByAdd
<1>2. CASE b = Strings!LetterU
  <2>1. b \notin Strings!Escapes
    BY <1>2 DEF Strings!Escapes, Strings!LetterU
  <2>2. Strings!ScanEscape(s, b) = Strings!Goto(s, "hex")
    BY <1>2, <2>1 DEF Strings!ScanEscape
  <2>3. "hex" \in Strings!Place /\ "hex" # "bytes"
    BY DEF Strings!Place
  <2> QED
    BY <2>2, <2>3, MovesAside
<1>3. CASE b \notin Strings!Escapes /\ b # Strings!LetterU
  <2>1. Strings!ScanEscape(s, b) = Strings!Goto(s, "error")
    BY <1>3 DEF Strings!ScanEscape
  <2> QED
    BY <2>1, MovesToError
<1> QED
  BY <1>1, <1>2, <1>3

\* A code unit of UTF-16, and what its digits make of it.
Unit(n) == n <= 65535

\* Four digits of a \u escape are a unit of sixteen bits, and fewer are less.
LEMMA UnitByDigits ==
    ASSUME NEW k \in 0..3, NEW n \in Nat, NEW d \in 0..15, n < Strings!Below(k)
    PROVE  /\ n * 16 + d \in Nat
           /\ k = 3 => Unit(n * 16 + d)
           /\ k # 3 => k + 1 \in 0..3 /\ n * 16 + d < Strings!Below(k + 1)
<1>1. Strings!Below(0) = 1 /\ Strings!Below(1) = 16 /\ Strings!Below(2) = 256 /\ Strings!Below(3) = 4096
  BY SMT DEF Strings!Below
<1>2. CASE k = 0
  BY <1>1, <1>2, SMT
<1>3. CASE k = 1
  BY <1>1, <1>3, SMT
<1>4. CASE k = 2
  BY <1>1, <1>4, SMT
<1>5. CASE k = 3
  BY <1>1, <1>5, SMT DEF Unit
<1> QED
  BY <1>2, <1>3, <1>4, <1>5, SMT

\* A code point beyond the first plane is no surrogate.
LEMMA AboveSurrogates ==
    ASSUME NEW n \in Nat, n >= 65536, n <= 1114111
    PROVE  Scalar(n)
<1>1. n \notin Strings!HighSurrogate
  BY SMT DEF Strings!HighSurrogate
<1>2. n \notin Strings!LowSurrogate
  BY SMT DEF Strings!LowSurrogate
<1> QED
  BY <1>1, <1>2, SMT DEF Scalar

\* The two halves of a surrogate pair are one code point (json.hpp:7648-7662).
LEMMA SurrogatePair ==
    ASSUME NEW high \in Strings!HighSurrogate, NEW low \in Strings!LowSurrogate
    PROVE  Strings!Pair(high, low) \in Nat /\ Scalar(Strings!Pair(high, low))
<1>1. 55296 <= high /\ high <= 56319 /\ high \in Nat /\ 56320 <= low /\ low <= 57343 /\ low \in Nat
  BY SMT DEF Strings!HighSurrogate, Strings!LowSurrogate
<1> DEFINE m == Strings!Pair(high, low)
<1>2. m \in Nat /\ m >= 65536 /\ m <= 1114111
  BY <1>1, SMT DEF Strings!Pair
<1> HIDE DEF m
<1>3. Scalar(m)
  BY <1>2, AboveSurrogates
<1>4. m \in Nat
  BY <1>2, SMT
<1> QED
  BY <1>3, <1>4 DEF m

\* A \u escape whose digits are read: surrogates that make no pair are refused.
LEMMA EscapedMoves ==
    ASSUME NEW s \in Strings!Lexer, NEW n \in Nat, Unit(n)
    PROVE  Moved(s, Strings!Escaped(s, n), 0)
<1>0. s.high \in {0} \cup Strings!HighSurrogate
  BY LexerIsLex
<1>1. CASE s.high = 0 /\ n \in Strings!HighSurrogate
  <2> DEFINE t == Lex("low", s.buffer, s.ranges, 0, 0, n)
  <2>1. n \notin Strings!LowSurrogate
    BY <1>1, SMT DEF Strings!HighSurrogate, Strings!LowSurrogate
  <2>2. Strings!Escaped(s, n) = Strings!WithHigh(s, n)
    BY <1>1, <2>1 DEF Strings!Escaped
  <2>3. Strings!WithHigh(Lex(s.at, s.buffer, s.ranges, s.digits, s.number, s.high), n) = t
    BY HighTaken
  <2>4. /\ s = Lex(s.at, s.buffer, s.ranges, s.digits, s.number, s.high)
        /\ s.buffer \in Seq(Strings!Byte) /\ s.ranges \in Seq(SUBSET Strings!Byte)
    BY LexerIsLex
  <2>5. Strings!Escaped(s, n) = t
    BY <2>2, <2>3, <2>4
  <2>6. "low" \in Strings!Place /\ n \in {0} \cup Strings!HighSurrogate /\ 0 \in 0..3 /\ 0 \in Nat
    BY <1>1 DEF Strings!Place
  <2>7. t \in Strings!Lexer
    BY <2>4, <2>6, LexIsLexer, Zenon
  <2>8. t.at = "low" /\ t.buffer = s.buffer /\ t.digits = 0 /\ t.number = 0
    BY LexFields
  <2> HIDE DEF t
  <2>9. Strings!DigitsOf(t) /\ Moves(s, t, 0)
    BY <2>8 DEF Strings!DigitsOf, Moves
  <2> QED
    BY <2>5, <2>7, <2>9, Zenon DEF Moved
<1>2. CASE s.high = 0 /\ n \in Strings!LowSurrogate
  <2>1. n \notin Strings!HighSurrogate
    BY <1>2, SMT DEF Strings!HighSurrogate, Strings!LowSurrogate
  <2>2. Strings!Escaped(s, n) = Strings!Goto(s, "error")
    BY <1>2, <2>1 DEF Strings!Escaped
  <2> QED
    BY <2>2, MovesToError
<1>3. CASE s.high = 0 /\ n \notin Strings!HighSurrogate /\ n \notin Strings!LowSurrogate
  <2>1. Strings!Escaped(s, n) = Strings!Add(s, Strings!Utf8(n))
    BY <1>3 DEF Strings!Escaped
  <2>2. Scalar(n)
    BY <1>3, SMT DEF Scalar, Unit
  <2>3. Strings!Utf8(n) \in Seq(Strings!Byte) /\ Leads(Strings!Utf8(n), 0, 0)
    BY <2>2, Utf8Leads
  <2> QED
    BY <2>1, <2>3, MovesByAdd
<1>4. CASE s.high # 0 /\ n \in Strings!LowSurrogate
  <2>1. Strings!Escaped(s, n) = Strings!Add(s, Strings!Utf8(Strings!Pair(s.high, n)))
    BY <1>4 DEF Strings!Escaped
  <2>2. s.high \in Strings!HighSurrogate
    BY <1>0, <1>4
  <2>3. Strings!Pair(s.high, n) \in Nat /\ Scalar(Strings!Pair(s.high, n))
    BY <1>4, <2>2, SurrogatePair
  <2>4. /\ Strings!Utf8(Strings!Pair(s.high, n)) \in Seq(Strings!Byte)
        /\ Leads(Strings!Utf8(Strings!Pair(s.high, n)), 0, 0)
    BY <2>3, Utf8Leads
  <2> QED
    BY <2>1, <2>4, MovesByAdd
<1>5. CASE s.high # 0 /\ n \notin Strings!LowSurrogate
  <2>1. Strings!Escaped(s, n) = Strings!Goto(s, "error")
    BY <1>5 DEF Strings!Escaped
  <2> QED
    BY <2>1, MovesToError
<1> QED
  BY <1>1, <1>2, <1>3, <1>4, <1>5

\* A digit of a \u escape.
LEMMA GetCodepointMoves ==
    ASSUME NEW s \in Strings!Lexer, NEW b \in Strings!Byte, s.at = "hex", Strings!DigitsOf(s)
    PROVE  Moved(s, Strings!GetCodepoint(s, b), 0)
<1> DEFINE d == Strings!DigitOf(b)
           n == s.number * 16 + d
<1>0. d \in -1..15
  BY DigitValue
<1>1. /\ s = Lex(s.at, s.buffer, s.ranges, s.digits, s.number, s.high)
      /\ s.buffer \in Seq(Strings!Byte) /\ s.ranges \in Seq(SUBSET Strings!Byte)
      /\ s.digits \in 0..3 /\ s.number \in Nat /\ s.high \in {0} \cup Strings!HighSurrogate
  BY LexerIsLex
<1>2. s.number < Strings!Below(s.digits)
  BY Zenon DEF Strings!DigitsOf
<1> HIDE DEF d
<1>3. CASE d = -1
  <2>1. Strings!GetCodepoint(s, b) = Strings!Goto(s, "error")
    BY <1>3 DEF Strings!GetCodepoint, d
  <2> QED
    BY <2>1, MovesToError
<1>4. CASE d # -1 /\ s.digits = 3
  <2>1. Strings!GetCodepoint(s, b) = Strings!Escaped(s, n)
    BY <1>4 DEF Strings!GetCodepoint, d
  <2>2. d \in 0..15
    BY <1>0, <1>4
  <2>3. n \in Nat /\ Unit(n)
    BY <1>1, <1>2, <1>4, <2>2, UnitByDigits, Zenon
  <2> HIDE DEF n
  <2> QED
    BY <2>1, <2>3, EscapedMoves
<1>5. CASE d # -1 /\ s.digits # 3
  <2> DEFINE k == s.digits + 1
             t == Lex(s.at, s.buffer, s.ranges, k, n, s.high)
  <2>1. Strings!GetCodepoint(s, b) = Strings!WithDigit(s, n)
    BY <1>5 DEF Strings!GetCodepoint, d
  <2>2. d \in 0..15
    BY <1>0, <1>5
  <2>3. n \in Nat /\ k \in 0..3 /\ n < Strings!Below(k)
    BY <1>1, <1>2, <1>5, <2>2, UnitByDigits, Zenon
  <2> HIDE DEF n
  <2>4. Strings!WithDigit(Lex(s.at, s.buffer, s.ranges, s.digits, s.number, s.high), n) = t
    BY DigitTaken
  <2> HIDE DEF k
  <2>5. Strings!GetCodepoint(s, b) = t
    BY <1>1, <2>1, <2>4
  <2>6. s.at \in Strings!Place
    BY LexerIsLex
  <2>7. t \in Strings!Lexer
    BY <1>1, <2>3, <2>6, LexIsLexer, Zenon
  <2>8. t.at = "hex" /\ t.buffer = s.buffer /\ t.digits = k /\ t.number = n
    BY LexFields
  <2> HIDE DEF t
  <2>9. Strings!DigitsOf(t)
    BY <2>3, <2>8, Zenon DEF Strings!DigitsOf
  <2>10. Moves(s, t, 0)
    BY <2>8, Zenon DEF Moves
  <2> QED
    BY <2>5, <2>7, <2>9, <2>10, Zenon DEF Moved
<1> QED
  BY <1>3, <1>4, <1>5

\* A step of the lexer, between the bytes of a code point or not: of scan_string()
\* the whole.
LEMMA ScanMoves ==
    ASSUME NEW s \in Strings!Lexer, NEW b \in Strings!Byte, NEW from \in 0..8 \ {1},
           Strings!DigitsOf(s), s.at \notin {"done", "error"},
           s.at = "bytes" => s.ranges = Strings!RangesOf(from) /\ from # 0,
           s.at # "bytes" => from = 0
    PROVE  Moved(s, Strings!Scan(s, b), from)
<1>0. s.at \in {"string", "escape", "hex", "low", "lowU", "bytes"}
  BY LexerIsLex DEF Strings!Place
<1>1. CASE s.at = "string"
  <2>1. Strings!Scan(s, b) = Strings!ScanChar(s, b)
    BY <1>1, Zenon DEF Strings!Scan
  <2>2. s.digits = 0 /\ s.number = 0 /\ from = 0
    BY <1>1 DEF Strings!DigitsOf
  <2> QED
    BY <2>1, <2>2, ScanCharMoves
<1>2. CASE s.at = "escape"
  <2>1. Strings!Scan(s, b) = Strings!ScanEscape(s, b)
    BY <1>2 DEF Strings!Scan
  <2>2. s.digits = 0 /\ s.number = 0 /\ from = 0
    BY <1>2 DEF Strings!DigitsOf
  <2> QED
    BY <2>1, <2>2, ScanEscapeMoves
<1>3. CASE s.at = "hex"
  <2>1. Strings!Scan(s, b) = Strings!GetCodepoint(s, b) /\ from = 0
    BY <1>3 DEF Strings!Scan
  <2> QED
    BY <1>3, <2>1, GetCodepointMoves
<1>4. CASE s.at \in {"low", "lowU"}
  <2>1. \/ Strings!Scan(s, b) = Strings!Goto(s, "error")
        \/ Strings!Scan(s, b) = Strings!Goto(s, "lowU")
        \/ Strings!Scan(s, b) = Strings!Goto(s, "hex")
    BY <1>4 DEF Strings!Scan
  <2>2. s.digits = 0 /\ s.number = 0 /\ from = 0
    BY <1>4 DEF Strings!DigitsOf
  <2>3. "lowU" \in Strings!Place /\ "hex" \in Strings!Place
    BY DEF Strings!Place
  <2>4. Moved(s, Strings!Goto(s, "lowU"), 0) /\ Moved(s, Strings!Goto(s, "hex"), 0)
    BY <2>2, <2>3, MovesAside
  <2>5. Moved(s, Strings!Goto(s, "error"), 0)
    BY MovesToError
  <2> QED
    BY <2>1, <2>2, <2>4, <2>5
<1>5. CASE s.at = "bytes"
  <2>1. Strings!Scan(s, b) = Strings!NextByteInRange(s, b)
    BY <1>5 DEF Strings!Scan
  <2>2. from \in 2..8 /\ s.ranges = Strings!RangesOf(from)
    BY <1>5
  <2>3. CASE After(from, b) = 1
    <3>1. Strings!Scan(s, b) = Strings!Goto(s, "error")
      BY <2>1, <2>2, <2>3, RangesTail DEF Strings!NextByteInRange
    <3> QED
      BY <3>1, MovesToError
  <2>4. CASE After(from, b) # 1
    <3>1. After(from, b) \in 0..8 \ {1}
      BY <2>2, <2>4, DecodeTail
    <3>2. Leads(<<b>>, from, After(from, b)) /\ <<b>> \in Seq(Strings!Byte)
      BY <3>1, LeadsByOne
    <3>3. Strings!Scan(s, b) = Strings!Within(s.buffer \o <<b>>, Strings!RangesOf(After(from, b)))
      BY <2>1, <2>2, <2>4, RangesTail, Zenon DEF Strings!NextByteInRange
    <3> QED
      BY <3>1, <3>2, <3>3, MovesOn
  <2> QED
    BY <2>3, <2>4
<1> QED
  BY <1>0, <1>1, <1>2, <1>3, <1>4, <1>5

\* What a lexer that has stopped does.
LEMMA ScanStays ==
    ASSUME NEW s \in Strings!Lexer, NEW b, s.at \in {"done", "error"}
    PROVE  Strings!Scan(s, b) = s
  BY DEF Strings!Scan

-----------------------------------------------------------------------------
(* The strings of a document: reading a request *)

\* The states that RequestInv tells of are those of decode() over token_buffer.
LEMMA RunDecodes ==
    ASSUME NEW run, Strings!RequestRun(run)
    PROVE  Decodes(lexer.buffer, run) /\ run[0] = 0
<1>1. Strings!States \ {Strings!Reject} = 0..8 \ {1} /\ Strings!Accept = 0
  BY DEF Strings!States, Strings!Reject, Strings!Accept
<1> QED
  BY <1>1, Zenon DEF Decodes, After, Strings!RequestRun

\* A decoder that went over what was read led from the start to where it is.
LEMMA RunEnd ==
    ASSUME lexer.buffer \in Seq(Strings!Byte), NEW run, Strings!RequestRun(run)
    PROVE  /\ run[Len(lexer.buffer)] \in 0..8 \ {1}
           /\ Leads(lexer.buffer, 0, run[Len(lexer.buffer)])
<1>1. Decodes(lexer.buffer, run) /\ run[0] = 0
  BY RunDecodes
<1>2. Len(lexer.buffer) \in 0..Len(lexer.buffer)
  OBVIOUS
<1>3. run[Len(lexer.buffer)] \in 0..8 \ {1}
  BY <1>1, <1>2, Zenon DEF Decodes
<1> QED
  BY <1>1, <1>3, Zenon DEF Leads

\* What is written, and what the receiver has read of it, stays when none of it moves.
LEMMA ReaderStays ==
    ASSUME Strings!ReaderInv, UNCHANGED <<string, dump, readBack, reader>>
    PROVE  Strings!ReaderInv' /\ Strings!Body' = Strings!Body
<1>0. string' = string /\ dump' = dump /\ readBack' = readBack /\ reader' = reader
  OBVIOUS
<1>1. Strings!Body' = Strings!Body
  BY <1>0 DEF Strings!Body
<1>2. Strings!CaughtUp => Strings!CaughtUp'
  BY <1>0, <1>1 DEF Strings!CaughtUp
<1>3. ASSUME NEW run, Strings!ReaderRun(run)
      PROVE  Strings!ReaderRun(run)'
  BY <1>0, <1>1, <1>3, Zenon DEF Strings!ReaderRun
<1>4. CASE dump.state = Strings!Reject
  BY <1>0, <1>1, <1>2, <1>4, Zenon DEF Strings!ReaderInv
<1>5. CASE dump.state # Strings!Reject
  <2>1. PICK run \in [readBack..Len(Strings!Body) -> Strings!Lexer] : Strings!ReaderRun(run)
    BY <1>5, Zenon DEF Strings!ReaderInv
  <2>2. run \in [readBack'..Len(Strings!Body') -> Strings!Lexer]
    BY <1>0, <1>1, <2>1, Zenon
  <2>3. Strings!ReaderRun(run)'
    BY <1>3, <2>1, Zenon
  <2> QED
    BY <1>0, <1>1, <1>5, <2>2, <2>3, Zenon DEF Strings!ReaderInv
<1> QED
  BY <1>1, <1>4, <1>5, Zenon

\* A step that reads or writes nothing of a string.
LEMMA StringsFrame ==
    ASSUME Strings!IInv, UNCHANGED stringVars
    PROVE  Strings!IInv'
<1>1. UNCHANGED <<string, dump, readBack, reader>> /\ UNCHANGED <<origin, lexer>>
  BY DEF stringVars
<1>2. /\ Strings!TypeOK /\ Strings!RequestInv /\ Strings!RoomInv
      /\ Strings!CodepointInv /\ Strings!ReaderInv
  BY Zenon DEF Strings!IInv
<1>3. Strings!ReaderInv' /\ Strings!Body' = Strings!Body
  BY <1>1, <1>2, ReaderStays, Zenon
<1>4. Strings!TypeOK'
  BY <1>1, <1>2, <1>3, Zenon DEF Strings!TypeOK
<1>5. Strings!RoomInv' /\ Strings!CodepointInv'
  BY <1>1, <1>2, Zenon DEF Strings!RoomInv, Strings!BufferNeverOverrun, Strings!CodepointInv
<1>6. Strings!RequestInv'
  <2>1. ASSUME NEW run, Strings!RequestRun(run)
        PROVE  Strings!RequestRun(run)'
    BY <1>1, <2>1, Zenon DEF Strings!RequestRun
  <2> QED
    BY <1>1, <1>2, <2>1, Zenon DEF Strings!RequestInv
<1> QED
  BY <1>3, <1>4, <1>5, <1>6, Zenon DEF Strings!IInv

\* scan_string() takes a byte of a request: token_buffer stays UTF-8 up to the bytes
\* that the lexer waits for.
LEMMA ScanByteStep ==
    ASSUME Strings!IInv, NEW b \in Strings!Byte, Strings!ScanByte(b)
    PROVE  Strings!IInv'
<1> DEFINE n == Len(lexer.buffer)
<1>1. /\ origin = "request" /\ lexer.at \notin {"done", "error"}
      /\ lexer' = Strings!Scan(lexer, b) /\ origin' = origin
      /\ UNCHANGED <<string, dump, readBack, reader>>
  BY Zenon DEF Strings!ScanByte
<1>2. /\ Strings!TypeOK /\ Strings!RequestInv /\ Strings!RoomInv
      /\ Strings!CodepointInv /\ Strings!ReaderInv
  BY Zenon DEF Strings!IInv
<1>3. Strings!ReaderInv' /\ Strings!Body' = Strings!Body
  BY <1>1, <1>2, ReaderStays, Zenon
<1>4. lexer \in Strings!Lexer /\ Strings!DigitsOf(lexer) /\ lexer.buffer \in Seq(Strings!Byte)
  BY <1>2, LexerIsLex, Zenon DEF Strings!TypeOK
<1>5. lexer.at # "done" /\ lexer.at # "error"
  BY <1>1, Zenon
<1>6. string = <<>> /\ dump.state = 0
  BY <1>1, <1>2, <1>5, Zenon DEF Strings!RequestInv, Strings!Accept
<1>7. PICK run : Strings!RequestRun(run)
  BY <1>1, <1>2, <1>5, Zenon DEF Strings!RequestInv
<1> DEFINE from == run[n]
<1>8. /\ from \in 0..8 \ {1} /\ Leads(lexer.buffer, 0, from)
      /\ Decodes(lexer.buffer, run) /\ run[0] = 0
  BY <1>4, <1>7, RunDecodes, RunEnd
<1>9. /\ lexer.at # "bytes" => from = 0
      /\ lexer.at = "bytes" => lexer.ranges = Strings!RangesOf(from) /\ from # 0
  BY <1>7, Zenon DEF Strings!RequestRun, Strings!Accept
<1> HIDE DEF from
<1>10. Moved(lexer, lexer', from)
  BY <1>1, <1>4, <1>8, <1>9, ScanMoves
<1>11. Strings!TypeOK'
  BY <1>1, <1>2, <1>3, <1>10, Zenon DEF Strings!TypeOK, Moved
<1>12. Strings!RoomInv' /\ Strings!CodepointInv'
  BY <1>1, <1>2, Zenon DEF Strings!RoomInv, Strings!BufferNeverOverrun, Strings!CodepointInv
<1>13. ASSUME lexer'.at # "error"
       PROVE  \E r \in [0..Len(lexer'.buffer) -> Strings!States] : Strings!RequestRun(r)'
  <2>1. CASE from = 0 /\ lexer'.at # "bytes" /\ lexer'.buffer = lexer.buffer
    <3>1. Strings!RequestRun(run)'
      BY <1>1, <1>7, <2>1, Zenon DEF Strings!RequestRun, Strings!Accept, from
    <3>2. run \in [0..Len(lexer'.buffer) -> Strings!States]
      BY <3>1, Zenon DEF Strings!RequestRun
    <3> QED
      BY <3>1, <3>2, Zenon
  <2>2. ASSUME NEW p \in Seq(Strings!Byte), NEW to \in 0..8 \ {1}, Leads(p, from, to),
               lexer' = Strings!Within(lexer.buffer \o p, Strings!RangesOf(to))
        PROVE  \E r \in [0..Len(lexer'.buffer) -> Strings!States] : Strings!RequestRun(r)'
    <3> DEFINE whole == lexer.buffer \o p
    <3>1. whole \in Seq(Strings!Byte) /\ Leads(whole, 0, to)
      BY <1>4, <1>8, <2>2, LeadsOn, ConcatProperties
    <3> HIDE DEF whole
    <3>2. lexer' = Strings!Within(whole, Strings!RangesOf(to))
      BY <2>2, Zenon DEF whole
    <3>3. /\ lexer'.buffer = whole /\ lexer'.ranges = Strings!RangesOf(to)
          /\ lexer'.at = IF to = 0 THEN "string" ELSE "bytes"
      BY <3>1, <3>2, WithinFields
    <3>4. PICK q : Decodes(whole, q) /\ q[0] = 0 /\ q[Len(whole)] = to
      BY <3>1, Zenon DEF Leads
    <3>5. Strings!States \ {Strings!Reject} = 0..8 \ {1} /\ Strings!Accept = 0
      BY DEF Strings!States, Strings!Reject, Strings!Accept
    <3>6. /\ q \in [0..Len(lexer'.buffer) -> Strings!States \ {Strings!Reject}]
          /\ q[0] = Strings!Accept
          /\ \A i \in 1..Len(lexer'.buffer) :
                 q[i] = Strings!Decode(q[i - 1], Strings!TypeOf(lexer'.buffer[i]))
      BY <3>3, <3>4, <3>5, Zenon DEF Decodes, After
    <3>7. /\ lexer'.at # "bytes" => q[Len(lexer'.buffer)] = Strings!Accept
          /\ lexer'.at = "bytes" =>
                 /\ lexer'.ranges = Strings!RangesOf(q[Len(lexer'.buffer)])
                 /\ q[Len(lexer'.buffer)] # Strings!Accept
      BY <3>3, <3>4, <3>5
    <3>8. Len(string') <= Len(lexer'.buffer) /\ Len(string') = 0
      BY <1>1, <1>6, <3>1, <3>3
    <3>9. dump'.state = q[Len(string')]
      BY <1>1, <1>6, <3>4, <3>8
    <3>10. Strings!RequestRun(q)'
      BY <3>6, <3>7, <3>8, <3>9, Zenon DEF Strings!RequestRun
    <3>11. q \in [0..Len(lexer'.buffer) -> Strings!States]
      BY <3>6
    <3> QED
      BY <3>10, <3>11, Zenon
  <2> QED
    BY <1>10, <1>13, <2>1, <2>2, Zenon DEF Moved, Moves
<1>14. Strings!RequestInv'
  BY <1>1, <1>6, <1>13, Zenon DEF Strings!RequestInv, Strings!Accept
<1> QED
  BY <1>3, <1>11, <1>12, <1>14, Zenon DEF Strings!IInv

-----------------------------------------------------------------------------
(* The strings of a document: what dump_escaped() makes of a byte *)

\* What is added to string_buffer for a byte that decode() goes on with.
EmittedFor(st, codep, b) ==
    IF After(st, b) = 0 THEN Strings!Written(Strings!Codepoint(st, codep, b), b) ELSE <<b>>

\* The bits of the code point that a byte begins and continues.
LEMMA FirstBits ==
    ASSUME NEW b \in Strings!Byte, NEW codep
    PROVE  /\ b < 128 => Strings!Codepoint(0, codep, b) = b
           /\ b \in 194..223 => Strings!Codepoint(0, codep, b) = b % 64
           /\ b \in 225..239 /\ b # 237 => Strings!Codepoint(0, codep, b) = b % 32
           /\ b = 237 => Strings!Codepoint(0, codep, b) = 13
           /\ b \in 241..243 => Strings!Codepoint(0, codep, b) = b % 4
           /\ b = 244 => Strings!Codepoint(0, codep, b) = 4
           /\ Strings!Codepoint(0, codep, b) \in Nat
<1> DEFINE m == <<256, 128, 64, 32, 16, 8, 4, 2, 1>>
<1>1. /\ m[1] = 256 /\ m[2] = 128 /\ m[3] = 64 /\ m[4] = 32 /\ m[5] = 16
      /\ m[6] = 8 /\ m[7] = 4 /\ m[8] = 2 /\ m[9] = 1
  OBVIOUS
<1>2. Strings!TypeOf(b) \in 0..11 /\ b \in Nat
  BY TypeOfTrail DEF Strings!Byte
<1> HIDE DEF m
<1>3. Strings!Codepoint(0, codep, b) =
          IF Strings!TypeOf(b) > 8 THEN 0 ELSE b % m[Strings!TypeOf(b) + 1]
  BY Zenon DEF Strings!Codepoint, Strings!Accept, m
<1>4. b < 128 => Strings!Codepoint(0, codep, b) = b
  <2>1. b < 128 => Strings!TypeOf(b) = 0
    BY TypeOfByte
  <2> QED
    BY <1>1, <1>2, <1>3, <2>1
<1>5. b \in 194..223 => Strings!Codepoint(0, codep, b) = b % 64
  <2>1. b \in 194..223 => Strings!TypeOf(b) = 2
    BY TypeOfByte
  <2> QED
    BY <1>1, <1>3, <2>1
<1>6. b \in 225..239 /\ b # 237 => Strings!Codepoint(0, codep, b) = b % 32
  <2>1. b \in 225..239 /\ b # 237 => Strings!TypeOf(b) = 3
    BY TypeOfByte
  <2> QED
    BY <1>1, <1>3, <2>1
<1>7. b = 237 => Strings!Codepoint(0, codep, b) = 13
  <2>1. b = 237 => Strings!TypeOf(b) = 4
    BY TypeOfByte
  <2> QED
    BY <1>1, <1>3, <2>1
<1>8. b \in 241..243 => Strings!Codepoint(0, codep, b) = b % 4
  <2>1. b \in 241..243 => Strings!TypeOf(b) = 6
    BY TypeOfByte
  <2> QED
    BY <1>1, <1>3, <2>1
<1>9. b = 244 => Strings!Codepoint(0, codep, b) = 4
  <2>1. b = 244 => Strings!TypeOf(b) = 5
    BY TypeOfByte
  <2> QED
    BY <1>1, <1>3, <2>1
<1>10. Strings!Codepoint(0, codep, b) \in Nat
  <2>1. CASE Strings!TypeOf(b) > 8
    BY <1>3, <2>1
  <2>2. CASE Strings!TypeOf(b) \in 0..8
    <3>1. m[Strings!TypeOf(b) + 1] \in {256, 128, 64, 32, 16, 8, 4, 2, 1}
      BY <1>1, <2>2
    <3>2. \A k \in {256, 128, 64, 32, 16, 8, 4, 2, 1} : b % k \in Nat
      BY <1>2
    <3>3. ~(Strings!TypeOf(b) > 8)
      BY <2>2
    <3> QED
      BY <1>3, <3>1, <3>2, <3>3
  <2> QED
    BY <1>2, <2>1, <2>2
<1> QED
  BY <1>4, <1>5, <1>6, <1>7, <1>8, <1>9, <1>10

\* Six more bits of a code point (json.hpp:18847-18849).
LEMMA NextBits ==
    ASSUME NEW b \in Strings!Byte, NEW st \in 2..8, NEW codep \in Nat
    PROVE  /\ Strings!Codepoint(st, codep, b) = codep * 64 + (b % 64)
           /\ Strings!Codepoint(st, codep, b) \in Nat
           /\ Strings!Codepoint(st, codep, b) >= codep * 64
           /\ b \in 160..191 => Strings!Codepoint(st, codep, b) >= 32
           /\ b \in 144..191 => Strings!Codepoint(st, codep, b) >= 16
<1>1. Strings!Codepoint(st, codep, b) = codep * 64 + (b % 64)
  BY DEF Strings!Codepoint, Strings!Accept
<1>2. b \in Nat /\ b % 64 \in 0..63
  BY DEF Strings!Byte
<1>3. b \in 160..191 => b % 64 >= 32
  OBVIOUS
<1>4. b \in 144..191 => b % 64 >= 16
  OBVIOUS
<1> QED
  BY <1>1, <1>2, <1>3, <1>4

\* What is wanted of a code point that is not complete, as CodepointInv says.
EnoughBits(st, codep) ==
    /\ st = 2 => codep >= 2
    /\ st \in {3, 5, 7, 8} => codep >= 1

\* A code point has, at each of its bytes, the bits that no shorter form could hold.
LEMMA BitsGrow ==
    ASSUME NEW b \in Strings!Byte, NEW st \in 0..8 \ {1}, NEW codep \in Nat,
           EnoughBits(st, codep), After(st, b) # 1
    PROVE  /\ Strings!Codepoint(st, codep, b) \in Nat
           /\ EnoughBits(After(st, b), Strings!Codepoint(st, codep, b))
<1> DEFINE c == Strings!Codepoint(st, codep, b)
           to == After(st, b)
<1>1. CASE st = 0
  <2>1. c \in Nat
    BY <1>1, FirstBits
  <2>2. CASE b < 128
    <3>1. to = 0
      BY <1>1, <2>2, DecodeLead
    <3> QED
      BY <2>1, <3>1 DEF EnoughBits
  <2>3. CASE b \in 194..223
    <3>1. to = 2 /\ c = b % 64
      BY <1>1, <2>3, AfterLead, FirstBits
    <3>2. b % 64 >= 2
      BY <2>3
    <3> QED
      BY <2>1, <3>1, <3>2 DEF EnoughBits
  <2>4. CASE b = 224 \/ b = 240
    <3>1. to = 4 \/ to = 6
      BY <1>1, <2>4, AfterLead
    <3> QED
      BY <2>1, <3>1 DEF EnoughBits
  <2>5. CASE b \in 225..239 /\ b # 237
    <3>1. to = 3 /\ c = b % 32
      BY <1>1, <2>5, AfterLead, FirstBits
    <3>2. b % 32 >= 1
      BY <2>5
    <3> QED
      BY <2>1, <3>1, <3>2 DEF EnoughBits
  <2>6. CASE b = 237
    <3>1. to = 5 /\ c = 13
      BY <1>1, <2>6, AfterLead, FirstBits
    <3> QED
      BY <2>1, <3>1 DEF EnoughBits
  <2>7. CASE b \in 241..243
    <3>1. to = 7 /\ c = b % 4
      BY <1>1, <2>7, AfterLead, FirstBits
    <3>2. b % 4 >= 1
      BY <2>7
    <3> QED
      BY <2>1, <3>1, <3>2 DEF EnoughBits
  <2>8. CASE b = 244
    <3>1. to = 8 /\ c = 4
      BY <1>1, <2>8, AfterLead, FirstBits
    <3> QED
      BY <2>1, <3>1 DEF EnoughBits
  <2>9. CASE b \in 128..193 \/ b > 244
    <3>1. After(0, b) = 1
      BY <2>9, TypeOfByte, DecodeFromAccept DEF After, Strings!Byte
    <3> QED
      BY <1>1, <3>1
  <2>10. b < 128 \/ b \in 128..193 \/ b \in 194..223 \/ b = 224 \/ (b \in 225..239 /\ b # 237)
         \/ b = 237 \/ b = 240 \/ b \in 241..243 \/ b = 244 \/ b > 244
    BY DEF Strings!Byte
  <2> QED
    BY <2>2, <2>3, <2>4, <2>5, <2>6, <2>7, <2>8, <2>9, <2>10, Zenon
<1>2. CASE st \in 2..8
  <2>1. c \in Nat /\ c >= codep * 64 /\ (b \in 160..191 => c >= 32) /\ (b \in 144..191 => c >= 16)
    BY <1>2, NextBits
  <2>2. /\ to \in {0, 2, 3} /\ b \in 128..191
        /\ to = 2 => st \in {3, 4, 5} /\ (st = 4 => b \in 160..191)
        /\ to = 3 => st \in {6, 7, 8} /\ (st = 6 => b \in 144..191)
    BY <1>2, DecodeTail
  <2> HIDE DEF c, to
  <2>3. st \in {3, 5, 7, 8} => codep * 64 >= 64
    BY DEF EnoughBits
  <2>4. to = 2 => c >= 2
    BY <2>1, <2>2, <2>3
  <2>5. to = 3 => c >= 1
    BY <2>1, <2>2, <2>3
  <2> QED
    BY <2>1, <2>2, <2>4, <2>5 DEF EnoughBits, c, to
<1> QED
  BY <1>1, <1>2

\* A code point of several bytes is written as it came, its last byte too; of one byte
\* all but controls, the quote and the backslash are.
LEMMA EmittedAsItCame ==
    ASSUME NEW b \in Strings!Byte, NEW st \in 2..8, NEW codep \in Nat,
           EnoughBits(st, codep), After(st, b) # 1
    PROVE  EmittedFor(st, codep, b) = <<b>>
<1> DEFINE c == Strings!Codepoint(st, codep, b)
<1>1. CASE After(st, b) = 0
  <2>1. st = 2
    BY <1>1, DecodeTail
  <2>2. c \in Nat /\ c >= codep * 64
    BY NextBits
  <2>3. codep >= 2
    BY <2>1 DEF EnoughBits
  <2>4. c >= 128
    BY <2>2, <2>3
  <2> HIDE DEF c
  <2>5. c \notin Strings!Lettered /\ ~(c < 32)
    BY <2>2, <2>4 DEF Strings!Lettered
  <2>6. Strings!Written(c, b) = <<b>>
    BY <2>5 DEF Strings!Written
  <2> QED
    BY <1>1, <2>6 DEF EmittedFor, c
<1>2. CASE After(st, b) # 0
  BY <1>2 DEF EmittedFor
<1> QED
  BY <1>1, <1>2

\* What is written at the first byte of a code point: itself for a longer one.
LEMMA EmittedLead ==
    ASSUME NEW b \in Strings!Byte, NEW codep
    PROVE  /\ b >= 128 => EmittedFor(0, codep, b) = <<b>>
           /\ b < 128 => EmittedFor(0, codep, b) = Strings!Written(b, b)
<1>1. CASE b < 128
  <2>1. After(0, b) = 0 /\ Strings!Codepoint(0, codep, b) = b
    BY <1>1, DecodeLead, FirstBits
  <2> QED
    BY <1>1, <2>1 DEF EmittedFor, Strings!Byte
<1>2. CASE b >= 128
  <2>1. After(0, b) # 0
    BY <1>2, DecodeLead
  <2> QED
    BY <1>2, <2>1 DEF EmittedFor, Strings!Byte
<1> QED
  BY <1>1, <1>2 DEF Strings!Byte

\* The three ways in which a code point of one byte is written: as an escape with a
\* letter, as one with digits, or as it is (json.hpp:18331-18408).
LEMMA WrittenKinds ==
    ASSUME NEW b \in Strings!Byte, b < 128
    PROVE  /\ b \in Strings!Lettered => Strings!Written(b, b) = <<92, Strings!LetterOf(b)>>
           /\ b \notin Strings!Lettered /\ b < 32 =>
                  Strings!Written(b, b) =
                      <<92, 117, 48, 48, Strings!HexDigit(b \div 16), Strings!HexDigit(b % 16)>>
           /\ b \notin Strings!Lettered /\ b >= 32 => Strings!Written(b, b) = <<b>>
<1>1. CASE b \in Strings!Lettered
  BY <1>1 DEF Strings!Written, Strings!Backslash
<1>2. CASE b \notin Strings!Lettered /\ b >= 32
  <2>1. ~(b < 32)
    BY <1>2 DEF Strings!Byte
  <2>2. Strings!Written(b, b) = <<b>>
    BY <1>2, <2>1, Zenon DEF Strings!Written
  <2> QED
    BY <1>2, <2>1, <2>2
<1>3. CASE b \notin Strings!Lettered /\ b < 32
  <2>1. Strings!Written(b, b) = Strings!Hex4(b)
    BY <1>3, Zenon DEF Strings!Written
  <2>2. b \div 4096 = 0 /\ (b \div 256) % 16 = 0 /\ (b \div 16) % 16 = b \div 16
    BY <1>3, SMT DEF Strings!Byte
  <2>3. Strings!HexDigit(0) = 48
    BY DEF Strings!HexDigit
  <2>4. Strings!Hex4(b) =
            <<92, 117, 48, 48, Strings!HexDigit(b \div 16), Strings!HexDigit(b % 16)>>
    BY <2>2, <2>3, SMT DEF Strings!Hex4, Strings!Backslash, Strings!LetterU
  <2>5. ~(b >= 32)
    BY <1>3 DEF Strings!Byte
  <2> QED
    BY <1>3, <2>1, <2>4, <2>5
<1> QED
  BY <1>1, <1>2, <1>3 DEF Strings!Byte

-----------------------------------------------------------------------------
(* The strings of a document: what the receiver's lexer makes of it *)

\* A lexer reads bytes from one state to another.
Chain(e, c) ==
    /\ c \in [0..Len(e) -> Strings!Lexer]
    /\ \A i \in 1..Len(e) : c[i] = Strings!Scan(c[i - 1], e[i])

Reads(e, s, t) == \E c : Chain(e, c) /\ c[0] = s /\ c[Len(e)] = t

\* One byte read is one step of the lexer.
LEMMA ReadsOne ==
    ASSUME NEW s \in Strings!Lexer, NEW b, NEW t \in Strings!Lexer, Strings!Scan(s, b) = t
    PROVE  Reads(<<b>>, s, t)
<1> DEFINE e == <<b>>
           c == [i \in 0..1 |-> IF i = 0 THEN s ELSE t]
<1>1. Len(e) = 1 /\ e[1] = b
  OBVIOUS
<1>2. c \in [0..1 -> Strings!Lexer] /\ c[0] = s /\ c[1] = t
  OBVIOUS
<1> HIDE DEF e, c
<1>3. \A i \in 1..1 : c[i] = Strings!Scan(c[i - 1], e[i])
  <2>1. c[1] = Strings!Scan(c[1 - 1], e[1])
    BY <1>1, <1>2
  <2>2. \A i \in 1..1 : i = 1
    OBVIOUS
  <2> QED
    BY <2>1, <2>2, Zenon
<1>4. Chain(e, c)
  BY <1>1, <1>2, <1>3 DEF Chain
<1>5. Reads(e, s, t)
  BY <1>1, <1>2, <1>4 DEF Reads
<1> QED
  BY <1>5 DEF e

\* What is read goes on by one byte.
LEMMA ReadsNext ==
    ASSUME NEW e, e \in Seq(Strings!Byte), NEW b \in Strings!Byte, NEW s, NEW t, NEW u \in Strings!Lexer,
           Reads(e, s, t), Strings!Scan(t, b) = u
    PROVE  Append(e, b) \in Seq(Strings!Byte) /\ Reads(Append(e, b), s, u)
<1>1. PICK c : Chain(e, c) /\ c[0] = s /\ c[Len(e)] = t
  BY Zenon DEF Reads
<1> DEFINE n == Len(e)
           f == Append(e, b)
           d == [i \in 0..n + 1 |-> IF i <= n THEN c[i] ELSE u]
<1>2. n \in Nat
  OBVIOUS
<1>3. /\ f \in Seq(Strings!Byte) /\ Len(f) = n + 1
      /\ \A i \in 1..n : f[i] = e[i]
      /\ f[n + 1] = b
  OBVIOUS
<1>4. /\ c \in [0..n -> Strings!Lexer] /\ c[0] = s /\ c[n] = t
      /\ \A i \in 1..n : c[i] = Strings!Scan(c[i - 1], e[i])
  BY <1>1, Zenon DEF Chain
<1> HIDE DEF n, f
<1>5. d \in [0..n + 1 -> Strings!Lexer]
  BY <1>2, <1>4
<1>6. /\ \A i \in 0..n : d[i] = c[i]
      /\ d[n + 1] = u
  BY <1>2
<1> HIDE DEF d
<1>7. ASSUME NEW i \in 1..n + 1
      PROVE  d[i] = Strings!Scan(d[i - 1], f[i])
  <2>1. CASE i \in 1..n
    <3>1. i \in 0..n /\ i - 1 \in 0..n
      BY <1>2, <2>1
    <3> QED
      BY <1>3, <1>4, <1>6, <2>1, <3>1
  <2>2. CASE i = n + 1
    <3>1. i - 1 = n /\ n \in 0..n
      BY <1>2, <2>2
    <3> QED
      BY <1>3, <1>4, <1>6, <2>2, <3>1
  <2> QED
    BY <1>2, <2>1, <2>2
<1>8. Chain(f, d)
  BY <1>3, <1>5, <1>7 DEF Chain
<1>9. d[0] = s /\ d[Len(f)] = u
  BY <1>2, <1>3, <1>4, <1>6
<1>10. Reads(f, s, u)
  BY <1>8, <1>9, Zenon DEF Reads
<1> QED
  BY <1>3, <1>10, Zenon DEF f

\* A byte written as it came, within a code point or not.
LEMMA ScanAsItCame ==
    ASSUME NEW string0 \in Seq(Strings!Byte), NEW st \in 0..8 \ {1}, NEW b \in Strings!Byte, After(st, b) # 1,
           st = 0 => b >= 32 /\ b # 34 /\ b # 92
    PROVE  /\ Append(string0, b) \in Seq(Strings!Byte) /\ After(st, b) \in 0..8 \ {1}
           /\ Strings!Scan(Strings!Between(string0, st), b)
                  = Strings!Between(Append(string0, b), After(st, b))
<1> DEFINE s == Strings!Within(string0, Strings!RangesOf(st))
           to == After(st, b)
           longer == Append(string0, b)
<1>1. longer \in Seq(Strings!Byte) /\ longer = string0 \o <<b>>
  BY AppendProperties, AppendIsConcat
<1>2. /\ s.buffer = string0 /\ s.ranges = Strings!RangesOf(st)
      /\ s.at = IF st = 0 THEN "string" ELSE "bytes"
  BY WithinFields
<1> HIDE DEF s
<1>3. CASE st = 0
  <2>0. s.at = "string"
    BY <1>2, <1>3
  <2>1. Strings!Scan(s, b) = Strings!ScanChar(s, b)
    BY <2>0, Zenon DEF Strings!Scan
  <2>2. b # Strings!Quote /\ b # Strings!Backslash /\ ~Strings!Control(b)
    BY <1>3 DEF Strings!Quote, Strings!Backslash, Strings!Control, Strings!Byte
  <2>3. CASE b < 128
    <3>1. Strings!Plain(b)
      BY <1>3, <2>3 DEF Strings!Plain, Strings!Quote, Strings!Backslash, Strings!Byte
    <3>2. Strings!ScanChar(s, b) = Strings!Add(s, <<b>>)
      BY <2>2, <3>1 DEF Strings!ScanChar
    <3>3. to = 0 /\ Strings!RangesOf(0) = <<>>
      BY <1>3, <2>3, DecodeLead, RangesByState
    <3>4. Strings!Add(s, <<b>>) = Strings!Within(longer, Strings!RangesOf(to))
      BY <1>1, <1>2, <3>3, Zenon DEF Strings!Add
    <3>5. to \in 0..8 \ {1}
      BY <3>3
    <3> QED
      BY <1>1, <2>1, <3>2, <3>4, <3>5, Zenon DEF Strings!Between, s
  <2>4. CASE b >= 128
    <3>1. ~Strings!Plain(b)
      BY <2>4 DEF Strings!Plain, Strings!Byte
    <3>2. to \in 2..8 /\ Strings!Followers(b) = Strings!RangesOf(to)
      BY <1>3, <2>4, DecodeLead
    <3>3. Strings!Followers(b) # <<>> /\ to \in 0..8 \ {1}
      BY <3>2, RangesTail
    <3>4. Strings!ScanChar(s, b) = Strings!Within(s.buffer \o <<b>>, Strings!Followers(b))
      BY <2>2, <3>1, <3>3 DEF Strings!ScanChar
    <3>5. Strings!ScanChar(s, b) = Strings!Within(longer, Strings!RangesOf(to))
      BY <1>1, <1>2, <3>2, <3>4, Zenon
    <3> QED
      BY <1>1, <2>1, <3>3, <3>5, Zenon DEF Strings!Between, s
  <2> QED
    BY <2>3, <2>4 DEF Strings!Byte
<1>4. CASE st # 0
  <2>1. st \in 2..8 /\ s.at = "bytes"
    BY <1>2, <1>4
  <2>2. Strings!Scan(s, b) = Strings!NextByteInRange(s, b)
    BY <2>1 DEF Strings!Scan
  <2>3. b \in Head(s.ranges) /\ Tail(s.ranges) = Strings!RangesOf(to)
    BY <1>2, <2>1, RangesTail
  <2>4. Strings!NextByteInRange(s, b) = Strings!Within(s.buffer \o <<b>>, Tail(s.ranges))
    BY <2>3, Zenon DEF Strings!NextByteInRange
  <2>5. to \in 0..8 \ {1}
    BY <2>1, DecodeTail
  <2>6. Strings!Scan(s, b) = Strings!Within(longer, Strings!RangesOf(to))
    BY <1>1, <1>2, <2>2, <2>3, <2>4, Zenon
  <2> QED
    BY <1>1, <2>5, <2>6, Zenon DEF Strings!Between, s
<1> QED
  BY <1>3, <1>4

\* The lexer within an escape of a character.
Escaping(at, buffer, digits, number) == Lex(at, buffer, <<>>, digits, number, 0)

\* A lexer inside of an escape is one, and its fields.
LEMMA EscapingIsLexer ==
    ASSUME NEW at \in Strings!Place, NEW buffer \in Seq(Strings!Byte), NEW digits \in 0..3, NEW number \in Nat
    PROVE  /\ Escaping(at, buffer, digits, number) \in Strings!Lexer
           /\ Escaping(at, buffer, digits, number).at = at
           /\ Escaping(at, buffer, digits, number).buffer = buffer
           /\ Escaping(at, buffer, digits, number).digits = digits
           /\ Escaping(at, buffer, digits, number).number = number
           /\ Escaping(at, buffer, digits, number).high = 0
<1>1. <<>> \in Seq(SUBSET Strings!Byte) /\ 0 \in {0} \cup Strings!HighSurrogate
  OBVIOUS
<1>2. Lex(at, buffer, <<>>, digits, number, 0) \in Strings!Lexer
  BY <1>1, LexIsLexer, Zenon
<1> QED
  BY <1>2, LexFields DEF Escaping

\* A backslash and a u are read as the beginning of an escape with digits.
LEMMA EscapeBegins ==
    ASSUME NEW buffer \in Seq(Strings!Byte)
    PROVE  /\ Strings!Scan(Escaping("string", buffer, 0, 0), 92) = Escaping("escape", buffer, 0, 0)
           /\ Strings!Scan(Escaping("escape", buffer, 0, 0), 117) = Escaping("hex", buffer, 0, 0)
<1> DEFINE s == Escaping("string", buffer, 0, 0)
           t == Escaping("escape", buffer, 0, 0)
<1>1. s.at = "string" /\ t.at = "escape"
  BY LexFields DEF Escaping
<1>2. /\ Strings!Goto(s, "escape") = t
      /\ Strings!Goto(t, "hex") = Escaping("hex", buffer, 0, 0)
  BY GotoLex DEF Escaping
<1> HIDE DEF s, t
<1>3. Strings!Scan(s, 92) = Strings!ScanChar(s, 92)
  BY <1>1, Zenon DEF Strings!Scan
<1>4. Strings!ScanChar(s, 92) = Strings!Goto(s, "escape")
  <2>1. 92 # Strings!Quote /\ 92 = Strings!Backslash /\ ~Strings!Control(92) /\ ~Strings!Plain(92)
    BY DEF Strings!Quote, Strings!Backslash, Strings!Control, Strings!Plain
  <2> QED
    BY <2>1 DEF Strings!ScanChar
<1>5. Strings!Scan(t, 117) = Strings!ScanEscape(t, 117)
  BY <1>1 DEF Strings!Scan
<1>6. Strings!ScanEscape(t, 117) = Strings!Goto(t, "hex")
  <2>1. 117 \notin Strings!Escapes /\ 117 = Strings!LetterU
    BY DEF Strings!Escapes, Strings!LetterU
  <2> QED
    BY <2>1 DEF Strings!ScanEscape
<1> QED
  BY <1>2, <1>3, <1>4, <1>5, <1>6, Zenon DEF s, t

\* A digit of an escape that is not the last, as dump_escaped() writes it.
LEMMA DigitRead ==
    ASSUME NEW d \in 0..15
    PROVE  Strings!HexDigit(d) \in Strings!Byte /\ Strings!DigitOf(Strings!HexDigit(d)) = d
<1>1. CASE d < 10
  <2>1. Strings!HexDigit(d) = 48 + d /\ 48 + d \in 48..57
    BY <1>1 DEF Strings!HexDigit
  <2> QED
    BY <2>1 DEF Strings!DigitOf, Strings!Byte
<1>2. CASE d >= 10
  <2>1. Strings!HexDigit(d) = 87 + d /\ 87 + d \in 97..102
    BY <1>2 DEF Strings!HexDigit
  <2>2. 87 + d \notin 48..57 /\ 87 + d \notin 65..70 /\ 87 + d \in Strings!Byte /\ (87 + d) - 87 = d
    BY <2>1 DEF Strings!Byte
  <2> QED
    BY <2>1, <2>2 DEF Strings!DigitOf
<1> QED
  BY <1>1, <1>2

\* One more digit of an escape is read.
LEMMA EscapeDigit ==
    ASSUME NEW buffer \in Seq(Strings!Byte), NEW k \in 0..2, NEW n \in Nat, NEW d \in 0..15
    PROVE  Strings!Scan(Escaping("hex", buffer, k, n), Strings!HexDigit(d))
               = Escaping("hex", buffer, k + 1, n * 16 + d)
<1> DEFINE s == Escaping("hex", buffer, k, n)
           b == Strings!HexDigit(d)
           m == n * 16 + d
<1>1. s.at = "hex" /\ s.digits = k /\ s.number = n
  BY LexFields DEF Escaping
<1>2. Strings!WithDigit(s, m) = Escaping("hex", buffer, k + 1, m)
  <2>1. Strings!WithDigit(Lex("hex", buffer, <<>>, k, n, 0), m) = Lex("hex", buffer, <<>>, k + 1, m, 0)
    BY DigitTaken
  <2> QED
    BY <2>1, Zenon DEF Escaping
<1>3. Strings!DigitOf(b) = d /\ d # -1 /\ k # 3
  BY DigitRead
<1> HIDE DEF s, b
<1>4. Strings!Scan(s, b) = Strings!GetCodepoint(s, b)
  BY <1>1 DEF Strings!Scan
<1>5. Strings!GetCodepoint(s, b) = Strings!WithDigit(s, m)
  BY <1>1, <1>3, Zenon DEF Strings!GetCodepoint
<1> QED
  BY <1>2, <1>4, <1>5, Zenon DEF s, b

\* The last digit of an escape is read, and the byte it stands for is taken.
LEMMA EscapeEnds ==
    ASSUME NEW buffer \in Seq(Strings!Byte), NEW n \in 0..1, NEW d \in 0..15
    PROVE  Strings!Scan(Escaping("hex", buffer, 3, n), Strings!HexDigit(d))
               = Strings!Within(Append(buffer, n * 16 + d), <<>>)
<1> DEFINE s == Escaping("hex", buffer, 3, n)
           b == Strings!HexDigit(d)
           m == n * 16 + d
<1>1. s.at = "hex" /\ s.digits = 3 /\ s.number = n /\ s.high = 0 /\ s.buffer = buffer
  BY LexFields DEF Escaping
<1>3. Strings!DigitOf(b) = d /\ d # -1
  BY DigitRead
<1>4. m \in 0..31
  OBVIOUS
<1>5. m \notin Strings!HighSurrogate /\ m \notin Strings!LowSurrogate /\ m < 128
  BY <1>4, SMT DEF Strings!HighSurrogate, Strings!LowSurrogate
<1> HIDE DEF s, b
<1>6. Strings!Scan(s, b) = Strings!GetCodepoint(s, b)
  BY <1>1 DEF Strings!Scan
<1>7. Strings!GetCodepoint(s, b) = Strings!Escaped(s, m)
  BY <1>1, <1>3, Zenon DEF Strings!GetCodepoint
<1> HIDE DEF m
<1>8. Strings!Utf8(m) = <<m>>
  BY <1>5, SMT DEF Strings!Utf8
<1>9. Strings!Escaped(s, m) = Strings!Add(s, Strings!Utf8(m))
  BY <1>1, <1>5, Zenon DEF Strings!Escaped
<1>10. m \in Strings!Byte
  BY <1>4 DEF Strings!Byte
<1>11. Append(buffer, m) = buffer \o <<m>>
  BY <1>10, AppendIsConcat
<1>12. Strings!Add(s, Strings!Utf8(m)) = Strings!Within(Append(buffer, m), <<>>)
  BY <1>1, <1>8, <1>11, Zenon DEF Strings!Add
<1> QED
  BY <1>6, <1>7, <1>9, <1>12, Zenon DEF s, b, m

\* The letter of an escape is read as the byte it was written for.
LEMMA EscapeLetter ==
    ASSUME NEW buffer \in Seq(Strings!Byte), NEW b \in Strings!Lettered
    PROVE  /\ Strings!LetterOf(b) \in Strings!Byte
           /\ Strings!Scan(Escaping("escape", buffer, 0, 0), Strings!LetterOf(b))
                  = Strings!Within(Append(buffer, b), <<>>)
<1> DEFINE s == Escaping("escape", buffer, 0, 0)
           l == Strings!LetterOf(b)
<1>1. s.at = "escape" /\ s.buffer = buffer
  BY LexFields DEF Escaping
<1>2. b \in {8, 9, 10, 12, 13, 34, 92} /\ b \in Strings!Byte
  BY DEF Strings!Lettered, Strings!Byte
<1>3. l \in Strings!Escapes /\ l \in Strings!Byte
  BY <1>2 DEF Strings!LetterOf, Strings!Escapes, Strings!Byte
<1>4. Strings!EscapeOf(l) = b
  BY <1>2 DEF Strings!LetterOf, Strings!EscapeOf
<1>5. l # Strings!LetterU
  BY <1>3 DEF Strings!Escapes, Strings!LetterU
<1> HIDE DEF s, l
<1>6. Strings!Scan(s, l) = Strings!ScanEscape(s, l)
  BY <1>1 DEF Strings!Scan
<1>7. Strings!ScanEscape(s, l) = Strings!Add(s, <<b>>)
  BY <1>3, <1>4, <1>5 DEF Strings!ScanEscape
<1>8. Append(buffer, b) = buffer \o <<b>>
  BY <1>2, AppendIsConcat
<1>9. Strings!Add(s, <<b>>) = Strings!Within(Append(buffer, b), <<>>)
  BY <1>1, <1>8, Zenon DEF Strings!Add
<1> QED
  BY <1>3, <1>6, <1>7, <1>9, Zenon DEF s, l

\* The lexer between two code points, in the forms the lemmas use.
LEMMA BetweenCodePoints ==
    ASSUME NEW buffer \in Seq(Strings!Byte)
    PROVE  /\ Strings!Within(buffer, <<>>) = Escaping("string", buffer, 0, 0)
           /\ Strings!Between(buffer, 0) = Strings!Within(buffer, <<>>)
           /\ Escaping("string", buffer, 0, 0) \in Strings!Lexer
           /\ Escaping("escape", buffer, 0, 0) \in Strings!Lexer
           /\ Escaping("hex", buffer, 0, 0) \in Strings!Lexer
           /\ \A k \in 0..3 : \A n \in Nat : Escaping("hex", buffer, k, n) \in Strings!Lexer
<1>1. Strings!Within(buffer, <<>>) = Escaping("string", buffer, 0, 0)
  BY WithinIsLex DEF Escaping
<1>2. Strings!Between(buffer, 0) = Strings!Within(buffer, <<>>)
  BY RangesByState, Zenon DEF Strings!Between
<1>3. /\ "string" \in Strings!Place /\ "escape" \in Strings!Place /\ "hex" \in Strings!Place
      /\ 0 \in 0..3 /\ 0 \in Nat
  BY DEF Strings!Place
<1>4. /\ Escaping("string", buffer, 0, 0) \in Strings!Lexer
      /\ Escaping("escape", buffer, 0, 0) \in Strings!Lexer
      /\ Escaping("hex", buffer, 0, 0) \in Strings!Lexer
      /\ \A k \in 0..3 : \A n \in Nat : Escaping("hex", buffer, k, n) \in Strings!Lexer
  BY <1>3, EscapingIsLexer, Zenon
<1> QED
  BY <1>1, <1>2, <1>4, Zenon

\* The escape by a letter.
LEMMA LetteredReads ==
    ASSUME NEW buffer \in Seq(Strings!Byte), NEW b \in Strings!Lettered
    PROVE  /\ <<92, Strings!LetterOf(b)>> \in Seq(Strings!Byte)
           /\ Reads(<<92, Strings!LetterOf(b)>>, Strings!Between(buffer, 0), Strings!Between(Append(buffer, b), 0))
<1> DEFINE l == Strings!LetterOf(b)
           W == Escaping("string", buffer, 0, 0)
           E == Escaping("escape", buffer, 0, 0)
           T == Strings!Within(Append(buffer, b), <<>>)
<1>1. b \in Strings!Byte /\ 92 \in Strings!Byte
  BY DEF Strings!Lettered, Strings!Byte
<1>2. Append(buffer, b) \in Seq(Strings!Byte)
  BY <1>1, AppendProperties
<1>3. W \in Strings!Lexer /\ E \in Strings!Lexer /\ T \in Strings!Lexer
  BY <1>2, BetweenCodePoints, Zenon
<1>4. W = Strings!Between(buffer, 0) /\ T = Strings!Between(Append(buffer, b), 0)
  BY <1>2, BetweenCodePoints, Zenon
<1>5. Strings!Scan(W, 92) = E
  BY EscapeBegins
<1>6. l \in Strings!Byte /\ Strings!Scan(E, l) = T
  BY EscapeLetter
<1> HIDE DEF l, W, E, T
<1>7. Reads(<<92>>, W, E) /\ <<92>> \in Seq(Strings!Byte)
  BY <1>1, <1>3, <1>5, ReadsOne
<1>8. Append(<<92>>, l) \in Seq(Strings!Byte) /\ Reads(Append(<<92>>, l), W, T)
  BY <1>3, <1>6, <1>7, ReadsNext
<1>9. <<92, l>> = Append(<<92>>, l)
  OBVIOUS
<1> QED
  BY <1>4, <1>8, <1>9, Zenon DEF l

\* The escape by four digits.
LEMMA DigitsRead ==
    ASSUME NEW buffer \in Seq(Strings!Byte), NEW b \in Strings!Byte, b < 32
    PROVE  LET e == <<92, 117, 48, 48, Strings!HexDigit(b \div 16), Strings!HexDigit(b % 16)>>
           IN  /\ e \in Seq(Strings!Byte)
               /\ Reads(e, Strings!Between(buffer, 0), Strings!Between(Append(buffer, b), 0))
<1> DEFINE q == b \div 16
           r == b % 16
           h3 == Strings!HexDigit(q)
           h4 == Strings!HexDigit(r)
           W == Escaping("string", buffer, 0, 0)
           E == Escaping("escape", buffer, 0, 0)
           H0 == Escaping("hex", buffer, 0, 0)
           H1 == Escaping("hex", buffer, 1, 0)
           H2 == Escaping("hex", buffer, 2, 0)
           H3 == Escaping("hex", buffer, 3, q)
           T == Strings!Within(Append(buffer, b), <<>>)
<1>1. q \in 0..1 /\ r \in 0..15 /\ q * 16 + r = b /\ q \in 0..15 /\ q \in Nat
  BY DEF Strings!Byte
<1>2. 92 \in Strings!Byte /\ 117 \in Strings!Byte /\ 48 \in Strings!Byte
  BY DEF Strings!Byte
<1>3. h3 \in Strings!Byte /\ h4 \in Strings!Byte
  BY <1>1, DigitRead
<1>4. Append(buffer, b) \in Seq(Strings!Byte)
  BY AppendProperties
<1>5. W = Strings!Between(buffer, 0) /\ T = Strings!Between(Append(buffer, b), 0)
  BY <1>4, BetweenCodePoints, Zenon
<1>6. 1 \in 0..3 /\ 2 \in 0..3 /\ 3 \in 0..3 /\ 0 \in Nat
  OBVIOUS
<1>7. /\ W \in Strings!Lexer /\ E \in Strings!Lexer /\ H0 \in Strings!Lexer /\ T \in Strings!Lexer
  BY <1>4, BetweenCodePoints, Zenon
<1> HIDE DEF q, r
<1>8. H1 \in Strings!Lexer /\ H2 \in Strings!Lexer /\ H3 \in Strings!Lexer
  BY <1>1, <1>6, BetweenCodePoints, Zenon
<1>9. Strings!Scan(W, 92) = E /\ Strings!Scan(E, 117) = H0
  BY EscapeBegins
<1>10. Strings!HexDigit(0) = 48
  BY DEF Strings!HexDigit
<1>11. Strings!Scan(H0, 48) = H1
  <2>1. Strings!Scan(H0, Strings!HexDigit(0)) = Escaping("hex", buffer, 0 + 1, 0 * 16 + 0)
    BY EscapeDigit
  <2> QED
    BY <1>10, <2>1
<1>12. Strings!Scan(H1, 48) = H2
  <2>1. Strings!Scan(H1, Strings!HexDigit(0)) = Escaping("hex", buffer, 1 + 1, 0 * 16 + 0)
    BY EscapeDigit
  <2> QED
    BY <1>10, <2>1
<1>13. Strings!Scan(H2, h3) = H3
  <2>0. 2 \in 0..2 /\ 0 \in Nat
    OBVIOUS
  <2>1. Strings!Scan(H2, h3) = Escaping("hex", buffer, 2 + 1, 0 * 16 + q)
    BY <1>1, <2>0, EscapeDigit, Zenon
  <2>2. 2 + 1 = 3 /\ 0 * 16 + q = q
    BY <1>1
  <2> QED
    BY <2>1, <2>2
<1>14. Strings!Scan(H3, h4) = T
  <2>1. Strings!Scan(H3, h4) = Strings!Within(Append(buffer, q * 16 + r), <<>>)
    BY <1>1, EscapeEnds
  <2> QED
    BY <1>1, <2>1
<1> HIDE DEF h3, h4, W, E, H0, H1, H2, H3, T
<1>20. <<92>> \in Seq(Strings!Byte) /\ Reads(<<92>>, W, E)
  BY <1>2, <1>7, <1>9, ReadsOne
<1>21. Append(<<92>>, 117) \in Seq(Strings!Byte) /\ Reads(Append(<<92>>, 117), W, H0)
  BY <1>2, <1>7, <1>9, <1>20, ReadsNext
<1>22. <<92, 117>> = Append(<<92>>, 117)
  OBVIOUS
<1>23. <<92, 117>> \in Seq(Strings!Byte) /\ Reads(<<92, 117>>, W, H0)
  BY <1>21, <1>22
<1>24. Append(<<92, 117>>, 48) \in Seq(Strings!Byte) /\ Reads(Append(<<92, 117>>, 48), W, H1)
  BY <1>2, <1>8, <1>11, <1>23, ReadsNext
<1>25. <<92, 117, 48>> = Append(<<92, 117>>, 48)
  OBVIOUS
<1>26. <<92, 117, 48>> \in Seq(Strings!Byte) /\ Reads(<<92, 117, 48>>, W, H1)
  BY <1>24, <1>25
<1>27. Append(<<92, 117, 48>>, 48) \in Seq(Strings!Byte) /\ Reads(Append(<<92, 117, 48>>, 48), W, H2)
  BY <1>2, <1>8, <1>12, <1>26, ReadsNext
<1>28. <<92, 117, 48, 48>> = Append(<<92, 117, 48>>, 48)
  OBVIOUS
<1>29. <<92, 117, 48, 48>> \in Seq(Strings!Byte) /\ Reads(<<92, 117, 48, 48>>, W, H2)
  BY <1>27, <1>28
<1>30. Append(<<92, 117, 48, 48>>, h3) \in Seq(Strings!Byte) /\ Reads(Append(<<92, 117, 48, 48>>, h3), W, H3)
  BY <1>3, <1>8, <1>13, <1>29, ReadsNext
<1>31. <<92, 117, 48, 48, h3>> = Append(<<92, 117, 48, 48>>, h3)
  OBVIOUS
<1>32. <<92, 117, 48, 48, h3>> \in Seq(Strings!Byte) /\ Reads(<<92, 117, 48, 48, h3>>, W, H3)
  BY <1>30, <1>31
<1>33. /\ Append(<<92, 117, 48, 48, h3>>, h4) \in Seq(Strings!Byte)
       /\ Reads(Append(<<92, 117, 48, 48, h3>>, h4), W, T)
  BY <1>3, <1>7, <1>14, <1>32, ReadsNext
<1>34. <<92, 117, 48, 48, h3, h4>> = Append(<<92, 117, 48, 48, h3>>, h4)
  OBVIOUS
<1>35. <<92, 117, 48, 48, h3, h4>> \in Seq(Strings!Byte) /\ Reads(<<92, 117, 48, 48, h3, h4>>, W, T)
  BY <1>33, <1>34
<1> QED
  BY <1>5, <1>35, Zenon DEF h3, h4, q, r

\* Whatever byte is taken, what dump_escaped() writes for it is read as that byte.
LEMMA EmittedReads ==
    ASSUME NEW buffer \in Seq(Strings!Byte), NEW st \in 0..8 \ {1}, NEW b \in Strings!Byte, NEW codep \in Nat,
           EnoughBits(st, codep), After(st, b) # 1
    PROVE  /\ EmittedFor(st, codep, b) \in Seq(Strings!Byte)
           /\ Len(EmittedFor(st, codep, b)) \in {1, 2, 6}
           /\ st # 0 \/ After(st, b) # 0 => Len(EmittedFor(st, codep, b)) = 1
           /\ After(st, b) \in 0..8 \ {1}
           /\ Reads(EmittedFor(st, codep, b), Strings!Between(buffer, st),
                    Strings!Between(Append(buffer, b), After(st, b)))
<1> DEFINE e == EmittedFor(st, codep, b)
           to == After(st, b)
           s == Strings!Between(buffer, st)
           t == Strings!Between(Append(buffer, b), to)
<1>0. to \in 0..8 \ {1}
  <2>1. CASE st = 0
    <3>1. After(0, b) \in 0..8
      <4>1. b < 128 \/ b >= 128
        BY DEF Strings!Byte
      <4>2. b >= 128 => After(0, b) \in 1..8
        BY DecodeLead
      <4>3. b < 128 => After(0, b) = 0
        BY DecodeLead
      <4> QED
        BY <4>1, <4>2, <4>3
    <3>2. to = After(0, b)
      BY <2>1, Zenon
    <3> QED
      BY <3>1, <3>2
  <2>2. CASE st \in 2..8
    BY <2>2, DecodeTail
  <2> QED
    BY <2>1, <2>2
<1>1. Append(buffer, b) \in Seq(Strings!Byte)
  BY AppendProperties
<1>2. s \in Strings!Lexer /\ t \in Strings!Lexer
  BY <1>0, <1>1, WithinFields, Zenon DEF Strings!Between
<1>3. ASSUME e = <<b>>, st = 0 => b >= 32 /\ b # 34 /\ b # 92
      PROVE  e \in Seq(Strings!Byte) /\ Len(e) = 1 /\ Reads(e, s, t)
  <2>1. Strings!Scan(s, b) = t
    BY <1>3, ScanAsItCame
  <2>2. Reads(<<b>>, s, t)
    BY <1>2, <2>1, ReadsOne
  <2>3. <<b>> \in Seq(Strings!Byte) /\ Len(<<b>>) = 1
    OBVIOUS
  <2> QED
    BY <1>3, <2>2, <2>3, Zenon
<1>4. CASE st \in 2..8
  <2>1. e = <<b>> /\ st # 0
    BY <1>4, EmittedAsItCame
  <2> QED
    BY <1>0, <1>3, <2>1
<1>5. CASE st = 0 /\ b >= 128
  <2>1. e = <<b>> /\ b >= 32 /\ b # 34 /\ b # 92
    BY <1>5, EmittedLead DEF Strings!Byte
  <2> QED
    BY <1>0, <1>3, <2>1
<1>6. CASE st = 0 /\ b < 128
  <2>1. e = Strings!Written(b, b) /\ to = 0
    BY <1>6, EmittedLead, DecodeLead
  <2>2. CASE b \in Strings!Lettered
    <3> DEFINE two == <<92, Strings!LetterOf(b)>>
    <3>1. e = two
      BY <1>6, <2>1, <2>2, WrittenKinds
    <3>2. two \in Seq(Strings!Byte) /\ Reads(two, s, t)
      BY <1>6, <2>1, <2>2, LetteredReads
    <3>3. Len(two) = 2
      OBVIOUS
    <3> HIDE DEF two, e
    <3> QED
      BY <1>0, <1>6, <2>1, <3>1, <3>2, <3>3 DEF e
  <2>3. CASE b \notin Strings!Lettered /\ b < 32
    <3> DEFINE six == <<92, 117, 48, 48, Strings!HexDigit(b \div 16), Strings!HexDigit(b % 16)>>
    <3>1. e = six
      BY <1>6, <2>1, <2>3, WrittenKinds
    <3>2. six \in Seq(Strings!Byte) /\ Reads(six, s, t)
      BY <1>6, <2>1, <2>3, DigitsRead
    <3>3. Len(six) = 6
      OBVIOUS
    <3> HIDE DEF six, e
    <3> QED
      BY <1>0, <1>6, <2>1, <3>1, <3>2, <3>3 DEF e
  <2>4. CASE b \notin Strings!Lettered /\ b >= 32
    <3>1. e = <<b>>
      BY <1>6, <2>1, <2>4, WrittenKinds
    <3>2. b # 34 /\ b # 92
      BY <2>4 DEF Strings!Lettered
    <3> QED
      BY <1>0, <1>3, <1>6, <2>1, <2>4, <3>1, <3>2
  <2> QED
    BY <2>2, <2>3, <2>4 DEF Strings!Byte
<1> QED
  BY <1>4, <1>5, <1>6 DEF Strings!Byte

-----------------------------------------------------------------------------
(* The strings of a document: a step of dump_escaped() *)

\* What it has made of the bytes it has taken, by its fields.
Dumped(state, codep, buffer, out, used) ==
    [state |-> state, codep |-> codep, buffer |-> buffer, out |-> out, used |-> used]

\* The fields of a dump that is written out.
LEMMA DumpedFields ==
    ASSUME NEW state, NEW codep, NEW buffer, NEW out, NEW used
    PROVE  /\ Dumped(state, codep, buffer, out, used).state = state
           /\ Dumped(state, codep, buffer, out, used).codep = codep
           /\ Dumped(state, codep, buffer, out, used).buffer = buffer
           /\ Dumped(state, codep, buffer, out, used).out = out
           /\ Dumped(state, codep, buffer, out, used).used = used
  BY DEF Dumped

DumpType == [state : Strings!States, codep : Nat, buffer : Seq(Strings!Byte), out : Seq(Strings!Byte), used : Nat]

\* Every dump can be written out by its fields.
LEMMA DumpIsDumped ==
    ASSUME NEW d \in DumpType
    PROVE  /\ d = Dumped(d.state, d.codep, d.buffer, d.out, d.used)
           /\ d.state \in 0..8 /\ d.codep \in Nat /\ d.used \in Nat
           /\ d.buffer \in Seq(Strings!Byte) /\ d.out \in Seq(Strings!Byte)
  BY DEF Dumped, DumpType, Strings!States, Strings!Accept

\* A dump that is written out, of fields of the right kind, is one.
LEMMA DumpedIsTyped ==
    ASSUME NEW state \in 0..8, NEW codep \in Nat, NEW buffer \in Seq(Strings!Byte), NEW out \in Seq(Strings!Byte),
           NEW used \in Nat
    PROVE  Dumped(state, codep, buffer, out, used) \in DumpType
  BY DEF Dumped, DumpType, Strings!States, Strings!Accept

\* string_buffer goes to the output when fewer than thirteen bytes are left in it
\* (json.hpp:18414-18421).
LEMMA FlushIs ==
    ASSUME NEW state, NEW codep, NEW buffer, NEW out, NEW used
    PROVE  LET d == Dumped(state, codep, buffer, out, used)
           IN  /\ BufferSize - Len(buffer) < 13 => Strings!Flush(d) = Dumped(state, codep, <<>>, out \o buffer, used)
               /\ ~(BufferSize - Len(buffer) < 13) => Strings!Flush(d) = d
<1> DEFINE d == Dumped(state, codep, buffer, out, used)
           d1 == [d EXCEPT !.out = out \o buffer]
<1>1. d.buffer = buffer
  BY DumpedFields
<1>2. ASSUME NEW more
      PROVE  [d EXCEPT !.out = more] = Dumped(state, codep, buffer, more, used)
  BY DEF Dumped
<1>3. ASSUME NEW more
      PROVE  [Dumped(state, codep, buffer, more, used) EXCEPT !.buffer = <<>>] = Dumped(state, codep, <<>>, more, used)
  BY DEF Dumped
<1>4. [d EXCEPT !.out = @ \o d.buffer, !.buffer = <<>>] = [d1 EXCEPT !.buffer = <<>>]
  BY Zenon DEF Dumped
<1>5. d1 = Dumped(state, codep, buffer, out \o buffer, used)
  BY <1>2, Zenon
<1> HIDE DEF d, d1
<1>6. [d EXCEPT !.out = @ \o d.buffer, !.buffer = <<>>] = Dumped(state, codep, <<>>, out \o buffer, used)
  BY <1>3, <1>4, <1>5, Zenon
<1>7. /\ BufferSize - Len(d.buffer) < 13 =>
             Strings!Flush(d) = [d EXCEPT !.out = @ \o d.buffer, !.buffer = <<>>]
      /\ ~(BufferSize - Len(d.buffer) < 13) => Strings!Flush(d) = d
  BY Zenon DEF Strings!Flush
<1> QED
  BY <1>1, <1>6, <1>7, Zenon DEF d

\* The bytes of string_buffer that are in use when some are added, and the NUL with them.
InUse(buffer, bytes) == Len(buffer) + Len(bytes) + (IF Len(bytes) = 6 THEN 1 ELSE 0)

MostUsed(used, buffer, bytes) == IF InUse(buffer, bytes) > used THEN InUse(buffer, bytes) ELSE used

\* One byte of a string, in terms of where the decoder is after it: an exception, a
\* whole code point, or a part of one (json.hpp:18325-18480).
LEMMA DumpByteIs ==
    ASSUME NEW st \in 0..8 \ {1}, NEW codep, NEW buffer, NEW out, NEW used, NEW b \in Strings!Byte
    PROVE  LET d == Dumped(st, codep, buffer, out, used)
               e == EmittedFor(st, codep, b)
               copied == Dumped(After(st, b), Strings!Codepoint(st, codep, b), buffer \o e, out, MostUsed(used, buffer, e))
           IN  /\ After(st, b) = 1 => Strings!DumpByte(d, b) = Dumped(1, codep, buffer, out, used)
               /\ After(st, b) = 0 => Strings!DumpByte(d, b) = Strings!Flush(copied)
               /\ After(st, b) \notin {0, 1} => Strings!DumpByte(d, b) = copied
<1> DEFINE d == Dumped(st, codep, buffer, out, used)
           e == EmittedFor(st, codep, b)
           to == After(st, b)
           c == Strings!Codepoint(st, codep, b)
           copied == Dumped(to, c, buffer \o e, out, MostUsed(used, buffer, e))
<1>1. d.state = st /\ d.codep = codep /\ d.buffer = buffer /\ d.out = out /\ d.used = used
  BY DumpedFields
<1>2. [d EXCEPT !.state = 1] = Dumped(1, codep, buffer, out, used)
  BY DEF Dumped
<1> HIDE DEF d
<1>3. Strings!Decode(d.state, Strings!TypeOf(b)) = to /\ Strings!Codepoint(d.state, d.codep, b) = c
  BY <1>1, Zenon DEF After
<1>4. Strings!Emitted(d, b) = e
  BY <1>1, Zenon DEF Strings!Emitted, EmittedFor, After, Strings!Accept
<1> HIDE DEF to, c, e
<1>5. Strings!Copy(d, to, c, e) = copied
  BY <1>1, Zenon DEF Strings!Copy, Dumped, MostUsed, InUse
<1> HIDE DEF copied
<1>6. st # 1
  OBVIOUS
<1>7. CASE to = 1
  <2>1. to # 0 /\ ~(to \notin {0, 1}) /\ (d.state = 1 \/ to = 1)
    BY <1>7
  <2>2. Strings!DumpByte(d, b) = [d EXCEPT !.state = 1]
    BY <1>1, <1>3, <1>6, <1>7, <2>1, Zenon DEF Strings!DumpByte, Strings!Accept, Strings!Reject
  <2> QED
    BY <1>2, <1>7, <2>1, <2>2 DEF to, d
<1>8. CASE to = 0
  <2>1. to # 1 /\ d.state # 1
    BY <1>1, <1>8
  <2>2. Strings!DumpByte(d, b) = Strings!Flush(Strings!Copy(d, to, c, e))
    BY <1>3, <1>4, <1>8, <2>1, Zenon DEF Strings!DumpByte, Strings!Accept, Strings!Reject
  <2> QED
    BY <1>5, <1>8, <2>1, <2>2 DEF to, d, c, e, copied
<1>9. CASE to \notin {0, 1}
  <2>1. to # 1 /\ to # 0 /\ d.state # 1
    BY <1>1, <1>9
  <2>2. Strings!DumpByte(d, b) = Strings!Copy(d, to, c, e)
    BY <1>3, <1>4, <1>9, <2>1, Zenon DEF Strings!DumpByte, Strings!Accept, Strings!Reject
  <2> QED
    BY <1>5, <1>9, <2>1, <2>2 DEF to, d, c, e, copied
<1> QED
  BY <1>7, <1>8, <1>9

\* Concatenation is associative.
LEMMA ConcatBytes ==
    ASSUME NEW p \in Seq(Strings!Byte), NEW q \in Seq(Strings!Byte), NEW r \in Seq(Strings!Byte)
    PROVE  (p \o q) \o r = p \o (q \o r)
  BY ConcatAssociative

\* The fields of a dump whose string_buffer was just emptied.
LEMMA EmptyDumped ==
    ASSUME NEW state, NEW codep, NEW out, NEW used
    PROVE  /\ Dumped(state, codep, <<>>, out, used).state = state
           /\ Dumped(state, codep, <<>>, out, used).codep = codep
           /\ Dumped(state, codep, <<>>, out, used).buffer = <<>>
           /\ Dumped(state, codep, <<>>, out, used).out = out
           /\ Dumped(state, codep, <<>>, out, used).used = used
  BY DumpedFields

\* The room that string_buffer has while a code point is incomplete.
LEMMA RoomByState ==
    /\ Strings!RoomFor(0) = 13 /\ Strings!RoomFor(2) = 10 /\ Strings!RoomFor(3) = 11
    /\ \A st \in {4, 5, 6, 7, 8} : Strings!RoomFor(st) = 12
  BY DEF Strings!RoomFor, Strings!Accept

\* A byte that decode() goes on with: what is written for it comes after the rest, and
\* leaves room for what may follow.
LEMMA DumpGrows ==
    ASSUME NEW d \in DumpType, d.state # 1, EnoughBits(d.state, d.codep),
           Len(d.buffer) + Strings!RoomFor(d.state) <= BufferSize, d.used <= BufferSize,
           NEW b \in Strings!Byte, After(d.state, b) # 1
    PROVE  /\ Strings!DumpByte(d, b) \in DumpType
           /\ Strings!DumpByte(d, b).state = After(d.state, b)
           /\ EnoughBits(Strings!DumpByte(d, b).state, Strings!DumpByte(d, b).codep)
           /\ Strings!DumpByte(d, b).out \o Strings!DumpByte(d, b).buffer
                  = (d.out \o d.buffer) \o EmittedFor(d.state, d.codep, b)
           /\ Strings!DumpByte(d, b).used <= BufferSize
           /\ Len(Strings!DumpByte(d, b).buffer) + Strings!RoomFor(Strings!DumpByte(d, b).state) <= BufferSize
<1> DEFINE st == d.state
           codep == d.codep
           buffer == d.buffer
           out == d.out
           to == After(st, b)
           c == Strings!Codepoint(st, codep, b)
           e == EmittedFor(st, codep, b)
           longer == buffer \o e
           u == MostUsed(d.used, buffer, e)
           d2 == Strings!DumpByte(d, b)
           copied == Dumped(to, c, longer, out, u)
<1>1. /\ d = Dumped(st, codep, buffer, out, d.used)
      /\ st \in 0..8 /\ codep \in Nat /\ d.used \in Nat
      /\ buffer \in Seq(Strings!Byte) /\ out \in Seq(Strings!Byte)
  BY DumpIsDumped
<1>2. st \in 0..8 \ {1}
  BY <1>1
<1>3. /\ to = 0 => d2 = Strings!Flush(copied)
      /\ to \notin {0, 1} => d2 = copied
  <2>1. /\ to = 0 => Strings!DumpByte(Dumped(st, codep, buffer, out, d.used), b) = Strings!Flush(copied)
        /\ to \notin {0, 1} => Strings!DumpByte(Dumped(st, codep, buffer, out, d.used), b) = copied
    BY <1>2, DumpByteIs
  <2> QED
    BY <1>1, <2>1
<1>4. c \in Nat /\ EnoughBits(to, c)
  BY <1>1, <1>2, BitsGrow
<1>5. /\ e \in Seq(Strings!Byte) /\ Len(e) \in {1, 2, 6} /\ to \in 0..8 \ {1}
      /\ st # 0 \/ to # 0 => Len(e) = 1
  <2>1. <<>> \in Seq(Strings!Byte)
    OBVIOUS
  <2> QED
    BY <1>1, <1>2, <2>1, EmittedReads, SMTT(60)
<1>6. EnoughBits(st, codep) /\ Len(buffer) + Strings!RoomFor(st) <= BufferSize /\ to # 1
  OBVIOUS
<1>7. BufferSize \in Nat /\ BufferSize >= 13 /\ d.used <= BufferSize
  BY DocumentsAssumption
<1>8. st \in 2..8 =>
          /\ to = 0 => st = 2
          /\ to = 2 => st \in {3, 4, 5}
          /\ to = 3 => st \in {6, 7, 8}
          /\ to \in {0, 2, 3}
  BY <1>5, DecodeTail
<1>9. /\ longer \in Seq(Strings!Byte) /\ Len(longer) = Len(buffer) + Len(e)
      /\ Len(buffer) \in Nat
  BY <1>1, <1>5, ConcatProperties
<1> DEFINE n == Len(buffer)
           k == Len(e)
<1> HIDE DEF st, codep, buffer, out, to, c, e, longer, d2, n, k
<1>10. /\ n \in Nat /\ k \in {1, 2, 6} /\ Len(longer) = n + k
       /\ st # 0 \/ to # 0 => k = 1
       /\ n + Strings!RoomFor(st) <= BufferSize
  BY <1>5, <1>6, <1>9 DEF n, k
<1>11. u \in Nat /\ u <= BufferSize
  <2>0. InUse(buffer, e) = n + k + (IF k = 6 THEN 1 ELSE 0)
    BY Zenon DEF InUse, n, k
  <2>1. InUse(buffer, e) \in Nat /\ InUse(buffer, e) <= BufferSize
    <3>1. CASE st = 0
      <4>1. n + 13 <= BufferSize
        BY <1>10, <3>1, RoomByState
      <4> QED
        BY <1>7, <1>10, <2>0, <4>1
    <3>2. CASE st # 0
      <4>1. k = 1 /\ n + 10 <= BufferSize
        <5>1. Strings!RoomFor(st) \in {10, 11, 12}
          BY <1>2, <3>2, RoomByState
        <5> QED
          BY <1>7, <1>10, <3>2, <5>1
      <4> QED
        BY <1>7, <1>10, <2>0, <4>1
    <3> QED
      BY <3>1, <3>2
  <2> QED
    BY <1>1, <1>7, <2>1 DEF MostUsed
<1> HIDE DEF u
<1>12. (out \o longer) \in Seq(Strings!Byte) /\ out \o longer = (out \o buffer) \o e
  <2>1. out \o longer \in Seq(Strings!Byte)
    BY <1>1, <1>9, ConcatProperties
  <2>2. (out \o buffer) \o e = out \o (buffer \o e)
    BY <1>1, <1>5, ConcatBytes, Zenon
  <2> QED
    BY <2>1, <2>2, Zenon DEF longer
<1>13. copied \in DumpType
  BY <1>1, <1>4, <1>5, <1>9, <1>11, DumpedIsTyped
<1>14. /\ copied.state = to /\ copied.codep = c /\ copied.buffer = longer
       /\ copied.out = out /\ copied.used = u
  BY DumpedFields
<1>15. CASE to # 0
  <2>1. d2 = copied
    BY <1>3, <1>5, <1>15
  <2>2. n + k + Strings!RoomFor(to) <= BufferSize
    <3>1. CASE st = 0
      <4>1. n + 13 <= BufferSize /\ k = 1
        BY <1>10, <1>15, <3>1, RoomByState
      <4>2. Strings!RoomFor(to) \in {10, 11, 12}
        BY <1>5, <1>15, RoomByState
      <4> QED
        BY <1>7, <1>10, <4>1, <4>2
    <3>2. CASE st \in 2..8 /\ to = 2
      <4>1. Strings!RoomFor(st) \in {11, 12} /\ Strings!RoomFor(to) = 10 /\ k = 1
        BY <1>8, <1>10, <1>15, <3>2, RoomByState
      <4> QED
        BY <1>7, <1>10, <4>1
    <3>3. CASE st \in 2..8 /\ to = 3
      <4>1. Strings!RoomFor(st) = 12 /\ Strings!RoomFor(to) = 11 /\ k = 1
        BY <1>8, <1>10, <1>15, <3>3, RoomByState
      <4> QED
        BY <1>7, <1>10, <4>1
    <3> QED
      BY <1>2, <1>8, <1>15, <3>1, <3>2, <3>3
  <2> HIDE DEF copied
  <2>3. Len(d2.buffer) + Strings!RoomFor(d2.state) <= BufferSize
    BY <1>10, <1>14, <2>1, <2>2
  <2>4. d2 \in DumpType /\ d2.state = to /\ EnoughBits(d2.state, d2.codep) /\ d2.used <= BufferSize
    BY <1>4, <1>11, <1>13, <1>14, <2>1
  <2>5. d2.out \o d2.buffer = (out \o buffer) \o e
    BY <1>12, <1>14, <2>1
  <2> QED
    BY <2>3, <2>4, <2>5 DEF st, codep, buffer, out, to, e, d2
<1>16. CASE to = 0
  <2> DEFINE empty == Dumped(to, c, <<>>, out \o longer, u)
             full == BufferSize - Len(longer) < 13
  <2>1. (full => d2 = empty) /\ (~full => d2 = copied)
    <3>1. (full => Strings!Flush(copied) = empty) /\ (~full => Strings!Flush(copied) = copied)
      BY FlushIs, Zenon
    <3> QED
      BY <1>3, <1>16, <3>1, Zenon
  <2>2. <<>> \in Seq(Strings!Byte) /\ Len(<<>>) = 0
    OBVIOUS
  <2>3. empty \in DumpType
    BY <1>4, <1>5, <1>11, <1>12, <2>2, DumpedIsTyped
  <2>4. /\ empty.state = to /\ empty.codep = c /\ empty.buffer = <<>>
        /\ empty.out = out \o longer /\ empty.used = u
    <3>1. ASSUME NEW more
          PROVE  /\ Dumped(to, c, <<>>, more, u).state = to /\ Dumped(to, c, <<>>, more, u).codep = c
                 /\ Dumped(to, c, <<>>, more, u).buffer = <<>>
                 /\ Dumped(to, c, <<>>, more, u).out = more /\ Dumped(to, c, <<>>, more, u).used = u
      BY EmptyDumped
    <3> QED
      BY <3>1, Zenon
  <2>5. (out \o longer) \o <<>> = out \o longer
    BY <1>12, ConcatEmptySeq
  <2>6. Strings!RoomFor(to) = 13
    BY <1>16, RoomByState
  <2>7. ~full => Len(longer) + 13 <= BufferSize
    BY <1>7, <1>10
  <2> HIDE DEF copied, empty, full
  <2>8. Len(d2.buffer) + Strings!RoomFor(d2.state) <= BufferSize
    <3>1. CASE full
      BY <1>7, <2>1, <2>2, <2>4, <2>6, <3>1
    <3>2. CASE ~full
      BY <1>14, <2>1, <2>6, <2>7, <3>2
    <3> QED
      BY <3>1, <3>2
  <2>9. d2 \in DumpType /\ d2.state = to /\ EnoughBits(d2.state, d2.codep) /\ d2.used <= BufferSize
    BY <1>4, <1>11, <1>13, <1>14, <2>1, <2>3, <2>4
  <2>10. d2.out \o d2.buffer = (out \o buffer) \o e
    <3>1. CASE full
      BY <1>12, <2>1, <2>4, <2>5, <3>1
    <3>2. CASE ~full
      BY <1>12, <1>14, <2>1, <3>2
    <3> QED
      BY <3>1, <3>2
  <2> QED
    BY <2>8, <2>9, <2>10 DEF st, codep, buffer, out, to, e, d2
<1> QED
  BY <1>15, <1>16

-----------------------------------------------------------------------------
(* The strings of a document: writing what was read *)

\* What a request is written from is what scan_string() left in token_buffer, which
\* decode() never rejects.
LEMMA NextOfRequest ==
    ASSUME Strings!RequestInv, origin = "request", string \in Seq(Strings!Byte),
           lexer.buffer \in Seq(Strings!Byte), NEW b \in Strings!NextBytes
    PROVE  /\ lexer.at = "done" /\ b = lexer.buffer[Len(string) + 1]
           /\ Len(string) + 1 \in 1..Len(lexer.buffer)
           /\ \E run \in [0..Len(lexer.buffer) -> Strings!States] :
                  /\ Strings!RequestRun(run)
                  /\ run[Len(string) + 1] = After(dump.state, b)
                  /\ run[Len(string) + 1] \in 0..8 \ {1}
<1>1. b \in {lexer.buffer[i] : i \in {i \in DOMAIN lexer.buffer : lexer.at = "done" /\ i = Len(string) + 1}}
  BY DEF Strings!NextBytes
<1>2. lexer.at = "done" /\ b = lexer.buffer[Len(string) + 1] /\ Len(string) + 1 \in 1..Len(lexer.buffer)
  BY <1>1
<1>3. lexer.at # "error"
  BY <1>2
<1>4. PICK run \in [0..Len(lexer.buffer) -> Strings!States] : Strings!RequestRun(run)
  BY <1>3, Zenon DEF Strings!RequestInv
<1>5. (Len(string) + 1) - 1 = Len(string) /\ Len(string) + 1 \in 0..Len(lexer.buffer)
  BY <1>2
<1>6. run[Len(string) + 1] = After(run[(Len(string) + 1) - 1], b)
  <2>1. \A i \in 1..Len(lexer.buffer) : run[i] = After(run[i - 1], lexer.buffer[i])
    BY <1>4, RunDecodes, Zenon DEF Decodes
  <2>2. run[Len(string) + 1] = After(run[(Len(string) + 1) - 1], lexer.buffer[Len(string) + 1])
    BY <1>2, <2>1
  <2>3. b = lexer.buffer[Len(string) + 1]
    BY <1>2, Zenon
  <2> QED
    BY <2>2, <2>3
<1>7. run[Len(string)] = dump.state
  BY <1>4, Zenon DEF Strings!RequestRun
<1>8. run[Len(string) + 1] = After(dump.state, b)
  BY <1>5, <1>6, <1>7
<1>9. run[Len(string) + 1] \in 0..8 \ {1}
  BY <1>4, <1>5, RunDecodes, Zenon DEF Decodes
<1> QED
  BY <1>2, <1>4, <1>8, <1>9, Zenon

\* The decoder of the dump follows its run over what the request was found to have.
LEMMA TakeByteRequest ==
    ASSUME Strings!TypeOK, Strings!RequestInv, NEW b \in Strings!Byte, Strings!TakeByte(b),
           dump'.state = After(dump.state, b)
    PROVE  Strings!RequestInv' /\ (origin = "request" => After(dump.state, b) # 1)
<1>1. /\ b \in Strings!NextBytes /\ string' = Append(string, b)
      /\ lexer' = lexer /\ origin' = origin
  BY Zenon DEF Strings!TakeByte
<1>2. string \in Seq(Strings!Byte) /\ lexer.buffer \in Seq(Strings!Byte)
  BY LexerIsLex DEF Strings!TypeOK
<1>3. CASE origin # "request"
  BY <1>1, <1>3, Zenon DEF Strings!RequestInv
<1>4. CASE origin = "request"
  <2>1. /\ lexer.at = "done" /\ Len(string) + 1 \in 1..Len(lexer.buffer)
    BY <1>1, <1>2, <1>4, NextOfRequest
  <2>2. PICK run \in [0..Len(lexer.buffer) -> Strings!States] :
            /\ Strings!RequestRun(run)
            /\ run[Len(string) + 1] = After(dump.state, b)
            /\ run[Len(string) + 1] \in 0..8 \ {1}
    BY <1>1, <1>2, <1>4, NextOfRequest
  <2>3. Len(string') = Len(string) + 1 /\ Len(string') <= Len(lexer.buffer)
    BY <1>1, <1>2, <2>1
  <2>4. dump'.state = run[Len(string')]
    BY <2>2, <2>3
  <2>5. Strings!RequestRun(run)'
    BY <1>1, <2>2, <2>3, <2>4, Zenon DEF Strings!RequestRun
  <2>6. Strings!RequestInv'
    BY <1>1, <2>1, <2>2, <2>5, Zenon DEF Strings!RequestInv
  <2> QED
    BY <2>2, <2>6
<1> QED
  BY <1>3, <1>4

\* The receiver's lexer goes on over what is added.
LEMMA ReaderGoesOn ==
    ASSUME NEW p \in Seq(Strings!Byte), NEW e \in Seq(Strings!Byte), NEW s, NEW t, Reads(e, s, t)
    PROVE  \E run \in [Len(p)..Len(p \o e) -> Strings!Lexer] :
               /\ run[Len(p)] = s
               /\ \A i \in Len(p) + 1..Len(p \o e) : run[i] = Strings!Scan(run[i - 1], (p \o e)[i])
               /\ run[Len(p \o e)] = t
<1>1. PICK c : Chain(e, c) /\ c[0] = s /\ c[Len(e)] = t
  BY Zenon DEF Reads
<1> DEFINE n == Len(p)
           k == Len(e)
           w == p \o e
           run == [i \in n..n + k |-> c[i - n]]
<1>2. /\ c \in [0..k -> Strings!Lexer] /\ c[0] = s /\ c[k] = t
      /\ \A i \in 1..k : c[i] = Strings!Scan(c[i - 1], e[i])
  BY <1>1, Zenon DEF Chain
<1>3. /\ Len(w) = n + k
      /\ \A i \in 1..n + k : w[i] = IF i <= n THEN p[i] ELSE e[i - n]
  BY ConcatProperties
<1>4. n \in Nat /\ k \in Nat
  OBVIOUS
<1> HIDE DEF n, k, w
<1>5. run \in [n..n + k -> Strings!Lexer]
  BY <1>2, <1>4
<1>6. \A i \in n..n + k : run[i] = c[i - n]
  OBVIOUS
<1> HIDE DEF run
<1>7. run[n] = s /\ run[n + k] = t
  <2>1. n \in n..n + k /\ n + k \in n..n + k /\ n - n = 0 /\ (n + k) - n = k
    BY <1>4
  <2>2. \A i \in n..n + k : \A j : i - n = j => run[i] = c[j]
    BY <1>6, Zenon
  <2>3. run[n] = c[0]
    BY <2>1, <2>2, Zenon
  <2>4. run[n + k] = c[k]
    BY <2>1, <2>2, Zenon
  <2> QED
    BY <1>2, <2>3, <2>4, Zenon
<1>8. ASSUME NEW i \in n + 1..n + k
      PROVE  run[i] = Strings!Scan(run[i - 1], w[i])
  <2>1. /\ i \in n..n + k /\ i - 1 \in n..n + k /\ i - n \in 1..k /\ i \in 1..n + k
        /\ ~(i <= n) /\ i - 1 - n = i - n - 1
    BY <1>4
  <2>2. run[i] = c[i - n] /\ run[i - 1] = c[i - n - 1] /\ w[i] = e[i - n]
    BY <1>3, <1>6, <2>1
  <2> QED
    BY <1>2, <2>1, <2>2
<1>9. /\ run \in [n..Len(w) -> Strings!Lexer] /\ run[n] = s /\ run[Len(w)] = t
      /\ \A i \in n + 1..Len(w) : run[i] = Strings!Scan(run[i - 1], w[i])
  BY <1>3, <1>5, <1>7, <1>8
<1> QED
  BY <1>9, Zenon DEF n, w

\* dump_escaped() takes a byte.
LEMMA TakeByteStep ==
    ASSUME Strings!IInv, NEW b \in Strings!Byte, Strings!TakeByte(b)
    PROVE  Strings!IInv'
<1> DEFINE st == dump.state
           to == After(st, b)
           e == EmittedFor(st, dump.codep, b)
<1>1. /\ b \in Strings!NextBytes /\ dump.state # 1 /\ Strings!CaughtUp
      /\ string' = Append(string, b) /\ dump' = Strings!DumpByte(dump, b)
      /\ lexer' = lexer /\ origin' = origin /\ readBack' = readBack /\ reader' = reader
  BY Zenon DEF Strings!TakeByte, Strings!Reject
<1>2. /\ Strings!TypeOK /\ Strings!RequestInv /\ Strings!RoomInv
      /\ Strings!CodepointInv /\ Strings!ReaderInv
  BY Zenon DEF Strings!IInv
<1>3. /\ dump \in DumpType /\ string \in Seq(Strings!Byte) /\ readBack = Len(Strings!Body)
      /\ reader \in Strings!Lexer /\ Strings!DigitsOf(reader)
  BY <1>1, <1>2, Zenon DEF Strings!TypeOK, DumpType, Strings!CaughtUp
<1>4. st \in 0..8 \ {1} /\ dump.codep \in Nat /\ dump.out \in Seq(Strings!Byte) /\ dump.buffer \in Seq(Strings!Byte)
  BY <1>1, <1>3, DumpIsDumped
<1>5. EnoughBits(st, dump.codep)
  BY <1>2 DEF EnoughBits, Strings!CodepointInv
<1>6. dump.used <= BufferSize /\ Len(dump.buffer) + Strings!RoomFor(st) <= BufferSize
  BY <1>1, <1>2 DEF Strings!RoomInv, Strings!BufferNeverOverrun, Strings!Reject
<1>7. string' \in Seq(Strings!Byte)
  BY <1>1, <1>3
<1>8. Strings!Body = dump.out \o dump.buffer /\ Strings!Body' = dump'.out \o dump'.buffer
  BY DEF Strings!Body
<1>9. Strings!Body \in Seq(Strings!Byte)
  BY <1>4, <1>8, ConcatProperties
<1>10. CASE to = 1
  <2> DEFINE d1 == Dumped(1, dump.codep, dump.buffer, dump.out, dump.used)
  <2>1. dump' = d1
    <3>1. Strings!DumpByte(Dumped(st, dump.codep, dump.buffer, dump.out, dump.used), b) = d1
      BY <1>4, <1>10, DumpByteIs
    <3>2. dump = Dumped(st, dump.codep, dump.buffer, dump.out, dump.used)
      BY <1>3, DumpIsDumped
    <3> QED
      BY <1>1, <3>1, <3>2
  <2>2. /\ d1.state = 1 /\ d1.codep = dump.codep /\ d1.buffer = dump.buffer
        /\ d1.out = dump.out /\ d1.used = dump.used
    BY DumpedFields
  <2>3. d1 \in DumpType
    <3>1. 1 \in 0..8 /\ dump.used \in Nat
      BY <1>3, DumpIsDumped
    <3> QED
      BY <1>4, <3>1, DumpedIsTyped, Zenon
  <2> HIDE DEF d1
  <2>4. Strings!Body' = Strings!Body
    BY <1>8, <2>1, <2>2
  <2>5. dump'.state = to
    BY <1>10, <2>1, <2>2
  <2>6. Strings!RequestInv'
    BY <1>1, <1>2, <2>5, TakeByteRequest
  <2>7. Strings!TypeOK'
    BY <1>1, <1>2, <1>7, <2>1, <2>3, <2>4, Zenon DEF Strings!TypeOK, DumpType
  <2>8. Strings!RoomInv' /\ Strings!CodepointInv'
    BY <1>6, <2>1, <2>2 DEF Strings!RoomInv, Strings!BufferNeverOverrun, Strings!CodepointInv, Strings!Reject
  <2>9. Strings!ReaderInv'
    BY <1>1, <1>3, <2>1, <2>2, <2>4 DEF Strings!ReaderInv, Strings!CaughtUp, Strings!Reject
  <2> QED
    BY <2>6, <2>7, <2>8, <2>9, Zenon DEF Strings!IInv
<1>11. CASE to # 1
  <2>1. /\ dump' \in DumpType /\ dump'.state = to /\ EnoughBits(dump'.state, dump'.codep)
        /\ dump'.out \o dump'.buffer = (dump.out \o dump.buffer) \o e
        /\ dump'.used <= BufferSize
        /\ Len(dump'.buffer) + Strings!RoomFor(dump'.state) <= BufferSize
    BY <1>1, <1>3, <1>5, <1>6, <1>11, DumpGrows
  <2>2. /\ e \in Seq(Strings!Byte) /\ to \in 0..8 \ {1}
        /\ Reads(e, Strings!Between(string, st), Strings!Between(Append(string, b), to))
    BY <1>3, <1>4, <1>5, <1>11, EmittedReads
  <2>3. Strings!Body' = Strings!Body \o e
    BY <1>8, <2>1, Zenon
  <2>4. Strings!RequestInv'
    BY <1>1, <1>2, <2>1, TakeByteRequest
  <2>5. readBack' \in 0..Len(Strings!Body')
    <3>1. Len(Strings!Body \o e) = Len(Strings!Body) + Len(e) /\ Len(e) \in Nat /\ Len(Strings!Body) \in Nat
      BY <1>9, <2>2, ConcatProperties
    <3>2. readBack' = Len(Strings!Body) /\ Len(Strings!Body') = Len(Strings!Body) + Len(e)
      BY <1>1, <1>3, <2>3, <3>1, Zenon
    <3> QED
      BY <3>1, <3>2
  <2>6. Strings!TypeOK'
    BY <1>1, <1>2, <1>7, <2>1, <2>5, Zenon DEF Strings!TypeOK, DumpType
  <2>7. Strings!RoomInv' /\ Strings!CodepointInv'
    BY <2>1 DEF Strings!RoomInv, Strings!BufferNeverOverrun, Strings!CodepointInv, EnoughBits
  <2>8. Strings!ReaderInv'
    <3>1. PICK old \in [readBack..Len(Strings!Body) -> Strings!Lexer] : Strings!ReaderRun(old)
      BY <1>1, <1>2, Zenon DEF Strings!ReaderInv, Strings!Reject
    <3>2. reader = Strings!Between(string, st)
      BY <1>3, <3>1, Zenon DEF Strings!ReaderRun
    <3> DEFINE p == Strings!Body
               t == Strings!Between(Append(string, b), to)
    <3>3. p \in Seq(Strings!Byte)
      BY <1>9
    <3>4. Reads(e, reader, t)
      BY <2>2, <3>2, Zenon
    <3> HIDE DEF p, t
    <3>5. PICK run \in [Len(p)..Len(p \o e) -> Strings!Lexer] :
              /\ run[Len(p)] = reader
              /\ \A i \in Len(p) + 1..Len(p \o e) : run[i] = Strings!Scan(run[i - 1], (p \o e)[i])
              /\ run[Len(p \o e)] = t
      BY <2>2, <3>3, <3>4, ReaderGoesOn
    <3>6. /\ Strings!Body' = p \o e /\ readBack' = Len(p) /\ reader' = reader
          /\ Strings!Between(string', dump'.state) = t
      BY <1>1, <1>3, <2>1, <2>3, Zenon DEF p, t
    <3>7. /\ run \in [readBack'..Len(Strings!Body') -> Strings!Lexer]
          /\ run[readBack'] = reader'
          /\ \A i \in readBack' + 1..Len(Strings!Body') : run[i] = Strings!Scan(run[i - 1], Strings!Body'[i])
          /\ run[Len(Strings!Body')] = Strings!Between(string', dump'.state)
      BY <3>5, <3>6, Zenon
    <3>8. Strings!ReaderRun(run)'
      BY <3>7, Zenon DEF Strings!ReaderRun
    <3>9. dump'.state # Strings!Reject
      BY <2>1, <1>11 DEF Strings!Reject
    <3> QED
      BY <3>7, <3>8, <3>9, Zenon DEF Strings!ReaderInv
  <2> QED
    BY <2>4, <2>6, <2>7, <2>8, Zenon DEF Strings!IInv
<1> QED
  BY <1>10, <1>11

-----------------------------------------------------------------------------
(* The strings of a document: reading it back, and what follows *)

\* Every step of the lexer keeps the number of an escape below what its digits allow.
LEMMA ScanDigits ==
    ASSUME NEW s \in Strings!Lexer, NEW b \in Strings!Byte, Strings!DigitsOf(s)
    PROVE  Strings!DigitsOf(Strings!Scan(s, b))
<1>1. CASE s.at \in {"done", "error"}
  BY <1>1, ScanStays
<1>2. CASE s.at = "bytes"
  <2>1. Strings!Scan(s, b) = Strings!NextByteInRange(s, b)
    BY <1>2, Zenon DEF Strings!Scan
  <2>2. CASE b \notin Head(s.ranges)
    <3>1. Strings!Scan(s, b) = Strings!Goto(s, "error")
      BY <2>1, <2>2, Zenon DEF Strings!NextByteInRange
    <3> QED
      BY <3>1, MovesToError, Zenon DEF Moved
  <2>3. CASE b \in Head(s.ranges)
    <3> DEFINE longer == s.buffer \o <<b>>
               rest == Tail(s.ranges)
    <3>1. Strings!Scan(s, b) = Strings!Within(longer, rest)
      BY <2>1, <2>3, Zenon DEF Strings!NextByteInRange
    <3> HIDE DEF longer, rest
    <3>2. \/ Strings!Scan(s, b) = Lex("string", longer, rest, 0, 0, 0)
          \/ Strings!Scan(s, b) = Lex("bytes", longer, rest, 0, 0, 0)
      BY <3>1, WithinIsLex, Zenon
    <3>3. ASSUME NEW at \in {"string", "bytes"}
          PROVE  Strings!DigitsOf(Lex(at, longer, rest, 0, 0, 0))
      <4>1. at # "hex"
        OBVIOUS
      <4> QED
        BY <4>1, LexFields DEF Strings!DigitsOf
    <3> QED
      BY <3>2, <3>3
  <2> QED
    BY <2>2, <2>3
<1>3. CASE s.at \notin {"done", "error"} /\ s.at # "bytes"
  <2>1. 0 \in 0..8 \ {1} /\ s.at # "bytes" /\ s.at \notin {"done", "error"}
    BY <1>3
  <2>2. Moved(s, Strings!Scan(s, b), 0)
    BY <2>1, ScanMoves, Zenon
  <2> QED
    BY <2>2, Zenon DEF Moved
<1> QED
  BY <1>1, <1>2, <1>3

\* The receiver reads a byte.
LEMMA ReadBackStep ==
    ASSUME Strings!IInv, Strings!ReadBack
    PROVE  Strings!IInv'
<1> DEFINE p == Strings!Body
           n == Len(p)
           k == readBack + 1
<1>1. /\ ~Strings!CaughtUp /\ readBack' = readBack + 1
      /\ reader' = Strings!Scan(reader, Strings!Body[readBack + 1])
      /\ origin' = origin /\ lexer' = lexer /\ string' = string /\ dump' = dump
  BY Zenon DEF Strings!ReadBack
<1>2. /\ Strings!TypeOK /\ Strings!RequestInv /\ Strings!RoomInv
      /\ Strings!CodepointInv /\ Strings!ReaderInv
  BY Zenon DEF Strings!IInv
<1>3. dump.state # Strings!Reject
  BY <1>1, <1>2, Zenon DEF Strings!ReaderInv
<1>4. PICK run \in [readBack..Len(Strings!Body) -> Strings!Lexer] : Strings!ReaderRun(run)
  BY <1>2, <1>3, Zenon DEF Strings!ReaderInv
<1>5. Strings!Body' = Strings!Body
  BY <1>1 DEF Strings!Body
<1>6. /\ readBack \in 0..Len(Strings!Body) /\ readBack # Len(Strings!Body)
      /\ reader \in Strings!Lexer /\ Strings!DigitsOf(reader)
  BY <1>1, <1>2 DEF Strings!TypeOK, Strings!CaughtUp
<1>7. Strings!Body \in Seq(Strings!Byte)
  <2>1. dump \in DumpType
    BY <1>2, Zenon DEF Strings!TypeOK, DumpType
  <2>2. dump.out \in Seq(Strings!Byte) /\ dump.buffer \in Seq(Strings!Byte)
    BY <2>1, DumpIsDumped
  <2> QED
    BY <2>2, ConcatProperties DEF Strings!Body
<1>8. n \in Nat /\ k \in 1..n /\ k \in readBack + 1..n /\ p[k] \in Strings!Byte
  BY <1>6, <1>7
<1>9. /\ run \in [readBack..n -> Strings!Lexer] /\ run[readBack] = reader
      /\ \A i \in readBack + 1..n : run[i] = Strings!Scan(run[i - 1], p[i])
      /\ run[n] = Strings!Between(string, dump.state)
  BY <1>4, Zenon DEF Strings!ReaderRun
<1> HIDE DEF p, n
<1>10. run[k] = reader'
  <2>1. run[k] = Strings!Scan(run[k - 1], p[k])
    BY <1>8, <1>9
  <2>2. k - 1 = readBack
    BY <1>6
  <2> QED
    BY <1>1, <1>9, <2>1, <2>2 DEF p
<1> DEFINE rest == [i \in k..n |-> run[i]]
<1>11. \A i \in k..n : rest[i] = run[i] /\ run[i] \in Strings!Lexer
  BY <1>6, <1>8, <1>9
<1>12. rest \in [k..n -> Strings!Lexer]
  BY <1>11
<1> HIDE DEF rest
<1>13. rest[k] = reader' /\ rest[n] = Strings!Between(string, dump.state) /\ reader' \in Strings!Lexer
  <2>1. k \in k..n /\ n \in k..n
    BY <1>6, <1>8
  <2> QED
    BY <1>9, <1>10, <1>11, <2>1, Zenon
<1>14. ASSUME NEW i \in k + 1..n
       PROVE  rest[i] = Strings!Scan(rest[i - 1], p[i])
  <2>1. i \in k..n /\ i - 1 \in k..n /\ i \in readBack + 1..n
    BY <1>6, <1>8
  <2>2. rest[i] = run[i] /\ rest[i - 1] = run[i - 1]
    BY <1>11, <2>1, Zenon
  <2> QED
    BY <1>9, <2>1, <2>2
<1>15. PICK later : /\ later \in [k..n -> Strings!Lexer] /\ later[k] = reader'
                    /\ \A i \in k + 1..n : later[i] = Strings!Scan(later[i - 1], p[i])
                    /\ later[n] = Strings!Between(string, dump.state)
  BY <1>12, <1>13, <1>14, Zenon
<1>16. Strings!ReaderInv'
  <2>1. readBack' = k /\ Strings!Body' = p /\ Len(Strings!Body') = n
    BY <1>1, <1>5, Zenon DEF p, n
  <2>2. string' = string /\ dump' = dump
    BY <1>1, Zenon
  <2>3. /\ later \in [readBack'..Len(Strings!Body') -> Strings!Lexer]
        /\ later[readBack'] = reader'
        /\ \A i \in readBack' + 1..Len(Strings!Body') :
               later[i] = Strings!Scan(later[i - 1], Strings!Body'[i])
        /\ later[Len(Strings!Body')] = Strings!Between(string', dump'.state)
    BY <1>15, <2>1, <2>2
  <2>4. Strings!ReaderRun(later)'
    BY <2>3, Zenon DEF Strings!ReaderRun
  <2> QED
    BY <1>1, <1>3, <2>3, <2>4, Zenon DEF Strings!ReaderInv
<1>17. Strings!DigitsOf(reader')
  BY <1>1, <1>6, <1>8, ScanDigits DEF p
<1>18. readBack' \in 0..Len(Strings!Body')
  BY <1>1, <1>5, <1>6, <1>7
<1>19. Strings!TypeOK'
  BY <1>1, <1>2, <1>13, <1>17, <1>18, Zenon DEF Strings!TypeOK
<1>20. Strings!RoomInv' /\ Strings!CodepointInv'
  BY <1>1, <1>2, Zenon DEF Strings!RoomInv, Strings!BufferNeverOverrun, Strings!CodepointInv
<1>21. Strings!RequestInv'
  <2>1. ASSUME NEW r, Strings!RequestRun(r)
        PROVE  Strings!RequestRun(r)'
    BY <1>1, <2>1, Zenon DEF Strings!RequestRun
  <2> QED
    BY <1>1, <1>2, <2>1, Zenon DEF Strings!RequestInv
<1> QED
  BY <1>16, <1>19, <1>20, <1>21, Zenon DEF Strings!IInv

\* Before the first byte is read the three parts of the invariant hold.
LEMMA StringsInit ==
    ASSUME Strings!Init
    PROVE  Strings!IInv
<1>1. /\ origin \in {"request", "reply"} /\ lexer = Strings!Start /\ string = <<>>
      /\ dump = Strings!DumpStart /\ readBack = 0 /\ reader = Strings!Start
  BY Zenon DEF Strings!Init
<1>2. <<>> \in Seq(Strings!Byte) /\ Len(<<>>) = 0 /\ 0 \in 0..8 /\ 0 \in 0..8 \ {1} /\ 0 \in Nat
  OBVIOUS
<1>3. dump = Dumped(0, 0, <<>>, <<>>, 0)
  BY <1>1, Zenon DEF Strings!DumpStart, Strings!Accept, Dumped
<1>4. dump \in DumpType
  BY <1>2, <1>3, DumpedIsTyped
<1>5. dump.state = 0 /\ dump.codep = 0 /\ dump.buffer = <<>> /\ dump.out = <<>> /\ dump.used = 0
  BY <1>3, EmptyDumped
<1>6. Strings!Body = <<>>
  <2>1. <<>> \o <<>> = <<>>
    BY <1>2, ConcatEmptySeq
  <2> QED
    BY <1>5, <2>1 DEF Strings!Body
<1>7. Strings!Start = Strings!Within(<<>>, Strings!RangesOf(0)) /\ Strings!Start = Strings!Between(<<>>, 0)
  BY RangesByState, Zenon DEF Strings!Start, Strings!Between
<1>8. /\ lexer \in Strings!Lexer /\ Strings!DigitsOf(lexer) /\ lexer.buffer = <<>> /\ lexer.at = "string"
  <2> DEFINE w == Strings!Within(<<>>, Strings!RangesOf(0))
  <2>1. /\ w \in Strings!Lexer /\ Strings!DigitsOf(w) /\ w.buffer = <<>>
        /\ w.at = "string"
    <3>1. ASSUME NEW buffer \in Seq(Strings!Byte), NEW st \in 0..8 \ {1}, st = 0
          PROVE  /\ Strings!Within(buffer, Strings!RangesOf(st)) \in Strings!Lexer
                 /\ Strings!DigitsOf(Strings!Within(buffer, Strings!RangesOf(st)))
                 /\ Strings!Within(buffer, Strings!RangesOf(st)).buffer = buffer
                 /\ Strings!Within(buffer, Strings!RangesOf(st)).at = "string"
      BY <3>1, WithinFields
    <3> QED
      BY <1>2, <3>1, Zenon
  <2>2. lexer = w
    BY <1>1, <1>7, Zenon
  <2> HIDE DEF w
  <2> QED
    BY <2>1, <2>2
<1>9. Strings!TypeOK
  <2>1. readBack \in 0..Len(Strings!Body)
    BY <1>1, <1>6
  <2> QED
    BY <1>1, <1>2, <1>4, <1>8, <2>1, Zenon DEF Strings!TypeOK, DumpType
<1>10. Strings!RoomInv /\ Strings!CodepointInv
  <2>1. Strings!RoomFor(0) = 13 /\ BufferSize \in Nat /\ BufferSize >= 13
    BY RoomByState, DocumentsAssumption
  <2> QED
    BY <1>5, <2>1 DEF Strings!RoomInv, Strings!BufferNeverOverrun, Strings!CodepointInv
<1>11. \E run \in [0..Len(lexer.buffer) -> Strings!States] : Strings!RequestRun(run)
  <2> DEFINE run == [i \in 0..0 |-> 0]
  <2>1. /\ run \in [0..0 -> 0..8 \ {1}] /\ run \in [0..0 -> 0..8] /\ run[0] = 0
        /\ \A i \in 1..0 : run[i] = Strings!Decode(run[i - 1], Strings!TypeOf(lexer.buffer[i]))
    OBVIOUS
  <2> HIDE DEF run
  <2>2. Strings!States \ {Strings!Reject} = 0..8 \ {1} /\ Strings!Accept = 0 /\ Strings!States = 0..8
    BY DEF Strings!States, Strings!Reject, Strings!Accept
  <2>3. Len(lexer.buffer) = 0 /\ Len(string) = 0 /\ Len(string) <= Len(lexer.buffer)
    BY <1>1, <1>2, <1>8
  <2>4. lexer.at # "bytes"
    BY <1>8
  <2>5. Strings!RequestRun(run)
    BY <1>5, <2>1, <2>2, <2>3, <2>4, Zenon DEF Strings!RequestRun
  <2> QED
    BY <2>1, <2>2, <2>3, <2>5, Zenon
<1>12. Strings!RequestInv
  BY <1>1, <1>5, <1>11, Zenon DEF Strings!RequestInv, Strings!Accept
<1>13. Strings!ReaderInv
  <2> DEFINE run == [i \in 0..0 |-> reader]
  <2>1. reader \in Strings!Lexer
    BY <1>1, <1>8
  <2>2. /\ run \in [0..0 -> Strings!Lexer] /\ run[0] = reader
        /\ \A i \in 0 + 1..0 : run[i] = Strings!Scan(run[i - 1], Strings!Body[i])
    BY <2>1
  <2> HIDE DEF run
  <2>3. readBack = 0 /\ Len(Strings!Body) = 0
    BY <1>1, <1>2, <1>6
  <2>4. reader = Strings!Between(string, dump.state)
    BY <1>1, <1>5, <1>7
  <2>5. Strings!ReaderRun(run) /\ run \in [readBack..Len(Strings!Body) -> Strings!Lexer]
    BY <2>2, <2>3, <2>4, Zenon DEF Strings!ReaderRun
  <2>6. dump.state # Strings!Reject
    BY <1>5 DEF Strings!Reject
  <2> QED
    BY <2>5, <2>6, Zenon DEF Strings!ReaderInv
<1> QED
  BY <1>9, <1>10, <1>12, <1>13, Zenon DEF Strings!IInv

\* A string that was parsed is written without an exception, and what is written is
\* read as the bytes that were taken.
LEMMA WhatIsWritten ==
    ASSUME Strings!IInv
    PROVE  Strings!ForwardedAsItCame /\ Strings!BufferNeverOverrun
<1>1. /\ Strings!TypeOK /\ Strings!RequestInv /\ Strings!RoomInv /\ Strings!ReaderInv
  BY Zenon DEF Strings!IInv
<1>2. string \in Seq(Strings!Byte)
  BY <1>1 DEF Strings!TypeOK
<1>3. ASSUME origin = "request"
      PROVE  ~Strings!Thrown
  <2>1. CASE lexer.at # "done"
    <3>1. dump.state = Strings!Accept
      BY <1>1, <1>3, <2>1, Zenon DEF Strings!RequestInv
    <3> QED
      BY <2>1, <3>1 DEF Strings!Thrown, Strings!Accept, Strings!Reject
  <2>2. CASE lexer.at = "done"
    <3>1. lexer.at # "error" /\ lexer.at # "bytes"
      BY <2>2
    <3>2. PICK run \in [0..Len(lexer.buffer) -> Strings!States] : Strings!RequestRun(run)
      BY <1>1, <1>3, <3>1, Zenon DEF Strings!RequestInv
    <3>3. /\ run \in [0..Len(lexer.buffer) -> Strings!States \ {Strings!Reject}]
          /\ run[Len(lexer.buffer)] = Strings!Accept /\ Len(string) <= Len(lexer.buffer)
          /\ dump.state = run[Len(string)]
      BY <3>1, <3>2, Zenon DEF Strings!RequestRun
    <3>4. Len(string) \in 0..Len(lexer.buffer)
      <4>1. lexer.buffer \in Seq(Strings!Byte)
        BY <1>1, LexerIsLex DEF Strings!TypeOK
      <4>2. Len(lexer.buffer) \in Nat /\ Len(string) \in Nat
        BY <1>2, <4>1
      <4> QED
        BY <3>3, <4>2
    <3>5. dump.state # Strings!Reject
      BY <3>3, <3>4, Zenon
    <3>6. string = lexer.buffer => dump.state = Strings!Accept
      BY <3>3, Zenon
    <3> QED
      BY <3>5, <3>6, Zenon DEF Strings!Thrown
  <2> QED
    BY <2>1, <2>2
<1>4. ASSUME Strings!CaughtUp, dump.state = Strings!Accept
      PROVE  Strings!Scan(reader, Strings!Quote) = Strings!Goto(Strings!Within(string, <<>>), "done")
  <2>1. dump.state = 0 /\ dump.state # Strings!Reject
    BY <1>4 DEF Strings!Accept, Strings!Reject
  <2>2. PICK run \in [readBack..Len(Strings!Body) -> Strings!Lexer] : Strings!ReaderRun(run)
    BY <1>1, <2>1, Zenon DEF Strings!ReaderInv
  <2>3. reader = Strings!Between(string, dump.state)
    BY <1>4, <2>2, Zenon DEF Strings!ReaderRun, Strings!CaughtUp
  <2>4. reader = Strings!Within(string, <<>>)
    BY <1>2, <2>1, <2>3, BetweenCodePoints
  <2>5. reader.at = "string"
    BY <1>2, <2>4, BetweenCodePoints, LexFields DEF Escaping
  <2>6. Strings!Scan(reader, Strings!Quote) = Strings!ScanChar(reader, Strings!Quote)
    BY <2>5, Zenon DEF Strings!Scan
  <2>7. Strings!ScanChar(reader, Strings!Quote) = Strings!Goto(reader, "done")
    <3>1. Strings!Quote # Strings!Backslash /\ ~Strings!Control(Strings!Quote) /\ ~Strings!Plain(Strings!Quote)
      BY DEF Strings!Quote, Strings!Backslash, Strings!Control, Strings!Plain
    <3> QED
      BY <3>1, Zenon DEF Strings!ScanChar
  <2> QED
    BY <2>4, <2>6, <2>7, Zenon
<1>5. Strings!BufferNeverOverrun
  BY <1>1, Zenon DEF Strings!RoomInv
<1> QED
  BY <1>3, <1>4, <1>5, Zenon DEF Strings!ForwardedAsItCame

\* Every step of forwarding a string keeps the invariant.
LEMMA StringsNext ==
    ASSUME Strings!IInv, Strings!Next
    PROVE  Strings!IInv'
<1>1. ASSUME NEW b \in Bytes, Strings!ScanByte(b)
      PROVE  Strings!IInv'
  <2>1. b \in Strings!Byte
    BY DocumentsAssumption DEF Strings!Byte
  <2> QED
    BY <1>1, <2>1, ScanByteStep
<1>2. ASSUME NEW b \in Strings!NextBytes, Strings!TakeByte(b)
      PROVE  Strings!IInv'
  <2>1. b \in Strings!Byte
    <3>1. CASE origin = "reply"
      BY <3>1, DocumentsAssumption DEF Strings!NextBytes, Strings!Byte
    <3>2. CASE origin # "reply"
      <4>1. lexer.buffer \in Seq(Strings!Byte)
        BY LexerIsLex DEF Strings!IInv, Strings!TypeOK
      <4>2. \E i \in DOMAIN lexer.buffer : b = lexer.buffer[i]
        BY <3>2 DEF Strings!NextBytes
      <4> QED
        BY <4>1, <4>2
    <3> QED
      BY <3>1, <3>2
  <2> QED
    BY <1>2, <2>1, TakeByteStep
<1> QED
  BY <1>1, <1>2, ReadBackStep, Zenon DEF Strings!Next

-----------------------------------------------------------------------------
(* Every behaviour of the three routines *)

\* Each routine begins in its own invariant.
LEMMA DocumentsInitInv == DocumentsInit => DocumentsInv
<1> SUFFICES ASSUME DocumentsInit PROVE DocumentsInv
  OBVIOUS
<1>1. /\ routine \in {"forward", "handle", "destroy"}
      /\ Strings!Init /\ Statements!Init /\ Destroy!Init
  BY Zenon DEF DocumentsInit
<1> QED
  BY <1>1, StringsInit, StatementsInit, DestroyInit, Zenon DEF DocumentsInv

\* A step of one routine keeps its invariant, and leaves the others alone.
LEMMA DocumentsNextInv == DocumentsInv /\ [DocumentsNext]_documentsVars => DocumentsInv'
<1> SUFFICES ASSUME DocumentsInv, [DocumentsNext]_documentsVars PROVE DocumentsInv'
  OBVIOUS
<1>1. /\ routine \in {"forward", "handle", "destroy"}
      /\ Strings!IInv /\ Statements!IInv /\ Destroy!IInv
  BY Zenon DEF DocumentsInv
<1>2. CASE ForwardString
  <2>1. routine' = routine /\ Strings!Next /\ UNCHANGED statementVars /\ UNCHANGED destroyVars
    BY <1>2 DEF ForwardString, Runs
  <2> QED
    BY <1>1, <2>1, StringsNext, StatementsFrame, DestroyFrame, Zenon DEF DocumentsInv
<1>3. CASE HandleDocument
  <2>1. routine' = routine /\ Statements!Next /\ UNCHANGED stringVars /\ UNCHANGED destroyVars
    BY <1>3 DEF HandleDocument, Runs
  <2>2. Statements!IInv'
    BY <1>1, <2>1, CountStep, ReadStep, ConvertStep, RemoveStep, CompareStep, Zenon DEF Statements!Next
  <2> QED
    BY <1>1, <2>1, <2>2, StringsFrame, DestroyFrame, Zenon DEF DocumentsInv
<1>4. CASE DestroyDocument
  <2>1. routine' = routine /\ Destroy!Next /\ UNCHANGED stringVars /\ UNCHANGED statementVars
    BY <1>4 DEF DestroyDocument, Runs
  <2>2. Destroy!IInv'
    BY <1>1, <2>1, FlattenStep, DestroyItemStep, FreeStep, Zenon DEF Destroy!Next
  <2> QED
    BY <1>1, <2>1, <2>2, StringsFrame, StatementsFrame, Zenon DEF DocumentsInv
<1>5. CASE UNCHANGED documentsVars
  <2>1. routine' = routine /\ UNCHANGED stringVars /\ UNCHANGED statementVars /\ UNCHANGED destroyVars
    BY <1>5 DEF documentsVars
  <2> QED
    BY <1>1, <2>1, StringsFrame, StatementsFrame, DestroyFrame, Zenon DEF DocumentsInv
<1> QED
  BY <1>2, <1>3, <1>4, <1>5 DEF DocumentsNext

\* The inductive invariant of the three routines, whatever bytes are sent and however
\* many values a document has (json.hpp:7559-8140, 18313-18480, 19772-19878;
\* main.cpp:86-91, 168-201, 244-260).
THEOREM DocumentsInvariance == DocumentsSpec => []DocumentsInv
<1>1. DocumentsInit => DocumentsInv
  BY DocumentsInitInv
<1>2. DocumentsInv /\ [DocumentsNext]_documentsVars => DocumentsInv'
  BY DocumentsNextInv
<1> QED
  BY <1>1, <1>2, PTL DEF DocumentsSpec

\* The lexers, string_buffer, the document and destroy()'s stack are always what they
\* are declared as.
THEOREM DocumentsTypeCorrect == DocumentsSpec => []DocumentsTypeOK
<1>1. DocumentsInv => DocumentsTypeOK
  BY Zenon DEF DocumentsInv, DocumentsTypeOK, Strings!IInv, Statements!IInv, Destroy!IInv
<1> QED
  BY <1>1, DocumentsInvariance, PTL

\* A string of a request is written without the exception that ends the process, and
\* what is written of any string is read by its receiver as the same bytes, however
\* long it is and whatever it holds (main.cpp:244, 260, 272-274).
THEOREM StringsAreForwarded == DocumentsSpec => []ForwardedAsItCame
<1>1. DocumentsInv => ForwardedAsItCame
  BY WhatIsWritten, Zenon DEF DocumentsInv, ForwardedAsItCame
<1> QED
  BY <1>1, DocumentsInvariance, PTL

\* The fixed buffer of dump_escaped() is not overrun by any string, and a document of
\* any size and depth is destroyed within two calls, each value of it in one place.
\* The recursion of dump() over the levels of a document is not modelled here
\* (json.hpp:18414-18421, 19772-19878).
THEOREM MemoryIsKept == DocumentsSpec => []WithinTheirMemory
<1>1. DocumentsInv => Strings!BufferNeverOverrun
  BY WhatIsWritten, Zenon DEF DocumentsInv
<1>2. DocumentsInv => Destroy!RecursionBounded
  BY Zenon DEF DocumentsInv, Destroy!IInv, Destroy!CallInv
<1>3. DocumentsInv => Destroy!EveryValueOnce
  BY PlacesCounted, Zenon DEF DocumentsInv
<1>4. DocumentsInv => WithinTheirMemory
  BY <1>1, <1>2, <1>3, Zenon DEF WithinTheirMemory
<1> QED
  BY <1>4, DocumentsInvariance, PTL

\* Each handler's statements end as the kind of the document says, and what goes on is
\* the document without its route (main.cpp:86-91, 168-201, 244-260;
\* Authenticator.hpp:130-142).
THEOREM KindDecides == DocumentsSpec => []HandledByKind
<1>1. DocumentsInv => Statements!EndsAsItsKind
  BY Zenon DEF DocumentsInv, Statements!IInv, Statements!OutcomeInv
<1>2. DocumentsInv => Statements!ForwardsTheRest
  BY WhatIsForwarded, Zenon DEF DocumentsInv
<1>3. DocumentsInv => HandledByKind
  BY <1>1, <1>2, Zenon DEF HandledByKind
<1> QED
  BY <1>3, DocumentsInvariance, PTL
=============================================================================

---------------------------- MODULE Gateway_proofs ----------------------------
(***************************************************************************)
(* Machine-checked proofs about Gateway, the whole process, for every set  *)
(* of tokens, services, requests and downloads: what the order in which    *)
(* main() does things gives to threads that never look at each other.      *)
(***************************************************************************)
EXTENDS Gateway, SequenceTheorems, TLAPS

(***************************************************************************)
(* The parts, by themselves.  What is proved of GatewayStartup and of      *)
(* PostRequests is proved here with the variables of the process; an       *)
(* instance of the proofs and the instance in Gateway have the same        *)
(* formulas, definition by definition.                                     *)
(***************************************************************************)

StartProofs   == INSTANCE GatewayStartup_proofs
BackendProofs == INSTANCE PostRequests_proofs WITH pc <- requestPc

\* A step of the start-up keeps its invariant, and the promise to the OTA client.
LEMMA StartupKeepsOwn ==
    Startup!IInv /\ Startup!Next =>
        /\ Startup!IInv'
        /\ [Startup!Ota!Next]_(Startup!Ota!vars)
<1>1. /\ Startup!IInv <=> StartProofs!IInv
      /\ Startup!IInv' <=> StartProofs!IInv'
  BY DEF Startup!IInv, Startup!TypeOK, Startup!LockInv, Startup!FlagInv,
         Startup!SentInv, Startup!ComposeInv, Startup!TokenInv, Startup!BootPcs,
         Startup!AcquirePcs, Startup!ExchangePcs, Startup!ProcedurePcs,
         Startup!CriticalPcs, Startup!AcquiredPcs, Startup!MainPcs, Startup!TimerPcs,
         Startup!authVars, Startup!flagVars, Startup!clientVars, Startup!Auth!TypeOK,
         Startup!Auth!HeldTokenIsNewest, Startup!Auth!CallPcs, Startup!Auth!ReturnPcs,
         Startup!Auth!ChallengeAges, Startup!Auth!SolutionAges,
         Startup!Ota!ComposeStates, StartProofs!IInv, StartProofs!TypeOK,
         StartProofs!LockInv, StartProofs!FlagInv, StartProofs!SentInv,
         StartProofs!ComposeInv, StartProofs!TokenInv, StartProofs!BootPcs,
         StartProofs!AcquirePcs, StartProofs!ExchangePcs, StartProofs!ProcedurePcs,
         StartProofs!CriticalPcs, StartProofs!AcquiredPcs, StartProofs!MainPcs,
         StartProofs!TimerPcs, StartProofs!authVars, StartProofs!flagVars,
         StartProofs!clientVars, StartProofs!Auth!TypeOK,
         StartProofs!Auth!HeldTokenIsNewest, StartProofs!Auth!CallPcs,
         StartProofs!Auth!ReturnPcs, StartProofs!Auth!ChallengeAges,
         StartProofs!Auth!SolutionAges, StartProofs!Ota!ComposeStates
<1>2. Startup!Next => StartProofs!Next
  BY DEF Startup!Next, Startup!MainLocal, Startup!MainExchange, Startup!Timer,
         Startup!IeProbe, Startup!Terminate, Startup!SendDecision, Startup!Goto,
         Startup!TimerGoto, Startup!Boot, Startup!WaitOnline, Startup!CheckToken,
         Startup!GetNewJWToken, Startup!AcquireReturns, Startup!AcquireThrows,
         Startup!Probe, Startup!ReadBack, Startup!Lock, Startup!Decide,
         Startup!CheckoutReturns, Startup!CheckoutThrows, Startup!SkipUpdate,
         Startup!UpdateReturns, Startup!OpenCompose, Startup!WriteCompose,
         Startup!StartUpdate, Startup!SendThrows, Startup!Unlock, Startup!TimerExpires,
         Startup!TimerDecides, Startup!TimerThrows, Startup!TimerUnlocks,
         Startup!Auth!Call, Startup!Auth!GetNewJWToken, Startup!Auth!RequestChallenge,
         Startup!Auth!Decrypt, Startup!Auth!Login1, Startup!Auth!Login2,
         Startup!Auth!Aged, Startup!Auth!UnusedGrant, Startup!Auth!Grants,
         Startup!Auth!roundVars, StartProofs!Next, StartProofs!MainLocal,
         StartProofs!MainExchange, StartProofs!Timer, StartProofs!IeProbe,
         StartProofs!Terminate, StartProofs!SendDecision, StartProofs!Goto,
         StartProofs!TimerGoto, StartProofs!Boot, StartProofs!WaitOnline,
         StartProofs!CheckToken, StartProofs!GetNewJWToken, StartProofs!AcquireReturns,
         StartProofs!AcquireThrows, StartProofs!Probe, StartProofs!ReadBack,
         StartProofs!Lock, StartProofs!Decide, StartProofs!CheckoutReturns,
         StartProofs!CheckoutThrows, StartProofs!SkipUpdate, StartProofs!UpdateReturns,
         StartProofs!OpenCompose, StartProofs!WriteCompose, StartProofs!StartUpdate,
         StartProofs!SendThrows, StartProofs!Unlock, StartProofs!TimerExpires,
         StartProofs!TimerDecides, StartProofs!TimerThrows, StartProofs!TimerUnlocks,
         StartProofs!Auth!Call, StartProofs!Auth!GetNewJWToken,
         StartProofs!Auth!RequestChallenge, StartProofs!Auth!Decrypt,
         StartProofs!Auth!Login1, StartProofs!Auth!Login2, StartProofs!Auth!Aged,
         StartProofs!Auth!UnusedGrant, StartProofs!Auth!Grants,
         StartProofs!Auth!roundVars, Startup!BootPcs, Startup!AcquirePcs,
         Startup!ExchangePcs, Startup!ProcedurePcs, Startup!CriticalPcs,
         Startup!AcquiredPcs, Startup!authVars, Startup!flagVars, Startup!clientVars,
         StartProofs!BootPcs, StartProofs!AcquirePcs, StartProofs!ExchangePcs,
         StartProofs!ProcedurePcs, StartProofs!CriticalPcs, StartProofs!AcquiredPcs,
         StartProofs!authVars, StartProofs!flagVars, StartProofs!clientVars
<1>3. [StartProofs!Ota!Next]_(StartProofs!Ota!vars) <=>
      [Startup!Ota!Next]_(Startup!Ota!vars)
  BY DEF Startup!Ota!Next, Startup!Ota!vars, Startup!Ota!Stage, Startup!Ota!Skip,
         Startup!Ota!Start, StartProofs!Ota!Next, StartProofs!Ota!vars,
         StartProofs!Ota!Stage, StartProofs!Ota!Skip, StartProofs!Ota!Start
<1> QED BY <1>1, <1>2, <1>3, GatewayAssumption, StartProofs!StepIInv,
           StartProofs!StepKeepsPromise

\* What the other parts write of it, alive and internetConnectionState, may hold
\* any value they like.
LEMMA OthersKeepStartup ==
    ASSUME Startup!IInv, UNCHANGED startupVars,
           alive' \in BOOLEAN, internetConnectionState' \in BOOLEAN
    PROVE  Startup!IInv'
  BY DEF startupVars, Startup!IInv, Startup!TypeOK, Startup!LockInv, Startup!FlagInv,
         Startup!SentInv, Startup!ComposeInv, Startup!TokenInv, Startup!BootPcs,
         Startup!AcquirePcs, Startup!ExchangePcs, Startup!ProcedurePcs,
         Startup!CriticalPcs, Startup!AcquiredPcs, Startup!MainPcs, Startup!TimerPcs,
         Startup!authVars, Startup!flagVars, Startup!clientVars, Startup!Auth!TypeOK,
         Startup!Auth!HeldTokenIsNewest, Startup!Auth!CallPcs, Startup!Auth!ReturnPcs,
         Startup!Auth!ChallengeAges, Startup!Auth!SolutionAges,
         Startup!Ota!ComposeStates

\* The steps of a request thread keep the invariant of the request threads, and
\* the promise to the client.
LEMMA RequestKeepsOwn ==
    ASSUME Backend!ThreadInv, NEW r \in Requests,
           Backend!Arrive(r) \/ Backend!Handler(r) \/ Backend!SendReturns(r)
    PROVE  /\ Backend!ThreadInv'
           /\ [Backend!Service!Next]_(Backend!Service!vars)
<1>1. /\ Backend!ThreadInv <=> BackendProofs!ThreadInv
      /\ Backend!ThreadInv' <=> BackendProofs!ThreadInv'
  BY DEF Backend!ThreadInv, Backend!TypeOK, Backend!BeforeReplyInv, Backend!ReplyInv,
         Backend!DroppedInv, Backend!HandlerPcs, Backend!PayloadKinds,
         Backend!ReplyKinds, Backend!ResponseKinds, BackendProofs!ThreadInv,
         BackendProofs!TypeOK, BackendProofs!BeforeReplyInv, BackendProofs!ReplyInv,
         BackendProofs!DroppedInv, BackendProofs!HandlerPcs,
         BackendProofs!PayloadKinds, BackendProofs!ReplyKinds,
         BackendProofs!ResponseKinds
<1>2. \/ BackendProofs!Arrive(r)
      \/ BackendProofs!Handler(r)
      \/ BackendProofs!SendReturns(r)
  BY DEF Backend!Arrive, Backend!Handler, Backend!SendReturns, Backend!CheckOnline,
         Backend!AnswerOffline, Backend!Parse, Backend!Respond, Backend!Goto,
         Backend!Terminate, BackendProofs!Arrive, BackendProofs!Handler,
         BackendProofs!SendReturns, BackendProofs!CheckOnline,
         BackendProofs!AnswerOffline, BackendProofs!Parse, BackendProofs!Respond,
         BackendProofs!Goto, BackendProofs!Terminate, Backend!PayloadKinds,
         BackendProofs!PayloadKinds
<1>3. \/ BackendProofs!Service!Next
      \/ UNCHANGED <<BackendProofs!Phases, posted, responses>>
  BY <1>1, <1>2, BackendProofs!ThreadKeepsPromise
<1>4. [Backend!Service!Next]_(Backend!Service!vars)
  BY <1>3 DEF Backend!Service!Next, Backend!Service!Accept, Backend!Service!TakeEffect,
              Backend!Service!Answer, Backend!Service!Drop, Backend!Service!Move,
              Backend!Service!Truthful, Backend!Service!vars,
              BackendProofs!Service!Next, BackendProofs!Service!Accept,
              BackendProofs!Service!TakeEffect, BackendProofs!Service!Answer,
              BackendProofs!Service!Drop, BackendProofs!Service!Move,
              BackendProofs!Service!Truthful, BackendProofs!Service!vars,
              BackendProofs!Phases, BackendProofs!Phase, Backend!Phase
<1> QED BY <1>1, <1>2, <1>4, BackendProofs!ThreadKeepsThreadInv

LEMMA OthersKeepRequests ==
    ASSUME Backend!ThreadInv, UNCHANGED requestVars,
           alive' \in BOOLEAN, internetConnectionState' \in BOOLEAN
    PROVE  /\ Backend!ThreadInv'
           /\ UNCHANGED Backend!Service!vars
  BY DEF requestVars, Backend!Service!vars, Backend!Phase, Backend!ThreadInv,
         Backend!TypeOK, Backend!BeforeReplyInv, Backend!ReplyInv, Backend!DroppedInv,
         Backend!HandlerPcs, Backend!PayloadKinds, Backend!ReplyKinds,
         Backend!ResponseKinds

-----------------------------------------------------------------------------
(* The downloads *)

\* The files and who opened them.
DownloadInv == Download!TypeOK /\ Download!FileInv

\* A block that is written leaves a file a sequence of blocks.
LEMMA PutKeepsBlocks ==
    ASSUME NEW contents \in Seq(Downloads \cup {Old, Hole}),
           NEW at \in Nat \ {0}, NEW d \in Downloads
    PROVE  Download!Put(contents, at, d) \in Seq(Downloads \cup {Old, Hole})
<1> DEFINE n == IF at > Len(contents) THEN at ELSE Len(contents)
<1>1. n \in Nat
  OBVIOUS
<1>2. Download!Put(contents, at, d) \in [1..n -> Downloads \cup {Old, Hole}]
  BY DEF Download!Put
<1> QED BY <1>1, <1>2

LEMMA DownloadInit == Download!Init => DownloadInv
<1> SUFFICES ASSUME Download!Init PROVE DownloadInv
  OBVIOUS
<1> USE GatewayAssumption DEF Download!Init
<1>1. file \in [Paths -> Seq({Old})]
  <2>1. Size + 1 \in Nat
    OBVIOUS
  <2> QED BY <2>1
<1>2. Download!FileInv
  BY <1>1 DEF Download!FileInv
<1>3. Download!TypeOK
  BY DEF Download!TypeOK, Download!Range, Download!ThreadPcs, Download!PayloadKinds
<1> QED BY <1>2, <1>3 DEF DownloadInv

\* Only its message brings a download's thread to life.
LEMMA DownloadStarted ==
    ASSUME NEW d \in Downloads, Download!Thread(d) \/ Download!SendReturns(d)
    PROVE  downloadPc[d] # "unsent"
  BY DEF Download!Thread, Download!SendReturns, Download!Parse, Download!Open,
         Download!WriteBlock, Download!Close, Download!Goto, Download!Terminate

\* A step of a download: its thread alone moves, and its message opens no path.
LEMMA DownloadMoves ==
    ASSUME DownloadInv, NEW d \in Downloads,
           Download!Arrive(d) \/ Download!Thread(d) \/ Download!SendReturns(d)
    PROVE  /\ DownloadInv'
           /\ \/ UNCHANGED downloadPc
              \/ \E to \in Download!ThreadPcs \cup {"done"} :
                    downloadPc' = [downloadPc EXCEPT ![d] = to]
           /\ Download!Arrive(d) => UNCHANGED writers
<1> USE DEF DownloadInv, Download!TypeOK, Download!ThreadPcs
<1>1. CASE Download!WriteBlock(d)
  <2> DEFINE p == path[d]
             at == written[d] + 1
             put == Download!Put(file[p], at, d)
  <2>1. /\ downloadPc[d] = "write" /\ written[d] < Size
        /\ file' = [file EXCEPT ![p] = put]
        /\ written' = [written EXCEPT ![d] = at]
        /\ UNCHANGED <<downloadPc, downloadPayload, path, writers, alive>>
    BY <1>1 DEF Download!WriteBlock, Download!Goto
  <2>2. p \in Paths /\ at \in Nat \ {0} /\ at \in 0..Size
        /\ file[p] \in Seq(Downloads \cup {Old, Hole})
    BY <2>1, GatewayAssumption DEF Download!FileInv
  <2>3. put \in Seq(Downloads \cup {Old, Hole})
    <3> HIDE DEF p, at
    <3> QED BY <2>2, PutKeepsBlocks
  <2>4. Download!FileInv'
    <3> HIDE DEF p, at, put
    <3> QED BY <2>1, <2>2, <2>3 DEF Download!FileInv
  <2>5. /\ DOMAIN file' = Paths
        /\ \A q \in Paths : Download!Range(file'[q]) \subseteq Downloads \cup {Old, Hole}
    BY <2>4 DEF Download!FileInv, Download!Range
  <2> HIDE DEF put, at, p
  <2>6. written' \in [Downloads -> 0..Size]
    BY <2>1, <2>2
  <2> QED BY <2>1, <2>4, <2>5, <2>6
<1>2. CASE Download!Open(d)
  <2>1. /\ downloadPc[d] = "open"
        /\ file' \in {file, [file EXCEPT ![path[d]] = <<>>]}
        /\ \/ UNCHANGED downloadPc
           \/ \E to \in {"write", "done"} : downloadPc' = [downloadPc EXCEPT ![d] = to]
        /\ UNCHANGED <<downloadPayload, path, written>>
        /\ alive' \in BOOLEAN
    BY <1>2 DEF Download!Open, Download!Goto, Download!Terminate
  <2>2. writers' \in [Paths -> SUBSET Downloads]
    BY <1>2 DEF Download!Open
  <2>3. Download!FileInv'
    <3>1. path[d] \in Paths /\ <<>> \in Seq(Downloads \cup {Old, Hole})
      OBVIOUS
    <3>2. CASE file' = file
      BY <3>2 DEF Download!FileInv
    <3>3. CASE file' = [file EXCEPT ![path[d]] = <<>>]
      BY <3>1, <3>3 DEF Download!FileInv
    <3> QED BY <2>1, <3>2, <3>3
  <2>4. /\ DOMAIN file' = Paths
        /\ \A q \in Paths : Download!Range(file'[q]) \subseteq Downloads \cup {Old, Hole}
    BY <2>3 DEF Download!FileInv, Download!Range
  <2>5. ~Download!Arrive(d)
    BY <2>1 DEF Download!Arrive
  <2> HIDE DEF Download!FileInv, Download!Range
  <2> QED BY <2>1, <2>2, <2>3, <2>4, <2>5
<1>3. CASE Download!Arrive(d)
  <2>1. /\ downloadPc' = [downloadPc EXCEPT ![d] = "parse"]
        /\ downloadPayload' \in [Downloads -> Download!PayloadKinds \cup {"none"}]
        /\ UNCHANGED <<path, written, file, writers, alive>>
    BY <1>3 DEF Download!Arrive
  <2> QED BY <1>3, <2>1 DEF Download!FileInv
<1>4. CASE Download!Parse(d) \/ Download!SendReturns(d) \/ Download!Close(d)
  <2>1. /\ downloadPc[d] # "unsent"
        /\ \/ UNCHANGED downloadPc
           \/ \E to \in {"sending", "open", "done"} :
                 downloadPc' = [downloadPc EXCEPT ![d] = to]
        /\ UNCHANGED <<downloadPayload, path, written, file, writers>>
        /\ alive' \in BOOLEAN
    BY <1>4 DEF Download!Parse, Download!SendReturns, Download!Close, Download!Goto,
                Download!Terminate
  <2> QED BY <2>1 DEF Download!FileInv
<1> QED BY <1>1, <1>2, <1>3, <1>4 DEF Download!Thread

LEMMA OthersKeepDownloads ==
    ASSUME DownloadInv, UNCHANGED downloadVars, alive' \in BOOLEAN
    PROVE  DownloadInv'
  BY DEF downloadVars, DownloadInv, Download!TypeOK, Download!FileInv, Download!ThreadPcs,
         Download!PayloadKinds

-----------------------------------------------------------------------------
(* The service adapter *)

LEMMA AdapterInit == Adapter!Init => Adapter!IInv
  BY DEF Adapter!Init, Adapter!IInv, Adapter!TypeOK, Adapter!OwnerPcs, Adapter!OfferPcs,
         Adapter!OwnerInv, Adapter!BlockedInv, Adapter!OfferInv

LEMMA AdapterStepIInv == Adapter!IInv /\ [Adapter!Next]_(Adapter!vars) => Adapter!IInv'
<1> SUFFICES ASSUME Adapter!IInv, [Adapter!Next]_(Adapter!vars) PROVE Adapter!IInv'
  OBVIOUS
<1> USE DEF Adapter!IInv, Adapter!TypeOK, Adapter!OwnerPcs, Adapter!OfferPcs,
            Adapter!OwnerInv, Adapter!BlockedInv, Adapter!OfferInv
\* The constructor gives m_blocked_ its first value before the thread is born.
<1>1. CASE Adapter!Construct
  BY <1>1 DEF Adapter!Construct
<1>2. CASE Adapter!InitLock
  BY <1>2 DEF Adapter!InitLock
<1>3. CASE Adapter!RegisterHandler
  BY <1>3 DEF Adapter!RegisterHandler
<1>4. CASE Adapter!InitReturn
  BY <1>4 DEF Adapter!InitReturn
<1>5. CASE Adapter!Start
  BY <1>5 DEF Adapter!Start
<1>6. CASE Adapter!RunLock \/ Adapter!Wait \/ Adapter!SpuriousWakeup
  BY <1>6 DEF Adapter!RunLock, Adapter!Wait, Adapter!SpuriousWakeup
\* Past the test m_blocked_ was set, and not by the memory the adapter is built on.
<1>7. CASE Adapter!TestBlocked
  BY <1>7 DEF Adapter!TestBlocked
<1>8. CASE Adapter!OfferService
  BY <1>8 DEF Adapter!OfferService
<1>9. CASE Adapter!RunReturn
  BY <1>9 DEF Adapter!RunReturn
<1>10. CASE Adapter!OnState
  BY <1>10 DEF Adapter!OnState, Adapter!OnRegistered, Adapter!OnDeregistered
<1>11. CASE Adapter!StateHandler
  BY <1>11 DEF Adapter!StateHandler, Adapter!SetBlocked, Adapter!Notify
<1>12. CASE UNCHANGED Adapter!vars
  BY <1>12 DEF Adapter!vars
<1> QED BY <1>1, <1>2, <1>3, <1>4, <1>5, <1>6, <1>7, <1>8, <1>9, <1>10, <1>11, <1>12
    DEF Adapter!Next, Adapter!Owner, Adapter!OfferThread

\* In the process the adapter does what it does by itself.
LEMMA AdapterByItself == [Next]_vars => [Adapter!Next]_(Adapter!vars)
  BY DEF vars, adapterVars, Adapter!vars, Next, StartupStep, BesideStartup, AdapterStep,
         OwnerStep, RequestThread, DownloadThread, Adapter!Next

-----------------------------------------------------------------------------
(* The order of main() *)

\* While main serves, it does nothing more, nobody else touches the token, and the
\* OTA timer has decided or finds that main has.
LEMMA ServingIsFinal ==
    ASSUME Startup!IInv, mainPc = "serving", Startup!Next
    PROVE  UNCHANGED <<mainPc, m_token, otaSent, composeFile>>
<1>1. timerPc = "decide" => OTAstarted
  BY DEF Startup!IInv, Startup!FlagInv
<1> QED
  BY <1>1
  DEF Startup!Next, Startup!IeProbe, Startup!Timer, Startup!TimerExpires,
      Startup!TimerDecides, Startup!TimerThrows, Startup!TimerUnlocks,
      Startup!TimerGoto, Startup!Terminate, Startup!MainLocal, Startup!MainExchange,
      Startup!Goto, Startup!Boot, Startup!WaitOnline, Startup!CheckToken,
      Startup!GetNewJWToken, Startup!AcquireReturns, Startup!AcquireThrows,
      Startup!Probe, Startup!ReadBack, Startup!Lock, Startup!Decide,
      Startup!SkipUpdate, Startup!OpenCompose, Startup!WriteCompose,
      Startup!StartUpdate, Startup!SendThrows, Startup!Unlock,
      Startup!CheckoutReturns, Startup!CheckoutThrows, Startup!UpdateReturns,
      Startup!authVars, Startup!clientVars

-----------------------------------------------------------------------------
(* The process *)

LEMMA InitIInv == Init => IInv
<1> SUFFICES ASSUME Init PROVE IInv
  OBVIOUS
<1>1. Startup!IInv
  <2>1. otaSent \in Seq({"yes", "no"})
    BY DEF Init, Startup!Init, Startup!Ota!Init
  <2> QED
    BY <2>1
    DEF Init, Startup!Init, Startup!Auth!Init, Startup!Ota!Init, Startup!IInv,
        Startup!TypeOK, Startup!LockInv, Startup!FlagInv, Startup!SentInv,
        Startup!ComposeInv, Startup!TokenInv, Startup!BootPcs, Startup!AcquirePcs,
        Startup!ExchangePcs, Startup!ProcedurePcs, Startup!CriticalPcs,
        Startup!AcquiredPcs, Startup!MainPcs, Startup!TimerPcs, Startup!authVars,
        Startup!flagVars, Startup!clientVars, Startup!Auth!TypeOK,
        Startup!Auth!HeldTokenIsNewest, Startup!Auth!CallPcs, Startup!Auth!ReturnPcs,
        Startup!Auth!ChallengeAges, Startup!Auth!SolutionAges,
        Startup!Ota!ComposeStates
<1>2. Backend!ThreadInv
  BY DEF Init, Backend!Init, Backend!ThreadInv, Backend!TypeOK, Backend!BeforeReplyInv,
         Backend!ReplyInv, Backend!DroppedInv, Backend!HandlerPcs,
         Backend!PayloadKinds, Backend!ReplyKinds, Backend!ResponseKinds
<1>3. OrderInv
  BY DEF Init, Startup!Init, Adapter!Init, OrderInv
<1>4. RequestInv
  BY DEF Init, Backend!Init, Download!Init, RequestInv
<1>5. OpenedInv
  BY GatewayAssumption DEF Init, Download!Init, OpenedInv
<1> QED BY <1>1, <1>2, <1>3, <1>4, <1>5, AdapterInit, DownloadInit
    DEF Init, IInv, DownloadInv

\* alive and internetConnectionState stay Booleans, whoever writes them.
LEMMA SharedType == IInv => alive \in BOOLEAN /\ internetConnectionState \in BOOLEAN
  BY DEF IInv, Startup!IInv, Startup!TypeOK

LEMMA StartupKeepsIInv ==
    ASSUME IInv, StartupStep
    PROVE  IInv'
<1> USE DEF BesideStartup, threadVars
<1>1. Startup!IInv'
  BY StartupKeepsOwn DEF IInv, StartupStep
<1>2. Backend!ThreadInv'
  BY <1>1, OthersKeepRequests DEF IInv, StartupStep, Startup!IInv, Startup!TypeOK
<1>3. Adapter!IInv'
  BY AdapterStepIInv DEF IInv, StartupStep, adapterVars, Adapter!vars
<1>4. DownloadInv'
  BY <1>1, OthersKeepDownloads
  DEF IInv, StartupStep, DownloadInv, Startup!IInv, Startup!TypeOK
<1>5. mainPc = "serving" => UNCHANGED <<mainPc, m_token>>
  BY ServingIsFinal DEF IInv, StartupStep
<1>6. OrderInv'
  BY <1>5 DEF IInv, StartupStep, OrderInv, adapterVars
<1>7. RequestInv'
  BY <1>5 DEF IInv, StartupStep, RequestInv, requestVars, downloadVars
<1>8. OpenedInv'
  BY <1>5 DEF IInv, StartupStep, OpenedInv, downloadVars
<1> QED BY <1>1, <1>2, <1>3, <1>4, <1>6, <1>7, <1>8 DEF IInv, DownloadInv

LEMMA AdapterKeepsIInv ==
    ASSUME IInv, AdapterStep
    PROVE  IInv'
<1>1. BesideAdapter /\ Adapter!Next
  BY DEF AdapterStep, OwnerStep, Adapter!Next
<1> USE DEF BesideAdapter, threadVars
<1>2. Startup!IInv' /\ Backend!ThreadInv' /\ DownloadInv'
  BY <1>1, OthersKeepStartup, OthersKeepRequests, OthersKeepDownloads, SharedType
  DEF IInv, DownloadInv, sharedVars
<1>3. Adapter!IInv'
  BY <1>1, AdapterStepIInv DEF IInv
<1>4. OrderInv'
  BY <1>1
  DEF IInv, AdapterStep, OwnerStep, OrderInv, startupVars, Adapter!Owner,
      Adapter!Construct, Adapter!InitLock, Adapter!RegisterHandler, Adapter!InitReturn,
      Adapter!Start, Adapter!OfferThread, Adapter!RunLock, Adapter!TestBlocked,
      Adapter!Wait, Adapter!OfferService, Adapter!RunReturn, Adapter!SpuriousWakeup,
      Adapter!OnState, Adapter!StateHandler, Adapter!SetBlocked, Adapter!Notify
<1>5. RequestInv' /\ OpenedInv'
  BY <1>1 DEF IInv, RequestInv, OpenedInv, startupVars, requestVars, downloadVars
<1> QED BY <1>2, <1>3, <1>4, <1>5 DEF IInv, DownloadInv

\* A message is delivered for an offered service, so vsomeip has registered the
\* application, so main has called start().
LEMMA ServedWhileServing ==
    ASSUME IInv, NEW service, Served(service)
    PROVE  mainPc = "serving"
  BY DEF Served, IInv, OrderInv, Adapter!IInv, Adapter!OfferInv, Adapter!OwnerInv

\* Reading the token gives a thread main's token, and no other thread another.
LEMMA ReadTokenGives ==
    ASSUME NEW t, NEW to, ReadToken(t, to) \/ UNCHANGED bearer
    PROVE  bearer' \in {bearer, [bearer EXCEPT ![t] = m_token]}
  BY DEF ReadToken

LEMMA RequestKeepsIInv ==
    ASSUME IInv, RequestThread
    PROVE  IInv'
<1> USE DEF IInv
<1>1. PICK r \in Requests :
          \/ Served(BackendService) /\ Backend!Arrive(r) /\ UNCHANGED bearer
          \/ Backend!Handler(r) /\ ReadToken(r, requestPc'[r])
          \/ Backend!SendReturns(r) /\ UNCHANGED bearer
  BY DEF RequestThread
<1>2. UNCHANGED <<startupVars, adapterVars, downloadVars>>
  BY DEF RequestThread
<1>3. Backend!ThreadInv'
  BY <1>1, RequestKeepsOwn
<1>4. alive' \in BOOLEAN /\ internetConnectionState' \in BOOLEAN
  BY <1>3 DEF Backend!ThreadInv, Backend!TypeOK
<1>5. Startup!IInv'
  BY <1>2, <1>4, OthersKeepStartup
<1>6. Adapter!IInv'
  BY <1>2, AdapterStepIInv DEF adapterVars, Adapter!vars
<1>7. DownloadInv'
  BY <1>2, <1>4, OthersKeepDownloads DEF DownloadInv
<1>8. OrderInv' /\ OpenedInv'
  BY <1>2 DEF startupVars, adapterVars, downloadVars, OrderInv, OpenedInv
<1>9. RequestInv'
  <2>1. requestPc \in [Requests -> Backend!HandlerPcs \cup {"unsent", "done"}]
    BY DEF Backend!ThreadInv, Backend!TypeOK
  <2>2. mainPc = "serving"
    BY <1>1, ServedWhileServing
    DEF RequestInv, Backend!Handler, Backend!SendReturns, Backend!CheckOnline,
        Backend!AnswerOffline, Backend!Parse, Backend!Respond, Backend!Goto,
        Backend!Terminate
  <2>3. \/ UNCHANGED requestPc /\ requestPc[r] # "unsent"
        \/ \E to \in Backend!HandlerPcs \cup {"done"} :
              requestPc' = [requestPc EXCEPT ![r] = to]
    BY <1>1 DEF Backend!Arrive, Backend!Handler, Backend!SendReturns,
                Backend!CheckOnline, Backend!AnswerOffline, Backend!Parse,
                Backend!Respond, Backend!Goto, Backend!Terminate, Backend!HandlerPcs
  <2>4. requestPc'[r] # "unsent" /\ \A q \in Requests \ {r} : requestPc'[q] = requestPc[q]
    BY <2>1, <2>3 DEF Backend!HandlerPcs
  <2>5. bearer' \in {bearer, [bearer EXCEPT ![r] = m_token]}
    BY <1>1, ReadTokenGives
  <2>6. m_token \in Tokens \cup {NoToken}
    BY DEF Startup!IInv, Startup!TypeOK, Startup!Auth!TypeOK
  <2>7. UNCHANGED <<mainPc, m_token, downloadPc>>
    BY <1>2 DEF startupVars, downloadVars
  <2> QED BY <2>2, <2>4, <2>5, <2>6, <2>7, GatewayAssumption DEF RequestInv
<1> QED BY <1>3, <1>5, <1>6, <1>7, <1>8, <1>9 DEF DownloadInv

LEMMA DownloadKeepsIInv ==
    ASSUME IInv, DownloadThread
    PROVE  IInv'
<1> USE DEF IInv
<1>1. PICK d \in Downloads :
          \/ Served(DownloadService) /\ Download!Arrive(d) /\ UNCHANGED bearer
          \/ Download!Thread(d) /\ ReadToken(d, downloadPc'[d])
          \/ Download!SendReturns(d) /\ UNCHANGED bearer
  BY DEF DownloadThread
<1>2. UNCHANGED <<startupVars, adapterVars, requestVars, internetConnectionState>>
  BY DEF DownloadThread
<1>3. /\ DownloadInv'
      /\ \/ UNCHANGED downloadPc
         \/ \E to \in Download!ThreadPcs \cup {"done"} :
               downloadPc' = [downloadPc EXCEPT ![d] = to]
  BY <1>1, DownloadMoves DEF DownloadInv
<1>4. alive' \in BOOLEAN /\ internetConnectionState' \in BOOLEAN
  BY <1>2, <1>3, SharedType DEF DownloadInv, Download!TypeOK
<1>5. Startup!IInv'
  BY <1>2, <1>4, OthersKeepStartup
<1>6. Adapter!IInv'
  BY <1>2, AdapterStepIInv DEF adapterVars, Adapter!vars
<1>7. Backend!ThreadInv'
  BY <1>2, <1>4, OthersKeepRequests
<1>8. mainPc = "serving" /\ UNCHANGED <<mainPc, m_token, ownerPc, requestPc>>
  <2>1. mainPc = "serving"
    BY <1>1, ServedWhileServing, DownloadStarted DEF RequestInv
  <2> QED BY <1>2, <2>1 DEF startupVars, adapterVars, requestVars
<1>9. OrderInv' /\ OpenedInv'
  BY <1>8 DEF OrderInv, OpenedInv
<1>10. RequestInv'
  <2>1. downloadPc \in [Downloads -> Download!ThreadPcs \cup {"unsent", "done"}]
    BY DEF Download!TypeOK
  <2>2. /\ downloadPc[d] # "unsent" => downloadPc'[d] # "unsent"
        /\ \A e \in Downloads \ {d} : downloadPc'[e] = downloadPc[e]
    BY <1>3, <2>1 DEF Download!ThreadPcs
  <2>3. downloadPc'[d] # "unsent"
    <3>1. CASE Download!Arrive(d)
      BY <2>1, <3>1 DEF Download!Arrive
    <3> QED BY <1>1, <2>2, <3>1, DownloadStarted
  <2>4. bearer' \in {bearer, [bearer EXCEPT ![d] = m_token]}
    BY <1>1, ReadTokenGives
  <2>5. m_token \in Tokens \cup {NoToken}
    BY DEF Startup!IInv, Startup!TypeOK, Startup!Auth!TypeOK
  <2> QED BY <1>8, <2>2, <2>3, <2>4, <2>5, GatewayAssumption DEF RequestInv
<1> QED BY <1>3, <1>5, <1>6, <1>7, <1>9, <1>10 DEF DownloadInv

LEMMA StepIInv == IInv /\ [Next]_vars => IInv'
<1> SUFFICES ASSUME IInv, [Next]_vars PROVE IInv'
  OBVIOUS
<1>1. CASE Next
  BY <1>1, StartupKeepsIInv, AdapterKeepsIInv, RequestKeepsIInv, DownloadKeepsIInv
  DEF Next
<1>2. CASE UNCHANGED vars
  <2> USE <1>2 DEF vars, threadVars, IInv
  <2>1. Startup!IInv' /\ Backend!ThreadInv' /\ DownloadInv'
    BY OthersKeepStartup, OthersKeepRequests, OthersKeepDownloads, SharedType
    DEF sharedVars, DownloadInv
  <2>2. Adapter!IInv'
    BY AdapterStepIInv DEF adapterVars, Adapter!vars
  <2>3. OrderInv' /\ RequestInv' /\ OpenedInv'
    BY DEF startupVars, adapterVars, requestVars, downloadVars, OrderInv, RequestInv,
           OpenedInv
  <2> QED BY <2>1, <2>2, <2>3 DEF DownloadInv
<1> QED BY <1>1, <1>2

\* The inductive invariant holds in every reachable state.
THEOREM Invariance == Spec => []IInv
  BY InitIInv, StepIInv, PTL DEF Spec

-----------------------------------------------------------------------------
(* What follows from it *)

\* Type correctness of the whole process (main.cpp:313-370).
THEOREM TypeCorrect == Spec => []TypeOK
<1>1. IInv => TypeOK
  BY DEF IInv, Startup!IInv, Adapter!IInv, Backend!ThreadInv, RequestInv, TypeOK
<1> QED BY <1>1, Invariance, PTL

\* Beside the adapter and any number of requests and downloads, the gateway keeps
\* its promise to the OTA client up to the first download into the compose file, and
\* by then it has said all it will say: nothing else sends a decision, no decision
\* follows such a download, and wherever an exception of another thread stops main,
\* what was sent is still true of the file main left (main.cpp:73-126, 201, 349-368).
THEOREM OtaPromiseKept == Spec => OtaPromiseUntilDownloaded
<1>1. Init => Startup!Ota!Init
  BY DEF Init, Startup!Init
<1>2. IInv /\ [Next]_vars =>
          [\/ Startup!Ota!Next /\ writers[ComposePath] = {} /\ UNCHANGED writers
           \/ mainPc = "serving" /\ UNCHANGED <<otaSent, composeFile>>
          ]_<<otaSent, composeFile, writers[ComposePath]>>
  <2> SUFFICES ASSUME IInv, [Next]_vars,
                      ~UNCHANGED <<otaSent, composeFile, writers[ComposePath]>>
               PROVE  \/ /\ Startup!Ota!Next
                         /\ writers[ComposePath] = {} /\ UNCHANGED writers
                      \/ mainPc = "serving" /\ UNCHANGED <<otaSent, composeFile>>
    OBVIOUS
  <2>1. CASE StartupStep
    <3>1. mainPc # "serving"
      BY <2>1, ServingIsFinal
      DEF IInv, StartupStep, BesideStartup, threadVars, downloadVars
    <3>2. writers[ComposePath] = {} /\ UNCHANGED writers
      BY <2>1, <3>1
      DEF IInv, OpenedInv, StartupStep, BesideStartup, threadVars, downloadVars
    <3> QED BY <2>1, <3>2, StartupKeepsOwn DEF IInv, StartupStep, Startup!Ota!vars
  <2>2. CASE DownloadThread
    <3>1. UNCHANGED <<otaSent, composeFile>>
      BY <2>2 DEF DownloadThread, startupVars
    <3>2. writers'[ComposePath] # writers[ComposePath]
      BY <3>1
    <3>3. PICK d \in Downloads :
              /\ Download!Arrive(d) \/ Download!Thread(d) \/ Download!SendReturns(d)
              /\ Download!Arrive(d) => UNCHANGED writers
              /\ Download!Arrive(d) \/ downloadPc[d] # "unsent"
      BY <2>2, DownloadMoves, DownloadStarted DEF DownloadThread, IInv, DownloadInv
    <3> QED BY <3>1, <3>2, <3>3 DEF IInv, RequestInv
  <2> QED BY <2>1, <2>2
      DEF Next, AdapterStep, OwnerStep, BesideAdapter, RequestThread, vars, threadVars,
          startupVars, downloadVars
<1> QED BY <1>1, <1>2, Invariance, PTL DEF Spec, OtaPromiseUntilDownloaded

\* Whatever main and vsomeip do meanwhile, each client of the backend service is
\* kept the promise of RequestService (main.cpp:218-288).
THEOREM ServicePromiseKept == Spec => Backend!ServicePromise
<1>1. Init => Backend!Service!Init
  BY DEF Init, Backend!Init, Backend!Service!Init, Backend!Phase
<1>2. IInv /\ [Next]_vars => [Backend!Service!Next]_(Backend!Service!vars)
  <2> SUFFICES ASSUME IInv, [Next]_vars
               PROVE  [Backend!Service!Next]_(Backend!Service!vars)
    OBVIOUS
  <2>1. CASE RequestThread
    BY <2>1, RequestKeepsOwn DEF RequestThread, IInv
  <2>2. CASE UNCHANGED requestVars
    BY <2>2 DEF requestVars, Backend!Service!vars, Backend!Phase
  <2> QED BY <2>1, <2>2
      DEF Next, StartupStep, BesideStartup, AdapterStep, OwnerStep, BesideAdapter,
          DownloadThread, vars, threadVars
<1> QED BY <1>1, <1>2, Invariance, PTL
    DEF Spec, Backend!ServicePromise, Backend!Service!Spec

\* In the whole process the adapter behaves as it does by itself, so what holds
\* of ServiceAdapter holds here (ServiceManagerAdapter.cpp:4-72, main.cpp:325-369).
THEOREM AdapterRefined == Spec => Adapter!Spec
  BY AdapterByItself, PTL DEF Spec, Init, Adapter!Spec

\* An offer follows a delivered registration, whatever wakes the offer thread and
\* whatever m_blocked_ was built on (ServiceManagerAdapter.cpp:4-12, 43-48).
THEOREM OfferedLate == Spec => []OfferedOnlyAfterRegistration
<1>1. IInv => OfferedOnlyAfterRegistration
  BY DEF IInv, Adapter!IInv, Adapter!OfferInv, OfferedOnlyAfterRegistration,
         Adapter!OfferedOnlyAfterRegistration
<1> QED BY <1>1, Invariance, PTL

\* Every handler is in place before the first offer: registrations are delivered
\* after start(), which follows init() (ServiceManagerAdapter.cpp:19-37, 51-57).
THEOREM HandlersFirst == Spec => []HandlersBeforeOffers
<1>1. IInv => HandlersBeforeOffers
  BY DEF IInv, Adapter!IInv, Adapter!OfferInv, Adapter!OwnerInv, HandlersBeforeOffers,
         Adapter!HandlersBeforeOffers
<1> QED BY <1>1, Invariance, PTL

\* A thread of a service exists only while main serves, with the token acquired and
\* the first HttpRequest made (main.cpp:297-299, 369).
THEOREM MainFirst == Spec => []MainIsFirst
<1>1. IInv => MainIsFirst
  BY DEF IInv, RequestInv, Startup!IInv, Startup!TokenInv, Startup!AcquiredPcs, MainIsFirst
<1> QED BY <1>1, Invariance, PTL

\* What is posted carries the backend's newest token, though no handler looks whether
\* there is one (main.cpp:190, 261, 333-337, 359, 369).
THEOREM ForwardedNewest == Spec => []ForwardedWithNewestToken
<1>1. IInv => ForwardedWithNewestToken
  BY DEF IInv, RequestInv, Startup!IInv, Startup!TokenInv, Startup!AcquiredPcs,
         Startup!Auth!HeldTokenIsNewest, ForwardedWithNewestToken
<1> QED BY <1>1, Invariance, PTL
=============================================================================

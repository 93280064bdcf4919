-------------------------- MODULE OtaRestarts_proofs --------------------------
(***************************************************************************)
(* Machine-checked proofs about OtaRestarts, for every set of tokens and   *)
(* any number of starts: what the OTA client can meet when it acts on a    *)
(* decision, though datagrams overtake each other and outlive their run.   *)
(***************************************************************************)
EXTENDS OtaRestarts, TLAPS

(***************************************************************************)
(* One run.  What is proved of GatewayStartup is proved here with the      *)
(* variables of this module: an instance of the proofs and the instance in *)
(* OtaRestarts have the same formulas, definition by definition.           *)
(***************************************************************************)

StartProofs == INSTANCE GatewayStartup_proofs

\* A step of the start-up keeps its invariant, and the promise to the OTA client.
LEMMA StartupKeepsOwn ==
    Startup!IInv /\ Startup!Next =>
        /\ Startup!IInv'
        /\ [Startup!Ota!Next]_(Startup!Ota!vars)
<1>1. /\ Startup!IInv <=> StartProofs!IInv
      /\ Startup!IInv' <=> StartProofs!IInv'
  BY DEF Startup!IInv, Startup!TypeOK, Startup!LockInv, Startup!FlagInv,
         Startup!SentInv, Startup!ComposeInv, Startup!TokenInv, Startup!BootPcs,
         Startup!AcquirePcs, Startup!ExchangePcs, Startup!ProcedurePcs,
         Startup!CriticalPcs, Startup!AcquiredPcs, Startup!MainPcs, Startup!TimerPcs,
         Startup!authVars, Startup!flagVars, Startup!clientVars, Startup!Auth!TypeOK,
         Startup!Auth!HeldTokenIsNewest, Startup!Auth!CallPcs, Startup!Auth!ReturnPcs,
         Startup!Auth!ChallengeAges, Startup!Auth!SolutionAges,
         Startup!Ota!ComposeStates, StartProofs!IInv, StartProofs!TypeOK,
         StartProofs!LockInv, StartProofs!FlagInv, StartProofs!SentInv,
         StartProofs!ComposeInv, StartProofs!TokenInv, StartProofs!BootPcs,
         StartProofs!AcquirePcs, StartProofs!ExchangePcs, StartProofs!ProcedurePcs,
         StartProofs!CriticalPcs, StartProofs!AcquiredPcs, StartProofs!MainPcs,
         StartProofs!TimerPcs, StartProofs!authVars, StartProofs!flagVars,
         StartProofs!clientVars, StartProofs!Auth!TypeOK,
         StartProofs!Auth!HeldTokenIsNewest, StartProofs!Auth!CallPcs,
         StartProofs!Auth!ReturnPcs, StartProofs!Auth!ChallengeAges,
         StartProofs!Auth!SolutionAges, StartProofs!Ota!ComposeStates
<1>2. Startup!Next => StartProofs!Next
  BY DEF Startup!Next, Startup!MainLocal, Startup!MainExchange, Startup!Timer,
         Startup!IeProbe, Startup!Terminate, Startup!SendDecision, Startup!Goto,
         Startup!TimerGoto, Startup!Boot, Startup!WaitOnline, Startup!CheckToken,
         Startup!GetNewJWToken, Startup!AcquireReturns, Startup!AcquireThrows,
         Startup!Probe, Startup!ReadBack, Startup!Lock, Startup!Decide,
         Startup!CheckoutReturns, Startup!CheckoutThrows, Startup!SkipUpdate,
         Startup!UpdateReturns, Startup!OpenCompose, Startup!WriteCompose,
         Startup!StartUpdate, Startup!SendThrows, Startup!Unlock, Startup!TimerExpires,
         Startup!TimerDecides, Startup!TimerThrows, Startup!TimerUnlocks,
         Startup!Auth!Call, Startup!Auth!GetNewJWToken, Startup!Auth!RequestChallenge,
         Startup!Auth!Decrypt, Startup!Auth!Login1, Startup!Auth!Login2,
         Startup!Auth!Aged, Startup!Auth!UnusedGrant, Startup!Auth!Grants,
         Startup!Auth!roundVars, StartProofs!Next, StartProofs!MainLocal,
         StartProofs!MainExchange, StartProofs!Timer, StartProofs!IeProbe,
         StartProofs!Terminate, StartProofs!SendDecision, StartProofs!Goto,
         StartProofs!TimerGoto, StartProofs!Boot, StartProofs!WaitOnline,
         StartProofs!CheckToken, StartProofs!GetNewJWToken, StartProofs!AcquireReturns,
         StartProofs!AcquireThrows, StartProofs!Probe, StartProofs!ReadBack,
         StartProofs!Lock, StartProofs!Decide, StartProofs!CheckoutReturns,
         StartProofs!CheckoutThrows, StartProofs!SkipUpdate, StartProofs!UpdateReturns,
         StartProofs!OpenCompose, StartProofs!WriteCompose, StartProofs!StartUpdate,
         StartProofs!SendThrows, StartProofs!Unlock, StartProofs!TimerExpires,
         StartProofs!TimerDecides, StartProofs!TimerThrows, StartProofs!TimerUnlocks,
         StartProofs!Auth!Call, StartProofs!Auth!GetNewJWToken,
         StartProofs!Auth!RequestChallenge, StartProofs!Auth!Decrypt,
         StartProofs!Auth!Login1, StartProofs!Auth!Login2, StartProofs!Auth!Aged,
         StartProofs!Auth!UnusedGrant, StartProofs!Auth!Grants,
         StartProofs!Auth!roundVars, Startup!BootPcs, Startup!AcquirePcs,
         Startup!ExchangePcs, Startup!ProcedurePcs, Startup!CriticalPcs,
         Startup!AcquiredPcs, Startup!authVars, Startup!flagVars, Startup!clientVars,
         StartProofs!BootPcs, StartProofs!AcquirePcs, StartProofs!ExchangePcs,
         StartProofs!ProcedurePcs, StartProofs!CriticalPcs, StartProofs!AcquiredPcs,
         StartProofs!authVars, StartProofs!flagVars, StartProofs!clientVars
<1>3. [StartProofs!Ota!Next]_(StartProofs!Ota!vars) <=>
      [Startup!Ota!Next]_(Startup!Ota!vars)
  BY DEF Startup!Ota!Next, Startup!Ota!vars, Startup!Ota!Stage, Startup!Ota!Skip,
         Startup!Ota!Start, StartProofs!Ota!Next, StartProofs!Ota!vars,
         StartProofs!Ota!Stage, StartProofs!Ota!Skip, StartProofs!Ota!Start
<1> QED BY <1>1, <1>2, <1>3, RestartsAssumption, StartProofs!StepIInv,
           StartProofs!StepKeepsPromise

\* The promise to the client, step by step: a run that has decided sends nothing
\* more and leaves the file alone; a "no" goes out over the file as it was found,
\* a "yes" not over an open one.
LEMMA OtaStep ==
    ASSUME Startup!IInv, Startup!Next
    PROVE  \/ UNCHANGED <<otaSent, composeFile>>
           \/ /\ otaSent = <<>> /\ UNCHANGED otaSent
              /\ composeFile' \in Startup!Ota!ComposeStates \ {"old"}
           \/ \E decision \in {"yes", "no"} :
                 /\ otaSent = <<>> /\ otaSent' = <<decision>>
                 /\ UNCHANGED composeFile
                 /\ decision = "no" => composeFile = "old"
                 /\ decision = "yes" => composeFile # "open"
  BY StartupKeepsOwn
  DEF Startup!Ota!Next, Startup!Ota!vars, Startup!Ota!Stage, Startup!Ota!Skip,
      Startup!Ota!Start, Startup!Ota!ComposeStates

\* A new process on the old files is where the start-up begins.
LEMMA RestartBegins ==
    ASSUME Startup!IInv, Restart
    PROVE  Startup!IInv'
<1>1. otaSent' \in Seq({"yes", "no"})
  BY DEF Restart
<1>2. Startup!Auth!TypeOK'
  BY DEF Restart, Startup!IInv, Startup!TypeOK, Startup!Auth!TypeOK,
         Startup!Auth!CallPcs, Startup!Auth!ReturnPcs, Startup!Auth!ChallengeAges,
         Startup!Auth!SolutionAges, Startup!Auth!Aged
<1> QED
  BY <1>1, <1>2
  DEF Restart, Startup!IInv, Startup!TypeOK, Startup!LockInv, Startup!FlagInv,
      Startup!SentInv, Startup!ComposeInv, Startup!TokenInv, Startup!BootPcs,
      Startup!AcquirePcs, Startup!ExchangePcs, Startup!ProcedurePcs,
      Startup!CriticalPcs, Startup!AcquiredPcs, Startup!MainPcs, Startup!TimerPcs,
      Startup!authVars, Startup!flagVars, Startup!clientVars,
      Startup!Auth!HeldTokenIsNewest, Startup!Auth!CallPcs, Startup!Auth!ReturnPcs,
      Startup!Auth!ChallengeAges, Startup!Auth!SolutionAges, Startup!Ota!ComposeStates

-----------------------------------------------------------------------------
(* The inductive invariant *)

LEMMA InitIInv == Init => IInv
<1> SUFFICES ASSUME Init PROVE IInv
  OBVIOUS
<1>1. Startup!IInv
  <2>1. otaSent \in Seq({"yes", "no"})
    BY DEF Init, Startup!Init, Startup!Ota!Init
  <2> QED
    BY <2>1
    DEF Init, Startup!Init, Startup!Auth!Init, Startup!Ota!Init, Startup!IInv,
        Startup!TypeOK, Startup!LockInv, Startup!FlagInv, Startup!SentInv,
        Startup!ComposeInv, Startup!TokenInv, Startup!BootPcs, Startup!AcquirePcs,
        Startup!ExchangePcs, Startup!ProcedurePcs, Startup!CriticalPcs,
        Startup!AcquiredPcs, Startup!MainPcs, Startup!TimerPcs, Startup!authVars,
        Startup!flagVars, Startup!clientVars, Startup!Auth!TypeOK,
        Startup!Auth!HeldTokenIsNewest, Startup!Auth!CallPcs, Startup!Auth!ReturnPcs,
        Startup!Auth!ChallengeAges, Startup!Auth!SolutionAges,
        Startup!Ota!ComposeStates
<1>2. TypeOK
  BY <1>1, RestartsAssumption
  DEF Init, TypeOK, Startup!IInv, Datagrams, Volumes, Startup!Ota!ComposeStates
<1>3. VolumeInv /\ FlightInv /\ ActedInv
  BY DEF Init, Startup!Init, Startup!Ota!Init, VolumeInv, FlightInv, ActedInv
<1> QED BY <1>1, <1>2, <1>3 DEF IInv

\* The process writes as the run it is, and only before it has decided; what it
\* sends is harmless to the file it has left.
LEMMA GatewayKeepsIInv ==
    ASSUME IInv, GatewayStep
    PROVE  IInv'
<1> USE DEF IInv, TypeOK, Datagrams, Volumes, VolumeInv, FlightInv, ActedInv, Harmless
<1>1. Startup!IInv' /\ Startup!TypeOK'
  BY StartupKeepsOwn DEF GatewayStep, Startup!IInv
<1>2. composeFile' \in Startup!Ota!ComposeStates
  BY <1>1 DEF Startup!TypeOK
<1>3. CASE UNCHANGED <<otaSent, composeFile>>
  BY <1>1, <1>3 DEF GatewayStep
<1>4. CASE /\ otaSent = <<>> /\ UNCHANGED otaSent
           /\ composeFile' \in Startup!Ota!ComposeStates \ {"old"}
  <2>1. volume' \in {volume, <<run, composeFile'>>}
    BY DEF GatewayStep
  <2>2. UNCHANGED <<run, inFlight, acted>>
    BY <1>4 DEF GatewayStep
  <2>3. VolumeInv'
    BY <1>4, <2>2 DEF GatewayStep
  <2>4. \A datagram \in inFlight : datagram[1] # run
    BY <1>4
  <2>5. FlightInv'
    BY <1>4, <2>1, <2>2, <2>4
  <2>6. TypeOK'
    BY <1>1, <1>2, <2>1, <2>2
  <2> QED BY <1>1, <2>2, <2>3, <2>5, <2>6
<1>5. ASSUME NEW decision \in {"yes", "no"},
             otaSent = <<>>, otaSent' = <<decision>>, UNCHANGED composeFile,
             decision = "no" => composeFile = "old",
             decision = "yes" => composeFile # "open"
      PROVE  IInv'
  <2>1. Last(otaSent') = decision
    BY <1>5 DEF Last
  <2>2. /\ inFlight' = inFlight \cup {<<run, decision>>}
        /\ UNCHANGED <<run, volume, acted>>
    BY <1>5, <2>1 DEF GatewayStep
  <2>3. Harmless(<<run, decision>>, volume)
    BY <1>5
  <2>4. FlightInv'
    BY <1>5, <2>2, <2>3
  <2>5. TypeOK' /\ VolumeInv' /\ ActedInv'
    BY <1>1, <1>5, <2>2
  <2> QED BY <1>1, <2>4, <2>5
<1> QED BY <1>3, <1>4, <1>5, OtaStep DEF GatewayStep

\* No datagram and no file is of the run that begins.
LEMMA RestartKeepsIInv ==
    ASSUME IInv, Restart
    PROVE  IInv'
<1> USE DEF IInv, TypeOK, Datagrams, Volumes, VolumeInv, FlightInv, ActedInv, Harmless
<1>1. Startup!IInv' /\ Startup!TypeOK'
  BY RestartBegins DEF Startup!IInv
<1>2. run' = run + 1 /\ run < MaxRuns /\ composeFile' = "old" /\ UNCHANGED clientVars
  BY DEF Restart
<1>3. TypeOK'
  BY <1>1, <1>2, RestartsAssumption DEF clientVars
<1>4. VolumeInv' /\ FlightInv' /\ ActedInv'
  BY <1>2, RestartsAssumption DEF clientVars
<1> QED BY <1>1, <1>3, <1>4

\* What the client receives it meets the file with, as it is.
LEMMA ClientKeepsIInv ==
    ASSUME IInv, Lose \/ Receive \/ UNCHANGED vars
    PROVE  IInv'
<1> USE DEF IInv, TypeOK, VolumeInv, FlightInv, ActedInv
<1>1. UNCHANGED startupVars /\ UNCHANGED <<run, volume>> /\ inFlight' \subseteq inFlight
  BY DEF Lose, Receive, vars, clientVars
<1>2. Startup!IInv'
  BY <1>1
  DEF startupVars, Startup!IInv, Startup!TypeOK, Startup!LockInv, Startup!FlagInv,
      Startup!SentInv, Startup!ComposeInv, Startup!TokenInv, Startup!BootPcs,
      Startup!AcquirePcs, Startup!ExchangePcs, Startup!ProcedurePcs,
      Startup!CriticalPcs, Startup!AcquiredPcs, Startup!MainPcs, Startup!TimerPcs,
      Startup!authVars, Startup!flagVars, Startup!clientVars, Startup!Auth!TypeOK,
      Startup!Auth!HeldTokenIsNewest, Startup!Auth!CallPcs, Startup!Auth!ReturnPcs,
      Startup!Auth!ChallengeAges, Startup!Auth!SolutionAges, Startup!Ota!ComposeStates
<1>3. VolumeInv' /\ FlightInv' /\ Startup!TypeOK'
  BY <1>1, <1>2 DEF startupVars, Startup!IInv, Harmless
<1>4. CASE UNCHANGED acted
  BY <1>1, <1>2, <1>3, <1>4 DEF Harmless
<1>5. CASE Receive
  <2>1. PICK datagram \in inFlight : acted' = Append(acted, <<datagram, volume>>)
    BY <1>5 DEF Receive
  <2>2. Harmless(datagram, volume)
    OBVIOUS
  <2>3. acted' \in Seq(Datagrams \X Volumes)
    BY <2>1
  <2>4. ActedInv'
    BY <2>1, <2>2
  <2> QED BY <1>1, <1>2, <1>3, <2>3, <2>4
<1> QED BY <1>4, <1>5 DEF Lose, vars, clientVars

LEMMA StepIInv == IInv /\ [Next]_vars => IInv'
  BY GatewayKeepsIInv, RestartKeepsIInv, ClientKeepsIInv DEF Next

\* The inductive invariant holds in every reachable state.
THEOREM Invariance == Spec => []IInv
  BY InitIInv, StepIInv, PTL DEF Spec

-----------------------------------------------------------------------------
(* What follows from it *)

\* Type correctness over all runs, and of what the client has received.
THEOREM TypeCorrect == Spec => []TypeOK
<1>1. IInv => TypeOK
  BY DEF IInv
<1> QED BY <1>1, Invariance, PTL

\* However often the gateway dies and whatever is lost or overtaken, a "yes" never
\* finds open the file of the run that sent it (main.cpp:112-125).
THEOREM OpenAcrossRuns == Spec => []OpenFileOnlyAcrossRuns
<1>1. IInv => OpenFileOnlyAcrossRuns
  BY DEF IInv, ActedInv, Harmless, OpenFileOnlyAcrossRuns, Sender, Decision, Writer, File
<1> QED BY <1>1, Invariance, PTL

\* And a "no" never finds a file that was last written by the run that sent it;
\* what an earlier run left there it may find (main.cpp:91-95, 349-357).
THEOREM NoTouchedNothing == Spec => []NoFromRunsThatWroteNothing
<1>1. IInv => NoFromRunsThatWroteNothing
  BY DEF IInv, ActedInv, Harmless, NoFromRunsThatWroteNothing, Sender, Decision, Writer
<1> QED BY <1>1, Invariance, PTL
=============================================================================

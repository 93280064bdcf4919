------------------------ MODULE GatewayStartup_proofs ------------------------
(***************************************************************************)
(* Machine-checked proofs about GatewayStartup, for every set of tokens    *)
(* the backend may grant.  IInv is inductive; the safety properties and    *)
(* the promise to the OTA client follow from it.                           *)
(***************************************************************************)
EXTENDS GatewayStartup, TLAPS

USE DEF BootPcs, AcquirePcs, ExchangePcs, ProcedurePcs, CriticalPcs,
        AcquiredPcs, MainPcs, TimerPcs

-----------------------------------------------------------------------------
(* Type correctness *)

\* Sending appends one of the two decisions or fails, so the histories stay well
\* typed.
LEMMA SendDecisionType ==
    ASSUME otaSent \in Seq({"yes", "no"}), sendFailed \in BOOLEAN,
           NEW decision \in {"yes", "no"}, SendDecision(decision)
    PROVE  /\ otaSent' \in Seq({"yes", "no"})
           /\ sendFailed' \in BOOLEAN
           /\ otaSent = <<>> => otaSent' \in {<<>>, <<decision>>}
<1>1. CASE otaSent' = Append(otaSent, decision) /\ UNCHANGED sendFailed
  <2>1. otaSent' \in Seq({"yes", "no"})
    BY <1>1
  <2>2. otaSent = <<>> => Append(otaSent, decision) = <<decision>>
    OBVIOUS
  <2> QED BY <1>1, <2>1, <2>2
<1>2. CASE sendFailed' = TRUE /\ UNCHANGED otaSent
  BY <1>2
<1> QED BY <1>1, <1>2 DEF SendDecision

\* The gateway's Authenticator stays well typed under each of its steps.
LEMMA AuthTypeStep ==
    ASSUME Auth!TypeOK, Auth!Call \/ Auth!GetNewJWToken
    PROVE  Auth!TypeOK'
<1> USE DEF Auth!TypeOK, Auth!CallPcs, Auth!ReturnPcs, Auth!ChallengeAges,
            Auth!SolutionAges, Auth!roundVars
<1>1. CASE Auth!Call
  BY <1>1 DEF Auth!Call
<1>2. CASE Auth!RequestChallenge
  BY <1>2 DEF Auth!RequestChallenge, Auth!Aged
<1>3. CASE Auth!Decrypt
  BY <1>3 DEF Auth!Decrypt
<1>4. CASE Auth!Login1
  BY <1>4 DEF Auth!Login1, Auth!UnusedGrant, Auth!Grants
<1>5. CASE Auth!Login2
  BY <1>5 DEF Auth!Login2, Auth!UnusedGrant, Auth!Grants
<1> QED BY <1>1, <1>2, <1>3, <1>4, <1>5 DEF Auth!GetNewJWToken

\* A step of another thread, or of main outside the acquisition, leaves the
\* Authenticator as it is.
LEMMA AuthStutter ==
    ASSUME Auth!TypeOK, UNCHANGED authVars
    PROVE  Auth!TypeOK' /\ (Auth!HeldTokenIsNewest => Auth!HeldTokenIsNewest')
  BY DEF authVars, Auth!TypeOK, Auth!HeldTokenIsNewest

-----------------------------------------------------------------------------
(* The inductive invariant *)

LEMMA InitIInv == Init => IInv
<1> SUFFICES ASSUME Init PROVE IInv
  OBVIOUS
<1> USE DEF Init, Ota!Init, Auth!Init
<1>1. TypeOK
  <2>1. otaSent \in Seq({"yes", "no"})
    OBVIOUS
  <2>2. Auth!TypeOK
    BY DEF Auth!TypeOK, Auth!CallPcs, Auth!ReturnPcs, Auth!ChallengeAges,
           Auth!SolutionAges
  <2> QED BY <2>1, <2>2 DEF TypeOK, Ota!ComposeStates
<1>2. LockInv /\ FlagInv /\ SentInv /\ ComposeInv
  BY DEF LockInv, FlagInv, SentInv, ComposeInv
<1>3. TokenInv
  BY DEF TokenInv, Auth!HeldTokenIsNewest
<1> QED BY <1>1, <1>2, <1>3 DEF IInv

\* The steps that leave the Authenticator alone, by thread.  The parts other
\* than TokenInv follow from the program points and the flags.
LEMMA OtherThreadsKeepIInv ==
    ASSUME IInv, IeProbe \/ Timer \/ Terminate
    PROVE  IInv'
<1> USE DEF IInv, TypeOK, LockInv, FlagInv, SentInv, ComposeInv, TokenInv
<1>1. CASE IeProbe
  BY <1>1, AuthStutter DEF IeProbe, flagVars, clientVars, authVars
<1>2. CASE Terminate
  BY <1>2, AuthStutter DEF Terminate, flagVars, clientVars, authVars
<1>3. CASE TimerExpires
  BY <1>3, AuthStutter DEF TimerExpires, TimerGoto, authVars
<1>4. CASE TimerDecides
  <2>1. otaSent' \in Seq({"yes", "no"}) /\ sendFailed' \in BOOLEAN
    BY <1>4, SendDecisionType DEF TimerDecides
  <2> QED BY <1>4, <2>1, AuthStutter DEF TimerDecides, TimerGoto, authVars
<1>5. CASE TimerUnlocks
  BY <1>5, AuthStutter DEF TimerUnlocks, TimerGoto, authVars
<1> QED BY <1>1, <1>2, <1>3, <1>4, <1>5 DEF Timer, TimerThrows

\* main's steps up to the acquired token.
LEMMA AcquisitionKeepsIInv ==
    ASSUME IInv,
           \/ Boot \/ WaitOnline \/ CheckToken \/ GetNewJWToken
           \/ AcquireReturns \/ AcquireThrows \/ Probe \/ ReadBack
    PROVE  IInv'
<1> USE DEF IInv, TypeOK, LockInv, FlagInv, SentInv, ComposeInv, TokenInv
<1>1. CASE Boot
  <2>1. CASE Terminate
    BY <2>1, OtherThreadsKeepIInv
  <2>2. CASE ~Terminate
    BY <1>1, <2>2, AuthStutter DEF Boot, flagVars, clientVars, authVars
  <2> QED BY <2>1, <2>2
<1>2. CASE WaitOnline
  BY <1>2, AuthStutter DEF WaitOnline, Goto, flagVars, clientVars, authVars
<1>3. CASE CheckToken
  <2>1. CASE m_token = NoToken /\ Goto("checkToken", "acquire") /\ Auth!Call
    BY <1>3, <2>1, AuthTypeStep
    DEF CheckToken, Goto, flagVars, clientVars, Auth!Call, Auth!HeldTokenIsNewest
  <2>2. CASE m_token # NoToken /\ Goto("checkToken", "lock") /\ UNCHANGED authVars
    BY <1>3, <2>2, AuthStutter DEF CheckToken, Goto, flagVars, clientVars, authVars
  <2> QED BY <1>3, <2>1, <2>2 DEF CheckToken
\* The round is open while a call runs, so no token is held; the second login
\* is the one step that leaves the gateway with a token, and then the newest.
<1>4. CASE GetNewJWToken
  <2>1. authPc \in Auth!CallPcs
    BY <1>4 DEF GetNewJWToken, Auth!GetNewJWToken, Auth!RequestChallenge,
                Auth!Decrypt, Auth!Login1, Auth!Login2, Auth!CallPcs
  <2>2. Auth!TypeOK'
    BY <1>4, AuthTypeStep DEF GetNewJWToken
  <2>3. /\ m_token' # NoToken <=> authPc' = "true"
        /\ Auth!HeldTokenIsNewest'
    BY <1>4, <2>1, TokensAssumption
    DEF GetNewJWToken, Auth!GetNewJWToken, Auth!RequestChallenge, Auth!Decrypt,
        Auth!Login1, Auth!Login2, Auth!Grants, Auth!CallPcs, Auth!HeldTokenIsNewest
  <2> QED BY <1>4, <2>2, <2>3 DEF GetNewJWToken, flagVars, clientVars
<1>5. CASE AcquireReturns
  BY <1>5, AuthStutter DEF AcquireReturns, Goto, flagVars, clientVars, authVars
<1>6. CASE AcquireThrows
  BY <1>6, OtherThreadsKeepIInv DEF AcquireThrows
<1>7. CASE Probe
  BY <1>7, AuthStutter DEF Probe, Goto, flagVars, clientVars, authVars
<1>8. CASE ReadBack
  BY <1>8, AuthStutter DEF ReadBack, Goto, flagVars, clientVars, authVars
<1> QED BY <1>1, <1>2, <1>3, <1>4, <1>5, <1>6, <1>7, <1>8

\* main's steps from the lock to serving.
LEMMA OtaSectionKeepsIInv ==
    ASSUME IInv,
           \/ Lock \/ Decide \/ CheckoutReturns \/ CheckoutThrows \/ SkipUpdate
           \/ UpdateReturns \/ OpenCompose \/ WriteCompose \/ StartUpdate
           \/ SendThrows \/ Unlock
    PROVE  IInv'
<1> USE DEF IInv, TypeOK, LockInv, FlagInv, SentInv, ComposeInv, TokenInv
<1>1. CASE Lock
  BY <1>1, AuthStutter DEF Lock, Goto, flagVars, clientVars, authVars
<1>2. CASE Decide
  BY <1>2, AuthStutter DEF Decide, Goto, clientVars, authVars
<1>3. CASE CheckoutReturns
  BY <1>3, AuthStutter DEF CheckoutReturns, Goto, flagVars, clientVars, authVars
<1>4. CASE CheckoutThrows \/ SendThrows
  BY <1>4, OtherThreadsKeepIInv DEF CheckoutThrows, SendThrows
<1>5. CASE SkipUpdate
  <2>1. otaSent' \in Seq({"yes", "no"}) /\ sendFailed' \in BOOLEAN
    BY <1>5, SendDecisionType DEF SkipUpdate
  <2> QED BY <1>5, <2>1, AuthStutter DEF SkipUpdate, Goto, flagVars, authVars
<1>6. CASE UpdateReturns
  BY <1>6, AuthStutter DEF UpdateReturns, Goto, flagVars, clientVars, authVars
<1>7. CASE OpenCompose
  BY <1>7, AuthStutter DEF OpenCompose, Goto, flagVars, authVars, Ota!ComposeStates
<1>8. CASE WriteCompose
  BY <1>8, AuthStutter DEF WriteCompose, Goto, flagVars, authVars, Ota!ComposeStates
<1>9. CASE StartUpdate
  <2>1. otaSent' \in Seq({"yes", "no"}) /\ sendFailed' \in BOOLEAN
    BY <1>9, SendDecisionType DEF StartUpdate
  <2> QED BY <1>9, <2>1, AuthStutter DEF StartUpdate, Goto, flagVars, authVars
<1>10. CASE Unlock
  BY <1>10, AuthStutter DEF Unlock, Goto, flagVars, clientVars, authVars
<1> QED BY <1>1, <1>2, <1>3, <1>4, <1>5, <1>6, <1>7, <1>8, <1>9, <1>10

LEMMA StepIInv == IInv /\ [Next]_vars => IInv'
<1> SUFFICES ASSUME IInv, [Next]_vars PROVE IInv'
  OBVIOUS
<1>1. CASE UNCHANGED vars
  BY <1>1, AuthStutter
  DEF vars, authVars, flagVars, clientVars,
      IInv, TypeOK, LockInv, FlagInv, SentInv, ComposeInv, TokenInv
<1>2. CASE Next
  BY <1>2, OtherThreadsKeepIInv, AcquisitionKeepsIInv, OtaSectionKeepsIInv
  DEF Next, MainLocal, MainExchange
<1> QED BY <1>1, <1>2

\* The inductive invariant holds in every reachable state.
THEOREM Invariance == Spec => []IInv
  BY InitIInv, StepIInv, PTL DEF Spec

-----------------------------------------------------------------------------
(* What follows from it *)

\* Type correctness of the whole start-up (main.cpp:313-370).
THEOREM TypeCorrect == Spec => []TypeOK
<1>1. IInv => TypeOK
  BY DEF IInv
<1> QED BY <1>1, Invariance, PTL

\* A timed-out OTA procedure never runs, for every set of tokens: from FlagInv
\* (no procedure without OTAstarted) and ComposeInv (main.cpp:353-366).
THEOREM LateToken == Spec => []LateTokenNeverUpdates
<1>1. IInv => LateTokenNeverUpdates
  BY DEF IInv, FlagInv, ComposeInv, LateTokenNeverUpdates
<1> QED BY <1>1, Invariance, PTL

\* From the end of the acquisition on the gateway holds the backend's newest
\* token (main.cpp:297-310, Authenticator.hpp:123-137).
THEOREM NewestToken == Spec => []NewestTokenAfterAcquisition
<1>1. IInv => NewestTokenAfterAcquisition
  BY DEF IInv, TokenInv, Auth!HeldTokenIsNewest, NewestTokenAfterAcquisition
<1> QED BY <1>1, Invariance, PTL

\* The token is written once: while one is held, TokenInv puts getNewJWToken()
\* at its end, so no step writes m_token (Authenticator.hpp:137).
THEOREM TokenOnce == Spec => TokenAssignedOnce
<1>1. IInv /\ [Next]_vars => [m_token # NoToken => UNCHANGED m_token]_vars
  <2> SUFFICES ASSUME IInv, Next, m_token # NoToken PROVE UNCHANGED m_token
    OBVIOUS
  <2>1. authPc = "true"
    BY DEF IInv, TokenInv
  <2>2. ~GetNewJWToken
    BY <2>1 DEF GetNewJWToken, Auth!GetNewJWToken, Auth!RequestChallenge,
                Auth!Decrypt, Auth!Login1, Auth!Login2
  <2>3. CASE IeProbe \/ Timer
    BY <2>3 DEF IeProbe, Timer, TimerExpires, TimerDecides, TimerThrows, TimerUnlocks,
                TimerGoto, Terminate, authVars
  <2>4. CASE MainLocal
    BY <2>4 DEF MainLocal, Boot, WaitOnline, CheckToken, AcquireReturns, AcquireThrows,
                Probe, ReadBack, Lock, Decide, SkipUpdate, OpenCompose, WriteCompose,
                StartUpdate, SendThrows, Unlock, Terminate, authVars, Auth!Call
  <2>5. CASE CheckoutReturns \/ CheckoutThrows \/ UpdateReturns
    BY <2>5 DEF CheckoutReturns, CheckoutThrows, UpdateReturns, Terminate, authVars
  <2> QED BY <2>2, <2>3, <2>4, <2>5 DEF Next, MainExchange
<1> QED BY <1>1, Invariance, PTL DEF Spec, TokenAssignedOnce

-----------------------------------------------------------------------------
(* The start-up keeps the promise of OtaDecision *)

\* The decision is sent from the points at which the client may be told: IInv says
\* that nothing was sent before and where the compose file stands.  A send that
\* fails changes nothing the client can see.
LEMMA StepKeepsPromise == IInv /\ [Next]_vars => [Ota!Next]_(Ota!vars)
<1> SUFFICES ASSUME IInv, Next PROVE Ota!Next \/ UNCHANGED <<otaSent, composeFile>>
  BY DEF Ota!vars, vars, clientVars
<1> USE DEF IInv, LockInv, FlagInv, SentInv, ComposeInv, clientVars
<1>1. CASE SkipUpdate
  <2>1. otaSent = <<>> /\ composeFile = "old"
    BY <1>1 DEF SkipUpdate, Goto
  <2> QED BY <1>1, <2>1, SendDecisionType
      DEF SkipUpdate, TypeOK, Ota!Next, Ota!Skip
<1>2. CASE StartUpdate
  <2>1. otaSent = <<>> /\ composeFile # "open"
    BY <1>2 DEF StartUpdate, Goto
  <2> QED BY <1>2, <2>1, SendDecisionType
      DEF StartUpdate, TypeOK, Ota!Next, Ota!Start
<1>3. CASE OpenCompose \/ WriteCompose
  <2>1. otaSent = <<>>
    BY <1>3 DEF OpenCompose, WriteCompose, Goto
  <2> QED BY <1>3, <2>1 DEF OpenCompose, WriteCompose, Goto, Ota!Next, Ota!Stage
<1>4. CASE TimerDecides
  <2>1. CASE OTAstarted
    BY <1>4, <2>1 DEF TimerDecides, TimerGoto
  <2>2. CASE ~OTAstarted
    <3>1. otaSent = <<>> /\ composeFile = "old"
      BY <1>4, <2>2 DEF TimerDecides, TimerGoto
    <3> QED BY <1>4, <2>2, <3>1, SendDecisionType
        DEF TimerDecides, TimerGoto, TypeOK, Ota!Next, Ota!Skip
  <2> QED BY <2>1, <2>2
<1>5. CASE IeProbe \/ TimerExpires \/ TimerThrows \/ TimerUnlocks
  BY <1>5 DEF IeProbe, TimerExpires, TimerThrows, TimerUnlocks, TimerGoto, Terminate
<1>6. CASE MainLocal /\ ~SkipUpdate /\ ~StartUpdate /\ ~OpenCompose /\ ~WriteCompose
  BY <1>6 DEF MainLocal, Boot, WaitOnline, CheckToken, AcquireReturns, AcquireThrows,
              Probe, ReadBack, Lock, Decide, SendThrows, Unlock, Terminate
<1>7. CASE MainExchange
  BY <1>7 DEF MainExchange, GetNewJWToken, CheckoutReturns, CheckoutThrows,
              UpdateReturns, Terminate
<1> QED BY <1>1, <1>2, <1>3, <1>4, <1>5, <1>6, <1>7 DEF Next, Timer

\* One decision at most, "no" over an untouched file, "yes" over a closed one,
\* nothing after it: the start-up implements OtaDecision (main.cpp:349-368).
THEOREM PromiseKept == Spec => OtaPromise
<1>1. Init => Ota!Init
  BY DEF Init
<1> QED BY <1>1, Invariance, StepKeepsPromise, PTL DEF Spec, OtaPromise, Ota!Spec
=============================================================================

-------------------------- MODULE TokenStorage_proofs --------------------------
(***************************************************************************)
(* Machine-checked proofs about TokenStorage and the Authenticator in it,  *)
(* for every set of tokens the backend may grant and any sequence of       *)
(* acquisitions, stores, reads and restarts: which token is held, which    *)
(* solution is presented, and where a token can come from.                 *)
(***************************************************************************)
EXTENDS TokenStorage, TLAPS

USE DEF Auth!CallPcs, Auth!ReturnPcs, Auth!ChallengeAges, Auth!SolutionAges,
        Auth!roundVars

(***************************************************************************)
(* An acquisition                                                          *)
(***************************************************************************)

\* Nothing that ages is of this round afterwards, and it stays a kind of file.
LEMMA AgedIsNotCurrent ==
    /\ \A age \in Auth!ChallengeAges : Auth!Aged(age) \in Auth!ChallengeAges \ {"current"}
    /\ \A age \in Auth!SolutionAges : Auth!Aged(age) \in Auth!SolutionAges \ {"current"}
  BY DEF Auth!Aged

\* The backend grants tokens only, so a grant that is not used leaves the
\* newest one a token or none.
LEMMA UnusedGrantType ==
    ASSUME lastGranted \in Tokens \cup {NoToken}, Auth!UnusedGrant
    PROVE  lastGranted' \in Tokens \cup {NoToken}
  BY DEF Auth!UnusedGrant, Auth!Grants

LEMMA AcquisitionInit == Auth!Init => Auth!IInv
  BY DEF Auth!Init, Auth!IInv, Auth!TypeOK, Auth!TokenInv, Auth!HeldTokenIsNewest,
         Auth!RoundInv, Auth!SolutionFreshUnlessFaulted

LEMMA AcquisitionKeepsIInv == Auth!IInv /\ [Auth!Next]_(Auth!vars) => Auth!IInv'
<1> SUFFICES ASSUME Auth!IInv, [Auth!Next]_(Auth!vars) PROVE Auth!IInv'
  OBVIOUS
<1> USE DEF Auth!IInv, Auth!TypeOK, Auth!TokenInv, Auth!HeldTokenIsNewest,
            Auth!RoundInv, Auth!SolutionFreshUnlessFaulted
<1>1. CASE Auth!Call
  BY <1>1 DEF Auth!Call
\* A new challenge: what is on the disk is now of an earlier round.
<1>2. CASE Auth!RequestChallenge
  <2>1. CASE authPc' = "false" /\ UNCHANGED Auth!roundVars
    BY <1>2, <2>1 DEF Auth!RequestChallenge
  <2>2. CASE /\ authPc' = "decrypt"
             /\ challengeFile' \in {"current", "junk", Auth!Aged(challengeFile)}
             /\ decryptedFile' = Auth!Aged(decryptedFile)
             /\ faulted' = (challengeFile' # "current")
    BY <1>2, <2>2, AgedIsNotCurrent DEF Auth!RequestChallenge
  <2> QED BY <1>2, <2>1, <2>2 DEF Auth!RequestChallenge
\* openssl makes a solution of the challenge that is there, or fails.
<1>3. CASE Auth!Decrypt
  <2>1. CASE /\ challengeFile \in {"current", "stale"}
             /\ decryptedFile' = challengeFile
             /\ UNCHANGED faulted
    <3>1. decryptedFile' = "current" <=> ~faulted'
      BY <1>3, <2>1 DEF Auth!Decrypt
    <3> QED BY <1>3, <2>1, <3>1 DEF Auth!Decrypt
  <2>2. CASE decryptedFile' \in {decryptedFile, "none"} /\ faulted' = TRUE
    BY <1>3, <2>2 DEF Auth!Decrypt
  <2> QED BY <1>3, <2>1, <2>2 DEF Auth!Decrypt
<1>4. CASE Auth!Login1
  BY <1>4, UnusedGrantType DEF Auth!Login1
\* The one step after which a token is held, and it is the newest one.
<1>5. CASE Auth!Login2
  <2>1. CASE authPc' \in {"threw", "false"} /\ Auth!UnusedGrant /\ UNCHANGED m_token
    BY <1>5, <2>1, UnusedGrantType DEF Auth!Login2
  <2>2. CASE \E token \in Auth!Grants : /\ m_token' = token
                                        /\ lastGranted' = token
                                        /\ authPc' = "true"
    BY <1>5, <2>2, StorageAssumption DEF Auth!Login2, Auth!Grants
  <2> QED BY <1>5, <2>1, <2>2 DEF Auth!Login2
<1>6. CASE UNCHANGED Auth!vars
  BY <1>6 DEF Auth!vars
<1> QED BY <1>1, <1>2, <1>3, <1>4, <1>5, <1>6 DEF Auth!Next, Auth!GetNewJWToken

-----------------------------------------------------------------------------
(* Acquisitions, the storage functions and restarts *)

LEMMA InitIInv == Init => IInv
  BY AcquisitionInit, StorageAssumption
  DEF Init, Auth!Init, IInv, TypeOK, StorageNeverCarriesAToken, Auth!IInv

LEMMA StepIInv == IInv /\ [Next]_vars => IInv'
<1> SUFFICES ASSUME IInv, [Next]_vars PROVE IInv'
  OBVIOUS
<1> USE StorageAssumption DEF IInv, TypeOK, StorageNeverCarriesAToken
<1>1. CASE Acquire
  BY <1>1, AcquisitionKeepsIInv DEF Acquire, Auth!IInv
\* The storage functions and an idle step leave the acquisition as it is.
<1>2. CASE StoreToken \/ ReadToken \/ UNCHANGED vars
  <2>1. Auth!IInv'
    BY <1>2, AcquisitionKeepsIInv DEF StoreToken, ReadToken, vars, authVars, Auth!vars
  <2> QED BY <1>2, <2>1 DEF StoreToken, ReadToken, vars, Auth!IInv
\* A restart forgets the members and the running call, and keeps the files.
<1>3. CASE Restart
  <2>1. Auth!IInv'
    BY <1>3 DEF Restart, Auth!IInv, Auth!TypeOK, Auth!TokenInv,
                Auth!HeldTokenIsNewest, Auth!RoundInv,
                Auth!SolutionFreshUnlessFaulted
  <2> QED BY <1>3, <2>1 DEF Restart, Auth!IInv
<1> QED BY <1>1, <1>2, <1>3 DEF Next

\* The inductive invariant holds in every reachable state.
THEOREM Invariance == Spec => []IInv
  BY InitIInv, StepIInv, PTL DEF Spec

-----------------------------------------------------------------------------
(* What follows from it *)

\* Types of the members and of the files (Authenticator.hpp:30-175).
THEOREM TypeCorrect == Spec => []TypeOK
<1>1. IInv => TypeOK
  BY DEF IInv
<1> QED BY <1>1, Invariance, PTL

\* Whatever the first login, a lost reply or an earlier process was granted, a
\* token that is held is the newest one granted (Authenticator.hpp:123-137).
THEOREM HeldTokenNewest == Spec => []HeldTokenIsNewest
<1>1. IInv => HeldTokenIsNewest
  BY DEF IInv, Auth!IInv, Auth!TokenInv, HeldTokenIsNewest
<1> QED BY <1>1, Invariance, PTL

\* No ignored failure is repaired by a later step and, without one, no file of
\* an earlier round or process is presented (Authenticator.hpp:43-46, 66-79).
THEOREM SolutionFresh == Spec => []SolutionFreshUnlessFaulted
<1>1. IInv => SolutionFreshUnlessFaulted
  BY DEF IInv, Auth!IInv, Auth!RoundInv, SolutionFreshUnlessFaulted
<1> QED BY <1>1, Invariance, PTL

\* The member and the file the storage functions use are filled from each
\* other only, so they never hold a token (Authenticator.hpp:146-175).
THEOREM StorageHasNoToken == Spec => []StorageNeverCarriesAToken
<1>1. IInv => StorageNeverCarriesAToken
  BY DEF IInv
<1> QED BY <1>1, Invariance, PTL

\* m_token is changed to a token by the second login alone, and the backend
\* grants one only for the current solution, which by RoundInv means that no
\* step of the round failed (Authenticator.hpp:125-137, 195-198).
THEOREM OnlyFromLogin == Spec => TokenOnlyFromLogin
<1>1. IInv /\ [Next]_vars =>
          [m_token' \notin {m_token, NoToken} => authPc = "login2" /\ ~faulted]_vars
  <2> SUFFICES ASSUME IInv, Next, m_token' \notin {m_token, NoToken}
               PROVE  authPc = "login2" /\ ~faulted
    OBVIOUS
  <2>1. Auth!Login2
    BY DEF Next, Acquire, StoreToken, ReadToken, Restart, authVars, Auth!Next,
           Auth!Call, Auth!GetNewJWToken, Auth!RequestChallenge, Auth!Decrypt,
           Auth!Login1
  <2>2. Auth!Grants # {}
    BY <2>1 DEF Auth!Login2
  <2>3. decryptedFile = "current" /\ authPc = "login2"
    BY <2>1, <2>2 DEF Auth!Grants, Auth!Login2
  <2> QED BY <2>3 DEF IInv, Auth!IInv, Auth!RoundInv, Auth!SolutionFreshUnlessFaulted
<1> QED BY <1>1, Invariance, PTL DEF Spec, TokenOnlyFromLogin
=============================================================================

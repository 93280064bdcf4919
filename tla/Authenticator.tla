---------------------------- MODULE Authenticator ----------------------------
(***************************************************************************)
(* The Authenticator singleton (src/Authenticator.hpp): how the gateway    *)
(* obtains its JWT.  TokenStorage adds the functions that store it.        *)
(*                                                                         *)
(* One acquisition, getNewJWToken(), is a chain of blocking calls that     *)
(* hand their results over through files in the working directory:         *)
(*                                                                         *)
(*   requestChallenge   POST /challenge           -> challenge.bin         *)
(*   decryptChallenge   openssl, exit code unused -> decrypted_data.bin    *)
(*   first login        asked only whether it has a value                  *)
(*   second login       the same call again, whose reply is parsed         *)
(*                                                                         *)
(* Each blocking call is one action: it begins when authPc reaches it and  *)
(* its action is its return.  No fairness is ever assumed of a reply: the  *)
(* HTTP client sets no timeout.                                            *)
(***************************************************************************)

CONSTANTS
    Tokens,   \* the non-empty token strings the backend may grant
    NoToken   \* the empty string, m_token before the first grant; never granted

VARIABLES
    authPc,         \* where getNewJWToken() is, or how the last call ended
    m_token,        \* the token getToken() returns
    challengeFile,  \* which challenge ./challenge.bin holds
    decryptedFile,  \* the solution of which challenge ./decrypted_data.bin holds
    faulted,        \* has a step of this round failed unnoticed
    lastGranted     \* the backend's most recently granted token

roundVars == <<challengeFile, decryptedFile, faulted>>
vars      == <<authPc, m_token, roundVars, lastGranted>>

\* "true", "false" and "threw" are the three ways out of getNewJWToken().
CallPcs   == {"challenge", "decrypt", "login1", "login2"}
ReturnPcs == {"idle", "true", "false", "threw"}

\* "current" is the challenge of this round, "stale" one of an earlier round,
\* "junk" a body that is no challenge (an error page arrives with CURLE_OK
\* too) or was written in part, "none" an absent or empty file.
ChallengeAges == {"none", "stale", "current", "junk"}
SolutionAges  == {"none", "stale", "current"}

TypeOK ==
    /\ authPc \in CallPcs \cup ReturnPcs
    /\ m_token \in Tokens \cup {NoToken}
    /\ challengeFile \in ChallengeAges
    /\ decryptedFile \in SolutionAges
    /\ faulted \in BOOLEAN
    /\ lastGranted \in Tokens \cup {NoToken}

Init ==
    /\ authPc = "idle"
    /\ m_token = NoToken
    /\ challengeFile = "none"
    /\ decryptedFile = "none"
    /\ faulted = FALSE
    /\ lastGranted = NoToken

-----------------------------------------------------------------------------
(* getNewJWToken() *)

Call ==
    /\ authPc \in {"idle", "false"}
    /\ authPc' = "challenge"
    /\ UNCHANGED <<m_token, roundVars, lastGranted>>

\* A file that was of this round is of an earlier one when a new challenge comes.
Aged(age) == IF age = "current" THEN "stale" ELSE age

\* Mutated form: the challenge is not decrypted before the login.
RequestChallengeSkipsDecrypt ==
    /\ authPc = "challenge"
    /\ authPc' = "login1"
    /\ challengeFile' = "current"
    /\ decryptedFile' = Aged(decryptedFile)
    /\ faulted' = FALSE
    /\ UNCHANGED <<m_token, lastGranted>>

\* An unopenable challenge.bin is logged and otherwise ignored: the old
\* contents stay and the function still returns true.
RequestChallenge ==
    /\ authPc = "challenge"
    /\ \/ /\ authPc' = "false"
          /\ UNCHANGED roundVars
       \/ /\ authPc' = "decrypt"
          /\ challengeFile' \in {"current", "junk", Aged(challengeFile)}
          /\ decryptedFile' = Aged(decryptedFile)
          /\ faulted' = (challengeFile' # "current")
    /\ UNCHANGED <<m_token, lastGranted>>

\* openssl either decrypts whatever challenge.bin holds, or fails and leaves
\* the output as it was or truncated.  Nothing looks at its exit code.
Decrypt ==
    /\ authPc = "decrypt"
    /\ authPc' = "login1"
    /\ \/ /\ challengeFile \in {"current", "stale"}
          /\ decryptedFile' = challengeFile
          /\ UNCHANGED faulted
       \/ /\ decryptedFile' \in {decryptedFile, "none"}
          /\ faulted' = TRUE
    /\ UNCHANGED <<m_token, challengeFile, lastGranted>>

\* What the backend may do on a login: grant a token when the solution is that
\* of its current challenge; and it may always decline.
Grants == IF decryptedFile = "current" THEN Tokens ELSE {}

\* The grant of a login whose reply is not used: lost, declined by the
\* gateway, or read by has_value() only.
UnusedGrant == lastGranted' \in {lastGranted} \cup Grants

\* Mutated form: the first login's token is kept too.
Login1KeepsToken ==
    /\ authPc = "login1"
    /\ \E token \in Grants : m_token' = token /\ lastGranted' = token
    /\ authPc' = "login2"
    /\ UNCHANGED roundVars

\* The first login is discarded whatever its reply says.
Login1 ==
    /\ authPc = "login1"
    /\ authPc' \in {"false", "login2"}
    /\ UnusedGrant
    /\ UNCHANGED <<m_token, roundVars>>

\* Mutated form: the second login is sent, but the first one's token is kept.
Login2KeepsFirst ==
    /\ authPc = "login2"
    /\ lastGranted \in Tokens
    /\ m_token' = lastGranted
    /\ UnusedGrant
    /\ authPc' = "true"
    /\ UNCHANGED roundVars

\* The second login: a failed send makes value() throw, an unparsable reply or
\* a token that is no string throws too, a reply without token or expiration
\* is declined, and anything else is kept.
Login2 ==
    /\ authPc = "login2"
    /\ \/ /\ authPc' \in {"threw", "false"}
          /\ UnusedGrant
          /\ UNCHANGED m_token
       \/ \E token \in Grants :
             /\ m_token' = token
             /\ lastGranted' = token
             /\ authPc' = "true"
    /\ UNCHANGED roundVars

GetNewJWToken == RequestChallenge \/ Decrypt \/ Login1 \/ Login2

-----------------------------------------------------------------------------

\* The only caller asks for a token while it holds none (main.cpp:297).
Next ==
    \/ m_token = NoToken /\ Call
    \/ GetNewJWToken

Spec == Init /\ [][Next]_vars

-----------------------------------------------------------------------------
(* Properties *)

\* getNewJWToken() logs in twice and keeps the second reply: a token that is
\* held is always the last one the backend granted, so a backend that honours
\* only its newest grant accepts it (Authenticator.hpp:123-137).
HeldTokenIsNewest == m_token # NoToken => m_token = lastGranted

\* What a login presents is the solution of this round's challenge exactly when
\* no step failed unnoticed: an ignored error page, open or openssl failure is
\* never repaired by a later step, and without one no leftover file is ever
\* presented (Authenticator.hpp:66-79, 43-46).
SolutionFreshUnlessFaulted ==
    authPc \in {"login1", "login2"} => (decryptedFile = "current" <=> ~faulted)

-----------------------------------------------------------------------------
(* The inductive invariant of the proofs, in parts *)

\* A token is held exactly when the last call returned true, and then the newest.
TokenInv ==
    /\ m_token # NoToken <=> authPc = "true"
    /\ HeldTokenIsNewest

\* Before openssl runs, no solution is of this round, and only a round whose
\* challenge arrived whole can still succeed; after it, a solution of this
\* round is what a round without failures has.
RoundInv ==
    /\ authPc = "decrypt" => /\ decryptedFile # "current"
                             /\ challengeFile = "current" <=> ~faulted
    /\ SolutionFreshUnlessFaulted

IInv == TypeOK /\ TokenInv /\ RoundInv

=============================================================================

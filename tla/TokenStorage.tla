----------------------------- MODULE TokenStorage -----------------------------
(***************************************************************************)
(* storeToken() and readToken() of the Authenticator, the file they keep   *)
(* the token in, and the restarts the file is there for.  The program      *)
(* calls neither function yet; this is what the class does for a caller    *)
(* that uses them between acquisitions.  checkTokenValidity(), the third   *)
(* such function, sends m_jwtToken, changes nothing and always returns     *)
(* true: it has no action.                                                 *)
(***************************************************************************)

CONSTANTS
    Tokens, NoToken,
    NoFile            \* stands for the absence of jwt_token_storage.bin

\* The backend never grants the empty string as a token.
ASSUME StorageAssumption ==
    /\ NoToken \notin Tokens
    /\ NoFile \notin Tokens \cup {NoToken}

VARIABLES
    authPc, m_token, challengeFile, decryptedFile, faulted, lastGranted,
    m_jwtToken,   \* the member the storage functions use
    tokenFile     \* contents of ./jwt_token_storage.bin

Auth == INSTANCE Authenticator

authVars == <<authPc, m_token, challengeFile, decryptedFile, faulted, lastGranted>>
vars     == <<authVars, m_jwtToken, tokenFile>>

TypeOK ==
    /\ Auth!TypeOK
    /\ m_jwtToken \in Tokens \cup {NoToken}
    /\ tokenFile \in Tokens \cup {NoToken, NoFile}

Init ==
    /\ Auth!Init
    /\ m_jwtToken = NoToken
    /\ tokenFile = NoFile

\* No acquisition is running: the functions are called from one thread.
Callable == authPc \in {"idle", "true", "false"}

Acquire == Auth!Next /\ UNCHANGED <<m_jwtToken, tokenFile>>

\* Mutated form: the token in use is stored.
StoreTokenInUse ==
    /\ Callable
    /\ tokenFile' = m_token
    /\ UNCHANGED <<authVars, m_jwtToken>>

\* Opening truncates; a write that fails is not noticed and leaves the file empty.
StoreToken ==
    /\ Callable
    /\ tokenFile' \in {m_jwtToken, NoToken}
    /\ UNCHANGED <<authVars, m_jwtToken>>

\* The first line of the file; a file that cannot be opened changes nothing.
ReadToken ==
    /\ Callable
    /\ tokenFile # NoFile
    /\ m_jwtToken' = tokenFile
    /\ UNCHANGED <<authVars, tokenFile>>

\* A new process on the same directory: members are empty, files remain.
Restart ==
    /\ authPc' = "idle"
    /\ m_token' = NoToken
    /\ m_jwtToken' = NoToken
    /\ UNCHANGED <<challengeFile, decryptedFile, faulted, lastGranted, tokenFile>>

Next == Acquire \/ StoreToken \/ ReadToken \/ Restart

Spec == Init /\ [][Next]_vars

-----------------------------------------------------------------------------
(* Properties *)

\* Whatever is stored, read and restarted between the acquisitions, a token that
\* is held is the last one the backend granted, so a backend that honours only
\* its newest grant accepts it: getNewJWToken() logs in twice and keeps the second
\* reply (Authenticator.hpp:123-137).
HeldTokenIsNewest == Auth!HeldTokenIsNewest

\* What a login presents is the solution of this round's challenge exactly when no
\* step failed unnoticed: an ignored error page, open or openssl failure is never
\* repaired by a later step, and without one no file is presented that an earlier
\* round or an earlier process left behind (Authenticator.hpp:66-79, 43-46).
SolutionFreshUnlessFaulted == Auth!SolutionFreshUnlessFaulted

\* The storage functions save and restore m_jwtToken, which no acquisition ever
\* fills: whatever is acquired, stored, read and restarted, no token is ever in
\* the file or restored from it (Authenticator.hpp:146-175 against 137).
StorageNeverCarriesAToken == {tokenFile, m_jwtToken} \cap Tokens = {}

\* So a token reaches getToken() only from a login that presented the current
\* challenge's solution, in this process: neither a stored nor an earlier token
\* ever comes back (Authenticator.hpp:125-137, 195-198).
TokenOnlyFromLogin ==
    [][m_token' \notin {m_token, NoToken} => authPc = "login2" /\ ~faulted]_vars

-----------------------------------------------------------------------------
(* The inductive invariant of the proofs: the acquisition's own, which calls  *)
(* of the storage functions and restarts leave intact, and an empty storage.  *)

IInv == TypeOK /\ Auth!IInv /\ StorageNeverCarriesAToken

=============================================================================

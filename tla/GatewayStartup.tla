---------------------------- MODULE GatewayStartup ----------------------------
(***************************************************************************)
(* From main() to the first served request (src/main.cpp).  Three threads: *)
(*                                                                         *)
(*   ie_thread   pings forever and publishes internetConnectionState       *)
(*   OTAtimer    sleeps 20 s, then sends "no" if the OTA procedure has not *)
(*               begun                                                     *)
(*   main        waits to be online, acquires the token, runs the OTA      *)
(*               procedure unless the timer was first, serves              *)
(*                                                                         *)
(* main and OTAtimer share OTAstarted and OTAtimeOut under otaMtx, which   *)
(* main holds across both HTTP exchanges of the procedure.  ie_thread and  *)
(* main both write internetConnectionState, with no lock between the write *)
(* and the read back.                                                      *)
(*                                                                         *)
(* An HTTP exchange is one action, its return; sleeps are the time a pc    *)
(* may rest.  An exception nobody catches, in any thread, ends the process *)
(* (alive = FALSE) and freezes everything else.                            *)
(***************************************************************************)
EXTENDS Sequences

CONSTANTS Tokens, NoToken

\* As in Authenticator: the empty string is never granted.
ASSUME TokensAssumption == NoToken \notin Tokens

VARIABLES
    mainPc,                   \* program point of main
    timerPc,                  \* program point of OTAtimer
    alive,                    \* FALSE once std::terminate has run
    internetConnectionState,  \* the atomic<bool> of InternetConnectivity
    otaMtx,                   \* who holds otaMtx
    OTAstarted,
    OTAtimeOut,
    otaSent,                  \* datagrams sent to the OTA client
    sendFailed,               \* history: a decision was made whose send failed
    composeFile,              \* /composefiles/docker-compose.yaml
    authPc, m_token, challengeFile, decryptedFile, faulted, lastGranted

Auth == INSTANCE Authenticator WITH Tokens <- Tokens, NoToken <- NoToken

\* The abstract specification this one implements (OtaPromise).
Ota == INSTANCE OtaDecision WITH otaSent <- otaSent, composeFile <- composeFile

authVars  == <<authPc, m_token, challengeFile, decryptedFile, faulted, lastGranted>>
flagVars  == <<OTAstarted, OTAtimeOut>>
clientVars == <<otaSent, sendFailed, composeFile>>
vars == <<mainPc, timerPc, alive, internetConnectionState, otaMtx, flagVars,
          clientVars, authVars>>

BootPcs    == {"boot"}
AcquirePcs == {"waitOnline", "checkToken", "acquire", "probe", "readBack"}
\* startOTAProcedure(), entered and left with otaMtx held.
ExchangePcs  == {"checkout", "update"}
ProcedurePcs == ExchangePcs \cup {"skip", "open", "write", "start"}
CriticalPcs  == ProcedurePcs \cup {"decide", "unlock"}
\* Points main reaches only after RequestJWTokenWaitTillAcquired().
AcquiredPcs  == CriticalPcs \cup {"lock", "serving"}
MainPcs  == BootPcs \cup AcquirePcs \cup AcquiredPcs
TimerPcs == {"unborn", "sleeping", "decide", "unlock", "done"}

TypeOK ==
    /\ mainPc \in MainPcs
    /\ timerPc \in TimerPcs
    /\ alive \in BOOLEAN
    /\ internetConnectionState \in BOOLEAN
    /\ otaMtx \in {"free", "main", "timer"}
    /\ OTAstarted \in BOOLEAN
    /\ OTAtimeOut \in BOOLEAN
    /\ otaSent \in Seq({"yes", "no"})
    /\ sendFailed \in BOOLEAN
    /\ composeFile \in Ota!ComposeStates
    /\ Auth!TypeOK

Init ==
    /\ mainPc = "boot"
    /\ timerPc = "unborn"
    /\ alive = TRUE
    /\ internetConnectionState = FALSE
    /\ otaMtx = "free"
    /\ OTAstarted = FALSE
    /\ OTAtimeOut = FALSE
    /\ Ota!Init
    /\ sendFailed = FALSE
    /\ Auth!Init

-----------------------------------------------------------------------------
(* Steps common to the threads *)

\* main moves on; its local steps touch neither the timer nor the process.
Goto(from, to) ==
    /\ mainPc = from
    /\ mainPc' = to
    /\ UNCHANGED <<timerPc, alive>>

\* std::terminate: an exception leaves a thread, or main returns while the
\* std::threads it declared are joinable.
Terminate ==
    /\ alive' = FALSE
    /\ UNCHANGED <<mainPc, timerPc, internetConnectionState, otaMtx, flagVars,
                   clientVars, authVars>>

\* skipUpdate() and startUpdate(): send_to() puts its error into err, which nobody
\* looks at, and then no datagram was sent.
SendDecision(decision) ==
    \/ otaSent' = Append(otaSent, decision) /\ UNCHANGED sendFailed
    \/ sendFailed' = TRUE /\ UNCHANGED otaSent

-----------------------------------------------------------------------------
(* ie_thread *)

\* checkInternetConnection() by ie_thread: the result is published; the value
\* it returns is only printed.
IeProbe ==
    /\ internetConnectionState' \in BOOLEAN
    /\ UNCHANGED <<mainPc, timerPc, alive, otaMtx, flagVars, clientVars, authVars>>

-----------------------------------------------------------------------------
(* main: boot and RequestJWTokenWaitTillAcquired() *)

\* app->init() succeeds and OTAtimer is started, or main returns -1 with
\* ie_thread joinable.
Boot ==
    /\ mainPc = "boot"
    /\ \/ /\ mainPc' = "waitOnline"
          /\ timerPc' = "sleeping"
          /\ UNCHANGED <<alive, internetConnectionState, otaMtx, flagVars,
                         clientVars, authVars>>
       \/ Terminate

WaitOnline ==
    /\ internetConnectionState
    /\ Goto("waitOnline", "checkToken")
    /\ UNCHANGED <<internetConnectionState, otaMtx, flagVars, clientVars, authVars>>

\* The loop condition getToken() == "".
CheckToken ==
    /\ \/ m_token = NoToken /\ Goto("checkToken", "acquire") /\ Auth!Call
       \/ m_token # NoToken /\ Goto("checkToken", "lock") /\ UNCHANGED authVars
    /\ UNCHANGED <<internetConnectionState, otaMtx, flagVars, clientVars>>

GetNewJWToken ==
    /\ mainPc = "acquire"
    /\ Auth!GetNewJWToken
    /\ UNCHANGED <<mainPc, timerPc, alive, internetConnectionState, otaMtx,
                   flagVars, clientVars>>

\* Mutated form: a refused token is taken for an acquired one.
AcquireReturnsRegardless ==
    /\ authPc \in {"true", "false"} /\ Goto("acquire", "lock")
    /\ UNCHANGED <<internetConnectionState, otaMtx, flagVars, clientVars, authVars>>

AcquireReturns ==
    /\ \/ authPc = "true" /\ Goto("acquire", "lock")
       \/ authPc = "false" /\ Goto("acquire", "probe")
    /\ UNCHANGED <<internetConnectionState, otaMtx, flagVars, clientVars, authVars>>

AcquireThrows == mainPc = "acquire" /\ authPc = "threw" /\ Terminate

\* checkInternetConnection() by main: the result is published ...
Probe ==
    /\ Goto("probe", "readBack")
    /\ internetConnectionState' \in BOOLEAN
    /\ UNCHANGED <<otaMtx, flagVars, clientVars, authVars>>

\* ... and what is returned is read back, after ie_thread may have overwritten it.
ReadBack ==
    /\ Goto("readBack", IF internetConnectionState THEN "checkToken" ELSE "probe")
    /\ UNCHANGED <<internetConnectionState, otaMtx, flagVars, clientVars, authVars>>

-----------------------------------------------------------------------------
(* main: the OTA section *)

Lock ==
    /\ otaMtx = "free"
    /\ otaMtx' = "main"
    /\ Goto("lock", "decide")
    /\ UNCHANGED <<internetConnectionState, flagVars, clientVars, authVars>>

\* Mutated forms: OTAtimeOut is not looked at; OTAstarted is not set.
DecideIgnoresTimeOut ==
    /\ Goto("decide", "checkout")
    /\ OTAstarted' = TRUE
    /\ UNCHANGED <<internetConnectionState, otaMtx, OTAtimeOut, clientVars, authVars>>

DecideWithoutMark ==
    /\ Goto("decide", IF OTAtimeOut THEN "unlock" ELSE "checkout")
    /\ UNCHANGED <<internetConnectionState, otaMtx, flagVars, clientVars, authVars>>

Decide ==
    /\ Goto("decide", IF OTAtimeOut THEN "unlock" ELSE "checkout")
    /\ OTAstarted' = ~OTAtimeOut
    /\ UNCHANGED <<internetConnectionState, otaMtx, OTAtimeOut, clientVars, authVars>>

\* POST /checkout: a failed send and a reply without "update" end the procedure
\* with no word to the OTA client; false skips; any other value updates.
CheckoutReturns ==
    /\ \E outcome \in {"unlock", "skip", "update"} : Goto("checkout", outcome)
    /\ UNCHANGED <<internetConnectionState, otaMtx, flagVars, clientVars, authVars>>

\* The /checkout reply is no JSON text.
CheckoutThrows == mainPc = "checkout" /\ Terminate

SkipUpdate ==
    /\ Goto("skip", "unlock")
    /\ SendDecision("no")
    /\ UNCHANGED <<internetConnectionState, otaMtx, flagVars, composeFile, authVars>>

\* POST /update: the body is the new compose file, whatever the HTTP status.
UpdateReturns ==
    /\ \E outcome \in {"unlock", "open"} : Goto("update", outcome)
    /\ UNCHANGED <<internetConnectionState, otaMtx, flagVars, clientVars, authVars>>

\* Mutated form: the update is started as soon as the file is open.
OpenComposeAndStart ==
    /\ Goto("open", "start")
    /\ composeFile' = "open"
    /\ UNCHANGED <<internetConnectionState, otaMtx, flagVars, otaSent, sendFailed,
                   authVars>>

\* Opening truncates the file; failing to open is logged and the update started.
OpenCompose ==
    /\ \/ Goto("open", "write") /\ composeFile' = "open"
       \/ Goto("open", "start") /\ UNCHANGED composeFile
    /\ UNCHANGED <<internetConnectionState, otaMtx, flagVars, otaSent, sendFailed,
                   authVars>>

\* Written and closed; the stream's state is not looked at.
WriteCompose ==
    /\ Goto("write", "start")
    /\ composeFile' \in {"new", "partial"}
    /\ UNCHANGED <<internetConnectionState, otaMtx, flagVars, otaSent, sendFailed,
                   authVars>>

StartUpdate ==
    /\ Goto("start", "unlock")
    /\ SendDecision("yes")
    /\ UNCHANGED <<internetConnectionState, otaMtx, flagVars, composeFile, authVars>>

\* socket.open() of skipUpdate() and startUpdate() throws when it fails.
SendThrows == mainPc \in {"skip", "start"} /\ Terminate

\* The lock's scope ends and vsomeService.start() blocks for good.
Unlock ==
    /\ otaMtx' = "free"
    /\ Goto("unlock", "serving")
    /\ UNCHANGED <<internetConnectionState, flagVars, clientVars, authVars>>

-----------------------------------------------------------------------------
(* OTAtimer *)

TimerGoto(from, to) ==
    /\ timerPc = from
    /\ timerPc' = to
    /\ UNCHANGED <<mainPc, alive, internetConnectionState, OTAstarted, composeFile,
                   authVars>>

\* The sleep is over and the lock is taken; OTAtimeOut is written under it.
TimerExpires ==
    /\ otaMtx = "free"
    /\ otaMtx' = "timer"
    /\ OTAtimeOut' = TRUE
    /\ TimerGoto("sleeping", "decide")
    /\ UNCHANGED <<otaSent, sendFailed>>

\* Mutated form: the condition is inverted.
TimerDecidesInverted ==
    /\ TimerGoto("decide", "unlock")
    /\ IF OTAstarted THEN SendDecision("no") ELSE UNCHANGED <<otaSent, sendFailed>>
    /\ UNCHANGED <<otaMtx, OTAtimeOut>>

TimerDecides ==
    /\ TimerGoto("decide", "unlock")
    /\ IF OTAstarted THEN UNCHANGED <<otaSent, sendFailed>> ELSE SendDecision("no")
    /\ UNCHANGED <<otaMtx, OTAtimeOut>>

TimerThrows == timerPc = "decide" /\ ~OTAstarted /\ Terminate

\* Mutated form: OTAtimer ends without releasing the lock.
TimerKeepsLock ==
    /\ TimerGoto("unlock", "done")
    /\ UNCHANGED <<otaMtx, otaSent, sendFailed, OTAtimeOut>>

TimerUnlocks ==
    /\ otaMtx' = "free"
    /\ TimerGoto("unlock", "done")
    /\ UNCHANGED <<otaSent, sendFailed, OTAtimeOut>>

-----------------------------------------------------------------------------

\* Steps of main that wait for no server.
MainLocal ==
    \/ Boot \/ WaitOnline \/ CheckToken \/ AcquireReturns \/ AcquireThrows
    \/ Probe \/ ReadBack
    \/ Lock \/ Decide \/ SkipUpdate \/ OpenCompose \/ WriteCompose \/ StartUpdate
    \/ SendThrows \/ Unlock

\* Steps of main that are the return of an HTTP exchange (or of openssl).
MainExchange == GetNewJWToken \/ CheckoutReturns \/ CheckoutThrows \/ UpdateReturns

Timer == TimerExpires \/ TimerDecides \/ TimerThrows \/ TimerUnlocks

Next == alive /\ (IeProbe \/ MainLocal \/ MainExchange \/ Timer)

Spec == Init /\ [][Next]_vars

\* The scheduler runs every thread that can run.  Nothing is assumed of the
\* servers: an exchange may never return.
FairSpec ==
    /\ Spec
    /\ WF_vars(alive /\ MainLocal)
    /\ WF_vars(alive /\ Timer)

-----------------------------------------------------------------------------
(* Properties *)

\* The gateway keeps its promise to the OTA client (OtaDecision): whichever of
\* main and OTAtimer decides, and whenever, at most one decision goes out, "no"
\* never after the compose file was touched, "yes" never while it is open, and
\* nothing changes after it (main.cpp:349-368 with 91-125).
OtaPromise == Ota!Spec

\* Once OTAtimer has timed out first, the OTA procedure never runs, however late
\* the token arrives: the server is not asked and the compose file stays as it
\* was (main.cpp:353-355 against 363-366).
LateTokenNeverUpdates ==
    OTAtimeOut /\ ~OTAstarted => mainPc \notin ProcedurePcs /\ composeFile = "old"

\* Every request main makes after the acquisition, and every request served
\* later, carries a token, and the newest one granted (main.cpp:297-310, 69, 359).
NewestTokenAfterAcquisition ==
    mainPc \in AcquiredPcs => m_token # NoToken /\ m_token = lastGranted

\* A token is assigned once in the life of the process, which is what lets the
\* request threads read it without a lock (Authenticator.hpp:137, 195-198).
TokenAssignedOnce == [][m_token # NoToken => UNCHANGED m_token]_vars

\* The procedure ended without a decision: a failed exchange with the server, or a
\* reply without "update".
EndedSilently ==
    OTAstarted /\ otaSent = <<>> /\ mainPc \in {"unlock", "serving"}

\* The OTA client is left without a decision only if the process died, an
\* exchange of the procedure never returns, the procedure ended without a
\* decision, or the one datagram could not be sent, which is not tried again; a
\* token that never comes cannot do it (main.cpp:38, 55, 349-357).
DecisionUnlessProcedureFails ==
    <>[](\/ otaSent # <<>>
         \/ sendFailed
         \/ ~alive
         \/ mainPc \in ExchangePcs
         \/ EndedSilently)

\* The OTA section ends: neither of main and OTAtimer waits for the other for
\* good, and only an exchange that never returns keeps main from serving once it
\* has a token (main.cpp:349-369).
OtaSectionEnds ==
    <>[](mainPc \in BootPcs \cup AcquirePcs \cup ExchangePcs \cup {"serving"} \/ ~alive)

-----------------------------------------------------------------------------
(* The inductive invariant, by what it relates *)

\* otaMtx is held exactly where the code holds it, so by one thread at most.
LockInv ==
    /\ otaMtx = "main" <=> mainPc \in CriticalPcs
    /\ otaMtx = "timer" <=> timerPc \in {"decide", "unlock"}

\* OTAtimer lives from the end of boot; what the two flags say of the program
\* points.
FlagInv ==
    /\ mainPc \in BootPcs <=> timerPc = "unborn"
    /\ OTAtimeOut <=> timerPc \in {"decide", "unlock", "done"}
    /\ OTAstarted => mainPc \in ProcedurePcs \cup {"unlock", "serving"}
    /\ mainPc \in ProcedurePcs => OTAstarted
    /\ mainPc \in {"unlock", "serving"} /\ ~OTAstarted => timerPc = "done"

\* A decision has one author, who is past its sending point, sent or not.
SentInv ==
    otaSent # <<>> \/ sendFailed =>
        \/ OTAstarted /\ mainPc \in {"unlock", "serving"}
        \/ ~OTAstarted /\ timerPc \in {"unlock", "done"}

\* The compose file is touched by the procedure alone, and open in one place.
ComposeInv ==
    /\ composeFile # "old" =>
           OTAstarted /\ mainPc \in {"write", "start", "unlock", "serving"}
    /\ composeFile = "open" <=> mainPc = "write"

\* A token is held from the acquisition's success on, and it is the newest.
TokenInv ==
    /\ m_token # NoToken <=> authPc = "true"
    /\ mainPc \in AcquiredPcs => authPc = "true"
    /\ Auth!HeldTokenIsNewest

IInv == TypeOK /\ LockInv /\ FlagInv /\ SentInv /\ ComposeInv /\ TokenInv

=============================================================================

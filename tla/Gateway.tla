-------------------------------- MODULE Gateway --------------------------------
(***************************************************************************)
(* The whole process: main's start-up (GatewayStartup), the service adapter*)
(* that main owns (ServiceAdapter), and the threads that its two services  *)
(* detach, the backend service's (PostRequests) and the download service's *)
(* (DownloadRequests), composed.  They share alive,                        *)
(* internetConnectionState, through getInstance() m_token, and the file    *)
(* system: a client may name the compose file as the path of a download.   *)
(*                                                                         *)
(* What ties them together is the order in which main() does things: the   *)
(* adapter is constructed and initialised in "boot", start() is called in  *)
(* "serving", and no message reaches a handler whose service was not       *)
(* offered.                                                                *)
(***************************************************************************)
EXTENDS Integers, Sequences

CONSTANTS Tokens, NoToken, Services, Requests,
          Downloads, Paths, Size, Old, Hole,   \* as in DownloadRequests
          BackendService,    \* the service whose handler is sendPostRequestToServer
          DownloadService,   \* ... and downloadFileService
          ComposePath        \* /composefiles/docker-compose.yaml

ASSUME GatewayAssumption ==
    /\ NoToken \notin Tokens
    /\ {BackendService, DownloadService} \subseteq Services
    /\ ComposePath \in Paths
    /\ Requests \cap Downloads = {}
    /\ Size \in Nat \ {0}
    /\ Old \notin Downloads /\ Hole \notin Downloads

VARIABLES
    mainPc, timerPc, alive, internetConnectionState, otaMtx, OTAstarted,
    OTAtimeOut, otaSent, sendFailed,
    composeFile,   \* what main made of the compose file
    authPc, m_token, challengeFile, decryptedFile, faulted, lastGranted,
    ownerPc, offerPc, onStatePc, appState, mutexHolders, m_blocked_,
    m_is_registered_, handlers, offered,
    requestPc, payload, reply, posted, responses,
    downloadPc, downloadPayload, path, written, file, writers,
    bearer    \* the token in the header of what each request and download posts

startupVars == <<mainPc, timerPc, otaMtx, OTAstarted, OTAtimeOut, otaSent, sendFailed,
                 composeFile, authPc, m_token, challengeFile, decryptedFile, faulted,
                 lastGranted>>
adapterVars == <<ownerPc, offerPc, onStatePc, appState, mutexHolders, m_blocked_,
                 m_is_registered_, handlers, offered>>
requestVars  == <<requestPc, payload, reply, posted, responses>>
downloadVars == <<downloadPc, downloadPayload, path, written, file, writers>>
threadVars   == <<requestVars, downloadVars, bearer>>
sharedVars   == <<alive, internetConnectionState>>
vars == <<startupVars, adapterVars, threadVars, sharedVars>>

Startup  == INSTANCE GatewayStartup
Adapter  == INSTANCE ServiceAdapter
Backend  == INSTANCE PostRequests WITH pc <- requestPc
Download == INSTANCE DownloadRequests WITH pc <- downloadPc, payload <- downloadPayload

TypeOK ==
    /\ Startup!TypeOK
    /\ Adapter!TypeOK
    /\ Backend!TypeOK
    /\ Download!TypeOK
    /\ bearer \in [Requests \cup Downloads -> Tokens \cup {NoToken, "unread"}]

Init ==
    /\ Startup!Init
    /\ Adapter!Init
    /\ Backend!Init /\ internetConnectionState = FALSE
    /\ Download!Init
    /\ bearer = [r \in Requests \cup Downloads |-> "unread"]

-----------------------------------------------------------------------------

\* What holds beside every step of main, OTAtimer or ie_thread.  main leaves "boot"
\* alive only after vsomeService.init().
BesideStartup ==
    /\ mainPc = "boot" /\ mainPc' # "boot" => ownerPc = "start"
    /\ UNCHANGED <<adapterVars, threadVars>>

StartupStep == Startup!Next /\ BesideStartup

BesideAdapter == UNCHANGED <<startupVars, threadVars, sharedVars>>

\* Mutated form: start() is called before the token is acquired.
OwnerStartsAtOnce == Adapter!Owner /\ BesideAdapter

\* What main does with the adapter, in "boot" and when it serves.
OwnerStep ==
    /\ mainPc = (IF ownerPc = "start" THEN "serving" ELSE "boot")
    /\ Adapter!Owner
    /\ BesideAdapter

\* ... what the offer thread does, and what vsomeip calls.
AdapterStep ==
    \/ OwnerStep
    \/ /\ \/ Adapter!OfferThread \/ Adapter!SpuriousWakeup
          \/ Adapter!OnState \/ Adapter!StateHandler
       /\ BesideAdapter

\* vsomeip delivers a message for a service that is offered, to its handler.
Served(service) == service \in offered \cap handlers

\* The token is read as the message for the server is built: posted by thread t,
\* whose next program point is to.
ReadToken(t, to) ==
    bearer' = IF to = "sending" THEN [bearer EXCEPT ![t] = m_token] ELSE bearer

RequestThread ==
    /\ \E r \in Requests :
          \/ Served(BackendService) /\ Backend!Arrive(r) /\ UNCHANGED bearer
          \/ Backend!Handler(r) /\ ReadToken(r, requestPc'[r])
          \/ Backend!SendReturns(r) /\ UNCHANGED bearer
    /\ UNCHANGED <<startupVars, adapterVars, downloadVars>>

DownloadThread ==
    /\ \E d \in Downloads :
          \/ Served(DownloadService) /\ Download!Arrive(d) /\ UNCHANGED bearer
          \/ Download!Thread(d) /\ ReadToken(d, downloadPc'[d])
          \/ Download!SendReturns(d) /\ UNCHANGED bearer
    /\ UNCHANGED <<startupVars, adapterVars, requestVars, internetConnectionState>>

Next == alive /\ (StartupStep \/ AdapterStep \/ RequestThread \/ DownloadThread)

Spec == Init /\ [][Next]_vars

-----------------------------------------------------------------------------
(* Fairness: the scheduler runs every thread that can run.  Nothing is assumed *)
(* of an exchange, a delivery or a state that vsomeip has to report.           *)

MainStep ==
    \/ Startup!MainLocal /\ BesideStartup
    \/ OwnerStep

FairSpec ==
    /\ Spec
    /\ WF_vars(alive /\ MainStep)
    /\ WF_vars(alive /\ Startup!Timer /\ BesideStartup)
    /\ WF_vars(alive /\ Adapter!OfferThread /\ BesideAdapter)
    /\ WF_vars(alive /\ Adapter!StateHandler /\ BesideAdapter)

-----------------------------------------------------------------------------
(* Properties *)

\* What a request or a download posts carries the newest token the backend granted,
\* though nothing in a handler looks whether there is one: no message can arrive
\* before main has acquired it (main.cpp:190, 261, 333-337, 359, 369).
ForwardedWithNewestToken ==
    \A t \in Requests \cup Downloads :
        bearer[t] # "unread" => bearer[t] = lastGranted /\ bearer[t] # NoToken

\* No thread of a service exists before main has made the first call of
\* getInstance() and constructed the first HttpRequest: the races of
\* AuthenticatorInstance and HttpGlobalInit have no second party in the gateway
\* (main.cpp:297-299, 369).
MainIsFirst ==
    (\/ \E r \in Requests : requestPc[r] # "unsent"
     \/ \E d \in Downloads : downloadPc[d] # "unsent") =>
        m_token # NoToken /\ mainPc = "serving"

\* The promise to the OTA client, as far as it goes in the whole process.  Up to
\* the first download into the compose file, what is sent and written is what
\* OtaDecision allows.  A download may replace the file, at any later time; but
\* main serves by then, nothing more is sent, and the file is main's no more: no
\* decision is ever made over a file that a download has opened (main.cpp:201,
\* 349-369).
OtaPromiseUntilDownloaded ==
    /\ Startup!Ota!Init
    /\ [][\/ Startup!Ota!Next /\ writers[ComposePath] = {} /\ UNCHANGED writers
          \/ mainPc = "serving" /\ UNCHANGED <<otaSent, composeFile>>
         ]_<<otaSent, composeFile, writers[ComposePath]>>

\* No service is offered before vsomeip has delivered a registration, though the
\* offer thread lives from main's construction of the adapter on, through the
\* acquisition and the OTA section (main.cpp:333, ServiceManagerAdapter.cpp:43-48).
OfferedOnlyAfterRegistration == Adapter!OfferedOnlyAfterRegistration

\* A client that sees a service can call it: every handler is in place before the
\* first offer, though init() and the offer thread run in two threads
\* (ServiceManagerAdapter.cpp:19-37 against 51-57).
HandlersBeforeOffers == Adapter!HandlersBeforeOffers

\* A registration gets every service offered unless its notification falls
\* between the offer thread's test of m_blocked_ and its sleep, or the process
\* dies: at every other point of run(), and for a repeated registration after a
\* lost one too (ServiceManagerAdapter.cpp:43-48 against 67-72, main.cpp:369).
ServesAfterStartup ==
    (onStatePc = "notify" /\ offerPc # "wait") ~> (offered = Services \/ ~alive)

\* The gateway gets as far as start() unless it dies, or stays without a token,
\* or an exchange never returns (main.cpp:313-369).
StartReached ==
    <>[](\/ ownerPc = "started" \/ ~alive
         \/ mainPc \in Startup!AcquirePcs \cup Startup!ExchangePcs)

-----------------------------------------------------------------------------
(* The inductive invariant of the proofs, in parts *)

\* main has initialised the adapter when it leaves "boot", and calls start() when
\* it has been through the acquisition and the OTA section.
OrderInv ==
    /\ mainPc # "boot" => ownerPc \in {"start", "started"}
    /\ ownerPc = "started" => mainPc = "serving"

\* A message is delivered while main serves, and what its thread's header carries
\* is the token that main holds.
RequestInv ==
    /\ bearer \in [Requests \cup Downloads -> Tokens \cup {NoToken, "unread"}]
    /\ \A r \in Requests :
          /\ requestPc[r] # "unsent" => mainPc = "serving"
          /\ bearer[r] # "unread" => requestPc[r] # "unsent" /\ bearer[r] = m_token
    /\ \A d \in Downloads :
          /\ downloadPc[d] # "unsent" => mainPc = "serving"
          /\ bearer[d] # "unread" => downloadPc[d] # "unsent" /\ bearer[d] = m_token

\* No download opens the compose file before main serves.
OpenedInv == writers[ComposePath] # {} => mainPc = "serving"

\* Each part keeps its own invariant under the steps of the others.
IInv ==
    /\ Startup!IInv
    /\ Adapter!IInv
    /\ Backend!ThreadInv
    /\ Download!TypeOK /\ Download!FileInv
    /\ OrderInv
    /\ RequestInv
    /\ OpenedInv

=============================================================================

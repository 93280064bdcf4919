------------------------------ MODULE OtaRestarts ------------------------------
(***************************************************************************)
(* The OTA decision across crashes and restarts of the gateway, as far as  *)
(* the OTA client.  The process (GatewayStartup) may be killed at any point*)
(* and started anew; the compose file, the authenticator's files and the   *)
(* datagrams on their way outlive it.  A datagram may be lost, and two may *)
(* overtake each other: nothing is numbered, acknowledged or repeated.     *)
(*                                                                         *)
(* The client (external) reads the compose file when a "yes" arrives.      *)
(* The file is written by the OTA procedure alone here: a download whose   *)
(* client names it as its target is in Gateway.                            *)
(***************************************************************************)
EXTENDS Integers, Sequences, SequencesExt

CONSTANTS Tokens, NoToken,
          MaxRuns    \* bounds the starts of the process

ASSUME RestartsAssumption ==
    /\ NoToken \notin Tokens
    /\ MaxRuns \in Nat \ {0}

VARIABLES
    mainPc, timerPc, alive, internetConnectionState, otaMtx, OTAstarted,
    OTAtimeOut, otaSent, sendFailed, composeFile,
    authPc, m_token, challengeFile, decryptedFile, faulted, lastGranted,
    run,         \* the number of the running process
    volume,      \* the run that wrote the compose file last, and how it is
    inFlight,    \* datagrams on their way, each with the run that sent it
    acted        \* history: what the client received, and the file it met

Startup == INSTANCE GatewayStartup

startupVars == <<mainPc, timerPc, alive, internetConnectionState, otaMtx,
                 OTAstarted, OTAtimeOut, otaSent, sendFailed, composeFile, authPc,
                 m_token, challengeFile, decryptedFile, faulted, lastGranted>>
clientVars == <<volume, inFlight, acted>>
vars == <<startupVars, run, clientVars>>

Datagrams == (1..MaxRuns) \X {"yes", "no"}
\* Run 0 is whoever installed the first compose file.
Volumes == (0..MaxRuns) \X Startup!Ota!ComposeStates

TypeOK ==
    /\ Startup!TypeOK
    /\ run \in 1..MaxRuns
    /\ volume \in Volumes
    /\ inFlight \subseteq Datagrams
    /\ acted \in Seq(Datagrams \X Volumes)

Init ==
    /\ Startup!Init
    /\ run = 1
    /\ volume = <<0, "old">>
    /\ inFlight = {}
    /\ acted = <<>>

-----------------------------------------------------------------------------

\* A step of the process; what it writes stays, what it sends is on its way.
GatewayStep ==
    /\ Startup!Next
    /\ volume' = IF composeFile' = composeFile THEN volume ELSE <<run, composeFile'>>
    /\ inFlight' = IF otaSent' = otaSent THEN inFlight
                                         ELSE inFlight \cup {<<run, Last(otaSent')>>}
    /\ UNCHANGED <<run, acted>>

\* std::terminate or a kill has ended the process, and it is started again: its
\* memory is as at first, and what its files hold is of an earlier round.
Restart ==
    /\ run < MaxRuns
    /\ run' = run + 1
    /\ mainPc' = "boot" /\ timerPc' = "unborn" /\ alive' = TRUE
    /\ internetConnectionState' = FALSE /\ otaMtx' = "free"
    /\ OTAstarted' = FALSE /\ OTAtimeOut' = FALSE
    /\ otaSent' = <<>> /\ sendFailed' = FALSE /\ composeFile' = "old"
    /\ authPc' = "idle" /\ m_token' = NoToken /\ faulted' = FALSE
    /\ challengeFile' = Startup!Auth!Aged(challengeFile)
    /\ decryptedFile' = Startup!Auth!Aged(decryptedFile)
    /\ UNCHANGED <<lastGranted, clientVars>>

Lose ==
    /\ \E datagram \in inFlight : inFlight' = inFlight \ {datagram}
    /\ UNCHANGED <<startupVars, run, volume, acted>>

Receive ==
    /\ \E datagram \in inFlight :
          /\ inFlight' = inFlight \ {datagram}
          /\ acted' = Append(acted, <<datagram, volume>>)
    /\ UNCHANGED <<startupVars, run, volume>>

Next == GatewayStep \/ Restart \/ Lose \/ Receive

Spec == Init /\ [][Next]_vars

-----------------------------------------------------------------------------
(* Properties *)

Sender(act)   == act[1][1]
Decision(act) == act[1][2]
Writer(act)   == act[2][1]
File(act)     == act[2][2]

\* The client meets a file in the middle of being written only across a restart:
\* a crash left it so, or a new run has begun to write while an old "yes" was on
\* its way.  The run that said "yes" has always closed it (main.cpp:112-125).
OpenFileOnlyAcrossRuns ==
    \A i \in DOMAIN acted :
        Decision(acted[i]) = "yes" /\ File(acted[i]) = "open" =>
            Writer(acted[i]) # Sender(acted[i])

\* A "no" is never heard from the run that wrote the file last: a run that skips
\* the update leaves the file as it found it, and writes it no more.  How it found
\* it is another matter: a run that was killed while it wrote leaves the file open
\* or partial, and the "no" of the next one does not mend it
\* (main.cpp:91-95, 349-357).
NoFromRunsThatWroteNothing ==
    \A i \in DOMAIN acted :
        Decision(acted[i]) = "no" => Writer(acted[i]) # Sender(acted[i])

-----------------------------------------------------------------------------
(* The inductive invariant of the proofs, in parts *)

\* This run has written the file exactly if it is no longer as the run found it.
VolumeInv ==
    /\ volume[1] <= run
    /\ volume[1] = run => volume[2] = composeFile /\ composeFile # "old"
    /\ volume[1] # run => composeFile = "old"

\* Met with this file, the datagram does no harm.
Harmless(datagram, file) ==
    file[1] = datagram[1] => datagram[2] = "yes" /\ file[2] # "open"

\* What is on its way does no harm to the file as it is, and a run that has sent
\* it changes the file no more.
FlightInv ==
    \A datagram \in inFlight :
        /\ datagram[1] <= run
        /\ datagram[1] = run => otaSent # <<>>
        /\ Harmless(datagram, volume)

ActedInv == \A i \in DOMAIN acted : Harmless(acted[i][1], acted[i][2])

IInv == TypeOK /\ Startup!IInv /\ VolumeInv /\ FlightInv /\ ActedInv

=============================================================================

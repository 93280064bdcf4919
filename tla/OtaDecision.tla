----------------------------- MODULE OtaDecision -----------------------------
(***************************************************************************)
(* What the gateway owes the OTA client, the process that listens on UDP   *)
(* 127.0.0.1:12349 and drives the update from the compose file on the      *)
(* volume it shares with the gateway.                                      *)
(*                                                                         *)
(* At most one decision is sent.  "no" is sent over a compose file nobody  *)
(* touched; "yes" is sent only once the gateway has closed the file; and   *)
(* after a decision the file does not change any more.  Who decides, when, *)
(* and after which exchange with the server, is not the client's concern.  *)
(*                                                                         *)
(* Nothing promises that a decision is ever sent.                          *)
(***************************************************************************)
EXTENDS Sequences

VARIABLES
    otaSent,      \* the decisions sent so far
    composeFile   \* what /composefiles/docker-compose.yaml holds

vars == <<otaSent, composeFile>>

\* "open" is a file truncated and not closed yet, "partial" one whose write failed.
ComposeStates == {"old", "open", "new", "partial"}

Init == otaSent = <<>> /\ composeFile = "old"

Stage ==
    /\ otaSent = <<>>
    /\ \/ composeFile = "old" /\ composeFile' = "open"
       \/ composeFile = "open" /\ composeFile' \in {"new", "partial"}
    /\ UNCHANGED otaSent

Skip ==
    /\ otaSent = <<>>
    /\ composeFile = "old"
    /\ otaSent' = <<"no">>
    /\ UNCHANGED composeFile

Start ==
    /\ otaSent = <<>>
    /\ composeFile # "open"
    /\ otaSent' = <<"yes">>
    /\ UNCHANGED composeFile

Next == Stage \/ Skip \/ Start

Spec == Init /\ [][Next]_vars
=============================================================================

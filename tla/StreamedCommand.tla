--------------------------- MODULE StreamedCommand ---------------------------
(***************************************************************************)
(* What ExecuteCommand of pkg/utils/remote.go promises a client that       *)
(* follows a command over its channel: one terminal message, sent when the *)
(* command is over and the call about to return, well or not; and none if  *)
(* there was no session for the command.                                   *)
(***************************************************************************)
EXTENDS Naturals

VARIABLES stage, messages

commandVars == <<stage, messages>>

Init == stage = "session" /\ messages = 0

NoSession ==
  /\ stage = "session" /\ stage' = "returned"
  /\ UNCHANGED messages

Begin ==
  /\ stage = "session" /\ stage' = "command"
  /\ UNCHANGED messages

Over ==
  /\ stage = "command" /\ stage' = "returned"
  /\ messages' = messages + 1

Next == NoSession \/ Begin \/ Over

Spec == Init /\ [][Next]_commandVars
=============================================================================

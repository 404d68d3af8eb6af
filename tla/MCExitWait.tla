----------------------------- MODULE MCExitWait -----------------------------
(* Four processes; waits of all kinds.                                     *)
EXTENDS ExitWait, TLC

MCOptions == (1 :> {{}}) @@ (2 :> {{"WUNTRACED"}, {"WNOHANG"}})
=============================================================================

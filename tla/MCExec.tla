------------------------------- MODULE MCExec -------------------------------
(***************************************************************************)
(* Exec on small instances: two or three calls, one or two permits, at     *)
(* most one chunk of output per command and one restart of the server.     *)
(***************************************************************************)
EXTENDS ExecClaims, TLC

CONSTANTS c1, c2, c3

TwoCalls == {c1, c2}
ThreeCalls == {c1, c2, c3}
=============================================================================

---------------------------- MODULE MCAdmission -----------------------------
(***************************************************************************)
(* Admission on a small instance: more calls than permits, so that queues  *)
(* of several waiters form while permits are taken, passed on and dropped. *)
(***************************************************************************)
EXTENDS Admission

CONSTANTS c1, c2, c3, c4, c5

FiveCalls == {c1, c2, c3, c4, c5}
=============================================================================

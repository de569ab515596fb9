------------------------------ MODULE MCUpload ------------------------------
(***************************************************************************)
(* Upload on small instances: one or two calls, a source of at most four   *)
(* blocks, parts of two.                                                   *)
(***************************************************************************)
EXTENDS Upload

CONSTANTS u1, u2, n1, n2

OneUpload == {u1}
TwoUploads == {u1, u2}
=============================================================================

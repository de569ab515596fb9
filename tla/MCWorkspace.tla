---------------------------- MODULE MCWorkspace ----------------------------
(***************************************************************************)
(* Workspace on a small instance: two calls, each of any kind, on a path   *)
(* with a file, a directory of two entries, or nothing.                    *)
(***************************************************************************)
EXTENDS Workspace

CONSTANTS c1, c2, a, b

AllOps == Writers \union Exports \union {"list", "delete"}
=============================================================================

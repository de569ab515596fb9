----------------------------- MODULE ExecClaims -----------------------------
(***************************************************************************)
(* What the documentation and the comments of the repository say about     *)
(* Exec and ExecStream and the code does not do.  Each statement is        *)
(* refuted by a run of its own; HardCap of module Exec is refuted too, in  *)
(* a setting other than the one in which it holds.                         *)
(***************************************************************************)
EXTENDS Exec

\* runtime.rs:183, on exec_stream: "If the caller drops the stream before
\* draining the final `Finished` event, `ContainerCleanupGuard` below spawns
\* a best-effort kill+force-remove so the container doesn't keep running".
DroppedStreamStops ==
    \A c \in StreamCalls :
        pc[c] \in {"unpolled", "killing"} \union Guarded ~> ctr[c] # "running"

\* runtime.rs:226: "so we capture the exit code before Docker's AutoRemove
\* races to delete the container."
FinishedHasExitCode ==
    \A c \in Calls : outcome[c] = "exited" => wait[c] = "own"
=============================================================================

---------------------------- MODULE FetchObject -----------------------------
(***************************************************************************)
(* FetchIntoWorkspace: the body of a response is written in place          *)
(* (do_fetch in src/src/service.rs, fetch_to_file in src/src/fetch.rs).    *)
(***************************************************************************)
EXTENDS WorkspaceFiles

\* The response has begun, with a status of success.
FetchBegins(c) ==
    /\ pc[c] = "requesting"
    /\ Goto(c, "parenting")
    /\ UNCHANGED <<diskVars, restVars>>

\* Seeded defect: the timeout ends with the head of the response.
FetchFailsEarly(c) ==
    /\ pc[c] = "requesting"
    /\ End(c, "failed")
    /\ UNCHANGED <<diskVars, restVars>>

\* The address is refused, the request or the body fails, or the timeout of
\* the client expires, which spans both.
FetchFails(c) ==
    /\ pc[c] \in {"requesting", "writing"}
    /\ End(c, "failed")
    /\ UNCHANGED <<diskVars, restVars>>

\* remove_file of the target; errors (no such file, a directory) are ignored.
FetchRemoves(c) ==
    /\ pc[c] = "removing"
    /\ \/ target' = IF target.type = "file" THEN NoEntry ELSE target
       \/ c \in MayFault /\ UNCHANGED target
    /\ Goto(c, "creating")
    /\ UNCHANGED <<home, data, staging, expand, restVars>>

\* File::create truncates a file that is there again, and fails on a directory.
FetchCreates(c) ==
    /\ pc[c] = "creating"
    /\ \/ /\ home # "absent" /\ ~IsDir
          /\ target' = IF target.type = "file" THEN target ELSE File(c)
          /\ data' = [data EXCEPT ![target'.ino] = <<>>]
          /\ fd' = [fd EXCEPT ![c] = target'.ino]
          /\ Goto(c, "writing")
       \/ /\ home = "absent" \/ IsDir
          /\ End(c, "failed") /\ UNCHANGED <<target, data, fd>>
    /\ UNCHANGED <<home, staging, expand, off, todo, readVars, histVars>>

\* Blocks that were never written read as zeros.
WriteAt(s, n, b) == [i \in 1 .. IF n < Len(s) THEN Len(s) ELSE n + 1 |->
                        IF i = n + 1 THEN b
                        ELSE IF i <= Len(s) THEN s[i] ELSE <<old, 0>>]

\* The next block goes into the file that is open, at the path or not.
Write(c) ==
    /\ data' = [data EXCEPT ![fd[c]] = WriteAt(@, off[c], <<c, off[c] + 1>>)]
    /\ off' = [off EXCEPT ![c] = @ + 1]
    /\ UNCHANGED ctlVars

\* Seeded defect: the limit is looked at after the chunk is written.
FetchChunkThenCheck(c) ==
    /\ pc[c] = "writing" /\ off[c] <= MaxBody
    /\ Write(c)
    /\ UNCHANGED <<home, target, staging, expand, fd, todo, readVars, histVars>>

\* A chunk of the body arrives, and is written unless it exceeds the limit.
FetchChunk(c) ==
    /\ pc[c] = "writing"
    /\ \/ off[c] < MaxBody /\ Write(c)
       \/ off[c] = MaxBody /\ End(c, "failed") /\ UNCHANGED <<data, off>>
    /\ UNCHANGED <<home, target, staging, expand, fd, todo, readVars, histVars>>

\* The body is complete, flushed and synced.
FetchEnds(c) ==
    /\ pc[c] = "writing"
    /\ Goto(c, "permitting")
    /\ UNCHANGED <<diskVars, restVars>>

\* set_permissions of whatever the path leads to now.
Permit(c) ==
    /\ pc[c] = "permitting"
    /\ End(c, IF target.type = "none" THEN "failed" ELSE "ok")
    /\ UNCHANGED <<diskVars, restVars>>
=============================================================================

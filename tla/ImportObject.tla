---------------------------- MODULE ImportObject ----------------------------
(***************************************************************************)
(* ImportWorkspaceObject: a file, or an archive to unpack, is received     *)
(* into a staging file and put in the place of the target                  *)
(* (do_import_workspace_object in src/src/service.rs,                      *)
(* src/src/service/archive.rs).                                            *)
(***************************************************************************)
EXTENDS WorkspaceFiles

-----------------------------------------------------------------------------
(* The staging file.                                                       *)

Stage(c) ==
    /\ pc[c] = "staging"
    /\ \/ /\ home # "absent"
          /\ staging' = [staging EXCEPT ![c] = TRUE]
          /\ Goto(c, "receiving")
       \/ home = "absent" /\ End(c, "failed") /\ UNCHANGED staging
    /\ UNCHANGED <<home, target, data, expand, restVars>>

\* Seeded defect: the staging file is used before it is flushed.
ReceivedUnflushed(c) ==
    /\ pc[c] = "receiving"
    /\ data' = [data EXCEPT ![c] = SubSeq(Body(c), 1, MaxBody - 1)]
    /\ Goto(c, "reparenting")
    /\ UNCHANGED <<home, target, staging, expand, restVars>>

\* The request stream ends, and all of it is in the staging file.
Received(c) ==
    /\ pc[c] = "receiving"
    /\ data' = [data EXCEPT ![c] = Body(c)]
    /\ Goto(c, "reparenting")
    /\ UNCHANGED <<home, target, staging, expand, restVars>>

\* The stream fails, carries a second header or an empty message, or a write
\* fails; only for a missing encoding is the staging file removed.
ReceiveFails(c) ==
    /\ pc[c] = "receiving"
    /\ c \in MayFault
    /\ \E left \in BOOLEAN : staging' = [staging EXCEPT ![c] = @ /\ left]
    /\ End(c, "failed")
    /\ UNCHANGED <<home, target, data, expand, restVars>>

-----------------------------------------------------------------------------
(* Unpacking, by a blocking job that goes on until it has replaced the     *)
(* target (extract_archive_and_replace).                                   *)

\* create_dir_all of the extraction directory.
MakeExpand(c) ==
    /\ pc[c] = "expanding"
    /\ CreateHome
    /\ expand' = [expand EXCEPT ![c] = {"."}]
    /\ Goto(c, "unpacking")
    /\ UNCHANGED <<target, data, staging, restVars>>

\* The archive is unpacked; or it is not there any more, or is broken or
\* holds an entry that is refused, after some entries have been written.
Unpack(c) ==
    /\ pc[c] = "unpacking"
    /\ LET there == staging[c] /\ expand[c] # {} IN
       \/ /\ there
          /\ expand' = [expand EXCEPT ![c] = Unpacked]
          /\ Goto(c, "checking")
       \/ /\ there /\ c \in MayFault
          /\ \E ns \in SUBSET Names :
                 expand' = [expand EXCEPT ![c] = ns \union {"."}]
          /\ End(c, "failed")
       \/ ~there /\ End(c, "failed") /\ UNCHANGED expand
    /\ UNCHANGED <<home, target, data, staging, restVars>>

-----------------------------------------------------------------------------
(* The old target is removed (remove_path_if_exists, and its blocking      *)
(* twin).                                                                  *)

Placing(c) == IF op[c] = "flat" THEN "making" ELSE "renaming"

\* Seeded defect: a directory that is there is taken over.
CheckKeepingDir(c) ==
    /\ pc[c] = "checking"
    /\ Goto(c, IF target.type = "file" THEN "unlinking" ELSE Placing(c))
    /\ UNCHANGED <<diskVars, restVars>>

Check(c) ==
    /\ pc[c] = "checking"
    /\ Goto(c, CASE target.type = "none" -> Placing(c)
                 [] target.type = "file" -> "unlinking"
                 [] target.type = "dir"  -> "opening")
    /\ UNCHANGED <<diskVars, restVars>>

\* Seeded defect: the old file is truncated first.
UnlinkTruncating(c) ==
    /\ pc[c] = "unlinking"
    /\ target.type = "file"
    /\ target' = NoEntry
    /\ data' = [data EXCEPT ![target.ino] = <<>>]
    /\ Goto(c, Placing(c))
    /\ UNCHANGED <<home, staging, expand, restVars>>

\* remove_file: an error if the file is gone, or a directory by now.
Unlink(c) ==
    /\ pc[c] = "unlinking"
    /\ \/ target.type = "file" /\ target' = NoEntry /\ Goto(c, Placing(c))
       \/ target.type # "file" /\ End(c, "failed") /\ UNCHANGED target
    /\ UNCHANGED <<home, data, staging, expand, restVars>>

\* remove_dir_all opens the directory and reads it.
OpenDir(c) ==
    /\ pc[c] = "opening"
    /\ \/ /\ IsDir
          /\ fd' = [fd EXCEPT ![c] = target.ino]
          /\ todo' = [todo EXCEPT ![c] = {e[1] : e \in target.entries}]
          /\ Goto(c, "clearing")
       \/ ~IsDir /\ End(c, "failed") /\ UNCHANGED <<fd, todo>>
    /\ UNCHANGED <<diskVars, off, readVars, histVars>>

\* It unlinks an entry of the directory it has open; one that is gone is none.
ClearEntry(c) ==
    /\ pc[c] = "clearing"
    /\ \E n \in todo[c] :
           /\ todo' = [todo EXCEPT ![c] = @ \ {n}]
           /\ target' = IF IsDir /\ target.ino = fd[c]
                        THEN [target EXCEPT !.entries = {e \in @ : e[1] # n}]
                        ELSE target
    /\ UNCHANGED <<home, data, staging, expand, ctlVars, fd, off, readVars,
                   histVars>>

\* It removes the directory by its name: not a file, and not if there are
\* entries that it has not seen.
ClearDir(c) ==
    /\ pc[c] = "clearing" /\ todo[c] = {}
    /\ LET removable == target.type # "file" /\ target.entries = {} IN
       \/ removable /\ target' = NoEntry /\ Goto(c, Placing(c))
       \/ ~removable /\ End(c, "failed") /\ UNCHANGED target
    /\ UNCHANGED <<home, data, staging, expand, restVars>>

-----------------------------------------------------------------------------
(* The new target is put in its place.                                     *)

\* What rename can do: put a file where no directory is, and a directory where
\* nothing is or an empty one.
Renamable(c) == IF op[c] = "raw" THEN staging[c] /\ ~IsDir
                ELSE /\ expand[c] = Unpacked
                     /\ target.type # "file" /\ target.entries = {}

\* The staging file.
RenameFile(c) ==
    /\ op[c] = "raw" /\ Renamable(c)
    /\ target' = File(c)
    /\ staging' = [staging EXCEPT ![c] = FALSE]
    /\ End(c, "ok")
    /\ UNCHANGED expand

\* The one directory in an archive.
RenameDir(c) ==
    /\ op[c] = "wrapped" /\ Renamable(c)
    /\ target' = Dir(c, Names \X {c})
    /\ expand' = [expand EXCEPT ![c] = {"."}]
    /\ Goto(c, "sweeping")
    /\ UNCHANGED staging

\* Seeded defect: when rename fails, the target is removed.
RenameOrRemove(c) ==
    /\ pc[c] = "renaming"
    /\ \/ RenameFile(c) \/ RenameDir(c)
       \/ /\ ~Renamable(c) /\ End(c, "failed")
          /\ target' = NoEntry
          /\ UNCHANGED <<staging, expand>>
    /\ UNCHANGED <<home, data, restVars>>

Rename(c) ==
    /\ pc[c] = "renaming"
    /\ \/ RenameFile(c) \/ RenameDir(c)
       \/ /\ ~Renamable(c) /\ End(c, "failed")
          /\ UNCHANGED <<target, staging, expand>>
    /\ UNCHANGED <<home, data, restVars>>

\* create_dir_all of the target, which may be there again by now.  (What
\* was unpacked is listed first, and missed if it was deleted.)
MakeDir(c) ==
    /\ pc[c] = "making"
    /\ LET possible == expand[c] # {} /\ target.type # "file" IN
       \/ /\ possible
          /\ target' = IF IsDir THEN target ELSE Dir(c, {})
          /\ CreateHome
          /\ Goto(c, "moving")
       \/ ~possible /\ End(c, "failed") /\ UNCHANGED <<home, target>>
    /\ UNCHANGED <<data, staging, expand, restVars>>

\* rename of an unpacked entry into the target, over one of its name.
MoveEntry(c, n) ==
    /\ IsDir
    /\ target' = [target EXCEPT !.entries =
                     {e \in @ : e[1] # n} \union {<<n, c>>}]
    /\ expand' = [expand EXCEPT ![c] = @ \ {n}]

\* Seeded defect: only one entry is moved.
MoveOne(c) ==
    /\ pc[c] = "moving"
    /\ \E n \in expand[c] \ {"."} : MoveEntry(c, n)
    /\ Goto(c, "sweeping")
    /\ UNCHANGED <<home, data, staging, restVars>>

\* One entry after the other, as long as both directories are there.
Move(c) ==
    /\ pc[c] = "moving"
    /\ \/ (\E n \in expand[c] \ {"."} : MoveEntry(c, n)) /\ UNCHANGED ctlVars
       \/ expand[c] = {"."} /\ Goto(c, "sweeping") /\ UNCHANGED <<target, expand>>
       \/ /\ expand[c] = {} \/ (expand[c] # {"."} /\ ~IsDir)
          /\ End(c, "failed")
          /\ UNCHANGED <<target, expand>>
    /\ UNCHANGED <<home, data, staging, restVars>>

\* Seeded defect: the staging file is left to the caller.
SweepExpandOnly(c) ==
    /\ pc[c] = "sweeping"
    /\ expand' = [expand EXCEPT ![c] = {}]
    /\ End(c, "ok")
    /\ UNCHANGED <<home, target, data, staging, restVars>>

\* Extraction directory and staging file are removed, and the call returns;
\* errors of the one and of the other are ignored.  (The import removes the
\* staging file once more, and ignores an error again.)
Sweep(c) ==
    /\ pc[c] = "sweeping"
    /\ \/ expand' = [expand EXCEPT ![c] = {}]
       \/ c \in MayFault /\ UNCHANGED expand
    /\ \/ staging' = [staging EXCEPT ![c] = FALSE]
       \/ c \in MayFault /\ UNCHANGED staging
    /\ End(c, "ok")
    /\ UNCHANGED <<home, target, data, restVars>>
=============================================================================

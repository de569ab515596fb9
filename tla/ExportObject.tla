---------------------------- MODULE ExportObject ----------------------------
(***************************************************************************)
(* ExportWorkspaceObject: size and hash for the header, then a stream of   *)
(* the file or of a temporary archive of the directory                     *)
(* (do_export_workspace_object and export_workspace_object in              *)
(* src/src/service.rs, src/src/service/archive.rs).                        *)
(***************************************************************************)
EXTENDS WorkspaceFiles

\* The source must be a file for the raw encoding, a directory for tar_gz,
\* which gets a temporary archive.
Look(c) ==
    /\ pc[c] = "looking"
    /\ \/ op[c] = "export" /\ target.type = "file" /\ Goto(c, "sizing")
       \/ /\ op[c] = "pack" /\ IsDir /\ ~gone[c]
          /\ pc' = [pc EXCEPT ![c] = "packing"]
          /\ temp' = [temp EXCEPT ![c] = "present"]
          /\ UNCHANGED result
       \/ /\ target.type # (IF op[c] = "pack" THEN "dir" ELSE "file") \/ gone[c]
          /\ End(c, "failed")
    /\ UNCHANGED <<diskVars, restVars>>

-----------------------------------------------------------------------------
(* tar_gz_into_temp: one blocking job.                                     *)

\* append_dir_all reads the directory, ...
PackOpens(c) ==
    /\ pc[c] = "packing"
    /\ \/ /\ IsDir
          /\ todo' = [todo EXCEPT ![c] = {e[1] : e \in target.entries}]
          /\ Goto(c, "adding")
       \/ ~IsDir /\ End(c, "failed") /\ UNCHANGED todo
    /\ UNCHANGED <<diskVars, fd, off, readVars, histVars>>

\* ... and adds what it has read one by one, by its path: what is there by now.
PackAdds(c) ==
    /\ pc[c] = "adding"
    /\ \E n \in todo[c] :
           /\ todo' = [todo EXCEPT ![c] = @ \ {n}]
           /\ \/ /\ \E e \in target.entries :
                        e[1] = n /\ found' = [found EXCEPT ![c] = @ \union {e}]
                 /\ Goto(c, "adding")
              \/ /\ \A e \in target.entries : e[1] # n
                 /\ End(c, "failed") /\ UNCHANGED found
    /\ UNCHANGED <<diskVars, fd, off, size, digest, out, histVars>>

\* What was packed stands for the bytes of the archive.  Builder::finish ends
\* the tar; the gzip stream under it is finished by its Drop, without a word of
\* an error: the archive may be cut short.
PackEnds(c) ==
    /\ pc[c] = "adding" /\ todo[c] = {}
    /\ \/ data' = [data EXCEPT ![c] = <<found[c]>>]
       \/ c \in MayFault /\ data' = [data EXCEPT ![c] = <<>>]
    /\ Goto(c, "sizing")
    /\ UNCHANGED <<home, target, staging, expand, restVars>>

Pack(c) == PackOpens(c) \/ PackAdds(c) \/ PackEnds(c)

-----------------------------------------------------------------------------
(* Header and stream.                                                      *)

\* The file that is read: the target, by its path, or the temporary archive.
Readable(c) == op[c] = "pack" \/ target.type = "file"
Source(c) == IF op[c] = "pack" THEN c ELSE target.ino

Size(c) ==
    /\ pc[c] = "sizing"
    /\ \/ /\ Readable(c)
          /\ size' = [size EXCEPT ![c] = Len(data[Source(c)])]
          /\ Goto(c, "hashing")
       \/ ~Readable(c) /\ End(c, "failed") /\ UNCHANGED size
    /\ UNCHANGED <<diskVars, openVars, digest, out, found, histVars>>

OpenSource(c, phase) ==
    /\ \/ /\ Readable(c)
          /\ fd' = [fd EXCEPT ![c] = Source(c)]
          /\ off' = [off EXCEPT ![c] = 0]
          /\ Goto(c, phase)
       \/ ~Readable(c) /\ End(c, "failed") /\ UNCHANGED <<fd, off>>
    /\ UNCHANGED <<diskVars, todo, readVars, histVars>>

AtEnd(c) == off[c] >= Len(data[fd[c]])

\* A block is read and appended to what the variable held of the file.
ReadOn(c, var) ==
    /\ ~AtEnd(c)
    /\ off' = [off EXCEPT ![c] = @ + 1]
    /\ var' = [var EXCEPT ![c] = Append(@, data[fd[c]][off[c] + 1])]

\* sha256_file, for the header.
HashOpens(c) == pc[c] = "hashing" /\ OpenSource(c, "digesting")

Hash(c) ==
    /\ pc[c] = "digesting"
    /\ \/ ReadOn(c, digest) /\ Goto(c, "digesting")
       \/ AtEnd(c) /\ Goto(c, "offering") /\ UNCHANGED <<off, digest>>
    /\ UNCHANGED <<diskVars, fd, todo, size, out, found, histVars>>

\* When the client has taken the header, the source is opened once more and
\* streamed as the client reads on.
StreamOpens(c) == pc[c] = "offering" /\ OpenSource(c, "streaming")

Stream(c) ==
    /\ pc[c] = "streaming"
    /\ \/ ReadOn(c, out) /\ UNCHANGED ctlVars
       \/ AtEnd(c) /\ End(c, "ok") /\ UNCHANGED <<off, out>>
    /\ UNCHANGED <<diskVars, fd, todo, size, digest, found, histVars>>
=============================================================================

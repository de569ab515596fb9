----------------------------- MODULE Workspace ------------------------------
(***************************************************************************)
(* The calls on a workspace together: import, fetch, export, list_files    *)
(* (src/src/service/files.rs), delete_workspace (src/src/workspace.rs), and*)
(* clients that go away.                                                   *)
(***************************************************************************)
EXTENDS ImportObject, FetchObject, ExportObject

\* list_files of the home directory: none is no error.
ReadDir(c) ==
    /\ pc[c] = "reading"
    /\ todo' = [todo EXCEPT ![c] = Entries]
    /\ \/ home = "absent" /\ End(c, "ok")
       \/ home # "absent" /\ Goto(c, "listing")
    /\ UNCHANGED <<diskVars, fd, off, readVars, histVars>>

\* An entry's metadata is read: an error if the entry has gone.
ListEntry(c) ==
    /\ pc[c] = "listing"
    /\ \E e \in todo[c] :
           /\ todo' = [todo EXCEPT ![c] = @ \ {e}]
           /\ \/ /\ e \in Entries
                 /\ found' = [found EXCEPT ![c] = @ \union {e}]
                 /\ Goto(c, "listing")
              \/ e \notin Entries /\ End(c, "failed") /\ UNCHANGED found
    /\ UNCHANGED <<diskVars, fd, off, size, digest, out, histVars>>

ListEnds(c) ==
    /\ pc[c] = "listing" /\ todo[c] = {}
    /\ End(c, "ok")
    /\ UNCHANGED <<diskVars, restVars>>

\* remove_dir_all of the workspace; none is no error.
Delete(c) ==
    /\ pc[c] = "deleting"
    /\ todo' = [todo EXCEPT ![c] = Entries]
    /\ \/ home = "absent" /\ End(c, "ok")
       \/ home # "absent" /\ Goto(c, "emptying")
    /\ UNCHANGED <<diskVars, fd, off, readVars, histVars>>

\* An entry that was seen is removed with all that is in it.
DeleteEntry(c) ==
    /\ pc[c] = "emptying"
    /\ \E e \in todo[c] :
           /\ todo' = [todo EXCEPT ![c] = @ \ {e}]
           /\ target' = IF e[1] = "target" THEN NoEntry ELSE target
           /\ staging' = [d \in Calls |-> staging[d] /\ e # <<"staging", d>>]
           /\ expand' = [d \in Calls |->
                            IF e = <<"expand", d>> THEN {} ELSE expand[d]]
    /\ UNCHANGED <<home, data, ctlVars, fd, off, readVars, histVars>>

\* The directory goes, unless there are entries that it has not seen.
DeleteHome(c) ==
    /\ pc[c] = "emptying" /\ todo[c] = {}
    /\ \/ Entries = {} /\ home' = "absent" /\ End(c, "ok")
       \/ Entries # {} /\ End(c, "failed") /\ UNCHANGED home
    /\ UNCHANGED <<target, data, staging, expand, restVars>>

\* The client goes away.  A call that waits for it or for the network ends
\* where it stands, any other when the system call it is in returns.
Drop(c) ==
    /\ c \in Droppable
    /\ Active(c) /\ ~gone[c]
    /\ \/ /\ pc[c] \in Parked
          /\ End(c, "dropped")
          /\ UNCHANGED gone
       \/ /\ pc[c] \notin Parked
          /\ gone' = [gone EXCEPT ![c] = TRUE]
          /\ UNCHANGED ctlVars
    /\ UNCHANGED <<diskVars, openVars, readVars, op, seen, restarts>>

\* A system call fails with an error that is returned, and does nothing.
Faulty == {"ensuring", "owning", "parenting", "reparenting", "staging",
           "expanding", "checking", "unlinking", "opening", "clearing",
           "renaming", "making", "moving", "creating", "permitting",
           "looking", "packing", "adding", "sizing", "hashing", "digesting",
           "offering", "streaming", "reading", "listing", "deleting", "emptying"}

DiskFails(c) ==
    /\ c \in MayFault /\ pc[c] \in Faulty
    /\ End(c, "failed")
    /\ UNCHANGED <<diskVars, restVars>>

\* The server is killed, at any point, and started again.  Calls and blocking
\* jobs end where they stand, guards are not dropped, and the new process
\* looks for nothing the old one left behind.
Crash ==
    /\ restarts < MaxRestarts
    /\ restarts' = restarts + 1
    /\ pc' = [c \in Calls |-> IF Active(c) THEN "done" ELSE pc[c]]
    /\ result' = [c \in Calls |-> IF Active(c) THEN "crashed" ELSE result[c]]
    /\ UNCHANGED <<diskVars, temp, openVars, readVars, op, gone, seen>>

\* Every call has ended.
Rest == (\A c \in Calls : pc[c] = "done") /\ UNCHANGED vars

\* The steps for which a call waits for nobody but the file system.
Progress(c) ==
    \/ EnsureHome(c) \/ Own(c) \/ CreateParent(c) \/ Stage(c)
    \/ MakeExpand(c) \/ Unpack(c) \/ Check(c) \/ Unlink(c) \/ OpenDir(c)
    \/ ClearEntry(c) \/ ClearDir(c) \/ Rename(c) \/ MakeDir(c) \/ Move(c)
    \/ Sweep(c) \/ FetchRemoves(c) \/ FetchCreates(c) \/ Permit(c) \/ Look(c)
    \/ Pack(c) \/ Size(c) \/ HashOpens(c) \/ Hash(c)
    \/ ReadDir(c) \/ ListEntry(c) \/ ListEnds(c) \/ Delete(c)
    \/ DeleteEntry(c) \/ DeleteHome(c)

\* The steps for which it waits for its client or for the network.
Outside(c) ==
    \/ Start(c) \/ Received(c) \/ ReceiveFails(c) \/ FetchBegins(c)
    \/ FetchFails(c) \/ FetchChunk(c) \/ FetchEnds(c)
    \/ StreamOpens(c) \/ Stream(c) \/ Drop(c) \/ DiskFails(c)

Next == Crash \/ Rest \/ \E c \in Calls : Progress(c) \/ Outside(c)

Spec == Init /\ [][Next]_vars

\* The server goes on, and the timeout of a fetch expires.  Nothing is
\* assumed of clients: there is no timeout for them.
FairSpec == Spec /\ \A c \in Calls : WF_vars(Progress(c)) /\ WF_vars(FetchFails(c))

-----------------------------------------------------------------------------
Alone(c) == seen[c] = {}
Done(c, r) == pc[c] = "done" /\ result[c] = r
Ends(c) == pc[c] # "done" /\ pc'[c] = "done"

\* Type correctness, and what the file system keeps to: nothing is without a
\* home, no name is twice in a directory, no file exceeds the limit.
WorkspaceTypeOK ==
    /\ home \in {"absent", "server", "agent"}
    /\ home = "absent" => Entries = {}
    /\ target.type \in {"none", "file", "dir"} /\ target.ino \in Owners
    /\ target.entries \subseteq Names \X Owners
    /\ \A e, f \in target.entries : e[1] = f[1] => e = f
    /\ \A i \in Owners : Len(data[i]) <= MaxBody
    /\ staging \in [Calls -> BOOLEAN]
    /\ expand \in [Calls -> SUBSET Unpacked]
    /\ temp \in [Calls -> {"none", "present", "removed"}]
    /\ result \in [Calls -> {"none", "ok", "failed", "dropped", "crashed"}]
    /\ \A c \in Calls : (pc[c] = "done") = (result[c] # "none")
    /\ gone \in [Calls -> BOOLEAN]
    /\ fd \in [Calls -> Owners]
    /\ off \in [Calls -> 0 .. MaxBody]
    /\ seen \in [Calls -> SUBSET Calls]

\* What a call promises when it answers without an error: an import or fetch
\* that the target is what it was sent, whole (archive.rs:142-163,
\* fetch.rs:85-102); an export that size and hash of the header are those of
\* the stream, and the stream is the file (service.rs:436-449); a list that it
\* is complete (files.rs:20-47).  Where the code ignores errors it promises
\* less: a fault may leave what should have been swept (archive.rs:151), and cut
\* the archive of a directory short (archive.rs:202).
Promise(c) ==
    CASE op[c] = "raw" ->
            target' = File(c) /\ data'[c] = Body(c) /\ home' = "agent"
      [] op[c] \in Archives ->
            /\ target' = Dir(c, Names \X {c})
            /\ c \notin MayFault => ~staging'[c] /\ expand'[c] = {}
      [] op[c] = "fetch" ->
            /\ target'.type = "file" /\ home' = "agent"
            /\ data'[target'.ino] = SubSeq(Body(c), 1, off[c])
      [] op[c] = "export" ->
            /\ out[c] = data[target.ino]
            /\ digest[c] = out[c] /\ size[c] = Len(out[c])
      [] op[c] = "pack" ->
            /\ digest[c] = out[c] /\ size[c] = Len(out[c])
            /\ c \notin MayFault => out[c] = <<target.entries>> /\ temp'[c] = "removed"
      [] op[c] = "list"   -> found[c] = Entries
      [] op[c] = "delete" -> home' = "absent" /\ target' = NoEntry

\* A call that shared the workspace with no other keeps its promise, whatever
\* earlier calls that failed, were dropped or killed have left there; and an import
\* of its own fails only if the disk, the stream or the archive does.
AloneIsExact ==
    [][\A c \in Calls :
          Ends(c) /\ Alone(c) =>
              /\ result'[c] = "ok" => Promise(c)
              /\ op[c] \in Imports /\ result'[c] = "failed" => c \in MayFault]_vars

\* Replacing is removing and renaming in two steps (archive.rs:50), and any
\* of them may fail because of another call.  Yet once a call has put
\* something at the path, and none deletes the workspace, is dropped, killed
\* or hit by a fault, something is there in the end.
NothingLost ==
    /\ \A c \in Calls : /\ pc[c] = "done" /\ op[c] # "delete"
                        /\ result[c] \notin {"dropped", "crashed"}
                        /\ result[c] = "failed" => c \notin MayFault
    /\ \E c \in Calls : op[c] \in Writers /\ result[c] = "ok"
    => target.type # "none"

\* What a call leaves behind, if neither a fault nor the death of the server
\* is to blame.  A staging file: the client went away outside the blocking
\* job, or another call came in the way before it was swept.  An extraction
\* directory: only the latter, for a job that was begun runs to its end.  A
\* temporary archive: the client went away, or another call came in the way,
\* while it was packed (archive.rs:24, 79, 151, 161).
LeftoverHasCause ==
    [][\A c \in Calls :
          Ends(c) /\ c \notin MayFault /\ result'[c] # "crashed" =>
              LET disturbed == ~Alone(c) /\ pc[c] # "sweeping" IN
              /\ staging'[c] =>
                     disturbed \/ (result'[c] = "dropped" /\ pc[c] \notin Job(c))
              /\ expand'[c] # {} => disturbed
              /\ temp'[c] = "present" =>
                     /\ pc[c] \in Packing
                     /\ result'[c] = "dropped" \/ ~Alone(c)]_vars

\* An export that met no fetch streams one file, whole, and hashes one file,
\* whole, be the path replaced meanwhile or not: imports never write into a
\* file that can be seen (archive.rs:32-34).
ExportFromOneFile ==
    [][\A c \in Calls :
          /\ Ends(c) /\ result'[c] = "ok" /\ op[c] = "export"
          /\ \A d \in seen[c] : op[d] # "fetch"
          => /\ \E i \in Owners : out[c] = data[i]
             /\ \E i \in Owners : digest[c] = data[i]]_vars

\* A file at the path is not what one call sent only if a fetch is still
\* writing to it, has failed, or met another fetch or import on the way
\* (fetch.rs:85-102: the fetch writes in place).
Whole(i) == \E j \in Owners, n \in 0 .. MaxBody :
                /\ data[i] = SubSeq(Body(j), 1, n)
                /\ n = MaxBody \/ (j # old /\ n = off[j] /\ Done(j, "ok"))

TornHasCause ==
    target.type = "file" /\ ~Whole(target.ino) =>
        \E c \in Calls :
            /\ op[c] = "fetch" /\ fd[c] = target.ino
            /\ ~Done(c, "ok") \/ \E d \in seen[c] : op[d] \in Writers

\* Entries of two archives are in one directory only if their imports ran at
\* the same time (archive.rs:142-160).
MixHasCause ==
    \A e, f \in target.entries :
        e[2] # f[2] => /\ {e[2], f[2]} \subseteq Calls
                       /\ f[2] \in seen[e[2]]

\* The home belongs to the user of the container, or a call is about to see
\* to that, or failed or was killed before it did, or a deletion came in
\* between (workspace.rs:50-74).
HomeOwned ==
    home = "server" =>
        \E c \in Calls :
            /\ op[c] \in Writers
            /\ \/ pc[c] = "owning"
               \/ Done(c, "dropped") \/ Done(c, "crashed")
               \/ Done(c, "failed") /\ c \in MayFault
               \/ \E d \in seen[c] : op[d] = "delete"

\* Every call answers, or waits for its client.  The timeout of a fetch covers
\* its request; that the DNS lookup before it (fetch.rs:128) ends is assumed.
CallsProceed ==
    \A c \in Calls :
        Active(c) ~> pc[c] \in {"done", "receiving", "offering", "streaming"}
=============================================================================

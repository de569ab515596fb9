------------------------------- MODULE Upload -------------------------------
(***************************************************************************)
(* UploadToOSS: packing a directory or compressed file into a temporary    *)
(* archive, building the object key, and the single-shot or multipart      *)
(* upload under one overall timeout (do_upload in src/src/service.rs,      *)
(* OssClient in src/src/oss.rs, tar_gz_into_temp in                        *)
(* src/src/service/archive.rs).                                            *)
(*                                                                         *)
(* The object store is external: it answers a request some time after it   *)
(* was sent, and a request that the server gives up waiting for was        *)
(* carried out or not.  File contents are sequences of blocks that can all *)
(* be told apart, so that a block lost, repeated or out of order shows.    *)
(***************************************************************************)
EXTENDS Integers, Sequences, FiniteSets, SequencesExt

CONSTANTS
    Uploads,          \* the upload calls
    Droppable,        \* calls whose client may go away
    MayFault,         \* calls for which reads and requests may fail
    Nonces,           \* values of the nonce in an object key
    MaxLen,           \* bound on the blocks of the source file
    MaxRewrites,      \* bound on how often the source is rewritten
    MaxRestarts,      \* bound on crashes of the server
    PartSizeSetting,  \* tos.part_size_bytes, in blocks
    MinPartSize,      \* 5 MiB, the least size of a part but the last
    Threshold         \* tos.multipart_threshold_bytes, in blocks

ASSUME UploadAssumption ==
    /\ IsFiniteSet(Uploads)
    /\ Droppable \subseteq Uploads /\ MayFault \subseteq Uploads
    /\ MaxLen \in Nat /\ MaxRewrites \in Nat /\ MaxRestarts \in Nat
    /\ PartSizeSetting \in Nat /\ Threshold \in Nat
    /\ MinPartSize \in Nat \ {0}

VARIABLES
    file,      \* the source in the workspace, which others may rewrite
    rewrites,  \* number of times that happened
    objects,   \* objects[k]: content of the object with key k in the store
    session,   \* session[u]: the multipart upload of u, at the store
    parts,     \* parts[u]: its parts, at the store
    pc,        \* pc[u]: where the call is
    answer,    \* answer[u]: the store's answer to the request u waits for
    mode,      \* mode[u]: uploaded as it is, or as an archive
    result,    \* result[u]: how the call ended
    job,       \* job[u]: the blocking job that packs the source
    archive,   \* archive[u]: what it wrote into the temporary file, if it
               \* may still be read
    temp,      \* temp[u]: that file
    key,       \* key[u]: the object key
    size,      \* size[u]: size_bytes, read before the upload
    off,       \* off[u]: read offset
    buf,       \* buf[u]: blocks read and not yet sent
    digest,    \* digest[u]: what was hashed
    sweeper,   \* sweeper[u]: a spawned task is about to abort the session
    stray,     \* history: a request to open or abort the session failed or was lost
    restarts   \* number of crashes, each followed by a new process

ctlVars    == <<pc, answer>>
lateVars   == <<sweeper, stray, restarts>>
endVars    == <<result, temp, lateVars>>
storeVars  == <<objects, session, parts>>
fileVars   == <<file, rewrites>>
headVars   == <<mode, key, size, job, archive>>
streamVars == <<off, buf, digest>>
bodyVars   == <<result, temp, off, buf>>
uploadVars == <<ctlVars, endVars, storeVars, fileVars, headVars,
                streamVars>>

\* Keys differ by basename (that of an archive ends in .tar.gz) and nonce.
Keys == {"raw", "archive"} \X Nonces
NoKey == <<>>
NoObject == << <<-2, 0>> >>   \* the content of no file

\* Content number v of the source, n blocks long.
Content(v, n) == [i \in 1 .. n |-> <<v, i>>]
Blocks == {<<v, i>> : v \in 0 .. MaxRewrites, i \in 1 .. MaxLen}

\* tar.gz of a source: a header with its size, and its blocks.
Header(n) == <<-1, n>>
Packed(s) == <<Header(Len(s))>> \o s

\* Seeded defect: part_size_bytes is used as configured.
PartSizeAsConfigured == PartSizeSetting

\* OssClient::connect raises the configured part size to the least the
\* store accepts.
PartSize == IF PartSizeSetting < MinPartSize THEN MinPartSize
                                             ELSE PartSizeSetting

\* The file that is uploaded.
Payload(u) == IF mode[u] = "archive" THEN archive[u] ELSE file

Requests == {"putting", "creating", "sending", "completing", "aborting"}
Phases == {"idle", "packing", "keying", "reading", "filling", "done"}
              \union Requests

\* Seeded defect: the timeout does not span the final request.
TimedWithoutComplete == (Requests \ {"completing"}) \union {"reading", "filling"}

\* Phases that the upload timeout spans.
Timed == Requests \union {"reading", "filling"}

Init ==
    /\ \E n \in 0 .. MaxLen : file = Content(0, n)
    /\ rewrites = 0
    /\ objects = [k \in Keys |-> NoObject]
    /\ session = [u \in Uploads |-> "none"]
    /\ parts = [u \in Uploads |-> <<>>]
    /\ pc = [u \in Uploads |-> "idle"]
    /\ answer = [u \in Uploads |-> "none"]
    /\ mode \in [Uploads -> {"raw", "archive"}]
    /\ result = [u \in Uploads |-> "none"]
    /\ job = [u \in Uploads |-> "none"]
    /\ archive = [u \in Uploads |-> <<>>]
    /\ temp = [u \in Uploads |-> "none"]
    /\ key = [u \in Uploads |-> NoKey]
    /\ size = [u \in Uploads |-> 0]
    /\ off = [u \in Uploads |-> 0]
    /\ buf = [u \in Uploads |-> <<>>]
    /\ digest = [u \in Uploads |-> <<>>]
    /\ sweeper = [u \in Uploads |-> FALSE]
    /\ stray = [u \in Uploads |-> FALSE]
    /\ restarts = 0

\* Going on to a phase; if it waits for a request, the request is sent.
Goto(u, p) == /\ pc' = [pc EXCEPT ![u] = p]
              /\ answer' = [answer EXCEPT ![u] = "none"]

\* Seeded defect: an error leaves the temporary archive where it is.
GuardedOnSuccess(u, r) == r = "ok"

\* The temporary archive goes with the call once it has a TempFileGuard:
\* after tar_gz_into_temp returned, and unless the process dies.
Guarded(u, r) == pc[u] # "packing" /\ r # "crashed"

\* What comes of a file that the guard removes: it ignores an error.
Removed(u) == {"removed"} \union {t \in {"stuck"} : u \in MayFault}

\* do_upload returns, or its future is dropped, with its locals.
End(u, r) ==
    /\ Goto(u, "done")
    /\ off' = [off EXCEPT ![u] = 0]
    /\ buf' = [buf EXCEPT ![u] = <<>>]
    /\ result' = [result EXCEPT ![u] = r]
    /\ \E t \in Removed(u) :
           temp' = [temp EXCEPT ![u] =
                       IF Guarded(u, r) /\ @ = "present" THEN t ELSE @]

-----------------------------------------------------------------------------
(* The workspace, and packing.                                             *)

\* The source is rewritten in place: by a command in a container, or by
\* another call on the same workspace.
Rewrite ==
    /\ rewrites < MaxRewrites
    /\ rewrites' = rewrites + 1
    /\ \E n \in 0 .. MaxLen : file' = Content(rewrites', n)
    /\ UNCHANGED <<ctlVars, endVars, storeVars, headVars, streamVars>>

\* The source is looked up.  A plain file is uploaded as it is; a directory,
\* or a file to compress, is packed by a blocking job.
Begin(u) ==
    /\ pc[u] = "idle"
    /\ \/ /\ mode[u] = "archive"
          /\ Goto(u, "packing")
          /\ job' = [job EXCEPT ![u] = "running"]
          /\ temp' = [temp EXCEPT ![u] = "present"]
       \/ /\ mode[u] = "raw"
          /\ Goto(u, "keying")
          /\ UNCHANGED <<job, temp>>
    /\ UNCHANGED <<result, lateVars, storeVars, fileVars, archive,
                   mode, key, size, streamVars>>

\* No workspace id, a path that is not allowed, or no such path.
BeginFails(u) ==
    /\ pc[u] = "idle"
    /\ End(u, "failed")
    /\ UNCHANGED <<lateVars, storeVars, fileVars, headVars,
                   digest>>

\* The blocking job packs the source, whether or not anybody still waits for
\* it.  The header has the size that the source has when it is opened ...
PackOpens(u) ==
    /\ job[u] = "running"
    /\ job' = [job EXCEPT ![u] = "writing"]
    /\ archive' = [archive EXCEPT ![u] = <<Header(Len(file))>>]

\* ... and what follows is read from it block by block.
PackCopies(u) ==
    /\ job[u] = "writing"
    /\ Len(archive[u]) <= Len(file)
    /\ archive' = [archive EXCEPT ![u] = Append(@, file[Len(@)])]
    /\ UNCHANGED job

\* What is in the temporary file when the job returns without an error.
\* builder.finish() ends the tar; the compressor writes what it still holds
\* when it is dropped, and an error of that is lost.
Flushed(u) ==
    {archive[u]} \union
    {SubSeq(archive[u], 1, n) : n \in {k \in 0 .. Len(archive[u]) - 1 : u \in MayFault}}

PackEnds(u) ==
    /\ job[u] = "writing"
    /\ Len(archive[u]) > Len(file)
    /\ job' = [job EXCEPT ![u] = "done"]
    /\ \E written \in Flushed(u) : archive' = [archive EXCEPT ![u] = written]

\* Any other error of a read or a write is returned.
PackFails(u) ==
    /\ job[u] \in {"running", "writing"}
    /\ u \in MayFault
    /\ job' = [job EXCEPT ![u] = "failed"]
    /\ archive' = [archive EXCEPT ![u] = <<>>]

Pack(u) ==
    /\ PackOpens(u) \/ PackCopies(u) \/ PackEnds(u) \/ PackFails(u)
    /\ UNCHANGED <<ctlVars, endVars, storeVars, fileVars, mode, key, size, streamVars>>

\* tar_gz_into_temp returns.
Packing(u) ==
    /\ pc[u] = "packing"
    /\ \/ /\ job[u] = "done"
          /\ Goto(u, "keying")
          /\ UNCHANGED bodyVars
       \/ /\ job[u] = "failed"
          /\ End(u, "failed")
    /\ UNCHANGED <<lateVars, storeVars, fileVars, headVars,
                   digest>>

\* build_key, then upload_file: the size of the payload selects the variant.
\* The nonce is the low 32 bits of a clock, so that any value can recur.
Key(u) ==
    /\ pc[u] = "keying"
    /\ \E n \in Nonces : key' = [key EXCEPT ![u] = <<mode[u], n>>]
    /\ size' = [size EXCEPT ![u] = Len(Payload(u))]
    /\ Goto(u, IF size'[u] > Threshold THEN "creating" ELSE "reading")
    /\ UNCHANGED <<endVars, storeVars, fileVars, mode, job, archive, streamVars>>

-----------------------------------------------------------------------------
(* The object store.                                                       *)

\* complete_multipart_upload takes at least one part, all but the last of
\* them of the least size.
Acceptable(ps) ==
    /\ ps # <<>>
    /\ \A i \in 1 .. Len(ps) - 1 : Len(ps[i]) >= MinPartSize

\* What the request that u waits for does when the store carries it out.
Effect(u) ==
    \/ /\ pc[u] = "putting"
       /\ objects' = [objects EXCEPT ![key[u]] = buf[u]]
       /\ UNCHANGED <<session, parts>>
    \/ /\ pc[u] = "creating"
       /\ session' = [session EXCEPT ![u] = "open"]
       /\ UNCHANGED <<objects, parts>>
    \/ /\ pc[u] = "sending"
       /\ parts' = [parts EXCEPT ![u] = Append(@, buf[u])]
       /\ UNCHANGED <<objects, session>>
    \/ /\ pc[u] = "completing"
       /\ Acceptable(parts[u])
       /\ objects' = [objects EXCEPT ![key[u]] = FlattenSeq(parts[u])]
       /\ session' = [session EXCEPT ![u] = "closed"]
       /\ parts' = [parts EXCEPT ![u] = <<>>]
    \/ /\ pc[u] = "aborting"
       /\ session' = [session EXCEPT ![u] = "closed"]
       /\ parts' = [parts EXCEPT ![u] = <<>>]
       /\ UNCHANGED objects

\* Seeded defect: a request that was answered is carried out again.
WaitingOrAnswered(u) == pc[u] \in Requests

Waiting(u) == pc[u] \in Requests /\ answer[u] = "none"

\* The store carries out a request, or refuses to complete an upload.
StoreAnswers(u) ==
    /\ Waiting(u)
    /\ \/ /\ Effect(u)
          /\ answer' = [answer EXCEPT ![u] = "done"]
       \/ /\ pc[u] = "completing" /\ ~Acceptable(parts[u])
          /\ answer' = [answer EXCEPT ![u] = "refused"]
          /\ UNCHANGED storeVars
    /\ UNCHANGED <<pc, endVars, fileVars, headVars, streamVars>>

\* The server stops waiting: the request was carried out, or not.  That the
\* store decides this at once, and not some time later, is assumed of it.
MaySettle(u) == UNCHANGED storeVars \/ (Waiting(u) /\ Effect(u))

-----------------------------------------------------------------------------
(* Reading, and the single-shot variant.                                   *)

AtEnd(u) == off[u] >= Len(Payload(u))

\* read returns a block.  A read that returns several is several of these.
Fill(u) ==
    /\ pc[u] = "reading" \/ (pc[u] = "filling" /\ Len(buf[u]) < PartSize)
    /\ ~AtEnd(u)
    /\ buf' = [buf EXCEPT ![u] = Append(@, Payload(u)[off[u] + 1])]
    /\ off' = [off EXCEPT ![u] = @ + 1]
    /\ UNCHANGED <<ctlVars, endVars, storeVars, fileVars, headVars,
                   digest>>

\* The whole file has been read: it is hashed and put in one request.
Put(u) ==
    /\ pc[u] = "reading"
    /\ AtEnd(u)
    /\ digest' = [digest EXCEPT ![u] = buf[u]]
    /\ Goto(u, "putting")
    /\ UNCHANGED <<endVars, storeVars, fileVars, headVars, off, buf>>

\* put_object or complete_multipart_upload returns, and the call with it.
Stored(u) ==
    /\ pc[u] \in {"putting", "completing"}
    /\ answer[u] = "done"
    /\ End(u, "ok")
    /\ UNCHANGED <<lateVars, storeVars, fileVars, headVars,
                   digest>>

-----------------------------------------------------------------------------
(* The multipart variant.                                                  *)

\* create_multipart_upload returns the upload id.
Created(u) ==
    /\ pc[u] = "creating"
    /\ answer[u] = "done"
    /\ Goto(u, "filling")
    /\ UNCHANGED <<endVars, storeVars, fileVars, headVars, streamVars>>

\* Seeded defect: only full parts are hashed.
HashedIfFull(u) == IF Len(buf[u]) = PartSize THEN digest[u] \o buf[u] ELSE digest[u]

Hashed(u) == digest[u] \o buf[u]

\* The buffer is full, or the file at its end: a part is hashed and sent.
SendPart(u) ==
    /\ pc[u] = "filling"
    /\ buf[u] # <<>>
    /\ AtEnd(u) \/ Len(buf[u]) = PartSize
    /\ digest' = [digest EXCEPT ![u] = Hashed(u)]
    /\ Goto(u, "sending")
    /\ UNCHANGED <<endVars, storeVars, fileVars, headVars, off, buf>>

\* The end of the file is on a part boundary: nothing more to send.
NoMoreParts(u) ==
    /\ pc[u] = "filling"
    /\ buf[u] = <<>>
    /\ AtEnd(u)
    /\ Goto(u, "completing")
    /\ UNCHANGED <<endVars, storeVars, fileVars, headVars, streamVars>>

\* Seeded defect: the buffer is not emptied for the next part.
NextBufferKept(u) == buf[u]

\* The buffer of the next part is a new one.
NextBuffer(u) == <<>>

\* upload_part returns.  A part that does not fill the buffer was the last.
PartSent(u) ==
    /\ pc[u] = "sending"
    /\ answer[u] = "done"
    /\ buf' = [buf EXCEPT ![u] = NextBuffer(u)]
    /\ Goto(u, IF Len(buf[u]) < PartSize THEN "completing" ELSE "filling")
    /\ UNCHANGED <<endVars, storeVars, fileVars, headVars, off, digest>>

\* The store refuses to complete; the call ends and leaves a task behind
\* that aborts the session.
CompleteRefused(u) ==
    /\ pc[u] = "completing"
    /\ answer[u] = "refused"
    /\ sweeper' = [sweeper EXCEPT ![u] = TRUE]
    /\ End(u, "refused")
    /\ UNCHANGED <<stray, restarts, storeVars, fileVars, headVars, digest>>

\* abort_multipart_upload returns, and the call with the first error.
Aborted(u) ==
    /\ pc[u] = "aborting"
    /\ answer[u] = "done"
    /\ End(u, "failed")
    /\ UNCHANGED <<lateVars, storeVars, fileVars, headVars,
                   digest>>

\* The task left behind aborts the session (if it was completed after all,
\* the store knows it no longer), or fails to.
Sweep(u) ==
    /\ sweeper[u]
    /\ sweeper' = [sweeper EXCEPT ![u] = FALSE]
    /\ \/ /\ session' = [session EXCEPT ![u] = "closed"]
          /\ parts' = [parts EXCEPT ![u] = <<>>]
          /\ UNCHANGED stray
       \/ /\ u \in MayFault
          /\ stray' = [stray EXCEPT ![u] = TRUE]
          /\ UNCHANGED <<session, parts>>
    /\ UNCHANGED <<ctlVars, result, temp, restarts, objects, fileVars, headVars,
                   streamVars>>

-----------------------------------------------------------------------------
(* Errors, the timeout, and clients that go away.                          *)

\* Seeded defects: it is returned without an abort, or taken for the end of
\* the file.
StreamErrorReturned(u) == End(u, "failed")
StreamErrorAsEnd(u) == Goto(u, "completing") /\ UNCHANGED bodyVars

\* What upload_file_multipart does about an error of stream_parts.
StreamError(u) == Goto(u, "aborting") /\ UNCHANGED bodyVars

\* stream_parts fails: on opening or reading the file, or on a part.
StreamFails(u) ==
    /\ u \in MayFault
    /\ \/ pc[u] = "filling" /\ UNCHANGED storeVars
       \/ pc[u] = "sending" /\ MaySettle(u)
    /\ StreamError(u)
    /\ UNCHANGED <<lateVars, fileVars, headVars, digest>>

\* Any other read or request fails, and the call with it: the size of the
\* file, the file itself, put_object, create_multipart_upload, or
\* complete_multipart_upload; the error of abort_multipart_upload is ignored.
CallFails(u) ==
    /\ u \in MayFault
    /\ \/ pc[u] \in {"keying", "reading"} /\ UNCHANGED storeVars
       \/ pc[u] \in Requests \ {"sending"} /\ MaySettle(u)
    /\ stray' = [stray EXCEPT ![u] = @ \/ pc[u] \in {"creating", "aborting"}]
    /\ sweeper' = [sweeper EXCEPT ![u] = pc[u] = "completing"]
    /\ End(u, "failed")
    /\ UNCHANGED <<restarts, fileVars, headVars, digest>>

\* upload_timeout expires: the upload future is dropped where it stands.
TimesOut(u) ==
    /\ pc[u] \in Timed
    /\ MaySettle(u)
    /\ End(u, "timed_out")
    /\ UNCHANGED <<lateVars, fileVars, headVars, digest>>

\* The client goes away: the future of the call is dropped where it stands.
Drop(u) ==
    /\ u \in Droppable
    /\ pc[u] \notin {"idle", "done"}
    /\ MaySettle(u)
    /\ End(u, "dropped")
    /\ UNCHANGED <<lateVars, fileVars, headVars, digest>>

\* The server is killed, at any point, and started again.  Calls, blocking
\* jobs and cleanup tasks end where they stand; a request in flight was carried
\* out or not; the new process looks for nothing the old one left behind.
Crash ==
    /\ restarts < MaxRestarts
    /\ restarts' = restarts + 1
    /\ UNCHANGED storeVars \/ \E u \in Uploads : Waiting(u) /\ Effect(u)
    /\ LET cut == {u \in Uploads : pc[u] \notin {"idle", "done"}} IN
       /\ pc' = [u \in Uploads |-> IF u \in cut THEN "done" ELSE pc[u]]
       /\ result' = [u \in Uploads |-> IF u \in cut THEN "crashed" ELSE result[u]]
       /\ off' = [u \in Uploads |-> IF u \in cut THEN 0 ELSE off[u]]
       /\ buf' = [u \in Uploads |-> IF u \in cut THEN <<>> ELSE buf[u]]
       /\ answer' = [u \in Uploads |-> IF u \in cut THEN "none" ELSE answer[u]]
    /\ LET cut == {u \in Uploads : job[u] \in {"running", "writing"}} IN
       /\ job' = [u \in Uploads |-> IF u \in cut THEN "lost" ELSE job[u]]
       /\ archive' = [u \in Uploads |-> IF u \in cut THEN <<>> ELSE archive[u]]
    /\ sweeper' = [u \in Uploads |-> FALSE]
    /\ stray' = [u \in Uploads |-> stray[u] \/ sweeper[u]]
    /\ UNCHANGED <<temp, fileVars, mode, key, size, digest>>

\* Every call has ended and left nothing in motion.
Rest ==
    /\ \A u \in Uploads : /\ pc[u] = "done" /\ ~sweeper[u]
                          /\ job[u] \notin {"running", "writing"}
    /\ UNCHANGED uploadVars

Step(u) ==
    \/ Begin(u) \/ BeginFails(u) \/ Pack(u) \/ Packing(u) \/ Key(u)
    \/ StoreAnswers(u) \/ Fill(u) \/ Put(u) \/ Stored(u)
    \/ Created(u) \/ SendPart(u) \/ NoMoreParts(u) \/ PartSent(u)
    \/ CompleteRefused(u) \/ Aborted(u) \/ Sweep(u)
    \/ StreamFails(u) \/ CallFails(u) \/ TimesOut(u) \/ Drop(u)

Next == Rewrite \/ Crash \/ Rest \/ \E u \in Uploads : Step(u)

Spec == Init /\ [][Next]_uploadVars

\* The server's own steps only: the store owes it nothing, not even an answer.
FairSpec ==
    /\ Spec
    /\ \A u \in Uploads : /\ WF_uploadVars(Pack(u))
                          /\ WF_uploadVars(Packing(u))
                          /\ WF_uploadVars(Key(u))
                          /\ WF_uploadVars(TimesOut(u))

-----------------------------------------------------------------------------
\* Type correctness, with the bounds that reading and packing keep to.
UploadTypeOK ==
    /\ file \in Seq(Blocks) /\ Len(file) <= MaxLen
    /\ rewrites \in 0 .. MaxRewrites
    /\ DOMAIN objects = Keys
    /\ session \in [Uploads -> {"none", "open", "closed"}]
    /\ pc \in [Uploads -> Phases]
    /\ answer \in [Uploads -> {"none", "done", "refused"}]
    /\ mode \in [Uploads -> {"raw", "archive"}]
    /\ result \in [Uploads -> {"none", "ok", "failed", "refused",
                               "timed_out", "dropped", "crashed"}]
    /\ job \in [Uploads -> {"none", "running", "writing", "done", "failed", "lost"}]
    /\ temp \in [Uploads -> {"none", "present", "removed", "stuck"}]
    /\ key \in [Uploads -> Keys \union {NoKey}]
    /\ sweeper \in [Uploads -> BOOLEAN]
    /\ stray \in [Uploads -> BOOLEAN]
    /\ \A u \in Uploads :
           {off[u], size[u], Len(buf[u]), Len(digest[u])} \subseteq 0 .. MaxLen + 1

\* The content a call has to store, if it is known: an archive is private to
\* its call, a plain file can be rewritten while it is read.
Stable(u) == mode[u] = "archive" \/ rewrites = 0

\* The source as an upload stores it.
Whole(u) == IF mode[u] = "archive" THEN Packed(file) ELSE file

\* An object is the whole of what one upload with its key hashed, and what it
\* hashed is the whole of the archive that was packed or, unless the file was
\* rewritten on the way, the whole file: no failed request, timeout or lost
\* reply leaves a truncated object behind (oss.rs:222-240).  One error does: the
\* archive itself is cut short, with no error from the job, when the last
\* write of the compressor fails (archive.rs:202).
ObjectWhole ==
    \A k \in Keys :
        objects[k] # NoObject =>
            \E u \in Uploads :
                /\ key[u] = k
                /\ objects[k] = digest[u]
                /\ Stable(u) => digest[u] = Payload(u)
                /\ rewrites = 0 => \/ digest[u] = Whole(u)
                                  \/ (mode[u] = "archive" /\ u \in MayFault)

\* What UploadResponse says is so: the object has the hash it reports (unless
\* another call drew the same key), and the size, which was read from the
\* metadata before the content (oss.rs:125), if the content was stable.
ReportExact ==
    \A u \in Uploads :
        result[u] = "ok" =>
            /\ \/ objects[key[u]] = digest[u]
               \/ \E v \in Uploads \ {u} : key[v] = key[u]
            /\ Stable(u) => size[u] = Len(digest[u])

\* The store has a reason to refuse the parts only if the file was emptied
\* after its size had been read: parts are neither empty nor too small
\* (oss.rs:74, 304, 333).
RefusedOnlyWhenEmptied ==
    \A u \in Uploads :
        result[u] = "refused" => digest[u] = <<>> /\ rewrites > 0

\* A temporary archive is there as long as the call reads it, and outlives
\* the call only if that ended while it was being packed, before
\* TempFileGuard owns it (service.rs:249-254), or the server was killed, or
\* if its removal failed ("stuck": archive.rs:28 ignores that).
TempCleanedUp ==
    \A u \in Uploads :
        /\ mode[u] = "archive" /\ pc[u] \notin {"idle", "done"}
           => temp[u] = "present"
        /\ pc[u] = "done" /\ temp[u] = "present"
           => \/ job[u] = "failed" \/ result[u] = "crashed"
              \/ result[u] = "dropped" /\ key[u] = NoKey

\* An upload that fails leaves no open multipart session behind: one is
\* aborted on every error path, unless the request that opened or aborted it
\* was itself the one that failed.  A timeout, a vanished client and a killed
\* server abort nothing (oss.rs:137).
NothingStranded ==
    \A u \in Uploads :
        /\ session[u] = "open" /\ pc[u] = "done" /\ ~sweeper[u]
        => result[u] \in {"timed_out", "dropped", "crashed"} \/ stray[u]

\* A call ends even if the store never answers: upload_timeout spans every
\* request (oss.rs:137).
UploadEnds == \A u \in Uploads : pc[u] # "idle" ~> pc[u] = "done"

\* How far a call has come with its object.
Status == [u \in Uploads |->
    IF result[u] = "ok" THEN "ok"
    ELSE IF pc[u] \in {"aborting", "done"} THEN "failed"
    ELSE IF pc[u] \in {"putting", "completing"} /\ answer[u] = "done" THEN "stored"
    ELSE "open"]

Store == INSTANCE ObjectStore WITH status <- Status

\* An upload of either variant is one atomic write (oss.rs:111): a call puts
\* one object at most, never after it has ended or begun to abort (if the store
\* settles at once what nobody waits for any more: see MaySettle), with the
\* content it hashed up to then, and reports success only after that.
StoreRefined == Store!StoreSpec

\* oss.rs:188, on upload_file_multipart: "aborts the in-progress upload on
\* any error to avoid stranding parts".
AbortedOnAnyError ==
    \A u \in Uploads :
        result[u] \notin {"none", "ok"} /\ ~sweeper[u] => session[u] # "open"
=============================================================================

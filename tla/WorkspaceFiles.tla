--------------------------- MODULE WorkspaceFiles ---------------------------
(***************************************************************************)
(* The directory of one workspace, and what the calls on it share: the calls*)
(* that read and write one path in it without a container, one system call *)
(* at a time.  There are no locks; the calls meet in the file system.      *)
(*                                                                         *)
(* Files have an identity (ino) of their own, so that a file replaced while*)
(* somebody reads or writes it can be told from its successor.  A system   *)
(* call runs on a blocking thread: when the client goes away, the one that *)
(* is under way still takes effect.                                        *)
(***************************************************************************)
EXTENDS Integers, Sequences, FiniteSets, SequencesExt

CONSTANTS
    Calls,      \* the calls
    Ops,        \* what they may be asked to do
    Droppable,  \* calls whose client may go away
    MayFault,   \* calls for which the disk, the stream or the archive may fail
    Names,      \* entries of a directory
    old,        \* owner of what was there before
    MaxBody,    \* fetch.max_body_bytes, in blocks
    MaxRestarts \* bound on crashes of the server

Archives == {"wrapped", "flat"}      \* tar_gz imports: one root directory, or not
Imports  == {"raw"} \union Archives
Writers  == Imports \union {"fetch"}
Exports  == {"export", "pack"}       \* raw and tar_gz

\* "." is the extraction directory itself, and no name of an entry in it.
ASSUME WorkspaceAssumption ==
    /\ IsFiniteSet(Calls) /\ IsFiniteSet(Names)
    /\ Ops \subseteq Writers \union Exports \union {"list", "delete"}
    /\ Droppable \subseteq Calls /\ MayFault \subseteq Calls
    /\ old \notin Calls /\ "." \notin Names
    /\ MaxBody \in Nat \ {0} /\ MaxRestarts \in Nat

VARIABLES
    home,     \* the home directory: absent, or who owns it
    target,   \* the entry at the path the calls are about
    data,     \* data[i]: content of the file with identity i
    staging,  \* staging[c]: staging file of an import
    expand,   \* expand[c]: extraction directory of an import
    temp,     \* temp[c]: temporary archive of an export
    op,       \* op[c]: what the call does
    pc,       \* pc[c]: where it is
    gone,     \* gone[c]: its client went away during a system call
    result,   \* result[c]: how it ended
    fd,       \* fd[c]: identity of the file or directory it has open
    off,      \* off[c]: its offset in that file
    todo,     \* todo[c]: directory entries read and not yet handled
    size,     \* size[c]: size_bytes of an export's header
    digest,   \* digest[c]: what was hashed for that header
    out,      \* out[c]: what was streamed
    found,    \* found[c]: entries listed, or packed
    seen,     \* history: the calls that were under way at the same time
    restarts  \* number of crashes, each followed by a new process

diskVars == <<home, target, data, staging, expand>>
ctlVars  == <<pc, result, temp>>
openVars == <<fd, off, todo>>
readVars == <<size, digest, out, found>>
histVars == <<op, gone, seen, restarts>>
restVars == <<openVars, readVars, histVars>>
vars     == <<diskVars, ctlVars, restVars>>

Owners == Calls \union {old}
Body(i) == [n \in 1 .. MaxBody |-> <<i, n>>]

NoEntry == [type |-> "none", ino |-> old, entries |-> {}]
File(i) == [type |-> "file", ino |-> i, entries |-> {}]
Dir(i, es) == [type |-> "dir", ino |-> i, entries |-> es]
IsDir == target.type = "dir"

\* An extraction directory that exists contains ".".
Unpacked == Names \union {"."}

\* Paths in the home directory that exist.
Entries == {e \in {<<"target">>} \union ({"staging", "expand"} \X Calls) :
               \/ e[1] = "target" /\ target.type # "none"
               \/ e[1] = "staging" /\ staging[e[2]]
               \/ e[1] = "expand" /\ expand[e[2]] # {}}

Init ==
    /\ \/ /\ home = "agent"
          /\ target \in {NoEntry, File(old), Dir(old, Names \X {old})}
       \/ home = "absent" /\ target = NoEntry
    /\ data = [i \in Owners |-> IF i = old THEN Body(old) ELSE <<>>]
    /\ staging = [c \in Calls |-> FALSE]
    /\ expand = [c \in Calls |-> {}]
    /\ temp = [c \in Calls |-> "none"]
    /\ op \in [Calls -> Ops]
    /\ pc = [c \in Calls |-> "idle"]
    /\ gone = [c \in Calls |-> FALSE]
    /\ result = [c \in Calls |-> "none"]
    /\ fd = [c \in Calls |-> old]
    /\ off = [c \in Calls |-> 0]
    /\ todo = [c \in Calls |-> {}]
    /\ size = [c \in Calls |-> 0]
    /\ digest = [c \in Calls |-> <<>>]
    /\ out = [c \in Calls |-> <<>>]
    /\ found = [c \in Calls |-> {}]
    /\ seen = [c \in Calls |-> {}]
    /\ restarts = 0

Active(c) == pc[c] \notin {"idle", "done"}

\* The phases in which a call waits for its client or for the network.
Parked == {"receiving", "requesting", "writing", "offering", "streaming"}

\* The phases of tar_gz_into_temp, and of extract_archive_and_replace: each is
\* one blocking job.
Packing == {"packing", "adding"}
Job(c) == IF op[c] \in Archives
          THEN {"expanding", "unpacking", "checking", "unlinking", "opening",
                "clearing", "renaming", "making", "moving", "sweeping"}
          ELSE Packing

\* The call is over.  A temporary archive goes with it once it has a
\* TempFileGuard, after tar_gz_into_temp returned; the guard ignores an error.
End(c, r) ==
    /\ pc' = [pc EXCEPT ![c] = "done"]
    /\ result' = [result EXCEPT ![c] = IF gone[c] THEN "dropped" ELSE r]
    /\ \/ temp' = [temp EXCEPT ![c] =
                      IF pc[c] \notin Packing /\ @ = "present" THEN "removed" ELSE @]
       \/ c \in MayFault /\ UNCHANGED temp

\* A system call returned.  If the client has gone, so has the future that
\* would go on; only a blocking job runs to its end.
Goto(c, p) ==
    IF gone[c] /\ ~(pc[c] \in Job(c) /\ p \in Job(c))
    THEN End(c, "dropped")
    ELSE pc' = [pc EXCEPT ![c] = p] /\ UNCHANGED <<result, temp>>

-----------------------------------------------------------------------------
(* Beginning, the home directory, and the parent of the target.            *)

First(c) == CASE op[c] \in Writers -> "ensuring"
              [] op[c] \in Exports -> "looking"
              [] op[c] = "list"    -> "reading"
              [] op[c] = "delete"  -> "deleting"

\* A call arrives, and is refused (its workspace id, path, or, of an import,
\* its first message), or begins.
Start(c) ==
    /\ pc[c] = "idle"
    /\ \/ /\ Goto(c, First(c))
          /\ seen' = [d \in Calls |->
                         IF d = c THEN {e \in Calls : Active(e)}
                         ELSE IF Active(d) THEN seen[d] \union {c} ELSE seen[d]]
       \/ c \in MayFault /\ End(c, "failed") /\ UNCHANGED seen
    /\ UNCHANGED <<diskVars, openVars, readVars, op, gone, restarts>>

\* create_dir_all of the home directory, or of one below it.
CreateHome == home' = IF home = "absent" THEN "server" ELSE home

EnsureHome(c) ==
    /\ pc[c] = "ensuring"
    /\ CreateHome
    /\ Goto(c, "owning")
    /\ UNCHANGED <<target, data, staging, expand, restVars>>

\* Seeded defect: the error of chown is ignored, and so is chown.
OwnIgnored(c) ==
    /\ pc[c] = "owning"
    /\ Goto(c, IF op[c] = "fetch" THEN "requesting" ELSE "parenting")
    /\ UNCHANGED <<diskVars, restVars>>

\* chown to the user in the container, or else chmod 0777.
Own(c) ==
    /\ pc[c] = "owning"
    /\ \/ /\ home # "absent"
          /\ home' = "agent"
          /\ Goto(c, IF op[c] = "fetch" THEN "requesting" ELSE "parenting")
       \/ home = "absent" /\ End(c, "failed") /\ UNCHANGED home
    /\ UNCHANGED <<target, data, staging, expand, restVars>>

\* create_dir_all of the target's parent: of an import twice, before the
\* staging file and again before the target is replaced.
CreateParent(c) ==
    /\ pc[c] \in {"parenting", "reparenting"}
    /\ CreateHome
    /\ Goto(c, CASE op[c] = "fetch" -> "removing"
                 [] op[c] \in Imports /\ pc[c] = "parenting" -> "staging"
                 [] op[c] = "raw" /\ pc[c] = "reparenting" -> "checking"
                 [] op[c] \in Archives /\ pc[c] = "reparenting" -> "expanding")
    /\ UNCHANGED <<target, data, staging, expand, restVars>>
=============================================================================

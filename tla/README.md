# Scriptorium: TLA+ models and proofs

Scriptorium is a gRPC service that runs shell commands in throw-away Docker
containers and moves files in and out of the workspaces those containers see.
This directory holds TLA+ models of it, the TLC runs that check them on small
instances, and TLAPS proofs for all instances. Source references are relative
to the root of the repository, so the Rust code is in `src/src/`.

## 1. Inventory

| Component | Code | State | Operations | Hard part |
|---|---|---|---|---|
| Exec admission gate | `service.rs:60-95,454`, `config.rs:186-217` | free permits, FIFO of waiters, one seat per call | acquire with optional timeout, release by drop | timeout or cancellation against hand-over of a permit |
| Exec / ExecStream | `service.rs:107-181,470-535`, `runtime.rs` | phase of each call, container, output, exit code, deadline, cleanup task | create, attach, start, read, time out, kill, remove, drop | futures dropped anywhere; daemon requests that took effect unseen; AutoRemove against wait |
| Process | `main.rs` | draining, restarts | shutdown, exit, crash | shutdown while calls run; containers left behind |
| UploadToOSS / OSS client | `service.rs:218-281`, `oss.rs`, `service/archive.rs:176-209` | temporary archive, read offset, buffer, parts, hash; objects and sessions at the store | pack, single put, multipart, abort | timeout between requests; lost replies; source that changes under the reader |
| Workspace manager | `workspace.rs` | directory tree of a workspace | ensure_home, delete, resolve_path | deletion against first use |
| Import / Export | `service.rs:283-450,586-636`, `service/archive.rs` | staging file, extraction directory, temporary archive | stream in, extract, replace; hash, stream out | remove-then-rename, concurrent imports, blocking jobs that outlive their call |
| Fetch | `fetch.rs`, `service.rs:183-216` | target file | remove target, stream body | partial files, two writers |
| ListFiles | `service/files.rs` | none | walk | tree changes during the walk |
| Tools, Health | `tools.rs`, `service.rs:682-816` | none | decode arguments, choose limits, dispatch to the above | two texts, a schema and a struct, for one thing |
| Configuration, limits, paths, dates | `config.rs`, `runtime.rs:298-357`, `workspace.rs:86-115`, `oss.rs:400-416` | none | pure functions, applied to what clients send | boundaries, conversions, paths that lead back or out |

How they interact. `Exec`, `ExecStream` and the tool `execute_shell` go
through the gate, then `ensure_home`, then the Docker daemon; nothing else
takes permits. The permit is a value owned by the handler's future, or, for a
stream, by the response body, so *dropping* that value is what releases it: on
return, on `?`, on a client that disconnects. The cleanup guard of a stream is
a value in the same body. All calls on a workspace, and the containers that
mount it, share its directory tree without locks. `UploadToOSS` and
`ExportWorkspaceObject` read that tree and pack it with the same blocking job.
Blocking jobs (`spawn_blocking`) and spawned tasks go on after the call that
started them is gone, until the process ends.

What makes each component correct:

- **Gate**: permits are conserved; none is free while a call waits; first come,
  first served; nobody waits for ever; a call that gives up leaves nothing.
- **Exec**: no more running containers than permits; a finished call has all of
  its output; a timed-out call leaves no container; somebody is in charge of
  the container of a stream until its deadline, also after a drop; every call
  ends; shutdown ends.
- **Upload**: an object is all of what was read, and of an archive if its file
  was written out; what is reported is what was stored; temporary archives and
  multipart sessions are cleaned up; every call ends.
- **Workspace, transfer**: a call that runs alone does what it answers; a target
  is never half an import, and never lost between several; a transfer that
  succeeds leaves no staging files; what an export announces is what it sends.
- **Paths, limits, tools, dates**: a call changes nothing outside of its
  workspace, but through links that commands made in it; a directory without
  links that is exported and imported is the same; a container has every limit
  that the configuration has; arguments that a schema allows are decoded; the
  date in a key is the date.

## 2. Modules

| Module | Models | Role |
|---|---|---|
| `PermitPool` | nothing of the code: the promise of the gate | abstract specification |
| `Admission` | the semaphore as the handlers use it | implements `PermitPool` |
| `Exec` | calls, containers, deadlines, cleanup, shutdown, crash | extends `Admission`, and implements `AdmissionSpec` |
| `ExecClaims` | statements of docs and comments that the code does not keep | extends `Exec` |
| `ObjectStore` | nothing of the code: the promise of an upload, one atomic write | abstract specification |
| `Upload` | UploadToOSS, the OSS client and packing | implements `ObjectStore` |
| `WorkspaceFiles` | the directory of a workspace, `ensure_home`, how calls end and are dropped | shared by the next three |
| `ImportObject`, `FetchObject`, `ExportObject` | one RPC each, system call by system call | extend `WorkspaceFiles` |
| `Workspace` | those three with list, delete, failing system calls, vanishing clients and a crash | composes them; properties |
| `FileTree` | `resolve_path`, path cleaning, whole system calls and archives on a tree | operators |
| `ToolRequests` | limits and their defaults, `create_container`, configuration, schemas and structs of the tools | operators |
| `CivilDate` | `ymd_from_unix` against a calendar | operators, a clock |
| `Service` | every RPC that changes a tree, runs a container or files an object, one after the other | composes the last three |
| `MCAdmission`, `MCExec`, `MCUpload`, `MCWorkspace`, `MCService` | | instances for TLC |
| `AdmissionProofs`, `ExecProofs`, `UploadProofs`, `WorkspaceProofs`, `FileTreeProofs`, `CivilDateProofs`, `ServiceProofs` | | TLAPS proofs about the modules they are named after |
| `SequenceInduction` | | smallest members of sets of numbers; lemmas about `FlattenSeq` |

### Admission

`permits` is `available_permits()` of the semaphore, `queue` its list of
waiters, `seat[c]` the stage of call `c`: `waiting` (parked in
`acquire_owned`), `granted` (a permit was assigned to the parked future, which
has not been polled since), `held` (it owns an `OwnedExecPermit`). The semaphore
is a library; it is modelled as it behaves for single permits. `GiveUp` is the
drop of the acquire future, by the queue timeout or by the transport: a waiter
is taken out of the queue, a granted permit is passed on. `Reset` is the new
semaphore of a new process. `Capacity` and `HasQueueTimeout` are
`effective_max` and `effective_queue_timeout`.

### Exec

One set of actions serves both RPCs; `StreamCalls` says which calls are streams.
The phases of `pc`:

| Phase | Code |
|---|---|
| `queued` | `acquire_exec_permit` |
| `preparing` | `build_exec_params` |
| `creating`, `attaching`, `starting` | `create_container`, `attach_container`, `start_container` |
| `collecting` | the joined futures of `exec_oneshot` |
| `unpolled` | the stream of `exec_stream` was returned and not polled |
| `pumping`, `yielding` | its select loop, and parked at a `yield` |
| `killing`, `removing` | the timeout path |
| `finishing` | `Finished` was yielded, the body not yet drained |

The daemon is external. A request takes effect in `DaemonApplies`, before the
reply action of the handler. If the handler's future is dropped or its
connection fails in between, `MaySettle` lets the request have taken effect or
not. The exit-code request arrives (`WaitArrives`) after the container started,
as `runtime.rs` polls the wait stream only then; if the container is gone by
that time, its exit code is lost. `Drop` is a client that goes away, `task` the
task that `ContainerCleanupGuard::drop` spawns, `Crash` and `Exit` the end of
the process, after which `NewProcess` has a full semaphore and knows nothing of
containers left behind. Ghost variables: `faulted` (calls whose connection
failed), which the properties use to name causes. A failed connection is
excepted from `FinishedIsComplete` and `TimeoutLeavesNothing` because the code
takes it for the end of the output, and ignores the errors of kill and remove:
after both of these fail, `timed_out` is reported of a container that runs on.
`GuardSweeps` is about all phases of a polled stream, not only those in which
its guard is armed; it excepts expired deadlines, after which the guard is
disarmed before the kill.

### Upload

`file` is the source, rewritten by others in `Rewrite`. `job`, `archive` and
`temp` are the blocking packing job, what it wrote and the file it wrote it to.
The job takes the blocks of the source one by one, while it may be rewritten.
At the end `builder.finish()` ends the tar only; the `GzEncoder` writes its rest
when it is dropped, and an error of that write is lost: for a call in `MayFault`
the job may end well with an archive that was cut short. The guard's
`remove_file` may fail for such a call, too.
`key`, `size`, `off`, `buf` and `digest` are the locals of
`upload_file`, `upload_file_single`, `upload_file_multipart` and `stream_parts`.
`objects`, `session` and `parts` are the store, which answers a request in
`StoreAnswers`; `MaySettle` plays the same role as in `Exec`. A file is a
sequence of distinct blocks and a hash is the sequence that was hashed, so that
"same hash" means "same content". `TimesOut` drops the upload wherever it
stands, as `tokio::time::timeout` does. `stray` is a ghost variable: a request
that opened or aborted the session failed. `Crash` ends the process: every call
and every spawned abort is gone, no guard runs, and the store settles what it
was asked; the process that follows looks for none of it. `Status` maps a call to
the abstract `ObjectStore`: it has stored its object from the answer to
`put_object` or `complete_multipart_upload` on, and has failed when it begins to
abort.

### Workspace

One path (`target`) of one workspace, in its `home` directory; `op[c]` says
what call `c` does: an import of a file (`raw`), of an archive with one root
directory (`wrapped`) or with several entries (`flat`), a `fetch`, an export of
a file (`export`) or a directory (`pack`), a `list`, a `delete`. Each action is
one system call, since calls and containers share the tree without locks. The
phases of `pc`:

| Phase | Code |
|---|---|
| `ensuring`, `owning` | `ensure_home`: `create_dir_all`, then chown or chmod |
| `parenting`, `staging`, `receiving` | parent directory, staging file, request stream |
| `reparenting` | the second `create_dir_all` of the parent, before the replacement |
| `expanding`, `unpacking` | extraction directory, extraction |
| `checking`, `unlinking`, `opening`, `clearing` | `remove_path_if_exists`: metadata, then `remove_file` or `remove_dir_all` |
| `renaming`, `making`, `moving`, `sweeping` | the new target is put in its place, leftovers are removed |
| `requesting`, `removing`, `creating`, `writing`, `permitting` | `fetch_to_file`, then `set_permissions` |
| `looking`, `packing`, `sizing`, `hashing`, `digesting` | `do_export_workspace_object` |
| `offering`, `streaming` | its stream: header, then the source, opened again |
| `reading`, `listing` | `list_files`, `collect_files` |
| `deleting`, `emptying` | `WorkspaceManager::delete` |

Files and directories have an identity, `data[i]` is the content of file `i`, at
the path or not: a fetch writes on into a file that was unlinked, and
`File::create` truncates one that another call has just put there. A directory
is a set of names with the call each entry came from. The file system follows
POSIX and `std::fs`: `remove_dir_all` unlinks the entries it has read and fails
if others were added; `rename` puts a directory only onto nothing or an empty
one. `gone[c]` means that the client vanished during a system call: that call
takes effect, the next one is not made; only `Job`, the blocking extraction,
runs to its end. `Crash` ends all calls and blocking jobs between two system
calls; a next process does not look at what it finds. `seen[c]` is a ghost
variable, the calls that were under way at the same time as `c`, a
blocking job that outlives its call included. Packing is a blocking job as in
`Upload`: it adds the entries of the directory one by one, outlives a call that
is dropped, and may end well with an archive cut short for a call in
`MayFault`. `Sweep` ignores its errors, as the code does: for a call in
`MayFault`, the staging file, the extraction directory or both may stay although
the answer is OK. Left out:
commands in containers, which do to the tree what a fetch does; owners and modes
of anything but the home; subdirectories of the target; targets deeper than the
home directory.

### Service

The modules above take one call apart; `Service` strings whole calls together,
for what only a sequence of calls can show. `fs` is the tree under
`workspace.root`, a function from paths to `Dir` or a content; `settings` is the
configuration the process started with, one that `Config::validate` accepts;
`last` remembers the workspace, the reply and the container of the latest call.
A path in a request is a sequence of names with a flag for a leading "/";
`Clean` is what `path_clean` does with it, and `Target` and `Resolves` are
`resolve_path`. Imports, fetches and commands then do to the tree what
`create_dir_all`, `remove_path_if_exists`, `rename` and the extraction of an
archive do to it when nobody interferes: `Blocked` says when a file is in the
way. `Packed` puts the root around a directory that `tar_gz_into_temp` puts
there, and `Unpacked` decides as `extract_archive_and_replace` does whether to
strip it. `OrDefault`, `Memory` and `ContainerFor` are `build_exec_params` and
`create_container`; `ToolAsks` is what `call_tool` makes of the arguments of
`execute_shell`, and `Allowed` and `Decodes` are the two readings of arguments:
by the JSON schema and by the struct. `Change` are the calls that matter for the
trees they leave, `Ask` those that matter for what they ask for. `NewDay` moves
the clock, on which `CivilDate` compares `ymd_from_unix` with a calendar.
`ListFiles` and exports change nothing here; what an export packs is the subject
of `RoundTrip`.

A command may leave a symbolic link in the home directory: `Links` are the
contents that are links, `Points` the absolute path of each. `resolve_path`
compares names and does not see links; the host's system calls follow them.
`Spot` is where a call on the last name of a path gets (`rename`,
`remove_file`), `Led` where one gets that follows the last name too
(`metadata`). `ParentFails` is `create_dir_all` of the parent, which makes
nothing that a link leads to; `TargetFails` is what `remove_path_if_exists` and
the replacement make of a link at the target. A path here goes through one link
at most, where Linux follows 40 and then fails with `ELOOP`; links hold absolute
paths of the host, which lead nowhere in a container. Archives with links are
refused by `extract_archive_and_replace`, so none is among `Archives`. Not
modelled: what a failed unpacking leaves beside its target (it is in
`Workspace`), and which of the links in a directory make its packing fail.

## 3. Runs

All bounds are constants named in the modules; `cfg` files give them values.

| Run | Instance | What it shows |
|---|---|---|
| `admission` | 5 calls that come back for ever, 2 permits, no queue timeout | permits are conserved, never idle, handed on in order; the pool is implemented; no starvation |
| `exec_calm` | a stream and two oneshot calls, 1 permit, a queue timeout, no output, nothing fails, no client leaves, though it may stop reading | the cap on running containers; the handlers use the gate as specified; the wait in the queue is bounded |
| `exec_storm` | a stream and a oneshot, 1 permit, any client may vanish, any connection fail, 1 crash or restart | permits match phases, orphans have causes, finished calls are complete, timeouts leave nothing, somebody is in charge of a polled stream's container |
| `exec_live` | a stream and a oneshot, 1 permit, clients that stay but may stop reading, commands that may never exit, no queue timeout, a failing connection, a crash | if clients keep reading, every call ends and shutdown ends; if not, an expired deadline still stops the container, unless its stream stands at a yield |
| `upload` | 2 uploads of one file of up to 2 blocks (archives: 3), parts of 2, one rewrite, one crash, one of them may fail or be dropped; both draw the same nonce | objects are whole and as reported, each upload is one atomic write, refusals only of emptied files, temporary archives and sessions are cleaned up; every upload ends, with a store that may never answer |
| `workspace` | 2 calls, each of any of the 8 kinds, on a path with a file, a directory of two entries, or nothing, or no home at all; one may be dropped, one hit by errors, one crash; files of 2 blocks | a call alone keeps its promise, nothing is lost between several, leftovers, torn files, mixed directories and a home of the wrong owner have the causes they are said to have, exports do not tear, every call proceeds |
| `service` | every day from 1970-01-01 to 2000-03-01; on the day before the last, 3 sets of limits, 2 timeouts, arguments of the tools with one of them missing, added or unusual, 2 valid configurations; on the last, 2 workspaces and a refused id, 5 shapes of paths, 4 of archives, commands that write, remove and link, a link into the other workspace | keys carry the right date; limits do not vanish, schemas and structs agree; calls change the workspace they name and what its links lead to, and nothing else; directories without links come back; the tree stays one |

Why the bounds suffice. Two permits and five calls give a queue of three, so
that a hand-over can pass the wrong waiter, first or last. One permit and two
calls already put a call behind each kind of failure of the other; the third of
`exec_calm` waits behind another one in the queue. One chunk of output
distinguishes "read all", "read some" and "never read", in the runs that are
about output. One restart shows what a second process does not know. Files and
archives of up to three blocks in parts of two give an empty file, a short part,
a file that ends on a part boundary, and one with a part more; a configured part
size of 1 against a minimum of 2 exercises the clamp. The hazards of a workspace
are those of pairs of calls, and all pairs of kinds are initial states of the
one run; two blocks and two entries tell whole from partial. The paths of `service` are an empty one, one with "." and "..",
one through the place of the link, one into the other workspace, and an absolute
one; the archives are those between which the extraction distinguishes. What is
asked for does not depend on trees, nor trees on what is asked for: `AskDays` and
`ChangeDays` keep the two apart in the run, and not in the theorems. `MaxI64` is scaled down
to 7, with one limit beyond it, and units of limits to a core, a GiB, 128
processes. TLC follows no more than 32767 days: it crosses the leap day that
ends an era of 400 years (2000-02-29), and the theorem does the rest.

Each of these properties is also known to fail for a seeded defect: the
operators marked "Seeded defect" restate one definition the way a plausible bug
would, and are used by nothing else.

Fairness. `ServerFairSpec` is weak fairness of each call's server and daemon
steps taken together, which tokio's scheduler (a woken task is polled) and a
live daemon justify; timers are among them. Nothing is assumed of commands,
connection failures, clients or signals. `ClientFairness` is that clients that
stay connected keep reading, which HTTP/2 flow control makes necessary for a
stream to get on. No code guarantees it: `CallsEnd` and `ShutdownCompletes` have
it as a premise, `DeadlineStops` and `QueueWaitBounded` do without, the former
naming the phase in which it has nothing to say. `exec_v_drop` assumes it
(`FairSpec`), so that its counterexample is not one of a client that merely
waits. `NoStarvation` assumes fair `Resume` and `Release`; the latter is `CallsEnd` of `Exec`. Upload
assumes only that the blocking job, the handler and the timer go on: the store
may never answer. Workspace assumes that the server's own steps go on and that
the timeout of a fetch expires, and nothing of clients: an import or export
waits for its client without a timeout, which `CallsProceed` therefore excepts.
Deadlock is checked in every run; a quiet end state is the explicit step `Rest`.

### Disagreements with the documentation

These runs check one statement of the repository each and find it violated.

| Run | Statement | What the code does |
|---|---|---|
| `exec_v_cap` | "Hard cap on simultaneously running containers" (`config.rs:188`) | the permit of a oneshot call whose client vanishes is free at once, its container runs on |
| `exec_v_drop` | dropping the stream "spawns a best-effort kill+force-remove" (`runtime.rs:183`) | not before its first poll, and not after the guard was disarmed on the timeout path |
| `exec_v_code` | the exit code is captured "before Docker's AutoRemove races" (`runtime.rs:226`) | the wait request is sent after the start has returned; a fast command is reported with -1 |
| `upload_v_abort` | "aborts the in-progress upload on any error" (`oss.rs:188`) | `upload_timeout` drops the upload without an abort |
| `service_v_home` | "`{root}/{workspace_id}/home/` — bind-mounted as `/home/agent`" (`workspace.rs:17`) | a raw import with target path "" or "." deletes the home directory and puts its file there; all later calls that need the home fail, until the workspace is deleted |

Noted while reading, without a run of their own:

- `timeout_seconds` is a "Hard wall-clock timeout in seconds"
  (`sandbox.proto:74`). A stream looks at its deadline only when it is polled:
  with a client that stops reading it stands at a `yield`, and its container runs
  on (`DeadlineStops` excepts it).
- `tar_gz_into_temp` produces "a tar.gz of `source`" (`archive.rs:176`). The last
  write of the compressor happens when it is dropped; if that fails, the archive
  is cut short, and uploaded or exported with success (`ObjectWhole` and
  `AloneIsExact` except it).
- `tools.rs:115-119` tells the users of `execute_shell` of 4 vCPU, 8 GiB, 512
  processes and 2 GiB of /tmp, which are the heavy tier and not the defaults.
- The schema of `execute_shell` has a minimum of 1 for `timeout_seconds` next to
  a description that allows 0 (`tools.rs:389`), and no maximum, where the struct
  has a u32, which also refuses 1.0, an integer to JSON Schema (`SchemaAccepted`
  excepts both).
- `validate` accepts a default limit of 0, which is none to Docker (`Capped`
  excepts it), and does not ask that a heavy tier be "Meant to be ≥" the default
  (`config.rs:65`). A `workspace.root` with ".." in it passes, and `resolve_path`
  then refuses every path, since it cleans only one side of its comparison.
- `resolve_path` rejects "anything that would escape the root"
  (`workspace.rs:87`) by name, and so does not keep a path from leaving the
  workspace through a link that a command made there (`WorkspacesApart` excepts
  what is below the destination of such a link, and nothing else).
- A call that hits its deadline returns OK with `timed_out` set, where
  `docs/architecture.md:155` says it returns `DeadlineExceeded`, and
  `Error::ExecTimeout` is never constructed.
- `docs/architecture.md` gives 4 as the default of `max_concurrent_execs` (the
  code: 10), and 30 s as the meaning of an unset queue timeout (the code: no
  timeout); it speaks of "hardcoded ceilings" for resource limits, which the code
  does not have.
- `runtime.rs:84` says that the container is removed when the call returns, which
  a failed attach contradicts (`OrphanHasCause`, where `faulted` is a cause).

What overlapping calls on one workspace can do, which no document of the
repository rules out and the properties above therefore allow: two imports of
archives with several entries both return OK and leave a directory with entries
of both (`MixHasCause`); one returns OK although the removal by another, which
then fails, has taken some of its entries; a fetch returns OK for a file that
another fetch has truncated or replaced (`TornHasCause`); a deletion is undone by
a call that creates the parent of its target (`HomeOwned`).

## 4. Proofs

`tlapm` proves every safety property of the passing runs for any finite set of
calls and any values of the constants that satisfy the assumptions of the modules:
`CallsAssumption`, `ConfigAssumption` and `ExecAssumption`; `UploadAssumption`;
`WorkspaceAssumption`; `TreeAssumption`, `SettingsAssumption` and
`RequestAssumption`. They say that parameters are finite sets, numbers or
strings, and what a name is: the entries of an archive are not called ".", and
an archive unpacks to a tree, since unpacking creates the directories above an
entry. Each theorem follows from an inductive invariant, which adds to the
properties of a module what carries them from step to step.

**AdmissionProofs**. `GateInv` is the conjunction of `AdmissionTypeOK`,
`PermitConservation`, `NoIdlePermit` and `QueueExact`. None of the four is
inductive alone: passing a permit on keeps the count only because the head of
the queue is a waiting call, once; and the counter may stay as it is because it
is zero while somebody waits. The lemmas say what `Append`, `Tail` and
`RemoveAt` do to the entries of a queue without repetitions, and `PassOnEffect`
what a hand-over does to the sets of seated and waiting calls. From `GateInv`
follow the four invariants, `NoOvertaking`, and the refinement `PoolRefined`.

**ExecProofs**. `GateIsUsed`: every step of `Exec` is a step of the gate or
leaves it alone, so all of the above holds of `Exec`. `ExecInv` is `TypeOK`,
`GateInv`, and for each call `CallInv`, which adds to the properties what
carries them from step to step: no container before `creating`; a task only
after the end; `eof` of the attached stream means a stopped container and all
output read; a call in `finishing` has a stopped container, or its connection
failed. Each group of actions has a lemma that a step of one call establishes
`CallInv` for it and leaves others alone but for a granted permit
(`StepKeeps`); `BystanderKeeps` does the rest, and `NewProcessKeeps` the end of
the process. `CapHolds` assumes that clients stay, connections hold and the
server is not restarted (`Droppable = MayFault = {}`, `MaxRestarts = 0`); the
run `exec_v_cap` shows that it fails otherwise. What remains then is
`CapExceededByOrphans`: the cap is exceeded by the containers that `OrphanHasCause`
excuses, and by no other.

**CivilDateProofs**. `DateAlwaysRight`: `ymd_from_unix` gives the calendar's date
on every day from 1970-01-01 on. `DateRight` is its own inductive invariant, and
the step is arithmetic: a day is followed by a day of the same month
(`NextDayInMonth`), of the same year (`NextDayInYear`), of the same era of 400
years (`NextDayInEra`) or of the next (`NextEra`). `YearsOfEra` is the heart of
it, that the corrections by 1460, 36524 and 146096 yield the year whose days the
day lies between; `LeapCycle` matches years that start in March with leap days.

**UploadProofs**. `TypesInv` ties the offset to what has been hashed and what is
in the buffer, which bounds all three (`UploadTypes`). `ControlInv` adds, call by
call, which archive and session belong to which phase: `ArchiveInv`, from which
`ArchivesRemoved` follows, and `SessionInv`, by which a session is open at most
from the request that opens it to the answer to the one that closes it
(`SessionsClosed`). `ContentInv` adds what has been read (`ReadInv`): the parts
at the store, one after the other, are what was hashed, all parts but the last
are full, and both are a prefix of the source as long as nobody rewrites it; the
part in flight counts from the answer on. That only a reader at the end sends a
part that is not full is what makes `ReportsExact` and `RefusalsExplained` hold
at the boundaries; `ObjectsWhole` follows because an object changes only by
the request that names its key (`WrittenBy`).
`UploadIsAtomicWrite` is the refinement of `ObjectStore`. `ObjectStep` says what a
step may do to the object of its own call; most cases are stutters of the abstract
write, and the others show that a request which puts an object belongs to a call
that has not put one (`EffectWrites`), also when its reply is lost
(`FailIsFail`) or in a crash, where all calls fail together (`CrashIsFail`).
`UploadsTerminate` is the part of `UploadEnds` that needs no fairness: `Rank` is a
number which each step of a call lowers (`RankFalls`) and nothing raises
(`RankNeverRises`). The loop of `stream_parts` is why it needs `TypesInv`: a part
is sent only after a block was read, and offsets are bounded.

**SequenceInduction**. The parts of an upload are concatenated with the
library's `FlattenSeq`, which is recursive. The provers cannot instantiate the
library's induction theorems, so induction is done by hand: a set of numbers
that is not empty has a smallest member (`Smallest`), and the smallest number
for which a claim fails contradicts the claim for the number before. This shows
that the recursion has one solution, and what it does to an appended part
(`FlattenAppend`); `FileTreeProofs` uses `Smallest` for path cleaning.

**WorkspaceProofs**. `TypesInv` is the types, with the bound on file sizes, which
phase belongs to which call (`Fits`), and `Met`: calls that are under way at the
same time know of each other. Lemmas say which steps change what (`EndIs`,
`EndingIs`, `StepEnds`, `StepChanges`), and each property has an invariant of
its own over them.
`LeftoverInv` tracks what a call has made and not removed. `MixInv`: while an
import is about to put entries at the path, all that is there came from calls it
has met, since it has seen the path empty. `HomeInv`: a call that has created
the home finds it there unless it met a deletion. `LostInv`: once something has
been at the path, something is there, or a call that has removed it puts
something there next; `Kept` says that the piece it will put there is still
whole, so that it fails only because something is there already. For
`TearsExplained`, `FilesInv` says which files can be seen, and `BodyInv` that a
fetch which met no other writer has written a prefix of its body. For
`ExportsAreWhole`, `Published` files are those that were at the path when they
were whole: an export that met no fetch reads a prefix of one of those.
`AloneInv` describes a call that shares the workspace with no other, phase by
phase (`HomeReady`, `PieceReady`, `PathReady`, `ExportReady`, `EntriesReady`),
whatever earlier calls left there; `AloneExact` is the contract of all eight
operations: a call alone does what it promises, and an import fails only by a
fault. Faults that the code ignores are excepted there: the last write of a
compressor, and the removal of a staging file.

**FileTreeProofs**. A tree whose paths are sequences is changed by `CreateDirs`,
`Remove` and `Replace` only under the directory they are given a path of
(`CreateDirsApart` and the like), and changes under a directory compose
(`ApartTransitive`). Nothing is missing above what is in a tree (`Above`), so
that directories on the way to a path below an existing directory are made below
it (`PrefixesBelow`); `ThroughLink` says that a path through a link leads below
the destination of the link. `Clean` is a recursive function:
`CleanLeavesNoDots` shows that it yields a path without "." and "..", and `CleanOfClear` that it leaves
such paths alone. The same operators keep a tree `Upright`, every entry in a
directory, where `Blocked` does not forbid them (`CreateDirsUpright`,
`ReplaceUpright`), and `PackedUnpacked` says that unpacking what was packed
gives the subtree back.

**ServiceProofs**. `ServiceInv` is that the tree is `Upright`, with the types of
the rest. `CallStays`: each call is a composition of those operators on paths
that `resolve_path` let through, or changes nothing; `WrittenPlace` says where
such a path gets, below the workspace or below the destination of a link that
was in its home, since none is above it (`Blocked`). `WorkspacesStayApart`
follows, for any links, of which a path goes through one at most.
`ServiceTypes`: what entries appear below a file, `Blocked` forbids, and what
`Resolves` lets through never ends in ".." (`TargetIsClear`), so that its parent
is the directory it is put in. `RoundTrips` is `PackedUnpacked` for every
directory of such a tree without links: if entries could be missing on the way
down, the archive would not be one.
`SchemasAccepted` compares the two readings of arguments parameter by parameter
(`AllowedDecodes`). `ContainersCapped` needs that the configuration is valid and
what is asked for is a number (`ToolAsksNumbers`); `ContainerIsCapped` is then a
fact about `OrDefault` and `Memory`, with the exception of defaults of 0.
`ServiceDates` carries `DateAlwaysRight` over.

Only model-checked: the liveness properties (`NoStarvation`, `CallsEnd`,
`ShutdownCompletes`, `DeadlineStops`, `QueueWaitBounded`, `UploadEnds`,
`CallsProceed`), which need fairness and `ENABLED`, both beyond this prover.

## 5. Not modelled

- `Health` and the descriptions of the tools: no state.
- `SignedURL`, content types, sanitising of key segments, address checks of
  `fetch.rs`: pure functions without interaction. Status codes of errors.
- Reading the configuration file and the environment; the fields of it that
  only name things.
- Retries inside the AWS SDK.
- Of a recursive listing, the descent; the names of staging files and temporary
  archives, which come from a clock and are taken to be distinct.
- Docker image, deployment, CI; generated protobuf code; tracing.

## 6. What is left

An abstract `Transfer` (a target is replaced at once or not at all), which a raw
import implements for readers that open the path once; retries of the AWS SDK,
which can open a second multipart session; more than one target path in
`Workspace`.

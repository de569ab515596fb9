-------------------------------- MODULE Exec --------------------------------
(***************************************************************************)
(* The life of Exec and ExecStream calls: admission, workspace             *)
(* preparation, the requests to the Docker daemon, collecting or streaming *)
(* the output, the wall-clock deadline, the cleanup guard of a dropped     *)
(* stream, the shutdown of the server and its crash.                       *)
(*                                                                         *)
(* Sources: src/src/service.rs (do_exec_oneshot, exec_stream),             *)
(* src/src/runtime.rs (exec_oneshot, exec_stream, ContainerCleanupGuard)   *)
(* and src/src/main.rs.  The Docker daemon and the client are external: a  *)
(* request to the daemon takes effect (DaemonApplies) before its reply is  *)
(* seen, and a request whose future is dropped may or may not take effect. *)
(***************************************************************************)
EXTENDS Admission

CONSTANTS
    StreamCalls,  \* the calls that are ExecStream; the others are Exec
    Droppable,    \* calls whose client may go away before the end
    MayFault,     \* calls whose daemon connection may fail
    MaxChunks,    \* bound on the output of a command
    MaxRestarts   \* bound on the number of restarts of the server

ASSUME ExecAssumption ==
    /\ StreamCalls \subseteq Calls
    /\ Droppable \subseteq Calls
    /\ MayFault \subseteq Calls
    /\ MaxChunks \in Nat
    /\ MaxRestarts \in Nat

VARIABLES
    pc,        \* pc[c]: where the handler, or the stream it returned, is
    outcome,   \* outcome[c]: how the call ended or is about to end
    ctr,       \* ctr[c]: the container, as the daemon knows it
    made,      \* made[c]: output chunks the command has written
    got,       \* got[c]: output chunks the call has received
    attach,    \* attach[c]: the attached output stream
    wait,      \* wait[c]: the request for the exit code
    expired,   \* expired[c]: the wall-clock deadline of the call has passed
    task,      \* task[c]: the cleanup task the guard spawned
    faulted,   \* calls whose daemon connection failed at some point
    draining,  \* the server has received SIGTERM or SIGINT
    restarts   \* number of times the server was started again

callVars   == <<pc, outcome>>
ctrVars    == <<ctr, made>>
readVars   == <<got, attach, wait, expired>>
serverVars == <<draining, restarts>>
otherVars  == <<task, faulted, serverVars>>

execVars == <<admissionVars, callVars, ctrVars, readVars, otherVars>>

Phases == {"idle", "queued", "preparing", "creating", "attaching", "starting",
           "collecting", "unpolled", "pumping", "yielding", "killing",
           "removing", "finishing", "done"}

Outcomes == {"none", "exited", "timed_out", "exhausted", "invalid",
             "internal", "dropped", "crashed"}

\* "exited" still exists: AutoRemove has not run yet.
ContainerStates == {"none", "created", "running", "exited", "removed"}

\* Phases in which the call owns its permit.
Admitted == Phases \ {"idle", "queued", "done"}

\* Phases in which the cleanup guard exists and is armed: from the first
\* poll of the stream body until it leaves its select loop.
Guarded == {"pumping", "yielding"}

\* Phases in which the deadline timer exists.
Timed == {"collecting"} \union Guarded

Read(c) == wait[c] \in {"own", "lost"} /\ attach[c] \in {"eof", "err"}

TypeOK ==
    /\ AdmissionTypeOK
    /\ pc \in [Calls -> Phases]
    /\ outcome \in [Calls -> Outcomes]
    /\ ctr \in [Calls -> ContainerStates]
    /\ made \in [Calls -> 0 .. MaxChunks]
    /\ got \in [Calls -> 0 .. MaxChunks]
    /\ attach \in [Calls -> {"none", "open", "eof", "err"}]
    /\ wait \in [Calls -> {"unsent", "registered", "own", "lost"}]
    /\ expired \in [Calls -> BOOLEAN]
    /\ task \in [Calls -> {"none", "kill", "remove"}]
    /\ faulted \subseteq Calls
    /\ draining \in BOOLEAN
    /\ restarts \in 0 .. MaxRestarts

Init ==
    /\ AdmissionInit
    /\ pc = [c \in Calls |-> "idle"]
    /\ outcome = [c \in Calls |-> "none"]
    /\ ctr = [c \in Calls |-> "none"]
    /\ made = [c \in Calls |-> 0]
    /\ got = [c \in Calls |-> 0]
    /\ attach = [c \in Calls |-> "none"]
    /\ wait = [c \in Calls |-> "unsent"]
    /\ expired = [c \in Calls |-> FALSE]
    /\ task = [c \in Calls |-> "none"]
    /\ faulted = {}
    /\ draining = FALSE
    /\ restarts = 0

Goto(c, p) == pc' = [pc EXCEPT ![c] = p]

\* Seeded defect: the permit is returned to the counter past the waiters.
FinishPastQueue(c, o) ==
    /\ Goto(c, "done")
    /\ outcome' = [outcome EXCEPT ![c] = o]
    /\ seat[c] = "held"
    /\ seat' = [seat EXCEPT ![c] = "none"]
    /\ permits' = permits + 1
    /\ UNCHANGED queue

\* The call returns, or its stream is dropped: its permit is released.
Finish(c, o) ==
    /\ Goto(c, "done")
    /\ outcome' = [outcome EXCEPT ![c] = o]
    /\ Release(c)

-----------------------------------------------------------------------------
(* Admission and preparation.                                              *)

\* A request arrives: the call takes a permit or queues for one.
Arrive(c) ==
    /\ pc[c] = "idle"
    /\ ~draining
    /\ \/ TakePermit(c) /\ Goto(c, "preparing")
       \/ JoinQueue(c) /\ Goto(c, "queued")
    /\ UNCHANGED <<outcome, ctrVars, readVars, otherVars>>

\* The queued call is woken with a permit.
Admit(c) ==
    /\ pc[c] = "queued"
    /\ Resume(c)
    /\ Goto(c, "preparing")
    /\ UNCHANGED <<outcome, ctrVars, readVars, otherVars>>

\* Seeded defect: the elapsed queue timeout is taken for an admission.
QueueTimeoutAdmits(c) ==
    /\ pc[c] = "queued"
    /\ HasQueueTimeout
    /\ GiveUp(c)
    /\ Goto(c, "preparing")
    /\ UNCHANGED <<outcome, ctrVars, readVars, otherVars>>

\* The queue timeout elapses: RESOURCE_EXHAUSTED.
QueueTimesOut(c) ==
    /\ pc[c] = "queued"
    /\ HasQueueTimeout
    /\ GiveUp(c)
    /\ Goto(c, "done")
    /\ outcome' = [outcome EXCEPT ![c] = "exhausted"]
    /\ UNCHANGED <<ctrVars, readVars, otherVars>>

\* build_exec_params: the workspace directory is there.
Prepare(c) ==
    /\ pc[c] = "preparing"
    /\ Goto(c, "creating")
    /\ UNCHANGED <<admissionVars, outcome, ctrVars, readVars, otherVars>>

\* Seeded defect: an error before the container is created keeps the permit.
PrepareFailsKeepingPermit(c) ==
    /\ pc[c] = "preparing"
    /\ Goto(c, "done")
    /\ outcome' = [outcome EXCEPT ![c] = "invalid"]
    /\ UNCHANGED <<admissionVars, ctrVars, readVars, otherVars>>

\* build_exec_params: the workspace id is refused, or creating the directory
\* fails.
PrepareFails(c) ==
    /\ pc[c] = "preparing"
    /\ \E o \in {"invalid", "internal"} : Finish(c, o)
    /\ UNCHANGED <<ctrVars, readVars, otherVars>>

-----------------------------------------------------------------------------
(* Requests to the Docker daemon.                                          *)

\* The request in flight for the container of c: the one its handler awaits,
\* or else the one the cleanup task of its guard awaits.
Request(c) == CASE task[c] = "kill"   -> "killing"
                [] task[c] = "remove" -> "removing"
                [] OTHER              -> pc[c]

\* What the request r does to a container in state s.
Effect(r, s) ==
    CASE r = "creating" /\ s = "none"      -> "created"
      [] r = "starting" /\ s = "created"   -> "running"
      [] r = "killing"  /\ s = "running"   -> "exited"
      [] r = "removing" /\ s # "none"      -> "removed"
      [] OTHER                             -> s

\* Calls whose request has not been carried out yet.
InFlight == {c \in Calls : Effect(Request(c), ctr[c]) # ctr[c]}

\* The replies to the requests of S will not be seen: each of those in flight
\* is carried out or not.
MaySettle(S) ==
    \E applied \in SUBSET (S \intersect InFlight) :
        ctr' = [c \in Calls |-> IF c \in applied
                                THEN Effect(Request(c), ctr[c])
                                ELSE ctr[c]]

\* The daemon carries out the request in flight.
DaemonApplies(c) ==
    /\ c \in InFlight
    /\ ctr' = [ctr EXCEPT ![c] = Effect(Request(c), ctr[c])]
    /\ UNCHANGED <<admissionVars, callVars, made, readVars, otherVars>>

\* create_container returns the id of the container.
CreateReplies(c) ==
    /\ pc[c] = "creating"
    /\ ctr[c] = "created"
    /\ Goto(c, "attaching")
    /\ UNCHANGED <<admissionVars, outcome, ctrVars, readVars, otherVars>>

\* The daemon refuses to create the container (no such image, bad limits).
CreateRefused(c) ==
    /\ pc[c] = "creating"
    /\ ctr[c] = "none"
    /\ Finish(c, "internal")
    /\ UNCHANGED <<ctrVars, readVars, otherVars>>

\* attach_container is connected, before the container is started.
AttachReplies(c) ==
    /\ pc[c] = "attaching"
    /\ attach' = [attach EXCEPT ![c] = "open"]
    /\ Goto(c, "starting")
    /\ UNCHANGED <<admissionVars, outcome, ctrVars, got, wait, expired,
                   otherVars>>

\* start_container returns: exec_oneshot goes on to read the output, while
\* exec_stream returns a stream nobody has polled.
StartReplies(c) ==
    /\ pc[c] = "starting"
    /\ ctr[c] \in {"running", "exited", "removed"}
    /\ Goto(c, IF c \in StreamCalls THEN "unpolled" ELSE "collecting")
    /\ UNCHANGED <<admissionVars, outcome, ctrVars, readVars, otherVars>>

\* The daemon cannot start the container, and removes it (AutoRemove).
StartRefused(c) ==
    /\ pc[c] = "starting"
    /\ ctr[c] = "created"
    /\ ctr' = [ctr EXCEPT ![c] = "removed"]
    /\ Finish(c, "internal")
    /\ UNCHANGED <<made, readVars, otherVars>>

\* The connection fails during create, attach or start: the error is
\* returned with `?`, and nothing removes what was created.
RequestFails(c) ==
    /\ c \in MayFault
    /\ pc[c] \in {"creating", "attaching", "starting"}
    /\ MaySettle({c})
    /\ faulted' = faulted \union {c}
    /\ Finish(c, "internal")
    /\ UNCHANGED <<made, readVars, task, serverVars>>

-----------------------------------------------------------------------------
(* The command inside the container, and the daemon's AutoRemove.          *)

\* The command writes a chunk of output.
Output(c) ==
    /\ ctr[c] = "running"
    /\ made[c] < MaxChunks
    /\ made' = [made EXCEPT ![c] = @ + 1]
    /\ UNCHANGED <<admissionVars, callVars, ctr, readVars, otherVars>>

\* The command exits by itself.  It may never do so.
CommandExits(c) ==
    /\ ctr[c] = "running"
    /\ ctr' = [ctr EXCEPT ![c] = "exited"]
    /\ UNCHANGED <<admissionVars, callVars, made, readVars, otherVars>>

\* The daemon deletes a container that has stopped (auto_remove).
AutoRemove(c) ==
    /\ ctr[c] = "exited"
    /\ ctr' = [ctr EXCEPT ![c] = "removed"]
    /\ UNCHANGED <<admissionVars, callVars, made, readVars, otherVars>>

-----------------------------------------------------------------------------
(* Reading the output and the exit code: the collect and wait futures of   *)
(* exec_oneshot, the select loop of exec_stream.                           *)

\* The request for the exit code goes out when its stream is first polled,
\* after the container was started: AutoRemove may have been faster, and then
\* the daemon answers that there is no such container.
WaitArrives(c) ==
    /\ pc[c] \in Timed
    /\ wait[c] = "unsent"
    /\ wait' = [wait EXCEPT ![c] = IF ctr[c] = "removed" THEN "lost"
                                                         ELSE "registered"]
    /\ UNCHANGED <<admissionVars, callVars, ctrVars, got, attach, expired,
                   otherVars>>

\* A registered request is answered with the exit code of the command.
WaitReplies(c) ==
    /\ pc[c] \in Timed
    /\ wait[c] = "registered"
    /\ ctr[c] \in {"exited", "removed"}
    /\ wait' = [wait EXCEPT ![c] = "own"]
    /\ UNCHANGED <<admissionVars, callVars, ctrVars, got, attach, expired,
                   otherVars>>

\* The connection of the request fails; the code takes -1 for the exit code.
WaitFails(c) ==
    /\ c \in MayFault
    /\ pc[c] \in Timed
    /\ wait[c] \in {"unsent", "registered"}
    /\ wait' = [wait EXCEPT ![c] = "lost"]
    /\ faulted' = faulted \union {c}
    /\ UNCHANGED <<admissionVars, callVars, ctrVars, got, attach, expired,
                   task, serverVars>>

\* A chunk of output: exec_oneshot appends it, exec_stream yields it and is
\* not polled again until the transport asks for more.
AttachChunk(c) ==
    /\ pc[c] \in {"collecting", "pumping"}
    /\ attach[c] = "open"
    /\ got[c] < made[c]
    /\ got' = [got EXCEPT ![c] = @ + 1]
    /\ Goto(c, IF c \in StreamCalls THEN "yielding" ELSE "collecting")
    /\ UNCHANGED <<admissionVars, outcome, ctrVars, attach, wait, expired,
                   otherVars>>

\* The attached stream ends, after the last chunk of a stopped container.
AttachEnds(c) ==
    /\ pc[c] \in {"collecting", "pumping"}
    /\ attach[c] = "open"
    /\ got[c] = made[c]
    /\ ctr[c] \in {"exited", "removed"}
    /\ attach' = [attach EXCEPT ![c] = "eof"]
    /\ UNCHANGED <<admissionVars, callVars, ctrVars, got, wait, expired,
                   otherVars>>

\* The attached connection fails: both variants stop reading.
AttachFails(c) ==
    /\ c \in MayFault
    /\ pc[c] \in {"collecting", "pumping"}
    /\ attach[c] = "open"
    /\ attach' = [attach EXCEPT ![c] = "err"]
    /\ faulted' = faulted \union {c}
    /\ UNCHANGED <<admissionVars, callVars, ctrVars, got, wait, expired, task,
                   serverVars>>

\* The wall-clock deadline passes.
Expire(c) ==
    /\ pc[c] \in Timed
    /\ ~expired[c]
    /\ expired' = [expired EXCEPT ![c] = TRUE]
    /\ UNCHANGED <<admissionVars, callVars, ctrVars, got, attach, wait,
                   otherVars>>

\* tokio::join! is complete: exec_oneshot returns the collected output.
OneshotReturns(c) ==
    /\ pc[c] = "collecting"
    /\ Read(c)
    /\ Finish(c, "exited")
    /\ UNCHANGED <<ctrVars, readVars, otherVars>>

\* Transport and client: the stream body is polled for the first time, which
\* creates the cleanup guard and the deadline timer.
FirstPoll(c) ==
    /\ pc[c] = "unpolled"
    /\ Goto(c, "pumping")
    /\ UNCHANGED <<admissionVars, outcome, ctrVars, readVars, otherVars>>

\* Transport and client: the yielded chunk is sent, and the body polled again.
TakeChunk(c) ==
    /\ pc[c] = "yielding"
    /\ Goto(c, "pumping")
    /\ UNCHANGED <<admissionVars, outcome, ctrVars, readVars, otherVars>>

\* Seeded defect: the select loop ends with the exit code, without waiting
\* for the end of the output.
PumpFinishesOnExit(c) ==
    /\ pc[c] = "pumping"
    /\ wait[c] \in {"own", "lost"}
    /\ Goto(c, "finishing")
    /\ outcome' = [outcome EXCEPT ![c] = "exited"]
    /\ UNCHANGED <<admissionVars, ctrVars, readVars, otherVars>>

\* The select loop ends and Finished is yielded; the guard is disarmed.
PumpFinishes(c) ==
    /\ pc[c] = "pumping"
    /\ Read(c)
    /\ Goto(c, "finishing")
    /\ outcome' = [outcome EXCEPT ![c] = "exited"]
    /\ UNCHANGED <<admissionVars, ctrVars, readVars, otherVars>>

\* Transport and client: the body is polled to its end and dropped, and with
\* it the permit that was moved into it.
Drain(c) ==
    /\ pc[c] = "finishing"
    /\ Finish(c, outcome[c])
    /\ UNCHANGED <<ctrVars, readVars, otherVars>>

-----------------------------------------------------------------------------
(* The timeout path: kill, then force-remove, ignoring the errors of both. *)

\* Seeded defect: the call gives up on the container without killing it.
TimesOutLeavingContainer(c) ==
    /\ pc[c] \in {"collecting", "pumping"}
    /\ expired[c]
    /\ ~Read(c)
    /\ Finish(c, "timed_out")
    /\ UNCHANGED <<ctrVars, readVars, otherVars>>

\* Seeded defect: a command that has written output is not timed out.
TimesOutWhenSilent(c) ==
    /\ pc[c] \in {"collecting", "pumping"}
    /\ expired[c]
    /\ ~Read(c)
    /\ got[c] = 0
    /\ Goto(c, "killing")
    /\ UNCHANGED <<admissionVars, outcome, ctrVars, readVars, otherVars>>

\* The deadline is noticed: by exec_oneshot as soon as it passes, by
\* exec_stream when its body is polled.  The guard of the stream is disarmed.
TimesOut(c) ==
    /\ pc[c] \in {"collecting", "pumping"}
    /\ expired[c]
    /\ ~Read(c)
    /\ Goto(c, "killing")
    /\ UNCHANGED <<admissionVars, outcome, ctrVars, readVars, otherVars>>

\* exec_oneshot returns with timed_out set; exec_stream yields Finished.
ReportTimeout(c) ==
    \/ /\ c \notin StreamCalls
       /\ Finish(c, "timed_out")
    \/ /\ c \in StreamCalls
       /\ Goto(c, "finishing")
       /\ outcome' = [outcome EXCEPT ![c] = "timed_out"]
       /\ UNCHANGED admissionVars

\* Seeded defect: the container is killed, and its removal left to chance.
KillReturnsForGood(c) ==
    /\ pc[c] = "killing"
    /\ ctr[c] # "running"
    /\ ReportTimeout(c)
    /\ UNCHANGED <<ctrVars, readVars, otherVars>>

\* kill_container returns, with an error if the container was not running.
KillReturns(c) ==
    /\ pc[c] = "killing"
    /\ ctr[c] # "running"
    /\ Goto(c, "removing")
    /\ UNCHANGED <<admissionVars, outcome, ctrVars, readVars, otherVars>>

\* The connection of kill_container fails, and the code goes on.
KillFails(c) ==
    /\ c \in MayFault
    /\ pc[c] = "killing"
    /\ MaySettle({c})
    /\ faulted' = faulted \union {c}
    /\ Goto(c, "removing")
    /\ UNCHANGED <<admissionVars, outcome, made, readVars, task, serverVars>>

\* remove_container returns.
RemoveReturns(c) ==
    /\ pc[c] = "removing"
    /\ ctr[c] = "removed"
    /\ ReportTimeout(c)
    /\ UNCHANGED <<ctrVars, readVars, otherVars>>

\* The connection of remove_container fails, and the code goes on.
RemoveFails(c) ==
    /\ c \in MayFault
    /\ pc[c] = "removing"
    /\ MaySettle({c})
    /\ faulted' = faulted \union {c}
    /\ ReportTimeout(c)
    /\ UNCHANGED <<made, readVars, task, serverVars>>

-----------------------------------------------------------------------------
(* A client that goes away, and the cleanup task of the guard.             *)

\* Seeded defect: the guard of a dropped stream spawns no task.
DropWithoutSweep(c) ==
    /\ c \in Droppable
    /\ pc[c] \notin {"idle", "done"}
    /\ MaySettle({c})
    /\ \/ pc[c] = "queued" /\ GiveUp(c)
       \/ pc[c] # "queued" /\ Release(c)
    /\ Goto(c, "done")
    /\ outcome' = [outcome EXCEPT ![c] = "dropped"]
    /\ UNCHANGED <<made, readVars, otherVars>>

\* The transport drops the handler's future, or the stream it returned: the
\* permit is released on the spot.  Only an armed guard does anything about
\* the container, by spawning a task.
Drop(c) ==
    /\ c \in Droppable
    /\ pc[c] \notin {"idle", "done"}
    /\ MaySettle({c})
    /\ \/ pc[c] = "queued" /\ GiveUp(c)
       \/ pc[c] # "queued" /\ Release(c)
    /\ Goto(c, "done")
    /\ outcome' = [outcome EXCEPT ![c] = "dropped"]
    /\ task' = [task EXCEPT ![c] = IF pc[c] \in Guarded THEN "kill" ELSE @]
    /\ UNCHANGED <<made, readVars, faulted, serverVars>>

\* The task's kill_container returns, or fails; both are ignored.
TaskKills(c) ==
    /\ task[c] = "kill"
    /\ \/ /\ ctr[c] # "running"
          /\ UNCHANGED <<ctr, faulted>>
       \/ /\ c \in MayFault
          /\ MaySettle({c})
          /\ faulted' = faulted \union {c}
    /\ task' = [task EXCEPT ![c] = "remove"]
    /\ UNCHANGED <<admissionVars, callVars, made, readVars, serverVars>>

\* The task's remove_container returns, or fails; the task ends.
TaskRemoves(c) ==
    /\ task[c] = "remove"
    /\ \/ /\ ctr[c] = "removed"
          /\ UNCHANGED <<ctr, faulted>>
       \/ /\ c \in MayFault
          /\ MaySettle({c})
          /\ faulted' = faulted \union {c}
    /\ task' = [task EXCEPT ![c] = "none"]
    /\ UNCHANGED <<admissionVars, callVars, made, readVars, serverVars>>

-----------------------------------------------------------------------------
(* The server: graceful shutdown, crash, and the process that follows.     *)

\* SIGTERM or SIGINT: no call is accepted any more, those in progress go on.
Shutdown ==
    /\ restarts < MaxRestarts
    /\ ~draining
    /\ draining' = TRUE
    /\ UNCHANGED <<admissionVars, callVars, ctrVars, readVars, task, faulted,
                   restarts>>

\* A new process takes over.  Its semaphore is new, the cleanup tasks of the
\* old one are gone with its runtime, and nothing looks for containers that
\* were left behind.
NewProcess ==
    /\ Reset
    /\ MaySettle(Calls)
    /\ task' = [c \in Calls |-> "none"]
    /\ draining' = FALSE
    /\ restarts' = restarts + 1
    /\ UNCHANGED <<made, readVars, faulted>>

\* Seeded defect: the shutdown waits for containers that nobody removes.
ExitAfterContainers ==
    /\ draining
    /\ \A c \in Calls : /\ pc[c] \in {"idle", "done"}
                        /\ ctr[c] \in {"none", "removed"}
    /\ NewProcess
    /\ UNCHANGED callVars

\* serve_with_shutdown returns once every call has ended.
Exit ==
    /\ draining
    /\ \A c \in Calls : pc[c] \in {"idle", "done"}
    /\ NewProcess
    /\ UNCHANGED callVars

\* The process is killed, at any point.
Crash ==
    /\ restarts < MaxRestarts
    /\ NewProcess
    /\ pc' = [c \in Calls |-> IF pc[c] = "idle" THEN "idle" ELSE "done"]
    /\ outcome' = [c \in Calls |->
                      IF pc[c] \in {"idle", "done"} THEN outcome[c]
                                                    ELSE "crashed"]

\* Every call has ended and left nothing in motion.
Rest ==
    /\ \A c \in Calls : /\ pc[c] = "done"
                        /\ task[c] = "none"
                        /\ ctr[c] \notin {"running", "exited"}
    /\ UNCHANGED execVars

-----------------------------------------------------------------------------
\* Steps of the server and the daemon that nothing can keep from happening.
ServerStep(c) ==
    \/ Admit(c) \/ QueueTimesOut(c) \/ Prepare(c) \/ PrepareFails(c)
    \/ DaemonApplies(c) \/ CreateReplies(c) \/ CreateRefused(c)
    \/ AttachReplies(c) \/ StartReplies(c) \/ StartRefused(c)
    \/ AutoRemove(c) \/ WaitArrives(c) \/ WaitReplies(c)
    \/ AttachChunk(c) \/ AttachEnds(c) \/ Expire(c)
    \/ OneshotReturns(c) \/ PumpFinishes(c) \/ TimesOut(c)
    \/ KillReturns(c) \/ RemoveReturns(c)
    \/ TaskKills(c) \/ TaskRemoves(c)

\* Steps that also need the client to take what it is sent.
ClientStep(c) == FirstPoll(c) \/ TakeChunk(c) \/ Drain(c)

\* What may happen and need not.
FreeStep(c) ==
    \/ Arrive(c) \/ Output(c) \/ CommandExits(c) \/ Drop(c)
    \/ RequestFails(c) \/ WaitFails(c) \/ AttachFails(c)
    \/ KillFails(c) \/ RemoveFails(c)

Next ==
    \/ \E c \in Calls : ServerStep(c) \/ ClientStep(c) \/ FreeStep(c)
    \/ Shutdown \/ Exit \/ Crash \/ Rest

Spec == Init /\ [][Next]_execVars

ServerFairness == /\ \A c \in Calls : WF_execVars(ServerStep(c))
                  /\ WF_execVars(Exit)
ClientFairness == \A c \in Calls : WF_execVars(ClientStep(c))

\* Nobody but the server and the daemon is obliged to do anything.
ServerFairSpec == Spec /\ ServerFairness

\* Clients that stay connected also keep reading.
FairSpec == ServerFairSpec /\ ClientFairness

-----------------------------------------------------------------------------
Running == {c \in Calls : ctr[c] = "running"}

\* Every way out of a call (each `?` of do_exec_oneshot and exec_stream, a
\* refused or lost request, the two ends of a stream, the queue timeout, a
\* dropped future, a crash) gives the permit back, once, and no call works on
\* a container without owning one.
SeatMatchesPhase ==
    \A c \in Calls :
        /\ pc[c] \in Admitted <=> seat[c] = "held"
        /\ pc[c] = "queued"   <=> seat[c] \in {"waiting", "granted"}

\* The cap of config.rs:188: never more running containers than permits.  It
\* holds as long as clients stay, the daemon connection does not fail and
\* the server is not restarted.
HardCap == Cardinality(Running) <= Capacity

\* A container runs without an owned permit only after its client went away,
\* the server crashed, or a daemon connection failed; never after a refusal,
\* a timeout, a normal end or a queue timeout.
OrphanHasCause ==
    \A c \in Running :
        \/ seat[c] = "held"
        \/ outcome[c] \in {"dropped", "crashed"}
        \/ c \in faulted

\* A call reported as finished has stopped its command and delivered all the
\* output it wrote: joining (or selecting over) the two streams ends the call
\* neither with the exit code nor with the output alone.  A failed daemon
\* connection is excepted: the code takes it for the end of the output.
FinishedIsComplete ==
    \A c \in Calls \ faulted :
        outcome[c] = "exited" => /\ ctr[c] \in {"exited", "removed"}
                                 /\ got[c] = made[c]

\* When a call reports its timeout the container is gone, in whatever order
\* the deadline, the exit of the command and AutoRemove came; unless a daemon
\* connection failed: the errors of kill and remove are ignored, and after
\* both of them timed_out is reported of a container that runs on.
TimeoutLeavesNothing ==
    \A c \in Calls \ faulted : outcome[c] = "timed_out" => ctr[c] = "removed"

\* The container of a stream that was polled and then dropped is not left to
\* itself as long as its command runs: the call or its cleanup task
\* (ContainerCleanupGuard::drop) is in charge of it, in whatever order the
\* client, the task, the daemon and the command take their steps.  There is no
\* such promise once the deadline has passed, since its handling disarms the
\* guard before the kill (runtime.rs:270), nor if a daemon connection failed or
\* a process ended with its tasks.  A first poll shows in the request for the
\* exit code, or in output.
GuardSweeps ==
    \A c \in StreamCalls \ faulted :
        /\ ctr[c] = "running"
        /\ wait[c] # "unsent" \/ got[c] > 0
        => \/ seat[c] = "held" \/ task[c] = "kill"
           \/ expired[c] \/ restarts > 0

\* Every call ends if clients that stay keep reading, even when the command
\* never exits, no queue timeout is configured, and connections to the
\* daemon fail: its own deadline and those of the calls before it see to it.
CallsEnd ==
    ClientFairness => \A c \in Calls : pc[c] # "idle" ~> pc[c] = "done"

\* A graceful shutdown does not hang in Exec or ExecStream: once SIGTERM is
\* received, the process exits after the calls in progress have run into their
\* deadlines, if clients that stay keep reading.  (serve_with_shutdown also
\* waits for imports and exports, which wait for their clients without any
\* timeout; they are calls of module Workspace.)
ShutdownCompletes == ClientFairness => draining ~> ~draining

\* Once the deadline of a call has passed, its container does not go on for
\* ever, unless the server crashes or its connection to the daemon fails, or
\* the client has stopped reading: a stream that stands at a yield does not
\* look at its deadline (runtime.rs:242), though sandbox.proto:74 calls it a
\* "Hard wall-clock timeout".  Nothing is assumed of clients.
DeadlineStops ==
    \A c \in Calls :
        expired[c] ~> \/ ctr[c] # "running"
                      \/ pc[c] = "yielding"
                      \/ outcome[c] = "crashed"
                      \/ c \in faulted

\* A queued call leaves the queue whatever the clients of the calls before
\* it do: the queue timeout is the server's own.
QueueWaitBounded == \A c \in Calls : pc[c] = "queued" ~> pc[c] # "queued"

\* The Exec and ExecStream handlers use the gate as module Admission says.
GateRefined == AdmissionSpec
=============================================================================

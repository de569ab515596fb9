----------------------------- MODULE ExecProofs ------------------------------
(***************************************************************************)
(* Proofs about module Exec, for any finite set of calls, whichever of     *)
(* them may be dropped or lose the daemon, and any bounds.                 *)
(***************************************************************************)
EXTENDS Exec, AdmissionProofs

Stopped == {"exited", "removed"}

\* The phases before the first poll of a stream.
Unpolled == {"idle", "queued", "preparing", "creating", "attaching",
             "starting", "unpolled"}

\* What holds of a stream besides: nothing is read before its first poll, the
\* deadline leads to the kill, and somebody is in charge of its container.
StreamInv(c) ==
    /\ pc[c] # "collecting"
    /\ pc[c] \in Unpolled => wait[c] = "unsent" /\ got[c] = 0
    /\ pc[c] \in {"killing", "removing"} => expired[c]
    /\ ctr[c] = "running" => \/ seat[c] = "held" \/ task[c] = "kill"
                             \/ wait[c] = "unsent" /\ got[c] = 0
                             \/ expired[c] \/ restarts > 0 \/ c \in faulted

\* What holds of one call, whatever the others do.  The lines on the attached
\* stream and on "finishing" carry the end of the command over from the step
\* that saw it to the step that reports it.
CallInv(c) ==
    /\ pc[c] \in Admitted <=> seat[c] = "held"
    /\ pc[c] = "queued" <=> seat[c] \in {"waiting", "granted"}
    /\ pc[c] \in {"idle", "queued", "preparing"} => ctr[c] = "none"
    /\ pc[c] \in {"idle", "queued", "preparing", "creating", "attaching"}
       => attach[c] = "none"
    /\ task[c] # "none" => pc[c] = "done"
    /\ attach[c] = "eof" => ctr[c] \in Stopped /\ got[c] = made[c]
    /\ attach[c] = "err" => c \in faulted
    /\ pc[c] = "finishing" => ctr[c] \in Stopped \/ c \in faulted
    /\ outcome[c] = "exited" => attach[c] = "eof" \/ c \in faulted
    /\ outcome[c] = "timed_out" => ctr[c] = "removed" \/ c \in faulted
    /\ outcome[c] = "dropped" => c \in Droppable
    /\ outcome[c] = "crashed" => restarts > 0
    /\ c \in faulted => c \in MayFault
    /\ ctr[c] = "running" => \/ seat[c] = "held"
                             \/ outcome[c] \in {"dropped", "crashed"}
                             \/ c \in faulted
    /\ c \in StreamCalls => StreamInv(c)

ExecInv ==
    /\ TypeOK
    /\ GateInv
    /\ \A c \in Calls : CallInv(c)
    /\ draining => restarts < MaxRestarts

\* The variables that belong to one call, but for its seat.
Untouched(d) ==
    /\ pc'[d] = pc[d] /\ outcome'[d] = outcome[d]
    /\ ctr'[d] = ctr[d] /\ made'[d] = made[d]
    /\ got'[d] = got[d] /\ attach'[d] = attach[d]
    /\ wait'[d] = wait[d] /\ expired'[d] = expired[d]
    /\ task'[d] = task[d]
    /\ d \in faulted' <=> d \in faulted

\* A call that is not the one that takes a step: at most it is granted the
\* permit it waits for.
Bystander(d) ==
    /\ Untouched(d)
    /\ \/ seat'[d] = seat[d]
       \/ seat[d] = "waiting" /\ seat'[d] = "granted"

-----------------------------------------------------------------------------
(* The gate, as the handlers use it.                                       *)

\* Every step of a call is a step of the gate, or leaves it alone.
LEMMA StepUsesGate ==
    ASSUME NEW c \in Calls, ServerStep(c) \/ ClientStep(c) \/ FreeStep(c)
    PROVE  \/ TakePermit(c) \/ JoinQueue(c) \/ Resume(c)
           \/ GiveUp(c) \/ Release(c)
           \/ UNCHANGED admissionVars
BY DEF ServerStep, ClientStep, FreeStep, Arrive, Admit, QueueTimesOut,
       Prepare, PrepareFails, Finish, DaemonApplies, CreateReplies,
       CreateRefused, AttachReplies, StartReplies, StartRefused,
       RequestFails, Output, CommandExits, AutoRemove, WaitArrives,
       WaitReplies, WaitFails, AttachChunk, AttachEnds, AttachFails, Expire,
       OneshotReturns, FirstPoll, TakeChunk, PumpFinishes, Drain, TimesOut,
       ReportTimeout, KillReturns, KillFails, RemoveReturns, RemoveFails,
       Drop, TaskKills, TaskRemoves

\* The handlers and the server use the gate as module Admission says.
THEOREM GateIsUsed == Spec => GateRefined
<1>1. Init => AdmissionInit
  BY DEF Init
<1>2. [Next]_execVars => [AdmissionNext]_admissionVars
  <2> SUFFICES ASSUME [Next]_execVars
               PROVE  [AdmissionNext]_admissionVars
    OBVIOUS
  <2>1. ASSUME NEW c \in Calls,
               ServerStep(c) \/ ClientStep(c) \/ FreeStep(c)
        PROVE  [AdmissionNext]_admissionVars
    BY <2>1, StepUsesGate DEF AdmissionNext
  <2>2. CASE Shutdown \/ Rest \/ UNCHANGED execVars
    BY <2>2 DEF Shutdown, Rest, execVars
  <2>3. CASE Exit \/ Crash
    BY <2>3 DEF Exit, Crash, NewProcess, AdmissionNext
  <2> QED  BY <2>1, <2>2, <2>3 DEF Next
<1> QED  BY <1>1, <1>2, PTL DEF Spec, GateRefined, AdmissionSpec

\* So they keep its invariant.
LEMMA GateKept == GateInv /\ [Next]_execVars => GateInv'
<1>1. ASSUME NEW c \in Calls, ServerStep(c) \/ ClientStep(c) \/ FreeStep(c)
      PROVE  [AdmissionNext]_admissionVars
  BY <1>1, StepUsesGate DEF AdmissionNext
<1>2. ASSUME Shutdown \/ Rest \/ UNCHANGED execVars
      PROVE  [AdmissionNext]_admissionVars
  BY <1>2 DEF Shutdown, Rest, execVars
<1>3. ASSUME Exit \/ Crash
      PROVE  [AdmissionNext]_admissionVars
  BY <1>3 DEF Exit, Crash, NewProcess, AdmissionNext
<1> QED  BY <1>1, <1>2, <1>3, GateInvStep DEF Next

\* A call that leaves the gate is out of it, and nobody else's seat changes
\* but that of the waiter who is handed the permit.
LEMMA LeaveEffect ==
    ASSUME GateInv, NEW c \in Calls, GiveUp(c) \/ Release(c)
    PROVE  /\ seat'[c] = "none"
           /\ \A d \in Calls \ {c} :
                 \/ seat'[d] = seat[d]
                 \/ seat[d] = "waiting" /\ seat'[d] = "granted"
<1> USE DEF GateInv, AdmissionTypeOK
<1>1. CASE PassOn(c) /\ seat[c] \in {"granted", "held"}
  <2>1. CASE queue = <<>>
    BY <1>1, <2>1 DEF PassOn
  <2>2. CASE queue # <<>>
    <3>1. Head(queue) \in Waiters
      BY <2>2, TailEntries DEF QueueExact
    <3>2. seat' = [seat EXCEPT ![c] = "none", ![Head(queue)] = "granted"]
      BY <1>1, <2>2 DEF PassOn
    <3> QED  BY <1>1, <3>1, <3>2 DEF Waiters
  <2> QED  BY <2>1, <2>2
<1>2. CASE seat' = [seat EXCEPT ![c] = "none"]
  BY <1>2
<1> QED  BY <1>1, <1>2 DEF GiveUp, Release

-----------------------------------------------------------------------------
(* The container, as requests change it.                                   *)

\* How the container of d may change in a step.
CtrMoves(d) ==
    /\ ctr'[d] \in ContainerStates
    /\ ctr[d] \in Stopped => ctr'[d] \in Stopped
    /\ ctr[d] = "removed" => ctr'[d] = "removed"
    /\ ctr'[d] = "running" => ctr[d] = "running" \/ Request(d) = "starting"
    /\ ctr[d] = "none" /\ Request(d) # "creating" => ctr'[d] = "none"

\* No request revives a stopped container, or does another one's work.
LEMMA EffectMoves ==
    ASSUME NEW d \in Calls, ctr[d] \in ContainerStates,
           ctr'[d] \in {ctr[d], Effect(Request(d), ctr[d])}
    PROVE  CtrMoves(d)
BY DEF CtrMoves, Effect, ContainerStates, Stopped

\* Requests that are given up on change the containers they are for.
LEMMA SettleMoves ==
    ASSUME TypeOK, NEW S, MaySettle(S)
    PROVE  /\ ctr' \in [Calls -> ContainerStates]
           /\ \A d \in Calls : CtrMoves(d)
           /\ \A d \in Calls \ S : ctr'[d] = ctr[d]
<1>1. PICK applied \in SUBSET (S \intersect InFlight) :
         ctr' = [c \in Calls |-> IF c \in applied
                                 THEN Effect(Request(c), ctr[c])
                                 ELSE ctr[c]]
  BY DEF MaySettle
<1>2. \A d \in Calls : ctr'[d] \in {ctr[d], Effect(Request(d), ctr[d])}
  BY <1>1
<1>3. \A d \in Calls : CtrMoves(d)
  BY <1>2, EffectMoves DEF TypeOK
<1>4. ctr' \in [Calls -> ContainerStates]
  BY <1>1, <1>3 DEF CtrMoves
<1> QED  BY <1>1, <1>3, <1>4

-----------------------------------------------------------------------------
(* The invariant.                                                          *)

\* The type of what is not the gate's.
CallTypeOK ==
    /\ pc \in [Calls -> Phases]
    /\ outcome \in [Calls -> Outcomes]
    /\ ctr \in [Calls -> ContainerStates]
    /\ made \in [Calls -> 0 .. MaxChunks]
    /\ got \in [Calls -> 0 .. MaxChunks]
    /\ attach \in [Calls -> {"none", "open", "eof", "err"}]
    /\ wait \in [Calls -> {"unsent", "registered", "own", "lost"}]
    /\ expired \in [Calls -> BOOLEAN]
    /\ task \in [Calls -> {"none", "kill", "remove"}]
    /\ faulted \subseteq Calls
    /\ draining \in BOOLEAN
    /\ restarts \in 0 .. MaxRestarts

\* What a step of call c has to establish.
StepKeeps(c) ==
    /\ CallTypeOK'
    /\ UNCHANGED serverVars
    /\ CallInv(c)'
    /\ \A d \in Calls \ {c} : Bystander(d)

\* A new server has no calls.
LEMMA ExecInvInit == Init => ExecInv
<1> SUFFICES ASSUME Init PROVE ExecInv
  OBVIOUS
<1>1. GateInv
  BY GateInvInit DEF Init
<1>2. 0 \in 0 .. MaxChunks /\ 0 \in 0 .. MaxRestarts
  BY ExecAssumption
<1>3. TypeOK
  <2>1. /\ pc \in [Calls -> Phases]
        /\ outcome \in [Calls -> Outcomes]
        /\ ctr \in [Calls -> ContainerStates]
    BY DEF Init, Phases, Outcomes, ContainerStates
  <2>2. /\ made \in [Calls -> 0 .. MaxChunks]
        /\ got \in [Calls -> 0 .. MaxChunks]
        /\ restarts \in 0 .. MaxRestarts
    BY <1>2 DEF Init
  <2>3. /\ attach \in [Calls -> {"none", "open", "eof", "err"}]
        /\ wait \in [Calls -> {"unsent", "registered", "own", "lost"}]
        /\ expired \in [Calls -> BOOLEAN]
        /\ task \in [Calls -> {"none", "kill", "remove"}]
        /\ faulted \subseteq Calls
        /\ draining \in BOOLEAN
    BY DEF Init
  <2> QED  BY <1>1, <2>1, <2>2, <2>3 DEF TypeOK, GateInv
<1>4. \A c \in Calls : CallInv(c)
  BY DEF Init, AdmissionInit, CallInv, StreamInv, Unpolled, Admitted, Phases
<1> QED  BY <1>1, <1>3, <1>4 DEF ExecInv, Init

\* Entering the gate, and queueing there.
LEMMA GateSteps ==
    ASSUME ExecInv, NEW c \in Calls,
           \/ Arrive(c) \/ Admit(c) \/ QueueTimesOut(c)
           \/ Prepare(c) \/ PrepareFails(c)
    PROVE  StepKeeps(c)
<1> USE DEF ExecInv, TypeOK, CallTypeOK, StepKeeps, Bystander, Untouched,
            ctrVars, readVars, otherVars, serverVars, Goto
<1>g. AdmissionTypeOK
  OBVIOUS
<1>1. CASE Arrive(c)
  <2>1. /\ pc[c] = "idle" /\ seat' = [seat EXCEPT ![c] = seat'[c]]
        /\ \/ seat'[c] = "held" /\ Goto(c, "preparing")
           \/ seat'[c] = "waiting" /\ Goto(c, "queued")
        /\ UNCHANGED <<outcome, ctrVars, readVars, otherVars>>
    BY <1>1, <1>g DEF Arrive, TakePermit, JoinQueue, AdmissionTypeOK
  <2>2. pc' \in [Calls -> Phases] /\ \A d \in Calls \ {c} : pc'[d] = pc[d]
    BY <2>1 DEF Phases
  <2>3. pc'[c] = IF seat'[c] = "held" THEN "preparing" ELSE "queued"
    BY <2>1
  <2>4. CallTypeOK'
    BY <2>1, <2>2
  <2>5. CallInv(c)'
    <3>1. /\ pc'[c] \in {"preparing", "queued"}
          /\ pc'[c] \in Admitted <=> seat'[c] = "held"
          /\ pc'[c] = "queued" <=> seat'[c] \in {"waiting", "granted"}
      <4>1. CASE seat'[c] = "held"
        BY <2>3, <4>1 DEF Admitted, Phases
      <4>2. CASE seat'[c] = "waiting"
        BY <2>3, <4>2 DEF Admitted, Phases
      <4> QED  BY <2>1, <4>1, <4>2
    <3>2. UNCHANGED <<ctrVars, readVars, otherVars, outcome>>
      BY <2>1
    <3>3. /\ CallInv(c) /\ ctr[c] = "none" /\ attach[c] = "none"
          /\ task[c] = "none"
      BY <2>1 DEF CallInv, StreamInv, Unpolled
    <3> QED  BY <2>1, <3>1, <3>2, <3>3 DEF CallInv, StreamInv, Unpolled
  <2>6. \A d \in Calls \ {c} : Bystander(d)
    BY <1>g, <2>1, <2>2 DEF AdmissionTypeOK
  <2> QED  BY <2>1, <2>4, <2>5, <2>6
<1>2. CASE Admit(c)
  BY <1>2 DEF Admit, Resume, AdmissionTypeOK, Phases, CallInv, StreamInv,
              Unpolled, Admitted
<1>3. CASE QueueTimesOut(c)
  BY <1>3, LeaveEffect DEF QueueTimesOut, Phases, Outcomes, CallInv,
                           StreamInv, Unpolled, Admitted
<1>4. CASE Prepare(c)
  BY <1>4 DEF Prepare, admissionVars, Phases, CallInv, StreamInv, Unpolled,
              Admitted
<1>5. CASE PrepareFails(c)
  BY <1>5, LeaveEffect DEF PrepareFails, Finish, Phases, Outcomes, CallInv,
                           StreamInv, Unpolled,
                           Admitted
<1> QED  BY <1>1, <1>2, <1>3, <1>4, <1>5

\* Requests to the daemon, and what happens inside the container.
LEMMA DaemonSteps ==
    ASSUME ExecInv, NEW c \in Calls,
           \/ DaemonApplies(c) \/ CreateReplies(c) \/ CreateRefused(c)
           \/ AttachReplies(c) \/ StartReplies(c) \/ StartRefused(c)
           \/ RequestFails(c) \/ Output(c) \/ CommandExits(c) \/ AutoRemove(c)
    PROVE  StepKeeps(c)
<1> USE DEF ExecInv, TypeOK, CallTypeOK, StepKeeps, Bystander, Untouched,
            callVars, ctrVars, readVars, otherVars, serverVars, Goto
<1>1. CASE DaemonApplies(c)
  <2>1. /\ ctr' = [ctr EXCEPT ![c] = Effect(Request(c), ctr[c])]
        /\ UNCHANGED <<admissionVars, callVars, made, readVars, otherVars>>
    BY <1>1 DEF DaemonApplies
  <2>2. CtrMoves(c)
    BY <2>1, EffectMoves
  <2>3. Request(c) = "starting" => pc[c] = "starting"
    BY DEF Request
  <2>4. Request(c) = "creating" => pc[c] = "creating"
    BY DEF Request
  <2> QED
    BY <2>1, <2>2, <2>3, <2>4
       DEF CtrMoves, admissionVars, CallInv, StreamInv, Unpolled, Admitted,
           Phases
<1>2. CASE CreateReplies(c)
  BY <1>2 DEF CreateReplies, admissionVars, Phases, CallInv, StreamInv,
              Unpolled, Admitted
<1>3. CASE CreateRefused(c)
  BY <1>3, LeaveEffect DEF CreateRefused, Finish, Phases, Outcomes, CallInv,
                           StreamInv, Unpolled,
                           Admitted
<1>4. CASE AttachReplies(c)
  BY <1>4 DEF AttachReplies, admissionVars, Phases, CallInv, StreamInv,
              Unpolled, Admitted
<1>5. CASE StartReplies(c)
  BY <1>5 DEF StartReplies, admissionVars, Phases, CallInv, StreamInv,
              Unpolled, Admitted
<1>6. CASE StartRefused(c)
  BY <1>6, LeaveEffect DEF StartRefused, Finish, Phases, Outcomes,
                           ContainerStates, Stopped, CallInv, StreamInv,
                           Unpolled, Admitted
<1>7. CASE RequestFails(c)
  <2>1. /\ CtrMoves(c)
        /\ ctr' \in [Calls -> ContainerStates]
        /\ \A d \in Calls \ {c} : ctr'[d] = ctr[d]
    BY <1>7, SettleMoves DEF RequestFails
  <2>2. /\ c \in MayFault /\ faulted' = faulted \union {c}
        /\ pc[c] \in {"creating", "attaching", "starting"}
        /\ pc' = [pc EXCEPT ![c] = "done"]
        /\ outcome' = [outcome EXCEPT ![c] = "internal"]
        /\ Release(c)
        /\ UNCHANGED <<made, readVars, task, serverVars>>
    BY <1>7 DEF RequestFails, Finish
  <2>3. CallTypeOK' /\ UNCHANGED serverVars
    BY <2>1, <2>2 DEF Phases, Outcomes
  <2>4. CallInv(c)'
    BY <2>1, <2>2, LeaveEffect DEF CtrMoves, CallInv, StreamInv, Unpolled,
                                   Admitted, Phases
  <2>5. \A d \in Calls \ {c} : Bystander(d)
    BY <2>1, <2>2, LeaveEffect
  <2> QED  BY <2>3, <2>4, <2>5
<1>8. CASE Output(c)
  BY <1>8, ExecAssumption DEF Output, admissionVars, Stopped, CallInv,
                              StreamInv, Unpolled
<1>9. CASE CommandExits(c) \/ AutoRemove(c)
  BY <1>9 DEF CommandExits, AutoRemove, admissionVars, ContainerStates,
              Stopped, CallInv, StreamInv, Unpolled
<1> QED  BY <1>1, <1>2, <1>3, <1>4, <1>5, <1>6, <1>7, <1>8, <1>9

\* Reading the output and the exit code, and the end of a call.
LEMMA ReadSteps ==
    ASSUME ExecInv, NEW c \in Calls,
           \/ WaitArrives(c) \/ WaitReplies(c) \/ WaitFails(c)
           \/ AttachChunk(c) \/ AttachEnds(c) \/ AttachFails(c)
           \/ Expire(c) \/ OneshotReturns(c) \/ FirstPoll(c) \/ TakeChunk(c)
           \/ PumpFinishes(c) \/ Drain(c)
    PROVE  StepKeeps(c)
<1> USE DEF ExecInv, TypeOK, CallTypeOK, StepKeeps, Bystander, Untouched,
            callVars, ctrVars, readVars, otherVars, serverVars, Goto
<1>1. CASE WaitArrives(c)
  BY <1>1 DEF WaitArrives, Timed, Guarded, admissionVars, CallInv, StreamInv,
              Unpolled, Admitted, Phases
<1>10. CASE WaitReplies(c)
  BY <1>10 DEF WaitReplies, admissionVars, CallInv, StreamInv, Unpolled
<1>11. CASE Expire(c)
  BY <1>11 DEF Expire, admissionVars, CallInv, StreamInv, Unpolled
<1>2. CASE WaitFails(c)
  BY <1>2 DEF WaitFails, Timed, Guarded, admissionVars, CallInv, StreamInv,
              Unpolled
<1>3. CASE AttachChunk(c)
  BY <1>3, ExecAssumption
     DEF AttachChunk, admissionVars, Phases, CallInv, StreamInv, Unpolled,
         Admitted
<1>4. CASE AttachEnds(c)
  BY <1>4 DEF AttachEnds, admissionVars, Stopped, CallInv, StreamInv, Unpolled
<1>5. CASE AttachFails(c)
  BY <1>5 DEF AttachFails, admissionVars, CallInv, StreamInv, Unpolled
<1>6. CASE OneshotReturns(c)
  BY <1>6, LeaveEffect DEF OneshotReturns, Read, Finish, Phases, Outcomes,
                           Stopped, CallInv, StreamInv, Unpolled, Admitted
<1>7. CASE FirstPoll(c) \/ TakeChunk(c)
  BY <1>7 DEF FirstPoll, TakeChunk, admissionVars, Phases, CallInv, StreamInv,
              Unpolled, Admitted
<1>8. CASE PumpFinishes(c)
  BY <1>8 DEF PumpFinishes, Read, admissionVars, Phases, Outcomes, CallInv,
              StreamInv, Unpolled,
              Admitted
<1>9. CASE Drain(c)
  BY <1>9, LeaveEffect DEF Drain, Finish, Phases, Outcomes, Stopped, CallInv,
                           StreamInv, Unpolled,
                           Admitted
<1> QED  BY <1>1, <1>2, <1>3, <1>4, <1>5, <1>6, <1>7, <1>8, <1>9, <1>10, <1>11

\* The timeout path.
LEMMA TimeoutSteps ==
    ASSUME ExecInv, NEW c \in Calls,
           \/ TimesOut(c) \/ KillReturns(c) \/ KillFails(c)
           \/ RemoveReturns(c) \/ RemoveFails(c)
    PROVE  StepKeeps(c)
<1> USE DEF ExecInv, TypeOK, CallTypeOK, StepKeeps, Bystander, Untouched,
            callVars, ctrVars, readVars, otherVars, serverVars, Goto
<1>1. CASE TimesOut(c) \/ KillReturns(c)
  BY <1>1 DEF TimesOut, KillReturns, admissionVars, Phases, CallInv,
              StreamInv, Unpolled, Admitted
<1>2. CASE KillFails(c)
  <2>1. /\ CtrMoves(c)
        /\ ctr' \in [Calls -> ContainerStates]
        /\ \A d \in Calls \ {c} : ctr'[d] = ctr[d]
    BY <1>2, SettleMoves DEF KillFails
  <2>2. CallTypeOK'
    BY <1>2, <2>1 DEF KillFails, admissionVars, Phases
  <2>3. UNCHANGED serverVars /\ CallInv(c)'
    BY <1>2, <2>1 DEF KillFails, CtrMoves, Request, admissionVars, Phases,
                      CallInv, StreamInv, Unpolled, Admitted
  <2>4. \A d \in Calls \ {c} : Bystander(d)
    BY <1>2, <2>1 DEF KillFails, admissionVars
  <2> QED
    BY <2>2, <2>3, <2>4
<1>3. CASE RemoveReturns(c)
  <2>1. CASE Finish(c, "timed_out")
    BY <1>3, <2>1, LeaveEffect DEF RemoveReturns, Finish, Phases, Outcomes,
                                   CallInv, StreamInv, Unpolled, Admitted
  <2>2. CASE /\ Goto(c, "finishing")
             /\ outcome' = [outcome EXCEPT ![c] = "timed_out"]
             /\ UNCHANGED admissionVars
    BY <1>3, <2>2 DEF RemoveReturns, admissionVars, Phases, Outcomes, Stopped,
                      CallInv, StreamInv, Unpolled, Admitted
  <2> QED  BY <1>3, <2>1, <2>2 DEF RemoveReturns, ReportTimeout
<1>4. CASE RemoveFails(c)
  <2>1. /\ CtrMoves(c)
        /\ ctr' \in [Calls -> ContainerStates]
        /\ \A d \in Calls \ {c} : ctr'[d] = ctr[d]
    BY <1>4, SettleMoves DEF RemoveFails
  <2>2. /\ c \in MayFault /\ pc[c] = "removing"
        /\ faulted' = faulted \union {c}
        /\ UNCHANGED <<made, readVars, task, serverVars>>
    BY <1>4 DEF RemoveFails
  <2>3. CASE Finish(c, "timed_out")
    BY <2>1, <2>2, <2>3, LeaveEffect
       DEF Finish, CtrMoves, Phases, Outcomes, CallInv, StreamInv, Unpolled,
           Admitted
  <2>4. CASE /\ Goto(c, "finishing")
             /\ outcome' = [outcome EXCEPT ![c] = "timed_out"]
             /\ UNCHANGED admissionVars
    BY <2>1, <2>2, <2>4
       DEF admissionVars, CtrMoves, Phases, Outcomes, CallInv, StreamInv,
           Unpolled, Admitted
  <2> QED  BY <1>4, <2>3, <2>4 DEF RemoveFails, ReportTimeout
<1> QED  BY <1>1, <1>2, <1>3, <1>4

\* A client that goes away, and the cleanup task.
LEMMA CleanupSteps ==
    ASSUME ExecInv, NEW c \in Calls, Drop(c) \/ TaskKills(c) \/ TaskRemoves(c)
    PROVE  StepKeeps(c)
<1> USE DEF ExecInv, TypeOK, CallTypeOK, StepKeeps, Bystander, Untouched,
            callVars, ctrVars, readVars, otherVars, serverVars, Goto
<1>1. CASE Drop(c)
  <2>1. /\ CtrMoves(c)
        /\ ctr' \in [Calls -> ContainerStates]
        /\ \A d \in Calls \ {c} : ctr'[d] = ctr[d]
    BY <1>1, SettleMoves DEF Drop
  <2>2. /\ c \in Droppable
        /\ GiveUp(c) \/ Release(c)
        /\ pc' = [pc EXCEPT ![c] = "done"]
        /\ outcome' = [outcome EXCEPT ![c] = "dropped"]
        /\ task' \in [Calls -> {"none", "kill", "remove"}]
        /\ \A d \in Calls \ {c} : task'[d] = task[d]
        /\ UNCHANGED <<made, readVars, faulted, serverVars>>
    BY <1>1 DEF Drop
  <2>3. CallTypeOK' /\ UNCHANGED serverVars
    BY <2>1, <2>2 DEF Phases, Outcomes
  <2>4. CallInv(c)'
    <3>1. Request(c) = "starting" => pc[c] = "starting"
      BY DEF Request
    <3>2. pc[c] \in Guarded => task'[c] = "kill"
      BY <1>1 DEF Drop
    <3>3. pc[c] \in Phases \ {"idle", "done"}
      BY <1>1 DEF Drop
    <3>4. c \in StreamCalls => StreamInv(c)'
      BY <2>1, <2>2, <3>1, <3>2, <3>3
         DEF CtrMoves, CallInv, StreamInv, Unpolled, Guarded, Phases, Stopped
    <3> QED
      BY <2>1, <2>2, <3>4, LeaveEffect DEF CtrMoves, CallInv, Admitted, Phases
  <2>5. \A d \in Calls \ {c} : Bystander(d)
    BY <2>1, <2>2, LeaveEffect
  <2> QED  BY <2>3, <2>4, <2>5
<1>2. CASE TaskKills(c) \/ TaskRemoves(c)
  <2>1. /\ task[c] # "none" /\ pc[c] = "done"
        /\ faulted' \in {faulted, faulted \union {c}}
        /\ c \in faulted' => c \in faulted \/ c \in MayFault
        /\ ctr' = ctr \/ MaySettle({c})
        /\ task' \in [Calls -> {"none", "kill", "remove"}]
        /\ \A d \in Calls \ {c} : task'[d] = task[d]
        /\ UNCHANGED <<admissionVars, callVars, made, readVars, serverVars>>
    BY <1>2 DEF TaskKills, TaskRemoves, CallInv, StreamInv, Unpolled
  <2>2. /\ CtrMoves(c)
        /\ ctr' \in [Calls -> ContainerStates]
        /\ \A d \in Calls \ {c} : ctr'[d] = ctr[d]
    BY <2>1, SettleMoves DEF CtrMoves
  <2>3. Request(c) # "starting"
    BY <2>1 DEF Request
  <2>4. task[c] = "kill" => ctr[c] # "running" \/ c \in faulted'
    BY <1>2 DEF TaskKills, TaskRemoves
  <2>5. c \in StreamCalls => StreamInv(c)'
    BY <2>1, <2>2, <2>3, <2>4
       DEF CtrMoves, CallInv, StreamInv, Unpolled, admissionVars
  <2> QED
    BY <2>1, <2>2, <2>3, <2>5
       DEF admissionVars, CtrMoves, CallInv, Admitted, Phases
<1> QED  BY <1>1, <1>2

\* What a step of one call does not touch stays as it should be.
LEMMA BystanderKeeps ==
    ASSUME ExecInv, NEW d \in Calls, Bystander(d), UNCHANGED serverVars
    PROVE  CallInv(d)'
BY DEF ExecInv, Bystander, Untouched, CallInv, StreamInv, Unpolled, Admitted,
       serverVars

\* A step of a call preserves the invariant.
LEMMA CallStepKeeps ==
    ASSUME ExecInv, GateInv', NEW c \in Calls,
           ServerStep(c) \/ ClientStep(c) \/ FreeStep(c)
    PROVE  ExecInv'
<1>1. StepKeeps(c)
  BY GateSteps, DaemonSteps, ReadSteps, TimeoutSteps, CleanupSteps
     DEF ServerStep, ClientStep, FreeStep
<1>2. \A d \in Calls : CallInv(d)'
  BY <1>1, BystanderKeeps DEF StepKeeps
<1>3. TypeOK'
  BY <1>1 DEF StepKeeps, CallTypeOK, TypeOK, GateInv
<1> QED  BY <1>1, <1>2, <1>3 DEF ExecInv, StepKeeps, serverVars

\* A process that goes away takes its calls and its tasks with it; those it
\* leaves in the records of the daemon have a cause.
LEMMA NewProcessKeeps ==
    ASSUME ExecInv, GateInv', Exit \/ Crash
    PROVE  ExecInv'
<1> USE DEF ExecInv, TypeOK
<1>1. /\ \A d \in Calls : CtrMoves(d)
      /\ ctr' \in [Calls -> ContainerStates]
  BY SettleMoves DEF Exit, Crash, NewProcess
<1>2. /\ \A d \in Calls : seat'[d] = "none"
      /\ task' = [d \in Calls |-> "none"]
      /\ draining' = FALSE
      /\ restarts' = restarts + 1 /\ restarts < MaxRestarts
      /\ UNCHANGED <<made, readVars, faulted>>
  BY DEF Exit, Crash, NewProcess, Reset
<1>3. /\ pc' \in [Calls -> {"idle", "done"}]
      /\ outcome' \in [Calls -> Outcomes]
      /\ \A d \in Calls : /\ pc[d] = "idle" <=> pc'[d] = "idle"
                          /\ pc[d] \in {"idle", "done"}
                             => outcome'[d] = outcome[d]
                          /\ pc[d] \notin {"idle", "done"}
                             => outcome'[d] = "crashed"
  <2>1. CASE Exit
    BY <2>1 DEF Exit, callVars
  <2>2. CASE Crash
    BY <2>2 DEF Crash, Outcomes
  <2> QED  BY <2>1, <2>2
<1>4. restarts' \in 0 .. MaxRestarts /\ restarts' > 0
  BY <1>2, ExecAssumption
<1>5. TypeOK'
  <2>1. AdmissionTypeOK' /\ pc' \in [Calls -> Phases]
    BY <1>3 DEF GateInv, Phases
  <2>2. UNCHANGED <<made, got, attach, wait, expired, faulted>>
    BY <1>2 DEF readVars
  <2>3. task' \in [Calls -> {"none", "kill", "remove"}] /\ draining' \in BOOLEAN
    BY <1>2
  <2> QED  BY <1>1, <1>3, <1>4, <2>1, <2>2, <2>3
<1>6. ASSUME NEW d \in Calls
      PROVE  CallInv(d)'
  <2>1. pc[d] \in {"idle", "done"} => Request(d) \notin {"starting", "creating"}
    BY DEF Request, CallInv, StreamInv, Unpolled
  <2> QED
    BY <1>1, <1>2, <1>3, <1>4, <2>1
       DEF CtrMoves, CallInv, StreamInv, Unpolled, Admitted, Phases, readVars
<1> QED  BY <1>2, <1>5, <1>6

\* Every step preserves the invariant.
LEMMA ExecInvStep == ExecInv /\ [Next]_execVars => ExecInv'
<1> SUFFICES ASSUME ExecInv, [Next]_execVars
             PROVE  ExecInv'
  OBVIOUS
<1>1. GateInv'
  BY GateKept DEF ExecInv
<1>2. ASSUME NEW c \in Calls, ServerStep(c) \/ ClientStep(c) \/ FreeStep(c)
      PROVE  ExecInv'
  BY <1>1, <1>2, CallStepKeeps
<1>3. CASE Exit \/ Crash
  BY <1>1, <1>3, NewProcessKeeps
<1>4. CASE Shutdown
  BY <1>1, <1>4, ExecAssumption
     DEF Shutdown, ExecInv, TypeOK, GateInv, CallInv, StreamInv, Unpolled,
         admissionVars, callVars,
         ctrVars, readVars
<1>5. CASE Rest \/ UNCHANGED execVars
  BY <1>1, <1>5
     DEF Rest, execVars, ExecInv, TypeOK, GateInv, CallInv, StreamInv,
         Unpolled, admissionVars,
         callVars, ctrVars, readVars, otherVars, serverVars
<1> QED  BY <1>2, <1>3, <1>4, <1>5 DEF Next

\* The invariant of the whole holds of every run.
THEOREM ExecInvariant == Spec => []ExecInv
<1> QED  BY ExecInvInit, ExecInvStep, PTL DEF Spec

-----------------------------------------------------------------------------
(* What follows from the invariant.                                        *)

\* Every variable of Exec keeps its type.
THEOREM ExecTypeCorrect == Spec => []TypeOK
<1>1. ExecInv => TypeOK
  BY DEF ExecInv
<1> QED  BY <1>1, ExecInvariant, PTL

\* Every way out of a call gives its permit back.
THEOREM SeatsFollowPhases == Spec => []SeatMatchesPhase
<1>1. ExecInv => SeatMatchesPhase
  BY DEF ExecInv, CallInv, SeatMatchesPhase
<1> QED  BY <1>1, ExecInvariant, PTL

\* A container runs without a permit only after a dropped client, a crash or
\* a failed daemon connection.
THEOREM OrphansHaveCauses == Spec => []OrphanHasCause
<1>1. ExecInv => OrphanHasCause
  BY DEF ExecInv, CallInv, OrphanHasCause, Running
<1> QED  BY <1>1, ExecInvariant, PTL

\* A finished call has stopped its command and delivered its output.
THEOREM FinishedCallsAreComplete == Spec => []FinishedIsComplete
<1>1. ExecInv => FinishedIsComplete
  BY DEF ExecInv, CallInv, FinishedIsComplete, Stopped
<1> QED  BY <1>1, ExecInvariant, PTL

\* A call that reports its timeout has removed its container.
THEOREM TimeoutsLeaveNothing == Spec => []TimeoutLeavesNothing
<1>1. ExecInv => TimeoutLeavesNothing
  BY DEF ExecInv, CallInv, TimeoutLeavesNothing
<1> QED  BY <1>1, ExecInvariant, PTL

\* Containers that run on although their call has ended, for one of the causes
\* OrphanHasCause names.
Orphans == {c \in Running : \/ outcome[c] \in {"dropped", "crashed"}
                            \/ c \in faulted}

\* What remains of the cap on running containers (config.rs:188) whatever
\* fails: it is exceeded by the orphans at most, one for each.
CapButForOrphans ==
    /\ Cardinality(Running \ Orphans) <= Capacity
    /\ Cardinality(Running) <= Capacity + Cardinality(Orphans)

LEMMA CapFromInvariant == ExecInv => CapButForOrphans
<1> SUFFICES ASSUME ExecInv PROVE CapButForOrphans
  OBVIOUS
<1>1. Running \ Orphans \subseteq Seated
  BY DEF ExecInv, CallInv, Running, Orphans, Seated
<1>2. /\ Cardinality(Running \ Orphans) <= Cardinality(Seated)
      /\ Cardinality(Running \ Orphans) \in Nat
  BY <1>1, SeatedFinite, FS_Subset, FS_CardinalityType
<1>3. Cardinality(Seated) <= Capacity
  BY SeatedFinite, CapacityPositive
     DEF ExecInv, GateInv, PermitConservation, AdmissionTypeOK
<1>4. Cardinality(Running \ Orphans) <= Capacity
  BY <1>2, <1>3, SeatedFinite, CapacityPositive
<1>5. IsFiniteSet(Running) /\ IsFiniteSet(Orphans)
  <2>1. Running \subseteq Calls /\ Orphans \subseteq Running
    BY DEF Running, Orphans
  <2>2. IsFiniteSet(Calls)
    BY CallsAssumption
  <2> QED  BY <2>1, <2>2, FS_Subset
<1>6. Running \intersect Orphans = Orphans
  BY DEF Orphans
<1>7. Cardinality(Running \ Orphans)
      = Cardinality(Running) - Cardinality(Orphans)
  BY <1>5, <1>6, FS_Difference
<1>8. Cardinality(Running) \in Nat /\ Cardinality(Orphans) \in Nat
  BY <1>5, FS_CardinalityType
<1> QED
  BY <1>4, <1>7, <1>8, CapacityPositive DEF CapButForOrphans

\* The cap is exceeded by no more than the containers whose client vanished,
\* whose server was killed or whose daemon connection failed: neither a
\* refusal nor a timeout nor a normal end ever costs the host a container.
THEOREM CapExceededByOrphans == Spec => []CapButForOrphans
BY CapFromInvariant, ExecInvariant, PTL

\* Where clients stay, daemon connections hold and the server is not
\* restarted, there are never more running containers than permits.
THEOREM CapHolds ==
    ASSUME Droppable = {}, MayFault = {}, MaxRestarts = 0
    PROVE  Spec => []HardCap
<1>1. ExecInv => HardCap
  <2> SUFFICES ASSUME ExecInv PROVE HardCap
    OBVIOUS
  <2>1. restarts = 0
    BY DEF ExecInv, TypeOK
  <2>2. Orphans = {}
    BY <2>1 DEF ExecInv, CallInv, Running, Orphans
  <2>3. Running \ Orphans = Running
    BY <2>2
  <2> QED  BY <2>3, CapFromInvariant DEF CapButForOrphans, HardCap
<1> QED  BY <1>1, ExecInvariant, PTL

\* The container of a polled stream always has somebody in charge of it, until
\* its deadline has passed, a connection fails or the process ends.
THEOREM GuardAlwaysSweeps == Spec => []GuardSweeps
<1>1. ExecInv => GuardSweeps
  BY ExecAssumption DEF ExecInv, CallInv, StreamInv, GuardSweeps
<1> QED  BY <1>1, ExecInvariant, PTL
=============================================================================

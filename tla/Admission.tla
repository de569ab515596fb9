----------------------------- MODULE Admission ------------------------------
(***************************************************************************)
(* The gate in front of every Exec and ExecStream call: a tokio semaphore  *)
(* of effective_max permits, acquired under an optional queue timeout      *)
(* (SandboxService::acquire_exec_permit, src/src/service.rs).              *)
(*                                                                         *)
(* The semaphore itself is a library.  As the code uses it, one permit at  *)
(* a time, it is a counter and a FIFO list of waiters: a permit given back *)
(* is assigned to the first waiter before anybody else can see it, and a   *)
(* waiter that disappears after it was assigned a permit, but before it    *)
(* was polled again, passes the permit on.                                 *)
(***************************************************************************)
EXTENDS Integers, Sequences, FiniteSets, SequencesExt

CONSTANTS
    Calls,               \* the calls a client may make
    MaxConcurrentExecs,  \* concurrency.max_concurrent_execs
    QueueTimeoutSeconds  \* concurrency.exec_queue_timeout_seconds

ASSUME CallsAssumption == IsFiniteSet(Calls)

\* Both settings are u32: any value the file gives is accepted.
ASSUME ConfigAssumption ==
    /\ MaxConcurrentExecs \in Nat
    /\ QueueTimeoutSeconds \in Nat

VARIABLES
    permits,  \* permits nobody owns (available_permits)
    queue,    \* waiters, first come first
    seat      \* seat[c]: where call c stands with the gate

admissionVars == <<permits, queue, seat>>

\* ConcurrencyConfig::effective_max: zero selects the built-in default.
DefaultCapacity == 10
Capacity == IF MaxConcurrentExecs = 0 THEN DefaultCapacity
                                      ELSE MaxConcurrentExecs

\* Seeded defect: the test for "no timeout" is the wrong way round.
HasQueueTimeoutInverted == QueueTimeoutSeconds = 0

\* ConcurrencyConfig::effective_queue_timeout: zero is None, no timeout.
HasQueueTimeout == QueueTimeoutSeconds # 0

\* "granted": a permit was assigned while the call was parked, and the call
\* has not been polled since.
Seats == {"none", "waiting", "granted", "held"}

Seated  == {c \in Calls : seat[c] \in {"granted", "held"}}
Waiters == {c \in Calls : seat[c] = "waiting"}

AdmissionTypeOK ==
    /\ permits \in 0 .. Capacity
    /\ queue \in Seq(Calls)
    /\ seat \in [Calls -> Seats]

AdmissionInit ==
    /\ permits = Capacity
    /\ queue = <<>>
    /\ seat = [c \in Calls |-> "none"]

-----------------------------------------------------------------------------
\* Seeded defect: the permit always goes back to the counter, and waiters
\* are left parked.
PassOnToCounter(c) ==
    /\ permits' = permits + 1
    /\ seat' = [seat EXCEPT ![c] = "none"]
    /\ UNCHANGED queue

\* Seeded defect: the most recent waiter is served first.
PassOnLastCome(c) ==
    \/ /\ queue = <<>>
       /\ permits' = permits + 1
       /\ seat' = [seat EXCEPT ![c] = "none"]
       /\ UNCHANGED queue
    \/ /\ queue # <<>>
       /\ queue' = Front(queue)
       /\ seat' = [seat EXCEPT ![c] = "none", ![Last(queue)] = "granted"]
       /\ UNCHANGED permits

\* Seeded defect: the permit goes to the first waiter and to the counter.
PassOnTwice(c) ==
    /\ seat' = [x \in Calls |->
                   IF x = c THEN "none"
                   ELSE IF queue # <<>> /\ x = Head(queue) THEN "granted"
                   ELSE seat[x]]
    /\ queue' = IF queue = <<>> THEN queue ELSE Tail(queue)
    /\ permits' = permits + 1

\* Call c gives up the permit it owns: the first waiter gets it, and only
\* without a waiter does it become available.
PassOn(c) ==
    \/ /\ queue = <<>>
       /\ permits' = permits + 1
       /\ seat' = [seat EXCEPT ![c] = "none"]
       /\ UNCHANGED queue
    \/ /\ queue # <<>>
       /\ queue' = Tail(queue)
       /\ seat' = [seat EXCEPT ![c] = "none", ![Head(queue)] = "granted"]
       /\ UNCHANGED permits

\* acquire_owned finds a permit on its first poll.
TakePermit(c) ==
    /\ seat[c] = "none"
    /\ permits > 0
    /\ permits' = permits - 1
    /\ seat' = [seat EXCEPT ![c] = "held"]
    /\ UNCHANGED queue

\* acquire_owned finds none and parks the call at the end of the queue.
JoinQueue(c) ==
    /\ seat[c] = "none"
    /\ permits = 0
    /\ queue' = Append(queue, c)
    /\ seat' = [seat EXCEPT ![c] = "waiting"]
    /\ UNCHANGED permits

\* The parked call is polled and finds the permit it was assigned.
Resume(c) ==
    /\ seat[c] = "granted"
    /\ seat' = [seat EXCEPT ![c] = "held"]
    /\ UNCHANGED <<permits, queue>>

\* Seeded defect: a call dropped after it was assigned a permit, and before
\* it saw it, takes the permit with it.
GiveUpKeepingGrant(c) ==
    /\ seat[c] \in {"waiting", "granted"}
    /\ seat' = [seat EXCEPT ![c] = "none"]
    /\ queue' = IF seat[c] = "waiting"
                THEN RemoveAt(queue, CHOOSE i \in DOMAIN queue : queue[i] = c)
                ELSE queue
    /\ UNCHANGED permits

\* Seeded defect: a call that gives up leaves its entry in the queue.
GiveUpLeavingEntry(c) ==
    \/ /\ seat[c] = "waiting"
       /\ seat' = [seat EXCEPT ![c] = "none"]
       /\ UNCHANGED <<permits, queue>>
    \/ /\ seat[c] = "granted"
       /\ PassOn(c)

\* The acquire future is dropped, by the queue timeout or because the client
\* went away.  Timeout polls the future before the timer, so a permit can be
\* assigned between that poll and the drop: it is passed on.
GiveUp(c) ==
    \/ /\ seat[c] = "waiting"
       /\ \E i \in DOMAIN queue :
             /\ queue[i] = c
             /\ queue' = RemoveAt(queue, i)
       /\ seat' = [seat EXCEPT ![c] = "none"]
       /\ UNCHANGED permits
    \/ /\ seat[c] = "granted"
       /\ PassOn(c)

\* OwnedExecPermit is dropped.
Release(c) ==
    /\ seat[c] = "held"
    /\ PassOn(c)

\* The process ends, and a new one starts with a new semaphore.
Reset ==
    /\ permits' = Capacity
    /\ queue' = <<>>
    /\ seat' = [c \in Calls |-> "none"]

AdmissionNext ==
    \/ \E c \in Calls : TakePermit(c) \/ JoinQueue(c) \/ Resume(c)
                        \/ GiveUp(c) \/ Release(c)
    \/ Reset

AdmissionSpec == AdmissionInit /\ [][AdmissionNext]_admissionVars

\* Parked calls are polled once woken, and a call that owns a permit
\* finishes (module Exec shows under which conditions it does).
AdmissionFairness ==
    \A c \in Calls : /\ WF_admissionVars(Resume(c))
                     /\ WF_admissionVars(Release(c))

FairAdmissionSpec == AdmissionSpec /\ AdmissionFairness

-----------------------------------------------------------------------------
\* Permits are neither lost nor minted, whatever the order of timeouts,
\* cancellations and hand-overs (acquire_exec_permit and the drop of
\* OwnedExecPermit): free ones and owned ones always add up to the capacity.
PermitConservation == permits + Cardinality(Seated) = Capacity

\* No call is parked while a permit is free: a wake-up is never lost between
\* a release and a call that joins the queue or leaves it.
NoIdlePermit == queue # <<>> => permits = 0

\* The queue lists the parked calls, each once: a call whose queue timeout
\* fired leaves no entry behind that would later swallow a permit.
QueueExact ==
    /\ Waiters = ToSet(queue)
    /\ IsInjective(queue)

\* Admission is first come, first served: no step seats a call that came
\* after a call that keeps waiting, be it a newcomer or one further back.
SeatsInOrder ==
    \A w \in DOMAIN queue :
        seat'[queue[w]] = "waiting" =>
            \A c \in Seated' \ Seated : \E i \in 1 .. w - 1 : queue[i] = c
NoOvertaking == [][SeatsInOrder]_admissionVars

\* The counter and the FIFO list implement the abstract pool of permits.
Pool == INSTANCE PermitPool WITH holders <- Seated, waiting <- Waiters
PoolRefined == Pool!PoolSpec

\* Every queued exec gets out of the queue even if it has no queue timeout
\* (exec_queue_timeout_seconds = 0) and calls keep arriving for ever.
NoStarvation == \A c \in Calls : seat[c] = "waiting" ~> seat[c] # "waiting"
=============================================================================

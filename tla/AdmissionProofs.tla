-------------------------- MODULE AdmissionProofs ---------------------------
(***************************************************************************)
(* Proofs about module Admission, for any finite set of calls and any      *)
(* value of the two settings.                                              *)
(***************************************************************************)
EXTENDS Admission, FiniteSetTheorems, SequenceTheorems, TLAPS

\* The three safety invariants and the type are inductive together: the
\* counter can be trusted only if the queue is exact, and the other way round.
GateInv ==
    /\ AdmissionTypeOK
    /\ PermitConservation
    /\ NoIdlePermit
    /\ QueueExact

-----------------------------------------------------------------------------
(* Lemmas about the queue.                                                 *)

\* Appending a newcomer adds it to the entries and repeats none.
LEMMA AppendEntry ==
    ASSUME NEW q \in Seq(Calls), IsInjective(q),
           NEW c \in Calls, c \notin ToSet(q)
    PROVE  /\ ToSet(Append(q, c)) = ToSet(q) \union {c}
           /\ IsInjective(Append(q, c))
<1>1. /\ Append(q, c) \in Seq(Calls)
      /\ DOMAIN q = 1 .. Len(q)
      /\ DOMAIN Append(q, c) = 1 .. Len(q) + 1
      /\ Append(q, c)[Len(q) + 1] = c
      /\ \A i \in 1 .. Len(q) : Append(q, c)[i] = q[i]
  OBVIOUS
<1>2. \A i \in 1 .. Len(q) : q[i] # c
  BY <1>1 DEF ToSet
<1>3. IsInjective(Append(q, c))
  BY <1>1, <1>2 DEF IsInjective
<1>4. ToSet(Append(q, c)) = ToSet(q) \union {c}
  BY <1>1 DEF ToSet
<1> QED  BY <1>3, <1>4

\* Serving the first waiter removes it, and only it, from the entries.
LEMMA TailEntries ==
    ASSUME NEW q \in Seq(Calls), IsInjective(q), q # <<>>
    PROVE  /\ Tail(q) \in Seq(Calls)
           /\ Head(q) \in ToSet(q)
           /\ ToSet(Tail(q)) = ToSet(q) \ {Head(q)}
           /\ IsInjective(Tail(q))
<1>1. /\ Tail(q) \in Seq(Calls)
      /\ Len(q) \in Nat \ {0}
      /\ DOMAIN q = 1 .. Len(q)
      /\ DOMAIN Tail(q) = 1 .. Len(q) - 1
      /\ Head(q) = q[1]
      /\ \A i \in 1 .. Len(q) - 1 : Tail(q)[i] = q[i + 1]
  OBVIOUS
<1>2. IsInjective(Tail(q))
  <2> SUFFICES ASSUME NEW i \in 1 .. Len(q) - 1, NEW j \in 1 .. Len(q) - 1,
                      Tail(q)[i] = Tail(q)[j]
               PROVE  i = j
    BY <1>1 DEF IsInjective
  <2>1. q[i + 1] = q[j + 1] /\ i + 1 \in DOMAIN q /\ j + 1 \in DOMAIN q
    BY <1>1
  <2> QED  BY <2>1 DEF IsInjective
<1>3. Head(q) \in ToSet(q)
  BY <1>1 DEF ToSet
<1>4. ToSet(Tail(q)) \subseteq ToSet(q) \ {Head(q)}
  <2> SUFFICES ASSUME NEW i \in 1 .. Len(q) - 1
               PROVE  Tail(q)[i] \in ToSet(q) \ {Head(q)}
    BY <1>1 DEF ToSet
  <2>1. i + 1 \in DOMAIN q /\ 1 \in DOMAIN q /\ i + 1 # 1
    BY <1>1
  <2>2. q[i + 1] # q[1]
    BY <2>1 DEF IsInjective
  <2> QED  BY <1>1, <2>1, <2>2 DEF ToSet
<1>5. ToSet(q) \ {Head(q)} \subseteq ToSet(Tail(q))
  <2> SUFFICES ASSUME NEW i \in 1 .. Len(q), q[i] # q[1]
               PROVE  q[i] \in ToSet(Tail(q))
    BY <1>1 DEF ToSet
  <2>1. i - 1 \in 1 .. Len(q) - 1 /\ q[i] = Tail(q)[i - 1]
    BY <1>1
  <2> QED  BY <1>1, <2>1 DEF ToSet
<1> QED  BY <1>1, <1>2, <1>3, <1>4, <1>5

\* A call that gives up takes its own entry out, and no other.
LEMMA RemoveEntry ==
    ASSUME NEW q \in Seq(Calls), IsInjective(q), NEW i \in DOMAIN q
    PROVE  /\ RemoveAt(q, i) \in Seq(Calls)
           /\ Len(RemoveAt(q, i)) = Len(q) - 1
           /\ \A j \in 1 .. Len(q) - 1 :
                 RemoveAt(q, i)[j] = IF j < i THEN q[j] ELSE q[j + 1]
           /\ ToSet(RemoveAt(q, i)) = ToSet(q) \ {q[i]}
           /\ IsInjective(RemoveAt(q, i))
<1> DEFINE r == RemoveAt(q, i)
<1>1. DOMAIN q = 1 .. Len(q) /\ Len(q) \in Nat
  OBVIOUS
<1> DEFINE a == SubSeq(q, 1, i - 1)
           b == SubSeq(q, i + 1, Len(q))
<1>2. /\ a \in Seq(Calls)
      /\ Len(a) = i - 1
      /\ \A j \in 1 .. i - 1 : a[j] = q[j]
  BY <1>1
<1>3. /\ b \in Seq(Calls)
      /\ Len(b) = Len(q) - i
      /\ \A j \in 1 .. Len(q) - i : b[j] = q[i + j]
  BY <1>1
<1>r. r = a \o b
  BY DEF RemoveAt
<1> HIDE DEF r, a, b
<1>4. r \in Seq(Calls) /\ Len(r) = Len(q) - 1
  <2>1. i \in Nat /\ Len(a) + Len(b) = Len(q) - 1
    BY <1>1, <1>2, <1>3
  <2>2. a \o b \in Seq(Calls) /\ Len(a \o b) = Len(a) + Len(b)
    BY <1>2, <1>3, ConcatProperties
  <2> QED  BY <1>r, <2>1, <2>2
<1>5. ASSUME NEW j \in 1 .. Len(q) - 1
      PROVE  r[j] = IF j < i THEN q[j] ELSE q[j + 1]
  <2>1. CASE j < i
    BY <1>1, <1>2, <1>3, <1>r, <2>1
  <2>2. CASE i <= j
    <3>1. r[j] = b[j - (i - 1)] /\ j - (i - 1) \in 1 .. Len(q) - i
      BY <1>1, <1>2, <1>3, <1>r, <2>2
    <3>2. b[j - (i - 1)] = q[i + (j - (i - 1))]
      BY <1>3, <3>1
    <3>3. i + (j - (i - 1)) = j + 1 /\ ~(j < i)
      BY <1>1, <2>2
    <3> QED  BY <3>1, <3>2, <3>3
  <2> QED  BY <1>1, <2>1, <2>2
<1>6. DOMAIN r = 1 .. Len(q) - 1
  BY <1>4
<1>7. IsInjective(r)
  <2> SUFFICES ASSUME NEW j \in 1 .. Len(q) - 1, NEW k \in 1 .. Len(q) - 1,
                      r[j] = r[k]
               PROVE  j = k
    BY <1>6 DEF IsInjective
  <2>1. j \in DOMAIN q /\ j + 1 \in DOMAIN q /\ k \in DOMAIN q
        /\ k + 1 \in DOMAIN q
    BY <1>1
  <2> QED  BY <1>1, <1>5, <2>1 DEF IsInjective
<1>8. ToSet(r) \subseteq ToSet(q) \ {q[i]}
  <2> SUFFICES ASSUME NEW j \in 1 .. Len(q) - 1
               PROVE  r[j] \in ToSet(q) \ {q[i]}
    BY <1>6 DEF ToSet
  <2>1. /\ j \in DOMAIN q /\ j + 1 \in DOMAIN q
        /\ j < i => j # i
        /\ ~(j < i) => j + 1 # i
    BY <1>1
  <2> QED  BY <1>5, <2>1 DEF ToSet, IsInjective
<1>9. ToSet(q) \ {q[i]} \subseteq ToSet(r)
  <2> SUFFICES ASSUME NEW k \in 1 .. Len(q), k # i
               PROVE  \E j \in 1 .. Len(q) - 1 : q[k] = r[j]
    BY <1>1, <1>6 DEF ToSet
  <2>1. CASE k < i
    BY <1>1, <1>5, <2>1
  <2>2. CASE i < k
    <3>1. k - 1 \in 1 .. Len(q) - 1 /\ ~(k - 1 < i) /\ (k - 1) + 1 = k
      BY <1>1, <2>2
    <3> QED  BY <1>5, <3>1
  <2> QED  BY <1>1, <2>1, <2>2
<1> QED  BY <1>4, <1>5, <1>7, <1>8, <1>9 DEF r

-----------------------------------------------------------------------------
(* What each step does to the sets of seated and of waiting calls.         *)

\* The capacity is positive: a gate that admits nobody cannot be configured.
LEMMA CapacityPositive == Capacity \in Nat \ {0}
BY ConfigAssumption DEF Capacity, DefaultCapacity

\* Only finitely many calls own a permit, so they can be counted.
LEMMA SeatedFinite == IsFiniteSet(Seated) /\ Cardinality(Seated) \in Nat
<1>1. Seated \in SUBSET Calls
  BY DEF Seated
<1> QED  BY <1>1, CallsAssumption, FS_Subset, FS_CardinalityType

\* A call that takes a permit enters the seated calls.
LEMMA TakeEffect ==
    ASSUME GateInv, NEW c \in Calls, TakePermit(c)
    PROVE  /\ c \notin Seated /\ c \notin Waiters
           /\ Seated' = Seated \union {c}
           /\ Waiters' = Waiters
           /\ Cardinality(Seated') = Cardinality(Seated) + 1
<1>1. seat' \in [Calls -> Seats] /\ c \notin Seated /\ c \notin Waiters
  BY DEF GateInv, AdmissionTypeOK, TakePermit, Seats, Seated, Waiters
<1>2. Seated' = Seated \union {c} /\ Waiters' = Waiters
  BY DEF GateInv, AdmissionTypeOK, TakePermit, Seated, Waiters
<1>3. Cardinality(Seated \union {c}) = Cardinality(Seated) + 1
  BY <1>1, SeatedFinite, FS_AddElement
<1> QED  BY <1>1, <1>2, <1>3

\* A permit given up goes to the first waiter, or to nobody without one.
LEMMA PassOnEffect ==
    ASSUME GateInv, NEW c \in Seated, PassOn(c)
    PROVE  /\ Waiters = {} => /\ queue = <<>> /\ queue' = queue
                              /\ permits' = permits + 1
                              /\ Seated' = Seated \ {c}
                              /\ Waiters' = {}
                              /\ Cardinality(Seated') = Cardinality(Seated) - 1
           /\ Waiters # {} => /\ queue # <<>> /\ queue' = Tail(queue)
                              /\ permits' = permits
                              /\ Head(queue) \in Waiters
                              /\ Seated' = (Seated \ {c}) \union {Head(queue)}
                              /\ Waiters' = Waiters \ {Head(queue)}
                              /\ Cardinality(Seated') = Cardinality(Seated)
<1> USE DEF GateInv, AdmissionTypeOK, QueueExact
<1>1. c \in Calls /\ c \notin Waiters /\ seat[c] # "waiting"
  BY DEF Seated, Waiters
<1>2. queue = <<>> <=> Waiters = {}
  <2>1. queue = <<>> => ToSet(queue) = {}
    BY DEF ToSet
  <2>2. queue # <<>> => Head(queue) \in ToSet(queue)
    BY TailEntries
  <2> QED  BY <2>1, <2>2
<1>3. Cardinality(Seated \ {c}) = Cardinality(Seated) - 1
      /\ IsFiniteSet(Seated \ {c}) /\ Cardinality(Seated) \in Nat
  BY SeatedFinite, FS_RemoveElement
<1>4. CASE queue = <<>>
  <2>1. /\ queue' = queue /\ permits' = permits + 1
        /\ seat' = [seat EXCEPT ![c] = "none"]
    BY <1>4 DEF PassOn
  <2>2. Seated' = Seated \ {c} /\ Waiters' = Waiters
    BY <1>1, <2>1 DEF Seated, Waiters
  <2> QED  BY <1>2, <1>3, <1>4, <2>1, <2>2
<1>5. CASE queue # <<>>
  <2> DEFINE h == Head(queue)
  <2>1. /\ queue' = Tail(queue) /\ permits' = permits
        /\ seat' = [seat EXCEPT ![c] = "none", ![h] = "granted"]
    BY <1>5 DEF PassOn
  <2>2. h \in Waiters /\ h \in Calls /\ h # c
    BY <1>1, <1>5, TailEntries DEF Waiters
  <2> HIDE DEF h
  <2>3. \A x \in Calls : seat'[x] = IF x = h THEN "granted"
                                    ELSE IF x = c THEN "none" ELSE seat[x]
    BY <1>1, <2>1, <2>2
  <2>4. Seated' = (Seated \ {c}) \union {h} /\ Waiters' = Waiters \ {h}
    BY <1>1, <2>2, <2>3 DEF Seated, Waiters
  <2>5. h \notin Seated \ {c}
    BY <2>2 DEF Seated, Waiters
  <2>6. Cardinality((Seated \ {c}) \union {h}) = Cardinality(Seated)
    <3>1. Cardinality((Seated \ {c}) \union {h})
             = Cardinality(Seated \ {c}) + 1
      BY <1>3, <2>5, FS_AddElement
    <3> QED  BY <1>3, <3>1
  <2> QED  BY <1>2, <1>5, <2>1, <2>2, <2>4, <2>6 DEF h
<1> QED  BY <1>4, <1>5

-----------------------------------------------------------------------------
(* The invariant.                                                          *)

\* A new gate has all its permits and no waiters.
LEMMA GateInvInit == AdmissionInit => GateInv
<1> SUFFICES ASSUME AdmissionInit PROVE GateInv
  OBVIOUS
<1>1. Seated = {} /\ Waiters = {}
  BY DEF AdmissionInit, Seated, Waiters
<1>2. AdmissionTypeOK
  BY CapacityPositive DEF AdmissionInit, AdmissionTypeOK, Seats
<1>3. PermitConservation
  BY <1>1, CapacityPositive, FS_EmptySet DEF AdmissionInit, PermitConservation
<1>4. NoIdlePermit
  BY DEF AdmissionInit, NoIdlePermit
<1>5. QueueExact
  BY <1>1 DEF AdmissionInit, QueueExact, ToSet, IsInjective
<1> QED  BY <1>2, <1>3, <1>4, <1>5 DEF GateInv

\* Giving a permit up preserves the invariant.
LEMMA PassOnInv ==
    ASSUME GateInv, NEW c \in Seated, PassOn(c)
    PROVE  GateInv'
<1> USE DEF GateInv, QueueExact
<1>1. c \in Calls
  BY DEF Seated
<1>2. Cardinality(Seated) \in Nat /\ Capacity \in Nat
  BY SeatedFinite, CapacityPositive
<1>3. seat' \in [Calls -> Seats]
  BY <1>1 DEF PassOn, AdmissionTypeOK, Seats
<1>4. CASE Waiters = {}
  <2>1. /\ queue = <<>> /\ queue' = queue
        /\ permits' = permits + 1
        /\ Waiters' = {}
        /\ Cardinality(Seated') = Cardinality(Seated) - 1
    BY <1>4, PassOnEffect
  <2>2. PermitConservation' /\ permits' \in 0 .. Capacity
    <3>1. Cardinality(Seated) > 0
      BY <1>2, SeatedFinite, FS_EmptySet
    <3> QED
      BY <1>2, <2>1, <3>1 DEF PermitConservation, AdmissionTypeOK
  <2>3. NoIdlePermit' /\ QueueExact'
    BY <1>4, <2>1 DEF NoIdlePermit
  <2> QED  BY <1>3, <2>1, <2>2, <2>3 DEF AdmissionTypeOK
<1>5. CASE Waiters # {}
  <2>1. /\ queue # <<>> /\ queue' = Tail(queue)
        /\ permits' = permits
        /\ Waiters' = Waiters \ {Head(queue)}
        /\ Cardinality(Seated') = Cardinality(Seated)
    BY <1>5, PassOnEffect
  <2>2. queue' \in Seq(Calls) /\ QueueExact'
    BY <2>1, TailEntries DEF AdmissionTypeOK
  <2>3. PermitConservation' /\ permits' \in 0 .. Capacity /\ permits' = 0
    BY <2>1 DEF PermitConservation, AdmissionTypeOK, NoIdlePermit
  <2> QED  BY <1>3, <2>2, <2>3 DEF AdmissionTypeOK, NoIdlePermit
<1> QED  BY <1>4, <1>5

\* Every step of the gate preserves the invariant.
LEMMA GateInvStep == GateInv /\ [AdmissionNext]_admissionVars => GateInv'
<1> SUFFICES ASSUME GateInv, [AdmissionNext]_admissionVars
             PROVE  GateInv'
  OBVIOUS
<1> USE DEF GateInv
<1>1. ASSUME NEW c \in Calls, TakePermit(c)
      PROVE  GateInv'
  <2>1. permits > 0 /\ permits' = permits - 1 /\ queue' = queue
    BY <1>1 DEF TakePermit
  <2>2. AdmissionTypeOK'
    <3>1. seat' \in [Calls -> Seats]
      BY <1>1 DEF TakePermit, AdmissionTypeOK, Seats
    <3>2. permits' \in 0 .. Capacity
      BY <2>1, CapacityPositive DEF AdmissionTypeOK
    <3> QED  BY <2>1, <3>1, <3>2 DEF AdmissionTypeOK
  <2>3. PermitConservation'
    BY <1>1, <2>1, TakeEffect, SeatedFinite, CapacityPositive
       DEF PermitConservation, AdmissionTypeOK
  <2>4. NoIdlePermit'
    BY <2>1 DEF NoIdlePermit, AdmissionTypeOK
  <2>5. QueueExact'
    BY <1>1, <2>1, TakeEffect DEF QueueExact
  <2> QED  BY <2>2, <2>3, <2>4, <2>5
<1>2. ASSUME NEW c \in Calls, JoinQueue(c)
      PROVE  GateInv'
  <2>1. /\ permits = 0 /\ permits' = permits
        /\ queue' = Append(queue, c)
        /\ seat' \in [Calls -> Seats]
    BY <1>2 DEF JoinQueue, AdmissionTypeOK, Seats
  <2>2. Seated' = Seated /\ Waiters' = Waiters \union {c} /\ c \notin Waiters
    BY <1>2 DEF JoinQueue, AdmissionTypeOK, Seated, Waiters
  <2>3. queue' \in Seq(Calls) /\ QueueExact'
    BY <2>1, <2>2, AppendEntry DEF QueueExact, AdmissionTypeOK
  <2> QED
    BY <2>1, <2>2, <2>3
       DEF AdmissionTypeOK, PermitConservation, NoIdlePermit
<1>3. ASSUME NEW c \in Calls, Resume(c)
      PROVE  GateInv'
  <2>1. /\ permits' = permits /\ queue' = queue
        /\ seat' \in [Calls -> Seats]
    BY <1>3 DEF Resume, AdmissionTypeOK, Seats
  <2>2. Seated' = Seated /\ Waiters' = Waiters
    BY <1>3 DEF Resume, AdmissionTypeOK, Seated, Waiters
  <2> QED
    BY <2>1, <2>2
       DEF AdmissionTypeOK, PermitConservation, NoIdlePermit, QueueExact
<1>4. ASSUME NEW c \in Calls, GiveUp(c)
      PROVE  GateInv'
  <2>1. CASE seat[c] = "granted" /\ PassOn(c)
    BY <2>1, PassOnInv DEF Seated
  <2>2. ASSUME seat[c] = "waiting",
               NEW i \in DOMAIN queue,
               queue[i] = c,
               queue' = RemoveAt(queue, i),
               seat' = [seat EXCEPT ![c] = "none"],
               permits' = permits
        PROVE  GateInv'
    <3>1. Seated' = Seated /\ Waiters' = Waiters \ {c}
      BY <2>2 DEF AdmissionTypeOK, Seated, Waiters
    <3>2. queue' \in Seq(Calls) /\ QueueExact'
      BY <2>2, <3>1, RemoveEntry DEF QueueExact, AdmissionTypeOK
    <3>3. AdmissionTypeOK'
      BY <2>2, <3>2 DEF AdmissionTypeOK, Seats
    <3>4. queue # <<>>
      BY <2>2
    <3> QED
      BY <2>2, <3>1, <3>2, <3>3, <3>4 DEF PermitConservation, NoIdlePermit
  <2> QED  BY <1>4, <2>1, <2>2 DEF GiveUp
<1>5. ASSUME NEW c \in Calls, Release(c)
      PROVE  GateInv'
  BY <1>5, PassOnInv DEF Release, Seated
<1>6. CASE Reset
  <2>1. AdmissionInit'
    BY <1>6 DEF Reset, AdmissionInit
  <2>2. Seated' = {} /\ Waiters' = {}
    BY <2>1 DEF AdmissionInit, Seated, Waiters
  <2>3. AdmissionTypeOK' /\ PermitConservation' /\ NoIdlePermit'
    BY <2>1, <2>2, CapacityPositive, FS_EmptySet
       DEF AdmissionInit, AdmissionTypeOK, Seats, PermitConservation,
           NoIdlePermit
  <2>4. QueueExact'
    BY <2>1, <2>2 DEF AdmissionInit, QueueExact, ToSet, IsInjective
  <2> QED  BY <2>3, <2>4
<1>7. CASE UNCHANGED admissionVars
  BY <1>7 DEF admissionVars, AdmissionTypeOK, PermitConservation,
              NoIdlePermit, QueueExact, Seated, Waiters
<1> QED
  BY <1>1, <1>2, <1>3, <1>4, <1>5, <1>6, <1>7 DEF AdmissionNext

\* The gate keeps its invariant for any number of calls and any settings.
THEOREM GateInvariant == AdmissionSpec => []GateInv
<1> QED  BY GateInvInit, GateInvStep, PTL DEF AdmissionSpec

\* Every variable of the gate keeps its type (acquire_exec_permit).
THEOREM AdmissionTypeCorrect == AdmissionSpec => []AdmissionTypeOK
<1>1. GateInv => AdmissionTypeOK
  BY DEF GateInv
<1> QED  BY <1>1, GateInvariant, PTL

\* Timeouts, cancellations and hand-overs neither lose nor mint a permit.
THEOREM PermitsConserved == AdmissionSpec => []PermitConservation
<1>1. GateInv => PermitConservation
  BY DEF GateInv
<1> QED  BY <1>1, GateInvariant, PTL

\* No call is parked while a permit is free.
THEOREM NoPermitIdles == AdmissionSpec => []NoIdlePermit
<1>1. GateInv => NoIdlePermit
  BY DEF GateInv
<1> QED  BY <1>1, GateInvariant, PTL

\* The queue is exactly the parked calls, each once.
THEOREM QueueIsExact == AdmissionSpec => []QueueExact
<1>1. GateInv => QueueExact
  BY DEF GateInv
<1> QED  BY <1>1, GateInvariant, PTL

-----------------------------------------------------------------------------
(* First come, first served, and the refinement of the abstract pool.      *)

\* A step that gives up a permit seats only the head of the queue.
LEMMA PassOnInOrder ==
    ASSUME GateInv, NEW c \in Seated, PassOn(c),
           NEW w \in DOMAIN queue, seat'[queue[w]] = "waiting",
           NEW x \in Seated' \ Seated
    PROVE  \E i \in 1 .. w - 1 : queue[i] = x
<1> USE DEF GateInv, AdmissionTypeOK, QueueExact
<1>1. queue[w] \in Waiters /\ queue[w] \in Calls
  BY DEF ToSet
<1>2. /\ queue' = Tail(queue)
      /\ Head(queue) \in Waiters
      /\ Seated' = (Seated \ {c}) \union {Head(queue)}
      /\ Waiters' = Waiters \ {Head(queue)}
  BY <1>1, PassOnEffect
<1>3. x = Head(queue) /\ Head(queue) = queue[1] /\ 1 \in DOMAIN queue
  BY <1>2
<1>4. queue[w] \in Waiters'
  BY <1>1 DEF Waiters
<1>5. w # 1
  BY <1>2, <1>3, <1>4
<1> QED  BY <1>3, <1>5

\* No step of the gate lets a call overtake one that keeps waiting.
THEOREM NobodyOvertakes == AdmissionSpec => NoOvertaking
<1>1. ASSUME GateInv, AdmissionNext
      PROVE  SeatsInOrder
  <2> SUFFICES ASSUME NEW w \in DOMAIN queue, seat'[queue[w]] = "waiting",
                      NEW x \in Seated' \ Seated
               PROVE  \E i \in 1 .. w - 1 : queue[i] = x
    BY DEF SeatsInOrder
  <2> USE <1>1 DEF GateInv
  <2>1. queue # <<>> /\ permits = 0 /\ queue[w] \in Calls
    BY DEF NoIdlePermit, AdmissionTypeOK
  <2>2. x \in Calls /\ seat[x] \notin {"granted", "held"}
        /\ seat'[x] \in {"granted", "held"}
    BY DEF Seated
  <2>3. ASSUME NEW c \in Calls, TakePermit(c)
        PROVE  FALSE
    BY <2>1, <2>3 DEF TakePermit
  <2>4. ASSUME NEW c \in Calls, JoinQueue(c)
        PROVE  FALSE
    BY <2>2, <2>4 DEF JoinQueue, AdmissionTypeOK
  <2>5. ASSUME NEW c \in Calls, Resume(c)
        PROVE  FALSE
    BY <2>2, <2>5 DEF Resume, AdmissionTypeOK
  <2>6. ASSUME NEW c \in Calls, GiveUp(c)
        PROVE  \E i \in 1 .. w - 1 : queue[i] = x
    <3>1. CASE seat[c] = "granted" /\ PassOn(c)
      BY <3>1, PassOnInOrder DEF Seated
    <3>2. CASE seat' = [seat EXCEPT ![c] = "none"]
      BY <2>2, <3>2 DEF AdmissionTypeOK
    <3> QED  BY <2>6, <3>1, <3>2 DEF GiveUp
  <2>7. ASSUME NEW c \in Calls, Release(c)
        PROVE  \E i \in 1 .. w - 1 : queue[i] = x
    BY <2>7, PassOnInOrder DEF Release, Seated
  <2>8. CASE Reset
    BY <2>1, <2>8 DEF Reset
  <2> QED
    BY <2>3, <2>4, <2>5, <2>6, <2>7, <2>8 DEF AdmissionNext
<1>2. GateInv /\ [AdmissionNext]_admissionVars
         => [SeatsInOrder]_admissionVars
  BY <1>1
<1> QED  BY <1>2, GateInvariant, PTL DEF AdmissionSpec, NoOvertaking

\* A hand-over in the queue is a departure from the pool.
LEMMA PassOnIsLeave ==
    ASSUME GateInv, NEW c \in Seated, PassOn(c)
    PROVE  Pool!Leave(c)
<1>1. CASE Waiters = {}
  BY <1>1, PassOnEffect DEF Pool!Leave
<1>2. CASE Waiters # {}
  BY <1>2, PassOnEffect DEF Pool!Leave
<1> QED  BY <1>1, <1>2

\* The instance counts with the same operator.
LEMMA PoolCardinality == \A S : Pool!Cardinality(S) = Cardinality(S)
BY DEF Pool!Cardinality, Cardinality

\* The counter and the FIFO queue implement the pool of module PermitPool.
THEOREM PoolIsRefined == AdmissionSpec => PoolRefined
<1>1. AdmissionInit => Pool!PoolInit
  BY DEF AdmissionInit, Pool!PoolInit, Seated, Waiters
<1>2. GateInv /\ [AdmissionNext]_admissionVars
         => [Pool!PoolNext]_(Pool!poolVars)
  <2> SUFFICES ASSUME GateInv, [AdmissionNext]_admissionVars
               PROVE  Pool!PoolNext \/ UNCHANGED <<Seated, Waiters>>
    BY DEF Pool!poolVars
  <2> USE DEF GateInv
  <2>1. ASSUME NEW c \in Calls, TakePermit(c)
        PROVE  Pool!Enter(c)
    <3>1. permits > 0 /\ permits \in Nat
      BY <2>1 DEF TakePermit, AdmissionTypeOK
    <3>2. Cardinality(Seated) < Capacity
      BY <3>1, SeatedFinite, CapacityPositive DEF PermitConservation
    <3> QED  BY <2>1, <3>2, TakeEffect, PoolCardinality DEF Pool!Enter
  <2>2. ASSUME NEW c \in Calls, JoinQueue(c)
        PROVE  Pool!Wait(c)
    <3>1. Seated' = Seated /\ Waiters' = Waiters \union {c}
          /\ c \notin Seated \union Waiters
      BY <2>2 DEF JoinQueue, AdmissionTypeOK, Seated, Waiters
    <3>2. Cardinality(Seated) = Capacity
      BY <2>2, SeatedFinite, CapacityPositive
         DEF JoinQueue, PermitConservation
    <3> QED  BY <3>1, <3>2, PoolCardinality DEF Pool!Wait
  <2>3. ASSUME NEW c \in Calls, Resume(c)
        PROVE  UNCHANGED <<Seated, Waiters>>
    BY <2>3 DEF Resume, AdmissionTypeOK, Seated, Waiters
  <2>4. ASSUME NEW c \in Calls, GiveUp(c)
        PROVE  Pool!Forgo(c) \/ Pool!Leave(c)
    <3>1. CASE seat[c] = "granted" /\ PassOn(c)
      BY <3>1, PassOnIsLeave DEF Seated
    <3>2. CASE seat[c] = "waiting" /\ seat' = [seat EXCEPT ![c] = "none"]
      BY <3>2 DEF AdmissionTypeOK, Seated, Waiters, Pool!Forgo
    <3> QED  BY <2>4, <3>1, <3>2 DEF GiveUp
  <2>5. ASSUME NEW c \in Calls, Release(c)
        PROVE  Pool!Leave(c)
    BY <2>5, PassOnIsLeave DEF Release, Seated
  <2>6. CASE Reset
    BY <2>6 DEF Reset, Seated, Waiters, Pool!PoolNext, Pool!Empty
  <2>7. CASE UNCHANGED admissionVars
    BY <2>7 DEF admissionVars, Seated, Waiters
  <2> QED
    BY <2>1, <2>2, <2>3, <2>4, <2>5, <2>6, <2>7
       DEF AdmissionNext, Pool!PoolNext
<1> QED
  BY <1>1, <1>2, GateInvariant, PTL DEF AdmissionSpec, PoolRefined, Pool!PoolSpec
=============================================================================

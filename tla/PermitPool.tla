----------------------------- MODULE PermitPool -----------------------------
(***************************************************************************)
(* What the exec admission gate promises, without saying how: at most      *)
(* Capacity calls hold a permit, a call waits only while every permit is   *)
(* taken, and a permit given up goes to a waiting call at once when there  *)
(* is one.  Which waiter is served, and how permits are counted, is left   *)
(* open; module Admission implements it with a counter and a FIFO queue.   *)
(***************************************************************************)
EXTENDS Integers, FiniteSets

CONSTANTS
    Calls,     \* the Exec and ExecStream calls
    Capacity   \* exec_permit_capacity (service.rs)

VARIABLES
    holders,   \* calls that own a permit
    waiting    \* calls parked until a permit is free

poolVars == <<holders, waiting>>

PoolInit ==
    /\ holders = {}
    /\ waiting = {}

\* A call that finds a free permit takes it.
Enter(c) ==
    /\ c \notin holders \union waiting
    /\ Cardinality(holders) < Capacity
    /\ holders' = holders \union {c}
    /\ UNCHANGED waiting

\* A call waits only when no permit is free.
Wait(c) ==
    /\ c \notin holders \union waiting
    /\ Cardinality(holders) = Capacity
    /\ waiting' = waiting \union {c}
    /\ UNCHANGED holders

\* A waiter may leave without having been served.
Forgo(c) ==
    /\ c \in waiting
    /\ waiting' = waiting \ {c}
    /\ UNCHANGED holders

\* A holder leaves; its permit is never idle while somebody waits.
Leave(c) ==
    /\ c \in holders
    /\ \/ /\ waiting = {}
          /\ holders' = holders \ {c}
          /\ UNCHANGED waiting
       \/ \E w \in waiting :
             /\ holders' = (holders \ {c}) \union {w}
             /\ waiting' = waiting \ {w}

\* The process restarts: nobody holds or waits.
Empty ==
    /\ holders' = {}
    /\ waiting' = {}

PoolNext ==
    \/ \E c \in Calls : Enter(c) \/ Wait(c) \/ Forgo(c) \/ Leave(c)
    \/ Empty

PoolSpec == PoolInit /\ [][PoolNext]_poolVars
=============================================================================

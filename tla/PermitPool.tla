------------------------------ MODULE PermitPool ------------------------------
(***************************************************************************)
(* What the application server promises about concurrent turns, without    *)
(* saying how: at most Limit threads hold a permit, nobody waits while a   *)
(* permit is free, and a permit that is given back while somebody waits    *)
(* goes straight to a waiter.  TurnSemaphore implements this module.       *)
(***************************************************************************)
EXTENDS Naturals, FiniteSets

CONSTANTS
  Threads,   \* the threads that may run a turn
  Limit      \* ThreadManagerOptions.maxConcurrentTurns

VARIABLES
  holders,   \* the threads that hold a permit
  pending    \* the threads that asked for one and wait

poolVars == <<holders, pending>>

PoolInit == holders = {} /\ pending = {}

(* A thread asks and is served at once, which needs a free permit. *)
AdmitNow(t) ==
  /\ t \notin holders \cup pending
  /\ pending = {}
  /\ Cardinality(holders) < Limit
  /\ holders' = holders \cup {t}
  /\ UNCHANGED pending

(* A thread asks and has to wait, which needs every permit to be taken. *)
Enqueue(t) ==
  /\ t \notin holders \cup pending
  /\ Cardinality(holders) = Limit
  /\ pending' = pending \cup {t}
  /\ UNCHANGED holders

(* A waiting thread is cancelled: it leaves without ever having run. *)
GiveUp(t) ==
  /\ t \in pending
  /\ pending' = pending \ {t}
  /\ UNCHANGED holders

(* A holder gives its permit back and nobody waits. *)
Leave(t) ==
  /\ t \in holders
  /\ pending = {}
  /\ holders' = holders \ {t}
  /\ UNCHANGED pending

(* A holder gives its permit back and a waiter gets it in the same step. *)
HandOver(t, w) ==
  /\ t \in holders
  /\ w \in pending
  /\ holders' = (holders \ {t}) \cup {w}
  /\ pending' = pending \ {w}

PoolNext ==
  \/ \E t \in Threads : AdmitNow(t) \/ Enqueue(t) \/ GiveUp(t) \/ Leave(t)
  \/ \E t, w \in Threads : HandOver(t, w)

PoolSpec == PoolInit /\ [][PoolNext]_poolVars
===============================================================================

---------------------------- MODULE TurnSemaphore -----------------------------
(***************************************************************************)
(* AsyncSemaphore of src/src/app-server/thread-manager.ts: the limit on    *)
(* the turns that run at the same time over all threads of the server.     *)
(*                                                                         *)
(* Every turn of a thread calls run(fn, signal) with a fresh AbortSignal.  *)
(* A thread has one active turn at most, so its id stands for that call;   *)
(* the thread may start another turn once the call is over.  The step in   *)
(* which acquire's promise is resolved and the step in which the awaiting  *)
(* run() resumes are separate: an abort may fall between them.             *)
(***************************************************************************)
EXTENDS Naturals, FiniteSets, SequencesExt

CONSTANTS
  Threads,   \* the threads that may run a turn
  Limit      \* ThreadManagerOptions.maxConcurrentTurns

(* The constructor throws for a limit that is not a positive safe integer. *)
ASSUME LimitAssumption == Limit \in Nat \ {0}
ASSUME ThreadsAssumption == IsFiniteSet(Threads)

VARIABLES
  active,    \* this.active
  waiters,   \* this.waiters, a FIFO
  pc,        \* where each thread's call of run() stands
  aborted    \* whether the signal of the thread's current turn is aborted

vars == <<active, waiters, pc, aborted>>

(* idle: no turn.  starting: startTurn is persisting, run() not yet called.
   queued: in this.waiters.  granted: acquire() resolved, run() has not resumed.
   running: fn() is executing. *)
PcValues == {"idle", "starting", "queued", "granted", "running"}

TypeOK ==
  /\ active \in Nat
  /\ waiters \in Seq(Threads)
  /\ pc \in [Threads -> PcValues]
  /\ aborted \in [Threads -> BOOLEAN]

Init ==
  /\ active = 0
  /\ waiters = <<>>
  /\ pc = [t \in Threads |-> "idle"]
  /\ aborted = [t \in Threads |-> FALSE]

-------------------------------------------------------------------------------
(* Faulty variants of actions below; the runs' mutants put them in. *)

(* acquire() compares with <= instead of <. *)
AcquireNowOffByOne(t) ==
  /\ pc[t] = "starting" /\ ~aborted[t]
  /\ active <= Limit
  /\ active' = active + 1
  /\ pc' = [pc EXCEPT ![t] = "granted"]
  /\ UNCHANGED <<waiters, aborted>>

(* release() decrements even when it hands the permit over. *)
ReleaseTwice(t) ==
  /\ pc[t] = "running"
  /\ waiters # <<>>
  /\ active' = active - 1
  /\ waiters' = Tail(waiters)
  /\ pc' = [pc EXCEPT ![t] = "idle", ![Head(waiters)] = "granted"]
  /\ UNCHANGED aborted

(* release() returns the permit without waking the first waiter. *)
ReleaseWithoutWake(t) ==
  /\ pc[t] = "running"
  /\ waiters # <<>>
  /\ active' = active - 1
  /\ pc' = [pc EXCEPT ![t] = "idle"]
  /\ UNCHANGED <<waiters, aborted>>

(* release() pops the newest waiter instead of shifting the oldest. *)
ReleaseNewest(t) ==
  /\ pc[t] = "running"
  /\ waiters # <<>>
  /\ waiters' = Front(waiters)
  /\ pc' = [pc EXCEPT ![t] = "idle", ![Last(waiters)] = "granted"]
  /\ UNCHANGED <<active, aborted>>

-------------------------------------------------------------------------------
(* A new turn with a new AbortController. *)
Begin(t) ==
  /\ pc[t] = "idle"
  /\ pc' = [pc EXCEPT ![t] = "starting"]
  /\ aborted' = [aborted EXCEPT ![t] = FALSE]
  /\ UNCHANGED <<active, waiters>>

(* acquire(): the signal was aborted before the call. *)
AcquireAborted(t) ==
  /\ pc[t] = "starting" /\ aborted[t]
  /\ pc' = [pc EXCEPT ![t] = "idle"]
  /\ UNCHANGED <<active, waiters, aborted>>

(* acquire(): a permit is free. *)
AcquireNow(t) ==
  /\ pc[t] = "starting" /\ ~aborted[t]
  /\ active < Limit
  /\ active' = active + 1
  /\ pc' = [pc EXCEPT ![t] = "granted"]
  /\ UNCHANGED <<waiters, aborted>>

(* acquire(): every permit is taken, the call joins the queue. *)
AcquireWait(t) ==
  /\ pc[t] = "starting" /\ ~aborted[t]
  /\ active >= Limit
  /\ waiters' = Append(waiters, t)
  /\ pc' = [pc EXCEPT ![t] = "queued"]
  /\ UNCHANGED <<active, aborted>>

(* run() resumes after acquire() and calls fn(), whatever the signal says. *)
Resume(t) ==
  /\ pc[t] = "granted"
  /\ pc' = [pc EXCEPT ![t] = "running"]
  /\ UNCHANGED <<active, waiters, aborted>>

(* The signal fires while the call is in the queue: abortListener takes the
   waiter out of the queue and rejects its promise. *)
AbortQueued(t) ==
  /\ pc[t] = "queued" /\ ~aborted[t]
  /\ \E i \in 1..Len(waiters) :
        waiters[i] = t /\ waiters' = RemoveAt(waiters, i)
  /\ pc' = [pc EXCEPT ![t] = "idle"]
  /\ aborted' = [aborted EXCEPT ![t] = TRUE]
  /\ UNCHANGED active

(* The signal fires when no listener of the semaphore is registered: before
   acquire(), or once the permit was granted and the listener removed. *)
AbortElsewhere(t) ==
  /\ pc[t] \in {"starting", "granted", "running"} /\ ~aborted[t]
  /\ aborted' = [aborted EXCEPT ![t] = TRUE]
  /\ UNCHANGED <<active, waiters, pc>>

Abort(t) == AbortQueued(t) \/ AbortElsewhere(t)

(* fn() settles; the finally block calls release(), which gives the permit
   back when nobody waits. *)
ReleaseIdle(t) ==
  /\ pc[t] = "running"
  /\ waiters = <<>>
  /\ active' = active - 1
  /\ pc' = [pc EXCEPT ![t] = "idle"]
  /\ UNCHANGED <<waiters, aborted>>

(* ... and hands it to the first waiter, `active` unchanged, otherwise. *)
ReleaseToWaiter(t) ==
  /\ pc[t] = "running"
  /\ waiters # <<>>
  /\ waiters' = Tail(waiters)
  /\ pc' = [pc EXCEPT ![t] = "idle", ![Head(waiters)] = "granted"]
  /\ UNCHANGED <<active, aborted>>

Finish(t) == ReleaseIdle(t) \/ ReleaseToWaiter(t)

Next ==
  \E t \in Threads :
    \/ Begin(t)
    \/ AcquireAborted(t) \/ AcquireNow(t) \/ AcquireWait(t)
    \/ Resume(t)
    \/ Abort(t)
    \/ Finish(t)

Spec == Init /\ [][Next]_vars

(* A promise continuation always runs, and a turn's runner settles in the end:
   its model calls, its tools and its approvals are all under timeouts. *)
Fairness ==
  \A t \in Threads :
    /\ WF_vars(AcquireAborted(t) \/ AcquireNow(t) \/ AcquireWait(t))
    /\ WF_vars(Resume(t))
    /\ WF_vars(Finish(t))

FairSpec == Spec /\ Fairness

-------------------------------------------------------------------------------
Holders == {t \in Threads : pc[t] \in {"granted", "running"}}
Queued == {t \in Threads : pc[t] = "queued"}

(* The counter is exactly the number of turns that hold a permit, however
   grants, aborts and releases interleave: no permit leaks and none is
   returned twice (AsyncSemaphore.active against createRelease). *)
PermitAccounting == active = Cardinality(Holders)

(* Never more turns at once than maxConcurrentTurns. *)
LimitRespected == Cardinality(Holders) <= Limit

(* A turn waits only while every permit is taken: an abort that empties a
   place, or a release that races with it, never strands the queue. *)
NoIdlePermit == waiters # <<>> => active = Limit

(* The queue holds each queued turn once and no turn that already left it:
   a permit is never handed to a call that was rejected. *)
QueueExact ==
  /\ ToSet(waiters) = Queued
  /\ \A i, j \in 1..Len(waiters) : waiters[i] = waiters[j] => i = j

(* First come, first served: whenever a step gives a waiting turn its permit,
   every turn that was ahead of it in the queue has left the queue too. *)
FirstComeFirstServed ==
  [][\A i, j \in 1..Len(waiters) :
       (i < j /\ pc'[waiters[j]] = "granted") => pc'[waiters[i]] # "queued"]_vars

(* Every turn that entered the queue leaves it: it gets a permit or its signal
   aborts it, as long as the turns that run come to an end. *)
QueueDrains == \A t \in Threads : pc[t] = "queued" ~> pc[t] # "queued"

(* The semaphore implements the abstract pool of permits. *)
Pool == INSTANCE PermitPool WITH holders <- Holders, pending <- Queued
ImplementsPool == Pool!PoolSpec

===============================================================================

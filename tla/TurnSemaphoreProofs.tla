------------------------- MODULE TurnSemaphoreProofs --------------------------
(***************************************************************************)
(* Proofs about TurnSemaphore for every set of threads and every limit:    *)
(* no permit leaks, the limit holds, nobody waits beside a free permit,    *)
(* the queue is exact and served in order, and the semaphore implements    *)
(* PermitPool.                                                             *)
(***************************************************************************)
EXTENDS TurnSemaphore, FiniteSetTheorems, SequenceTheorems, TLAPS

NoDup(s) == \A i, j \in 1..Len(s) : s[i] = s[j] => i = j

(* The safety invariants together are inductive. *)
SemInv ==
  /\ TypeOK
  /\ PermitAccounting
  /\ active <= Limit
  /\ NoIdlePermit
  /\ ToSet(waiters) = Queued
  /\ NoDup(waiters)

-------------------------------------------------------------------------------
(* Taking one place out of a queue without repetitions (abortListener's splice)
   removes exactly that element and keeps the rest without repetitions. *)
LEMMA RemoveAtNoDup ==
  ASSUME NEW S, NEW s \in Seq(S), NoDup(s), NEW k \in 1..Len(s)
  PROVE  /\ RemoveAt(s, k) \in Seq(S)
         /\ Len(RemoveAt(s, k)) = Len(s) - 1
         /\ \A i \in 1..(Len(s) - 1) :
              RemoveAt(s, k)[i] = IF i < k THEN s[i] ELSE s[i + 1]
         /\ ToSet(RemoveAt(s, k)) = ToSet(s) \ {s[k]}
         /\ NoDup(RemoveAt(s, k))
<1> DEFINE a == SubSeq(s, 1, k - 1)
           b == SubSeq(s, k + 1, Len(s))
           r == RemoveAt(s, k)
<1>1. /\ a \in Seq(S) /\ Len(a) = k - 1
      /\ \A i \in 1..(k - 1) : a[i] = s[i]
  BY SubSeqProperties, ElementOfSeq
<1>2. /\ b \in Seq(S) /\ Len(b) = Len(s) - k
      /\ \A i \in 1..(Len(s) - k) : b[i] = s[i + k]
  <2>1. \A i \in (k + 1)..Len(s) : s[i] \in S
    BY ElementOfSeq
  <2> QED BY <2>1, SubSeqProperties
<1>3. r = a \o b
  BY DEF RemoveAt
<1>4. /\ r \in Seq(S)
      /\ Len(r) = Len(s) - 1
      /\ \A i \in 1..(Len(s) - 1) : r[i] = IF i < k THEN s[i] ELSE s[i + 1]
  <2> HIDE DEF a, b, r
  <2>1. Len(s) \in Nat
    OBVIOUS
  <2>2. /\ r \in Seq(S)
        /\ Len(r) = Len(a) + Len(b)
        /\ \A i \in 1..(Len(a) + Len(b)) :
             r[i] = IF i <= Len(a) THEN a[i] ELSE b[i - Len(a)]
    BY <1>1, <1>2, <1>3, ConcatProperties
  <2>6. Len(a) + Len(b) = Len(s) - 1
    BY <2>1, <1>1, <1>2
  <2>3. Len(r) = Len(s) - 1
    BY <2>2, <2>6
  <2>7. \A i \in 1..(Len(s) - 1) :
          r[i] = IF i <= k - 1 THEN a[i] ELSE b[i - (k - 1)]
    BY <2>2, <2>6, <1>1
  <2>4. ASSUME NEW i \in 1..(Len(s) - 1), i < k PROVE r[i] = s[i]
    <3>1. i <= k - 1 /\ i \in 1..(k - 1)
      BY <2>1, <2>4
    <3> QED BY <3>1, <2>7, <1>1
  <2>5. ASSUME NEW i \in 1..(Len(s) - 1), ~(i < k) PROVE r[i] = s[i + 1]
    <3>1. r[i] = b[i - (k - 1)]
      <4>1. ~(i <= k - 1)
        BY <2>1, <2>5
      <4> QED BY <4>1, <2>7
    <3>2. i - (k - 1) \in 1..(Len(s) - k)
      BY <2>1, <2>5
    <3>3. (i - (k - 1)) + k = i + 1
      BY <2>5
    <3> QED BY <3>1, <3>2, <3>3, <1>2
  <2> QED BY <2>2, <2>3, <2>4, <2>5
<1>5. ToSet(r) = ToSet(s) \ {s[k]}
  <2>1. DOMAIN r = 1..(Len(s) - 1) /\ DOMAIN s = 1..Len(s)
    BY <1>4
  <2> HIDE DEF r
  <2>2. ASSUME NEW x \in ToSet(r) PROVE x \in ToSet(s) \ {s[k]}
    BY <1>4, <2>1, <2>2 DEF ToSet, NoDup
  <2>3. ASSUME NEW x \in ToSet(s) \ {s[k]} PROVE x \in ToSet(r)
    <3>1. PICK j \in 1..Len(s) : s[j] = x
      BY <2>1, <2>3 DEF ToSet
    <3>2. j # k
      BY <3>1, <2>3
    <3>3. CASE j < k
      BY <3>1, <3>3, <1>4, <2>1 DEF ToSet
    <3>4. CASE j > k
      <4>1. j - 1 \in 1..(Len(s) - 1) /\ ~(j - 1 < k) /\ (j - 1) + 1 = j
        BY <3>4
      <4>2. r[j - 1] = s[j]
        BY <4>1, <1>4
      <4> QED BY <4>1, <4>2, <3>1, <2>1 DEF ToSet
    <3> QED BY <3>2, <3>3, <3>4
  <2> QED BY <2>2, <2>3
<1>6. NoDup(r)
  <2> HIDE DEF r
  <2>1. SUFFICES ASSUME NEW i \in 1..(Len(s) - 1), NEW j \in 1..(Len(s) - 1),
                        r[i] = r[j]
                 PROVE  i = j
    BY <1>4 DEF NoDup
  <2> DEFINE at(m) == IF m < k THEN m ELSE m + 1
  <2>2. at(i) \in 1..Len(s) /\ at(j) \in 1..Len(s)
    OBVIOUS
  <2>3. s[at(i)] = s[at(j)]
    BY <1>4, <2>1
  <2>4. at(i) = at(j)
    BY <2>2, <2>3 DEF NoDup
  <2> QED BY <2>4
<1> QED BY <1>4, <1>5, <1>6

(* Shifting the first waiter removes exactly that waiter. *)
LEMMA TailNoDup ==
  ASSUME NEW S, NEW s \in Seq(S), NoDup(s), s # <<>>
  PROVE  /\ Tail(s) \in Seq(S)
         /\ Head(s) = s[1] /\ Head(s) \in ToSet(s) /\ Head(s) \in S
         /\ Len(Tail(s)) = Len(s) - 1
         /\ \A i \in 1..(Len(s) - 1) : Tail(s)[i] = s[i + 1]
         /\ ToSet(Tail(s)) = ToSet(s) \ {Head(s)}
         /\ NoDup(Tail(s))
<1> DEFINE r == Tail(s)
<1>1. /\ Len(s) \in Nat \ {0} /\ DOMAIN s = 1..Len(s)
      /\ r \in Seq(S) /\ Len(r) = Len(s) - 1
      /\ \A i \in 1..(Len(s) - 1) : r[i] = s[i + 1]
      /\ DOMAIN r = 1..(Len(s) - 1)
  BY HeadTailProperties, EmptySeq, LenProperties
<1>2. Head(s) = s[1] /\ Head(s) \in S
  BY HeadTailProperties
<1> HIDE DEF r
<1>3. Head(s) \in ToSet(s)
  BY <1>1, <1>2 DEF ToSet
<1>4. ASSUME NEW x \in ToSet(r) PROVE x \in ToSet(s) \ {Head(s)}
  BY <1>1, <1>2, <1>4 DEF ToSet, NoDup
<1>5. ASSUME NEW x \in ToSet(s) \ {Head(s)} PROVE x \in ToSet(r)
  <2>1. PICK j \in 1..Len(s) : s[j] = x
    BY <1>1, <1>5 DEF ToSet
  <2>2. j - 1 \in 1..(Len(s) - 1) /\ r[j - 1] = x
    BY <1>1, <1>2, <2>1, <1>5
  <2> QED BY <2>2, <1>1 DEF ToSet
<1>6. NoDup(r)
  BY <1>1 DEF NoDup
<1> QED BY <1>1, <1>2, <1>3, <1>4, <1>5, <1>6 DEF r

(* Joining the queue adds exactly one element. *)
LEMMA AppendNoDup ==
  ASSUME NEW S, NEW s \in Seq(S), NoDup(s), NEW x \in S, x \notin ToSet(s)
  PROVE  /\ Append(s, x) \in Seq(S)
         /\ ToSet(Append(s, x)) = ToSet(s) \cup {x}
         /\ NoDup(Append(s, x))
<1> DEFINE r == Append(s, x)
<1>1. /\ Len(s) \in Nat /\ DOMAIN s = 1..Len(s)
      /\ r \in Seq(S) /\ Len(r) = Len(s) + 1 /\ DOMAIN r = 1..(Len(s) + 1)
      /\ \A i \in 1..Len(s) : r[i] = s[i]
      /\ r[Len(s) + 1] = x
  BY AppendProperties, LenProperties
<1> HIDE DEF r
<1>2. ASSUME NEW y \in ToSet(r) PROVE y \in ToSet(s) \cup {x}
  <2>1. PICK j \in 1..(Len(s) + 1) : r[j] = y
    BY <1>1, <1>2 DEF ToSet
  <2>2. j \in 1..Len(s) \/ j = Len(s) + 1
    BY <1>1
  <2> QED BY <2>1, <2>2, <1>1 DEF ToSet
<1>3. ASSUME NEW y \in ToSet(s) \cup {x} PROVE y \in ToSet(r)
  <2>1. CASE y = x
    BY <2>1, <1>1 DEF ToSet
  <2>2. CASE y \in ToSet(s)
    <3>1. PICK j \in 1..Len(s) : s[j] = y
      BY <1>1, <2>2 DEF ToSet
    <3> QED BY <3>1, <1>1 DEF ToSet
  <2> QED BY <1>3, <2>1, <2>2
<1>4. NoDup(r)
  <2> SUFFICES ASSUME NEW i \in 1..(Len(s) + 1), NEW j \in 1..(Len(s) + 1),
                      r[i] = r[j], i < j
               PROVE  FALSE
    BY <1>1 DEF NoDup
  <2>1. CASE j <= Len(s)
    BY <2>1, <1>1 DEF NoDup
  <2>2. CASE j = Len(s) + 1
    <3>1. i \in 1..Len(s) /\ s[i] = x
      BY <2>2, <1>1
    <3> QED BY <3>1, <1>1 DEF ToSet
  <2> QED BY <2>1, <2>2, <1>1
<1> QED BY <1>1, <1>2, <1>3, <1>4 DEF r

(* The permit holders are finitely many. *)
LEMMA HoldersFinite == IsFiniteSet(Holders) /\ Cardinality(Holders) \in Nat
<1>1. Holders \in SUBSET Threads
  BY DEF Holders
<1> QED BY <1>1, ThreadsAssumption, FS_Subset, FS_CardinalityType

-------------------------------------------------------------------------------
(* The initial state satisfies the invariant. *)
LEMMA SemInit == Init => SemInv
<1> SUFFICES ASSUME Init PROVE SemInv
  OBVIOUS
<1>1. Holders = {} /\ Queued = {}
  BY DEF Init, Holders, Queued
<1>2. TypeOK
  BY EmptySeq DEF Init, TypeOK, PcValues
<1>3. ToSet(waiters) = {} /\ NoDup(waiters)
  BY DEF Init, ToSet, NoDup
<1> QED BY <1>1, <1>2, <1>3, FS_EmptySet, LimitAssumption
         DEF Init, SemInv, PermitAccounting, NoIdlePermit

(* Every step of every thread preserves it. *)
LEMMA SemStep == SemInv /\ [Next]_vars => SemInv'
<1> SUFFICES ASSUME SemInv, [Next]_vars PROVE SemInv'
  OBVIOUS
<1> USE LimitAssumption
<1>0. /\ TypeOK /\ active = Cardinality(Holders) /\ active <= Limit
      /\ NoIdlePermit /\ ToSet(waiters) = Queued /\ NoDup(waiters)
  BY DEF SemInv, PermitAccounting
<1>h. IsFiniteSet(Holders)
  BY HoldersFinite
<1>s. ASSUME UNCHANGED <<active, waiters>>, TypeOK', Holders' = Holders, Queued' = Queued
      PROVE  SemInv'
  BY <1>0, <1>s DEF SemInv, PermitAccounting, NoIdlePermit, NoDup, ToSet
<1>1. ASSUME NEW t \in Threads, Begin(t) PROVE SemInv'
  <2>1. TypeOK' /\ Holders' = Holders /\ Queued' = Queued
    BY <1>0, <1>1 DEF Begin, TypeOK, PcValues, Holders, Queued
  <2> QED BY <2>1, <1>1, <1>s DEF Begin
<1>2. ASSUME NEW t \in Threads, AcquireAborted(t) PROVE SemInv'
  <2>1. TypeOK' /\ Holders' = Holders /\ Queued' = Queued
    BY <1>0, <1>2 DEF AcquireAborted, TypeOK, PcValues, Holders, Queued
  <2> QED BY <2>1, <1>2, <1>s DEF AcquireAborted
<1>3. ASSUME NEW t \in Threads, AcquireNow(t) PROVE SemInv'
  <2>1. TypeOK' /\ Queued' = Queued
    BY <1>0, <1>3 DEF AcquireNow, TypeOK, PcValues, Queued
  <2>2. Holders' = Holders \cup {t} /\ t \notin Holders
    BY <1>0, <1>3 DEF AcquireNow, TypeOK, PcValues, Holders
  <2>3. Cardinality(Holders') = Cardinality(Holders) + 1
    BY <2>2, <1>h, FS_AddElement
  <2>4. active' = active + 1 /\ active < Limit /\ waiters' = waiters /\ active \in Nat
    BY <1>0, <1>3 DEF AcquireNow, TypeOK
  <2>5. waiters = <<>>
    BY <2>4, <1>0 DEF NoIdlePermit
  <2> QED BY <1>0, <2>1, <2>3, <2>4, <2>5
           DEF SemInv, PermitAccounting, NoIdlePermit, NoDup, ToSet
<1>4. ASSUME NEW t \in Threads, AcquireWait(t) PROVE SemInv'
  <2>1. t \notin ToSet(waiters) /\ waiters \in Seq(Threads)
    BY <1>0, <1>4 DEF AcquireWait, Queued, TypeOK
  <2>2. /\ waiters' \in Seq(Threads)
        /\ ToSet(waiters') = ToSet(waiters) \cup {t}
        /\ NoDup(waiters')
    BY <2>1, <1>0, <1>4, AppendNoDup DEF AcquireWait
  <2>3. TypeOK' /\ Holders' = Holders /\ Queued' = Queued \cup {t}
    BY <1>0, <1>4, <2>2 DEF AcquireWait, TypeOK, PcValues, Holders, Queued
  <2>4. active' = active /\ active = Limit
    BY <1>0, <1>4 DEF AcquireWait, TypeOK
  <2>5. ToSet(waiters)' = Queued' /\ NoDup(waiters)'
    BY <2>2, <2>3, <1>0 DEF ToSet, NoDup
  <2> QED BY <1>0, <2>3, <2>4, <2>5 DEF SemInv, PermitAccounting, NoIdlePermit
<1>5. ASSUME NEW t \in Threads, Resume(t) PROVE SemInv'
  <2>1. TypeOK' /\ Holders' = Holders /\ Queued' = Queued
    BY <1>0, <1>5 DEF Resume, TypeOK, PcValues, Holders, Queued
  <2> QED BY <2>1, <1>5, <1>s DEF Resume
<1>6. ASSUME NEW t \in Threads, AbortQueued(t) PROVE SemInv'
  <2>1. PICK i \in 1..Len(waiters) : waiters[i] = t /\ waiters' = RemoveAt(waiters, i)
    BY <1>6 DEF AbortQueued
  <2>2. /\ waiters' \in Seq(Threads)
        /\ ToSet(waiters') = ToSet(waiters) \ {t}
        /\ NoDup(waiters')
    BY <2>1, <1>0, RemoveAtNoDup DEF TypeOK
  <2>3. TypeOK' /\ Holders' = Holders /\ Queued' = Queued \ {t}
    BY <1>0, <1>6, <2>2 DEF AbortQueued, TypeOK, PcValues, Holders, Queued
  <2>4. active' = active /\ active = Limit
    <3>1. waiters # <<>>
      BY <2>1, <1>0, EmptySeq DEF TypeOK
    <3> QED BY <3>1, <1>0, <1>6 DEF AbortQueued, NoIdlePermit
  <2>5. ToSet(waiters)' = Queued' /\ NoDup(waiters)'
    BY <2>2, <2>3, <1>0 DEF ToSet, NoDup
  <2> QED BY <1>0, <2>3, <2>4, <2>5 DEF SemInv, PermitAccounting, NoIdlePermit
<1>7. ASSUME NEW t \in Threads, AbortElsewhere(t) PROVE SemInv'
  <2>1. TypeOK' /\ Holders' = Holders /\ Queued' = Queued
    BY <1>0, <1>7 DEF AbortElsewhere, TypeOK, PcValues, Holders, Queued
  <2> QED BY <2>1, <1>7, <1>s DEF AbortElsewhere
<1>8. ASSUME NEW t \in Threads, ReleaseIdle(t) PROVE SemInv'
  <2>1. Holders' = Holders \ {t} /\ t \in Holders /\ Queued' = Queued
    BY <1>0, <1>8 DEF ReleaseIdle, TypeOK, PcValues, Holders, Queued
  <2>2. Cardinality(Holders') = Cardinality(Holders) - 1
    BY <2>1, <1>h, FS_RemoveElement
  <2>3. active \in Nat /\ active # 0 /\ active' = active - 1 /\ waiters' = waiters /\ waiters = <<>>
    <3>1. Holders # {}
      BY <2>1
    <3> QED BY <3>1, <1>0, <1>h, <1>8, FS_EmptySet DEF ReleaseIdle, TypeOK
  <2>4. TypeOK'
    BY <1>0, <1>8, <2>3 DEF ReleaseIdle, TypeOK, PcValues
  <2> QED BY <1>0, <2>1, <2>2, <2>3, <2>4
           DEF SemInv, PermitAccounting, NoIdlePermit, NoDup, ToSet
<1>9. ASSUME NEW t \in Threads, ReleaseToWaiter(t) PROVE SemInv'
  <2> DEFINE w == Head(waiters)
  <2>1. /\ waiters \in Seq(Threads) /\ waiters # <<>>
        /\ w \in Threads /\ w \in Queued
        /\ waiters' \in Seq(Threads)
        /\ ToSet(waiters') = ToSet(waiters) \ {w}
        /\ NoDup(waiters')
    BY <1>0, <1>9, TailNoDup DEF ReleaseToWaiter, TypeOK
  <2>2. t # w /\ t \in Holders /\ w \notin Holders
    BY <1>0, <1>9, <2>1 DEF ReleaseToWaiter, Queued, Holders
  <2>3. pc' = [pc EXCEPT ![t] = "idle", ![w] = "granted"] /\ active' = active
    BY <1>9 DEF ReleaseToWaiter
  <2> HIDE DEF w
  <2>4. Holders' = (Holders \ {t}) \cup {w} /\ Queued' = Queued \ {w}
    BY <1>0, <2>1, <2>2, <2>3 DEF TypeOK, PcValues, Holders, Queued
  <2>5. Cardinality(Holders') = Cardinality(Holders)
    <3>1. /\ IsFiniteSet(Holders \ {t})
          /\ Cardinality(Holders \ {t}) = Cardinality(Holders) - 1
      BY <1>h, <2>2, FS_RemoveElement
    <3>2. Cardinality((Holders \ {t}) \cup {w}) = Cardinality(Holders \ {t}) + 1
      BY <3>1, <2>2, FS_AddElement
    <3> QED BY <3>1, <3>2, <2>4, HoldersFinite
  <2>6. TypeOK'
    BY <1>0, <1>9, <2>1, <2>3 DEF ReleaseToWaiter, TypeOK, PcValues
  <2>7. active = Limit
    BY <1>0, <2>1 DEF NoIdlePermit
  <2>8. ToSet(waiters)' = Queued' /\ NoDup(waiters)'
    BY <2>1, <2>4, <1>0 DEF ToSet, NoDup
  <2> QED BY <1>0, <2>3, <2>5, <2>6, <2>7, <2>8 DEF SemInv, PermitAccounting, NoIdlePermit
<1>10. CASE UNCHANGED vars
  <2>1. TypeOK' /\ Holders' = Holders /\ Queued' = Queued
    BY <1>0, <1>10 DEF vars, TypeOK, Holders, Queued
  <2> QED BY <2>1, <1>10, <1>s DEF vars
<1> QED BY <1>1, <1>2, <1>3, <1>4, <1>5, <1>6, <1>7, <1>8, <1>9, <1>10
         DEF Next, Abort, Finish

(* The invariant holds in every reachable state. *)
THEOREM SemaphoreInvariant == Spec => []SemInv
<1> QED BY SemInit, SemStep, PTL DEF Spec

(* Variables keep their types. *)
THEOREM TypeCorrect == Spec => []TypeOK
<1>1. SemInv => TypeOK
  BY DEF SemInv
<1> QED BY <1>1, SemaphoreInvariant, PTL

(* AsyncSemaphore.active always equals the number of turns holding a permit,
   and that number never passes maxConcurrentTurns. *)
THEOREM PermitsAccounted == Spec => [](PermitAccounting /\ LimitRespected)
<1>1. SemInv => PermitAccounting /\ LimitRespected
  BY DEF SemInv, PermitAccounting, LimitRespected
<1> QED BY <1>1, SemaphoreInvariant, PTL

(* No turn waits beside a free permit, and the queue holds exactly the waiting
   turns, each once. *)
THEOREM NobodyStranded == Spec => [](NoIdlePermit /\ QueueExact)
<1>1. SemInv => NoIdlePermit /\ QueueExact
  BY DEF SemInv, QueueExact, NoDup
<1> QED BY <1>1, SemaphoreInvariant, PTL

-------------------------------------------------------------------------------
(* A step that gives a waiter its permit leaves nobody in front of it waiting:
   turns are admitted in the order in which they joined the queue. *)
THEOREM AdmittedInOrder == Spec => FirstComeFirstServed
<1> DEFINE InOrder ==
      \A i, j \in 1..Len(waiters) :
        (i < j /\ pc'[waiters[j]] = "granted") => pc'[waiters[i]] # "queued"
<1>1. SemInv /\ [Next]_vars => InOrder
  <2> SUFFICES ASSUME SemInv, [Next]_vars,
                      NEW i \in 1..Len(waiters), NEW j \in 1..Len(waiters),
                      i < j, pc'[waiters[j]] = "granted"
               PROVE  FALSE
    OBVIOUS
  <2>1. /\ waiters \in Seq(Threads) /\ pc \in [Threads -> PcValues]
        /\ ToSet(waiters) = Queued /\ NoDup(waiters)
    BY DEF SemInv, TypeOK
  <2>2. waiters[j] \in Threads /\ pc[waiters[j]] = "queued"
    <3>1. waiters[j] \in ToSet(waiters)
      BY <2>1 DEF ToSet
    <3> QED BY <3>1, <2>1 DEF Queued
  <2>3. ASSUME NEW t \in Threads, ReleaseToWaiter(t) PROVE FALSE
    <3>1. Head(waiters) = waiters[1]
      BY <2>1, <2>3, TailNoDup DEF ReleaseToWaiter
    <3>2. waiters[j] # waiters[1]
      BY <2>1 DEF NoDup
    <3>3. pc'[waiters[j]] # "granted"
      BY <2>1, <2>2, <2>3, <3>1, <3>2 DEF ReleaseToWaiter
    <3> QED BY <3>3
  <2>4. ASSUME NEW t \in Threads, AbortQueued(t) PROVE FALSE
    BY <2>1, <2>2, <2>4 DEF AbortQueued
  <2>5. CASE UNCHANGED vars
    BY <2>2, <2>5 DEF vars
  <2>6. ASSUME NEW t \in Threads,
               \/ Begin(t) \/ AcquireAborted(t) \/ AcquireNow(t) \/ AcquireWait(t)
               \/ Resume(t) \/ AbortElsewhere(t) \/ ReleaseIdle(t)
        PROVE  FALSE
    BY <2>1, <2>2, <2>6
       DEF Begin, AcquireAborted, AcquireNow, AcquireWait, Resume, AbortElsewhere, ReleaseIdle
  <2> QED BY <2>3, <2>4, <2>5, <2>6 DEF Next, Abort, Finish
<1>2. SemInv /\ [Next]_vars => [InOrder]_vars
  BY <1>1
<1> QED BY <1>2, SemaphoreInvariant, PTL DEF Spec, FirstComeFirstServed

(* The pool counts holders with the same function. *)
LEMMA SameCardinality == Pool!Cardinality(Holders) = Cardinality(Holders)
BY DEF Pool!Cardinality, Cardinality

(* Every behaviour of the semaphore is one of the abstract pool: the counter,
   the queue and the two-step grant are an implementation of the promise. *)
THEOREM SemaphoreImplementsPool == Spec => ImplementsPool
<1>1. Init => Pool!PoolInit
  BY DEF Init, Pool!PoolInit, Holders, Queued
<1>2. SemInv /\ [Next]_vars => [Pool!PoolNext]_(Pool!poolVars)
  <2> SUFFICES ASSUME SemInv, [Next]_vars
               PROVE  [Pool!PoolNext]_(Pool!poolVars)
    OBVIOUS
  <2> USE LimitAssumption
  <2>0. /\ TypeOK /\ active = Cardinality(Holders) /\ active <= Limit
        /\ NoIdlePermit /\ ToSet(waiters) = Queued /\ NoDup(waiters)
    BY DEF SemInv, PermitAccounting
  <2>e. waiters = <<>> => Queued = {}
    BY <2>0 DEF ToSet
  <2>s. ASSUME Holders' = Holders, Queued' = Queued
        PROVE  [Pool!PoolNext]_(Pool!poolVars)
    BY <2>s DEF Pool!poolVars
  <2>1. ASSUME NEW t \in Threads,
               Begin(t) \/ AcquireAborted(t) \/ Resume(t) \/ AbortElsewhere(t)
        PROVE  [Pool!PoolNext]_(Pool!poolVars)
    <3>1. Holders' = Holders /\ Queued' = Queued
      BY <2>0, <2>1
         DEF Begin, AcquireAborted, Resume, AbortElsewhere, TypeOK, PcValues, Holders, Queued
    <3> QED BY <3>1, <2>s
  <2>2. ASSUME NEW t \in Threads, AcquireNow(t) PROVE Pool!AdmitNow(t)
    <3>1. Queued' = Queued /\ Holders' = Holders \cup {t} /\ t \notin Holders \cup Queued
      BY <2>0, <2>2 DEF AcquireNow, TypeOK, PcValues, Queued, Holders
    <3>2. Queued = {} /\ Cardinality(Holders) < Limit
      BY <2>0, <2>2, <2>e DEF AcquireNow, NoIdlePermit, TypeOK
    <3> QED BY <3>1, <3>2, SameCardinality DEF Pool!AdmitNow
  <2>3. ASSUME NEW t \in Threads, AcquireWait(t) PROVE Pool!Enqueue(t)
    <3>1. Holders' = Holders /\ Queued' = Queued \cup {t} /\ t \notin Holders \cup Queued
      BY <2>0, <2>3 DEF AcquireWait, TypeOK, PcValues, Queued, Holders
    <3>2. Cardinality(Holders) = Limit
      BY <2>0, <2>3 DEF AcquireWait, TypeOK
    <3> QED BY <3>1, <3>2, SameCardinality DEF Pool!Enqueue
  <2>4. ASSUME NEW t \in Threads, AbortQueued(t) PROVE Pool!GiveUp(t)
    BY <2>0, <2>4 DEF AbortQueued, TypeOK, PcValues, Queued, Holders, Pool!GiveUp
  <2>5. ASSUME NEW t \in Threads, ReleaseIdle(t) PROVE Pool!Leave(t)
    <3>1. Holders' = Holders \ {t} /\ t \in Holders /\ Queued' = Queued
      BY <2>0, <2>5 DEF ReleaseIdle, TypeOK, PcValues, Holders, Queued
    <3> QED BY <3>1, <2>5, <2>e DEF ReleaseIdle, Pool!Leave
  <2>6. ASSUME NEW t \in Threads, ReleaseToWaiter(t)
        PROVE  \E w \in Threads : Pool!HandOver(t, w)
    <3> DEFINE w == Head(waiters)
    <3>1. w \in Threads /\ w \in Queued
      BY <2>0, <2>6, TailNoDup DEF ReleaseToWaiter, TypeOK
    <3>2. t \in Holders /\ t # w
      BY <2>0, <2>6, <3>1 DEF ReleaseToWaiter, Holders, Queued
    <3>3. pc' = [pc EXCEPT ![t] = "idle", ![w] = "granted"]
      BY <2>6 DEF ReleaseToWaiter
    <3> HIDE DEF w
    <3>4. Holders' = (Holders \ {t}) \cup {w} /\ Queued' = Queued \ {w}
      BY <2>0, <3>1, <3>2, <3>3 DEF TypeOK, PcValues, Holders, Queued
    <3> QED BY <3>1, <3>2, <3>4 DEF Pool!HandOver
  <2>7. CASE UNCHANGED vars
    <3>1. Holders' = Holders /\ Queued' = Queued
      BY <2>7 DEF vars, Holders, Queued
    <3> QED BY <3>1, <2>s
  <2> QED BY <2>1, <2>2, <2>3, <2>4, <2>5, <2>6, <2>7
           DEF Next, Abort, Finish, Pool!PoolNext
<1> QED BY <1>1, <1>2, SemaphoreInvariant, PTL DEF Spec, ImplementsPool, Pool!PoolSpec
===============================================================================

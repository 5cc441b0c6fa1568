-------------------------- MODULE EventReplayProofs ---------------------------
(***************************************************************************)
(* Proofs about EventReplay, for every bound on the log and the queues,    *)
(* every set of event sizes and any number of connections: the replay log  *)
(* is a window whose byte count never drifts, and a client reads one       *)
(* stream from its cursor on, whatever is published, lost or closed while  *)
(* its subscription is being made.                                         *)
(***************************************************************************)
EXTENDS EventReplay, WellFoundedInduction, TLAPS

(* What is proved of the log in one go: the types it is made of, and the window. *)
WindowInv ==
  /\ records \in Seq(Record)
  /\ nextSequence \in Nat \ {0}
  /\ WindowContiguous

(* A log of one record is never over the limit: the loop stops before it has dropped
   everything. *)
LEMMA EvictsSome ==
  ASSUME NEW recs, NEW bytes, NEW n \in Nat \ {0}, Len(recs) = n,
         NEW k \in 0..n, Evicts(recs, bytes, k)
  PROVE  /\ k < n
         /\ n - k <= MaxReplayEvents
<1>1. n - k <= MaxReplayEvents
  BY BusAssumption DEF Evicts, OverLimit
<1>2. k # n
  <2>1. SUFFICES ASSUME k = n PROVE FALSE
    OBVIOUS
  <2>2. n - 1 \in 0..(k - 1)
    BY <2>1
  <2>3. OverLimit(Len(recs) - (n - 1), BytesLeft(recs, bytes, n - 1))
    BY <2>2 DEF Evicts
  <2>4. OverLimit(1, BytesLeft(recs, bytes, n - 1))
    <3>1. Len(recs) - (n - 1) = 1
      OBVIOUS
    <3> QED
      BY <2>3, <3>1
  <2> QED
    BY <2>4, BusAssumption DEF OverLimit
<1> QED
  BY <1>1, <1>2

(* n records with consecutive numbers, the last of them one below `next`. *)
Consecutive(recs, n, next) ==
  /\ recs \in Seq(Record)
  /\ Len(recs) = n
  /\ \A i \in 1..n : recs[i].sequence + n = next + i - 1

(* One more record with the next number keeps them consecutive. *)
LEMMA AppendConsecutive ==
  ASSUME NEW n \in Nat, NEW next \in Nat \ {0}, NEW recs, Consecutive(recs, n, next),
         NEW size \in Nat
  PROVE  Consecutive(Append(recs, [sequence |-> next, size |-> size]), n + 1, next + 1)
<1> DEFINE fresh == [sequence |-> next, size |-> size]
           all == Append(recs, fresh)
<1>1. fresh \in Record /\ fresh.sequence = next
  BY DEF Record
<1>2. recs \in Seq(Record) /\ Len(recs) = n
  BY DEF Consecutive
<1> HIDE DEF fresh
<1>3. all \in Seq(Record) /\ Len(all) = n + 1
  BY <1>1, <1>2
<1>4. all[n + 1].sequence + (n + 1) = (next + 1) + (n + 1) - 1
  BY <1>1, <1>2
<1>5. ASSUME NEW i \in 1..n
      PROVE  all[i].sequence + (n + 1) = (next + 1) + i - 1
  <2>1. all[i] = recs[i] /\ recs[i] \in Record
    BY <1>1, <1>2
  <2>2. recs[i].sequence \in Nat
    BY <2>1 DEF Record
  <2>3. recs[i].sequence + n = next + i - 1
    BY DEF Consecutive
  <2> HIDE DEF all
  <2> QED
    BY <2>1, <2>2, <2>3
<1> HIDE DEF all
<1>6. \A i \in 1..(n + 1) : all[i].sequence + (n + 1) = (next + 1) + i - 1
  BY <1>4, <1>5
<1>7. Consecutive(all, n + 1, next + 1)
  BY <1>3, <1>6 DEF Consecutive
<1> QED
  BY <1>7 DEF all, fresh

(* Dropping the first k keeps them consecutive. *)
LEMMA DropConsecutive ==
  ASSUME NEW n \in Nat, NEW next \in Nat, NEW recs, Consecutive(recs, n, next),
         NEW k \in 0..n
  PROVE  Consecutive(SubSeq(recs, k + 1, n), n - k, next)
<1> DEFINE kept == SubSeq(recs, k + 1, n)
<1>1. recs \in Seq(Record) /\ Len(recs) = n
  BY DEF Consecutive
<1>2. kept \in Seq(Record) /\ Len(kept) = n - k
  BY <1>1
<1>3. ASSUME NEW i \in 1..(n - k)
      PROVE  kept[i].sequence + (n - k) = next + i - 1
  <2>1. k + i \in 1..n /\ kept[i] = recs[k + i]
    BY <1>1
  <2>2. recs[k + i].sequence \in Nat
    <3>1. recs[k + i] \in Record
      BY <1>1, <2>1
    <3> QED
      BY <3>1 DEF Record
  <2>3. recs[k + i].sequence + n = next + (k + i) - 1
    BY <2>1 DEF Consecutive
  <2> HIDE DEF kept
  <2> QED
    BY <2>1, <2>2, <2>3
<1> HIDE DEF kept
<1>4. Consecutive(kept, n - k, next)
  BY <1>2, <1>3 DEF Consecutive
<1> QED
  BY <1>4 DEF kept

(* Publishing keeps the window. *)
LEMMA RetainStep ==
  ASSUME WindowInv, NEW size \in Sizes, Retain(size)
  PROVE  WindowInv'
<1> DEFINE all == Append(records, [sequence |-> nextSequence, size |-> size])
           bytes == retainedBytes + size
           n == Len(records)
<1>1. size \in Nat /\ n \in Nat /\ nextSequence \in Nat \ {0}
  BY BusAssumption DEF WindowInv
<1>2. Consecutive(records, n, nextSequence)
  BY DEF WindowInv, WindowContiguous, Consecutive
<1>3. Consecutive(all, n + 1, nextSequence + 1)
  BY <1>1, <1>2, AppendConsecutive
<1>4. Len(all) = n + 1
  BY <1>3 DEF Consecutive
<1>5. PICK k \in 0..Len(all) :
        Evicts(all, bytes, k) /\ records' = SubSeq(all, k + 1, Len(all))
  BY DEF Retain
<1>6. nextSequence' = nextSequence + 1
  BY DEF Retain
<1> HIDE DEF all, bytes, n
<1>7. k \in 0..(n + 1) /\ k < n + 1 /\ (n + 1) - k <= MaxReplayEvents
  <2>1. Len(all) \in Nat \ {0} /\ k \in 0..Len(all) /\ Evicts(all, bytes, k)
    BY <1>1, <1>4, <1>5
  <2>2. k < Len(all) /\ Len(all) - k <= MaxReplayEvents
    BY <2>1, EvictsSome
  <2> QED
    BY <1>4, <2>1, <2>2
<1>8. Consecutive(records', (n + 1) - k, nextSequence')
  BY <1>1, <1>3, <1>4, <1>5, <1>6, <1>7, DropConsecutive
<1>9. Len(records') = (n + 1) - k /\ (n + 1) - k \in Nat \ {0}
  BY <1>1, <1>7, <1>8 DEF Consecutive
<1>10. records' # <<>>
  BY <1>9
<1> QED
  BY <1>1, <1>6, <1>7, <1>8, <1>9, <1>10 DEF WindowInv, WindowContiguous, Consecutive

(* The log of a thread is a window on its events in every state that the clients,
   their connections and the thread's deletion can bring about: contiguous, bounded by
   maxReplayEvents, and never without the newest event. *)
THEOREM WindowAlways == Spec => []WindowContiguous
<1>1. Init => WindowInv
  BY BusAssumption DEF Init, BusInit, WindowInv, WindowContiguous
<1>2. WindowInv /\ [Next]_vars => WindowInv'
  <2> SUFFICES ASSUME WindowInv, [Next]_vars PROVE WindowInv'
    OBVIOUS
  <2>1. ASSUME NEW size \in Sizes, Publish(size) PROVE WindowInv'
    BY <2>1, RetainStep DEF Publish
  <2>2. CASE Rebirth
    BY <2>2, BusAssumption DEF Rebirth, WindowInv, WindowContiguous
  <2>3. ASSUME UNCHANGED busVars PROVE WindowInv'
    BY <2>3 DEF busVars, WindowInv, WindowContiguous
  <2>4. ASSUME NEW c \in Connections,
               \/ Connect(c) \/ Subscribe(c) \/ SnapshotRead(c) \/ Join(c) \/ Replays(c)
               \/ Unsubscribe(c) \/ Deliver(c) \/ Lose(c) \/ HandleClose(c)
        PROVE  WindowInv'
    BY <2>3, <2>4 DEF Connect, Subscribe, SnapshotRead, Join, Replays, Unsubscribe, Deliver,
                      Lose, HandleClose
  <2>5. CASE UNCHANGED vars
    BY <2>3, <2>5 DEF vars
  <2> QED
    BY <2>1, <2>2, <2>4, <2>5 DEF Next
<1>3. WindowInv => WindowContiguous
  BY DEF WindowInv
<1> QED
  BY <1>1, <1>2, <1>3, PTL DEF Spec
-------------------------------------------------------------------------------
(* Induction over the natural numbers, for a set in place of a predicate: a least
   number outside S would have a predecessor outside it. *)
LEMMA SetInduction ==
  ASSUME NEW S, 0 \in S, \A n \in Nat : n \in S => n + 1 \in S
  PROVE  Nat \subseteq S
<1> DEFINE T == Nat \ S
<1>1. SUFFICES ASSUME T # {} PROVE FALSE
  OBVIOUS
<1>2. PICK x \in T : \A y \in T : ~ (<<y, x>> \in OpToRel(<, Nat))
  BY <1>1, WFMin, NatLessThanWellFounded
<1>3. x \in Nat /\ x # 0 /\ x - 1 \in Nat
  OBVIOUS
<1>4. x - 1 \in T
  BY <1>3
<1>5. <<x - 1, x>> \in OpToRel(<, Nat)
  BY <1>3 DEF OpToRel
<1> QED
  BY <1>2, <1>4, <1>5

(* Two functions begin alike, and go on alike as long as they were; then they are
   the same up to n. *)
Alike(n, f, g) ==
  /\ f[0] = g[0]
  /\ \A i \in 1..n : f[i - 1] = g[i - 1] => f[i] = g[i]

Same(n, f, g) == \A i \in 0..n : f[i] = g[i]

LEMMA AlikeIsSame ==
  ASSUME NEW n \in Nat, NEW f, NEW g, Alike(n, f, g)
  PROVE  Same(n, f, g)
<1> DEFINE S == {i \in Nat : i <= n => f[i] = g[i]}
<1>1. 0 \in S
  BY DEF Alike
<1>2. ASSUME NEW i \in Nat, i \in S PROVE i + 1 \in S
  <2>1. SUFFICES ASSUME i + 1 <= n PROVE f[i + 1] = g[i + 1]
    OBVIOUS
  <2>2. i + 1 \in 1..n /\ (i + 1) - 1 = i /\ f[i] = g[i]
    BY <1>2, <2>1
  <2> QED
    BY <2>2 DEF Alike
<1>3. Nat \subseteq S
  <2> HIDE DEF S
  <2> QED
    BY <1>1, <1>2, SetInduction
<1> QED
  BY <1>3 DEF Same

(* s[i] is the weight of the first i records. *)
Sums(recs, s) ==
  /\ s \in [0..Len(recs) -> Nat]
  /\ s[0] = 0
  /\ \A i \in 1..Len(recs) : s[i] = s[i - 1] + recs[i].size

LEMMA SumsExist ==
  ASSUME NEW recs \in Seq(Record)
  PROVE  \E s : Sums(recs, s)
<1> DEFINE n == Len(recs)
           Upto(m, s) == /\ s \in [0..m -> Nat]
                         /\ s[0] = 0
                         /\ \A i \in 1..m : s[i] = s[i - 1] + recs[i].size
           S == {m \in Nat : m <= n => \E s : Upto(m, s)}
<1>1. 0 \in S
  <2>1. Upto(0, [i \in 0..0 |-> 0])
    OBVIOUS
  <2> HIDE DEF Upto
  <2> QED
    BY <2>1
<1>2. ASSUME NEW m \in Nat, m \in S PROVE m + 1 \in S
  <2>1. SUFFICES ASSUME m + 1 <= n PROVE \E s : Upto(m + 1, s)
    <3> HIDE DEF Upto
    <3> QED
      BY DEF S
  <2>2. PICK s : Upto(m, s)
    <3>1. n \in Nat /\ m <= n
      BY <2>1
    <3> HIDE DEF Upto
    <3> QED
      BY <1>2, <3>1
  <2>3. recs[m + 1].size \in Nat
    <3>1. recs[m + 1] \in Record
      BY <2>1
    <3> QED
      BY <3>1 DEF Record
  <2> DEFINE t == [i \in 0..(m + 1) |-> IF i = m + 1 THEN s[m] + recs[m + 1].size ELSE s[i]]
  <2>4. t \in [0..(m + 1) -> Nat] /\ t[0] = 0
    BY <2>2, <2>3
  <2>5. ASSUME NEW i \in 1..(m + 1) PROVE t[i] = t[i - 1] + recs[i].size
    BY <2>2
  <2>6. Upto(m + 1, t)
    <3> HIDE DEF t
    <3> QED
      BY <2>4, <2>5
  <2> QED
    BY <2>6
<1>3. Nat \subseteq S
  <2> HIDE DEF S
  <2> QED
    BY <1>1, <1>2, SetInduction
<1>4. n \in S
  BY <1>3
<1> QED
  BY <1>4 DEF Sums

LEMMA WeightIs ==
  ASSUME NEW recs \in Seq(Record), NEW s, Sums(recs, s)
  PROVE  Weight(recs) = s[Len(recs)]
<1> DEFINE n == Len(recs)
           Eq(f) == f = [i \in 0..n |-> IF i = 0 THEN 0 ELSE f[i - 1] + recs[i].size]
           g == CHOOSE f : Eq(f)
<1>1. n \in Nat
  OBVIOUS
<1>2. Eq(s)
  BY <1>1 DEF Sums
<1>3. Eq(g)
  <2> HIDE DEF Eq
  <2> QED
    BY <1>2
<1>4. g[0] = 0 /\ \A i \in 1..n : g[i] = g[i - 1] + recs[i].size
  <2> HIDE DEF g
  <2> QED
    BY <1>1, <1>3
<1>5. s[0] = 0 /\ \A i \in 1..n : s[i] = s[i - 1] + recs[i].size
  BY DEF Sums
<1>6. Weight(recs) = g[n]
  BY DEF Weight
<1> HIDE DEF n, g
<1>7. Alike(n, s, g)
  BY <1>4, <1>5 DEF Alike
<1>8. Same(n, s, g)
  BY <1>1, <1>7, AlikeIsSame
<1> QED
  BY <1>1, <1>6, <1>8 DEF n, Same

(* A sum is the sum of its first k terms and of the others. *)
SumOf(w, from, n, s) ==
  /\ s \in [0..n -> Nat]
  /\ s[0] = 0
  /\ \A i \in 1..n : s[i] = s[i - 1] + w[from + i]

LEMMA SumSplit ==
  ASSUME NEW n \in Nat, NEW k \in 0..n, NEW w \in [1..n -> Nat], NEW s, NEW d, NEW e,
         SumOf(w, 0, n, s), SumOf(w, 0, k, d), SumOf(w, k, n - k, e)
  PROVE  s[n] = d[k] + e[n - k]
<1> DEFINE t == [i \in 0..(n - k) |-> s[k] + e[i]]
           u == [i \in 0..(n - k) |-> s[k + i]]
<1>1. /\ s \in [0..n -> Nat] /\ d \in [0..k -> Nat] /\ e \in [0..(n - k) -> Nat]
      /\ s[0] = 0 /\ d[0] = 0 /\ e[0] = 0
  BY DEF SumOf
<1>2. ASSUME NEW i \in 1..n PROVE s[i] = s[i - 1] + w[i]
  BY DEF SumOf
<1>3. ASSUME NEW i \in 1..k PROVE d[i] = d[i - 1] + w[i]
  BY DEF SumOf
<1>4. ASSUME NEW i \in 1..(n - k) PROVE e[i] = e[i - 1] + w[k + i]
  BY DEF SumOf
<1>5. d[k] = s[k]
  <2>1. Alike(k, d, s)
    BY <1>1, <1>2, <1>3 DEF Alike
  <2>2. Same(k, d, s)
    BY <2>1, AlikeIsSame
  <2> QED
    BY <2>2 DEF Same
<1>6. t[n - k] = u[n - k]
  <2>1. t[0] = u[0]
    BY <1>1
  <2>2. ASSUME NEW i \in 1..(n - k), t[i - 1] = u[i - 1] PROVE t[i] = u[i]
    <3>1. /\ i \in 0..(n - k) /\ i - 1 \in 0..(n - k)
          /\ k + i \in 1..n /\ (k + i) - 1 = k + (i - 1) /\ k + (i - 1) \in 0..n
      OBVIOUS
    <3>2. s[k + i] = s[k + (i - 1)] + w[k + i]
      BY <1>2, <3>1
    <3>3. s[k] \in Nat /\ e[i - 1] \in Nat /\ s[k + (i - 1)] \in Nat /\ w[k + i] \in Nat
      BY <1>1, <3>1
    <3>4. t[i] = s[k] + e[i] /\ t[i - 1] = s[k] + e[i - 1]
          /\ u[i] = s[k + i] /\ u[i - 1] = s[k + (i - 1)]
      BY <3>1
    <3> HIDE DEF t, u
    <3>5. e[i] = e[i - 1] + w[k + i]
      BY <1>4
    <3>6. \A a, b, c \in Nat : a + (b + c) = (a + b) + c
      OBVIOUS
    <3>7. s[k] + (e[i - 1] + w[k + i]) = (s[k] + e[i - 1]) + w[k + i]
      BY <3>3, <3>6
    <3> QED
      BY <2>2, <3>2, <3>4, <3>5, <3>7
  <2>3. n - k \in Nat
    OBVIOUS
  <2> HIDE DEF t, u
  <2>4. Alike(n - k, t, u)
    BY <2>1, <2>2 DEF Alike
  <2>5. Same(n - k, t, u)
    BY <2>3, <2>4, AlikeIsSame
  <2> QED
    BY <2>3, <2>5 DEF Same
<1>7. s[n] = s[k] + e[n - k]
  BY <1>6
<1> QED
  BY <1>5, <1>7

(* The weight of a log is the weight of what is dropped from its front and of what
   is kept. *)
LEMMA WeightSplit ==
  ASSUME NEW recs \in Seq(Record), NEW k \in 0..Len(recs)
  PROVE  /\ Weight(SubSeq(recs, 1, k)) \in Nat
         /\ Weight(SubSeq(recs, k + 1, Len(recs))) \in Nat
         /\ Weight(recs) = Weight(SubSeq(recs, 1, k))
                           + Weight(SubSeq(recs, k + 1, Len(recs)))
<1> DEFINE n == Len(recs)
           dropped == SubSeq(recs, 1, k)
           kept == SubSeq(recs, k + 1, n)
           w == [i \in 1..n |-> recs[i].size]
<1>1. n \in Nat /\ k \in 0..n /\ \A i \in 1..n : recs[i] \in Record
  OBVIOUS
<1>2. /\ dropped \in Seq(Record) /\ Len(dropped) = k
      /\ \A i \in 1..k : dropped[i] = recs[i]
  OBVIOUS
<1>3. /\ kept \in Seq(Record) /\ Len(kept) = n - k
      /\ \A i \in 1..(n - k) : kept[i] = recs[k + i]
  OBVIOUS
<1>4. PICK s : Sums(recs, s)
  BY SumsExist
<1>5. PICK d : Sums(dropped, d)
  BY <1>2, SumsExist
<1>6. PICK e : Sums(kept, e)
  BY <1>3, SumsExist
<1>7. Weight(recs) = s[n] /\ Weight(dropped) = d[k] /\ Weight(kept) = e[n - k]
  BY <1>2, <1>3, <1>4, <1>5, <1>6, WeightIs
<1> HIDE DEF dropped, kept
<1>8. s \in [0..n -> Nat] /\ d \in [0..k -> Nat] /\ e \in [0..(n - k) -> Nat]
  BY <1>2, <1>3, <1>4, <1>5, <1>6 DEF Sums
<1>9. /\ s[0] = 0 /\ d[0] = 0 /\ e[0] = 0
      /\ \A i \in 1..n : s[i] = s[i - 1] + recs[i].size
      /\ \A i \in 1..k : d[i] = d[i - 1] + dropped[i].size
      /\ \A i \in 1..(n - k) : e[i] = e[i - 1] + kept[i].size
  BY <1>2, <1>3, <1>4, <1>5, <1>6 DEF Sums
<1>10. /\ \A i \in 1..k : i \in 1..n
       /\ \A i \in 1..(n - k) : k + i \in 1..n
  BY <1>1
<1>11. \A i \in 1..n : w[i] = recs[i].size /\ w[i] \in Nat
  BY <1>1 DEF Record
<1> HIDE DEF n, w
<1>12. SumOf(w, 0, n, s) /\ SumOf(w, 0, k, d) /\ SumOf(w, k, n - k, e)
  <2>1. SumOf(w, 0, n, s)
    <3>1. \A i \in 1..n : s[i] = s[i - 1] + w[0 + i]
      BY <1>9, <1>11
    <3> QED
      BY <1>8, <1>9, <3>1 DEF SumOf
  <2>2. SumOf(w, 0, k, d)
    <3>1. \A i \in 1..k : d[i] = d[i - 1] + w[0 + i]
      BY <1>2, <1>9, <1>10, <1>11
    <3> QED
      BY <1>8, <1>9, <3>1 DEF SumOf
  <2>3. SumOf(w, k, n - k, e)
    <3>1. \A i \in 1..(n - k) : e[i] = e[i - 1] + w[k + i]
      BY <1>3, <1>9, <1>10, <1>11
    <3> QED
      BY <1>8, <1>9, <3>1 DEF SumOf
  <2> QED
    BY <2>1, <2>2, <2>3
<1>13. s[n] = d[k] + e[n - k]
  <2>1. w \in [1..n -> Nat]
    BY <1>11 DEF w
  <2> QED
    BY <1>1, <1>12, <2>1, SumSplit
<1>14. d[k] \in Nat /\ e[n - k] \in Nat
  BY <1>1, <1>8
<1> QED
  BY <1>7, <1>13, <1>14 DEF n, dropped, kept

(* One record more weighs its size more. *)
LEMMA WeightAppend ==
  ASSUME NEW recs \in Seq(Record), NEW r \in Record
  PROVE  /\ Weight(Append(recs, r)) = Weight(recs) + r.size
         /\ Weight(recs) \in Nat
<1> DEFINE n == Len(recs)
           all == Append(recs, r)
<1>1. n \in Nat /\ r.size \in Nat
  BY DEF Record
<1>2. /\ all \in Seq(Record) /\ Len(all) = n + 1 /\ all[n + 1] = r
      /\ \A i \in 1..n : all[i] = recs[i]
  OBVIOUS
<1>3. PICK s : Sums(recs, s)
  BY SumsExist
<1> HIDE DEF all
<1> DEFINE t == [i \in 0..(n + 1) |-> IF i = n + 1 THEN s[n] + r.size ELSE s[i]]
<1>4. Sums(all, t)
  <2>1. t \in [0..(n + 1) -> Nat] /\ t[0] = 0
    BY <1>1, <1>3 DEF Sums
  <2>2. ASSUME NEW i \in 1..(n + 1) PROVE t[i] = t[i - 1] + all[i].size
    BY <1>1, <1>2, <1>3 DEF Sums
  <2> HIDE DEF t
  <2> QED
    BY <1>2, <2>1, <2>2 DEF Sums
<1>5. Weight(recs) = s[n] /\ Weight(all) = t[n + 1] /\ s[n] \in Nat
  BY <1>1, <1>2, <1>3, <1>4, WeightIs DEF Sums
<1> QED
  BY <1>1, <1>5 DEF all

-------------------------------------------------------------------------------
(* The log as a window with its weight. *)

(* The bytes of the log after publishing are those of the log before, with the new
   event's, without what was evicted: subtracting record by record does not drift. *)
LEMMA RetainWeighs ==
  ASSUME WindowInv, WindowWeight, NEW size \in Sizes, Retain(size)
  PROVE  WindowWeight'
<1> DEFINE fresh == [sequence |-> nextSequence, size |-> size]
           all == Append(records, fresh)
           bytes == retainedBytes + size
<1>1. size \in Nat /\ fresh \in Record /\ fresh.size = size
  BY BusAssumption DEF WindowInv, Record
<1>2. PICK k \in 0..Len(all) :
        /\ Evicts(all, bytes, k)
        /\ records' = SubSeq(all, k + 1, Len(all))
        /\ retainedBytes' = BytesLeft(all, bytes, k)
  BY DEF Retain
<1>3. records \in Seq(Record)
  BY DEF WindowInv
<1> HIDE DEF fresh
<1>4. all \in Seq(Record) /\ Len(all) \in Nat \ {0}
  BY <1>1, <1>3
<1>5. Weight(all) = bytes
  <2>1. Weight(all) = Weight(records) + fresh.size
    BY <1>1, <1>3, WeightAppend
  <2> QED
    BY <1>1, <2>1 DEF WindowWeight
<1> HIDE DEF all, bytes
<1>6. /\ Weight(SubSeq(all, 1, k)) \in Nat
      /\ Weight(SubSeq(all, k + 1, Len(all))) \in Nat
      /\ Weight(all) = Weight(SubSeq(all, 1, k)) + Weight(SubSeq(all, k + 1, Len(all)))
  BY <1>4, WeightSplit
<1>7. retainedBytes' = Weight(records')
  BY <1>2, <1>5, <1>6 DEF BytesLeft
<1>8. k < Len(all)
  BY <1>2, <1>4, EvictsSome
<1>9. Len(records') = Len(all) - k
  BY <1>2, <1>4, <1>8
<1>10. retainedBytes' > MaxReplayBytes => Len(records') = 1
  <2>1. ~OverLimit(Len(all) - k, retainedBytes')
    BY <1>2 DEF Evicts
  <2>2. k \in Nat /\ Len(all) \in Nat
    BY <1>2, <1>4
  <2> QED
    BY <1>8, <1>9, <2>1, <2>2 DEF OverLimit
<1> QED
  BY <1>7, <1>10 DEF WindowWeight

(* The numbers after a, n of them. *)
Run(a, n) == [i \in 1..n |-> a + i]

LEMMA RunIs ==
  ASSUME NEW a \in Nat, NEW n \in Nat
  PROVE  /\ Run(a, n) \in Seq(Nat)
         /\ Len(Run(a, n)) = n
         /\ \A i \in 1..n : Run(a, n)[i] = a + i
         /\ Run(a, 0) = <<>>
         /\ Append(Run(a, n), a + n + 1) = Run(a, n + 1)
<1>1. /\ Run(a, n) \in Seq(Nat)
      /\ Len(Run(a, n)) = n
      /\ \A i \in 1..n : Run(a, n)[i] = a + i
  BY DEF Run
<1>2. Run(a, 0) = <<>>
  BY DEF Run
<1>3. Append(Run(a, n), a + n + 1) = Run(a, n + 1)
  BY DEF Run
<1> QED
  BY <1>1, <1>2, <1>3

(* Filtering consecutive numbers leaves consecutive numbers. *)
LEMMA AboveRun ==
  ASSUME NEW a \in Nat, NEW n \in Nat, NEW m \in 0..(a + n)
  PROVE  Above(Run(a, n), m) = IF m <= a THEN Run(a, n) ELSE Run(m, a + n - m)
<1> DEFINE s == Run(a, n)
           From(f, i) == IF i = 0 THEN <<>>
                         ELSE IF s[i] > m THEN Append(f[i - 1], s[i]) ELSE f[i - 1]
           Eq(f) == f = [i \in 0..n |-> From(f, i)]
           g == CHOOSE f : Eq(f)
           h == [i \in 0..n |-> IF m <= a THEN Run(a, i)
                                ELSE IF a + i <= m THEN <<>> ELSE Run(m, a + i - m)]
<1>1. Len(s) = n /\ \A i \in 1..n : s[i] = a + i
  BY RunIs
<1>2. ASSUME NEW i \in 0..n PROVE h[i] = From(h, i)
  <2>1. CASE i = 0
    BY <2>1, RunIs
  <2>2. CASE i # 0 /\ a + i <= m
    <3>1. i \in 1..n /\ s[i] = a + i /\ ~ (s[i] > m) /\ i - 1 \in 0..n
      BY <1>1, <2>2
    <3> HIDE DEF s
    <3> QED
      BY <2>2, <3>1
  <2>3. CASE i # 0 /\ m <= a
    <3>1. i \in 1..n /\ s[i] = a + i /\ s[i] > m /\ i - 1 \in 0..n
      BY <1>1, <2>3
    <3>2. Append(Run(a, i - 1), a + (i - 1) + 1) = Run(a, (i - 1) + 1)
      <4>1. i - 1 \in Nat
        BY <3>1
      <4> HIDE DEF s
      <4> QED
        BY <4>1, RunIs
    <3>3. Append(Run(a, i - 1), s[i]) = Run(a, i)
      BY <3>1, <3>2
    <3>4. h[i] = Run(a, i) /\ h[i - 1] = Run(a, i - 1)
      BY <2>3, <3>1
    <3> HIDE DEF s, h
    <3> QED
      BY <2>3, <3>1, <3>3, <3>4
  <2>4. CASE i # 0 /\ a + i > m /\ m > a
    <3>1. i \in 1..n /\ s[i] = a + i /\ s[i] > m /\ i - 1 \in 0..n
      BY <1>1, <2>4
    <3> DEFINE j == a + i - m - 1
    <3>2. j \in Nat /\ j + 1 = a + i - m /\ m + j + 1 = a + i
      BY <2>4
    <3>3. Append(Run(m, j), m + j + 1) = Run(m, j + 1)
      BY <3>2, RunIs
    <3>4. Append(Run(m, j), s[i]) = Run(m, a + i - m)
      BY <3>1, <3>2, <3>3
    <3>5. h[i] = Run(m, a + i - m)
      BY <2>4, <3>1
    <3>6. h[i - 1] = Run(m, j)
      <4>1. CASE j = 0
        BY <2>4, <3>1, <4>1, RunIs
      <4>2. CASE j # 0
        <5>1. ~ (a + (i - 1) <= m) /\ a + (i - 1) - m = j
          BY <2>4, <3>1, <4>2
        <5> HIDE DEF j
        <5> QED
          BY <2>4, <3>1, <5>1
      <4> QED
        BY <4>1, <4>2
    <3> HIDE DEF s, h, j
    <3> QED
      BY <2>4, <3>1, <3>4, <3>5, <3>6
  <2> QED
    BY <2>1, <2>2, <2>3, <2>4
<1>3. Eq(h)
  <2> DEFINE hh == [i \in 0..n |-> From(h, i)]
  <2>1. \A i \in 0..n : h[i] = hh[i]
    <3> HIDE DEF From, h
    <3> QED
      BY <1>2
  <2>2. h = hh
    <3> HIDE DEF From
    <3>1. \A i \in 0..n : h[i] = hh[i]
      BY <2>1
    <3>2. h = [i \in 0..n |-> h[i]] /\ hh = [i \in 0..n |-> hh[i]]
      OBVIOUS
    <3> HIDE DEF h, hh
    <3> QED
      BY <3>1, <3>2
  <2> HIDE DEF h, From
  <2> QED
    BY <2>2
<1>4. Eq(g)
  <2> HIDE DEF Eq, h
  <2> QED
    BY <1>3
<1>5. ASSUME NEW i \in 0..n PROVE g[i] = From(g, i)
  <2> HIDE DEF g, From
  <2> QED
    BY <1>4
<1>6. Above(s, m) = g[n]
  BY <1>1 DEF Above
<1> HIDE DEF g, h, s
<1>7. Alike(n, g, h)
  <2>1. g[0] = h[0]
    BY <1>2, <1>5
  <2>2. ASSUME NEW i \in 1..n, g[i - 1] = h[i - 1] PROVE g[i] = h[i]
    <3>1. i \in 0..n /\ i # 0
      OBVIOUS
    <3>2. g[i] = From(g, i) /\ h[i] = From(h, i)
      BY <1>2, <1>5, <3>1
    <3> QED
      BY <2>2, <3>1, <3>2
  <2> QED
    BY <2>1, <2>2 DEF Alike
<1>8. g[n] = h[n]
  <2>1. Same(n, g, h)
    BY <1>7, AlikeIsSame
  <2> QED
    BY <2>1 DEF Same
<1>9. h[n] = IF m <= a THEN Run(a, n) ELSE Run(m, a + n - m)
  <2>1. CASE m <= a
    BY <2>1 DEF h
  <2>2. CASE m > a /\ a + n <= m
    <3>1. a + n - m = 0 /\ h[n] = <<>>
      BY <2>2 DEF h
    <3> QED
      BY <2>2, <3>1, RunIs
  <2>3. CASE m > a /\ a + n > m
    BY <2>3 DEF h
  <2> QED
    BY <2>1, <2>2, <2>3
<1> QED
  BY <1>6, <1>8, <1>9 DEF s

-------------------------------------------------------------------------------
(* The inductive invariant of the stream. *)

EventOf(s) == [kind |-> "event", sequence |-> s]

(* queue holds the events that end just below next, one after the other, and, when
   w is not 0, the warning at place w. *)
Stream(queue, w, next) ==
  /\ w \in 0..Len(queue)
  /\ w > 0 => queue[w] = Warning
  /\ \A i \in 1..Len(queue) :
       /\ i > w => queue[i] = EventOf(next + i - 1 - Len(queue))
       /\ i < w => queue[i] = EventOf(next + i - Len(queue))

(* The first event of such a queue of n messages, or next when it has none. *)
First(n, w, next) == IF w = 0 THEN next - n ELSE next + 1 - n

(* It goes on from a cursor; a gap before the first event is announced further
   back in the queue, or the client is at 0. *)
GoesOn(n, w, next, from) ==
  \/ First(n, w, next) = from + 1
  \/ /\ First(n, w, next) > from + 1
     /\ n > 0 /\ w # 1
     /\ from = 0 \/ w > 0

(* A client that is connected reads a stream; when it is registered, up to the newest
   event. *)
QueueInv ==
  \A c \in Connections : Up(c) =>
    \E next \in 1..nextSequence, w \in 0..Len(out[c]) :
      /\ Stream(out[c], w, next)
      /\ GoesOn(Len(out[c]), w, next, cursor)
      /\ c \in registered => next = nextSequence

(* The states of a subscription. *)
HandlerInv ==
  \A c \in Connections :
    /\ c \in replaying <=> handler[c] = "replay"
    /\ c \in attached <=> (c \in registered \/ handler[c] = "replay")
    /\ c \in registered => handler[c] = "none"
    /\ link[c] = "new" => handler[c] = "none" /\ c \notin registered

(* One connection is up at a time, and the client reads no other; while it
   subscribes, nothing waits on it. *)
LinkInv ==
  \A c \in Connections : Up(c) =>
    /\ \A d \in Connections \ {c} : ~Up(d) /\ out[d] = <<>>
    /\ handler[c] # "none" => out[c] = <<>>

(* What was taken as the replay and what was buffered since, joined, end with the
   newest event; for a client that is there, they go on where its cursor stands. *)
ReplayInv ==
  \A c \in Connections : handler[c] = "replay" =>
    LET r == replay[c]
        n == Len(r.events)
        m == Len(buffered[c])
    IN  /\ n <= r.latest /\ r.events = Run(r.latest - n, n)
        /\ buffered[c] = Run(r.latest, m)
        /\ nextSequence = r.latest + m + 1
        /\ Up(c) => \/ r.latest = cursor + n
                    \/ /\ r.latest > cursor + n /\ n > 0
                       /\ cursor = 0 \/ r.truncated

(* Nothing is known to the client, or on its way, that was not published. *)
KnownInv ==
  /\ nextSequence <= MaxPublished + 1
  /\ cursor < nextSequence
  /\ \A c \in Connections : \A i \in 1..Len(out[c]) : out[c][i].sequence < nextSequence

StreamInv ==
  /\ TypeOK /\ WindowInv /\ WindowWeight
  /\ KnownInv /\ HandlerInv /\ LinkInv /\ ReplayInv /\ QueueInv

Messages == Event \cup {Warning}

-------------------------------------------------------------------------------
(* What the operators of the specification return. *)

LEMMA EventsOfIs ==
  ASSUME NEW s \in Seq(Sequences1)
  PROVE  /\ EventsOf(s) \in Seq(Messages)
         /\ Len(EventsOf(s)) = Len(s)
         /\ \A i \in 1..Len(s) : EventsOf(s)[i] = EventOf(s[i])
<1>1. DOMAIN s = 1..Len(s) /\ Len(s) \in Nat
  OBVIOUS
<1>2. ASSUME NEW i \in 1..Len(s)
      PROVE  [kind |-> "event", sequence |-> s[i]] \in Event
  BY DEF Event
<1>3. EventsOf(s) = [i \in 1..Len(s) |-> [kind |-> "event", sequence |-> s[i]]]
  BY <1>1 DEF EventsOf
<1>4. EventsOf(s) \in [1..Len(s) -> Messages]
  BY <1>2, <1>3 DEF Messages
<1>5. EventsOf(s) \in Seq(Messages) /\ Len(EventsOf(s)) = Len(s)
  BY <1>1, <1>4
<1> QED
  BY <1>3, <1>5 DEF EventOf

(* sendJson keeps the queue within its bound, and on a connection that stays up the
   messages are behind those that waited. *)
LEMMA SentIs ==
  ASSUME TypeOK, NEW c \in Connections, NEW messages \in Seq(Messages)
  PROVE  /\ Sent(c, messages).out \in Seq(Messages)
         /\ Len(Sent(c, messages).out) <= MaxOutbound + 1
         /\ Sent(c, messages).link \in {"new", "up", "closed", "gone"}
         /\ ~Up(c) => Sent(c, messages).out = out[c] /\ Sent(c, messages).link = link[c]
         /\ Sent(c, messages).link = "up" => /\ Up(c)
                                             /\ Sent(c, messages).out = out[c] \o messages
         /\ Sent(c, messages).link = "new" => link[c] = "new"
         /\ \A i \in 1..Len(Sent(c, messages).out) :
              \/ \E j \in 1..Len(out[c]) : Sent(c, messages).out[i] = out[c][j]
              \/ \E j \in 1..Len(messages) : Sent(c, messages).out[i] = messages[j]
<1> DEFINE all == out[c] \o messages
           S == Sent(c, messages)
<1>1. /\ out[c] \in Seq(Messages) /\ Len(out[c]) \in Nat /\ Len(out[c]) <= MaxOutbound + 1
      /\ link[c] \in {"new", "up", "closed", "gone"}
  BY DEF TypeOK, Messages
<1>2. Len(messages) \in Nat
  OBVIOUS
<1>3. /\ all \in Seq(Messages) /\ Len(all) = Len(out[c]) + Len(messages)
      /\ \A i \in 1..Len(out[c]) : all[i] = out[c][i]
      /\ \A i \in (Len(out[c]) + 1)..Len(all) : all[i] = messages[i - Len(out[c])]
  BY <1>1, <1>2
<1>4. ASSUME NEW i \in 1..Len(all)
      PROVE  \/ \E j \in 1..Len(out[c]) : all[i] = out[c][j]
             \/ \E j \in 1..Len(messages) : all[i] = messages[j]
  <2>1. CASE i <= Len(out[c])
    BY <1>1, <1>3, <2>1
  <2>2. CASE i > Len(out[c])
    <3>1. i - Len(out[c]) \in 1..Len(messages) /\ all[i] = messages[i - Len(out[c])]
      BY <1>1, <1>2, <1>3, <2>2
    <3> QED
      BY <3>1
  <2> QED
    BY <1>1, <2>1, <2>2
<1>5. Len(all) \in Nat /\ (~Room(all) => Len(all) > 0)
  BY <1>1, <1>2, <1>3, ReplayAssumption DEF Room
<1> HIDE DEF all
<1>6. CASE ~Up(c)
  <2>1. S = [out |-> out[c], link |-> link[c]]
    BY <1>6 DEF Sent, Up
  <2> QED
    BY <1>1, <1>6, <2>1 DEF Up
<1>7. CASE Up(c) /\ Room(all)
  <2>1. S = [out |-> all, link |-> "up"]
    BY <1>7 DEF Sent, Up, all
  <2>2. Len(all) <= MaxOutbound + 1
    BY <1>7 DEF Room
  <2>3. S.out = all /\ S.link = "up"
    BY <2>1
  <2>4. all = out[c] \o messages
    BY DEF all
  <2>5. \A i \in 1..Len(S.out) : \/ \E j \in 1..Len(out[c]) : S.out[i] = out[c][j]
                                 \/ \E j \in 1..Len(messages) : S.out[i] = messages[j]
    BY <1>4, <2>3
  <2>6. Up(c) /\ S.out = out[c] \o messages
    BY <1>7, <2>3, <2>4
  <2> QED
    BY <1>3, <2>2, <2>3, <2>5, <2>6
<1>8. CASE Up(c) /\ ~Room(all)
  <2>1. S = [out |-> <<Head(all)>>, link |-> "closed"]
    BY <1>8 DEF Sent, Up, all
  <2>2. Head(all) = all[1] /\ 1 \in 1..Len(all) /\ Head(all) \in Messages
    BY <1>3, <1>5, <1>8
  <2>3. <<Head(all)>> \in Seq(Messages) /\ Len(<<Head(all)>>) = 1
        /\ \A i \in 1..1 : <<Head(all)>>[i] = Head(all)
    BY <2>2
  <2>4. 1 <= MaxOutbound + 1
    BY ReplayAssumption
  <2> QED
    BY <1>4, <1>8, <2>1, <2>2, <2>3, <2>4
<1> QED
  BY <1>6, <1>7, <1>8

(* The replay of a cursor is the end of the log: what the client has not seen, or,
   announced unless it is at 0, all that is left. *)
LEMMA ReplayAfterIs ==
  ASSUME WindowInv, cursor \in Nat, cursor < nextSequence
  PROVE  \E n \in 0..(nextSequence - 1) :
           /\ ReplayAfter(cursor) = [events |-> Run(nextSequence - 1 - n, n),
                                     latest |-> nextSequence - 1,
                                     truncated |-> Truncated(cursor)]
           /\ Truncated(cursor) \in BOOLEAN
           /\ \/ nextSequence - 1 = cursor + n
              \/ /\ nextSequence - 1 > cursor + n /\ n > 0
                 /\ cursor = 0 \/ Truncated(cursor) = TRUE
<1> DEFINE n == Len(records)
           a == nextSequence - 1 - n
           s == [i \in DOMAIN records |-> records[i].sequence]
           Is(k) == /\ ReplayAfter(cursor) = [events |-> Run(nextSequence - 1 - k, k),
                                              latest |-> nextSequence - 1,
                                              truncated |-> Truncated(cursor)]
                    /\ Truncated(cursor) \in BOOLEAN
                    /\ \/ nextSequence - 1 = cursor + k
                       \/ /\ nextSequence - 1 > cursor + k /\ k > 0
                          /\ cursor = 0 \/ Truncated(cursor) = TRUE
<1> SUFFICES \E k \in 0..(nextSequence - 1) : Is(k)
  OBVIOUS
<1>1. /\ records \in Seq(Record) /\ nextSequence \in Nat \ {0} /\ n \in Nat
      /\ \A i \in 1..n : records[i].sequence + n = nextSequence + i - 1
      /\ nextSequence > 1 => records # <<>>
  BY DEF WindowInv, WindowContiguous
<1>2. ASSUME NEW i \in 1..n
      PROVE  records[i].sequence \in Nat \ {0} /\ records[i].sequence = a + i
  <2>1. records[i] \in Record
    BY <1>1
  <2>2. records[i].sequence \in Nat \ {0}
    BY <2>1 DEF Record
  <2>3. records[i].sequence + n = nextSequence + i - 1
    BY <1>1
  <2>4. n \in Nat /\ nextSequence \in Nat /\ i \in Nat
    BY <1>1
  <2>5. \A x, y, z, u \in Nat : x + y = z + u - 1 => x = z - 1 - y + u
    OBVIOUS
  <2> HIDE DEF n
  <2> QED
    BY <2>2, <2>3, <2>4, <2>5
<1>3. a \in Nat
  <2>1. CASE n = 0
    BY <1>1, <2>1
  <2>2. CASE n # 0
    <3>1. 1 \in 1..n
      BY <1>1, <2>2
    <3>2. records[1].sequence = a + 1 /\ records[1].sequence \in Nat \ {0}
      BY <1>2, <3>1
    <3> HIDE DEF n
    <3> QED
      BY <1>1, <3>2
  <2> QED
    BY <2>1, <2>2
<1>4. s = Run(a, n)
  <2>1. DOMAIN records = 1..n
    BY <1>1
  <2>2. s = [i \in 1..n |-> records[i].sequence]
    BY <2>1
  <2>3. [i \in 1..n |-> records[i].sequence] = [i \in 1..n |-> a + i]
    BY <1>2
  <2> QED
    BY <2>2, <2>3 DEF Run
<1>5. n = 0 => records = <<>>
  BY <1>1
<1>6. n # 0 => Earliest = a + 1 /\ Latest = nextSequence - 1
  <2>1. SUFFICES ASSUME n # 0 PROVE Earliest = a + 1 /\ Latest = nextSequence - 1
    OBVIOUS
  <2>2. records # <<>> /\ 1 \in 1..n /\ n \in 1..n
    BY <1>1, <2>1
  <2>3. Head(records) = records[1] /\ Last(records) = records[n]
    BY <1>1, <2>2 DEF Last
  <2>4. records[1].sequence = a + 1 /\ records[n].sequence = a + n
    BY <1>2, <2>2
  <2> QED
    BY <1>1, <2>2, <2>3, <2>4 DEF Earliest, Latest
<1>7. ReplayAfter(cursor) = [events |-> Above(s, cursor), latest |-> Latest,
                             truncated |-> Truncated(cursor)]
  BY DEF ReplayAfter
<1>8. cursor \in 0..(a + n)
  BY <1>1, <1>3
<1>9. Above(s, cursor) = IF cursor <= a THEN Run(a, n) ELSE Run(cursor, a + n - cursor)
  <2> HIDE DEF s, n, a
  <2> QED
    BY <1>1, <1>3, <1>4, <1>8, AboveRun
<1>10. Truncated(cursor) \in BOOLEAN
  BY DEF Truncated
<1>11. CASE n = 0
  <2>1. nextSequence = 1 /\ cursor = 0 /\ a = 0
    BY <1>1, <1>5, <1>11
  <2>2. Latest = nextSequence - 1
    BY <1>5, <1>11 DEF Latest
  <2>3. Above(s, cursor) = Run(0, 0)
    BY <1>9, <1>11, <2>1
  <2> HIDE DEF s
  <2>4. Is(0) /\ 0 \in 0..(nextSequence - 1)
    BY <1>7, <1>10, <2>1, <2>2, <2>3
  <2> HIDE DEF Is
  <2> QED
    BY <2>4
<1>12. CASE n # 0 /\ cursor <= a
  <2>1. Above(s, cursor) = Run(a, n)
    BY <1>9, <1>12
  <2>2. Latest = nextSequence - 1 /\ Earliest = a + 1
    BY <1>6, <1>12
  <2>3. a < cursor + 1 \/ cursor = 0 \/ Truncated(cursor) = TRUE
    BY <1>3, <1>12, <2>2 DEF Truncated
  <2>4. n \in 0..(nextSequence - 1) /\ nextSequence - 1 - n = a
    BY <1>1, <1>3
  <2>5. nextSequence - 1 = cursor + n \/ (nextSequence - 1 > cursor + n /\ n > 0)
    BY <1>1, <1>12
  <2>6. a < cursor + 1 => nextSequence - 1 = cursor + n
    BY <1>1, <1>3, <1>12
  <2> HIDE DEF s, n, a
  <2>7. Is(n)
    BY <1>7, <1>10, <2>1, <2>2, <2>3, <2>4, <2>5, <2>6
  <2> HIDE DEF Is
  <2> QED
    BY <2>4, <2>7
<1>13. CASE n # 0 /\ cursor > a
  <2> DEFINE k == nextSequence - 1 - cursor
  <2>1. k \in 0..(nextSequence - 1) /\ nextSequence - 1 - k = cursor /\ a + n - cursor = k
    BY <1>1, <1>3
  <2>2. Above(s, cursor) = Run(nextSequence - 1 - k, k)
    BY <1>3, <1>9, <1>13, <2>1
  <2>3. Latest = nextSequence - 1
    BY <1>6, <1>13
  <2>4. nextSequence - 1 = cursor + k
    BY <1>1
  <2> HIDE DEF s, n, a, k
  <2>5. Is(k)
    BY <1>7, <1>10, <2>2, <2>3, <2>4
  <2> HIDE DEF Is
  <2> QED
    BY <2>1, <2>5
<1> QED
  <2>1. n = 0 \/ (n # 0 /\ cursor <= a) \/ (n # 0 /\ cursor > a)
    BY <1>1, <1>3
  <2> HIDE DEF Is, n, a
  <2> QED
    BY <1>11, <1>12, <1>13, <2>1

LEMMA RunIn ==
  ASSUME NEW a \in Nat, NEW n \in Nat, a + n <= MaxPublished
  PROVE  Run(a, n) \in Seq(Sequences1)
<1>1. \A i \in 1..n : a + i \in Sequences1
  BY ReplayAssumption DEF Sequences1
<1> QED
  BY <1>1 DEF Run

LEMMA ConcatIs ==
  ASSUME NEW S, NEW s \in Seq(S), NEW t \in Seq(S)
  PROVE  /\ s \o t \in Seq(S) /\ Len(s \o t) = Len(s) + Len(t)
         /\ \A i \in 1..(Len(s) + Len(t)) :
              (s \o t)[i] = IF i <= Len(s) THEN s[i] ELSE t[i - Len(s)]
OBVIOUS

(* What subscribeConnection sends when it resumes is a stream up to the newest event:
   the end of the replay and the first of what was buffered since meet, nothing that
   was buffered is left out. *)
ReplayedSequences(c) == replay[c].events \o Above(buffered[c], replay[c].latest)
Replayed(c) == EventsOf(ReplayedSequences(c))
               \o (IF replay[c].truncated THEN <<Warning>> ELSE <<>>)
WarningAt(c) == IF replay[c].truncated THEN Len(Replayed(c)) ELSE 0

LEMMA ReplayedIs ==
  ASSUME StreamInv, NEW c \in Connections, handler[c] = "replay"
  PROVE  /\ Above(buffered[c], replay[c].latest) = buffered[c]
         /\ Replayed(c) \in Seq(Messages)
         /\ Len(Replayed(c)) = Len(replay[c].events) + Len(buffered[c])
                               + (IF replay[c].truncated THEN 1 ELSE 0)
         /\ Stream(Replayed(c), WarningAt(c), nextSequence)
<1> DEFINE r == replay[c]
           n == Len(r.events)
           m == Len(buffered[c])
           seqs == r.events \o buffered[c]
<1>1. /\ r.events \in Seq(Sequences1) /\ r.latest \in Nat /\ r.truncated \in BOOLEAN
      /\ buffered[c] \in Seq(Sequences1) /\ n \in Nat /\ m \in Nat
      /\ nextSequence \in Nat
  <2>1. r \in Replay /\ buffered[c] \in Seq(Sequences1) /\ nextSequence \in Nat
    BY DEF StreamInv, TypeOK, BusTypeOK
  <2> HIDE DEF r
  <2>2. r.events \in Seq(Sequences1) /\ r.latest \in Nat /\ r.truncated \in BOOLEAN
    BY <2>1 DEF Replay
  <2> QED
    BY <2>1, <2>2
<1>2. /\ n <= r.latest /\ r.events = Run(r.latest - n, n)
      /\ buffered[c] = Run(r.latest, m)
      /\ nextSequence = r.latest + m + 1
  BY DEF StreamInv, ReplayInv
<1>3. /\ \A i \in 1..n : r.events[i] = r.latest - n + i
      /\ \A i \in 1..m : buffered[c][i] = r.latest + i
  <2>1. r.latest - n \in Nat
    BY <1>1, <1>2
  <2> HIDE DEF r, n, m
  <2>2. \A i \in 1..n : Run(r.latest - n, n)[i] = r.latest - n + i
    BY <1>1, <2>1, RunIs
  <2>3. \A i \in 1..m : Run(r.latest, m)[i] = r.latest + i
    BY <1>1, RunIs
  <2> QED
    BY <1>2, <2>2, <2>3
<1>4. Above(buffered[c], r.latest) = buffered[c]
  <2> HIDE DEF r, m
  <2>1. r.latest \in 0..(r.latest + m) /\ r.latest <= r.latest
    BY <1>1
  <2>2. Above(Run(r.latest, m), r.latest) = Run(r.latest, m)
    BY <1>1, <2>1, AboveRun
  <2> QED
    BY <1>2, <2>2
<1>5. /\ seqs \in Seq(Sequences1) /\ Len(seqs) = n + m
      /\ \A i \in 1..(n + m) : seqs[i] = r.latest - n + i
  <2>1. /\ seqs \in Seq(Sequences1) /\ Len(seqs) = n + m
        /\ \A i \in 1..(n + m) : seqs[i] = IF i <= n THEN r.events[i] ELSE buffered[c][i - n]
    <3>1. r.events \in Seq(Sequences1) /\ buffered[c] \in Seq(Sequences1)
      BY <1>1
    <3> HIDE DEF r
    <3> QED
      BY <3>1, ConcatIs
  <2>2. ASSUME NEW i \in 1..(n + m) PROVE seqs[i] = r.latest - n + i
    <3>1. CASE i <= n
      <4>1. i \in 1..n
        BY <1>1, <3>1
      <4>2. seqs[i] = r.events[i]
        BY <2>1, <3>1
      <4> HIDE DEF seqs, r, n, m
      <4> QED
        BY <1>3, <4>1, <4>2
    <3>2. CASE i > n
      <4>1. i - n \in 1..m /\ ~ (i <= n)
        <5> HIDE DEF n, m
        <5> QED
          BY <1>1, <3>2
      <4>2. seqs[i] = buffered[c][i - n]
        BY <2>1, <4>1
      <4>3. r.latest + (i - n) = r.latest - n + i
        BY <1>1
      <4> HIDE DEF seqs, r, n, m
      <4> QED
        BY <1>3, <4>1, <4>2, <4>3
    <3> QED
      BY <1>1, <3>1, <3>2
  <2> QED
    BY <2>1, <2>2
<1>6. ReplayedSequences(c) = seqs
  BY <1>4 DEF ReplayedSequences
<1> HIDE DEF seqs
<1>7. /\ EventsOf(seqs) \in Seq(Messages) /\ Len(EventsOf(seqs)) = n + m
      /\ \A i \in 1..(n + m) : EventsOf(seqs)[i] = EventOf(r.latest - n + i)
  BY <1>1, <1>5, EventsOfIs
<1> DEFINE es == EventsOf(seqs)
           q == Replayed(c)
<1> HIDE DEF es
<1>8. CASE r.truncated = TRUE
  <2>1. q = es \o <<Warning>>
    BY <1>6, <1>8 DEF Replayed, es
  <2>2. /\ q \in Seq(Messages) /\ Len(q) = n + m + 1 /\ q[n + m + 1] = Warning
        /\ \A i \in 1..(n + m) : q[i] = es[i]
    <3>1. Warning \in Messages
      BY DEF Messages
    <3> HIDE DEF q, n, m, r
    <3> QED
      BY <1>1, <1>7, <2>1, <3>1 DEF es
  <2>3. WarningAt(c) = n + m + 1
    BY <1>8, <2>2 DEF WarningAt
  <2>4. ASSUME NEW i \in 1..(n + m)
        PROVE  q[i] = EventOf(nextSequence + i - (n + m + 1))
    <3>1. r.latest - n + i = nextSequence + i - (n + m + 1)
      <4>1. nextSequence = r.latest + m + 1
        BY <1>2
      <4> HIDE DEF n, m, r
      <4> QED
        BY <1>1, <4>1
    <3>2. q[i] = EventOf(r.latest - n + i)
      BY <1>7, <2>2 DEF es
    <3> QED
      BY <3>1, <3>2
  <2>5. Stream(q, n + m + 1, nextSequence)
    <3> HIDE DEF q, n, m, r
    <3>1. n + m + 1 \in 0..Len(q) /\ \A i \in 1..Len(q) : i < n + m + 1 => i \in 1..(n + m)
      BY <1>1, <2>2
    <3>2. \A i \in 1..Len(q) : ~ (i > n + m + 1)
      BY <1>1, <2>2
    <3> QED
      BY <2>2, <2>4, <3>1, <3>2 DEF Stream
  <2> QED
    BY <1>4, <1>8, <2>2, <2>3, <2>5
<1>9. CASE r.truncated = FALSE
  <2>1. q = es \o <<>>
    BY <1>6, <1>9 DEF Replayed, es
  <2>2. q = es /\ q \in Seq(Messages) /\ Len(q) = n + m
    <3> HIDE DEF q, n, m, r
    <3> QED
      BY <1>7, <2>1 DEF es
  <2>3. WarningAt(c) = 0
    BY <1>9 DEF WarningAt
  <2>4. ASSUME NEW i \in 1..(n + m)
        PROVE  q[i] = EventOf(nextSequence + i - 1 - (n + m))
    <3>1. r.latest - n + i = nextSequence + i - 1 - (n + m)
      <4>1. nextSequence = r.latest + m + 1
        BY <1>2
      <4> HIDE DEF n, m, r
      <4> QED
        BY <1>1, <4>1
    <3>2. q[i] = EventOf(r.latest - n + i)
      BY <1>7, <2>2 DEF es
    <3> QED
      BY <3>1, <3>2
  <2>5. Stream(q, 0, nextSequence)
    <3> HIDE DEF q, n, m, r
    <3>1. 0 \in 0..Len(q) /\ \A i \in 1..Len(q) : ~ (i < 0)
      BY <1>1, <2>2
    <3> QED
      BY <2>2, <2>4, <3>1 DEF Stream
  <2> QED
    <3>1. Len(q) = n + m + 0
      <4> HIDE DEF q, n, m
      <4> QED
        BY <1>1, <2>2
    <3> QED
      BY <1>4, <1>9, <2>2, <2>3, <2>5, <3>1
<1> QED
  BY <1>1, <1>8, <1>9

LEMMA SendIs ==
  ASSUME TypeOK, NEW messages \in Seq(Messages), NEW to, Send(messages, to)
  PROVE  /\ out' \in [Connections -> Seq(Messages)]
         /\ link' \in [Connections -> {"new", "up", "closed", "gone"}]
         /\ \A c \in Connections :
              /\ Len(out'[c]) <= MaxOutbound + 1
              /\ c \notin to \/ ~Up(c) => out'[c] = out[c] /\ link'[c] = link[c]
              /\ link'[c] = "up" => link[c] = "up"
              /\ link'[c] = "new" => link[c] = "new"
              /\ c \in to /\ link'[c] = "up" => out'[c] = out[c] \o messages
              /\ \A i \in 1..Len(out'[c]) :
                   \/ \E j \in 1..Len(out[c]) : out'[c][i] = out[c][j]
                   \/ \E j \in 1..Len(messages) : out'[c][i] = messages[j]
<1>1. ASSUME NEW c \in Connections
      PROVE  /\ out'[c] \in Seq(Messages)
             /\ link'[c] \in {"new", "up", "closed", "gone"}
             /\ Len(out'[c]) <= MaxOutbound + 1
             /\ c \notin to \/ ~Up(c) => out'[c] = out[c] /\ link'[c] = link[c]
             /\ link'[c] = "up" => link[c] = "up"
             /\ link'[c] = "new" => link[c] = "new"
             /\ c \in to /\ link'[c] = "up" => out'[c] = out[c] \o messages
             /\ \A i \in 1..Len(out'[c]) :
                  \/ \E j \in 1..Len(out[c]) : out'[c][i] = out[c][j]
                  \/ \E j \in 1..Len(messages) : out'[c][i] = messages[j]
  <2>1. /\ out[c] \in Seq(Messages) /\ Len(out[c]) <= MaxOutbound + 1
        /\ link[c] \in {"new", "up", "closed", "gone"}
    BY DEF TypeOK, Messages
  <2>2. CASE c \in to
    <3>1. out'[c] = Sent(c, messages).out /\ link'[c] = Sent(c, messages).link
      BY <2>2 DEF Send
    <3> QED
      BY <2>2, <3>1, SentIs DEF Up
  <2>3. CASE c \notin to
    <3>1. out'[c] = out[c] /\ link'[c] = link[c]
      BY <2>3 DEF Send
    <3> QED
      BY <2>1, <2>3, <3>1
  <2> QED
    BY <2>2, <2>3
<1>2. out' = [c \in Connections |-> out'[c]] /\ link' = [c \in Connections |-> link'[c]]
  BY DEF Send
<1>3. out' \in [Connections -> Seq(Messages)]
  BY <1>1, <1>2
<1>4. link' \in [Connections -> {"new", "up", "closed", "gone"}]
  BY <1>1, <1>2
<1> QED
  BY <1>1, <1>3, <1>4

LEMMA ProjectedType ==
  ASSUME TypeOK, NEW sequences, NEW to, Projected(sequences, to)
  PROVE  cache' \in [Sequences1 -> Epochs \cup {0}] /\ stale' \in BOOLEAN
<1>1. epoch \in Epochs /\ cache \in [Sequences1 -> Epochs \cup {0}] /\ stale \in BOOLEAN
  BY DEF TypeOK
<1>2. cache' \in [Sequences1 -> Epochs \cup {0}]
  <2> HIDE DEF Epochs, Sequences1
  <2> QED
    BY <1>1 DEF Projected
<1>3. stale' \in BOOLEAN
  BY DEF Projected
<1> QED
  BY <1>2, <1>3

(* The message of a publication. *)
LEMMA PublishedIs ==
  ASSUME nextSequence \in Nat \ {0}, nextSequence <= MaxPublished
  PROVE  /\ EventsOf(<<nextSequence>>) \in Seq(Messages)
         /\ Len(EventsOf(<<nextSequence>>)) = 1
         /\ EventsOf(<<nextSequence>>)[1] = EventOf(nextSequence)
<1>1. nextSequence \in Sequences1
  BY ReplayAssumption DEF Sequences1
<1>2. <<nextSequence>> \in Seq(Sequences1) /\ Len(<<nextSequence>>) = 1
  BY <1>1
<1>3. 1 \in 1..1 /\ <<nextSequence>>[1] = nextSequence
  OBVIOUS
<1> QED
  BY <1>2, <1>3, EventsOfIs

LEMMA MessageIs ==
  ASSUME NEW m \in Messages
  PROVE  m.sequence \in 0..MaxPublished /\ (m # Warning => m.kind = "event")
<1>1. CASE m = Warning
  BY <1>1, ReplayAssumption DEF Warning
<1>2. CASE m \in Event
  BY <1>2, ReplayAssumption DEF Event, Sequences1
<1> QED
  BY <1>1, <1>2 DEF Messages

-------------------------------------------------------------------------------
(* The steps that leave the log alone, and what they leave alone. *)
OnConnection(c) ==
  \/ Connect(c) \/ Subscribe(c) \/ SnapshotRead(c) \/ Join(c) \/ Replays(c)
  \/ Unsubscribe(c) \/ Deliver(c) \/ Lose(c) \/ HandleClose(c)

LEMMA NextIs ==
  ASSUME [Next]_vars
  PROVE  \/ \E size \in Sizes : Publish(size)
         \/ \E c \in Connections : OnConnection(c)
         \/ Rebirth
         \/ UNCHANGED vars
BY DEF Next, OnConnection

LEMMA BusStep ==
  ASSUME StreamInv, [Next]_vars
  PROVE  WindowInv' /\ WindowWeight'
<1>1. WindowInv /\ WindowWeight
  BY DEF StreamInv
<1>2. ASSUME NEW size \in Sizes, Publish(size)
      PROVE  WindowInv' /\ WindowWeight'
  BY <1>1, <1>2, RetainStep, RetainWeighs DEF Publish
<1>3. CASE Rebirth
  <2>1. records' = <<>> /\ nextSequence' = 1 /\ retainedBytes' = 0
    BY <1>3 DEF Rebirth
  <2>2. WindowInv'
    BY <2>1, BusAssumption DEF WindowInv, WindowContiguous
  <2>3. Weight(<<>>) = 0
    <3>1. <<>> \in Seq(Record) /\ Len(<<>>) = 0
      OBVIOUS
    <3>2. PICK s : Sums(<<>>, s)
      BY <3>1, SumsExist
    <3>3. Weight(<<>>) = s[0] /\ s[0] = 0
      BY <3>1, <3>2, WeightIs DEF Sums
    <3> QED
      BY <3>3
  <2>4. WindowWeight'
    BY <2>1, <2>3, BusAssumption DEF WindowWeight
  <2> QED
    BY <2>2, <2>4
<1>4. ASSUME UNCHANGED busVars PROVE WindowInv' /\ WindowWeight'
  BY <1>1, <1>4 DEF busVars, WindowInv, WindowContiguous, WindowWeight
<1>5. ASSUME NEW c \in Connections, OnConnection(c) PROVE WindowInv' /\ WindowWeight'
  <2>1. UNCHANGED busVars
    BY <1>5 DEF OnConnection, Connect, Subscribe, SnapshotRead, Join, Replays, Unsubscribe,
                Deliver, Lose, HandleClose
  <2> QED
    BY <1>4, <2>1
<1>6. CASE UNCHANGED vars
  BY <1>4, <1>6 DEF vars
<1> QED
  BY <1>2, <1>3, <1>5, <1>6, NextIs

LEMMA TypeStep ==
  ASSUME StreamInv, [Next]_vars
  PROVE  TypeOK'
<1>1. TypeOK /\ nextSequence <= MaxPublished + 1 /\ nextSequence \in Nat \ {0}
  BY DEF StreamInv, KnownInv, TypeOK, BusTypeOK
<1>2. BusTypeOK'
  <2>1. records' \in Seq(Record) /\ nextSequence' \in Nat \ {0} /\ retainedBytes' = Weight(records')
    BY BusStep DEF WindowInv, WindowWeight
  <2>2. PICK s : Sums(records', s)
    BY <2>1, SumsExist
  <2>3. Weight(records') = s[Len(records')] /\ Len(records') \in Nat
    BY <2>1, <2>2, WeightIs
  <2>4. s[Len(records')] \in Nat
    BY <2>2, <2>3 DEF Sums
  <2> QED
    BY <2>1, <2>3, <2>4 DEF BusTypeOK
<1>3. ASSUME NEW size \in Sizes, Publish(size) PROVE TypeOK'
  <2>1. nextSequence <= MaxPublished /\ nextSequence \in Sequences1
    BY <1>1, <1>3, ReplayAssumption DEF Publish, Sequences1
  <2>2. /\ out' \in [Connections -> Seq(Messages)]
        /\ link' \in [Connections -> {"new", "up", "closed", "gone"}]
        /\ \A c \in Connections : Len(out'[c]) <= MaxOutbound + 1
    BY <1>1, <1>3, <2>1, PublishedIs, SendIs DEF Publish
  <2>3. cache' \in [Sequences1 -> Epochs \cup {0}] /\ stale' \in BOOLEAN
    BY <1>1, <1>3, ProjectedType DEF Publish
  <2>4. buffered' \in [Connections -> Seq(Sequences1)]
    <3>1. buffered \in [Connections -> Seq(Sequences1)]
      BY <1>1 DEF TypeOK
    <3>2. \A c \in Connections : Append(buffered[c], nextSequence) \in Seq(Sequences1)
      BY <2>1, <3>1
    <3> QED
      BY <1>3, <3>1, <3>2 DEF Publish
  <2>5. UNCHANGED <<epoch, handler, attached, replaying, replay, registered, cursor>>
    BY <1>3 DEF Publish
  <2> QED
    BY <1>1, <1>2, <2>2, <2>3, <2>4, <2>5 DEF TypeOK, Messages
<1>4. ASSUME NEW c \in Connections, Connect(c) PROVE TypeOK'
  <2>1. \A d \in Connections : out'[d] = <<>>
    BY <1>4 DEF Connect
  <2>2. out' \in [Connections -> Seq(Event \cup {Warning})]
        /\ \A d \in Connections : Len(out'[d]) <= MaxOutbound + 1
    BY <1>4, ReplayAssumption DEF Connect
  <2>3. link' \in [Connections -> {"new", "up", "closed", "gone"}]
    BY <1>1, <1>4 DEF Connect, TypeOK
  <2> QED
    BY <1>1, <1>2, <1>4, <2>2, <2>3 DEF Connect, subVars, TypeOK
<1>5. ASSUME NEW c \in Connections, Subscribe(c) PROVE TypeOK'
  BY <1>1, <1>2, <1>5 DEF Subscribe, connVars, TypeOK
<1>6. ASSUME NEW c \in Connections, SnapshotRead(c) PROVE TypeOK'
  BY <1>1, <1>2, <1>6 DEF SnapshotRead, connVars, TypeOK
<1>7. ASSUME NEW c \in Connections, Join(c) PROVE TypeOK'
  <2>1. ReplayAfter(cursor) \in Replay
    <3>1. WindowInv /\ cursor \in Nat /\ cursor < nextSequence
      BY <1>1 DEF StreamInv, KnownInv, TypeOK
    <3>2. PICK n \in 0..(nextSequence - 1) :
            /\ ReplayAfter(cursor) = [events |-> Run(nextSequence - 1 - n, n),
                                      latest |-> nextSequence - 1,
                                      truncated |-> Truncated(cursor)]
            /\ Truncated(cursor) \in BOOLEAN
      BY <3>1, ReplayAfterIs
    <3>3. Run(nextSequence - 1 - n, n) \in Seq(Sequences1)
      <4>1. n \in Nat /\ nextSequence - 1 - n \in Nat
            /\ (nextSequence - 1 - n) + n <= MaxPublished
        BY <1>1, ReplayAssumption
      <4> QED
        BY <4>1, RunIn
    <3>4. nextSequence - 1 \in 0..MaxPublished
      BY <1>1, ReplayAssumption
    <3> QED
      BY <3>2, <3>3, <3>4 DEF Replay
  <2>2. buffered' \in [Connections -> Seq(Sequences1)]
    BY <1>1, <1>7 DEF Join, TypeOK
  <2>3. replay' \in [Connections -> Replay]
    BY <1>1, <1>7, <2>1 DEF Join, TypeOK
  <2>4. handler' \in [Connections -> {"none", "snapshot", "join", "replay"}]
    BY <1>1, <1>7 DEF Join, TypeOK
  <2>5. /\ attached' \subseteq Connections /\ replaying' \subseteq Connections
        /\ UNCHANGED <<epoch, link, out, registered, cache, cursor, stale>>
    BY <1>1, <1>7 DEF Join, TypeOK, connVars
  <2> QED
    BY <1>1, <1>2, <2>2, <2>3, <2>4, <2>5 DEF TypeOK
<1>8. ASSUME NEW c \in Connections, Replays(c) PROVE TypeOK'
  <2>1. Replayed(c) \in Seq(Messages) /\ Send(Replayed(c), {c})
    BY <1>8, ReplayedIs DEF Replays, Replayed, ReplayedSequences
  <2>2. /\ out' \in [Connections -> Seq(Messages)]
        /\ link' \in [Connections -> {"new", "up", "closed", "gone"}]
        /\ \A d \in Connections : Len(out'[d]) <= MaxOutbound + 1
    BY <1>1, <2>1, SendIs
  <2>3. cache' \in [Sequences1 -> Epochs \cup {0}] /\ stale' \in BOOLEAN
    BY <1>1, <1>8, ProjectedType DEF Replays
  <2>4. buffered' \in [Connections -> Seq(Sequences1)]
    BY <1>1, <1>8 DEF Replays, TypeOK
  <2>5. replay' \in [Connections -> Replay]
    <3>1. NoReplay \in Replay
      BY ReplayAssumption DEF NoReplay, Replay
    <3> QED
      BY <1>1, <1>8, <3>1 DEF Replays, TypeOK
  <2>6. handler' \in [Connections -> {"none", "snapshot", "join", "replay"}]
    BY <1>1, <1>8 DEF Replays, TypeOK
  <2>7. /\ registered' \subseteq Connections /\ replaying' \subseteq Connections
        /\ UNCHANGED <<epoch, attached, cursor>>
    BY <1>1, <1>8 DEF Replays, TypeOK
  <2> QED
    BY <1>1, <1>2, <2>2, <2>3, <2>4, <2>5, <2>6, <2>7 DEF TypeOK, Messages
<1>9. ASSUME NEW c \in Connections, Unsubscribe(c) PROVE TypeOK'
  BY <1>1, <1>2, <1>9 DEF Unsubscribe, connVars, TypeOK
<1>10. ASSUME NEW c \in Connections, Deliver(c) PROVE TypeOK'
  <2>1. out[c] \in Seq(Messages) /\ out[c] # <<>> /\ Len(out[c]) <= MaxOutbound + 1
    BY <1>1, <1>10 DEF TypeOK, Messages, Deliver
  <2>2. /\ Head(out[c]) \in Messages /\ Tail(out[c]) \in Seq(Messages)
        /\ Len(Tail(out[c])) <= MaxOutbound + 1
    BY <2>1, ReplayAssumption
  <2>3. Head(out[c]).sequence \in 0..MaxPublished
    BY <2>2, MessageIs
  <2>4. cursor' \in 0..MaxPublished
    BY <1>1, <1>10, <2>3 DEF Deliver, TypeOK
  <2>5. out' \in [Connections -> Seq(Messages)]
        /\ \A d \in Connections : Len(out'[d]) <= MaxOutbound + 1
    <3>1. out \in [Connections -> Seq(Messages)]
          /\ \A d \in Connections : Len(out[d]) <= MaxOutbound + 1
      BY <1>1 DEF TypeOK, Messages
    <3>2. out' = [out EXCEPT ![c] = Tail(out[c])]
      BY <1>10 DEF Deliver
    <3> QED
      BY <2>2, <3>1, <3>2
  <2> QED
    BY <1>1, <1>2, <1>10, <2>4, <2>5 DEF Deliver, subVars, TypeOK, Messages
<1>11. ASSUME NEW c \in Connections, Lose(c) \/ HandleClose(c) PROVE TypeOK'
  <2>1. link' \in [Connections -> {"new", "up", "closed", "gone"}]
    BY <1>1, <1>11 DEF Lose, HandleClose, TypeOK
  <2>2. out' \in [Connections -> Seq(Event \cup {Warning})]
        /\ \A d \in Connections : Len(out'[d]) <= MaxOutbound + 1
    <3>1. out \in [Connections -> Seq(Event \cup {Warning})]
          /\ \A d \in Connections : Len(out[d]) <= MaxOutbound + 1
      BY <1>1 DEF TypeOK
    <3>2. out' = [out EXCEPT ![c] = <<>>]
      BY <1>11 DEF Lose, HandleClose
    <3> QED
      BY <3>1, <3>2, ReplayAssumption
  <2>3. CASE Lose(c)
    BY <1>1, <1>2, <2>1, <2>2, <2>3 DEF Lose, subVars, TypeOK
  <2>4. CASE HandleClose(c)
    BY <1>1, <1>2, <2>1, <2>2, <2>4 DEF HandleClose, TypeOK
  <2> QED
    BY <1>11, <2>3, <2>4
<1>12. CASE Rebirth
  <2>1. epoch' \in Epochs
    BY <1>1, <1>12, ReplayAssumption DEF Rebirth, TypeOK, Epochs
  <2> QED
    BY <1>1, <1>2, <1>12, <2>1, ReplayAssumption DEF Rebirth, connVars, TypeOK
<1>13. CASE UNCHANGED vars
  BY <1>1, <1>2, <1>13 DEF vars, connVars, subVars, TypeOK
<1> QED
  BY <1>3, <1>4, <1>5, <1>6, <1>7, <1>8, <1>9, <1>10, <1>11, <1>12, <1>13, NextIs
  DEF OnConnection

(* What every step leaves of the queues and links: a queue grows at its end, on a
   connection that stays up, or it shrinks from its front or to one message. *)
LEMMA KnownStep ==
  ASSUME StreamInv, [Next]_vars
  PROVE  KnownInv'
<1>1. /\ TypeOK /\ KnownInv /\ nextSequence \in Nat \ {0} /\ cursor \in Nat
      /\ nextSequence <= MaxPublished + 1 /\ cursor < nextSequence
      /\ out \in [Connections -> Seq(Messages)]
  BY DEF StreamInv, KnownInv, TypeOK, BusTypeOK, Messages
<1>2. ASSUME NEW c \in Connections, NEW i \in 1..Len(out[c])
      PROVE  out[c][i].sequence < nextSequence /\ out[c][i].sequence \in Nat
  <2>1. out[c][i] \in Messages
    BY <1>1
  <2> QED
    BY <1>1, <2>1, MessageIs DEF KnownInv
<1>3. ASSUME NEW size \in Sizes, Publish(size) PROVE KnownInv'
  <2>1. nextSequence <= MaxPublished /\ nextSequence' = nextSequence + 1 /\ cursor' = cursor
    BY <1>3 DEF Publish, Retain
  <2> DEFINE messages == EventsOf(<<nextSequence>>)
  <2>2. messages \in Seq(Messages) /\ Len(messages) = 1 /\ messages[1] = EventOf(nextSequence)
    BY <1>1, <2>1, PublishedIs
  <2>3. Send(messages, attached \ replaying)
    BY <1>3 DEF Publish
  <2>4. ASSUME NEW c \in Connections, NEW i \in 1..Len(out'[c])
        PROVE  out'[c][i].sequence < nextSequence'
    <3>1. \/ \E j \in 1..Len(out[c]) : out'[c][i] = out[c][j]
          \/ \E j \in 1..Len(messages) : out'[c][i] = messages[j]
      <4> HIDE DEF messages
      <4> QED
        BY <1>1, <2>2, <2>3, SendIs
    <3>2. CASE \E j \in 1..Len(out[c]) : out'[c][i] = out[c][j]
      BY <1>1, <1>2, <2>1, <3>2
    <3>3. CASE \E j \in 1..Len(messages) : out'[c][i] = messages[j]
      <4>1. out'[c][i] = EventOf(nextSequence)
        BY <2>2, <3>3
      <4> QED
        BY <1>1, <2>1, <4>1 DEF EventOf
    <3> QED
      BY <3>1, <3>2, <3>3
  <2>5. nextSequence' <= MaxPublished + 1 /\ cursor' < nextSequence'
    BY <1>1, <2>1, ReplayAssumption
  <2> QED
    BY <2>4, <2>5 DEF KnownInv
<1>4. ASSUME NEW c \in Connections, Replays(c) PROVE KnownInv'
  <2>1. nextSequence' = nextSequence /\ cursor' = cursor /\ Send(Replayed(c), {c})
    BY <1>4 DEF Replays, Replayed, ReplayedSequences, busVars
  <2>2. /\ Replayed(c) \in Seq(Messages) /\ Len(Replayed(c)) \in Nat
        /\ Stream(Replayed(c), WarningAt(c), nextSequence)
    <3>1. handler[c] = "replay"
      BY <1>4 DEF Replays
    <3>2. Replayed(c) \in Seq(Messages) /\ Stream(Replayed(c), WarningAt(c), nextSequence)
      BY <3>1, ReplayedIs
    <3> QED
      BY <3>2
  <2>3. ASSUME NEW j \in 1..Len(Replayed(c))
        PROVE  Replayed(c)[j].sequence < nextSequence
    <3> DEFINE n == Len(Replayed(c))
               w == WarningAt(c)
    <3>1. w \in 0..n
      BY <2>2 DEF Stream
    <3>2. CASE j = w
      <4>1. Replayed(c)[j] = Warning
        BY <2>2, <3>1, <3>2 DEF Stream
      <4> QED
        BY <1>1, <4>1 DEF Warning
    <3>3. CASE j > w
      <4>1. Replayed(c)[j] = EventOf(nextSequence + j - 1 - n)
        BY <2>2, <3>3 DEF Stream
      <4>2. Replayed(c)[j].sequence = nextSequence + j - 1 - n
        BY <4>1 DEF EventOf
      <4> HIDE DEF n
      <4> QED
        BY <1>1, <2>2, <4>2 DEF n
    <3>4. CASE j < w
      <4>1. Replayed(c)[j] = EventOf(nextSequence + j - n)
        BY <2>2, <3>4 DEF Stream
      <4>2. Replayed(c)[j].sequence = nextSequence + j - n
        BY <4>1 DEF EventOf
      <4>3. j < n
        <5> HIDE DEF w, n
        <5> QED
          BY <2>2, <3>1, <3>4 DEF n
      <4> QED
        BY <1>1, <2>2, <4>2, <4>3
    <3> QED
      BY <3>1, <3>2, <3>3, <3>4
  <2>4. ASSUME NEW d \in Connections, NEW i \in 1..Len(out'[d])
        PROVE  out'[d][i].sequence < nextSequence'
    <3>1. \/ \E j \in 1..Len(out[d]) : out'[d][i] = out[d][j]
          \/ \E j \in 1..Len(Replayed(c)) : out'[d][i] = Replayed(c)[j]
      BY <1>1, <2>1, <2>2, SendIs
    <3> QED
      BY <1>2, <2>1, <2>3, <3>1
  <2> QED
    BY <1>1, <2>1, <2>4 DEF KnownInv
<1>5. ASSUME NEW c \in Connections, Deliver(c) PROVE KnownInv'
  <2>1. out[c] \in Seq(Messages) /\ out[c] # <<>>
    BY <1>1, <1>5 DEF Deliver
  <2>2. /\ Len(out[c]) \in Nat \ {0} /\ Head(out[c]) = out[c][1]
        /\ Len(Tail(out[c])) = Len(out[c]) - 1
        /\ \A i \in 1..Len(Tail(out[c])) : Tail(out[c])[i] = out[c][i + 1]
    BY <2>1
  <2>3. cursor' < nextSequence
    <3>1. 1 \in 1..Len(out[c])
      BY <2>2
    <3>2. Head(out[c]).sequence < nextSequence
      BY <1>2, <2>2, <3>1
    <3> QED
      BY <1>1, <1>5, <3>2 DEF Deliver
  <2>4. ASSUME NEW d \in Connections, NEW i \in 1..Len(out'[d])
        PROVE  out'[d][i].sequence < nextSequence
    <3>1. CASE d = c
      <4>1. out'[d] = Tail(out[c])
        BY <1>1, <1>5, <3>1 DEF Deliver
      <4>2. i + 1 \in 1..Len(out[c]) /\ out'[d][i] = out[c][i + 1]
        BY <2>2, <4>1
      <4> QED
        BY <1>2, <4>2
    <3>2. CASE d # c
      <4>1. out'[d] = out[d]
        BY <1>1, <1>5, <3>2 DEF Deliver
      <4> QED
        BY <1>2, <4>1
    <3> QED
      BY <3>1, <3>2
  <2>5. nextSequence' = nextSequence
    BY <1>5 DEF Deliver, busVars
  <2> QED
    BY <1>1, <2>3, <2>4, <2>5 DEF KnownInv
<1>6. ASSUME NEW c \in Connections, Connect(c) \/ Lose(c) \/ HandleClose(c) PROVE KnownInv'
  <2>1. nextSequence' = nextSequence /\ cursor' = cursor
    BY <1>6 DEF Connect, Lose, HandleClose, busVars
  <2>2. \A d \in Connections : out'[d] = <<>> \/ out'[d] = out[d]
    BY <1>1, <1>6 DEF Connect, Lose, HandleClose
  <2>3. Len(<<>>) = 0
    OBVIOUS
  <2>4. ASSUME NEW d \in Connections, NEW i \in 1..Len(out'[d])
        PROVE  out'[d][i].sequence < nextSequence
    BY <1>2, <2>2, <2>3
  <2> QED
    BY <1>1, <2>1, <2>4 DEF KnownInv
<1>7. CASE Rebirth
  <2>1. nextSequence' = 1 /\ cursor' = 0 /\ \A c \in Connections : out'[c] = <<>>
    BY <1>7 DEF Rebirth, connVars
  <2> QED
    BY <2>1, ReplayAssumption DEF KnownInv
<1>8. ASSUME UNCHANGED <<nextSequence, cursor, out>> PROVE KnownInv'
  BY <1>1, <1>8 DEF KnownInv
<1>9. ASSUME NEW c \in Connections,
             Subscribe(c) \/ SnapshotRead(c) \/ Join(c) \/ Unsubscribe(c)
      PROVE  KnownInv'
  BY <1>8, <1>9 DEF Subscribe, SnapshotRead, Join, Unsubscribe, busVars, connVars
<1>10. CASE UNCHANGED vars
  BY <1>8, <1>10 DEF vars, busVars, connVars
<1> QED
  BY <1>3, <1>4, <1>5, <1>6, <1>7, <1>9, <1>10, NextIs DEF OnConnection

LEMMA HandlerStep ==
  ASSUME StreamInv, [Next]_vars
  PROVE  HandlerInv'
<1>1. /\ TypeOK /\ HandlerInv
      /\ handler \in [Connections -> {"none", "snapshot", "join", "replay"}]
      /\ link \in [Connections -> {"new", "up", "closed", "gone"}]
  BY DEF StreamInv, TypeOK
<1>2. ASSUME NEW c \in Connections
      PROVE  /\ c \in replaying <=> handler[c] = "replay"
             /\ c \in attached <=> (c \in registered \/ handler[c] = "replay")
             /\ c \in registered => handler[c] = "none"
             /\ link[c] = "new" => handler[c] = "none" /\ c \notin registered
  BY <1>1 DEF HandlerInv
<1>3. ASSUME NEW size \in Sizes, Publish(size) PROVE HandlerInv'
  <2>1. nextSequence \in Nat \ {0} /\ nextSequence <= MaxPublished
    BY <1>1, <1>3 DEF Publish, TypeOK, BusTypeOK
  <2>2. \A c \in Connections : link'[c] = "new" => link[c] = "new"
    BY <1>1, <1>3, <2>1, PublishedIs, SendIs DEF Publish
  <2> QED
    BY <1>2, <1>3, <2>2 DEF Publish, HandlerInv
<1>4. ASSUME NEW c \in Connections, Connect(c) PROVE HandlerInv'
  BY <1>1, <1>2, <1>4 DEF Connect, subVars, HandlerInv
<1>5. ASSUME NEW c \in Connections, Subscribe(c) PROVE HandlerInv'
  BY <1>1, <1>2, <1>5 DEF Subscribe, connVars, HandlerInv
<1>6. ASSUME NEW c \in Connections, SnapshotRead(c) PROVE HandlerInv'
  BY <1>1, <1>2, <1>6 DEF SnapshotRead, connVars, HandlerInv
<1>7. ASSUME NEW c \in Connections, Join(c) PROVE HandlerInv'
  BY <1>1, <1>2, <1>7 DEF Join, connVars, HandlerInv
<1>8. ASSUME NEW c \in Connections, Replays(c) PROVE HandlerInv'
  <2>1. \A d \in Connections : link'[d] = "new" => link[d] = "new"
    <3>1. Replayed(c) \in Seq(Messages) /\ Send(Replayed(c), {c})
      BY <1>8, ReplayedIs DEF Replays, Replayed, ReplayedSequences
    <3> QED
      BY <1>1, <3>1, SendIs
  <2>2. /\ handler[c] = "replay" /\ handler' = [handler EXCEPT ![c] = "none"]
        /\ registered' = registered \cup {c} /\ replaying' = replaying \ {c}
        /\ attached' = attached
    BY <1>8 DEF Replays
  <2> QED
    BY <1>1, <1>2, <2>1, <2>2 DEF HandlerInv
<1>9. ASSUME NEW c \in Connections, Unsubscribe(c) PROVE HandlerInv'
  BY <1>1, <1>2, <1>9 DEF Unsubscribe, connVars, HandlerInv
<1>10. ASSUME NEW c \in Connections, Lose(c) PROVE HandlerInv'
  BY <1>1, <1>2, <1>10 DEF Lose, subVars, HandlerInv
<1>11. ASSUME NEW c \in Connections, HandleClose(c) PROVE HandlerInv'
  BY <1>1, <1>2, <1>11 DEF HandleClose, HandlerInv
<1>12. CASE Rebirth
  BY <1>1, <1>2, <1>12 DEF Rebirth, connVars, HandlerInv
<1>13. ASSUME UNCHANGED <<link, subVars>> PROVE HandlerInv'
  BY <1>1, <1>13 DEF subVars, HandlerInv
<1>14. ASSUME NEW c \in Connections, Deliver(c) PROVE HandlerInv'
  BY <1>13, <1>14 DEF Deliver
<1>15. CASE UNCHANGED vars
  BY <1>13, <1>15 DEF vars, connVars
<1> QED
  BY <1>3, <1>4, <1>5, <1>6, <1>7, <1>8, <1>9, <1>10, <1>11, <1>12, <1>14, <1>15, NextIs
  DEF OnConnection

LEMMA LinkStep ==
  ASSUME StreamInv, [Next]_vars
  PROVE  LinkInv'
<1>1. /\ TypeOK /\ LinkInv /\ HandlerInv
      /\ handler \in [Connections -> {"none", "snapshot", "join", "replay"}]
      /\ link \in [Connections -> {"new", "up", "closed", "gone"}]
      /\ out \in [Connections -> Seq(Messages)]
  BY DEF StreamInv, TypeOK, Messages
<1>2. ASSUME NEW c \in Connections, Up(c)
      PROVE  /\ \A d \in Connections \ {c} : ~Up(d) /\ out[d] = <<>>
             /\ handler[c] # "none" => out[c] = <<>>
  BY <1>1, <1>2 DEF LinkInv
<1>3. ASSUME NEW size \in Sizes, Publish(size) PROVE LinkInv'
  <2>1. nextSequence \in Nat \ {0} /\ nextSequence <= MaxPublished
    BY <1>1, <1>3 DEF Publish, TypeOK, BusTypeOK
  <2>2. \A c \in Connections :
          /\ c \notin attached \ replaying \/ ~Up(c) => out'[c] = out[c] /\ link'[c] = link[c]
          /\ link'[c] = "up" => link[c] = "up"
    BY <1>1, <1>3, <2>1, PublishedIs, SendIs DEF Publish
  <2>3. \A c \in Connections : handler[c] # "none" => c \notin attached \ replaying
    BY <1>1 DEF HandlerInv
  <2>4. handler' = handler
    BY <1>3 DEF Publish
  <2> QED
    BY <1>2, <2>2, <2>3, <2>4 DEF Up, LinkInv
<1>4. ASSUME NEW c \in Connections, Connect(c) PROVE LinkInv'
  BY <1>1, <1>4 DEF Connect, subVars, Up, LinkInv
<1>5. ASSUME NEW c \in Connections, Subscribe(c) PROVE LinkInv'
  BY <1>1, <1>2, <1>5 DEF Subscribe, connVars, Up, LinkInv
<1>6. ASSUME NEW c \in Connections, SnapshotRead(c) \/ Join(c) PROVE LinkInv'
  <2>1. handler[c] # "none" /\ UNCHANGED <<link, out>>
        /\ \A d \in Connections \ {c} : handler'[d] = handler[d]
    BY <1>1, <1>6 DEF SnapshotRead, Join, connVars
  <2> QED
    BY <1>2, <2>1 DEF Up, LinkInv
<1>7. ASSUME NEW c \in Connections, Replays(c) PROVE LinkInv'
  <2>1. Replayed(c) \in Seq(Messages) /\ Send(Replayed(c), {c})
    BY <1>7, ReplayedIs DEF Replays, Replayed, ReplayedSequences
  <2>2. \A d \in Connections :
          /\ d \notin {c} \/ ~Up(d) => out'[d] = out[d] /\ link'[d] = link[d]
          /\ link'[d] = "up" => link[d] = "up"
    BY <1>1, <2>1, SendIs
  <2>3. handler'[c] = "none" /\ \A d \in Connections \ {c} : handler'[d] = handler[d]
    BY <1>1, <1>7 DEF Replays
  <2> QED
    BY <1>2, <2>2, <2>3 DEF Up, LinkInv
<1>8. ASSUME NEW c \in Connections, Deliver(c) PROVE LinkInv'
  <2>1. out[c] # <<>> /\ UNCHANGED <<link, handler>>
        /\ \A d \in Connections \ {c} : out'[d] = out[d]
    BY <1>1, <1>8 DEF Deliver, subVars
  <2> QED
    BY <1>2, <2>1 DEF Up, LinkInv
<1>9. ASSUME NEW c \in Connections, Lose(c) \/ HandleClose(c) PROVE LinkInv'
  <2>1. handler' = handler /\ link'[c] # "up" /\ out'[c] = <<>>
        /\ \A d \in Connections \ {c} : out'[d] = out[d] /\ link'[d] = link[d]
    BY <1>1, <1>9 DEF Lose, HandleClose, subVars
  <2> QED
    BY <1>2, <2>1 DEF Up, LinkInv
<1>10. ASSUME UNCHANGED <<link, out, handler>> PROVE LinkInv'
  BY <1>1, <1>10 DEF Up, LinkInv
<1>11. CASE Rebirth
  BY <1>10, <1>11 DEF Rebirth, connVars
<1>12. ASSUME NEW c \in Connections, Unsubscribe(c) PROVE LinkInv'
  BY <1>10, <1>12 DEF Unsubscribe, connVars
<1>13. CASE UNCHANGED vars
  BY <1>10, <1>13 DEF vars, connVars, subVars
<1> QED
  BY <1>3, <1>4, <1>5, <1>6, <1>7, <1>8, <1>9, <1>11, <1>12, <1>13, NextIs DEF OnConnection

LEMMA ReplayStep ==
  ASSUME StreamInv, [Next]_vars
  PROVE  ReplayInv'
<1> DEFINE Good(r, b, next, cur, up) ==
             LET n == Len(r.events)
                 m == Len(b)
             IN  /\ n <= r.latest /\ r.events = Run(r.latest - n, n)
                 /\ b = Run(r.latest, m)
                 /\ next = r.latest + m + 1
                 /\ up => \/ r.latest = cur + n
                          \/ /\ r.latest > cur + n /\ n > 0
                             /\ cur = 0 \/ r.truncated
<1>1. /\ TypeOK /\ HandlerInv /\ LinkInv /\ ReplayInv
      /\ handler \in [Connections -> {"none", "snapshot", "join", "replay"}]
      /\ link \in [Connections -> {"new", "up", "closed", "gone"}]
      /\ buffered \in [Connections -> Seq(Sequences1)]
      /\ replay \in [Connections -> Replay]
      /\ nextSequence \in Nat \ {0}
  BY DEF StreamInv, TypeOK, BusTypeOK
<1>2. ASSUME NEW c \in Connections, handler[c] = "replay"
      PROVE  Good(replay[c], buffered[c], nextSequence, cursor, Up(c))
  BY <1>1, <1>2 DEF ReplayInv
<1>3. ASSUME \A c \in Connections : handler'[c] = "replay" =>
               Good(replay'[c], buffered'[c], nextSequence', cursor', link'[c] = "up")
      PROVE  ReplayInv'
  BY <1>3 DEF ReplayInv, Up
<1>4. ASSUME UNCHANGED <<nextSequence, buffered, replay>>,
             \A c \in Connections : handler'[c] = "replay" => handler[c] = "replay",
             \A c \in Connections : handler[c] = "replay" /\ link'[c] = "up"
               => link[c] = "up" /\ cursor' = cursor
      PROVE  ReplayInv'
  <2>1. ASSUME NEW c \in Connections, handler'[c] = "replay"
        PROVE  Good(replay'[c], buffered'[c], nextSequence', cursor', link'[c] = "up")
    <3>1. handler[c] = "replay" /\ replay'[c] = replay[c] /\ buffered'[c] = buffered[c]
          /\ nextSequence' = nextSequence
      BY <1>4, <2>1
    <3>2. Good(replay[c], buffered[c], nextSequence, cursor, Up(c))
      BY <1>2, <3>1
    <3> QED
      BY <1>4, <3>1, <3>2 DEF Up
  <2> HIDE DEF Good
  <2> QED
    BY <1>3, <2>1
<1>5. ASSUME NEW size \in Sizes, Publish(size) PROVE ReplayInv'
  <2>1. nextSequence <= MaxPublished /\ nextSequence' = nextSequence + 1
        /\ UNCHANGED <<handler, replay, cursor>>
    BY <1>5 DEF Publish, Retain
  <2>2. \A c \in Connections : link'[c] = "up" => link[c] = "up"
    BY <1>1, <1>5, <2>1, PublishedIs, SendIs DEF Publish
  <2>3. ASSUME NEW c \in Connections, handler'[c] = "replay"
        PROVE  Good(replay'[c], buffered'[c], nextSequence', cursor', link'[c] = "up")
    <3>1. handler[c] = "replay" /\ replay'[c] = replay[c] /\ cursor' = cursor
      BY <2>1, <2>3
    <3>2. c \in attached \cap replaying
      BY <1>1, <3>1 DEF HandlerInv
    <3>3. buffered'[c] = Append(buffered[c], nextSequence)
      BY <1>5, <3>2 DEF Publish
    <3> DEFINE r == replay[c]
               b == buffered[c]
               m == Len(b)
    <3>4. Good(r, b, nextSequence, cursor, Up(c))
      BY <1>2, <3>1
    <3>5. r.latest \in Nat /\ m \in Nat
      <4>1. r \in Replay /\ b \in Seq(Sequences1)
        BY <1>1
      <4>2. r.latest \in 0..MaxPublished
        <5> HIDE DEF r
        <5> QED
          BY <4>1 DEF Replay
      <4> HIDE DEF r, b
      <4> QED
        BY <4>1, <4>2, ReplayAssumption
    <3>6. b = Run(r.latest, m) /\ nextSequence = r.latest + m + 1
      BY <3>4
    <3>7. buffered'[c] = Run(r.latest, m + 1) /\ Len(buffered'[c]) = m + 1
      <4> HIDE DEF r, b, m
      <4>1. Append(Run(r.latest, m), r.latest + m + 1) = Run(r.latest, m + 1)
        <5>1. \A a, k \in Nat : Append(Run(a, k), a + k + 1) = Run(a, k + 1)
          BY RunIs
        <5> QED
          BY <3>5, <5>1
      <4>2. buffered'[c] = Append(b, nextSequence)
        BY <3>3 DEF b
      <4>3. buffered'[c] = Run(r.latest, m + 1)
        BY <3>6, <4>1, <4>2
      <4>4. Len(Run(r.latest, m + 1)) = m + 1
        <5>1. \A a, k \in Nat : Len(Run(a, k)) = k
          BY RunIs
        <5> QED
          BY <3>5, <5>1
      <4> QED
        BY <4>3, <4>4
    <3>8. nextSequence' = r.latest + (m + 1) + 1
      <4> HIDE DEF r, m
      <4> QED
        BY <2>1, <3>5, <3>6
    <3> HIDE DEF m
    <3>9. Good(r, buffered'[c], nextSequence', cursor, link'[c] = "up")
      BY <2>2, <3>4, <3>7, <3>8 DEF Up
    <3> QED
      BY <3>1, <3>9
  <2> HIDE DEF Good
  <2> QED
    BY <1>3, <2>3
<1>6. ASSUME NEW c \in Connections, Join(c) PROVE ReplayInv'
  <2>1. UNCHANGED <<nextSequence, cursor, link>> /\ handler[c] = "join"
        /\ \A d \in Connections \ {c} : /\ handler'[d] = handler[d]
                                        /\ replay'[d] = replay[d] /\ buffered'[d] = buffered[d]
    BY <1>1, <1>6 DEF Join, busVars, connVars
  <2>2. replay'[c] = ReplayAfter(cursor) /\ buffered'[c] = <<>>
    BY <1>1, <1>6 DEF Join
  <2>3. WindowInv /\ cursor \in Nat /\ cursor < nextSequence
    BY DEF StreamInv, KnownInv, TypeOK
  <2>4. PICK n \in 0..(nextSequence - 1) :
          /\ ReplayAfter(cursor) = [events |-> Run(nextSequence - 1 - n, n),
                                    latest |-> nextSequence - 1,
                                    truncated |-> Truncated(cursor)]
          /\ \/ nextSequence - 1 = cursor + n
             \/ /\ nextSequence - 1 > cursor + n /\ n > 0
                /\ cursor = 0 \/ Truncated(cursor) = TRUE
    BY <2>3, ReplayAfterIs
  <2>5. Good(replay'[c], buffered'[c], nextSequence', cursor', link'[c] = "up")
    <3> DEFINE a == nextSequence - 1 - n
               l == nextSequence - 1
               r == replay'[c]
    <3>1. a \in Nat /\ n \in Nat /\ l \in Nat /\ n <= l /\ l - n = a /\ nextSequence = l + 0 + 1
      BY <1>1
    <3>2. Len(Run(a, n)) = n /\ Run(l, 0) = <<>> /\ Len(<<>>) = 0
      <4> HIDE DEF a, l
      <4> QED
        BY <3>1, RunIs
    <3>3. r.events = Run(a, n) /\ r.latest = l /\ r.truncated = Truncated(cursor)
      BY <2>2, <2>4
    <3>4. l = cursor + n \/ (l > cursor + n /\ n > 0 /\ (cursor = 0 \/ r.truncated))
      BY <2>4, <3>3
    <3> HIDE DEF a, l, r
    <3>5. Len(r.events) = n /\ r.events = Run(r.latest - n, n)
      BY <3>1, <3>2, <3>3
    <3>6. Good(r, <<>>, nextSequence, cursor, link[c] = "up")
      BY <3>1, <3>2, <3>3, <3>4, <3>5
    <3> HIDE DEF Good
    <3> QED
      BY <2>1, <2>2, <3>6 DEF r
  <2>6. ASSUME NEW d \in Connections \ {c}, handler'[d] = "replay"
        PROVE  Good(replay'[d], buffered'[d], nextSequence', cursor', link'[d] = "up")
    <3>1. Good(replay[d], buffered[d], nextSequence, cursor, Up(d))
      BY <1>2, <2>1, <2>6
    <3> HIDE DEF Good
    <3> QED
      BY <2>1, <3>1 DEF Up
  <2> HIDE DEF Good
  <2> QED
    BY <1>3, <2>5, <2>6
<1>7. ASSUME NEW c \in Connections, Replays(c) PROVE ReplayInv'
  <2>1. Replayed(c) \in Seq(Messages) /\ Send(Replayed(c), {c})
    BY <1>7, ReplayedIs DEF Replays, Replayed, ReplayedSequences
  <2>2. \A d \in Connections : link'[d] = "up" => link[d] = "up"
    BY <1>1, <2>1, SendIs
  <2>3. /\ UNCHANGED <<nextSequence, cursor>> /\ handler'[c] = "none"
        /\ \A d \in Connections \ {c} : /\ handler'[d] = handler[d]
                                        /\ replay'[d] = replay[d] /\ buffered'[d] = buffered[d]
    BY <1>1, <1>7 DEF Replays, busVars
  <2>4. ASSUME NEW d \in Connections, handler'[d] = "replay"
        PROVE  Good(replay'[d], buffered'[d], nextSequence', cursor', link'[d] = "up")
    <3>1. d # c /\ handler[d] = "replay"
      BY <2>3, <2>4
    <3>2. Good(replay[d], buffered[d], nextSequence, cursor, Up(d))
      BY <1>2, <3>1
    <3> QED
      BY <2>2, <2>3, <3>1, <3>2 DEF Up
  <2> HIDE DEF Good
  <2> QED
    BY <1>3, <2>4
<1>8. ASSUME NEW c \in Connections, Deliver(c) PROVE ReplayInv'
  <2>1. UNCHANGED <<nextSequence, buffered, replay, handler, link>> /\ out[c] # <<>>
    BY <1>8 DEF Deliver, subVars, busVars
  <2>2. ASSUME NEW d \in Connections, handler[d] = "replay" PROVE link[d] # "up"
    <3>1. SUFFICES ASSUME link[d] = "up" PROVE out[c] = <<>>
      BY <2>1
    <3> QED
      BY <1>1, <2>2, <3>1 DEF LinkInv, Up
  <2> QED
    BY <1>4, <2>1, <2>2
<1>9. ASSUME NEW c \in Connections, Connect(c) PROVE ReplayInv'
  <2>1. /\ UNCHANGED <<nextSequence, buffered, replay, handler, cursor>>
        /\ link[c] = "new" /\ \A d \in Connections \ {c} : link'[d] = link[d]
    BY <1>1, <1>9 DEF Connect, subVars, busVars
  <2>2. handler[c] = "none"
    BY <1>1, <2>1 DEF HandlerInv
  <2> QED
    BY <1>4, <2>1, <2>2
<1>10. ASSUME NEW c \in Connections,
              \/ Subscribe(c) \/ SnapshotRead(c) \/ Unsubscribe(c) \/ Lose(c) \/ HandleClose(c)
       PROVE  ReplayInv'
  <2>1. UNCHANGED <<nextSequence, buffered, replay, cursor>>
    BY <1>10 DEF Subscribe, SnapshotRead, Unsubscribe, Lose, HandleClose, busVars, subVars
  <2>2. \A d \in Connections : handler'[d] = "replay" => handler[d] = "replay"
    BY <1>1, <1>10 DEF Subscribe, SnapshotRead, Unsubscribe, Lose, HandleClose, subVars
  <2>3. \A d \in Connections : link'[d] = "up" => link[d] = "up"
    BY <1>1, <1>10 DEF Subscribe, SnapshotRead, Unsubscribe, Lose, HandleClose, connVars
  <2> QED
    BY <1>4, <2>1, <2>2, <2>3
<1>11. CASE Rebirth
  <2>1. \A c \in Connections : handler'[c] # "replay"
    BY <1>11 DEF Rebirth
  <2> HIDE DEF Good
  <2> QED
    BY <1>3, <2>1
<1>12. CASE UNCHANGED vars
  BY <1>4, <1>12 DEF vars, busVars, connVars, subVars
<1> QED
  BY <1>5, <1>6, <1>7, <1>8, <1>9, <1>10, <1>11, <1>12, NextIs DEF OnConnection

(* A stream grows by the next event, loses its front, and is empty when there is
   nothing the client has not read. *)
LEMMA StreamGrows ==
  ASSUME NEW q \in Seq(Messages), NEW w, NEW next \in Nat, Stream(q, w, next),
         NEW m \in Seq(Messages), Len(m) = 1, m[1] = EventOf(next)
  PROVE  /\ Stream(q \o m, w, next + 1)
         /\ Len(q \o m) = Len(q) + 1
<1> DEFINE n == Len(q)
           p == q \o m
<1>1. /\ n \in Nat /\ Len(p) = n + 1
      /\ \A i \in 1..n : p[i] = q[i]
      /\ p[n + 1] = m[1]
  <2>1. /\ Len(q) \in Nat /\ Len(p) = Len(q) + Len(m)
        /\ \A i \in 1..(Len(q) + Len(m)) :
             p[i] = IF i <= Len(q) THEN q[i] ELSE m[i - Len(q)]
    <3>1. q \in Seq(Messages) /\ m \in Seq(Messages) /\ Len(q) \in Nat
      OBVIOUS
    <3> QED
      BY <3>1, ConcatIs, Zenon
  <2> HIDE DEF p
  <2>2. p[Len(q) + 1] = m[1]
    BY <2>1
  <2> QED
    BY <2>1, <2>2
<1>2. w \in 0..n
  BY DEF Stream
<1> HIDE DEF p
<1>3. ASSUME NEW i \in 1..(n + 1), i > w PROVE p[i] = EventOf((next + 1) + i - 1 - (n + 1))
  <2>1. CASE i = n + 1
    <3>1. (next + 1) + i - 1 - (n + 1) = next
      BY <1>1, <2>1
    <3> QED
      BY <1>1, <2>1, <3>1
  <2>2. CASE i # n + 1
    <3>1. i \in 1..n /\ (next + 1) + i - 1 - (n + 1) = next + i - 1 - n
      BY <1>1, <2>2
    <3>2. q[i] = EventOf(next + i - 1 - n)
      BY <1>3, <3>1 DEF Stream
    <3> QED
      BY <1>1, <3>1, <3>2
  <2> QED
    BY <2>1, <2>2
<1>4. ASSUME NEW i \in 1..(n + 1), i < w PROVE p[i] = EventOf((next + 1) + i - (n + 1))
  <2>1. i \in 1..n /\ (next + 1) + i - (n + 1) = next + i - n
    BY <1>1, <1>2, <1>4
  <2>2. q[i] = EventOf(next + i - n)
    BY <1>4, <2>1 DEF Stream
  <2> QED
    BY <1>1, <2>1, <2>2
<1>5. w > 0 => p[w] = Warning
  BY <1>1, <1>2 DEF Stream
<1> HIDE DEF n
<1>6. w \in 0..(n + 1)
  BY <1>1, <1>2
<1>7. Stream(p, w, next + 1)
  BY <1>1, <1>3, <1>4, <1>5, <1>6 DEF Stream
<1> QED
  BY <1>1, <1>7 DEF p, n

LEMMA StreamTail ==
  ASSUME NEW q \in Seq(Messages), NEW w, NEW next \in Nat, Stream(q, w, next), q # <<>>
  PROVE  /\ Len(Tail(q)) = Len(q) - 1
         /\ Stream(Tail(q), IF w = 0 THEN 0 ELSE w - 1, next)
         /\ Head(q) = IF w = 1 THEN Warning ELSE EventOf(First(Len(q), w, next))
<1> DEFINE n == Len(q)
           p == Tail(q)
           v == IF w = 0 THEN 0 ELSE w - 1
<1>1. /\ n \in Nat \ {0} /\ Len(p) = n - 1
      /\ \A i \in 1..(n - 1) : p[i] = q[i + 1]
      /\ Head(q) = q[1]
  <2>1. n \in Nat \ {0}
    OBVIOUS
  <2>2. Len(p) = n - 1 /\ Head(q) = q[1]
    OBVIOUS
  <2>3. \A i \in 1..(n - 1) : p[i] = q[i + 1]
    BY <2>1, <2>2
  <2> QED
    BY <2>1, <2>2, <2>3
<1>2. w \in 0..n
  BY DEF Stream
<1> HIDE DEF p
<1>3. Head(q) = IF w = 1 THEN Warning ELSE EventOf(First(n, w, next))
  <2>1. 1 \in 1..n
    BY <1>1
  <2>2. CASE w = 1
    BY <1>1, <2>2 DEF Stream
  <2>3. CASE w = 0
    <3>1. q[1] = EventOf(next + 1 - 1 - n)
      BY <2>1, <2>3 DEF Stream
    <3>2. next + 1 - 1 - n = next - n
      BY <1>1
    <3> QED
      BY <1>1, <2>3, <3>1, <3>2 DEF First
  <2>4. CASE w > 1
    <3>1. q[1] = EventOf(next + 1 - n)
      BY <2>1, <2>4 DEF Stream
    <3> QED
      BY <1>1, <2>4, <3>1 DEF First
  <2> QED
    BY <1>2, <2>2, <2>3, <2>4
<1>4. ASSUME NEW i \in 1..(n - 1), i > v PROVE p[i] = EventOf(next + i - 1 - (n - 1))
  <2>1. i + 1 \in 1..n /\ i + 1 > w /\ next + (i + 1) - 1 - n = next + i - 1 - (n - 1)
    BY <1>1, <1>2, <1>4
  <2>2. q[i + 1] = EventOf(next + (i + 1) - 1 - n)
    BY <2>1 DEF Stream
  <2> QED
    BY <1>1, <2>1, <2>2
<1>5. ASSUME NEW i \in 1..(n - 1), i < v PROVE p[i] = EventOf(next + i - (n - 1))
  <2>1. i + 1 \in 1..n /\ i + 1 < w /\ next + (i + 1) - n = next + i - (n - 1)
    BY <1>1, <1>2, <1>5
  <2>2. q[i + 1] = EventOf(next + (i + 1) - n)
    BY <2>1 DEF Stream
  <2> QED
    BY <1>1, <2>1, <2>2
<1>6. v \in 0..(n - 1) /\ (v > 0 => v + 1 = w /\ v \in 1..(n - 1))
  BY <1>1, <1>2
<1>7. v > 0 => p[v] = Warning
  BY <1>1, <1>2, <1>6 DEF Stream
<1> HIDE DEF n, v
<1>8. Stream(p, v, next)
  BY <1>1, <1>4, <1>5, <1>6, <1>7 DEF Stream
<1> QED
  BY <1>1, <1>3, <1>8 DEF p, n, v

LEMMA StreamEmpty ==
  ASSUME NEW from \in Nat
  PROVE  /\ Stream(<<>>, 0, from + 1) /\ 0 \in 0..Len(<<>>)
         /\ GoesOn(Len(<<>>), 0, from + 1, from)
<1>1. Len(<<>>) = 0
  OBVIOUS
<1>2. First(0, 0, from + 1) = from + 1
  BY DEF First
<1> QED
  BY <1>1, <1>2 DEF Stream, GoesOn

LEMMA QueueStep ==
  ASSUME StreamInv, [Next]_vars
  PROVE  QueueInv'
<1> DEFINE Good(c, next, w) == /\ Stream(out[c], w, next)
                               /\ GoesOn(Len(out[c]), w, next, cursor)
                               /\ c \in registered => next = nextSequence
           Reads(c) == \E next \in 1..nextSequence, w \in 0..Len(out[c]) : Good(c, next, w)
<1>1. /\ TypeOK /\ HandlerInv /\ LinkInv /\ ReplayInv /\ QueueInv
      /\ link \in [Connections -> {"new", "up", "closed", "gone"}]
      /\ out \in [Connections -> Seq(Messages)]
      /\ nextSequence \in Nat \ {0} /\ cursor \in Nat /\ cursor < nextSequence
  BY DEF StreamInv, TypeOK, BusTypeOK, KnownInv, Messages
<1>2. ASSUME NEW c \in Connections, Up(c) PROVE Reads(c)
  BY <1>1, <1>2 DEF QueueInv
<1>3. ASSUME \A c \in Connections : link'[c] = "up" => Reads(c)'
      PROVE  QueueInv'
  BY <1>3 DEF QueueInv, Up
<1>4. ASSUME NEW c \in Connections, out'[c] = out[c], cursor' = cursor,
             nextSequence' \in Nat, nextSequence <= nextSequence', Up(c),
             c \in registered' => c \in registered /\ nextSequence' = nextSequence
      PROVE  Reads(c)'
  <2>1. PICK next \in 1..nextSequence, w \in 0..Len(out[c]) : Good(c, next, w)
    BY <1>2, <1>4
  <2>2. next \in 1..nextSequence'
    BY <1>1, <1>4
  <2>3. Good(c, next, w)'
    BY <1>4, <2>1
  <2> HIDE DEF Good
  <2> QED
    BY <1>4, <2>2, <2>3
<1>5. ASSUME NEW c \in Connections, out'[c] = <<>>, cursor' \in Nat, nextSequence' \in Nat,
             cursor' < nextSequence', c \notin registered'
      PROVE  Reads(c)'
  <2>1. /\ Stream(<<>>, 0, cursor' + 1) /\ 0 \in 0..Len(<<>>)
        /\ GoesOn(Len(<<>>), 0, cursor' + 1, cursor')
    BY <1>5, StreamEmpty
  <2>2. cursor' + 1 \in 1..nextSequence'
    <3>1. \A x, y \in Nat : x < y => x + 1 \in 1..y
      OBVIOUS
    <3> QED
      BY <1>5, <3>1
  <2>3. Good(c, cursor + 1, 0)'
    BY <1>5, <2>1
  <2> HIDE DEF Good
  <2> QED
    BY <1>5, <2>1, <2>2, <2>3
<1>6. ASSUME NEW size \in Sizes, Publish(size) PROVE QueueInv'
  <2>1. nextSequence <= MaxPublished /\ nextSequence' = nextSequence + 1
        /\ UNCHANGED <<handler, registered, cursor>>
    BY <1>6 DEF Publish, Retain
  <2> DEFINE m == EventsOf(<<nextSequence>>)
             live == attached \ replaying
  <2>2. m \in Seq(Messages) /\ Len(m) = 1 /\ m[1] = EventOf(nextSequence)
    BY <1>1, <2>1, PublishedIs
  <2>3. \A c \in Connections :
          /\ c \notin live => out'[c] = out[c]
          /\ link'[c] = "up" => link[c] = "up"
          /\ c \in live /\ link'[c] = "up" => out'[c] = out[c] \o m
    <3>1. Send(m, live)
      BY <1>6 DEF Publish
    <3> HIDE DEF m, live
    <3> QED
      BY <1>1, <2>2, <3>1, SendIs
  <2>4. ASSUME NEW c \in Connections, link'[c] = "up" PROVE Reads(c)'
    <3>1. Up(c)
      BY <2>3, <2>4 DEF Up
    <3>2. c \in live <=> c \in registered
      BY <1>1 DEF HandlerInv
    <3>3. CASE c \notin live
      <4>1. out'[c] = out[c] /\ c \notin registered'
        BY <2>1, <2>3, <3>2, <3>3
      <4> HIDE DEF Reads
      <4> QED
        BY <1>1, <1>4, <2>1, <3>1, <4>1
    <3>4. CASE c \in live
      <4>1. PICK next \in 1..nextSequence, w \in 0..Len(out[c]) : Good(c, next, w)
        BY <1>2, <3>1
      <4>2. next = nextSequence /\ Stream(out[c], w, next) /\ GoesOn(Len(out[c]), w, next, cursor)
        BY <3>2, <3>4, <4>1
      <4>3. out[c] \in Seq(Messages) /\ out'[c] = out[c] \o m
        BY <1>1, <2>3, <2>4, <3>4
      <4>4. Stream(out'[c], w, nextSequence + 1) /\ Len(out'[c]) = Len(out[c]) + 1
        <5> HIDE DEF m
        <5> QED
          BY <1>1, <2>2, <4>2, <4>3, StreamGrows
      <4> DEFINE n == Len(out[c])
      <4>5. n \in Nat /\ w \in 0..n /\ (n = 0 => w = 0)
        BY <4>3
      <4> HIDE DEF n
      <4>6. First(n + 1, w, nextSequence + 1) = First(n, w, nextSequence)
        BY <1>1, <4>5 DEF First
      <4>7. GoesOn(n, w, nextSequence, cursor)
        BY <4>2 DEF n
      <4>8. GoesOn(n + 1, w, nextSequence + 1, cursor)
        BY <4>5, <4>6, <4>7 DEF GoesOn
      <4>9. Good(c, nextSequence, w)'
        BY <2>1, <4>4, <4>8 DEF n
      <4>10. nextSequence' \in 1..nextSequence' /\ w \in 0..Len(out'[c])
        BY <1>1, <2>1, <4>4, <4>5 DEF n
      <4> HIDE DEF Good
      <4> QED
        BY <4>9, <4>10
    <3> QED
      BY <3>3, <3>4
  <2> HIDE DEF Reads
  <2> QED
    BY <1>3, <2>4
<1>7. ASSUME NEW c \in Connections, Connect(c) PROVE QueueInv'
  <2>1. /\ UNCHANGED <<nextSequence, cursor, registered>> /\ link[c] = "new"
        /\ \A d \in Connections : link'[d] = "up" => d = c
        /\ out'[c] = <<>>
    BY <1>1, <1>7 DEF Connect, subVars, busVars
  <2>2. c \notin registered'
    BY <1>1, <2>1 DEF HandlerInv
  <2>3. Reads(c)'
    <3> HIDE DEF Reads
    <3> QED
      BY <1>1, <1>5, <2>1, <2>2
  <2> HIDE DEF Reads
  <2> QED
    BY <1>3, <2>1, <2>3
<1>8. ASSUME NEW c \in Connections, Replays(c) PROVE QueueInv'
  <2>1. handler[c] = "replay" /\ UNCHANGED <<nextSequence, cursor>>
        /\ registered' = registered \cup {c} /\ Send(Replayed(c), {c})
    BY <1>8 DEF Replays, Replayed, ReplayedSequences, busVars
  <2>2. /\ Replayed(c) \in Seq(Messages)
        /\ Len(Replayed(c)) = Len(replay[c].events) + Len(buffered[c])
                              + (IF replay[c].truncated THEN 1 ELSE 0)
        /\ Stream(Replayed(c), WarningAt(c), nextSequence)
    BY <2>1, ReplayedIs
  <2>3. \A d \in Connections :
          /\ d \notin {c} => out'[d] = out[d]
          /\ link'[d] = "up" => link[d] = "up"
          /\ d \in {c} /\ link'[d] = "up" => out'[d] = out[d] \o Replayed(c)
    BY <1>1, <2>1, <2>2, SendIs
  <2>4. ASSUME link'[c] = "up" PROVE Reads(c)'
    <3>1. Up(c) /\ out[c] = <<>>
      BY <1>1, <2>1, <2>3, <2>4 DEF Up, LinkInv
    <3>2. out'[c] = Replayed(c)
      <4>1. \A q \in Seq(Messages) : <<>> \o q = q
        OBVIOUS
      <4> QED
        BY <2>2, <2>3, <2>4, <3>1, <4>1
    <3> DEFINE r == replay[c]
               n == Len(r.events)
               m == Len(buffered[c])
               k == Len(Replayed(c))
               w == WarningAt(c)
    <3>3. /\ nextSequence = r.latest + m + 1
          /\ \/ r.latest = cursor + n
             \/ /\ r.latest > cursor + n /\ n > 0
                /\ cursor = 0 \/ r.truncated = TRUE
      BY <1>1, <2>1, <3>1 DEF ReplayInv
    <3>4. /\ r.latest \in Nat /\ n \in Nat /\ m \in Nat /\ r.truncated \in BOOLEAN
      <4>1. r \in Replay /\ buffered[c] \in Seq(Sequences1)
        BY DEF StreamInv, TypeOK
      <4>2. r.events \in Seq(Sequences1) /\ r.latest \in 0..MaxPublished
            /\ r.truncated \in BOOLEAN
        <5> HIDE DEF r
        <5> QED
          BY <4>1 DEF Replay
      <4> HIDE DEF r
      <4> QED
        BY <4>1, <4>2, ReplayAssumption
    <3>5. \/ r.truncated = TRUE /\ k = n + m + 1 /\ w = k
          \/ r.truncated = FALSE /\ k = n + m /\ w = 0
      <4>1. CASE r.truncated = TRUE
        BY <2>2, <4>1 DEF WarningAt
      <4>2. CASE r.truncated = FALSE
        <5>1. k = n + m + 0 /\ w = 0
          BY <2>2, <4>2 DEF WarningAt
        <5> HIDE DEF n, m, k, w
        <5> QED
          BY <3>4, <4>2, <5>1
      <4> QED
        BY <3>4, <4>1, <4>2
    <3> HIDE DEF r, n, m, k, w
    <3>6. First(k, w, nextSequence) = r.latest + 1 - n
      BY <3>3, <3>4, <3>5 DEF First
    <3>7. GoesOn(k, w, nextSequence, cursor)
      <4>1. CASE r.latest = cursor + n
        <5>1. First(k, w, nextSequence) = cursor + 1
          BY <1>1, <3>4, <3>6, <4>1
        <5> QED
          BY <5>1 DEF GoesOn
      <4>2. CASE r.latest > cursor + n /\ n > 0 /\ (cursor = 0 \/ r.truncated = TRUE)
        <5>1. First(k, w, nextSequence) > cursor + 1
          BY <1>1, <3>4, <3>6, <4>2
        <5>2. k > 0 /\ w # 1 /\ (cursor = 0 \/ w > 0)
          BY <3>4, <3>5, <4>2
        <5> QED
          BY <5>1, <5>2 DEF GoesOn
      <4> QED
        BY <3>3, <4>1, <4>2
    <3>8. PICK v : v = w
      OBVIOUS
    <3>9. Stream(out'[c], v, nextSequence) /\ GoesOn(Len(out'[c]), v, nextSequence, cursor)
      BY <2>2, <3>2, <3>7, <3>8 DEF k, w
    <3>10. Good(c, nextSequence, v)'
      BY <2>1, <3>9
    <3>11. nextSequence' \in 1..nextSequence' /\ v \in 0..Len(out'[c])
      BY <1>1, <2>1, <3>9 DEF Stream
    <3> HIDE DEF Good
    <3> QED
      BY <3>10, <3>11
  <2>5. ASSUME NEW d \in Connections, d # c, link'[d] = "up" PROVE Reads(d)'
    <3>1. Up(d) /\ out'[d] = out[d] /\ (d \in registered' => d \in registered)
      BY <2>1, <2>3, <2>5 DEF Up
    <3> HIDE DEF Reads
    <3> QED
      BY <1>1, <1>4, <2>1, <3>1
  <2> HIDE DEF Reads
  <2> QED
    BY <1>3, <2>4, <2>5
<1>9. ASSUME NEW c \in Connections, Deliver(c) PROVE QueueInv'
  <2>1. /\ UNCHANGED <<nextSequence, registered, link>> /\ out[c] # <<>>
        /\ out'[c] = Tail(out[c])
        /\ cursor' = IF Head(out[c]).sequence > cursor THEN Head(out[c]).sequence ELSE cursor
    BY <1>1, <1>9 DEF Deliver, subVars, busVars
  <2>2. ASSUME NEW d \in Connections, link'[d] = "up" PROVE d = c
    BY <1>1, <2>1, <2>2 DEF LinkInv, Up
  <2>3. ASSUME link'[c] = "up" PROVE Reads(c)'
    <3>1. PICK next \in 1..nextSequence, w \in 0..Len(out[c]) : Good(c, next, w)
      BY <1>2, <2>1, <2>3 DEF Up
    <3> DEFINE n == Len(out[c])
               v == IF w = 0 THEN 0 ELSE w - 1
    <3>2. /\ Stream(out[c], w, next) /\ GoesOn(n, w, next, cursor)
          /\ (c \in registered => next = nextSequence)
          /\ next \in Nat /\ n \in Nat \ {0} /\ w \in 0..n
      <4>1. out[c] \in Seq(Messages)
        BY <1>1
      <4>2. n \in Nat \ {0}
        BY <2>1, <4>1
      <4> QED
        BY <3>1, <4>2
    <3>3. /\ Len(out'[c]) = n - 1 /\ Stream(out'[c], v, next)
          /\ Head(out[c]) = IF w = 1 THEN Warning ELSE EventOf(First(n, w, next))
      BY <1>1, <2>1, <3>2, StreamTail
    <3> HIDE DEF n
    <3>4. GoesOn(n - 1, v, next, cursor')
      <4>1. CASE w = 1
        <5>1. Head(out[c]).sequence = 0
          BY <3>3, <4>1 DEF Warning
        <5>2. cursor' = cursor
          BY <1>1, <2>1, <5>1
        <5>3. First(n, w, next) = cursor + 1
          BY <3>2, <4>1 DEF GoesOn
        <5>4. First(n - 1, v, next) = First(n, w, next)
          BY <3>2, <4>1 DEF First
        <5> QED
          BY <5>2, <5>3, <5>4 DEF GoesOn
      <4>2. CASE w # 1
        <5>1. Head(out[c]).sequence = First(n, w, next)
          BY <3>3, <4>2 DEF EventOf
        <5>2. First(n, w, next) > cursor
          BY <1>1, <3>2 DEF GoesOn, First
        <5>3. cursor' = First(n, w, next)
          BY <2>1, <5>1, <5>2
        <5>4. First(n - 1, v, next) = First(n, w, next) + 1
          BY <3>2, <4>2 DEF First
        <5> QED
          BY <5>3, <5>4 DEF GoesOn
      <4> QED
        BY <4>1, <4>2
    <3>5. Good(c, next, v)'
      BY <2>1, <3>2, <3>3, <3>4
    <3>6. next \in 1..nextSequence' /\ v \in 0..Len(out'[c])
      BY <2>1, <3>2, <3>3
    <3> HIDE DEF Good, v
    <3> QED
      BY <3>5, <3>6
  <2> HIDE DEF Reads
  <2> QED
    BY <1>3, <2>2, <2>3
<1>10. ASSUME NEW c \in Connections,
              \/ Subscribe(c) \/ SnapshotRead(c) \/ Join(c) \/ Unsubscribe(c)
              \/ Lose(c) \/ HandleClose(c)
       PROVE  QueueInv'
  <2>1. UNCHANGED <<nextSequence, cursor>> /\ registered' \subseteq registered
    BY <1>10 DEF Subscribe, SnapshotRead, Join, Unsubscribe, Lose, HandleClose, busVars, subVars
  <2>2. \A d \in Connections : link'[d] = "up" => link[d] = "up" /\ out'[d] = out[d]
    BY <1>1, <1>10 DEF Subscribe, SnapshotRead, Join, Unsubscribe, Lose, HandleClose, connVars
  <2>3. ASSUME NEW d \in Connections, link'[d] = "up" PROVE Reads(d)'
    <3> HIDE DEF Reads
    <3> QED
      BY <1>1, <1>4, <2>1, <2>2, <2>3 DEF Up
  <2> HIDE DEF Reads
  <2> QED
    BY <1>3, <2>3
<1>11. CASE Rebirth
  <2>1. nextSequence' = 1 /\ cursor' = 0 /\ registered' = {}
        /\ \A c \in Connections : out'[c] = <<>>
    BY <1>11 DEF Rebirth, connVars
  <2>2. ASSUME NEW c \in Connections PROVE Reads(c)'
    <3> HIDE DEF Reads
    <3> QED
      BY <1>5, <2>1
  <2> HIDE DEF Reads
  <2> QED
    BY <1>3, <2>2
<1>12. CASE UNCHANGED vars
  <2>1. UNCHANGED <<nextSequence, cursor, registered, link, out>>
    BY <1>12 DEF vars, busVars, connVars, subVars
  <2>2. ASSUME NEW d \in Connections, link'[d] = "up" PROVE Reads(d)'
    <3> HIDE DEF Reads
    <3> QED
      BY <1>1, <1>4, <2>1, <2>2 DEF Up
  <2> HIDE DEF Reads
  <2> QED
    BY <1>3, <2>2
<1> QED
  BY <1>6, <1>7, <1>8, <1>9, <1>10, <1>11, <1>12, NextIs DEF OnConnection

LEMMA StreamAlways ==
  Spec => []StreamInv
<1>1. Init => StreamInv
  <2> SUFFICES ASSUME Init PROVE StreamInv
    OBVIOUS
  <2>1. Weight(<<>>) = 0
    <3>1. <<>> \in Seq(Record) /\ Len(<<>>) = 0
      OBVIOUS
    <3>2. PICK s : Sums(<<>>, s)
      BY <3>1, SumsExist
    <3> QED
      BY <3>1, <3>2, WeightIs DEF Sums
  <2>2. WindowInv /\ WindowWeight
    BY <2>1, BusAssumption DEF Init, BusInit, WindowInv, WindowContiguous, WindowWeight
  <2>3. TypeOK
    <3>1. NoReplay \in Replay
      BY ReplayAssumption DEF NoReplay, Replay
    <3>2. 1 \in Epochs
      BY ReplayAssumption DEF Epochs
    <3>3. \A c \in Connections : Len(out[c]) <= MaxOutbound + 1
      BY ReplayAssumption DEF Init
    <3>4. BusTypeOK
      BY DEF Init, BusInit, BusTypeOK
    <3>5. /\ out \in [Connections -> Seq(Event \cup {Warning})]
          /\ buffered \in [Connections -> Seq(Sequences1)]
          /\ replay \in [Connections -> Replay]
      BY <3>1 DEF Init
    <3>6. cursor \in 0..MaxPublished
      BY ReplayAssumption DEF Init
    <3> QED
      BY <3>2, <3>3, <3>4, <3>5, <3>6 DEF Init, TypeOK
  <2>4. KnownInv
    BY ReplayAssumption DEF Init, BusInit, KnownInv
  <2>5. HandlerInv /\ LinkInv /\ ReplayInv /\ QueueInv
    BY DEF Init, HandlerInv, LinkInv, ReplayInv, QueueInv, Up
  <2> QED
    BY <2>2, <2>3, <2>4, <2>5 DEF StreamInv
<1>2. StreamInv /\ [Next]_vars => StreamInv'
  BY BusStep, TypeStep, KnownStep, HandlerStep, LinkStep, ReplayStep, QueueStep DEF StreamInv
<1> QED
  BY <1>1, <1>2, PTL DEF Spec

(* The state of the connections, of the subscriptions being made and of the client is
   what it is said to be: no queue is longer than maxOutboundMessages and the message
   being written. *)
THEOREM TypeAlways == Spec => []TypeOK
<1>1. StreamInv => TypeOK
  BY DEF StreamInv
<1> QED
  BY <1>1, StreamAlways, PTL

(* The running count of bytes is the weight of the log in every state, for every set of
   sizes: the subtractions of the eviction loop never drift. *)
THEOREM WeightAlways == Spec => []WindowWeight
<1>1. StreamInv => WindowWeight
  BY DEF StreamInv
<1> QED
  BY <1>1, StreamAlways, PTL

(* The stream a client reads has no hole and no repetition between what was replayed,
   what was published while subscribeConnection waited and what came live; it begins
   where the client's cursor stands, or announces that it does not. *)
THEOREM InOrderAlways == Spec => []StreamInOrder
<1>1. StreamInv => StreamInOrder
  <2> SUFFICES ASSUME StreamInv, NEW c \in Connections, Up(c)
               PROVE  LET queue == out[c]
                          between(i, j) == {k \in EventsIn(queue) : i < k /\ k < j}
                      IN  /\ \A i, j \in EventsIn(queue) :
                               i < j /\ between(i, j) = {}
                                 => queue[j].sequence = queue[i].sequence + 1
                          /\ \A i \in EventsIn(queue) : between(0, i) = {} =>
                               \/ queue[i].sequence = cursor + 1
                               \/ /\ queue[i].sequence > cursor
                                  /\ cursor = 0 \/ \E w \in DOMAIN queue : queue[w] = Warning
    BY DEF StreamInOrder
  <2> DEFINE q == out[c]
             n == Len(q)
  <2>1. PICK next \in 1..nextSequence, w \in 0..Len(out[c]) :
          Stream(q, w, next) /\ GoesOn(n, w, next, cursor)
    BY DEF StreamInv, QueueInv
  <2>2. /\ q \in Seq(Messages) /\ n \in Nat /\ next \in Nat /\ cursor \in Nat
        /\ w \in 0..n /\ DOMAIN q = 1..n
    <3>1. q \in Seq(Messages) /\ nextSequence \in Nat /\ cursor \in Nat
      BY DEF StreamInv, TypeOK, BusTypeOK, Messages
    <3> QED
      BY <3>1
  <2> HIDE DEF q, n
  <2>3. ASSUME NEW i \in 1..n, i # w
        PROVE  /\ q[i].kind = "event"
               /\ q[i].sequence = IF i > w THEN next + i - 1 - n ELSE next + i - n
    <3>1. CASE i > w
      <4>1. q[i] = EventOf(next + i - 1 - n)
        BY <2>1, <3>1 DEF Stream, n
      <4> QED
        BY <3>1, <4>1 DEF EventOf
    <3>2. CASE i < w
      <4>1. q[i] = EventOf(next + i - n) /\ ~ (i > w)
        BY <2>1, <2>2, <3>2 DEF Stream, n
      <4> QED
        BY <4>1 DEF EventOf
    <3> QED
      BY <2>2, <2>3, <3>1, <3>2
  <2>4. w > 0 => q[w] = Warning /\ q[w].kind # "event" /\ w \in DOMAIN q
    BY <2>1, <2>2 DEF Stream, Warning
  <2>5. EventsIn(q) = {i \in 1..n : i # w}
    BY <2>2, <2>3, <2>4 DEF EventsIn
  <2>6. ASSUME NEW i \in EventsIn(q), NEW j \in EventsIn(q), i < j,
               {k \in EventsIn(q) : i < k /\ k < j} = {}
        PROVE  q[j].sequence = q[i].sequence + 1
    <3>1. i \in 1..n /\ j \in 1..n /\ i # w /\ j # w
      BY <2>5
    <3>2. \A k \in 1..n : k = w \/ ~ (i < k /\ k < j)
      BY <2>5, <2>6
    <3>3. j = i + 1 \/ (j = i + 2 /\ w = i + 1)
      <4>1. i + 1 \in 1..n
        BY <2>2, <2>6, <3>1
      <4>2. j # i + 1 => w = i + 1
        BY <2>6, <3>1, <3>2, <4>1
      <4>3. j # i + 1 /\ j # i + 2 => i + 2 \in 1..n /\ i < i + 2 /\ i + 2 < j
        BY <2>2, <2>6, <3>1
      <4> QED
        BY <3>1, <3>2, <4>2, <4>3
    <3>4. /\ q[i].sequence = IF i > w THEN next + i - 1 - n ELSE next + i - n
          /\ q[j].sequence = IF j > w THEN next + j - 1 - n ELSE next + j - n
      BY <2>3, <3>1
    <3> QED
      BY <2>2, <3>1, <3>3, <3>4
  <2>7. ASSUME NEW i \in EventsIn(q), {k \in EventsIn(q) : 0 < k /\ k < i} = {}
        PROVE  \/ q[i].sequence = cursor + 1
               \/ /\ q[i].sequence > cursor
                  /\ cursor = 0 \/ \E v \in DOMAIN q : q[v] = Warning
    <3>1. i \in 1..n /\ i # w
      BY <2>5
    <3>2. \A k \in 1..n : k = w \/ ~ (0 < k /\ k < i)
      BY <2>5, <2>7
    <3>3. i = 1 \/ (i = 2 /\ w = 1)
      <4>1. i # 1 => w = 1
        BY <2>2, <3>1, <3>2
      <4>2. i # 1 /\ i # 2 => 2 \in 1..n /\ 2 < i
        BY <2>2, <3>1
      <4> QED
        BY <3>1, <3>2, <4>1, <4>2
    <3>4. q[i].sequence = IF i > w THEN next + i - 1 - n ELSE next + i - n
      BY <2>3, <3>1
    <3>5. q[i].sequence = First(n, w, next)
      BY <2>2, <3>1, <3>3, <3>4 DEF First
    <3>6. \/ q[i].sequence = cursor + 1
          \/ q[i].sequence > cursor + 1 /\ (cursor = 0 \/ w > 0)
      BY <2>1, <3>5 DEF GoesOn
    <3>7. First(n, w, next) \in Int
      BY <2>2 DEF First
    <3> QED
      BY <2>2, <2>4, <3>5, <3>6, <3>7
  <2> QED
    BY <2>6, <2>7 DEF q
<1> QED
  BY <1>1, StreamAlways, PTL

(* A client that is subscribed and has read all that was sent has the newest event:
   nothing was lost between the replay and the subscriber. *)
THEOREM CaughtUpAlways == Spec => []CaughtUp
<1>1. StreamInv => CaughtUp
  <2> SUFFICES ASSUME StreamInv, NEW c \in Connections, Up(c), c \in registered,
                      out[c] = <<>>
               PROVE  cursor = nextSequence - 1
    BY DEF CaughtUp
  <2>1. PICK next \in 1..nextSequence, w \in 0..Len(out[c]) :
          GoesOn(Len(out[c]), w, next, cursor) /\ next = nextSequence
    BY DEF StreamInv, QueueInv
  <2>2. Len(out[c]) = 0 /\ nextSequence \in Nat /\ cursor \in Nat
    BY DEF StreamInv, TypeOK, BusTypeOK
  <2> QED
    BY <2>1, <2>2 DEF GoesOn, First
<1> QED
  BY <1>1, StreamAlways, PTL
===============================================================================

--------------------------- MODULE ToolBatchProofs ---------------------------
(***************************************************************************)
(* Proofs about ToolBatch, for any files, regions and lists of calls: the  *)
(* types, that calls which run at once do not collide, that a write which  *)
(* is said to be rolled back is nowhere on disk (IInv); that the batch comes *)
(* to the same as its calls one after the other, and what a call says ok to *)
(* is on disk but for edits from outside (SerialInv); and that an edit from *)
(* outside is not lost (OutsideInv).  The second half needs that Serially, a *)
(* recursive function, exists: SetInduction gives it.                      *)
(***************************************************************************)
EXTENDS ToolBatch, TLAPS, WellFoundedInduction

(* Every call of a list is one the model may emit, and a mark of its own. *)
LEMMA CallTypes ==
  ASSUME batch \in Batches
  PROVE  /\ N \in Nat /\ N \in 1 .. MaxCalls
         /\ \A i \in 1 .. N : /\ batch[i] \in Calls /\ Op(i) \in Ops
                              /\ File(i) \in Files /\ batch[i].at \in Regions
                              /\ i \in Marks
<1>1. batch \in Seq(Calls) /\ Len(batch) \in 1 .. MaxCalls
  BY BatchAssumption
<1>2. N \in Nat /\ N \in 1 .. MaxCalls
  BY <1>1, BatchAssumption DEF N
<1>3. ASSUME NEW i \in 1 .. N
      PROVE  /\ batch[i] \in Calls /\ Op(i) \in Ops
             /\ File(i) \in Files /\ batch[i].at \in Regions
  <2>1. batch[i] \in Calls
    BY <1>1, <1>3 DEF N
  <2> QED
    BY <2>1 DEF Calls, Op, File
<1>4. ASSUME NEW i \in 1 .. N PROVE i \in Marks
  BY <1>2, <1>4, BatchAssumption DEF Marks
<1> QED
  BY <1>2, <1>3, <1>4

(* A text stays a text when a line changes, when it is written anew and when it
   is merged. *)
LEMMA LineTypes ==
  ASSUME NEW x \in [Regions -> Marks], NEW a \in Regions, NEW m \in Marks
  PROVE  [x EXCEPT ![a] = m] \in Texts
BY DEF Texts

(* The same for a text written anew. *)
LEMMA WholeTypes ==
  ASSUME NEW m \in Marks
  PROVE  [r \in Regions |-> m] \in Texts
BY DEF Texts

(* The same for a merge. *)
LEMMA MergeTypes ==
  ASSUME NEW b, NEW s \in [Regions -> Marks], NEW d \in [Regions -> Marks]
  PROVE  Merged(b, s, d) \in Texts
BY DEF Texts, Merged

(* What a flush is about to write is a text, or nothing. *)
LEMMA PlanTypes ==
  ASSUME TypeOK, NEW f \in Files, ~Conflict(f)
  PROVE  Planned(f) \in Texts \cup {NoEntry}
<1>1. CASE entries[f] = NoEntry
  BY <1>1 DEF Planned
<1>2. CASE entries[f] # NoEntry
  <2> DEFINE b == entries[f].base
             s == entries[f].staged
             d == disk[f]
  <2>1. b \in Texts /\ s \in Texts /\ d \in Texts
    BY <1>2 DEF TypeOK
  <2>2. CASE s # NoFile /\ d # NoFile
    <3>1. Merged(b, s, d) \in Texts
      BY <2>1, <2>2, MergeTypes DEF Texts
    <3> QED
      BY <2>1, <3>1 DEF Planned
  <2>3. CASE s = NoFile
    BY <2>1, <2>3 DEF Planned
  <2>4. CASE s # NoFile /\ d = NoFile
    <3>1. CASE b = NoFile
      BY <2>1, <2>4, <3>1 DEF Planned
    <3>2. CASE b # NoFile
      BY <2>4, <3>2 DEF Planned
    <3> QED
      BY <3>1, <3>2
  <2> QED
    BY <2>2, <2>3, <2>4
<1> QED
  BY <1>1, <1>2

(* The islands: calls of one island do not collide. *)
LEMMA IslandsApart ==
  ASSUME Partition(starts), N \in Nat, NEW s \in 1 .. N + 1,
         NEW i \in Island(s), NEW j \in Island(s), i < j
  PROVE  Declared(i) /\ Declared(j) /\ ~Collide(i, j)
<1>1. j \in 2 .. N /\ j \notin starts /\ i \in Nat /\ j \in Nat
  BY DEF Island
<1>2. i \in Current(starts, j)
  <2>1. i \in 1 .. j - 1
    BY DEF Island
  <2>2. ASSUME NEW t \in i + 1 .. j - 1 PROVE t \notin starts
    <3>1. t \in s + 1 .. j
      BY <2>2 DEF Island
    <3> QED
      BY <3>1 DEF Island
  <2> QED
    BY <2>1, <2>2 DEF Current
<1>3. Joins(Current(starts, j), j)
  BY <1>1 DEF Partition
<1> QED
  BY <1>2, <1>3 DEF Joins

-----------------------------------------------------------------------------
(* What the proof that an undone write is gone needs to know. *)

\* An edit holds a text between its read and its stage.
ReadsText == \A i \in 1 .. N : Op(i) = "edit" /\ res[i] = "reading" => seen[i] # NoFile

\* Text x has a region written by call i.
Has(x, i) == x # NoFile /\ x # NoEntry /\ \E r \in Regions : x[r] = i

\* The mark of call i is nowhere: on disk, in the log, in a flush, in a hand.
Clean(i) ==
  /\ \A f \in Files : /\ ~Has(disk[f], i) /\ ~Has(plans[f], i)
                      /\ entries[f] # NoEntry => ~Has(entries[f].staged, i)
  /\ \A j \in 1 .. N : res[j] = "reading" => ~Has(seen[j], i)

Quietly == fails = 0 /\ BarriersOnly

\* No flush, no plan; a flush is the scheduler's and happens between two islands.
Phase ==
  /\ flush = "none" => \A f \in Files : plans[f] = NoEntry
  /\ flush # "none" => pc = "next" /\ flush \in {"barrier", "final"}

\* Calls start with their island, and an edit is between its read and its stage
\* in its island only.
Order ==
  \A i \in 1 .. N :
    /\ pc = "next" /\ i >= at => res[i] = "none"
    /\ pc = "run" /\ i >= at /\ i \notin Island(at) => res[i] = "none"
    /\ res[i] = "reading" => /\ Op(i) = "edit"
                             /\ pc = "rest" \/ (pc = "run" /\ i \in Island(at))

\* What waits for a flush are calls that declare their files.
Waiting == \A i \in pending : Declared(i)

\* A call that does not say ok has left no mark, nor has one that only looks.
Absence == \A i \in 1 .. N : res[i] # "ok" \/ Op(i) = "view" => Clean(i)

\* What waits for a flush, or is written in the running island, is not on disk.
HeldBack ==
  flush = "none" /\ pc \in {"next", "run"} =>
    \A i \in 1 .. N : Writes(i) /\ (i \in pending \/ Running(i)) =>
      \A f \in Files : ~Has(disk[f], i)

Kept == Phase /\ Order /\ Waiting /\ Absence /\ HeldBack

IInv == TypeOK /\ Partition(starts) /\ ReadsText /\ (Quietly => Kept)
-----------------------------------------------------------------------------
(* The types. *)

Entry == [base : Texts, staged : Texts] \cup {NoEntry}

(* What a tool reads is a text. *)
LEMMA OverlayTypes ==
  ASSUME TypeOK, NEW f \in Files
  PROVE  Overlay(f) \in Texts
BY DEF TypeOK, Overlay

(* Staging a text keeps the log's type. *)
LEMMA StageTypes ==
  ASSUME TypeOK, NEW f \in Files, NEW text \in Texts, Stage(f, text)
  PROVE  entries' \in [Files -> Entry]
<1> DEFINE known == entries[f] # NoEntry /\ entries[f].base # NoFile
           base == IF known THEN entries[f].base ELSE disk[f]
<1>1. base \in Texts
  BY DEF TypeOK
<1>2. entries' = [entries EXCEPT ![f] = [base |-> base, staged |-> text]]
  BY DEF Stage
<1>3. entries \in [Files -> Entry]
  BY DEF TypeOK, Entry
<1> HIDE DEF base
<1>4. [base |-> base, staged |-> text] \in Entry
  BY <1>1 DEF Entry
<1> QED
  BY <1>2, <1>3, <1>4

(* Marking results as rolled back keeps their type. *)
LEMMA RolledBackTypes ==
  ASSUME TypeOK, NEW S
  PROVE  RolledBack(S) \in [1 .. N -> Results]
BY DEF TypeOK, RolledBack, Results, Answered

(* An emptied log is a log. *)
LEMMA ForgetTypes ==
  ASSUME Forget PROVE entries' \in [Files -> Entry]
BY DEF Forget, Entry

(* The commit's files are texts. *)
LEMMA CommittedTypes == Committed \in [Files -> Texts]
<1>1. Old \in Marks
  BY BatchAssumption DEF Old, Marks
<1>2. [r \in Regions |-> Old] \in Texts
  BY <1>1, WholeTypes
<1>3. NoFile \in Texts
  BY DEF Texts
<1> QED
  BY <1>2, <1>3 DEF Committed

(* A shell command leaves a text. *)
LEMMA ShellTypes ==
  ASSUME batch \in Batches, NEW i \in 1 .. N, NEW text \in Texts
  PROVE  ShellText(i, text) \in Texts
<1>1. i \in Marks /\ batch[i].at \in Regions
  BY CallTypes
<1>2. CASE Op(i) = "rm"
  BY <1>2 DEF ShellText, Texts
<1>3. CASE Op(i) # "rm" /\ text = NoFile
  BY <1>1, <1>3, WholeTypes DEF ShellText
<1>4. CASE Op(i) # "rm" /\ text # NoFile
  <2>1. text \in [Regions -> Marks]
    BY <1>4 DEF Texts
  <2> QED
    BY <1>1, <1>4, <2>1, LineTypes DEF ShellText
<1> QED
  BY <1>2, <1>3, <1>4

(* A checkpoint is a tree. *)
LEMMA CheckpointTypes ==
  ASSUME TypeOK, Checkpoint
  PROVE  saved' \in [Files -> Texts] \cup {NoTree}
BY DEF TypeOK, Checkpoint

(* A flush starts with plans of the right type. *)
LEMMA StartFlushTypes ==
  ASSUME TypeOK, NEW who \in {"barrier", "git", "final"}, StartFlush(who)
  PROVE  /\ flush' \in {"none", "barrier", "git", "final"}
         /\ plans' \in [Files -> Texts \cup {NoEntry}]
         /\ saved' \in [Files -> Texts] \cup {NoTree}
<1>1. \A f \in Files : Planned(f) \in Texts \cup {NoEntry}
  BY PlanTypes DEF StartFlush
<1>2. plans' = [f \in Files |-> Planned(f)]
  BY DEF StartFlush
<1>3. plans' \in [Files -> Texts \cup {NoEntry}]
  BY <1>1, <1>2
<1>4. saved' \in [Files -> Texts] \cup {NoTree}
  BY CheckpointTypes DEF StartFlush, TypeOK
<1> QED
  BY <1>3, <1>4 DEF StartFlush

(* A flush that is given up leaves the types alone. *)
LEMMA GiveUpTypes ==
  ASSUME TypeOK, NEW who, GiveUp(who)
  PROVE  /\ flush' = "none" /\ plans' \in [Files -> Texts \cup {NoEntry}]
         /\ entries' \in [Files -> Entry] /\ res' \in [1 .. N -> Results]
         /\ pc' \in {"next", "run", "rest", "done"} /\ at' = at
         /\ pending' \subseteq 1 .. N
<1>1. plans' \in [Files -> Texts \cup {NoEntry}]
  BY DEF GiveUp, NoPlans
<1>2. CASE who = "git"
  <2>1. res' \in [1 .. N -> Results]
    BY <1>2 DEF GiveUp, TypeOK, Results, Answered
  <2> QED
    BY <1>1, <1>2, <2>1 DEF GiveUp, TypeOK, Entry, sched
<1>3. CASE who # "git"
  <2>1. res' \in [1 .. N -> Results] /\ entries' \in [Files -> Entry]
    BY <1>3, RolledBackTypes, ForgetTypes DEF GiveUp
  <2> QED
    BY <1>1, <1>3, <2>1 DEF GiveUp, AfterBarrier, AfterFinal, TypeOK
<1> QED
  BY <1>2, <1>3

(* So does a flush that a conflict refuses. *)
LEMMA RefusedTypes ==
  ASSUME TypeOK, NEW who \in {"barrier", "final"}, Refused(who)
  PROVE  TypeOK'
<1>1. saved' \in [Files -> Texts] \cup {NoTree}
  BY CheckpointTypes DEF Refused, TypeOK
<1>2. GiveUp(who)
  BY DEF Refused
<1>3. UNCHANGED <<given, disk, flushed, seen, signal, edits, apart, fails>>
  BY DEF Refused, GiveUp
<1> QED
  BY <1>1, <1>2, <1>3, GiveUpTypes DEF TypeOK, Entry, given, N

(* Every step keeps the types, and an edit reads a file that is there. *)
LEMMA TypeStep ==
  ASSUME TypeOK, ReadsText, [Next]_vars
  PROVE  TypeOK' /\ ReadsText'
<1> USE BatchAssumption
<1>0. /\ NoFile \in Texts
      /\ \A i \in 1 .. N : /\ batch[i] \in Calls /\ Op(i) \in Ops /\ File(i) \in Files
                           /\ batch[i].at \in Regions /\ i \in Marks
      /\ N \in Nat
  BY CallTypes DEF TypeOK, Texts
<1>1. ASSUME NEW i \in 1 .. N, View(i) PROVE TypeOK' /\ ReadsText'
  <2>1. Overlay(File(i)) \in Texts
    BY <1>0, OverlayTypes
  <2>2. seen' = [seen EXCEPT ![i] = Overlay(File(i))] /\ seen' \in [1 .. N -> Texts]
    BY <1>1, <2>1 DEF View, TypeOK
  <2>3. res' \in [1 .. N -> Results]
    BY <1>1 DEF View, Answer, TypeOK, Results, Answered
  <2>4. UNCHANGED <<given, disk, log, safe, sched, world>>
    BY <1>1 DEF View
  <2>5. TypeOK'
    BY <2>2, <2>3, <2>4 DEF TypeOK, N, given, log, safe, sched, world
  <2>6. ReadsText'
    BY <1>1, <2>2, <2>4 DEF View, Answer, ReadsText, TypeOK, N, Op, given
  <2> QED
    BY <2>5, <2>6
<1>2. ASSUME NEW i \in 1 .. N, EditReads(i) PROVE TypeOK' /\ ReadsText'
  <2>1. Overlay(File(i)) \in Texts
    BY <1>0, OverlayTypes
  <2>2. seen' = [seen EXCEPT ![i] = Overlay(File(i))] /\ seen' \in [1 .. N -> Texts]
    BY <1>2, <2>1 DEF EditReads, TypeOK
  <2>3. res' \in [1 .. N -> Results]
    BY <1>2 DEF EditReads, Answer, TypeOK, Results, Answered
  <2>4. UNCHANGED <<given, disk, log, safe, sched, world>>
    BY <1>2 DEF EditReads
  <2>5. TypeOK'
    BY <2>2, <2>3, <2>4 DEF TypeOK, N, given, log, safe, sched, world
  <2>6. ReadsText'
    BY <1>2, <2>2, <2>4 DEF EditReads, Answer, ReadsText, TypeOK, N, Op, given
  <2> QED
    BY <2>5, <2>6
<1>3. ASSUME NEW i \in 1 .. N, EditStages(i) PROVE TypeOK' /\ ReadsText'
  <2>1. seen[i] \in [Regions -> Marks]
    BY <1>3 DEF EditStages, ReadsText, TypeOK, Texts
  <2>2. [seen[i] EXCEPT ![batch[i].at] = i] \in Texts
    BY <1>0, <2>1, LineTypes
  <2>3. entries' \in [Files -> Entry]
    BY <1>0, <1>3, <2>2, StageTypes DEF EditStages
  <2>4. res' \in [1 .. N -> Results]
    BY <1>3 DEF EditStages, Answer, TypeOK, Results, Answered
  <2>5. UNCHANGED <<given, disk, plans, flush, safe, sched, seen, world>>
    BY <1>3 DEF EditStages
  <2>6. TypeOK'
    BY <2>3, <2>4, <2>5 DEF TypeOK, Entry, N, given, safe, sched, world
  <2>7. ReadsText'
    BY <1>3, <2>5 DEF EditStages, Answer, ReadsText, TypeOK, N, Op, given
  <2> QED
    BY <2>6, <2>7
<1>4. ASSUME NEW i \in 1 .. N, EditMisses(i) PROVE TypeOK' /\ ReadsText'
  BY <1>4
     DEF EditMisses, Answer, Results, Answered, TypeOK, ReadsText, N, Op, given, log, safe,
         sched, world
<1>5. ASSUME NEW i \in 1 .. N, WriteOrDelete(i) PROVE TypeOK' /\ ReadsText'
  <2>1. (IF Op(i) = "write" THEN [r \in Regions |-> i] ELSE NoFile) \in Texts
    BY <1>0, WholeTypes
  <2>2. entries' \in [Files -> Entry]
    BY <1>0, <1>5, <2>1, StageTypes DEF WriteOrDelete
  <2>3. res' \in [1 .. N -> Results]
    BY <1>5 DEF WriteOrDelete, Answer, TypeOK, Results, Answered
  <2>4. UNCHANGED <<given, disk, plans, flush, safe, sched, seen, world>>
    BY <1>5 DEF WriteOrDelete
  <2>5. TypeOK'
    BY <2>2, <2>3, <2>4 DEF TypeOK, Entry, N, given, safe, sched, world
  <2>6. ReadsText'
    BY <1>5, <2>4 DEF WriteOrDelete, Answer, ReadsText, TypeOK, N, Op, given
  <2> QED
    BY <2>5, <2>6
<1>6. ASSUME NEW i \in 1 .. N, Shell(i) PROVE TypeOK' /\ ReadsText'
  <2>1. disk[File(i)] \in Texts /\ ShellText(i, disk[File(i)]) \in Texts
    BY <1>0, ShellTypes DEF TypeOK
  <2>2. disk' \in [Files -> Texts] /\ seen' \in [1 .. N -> Texts]
    BY <1>6, <2>1 DEF Shell, TypeOK
  <2>3. res' \in [1 .. N -> Results]
    BY <1>6 DEF Shell, Answer, TypeOK, Results, Answered
  <2>4. UNCHANGED <<given, log, safe, sched, world>>
    BY <1>6 DEF Shell
  <2>5. TypeOK'
    BY <2>2, <2>3, <2>4 DEF TypeOK, N, given, log, safe, sched, world
  <2>6. ReadsText'
    BY <1>6, <2>4 DEF Shell, Answer, Barrier, ReadsText, TypeOK, N, Op, given
  <2> QED
    BY <2>5, <2>6
<1>7. ASSUME NEW i \in 1 .. N, GitLooks(i) PROVE TypeOK' /\ ReadsText'
  <2>1. seen' \in [1 .. N -> Texts]
    BY <1>0, <1>7 DEF GitLooks, TypeOK
  <2>2. res' \in [1 .. N -> Results]
    BY <1>7 DEF GitLooks, Answer, TypeOK, Results, Answered
  <2>3. UNCHANGED <<given, disk, log, safe, sched, world>>
    BY <1>7 DEF GitLooks
  <2>4. TypeOK'
    BY <2>1, <2>2, <2>3 DEF TypeOK, N, given, log, safe, sched, world
  <2>5. ReadsText'
    BY <1>7, <2>3 DEF GitLooks, Answer, ReadsText, TypeOK, N, Op, given
  <2> QED
    BY <2>4, <2>5
<1>8. ASSUME NEW i \in 1 .. N, GitFlushes(i) PROVE TypeOK' /\ ReadsText'
  <2>1. /\ flush' \in {"none", "barrier", "git", "final"}
        /\ plans' \in [Files -> Texts \cup {NoEntry}]
        /\ saved' \in [Files -> Texts] \cup {NoTree}
    BY <1>8, StartFlushTypes DEF GitFlushes
  <2>2. res' \in [1 .. N -> Results]
    BY <1>8 DEF GitFlushes, Answer, TypeOK, Results, Answered
  <2>3. UNCHANGED <<given, disk, entries, flushed, pc, at, pending, seen, world>>
    BY <1>8 DEF GitFlushes, StartFlush
  <2>4. TypeOK'
    BY <2>1, <2>2, <2>3 DEF TypeOK, N, given, world
  <2>5. ReadsText'
    BY <1>8, <2>3 DEF GitFlushes, Answer, ReadsText, TypeOK, N, Op, given
  <2> QED
    BY <2>4, <2>5
<1>9. ASSUME NEW i \in 1 .. N, GitRefused(i) PROVE TypeOK' /\ ReadsText'
  <2>1. saved' \in [Files -> Texts] \cup {NoTree}
    BY <1>9, CheckpointTypes DEF GitRefused
  <2>2. res' \in [1 .. N -> Results]
    BY <1>9 DEF GitRefused, Answer, TypeOK, Results, Answered
  <2>3. UNCHANGED <<given, disk, log, flushed, sched, seen, world>>
    BY <1>9 DEF GitRefused
  <2>4. TypeOK'
    BY <2>1, <2>2, <2>3 DEF TypeOK, N, given, log, sched, world
  <2>5. ReadsText'
    BY <1>9, <2>3 DEF GitRefused, Answer, ReadsText, TypeOK, N, Op, given
  <2> QED
    BY <2>4, <2>5
<1>10. ASSUME NEW f \in Files, ApplyPlan(f) PROVE TypeOK' /\ ReadsText'
  <2>1. plans[f] \in Texts
    BY <1>10 DEF ApplyPlan, TypeOK
  <2>2. disk' \in [Files -> Texts] /\ plans' \in [Files -> Texts \cup {NoEntry}]
    BY <1>10, <2>1 DEF ApplyPlan, TypeOK
  <2>3. UNCHANGED <<given, entries, flush, safe, sched, res, seen, world>>
    BY <1>10 DEF ApplyPlan
  <2> QED
    BY <2>2, <2>3 DEF TypeOK, ReadsText, N, Op, given, safe, sched, world
<1>11. ASSUME NEW f \in Files, NEW r \in Regions, Edit(f, r) PROVE TypeOK' /\ ReadsText'
  <2>1. -edits' \in Marks /\ edits' \in 0 .. MaxEdits
    BY <1>11 DEF Edit, TypeOK, Marks
  <2>2. disk[f] \in [Regions -> Marks]
    BY <1>11 DEF Edit, TypeOK, Texts
  <2>3. [disk[f] EXCEPT ![r] = -edits'] \in Texts
    BY <2>1, <2>2, LineTypes
  <2>4. disk' = [disk EXCEPT ![f] = [disk[f] EXCEPT ![r] = -edits']]
    BY <1>11 DEF Edit
  <2>5. disk' \in [Files -> Texts]
    BY <2>3, <2>4 DEF TypeOK
  <2>6. apart' \subseteq Files \X Regions \X Marks
    BY <1>11, <2>1 DEF Edit, TypeOK
  <2>7. UNCHANGED <<given, log, safe, sched, res, seen, signal, fails>>
    BY <1>11 DEF Edit
  <2> QED
    BY <2>1, <2>5, <2>6, <2>7 DEF TypeOK, ReadsText, N, Op, given, log, safe, sched
<1>12. CASE ApplyFails
  <2>1. GiveUp(flush) /\ UNCHANGED saved /\ fails' \in 0 .. MaxFails
    BY <1>12 DEF ApplyFails, TypeOK
  <2>2. UNCHANGED <<given, disk, flushed, seen, signal, edits, apart, saved>>
    BY <2>1 DEF GiveUp
  <2>3. TypeOK'
    BY <2>1, <2>2, GiveUpTypes DEF TypeOK, Entry, N, given
  <2>4. ReadsText'
    BY <2>1, <2>2 DEF GiveUp, RolledBack, ReadsText, TypeOK, N, Op, given
  <2> QED
    BY <2>3, <2>4
<1>13. CASE FlushDone
  <2>1. entries' \in [Files -> Entry] /\ flushed' \in BOOLEAN /\ flush' = "none"
    BY <1>13, ForgetTypes DEF FlushDone, TypeOK
  <2>2. /\ res' \in [1 .. N -> Results] /\ seen' \in [1 .. N -> Texts]
        /\ \A i \in 1 .. N : res'[i] = "reading" => res[i] = "reading" /\ seen'[i] = seen[i]
    <3>1. CASE flush = "git"
      <4>1. /\ res' = [i \in 1 .. N |-> IF res[i] = "reading" THEN "ok" ELSE res[i]]
            /\ seen' = [i \in 1 .. N |-> IF res[i] = "reading" THEN disk[File(i)] ELSE seen[i]]
        BY <1>13, <3>1 DEF FlushDone
      <4>2. res' \in [1 .. N -> Results] /\ \A i \in 1 .. N : res'[i] # "reading"
        BY <4>1 DEF TypeOK, Results, Answered
      <4>3. \A i \in 1 .. N : disk[File(i)] \in Texts /\ seen[i] \in Texts
        BY <1>0 DEF TypeOK
      <4>4. seen' \in [1 .. N -> Texts]
        BY <4>1, <4>3
      <4> QED
        BY <4>2, <4>4
    <3>2. CASE flush # "git"
      BY <1>13, <3>2 DEF FlushDone, TypeOK
    <3> QED
      BY <3>1, <3>2
  <2>3. /\ pc' \in {"next", "run", "rest", "done"} /\ at' = at
        /\ pending' \subseteq 1 .. N
    BY <1>13 DEF FlushDone, AfterBarrier, AfterFinal, TypeOK, sched
  <2>4. UNCHANGED <<given, disk, plans, saved, world>>
    BY <1>13 DEF FlushDone
  <2>5. TypeOK'
    BY <2>1, <2>2, <2>3, <2>4 DEF TypeOK, Entry, N, given, world
  <2>6. ReadsText'
    BY <2>2, <2>4 DEF ReadsText, N, Op, given
  <2> QED
    BY <2>5, <2>6
<1>14. CASE StartIsland
  <2>1. CASE StartFlush("barrier") /\ UNCHANGED res
    <3>1. UNCHANGED <<given, disk, entries, flushed, pc, at, pending, seen, world, res>>
      BY <2>1 DEF StartFlush
    <3> QED
      BY <2>1, <3>1, StartFlushTypes DEF TypeOK, ReadsText, N, Op, given, world
  <2>2. CASE Refused("barrier")
    <3>1. TypeOK'
      BY <2>2, RefusedTypes
    <3>2. ReadsText'
      BY <2>2 DEF Refused, GiveUp, RolledBack, ReadsText, TypeOK, N, Op, given
    <3> QED
      BY <3>1, <3>2
  <2>3. CASE /\ pc' \in {"run", "done"}
             /\ UNCHANGED <<given, disk, log, safe, at, pending, res, seen, world>>
    BY <2>3 DEF TypeOK, ReadsText, N, Op, given, log, safe, world
  <2> QED
    BY <1>14, <2>1, <2>2, <2>3 DEF StartIsland
<1>15. CASE EndBatch
  <2>1. CASE StartFlush("final") /\ UNCHANGED res
    <3>1. UNCHANGED <<given, disk, entries, flushed, pc, at, pending, seen, world, res>>
      BY <2>1 DEF StartFlush
    <3> QED
      BY <2>1, <3>1, StartFlushTypes DEF TypeOK, ReadsText, N, Op, given, world
  <2>2. CASE Refused("final")
    <3>1. TypeOK'
      BY <2>2, RefusedTypes
    <3>2. ReadsText'
      BY <2>2 DEF Refused, GiveUp, RolledBack, ReadsText, TypeOK, N, Op, given
    <3> QED
      BY <3>1, <3>2
  <2>3. CASE /\ pc' \in {"run", "done"}
             /\ UNCHANGED <<given, disk, log, safe, at, pending, res, seen, world>>
    BY <2>3 DEF TypeOK, ReadsText, N, Op, given, log, safe, world
  <2> QED
    BY <1>15, <2>1, <2>2, <2>3 DEF EndBatch
<1>16. CASE EndIsland
  <2>1. at' \in 1 .. N + 1
    BY <1>0, <1>16 DEF EndIsland, TypeOK
  <2>2. pending' \subseteq 1 .. N
    BY <1>16 DEF EndIsland, TypeOK, Island
  <2> QED
    BY <1>16, <2>1, <2>2 DEF EndIsland, TypeOK, ReadsText, N, Op, given, log, safe, world
<1>17. CASE Abandon
  <2>1. \A f \in Files : Restored(f) \in Texts
    BY <1>0, CommittedTypes DEF Restored, TypeOK
  <2>2. disk' \in [Files -> Texts] /\ flushed' \in BOOLEAN
    <3>1. CASE flushed /\ saved # NoTree
      BY <1>17, <2>1, <3>1 DEF Abandon
    <3>2. CASE ~(flushed /\ saved # NoTree)
      BY <1>17, <3>2 DEF Abandon, TypeOK
    <3> QED
      BY <3>1, <3>2
  <2>3. entries' \in [Files -> Entry] /\ res' \in [1 .. N -> Results]
    BY <1>17, ForgetTypes, RolledBackTypes DEF Abandon
  <2>4. pc' = "rest" /\ UNCHANGED <<given, plans, flush, saved, at, pending, seen, world>>
    BY <1>17 DEF Abandon
  <2>5. TypeOK'
    BY <2>2, <2>3, <2>4 DEF TypeOK, Entry, N, given, world
  <2>6. ReadsText'
    BY <1>17, <2>4 DEF Abandon, RolledBack, ReadsText, TypeOK, N, Op, given
  <2> QED
    BY <2>5, <2>6
<1>18. CASE EndRest
  BY <1>18 DEF EndRest, TypeOK, ReadsText, N, Op, given, log, safe, sched, world
<1>19. CASE Abort
  BY <1>19 DEF Abort, TypeOK, ReadsText, N, Op, given, log, safe, sched, world
<1>20. CASE UNCHANGED vars
  BY <1>20 DEF vars, TypeOK, ReadsText, N, Op
<1> QED
  BY <1>1, <1>2, <1>3, <1>4, <1>5, <1>6, <1>7, <1>8, <1>9, <1>10, <1>11, <1>12, <1>13,
     <1>14, <1>15, <1>16, <1>17, <1>18, <1>19, <1>20
     DEF Next, Finished

-----------------------------------------------------------------------------
(* Where the mark of a call comes from. *)

(* No file, no mark. *)
LEMMA HasNothing == ASSUME NEW i PROVE ~Has(NoFile, i) /\ ~Has(NoEntry, i)
BY DEF Has

(* A text written anew has its writer's mark only. *)
LEMMA HasWhole ==
  ASSUME NEW i, NEW k, Has([r \in Regions |-> k], i)
  PROVE  i = k
BY DEF Has

(* A changed line brings in the mark of the call that changes it only. *)
LEMMA HasLine ==
  ASSUME NEW x \in Texts, x # NoFile, NEW a \in Regions, NEW k, NEW i,
         Has([x EXCEPT ![a] = k], i)
  PROVE  i = k \/ Has(x, i)
<1>1. PICK r \in Regions : [x EXCEPT ![a] = k][r] = i
  BY DEF Has
<1>2. x \in [Regions -> Marks] /\ x # NoEntry
  BY BatchAssumption DEF Texts
<1>3. i = k \/ x[r] = i
  BY <1>1, <1>2
<1> QED
  BY <1>2, <1>3 DEF Has

(* A merge brings in no mark that neither side has. *)
LEMMA HasMerged ==
  ASSUME NEW b, NEW s \in Texts \ {NoFile}, NEW d \in Texts \ {NoFile}, NEW i,
         Has(Merged(b, s, d), i)
  PROVE  Has(s, i) \/ Has(d, i)
<1>1. PICK r \in Regions : Merged(b, s, d)[r] = i
  BY DEF Has
<1>2. s[r] = i \/ d[r] = i
  BY <1>1 DEF Merged
<1>3. s # NoEntry /\ d # NoEntry
  BY BatchAssumption
<1> QED
  BY <1>2, <1>3 DEF Has

(* What a flush writes has the marks of the disk and of the log. *)
LEMMA HasPlanned ==
  ASSUME TypeOK, NEW f \in Files, ~Conflict(f), NEW i, Has(Planned(f), i)
  PROVE  Has(disk[f], i) \/ (entries[f] # NoEntry /\ Has(entries[f].staged, i))
<1> DEFINE b == entries[f].base
           s == entries[f].staged
           d == disk[f]
<1>1. entries[f] # NoEntry
  BY HasNothing DEF Planned
<1>2. s \in Texts /\ d \in Texts /\ b \in Texts
  BY <1>1 DEF TypeOK
<1>3. CASE Planned(f) = s
  BY <1>1, <1>3
<1>4. CASE s # NoFile /\ d # b /\ d # s /\ Planned(f) = Merged(b, s, d)
  <2>1. d # NoFile
    BY <1>1, <1>4, HasNothing DEF Planned
  <2> QED
    BY <1>1, <1>2, <1>4, <2>1, HasMerged
<1>5. CASE Planned(f) = NoEntry
  BY <1>5, HasNothing
<1> QED
  BY <1>3, <1>4, <1>5 DEF Planned

(* A shell command brings in its own mark only. *)
LEMMA HasShell ==
  ASSUME NEW k \in 1 .. N, batch \in Batches, NEW x \in Texts, NEW i, Has(ShellText(k, x), i)
  PROVE  i = k \/ Has(x, i)
<1>1. batch[k].at \in Regions
  BY CallTypes
<1>2. Op(k) # "rm"
  BY HasNothing DEF ShellText
<1>3. CASE x = NoFile
  BY <1>2, <1>3, HasWhole DEF ShellText
<1>4. CASE x # NoFile
  BY <1>1, <1>2, <1>4, HasLine DEF ShellText
<1> QED
  BY <1>3, <1>4

(* A restore brings in no mark. *)
LEMMA HasRestored ==
  ASSUME NEW f \in Files, NEW i \in 1 .. N, N \in Nat, Has(Restored(f), i)
  PROVE  Has(disk[f], i)
<1>1. ~Has(NoFile, i)
  BY HasNothing
<1>2. ASSUME f \in Tracked, Has(Committed[f], i) PROVE FALSE
  <2>1. Committed[f] = [r \in Regions |-> Old]
    BY <1>2 DEF Committed
  <2>2. i = Old
    BY <1>2, <2>1, HasWhole
  <2> QED
    BY <2>2 DEF Old
<1> QED
  BY <1>1, <1>2 DEF Restored

(* A tool reads the marks of the disk or of the log. *)
LEMMA HasOverlay ==
  ASSUME NEW f \in Files, NEW i, Has(Overlay(f), i)
  PROVE  Has(disk[f], i) \/ (entries[f] # NoEntry /\ Has(entries[f].staged, i))
BY DEF Overlay

(* The list of calls and the islands stay, and a failed write is not forgotten. *)
LEMMA GivenStep ==
  ASSUME TypeOK, [Next]_vars
  PROVE  UNCHANGED given /\ (fails' = 0 => fails = 0)
<1>1. ASSUME NEW i \in 1 .. N, View(i) PROVE UNCHANGED given /\ (fails' = 0 => fails = 0)
  BY <1>1 DEF View, TypeOK, given, world
<1>2. ASSUME NEW i \in 1 .. N, EditReads(i) PROVE UNCHANGED given /\ (fails' = 0 => fails = 0)
  BY <1>2 DEF EditReads, TypeOK, given, world
<1>3. ASSUME NEW i \in 1 .. N, EditStages(i) PROVE UNCHANGED given /\ (fails' = 0 => fails = 0)
  BY <1>3 DEF EditStages, TypeOK, given, world
<1>4. ASSUME NEW i \in 1 .. N, EditMisses(i) PROVE UNCHANGED given /\ (fails' = 0 => fails = 0)
  BY <1>4 DEF EditMisses, TypeOK, given, world
<1>5. ASSUME NEW i \in 1 .. N, WriteOrDelete(i)
      PROVE UNCHANGED given /\ (fails' = 0 => fails = 0)
  BY <1>5 DEF WriteOrDelete, TypeOK, given, world
<1>6. ASSUME NEW i \in 1 .. N, Shell(i) PROVE UNCHANGED given /\ (fails' = 0 => fails = 0)
  BY <1>6 DEF Shell, TypeOK, given, world
<1>7. ASSUME NEW i \in 1 .. N, GitLooks(i) PROVE UNCHANGED given /\ (fails' = 0 => fails = 0)
  BY <1>7 DEF GitLooks, TypeOK, given, world
<1>8. ASSUME NEW i \in 1 .. N, GitFlushes(i) PROVE UNCHANGED given /\ (fails' = 0 => fails = 0)
  BY <1>8 DEF GitFlushes, StartFlush, TypeOK, given, world
<1>9. ASSUME NEW i \in 1 .. N, GitRefused(i) PROVE UNCHANGED given /\ (fails' = 0 => fails = 0)
  BY <1>9 DEF GitRefused, TypeOK, given, world
<1>10. ASSUME NEW f \in Files, ApplyPlan(f) PROVE UNCHANGED given /\ (fails' = 0 => fails = 0)
  BY <1>10 DEF ApplyPlan, TypeOK, given, world
<1>11. ASSUME NEW f \in Files, NEW r \in Regions, Edit(f, r)
       PROVE UNCHANGED given /\ (fails' = 0 => fails = 0)
  BY <1>11 DEF Edit, TypeOK, given, world
<1>12. CASE ApplyFails
  BY <1>12 DEF ApplyFails, GiveUp, TypeOK, given, world
<1>13. CASE FlushDone
  BY <1>13 DEF FlushDone, TypeOK, given, world
<1>14. CASE StartIsland
  BY <1>14 DEF StartIsland, StartFlush, Refused, GiveUp, TypeOK, given, world
<1>15. CASE EndIsland
  BY <1>15 DEF EndIsland, TypeOK, given, world
<1>16. CASE EndBatch
  BY <1>16 DEF EndBatch, StartFlush, Refused, GiveUp, TypeOK, given, world
<1>17. CASE Abandon
  BY <1>17 DEF Abandon, TypeOK, given, world
<1>18. CASE EndRest
  BY <1>18 DEF EndRest, TypeOK, given, world
<1>19. CASE Abort
  BY <1>19 DEF Abort, TypeOK, given, world
<1>20. CASE UNCHANGED vars
  BY <1>20 DEF vars, TypeOK, given, world
<1> QED
  BY <1>1, <1>2, <1>3, <1>4, <1>5, <1>6, <1>7, <1>8, <1>9, <1>10, <1>11, <1>12, <1>13,
     <1>14, <1>15, <1>16, <1>17, <1>18, <1>19, <1>20
     DEF Next, Finished

(* A flush is the scheduler's, and ends with its plans. *)
LEMMA PhaseStep ==
  ASSUME TypeOK, Phase, BarriersOnly, fails' = 0, fails = 0, [Next]_vars
  PROVE  Phase'
<1>1. ASSUME NEW i \in 1 .. N, View(i) PROVE Phase'
  BY <1>1 DEF View, Phase, log, sched
<1>2. ASSUME NEW i \in 1 .. N, EditReads(i) PROVE Phase'
  BY <1>2 DEF EditReads, Phase, log, sched
<1>3. ASSUME NEW i \in 1 .. N, EditStages(i) PROVE Phase'
  BY <1>3 DEF EditStages, Phase, log, sched
<1>4. ASSUME NEW i \in 1 .. N, EditMisses(i) PROVE Phase'
  BY <1>4 DEF EditMisses, Phase, log, sched
<1>5. ASSUME NEW i \in 1 .. N, WriteOrDelete(i) PROVE Phase'
  BY <1>5 DEF WriteOrDelete, Phase, log, sched
<1>6. ASSUME NEW i \in 1 .. N, Shell(i) PROVE Phase'
  BY <1>6 DEF Shell, Phase, log, sched
<1>7. ASSUME NEW i \in 1 .. N, GitLooks(i) PROVE Phase'
  BY <1>7 DEF GitLooks, BarriersOnly
<1>8. ASSUME NEW i \in 1 .. N, GitFlushes(i) PROVE Phase'
  BY <1>8 DEF GitFlushes, BarriersOnly
<1>9. ASSUME NEW i \in 1 .. N, GitRefused(i) PROVE Phase'
  BY <1>9 DEF GitRefused, BarriersOnly
<1>10. ASSUME NEW f \in Files, ApplyPlan(f) PROVE Phase'
  BY <1>10 DEF ApplyPlan, Phase, log, sched
<1>11. ASSUME NEW f \in Files, NEW r \in Regions, Edit(f, r) PROVE Phase'
  BY <1>11 DEF Edit, Phase, log, sched
<1>12. CASE ApplyFails
  BY <1>12 DEF ApplyFails, TypeOK
<1>13. CASE FlushDone
  BY <1>13 DEF FlushDone, AfterBarrier, AfterFinal, Forget, Phase, log, sched
<1>14. CASE StartIsland
  BY <1>14 DEF StartIsland, StartFlush, Refused, GiveUp, AfterBarrier, NoPlans, Phase, log
<1>15. CASE EndIsland
  BY <1>15 DEF EndIsland, Phase, log, sched
<1>16. CASE EndBatch
  BY <1>16 DEF EndBatch, StartFlush, Refused, GiveUp, AfterFinal, NoPlans, Phase, log
<1>17. CASE Abandon
  BY <1>17 DEF Abandon, Phase, log, sched
<1>18. CASE EndRest
  BY <1>18 DEF EndRest, Phase, log, sched
<1>19. CASE Abort
  BY <1>19 DEF Abort, Phase, log, sched
<1>20. CASE UNCHANGED vars
  BY <1>20 DEF vars, Phase, log, sched
<1> QED
  BY <1>1, <1>2, <1>3, <1>4, <1>5, <1>6, <1>7, <1>8, <1>9, <1>10, <1>11, <1>12, <1>13,
     <1>14, <1>15, <1>16, <1>17, <1>18, <1>19, <1>20
     DEF Next, Finished

(* Calls start with their island. *)
LEMMA OrderStep ==
  ASSUME TypeOK, Phase, Order, BarriersOnly, fails' = 0, fails = 0, [Next]_vars, UNCHANGED given
  PROVE  Order'
<1>0. /\ N' = N /\ N \in Nat /\ \A i \in 1 .. N : Op(i)' = Op(i)
      /\ \A s \in 1 .. N + 1 : Island(s)' = Island(s)
      /\ at \in 1 .. N + 1 /\ \A i \in 1 .. N : res[i] \in Results
  BY CallTypes DEF given, N, Op, Island, TypeOK
<1>1. ASSUME NEW i \in 1 .. N, View(i) PROVE Order'
  BY <1>0, <1>1 DEF View, Answer, Ready, sched, Order, TypeOK
<1>2. ASSUME NEW i \in 1 .. N, EditReads(i) PROVE Order'
  BY <1>0, <1>2 DEF EditReads, Answer, Ready, sched, Order, TypeOK
<1>3. ASSUME NEW i \in 1 .. N, EditStages(i) PROVE Order'
  BY <1>0, <1>3 DEF EditStages, Answer, Ready, sched, Order, TypeOK
<1>4. ASSUME NEW i \in 1 .. N, EditMisses(i) PROVE Order'
  BY <1>0, <1>4 DEF EditMisses, Answer, Ready, sched, Order, TypeOK
<1>5. ASSUME NEW i \in 1 .. N, WriteOrDelete(i) PROVE Order'
  BY <1>0, <1>5 DEF WriteOrDelete, Answer, Ready, sched, Order, TypeOK
<1>6. ASSUME NEW i \in 1 .. N, Shell(i) PROVE Order'
  BY <1>0, <1>6 DEF Shell, Answer, Ready, sched, Order, TypeOK
<1>7. ASSUME NEW i \in 1 .. N, GitLooks(i) PROVE Order'
  BY <1>7 DEF GitLooks, BarriersOnly
<1>8. ASSUME NEW i \in 1 .. N, GitFlushes(i) PROVE Order'
  BY <1>8 DEF GitFlushes, BarriersOnly
<1>9. ASSUME NEW i \in 1 .. N, GitRefused(i) PROVE Order'
  BY <1>9 DEF GitRefused, BarriersOnly
<1>10. ASSUME NEW f \in Files, ApplyPlan(f) PROVE Order'
  BY <1>0, <1>10 DEF ApplyPlan, sched, Order, TypeOK
<1>11. ASSUME NEW f \in Files, NEW r \in Regions, Edit(f, r) PROVE Order'
  BY <1>0, <1>11 DEF Edit, sched, Order, TypeOK
<1>12. CASE ApplyFails
  BY <1>12 DEF ApplyFails, TypeOK
<1>13. CASE FlushDone
  BY <1>0, <1>13 DEF FlushDone, AfterBarrier, AfterFinal, Phase, Order, TypeOK
<1>14. CASE StartIsland
  BY <1>0, <1>14
     DEF StartIsland, StartFlush, Refused, GiveUp, AfterBarrier, RolledBack, Answered,
         Order, TypeOK
<1>15. CASE EndIsland
  <2>1. PICK s \in at + 1 .. N + 1 : Island(at) = at .. s - 1 /\ at' = s
    BY <1>15 DEF EndIsland
  <2>2. pc = "run" /\ pc' = "next" /\ res' = res /\ \A i \in Island(at) : res[i] \in Answered
    BY <1>15 DEF EndIsland
  <2>3. ASSUME NEW i \in 1 .. N, i >= at' PROVE res'[i] = "none"
    <3>1. i >= at /\ i \notin Island(at)
      BY <1>0, <2>1, <2>3
    <3> QED
      BY <2>2, <3>1 DEF Order
  <2>4. ASSUME NEW i \in 1 .. N PROVE res'[i] # "reading"
    BY <2>2 DEF Order, Answered
  <2> QED
    BY <1>0, <2>2, <2>3, <2>4 DEF Order
<1>16. CASE EndBatch
  BY <1>0, <1>16
     DEF EndBatch, StartFlush, Refused, GiveUp, AfterFinal, RolledBack, Order, TypeOK
<1>17. CASE Abandon
  BY <1>0, <1>17 DEF Abandon, RolledBack, Order, TypeOK
<1>18. CASE EndRest
  BY <1>0, <1>18 DEF EndRest, Answered, Order, TypeOK
<1>19. CASE Abort
  BY <1>0, <1>19 DEF Abort, sched, Order, TypeOK
<1>20. CASE UNCHANGED vars
  BY <1>0, <1>20 DEF vars, Order
<1> QED
  BY <1>1, <1>2, <1>3, <1>4, <1>5, <1>6, <1>7, <1>8, <1>9, <1>10, <1>11, <1>12, <1>13,
     <1>14, <1>15, <1>16, <1>17, <1>18, <1>19, <1>20
     DEF Next, Finished

(* Only calls that declare their files are in an island with a write. *)
LEMMA WaitingStep ==
  ASSUME TypeOK, Partition(starts), Waiting, [Next]_vars, UNCHANGED given
  PROVE  Waiting'
<1>0. N \in Nat /\ at \in 1 .. N + 1 /\ (\A i \in 1 .. N : Declared(i)' = Declared(i))
      /\ pending \subseteq 1 .. N
  BY CallTypes DEF given, N, Op, Declared, TypeOK
<1>1. ASSUME NEW i \in 1 .. N, View(i) PROVE Waiting'
  BY <1>0, <1>1 DEF View, Waiting, sched
<1>2. ASSUME NEW i \in 1 .. N, EditReads(i) PROVE Waiting'
  BY <1>0, <1>2 DEF EditReads, Waiting, sched
<1>3. ASSUME NEW i \in 1 .. N, EditStages(i) PROVE Waiting'
  BY <1>0, <1>3 DEF EditStages, Waiting, sched
<1>4. ASSUME NEW i \in 1 .. N, EditMisses(i) PROVE Waiting'
  BY <1>0, <1>4 DEF EditMisses, Waiting, sched
<1>5. ASSUME NEW i \in 1 .. N, WriteOrDelete(i) PROVE Waiting'
  BY <1>0, <1>5 DEF WriteOrDelete, Waiting, sched
<1>6. ASSUME NEW i \in 1 .. N, Shell(i) PROVE Waiting'
  BY <1>0, <1>6 DEF Shell, Waiting, sched
<1>7. ASSUME NEW i \in 1 .. N, GitLooks(i) PROVE Waiting'
  BY <1>0, <1>7 DEF GitLooks, Waiting, sched
<1>8. ASSUME NEW i \in 1 .. N, GitFlushes(i) PROVE Waiting'
  BY <1>0, <1>8 DEF GitFlushes, StartFlush, Waiting, sched
<1>9. ASSUME NEW i \in 1 .. N, GitRefused(i) PROVE Waiting'
  BY <1>0, <1>9 DEF GitRefused, Waiting, sched
<1>10. ASSUME NEW f \in Files, ApplyPlan(f) PROVE Waiting'
  BY <1>0, <1>10 DEF ApplyPlan, Waiting, sched
<1>11. ASSUME NEW f \in Files, NEW r \in Regions, Edit(f, r) PROVE Waiting'
  BY <1>0, <1>11 DEF Edit, Waiting, sched
<1>12. CASE ApplyFails
  BY <1>0, <1>12 DEF ApplyFails, GiveUp, AfterBarrier, AfterFinal, sched, Waiting, sched
<1>13. CASE FlushDone
  <2>1. pending' = pending \/ pending' = {}
    BY <1>13 DEF FlushDone, AfterBarrier, AfterFinal, sched, TypeOK
  <2> QED
    BY <1>0, <2>1 DEF Waiting
<1>14. CASE StartIsland
  BY <1>0, <1>14 DEF StartIsland, StartFlush, Refused, GiveUp, AfterBarrier, Waiting, sched
<1>15. CASE EndIsland
  <2>1. CASE pending' = pending
    BY <1>0, <2>1 DEF Waiting
  <2>2. CASE pending' = pending \cup Island(at) /\ \E i \in Island(at) : Writes(i)
    <3>1. PICK k \in Island(at) : Writes(k)
      BY <2>2
    <3>2. Declared(k)
      BY <3>1 DEF Writes, Declared
    <3>3. ASSUME NEW i \in Island(at) PROVE Declared(i)
      <4>1. i \in Nat /\ k \in Nat
        BY <1>0 DEF Island
      <4>2. CASE i = k
        BY <3>2, <4>2
      <4>3. CASE i < k
        BY <1>0, <4>3, IslandsApart
      <4>4. CASE k < i
        BY <1>0, <4>4, IslandsApart
      <4> QED
        BY <4>1, <4>2, <4>3, <4>4
    <3>4. Island(at) \subseteq 1 .. N
      BY <1>0 DEF Island
    <3> QED
      BY <1>0, <2>2, <3>3, <3>4 DEF Waiting
  <2> QED
    BY <1>15, <2>1, <2>2 DEF EndIsland
<1>16. CASE EndBatch
  BY <1>0, <1>16 DEF EndBatch, StartFlush, Refused, GiveUp, AfterFinal, Waiting, sched
<1>17. CASE Abandon
  BY <1>0, <1>17 DEF Abandon, Waiting, sched
<1>18. CASE EndRest
  BY <1>0, <1>18 DEF EndRest, Waiting, sched
<1>19. CASE Abort
  BY <1>0, <1>19 DEF Abort, Waiting, sched
<1>20. CASE UNCHANGED vars
  BY <1>0, <1>20 DEF vars, Waiting
<1> QED
  BY <1>1, <1>2, <1>3, <1>4, <1>5, <1>6, <1>7, <1>8, <1>9, <1>10, <1>11, <1>12, <1>13,
     <1>14, <1>15, <1>16, <1>17, <1>18, <1>19, <1>20
     DEF Next, Finished

(* When the writes that wait are rolled back, their marks are gone: they were not
   on disk yet, and the log is emptied. *)
LEMMA RollBackCleans ==
  ASSUME TypeOK, Kept, flush = "none", pc = "next", N' = N,
         Forget, \A f \in Files : plans'[f] = NoEntry, UNCHANGED seen,
         res' = RolledBack(pending), NEW i \in 1 .. N, res'[i] # "ok" \/ Op(i) = "view",
         \A f \in Files : Has(disk'[f], i) => Has(disk[f], i)
  PROVE  Clean(i)'
<1>1. \A j \in 1 .. N : res[j] # "reading" /\ res'[j] # "reading"
  BY DEF Kept, Order, RolledBack
<1>2. ASSUME NEW f \in Files PROVE ~Has(disk[f], i)
  <2>1. CASE res[i] # "ok" \/ Op(i) = "view"
    BY <2>1 DEF Kept, Absence, Clean
  <2>2. CASE res[i] = "ok" /\ Op(i) # "view"
    <3>1. i \in pending
      BY <2>2 DEF RolledBack
    <3>2. Writes(i)
      BY <2>2, <3>1 DEF Kept, Waiting, Declared, Writes
    <3> QED
      BY <3>1, <3>2 DEF Kept, HeldBack
  <2> QED
    BY <2>1, <2>2
<1>3. \A f \in Files : ~Has(plans'[f], i) /\ entries'[f] = NoEntry
  BY HasNothing DEF Forget
<1> QED
  BY <1>1, <1>2, <1>3 DEF Clean

(* A mark comes to the disk, the log or a hand by its own call only. *)
LEMMA AbsenceStep ==
  ASSUME TypeOK, ReadsText, Kept, BarriersOnly, fails' = 0, fails = 0, [Next]_vars, UNCHANGED given
  PROVE  Absence'
<1>0. /\ N' = N /\ N \in Nat
      /\ \A i \in 1 .. N : /\ Op(i)' = Op(i) /\ File(i) \in Files /\ batch[i].at \in Regions
      /\ \A f \in Files : disk[f] \in Texts
      /\ \A i : ~Has(NoFile, i) /\ ~Has(NoEntry, i)
  BY CallTypes, HasNothing DEF given, N, Op, TypeOK
<1>00. SUFFICES ASSUME NEW i \in 1 .. N, res'[i] # "ok" \/ Op(i) = "view"
                PROVE  Clean(i)'
  BY <1>0 DEF Absence
<1>1. ASSUME NEW k \in 1 .. N, View(k) PROVE Clean(i)'
  <2>1. Clean(i)
    BY <1>00, <1>1 DEF View, Answer, Kept, Absence, TypeOK
  <2>2. ~Has(Overlay(File(k)), i)
    BY <1>0, <2>1, HasOverlay DEF Clean
  <2> QED
    BY <1>0, <1>1, <2>1, <2>2 DEF View, Answer, Clean, TypeOK, log
<1>2. ASSUME NEW k \in 1 .. N, EditReads(k) PROVE Clean(i)'
  <2>1. Clean(i)
    BY <1>00, <1>2 DEF EditReads, Answer, Kept, Absence, TypeOK
  <2>2. ~Has(Overlay(File(k)), i)
    BY <1>0, <2>1, HasOverlay DEF Clean
  <2> QED
    BY <1>0, <1>2, <2>1, <2>2 DEF EditReads, Answer, Clean, TypeOK, log
<1>3. ASSUME NEW k \in 1 .. N, EditStages(k) PROVE Clean(i)'
  <2>1. i # k /\ Clean(i)
    BY <1>00, <1>3 DEF EditStages, Answer, Kept, Absence, TypeOK
  <2>2. seen[k] \in Texts /\ seen[k] # NoFile /\ ~Has(seen[k], i)
    BY <1>3, <2>1 DEF EditStages, ReadsText, Clean, TypeOK
  <2>3. ~Has([seen[k] EXCEPT ![batch[k].at] = k], i)
    BY <1>0, <2>1, <2>2, HasLine
  <2>4. \A f \in Files : entries'[f] # NoEntry => ~Has(entries'[f].staged, i)
    BY <1>0, <1>3, <2>1, <2>3 DEF EditStages, Stage, Clean, TypeOK
  <2>5. \A j \in 1 .. N : res'[j] = "reading" => res[j] = "reading"
    BY <1>3 DEF EditStages, Answer, TypeOK
  <2>6. UNCHANGED <<disk, plans, seen>>
    BY <1>3 DEF EditStages
  <2> QED
    BY <1>0, <2>1, <2>4, <2>5, <2>6 DEF Clean
<1>4. ASSUME NEW k \in 1 .. N, EditMisses(k) PROVE Clean(i)'
  <2>1. Clean(i)
    BY <1>00, <1>4 DEF EditMisses, Answer, Kept, Absence, TypeOK
  <2> QED
    BY <1>0, <1>4, <2>1 DEF EditMisses, Answer, Clean, TypeOK, log
<1>5. ASSUME NEW k \in 1 .. N, WriteOrDelete(k) PROVE Clean(i)'
  <2> DEFINE text == IF Op(k) = "write" THEN [r \in Regions |-> k] ELSE NoFile
  <2>1. i # k /\ Clean(i)
    BY <1>00, <1>5 DEF WriteOrDelete, Answer, Kept, Absence, TypeOK
  <2>2. ~Has(text, i)
    BY <1>0, <2>1, HasWhole
  <2> HIDE DEF text
  <2>3. Stage(File(k), text)
    BY <1>5 DEF WriteOrDelete, text
  <2>4. \A f \in Files : entries'[f] # NoEntry => ~Has(entries'[f].staged, i)
    BY <1>0, <2>1, <2>2, <2>3 DEF Stage, Clean, TypeOK
  <2>5. \A j \in 1 .. N : res'[j] = "reading" => res[j] = "reading"
    BY <1>5 DEF WriteOrDelete, Answer, TypeOK
  <2>6. UNCHANGED <<disk, plans, seen>>
    BY <1>5 DEF WriteOrDelete
  <2> QED
    BY <1>0, <2>1, <2>4, <2>5, <2>6 DEF Clean
<1>6. ASSUME NEW k \in 1 .. N, Shell(k) PROVE Clean(i)'
  <2>1. i # k /\ Clean(i)
    BY <1>00, <1>6 DEF Shell, Barrier, Answer, Kept, Absence, TypeOK
  <2>2. ~Has(ShellText(k, disk[File(k)]), i)
    BY <1>0, <2>1, HasShell DEF Clean, TypeOK
  <2>3. \A f \in Files : ~Has(disk'[f], i)
    BY <1>0, <1>6, <2>1, <2>2 DEF Shell, Clean, TypeOK
  <2>4. \A j \in 1 .. N : res'[j] = "reading" => res[j] = "reading" /\ seen'[j] = seen[j]
    BY <1>6 DEF Shell, Answer, TypeOK
  <2>5. UNCHANGED <<plans, entries>>
    BY <1>6 DEF Shell, log
  <2> QED
    BY <1>0, <2>1, <2>3, <2>4, <2>5 DEF Clean
<1>7. ASSUME NEW k \in 1 .. N, GitLooks(k) PROVE Clean(i)'
  BY <1>7 DEF GitLooks, BarriersOnly
<1>8. ASSUME NEW k \in 1 .. N, GitFlushes(k) PROVE Clean(i)'
  BY <1>8 DEF GitFlushes, BarriersOnly
<1>9. ASSUME NEW k \in 1 .. N, GitRefused(k) PROVE Clean(i)'
  BY <1>9 DEF GitRefused, BarriersOnly
<1>10. ASSUME NEW f \in Files, ApplyPlan(f) PROVE Clean(i)'
  <2>1. Clean(i)
    BY <1>00, <1>10 DEF ApplyPlan, Kept, Absence
  <2> QED
    BY <1>0, <1>10, <2>1 DEF ApplyPlan, Clean, TypeOK
<1>11. ASSUME NEW f \in Files, NEW r \in Regions, Edit(f, r) PROVE Clean(i)'
  <2>1. Clean(i) /\ i # -edits'
    BY <1>0, <1>00, <1>11 DEF Edit, Kept, Absence, TypeOK
  <2>2. ~Has([disk[f] EXCEPT ![r] = -edits'], i)
    BY <1>0, <1>11, <2>1, HasLine DEF Edit, Clean
  <2>3. disk' = [disk EXCEPT ![f] = [disk[f] EXCEPT ![r] = -edits']]
    BY <1>11 DEF Edit
  <2>4. \A h \in Files : ~Has(disk'[h], i)
    BY <2>1, <2>2, <2>3 DEF Clean, TypeOK
  <2>5. UNCHANGED <<plans, entries, res, seen>>
    BY <1>11 DEF Edit, log
  <2> QED
    BY <1>0, <2>1, <2>4, <2>5 DEF Clean
<1>12. CASE ApplyFails
  BY <1>12 DEF ApplyFails, TypeOK
<1>13. CASE FlushDone
  <2>1. flush # "git" /\ UNCHANGED <<res, seen, disk, plans>> /\ Forget
    BY <1>13 DEF FlushDone, Kept, Phase
  <2>2. Clean(i)
    BY <1>00, <2>1 DEF Kept, Absence
  <2> QED
    BY <1>0, <2>1, <2>2 DEF Forget, Clean
<1>14. CASE StartIsland
  <2>1. CASE StartFlush("barrier") /\ UNCHANGED res
    <3>1. Clean(i)
      BY <1>00, <2>1 DEF Kept, Absence
    <3>2. \A f \in Files : ~Has(Planned(f), i)
      BY <2>1, <3>1, HasPlanned DEF StartFlush, Clean
    <3> QED
      BY <1>0, <2>1, <3>1, <3>2 DEF StartFlush, Clean
  <2>2. CASE Refused("barrier") /\ pc = "next"
    <3>1. /\ flush = "none" /\ Forget /\ res' = RolledBack(pending)
          /\ UNCHANGED <<seen, disk>>
      BY <2>2 DEF Refused, GiveUp
    <3>2. \A f \in Files : plans'[f] = NoEntry
      BY <2>2 DEF Refused, GiveUp, NoPlans
    <3> QED
      BY <1>0, <1>00, <2>2, <3>1, <3>2, RollBackCleans
  <2>3. CASE UNCHANGED <<disk, log, res, seen>>
    <3>1. Clean(i)
      BY <1>00, <2>3 DEF Kept, Absence
    <3> QED
      BY <1>0, <2>3, <3>1 DEF Clean, log
  <2> QED
    BY <1>14, <2>1, <2>2, <2>3 DEF StartIsland
<1>15. CASE EndIsland
  <2>1. Clean(i) /\ UNCHANGED <<disk, log, res, seen>>
    BY <1>00, <1>15 DEF EndIsland, Kept, Absence
  <2> QED
    BY <1>0, <2>1 DEF Clean, log
<1>16. CASE EndBatch
  <2>1. CASE StartFlush("final") /\ UNCHANGED res
    <3>1. Clean(i)
      BY <1>00, <2>1 DEF Kept, Absence
    <3>2. \A f \in Files : ~Has(Planned(f), i)
      BY <2>1, <3>1, HasPlanned DEF StartFlush, Clean
    <3> QED
      BY <1>0, <2>1, <3>1, <3>2 DEF StartFlush, Clean
  <2>2. CASE Refused("final") /\ pc = "next"
    <3>1. /\ flush = "none" /\ Forget /\ res' = RolledBack(pending)
          /\ UNCHANGED <<seen, disk>>
      BY <2>2 DEF Refused, GiveUp
    <3>2. \A f \in Files : plans'[f] = NoEntry
      BY <2>2 DEF Refused, GiveUp, NoPlans
    <3> QED
      BY <1>0, <1>00, <2>2, <3>1, <3>2, RollBackCleans
  <2>3. CASE UNCHANGED <<disk, log, res, seen>>
    <3>1. Clean(i)
      BY <1>00, <2>3 DEF Kept, Absence
    <3> QED
      BY <1>0, <2>3, <3>1 DEF Clean, log
  <2> QED
    BY <1>16, <2>1, <2>2, <2>3 DEF EndBatch
<1>17. CASE Abandon
  <2>1. \A f \in Files : Has(disk'[f], i) => Has(disk[f], i)
    BY <1>0, <1>17, HasRestored DEF Abandon, TypeOK
  <2>2. plans' = plans /\ \A f \in Files : plans[f] = NoEntry
    BY <1>17 DEF Abandon, Kept, Phase
  <2> QED
    BY <1>0, <1>00, <1>17, <2>1, <2>2, RollBackCleans DEF Abandon
<1>18. CASE EndRest
  <2>1. Clean(i) /\ UNCHANGED <<disk, log, res, seen>>
    BY <1>00, <1>18 DEF EndRest, Kept, Absence
  <2> QED
    BY <1>0, <2>1 DEF Clean, log
<1>19. CASE Abort
  <2>1. Clean(i) /\ UNCHANGED <<disk, log, res, seen>>
    BY <1>00, <1>19 DEF Abort, Kept, Absence
  <2> QED
    BY <1>0, <2>1 DEF Clean, log
<1>20. CASE UNCHANGED vars
  <2>1. Clean(i) /\ UNCHANGED <<disk, log, res, seen>>
    BY <1>00, <1>20 DEF vars, log, Kept, Absence
  <2> QED
    BY <1>0, <2>1 DEF Clean, log
<1> QED
  BY <1>1, <1>2, <1>3, <1>4, <1>5, <1>6, <1>7, <1>8, <1>9, <1>10, <1>11, <1>12, <1>13,
     <1>14, <1>15, <1>16, <1>17, <1>18, <1>19, <1>20
     DEF Next, Finished

(* Held back means held back: the disk takes a mark from the log in a flush only. *)
LEMMA HeldStep ==
  ASSUME TypeOK, Partition(starts), Kept, BarriersOnly, fails' = 0, fails = 0, [Next]_vars,
         UNCHANGED given
  PROVE  HeldBack'
<1>0. /\ N' = N /\ N \in Nat /\ at \in 1 .. N + 1
      /\ \A i \in 1 .. N : /\ Writes(i)' = Writes(i) /\ File(i) \in Files
                           /\ batch[i].at \in Regions
      /\ \A s \in 1 .. N + 1 : Island(s)' = Island(s)
      /\ \A f \in Files : disk[f] \in Texts
  BY CallTypes DEF given, N, Op, File, Writes, Island, TypeOK
<1>00. SUFFICES ASSUME NEW i \in 1 .. N, flush' = "none", pc' \in {"next", "run"}, Writes(i),
                       i \in pending' \/ Running(i)'
                PROVE  \A f \in Files : ~Has(disk'[f], i)
  BY <1>0 DEF HeldBack
\* Before its island a call has left no mark.
<1>01. ASSUME pc = "next", i >= at PROVE \A f \in Files : ~Has(disk[f], i)
  BY <1>01 DEF Kept, Order, Absence, Clean
<1>1. ASSUME NEW k \in 1 .. N, View(k) PROVE \A f \in Files : ~Has(disk'[f], i)
  BY <1>0, <1>00, <1>1 DEF View, Kept, HeldBack, Running, sched, log
<1>2. ASSUME NEW k \in 1 .. N, EditReads(k) PROVE \A f \in Files : ~Has(disk'[f], i)
  BY <1>0, <1>00, <1>2 DEF EditReads, Kept, HeldBack, Running, sched, log
<1>3. ASSUME NEW k \in 1 .. N, EditStages(k) PROVE \A f \in Files : ~Has(disk'[f], i)
  BY <1>0, <1>00, <1>3 DEF EditStages, Kept, HeldBack, Running, sched, log
<1>4. ASSUME NEW k \in 1 .. N, EditMisses(k) PROVE \A f \in Files : ~Has(disk'[f], i)
  BY <1>0, <1>00, <1>4 DEF EditMisses, Kept, HeldBack, Running, sched, log
<1>5. ASSUME NEW k \in 1 .. N, WriteOrDelete(k) PROVE \A f \in Files : ~Has(disk'[f], i)
  BY <1>0, <1>00, <1>5 DEF WriteOrDelete, Kept, HeldBack, Running, sched, log
<1>6. ASSUME NEW k \in 1 .. N, Shell(k) PROVE \A f \in Files : ~Has(disk'[f], i)
  <2>1. i # k
    BY <1>00, <1>6 DEF Shell, Barrier, Writes
  <2>2. flush = "none" /\ (i \in pending \/ Running(i)) /\ pc \in {"next", "run"}
    BY <1>0, <1>00, <1>6 DEF Shell, Running, sched, log
  <2>3. \A f \in Files : ~Has(disk[f], i)
    BY <1>00, <2>2 DEF Kept, HeldBack
  <2>4. ~Has(ShellText(k, disk[File(k)]), i)
    BY <1>0, <2>1, <2>3, HasShell DEF TypeOK
  <2> QED
    BY <1>6, <2>3, <2>4 DEF Shell, TypeOK
<1>7. ASSUME NEW k \in 1 .. N, GitLooks(k) PROVE \A f \in Files : ~Has(disk'[f], i)
  BY <1>7 DEF GitLooks, BarriersOnly
<1>8. ASSUME NEW k \in 1 .. N, GitFlushes(k) PROVE \A f \in Files : ~Has(disk'[f], i)
  BY <1>8 DEF GitFlushes, BarriersOnly
<1>9. ASSUME NEW k \in 1 .. N, GitRefused(k) PROVE \A f \in Files : ~Has(disk'[f], i)
  BY <1>9 DEF GitRefused, BarriersOnly
<1>10. ASSUME NEW f \in Files, ApplyPlan(f) PROVE \A h \in Files : ~Has(disk'[h], i)
  BY <1>00, <1>10 DEF ApplyPlan
<1>11. ASSUME NEW f \in Files, NEW r \in Regions, Edit(f, r)
       PROVE \A h \in Files : ~Has(disk'[h], i)
  <2>1. flush = "none" /\ (i \in pending \/ Running(i)) /\ pc \in {"next", "run"}
    BY <1>0, <1>00, <1>11 DEF Edit, Running, sched, log
  <2>2. \A h \in Files : ~Has(disk[h], i)
    BY <1>00, <2>1 DEF Kept, HeldBack
  <2>3. i # -edits'
    BY <1>0, <1>11 DEF Edit, TypeOK
  <2>4. ~Has([disk[f] EXCEPT ![r] = -edits'], i)
    BY <1>0, <1>11, <2>2, <2>3, HasLine DEF Edit
  <2>5. disk' = [disk EXCEPT ![f] = [disk[f] EXCEPT ![r] = -edits']]
    BY <1>11 DEF Edit
  <2> QED
    BY <2>2, <2>4, <2>5 DEF TypeOK
<1>12. CASE ApplyFails
  BY <1>12 DEF ApplyFails, TypeOK
<1>13. CASE FlushDone
  <2>1. flush = "barrier" /\ pc = "next"
    BY <1>00, <1>13 DEF FlushDone, AfterFinal, Kept, Phase
  <2>2. pending' = {} /\ UNCHANGED <<at, disk>>
    BY <1>13, <2>1 DEF FlushDone, AfterBarrier
  <2>3. i >= at
    BY <1>0, <1>00, <2>2 DEF Running, Island
  <2> QED
    BY <1>01, <2>1, <2>2, <2>3
<1>14. CASE StartIsland
  <2>1. pc = "next" /\ flush = "none" /\ UNCHANGED <<at, disk>> /\ pending' \subseteq pending
    BY <1>14 DEF StartIsland, StartFlush, Refused, GiveUp, AfterBarrier
  <2>2. CASE i \in pending
    BY <1>00, <2>1, <2>2 DEF Kept, HeldBack
  <2>3. CASE i \notin pending
    <3>1. i >= at
      BY <1>0, <1>00, <2>1, <2>3 DEF Running, Island
    <3> QED
      BY <1>01, <2>1, <3>1
  <2> QED
    BY <2>2, <2>3
<1>15. CASE EndIsland
  <2>1. pc = "run" /\ pc' = "next" /\ flush = "none" /\ disk' = disk
    BY <1>15 DEF EndIsland
  <2>2. i \in pending \/ i \in Island(at)
    BY <1>00, <1>15, <2>1 DEF EndIsland, Running
  <2> QED
    BY <1>00, <2>1, <2>2 DEF Kept, HeldBack, Running
<1>16. CASE EndBatch
  <2>1. pc = "next" /\ flush = "none" /\ pc' # "run" /\ UNCHANGED <<disk, pending>>
    BY <1>16 DEF EndBatch, StartFlush, Refused, GiveUp, AfterFinal
  <2> QED
    BY <1>00, <2>1 DEF Kept, HeldBack, Running
<1>17. CASE Abandon
  BY <1>00, <1>17 DEF Abandon
<1>18. CASE EndRest
  BY <1>00, <1>18 DEF EndRest
<1>19. CASE Abort
  BY <1>0, <1>00, <1>19 DEF Abort, Kept, HeldBack, Running, sched, log
<1>20. CASE UNCHANGED vars
  BY <1>0, <1>00, <1>20 DEF vars, Kept, HeldBack, Running
<1> QED
  BY <1>1, <1>2, <1>3, <1>4, <1>5, <1>6, <1>7, <1>8, <1>9, <1>10, <1>11, <1>12, <1>13,
     <1>14, <1>15, <1>16, <1>17, <1>18, <1>19, <1>20
     DEF Next, Finished

-----------------------------------------------------------------------------
(* The first state. *)
LEMMA InitInv == Init => IInv
<1> SUFFICES ASSUME Init PROVE IInv
  OBVIOUS
<1> USE BatchAssumption
<1>1. N \in Nat /\ N \in 1 .. MaxCalls /\ NoFile \in Texts
  BY CallTypes DEF Init, Texts
<1>2. disk \in [Files -> Texts]
  BY CommittedTypes DEF Init
<1>3. /\ entries \in [Files -> Entry] /\ plans \in [Files -> Texts \cup {NoEntry}]
      /\ res \in [1 .. N -> Results] /\ seen \in [1 .. N -> Texts]
  BY <1>1 DEF Init, Entry, Results
<1>4. TypeOK
  <2>1. /\ batch \in Batches /\ starts \subseteq 1 .. N /\ git \in BOOLEAN
        /\ saved \in [Files -> Texts] \cup {NoTree} /\ flushed \in BOOLEAN
        /\ flush = "none" /\ pc = "next" /\ pending \subseteq 1 .. N
        /\ signal \in BOOLEAN /\ apart \subseteq Files \X Regions \X Marks
    BY DEF Init
  <2>2. at \in 1 .. N + 1 /\ edits \in 0 .. MaxEdits /\ fails \in 0 .. MaxFails
    BY <1>1 DEF Init
  <2> QED
    BY <1>2, <1>3, <2>1, <2>2 DEF TypeOK, Entry
<1>5. ReadsText /\ Partition(starts)
  BY DEF Init, ReadsText
<1>6. Phase /\ Order /\ Waiting
  BY DEF Init, Phase, Order, Waiting
<1>7. ASSUME NEW i \in 1 .. N PROVE Clean(i)
  <2>1. ASSUME NEW f \in Files PROVE ~Has(disk[f], i)
    <3>1. CASE disk[f] = NoFile
      BY <3>1, HasNothing
    <3>2. CASE disk[f] = [r \in Regions |-> Old]
      <4>1. i # Old
        BY <1>1 DEF Old
      <4>2. ASSUME Has([r \in Regions |-> Old], i) PROVE FALSE
        BY <4>1, <4>2, HasWhole
      <4> QED
        BY <3>2, <4>2
    <3> QED
      BY <3>1, <3>2 DEF Init, Committed
  <2> QED
    BY <2>1, HasNothing DEF Init, Clean
<1>8. Absence /\ HeldBack
  BY <1>7 DEF Absence, HeldBack, Clean
<1> QED
  BY <1>4, <1>5, <1>6, <1>8 DEF IInv, Kept

(* Every step keeps the invariant. *)
LEMMA StepInv == IInv /\ [Next]_vars => IInv'
<1> SUFFICES ASSUME IInv, [Next]_vars PROVE IInv'
  OBVIOUS
<1>1. TypeOK' /\ ReadsText'
  BY TypeStep DEF IInv
<1>2. UNCHANGED given /\ (fails' = 0 => fails = 0)
  BY GivenStep DEF IInv
<1>3. Partition(starts)'
  BY <1>2 DEF IInv, Partition, Joins, Current, Collide, Declared, Op, File, N, given
<1>4. ASSUME Quietly' PROVE Kept'
  <2>1. BarriersOnly /\ fails = 0 /\ fails' = 0 /\ Kept
    BY <1>2, <1>4 DEF Quietly, BarriersOnly, N, Op, given, IInv
  <2>2. Phase' /\ Order' /\ Waiting'
    BY <1>2, <2>1, PhaseStep, OrderStep, WaitingStep DEF IInv, Kept
  <2>3. Absence' /\ HeldBack'
    BY <1>2, <2>1, AbsenceStep, HeldStep DEF IInv
  <2> QED
    BY <2>2, <2>3 DEF Kept
<1> QED
  BY <1>1, <1>3, <1>4 DEF IInv

(* The invariant the three theorems below rest on holds of every list of calls. *)
THEOREM Invariance == Spec => []IInv
<1> QED
  BY InitInv, StepInv, PTL DEF Spec

(* Every variable of the batch keeps its type. *)
THEOREM TypeCorrect == Spec => []TypeOK
<1>1. IInv => TypeOK
  BY DEF IInv
<1> QED
  BY <1>1, Invariance, PTL

(* Calls that the scheduler runs at once do not touch the same file, unless they
   only look at it (planToolExecution). *)
THEOREM RunApart == Spec => []InFlightApart
<1>1. IInv => InFlightApart
  <2> SUFFICES ASSUME IInv, NEW i \in 1 .. N, NEW j \in 1 .. N, i # j, Running(i), Running(j)
               PROVE  Declared(i) /\ Declared(j) /\ ~Collide(i, j)
    BY DEF InFlightApart
  <2>1. N \in Nat /\ at \in 1 .. N + 1 /\ Partition(starts) /\ i \in Island(at) /\ j \in Island(at)
    BY CallTypes DEF IInv, TypeOK, Running
  <2>2. CASE i < j
    BY <2>1, <2>2, IslandsApart
  <2>3. CASE j < i
    <3>1. Declared(i) /\ Declared(j) /\ ~Collide(j, i)
      BY <2>1, <2>3, IslandsApart
    <3> QED
      BY <3>1 DEF Collide
  <2> QED
    BY <2>1, <2>2, <2>3
<1> QED
  BY <1>1, Invariance, PTL

(* When a batch flushes at barriers and its end only, and no write fails, a write
   that is said to be rolled back is nowhere on disk (markRolledBack). *)
THEOREM UndoneGone == Spec => []UndoneIsGone
<1>1. IInv => UndoneIsGone
  <2> SUFFICES ASSUME IInv, fails = 0, BarriersOnly, NEW i \in 1 .. N, res[i] = "undone"
               PROVE  ~OnDisk(i)
    BY DEF UndoneIsGone
  <2>1. Clean(i)
    BY DEF IInv, Quietly, Kept, Absence
  <2>2. \A f \in Files : disk[f] \in Texts /\ disk[f] # NoEntry
    BY BatchAssumption DEF IInv, TypeOK
  <2> QED
    BY <2>1, <2>2 DEF OnDisk, Clean, Has
<1> QED
  BY <1>1, Invariance, PTL

-----------------------------------------------------------------------------
(* The calls one after the other. *)

(* Induction over the natural numbers, for a set in place of a predicate: a least
   number outside S would have a predecessor outside it. *)
LEMMA SetInduction ==
  ASSUME NEW S, 0 \in S, \A n \in Nat : n \in S => n + 1 \in S
  PROVE  Nat \subseteq S
<1> DEFINE T == Nat \ S
<1>1. SUFFICES ASSUME T # {} PROVE FALSE
  OBVIOUS
<1>2. PICK x \in T : \A y \in T : ~ (<<y, x>> \in OpToRel(<, Nat))
  BY <1>1, WFMin, NatLessThanWellFounded
<1>3. x \in Nat /\ x # 0 /\ x - 1 \in Nat
  OBVIOUS
<1>4. x - 1 \in T
  BY <1>3
<1>5. <<x - 1, x>> \in OpToRel(<, Nat)
  BY <1>3 DEF OpToRel
<1> QED
  BY <1>2, <1>4, <1>5

\* s and t are the same at a, and go on alike up to n as long as they were.
Alike(a, n, s, t) ==
  /\ s[a] = t[a]
  /\ \A i \in a + 1 .. n : s[i - 1] = t[i - 1] => s[i] = t[i]

Same(a, n, s, t) == \A i \in a .. n : s[i] = t[i]

(* Then they are the same from a to n. *)
LEMMA AlikeIsSame ==
  ASSUME NEW n \in Nat, NEW a \in 0 .. n, NEW s, NEW t, Alike(a, n, s, t)
  PROVE  Same(a, n, s, t)
<1> DEFINE S == {i \in Nat : a <= i /\ i <= n => s[i] = t[i]}
<1>1. 0 \in S
  BY DEF Alike
<1>2. ASSUME NEW i \in Nat, i \in S PROVE i + 1 \in S
  <2>1. SUFFICES ASSUME a <= i + 1, i + 1 <= n PROVE s[i + 1] = t[i + 1]
    OBVIOUS
  <2>2. CASE i + 1 = a
    BY <2>2 DEF Alike
  <2>3. CASE a <= i
    <3>1. i + 1 \in a + 1 .. n /\ (i + 1) - 1 = i /\ s[i] = t[i]
      BY <1>2, <2>1, <2>3
    <3> QED
      BY <3>1 DEF Alike
  <2> QED
    BY <2>1, <2>2, <2>3
<1>3. Nat \subseteq S
  <2> HIDE DEF S
  <2> QED
    BY <1>1, <1>2, SetInduction
<1> QED
  BY <1>3 DEF Same

\* What call i leaves of a tree, by its result.
Step(i, tree) == IF res[i] = "ok" THEN Effect(i, tree) ELSE tree

(* A function defined by what it is one call earlier exists. *)
LEMMA SeriallyExists ==
  ASSUME NEW n \in Nat
  PROVE  \E s : s = [i \in 0 .. n |-> IF i = 0 THEN Committed ELSE Step(i, s[i - 1])]
<1> DEFINE Upto(m, s) == s = [i \in 0 .. m |-> IF i = 0 THEN Committed ELSE Step(i, s[i - 1])]
           S == {m \in Nat : \E s : Upto(m, s)}
<1>1. 0 \in S
  <2>1. Upto(0, [i \in 0 .. 0 |-> Committed])
    OBVIOUS
  <2> HIDE DEF Upto
  <2> QED
    BY <2>1
<1>2. ASSUME NEW m \in Nat, m \in S PROVE m + 1 \in S
  <2>1. PICK s : Upto(m, s)
    <3> HIDE DEF Upto
    <3> QED
      BY <1>2
  <2> DEFINE t == [i \in 0 .. m + 1 |-> IF i = m + 1 THEN Step(i, s[m]) ELSE s[i]]
  <2>2. Upto(m + 1, t)
    <3>1. ASSUME NEW i \in 0 .. m + 1
          PROVE  t[i] = IF i = 0 THEN Committed ELSE Step(i, t[i - 1])
      <4>1. CASE i = m + 1
        <5>1. t[i] = Step(i, s[m]) /\ i - 1 = m /\ m \in 0 .. m + 1 /\ m # m + 1 /\ i # 0
          BY <4>1
        <5>2. t[m] = s[m]
          BY <5>1
        <5> HIDE DEF t
        <5> QED
          BY <5>1, <5>2
      <4>2. CASE i # m + 1
        <5>1. i \in 0 .. m /\ t[i] = s[i]
          BY <4>2
        <5>2. i # 0 => i - 1 \in 0 .. m + 1 /\ i - 1 # m + 1
          BY <4>2
        <5>3. i # 0 => t[i - 1] = s[i - 1]
          BY <5>2
        <5> HIDE DEF t
        <5> QED
          BY <2>1, <5>1, <5>3
      <4> QED
        BY <4>1, <4>2
    <3>2. t = [i \in 0 .. m + 1 |-> t[i]]
      OBVIOUS
    <3> HIDE DEF t
    <3> QED
      BY <3>1, <3>2
  <2> HIDE DEF Upto, t
  <2> QED
    BY <2>2
<1>3. n \in S
  <2> HIDE DEF S
  <2> QED
    BY <1>1, <1>2, SetInduction
<1> QED
  BY <1>3

\* Serially goes on call by call, and is a tree after each.
SerialSteps ==
  /\ Serially[0] = Committed
  /\ \A i \in 1 .. N : Serially[i] = Step(i, Serially[i - 1])

(* Serially is that function. *)
LEMMA SerialIs == N \in Nat => SerialSteps
<1> SUFFICES ASSUME N \in Nat PROVE SerialSteps
  OBVIOUS
<1> DEFINE Eq(s) == s = [i \in 0 .. N |-> IF i = 0 THEN Committed
                                         ELSE IF res[i] = "ok" THEN Effect(i, s[i - 1])
                                              ELSE s[i - 1]]
           g == CHOOSE s : Eq(s)
<1>1. \E s : Eq(s)
  BY SeriallyExists DEF Step
<1>2. Eq(g)
  <2> HIDE DEF Eq
  <2> QED
    BY <1>1
<1>3. Serially = g
  BY DEF Serially
<1> HIDE DEF g
<1> QED
  BY <1>2, <1>3 DEF SerialSteps, Step

(* The same in the next state. *)
LEMMA SerialIsNext == TypeOK' => SerialSteps'
<1>1. TypeOK => N \in Nat
  BY CallTypes DEF TypeOK
<1>2. TypeOK => SerialSteps
  BY <1>1, SerialIs
<1> QED
  BY <1>2, PTL

\* A call that leaves what it looks at as it is.
Looks(i) == Op(i) \in {"view", "git"}

\* Call i says ok and has done something to file f.
Does(i, f) == res[i] = "ok" /\ File(i) = f /\ ~Looks(i)

\* What Serially does to one file.
FileSteps ==
  /\ \A i \in 0 .. N : Serially[i] = [f \in Files |-> Serially[i][f]]
  /\ \A f \in Files :
       /\ Serially[0][f] = Committed[f]
       /\ \A i \in 1 .. N :
            Serially[i][f] = IF Does(i, f) THEN Made(i, Serially[i - 1][f])
                             ELSE Serially[i - 1][f]

(* File by file: a call that looks changes none, any other its own. *)
LEMMA SerialFiles == TypeOK => FileSteps
<1> SUFFICES ASSUME TypeOK PROVE FileSteps
  OBVIOUS
<1>1. N \in Nat /\ \A i \in 1 .. N : File(i) \in Files /\ Op(i) \in Ops
  BY CallTypes DEF TypeOK
<1>2. SerialSteps
  BY <1>1, SerialIs
<1> DEFINE Tree(x) == x = [f \in Files |-> x[f]]
           S == {i \in Nat : i <= N => Tree(Serially[i])}
<1>3. 0 \in S
  <2>1. Tree(Committed)
    BY DEF Committed
  <2> HIDE DEF Tree
  <2> QED
    BY <1>2, <2>1 DEF SerialSteps
<1>4. ASSUME NEW i \in Nat, i \in S PROVE i + 1 \in S
  <2>1. SUFFICES ASSUME i + 1 <= N PROVE Tree(Serially[i + 1])
    <3> HIDE DEF Tree
    <3> QED
      BY DEF S
  <2>2. i + 1 \in 1 .. N /\ (i + 1) - 1 = i
    BY <1>1, <2>1
  <2>3. Tree(Serially[i])
    <3> HIDE DEF Tree
    <3> QED
      BY <1>1, <1>4, <2>1
  <2>4. Serially[i + 1] = Step(i + 1, Serially[i])
    BY <1>2, <2>2 DEF SerialSteps
  <2>5. ASSUME NEW x, Tree(x) PROVE Tree(Step(i + 1, x))
    <3> DEFINE m == Made(i + 1, x[File(i + 1)])
    <3>1. Effect(i + 1, x) = [x EXCEPT ![File(i + 1)] = m]
      BY DEF Effect
    <3> HIDE DEF m
    <3>2. Tree([x EXCEPT ![File(i + 1)] = m])
      BY <2>5
    <3> HIDE DEF Tree
    <3> QED
      BY <2>5, <3>1, <3>2 DEF Step
  <2> HIDE DEF Tree
  <2> QED
    BY <2>3, <2>4, <2>5
<1>5. \A i \in 0 .. N : Tree(Serially[i])
  <2>1. Nat \subseteq S
    <3> HIDE DEF S
    <3> QED
      BY <1>3, <1>4, SetInduction
  <2> HIDE DEF Tree
  <2> QED
    BY <1>1, <2>1
<1>6. ASSUME NEW f \in Files, NEW i \in 1 .. N
      PROVE  Serially[i][f] = IF Does(i, f) THEN Made(i, Serially[i - 1][f])
                              ELSE Serially[i - 1][f]
  <2>1. Serially[i] = Step(i, Serially[i - 1])
    BY <1>2 DEF SerialSteps
  <2>2. ASSUME NEW x, Tree(x)
        PROVE  Step(i, x)[f] = IF Does(i, f) THEN Made(i, x[f]) ELSE x[f]
    <3> DEFINE m == Made(i, x[File(i)])
    <3>1. Effect(i, x) = [x EXCEPT ![File(i)] = m]
      BY DEF Effect
    <3>2. CASE res[i] # "ok"
      BY <3>2 DEF Step, Does
    <3>3. CASE res[i] = "ok" /\ File(i) # f
      <4> HIDE DEF m
      <4>1. [x EXCEPT ![File(i)] = m][f] = x[f]
        BY <2>2, <3>3
      <4> QED
        BY <3>1, <3>3, <4>1 DEF Step, Does
    <3>4. CASE res[i] = "ok" /\ File(i) = f
      <4>1. Step(i, x)[f] = m
        <5> HIDE DEF m
        <5> QED
          BY <2>2, <3>1, <3>4 DEF Step
      <4>2. Looks(i) => Made(i, x[f]) = x[f]
        BY DEF Looks, Made, Barrier
      <4>3. m = Made(i, x[f])
        BY <3>4
      <4> HIDE DEF m, Tree
      <4> QED
        BY <3>4, <4>1, <4>2, <4>3 DEF Does
    <3> QED
      BY <3>2, <3>3, <3>4
  <2>3. i - 1 \in 0 .. N
    BY <1>1
  <2> HIDE DEF Tree
  <2> QED
    BY <1>5, <2>1, <2>2, <2>3
<1>7. ASSUME NEW f \in Files PROVE Serially[0][f] = Committed[f]
  BY <1>2 DEF SerialSteps
<1> QED
  BY <1>5, <1>6, <1>7 DEF FileSteps

(* The same in the next state. *)
LEMMA SerialFilesNext == TypeOK' => FileSteps'
BY SerialFiles, PTL

\* Where no call does anything to a file, it stays as it is.
Rests ==
  \A f \in Files, b \in 0 .. N :
    (\A i \in b + 1 .. N : ~Does(i, f)) => \A i \in b .. N : Serially[i][f] = Serially[b][f]

(* A file nobody does anything to after call b is as call b left it. *)
LEMMA SerialRests == TypeOK => Rests
<1> SUFFICES ASSUME TypeOK, NEW f \in Files, NEW b \in 0 .. N, \A i \in b + 1 .. N : ~Does(i, f)
             PROVE  \A i \in b .. N : Serially[i][f] = Serially[b][f]
  BY DEF Rests
<1>1. N \in Nat
  BY CallTypes DEF TypeOK
<1> DEFINE s == [i \in 0 .. N |-> Serially[i][f]]
           t == [i \in 0 .. N |-> Serially[b][f]]
<1>2. s[b] = t[b]
  OBVIOUS
<1>3. ASSUME NEW i \in b + 1 .. N, s[i - 1] = t[i - 1] PROVE s[i] = t[i]
  <2>1. i \in 1 .. N /\ i \in 0 .. N /\ i - 1 \in 0 .. N
    BY <1>1
  <2>2. Serially[i][f] = Serially[i - 1][f]
    BY <2>1, SerialFiles DEF FileSteps
  <2> QED
    BY <1>3, <2>1, <2>2
<1>4. Alike(b, N, s, t)
  <2> HIDE DEF s, t
  <2> QED
    BY <1>2, <1>3 DEF Alike
<1>5. Same(b, N, s, t)
  <2> HIDE DEF s, t
  <2> QED
    BY <1>1, <1>4, AlikeIsSame
<1>6. ASSUME NEW i \in b .. N PROVE s[i] = t[i]
  BY <1>5 DEF Same
<1>7. ASSUME NEW i \in b .. N PROVE i \in 0 .. N
  BY <1>1
<1> QED
  BY <1>6, <1>7

(* The same in the next state. *)
LEMMA SerialRestsNext == TypeOK' => Rests'
BY SerialRests, PTL

(* As far as the same calls have done something to a file, it is the same. *)
LEMMA SerialSame ==
  ASSUME TypeOK, TypeOK', UNCHANGED given, NEW f \in Files, NEW b \in 0 .. N,
         \A i \in 1 .. b : Does(i, f)' <=> Does(i, f)
  PROVE  \A i \in 0 .. b : Serially'[i][f] = Serially[i][f]
<1>1. N \in Nat /\ N' = N /\ \A i \in 1 .. N : File(i) \in Files
  BY CallTypes DEF TypeOK, given, N
<1>2. FileSteps /\ FileSteps'
  BY SerialFiles, SerialFilesNext
<1> DEFINE s == [i \in 0 .. N |-> Serially'[i][f]]
           t == [i \in 0 .. N |-> Serially[i][f]]
<1>3. s[0] = t[0]
  BY <1>1, <1>2 DEF FileSteps, Committed
<1>4. ASSUME NEW i \in 0 + 1 .. b, s[i - 1] = t[i - 1] PROVE s[i] = t[i]
  <2>1. i \in 1 .. N /\ i \in 1 .. b /\ i \in 0 .. N /\ i - 1 \in 0 .. N
    BY <1>1
  <2>2. Serially'[i - 1][f] = Serially[i - 1][f]
    BY <1>4, <2>1
  <2>3. Serially[i][f] = IF Does(i, f) THEN Made(i, Serially[i - 1][f]) ELSE Serially[i - 1][f]
    BY <1>2, <2>1 DEF FileSteps
  <2>4. Serially'[i][f] = IF Does(i, f)' THEN Made(i, Serially[i - 1][f])' ELSE Serially'[i - 1][f]
    BY <1>1, <1>2, <2>1 DEF FileSteps
  <2>5. Made(i, Serially[i - 1][f])' = Made(i, Serially'[i - 1][f])
    BY DEF Made, given, Op, Barrier, ShellText
  <2>6. Serially'[i][f] = Serially[i][f]
    BY <2>1, <2>2, <2>3, <2>4, <2>5
  <2> QED
    BY <2>1, <2>6
<1>5. b \in Nat /\ 0 \in 0 .. b
  BY <1>1
<1>6. Same(0, b, s, t)
  <2> HIDE DEF s, t
  <2>1. Alike(0, b, s, t)
    BY <1>3, <1>4 DEF Alike
  <2> QED
    BY <1>5, <2>1, AlikeIsSame
<1>7. ASSUME NEW i \in 0 .. b PROVE s[i] = t[i] /\ i \in 0 .. N
  BY <1>1, <1>6 DEF Same
<1> QED
  BY <1>7

-----------------------------------------------------------------------------
(* Texts that differ by edits from outside only. *)

\* Text x is text y, but for what the e edits from outside have left in it.
Near(e, x, y) ==
  \/ x = NoFile /\ y = NoFile
  \/ /\ x \in [Regions -> Marks] /\ y \in [Regions -> Marks]
     /\ \A r \in Regions : x[r] = y[r] \/ (e > 0 /\ Outside(x[r]))

(* A text is near itself, and without edits near nothing else. *)
LEMMA NearSelf ==
  ASSUME NEW e, NEW x \in Texts PROVE Near(e, x, x)
BY DEF Near, Texts

(* Without edits, a text is near nothing but itself. *)
LEMMA NearExact ==
  ASSUME NEW x, NEW y, Near(0, x, y) PROVE x = y
<1>1. CASE x = NoFile /\ y = NoFile
  BY <1>1
<1>2. CASE ~(x = NoFile /\ y = NoFile)
  <2>1. /\ x \in [Regions -> Marks] /\ y \in [Regions -> Marks]
        /\ \A r \in Regions : x[r] = y[r]
    BY <1>2 DEF Near
  <2> QED
    BY <2>1
<1> QED
  BY <1>1, <1>2

(* Further edits bring nothing apart. *)
LEMMA NearLater ==
  ASSUME NEW e \in Nat, NEW d \in Nat, e <= d, NEW x, NEW y, Near(e, x, y)
  PROVE  Near(d, x, y)
BY DEF Near

(* Both change in the same way, or only the first, by an edit from outside. *)
LEMMA NearLine ==
  ASSUME NEW e, NEW x, NEW y, Near(e, x, y), x # NoFile, NEW a \in Regions, NEW m \in Marks
  PROVE  Near(e, [x EXCEPT ![a] = m], [y EXCEPT ![a] = m])
<1>1. /\ x \in [Regions -> Marks] /\ y \in [Regions -> Marks]
      /\ \A r \in Regions : x[r] = y[r] \/ (e > 0 /\ Outside(x[r]))
  BY DEF Near
<1> QED
  BY <1>1 DEF Near

(* A line that changes under an edit from outside stays near. *)
LEMMA NearOutside ==
  ASSUME NEW e \in Nat \ {0}, NEW x, NEW y, Near(e, x, y), x # NoFile, NEW a \in Regions,
         NEW m \in Marks, Outside(m)
  PROVE  Near(e, [x EXCEPT ![a] = m], y)
<1>1. /\ x \in [Regions -> Marks] /\ y \in [Regions -> Marks]
      /\ \A r \in Regions : x[r] = y[r] \/ (e > 0 /\ Outside(x[r]))
  BY DEF Near
<1> QED
  BY <1>1 DEF Near

(* A shell command makes of near texts near texts. *)
LEMMA NearShell ==
  ASSUME batch \in Batches, NEW i \in 1 .. N, NEW e, NEW x, NEW y, Near(e, x, y)
  PROVE  Near(e, ShellText(i, x), ShellText(i, y))
<1>1. i \in Marks /\ batch[i].at \in Regions
  BY CallTypes
<1>2. NoFile \notin [Regions -> Marks]
  BY BatchAssumption
<1>3. x = NoFile <=> y = NoFile
  BY <1>2 DEF Near
<1>4. NoFile \in Texts
  BY DEF Texts
<1>5. CASE Op(i) = "rm"
  BY <1>4, <1>5, NearSelf DEF ShellText
<1>6. CASE Op(i) # "rm" /\ x = NoFile
  BY <1>1, <1>3, <1>6, WholeTypes, NearSelf DEF ShellText
<1>7. CASE Op(i) # "rm" /\ x # NoFile
  BY <1>1, <1>3, <1>7, NearLine DEF ShellText
<1> QED
  BY <1>5, <1>6, <1>7

(* A merge of what is near y with a disk that is near the base is near y. *)
LEMMA NearMerged ==
  ASSUME NEW e, NEW b, NEW s, NEW d, NEW y, s # NoFile, d # NoFile,
         Near(e, s, y), Near(e, d, b)
  PROVE  Near(e, Merged(b, s, d), y)
<1>1. /\ s \in [Regions -> Marks] /\ y \in [Regions -> Marks]
      /\ \A r \in Regions : s[r] = y[r] \/ (e > 0 /\ Outside(s[r]))
  BY DEF Near
<1>2. /\ d \in [Regions -> Marks]
      /\ \A r \in Regions : d[r] = b[r] \/ (e > 0 /\ Outside(d[r]))
  BY DEF Near
<1>3. Merged(b, s, d) \in [Regions -> Marks]
  BY <1>1, <1>2 DEF Merged
<1>4. ASSUME NEW r \in Regions
      PROVE  Merged(b, s, d)[r] = y[r] \/ (e > 0 /\ Outside(Merged(b, s, d)[r]))
  <2>1. Merged(b, s, d)[r] = IF s[r] = b[r] THEN d[r] ELSE s[r]
    BY DEF Merged
  <2> QED
    BY <1>1, <1>2, <2>1
<1> QED
  BY <1>1, <1>3, <1>4 DEF Near

(* What a flush without a conflict makes of an entry is near what the entry is near. *)
LEMMA NearPlanned ==
  ASSUME TypeOK, NEW f \in Files, ~Conflict(f), NEW e, NEW y, entries[f] # NoEntry,
         Near(e, entries[f].staged, y), Near(e, disk[f], entries[f].base)
  PROVE  Near(e, IF Planned(f) = NoEntry THEN disk[f] ELSE Planned(f), y)
<1> DEFINE b == entries[f].base
           s == entries[f].staged
           d == disk[f]
<1>1. /\ b \in Texts /\ s \in Texts /\ d \in Texts
      /\ b # NoEntry /\ s # NoEntry /\ d # NoEntry
  BY BatchAssumption DEF TypeOK
<1>2. b = NoFile <=> d = NoFile
  BY BatchAssumption DEF Near
<1>3. CASE d = NoFile /\ s = NoFile
  BY <1>2, <1>3 DEF Planned
<1>4. CASE d = NoFile /\ s # NoFile
  BY <1>1, <1>2, <1>4 DEF Planned
<1>5. CASE d # NoFile /\ s = NoFile
  BY <1>1, <1>2, <1>5 DEF Planned
<1>6. CASE d # NoFile /\ s # NoFile /\ d # b /\ d # s
  <2>1. Planned(f) = Merged(b, s, d)
    BY <1>6 DEF Planned
  <2>2. Near(e, Merged(b, s, d), y)
    BY <1>6, NearMerged
  <2> HIDE DEF b, s, d
  <2>3. Merged(b, s, d) \in Texts
    BY <1>1, <1>6, MergeTypes DEF Texts
  <2>4. Merged(b, s, d) # NoEntry
    BY <2>3, BatchAssumption
  <2> QED
    BY <2>1, <2>2, <2>4
<1>7. CASE d # NoFile /\ s # NoFile /\ (d = b \/ d = s)
  BY <1>1, <1>7 DEF Planned
<1> QED
  BY <1>3, <1>4, <1>5, <1>6, <1>7

(* Without edits there is no conflict. *)
LEMMA NoConflict ==
  ASSUME TypeOK, NEW f \in Files, entries[f] # NoEntry => Near(0, disk[f], entries[f].base)
  PROVE  ~Conflict(f)
<1>1. entries[f] # NoEntry => disk[f] = entries[f].base
  BY NearExact
<1> QED
  BY <1>1 DEF Conflict

-----------------------------------------------------------------------------
(* The invariant: between them, disk, log and flush hold what the calls one after the
   other amount to. *)

Calm == ~signal /\ fails = 0 /\ (edits = 0 \/ BarriersOnly)

NoLog == \A f \in Files : entries[f] = NoEntry

\* Who flushes, when; a shell command finds an empty log; nobody but the scheduler
\* runs calls.
Control ==
  /\ flush = "none" => \A f \in Files : plans[f] = NoEntry
  /\ flush # "none" => \/ flush = "barrier" /\ pc = "next" /\ at <= N /\ Barrier(at)
                       \/ flush = "final" /\ pc = "next" /\ at = N + 1
                       \/ flush = "git" /\ pc = "run" /\ at <= N /\ Op(at) = "git"
  /\ pc # "rest"
  /\ pc = "run" => at <= N
  /\ pc = "done" => at = N + 1 /\ flush = "none" /\ NoLog
  /\ pc = "run" /\ Barrier(at) => NoLog

\* Calls are answered island by island.
Turns ==
  \A i \in 1 .. N :
    /\ i < at => res[i] \in Answered
    /\ i >= at /\ (pc = "run" => i \notin Island(at)) => res[i] = "none"
    /\ res[i] = "reading" => Op(i) = "edit" \/ (Op(i) = "git" /\ flush = "git")

\* What is on disk once the flush is over.
Coming(f) == IF plans[f] = NoEntry THEN disk[f] ELSE plans[f]

\* Every file reads as the calls so far one by one have left it.
OneByOne ==
  \A f \in Files :
    /\ flush = "none" =>
         /\ Near(edits, Overlay(f), Serially[N][f])
         /\ entries[f] # NoEntry => Near(edits, disk[f], entries[f].base)
    /\ flush # "none" => Near(edits, Coming(f), Serially[N][f])

\* So did it for the calls that have read it.
Looked ==
  \A i \in 1 .. N :
    /\ Op(i) = "edit" /\ res[i] = "reading" => Near(edits, seen[i], Serially[N][File(i)])
    /\ edits = 0 /\ ~Writes(i) /\ res[i] \in Answered => seen[i] = Serially[i - 1][File(i)]

\* A write that a refused flush undoes.
Held(i) == Writes(i) /\ pc # "done" /\ (i \in pending \/ Running(i))

\* Without the writes that wait, the batch is its first b calls, and they are on disk.
Split(b) ==
  /\ b < at \/ (b = at /\ pc = "run" /\ Barrier(at))
  /\ \A i \in 1 .. N : i > b /\ res[i] = "ok" /\ ~Looks(i) => Held(i)
  /\ \A i \in pending : Writes(i) /\ res[i] = "ok" => i <= N /\ i > b
  /\ \A f \in Files : Near(edits, disk[f], Serially[b][f])

\* A write that waits is in the log.
Logged == \A i \in 1 .. N : Held(i) /\ res[i] = "ok" => entries[File(i)] # NoEntry

Backed ==
  BarriersOnly /\ flush = "none" /\ pc # "done" => Logged /\ \E b \in 0 .. N : Split(b)

SerialInv == Calm => Control /\ Turns /\ Waiting /\ OneByOne /\ Looked /\ Backed

(* What a step does not change. *)
LEMMA GivenIs ==
  ASSUME TypeOK, UNCHANGED given
  PROVE  /\ N' = N /\ N \in Nat /\ at \in 1 .. N + 1 /\ edits \in Nat
         /\ \A i \in 1 .. N : /\ Op(i)' = Op(i) /\ File(i)' = File(i)
                              /\ Barrier(i)' = Barrier(i) /\ Declared(i)' = Declared(i)
                              /\ Writes(i)' = Writes(i) /\ Looks(i)' = Looks(i)
                              /\ File(i) \in Files /\ Op(i) \in Ops
         /\ \A s \in 1 .. N + 1 : Island(s)' = Island(s) /\ Island(s) \subseteq s .. N
<1>1. N \in Nat /\ \A i \in 1 .. N : File(i) \in Files /\ Op(i) \in Ops
  BY CallTypes DEF TypeOK
<1>2. \A s \in 1 .. N + 1 : Island(s)' = Island(s) /\ Island(s) \subseteq s .. N
  BY DEF Island, N, given
<1>3. at \in 1 .. N + 1 /\ edits \in Nat
  BY BatchAssumption DEF TypeOK
<1> QED
  BY <1>1, <1>2, <1>3 DEF given, N, Op, File, Barrier, Declared, Writes, Looks

(* The world goes one way. *)
LEMMA WorldStep ==
  ASSUME TypeOK, [Next]_vars
  PROVE  edits <= edits' /\ edits' \in Nat /\ (signal => signal')
<1>0. edits \in Nat
  BY BatchAssumption DEF TypeOK
<1>1. ASSUME NEW i \in 1 .. N,
             \/ View(i) \/ EditReads(i) \/ EditStages(i) \/ EditMisses(i) \/ WriteOrDelete(i)
             \/ Shell(i) \/ GitLooks(i) \/ GitFlushes(i) \/ GitRefused(i)
      PROVE  UNCHANGED <<edits, signal>>
  BY <1>1 DEF View, EditReads, EditStages, EditMisses, WriteOrDelete, Shell, GitLooks,
              GitFlushes, GitRefused, StartFlush, world
<1>2. ASSUME NEW f \in Files, ApplyPlan(f) \/ \E r \in Regions : Edit(f, r)
      PROVE  edits <= edits' /\ edits' \in Nat /\ signal' = signal
  BY <1>0, <1>2 DEF ApplyPlan, Edit, world
<1>3. ASSUME StartIsland \/ EndIsland \/ EndBatch \/ FlushDone \/ ApplyFails
      PROVE  UNCHANGED <<edits, signal>>
  BY <1>3 DEF StartIsland, EndIsland, EndBatch, FlushDone, ApplyFails, StartFlush, Refused,
              GiveUp, world
<1>4. ASSUME Abandon \/ EndRest \/ Abort \/ Finished \/ UNCHANGED vars
      PROVE  edits' = edits /\ (signal => signal')
  BY <1>4 DEF Abandon, EndRest, Abort, Finished, world, vars
<1> QED
  BY <1>0, <1>1, <1>2, <1>3, <1>4 DEF Next

(* What is calm after a step was calm before it, with the same calls. *)
LEMMA CalmStep ==
  ASSUME TypeOK, TypeOK', [Next]_vars, Calm'
  PROVE  Calm /\ (BarriersOnly' <=> BarriersOnly) /\ fails' = 0 /\ signal' = FALSE
<1>1. edits <= edits' /\ edits' \in Nat /\ edits \in Nat /\ (signal => signal')
  BY WorldStep, BatchAssumption DEF TypeOK
<1>2. UNCHANGED given /\ (fails' = 0 => fails = 0)
  BY GivenStep
<1>3. signal \in BOOLEAN /\ signal' \in BOOLEAN
  BY DEF TypeOK
<1>4. BarriersOnly' <=> BarriersOnly
  BY <1>2 DEF BarriersOnly, given, N, Op
<1> QED
  BY <1>1, <1>2, <1>3, <1>4 DEF Calm

(* In the island that runs, no other call does anything to a call's file. *)
LEMMA InIsland ==
  ASSUME TypeOK, Partition(starts), Turns, pc = "run", NEW k \in Island(at)
  PROVE  /\ k \in 1 .. N /\ k >= at
         /\ ~Declared(k) => k = at /\ Island(at) = {at}
         /\ \A j \in 1 .. N : j # k /\ j >= at /\ res[j] # "none" =>
              Declared(j) /\ Declared(k) /\ ~Collide(j, k) /\ ~Collide(k, j)
         /\ \A j \in k + 1 .. N : ~Does(j, File(k))
<1>1. N \in Nat /\ at \in 1 .. N + 1
  BY CallTypes DEF TypeOK
<1>2. k \in 1 .. N /\ k >= at /\ Island(at) \subseteq at .. N
  BY <1>1 DEF Island
<1>3. ASSUME NEW j \in Island(at), j # k
      PROVE  Declared(j) /\ Declared(k) /\ ~Collide(j, k) /\ ~Collide(k, j)
  <2>1. j \in at .. N
    BY <1>2
  <2>2. CASE j < k
    BY <1>1, <2>2, IslandsApart DEF Collide
  <2>3. CASE k < j
    BY <1>1, <2>3, IslandsApart DEF Collide
  <2> QED
    BY <1>1, <1>2, <1>3, <2>1, <2>2, <2>3
<1>4. at \in Island(at)
  BY <1>1, <1>2 DEF Island
<1>5. ~Declared(k) => k = at /\ Island(at) = {at}
  <2>1. ~Declared(k) => \A j \in Island(at) : j = k
    BY <1>3
  <2> QED
    BY <1>4, <2>1
<1>6. ASSUME NEW j \in 1 .. N, j # k, j >= at, res[j] # "none"
      PROVE  Declared(j) /\ Declared(k) /\ ~Collide(j, k) /\ ~Collide(k, j)
  BY <1>3, <1>6 DEF Turns
<1>7. ASSUME NEW j \in k + 1 .. N PROVE ~Does(j, File(k))
  <2>1. j \in 1 .. N /\ j # k /\ j >= at
    BY <1>1, <1>2
  <2>2. res[j] = "ok" => res[j] # "none"
    OBVIOUS
  <2> QED
    BY <1>6, <2>1, <2>2 DEF Does, Collide, Looks
<1> QED
  BY <1>2, <1>5, <1>6, <1>7

(* A call answers ok that has done something to its file: the file is as the call
   makes it, the others and what was before the call are as they were. *)
LEMMA SerialCall ==
  ASSUME TypeOK, TypeOK', UNCHANGED given, NEW k \in 1 .. N, res[k] # "ok",
         res' = [res EXCEPT ![k] = "ok"], ~Looks(k), \A j \in k + 1 .. N : ~Does(j, File(k))
  PROVE  /\ \A f \in Files : f # File(k) => \A i \in 0 .. N : Serially'[i][f] = Serially[i][f]
         /\ \A f \in Files, i \in 0 .. k - 1 : Serially'[i][f] = Serially[i][f]
         /\ \A i \in k - 1 .. N : Serially[i][File(k)] = Serially[k - 1][File(k)]
         /\ \A i \in k .. N : Serially'[i][File(k)] = Made(k, Serially[N][File(k)])
<1>1. /\ N' = N /\ N \in Nat /\ File(k) \in Files
      /\ \A i \in 1 .. N : Op(i)' = Op(i) /\ File(i)' = File(i) /\ Looks(i)' = Looks(i)
  BY GivenIs
<1>2. res \in [1 .. N -> Results]
  BY DEF TypeOK
<1>3. \A i \in 1 .. N, f \in Files : i # k => (Does(i, f)' <=> Does(i, f))
  BY <1>1, <1>2 DEF Does
<1>4. \A f \in Files : f # File(k) => (Does(k, f)' <=> Does(k, f))
  BY <1>1, <1>2 DEF Does
<1>5. ASSUME NEW f \in Files, f # File(k)
      PROVE  \A i \in 0 .. N : Serially'[i][f] = Serially[i][f]
  <2>1. \A i \in 1 .. N : Does(i, f)' <=> Does(i, f)
    BY <1>3, <1>4, <1>5
  <2>2. N \in 0 .. N
    BY <1>1
  <2> QED
    BY <2>1, <2>2, SerialSame
<1>6. ASSUME NEW f \in Files PROVE \A i \in 0 .. k - 1 : Serially'[i][f] = Serially[i][f]
  <2>1. k - 1 \in 0 .. N
    BY <1>1
  <2>2. \A i \in 1 .. k - 1 : i \in 1 .. N /\ i # k
    BY <1>1
  <2>3. \A i \in 1 .. k - 1 : Does(i, f)' <=> Does(i, f)
    BY <1>3, <2>2
  <2> QED
    BY <2>1, <2>3, SerialSame
<1> DEFINE F == File(k)
<1>7. \A i \in k - 1 .. N : Serially[i][F] = Serially[k - 1][F]
  <2>1. k - 1 \in 0 .. N /\ (k - 1) + 1 = k
    BY <1>1
  <2>2. \A i \in k .. N : ~Does(i, F)
    BY <1>1 DEF Does
  <2> QED
    BY <1>1, <2>1, <2>2, SerialRests DEF Rests
<1>8. ASSUME NEW f \in Files, f = File(k)
      PROVE  \A i \in k .. N : Serially'[i][f] = Serially'[k][f]
  <2>1. k \in 0 .. N
    BY <1>1
  <2>2. \A i \in k + 1 .. N : i \in 1 .. N /\ i # k
    BY <1>1
  <2>3. \A i \in k + 1 .. N : ~Does(i, f)'
    BY <1>1, <1>3, <1>8, <2>2
  <2>4. Rests'
    BY SerialRestsNext
  <2> QED
    BY <1>1, <2>1, <2>3, <2>4 DEF Rests
<1>9. Serially'[k][F] = Made(k, Serially[N][F])
  <2>1. FileSteps'
    BY SerialFilesNext
  <2>2. Does(k, F)'
    BY <1>1, <1>2 DEF Does
  <2>3. Serially'[k][F] = Made(k, Serially[k - 1][F])'
    BY <1>1, <2>1, <2>2 DEF FileSteps
  <2>4. Made(k, Serially[k - 1][F])' = Made(k, Serially'[k - 1][F])
    BY <1>1 DEF Made, given, Op, Barrier, ShellText, File
  <2>5. Serially'[k - 1][F] = Serially[k - 1][F]
    <3>1. k - 1 \in 0 .. k - 1
      BY <1>1
    <3> QED
      BY <1>1, <1>6, <3>1
  <2>6. Serially[N][F] = Serially[k - 1][F]
    BY <1>1, <1>7
  <2> QED
    BY <2>3, <2>4, <2>5, <2>6
<1>10. \A i \in k .. N : Serially'[i][F] = Serially'[k][F]
  BY <1>1, <1>8
<1> QED
  BY <1>5, <1>6, <1>7, <1>9, <1>10

(* When no call has done anything new, nothing changes. *)
LEMMA SerialQuiet ==
  ASSUME TypeOK, TypeOK', UNCHANGED given,
         \A i \in 1 .. N, f \in Files : Does(i, f)' <=> Does(i, f)
  PROVE  \A f \in Files, i \in 0 .. N : Serially'[i][f] = Serially[i][f]
<1> SUFFICES ASSUME NEW f \in Files PROVE \A i \in 0 .. N : Serially'[i][f] = Serially[i][f]
  OBVIOUS
<1>1. N \in 0 .. N
  BY GivenIs
<1> QED
  BY <1>1, SerialSame

\* The parts of StartIsland and EndBatch.
Starts ==
  /\ pc = "next" /\ flush = "none" /\ at <= N /\ ~(Barrier(at) /\ HasEntries)
  /\ pc' = "run"
  /\ UNCHANGED <<given, disk, log, safe, at, pending, res, seen, world>>

Ends ==
  /\ pc = "next" /\ flush = "none" /\ at = N + 1 /\ ~HasEntries
  /\ pc' = "done"
  /\ UNCHANGED <<given, disk, log, safe, at, pending, res, seen, world>>

Between(who) ==
  /\ pc = "next" /\ flush = "none"
  /\ \/ who = "barrier" /\ at <= N /\ Barrier(at)
     \/ who = "final" /\ at = N + 1

Flushes(who) == Between(who) /\ StartFlush(who) /\ UNCHANGED res
Refuses(who) == Between(who) /\ Refused(who)

\* A call of the island that runs.
Calls1(k) ==
  /\ pc = "run" /\ flush = "none" /\ k \in Island(at)
  /\ \/ View(k) \/ EditReads(k) \/ EditStages(k) \/ EditMisses(k) \/ WriteOrDelete(k)
     \/ Shell(k) \/ GitLooks(k) \/ GitFlushes(k)

(* Without edits no flush is refused. *)
LEMMA Refusals ==
  ASSUME TypeOK, OneByOne, Calm, NEW f \in Files, Conflict(f), flush = "none"
  PROVE  BarriersOnly
<1>1. CASE edits = 0
  <2>1. entries[f] # NoEntry => Near(0, disk[f], entries[f].base)
    BY <1>1 DEF OneByOne
  <2> QED
    BY <2>1, NoConflict
<1> QED
  BY <1>1 DEF Calm

(* What a step can be while no fault has come and no abort. *)
LEMMA CalmCases ==
  ASSUME TypeOK, TypeOK', Control, OneByOne, [Next]_vars, Calm'
  PROVE  \/ \E k \in 1 .. N : Calls1(k)
         \/ \E f \in Files : ApplyPlan(f) \/ (BarriersOnly /\ \E r \in Regions : Edit(f, r))
         \/ FlushDone \/ EndIsland \/ Starts \/ Ends
         \/ \E who \in {"barrier", "final"} : Flushes(who) \/ (BarriersOnly /\ Refuses(who))
         \/ UNCHANGED vars
<1>1. Calm /\ fails' = 0 /\ fails = 0 /\ signal' = FALSE /\ signal = FALSE
  BY CalmStep DEF Calm, TypeOK
<1>2. ASSUME NEW k \in 1 .. N,
             \/ View(k) \/ EditReads(k) \/ EditStages(k) \/ EditMisses(k) \/ WriteOrDelete(k)
             \/ Shell(k) \/ GitLooks(k) \/ GitFlushes(k)
      PROVE  Calls1(k)
  <2>1. Ready(k)
    BY <1>2 DEF View, EditReads, EditStages, EditMisses, WriteOrDelete, Shell, GitLooks,
                GitFlushes
  <2>2. pc = "run" /\ flush = "none" /\ k \in Island(at)
    BY <2>1 DEF Ready, Control
  <2> QED
    BY <1>2, <2>2 DEF Calls1
<1>3. ASSUME NEW k \in 1 .. N, GitRefused(k) PROVE FALSE
  <2>1. flush = "none" /\ Op(k) = "git" /\ \E f \in Files : Conflict(f)
    BY <1>3 DEF GitRefused, Ready
  <2>2. BarriersOnly
    BY <1>1, <2>1, Refusals
  <2> QED
    BY <2>1, <2>2 DEF BarriersOnly
<1>4. ASSUME NEW f \in Files, NEW r \in Regions, Edit(f, r) PROVE BarriersOnly
  <2>1. edits \in Nat /\ edits' = edits + 1
    BY <1>4, BatchAssumption DEF Edit, TypeOK
  <2>2. BarriersOnly' <=> BarriersOnly
    BY CalmStep
  <2> QED
    BY <2>1, <2>2 DEF Calm
<1>5. ~ApplyFails
  BY <1>1 DEF ApplyFails
<1>6. ASSUME NEW who, Refused(who) PROVE BarriersOnly
  BY <1>1, <1>6, Refusals DEF Refused
<1>7. CASE StartIsland
  <2>1. pc = "next" /\ flush = "none" /\ at <= N
    BY <1>7 DEF StartIsland
  <2>2. \/ Starts
        \/ Barrier(at) /\ StartFlush("barrier") /\ UNCHANGED res
        \/ Barrier(at) /\ Refused("barrier")
    BY <1>7 DEF StartIsland, Starts
  <2> QED
    BY <1>6, <2>1, <2>2 DEF Flushes, Refuses, Between
<1>8. CASE EndBatch
  <2>1. pc = "next" /\ flush = "none" /\ at = N + 1
    BY <1>8 DEF EndBatch
  <2>2. Ends \/ (StartFlush("final") /\ UNCHANGED res) \/ Refused("final")
    BY <1>8 DEF EndBatch, Ends
  <2> QED
    BY <1>6, <2>1, <2>2 DEF Flushes, Refuses, Between
<1>9. ~Abandon /\ ~Abort /\ ~EndRest
  BY <1>1 DEF Abandon, Abort, EndRest, Control
<1> QED
  BY <1>2, <1>3, <1>4, <1>5, <1>7, <1>8, <1>9 DEF Next, Finished

(* A step keeps who flushes and when. *)
LEMMA ControlStep ==
  ASSUME TypeOK, TypeOK', Partition(starts), Control, Turns, OneByOne, [Next]_vars, Calm'
  PROVE  Control'
<1>0. /\ UNCHANGED given /\ N' = N /\ N \in Nat /\ at \in 1 .. N + 1
      /\ \A i \in 1 .. N : Barrier(i)' = Barrier(i) /\ Op(i)' = Op(i)
  BY GivenStep, GivenIs
<1>1. ASSUME NEW k \in 1 .. N, Calls1(k) PROVE Control'
  <2>1. pc = "run" /\ flush = "none" /\ k \in Island(at) /\ at <= N /\ at \in 1 .. N
    BY <1>0, <1>1 DEF Calls1, Control
  <2>2. ~Declared(k) => k = at
    BY <2>1, InIsland
  <2>3. CASE GitFlushes(k)
    <3>1. Op(k) = "git" /\ flush' = "git" /\ UNCHANGED <<pc, at>>
      BY <2>3 DEF GitFlushes, StartFlush
    <3>2. k = at
      BY <2>2, <3>1 DEF Declared
    <3> QED
      BY <1>0, <2>1, <3>1, <3>2 DEF Control, Barrier
  <2>4. CASE ~GitFlushes(k)
    <3>1. UNCHANGED <<pc, at, plans, flush>>
      BY <1>1, <2>4 DEF Calls1, View, EditReads, EditStages, EditMisses, WriteOrDelete, Shell,
                        GitLooks, sched, log
    <3>2. CASE EditStages(k) \/ WriteOrDelete(k)
      <4>1. Op(k) \in {"edit", "write", "delete"}
        BY <3>2 DEF EditStages, WriteOrDelete
      <4>2. ~Barrier(at)
        <5>1. CASE Barrier(at)
          <6>1. at \in Island(at)
            BY <1>0, <2>1 DEF Island
          <6>2. ~Declared(at)
            BY <5>1 DEF Barrier, Declared
          <6>3. Island(at) = {at}
            BY <2>1, <6>1, <6>2, InIsland
          <6>4. k = at
            BY <2>1, <6>3
          <6> QED
            BY <4>1, <5>1, <6>4 DEF Barrier
        <5> QED
          BY <5>1
      <4> QED
        BY <1>0, <2>1, <3>1, <4>2 DEF Control
    <3>3. CASE ~(EditStages(k) \/ WriteOrDelete(k))
      <4>1. entries' = entries
        BY <1>1, <2>4, <3>3 DEF Calls1, View, EditReads, EditMisses, Shell, GitLooks, log
      <4> QED
        BY <1>0, <2>1, <3>1, <4>1 DEF Control, NoLog
    <3> QED
      BY <3>2, <3>3
  <2> QED
    BY <2>3, <2>4
<1>2. ASSUME NEW f \in Files, ApplyPlan(f) PROVE Control'
  BY <1>0, <1>2 DEF ApplyPlan, Control, NoLog, sched
<1>3. ASSUME NEW f \in Files, NEW r \in Regions, Edit(f, r) PROVE Control'
  BY <1>0, <1>3 DEF Edit, Control, NoLog, sched, log
<1>4. CASE FlushDone
  <2>1. /\ flush # "none" /\ flush' = "none" /\ plans' = plans /\ NoLog'
        /\ \A f \in Files : plans[f] = NoEntry
    BY <1>4 DEF FlushDone, Forget, NoLog
  <2>2. CASE flush = "barrier"
    BY <1>0, <1>4, <2>1, <2>2 DEF FlushDone, AfterBarrier, Control
  <2>3. CASE flush = "final"
    BY <1>0, <1>4, <2>1, <2>3 DEF FlushDone, AfterFinal, Control
  <2>4. CASE flush = "git"
    BY <1>0, <1>4, <2>1, <2>4 DEF FlushDone, sched, Control
  <2> QED
    BY <2>1, <2>2, <2>3, <2>4 DEF Control
<1>5. CASE EndIsland
  BY <1>0, <1>5 DEF EndIsland, Control, log
<1>6. CASE Starts
  BY <1>0, <1>6 DEF Starts, Control, log, NoLog, HasEntries
<1>7. CASE Ends
  BY <1>0, <1>7 DEF Ends, Control, log, NoLog, HasEntries
<1>8. ASSUME NEW who \in {"barrier", "final"}, Flushes(who) PROVE Control'
  BY <1>0, <1>8 DEF Flushes, Between, StartFlush, Control
<1>9. ASSUME NEW who \in {"barrier", "final"}, Refuses(who) PROVE Control'
  <2>1. flush' = "none" /\ NoLog' /\ \A f \in Files : plans'[f] = NoEntry
    BY <1>9 DEF Refuses, Refused, GiveUp, Forget, NoPlans, NoLog
  <2> QED
    BY <1>0, <1>9, <2>1
       DEF Refuses, Between, Refused, GiveUp, AfterBarrier, AfterFinal, Control
<1>10. CASE UNCHANGED vars
  BY <1>0, <1>10 DEF vars, Control, NoLog
<1> QED
  BY <1>1, <1>2, <1>3, <1>4, <1>5, <1>6, <1>7, <1>8, <1>9, <1>10, CalmCases

(* A step keeps the order of the answers. *)
LEMMA TurnsStep ==
  ASSUME TypeOK, TypeOK', Partition(starts), Control, Turns, OneByOne, [Next]_vars, Calm'
  PROVE  Turns'
<1>0. /\ UNCHANGED given /\ N' = N /\ N \in Nat /\ at \in 1 .. N + 1
      /\ \A i \in 1 .. N : Op(i)' = Op(i)
      /\ \A s \in 1 .. N + 1 : Island(s)' = Island(s)
      /\ res \in [1 .. N -> Results]
  BY GivenStep, GivenIs DEF TypeOK
<1>1. ASSUME NEW k \in 1 .. N, Calls1(k) PROVE Turns'
  <2>1. /\ pc = "run" /\ flush = "none" /\ k \in Island(at) /\ UNCHANGED <<pc, at>>
        /\ \E r \in Results : /\ res' = [res EXCEPT ![k] = r]
                              /\ r = "reading" => \/ Op(k) = "edit"
                                                  \/ Op(k) = "git" /\ flush' = "git"
    BY <1>1 DEF Calls1, View, EditReads, EditStages, EditMisses, WriteOrDelete, Shell,
                GitLooks, GitFlushes, StartFlush, Answer, sched, Results, Answered
  <2>2. k >= at
    BY <1>0, <2>1 DEF Island
  <2> QED
    BY <1>0, <2>1, <2>2 DEF Turns
<1>2. ASSUME NEW f \in Files, ApplyPlan(f) PROVE Turns'
  BY <1>0, <1>2 DEF ApplyPlan, Turns, sched
<1>3. ASSUME NEW f \in Files, NEW r \in Regions, Edit(f, r) PROVE Turns'
  BY <1>0, <1>3 DEF Edit, Turns, sched, log
<1>4. CASE FlushDone
  <2>1. CASE flush = "barrier"
    BY <1>0, <1>4, <2>1 DEF FlushDone, AfterBarrier, Control, Turns
  <2>2. CASE flush = "final"
    BY <1>0, <1>4, <2>2 DEF FlushDone, AfterFinal, Control, Turns
  <2>3. CASE flush = "git"
    <3>1. /\ UNCHANGED <<pc, at>>
          /\ res' = [i \in 1 .. N |-> IF res[i] = "reading" THEN "ok" ELSE res[i]]
      BY <1>4, <2>3 DEF FlushDone, sched
    <3> QED
      BY <1>0, <3>1 DEF Turns, Answered
  <2> QED
    BY <1>4, <2>1, <2>2, <2>3 DEF FlushDone, Control
<1>5. CASE EndIsland
  <2>1. PICK s \in at + 1 .. N + 1 : Island(at) = at .. s - 1 /\ at' = s
    BY <1>5 DEF EndIsland
  <2>2. /\ pc = "run" /\ pc' = "next" /\ res' = res /\ flush' = flush
        /\ \A i \in Island(at) : res[i] \in Answered
    BY <1>5 DEF EndIsland, log
  <2>3. ASSUME NEW i \in 1 .. N, i >= at' PROVE res'[i] = "none"
    <3>1. i >= at /\ i \notin Island(at)
      BY <1>0, <2>1, <2>3
    <3> QED
      BY <2>2, <3>1 DEF Turns
  <2>4. ASSUME NEW i \in 1 .. N, i < at' PROVE res'[i] \in Answered
    <3>1. i < at \/ i \in Island(at)
      BY <1>0, <2>1, <2>4
    <3> QED
      BY <2>2, <3>1 DEF Turns
  <2> QED
    BY <1>0, <2>2, <2>3, <2>4 DEF Turns
<1>6. CASE Starts \/ Ends
  BY <1>0, <1>6 DEF Starts, Ends, Turns, log
<1>8. ASSUME NEW who \in {"barrier", "final"}, Flushes(who) PROVE Turns'
  <2>1. UNCHANGED <<pc, at, res>> /\ pc = "next" /\ flush = "none"
    BY <1>8 DEF Flushes, Between, StartFlush
  <2> QED
    BY <1>0, <2>1 DEF Turns
<1>9. ASSUME NEW who \in {"barrier", "final"}, Refuses(who) PROVE Turns'
  <2>1. pc = "next" /\ flush = "none" /\ flush' = "none" /\ at' = at /\ res' = RolledBack(pending)
    BY <1>9 DEF Refuses, Between, Refused, GiveUp, AfterBarrier, AfterFinal
  <2>2. \A i \in 1 .. N : res'[i] = res[i] \/ (res[i] = "ok" /\ res'[i] = "undone")
    BY <1>0, <2>1 DEF RolledBack
  <2> QED
    BY <1>0, <2>1, <2>2 DEF Turns, Answered
<1>10. CASE UNCHANGED vars
  BY <1>0, <1>10 DEF vars, Turns
<1> QED
  BY <1>1, <1>2, <1>3, <1>4, <1>5, <1>6, <1>8, <1>9, <1>10, CalmCases

(* A refused flush undoes the writes that wait: the batch is its first b calls. *)
LEMMA SerialBack ==
  ASSUME TypeOK, TypeOK', UNCHANGED given, Waiting, pc = "next", res' = RolledBack(pending),
         NEW b \in 0 .. N, Split(b), NEW f \in Files
  PROVE  /\ \A i \in 0 .. b : Serially'[i][f] = Serially[i][f]
         /\ Serially'[N][f] = Serially[b][f]
<1>0. /\ N' = N /\ N \in Nat /\ res \in [1 .. N -> Results] /\ pending \subseteq 1 .. N
      /\ \A i \in 1 .. N : File(i)' = File(i) /\ Looks(i)' = Looks(i) /\ Op(i) \in Ops
  BY GivenIs DEF TypeOK
<1>1. \A i \in 1 .. N : res'[i] = IF i \in pending /\ res[i] = "ok" THEN "undone" ELSE res[i]
  BY <1>0 DEF RolledBack
<1>2. ASSUME NEW i \in 1 .. b PROVE Does(i, f)' <=> Does(i, f)
  <2>1. i \in 1 .. N /\ ~(i > b)
    BY <1>0
  <2>2. CASE i \in pending /\ res[i] = "ok"
    <3>1. Declared(i) /\ ~Writes(i)
      BY <2>1, <2>2 DEF Split, Waiting
    <3>2. Looks(i)
      BY <3>1 DEF Declared, Writes, Looks
    <3> QED
      BY <1>0, <2>1, <3>2 DEF Does
  <2>3. CASE ~(i \in pending /\ res[i] = "ok")
    BY <1>0, <1>1, <2>1, <2>3 DEF Does
  <2> QED
    BY <2>2, <2>3
<1>3. \A i \in 0 .. b : Serially'[i][f] = Serially[i][f]
  BY <1>2, SerialSame
<1>4. ASSUME NEW i \in b + 1 .. N PROVE ~Does(i, f)'
  <2>1. i \in 1 .. N /\ i > b
    BY <1>0
  <2>2. SUFFICES ASSUME res'[i] = "ok", ~Looks(i) PROVE FALSE
    BY <1>0, <2>1 DEF Does
  <2>3. res[i] = "ok" /\ i \notin pending
    BY <1>1, <2>1, <2>2
  <2>4. Held(i)
    BY <2>1, <2>2, <2>3 DEF Split
  <2> QED
    BY <2>3, <2>4 DEF Held, Running
<1>5. Serially'[N][f] = Serially'[b][f]
  <2>1. Rests'
    BY SerialRestsNext
  <2>2. N \in b .. N
    BY <1>0
  <2> QED
    BY <1>0, <1>4, <2>1, <2>2 DEF Rests
<1>6. b \in 0 .. b
  BY <1>0
<1> QED
  BY <1>3, <1>5, <1>6

(* A call is answered and nothing is done to a file. *)
LEMMA SerialLooked ==
  ASSUME TypeOK, TypeOK', UNCHANGED given, NEW k \in 1 .. N, NEW r, res' = [res EXCEPT ![k] = r],
         res[k] # "ok", r # "ok" \/ Looks(k)
  PROVE  \A f \in Files, i \in 0 .. N : Serially'[i][f] = Serially[i][f]
<1>1. /\ res \in [1 .. N -> Results] /\ N' = N
      /\ \A i \in 1 .. N : File(i)' = File(i) /\ Looks(i)' = Looks(i)
  BY GivenIs DEF TypeOK
<1>2. \A i \in 1 .. N, f \in Files : Does(i, f)' <=> Does(i, f)
  BY <1>1 DEF Does
<1> QED
  BY <1>2, SerialQuiet

\* A call that leaves all files as they are, or one that changes its own.
Peeks(k) ==
  View(k) \/ EditReads(k) \/ EditMisses(k) \/ GitLooks(k) \/ GitFlushes(k)

Changes1(k) == EditStages(k) \/ WriteOrDelete(k) \/ Shell(k)

(* A call that leaves all files as they are changes nothing in Serially. *)
LEMMA SerialPeeks ==
  ASSUME TypeOK, TypeOK', UNCHANGED given, NEW k \in 1 .. N, Peeks(k)
  PROVE  \A f \in Files, i \in 0 .. N : Serially'[i][f] = Serially[i][f]
<1>1. PICK r : res' = [res EXCEPT ![k] = r] /\ res[k] # "ok" /\ (r # "ok" \/ Looks(k))
  BY DEF Peeks, View, EditReads, EditMisses, GitLooks, GitFlushes, Answer, Looks
<1> QED
  BY <1>1, SerialLooked

(* A call of the island that changes its file changes it in Serially, from then on. *)
LEMMA SerialChanges ==
  ASSUME TypeOK, TypeOK', UNCHANGED given, Partition(starts), Turns,
         NEW k \in 1 .. N, pc = "run", k \in Island(at), Changes1(k)
  PROVE  /\ \A f \in Files : f # File(k) => \A i \in 0 .. N : Serially'[i][f] = Serially[i][f]
         /\ \A f \in Files, i \in 0 .. k - 1 : Serially'[i][f] = Serially[i][f]
         /\ \A i \in k - 1 .. N : Serially[i][File(k)] = Serially[k - 1][File(k)]
         /\ \A i \in k .. N : Serially'[i][File(k)] = Made(k, Serially[N][File(k)])
<1>1. res[k] # "ok" /\ res' = [res EXCEPT ![k] = "ok"] /\ ~Looks(k)
  BY DEF Changes1, EditStages, WriteOrDelete, Shell, Answer, Looks, Barrier
<1>2. \A j \in k + 1 .. N : ~Does(j, File(k))
  BY InIsland
<1> QED
  BY <1>1, <1>2, SerialCall

(* What call k stages is near what it makes of its file, one call after the other. *)
LEMMA Staging ==
  ASSUME TypeOK, NEW k \in 1 .. N, EditStages(k) \/ WriteOrDelete(k), OneByOne, Looked, ReadsText,
         NEW text,
         text = IF Op(k) = "edit" THEN [seen[k] EXCEPT ![batch[k].at] = k]
                ELSE IF Op(k) = "write" THEN [r \in Regions |-> k] ELSE NoFile
  PROVE  /\ Near(edits, text, Made(k, Serially[N][File(k)]))
         /\ Stage(File(k), text) /\ text \in Texts
<1>1. k \in Marks /\ batch[k].at \in Regions
  BY CallTypes DEF TypeOK
<1>2. ASSUME EditStages(k)
      PROVE  Near(edits, text, Made(k, Serially[N][File(k)])) /\ Stage(File(k), text)
  <2>1. Op(k) = "edit" /\ res[k] = "reading" /\ seen[k] # NoFile
        /\ Near(edits, seen[k], Serially[N][File(k)])
    BY <1>2 DEF EditStages, Looked, ReadsText
  <2>2. Near(edits, [seen[k] EXCEPT ![batch[k].at] = k],
                    [Serially[N][File(k)] EXCEPT ![batch[k].at] = k])
    BY <1>1, <2>1, NearLine
  <2>3. Made(k, Serially[N][File(k)]) = [Serially[N][File(k)] EXCEPT ![batch[k].at] = k]
    BY <2>1 DEF Made, Barrier
  <2>4. text = [seen[k] EXCEPT ![batch[k].at] = k]
    BY <2>1
  <2>5. Stage(File(k), [seen[k] EXCEPT ![batch[k].at] = k])
    BY <1>2 DEF EditStages
  <2> QED
    BY <2>2, <2>3, <2>4, <2>5
<1>3. ASSUME WriteOrDelete(k)
      PROVE  Near(edits, text, Made(k, Serially[N][File(k)])) /\ Stage(File(k), text)
  <2>1. /\ Op(k) \in {"write", "delete"}
        /\ Stage(File(k), IF Op(k) = "write" THEN [r \in Regions |-> k] ELSE NoFile)
    BY <1>3 DEF WriteOrDelete
  <2>2. Near(edits, NoFile, NoFile) /\ Near(edits, [r \in Regions |-> k], [r \in Regions |-> k])
    BY <1>1, WholeTypes, NearSelf DEF Texts
  <2>3. CASE Op(k) = "write"
    <3>1. Made(k, Serially[N][File(k)]) = [r \in Regions |-> k]
      BY <2>3 DEF Made, Barrier
    <3>2. text = [r \in Regions |-> k]
      BY <2>3
    <3> QED
      BY <2>1, <2>2, <2>3, <3>1, <3>2
  <2>4. CASE Op(k) = "delete"
    <3>1. Made(k, Serially[N][File(k)]) = NoFile
      BY <2>4 DEF Made, Barrier
    <3>2. text = NoFile
      BY <2>4
    <3> QED
      BY <2>1, <2>2, <2>4, <3>1, <3>2
  <2> QED
    BY <2>1, <2>3, <2>4
<1>4. Near(edits, text, Made(k, Serially[N][File(k)])) => text \in Texts
  BY DEF Near, Texts
<1> QED
  BY <1>2, <1>3, <1>4

(* What stands in the log when call k has staged its text. *)
LEMMA StagedEntry ==
  ASSUME TypeOK, NEW f \in Files, NEW text \in Texts, Stage(f, text)
  PROVE  /\ entries'[f] # NoEntry /\ entries'[f].staged = text
         /\ entries'[f].base = IF entries[f] # NoEntry /\ entries[f].base # NoFile
                               THEN entries[f].base ELSE disk[f]
         /\ \A h \in Files : h # f => entries'[h] = entries[h]
<1> DEFINE base == IF entries[f] # NoEntry /\ entries[f].base # NoFile
                   THEN entries[f].base ELSE disk[f]
<1>1. entries' = [entries EXCEPT ![f] = [base |-> base, staged |-> text]]
  BY DEF Stage
<1>2. entries'[f] = [base |-> base, staged |-> text] /\ \A h \in Files : h # f => entries'[h] = entries[h]
  BY <1>1 DEF TypeOK
<1>3. base \in Texts
  BY DEF TypeOK
<1> HIDE DEF base
<1>4. [base |-> base, staged |-> text] # NoEntry
  BY <1>3, BatchAssumption
<1>5. entries'[f].staged = text /\ entries'[f].base = base /\ entries'[f] # NoEntry
  BY <1>2, <1>4
<1> QED
  BY <1>2, <1>5 DEF base

(* When neither the files nor what they come to changes, nothing does. *)
LEMMA OneByOneKept ==
  ASSUME OneByOne, N' = N, \A f \in Files : Serially'[N][f] = Serially[N][f],
         UNCHANGED <<disk, entries, plans, flush, edits>>
  PROVE  OneByOne'
BY DEF OneByOne, Overlay, Coming

(* A step keeps that every file reads as the calls so far have left it: a call that
   stages, a flush that writes, a refused flush that takes back, an edit from outside. *)
LEMMA OneByOneStep ==
  ASSUME TypeOK, TypeOK', Partition(starts), ReadsText, Control, Turns, Waiting, OneByOne, Looked,
         Backed, [Next]_vars, Calm'
  PROVE  OneByOne'
<1>0. /\ UNCHANGED given /\ N' = N /\ N \in Nat /\ at \in 1 .. N + 1 /\ N \in 0 .. N
      /\ \A i \in 1 .. N : File(i)' = File(i) /\ Looks(i)' = Looks(i) /\ File(i) \in Files
  BY GivenStep, GivenIs
<1>1. ASSUME NEW k \in 1 .. N, Calls1(k), Peeks(k) PROVE OneByOne'
  <2>1. \A f \in Files : Serially'[N][f] = Serially[N][f]
    BY <1>0, <1>1, SerialPeeks
  <2>2. CASE GitFlushes(k)
    <3>1. StartFlush("git")
      BY <2>2 DEF GitFlushes
    <3>2. /\ flush = "none" /\ flush' # "none" /\ UNCHANGED <<disk, entries, edits>>
          /\ \A f \in Files : plans'[f] = Planned(f) /\ ~Conflict(f)
      BY <3>1 DEF StartFlush, world
    <3>3. ASSUME NEW f \in Files PROVE Near(edits, Coming(f)', Serially[N][f])
      <4>1. CASE entries[f] = NoEntry
        BY <3>2, <4>1 DEF Coming, Planned, OneByOne, Overlay
      <4>2. CASE entries[f] # NoEntry
        BY <3>2, <4>2, NearPlanned DEF Coming, OneByOne, Overlay
      <4> QED
        BY <4>1, <4>2
    <3> QED
      BY <1>0, <2>1, <3>2, <3>3 DEF OneByOne
  <2>3. CASE ~GitFlushes(k)
    <3>1. UNCHANGED <<disk, entries, plans, flush, edits>>
      BY <1>1, <2>3 DEF Peeks, View, EditReads, EditMisses, GitLooks, log, world
    <3> QED
      BY <1>0, <2>1, <3>1, OneByOneKept
  <2> QED
    BY <2>2, <2>3
<1>2. ASSUME NEW k \in 1 .. N, Calls1(k), Changes1(k) PROVE OneByOne'
  <2> DEFINE F == File(k)
  <2>1. /\ pc = "run" /\ flush = "none" /\ k \in Island(at) /\ F \in Files
        /\ UNCHANGED <<flush, plans, edits>>
    BY <1>0, <1>2 DEF Calls1, Changes1, EditStages, WriteOrDelete, Shell, log, world
  <2>2. /\ \A f \in Files : f # F => Serially'[N][f] = Serially[N][f]
        /\ Serially'[N][F] = Made(k, Serially[N][F])
    <3>1. N \in k .. N
      BY <1>0
    <3> QED
      BY <1>0, <1>2, <2>1, <3>1, SerialChanges
  <2>3. ASSUME NEW f \in Files, f # F
        PROVE  /\ Near(edits, Overlay(f)', Serially'[N][f])
               /\ entries'[f] # NoEntry => Near(edits, disk'[f], entries'[f].base)
    <3>1. disk'[f] = disk[f] /\ entries'[f] = entries[f]
      BY <1>2, <2>1, <2>3 DEF Changes1, EditStages, WriteOrDelete, Shell, Stage, log, TypeOK
    <3> QED
      BY <2>1, <2>2, <2>3, <3>1 DEF OneByOne, Overlay
  <2>5. ASSUME NEW f \in Files, f = F
        PROVE  /\ Near(edits, Overlay(f)', Serially'[N][f])
               /\ entries'[f] # NoEntry => Near(edits, disk'[f], entries'[f].base)
    <3>1. CASE EditStages(k) \/ WriteOrDelete(k)
      <4> DEFINE text == IF Op(k) = "edit" THEN [seen[k] EXCEPT ![batch[k].at] = k]
                         ELSE IF Op(k) = "write" THEN [r \in Regions |-> k] ELSE NoFile
      <4>1. Near(edits, text, Made(k, Serially[N][f])) /\ Stage(f, text) /\ text \in Texts
        BY <2>5, <3>1, Staging
      <4> HIDE DEF text
      <4>2. disk' = disk
        BY <3>1 DEF EditStages, WriteOrDelete
      <4>3. /\ entries'[f].staged = text /\ entries'[f] # NoEntry
            /\ entries'[f].base = IF entries[f] # NoEntry /\ entries[f].base # NoFile
                                  THEN entries[f].base ELSE disk[f]
        BY <4>1, StagedEntry
      <4>4. Near(edits, disk[f], entries'[f].base)
        <5>1. disk[f] \in Texts
          BY DEF TypeOK
        <5> QED
          BY <2>1, <4>3, <5>1, NearSelf DEF OneByOne
      <4>5. Overlay(f)' = text
        BY <4>3 DEF Overlay
      <4>6. Serially'[N][f] = Made(k, Serially[N][f])
        BY <2>2, <2>5
      <4> QED
        BY <4>1, <4>2, <4>4, <4>5, <4>6
    <3>2. CASE Shell(k)
      <4>1. NoLog
        <5>1. k = at
          BY <2>1, <3>2, InIsland DEF Shell, Barrier, Declared
        <5> QED
          BY <2>1, <3>2, <5>1 DEF Control, Shell
      <4>2. entries'[f] = NoEntry /\ Near(edits, disk[f], Serially[N][f])
        BY <2>1, <3>2, <4>1 DEF Shell, log, NoLog, OneByOne, Overlay
      <4>3. disk'[f] = ShellText(k, disk[f])
        BY <2>5, <3>2 DEF Shell, TypeOK
      <4>4. Near(edits, ShellText(k, disk[f]), ShellText(k, Serially[N][f]))
        BY <4>2, NearShell DEF TypeOK
      <4>5. Made(k, Serially[N][f]) = ShellText(k, Serially[N][f])
        BY <3>2 DEF Shell, Made, Barrier
      <4> QED
        BY <2>2, <2>5, <4>2, <4>3, <4>4, <4>5 DEF Overlay
    <3> QED
      BY <1>2, <3>1, <3>2 DEF Changes1
  <2>6. \A f \in Files : /\ Near(edits, Overlay(f)', Serially'[N][f])
                         /\ entries'[f] # NoEntry => Near(edits, disk'[f], entries'[f].base)
    BY <2>3, <2>5
  <2> QED
    BY <1>0, <2>1, <2>6 DEF OneByOne
<1>3. ASSUME NEW f \in Files, ApplyPlan(f) PROVE OneByOne'
  <2>1. /\ flush # "none" /\ flush' = flush /\ UNCHANGED <<res, edits>> /\ plans[f] # NoEntry
        /\ disk' = [disk EXCEPT ![f] = plans[f]] /\ plans' = [plans EXCEPT ![f] = NoEntry]
    BY <1>3 DEF ApplyPlan, world
  <2>2. \A h \in Files : Coming(h)' = Coming(h)
    BY <2>1 DEF Coming, TypeOK
  <2>3. \A h \in Files, i \in 0 .. N : Serially'[i][h] = Serially[i][h]
    BY <1>0, <2>1, SerialQuiet DEF Does
  <2> QED
    BY <1>0, <2>1, <2>2, <2>3 DEF OneByOne
<1>4. ASSUME NEW f \in Files, NEW r \in Regions, Edit(f, r) PROVE OneByOne'
  <2>1. /\ UNCHANGED <<res, entries, plans, flush>> /\ disk[f] # NoFile
        /\ disk' = [disk EXCEPT ![f] = [disk[f] EXCEPT ![r] = -edits']]
        /\ edits' = edits + 1 /\ edits \in Nat /\ edits' \in Nat \ {0} /\ -edits' \in Marks
        /\ Outside(-edits')
    BY <1>4, BatchAssumption DEF Edit, log, TypeOK, Marks, Outside
  <2>2. \A h \in Files, i \in 0 .. N : Serially'[i][h] = Serially[i][h]
    BY <1>0, <2>1, SerialQuiet DEF Does
  <2>3. \A x, y : Near(edits, x, y) => Near(edits', x, y)
    BY <2>1, NearLater
  <2>4. ASSUME NEW h \in Files, NEW y, Near(edits, disk[h], y) PROVE Near(edits', disk'[h], y)
    <3>1. Near(edits', disk[h], y)
      BY <2>3, <2>4
    <3>2. CASE h = f
      <4>1. disk'[f] = [disk[f] EXCEPT ![r] = -edits']
        BY <2>1 DEF TypeOK
      <4> QED
        BY <2>1, <3>1, <3>2, <4>1, NearOutside
    <3>3. CASE h # f
      BY <2>1, <3>1, <3>3 DEF TypeOK
    <3> QED
      BY <3>2, <3>3
  <2>5. ASSUME NEW h \in Files, flush = "none"
        PROVE  /\ Near(edits', Overlay(h)', Serially[N][h])
               /\ entries[h] # NoEntry => Near(edits', disk'[h], entries[h].base)
    BY <2>1, <2>3, <2>4, <2>5 DEF OneByOne, Overlay
  <2>6. ASSUME NEW h \in Files, flush # "none" PROVE Near(edits', Coming(h)', Serially[N][h])
    BY <2>1, <2>3, <2>4, <2>6 DEF OneByOne, Coming
  <2> QED
    BY <1>0, <2>1, <2>2, <2>5, <2>6 DEF OneByOne
<1>5. CASE FlushDone
  <2>1. /\ flush # "none" /\ flush' = "none" /\ UNCHANGED <<disk, plans, edits>>
        /\ \A f \in Files : plans[f] = NoEntry /\ entries'[f] = NoEntry
    BY <1>5 DEF FlushDone, Forget, world
  <2>2. \A f \in Files, i \in 0 .. N : Serially'[i][f] = Serially[i][f]
    <3>1. CASE flush # "git"
      <4>1. res' = res
        BY <1>5, <2>1, <3>1 DEF FlushDone, Control
      <4> QED
        BY <1>0, <4>1, SerialQuiet DEF Does
    <3>2. CASE flush = "git"
      <4>1. /\ res' = [i \in 1 .. N |-> IF res[i] = "reading" THEN "ok" ELSE res[i]]
            /\ pc = "run" /\ at <= N /\ Op(at) = "git"
        BY <1>5, <3>2 DEF FlushDone, Control
      <4>2. ASSUME NEW i \in 1 .. N, res[i] = "reading" PROVE Looks(i)
        <5>1. at \in Island(at) /\ at \in 1 .. N /\ ~Declared(at)
          BY <1>0, <4>1 DEF Island, Declared
        <5>2. Island(at) = {at}
          BY <4>1, <5>1, InIsland
        <5>3. i >= at /\ i \in Island(at)
          BY <1>0, <4>2 DEF Turns, Answered
        <5> QED
          BY <4>1, <5>2, <5>3 DEF Looks
      <4>3. \A i \in 1 .. N, f \in Files : Does(i, f)' <=> Does(i, f)
        BY <1>0, <4>1, <4>2 DEF Does
      <4> QED
        BY <1>0, <4>3, SerialQuiet
    <3> QED
      BY <3>1, <3>2
  <2> QED
    BY <1>0, <2>1, <2>2 DEF OneByOne, Overlay, Coming
<1>6. CASE EndIsland \/ Starts \/ Ends \/ UNCHANGED vars
  <2>1. UNCHANGED <<res, disk, entries, plans, flush, edits>>
    BY <1>6 DEF EndIsland, Starts, Ends, vars, log, world
  <2>2. \A f \in Files, i \in 0 .. N : Serially'[i][f] = Serially[i][f]
    BY <1>0, <2>1, SerialQuiet DEF Does
  <2> QED
    BY <1>0, <2>1, <2>2, OneByOneKept
<1>7. ASSUME NEW who \in {"barrier", "final"}, Flushes(who) PROVE OneByOne'
  <2>1. /\ flush = "none" /\ flush' # "none" /\ UNCHANGED <<res, disk, entries, edits>>
        /\ \A f \in Files : plans'[f] = Planned(f) /\ ~Conflict(f)
    BY <1>7 DEF Flushes, StartFlush, world
  <2>2. \A f \in Files, i \in 0 .. N : Serially'[i][f] = Serially[i][f]
    BY <1>0, <2>1, SerialQuiet DEF Does
  <2>3. ASSUME NEW f \in Files PROVE Near(edits, Coming(f)', Serially[N][f])
    <3>1. CASE entries[f] = NoEntry
      BY <2>1, <3>1 DEF Coming, Planned, OneByOne, Overlay
    <3>2. CASE entries[f] # NoEntry
      BY <2>1, <3>2, NearPlanned DEF Coming, OneByOne, Overlay
    <3> QED
      BY <3>1, <3>2
  <2> QED
    BY <1>0, <2>1, <2>2, <2>3 DEF OneByOne
<1>8. ASSUME NEW who \in {"barrier", "final"}, Refuses(who), BarriersOnly PROVE OneByOne'
  <2>1. /\ pc = "next" /\ flush = "none" /\ flush' = "none" /\ UNCHANGED <<disk, edits>>
        /\ res' = RolledBack(pending) /\ \A f \in Files : entries'[f] = NoEntry
    BY <1>8 DEF Refuses, Between, Refused, GiveUp, Forget
  <2>2. PICK b \in 0 .. N : Split(b)
    BY <1>8, <2>1 DEF Backed
  <2>3. \A f \in Files : Serially'[N][f] = Serially[b][f]
    BY <1>0, <2>1, <2>2, SerialBack
  <2>4. \A f \in Files : Near(edits, disk[f], Serially[b][f])
    BY <2>2 DEF Split
  <2> QED
    BY <1>0, <2>1, <2>3, <2>4 DEF OneByOne, Overlay
<1> QED
  BY <1>1, <1>2, <1>3, <1>4, <1>5, <1>6, <1>7, <1>8, CalmCases DEF Calls1, Peeks, Changes1

(* The file of a call that has no answer yet reads as the calls before it left it. *)
LEMMA FileBefore ==
  ASSUME TypeOK, Partition(starts), Turns, pc = "run", NEW k \in Island(at), res[k] # "ok"
  PROVE  k \in 1 .. N /\ Serially[N][File(k)] = Serially[k - 1][File(k)]
<1>1. N \in Nat /\ k \in 1 .. N /\ File(k) \in Files /\ \A j \in k + 1 .. N : ~Does(j, File(k))
  BY InIsland, CallTypes DEF TypeOK
<1>2. \A j \in (k - 1) + 1 .. N : ~Does(j, File(k))
  <2>1. ASSUME NEW j \in (k - 1) + 1 .. N PROVE ~Does(j, File(k))
    <3>1. j = k \/ j \in k + 1 .. N
      BY <1>1
    <3> QED
      BY <1>1, <3>1 DEF Does
  <2> QED
    BY <2>1
<1>3. k - 1 \in 0 .. N /\ N \in k - 1 .. N
  BY <1>1
<1> QED
  BY <1>1, <1>2, <1>3, SerialRests DEF Rests

(* A step keeps that the calls have read what the calls before them have left. *)
LEMMA LookedStep ==
  ASSUME TypeOK, TypeOK', Partition(starts), Control, Turns, OneByOne, Looked, [Next]_vars, Calm'
  PROVE  Looked'
<1>0. /\ UNCHANGED given /\ N' = N /\ N \in Nat /\ at \in 1 .. N + 1 /\ N \in 0 .. N
      /\ edits \in Nat
      /\ \A i \in 1 .. N : /\ File(i)' = File(i) /\ Op(i)' = Op(i) /\ Writes(i)' = Writes(i)
                           /\ File(i) \in Files /\ i - 1 \in 0 .. N
      /\ res \in [1 .. N -> Results] /\ seen \in [1 .. N -> Texts]
  BY GivenStep, GivenIs DEF TypeOK
<1>9. \A i \in 1 .. N : Looks(i)' = Looks(i)
  BY <1>0, GivenIs
<1>1. ASSUME NEW k \in 1 .. N, Calls1(k), Peeks(k) PROVE Looked'
  <2>1. \A f \in Files, i \in 0 .. N : Serially'[i][f] = Serially[i][f]
    BY <1>0, <1>1, SerialPeeks
  <2>2. /\ pc = "run" /\ flush = "none" /\ k \in Island(at) /\ res[k] # "ok" /\ edits' = edits
    BY <1>1 DEF Calls1, Peeks, View, EditReads, EditMisses, GitLooks, GitFlushes, StartFlush,
                world
  <2>3. /\ Serially[N][File(k)] = Serially[k - 1][File(k)]
        /\ Near(edits, Overlay(File(k)), Serially[N][File(k)])
    BY <1>0, <2>2, FileBefore DEF OneByOne
  <2>4. edits = 0 => Overlay(File(k)) = Serially[k - 1][File(k)]
    BY <2>3, NearExact
  <2>5. ASSUME NEW i \in 1 .. N, i # k
        PROVE  res'[i] = res[i] /\ seen'[i] = seen[i]
    BY <1>0, <1>1, <2>5 DEF Peeks, View, EditReads, EditMisses, GitLooks, GitFlushes, StartFlush,
                            Answer
  <2>6. Op(k) = "edit" /\ res'[k] = "reading" => seen'[k] = Overlay(File(k))
    BY <1>0, <1>1 DEF Peeks, View, EditReads, EditMisses, GitLooks, GitFlushes, StartFlush,
                      Answer
  <2>7. ~Writes(k) /\ res'[k] \in Answered => seen'[k] = Overlay(File(k))
    <3>1. CASE View(k)
      BY <1>0, <3>1 DEF View
    <3>2. CASE EditReads(k) \/ EditMisses(k)
      BY <3>2 DEF EditReads, EditMisses, Writes
    <3>3. CASE GitLooks(k)
      BY <1>0, <3>3 DEF GitLooks, HasEntries, Overlay
    <3>4. CASE GitFlushes(k)
      BY <1>0, <3>4 DEF GitFlushes, Answer, Answered
    <3> QED
      BY <1>1, <3>1, <3>2, <3>3, <3>4 DEF Peeks
  <2>8. ASSUME NEW i \in 1 .. N, Op(i) = "edit", res'[i] = "reading"
        PROVE  Near(edits, seen'[i], Serially[N][File(i)])
    <3>1. CASE i = k
      BY <2>3, <2>6, <2>8, <3>1
    <3>2. CASE i # k
      BY <2>5, <2>8, <3>2 DEF Looked
    <3> QED
      BY <3>1, <3>2
  <2>9. ASSUME NEW i \in 1 .. N, edits = 0, ~Writes(i), res'[i] \in Answered
        PROVE  seen'[i] = Serially[i - 1][File(i)]
    <3>1. CASE i = k
      BY <2>4, <2>7, <2>9, <3>1
    <3>2. CASE i # k
      BY <2>5, <2>9, <3>2 DEF Looked
    <3> QED
      BY <3>1, <3>2
  <2> QED
    BY <1>0, <2>1, <2>2, <2>8, <2>9 DEF Looked
<1>2. ASSUME NEW k \in 1 .. N, Calls1(k), Changes1(k) PROVE Looked'
  <2>1. /\ pc = "run" /\ flush = "none" /\ k \in Island(at) /\ res[k] # "ok" /\ edits' = edits
        /\ res' = [res EXCEPT ![k] = "ok"]
        /\ seen' = IF Shell(k) THEN [seen EXCEPT ![k] = disk[File(k)]] ELSE seen
    BY <1>2 DEF Calls1, Changes1, EditStages, WriteOrDelete, Shell, Answer, Barrier, world
  <2>2. /\ \A f \in Files : f # File(k) => \A i \in 0 .. N : Serially'[i][f] = Serially[i][f]
        /\ \A f \in Files, i \in 0 .. k - 1 : Serially'[i][f] = Serially[i][f]
    BY <1>0, <1>2, <2>1, SerialChanges
  <2>3. /\ ~Declared(k) => k = at
        /\ k >= at /\ \A j \in 1 .. N : j # k /\ j >= at /\ res[j] # "none" =>
             Declared(j) /\ Declared(k) /\ ~Collide(j, k)
    BY <2>1, InIsland
  <2>4. Op(k) # "view"
    BY <1>2 DEF Changes1, EditStages, WriteOrDelete, Shell, Barrier
  <2>5. ASSUME NEW i \in 1 .. N, i >= at, i # k, res[i] # "none" PROVE File(i) # File(k)
    BY <2>3, <2>4, <2>5 DEF Collide
  <2>6. ASSUME NEW i \in 1 .. N, Op(i) = "edit", res'[i] = "reading"
        PROVE  Near(edits, seen'[i], Serially'[N][File(i)])
    <3>1. i # k /\ res[i] = "reading"
      BY <1>0, <2>1, <2>6
    <3>2. i >= at /\ File(i) # File(k)
      BY <1>0, <2>5, <3>1 DEF Turns, Answered
    <3>3. seen'[i] = seen[i] /\ Serially'[N][File(i)] = Serially[N][File(i)]
      BY <1>0, <2>1, <2>2, <3>1, <3>2
    <3> QED
      BY <2>6, <3>1, <3>3 DEF Looked
  <2>7. ASSUME NEW i \in 1 .. N, edits = 0, ~Writes(i), res'[i] \in Answered
        PROVE  seen'[i] = Serially'[i - 1][File(i)]
    <3>1. CASE i = k
      <4>1. Shell(k)
        BY <1>2, <2>7, <3>1 DEF Changes1, EditStages, WriteOrDelete, Writes
      <4>2. NoLog
        <5>1. k = at
          BY <2>3, <4>1 DEF Shell, Barrier, Declared
        <5> QED
          BY <2>1, <4>1, <5>1 DEF Control, Shell
      <4>3. Near(0, disk[File(k)], Serially[N][File(k)])
        BY <1>0, <2>1, <2>7, <4>2 DEF OneByOne, Overlay, NoLog
      <4>4. disk[File(k)] = Serially[k - 1][File(k)]
        BY <2>1, <4>3, NearExact, FileBefore
      <4>5. k - 1 \in 0 .. k - 1
        BY <1>0
      <4> QED
        BY <1>0, <2>1, <2>2, <3>1, <4>1, <4>4, <4>5
    <3>2. CASE i # k
      <4>1. res[i] \in Answered /\ seen'[i] = seen[i]
        BY <1>0, <2>1, <2>7, <3>2
      <4>2. seen[i] = Serially[i - 1][File(i)]
        BY <2>7, <4>1 DEF Looked
      <4>3. CASE i < k
        <5>1. i - 1 \in 0 .. k - 1
          BY <1>0, <4>3
        <5> QED
          BY <1>0, <2>2, <4>1, <4>2, <5>1
      <4>4. CASE i > k
        <5>1. File(i) # File(k)
          BY <1>0, <2>3, <2>5, <4>1, <4>4 DEF Answered
        <5> QED
          BY <1>0, <2>2, <4>1, <4>2, <5>1
      <4> QED
        BY <1>0, <3>2, <4>3, <4>4
    <3> QED
      BY <3>1, <3>2
  <2> QED
    BY <1>0, <2>1, <2>6, <2>7 DEF Looked
<1>3. ASSUME UNCHANGED <<res, seen>>, edits' = edits PROVE Looked'
  <2>1. \A f \in Files, i \in 0 .. N : Serially'[i][f] = Serially[i][f]
    BY <1>0, <1>9, <1>3, SerialQuiet DEF Does
  <2> QED
    BY <1>0, <1>3, <2>1 DEF Looked
<1>4. ASSUME NEW f \in Files, NEW r \in Regions, Edit(f, r) PROVE Looked'
  <2>1. UNCHANGED <<res, seen>> /\ edits' = edits + 1 /\ edits' # 0 /\ edits' \in Nat
    BY <1>0, <1>4 DEF Edit
  <2>2. \A h \in Files, i \in 0 .. N : Serially'[i][h] = Serially[i][h]
    BY <1>0, <1>9, <2>1, SerialQuiet DEF Does
  <2>3. \A x, y : Near(edits, x, y) => Near(edits', x, y)
    BY <1>0, <2>1, NearLater
  <2> QED
    BY <1>0, <2>1, <2>2, <2>3 DEF Looked
<1>5. CASE FlushDone
  <2>1. CASE flush # "git"
    <3>1. UNCHANGED <<res, seen, edits>>
      BY <1>5, <2>1 DEF FlushDone, Control, world
    <3> QED
      BY <1>3, <3>1
  <2>2. CASE flush = "git"
    <3>1. /\ res' = [i \in 1 .. N |-> IF res[i] = "reading" THEN "ok" ELSE res[i]]
          /\ seen' = [i \in 1 .. N |-> IF res[i] = "reading" THEN disk[File(i)] ELSE seen[i]]
          /\ edits' = edits /\ \A f \in Files : plans[f] = NoEntry
          /\ pc = "run" /\ at <= N /\ Op(at) = "git"
      BY <1>5, <2>2 DEF FlushDone, Control, world
    <3>2. at \in Island(at) /\ at \in 1 .. N /\ ~Declared(at)
      BY <1>0, <3>1 DEF Island, Declared
    <3>3. ASSUME NEW i \in 1 .. N, res[i] = "reading" PROVE i = at
      <4>1. Island(at) = {at}
        BY <3>1, <3>2, InIsland
      <4>2. i >= at /\ i \in Island(at)
        BY <1>0, <3>3 DEF Turns, Answered
      <4> QED
        BY <4>1, <4>2
    <3>4. \A i \in 1 .. N, f \in Files : Does(i, f)' <=> Does(i, f)
      <4>1. \A i \in 1 .. N : res[i] = "reading" => Looks(i) /\ Looks(i)'
        BY <1>0, <3>1, <3>3 DEF Looks
      <4> QED
        BY <1>0, <3>1, <4>1 DEF Does, Looks
    <3>5. \A f \in Files, i \in 0 .. N : Serially'[i][f] = Serially[i][f]
      BY <1>0, <3>4, SerialQuiet
    <3>6. ASSUME NEW i \in 1 .. N, edits = 0, ~Writes(i), res'[i] \in Answered
          PROVE  seen'[i] = Serially[i - 1][File(i)]
      <4>1. CASE res[i] = "reading"
        <5>1. i = at /\ seen'[i] = disk[File(i)]
          BY <3>1, <3>3, <4>1
        <5>2. Near(0, disk[File(i)], Serially[N][File(i)])
          BY <1>0, <2>2, <3>1, <3>6 DEF OneByOne, Coming
        <5>3. res[i] # "ok" /\ i \in Island(at)
          BY <3>2, <4>1, <5>1
        <5>4. Serially[N][File(i)] = Serially[i - 1][File(i)]
          BY <3>1, <5>3, FileBefore
        <5> QED
          BY <5>1, <5>2, <5>4, NearExact
      <4>2. CASE res[i] # "reading"
        BY <3>1, <3>6, <4>2 DEF Looked
      <4> QED
        BY <4>1, <4>2
    <3>7. \A i \in 1 .. N : res'[i] # "reading"
      BY <3>1
    <3> QED
      BY <1>0, <3>1, <3>5, <3>6, <3>7 DEF Looked
  <2> QED
    BY <2>1, <2>2
<1>6. ASSUME EndIsland \/ Starts \/ Ends \/ UNCHANGED vars \/ \E f \in Files : ApplyPlan(f)
      PROVE  UNCHANGED <<res, seen>> /\ edits' = edits
  BY <1>6 DEF EndIsland, Starts, Ends, vars, ApplyPlan, world
<1>7. ASSUME NEW who \in {"barrier", "final"}, Flushes(who)
      PROVE  UNCHANGED <<res, seen>> /\ edits' = edits
  BY <1>7 DEF Flushes, StartFlush, world
<1>8. ASSUME NEW who \in {"barrier", "final"}, Refuses(who), BarriersOnly PROVE Looked'
  <2>1. /\ pc = "next" /\ flush = "none" /\ UNCHANGED <<seen, edits, disk>>
        /\ res' = RolledBack(pending) /\ \E f \in Files : Conflict(f)
    BY <1>8 DEF Refuses, Between, Refused, GiveUp
  <2>2. \A i \in 1 .. N : res'[i] # "reading"
    BY <1>0, <2>1 DEF RolledBack, Turns, Answered
  <2>3. edits # 0
    BY <2>1, NoConflict DEF OneByOne
  <2> QED
    BY <1>0, <2>1, <2>2, <2>3 DEF Looked
<1> QED
  BY <1>1, <1>2, <1>3, <1>4, <1>5, <1>6, <1>7, <1>8, CalmCases DEF Calls1, Peeks, Changes1

(* What is on disk without the log, after a step. *)
LEMMA BackedStep ==
  ASSUME TypeOK, TypeOK', Partition(starts), ReadsText, Control, Turns, Waiting, OneByOne,
         OneByOne', Looked, Backed, [Next]_vars, Calm'
  PROVE  Backed'
<1>0. /\ UNCHANGED given /\ N' = N /\ N \in Nat /\ at \in 1 .. N + 1 /\ N \in 0 .. N
      /\ edits \in Nat /\ pending \subseteq 1 .. N /\ res \in [1 .. N -> Results]
      /\ \A s \in 1 .. N + 1 : Island(s)' = Island(s) /\ Island(s) \subseteq s .. N
  BY GivenStep, GivenIs DEF TypeOK
<1>9. \A i \in 1 .. N : /\ File(i)' = File(i) /\ Writes(i)' = Writes(i) /\ Looks(i)' = Looks(i)
                        /\ Barrier(i)' = Barrier(i) /\ File(i) \in Files
  BY <1>0, GivenIs
<1> SUFFICES ASSUME BarriersOnly, flush' = "none", pc' # "done"
             PROVE  Logged' /\ \E b \in 0 .. N : Split(b)'
  BY <1>0, CalmStep DEF Backed
<1>10. pc \in {"next", "run"} => \A i \in 1 .. N : (Held(i) <=> Writes(i) /\ (i \in pending \/ Running(i)))
  BY DEF Held
<1>11. pc' \in {"next", "run"} =>
         \A i \in 1 .. N : (Held(i)' <=> Writes(i) /\ (i \in pending' \/ (pc' = "run" /\ i \in Island(at)')))
  BY <1>9 DEF Held, Running
<1>12. pc' \in {"next", "run"} /\ \A i \in 1 .. N : Op(i) # "git"
  BY <1>0, ControlStep DEF BarriersOnly, TypeOK, Control
<1>1. ASSUME NEW k \in 1 .. N, Calls1(k)
      PROVE  Logged' /\ \E b \in 0 .. N : Split(b)'
  <2>1. /\ pc = "run" /\ flush = "none" /\ k \in Island(at) /\ res[k] # "ok"
        /\ UNCHANGED <<pc, at, pending, edits>>
        /\ ~GitFlushes(k) /\ ~GitLooks(k)
    BY <1>1, <1>12 DEF Calls1, View, EditReads, EditStages, EditMisses, WriteOrDelete, Shell,
                       GitLooks, GitFlushes, sched, world
  <2>2. /\ k >= at /\ at \in 1 .. N /\ (~Declared(k) => k = at /\ Island(at) = {at})
        /\ Island(at)' = Island(at)
    BY <1>0, <2>1, InIsland
  <2>3. Logged /\ \E b \in 0 .. N : Split(b)
    BY <2>1 DEF Backed
  <2>4. PICK b \in 0 .. N : Split(b)
    BY <2>3
  <2>5. \A i \in 1 .. N : Held(i)' <=> Held(i)
    BY <1>10, <1>11, <2>1, <2>2 DEF Running
  <2>6. ASSUME View(k) \/ EditReads(k) \/ EditMisses(k)
        PROVE  Logged' /\ Split(b)'
    <3>1. UNCHANGED <<disk, entries>>
          /\ \E r \in Results : res' = [res EXCEPT ![k] = r] /\ (r = "ok" => Looks(k))
      BY <2>6 DEF View, EditReads, EditMisses, Answer, log, Looks, Results, Answered
    <3>2. \A f \in Files, i \in 0 .. N : Serially'[i][f] = Serially[i][f]
      BY <1>0, <2>6, SerialPeeks DEF Peeks
    <3>3. \A i \in 1 .. N : res'[i] = "ok" /\ ~Looks(i) => res[i] = "ok"
      BY <1>0, <3>1
    <3>4. \A i \in 1 .. N : Writes(i) => ~Looks(i)
      BY DEF Writes, Looks
    <3>5. Logged'
      BY <1>0, <1>9, <2>3, <2>5, <3>1, <3>3, <3>4 DEF Logged, Held
    <3>6. \A i \in 1 .. N : i > b /\ res'[i] = "ok" /\ ~Looks(i) => Held(i)'
      BY <2>4, <2>5, <3>3 DEF Split
    <3>7. \A i \in pending' : Writes(i) /\ res'[i] = "ok" => i <= N /\ i > b
      BY <1>0, <2>1, <2>4, <3>3, <3>4 DEF Split
    <3>8. \A f \in Files : Near(edits, disk[f], Serially'[b][f])
      BY <2>4, <3>2 DEF Split
    <3>9. b < at' \/ (b = at' /\ pc' = "run" /\ Barrier(at)')
      BY <1>9, <2>1, <2>2, <2>4 DEF Split
    <3> QED
      BY <1>0, <1>9, <2>1, <3>1, <3>5, <3>6, <3>7, <3>8, <3>9 DEF Split
  <2>7. ASSUME EditStages(k) \/ WriteOrDelete(k)
        PROVE  Logged' /\ Split(b)'
    <3>1. /\ Writes(k) /\ Declared(k) /\ ~Barrier(k) /\ disk' = disk
          /\ res' = [res EXCEPT ![k] = "ok"]
      BY <2>7 DEF EditStages, WriteOrDelete, Answer, Writes, Declared, Barrier
    <3>2. b < at
      <4>1. CASE Barrier(at)
        <5>1. at \in Island(at) /\ ~Declared(at)
          BY <1>0, <2>2, <4>1 DEF Island, Barrier, Declared
        <5>2. Island(at) = {at}
          BY <2>1, <5>1, InIsland
        <5> QED
          BY <2>1, <3>1, <4>1, <5>2
      <4> QED
        BY <2>4, <4>1 DEF Split
    <3>3. b \in 0 .. k - 1 /\ k > b
      BY <1>0, <2>2, <3>2
    <3>4. \A f \in Files : Serially'[b][f] = Serially[b][f]
      BY <1>0, <2>1, <2>7, <3>3, SerialChanges DEF Changes1
    <3>5. Held(k)'
      BY <1>11, <1>12, <2>1, <2>2, <3>1
    <3>6. entries'[File(k)] # NoEntry /\ \A f \in Files : f # File(k) => entries'[f] = entries[f]
      <4>1. \E text \in Texts : Stage(File(k), text)
        BY <2>7, Staging
      <4> QED
        BY <1>9, <4>1, StagedEntry
    <3>7. Logged'
      <4>1. ASSUME NEW i \in 1 .. N, Held(i)', res'[i] = "ok" PROVE entries'[File(i)] # NoEntry
        <5>1. CASE File(i) = File(k)
          BY <3>6, <5>1
        <5>2. CASE File(i) # File(k)
          <6>1. i # k /\ res[i] = "ok" /\ Held(i)
            BY <1>0, <2>5, <3>1, <4>1, <5>2
          <6> QED
            BY <1>9, <2>3, <3>6, <5>2, <6>1 DEF Logged
        <5> QED
          BY <5>1, <5>2
      <4> QED
        BY <1>0, <1>9, <4>1 DEF Logged
    <3>8. \A i \in 1 .. N : i > b /\ res'[i] = "ok" /\ ~Looks(i) => Held(i)'
      BY <1>0, <2>4, <2>5, <3>1, <3>5 DEF Split
    <3>9. \A i \in pending' : Writes(i) /\ res'[i] = "ok" => i <= N /\ i > b
      BY <1>0, <2>1, <2>4, <3>1, <3>3 DEF Split
    <3>10. \A f \in Files : Near(edits, disk[f], Serially'[b][f])
      BY <2>4, <3>4 DEF Split
    <3>11. b < at'
      BY <2>1, <3>2
    <3> QED
      BY <1>0, <1>9, <2>1, <3>1, <3>7, <3>8, <3>9, <3>10, <3>11 DEF Split
  <2>8. ASSUME Shell(k) PROVE Logged' /\ Split(k)'
    <3>1. /\ Barrier(k) /\ ~Declared(k) /\ ~Writes(k) /\ k = at /\ Island(at) = {at}
          /\ res' = [res EXCEPT ![k] = "ok"] /\ entries' = entries /\ NoLog
      <4>1. Barrier(k) /\ ~Declared(k) /\ ~Writes(k)
            /\ res' = [res EXCEPT ![k] = "ok"] /\ entries' = entries
        BY <2>8 DEF Shell, Answer, log, Barrier, Declared, Writes
      <4> QED
        BY <2>1, <2>2, <4>1 DEF Control
    <3>2. Logged'
      <4>1. \A i \in 1 .. N : Held(i)' /\ res'[i] = "ok" => Held(i) /\ res[i] = "ok"
        BY <1>0, <2>5, <3>1 DEF Held
      <4> QED
        BY <1>0, <1>9, <2>3, <3>1, <4>1 DEF Logged
    <3>3. \A i \in k + 1 .. N : res'[i] = "none"
      BY <1>0, <2>1, <2>2, <3>1 DEF Turns
    <3>4. \A i \in 1 .. N : i > k /\ res'[i] = "ok" /\ ~Looks(i) => Held(i)'
      BY <1>0, <3>3
    <3>5. \A i \in pending' : Writes(i) /\ res'[i] = "ok" => i <= N /\ i > k
      <4>1. SUFFICES ASSUME NEW i \in 1 .. N, i \in pending, Writes(i), res'[i] = "ok" PROVE FALSE
        BY <1>0, <2>1
      <4>2. i # k /\ res[i] = "ok" /\ Held(i)
        BY <1>0, <1>10, <2>1, <3>1, <4>1
      <4> QED
        BY <1>9, <2>3, <3>1, <4>2 DEF Logged, NoLog
    <3>6. \A f \in Files : Near(edits', disk'[f], Serially'[k][f])
      <4>1. SUFFICES ASSUME NEW f \in Files PROVE Near(edits', disk'[f], Serially'[k][f])
        OBVIOUS
      <4>2. Near(edits', disk'[f], Serially'[N][f])
        BY <1>0, <3>1 DEF OneByOne, Overlay, NoLog
      <4>3. Rests'
        BY SerialRestsNext
      <4>4. \A i \in k + 1 .. N : ~Does(i, f)'
        BY <3>3 DEF Does
      <4>5. Serially'[N][f] = Serially'[k][f]
        <5>1. k \in 0 .. N /\ N \in k .. N
          BY <1>0
        <5> QED
          BY <1>0, <4>3, <4>4, <5>1 DEF Rests
      <4> QED
        BY <4>2, <4>5
    <3> QED
      BY <1>0, <1>9, <2>1, <3>1, <3>2, <3>4, <3>5, <3>6 DEF Split
  <2>9. k \in 0 .. N
    BY <1>0
  <2> QED
    BY <1>1, <2>1, <2>4, <2>6, <2>7, <2>8, <2>9 DEF Calls1
<1>2. ASSUME NEW f \in Files, NEW r \in Regions, Edit(f, r)
      PROVE  Logged' /\ \E b \in 0 .. N : Split(b)'
  <2>1. /\ UNCHANGED <<res, entries, flush, pc, at, pending>> /\ disk[f] # NoFile
        /\ disk' = [disk EXCEPT ![f] = [disk[f] EXCEPT ![r] = -edits']]
        /\ edits' = edits + 1 /\ edits' \in Nat \ {0} /\ -edits' \in Marks /\ Outside(-edits')
    BY <1>0, <1>2, BatchAssumption DEF Edit, log, sched, TypeOK, Marks, Outside
  <2>2. Logged /\ \E b \in 0 .. N : Split(b)
    BY <2>1 DEF Backed
  <2>3. PICK b \in 0 .. N : Split(b)
    BY <2>2
  <2>4. \A h \in Files, i \in 0 .. N : Serially'[i][h] = Serially[i][h]
    BY <1>0, <1>9, <2>1, SerialQuiet DEF Does
  <2>5. ASSUME NEW h \in Files PROVE Near(edits', disk'[h], Serially[b][h])
    <3>1. Near(edits', disk[h], Serially[b][h])
      BY <1>0, <2>1, <2>3, NearLater DEF Split
    <3>2. CASE h = f
      <4>1. disk'[f] = [disk[f] EXCEPT ![r] = -edits']
        BY <2>1 DEF TypeOK
      <4> QED
        BY <2>1, <3>1, <3>2, <4>1, NearOutside
    <3>3. CASE h # f
      BY <2>1, <3>1, <3>3 DEF TypeOK
    <3> QED
      BY <3>2, <3>3
  <2>6. \A i \in 1 .. N : Held(i)' <=> Held(i)
    BY <1>0, <1>10, <1>11, <1>12, <2>1 DEF Running
  <2>7. Logged'
    BY <1>0, <1>9, <2>1, <2>2, <2>6 DEF Logged
  <2>8. b < at' \/ (b = at' /\ pc' = "run" /\ Barrier(at)')
    <3>1. CASE b < at
      BY <2>1, <3>1
    <3>2. CASE ~(b < at)
      <4>1. b = at /\ pc = "run" /\ Barrier(at) /\ at \in 1 .. N
        BY <1>0, <2>3, <3>2 DEF Split, Control
      <4> QED
        BY <1>9, <2>1, <4>1
    <3> QED
      BY <3>1, <3>2
  <2>9. Split(b)'
    BY <1>0, <1>9, <2>1, <2>3, <2>4, <2>5, <2>6, <2>8 DEF Split
  <2> QED
    BY <2>7, <2>9
<1>3. ASSUME FlushDone
      PROVE  Logged' /\ \E b \in 0 .. N : Split(b)'
  <2>1. /\ flush = "barrier" /\ pc = "next" /\ at <= N /\ Barrier(at)
        /\ pc' = "run" /\ pending' = {} /\ UNCHANGED <<at, res, edits>> /\ NoLog'
    <3>1. flush # "none" /\ flush # "git"
      BY <1>0, <1>3, <1>12 DEF FlushDone, Control
    <3>2. flush # "final"
      BY <1>3 DEF FlushDone, AfterFinal
    <3> QED
      BY <1>3, <3>1, <3>2 DEF FlushDone, AfterBarrier, Control, Forget, NoLog, world
  <2>2. \A i \in 1 .. N : i >= at => res'[i] = "none"
    BY <1>0, <2>1 DEF Turns
  <2>3. Logged'
    <3>1. \A i \in 1 .. N : i \in Island(at)' => i >= at
      BY <1>0, <2>1
    <3>2. \A i \in 1 .. N : Held(i)' => res'[i] = "none"
      BY <1>11, <2>1, <2>2, <3>1
    <3> QED
      BY <1>0, <3>2 DEF Logged
  <2>4. ASSUME NEW f \in Files PROVE Near(edits', disk'[f], Serially'[at - 1][f])
    <3>1. Near(edits', disk'[f], Serially'[N][f])
      BY <1>0, <2>1 DEF OneByOne, Overlay, NoLog
    <3>2. Rests'
      BY SerialRestsNext
    <3>3. \A i \in (at - 1) + 1 .. N : ~Does(i, f)'
      BY <1>0, <2>2 DEF Does
    <3>4. Serially'[N][f] = Serially'[at - 1][f]
      <4>1. at - 1 \in 0 .. N /\ N \in at - 1 .. N
        BY <1>0
      <4> QED
        BY <1>0, <3>2, <3>3, <4>1 DEF Rests
    <3> QED
      BY <3>1, <3>4
  <2>5. at - 1 \in 0 .. N /\ at - 1 < at'
    BY <1>0, <2>1
  <2>6. \A i \in 1 .. N : i > at - 1 /\ res'[i] = "ok" /\ ~Looks(i) => Held(i)'
    BY <1>0, <2>2
  <2>7. PICK b \in 0 .. N : b = at - 1
    BY <2>5
  <2>8. Split(b)'
    <3>1. /\ b < at' /\ \A f \in Files : Near(edits', disk'[f], Serially'[b][f])
          /\ \A i \in 1 .. N : i > b /\ res'[i] = "ok" /\ ~Looks(i) => Held(i)'
      BY <2>4, <2>5, <2>6, <2>7
    <3> QED
      BY <1>0, <1>9, <2>1, <3>1 DEF Split
  <2> QED
    BY <2>3, <2>8
<1>4. ASSUME EndIsland
      PROVE  Logged' /\ \E b \in 0 .. N : Split(b)'
  <2>1. PICK s \in at + 1 .. N + 1 : Island(at) = at .. s - 1 /\ at' = s
    BY <1>4 DEF EndIsland
  <2>2. /\ pc = "run" /\ pc' = "next" /\ UNCHANGED <<res, flush, entries, disk, edits>>
        /\ pending' = IF \E i \in Island(at) : Writes(i) THEN pending \cup Island(at) ELSE pending
    BY <1>4 DEF EndIsland, log, world
  <2>3. Logged /\ \E b \in 0 .. N : Split(b)
    BY <2>2 DEF Backed
  <2>4. PICK b \in 0 .. N : Split(b)
    BY <2>3
  <2>5. \A i \in 1 .. N : Held(i)' <=> Held(i)
    BY <1>10, <1>11, <2>2 DEF Running
  <2>6. \A h \in Files, i \in 0 .. N : Serially'[i][h] = Serially[i][h]
    BY <1>0, <1>9, <2>2, SerialQuiet DEF Does
  <2>7. b < at'
    BY <1>0, <2>1, <2>4 DEF Split
  <2>8. Logged'
    BY <1>0, <1>9, <2>2, <2>3, <2>5 DEF Logged
  <2>9. ASSUME NEW i \in pending', Writes(i), res'[i] = "ok" PROVE i <= N /\ i > b
    <3>1. CASE i \in pending
      BY <2>2, <2>4, <2>9, <3>1 DEF Split
    <3>2. CASE i \notin pending
      <4>1. i \in Island(at) /\ i \in at .. N
        BY <1>0, <2>2, <2>9, <3>2
      <4>2. CASE b < at
        BY <1>0, <4>1, <4>2
      <4>3. CASE Barrier(at)
        <5>1. at \in Island(at) /\ ~Declared(at)
          BY <1>0, <2>1, <4>3 DEF Barrier, Declared
        <5>2. Island(at) = {at}
          BY <2>2, <5>1, InIsland
        <5> QED
          BY <2>9, <4>1, <4>3, <5>2 DEF Barrier, Writes
      <4> QED
        BY <2>4, <4>2, <4>3 DEF Split
    <3> QED
      BY <3>1, <3>2
  <2>10. Split(b)'
    <3>1. \A i \in pending' : i \in 1 .. N
      BY <1>0 DEF TypeOK
    <3>2. \A i \in pending' : Writes(i)' => Writes(i)
      BY <1>9, <3>1
    <3>3. \A i \in pending' : Writes(i)' /\ res'[i] = "ok" => i <= N /\ i > b
      BY <2>9, <3>2
    <3> HIDE DEF Writes
    <3> QED
      BY <1>0, <1>9, <2>2, <2>4, <2>5, <2>6, <2>7, <3>3 DEF Split
  <2> QED
    BY <2>8, <2>10
<1>5. ASSUME Starts
      PROVE  Logged' /\ \E b \in 0 .. N : Split(b)'
  <2>1. /\ pc = "next" /\ flush = "none" /\ pc' = "run"
        /\ UNCHANGED <<res, entries, disk, edits, at, pending>>
    BY <1>5 DEF Starts, log, world
  <2>2. Logged /\ \E b \in 0 .. N : Split(b)
    BY <2>1 DEF Backed
  <2>3. PICK b \in 0 .. N : Split(b)
    BY <2>2
  <2>4. \A i \in 1 .. N : res[i] = "ok" => (Held(i)' <=> Held(i))
    <3>1. \A i \in 1 .. N : i \in Island(at)' => i >= at
      BY <1>0, <2>1
    <3>2. \A i \in 1 .. N : i >= at => res[i] = "none"
      BY <2>1 DEF Turns
    <3> QED
      BY <1>10, <1>11, <2>1, <3>1, <3>2 DEF Running
  <2>5. \A h \in Files, i \in 0 .. N : Serially'[i][h] = Serially[i][h]
    BY <1>0, <1>9, <2>1, SerialQuiet DEF Does
  <2>6. Logged'
    BY <1>0, <1>9, <2>1, <2>2, <2>4 DEF Logged
  <2>7. b < at
    BY <2>1, <2>3 DEF Split
  <2>8. Split(b)'
    BY <1>0, <1>9, <2>1, <2>3, <2>4, <2>5, <2>7 DEF Split
  <2> QED
    BY <2>6, <2>8
<1>6. ASSUME NEW who \in {"barrier", "final"}, Refuses(who)
      PROVE  Logged' /\ \E b \in 0 .. N : Split(b)'
  <2>1. /\ pc = "next" /\ flush = "none" /\ who = "barrier" /\ pc' = "run" /\ pending' = {}
        /\ UNCHANGED <<disk, edits, at>> /\ res' = RolledBack(pending)
    BY <1>6 DEF Refuses, Between, Refused, GiveUp, AfterBarrier, AfterFinal
  <2>2. Logged /\ \E b \in 0 .. N : Split(b)
    BY <2>1 DEF Backed
  <2>3. PICK b \in 0 .. N : Split(b)
    BY <2>2
  <2>4. \A f \in Files, i \in 0 .. b : Serially'[i][f] = Serially[i][f]
    BY <1>0, <2>1, <2>3, SerialBack
  <2>5. \A i \in 1 .. N : res'[i] = IF i \in pending /\ res[i] = "ok" THEN "undone" ELSE res[i]
    BY <2>1 DEF RolledBack
  <2>6. Logged'
    <3>1. \A i \in 1 .. N : i \in Island(at)' => i >= at
      BY <1>0, <2>1
    <3>2. \A i \in 1 .. N : i >= at => res'[i] = "none"
      BY <2>1, <2>5 DEF Turns
    <3>3. \A i \in 1 .. N : Held(i)' => res'[i] = "none"
      BY <1>11, <2>1, <3>1, <3>2
    <3> QED
      BY <1>0, <3>3 DEF Logged
  <2>7. \A i \in 1 .. N : i > b /\ res'[i] = "ok" /\ ~Looks(i) => Held(i)'
    <3>1. SUFFICES ASSUME NEW i \in 1 .. N, i > b, res'[i] = "ok", ~Looks(i) PROVE FALSE
      OBVIOUS
    <3>2. res[i] = "ok" /\ i \notin pending
      BY <2>5, <3>1
    <3>3. Held(i)
      BY <2>3, <3>1, <3>2 DEF Split
    <3> QED
      BY <2>1, <3>2, <3>3 DEF Held, Running
  <2>8. b < at
    BY <2>1, <2>3 DEF Split
  <2>9. b \in 0 .. b
    BY <1>0
  <2>10. Split(b)'
    BY <1>0, <1>9, <2>1, <2>3, <2>4, <2>7, <2>8, <2>9 DEF Split
  <2> QED
    BY <2>6, <2>10
<1>7. ASSUME UNCHANGED vars PROVE Logged' /\ \E b \in 0 .. N : Split(b)'
  <2>1. UNCHANGED <<res, entries, disk, edits, at, pending, pc, flush>>
    BY <1>7 DEF vars
  <2>2. Logged /\ \E b \in 0 .. N : Split(b)
    BY <2>1 DEF Backed
  <2>3. PICK b \in 0 .. N : Split(b)
    BY <2>2
  <2>4. \A i \in 1 .. N : Held(i)' <=> Held(i)
    BY <1>0, <1>10, <1>11, <1>12, <2>1 DEF Running
  <2>5. \A h \in Files, i \in 0 .. N : Serially'[i][h] = Serially[i][h]
    BY <1>0, <1>9, <2>1, SerialQuiet DEF Does
  <2>6. b < at' \/ (b = at' /\ pc' = "run" /\ Barrier(at)')
    <3>1. CASE b < at
      BY <2>1, <3>1
    <3>2. CASE ~(b < at)
      <4>1. b = at /\ pc = "run" /\ Barrier(at) /\ at \in 1 .. N
        BY <1>0, <2>3, <3>2 DEF Split, Control
      <4> QED
        BY <1>9, <2>1, <4>1
    <3> QED
      BY <3>1, <3>2
  <2>7. Logged'
    BY <1>0, <1>9, <2>1, <2>2, <2>4 DEF Logged
  <2>8. Split(b)'
    BY <1>0, <1>9, <2>1, <2>3, <2>4, <2>5, <2>6 DEF Split
  <2> QED
    BY <2>7, <2>8
<1>8. /\ ~Ends /\ (\A f \in Files : ~ApplyPlan(f))
      /\ \A who \in {"barrier", "final"} : ~Flushes(who)
  BY DEF Ends, ApplyPlan, Flushes, StartFlush
<1> QED
  BY <1>1, <1>2, <1>3, <1>4, <1>5, <1>6, <1>7, <1>8, CalmCases

(* Before the first call, everything is as the commit has it. *)
LEMMA SerialInit == Init => SerialInv
<1> SUFFICES ASSUME Init PROVE Control /\ Turns /\ Waiting /\ OneByOne /\ Looked /\ Backed
  BY DEF SerialInv
<1>1. TypeOK /\ N \in Nat /\ N \in 1 .. MaxCalls /\ MaxCalls \in Nat
  BY InitInv, CallTypes, BatchAssumption DEF IInv, TypeOK
<1>2. /\ flush = "none" /\ pc = "next" /\ at = 1 /\ pending = {} /\ NoLog /\ disk = Committed
      /\ \A i \in 1 .. N : res[i] = "none"
      /\ \A f \in Files : plans[f] = NoEntry
  BY DEF Init, NoLog
<1>3. Control /\ Turns /\ Waiting /\ Looked
  BY <1>1, <1>2 DEF Control, Turns, Waiting, Looked, Answered
<1>4. ASSUME NEW f \in Files, NEW b \in 0 .. N PROVE Near(edits, disk[f], Serially[b][f])
  <2>1. Serially[0][f] = Committed[f]
    BY <1>1, SerialFiles DEF FileSteps
  <2>2. \A i \in 0 + 1 .. N : ~Does(i, f)
    BY <1>2 DEF Does
  <2>3. 0 \in 0 .. N
    BY <1>1
  <2>4. Serially[b][f] = Serially[0][f]
    BY <1>1, <2>2, <2>3, SerialRests DEF Rests
  <2>5. Committed[f] \in Texts
    BY CommittedTypes
  <2> QED
    BY <1>2, <2>1, <2>4, <2>5, NearSelf
<1>5. OneByOne
  <2>1. N \in 0 .. N
    BY <1>1
  <2> QED
    BY <1>2, <1>4, <2>1 DEF OneByOne, Overlay, NoLog
<1>6. Backed
  <2>1. 0 \in 0 .. N /\ 0 < at
    BY <1>1, <1>2
  <2>2. Split(0) /\ Logged
    BY <1>2, <1>4, <2>1 DEF Split, Logged
  <2> QED
    BY <2>1, <2>2 DEF Backed
<1> QED
  BY <1>3, <1>5, <1>6

(* Every step keeps the serial invariant. *)
LEMMA SerialStep == IInv /\ SerialInv /\ [Next]_vars => SerialInv'
<1> SUFFICES ASSUME IInv, SerialInv, [Next]_vars, Calm' PROVE SerialInv'
  BY DEF SerialInv
<1>1. TypeOK /\ TypeOK' /\ ReadsText /\ Partition(starts) /\ UNCHANGED given
  BY StepInv, GivenStep DEF IInv
<1>2. Control /\ Turns /\ Waiting /\ OneByOne /\ Looked /\ Backed
  BY <1>1, CalmStep DEF SerialInv
<1>3. Control' /\ Turns' /\ Waiting'
  BY <1>1, <1>2, ControlStep, TurnsStep, WaitingStep
<1>4. OneByOne'
  BY <1>1, <1>2, OneByOneStep
<1>5. Looked' /\ Backed'
  BY <1>1, <1>2, <1>4, LookedStep, BackedStep
<1> QED
  BY <1>3, <1>4, <1>5 DEF SerialInv

(* While nothing fails and nobody aborts, what the scheduler and the log hold between
   them is what the calls one after the other amount to. *)
THEOREM SerialAlways == Spec => [](IInv /\ SerialInv)
<1> QED
  BY InitInv, StepInv, SerialInit, SerialStep, PTL DEF Spec

(* Islands in parallel, writes held back and barriers flushed come to the same as the
   calls one by one, in what is on disk and in what every call has read ("Conflicting
   calls wait", README.md:838). *)
THEOREM BatchSerial == Spec => []BatchIsSerial
<1>1. IInv /\ SerialInv => BatchIsSerial
  <2> SUFFICES ASSUME IInv, SerialInv, pc = "done", Alone
               PROVE  /\ disk = Serially[N]
                      /\ \A i \in 1 .. N : ~Writes(i) => seen[i] = Serially[i - 1][File(i)]
    BY DEF BatchIsSerial
  <2>1. TypeOK /\ N \in Nat /\ Control /\ Turns /\ OneByOne /\ Looked /\ edits = 0
    BY CallTypes DEF IInv, TypeOK, SerialInv, Calm, Alone
  <2>2. at = N + 1 /\ flush = "none" /\ NoLog
    BY <2>1 DEF Control
  <2>3. disk = Serially[N]
    <3>1. \A f \in Files : disk[f] = Serially[N][f]
      BY <2>1, <2>2, NearExact DEF OneByOne, Overlay, NoLog
    <3>2. Serially[N] = [f \in Files |-> Serially[N][f]] /\ disk = [f \in Files |-> disk[f]]
      BY <2>1, SerialFiles DEF FileSteps, TypeOK
    <3> QED
      BY <3>1, <3>2
  <2>4. \A i \in 1 .. N : res[i] \in Answered
    BY <2>1, <2>2 DEF Turns
  <2> QED
    BY <2>1, <2>3, <2>4 DEF Looked
<1> QED
  BY <1>1, SerialAlways, PTL

(* With edits from outside, a region nobody outside touched is still what the calls
   that say ok made of it: a conflict never loses a call's text and keeps its ok
   (flush, markRolledBack). *)
THEOREM OkOnDisk == Spec => []OkIsOnDisk
<1>1. IInv /\ SerialInv => OkIsOnDisk
  <2> SUFFICES ASSUME IInv, SerialInv, pc = "done", ~signal, fails = 0, BarriersOnly,
                      NEW f \in Files, Serially[N][f] # NoFile, disk[f] # NoFile,
                      NEW r \in Regions
               PROVE  disk[f][r] = Serially[N][f][r] \/ Outside(disk[f][r])
    BY DEF OkIsOnDisk
  <2>1. Control /\ OneByOne
    BY DEF SerialInv, Calm
  <2>2. Near(edits, disk[f], Serially[N][f])
    BY <2>1 DEF Control, OneByOne, Overlay, NoLog
  <2> QED
    BY <2>2 DEF Near
<1> QED
  BY <1>1, SerialAlways, PTL

-----------------------------------------------------------------------------
(* Edits from outside. *)

\* Text x holds no mark of an edit that comes after the e-th.
Known(e, x) == x # NoFile /\ x # NoEntry => \A r \in Regions : x[r] >= -e

Fresh ==
  /\ \A f \in Files : /\ Known(edits, disk[f]) /\ Known(edits, plans[f])
                      /\ entries[f] # NoEntry => /\ Known(edits, entries[f].base)
                                                 /\ Known(edits, entries[f].staged)
  /\ \A i \in 1 .. N : Known(edits, seen[i])
  /\ \A p \in apart : p[3] >= -edits

(* What calls and merges make of texts brings in no later edit. *)
LEMMA KnownLater ==
  ASSUME NEW e \in Nat, NEW d \in Nat, e <= d, NEW x \in Texts \cup {NoEntry}, Known(e, x)
  PROVE  Known(d, x)
<1>1. ASSUME x # NoFile, x # NoEntry, NEW r \in Regions PROVE x[r] >= -d
  <2>1. x \in [Regions -> Marks] /\ x[r] >= -e
    BY <1>1 DEF Texts, Known
  <2>2. x[r] \in Int
    BY <2>1, BatchAssumption DEF Marks
  <2> QED
    BY <2>1, <2>2
<1> QED
  BY <1>1 DEF Known

(* So it is with a file written anew, a line changed, a shell command, a merge. *)
LEMMA KnownWhole ==
  ASSUME NEW e \in Nat, NEW m \in Nat
  PROVE  Known(e, [r \in Regions |-> m])
BY DEF Known

(* A line changed. *)
LEMMA KnownLine ==
  ASSUME NEW e \in Nat, NEW m \in Int, m >= -e, NEW a \in Regions, NEW x \in Texts, x # NoFile,
         Known(e, x)
  PROVE  Known(e, [x EXCEPT ![a] = m])
<1>1. x \in [Regions -> Marks] /\ x # NoEntry
  BY BatchAssumption DEF Texts
<1> QED
  BY <1>1 DEF Known

(* A shell command. *)
LEMMA KnownShell ==
  ASSUME batch \in Batches, NEW i \in 1 .. N, NEW e \in Nat, NEW x \in Texts, Known(e, x)
  PROVE  Known(e, ShellText(i, x))
<1>1. i \in Marks /\ batch[i].at \in Regions /\ i \in Nat
  BY CallTypes
<1>2. i \in Int /\ i >= -e
  BY <1>1
<1>3. Known(e, NoFile)
  BY DEF Known
<1>4. CASE Op(i) = "rm"
  BY <1>3, <1>4 DEF ShellText
<1>5. CASE Op(i) # "rm" /\ x = NoFile
  BY <1>1, <1>5, KnownWhole DEF ShellText
<1>6. CASE Op(i) # "rm" /\ x # NoFile
  BY <1>1, <1>2, <1>6, KnownLine DEF ShellText
<1> QED
  BY <1>4, <1>5, <1>6

(* What a flush is about to write. *)
LEMMA KnownPlanned ==
  ASSUME TypeOK, NEW f \in Files, Fresh, ~Conflict(f)
  PROVE  Known(edits, Planned(f))
<1> DEFINE b == entries[f].base
           s == entries[f].staged
           d == disk[f]
<1>1. CASE Planned(f) = NoEntry
  BY <1>1 DEF Known
<1>2. CASE Planned(f) # NoEntry
  <2>1. entries[f] # NoEntry /\ b \in Texts /\ s \in Texts /\ d \in Texts
    BY <1>2 DEF Planned, TypeOK
  <2>2. Known(edits, b) /\ Known(edits, s) /\ Known(edits, d) /\ s # NoEntry /\ d # NoEntry
    BY <2>1, BatchAssumption DEF Fresh
  <2>3. CASE s # NoFile /\ d # b /\ d # s
    <3>1. Planned(f) = Merged(b, s, d) /\ d # NoFile
      BY <1>2, <2>1, <2>3 DEF Planned, Conflict
    <3>2. \A r \in Regions : s[r] >= -edits /\ d[r] >= -edits
      BY <2>2, <2>3, <3>1 DEF Known
    <3>3. \A r \in Regions : Merged(b, s, d)[r] = s[r] \/ Merged(b, s, d)[r] = d[r]
      BY DEF Merged
    <3> QED
      BY <3>1, <3>2, <3>3 DEF Known
  <2>4. CASE ~(s # NoFile /\ d # b /\ d # s)
    BY <1>2, <2>1, <2>2, <2>4 DEF Planned
  <2> QED
    BY <2>3, <2>4
<1> QED
  BY <1>1, <1>2

(* A step brings in no mark of an edit that has not been made. *)
LEMMA FreshStep ==
  ASSUME TypeOK, TypeOK', Control, OneByOne, ReadsText, Fresh, BarriersOnly, [Next]_vars, Calm'
  PROVE  Fresh'
<1>0. /\ UNCHANGED given /\ N' = N /\ N \in Nat /\ edits \in Nat /\ at \in 1 .. N + 1
      /\ \A i \in 1 .. N : File(i) \in Files /\ Op(i) # "git"
  BY GivenStep, GivenIs DEF BarriersOnly
<1>9. /\ disk \in [Files -> Texts] /\ plans \in [Files -> Texts \cup {NoEntry}]
      /\ seen \in [1 .. N -> Texts]
      /\ \A f \in Files : entries[f] # NoEntry => entries[f].base \in Texts /\ entries[f].staged \in Texts
  BY DEF TypeOK
<1>10. \A f \in Files : Known(edits, Overlay(f))
  BY DEF Fresh, Overlay
<1>11. Known(edits, NoFile) /\ Known(edits, NoEntry)
  BY DEF Known
<1>1. ASSUME NEW k \in 1 .. N, Calls1(k) PROVE Fresh'
  <2>1. UNCHANGED <<edits, plans, apart>>
    BY <1>0, <1>1 DEF Calls1, View, EditReads, EditStages, EditMisses, WriteOrDelete, Shell,
                      GitLooks, GitFlushes, log, world
  <2>2. CASE View(k) \/ EditReads(k) \/ EditMisses(k)
    <3>1. /\ UNCHANGED <<disk, entries>>
          /\ seen' = seen \/ seen' = [seen EXCEPT ![k] = Overlay(File(k))]
      BY <2>2 DEF View, EditReads, EditMisses, log
    <3> QED
      BY <1>0, <1>9, <1>10, <2>1, <3>1 DEF Fresh
  <2>3. CASE EditStages(k) \/ WriteOrDelete(k)
    <3> DEFINE text == IF Op(k) = "edit" THEN [seen[k] EXCEPT ![batch[k].at] = k]
                       ELSE IF Op(k) = "write" THEN [r \in Regions |-> k] ELSE NoFile
    <3>1. k \in Nat /\ k \in Int /\ k >= -edits /\ batch[k].at \in Regions /\ k \in Marks
      BY <1>0, CallTypes DEF TypeOK
    <3>2. Stage(File(k), text) /\ UNCHANGED <<disk, seen>>
      BY <2>3 DEF EditStages, WriteOrDelete
    <3>3. Known(edits, text) /\ text \in Texts
      <4>1. CASE EditStages(k)
        <5>1. Op(k) = "edit" /\ seen[k] # NoFile /\ seen[k] \in Texts /\ Known(edits, seen[k])
          BY <1>9, <4>1 DEF EditStages, ReadsText, Fresh
        <5>2. Known(edits, [seen[k] EXCEPT ![batch[k].at] = k])
          BY <1>0, <3>1, <5>1, KnownLine
        <5>3. [seen[k] EXCEPT ![batch[k].at] = k] \in Texts
          BY <3>1, <5>1, LineTypes DEF Texts
        <5> QED
          BY <5>1, <5>2, <5>3
      <4>2. CASE WriteOrDelete(k)
        <5>1. Known(edits, [r \in Regions |-> k]) /\ [r \in Regions |-> k] \in Texts
          BY <1>0, <3>1, KnownWhole, WholeTypes DEF Texts
        <5> QED
          BY <1>11, <4>2, <5>1 DEF WriteOrDelete, Texts
      <4> QED
        BY <2>3, <4>1, <4>2
    <3> HIDE DEF text
    <3>4. /\ entries'[File(k)].staged = text
          /\ entries'[File(k)].base = IF entries[File(k)] # NoEntry /\ entries[File(k)].base # NoFile
                                      THEN entries[File(k)].base ELSE disk[File(k)]
          /\ \A h \in Files : h # File(k) => entries'[h] = entries[h]
      BY <1>0, <3>2, <3>3, StagedEntry
    <3>5. ASSUME NEW h \in Files, entries'[h] # NoEntry
          PROVE  Known(edits, entries'[h].base) /\ Known(edits, entries'[h].staged)
      <4>1. CASE h = File(k)
        BY <3>3, <3>4, <4>1 DEF Fresh
      <4>2. CASE h # File(k)
        BY <3>4, <3>5, <4>2 DEF Fresh
      <4> QED
        BY <4>1, <4>2
    <3> QED
      BY <1>0, <2>1, <3>2, <3>5 DEF Fresh
  <2>4. CASE Shell(k)
    <3>1. /\ entries' = entries /\ seen' = [seen EXCEPT ![k] = disk[File(k)]]
          /\ disk' = [disk EXCEPT ![File(k)] = ShellText(k, disk[File(k)])]
      BY <2>4 DEF Shell, log
    <3>2. Known(edits, disk[File(k)]) /\ Known(edits, ShellText(k, disk[File(k)]))
      BY <1>0, KnownShell DEF Fresh, TypeOK
    <3>3. \A h \in Files : Known(edits, disk'[h])
      BY <1>9, <3>1, <3>2 DEF Fresh
    <3>4. \A i \in 1 .. N : Known(edits, seen'[i])
      BY <1>9, <3>1, <3>2 DEF Fresh
    <3> QED
      BY <1>0, <2>1, <3>1, <3>3, <3>4 DEF Fresh
  <2>5. ~GitLooks(k) /\ ~GitFlushes(k)
    BY <1>0 DEF GitLooks, GitFlushes
  <2> QED
    BY <1>1, <2>2, <2>3, <2>4, <2>5 DEF Calls1
<1>2. ASSUME NEW f \in Files, ApplyPlan(f) PROVE Fresh'
  <2>1. /\ UNCHANGED <<edits, entries, seen, apart>>
        /\ disk' = [disk EXCEPT ![f] = plans[f]] /\ plans' = [plans EXCEPT ![f] = NoEntry]
    BY <1>2 DEF ApplyPlan, world
  <2> QED
    BY <1>0, <1>9, <1>11, <2>1 DEF Fresh
<1>3. ASSUME NEW f \in Files, NEW r \in Regions, Edit(f, r) PROVE Fresh'
  <2>1. /\ UNCHANGED <<entries, plans, seen>> /\ disk[f] # NoFile
        /\ disk' = [disk EXCEPT ![f] = [disk[f] EXCEPT ![r] = -edits']]
        /\ edits' = edits + 1 /\ edits' \in Nat /\ -edits' \in Int /\ -edits' >= -edits'
        /\ apart' = apart \/ apart' = apart \cup {<<f, r, -edits'>>}
    BY <1>0, <1>3 DEF Edit, log
  <2>2. \A x \in Texts \cup {NoEntry} : Known(edits, x) => Known(edits', x)
    BY <1>0, <2>1, KnownLater
  <2>3. ASSUME NEW h \in Files PROVE Known(edits', disk'[h])
    <3>1. Known(edits', disk[h]) /\ disk[h] \in Texts
      BY <1>9, <2>2 DEF Fresh
    <3>2. CASE h = f
      <4>1. disk'[h] = [disk[h] EXCEPT ![r] = -edits']
        BY <1>9, <2>1, <3>2
      <4> QED
        BY <2>1, <3>1, <3>2, <4>1, KnownLine
    <3>3. CASE h # f
      BY <1>9, <2>1, <3>1, <3>3
    <3> QED
      BY <3>2, <3>3
  <2>4. ASSUME NEW p \in apart' PROVE p[3] >= -edits'
    <3>1. CASE p \in apart
      <4>1. p[3] \in Marks /\ p[3] >= -edits
        BY <3>1 DEF Fresh, TypeOK
      <4>2. p[3] \in Int
        BY <4>1, BatchAssumption DEF Marks
      <4> QED
        BY <1>0, <2>1, <4>1, <4>2
    <3>2. CASE p = <<f, r, -edits'>>
      BY <2>1, <3>2
    <3> QED
      BY <2>1, <2>4, <3>1, <3>2
  <2>5. ASSUME NEW h \in Files
        PROVE  /\ Known(edits', plans'[h])
               /\ entries'[h] # NoEntry => /\ Known(edits', entries'[h].base)
                                           /\ Known(edits', entries'[h].staged)
    BY <1>9, <2>1, <2>2 DEF Fresh
  <2>6. \A i \in 1 .. N : Known(edits', seen'[i])
    BY <1>9, <2>1, <2>2 DEF Fresh
  <2> QED
    BY <1>0, <2>3, <2>4, <2>5, <2>6 DEF Fresh
<1>4. CASE FlushDone
  <2>1. /\ UNCHANGED <<disk, plans, seen, edits, apart>> /\ \A f \in Files : entries'[f] = NoEntry
    <3>1. flush # "git" /\ flush # "none"
      BY <1>0, <1>4 DEF FlushDone, Control
    <3> QED
      BY <1>4, <3>1 DEF FlushDone, Forget, Control, world
  <2> QED
    BY <1>0, <2>1 DEF Fresh
<1>5. CASE EndIsland \/ Starts \/ Ends \/ UNCHANGED vars
  <2>1. UNCHANGED <<disk, plans, entries, seen, edits, apart>>
    BY <1>5 DEF EndIsland, Starts, Ends, vars, log, world
  <2> QED
    BY <1>0, <2>1 DEF Fresh
<1>6. ASSUME NEW who \in {"barrier", "final"}, Flushes(who) PROVE Fresh'
  <2>1. /\ UNCHANGED <<disk, entries, seen, edits, apart>>
        /\ \A f \in Files : plans'[f] = Planned(f) /\ ~Conflict(f)
    BY <1>6 DEF Flushes, StartFlush, world
  <2>2. \A f \in Files : Known(edits, plans'[f])
    BY <2>1, KnownPlanned
  <2> QED
    BY <1>0, <2>1, <2>2 DEF Fresh
<1>7. ASSUME NEW who \in {"barrier", "final"}, Refuses(who) PROVE Fresh'
  <2>1. /\ UNCHANGED <<disk, seen, edits, apart>>
        /\ \A f \in Files : plans'[f] = NoEntry /\ entries'[f] = NoEntry
    BY <1>7 DEF Refuses, Refused, GiveUp, Forget, NoPlans
  <2> QED
    BY <1>0, <1>11, <2>1 DEF Fresh
<1> QED
  BY <1>1, <1>2, <1>3, <1>4, <1>5, <1>6, <1>7, CalmCases

\* The scheduler rolls back.
RollsBack == \E who \in {"barrier", "final"} : Refuses(who)

(* Only a roll back takes an ok away. *)
LEMMA OkStays ==
  ASSUME TypeOK, TypeOK', Control, OneByOne, [Next]_vars, Calm', ~RollsBack,
         NEW i \in 1 .. N, res[i] = "ok"
  PROVE  res'[i] = "ok"
<1>0. N \in Nat /\ res \in [1 .. N -> Results]
  BY CallTypes DEF TypeOK
<1>1. ASSUME NEW k \in 1 .. N, Calls1(k) PROVE res'[i] = "ok"
  <2>1. \E r \in Results : res' = [res EXCEPT ![k] = r] /\ (res[k] = "ok" => r = "ok")
    BY <1>1 DEF Calls1, View, EditReads, EditStages, EditMisses, WriteOrDelete, Shell, GitLooks,
                GitFlushes, Answer, Results, Answered
  <2> QED
    BY <1>0, <2>1
<1>2. ASSUME NEW f \in Files, ApplyPlan(f) \/ \E r \in Regions : Edit(f, r) PROVE res'[i] = "ok"
  BY <1>2 DEF ApplyPlan, Edit
<1>3. CASE FlushDone
  <2>1. \/ res' = res
        \/ res' = [j \in 1 .. N |-> IF res[j] = "reading" THEN "ok" ELSE res[j]]
    BY <1>3 DEF FlushDone, Control
  <2> QED
    BY <1>0, <2>1
<1>4. CASE EndIsland \/ Starts \/ Ends \/ UNCHANGED vars
  BY <1>4 DEF EndIsland, Starts, Ends, vars
<1>5. ASSUME NEW who \in {"barrier", "final"}, Flushes(who) PROVE res'[i] = "ok"
  BY <1>5 DEF Flushes
<1> QED
  BY <1>1, <1>2, <1>3, <1>4, <1>5, CalmCases DEF RollsBack

(* An ok that no roll back can take any more stays one. *)
LEMMA SafeStays ==
  ASSUME TypeOK, TypeOK', Partition(starts), Control, Turns, Waiting, OneByOne, BarriersOnly,
         [Next]_vars, Calm',
         NEW i \in 1 .. N, res[i] = "ok", ~Looks(i), flush = "none" => ~Held(i)
  PROVE  res'[i] = "ok" /\ (flush' = "none" => ~Held(i)')
<1>0. /\ UNCHANGED given /\ N \in Nat /\ at \in 1 .. N + 1 /\ res \in [1 .. N -> Results]
      /\ Writes(i)' = Writes(i) /\ Op(i) \in Ops /\ Op(i) # "git"
      /\ \A s \in 1 .. N + 1 : Island(s)' = Island(s) /\ Island(s) \subseteq s .. N
  BY GivenStep, GivenIs DEF TypeOK, BarriersOnly
<1>1. Held(i)' <=> Writes(i) /\ pc' # "done" /\ (i \in pending' \/ (pc' = "run" /\ i \in Island(at)'))
  BY <1>0 DEF Held, Running
<1>2. pc = "next" => i < at
  BY <1>0 DEF Turns
<1>3. ASSUME RollsBack PROVE res'[i] = "ok" /\ ~Held(i)'
  <2>1. /\ pc = "next" /\ flush = "none" /\ res' = RolledBack(pending) /\ at' = at
        /\ pc' = "done" \/ (pc' = "run" /\ pending' = {})
    BY <1>3 DEF RollsBack, Refuses, Between, Refused, GiveUp, AfterBarrier, AfterFinal
  <2>2. i \notin pending
    <3>1. i \in pending => Declared(i) /\ ~Writes(i)
      BY <2>1 DEF Held, Waiting
    <3> QED
      BY <3>1 DEF Declared, Writes, Looks
  <2>3. i \notin Island(at)'
    BY <1>0, <1>2, <2>1
  <2> QED
    BY <1>1, <2>1, <2>2, <2>3 DEF RolledBack
<1>4. ASSUME ~RollsBack, flush' = "none" PROVE ~Held(i)'
  <2>1. ASSUME NEW k \in 1 .. N, Calls1(k) PROVE ~Held(i)'
    <3>1. UNCHANGED sched /\ flush = "none" /\ pc = "run"
      BY <1>4, <2>1 DEF Calls1, View, EditReads, EditStages, EditMisses, WriteOrDelete, Shell,
                       GitLooks, GitFlushes, StartFlush, sched
    <3> QED
      BY <1>0, <1>1, <3>1 DEF Held, Running, sched
  <2>2. ASSUME NEW f \in Files, NEW r \in Regions, Edit(f, r) PROVE ~Held(i)'
    BY <1>0, <1>1, <1>4, <2>2 DEF Edit, log, sched, Held, Running
  <2>3. CASE FlushDone
    <3>1. flush # "git" /\ flush # "none"
      BY <1>0, <2>3 DEF FlushDone, Control, BarriersOnly
    <3>2. pc' = "done" \/ (pc' = "run" /\ pending' = {} /\ at' = at /\ pc = "next")
      BY <2>3, <3>1 DEF FlushDone, Control, AfterBarrier, AfterFinal
    <3>3. pc = "next" /\ at' = at => i \notin Island(at)'
      BY <1>0, <1>2
    <3> QED
      BY <1>1, <3>2, <3>3
  <2>4. CASE EndIsland
    <3>1. /\ flush = "none" /\ pc = "run" /\ pc' = "next"
          /\ pending' = IF \E j \in Island(at) : Writes(j) THEN pending \cup Island(at) ELSE pending
      BY <2>4 DEF EndIsland
    <3> QED
      BY <1>1, <3>1 DEF Held, Running
  <2>5. CASE Starts
    <3>1. flush = "none" /\ pc = "next" /\ pc' = "run" /\ UNCHANGED <<at, pending>>
      BY <2>5 DEF Starts
    <3>2. i \notin Island(at)'
      BY <1>0, <1>2, <3>1
    <3> QED
      BY <1>1, <3>1, <3>2 DEF Held
  <2>6. CASE Ends
    BY <1>1, <2>6 DEF Ends
  <2>7. CASE UNCHANGED vars
    <3>1. UNCHANGED <<pc, flush, at, pending>>
      BY <2>7 DEF vars
    <3> QED
      BY <1>0, <1>1, <1>4, <3>1 DEF Held, Running
  <2>8. (\A f \in Files : ~ApplyPlan(f)) /\ \A who \in {"barrier", "final"} : ~Flushes(who)
    BY <1>4 DEF ApplyPlan, Flushes, StartFlush
  <2> QED
    BY <1>4, <2>1, <2>2, <2>3, <2>4, <2>5, <2>6, <2>7, <2>8, CalmCases DEF RollsBack
<1>5. ~RollsBack => res'[i] = "ok"
  BY OkStays
<1> QED
  BY <1>3, <1>4, <1>5

\* Who stages the removal of a file says ok.
Deleted ==
  \A f \in Files : entries[f] # NoEntry /\ entries[f].staged = NoFile =>
    \E i \in 1 .. N : Op(i) = "delete" /\ File(i) = f /\ res[i] = "ok"

\* Mark m, or one of a later edit, stands in region r of text x.
Stands(x, r, m) == x # NoFile /\ x # NoEntry /\ x[r] <= m

\* The log will write the mark back: it stands in the staged text, or has come after
\* the base was read and nobody has changed the region.
Lodged(f, r, m) ==
  entries[f] # NoEntry =>
    /\ entries[f].staged # NoFile /\ entries[f].base # NoFile
    /\ entries[f].staged[r] <= m \/ entries[f].base[r] > m

\* So will the edits that have read the file.
Carried(f, r, m) ==
  /\ Lodged(f, r, m)
  /\ \A i \in 1 .. N : Op(i) = "edit" /\ res[i] = "reading" /\ File(i) = f =>
       seen[i] # NoFile /\ (seen[i][r] <= m \/ (entries[f] # NoEntry /\ entries[f].base[r] > m))

\* A call that no roll back undoes was made to change the region.
Safe(f, r) == \E i \in 1 .. N : Changes(i, f, r) /\ (flush = "none" => ~Held(i))

\* What has become of an edit from outside.
Survives(f, r, m) ==
  \/ Safe(f, r)
  \/ /\ flush = "none" /\ Stands(disk[f], r, m)
     /\ (\E i \in 1 .. N : Changes(i, f, r)) \/ Carried(f, r, m)
  \/ flush # "none" /\ Stands(Coming(f), r, m)

OutsideInv ==
  Calm /\ BarriersOnly =>
    Fresh /\ Deleted /\ \A p \in apart : Survives(p[1], p[2], p[3])

(* A step keeps that a removal in the log is some call's that says ok. *)
LEMMA DeletedStep ==
  ASSUME TypeOK, TypeOK', Partition(starts), ReadsText, Control, Turns, OneByOne, Looked,
         BarriersOnly, Deleted, [Next]_vars, Calm'
  PROVE  Deleted'
<1>0. /\ UNCHANGED given /\ N' = N
      /\ \A i \in 1 .. N : Op(i)' = Op(i) /\ File(i)' = File(i) /\ File(i) \in Files
  BY GivenStep, GivenIs
<1>1. ASSUME ~RollsBack, NEW f \in Files, entries'[f] = entries[f], entries'[f] # NoEntry,
             entries'[f].staged = NoFile
      PROVE  \E i \in 1 .. N : Op(i) = "delete" /\ File(i) = f /\ res'[i] = "ok"
  BY <1>1, OkStays DEF Deleted
<1>2. ASSUME ~RollsBack, entries' = entries PROVE Deleted'
  BY <1>0, <1>1, <1>2 DEF Deleted
<1>3. ASSUME NEW k \in 1 .. N, EditStages(k) \/ WriteOrDelete(k), ~RollsBack PROVE Deleted'
  <2> DEFINE text == IF Op(k) = "edit" THEN [seen[k] EXCEPT ![batch[k].at] = k]
                     ELSE IF Op(k) = "write" THEN [r \in Regions |-> k] ELSE NoFile
  <2>1. Stage(File(k), text) /\ text \in Texts
    BY <1>3, Staging
  <2>2. text = NoFile => Op(k) = "delete"
    <3>1. CASE EditStages(k)
      <4>1. Op(k) = "edit" /\ seen[k] \in [Regions -> Marks] /\ batch[k].at \in Regions /\ k \in Marks
        BY <3>1, CallTypes DEF EditStages, ReadsText, TypeOK, Texts
      <4>2. [seen[k] EXCEPT ![batch[k].at] = k] \in [Regions -> Marks]
        BY <4>1
      <4> QED
        BY <4>1, <4>2, BatchAssumption
    <3>2. CASE WriteOrDelete(k)
      <4>1. [r \in Regions |-> k] \in [Regions -> Marks]
        BY CallTypes DEF TypeOK
      <4> QED
        BY <3>2, <4>1, BatchAssumption DEF WriteOrDelete
    <3> QED
      BY <1>3, <3>1, <3>2
  <2> HIDE DEF text
  <2>3. entries'[File(k)].staged = text /\ \A h \in Files : h # File(k) => entries'[h] = entries[h]
    BY <1>0, <2>1, StagedEntry
  <2>4. res'[k] = "ok"
    BY <1>3 DEF EditStages, WriteOrDelete, Answer, TypeOK
  <2>5. ASSUME NEW f \in Files, entries'[f] # NoEntry, entries'[f].staged = NoFile
        PROVE  \E i \in 1 .. N : Op(i) = "delete" /\ File(i) = f /\ res'[i] = "ok"
    <3>1. CASE f = File(k)
      BY <2>2, <2>3, <2>4, <2>5, <3>1
    <3>2. CASE f # File(k)
      BY <1>1, <1>3, <2>3, <2>5, <3>2
    <3> QED
      BY <3>1, <3>2
  <2> QED
    BY <1>0, <2>5 DEF Deleted
<1>4. ASSUME RollsBack \/ FlushDone PROVE Deleted'
  <2>1. \A f \in Files : entries'[f] = NoEntry
    BY <1>4 DEF RollsBack, Refuses, Between, Refused, GiveUp, FlushDone, Forget
  <2> QED
    BY <2>1 DEF Deleted
<1>5. ASSUME NEW k \in 1 .. N, Calls1(k), ~(EditStages(k) \/ WriteOrDelete(k))
      PROVE  entries' = entries
  BY <1>5 DEF Calls1, View, EditReads, EditMisses, Shell, GitLooks, GitFlushes, StartFlush, log
<1>6. ASSUME NEW f \in Files, ApplyPlan(f) \/ \E r \in Regions : Edit(f, r)
      PROVE  entries' = entries
  BY <1>6 DEF ApplyPlan, Edit, log
<1>7. ASSUME EndIsland \/ Starts \/ Ends \/ UNCHANGED vars PROVE entries' = entries
  BY <1>7 DEF EndIsland, Starts, Ends, vars, log
<1>8. ASSUME NEW who \in {"barrier", "final"}, Flushes(who) PROVE entries' = entries
  BY <1>8 DEF Flushes, StartFlush
<1> QED
  BY <1>2, <1>3, <1>4, <1>5, <1>6, <1>7, <1>8, CalmCases DEF RollsBack

(* A call that was made to change a region and says ok goes on to. *)
LEMMA ChangesStays ==
  ASSUME TypeOK, TypeOK', Control, OneByOne, [Next]_vars, Calm', NEW f \in Files, NEW r \in Regions
  PROVE  /\ \A i \in 1 .. N : Changes(i, f, r) => ~Looks(i) /\ res[i] = "ok"
         /\ \A i \in 1 .. N : Changes(i, f, r) /\ res'[i] = "ok" => Changes(i, f, r)'
         /\ ~RollsBack => \A i \in 1 .. N : Changes(i, f, r) => Changes(i, f, r)'
<1>1. /\ UNCHANGED given
      /\ \A i \in 1 .. N : Op(i)' = Op(i) /\ File(i)' = File(i) /\ batch'[i] = batch[i]
  BY GivenStep, GivenIs DEF given
<1>2. \A i \in 1 .. N : Changes(i, f, r) => ~Looks(i) /\ res[i] = "ok"
  BY DEF Changes, Looks
<1>3. \A i \in 1 .. N : Changes(i, f, r) /\ res'[i] = "ok" => Changes(i, f, r)'
  BY <1>1 DEF Changes
<1> QED
  BY <1>2, <1>3, OkStays

(* What a flush makes of a text the log will carry the mark into. *)
LEMMA CarriedPlanned ==
  ASSUME TypeOK, NEW f \in Files, NEW r \in Regions, NEW m \in Int, Stands(disk[f], r, m),
         Lodged(f, r, m), ~Conflict(f)
  PROVE  Stands(IF Planned(f) = NoEntry THEN disk[f] ELSE Planned(f), r, m)
<1> DEFINE b == entries[f].base
           s == entries[f].staged
           d == disk[f]
<1>1. CASE entries[f] = NoEntry
  BY <1>1 DEF Planned
<1>2. CASE entries[f] # NoEntry
  <2>1. /\ b \in [Regions -> Marks] /\ s \in [Regions -> Marks] /\ d \in [Regions -> Marks]
        /\ s # NoFile /\ d # NoFile /\ b # NoFile /\ s # NoEntry
        /\ d[r] <= m /\ (s[r] <= m \/ b[r] > m)
    BY <1>2, BatchAssumption DEF Lodged, Stands, TypeOK, Texts
  <2>2. b[r] \in Int /\ s[r] \in Int /\ d[r] \in Int
    BY <2>1, BatchAssumption DEF Marks
  <2>3. CASE d = b \/ d = s
    <3>1. Planned(f) = s
      BY <1>2, <2>1, <2>3 DEF Planned
    <3>2. s[r] <= m
      BY <2>1, <2>2, <2>3
    <3> QED
      BY <2>1, <3>1, <3>2 DEF Stands
  <2>4. CASE d # b /\ d # s
    <3>1. Planned(f) = Merged(b, s, d)
      BY <1>2, <2>1, <2>4 DEF Planned
    <3>2. ~(s[r] # b[r] /\ d[r] # b[r] /\ s[r] # d[r])
      BY <1>2, <2>1, <2>4 DEF Conflict, Conflicting
    <3>3. Merged(b, s, d)[r] <= m
      BY <2>1, <2>2, <3>2 DEF Merged
    <3>4. Merged(b, s, d) \in [Regions -> Marks]
      BY <2>1 DEF Merged
    <3>5. Merged(b, s, d) # NoFile /\ Merged(b, s, d) # NoEntry
      BY <3>4, BatchAssumption DEF Texts
    <3> QED
      BY <3>1, <3>3, <3>5 DEF Stands
  <2> QED
    BY <2>3, <2>4
<1> QED
  BY <1>1, <1>2

(* Between two flushes, a mark that stands on disk and is carried by the log goes on to
   stand and to be carried, or somebody was made to change the region. *)
LEMMA CallsCarry ==
  ASSUME TypeOK, TypeOK', Partition(starts), ReadsText, Control, Turns, OneByOne, Looked,
         BarriersOnly, [Next]_vars, Calm',
         NEW f \in Files, NEW r \in Regions, NEW m \in Int, NEW k \in 1 .. N, Calls1(k),
         Stands(disk[f], r, m), (\E i \in 1 .. N : Changes(i, f, r)) \/ Carried(f, r, m)
  PROVE  Survives(f, r, m)'
<1>0. /\ UNCHANGED given /\ N' = N /\ N \in Nat
      /\ \A i \in 1 .. N : Op(i)' = Op(i) /\ File(i)' = File(i) /\ File(i) \in Files
      /\ res \in [1 .. N -> Results] /\ seen \in [1 .. N -> Texts] /\ disk \in [Files -> Texts]
      /\ batch' = batch
  BY GivenStep, GivenIs DEF TypeOK, given
<1>1. /\ pc = "run" /\ flush = "none" /\ k \in Island(at) /\ UNCHANGED <<pc, flush, at, pending>>
      /\ ~GitLooks(k) /\ ~GitFlushes(k)
  BY DEF BarriersOnly, Calls1, View, EditReads, EditStages, EditMisses, WriteOrDelete, Shell,
         GitLooks, GitFlushes, log, sched
<1>2. ~RollsBack
  BY <1>1 DEF RollsBack, Refuses, Between
<1>3. \A i \in 1 .. N : Changes(i, f, r) => Changes(i, f, r)'
  BY <1>2, ChangesStays
<1>4. ASSUME Stands(disk'[f], r, m), (\E i \in 1 .. N : Changes(i, f, r)') \/ Carried(f, r, m)'
      PROVE  Survives(f, r, m)'
  BY <1>0, <1>1, <1>4 DEF Survives
<1>5. CASE View(k) \/ EditReads(k) \/ EditMisses(k)
  <2>1. /\ UNCHANGED <<disk, entries>>
        /\ \E a \in Results : res' = [res EXCEPT ![k] = a]
        /\ seen' = seen \/ seen' = [seen EXCEPT ![k] = Overlay(File(k))]
        /\ Op(k) = "edit" /\ res'[k] = "reading" =>
             Overlay(File(k)) # NoFile /\ seen'[k] = Overlay(File(k))
    BY <1>0, <1>5 DEF View, EditReads, EditMisses, Answer, log, Results, Answered
  <2>2. ASSUME Carried(f, r, m) PROVE Carried(f, r, m)'
    <3>1. Lodged(f, r, m)'
      BY <2>1, <2>2 DEF Lodged, Carried
    <3>2. ASSUME NEW i \in 1 .. N, Op(i) = "edit", res'[i] = "reading", File(i) = f
          PROVE  seen'[i] # NoFile /\ (seen'[i][r] <= m \/ (entries[f] # NoEntry /\ entries[f].base[r] > m))
      <4>1. CASE i # k
        BY <1>0, <2>1, <2>2, <3>2, <4>1 DEF Carried
      <4>2. CASE i = k
        <5>1. seen'[i] = Overlay(f) /\ seen'[i] # NoFile
          BY <2>1, <3>2, <4>2
        <5> QED
          BY <2>2, <5>1 DEF Carried, Lodged, Overlay, Stands
      <4> QED
        BY <4>1, <4>2
    <3> QED
      BY <1>0, <2>1, <3>1, <3>2 DEF Carried
  <2> QED
    BY <1>0, <1>3, <1>4, <2>1, <2>2
<1>6. CASE EditStages(k) \/ WriteOrDelete(k)
  <2> DEFINE text == IF Op(k) = "edit" THEN [seen[k] EXCEPT ![batch[k].at] = k]
                     ELSE IF Op(k) = "write" THEN [q \in Regions |-> k] ELSE NoFile
  <2>1. Stage(File(k), text) /\ text \in Texts
    BY <1>6, Staging
  <2>2. EditStages(k) => text = [seen[k] EXCEPT ![batch[k].at] = k]
    BY DEF EditStages
  <2> HIDE DEF text
  <2>3. disk' = disk /\ seen' = seen /\ res' = [res EXCEPT ![k] = "ok"]
    BY <1>6 DEF EditStages, WriteOrDelete, Answer
  <2>4. /\ entries'[File(k)] # NoEntry /\ entries'[File(k)].staged = text
        /\ entries'[File(k)].base = IF entries[File(k)] # NoEntry /\ entries[File(k)].base # NoFile
                                    THEN entries[File(k)].base ELSE disk[File(k)]
        /\ \A h \in Files : h # File(k) => entries'[h] = entries[h]
    BY <1>0, <2>1, StagedEntry
  <2>5. res'[k] = "ok"
    BY <1>0, <2>3
  <2>6. CASE File(k) = f /\ (WriteOrDelete(k) \/ batch[k].at = r)
    <3>1. Changes(k, f, r)'
      BY <1>0, <1>6, <2>5, <2>6 DEF Changes, EditStages, WriteOrDelete
    <3> QED
      BY <1>4, <2>3, <3>1
  <2>7. CASE File(k) # f
    <3>1. ASSUME Carried(f, r, m) PROVE Carried(f, r, m)'
      <4>1. entries'[f] = entries[f]
        BY <2>4, <2>7
      <4> QED
        BY <1>0, <2>3, <3>1, <4>1 DEF Carried, Lodged
    <3> QED
      BY <1>0, <1>3, <1>4, <2>3, <3>1
  <2>8. CASE File(k) = f /\ EditStages(k) /\ batch[k].at # r
    <3>1. ASSUME Carried(f, r, m) PROVE Carried(f, r, m)'
      <4>1. /\ seen[k] # NoFile /\ seen[k] \in [Regions -> Marks]
            /\ seen[k][r] <= m \/ (entries[f] # NoEntry /\ entries[f].base[r] > m)
        BY <1>0, <2>8, <3>1 DEF Carried, EditStages, Texts
      <4>2. text[r] = seen[k][r] /\ text # NoFile
        <5>1. text \in [Regions -> Marks] /\ text[r] = seen[k][r]
          <6>1. batch[k].at \in Regions /\ k \in Marks
            BY CallTypes DEF TypeOK
          <6> QED
            BY <2>2, <2>8, <4>1, <6>1
        <5> QED
          BY <5>1, BatchAssumption
      <4>3. /\ entries'[f] # NoEntry /\ entries'[f].staged = text
            /\ entries'[f].base = IF entries[f] # NoEntry THEN entries[f].base ELSE disk[f]
            /\ entries'[f].base # NoFile
        BY <2>4, <2>8, <3>1 DEF Carried, Lodged, Stands
      <4>4. Lodged(f, r, m)'
        BY <4>1, <4>2, <4>3 DEF Lodged
      <4>5. ASSUME NEW i \in 1 .. N, Op(i) = "edit", res'[i] = "reading", File(i) = f
            PROVE  seen'[i] # NoFile /\ (seen'[i][r] <= m \/ (entries'[f] # NoEntry /\ entries'[f].base[r] > m))
        <5>1. i # k /\ res[i] = "reading"
          BY <1>0, <2>3, <4>5
        <5> QED
          BY <2>3, <3>1, <4>3, <4>5, <5>1 DEF Carried
      <4> QED
        BY <1>0, <4>4, <4>5 DEF Carried
    <3> QED
      BY <1>0, <1>3, <1>4, <2>3, <3>1
  <2> QED
    BY <1>6, <2>6, <2>7, <2>8
<1>7. CASE Shell(k)
  <2>1. /\ entries' = entries /\ res' = [res EXCEPT ![k] = "ok"]
        /\ seen' = [seen EXCEPT ![k] = disk[File(k)]]
        /\ disk' = [disk EXCEPT ![File(k)] = ShellText(k, disk[File(k)])]
        /\ Op(k) \in {"bash", "rm"}
    BY <1>7 DEF Shell, log, Answer, Barrier
  <2>2. CASE File(k) = f /\ (Op(k) = "rm" \/ batch[k].at = r)
    <3>1. Changes(k, f, r)'
      BY <1>0, <2>1, <2>2 DEF Changes
    <3>2. ~Held(k)'
      BY <1>0, <2>1 DEF Held, Writes
    <3> QED
      BY <1>0, <3>1, <3>2 DEF Survives, Safe
  <2>3. CASE ~(File(k) = f /\ (Op(k) = "rm" \/ batch[k].at = r))
    <3>1. Stands(disk'[f], r, m)
      <4>1. CASE File(k) # f
        BY <1>0, <2>1, <4>1
      <4>2. CASE File(k) = f
        <5>1. batch[k].at # r /\ Op(k) = "bash" /\ disk[f] # NoFile /\ disk[f] \in [Regions -> Marks]
              /\ batch[k].at \in Regions /\ k \in Marks
          BY <1>0, <2>1, <2>3, <4>2, CallTypes DEF Stands, Texts, TypeOK
        <5>2. disk'[f] = [disk[f] EXCEPT ![batch[k].at] = k]
          BY <1>0, <2>1, <4>2, <5>1 DEF ShellText
        <5>3. disk'[f] \in [Regions -> Marks] /\ disk'[f][r] = disk[f][r]
          BY <5>1, <5>2
        <5> QED
          BY <5>3, BatchAssumption DEF Stands, Texts
      <4> QED
        BY <4>1, <4>2
    <3>2. ASSUME Carried(f, r, m) PROVE Carried(f, r, m)'
      <4>1. \A i \in 1 .. N : Op(i) = "edit" => i # k
        BY <2>1
      <4>2. \A i \in 1 .. N : Op(i) = "edit" => res'[i] = res[i] /\ seen'[i] = seen[i]
        BY <1>0, <2>1, <4>1
      <4> QED
        BY <1>0, <2>1, <3>2, <4>2 DEF Carried, Lodged
    <3> QED
      BY <1>0, <1>3, <1>4, <3>1, <3>2
  <2> QED
    BY <2>2, <2>3
<1> QED
  BY <1>1, <1>5, <1>6, <1>7 DEF Calls1

(* A mark from outside that survives goes on to. *)
LEMMA SurvivesStep ==
  ASSUME TypeOK, TypeOK', Partition(starts), ReadsText, Control, Turns, Waiting, OneByOne, Looked,
         BarriersOnly, [Next]_vars, Calm',
         NEW f \in Files, NEW r \in Regions, NEW m \in Int, m >= -edits, Survives(f, r, m)
  PROVE  Survives(f, r, m)'
<1>0. /\ UNCHANGED given /\ N' = N /\ N \in Nat /\ at \in 1 .. N + 1
      /\ \A i \in 1 .. N : Op(i)' = Op(i) /\ File(i)' = File(i) /\ Op(i) # "git"
      /\ disk \in [Files -> Texts] /\ edits \in Nat
  BY GivenStep, GivenIs DEF TypeOK, BarriersOnly
<1>1. \A i \in 1 .. N : Changes(i, f, r) => ~Looks(i) /\ res[i] = "ok"
  BY ChangesStays
<1>2. CASE Safe(f, r)
  <2>1. PICK i \in 1 .. N : Changes(i, f, r) /\ (flush = "none" => ~Held(i))
    BY <1>2 DEF Safe
  <2>2. res'[i] = "ok" /\ (flush' = "none" => ~Held(i)')
    BY <1>1, <2>1, SafeStays
  <2>3. Changes(i, f, r)'
    BY <2>1, <2>2, ChangesStays
  <2>4. Safe(f, r)'
    BY <1>0, <2>2, <2>3 DEF Safe
  <2> QED
    BY <2>4 DEF Survives
<1>3. ASSUME \A i \in 1 .. N : res'[i] # "reading", entries'[f] = NoEntry, flush' = "none",
             Stands(disk'[f], r, m)
      PROVE  Survives(f, r, m)'
  BY <1>0, <1>3 DEF Survives, Carried, Lodged
<1>4. CASE /\ flush = "none" /\ Stands(disk[f], r, m)
           /\ (\E i \in 1 .. N : Changes(i, f, r)) \/ Carried(f, r, m)
  <2>1. CASE RollsBack
    <3>1. /\ pc = "next" /\ res' = RolledBack(pending) /\ flush' = "none" /\ disk' = disk
          /\ entries'[f] = NoEntry
      BY <2>1 DEF RollsBack, Refuses, Between, Refused, GiveUp, Forget
    <3>2. \A i \in 1 .. N : res[i] # "reading"
      BY <1>0, <3>1 DEF Turns, Answered
    <3>3. \A i \in 1 .. N : res'[i] # "reading"
      BY <3>1, <3>2 DEF RolledBack
    <3> QED
      BY <1>3, <1>4, <3>1, <3>3
  <2>2. ASSUME NEW k \in 1 .. N, Calls1(k) PROVE Survives(f, r, m)'
    BY <1>4, <2>2, CallsCarry
  <2>3. ASSUME NEW h \in Files, NEW a \in Regions, Edit(h, a) PROVE Survives(f, r, m)'
    <3>1. /\ UNCHANGED <<entries, res, seen, flush>> /\ edits' = edits + 1
          /\ disk' = [disk EXCEPT ![h] = [disk[h] EXCEPT ![a] = -edits']]
      BY <2>3 DEF Edit, log
    <3>2. Stands(disk'[f], r, m)
      <4>1. CASE h = f
        <5>1. disk[f] \in [Regions -> Marks] /\ -edits' \in Marks /\ -edits' <= m /\ disk[f][r] <= m
          BY <1>0, <1>4, <2>3, <3>1, BatchAssumption DEF Stands, Texts, Edit, Marks, TypeOK
        <5>2. disk'[f] = [disk[f] EXCEPT ![a] = -edits']
          BY <1>0, <3>1, <4>1
        <5>3. disk'[f] \in [Regions -> Marks] /\ disk'[f][r] <= m
          BY <5>1, <5>2
        <5> QED
          BY <5>3, BatchAssumption DEF Stands, Texts
      <4>2. CASE h # f
        BY <1>0, <1>4, <3>1, <4>2
      <4> QED
        BY <4>1, <4>2
    <3>3. (\E i \in 1 .. N : Changes(i, f, r)') \/ Carried(f, r, m)'
      <4>1. ASSUME Carried(f, r, m) PROVE Carried(f, r, m)'
        BY <1>0, <3>1, <4>1 DEF Carried, Lodged
      <4>2. ~RollsBack
        BY <1>0, <3>1 DEF RollsBack, Refuses, Refused, GiveUp
      <4> QED
        BY <1>4, <4>1, <4>2, ChangesStays
    <3> QED
      BY <1>0, <1>4, <3>1, <3>2, <3>3 DEF Survives
  <2>4. ASSUME NEW who \in {"barrier", "final"}, Flushes(who) PROVE Survives(f, r, m)'
    <3>1. /\ flush' # "none" /\ UNCHANGED <<disk, entries, res>>
          /\ plans'[f] = Planned(f) /\ ~Conflict(f)
      BY <2>4 DEF Flushes, StartFlush
    <3>2. CASE \E i \in 1 .. N : Changes(i, f, r)
      <4>1. ~RollsBack
        BY <3>1 DEF RollsBack, Refuses, Refused, GiveUp
      <4>2. \E i \in 1 .. N : Changes(i, f, r)'
        BY <3>2, <4>1, ChangesStays
      <4> QED
        BY <1>0, <3>1, <4>2 DEF Survives, Safe
    <3>3. CASE Carried(f, r, m)
      BY <1>4, <3>1, <3>3, CarriedPlanned DEF Carried, Survives, Coming
    <3> QED
      BY <1>4, <3>2, <3>3
  <2>5. CASE EndIsland \/ Starts \/ Ends \/ UNCHANGED vars
    <3>1. UNCHANGED <<disk, entries, res, seen, flush>>
      BY <2>5 DEF EndIsland, Starts, Ends, vars, log
    <3>2. ASSUME Carried(f, r, m) PROVE Carried(f, r, m)'
      BY <1>0, <3>1, <3>2 DEF Carried, Lodged
    <3>3. ASSUME NEW i \in 1 .. N, Changes(i, f, r) PROVE Changes(i, f, r)'
      BY <1>1, <3>1, <3>3, ChangesStays
    <3> QED
      BY <1>0, <1>4, <3>1, <3>2, <3>3 DEF Survives
  <2>6. ~FlushDone /\ \A h \in Files : ~ApplyPlan(h)
    BY <1>4 DEF FlushDone, ApplyPlan
  <2> QED
    BY <2>1, <2>2, <2>3, <2>4, <2>5, <2>6, CalmCases DEF RollsBack
<1>5. CASE flush # "none" /\ Stands(Coming(f), r, m)
  <2>1. ASSUME NEW h \in Files, ApplyPlan(h) PROVE Survives(f, r, m)'
    <3>1. /\ flush' = flush /\ plans[h] # NoEntry
          /\ disk' = [disk EXCEPT ![h] = plans[h]] /\ plans' = [plans EXCEPT ![h] = NoEntry]
      BY <2>1 DEF ApplyPlan
    <3>2. Coming(f)' = Coming(f)
      BY <3>1 DEF Coming, TypeOK
    <3> QED
      BY <1>5, <3>1, <3>2 DEF Survives
  <2>2. ASSUME NEW h \in Files, NEW a \in Regions, Edit(h, a) PROVE Survives(f, r, m)'
    <3>1. /\ UNCHANGED <<plans, flush>> /\ edits' = edits + 1
          /\ disk' = [disk EXCEPT ![h] = [disk[h] EXCEPT ![a] = -edits']]
      BY <2>2 DEF Edit, log
    <3>2. CASE plans[f] # NoEntry \/ h # f
      BY <1>0, <1>5, <3>1, <3>2 DEF Coming, Survives
    <3>3. CASE plans[f] = NoEntry /\ h = f
      <4>1. disk[f] \in [Regions -> Marks] /\ -edits' \in Marks /\ -edits' <= m /\ disk[f][r] <= m
        <5>1. disk[f] # NoFile /\ disk[f][r] <= m
          BY <1>5, <3>3 DEF Stands, Coming
        <5>2. disk[f] \in [Regions -> Marks]
          BY <1>0, <5>1 DEF Texts
        <5>3. -edits' \in Marks /\ -edits' <= m
          BY <1>0, <2>2, <3>1, BatchAssumption DEF Edit, Marks
        <5> QED
          BY <5>1, <5>2, <5>3
      <4>2. disk'[f] = [disk[f] EXCEPT ![a] = -edits']
        BY <1>0, <3>1, <3>3
      <4>3. disk'[f] \in [Regions -> Marks] /\ disk'[f][r] <= m
        BY <4>1, <4>2
      <4>4. Stands(disk'[f], r, m)
        BY <4>3, BatchAssumption DEF Stands, Texts
      <4> QED
        BY <1>5, <3>1, <3>3, <4>4 DEF Survives, Coming
    <3> QED
      BY <3>2, <3>3
  <2>3. CASE FlushDone
    <3>1. pc = "next" /\ flush # "git"
      BY <1>0, <2>3 DEF FlushDone, Control
    <3>2. /\ flush' = "none" /\ disk' = disk /\ entries'[f] = NoEntry /\ res' = res
          /\ plans[f] = NoEntry
      BY <2>3, <3>1 DEF FlushDone, Forget, Control
    <3>3. \A i \in 1 .. N : res'[i] # "reading"
      BY <1>0, <3>1, <3>2 DEF Turns, Answered
    <3> QED
      BY <1>3, <1>5, <3>2, <3>3 DEF Coming
  <2>4. CASE UNCHANGED vars
    <3>1. UNCHANGED <<flush, disk, plans>>
      BY <2>4 DEF vars
    <3> QED
      BY <1>5, <3>1 DEF Survives, Coming
  <2>5. /\ \A k \in 1 .. N : ~Calls1(k)
        /\ ~EndIsland /\ ~Starts /\ ~Ends
        /\ \A who \in {"barrier", "final"} : ~Flushes(who) /\ ~Refuses(who)
    BY <1>5 DEF Calls1, EndIsland, Starts, Ends, Flushes, Refuses, Between
  <2> QED
    BY <2>1, <2>2, <2>3, <2>4, <2>5, CalmCases
<1> QED
  BY <1>2, <1>4, <1>5 DEF Survives

(* An edit that falls between nobody's read and write stands on disk, and a log that has
   read the file has read it before. *)
LEMMA NewEdit ==
  ASSUME TypeOK, TypeOK', Control, OneByOne, Fresh, Deleted, BarriersOnly, Calm',
         NEW f \in Files, NEW r \in Regions, Edit(f, r), flush = "none",
         ~\E i \in 1 .. N : File(i) = f /\ res[i] = "reading", UNCHANGED given,
         NEW m, m = -edits'
  PROVE  Survives(f, r, m)'
<1>0. /\ N' = N /\ edits \in Nat /\ \A i \in 1 .. N : Op(i)' = Op(i) /\ File(i)' = File(i)
      /\ batch' = batch
  BY GivenIs DEF given
<1>1. /\ UNCHANGED <<res, entries, flush, seen>> /\ edits' = edits + 1 /\ disk[f] # NoFile
      /\ disk' = [disk EXCEPT ![f] = [disk[f] EXCEPT ![r] = -edits']]
  BY DEF Edit, log
<1>2. Stands(disk'[f], r, m)
  <2>1. disk[f] \in [Regions -> Marks] /\ -edits' \in Marks
    BY <1>0, <1>1, BatchAssumption DEF Edit, Texts, Marks, TypeOK
  <2>2. disk'[f] = [disk[f] EXCEPT ![r] = -edits']
    BY <1>1 DEF TypeOK
  <2>3. disk'[f] \in [Regions -> Marks] /\ disk'[f][r] = -edits'
    BY <2>1, <2>2
  <2>4. -edits' <= -edits'
    BY <1>0, <1>1
  <2> QED
    BY <2>3, <2>4, BatchAssumption DEF Stands, Texts
<1>3. CASE entries[f] # NoEntry /\ entries[f].staged = NoFile
  <2>1. PICK i \in 1 .. N : Op(i) = "delete" /\ File(i) = f /\ res[i] = "ok"
    BY <1>3 DEF Deleted
  <2>2. Changes(i, f, r)'
    BY <1>0, <1>1, <2>1 DEF Changes
  <2> QED
    BY <1>0, <1>1, <1>2, <2>2 DEF Survives
<1>4. CASE entries[f] # NoEntry => entries[f].staged # NoFile
  <2>1. entries[f] # NoEntry => entries[f].base # NoFile /\ entries[f].base[r] > m
    <3>1. SUFFICES ASSUME entries[f] # NoEntry
                   PROVE  entries[f].base # NoFile /\ entries[f].base[r] > m
      OBVIOUS
    <3>2. entries[f].base \in [Regions -> Marks]
      BY <1>1, <3>1 DEF OneByOne, Near
    <3>3. entries[f].base # NoFile /\ entries[f].base # NoEntry
      BY <3>2, BatchAssumption DEF Texts
    <3>4. entries[f].base[r] >= -edits /\ entries[f].base[r] \in Int
      BY <3>1, <3>2, <3>3, BatchAssumption DEF Fresh, Known, Marks
    <3> QED
      BY <1>0, <1>1, <3>3, <3>4
  <2>2. Carried(f, r, m)'
    <3>1. \A i \in 1 .. N : File(i) = f => res'[i] # "reading"
      BY <1>1
    <3>2. Lodged(f, r, m)'
      BY <1>1, <1>4, <2>1 DEF Lodged
    <3> QED
      BY <1>0, <3>1, <3>2 DEF Carried
  <2> QED
    BY <1>1, <1>2, <2>2 DEF Survives
<1> QED
  BY <1>3, <1>4

(* There is no edit yet. *)
LEMMA OutsideInit == Init => OutsideInv
<1> SUFFICES ASSUME Init PROVE Fresh /\ Deleted /\ apart = {}
  BY DEF OutsideInv
<1>1. \A f \in Files : Known(edits, disk[f])
  BY DEF Init, Committed, Known, Old
<1>2. Known(edits, NoFile) /\ Known(edits, NoEntry)
  BY DEF Known
<1> QED
  BY <1>1, <1>2 DEF Init, Fresh, Deleted

(* Every step keeps the invariant of the edits from outside. *)
LEMMA OutsideStep == IInv /\ SerialInv /\ OutsideInv /\ [Next]_vars => OutsideInv'
<1> SUFFICES ASSUME IInv, SerialInv, OutsideInv, [Next]_vars, Calm', BarriersOnly'
             PROVE  Fresh' /\ Deleted' /\ \A p \in apart' : Survives(p[1], p[2], p[3])'
  BY DEF OutsideInv
<1>1. /\ TypeOK /\ TypeOK' /\ ReadsText /\ Partition(starts) /\ UNCHANGED given /\ edits \in Nat
  <2>1. TypeOK /\ TypeOK' /\ ReadsText /\ Partition(starts)
    BY StepInv DEF IInv
  <2>2. edits \in Nat
    BY <2>1, BatchAssumption DEF TypeOK
  <2> QED
    BY <2>1, <2>2, GivenStep
<1>2. Calm /\ BarriersOnly
  BY <1>1, CalmStep
<1>3. /\ Control /\ Turns /\ Waiting /\ OneByOne /\ Looked
      /\ Fresh /\ Deleted /\ \A p \in apart : Survives(p[1], p[2], p[3])
  BY <1>2 DEF SerialInv, OutsideInv
<1>4. Fresh' /\ Deleted'
  BY <1>1, <1>2, <1>3, FreshStep, DeletedStep
<1>5. ASSUME NEW p \in apart PROVE Survives(p[1], p[2], p[3])'
  <2>1. p[1] \in Files /\ p[2] \in Regions /\ p[3] \in Int /\ p[3] >= -edits
    BY <1>1, <1>3, BatchAssumption DEF TypeOK, Marks, Fresh
  <2>2. PICK f \in Files, r \in Regions, m \in Int : f = p[1] /\ r = p[2] /\ m = p[3]
    BY <2>1
  <2>3. Survives(f, r, m)
    BY <1>3, <2>2
  <2>4. Survives(f, r, m)'
    BY <1>1, <1>2, <1>3, <2>1, <2>2, <2>3, SurvivesStep
  <2> QED
    BY <2>2, <2>4
<1>6. ASSUME NEW p \in apart', p \notin apart PROVE Survives(p[1], p[2], p[3])'
  <2>1. PICK f \in Files, r \in Regions :
          /\ Edit(f, r) /\ flush = "none" /\ p = <<f, r, -edits'>>
          /\ ~\E i \in 1 .. N : File(i) = f /\ res[i] = "reading"
    <3>1. ASSUME NEW k \in 1 .. N, Calls1(k) PROVE apart' = apart
      BY <3>1 DEF Calls1, View, EditReads, EditStages, EditMisses, WriteOrDelete, Shell,
                  GitLooks, GitFlushes, StartFlush, world
    <3>2. ASSUME NEW f \in Files, ApplyPlan(f) PROVE apart' = apart
      BY <3>2 DEF ApplyPlan, world
    <3>3. ASSUME FlushDone \/ EndIsland \/ Starts \/ Ends \/ UNCHANGED vars PROVE apart' = apart
      BY <3>3 DEF FlushDone, EndIsland, Starts, Ends, vars, world
    <3>4. ASSUME NEW who \in {"barrier", "final"}, Flushes(who) \/ Refuses(who) PROVE apart' = apart
      BY <3>4 DEF Flushes, Refuses, StartFlush, Refused, GiveUp, world
    <3>5. PICK f \in Files, r \in Regions : Edit(f, r)
      BY <1>1, <1>3, <1>6, <3>1, <3>2, <3>3, <3>4, CalmCases
    <3>6. /\ flush = "none" /\ p = <<f, r, -edits'>>
          /\ ~\E i \in 1 .. N : File(i) = f /\ res[i] = "reading"
      BY <1>6, <3>5 DEF Edit
    <3> QED
      BY <3>5, <3>6
  <2>2. PICK m : m = -edits'
    OBVIOUS
  <2>3. Survives(f, r, m)'
    BY <1>1, <1>2, <1>3, <2>1, <2>2, NewEdit
  <2>4. f = p[1] /\ r = p[2] /\ m = p[3]
    BY <2>1, <2>2
  <2> QED
    BY <2>3, <2>4
<1> QED
  BY <1>4, <1>5, <1>6

(* An edit from outside that did not fall between a read and a write is still on disk at
   the end, or a later one in its place, unless a call that says ok was made to change the
   same text (flush merges with what is on disk, tryMergeText). *)
THEOREM OutsideKept == Spec => []OutsideEditsKept
<1>1. IInv /\ SerialInv /\ OutsideInv => OutsideEditsKept
  <2> SUFFICES ASSUME IInv, SerialInv, OutsideInv, pc = "done", ~signal, fails = 0, BarriersOnly,
                      NEW p \in apart
               PROVE  \/ disk[p[1]] # NoFile /\ disk[p[1]][p[2]] <= p[3]
                      \/ \E i \in 1 .. N : Changes(i, p[1], p[2])
    BY DEF OutsideEditsKept
  <2>1. flush = "none" /\ Survives(p[1], p[2], p[3])
    BY DEF SerialInv, OutsideInv, Calm, Control
  <2> QED
    BY <2>1 DEF Survives, Safe, Stands
<1>2. IInv /\ SerialInv /\ OutsideInv /\ [Next]_vars => (IInv /\ SerialInv /\ OutsideInv)'
  BY StepInv, SerialStep, OutsideStep
<1> QED
  BY <1>1, <1>2, InitInv, SerialInit, OutsideInit, PTL DEF Spec

===============================================================================

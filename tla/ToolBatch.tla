----------------------------- MODULE ToolBatch -----------------------------
(***************************************************************************)
(* One batch of tool calls, from the model's list to the results it reads: *)
(* the scheduler's islands (scheduler.ts, optimizer.ts), the write-ahead   *)
(* log that holds the file tools' writes back until a barrier or the end   *)
(* (wal.ts), the recovery session that undoes them (session.ts,            *)
(* checkpoint.ts) and what the engine does with calls left without a       *)
(* result (engine.ts).                                                     *)
(*                                                                         *)
(* A file is NoFile or a text of Regions, lines far enough apart that two  *)
(* changes merge unless they are in the same one. The text of a region is  *)
(* who wrote it last: nobody (Old), a call, or an edit by a process        *)
(* outside, the first of which leaves -1, the second -2, and so on.        *)
(***************************************************************************)
EXTENDS Integers, Sequences, FiniteSets

CONSTANTS
  Files, Regions,
  Tracked,       \* the files of the HEAD commit
  Batches,       \* the lists of calls the model may emit
  MaxCalls,      \* bound: the length of a list
  MaxEdits,      \* bound: edits by processes outside
  MaxFails,      \* bound: writes that fail (a full disk, a permission)
  NoFile, NoEntry, NoTree

Ops == {"view", "edit", "write", "delete", "git", "bash", "rm"}

Old   == 0
Outside(mark) == mark < 0
Marks == -MaxEdits .. MaxCalls
Texts == [Regions -> Marks] \cup {NoFile}
Calls == [op : Ops, file : Files, at : Regions]

ASSUME BatchAssumption ==
  /\ Tracked \subseteq Files
  /\ MaxCalls \in Nat /\ MaxEdits \in Nat /\ MaxFails \in Nat
  /\ Batches \subseteq {b \in Seq(Calls) : Len(b) \in 1 .. MaxCalls}
  /\ NoFile \notin [Regions -> Marks]
  /\ NoEntry \notin [base : Texts, staged : Texts] \cup Texts
  /\ NoTree \notin [Files -> Texts]

VARIABLES
  batch,      \* the calls, in the model's order
  starts,     \* the calls at which an island starts
  git,        \* the workspace is a git repository with a commit
  disk,       \* what is on disk
  entries,    \* WriteAheadLog.entries
  plans,      \* flush(): the files still to be written, with their new text
  flush,      \* who flushes: "none", "barrier", "git", "final"
  saved,      \* RecoverySession.checkpoint, with the tree it was taken of
  flushed,    \* RecoverySession.barrierFlushed
  pc,         \* executeToolCalls: "next" island, "run" it; "rest", "done"
  at,         \* the first call of the island
  res,        \* the calls' results
  seen,       \* the text a call has read
  pending,    \* pendingWriteResultIndexes
  signal,     \* the abort signal
  edits, fails,
  apart       \* history: outside edits made while nobody was between a read of
              \* the file and its stage, or between the two passes of a flush

vars == <<batch, starts, git, disk, entries, plans, flush, saved, flushed,
          pc, at, res, seen, pending, signal, edits, fails, apart>>
given == <<batch, starts, git>>
log   == <<entries, plans, flush>>
safe  == <<saved, flushed>>
sched == <<pc, at, pending>>
world == <<signal, edits, fails, apart>>

N == Len(batch)
Op(i)   == batch[i].op
File(i) == batch[i].file

Answered == {"ok", "error", "undone"}
Results  == Answered \cup {"none", "reading"}

-----------------------------------------------------------------------------
(* The partition into islands. *)

Barrier(i)  == Op(i) \in {"bash", "rm"}
Declared(i) == Op(i) \in {"view", "edit", "write", "delete"}
Writes(i)   == Op(i) \in {"edit", "write", "delete"}
Collide(i, j) == /\ Declared(i) /\ Declared(j) /\ File(i) = File(j)
                 /\ Op(i) # "view" \/ Op(j) # "view"

\* Mutant: calls that declare their files are never held apart.
JoinsBlindly(current, i) == Declared(i) /\ \A j \in current : Declared(j)

\* Call i goes into the island of the current calls.
Joins(current, i) ==
  Declared(i) /\ \A j \in current : Declared(j) /\ ~Collide(j, i)

\* The island before call i, when islands start at the calls S.
Current(S, i) == {j \in 1 .. i - 1 : \A t \in j + 1 .. i - 1 : t \notin S}

Partition(S) ==
  /\ 1 \in S
  /\ \A i \in 2 .. N : i \in S <=> ~Joins(Current(S, i), i)

Island(s) == {i \in s .. N : \A t \in s + 1 .. i : t \notin starts}

-----------------------------------------------------------------------------
Committed == [f \in Files |-> IF f \in Tracked THEN [r \in Regions |-> Old] ELSE NoFile]

TypeOK ==
  /\ batch \in Batches /\ starts \subseteq 1 .. N /\ git \in BOOLEAN
  /\ disk \in [Files -> Texts]
  /\ entries \in [Files -> [base : Texts, staged : Texts] \cup {NoEntry}]
  /\ plans \in [Files -> Texts \cup {NoEntry}]
  /\ flush \in {"none", "barrier", "git", "final"}
  /\ saved \in [Files -> Texts] \cup {NoTree} /\ flushed \in BOOLEAN
  /\ pc \in {"next", "run", "rest", "done"} /\ at \in 1 .. N + 1
  /\ res \in [1 .. N -> Results] /\ seen \in [1 .. N -> Texts]
  /\ pending \subseteq 1 .. N
  /\ signal \in BOOLEAN /\ edits \in 0 .. MaxEdits /\ fails \in 0 .. MaxFails
  /\ apart \subseteq Files \X Regions \X Marks

Init ==
  /\ batch \in Batches /\ git \in BOOLEAN
  /\ starts \in SUBSET (1 .. N) /\ Partition(starts)
  /\ disk = Committed
  /\ entries = [f \in Files |-> NoEntry] /\ plans = [f \in Files |-> NoEntry]
  /\ flush = "none" /\ saved = NoTree /\ flushed = FALSE
  /\ pc = "next" /\ at = 1 /\ pending = {}
  /\ res = [i \in 1 .. N |-> "none"] /\ seen = [i \in 1 .. N |-> NoFile]
  /\ signal = FALSE /\ edits = 0 /\ fails = 0 /\ apart = {}

-----------------------------------------------------------------------------
(* The write-ahead log. *)

HasEntries == \E f \in Files : entries[f] # NoEntry

\* readText: the staged text, or the disk's.
Overlay(f) == IF entries[f] # NoEntry THEN entries[f].staged ELSE disk[f]

\* stageWrite and stageDelete: the base is the one of an earlier entry, or read
\* now; a base that was no file is read again. An edit from outside between that
\* read and the set counts as after both: no other call has the file then.
Stage(f, text) ==
  LET known == entries[f] # NoEntry /\ entries[f].base # NoFile IN
  entries' = [entries EXCEPT ![f] =
                [base |-> IF known THEN entries[f].base ELSE disk[f], staged |-> text]]

\* tryMergeText, region by region.
Conflicting(base, ours, theirs) ==
  \E r \in Regions : ours[r] # base[r] /\ theirs[r] # base[r] /\ ours[r] # theirs[r]
Merged(base, ours, theirs) ==
  [r \in Regions |-> IF ours[r] = base[r] THEN theirs[r] ELSE ours[r]]

\* The first pass of flush: what an entry comes to on the disk as it is now.
Conflict(f) ==
  LET b == entries[f].base  s == entries[f].staged  d == disk[f] IN
  /\ entries[f] # NoEntry /\ d # b
  /\ IF s = NoFile THEN d # NoFile
     ELSE /\ d # s /\ d # NoFile
          /\ b # NoFile => Conflicting(b, s, d)

\* Mutant: the staged text replaces what is on disk.
PlannedUnmerged(f) ==
  LET b == entries[f].base  s == entries[f].staged  d == disk[f] IN
  IF entries[f] = NoEntry \/ (d = NoFile /\ (s = NoFile \/ b # NoFile)) THEN NoEntry
  ELSE s

Planned(f) ==
  LET b == entries[f].base  s == entries[f].staged  d == disk[f] IN
  IF entries[f] = NoEntry \/ (d = NoFile /\ (s = NoFile \/ b # NoFile)) THEN NoEntry
  ELSE IF s # NoFile /\ d # b /\ d # s THEN Merged(b, s, d) ELSE s

Forget == entries' = [f \in Files |-> NoEntry]
NoPlans == plans' = [f \in Files |-> NoEntry]

\* Mutant: the results are left as the tools gave them.
RolledBackSilently(S) == [i \in 1 .. N |-> IF i \in S THEN res[i] ELSE res[i]]

\* markRolledBack
RolledBack(S) == [i \in 1 .. N |-> IF i \in S /\ res[i] = "ok" THEN "undone" ELSE res[i]]

-----------------------------------------------------------------------------
(* Flushing. Both callers of flushForBarrier take the checkpoint first. *)

Checkpoint == saved' = IF git /\ saved = NoTree THEN disk ELSE saved

\* The first pass reads one file after the other; all of it is one step here. An edit
\* from outside touches one file, so it counts as before the step when its file has
\* not been read yet and as after it otherwise, and no call runs meanwhile.
StartFlush(who) ==
  /\ flush = "none" /\ HasEntries /\ ~\E f \in Files : Conflict(f)
  /\ flush' = who
  /\ plans' = [f \in Files |-> Planned(f)]
  /\ IF who = "final" THEN UNCHANGED saved ELSE Checkpoint
  /\ UNCHANGED <<given, disk, entries, flushed, pc, at, pending, seen, world>>

\* The second pass writes one file after the other.
ApplyPlan(f) ==
  /\ flush # "none" /\ plans[f] # NoEntry
  /\ disk' = [disk EXCEPT ![f] = plans[f]]
  /\ plans' = [plans EXCEPT ![f] = NoEntry]
  /\ UNCHANGED <<given, entries, flush, safe, sched, res, seen, world>>

\* Mutant: the pending results survive the barrier.
AfterBarrierKept == pc' = "run" /\ UNCHANGED <<at, pending>>

\* The scheduler catches what a flush throws and rolls back; a tool that flushed
\* answers with the error and leaves the entries.
AfterBarrier == pc' = "run" /\ pending' = {} /\ UNCHANGED at
AfterFinal   == pc' = "done" /\ UNCHANGED <<at, pending>>

GiveUp(who) ==
  /\ flush' = "none" /\ NoPlans
  /\ IF who = "git"
     THEN /\ res' = [i \in 1 .. N |-> IF res[i] = "reading" THEN "error" ELSE res[i]]
          /\ UNCHANGED <<entries, sched>>
     ELSE /\ res' = RolledBack(pending)
          /\ Forget
          /\ IF who = "barrier" THEN AfterBarrier ELSE AfterFinal
  /\ UNCHANGED <<given, disk, flushed, seen, signal, edits, apart>>

ApplyFails ==
  /\ flush # "none" /\ fails < MaxFails
  /\ \E f \in Files : plans[f] # NoEntry
  /\ fails' = fails + 1
  /\ GiveUp(flush) /\ UNCHANGED saved

Refused(who) ==
  /\ flush = "none" /\ \E f \in Files : Conflict(f)
  /\ IF who = "final" THEN UNCHANGED saved ELSE Checkpoint
  /\ GiveUp(who) /\ UNCHANGED fails

FlushDone ==
  /\ flush # "none" /\ \A f \in Files : plans[f] = NoEntry
  /\ flush' = "none"
  /\ Forget
  /\ flushed' = (flushed \/ flush # "final")
  /\ CASE flush = "barrier" -> AfterBarrier /\ UNCHANGED <<res, seen>>
       [] flush = "final"   -> AfterFinal /\ UNCHANGED <<res, seen>>
       [] flush = "git"     ->
            /\ res' = [i \in 1 .. N |-> IF res[i] = "reading" THEN "ok" ELSE res[i]]
            /\ seen' = [i \in 1 .. N |-> IF res[i] = "reading" THEN disk[File(i)] ELSE seen[i]]
            /\ UNCHANGED sched
  /\ UNCHANGED <<given, disk, plans, saved, world>>

-----------------------------------------------------------------------------
(* The calls. All calls of an island may run at once; calls the scheduler left
   without a result are run by the engine one by one. *)

Ready(i) ==
  /\ flush = "none"
  /\ \/ pc = "run" /\ i \in Island(at)
     \/ pc = "rest" /\ \A j \in 1 .. i - 1 : res[j] \in Answered

Answer(i, r) == res' = [res EXCEPT ![i] = r]

View(i) ==
  /\ Ready(i) /\ Op(i) = "view" /\ res[i] = "none"
  /\ seen' = [seen EXCEPT ![i] = Overlay(File(i))]
  /\ Answer(i, IF Overlay(File(i)) = NoFile THEN "error" ELSE "ok")
  /\ UNCHANGED <<given, disk, log, safe, sched, world>>

\* edit_file reads the text, awaits, and stages the text it has made of it.
EditReads(i) ==
  /\ Ready(i) /\ Op(i) = "edit" /\ res[i] = "none"
  /\ seen' = [seen EXCEPT ![i] = Overlay(File(i))]
  /\ Answer(i, IF Overlay(File(i)) = NoFile THEN "error" ELSE "reading")
  /\ UNCHANGED <<given, disk, log, safe, sched, world>>

EditStages(i) ==
  /\ Ready(i) /\ Op(i) = "edit" /\ res[i] = "reading"
  /\ Stage(File(i), [seen[i] EXCEPT ![batch[i].at] = i])
  /\ Answer(i, "ok")
  /\ UNCHANGED <<given, disk, plans, flush, safe, sched, seen, world>>

\* The text to replace may be gone when somebody else has changed the region.
EditMisses(i) ==
  /\ Ready(i) /\ Op(i) = "edit" /\ res[i] = "reading"
  /\ seen[i][batch[i].at] # Old
  /\ Answer(i, "error")
  /\ UNCHANGED <<given, disk, log, safe, sched, seen, world>>

WriteOrDelete(i) ==
  /\ Ready(i) /\ Op(i) \in {"write", "delete"} /\ res[i] = "none"
  /\ Stage(File(i), IF Op(i) = "write" THEN [r \in Regions |-> i] ELSE NoFile)
  /\ Answer(i, "ok")
  /\ UNCHANGED <<given, disk, plans, flush, safe, sched, seen, world>>

\* A shell command changes the disk itself: a line of a file, or it removes it.
ShellText(i, text) ==
  IF Op(i) = "rm" THEN NoFile
  ELSE IF text = NoFile THEN [r \in Regions |-> i] ELSE [text EXCEPT ![batch[i].at] = i]

Shell(i) ==
  /\ Ready(i) /\ Barrier(i) /\ res[i] = "none"
  /\ seen' = [seen EXCEPT ![i] = disk[File(i)]]
  /\ disk' = [disk EXCEPT ![File(i)] = ShellText(i, disk[File(i)])]
  /\ Answer(i, "ok")
  /\ UNCHANGED <<given, log, safe, sched, world>>

\* git_status, git_diff, diagnostics and the checkpoint tools flush, then look.
GitLooks(i) ==
  /\ Ready(i) /\ Op(i) = "git" /\ res[i] = "none" /\ ~HasEntries
  /\ seen' = [seen EXCEPT ![i] = disk[File(i)]]
  /\ Answer(i, "ok")
  /\ UNCHANGED <<given, disk, log, safe, sched, world>>

GitFlushes(i) ==
  /\ Ready(i) /\ Op(i) = "git" /\ res[i] = "none"
  /\ StartFlush("git")
  /\ Answer(i, "reading")

GitRefused(i) ==
  /\ Ready(i) /\ Op(i) = "git" /\ res[i] = "none"
  /\ \E f \in Files : Conflict(f)
  /\ Answer(i, "error")
  /\ Checkpoint
  /\ UNCHANGED <<given, disk, log, flushed, sched, seen, world>>

-----------------------------------------------------------------------------
(* The scheduler. *)

StartIsland ==
  /\ pc = "next" /\ flush = "none" /\ at <= N /\ ~signal
  /\ \/ /\ ~(Barrier(at) /\ HasEntries)
        /\ pc' = "run"
        /\ UNCHANGED <<given, disk, log, safe, at, pending, res, seen, world>>
     \/ Barrier(at) /\ StartFlush("barrier") /\ UNCHANGED res
     \/ Barrier(at) /\ Refused("barrier")

\* Mutant: range(start, length) includes its end.
EndIslandOffByOne ==
  /\ pc = "run" /\ flush = "none" /\ \A i \in Island(at) : res[i] \in Answered
  /\ pc' = "next"
  /\ \E s \in at + 1 .. N + 1 : Island(at) = at .. s - 1 /\ at' = s
  /\ pending' = IF \E i \in Island(at) : Writes(i) THEN pending \cup at .. at' ELSE pending
  /\ UNCHANGED <<given, disk, log, safe, res, seen, world>>

EndIsland ==
  /\ pc = "run" /\ flush = "none" /\ \A i \in Island(at) : res[i] \in Answered
  /\ pc' = "next"
  /\ \E s \in at + 1 .. N + 1 : Island(at) = at .. s - 1 /\ at' = s
  /\ pending' = IF \E i \in Island(at) : Writes(i) THEN pending \cup Island(at) ELSE pending
  /\ UNCHANGED <<given, disk, log, safe, res, seen, world>>

EndBatch ==
  /\ pc = "next" /\ flush = "none" /\ at = N + 1 /\ ~signal
  /\ \/ /\ ~HasEntries
        /\ pc' = "done"
        /\ UNCHANGED <<given, disk, log, safe, at, pending, res, seen, world>>
     \/ StartFlush("final") /\ UNCHANGED res
     \/ Refused("final")

\* git restore to HEAD, then the removal of what was not there at the checkpoint
\* and of what the log would have created.
Restored(f) ==
  IF f \in Tracked THEN Committed[f]
  ELSE IF saved[f] = NoFile THEN NoFile
  ELSE IF entries[f] # NoEntry /\ entries[f].base = NoFile /\ entries[f].staged # NoFile
       THEN NoFile ELSE disk[f]

\* RecoverySession.abort, at the next island or before the last flush.
Abandon ==
  /\ pc = "next" /\ flush = "none" /\ signal
  /\ IF flushed /\ saved # NoTree
     THEN disk' = [f \in Files |-> Restored(f)] /\ flushed' = FALSE
     ELSE UNCHANGED <<disk, flushed>>
  /\ Forget
  /\ res' = RolledBack(pending)
  /\ pc' = "rest"
  /\ UNCHANGED <<given, plans, flush, saved, at, pending, seen, world>>

EndRest ==
  /\ pc = "rest" /\ flush = "none" /\ \A i \in 1 .. N : res[i] \in Answered
  /\ pc' = "done"
  /\ UNCHANGED <<given, disk, log, safe, at, pending, res, seen, world>>

-----------------------------------------------------------------------------
(* The world. *)

Abort ==
  /\ ~signal /\ pc # "done"
  /\ signal' = TRUE
  /\ UNCHANGED <<given, disk, log, safe, sched, res, seen, edits, fails, apart>>

Edit(f, r) ==
  /\ edits < MaxEdits /\ pc # "done" /\ disk[f] # NoFile
  /\ edits' = edits + 1
  /\ disk' = [disk EXCEPT ![f][r] = -edits']
  /\ apart' = IF flush = "none" /\ ~\E i \in 1 .. N : File(i) = f /\ res[i] = "reading"
              THEN apart \cup {<<f, r, -edits'>>} ELSE apart
  /\ UNCHANGED <<given, log, safe, sched, res, seen, signal, fails>>

Finished == pc = "done" /\ UNCHANGED vars

Next ==
  \/ \E i \in 1 .. N : \/ View(i) \/ EditReads(i) \/ EditStages(i) \/ EditMisses(i)
                       \/ WriteOrDelete(i) \/ Shell(i)
                       \/ GitLooks(i) \/ GitFlushes(i) \/ GitRefused(i)
  \/ \E f \in Files : ApplyPlan(f) \/ \E r \in Regions : Edit(f, r)
  \/ ApplyFails \/ FlushDone
  \/ StartIsland \/ EndIsland \/ EndBatch \/ Abandon \/ EndRest
  \/ Abort
  \/ Finished

Spec == Init /\ [][Next]_vars

-----------------------------------------------------------------------------
(* What the calls that say ok amount to, one after the other in the model's order. *)
Made(i, text) ==
  CASE Op(i) = "edit"   -> [text EXCEPT ![batch[i].at] = i]
    [] Op(i) = "write"  -> [r \in Regions |-> i]
    [] Op(i) = "delete" -> NoFile
    [] Barrier(i)       -> ShellText(i, text)
    [] OTHER            -> text

Effect(i, tree) == [tree EXCEPT ![File(i)] = Made(i, tree[File(i)])]

Serially ==
  LET after[i \in 0 .. N] ==
        IF i = 0 THEN Committed
        ELSE IF res[i] = "ok" THEN Effect(i, after[i - 1]) ELSE after[i - 1]
  IN after

Alone == ~signal /\ edits = 0 /\ fails = 0

(* Islands in parallel, writes held back and barriers flushed come to the same as
   the calls one by one: the tree at the end, and what every call read on the way
   ("Conflicting calls wait", README.md:838). *)
BatchIsSerial ==
  pc = "done" /\ Alone =>
    /\ disk = Serially[N]
    /\ \A i \in 1 .. N : ~Writes(i) => seen[i] = Serially[i - 1][File(i)]

\* A batch in which no tool but a barrier flushes.
BarriersOnly == \A i \in 1 .. N : Op(i) # "git"

(* With edits from outside, a region nobody outside touched is still what the calls
   that say ok made of it: what a conflict took back says so. *)
OkIsOnDisk ==
  pc = "done" /\ ~signal /\ fails = 0 /\ BarriersOnly =>
    \A f \in Files : Serially[N][f] # NoFile /\ disk[f] # NoFile =>
      \A r \in Regions : disk[f][r] = Serially[N][f][r] \/ Outside(disk[f][r])

(* Call i says ok, and was made to change region r of file f. *)
Changes(i, f, r) ==
  /\ res[i] = "ok" /\ File(i) = f
  /\ \/ Op(i) \in {"write", "delete", "rm"}
     \/ Op(i) \in {"edit", "bash"} /\ batch[i].at = r

(* An edit from outside that did not fall between a read and a write is still there
   at the end, or a later one in its place, unless a call that says ok was made to
   change the same text. *)
OutsideEditsKept ==
  pc = "done" /\ ~signal /\ fails = 0 /\ BarriersOnly =>
    \A p \in apart :
      \/ disk[p[1]] # NoFile /\ disk[p[1]][p[2]] <= p[3]
      \/ \E i \in 1 .. N : Changes(i, p[1], p[2])

OnDisk(i) == \E f \in Files : disk[f] # NoFile /\ \E r \in Regions : disk[f][r] = i

(* "This write was rolled back and is not present on disk" (scheduler.ts:142) is
   true of a batch in which no tool but a barrier flushes and no write fails. *)
UndoneIsGone ==
  fails = 0 /\ BarriersOnly =>
    \A i \in 1 .. N : res[i] = "undone" => ~OnDisk(i)

(* The same, for every batch. *)
RolledBackNotOnDisk == \A i \in 1 .. N : res[i] = "undone" => ~OnDisk(i)

(* A restore brings back the tree of the checkpoint (checkpoint.ts:11). *)
RestoredTree == [][pc = "next" /\ pc' = "rest" /\ flushed /\ saved # NoTree => disk' = saved]_vars

(* Calls that run at the same time do not touch the same file, unless they only
   look at it. *)
Running(i) == pc = "run" /\ i \in Island(at)
InFlightApart ==
  \A i, j \in 1 .. N : i # j /\ Running(i) /\ Running(j) =>
    Declared(i) /\ Declared(j) /\ ~Collide(i, j)

=============================================================================

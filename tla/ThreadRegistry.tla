---------------------------- MODULE ThreadRegistry ----------------------------
(***************************************************************************)
(* ReaperThreadManager of src/src/app-server/thread-manager.ts and the     *)
(* record files of ThreadStore (thread-store.ts): which thread objects     *)
(* exist in memory, which records exist on disk, and what the manager's    *)
(* calls do to both across their awaits, a shutdown, a crash and a         *)
(* restart.                                                                *)
(*                                                                         *)
(* A caller is whoever handles one JSON-RPC request at a time: a WebSocket *)
(* connection drains its requests serially, the browser gateway does not.  *)
(* A thread object is ManagedThread reduced to its status, its active turn *)
(* and whether its latest status is still to be saved.                     *)
(***************************************************************************)
EXTENDS Naturals, FiniteSets

CONSTANTS
  Ids,          \* thread ids
  AppManaged,   \* the ids whose workspace the app minted (isAppManagedWorkspace)
  NoId,         \* not an id
  Objects,      \* bound: the ManagedReaperThread objects one process creates
  Callers,      \* concurrent request handlers
  MaxRestarts,  \* bound: process restarts
  NoObject      \* a free entry of the map

ASSUME RegistryAssumption ==
  /\ AppManaged \subseteq Ids
  /\ NoObject \notin Objects
  /\ NoId \notin Ids
  /\ MaxRestarts \in Nat

VARIABLES
  disk,      \* the status in each record file, "none" without a file
  workspace, \* the minted directories: "none", "made" or, once a turn has put its
             \* session journal there, "journal"
  threads,   \* this.threads: id -> object
  obj,       \* the objects
  op,        \* the call each caller is in
  open,      \* ~this.shuttingDown
  stopping,  \* the objects shutdown() has interrupted and not yet closed
  sweep,     \* the pass of sweepOrphanWorkspaces
  deleted,   \* for the properties: ids whose record deleteThread has removed
  swept,     \* for the properties: ids whose directory a sweep has removed
  restarts

files == <<disk, workspace>>
memory == <<threads, obj>>
server == <<open, stopping>>
ghosts == <<deleted, swept>>
vars == <<files, memory, op, server, sweep, ghosts, restarts>>

Statuses == {"idle", "running", "closed"}
Kinds == {"start", "resume", "turn", "close", "list", "delete"}

(* No call, or one of an object the call works on. *)
NoCall == [kind |-> "none", pc |-> "idle", id |-> NoId, loaded |-> "none",
           names |-> {}, object |-> NoObject]
Free == [id |-> NoId, status |-> "idle", run |-> "none", dirty |-> FALSE]
NoSweep == [pc |-> "off", dirs |-> {}, target |-> NoId]
BootSweep == [NoSweep EXCEPT !.pc = "read"]

TypeOK ==
  /\ disk \in [Ids -> Statuses \cup {"none"}]
  /\ workspace \in [AppManaged -> {"none", "made", "journal"}]
  /\ threads \in [Ids -> Objects \cup {NoObject}]
  /\ obj \in [Objects -> [id : Ids \cup {NoId}, status : Statuses,
                          run : {"none", "starting", "running"}, dirty : BOOLEAN]]
  /\ op \in [Callers -> [kind : Kinds \cup {"none"},
                         pc : {"idle", "load", "stat", "save", "create", "use", "wait",
                               "saving", "prune", "check", "remove", "forget", "purge"},
                         id : Ids \cup {NoId}, loaded : Statuses \cup {"none"},
                         names : SUBSET Ids, object : Objects \cup {NoObject}]]
  /\ open \in BOOLEAN
  /\ stopping \subseteq Objects
  /\ sweep \in [pc : {"off", "read", "list", "remove"}, dirs : SUBSET AppManaged,
               target : AppManaged \cup {NoId}]
  /\ deleted \subseteq Ids
  /\ swept \subseteq AppManaged
  /\ restarts \in 0..MaxRestarts

Init ==
  /\ disk = [i \in Ids |-> "none"]
  /\ workspace = [i \in AppManaged |-> "none"]
  /\ threads = [i \in Ids |-> NoObject]
  /\ obj = [o \in Objects |-> Free]
  /\ op = [c \in Callers |-> NoCall]
  /\ open = TRUE /\ stopping = {}
  /\ sweep = BootSweep
  /\ deleted = {} /\ swept = {}
  /\ restarts = 0

-------------------------------------------------------------------------------
At(c, kinds, pc) == op[c].kind \in kinds /\ op[c].pc = pc
Goto(c, pc) == op' = [op EXCEPT ![c].pc = pc]
Return(c) == op' = [op EXCEPT ![c] = NoCall]

(* workspaceIsUsable: only a directory the app minted can be gone. *)
Usable(i) == i \in AppManaged => workspace[i] # "none"

(* createManagedThread and threads.set: an object that was not used before. *)
Adopt(i, status, o) ==
  /\ obj[o] = Free
  /\ obj' = [obj EXCEPT ![o] = [Free EXCEPT !.id = i, !.status = status]]
  /\ threads' = [threads EXCEPT ![i] = o]

(* The call goes on with the object it resumed. *)
Resumed(c, o) ==
  IF op[c].kind = "resume" THEN Return(c)
  ELSE op' = [op EXCEPT ![c].pc = "use", ![c].object = o]

-------------------------------------------------------------------------------
(* BOUND: a call that may make an object begins only when one is left for it. *)
ObjectLeft ==
  Cardinality({o \in Objects : obj[o] = Free}) > Cardinality({c \in Callers : op[c] # NoCall})

(* thread/start: the message processor makes the thread's own directory first
   (createThreadWorkspace) ... *)
CallStart(c, i) ==
  /\ op[c] = NoCall /\ ObjectLeft
  /\ op' = [op EXCEPT ![c] = [NoCall EXCEPT !.kind = "start", !.pc = "load", !.id = i]]
  /\ workspace' = [j \in AppManaged |->
                    IF j = i /\ workspace[j] = "none" THEN "made" ELSE workspace[j]]
  /\ UNCHANGED <<disk, memory, server, sweep, ghosts, restarts>>

(* ... then startThread refuses a live entry or a record: thread_exists ... *)
StartLoads(c) ==
  /\ At(c, {"start"}, "load")
  /\ IF ~open \/ threads[op[c].id] # NoObject \/ disk[op[c].id] # "none"
     THEN Return(c) ELSE Goto(c, "save")
  /\ UNCHANGED <<files, memory, server, sweep, ghosts, restarts>>

(* ... otherwise the record is written, and then the object made. *)
StartSaves(c) ==
  /\ At(c, {"start"}, "save")
  /\ disk' = [disk EXCEPT ![op[c].id] = "idle"]
  /\ Goto(c, "create")
  /\ UNCHANGED <<workspace, memory, server, sweep, ghosts, restarts>>

StartCreates(c, o) ==
  /\ At(c, {"start"}, "create")
  /\ Adopt(op[c].id, "idle", o)
  /\ Return(c)
  /\ UNCHANGED <<files, server, sweep, ghosts, restarts>>

-------------------------------------------------------------------------------
(* Mutant of CallResume: a live entry is not looked up first. *)
CallResumeAlwaysLoads(c, kind, i) ==
  /\ op[c] = NoCall /\ open /\ ObjectLeft
  /\ op' = [op EXCEPT ![c] = [NoCall EXCEPT !.kind = kind, !.pc = "load", !.id = i]]
  /\ UNCHANGED <<files, memory, server, sweep, ghosts, restarts>>

(* resumeThread, on its own or as the first half of startTurn and close: a live
   object is returned at once. *)
CallResume(c, kind, i) ==
  /\ op[c] = NoCall /\ open /\ ObjectLeft
  /\ IF threads[i] # NoObject
     THEN /\ kind # "resume"
          /\ op' = [op EXCEPT ![c] = [NoCall EXCEPT !.kind = kind, !.pc = "use", !.id = i,
                                                    !.object = threads[i]]]
     ELSE op' = [op EXCEPT ![c] = [NoCall EXCEPT !.kind = kind, !.pc = "load", !.id = i]]
  /\ UNCHANGED <<files, memory, server, sweep, ghosts, restarts>>

(* Mutant of ResumeLoads: a missing record is not looked for. *)
ResumeLoadsBlindly(c) ==
  /\ At(c, {"resume", "turn", "close"}, "load")
  /\ op' = [op EXCEPT ![c].loaded = disk[op[c].id], ![c].pc = "stat"]
  /\ UNCHANGED <<files, memory, server, sweep, ghosts, restarts>>

(* store.load; no record is thread_not_found. *)
ResumeLoads(c) ==
  /\ At(c, {"resume", "turn", "close"}, "load")
  /\ IF disk[op[c].id] = "none" THEN Return(c)
     ELSE op' = [op EXCEPT ![c].loaded = disk[op[c].id], ![c].pc = "stat"]
  /\ UNCHANGED <<files, memory, server, sweep, ghosts, restarts>>

(* A thread whose workspace is gone is refused and forgotten. *)
ResumeRefuses(c) ==
  /\ At(c, {"resume", "turn", "close"}, "stat")
  /\ ~Usable(op[c].id)
  /\ threads' = [threads EXCEPT ![op[c].id] = NoObject]
  /\ Return(c)
  /\ UNCHANGED <<files, obj, server, sweep, ghosts, restarts>>

(* Mutant of ResumeAdopts: a record left "running" is taken as it is. *)
ResumeAdoptsAnything(c, o) ==
  /\ At(c, {"resume", "turn", "close"}, "stat")
  /\ Usable(op[c].id)
  /\ Adopt(op[c].id, op[c].loaded, o)
  /\ Resumed(c, o)
  /\ UNCHANGED <<files, server, sweep, ghosts, restarts>>

(* The object is made from the record.  The map is not looked at again. *)
ResumeAdopts(c, o) ==
  /\ At(c, {"resume", "turn", "close"}, "stat")
  /\ Usable(op[c].id) /\ op[c].loaded # "running"
  /\ Adopt(op[c].id, op[c].loaded, o)
  /\ Resumed(c, o)
  /\ UNCHANGED <<files, server, sweep, ghosts, restarts>>

(* Mutant of ResumeRepairs: the repair is not saved. *)
RepairsInMemory(c) ==
  /\ At(c, {"resume", "turn", "close"}, "stat")
  /\ Usable(op[c].id) /\ op[c].loaded = "running"
  /\ Goto(c, "create")
  /\ UNCHANGED <<files, memory, server, sweep, ghosts, restarts>>

(* A record that says "running" is left over from a process that died: it is
   saved as idle, its last turn as aborted, before the object is made. *)
ResumeRepairs(c) ==
  /\ At(c, {"resume", "turn", "close"}, "stat")
  /\ Usable(op[c].id) /\ op[c].loaded = "running"
  /\ disk' = [disk EXCEPT ![op[c].id] = "idle"]
  /\ Goto(c, "create")
  /\ UNCHANGED <<workspace, memory, server, sweep, ghosts, restarts>>

ResumeCreates(c, o) ==
  /\ At(c, {"resume", "turn", "close"}, "create")
  /\ Adopt(op[c].id, "idle", o)
  /\ Resumed(c, o)
  /\ UNCHANGED <<files, server, sweep, ghosts, restarts>>

-------------------------------------------------------------------------------
(* thread.startTurn on the resumed object: refused when it is closed or has an
   active turn. *)
TurnStarts(c) ==
  LET o == op[c].object
  IN  /\ At(c, {"turn"}, "use")
      /\ IF obj[o].status = "closed" \/ obj[o].run # "none"
         THEN Return(c) /\ UNCHANGED obj
         ELSE /\ obj' = [obj EXCEPT ![o].run = "starting", ![o].status = "running",
                                    ![o].dirty = TRUE]
              /\ Goto(c, "saving")
      /\ UNCHANGED <<files, threads, server, sweep, ghosts, restarts>>

(* thread.close on the resumed object: an active turn is interrupted and waited
   for, two seconds at most, then the status is set. *)
CloseWaits(c) ==
  LET o == op[c].object
  IN  /\ At(c, {"close"}, "use")
      /\ IF obj[o].status = "closed" THEN Return(c) ELSE Goto(c, "wait")
      /\ UNCHANGED <<files, memory, server, sweep, ghosts, restarts>>

CloseSets(c) ==
  /\ At(c, {"close"}, "wait")
  /\ obj' = [obj EXCEPT ![op[c].object].status = "closed", ![op[c].object].dirty = TRUE]
  /\ Goto(c, "saving")
  /\ UNCHANGED <<files, threads, server, sweep, ghosts, restarts>>

(* The call returns when its save has settled. *)
CallSaved(c) ==
  /\ op[c].pc = "saving"
  /\ ~obj[op[c].object].dirty
  /\ Return(c)
  /\ UNCHANGED <<files, memory, server, sweep, ghosts, restarts>>

(* The object's persist chain writes its latest status: ThreadStore.save creates
   the file whether or not it is there.  ManagedThread has the chain itself. *)
ObjectSaves(o) ==
  /\ obj[o].dirty
  /\ disk' = [disk EXCEPT ![obj[o].id] = obj[o].status]
  /\ obj' = [obj EXCEPT ![o].dirty = FALSE,
                        ![o].run = IF @ = "starting" THEN "running" ELSE @]
  /\ UNCHANGED <<workspace, threads, op, server, sweep, ghosts, restarts>>

(* The turn opens its session journal, making the directories it needs. *)
TurnJournals(o) ==
  /\ obj[o].run = "running" /\ obj[o].id \in AppManaged
  /\ workspace' = [workspace EXCEPT ![obj[o].id] = "journal"]
  /\ UNCHANGED <<disk, memory, op, server, sweep, ghosts, restarts>>

(* The turn ends (finishTurn), whatever has become of the object's map entry. *)
TurnFinishes(o) ==
  /\ obj[o].run = "running"
  /\ obj' = [obj EXCEPT ![o].run = "none", ![o].status = "idle", ![o].dirty = TRUE]
  /\ UNCHANGED <<files, threads, op, server, sweep, ghosts, restarts>>

-------------------------------------------------------------------------------
(* listThreads: the records, read first ... *)
CallList(c) ==
  /\ op[c] = NoCall
  /\ op' = [op EXCEPT ![c] = [NoCall EXCEPT !.kind = "list", !.pc = "prune",
                                            !.names = {i \in Ids : disk[i] # "none"}]]
  /\ UNCHANGED <<files, memory, server, sweep, ghosts, restarts>>

(* Mutant of ListPrunes: it drops the busy threads. *)
ListPrunesBusy(c) ==
  /\ At(c, {"list"}, "prune")
  /\ threads' = [i \in Ids |->
       IF threads[i] # NoObject /\ obj[threads[i]].run # "none" THEN NoObject ELSE threads[i]]
  /\ Goto(c, "check")
  /\ UNCHANGED <<files, obj, server, sweep, ghosts, restarts>>

(* ... then live entries without a record are dropped ... *)
ListPrunes(c) ==
  /\ At(c, {"list"}, "prune")
  /\ threads' = [i \in Ids |-> IF i \in op[c].names THEN threads[i] ELSE NoObject]
  /\ Goto(c, "check")
  /\ UNCHANGED <<files, obj, server, sweep, ghosts, restarts>>

(* ... and those whose workspace is gone. *)
ListChecks(c) ==
  /\ At(c, {"list"}, "check")
  /\ threads' = [i \in Ids |->
       IF i \in op[c].names /\ ~Usable(i) THEN NoObject ELSE threads[i]]
  /\ Return(c)
  /\ UNCHANGED <<files, obj, server, sweep, ghosts, restarts>>

-------------------------------------------------------------------------------
(* deleteThread: metadata, record, map entry, workspace, each after an await.
   A turn that runs is not interrupted. *)
CallDelete(c, i) ==
  /\ op[c] = NoCall
  /\ op' = [op EXCEPT ![c] = [NoCall EXCEPT !.kind = "delete", !.pc = "remove", !.id = i,
                                            !.loaded = disk[i]]]
  /\ UNCHANGED <<files, memory, server, sweep, ghosts, restarts>>

DeleteRemoves(c) ==
  /\ At(c, {"delete"}, "remove")
  /\ disk' = [disk EXCEPT ![op[c].id] = "none"]
  /\ deleted' = deleted \cup {op[c].id}
  /\ Goto(c, "forget")
  /\ UNCHANGED <<workspace, memory, server, sweep, swept, restarts>>

(* A sweep is started and not awaited.  BOUND: one sweep at a time. *)
DeleteForgets(c) ==
  /\ At(c, {"delete"}, "forget")
  /\ threads' = [threads EXCEPT ![op[c].id] = NoObject]
  /\ sweep' = IF sweep = NoSweep THEN BootSweep ELSE sweep
  /\ Goto(c, "purge")
  /\ UNCHANGED <<files, obj, server, ghosts, restarts>>

(* Only an app-minted workspace of a record that was there is removed. *)
DeletePurges(c) ==
  /\ At(c, {"delete"}, "purge")
  /\ workspace' = IF op[c].loaded # "none" /\ op[c].id \in AppManaged
                  THEN [workspace EXCEPT ![op[c].id] = "none"] ELSE workspace
  /\ Return(c)
  /\ UNCHANGED <<disk, memory, server, sweep, ghosts, restarts>>

-------------------------------------------------------------------------------
(* sweepOrphanWorkspaces, at boot and after a delete: the directories under the
   managed root are listed ... *)
SweepReads ==
  /\ sweep.pc = "read"
  /\ sweep' = [sweep EXCEPT !.pc = "list", !.dirs = {i \in AppManaged : workspace[i] # "none"}]
  /\ UNCHANGED <<files, memory, op, server, ghosts, restarts>>

(* ... then the records; a directory that no record names is an orphan ... *)
SweepLists ==
  LET orphans == {i \in sweep.dirs : disk[i] = "none"}
  IN  /\ sweep.pc = "list"
      /\ sweep' = IF orphans = {} THEN NoSweep
                  ELSE [sweep EXCEPT !.pc = "remove", !.dirs = orphans]
      /\ UNCHANGED <<files, memory, op, server, ghosts, restarts>>

(* ... and goes, one after the other, unless it holds a session journal. *)
SweepChecks(i) ==
  /\ sweep.pc = "remove" /\ sweep.target = NoId
  /\ i \in sweep.dirs
  /\ sweep' = IF workspace[i] # "journal" THEN [sweep EXCEPT !.target = i]
              ELSE IF sweep.dirs = {i} THEN NoSweep
              ELSE [sweep EXCEPT !.dirs = @ \ {i}]
  /\ UNCHANGED <<files, memory, op, server, ghosts, restarts>>

SweepRemoves ==
  LET i == sweep.target
  IN  /\ i # NoId
      /\ workspace' = [workspace EXCEPT ![i] = "none"]
      /\ swept' = swept \cup {i}
      /\ sweep' = IF sweep.dirs = {i} THEN NoSweep
                  ELSE [sweep EXCEPT !.dirs = @ \ {i}, !.target = NoId]
      /\ UNCHANGED <<disk, memory, op, server, deleted, restarts>>

-------------------------------------------------------------------------------
(* shutdown(): no new start or resume; the live objects with a turn are
   interrupted, and closed once their turn is over or two seconds have passed. *)
Shutdown ==
  /\ open
  /\ open' = FALSE
  /\ stopping' = {o \in Objects : \E i \in Ids : threads[i] = o /\ obj[o].run # "none"}
  /\ UNCHANGED <<files, memory, op, sweep, ghosts, restarts>>

ShutdownCloses(o) ==
  /\ o \in stopping
  /\ obj' = [obj EXCEPT ![o].status = "closed", ![o].dirty = TRUE]
  /\ stopping' = stopping \ {o}
  /\ UNCHANGED <<files, threads, op, open, sweep, ghosts, restarts>>

(* The process dies, after a shutdown or not, and a new one starts: the records
   and the directories are what is left. *)
Restart ==
  /\ restarts < MaxRestarts
  /\ restarts' = restarts + 1
  /\ threads' = [i \in Ids |-> NoObject]
  /\ obj' = [o \in Objects |-> Free]
  /\ op' = [c \in Callers |-> NoCall]
  /\ open' = TRUE /\ stopping' = {} /\ sweep' = BootSweep
  /\ UNCHANGED <<files, ghosts>>

Step(c) ==
  \/ StartLoads(c) \/ StartSaves(c)
  \/ ResumeLoads(c) \/ ResumeRefuses(c) \/ ResumeRepairs(c)
  \/ \E o \in Objects : StartCreates(c, o) \/ ResumeAdopts(c, o) \/ ResumeCreates(c, o)
  \/ TurnStarts(c) \/ CloseWaits(c) \/ CloseSets(c) \/ CallSaved(c)
  \/ ListPrunes(c) \/ ListChecks(c)
  \/ DeleteRemoves(c) \/ DeleteForgets(c) \/ DeletePurges(c)

Next ==
  \/ \E c \in Callers :
       \/ \E i \in Ids : CallStart(c, i) \/ CallDelete(c, i)
       \/ \E i \in Ids, kind \in {"resume", "turn", "close"} : CallResume(c, kind, i)
       \/ CallList(c)
       \/ Step(c)
  \/ \E o \in Objects :
       ObjectSaves(o) \/ TurnJournals(o) \/ TurnFinishes(o) \/ ShutdownCloses(o)
  \/ SweepReads \/ SweepLists \/ SweepRemoves
  \/ \E i \in AppManaged : SweepChecks(i)
  \/ Shutdown
  \/ Restart

Spec == Init /\ [][Next]_vars

-------------------------------------------------------------------------------
Lost == deleted \cup swept

(* A thread has one conversation, so at most one turn of it is in flight in this
   process, whatever lists, resumes, closes and restarts came before.  A thread that was
   deleted, whose turn deleteThread leaves running, is not counted. *)
OneTurnPerThread ==
  \A o, p \in Objects :
    obj[o].run # "none" /\ obj[p].run # "none" /\ obj[o].id = obj[p].id
      => o = p \/ obj[o].id \in Lost

(* An object with a turn in flight is the one its id leads to, so the turn can be
   interrupted, steered and answered: no list or refused resume drops it while its record
   and directory are there. *)
BusyIsReachable ==
  \A o \in Objects : obj[o].run # "none" => threads[obj[o].id] = o \/ obj[o].id \in Lost

(* What the next process will read is what this one says: a live thread with
   nothing left to save has its own status in its record. *)
LiveMatchesRecord ==
  \A i \in Ids :
    threads[i] # NoObject /\ i \notin Lost /\ ~obj[threads[i]].dirty
      => disk[i] = obj[threads[i]].status

(* A thread says it is running only while it has a turn: the status a crash left in the
   record does not come back with it. *)
RunningHasTurn ==
  \A o \in Objects : obj[o].status = "running" => obj[o].run # "none"

(* A deleted record comes back only by starting the id anew (listThreads relies on it:
   "nothing recreates a record under the same id"). *)
NoResurrection ==
  [][\A i \in deleted : disk[i] = "none" /\ disk'[i] # "none" =>
        \E c \in Callers : At(c, {"start"}, "save") /\ op[c].id = i]_vars

(* The directory of a thread with a record that was not deleted is there: a sweep takes
   only what no thread owns. *)
WorkspaceKept ==
  \A i \in AppManaged : disk[i] # "none" /\ i \notin deleted => Usable(i)
===============================================================================

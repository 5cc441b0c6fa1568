------------------------- MODULE ThreadRegistryProofs -------------------------
(***************************************************************************)
(* Proofs about ThreadRegistry. For any callers: the types, and that a     *)
(* thread is running only with a turn. For a server with one connection,   *)
(* whose requests are handled one after the other: a turn's object is the  *)
(* one its thread leads to, and the records agree with the objects,        *)
(* through every list, sweep, shutdown, crash and restart.                 *)
(***************************************************************************)
EXTENDS ThreadRegistry, TLAPS

Object == [id : Ids \cup {NoId}, status : Statuses,
           run : {"none", "starting", "running"}, dirty : BOOLEAN]
Pcs == {"idle", "load", "stat", "save", "create", "use", "wait", "saving",
        "prune", "check", "remove", "forget", "purge"}
Call == [kind : Kinds \cup {"none"}, pc : Pcs, id : Ids \cup {NoId},
         loaded : Statuses \cup {"none"}, names : SUBSET Ids, object : Objects \cup {NoObject}]

\* What a call has found out by the time it is at its pc.
CallOK(k) ==
  /\ k.pc \notin {"idle", "prune", "check"} => k.id \in Ids
  /\ k.pc \in {"use", "wait", "saving"} => k.object \in Objects
  /\ k.pc = "stat" => k.loaded # "none"

CallsOK == \A c \in Callers : CallOK(op[c])

TypeInv == TypeOK /\ CallsOK

-----------------------------------------------------------------------------
(* One connection. *)

OneAtATime == \A c, d \in Callers : c = d

\* The thread of an object leads to it, unless it was deleted or swept.
Known(o) == obj[o].id \in Ids /\ (threads[obj[o].id] = o \/ obj[o].id \in Lost)

Named == \A i \in Ids : threads[i] # NoObject => obj[threads[i]].id = i

InUse == \A o \in Objects : obj[o].run # "none" \/ obj[o].dirty \/ o \in stopping => Known(o)

Held == \A c \in Callers : op[c].pc \in {"use", "wait", "saving"} => Known(op[c].object)

\* A live thread has its record and its directory.
Backed == \A i \in Ids : threads[i] # NoObject /\ i \notin Lost => disk[i] # "none" /\ Usable(i)

\* What a call has read is still so when it uses it.
Fresh ==
  \A c \in Callers :
    LET k == op[c] IN
    /\ k.pc \in {"save", "stat", "create"} \/ (k.pc = "load" /\ k.kind # "start")
         => threads[k.id] = NoObject
    /\ k.kind = "start" /\ k.pc \in {"load", "save", "create"} => Usable(k.id) \/ k.id \in Lost
    /\ k.pc = "stat" => disk[k.id] = k.loaded \/ k.id \in Lost
    /\ k.pc = "create" => (disk[k.id] = "idle" /\ Usable(k.id)) \/ k.id \in Lost
    /\ k.pc = "prune" => \A i \in Ids \ k.names : threads[i] = NoObject \/ i \in Lost
    /\ k.pc \in {"forget", "purge"} => k.id \in deleted

Registry == Named /\ InUse /\ Held /\ Backed /\ Fresh /\ LiveMatchesRecord

-----------------------------------------------------------------------------
(* Types. *)

LEMMA OpSet ==
  ASSUME op \in [Callers -> Call], CallsOK, NEW c \in Callers, NEW k \in Call, CallOK(k),
         op' = [op EXCEPT ![c] = k]
  PROVE  op' \in [Callers -> Call] /\ CallsOK'
<1>1. op' \in [Callers -> Call]
  OBVIOUS
<1>2. ASSUME NEW d \in Callers PROVE op'[d] = k \/ op'[d] = op[d]
  OBVIOUS
<1> QED
  BY <1>1, <1>2 DEF CallsOK

LEMMA NoCallOK == NoCall \in Call /\ CallOK(NoCall)
BY DEF NoCall, Call, Kinds, Statuses, Pcs, CallOK

LEMMA Returns ==
  ASSUME TypeInv, NEW c \in Callers, Return(c)
  PROVE  op' \in [Callers -> Call] /\ CallsOK'
BY OpSet, NoCallOK DEF TypeInv, TypeOK, Return, Call, Pcs

LEMMA Goes ==
  ASSUME TypeInv, NEW c \in Callers, NEW pc \in Pcs, Goto(c, pc), CallOK([op[c] EXCEPT !.pc = pc])
  PROVE  op' \in [Callers -> Call] /\ CallsOK'
<1>1. op \in [Callers -> Call] /\ CallsOK
  BY DEF TypeInv, TypeOK, Call, Pcs
<1>2. [op[c] EXCEPT !.pc = pc] \in Call
  BY <1>1 DEF Call
<1>3. op' = [op EXCEPT ![c] = [op[c] EXCEPT !.pc = pc]]
  BY <1>1 DEF Goto
<1> QED
  BY <1>1, <1>2, <1>3, OpSet

LEMMA Adopts ==
  ASSUME TypeInv, NEW i \in Ids, NEW status \in Statuses, NEW o \in Objects, Adopt(i, status, o)
  PROVE  obj' \in [Objects -> Object] /\ threads' \in [Ids -> Objects \cup {NoObject}]
<1>1. [Free EXCEPT !.id = i, !.status = status] \in Object
  BY DEF Free, Object, Statuses
<1> QED
  BY <1>1 DEF TypeInv, TypeOK, Adopt, Object

LEMMA ResumedGoes ==
  ASSUME TypeInv, NEW c \in Callers, NEW o \in Objects, op[c].pc # "idle", op[c].id \in Ids,
         Resumed(c, o)
  PROVE  op' \in [Callers -> Call] /\ CallsOK'
<1>1. op \in [Callers -> Call] /\ CallsOK
  BY DEF TypeInv, TypeOK, Call, Pcs
<1> DEFINE k == [op[c] EXCEPT !.pc = "use", !.object = o]
<1>2. k \in Call /\ CallOK(k)
  BY <1>1 DEF Call, CallOK, Pcs
<1>3. CASE op[c].kind # "resume"
  <2>1. op' = [op EXCEPT ![c] = k]
    BY <1>1, <1>3 DEF Resumed
  <2> HIDE DEF k
  <2> QED
    BY <1>1, <1>2, <2>1, OpSet
<1> QED
  BY <1>3, Returns DEF Resumed

LEMMA TypeStep ==
  ASSUME TypeInv, [Next]_vars
  PROVE  TypeInv'
<1>1. ASSUME NEW c \in Callers, NEW i \in Ids, CallStart(c, i) PROVE TypeInv'
  <2> USE <1>1
  <2>1. /\ op \in [Callers -> Call] /\ CallsOK
        /\ obj \in [Objects -> Object] /\ threads \in [Ids -> Objects \cup {NoObject}]
        /\ disk \in [Ids -> Statuses \cup {"none"}]
    BY DEF TypeInv, TypeOK, Call, Pcs, Object
  <2>2. op' \in [Callers -> Call] /\ CallsOK'
    <3> DEFINE k == [NoCall EXCEPT !.kind = "start", !.pc = "load", !.id = i]
    <3>1. k \in Call /\ CallOK(k)
      BY <2>1 DEF NoCall, Call, CallOK, Kinds, Statuses, Pcs
    <3>2. op' = [op EXCEPT ![c] = k]
      BY DEF CallStart
    <3> HIDE DEF k
    <3> QED
      BY <2>1, <3>1, <3>2, OpSet
  <2>3. obj' \in [Objects -> Object] /\ threads' \in [Ids -> Objects \cup {NoObject}]
    BY <2>1 DEF CallStart, memory, Object, Statuses
  <2>4. disk' \in [Ids -> Statuses \cup {"none"}] /\ workspace' \in [AppManaged -> {"none", "made", "journal"}]
    BY DEF TypeInv, TypeOK, CallStart, files, Statuses
  <2>5. /\ open' \in BOOLEAN /\ stopping' \subseteq Objects
        /\ deleted' \subseteq Ids /\ swept' \subseteq AppManaged /\ restarts' \in 0 .. MaxRestarts
    BY DEF TypeInv, TypeOK, CallStart, server, ghosts
  <2>6. sweep' \in [pc : {"off", "read", "list", "remove"}, dirs : SUBSET AppManaged,
                    target : AppManaged \cup {NoId}]
    BY DEF TypeInv, TypeOK, CallStart
  <2> QED
    BY <2>2, <2>3, <2>4, <2>5, <2>6 DEF TypeInv, TypeOK, Call, Pcs, Object
<1>2. ASSUME NEW c \in Callers, NEW i \in Ids, CallDelete(c, i) PROVE TypeInv'
  <2> USE <1>2
  <2>1. /\ op \in [Callers -> Call] /\ CallsOK
        /\ obj \in [Objects -> Object] /\ threads \in [Ids -> Objects \cup {NoObject}]
        /\ disk \in [Ids -> Statuses \cup {"none"}]
    BY DEF TypeInv, TypeOK, Call, Pcs, Object
  <2>2. op' \in [Callers -> Call] /\ CallsOK'
    <3> DEFINE k == [NoCall EXCEPT !.kind = "delete", !.pc = "remove", !.id = i, !.loaded = disk[i]]
    <3>1. k \in Call /\ CallOK(k)
      BY <2>1 DEF NoCall, Call, CallOK, Kinds, Statuses, Pcs
    <3>2. op' = [op EXCEPT ![c] = k]
      BY DEF CallDelete
    <3> HIDE DEF k
    <3> QED
      BY <2>1, <3>1, <3>2, OpSet
  <2>3. obj' \in [Objects -> Object] /\ threads' \in [Ids -> Objects \cup {NoObject}]
    BY <2>1 DEF CallDelete, memory, Object, Statuses
  <2>4. disk' \in [Ids -> Statuses \cup {"none"}] /\ workspace' \in [AppManaged -> {"none", "made", "journal"}]
    BY DEF TypeInv, TypeOK, CallDelete, files, Statuses
  <2>5. /\ open' \in BOOLEAN /\ stopping' \subseteq Objects
        /\ deleted' \subseteq Ids /\ swept' \subseteq AppManaged /\ restarts' \in 0 .. MaxRestarts
    BY DEF TypeInv, TypeOK, CallDelete, server, ghosts
  <2>6. sweep' \in [pc : {"off", "read", "list", "remove"}, dirs : SUBSET AppManaged,
                    target : AppManaged \cup {NoId}]
    BY DEF TypeInv, TypeOK, CallDelete
  <2> QED
    BY <2>2, <2>3, <2>4, <2>5, <2>6 DEF TypeInv, TypeOK, Call, Pcs, Object
<1>3. ASSUME NEW c \in Callers, NEW i \in Ids, NEW kind \in {"resume", "turn", "close"}, CallResume(c, kind, i) PROVE TypeInv'
  <2> USE <1>3
  <2>1. /\ op \in [Callers -> Call] /\ CallsOK
        /\ obj \in [Objects -> Object] /\ threads \in [Ids -> Objects \cup {NoObject}]
        /\ disk \in [Ids -> Statuses \cup {"none"}]
    BY DEF TypeInv, TypeOK, Call, Pcs, Object
  <2>2. op' \in [Callers -> Call] /\ CallsOK'
    <3> DEFINE k == [NoCall EXCEPT !.kind = kind, !.pc = "load", !.id = i]
               l == [NoCall EXCEPT !.kind = kind, !.pc = "use", !.id = i, !.object = threads[i]]
    <3>1. k \in Call /\ CallOK(k) /\ NoObject \notin Objects
      BY RegistryAssumption DEF NoCall, Call, CallOK, Kinds, Statuses, Pcs
    <3>2. threads[i] # NoObject => l \in Call /\ CallOK(l)
      BY <2>1 DEF NoCall, Call, CallOK, Kinds, Statuses, Pcs
    <3>3. op' = [op EXCEPT ![c] = k] \/ (threads[i] # NoObject /\ op' = [op EXCEPT ![c] = l])
      BY DEF CallResume
    <3> HIDE DEF k, l
    <3> QED
      BY <2>1, <3>1, <3>2, <3>3, OpSet
  <2>3. obj' \in [Objects -> Object] /\ threads' \in [Ids -> Objects \cup {NoObject}]
    BY <2>1 DEF CallResume, memory, Object, Statuses
  <2>4. disk' \in [Ids -> Statuses \cup {"none"}] /\ workspace' \in [AppManaged -> {"none", "made", "journal"}]
    BY DEF TypeInv, TypeOK, CallResume, files, Statuses
  <2>5. /\ open' \in BOOLEAN /\ stopping' \subseteq Objects
        /\ deleted' \subseteq Ids /\ swept' \subseteq AppManaged /\ restarts' \in 0 .. MaxRestarts
    BY DEF TypeInv, TypeOK, CallResume, server, ghosts
  <2>6. sweep' \in [pc : {"off", "read", "list", "remove"}, dirs : SUBSET AppManaged,
                    target : AppManaged \cup {NoId}]
    BY DEF TypeInv, TypeOK, CallResume
  <2> QED
    BY <2>2, <2>3, <2>4, <2>5, <2>6 DEF TypeInv, TypeOK, Call, Pcs, Object
<1>4. ASSUME NEW c \in Callers, CallList(c) PROVE TypeInv'
  <2> USE <1>4
  <2>1. /\ op \in [Callers -> Call] /\ CallsOK
        /\ obj \in [Objects -> Object] /\ threads \in [Ids -> Objects \cup {NoObject}]
        /\ disk \in [Ids -> Statuses \cup {"none"}]
    BY DEF TypeInv, TypeOK, Call, Pcs, Object
  <2>2. op' \in [Callers -> Call] /\ CallsOK'
    <3> DEFINE k == [NoCall EXCEPT !.kind = "list", !.pc = "prune", !.names = {i \in Ids : disk[i] # "none"}]
    <3>1. k \in Call /\ CallOK(k)
      BY <2>1 DEF NoCall, Call, CallOK, Kinds, Statuses, Pcs
    <3>2. op' = [op EXCEPT ![c] = k]
      BY DEF CallList
    <3> HIDE DEF k
    <3> QED
      BY <2>1, <3>1, <3>2, OpSet
  <2>3. obj' \in [Objects -> Object] /\ threads' \in [Ids -> Objects \cup {NoObject}]
    BY <2>1 DEF CallList, memory, Object, Statuses
  <2>4. disk' \in [Ids -> Statuses \cup {"none"}] /\ workspace' \in [AppManaged -> {"none", "made", "journal"}]
    BY DEF TypeInv, TypeOK, CallList, files, Statuses
  <2>5. /\ open' \in BOOLEAN /\ stopping' \subseteq Objects
        /\ deleted' \subseteq Ids /\ swept' \subseteq AppManaged /\ restarts' \in 0 .. MaxRestarts
    BY DEF TypeInv, TypeOK, CallList, server, ghosts
  <2>6. sweep' \in [pc : {"off", "read", "list", "remove"}, dirs : SUBSET AppManaged,
                    target : AppManaged \cup {NoId}]
    BY DEF TypeInv, TypeOK, CallList
  <2> QED
    BY <2>2, <2>3, <2>4, <2>5, <2>6 DEF TypeInv, TypeOK, Call, Pcs, Object
<1>5. ASSUME NEW c \in Callers, StartLoads(c) PROVE TypeInv'
  <2> USE <1>5
  <2>1. /\ op \in [Callers -> Call] /\ CallsOK
        /\ obj \in [Objects -> Object] /\ threads \in [Ids -> Objects \cup {NoObject}]
        /\ disk \in [Ids -> Statuses \cup {"none"}]
    BY DEF TypeInv, TypeOK, Call, Pcs, Object
  <2>2. op' \in [Callers -> Call] /\ CallsOK'
    <3>1. Return(c) \/ Goto(c, "save")
      BY DEF StartLoads
    <3>2. CallOK([op[c] EXCEPT !.pc = "save"]) /\ "save" \in Pcs
      BY <2>1 DEF StartLoads, At, CallsOK, CallOK, Call, Pcs
    <3> QED
      BY <3>1, <3>2, Goes, Returns
  <2>3. obj' \in [Objects -> Object] /\ threads' \in [Ids -> Objects \cup {NoObject}]
    BY <2>1 DEF StartLoads, memory, Object, Statuses
  <2>4. disk' \in [Ids -> Statuses \cup {"none"}] /\ workspace' \in [AppManaged -> {"none", "made", "journal"}]
    BY DEF TypeInv, TypeOK, StartLoads, files, Statuses
  <2>5. /\ open' \in BOOLEAN /\ stopping' \subseteq Objects
        /\ deleted' \subseteq Ids /\ swept' \subseteq AppManaged /\ restarts' \in 0 .. MaxRestarts
    BY DEF TypeInv, TypeOK, StartLoads, server, ghosts
  <2>6. sweep' \in [pc : {"off", "read", "list", "remove"}, dirs : SUBSET AppManaged,
                    target : AppManaged \cup {NoId}]
    BY DEF TypeInv, TypeOK, StartLoads
  <2> QED
    BY <2>2, <2>3, <2>4, <2>5, <2>6 DEF TypeInv, TypeOK, Call, Pcs, Object
<1>6. ASSUME NEW c \in Callers, StartSaves(c) PROVE TypeInv'
  <2> USE <1>6
  <2>1. /\ op \in [Callers -> Call] /\ CallsOK
        /\ obj \in [Objects -> Object] /\ threads \in [Ids -> Objects \cup {NoObject}]
        /\ disk \in [Ids -> Statuses \cup {"none"}]
    BY DEF TypeInv, TypeOK, Call, Pcs, Object
  <2>2. op' \in [Callers -> Call] /\ CallsOK'
    <3>1. Return(c) \/ Goto(c, "create")
      BY DEF StartSaves
    <3>2. CallOK([op[c] EXCEPT !.pc = "create"]) /\ "create" \in Pcs
      BY <2>1 DEF StartSaves, At, CallsOK, CallOK, Call, Pcs
    <3> QED
      BY <3>1, <3>2, Goes, Returns
  <2>3. obj' \in [Objects -> Object] /\ threads' \in [Ids -> Objects \cup {NoObject}]
    BY <2>1 DEF StartSaves, memory, Object, Statuses
  <2>4. disk' \in [Ids -> Statuses \cup {"none"}] /\ workspace' \in [AppManaged -> {"none", "made", "journal"}]
    BY DEF TypeInv, TypeOK, StartSaves, files, Statuses
  <2>5. /\ open' \in BOOLEAN /\ stopping' \subseteq Objects
        /\ deleted' \subseteq Ids /\ swept' \subseteq AppManaged /\ restarts' \in 0 .. MaxRestarts
    BY DEF TypeInv, TypeOK, StartSaves, server, ghosts
  <2>6. sweep' \in [pc : {"off", "read", "list", "remove"}, dirs : SUBSET AppManaged,
                    target : AppManaged \cup {NoId}]
    BY DEF TypeInv, TypeOK, StartSaves
  <2> QED
    BY <2>2, <2>3, <2>4, <2>5, <2>6 DEF TypeInv, TypeOK, Call, Pcs, Object
<1>7. ASSUME NEW c \in Callers, ResumeLoads(c) PROVE TypeInv'
  <2> USE <1>7
  <2>1. /\ op \in [Callers -> Call] /\ CallsOK
        /\ obj \in [Objects -> Object] /\ threads \in [Ids -> Objects \cup {NoObject}]
        /\ disk \in [Ids -> Statuses \cup {"none"}]
    BY DEF TypeInv, TypeOK, Call, Pcs, Object
  <2>2. op' \in [Callers -> Call] /\ CallsOK'
    <3> DEFINE k == [op[c] EXCEPT !.loaded = disk[op[c].id], !.pc = "stat"]
    <3>1. op[c] \in Call /\ op[c].id \in Ids /\ disk[op[c].id] \in Statuses \cup {"none"}
      BY <2>1 DEF ResumeLoads, At, CallsOK, CallOK, Call
    <3>2. k \in Call
      BY <3>1 DEF Call, Pcs
    <3>3. disk[op[c].id] # "none" => CallOK(k)
      BY <3>1 DEF Call, CallOK
    <3>4. Return(c) \/ (disk[op[c].id] # "none" /\ op' = [op EXCEPT ![c] = k])
      BY <2>1 DEF ResumeLoads
    <3> HIDE DEF k
    <3> QED
      BY <2>1, <3>2, <3>3, <3>4, OpSet, Returns
  <2>3. obj' \in [Objects -> Object] /\ threads' \in [Ids -> Objects \cup {NoObject}]
    BY <2>1 DEF ResumeLoads, memory, Object, Statuses
  <2>4. disk' \in [Ids -> Statuses \cup {"none"}] /\ workspace' \in [AppManaged -> {"none", "made", "journal"}]
    BY DEF TypeInv, TypeOK, ResumeLoads, files, Statuses
  <2>5. /\ open' \in BOOLEAN /\ stopping' \subseteq Objects
        /\ deleted' \subseteq Ids /\ swept' \subseteq AppManaged /\ restarts' \in 0 .. MaxRestarts
    BY DEF TypeInv, TypeOK, ResumeLoads, server, ghosts
  <2>6. sweep' \in [pc : {"off", "read", "list", "remove"}, dirs : SUBSET AppManaged,
                    target : AppManaged \cup {NoId}]
    BY DEF TypeInv, TypeOK, ResumeLoads
  <2> QED
    BY <2>2, <2>3, <2>4, <2>5, <2>6 DEF TypeInv, TypeOK, Call, Pcs, Object
<1>8. ASSUME NEW c \in Callers, ResumeRefuses(c) PROVE TypeInv'
  <2> USE <1>8
  <2>1. /\ op \in [Callers -> Call] /\ CallsOK
        /\ obj \in [Objects -> Object] /\ threads \in [Ids -> Objects \cup {NoObject}]
        /\ disk \in [Ids -> Statuses \cup {"none"}]
    BY DEF TypeInv, TypeOK, Call, Pcs, Object
  <2>2. op' \in [Callers -> Call] /\ CallsOK'
    BY Returns DEF ResumeRefuses
  <2>3. obj' \in [Objects -> Object] /\ threads' \in [Ids -> Objects \cup {NoObject}]
    BY <2>1 DEF ResumeRefuses, memory, Object, Statuses
  <2>4. disk' \in [Ids -> Statuses \cup {"none"}] /\ workspace' \in [AppManaged -> {"none", "made", "journal"}]
    BY DEF TypeInv, TypeOK, ResumeRefuses, files, Statuses
  <2>5. /\ open' \in BOOLEAN /\ stopping' \subseteq Objects
        /\ deleted' \subseteq Ids /\ swept' \subseteq AppManaged /\ restarts' \in 0 .. MaxRestarts
    BY DEF TypeInv, TypeOK, ResumeRefuses, server, ghosts
  <2>6. sweep' \in [pc : {"off", "read", "list", "remove"}, dirs : SUBSET AppManaged,
                    target : AppManaged \cup {NoId}]
    BY DEF TypeInv, TypeOK, ResumeRefuses
  <2> QED
    BY <2>2, <2>3, <2>4, <2>5, <2>6 DEF TypeInv, TypeOK, Call, Pcs, Object
<1>9. ASSUME NEW c \in Callers, ResumeRepairs(c) PROVE TypeInv'
  <2> USE <1>9
  <2>1. /\ op \in [Callers -> Call] /\ CallsOK
        /\ obj \in [Objects -> Object] /\ threads \in [Ids -> Objects \cup {NoObject}]
        /\ disk \in [Ids -> Statuses \cup {"none"}]
    BY DEF TypeInv, TypeOK, Call, Pcs, Object
  <2>2. op' \in [Callers -> Call] /\ CallsOK'
    <3>1. Return(c) \/ Goto(c, "create")
      BY DEF ResumeRepairs
    <3>2. CallOK([op[c] EXCEPT !.pc = "create"]) /\ "create" \in Pcs
      BY <2>1 DEF ResumeRepairs, At, CallsOK, CallOK, Call, Pcs
    <3> QED
      BY <3>1, <3>2, Goes, Returns
  <2>3. obj' \in [Objects -> Object] /\ threads' \in [Ids -> Objects \cup {NoObject}]
    BY <2>1 DEF ResumeRepairs, memory, Object, Statuses
  <2>4. disk' \in [Ids -> Statuses \cup {"none"}] /\ workspace' \in [AppManaged -> {"none", "made", "journal"}]
    BY DEF TypeInv, TypeOK, ResumeRepairs, files, Statuses
  <2>5. /\ open' \in BOOLEAN /\ stopping' \subseteq Objects
        /\ deleted' \subseteq Ids /\ swept' \subseteq AppManaged /\ restarts' \in 0 .. MaxRestarts
    BY DEF TypeInv, TypeOK, ResumeRepairs, server, ghosts
  <2>6. sweep' \in [pc : {"off", "read", "list", "remove"}, dirs : SUBSET AppManaged,
                    target : AppManaged \cup {NoId}]
    BY DEF TypeInv, TypeOK, ResumeRepairs
  <2> QED
    BY <2>2, <2>3, <2>4, <2>5, <2>6 DEF TypeInv, TypeOK, Call, Pcs, Object
<1>10. ASSUME NEW c \in Callers, TurnStarts(c) PROVE TypeInv'
  <2> USE <1>10
  <2>1. /\ op \in [Callers -> Call] /\ CallsOK
        /\ obj \in [Objects -> Object] /\ threads \in [Ids -> Objects \cup {NoObject}]
        /\ disk \in [Ids -> Statuses \cup {"none"}]
    BY DEF TypeInv, TypeOK, Call, Pcs, Object
  <2>2. op' \in [Callers -> Call] /\ CallsOK'
    <3>1. Return(c) \/ Goto(c, "saving")
      BY DEF TurnStarts
    <3>2. CallOK([op[c] EXCEPT !.pc = "saving"]) /\ "saving" \in Pcs
      BY <2>1 DEF TurnStarts, At, CallsOK, CallOK, Call, Pcs
    <3> QED
      BY <3>1, <3>2, Goes, Returns
  <2>3. obj' \in [Objects -> Object] /\ threads' \in [Ids -> Objects \cup {NoObject}]
    <3>1. op[c].object \in Objects
      BY <2>1 DEF TurnStarts, At, CallsOK, CallOK
    <3> QED
      BY <2>1, <3>1 DEF TurnStarts, Object, Statuses
  <2>4. disk' \in [Ids -> Statuses \cup {"none"}] /\ workspace' \in [AppManaged -> {"none", "made", "journal"}]
    BY DEF TypeInv, TypeOK, TurnStarts, files, Statuses
  <2>5. /\ open' \in BOOLEAN /\ stopping' \subseteq Objects
        /\ deleted' \subseteq Ids /\ swept' \subseteq AppManaged /\ restarts' \in 0 .. MaxRestarts
    BY DEF TypeInv, TypeOK, TurnStarts, server, ghosts
  <2>6. sweep' \in [pc : {"off", "read", "list", "remove"}, dirs : SUBSET AppManaged,
                    target : AppManaged \cup {NoId}]
    BY DEF TypeInv, TypeOK, TurnStarts
  <2> QED
    BY <2>2, <2>3, <2>4, <2>5, <2>6 DEF TypeInv, TypeOK, Call, Pcs, Object
<1>11. ASSUME NEW c \in Callers, CloseWaits(c) PROVE TypeInv'
  <2> USE <1>11
  <2>1. /\ op \in [Callers -> Call] /\ CallsOK
        /\ obj \in [Objects -> Object] /\ threads \in [Ids -> Objects \cup {NoObject}]
        /\ disk \in [Ids -> Statuses \cup {"none"}]
    BY DEF TypeInv, TypeOK, Call, Pcs, Object
  <2>2. op' \in [Callers -> Call] /\ CallsOK'
    <3>1. Return(c) \/ Goto(c, "wait")
      BY DEF CloseWaits
    <3>2. CallOK([op[c] EXCEPT !.pc = "wait"]) /\ "wait" \in Pcs
      BY <2>1 DEF CloseWaits, At, CallsOK, CallOK, Call, Pcs
    <3> QED
      BY <3>1, <3>2, Goes, Returns
  <2>3. obj' \in [Objects -> Object] /\ threads' \in [Ids -> Objects \cup {NoObject}]
    BY <2>1 DEF CloseWaits, memory, Object, Statuses
  <2>4. disk' \in [Ids -> Statuses \cup {"none"}] /\ workspace' \in [AppManaged -> {"none", "made", "journal"}]
    BY DEF TypeInv, TypeOK, CloseWaits, files, Statuses
  <2>5. /\ open' \in BOOLEAN /\ stopping' \subseteq Objects
        /\ deleted' \subseteq Ids /\ swept' \subseteq AppManaged /\ restarts' \in 0 .. MaxRestarts
    BY DEF TypeInv, TypeOK, CloseWaits, server, ghosts
  <2>6. sweep' \in [pc : {"off", "read", "list", "remove"}, dirs : SUBSET AppManaged,
                    target : AppManaged \cup {NoId}]
    BY DEF TypeInv, TypeOK, CloseWaits
  <2> QED
    BY <2>2, <2>3, <2>4, <2>5, <2>6 DEF TypeInv, TypeOK, Call, Pcs, Object
<1>12. ASSUME NEW c \in Callers, CloseSets(c) PROVE TypeInv'
  <2> USE <1>12
  <2>1. /\ op \in [Callers -> Call] /\ CallsOK
        /\ obj \in [Objects -> Object] /\ threads \in [Ids -> Objects \cup {NoObject}]
        /\ disk \in [Ids -> Statuses \cup {"none"}]
    BY DEF TypeInv, TypeOK, Call, Pcs, Object
  <2>2. op' \in [Callers -> Call] /\ CallsOK'
    <3>1. Return(c) \/ Goto(c, "saving")
      BY DEF CloseSets
    <3>2. CallOK([op[c] EXCEPT !.pc = "saving"]) /\ "saving" \in Pcs
      BY <2>1 DEF CloseSets, At, CallsOK, CallOK, Call, Pcs
    <3> QED
      BY <3>1, <3>2, Goes, Returns
  <2>3. obj' \in [Objects -> Object] /\ threads' \in [Ids -> Objects \cup {NoObject}]
    <3>1. op[c].object \in Objects
      BY <2>1 DEF CloseSets, At, CallsOK, CallOK
    <3> QED
      BY <2>1, <3>1 DEF CloseSets, Object, Statuses
  <2>4. disk' \in [Ids -> Statuses \cup {"none"}] /\ workspace' \in [AppManaged -> {"none", "made", "journal"}]
    BY DEF TypeInv, TypeOK, CloseSets, files, Statuses
  <2>5. /\ open' \in BOOLEAN /\ stopping' \subseteq Objects
        /\ deleted' \subseteq Ids /\ swept' \subseteq AppManaged /\ restarts' \in 0 .. MaxRestarts
    BY DEF TypeInv, TypeOK, CloseSets, server, ghosts
  <2>6. sweep' \in [pc : {"off", "read", "list", "remove"}, dirs : SUBSET AppManaged,
                    target : AppManaged \cup {NoId}]
    BY DEF TypeInv, TypeOK, CloseSets
  <2> QED
    BY <2>2, <2>3, <2>4, <2>5, <2>6 DEF TypeInv, TypeOK, Call, Pcs, Object
<1>13. ASSUME NEW c \in Callers, CallSaved(c) PROVE TypeInv'
  <2> USE <1>13
  <2>1. /\ op \in [Callers -> Call] /\ CallsOK
        /\ obj \in [Objects -> Object] /\ threads \in [Ids -> Objects \cup {NoObject}]
        /\ disk \in [Ids -> Statuses \cup {"none"}]
    BY DEF TypeInv, TypeOK, Call, Pcs, Object
  <2>2. op' \in [Callers -> Call] /\ CallsOK'
    BY Returns DEF CallSaved
  <2>3. obj' \in [Objects -> Object] /\ threads' \in [Ids -> Objects \cup {NoObject}]
    BY <2>1 DEF CallSaved, memory, Object, Statuses
  <2>4. disk' \in [Ids -> Statuses \cup {"none"}] /\ workspace' \in [AppManaged -> {"none", "made", "journal"}]
    BY DEF TypeInv, TypeOK, CallSaved, files, Statuses
  <2>5. /\ open' \in BOOLEAN /\ stopping' \subseteq Objects
        /\ deleted' \subseteq Ids /\ swept' \subseteq AppManaged /\ restarts' \in 0 .. MaxRestarts
    BY DEF TypeInv, TypeOK, CallSaved, server, ghosts
  <2>6. sweep' \in [pc : {"off", "read", "list", "remove"}, dirs : SUBSET AppManaged,
                    target : AppManaged \cup {NoId}]
    BY DEF TypeInv, TypeOK, CallSaved
  <2> QED
    BY <2>2, <2>3, <2>4, <2>5, <2>6 DEF TypeInv, TypeOK, Call, Pcs, Object
<1>14. ASSUME NEW c \in Callers, ListPrunes(c) PROVE TypeInv'
  <2> USE <1>14
  <2>1. /\ op \in [Callers -> Call] /\ CallsOK
        /\ obj \in [Objects -> Object] /\ threads \in [Ids -> Objects \cup {NoObject}]
        /\ disk \in [Ids -> Statuses \cup {"none"}]
    BY DEF TypeInv, TypeOK, Call, Pcs, Object
  <2>2. op' \in [Callers -> Call] /\ CallsOK'
    <3>1. Return(c) \/ Goto(c, "check")
      BY DEF ListPrunes
    <3>2. CallOK([op[c] EXCEPT !.pc = "check"]) /\ "check" \in Pcs
      BY <2>1 DEF ListPrunes, At, CallsOK, CallOK, Call, Pcs
    <3> QED
      BY <3>1, <3>2, Goes, Returns
  <2>3. obj' \in [Objects -> Object] /\ threads' \in [Ids -> Objects \cup {NoObject}]
    BY <2>1 DEF ListPrunes, memory, Object, Statuses
  <2>4. disk' \in [Ids -> Statuses \cup {"none"}] /\ workspace' \in [AppManaged -> {"none", "made", "journal"}]
    BY DEF TypeInv, TypeOK, ListPrunes, files, Statuses
  <2>5. /\ open' \in BOOLEAN /\ stopping' \subseteq Objects
        /\ deleted' \subseteq Ids /\ swept' \subseteq AppManaged /\ restarts' \in 0 .. MaxRestarts
    BY DEF TypeInv, TypeOK, ListPrunes, server, ghosts
  <2>6. sweep' \in [pc : {"off", "read", "list", "remove"}, dirs : SUBSET AppManaged,
                    target : AppManaged \cup {NoId}]
    BY DEF TypeInv, TypeOK, ListPrunes
  <2> QED
    BY <2>2, <2>3, <2>4, <2>5, <2>6 DEF TypeInv, TypeOK, Call, Pcs, Object
<1>15. ASSUME NEW c \in Callers, ListChecks(c) PROVE TypeInv'
  <2> USE <1>15
  <2>1. /\ op \in [Callers -> Call] /\ CallsOK
        /\ obj \in [Objects -> Object] /\ threads \in [Ids -> Objects \cup {NoObject}]
        /\ disk \in [Ids -> Statuses \cup {"none"}]
    BY DEF TypeInv, TypeOK, Call, Pcs, Object
  <2>2. op' \in [Callers -> Call] /\ CallsOK'
    BY Returns DEF ListChecks
  <2>3. obj' \in [Objects -> Object] /\ threads' \in [Ids -> Objects \cup {NoObject}]
    BY <2>1 DEF ListChecks, memory, Object, Statuses
  <2>4. disk' \in [Ids -> Statuses \cup {"none"}] /\ workspace' \in [AppManaged -> {"none", "made", "journal"}]
    BY DEF TypeInv, TypeOK, ListChecks, files, Statuses
  <2>5. /\ open' \in BOOLEAN /\ stopping' \subseteq Objects
        /\ deleted' \subseteq Ids /\ swept' \subseteq AppManaged /\ restarts' \in 0 .. MaxRestarts
    BY DEF TypeInv, TypeOK, ListChecks, server, ghosts
  <2>6. sweep' \in [pc : {"off", "read", "list", "remove"}, dirs : SUBSET AppManaged,
                    target : AppManaged \cup {NoId}]
    BY DEF TypeInv, TypeOK, ListChecks
  <2> QED
    BY <2>2, <2>3, <2>4, <2>5, <2>6 DEF TypeInv, TypeOK, Call, Pcs, Object
<1>16. ASSUME NEW c \in Callers, DeleteRemoves(c) PROVE TypeInv'
  <2> USE <1>16
  <2>1. /\ op \in [Callers -> Call] /\ CallsOK
        /\ obj \in [Objects -> Object] /\ threads \in [Ids -> Objects \cup {NoObject}]
        /\ disk \in [Ids -> Statuses \cup {"none"}]
    BY DEF TypeInv, TypeOK, Call, Pcs, Object
  <2>2. op' \in [Callers -> Call] /\ CallsOK'
    <3>1. Return(c) \/ Goto(c, "forget")
      BY DEF DeleteRemoves
    <3>2. CallOK([op[c] EXCEPT !.pc = "forget"]) /\ "forget" \in Pcs
      BY <2>1 DEF DeleteRemoves, At, CallsOK, CallOK, Call, Pcs
    <3> QED
      BY <3>1, <3>2, Goes, Returns
  <2>3. obj' \in [Objects -> Object] /\ threads' \in [Ids -> Objects \cup {NoObject}]
    BY <2>1 DEF DeleteRemoves, memory, Object, Statuses
  <2>4. disk' \in [Ids -> Statuses \cup {"none"}] /\ workspace' \in [AppManaged -> {"none", "made", "journal"}]
    BY DEF TypeInv, TypeOK, DeleteRemoves, files, Statuses
  <2>5. /\ open' \in BOOLEAN /\ stopping' \subseteq Objects
        /\ deleted' \subseteq Ids /\ swept' \subseteq AppManaged /\ restarts' \in 0 .. MaxRestarts
    BY <2>1 DEF TypeInv, TypeOK, DeleteRemoves, server, ghosts, At, CallsOK, CallOK
  <2>6. sweep' \in [pc : {"off", "read", "list", "remove"}, dirs : SUBSET AppManaged,
                    target : AppManaged \cup {NoId}]
    BY DEF TypeInv, TypeOK, DeleteRemoves
  <2> QED
    BY <2>2, <2>3, <2>4, <2>5, <2>6 DEF TypeInv, TypeOK, Call, Pcs, Object
<1>17. ASSUME NEW c \in Callers, DeleteForgets(c) PROVE TypeInv'
  <2> USE <1>17
  <2>1. /\ op \in [Callers -> Call] /\ CallsOK
        /\ obj \in [Objects -> Object] /\ threads \in [Ids -> Objects \cup {NoObject}]
        /\ disk \in [Ids -> Statuses \cup {"none"}]
    BY DEF TypeInv, TypeOK, Call, Pcs, Object
  <2>2. op' \in [Callers -> Call] /\ CallsOK'
    <3>1. Return(c) \/ Goto(c, "purge")
      BY DEF DeleteForgets
    <3>2. CallOK([op[c] EXCEPT !.pc = "purge"]) /\ "purge" \in Pcs
      BY <2>1 DEF DeleteForgets, At, CallsOK, CallOK, Call, Pcs
    <3> QED
      BY <3>1, <3>2, Goes, Returns
  <2>3. obj' \in [Objects -> Object] /\ threads' \in [Ids -> Objects \cup {NoObject}]
    BY <2>1 DEF DeleteForgets, memory, Object, Statuses
  <2>4. disk' \in [Ids -> Statuses \cup {"none"}] /\ workspace' \in [AppManaged -> {"none", "made", "journal"}]
    BY DEF TypeInv, TypeOK, DeleteForgets, files, Statuses
  <2>5. /\ open' \in BOOLEAN /\ stopping' \subseteq Objects
        /\ deleted' \subseteq Ids /\ swept' \subseteq AppManaged /\ restarts' \in 0 .. MaxRestarts
    BY DEF TypeInv, TypeOK, DeleteForgets, server, ghosts
  <2>6. sweep' \in [pc : {"off", "read", "list", "remove"}, dirs : SUBSET AppManaged,
                    target : AppManaged \cup {NoId}]
    BY DEF TypeInv, TypeOK, DeleteForgets, NoSweep, BootSweep
  <2> QED
    BY <2>2, <2>3, <2>4, <2>5, <2>6 DEF TypeInv, TypeOK, Call, Pcs, Object
<1>18. ASSUME NEW c \in Callers, DeletePurges(c) PROVE TypeInv'
  <2> USE <1>18
  <2>1. /\ op \in [Callers -> Call] /\ CallsOK
        /\ obj \in [Objects -> Object] /\ threads \in [Ids -> Objects \cup {NoObject}]
        /\ disk \in [Ids -> Statuses \cup {"none"}]
    BY DEF TypeInv, TypeOK, Call, Pcs, Object
  <2>2. op' \in [Callers -> Call] /\ CallsOK'
    BY Returns DEF DeletePurges
  <2>3. obj' \in [Objects -> Object] /\ threads' \in [Ids -> Objects \cup {NoObject}]
    BY <2>1 DEF DeletePurges, memory, Object, Statuses
  <2>4. disk' \in [Ids -> Statuses \cup {"none"}] /\ workspace' \in [AppManaged -> {"none", "made", "journal"}]
    BY DEF TypeInv, TypeOK, DeletePurges, files, Statuses
  <2>5. /\ open' \in BOOLEAN /\ stopping' \subseteq Objects
        /\ deleted' \subseteq Ids /\ swept' \subseteq AppManaged /\ restarts' \in 0 .. MaxRestarts
    BY DEF TypeInv, TypeOK, DeletePurges, server, ghosts
  <2>6. sweep' \in [pc : {"off", "read", "list", "remove"}, dirs : SUBSET AppManaged,
                    target : AppManaged \cup {NoId}]
    BY DEF TypeInv, TypeOK, DeletePurges
  <2> QED
    BY <2>2, <2>3, <2>4, <2>5, <2>6 DEF TypeInv, TypeOK, Call, Pcs, Object
<1>19. ASSUME NEW c \in Callers, NEW o \in Objects, StartCreates(c, o) PROVE TypeInv'
  <2> USE <1>19
  <2>1. /\ op \in [Callers -> Call] /\ CallsOK
        /\ obj \in [Objects -> Object] /\ threads \in [Ids -> Objects \cup {NoObject}]
        /\ disk \in [Ids -> Statuses \cup {"none"}]
    BY DEF TypeInv, TypeOK, Call, Pcs, Object
  <2>2. op' \in [Callers -> Call] /\ CallsOK'
    BY Returns DEF StartCreates
  <2>3. obj' \in [Objects -> Object] /\ threads' \in [Ids -> Objects \cup {NoObject}]
    <3>1. op[c].id \in Ids /\ "idle" \in Statuses /\ Adopt(op[c].id, "idle", o)
      BY <2>1 DEF StartCreates, At, CallsOK, CallOK, Call, Statuses
    <3> QED
      BY <3>1, Adopts
  <2>4. disk' \in [Ids -> Statuses \cup {"none"}] /\ workspace' \in [AppManaged -> {"none", "made", "journal"}]
    BY DEF TypeInv, TypeOK, StartCreates, files, Statuses
  <2>5. /\ open' \in BOOLEAN /\ stopping' \subseteq Objects
        /\ deleted' \subseteq Ids /\ swept' \subseteq AppManaged /\ restarts' \in 0 .. MaxRestarts
    BY DEF TypeInv, TypeOK, StartCreates, server, ghosts
  <2>6. sweep' \in [pc : {"off", "read", "list", "remove"}, dirs : SUBSET AppManaged,
                    target : AppManaged \cup {NoId}]
    BY DEF TypeInv, TypeOK, StartCreates
  <2> QED
    BY <2>2, <2>3, <2>4, <2>5, <2>6 DEF TypeInv, TypeOK, Call, Pcs, Object
<1>20. ASSUME NEW c \in Callers, NEW o \in Objects, ResumeAdopts(c, o) PROVE TypeInv'
  <2> USE <1>20
  <2>1. /\ op \in [Callers -> Call] /\ CallsOK
        /\ obj \in [Objects -> Object] /\ threads \in [Ids -> Objects \cup {NoObject}]
        /\ disk \in [Ids -> Statuses \cup {"none"}]
    BY DEF TypeInv, TypeOK, Call, Pcs, Object
  <2>2. op' \in [Callers -> Call] /\ CallsOK'
    BY <2>1, ResumedGoes DEF ResumeAdopts, At, CallsOK, CallOK
  <2>3. obj' \in [Objects -> Object] /\ threads' \in [Ids -> Objects \cup {NoObject}]
    <3>1. op[c].id \in Ids /\ op[c].loaded \in Statuses /\ Adopt(op[c].id, op[c].loaded, o)
      BY <2>1 DEF ResumeAdopts, At, CallsOK, CallOK, Call, Statuses
    <3> QED
      BY <3>1, Adopts
  <2>4. disk' \in [Ids -> Statuses \cup {"none"}] /\ workspace' \in [AppManaged -> {"none", "made", "journal"}]
    BY DEF TypeInv, TypeOK, ResumeAdopts, files, Statuses
  <2>5. /\ open' \in BOOLEAN /\ stopping' \subseteq Objects
        /\ deleted' \subseteq Ids /\ swept' \subseteq AppManaged /\ restarts' \in 0 .. MaxRestarts
    BY DEF TypeInv, TypeOK, ResumeAdopts, server, ghosts
  <2>6. sweep' \in [pc : {"off", "read", "list", "remove"}, dirs : SUBSET AppManaged,
                    target : AppManaged \cup {NoId}]
    BY DEF TypeInv, TypeOK, ResumeAdopts
  <2> QED
    BY <2>2, <2>3, <2>4, <2>5, <2>6 DEF TypeInv, TypeOK, Call, Pcs, Object
<1>21. ASSUME NEW c \in Callers, NEW o \in Objects, ResumeCreates(c, o) PROVE TypeInv'
  <2> USE <1>21
  <2>1. /\ op \in [Callers -> Call] /\ CallsOK
        /\ obj \in [Objects -> Object] /\ threads \in [Ids -> Objects \cup {NoObject}]
        /\ disk \in [Ids -> Statuses \cup {"none"}]
    BY DEF TypeInv, TypeOK, Call, Pcs, Object
  <2>2. op' \in [Callers -> Call] /\ CallsOK'
    BY <2>1, ResumedGoes DEF ResumeCreates, At, CallsOK, CallOK
  <2>3. obj' \in [Objects -> Object] /\ threads' \in [Ids -> Objects \cup {NoObject}]
    <3>1. op[c].id \in Ids /\ "idle" \in Statuses /\ Adopt(op[c].id, "idle", o)
      BY <2>1 DEF ResumeCreates, At, CallsOK, CallOK, Call, Statuses
    <3> QED
      BY <3>1, Adopts
  <2>4. disk' \in [Ids -> Statuses \cup {"none"}] /\ workspace' \in [AppManaged -> {"none", "made", "journal"}]
    BY DEF TypeInv, TypeOK, ResumeCreates, files, Statuses
  <2>5. /\ open' \in BOOLEAN /\ stopping' \subseteq Objects
        /\ deleted' \subseteq Ids /\ swept' \subseteq AppManaged /\ restarts' \in 0 .. MaxRestarts
    BY DEF TypeInv, TypeOK, ResumeCreates, server, ghosts
  <2>6. sweep' \in [pc : {"off", "read", "list", "remove"}, dirs : SUBSET AppManaged,
                    target : AppManaged \cup {NoId}]
    BY DEF TypeInv, TypeOK, ResumeCreates
  <2> QED
    BY <2>2, <2>3, <2>4, <2>5, <2>6 DEF TypeInv, TypeOK, Call, Pcs, Object
<1>22. ASSUME NEW o \in Objects, ObjectSaves(o) PROVE TypeInv'
  <2> USE <1>22
  <2>1. /\ op \in [Callers -> Call] /\ CallsOK
        /\ obj \in [Objects -> Object] /\ threads \in [Ids -> Objects \cup {NoObject}]
        /\ disk \in [Ids -> Statuses \cup {"none"}]
    BY DEF TypeInv, TypeOK, Call, Pcs, Object
  <2>2. op' \in [Callers -> Call] /\ CallsOK'
    BY <2>1 DEF ObjectSaves, CallsOK
  <2>3. obj' \in [Objects -> Object] /\ threads' \in [Ids -> Objects \cup {NoObject}]
    <3> DEFINE x == [obj[o] EXCEPT !.dirty = FALSE, !.run = IF @ = "starting" THEN "running" ELSE @]
    <3>1. x \in Object
      BY <2>1 DEF Object, Statuses
    <3>2. obj' = [obj EXCEPT ![o] = x] /\ threads' = threads
      BY <2>1 DEF ObjectSaves, memory, Object
    <3> HIDE DEF x
    <3> QED
      BY <2>1, <3>1, <3>2
  <2>4. disk' \in [Ids -> Statuses \cup {"none"}] /\ workspace' \in [AppManaged -> {"none", "made", "journal"}]
    BY <2>1 DEF TypeInv, TypeOK, ObjectSaves, Object
  <2>5. /\ open' \in BOOLEAN /\ stopping' \subseteq Objects
        /\ deleted' \subseteq Ids /\ swept' \subseteq AppManaged /\ restarts' \in 0 .. MaxRestarts
    BY DEF TypeInv, TypeOK, ObjectSaves, server, ghosts
  <2>6. sweep' \in [pc : {"off", "read", "list", "remove"}, dirs : SUBSET AppManaged,
                    target : AppManaged \cup {NoId}]
    BY DEF TypeInv, TypeOK, ObjectSaves
  <2> QED
    BY <2>2, <2>3, <2>4, <2>5, <2>6 DEF TypeInv, TypeOK, Call, Pcs, Object
<1>23. ASSUME NEW o \in Objects, TurnJournals(o) PROVE TypeInv'
  <2> USE <1>23
  <2>1. /\ op \in [Callers -> Call] /\ CallsOK
        /\ obj \in [Objects -> Object] /\ threads \in [Ids -> Objects \cup {NoObject}]
        /\ disk \in [Ids -> Statuses \cup {"none"}]
    BY DEF TypeInv, TypeOK, Call, Pcs, Object
  <2>2. op' \in [Callers -> Call] /\ CallsOK'
    BY <2>1 DEF TurnJournals, CallsOK
  <2>3. obj' \in [Objects -> Object] /\ threads' \in [Ids -> Objects \cup {NoObject}]
    BY <2>1 DEF TurnJournals, memory, Object, Statuses
  <2>4. disk' \in [Ids -> Statuses \cup {"none"}] /\ workspace' \in [AppManaged -> {"none", "made", "journal"}]
    BY DEF TypeInv, TypeOK, TurnJournals, files, Statuses
  <2>5. /\ open' \in BOOLEAN /\ stopping' \subseteq Objects
        /\ deleted' \subseteq Ids /\ swept' \subseteq AppManaged /\ restarts' \in 0 .. MaxRestarts
    BY DEF TypeInv, TypeOK, TurnJournals, server, ghosts
  <2>6. sweep' \in [pc : {"off", "read", "list", "remove"}, dirs : SUBSET AppManaged,
                    target : AppManaged \cup {NoId}]
    BY DEF TypeInv, TypeOK, TurnJournals
  <2> QED
    BY <2>2, <2>3, <2>4, <2>5, <2>6 DEF TypeInv, TypeOK, Call, Pcs, Object
<1>24. ASSUME NEW o \in Objects, TurnFinishes(o) PROVE TypeInv'
  <2> USE <1>24
  <2>1. /\ op \in [Callers -> Call] /\ CallsOK
        /\ obj \in [Objects -> Object] /\ threads \in [Ids -> Objects \cup {NoObject}]
        /\ disk \in [Ids -> Statuses \cup {"none"}]
    BY DEF TypeInv, TypeOK, Call, Pcs, Object
  <2>2. op' \in [Callers -> Call] /\ CallsOK'
    BY <2>1 DEF TurnFinishes, CallsOK
  <2>3. obj' \in [Objects -> Object] /\ threads' \in [Ids -> Objects \cup {NoObject}]
    <3> DEFINE x == [obj[o] EXCEPT !.run = "none", !.status = "idle", !.dirty = TRUE]
    <3>1. x \in Object
      BY <2>1 DEF Object, Statuses
    <3>2. obj' = [obj EXCEPT ![o] = x] /\ threads' = threads
      BY <2>1 DEF TurnFinishes, memory, Object
    <3> HIDE DEF x
    <3> QED
      BY <2>1, <3>1, <3>2
  <2>4. disk' \in [Ids -> Statuses \cup {"none"}] /\ workspace' \in [AppManaged -> {"none", "made", "journal"}]
    BY DEF TypeInv, TypeOK, TurnFinishes, files, Statuses
  <2>5. /\ open' \in BOOLEAN /\ stopping' \subseteq Objects
        /\ deleted' \subseteq Ids /\ swept' \subseteq AppManaged /\ restarts' \in 0 .. MaxRestarts
    BY DEF TypeInv, TypeOK, TurnFinishes, server, ghosts
  <2>6. sweep' \in [pc : {"off", "read", "list", "remove"}, dirs : SUBSET AppManaged,
                    target : AppManaged \cup {NoId}]
    BY DEF TypeInv, TypeOK, TurnFinishes
  <2> QED
    BY <2>2, <2>3, <2>4, <2>5, <2>6 DEF TypeInv, TypeOK, Call, Pcs, Object
<1>25. ASSUME NEW o \in Objects, ShutdownCloses(o) PROVE TypeInv'
  <2> USE <1>25
  <2>1. /\ op \in [Callers -> Call] /\ CallsOK
        /\ obj \in [Objects -> Object] /\ threads \in [Ids -> Objects \cup {NoObject}]
        /\ disk \in [Ids -> Statuses \cup {"none"}]
    BY DEF TypeInv, TypeOK, Call, Pcs, Object
  <2>2. op' \in [Callers -> Call] /\ CallsOK'
    BY <2>1 DEF ShutdownCloses, CallsOK
  <2>3. obj' \in [Objects -> Object] /\ threads' \in [Ids -> Objects \cup {NoObject}]
    BY <2>1 DEF ShutdownCloses, memory, Object, Statuses
  <2>4. disk' \in [Ids -> Statuses \cup {"none"}] /\ workspace' \in [AppManaged -> {"none", "made", "journal"}]
    BY DEF TypeInv, TypeOK, ShutdownCloses, files, Statuses
  <2>5. /\ open' \in BOOLEAN /\ stopping' \subseteq Objects
        /\ deleted' \subseteq Ids /\ swept' \subseteq AppManaged /\ restarts' \in 0 .. MaxRestarts
    BY DEF TypeInv, TypeOK, ShutdownCloses, server, ghosts
  <2>6. sweep' \in [pc : {"off", "read", "list", "remove"}, dirs : SUBSET AppManaged,
                    target : AppManaged \cup {NoId}]
    BY DEF TypeInv, TypeOK, ShutdownCloses
  <2> QED
    BY <2>2, <2>3, <2>4, <2>5, <2>6 DEF TypeInv, TypeOK, Call, Pcs, Object
<1>26. ASSUME SweepReads PROVE TypeInv'
  <2> USE <1>26
  <2>1. /\ op \in [Callers -> Call] /\ CallsOK
        /\ obj \in [Objects -> Object] /\ threads \in [Ids -> Objects \cup {NoObject}]
        /\ disk \in [Ids -> Statuses \cup {"none"}]
    BY DEF TypeInv, TypeOK, Call, Pcs, Object
  <2>2. op' \in [Callers -> Call] /\ CallsOK'
    BY <2>1 DEF SweepReads, CallsOK
  <2>3. obj' \in [Objects -> Object] /\ threads' \in [Ids -> Objects \cup {NoObject}]
    BY <2>1 DEF SweepReads, memory, Object, Statuses
  <2>4. disk' \in [Ids -> Statuses \cup {"none"}] /\ workspace' \in [AppManaged -> {"none", "made", "journal"}]
    BY DEF TypeInv, TypeOK, SweepReads, files, Statuses
  <2>5. /\ open' \in BOOLEAN /\ stopping' \subseteq Objects
        /\ deleted' \subseteq Ids /\ swept' \subseteq AppManaged /\ restarts' \in 0 .. MaxRestarts
    BY DEF TypeInv, TypeOK, SweepReads, server, ghosts
  <2>6. sweep' \in [pc : {"off", "read", "list", "remove"}, dirs : SUBSET AppManaged,
                    target : AppManaged \cup {NoId}]
    BY DEF TypeInv, TypeOK, SweepReads, NoSweep, BootSweep
  <2> QED
    BY <2>2, <2>3, <2>4, <2>5, <2>6 DEF TypeInv, TypeOK, Call, Pcs, Object
<1>27. ASSUME SweepLists PROVE TypeInv'
  <2> USE <1>27
  <2>1. /\ op \in [Callers -> Call] /\ CallsOK
        /\ obj \in [Objects -> Object] /\ threads \in [Ids -> Objects \cup {NoObject}]
        /\ disk \in [Ids -> Statuses \cup {"none"}]
    BY DEF TypeInv, TypeOK, Call, Pcs, Object
  <2>2. op' \in [Callers -> Call] /\ CallsOK'
    BY <2>1 DEF SweepLists, CallsOK
  <2>3. obj' \in [Objects -> Object] /\ threads' \in [Ids -> Objects \cup {NoObject}]
    BY <2>1 DEF SweepLists, memory, Object, Statuses
  <2>4. disk' \in [Ids -> Statuses \cup {"none"}] /\ workspace' \in [AppManaged -> {"none", "made", "journal"}]
    BY DEF TypeInv, TypeOK, SweepLists, files, Statuses
  <2>5. /\ open' \in BOOLEAN /\ stopping' \subseteq Objects
        /\ deleted' \subseteq Ids /\ swept' \subseteq AppManaged /\ restarts' \in 0 .. MaxRestarts
    BY DEF TypeInv, TypeOK, SweepLists, server, ghosts
  <2>6. sweep' \in [pc : {"off", "read", "list", "remove"}, dirs : SUBSET AppManaged,
                    target : AppManaged \cup {NoId}]
    BY DEF TypeInv, TypeOK, SweepLists, NoSweep, BootSweep
  <2> QED
    BY <2>2, <2>3, <2>4, <2>5, <2>6 DEF TypeInv, TypeOK, Call, Pcs, Object
<1>28. ASSUME SweepRemoves PROVE TypeInv'
  <2> USE <1>28
  <2>1. /\ op \in [Callers -> Call] /\ CallsOK
        /\ obj \in [Objects -> Object] /\ threads \in [Ids -> Objects \cup {NoObject}]
        /\ disk \in [Ids -> Statuses \cup {"none"}]
    BY DEF TypeInv, TypeOK, Call, Pcs, Object
  <2>2. op' \in [Callers -> Call] /\ CallsOK'
    BY <2>1 DEF SweepRemoves, CallsOK
  <2>3. obj' \in [Objects -> Object] /\ threads' \in [Ids -> Objects \cup {NoObject}]
    BY <2>1 DEF SweepRemoves, memory, Object, Statuses
  <2>4. disk' \in [Ids -> Statuses \cup {"none"}] /\ workspace' \in [AppManaged -> {"none", "made", "journal"}]
    BY DEF TypeInv, TypeOK, SweepRemoves, files, Statuses
  <2>5. /\ open' \in BOOLEAN /\ stopping' \subseteq Objects
        /\ deleted' \subseteq Ids /\ swept' \subseteq AppManaged /\ restarts' \in 0 .. MaxRestarts
    BY DEF TypeInv, TypeOK, SweepRemoves, server, ghosts
  <2>6. sweep' \in [pc : {"off", "read", "list", "remove"}, dirs : SUBSET AppManaged,
                    target : AppManaged \cup {NoId}]
    BY DEF TypeInv, TypeOK, SweepRemoves, NoSweep, BootSweep
  <2> QED
    BY <2>2, <2>3, <2>4, <2>5, <2>6 DEF TypeInv, TypeOK, Call, Pcs, Object
<1>29. ASSUME Shutdown PROVE TypeInv'
  <2> USE <1>29
  <2>1. /\ op \in [Callers -> Call] /\ CallsOK
        /\ obj \in [Objects -> Object] /\ threads \in [Ids -> Objects \cup {NoObject}]
        /\ disk \in [Ids -> Statuses \cup {"none"}]
    BY DEF TypeInv, TypeOK, Call, Pcs, Object
  <2>2. op' \in [Callers -> Call] /\ CallsOK'
    BY <2>1 DEF Shutdown, CallsOK
  <2>3. obj' \in [Objects -> Object] /\ threads' \in [Ids -> Objects \cup {NoObject}]
    BY <2>1 DEF Shutdown, memory, Object, Statuses
  <2>4. disk' \in [Ids -> Statuses \cup {"none"}] /\ workspace' \in [AppManaged -> {"none", "made", "journal"}]
    BY DEF TypeInv, TypeOK, Shutdown, files, Statuses
  <2>5. /\ open' \in BOOLEAN /\ stopping' \subseteq Objects
        /\ deleted' \subseteq Ids /\ swept' \subseteq AppManaged /\ restarts' \in 0 .. MaxRestarts
    BY DEF TypeInv, TypeOK, Shutdown, server, ghosts
  <2>6. sweep' \in [pc : {"off", "read", "list", "remove"}, dirs : SUBSET AppManaged,
                    target : AppManaged \cup {NoId}]
    BY DEF TypeInv, TypeOK, Shutdown
  <2> QED
    BY <2>2, <2>3, <2>4, <2>5, <2>6 DEF TypeInv, TypeOK, Call, Pcs, Object
<1>30. ASSUME Restart PROVE TypeInv'
  <2> USE <1>30
  <2>1. /\ op \in [Callers -> Call] /\ CallsOK
        /\ obj \in [Objects -> Object] /\ threads \in [Ids -> Objects \cup {NoObject}]
        /\ disk \in [Ids -> Statuses \cup {"none"}]
    BY DEF TypeInv, TypeOK, Call, Pcs, Object
  <2>2. op' \in [Callers -> Call] /\ CallsOK'
    BY NoCallOK DEF Restart, CallsOK
  <2>3. obj' \in [Objects -> Object] /\ threads' \in [Ids -> Objects \cup {NoObject}]
    BY <2>1 DEF Restart, memory, Object, Statuses, Free
  <2>4. disk' \in [Ids -> Statuses \cup {"none"}] /\ workspace' \in [AppManaged -> {"none", "made", "journal"}]
    BY DEF TypeInv, TypeOK, Restart, files, Statuses
  <2>5. /\ open' \in BOOLEAN /\ stopping' \subseteq Objects
        /\ deleted' \subseteq Ids /\ swept' \subseteq AppManaged /\ restarts' \in 0 .. MaxRestarts
    BY RegistryAssumption DEF TypeInv, TypeOK, Restart, server, ghosts
  <2>6. sweep' \in [pc : {"off", "read", "list", "remove"}, dirs : SUBSET AppManaged,
                    target : AppManaged \cup {NoId}]
    BY DEF TypeInv, TypeOK, Restart, NoSweep, BootSweep
  <2> QED
    BY <2>2, <2>3, <2>4, <2>5, <2>6 DEF TypeInv, TypeOK, Call, Pcs, Object
<1>31. ASSUME NEW i \in AppManaged, SweepChecks(i) PROVE TypeInv'
  <2> USE <1>31
  <2>1. /\ op \in [Callers -> Call] /\ CallsOK
        /\ obj \in [Objects -> Object] /\ threads \in [Ids -> Objects \cup {NoObject}]
        /\ disk \in [Ids -> Statuses \cup {"none"}]
    BY DEF TypeInv, TypeOK, Call, Pcs, Object
  <2>2. op' \in [Callers -> Call] /\ CallsOK'
    BY <2>1 DEF SweepChecks, CallsOK
  <2>3. obj' \in [Objects -> Object] /\ threads' \in [Ids -> Objects \cup {NoObject}]
    BY <2>1 DEF SweepChecks, memory, Object, Statuses
  <2>4. disk' \in [Ids -> Statuses \cup {"none"}] /\ workspace' \in [AppManaged -> {"none", "made", "journal"}]
    BY DEF TypeInv, TypeOK, SweepChecks, files, Statuses
  <2>5. /\ open' \in BOOLEAN /\ stopping' \subseteq Objects
        /\ deleted' \subseteq Ids /\ swept' \subseteq AppManaged /\ restarts' \in 0 .. MaxRestarts
    BY DEF TypeInv, TypeOK, SweepChecks, server, ghosts
  <2>6. sweep' \in [pc : {"off", "read", "list", "remove"}, dirs : SUBSET AppManaged,
                    target : AppManaged \cup {NoId}]
    BY DEF TypeInv, TypeOK, SweepChecks, NoSweep, BootSweep
  <2> QED
    BY <2>2, <2>3, <2>4, <2>5, <2>6 DEF TypeInv, TypeOK, Call, Pcs, Object
<1>32. CASE UNCHANGED vars
  BY <1>32 DEF TypeInv, TypeOK, CallsOK, vars, files, memory, server, ghosts
<1> QED
  BY <1>1, <1>2, <1>3, <1>4, <1>5, <1>6, <1>7, <1>8, <1>9, <1>10, <1>11, <1>12, <1>13, <1>14, <1>15, <1>16, <1>17, <1>18, <1>19, <1>20, <1>21, <1>22, <1>23, <1>24, <1>25, <1>26, <1>27, <1>28, <1>29, <1>30, <1>31, <1>32 DEF Next, Step

LEMMA InitTyped == Init => TypeInv
BY NoCallOK, RegistryAssumption DEF Init, TypeInv, TypeOK, CallsOK, Call, Pcs, Statuses, Kinds, Free, NoSweep, BootSweep

(* The state of every call, object, file and sweep has its type, for any callers. *)
THEOREM TypeCorrect == Spec => []TypeOK
<1>1. Init => TypeInv
  BY InitTyped
<1>2. TypeInv /\ [Next]_vars => TypeInv'
  BY TypeStep
<1>3. TypeInv => TypeOK
  BY DEF TypeInv
<1> QED
  BY <1>1, <1>2, <1>3, PTL DEF Spec

-----------------------------------------------------------------------------
(* The registry. *)

LEMMA Shape ==
  ASSUME TypeInv
  PROVE  /\ op \in [Callers -> Call]
         /\ \A c \in Callers : op[c] \in Call
         /\ obj \in [Objects -> Object]
         /\ \A o \in Objects : obj[o].id \in Ids \cup {NoId}
         /\ threads \in [Ids -> Objects \cup {NoObject}]
         /\ disk \in [Ids -> Statuses \cup {"none"}]
         /\ workspace \in [AppManaged -> {"none", "made", "journal"}]
         /\ stopping \subseteq Objects
         /\ AppManaged \subseteq Ids /\ NoObject \notin Objects /\ NoId \notin Ids
BY RegistryAssumption DEF TypeInv, TypeOK, Call, Pcs, Object

LEMMA RegistryStep ==
  ASSUME OneAtATime, TypeInv, Registry, [Next]_vars
  PROVE  Registry'
<1> USE DEF Registry
<1>1. ASSUME NEW c \in Callers, NEW i \in Ids, CallStart(c, i) PROVE Registry'
  <2> USE <1>1
  <2>1. CallOK(op[c]) /\ op[c] \in Call /\ \A d \in Callers : d = c
    BY DEF TypeInv, TypeOK, CallsOK, OneAtATime, Call, Pcs
  <2>10. Named'
    BY Shape, <2>1 DEF CallStart, Named, files, memory, server, ghosts, At, CallOK, Return, Goto, NoCall
  <2>11. InUse'
    BY Shape, <2>1 DEF CallStart, InUse, Named, Known, Lost, files, memory, server, ghosts, At, CallOK, Return, Goto, NoCall
  <2>12. Held'
    BY Shape, <2>1 DEF CallStart, Held, InUse, Named, Known, Lost, files, memory, server, ghosts, At, CallOK, Return, Goto, NoCall
  <2>13. Backed'
    BY Shape, <2>1 DEF CallStart, Backed, Fresh, Named, InUse, Known, Lost, Usable, files, memory, server, ghosts, At, CallOK, Return, Goto, NoCall
  <2>14. Fresh'
    BY Shape, <2>1 DEF CallStart, Fresh, Backed, Named, InUse, Known, Lost, Usable, files, memory, server, ghosts, At, CallOK, Return, Goto, NoCall
  <2>15. LiveMatchesRecord'
    BY Shape, <2>1 DEF CallStart, LiveMatchesRecord, Named, InUse, Known, Fresh, Lost, files, memory, server, ghosts, At, CallOK, Return, Goto, NoCall
  <2> QED
    BY <2>10, <2>11, <2>12, <2>13, <2>14, <2>15 DEF Registry
<1>2. ASSUME NEW c \in Callers, NEW i \in Ids, CallDelete(c, i) PROVE Registry'
  <2> USE <1>2
  <2>1. CallOK(op[c]) /\ op[c] \in Call /\ \A d \in Callers : d = c
    BY DEF TypeInv, TypeOK, CallsOK, OneAtATime, Call, Pcs
  <2>10. Named'
    BY Shape, <2>1 DEF CallDelete, Named, files, memory, server, ghosts, At, CallOK, Return, Goto, NoCall
  <2>11. InUse'
    BY Shape, <2>1 DEF CallDelete, InUse, Named, Known, Lost, files, memory, server, ghosts, At, CallOK, Return, Goto, NoCall
  <2>12. Held'
    BY Shape, <2>1 DEF CallDelete, Held, InUse, Named, Known, Lost, files, memory, server, ghosts, At, CallOK, Return, Goto, NoCall
  <2>13. Backed'
    BY Shape, <2>1 DEF CallDelete, Backed, Fresh, Named, InUse, Known, Lost, Usable, files, memory, server, ghosts, At, CallOK, Return, Goto, NoCall
  <2>14. Fresh'
    BY Shape, <2>1 DEF CallDelete, Fresh, Backed, Named, InUse, Known, Lost, Usable, files, memory, server, ghosts, At, CallOK, Return, Goto, NoCall
  <2>15. LiveMatchesRecord'
    BY Shape, <2>1 DEF CallDelete, LiveMatchesRecord, Named, InUse, Known, Fresh, Lost, files, memory, server, ghosts, At, CallOK, Return, Goto, NoCall
  <2> QED
    BY <2>10, <2>11, <2>12, <2>13, <2>14, <2>15 DEF Registry
<1>3. ASSUME NEW c \in Callers, NEW i \in Ids, NEW kind \in {"resume", "turn", "close"}, CallResume(c, kind, i) PROVE Registry'
  <2> USE <1>3
  <2>1. CallOK(op[c]) /\ op[c] \in Call /\ \A d \in Callers : d = c
    BY DEF TypeInv, TypeOK, CallsOK, OneAtATime, Call, Pcs
  <2>2. /\ op'[c].pc \in {"load", "use"} /\ op'[c].id = i
        /\ op'[c].pc = "load" => threads[i] = NoObject
        /\ op'[c].pc = "use" => op'[c].object = threads[i] /\ threads[i] \in Objects
        /\ UNCHANGED <<disk, workspace, threads, obj, stopping, deleted, swept>>
        /\ op'[c].kind # "start"
    <3>1. UNCHANGED <<disk, workspace, threads, obj, stopping, deleted, swept>>
      BY DEF CallResume, files, memory, server, ghosts
    <3>2. CASE threads[i] # NoObject
      <4>1. op'[c] = [NoCall EXCEPT !.kind = kind, !.pc = "use", !.id = i, !.object = threads[i]]
        BY Shape, <3>2 DEF CallResume
      <4>2. op'[c].pc = "use" /\ op'[c].id = i /\ op'[c].object = threads[i] /\ op'[c].kind = kind
        BY <4>1 DEF NoCall
      <4> QED
        BY Shape, <3>1, <3>2, <4>2
    <3>3. CASE threads[i] = NoObject
      <4>1. op'[c] = [NoCall EXCEPT !.kind = kind, !.pc = "load", !.id = i]
        BY Shape, <3>3 DEF CallResume
      <4>2. op'[c].pc = "load" /\ op'[c].id = i /\ op'[c].kind = kind
        BY <4>1 DEF NoCall
      <4> QED
        BY <3>1, <3>3, <4>2
    <3> QED
      BY <3>2, <3>3
  <2>10. Named'
    BY Shape, <2>1, <2>2 DEF Named
  <2>11. InUse'
    BY Shape, <2>1, <2>2 DEF InUse, Known, Lost
  <2>12. Held'
    BY Shape, <2>1, <2>2 DEF Held, Named, Known, Lost
  <2>13. Backed'
    BY Shape, <2>1, <2>2 DEF Backed, Lost, Usable
  <2>14. Fresh'
    BY Shape, <2>1, <2>2 DEF Fresh, Lost, Usable
  <2>15. LiveMatchesRecord'
    BY Shape, <2>1, <2>2 DEF LiveMatchesRecord, Lost
  <2> QED
    BY <2>10, <2>11, <2>12, <2>13, <2>14, <2>15 DEF Registry
<1>4. ASSUME NEW c \in Callers, CallList(c) PROVE Registry'
  <2> USE <1>4
  <2>1. CallOK(op[c]) /\ op[c] \in Call /\ \A d \in Callers : d = c
    BY DEF TypeInv, TypeOK, CallsOK, OneAtATime, Call, Pcs
  <2>10. Named'
    BY Shape, <2>1 DEF CallList, Named, files, memory, server, ghosts, At, CallOK, Return, Goto, NoCall
  <2>11. InUse'
    BY Shape, <2>1 DEF CallList, InUse, Named, Known, Lost, files, memory, server, ghosts, At, CallOK, Return, Goto, NoCall
  <2>12. Held'
    BY Shape, <2>1 DEF CallList, Held, InUse, Named, Known, Lost, files, memory, server, ghosts, At, CallOK, Return, Goto, NoCall
  <2>13. Backed'
    BY Shape, <2>1 DEF CallList, Backed, Fresh, Named, InUse, Known, Lost, Usable, files, memory, server, ghosts, At, CallOK, Return, Goto, NoCall
  <2>14. Fresh'
    BY Shape, <2>1 DEF CallList, Fresh, Backed, Named, InUse, Known, Lost, Usable, files, memory, server, ghosts, At, CallOK, Return, Goto, NoCall
  <2>15. LiveMatchesRecord'
    BY Shape, <2>1 DEF CallList, LiveMatchesRecord, Named, InUse, Known, Fresh, Lost, files, memory, server, ghosts, At, CallOK, Return, Goto, NoCall
  <2> QED
    BY <2>10, <2>11, <2>12, <2>13, <2>14, <2>15 DEF Registry
<1>5. ASSUME NEW c \in Callers, StartLoads(c) PROVE Registry'
  <2> USE <1>5
  <2>1. CallOK(op[c]) /\ op[c] \in Call /\ \A d \in Callers : d = c
    BY DEF TypeInv, TypeOK, CallsOK, OneAtATime, Call, Pcs
  <2>2. /\ op[c].kind = "start" /\ op[c].pc = "load" /\ op[c].id \in Ids
        /\ op'[c].pc \in {"idle", "save"} /\ op'[c].id \in {NoId, op[c].id}
        /\ op'[c].pc = "save" => op'[c].id = op[c].id /\ threads[op[c].id] = NoObject
        /\ UNCHANGED <<disk, workspace, threads, obj, stopping, deleted, swept>>
    BY Shape, <2>1 DEF StartLoads, At, CallOK, Return, Goto, NoCall, files, memory, server, ghosts, Call
  <2>10. Named'
    BY Shape, <2>1, <2>2 DEF Named
  <2>11. InUse'
    BY Shape, <2>1, <2>2 DEF InUse, Known, Lost
  <2>12. Held'
    BY Shape, <2>1, <2>2 DEF Held, Named, Known, Lost
  <2>13. Backed'
    BY Shape, <2>1, <2>2 DEF Backed, Lost, Usable
  <2>14. Fresh'
    BY Shape, <2>1, <2>2 DEF Fresh, Lost, Usable
  <2>15. LiveMatchesRecord'
    BY Shape, <2>1, <2>2 DEF LiveMatchesRecord, Lost
  <2> QED
    BY <2>10, <2>11, <2>12, <2>13, <2>14, <2>15 DEF Registry
<1>6. ASSUME NEW c \in Callers, StartSaves(c) PROVE Registry'
  <2> USE <1>6
  <2>1. CallOK(op[c]) /\ op[c] \in Call /\ \A d \in Callers : d = c
    BY DEF TypeInv, TypeOK, CallsOK, OneAtATime, Call, Pcs
  <2>10. Named'
    BY Shape, <2>1 DEF StartSaves, Named, files, memory, server, ghosts, At, CallOK, Return, Goto, NoCall
  <2>11. InUse'
    BY Shape, <2>1 DEF StartSaves, InUse, Named, Known, Lost, files, memory, server, ghosts, At, CallOK, Return, Goto, NoCall
  <2>12. Held'
    BY Shape, <2>1 DEF StartSaves, Held, InUse, Named, Known, Lost, files, memory, server, ghosts, At, CallOK, Return, Goto, NoCall
  <2>13. Backed'
    BY Shape, <2>1 DEF StartSaves, Backed, Fresh, Named, InUse, Known, Lost, Usable, files, memory, server, ghosts, At, CallOK, Return, Goto, NoCall
  <2>14. Fresh'
    BY Shape, <2>1 DEF StartSaves, Fresh, Backed, Named, InUse, Known, Lost, Usable, files, memory, server, ghosts, At, CallOK, Return, Goto, NoCall
  <2>15. LiveMatchesRecord'
    BY Shape, <2>1 DEF StartSaves, LiveMatchesRecord, Named, InUse, Known, Fresh, Lost, files, memory, server, ghosts, At, CallOK, Return, Goto, NoCall
  <2> QED
    BY <2>10, <2>11, <2>12, <2>13, <2>14, <2>15 DEF Registry
<1>7. ASSUME NEW c \in Callers, ResumeLoads(c) PROVE Registry'
  <2> USE <1>7
  <2>1. CallOK(op[c]) /\ op[c] \in Call /\ \A d \in Callers : d = c
    BY DEF TypeInv, TypeOK, CallsOK, OneAtATime, Call, Pcs
  <2>2. /\ threads[op[c].id] = NoObject /\ op[c].id \in Ids
        /\ op'[c].pc \in {"idle", "stat"} /\ op'[c].kind # "start"
        /\ op'[c].pc = "stat" => op'[c].id = op[c].id /\ op'[c].loaded = disk[op[c].id]
        /\ UNCHANGED <<disk, workspace, threads, obj, stopping, deleted, swept>>
    BY Shape, <2>1 DEF ResumeLoads, At, CallOK, Return, NoCall, files, memory, server, ghosts, Call, Fresh
  <2>10. Named'
    BY Shape, <2>1, <2>2 DEF Named
  <2>11. InUse'
    BY Shape, <2>1, <2>2 DEF InUse, Known, Lost
  <2>12. Held'
    BY Shape, <2>1, <2>2 DEF Held, Named, Known, Lost
  <2>13. Backed'
    BY Shape, <2>1, <2>2 DEF Backed, Lost, Usable
  <2>14. Fresh'
    BY Shape, <2>1, <2>2 DEF Fresh, Lost, Usable
  <2>15. LiveMatchesRecord'
    BY Shape, <2>1, <2>2 DEF LiveMatchesRecord, Lost
  <2> QED
    BY <2>10, <2>11, <2>12, <2>13, <2>14, <2>15 DEF Registry
<1>8. ASSUME NEW c \in Callers, ResumeRefuses(c) PROVE Registry'
  <2> USE <1>8
  <2>1. CallOK(op[c]) /\ op[c] \in Call /\ \A d \in Callers : d = c
    BY DEF TypeInv, TypeOK, CallsOK, OneAtATime, Call, Pcs
  <2>2. /\ \A i \in Ids : threads'[i] = threads[i] \/ i \in Lost
        /\ UNCHANGED <<obj, stopping, deleted, swept>>
    BY Shape, <2>1 DEF ResumeRefuses, CallOK, Fresh, At, Lost, server, ghosts
  <2>10. Named'
    BY Shape, <2>1, <2>2 DEF ResumeRefuses, Named
  <2>11. InUse'
    BY Shape, <2>1, <2>2 DEF InUse, Known, Lost
  <2>12. Held'
    BY Shape, <2>1, <2>2 DEF ResumeRefuses, Held, InUse, Named, Known, Lost, files, memory, server, ghosts, At, CallOK, Return, Goto, NoCall
  <2>13. Backed'
    BY Shape, <2>1, <2>2 DEF ResumeRefuses, Backed, Fresh, Named, InUse, Known, Lost, Usable, files, memory, server, ghosts, At, CallOK, Return, Goto, NoCall
  <2>14. Fresh'
    BY Shape, <2>1, <2>2 DEF ResumeRefuses, Fresh, Backed, Named, InUse, Known, Lost, Usable, files, memory, server, ghosts, At, CallOK, Return, Goto, NoCall
  <2>15. LiveMatchesRecord'
    BY Shape, <2>1, <2>2 DEF ResumeRefuses, LiveMatchesRecord, Named, InUse, Known, Fresh, Lost, files, memory, server, ghosts, At, CallOK, Return, Goto, NoCall
  <2> QED
    BY <2>10, <2>11, <2>12, <2>13, <2>14, <2>15 DEF Registry
<1>9. ASSUME NEW c \in Callers, ResumeRepairs(c) PROVE Registry'
  <2> USE <1>9
  <2>1. CallOK(op[c]) /\ op[c] \in Call /\ \A d \in Callers : d = c
    BY DEF TypeInv, TypeOK, CallsOK, OneAtATime, Call, Pcs
  <2>10. Named'
    BY Shape, <2>1 DEF ResumeRepairs, Named, files, memory, server, ghosts, At, CallOK, Return, Goto, NoCall
  <2>11. InUse'
    BY Shape, <2>1 DEF ResumeRepairs, InUse, Named, Known, Lost, files, memory, server, ghosts, At, CallOK, Return, Goto, NoCall
  <2>12. Held'
    BY Shape, <2>1 DEF ResumeRepairs, Held, InUse, Named, Known, Lost, files, memory, server, ghosts, At, CallOK, Return, Goto, NoCall
  <2>13. Backed'
    BY Shape, <2>1 DEF ResumeRepairs, Backed, Fresh, Named, InUse, Known, Lost, Usable, files, memory, server, ghosts, At, CallOK, Return, Goto, NoCall
  <2>14. Fresh'
    BY Shape, <2>1 DEF ResumeRepairs, Fresh, Backed, Named, InUse, Known, Lost, Usable, files, memory, server, ghosts, At, CallOK, Return, Goto, NoCall
  <2>15. LiveMatchesRecord'
    BY Shape, <2>1 DEF ResumeRepairs, LiveMatchesRecord, Named, InUse, Known, Fresh, Lost, files, memory, server, ghosts, At, CallOK, Return, Goto, NoCall
  <2> QED
    BY <2>10, <2>11, <2>12, <2>13, <2>14, <2>15 DEF Registry
<1>10. ASSUME NEW c \in Callers, TurnStarts(c) PROVE Registry'
  <2> USE <1>10
  <2>1. CallOK(op[c]) /\ op[c] \in Call /\ \A d \in Callers : d = c
    BY DEF TypeInv, TypeOK, CallsOK, OneAtATime, Call, Pcs
  <2>2. /\ op[c].object \in Objects /\ Known(op[c].object)
        /\ \A p \in Objects : obj'[p].id = obj[p].id
        /\ \A p \in Objects : p # op[c].object => obj'[p] = obj[p]
        /\ obj' = obj \/ obj'[op[c].object].dirty = TRUE
        /\ op'[c].pc \in {"idle", "saving"}
        /\ op'[c].pc = "saving" => op'[c].object = op[c].object
        /\ UNCHANGED <<disk, workspace, threads, stopping, deleted, swept>>
    <3>1. op[c].object \in Objects /\ Known(op[c].object)
      BY Shape, <2>1 DEF TurnStarts, At, CallOK, Held
    <3>2. UNCHANGED <<disk, workspace, threads, stopping, deleted, swept>>
      BY DEF TurnStarts, files, server, ghosts
    <3>3. CASE Return(c) /\ UNCHANGED obj
      <4>1. op'[c] = NoCall
        BY Shape, <3>3 DEF Return
      <4>2. op'[c].pc = "idle"
        BY <4>1 DEF NoCall
      <4> QED
        BY <3>1, <3>2, <3>3, <4>2
    <3>4. CASE /\ obj' = [obj EXCEPT ![op[c].object].run = "starting", ![op[c].object].status = "running",
                                    ![op[c].object].dirty = TRUE]
               /\ Goto(c, "saving")
      <4>1. op'[c] = [op[c] EXCEPT !.pc = "saving"]
        BY Shape, <3>4 DEF Goto
      <4>2. op'[c].pc = "saving" /\ op'[c].object = op[c].object
        BY <2>1, <4>1 DEF Call
      <4> DEFINE x == [obj[op[c].object] EXCEPT !.run = "starting", !.status = "running", !.dirty = TRUE]
      <4>3. x.dirty = TRUE /\ x.id = obj[op[c].object].id
        BY Shape, <3>1 DEF Object
      <4>4. obj' = [obj EXCEPT ![op[c].object] = x]
        BY Shape, <3>1, <3>4
      <4> HIDE DEF x
      <4>5. \A p \in Objects : obj'[p] = IF p = op[c].object THEN x ELSE obj[p]
        BY Shape, <3>1, <4>4
      <4>6. obj'[op[c].object].dirty = TRUE
        BY <3>1, <4>3, <4>5
      <4>7. \A p \in Objects : obj'[p].id = obj[p].id
        BY <3>1, <4>3, <4>5
      <4> QED
        BY <3>1, <3>2, <4>2, <4>5, <4>6, <4>7
    <3> QED
      BY <3>3, <3>4 DEF TurnStarts
  <2>10. Named'
    BY Shape, <2>1, <2>2 DEF Named
  <2>11. InUse'
    BY Shape, <2>1, <2>2 DEF InUse, Known, Lost
  <2>12. Held'
    BY Shape, <2>1, <2>2 DEF Held, Known, Lost
  <2>13. Backed'
    BY Shape, <2>1, <2>2 DEF Backed, Lost, Usable
  <2>14. Fresh'
    BY Shape, <2>1, <2>2 DEF Fresh, Lost, Usable
  <2>15. LiveMatchesRecord'
    BY Shape, <2>1, <2>2 DEF LiveMatchesRecord, Lost, Named
  <2> QED
    BY <2>10, <2>11, <2>12, <2>13, <2>14, <2>15 DEF Registry
<1>11. ASSUME NEW c \in Callers, CloseWaits(c) PROVE Registry'
  <2> USE <1>11
  <2>1. CallOK(op[c]) /\ op[c] \in Call /\ \A d \in Callers : d = c
    BY DEF TypeInv, TypeOK, CallsOK, OneAtATime, Call, Pcs
  <2>2. /\ op[c].object \in Objects /\ Known(op[c].object)
        /\ op'[c].pc \in {"idle", "wait"}
        /\ op'[c].pc = "wait" => op'[c].object = op[c].object
        /\ UNCHANGED <<disk, workspace, threads, obj, stopping, deleted, swept>>
    BY Shape, <2>1 DEF CloseWaits, At, CallOK, Return, Goto, NoCall, files, memory, server, ghosts, Call, Held
  <2>10. Named'
    BY Shape, <2>1, <2>2 DEF Named
  <2>11. InUse'
    BY Shape, <2>1, <2>2 DEF InUse, Known, Lost
  <2>12. Held'
    BY Shape, <2>1, <2>2 DEF Held, Named, Known, Lost
  <2>13. Backed'
    BY Shape, <2>1, <2>2 DEF Backed, Lost, Usable
  <2>14. Fresh'
    BY Shape, <2>1, <2>2 DEF Fresh, Lost, Usable
  <2>15. LiveMatchesRecord'
    BY Shape, <2>1, <2>2 DEF LiveMatchesRecord, Lost
  <2> QED
    BY <2>10, <2>11, <2>12, <2>13, <2>14, <2>15 DEF Registry
<1>12. ASSUME NEW c \in Callers, CloseSets(c) PROVE Registry'
  <2> USE <1>12
  <2>1. CallOK(op[c]) /\ op[c] \in Call /\ \A d \in Callers : d = c
    BY DEF TypeInv, TypeOK, CallsOK, OneAtATime, Call, Pcs
  <2>2. op[c].object \in Objects /\ Known(op[c].object) /\ \A p \in Objects : obj'[p].id = obj[p].id
    BY Shape, <2>1 DEF CloseSets, At, CallOK, Held, Object
  <2>10. Named'
    BY Shape, <2>1, <2>2 DEF CloseSets, Named, files, memory, server, ghosts, At, CallOK, Return, Goto, NoCall
  <2>11. InUse'
    BY Shape, <2>1, <2>2 DEF CloseSets, InUse, Known, Lost, server, ghosts, Object
  <2>12. Held'
    BY Shape, <2>1, <2>2 DEF CloseSets, Held, InUse, Named, Known, Lost, files, memory, server, ghosts, At, CallOK, Return, Goto, NoCall
  <2>13. Backed'
    BY Shape, <2>1, <2>2 DEF CloseSets, Backed, Fresh, Named, InUse, Known, Lost, Usable, files, memory, server, ghosts, At, CallOK, Return, Goto, NoCall
  <2>14. Fresh'
    BY Shape, <2>1, <2>2 DEF CloseSets, Fresh, Backed, Named, InUse, Known, Lost, Usable, files, memory, server, ghosts, At, CallOK, Return, Goto, NoCall
  <2>15. LiveMatchesRecord'
    BY Shape, <2>1, <2>2 DEF CloseSets, LiveMatchesRecord, Named, InUse, Known, Fresh, Lost, files, memory, server, ghosts, At, CallOK, Return, Goto, NoCall
  <2> QED
    BY <2>10, <2>11, <2>12, <2>13, <2>14, <2>15 DEF Registry
<1>13. ASSUME NEW c \in Callers, CallSaved(c) PROVE Registry'
  <2> USE <1>13
  <2>1. CallOK(op[c]) /\ op[c] \in Call /\ \A d \in Callers : d = c
    BY DEF TypeInv, TypeOK, CallsOK, OneAtATime, Call, Pcs
  <2>10. Named'
    BY Shape, <2>1 DEF CallSaved, Named, files, memory, server, ghosts, At, CallOK, Return, Goto, NoCall
  <2>11. InUse'
    BY Shape, <2>1 DEF CallSaved, InUse, Named, Known, Lost, files, memory, server, ghosts, At, CallOK, Return, Goto, NoCall
  <2>12. Held'
    BY Shape, <2>1 DEF CallSaved, Held, InUse, Named, Known, Lost, files, memory, server, ghosts, At, CallOK, Return, Goto, NoCall
  <2>13. Backed'
    BY Shape, <2>1 DEF CallSaved, Backed, Fresh, Named, InUse, Known, Lost, Usable, files, memory, server, ghosts, At, CallOK, Return, Goto, NoCall
  <2>14. Fresh'
    BY Shape, <2>1 DEF CallSaved, Fresh, Backed, Named, InUse, Known, Lost, Usable, files, memory, server, ghosts, At, CallOK, Return, Goto, NoCall
  <2>15. LiveMatchesRecord'
    BY Shape, <2>1 DEF CallSaved, LiveMatchesRecord, Named, InUse, Known, Fresh, Lost, files, memory, server, ghosts, At, CallOK, Return, Goto, NoCall
  <2> QED
    BY <2>10, <2>11, <2>12, <2>13, <2>14, <2>15 DEF Registry
<1>14. ASSUME NEW c \in Callers, ListPrunes(c) PROVE Registry'
  <2> USE <1>14
  <2>1. CallOK(op[c]) /\ op[c] \in Call /\ \A d \in Callers : d = c
    BY DEF TypeInv, TypeOK, CallsOK, OneAtATime, Call, Pcs
  <2>2. /\ \A i \in Ids : threads'[i] = threads[i] \/ i \in Lost
        /\ UNCHANGED <<obj, stopping, deleted, swept>>
    BY Shape, <2>1 DEF ListPrunes, Fresh, At, Lost, server, ghosts
  <2>10. Named'
    BY Shape, <2>1, <2>2 DEF ListPrunes, Named
  <2>11. InUse'
    BY Shape, <2>1, <2>2 DEF InUse, Known, Lost
  <2>12. Held'
    BY Shape, <2>1, <2>2 DEF ListPrunes, Held, InUse, Named, Known, Lost, files, memory, server, ghosts, At, CallOK, Return, Goto, NoCall
  <2>13. Backed'
    BY Shape, <2>1, <2>2 DEF ListPrunes, Backed, Fresh, Named, InUse, Known, Lost, Usable, files, memory, server, ghosts, At, CallOK, Return, Goto, NoCall
  <2>14. Fresh'
    BY Shape, <2>1, <2>2 DEF ListPrunes, Fresh, Backed, Named, InUse, Known, Lost, Usable, files, memory, server, ghosts, At, CallOK, Return, Goto, NoCall
  <2>15. LiveMatchesRecord'
    BY Shape, <2>1, <2>2 DEF ListPrunes, LiveMatchesRecord, Named, InUse, Known, Fresh, Lost, files, memory, server, ghosts, At, CallOK, Return, Goto, NoCall
  <2> QED
    BY <2>10, <2>11, <2>12, <2>13, <2>14, <2>15 DEF Registry
<1>15. ASSUME NEW c \in Callers, ListChecks(c) PROVE Registry'
  <2> USE <1>15
  <2>1. CallOK(op[c]) /\ op[c] \in Call /\ \A d \in Callers : d = c
    BY DEF TypeInv, TypeOK, CallsOK, OneAtATime, Call, Pcs
  <2>2. /\ \A i \in Ids : threads'[i] = threads[i] \/ i \in Lost
        /\ UNCHANGED <<obj, stopping, deleted, swept>>
    BY Shape, <2>1 DEF ListChecks, Backed, At, Lost, server, ghosts
  <2>10. Named'
    BY Shape, <2>1, <2>2 DEF ListChecks, Named
  <2>11. InUse'
    BY Shape, <2>1, <2>2 DEF InUse, Known, Lost
  <2>12. Held'
    BY Shape, <2>1, <2>2 DEF ListChecks, Held, InUse, Named, Known, Lost, files, memory, server, ghosts, At, CallOK, Return, Goto, NoCall
  <2>13. Backed'
    BY Shape, <2>1, <2>2 DEF ListChecks, Backed, Fresh, Named, InUse, Known, Lost, Usable, files, memory, server, ghosts, At, CallOK, Return, Goto, NoCall
  <2>14. Fresh'
    BY Shape, <2>1, <2>2 DEF ListChecks, Fresh, Backed, Named, InUse, Known, Lost, Usable, files, memory, server, ghosts, At, CallOK, Return, Goto, NoCall
  <2>15. LiveMatchesRecord'
    BY Shape, <2>1, <2>2 DEF ListChecks, LiveMatchesRecord, Named, InUse, Known, Fresh, Lost, files, memory, server, ghosts, At, CallOK, Return, Goto, NoCall
  <2> QED
    BY <2>10, <2>11, <2>12, <2>13, <2>14, <2>15 DEF Registry
<1>16. ASSUME NEW c \in Callers, DeleteRemoves(c) PROVE Registry'
  <2> USE <1>16
  <2>1. CallOK(op[c]) /\ op[c] \in Call /\ \A d \in Callers : d = c
    BY DEF TypeInv, TypeOK, CallsOK, OneAtATime, Call, Pcs
  <2>10. Named'
    BY Shape, <2>1 DEF DeleteRemoves, Named, files, memory, server, ghosts, At, CallOK, Return, Goto, NoCall
  <2>11. InUse'
    BY Shape, <2>1 DEF DeleteRemoves, InUse, Named, Known, Lost, files, memory, server, ghosts, At, CallOK, Return, Goto, NoCall
  <2>12. Held'
    BY Shape, <2>1 DEF DeleteRemoves, Held, InUse, Named, Known, Lost, files, memory, server, ghosts, At, CallOK, Return, Goto, NoCall
  <2>13. Backed'
    BY Shape, <2>1 DEF DeleteRemoves, Backed, Fresh, Named, InUse, Known, Lost, Usable, files, memory, server, ghosts, At, CallOK, Return, Goto, NoCall
  <2>14. Fresh'
    BY Shape, <2>1 DEF DeleteRemoves, Fresh, Backed, Named, InUse, Known, Lost, Usable, files, memory, server, ghosts, At, CallOK, Return, Goto, NoCall
  <2>15. LiveMatchesRecord'
    BY Shape, <2>1 DEF DeleteRemoves, LiveMatchesRecord, Named, InUse, Known, Fresh, Lost, files, memory, server, ghosts, At, CallOK, Return, Goto, NoCall
  <2> QED
    BY <2>10, <2>11, <2>12, <2>13, <2>14, <2>15 DEF Registry
<1>17. ASSUME NEW c \in Callers, DeleteForgets(c) PROVE Registry'
  <2> USE <1>17
  <2>1. CallOK(op[c]) /\ op[c] \in Call /\ \A d \in Callers : d = c
    BY DEF TypeInv, TypeOK, CallsOK, OneAtATime, Call, Pcs
  <2>2. /\ \A i \in Ids : threads'[i] = threads[i] \/ i \in Lost
        /\ UNCHANGED <<obj, stopping, deleted, swept>>
    BY Shape, <2>1 DEF DeleteForgets, CallOK, Fresh, At, Lost, server, ghosts
  <2>10. Named'
    BY Shape, <2>1, <2>2 DEF DeleteForgets, Named
  <2>11. InUse'
    BY Shape, <2>1, <2>2 DEF InUse, Known, Lost
  <2>12. Held'
    BY Shape, <2>1, <2>2 DEF DeleteForgets, Held, InUse, Named, Known, Lost, files, memory, server, ghosts, At, CallOK, Return, Goto, NoCall
  <2>13. Backed'
    BY Shape, <2>1, <2>2 DEF DeleteForgets, Backed, Fresh, Named, InUse, Known, Lost, Usable, files, memory, server, ghosts, At, CallOK, Return, Goto, NoCall
  <2>14. Fresh'
    BY Shape, <2>1, <2>2 DEF DeleteForgets, Fresh, Backed, Named, InUse, Known, Lost, Usable, files, memory, server, ghosts, At, CallOK, Return, Goto, NoCall
  <2>15. LiveMatchesRecord'
    BY Shape, <2>1, <2>2 DEF DeleteForgets, LiveMatchesRecord, Named, InUse, Known, Fresh, Lost, files, memory, server, ghosts, At, CallOK, Return, Goto, NoCall
  <2> QED
    BY <2>10, <2>11, <2>12, <2>13, <2>14, <2>15 DEF Registry
<1>18. ASSUME NEW c \in Callers, DeletePurges(c) PROVE Registry'
  <2> USE <1>18
  <2>1. CallOK(op[c]) /\ op[c] \in Call /\ \A d \in Callers : d = c
    BY DEF TypeInv, TypeOK, CallsOK, OneAtATime, Call, Pcs
  <2>10. Named'
    BY Shape, <2>1 DEF DeletePurges, Named, files, memory, server, ghosts, At, CallOK, Return, Goto, NoCall
  <2>11. InUse'
    BY Shape, <2>1 DEF DeletePurges, InUse, Named, Known, Lost, files, memory, server, ghosts, At, CallOK, Return, Goto, NoCall
  <2>12. Held'
    BY Shape, <2>1 DEF DeletePurges, Held, InUse, Named, Known, Lost, files, memory, server, ghosts, At, CallOK, Return, Goto, NoCall
  <2>13. Backed'
    BY Shape, <2>1 DEF DeletePurges, Backed, Fresh, Named, InUse, Known, Lost, Usable, files, memory, server, ghosts, At, CallOK, Return, Goto, NoCall
  <2>14. Fresh'
    BY Shape, <2>1 DEF DeletePurges, Fresh, Backed, Named, InUse, Known, Lost, Usable, files, memory, server, ghosts, At, CallOK, Return, Goto, NoCall
  <2>15. LiveMatchesRecord'
    BY Shape, <2>1 DEF DeletePurges, LiveMatchesRecord, Named, InUse, Known, Fresh, Lost, files, memory, server, ghosts, At, CallOK, Return, Goto, NoCall
  <2> QED
    BY <2>10, <2>11, <2>12, <2>13, <2>14, <2>15 DEF Registry
<1>19. ASSUME NEW c \in Callers, NEW o \in Objects, StartCreates(c, o) PROVE Registry'
  <2> USE <1>19
  <2>1. CallOK(op[c]) /\ op[c] \in Call /\ \A d \in Callers : d = c
    BY DEF TypeInv, TypeOK, CallsOK, OneAtATime, Call, Pcs
  <2>2. /\ op[c].id \in Ids /\ threads[op[c].id] = NoObject
        /\ threads' = [threads EXCEPT ![op[c].id] = o]
        /\ obj'[o].id = op[c].id /\ obj'[o].run = "none" /\ ~obj'[o].dirty /\ obj[o] = Free
        /\ \A p \in Objects \ {o} : obj'[p] = obj[p]
        /\ UNCHANGED <<stopping, deleted, swept, disk, workspace>>
    BY Shape, <2>1 DEF StartCreates, Adopt, At, CallOK, Fresh, Free, NoCall, Return, Call, Object, files, server, ghosts
  <2>10. Named'
    BY Shape, <2>1, <2>2 DEF Named, Free
  <2>11. InUse'
    <3>1. o \notin stopping
      BY Shape, <2>2 DEF Free, InUse, Known
    <3>2. ASSUME NEW p \in Objects \ {o}, Known(p) PROVE Known(p)'
      BY Shape, <2>2, <3>2 DEF Known, Lost
    <3> QED
      BY Shape, <2>2, <3>1, <3>2 DEF InUse
  <2>12. Held'
    BY Shape, <2>1, <2>2 DEF StartCreates, Held, InUse, Named, Known, Lost, files, memory, server, ghosts, At, CallOK, Return, Goto, NoCall, Adopt, Resumed, Free
  <2>13. Backed'
    BY Shape, <2>1, <2>2 DEF StartCreates, Backed, Fresh, Named, InUse, Known, Lost, Usable, files, memory, server, ghosts, At, CallOK, Return, Goto, NoCall, Adopt, Resumed, Free
  <2>14. Fresh'
    BY Shape, <2>1, <2>2 DEF StartCreates, Fresh, Backed, Named, InUse, Known, Lost, Usable, files, memory, server, ghosts, At, CallOK, Return, Goto, NoCall, Adopt, Resumed, Free
  <2>15. LiveMatchesRecord'
    BY Shape, <2>1, <2>2 DEF StartCreates, LiveMatchesRecord, Named, InUse, Known, Fresh, Lost, files, memory, server, ghosts, At, CallOK, Return, Goto, NoCall, Adopt, Resumed, Free
  <2> QED
    BY <2>10, <2>11, <2>12, <2>13, <2>14, <2>15 DEF Registry
<1>20. ASSUME NEW c \in Callers, NEW o \in Objects, ResumeAdopts(c, o) PROVE Registry'
  <2> USE <1>20
  <2>1. CallOK(op[c]) /\ op[c] \in Call /\ \A d \in Callers : d = c
    BY DEF TypeInv, TypeOK, CallsOK, OneAtATime, Call, Pcs
  <2>2. /\ op[c].id \in Ids /\ threads[op[c].id] = NoObject
        /\ threads' = [threads EXCEPT ![op[c].id] = o]
        /\ obj'[o].id = op[c].id /\ obj'[o].run = "none" /\ ~obj'[o].dirty /\ obj[o] = Free
        /\ \A p \in Objects \ {o} : obj'[p] = obj[p]
        /\ UNCHANGED <<stopping, deleted, swept, disk, workspace>>
        /\ op'[c].pc \in {"idle", "use"} /\ op'[c].object \in {NoObject, o}
        /\ op'[c].pc = "use" => op'[c].object = o
    BY Shape, <2>1 DEF ResumeAdopts, Adopt, Resumed, At, CallOK, Fresh, Free, NoCall, Return, Call, Object, files, server, ghosts
  <2>10. Named'
    BY Shape, <2>1, <2>2 DEF Named, Free
  <2>11. InUse'
    <3>1. o \notin stopping
      BY Shape, <2>2 DEF Free, InUse, Known
    <3>2. ASSUME NEW p \in Objects \ {o}, Known(p) PROVE Known(p)'
      BY Shape, <2>2, <3>2 DEF Known, Lost
    <3> QED
      BY Shape, <2>2, <3>1, <3>2 DEF InUse
  <2>12. Held'
    BY Shape, <2>1, <2>2 DEF Held, Known, Lost
  <2>13. Backed'
    BY Shape, <2>1, <2>2 DEF ResumeAdopts, Backed, Fresh, Named, InUse, Known, Lost, Usable, files, memory, server, ghosts, At, CallOK, Return, Goto, NoCall, Adopt, Resumed, Free
  <2>14. Fresh'
    BY Shape, <2>1, <2>2 DEF Fresh
  <2>15. LiveMatchesRecord'
    BY Shape, <2>1, <2>2 DEF ResumeAdopts, LiveMatchesRecord, Named, InUse, Known, Fresh, Lost, files, memory, server, ghosts, At, CallOK, Return, Goto, NoCall, Adopt, Resumed, Free
  <2> QED
    BY <2>10, <2>11, <2>12, <2>13, <2>14, <2>15 DEF Registry
<1>21. ASSUME NEW c \in Callers, NEW o \in Objects, ResumeCreates(c, o) PROVE Registry'
  <2> USE <1>21
  <2>1. CallOK(op[c]) /\ op[c] \in Call /\ \A d \in Callers : d = c
    BY DEF TypeInv, TypeOK, CallsOK, OneAtATime, Call, Pcs
  <2>2. /\ op[c].id \in Ids /\ threads[op[c].id] = NoObject
        /\ threads' = [threads EXCEPT ![op[c].id] = o]
        /\ obj'[o].id = op[c].id /\ obj'[o].run = "none" /\ ~obj'[o].dirty /\ obj[o] = Free
        /\ \A p \in Objects \ {o} : obj'[p] = obj[p]
        /\ UNCHANGED <<stopping, deleted, swept, disk, workspace>>
        /\ op'[c].pc \in {"idle", "use"} /\ op'[c].object \in {NoObject, o}
        /\ op'[c].pc = "use" => op'[c].object = o
    BY Shape, <2>1 DEF ResumeCreates, Adopt, Resumed, At, CallOK, Fresh, Free, NoCall, Return, Call, Object, files, server, ghosts
  <2>10. Named'
    BY Shape, <2>1, <2>2 DEF Named, Free
  <2>11. InUse'
    <3>1. o \notin stopping
      BY Shape, <2>2 DEF Free, InUse, Known
    <3>2. ASSUME NEW p \in Objects \ {o}, Known(p) PROVE Known(p)'
      BY Shape, <2>2, <3>2 DEF Known, Lost
    <3> QED
      BY Shape, <2>2, <3>1, <3>2 DEF InUse
  <2>12. Held'
    BY Shape, <2>1, <2>2 DEF Held, Known, Lost
  <2>13. Backed'
    BY Shape, <2>1, <2>2 DEF ResumeCreates, Backed, Fresh, Named, InUse, Known, Lost, Usable, files, memory, server, ghosts, At, CallOK, Return, Goto, NoCall, Adopt, Resumed, Free
  <2>14. Fresh'
    BY Shape, <2>1, <2>2 DEF Fresh
  <2>15. LiveMatchesRecord'
    BY Shape, <2>1, <2>2 DEF ResumeCreates, LiveMatchesRecord, Named, InUse, Known, Fresh, Lost, files, memory, server, ghosts, At, CallOK, Return, Goto, NoCall, Adopt, Resumed, Free
  <2> QED
    BY <2>10, <2>11, <2>12, <2>13, <2>14, <2>15 DEF Registry
<1>22. ASSUME NEW o \in Objects, ObjectSaves(o) PROVE Registry'
  <2> USE <1>22
  <2>2. /\ \A p \in Objects : obj'[p].id = obj[p].id
        /\ \A d \in Callers : op[d].pc \in {"use", "wait", "saving"} => op[d].object \in Objects
    BY Shape DEF ObjectSaves, TypeInv, CallsOK, CallOK, Object
  <2>10. Named'
    BY Shape, <2>2 DEF ObjectSaves, Named, files, memory, server, ghosts
  <2>11. InUse'
    BY Shape, <2>2 DEF ObjectSaves, InUse, Named, Known, Lost, files, memory, server, ghosts
  <2>12. Held'
    BY Shape, <2>2 DEF ObjectSaves, Held, Known, Lost, memory, server, ghosts
  <2>13. Backed'
    <3>1. \A i \in Ids : disk'[i] = disk[i] \/ disk'[i] # "none"
      BY Shape DEF ObjectSaves, Object, Statuses
    <3> QED
      BY <3>1 DEF ObjectSaves, Backed, Lost, Usable, server, ghosts
  <2>14. Fresh'
    BY Shape, <2>2 DEF ObjectSaves, Fresh, Backed, Named, InUse, Known, Lost, Usable, files, memory, server, ghosts
  <2>15. LiveMatchesRecord'
    BY Shape, <2>2 DEF ObjectSaves, LiveMatchesRecord, Named, InUse, Known, Fresh, Lost, files, memory, server, ghosts
  <2> QED
    BY <2>10, <2>11, <2>12, <2>13, <2>14, <2>15 DEF Registry
<1>23. ASSUME NEW o \in Objects, TurnJournals(o) PROVE Registry'
  <2> USE <1>23
  <2>10. Named'
    BY Shape DEF TurnJournals, Named, files, memory, server, ghosts
  <2>11. InUse'
    BY Shape DEF TurnJournals, InUse, Named, Known, Lost, files, memory, server, ghosts
  <2>12. Held'
    BY Shape DEF TurnJournals, Held, InUse, Named, Known, Lost, files, memory, server, ghosts
  <2>13. Backed'
    BY Shape DEF TurnJournals, Backed, Fresh, Named, InUse, Known, Lost, Usable, files, memory, server, ghosts
  <2>14. Fresh'
    BY Shape DEF TurnJournals, Fresh, Backed, Named, InUse, Known, Lost, Usable, files, memory, server, ghosts
  <2>15. LiveMatchesRecord'
    BY Shape DEF TurnJournals, LiveMatchesRecord, Named, InUse, Known, Fresh, Lost, files, memory, server, ghosts
  <2> QED
    BY <2>10, <2>11, <2>12, <2>13, <2>14, <2>15 DEF Registry
<1>24. ASSUME NEW o \in Objects, TurnFinishes(o) PROVE Registry'
  <2> USE <1>24
  <2>2. /\ \A p \in Objects : obj'[p].id = obj[p].id
        /\ \A d \in Callers : op[d].pc \in {"use", "wait", "saving"} => op[d].object \in Objects
    BY Shape DEF TurnFinishes, TypeInv, CallsOK, CallOK, Object
  <2>10. Named'
    BY Shape, <2>2 DEF TurnFinishes, Named, files, memory, server, ghosts
  <2>11. InUse'
    BY Shape, <2>2 DEF TurnFinishes, InUse, Named, Known, Lost, files, memory, server, ghosts
  <2>12. Held'
    BY Shape, <2>2 DEF TurnFinishes, Held, Known, Lost, memory, server, ghosts
  <2>13. Backed'
    BY Shape, <2>2 DEF TurnFinishes, Backed, Fresh, Named, InUse, Known, Lost, Usable, files, memory, server, ghosts
  <2>14. Fresh'
    BY Shape, <2>2 DEF TurnFinishes, Fresh, Backed, Named, InUse, Known, Lost, Usable, files, memory, server, ghosts
  <2>15. LiveMatchesRecord'
    BY Shape, <2>2 DEF TurnFinishes, LiveMatchesRecord, Named, InUse, Known, Fresh, Lost, files, memory, server, ghosts
  <2> QED
    BY <2>10, <2>11, <2>12, <2>13, <2>14, <2>15 DEF Registry
<1>25. ASSUME NEW o \in Objects, ShutdownCloses(o) PROVE Registry'
  <2> USE <1>25
  <2>2. /\ \A p \in Objects : obj'[p].id = obj[p].id
        /\ \A d \in Callers : op[d].pc \in {"use", "wait", "saving"} => op[d].object \in Objects
    BY Shape DEF ShutdownCloses, TypeInv, CallsOK, CallOK, Object
  <2>10. Named'
    BY Shape, <2>2 DEF ShutdownCloses, Named, files, memory, server, ghosts
  <2>11. InUse'
    BY Shape, <2>2 DEF ShutdownCloses, InUse, Named, Known, Lost, files, memory, server, ghosts
  <2>12. Held'
    BY Shape, <2>2 DEF ShutdownCloses, Held, Known, Lost, memory, server, ghosts
  <2>13. Backed'
    BY Shape, <2>2 DEF ShutdownCloses, Backed, Fresh, Named, InUse, Known, Lost, Usable, files, memory, server, ghosts
  <2>14. Fresh'
    BY Shape, <2>2 DEF ShutdownCloses, Fresh, Backed, Named, InUse, Known, Lost, Usable, files, memory, server, ghosts
  <2>15. LiveMatchesRecord'
    BY Shape, <2>2 DEF ShutdownCloses, LiveMatchesRecord, Named, InUse, Known, Fresh, Lost, files, memory, server, ghosts
  <2> QED
    BY <2>10, <2>11, <2>12, <2>13, <2>14, <2>15 DEF Registry
<1>26. ASSUME SweepReads PROVE Registry'
  <2> USE <1>26
  <2>10. Named'
    BY Shape DEF SweepReads, Named, files, memory, server, ghosts
  <2>11. InUse'
    BY Shape DEF SweepReads, InUse, Named, Known, Lost, files, memory, server, ghosts
  <2>12. Held'
    BY Shape DEF SweepReads, Held, InUse, Named, Known, Lost, files, memory, server, ghosts
  <2>13. Backed'
    BY Shape DEF SweepReads, Backed, Fresh, Named, InUse, Known, Lost, Usable, files, memory, server, ghosts
  <2>14. Fresh'
    BY Shape DEF SweepReads, Fresh, Backed, Named, InUse, Known, Lost, Usable, files, memory, server, ghosts
  <2>15. LiveMatchesRecord'
    BY Shape DEF SweepReads, LiveMatchesRecord, Named, InUse, Known, Fresh, Lost, files, memory, server, ghosts
  <2> QED
    BY <2>10, <2>11, <2>12, <2>13, <2>14, <2>15 DEF Registry
<1>27. ASSUME SweepLists PROVE Registry'
  <2> USE <1>27
  <2>10. Named'
    BY Shape DEF SweepLists, Named, files, memory, server, ghosts
  <2>11. InUse'
    BY Shape DEF SweepLists, InUse, Named, Known, Lost, files, memory, server, ghosts
  <2>12. Held'
    BY Shape DEF SweepLists, Held, InUse, Named, Known, Lost, files, memory, server, ghosts
  <2>13. Backed'
    BY Shape DEF SweepLists, Backed, Fresh, Named, InUse, Known, Lost, Usable, files, memory, server, ghosts
  <2>14. Fresh'
    BY Shape DEF SweepLists, Fresh, Backed, Named, InUse, Known, Lost, Usable, files, memory, server, ghosts
  <2>15. LiveMatchesRecord'
    BY Shape DEF SweepLists, LiveMatchesRecord, Named, InUse, Known, Fresh, Lost, files, memory, server, ghosts
  <2> QED
    BY <2>10, <2>11, <2>12, <2>13, <2>14, <2>15 DEF Registry
<1>28. ASSUME SweepRemoves PROVE Registry'
  <2> USE <1>28
  <2>10. Named'
    BY Shape DEF SweepRemoves, Named, files, memory, server, ghosts
  <2>11. InUse'
    BY Shape DEF SweepRemoves, InUse, Named, Known, Lost, files, memory, server, ghosts
  <2>12. Held'
    BY Shape DEF SweepRemoves, Held, InUse, Named, Known, Lost, files, memory, server, ghosts
  <2>13. Backed'
    BY Shape DEF SweepRemoves, Backed, Fresh, Named, InUse, Known, Lost, Usable, files, memory, server, ghosts
  <2>14. Fresh'
    BY Shape DEF SweepRemoves, Fresh, Backed, Named, InUse, Known, Lost, Usable, files, memory, server, ghosts
  <2>15. LiveMatchesRecord'
    BY Shape DEF SweepRemoves, LiveMatchesRecord, Named, InUse, Known, Fresh, Lost, files, memory, server, ghosts
  <2> QED
    BY <2>10, <2>11, <2>12, <2>13, <2>14, <2>15 DEF Registry
<1>29. ASSUME Shutdown PROVE Registry'
  <2> USE <1>29
  <2>10. Named'
    BY Shape DEF Shutdown, Named, files, memory, server, ghosts
  <2>11. InUse'
    BY Shape DEF Shutdown, InUse, Named, Known, Lost, files, memory, server, ghosts
  <2>12. Held'
    BY Shape DEF Shutdown, Held, InUse, Named, Known, Lost, files, memory, server, ghosts
  <2>13. Backed'
    BY Shape DEF Shutdown, Backed, Fresh, Named, InUse, Known, Lost, Usable, files, memory, server, ghosts
  <2>14. Fresh'
    BY Shape DEF Shutdown, Fresh, Backed, Named, InUse, Known, Lost, Usable, files, memory, server, ghosts
  <2>15. LiveMatchesRecord'
    BY Shape DEF Shutdown, LiveMatchesRecord, Named, InUse, Known, Fresh, Lost, files, memory, server, ghosts
  <2> QED
    BY <2>10, <2>11, <2>12, <2>13, <2>14, <2>15 DEF Registry
<1>30. ASSUME Restart PROVE Registry'
  <2> USE <1>30
  <2>10. Named'
    BY Shape DEF Restart, Named, files, memory, server, ghosts, Free, NoCall
  <2>11. InUse'
    BY Shape DEF Restart, InUse, Named, Known, Lost, files, memory, server, ghosts, Free, NoCall
  <2>12. Held'
    BY Shape DEF Restart, Held, InUse, Named, Known, Lost, files, memory, server, ghosts, Free, NoCall
  <2>13. Backed'
    BY Shape DEF Restart, Backed, Fresh, Named, InUse, Known, Lost, Usable, files, memory, server, ghosts, Free, NoCall
  <2>14. Fresh'
    BY Shape DEF Restart, Fresh, Backed, Named, InUse, Known, Lost, Usable, files, memory, server, ghosts, Free, NoCall
  <2>15. LiveMatchesRecord'
    BY Shape DEF Restart, LiveMatchesRecord, Named, InUse, Known, Fresh, Lost, files, memory, server, ghosts, Free, NoCall
  <2> QED
    BY <2>10, <2>11, <2>12, <2>13, <2>14, <2>15 DEF Registry
<1>31. ASSUME NEW i \in AppManaged, SweepChecks(i) PROVE Registry'
  <2> USE <1>31
  <2>10. Named'
    BY Shape DEF SweepChecks, Named, files, memory, server, ghosts
  <2>11. InUse'
    BY Shape DEF SweepChecks, InUse, Named, Known, Lost, files, memory, server, ghosts
  <2>12. Held'
    BY Shape DEF SweepChecks, Held, InUse, Named, Known, Lost, files, memory, server, ghosts
  <2>13. Backed'
    BY Shape DEF SweepChecks, Backed, Fresh, Named, InUse, Known, Lost, Usable, files, memory, server, ghosts
  <2>14. Fresh'
    BY Shape DEF SweepChecks, Fresh, Backed, Named, InUse, Known, Lost, Usable, files, memory, server, ghosts
  <2>15. LiveMatchesRecord'
    BY Shape DEF SweepChecks, LiveMatchesRecord, Named, InUse, Known, Fresh, Lost, files, memory, server, ghosts
  <2> QED
    BY <2>10, <2>11, <2>12, <2>13, <2>14, <2>15 DEF Registry
<1>32. CASE UNCHANGED vars
  BY <1>32 DEF Named, InUse, Held, Backed, Fresh, LiveMatchesRecord, Known, Lost, Usable, vars, files, memory, server, ghosts
<1> QED
  BY <1>1, <1>2, <1>3, <1>4, <1>5, <1>6, <1>7, <1>8, <1>9, <1>10, <1>11, <1>12, <1>13, <1>14, <1>15, <1>16, <1>17, <1>18, <1>19, <1>20, <1>21, <1>22, <1>23, <1>24, <1>25, <1>26, <1>27, <1>28, <1>29, <1>30, <1>31, <1>32 DEF Next, Step

LEMMA RunningStep ==
  ASSUME TypeInv, RunningHasTurn, [Next]_vars
  PROVE  RunningHasTurn'
<1>1. ASSUME NEW c \in Callers, TurnStarts(c) PROVE RunningHasTurn'
  BY <1>1, Shape DEF TurnStarts, RunningHasTurn, Object
<1>2. ASSUME NEW c \in Callers, CloseSets(c) PROVE RunningHasTurn'
  BY <1>2, Shape DEF CloseSets, RunningHasTurn, Object
<1>3. ASSUME NEW c \in Callers, NEW o \in Objects,
             StartCreates(c, o) \/ ResumeAdopts(c, o) \/ ResumeCreates(c, o)
      PROVE  RunningHasTurn'
  <2>1. ASSUME NEW status, status # "running", Adopt(op[c].id, status, o)
        PROVE  RunningHasTurn'
    <3>1. obj'[o].status = status /\ \A p \in Objects \ {o} : obj'[p] = obj[p]
      BY <2>1, Shape DEF Adopt, Free
    <3> QED
      BY <2>1, <3>1 DEF RunningHasTurn
  <2>2. CASE StartCreates(c, o) \/ ResumeCreates(c, o)
    <3>1. Adopt(op[c].id, "idle", o)
      BY <2>2 DEF StartCreates, ResumeCreates
    <3> QED
      BY <2>1, <3>1
  <2>3. CASE ResumeAdopts(c, o)
    BY <2>1, <2>3 DEF ResumeAdopts
  <2> QED
    BY <1>3, <2>2, <2>3
<1>4. ASSUME NEW o \in Objects, ObjectSaves(o) PROVE RunningHasTurn'
  BY <1>4, Shape DEF ObjectSaves, RunningHasTurn, Object
<1>5. ASSUME NEW o \in Objects, TurnFinishes(o) \/ ShutdownCloses(o) PROVE RunningHasTurn'
  BY <1>5, Shape DEF TurnFinishes, ShutdownCloses, RunningHasTurn, Object
<1>6. CASE Restart
  BY <1>6 DEF Restart, Free, RunningHasTurn
<1>7. CASE UNCHANGED obj
  BY <1>7 DEF RunningHasTurn
<1> QED
  BY <1>1, <1>2, <1>3, <1>4, <1>5, <1>6, <1>7
  DEF Next, Step, vars, memory, CallStart, CallDelete, CallResume, CallList, StartLoads, StartSaves,
      ResumeLoads, ResumeRefuses, ResumeRepairs, CloseWaits, CallSaved, ListPrunes, ListChecks,
      DeleteRemoves, DeleteForgets, DeletePurges, TurnJournals, SweepReads, SweepLists, SweepRemoves,
      SweepChecks, Shutdown

(* A thread says it is running only while it has a turn, for any callers: the
   status a crash left in a record does not come back with it. *)
THEOREM RunningNeedsTurn == Spec => []RunningHasTurn
<1>1. Init => TypeInv /\ RunningHasTurn
  BY InitTyped DEF Init, RunningHasTurn, Free
<1>2. TypeInv /\ RunningHasTurn /\ [Next]_vars => (TypeInv /\ RunningHasTurn)'
  BY TypeStep, RunningStep
<1> QED
  BY <1>1, <1>2, PTL DEF Spec

(* With one connection, the registry and the records agree in every state. *)
THEOREM Invariance ==
  ASSUME OneAtATime
  PROVE  Spec => [](TypeInv /\ Registry)
<1>1. Init => TypeInv /\ Registry
  BY InitTyped DEF Init, Registry, Named, InUse, Held, Backed, Fresh, LiveMatchesRecord,
     Free, NoCall, Usable
<1>2. TypeInv /\ Registry /\ [Next]_vars => (TypeInv /\ Registry)'
  BY TypeStep, RegistryStep, OneAtATime
<1> QED
  BY <1>1, <1>2, PTL DEF Spec

(* With one connection, an object with a turn in flight is the one its thread
   leads to, so the turn can be interrupted, steered and answered. *)
THEOREM BusyReachable ==
  ASSUME OneAtATime
  PROVE  Spec => []BusyIsReachable
<1>1. TypeInv /\ Registry => BusyIsReachable
  BY DEF Registry, InUse, Known, BusyIsReachable
<1> QED
  BY <1>1, Invariance, OneAtATime, PTL

(* With one connection, a thread has at most one turn in flight in the process,
   whatever lists, resumes, closes, sweeps and restarts came before. *)
THEOREM OneTurn ==
  ASSUME OneAtATime
  PROVE  Spec => []OneTurnPerThread
<1>1. BusyIsReachable => OneTurnPerThread
  BY DEF BusyIsReachable, OneTurnPerThread
<1> QED
  BY <1>1, BusyReachable, OneAtATime, PTL

(* With one connection, a live thread with nothing left to save has its own
   status in its record, which is what the next process reads. *)
THEOREM RecordsAgree ==
  ASSUME OneAtATime
  PROVE  Spec => []LiveMatchesRecord
<1>1. TypeInv /\ Registry => LiveMatchesRecord
  BY DEF Registry
<1> QED
  BY <1>1, Invariance, OneAtATime, PTL
===============================================================================

---------------------------- MODULE ManagedThread -----------------------------
(***************************************************************************)
(* ManagedReaperThread of src/src/app-server/managed-thread.ts: one thread *)
(* of the application server, its turns, its settings, its steering inbox  *)
(* (RuntimeTurnControl of src/src/runtime/events.ts), its pending          *)
(* approvals, and the chain of saves that carries its metadata to disk.    *)
(*                                                                         *)
(* JavaScript runs a handler up to its first await in one piece, so an     *)
(* action is one such piece: the part of a handler before an await, or the *)
(* part after it.  Between the pieces any other handler may run.           *)
(* The runner of a turn (the semaphore of TurnSemaphore and the engine) is *)
(* modelled by the calls it makes on the thread and by the ways it ends.   *)
(***************************************************************************)
EXTENDS Naturals, FiniteSets, SequencesExt

CONSTANTS
  Turns,              \* turn ids; each is started once at most
  Messages,           \* steering messages; each is sent once to a turn at most
  Approvals,          \* approval ids (the code draws a fresh one per request)
  Settings,           \* the settings that are modelled, from SettingNames
  Values,             \* the values a setter is called with
  FirstValue,         \* the value every setting starts with
  MaxSteeringMessages,\* ManagedThreadOptions.maxSteeringMessages
  MaxSettingChanges,  \* bound: calls of the setters
  MaxSaveFailures,    \* bound: store.save calls that reject
  NoTurn              \* no turn: activeTurn and lastTurn are undefined

(* model: any setting that a setter changes and saves (setModel, setPermissionMode,
   setReasoningEffort, setSystemPrompt, setDisabledTools, setFilesystemSandbox,
   setName).  workspace: setWorkspaceRoot, which also makes a directory. *)
SettingNames == {"model", "workspace"}

ASSUME SettingsAssumption == Settings \subseteq SettingNames
ASSUME NoTurnAssumption == NoTurn \notin Turns
ASSUME BoundsAssumption ==
  /\ MaxSteeringMessages \in Nat
  /\ MaxSettingChanges \in Nat
  /\ MaxSaveFailures \in Nat

VARIABLES
  meta,        \* this.metadataValue
  disk,        \* the record ThreadStore.save wrote last
  chain,       \* persistChain: the persist() calls that have not settled
  image,       \* the metadata the save in flight (the head of chain) took
  poisoned,    \* persistChain is rejected, and stays so
  failures,    \* how many saves have failed
  activeTurn,  \* this.activeTurn
  phase,       \* where each turn stands
  signal,      \* each turn's AbortSignal: its reason, or "none"
  ending,      \* how the runner of each turn ended
  outcome,     \* the status finishTurn gave each turn
  announced,   \* the last terminal event on the bus for each turn
  accepting,   \* RuntimeTurnControl.accepting of each turn
  note,        \* what became of each steering message of each turn
  ask,         \* the state of each approval
  askTurn,     \* the turn each approval belongs to
  closing,     \* where the call of close() stands
  moving,      \* the workspace setWorkspaceRoot is about to set, or nothing
  wanted,      \* for the properties: the value each setter was last called with
  changes      \* how many setter calls there were

saveVars == <<disk, poisoned, failures>>
turnVars == <<activeTurn, phase, signal, ending, outcome, announced>>
inboxVars == <<accepting, note>>
askVars == <<ask, askTurn>>
settingVars == <<moving, wanted, changes>>
vars == <<meta, chain, image, saveVars, turnVars, inboxVars, askVars, closing, settingVars>>

-------------------------------------------------------------------------------
Statuses == {"idle", "running", "closed", "error"}
Outcomes == {"completed", "aborted", "failed"}
LastTurns == [turn : Turns \cup {NoTurn}, status : Outcomes \cup {"running", "none"}]
Config == [Settings -> Values \cup {FirstValue}]
Metadata == [status : Statuses, last : LastTurns, config : Config]

(* new: not started.  starting: startTurn awaits persist().  queued: the runner
   waits for a permit.  executing: the engine's loop.  stopping: drainOrClose
   has closed the inbox.  returning: engine.run() is over, executeTurn has not
   resumed.  finishing: finishTurn awaits persist().  done: finishTurn is over.
   stuck: startTurn's persist rejected.  lost: finishTurn's persist rejected. *)
Phases == {"new", "starting", "queued", "executing", "stopping", "returning",
           "finishing", "done", "stuck", "lost"}
Signals == {"none", "interrupt", "fault"}
Endings == {"none", "ok", "blocked", "throw", "abortError"}
NoteStates == {"unsent", "queued", "delivered", "discarded"}
(* refused: denied by the reviewer, cancelled, or timed out, which the tool that
   asked treats alike. *)
AskStates == {"none", "pending", "approved", "refused"}
Jobs == [op : {"start", "set", "close", "finish", "finishAgain"},
         turn : Turns \cup {NoTurn}]

TypeOK ==
  /\ meta \in Metadata /\ disk \in Metadata /\ image \in Metadata
  /\ chain \in Seq(Jobs)
  /\ poisoned \in BOOLEAN /\ failures \in 0..MaxSaveFailures
  /\ activeTurn \in Turns \cup {NoTurn}
  /\ phase \in [Turns -> Phases]
  /\ signal \in [Turns -> Signals]
  /\ ending \in [Turns -> Endings]
  /\ outcome \in [Turns -> Outcomes \cup {"none"}]
  /\ announced \in [Turns -> Outcomes \cup {"none"}]
  /\ accepting \in [Turns -> BOOLEAN]
  /\ note \in [Turns -> [Messages -> NoteStates]]
  /\ ask \in [Approvals -> AskStates]
  /\ askTurn \in [Approvals -> Turns \cup {NoTurn}]
  /\ closing \in {"no", "waiting", "persisting"}
  /\ moving \in {{}} \cup {{v} : v \in Values}
  /\ wanted \in Config
  /\ changes \in 0..MaxSettingChanges

FirstConfig == [s \in Settings |-> FirstValue]
FirstMetadata == [status |-> "idle", last |-> [turn |-> NoTurn, status |-> "none"],
                  config |-> FirstConfig]

Init ==
  /\ meta = FirstMetadata /\ disk = FirstMetadata /\ image = FirstMetadata
  /\ chain = <<>> /\ poisoned = FALSE /\ failures = 0
  /\ activeTurn = NoTurn
  /\ phase = [t \in Turns |-> "new"]
  /\ signal = [t \in Turns |-> "none"]
  /\ ending = [t \in Turns |-> "none"]
  /\ outcome = [t \in Turns |-> "none"]
  /\ announced = [t \in Turns |-> "none"]
  /\ accepting = [t \in Turns |-> TRUE]
  /\ note = [t \in Turns |-> [m \in Messages |-> "unsent"]]
  /\ ask = [a \in Approvals |-> "none"]
  /\ askTurn = [a \in Approvals |-> NoTurn]
  /\ closing = "no"
  /\ moving = {} /\ wanted = FirstConfig /\ changes = 0

-------------------------------------------------------------------------------
(* The pieces the handlers share. *)

(* Mutant of Persist: a change made during a save joins that save. *)
PersistCoalesced(m, queue, job) ==
  /\ meta' = m
  /\ chain' = IF queue = <<>> THEN <<job>> ELSE queue
  /\ image' = IF queue = <<>> THEN m ELSE image

(* persist(): the synchronous change of metadataValue that goes before it, and
   a new link of the chain.  With nothing in flight the save starts at once and
   takes the metadata as it is now; otherwise it waits for its turn. *)
Persist(m, queue, job) ==
  /\ meta' = m
  /\ chain' = Append(queue, job)
  /\ image' = IF queue = <<>> THEN m ELSE image

(* The save at the head of the chain succeeds.  Its result REPLACES
   metadataValue, and the next save of the chain reads it right after. *)
HeadSaved(op) ==
  /\ chain # <<>> /\ Head(chain).op = op /\ ~poisoned
  /\ meta' = image /\ disk' = image
  /\ chain' = Tail(chain)
  /\ UNCHANGED <<image, poisoned, failures>>

(* The head of the chain rejects: its save fails, or an earlier one did, since
   a rejected promise rejects everything chained to it. *)
HeadRejected(op) ==
  /\ chain # <<>> /\ Head(chain).op = op
  /\ \/ poisoned /\ UNCHANGED failures
     \/ ~poisoned /\ failures < MaxSaveFailures /\ failures' = failures + 1
  /\ poisoned' = TRUE
  /\ UNCHANGED disk

(* RuntimeTurnControl.close(): what is still queued is discarded. *)
CloseInbox(t) ==
  /\ accepting' = [accepting EXCEPT ![t] = FALSE]
  /\ note' = [note EXCEPT ![t] =
       [m \in Messages |-> IF @[m] = "queued" THEN "discarded" ELSE @[m]]]

(* cancelPendingApprovals("cancelled"). *)
CancelApprovals ==
  /\ ask' = [a \in Approvals |-> IF ask[a] = "pending" THEN "refused" ELSE ask[a]]
  /\ UNCHANGED askTurn

(* Mutant of InterruptTurn: it forgets the pending approvals. *)
InterruptKeepsApprovals(t) ==
  /\ CloseInbox(t)
  /\ UNCHANGED askVars
  /\ signal' = [signal EXCEPT ![t] = IF @ = "none" THEN "interrupt" ELSE @]

(* interrupt() on an active turn; an abort keeps the reason of the first one. *)
InterruptTurn(t) ==
  /\ CloseInbox(t)
  /\ CancelApprovals
  /\ signal' = [signal EXCEPT ![t] = IF @ = "none" THEN "interrupt" ELSE @]

(* Mutants of OutcomeOf: a normal result counts before the signal is looked at;
   a turn that stopped short is left running. *)
OutcomeOfResultFirst(how, sig) ==
  IF how = "ok" THEN "completed"
  ELSE IF sig = "fault" THEN "failed"
  ELSE IF sig = "interrupt" \/ how = "abortError" THEN "aborted"
  ELSE "failed"
OutcomeStillRunning(how, sig) ==
  IF sig = "fault" THEN "failed"
  ELSE IF sig = "interrupt" \/ how = "abortError" THEN "aborted"
  ELSE IF how = "ok" THEN "completed"
  ELSE IF how = "blocked" THEN "running"
  ELSE "failed"

(* The status executeTurn gives a turn, from how the runner ended and from the
   signal as it is when executeTurn resumes: the signal counts first. *)
OutcomeOf(how, sig) ==
  IF sig = "fault" THEN "failed"
  ELSE IF sig = "interrupt" \/ how = "abortError" THEN "aborted"
  ELSE IF how = "ok" THEN "completed"
  ELSE "failed"

(* finishTurn up to its await; the runner's input and result are not used again. *)
Finishing(t, result, queue, op) ==
  /\ CloseInbox(t)
  /\ CancelApprovals
  /\ activeTurn' = IF activeTurn = t THEN NoTurn ELSE activeTurn
  /\ outcome' = [outcome EXCEPT ![t] = result]
  /\ phase' = [phase EXCEPT ![t] = "finishing"]
  /\ ending' = [ending EXCEPT ![t] = "none"]
  /\ Persist([meta EXCEPT !.status = IF result = "failed" THEN "error" ELSE "idle",
                          !.last = [turn |-> t, status |-> result]],
             queue, [op |-> op, turn |-> t])

-------------------------------------------------------------------------------
(* Turns *)

(* Mutant of StartTurn: the check for an active turn is missing. *)
StartTurnUnguarded(t) ==
  /\ phase[t] = "new"
  /\ meta.status # "closed"
  /\ activeTurn' = t
  /\ phase' = [phase EXCEPT ![t] = "starting"]
  /\ Persist([meta EXCEPT !.status = "running",
                          !.last = [turn |-> t, status |-> "running"]],
             chain, [op |-> "start", turn |-> t])
  /\ UNCHANGED <<saveVars, signal, ending, outcome, announced, inboxVars,
                 askVars, closing, settingVars>>

(* startTurn up to its await: the refusals, then activeTurn and the metadata in
   the same piece. *)
StartTurn(t) ==
  /\ phase[t] = "new"
  /\ meta.status # "closed"
  /\ activeTurn = NoTurn
  /\ activeTurn' = t
  /\ phase' = [phase EXCEPT ![t] = "starting"]
  /\ Persist([meta EXCEPT !.status = "running",
                          !.last = [turn |-> t, status |-> "running"]],
             chain, [op |-> "start", turn |-> t])
  /\ UNCHANGED <<saveVars, signal, ending, outcome, announced, inboxVars,
                 askVars, closing, settingVars>>

(* startTurn resumes and calls executeTurn, which copies the settings into the
   runner's input and waits for a permit. *)
StartSaved ==
  LET t == Head(chain).turn
  IN  /\ HeadSaved("start")
      /\ phase' = [phase EXCEPT ![t] = "queued"]
      /\ UNCHANGED <<activeTurn, signal, ending, outcome, announced, inboxVars,
                     askVars, closing, settingVars>>

(* startTurn rejects; nothing undoes what it set. *)
StartRejected ==
  LET t == Head(chain).turn
  IN  /\ HeadRejected("start")
      /\ phase' = [phase EXCEPT ![t] = "stuck"]
      /\ chain' = Tail(chain)
      /\ UNCHANGED <<meta, image, activeTurn, signal, ending, outcome, announced,
                     inboxVars, askVars, closing, settingVars>>

(* The semaphore grants a permit and the engine starts. *)
RunnerStarts(t) ==
  /\ phase[t] = "queued"
  /\ phase' = [phase EXCEPT ![t] = "executing"]
  /\ UNCHANGED <<meta, chain, image, saveVars, activeTurn, signal, ending, outcome,
                 announced, inboxVars, askVars, closing, settingVars>>

(* The semaphore rejects an aborted call that has no permit yet. *)
RunnerRefused(t) ==
  /\ phase[t] = "queued" /\ signal[t] # "none"
  /\ phase' = [phase EXCEPT ![t] = "returning"]
  /\ ending' = [ending EXCEPT ![t] = "throw"]
  /\ UNCHANGED <<meta, chain, image, saveVars, activeTurn, signal, outcome,
                 announced, inboxVars, askVars, closing, settingVars>>

(* The engine takes the steering messages before a model request (drain), or
   where it would stop (drainOrClose with messages left). *)
Drain(t) ==
  /\ phase[t] = "executing"
  /\ \E m \in Messages : note[t][m] = "queued"
  /\ note' = [note EXCEPT ![t] =
       [m \in Messages |-> IF @[m] = "queued" THEN "delivered" ELSE @[m]]]
  /\ UNCHANGED <<meta, chain, image, saveVars, turnVars, accepting, askVars, closing,
                 settingVars>>

(* Mutant of DrainCloses: the window closes over messages that still wait. *)
DrainClosesBlindly(t) ==
  /\ phase[t] = "executing"
  /\ accepting' = [accepting EXCEPT ![t] = FALSE]
  /\ phase' = [phase EXCEPT ![t] = "stopping"]
  /\ UNCHANGED <<meta, chain, image, saveVars, activeTurn, signal, ending, outcome,
                 announced, note, askVars, closing, settingVars>>

(* The model stopped and drainOrClose found nothing: the inbox is closed. *)
DrainCloses(t) ==
  /\ phase[t] = "executing"
  /\ \A m \in Messages : note[t][m] # "queued"
  /\ accepting' = [accepting EXCEPT ![t] = FALSE]
  /\ phase' = [phase EXCEPT ![t] = "stopping"]
  /\ UNCHANGED <<meta, chain, image, saveVars, activeTurn, signal, ending, outcome,
                 announced, note, askVars, closing, settingVars>>

(* engine.run() ends: its terminal event reaches the bus, then the finally block
   closes the inbox.  A normal result comes after the stop of the loop, or from
   a loop that noticed the abort; a blocker that means "stopped short" ends it
   silently; an exception is announced by what the signal says then. *)
EngineEnds(t, how) ==
  /\ phase[t] \in {"executing", "stopping"}
  /\ how = "ok" => phase[t] = "stopping" \/ signal[t] # "none"
  /\ phase' = [phase EXCEPT ![t] = "returning"]
  /\ ending' = [ending EXCEPT ![t] = how]
  /\ announced' = [announced EXCEPT ![t] =
       CASE how = "ok" -> "completed"
         [] how = "blocked" -> @
         [] OTHER -> IF signal[t] # "none" THEN "aborted" ELSE "failed"]
  /\ CloseInbox(t)
  /\ UNCHANGED <<meta, chain, image, saveVars, activeTurn, signal, outcome,
                 askVars, closing, settingVars>>

(* An error that escapes the run aborts the turn with its own reason; the
   approvals the turn waits for listen to that signal. *)
RunFault(t) ==
  /\ phase[t] \in {"executing", "stopping"} /\ signal[t] = "none"
  /\ signal' = [signal EXCEPT ![t] = "fault"]
  /\ ask' = [a \in Approvals |->
       IF ask[a] = "pending" /\ askTurn[a] = t THEN "refused" ELSE ask[a]]
  /\ UNCHANGED <<meta, chain, image, saveVars, activeTurn, phase, ending, outcome,
                 announced, inboxVars, askTurn, closing, settingVars>>

(* executeTurn resumes after runTurn and calls finishTurn: inside the try block
   after a result, in the catch block after an exception. *)
TurnSettles(t) ==
  /\ phase[t] = "returning"
  /\ Finishing(t, OutcomeOf(ending[t], signal[t]), chain,
               IF ending[t] \in {"ok", "blocked"} THEN "finish" ELSE "finishAgain")
  /\ UNCHANGED <<saveVars, signal, announced, closing, settingVars>>

(* Mutant of FinishSaved: it relies on the engine's own terminal event. *)
FinishSavedSilently(op) ==
  LET t == Head(chain).turn
  IN  /\ HeadSaved(op)
      /\ phase' = [phase EXCEPT ![t] = "done"]
      /\ UNCHANGED <<activeTurn, signal, ending, outcome, announced, inboxVars,
                     askVars, closing, settingVars>>

(* finishTurn resumes and publishes the terminal event. *)
FinishSaved(op) ==
  LET t == Head(chain).turn
  IN  /\ HeadSaved(op)
      /\ phase' = [phase EXCEPT ![t] = "done"]
      /\ announced' = [announced EXCEPT ![t] = outcome[t]]
      /\ UNCHANGED <<activeTurn, signal, ending, outcome, inboxVars, askVars,
                     closing, settingVars>>

(* finishTurn rejects inside the try block: the catch block takes the save error
   for an error of the turn and finishes the turn once more. *)
FinishRejected ==
  LET t == Head(chain).turn
  IN  /\ HeadRejected("finish")
      /\ Finishing(t, OutcomeOf("throw", signal[t]), Tail(chain), "finishAgain")
      /\ UNCHANGED <<signal, announced, closing, settingVars>>

(* finishTurn rejects in the catch block: the completion promise rejects. *)
FinishLost ==
  LET t == Head(chain).turn
  IN  /\ HeadRejected("finishAgain")
      /\ phase' = [phase EXCEPT ![t] = "lost"]
      /\ chain' = Tail(chain)
      /\ UNCHANGED <<meta, image, activeTurn, signal, ending, outcome, announced,
                     inboxVars, askVars, closing, settingVars>>

-------------------------------------------------------------------------------
(* Steering and interrupting *)

(* steer(): refused, without effect, unless the turn is the active one, its inbox
   is open and has room.  Accepting a message does not deliver it. *)
Steer(t, m) ==
  /\ activeTurn = t /\ note[t][m] = "unsent"
  /\ accepting[t]
  /\ Cardinality({n \in Messages : note[t][n] = "queued"}) < MaxSteeringMessages
  /\ note' = [note EXCEPT ![t][m] = "queued"]
  /\ UNCHANGED <<meta, chain, image, saveVars, turnVars, accepting, askVars, closing,
                 settingVars>>

Interrupt(t) ==
  /\ activeTurn = t
  /\ InterruptTurn(t)
  /\ UNCHANGED <<meta, chain, image, saveVars, activeTurn, phase, ending, outcome,
                 announced, closing, settingVars>>

-------------------------------------------------------------------------------
(* Approvals *)

(* requestApproval(), called by a tool of the running engine. *)
RequestApproval(t, a) ==
  /\ phase[t] = "executing" /\ ask[a] = "none"
  /\ ask' = [ask EXCEPT ![a] =
       IF activeTurn = NoTurn \/ signal[t] # "none" THEN "refused" ELSE "pending"]
  /\ askTurn' = [askTurn EXCEPT ![a] = t]
  /\ UNCHANGED <<meta, chain, image, saveVars, turnVars, inboxVars, closing, settingVars>>

(* Mutant of SettleApproval: settle() does not look whether it is pending. *)
SettleAnyTime(a, decision) ==
  /\ ask[a] # "none"
  /\ ask' = [ask EXCEPT ![a] = decision]
  /\ UNCHANGED <<meta, chain, image, saveVars, turnVars, inboxVars, askTurn, closing,
                 settingVars>>

(* settle(): the reviewer's decision (resolveApproval), the timer, or the
   rejection of onApprovalRequested, whichever comes first. *)
SettleApproval(a, decision) ==
  /\ ask[a] = "pending"
  /\ ask' = [ask EXCEPT ![a] = decision]
  /\ UNCHANGED <<meta, chain, image, saveVars, turnVars, inboxVars, askTurn, closing,
                 settingVars>>

-------------------------------------------------------------------------------
(* Settings *)

(* Mutant of SetSetting: the change is not persisted. *)
SetSettingInMemory(s, v) ==
  /\ s # "workspace" /\ changes < MaxSettingChanges
  /\ changes' = changes + 1
  /\ wanted' = [wanted EXCEPT ![s] = v]
  /\ meta' = [meta EXCEPT !.config[s] = v]
  /\ UNCHANGED <<chain, image, saveVars, turnVars, inboxVars, askVars, closing, moving>>

(* setModel and its like: change the metadata, then persist. *)
SetSetting(s, v) ==
  /\ s # "workspace" /\ changes < MaxSettingChanges
  /\ changes' = changes + 1
  /\ wanted' = [wanted EXCEPT ![s] = v]
  /\ Persist([meta EXCEPT !.config[s] = v], chain, [op |-> "set", turn |-> NoTurn])
  /\ UNCHANGED <<saveVars, turnVars, inboxVars, askVars, closing, moving>>

(* setWorkspaceRoot up to its mkdir: refused once a turn has run. *)
SetWorkspace(v) ==
  /\ "workspace" \in Settings /\ changes < MaxSettingChanges
  /\ moving = {}
  /\ meta.last.turn = NoTurn
  /\ v # meta.config["workspace"]
  /\ moving' = {v}
  /\ changes' = changes + 1
  /\ UNCHANGED <<meta, chain, image, saveVars, turnVars, inboxVars, askVars, closing,
                 wanted>>

(* The directory exists: setWorkspaceRoot resumes, without looking again. *)
WorkspaceMade ==
  \E v \in moving :
    /\ moving' = {}
    /\ wanted' = [wanted EXCEPT !["workspace"] = v]
    /\ Persist([meta EXCEPT !.config["workspace"] = v], chain,
               [op |-> "set", turn |-> NoTurn])
    /\ UNCHANGED <<saveVars, turnVars, inboxVars, askVars, closing, changes>>

(* The setter returns to its caller ... *)
SettingSaved ==
  /\ HeadSaved("set")
  /\ UNCHANGED <<turnVars, inboxVars, askVars, closing, settingVars>>

(* ... or throws. *)
SettingRejected ==
  /\ HeadRejected("set")
  /\ chain' = Tail(chain)
  /\ UNCHANGED <<meta, image, turnVars, inboxVars, askVars, closing, settingVars>>

-------------------------------------------------------------------------------
(* Closing *)

(* close() with a turn active: interrupt it and wait for it. *)
CloseWaits ==
  /\ meta.status # "closed" /\ closing = "no"
  /\ activeTurn # NoTurn
  /\ InterruptTurn(activeTurn)
  /\ closing' = "waiting"
  /\ UNCHANGED <<meta, chain, image, saveVars, activeTurn, phase, ending, outcome,
                 announced, settingVars>>

(* Mutant of CloseProceeds: the wait for the turn has no timer. *)
CloseWithoutTimer ==
  /\ \/ meta.status # "closed" /\ closing = "no" /\ activeTurn = NoTurn
     \/ closing = "waiting" /\ activeTurn = NoTurn
  /\ CancelApprovals
  /\ Persist([meta EXCEPT !.status = "closed"], chain, [op |-> "close", turn |-> NoTurn])
  /\ closing' = "persisting"
  /\ UNCHANGED <<saveVars, turnVars, inboxVars, settingVars>>

(* close() goes on: no turn was active, or the turn is over, or the two seconds
   are.  The timer makes the wait end at any time, so it is no guard. *)
CloseProceeds ==
  /\ \/ meta.status # "closed" /\ closing = "no" /\ activeTurn = NoTurn
     \/ closing = "waiting"
  /\ CancelApprovals
  /\ Persist([meta EXCEPT !.status = "closed"], chain, [op |-> "close", turn |-> NoTurn])
  /\ closing' = "persisting"
  /\ UNCHANGED <<saveVars, turnVars, inboxVars, settingVars>>

CloseSaved ==
  /\ HeadSaved("close")
  /\ closing' = "no"
  /\ UNCHANGED <<turnVars, inboxVars, askVars, settingVars>>

CloseRejected ==
  /\ HeadRejected("close")
  /\ chain' = Tail(chain)
  /\ closing' = "no"
  /\ UNCHANGED <<meta, image, turnVars, inboxVars, askVars, settingVars>>

-------------------------------------------------------------------------------
Next ==
  \/ \E t \in Turns :
       \/ StartTurn(t) \/ RunnerStarts(t) \/ RunnerRefused(t)
       \/ Drain(t) \/ DrainCloses(t) \/ RunFault(t) \/ TurnSettles(t)
       \/ \E how \in Endings \ {"none"} : EngineEnds(t, how)
       \/ \E m \in Messages : Steer(t, m)
       \/ Interrupt(t)
       \/ \E a \in Approvals : RequestApproval(t, a)
  \/ \E a \in Approvals, d \in {"approved", "refused"} :
       SettleApproval(a, d)
  \/ \E s \in Settings, v \in Values : SetSetting(s, v)
  \/ \E v \in Values : SetWorkspace(v)
  \/ WorkspaceMade
  \/ CloseWaits \/ CloseProceeds
  \/ StartSaved \/ SettingSaved \/ CloseSaved
  \/ \E op \in {"finish", "finishAgain"} : FinishSaved(op)
  \/ StartRejected \/ SettingRejected \/ CloseRejected \/ FinishRejected \/ FinishLost

Spec == Init /\ [][Next]_vars

(* A save settles one way or the other, a resolved promise resumes its handler,
   and the runner of a turn ends: models, tools and approvals have timeouts. *)
Settles ==
  \/ StartSaved \/ SettingSaved \/ CloseSaved
  \/ FinishSaved("finish") \/ FinishSaved("finishAgain")
  \/ (poisoned /\ (StartRejected \/ SettingRejected \/ CloseRejected \/ FinishRejected \/ FinishLost))

Fairness ==
  /\ WF_vars(Settles)
  /\ WF_vars(CloseProceeds /\ closing = "waiting")
  /\ \A t \in Turns :
       /\ WF_vars(RunnerStarts(t) \/ RunnerRefused(t))
       /\ WF_vars(TurnSettles(t))
       /\ WF_vars(\E how \in Endings \ {"none"} : EngineEnds(t, how))

FairSpec == Spec /\ Fairness

-------------------------------------------------------------------------------
(* Properties *)

InFlight == {t \in Turns : phase[t] \in {"starting", "queued", "executing", "stopping", "returning"}}
Over(t) == phase[t] \in {"finishing", "done", "lost"}

(* One turn at a time: the turns between startTurn and finishTurn are exactly
   the active one, also while saves of earlier turns and of settings are still
   in flight.  A turn whose start failed to save keeps the place. *)
OneActiveTurn ==
  /\ \A t \in InFlight : activeTurn = t
  /\ activeTurn # NoTurn => activeTurn \in InFlight \/ phase[activeTurn] = "stuck"

(* A stop is honoured: a turn that was interrupted or hit by a run fault before
   executeTurn looked is never reported as completed, whatever its runner
   returned, and a fault is never taken for a user's interrupt. *)
StopIsHonoured ==
  \A t \in Turns : outcome[t] # "none" =>
    /\ signal[t] = "interrupt" => outcome[t] = "aborted"
    /\ signal[t] = "fault" => outcome[t] = "failed"

(* Steering: a completed turn has heard every message it accepted, and no
   message is left in the inbox of a turn that is over.  This is what
   drainOrClose is for: no accepted steer lands after the terminal stop. *)
SteersSettled ==
  \A t \in Turns, m \in Messages :
    /\ outcome[t] = "completed" => note[t][m] # "discarded"
    /\ Over(t) => note[t][m] # "queued"

(* An approval is pending only for the active turn, and only while nothing has
   aborted that turn. *)
PendingApprovalIsLive ==
  \A a \in Approvals : ask[a] = "pending" =>
    activeTurn = askTurn[a] /\ signal[askTurn[a]] = "none"

(* Once settled, an approval keeps its decision, and it can only turn into
   "approved" while its turn is active and not aborted: an interrupt, a fault,
   a close or the end of the turn never leaves a way to approve it later. *)
NoLateApproval ==
  [][\A a \in Approvals :
       /\ ask[a] \in {"approved", "refused"} => ask'[a] = ask[a]
       /\ (ask'[a] = "approved" /\ ask[a] # "approved") =>
            activeTurn = askTurn[a] /\ signal[askTurn[a]] = "none"]_vars

(* When no save is outstanding and none has failed, the disk holds what the
   thread believes, so that a restart resumes the same thread. *)
DiskSettles == (chain = <<>> /\ ~poisoned) => disk = meta

(* The last terminal event a client sees for a turn is its outcome, although the
   engine publishes one of its own before the outcome is decided. *)
LastWordIsOutcome == \A t \in Turns : phase[t] = "done" => announced[t] = outcome[t]

(* Every turn that starts comes to its end and gives the thread back, unless the
   chain of saves is broken. *)
TurnsEnd == \A t \in Turns : activeTurn = t ~> (phase[t] = "done" \/ poisoned)

(* close() returns. *)
CloseEnds == closing # "no" ~> closing = "no"

(* ------ Statements of the code's comments that the code does not keep ------ *)

(* setModel's comment: the next turn picks a new setting up.  Hence, once the
   saves have drained, the metadata has the value of the last call. *)
SettingsStick == (chain = <<>> /\ ~poisoned) => meta.config = wanted

===============================================================================

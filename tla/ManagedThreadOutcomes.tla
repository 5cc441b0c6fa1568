------------------------ MODULE ManagedThreadOutcomes --------------------------
(***************************************************************************)
(* More proofs about ManagedThread: what a stopped turn is reported as,    *)
(* what became of the messages it accepted, what a client hears last, that *)
(* the disk agrees with the memory, and the types of the whole state.      *)
(***************************************************************************)
EXTENDS ManagedThreadProofs

(* What makes StopIsHonoured inductive: only a turn that is over has an outcome, and
   no signal comes to a turn that is over. *)
StopInv ==
  /\ signal \in [Turns -> Signals]
  /\ outcome \in [Turns -> Outcomes \cup {"none"}]
  /\ \A t \in Turns : outcome[t] # "none" => Over(t)
  /\ StopIsHonoured

stopParts == <<signal, outcome>>

LEMMA StopInit == Init => StopInv
BY DEF Init, StopInv, StopIsHonoured, Signals, Outcomes

(* No turn that is over goes back, and a turn that is not over has no outcome. *)
LEMMA StopFrame ==
  ASSUME StopInv, UNCHANGED stopParts, \A t \in Turns : Over(t) => Over(t)'
  PROVE  StopInv'
BY DEF StopInv, StopIsHonoured, stopParts, Over

(* The active turn is not over. *)
LEMMA ActiveIsNotOver ==
  ASSUME TurnInv, NEW t \in Turns, activeTurn = t
  PROVE  ~Over(t)
BY NoTurnAssumption DEF TurnInv, OneActiveTurn, InFlight, Over

(* A signal comes to a turn that is not over. *)
LEMMA StopSignal ==
  ASSUME StopInv, NEW t \in Turns, ~Over(t), NEW s \in Signals,
         signal' = [signal EXCEPT ![t] = s],
         UNCHANGED <<outcome, phase>>
  PROVE  StopInv'
BY DEF StopInv, StopIsHonoured, Over

(* OutcomeOf puts the signal first. *)
LEMMA OutcomeRespectsSignal ==
  ASSUME NEW how, NEW sig \in Signals
  PROVE  /\ OutcomeOf(how, sig) \in Outcomes
         /\ sig = "interrupt" => OutcomeOf(how, sig) = "aborted"
         /\ sig = "fault" => OutcomeOf(how, sig) = "failed"
         /\ OutcomeOf(how, sig) = "completed" => how = "ok" /\ sig = "none"
BY DEF OutcomeOf, Outcomes, Signals

(* A turn is given its outcome. *)
LEMMA StopFinishing ==
  ASSUME StopInv, phase \in [Turns -> Phases], NEW t \in Turns, NEW how, NEW queue, NEW op,
         Finishing(t, OutcomeOf(how, signal[t]), queue, op), signal' = signal
  PROVE  StopInv'
<1> DEFINE result == OutcomeOf(how, signal[t])
<1>1. /\ result \in Outcomes
      /\ signal[t] = "interrupt" => result = "aborted"
      /\ signal[t] = "fault" => result = "failed"
  BY OutcomeRespectsSignal DEF StopInv
<1>2. outcome' = [outcome EXCEPT ![t] = result] /\ phase' = [phase EXCEPT ![t] = "finishing"]
  BY DEF Finishing
<1> HIDE DEF result
<1> QED
  BY <1>1, <1>2 DEF StopInv, StopIsHonoured, Over

LEMMA StopStep == TurnInv /\ StopInv /\ [Next]_vars => StopInv'
<1> SUFFICES ASSUME TurnInv, StopInv, [Next]_vars PROVE StopInv'
  OBVIOUS
<1>0. phase \in [Turns -> Phases]
  BY DEF TurnInv
<1>1. ASSUME NEW t \in Turns, TurnSettles(t) PROVE StopInv'
  BY <1>0, <1>1, StopFinishing DEF TurnSettles
<1>2. ASSUME FinishRejected PROVE StopInv'
  <2> DEFINE t == Head(chain).turn
  <2>1. t \in Turns
    BY <1>2, TailChain, NoTurnAssumption DEF FinishRejected, HeadRejected, TurnInv, JobOK
  <2> QED
    BY <1>0, <1>2, <2>1, StopFinishing DEF FinishRejected
<1>3. ASSUME NEW t \in Turns, InterruptTurn(t), activeTurn = t, UNCHANGED <<outcome, phase>>
      PROVE  StopInv'
  <2>1. PICK s \in Signals : signal' = [signal EXCEPT ![t] = s]
    BY <1>3 DEF InterruptTurn, StopInv, Signals
  <2> QED
    BY <1>3, <2>1, ActiveIsNotOver, StopSignal
<1>4. ASSUME NEW t \in Turns, Interrupt(t) PROVE StopInv'
  BY <1>3, <1>4 DEF Interrupt
<1>5. ASSUME CloseWaits PROVE StopInv'
  BY <1>3, <1>5 DEF CloseWaits, TurnInv
<1>6. ASSUME NEW t \in Turns, RunFault(t) PROVE StopInv'
  BY <1>6, StopSignal DEF RunFault, Over, Signals
<1>7. ASSUME NEW t, t \notin Turns \/ ~Over(t), NEW p,
             phase' = [phase EXCEPT ![t] = p], UNCHANGED stopParts
      PROVE  StopInv'
  BY <1>0, <1>7, StopFrame DEF Over
<1>8. ASSUME NEW t \in Turns,
             \/ StartTurn(t) \/ RunnerStarts(t) \/ RunnerRefused(t) \/ DrainCloses(t)
             \/ \E how \in Endings \ {"none"} : EngineEnds(t, how)
      PROVE  StopInv'
  BY <1>7, <1>8 DEF StartTurn, RunnerStarts, RunnerRefused, DrainCloses, EngineEnds, Over, stopParts
<1>9. ASSUME StartSaved \/ StartRejected PROVE StopInv'
  <2> DEFINE t == Head(chain).turn
  <2>1. chain # <<>> /\ Head(chain).op = "start"
    BY <1>9 DEF StartSaved, StartRejected, HeadSaved, HeadRejected
  <2>2. ~Over(t)
    BY <2>1, TailChain DEF TurnInv, JobOK, Over
  <2> QED
    BY <1>7, <1>9, <2>2 DEF StartSaved, StartRejected, stopParts
<1>10. ASSUME FinishLost \/ (\E op \in {"finish", "finishAgain"} : FinishSaved(op)) PROVE StopInv'
  <2>1. PICK p \in {"lost", "done"} : phase' = [phase EXCEPT ![Head(chain).turn] = p]
    BY <1>10 DEF FinishLost, FinishSaved
  <2>2. \A u \in Turns : Over(u) => Over(u)'
    BY <1>0, <2>1 DEF Over
  <2> QED
    BY <1>10, <2>2, StopFrame DEF FinishLost, FinishSaved, stopParts
<1>11. ASSUME UNCHANGED <<stopParts, phase>> PROVE StopInv'
  BY <1>11, StopFrame DEF Over
<1>12. ASSUME NEW t \in Turns,
              \/ Drain(t) \/ (\E m \in Messages : Steer(t, m))
              \/ (\E a \in Approvals : RequestApproval(t, a))
       PROVE  StopInv'
  BY <1>11, <1>12 DEF Drain, Steer, RequestApproval, turnVars, stopParts
<1>13. ASSUME \/ \E a \in Approvals, d \in {"approved", "refused"} : SettleApproval(a, d)
              \/ \E s \in Settings, v \in Values : SetSetting(s, v)
              \/ \E v \in Values : SetWorkspace(v)
              \/ WorkspaceMade \/ CloseProceeds
              \/ SettingSaved \/ CloseSaved \/ SettingRejected \/ CloseRejected
       PROVE  StopInv'
  BY <1>11, <1>13 DEF SettleApproval, SetSetting, SetWorkspace, WorkspaceMade, CloseProceeds,
                      SettingSaved, CloseSaved, SettingRejected, CloseRejected, turnVars, stopParts
<1>14. CASE UNCHANGED vars
  BY <1>11, <1>14 DEF vars, turnVars, stopParts
<1> QED
  BY <1>1, <1>2, <1>4, <1>5, <1>6, <1>8, <1>9, <1>10, <1>12, <1>13, <1>14 DEF Next

(* A turn that was interrupted is reported as aborted and one that a fault hit as failed,
   whatever its runner returned and however often its last save was tried. *)
THEOREM StopsAreHonoured == Spec => []StopIsHonoured
<1>1. StopInv => StopIsHonoured
  BY DEF StopInv
<1> QED
  BY <1>1, TurnInit, TurnStep, StopInit, StopStep, PTL DEF Spec

-------------------------------------------------------------------------------
(* The last word on the bus *)

(* Once a turn is done nothing is announced for it, and its outcome stays. *)
WordInv ==
  /\ announced \in [Turns -> Outcomes \cup {"none"}]
  /\ LastWordIsOutcome

wordParts == <<outcome, announced, phase>>

LEMMA WordInit == Init => WordInv
BY DEF Init, WordInv, LastWordIsOutcome, Outcomes

(* A turn that is not done moves, is announced or gets its outcome. *)
LEMMA WordMove ==
  ASSUME TurnInv, StopInv, WordInv, NEW t \in Turns, phase[t] # "done",
         NEW p, p # "done", phase' = [phase EXCEPT ![t] = p],
         NEW word \in Outcomes \cup {"none"},
         \/ announced' = [announced EXCEPT ![t] = word] \/ UNCHANGED announced,
         NEW result, outcome' = [outcome EXCEPT ![t] = result] \/ UNCHANGED outcome
  PROVE  WordInv'
BY DEF TurnInv, StopInv, WordInv, LastWordIsOutcome

LEMMA WordStep == TurnInv /\ StopInv /\ WordInv /\ [Next]_vars => WordInv'
<1> SUFFICES ASSUME TurnInv, StopInv, WordInv, [Next]_vars PROVE WordInv'
  OBVIOUS
<1>0. ASSUME UNCHANGED wordParts PROVE WordInv'
  BY <1>0 DEF wordParts, WordInv, LastWordIsOutcome
<1>1. ASSUME NEW t \in Turns,
             StartTurn(t) \/ RunnerStarts(t) \/ RunnerRefused(t) \/ DrainCloses(t)
      PROVE  WordInv'
  BY <1>1, WordMove DEF StartTurn, RunnerStarts, RunnerRefused, DrainCloses
<1>2. ASSUME NEW t \in Turns, NEW how, EngineEnds(t, how) PROVE WordInv'
  <2>1. PICK word \in Outcomes \cup {"none"} : announced' = [announced EXCEPT ![t] = word]
    BY <1>2 DEF EngineEnds, WordInv, Outcomes
  <2>2. phase[t] # "done" /\ phase' = [phase EXCEPT ![t] = "returning"] /\ UNCHANGED outcome
    BY <1>2 DEF EngineEnds
  <2> QED
    BY <2>1, <2>2, WordMove
<1>3. ASSUME NEW t \in Turns, TurnSettles(t) PROVE WordInv'
  BY <1>3, WordMove DEF TurnSettles, Finishing
<1>4. ASSUME NEW op \in {"start", "finish", "finishAgain"}, chain # <<>>, Head(chain).op = op
      PROVE  /\ Head(chain).turn \in Turns
             /\ phase[Head(chain).turn] = IF op = "start" THEN "starting" ELSE "finishing"
  BY <1>4, TailChain, NoTurnAssumption DEF TurnInv, JobOK
<1>5. ASSUME StartSaved \/ StartRejected PROVE WordInv'
  <2>1. chain # <<>> /\ Head(chain).op = "start"
    BY <1>5 DEF StartSaved, StartRejected, HeadSaved, HeadRejected
  <2>2. Head(chain).turn \in Turns /\ phase[Head(chain).turn] = "starting"
    BY <1>4, <2>1
  <2> QED
    BY <1>5, <2>2, WordMove DEF StartSaved, StartRejected
<1>6. ASSUME NEW op \in {"finish", "finishAgain"}, FinishSaved(op) PROVE WordInv'
  <2> DEFINE t == Head(chain).turn
  <2>1. t \in Turns /\ phase[t] = "finishing"
    BY <1>4, <1>6 DEF FinishSaved, HeadSaved
  <2>2. /\ announced' = [announced EXCEPT ![t] = outcome[t]]
        /\ phase' = [phase EXCEPT ![t] = "done"] /\ UNCHANGED outcome
    BY <1>6 DEF FinishSaved
  <2> HIDE DEF t
  <2> QED
    BY <2>1, <2>2 DEF TurnInv, StopInv, WordInv, LastWordIsOutcome
<1>7. ASSUME FinishRejected PROVE WordInv'
  <2>1. Head(chain).turn \in Turns /\ phase[Head(chain).turn] = "finishing"
    BY <1>4, <1>7 DEF FinishRejected, HeadRejected
  <2> QED
    BY <1>7, <2>1, WordMove DEF FinishRejected, Finishing
<1>8. ASSUME FinishLost PROVE WordInv'
  <2>1. Head(chain).turn \in Turns /\ phase[Head(chain).turn] = "finishing"
    BY <1>4, <1>8 DEF FinishLost, HeadRejected
  <2> QED
    BY <1>8, <2>1, WordMove DEF FinishLost
<1>9. ASSUME NEW t \in Turns,
             \/ Drain(t) \/ RunFault(t) \/ Interrupt(t)
             \/ (\E m \in Messages : Steer(t, m))
             \/ (\E a \in Approvals : RequestApproval(t, a))
      PROVE  WordInv'
  BY <1>0, <1>9 DEF Drain, RunFault, Interrupt, Steer, RequestApproval, turnVars, wordParts
<1>10. ASSUME \/ \E a \in Approvals, d \in {"approved", "refused"} : SettleApproval(a, d)
              \/ \E s \in Settings, v \in Values : SetSetting(s, v)
              \/ \E v \in Values : SetWorkspace(v)
              \/ WorkspaceMade \/ CloseWaits \/ CloseProceeds
              \/ SettingSaved \/ CloseSaved \/ SettingRejected \/ CloseRejected
       PROVE  WordInv'
  BY <1>0, <1>10 DEF SettleApproval, SetSetting, SetWorkspace, WorkspaceMade, CloseWaits,
                     CloseProceeds, SettingSaved, CloseSaved, SettingRejected, CloseRejected,
                     turnVars, wordParts
<1>11. CASE UNCHANGED vars
  BY <1>0, <1>11 DEF vars, turnVars, wordParts
<1> QED
  BY <1>1, <1>2, <1>3, <1>5, <1>6, <1>7, <1>8, <1>9, <1>10, <1>11 DEF Next

(* The engine announces an end of its own before the thread has decided the outcome; what a
   client hears last of a turn that is done is the outcome. *)
THEOREM LastWordStands == Spec => []LastWordIsOutcome
<1>1. WordInv => LastWordIsOutcome
  BY DEF WordInv
<1> QED
  BY <1>1, TurnInit, TurnStep, StopInit, StopStep, WordInit, WordStep, PTL DEF Spec

-------------------------------------------------------------------------------
(* Steering messages *)

Waits(t) == \E m \in Messages : note[t][m] = "queued"
Shut(t) == ~accepting[t] /\ ~Waits(t)

(* The inbox of a turn that nothing stopped is shut, and empty, from the moment the loop
   stops; and a message is discarded only with a turn that was stopped or went wrong. *)
SteerInv ==
  /\ accepting \in [Turns -> BOOLEAN]
  /\ note \in [Turns -> [Messages -> NoteStates]]
  /\ ending \in [Turns -> Endings]
  /\ \A t \in Turns :
       /\ phase[t] = "stopping" => Shut(t)
       /\ phase[t] = "returning" => Shut(t) \/ signal[t] # "none"
       /\ Over(t) => Shut(t)
  /\ \A t \in Turns, m \in Messages : note[t][m] = "discarded" =>
       \/ signal[t] # "none"
       \/ phase[t] = "returning" /\ ending[t] # "ok"
       \/ Over(t) /\ outcome[t] # "completed"

steerParts == <<accepting, note, ending, phase, signal, outcome>>

LEMMA SteerInit == Init => SteerInv
BY DEF Init, SteerInv, NoteStates, Endings, Over

LEMMA SteerFrame ==
  ASSUME SteerInv, UNCHANGED steerParts
  PROVE  SteerInv'
BY DEF SteerInv, steerParts, Shut, Waits, Over

(* Closing an inbox shuts it and discards what waits in it, and touches no other. *)
LEMMA ClosedInbox ==
  ASSUME SteerInv, NEW t \in Turns, CloseInbox(t)
  PROVE  /\ accepting' \in [Turns -> BOOLEAN]
         /\ note' \in [Turns -> [Messages -> NoteStates]]
         /\ Shut(t)'
         /\ \A u \in Turns : u # t => accepting'[u] = accepting[u] /\ note'[u] = note[u]
         /\ \A m \in Messages : note'[t][m] = "discarded" =>
              note[t][m] = "discarded" \/ note[t][m] = "queued"
BY DEF SteerInv, CloseInbox, Shut, Waits, NoteStates

(* A stop closes the inbox of a turn that has a signal from then on. *)
LEMMA SteerInterrupt ==
  ASSUME SteerInv, StopInv, NEW t \in Turns, InterruptTurn(t), UNCHANGED <<ending, phase, outcome>>
  PROVE  SteerInv'
<1>1. /\ CloseInbox(t)
      /\ \A u \in Turns : signal'[u] # "none" <=> signal[u] # "none" \/ u = t
  BY DEF InterruptTurn, StopInv, Signals
<1> QED
  BY <1>1, ClosedInbox DEF SteerInv, Shut, Waits, Over

(* A turn moves before its loop has stopped, and its inbox stays as it is. *)
LEMMA SteerMove ==
  ASSUME SteerInv, phase \in [Turns -> Phases], NEW t \in Turns,
         phase[t] \in {"new", "starting", "queued"},
         NEW p \in {"starting", "queued", "executing", "stuck", "returning"},
         p = "returning" => signal[t] # "none",
         phase' = [phase EXCEPT ![t] = p],
         ending' \in [Turns -> Endings], \A u \in Turns : u # t => ending'[u] = ending[u],
         UNCHANGED <<accepting, note, signal, outcome>>
  PROVE  SteerInv'
BY DEF SteerInv, Shut, Waits, Over

(* The end of the turn: what is discarded now was accepted by a turn that is not
   completed. *)
LEMMA SteerFinishing ==
  ASSUME SteerInv, StopInv, phase \in [Turns -> Phases],
         NEW t \in Turns, phase[t] = "returning" \/ phase[t] = "finishing",
         NEW how, phase[t] = "returning" => how = ending[t],
         phase[t] = "finishing" => how = "throw", NEW queue, NEW op,
         Finishing(t, OutcomeOf(how, signal[t]), queue, op), signal' = signal
  PROVE  SteerInv'
<1> DEFINE result == OutcomeOf(how, signal[t])
<1>1. result = "completed" => how = "ok" /\ signal[t] = "none"
  BY OutcomeRespectsSignal DEF StopInv
<1>2. /\ CloseInbox(t) /\ outcome' = [outcome EXCEPT ![t] = result]
      /\ phase' = [phase EXCEPT ![t] = "finishing"] /\ ending' = [ending EXCEPT ![t] = "none"]
  BY DEF Finishing
<1> HIDE DEF result
<1>3. ending' \in [Turns -> Endings] /\ phase'[t] = "finishing" /\ outcome'[t] = result
  BY <1>2 DEF SteerInv, StopInv, Endings
<1>4. \A u \in Turns : u # t =>
        phase'[u] = phase[u] /\ ending'[u] = ending[u] /\ outcome'[u] = outcome[u]
  BY <1>2 DEF SteerInv, StopInv
<1>5. ASSUME NEW m \in Messages, note'[t][m] = "discarded" PROVE result # "completed" \/ signal[t] # "none"
  <2>1. CASE note[t][m] = "queued"
    BY <1>1, <2>1 DEF SteerInv, Shut, Waits, Over
  <2>2. CASE note[t][m] = "discarded"
    BY <1>1, <2>2 DEF SteerInv, Over
  <2> QED
    BY <1>2, <1>5, <2>1, <2>2, ClosedInbox
<1>6. \A u \in Turns : u # t => (Over(u)' <=> Over(u)) /\ (Shut(u)' <=> Shut(u))
  BY <1>2, <1>4, ClosedInbox DEF Over, Shut, Waits
<1>7. Over(t)' /\ Shut(t)'
  BY <1>2, <1>3, ClosedInbox DEF Over
<1>8. ASSUME NEW u \in Turns
      PROVE  /\ phase'[u] = "stopping" => Shut(u)'
             /\ phase'[u] = "returning" => Shut(u)' \/ signal'[u] # "none"
             /\ Over(u)' => Shut(u)'
  BY <1>3, <1>4, <1>6, <1>7 DEF SteerInv
<1>9. ASSUME NEW u \in Turns, NEW m \in Messages, note'[u][m] = "discarded"
      PROVE  \/ signal'[u] # "none"
             \/ phase'[u] = "returning" /\ ending'[u] # "ok"
             \/ Over(u)' /\ outcome'[u] # "completed"
  <2>1. CASE u = t
    BY <1>3, <1>5, <1>7, <1>9, <2>1
  <2>2. CASE u # t
    BY <1>2, <1>4, <1>6, <1>9, <2>2, ClosedInbox DEF SteerInv
  <2> QED
    BY <2>1, <2>2
<1> QED
  BY <1>2, <1>3, <1>8, <1>9, ClosedInbox DEF SteerInv

LEMMA SteerStep == TurnInv /\ StopInv /\ SteerInv /\ [Next]_vars => SteerInv'
<1> SUFFICES ASSUME TurnInv, StopInv, SteerInv, [Next]_vars PROVE SteerInv'
  OBVIOUS
<1>0. phase \in [Turns -> Phases] /\ ending \in [Turns -> Endings]
  BY DEF TurnInv, SteerInv
<1>1. ASSUME NEW t \in Turns, StartTurn(t) \/ RunnerStarts(t) PROVE SteerInv'
  <2>1. PICK p \in {"starting", "executing"} : phase' = [phase EXCEPT ![t] = p]
    BY <1>1 DEF StartTurn, RunnerStarts
  <2>2. /\ phase[t] \in {"new", "starting", "queued"}
        /\ UNCHANGED <<accepting, note, signal, outcome>> /\ UNCHANGED ending
    BY <1>1 DEF StartTurn, RunnerStarts, inboxVars
  <2>3. ending' \in [Turns -> Endings] /\ \A u \in Turns : u # t => ending'[u] = ending[u]
    BY <1>0, <2>2
  <2> QED
    BY <1>0, <2>1, <2>2, <2>3, SteerMove
<1>2. ASSUME NEW t \in Turns, RunnerRefused(t) PROVE SteerInv'
  <2>1. ending' \in [Turns -> Endings] /\ \A u \in Turns : u # t => ending'[u] = ending[u]
    BY <1>0, <1>2 DEF RunnerRefused, Endings
  <2> QED
    BY <1>0, <1>2, <2>1, SteerMove DEF RunnerRefused, inboxVars
<1>3. ASSUME NEW op \in {"start", "finish", "finishAgain"}, chain # <<>>, Head(chain).op = op
      PROVE  /\ Head(chain).turn \in Turns
             /\ phase[Head(chain).turn] = IF op = "start" THEN "starting" ELSE "finishing"
  BY <1>3, TailChain, NoTurnAssumption DEF TurnInv, JobOK
<1>4. ASSUME StartSaved \/ StartRejected PROVE SteerInv'
  <2>1. chain # <<>> /\ Head(chain).op = "start"
    BY <1>4 DEF StartSaved, StartRejected, HeadSaved, HeadRejected
  <2>2. Head(chain).turn \in Turns /\ phase[Head(chain).turn] = "starting"
    BY <1>3, <2>1
  <2>3. PICK p \in {"queued", "stuck"} : phase' = [phase EXCEPT ![Head(chain).turn] = p]
    BY <1>4 DEF StartSaved, StartRejected
  <2>4. UNCHANGED <<accepting, note, signal, outcome>> /\ UNCHANGED ending
    BY <1>4 DEF StartSaved, StartRejected, inboxVars
  <2>5. /\ ending' \in [Turns -> Endings]
        /\ \A u \in Turns : u # Head(chain).turn => ending'[u] = ending[u]
    BY <1>0, <2>4
  <2> QED
    BY <1>0, <2>2, <2>3, <2>4, <2>5, SteerMove
<1>5. ASSUME NEW t \in Turns, Drain(t) PROVE SteerInv'
  <2>1. /\ phase[t] = "executing"
        /\ note' = [note EXCEPT ![t] =
             [m \in Messages |-> IF @[m] = "queued" THEN "delivered" ELSE @[m]]]
        /\ UNCHANGED <<accepting, ending, phase, signal, outcome>>
    BY <1>5 DEF Drain, turnVars
  <2>2. note' \in [Turns -> [Messages -> NoteStates]]
    BY <2>1 DEF SteerInv, NoteStates
  <2> QED
    BY <2>1, <2>2 DEF SteerInv, Shut, Waits, Over
<1>6. ASSUME NEW t \in Turns, DrainCloses(t) PROVE SteerInv'
  BY <1>0, <1>6 DEF DrainCloses, SteerInv, Shut, Waits, Over
<1>7. ASSUME NEW t \in Turns, NEW how \in Endings \ {"none"}, EngineEnds(t, how) PROVE SteerInv'
  <2>1. /\ phase[t] \in {"executing", "stopping"}
        /\ how = "ok" => phase[t] = "stopping" \/ signal[t] # "none"
        /\ phase' = [phase EXCEPT ![t] = "returning"] /\ ending' = [ending EXCEPT ![t] = how]
        /\ CloseInbox(t) /\ UNCHANGED <<signal, outcome>>
    BY <1>7 DEF EngineEnds
  <2>2. phase'[t] = "returning" /\ ending'[t] = how /\ ending' \in [Turns -> Endings]
    BY <1>0, <2>1
  <2>3. \A u \in Turns : u # t => phase'[u] = phase[u] /\ ending'[u] = ending[u]
    BY <1>0, <2>1
  <2>4. ASSUME NEW m \in Messages, note'[t][m] = "discarded"
        PROVE  signal[t] # "none" \/ how # "ok"
    <3>1. CASE note[t][m] = "queued"
      BY <2>1, <3>1 DEF SteerInv, Shut, Waits
    <3>2. CASE note[t][m] = "discarded"
      BY <2>1, <3>2 DEF SteerInv, Over
    <3> QED
      BY <2>1, <2>4, <3>1, <3>2, ClosedInbox
  <2>5. \A u \in Turns : u # t => (Over(u)' <=> Over(u)) /\ (Shut(u)' <=> Shut(u))
    BY <2>1, <2>3, ClosedInbox DEF Over, Shut, Waits
  <2>6. Shut(t)' /\ ~Over(t)'
    BY <2>1, <2>2, ClosedInbox DEF Over
  <2>7. ASSUME NEW u \in Turns
        PROVE  /\ phase'[u] = "stopping" => Shut(u)'
               /\ phase'[u] = "returning" => Shut(u)' \/ signal'[u] # "none"
               /\ Over(u)' => Shut(u)'
    BY <2>1, <2>3, <2>5, <2>6 DEF SteerInv
  <2>8. ASSUME NEW u \in Turns, NEW m \in Messages, note'[u][m] = "discarded"
        PROVE  \/ signal'[u] # "none"
               \/ phase'[u] = "returning" /\ ending'[u] # "ok"
               \/ Over(u)' /\ outcome'[u] # "completed"
    <3>1. CASE u = t
      BY <2>1, <2>2, <2>4, <2>8, <3>1
    <3>2. CASE u # t
      BY <2>1, <2>3, <2>5, <2>8, <3>2, ClosedInbox DEF SteerInv
    <3> QED
      BY <3>1, <3>2
  <2> QED
    BY <2>1, <2>2, <2>7, <2>8, ClosedInbox DEF SteerInv
<1>8. ASSUME NEW t \in Turns, RunFault(t) PROVE SteerInv'
  BY <1>8 DEF RunFault, inboxVars, SteerInv, StopInv, Shut, Waits, Over
<1>9. ASSUME NEW t \in Turns, TurnSettles(t) PROVE SteerInv'
  BY <1>0, <1>9, SteerFinishing DEF TurnSettles
<1>10. ASSUME FinishRejected PROVE SteerInv'
  <2>1. Head(chain).turn \in Turns /\ phase[Head(chain).turn] = "finishing"
    BY <1>3, <1>10 DEF FinishRejected, HeadRejected
  <2> QED
    BY <1>0, <1>10, <2>1, SteerFinishing DEF FinishRejected
<1>11. ASSUME FinishLost \/ (\E op \in {"finish", "finishAgain"} : FinishSaved(op)) PROVE SteerInv'
  <2> DEFINE t == Head(chain).turn
  <2>1. PICK p \in {"lost", "done"} : phase' = [phase EXCEPT ![t] = p]
    BY <1>11 DEF FinishLost, FinishSaved
  <2>2. t \in Turns /\ phase[t] = "finishing"
    BY <1>3, <1>11 DEF FinishLost, FinishSaved, HeadSaved, HeadRejected
  <2>3. UNCHANGED <<accepting, note, ending, signal, outcome>>
    BY <1>11 DEF FinishLost, FinishSaved, inboxVars
  <2> HIDE DEF t
  <2> QED
    BY <1>0, <2>1, <2>2, <2>3 DEF SteerInv, Shut, Waits, Over
<1>12. ASSUME NEW t \in Turns, NEW m \in Messages, Steer(t, m) PROVE SteerInv'
  <2>1. /\ accepting[t] /\ note' = [note EXCEPT ![t][m] = "queued"] /\ activeTurn = t
        /\ UNCHANGED <<accepting, ending, phase, signal, outcome>>
    BY <1>12 DEF Steer, turnVars
  <2>2. note' \in [Turns -> [Messages -> NoteStates]]
    BY <2>1 DEF SteerInv, NoteStates
  <2>3. ~Shut(t)
    BY <2>1 DEF Shut
  <2>4. \A u \in Turns : u # t => note'[u] = note[u]
    BY <2>1 DEF SteerInv
  <2>5. \A n \in Messages : note'[t][n] = "discarded" => note[t][n] = "discarded"
    BY <2>1 DEF SteerInv
  <2> QED
    BY <2>1, <2>2, <2>3, <2>4, <2>5 DEF SteerInv, Shut, Waits, Over
<1>13. ASSUME NEW t \in Turns, Interrupt(t) PROVE SteerInv'
  BY <1>13, SteerInterrupt DEF Interrupt
<1>14. ASSUME CloseWaits PROVE SteerInv'
  BY <1>14, SteerInterrupt DEF CloseWaits, TurnInv
<1>15. ASSUME \/ \E t \in Turns, a \in Approvals : RequestApproval(t, a)
              \/ \E a \in Approvals, d \in {"approved", "refused"} : SettleApproval(a, d)
              \/ \E s \in Settings, v \in Values : SetSetting(s, v)
              \/ \E v \in Values : SetWorkspace(v)
              \/ WorkspaceMade \/ CloseProceeds
              \/ SettingSaved \/ CloseSaved \/ SettingRejected \/ CloseRejected
       PROVE  SteerInv'
  BY <1>15, SteerFrame DEF RequestApproval, SettleApproval, SetSetting, SetWorkspace, WorkspaceMade,
                     CloseProceeds, SettingSaved, CloseSaved, SettingRejected, CloseRejected,
                     turnVars, inboxVars, steerParts
<1>16. CASE UNCHANGED vars
  BY <1>16, SteerFrame DEF vars, turnVars, inboxVars, steerParts
<1> QED
  BY <1>1, <1>2, <1>4, <1>5, <1>6, <1>7, <1>8, <1>9, <1>10, <1>11, <1>12, <1>13, <1>14, <1>15,
     <1>16 DEF Next

(* A completed turn has heard every message it accepted, and a turn that is over has none
   waiting: drainOrClose leaves no gap between the last look and the closing of the inbox. *)
THEOREM SteersAreSettled == Spec => []SteersSettled
<1>1. StopInv /\ SteerInv => SteersSettled
  <2> SUFFICES ASSUME StopInv, SteerInv PROVE SteersSettled
    OBVIOUS
  <2>1. ASSUME NEW t \in Turns, outcome[t] = "completed" PROVE signal[t] = "none" /\ Over(t)
    BY <2>1 DEF StopInv, StopIsHonoured, Signals
  <2>2. \A t \in Turns : Over(t) => phase[t] # "returning"
    BY DEF Over
  <2> QED
    BY <2>1, <2>2 DEF SteerInv, SteersSettled, Shut, Waits
<1> QED
  BY <1>1, TurnInit, TurnStep, StopInit, StopStep, SteerInit, SteerStep, PTL DEF Spec

-------------------------------------------------------------------------------
(* Memory and disk *)

diskParts == <<meta, disk, chain, poisoned>>

(* A save that is asked for is a link of the chain. *)
LEMMA PersistIsPending ==
  ASSUME NEW m, NEW queue \in Seq(Jobs), NEW job, Persist(m, queue, job)
  PROVE  chain' # <<>>
BY DEF Persist

LEMMA DiskStep == TurnInv /\ DiskSettles /\ [Next]_vars => DiskSettles'
<1> SUFFICES ASSUME TurnInv, DiskSettles, [Next]_vars PROVE DiskSettles'
  OBVIOUS
<1>0. chain \in Seq(Jobs) /\ (chain # <<>> => Tail(chain) \in Seq(Jobs))
  BY DEF TurnInv, ChainOK
<1>1. ASSUME UNCHANGED diskParts PROVE DiskSettles'
  BY <1>1 DEF diskParts, DiskSettles
<1>2. ASSUME NEW op, HeadSaved(op) PROVE DiskSettles'
  BY <1>2 DEF HeadSaved, DiskSettles
<1>3. ASSUME NEW op, HeadRejected(op) PROVE DiskSettles'
  BY <1>3 DEF HeadRejected, DiskSettles
<1>4. ASSUME NEW m, NEW job, Persist(m, chain, job) PROVE DiskSettles'
  BY <1>0, <1>4, PersistIsPending DEF DiskSettles
<1>5. ASSUME StartSaved \/ SettingSaved \/ CloseSaved \/ (\E op \in {"finish", "finishAgain"} : FinishSaved(op))
      PROVE  DiskSettles'
  BY <1>2, <1>5 DEF StartSaved, SettingSaved, CloseSaved, FinishSaved
<1>6. ASSUME StartRejected \/ SettingRejected \/ CloseRejected \/ FinishRejected \/ FinishLost
      PROVE  DiskSettles'
  BY <1>3, <1>6 DEF StartRejected, SettingRejected, CloseRejected, FinishRejected, FinishLost
<1>7. ASSUME NEW t \in Turns, StartTurn(t) \/ TurnSettles(t) PROVE DiskSettles'
  BY <1>4, <1>7 DEF StartTurn, TurnSettles, Finishing
<1>8. ASSUME \/ \E s \in Settings, v \in Values : SetSetting(s, v)
             \/ WorkspaceMade \/ CloseProceeds
      PROVE  DiskSettles'
  BY <1>4, <1>8 DEF SetSetting, WorkspaceMade, CloseProceeds
<1>9. ASSUME NEW t \in Turns,
             \/ RunnerStarts(t) \/ RunnerRefused(t) \/ Drain(t) \/ DrainCloses(t) \/ RunFault(t)
             \/ Interrupt(t) \/ (\E how \in Endings \ {"none"} : EngineEnds(t, how))
             \/ (\E m \in Messages : Steer(t, m))
             \/ (\E a \in Approvals : RequestApproval(t, a))
      PROVE  DiskSettles'
  BY <1>1, <1>9 DEF RunnerStarts, RunnerRefused, Drain, DrainCloses, RunFault, Interrupt, EngineEnds,
                    Steer, RequestApproval, saveVars, diskParts
<1>10. ASSUME \/ \E a \in Approvals, d \in {"approved", "refused"} : SettleApproval(a, d)
              \/ \E v \in Values : SetWorkspace(v)
              \/ CloseWaits
       PROVE  DiskSettles'
  BY <1>1, <1>10 DEF SettleApproval, SetWorkspace, CloseWaits, saveVars, diskParts
<1>11. CASE UNCHANGED vars
  BY <1>1, <1>11 DEF vars, saveVars, diskParts
<1> QED
  BY <1>5, <1>6, <1>7, <1>8, <1>9, <1>10, <1>11 DEF Next

(* Whenever no save is outstanding and none has failed, the record on disk is the thread's
   metadata: a change that is made during a save is saved by a save of its own. *)
THEOREM DiskAgrees == Spec => []DiskSettles
<1>1. Init => DiskSettles
  BY DEF Init, DiskSettles
<1> QED
  BY <1>1, TurnInit, TurnStep, DiskStep, PTL DEF Spec

-------------------------------------------------------------------------------
(* Types *)

(* The part of TypeOK that no invariant above has. *)
MetaInv ==
  /\ meta \in Metadata /\ disk \in Metadata /\ image \in Metadata
  /\ poisoned \in BOOLEAN /\ failures \in 0..MaxSaveFailures
  /\ closing \in {"no", "waiting", "persisting"}
  /\ moving \in {{}} \cup {{v} : v \in Values}
  /\ wanted \in Config
  /\ changes \in 0..MaxSettingChanges

metaParts == <<meta, disk, image, poisoned, failures, closing, moving, wanted, changes>>

LEMMA MetaInit == Init => MetaInv
<1>1. FirstConfig \in Config
  BY DEF FirstConfig, Config
<1>2. FirstMetadata \in Metadata
  BY <1>1 DEF FirstMetadata, Metadata, Statuses, LastTurns
<1>3. Init => failures \in 0..MaxSaveFailures /\ changes \in 0..MaxSettingChanges
  BY BoundsAssumption DEF Init
<1> QED
  BY <1>1, <1>2, <1>3, Zenon DEF Init, MetaInv

(* A save is asked for with good metadata. *)
LEMMA MetaPersist ==
  ASSUME MetaInv, NEW m \in Metadata, NEW queue, NEW job, Persist(m, queue, job)
  PROVE  meta' \in Metadata /\ image' \in Metadata
BY DEF MetaInv, Persist

LEMMA MetaSettles ==
  ASSUME MetaInv, NEW op, HeadSaved(op) \/ HeadRejected(op)
  PROVE  /\ disk' \in Metadata /\ poisoned' \in BOOLEAN /\ failures' \in 0..MaxSaveFailures
         /\ HeadSaved(op) => meta' \in Metadata /\ image' \in Metadata
<1>1. failures' \in 0..MaxSaveFailures
  BY BoundsAssumption DEF MetaInv, HeadSaved, HeadRejected
<1>2. poisoned' \in BOOLEAN
  BY Zenon DEF MetaInv, HeadSaved, HeadRejected
<1> QED
  BY <1>1, <1>2 DEF MetaInv, HeadSaved, HeadRejected

(* What startTurn and finishTurn write. *)
LEMMA MetaOfTurn ==
  ASSUME MetaInv, NEW t \in Turns, NEW status \in Statuses, NEW last \in Outcomes \cup {"running"}
  PROVE  [meta EXCEPT !.status = status, !.last = [turn |-> t, status |-> last]] \in Metadata
BY DEF MetaInv, Metadata, LastTurns

(* What a setter writes. *)
LEMMA MetaOfSetting ==
  ASSUME MetaInv, NEW s \in Settings, NEW v \in Values
  PROVE  /\ [meta EXCEPT !.config[s] = v] \in Metadata
         /\ [wanted EXCEPT ![s] = v] \in Config
<1>1. meta.config \in Config /\ wanted \in Config
  BY DEF MetaInv, Metadata
<1>2. [meta.config EXCEPT ![s] = v] \in Config /\ [wanted EXCEPT ![s] = v] \in Config
  BY <1>1 DEF Config
<1> QED
  BY <1>2 DEF MetaInv, Metadata

LEMMA MetaFinishing ==
  ASSUME MetaInv, NEW t \in Turns, NEW result \in Outcomes, NEW queue, NEW op,
         Finishing(t, result, queue, op)
  PROVE  meta' \in Metadata /\ image' \in Metadata
<1> DEFINE status == IF result = "failed" THEN "error" ELSE "idle"
           m == [meta EXCEPT !.status = status, !.last = [turn |-> t, status |-> result]]
<1>1. status \in Statuses
  BY DEF Statuses
<1> HIDE DEF status
<1>2. m \in Metadata
  BY <1>1, MetaOfTurn
<1>3. Persist(m, queue, [op |-> op, turn |-> t])
  BY DEF Finishing, status
<1> HIDE DEF m
<1> QED
  BY <1>2, <1>3, MetaPersist

LEMMA MetaStep == TurnInv /\ StopInv /\ MetaInv /\ [Next]_vars => MetaInv'
<1> SUFFICES ASSUME TurnInv, StopInv, MetaInv, [Next]_vars PROVE MetaInv'
  OBVIOUS
<1>0. ASSUME UNCHANGED metaParts PROVE MetaInv'
  BY <1>0 DEF metaParts, MetaInv
<1>1. ASSUME NEW t \in Turns, StartTurn(t) PROVE MetaInv'
  <2>1. [meta EXCEPT !.status = "running", !.last = [turn |-> t, status |-> "running"]] \in Metadata
    BY MetaOfTurn DEF Statuses
  <2>2. meta' \in Metadata /\ image' \in Metadata
    BY <1>1, <2>1, MetaPersist DEF StartTurn
  <2>3. UNCHANGED <<disk, poisoned, failures, closing, moving, wanted, changes>>
    BY <1>1 DEF StartTurn, saveVars, settingVars
  <2> QED
    BY <2>2, <2>3 DEF MetaInv
<1>2. ASSUME NEW t \in Turns, NEW how, NEW queue, NEW op,
             Finishing(t, OutcomeOf(how, signal[t]), queue, op)
      PROVE  meta' \in Metadata /\ image' \in Metadata
  <2>1. OutcomeOf(how, signal[t]) \in Outcomes
    BY OutcomeRespectsSignal DEF StopInv
  <2> QED
    BY <1>2, <2>1, MetaFinishing
<1>3. ASSUME NEW t \in Turns, TurnSettles(t) PROVE MetaInv'
  <2>1. meta' \in Metadata /\ image' \in Metadata
    BY <1>2, <1>3 DEF TurnSettles
  <2> QED
    BY <1>3, <2>1 DEF TurnSettles, saveVars, settingVars, MetaInv
<1>4. ASSUME FinishRejected PROVE MetaInv'
  <2>1. Head(chain).turn \in Turns
    BY <1>4, TailChain, NoTurnAssumption DEF FinishRejected, HeadRejected, TurnInv, JobOK
  <2>2. meta' \in Metadata /\ image' \in Metadata
    BY <1>2, <1>4, <2>1 DEF FinishRejected
  <2>3. disk' \in Metadata /\ poisoned' \in BOOLEAN /\ failures' \in 0..MaxSaveFailures
    BY <1>4, MetaSettles DEF FinishRejected
  <2> QED
    BY <1>4, <2>2, <2>3 DEF FinishRejected, settingVars, MetaInv
<1>5. ASSUME NEW s \in Settings, NEW v \in Values, SetSetting(s, v) PROVE MetaInv'
  <2>1. meta' \in Metadata /\ image' \in Metadata /\ wanted' \in Config
    BY <1>5, MetaOfSetting, MetaPersist DEF SetSetting
  <2>2. changes' \in 0..MaxSettingChanges
    BY <1>5, BoundsAssumption DEF SetSetting, MetaInv
  <2> QED
    BY <1>5, <2>1, <2>2 DEF SetSetting, saveVars, MetaInv
<1>6. ASSUME NEW v \in Values, SetWorkspace(v) PROVE MetaInv'
  <2>1. changes' \in 0..MaxSettingChanges
    BY <1>6, BoundsAssumption DEF SetWorkspace, MetaInv
  <2> QED
    BY <1>6, <2>1 DEF SetWorkspace, saveVars, MetaInv
<1>7. ASSUME WorkspaceMade PROVE MetaInv'
  <2>1. PICK v \in moving :
          /\ moving' = {} /\ wanted' = [wanted EXCEPT !["workspace"] = v]
          /\ Persist([meta EXCEPT !.config["workspace"] = v], chain, [op |-> "set", turn |-> NoTurn])
          /\ UNCHANGED <<disk, poisoned, failures, closing, changes>>
    BY <1>7 DEF WorkspaceMade, saveVars
  <2>2. v \in Values
    BY <2>1 DEF MetaInv
  <2>3. CASE "workspace" \in Settings
    <3>1. meta' \in Metadata /\ image' \in Metadata /\ wanted' \in Config
      BY <2>1, <2>2, <2>3, MetaOfSetting, MetaPersist
    <3> QED
      BY <2>1, <3>1 DEF MetaInv
  <2>4. CASE "workspace" \notin Settings
    <3>1. meta.config \in Config /\ [meta.config EXCEPT !["workspace"] = v] = meta.config
      BY <2>4 DEF MetaInv, Metadata, Config
    <3>2. [wanted EXCEPT !["workspace"] = v] = wanted
      BY <2>4 DEF MetaInv, Config
    <3>3. [meta EXCEPT !.config["workspace"] = v] \in Metadata
      BY <3>1 DEF MetaInv, Metadata
    <3> QED
      BY <2>1, <3>2, <3>3, MetaPersist DEF MetaInv
  <2> QED
    BY <2>3, <2>4
<1>8. ASSUME CloseProceeds PROVE MetaInv'
  <2>1. [meta EXCEPT !.status = "closed"] \in Metadata
    BY DEF MetaInv, Metadata, Statuses
  <2>2. meta' \in Metadata /\ image' \in Metadata
    BY <1>8, <2>1, MetaPersist DEF CloseProceeds
  <2> QED
    BY <1>8, <2>2 DEF CloseProceeds, saveVars, settingVars, MetaInv
<1>9. ASSUME StartSaved \/ SettingSaved \/ CloseSaved \/ (\E op \in {"finish", "finishAgain"} : FinishSaved(op))
      PROVE  MetaInv'
  <2>1. PICK op : HeadSaved(op)
    BY <1>9 DEF StartSaved, SettingSaved, CloseSaved, FinishSaved
  <2>2. closing' \in {"no", closing} /\ UNCHANGED <<moving, wanted, changes>>
    BY <1>9 DEF StartSaved, SettingSaved, CloseSaved, FinishSaved, settingVars
  <2> QED
    BY <2>1, <2>2, MetaSettles DEF MetaInv
<1>10. ASSUME StartRejected \/ SettingRejected \/ CloseRejected \/ FinishLost PROVE MetaInv'
  <2>1. PICK op : HeadRejected(op)
    BY <1>10 DEF StartRejected, SettingRejected, CloseRejected, FinishLost
  <2>2. closing' \in {"no", closing} /\ UNCHANGED <<meta, image, moving, wanted, changes>>
    BY <1>10 DEF StartRejected, SettingRejected, CloseRejected, FinishLost, settingVars
  <2> QED
    BY <2>1, <2>2, MetaSettles DEF MetaInv
<1>11. ASSUME CloseWaits PROVE MetaInv'
  BY <1>11 DEF CloseWaits, saveVars, settingVars, MetaInv
<1>12. ASSUME NEW t \in Turns,
              \/ RunnerStarts(t) \/ RunnerRefused(t) \/ Drain(t) \/ DrainCloses(t) \/ RunFault(t)
              \/ Interrupt(t) \/ (\E how \in Endings \ {"none"} : EngineEnds(t, how))
              \/ (\E m \in Messages : Steer(t, m))
              \/ (\E a \in Approvals : RequestApproval(t, a))
       PROVE  MetaInv'
  BY <1>0, <1>12 DEF RunnerStarts, RunnerRefused, Drain, DrainCloses, RunFault, Interrupt, EngineEnds,
                     Steer, RequestApproval, saveVars, settingVars, metaParts
<1>13. ASSUME \E a \in Approvals, d \in {"approved", "refused"} : SettleApproval(a, d) PROVE MetaInv'
  BY <1>0, <1>13 DEF SettleApproval, saveVars, settingVars, metaParts
<1>14. CASE UNCHANGED vars
  BY <1>0, <1>14 DEF vars, saveVars, settingVars, metaParts
<1> QED
  BY <1>1, <1>3, <1>4, <1>5, <1>6, <1>7, <1>8, <1>9, <1>10, <1>11, <1>12, <1>13, <1>14 DEF Next

(* The types of the thread's state. *)
THEOREM ThreadTypes == Spec => []TypeOK
<1>1. TurnInv /\ AskInv /\ StopInv /\ WordInv /\ SteerInv /\ MetaInv => TypeOK
  BY DEF TurnInv, ChainOK, AskInv, StopInv, WordInv, SteerInv, MetaInv, TypeOK
<1> QED
  BY <1>1, TurnInit, TurnStep, AskInit, AskStep, StopInit, StopStep, WordInit, WordStep,
     SteerInit, SteerStep, MetaInit, MetaStep, PTL DEF Spec

===============================================================================

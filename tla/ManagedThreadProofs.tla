-------------------------- MODULE ManagedThreadProofs -------------------------
(***************************************************************************)
(* Proofs about ManagedThread, for every set of turns, messages, approvals *)
(* and settings and for every number of saves that fail.                   *)
(*                                                                         *)
(* OneActiveTurn is not inductive: whether a save that settles moves the   *)
(* right turn depends on what is in the chain.  ChainOK says it: a link    *)
(* that belongs to a turn finds that turn waiting for it, and no turn has  *)
(* two links.                                                              *)
(***************************************************************************)
EXTENDS ManagedThread, TLAPS

JobOK(job, ph) ==
  \/ job.turn = NoTurn /\ job.op \in {"set", "close"}
  \/ job.turn \in Turns /\ job.op = "start" /\ ph[job.turn] = "starting"
  \/ job.turn \in Turns /\ job.op \in {"finish", "finishAgain"} /\ ph[job.turn] = "finishing"

ChainOK(queue, ph) ==
  /\ queue \in Seq(Jobs)
  /\ \A i \in 1..Len(queue) : JobOK(queue[i], ph)
  /\ \A i, j \in 1..Len(queue) :
       i # j => queue[i].turn # queue[j].turn \/ queue[i].turn = NoTurn

TurnInv ==
  /\ activeTurn \in Turns \cup {NoTurn}
  /\ phase \in [Turns -> Phases]
  /\ ChainOK(chain, phase)
  /\ OneActiveTurn

-------------------------------------------------------------------------------
(* The chain of saves *)

(* Taking the head off leaves a good chain, even if the turn of the head moves. *)
LEMMA TailChain ==
  ASSUME NEW queue, NEW ph \in [Turns -> Phases], ChainOK(queue, ph), queue # <<>>,
         NEW ph2, \A t \in Turns : t # Head(queue).turn => ph2[t] = ph[t],
         Head(queue).turn = NoTurn => ph2 = ph
  PROVE  ChainOK(Tail(queue), ph2) /\ JobOK(Head(queue), ph)
<1> DEFINE rest == Tail(queue)
<1>1. queue \in Seq(Jobs) /\ Len(queue) \in Nat \ {0}
  BY DEF ChainOK
<1>2. rest \in Seq(Jobs) /\ Len(rest) = Len(queue) - 1 /\ Head(queue) = queue[1]
  BY <1>1
<1>3. \A i \in 1..Len(rest) : rest[i] = queue[i + 1] /\ i + 1 \in 1..Len(queue)
  BY <1>1, <1>2
<1>4. ASSUME NEW i \in 1..Len(rest) PROVE JobOK(rest[i], ph2)
  <2>1. JobOK(queue[i + 1], ph)
    BY <1>3 DEF ChainOK
  <2>2. queue[i + 1].turn # Head(queue).turn \/ queue[i + 1].turn = NoTurn
    BY <1>1, <1>2, <1>3 DEF ChainOK
  <2> QED
    BY <1>3, <2>1, <2>2, NoTurnAssumption DEF JobOK
<1>5. ASSUME NEW i \in 1..Len(rest), NEW j \in 1..Len(rest), i # j
      PROVE  rest[i].turn # rest[j].turn \/ rest[i].turn = NoTurn
  <2>1. i + 1 \in 1..Len(queue) /\ j + 1 \in 1..Len(queue) /\ i + 1 # j + 1
    BY <1>3, <1>5
  <2> QED
    BY <1>3, <2>1 DEF ChainOK
<1>6. JobOK(Head(queue), ph)
  BY <1>1, <1>2 DEF ChainOK
<1> HIDE DEF rest
<1>7. ChainOK(rest, ph2)
  BY <1>2, <1>4, <1>5 DEF ChainOK
<1> QED
  BY <1>6, <1>7 DEF rest

(* A link of no turn can be added. *)
LEMMA AppendPlain ==
  ASSUME NEW queue, NEW ph, ChainOK(queue, ph), NEW op \in {"set", "close"}
  PROVE  ChainOK(Append(queue, [op |-> op, turn |-> NoTurn]), ph)
<1> DEFINE job == [op |-> op, turn |-> NoTurn]
           all == Append(queue, job)
<1>1. job \in Jobs /\ JobOK(job, ph) /\ job.turn = NoTurn
  BY DEF Jobs, JobOK
<1>2. queue \in Seq(Jobs) /\ Len(queue) \in Nat
  BY DEF ChainOK
<1> HIDE DEF job
<1>3. all \in Seq(Jobs) /\ Len(all) = Len(queue) + 1 /\ all[Len(queue) + 1] = job
  BY <1>1, <1>2
<1>4. \A i \in 1..Len(queue) : all[i] = queue[i]
  BY <1>1, <1>2
<1>5. \A i \in 1..Len(all) : i \in 1..Len(queue) \/ i = Len(queue) + 1
  BY <1>2, <1>3
<1> HIDE DEF all
<1>6. ChainOK(all, ph)
  BY <1>1, <1>3, <1>4, <1>5 DEF ChainOK
<1> QED
  BY <1>6 DEF all, job

(* A turn that waits for no save has no link, so it can get one, or just move. *)
LEMMA MoveTurn ==
  ASSUME NEW queue, NEW ph \in [Turns -> Phases], ChainOK(queue, ph),
         NEW t \in Turns, ph[t] \notin {"starting", "finishing"}, NEW p \in Phases
  PROVE  /\ ChainOK(queue, [ph EXCEPT ![t] = p])
         /\ \A i \in 1..Len(queue) : queue[i].turn # t
<1>1. \A i \in 1..Len(queue) : queue[i].turn # t
  BY NoTurnAssumption DEF ChainOK, JobOK
<1>2. \A i \in 1..Len(queue) : JobOK(queue[i], [ph EXCEPT ![t] = p])
  BY <1>1 DEF ChainOK, JobOK
<1> QED
  BY <1>1, <1>2 DEF ChainOK

LEMMA AppendTurn ==
  ASSUME NEW queue, NEW ph \in [Turns -> Phases], ChainOK(queue, ph),
         NEW t \in Turns, \A i \in 1..Len(queue) : queue[i].turn # t,
         NEW op \in {"start", "finish", "finishAgain"},
         ph[t] = IF op = "start" THEN "starting" ELSE "finishing"
  PROVE  ChainOK(Append(queue, [op |-> op, turn |-> t]), ph)
<1> DEFINE job == [op |-> op, turn |-> t]
           all == Append(queue, job)
<1>1. job \in Jobs /\ JobOK(job, ph) /\ job.turn = t
  BY DEF Jobs, JobOK
<1>2. queue \in Seq(Jobs) /\ Len(queue) \in Nat
  BY DEF ChainOK
<1> HIDE DEF job
<1>3. all \in Seq(Jobs) /\ Len(all) = Len(queue) + 1 /\ all[Len(queue) + 1] = job
  BY <1>1, <1>2
<1>4. \A i \in 1..Len(queue) : all[i] = queue[i]
  BY <1>1, <1>2
<1>5. \A i \in 1..Len(all) : i \in 1..Len(queue) \/ i = Len(queue) + 1
  BY <1>2, <1>3
<1> HIDE DEF all
<1>6. ChainOK(all, ph)
  BY <1>1, <1>3, <1>4, <1>5 DEF ChainOK
<1> QED
  BY <1>6 DEF all, job

-------------------------------------------------------------------------------
(* One active turn *)

LEMMA TurnInit == Init => TurnInv
BY NoTurnAssumption DEF Init, TurnInv, ChainOK, OneActiveTurn, InFlight, Phases, Jobs

(* A turn in flight moves on, with no save to wait for. *)
LEMMA FlightStep ==
  ASSUME TurnInv, NEW t \in Turns,
         phase[t] \in {"queued", "executing", "stopping", "returning"},
         NEW p \in {"queued", "executing", "stopping", "returning"},
         phase' = [phase EXCEPT ![t] = p],
         UNCHANGED <<chain, activeTurn>>
  PROVE  TurnInv'
<1>1. ChainOK(chain, phase')
  BY MoveTurn DEF TurnInv, Phases
<1>2. OneActiveTurn'
  BY DEF TurnInv, OneActiveTurn, InFlight
<1> QED
  BY <1>1, <1>2 DEF TurnInv, Phases

(* A save is asked for and no turn moves. *)
LEMMA PlainAppendStep ==
  ASSUME TurnInv, NEW op \in {"set", "close"},
         chain' = Append(chain, [op |-> op, turn |-> NoTurn]),
         UNCHANGED <<phase, activeTurn>>
  PROVE  TurnInv'
<1>1. ChainOK(chain', phase')
  BY AppendPlain DEF TurnInv
<1> QED
  BY <1>1 DEF TurnInv, OneActiveTurn, InFlight

(* The save of a setting or of close() settles and no turn moves. *)
LEMMA PlainTailStep ==
  ASSUME TurnInv, chain # <<>>, Head(chain).op \in {"set", "close"},
         chain' = Tail(chain), UNCHANGED <<phase, activeTurn>>
  PROVE  TurnInv'
<1>1. ChainOK(chain', phase')
  BY TailChain DEF TurnInv
<1> QED
  BY <1>1 DEF TurnInv, OneActiveTurn, InFlight

(* The save of a turn settles and that turn moves: what is left is about others. *)
LEMMA TurnTailStep ==
  ASSUME TurnInv, chain # <<>>, NEW t, t = Head(chain).turn,
         Head(chain).op \in {"start", "finish", "finishAgain"},
         NEW p \in Phases, phase' = [phase EXCEPT ![t] = p]
  PROVE  /\ t \in Turns
         /\ phase[t] = IF Head(chain).op = "start" THEN "starting" ELSE "finishing"
         /\ ChainOK(Tail(chain), phase')
         /\ phase' \in [Turns -> Phases]
<1>1. JobOK(Head(chain), phase)
  BY TailChain DEF TurnInv
<1>2. /\ t \in Turns
      /\ phase[t] = IF Head(chain).op = "start" THEN "starting" ELSE "finishing"
  BY <1>1 DEF JobOK
<1>3. \A u \in Turns : u # Head(chain).turn => phase'[u] = phase[u]
  BY <1>2 DEF TurnInv
<1>4. Head(chain).turn # NoTurn
  BY <1>2, NoTurnAssumption
<1>5. ChainOK(Tail(chain), phase')
  BY <1>3, <1>4, TailChain DEF TurnInv
<1> QED
  BY <1>2, <1>5 DEF TurnInv

(* One step of the thread keeps TurnInv. *)
LEMMA TurnStep == TurnInv /\ [Next]_vars => TurnInv'
<1> SUFFICES ASSUME TurnInv, [Next]_vars PROVE TurnInv'
  OBVIOUS
<1>0. activeTurn \in Turns \cup {NoTurn} /\ phase \in [Turns -> Phases]
  BY DEF TurnInv
<1>1. ASSUME NEW t \in Turns, StartTurn(t) PROVE TurnInv'
  <2>1. /\ phase[t] = "new" /\ activeTurn = NoTurn /\ activeTurn' = t
        /\ phase' = [phase EXCEPT ![t] = "starting"]
        /\ chain' = Append(chain, [op |-> "start", turn |-> t])
    BY <1>1 DEF StartTurn, Persist
  <2>2. ChainOK(chain, phase') /\ \A i \in 1..Len(chain) : chain[i].turn # t
    BY <1>0, <2>1, MoveTurn DEF TurnInv, Phases
  <2>3. phase' \in [Turns -> Phases] /\ phase'[t] = "starting"
    BY <1>0, <2>1 DEF Phases
  <2>4. ChainOK(chain', phase')
    BY <2>1, <2>2, <2>3, AppendTurn
  <2>5. InFlight = {}
    BY <2>1, NoTurnAssumption DEF TurnInv, OneActiveTurn, InFlight
  <2>6. OneActiveTurn'
    BY <1>0, <2>1, <2>5 DEF OneActiveTurn, InFlight
  <2> QED
    BY <2>1, <2>3, <2>4, <2>6 DEF TurnInv
<1>2. ASSUME StartSaved PROVE TurnInv'
  <2> DEFINE t == Head(chain).turn
  <2>1. /\ chain # <<>> /\ Head(chain).op = "start" /\ chain' = Tail(chain)
        /\ phase' = [phase EXCEPT ![t] = "queued"] /\ activeTurn' = activeTurn
    BY <1>2 DEF StartSaved, HeadSaved
  <2>2. t \in Turns /\ phase[t] = "starting" /\ ChainOK(chain', phase')
        /\ phase' \in [Turns -> Phases]
    BY <2>1, TurnTailStep DEF Phases
  <2> HIDE DEF t
  <2>3. OneActiveTurn'
    BY <1>0, <2>1, <2>2 DEF TurnInv, OneActiveTurn, InFlight
  <2> QED
    BY <1>0, <2>1, <2>2, <2>3 DEF TurnInv
<1>3. ASSUME StartRejected PROVE TurnInv'
  <2> DEFINE t == Head(chain).turn
  <2>1. /\ chain # <<>> /\ Head(chain).op = "start" /\ chain' = Tail(chain)
        /\ phase' = [phase EXCEPT ![t] = "stuck"] /\ activeTurn' = activeTurn
    BY <1>3 DEF StartRejected, HeadRejected
  <2>2. t \in Turns /\ phase[t] = "starting" /\ ChainOK(chain', phase')
        /\ phase' \in [Turns -> Phases]
    BY <2>1, TurnTailStep DEF Phases
  <2> HIDE DEF t
  <2>3. OneActiveTurn'
    BY <1>0, <2>1, <2>2 DEF TurnInv, OneActiveTurn, InFlight
  <2> QED
    BY <1>0, <2>1, <2>2, <2>3 DEF TurnInv
<1>4. ASSUME NEW t \in Turns, RunnerStarts(t) \/ RunnerRefused(t) \/ DrainCloses(t)
      PROVE  TurnInv'
  BY <1>4, FlightStep DEF RunnerStarts, RunnerRefused, DrainCloses
<1>5. ASSUME NEW t \in Turns, NEW how, EngineEnds(t, how) PROVE TurnInv'
  BY <1>5, FlightStep DEF EngineEnds
<1>6. ASSUME NEW t \in Turns, TurnSettles(t) PROVE TurnInv'
  <2>1. PICK op \in {"finish", "finishAgain"} :
          chain' = Append(chain, [op |-> op, turn |-> t])
    BY <1>6 DEF TurnSettles, Finishing, Persist
  <2>2. /\ phase[t] = "returning" /\ phase' = [phase EXCEPT ![t] = "finishing"]
        /\ activeTurn' = IF activeTurn = t THEN NoTurn ELSE activeTurn
    BY <1>6 DEF TurnSettles, Finishing
  <2>3. activeTurn = t
    BY <2>2 DEF TurnInv, OneActiveTurn, InFlight
  <2>4. ChainOK(chain, phase') /\ \A i \in 1..Len(chain) : chain[i].turn # t
    BY <1>0, <2>2, MoveTurn DEF TurnInv, Phases
  <2>5. phase' \in [Turns -> Phases] /\ phase'[t] = "finishing"
    BY <1>0, <2>2 DEF Phases
  <2>6. ChainOK(chain', phase')
    BY <2>1, <2>4, <2>5, AppendTurn
  <2>7. OneActiveTurn'
    BY <1>0, <2>2, <2>3, NoTurnAssumption DEF TurnInv, OneActiveTurn, InFlight
  <2> QED
    BY <2>2, <2>3, <2>5, <2>6, <2>7 DEF TurnInv
<1>7. ASSUME NEW op \in {"finish", "finishAgain"}, FinishSaved(op) PROVE TurnInv'
  <2> DEFINE t == Head(chain).turn
  <2>1. /\ chain # <<>> /\ Head(chain).op = op /\ chain' = Tail(chain)
        /\ phase' = [phase EXCEPT ![t] = "done"] /\ activeTurn' = activeTurn
    BY <1>7 DEF FinishSaved, HeadSaved
  <2>2. t \in Turns /\ phase[t] = "finishing" /\ ChainOK(chain', phase')
        /\ phase' \in [Turns -> Phases]
    BY <2>1, TurnTailStep DEF Phases
  <2> HIDE DEF t
  <2>3. OneActiveTurn'
    BY <1>0, <2>1, <2>2, NoTurnAssumption DEF TurnInv, OneActiveTurn, InFlight
  <2> QED
    BY <1>0, <2>1, <2>2, <2>3 DEF TurnInv
<1>8. ASSUME FinishRejected PROVE TurnInv'
  <2> DEFINE t == Head(chain).turn
  <2>1. /\ chain # <<>> /\ Head(chain).op = "finish"
        /\ phase' = [phase EXCEPT ![t] = "finishing"]
        /\ activeTurn' = IF activeTurn = t THEN NoTurn ELSE activeTurn
        /\ chain' = Append(Tail(chain), [op |-> "finishAgain", turn |-> t])
    BY <1>8 DEF FinishRejected, HeadRejected, Finishing, Persist
  <2>2. t \in Turns /\ phase[t] = "finishing" /\ ChainOK(Tail(chain), phase')
        /\ phase' \in [Turns -> Phases]
    BY <2>1, TurnTailStep DEF Phases
  <2>3. \A i \in 1..Len(Tail(chain)) : Tail(chain)[i].turn # t
    <3>1. chain \in Seq(Jobs) /\ Head(chain) = chain[1] /\ Len(chain) \in Nat \ {0}
      BY <2>1 DEF TurnInv, ChainOK
    <3>2. \A i \in 1..Len(Tail(chain)) : i + 1 \in 1..Len(chain) /\ Tail(chain)[i] = chain[i + 1]
      BY <3>1
    <3>3. \A i \in 2..Len(chain) : chain[i].turn # t
      BY <2>2, <3>1, NoTurnAssumption DEF TurnInv, ChainOK
    <3> HIDE DEF t
    <3> QED
      BY <3>1, <3>2, <3>3
  <2> HIDE DEF t
  <2>4. ChainOK(chain', phase')
    BY <1>0, <2>1, <2>2, <2>3, AppendTurn
  <2>5. activeTurn # t
    BY <2>2, NoTurnAssumption DEF TurnInv, OneActiveTurn, InFlight
  <2>6. OneActiveTurn'
    BY <1>0, <2>1, <2>2, <2>5, NoTurnAssumption DEF TurnInv, OneActiveTurn, InFlight
  <2> QED
    BY <1>0, <2>1, <2>2, <2>4, <2>5, <2>6 DEF TurnInv
<1>9. ASSUME FinishLost PROVE TurnInv'
  <2> DEFINE t == Head(chain).turn
  <2>1. /\ chain # <<>> /\ Head(chain).op = "finishAgain" /\ chain' = Tail(chain)
        /\ phase' = [phase EXCEPT ![t] = "lost"] /\ activeTurn' = activeTurn
    BY <1>9 DEF FinishLost, HeadRejected
  <2>2. t \in Turns /\ phase[t] = "finishing" /\ ChainOK(chain', phase')
        /\ phase' \in [Turns -> Phases]
    BY <2>1, TurnTailStep DEF Phases
  <2> HIDE DEF t
  <2>3. OneActiveTurn'
    BY <1>0, <2>1, <2>2, NoTurnAssumption DEF TurnInv, OneActiveTurn, InFlight
  <2> QED
    BY <1>0, <2>1, <2>2, <2>3 DEF TurnInv
<1>10. ASSUME NEW s \in Settings, NEW v \in Values, SetSetting(s, v) PROVE TurnInv'
  BY <1>10, PlainAppendStep DEF SetSetting, Persist, turnVars
<1>11. ASSUME WorkspaceMade PROVE TurnInv'
  BY <1>11, PlainAppendStep DEF WorkspaceMade, Persist, turnVars
<1>12. ASSUME CloseProceeds PROVE TurnInv'
  BY <1>12, PlainAppendStep DEF CloseProceeds, Persist, turnVars
<1>13. ASSUME SettingSaved \/ CloseSaved PROVE TurnInv'
  BY <1>13, PlainTailStep DEF SettingSaved, CloseSaved, HeadSaved, turnVars
<1>14. ASSUME SettingRejected \/ CloseRejected PROVE TurnInv'
  BY <1>14, PlainTailStep DEF SettingRejected, CloseRejected, HeadRejected, turnVars
<1>15. ASSUME UNCHANGED <<chain, phase, activeTurn>> PROVE TurnInv'
  BY <1>15 DEF TurnInv, ChainOK, JobOK, OneActiveTurn, InFlight
<1>16. ASSUME NEW t \in Turns,
              \/ Drain(t) \/ RunFault(t) \/ Interrupt(t)
              \/ \E m \in Messages : Steer(t, m)
              \/ \E a \in Approvals : RequestApproval(t, a)
       PROVE  TurnInv'
  BY <1>15, <1>16 DEF Drain, RunFault, Interrupt, Steer, RequestApproval, turnVars
<1>17. ASSUME NEW a \in Approvals, NEW d, SettleApproval(a, d) PROVE TurnInv'
  BY <1>15, <1>17 DEF SettleApproval, turnVars
<1>18. ASSUME CloseWaits \/ (\E v \in Values : SetWorkspace(v)) PROVE TurnInv'
  BY <1>15, <1>18 DEF CloseWaits, SetWorkspace, turnVars
<1>19. CASE UNCHANGED vars
  BY <1>15, <1>19 DEF vars, turnVars
<1> QED
  BY <1>1, <1>2, <1>3, <1>4, <1>5, <1>6, <1>7, <1>8, <1>9, <1>10, <1>11, <1>12, <1>13, <1>14,
     <1>16, <1>17, <1>18, <1>19 DEF Next

(* A thread has one turn at a time: whatever saves are in flight, late or failed, the
   turns between startTurn and finishTurn are the active one and no other. *)
THEOREM OneTurnAtATime == Spec => []OneActiveTurn
<1>1. TurnInv => OneActiveTurn
  BY DEF TurnInv
<1> QED
  BY <1>1, TurnInit, TurnStep, PTL DEF Spec

-------------------------------------------------------------------------------
(* Approvals *)

AskInv ==
  /\ ask \in [Approvals -> AskStates]
  /\ askTurn \in [Approvals -> Turns \cup {NoTurn}]
  /\ signal \in [Turns -> Signals]
  /\ \A a \in Approvals : ask[a] = "pending" => askTurn[a] \in Turns
  /\ PendingApprovalIsLive

askParts == <<ask, askTurn, signal, activeTurn>>

LEMMA AskInit == Init => AskInv
BY DEF Init, AskInv, AskStates, Signals, PendingApprovalIsLive

(* With every pending approval cancelled, the rest may change as it likes. *)
LEMMA CancelStep ==
  ASSUME AskInv, CancelApprovals, signal' \in [Turns -> Signals]
  PROVE  AskInv'
<1>1. ask' \in [Approvals -> AskStates] /\ \A a \in Approvals : ask'[a] # "pending"
  BY DEF AskInv, CancelApprovals, AskStates
<1> QED
  BY <1>1 DEF AskInv, CancelApprovals, PendingApprovalIsLive

(* An interrupt or a fault sets a signal once. *)
LEMMA InterruptSignals ==
  ASSUME AskInv, NEW t \in Turns, InterruptTurn(t)
  PROVE  signal' \in [Turns -> Signals]
BY DEF AskInv, InterruptTurn, Signals

LEMMA AskStep == TurnInv /\ AskInv /\ [Next]_vars => AskInv'
<1> SUFFICES ASSUME TurnInv, AskInv, [Next]_vars PROVE AskInv'
  OBVIOUS
<1>0. ASSUME UNCHANGED askParts PROVE AskInv'
  BY <1>0 DEF askParts, AskInv, PendingApprovalIsLive
<1>1. ASSUME NEW t \in Turns, StartTurn(t) PROVE AskInv'
  <2>1. \A a \in Approvals : ask[a] # "pending"
    BY <1>1, NoTurnAssumption DEF StartTurn, AskInv, PendingApprovalIsLive
  <2> QED
    BY <1>1, <2>1 DEF StartTurn, askVars, AskInv, PendingApprovalIsLive
<1>2. ASSUME NEW t \in Turns, TurnSettles(t) PROVE AskInv'
  BY <1>2, CancelStep DEF TurnSettles, Finishing, AskInv
<1>3. ASSUME FinishRejected PROVE AskInv'
  BY <1>3, CancelStep DEF FinishRejected, Finishing, AskInv
<1>4. ASSUME CloseProceeds PROVE AskInv'
  BY <1>4, CancelStep DEF CloseProceeds, turnVars, AskInv
<1>5. ASSUME NEW t \in Turns, Interrupt(t) PROVE AskInv'
  BY <1>5, CancelStep, InterruptSignals DEF Interrupt, InterruptTurn
<1>6. ASSUME CloseWaits PROVE AskInv'
  <2>1. activeTurn \in Turns /\ InterruptTurn(activeTurn)
    BY <1>6 DEF CloseWaits, TurnInv
  <2> QED
    BY <2>1, CancelStep, InterruptSignals DEF InterruptTurn
<1>7. ASSUME NEW t \in Turns, RunFault(t) PROVE AskInv'
  <2>1. /\ signal' = [signal EXCEPT ![t] = "fault"]
        /\ ask' = [a \in Approvals |->
             IF ask[a] = "pending" /\ askTurn[a] = t THEN "refused" ELSE ask[a]]
        /\ UNCHANGED <<askTurn, activeTurn>>
    BY <1>7 DEF RunFault
  <2>2. ask' \in [Approvals -> AskStates] /\ signal' \in [Turns -> Signals]
    BY <2>1 DEF AskInv, AskStates, Signals
  <2> QED
    BY <2>1, <2>2 DEF AskInv, PendingApprovalIsLive
<1>8. ASSUME NEW t \in Turns, NEW a \in Approvals, RequestApproval(t, a) PROVE AskInv'
  <2>1. phase[t] = "executing" /\ activeTurn = t
    BY <1>8 DEF RequestApproval, TurnInv, OneActiveTurn, InFlight
  <2>2. /\ ask' = [ask EXCEPT ![a] =
             IF activeTurn = NoTurn \/ signal[t] # "none" THEN "refused" ELSE "pending"]
        /\ askTurn' = [askTurn EXCEPT ![a] = t]
        /\ UNCHANGED <<signal, activeTurn>>
    BY <1>8 DEF RequestApproval, turnVars
  <2>3. ask' \in [Approvals -> AskStates] /\ askTurn' \in [Approvals -> Turns \cup {NoTurn}]
    BY <2>2 DEF AskInv, AskStates
  <2> QED
    BY <2>1, <2>2, <2>3 DEF AskInv, PendingApprovalIsLive
<1>9. ASSUME NEW a \in Approvals, NEW d \in {"approved", "refused"}, SettleApproval(a, d)
      PROVE  AskInv'
  <2>1. ask' = [ask EXCEPT ![a] = d] /\ UNCHANGED <<askTurn, signal, activeTurn>>
    BY <1>9 DEF SettleApproval, turnVars
  <2>2. ask' \in [Approvals -> AskStates]
    BY <2>1 DEF AskInv, AskStates
  <2> QED
    BY <2>1, <2>2 DEF AskInv, PendingApprovalIsLive
<1>10. ASSUME NEW t \in Turns,
              \/ RunnerStarts(t) \/ RunnerRefused(t) \/ Drain(t) \/ DrainCloses(t)
              \/ (\E how \in Endings \ {"none"} : EngineEnds(t, how))
              \/ (\E m \in Messages : Steer(t, m))
       PROVE  AskInv'
  BY <1>0, <1>10 DEF RunnerStarts, RunnerRefused, Drain, DrainCloses, EngineEnds, Steer, turnVars,
                     askVars, askParts
<1>11. ASSUME \/ StartSaved \/ StartRejected \/ FinishLost
              \/ \E op \in {"finish", "finishAgain"} : FinishSaved(op)
       PROVE  AskInv'
  BY <1>0, <1>11 DEF StartSaved, StartRejected, FinishLost, FinishSaved, askVars, askParts
<1>12. ASSUME \/ SettingSaved \/ CloseSaved \/ SettingRejected \/ CloseRejected \/ WorkspaceMade
              \/ (\E v \in Values : SetWorkspace(v))
              \/ (\E s \in Settings, v \in Values : SetSetting(s, v))
       PROVE  AskInv'
  BY <1>0, <1>12 DEF SettingSaved, CloseSaved, SettingRejected, CloseRejected, WorkspaceMade,
                     SetWorkspace, SetSetting, turnVars, askVars, askParts
<1>13. CASE UNCHANGED vars
  BY <1>0, <1>13 DEF vars, turnVars, askVars, askParts
<1> QED
  BY <1>1, <1>2, <1>3, <1>4, <1>5, <1>6, <1>7, <1>8, <1>9, <1>10, <1>11, <1>12, <1>13 DEF Next

(* An approval waits only for the active turn, and only while nothing aborts it. *)
THEOREM PendingIsLive == Spec => []PendingApprovalIsLive
<1>1. TurnInv /\ AskInv => PendingApprovalIsLive
  BY DEF AskInv
<1> QED
  BY <1>1, TurnInit, AskInit, TurnStep, AskStep, PTL DEF Spec

(* What one step may do to an approval. *)
LEMMA ApprovalStep ==
  ASSUME TurnInv, AskInv, [Next]_vars, NEW a \in Approvals
  PROVE  /\ ask[a] \in {"approved", "refused"} => ask'[a] = ask[a]
         /\ (ask'[a] = "approved" /\ ask[a] # "approved") =>
              activeTurn = askTurn[a] /\ signal[askTurn[a]] = "none"
<1> DEFINE Kept == ask'[a] = ask[a]
           Goal == /\ ask[a] \in {"approved", "refused"} => ask'[a] = ask[a]
                   /\ (ask'[a] = "approved" /\ ask[a] # "approved") =>
                        activeTurn = askTurn[a] /\ signal[askTurn[a]] = "none"
<1>1. ASSUME CancelApprovals PROVE Goal
  BY <1>1 DEF CancelApprovals
<1>2. ASSUME UNCHANGED ask PROVE Goal
  BY <1>2
<1>3. ASSUME NEW t \in Turns, TurnSettles(t) \/ Interrupt(t) PROVE Goal
  BY <1>1, <1>3 DEF TurnSettles, Finishing, Interrupt, InterruptTurn
<1>4. ASSUME FinishRejected \/ CloseProceeds \/ CloseWaits PROVE Goal
  BY <1>1, <1>4 DEF FinishRejected, Finishing, CloseProceeds, CloseWaits, InterruptTurn
<1>5. ASSUME NEW t \in Turns, RunFault(t) PROVE Goal
  BY <1>5 DEF RunFault
<1>6. ASSUME NEW t \in Turns, NEW b \in Approvals, RequestApproval(t, b) PROVE Goal
  BY <1>6 DEF RequestApproval, AskInv
<1>7. ASSUME NEW b \in Approvals, NEW d \in {"approved", "refused"}, SettleApproval(b, d)
      PROVE  Goal
  BY <1>7 DEF SettleApproval, AskInv, PendingApprovalIsLive
<1>8. ASSUME NEW t \in Turns,
             \/ StartTurn(t) \/ RunnerStarts(t) \/ RunnerRefused(t) \/ Drain(t) \/ DrainCloses(t)
             \/ (\E how \in Endings \ {"none"} : EngineEnds(t, how))
             \/ (\E m \in Messages : Steer(t, m))
      PROVE  Goal
  BY <1>2, <1>8 DEF StartTurn, RunnerStarts, RunnerRefused, Drain, DrainCloses, EngineEnds, Steer,
                    askVars
<1>9. ASSUME \/ StartSaved \/ StartRejected \/ FinishLost
             \/ (\E op \in {"finish", "finishAgain"} : FinishSaved(op))
             \/ SettingSaved \/ CloseSaved \/ SettingRejected \/ CloseRejected \/ WorkspaceMade
             \/ (\E v \in Values : SetWorkspace(v))
             \/ (\E s \in Settings, v \in Values : SetSetting(s, v))
      PROVE  Goal
  BY <1>2, <1>9 DEF StartSaved, StartRejected, FinishLost, FinishSaved, SettingSaved, CloseSaved,
                    SettingRejected, CloseRejected, WorkspaceMade, SetWorkspace, SetSetting, askVars
<1>10. CASE UNCHANGED vars
  BY <1>2, <1>10 DEF vars, askVars
<1> QED
  BY <1>3, <1>4, <1>5, <1>6, <1>7, <1>8, <1>9, <1>10 DEF Next

(* No interrupt, fault, close or end of a turn leaves a way to approve a tool call of
   it later, and a decision once taken stays. *)
THEOREM NothingApprovedLate == Spec => NoLateApproval
<1>1. TurnInv /\ AskInv /\ [Next]_vars =>
        [\A a \in Approvals :
           /\ ask[a] \in {"approved", "refused"} => ask'[a] = ask[a]
           /\ (ask'[a] = "approved" /\ ask[a] # "approved") =>
                activeTurn = askTurn[a] /\ signal[askTurn[a]] = "none"]_vars
  BY ApprovalStep
<1> QED
  BY <1>1, TurnInit, AskInit, TurnStep, AskStep, PTL DEF Spec, NoLateApproval
===============================================================================

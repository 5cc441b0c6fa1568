---------------------------- MODULE ApprovalGate ----------------------------
(***************************************************************************)
(* What a tool that asks for approval is promised, whatever happens on the *)
(* way to the reviewer and back (README.md:330, managed-thread.ts:364):    *)
(* the question gets one verdict, the verdict never changes, and it is     *)
(* "approved" only after a reviewer who was asked said so.                 *)
(***************************************************************************)
CONSTANT Asks            \* questions, one for each approvalId

VARIABLES verdict,       \* verdict[a]: what the tool was told
          consent        \* consent[a]: a reviewer accepted

gateVars == <<verdict, consent>>

Refusals == {"denied", "cancelled", "timeout"}
Verdicts == {"none", "pending", "approved"} \cup Refusals

GateInit ==
  /\ verdict = [a \in Asks |-> "none"]
  /\ consent = [a \in Asks |-> FALSE]

\* The moves open to one question. Several questions may move in one step: the
\* end of a turn refuses all of its own.
Rest(a)   == verdict'[a] = verdict[a]
Open(a)   == verdict[a] = "none" /\ verdict'[a] = "pending"
Grant(a)  == verdict[a] = "pending" /\ consent[a] /\ verdict'[a] = "approved"
Refuse(a) == verdict[a] = "pending" /\ verdict'[a] \in Refusals

\* A reviewer says yes once, to a question that has been asked, also too late.
Accept(a) == consent'[a] = consent[a] \/ (verdict[a] # "none" /\ consent'[a])

GateNext ==
  /\ verdict' \in [Asks -> Verdicts]
  /\ consent' \in [Asks -> BOOLEAN]
  /\ \A a \in Asks : Rest(a) \/ Open(a) \/ Grant(a) \/ Refuse(a)
  /\ \A a \in Asks : Accept(a)

GateSpec == GateInit /\ [][GateNext]_gateVars
=============================================================================

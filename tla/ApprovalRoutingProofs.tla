----------------------- MODULE ApprovalRoutingProofs -----------------------
(***************************************************************************)
(* Proofs about ApprovalRouting, for any reviewers, turns and questions:   *)
(* the four tables that describe one question agree enough, at every       *)
(* step, for a question to have one verdict, and for that verdict to be    *)
(* what the screens are cleared with.                                      *)
(***************************************************************************)
EXTENDS ApprovalRouting, TLAPS

(* How the tables of one question hang together. *)
Talk(a) ==
  /\ ask[a] = "none" => /\ route[a] = "idle" /\ asked[a] = NoOne
                        /\ ~outstanding[a] /\ prompt[a] = NoOne /\ heard[a] = {}
  /\ route[a] \in {"idle", "waiting"} => reply[a] = "none"
  /\ route[a] = "answered" => reply[a] # "none"
  /\ route[a] = "answered" /\ asked[a] = Hub => prompt[a] = NoOne
  /\ prompt[a] # NoOne => asked[a] = ConnOf(prompt[a])
  /\ limit = "short" /\ prompt[a] # NoOne =>
       ask[a] = "pending" /\ route[a] = "waiting" /\ outstanding[a]
  /\ heard[a] \subseteq {ask[a]}

(* Who holds a turn: while its starter is there and nobody repeated turn/start,
   the owner is the starter's connection and, once it is claimed, the hub's claim
   the starter. *)
Held(t) ==
  /\ t \in retry => t \in retried
  /\ turn[t] \in {"running", "stopped"} /\ t \notin retried /\ starter[t] \in open
       => owner[t] = ConnOf(starter[t])
  /\ turn[t] = "new" => starter[t] = NoOne
  /\ t \in unclaimed => starter[t] \in Tabs
  /\ starter[t] \in Tabs \cap open /\ t \notin unclaimed => claim[t] = starter[t]

IInv == /\ TypeOK
        /\ \A a \in Asks : Talk(a)
        /\ \A t \in Turns : Held(t)

LEMMA InitInv == Init => IInv
<1> SUFFICES ASSUME Init PROVE IInv
  OBVIOUS
<1>1. TypeOK
  BY DEF Init, TypeOK, Reviewers, Conns, Settled, Replies, Routes
<1>2. \A a \in Asks : Talk(a)
  BY ReviewersAssumption DEF Init, Talk
<1>3. \A t \in Turns : Held(t)
  BY ReviewersAssumption DEF Init, Held, Reviewers
<1> QED
  BY <1>1, <1>2, <1>3 DEF IInv

(* Every handler keeps every table within its type. *)
LEMMA TypeStep ==
  ASSUME IInv, [Next]_vars
  PROVE  TypeOK'
<1> USE ReviewersAssumption
<1>1. ASSUME NEW t \in Turns, NEW r \in Reviewers, StartTurn(r, t) PROVE TypeOK'
  BY <1>1 DEF StartTurn, IInv, Talk, TypeOK, people, turns, tables, Reviewers, Conns, ConnOf, Settled, Replies, Routes
<1>2. ASSUME NEW t \in Turns, NEW r \in Reviewers, RepeatStart(r, t) PROVE TypeOK'
  BY <1>2 DEF RepeatStart, IInv, Talk, TypeOK, people, turns, tables, Reviewers, Conns, ConnOf, Settled, Replies, Routes
<1>3. ASSUME NEW t \in Turns, RepeatRefused(t) PROVE TypeOK'
  BY <1>3 DEF RepeatRefused, IInv, Talk, TypeOK, people, turns, tables, Reviewers, Conns, ConnOf, Settled, Replies, Routes
<1>4. ASSUME NEW t \in Turns, StopTurn(t) PROVE TypeOK'
  BY <1>4 DEF StopTurn, Settle, Announce, PendingOf, IInv, Talk, TypeOK, people, turns, tables, Reviewers, Conns, ConnOf, Settled, Replies, Routes
<1>5. ASSUME NEW t \in Turns, EndTurn(t) PROVE TypeOK'
  BY <1>5 DEF EndTurn, Settle, Announce, PendingOf, IInv, Talk, TypeOK, people, turns, tables, Reviewers, Conns, ConnOf, Settled, Replies, Routes
<1>6. ASSUME NEW t \in Turns, LoseThread(t) PROVE TypeOK'
  BY <1>6 DEF LoseThread, IInv, Talk, TypeOK, people, turns, tables, Reviewers, Conns, ConnOf, Settled, Replies, Routes
<1>7. ASSUME NEW t \in Turns, NEW a \in Asks, RequestApproval(a, t) PROVE TypeOK'
  <2>1. CASE owner[t] \in Clients \cap open /\ Sent(a, owner[t], owner[t])
    BY <1>7, <2>1 DEF Sent, RequestApproval, PickReviewer, IInv, Talk, TypeOK, people, turns, tables, Reviewers, Conns, ConnOf, Settled, Replies, Routes
  <2>2. ASSUME owner[t] = Hub, NEW r \in PickReviewer(t), Sent(a, Hub, r) PROVE TypeOK'
    BY <1>7, <2>2 DEF Sent, RequestApproval, PickReviewer, IInv, Talk, TypeOK, people, turns, tables, Reviewers, Conns, ConnOf, Settled, Replies, Routes
  <2>3. CASE NoTab(a, t)
    BY <1>7, <2>3 DEF NoTab, RequestApproval, PickReviewer, IInv, Talk, TypeOK, people, turns, tables, Reviewers, Conns, ConnOf, Settled, Replies, Routes
  <2>4. CASE NotSent(a, t)
    BY <1>7, <2>4 DEF NotSent, RequestApproval, PickReviewer, IInv, Talk, TypeOK, people, turns, tables, Reviewers, Conns, ConnOf, Settled, Replies, Routes
  <2> QED
    BY <1>7, <2>1, <2>2, <2>3, <2>4 DEF RequestApproval
<1>8. ASSUME NEW a \in Asks, NEW d \in Replies, ClientAnswers(a, d) PROVE TypeOK'
  BY <1>8 DEF ClientAnswers, Answered, IInv, Talk, TypeOK, people, turns, tables, Reviewers, Conns, ConnOf, Settled, Replies, Routes
<1>9. ASSUME NEW a \in Asks, NEW d \in Replies, TabAnswers(a, d) PROVE TypeOK'
  BY <1>9 DEF TabAnswers, Answered, IInv, Talk, TypeOK, people, turns, tables, Reviewers, Conns, ConnOf, Settled, Replies, Routes
<1>10. ASSUME NEW a \in Asks, ClientAnswersBadly(a) PROVE TypeOK'
  BY <1>10 DEF ClientAnswersBadly, IInv, Talk, TypeOK, people, turns, tables, Reviewers, Conns, ConnOf, Settled, Replies, Routes
<1>11. ASSUME NEW a \in Asks, Continue(a) PROVE TypeOK'
  BY <1>11 DEF Continue, Announce, IInv, Talk, TypeOK, people, turns, tables, Reviewers, Conns, ConnOf, Settled, Replies, Routes
<1>12. ASSUME NEW a \in Asks, Resolve(a) PROVE TypeOK'
  BY <1>12 DEF Resolve, Settle, Announce, PendingOf, IInv, Talk, TypeOK, people, turns, tables, Reviewers, Conns, ConnOf, Settled, Replies, Routes
<1>13. ASSUME NEW a \in Asks, ThreadTimer(a) PROVE TypeOK'
  BY <1>13 DEF ThreadTimer, Settle, Announce, PendingOf, IInv, Talk, TypeOK, people, turns, tables, Reviewers, Conns, ConnOf, Settled, Replies, Routes
<1>14. ASSUME NEW a \in Asks, RouterTimer(a) PROVE TypeOK'
  BY <1>14 DEF RouterTimer, IInv, Talk, TypeOK, people, turns, tables, Reviewers, Conns, ConnOf, Settled, Replies, Routes
<1>15. ASSUME NEW c \in Clients, Disconnect(c) PROVE TypeOK'
  BY <1>15 DEF Disconnect, IInv, Talk, TypeOK, people, turns, tables, Reviewers, Conns, ConnOf, Settled, Replies, Routes
<1>16. ASSUME NEW b \in Tabs, CloseTab(b) PROVE TypeOK'
  BY <1>16 DEF CloseTab, Answered, IInv, Talk, TypeOK, people, turns, tables, Reviewers, Conns, ConnOf, Settled, Replies, Routes
<1>17. CASE Shutdown
  BY <1>17 DEF Shutdown, IInv, Talk, TypeOK, people, turns, tables, Reviewers, Conns, ConnOf, Settled, Replies, Routes
<1>18. CASE UNCHANGED vars
  BY <1>18 DEF vars, IInv, Talk, TypeOK, people, turns, tables, Reviewers, Conns, ConnOf, Settled, Replies, Routes
<1>19. ASSUME NEW t \in Turns, ClaimTurn(t) PROVE TypeOK'
  BY <1>19 DEF ClaimTurn, IInv, Talk, Held, TypeOK, people, turns, tables, Reviewers, Conns, ConnOf, Settled, Replies, Routes
<1> QED
  BY <1>1, <1>2, <1>3, <1>4, <1>5, <1>6, <1>7, <1>8, <1>9, <1>10, <1>11, <1>12, <1>13, <1>14, <1>15, <1>16, <1>17, <1>18, <1>19 DEF Next

(* Every handler leaves the tables of every question in agreement. *)
LEMMA TalkStep ==
  ASSUME IInv, [Next]_vars, NEW x \in Asks
  PROVE  Talk(x)'
<1> USE ReviewersAssumption
<1>1. ASSUME NEW t \in Turns, NEW r \in Reviewers, StartTurn(r, t) PROVE Talk(x)'
  BY <1>1 DEF StartTurn, IInv, Talk, TypeOK, people, turns, tables, Reviewers, Conns, ConnOf, Settled, Replies
<1>2. ASSUME NEW t \in Turns, NEW r \in Reviewers, RepeatStart(r, t) PROVE Talk(x)'
  BY <1>2 DEF RepeatStart, IInv, Talk, TypeOK, people, turns, tables, Reviewers, Conns, ConnOf, Settled, Replies
<1>3. ASSUME NEW t \in Turns, RepeatRefused(t) PROVE Talk(x)'
  BY <1>3 DEF RepeatRefused, IInv, Talk, TypeOK, people, turns, tables, Reviewers, Conns, ConnOf, Settled, Replies
<1>4. ASSUME NEW t \in Turns, StopTurn(t) PROVE Talk(x)'
  BY <1>4 DEF StopTurn, Settle, Announce, PendingOf, IInv, Talk, TypeOK, people, turns, tables, Reviewers, Conns, ConnOf, Settled, Replies
<1>5. ASSUME NEW t \in Turns, EndTurn(t) PROVE Talk(x)'
  BY <1>5 DEF EndTurn, Settle, Announce, PendingOf, IInv, Talk, TypeOK, people, turns, tables, Reviewers, Conns, ConnOf, Settled, Replies
<1>6. ASSUME NEW t \in Turns, LoseThread(t) PROVE Talk(x)'
  BY <1>6 DEF LoseThread, IInv, Talk, TypeOK, people, turns, tables, Reviewers, Conns, ConnOf, Settled, Replies
<1>7. ASSUME NEW t \in Turns, NEW a \in Asks, RequestApproval(a, t) PROVE Talk(x)'
  <2>1. CASE owner[t] \in Clients \cap open /\ Sent(a, owner[t], owner[t])
    BY <1>7, <2>1 DEF Sent, RequestApproval, PickReviewer, IInv, Talk, TypeOK, people, turns, tables, Reviewers, Conns, ConnOf, Settled, Replies
  <2>2. ASSUME owner[t] = Hub, NEW r \in PickReviewer(t), Sent(a, Hub, r) PROVE Talk(x)'
    BY <1>7, <2>2 DEF Sent, RequestApproval, PickReviewer, IInv, Talk, TypeOK, people, turns, tables, Reviewers, Conns, ConnOf, Settled, Replies
  <2>3. CASE NoTab(a, t)
    BY <1>7, <2>3 DEF NoTab, RequestApproval, PickReviewer, IInv, Talk, TypeOK, people, turns, tables, Reviewers, Conns, ConnOf, Settled, Replies
  <2>4. CASE NotSent(a, t)
    BY <1>7, <2>4 DEF NotSent, RequestApproval, PickReviewer, IInv, Talk, TypeOK, people, turns, tables, Reviewers, Conns, ConnOf, Settled, Replies
  <2> QED
    BY <1>7, <2>1, <2>2, <2>3, <2>4 DEF RequestApproval
<1>8. ASSUME NEW a \in Asks, NEW d \in Replies, ClientAnswers(a, d) PROVE Talk(x)'
  BY <1>8 DEF ClientAnswers, Answered, IInv, Talk, TypeOK, people, turns, tables, Reviewers, Conns, ConnOf, Settled, Replies
<1>9. ASSUME NEW a \in Asks, NEW d \in Replies, TabAnswers(a, d) PROVE Talk(x)'
  BY <1>9 DEF TabAnswers, Answered, IInv, Talk, TypeOK, people, turns, tables, Reviewers, Conns, ConnOf, Settled, Replies
<1>10. ASSUME NEW a \in Asks, ClientAnswersBadly(a) PROVE Talk(x)'
  BY <1>10 DEF ClientAnswersBadly, IInv, Talk, TypeOK, people, turns, tables, Reviewers, Conns, ConnOf, Settled, Replies
<1>11. ASSUME NEW a \in Asks, Continue(a) PROVE Talk(x)'
  BY <1>11 DEF Continue, Announce, IInv, Talk, TypeOK, people, turns, tables, Reviewers, Conns, ConnOf, Settled, Replies
<1>12. ASSUME NEW a \in Asks, Resolve(a) PROVE Talk(x)'
  BY <1>12 DEF Resolve, Settle, Announce, PendingOf, IInv, Talk, TypeOK, people, turns, tables, Reviewers, Conns, ConnOf, Settled, Replies
<1>13. ASSUME NEW a \in Asks, ThreadTimer(a) PROVE Talk(x)'
  BY <1>13 DEF ThreadTimer, Settle, Announce, PendingOf, IInv, Talk, TypeOK, people, turns, tables, Reviewers, Conns, ConnOf, Settled, Replies
<1>14. ASSUME NEW a \in Asks, RouterTimer(a) PROVE Talk(x)'
  BY <1>14 DEF RouterTimer, IInv, Talk, TypeOK, people, turns, tables, Reviewers, Conns, ConnOf, Settled, Replies
<1>15. ASSUME NEW c \in Clients, Disconnect(c) PROVE Talk(x)'
  BY <1>15 DEF Disconnect, IInv, Talk, TypeOK, people, turns, tables, Reviewers, Conns, ConnOf, Settled, Replies
<1>16. ASSUME NEW b \in Tabs, CloseTab(b) PROVE Talk(x)'
  BY <1>16 DEF CloseTab, Answered, IInv, Talk, TypeOK, people, turns, tables, Reviewers, Conns, ConnOf, Settled, Replies
<1>17. CASE Shutdown
  BY <1>17 DEF Shutdown, IInv, Talk, TypeOK, people, turns, tables, Reviewers, Conns, ConnOf, Settled, Replies
<1>18. CASE UNCHANGED vars
  BY <1>18 DEF vars, IInv, Talk, TypeOK, people, turns, tables, Reviewers, Conns, ConnOf, Settled, Replies
<1>19. ASSUME NEW t \in Turns, ClaimTurn(t) PROVE Talk(x)'
  BY <1>19 DEF ClaimTurn, IInv, Talk, TypeOK, people, turns, tables, Reviewers, Conns, ConnOf, Settled, Replies
<1> QED
  BY <1>1, <1>2, <1>3, <1>4, <1>5, <1>6, <1>7, <1>8, <1>9, <1>10, <1>11, <1>12, <1>13, <1>14, <1>15, <1>16, <1>17, <1>18, <1>19 DEF Next

(* Every handler leaves a turn with its starter. *)
LEMMA HeldStep ==
  ASSUME IInv, [Next]_vars, NEW x \in Turns
  PROVE  Held(x)'
<1> USE ReviewersAssumption
<1>1. ASSUME NEW t \in Turns, NEW r \in Reviewers, StartTurn(r, t) PROVE Held(x)'
  BY <1>1 DEF StartTurn, IInv, Held, TypeOK, people, turns, tables, Reviewers, Conns, ConnOf
<1>2. ASSUME NEW t \in Turns, NEW r \in Reviewers, RepeatStart(r, t) PROVE Held(x)'
  BY <1>2 DEF RepeatStart, IInv, Held, TypeOK, people, turns, tables, Reviewers, Conns, ConnOf
<1>3. ASSUME NEW t \in Turns, RepeatRefused(t) PROVE Held(x)'
  BY <1>3 DEF RepeatRefused, IInv, Held, TypeOK, people, turns, tables, Reviewers, Conns, ConnOf
<1>4. ASSUME NEW t \in Turns, StopTurn(t) PROVE Held(x)'
  BY <1>4 DEF StopTurn, Settle, Announce, PendingOf, IInv, Held, TypeOK, people, turns, tables, Reviewers, Conns, ConnOf
<1>5. ASSUME NEW t \in Turns, EndTurn(t) PROVE Held(x)'
  BY <1>5 DEF EndTurn, Settle, Announce, PendingOf, IInv, Held, TypeOK, people, turns, tables, Reviewers, Conns, ConnOf
<1>6. ASSUME NEW t \in Turns, LoseThread(t) PROVE Held(x)'
  BY <1>6 DEF LoseThread, IInv, Held, TypeOK, people, turns, tables, Reviewers, Conns, ConnOf
<1>7. ASSUME NEW t \in Turns, NEW a \in Asks, RequestApproval(a, t) PROVE Held(x)'
  <2>1. CASE owner[t] \in Clients \cap open /\ Sent(a, owner[t], owner[t])
    BY <1>7, <2>1 DEF Sent, RequestApproval, PickReviewer, IInv, Held, TypeOK, people, turns, tables, Reviewers, Conns, ConnOf
  <2>2. ASSUME owner[t] = Hub, NEW r \in PickReviewer(t), Sent(a, Hub, r) PROVE Held(x)'
    BY <1>7, <2>2 DEF Sent, RequestApproval, PickReviewer, IInv, Held, TypeOK, people, turns, tables, Reviewers, Conns, ConnOf
  <2>3. CASE NoTab(a, t)
    BY <1>7, <2>3 DEF NoTab, RequestApproval, PickReviewer, IInv, Held, TypeOK, people, turns, tables, Reviewers, Conns, ConnOf
  <2>4. CASE NotSent(a, t)
    BY <1>7, <2>4 DEF NotSent, RequestApproval, PickReviewer, IInv, Held, TypeOK, people, turns, tables, Reviewers, Conns, ConnOf
  <2> QED
    BY <1>7, <2>1, <2>2, <2>3, <2>4 DEF RequestApproval
<1>8. ASSUME NEW a \in Asks, NEW d \in Replies, ClientAnswers(a, d) PROVE Held(x)'
  BY <1>8 DEF ClientAnswers, Answered, IInv, Held, TypeOK, people, turns, tables, Reviewers, Conns, ConnOf
<1>9. ASSUME NEW a \in Asks, NEW d \in Replies, TabAnswers(a, d) PROVE Held(x)'
  BY <1>9 DEF TabAnswers, Answered, IInv, Held, TypeOK, people, turns, tables, Reviewers, Conns, ConnOf
<1>10. ASSUME NEW a \in Asks, ClientAnswersBadly(a) PROVE Held(x)'
  BY <1>10 DEF ClientAnswersBadly, IInv, Held, TypeOK, people, turns, tables, Reviewers, Conns, ConnOf
<1>11. ASSUME NEW a \in Asks, Continue(a) PROVE Held(x)'
  BY <1>11 DEF Continue, Announce, IInv, Held, TypeOK, people, turns, tables, Reviewers, Conns, ConnOf
<1>12. ASSUME NEW a \in Asks, Resolve(a) PROVE Held(x)'
  BY <1>12 DEF Resolve, Settle, Announce, PendingOf, IInv, Held, TypeOK, people, turns, tables, Reviewers, Conns, ConnOf
<1>13. ASSUME NEW a \in Asks, ThreadTimer(a) PROVE Held(x)'
  BY <1>13 DEF ThreadTimer, Settle, Announce, PendingOf, IInv, Held, TypeOK, people, turns, tables, Reviewers, Conns, ConnOf
<1>14. ASSUME NEW a \in Asks, RouterTimer(a) PROVE Held(x)'
  BY <1>14 DEF RouterTimer, IInv, Held, TypeOK, people, turns, tables, Reviewers, Conns, ConnOf
<1>15. ASSUME NEW c \in Clients, Disconnect(c) PROVE Held(x)'
  BY <1>15 DEF Disconnect, IInv, Held, TypeOK, people, turns, tables, Reviewers, Conns, ConnOf
<1>16. ASSUME NEW b \in Tabs, CloseTab(b) PROVE Held(x)'
  BY <1>16 DEF CloseTab, Answered, IInv, Held, TypeOK, people, turns, tables, Reviewers, Conns, ConnOf
<1>17. CASE Shutdown
  BY <1>17 DEF Shutdown, IInv, Held, TypeOK, people, turns, tables, Reviewers, Conns, ConnOf
<1>18. CASE UNCHANGED vars
  BY <1>18 DEF vars, IInv, Held, TypeOK, people, turns, tables, Reviewers, Conns, ConnOf
<1>19. ASSUME NEW t \in Turns, ClaimTurn(t) PROVE Held(x)'
  BY <1>19 DEF ClaimTurn, IInv, Held, TypeOK, people, turns, tables, Reviewers, Conns, ConnOf
<1> QED
  BY <1>1, <1>2, <1>3, <1>4, <1>5, <1>6, <1>7, <1>8, <1>9, <1>10, <1>11, <1>12, <1>13, <1>14, <1>15, <1>16, <1>17, <1>18, <1>19 DEF Next

(* The tables agree in every reachable state. *)
THEOREM Invariance == Spec => []IInv
<1>1. IInv /\ [Next]_vars => IInv'
  BY TypeStep, TalkStep, HeldStep DEF IInv
<1> QED
  BY InitInv, <1>1, PTL DEF Spec

(* Every table keeps its type. *)
THEOREM TypeCorrect == Spec => []TypeOK
BY Invariance, PTL DEF IInv

(* With the limit the server sets, a settled question is on nobody's screen: the
   thread's timer fires before the router's, and what settles a question takes the
   prompt down (handleApprovalSettled, outgoing-router.ts:66). *)
THEOREM PromptsDown == Spec => []PromptsAreCleared
<1>1. IInv => PromptsAreCleared
  BY DEF IInv, Talk, PromptsAreCleared, Settled, Replies
<1> QED
  BY <1>1, Invariance, PTL

(* A tab hears of a prompt settled elsewhere at most the one verdict of the
   question (routeNotification and resolveApproval of the hub). *)
THEOREM OneOutcome == Spec => []TabsHearTheOutcome
<1>1. IInv => TabsHearTheOutcome
  BY DEF IInv, Talk, TabsHearTheOutcome
<1> QED
  BY <1>1, Invariance, PTL

-----------------------------------------------------------------------------
VerdictMoves(x) ==
  /\ Gate!Rest(x) \/ Gate!Open(x) \/ Gate!Grant(x) \/ Gate!Refuse(x)
  /\ Gate!Accept(x)

(* What a question's verdict can do in a step: nothing, open, be granted by a
   reply that accepts, or be refused. *)
LEMMA VerdictStep ==
  ASSUME IInv, [Next]_vars, NEW x \in Asks
  PROVE  VerdictMoves(x)
<1> USE ReviewersAssumption
<1>1. ASSUME NEW t \in Turns, NEW r \in Reviewers, StartTurn(r, t) PROVE VerdictMoves(x)
  BY <1>1 DEF StartTurn, VerdictMoves, Gate!Rest, Gate!Open, Gate!Grant, Gate!Refuse, Gate!Accept, Gate!Refusals, Consent, IInv, Talk, TypeOK, people, turns, tables, Settled, Replies
<1>2. ASSUME NEW t \in Turns, NEW r \in Reviewers, RepeatStart(r, t) PROVE VerdictMoves(x)
  BY <1>2 DEF RepeatStart, VerdictMoves, Gate!Rest, Gate!Open, Gate!Grant, Gate!Refuse, Gate!Accept, Gate!Refusals, Consent, IInv, Talk, TypeOK, people, turns, tables, Settled, Replies
<1>3. ASSUME NEW t \in Turns, RepeatRefused(t) PROVE VerdictMoves(x)
  BY <1>3 DEF RepeatRefused, VerdictMoves, Gate!Rest, Gate!Open, Gate!Grant, Gate!Refuse, Gate!Accept, Gate!Refusals, Consent, IInv, Talk, TypeOK, people, turns, tables, Settled, Replies
<1>4. ASSUME NEW t \in Turns, StopTurn(t) PROVE VerdictMoves(x)
  BY <1>4 DEF StopTurn, Settle, Announce, PendingOf, VerdictMoves, Gate!Rest, Gate!Open, Gate!Grant, Gate!Refuse, Gate!Accept, Gate!Refusals, Consent, IInv, Talk, TypeOK, people, turns, tables, Settled, Replies
<1>5. ASSUME NEW t \in Turns, EndTurn(t) PROVE VerdictMoves(x)
  BY <1>5 DEF EndTurn, Settle, Announce, PendingOf, VerdictMoves, Gate!Rest, Gate!Open, Gate!Grant, Gate!Refuse, Gate!Accept, Gate!Refusals, Consent, IInv, Talk, TypeOK, people, turns, tables, Settled, Replies
<1>6. ASSUME NEW t \in Turns, LoseThread(t) PROVE VerdictMoves(x)
  BY <1>6 DEF LoseThread, VerdictMoves, Gate!Rest, Gate!Open, Gate!Grant, Gate!Refuse, Gate!Accept, Gate!Refusals, Consent, IInv, Talk, TypeOK, people, turns, tables, Settled, Replies
<1>7. ASSUME NEW t \in Turns, NEW a \in Asks, RequestApproval(a, t) PROVE VerdictMoves(x)
  <2>1. CASE owner[t] \in Clients \cap open /\ Sent(a, owner[t], owner[t])
    BY <1>7, <2>1 DEF Sent, RequestApproval, PickReviewer, VerdictMoves, Gate!Rest, Gate!Open, Gate!Grant, Gate!Refuse, Gate!Accept, Gate!Refusals, Consent, IInv, Talk, TypeOK, people, turns, tables, Settled, Replies
  <2>2. ASSUME owner[t] = Hub, NEW r \in PickReviewer(t), Sent(a, Hub, r) PROVE VerdictMoves(x)
    BY <1>7, <2>2 DEF Sent, RequestApproval, PickReviewer, VerdictMoves, Gate!Rest, Gate!Open, Gate!Grant, Gate!Refuse, Gate!Accept, Gate!Refusals, Consent, IInv, Talk, TypeOK, people, turns, tables, Settled, Replies
  <2>3. CASE NoTab(a, t)
    BY <1>7, <2>3 DEF NoTab, RequestApproval, PickReviewer, VerdictMoves, Gate!Rest, Gate!Open, Gate!Grant, Gate!Refuse, Gate!Accept, Gate!Refusals, Consent, IInv, Talk, TypeOK, people, turns, tables, Settled, Replies
  <2>4. CASE NotSent(a, t)
    BY <1>7, <2>4 DEF NotSent, RequestApproval, PickReviewer, VerdictMoves, Gate!Rest, Gate!Open, Gate!Grant, Gate!Refuse, Gate!Accept, Gate!Refusals, Consent, IInv, Talk, TypeOK, people, turns, tables, Settled, Replies
  <2> QED
    BY <1>7, <2>1, <2>2, <2>3, <2>4 DEF RequestApproval
<1>8. ASSUME NEW a \in Asks, NEW d \in Replies, ClientAnswers(a, d) PROVE VerdictMoves(x)
  BY <1>8 DEF ClientAnswers, Answered, VerdictMoves, Gate!Rest, Gate!Open, Gate!Grant, Gate!Refuse, Gate!Accept, Gate!Refusals, Consent, IInv, Talk, TypeOK, people, turns, tables, Settled, Replies
<1>9. ASSUME NEW a \in Asks, NEW d \in Replies, TabAnswers(a, d) PROVE VerdictMoves(x)
  BY <1>9 DEF TabAnswers, Answered, VerdictMoves, Gate!Rest, Gate!Open, Gate!Grant, Gate!Refuse, Gate!Accept, Gate!Refusals, Consent, IInv, Talk, TypeOK, people, turns, tables, Settled, Replies
<1>10. ASSUME NEW a \in Asks, ClientAnswersBadly(a) PROVE VerdictMoves(x)
  BY <1>10 DEF ClientAnswersBadly, VerdictMoves, Gate!Rest, Gate!Open, Gate!Grant, Gate!Refuse, Gate!Accept, Gate!Refusals, Consent, IInv, Talk, TypeOK, people, turns, tables, Settled, Replies
<1>11. ASSUME NEW a \in Asks, Continue(a) PROVE VerdictMoves(x)
  BY <1>11 DEF Continue, VerdictMoves, Gate!Rest, Gate!Open, Gate!Grant, Gate!Refuse, Gate!Accept, Gate!Refusals, Consent, IInv, Talk, TypeOK, people, turns, tables, Settled, Replies
<1>12. ASSUME NEW a \in Asks, Resolve(a) PROVE VerdictMoves(x)
  BY <1>12 DEF Resolve, Settle, Announce, PendingOf, VerdictMoves, Gate!Rest, Gate!Open, Gate!Grant, Gate!Refuse, Gate!Accept, Gate!Refusals, Consent, IInv, Talk, TypeOK, people, turns, tables, Settled, Replies
<1>13. ASSUME NEW a \in Asks, ThreadTimer(a) PROVE VerdictMoves(x)
  BY <1>13 DEF ThreadTimer, Settle, Announce, PendingOf, VerdictMoves, Gate!Rest, Gate!Open, Gate!Grant, Gate!Refuse, Gate!Accept, Gate!Refusals, Consent, IInv, Talk, TypeOK, people, turns, tables, Settled, Replies
<1>14. ASSUME NEW a \in Asks, RouterTimer(a) PROVE VerdictMoves(x)
  BY <1>14 DEF RouterTimer, VerdictMoves, Gate!Rest, Gate!Open, Gate!Grant, Gate!Refuse, Gate!Accept, Gate!Refusals, Consent, IInv, Talk, TypeOK, people, turns, tables, Settled, Replies
<1>15. ASSUME NEW c \in Clients, Disconnect(c) PROVE VerdictMoves(x)
  BY <1>15 DEF Disconnect, VerdictMoves, Gate!Rest, Gate!Open, Gate!Grant, Gate!Refuse, Gate!Accept, Gate!Refusals, Consent, IInv, Talk, TypeOK, people, turns, tables, Settled, Replies
<1>16. ASSUME NEW b \in Tabs, CloseTab(b) PROVE VerdictMoves(x)
  BY <1>16 DEF CloseTab, Answered, VerdictMoves, Gate!Rest, Gate!Open, Gate!Grant, Gate!Refuse, Gate!Accept, Gate!Refusals, Consent, IInv, Talk, TypeOK, people, turns, tables, Settled, Replies
<1>17. CASE Shutdown
  BY <1>17 DEF Shutdown, VerdictMoves, Gate!Rest, Gate!Open, Gate!Grant, Gate!Refuse, Gate!Accept, Gate!Refusals, Consent, IInv, Talk, TypeOK, people, turns, tables, Settled, Replies
<1>18. CASE UNCHANGED vars
  BY <1>18 DEF vars, VerdictMoves, Gate!Rest, Gate!Open, Gate!Grant, Gate!Refuse, Gate!Accept, Gate!Refusals, Consent, IInv, Talk, TypeOK, people, turns, tables, Settled, Replies
<1>19. ASSUME NEW t \in Turns, ClaimTurn(t) PROVE VerdictMoves(x)
  BY <1>19 DEF ClaimTurn, VerdictMoves, Gate!Rest, Gate!Open, Gate!Grant, Gate!Refuse, Gate!Accept, Gate!Refusals, Consent, IInv, Talk, TypeOK, people, turns, tables, Settled, Replies
<1> QED
  BY <1>1, <1>2, <1>3, <1>4, <1>5, <1>6, <1>7, <1>8, <1>9, <1>10, <1>11, <1>12, <1>13, <1>14, <1>15, <1>16, <1>17, <1>18, <1>19 DEF Next
(* One verdict for each question, approved only by a reviewer who was asked:
   the four tables implement the gate (README.md:330). *)
THEOREM GateImplemented == Spec => ImplementsGate
<1>1. Init => Gate!GateInit
  BY DEF Init, Gate!GateInit, Consent
<1>2. IInv /\ IInv' /\ [Next]_vars => [Gate!GateNext]_(Gate!gateVars)
  <2> SUFFICES ASSUME IInv, IInv', [Next]_vars PROVE Gate!GateNext
    OBVIOUS
  <2>1. ask' \in [Asks -> Gate!Verdicts]
    BY DEF IInv, TypeOK, Gate!Verdicts, Gate!Refusals, Settled, Replies
  <2>2. Consent' \in [Asks -> BOOLEAN]
    BY DEF Consent
  <2> QED
    BY <2>1, <2>2, VerdictStep DEF Gate!GateNext, VerdictMoves
<1> QED
  BY <1>1, <1>2, Invariance, PTL DEF Spec, ImplementsGate, Gate!GateSpec

(* The question goes to the reviewer who started the turn (handleApprovalRequest,
   routeServerRequest and pickReviewer), whoever else came and went. *)
THEOREM OwnerAsked == Spec => OwnerIsAsked
<1> DEFINE Asking == \A a \in Asks :
       LET s == starter[of'[a]] IN
       ask[a] = "none" /\ ask'[a] = "pending" /\ prompt'[a] # NoOne
         /\ s \in open /\ of'[a] \notin retried \cup unclaimed
       => prompt'[a] = s
<1>1. IInv /\ [Next]_vars => Asking
  <2> SUFFICES ASSUME IInv, [Next]_vars, NEW x \in Asks,
                      ask[x] = "none", ask'[x] = "pending", prompt'[x] # NoOne,
                      starter[of'[x]] \in open, of'[x] \notin retried \cup unclaimed
               PROVE  prompt'[x] = starter[of'[x]]
    OBVIOUS
  <2> USE ReviewersAssumption
  <2>1. ASSUME NEW t \in Turns, NEW r \in Reviewers, StartTurn(r, t) PROVE prompt'[x] = starter[of'[x]]
    BY <2>1 DEF StartTurn, IInv, Talk, Held, TypeOK, ConnOf, Reviewers, people, turns, tables, Settled, Replies
  <2>2. ASSUME NEW t \in Turns, NEW r \in Reviewers, RepeatStart(r, t) PROVE prompt'[x] = starter[of'[x]]
    BY <2>2 DEF RepeatStart, IInv, Talk, Held, TypeOK, ConnOf, Reviewers, people, turns, tables, Settled, Replies
  <2>3. ASSUME NEW t \in Turns, RepeatRefused(t) PROVE prompt'[x] = starter[of'[x]]
    BY <2>3 DEF RepeatRefused, IInv, Talk, Held, TypeOK, ConnOf, Reviewers, people, turns, tables, Settled, Replies
  <2>4. ASSUME NEW t \in Turns, StopTurn(t) PROVE prompt'[x] = starter[of'[x]]
    BY <2>4 DEF StopTurn, Settle, Announce, PendingOf, IInv, Talk, Held, TypeOK, ConnOf, Reviewers, people, turns, tables, Settled, Replies
  <2>5. ASSUME NEW t \in Turns, EndTurn(t) PROVE prompt'[x] = starter[of'[x]]
    BY <2>5 DEF EndTurn, Settle, Announce, PendingOf, IInv, Talk, Held, TypeOK, ConnOf, Reviewers, people, turns, tables, Settled, Replies
  <2>6. ASSUME NEW t \in Turns, LoseThread(t) PROVE prompt'[x] = starter[of'[x]]
    BY <2>6 DEF LoseThread, IInv, Talk, Held, TypeOK, ConnOf, Reviewers, people, turns, tables, Settled, Replies
  <2>7. ASSUME NEW t \in Turns, NEW a \in Asks, RequestApproval(a, t) PROVE prompt'[x] = starter[of'[x]]
    <3>1. CASE owner[t] \in Clients \cap open /\ Sent(a, owner[t], owner[t])
      BY <2>7, <3>1 DEF Sent, RequestApproval, PickReviewer, IInv, Talk, Held, TypeOK, ConnOf, Reviewers, people, turns, tables, Settled, Replies
    <3>2. ASSUME owner[t] = Hub, NEW r \in PickReviewer(t), Sent(a, Hub, r) PROVE prompt'[x] = starter[of'[x]]
      BY <2>7, <3>2 DEF Sent, RequestApproval, PickReviewer, IInv, Talk, Held, TypeOK, ConnOf, Reviewers, people, turns, tables, Settled, Replies
    <3>3. CASE NoTab(a, t)
      BY <2>7, <3>3 DEF NoTab, RequestApproval, PickReviewer, IInv, Talk, Held, TypeOK, ConnOf, Reviewers, people, turns, tables, Settled, Replies
    <3>4. CASE NotSent(a, t)
      BY <2>7, <3>4 DEF NotSent, RequestApproval, PickReviewer, IInv, Talk, Held, TypeOK, ConnOf, Reviewers, people, turns, tables, Settled, Replies
    <3> QED
      BY <2>7, <3>1, <3>2, <3>3, <3>4 DEF RequestApproval
  <2>8. ASSUME NEW a \in Asks, NEW d \in Replies, ClientAnswers(a, d) PROVE prompt'[x] = starter[of'[x]]
    BY <2>8 DEF ClientAnswers, Answered, IInv, Talk, Held, TypeOK, ConnOf, Reviewers, people, turns, tables, Settled, Replies
  <2>9. ASSUME NEW a \in Asks, NEW d \in Replies, TabAnswers(a, d) PROVE prompt'[x] = starter[of'[x]]
    BY <2>9 DEF TabAnswers, Answered, IInv, Talk, Held, TypeOK, ConnOf, Reviewers, people, turns, tables, Settled, Replies
  <2>10. ASSUME NEW a \in Asks, ClientAnswersBadly(a) PROVE prompt'[x] = starter[of'[x]]
    BY <2>10 DEF ClientAnswersBadly, IInv, Talk, Held, TypeOK, ConnOf, Reviewers, people, turns, tables, Settled, Replies
  <2>11. ASSUME NEW a \in Asks, Continue(a) PROVE prompt'[x] = starter[of'[x]]
    BY <2>11 DEF Continue, IInv, Talk, Held, TypeOK, ConnOf, Reviewers, people, turns, tables, Settled, Replies
  <2>12. ASSUME NEW a \in Asks, Resolve(a) PROVE prompt'[x] = starter[of'[x]]
    BY <2>12 DEF Resolve, Settle, Announce, PendingOf, IInv, Talk, Held, TypeOK, ConnOf, Reviewers, people, turns, tables, Settled, Replies
  <2>13. ASSUME NEW a \in Asks, ThreadTimer(a) PROVE prompt'[x] = starter[of'[x]]
    BY <2>13 DEF ThreadTimer, Settle, Announce, PendingOf, IInv, Talk, Held, TypeOK, ConnOf, Reviewers, people, turns, tables, Settled, Replies
  <2>14. ASSUME NEW a \in Asks, RouterTimer(a) PROVE prompt'[x] = starter[of'[x]]
    BY <2>14 DEF RouterTimer, IInv, Talk, Held, TypeOK, ConnOf, Reviewers, people, turns, tables, Settled, Replies
  <2>15. ASSUME NEW c \in Clients, Disconnect(c) PROVE prompt'[x] = starter[of'[x]]
    BY <2>15 DEF Disconnect, IInv, Talk, Held, TypeOK, ConnOf, Reviewers, people, turns, tables, Settled, Replies
  <2>16. ASSUME NEW b \in Tabs, CloseTab(b) PROVE prompt'[x] = starter[of'[x]]
    BY <2>16 DEF CloseTab, Answered, IInv, Talk, Held, TypeOK, ConnOf, Reviewers, people, turns, tables, Settled, Replies
  <2>17. CASE Shutdown
    BY <2>17 DEF Shutdown, IInv, Talk, Held, TypeOK, ConnOf, Reviewers, people, turns, tables, Settled, Replies
  <2>18. CASE UNCHANGED vars
    BY <2>18 DEF vars, IInv, Talk, Held, TypeOK, ConnOf, Reviewers, people, turns, tables, Settled, Replies
  <2>19. ASSUME NEW t \in Turns, ClaimTurn(t) PROVE prompt'[x] = starter[of'[x]]
    BY <2>19 DEF ClaimTurn, IInv, Talk, Held, TypeOK, ConnOf, Reviewers, people, turns, tables, Settled, Replies
  <2> QED
    BY <2>1, <2>2, <2>3, <2>4, <2>5, <2>6, <2>7, <2>8, <2>9, <2>10, <2>11, <2>12, <2>13, <2>14, <2>15, <2>16, <2>17, <2>18, <2>19 DEF Next
<1> QED
  BY <1>1, Invariance, PTL DEF Spec, OwnerIsAsked
=============================================================================

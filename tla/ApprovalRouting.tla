-------------------------- MODULE ApprovalRouting --------------------------
(***************************************************************************)
(* How a tool's question reaches a reviewer and how the answer comes back: *)
(* the pending approvals of a thread (managed-thread.ts), the table of     *)
(* requests of AppServerOutgoingRouter, the owners of turns and the        *)
(* prompts shown of AppServerMessageProcessor, and BrowserHub, behind      *)
(* whose one virtual connection all browser tabs are.                      *)
(*                                                                         *)
(* Four tables in four classes describe one question. A handler runs in    *)
(* one piece up to its next await: a router promise that settles is one    *)
(* step, its continuation in handleApprovalRequest another, and the        *)
(* thread's own settling, behind an await of the manager, a third.         *)
(***************************************************************************)
EXTENDS TLC

CONSTANTS
  Clients,      \* WebSocket connections
  Tabs,         \* browser tabs, all behind the connection Hub
  Hub,          \* the id of the hub's virtual connection
  Turns,        \* turns, each of a thread of its own
  Asks,         \* approval ids
  NoOne         \* no connection, tab, client or turn

ASSUME ReviewersAssumption ==
  /\ Clients \cap Tabs = {}
  /\ Hub \notin Clients \cup Tabs
  /\ NoOne \notin Clients \cup Tabs \cup Turns \cup {Hub}

Reviewers == Clients \cup Tabs
Conns     == Clients \cup {Hub}
ConnOf(r) == IF r \in Tabs THEN Hub ELSE r

Replies   == {"approved", "denied", "cancelled"}
Settled   == Replies \cup {"timeout"}

VARIABLES
  limit,        \* approvalTimeoutMs: "short" (up to the router's 120 s), "long", "off" (0)
  open,         \* the reviewers that are connected
  down,         \* router.closeAll has run
  turn,         \* "new", "running", "stopped" (its signal is aborted), "over"
  starter,      \* who called turn/start
  owner,        \* AppServerMessageProcessor.turnOwners
  claim,        \* BrowserHub.turnOwners
  unclaimed,    \* turns whose tab has not got the result of its turn/start yet
  retry,        \* turns whose turn/start was sent again and is not refused yet
  retried,      \* history: turns whose turn/start was ever sent again
  lost,         \* turns whose object the manager no longer finds
  ask,          \* pendingApprovals of the thread: what the tool was told
  of,           \* the turn an approval belongs to
  route,        \* handleApprovalRequest and the router's promise in it
  asked,        \* the connection the request was sent to
  reply,        \* the decision in the reviewer's response
  outstanding,  \* AppServerMessageProcessor.outstandingApprovals
  prompt,       \* BrowserHub.approvals, or the client that displays the prompt
  heard         \* history: the decisions a tab was told its prompt was resolved with

vars == <<limit, open, down, turn, starter, owner, claim, unclaimed, retry, retried,
          lost, ask, of, route, asked, reply, outstanding, prompt, heard>>

people  == <<limit, open, down>>
turns   == <<turn, starter, owner, claim, unclaimed, retry, retried, lost>>
tables  == <<ask, of, route, asked, reply, outstanding, prompt, heard>>

Routes == {"idle", "waiting", "answered", "failed", "settling", "done"}

TypeOK ==
  /\ limit \in {"short", "long", "off"}
  /\ open \subseteq Reviewers
  /\ down \in BOOLEAN
  /\ turn \in [Turns -> {"new", "running", "stopped", "over"}]
  /\ starter \in [Turns -> Reviewers \cup {NoOne}]
  /\ owner \in [Turns -> Conns \cup {NoOne}]
  /\ claim \in [Turns -> Tabs \cup {NoOne}]
  /\ unclaimed \subseteq Turns
  /\ retry \subseteq Turns /\ retried \subseteq Turns /\ lost \subseteq Turns
  /\ ask \in [Asks -> {"none", "pending"} \cup Settled]
  /\ of \in [Asks -> Turns \cup {NoOne}]
  /\ route \in [Asks -> Routes]
  /\ asked \in [Asks -> Conns \cup {NoOne}]
  /\ reply \in [Asks -> {"none"} \cup Replies]
  /\ outstanding \in [Asks -> BOOLEAN]
  /\ prompt \in [Asks -> Reviewers \cup {NoOne}]
  /\ heard \in [Asks -> SUBSET Settled]

Init ==
  /\ limit \in {"short", "long", "off"}
  /\ open = Reviewers
  /\ down = FALSE
  /\ turn = [t \in Turns |-> "new"]
  /\ starter = [t \in Turns |-> NoOne]
  /\ owner = [t \in Turns |-> NoOne]
  /\ claim = [t \in Turns |-> NoOne]
  /\ unclaimed = {} /\ retry = {} /\ retried = {} /\ lost = {}
  /\ ask = [a \in Asks |-> "none"]
  /\ of = [a \in Asks |-> NoOne]
  /\ route = [a \in Asks |-> "idle"]
  /\ asked = [a \in Asks |-> NoOne]
  /\ reply = [a \in Asks |-> "none"]
  /\ outstanding = [a \in Asks |-> FALSE]
  /\ prompt = [a \in Asks |-> NoOne]
  /\ heard = [a \in Asks |-> {}]

-----------------------------------------------------------------------------
(***************************************************************************)
(* serverRequest/resolved for the questions in S. A client takes it off    *)
(* its screen. The hub looks the request up in its own table and tells     *)
(* the tab it finds there; for an unknown request it tells nobody.         *)
(***************************************************************************)
\* Mutant: the hub matches on the thread and takes every prompt of it down.
AnnounceToThread(S, d) ==
  LET T == {a \in Asks : \E b \in S : of[a] = of[b] /\ asked[a] = asked[b]} IN
  /\ prompt' = [a \in Asks |-> IF a \in T THEN NoOne ELSE prompt[a]]
  /\ heard' = [a \in Asks |-> IF a \in T /\ prompt[a] \in Tabs THEN heard[a] \cup {d} ELSE heard[a]]

Announce(S, d) ==
  /\ prompt' = [a \in Asks |-> IF a \in S THEN NoOne ELSE prompt[a]]
  /\ heard' = [a \in Asks |-> IF a \in S /\ prompt[a] \in Tabs THEN heard[a] \cup {d} ELSE heard[a]]

\* Mutant: onApprovalSettled is not called.
SettleSilently(S, d) ==
  /\ ask' = [a \in Asks |-> IF a \in S THEN d ELSE ask[a]]
  /\ UNCHANGED <<outstanding, prompt, heard>>

\* settle() of the thread for the questions in S, with onApprovalSettled for
\* those whose prompt is still outstanding.
Settle(S, d) ==
  LET shown == {a \in S : outstanding[a]} IN
  /\ ask' = [a \in Asks |-> IF a \in S THEN d ELSE ask[a]]
  /\ outstanding' = [a \in Asks |-> outstanding[a] /\ a \notin shown]
  /\ Announce(shown, d)

PendingOf(t) == {a \in Asks : of[a] = t /\ ask[a] = "pending"}

-----------------------------------------------------------------------------
(* Turns. *)

\* turn/start that is accepted. A tab claims the turn when it has the result.
StartTurn(r, t) ==
  /\ r \in open /\ turn[t] = "new"
  /\ turn' = [turn EXCEPT ![t] = "running"]
  /\ starter' = [starter EXCEPT ![t] = r]
  /\ owner' = [owner EXCEPT ![t] = ConnOf(r)]
  /\ unclaimed' = unclaimed \cup {u \in {t} : r \in Tabs}
  /\ UNCHANGED <<people, claim, retry, retried, lost, tables>>

\* The result has come back to the gateway, which claims the turn for the tab,
\* whether that tab is still there or not. After the 30 s of hub.call the result
\* never comes, and the turn stays without a claim. After the turn's end or the
\* shutdown a claim serves nobody, and is left out.
ClaimTurn(t) ==
  /\ t \in unclaimed /\ turn[t] # "over" /\ ~down
  /\ claim' = [claim EXCEPT ![t] = starter[t]]
  /\ unclaimed' = unclaimed \ {t}
  /\ UNCHANGED <<people, turn, starter, owner, retry, retried, lost, tables>>

\* turn/start sent again for a turn that runs: the owner is written before
\* startTurn can refuse ...
RepeatStart(r, t) ==
  /\ r \in open /\ turn[t] \in {"running", "stopped"} /\ t \notin retried
  /\ owner' = [owner EXCEPT ![t] = ConnOf(r)]
  /\ retry' = retry \cup {t}
  /\ retried' = retried \cup {t}
  /\ UNCHANGED <<people, turn, starter, claim, unclaimed, lost, tables>>

\* ... and deleted when it does, whoever owned the turn before.
RepeatRefused(t) ==
  /\ t \in retry
  /\ owner' = [owner EXCEPT ![t] = NoOne]
  /\ retry' = retry \ {t}
  /\ UNCHANGED <<people, turn, starter, claim, unclaimed, retried, lost, tables>>

\* An interrupt or a fault: the signal aborts and the turn's questions with it.
StopTurn(t) ==
  /\ turn[t] = "running"
  /\ turn' = [turn EXCEPT ![t] = "stopped"]
  /\ Settle(PendingOf(t), "cancelled")
  /\ UNCHANGED <<people, starter, owner, claim, unclaimed, retry, retried, lost,
                 of, route, asked, reply>>

\* finishTurn, then completion.finally in turn/start. A repeated turn/start is
\* refused within the microtasks that follow it, so before the turn ends.
EndTurn(t) ==
  /\ turn[t] \in {"running", "stopped"} /\ t \notin retry
  /\ turn' = [turn EXCEPT ![t] = "over"]
  /\ owner' = [owner EXCEPT ![t] = IF @ = ConnOf(starter[t]) THEN NoOne ELSE @]
  /\ Settle(PendingOf(t), "cancelled")
  /\ UNCHANGED <<people, starter, claim, unclaimed, retry, retried, lost,
                 of, route, asked, reply>>

\* The thread is deleted, or pruned from the map, while its turn runs:
\* resumeThread then fails, or finds an object that has no such approval.
LoseThread(t) ==
  /\ turn[t] \in {"running", "stopped"}
  /\ lost' = lost \cup {t}
  /\ UNCHANGED <<people, turn, starter, owner, claim, unclaimed, retry, retried, tables>>

-----------------------------------------------------------------------------
(* The question. *)

\* Mutant: any tab that watches may review.
PickAnyTab(t) == Tabs \cap open

\* The tab that claimed the turn, else any tab that watches (all do, here).
PickReviewer(t) == IF claim[t] \in open THEN {claim[t]} ELSE Tabs \cap open

Sent(a, c, r) ==
  /\ route' = [route EXCEPT ![a] = "waiting"]
  /\ asked' = [asked EXCEPT ![a] = c]
  /\ prompt' = [prompt EXCEPT ![a] = r]
  /\ outstanding' = [outstanding EXCEPT ![a] = TRUE]
  /\ UNCHANGED reply

\* No owner, no such connection, or a socket that takes no more: cancelled.
NotSent(a, t) ==
  /\ owner[t] = Hub => down
  /\ route' = [route EXCEPT ![a] = "failed"]
  /\ UNCHANGED <<asked, prompt, outstanding, reply>>

\* The hub finds no tab and answers for itself, within the call.
NoTab(a, t) ==
  /\ owner[t] = Hub /\ ~down /\ PickReviewer(t) = {}
  /\ route' = [route EXCEPT ![a] = "answered"]
  /\ reply' = [reply EXCEPT ![a] = "cancelled"]
  /\ asked' = [asked EXCEPT ![a] = Hub]
  /\ outstanding' = [outstanding EXCEPT ![a] = TRUE]
  /\ UNCHANGED prompt

\* requestApproval, handleApprovalRequest, router.request and routeServerRequest
\* run in one piece.
RequestApproval(a, t) ==
  /\ turn[t] = "running" /\ ask[a] = "none"
  /\ ask' = [ask EXCEPT ![a] = "pending"]
  /\ of' = [of EXCEPT ![a] = t]
  /\ \/ owner[t] \in Clients \cap open /\ Sent(a, owner[t], owner[t])
     \/ owner[t] = Hub /\ ~down /\ \E r \in PickReviewer(t) : Sent(a, Hub, r)
     \/ NoTab(a, t)
     \/ NotSent(a, t)
  /\ UNCHANGED <<people, turns, heard>>

\* resolveResponse: only from the connection that was asked, and only once.
Answered(S, d) ==
  /\ route' = [a \in Asks |-> IF a \in S THEN "answered" ELSE route[a]]
  /\ reply' = [a \in Asks |-> IF a \in S THEN d ELSE reply[a]]

\* A client answers, also when its prompt has just been resolved otherwise.
ClientAnswers(a, d) ==
  /\ route[a] = "waiting" /\ asked[a] \in Clients \cap open
  /\ Answered({a}, d)
  /\ prompt' = [prompt EXCEPT ![a] = NoOne]
  /\ UNCHANGED <<people, turns, ask, of, asked, outstanding, heard>>

\* A response that no decision can be read from is an error in the handler.
ClientAnswersBadly(a) ==
  /\ route[a] = "waiting" /\ asked[a] \in Clients \cap open
  /\ route' = [route EXCEPT ![a] = "failed"]
  /\ prompt' = [prompt EXCEPT ![a] = NoOne]
  /\ UNCHANGED <<people, turns, ask, of, asked, reply, outstanding, heard>>

\* approval/respond of the tab the hub asked. If the router no longer waits the
\* tab is told ok all the same.
TabAnswers(a, d) ==
  /\ prompt[a] \in Tabs
  /\ prompt' = [prompt EXCEPT ![a] = NoOne]
  /\ Answered({b \in {a} : route[b] = "waiting"}, d)
  /\ UNCHANGED <<people, turns, ask, of, asked, outstanding, heard>>

\* Mutant: a promise that was rejected is announced like one that was answered.
ContinueAnnouncingAll(a) ==
  /\ route[a] \in {"answered", "failed"}
  /\ route' = [route EXCEPT ![a] = "settling"]
  /\ outstanding' = [outstanding EXCEPT ![a] = FALSE]
  /\ Announce({a}, reply[a])
  /\ UNCHANGED <<people, turns, ask, of, asked, reply>>

\* Mutant: a promise that was rejected is only swallowed.
ContinueSwallowing(a) ==
  /\ route[a] \in {"answered", "failed"}
  /\ route' = [route EXCEPT ![a] = IF @ = "answered" THEN "settling" ELSE "done"]
  /\ outstanding' = [outstanding EXCEPT ![a] = FALSE]
  /\ Announce({b \in {a} : route[b] = "answered"}, reply[a])
  /\ UNCHANGED <<people, turns, ask, of, asked, reply>>

\* The continuation of handleApprovalRequest after its await of the router.
Continue(a) ==
  /\ route[a] \in {"answered", "failed"}
  /\ route' = [route EXCEPT ![a] = "settling"]
  /\ outstanding' = [outstanding EXCEPT ![a] = FALSE]
  /\ Announce({b \in {a} : route[b] = "answered"}, reply[a])
  /\ UNCHANGED <<people, turns, ask, of, asked, reply>>

\* Mutant: without a decision the tool goes ahead.
ResolveOpenly(a) ==
  /\ route[a] = "settling"
  /\ route' = [route EXCEPT ![a] = "done"]
  /\ Settle({b \in PendingOf(of[a]) : b = a /\ of[a] \notin lost},
            IF reply[a] = "none" THEN "approved" ELSE reply[a])
  /\ UNCHANGED <<people, turns, of, asked, reply>>

\* resolveApproval of the manager has found the thread, or not.
Resolve(a) ==
  /\ route[a] = "settling"
  /\ route' = [route EXCEPT ![a] = "done"]
  /\ Settle({b \in PendingOf(of[a]) : b = a /\ of[a] \notin lost},
            IF reply[a] = "none" THEN "cancelled" ELSE reply[a])
  /\ UNCHANGED <<people, turns, of, asked, reply>>

\* The thread's timer, and the router's. Both run 120 s unless approvalTimeoutMs
\* says otherwise; timers of one duration fire in the order they were set, the
\* thread's first.
ThreadTimer(a) ==
  /\ limit # "off" /\ ask[a] = "pending"
  /\ Settle({a}, "timeout")
  /\ UNCHANGED <<people, turns, of, route, asked, reply>>

RouterTimer(a) ==
  /\ route[a] = "waiting"
  /\ limit = "short" => ask[a] # "pending"
  /\ route' = [route EXCEPT ![a] = "failed"]
  /\ UNCHANGED <<people, turns, ask, of, asked, reply, outstanding, prompt, heard>>

-----------------------------------------------------------------------------
(* Reviewers leave. One that comes back has a new connection id. *)

Disconnect(c) ==
  /\ c \in Clients \cap open
  /\ open' = open \ {c}
  /\ owner' = [t \in Turns |-> IF owner[t] = c THEN NoOne ELSE owner[t]]
  /\ route' = [a \in Asks |-> IF route[a] = "waiting" /\ asked[a] = c THEN "failed" ELSE route[a]]
  /\ prompt' = [a \in Asks |-> IF prompt[a] = c THEN NoOne ELSE prompt[a]]
  /\ UNCHANGED <<limit, down, turn, starter, claim, unclaimed, retry, retried, lost,
                 ask, of, asked, reply, outstanding, heard>>

\* removeTab answers "cancel" for every prompt of the tab.
CloseTab(b) ==
  /\ b \in Tabs \cap open
  /\ open' = open \ {b}
  /\ claim' = [t \in Turns |-> IF claim[t] = b THEN NoOne ELSE claim[t]]
  /\ Answered({a \in Asks : prompt[a] = b /\ route[a] = "waiting"}, "cancelled")
  /\ prompt' = [a \in Asks |-> IF prompt[a] = b THEN NoOne ELSE prompt[a]]
  /\ UNCHANGED <<limit, down, turn, starter, owner, unclaimed, retry, retried, lost,
                 ask, of, asked, outstanding, heard>>

\* router.closeAll: the hub cancels what its tabs are shown, the router rejects
\* the rest, and the sockets' closing clears the owners.
Shutdown ==
  LET waiting == {a \in Asks : route[a] = "waiting"}
      byHub   == {a \in waiting : prompt[a] \in Tabs} IN
  /\ ~down
  /\ down' = TRUE /\ open' = {}
  /\ route' = [a \in Asks |-> IF a \in byHub THEN "answered"
                              ELSE IF a \in waiting THEN "failed" ELSE route[a]]
  /\ reply' = [a \in Asks |-> IF a \in byHub THEN "cancelled" ELSE reply[a]]
  /\ prompt' = [a \in Asks |-> NoOne]
  /\ owner' = [t \in Turns |-> IF owner[t] \in Clients THEN NoOne ELSE owner[t]]
  /\ claim' = [t \in Turns |-> NoOne]
  /\ UNCHANGED <<limit, turn, starter, unclaimed, retry, retried, lost,
                 ask, of, asked, outstanding, heard>>

-----------------------------------------------------------------------------
Next ==
  \/ \E t \in Turns : \/ \E r \in Reviewers : StartTurn(r, t) \/ RepeatStart(r, t)
                      \/ ClaimTurn(t) \/ RepeatRefused(t) \/ StopTurn(t)
                      \/ EndTurn(t) \/ LoseThread(t)
                      \/ \E a \in Asks : RequestApproval(a, t)
  \/ \E a \in Asks : \/ \E d \in Replies : ClientAnswers(a, d) \/ TabAnswers(a, d)
                     \/ ClientAnswersBadly(a) \/ Continue(a) \/ Resolve(a)
                     \/ ThreadTimer(a) \/ RouterTimer(a)
  \/ \E c \in Clients : Disconnect(c)
  \/ \E b \in Tabs : CloseTab(b)
  \/ Shutdown

Spec == Init /\ [][Next]_vars

\* Timers fire and promises continue; reviewers and clients owe nothing.
FairSpec ==
  /\ Spec
  /\ \A a \in Asks : /\ WF_vars(ThreadTimer(a)) /\ WF_vars(RouterTimer(a))
                     /\ WF_vars(Continue(a)) /\ WF_vars(Resolve(a))

-----------------------------------------------------------------------------
Consent == [a \in Asks |-> reply[a] = "approved"]

(* A question is answered once, for good, and "approved" only if a reviewer it
   was sent to said so: "A timeout, interrupt, thread closure, or reviewer
   disconnect never auto-approves a pending tool" (README.md:330). *)
Gate == INSTANCE ApprovalGate WITH verdict <- ask, consent <- Consent
ImplementsGate == Gate!GateSpec

(* The reviewer who started a turn is the one who is asked, as long as that
   reviewer is there ("otherwise an observing tab could approve a destructive
   action someone else initiated", hub.ts:250), a tab has claimed the turn, and
   nobody repeated the turn/start. *)
OwnerIsAsked ==
  [][\A a \in Asks :
       LET s == starter[of'[a]] IN
       ask[a] = "none" /\ ask'[a] = "pending" /\ prompt'[a] # NoOne
         /\ s \in open /\ of'[a] \notin retried \cup unclaimed
       => prompt'[a] = s]_vars

(* The same from the start of the turn on: before the tab has the result of its
   turn/start, the hub asks any tab that watches. *)
StarterIsAsked ==
  [][\A a \in Asks :
       LET s == starter[of'[a]] IN
       ask[a] = "none" /\ ask'[a] = "pending" /\ prompt'[a] # NoOne
         /\ s \in open /\ of'[a] \notin retried
       => prompt'[a] = s]_vars

(* Unless the thread's limit is longer than the router's, a settled question is
   on nobody's screen: "otherwise the banner stays up forever with no way to
   distinguish still waiting from expired" (message-processor.ts:119). *)
PromptsAreCleared ==
  limit = "short" => \A a \in Asks : ask[a] \in Settled => prompt[a] = NoOne

(* What a tab is told about a prompt that was settled elsewhere is what became of
   the question; a tab's own answer is never played back to it. *)
TabsHearTheOutcome ==
  \A a \in Asks : heard[a] \subseteq {ask[a]}

(* No tool waits forever: the thread's timer, or without one the router's, gives
   it an answer, unless the limit is off and the thread was deleted meanwhile. *)
AsksSettle ==
  \A a \in Asks :
    (ask[a] = "pending" /\ ~(limit = "off" /\ of[a] \in lost))
      ~> (ask[a] # "pending" \/ (limit = "off" /\ of[a] \in lost))

(* The same as PromptsAreCleared, for every limit the server accepts. *)
NoBannerStays == \A a \in Asks : ask[a] \in Settled => prompt[a] = NoOne
=============================================================================

---------------------------- MODULE BrowserHandoff ----------------------------
(***************************************************************************)
(* Who drives one thread's browser: the agent's programs and the panes a   *)
(* human takes control with (control-lease.ts, the handoff and step of     *)
(* thread-runtime.ts, the control endpoint and the input filter of         *)
(* live-view.ts, the pane's button of LiveBrowser.tsx, and the reaper and  *)
(* the delete of thread-browsers.ts).                                      *)
(*                                                                         *)
(* Every await of a request and of a step is a place where the others run. *)
(* A page is where it is (its URL); what is on it is left out. Of the tabs *)
(* one is followed, the page that is driven; the others are elsewhere.     *)
(***************************************************************************)
EXTENDS Naturals

CONSTANTS
  Panes,
  Pages,     \* the URLs
  Blank,     \* the URL about:blank
  NoPage,
  NoRev,     \* a program that gives no expected_revision
  MaxTakes,  \* bound: takeovers
  MaxRev,    \* bound: the observations that follow a reset of the observer
  MaxFails   \* bound: requests that fail, answers and connections that are lost

ASSUME HandoffAssumption ==
  /\ NoRev \notin Nat /\ NoPage \notin Pages
  /\ MaxTakes \in Nat /\ MaxRev \in Nat /\ MaxFails \in Nat

Records == 1 .. MaxTakes
None    == 0        \* no handoff record

VARIABLES
  lease,     \* the owner in BrowserControlRegistry.leases, of this thread
  rev,       \* PageObserver.rev
  known,     \* the last revision the model was told, and whether under this lease
  act,       \* the agent's program
  page,      \* where the browser is
  handoff,   \* ThreadBrowserRuntime.handoff: a record's number
  notes,     \* the records: where the human started, and a navigation noted
  watching,  \* handoffListeners is not empty
  deaf,      \* the connection they listen on is gone
  gone,      \* the thread was deleted
  pane,      \* LiveBrowser's state, per pane
  ask,       \* the pane's request, as the endpoint works on it
  input,     \* a human's input on its way to the browser
  takes, fails,
  spell      \* history: of the human's present spell of control: whether a page was
             \* moved, whether it is a plain one, whether the reaper came

vars == <<lease, rev, known, act, page, handoff, notes, watching, deaf, gone,
          pane, ask, input, takes, fails, spell>>
agent  == <<known, act>>
ears   == <<watching, deaf>>
record == <<handoff, notes, ears, takes>>
people == <<pane, input>>

Idle == [st |-> "idle", rev |-> NoRev, since |-> FALSE]
Untold == [rev |-> NoRev, since |-> FALSE]
Unspent == [moved |-> FALSE, plain |-> FALSE, reaped |-> FALSE]
Unwritten == [url |-> NoPage, navigated |-> FALSE]
Quiet == [st |-> "none", url |-> NoPage, record |-> None]

Note    == [url : Pages \cup {NoPage}, navigated : BOOLEAN]
Owners  == {"agent", "human"}
Handing == {"take", "taking", "cut", "return", "reading", "resetting", "viewing"}
Stages  == {"none"} \cup Owners \cup Handing
Request == [st : Stages, url : Pages \cup {NoPage}, record : Records \cup {None}]

TypeOK ==
  /\ lease \in Owners
  /\ rev \in Nat /\ known \in [rev : Nat \cup {NoRev}, since : BOOLEAN]
  /\ act \in [st : {"idle", "admitted", "running"},
              rev : Nat \cup {NoRev}, since : BOOLEAN]
  /\ page \in Pages
  /\ handoff \in Records \cup {None}
  /\ notes \in [Records -> Note]
  /\ watching \in BOOLEAN /\ deaf \in BOOLEAN /\ gone \in BOOLEAN
  /\ pane \in [Panes -> {"closed", "agent", "pausing", "human", "resync"}]
  /\ ask \in [Panes -> Request]
  /\ input \in BOOLEAN
  /\ takes \in 0 .. MaxTakes /\ fails \in 0 .. MaxFails
  /\ spell \in [moved : BOOLEAN, plain : BOOLEAN, reaped : BOOLEAN]

Init ==
  /\ lease = "agent"
  /\ rev = 0 /\ known = Untold /\ act = Idle
  /\ page \in Pages
  /\ handoff = None /\ notes = [r \in Records |-> Unwritten]
  /\ watching = FALSE /\ deaf = FALSE /\ gone = FALSE
  /\ pane = [p \in Panes |-> "closed"] /\ ask = [p \in Panes |-> Quiet] /\ input = FALSE
  /\ takes = 0 /\ fails = 0
  /\ spell = Unspent

-----------------------------------------------------------------------------
\* A record nothing refers to any more is garbage.
Referred(n) ==
  [r \in Records |-> IF r = handoff' \/ \E p \in Panes : ask'[p].record = r
                     THEN n[r] ELSE Unwritten]

Told(r) == known' = [rev |-> r, since |-> TRUE]

\* takeControl and returnControl. The generation they count, which no caller
\* compares, is left out: what the model knows is of an earlier lease.
Hand(who) ==
  /\ lease' = who
  /\ known' = [known EXCEPT !.since = FALSE]
  /\ act' = [act EXCEPT !.since = FALSE]

Busy(p)   == ask[p].st # "none"
Hands(p)  == ask[p].st \in Handing
Others(p) == Panes \ {p}

\* The listeners write down a navigation of the page and a tab that opens, in the
\* record there is then.
Noted == IF watching /\ ~deaf /\ handoff # None
         THEN [notes EXCEPT ![handoff] = [@ EXCEPT !.navigated = TRUE]] ELSE notes

Moved == IF lease = "human" THEN [spell EXCEPT !.moved = TRUE] ELSE spell

\* The page goes elsewhere; about:blank is no place to tell of.
MovesTo(u) ==
  /\ page' = u
  /\ notes' = IF u = Blank THEN notes ELSE Noted
  /\ spell' = IF u = Blank THEN spell ELSE Moved

-----------------------------------------------------------------------------
(* The agent. A call without a program looks at the page and asks nobody. *)

Look ==
  /\ act.st = "idle" /\ rev < MaxRev /\ ~gone
  /\ rev' = rev + 1 /\ Told(rev + 1)
  /\ UNCHANGED <<lease, act, page, record, gone, people, ask, fails, spell>>

\* step, with the revision the model was told last or none: no caller gives
\* checkAgentAction a generation. While a human drives it changes nothing.
Admit(r) ==
  /\ act.st = "idle" /\ lease = "agent" /\ ~gone
  /\ act' = [st |-> "admitted", rev |-> r, since |-> known.since /\ r # NoRev]
  /\ UNCHANGED <<lease, rev, known, page, record, gone, people, ask, fails, spell>>

\* runStep, once the runtime is attached and the page captured.
Stale(r) == r # NoRev /\ r # rev

Start ==
  /\ act.st = "admitted" /\ ~Stale(act.rev)
  /\ act' = [Idle EXCEPT !.st = "running"]
  /\ UNCHANGED <<lease, rev, known, page, record, gone, people, ask, fails, spell>>

Refuse ==
  /\ act.st = "admitted" /\ Stale(act.rev)
  /\ act' = Idle /\ Told(rev)
  /\ UNCHANGED <<lease, rev, page, record, gone, people, ask, fails, spell>>

Acts(u) ==
  /\ act.st = "running" /\ u # page
  /\ MovesTo(u)
  /\ UNCHANGED <<lease, rev, agent, handoff, ears, takes, gone, people, ask, fails>>

Finish ==
  /\ act.st = "running" /\ rev < MaxRev
  /\ act' = Idle
  /\ rev' = rev + 1 /\ Told(rev + 1)
  /\ UNCHANGED <<lease, page, record, gone, people, ask, fails, spell>>

-----------------------------------------------------------------------------
(* The panes. A pane asks for the lease when it is mounted and shows the agent until *)
(* it is told; it blocks input while a request to take or return is out. A second   *)
(* request of a pane is as one of another pane.                                     *)

\* GET: the lease as it is when the server reads it ...
Mount(p) ==
  /\ pane[p] = "closed" /\ ~Busy(p) /\ ~gone
  /\ pane' = [pane EXCEPT ![p] = "agent"]
  /\ ask' = [ask EXCEPT ![p] = [Quiet EXCEPT !.st = lease]]
  /\ UNCHANGED <<lease, rev, agent, page, record, gone, input, fails, spell>>

\* Mutant: the pane shows what the server is at.
AnsweredByStage(p, who) ==
  /\ ask' = [ask EXCEPT ![p] = Quiet]
  /\ pane' = [pane EXCEPT ![p] = IF @ = "closed" THEN @ ELSE ask[p].st]

\* A request goes on when the pane that made it is gone; nobody hears the answer.
Answered(p, who) ==
  /\ ask' = [ask EXCEPT ![p] = Quiet]
  /\ pane' = [pane EXCEPT ![p] = IF @ = "closed" THEN @ ELSE who]

\* ... and as it may no longer be when the pane is told. A pane that is told nothing
\* shows what it did.
StatusShown(p) ==
  /\ ask[p].st \in Owners
  /\ Answered(p, ask[p].st) \/ Answered(p, "agent")
  /\ UNCHANGED <<lease, rev, agent, page, record, gone, input, fails, spell>>

Unmount(p) ==
  /\ pane[p] # "closed"
  /\ pane' = [pane EXCEPT ![p] = "closed"]
  /\ UNCHANGED <<lease, rev, agent, page, record, gone, ask, input, fails, spell>>

\* A request: another one under way ends a plain spell.
Asks(p, st, obj) ==
  /\ ~Busy(p) /\ ~gone
  /\ ask' = [ask EXCEPT ![p] = [Quiet EXCEPT !.st = st, !.record = obj]]
  /\ spell' = IF \E q \in Panes : Hands(q) THEN [spell EXCEPT !.plain = FALSE] ELSE spell

PressTake(p) ==
  /\ pane[p] = "agent" /\ takes < MaxTakes
  /\ Asks(p, "take", None)
  /\ pane' = [pane EXCEPT ![p] = "pausing"]
  /\ UNCHANGED <<lease, rev, agent, page, record, gone, input, fails>>

\* endHumanControl keeps the record there is now.
PressReturn(p) ==
  /\ pane[p] = "human"
  /\ Asks(p, "return", handoff)
  /\ pane' = [pane EXCEPT ![p] = "resync"]
  /\ UNCHANGED <<lease, rev, agent, page, record, gone, input, fails>>

\* The server forwards a human's input while a human owns the browser.
SendInput(p) ==
  /\ pane[p] = "human" /\ lease = "human" /\ ~input
  /\ input' = TRUE
  /\ UNCHANGED <<lease, rev, agent, page, record, gone, pane, ask, fails, spell>>

InputLands(u) ==
  /\ input /\ u # page
  /\ input' = FALSE
  /\ MovesTo(u)
  /\ UNCHANGED <<lease, rev, agent, handoff, ears, takes, gone, pane, ask, fails>>

\* The human opens a tab, or goes somewhere in one that was open.
InputElsewhere ==
  /\ input /\ input' = FALSE
  /\ \/ notes' = Noted /\ spell' = Moved
     \/ notes' = notes /\ spell' = [Moved EXCEPT !.plain = FALSE]
  /\ UNCHANGED <<lease, rev, agent, page, handoff, ears, takes, gone, pane, ask, fails>>

-----------------------------------------------------------------------------
(* The endpoint, await by await. *)

Steps(p, from, to) ==
  /\ ask[p].st = from
  /\ ask' = [ask EXCEPT ![p] = [@ EXCEPT !.st = to, !.url = page]]

\* Where the human starts, read before the title and the tabs are awaited.
TakeReads(p) ==
  /\ Steps(p, "take", "taking")
  /\ UNCHANGED <<lease, rev, agent, page, record, gone, people, fails, spell>>

\* A new record, with the listeners that write into it, and the lease.
NewRecord(p) ==
  /\ takes < MaxTakes
  /\ takes' = takes + 1
  /\ handoff' = takes'
  /\ notes' = Referred([notes EXCEPT ![takes'] = [url |-> ask[p].url, navigated |-> FALSE]])
  /\ watching' = TRUE
  /\ deaf' = (ask[p].st = "cut")

BeginHumanControl(p) ==
  /\ ask[p].st \in {"taking", "cut"}
  /\ NewRecord(p)
  /\ Hand("human")
  /\ UNCHANGED <<rev, page, gone, input>>

Taken(p) ==
  /\ Answered(p, "human")
  /\ BeginHumanControl(p)
  /\ spell' = IF lease = "human" THEN [spell EXCEPT !.plain = FALSE]
              ELSE [Unspent EXCEPT !.plain =
                      ask[p].st = "taking" /\ \A q \in Others(p) : ~Hands(q)]
  /\ UNCHANGED fails

TakenUnheard(p) ==
  /\ Answered(p, "agent")
  /\ BeginHumanControl(p)
  /\ fails < MaxFails /\ fails' = fails + 1
  /\ spell' = Unspent

\* Mutant: the lease goes back before the page is read.
ReturnReadsEagerly(p) ==
  /\ Steps(p, "return", "reading")
  /\ Hand("agent")
  /\ UNCHANGED <<rev, page, record, gone, people, fails, spell>>

ReturnReads(p) ==
  /\ Steps(p, "return", "reading")
  /\ UNCHANGED <<lease, rev, agent, page, record, gone, people, fails, spell>>

\* The observer is reset before the page is captured anew.
ReturnResets(p) ==
  /\ ask[p].st = "reading"
  /\ ask' = [ask EXCEPT ![p] = [@ EXCEPT !.st = "resetting"]]
  /\ rev' = 0
  /\ UNCHANGED <<lease, agent, page, record, gone, people, fails, spell>>

\* Mutant: the summary compares the two ends only.
ChangesAtEnds(p) ==
  ask[p].record # None /\ notes[ask[p].record].url # ask[p].url

\* What the summary says: a navigation, or another URL at the end.
Changes(p) ==
  /\ ask[p].record # None
  /\ notes[ask[p].record].navigated \/ notes[ask[p].record].url # ask[p].url

Returned(p) ==
  /\ ask[p].st = "resetting"
  /\ Hand("agent")
  /\ handoff' = None /\ watching' = FALSE /\ deaf' = FALSE
  /\ ask' = [ask EXCEPT ![p] = [Quiet EXCEPT !.st = "viewing"]]
  /\ spell' = Unspent
  /\ notes' = Referred(notes)
  /\ UNCHANGED <<rev, page, takes, gone, people, fails>>

\* The page read for the answer. The pane drops the event it carries: the model
\* is not told.
ReturnViews(p) ==
  /\ ask[p].st = "viewing"
  /\ rev' = rev + 1
  /\ Answered(p, "agent")
  /\ UNCHANGED <<lease, agent, page, record, gone, input, fails, spell>>

\* The browser cannot be reached, or the answer to a return is lost: the pane goes
\* back to what it showed.
Fails(p) ==
  /\ Hands(p) /\ fails < MaxFails
  /\ fails' = fails + 1
  /\ Answered(p, IF ask[p].st \in {"take", "taking", "cut"} THEN "agent" ELSE "human")
  /\ spell' = [spell EXCEPT !.plain = FALSE]
  /\ UNCHANGED <<lease, rev, agent, page, handoff, ears, takes, gone, input>>
  /\ notes' = Referred(notes)

\* The connection drops, or a download asks for another, and ensureReady attaches
\* anew. The listeners are on pages of the old connection, and so will be those of a
\* takeover that has its page already; a return that reads the page fails.
Reattach ==
  LET failed == {p \in Panes : ask[p].st \in {"reading", "resetting"}} IN
  /\ fails < MaxFails /\ ~gone
  /\ fails' = fails + 1
  /\ page' \in Pages
  /\ deaf' = watching
  /\ ask' = [p \in Panes |-> IF p \in failed THEN Quiet
                            ELSE IF ask[p].st = "taking" THEN [ask[p] EXCEPT !.st = "cut"]
                            ELSE ask[p]]
  /\ pane' = [p \in Panes |-> IF p \in failed /\ pane[p] # "closed" THEN "human" ELSE pane[p]]
  /\ spell' = [spell EXCEPT !.plain = FALSE]
  /\ UNCHANGED <<lease, rev, agent, handoff, watching, takes, gone, input>>
  /\ notes' = Referred(notes)

-----------------------------------------------------------------------------
(* The reaper retires a runtime that nobody has used for ten minutes, no turn
   of whose thread runs; it does not look at the lease. A thread that has no runtime
   is as one whose runtime was retired. *)
Retire ==
  /\ act.st = "idle"
  /\ \A p \in Panes : pane[p] = "closed" /\ ~Hands(p)
  /\ handoff' = None /\ watching' = FALSE /\ deaf' = FALSE
  /\ rev' = 0
  /\ spell' = IF lease = "human" THEN [spell EXCEPT !.plain = FALSE, !.reaped = TRUE]
              ELSE spell
  /\ UNCHANGED <<lease, agent, page, takes, gone, people, ask, fails>>
  /\ notes' = Referred(notes)

\* The delete: the runtime is closed for good, the conversation is gone. A request
\* under way goes on.
CloseThread ==
  /\ ~gone
  /\ gone' = TRUE
  /\ lease' = "agent"
  /\ handoff' = None /\ watching' = FALSE /\ deaf' = FALSE
  /\ rev' = 0 /\ known' = Untold /\ act' = Idle
  /\ input' = FALSE
  /\ spell' = Unspent
  /\ UNCHANGED <<page, takes, pane, ask, fails>>
  /\ notes' = Referred(notes)

Next ==
  \/ Look \/ Admit(known.rev) \/ Admit(NoRev)
  \/ Start \/ Refuse \/ Finish
  \/ \E u \in Pages : Acts(u) \/ InputLands(u)
  \/ InputElsewhere
  \/ \E p \in Panes :
       \/ Mount(p) \/ StatusShown(p) \/ Unmount(p)
       \/ PressTake(p) \/ PressReturn(p) \/ SendInput(p)
       \/ TakeReads(p) \/ Taken(p) \/ TakenUnheard(p)
       \/ ReturnReads(p) \/ ReturnResets(p) \/ Returned(p) \/ ReturnViews(p)
       \/ Fails(p)
  \/ Reattach \/ Retire \/ CloseThread

Spec == Init /\ [][Next]_vars

-----------------------------------------------------------------------------
(* The two halves of a handoff, the registry's lease and the runtime's record with
   its listeners, say the same of a thread, whatever requests of several panes cross
   (thread-runtime.ts:2409: the browser is watched as long as a human drives it). A
   runtime the reaper has retired has lost its half. *)
LeaseHasRecord ==
  ~gone /\ ~spell.reaped =>
    /\ lease = "human" <=> handoff # None
    /\ watching <=> handoff # None

Reports(p) == ask[p].st = "resetting" /\ ask'[p].st = "viewing"

(* A human who leaves the page elsewhere, or goes somewhere and comes back, or opens a
   tab, is reported when control returns, also when the page moves while the return
   reads it: as long as the spell is a plain one. It is not when somebody else's request
   crossed, one failed, the connection was made anew, the human drove a tab that was
   open before, or the reaper came; and about:blank is nowhere. *)
HandoffReported ==
  [][\A p \in Panes : Reports(p) /\ spell.plain /\ spell.moved => Changes(p)]_vars

(* The same for every handoff. *)
EveryHandoffReported ==
  [][\A p \in Panes : Reports(p) /\ spell.moved => Changes(p)]_vars

(* "any action still holding a pre-handoff revision is refused" (thread-runtime.ts:2461):
   a program written against a revision told before a handoff does not start under
   the agent's next lease. *)
OldRevisionRefused ==
  [][act.st = "admitted" /\ act'.st = "running" /\ act.rev # NoRev /\ lease = "agent"
       => act.since]_vars

(* A program never starts, and so never acts, on a browser a human has taken since
   ("stops an already-decided action from landing after a takeover",
   control-lease.ts:46). *)
NothingStartsUnderHuman ==
  [][act.st = "admitted" /\ act'.st = "running" => lease = "agent"]_vars

(* The pane that was answered last shows the owner: a refused request changed nothing. *)
RefusedIsUndone ==
  [][~gone => \A p \in Panes : Hands(p) /\ ask'[p].st = "none" /\ pane'[p] = "human"
       => lease' = "human"]_vars

(* "a lease must not outlive the thread it belongs to" (control-lease-forget.test.ts:70). *)
LeaseGoesWithThread == gone => lease = "agent"

===============================================================================

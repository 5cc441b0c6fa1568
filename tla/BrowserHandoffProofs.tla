------------------------- MODULE BrowserHandoffProofs -------------------------
(***************************************************************************)
(* Proofs about BrowserHandoff, for any panes and pages, and any number of *)
(* takeovers and failures: the lease and the runtime's record of a handoff *)
(* go together, and a human's navigation is reported.                      *)
(***************************************************************************)
EXTENDS BrowserHandoff, TLAPS

(* In a plain spell the listeners hear, and the record they write into is the one
   the request to return will read. *)
Plain ==
  spell.plain =>
    /\ lease = "human" /\ handoff # None /\ watching /\ ~deaf
    /\ spell.moved => notes[handoff].navigated
    /\ \A p \in Panes : ask[p].st \in {"return", "reading", "resetting"}
                          => ask[p].record = handoff

IInv == TypeOK /\ LeaseHasRecord /\ Plain

Spells     == [moved : BOOLEAN, plain : BOOLEAN, reaped : BOOLEAN]
PaneStates == {"closed", "agent", "pausing", "human", "resync"}

LEMMA InitInv == Init => IInv
<1> SUFFICES ASSUME Init PROVE IInv
  OBVIOUS
<1>1. ask \in [Panes -> Request]
  BY DEF Init, Quiet, Request, Stages
<1>2. notes \in [Records -> Note]
  BY DEF Init, Note, Unwritten
<1>3. lease \in Owners /\ known \in [rev : Nat \cup {NoRev}, since : BOOLEAN]
  BY DEF Init, Untold, Owners
<1>4. act \in [st : {"idle", "admitted", "running"}, rev : Nat \cup {NoRev}, since : BOOLEAN]
  BY DEF Init, Idle
<1>5. spell \in Spells
  BY DEF Init, Unspent, Spells
<1>6. /\ rev \in Nat /\ takes \in 0 .. MaxTakes /\ fails \in 0 .. MaxFails
      /\ handoff \in Records \cup {None}
  BY HandoffAssumption DEF Init, None
<1>7. TypeOK
  BY <1>1, <1>2, <1>3, <1>4, <1>5, <1>6 DEF Init, TypeOK, Spells
<1>8. LeaseHasRecord /\ Plain
  BY DEF Init, LeaseHasRecord, Plain, Unspent
<1> QED
  BY <1>7, <1>8 DEF IInv

(* A request keeps its type as it goes from await to await. *)
LEMMA RequestTypes ==
  ASSUME NEW f \in [Panes -> Request], NEW p \in Panes, NEW st \in Stages,
         NEW u \in Pages, NEW r \in Records \cup {None}
  PROVE  /\ [f EXCEPT ![p] = [@ EXCEPT !.st = st, !.url = u]] \in [Panes -> Request]
         /\ [f EXCEPT ![p] = [@ EXCEPT !.st = st]] \in [Panes -> Request]
         /\ [f EXCEPT ![p] = [Quiet EXCEPT !.st = st, !.record = r]] \in [Panes -> Request]
         /\ [f EXCEPT ![p] = [Quiet EXCEPT !.st = st]] \in [Panes -> Request]
BY DEF Request, Quiet, Stages

(* An answered request leaves the pane free to make another. *)
LEMMA AnswerTypes ==
  ASSUME NEW p \in Panes, NEW who \in Owners, TypeOK, Answered(p, who)
  PROVE  /\ ask' \in [Panes -> Request]
         /\ pane' \in [Panes -> PaneStates]
<1>1. ask' \in [Panes -> Request]
  BY DEF Answered, TypeOK, Request, Quiet, Stages
<1>2. pane' \in [Panes -> PaneStates]
  BY DEF Answered, TypeOK, PaneStates, Owners
<1> QED
  BY <1>1, <1>2

(* The records keep their type when the page moves and when one is made. *)
LEMMA NoteTypes ==
  ASSUME NEW n \in [Records -> Note], NEW r \in Records, NEW u \in Pages \cup {NoPage}
  PROVE  /\ [n EXCEPT ![r] = [@ EXCEPT !.navigated = TRUE]] \in [Records -> Note]
         /\ [n EXCEPT ![r] = [url |-> u, navigated |-> FALSE]] \in [Records -> Note]
BY DEF Note

(* Neither does forgetting a record change a type. *)
LEMMA ReferredTypes ==
  ASSUME NEW n \in [Records -> Note]
  PROVE  Referred(n) \in [Records -> Note]
BY DEF Referred, Unwritten, Note

(* What the listeners write, and the history, keep their types. *)
LEMMA HearTypes ==
  ASSUME TypeOK
  PROVE  Noted \in [Records -> Note] /\ Moved \in Spells
<1>1. Noted \in [Records -> Note]
  BY NoteTypes DEF Noted, TypeOK
<1>2. Moved \in Spells
  BY DEF Moved, TypeOK, Spells
<1> QED
  BY <1>1, <1>2

(* The page moves within the types. *)
LEMMA MoveTypes ==
  ASSUME TypeOK, NEW u \in Pages, MovesTo(u)
  PROVE  /\ page' \in Pages
         /\ notes' \in [Records -> Note]
         /\ spell' \in Spells
BY HearTypes DEF MovesTo, TypeOK, Spells

(* The lease goes from hand to hand within the types. *)
LEMMA HandTypes ==
  ASSUME TypeOK, NEW who \in Owners, Hand(who)
  PROVE  /\ lease' \in Owners
         /\ known' \in [rev : Nat \cup {NoRev}, since : BOOLEAN]
         /\ act' \in [st : {"idle", "admitted", "running"},
                       rev : Nat \cup {NoRev}, since : BOOLEAN]
BY DEF Hand, TypeOK

(* Every step keeps every variable within its type. *)
LEMMA TypeStep ==
  ASSUME TypeOK, [Next]_vars
  PROVE  TypeOK'
<1> USE HandoffAssumption
<1>1. CASE Look
  BY <1>1 DEF Look, Told, TypeOK, agent, ears, record, people, Idle, Untold, Unspent
<1>2. ASSUME NEW r \in Nat \cup {NoRev}, Admit(r) PROVE TypeOK'
  BY <1>2 DEF Admit, TypeOK, agent, ears, record, people, Idle, Untold, Unspent
<1>3. CASE Start
  BY <1>3 DEF Start, Stale, TypeOK, agent, ears, record, people, Idle, Untold, Unspent
<1>4. CASE Refuse
  BY <1>4 DEF Refuse, Stale, Told, TypeOK, agent, ears, record, people, Idle, Untold, Unspent
<1>5. CASE Finish
  BY <1>5 DEF Finish, Told, TypeOK, agent, ears, record, people, Idle, Untold, Unspent
<1>6. ASSUME NEW u \in Pages, Acts(u) PROVE TypeOK'
  BY <1>6, MoveTypes DEF Acts, TypeOK, Spells, agent, ears, record, people
<1>7. ASSUME NEW u \in Pages, InputLands(u) PROVE TypeOK'
  <2>1. /\ page' \in Pages /\ notes' \in [Records -> Note] /\ spell' \in Spells
    BY <1>7, MoveTypes DEF InputLands
  <2>2. /\ input' \in BOOLEAN
        /\ UNCHANGED <<lease, rev, known, act, handoff, watching, deaf, takes, gone, pane, ask, fails>>
    BY <1>7 DEF InputLands, agent, ears
  <2> QED
    BY <2>1, <2>2 DEF TypeOK, Spells
<1>8. CASE InputElsewhere
  <2>1. notes' \in [Records -> Note] /\ spell' \in Spells
    BY <1>8, HearTypes DEF InputElsewhere, TypeOK, Spells
  <2>2. /\ input' \in BOOLEAN
        /\ UNCHANGED <<lease, rev, known, act, page, handoff, watching, deaf, takes, gone, pane, ask, fails>>
    BY <1>8 DEF InputElsewhere, agent, ears
  <2> QED
    BY <2>1, <2>2 DEF TypeOK, Spells
<1>9. ASSUME NEW p \in Panes, Mount(p) PROVE TypeOK'
  <2>1. ask' \in [Panes -> Request]
    BY <1>9, RequestTypes DEF Mount, TypeOK, Stages
  <2>2. pane' \in [Panes -> PaneStates]
    BY <1>9 DEF Mount, TypeOK, PaneStates
  <2> QED
    BY <1>9, <2>1, <2>2 DEF Mount, TypeOK, PaneStates, agent, ears, record, people
<1>10. ASSUME NEW p \in Panes, StatusShown(p) PROVE TypeOK'
  <2>1. ask' \in [Panes -> Request] /\ pane' \in [Panes -> PaneStates]
    BY <1>10, AnswerTypes DEF StatusShown, Owners
  <2> QED
    BY <1>10, <2>1 DEF StatusShown, TypeOK, PaneStates, agent, ears, record, people
<1>11. ASSUME NEW p \in Panes, Unmount(p) PROVE TypeOK'
  BY <1>11 DEF Unmount, TypeOK, agent, ears, record, people, Idle, Untold, Unspent
<1>12. ASSUME NEW p \in Panes, PressTake(p) PROVE TypeOK'
  <2>1. ask' \in [Panes -> Request]
    BY <1>12, RequestTypes DEF PressTake, Asks, TypeOK, Stages, Handing, None
  <2>2. spell' \in Spells
    BY <1>12 DEF PressTake, Asks, TypeOK, Spells
  <2>3. pane' \in [Panes -> PaneStates]
    BY <1>12 DEF PressTake, TypeOK, PaneStates
  <2> QED
    BY <1>12, <2>1, <2>2, <2>3 DEF PressTake, TypeOK, PaneStates, Spells, agent, ears, record, people
<1>13. ASSUME NEW p \in Panes, PressReturn(p) PROVE TypeOK'
  <2>1. ask' \in [Panes -> Request]
    BY <1>13, RequestTypes DEF PressReturn, Asks, TypeOK, Stages, Handing, None
  <2>2. spell' \in Spells
    BY <1>13 DEF PressReturn, Asks, TypeOK, Spells
  <2>3. pane' \in [Panes -> PaneStates]
    BY <1>13 DEF PressReturn, TypeOK, PaneStates
  <2> QED
    BY <1>13, <2>1, <2>2, <2>3 DEF PressReturn, TypeOK, PaneStates, Spells, agent, ears, record, people
<1>14. ASSUME NEW p \in Panes, SendInput(p) PROVE TypeOK'
  BY <1>14 DEF SendInput, TypeOK, agent, ears, record, people, Idle, Untold, Unspent
<1>15. ASSUME NEW p \in Panes, TakeReads(p) PROVE TypeOK'
  <2>1. ask' \in [Panes -> Request]
    BY <1>15, RequestTypes DEF TakeReads, Steps, TypeOK, Stages, Handing
  <2> QED
    BY <1>15, <2>1 DEF TakeReads, TypeOK, agent, ears, record, people
<1>16. ASSUME NEW p \in Panes, Taken(p) PROVE TypeOK'
  <2>1. ask' \in [Panes -> Request] /\ pane' \in [Panes -> PaneStates]
    BY <1>16, AnswerTypes DEF Taken, Owners
  <2>2. /\ handoff' \in Records \cup {None} /\ takes' \in 0 .. MaxTakes
        /\ takes' \in Records
    BY <1>16, HandoffAssumption DEF Taken, BeginHumanControl, NewRecord, TypeOK, Records
  <2>3. notes' \in [Records -> Note]
    BY <1>16, <2>2, NoteTypes, ReferredTypes DEF Taken, BeginHumanControl, NewRecord, TypeOK, Request
  <2>4. /\ lease' \in Owners
        /\ known' \in [rev : Nat \cup {NoRev}, since : BOOLEAN]
        /\ act' \in [st : {"idle", "admitted", "running"},
                      rev : Nat \cup {NoRev}, since : BOOLEAN]
    BY <1>16, HandTypes DEF Taken, BeginHumanControl, Owners
  <2>5. spell' \in Spells
    BY <1>16 DEF Taken, TypeOK, Unspent, Spells
  <2> QED
    BY <1>16, <2>1, <2>2, <2>3, <2>4, <2>5 DEF Taken, BeginHumanControl, NewRecord, TypeOK,
       PaneStates, Spells, agent, ears, record, people
<1>17. ASSUME NEW p \in Panes, TakenUnheard(p) PROVE TypeOK'
  <2>1. ask' \in [Panes -> Request] /\ pane' \in [Panes -> PaneStates]
    BY <1>17, AnswerTypes DEF TakenUnheard, Owners
  <2>2. /\ handoff' \in Records \cup {None} /\ takes' \in 0 .. MaxTakes
        /\ takes' \in Records
    BY <1>17, HandoffAssumption DEF TakenUnheard, BeginHumanControl, NewRecord, TypeOK, Records
  <2>3. notes' \in [Records -> Note]
    BY <1>17, <2>2, NoteTypes, ReferredTypes DEF TakenUnheard, BeginHumanControl, NewRecord, TypeOK, Request
  <2>4. /\ lease' \in Owners
        /\ known' \in [rev : Nat \cup {NoRev}, since : BOOLEAN]
        /\ act' \in [st : {"idle", "admitted", "running"},
                      rev : Nat \cup {NoRev}, since : BOOLEAN]
    BY <1>17, HandTypes DEF TakenUnheard, BeginHumanControl, Owners
  <2>5. spell' \in Spells
    BY <1>17 DEF TakenUnheard, TypeOK, Unspent, Spells
  <2>6. fails' \in 0 .. MaxFails
    BY <1>17 DEF TakenUnheard, TypeOK
  <2>7. UNCHANGED <<rev, page, gone, input>> /\ watching' \in BOOLEAN /\ deaf' \in BOOLEAN
    BY <1>17 DEF TakenUnheard, BeginHumanControl, NewRecord
  <2> QED
    BY <2>1, <2>2, <2>3, <2>4, <2>5, <2>6, <2>7 DEF TypeOK, PaneStates, Spells
<1>18. ASSUME NEW p \in Panes, ReturnReads(p) PROVE TypeOK'
  <2>1. ask' \in [Panes -> Request]
    BY <1>18, RequestTypes DEF ReturnReads, Steps, TypeOK, Stages, Handing
  <2> QED
    BY <1>18, <2>1 DEF ReturnReads, TypeOK, agent, ears, record, people
<1>19. ASSUME NEW p \in Panes, ReturnResets(p) PROVE TypeOK'
  <2>1. ask' \in [Panes -> Request]
    BY <1>19, RequestTypes DEF ReturnResets, TypeOK, Stages, Handing
  <2> QED
    BY <1>19, <2>1 DEF ReturnResets, TypeOK, agent, ears, record, people
<1>20. ASSUME NEW p \in Panes, Returned(p) PROVE TypeOK'
  <2>1. ask' \in [Panes -> Request]
    BY <1>20, RequestTypes DEF Returned, TypeOK, Stages, Handing
  <2>2. /\ lease' \in Owners
        /\ known' \in [rev : Nat \cup {NoRev}, since : BOOLEAN]
        /\ act' \in [st : {"idle", "admitted", "running"},
                      rev : Nat \cup {NoRev}, since : BOOLEAN]
    BY <1>20, HandTypes DEF Returned, Owners
  <2>3. notes' \in [Records -> Note]
    BY <1>20, ReferredTypes DEF Returned, TypeOK
  <2>4. spell' \in Spells
    BY <1>20 DEF Returned, Unspent, Spells
  <2> QED
    BY <1>20, <2>1, <2>2, <2>3, <2>4 DEF Returned, TypeOK, Spells, agent, ears, record, people
<1>21. ASSUME NEW p \in Panes, ReturnViews(p) PROVE TypeOK'
  <2>1. ask' \in [Panes -> Request] /\ pane' \in [Panes -> PaneStates]
    BY <1>21, AnswerTypes DEF ReturnViews, Owners
  <2> QED
    BY <1>21, <2>1 DEF ReturnViews, TypeOK, PaneStates, agent, ears, record, people
<1>22. ASSUME NEW p \in Panes, Fails(p) PROVE TypeOK'
  <2>1. ask' \in [Panes -> Request] /\ pane' \in [Panes -> PaneStates]
    BY <1>22, AnswerTypes DEF Fails, Owners
  <2>2. spell' \in Spells
    BY <1>22 DEF Fails, TypeOK, Spells
  <2>3. notes' \in [Records -> Note]
    BY <1>22, ReferredTypes DEF Fails, TypeOK
  <2> QED
    BY <1>22, <2>1, <2>2, <2>3 DEF Fails, TypeOK, PaneStates, Spells, agent, ears, record, people
<1>23. CASE Reattach
  <2>1. ask' \in [Panes -> Request]
    BY <1>23 DEF Reattach, TypeOK, Request, Quiet, Stages, Handing
  <2>2. pane' \in [Panes -> PaneStates]
    BY <1>23 DEF Reattach, TypeOK, PaneStates
  <2>3. spell' \in Spells
    BY <1>23 DEF Reattach, TypeOK, Spells
  <2>4. notes' \in [Records -> Note]
    BY <1>23, ReferredTypes DEF Reattach, TypeOK
  <2> QED
    BY <1>23, <2>1, <2>2, <2>3, <2>4 DEF Reattach, TypeOK, PaneStates, Spells, agent, ears, record, people
<1>24. CASE Retire
  <2>1. notes' \in [Records -> Note]
    BY <1>24, ReferredTypes DEF Retire, TypeOK
  <2> QED
    BY <1>24, <2>1 DEF Retire, TypeOK, agent, ears, record, people, Idle, Untold, Unspent
<1>25. CASE CloseThread
  <2>1. notes' \in [Records -> Note]
    BY <1>25, ReferredTypes DEF CloseThread, TypeOK
  <2> QED
    BY <1>25, <2>1 DEF CloseThread, Owners, TypeOK, agent, ears, record, people, Idle, Untold, Unspent
<1>26. CASE UNCHANGED vars
  BY <1>26 DEF vars, TypeOK, agent, ears, record, people
<1> QED
  BY <1>1, <1>2, <1>3, <1>4, <1>5, <1>6, <1>7, <1>8, <1>9, <1>10, <1>11, <1>12, <1>13, <1>14, <1>15, <1>16, <1>17, <1>18, <1>19, <1>20, <1>21, <1>22, <1>23, <1>24, <1>25, <1>26 DEF TypeOK, Next

(* Every step keeps the lease and the record together. *)
LEMMA RecordStep ==
  ASSUME IInv, [Next]_vars
  PROVE  LeaseHasRecord'
<1> USE HandoffAssumption DEF Records, None
<1>1. CASE Look
  BY <1>1 DEF Look, Told, IInv, TypeOK, LeaseHasRecord, agent, ears, record, people, Unspent
<1>2. ASSUME NEW r \in Nat \cup {NoRev}, Admit(r) PROVE LeaseHasRecord'
  BY <1>2 DEF Admit, IInv, TypeOK, LeaseHasRecord, agent, ears, record, people, Unspent
<1>3. CASE Start
  BY <1>3 DEF Start, Stale, IInv, TypeOK, LeaseHasRecord, agent, ears, record, people, Unspent
<1>4. CASE Refuse
  BY <1>4 DEF Refuse, Stale, Told, IInv, TypeOK, LeaseHasRecord, agent, ears, record, people, Unspent
<1>5. CASE Finish
  BY <1>5 DEF Finish, Told, IInv, TypeOK, LeaseHasRecord, agent, ears, record, people, Unspent
<1>6. ASSUME NEW u \in Pages, Acts(u) PROVE LeaseHasRecord'
  BY <1>6 DEF Acts, MovesTo, Noted, Moved, IInv, TypeOK, LeaseHasRecord, agent, ears, record, people, Unspent
<1>7. ASSUME NEW u \in Pages, InputLands(u) PROVE LeaseHasRecord'
  BY <1>7 DEF InputLands, MovesTo, Noted, Moved, IInv, TypeOK, LeaseHasRecord, agent, ears, record, people, Unspent
<1>8. CASE InputElsewhere
  BY <1>8 DEF InputElsewhere, Noted, Moved, IInv, TypeOK, LeaseHasRecord, agent, ears, record, people, Unspent
<1>9. ASSUME NEW p \in Panes, Mount(p) PROVE LeaseHasRecord'
  BY <1>9 DEF Mount, Busy, IInv, TypeOK, LeaseHasRecord, agent, ears, record, people, Unspent
<1>10. ASSUME NEW p \in Panes, StatusShown(p) PROVE LeaseHasRecord'
  BY <1>10 DEF StatusShown, Answered, Owners, IInv, TypeOK, LeaseHasRecord, agent, ears, record, people, Unspent
<1>11. ASSUME NEW p \in Panes, Unmount(p) PROVE LeaseHasRecord'
  BY <1>11 DEF Unmount, IInv, TypeOK, LeaseHasRecord, agent, ears, record, people, Unspent
<1>12. ASSUME NEW p \in Panes, PressTake(p) PROVE LeaseHasRecord'
  BY <1>12 DEF PressTake, Asks, Busy, Hands, Handing, IInv, TypeOK, LeaseHasRecord, agent, ears, record, people, Unspent
<1>13. ASSUME NEW p \in Panes, PressReturn(p) PROVE LeaseHasRecord'
  BY <1>13 DEF PressReturn, Asks, Busy, Hands, Handing, IInv, TypeOK, LeaseHasRecord, agent, ears, record, people, Unspent
<1>14. ASSUME NEW p \in Panes, SendInput(p) PROVE LeaseHasRecord'
  BY <1>14 DEF SendInput, IInv, TypeOK, LeaseHasRecord, agent, ears, record, people, Unspent
<1>15. ASSUME NEW p \in Panes, TakeReads(p) PROVE LeaseHasRecord'
  BY <1>15 DEF TakeReads, Steps, IInv, TypeOK, LeaseHasRecord, agent, ears, record, people, Unspent
<1>16. ASSUME NEW p \in Panes, Taken(p) PROVE LeaseHasRecord'
  BY <1>16 DEF Taken, BeginHumanControl, NewRecord, Hand, Answered, Others, Hands, Handing, Referred, IInv, TypeOK, LeaseHasRecord, agent, ears, record, people, Unspent
<1>17. ASSUME NEW p \in Panes, TakenUnheard(p) PROVE LeaseHasRecord'
  BY <1>17 DEF TakenUnheard, BeginHumanControl, NewRecord, Hand, Answered, Referred, IInv, TypeOK, LeaseHasRecord, agent, ears, record, people, Unspent
<1>18. ASSUME NEW p \in Panes, ReturnReads(p) PROVE LeaseHasRecord'
  BY <1>18 DEF ReturnReads, Steps, IInv, TypeOK, LeaseHasRecord, agent, ears, record, people, Unspent
<1>19. ASSUME NEW p \in Panes, ReturnResets(p) PROVE LeaseHasRecord'
  BY <1>19 DEF ReturnResets, IInv, TypeOK, LeaseHasRecord, agent, ears, record, people, Unspent
<1>20. ASSUME NEW p \in Panes, Returned(p) PROVE LeaseHasRecord'
  BY <1>20 DEF Returned, Hand, Referred, IInv, TypeOK, LeaseHasRecord, agent, ears, record, people, Unspent
<1>21. ASSUME NEW p \in Panes, ReturnViews(p) PROVE LeaseHasRecord'
  BY <1>21 DEF ReturnViews, Answered, IInv, TypeOK, LeaseHasRecord, agent, ears, record, people, Unspent
<1>22. ASSUME NEW p \in Panes, Fails(p) PROVE LeaseHasRecord'
  BY <1>22 DEF Fails, Hands, Answered, Referred, IInv, TypeOK, LeaseHasRecord, agent, ears, record, people, Unspent
<1>23. CASE Reattach
  BY <1>23 DEF Reattach, Referred, IInv, TypeOK, LeaseHasRecord, agent, ears, record, people, Unspent
<1>24. CASE Retire
  BY <1>24 DEF Retire, Referred, IInv, TypeOK, LeaseHasRecord, agent, ears, record, people, Unspent
<1>25. CASE CloseThread
  BY <1>25 DEF CloseThread, Referred, IInv, TypeOK, LeaseHasRecord, agent, ears, record, people, Unspent
<1>26. CASE UNCHANGED vars
  BY <1>26 DEF vars, IInv, TypeOK, LeaseHasRecord, agent, ears, record, people, Unspent
<1> QED
  BY <1>1, <1>2, <1>3, <1>4, <1>5, <1>6, <1>7, <1>8, <1>9, <1>10, <1>11, <1>12, <1>13, <1>14, <1>15, <1>16, <1>17, <1>18, <1>19, <1>20, <1>21, <1>22, <1>23, <1>24, <1>25, <1>26 DEF IInv, TypeOK, Next

(* Every step keeps a plain spell's record its own. *)
LEMMA PlainStep ==
  ASSUME IInv, [Next]_vars
  PROVE  Plain'
<1> USE HandoffAssumption DEF Records, None
<1>1. CASE Look
  BY <1>1 DEF Look, Told, IInv, TypeOK, Plain, agent, ears, record, people, Unspent, Quiet
<1>2. ASSUME NEW r \in Nat \cup {NoRev}, Admit(r) PROVE Plain'
  BY <1>2 DEF Admit, IInv, TypeOK, Plain, agent, ears, record, people, Unspent, Quiet
<1>3. CASE Start
  BY <1>3 DEF Start, Stale, IInv, TypeOK, Plain, agent, ears, record, people, Unspent, Quiet
<1>4. CASE Refuse
  BY <1>4 DEF Refuse, Stale, Told, IInv, TypeOK, Plain, agent, ears, record, people, Unspent, Quiet
<1>5. CASE Finish
  BY <1>5 DEF Finish, Told, IInv, TypeOK, Plain, agent, ears, record, people, Unspent, Quiet
<1>6. ASSUME NEW u \in Pages, Acts(u) PROVE Plain'
  BY <1>6 DEF Acts, MovesTo, Noted, Moved, IInv, TypeOK, Plain, agent, ears, record, people, Unspent, Quiet
<1>7. ASSUME NEW u \in Pages, InputLands(u) PROVE Plain'
  BY <1>7 DEF InputLands, MovesTo, Noted, Moved, IInv, TypeOK, Plain, agent, ears, record, people, Unspent, Quiet
<1>8. CASE InputElsewhere
  <2>1. UNCHANGED <<lease, handoff, watching, deaf, ask>>
    BY <1>8 DEF InputElsewhere, ears
  <2>2. CASE notes' = Noted /\ spell' = Moved
    <3>1. spell'.plain = spell.plain
      BY <2>2 DEF Moved, IInv, TypeOK
    <3>2. ASSUME spell.plain PROVE notes'[handoff].navigated
      BY <2>2, <3>2 DEF Noted, IInv, TypeOK, Plain, Note
    <3> QED
      BY <2>1, <3>1, <3>2 DEF IInv, Plain
  <2>3. CASE spell' = [Moved EXCEPT !.plain = FALSE]
    <3>1. ~spell'.plain
      BY <2>3 DEF Moved, IInv, TypeOK
    <3> QED
      BY <3>1 DEF Plain
  <2> QED
    BY <1>8, <2>2, <2>3 DEF InputElsewhere
<1>9. ASSUME NEW p \in Panes, Mount(p) PROVE Plain'
  BY <1>9 DEF Mount, Busy, IInv, TypeOK, Plain, agent, ears, record, people, Unspent, Quiet
<1>10. ASSUME NEW p \in Panes, StatusShown(p) PROVE Plain'
  BY <1>10 DEF StatusShown, Answered, Owners, IInv, TypeOK, Plain, agent, ears, record, people, Unspent, Quiet
<1>11. ASSUME NEW p \in Panes, Unmount(p) PROVE Plain'
  BY <1>11 DEF Unmount, IInv, TypeOK, Plain, agent, ears, record, people, Unspent, Quiet
<1>12. ASSUME NEW p \in Panes, PressTake(p) PROVE Plain'
  BY <1>12 DEF PressTake, Asks, Busy, Hands, Handing, IInv, TypeOK, Plain, agent, ears, record, people, Unspent, Quiet
<1>13. ASSUME NEW p \in Panes, PressReturn(p) PROVE Plain'
  BY <1>13 DEF PressReturn, Asks, Busy, Hands, Handing, IInv, TypeOK, Plain, agent, ears, record, people, Unspent, Quiet
<1>14. ASSUME NEW p \in Panes, SendInput(p) PROVE Plain'
  BY <1>14 DEF SendInput, IInv, TypeOK, Plain, agent, ears, record, people, Unspent, Quiet
<1>15. ASSUME NEW p \in Panes, TakeReads(p) PROVE Plain'
  BY <1>15 DEF TakeReads, Steps, IInv, TypeOK, Plain, agent, ears, record, people, Unspent, Quiet
<1>16. ASSUME NEW p \in Panes, Taken(p) PROVE Plain'
  BY <1>16 DEF Taken, BeginHumanControl, NewRecord, Hand, Answered, Others, Hands, Handing, Referred, IInv, TypeOK, Plain, agent, ears, record, people, Unspent, Quiet
<1>17. ASSUME NEW p \in Panes, TakenUnheard(p) PROVE Plain'
  BY <1>17 DEF TakenUnheard, BeginHumanControl, NewRecord, Hand, Answered, Referred, IInv, TypeOK, Plain, agent, ears, record, people, Unspent, Quiet
<1>18. ASSUME NEW p \in Panes, ReturnReads(p) PROVE Plain'
  BY <1>18 DEF ReturnReads, Steps, IInv, TypeOK, Plain, agent, ears, record, people, Unspent, Quiet
<1>19. ASSUME NEW p \in Panes, ReturnResets(p) PROVE Plain'
  BY <1>19 DEF ReturnResets, IInv, TypeOK, Plain, agent, ears, record, people, Unspent, Quiet
<1>20. ASSUME NEW p \in Panes, Returned(p) PROVE Plain'
  BY <1>20 DEF Returned, Hand, Referred, IInv, TypeOK, Plain, agent, ears, record, people, Unspent, Quiet
<1>21. ASSUME NEW p \in Panes, ReturnViews(p) PROVE Plain'
  BY <1>21 DEF ReturnViews, Answered, IInv, TypeOK, Plain, agent, ears, record, people, Unspent, Quiet
<1>22. ASSUME NEW p \in Panes, Fails(p) PROVE Plain'
  BY <1>22 DEF Fails, Hands, Answered, Referred, IInv, TypeOK, Plain, agent, ears, record, people, Unspent, Quiet
<1>23. CASE Reattach
  BY <1>23 DEF Reattach, Referred, IInv, TypeOK, Plain, agent, ears, record, people, Unspent, Quiet
<1>24. CASE Retire
  BY <1>24 DEF Retire, Referred, IInv, TypeOK, Plain, agent, ears, record, people, Unspent, Quiet
<1>25. CASE CloseThread
  BY <1>25 DEF CloseThread, Referred, IInv, TypeOK, Plain, agent, ears, record, people, Unspent, Quiet
<1>26. CASE UNCHANGED vars
  BY <1>26 DEF vars, IInv, TypeOK, Plain, agent, ears, record, people, Unspent, Quiet
<1> QED
  BY <1>1, <1>2, <1>3, <1>4, <1>5, <1>6, <1>7, <1>8, <1>9, <1>10, <1>11, <1>12, <1>13, <1>14, <1>15, <1>16, <1>17, <1>18, <1>19, <1>20, <1>21, <1>22, <1>23, <1>24, <1>25, <1>26 DEF IInv, TypeOK, Next

(* The invariant the three theorems below rest on holds of every behaviour. *)
THEOREM Invariance == Spec => []IInv
<1>1. IInv /\ [Next]_vars => IInv'
  BY TypeStep, RecordStep, PlainStep DEF IInv
<1> QED
  BY InitInv, <1>1, PTL DEF Spec

(* Every variable keeps its type: no takeover, return or failure leaves a record
   that does not exist. *)
THEOREM TypeCorrect == Spec => []TypeOK
BY Invariance, PTL DEF IInv

(* The registry's lease and the runtime's record say the same of who drives, for
   any number of panes whose requests cross, until the reaper retires the runtime
   (beginHumanControl and endHumanControl of thread-runtime.ts). *)
THEOREM LeaseAndRecord == Spec => []LeaseHasRecord
BY Invariance, PTL DEF IInv

(* The report of a plain handoff tells of a navigation, whenever the page moved
   (endHumanControl and the listeners of beginHumanControl): the record it is made
   from is the one the listeners wrote into. *)
THEOREM NavigationReported == Spec => HandoffReported
<1> DEFINE Telling == \A p \in Panes : Reports(p) /\ spell.plain /\ spell.moved => Changes(p)
<1>1. IInv => Telling
  <2> SUFFICES ASSUME IInv, NEW p \in Panes, Reports(p), spell.plain, spell.moved
               PROVE  Changes(p)
    OBVIOUS
  <2>1. ask[p].record = handoff /\ handoff # None /\ notes[handoff].navigated
    BY DEF Reports, IInv, Plain
  <2> QED
    BY <2>1 DEF Changes
<1> QED
  BY <1>1, Invariance, PTL DEF HandoffReported, Spec
===============================================================================

-------------------------- MODULE EditorClosingProofs --------------------------
(***************************************************************************)
(* The inductive invariant of EditorClosing and what follows from it, in   *)
(* three layers, each from less of the environment.                        *)
(*                                                                         *)
(* Base is what holds whatever requests and edits come: the shape of the   *)
(* state, and the bookkeeping of the calls and of the shutdown. That only  *)
(* named tabs close rests on it. Asking holds where one request is         *)
(* answered before the next one comes (~Overlap): at most one tab is asked *)
(* about, and while a call has yet to ask about others no question is      *)
(* open, on which rests that a question stands. Unlost needs besides that  *)
(* no group shows a document twice (~Beside) and nothing is typed between  *)
(* a question and what follows it (~LateEdits): from the moment a call     *)
(* goes on with a tab until the tab is closed, each modified document of   *)
(* the tab was refused or is shown in another group (Cleared), so no edit  *)
(* is lost when it closes.                                                 *)
(***************************************************************************)
EXTENDS EditorClosing, TLAPS

\* Calls under way, and the tabs a call has yet to close.
Busy(c) == pc[c] # "idle"
Tracked(c) == rest[c] \cup ({deferred[c], asks[c]} \ {None})

\* The bookkeeping of a call: what it keeps goes with where it is.
Steps ==
    /\ \A c \in Calls :
          /\ Busy(c) <=> group[c] \in Groups
          /\ pc[c] = "loop" <=> turn = c
          /\ asks[c] # None <=> pc[c] \in {"asks", "go", "veto"}
          /\ deferred[c] # None => pc[c] = "loop" /\ deferred[c] \notin rest[c]
          /\ rest[c] # {} => Busy(c)

\* The bookkeeping of the shutdown: its question is about an item, and whoever
\* asks awaits one save at a time.
Shutting ==
    /\ dialog = Exit => exitStage = "asking"
    /\ exitStage \in {"asking", "saving"} => asked \in Item
    /\ \A w \in writing : w.by = Exit => exitStage = "saving"
    /\ \A v, w \in writing : v.by = w.by => v = w

\* An open tab shows something.
Shown == \A p \in Panes : where[p] # None => shows[p] # {}

\* What holds whatever the environment does.
Base == TypeOK /\ Steps /\ Shutting /\ Shown

-----------------------------------------------------------------------------
(* The shape of the state, whatever requests and edits come *)

LEMMA DocumentBase ==
    ASSUME Base, NEW d \in Docs, edit(d) \/ save(d) \/ holdFileModel(d) \/ expire(d)
    PROVE  Base'
<1> USE EditorClosingAssumption
<1>1. CASE edit(d)
  <2>1. TypeOK'
    BY <1>1 DEF Base, TypeOK, edit, Versions, series, asking, exit, Live, holdersOf
  <2> QED
    BY <1>1, <2>1 DEF Base, Steps, Busy, Shutting, Shown, edit, series, asking, exit
<1>2. CASE save(d)
  <2>1. TypeOK'
    BY <1>2 DEF Base, TypeOK, save, strips, series, asking, exit
  <2> QED
    BY <1>2, <2>1 DEF Base, Steps, Busy, Shutting, Shown, save, strips, series, asking, exit
<1>3. CASE holdFileModel(d) \/ expire(d)
  <2>1. UNCHANGED <<texts, strips, series, turn, asking, writing, exit, declined>> /\ held' \subseteq Docs
    BY <1>3 DEF Base, TypeOK, holdFileModel, expire
  <2>2. TypeOK'
    BY <2>1 DEF Base, TypeOK, texts, strips, series, asking, exit
  <2> QED
    BY <2>1, <2>2 DEF Base, Steps, Busy, Shutting, Shown, texts, strips, series, asking, exit
<1> QED
  BY <1>1, <1>2, <1>3

LEMMA OpenUriBase ==
    ASSUME Base, NEW d \in Docs, NEW g \in Groups, NEW asPreview \in BOOLEAN,
           openUri(d, g, asPreview)
    PROVE  Base'
<1> USE EditorClosingAssumption
<1>1. UNCHANGED <<texts, held, diff, series, turn, asking, writing, exit, declined>>
  BY DEF openUri
<1>2. Steps' /\ Shutting'
  BY <1>1 DEF Base, Steps, Busy, Shutting, series, asking, exit
<1>3. CASE UNCHANGED <<where, shows>>
  <2>1. PICK p \in Panes : /\ where[p] = g
                         /\ active' = [active EXCEPT ![g] = p]
                         /\ preview' = [preview EXCEPT ![g] = IF @ = p /\ ~asPreview THEN None ELSE @]
    BY <1>3 DEF Base, TypeOK, openUri, fresh
  <2>2. /\ active' \in [Groups -> Panes \cup {None}] /\ preview' \in [Groups -> Panes \cup {None}]
        /\ \A h \in Groups : \A q \in {active'[h], preview'[h]} \ {None} : where'[q] = h
    BY <1>3, <2>1 DEF Base, TypeOK
  <2>3. TypeOK'
    BY <1>1, <1>3, <2>2 DEF Base, TypeOK, texts, series, asking, exit
  <2> QED
    BY <1>2, <1>3, <2>3 DEF Base, Shown
<1>4. CASE ~UNCHANGED <<where, shows>>
  <2>1. fresh \in Panes /\ shows[fresh] = {} /\ where[fresh] = None
    BY <1>4 DEF openUri, fresh, Base, Shown
  <2>2. /\ where' \in [Panes -> Groups \cup {None}] /\ shows' \in [Panes -> SUBSET Docs]
        /\ shows' = [shows EXCEPT ![fresh] = {d}]
        /\ active' = [active EXCEPT ![g] = fresh]
        /\ preview' \in [Groups -> Panes \cup {None}]
    BY <1>4, <2>1 DEF Base, TypeOK, openUri
  <2>3. \A h \in Groups : h # g => preview'[h] = preview[h] /\ active'[h] = active[h]
    BY <1>4, <2>1 DEF Base, TypeOK, openUri
  <2>4. where'[fresh] = g /\ \A q \in Panes \ {fresh} : where'[q] = IF asPreview /\ q = preview[g] /\ q \in replaced(g) THEN None ELSE where[q]
    BY <1>4, <2>1 DEF Base, TypeOK, openUri, replaced
  <2>5. preview'[g] = IF ~asPreview THEN preview[g] ELSE IF ~isModified(d) THEN fresh ELSE None
    BY <1>4, <2>1 DEF Base, TypeOK, openUri
  <2>6. ASSUME NEW h \in Groups, NEW q \in {active'[h], preview'[h]} \ {None}
        PROVE  where'[q] = h
    <3>1. CASE h # g
      BY <2>1, <2>3, <2>4, <2>6, <3>1 DEF Base, TypeOK
    <3>2. CASE h = g
      BY <2>1, <2>2, <2>4, <2>5, <2>6, <3>2 DEF Base, TypeOK
    <3> QED
      BY <3>1, <3>2
  <2>7. TypeOK'
    BY <1>1, <2>1, <2>2, <2>6 DEF Base, TypeOK, texts, series, asking, exit
  <2>8. Shown'
    BY <2>1, <2>2, <2>4 DEF Base, TypeOK, Shown
  <2> QED
    BY <1>2, <2>7, <2>8 DEF Base
<1> QED
  BY <1>3, <1>4

LEMMA OpenDiffBase ==
    ASSUME Base, NEW D \in SUBSET Docs, NEW g \in Groups, openDiff(D, g)
    PROVE  Base'
<1> USE EditorClosingAssumption
<1>1. fresh \in Panes /\ shows[fresh] = {} /\ where[fresh] = None
  BY DEF openDiff, fresh, Base, Shown
<1>2. TypeOK'
  BY <1>1 DEF Base, TypeOK, openDiff, texts, series, asking, exit
<1>3. Shown'
  BY <1>1 DEF Base, TypeOK, Shown, openDiff
<1> QED
  BY <1>2, <1>3 DEF Base, Steps, Busy, Shutting, openDiff, series, asking, exit

LEMMA CloseEditorsBase ==
    ASSUME Base, Settled, NEW g \in Groups, NEW S \in SUBSET Panes, closeEditors(g, S)
    PROVE  Base'
<1> USE EditorClosingAssumption
<1>1. PICK c \in Calls : /\ pc[c] = "idle" /\ turn' = c
                         /\ group' = [group EXCEPT ![c] = g]
                         /\ rest' = [rest EXCEPT ![c] = S]
                         /\ pc' = [pc EXCEPT ![c] = "loop"]
  BY DEF closeEditors
<1>2. UNCHANGED <<texts, held, strips, deferred, asks, asking, writing, exit, declined>>
  BY DEF closeEditors
<1>3. TypeOK'
  BY <1>1, <1>2 DEF Base, TypeOK, texts, strips, asking, exit
<1>4. Steps'
  BY <1>1, <1>2 DEF Base, TypeOK, Steps, Busy, Settled
<1> QED
  BY <1>2, <1>3, <1>4 DEF Base, Shutting, Shown, strips, asking, exit

\* The strips after a tab closed.
StripsOK ==
    /\ where \in [Panes -> Groups \cup {None}]
    /\ active \in [Groups -> Panes \cup {None}] /\ preview \in [Groups -> Panes \cup {None}]
    /\ \A g \in Groups : \A p \in {active[g], preview[g]} \ {None} : where[p] = g

LEMMA Follows ==
    ASSUME TypeOK, NEW p, NEW g \in Groups, NEW next \in follows(p, g)
    PROVE  next = None \/ (next \in Panes /\ where[next] = g /\ next # p)
BY DEF follows, TypeOK

LEMMA ClosedStrips ==
    ASSUME TypeOK, NEW p, NEW g \in Groups, closeTab(p, g),
           NEW next, next = None \/ (next \in Panes /\ where[next] = g /\ next # p),
           active' = [active EXCEPT ![g] = next]
    PROVE  StripsOK'
<1> USE EditorClosingAssumption
<1>1. where' \in [Panes -> Groups \cup {None}] /\ preview' \in [Groups -> Panes \cup {None}]
  BY DEF TypeOK, closeTab
<1>2. ASSUME NEW h \in Groups, active'[h] # None
      PROVE  where'[active'[h]] = h
  BY <1>2 DEF TypeOK, closeTab
<1>3. ASSUME NEW h \in Groups, preview'[h] # None
      PROVE  where'[preview'[h]] = h
  BY <1>3 DEF TypeOK, closeTab
<1> QED
  BY <1>1, <1>2, <1>3 DEF StripsOK, TypeOK

\* The next tab of the loop, or the one that was asked about: it closes or is
\* the deferred one.
LEMMA CloseOrDeferStrips ==
    ASSUME TypeOK, NEW c \in Calls, group[c] \in Groups, NEW p \in Panes, closeOrDefer(c, p)
    PROVE  /\ StripsOK'
           /\ rest' \in [Calls -> SUBSET Panes] /\ rest' = [rest EXCEPT ![c] = @ \ {p}]
           /\ deferred' \in [Calls -> Panes \cup {None}]
           /\ \A e \in Calls : deferred'[e] = deferred[e] \/ (e = c /\ deferred'[e] = p)
           /\ \A q \in Panes : where'[q] \in {where[q], None}
<1> USE EditorClosingAssumption
<1>1. PICK g \in Groups : g = group[c]
  OBVIOUS
<1>2. rest' = [rest EXCEPT ![c] = @ \ {p}]
  BY DEF closeOrDefer
<1>3. CASE p = active[g]
  BY <1>1, <1>2, <1>3 DEF closeOrDefer, TypeOK, StripsOK
<1>4. CASE p # active[g]
  <2>1. closeTab(p, g) /\ UNCHANGED <<active, deferred>>
    BY <1>1, <1>4 DEF closeOrDefer
  <2>2. PICK next : next = active[g]
    OBVIOUS
  <2>3. /\ next = None \/ (next \in Panes /\ where[next] = g /\ next # p)
        /\ active' = [active EXCEPT ![g] = next]
    BY <1>4, <2>1, <2>2 DEF TypeOK
  <2>4. StripsOK'
    BY <2>1, <2>3, ClosedStrips
  <2> QED
    BY <1>2, <2>1, <2>4 DEF TypeOK, closeTab
<1> QED
  BY <1>3, <1>4

LEMMA TakeCleanBase ==
    ASSUME Base, NEW c \in Calls, TakeClean(c)
    PROVE  Base'
<1> USE EditorClosingAssumption
<1>1. pc[c] = "loop" /\ turn = c /\ group[c] \in Groups
  BY DEF TakeClean, Base, Steps, Busy
<1>2. PICK p \in rest[c] : closeOrDefer(c, p)
  BY DEF TakeClean
<1>3. UNCHANGED <<texts, held, shows, diff, group, asks, pc, turn, asking, writing, exit, declined>>
  BY DEF TakeClean
<1>4. p \in Panes
  BY DEF Base, TypeOK
<1>5. /\ StripsOK'
      /\ rest' \in [Calls -> SUBSET Panes] /\ rest' = [rest EXCEPT ![c] = @ \ {p}]
      /\ deferred' \in [Calls -> Panes \cup {None}]
      /\ \A e \in Calls : deferred'[e] = deferred[e] \/ (e = c /\ deferred'[e] = p)
      /\ \A q \in Panes : where'[q] \in {where[q], None}
  BY <1>1, <1>2, <1>4, CloseOrDeferStrips DEF Base
<1>6. TypeOK'
  BY <1>3, <1>5 DEF Base, TypeOK, StripsOK, texts, asking, exit
<1>7. Steps'
  BY <1>1, <1>3, <1>5 DEF Base, TypeOK, Steps, Busy
<1> QED
  BY <1>3, <1>5, <1>6, <1>7 DEF Base, Shutting, Shown, asking, exit

LEMMA TakeDirtyBase ==
    ASSUME Base, NEW c \in Calls, TakeDirty(c)
    PROVE  Base'
<1> USE EditorClosingAssumption
<1>1. pc[c] = "loop" /\ turn = c /\ asks[c] = None
  BY DEF TakeDirty, Base, Steps
<1>2. PICK g \in Groups : g = group[c]
  BY <1>1 DEF Base, Steps, Busy
<1>3. PICK q : q = deferred[c]
  OBVIOUS
<1>4. PICK p \in rest[c] :
         /\ closeTab(q, g)
         /\ asks' = [asks EXCEPT ![c] = p]
         /\ \E next \in follows(q, g) :
               active' = [active EXCEPT ![g] = IF isNew(p) /\ where[p] = g THEN p ELSE next]
         /\ IF isNew(p)
              THEN /\ stage' = [stage EXCEPT ![p] = "asking"]
                   /\ targets' = [targets EXCEPT ![p] = exclusive(p, q)]
                   /\ dialog' = p
              ELSE UNCHANGED asking
  BY <1>2, <1>3 DEF TakeDirty
<1>5. /\ turn' = None /\ deferred' = [deferred EXCEPT ![c] = None] /\ pc' = [pc EXCEPT ![c] = "asks"]
      /\ UNCHANGED <<texts, held, shows, diff, group, rest, writing, exit, declined>>
  BY DEF TakeDirty
<1>6. p \in Panes /\ p # q /\ exclusive(p, q) \in SUBSET Docs
  BY <1>1, <1>3, <1>4 DEF Base, TypeOK, Steps, exclusive
<1>7. PICK next \in follows(q, g) :
         active' = [active EXCEPT ![g] = IF isNew(p) /\ where[p] = g THEN p ELSE next]
  BY <1>4
<1>8. PICK n : n = IF isNew(p) /\ where[p] = g THEN p ELSE next
  OBVIOUS
<1>9. n = None \/ (n \in Panes /\ where[n] = g /\ n # q)
  BY <1>6, <1>8, Follows DEF Base
<1>10. StripsOK'
  BY <1>4, <1>7, <1>8, <1>9, ClosedStrips DEF Base
<1>11. /\ stage' \in [Panes -> {"none", "asking", "saving"}]
       /\ targets' \in [Panes -> SUBSET Docs] /\ dialog' \in Panes \cup {Exit, None}
       /\ dialog' = Exit => dialog = Exit
  <2>1. CASE isNew(p)
    BY <1>4, <1>6, <2>1 DEF Base, TypeOK
  <2>2. CASE ~isNew(p)
    BY <1>4, <2>2 DEF Base, TypeOK, asking
  <2> QED
    BY <2>1, <2>2
<1>12. TypeOK'
  BY <1>4, <1>5, <1>6, <1>10, <1>11 DEF Base, TypeOK, StripsOK, texts, exit
<1>13. Steps'
  BY <1>1, <1>4, <1>5, <1>6 DEF Base, TypeOK, Steps, Busy
<1>14. Shown'
  BY <1>4, <1>5 DEF Base, Shown, closeTab
<1> QED
  BY <1>5, <1>11, <1>12, <1>13, <1>14 DEF Base, Shutting, exit

\* A call that ended waits for nothing.
LEMMA Ended ==
    ASSUME TypeOK, Steps, NEW c \in Calls, ended(c), turn' # c,
           \A e \in Calls : e # c => (turn' = e <=> turn = e)
    PROVE  /\ Steps'
           /\ \A e \in Calls : /\ Busy(e)' => Busy(e) /\ group'[e] = group[e]
                               /\ Tracked(e)' \subseteq Tracked(e)
                               /\ Tracked(e)' # {} => group'[e] = group[e]
           /\ ~Busy(c)' /\ rest'[c] = {} /\ deferred'[c] = None
           /\ \A e \in Calls : e # c =>
                 /\ pc'[e] = pc[e] /\ asks'[e] = asks[e] /\ group'[e] = group[e]
                 /\ rest'[e] = rest[e] /\ deferred'[e] = deferred[e]
           /\ group' \in [Calls -> Groups \cup {None}] /\ rest' \in [Calls -> SUBSET Panes]
           /\ deferred' \in [Calls -> Panes \cup {None}] /\ asks' \in [Calls -> Panes \cup {None}]
           /\ pc' \in [Calls -> {"idle", "loop", "asks", "go", "veto"}]
<1> USE EditorClosingAssumption
<1>1. /\ group' \in [Calls -> Groups \cup {None}] /\ rest' \in [Calls -> SUBSET Panes]
      /\ deferred' \in [Calls -> Panes \cup {None}] /\ asks' \in [Calls -> Panes \cup {None}]
      /\ pc' \in [Calls -> {"idle", "loop", "asks", "go", "veto"}]
  BY DEF ended, TypeOK
<1>2. \A e \in Calls : e # c =>
         /\ pc'[e] = pc[e] /\ asks'[e] = asks[e] /\ group'[e] = group[e]
         /\ rest'[e] = rest[e] /\ deferred'[e] = deferred[e]
  BY DEF ended, TypeOK
<1>3. /\ pc'[c] = "idle" /\ rest'[c] = {} /\ deferred'[c] = None /\ asks'[c] = None
      /\ group'[c] = None
  BY DEF ended, TypeOK
<1>4. Steps'
  BY <1>2, <1>3 DEF Steps, Busy
<1>5. \A e \in Calls : /\ Busy(e)' => Busy(e) /\ group'[e] = group[e]
                       /\ Tracked(e)' \subseteq Tracked(e)
                       /\ Tracked(e)' # {} => group'[e] = group[e]
  BY <1>2, <1>3 DEF Busy, Tracked
<1> QED
  BY <1>1, <1>2, <1>3, <1>4, <1>5 DEF Busy

LEMMA LoopEndsBase ==
    ASSUME Base, NEW c \in Calls, LoopEnds(c)
    PROVE  Base'
<1> USE EditorClosingAssumption
<1>1. pc[c] = "loop" /\ turn = c
  BY DEF LoopEnds, Base, Steps
<1>2. PICK g \in Groups : group[c] = g
  BY <1>1 DEF Base, Steps, Busy
<1>3. PICK q : q = deferred[c]
  OBVIOUS
<1>4. PICK next \in follows(q, g) : active' = [active EXCEPT ![g] = next]
  BY <1>2, <1>3 DEF LoopEnds
<1>5. closeTab(q, g) /\ ended(c) /\ turn' = None
  BY <1>2, <1>3 DEF LoopEnds
<1>6. UNCHANGED <<texts, held, shows, diff, asking, writing, exit, declined>>
  BY DEF LoopEnds
<1>7. /\ Steps'
      /\ group' \in [Calls -> Groups \cup {None}] /\ rest' \in [Calls -> SUBSET Panes]
      /\ deferred' \in [Calls -> Panes \cup {None}] /\ asks' \in [Calls -> Panes \cup {None}]
      /\ pc' \in [Calls -> {"idle", "loop", "asks", "go", "veto"}]
  BY <1>1, <1>5, Ended DEF Base
<1>8. StripsOK'
  BY <1>4, <1>5, Follows, ClosedStrips DEF Base
<1>9. TypeOK'
  BY <1>5, <1>6, <1>7, <1>8 DEF Base, TypeOK, StripsOK, texts, asking, exit
<1>10. Shown'
  BY <1>5, <1>6 DEF Base, Shown, closeTab
<1> QED
  BY <1>6, <1>7, <1>9, <1>10 DEF Base, Shutting, asking, exit

LEMMA VetoedBase ==
    ASSUME Base, NEW c \in Calls, Vetoed(c)
    PROVE  Base'
<1> USE EditorClosingAssumption
<1>1. pc[c] = "veto" /\ ended(c) /\ turn = None
  BY DEF Vetoed
<1>2. UNCHANGED <<texts, held, strips, turn, asking, writing, exit, declined>>
  BY DEF Vetoed
<1>3. /\ Steps'
      /\ group' \in [Calls -> Groups \cup {None}] /\ rest' \in [Calls -> SUBSET Panes]
      /\ deferred' \in [Calls -> Panes \cup {None}] /\ asks' \in [Calls -> Panes \cup {None}]
      /\ pc' \in [Calls -> {"idle", "loop", "asks", "go", "veto"}]
  BY <1>1, <1>2, Ended DEF Base
<1>4. TypeOK'
  BY <1>2, <1>3 DEF Base, TypeOK, texts, strips, asking, exit
<1> QED
  BY <1>2, <1>3, <1>4 DEF Base, Shutting, Shown, strips, asking, exit

LEMMA ConfirmedBase ==
    ASSUME Base, NEW c \in Calls, Confirmed(c)
    PROVE  Base'
<1> USE EditorClosingAssumption
<1>1. /\ pc[c] = "go" /\ turn = None /\ turn' = c
      /\ pc' = [pc EXCEPT ![c] = "loop"] /\ asks' = [asks EXCEPT ![c] = None]
      /\ deferred[c] = None /\ group[c] \in Groups /\ \A e \in Calls : pc[e] # "loop"
  BY DEF Confirmed, Base, Steps, Busy
<1>2. PICK p \in Panes : p = asks[c]
  BY <1>1 DEF Base, Steps, TypeOK
<1>3. closeOrDefer(c, p)
  BY <1>2 DEF Confirmed
<1>4. UNCHANGED <<texts, held, shows, diff, group, asking, writing, exit, declined>>
  BY DEF Confirmed
<1>5. /\ StripsOK'
      /\ rest' \in [Calls -> SUBSET Panes] /\ rest' = [rest EXCEPT ![c] = @ \ {p}]
      /\ deferred' \in [Calls -> Panes \cup {None}]
      /\ \A e \in Calls : deferred'[e] = deferred[e] \/ (e = c /\ deferred'[e] = p)
      /\ \A q \in Panes : where'[q] \in {where[q], None}
  BY <1>1, <1>3, CloseOrDeferStrips DEF Base
<1>6. TypeOK'
  BY <1>1, <1>4, <1>5 DEF Base, TypeOK, StripsOK, texts, asking, exit
<1>7. Steps'
  BY <1>1, <1>4, <1>5 DEF Base, TypeOK, Steps, Busy
<1> QED
  BY <1>4, <1>5, <1>6, <1>7 DEF Base, Shutting, Shown, asking, exit

\* A question settles, or goes on with the next target.
LEMMA SettleShape ==
    ASSUME TypeOK, Steps, Settled, NEW p \in Panes, NEW verdict \in {"go", "veto"}, settle(p, verdict),
           UNCHANGED <<group, rest, deferred, asks, turn>>
    PROVE  /\ stage' \in [Panes -> {"none", "asking", "saving"}] /\ targets' \in [Panes -> SUBSET Docs]
           /\ pc' \in [Calls -> {"idle", "loop", "asks", "go", "veto"}]
           /\ Steps'
<1> USE EditorClosingAssumption
<1>1. /\ stage' \in [Panes -> {"none", "asking", "saving"}] /\ targets' \in [Panes -> SUBSET Docs]
      /\ pc' \in [Calls -> {"idle", "loop", "asks", "go", "veto"}]
  BY DEF TypeOK, settle, awake
<1>2. \A c \in Calls : pc'[c] = IF pc[c] = "asks" /\ asks[c] = p THEN verdict ELSE pc[c]
  BY DEF TypeOK, settle, awake
<1>3. Steps'
  BY <1>2 DEF Steps, Busy, Settled
<1> QED
  BY <1>1, <1>3

LEMMA SaveTargetShape ==
    ASSUME TypeOK, Steps, NEW p \in Panes, saveTarget(p, targets[p]),
           UNCHANGED <<group, rest, deferred, asks, turn>>
    PROVE  /\ stage' \in [Panes -> {"none", "asking", "saving"}] /\ targets' \in [Panes -> SUBSET Docs]
           /\ writing' \subseteq [by : Panes \cup {Exit}, doc : Docs, version : Versions]
           /\ \A w \in writing' : w.by = Exit => w \in writing
           /\ (\A v, w \in writing : v.by = w.by => v = w) => \A v, w \in writing' : v.by = w.by => v = w
           /\ UNCHANGED pc /\ Steps'
<1> USE EditorClosingAssumption
<1>1. PICK left \in SUBSET Docs : left = targets[p]
  BY DEF TypeOK
<1>2. PICK d \in left :
         /\ stage' = [stage EXCEPT ![p] = "saving"]
         /\ targets' = [targets EXCEPT ![p] = left \ {d}]
         /\ writing' = {w \in writing : w.by # p} \cup {[by |-> p, doc |-> d, version |-> version[d]]}
         /\ UNCHANGED pc
  BY <1>1 DEF saveTarget
<1>3. /\ stage' \in [Panes -> {"none", "asking", "saving"}] /\ targets' \in [Panes -> SUBSET Docs]
      /\ writing' \subseteq [by : Panes \cup {Exit}, doc : Docs, version : Versions]
      /\ \A w \in writing' : w.by = Exit => w \in writing
      /\ (\A v, w \in writing : v.by = w.by => v = w) => \A v, w \in writing' : v.by = w.by => v = w
  BY <1>2 DEF TypeOK
<1>4. Steps'
  BY <1>2 DEF Steps, Busy
<1> QED
  BY <1>2, <1>3, <1>4

LEMMA AnswerBase ==
    ASSUME Base, Settled, NEW p \in Panes, Cancel(p) \/ DontSave(p) \/ Save(p)
    PROVE  Base'
<1> USE EditorClosingAssumption
<1>1. dialog' = None /\ UNCHANGED <<texts, strips, group, rest, deferred, asks, turn, exit>>
  BY DEF Cancel, DontSave, Save
<1>2. held' \subseteq Docs /\ declined' \in [Docs -> Versions \cup {None}]
  BY DEF Base, TypeOK, Cancel, DontSave, Save, releaseFileModelWithoutEditor
<1>3. /\ stage' \in [Panes -> {"none", "asking", "saving"}] /\ targets' \in [Panes -> SUBSET Docs]
      /\ pc' \in [Calls -> {"idle", "loop", "asks", "go", "veto"}]
      /\ writing' \subseteq [by : Panes \cup {Exit}, doc : Docs, version : Versions]
      /\ \A w \in writing' : w.by = Exit => w \in writing
      /\ \A v, w \in writing' : v.by = w.by => v = w
      /\ Steps'
  <2>1. CASE Cancel(p) \/ DontSave(p)
    <3>1. UNCHANGED writing /\ \E verdict \in {"go", "veto"} : settle(p, verdict)
      BY <2>1 DEF Cancel, DontSave
    <3> QED
      BY <1>1, <3>1, SettleShape DEF Base, TypeOK, Shutting
  <2>2. CASE Save(p)
    <3>1. saveTarget(p, targets[p])
      BY <2>2 DEF Save
    <3> QED
      BY <1>1, <3>1, SaveTargetShape DEF Base, TypeOK, Shutting
  <2> QED
    BY <2>1, <2>2
<1>4. TypeOK'
  BY <1>1, <1>2, <1>3 DEF Base, TypeOK, texts, strips, exit
<1> QED
  BY <1>1, <1>3, <1>4 DEF Base, Shutting, Shown, strips, exit

LEMMA SavedBase ==
    ASSUME Base, Settled, NEW p \in Panes, Saved(p)
    PROVE  Base'
<1> USE EditorClosingAssumption
<1>1. UNCHANGED <<version, held, strips, group, rest, deferred, asks, turn, dialog, exit, declined>>
  BY DEF Saved
<1>2. PICK w \in writing :
         /\ w.by = p
         /\ \/ /\ saved' = [saved EXCEPT ![w.doc] = w.version]
               /\ IF targets[p] = {}
                    THEN settle(p, "go") /\ writing' = writing \ {w}
                    ELSE saveTarget(p, targets[p])
            \/ /\ settle(p, "veto")
               /\ writing' = writing \ {w}
               /\ UNCHANGED saved
  BY DEF Saved
<1>3. saved' \in [Docs -> Versions]
  BY <1>2 DEF Base, TypeOK
<1>4. /\ stage' \in [Panes -> {"none", "asking", "saving"}] /\ targets' \in [Panes -> SUBSET Docs]
      /\ pc' \in [Calls -> {"idle", "loop", "asks", "go", "veto"}]
      /\ writing' \subseteq [by : Panes \cup {Exit}, doc : Docs, version : Versions]
      /\ \A v \in writing' : v.by = Exit => v \in writing
      /\ \A v, x \in writing' : v.by = x.by => v = x
      /\ Steps'
  <2>1. CASE writing' = writing \ {w} /\ \E verdict \in {"go", "veto"} : settle(p, verdict)
    BY <1>1, <2>1, SettleShape DEF Base, TypeOK, Shutting
  <2>2. CASE saveTarget(p, targets[p])
    BY <1>1, <2>2, SaveTargetShape DEF Base, TypeOK, Shutting
  <2> QED
    BY <1>2, <2>1, <2>2
<1>5. TypeOK'
  BY <1>1, <1>3, <1>4 DEF Base, TypeOK, strips, exit
<1> QED
  BY <1>1, <1>4, <1>5 DEF Base, Shutting, Shown, strips, exit

\* From one item to the next question, or to the end.
LEMMA NextItemShape ==
    ASSUME TypeOK, NEW left \in SUBSET Item, nextItem(left)
    PROVE  /\ exitStage' \in {"asking", "closing"} /\ items' \subseteq Item /\ asked' \in Item \cup {None}
           /\ exitStage' = "asking" => asked' \in Item
           /\ dialog' \in Panes \cup {None, Exit} /\ (dialog' = Exit => exitStage' = "asking")
<1>1. CASE \E i \in left : \E skipped \in SUBSET {j \in left : ~isStillDirty(j)} :
              /\ items' = left \ ({i} \cup skipped)
              /\ asked' = i /\ exitStage' = "asking" /\ dialog' = Exit
  BY <1>1
<1>2. CASE /\ \A i \in left : ~isStillDirty(i)
           /\ items' = {} /\ asked' = None /\ exitStage' = "closing"
           /\ dialog' = IF dialog = Exit THEN None ELSE dialog
  BY <1>2, EditorClosingAssumption DEF TypeOK
<1> QED
  BY <1>1, <1>2 DEF nextItem

LEMMA DirtyItems == collectDirty \in SUBSET Item
<1>1. ASSUME NEW i \in collectDirty
      PROVE  i \in Item
  <2>1. PICK d \in Docs : i = [doc |-> d, inTab |-> holdersOf(d) # {}]
    BY DEF collectDirty
  <2>2. (holdersOf(d) # {}) \in BOOLEAN
    OBVIOUS
  <2> QED
    BY <2>1, <2>2, Zenon DEF Item
<1> QED
  BY <1>1

LEMMA ShutdownBase ==
    ASSUME Base, requestShutdown \/ CancelExit \/ DontSaveExit \/ SaveExit \/ SavedExit \/ WindowEnds
    PROVE  Base'
<1> USE EditorClosingAssumption
<1>1. UNCHANGED <<version, held, strips, series, turn, stage, targets>>
  BY DEF requestShutdown, CancelExit, DontSaveExit, SaveExit, SavedExit, WindowEnds, texts, asking
<1>2. Steps' /\ Shown'
  BY <1>1 DEF Base, Steps, Busy, Shown, series, strips
<1>3. SUFFICES /\ saved' \in [Docs -> Versions] /\ declined' \in [Docs -> Versions \cup {None}]
               /\ writing' \subseteq [by : Panes \cup {Exit}, doc : Docs, version : Versions]
               /\ dialog' \in Panes \cup {Exit, None}
               /\ exitStage' \in {"no", "asking", "saving", "closing", "gone"}
               /\ items' \subseteq Item /\ asked' \in Item \cup {None}
               /\ Shutting'
  <2>1. TypeOK'
    BY <1>1, <1>3 DEF Base, TypeOK, strips, series
  <2> QED
    BY <1>2, <1>3, <2>1 DEF Base
<1>4. CASE requestShutdown
  <2>1. /\ exitStage \in {"no", "asking"} /\ nextItem(collectDirty)
        /\ UNCHANGED <<saved, declined, writing>>
    BY <1>4 DEF requestShutdown, texts
  <2>2. /\ exitStage' \in {"asking", "closing"} /\ items' \subseteq Item /\ asked' \in Item \cup {None}
        /\ exitStage' = "asking" => asked' \in Item
        /\ dialog' \in Panes \cup {None, Exit} /\ (dialog' = Exit => exitStage' = "asking")
    BY <2>1, DirtyItems, NextItemShape DEF Base
  <2> QED
    BY <2>1, <2>2 DEF Base, TypeOK, Shutting
<1>5. CASE CancelExit
  <2>1. /\ exitStage = "asking" /\ dialog' = None /\ exitStage' = "no" /\ items' = {} /\ asked' = None
        /\ declined' = [d \in Docs |-> IF Live(d) THEN None ELSE declined[d]]
        /\ UNCHANGED <<saved, writing>>
    BY <1>5 DEF CancelExit, aborted, texts, Base, Shutting
  <2> QED
    BY <2>1 DEF Base, TypeOK, Shutting
<1>6. CASE DontSaveExit
  <2>1. /\ exitStage = "asking" /\ asked \in Item /\ asked.doc \in Docs /\ nextItem(items)
        /\ declined' = [declined EXCEPT ![asked.doc] = version[asked.doc]]
        /\ UNCHANGED <<saved, writing>>
    BY <1>6 DEF DontSaveExit, texts, Base, Shutting, Item
  <2>2. /\ exitStage' \in {"asking", "closing"} /\ items' \subseteq Item /\ asked' \in Item \cup {None}
        /\ exitStage' = "asking" => asked' \in Item
        /\ dialog' \in Panes \cup {None, Exit} /\ (dialog' = Exit => exitStage' = "asking")
    BY <2>1, NextItemShape DEF Base, TypeOK
  <2> QED
    BY <2>1, <2>2 DEF Base, TypeOK, Shutting
<1>7. CASE SaveExit
  <2>1. /\ exitStage = "asking" /\ asked \in Item /\ asked.doc \in Docs /\ dialog' = None /\ exitStage' = "saving"
        /\ writing' = writing \cup {[by |-> Exit, doc |-> asked.doc, version |-> version[asked.doc]]}
        /\ UNCHANGED <<saved, declined, items, asked>>
    BY <1>7 DEF SaveExit, texts, Base, Shutting, Item
  <2> QED
    BY <2>1 DEF Base, TypeOK, Shutting
<1>8. CASE SavedExit
  <2>1. PICK w \in writing :
           /\ w.by = Exit
           /\ writing' = writing \ {w}
           /\ \/ /\ saved' = [saved EXCEPT ![w.doc] = w.version]
                 /\ nextItem(items)
                 /\ UNCHANGED declined
              \/ aborted /\ UNCHANGED <<saved, dialog>>
    BY <1>8 DEF SavedExit
  <2>2. /\ exitStage = "saving" /\ dialog # Exit /\ \A v \in writing' : v.by # Exit
        /\ writing' \subseteq [by : Panes \cup {Exit}, doc : Docs, version : Versions]
        /\ \A v, x \in writing' : v.by = x.by => v = x
    BY <2>1 DEF Base, TypeOK, Shutting
  <2>3. CASE saved' = [saved EXCEPT ![w.doc] = w.version] /\ nextItem(items) /\ UNCHANGED declined
    <3>1. /\ exitStage' \in {"asking", "closing"} /\ items' \subseteq Item /\ asked' \in Item \cup {None}
          /\ exitStage' = "asking" => asked' \in Item
          /\ dialog' \in Panes \cup {None, Exit} /\ (dialog' = Exit => exitStage' = "asking")
      BY <2>3, NextItemShape DEF Base, TypeOK
    <3>2. saved' \in [Docs -> Versions]
      BY <2>3 DEF Base, TypeOK
    <3> QED
      BY <2>2, <2>3, <3>1, <3>2 DEF Base, TypeOK, Shutting
  <2>4. CASE aborted /\ UNCHANGED <<saved, dialog>>
    <3>1. /\ exitStage' = "no" /\ items' = {} /\ asked' = None
          /\ declined' \in [Docs -> Versions \cup {None}]
      BY <2>4 DEF aborted, Base, TypeOK
    <3> QED
      BY <2>2, <2>4, <3>1 DEF Base, TypeOK, Shutting
  <2> QED
    BY <2>1, <2>3, <2>4
<1>9. CASE WindowEnds
  <2>1. /\ exitStage = "closing" /\ exitStage' = "gone"
        /\ UNCHANGED <<saved, declined, writing, dialog, items, asked>>
    BY <1>9 DEF WindowEnds, texts, asking
  <2> QED
    BY <2>1 DEF Base, TypeOK, Shutting
<1> QED
  BY <1>4, <1>5, <1>6, <1>7, <1>8, <1>9

LEMMA BaseStep ==
    ASSUME Base, [Next]_vars
    PROVE  Base'
<1>1. CASE Continuation
  BY <1>1, TakeCleanBase, TakeDirtyBase, LoopEndsBase, ConfirmedBase, VetoedBase DEF Continuation
<1>2. CASE Settled /\ Document
  BY <1>2, DocumentBase DEF Document
<1>3. CASE Settled /\ Request
  BY <1>3, OpenUriBase, OpenDiffBase, CloseEditorsBase, ShutdownBase DEF Request
<1>4. CASE Settled /\ Answer
  BY <1>4, AnswerBase, ShutdownBase DEF Answer
<1>5. CASE Settled /\ SaveEnds
  BY <1>5, SavedBase, ShutdownBase DEF SaveEnds
<1>6. CASE Settled /\ WindowEnds
  BY <1>6, ShutdownBase
<1>7. CASE UNCHANGED vars
  <2>1. UNCHANGED <<version, saved, held, where, shows, diff, active, preview, group, rest, deferred, asks, pc, turn, stage, targets, dialog, writing, exitStage, items, asked, declined>>
    BY <1>7 DEF vars, texts, strips, series, asking, exit
  <2> QED
    BY <2>1 DEF Base, TypeOK, Steps, Busy, Shutting, Shown
<1> QED
  BY <1>1, <1>2, <1>3, <1>4, <1>5, <1>6, <1>7 DEF Next

LEMMA BaseInvariance == Spec => []Base
<1>1. Init => Base
  <2>1. Init => TypeOK
    BY EditorClosingAssumption DEF Init, TypeOK, Versions
  <2> QED
    BY <2>1, EditorClosingAssumption DEF Init, Base, Steps, Busy, Shutting, Shown
<1> QED
  BY <1>1, BaseStep, PTL DEF Spec

-----------------------------------------------------------------------------
\* Tabs that a call may still ask about.
Unasked(c) == {p \in rest[c] \ {asks[c]} : stage[p] = "none"}

\* One question at a time, about a tab that a call waits for.
Questions ==
    /\ \A p \in Panes : targets[p] \subseteq shows[p]
    /\ \A p \in Panes : stage[p] # "none" => \E c \in Calls : pc[c] = "asks" /\ asks[c] = p
    /\ QuestionsStand
    /\ \A p, q \in Panes : stage[p] # "none" /\ stage[q] # "none" => p = q
    /\ \A c \in Calls : pc[c] \in {"loop", "go"} /\ Unasked(c) # {} => \A p \in Panes : stage[p] = "none"
    /\ \A c, e \in Calls : c # e => Unasked(c) = {} \/ Unasked(e) = {}

\* No tab closes while the window does, and what is being saved for a tab is
\* saved for its question.
Alone ==
    /\ exitStage # "no" => \A c \in Calls : ~Busy(c)
    /\ \A w \in writing : w.by # Exit => stage[w.by] = "saving"

\* What holds where one request is answered before the next one comes.
Asking == Questions /\ Alone
AInv == Base /\ Asking

-----------------------------------------------------------------------------
(* One question at a time *)

LEMMA StillAsking ==
    ASSUME AInv, UNCHANGED <<series, asking, exit, writing>>, \A p \in Panes : shows[p] \subseteq shows'[p]
    PROVE  Asking'
BY DEF AInv, Asking, Questions, QuestionsStand, Alone, Busy, Unasked, series, asking, exit

LEMMA DocumentAsking ==
    ASSUME AInv, NEW d \in Docs, edit(d) \/ save(d) \/ holdFileModel(d) \/ expire(d)
    PROVE  Asking'
BY StillAsking DEF edit, save, holdFileModel, expire, strips

LEMMA OpenAsking ==
    ASSUME AInv, NEW g \in Groups,
           \/ \E d \in Docs, asPreview \in BOOLEAN : openUri(d, g, asPreview)
           \/ \E D \in SUBSET Docs : openDiff(D, g)
    PROVE  Asking'
<1>1. UNCHANGED <<series, asking, exit, writing>>
  BY DEF openUri, openDiff
<1>2. UNCHANGED shows \/ (shows[fresh] = {} /\ \E D : shows' = [shows EXCEPT ![fresh] = D])
  BY DEF openUri, openDiff, fresh
<1>3. \A p \in Panes : shows[p] \subseteq shows'[p]
  BY <1>2 DEF AInv, Base, TypeOK
<1> QED
  BY <1>1, <1>3, StillAsking

LEMMA CloseEditorsAsking ==
    ASSUME AInv, ~Overlap, NEW g \in Groups, NEW S \in SUBSET Panes, closeEditors(g, S)
    PROVE  Asking'
<1> USE EditorClosingAssumption
<1>1. PICK c \in Calls : /\ pc[c] = "idle"
                         /\ rest' = [rest EXCEPT ![c] = S]
                         /\ pc' = [pc EXCEPT ![c] = "loop"]
  BY DEF closeEditors
<1>2. UNCHANGED <<strips, asks, asking, writing, exit>>
  BY DEF closeEditors
<1>3. /\ exitStage = "no"
      /\ \/ \A e \in Calls : pc[e] = "idle" /\ \A p \in Panes : stage[p] = "none"
         \/ \E p \in Panes : S = {p} /\ stage[p] # "none"
  BY DEF closeEditors, Quiet
<1>4. Unasked(c)' = {} \/ \A e \in Calls : pc[e] = "idle" /\ \A p \in Panes : stage[p] = "none"
  BY <1>1, <1>2, <1>3 DEF AInv, Base, TypeOK, Unasked, asking
<1>5. \A e \in Calls : e # c => Unasked(e)' = Unasked(e) /\ pc'[e] = pc[e]
  BY <1>1, <1>2 DEF AInv, Base, TypeOK, Unasked, asking
<1>6. \A e \in Calls : pc[e] = "idle" => Unasked(e) = {}
  BY DEF AInv, Base, Steps, Busy, Unasked
<1>7. Questions'
  BY <1>1, <1>2, <1>4, <1>5, <1>6 DEF AInv, Base, TypeOK, Asking, Questions, QuestionsStand, asking, strips, exit
<1> QED
  BY <1>2, <1>3, <1>7 DEF AInv, Asking, Alone, asking, exit

\* The loop of a call goes on to another tab, or a call ends.
LEMMA StillAsked ==
    ASSUME AInv, UNCHANGED <<shows, asking, exit, writing>>, exitStage = "no",
           \A e \in Calls : /\ Unasked(e)' \subseteq Unasked(e)
                            /\ pc'[e] \in {"loop", "go"} => pc[e] \in {"loop", "go"}
                            /\ pc'[e] = "asks" <=> pc[e] = "asks"
                            /\ pc[e] = "asks" => asks'[e] = asks[e]
    PROVE  Asking'
<1>1. Questions'
  BY DEF AInv, Asking, Questions, QuestionsStand, asking, exit
<1> QED
  BY <1>1 DEF AInv, Asking, Alone, asking, exit

LEMMA LoopAsking ==
    ASSUME AInv, NEW c \in Calls, TakeClean(c) \/ LoopEnds(c) \/ Confirmed(c) \/ Vetoed(c)
    PROVE  Asking'
<1> USE EditorClosingAssumption
<1>1. UNCHANGED <<shows, asking, exit, writing>>
  BY DEF TakeClean, LoopEnds, Confirmed, Vetoed, strips
<1>2. Busy(c) /\ exitStage = "no"
  BY DEF AInv, Base, Steps, Asking, Alone, Busy, TakeClean, LoopEnds, Confirmed, Vetoed
<1>3. CASE TakeClean(c)
  <2>1. UNCHANGED <<asks, pc>> /\ \E p : rest' = [rest EXCEPT ![c] = @ \ {p}]
    BY <1>3 DEF TakeClean, closeOrDefer
  <2> QED
    BY <1>1, <1>2, <2>1, StillAsked DEF AInv, Base, TypeOK, Unasked, asking
<1>4. CASE LoopEnds(c) \/ Vetoed(c)
  <2>1. pc[c] \in {"loop", "veto"} /\ rest' = [rest EXCEPT ![c] = {}] /\ pc' = [pc EXCEPT ![c] = "idle"]
        /\ asks' = [asks EXCEPT ![c] = None]
    BY <1>4 DEF AInv, Base, Steps, LoopEnds, Vetoed, ended
  <2> QED
    BY <1>1, <1>2, <2>1, StillAsked DEF AInv, Base, TypeOK, Unasked, asking
<1>5. CASE Confirmed(c)
  <2>1. /\ pc[c] = "go" /\ rest' = [rest EXCEPT ![c] = @ \ {asks[c]}] /\ pc' = [pc EXCEPT ![c] = "loop"]
        /\ asks' = [asks EXCEPT ![c] = None]
    BY <1>5 DEF Confirmed, closeOrDefer
  <2> QED
    BY <1>1, <1>2, <2>1, StillAsked DEF AInv, Base, TypeOK, Unasked, asking
<1> QED
  BY <1>3, <1>4, <1>5

\* A question is asked where there is none, or joined.
LEMMA TakeDirtyAsking ==
    ASSUME AInv, NEW c \in Calls, TakeDirty(c)
    PROVE  Asking'
<1> USE EditorClosingAssumption
<1>1. pc[c] = "loop" /\ turn = c /\ asks[c] = None /\ exitStage = "no"
  BY DEF TakeDirty, AInv, Base, Steps, Asking, Alone, Busy
<1>2. PICK q : q = deferred[c]
  OBVIOUS
<1>3. PICK p \in rest[c] :
         /\ asks' = [asks EXCEPT ![c] = p]
         /\ IF isNew(p)
              THEN /\ stage' = [stage EXCEPT ![p] = "asking"]
                   /\ targets' = [targets EXCEPT ![p] = exclusive(p, q)]
                   /\ dialog' = p
              ELSE UNCHANGED asking
  BY <1>2 DEF TakeDirty
<1>4. /\ turn' = None /\ pc' = [pc EXCEPT ![c] = "asks"]
      /\ UNCHANGED <<shows, rest, writing, exit>>
  BY DEF TakeDirty
<1>5. p \in Panes /\ exclusive(p, q) \subseteq shows[p]
  BY <1>3 DEF AInv, Base, TypeOK, exclusive
<1>6. isNew(p) => /\ \A r \in Panes : stage[r] = "none"
                  /\ \A e \in Calls : e # c => Unasked(e) = {}
  BY <1>1, <1>3, <1>5 DEF isNew, Unasked, AInv, Asking, Questions
<1>7. \A e \in Calls : Unasked(e)' \subseteq Unasked(e)
  BY <1>1, <1>3, <1>4, <1>5 DEF AInv, Base, TypeOK, Unasked, isNew, asking
<1>8. CASE isNew(p)
  <2>1. /\ \A r \in Panes : stage'[r] = IF r = p THEN "asking" ELSE "none"
        /\ dialog' = p /\ pc'[c] = "asks" /\ asks'[c] = p
        /\ \A r \in Panes : targets'[r] \subseteq shows'[r]
    BY <1>3, <1>4, <1>5, <1>6, <1>8 DEF AInv, Base, TypeOK, Asking, Questions
  <2>2. \A e \in Calls : pc'[e] = "asks" => e = c
    BY <1>4, <1>6, <1>8 DEF AInv, Base, TypeOK, Steps, Asking, Questions, QuestionsStand
  <2>3. \A e \in Calls : e # c => Unasked(e)' = {}
    BY <1>6, <1>7, <1>8
  <2>4. QuestionsStand'
    BY <1>1, <1>4, <1>5, <2>1, <2>2 DEF QuestionsStand, exit
  <2>5. Questions'
    BY <1>4, <2>1, <2>3, <2>4 DEF Questions
  <2>6. \A w \in writing : w.by = Exit
    BY <1>6, <1>8 DEF AInv, Base, TypeOK, Asking, Alone
  <2> QED
    BY <1>1, <1>4, <2>5, <2>6 DEF Asking, Alone, exit
<1>9. CASE ~isNew(p)
  <2>1. UNCHANGED asking /\ stage[p] # "none"
    BY <1>3, <1>9 DEF isNew
  <2>2. QuestionsStand'
    BY <1>3, <1>4, <2>1 DEF AInv, Base, TypeOK, Asking, Questions, QuestionsStand, asking, exit
  <2>3. \A r \in Panes : stage'[r] # "none" => \E e \in Calls : pc'[e] = "asks" /\ asks'[e] = r
    BY <1>1, <1>3, <1>4, <2>1 DEF AInv, Base, TypeOK, Asking, Questions, asking
  <2>4. \A e \in Calls : pc'[e] \in {"loop", "go"} => pc[e] \in {"loop", "go"}
    BY <1>4 DEF AInv, Base, TypeOK
  <2>5. Questions'
    BY <1>4, <1>7, <2>1, <2>2, <2>3, <2>4 DEF AInv, Asking, Questions, asking
  <2> QED
    BY <1>1, <1>4, <2>1, <2>5 DEF AInv, Asking, Alone, asking, exit
<1> QED
  BY <1>8, <1>9

\* Nothing but the one question goes on while its tab waits.
LEMMA OneQuestion ==
    ASSUME AInv, Settled, NEW p \in Panes, stage[p] # "none"
    PROVE  /\ exitStage = "no" /\ dialog # Exit
           /\ \A q \in Panes \ {p} : stage[q] = "none"
           /\ \A c \in Calls : pc[c] \in {"idle", "asks"} /\ deferred[c] = None
           /\ \A c \in Calls : pc[c] = "asks" => asks[c] = p
           /\ \E c \in Calls : pc[c] = "asks" /\ asks[c] = p
<1>1. PICK e \in Calls : pc[e] = "asks" /\ asks[e] = p
  BY DEF AInv, Asking, Questions
<1>2. exitStage = "no"
  BY <1>1 DEF AInv, Asking, Alone, Busy
<1>3. \A c \in Calls : pc[c] \in {"idle", "asks"} /\ deferred[c] = None
  BY DEF Settled, AInv, Base, Steps
<1>4. \A c \in Calls : pc[c] = "asks" => asks[c] = p
  BY EditorClosingAssumption DEF AInv, Base, TypeOK, Steps, Asking, Questions, QuestionsStand
<1> QED
  BY <1>1, <1>2, <1>3, <1>4 DEF AInv, Asking, Questions, QuestionsStand

\* The answer ends it for all who wait.
LEMMA Settles ==
    ASSUME AInv, Settled, NEW p \in Panes, stage[p] # "none",
           NEW verdict \in {"go", "veto"}, settle(p, verdict),
           dialog' \in {dialog, None} /\ (dialog = p => dialog' = None),
           UNCHANGED <<strips, group, rest, deferred, asks, turn, exit>>
    PROVE  /\ Questions'
           /\ \A c \in Calls : pc'[c] = IF pc[c] = "asks" THEN verdict ELSE "idle"
<1> USE EditorClosingAssumption
<1>1. /\ exitStage = "no" /\ dialog # Exit
      /\ \A q \in Panes \ {p} : stage[q] = "none"
      /\ \A c \in Calls : pc[c] \in {"idle", "asks"} /\ deferred[c] = None
      /\ \A c \in Calls : pc[c] = "asks" => asks[c] = p
  BY OneQuestion
<1>2. \A c \in Calls : pc'[c] = IF pc[c] = "asks" THEN verdict ELSE "idle"
  BY <1>1 DEF AInv, Base, TypeOK, settle, awake
<1>3. \A q \in Panes : stage'[q] = "none" /\ targets'[q] \subseteq shows'[q]
  BY <1>1 DEF AInv, Base, TypeOK, Asking, Questions, settle, strips
<1>4. \A c \in Calls : Unasked(c)' \subseteq Unasked(c)
  <2>1. ASSUME NEW c \in Calls, NEW r \in Unasked(c)'
        PROVE  r \in Unasked(c)
    <3>1. r \in rest[c] /\ r # asks[c] /\ pc[c] = "asks" /\ r # p
      BY <1>1, <2>1 DEF Unasked, AInv, Base, Steps, Busy
    <3> QED
      BY <1>1, <3>1 DEF Unasked, AInv, Base, TypeOK
  <2> QED
    BY <2>1
<1>5. dialog' \notin Panes
  BY <1>1 DEF AInv, Asking, Questions, QuestionsStand
<1>6. Questions'
  BY <1>1, <1>2, <1>3, <1>4, <1>5 DEF AInv, Asking, Questions, QuestionsStand, exit
<1> QED
  BY <1>2, <1>6

\* A target is saved while its question waits.
LEMMA SavesTarget ==
    ASSUME AInv, Settled, NEW p \in Panes, stage[p] # "none",
           saveTarget(p, targets[p]),
           dialog' \in {dialog, None} /\ (dialog = p => dialog' = None),
           UNCHANGED <<strips, group, rest, deferred, asks, turn, exit>>
    PROVE  Asking'
<1> USE EditorClosingAssumption
<1>1. /\ exitStage = "no" /\ dialog # Exit
      /\ \A q \in Panes \ {p} : stage[q] = "none"
      /\ \A c \in Calls : pc[c] \in {"idle", "asks"} /\ deferred[c] = None
      /\ \A c \in Calls : pc[c] = "asks" => asks[c] = p
      /\ \E c \in Calls : pc[c] = "asks" /\ asks[c] = p
  BY OneQuestion
<1>2. PICK left \in SUBSET Docs : left = targets[p]
  BY DEF AInv, Base, TypeOK
<1>3. PICK d \in left :
         /\ stage' = [stage EXCEPT ![p] = "saving"]
         /\ targets' = [targets EXCEPT ![p] = left \ {d}]
         /\ writing' = {w \in writing : w.by # p} \cup {[by |-> p, doc |-> d, version |-> version[d]]}
         /\ UNCHANGED pc
  BY <1>2 DEF saveTarget
<1>4. \A q \in Panes : stage'[q] = (IF q = p THEN "saving" ELSE "none") /\ targets'[q] \subseteq shows'[q]
  BY <1>1, <1>2, <1>3 DEF AInv, Base, TypeOK, Asking, Questions, strips
<1>5. \A c \in Calls : Unasked(c)' = Unasked(c)
  BY <1>1, <1>3, <1>4 DEF Unasked, AInv, Base, TypeOK
<1>6. dialog' \notin Panes
  BY <1>1 DEF AInv, Asking, Questions, QuestionsStand
<1>7. Questions'
  BY <1>1, <1>3, <1>4, <1>5, <1>6 DEF AInv, Asking, Questions, QuestionsStand, exit
<1> QED
  BY <1>1, <1>3, <1>4, <1>7 DEF AInv, Base, TypeOK, Asking, Alone, exit

LEMMA AskedPane ==
    ASSUME AInv, NEW p \in Panes, dialog = p
    PROVE  stage[p] = "asking"
BY DEF AInv, Asking, Questions, QuestionsStand

LEMMA AnswerAsking ==
    ASSUME AInv, Settled, NEW p \in Panes, Cancel(p) \/ DontSave(p) \/ Save(p)
    PROVE  Asking'
<1> USE EditorClosingAssumption
<1>1. dialog = p /\ dialog' = None /\ UNCHANGED <<strips, group, rest, deferred, asks, turn, exit>>
  BY DEF Cancel, DontSave, Save
<1>2. stage[p] = "asking" /\ exitStage = "no"
  BY <1>1, AskedPane, OneQuestion
<1>3. CASE Cancel(p) \/ DontSave(p)
  <2>1. PICK verdict \in {"go", "veto"} : settle(p, verdict)
    BY <1>3 DEF Cancel, DontSave
  <2>2. Questions'
    BY <1>1, <1>2, <2>1, Settles
  <2>3. UNCHANGED writing /\ stage' = [stage EXCEPT ![p] = "none"]
    BY <1>3 DEF Cancel, DontSave, settle
  <2> QED
    BY <1>1, <1>2, <2>2, <2>3 DEF AInv, Base, TypeOK, Asking, Alone, exit
<1>4. CASE Save(p)
  BY <1>1, <1>2, <1>4, SavesTarget DEF Save
<1> QED
  BY <1>3, <1>4

LEMMA SavedAsking ==
    ASSUME AInv, Settled, NEW p \in Panes, Saved(p)
    PROVE  Asking'
<1> USE EditorClosingAssumption
<1>1. UNCHANGED <<strips, group, rest, deferred, asks, turn, dialog, exit>>
  BY DEF Saved
<1>2. PICK w \in writing :
         /\ w.by = p
         /\ \/ saveTarget(p, targets[p])
            \/ writing' = writing \ {w} /\ \E verdict \in {"go", "veto"} : settle(p, verdict)
  BY DEF Saved
<1>3. stage[p] = "saving" /\ dialog # p
  BY <1>2 DEF AInv, Asking, Alone, Questions, QuestionsStand
<1>4. CASE writing' = writing \ {w} /\ \E verdict \in {"go", "veto"} : settle(p, verdict)
  <2>1. Questions'
    BY <1>1, <1>3, <1>4, Settles
  <2>2. stage' = [stage EXCEPT ![p] = "none"] /\ exitStage = "no"
    BY <1>3, <1>4, OneQuestion DEF settle
  <2> QED
    BY <1>1, <1>2, <1>4, <2>1, <2>2 DEF AInv, Base, TypeOK, Shutting, Asking, Alone, exit
<1>5. CASE saveTarget(p, targets[p])
  BY <1>1, <1>3, <1>5, SavesTarget
<1> QED
  BY <1>2, <1>4, <1>5

-----------------------------------------------------------------------------
(* The shutdown among the questions *)

\* No tab closes while the window does.
LEMMA ExitAlone ==
    ASSUME AInv, \/ exitStage # "no"
                 \/ Quiet
    PROVE  /\ \A c \in Calls : pc[c] = "idle" /\ deferred[c] = None /\ Unasked(c) = {}
           /\ \A p \in Panes : stage[p] = "none"
           /\ dialog \notin Panes
           /\ \A w \in writing : exitStage = "saving" /\ w.by = Exit
<1>1. \A c \in Calls : pc[c] = "idle"
  BY DEF AInv, Asking, Alone, Busy, Quiet
<1>2. \A p \in Panes : stage[p] = "none"
  BY <1>1 DEF AInv, Asking, Questions
<1>3. \A c \in Calls : deferred[c] = None /\ Unasked(c) = {}
  BY <1>1 DEF AInv, Base, Steps, Busy, Unasked
<1>4. dialog \notin Panes
  BY <1>2 DEF AInv, Asking, Questions, QuestionsStand
<1>5. \A w \in writing : exitStage = "saving" /\ w.by = Exit
  BY <1>2 DEF AInv, Base, TypeOK, Shutting, Asking, Alone
<1> QED
  BY <1>1, <1>2, <1>3, <1>4, <1>5

\* What stays as it is in every step of a shutdown.
LEMMA ExitFrame ==
    ASSUME AInv, exitStage # "no" \/ Quiet,
           UNCHANGED <<series, stage, targets, shows>>,
           dialog' \in {None, Exit} /\ (dialog' = Exit <=> exitStage' = "asking"),
           \A w \in writing' : w.by = Exit
    PROVE  Asking'
<1> USE EditorClosingAssumption
<1>1. /\ \A c \in Calls : pc[c] = "idle" /\ Unasked(c) = {}
      /\ \A p \in Panes : stage[p] = "none"
  BY ExitAlone
<1>2. \A c \in Calls : Unasked(c)' = {}
  BY <1>1 DEF Unasked, series
<1>3. dialog' \notin Panes
  OBVIOUS
<1>4. Questions'
  BY <1>1, <1>2, <1>3 DEF AInv, Asking, Questions, QuestionsStand, series
<1> QED
  BY <1>1, <1>4 DEF Asking, Alone, Busy, series

LEMMA NextQuestion ==
    ASSUME AInv, NEW left, nextItem(left), exitStage # "no" \/ Quiet
    PROVE  dialog' \in {None, Exit} /\ (dialog' = Exit <=> exitStage' = "asking")
<1>1. dialog \in {None, Exit}
  BY ExitAlone DEF AInv, Base, TypeOK
<1> QED
  BY <1>1, EditorClosingAssumption DEF nextItem

LEMMA ShutdownAsking ==
    ASSUME AInv, ~Overlap,
           requestShutdown \/ CancelExit \/ DontSaveExit \/ SaveExit \/ SavedExit \/ WindowEnds
    PROVE  Asking'
<1> USE EditorClosingAssumption
<1>1. UNCHANGED <<series, stage, targets, shows>>
  BY DEF requestShutdown, CancelExit, DontSaveExit, SaveExit, SavedExit, WindowEnds, strips, asking
<1>2. exitStage # "no" \/ Quiet
  BY DEF requestShutdown, CancelExit, DontSaveExit, SaveExit, SavedExit, WindowEnds,
         AInv, Base, Shutting
<1>3. \A w \in writing : exitStage = "saving" /\ w.by = Exit
  BY <1>2, ExitAlone
<1>4. \A w \in writing' : w.by = Exit
  BY <1>3 DEF requestShutdown, CancelExit, DontSaveExit, SaveExit, SavedExit, WindowEnds
<1>5. dialog' \in {None, Exit} /\ (dialog' = Exit <=> exitStage' = "asking")
  <2>1. CASE requestShutdown \/ DontSaveExit
    BY <1>2, <2>1, NextQuestion DEF requestShutdown, DontSaveExit
  <2>2. CASE CancelExit \/ SaveExit
    BY <2>2 DEF CancelExit, SaveExit, aborted
  <2>3. CASE SavedExit
    <3>1. nextItem(items) \/ (aborted /\ UNCHANGED dialog)
      BY <2>3 DEF SavedExit
    <3>2. dialog \in {None, Exit} /\ dialog # Exit
      BY <1>2, <1>3, <2>3, ExitAlone DEF SavedExit, AInv, Base, TypeOK, Shutting
    <3> QED
      BY <1>2, <3>1, <3>2, NextQuestion DEF aborted
  <2>4. CASE WindowEnds
    BY <1>2, <2>4, ExitAlone DEF WindowEnds, asking, AInv, Base, TypeOK, Shutting
  <2> QED
    BY <2>1, <2>2, <2>3, <2>4
<1> QED
  BY <1>1, <1>2, <1>4, <1>5, ExitFrame

LEMMA AskingStep ==
    ASSUME AInv, ~Overlap, [Next]_vars
    PROVE  AInv'
<1>1. SUFFICES Asking'
  BY BaseStep DEF AInv
<1>2. CASE Continuation
  BY <1>2, LoopAsking, TakeDirtyAsking DEF Continuation
<1>3. CASE Settled /\ Document
  BY <1>3, DocumentAsking DEF Document
<1>4. CASE Settled /\ Request
  BY <1>4, OpenAsking, CloseEditorsAsking, ShutdownAsking DEF Request
<1>5. CASE Settled /\ Answer
  BY <1>5, AnswerAsking, ShutdownAsking DEF Answer
<1>6. CASE Settled /\ SaveEnds
  BY <1>6, SavedAsking, ShutdownAsking DEF SaveEnds
<1>7. CASE Settled /\ WindowEnds
  BY <1>7, ShutdownAsking
<1>8. CASE UNCHANGED vars
  BY <1>8, StillAsking DEF vars, strips
<1> QED
  BY <1>2, <1>3, <1>4, <1>5, <1>6, <1>7, <1>8 DEF Next

LEMMA AskingInvariance ==
    ASSUME ~Overlap
    PROVE  Spec => []AInv
<1>1. Init /\ Base => AInv
  BY EditorClosingAssumption DEF Init, AInv, Asking, Questions, QuestionsStand, Alone, Busy, Unasked
<1> QED
  BY <1>1, AskingStep, BaseInvariance, PTL DEF Spec

-----------------------------------------------------------------------------
\* A group shows a document once, what a call has to close is in its group or
\* closed already, and all calls are about one group.
Places ==
    /\ \A p, q \in Panes : where[p] # None /\ where[p] = where[q] /\ shows[p] \cap shows[q] # {} => p = q
    /\ \A c \in Calls : \A p \in Tracked(c) : shows[p] # {} /\ where[p] \in {None, group[c]}
    /\ \A c, e \in Calls : Busy(c) /\ Busy(e) => group[c] = group[e]

\* What a save writes is still the text, and the shutdown saves what it asked
\* about.
Saves ==
    /\ \A w \in writing :
          /\ w.version = version[w.doc]
          /\ w.by = Exit => w.doc = asked.doc

\* Edits that may go.
Safe(d) == isModified(d) => declined[d] = version[d]

\* The shutdown has cleared every document that it does not still ask about.
Leaving ==
    /\ exitStage \in {"asking", "saving"} =>
          \A d \in Docs : Safe(d) \/ \E i \in items \cup {asked} : i.doc = d
    /\ exitStage \notin {"asking", "saving"} => items = {}
    /\ exitStage \in {"closing", "gone"} => \A d \in Docs : Safe(d)
    /\ \A i \in items : i.inTab /\ isModified(i.doc) => holdersOf(i.doc) # {}

\* Outside tabs: what nobody refers to has no edits but refused ones.
Kept ==
    /\ \A d \in Docs : ~Opened(d) => ~isModified(d)
    /\ \A d \in Docs : ~Live(d) => Safe(d)
    /\ \A d \in Docs : declined[d] \in Versions => declined[d] <= version[d]
    /\ exitStage = "no" => \A d \in held : isModified(d) /\ holdersOf(d) = {} => declined[d] # version[d]

\* What goes on to close leaves nothing behind that is not refused or shown in
\* another group.
Elsewhere(d, g) == \E q \in holdersOf(d) : where[q] # g
Refused(d) == declined[d] = version[d] /\ d \notin held
MayClose(p, g) == \A d \in shows[p] : isModified(d) => Refused(d) \/ Elsewhere(d, g)

Cleared ==
    \A c \in Calls :
       /\ pc[c] = "asks" =>
             \A d \in shows[asks[c]] : isModified(d) =>
                \/ d \in targets[asks[c]]
                \/ \E w \in writing : w.by = asks[c] /\ w.doc = d
                \/ Elsewhere(d, group[c])
       /\ pc[c] = "go" => MayClose(asks[c], group[c])
       /\ deferred[c] # None => MayClose(deferred[c], group[c])

\* What holds where nothing is typed between a question and what follows it and
\* no group shows a document twice, too.
Unlost == Places /\ Saves /\ Leaving /\ Kept /\ Cleared
IInv == AInv /\ Unlost

-----------------------------------------------------------------------------
(* Documents *)

LEMMA EditStep ==
    ASSUME IInv, ~LateEdits, Settled, NEW d \in Docs, edit(d)
    PROVE  Unlost'
<1> USE EditorClosingAssumption
<1>1. Places'
  BY DEF IInv, Unlost, Places, Busy, Tracked, edit, series
<1>2. Saves'
  BY DEF IInv, Unlost, Saves, edit, MayEdit, asking, exit
<1>3. Leaving'
  BY DEF IInv, AInv, Base, Unlost, Leaving, Busy, edit, MayEdit, series, exit, asking, holdersOf, isModified, Safe, TypeOK
<1>4. Kept'
  BY DEF IInv, AInv, Base, Unlost, Kept, TypeOK, edit, MayEdit, exit, holdersOf, Live, Opened, isModified, Safe, Versions
<1>5. Cleared'
  BY DEF IInv, AInv, Base, Asking, Unlost, Cleared, MayClose, Elsewhere, Refused, Questions, QuestionsStand, Steps, TypeOK, Settled, edit, MayEdit, series, asking, exit, holdersOf, isModified
<1> QED
  BY <1>1, <1>2, <1>3, <1>4, <1>5 DEF Unlost

LEMMA SaveStep ==
    ASSUME IInv, Settled, NEW d \in Docs, save(d)
    PROVE  Unlost'
<1>1. Places'
  BY DEF IInv, Unlost, Places, Busy, Tracked, save, strips, series, asking, exit
<1>2. Saves'
  BY DEF IInv, Unlost, Saves, save, strips, series, asking, exit
<1>3. Leaving'
  BY DEF IInv, AInv, Base, Unlost, Leaving, Busy, holdersOf, isModified, Safe, TypeOK, save, strips, series, asking, exit
<1>4. Kept'
  BY DEF IInv, AInv, Base, Unlost, Kept, TypeOK, holdersOf, Live, Opened, isModified, Safe, save, strips, series, asking, exit
<1>5. Cleared'
  BY DEF IInv, AInv, Base, Unlost, Cleared, MayClose, Elsewhere, Refused, TypeOK, holdersOf, isModified, save, strips, series, asking, exit
<1> QED
  BY <1>1, <1>2, <1>3, <1>4, <1>5 DEF Unlost

LEMMA HoldStep ==
    ASSUME IInv, Settled, NEW d \in Docs, holdFileModel(d)
    PROVE  Unlost'
<1>1. Places'
  BY DEF IInv, Unlost, Places, Busy, Tracked, holdFileModel, texts, strips, series, asking, exit
<1>2. Saves'
  BY DEF IInv, Unlost, Saves, holdFileModel, texts, strips, series, asking, exit
<1>3. Leaving'
  BY DEF IInv, AInv, Base, Unlost, Leaving, Busy, holdersOf, isModified, Safe, TypeOK, holdFileModel, texts, strips, series, asking, exit
<1>4. Kept'
  BY DEF IInv, AInv, Base, Unlost, Kept, TypeOK, holdersOf, Live, Opened, isModified, Safe, holdFileModel, texts, strips, series, asking, exit
<1>5. Cleared'
  BY DEF IInv, AInv, Base, Unlost, Cleared, MayClose, Elsewhere, Refused, TypeOK, holdersOf, isModified, holdFileModel, texts, strips, series, asking, exit, Settled, Steps
<1> QED
  BY <1>1, <1>2, <1>3, <1>4, <1>5 DEF Unlost

LEMMA ExpireStep ==
    ASSUME IInv, Settled, NEW d \in Docs, expire(d)
    PROVE  Unlost'
<1>1. Places'
  BY DEF IInv, Unlost, Places, Busy, Tracked, expire, texts, strips, series, asking, exit
<1>2. Saves'
  BY DEF IInv, Unlost, Saves, expire, texts, strips, series, asking, exit
<1>3. Leaving'
  BY DEF IInv, AInv, Base, Unlost, Leaving, Busy, holdersOf, isModified, Safe, TypeOK, expire, texts, strips, series, asking, exit
<1>4. Kept'
  BY DEF IInv, AInv, Base, Unlost, Kept, TypeOK, holdersOf, Live, Opened, isModified, Safe, expire, texts, strips, series, asking, exit
<1>5. Cleared'
  BY DEF IInv, AInv, Base, Unlost, Cleared, MayClose, Elsewhere, Refused, TypeOK, holdersOf, isModified, expire, texts, strips, series, asking, exit
<1> QED
  BY <1>1, <1>2, <1>3, <1>4, <1>5 DEF Unlost

-----------------------------------------------------------------------------
(* Opening tabs *)

\* What opening does to tabs: one may be new and is apart from the others of
\* its group, and tabs without modified documents may close.
Adds(n, D, g) ==
    /\ n \in Panes /\ shows[n] = {} /\ D # {}
    /\ shows' = [shows EXCEPT ![n] = D]
    /\ where' \in [Panes -> Groups \cup {None}] /\ where'[n] = g
    /\ \A p \in Panes \ {n} : where'[p] # where[p] => where'[p] = None /\ \A e \in shows[p] : ~isModified(e)
    /\ \A p \in Panes : where[p] = g => shows[p] \cap D = {}
    /\ UNCHANGED <<texts, held, series, asking, exitStage, writing, declined>>

LEMMA AddsPlaces ==
    ASSUME IInv, NEW n, NEW D \in SUBSET Docs, NEW g \in Groups, Adds(n, D, g)
    PROVE  Places'
<1>1. where[n] = None /\ \A c \in Calls : n \notin Tracked(c)
  BY DEF Adds, IInv, AInv, Base, Unlost, Places, Shown
<1>2. ASSUME NEW p \in Panes, NEW q \in Panes, where'[p] # None, where'[p] = where'[q], shows'[p] \cap shows'[q] # {}
      PROVE  p = q
  <2>1. CASE p # n /\ q # n
    BY <1>2, <2>1 DEF Adds, IInv, AInv, Base, Unlost, TypeOK, Places
  <2>2. CASE p = n /\ q # n
    BY <1>2, <2>2 DEF Adds, IInv, AInv, Base, TypeOK
  <2>3. CASE p # n /\ q = n
    BY <1>2, <2>3 DEF Adds, IInv, AInv, Base, TypeOK
  <2> QED
    BY <2>1, <2>2, <2>3
<1>3. \A c \in Calls : \A p \in Tracked(c) : p \in Panes
  BY DEF IInv, AInv, Base, TypeOK, Tracked
<1>4. \A c \in Calls : \A p \in Tracked(c) : shows'[p] # {} /\ where'[p] \in {None, group[c]}
  BY <1>1, <1>3 DEF Adds, IInv, AInv, Base, Unlost, TypeOK, Places
<1> QED
  BY <1>2, <1>4 DEF Adds, series, IInv, Unlost, Places, Tracked, Busy

LEMMA AddsCleared ==
    ASSUME IInv, NEW n, NEW D, NEW g, Adds(n, D, g)
    PROVE  Cleared'
<1>1. ASSUME NEW e \in Docs, NEW h, isModified(e), Elsewhere(e, h)
      PROVE  Elsewhere(e, h)'
  BY <1>1 DEF IInv, AInv, Base, TypeOK, Adds, Elsewhere, holdersOf
<1>2. \A c \in Calls : \A p \in Tracked(c) : p \in Panes /\ shows'[p] = shows[p]
  BY DEF IInv, AInv, Base, Unlost, TypeOK, Places, Tracked, Adds
<1>3. ASSUME NEW p \in Panes, NEW h, shows'[p] = shows[p], MayClose(p, h)
      PROVE  MayClose(p, h)'
  BY <1>1, <1>3 DEF IInv, AInv, Base, TypeOK, Adds, texts, MayClose, isModified, Refused
<1>4. ASSUME NEW c \in Calls
      PROVE  /\ pc'[c] = "go" => MayClose(asks[c], group[c])'
             /\ deferred'[c] # None => MayClose(deferred[c], group[c])'
  <2>1. pc[c] = "go" => asks[c] \in Tracked(c) /\ MayClose(asks[c], group[c])
    BY DEF IInv, AInv, Base, Unlost, Steps, Tracked, Cleared
  <2>2. deferred[c] # None => deferred[c] \in Tracked(c) /\ MayClose(deferred[c], group[c])
    BY DEF IInv, Unlost, Tracked, Cleared
  <2> QED
    BY <1>2, <1>3, <2>1, <2>2 DEF Adds, series
<1>5. ASSUME NEW c \in Calls, pc[c] = "asks", NEW e \in shows'[asks[c]], isModified(e)'
      PROVE  \/ e \in targets'[asks'[c]]
             \/ \E w \in writing' : w.by = asks'[c] /\ w.doc = e
             \/ Elsewhere(e, group[c])'
  <2>1. asks[c] \in Panes /\ shows'[asks[c]] = shows[asks[c]]
    BY <1>2, <1>5 DEF IInv, AInv, Base, Steps, Tracked
  <2>2. e \in Docs /\ isModified(e) /\ group'[c] = group[c]
    BY <1>5, <2>1 DEF IInv, AInv, Base, TypeOK, Adds, texts, series, isModified
  <2> QED
    BY <1>1, <1>5, <2>1, <2>2 DEF IInv, Unlost, Cleared, Adds, series, asking
<1> QED
  BY <1>4, <1>5 DEF Cleared, Adds, series

LEMMA OpenUriStep ==
    ASSUME IInv, ~Beside, Settled, NEW d \in Docs, NEW g \in Groups, NEW asPreview \in BOOLEAN,
           openUri(d, g, asPreview)
    PROVE  Unlost'
<1> USE EditorClosingAssumption
<1>1. CASE UNCHANGED <<where, shows>>
  <2>1. Places'
    BY <1>1 DEF IInv, Unlost, Busy, Places, Tracked, openUri, series
  <2>2. Saves' /\ Leaving'
    BY <1>1 DEF IInv, Unlost, Saves, Leaving, Busy, Safe, holdersOf, isModified, openUri, texts, series, asking, exit
  <2>3. Kept'
    BY <1>1 DEF IInv, Unlost, Kept, Safe, Live, Opened, holdersOf, isModified, openUri, texts, exit
  <2>4. Cleared'
    BY <1>1 DEF IInv, Unlost, Cleared, MayClose, Refused, Elsewhere, holdersOf, isModified, openUri, texts, series, asking
  <2> QED
    BY <2>1, <2>2, <2>3, <2>4 DEF Unlost
<1>2. CASE ~UNCHANGED <<where, shows>>
  <2>1. fresh \in Panes /\ shows[fresh] = {}
    BY <1>2 DEF openUri, fresh
  <2>2. Adds(fresh, {d}, g)
    BY <1>2, <2>1 DEF IInv, AInv, Base, TypeOK, openUri, replaced, Adds, exit
  <2>3. Saves'
    BY DEF IInv, Unlost, Saves, openUri, texts, asking, exit
  <2>4. \A e \in Docs : holdersOf(e)' = {} => ~isModified(e) \/ holdersOf(e) = {}
    BY <2>2 DEF Adds, holdersOf, IInv, AInv, Base, Unlost, TypeOK, Places
  <2>5. Leaving'
    BY <2>4 DEF IInv, AInv, Base, Unlost, TypeOK, Item, Leaving, Busy, Safe, isModified, openUri, texts, series, asking, exit
  <2>6. Kept'
    BY <2>2, <2>4 DEF IInv, AInv, Base, Unlost, TypeOK, Kept, Safe, Live, Opened, isModified, openUri, Adds, texts, exit
  <2> QED
    BY <2>2, <2>3, <2>5, <2>6, AddsPlaces, AddsCleared DEF Unlost
<1> QED
  BY <1>1, <1>2

LEMMA OpenDiffStep ==
    ASSUME IInv, ~Beside, Settled, NEW D \in SUBSET Docs, NEW g \in Groups, openDiff(D, g)
    PROVE  Unlost'
<1> USE EditorClosingAssumption
<1>1. fresh \in Panes /\ shows[fresh] = {}
  BY DEF openDiff, fresh
<1>2. Adds(fresh, D, g)
  BY <1>1 DEF IInv, AInv, Base, TypeOK, openDiff, Adds, exit
<1>3. Saves'
  BY DEF IInv, Unlost, Saves, openDiff, texts, asking, exit
<1>4. \A e \in Docs : holdersOf(e)' = {} => ~isModified(e) \/ holdersOf(e) = {}
  BY <1>2 DEF Adds, holdersOf, IInv, AInv, Base, Unlost, TypeOK, Places
<1>5. Leaving'
  BY <1>4 DEF IInv, AInv, Base, Unlost, TypeOK, Item, Leaving, Busy, Safe, isModified, openDiff, texts, series, asking, exit
<1>6. Kept'
  BY <1>2, <1>4 DEF IInv, AInv, Base, Unlost, TypeOK, Kept, Safe, Live, Opened, isModified, openDiff, Adds, texts, exit
<1> QED
  BY <1>2, <1>3, <1>5, <1>6, AddsPlaces, AddsCleared DEF Unlost

-----------------------------------------------------------------------------
(* A series of tabs to close *)

LEMMA CloseEditorsStep ==
    ASSUME IInv, ~Overlap, Settled, NEW g \in Groups, NEW S \in SUBSET Panes, closeEditors(g, S)
    PROVE  Unlost'
<1> USE EditorClosingAssumption
<1>1. PICK c \in Calls : /\ pc[c] = "idle" /\ turn' = c
                         /\ group' = [group EXCEPT ![c] = g]
                         /\ rest' = [rest EXCEPT ![c] = S]
                         /\ pc' = [pc EXCEPT ![c] = "loop"]
  BY DEF closeEditors
<1>2. UNCHANGED <<texts, held, strips, deferred, asks, asking, writing, exit, declined>>
  BY DEF closeEditors
<1>3. S # {} /\ \A p \in S : where[p] = g
  BY DEF closeEditors
<1>4. /\ exitStage = "no"
      /\ \/ \A e \in Calls : pc[e] = "idle" /\ \A p \in Panes : stage[p] = "none"
         \/ \E p \in Panes : S = {p} /\ stage[p] # "none"
  BY DEF closeEditors, Quiet
<1>5. Places'
  <2>1. \A e \in Calls : Busy(e) => group[e] = g
    BY <1>3, <1>4 DEF IInv, AInv, Base, Asking, Unlost, TypeOK, Places, Questions, Busy, Tracked
  <2>2. \A e \in Calls : e # c => group'[e] = group[e] /\ Tracked(e)' = Tracked(e) /\ Busy(e)' = Busy(e)
    BY <1>1, <1>2 DEF IInv, AInv, Base, TypeOK, Tracked, Busy
  <2>3. group'[c] = g /\ Tracked(c)' = S
    BY <1>1, <1>2 DEF IInv, AInv, Base, TypeOK, Steps, Tracked, Busy
  <2>4. \A e \in Calls : \A p \in Tracked(e)' : shows[p] # {} /\ where[p] \in {None, group'[e]}
    BY <1>3, <2>2, <2>3 DEF IInv, AInv, Base, Unlost, TypeOK, Shown, Places
  <2>5. \A e, f \in Calls : Busy(e)' /\ Busy(f)' => group'[e] = group'[f]
    BY <2>1, <2>2, <2>3
  <2> QED
    BY <1>2, <2>4, <2>5 DEF IInv, Unlost, Places, strips
<1>6. Saves' /\ Leaving' /\ Kept'
  BY <1>1, <1>2, <1>4 DEF IInv, Unlost, Saves, Leaving, Kept, Safe, Live, Opened, holdersOf, isModified, texts, strips, asking, exit
<1>7. Cleared'
  BY <1>1, <1>2 DEF IInv, AInv, Base, Unlost, TypeOK, Steps, Cleared, MayClose, Refused, Elsewhere, holdersOf, isModified, texts, strips, asking
<1> QED
  BY <1>5, <1>6, <1>7 DEF Unlost

\* Closing one tab of a group.
Closes(p, g) ==
    /\ where' = [q \in Panes |-> IF q = p /\ where[q] = g THEN None ELSE where[q]]
    /\ UNCHANGED <<texts, held, shows, exitStage, declined>>

\* Tabs of other groups are not touched.
LEMMA ClosesElsewhere ==
    ASSUME IInv, NEW p, NEW g, Closes(p, g), NEW e, NEW h, h = g, Elsewhere(e, h)
    PROVE  Elsewhere(e, h)'
BY DEF Closes, Elsewhere, holdersOf

\* Nothing is lost with a tab that may close.
LEMMA ClosesKept ==
    ASSUME IInv, NEW p, NEW g, Closes(p, g), p \in Panes /\ where[p] = g => MayClose(p, g)
    PROVE  Kept'
<1>1. \A d \in Docs : /\ isModified(d)' = isModified(d) /\ Opened(d)' = Opened(d)
                      /\ Refused(d)' = Refused(d) /\ Safe(d)' = Safe(d)
  BY DEF Closes, texts, isModified, Opened, Refused, Safe
<1>2. ASSUME NEW d \in Docs, holdersOf(d)' = {}, isModified(d)
      PROVE  holdersOf(d) = {} \/ Refused(d)
  <2>1. SUFFICES ASSUME NEW q \in holdersOf(d)
                 PROVE  Refused(d)
    OBVIOUS
  <2>2. q = p /\ where[q] = g
    BY <1>2, <2>1 DEF holdersOf, Closes, IInv, AInv, Base, TypeOK
  <2>3. ~Elsewhere(d, g)
    BY <1>2, ClosesElsewhere DEF Elsewhere
  <2> QED
    BY <1>2, <2>1, <2>2, <2>3 DEF MayClose, holdersOf
<1>3. \A d \in Docs : ~Live(d)' => Safe(d)
  BY <1>1, <1>2 DEF IInv, Unlost, Kept, Live, Safe, Refused, Closes
<1>4. exitStage = "no" => \A d \in held : isModified(d) /\ holdersOf(d)' = {} => declined[d] # version[d]
  BY <1>2 DEF IInv, AInv, Base, Unlost, TypeOK, Kept, Refused
<1> QED
  BY <1>1, <1>3, <1>4 DEF IInv, AInv, Base, Unlost, TypeOK, Kept, Closes, texts

LEMMA MayCloseKept ==
    ASSUME IInv, NEW p, NEW g, Closes(p, g), NEW q, MayClose(q, g)
    PROVE  MayClose(q, g)'
BY ClosesElsewhere DEF MayClose, Closes, Refused, isModified, texts

\* A tab that needs no question may close: another group shows what it shows.
LEMMA CleanMayClose ==
    ASSUME IInv, NEW p \in Panes, where[p] \in Groups, ~needsCloseConfirm(p)
    PROVE  MayClose(p, where[p])
<1>1. SUFFICES ASSUME NEW d \in shows[p], isModified(d)
               PROVE  Elsewhere(d, where[p])
  BY DEF MayClose
<1>2. PICK x \in holdersOf(d) : x # p
  BY <1>1 DEF needsCloseConfirm, exclusive, AtMostOne
<1>3. where[x] # where[p]
  BY <1>1, <1>2 DEF holdersOf, IInv, Unlost, Places
<1> QED
  BY <1>2, <1>3 DEF Elsewhere

\* What a call has to close, and what it waits for, after tabs closed.
LEMMA ClosedPlaces ==
    ASSUME IInv, NEW p, NEW g, Closes(p, g),
           \A c \in Calls : /\ Busy(c)' => Busy(c) /\ group'[c] = group[c]
                            /\ Tracked(c)' \subseteq Tracked(c)
                            /\ Tracked(c)' # {} => group'[c] = group[c]
    PROVE  Places'
<1>1. \A q \in Panes : where'[q] \in {where[q], None}
  BY DEF Closes
<1>2. \A c \in Calls : Tracked(c) \subseteq Panes
  BY DEF IInv, AInv, Base, TypeOK, Tracked
<1>3. \A c \in Calls : \A q \in Tracked(c)' : shows'[q] # {} /\ where'[q] \in {None, group'[c]}
  BY <1>1, <1>2 DEF IInv, Unlost, Places, Closes
<1>4. \A q, r \in Panes : where'[q] # None /\ where'[q] = where'[r] /\ shows'[q] \cap shows'[r] # {} => q = r
  BY <1>1 DEF IInv, Unlost, Places, Closes
<1> QED
  BY <1>1, <1>3, <1>4 DEF IInv, Unlost, Places, Closes

\* A call whose loop runs: no question, no shutdown goes on meanwhile.
LEMMA InLoop ==
    ASSUME IInv, NEW c \in Calls, pc[c] \in {"loop", "go"}
    PROVE  /\ exitStage = "no" /\ group[c] \in Groups
           /\ \A e \in Calls : Busy(e) => group[e] = group[c]
BY DEF IInv, AInv, Base, Asking, Unlost, Steps, Alone, Busy, Places

LEMMA TakeCleanStep ==
    ASSUME IInv, NEW c \in Calls, TakeClean(c)
    PROVE  Unlost'
<1> USE EditorClosingAssumption
<1>1. pc[c] = "loop" /\ turn = c
  BY DEF TakeClean, IInv, AInv, Base, Steps
<1>2. PICK g \in Groups : /\ group[c] = g /\ exitStage = "no"
                         /\ \A e \in Calls : Busy(e) => group[e] = g
  BY <1>1, InLoop
<1>3. PICK p \in rest[c] : ~needsCloseConfirm(p) /\ closeOrDefer(c, p)
  BY DEF TakeClean
<1>4. p \in Panes /\ where[p] \in {None, g}
  BY <1>2, <1>3 DEF IInv, AInv, Base, Unlost, TypeOK, Places, Tracked
<1>5. rest' = [rest EXCEPT ![c] = @ \ {p}]
  BY <1>3 DEF closeOrDefer
<1>6. UNCHANGED <<texts, held, shows, diff, group, asks, pc, turn, asking, writing, exit, declined>>
  BY DEF TakeClean
<1>7. where[p] = g => MayClose(p, g)
  BY <1>2, <1>3, <1>4, CleanMayClose
<1>8. CASE p = active[g]
  <2>1. where[p] = g
    BY <1>2, <1>4, <1>8 DEF IInv, AInv, Base, TypeOK
  <2>2. deferred' = [deferred EXCEPT ![c] = p] /\ UNCHANGED <<where, active, preview>>
    BY <1>2, <1>3, <1>8 DEF closeOrDefer
  <2>3. Places'
    BY <1>3, <1>4, <1>5, <1>6, <2>2 DEF IInv, AInv, Base, Unlost, TypeOK, Places, Busy, Tracked
  <2>4. Saves' /\ Leaving' /\ Kept'
    BY <1>6, <2>2 DEF IInv, Unlost, Saves, Leaving, Busy, Kept, Safe, Live, Opened, holdersOf, isModified, texts, asking, exit
  <2>5. Cleared'
    BY <1>2, <1>6, <1>7, <2>1, <2>2 DEF IInv, AInv, Base, Unlost, TypeOK, Cleared, MayClose, Refused, Elsewhere, holdersOf, isModified, texts, asking
  <2> QED
    BY <2>3, <2>4, <2>5 DEF Unlost
<1>9. CASE p # active[g]
  <2>1. closeTab(p, g) /\ UNCHANGED <<active, deferred>>
    BY <1>2, <1>3, <1>9 DEF closeOrDefer
  <2>2. Closes(p, g)
    BY <1>6, <2>1 DEF closeTab, Closes, exit
  <2>3. Places'
    <3>1. \A e \in Calls : Tracked(e)' \subseteq Tracked(e)
      BY <1>5, <1>6, <2>1 DEF IInv, AInv, Base, TypeOK, Tracked
    <3> QED
      BY <1>6, <2>2, <3>1, ClosedPlaces DEF Busy
  <2>4. Saves' /\ Leaving'
    BY <1>2, <1>6 DEF IInv, Unlost, Saves, Leaving, Busy, texts, asking, exit
  <2>5. Kept'
    BY <1>7, <2>2, ClosesKept
  <2>6. Cleared'
    <3>1. ASSUME NEW e \in Calls, pc'[e] = "asks", NEW d \in shows'[asks'[e]], isModified(d)'
          PROVE  \/ d \in targets'[asks'[e]]
                 \/ \E w \in writing' : w.by = asks'[e] /\ w.doc = d
                 \/ Elsewhere(d, group[e])'
      <4>1. group'[e] = group[e] /\ group[e] = g
        BY <1>2, <1>6, <3>1 DEF Busy
      <4>2. isModified(d) /\ d \in shows[asks[e]] /\ pc[e] = "asks"
        BY <1>6, <3>1 DEF isModified, texts
      <4>3. Elsewhere(d, g) => Elsewhere(d, g)'
        BY <2>2, ClosesElsewhere
      <4> QED
        BY <1>6, <4>1, <4>2, <4>3 DEF IInv, Unlost, Cleared, asking
    <3>2. ASSUME NEW e \in Calls
          PROVE  /\ pc'[e] = "go" => MayClose(asks[e], group[e])'
                 /\ deferred'[e] # None => MayClose(deferred[e], group[e])'
      <4>1. pc[e] = "go" \/ deferred[e] # None => group[e] = g
        BY <1>2 DEF IInv, AInv, Base, Steps, Busy
      <4>2. \A q : MayClose(q, g) => MayClose(q, g)'
        BY <2>2, MayCloseKept
      <4> QED
        BY <1>6, <2>1, <4>1, <4>2 DEF IInv, Unlost, Cleared
    <3> QED
      BY <3>1, <3>2 DEF Cleared
  <2> QED
    BY <2>3, <2>4, <2>5, <2>6 DEF Unlost
<1> QED
  BY <1>8, <1>9

\* The loop closes the deferred tab.
LEMMA DeferredCloses ==
    ASSUME IInv, NEW c \in Calls, turn = c, NEW g \in Groups, group[c] = g, closeTab(deferred[c], g),
           UNCHANGED <<texts, held, shows, exitStage, declined>>
    PROVE  /\ Kept'
           /\ \A e, h : h = g /\ Elsewhere(e, h) => Elsewhere(e, h)'
           /\ \A p : MayClose(p, g) => MayClose(p, g)'
<1>1. PICK q : q = deferred[c]
  OBVIOUS
<1>2. Closes(q, g)
  BY <1>1 DEF closeTab, Closes
<1>3. q \in Panes => MayClose(q, g)
  BY <1>1, EditorClosingAssumption DEF IInv, Unlost, Cleared
<1> QED
  BY <1>2, <1>3, ClosesKept, ClosesElsewhere, MayCloseKept

LEMMA TakeDirtyStep ==
    ASSUME IInv, NEW c \in Calls, TakeDirty(c)
    PROVE  Unlost'
<1> USE EditorClosingAssumption
<1>1. pc[c] = "loop" /\ turn = c /\ asks[c] = None
  BY DEF TakeDirty, IInv, AInv, Base, Steps
<1>2. PICK g \in Groups : /\ group[c] = g /\ exitStage = "no"
                         /\ \A e \in Calls : Busy(e) => group[e] = g
  BY <1>1, InLoop
<1>3. PICK q : q = deferred[c]
  OBVIOUS
<1>4. PICK p \in rest[c] :
         /\ closeTab(q, g)
         /\ asks' = [asks EXCEPT ![c] = p]
         /\ \E next \in follows(q, g) :
               active' = [active EXCEPT ![g] = IF isNew(p) /\ where[p] = g THEN p ELSE next]
         /\ IF isNew(p)
              THEN /\ stage' = [stage EXCEPT ![p] = "asking"]
                   /\ targets' = [targets EXCEPT ![p] = exclusive(p, q)]
                   /\ dialog' = p
              ELSE UNCHANGED asking
  BY <1>2, <1>3 DEF TakeDirty
<1>5. /\ turn' = None /\ deferred' = [deferred EXCEPT ![c] = None] /\ pc' = [pc EXCEPT ![c] = "asks"]
      /\ UNCHANGED <<texts, held, shows, diff, group, rest, writing, exit, declined>>
  BY DEF TakeDirty
<1>6. p \in Panes /\ p # q /\ where[p] \in {None, g} /\ exclusive(p, q) \subseteq shows[p]
  BY <1>1, <1>2, <1>3, <1>4 DEF IInv, AInv, Base, Unlost, TypeOK, Steps, Places, Tracked, exclusive
<1>7. Closes(q, g)
  BY <1>4, <1>5 DEF closeTab, Closes, exit
<1>8. isNew(p) => /\ \A r \in Panes : stage[r] = "none"
                  /\ \A e \in Calls : e # c => Unasked(e) = {}
  BY <1>1, <1>4, <1>6 DEF isNew, Unasked, IInv, AInv, Asking, Questions
<1>9. Places'
  <2>1. \A e \in Calls : Tracked(e)' \subseteq Tracked(e)
    BY <1>4, <1>5 DEF IInv, AInv, Base, TypeOK, Tracked
  <2>2. \A e \in Calls : Busy(e)' => Busy(e)
    BY <1>1, <1>5 DEF IInv, AInv, Base, TypeOK, Busy
  <2> QED
    BY <1>5, <1>7, <2>1, <2>2, ClosedPlaces
<1>10. Saves'
  BY <1>4, <1>5, <1>6 DEF IInv, AInv, Base, Unlost, TypeOK, Saves, isNew, texts, asking, exit
<1>11. Leaving'
  BY <1>2, <1>5 DEF IInv, Unlost, Leaving, texts, exit
<1>12. /\ Kept'
       /\ \A e : Elsewhere(e, g) => Elsewhere(e, g)'
       /\ \A r : MayClose(r, g) => MayClose(r, g)'
  BY <1>1, <1>2, <1>3, <1>4, <1>5, DeferredCloses DEF exit
<1>13. Cleared'
  <2>1. ASSUME NEW e \in Calls, pc'[e] = "asks", NEW d \in shows'[asks'[e]], isModified(d)'
        PROVE  \/ d \in targets'[asks'[e]]
               \/ \E w \in writing' : w.by = asks'[e] /\ w.doc = d
               \/ Elsewhere(d, group[e])'
    <3>1. isModified(d) /\ group'[e] = g
      BY <1>1, <1>2, <1>5, <2>1 DEF isModified, texts, IInv, AInv, Base, TypeOK, Busy
    <3>2. CASE e = c /\ isNew(p)
      <4>1. d \in shows[p] /\ (d \in targets'[p] \/ d \notin exclusive(p, q))
        BY <1>4, <1>5, <1>6, <2>1, <3>2 DEF IInv, AInv, Base, TypeOK
      <4>2. d \notin exclusive(p, q) => Elsewhere(d, g)
        BY <3>1, <4>1 DEF exclusive, AtMostOne, Elsewhere, holdersOf, IInv, AInv, Base, Unlost, TypeOK, Places
      <4> QED
        BY <1>4, <1>12, <3>1, <3>2, <4>1, <4>2 DEF IInv, AInv, Base, TypeOK
    <3>3. CASE e = c /\ ~isNew(p)
      <4>1. PICK f \in Calls : pc[f] = "asks" /\ asks[f] = p
        BY <1>4, <1>6, <3>3 DEF isNew, IInv, AInv, Asking, Questions
      <4>2. group[f] = g /\ asks'[e] = p /\ d \in shows[p]
        BY <1>2, <1>4, <1>5, <2>1, <3>3, <4>1 DEF IInv, AInv, Base, TypeOK, Busy
      <4> QED
        BY <1>4, <1>5, <1>12, <3>1, <3>3, <4>1, <4>2 DEF IInv, Unlost, Cleared, asking
    <3>4. CASE e # c
      <4>1. pc[e] = "asks" /\ asks'[e] = asks[e] /\ group[e] = g /\ d \in shows[asks[e]]
        BY <1>4, <1>5, <2>1, <3>1, <3>4 DEF IInv, AInv, Base, TypeOK
      <4>2. targets'[asks[e]] = targets[asks[e]]
        BY <1>4, <1>8, <4>1 DEF IInv, AInv, Base, Asking, TypeOK, Steps, Questions, QuestionsStand, asking
      <4> QED
        BY <1>5, <1>12, <3>1, <4>1, <4>2 DEF IInv, Unlost, Cleared
    <3> QED
      BY <3>2, <3>3, <3>4
  <2>2. ASSUME NEW e \in Calls
        PROVE  /\ pc'[e] = "go" => MayClose(asks[e], group[e])'
               /\ deferred'[e] # None => MayClose(deferred[e], group[e])'
    <3>1. deferred'[e] = None
      BY <1>1, <1>5 DEF IInv, AInv, Base, TypeOK, Steps
    <3>2. pc'[e] = "go" => /\ pc[e] = "go" /\ asks'[e] = asks[e] /\ group[e] = g
      BY <1>2, <1>4, <1>5 DEF IInv, AInv, Base, TypeOK, Busy
    <3> QED
      BY <1>5, <1>12, <3>1, <3>2 DEF IInv, Unlost, Cleared
  <2> QED
    BY <2>1, <2>2 DEF Cleared
<1> QED
  BY <1>9, <1>10, <1>11, <1>12, <1>13 DEF Unlost

LEMMA LoopEndsStep ==
    ASSUME IInv, NEW c \in Calls, LoopEnds(c)
    PROVE  Unlost'
<1> USE EditorClosingAssumption
<1>1. pc[c] = "loop" /\ turn = c
  BY DEF LoopEnds, IInv, AInv, Base, Steps
<1>2. PICK g \in Groups : /\ group[c] = g /\ exitStage = "no"
                         /\ \A e \in Calls : Busy(e) => group[e] = g
  BY <1>1, InLoop
<1>3. PICK q : q = deferred[c]
  OBVIOUS
<1>4. closeTab(q, g) /\ ended(c) /\ turn' = None
  BY <1>2, <1>3 DEF LoopEnds
<1>5. UNCHANGED <<texts, held, shows, diff, asking, writing, exit, declined>>
  BY DEF LoopEnds
<1>6. Closes(q, g)
  BY <1>4, <1>5 DEF closeTab, Closes, exit
<1>7. /\ \A e \in Calls : /\ Busy(e)' => Busy(e) /\ group'[e] = group[e]
                          /\ Tracked(e)' \subseteq Tracked(e)
                          /\ Tracked(e)' # {} => group'[e] = group[e]
      /\ ~Busy(c)' /\ rest'[c] = {} /\ deferred'[c] = None
      /\ \A e \in Calls : e # c =>
            /\ pc'[e] = pc[e] /\ asks'[e] = asks[e] /\ group'[e] = group[e]
            /\ rest'[e] = rest[e] /\ deferred'[e] = deferred[e]
  BY <1>1, <1>4, Ended DEF IInv, AInv, Base
<1>8. Places'
  BY <1>6, <1>7, ClosedPlaces
<1>9. Saves' /\ Leaving'
  BY <1>2, <1>5 DEF IInv, Unlost, Saves, Leaving, texts, asking, exit
<1>10. /\ Kept'
       /\ \A e : Elsewhere(e, g) => Elsewhere(e, g)'
       /\ \A r : MayClose(r, g) => MayClose(r, g)'
  BY <1>1, <1>2, <1>3, <1>4, <1>5, DeferredCloses DEF exit
<1>11. Cleared'
  <2>1. ASSUME NEW e \in Calls, pc'[e] = "asks", NEW d \in shows'[asks'[e]], isModified(d)'
        PROVE  \/ d \in targets'[asks'[e]]
               \/ \E w \in writing' : w.by = asks'[e] /\ w.doc = d
               \/ Elsewhere(d, group[e])'
    <3>1. /\ isModified(d) /\ d \in shows[asks[e]] /\ pc[e] = "asks"
          /\ asks'[e] = asks[e] /\ group'[e] = group[e] /\ group[e] = g
      BY <1>2, <1>5, <1>7, <2>1 DEF isModified, texts, Busy
    <3> QED
      BY <1>5, <1>10, <3>1 DEF IInv, Unlost, Cleared, asking
  <2>2. ASSUME NEW e \in Calls
        PROVE  /\ pc'[e] = "go" => MayClose(asks[e], group[e])'
               /\ deferred'[e] # None => MayClose(deferred[e], group[e])'
    <3>1. pc'[e] = "go" \/ deferred'[e] # None =>
             /\ pc'[e] = pc[e] /\ asks'[e] = asks[e] /\ deferred'[e] = deferred[e]
             /\ group'[e] = g /\ group[e] = g
      BY <1>2, <1>7 DEF Busy, IInv, AInv, Base, Steps
    <3> QED
      BY <1>10, <3>1 DEF IInv, Unlost, Cleared
  <2> QED
    BY <2>1, <2>2 DEF Cleared
<1> QED
  BY <1>7, <1>8, <1>9, <1>10, <1>11 DEF Unlost

LEMMA VetoedStep ==
    ASSUME IInv, NEW c \in Calls, Vetoed(c)
    PROVE  Unlost'
<1> USE EditorClosingAssumption
<1>1. pc[c] = "veto" /\ ended(c) /\ turn = None
  BY DEF Vetoed
<1>2. UNCHANGED <<texts, held, strips, turn, asking, writing, exit, declined>>
  BY DEF Vetoed
<1>3. /\ \A e \in Calls : /\ Busy(e)' => Busy(e) /\ group'[e] = group[e]
                          /\ Tracked(e)' \subseteq Tracked(e)
                          /\ Tracked(e)' # {} => group'[e] = group[e]
      /\ ~Busy(c)' /\ rest'[c] = {} /\ deferred'[c] = None
      /\ \A e \in Calls : e # c =>
            /\ pc'[e] = pc[e] /\ asks'[e] = asks[e] /\ group'[e] = group[e]
            /\ rest'[e] = rest[e] /\ deferred'[e] = deferred[e]
  BY <1>1, <1>2, Ended DEF IInv, AInv, Base
<1>4. Places'
  BY <1>2, <1>3 DEF IInv, Unlost, Places, strips
<1>5. Saves' /\ Leaving' /\ Kept'
  BY <1>2, <1>3 DEF IInv, Unlost, Saves, Leaving, Kept, Safe, Live, Opened, holdersOf, isModified, texts, strips, asking, exit
<1>6. Cleared'
  BY <1>2, <1>3 DEF IInv, Unlost, Cleared, MayClose, Refused, Elsewhere, holdersOf, isModified, Busy, texts, strips, asking
<1> QED
  BY <1>3, <1>4, <1>5, <1>6 DEF Unlost

LEMMA ConfirmedStep ==
    ASSUME IInv, NEW c \in Calls, Confirmed(c)
    PROVE  Unlost'
<1> USE EditorClosingAssumption
<1>1. /\ pc[c] = "go" /\ turn = None /\ turn' = c
      /\ pc' = [pc EXCEPT ![c] = "loop"] /\ asks' = [asks EXCEPT ![c] = None]
      /\ deferred[c] = None /\ \A e \in Calls : pc[e] # "loop"
  BY DEF Confirmed, IInv, AInv, Base, Steps
<1>2. PICK g \in Groups : /\ group[c] = g /\ exitStage = "no"
                         /\ \A e \in Calls : Busy(e) => group[e] = g
  BY <1>1, InLoop
<1>3. PICK p : p = asks[c]
  OBVIOUS
<1>4. p \in Panes /\ where[p] \in {None, g} /\ MayClose(p, g)
  BY <1>1, <1>2, <1>3 DEF IInv, AInv, Base, Unlost, TypeOK, Steps, Places, Tracked, Cleared
<1>5. closeOrDefer(c, p) /\ rest' = [rest EXCEPT ![c] = @ \ {p}]
  BY <1>3 DEF Confirmed, closeOrDefer
<1>6. UNCHANGED <<texts, held, shows, diff, group, asking, writing, exit, declined>>
  BY DEF Confirmed
<1>7. Saves' /\ Leaving'
  BY <1>2, <1>6 DEF IInv, Unlost, Saves, Leaving, texts, asking, exit
<1>8. CASE p = active[g]
  <2>1. deferred' = [deferred EXCEPT ![c] = p] /\ UNCHANGED <<where, active, preview>>
    BY <1>2, <1>5, <1>8 DEF closeOrDefer
  <2>2. Places'
    <3>1. \A e \in Calls : Tracked(e)' \subseteq Tracked(e)
      BY <1>1, <1>3, <1>5, <2>1 DEF IInv, AInv, Base, TypeOK, Tracked
    <3>2. \A e \in Calls : Busy(e)' => Busy(e)
      BY <1>1 DEF IInv, AInv, Base, TypeOK, Busy
    <3> QED
      BY <1>6, <2>1, <3>1, <3>2 DEF IInv, Unlost, Places
  <2>3. Kept'
    BY <1>6, <2>1 DEF IInv, Unlost, Kept, Safe, Live, Opened, holdersOf, isModified, texts, exit
  <2>4. Cleared'
    BY <1>1, <1>2, <1>4, <1>6, <2>1 DEF IInv, AInv, Base, Unlost, TypeOK, Cleared, MayClose, Refused, Elsewhere, holdersOf, isModified, texts, asking
  <2> QED
    BY <1>7, <2>2, <2>3, <2>4 DEF Unlost
<1>9. CASE p # active[g]
  <2>1. closeTab(p, g) /\ UNCHANGED <<active, deferred>>
    BY <1>2, <1>5, <1>9 DEF closeOrDefer
  <2>2. Closes(p, g)
    BY <1>6, <2>1 DEF closeTab, Closes, exit
  <2>3. Places'
    <3>1. \A e \in Calls : Tracked(e)' \subseteq Tracked(e)
      BY <1>1, <1>5, <2>1 DEF IInv, AInv, Base, TypeOK, Tracked
    <3>2. \A e \in Calls : Busy(e)' => Busy(e)
      BY <1>1 DEF IInv, AInv, Base, TypeOK, Busy
    <3> QED
      BY <1>6, <2>2, <3>1, <3>2, ClosedPlaces
  <2>4. Kept'
    BY <1>4, <2>2, ClosesKept
  <2>5. Cleared'
    <3>1. ASSUME NEW e \in Calls, pc'[e] = "asks", NEW d \in shows'[asks'[e]], isModified(d)'
          PROVE  \/ d \in targets'[asks'[e]]
                 \/ \E w \in writing' : w.by = asks'[e] /\ w.doc = d
                 \/ Elsewhere(d, group[e])'
      <4>1. pc[e] = "asks" /\ asks'[e] = asks[e] /\ group'[e] = group[e] /\ group[e] = g
        BY <1>1, <1>2, <1>6, <3>1 DEF Busy, IInv, AInv, Base, TypeOK
      <4>2. isModified(d) /\ d \in shows[asks[e]]
        BY <1>6, <3>1, <4>1 DEF isModified, texts
      <4>3. Elsewhere(d, g) => Elsewhere(d, g)'
        BY <2>2, ClosesElsewhere
      <4> QED
        BY <1>6, <4>1, <4>2, <4>3 DEF IInv, Unlost, Cleared, asking
    <3>2. ASSUME NEW e \in Calls
          PROVE  /\ pc'[e] = "go" => MayClose(asks[e], group[e])'
                 /\ deferred'[e] # None => MayClose(deferred[e], group[e])'
      <4>1. deferred'[e] = None
        BY <1>1, <2>1 DEF IInv, AInv, Base, Steps
      <4>2. pc'[e] = "go" => pc[e] = "go" /\ asks'[e] = asks[e] /\ group[e] = g
        BY <1>1, <1>2 DEF IInv, AInv, Base, TypeOK, Busy
      <4>3. \A q : MayClose(q, g) => MayClose(q, g)'
        BY <2>2, MayCloseKept
      <4> QED
        BY <1>6, <4>1, <4>2, <4>3 DEF IInv, Unlost, Cleared
    <3> QED
      BY <3>1, <3>2 DEF Cleared
  <2> QED
    BY <1>7, <2>3, <2>4, <2>5 DEF Unlost
<1> QED
  BY <1>8, <1>9

-----------------------------------------------------------------------------
(* The question about a tab *)

\* The answer ends it for all who wait, and moves no tab.
LEMMA SettlesPlaces ==
    ASSUME IInv, Settled, NEW p \in Panes, stage[p] # "none",
           NEW verdict \in {"go", "veto"}, settle(p, verdict),
           UNCHANGED <<strips, group, rest, deferred, asks>>
    PROVE  Places'
<1>1. \A c \in Calls : pc[c] \in {"idle", "asks"}
  BY OneQuestion DEF IInv
<1>2. \A c \in Calls : Busy(c)' => Busy(c)
  BY <1>1 DEF IInv, AInv, Base, TypeOK, settle, awake, Busy
<1> QED
  BY <1>2 DEF IInv, Unlost, Places, Tracked, strips

LEMMA CancelStep ==
    ASSUME IInv, Settled, NEW p \in Panes, Cancel(p)
    PROVE  Unlost'
<1> USE EditorClosingAssumption
<1>1. stage[p] = "asking"
  BY AskedPane DEF IInv, Cancel
<1>2. /\ Places'
      /\ \A c \in Calls : pc'[c] = IF pc[c] = "asks" THEN "veto" ELSE "idle"
  BY <1>1, Settles, SettlesPlaces DEF IInv, Cancel
<1>3. exitStage = "no" /\ \A c \in Calls : deferred[c] = None
  BY <1>1, OneQuestion DEF IInv
<1>4. Saves'
  BY <1>1 DEF IInv, AInv, Base, Unlost, TypeOK, Saves, Cancel, settle, texts, exit
<1>5. Leaving' /\ Kept'
  BY <1>3 DEF IInv, Unlost, Leaving, Kept, Safe, Live, Opened, holdersOf, isModified, Cancel, texts, strips, exit
<1>6. Cleared'
  BY <1>2, <1>3 DEF Cleared, Cancel
<1> QED
  BY <1>2, <1>4, <1>5, <1>6 DEF Unlost

LEMMA DontSaveStep ==
    ASSUME IInv, Settled, NEW p \in Panes, DontSave(p)
    PROVE  Unlost'
<1> USE EditorClosingAssumption
<1>1. stage[p] = "asking"
  BY AskedPane DEF IInv, DontSave
<1>2. /\ Places'
      /\ \A c \in Calls : pc'[c] = IF pc[c] = "asks" THEN "go" ELSE "idle"
  BY <1>1, Settles, SettlesPlaces DEF IInv, DontSave
<1>3. /\ exitStage = "no" /\ \A c \in Calls : deferred[c] = None
      /\ \A c \in Calls : pc[c] = "asks" => asks[c] = p
  BY <1>1, OneQuestion DEF IInv
<1>4. /\ held' = held \ targets[p]
      /\ declined' = [d \in Docs |-> IF d \in targets[p] THEN version[d] ELSE declined[d]]
      /\ UNCHANGED <<texts, strips, group, rest, deferred, asks, turn, writing, exit>>
  BY DEF DontSave, releaseFileModelWithoutEditor
<1>5. Saves'
  BY <1>1, <1>4 DEF IInv, AInv, Base, Unlost, TypeOK, Saves, DontSave, settle, texts, exit
<1>6. Leaving'
  BY <1>3, <1>4 DEF IInv, Unlost, Leaving, holdersOf, isModified, strips, texts, exit
<1>7. Kept'
  <2>1. \A d \in Docs : d \in targets[p] => Opened(d)'
    BY <1>4 DEF IInv, AInv, Asking, Questions, Opened, strips
  <2>2. \A d \in Docs : ~Opened(d)' => ~isModified(d)'
    BY <1>4, <2>1 DEF IInv, Unlost, Kept, Opened, isModified, strips, texts
  <2>3. \A d \in Docs : ~Live(d)' => Safe(d)'
    BY <1>4 DEF IInv, Unlost, Kept, Live, Safe, holdersOf, isModified, strips, texts
  <2>4. \A d \in Docs : declined'[d] \in Versions => declined'[d] <= version'[d]
    BY <1>4 DEF IInv, AInv, Base, Unlost, TypeOK, Versions, Kept, texts
  <2>5. \A d \in held' : isModified(d)' /\ holdersOf(d)' = {} => declined'[d] # version'[d]
    BY <1>3, <1>4 DEF IInv, AInv, Base, Unlost, TypeOK, Kept, holdersOf, isModified, strips, texts
  <2> QED
    BY <2>2, <2>3, <2>4, <2>5 DEF Kept
<1>8. Cleared'
  <2>1. ASSUME NEW c \in Calls, pc[c] = "asks"
        PROVE  MayClose(asks[c], group[c])'
    <3>1. asks[c] = p /\ ~\E w \in writing : w.by = p
      BY <1>1, <1>3, <2>1 DEF IInv, AInv, Asking, Alone
    <3>2. SUFFICES ASSUME NEW d \in shows[p], isModified(d), d \notin targets[p]
                   PROVE  Elsewhere(d, group[c])
      BY <1>4, <3>1 DEF IInv, AInv, Base, TypeOK, MayClose, Refused, Elsewhere, holdersOf, isModified, strips, texts
    <3> QED
      BY <2>1, <3>1, <3>2 DEF IInv, Unlost, Cleared
  <2> QED
    BY <1>2, <1>3, <1>4, <2>1 DEF Cleared
<1> QED
  BY <1>2, <1>5, <1>6, <1>7, <1>8 DEF Unlost

\* A target is saved while its question waits.
LEMMA SavesTargetText ==
    ASSUME IInv, Settled, NEW p \in Panes, saveTarget(p, targets[p]), UNCHANGED <<version, strips, series, asked>>
    PROVE  /\ Places' /\ Saves'
           /\ \E d \in targets[p] : /\ targets' = [targets EXCEPT ![p] = @ \ {d}]
                                     /\ \E w \in writing' : w.by = p /\ w.doc = d
<1> USE EditorClosingAssumption
<1>1. PICK left \in SUBSET Docs : left = targets[p]
  BY DEF IInv, AInv, Base, TypeOK
<1>2. PICK d \in left :
         /\ targets' = [targets EXCEPT ![p] = left \ {d}]
         /\ writing' = {w \in writing : w.by # p} \cup {[by |-> p, doc |-> d, version |-> version[d]]}
  BY <1>1 DEF saveTarget
<1>3. Places'
  BY DEF IInv, Unlost, Places, Busy, Tracked, series, strips
<1>4. Saves'
  BY <1>2 DEF IInv, AInv, Base, Unlost, TypeOK, Saves
<1>5. \E w \in writing' : w.by = p /\ w.doc = d
  <2>1. PICK w : w = [by |-> p, doc |-> d, version |-> version[d]]
    OBVIOUS
  <2> QED
    BY <1>2, <2>1
<1> QED
  BY <1>1, <1>2, <1>3, <1>4, <1>5

LEMMA SaveChosenStep ==
    ASSUME IInv, Settled, NEW p \in Panes, Save(p)
    PROVE  Unlost'
<1> USE EditorClosingAssumption
<1>1. stage[p] = "asking"
  BY AskedPane DEF IInv, Save
<1>2. saveTarget(p, targets[p]) /\ UNCHANGED <<texts, held, strips, series, turn, exit, declined>>
  BY DEF Save, saveTarget, series
<1>3. /\ Places' /\ Saves'
      /\ \E d \in targets[p] : /\ targets' = [targets EXCEPT ![p] = @ \ {d}]
                                /\ \E w \in writing' : w.by = p /\ w.doc = d
  BY <1>2, SavesTargetText DEF texts, exit
<1>4. PICK d \in targets[p] : /\ targets' = [targets EXCEPT ![p] = @ \ {d}]
                              /\ \E w \in writing' : w.by = p /\ w.doc = d
  BY <1>3
<1>5. Leaving' /\ Kept'
  BY <1>2 DEF IInv, Unlost, Leaving, Kept, Busy, Safe, Live, Opened, holdersOf, isModified, texts, strips, series, exit
<1>6. Cleared'
  <2>1. \A c \in Calls : pc[c] \in {"idle", "asks"} /\ deferred[c] = None /\ (pc[c] = "asks" => asks[c] = p)
    BY <1>1, OneQuestion DEF IInv
  <2>2. ASSUME NEW c \in Calls, pc[c] = "asks", NEW e \in shows[p], isModified(e)
        PROVE  \/ e \in targets'[p]
               \/ \E w \in writing' : w.by = p /\ w.doc = e
               \/ Elsewhere(e, group[c])
    <3>1. e \in targets[p] \/ Elsewhere(e, group[c])
      BY <1>1, <2>1, <2>2 DEF IInv, AInv, Asking, Unlost, Alone, Cleared
    <3>2. e \in targets[p] => e \in targets'[p] \/ e = d
      BY <1>4 DEF IInv, AInv, Base, TypeOK
    <3> QED
      BY <1>4, <3>1, <3>2
  <2> QED
    BY <1>2, <2>1, <2>2 DEF Cleared, Elsewhere, holdersOf, isModified, texts, strips, series
<1> QED
  BY <1>3, <1>5, <1>6 DEF Unlost

\* A text that reached its file is the text the document has.
LEMMA SavedText ==
    ASSUME IInv, NEW w \in writing, saved' = [saved EXCEPT ![w.doc] = w.version], UNCHANGED version
    PROVE  /\ w.doc \in Docs /\ saved' \in [Docs -> Versions]
           /\ \A d \in Docs : isModified(d)' <=> isModified(d) /\ d # w.doc
BY DEF IInv, AInv, Base, Unlost, TypeOK, Saves, isModified

LEMMA SavedStep ==
    ASSUME IInv, Settled, NEW p \in Panes, Saved(p)
    PROVE  Unlost'
<1> USE EditorClosingAssumption
<1>1. PICK w \in writing :
         /\ w.by = p
         /\ \/ /\ saved' = [saved EXCEPT ![w.doc] = w.version]
               /\ IF targets[p] = {}
                    THEN settle(p, "go") /\ writing' = writing \ {w}
                    ELSE saveTarget(p, targets[p])
            \/ /\ settle(p, "veto")
               /\ writing' = writing \ {w}
               /\ UNCHANGED saved
  BY DEF Saved
<1>2. UNCHANGED <<version, held, strips, group, rest, deferred, asks, turn, dialog, exit, declined>>
  BY DEF Saved
<1>3. stage[p] = "saving" /\ dialog # p
  BY <1>1 DEF IInv, AInv, Asking, Alone, Questions, QuestionsStand
<1>4. /\ exitStage = "no"
      /\ \A c \in Calls : pc[c] \in {"idle", "asks"} /\ deferred[c] = None /\ (pc[c] = "asks" => asks[c] = p)
  BY <1>3, OneQuestion DEF IInv
<1>5. /\ saved' \in [Docs -> Versions]
      /\ \A d \in Docs : isModified(d)' => isModified(d)
  BY <1>1, <1>2, SavedText DEF IInv, AInv, Base, TypeOK, isModified
<1>6. Leaving' /\ Kept'
  BY <1>2, <1>4, <1>5 DEF IInv, AInv, Base, Unlost, TypeOK, Leaving, Kept, Safe, Live, Opened, holdersOf, strips, exit
<1>7. ASSUME NEW verdict \in {"go", "veto"}, settle(p, verdict), writing' = writing \ {w},
             verdict = "go" => saved' = [saved EXCEPT ![w.doc] = w.version] /\ targets[p] = {}
      PROVE  Unlost'
  <2>1. /\ Places'
        /\ \A c \in Calls : pc'[c] = IF pc[c] = "asks" THEN verdict ELSE "idle"
    BY <1>2, <1>3, <1>7, Settles, SettlesPlaces DEF IInv
  <2>2. Saves'
    BY <1>1, <1>2, <1>7 DEF IInv, Unlost, Saves, exit
  <2>3. ASSUME NEW c \in Calls, pc[c] = "asks", verdict = "go"
        PROVE  MayClose(asks[c], group[c])'
    <3>1. asks[c] = p /\ \A v \in writing : v.by = p => v = w
      BY <1>1, <1>4, <2>3 DEF IInv, AInv, Base, Shutting
    <3>2. SUFFICES ASSUME NEW d \in shows[p], isModified(d)'
                   PROVE  Elsewhere(d, group[c])
      BY <1>2, <3>1 DEF MayClose, Elsewhere, holdersOf, strips
    <3>3. isModified(d) /\ d # w.doc
      BY <1>2, <1>7, <2>3, <3>2, SavedText DEF IInv, AInv, Base, TypeOK
    <3> QED
      BY <1>7, <2>3, <3>1, <3>2, <3>3 DEF IInv, Unlost, Cleared
  <2>4. Cleared'
    BY <1>2, <1>4, <2>1, <2>3 DEF Cleared
  <2> QED
    BY <1>6, <2>1, <2>2, <2>4 DEF Unlost
<1>8. ASSUME saveTarget(p, targets[p]), saved' = [saved EXCEPT ![w.doc] = w.version]
      PROVE  Unlost'
  <2>1. UNCHANGED <<version, strips, series, asked>>
    BY <1>2, <1>8 DEF saveTarget, series, exit
  <2>2. /\ Places' /\ Saves'
        /\ \E d \in targets[p] : /\ targets' = [targets EXCEPT ![p] = @ \ {d}]
                                  /\ \E v \in writing' : v.by = p /\ v.doc = d
    BY <1>8, <2>1, SavesTargetText
  <2>3. PICK d \in targets[p] : /\ targets' = [targets EXCEPT ![p] = @ \ {d}]
                                /\ \E v \in writing' : v.by = p /\ v.doc = d
    BY <2>2
  <2>4. ASSUME NEW c \in Calls, pc[c] = "asks", NEW e \in shows[p], isModified(e)'
        PROVE  \/ e \in targets'[p]
               \/ \E v \in writing' : v.by = p /\ v.doc = e
               \/ Elsewhere(e, group[c])
    <3>1. isModified(e) /\ e # w.doc
      BY <1>2, <1>8, <2>4, SavedText DEF IInv, AInv, Base, TypeOK
    <3>2. e \in targets[p] \/ Elsewhere(e, group[c])
      BY <1>1, <1>4, <2>4, <3>1 DEF IInv, AInv, Base, Unlost, Shutting, Cleared
    <3>3. e \in targets[p] => e \in targets'[p] \/ e = d
      BY <2>3 DEF IInv, AInv, Base, TypeOK
    <3> QED
      BY <2>3, <3>2, <3>3
  <2>5. Cleared'
    BY <1>4, <2>1, <2>4 DEF Cleared, Elsewhere, holdersOf, strips, series
  <2> QED
    BY <1>6, <2>2, <2>5 DEF Unlost
<1> QED
  BY <1>1, <1>7, <1>8

-----------------------------------------------------------------------------
(* Shutdown *)

\* What stays as it is in every step of a shutdown.
LEMMA ExitPlaces ==
    ASSUME IInv, exitStage # "no" \/ Quiet, UNCHANGED <<strips, series>>
    PROVE  Places' /\ Cleared'
<1>1. \A c \in Calls : pc[c] = "idle" /\ deferred[c] = None
  BY ExitAlone DEF IInv
<1>2. Places'
  BY DEF IInv, Unlost, Places, Busy, Tracked, strips, series
<1>3. Cleared'
  BY <1>1 DEF Cleared, series
<1> QED
  BY <1>2, <1>3

\* From one item to the next question, or to the end: whoever is passed over
\* has nothing unsaved.
LEMMA NextItem ==
    ASSUME IInv, NEW left \in SUBSET Item, nextItem(left),
           UNCHANGED <<version, strips>>,
           \A d \in Docs : isModified(d)' => isModified(d),
           \A d \in Docs : Safe(d)' \/ \E i \in left : i.doc = d,
           \A i \in left : i.inTab /\ isModified(i.doc) => holdersOf(i.doc) # {}
    PROVE  exitStage' \in {"asking", "closing"} /\ Leaving'
<1> USE EditorClosingAssumption
<1>1. \A j \in left : ~isStillDirty(j) => j.doc \in Docs /\ ~isModified(j.doc)'
  BY DEF isStillDirty, Item
<1>2. \A i \in left : i.inTab /\ isModified(i.doc)' => holdersOf(i.doc)' # {}
  BY DEF holdersOf, strips, Item
<1>3. CASE \E i \in left : \E skipped \in SUBSET {j \in left : ~isStillDirty(j)} :
              /\ items' = left \ ({i} \cup skipped)
              /\ asked' = i /\ exitStage' = "asking" /\ dialog' = Exit
  <2>1. PICK i \in left : \E skipped \in SUBSET {j \in left : ~isStillDirty(j)} :
              /\ items' = left \ ({i} \cup skipped)
              /\ asked' = i /\ exitStage' = "asking" /\ dialog' = Exit
    BY <1>3
  <2>2. PICK skipped \in SUBSET {j \in left : ~isStillDirty(j)} :
              /\ items' = left \ ({i} \cup skipped)
              /\ asked' = i /\ exitStage' = "asking" /\ dialog' = Exit
    BY <2>1
  <2>3. ASSUME NEW d \in Docs, ~Safe(d)'
        PROVE  \E j \in items' \cup {asked'} : j.doc = d
    <3>1. PICK j \in left : j.doc = d
      BY <2>3
    <3>2. j \notin skipped
      BY <1>1, <2>3, <3>1 DEF Safe
    <3> QED
      BY <2>2, <3>1, <3>2
  <2>4. Leaving'
    BY <1>2, <2>2, <2>3 DEF Leaving
  <2> QED
    BY <2>2, <2>4
<1>4. CASE /\ \A i \in left : ~isStillDirty(i)
           /\ items' = {} /\ asked' = None /\ exitStage' = "closing"
           /\ dialog' = IF dialog = Exit THEN None ELSE dialog
  <2>1. \A d \in Docs : Safe(d)'
    BY <1>1, <1>4 DEF Safe
  <2>2. Leaving'
    BY <1>4, <2>1 DEF Leaving
  <2> QED
    BY <1>4, <2>2
<1> QED
  BY <1>3, <1>4 DEF nextItem

LEMMA RequestShutdownStep ==
    ASSUME IInv, ~Overlap, Settled, requestShutdown
    PROVE  Unlost'
<1> USE EditorClosingAssumption
<1>1. Quiet /\ exitStage = "no" /\ nextItem(collectDirty)
  BY DEF requestShutdown, Quiet
<1>2. UNCHANGED <<texts, held, strips, series, turn, stage, targets, writing, declined>>
  BY DEF requestShutdown
<1>3. PICK left \in SUBSET Item : left = collectDirty
  BY DirtyItems
<1>4. \A d \in Docs : Safe(d)' \/ \E i \in left : i.doc = d
  <2>1. SUFFICES ASSUME NEW d \in Docs, ~Safe(d)
                 PROVE  \E i \in left : i.doc = d
    BY <1>2 DEF Safe, isModified, texts
  <2>2. isModified(d) /\ Live(d)
    BY <2>1 DEF IInv, Unlost, Kept, Safe
  <2>3. PICK i : i = [doc |-> d, inTab |-> holdersOf(d) # {}]
    OBVIOUS
  <2>4. i \in collectDirty /\ i.doc = d
    BY <2>2, <2>3 DEF collectDirty
  <2> QED
    BY <1>3, <2>4
<1>5. \A i \in left : i.inTab /\ isModified(i.doc) => holdersOf(i.doc) # {}
  BY <1>3 DEF collectDirty
<1>6. /\ \A d \in Docs : isModified(d)' => isModified(d)
      /\ UNCHANGED <<version, strips, series>>
  BY <1>2 DEF isModified, texts
<1>7. exitStage' \in {"asking", "closing"} /\ Leaving'
  BY <1>1, <1>3, <1>4, <1>5, <1>6, NextItem
<1>8. Places' /\ Cleared'
  BY <1>1, <1>2, <1>7, ExitPlaces DEF texts
<1>9. Saves'
  BY <1>1, <1>2, ExitAlone DEF IInv, Unlost, Saves
<1>10. Kept'
  BY <1>2, <1>7 DEF IInv, Unlost, Kept, Safe, Live, Opened, holdersOf, isModified, texts, strips
<1> QED
  BY <1>7, <1>8, <1>9, <1>10 DEF Unlost

\* The window stays: refusals of what is still open are forgotten.
LEMMA AbortedParts ==
    ASSUME IInv, aborted, UNCHANGED <<version, held, strips, series>>,
           \A d \in Docs : isModified(d)' => isModified(d),
           exitStage # "no"
    PROVE  exitStage' = "no" /\ Leaving' /\ Kept'
<1> USE EditorClosingAssumption
<1>1. /\ exitStage' = "no" /\ items' = {} /\ asked' = None
      /\ declined' = [d \in Docs |-> IF Live(d) THEN None ELSE declined[d]]
  BY DEF aborted
<1>2. Leaving'
  BY <1>1 DEF Leaving
<1>3. \A d \in Docs : Live(d)' = Live(d) /\ Opened(d)' = Opened(d)
  BY DEF Live, Opened, holdersOf, strips
<1>4. \A d \in Docs : ~Live(d)' => Safe(d)'
  BY <1>1, <1>3 DEF IInv, Unlost, Kept, Safe
<1>5. \A d \in held' : declined'[d] # version'[d]
  BY <1>1 DEF IInv, AInv, Base, TypeOK, Live, Versions
<1>6. \A d \in Docs : declined'[d] \in Versions => declined'[d] <= version'[d]
  BY <1>1 DEF IInv, Unlost, Kept, Versions
<1>7. \A d \in Docs : ~Opened(d)' => ~isModified(d)'
  BY <1>3 DEF IInv, Unlost, Kept
<1> QED
  BY <1>1, <1>2, <1>4, <1>5, <1>6, <1>7 DEF Kept

LEMMA CancelExitStep ==
    ASSUME IInv, CancelExit
    PROVE  Unlost'
<1> USE EditorClosingAssumption
<1>1. exitStage = "asking"
  BY DEF CancelExit, IInv, AInv, Base, Shutting
<1>2. UNCHANGED <<texts, held, strips, series, turn, stage, targets, writing>> /\ dialog' = None
  BY DEF CancelExit
<1>3. (\A d \in Docs : isModified(d)' => isModified(d)) /\ UNCHANGED <<version, held, strips, series>>
  BY <1>2 DEF isModified, texts
<1>4. exitStage' = "no" /\ Leaving' /\ Kept'
  BY <1>1, <1>3, AbortedParts DEF CancelExit
<1>5. Places' /\ Cleared'
  BY <1>1, <1>2, <1>4, ExitPlaces DEF texts
<1>6. Saves'
  BY <1>1, <1>2, ExitAlone DEF IInv, Unlost, Saves
<1> QED
  BY <1>4, <1>5, <1>6 DEF Unlost

LEMMA DontSaveExitStep ==
    ASSUME IInv, DontSaveExit
    PROVE  Unlost'
<1> USE EditorClosingAssumption
<1>1. exitStage = "asking" /\ asked \in Item /\ asked.doc \in Docs
  BY DEF DontSaveExit, IInv, AInv, Base, Shutting, Item
<1>2. /\ UNCHANGED <<texts, held, strips, series, turn, stage, targets, writing>>
      /\ declined' = [declined EXCEPT ![asked.doc] = version[asked.doc]] /\ nextItem(items)
  BY DEF DontSaveExit
<1>3. /\ \A d \in Docs : isModified(d)' <=> isModified(d)
      /\ UNCHANGED <<version, strips, series>>
  BY <1>2 DEF isModified, texts
<1>4. \A d \in Docs : Safe(d)' \/ \E i \in items : i.doc = d
  BY <1>1, <1>2, <1>3 DEF IInv, AInv, Base, Unlost, TypeOK, Leaving, Safe
<1>5. PICK left \in SUBSET Item : left = items
  BY DEF IInv, AInv, Base, TypeOK
<1>6. \A i \in left : i.inTab /\ isModified(i.doc) => holdersOf(i.doc) # {}
  BY <1>5 DEF IInv, Unlost, Leaving
<1>7. exitStage' \in {"asking", "closing"} /\ Leaving'
  BY <1>1, <1>2, <1>3, <1>4, <1>5, <1>6, NextItem
<1>8. Places' /\ Cleared'
  BY <1>1, <1>2, <1>7, ExitPlaces DEF texts
<1>9. Saves'
  BY <1>1, <1>2, ExitAlone DEF IInv, Unlost, Saves
<1>10. Kept'
  <2>1. \A d \in Docs : Safe(d) => Safe(d)'
    BY <1>1, <1>2, <1>3 DEF Safe, texts, IInv, AInv, Base, TypeOK
  <2>2. \A d \in Docs : declined'[d] \in Versions => declined'[d] <= version'[d]
    BY <1>1, <1>2, <1>3 DEF IInv, AInv, Base, Unlost, TypeOK, Kept, Versions
  <2> QED
    BY <1>2, <1>3, <1>7, <2>1, <2>2 DEF IInv, Unlost, Kept, Live, Opened, holdersOf, strips
<1> QED
  BY <1>7, <1>8, <1>9, <1>10 DEF Unlost

LEMMA SaveExitStep ==
    ASSUME IInv, SaveExit
    PROVE  Unlost'
<1> USE EditorClosingAssumption
<1>1. exitStage = "asking" /\ asked \in Item /\ asked.doc \in Docs
  BY DEF SaveExit, IInv, AInv, Base, Shutting, Item
<1>2. /\ UNCHANGED <<texts, held, strips, series, turn, stage, targets, items, asked, declined>>
      /\ dialog' = None /\ exitStage' = "saving"
      /\ writing' = writing \cup {[by |-> Exit, doc |-> asked.doc, version |-> version[asked.doc]]}
  BY DEF SaveExit
<1>3. Places' /\ Cleared'
  BY <1>1, <1>2, ExitPlaces DEF texts
<1>4. Saves'
  BY <1>1, <1>2, ExitAlone DEF IInv, Unlost, Saves, texts
<1>5. Leaving' /\ Kept'
  BY <1>1, <1>2 DEF IInv, Unlost, Leaving, Kept, Busy, Safe, Live, Opened, holdersOf, isModified, texts, strips, series
<1> QED
  BY <1>3, <1>4, <1>5 DEF Unlost

LEMMA SavedExitStep ==
    ASSUME IInv, SavedExit
    PROVE  Unlost'
<1> USE EditorClosingAssumption
<1>1. PICK w \in writing :
         /\ w.by = Exit
         /\ writing' = writing \ {w}
         /\ \/ /\ saved' = [saved EXCEPT ![w.doc] = w.version]
               /\ nextItem(items)
               /\ UNCHANGED declined
            \/ aborted /\ UNCHANGED <<saved, dialog>>
  BY DEF SavedExit
<1>2. UNCHANGED <<version, held, strips, series, turn, stage, targets>>
  BY DEF SavedExit
<1>3. exitStage = "saving" /\ asked \in Item /\ w.doc = asked.doc
  BY <1>1 DEF IInv, AInv, Base, Unlost, Shutting, Saves
<1>4. writing' = {}
  BY <1>1, <1>3, ExitAlone DEF IInv, AInv, Base, Shutting
<1>5. /\ saved' \in [Docs -> Versions]
      /\ \A d \in Docs : isModified(d)' => isModified(d)
  BY <1>1, <1>2, SavedText DEF IInv, AInv, Base, TypeOK, isModified
<1>6. CASE saved' = [saved EXCEPT ![w.doc] = w.version] /\ nextItem(items) /\ UNCHANGED declined
  <2>1. \A d \in Docs : Safe(d)' \/ \E i \in items : i.doc = d
    BY <1>2, <1>3, <1>6, SavedText DEF IInv, Unlost, Leaving, Safe
  <2>2. PICK left \in SUBSET Item : left = items
    BY DEF IInv, AInv, Base, TypeOK
  <2>3. \A i \in left : i.inTab /\ isModified(i.doc) => holdersOf(i.doc) # {}
    BY <2>2 DEF IInv, Unlost, Leaving
  <2>4. UNCHANGED <<version, strips, series>>
    BY <1>2
  <2>5. exitStage' \in {"asking", "closing"} /\ Leaving'
    BY <1>3, <1>5, <1>6, <2>1, <2>2, <2>3, <2>4, NextItem
  <2>6. Places' /\ Cleared'
    BY <1>2, <1>3, <2>5, ExitPlaces
  <2>7. Kept'
    BY <1>2, <1>5, <1>6, <2>5 DEF IInv, Unlost, Kept, Safe, Live, Opened, holdersOf, strips
  <2>8. Saves'
    BY <1>4 DEF Saves
  <2> QED
    BY <2>5, <2>6, <2>7, <2>8 DEF Unlost
<1>7. CASE aborted /\ UNCHANGED <<saved, dialog>>
  <2>1. UNCHANGED <<version, held, strips, series>>
    BY <1>2
  <2>2. exitStage' = "no" /\ Leaving' /\ Kept'
    BY <1>3, <1>5, <1>7, <2>1, AbortedParts
  <2>3. Places' /\ Cleared'
    BY <1>2, <1>3, <1>7, <2>2, ExitPlaces
  <2>4. Saves'
    BY <1>4 DEF Saves
  <2> QED
    BY <2>2, <2>3, <2>4 DEF Unlost
<1> QED
  BY <1>1, <1>6, <1>7

LEMMA WindowEndsStep ==
    ASSUME IInv, WindowEnds
    PROVE  Unlost'
<1> USE EditorClosingAssumption
<1>1. /\ exitStage = "closing" /\ exitStage' = "gone"
      /\ UNCHANGED <<texts, held, strips, series, turn, asking, writing, items, asked, declined>>
  BY DEF WindowEnds
<1>2. Places' /\ Cleared'
  BY <1>1, ExitPlaces DEF texts, asking
<1>3. Saves'
  BY <1>1, ExitAlone DEF IInv, Unlost, Saves
<1>4. Leaving' /\ Kept'
  BY <1>1 DEF IInv, Unlost, Leaving, Kept, Busy, Safe, Live, Opened, holdersOf, isModified, texts, strips, series
<1> QED
  BY <1>2, <1>3, <1>4 DEF Unlost

-----------------------------------------------------------------------------
(* The theorems *)

\* Shape of the state, for any documents, groups, tabs and calls, whatever
\* requests and edits come between.
THEOREM TypeCorrect == Spec => []TypeOK
<1>1. Base => TypeOK
  BY DEF Base
<1> QED
  BY <1>1, BaseInvariance, PTL

\* Only named tabs and clean previews close (close in confirmAndClose),
\* whatever requests and edits come between.
THEOREM OnlyNamedOnesClose == Spec => OnlyNamedClose
<1> USE EditorClosingAssumption
<1>1. ASSUME TypeOK, [Next]_vars, NEW p \in Panes, where[p] # None, where'[p] = None
      PROVE  Named(p)
  <2>1. ASSUME NEW c \in Calls, TakeClean(c) \/ TakeDirty(c) \/ LoopEnds(c) \/ Confirmed(c) \/ Vetoed(c)
        PROVE  Named(p)
    BY <1>1, <2>1 DEF TypeOK, Named, TakeClean, TakeDirty, LoopEnds, Confirmed, Vetoed, closeOrDefer, closeTab, strips
  <2>2. ASSUME NEW d \in Docs, NEW g \in Groups, NEW asPreview \in BOOLEAN, openUri(d, g, asPreview)
        PROVE  Named(p)
    <3>1. p \in replaced(g)
      BY <1>1, <2>2 DEF TypeOK, openUri
    <3> QED
      BY <1>1, <3>1 DEF TypeOK, replaced, Named
  <2>3. ASSUME NEW D \in SUBSET Docs, NEW g \in Groups, openDiff(D, g)
        PROVE  FALSE
    BY <1>1, <2>3 DEF TypeOK, openDiff
  <2>4. ASSUME Document \/ Answer \/ SaveEnds \/ WindowEnds \/ requestShutdown \/ UNCHANGED vars
               \/ \E g \in Groups, S \in SUBSET Panes : closeEditors(g, S)
        PROVE  UNCHANGED where
    <3>1. Document \/ WindowEnds \/ requestShutdown \/ UNCHANGED vars
               \/ (\E g \in Groups, S \in SUBSET Panes : closeEditors(g, S)) => UNCHANGED where
      BY DEF Document, edit, save, holdFileModel, expire, WindowEnds, requestShutdown, closeEditors, vars, strips
    <3>2. Answer \/ SaveEnds => UNCHANGED where
      BY DEF Answer, Cancel, DontSave, Save, CancelExit, DontSaveExit, SaveExit, SaveEnds, Saved, SavedExit, strips
    <3> QED
      BY <2>4, <3>1, <3>2
  <2> QED
    BY <1>1, <2>1, <2>2, <2>3, <2>4 DEF Next, Continuation, Request
<1>2. TypeOK /\ [Next]_vars => [\A p \in Panes : where[p] # None /\ where'[p] = None => Named(p)]_vars
  BY <1>1
<1> QED
  BY <1>2, TypeCorrect, PTL DEF Spec, OnlyNamedClose

\* Whoever awaits an answer gets one (pending, confirmSave), where one request
\* is answered before the next one comes.
THEOREM QuestionsDoStand ==
    ASSUME ~Overlap
    PROVE  Spec => []QuestionsStand
<1>1. AInv => QuestionsStand
  BY DEF AInv, Asking, Questions
<1> QED
  BY <1>1, AskingInvariance, PTL

\* The inductive invariant, in an environment where requests wait for each
\* other and edits for questions: no call is asked about a tab twice, a tab
\* that goes on to close leaves nothing that only it shows unsaved and
\* unrefused, and a shutdown has every such document still to ask about.
THEOREM Invariance ==
    ASSUME ~Beside, ~Overlap, ~LateEdits
    PROVE  Spec => []IInv
<1> USE EditorClosingAssumption
<1>1. Init /\ AInv => IInv
  BY DEF Init, IInv, Unlost, Places, Saves, Leaving, Kept, Cleared, Busy, Tracked, Safe, isModified, Versions
<1>2. IInv /\ [Next]_vars => IInv'
  <2>1. SUFFICES ASSUME IInv, [Next]_vars
                 PROVE  Unlost'
    BY AskingStep DEF IInv
  <2>2. CASE Continuation
    BY <2>1, <2>2, TakeCleanStep, TakeDirtyStep, LoopEndsStep, ConfirmedStep, VetoedStep DEF Continuation
  <2>3. CASE Settled /\ Document
    BY <2>1, <2>3, EditStep, SaveStep, HoldStep, ExpireStep DEF Document
  <2>4. CASE Settled /\ Request
    BY <2>1, <2>4, OpenUriStep, OpenDiffStep, CloseEditorsStep, RequestShutdownStep DEF Request
  <2>5. CASE Settled /\ Answer
    BY <2>1, <2>5, CancelStep, DontSaveStep, SaveChosenStep, CancelExitStep, DontSaveExitStep, SaveExitStep DEF Answer
  <2>6. CASE Settled /\ SaveEnds
    BY <2>1, <2>6, SavedStep, SavedExitStep DEF SaveEnds
  <2>7. CASE Settled /\ WindowEnds
    BY <2>1, <2>7, WindowEndsStep
  <2>8. CASE UNCHANGED vars
    <3>1. UNCHANGED <<version, saved, held, where, shows, diff, active, preview, group, rest, deferred, asks, pc, turn, stage, targets, dialog, writing, exitStage, items, asked, declined>>
      BY <2>8 DEF vars, texts, strips, series, asking, exit
    <3> QED
      BY <2>1, <3>1 DEF IInv, Unlost, Places, Saves, Leaving, Kept, Cleared, MayClose, Refused, Elsewhere, Busy, Tracked, Safe, Live, Opened, holdersOf, isModified
  <2> QED
    BY <2>1, <2>2, <2>3, <2>4, <2>5, <2>6, <2>7, <2>8 DEF Next
<1>3. Spec => []AInv
  BY AskingInvariance
<1> QED
  BY <1>1, <1>2, <1>3, PTL DEF Spec

\* No edit is given up unless the user refused to save that very text
\* (needsCloseConfirm, collectDirty, expire).
THEOREM NothingIsLost ==
    ASSUME ~Beside, ~Overlap, ~LateEdits
    PROVE  Spec => []NothingLostUnasked
<1>1. IInv => NothingLostUnasked
  BY DEF IInv, Unlost, NothingLostUnasked, Kept, Leaving, Safe
<1> QED
  BY <1>1, Invariance, PTL

\* Refused edits do not go on in a model that only an extension holds
\* (didDiscard).
THEOREM RefusedOnesEnd ==
    ASSUME ~Beside, ~Overlap, ~LateEdits
    PROVE  Spec => []RefusedEditsEnd
<1>1. IInv => RefusedEditsEnd
  BY DEF IInv, Unlost, RefusedEditsEnd, Kept
<1> QED
  BY <1>1, Invariance, PTL
=============================================================================

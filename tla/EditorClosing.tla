---------------------------- MODULE EditorClosing ----------------------------
(***************************************************************************)
(* Closing tabs and the window (editorCloseHandler.ts, editorService.ts,   *)
(* editorGroupModel.ts, dialogService.ts, lifecycleService.ts) over the    *)
(* models that tabs, diff sides and extensions refer to                    *)
(* (textFileModelRegistry.ts, boundModelReferences.ts): whom the user is   *)
(* asked about, what closes without a question, and what becomes of edits. *)
(*                                                                         *)
(* A step is what runs between two callbacks of the event loop; the loop   *)
(* of a series takes one step per tab, and nothing else runs meanwhile     *)
(* (turn). A document is one model: a file that is opened again after its  *)
(* model was disposed is another document.                                 *)
(***************************************************************************)
EXTENDS Naturals, FiniteSets

CONSTANTS
    Docs,       \* models of files
    Groups,     \* editor groups
    Panes,      \* tabs, each opened and closed once
    Calls,      \* calls of closeEditors under way
    None,       \* no tab, no group
    Exit,       \* requestShutdown, as the one who asks
    Beside,     \* whether a group shows a document twice, in a tab and a diff or in two diffs
    Overlap,    \* whether a request comes while another one asks or saves
    LateEdits,  \* whether edits come between a question and what follows it
    MaxVersion  \* bound: edits of a document

ASSUME EditorClosingAssumption ==
    /\ None \notin Panes \cup Groups \cup Calls \cup {Exit} /\ Exit \notin Panes
    /\ {Beside, Overlap, LateEdits} \subseteq BOOLEAN
    /\ MaxVersion \in Nat /\ None \notin 0..MaxVersion

VARIABLES
    version, saved, \* each document's text, and the text its file has
    held,       \* fileModelsWithoutEditor: documents that extensions hold
    where,      \* the group of each open tab, or None
    shows,      \* the documents of a tab: one, or the sides of a diff
    diff,       \* the tabs that are diffs
    active, preview, \* each group's active and preview tab, or None
    group, rest, deferred, asks, pc, \* each call: what is left to close
    turn,       \* the call whose loop runs, or None
    stage, targets, \* pending: the question about a tab, and what it names
    dialog,     \* whose question the dialog shows
    writing,    \* saves that a question or the shutdown awaits
    exitStage, items, asked, \* requestShutdown and its IShutdownDirtyItems
    declined    \* ghost: the text the user refused to save

texts  == <<version, saved>>
strips == <<where, shows, diff, active, preview>>
series == <<group, rest, deferred, asks, pc>>
asking == <<stage, targets, dialog>>
exit   == <<exitStage, items, asked>>
vars   == <<texts, held, strips, series, turn, asking, writing, exit, declined>>

Versions == 0..MaxVersion
Item == [doc : Docs, inTab : BOOLEAN]

\* Shape of the state: the active and the preview tab are tabs of their group.
TypeOK ==
    /\ version \in [Docs -> Versions] /\ saved \in [Docs -> Versions]
    /\ held \subseteq Docs
    /\ where \in [Panes -> Groups \cup {None}]
    /\ shows \in [Panes -> SUBSET Docs] /\ diff \subseteq Panes
    /\ active \in [Groups -> Panes \cup {None}] /\ preview \in [Groups -> Panes \cup {None}]
    /\ \A g \in Groups : \A p \in {active[g], preview[g]} \ {None} : where[p] = g
    /\ group \in [Calls -> Groups \cup {None}]
    /\ rest \in [Calls -> SUBSET Panes]
    /\ deferred \in [Calls -> Panes \cup {None}] /\ asks \in [Calls -> Panes \cup {None}]
    /\ pc \in [Calls -> {"idle", "loop", "asks", "go", "veto"}]
    /\ turn \in Calls \cup {None}
    /\ stage \in [Panes -> {"none", "asking", "saving"}]
    /\ targets \in [Panes -> SUBSET Docs]
    /\ dialog \in Panes \cup {Exit, None}
    /\ writing \subseteq [by : Panes \cup {Exit}, doc : Docs, version : Versions]
    /\ exitStage \in {"no", "asking", "saving", "closing", "gone"}
    /\ items \subseteq Item /\ asked \in Item \cup {None}
    /\ declined \in [Docs -> Versions \cup {None}]

-----------------------------------------------------------------------------
(* Tabs and the models they refer to *)

isModified(d) == version[d] # saved[d]

\* surfaces(): tabs and diff sides of all groups.
holdersOf(d) == {p \in Panes : where[p] # None /\ d \in shows[p]}

\* A model lives while a tab, a side or an extension refers to it.
Opened(d) == d \in held \/ \E p \in Panes : d \in shows[p]
Live(d)   == d \in held \/ holdersOf(d) # {}

\* Callbacks of the event loop may run: no call is in its loop or about to go on.
Settled == turn = None /\ exitStage # "gone" /\ \A c \in Calls : pc[c] \in {"idle", "asks"}

\* No request asks or saves.
Quiet == /\ \A c \in Calls : pc[c] = "idle"
         /\ \A p \in Panes : stage[p] = "none"
         /\ exitStage = "no"

\* Which document may change now.
MayEdit(d) ==
    \/ LateEdits
    \/ writing = {} /\ exitStage = "no" /\ \A p \in Panes : stage[p] # "none" => d \in targets[p]

edit(d) ==
    /\ Live(d) /\ MayEdit(d) /\ version[d] < MaxVersion
    /\ version' = [version EXCEPT ![d] = @ + 1]
    /\ preview' = [g \in Groups |->  \* pinOnFirstEdit
                      IF preview[g] # None /\ d \in shows[preview[g]] THEN None ELSE preview[g]]
    /\ UNCHANGED <<saved, held, where, shows, diff, active, series, turn, asking, writing, exit, declined>>

\* A save of the user or of an extension.
save(d) ==
    /\ Live(d) /\ isModified(d)
    /\ saved' = [saved EXCEPT ![d] = version[d]]
    /\ UNCHANGED <<version, held, strips, series, turn, asking, writing, exit, declined>>

holdFileModel(d) ==
    /\ d \notin held /\ (Live(d) \/ ~Opened(d))
    /\ held' = held \cup {d}
    /\ UNCHANGED <<texts, strips, series, turn, asking, writing, exit, declined>>

\* By age, or by the limits when another model is taken (evict). A dirty model is
\* never let go.
expire(d) ==
    /\ d \in held /\ ~isModified(d)
    /\ held' = held \ {d}
    /\ UNCHANGED <<texts, strips, series, turn, asking, writing, exit, declined>>

fresh == CHOOSE p \in Panes : shows[p] = {}

\* previewIndexToReplace.
replaced(g) == {p \in {preview[g]} \ {None} : \A d \in shows[p] : ~isModified(d)}

\* openInResolvedGroup: the tab of the group is shown, or a new one is opened,
\* which as a preview takes the place of the last preview.
openUri(d, g, asPreview) ==
    /\ Live(d) \/ ~Opened(d)
    /\ \/ \E p \in Panes \ diff :
              /\ where[p] = g /\ d \in shows[p]
              /\ active' = [active EXCEPT ![g] = p]
              /\ preview' = [preview EXCEPT ![g] = IF @ = p /\ ~asPreview THEN None ELSE @]
              /\ UNCHANGED <<where, shows>>
       \/ /\ \A p \in Panes : where[p] = g /\ d \in shows[p] => Beside /\ p \in diff
          /\ \E p \in Panes : shows[p] = {}
          /\ shows' = [shows EXCEPT ![fresh] = {d}]
          /\ where' = [p \in Panes |->
                          IF p = fresh THEN g
                          ELSE IF asPreview /\ p \in replaced(g) THEN None ELSE where[p]]
          /\ active' = [active EXCEPT ![g] = fresh]
          /\ preview' = [preview EXCEPT ![g] =
                            IF ~asPreview THEN @
                            ELSE IF ~isModified(d) THEN fresh ELSE None]
    /\ UNCHANGED <<texts, held, diff, series, turn, asking, writing, exit, declined>>

\* openDiffPair with sides that are files.
openDiff(D, g) ==
    /\ D # {} /\ \A d \in D : Live(d) \/ ~Opened(d)
    /\ \A p \in Panes : where[p] = g /\ shows[p] \cap D # {} =>
           Beside /\ (p \in diff => shows[p] # D)
    /\ \E p \in Panes : shows[p] = {}
    /\ shows' = [shows EXCEPT ![fresh] = D]
    /\ diff' = diff \cup {fresh}
    /\ where' = [where EXCEPT ![fresh] = g]
    /\ active' = [active EXCEPT ![g] = fresh]
    /\ UNCHANGED <<texts, held, preview, series, turn, asking, writing, exit, declined>>

-----------------------------------------------------------------------------
(* A series of tabs to close *)

AtMostOne(S) == \A x, y \in S : x = y

\* What only tab p holds, once another tab is closed: dirtyExclusiveDiffSides
\* and isLastPaneForDocument.
exclusive(p, closed) ==
    {d \in shows[p] : isModified(d) /\ AtMostOne(holdersOf(d) \ {closed})}

needsCloseConfirm(p) == exclusive(p, None) # {}

\* Who follows tab p of group g as the active one.
follows(p, g) ==
    IF active[g] # p THEN {active[g]}
    ELSE LET left == {q \in Panes : where[q] = g} \ {p}
         IN  IF left = {} THEN {None} ELSE left

\* Mutants: a position that is not found is taken for the active one; a
\* preview that closes is not forgotten.
SomeTab(p, g) ==
    LET closed == IF p # None /\ where[p] # g THEN active[g] ELSE p
    IN  /\ where' = [q \in Panes |-> IF q = closed /\ where[q] = g THEN None ELSE where[q]]
        /\ preview' = [preview EXCEPT ![g] = IF @ = closed THEN None ELSE @]
NotForgotten(p, g) ==
    /\ where' = [q \in Panes |-> IF q = p /\ where[q] = g THEN None ELSE where[q]]
    /\ UNCHANGED preview

\* closeTab of the position of p in g; one that is not there is skipped.
closeTab(p, g) ==
    /\ where' = [q \in Panes |-> IF q = p /\ where[q] = g THEN None ELSE where[q]]
    /\ preview' = [preview EXCEPT ![g] = IF @ = p THEN None ELSE @]

\* confirmAndClose up to its loop. The tabs are those of the group now.
closeEditors(g, S) ==
    /\ S # {} /\ \A p \in S : where[p] = g
    /\ \/ Overlap \/ Quiet
       \/ exitStage = "no" /\ \E p \in S : S = {p} /\ stage[p] # "none"
    /\ \E c \in Calls :
          /\ pc[c] = "idle"
          /\ group' = [group EXCEPT ![c] = g]
          /\ rest' = [rest EXCEPT ![c] = S]
          /\ pc' = [pc EXCEPT ![c] = "loop"]
          /\ turn' = c
    /\ UNCHANGED <<texts, held, strips, deferred, asks, asking, writing, exit, declined>>

\* The active tab waits, the others close.
closeOrDefer(c, p) ==
    LET g == group[c] IN
    /\ IF p = active[g]
         THEN /\ deferred' = [deferred EXCEPT ![c] = p]
              /\ UNCHANGED <<where, active, preview>>
         ELSE /\ closeTab(p, g)
              /\ UNCHANGED <<active, deferred>>
    /\ rest' = [rest EXCEPT ![c] = @ \ {p}]

\* A tab that needs no question.
TakeClean(c) ==
    /\ turn = c
    /\ \E p \in rest[c] : ~needsCloseConfirm(p) /\ closeOrDefer(c, p)
    /\ UNCHANGED <<texts, held, shows, diff, group, asks, pc, turn, asking, writing, exit, declined>>

\* confirm: a question about the tab that is open already is joined.
isNew(p) == stage[p] = "none"

\* doConfirm up to its await, after the deferred tab closed: the tab is shown,
\* the dialog asks, whatever it asked before.
TakeDirty(c) ==
    LET g == group[c] IN
    /\ turn = c /\ turn' = None
    /\ \E p \in rest[c] :
          /\ needsCloseConfirm(p)
          /\ closeTab(deferred[c], g)
          /\ asks' = [asks EXCEPT ![c] = p]
          /\ \E next \in follows(deferred[c], g) :
                active' = [active EXCEPT ![g] = IF isNew(p) /\ where[p] = g THEN p ELSE next]
          /\ IF isNew(p)
               THEN /\ stage' = [stage EXCEPT ![p] = "asking"]
                    /\ targets' = [targets EXCEPT ![p] = exclusive(p, deferred[c])]
                    /\ dialog' = p
               ELSE UNCHANGED asking
    /\ deferred' = [deferred EXCEPT ![c] = None]
    /\ pc' = [pc EXCEPT ![c] = "asks"]
    /\ UNCHANGED <<texts, held, shows, diff, group, rest, writing, exit, declined>>

ended(c) ==
    /\ rest' = [rest EXCEPT ![c] = {}]
    /\ deferred' = [deferred EXCEPT ![c] = None]
    /\ asks' = [asks EXCEPT ![c] = None]
    /\ group' = [group EXCEPT ![c] = None]
    /\ pc' = [pc EXCEPT ![c] = "idle"]

\* The end of the loop: the deferred tab is the last to close.
LoopEnds(c) ==
    LET g == group[c] IN
    /\ turn = c /\ turn' = None
    /\ rest[c] = {}
    /\ closeTab(deferred[c], g)
    /\ \E next \in follows(deferred[c], g) : active' = [active EXCEPT ![g] = next]
    /\ ended(c)
    /\ UNCHANGED <<texts, held, shows, diff, asking, writing, exit, declined>>

\* The await of confirm ends: go on with the tab, or give up.
Confirmed(c) ==
    /\ turn = None /\ pc[c] = "go"
    /\ turn' = c
    /\ pc' = [pc EXCEPT ![c] = "loop"]
    /\ closeOrDefer(c, asks[c])
    /\ asks' = [asks EXCEPT ![c] = None]
    /\ UNCHANGED <<texts, held, shows, diff, group, asking, writing, exit, declined>>

Vetoed(c) ==
    /\ turn = None /\ pc[c] = "veto"
    /\ ended(c)
    /\ UNCHANGED <<texts, held, strips, turn, asking, writing, exit, declined>>

-----------------------------------------------------------------------------
(* The question about a tab *)

\* Mutant: only one of those who wait for an answer gets it.
OneWakes(p, verdict) ==
    pc' = [c \in Calls |->
             IF c = (CHOOSE x \in Calls : pc[x] = "asks" /\ asks[x] = p) THEN verdict ELSE pc[c]]

awake(p, verdict) ==
    pc' = [c \in Calls |-> IF pc[c] = "asks" /\ asks[c] = p THEN verdict ELSE pc[c]]

\* The promise of confirm settles: all who await it go on.
settle(p, verdict) ==
    /\ stage' = [stage EXCEPT ![p] = "none"]
    /\ targets' = [targets EXCEPT ![p] = {}]
    /\ awake(p, verdict)

\* target.save, one target after the other.
saveTarget(p, left) ==
    \E d \in left :
        /\ stage' = [stage EXCEPT ![p] = "saving"]
        /\ targets' = [targets EXCEPT ![p] = left \ {d}]
        /\ writing' = {w \in writing : w.by # p} \cup {[by |-> p, doc |-> d, version |-> version[d]]}
        /\ UNCHANGED pc

Cancel(p) ==
    /\ dialog = p /\ dialog' = None
    /\ settle(p, "veto")
    /\ UNCHANGED <<texts, held, strips, group, rest, deferred, asks, turn, writing, exit, declined>>

\* Mutant: what an extension holds it goes on holding.
KeepHeld(p) == UNCHANGED held

\* didDiscard.
releaseFileModelWithoutEditor(p) == held' = held \ targets[p]

DontSave(p) ==
    /\ dialog = p /\ dialog' = None
    /\ releaseFileModelWithoutEditor(p)
    /\ settle(p, "go")
    /\ declined' = [d \in Docs |-> IF d \in targets[p] THEN version[d] ELSE declined[d]]
    /\ UNCHANGED <<texts, strips, group, rest, deferred, asks, turn, writing, exit>>

Save(p) ==
    /\ dialog = p /\ dialog' = None
    /\ saveTarget(p, targets[p])
    /\ UNCHANGED <<texts, held, strips, group, rest, deferred, asks, turn, exit, declined>>

\* A save ends. One that did not save is a veto.
Saved(p) ==
    /\ \E w \in writing :
          /\ w.by = p
          /\ \/ /\ saved' = [saved EXCEPT ![w.doc] = w.version]
                /\ IF targets[p] = {}
                     THEN settle(p, "go") /\ writing' = writing \ {w}
                     ELSE saveTarget(p, targets[p])
             \/ /\ settle(p, "veto")
                /\ writing' = writing \ {w}
                /\ UNCHANGED saved
    /\ UNCHANGED <<version, held, strips, group, rest, deferred, asks, turn, dialog, exit, declined>>

-----------------------------------------------------------------------------
(* Shutdown *)

\* Mutant: only tabs are looked at.
TabsOnly == {[doc |-> d, inTab |-> TRUE] : d \in {x \in Docs : isModified(x) /\ holdersOf(x) # {}}}

collectDirty ==
    {[doc |-> d, inTab |-> holdersOf(d) # {}] : d \in {x \in Docs : isModified(x) /\ Live(x)}}

isStillDirty(i) == IF i.inTab THEN holdersOf(i.doc) # {} ELSE isModified(i.doc)

\* requestShutdown from one item to the next question; after the last one the
\* window closes.
nextItem(left) ==
    \/ \E i \in left : \E skipped \in SUBSET {j \in left : ~isStillDirty(j)} :
          /\ isStillDirty(i)
          /\ items' = left \ ({i} \cup skipped)
          /\ asked' = i /\ exitStage' = "asking" /\ dialog' = Exit
    \/ /\ \A i \in left : ~isStillDirty(i)
       /\ items' = {} /\ asked' = None /\ exitStage' = "closing"
       /\ dialog' = IF dialog = Exit THEN None ELSE dialog

\* A request whose question the dialog does not show any more never goes on.
requestShutdown ==
    /\ exitStage = "no" \/ (exitStage = "asking" /\ dialog # Exit)
    /\ Overlap \/ Quiet
    /\ nextItem(collectDirty)
    /\ UNCHANGED <<texts, held, strips, series, turn, stage, targets, writing, declined>>

\* Cancel, or a save that did not save: the window stays.
aborted ==
    /\ items' = {} /\ asked' = None /\ exitStage' = "no"
    /\ declined' = [d \in Docs |-> IF Live(d) THEN None ELSE declined[d]]

CancelExit ==
    /\ dialog = Exit /\ dialog' = None
    /\ aborted
    /\ UNCHANGED <<texts, held, strips, series, turn, stage, targets, writing>>

DontSaveExit ==
    /\ dialog = Exit
    /\ declined' = [declined EXCEPT ![asked.doc] = version[asked.doc]]
    /\ nextItem(items)
    /\ UNCHANGED <<texts, held, strips, series, turn, stage, targets, writing>>

SaveExit ==
    /\ dialog = Exit /\ dialog' = None
    /\ exitStage' = "saving"
    /\ writing' = writing \cup {[by |-> Exit, doc |-> asked.doc, version |-> version[asked.doc]]}
    /\ UNCHANGED <<texts, held, strips, series, turn, stage, targets, items, asked, declined>>

SavedExit ==
    /\ \E w \in writing :
          /\ w.by = Exit
          /\ writing' = writing \ {w}
          /\ \/ /\ saved' = [saved EXCEPT ![w.doc] = w.version]
                /\ nextItem(items)
                /\ UNCHANGED declined
             \/ aborted /\ UNCHANGED <<saved, dialog>>
    /\ UNCHANGED <<version, held, strips, series, turn, stage, targets>>

\* shutdown: the joins ended or timed out.
WindowEnds ==
    /\ exitStage = "closing" /\ exitStage' = "gone"
    /\ UNCHANGED <<texts, held, strips, series, turn, asking, writing, items, asked, declined>>

-----------------------------------------------------------------------------
(* The specification *)

Init ==
    /\ version = [d \in Docs |-> 0] /\ saved = [d \in Docs |-> 0]
    /\ held = {}
    /\ where = [p \in Panes |-> None] /\ shows = [p \in Panes |-> {}] /\ diff = {}
    /\ active = [g \in Groups |-> None] /\ preview = [g \in Groups |-> None]
    /\ group = [c \in Calls |-> None] /\ rest = [c \in Calls |-> {}]
    /\ deferred = [c \in Calls |-> None] /\ asks = [c \in Calls |-> None]
    /\ pc = [c \in Calls |-> "idle"] /\ turn = None
    /\ stage = [p \in Panes |-> "none"] /\ targets = [p \in Panes |-> {}]
    /\ dialog = None /\ writing = {}
    /\ exitStage = "no" /\ items = {} /\ asked = None
    /\ declined = [d \in Docs |-> None]

\* What goes on by itself.
Continuation ==
    \E c \in Calls : TakeClean(c) \/ TakeDirty(c) \/ LoopEnds(c) \/ Confirmed(c) \/ Vetoed(c)

Document ==
    \E d \in Docs :
        edit(d) \/ save(d) \/ holdFileModel(d) \/ expire(d)

Request ==
    \/ \E d \in Docs, g \in Groups, asPreview \in BOOLEAN : openUri(d, g, asPreview)
    \/ \E D \in SUBSET Docs, g \in Groups : openDiff(D, g)
    \/ \E g \in Groups, S \in SUBSET Panes : closeEditors(g, S)
    \/ requestShutdown

Answer ==
    \/ \E p \in Panes : Cancel(p) \/ DontSave(p) \/ Save(p)
    \/ CancelExit \/ DontSaveExit \/ SaveExit

SaveEnds == (\E p \in Panes : Saved(p)) \/ SavedExit

Next ==
    \/ Continuation
    \/ Settled /\ (Document \/ Request \/ Answer \/ SaveEnds \/ WindowEnds)

\* The event loop runs continuations, and every save ends. Nobody has to answer.
Fairness == WF_vars(Continuation) /\ WF_vars(Settled /\ SaveEnds)

Spec == Init /\ [][Next]_vars /\ Fairness

-----------------------------------------------------------------------------
(* Properties *)

\* Edits are given up only where the user refused to save that very text:
\* neither the last tab of a document nor the window takes others with it
\* (needsCloseConfirm, collectDirty, expire).
NothingLostUnasked ==
    \A d \in Docs :
        isModified(d) /\ ((Opened(d) /\ ~Live(d)) \/ exitStage = "gone")
            => declined[d] = version[d]

\* A tab that closes is one that a request named and still has to close, or a
\* clean preview that gives its place, however the strip changed meanwhile
\* (close in confirmAndClose).
Named(p) ==
    \/ \E c \in Calls : p \in rest[c] \cup {deferred[c], asks[c]}
    \/ p = preview[where[p]] /\ \A d \in shows[p] : ~isModified(d)
OnlyNamedClose ==
    [][\A p \in Panes : where[p] # None /\ where'[p] = None => Named(p)]_vars

\* Whoever awaits an answer gets one: a call that waits has joined a question
\* that is open or being saved for, and the dialog shows every question that is
\* asked (pending, confirmSave).
QuestionsStand ==
    /\ \A c \in Calls : pc[c] = "asks" => stage[asks[c]] # "none"
    /\ \A p \in Panes : stage[p] = "asking" <=> dialog = p
    /\ exitStage = "asking" <=> dialog = Exit

\* Edits the user refused do not go on in a model that only an extension holds
\* (didDiscard).
RefusedEditsEnd ==
    Settled /\ exitStage = "no" =>
        \A d \in held : isModified(d) /\ holdersOf(d) = {} => declined[d] # version[d]
=============================================================================

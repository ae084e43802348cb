------------------------------- MODULE UndoRedo -------------------------------
(***************************************************************************)
(* UndoRedoService (undoRedoService.ts): one bucket of undo and redo steps *)
(* per editor and one for operations of the workspace. A step of several   *)
(* documents sits in the buckets of all its participants and is undone as  *)
(* a whole. Undo may have to ask the disk and then finds the buckets       *)
(* changed: by other undos, new steps, closed and reloaded buffers.        *)
(***************************************************************************)
EXTENDS Naturals, Sequences, FiniteSets

CONSTANTS
    Contexts,   \* the buckets: a key per editor, never used twice
    Workspace,  \* WORKSPACE_UNDO_CONTEXT, which no editor closes
    Requests,   \* undos and redos that may wait for the disk at a time
    MaxSteps    \* bound: steps pushed per behaviour

ASSUME UndoRedoAssumption ==
    /\ Workspace \in Contexts
    /\ MaxSteps \in Nat

VARIABLES
    bucket,       \* Contexts -> "fresh", "live" or "closed"
    undo,         \* undoStacks: Contexts -> steps, the top last
    redo,         \* redoStacks
    pushed,       \* how many steps were pushed; a step is its push order
    workspace,    \* workspaceElements: the steps with participants
    participants, \* Steps -> the contexts of its buckets
    owners,       \* Steps -> the participants that edit their buffer
    broken,       \* Steps -> whether a bucket with its own edit was lost
    request       \* Requests -> the undo or redo that waits for an answer

stackVars == <<undo, redo>>
stepVars  == <<pushed, workspace, participants, owners, broken>>
vars      == <<bucket, stackVars, stepVars, request>>

Steps == 1..MaxSteps

IdleRequest == [kind |-> "none", context |-> Workspace, step |-> 0]

TypeOK ==
    /\ bucket \in [Contexts -> {"fresh", "live", "closed"}]
    /\ undo \in [Contexts -> Seq(Steps)] /\ redo \in [Contexts -> Seq(Steps)]
    /\ \A c \in Contexts : bucket[c] # "live" => undo[c] = <<>> /\ redo[c] = <<>>
    /\ pushed \in 0..MaxSteps
    /\ workspace \subseteq 1..pushed
    /\ participants \in [Steps -> SUBSET Contexts]
    /\ owners \in [Steps -> SUBSET Contexts] /\ broken \in [Steps -> BOOLEAN]
    /\ request \in [Requests -> [kind : {"none", "undo", "redo"}, context : Contexts,
                                 step : 0..MaxSteps]]

Live == {c \in Contexts : bucket[c] = "live"}

In(e, stack) == \E i \in 1..Len(stack) : stack[i] = e
InUndo(e) == \E c \in Contexts : In(e, undo[c])
InRedo(e) == \E c \in Contexts : In(e, redo[c])
IsTop(e, stack) == stack # <<>> /\ stack[Len(stack)] = e
Pop(stack) == SubSeq(stack, 1, Len(stack) - 1)

\* The numbers of a set in rising order.
InOrder(S) ==
    [n \in 1..Cardinality(S) |-> CHOOSE i \in S : Cardinality({j \in S : j <= i}) = n]

-----------------------------------------------------------------------------
(* Dropping steps *)

\* Mutant: a step leaves only the redo of the bucket that drops it.
DroppedHere(dropped, stack, c) == stack

\* dropFromRedo: a step leaves the redo of all its participants at once.
DroppedElsewhere(dropped, stack, c) ==
    LET kept == InOrder({i \in 1..Len(stack) :
                            ~(stack[i] \in dropped /\ c \in participants[stack[i]])})
    IN  [n \in 1..Len(kept) |-> stack[kept[n]]]

\* truncateRedo of each of these contexts.
TruncatedRedo(contexts) ==
    LET dropped == {e \in workspace : \E c \in contexts : In(e, redo[c])} IN
    [c \in Contexts |->
        IF c \in contexts THEN <<>> ELSE DroppedElsewhere(dropped, redo[c], c)]

-----------------------------------------------------------------------------
(* New steps *)

\* pushElement of a plain step.
PushPlain(c) ==
    /\ pushed < MaxSteps /\ c \in Live
    /\ pushed' = pushed + 1
    /\ undo' = [undo EXCEPT ![c] = Append(@, pushed + 1)]
    /\ redo' = TruncatedRedo({c})
    /\ UNCHANGED <<bucket, workspace, participants, owners, broken, request>>

\* pushWorkspaceElement: it edits the buffers of own and names those of all.
PushWorkspace(all, own) ==
    LET e == pushed + 1 IN
    /\ pushed < MaxSteps /\ all \subseteq Live /\ all \ {Workspace} # {}
    /\ pushed' = e
    /\ workspace' = workspace \cup {e}
    /\ participants' = [participants EXCEPT ![e] = all]
    /\ owners' = [owners EXCEPT ![e] = own]
    /\ undo' = [c \in Contexts |-> IF c \in all THEN Append(undo[c], e) ELSE undo[c]]
    /\ redo' = TruncatedRedo(all)
    /\ UNCHANGED <<bucket, broken, request>>

\* adopt: a file is opened; of the sound steps that can be undone, those with
\* the file among their resources enter its bucket in push order.
Adoptable(c) == {e \in workspace : InUndo(e) /\ ~broken[e] /\ c \notin participants[e]}

\* Mutant: in the order the buckets are walked, the newest first.
NewestFirst(S) == [n \in 1..Cardinality(S) |-> InOrder(S)[Cardinality(S) + 1 - n]]

PushOrder(S) == InOrder(S)

\* Mutant: the bucket takes the step without becoming its participant.
NotJoined(adopted, c) == participants

Joined(adopted, c) ==
    [e \in Steps |-> IF e \in adopted THEN participants[e] \cup {c} ELSE participants[e]]

Adopt(c, adopted) ==
    /\ bucket[c] = "fresh"
    /\ bucket' = [bucket EXCEPT ![c] = "live"]
    /\ participants' = Joined(adopted, c)
    /\ undo' = [undo EXCEPT ![c] = PushOrder(adopted)]
    /\ UNCHANGED <<redo, pushed, workspace, owners, broken, request>>

-----------------------------------------------------------------------------
(* Lost buckets *)

\* Mutant: the steps stay where they are.
Kept(stacks, c) == stacks

Emptied(stacks, c) == [stacks EXCEPT ![c] = <<>>]

\* Mutant: the steps of the redo keep the bucket as a participant.
LeavesUndo(e, c) == In(e, undo[c])

Leaves(e, c) == In(e, undo[c]) \/ In(e, redo[c])

\* clear, with leave of each step: one that edits this buffer is broken in
\* undo, and gone from everyone's redo.
Clear(c) ==
    LET dropped == {e \in workspace : In(e, redo[c]) /\ c \in owners[e]} IN
    /\ participants' = [e \in Steps |->
           IF e \in workspace /\ Leaves(e, c) THEN participants[e] \ {c} ELSE participants[e]]
    /\ broken' = [e \in Steps |->
           broken[e] \/ (e \in workspace /\ In(e, undo[c]) /\ c \in owners[e])]
    /\ undo' = Emptied(undo, c)
    /\ redo' = [x \in Contexts |->
           IF x = c THEN <<>> ELSE DroppedElsewhere(dropped, redo[x], x)]
    /\ UNCHANGED <<pushed, workspace, owners, request>>

\* The text is replaced from disk (reason "replaced")...
Replaced(c) == c \in Live \ {Workspace} /\ Clear(c) /\ UNCHANGED bucket

\* ...or the editor is gone (reason "closed").
Closed(c) ==
    /\ c \in Live \ {Workspace} /\ Clear(c)
    /\ bucket' = [bucket EXCEPT ![c] = "closed"]

-----------------------------------------------------------------------------
(* Undo and redo *)

contextsOf(e, c) == IF e \in workspace THEN participants[e] ELSE {c}

\* Mutant: only the bucket of the request is looked at.
IsTopHere(e, c, stacks) == IsTop(e, stacks[c])

isTopEverywhere(e, c, stacks) == \A x \in contextsOf(e, c) : IsTop(e, stacks[x])

\* move: the step is popped from all its buckets and pushed on the other side.
Popped(e, c, stacks) ==
    [x \in Contexts |-> IF x \in contextsOf(e, c) THEN Pop(stacks[x]) ELSE stacks[x]]
MovedTo(e, c, stacks) ==
    [x \in Contexts |-> IF x \in contextsOf(e, c) THEN Append(stacks[x], e) ELSE stacks[x]]

move(e, c, kind) ==
    IF kind = "undo"
      THEN undo' = Popped(e, c, undo) /\ redo' = MovedTo(e, c, redo)
      ELSE redo' = Popped(e, c, redo) /\ undo' = MovedTo(e, c, undo)

Stacks(kind) == IF kind = "undo" THEN undo ELSE redo

\* checkWorkspaceElement of a broken step: its buckets lose their history.
DropBroken(c, kind) ==
    \E e \in workspace :
        /\ IsTop(e, Stacks(kind)[c]) /\ broken[e]
        /\ undo' = [x \in Contexts |-> IF x \in participants[e] THEN <<>> ELSE undo[x]]
        /\ redo' = TruncatedRedo(participants[e])
        /\ UNCHANGED <<bucket, stepVars, request>>

\* checkWorkspaceElement lets the top step of the bucket pass. (When it is not
\* on top elsewhere, or the step itself refuses, nothing changes.)
Passes(e, c, kind) ==
    /\ e \in Steps /\ IsTop(e, Stacks(kind)[c])
    /\ e \in workspace => ~broken[e] /\ isTopEverywhere(e, c, Stacks(kind))

\* canUndo or canRedo answers at once.
Move(c, kind) ==
    \E e \in Steps :
        /\ Passes(e, c, kind)
        /\ move(e, c, kind)
        /\ UNCHANGED <<bucket, stepVars, request>>

\* It asks the disk: only operations on files do, never the edit of a buffer...
Ask(q, c, kind) ==
    \E e \in Steps :
        /\ request[q].kind = "none"
        /\ e \in workspace \/ c = Workspace
        /\ Passes(e, c, kind)
        /\ request' = [request EXCEPT ![q] = [kind |-> kind, context |-> c, step |-> e]]
        /\ UNCHANGED <<bucket, stackVars, stepVars>>

\* ...and moves the step if the answer is yes and it is still on top.
Answer(q, yes) ==
    LET kind == request[q].kind
        c    == request[q].context
        e    == request[q].step
    IN  /\ kind # "none"
        /\ request' = [request EXCEPT ![q] = IdleRequest]
        /\ IF yes /\ isTopEverywhere(e, c, Stacks(kind))
             THEN move(e, c, kind)
             ELSE UNCHANGED stackVars
        /\ UNCHANGED <<bucket, stepVars>>

-----------------------------------------------------------------------------
(* The specification *)

Init ==
    /\ bucket \in [Contexts -> {"fresh", "live"}] /\ bucket[Workspace] = "live"
    /\ undo = [c \in Contexts |-> <<>>] /\ redo = undo
    /\ pushed = 0 /\ workspace = {}
    /\ participants = [e \in Steps |-> {}] /\ owners = participants
    /\ broken = [e \in Steps |-> FALSE]
    /\ request = [q \in Requests |-> IdleRequest]

Next ==
    \/ \E c \in Contexts : PushPlain(c) \/ Replaced(c) \/ Closed(c)
    \/ \E c \in Contexts : \E adopted \in SUBSET Adoptable(c) : Adopt(c, adopted)
    \/ \E all \in SUBSET Live : \E own \in SUBSET (all \ {Workspace}) : PushWorkspace(all, own)
    \/ \E c \in Live, kind \in {"undo", "redo"} :
           DropBroken(c, kind) \/ Move(c, kind) \/ \E q \in Requests : Ask(q, c, kind)
    \/ \E q \in Requests, yes \in BOOLEAN : Answer(q, yes)

Spec == Init /\ [][Next]_vars

-----------------------------------------------------------------------------
(* Properties *)

\* A step sits in a bucket only while the bucket is its participant: the
\* assertion of leave (undoRedoService.ts:178).
OnlyParticipantsHoldSteps ==
    \A c \in Contexts : \A e \in workspace :
        In(e, undo[c]) \/ In(e, redo[c]) => c \in participants[e]

\* A step in one redo is in the redo of every participant: the assertion of
\* dropFromRedo (undoRedoService.ts:203-207), without which a splice removes
\* another step.
RedoneEverywhere ==
    \A e \in workspace : InRedo(e) => \A c \in participants[e] : In(e, redo[c])

\* A step waits to be undone or to be redone, never both, whichever bucket the
\* user asks from and however the answers of the disk are interleaved.
UndoneOrRedone == \A e \in Steps : ~(InUndo(e) /\ InRedo(e))

\* Each bucket undoes in reverse push order and redoes in push order, after
\* any mix of waiting undos, adoptions, lost and dropped steps.
PushOrderKept ==
    \A c \in Contexts :
        /\ \A i, j \in 1..Len(undo[c]) : i < j => undo[c][i] < undo[c][j]
        /\ \A i, j \in 1..Len(redo[c]) : i < j => redo[c][i] > redo[c][j]

\* A step that lost one of its own edits is not undone any more: "the next undo
\* drops it" (undoRedoService.ts:159).
BrokenIsNotUndone ==
    [][\A e \in workspace : InUndo(e) /\ InRedo(e)' => ~broken[e]]_vars
=============================================================================

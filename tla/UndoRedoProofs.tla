---------------------------- MODULE UndoRedoProofs ----------------------------
(***************************************************************************)
(* Theorems of UndoRedo for any editors, number of steps and of requests   *)
(* that wait for the disk: whatever the order of pushes, adoptions, lost   *)
(* buckets and late answers, a step is in the buckets of its participants  *)
(* only, waits on one side, and each bucket keeps the push order.          *)
(***************************************************************************)
EXTENDS UndoRedo, SequenceTheorems, FiniteSetTheorems, TLAPS

-----------------------------------------------------------------------------
(* Stacks *)

\* InOrder lists a finite set of numbers, each once, rising: the rank of a
\* member in the set is its position.
LEMMA InOrderFacts ==
    ASSUME NEW N \in Nat, NEW S \in SUBSET (1..N)
    PROVE  /\ Cardinality(S) \in Nat
           /\ InOrder(S) \in [1..Cardinality(S) -> S]
           /\ \A i \in S : \E n \in 1..Cardinality(S) : InOrder(S)[n] = i
           /\ \A m, n \in 1..Cardinality(S) : m < n => InOrder(S)[m] < InOrder(S)[n]
<1> DEFINE Below(i) == {j \in S : j <= i}
           rank(i) == Cardinality(Below(i))
           card == Cardinality(S)
           ranks == [i \in S |-> rank(i)]
<1>0. \A i \in S : i \in Int
  OBVIOUS
<1>1. IsFiniteSet(S) /\ card \in Nat
  <2>1. IsFiniteSet(1..N)
    BY FS_Interval
  <2>2. IsFiniteSet(S)
    BY <2>1, FS_Subset
  <2> QED BY <2>2, FS_CardinalityType
<1>2. \A i \in S : IsFiniteSet(Below(i)) /\ rank(i) \in Nat
  BY <1>1, FS_Subset, FS_CardinalityType
<1>3. \A i \in S : rank(i) \in 1..card
  <2> SUFFICES ASSUME NEW i \in S PROVE rank(i) \in 1..card
    OBVIOUS
  <2>1. rank(i) <= card
    BY <1>1, FS_Subset
  <2>2. i \in Below(i)
    OBVIOUS
  <2>3. rank(i) # 0
    BY <1>2, <2>2, FS_EmptySet
  <2> QED BY <1>1, <1>2, <2>1, <2>3
<1>4. \A i, j \in S : i < j => rank(i) < rank(j)
  <2> SUFFICES ASSUME NEW i \in S, NEW j \in S, i < j PROVE rank(i) < rank(j)
    OBVIOUS
  <2>0. i \in Int /\ j \in Int /\ \A k \in S : k \in Int /\ (k <= i => k <= j)
    BY <1>0
  <2>1. Below(i) \subseteq Below(j)
    BY <2>0
  <2>3. j \in Below(j) /\ j \notin Below(i)
    BY <2>0
  <2>2. rank(i) <= rank(j) /\ rank(i) # rank(j)
    BY <1>2, <2>1, <2>3, FS_Subset
  <2> QED BY <1>2, <2>2
<1>5. ranks \in Injection(S, 1..card)
  <2>1. \A i, j \in S : i # j => ranks[i] # ranks[j]
    BY <1>0, <1>3, <1>4
  <2>2. ranks \in [S -> 1..card]
    BY <1>3
  <2> HIDE DEF ranks
  <2> QED BY <2>1, <2>2 DEF Injection, IsInjective
<1>6. ranks \in Surjection(S, 1..card)
  <2>1. IsFiniteSet(1..card) /\ Cardinality(1..card) = card
    BY <1>1, FS_Interval
  <2> HIDE DEF ranks
  <2> QED BY <1>5, <2>1, FS_Injection
<1>7. \A n \in 1..card : \E i \in S : rank(i) = n
  BY <1>6 DEF Surjection
<1>8. \A n \in 1..card : InOrder(S)[n] \in S /\ ranks[InOrder(S)[n]] = n
  BY <1>7 DEF InOrder
<1>9. /\ ranks \in [S -> 1..card]
      /\ \A i, j \in S : i < j => ranks[i] < ranks[j]
  BY <1>3, <1>4
<1> HIDE DEF ranks
<1>10. ASSUME NEW i \in S, NEW j \in S, ranks[i] <= ranks[j] PROVE i <= j
  <2>1. ~(ranks[j] < ranks[i])
    BY <1>1, <1>9, <1>10
  <2>2. ~(j < i)
    BY <1>9, <2>1
  <2> QED BY <1>0, <2>2
<1>11. \A i \in S : InOrder(S)[ranks[i]] = i
  <2> SUFFICES ASSUME NEW i \in S PROVE InOrder(S)[ranks[i]] = i
    OBVIOUS
  <2>1. PICK x \in S : x = InOrder(S)[ranks[i]] /\ ranks[x] = ranks[i]
    BY <1>8, <1>9
  <2>2. ranks[x] <= ranks[i] /\ ranks[i] <= ranks[x]
    BY <1>9, <2>1
  <2>3. x <= i /\ i <= x
    BY <1>10, <2>2
  <2> QED BY <1>0, <2>1, <2>3
<1>12. InOrder(S) \in [1..card -> S]
  BY <1>8 DEF InOrder
<1>13. ASSUME NEW m \in 1..card, NEW n \in 1..card, m < n
       PROVE  InOrder(S)[m] < InOrder(S)[n]
  <2>1. PICK x \in S, y \in S : /\ x = InOrder(S)[m] /\ y = InOrder(S)[n]
                                /\ ranks[x] = m /\ ranks[y] = n
    BY <1>8
  <2>2. ranks[x] <= ranks[y] /\ x # y
    BY <1>13, <2>1
  <2>3. x <= y
    BY <1>10, <2>2
  <2> QED BY <1>0, <2>1, <2>2, <2>3
<1> QED BY <1>1, <1>9, <1>11, <1>12, <1>13

\* Every step of the stack is above, or below, those under it.
Rising(stack) == \A i, j \in 1..Len(stack) : i < j => stack[i] < stack[j]
Falling(stack) == \A i, j \in 1..Len(stack) : i < j => stack[i] > stack[j]

\* Nothing is in an empty stack.
LEMMA EmptyStack ==
    /\ <<>> \in Seq(Steps) /\ Rising(<<>>) /\ Falling(<<>>)
    /\ \A e : ~In(e, <<>>)
BY DEF Rising, Falling, In

\* A stack holds members of its set.
LEMMA InStack ==
    ASSUME NEW stack \in Seq(Steps), NEW e, In(e, stack)
    PROVE  e \in Steps /\ stack # <<>>
BY DEF In

\* What Append adds, and when it keeps the order.
LEMMA AppendStack ==
    ASSUME NEW stack \in Seq(Steps), NEW e \in Steps
    PROVE  /\ Append(stack, e) \in Seq(Steps)
           /\ \A f : In(f, Append(stack, e)) <=> In(f, stack) \/ f = e
           /\ Rising(stack) /\ (\A f : In(f, stack) => f < e) => Rising(Append(stack, e))
           /\ Falling(stack) /\ (\A f : In(f, stack) => f > e) => Falling(Append(stack, e))
<1> DEFINE longer == Append(stack, e)
<1>1. /\ longer \in Seq(Steps) /\ Len(longer) = Len(stack) + 1
      /\ \A i \in 1..Len(stack) : longer[i] = stack[i]
      /\ longer[Len(stack) + 1] = e /\ Len(stack) \in Nat
  OBVIOUS
<1> HIDE DEF longer
<1>2. \A f : In(f, longer) <=> In(f, stack) \/ f = e
  BY <1>1 DEF In
<1>3. ASSUME Rising(stack), \A f : In(f, stack) => f < e PROVE Rising(longer)
  BY <1>1, <1>3 DEF In, Rising
<1>4. ASSUME Falling(stack), \A f : In(f, stack) => f > e PROVE Falling(longer)
  BY <1>1, <1>4 DEF In, Falling
<1> QED BY <1>1, <1>2, <1>3, <1>4 DEF longer

\* In an ordered stack, Pop removes the top and nothing else.
LEMMA PopStack ==
    ASSUME NEW stack \in Seq(Steps), NEW e, IsTop(e, stack), Rising(stack) \/ Falling(stack)
    PROVE  /\ e \in Steps /\ In(e, stack)
           /\ Pop(stack) \in Seq(Steps)
           /\ \A f : In(f, Pop(stack)) <=> In(f, stack) /\ f # e
           /\ Rising(stack) => Rising(Pop(stack)) /\ \A f : In(f, Pop(stack)) => f < e
           /\ Falling(stack) => Falling(Pop(stack)) /\ \A f : In(f, Pop(stack)) => f > e
<1> DEFINE n == Len(stack) - 1
           popped == Pop(stack)
<1>0. Len(stack) \in Nat /\ stack # <<>> /\ stack[Len(stack)] = e /\ Len(stack) # 0
  BY DEF IsTop
<1>00. MaxSteps \in Nat /\ \A i \in 1..Len(stack) : stack[i] \in Steps
  BY UndoRedoAssumption
<1>1. /\ n \in Nat /\ Len(stack) = n + 1 /\ stack[n + 1] = e /\ n + 1 \in 1..Len(stack)
      /\ \A i \in 1..Len(stack) : stack[i] \in Steps /\ stack[i] \in Nat
  BY <1>0, <1>00 DEF Steps
<1>2. /\ popped \in Seq(Steps) /\ Len(popped) = n
      /\ \A i \in 1..n : popped[i] = stack[i]
  BY <1>1 DEF Pop
<1> HIDE DEF n, popped
<1>3. e \in Steps /\ In(e, stack)
  BY <1>1 DEF In
<1>4. \A i \in 1..n : /\ Rising(stack) => stack[i] < e
                      /\ Falling(stack) => stack[i] > e
                      /\ stack[i] # e
  BY <1>1 DEF Rising, Falling
<1>5. \A f : In(f, popped) <=> In(f, stack) /\ f # e
  <2> TAKE f
  <2>1. ASSUME In(f, popped) PROVE In(f, stack) /\ f # e
    BY <1>1, <1>2, <1>4, <2>1 DEF In
  <2>2. ASSUME In(f, stack), f # e PROVE In(f, popped)
    <3>1. PICK i \in 1..Len(stack) : stack[i] = f
      BY <2>2 DEF In
    <3>2. i \in 1..n
      BY <1>1, <2>2, <3>1
    <3> QED BY <1>2, <3>1, <3>2 DEF In
  <2> QED BY <2>1, <2>2
<1>6. ASSUME Rising(stack) PROVE Rising(popped) /\ \A f : In(f, popped) => f < e
  BY <1>1, <1>2, <1>4, <1>6 DEF Rising, In
<1>7. ASSUME Falling(stack) PROVE Falling(popped) /\ \A f : In(f, popped) => f > e
  BY <1>1, <1>2, <1>4, <1>7 DEF Falling, In
<1> QED BY <1>2, <1>3, <1>5, <1>6, <1>7 DEF popped

\* DroppedElsewhere removes the dropped steps of the bucket and keeps the order.
LEMMA DroppedStack ==
    ASSUME NEW stack \in Seq(Steps), NEW c, NEW dropped
    PROVE  /\ DroppedElsewhere(dropped, stack, c) \in Seq(Steps)
           /\ \A f : In(f, DroppedElsewhere(dropped, stack, c))
                        <=> In(f, stack) /\ ~(f \in dropped /\ c \in participants[f])
           /\ Rising(stack) => Rising(DroppedElsewhere(dropped, stack, c))
           /\ Falling(stack) => Falling(DroppedElsewhere(dropped, stack, c))
<1> DEFINE S == {i \in 1..Len(stack) : ~(stack[i] \in dropped /\ c \in participants[stack[i]])}
           kept == InOrder(S)
           card == Cardinality(S)
           result == [n \in 1..card |-> stack[kept[n]]]
<1>1. /\ card \in Nat /\ kept \in [1..card -> S]
      /\ \A i \in S : \E n \in 1..card : kept[n] = i
      /\ \A m, n \in 1..card : m < n => kept[m] < kept[n]
  <2>1. Len(stack) \in Nat /\ S \in SUBSET (1..Len(stack))
    OBVIOUS
  <2> HIDE DEF S
  <2> QED BY <2>1, InOrderFacts
<1>2. Len(kept) = card
  BY <1>1
<1>3. DroppedElsewhere(dropped, stack, c) = result
  BY <1>2 DEF DroppedElsewhere
<1>4. \A n \in 1..card : kept[n] \in S /\ kept[n] \in 1..Len(stack) /\ stack[kept[n]] \in Steps
  BY <1>1
<1>5. /\ result \in Seq(Steps) /\ Len(result) = card
      /\ \A n \in 1..card : result[n] = stack[kept[n]]
  BY <1>1, <1>4
<1> HIDE DEF kept, card, result
<1>6. \A f : In(f, result) <=> In(f, stack) /\ ~(f \in dropped /\ c \in participants[f])
  <2> TAKE f
  <2>1. ASSUME In(f, result) PROVE In(f, stack) /\ ~(f \in dropped /\ c \in participants[f])
    <3>1. PICK n \in 1..card : result[n] = f
      BY <1>5, <2>1 DEF In
    <3> QED BY <1>4, <1>5, <3>1 DEF In
  <2>2. ASSUME In(f, stack), ~(f \in dropped /\ c \in participants[f]) PROVE In(f, result)
    <3>1. PICK i \in 1..Len(stack) : stack[i] = f
      BY <2>2 DEF In
    <3>2. i \in S
      BY <2>2, <3>1
    <3>3. PICK n \in 1..card : kept[n] = i
      BY <1>1, <3>2
    <3> QED BY <1>5, <3>1, <3>3 DEF In
  <2> QED BY <2>1, <2>2
<1>7. ASSUME Rising(stack) PROVE Rising(result)
  <2> SUFFICES ASSUME NEW m \in 1..card, NEW n \in 1..card, m < n
               PROVE  result[m] < result[n]
    BY <1>5 DEF Rising
  <2>1. kept[m] < kept[n] /\ kept[m] \in 1..Len(stack) /\ kept[n] \in 1..Len(stack)
    BY <1>1, <1>4
  <2> QED BY <1>5, <1>7, <2>1 DEF Rising
<1>8. ASSUME Falling(stack) PROVE Falling(result)
  <2> SUFFICES ASSUME NEW m \in 1..card, NEW n \in 1..card, m < n
               PROVE  result[m] > result[n]
    BY <1>5 DEF Falling
  <2>1. kept[m] < kept[n] /\ kept[m] \in 1..Len(stack) /\ kept[n] \in 1..Len(stack)
    BY <1>1, <1>4
  <2> QED BY <1>5, <1>8, <2>1 DEF Falling
<1> QED BY <1>3, <1>5, <1>6, <1>7, <1>8

\* An opened bucket holds what it adopts, in push order.
LEMMA AdoptedStack ==
    ASSUME NEW S \in SUBSET Steps
    PROVE  /\ PushOrder(S) \in Seq(Steps) /\ Rising(PushOrder(S))
           /\ \A f : In(f, PushOrder(S)) <=> f \in S
<1> DEFINE card == Cardinality(S)
           order == InOrder(S)
<1>1. /\ card \in Nat /\ order \in [1..card -> S]
      /\ \A i \in S : \E n \in 1..card : order[n] = i
      /\ \A m, n \in 1..card : m < n => order[m] < order[n]
  BY InOrderFacts, UndoRedoAssumption DEF Steps
<1>2. Len(order) = card /\ order \in Seq(Steps)
  BY <1>1
<1> HIDE DEF card, order
<1>3. /\ order \in Seq(Steps) /\ Rising(order)
      /\ \A f : In(f, order) <=> f \in S
  BY <1>1, <1>2 DEF Rising, In
<1> QED BY <1>3 DEF order, PushOrder

\* A stack that holds nothing is empty.
LEMMA NothingIn ==
    ASSUME NEW stack \in Seq(Steps), \A f : ~In(f, stack)
    PROVE  stack = <<>>
BY DEF In

-----------------------------------------------------------------------------
(* The inductive invariant *)

Holds(e, c) == In(e, undo[c]) \/ In(e, redo[c])

\* No bucket holds a step that was not pushed.
StepsWerePushed == \A c \in Contexts : \A e \in Steps : Holds(e, c) => e <= pushed

\* A step without participants is in one bucket only.
PlainInOneBucket ==
    \A e \in Steps \ workspace : \A c, d \in Contexts : Holds(e, c) /\ Holds(e, d) => c = d

\* What a bucket can undo was pushed before what it can redo.
UndoBelowRedo ==
    \A c \in Contexts : \A e, f \in Steps : In(e, undo[c]) /\ In(f, redo[c]) => e < f

IInv ==
    /\ TypeOK
    /\ StepsWerePushed
    /\ OnlyParticipantsHoldSteps
    /\ RedoneEverywhere
    /\ UndoneOrRedone
    /\ PushOrderKept
    /\ PlainInOneBucket
    /\ UndoBelowRedo

\* The ordered stacks of the invariant.
LEMMA Ordered ==
    ASSUME IInv, NEW c \in Contexts
    PROVE  /\ undo[c] \in Seq(Steps) /\ Rising(undo[c])
           /\ redo[c] \in Seq(Steps) /\ Falling(redo[c])
           /\ \A e : Holds(e, c) => e \in Steps /\ bucket[c] = "live"
<1>1. undo[c] \in Seq(Steps) /\ redo[c] \in Seq(Steps)
  BY DEF IInv, TypeOK
<1>2. Rising(undo[c]) /\ Falling(redo[c])
  BY DEF IInv, PushOrderKept, Rising, Falling
<1>3. ASSUME NEW e, Holds(e, c) PROVE e \in Steps /\ bucket[c] = "live"
  <2>1. e \in Steps /\ ~(undo[c] = <<>> /\ redo[c] = <<>>)
    BY <1>1, <1>3, InStack DEF Holds
  <2> QED BY <2>1 DEF IInv, TypeOK
<1> QED BY <1>1, <1>2, <1>3

\* A step with participants is one of the steps.
LEMMA WorkspaceSteps == IInv => workspace \subseteq Steps
BY UndoRedoAssumption DEF IInv, TypeOK, Steps

\* DroppedElsewhere removes the dropped steps with participants from each redo.
LEMMA DroppedRedo ==
    ASSUME IInv, NEW c \in Contexts, NEW dropped \in SUBSET workspace
    PROVE  /\ DroppedElsewhere(dropped, redo[c], c) \in Seq(Steps)
           /\ Falling(DroppedElsewhere(dropped, redo[c], c))
           /\ \A f : In(f, DroppedElsewhere(dropped, redo[c], c))
                        <=> In(f, redo[c]) /\ f \notin dropped
BY Ordered, DroppedStack DEF IInv, OnlyParticipantsHoldSteps

\* A truncated redo is empty, and its steps are in no other redo.
LEMMA Truncated ==
    ASSUME IInv, NEW contexts \in SUBSET Contexts
    PROVE  /\ TruncatedRedo(contexts) \in [Contexts -> Seq(Steps)]
           /\ \A c \in contexts : TruncatedRedo(contexts)[c] = <<>>
           /\ \A c \in Contexts : Falling(TruncatedRedo(contexts)[c])
           /\ \A c \in Contexts : \A f : In(f, TruncatedRedo(contexts)[c])
                <=> /\ In(f, redo[c]) /\ c \notin contexts
                    /\ ~(f \in workspace /\ \E x \in contexts : In(f, redo[x]))
<1> DEFINE dropped == {e \in workspace : \E x \in contexts : In(e, redo[x])}
           after(c) == IF c \in contexts THEN <<>> ELSE DroppedElsewhere(dropped, redo[c], c)
<1>1. TruncatedRedo(contexts) = [c \in Contexts |-> after(c)]
  BY DEF TruncatedRedo
<1>2. \A c \in contexts : after(c) = <<>>
  OBVIOUS
<1>3. ASSUME NEW c \in Contexts
      PROVE  /\ after(c) \in Seq(Steps) /\ Falling(after(c))
             /\ \A f : In(f, after(c)) <=> In(f, redo[c]) /\ c \notin contexts /\ f \notin dropped
  <2>1. CASE c \in contexts
    BY <2>1, EmptyStack
  <2>2. CASE c \notin contexts
    <3>1. dropped \in SUBSET workspace
      OBVIOUS
    <3> HIDE DEF dropped
    <3> QED BY <2>2, <3>1, DroppedRedo
  <2> QED BY <2>1, <2>2
<1>4. \A f : f \in dropped <=> f \in workspace /\ \E x \in contexts : In(f, redo[x])
  OBVIOUS
<1> HIDE DEF dropped, after
<1> QED BY <1>1, <1>2, <1>3, <1>4

-----------------------------------------------------------------------------
(* New steps *)

LEMMA PushPlainKeeps ==
    ASSUME IInv, NEW c \in Contexts, PushPlain(c)
    PROVE  IInv'
<1> DEFINE e == pushed + 1
<1>1. /\ pushed \in Nat /\ e \in Steps /\ e = pushed + 1 /\ MaxSteps \in Nat
      /\ pushed' = e /\ e \in 1..pushed' /\ pushed' \in 0..MaxSteps /\ bucket[c] = "live"
  BY UndoRedoAssumption DEF IInv, TypeOK, PushPlain, Steps, Live
<1>2. /\ redo' = TruncatedRedo({c})
      /\ undo' = [undo EXCEPT ![c] = Append(@, e)]
      /\ UNCHANGED <<bucket, workspace, participants, owners, broken, request>>
  BY DEF PushPlain
<1> HIDE DEF e
<1>3. /\ redo' \in [Contexts -> Seq(Steps)] /\ redo'[c] = <<>>
      /\ \A x \in Contexts : Falling(redo'[x])
      /\ \A x \in Contexts : \A f : In(f, redo'[x])
            <=> In(f, redo[x]) /\ x # c /\ ~(f \in workspace /\ In(f, redo[c]))
  <2>1. {c} \in SUBSET Contexts
    OBVIOUS
  <2> DEFINE after == TruncatedRedo({c})
  <2>2. /\ after \in [Contexts -> Seq(Steps)] /\ after[c] = <<>>
        /\ \A x \in Contexts : Falling(after[x])
        /\ \A x \in Contexts : \A f : In(f, after[x])
            <=> /\ In(f, redo[x]) /\ x \notin {c}
                /\ ~(f \in workspace /\ \E y \in {c} : In(f, redo[y]))
    BY <2>1, Truncated
  <2> HIDE DEF after
  <2>3. redo' = after
    BY <1>2 DEF after
  <2> QED BY <2>2, <2>3
<1>4. \A x \in Contexts : \A f : Holds(f, x) => f \in Steps /\ f <= pushed /\ f \in Nat /\ f # e
  BY <1>1, Ordered DEF IInv, StepsWerePushed, Steps
<1>5. /\ undo' \in [Contexts -> Seq(Steps)] /\ \A x \in Contexts : Rising(undo'[x])
      /\ \A x \in Contexts : \A f : In(f, undo'[x]) <=> In(f, undo[x]) \/ (x = c /\ f = e)
  <2>1. undo \in [Contexts -> Seq(Steps)] /\ undo[c] \in Seq(Steps)
    BY DEF IInv, TypeOK
  <2>2. \A f : In(f, undo[c]) => f < e
    BY <1>1, <1>4 DEF Holds
  <2>3. /\ Append(undo[c], e) \in Seq(Steps) /\ Rising(Append(undo[c], e))
        /\ \A f : In(f, Append(undo[c], e)) <=> In(f, undo[c]) \/ f = e
    BY <1>1, <2>1, <2>2, AppendStack, Ordered
  <2>4. /\ undo'[c] = Append(undo[c], e)
        /\ \A x \in Contexts \ {c} : undo'[x] = undo[x]
        /\ undo' \in [Contexts -> Seq(Steps)]
    BY <1>2, <2>1, <2>3
  <2> QED BY <2>3, <2>4, Ordered
<1>6. e \notin workspace
  BY <1>1 DEF IInv, TypeOK
<1>7. TypeOK'
  <2>1. ASSUME NEW x \in Contexts, bucket'[x] # "live"
        PROVE  undo'[x] = <<>> /\ redo'[x] = <<>>
    <3>1. x # c /\ \A f : ~Holds(f, x)
      BY <1>1, <1>2, <2>1, Ordered
    <3>2. \A f : ~In(f, undo'[x]) /\ ~In(f, redo'[x])
      BY <1>3, <1>5, <3>1 DEF Holds
    <3> QED BY <1>3, <1>5, <3>2, NothingIn
  <2>2. workspace' \subseteq 1..pushed'
    BY <1>1, <1>2 DEF IInv, TypeOK
  <2> QED BY <1>1, <1>2, <1>3, <1>5, <2>1, <2>2 DEF IInv, TypeOK
<1>8. StepsWerePushed'
  <2> SUFFICES ASSUME NEW x \in Contexts, NEW f \in Steps, Holds(f, x)'
               PROVE  f <= e
    BY <1>1 DEF StepsWerePushed
  <2>1. Holds(f, x) \/ f = e
    BY <1>3, <1>5 DEF Holds
  <2> QED BY <1>1, <1>4, <2>1
<1>9. OnlyParticipantsHoldSteps'
  BY <1>2, <1>3, <1>5, <1>6 DEF IInv, OnlyParticipantsHoldSteps
<1>10. RedoneEverywhere'
  <2> SUFFICES ASSUME NEW f \in workspace, NEW x \in Contexts, In(f, redo'[x]),
                      NEW y \in participants[f]
               PROVE  In(f, redo'[y])
    BY <1>2 DEF RedoneEverywhere, InRedo
  <2>1. In(f, redo[x]) /\ ~In(f, redo[c])
    BY <1>3
  <2>2. In(f, redo[y]) /\ y # c /\ y \in Contexts
    <3>1. f \in Steps /\ participants[f] \subseteq Contexts
      BY <2>1, Ordered DEF IInv, TypeOK, Holds
    <3> QED BY <2>1, <3>1 DEF IInv, RedoneEverywhere, InRedo
  <2> QED BY <1>3, <2>1, <2>2
<1>11. UndoneOrRedone'
  BY <1>3, <1>4, <1>5 DEF IInv, UndoneOrRedone, InUndo, InRedo, Holds
<1>12. PushOrderKept'
  BY <1>3, <1>5 DEF PushOrderKept, Rising, Falling
<1>13. PlainInOneBucket'
  <2>1. ASSUME NEW x \in Contexts, NEW f, Holds(f, x)'
        PROVE  IF f = e THEN x = c ELSE Holds(f, x)
    BY <1>3, <1>4, <1>5, <2>1 DEF Holds
  <2> QED BY <1>2, <2>1 DEF IInv, PlainInOneBucket
<1>14. UndoBelowRedo'
  BY <1>3, <1>5 DEF IInv, UndoBelowRedo
<1> QED BY <1>7, <1>8, <1>9, <1>10, <1>11, <1>12, <1>13, <1>14 DEF IInv

LEMMA PushWorkspaceKeeps ==
    ASSUME IInv, NEW all \in SUBSET Live, NEW own \in SUBSET all, PushWorkspace(all, own)
    PROVE  IInv'
<1> DEFINE e == pushed + 1
<1>1. /\ pushed \in Nat /\ e \in Steps /\ e = pushed + 1 /\ MaxSteps \in Nat
      /\ pushed' = e /\ pushed' \in 0..MaxSteps
      /\ all \in SUBSET Contexts /\ \A c \in all : bucket[c] = "live"
  BY UndoRedoAssumption DEF IInv, TypeOK, PushWorkspace, Steps, Live
<1>2. /\ redo' = TruncatedRedo(all)
      /\ undo' = [c \in Contexts |-> IF c \in all THEN Append(undo[c], e) ELSE undo[c]]
      /\ workspace' = workspace \cup {e}
      /\ participants' = [participants EXCEPT ![e] = all]
      /\ owners' = [owners EXCEPT ![e] = own]
      /\ UNCHANGED <<bucket, broken, request>>
  BY DEF PushWorkspace
<1> HIDE DEF e
<1>3. /\ redo' \in [Contexts -> Seq(Steps)] /\ \A c \in all : redo'[c] = <<>>
      /\ \A x \in Contexts : Falling(redo'[x])
      /\ \A x \in Contexts : \A f : In(f, redo'[x])
            <=> /\ In(f, redo[x]) /\ x \notin all
                /\ ~(f \in workspace /\ \E c \in all : In(f, redo[c]))
  BY <1>1, <1>2, Truncated
<1>4. \A x \in Contexts : \A f : Holds(f, x) => f \in Steps /\ f <= pushed /\ f \in Nat /\ f # e
  BY <1>1, Ordered DEF IInv, StepsWerePushed, Steps
<1>5. /\ undo' \in [Contexts -> Seq(Steps)] /\ \A x \in Contexts : Rising(undo'[x])
      /\ \A x \in Contexts : \A f : In(f, undo'[x]) <=> In(f, undo[x]) \/ (x \in all /\ f = e)
  <2>1. ASSUME NEW c \in Contexts
        PROVE  /\ undo[c] \in Seq(Steps) /\ Append(undo[c], e) \in Seq(Steps)
               /\ Rising(undo[c]) /\ Rising(Append(undo[c], e))
               /\ \A f : In(f, Append(undo[c], e)) <=> In(f, undo[c]) \/ f = e
    <3>1. \A f : In(f, undo[c]) => f < e
      BY <1>1, <1>4 DEF Holds
    <3> QED BY <1>1, <3>1, AppendStack, Ordered
  <2>2. \A c \in Contexts : undo'[c] = IF c \in all THEN Append(undo[c], e) ELSE undo[c]
    BY <1>2
  <2>3. undo' \in [Contexts -> Seq(Steps)]
    BY <1>2, <2>1
  <2> QED BY <2>1, <2>2, <2>3
<1>6. /\ e \notin workspace
      /\ participants \in [Steps -> SUBSET Contexts]
      /\ participants'[e] = all
      /\ \A f \in Steps : f # e => participants'[f] = participants[f]
  BY <1>1, <1>2 DEF IInv, TypeOK
<1>7. TypeOK'
  <2>1. ASSUME NEW x \in Contexts, bucket'[x] # "live"
        PROVE  undo'[x] = <<>> /\ redo'[x] = <<>>
    <3>1. x \notin all /\ \A f : ~Holds(f, x)
      BY <1>1, <1>2, <2>1, Ordered
    <3>2. \A f : ~In(f, undo'[x]) /\ ~In(f, redo'[x])
      BY <1>3, <1>5, <3>1 DEF Holds
    <3> QED BY <1>3, <1>5, <3>2, NothingIn
  <2>2. workspace' \subseteq 1..pushed'
    BY <1>1, <1>2 DEF IInv, TypeOK
  <2>3. /\ participants' \in [Steps -> SUBSET Contexts]
        /\ owners' \in [Steps -> SUBSET Contexts]
    <3>1. all \in SUBSET Contexts /\ own \in SUBSET Contexts
      BY <1>1
    <3> QED BY <1>1, <1>2, <3>1 DEF IInv, TypeOK
  <2> QED BY <1>1, <1>2, <1>3, <1>5, <2>1, <2>2, <2>3 DEF IInv, TypeOK
<1>8. StepsWerePushed'
  <2> SUFFICES ASSUME NEW x \in Contexts, NEW f \in Steps, Holds(f, x)'
               PROVE  f <= e
    BY <1>1 DEF StepsWerePushed
  <2>1. Holds(f, x) \/ f = e
    BY <1>3, <1>5 DEF Holds
  <2> QED BY <1>1, <1>4, <2>1
<1>9. OnlyParticipantsHoldSteps'
  <2> SUFFICES ASSUME NEW x \in Contexts, NEW f \in workspace',
                      In(f, undo'[x]) \/ In(f, redo'[x])
               PROVE  x \in participants'[f]
    BY DEF OnlyParticipantsHoldSteps
  <2>1. CASE f = e
    BY <1>3, <1>4, <1>5, <1>6, <2>1 DEF Holds
  <2>2. CASE f # e
    <3>1. f \in workspace /\ Holds(f, x) /\ f \in Steps
      BY <1>2, <1>3, <1>4, <1>5, <2>2 DEF Holds
    <3> QED BY <1>6, <2>2, <3>1 DEF IInv, OnlyParticipantsHoldSteps, Holds
  <2> QED BY <2>1, <2>2
<1>10. RedoneEverywhere'
  <2> SUFFICES ASSUME NEW f \in workspace', NEW x \in Contexts, In(f, redo'[x]),
                      NEW y \in participants'[f]
               PROVE  In(f, redo'[y])
    BY DEF RedoneEverywhere, InRedo
  <2>1. /\ In(f, redo[x]) /\ f # e /\ f \in workspace /\ f \in Steps
        /\ \A c \in all : ~In(f, redo[c])
    BY <1>2, <1>3, <1>4 DEF Holds
  <2>2. In(f, redo[y]) /\ y \in Contexts
    BY <1>6, <2>1 DEF IInv, RedoneEverywhere, InRedo
  <2> QED BY <1>3, <2>1, <2>2
<1>11. UndoneOrRedone'
  BY <1>3, <1>4, <1>5 DEF IInv, UndoneOrRedone, InUndo, InRedo, Holds
<1>12. PushOrderKept'
  BY <1>3, <1>5 DEF PushOrderKept, Rising, Falling
<1>13. PlainInOneBucket'
  <2>1. ASSUME NEW x \in Contexts, NEW f, Holds(f, x)', f # e
        PROVE  Holds(f, x)
    BY <1>3, <1>5, <2>1 DEF Holds
  <2> QED BY <1>2, <2>1 DEF IInv, PlainInOneBucket
<1>14. UndoBelowRedo'
  BY <1>3, <1>5 DEF IInv, UndoBelowRedo
<1> QED BY <1>7, <1>8, <1>9, <1>10, <1>11, <1>12, <1>13, <1>14 DEF IInv

LEMMA AdoptKeeps ==
    ASSUME IInv, NEW c \in Contexts, NEW adopted \in SUBSET Adoptable(c), Adopt(c, adopted)
    PROVE  IInv'
<1>1. /\ bucket[c] = "fresh" /\ adopted \subseteq workspace /\ adopted \subseteq Steps
      /\ \A e \in adopted : InUndo(e) /\ ~InRedo(e) /\ e <= pushed
      /\ \A f : ~Holds(f, c)
  <2>1. /\ bucket[c] = "fresh" /\ adopted \subseteq workspace
        /\ \A e \in adopted : InUndo(e)
    BY DEF Adopt, Adoptable
  <2>2. adopted \subseteq Steps
    BY <2>1, Ordered DEF InUndo, Holds
  <2> QED BY <2>1, <2>2, Ordered
          DEF IInv, UndoneOrRedone, InUndo, StepsWerePushed, Holds
<1>2. /\ bucket' = [bucket EXCEPT ![c] = "live"]
      /\ participants' = Joined(adopted, c)
      /\ undo' = [undo EXCEPT ![c] = PushOrder(adopted)]
      /\ UNCHANGED <<redo, pushed, workspace, owners, broken, request>>
  BY DEF Adopt
<1>3. /\ undo' \in [Contexts -> Seq(Steps)] /\ \A x \in Contexts : Rising(undo'[x])
      /\ \A x \in Contexts : \A f : In(f, undo'[x]) <=> In(f, undo[x]) \/ (x = c /\ f \in adopted)
  <2>1. /\ PushOrder(adopted) \in Seq(Steps) /\ Rising(PushOrder(adopted))
        /\ \A f : In(f, PushOrder(adopted)) <=> f \in adopted
    BY <1>1, AdoptedStack
  <2>2. /\ undo'[c] = PushOrder(adopted) /\ undo' \in [Contexts -> Seq(Steps)]
        /\ \A x \in Contexts \ {c} : undo'[x] = undo[x]
    BY <1>2, <2>1 DEF IInv, TypeOK
  <2> QED BY <1>1, <2>1, <2>2, Ordered DEF Holds
<1>4. /\ participants' \in [Steps -> SUBSET Contexts]
      /\ \A e \in Steps :
            participants'[e] = IF e \in adopted THEN participants[e] \cup {c} ELSE participants[e]
  BY <1>2 DEF IInv, TypeOK, Joined
<1>5. TypeOK'
  <2>1. ASSUME NEW x \in Contexts, bucket'[x] # "live"
        PROVE  undo'[x] = <<>> /\ redo'[x] = <<>>
    <3>1. x # c /\ bucket'[x] = bucket[x]
      BY <1>2, <2>1 DEF IInv, TypeOK
    <3> QED BY <1>2, <2>1, <3>1 DEF IInv, TypeOK
  <2>2. bucket' \in [Contexts -> {"fresh", "live", "closed"}]
    BY <1>2 DEF IInv, TypeOK
  <2> QED BY <1>2, <1>3, <1>4, <2>1, <2>2 DEF IInv, TypeOK
<1>6. StepsWerePushed'
  BY <1>1, <1>2, <1>3 DEF IInv, StepsWerePushed, Holds
<1>7. OnlyParticipantsHoldSteps'
  <2> SUFFICES ASSUME NEW x \in Contexts, NEW f \in workspace,
                      In(f, undo'[x]) \/ In(f, redo[x])
               PROVE  x \in participants'[f]
    BY <1>2 DEF OnlyParticipantsHoldSteps
  <2>1. f \in Steps /\ (Holds(f, x) \/ (x = c /\ f \in adopted))
    BY <1>1, <1>3, Ordered DEF Holds
  <2> QED BY <1>4, <2>1 DEF IInv, OnlyParticipantsHoldSteps, Holds
<1>8. RedoneEverywhere'
  <2> SUFFICES ASSUME NEW f \in workspace, NEW x \in Contexts, In(f, redo[x]),
                      NEW y \in participants'[f]
               PROVE  In(f, redo[y])
    BY <1>2 DEF RedoneEverywhere, InRedo
  <2>1. f \in Steps /\ f \notin adopted
    BY <1>1, Ordered DEF InRedo, Holds
  <2> QED BY <1>4, <2>1 DEF IInv, RedoneEverywhere, InRedo
<1>9. UndoneOrRedone'
  <2> SUFFICES ASSUME NEW f \in Steps, InUndo(f)', InRedo(f)' PROVE FALSE
    BY DEF UndoneOrRedone
  <2>1. InRedo(f) /\ (InUndo(f) \/ f \in adopted)
    BY <1>2, <1>3 DEF InUndo, InRedo
  <2> QED BY <1>1, <2>1 DEF IInv, UndoneOrRedone
<1>10. PushOrderKept'
  <2>1. \A x \in Contexts : Falling(redo'[x])
    BY <1>2, Ordered
  <2> QED BY <1>3, <2>1 DEF PushOrderKept, Rising, Falling
<1>11. PlainInOneBucket'
  BY <1>1, <1>2, <1>3 DEF IInv, PlainInOneBucket, Holds
<1>12. UndoBelowRedo'
  BY <1>1, <1>2, <1>3 DEF IInv, UndoBelowRedo, Holds
<1> QED BY <1>5, <1>6, <1>7, <1>8, <1>9, <1>10, <1>11, <1>12 DEF IInv

-----------------------------------------------------------------------------
(* Lost buckets *)

\* Clear, whether the bucket goes on or is closed: a bucket may close once it
\* is empty.
LEMMA ClearKeeps ==
    ASSUME IInv, NEW c \in Contexts, Clear(c),
           bucket' = bucket \/ bucket' = [bucket EXCEPT ![c] = "closed"]
    PROVE  IInv'
<1> DEFINE dropped == {e \in workspace : In(e, redo[c]) /\ c \in owners[e]}
<1>1. /\ undo' = [undo EXCEPT ![c] = <<>>]
      /\ redo' = [x \in Contexts |->
                     IF x = c THEN <<>> ELSE DroppedElsewhere(dropped, redo[x], x)]
      /\ participants' = [e \in Steps |->
             IF e \in workspace /\ Leaves(e, c) THEN participants[e] \ {c} ELSE participants[e]]
      /\ broken' = [e \in Steps |->
             broken[e] \/ (e \in workspace /\ In(e, undo[c]) /\ c \in owners[e])]
      /\ UNCHANGED <<pushed, workspace, owners, request>>
  BY DEF Clear, Emptied
<1>2. /\ dropped \in SUBSET workspace
      /\ \A f : f \in dropped => In(f, redo[c])
  OBVIOUS
<1> HIDE DEF dropped
<1>3. /\ undo' \in [Contexts -> Seq(Steps)] /\ \A x \in Contexts : Rising(undo'[x])
      /\ \A x \in Contexts : \A f : In(f, undo'[x]) <=> In(f, undo[x]) /\ x # c
  <2>1. /\ undo'[c] = <<>> /\ undo' \in [Contexts -> Seq(Steps)]
        /\ \A x \in Contexts \ {c} : undo'[x] = undo[x]
    BY <1>1, EmptyStack DEF IInv, TypeOK
  <2> QED BY <2>1, EmptyStack, Ordered
<1>4. /\ redo' \in [Contexts -> Seq(Steps)] /\ \A x \in Contexts : Falling(redo'[x])
      /\ \A x \in Contexts : \A f :
            In(f, redo'[x]) <=> In(f, redo[x]) /\ x # c /\ f \notin dropped
  <2>1. \A x \in Contexts :
            redo'[x] = IF x = c THEN <<>> ELSE DroppedElsewhere(dropped, redo[x], x)
    BY <1>1
  <2>2. redo' \in [Contexts -> Seq(Steps)]
    BY <1>1, <1>2, EmptyStack, DroppedRedo
  <2> QED BY <1>2, <2>1, <2>2, EmptyStack, DroppedRedo
<1>5. \A x \in Contexts : \A f :
            Holds(f, x)' => Holds(f, x) /\ x # c
  BY <1>3, <1>4 DEF Holds
<1>6. /\ participants' \in [Steps -> SUBSET Contexts]
      /\ \A e \in Steps : /\ participants'[e] \subseteq participants[e]
                          /\ participants[e] \ {c} \subseteq participants'[e]
                          /\ e \in workspace /\ Holds(e, c) => c \notin participants'[e]
  BY <1>1 DEF IInv, TypeOK, Leaves, Holds
<1>7. TypeOK'
  <2>1. ASSUME NEW x \in Contexts, bucket'[x] # "live"
        PROVE  undo'[x] = <<>> /\ redo'[x] = <<>>
    <3>1. x = c \/ bucket'[x] = bucket[x]
      BY DEF IInv, TypeOK
    <3>2. \A f : ~Holds(f, x)'
      BY <1>5, <2>1, <3>1, Ordered
    <3> QED BY <1>3, <1>4, <3>2, NothingIn DEF Holds
  <2>2. bucket' \in [Contexts -> {"fresh", "live", "closed"}]
    BY DEF IInv, TypeOK
  <2>3. \A e \in Steps : broken[e] \in BOOLEAN
    BY DEF IInv, TypeOK
  <2>4. broken' \in [Steps -> BOOLEAN]
    BY <1>1, <2>3, Zenon
  <2> QED BY <1>1, <1>3, <1>4, <1>6, <2>1, <2>2, <2>4 DEF IInv, TypeOK
<1>8. StepsWerePushed'
  BY <1>1, <1>5 DEF IInv, StepsWerePushed
<1>9. OnlyParticipantsHoldSteps'
  <2> SUFFICES ASSUME NEW x \in Contexts, NEW f \in workspace,
                      In(f, undo'[x]) \/ In(f, redo'[x])
               PROVE  x \in participants'[f]
    BY <1>1 DEF OnlyParticipantsHoldSteps
  <2>1. Holds(f, x) /\ x # c /\ f \in Steps
    BY <1>5, Ordered DEF Holds
  <2> QED BY <1>6, <2>1 DEF IInv, OnlyParticipantsHoldSteps, Holds
<1>10. RedoneEverywhere'
  <2> SUFFICES ASSUME NEW f \in workspace, NEW x \in Contexts, In(f, redo'[x]),
                      NEW y \in participants'[f]
               PROVE  In(f, redo'[y])
    BY <1>1 DEF RedoneEverywhere, InRedo
  <2>1. In(f, redo[x]) /\ f \notin dropped /\ f \in Steps
    BY <1>4, Ordered DEF Holds
  <2>2. y \in Contexts /\ In(f, redo[y])
    BY <1>6, <2>1 DEF IInv, RedoneEverywhere, InRedo
  <2>3. y # c
    BY <1>6, <2>1, <2>2 DEF Holds
  <2> QED BY <1>4, <2>1, <2>2, <2>3
<1>11. UndoneOrRedone'
  BY <1>3, <1>4 DEF IInv, UndoneOrRedone, InUndo, InRedo
<1>12. PushOrderKept'
  BY <1>3, <1>4 DEF PushOrderKept, Rising, Falling
<1>13. PlainInOneBucket'
  BY <1>1, <1>5 DEF IInv, PlainInOneBucket
<1>14. UndoBelowRedo'
  BY <1>3, <1>4 DEF IInv, UndoBelowRedo
<1> QED BY <1>7, <1>8, <1>9, <1>10, <1>11, <1>12, <1>13, <1>14 DEF IInv

LEMMA DropBrokenKeeps ==
    ASSUME IInv, NEW c \in Contexts, NEW kind \in {"undo", "redo"}, DropBroken(c, kind)
    PROVE  IInv'
<1>1. PICK e \in workspace :
         /\ undo' = [x \in Contexts |-> IF x \in participants[e] THEN <<>> ELSE undo[x]]
         /\ redo' = TruncatedRedo(participants[e])
         /\ UNCHANGED <<bucket, stepVars, request>>
  BY DEF DropBroken
<1>2. participants[e] \in SUBSET Contexts
  BY WorkspaceSteps DEF IInv, TypeOK
<1> DEFINE all == participants[e]
<1>3. /\ redo' \in [Contexts -> Seq(Steps)] /\ \A x \in Contexts : Falling(redo'[x])
      /\ \A x \in Contexts : \A f : In(f, redo'[x])
            <=> /\ In(f, redo[x]) /\ x \notin all
                /\ ~(f \in workspace /\ \E y \in all : In(f, redo[y]))
  BY <1>1, <1>2, Truncated
<1>4. /\ undo' \in [Contexts -> Seq(Steps)] /\ \A x \in Contexts : Rising(undo'[x])
      /\ \A x \in Contexts : \A f : In(f, undo'[x]) <=> In(f, undo[x]) /\ x \notin all
  <2>1. \A x \in Contexts : undo'[x] = IF x \in all THEN <<>> ELSE undo[x]
    BY <1>1
  <2>2. undo' \in [Contexts -> Seq(Steps)]
    BY <1>1, EmptyStack DEF IInv, TypeOK
  <2> HIDE DEF all
  <2> QED BY <2>1, <2>2, EmptyStack, Ordered
<1> HIDE DEF all
<1>5. UNCHANGED <<bucket, pushed, workspace, participants, owners, broken, request>>
  BY <1>1 DEF stepVars
<1>6. \A x \in Contexts : \A f : Holds(f, x)' => Holds(f, x)
  BY <1>3, <1>4 DEF Holds
<1>7. TypeOK'
  <2>1. ASSUME NEW x \in Contexts, bucket'[x] # "live"
        PROVE  undo'[x] = <<>> /\ redo'[x] = <<>>
    <3>1. \A f : ~Holds(f, x)'
      BY <1>5, <1>6, <2>1, Ordered
    <3> QED BY <1>3, <1>4, <3>1, NothingIn DEF Holds
  <2> QED BY <1>3, <1>4, <1>5, <2>1 DEF IInv, TypeOK
<1>8. StepsWerePushed' /\ PlainInOneBucket'
  BY <1>5, <1>6 DEF IInv, StepsWerePushed, PlainInOneBucket
<1>9. OnlyParticipantsHoldSteps'
  BY <1>3, <1>4, <1>5 DEF IInv, OnlyParticipantsHoldSteps
<1>10. RedoneEverywhere'
  <2> SUFFICES ASSUME NEW f \in workspace, NEW x \in Contexts, In(f, redo'[x]),
                      NEW y \in participants[f]
               PROVE  In(f, redo'[y])
    BY <1>5 DEF RedoneEverywhere, InRedo
  <2>1. In(f, redo[x]) /\ f \in Steps /\ \A z \in all : ~In(f, redo[z])
    BY <1>3, Ordered DEF Holds
  <2>2. y \in Contexts /\ In(f, redo[y])
    BY <2>1 DEF IInv, TypeOK, RedoneEverywhere, InRedo
  <2> QED BY <1>3, <2>1, <2>2
<1>11. UndoneOrRedone'
  BY <1>3, <1>4 DEF IInv, UndoneOrRedone, InUndo, InRedo
<1>12. PushOrderKept'
  BY <1>3, <1>4 DEF PushOrderKept, Rising, Falling
<1>13. UndoBelowRedo'
  BY <1>3, <1>4 DEF IInv, UndoBelowRedo
<1> QED BY <1>7, <1>8, <1>9, <1>10, <1>11, <1>12, <1>13 DEF IInv

-----------------------------------------------------------------------------
(* Undo and redo *)

\* A step on top of the undo of all its buckets leaves them, and goes to the
\* redo of the same buckets, below what is there.
LEMMA UndoMoves ==
    ASSUME IInv, NEW c \in Contexts, NEW e, isTopEverywhere(e, c, undo)
    PROVE  /\ contextsOf(e, c) \in SUBSET Contexts
           /\ \A x \in contextsOf(e, c) : e \in Steps /\ In(e, undo[x]) /\ bucket[x] = "live"
           /\ Popped(e, c, undo) \in [Contexts -> Seq(Steps)]
           /\ MovedTo(e, c, redo) \in [Contexts -> Seq(Steps)]
           /\ \A x \in Contexts : \A f :
                 In(f, Popped(e, c, undo)[x])
                    <=> In(f, undo[x]) /\ (x \in contextsOf(e, c) => f # e)
           /\ \A x \in Contexts : \A f :
                 In(f, MovedTo(e, c, redo)[x])
                    <=> In(f, redo[x]) \/ (x \in contextsOf(e, c) /\ f = e)
           /\ \A x \in Contexts : Rising(Popped(e, c, undo)[x]) /\ Falling(MovedTo(e, c, redo)[x])
           /\ \A x \in contextsOf(e, c) : \A f : In(f, Popped(e, c, undo)[x]) => f < e
<1> DEFINE at == contextsOf(e, c)
<1>1. at \in SUBSET Contexts
  BY WorkspaceSteps DEF IInv, TypeOK, contextsOf
<1>2. ASSUME NEW x \in at
      PROVE  /\ e \in Steps /\ In(e, undo[x]) /\ bucket[x] = "live"
             /\ Pop(undo[x]) \in Seq(Steps) /\ Rising(Pop(undo[x]))
             /\ \A f : In(f, Pop(undo[x])) <=> In(f, undo[x]) /\ f # e
             /\ \A f : In(f, Pop(undo[x])) => f < e
             /\ Append(redo[x], e) \in Seq(Steps) /\ Falling(Append(redo[x], e))
             /\ \A f : In(f, Append(redo[x], e)) <=> In(f, redo[x]) \/ f = e
  <2>1. x \in Contexts /\ IsTop(e, undo[x])
    BY <1>1 DEF isTopEverywhere
  <2>2. /\ e \in Steps /\ In(e, undo[x])
        /\ Pop(undo[x]) \in Seq(Steps) /\ Rising(Pop(undo[x]))
        /\ \A f : In(f, Pop(undo[x])) <=> In(f, undo[x]) /\ f # e
        /\ \A f : In(f, Pop(undo[x])) => f < e
    BY <2>1, Ordered, PopStack
  <2>3. \A f : In(f, redo[x]) => f > e
    <3>1. \A f : In(f, redo[x]) => f \in Steps /\ e < f
      BY <2>1, <2>2, Ordered DEF IInv, UndoBelowRedo, Holds
    <3> QED BY <2>2, <3>1, UndoRedoAssumption DEF Steps
  <2>4. /\ Append(redo[x], e) \in Seq(Steps) /\ Falling(Append(redo[x], e))
        /\ \A f : In(f, Append(redo[x], e)) <=> In(f, redo[x]) \/ f = e
    BY <2>1, <2>2, <2>3, Ordered, AppendStack
  <2> QED BY <2>1, <2>2, <2>4, Ordered DEF Holds
<1>3. \A x \in Contexts :
         /\ Popped(e, c, undo)[x] = IF x \in at THEN Pop(undo[x]) ELSE undo[x]
         /\ MovedTo(e, c, redo)[x] = IF x \in at THEN Append(redo[x], e) ELSE redo[x]
  BY DEF Popped, MovedTo
<1>4. /\ Popped(e, c, undo) \in [Contexts -> Seq(Steps)]
      /\ MovedTo(e, c, redo) \in [Contexts -> Seq(Steps)]
  BY <1>2, Ordered DEF Popped, MovedTo
<1> HIDE DEF at
<1>5. \A x \in Contexts : Rising(Popped(e, c, undo)[x]) /\ Falling(MovedTo(e, c, redo)[x])
  BY <1>2, <1>3, Ordered
<1>6. \A x \in Contexts : \A f :
         /\ In(f, Popped(e, c, undo)[x]) <=> In(f, undo[x]) /\ (x \in at => f # e)
         /\ In(f, MovedTo(e, c, redo)[x]) <=> In(f, redo[x]) \/ (x \in at /\ f = e)
  BY <1>2, <1>3
<1>7. \A x \in at : \A f : In(f, Popped(e, c, undo)[x]) => f < e
  BY <1>1, <1>2, <1>3
<1> QED BY <1>1, <1>2, <1>4, <1>5, <1>6, <1>7 DEF at

\* A step on top of the redo of all its buckets goes to their undo, above.
LEMMA RedoMoves ==
    ASSUME IInv, NEW c \in Contexts, NEW e, isTopEverywhere(e, c, redo)
    PROVE  /\ contextsOf(e, c) \in SUBSET Contexts
           /\ \A x \in contextsOf(e, c) : e \in Steps /\ In(e, redo[x]) /\ bucket[x] = "live"
           /\ Popped(e, c, redo) \in [Contexts -> Seq(Steps)]
           /\ MovedTo(e, c, undo) \in [Contexts -> Seq(Steps)]
           /\ \A x \in Contexts : \A f :
                 In(f, Popped(e, c, redo)[x])
                    <=> In(f, redo[x]) /\ (x \in contextsOf(e, c) => f # e)
           /\ \A x \in Contexts : \A f :
                 In(f, MovedTo(e, c, undo)[x])
                    <=> In(f, undo[x]) \/ (x \in contextsOf(e, c) /\ f = e)
           /\ \A x \in Contexts : Falling(Popped(e, c, redo)[x]) /\ Rising(MovedTo(e, c, undo)[x])
           /\ \A x \in contextsOf(e, c) : \A f : In(f, Popped(e, c, redo)[x]) => f > e
<1> DEFINE at == contextsOf(e, c)
<1>1. at \in SUBSET Contexts
  BY WorkspaceSteps DEF IInv, TypeOK, contextsOf
<1>2. ASSUME NEW x \in at
      PROVE  /\ e \in Steps /\ In(e, redo[x]) /\ bucket[x] = "live"
             /\ Pop(redo[x]) \in Seq(Steps) /\ Falling(Pop(redo[x]))
             /\ \A f : In(f, Pop(redo[x])) <=> In(f, redo[x]) /\ f # e
             /\ \A f : In(f, Pop(redo[x])) => f > e
             /\ Append(undo[x], e) \in Seq(Steps) /\ Rising(Append(undo[x], e))
             /\ \A f : In(f, Append(undo[x], e)) <=> In(f, undo[x]) \/ f = e
  <2>1. x \in Contexts /\ IsTop(e, redo[x])
    BY <1>1 DEF isTopEverywhere
  <2>2. /\ e \in Steps /\ In(e, redo[x])
        /\ Pop(redo[x]) \in Seq(Steps) /\ Falling(Pop(redo[x]))
        /\ \A f : In(f, Pop(redo[x])) <=> In(f, redo[x]) /\ f # e
        /\ \A f : In(f, Pop(redo[x])) => f > e
    BY <2>1, Ordered, PopStack
  <2>3. \A f : In(f, undo[x]) => f < e
    BY <2>1, <2>2, Ordered DEF IInv, UndoBelowRedo, Holds
  <2>4. /\ Append(undo[x], e) \in Seq(Steps) /\ Rising(Append(undo[x], e))
        /\ \A f : In(f, Append(undo[x], e)) <=> In(f, undo[x]) \/ f = e
    BY <2>1, <2>2, <2>3, Ordered, AppendStack
  <2> QED BY <2>1, <2>2, <2>4, Ordered DEF Holds
<1>3. \A x \in Contexts :
         /\ Popped(e, c, redo)[x] = IF x \in at THEN Pop(redo[x]) ELSE redo[x]
         /\ MovedTo(e, c, undo)[x] = IF x \in at THEN Append(undo[x], e) ELSE undo[x]
  BY DEF Popped, MovedTo
<1>4. /\ Popped(e, c, redo) \in [Contexts -> Seq(Steps)]
      /\ MovedTo(e, c, undo) \in [Contexts -> Seq(Steps)]
  BY <1>2, Ordered DEF Popped, MovedTo
<1> HIDE DEF at
<1>5. \A x \in Contexts : Falling(Popped(e, c, redo)[x]) /\ Rising(MovedTo(e, c, undo)[x])
  BY <1>2, <1>3, Ordered
<1>6. \A x \in Contexts : \A f :
         /\ In(f, Popped(e, c, redo)[x]) <=> In(f, redo[x]) /\ (x \in at => f # e)
         /\ In(f, MovedTo(e, c, undo)[x]) <=> In(f, undo[x]) \/ (x \in at /\ f = e)
  BY <1>2, <1>3
<1>7. \A x \in at : \A f : In(f, Popped(e, c, redo)[x]) => f > e
  BY <1>1, <1>2, <1>3
<1> QED BY <1>1, <1>2, <1>4, <1>5, <1>6, <1>7 DEF at

LEMMA MoveKeeps ==
    ASSUME IInv, NEW c \in Contexts, NEW e, NEW kind \in {"undo", "redo"},
           isTopEverywhere(e, c, Stacks(kind)), move(e, c, kind),
           UNCHANGED <<bucket, stepVars>>,
           request' \in [Requests -> [kind : {"none", "undo", "redo"}, context : Contexts,
                                      step : 0..MaxSteps]]
    PROVE  IInv'
<1> DEFINE at == contextsOf(e, c)
           moved == IF kind = "undo" THEN undo ELSE redo
           moved_ == IF kind = "undo" THEN undo' ELSE redo'
           other == IF kind = "undo" THEN redo ELSE undo
           other_ == IF kind = "undo" THEN redo' ELSE undo'
<1>0. at \in SUBSET Contexts /\ (e \in workspace => at = participants[e])
  BY WorkspaceSteps DEF IInv, TypeOK, contextsOf
<1>1. /\ at \in SUBSET Contexts
      /\ \A x \in at : e \in Steps /\ In(e, moved[x]) /\ bucket[x] = "live"
      /\ e \in workspace => at = participants[e]
      /\ moved_ \in [Contexts -> Seq(Steps)] /\ other_ \in [Contexts -> Seq(Steps)]
      /\ \A x \in Contexts : \A f :
            /\ In(f, moved_[x]) <=> In(f, moved[x]) /\ (x \in at => f # e)
            /\ In(f, other_[x]) <=> In(f, other[x]) \/ (x \in at /\ f = e)
      /\ kind = "undo" =>
            \A x \in Contexts : /\ Rising(undo'[x]) /\ Falling(redo'[x])
                                /\ \A f : x \in at /\ In(f, undo'[x]) => f < e
      /\ kind = "redo" =>
            \A x \in Contexts : /\ Falling(redo'[x]) /\ Rising(undo'[x])
                                /\ \A f : x \in at /\ In(f, redo'[x]) => f > e
  <2>1. CASE kind = "undo"
    <3>1. /\ undo' = Popped(e, c, undo) /\ redo' = MovedTo(e, c, redo)
          /\ isTopEverywhere(e, c, undo)
      BY <2>1 DEF move, Stacks
    <3> DEFINE gone == Popped(e, c, undo)
               came == MovedTo(e, c, redo)
    <3>2. /\ \A x \in at : e \in Steps /\ In(e, undo[x]) /\ bucket[x] = "live"
          /\ gone \in [Contexts -> Seq(Steps)] /\ came \in [Contexts -> Seq(Steps)]
          /\ \A x \in Contexts : \A f :
                In(f, gone[x]) <=> In(f, undo[x]) /\ (x \in at => f # e)
          /\ \A x \in Contexts : \A f :
                In(f, came[x]) <=> In(f, redo[x]) \/ (x \in at /\ f = e)
          /\ \A x \in Contexts : Rising(gone[x]) /\ Falling(came[x])
          /\ \A x \in at : \A f : In(f, gone[x]) => f < e
      BY <3>1, UndoMoves
    <3>3. undo' = gone /\ redo' = came
      BY <3>1
    <3> HIDE DEF gone, came
    <3> HIDE DEF at
    <3> QED BY <1>0, <2>1, <3>2, <3>3
  <2>2. CASE kind = "redo"
    <3>1. /\ redo' = Popped(e, c, redo) /\ undo' = MovedTo(e, c, undo)
          /\ isTopEverywhere(e, c, redo)
      BY <2>2 DEF move, Stacks
    <3> DEFINE gone == Popped(e, c, redo)
               came == MovedTo(e, c, undo)
    <3>2. /\ \A x \in at : e \in Steps /\ In(e, redo[x]) /\ bucket[x] = "live"
          /\ gone \in [Contexts -> Seq(Steps)] /\ came \in [Contexts -> Seq(Steps)]
          /\ \A x \in Contexts : \A f :
                In(f, gone[x]) <=> In(f, redo[x]) /\ (x \in at => f # e)
          /\ \A x \in Contexts : \A f :
                In(f, came[x]) <=> In(f, undo[x]) \/ (x \in at /\ f = e)
          /\ \A x \in Contexts : Falling(gone[x]) /\ Rising(came[x])
          /\ \A x \in at : \A f : In(f, gone[x]) => f > e
      BY <3>1, RedoMoves
    <3>3. redo' = gone /\ undo' = came
      BY <3>1
    <3> HIDE DEF gone, came
    <3> HIDE DEF at
    <3> QED BY <1>0, <2>2, <3>2, <3>3
  <2> QED BY <2>1, <2>2
<1>2. UNCHANGED <<bucket, pushed, workspace, participants, owners, broken>>
  BY DEF stepVars
<1>3. e \notin workspace => at = {c}
  BY DEF contextsOf
<1> HIDE DEF at
<1>4. /\ undo' \in [Contexts -> Seq(Steps)] /\ redo' \in [Contexts -> Seq(Steps)]
      /\ \A x \in Contexts : Rising(undo'[x]) /\ Falling(redo'[x])
  BY <1>1
<1>5. \A x \in Contexts : \A f : Holds(f, x)' <=> Holds(f, x)
  BY <1>1 DEF Holds
<1>6. TypeOK'
  <2>1. ASSUME NEW x \in Contexts, bucket'[x] # "live"
        PROVE  undo'[x] = <<>> /\ redo'[x] = <<>>
    <3>1. \A f : ~Holds(f, x)'
      BY <1>2, <1>5, <2>1, Ordered
    <3> QED BY <1>4, <3>1, NothingIn DEF Holds
  <2> QED BY <1>2, <1>4, <2>1 DEF IInv, TypeOK
<1>7. StepsWerePushed' /\ OnlyParticipantsHoldSteps' /\ PlainInOneBucket'
  <2>1. StepsWerePushed' /\ PlainInOneBucket'
    BY <1>2, <1>5 DEF IInv, StepsWerePushed, PlainInOneBucket
  <2>2. OnlyParticipantsHoldSteps'
    BY <1>2, <1>5 DEF IInv, OnlyParticipantsHoldSteps, Holds
  <2> QED BY <2>1, <2>2
<1>8. \* On both sides, what holds the step are the buckets it moves in.
      ASSUME NEW x \in Contexts, NEW y \in at, Holds(e, x)
      PROVE  x \in at
  <2>1. e \in Steps /\ Holds(e, y) /\ y \in Contexts
    BY <1>1 DEF Holds
  <2>2. CASE e \in workspace
    BY <1>1, <1>8, <2>2 DEF IInv, OnlyParticipantsHoldSteps, Holds
  <2>3. CASE e \notin workspace
    BY <1>3, <1>8, <2>1, <2>3 DEF IInv, PlainInOneBucket
  <2> QED BY <2>2, <2>3
<1>10. RedoneEverywhere'
  <2> SUFFICES ASSUME NEW f \in workspace, NEW x \in Contexts, In(f, redo'[x]),
                      NEW y \in participants[f]
               PROVE  In(f, redo'[y])
    BY <1>2 DEF RedoneEverywhere, InRedo
  <2>1. f \in Steps /\ y \in Contexts
    BY WorkspaceSteps DEF IInv, TypeOK
  <2>2. CASE In(f, redo[x])
    <3>1. In(f, redo[y])
      BY <2>2 DEF IInv, RedoneEverywhere, InRedo
    <3>2. CASE kind = "undo"
      BY <1>1, <2>1, <3>1, <3>2
    <3>3. CASE kind = "redo" /\ f # e
      BY <1>1, <2>1, <3>1, <3>3
    <3>4. CASE kind = "redo" /\ f = e
      <4>1. x \in at
        BY <1>1, <2>2, <3>4 DEF IInv, OnlyParticipantsHoldSteps
      <4> QED BY <1>1, <3>4, <4>1
    <3> QED BY <3>2, <3>3, <3>4
  <2>3. CASE ~In(f, redo[x])
    <3>1. kind = "undo" /\ f = e /\ x \in at
      BY <1>1, <2>3
    <3> QED BY <1>1, <2>1, <3>1
  <2> QED BY <2>2, <2>3
<1>11. UndoneOrRedone'
  <2> SUFFICES ASSUME NEW f \in Steps, NEW x \in Contexts, NEW y \in Contexts,
                      In(f, moved_[x]), In(f, other_[y])
               PROVE  FALSE
    BY DEF UndoneOrRedone, InUndo, InRedo
  <2>1. In(f, moved[x])
    BY <1>1
  <2>2. ~In(f, other[y])
    BY <2>1 DEF IInv, UndoneOrRedone, InUndo, InRedo
  <2>3. f = e /\ y \in at
    BY <1>1, <2>2
  <2>4. x \in at
    BY <1>8, <2>1, <2>3 DEF Holds
  <2> QED BY <1>1, <2>3, <2>4
<1>12. PushOrderKept'
  BY <1>4 DEF PushOrderKept, Rising, Falling
<1>13. UndoBelowRedo'
  <2> SUFFICES ASSUME NEW x \in Contexts, NEW f \in Steps, NEW g \in Steps,
                      In(f, undo'[x]), In(g, redo'[x])
               PROVE  f < g
    BY DEF UndoBelowRedo
  <2>1. CASE kind = "undo"
    <3>1. In(f, undo[x]) /\ (In(g, redo[x]) \/ (x \in at /\ g = e))
      BY <1>1, <2>1
    <3> QED BY <1>1, <2>1, <3>1 DEF IInv, UndoBelowRedo
  <2>2. CASE kind = "redo"
    <3>1. In(g, redo[x]) /\ (In(f, undo[x]) \/ (x \in at /\ f = e))
      BY <1>1, <2>2
    <3>2. CASE In(f, undo[x])
      BY <3>1, <3>2 DEF IInv, UndoBelowRedo
    <3>3. CASE x \in at /\ f = e
      <4>1. g > f
        BY <1>1, <2>2, <3>3
      <4> QED BY <4>1, UndoRedoAssumption DEF Steps
    <3> QED BY <3>1, <3>2, <3>3
  <2> QED BY <2>1, <2>2
<1> QED BY <1>6, <1>7, <1>10, <1>11, <1>12, <1>13 DEF IInv

-----------------------------------------------------------------------------
(* The theorems *)

LEMMA InitInv == Init => IInv
<1> SUFFICES ASSUME Init PROVE IInv
  OBVIOUS
<1>1. \A c \in Contexts : undo[c] = <<>> /\ redo[c] = <<>>
  BY DEF Init
<1>2. \A c \in Contexts : \A e : ~In(e, undo[c]) /\ ~In(e, redo[c])
  BY <1>1, EmptyStack
<1>3. TypeOK
  BY <1>1, EmptyStack, UndoRedoAssumption DEF Init, TypeOK, IdleRequest
<1>4. PushOrderKept
  BY <1>1 DEF PushOrderKept
<1> QED BY <1>2, <1>3, <1>4
       DEF IInv, StepsWerePushed, OnlyParticipantsHoldSteps, RedoneEverywhere, UndoneOrRedone,
           PlainInOneBucket, UndoBelowRedo, Holds, InUndo, InRedo

LEMMA NextInv == IInv /\ [Next]_vars => IInv'
<1> SUFFICES ASSUME IInv, [Next]_vars PROVE IInv'
  OBVIOUS
<1>1. ASSUME NEW c \in Contexts, PushPlain(c) PROVE IInv'
  BY <1>1, PushPlainKeeps
<1>2. ASSUME NEW c \in Contexts, Replaced(c) PROVE IInv'
  BY <1>2, ClearKeeps DEF Replaced
<1>3. ASSUME NEW c \in Contexts, Closed(c) PROVE IInv'
  BY <1>3, ClearKeeps DEF Closed
<1>4. ASSUME NEW c \in Contexts, NEW adopted \in SUBSET Adoptable(c), Adopt(c, adopted)
      PROVE  IInv'
  BY <1>4, AdoptKeeps
<1>5. ASSUME NEW all \in SUBSET Live, NEW own \in SUBSET (all \ {Workspace}),
             PushWorkspace(all, own)
      PROVE  IInv'
  <2>1. own \in SUBSET all
    OBVIOUS
  <2> QED BY <1>5, <2>1, PushWorkspaceKeeps
<1>6. ASSUME NEW c \in Live, NEW kind \in {"undo", "redo"}, DropBroken(c, kind)
      PROVE  IInv'
  BY <1>6, DropBrokenKeeps DEF Live
<1>7. ASSUME NEW c \in Live, NEW kind \in {"undo", "redo"}, Move(c, kind)
      PROVE  IInv'
  <2>1. PICK e \in Steps : /\ Passes(e, c, kind) /\ move(e, c, kind)
                           /\ UNCHANGED <<bucket, stepVars, request>>
    BY <1>7 DEF Move
  <2>2. c \in Contexts
    BY DEF Live
  <2>3. isTopEverywhere(e, c, Stacks(kind))
    BY <2>1 DEF Passes, isTopEverywhere, contextsOf
  <2> QED BY <2>1, <2>2, <2>3, MoveKeeps DEF IInv, TypeOK
<1>8. ASSUME NEW c \in Live, NEW kind \in {"undo", "redo"}, NEW q \in Requests,
             Ask(q, c, kind)
      PROVE  IInv'
  <2>1. PICK e \in Steps :
           /\ request' = [request EXCEPT ![q] = [kind |-> kind, context |-> c, step |-> e]]
           /\ UNCHANGED <<bucket, stackVars, stepVars>>
    BY <1>8 DEF Ask
  <2>2. /\ [kind |-> kind, context |-> c, step |-> e]
              \in [kind : {"none", "undo", "redo"}, context : Contexts, step : 0..MaxSteps]
        /\ UNCHANGED <<bucket, undo, redo, pushed, workspace, participants, owners, broken>>
    BY <2>1, UndoRedoAssumption DEF Live, Steps, stackVars, stepVars
  <2>3. TypeOK'
    BY <2>1, <2>2 DEF IInv, TypeOK
  <2> QED BY <2>2, <2>3
         DEF IInv, StepsWerePushed, OnlyParticipantsHoldSteps, RedoneEverywhere, UndoneOrRedone,
             PushOrderKept, PlainInOneBucket, UndoBelowRedo, Holds, InUndo, InRedo
<1>9. ASSUME NEW q \in Requests, NEW yes \in BOOLEAN, Answer(q, yes) PROVE IInv'
  <2> DEFINE kind == request[q].kind
             c == request[q].context
             e == request[q].step
  <2>1. /\ kind \in {"undo", "redo"} /\ c \in Contexts
        /\ request' = [request EXCEPT ![q] = IdleRequest]
        /\ UNCHANGED <<bucket, stepVars>>
    BY <1>9 DEF Answer, IInv, TypeOK
  <2>2. request' \in [Requests -> [kind : {"none", "undo", "redo"}, context : Contexts,
                                   step : 0..MaxSteps]]
    BY <2>1, UndoRedoAssumption DEF IInv, TypeOK, IdleRequest
  <2>3. \/ isTopEverywhere(e, c, Stacks(kind)) /\ move(e, c, kind)
        \/ UNCHANGED stackVars
    BY <1>9 DEF Answer
  <2> HIDE DEF kind, c, e
  <2>4. CASE isTopEverywhere(e, c, Stacks(kind)) /\ move(e, c, kind)
    BY <2>1, <2>2, <2>4, MoveKeeps
  <2>5. CASE UNCHANGED stackVars
    <3>1. UNCHANGED <<bucket, undo, redo, pushed, workspace, participants, owners, broken>>
      BY <2>1, <2>5 DEF stackVars, stepVars
    <3>2. TypeOK'
      BY <2>2, <3>1 DEF IInv, TypeOK
    <3> QED BY <3>1, <3>2
           DEF IInv, StepsWerePushed, OnlyParticipantsHoldSteps, RedoneEverywhere,
               UndoneOrRedone, PushOrderKept, PlainInOneBucket, UndoBelowRedo, Holds,
               InUndo, InRedo
  <2> QED BY <2>3, <2>4, <2>5
<1>10. CASE UNCHANGED vars
  BY <1>10 DEF vars, stackVars, stepVars, IInv, TypeOK, StepsWerePushed,
               OnlyParticipantsHoldSteps, RedoneEverywhere, UndoneOrRedone, PushOrderKept,
               PlainInOneBucket, UndoBelowRedo, Holds, InUndo, InRedo
<1> QED BY <1>1, <1>2, <1>3, <1>4, <1>5, <1>6, <1>7, <1>8, <1>9, <1>10 DEF Next

\* The invariant holds of every reachable state.
THEOREM Invariance == Spec => []IInv
BY InitInv, NextInv, PTL DEF Spec

\* The types of the service's state: closed buckets and buckets of documents
\* that are not open hold no step.
THEOREM TypeCorrect == Spec => []TypeOK
<1>1. IInv => TypeOK
  BY DEF IInv
<1> QED BY <1>1, Invariance, PTL

\* leave and dropFromRedo meet what they assert: who holds a step is its
\* participant...
THEOREM HoldersParticipate == Spec => []OnlyParticipantsHoldSteps
<1>1. IInv => OnlyParticipantsHoldSteps
  BY DEF IInv
<1> QED BY <1>1, Invariance, PTL

\* ...and a step that can be redone is in the redo of all of them.
THEOREM RedoIsShared == Spec => []RedoneEverywhere
<1>1. IInv => RedoneEverywhere
  BY DEF IInv
<1> QED BY <1>1, Invariance, PTL

\* No step can be both undone and redone, however late an answer comes.
THEOREM OneSideOnly == Spec => []UndoneOrRedone
<1>1. IInv => UndoneOrRedone
  BY DEF IInv
<1> QED BY <1>1, Invariance, PTL

\* Each bucket undoes the newest step first and redoes the oldest first.
THEOREM OrderOfPushes == Spec => []PushOrderKept
<1>1. IInv => PushOrderKept
  BY DEF IInv
<1> QED BY <1>1, Invariance, PTL
=============================================================================

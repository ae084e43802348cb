-------------------------- MODULE GuardedWritesProofs --------------------------
(***************************************************************************)
(* The file service keeps the promise of GuardedWrites, for any files,     *)
(* callers and texts: under the refinement mapping, the initial states are *)
(* initial states of the promise and every step is one of its steps or     *)
(* changes nothing in it.                                                  *)
(***************************************************************************)
EXTENDS MCFileService, FileServiceProofs

-----------------------------------------------------------------------------
(* The invariant. What a file in place is filled with must reach one file. *)

\* A stamp given out stands for one version at one path.
StampsApart ==
    \A r, s \in Resources :
        IsFile(r) /\ IsFile(s) /\ disk[r].stamp = disk[s].stamp /\ disk[r].stamp # 0 => r = s

\* What the promise calls a version or a write.
InBounds ==
    /\ clock <= MaxClock
    /\ \A c \in Callers :
          /\ call[c].etag \in {NoEtag} \cup 0..clock
          /\ call[c].pc = "torn" => call[c].stamp # 0

PInv == Inv /\ StampsApart /\ InBounds

-----------------------------------------------------------------------------
(* The queue as the promise sees it *)

Written(c) == [text |-> call[c].text, etag |-> call[c].etag, atomic |-> call[c].atomic,
               way |-> IF call[c].pc \in {"inPlace", "torn"} THEN "inPlace" ELSE "any"]
WrittenNext(c) == [text |-> call'[c].text, etag |-> call'[c].etag, atomic |-> call'[c].atomic,
                   way |-> IF call'[c].pc \in {"inPlace", "torn"} THEN "inPlace" ELSE "any"]

\* The calls whose write has not reached the disk.
Waiting(r) ==
    IF queue[r] # <<>> /\ call[Head(queue[r])].pc = "replaced" THEN Tail(queue[r]) ELSE queue[r]

Writes == [text : Texts, etag : {NoEtag} \cup 0..MaxClock, atomic : BOOLEAN,
           way : {"any", "inPlace"}]
Versions == [text : Texts \cup {Torn}, stamp : 0..MaxClock, author : Authors, linked : BOOLEAN]

LEMMA WaitingTyped ==
    ASSUME FSTypeOK, NEW r \in Resources
    PROVE  /\ queue[r] \in Seq(Callers) /\ Waiting(r) \in Seq(Callers)
           /\ Len(Waiting(r)) \in Nat
           /\ \A i \in 1..Len(Waiting(r)) : Waiting(r)[i] \in Callers
           /\ Waiting(r) # <<>> => Len(Waiting(r)) \in Nat \ {0}
           /\ Pending(r) = [i \in 1..Len(Waiting(r)) |-> Written(Waiting(r)[i])]
<1>1. queue[r] \in Seq(Callers)
  BY DEF FSTypeOK
<1>2. Waiting(r) \in Seq(Callers)
  BY <1>1, HeadTailProperties DEF Waiting
<1>3. Pending(r) = [i \in 1..Len(Waiting(r)) |-> Written(Waiting(r)[i])]
  BY DEF Pending, Waiting, Written
<1>4. /\ Len(Waiting(r)) \in Nat
      /\ \A i \in 1..Len(Waiting(r)) : Waiting(r)[i] \in Callers
      /\ Waiting(r) # <<>> => Len(Waiting(r)) \in Nat \ {0}
  BY <1>2, LenProperties, ElementOfSeq, EmptySeq
<1> QED BY <1>1, <1>2, <1>3, <1>4

\* Pending writes are writes.
LEMMA PendingTyped ==
    ASSUME FSTypeOK, InBounds, NEW r \in Resources
    PROVE  /\ Pending(r) \in Seq(Writes) /\ Len(Pending(r)) = Len(Waiting(r))
           /\ \A i \in 1..Len(Waiting(r)) : Pending(r)[i] = Written(Waiting(r)[i])
           /\ \A c \in Callers : Written(c) \in Writes
<1> DEFINE n == Len(Waiting(r))
<1>1. \A c \in Callers : Written(c) \in Writes
  BY FileServiceAssumption DEF FSTypeOK, Call, InBounds, Written, Writes
<1>2. n \in Nat /\ Pending(r) = [i \in 1..n |-> Written(Waiting(r)[i])]
      /\ \A i \in 1..n : Waiting(r)[i] \in Callers
  BY WaitingTyped
<1> HIDE DEF n
<1>3. Pending(r) \in [1..n -> Writes]
  BY <1>1, <1>2
<1>4. Pending(r) \in Seq(Writes)
  BY <1>2, <1>3, SeqDef
<1>5. Len(Pending(r)) = n
  BY <1>2, <1>3, <1>4, LenProperties
<1> QED BY <1>1, <1>2, <1>4, <1>5 DEF n

\* Nothing pending changes if the calls that wait do not.
LEMMA PendingStays ==
    ASSUME FSTypeOK, FSTypeOK', NEW r \in Resources, Waiting(r)' = Waiting(r),
           \A c \in Callers :
               (\E i \in 1..Len(Waiting(r)) : Waiting(r)[i] = c) => Written(c)' = Written(c)
    PROVE  Pending(r)' = Pending(r)
<1>1. Pending(r) = [i \in 1..Len(Waiting(r)) |-> Written(Waiting(r)[i])]
      /\ \A i \in 1..Len(Waiting(r)) : Waiting(r)[i] \in Callers
  BY WaitingTyped
<1>2. Pending(r)' = [i \in 1..Len(Waiting(r)) |-> Written(Waiting(r)[i])]'
  BY DEF Pending, Waiting, Written
<1>3. \A i \in 1..Len(Waiting(r)) : WrittenNext(Waiting(r)[i]) = Written(Waiting(r)[i])
  BY <1>1 DEF Written, WrittenNext
<1>4. Pending(r)' = [i \in 1..Len(Waiting(r)) |-> WrittenNext(Waiting(r)[i])]
  BY <1>2 DEF Written, WrittenNext
<1> QED BY <1>1, <1>3, <1>4

\* The first of the writes leaves.
LEMMA PendingLeaves ==
    ASSUME FSTypeOK, FSTypeOK', InBounds, NEW r \in Resources,
           Waiting(r) # <<>>, Waiting(r)' = Tail(Waiting(r)),
           \A c \in Callers :
               (\E i \in 2..Len(Waiting(r)) : Waiting(r)[i] = c) => Written(c)' = Written(c)
    PROVE  /\ Pending(r) # <<>> /\ Head(Pending(r)) = Written(Head(Waiting(r)))
           /\ Pending(r)' = Tail(Pending(r))
<1> DEFINE w == Waiting(r)
           p == Pending(r)
           n == Len(w)
<1>1. w \in Seq(Callers) /\ n \in Nat \ {0} /\ \A i \in 1..n : w[i] \in Callers
  BY WaitingTyped
<1>2. Len(Tail(w)) = n - 1 /\ \A i \in 1..(n - 1) : Tail(w)[i] = w[i + 1] /\ i + 1 \in 2..n
  BY <1>1, HeadTailProperties
<1>3. p \in Seq(Writes) /\ Len(p) = n /\ \A i \in 1..n : p[i] = Written(w[i])
  BY PendingTyped
<1>4. p # <<>> /\ Head(p) = p[1] /\ Head(w) = w[1]
  BY <1>1, <1>3, EmptySeq
<1>5. /\ Tail(p) \in Seq(Writes) /\ Len(Tail(p)) = n - 1
      /\ \A i \in 1..(n - 1) : Tail(p)[i] = p[i + 1]
  BY <1>3, <1>4, HeadTailProperties
<1>6. Pending(r)' = [i \in 1..Len(Waiting(r)) |-> Written(Waiting(r)[i])]'
  BY DEF Pending, Waiting, Written
<1>7. Pending(r)' = [i \in 1..(n - 1) |-> WrittenNext(Tail(w)[i])]
  BY <1>2, <1>6 DEF Written, WrittenNext
<1> HIDE DEF w, p, n
<1>8. \A i \in 1..(n - 1) : WrittenNext(Tail(w)[i]) = Tail(p)[i]
  <2> SUFFICES ASSUME NEW i \in 1..(n - 1)
               PROVE  WrittenNext(Tail(w)[i]) = Tail(p)[i]
    OBVIOUS
  <2>1. Tail(w)[i] = w[i + 1] /\ i + 1 \in 2..n /\ i + 1 \in 1..n
    BY <1>1, <1>2
  <2>2. w[i + 1] \in Callers /\ Tail(p)[i] = Written(w[i + 1])
    BY <1>1, <1>3, <1>5, <2>1
  <2> DEFINE c == w[i + 1]
  <2>3. c \in Callers /\ \E j \in 2..Len(Waiting(r)) : Waiting(r)[j] = c
    BY <2>1, <2>2 DEF w, n
  <2> HIDE DEF c
  <2>4. WrittenNext(c) = Written(c)
    BY <2>3 DEF Written, WrittenNext
  <2> QED BY <2>1, <2>2, <2>4 DEF c
<1>9. Tail(p) = [i \in 1..(n - 1) |-> Tail(p)[i]]
  BY <1>5, LenProperties
<1>10. Pending(r)' = Tail(p)
  BY <1>7, <1>8, <1>9
<1>11. Head(p) = Written(Head(Waiting(r)))
  BY <1>1, <1>3, <1>4 DEF w
<1> QED BY <1>4, <1>10, <1>11 DEF p

\* A write joins.
LEMMA PendingJoins ==
    ASSUME FSTypeOK, FSTypeOK', InBounds, InBounds', NEW r \in Resources, NEW c \in Callers,
           Waiting(r)' = Append(Waiting(r), c),
           \A d \in Callers :
               (\E i \in 1..Len(Waiting(r)) : Waiting(r)[i] = d) => Written(d)' = Written(d)
    PROVE  /\ Pending(r)' = Append(Pending(r), Written(c)') /\ Written(c)' \in Writes
           /\ Pending(r)' # <<>> /\ Pending(r)'[Len(Pending(r)')] = Written(c)'
<1> DEFINE w == Waiting(r)
           p == Pending(r)
           n == Len(w)
           new == WrittenNext(c)
           v == Append(w, c)
           q == Append(p, new)
<1>1. w \in Seq(Callers) /\ n \in Nat /\ \A i \in 1..n : w[i] \in Callers
  BY WaitingTyped
<1>2. /\ Len(v) = n + 1 /\ v[n + 1] = c /\ \A i \in 1..n : v[i] = w[i]
  BY <1>1, AppendProperties
<1>3. p \in Seq(Writes) /\ Len(p) = n /\ \A i \in 1..n : p[i] = Written(w[i])
  BY PendingTyped
<1>4. Written(c)' \in Writes
  <2>1. /\ call'[c] \in Call /\ clock' \in Nat /\ clock' <= MaxClock /\ MaxClock \in Nat
        /\ call'[c].etag \in {NoEtag} \cup 0..clock'
    BY FileServiceAssumption DEF FSTypeOK, InBounds
  <2>2. /\ call'[c].text \in Texts /\ call'[c].atomic \in BOOLEAN
        /\ call'[c].etag \in {NoEtag} \cup 0..MaxClock
    BY <2>1 DEF Call
  <2> QED BY <2>2 DEF Written, Writes
<1>40. new \in Writes /\ Written(c)' = new
  BY <1>4 DEF Written, WrittenNext
<1> HIDE DEF new
<1>5. /\ q \in Seq(Writes) /\ Len(q) = n + 1 /\ q[n + 1] = new
      /\ \A i \in 1..n : q[i] = p[i]
  BY <1>3, <1>40, AppendProperties
<1>6. Pending(r)' = [i \in 1..Len(Waiting(r)) |-> Written(Waiting(r)[i])]'
  BY DEF Pending, Waiting, Written
<1>7. Pending(r)' = [i \in 1..(n + 1) |-> WrittenNext(v[i])]
  BY <1>2, <1>6 DEF Written, WrittenNext
<1> HIDE DEF w, p, n, v, q
<1>8. \A i \in 1..(n + 1) : WrittenNext(v[i]) = q[i]
  <2> SUFFICES ASSUME NEW i \in 1..(n + 1)
               PROVE  WrittenNext(v[i]) = q[i]
    OBVIOUS
  <2>1. CASE i = n + 1
    BY <1>1, <1>2, <1>5, <2>1 DEF new
  <2>2. CASE i # n + 1
    <3>1. i \in 1..n
      BY <1>1, <2>2
    <3> DEFINE d == w[i]
    <3>2. d \in Callers /\ v[i] = d /\ q[i] = Written(d)
          /\ \E j \in 1..Len(Waiting(r)) : Waiting(r)[j] = d
      BY <1>1, <1>2, <1>3, <1>5, <3>1 DEF w, n
    <3> HIDE DEF d
    <3>3. WrittenNext(d) = Written(d)
      BY <3>2 DEF Written, WrittenNext
    <3> QED BY <3>2, <3>3
  <2> QED BY <2>1, <2>2
<1>9. q = [i \in 1..(n + 1) |-> q[i]]
  BY <1>5, LenProperties
<1>10. Pending(r)' = q
  BY <1>7, <1>8, <1>9
<1>11. q # <<>>
  BY <1>1, <1>5, EmptySeq
<1> QED BY <1>1, <1>4, <1>40, <1>5, <1>10, <1>11 DEF q, p

-----------------------------------------------------------------------------
(* What each kind of change does to the queues *)

\* The calls that a queue holds, and its head.
LEMMA QueueFacts ==
    ASSUME PInv, NEW r \in Resources
    PROVE  /\ queue[r] \in Seq(Callers) /\ Len(queue[r]) \in Nat
           /\ queue[r] # <<>> =>
                 /\ Len(queue[r]) \in Nat \ {0} /\ Head(queue[r]) = queue[r][1]
                 /\ Tail(queue[r]) \in Seq(Callers) /\ Len(Tail(queue[r])) = Len(queue[r]) - 1
                 /\ \A i \in 1..(Len(queue[r]) - 1) : Tail(queue[r])[i] = queue[r][i + 1]
           /\ \A i \in 1..Len(queue[r]) :
                 /\ queue[r][i] \in Callers /\ call[queue[r][i]].resource = r
                 /\ call[queue[r][i]].pc \in Queued
                 /\ i > 1 => call[queue[r][i]].pc = "queued"
           /\ \A i, j \in 1..Len(queue[r]) : queue[r][i] = queue[r][j] => i = j
           /\ \A i \in 1..Len(Waiting(r)) : \E j \in 1..Len(queue[r]) : Waiting(r)[i] = queue[r][j]
<1>1. queue[r] \in Seq(Callers)
  BY DEF PInv, Inv, FSTypeOK
<1>2. /\ Len(queue[r]) \in Nat
      /\ queue[r] # <<>> =>
           /\ Len(queue[r]) \in Nat \ {0} /\ Head(queue[r]) = queue[r][1]
           /\ Tail(queue[r]) \in Seq(Callers) /\ Len(Tail(queue[r])) = Len(queue[r]) - 1
           /\ \A i \in 1..(Len(queue[r]) - 1) : Tail(queue[r])[i] = queue[r][i + 1]
  BY <1>1, LenProperties, EmptySeq, HeadTailProperties
<1>3. \A i \in 1..Len(queue[r]) : queue[r][i] \in Callers
  BY <1>1, ElementOfSeq
<1>4. /\ \A i \in 1..Len(queue[r]) :
            /\ call[queue[r][i]].resource = r
            /\ call[queue[r][i]].pc \in Queued
            /\ i > 1 => call[queue[r][i]].pc = "queued"
      /\ \A i, j \in 1..Len(queue[r]) : queue[r][i] = queue[r][j] => i = j
  BY DEF PInv, Inv, QueueInv, QueuedHere, QueuedOnce, Positions
<1>5. \A i \in 1..Len(Waiting(r)) : \E j \in 1..Len(queue[r]) : Waiting(r)[i] = queue[r][j]
  <2>1. CASE queue[r] # <<>> /\ call[Head(queue[r])].pc = "replaced"
    <3>1. Waiting(r) = Tail(queue[r])
      BY <2>1 DEF Waiting
    <3>2. \A i \in 1..(Len(queue[r]) - 1) :
             i + 1 \in 1..Len(queue[r]) /\ Tail(queue[r])[i] = queue[r][i + 1]
      BY <1>2, <2>1
    <3> QED BY <1>2, <2>1, <3>1, <3>2
  <2>2. CASE ~(queue[r] # <<>> /\ call[Head(queue[r])].pc = "replaced")
    <3>1. Waiting(r) = queue[r]
      BY <2>2 DEF Waiting
    <3> QED BY <3>1
  <2> QED BY <2>1, <2>2
<1> QED BY <1>1, <1>2, <1>3, <1>4, <1>5

\* A change that lands no write of this queue.
LEMMA PendingBeside ==
    ASSUME PInv, FSTypeOK', NEW r \in Resources, queue'[r] = queue[r],
           \A c \in Callers :
               call[c].pc \in Queued /\ call[c].resource = r =>
                   /\ call'[c].text = call[c].text /\ call'[c].etag = call[c].etag
                   /\ call'[c].atomic = call[c].atomic
                   /\ call'[c].pc = "replaced" <=> call[c].pc = "replaced"
                   /\ call'[c].pc \in {"inPlace", "torn"} <=> call[c].pc \in {"inPlace", "torn"}
    PROVE  Pending(r)' = Pending(r)
<1>1. \A i \in 1..Len(queue[r]) :
         call'[queue[r][i]].pc = "replaced" <=> call[queue[r][i]].pc = "replaced"
  BY QueueFacts
<1>2. Waiting(r)' = Waiting(r)
  <2>1. CASE queue[r] = <<>>
    BY <2>1 DEF Waiting
  <2>2. CASE queue[r] # <<>>
    <3>1. Head(queue[r]) = queue[r][1] /\ 1 \in 1..Len(queue[r])
      BY <2>2, QueueFacts
    <3> QED BY <1>1, <3>1 DEF Waiting
  <2> QED BY <2>1, <2>2
<1>3. \A c \in Callers :
         (\E i \in 1..Len(Waiting(r)) : Waiting(r)[i] = c) => Written(c)' = Written(c)
  <2>1. \A c \in Callers :
           (\E i \in 1..Len(Waiting(r)) : Waiting(r)[i] = c)
              => call[c].pc \in Queued /\ call[c].resource = r
    BY QueueFacts
  <2> QED BY <2>1 DEF Written
<1> QED BY <1>2, <1>3, PendingStays DEF PInv, Inv

\* The first and the second of a sequence.
LEMMA FirstTwo ==
    ASSUME NEW S, NEW s \in Seq(S), s # <<>>
    PROVE  /\ Len(s) \in Nat \ {0} /\ Head(s) = s[1] /\ 1 \in 1..Len(s)
           /\ \A i \in 2..Len(s) : i \in 1..Len(s) /\ i > 1 /\ i # 1
           /\ Tail(s) # <<>> => 2 \in 2..Len(s) /\ Head(Tail(s)) = s[2]
<1>1. Len(s) \in Nat \ {0} /\ Head(s) = s[1]
  BY EmptySeq
<1>2. /\ Tail(s) \in Seq(S) /\ Len(Tail(s)) = Len(s) - 1
      /\ \A i \in 1..Len(Tail(s)) : Tail(s)[i] = s[i + 1]
  BY HeadTailProperties
<1>3. ASSUME Tail(s) # <<>> PROVE 2 \in 2..Len(s) /\ Head(Tail(s)) = s[2]
  <2>1. Len(Tail(s)) \in Nat \ {0} /\ Head(Tail(s)) = Tail(s)[1]
    BY <1>2, <1>3, EmptySeq
  <2>2. 1 \in 1..Len(Tail(s)) /\ 2 \in 2..Len(s)
    BY <1>1, <1>2, <2>1
  <2> QED BY <1>2, <2>1, <2>2
<1> QED BY <1>1, <1>3

\* The write at the head lands or ends.
LEMMA HeadLeaves ==
    ASSUME PInv, FSTypeOK', NEW c \in Callers, AtHead(c), call[c].pc \in Queued,
           call[c].pc # "replaced", NEW r, r = call[c].resource,
           call' \in [Callers -> Call], \A d \in Callers \ {c} : call'[d] = call[d],
           \/ queue' = queue /\ call'[c].pc = "replaced"
           \/ queue' = [queue EXCEPT ![r] = Tail(@)]
    PROVE  /\ r \in Resources /\ Pending(r) # <<>> /\ Head(Pending(r)) = Written(c)
           /\ Pending(r)' = Tail(Pending(r))
           /\ \A q \in Resources \ {r} : Pending(q)' = Pending(q)
<1>1. /\ r \in Resources /\ queue[r] # <<>> /\ Head(queue[r]) = c
      /\ queue \in [Resources -> Seq(Callers)]
  BY DEF AtHead, PInv, Inv, FSTypeOK, Call
<1>2. Waiting(r) = queue[r]
  BY <1>1 DEF Waiting
<1> DEFINE n == Len(queue[r])
<1>3. /\ n \in Nat \ {0} /\ c = queue[r][1] /\ Len(Tail(queue[r])) = n - 1
      /\ \A i \in 1..(n - 1) : Tail(queue[r])[i] = queue[r][i + 1]
      /\ \A i \in 2..n : queue[r][i] \in Callers \ {c} /\ call[queue[r][i]].pc = "queued"
      /\ Tail(queue[r]) \in Seq(Callers)
  <2>1. /\ n \in Nat \ {0} /\ c = queue[r][1] /\ Len(Tail(queue[r])) = n - 1
        /\ \A i \in 1..(n - 1) : Tail(queue[r])[i] = queue[r][i + 1]
        /\ Tail(queue[r]) \in Seq(Callers)
        /\ \A i \in 1..n : queue[r][i] \in Callers /\ (i > 1 => call[queue[r][i]].pc = "queued")
        /\ \A i, j \in 1..n : queue[r][i] = queue[r][j] => i = j
    BY <1>1, QueueFacts
  <2>2. 1 \in 1..n /\ \A i \in 2..n : i \in 1..n /\ i > 1 /\ i # 1
    BY <1>1, FirstTwo
  <2>3. ASSUME NEW i \in 2..n PROVE queue[r][i] # c
    <3>1. i \in 1..n /\ 1 \in 1..n /\ i # 1
      BY <2>2
    <3>2. queue[r][i] = queue[r][1] => i = 1
      BY <2>1, <3>1
    <3> QED BY <2>1, <3>1, <3>2
  <2>4. ASSUME NEW i \in 2..n
        PROVE  queue[r][i] \in Callers /\ call[queue[r][i]].pc = "queued"
    BY <2>1, <2>2
  <2> HIDE DEF n
  <2> QED BY <2>1, <2>3, <2>4
<1>4. Waiting(r)' = Tail(queue[r])
  <2>1. CASE queue' = queue /\ call'[c].pc = "replaced"
    BY <1>1, <2>1 DEF Waiting
  <2>2. CASE queue' = [queue EXCEPT ![r] = Tail(@)]
    <3>1. queue'[r] = Tail(queue[r])
      BY <1>1, <2>2
    <3>2. CASE Tail(queue[r]) = <<>>
      BY <3>1, <3>2 DEF Waiting
    <3>3. CASE Tail(queue[r]) # <<>>
      <4>1. Head(Tail(queue[r])) = queue[r][2] /\ 2 \in 2..n
        BY <1>1, <3>3, FirstTwo
      <4>2. call'[queue[r][2]].pc = "queued"
        BY <1>3, <4>1
      <4> QED BY <3>1, <4>1, <4>2 DEF Waiting
    <3> QED BY <3>2, <3>3
  <2> QED BY <2>1, <2>2
<1>5. \A d \in Callers :
         (\E i \in 2..Len(Waiting(r)) : Waiting(r)[i] = d) => Written(d)' = Written(d)
  <2>1. \A d \in Callers : (\E i \in 2..Len(Waiting(r)) : Waiting(r)[i] = d) => d # c
    BY <1>2, <1>3
  <2> QED BY <2>1 DEF Written
<1>6. /\ Pending(r) # <<>> /\ Head(Pending(r)) = Written(Head(Waiting(r)))
      /\ Pending(r)' = Tail(Pending(r))
  BY <1>1, <1>2, <1>4, <1>5, PendingLeaves DEF PInv, Inv
<1>7. ASSUME NEW q \in Resources \ {r} PROVE Pending(q)' = Pending(q)
  <2>1. queue'[q] = queue[q] /\ call[c].resource # q
    BY <1>1, <1>7
  <2>2. \A d \in Callers : call[d].resource = q => call'[d] = call[d]
    BY <2>1
  <2> QED BY <2>1, <2>2, PendingBeside
<1> QED BY <1>1, <1>2, <1>6, <1>7

\* A new write joins its queue.
LEMMA WriteJoins ==
    ASSUME PInv, FSTypeOK', InBounds', NEW c \in Callers, NEW r \in Resources,
           NEW text, NEW etag, NEW atomic, WriteFile(c, r, text, etag, atomic)
    PROVE  /\ Pending(r)' = Append(Pending(r), Written(c)') /\ Written(c)' \in Writes
           /\ Pending(r)' # <<>> /\ Pending(r)'[Len(Pending(r)')] = Written(c)'
           /\ \A q \in Resources \ {r} : Pending(q)' = Pending(q)
<1>1. /\ queue[r] \in Seq(Callers) /\ queue'[r] = Append(queue[r], c)
      /\ \A q \in Resources \ {r} : queue'[q] = queue[q]
      /\ call[c].pc = "idle" /\ call'[c].pc = "queued"
      /\ \A d \in Callers \ {c} : call'[d] = call[d]
  BY DEF WriteFile, Idle, PInv, Inv, FSTypeOK, Call
<1>2. call[c].pc \notin Queued
  BY <1>1 DEF Queued
<1>3. Waiting(r)' = Append(Waiting(r), c)
  <2>1. CASE queue[r] = <<>>
    <3>1. Head(Append(queue[r], c)) = c
      BY <1>1, <2>1, HeadTailAppend
    <3> QED BY <1>1, <2>1, <3>1 DEF Waiting
  <2>2. CASE queue[r] # <<>>
    <3>1. Head(queue[r]) \in Callers \ {c}
      <4>1. 1 \in 1..Len(queue[r]) /\ Head(queue[r]) = queue[r][1]
        BY <1>1, <2>2, FirstTwo
      <4> QED BY <1>2, <4>1, QueueFacts
    <3>2. /\ Head(Append(queue[r], c)) = Head(queue[r]) /\ Append(queue[r], c) # <<>>
          /\ Tail(Append(queue[r], c)) = Append(Tail(queue[r]), c)
      BY <1>1, <2>2, HeadTailAppend, AppendProperties
    <3> QED BY <1>1, <2>2, <3>1, <3>2 DEF Waiting
  <2> QED BY <2>1, <2>2
<1>4. \A d \in Callers :
         (\E i \in 1..Len(Waiting(r)) : Waiting(r)[i] = d) => Written(d)' = Written(d)
  <2>1. \A d \in Callers : (\E i \in 1..Len(Waiting(r)) : Waiting(r)[i] = d) => d # c
    BY <1>2, QueueFacts
  <2> QED BY <1>1, <2>1 DEF Written
<1>5. /\ Pending(r)' = Append(Pending(r), Written(c)') /\ Written(c)' \in Writes
      /\ Pending(r)' # <<>> /\ Pending(r)'[Len(Pending(r)')] = Written(c)'
  BY <1>3, <1>4, PendingJoins DEF PInv, Inv
<1>6. \A q \in Resources \ {r} : Pending(q)' = Pending(q)
  BY <1>1, <1>2, PendingBeside
<1> QED BY <1>5, <1>6

-----------------------------------------------------------------------------
(* The invariant holds *)

LEMMA StartPInv == FSInit => PInv
<1> SUFFICES ASSUME FSInit PROVE PInv
  OBVIOUS
<1>1. Inv
  BY InitInv
<1>2. StampsApart
  <2>1. \A r \in Resources : IsFile(r) => disk[r].stamp = 0
    BY DEF FSInit, IsFile
  <2> QED BY <2>1 DEF StampsApart
<1>3. InBounds
  <2>1. IdleCall.pc = "idle" /\ IdleCall.etag = NoEtag
    BY DEF IdleCall
  <2> HIDE DEF IdleCall
  <2>2. clock = 0 /\ \A c \in Callers : call[c] = IdleCall
    BY DEF FSInit
  <2> QED BY <2>1, <2>2, FileServiceAssumption DEF InBounds
<1> QED BY <1>1, <1>2, <1>3 DEF PInv

\* At most one path gets a new version, others keep theirs or lose it.
LEMMA ApartKept ==
    ASSUME PInv, NEW t \in Resources,
           \A q \in Resources \ {t} : disk'[q] = disk[q] \/ disk'[q] = Absent,
           disk'[t] = disk[t] \/ disk'[t] = Absent \/ disk'[t].stamp = clock + 1
    PROVE  StampsApart'
<1>1. \A q \in Resources : IsFile(q) => disk[q].stamp \in Nat /\ disk[q].stamp <= clock
  BY FilesAreTyped DEF PInv, Inv, StampsPast, File
<1>2. clock \in Nat
  BY DEF PInv, Inv, FSTypeOK
<1>3. \A q \in Resources : IsFile(q) => disk[q].stamp # clock + 1
  BY <1>1, <1>2
<1> QED BY <1>3 DEF PInv, StampsApart, IsFile

\* The file that a write in place fills, if it is still there.
LEMMA FillsOne ==
    ASSUME PInv, NEW c \in Callers, Fill(c)
    PROVE  /\ call[c].text \in Texts /\ clock \in Nat
           /\ \/ disk' = disk
              \/ \E t \in Resources :
                    /\ IsFile(t) /\ disk[t].text = Torn
                    /\ \A q \in Resources \ {t} : disk'[q] = disk[q]
                    /\ disk'[t] = Version(call[c].text, disk[t].author, disk[t].linked)
                    /\ disk[t].author = "other" \/ t = call[c].resource
<1> DEFINE Open(q) == IsFile(q) /\ disk[q].text = Torn /\ disk[q].stamp = call[c].stamp
<1>1. /\ call[c].pc = "torn" /\ call[c].stamp # 0 /\ call[c].text \in Texts /\ clock \in Nat
      /\ disk \in [Resources -> File \cup {Absent}]
  BY DEF Fill, PInv, InBounds, Inv, FSTypeOK, Call
<1>2. disk' = [q \in Resources |->
                 IF Open(q) THEN Version(call[c].text, disk[q].author, disk[q].linked) ELSE disk[q]]
  BY DEF Fill
<1>3. CASE \A q \in Resources : ~Open(q)
  <2>1. \A q \in Resources : disk'[q] = disk[q]
    BY <1>2, <1>3
  <2>2. disk' = disk
    BY <1>1, <1>2, <2>1
  <2> QED BY <1>1, <2>2
<1>4. ASSUME NEW t \in Resources, Open(t)
      PROVE  /\ IsFile(t) /\ disk[t].text = Torn
             /\ \A q \in Resources \ {t} : disk'[q] = disk[q]
             /\ disk'[t] = Version(call[c].text, disk[t].author, disk[t].linked)
             /\ disk[t].author = "other" \/ t = call[c].resource
  <2>1. \A q \in Resources \ {t} : ~Open(q)
    BY <1>1, <1>4 DEF PInv, StampsApart
  <2>2. disk[t].author \in Authors
    BY <1>4, FilesAreTyped DEF PInv, Inv, File
  <2>3. disk[t].author = "other" \/ t = call[c].resource
    BY <1>1, <1>4, <2>2 DEF PInv, Inv, TornAtHome, Authors
  <2> HIDE DEF Version
  <2> QED BY <1>2, <1>4, <2>1, <2>3
<1> QED BY <1>1, <1>3, <1>4

LEMMA ApartStep == ASSUME PInv, FSNext PROVE StampsApart'
<1> USE DEF PInv
<1>0. /\ clock \in Nat /\ disk \in [Resources -> File \cup {Absent}]
      /\ \A c \in Callers : call[c].resource \in Resources /\ call[c].target \in Resources
  BY DEF Inv, FSTypeOK, Call
<1>1. CASE UNCHANGED disk
  BY <1>1 DEF StampsApart, IsFile
<1>2. ASSUME NEW t \in Resources, NEW text, NEW author, NEW linked,
             disk' = [disk EXCEPT ![t] = Version(text, author, linked)]
      PROVE  StampsApart'
  <2>1. /\ disk'[t].stamp = clock + 1 /\ \A q \in Resources \ {t} : disk'[q] = disk[q]
    BY <1>0, <1>2 DEF Version
  <2> QED BY <2>1, ApartKept
<1>3. ASSUME NEW t \in Resources, Del(t) PROVE StampsApart'
  <2>1. /\ disk'[t] = Absent /\ \A q \in Resources \ {t} : disk'[q] = disk[q]
    BY <1>0, <1>3 DEF Del
  <2> QED BY <2>1, ApartKept
<1>4. ASSUME NEW c \in Callers, Fill(c) PROVE StampsApart'
  <2>1. ASSUME NEW t \in Resources,
               \A q \in Resources \ {t} : disk'[q] = disk[q],
               disk'[t] = Version(call[c].text, disk[t].author, disk[t].linked)
        PROVE  StampsApart'
    <3>1. disk'[t].stamp = clock + 1
      BY <2>1 DEF Version
    <3> QED BY <2>1, <3>1, ApartKept
  <2> QED BY <1>1, <1>4, <2>1, FillsOne
<1>5. ASSUME NEW c \in Callers, FinishMove(c) PROVE StampsApart'
  <2> DEFINE s == call[c].resource
             t == call[c].target
  <2>1. s \in Resources /\ t \in Resources
    BY <1>0
  <2>2. CASE IsFile(s)
    <3>1. disk' = [disk EXCEPT ![s] = Absent, ![t] = [disk[s] EXCEPT !.author = "other"]]
      BY <1>5, <2>2 DEF FinishMove
    <3>2. disk[s] \in File
      BY <2>1, <2>2, FilesAreTyped DEF Inv
    <3> HIDE DEF s, t
    <3>3. /\ disk'[t].stamp = disk[s].stamp /\ (s # t => disk'[s] = Absent)
          /\ \A q \in Resources \ {s, t} : disk'[q] = disk[q]
      BY <1>0, <2>1, <3>1, <3>2 DEF File
    <3> QED BY <2>1, <2>2, <3>3 DEF StampsApart, IsFile
  <2>3. CASE ~IsFile(s)
    BY <1>1, <1>5, <2>3 DEF FinishMove
  <2> QED BY <2>2, <2>3
<1>6. ASSUME NEW c \in Callers, FinishCopy(c) PROVE StampsApart'
  <2> DEFINE s == call[c].resource
             t == call[c].target
  <2>1. CASE ~IsFile(s)
    BY <1>1, <1>6, <2>1 DEF FinishCopy
  <2>2. CASE IsFile(s)
    <3>1. PICK linked \in {FALSE, disk[s].linked} :
              disk' = [disk EXCEPT ![t] = Version(disk[s].text, "other", linked)]
      BY <1>6, <2>2 DEF FinishCopy
    <3> QED BY <1>0, <1>2, <3>1
  <2> QED BY <2>1, <2>2
<1>7. ASSUME NEW c \in Callers, Task(c) PROVE StampsApart'
  <2>0. ASSUME Replace(c) PROVE StampsApart'
    BY <1>0, <1>2, <2>0 DEF Replace
  <2>1. ASSUME Truncate(c) PROVE StampsApart'
    <3> DEFINE r == call[c].resource
               linked == IsFile(r) /\ disk[r].linked
    <3>1. disk' = [disk EXCEPT ![r] = Version(Torn, "write", linked)] /\ r \in Resources
      BY <1>0, <2>1 DEF Truncate
    <3> HIDE DEF linked, r
    <3> QED BY <1>2, <3>1
  <2>2. Begin(c) \/ Refuse(c) \/ Fail(c) \/ atomicReplacement(c) \/ StatWritten(c) => UNCHANGED disk
    BY DEF Begin, Refuse, Fail, atomicReplacement, StatWritten
  <2> QED BY <1>1, <1>4, <1>7, <2>0, <2>1, <2>2 DEF Task
<1>8. ASSUME NEW r \in Resources, Foreign(r) PROVE StampsApart'
  <2>1. ASSUME NEW t \in Texts, NEW l \in Linkings, ForeignRewrite(r, t, l) PROVE StampsApart'
    BY <1>2, <2>1 DEF ForeignRewrite
  <2> QED BY <1>3, <1>8, <2>1 DEF Foreign, ForeignDelete
<1>9. ASSUME NEW c \in Callers, Request(c) PROVE UNCHANGED disk
  BY <1>9 DEF Request, WriteFile, StartTransfer
<1> QED BY <1>1, <1>3, <1>5, <1>6, <1>7, <1>8, <1>9 DEF FSNext, Crash

LEMMA BoundsStep == ASSUME PInv, FSNext PROVE InBounds'
<1> USE DEF PInv
<1>0. /\ clock \in Nat /\ clock <= MaxClock /\ call \in [Callers -> Call]
      /\ IdleCall.etag = NoEtag /\ IdleCall.pc = "idle"
      /\ \A c \in Callers : /\ call[c].etag \in {NoEtag} \cup 0..clock
                            /\ call[c].pc = "torn" => call[c].stamp # 0
  BY DEF Inv, FSTypeOK, InBounds, IdleCall
<1>1. clock' = clock \/ (clock' = clock + 1 /\ clock < MaxClock)
  <2>1. ASSUME NEW c \in Callers, Request(c) PROVE clock' = clock
    BY <2>1 DEF Request, WriteFile, StartTransfer
  <2>2. ASSUME NEW c \in Callers, Task(c)
        PROVE  clock' = clock \/ (clock' = clock + 1 /\ clock < MaxClock)
    BY <2>2 DEF Task, Begin, Refuse, Fail, atomicReplacement, Replace, Truncate, Fill, StatWritten
  <2>3. ASSUME NEW c \in Callers, FinishMove(c) \/ FinishCopy(c)
        PROVE  clock' = clock \/ (clock' = clock + 1 /\ clock < MaxClock)
    BY <2>3 DEF FinishMove, FinishCopy
  <2>4. ASSUME NEW r \in Resources, Del(r) \/ Foreign(r)
        PROVE  clock' = clock \/ (clock' = clock + 1 /\ clock < MaxClock)
    BY <2>4 DEF Del, Foreign, ForeignRewrite, ForeignDelete
  <2>5. Crash => clock' = clock
    BY DEF Crash
  <2> QED BY <2>1, <2>2, <2>3, <2>4, <2>5 DEF FSNext
<1>2. clock' <= MaxClock /\ \A n \in 0..clock : n \in 0..clock'
  BY <1>0, <1>1, FileServiceAssumption
<1> HIDE DEF IdleCall
\* A call gets a new guard or stamp in these ways only.
<1>3. ASSUME NEW c \in Callers, NEW new, call' = [call EXCEPT ![c] = new],
             new.etag \in {NoEtag} \cup 0..clock, new.pc = "torn" => new.stamp # 0
      PROVE  InBounds'
  <2>1. \A d \in Callers : call'[d] = IF d = c THEN new ELSE call[d]
    BY <1>0, <1>3
  <2> QED BY <1>0, <1>2, <1>3, <2>1 DEF InBounds
<1>4. CASE UNCHANGED call
  BY <1>0, <1>2, <1>4 DEF InBounds
<1>5. ASSUME NEW c \in Callers, call' = [call EXCEPT ![c] = IdleCall] PROVE InBounds'
  BY <1>0, <1>3, <1>5
<1>6. ASSUME NEW c \in Callers, Request(c) PROVE InBounds'
  <2>1. ASSUME NEW r \in Resources, NEW t \in Texts, NEW e \in KnownEtags, NEW a \in Atomics,
               WriteFile(c, r, t, e, a)
        PROVE  InBounds'
    <3> DEFINE new == [call[c] EXCEPT !.pc = "queued", !.resource = r, !.text = t,
                                      !.etag = e, !.atomic = a]
    <3>1. call' = [call EXCEPT ![c] = new]
      BY <2>1 DEF WriteFile
    <3>2. new.etag \in {NoEtag} \cup 0..clock /\ new.pc # "torn"
      BY <1>0 DEF KnownEtags, Call
    <3> HIDE DEF new
    <3> QED BY <1>3, <3>1, <3>2
  <2>2. ASSUME NEW s \in Resources, NEW t \in Resources, NEW o \in BOOLEAN,
               NEW pc \in {"moving", "copying"}, StartTransfer(c, pc, s, t, o)
        PROVE  InBounds'
    <3> DEFINE new == [call[c] EXCEPT !.pc = pc, !.resource = s, !.target = t]
    <3>1. call' = [call EXCEPT ![c] = new]
      BY <2>2 DEF StartTransfer
    <3>2. new.etag \in {NoEtag} \cup 0..clock /\ new.pc # "torn"
      BY <1>0 DEF Call
    <3> HIDE DEF new
    <3> QED BY <1>3, <3>1, <3>2
  <2> QED BY <1>6, <2>1, <2>2 DEF Request
<1>7. ASSUME NEW c \in Callers, Task(c) PROVE InBounds'
  <2>1. ASSUME NEW pc \in Queued \ {"torn"}, call' = [call EXCEPT ![c].pc = pc]
        PROVE  InBounds'
    <3> DEFINE new == [call[c] EXCEPT !.pc = pc]
    <3>1. new.etag \in {NoEtag} \cup 0..clock /\ new.pc # "torn"
      BY <1>0 DEF Call
    <3> HIDE DEF new
    <3> QED BY <1>3, <2>1, <3>1 DEF new
  <2>2. CASE Truncate(c)
    <3> DEFINE new == [call[c] EXCEPT !.pc = "torn", !.stamp = clock + 1]
    <3>1. call' = [call EXCEPT ![c] = new]
      BY <2>2 DEF Truncate
    <3>2. new.etag \in {NoEtag} \cup 0..clock /\ new.stamp # 0
      BY <1>0 DEF Call
    <3> HIDE DEF new
    <3> QED BY <1>3, <3>1, <3>2
  <2> QED BY <1>5, <1>7, <2>1, <2>2
          DEF Task, Begin, Refuse, Fail, atomicReplacement, Replace, Fill, StatWritten, Settle, Queued
<1>8. CASE Crash
  BY <1>0, <1>2, <1>8 DEF Crash, InBounds
<1>9. ASSUME NEW r \in Resources, Del(r) \/ Foreign(r) PROVE UNCHANGED call
  BY <1>9 DEF Del, Foreign, ForeignRewrite, ForeignDelete
<1> QED BY <1>4, <1>5, <1>6, <1>7, <1>8, <1>9 DEF FSNext, FinishMove, FinishCopy

LEMMA StepPInv == PInv /\ [FSNext]_fsVars => PInv'
<1> SUFFICES ASSUME PInv, [FSNext]_fsVars PROVE PInv'
  OBVIOUS
<1>1. Inv'
  BY StepInv DEF PInv
<1>2. CASE FSNext
  BY <1>1, <1>2, ApartStep, BoundsStep DEF PInv
<1>3. CASE UNCHANGED fsVars
  BY <1>1, <1>3 DEF PInv, StampsApart, InBounds, IsFile, fsVars
<1> QED BY <1>2, <1>3

-----------------------------------------------------------------------------
(* Every step is a step of the promise *)

LEMMA NextContent ==
    ASSUME PInv'
    PROVE  disk' \in [Resources -> Versions \cup {Absent}]
<1>1. /\ disk' \in [Resources -> File \cup {Absent}] /\ clock' \in Nat
      /\ \A r \in Resources : disk'[r] # Absent => disk'[r].stamp <= clock'
      /\ clock' <= MaxClock
  BY DEF PInv, Inv, FSTypeOK, StampsPast, InBounds, IsFile
<1>2. ASSUME NEW r \in Resources, disk'[r] # Absent PROVE disk'[r] \in Versions
  <2>1. disk'[r] \in File /\ disk'[r].stamp \in 0..MaxClock
    BY <1>1, <1>2, FileServiceAssumption DEF File
  <2> QED BY <2>1 DEF File, Versions
<1> QED BY <1>1, <1>2

LEMMA ElsewhereStep ==
    ASSUME PInv',
           \A r \in Resources : \/ disk'[r] = disk[r] \/ disk'[r] = Absent
                                \/ disk'[r].author = "other",
           ASSUME NEW r \in Resources, disk'[r] # Absent, disk'[r].text = Torn
           PROVE  \E q \in Resources : IsFile(q) /\ disk[q].text = Torn
    PROVE  Promise!Elsewhere
BY NextContent DEF Promise!Elsewhere, Promise!IsTorn, Versions, IsFile

\* A file is put at the resource of a write.
LEMMA StoresStep ==
    ASSUME PInv, PInv', NEW r \in Resources, NEW text,
           \A q \in Resources \ {r} : disk'[q] = disk[q],
           disk'[r] # Absent, disk'[r].text = text, disk'[r].author = "write"
    PROVE  Promise!Stores(r, text)
<1>1. disk' \in [Resources -> Versions \cup {Absent}] /\ disk \in [Resources -> File \cup {Absent}]
  BY NextContent DEF PInv, Inv, FSTypeOK
<1>2. disk' = [disk EXCEPT ![r] = disk'[r]]
  BY <1>1
<1> QED BY <1>1, <1>2 DEF Promise!Stores, Versions

LEMMA AskStep ==
    ASSUME PInv, PInv', NEW c \in Callers, NEW r \in Resources, NEW text, NEW etag, NEW atomic,
           WriteFile(c, r, text, etag, atomic)
    PROVE  Promise!Ask(r)
<1>1. /\ Pending(r)' = Append(Pending(r), Written(c)') /\ Written(c)' \in Writes
      /\ Pending(r)' # <<>> /\ Pending(r)'[Len(Pending(r)')] = Written(c)'
      /\ \A q \in Resources \ {r} : Pending(q)' = Pending(q)
  BY WriteJoins DEF PInv, Inv
<1>2. disk' = disk
  BY DEF WriteFile
<1>3. Written(c).way' = "any"
  BY DEF WriteFile, Written, PInv, Inv, FSTypeOK, Call
<1> QED BY <1>1, <1>2, <1>3 DEF Promise!Ask, Writes

\* A write that is refused, or fails before it is on disk.
LEMMA DropStep ==
    ASSUME PInv, PInv', NEW c \in Callers, Refuse(c) \/ Fail(c), call[c].pc # "replaced",
           NEW r, r = call[c].resource
    PROVE  r \in Resources /\ Promise!Drop(r)
<1>1. /\ AtHead(c) /\ call[c].pc \in Queued /\ call[c].pc # "replaced"
      /\ call' = [call EXCEPT ![c] = IdleCall] /\ queue' = [queue EXCEPT ![r] = Tail(@)]
      /\ disk' = disk
  BY DEF Refuse, Fail, Settle, Queued
<1>2. call' \in [Callers -> Call] /\ \A d \in Callers \ {c} : call'[d] = call[d]
  BY <1>1 DEF PInv, Inv, FSTypeOK
<1>3. /\ r \in Resources /\ Pending(r) # <<>> /\ Pending(r)' = Tail(Pending(r))
      /\ \A q \in Resources \ {r} : Pending(q)' = Pending(q)
  BY <1>1, <1>2, HeadLeaves DEF PInv, Inv
<1>4. Promise!Elsewhere
  BY <1>1, ElsewhereStep DEF IsFile
<1> QED BY <1>3, <1>4 DEF Promise!Drop

\* A write that landed.
LEMMA LandsPending ==
    ASSUME PInv, PInv', NEW c \in Callers, Replace(c) \/ Fill(c), NEW r, r = call[c].resource
    PROVE  /\ r \in Resources /\ Pending(r) # <<>> /\ Head(Pending(r)) = Written(c)
           /\ Pending(r)' = Tail(Pending(r))
           /\ \A q \in Resources \ {r} : Pending(q)' = Pending(q)
<1>1. /\ call[c].pc \in Running /\ call[c].pc \in Queued /\ call[c].pc # "replaced"
      /\ call' = [call EXCEPT ![c].pc = "replaced"] /\ queue' = queue
  BY DEF Replace, Fill, Running, Queued
<1>2. /\ call' \in [Callers -> Call] /\ call'[c].pc = "replaced"
      /\ \A d \in Callers \ {c} : call'[d] = call[d]
  BY <1>1 DEF PInv, Inv, FSTypeOK, Call
<1>3. AtHead(c)
  BY <1>1, RunningIsHead DEF PInv, Inv
<1> QED BY <1>1, <1>2, <1>3, HeadLeaves DEF PInv, Inv

\* The check holds until the file is replaced.
LEMMA NoClobber ==
    ASSUME PInv, NEW c \in Callers, call[c].pc \in Unwritten, NEW r, r = call[c].resource
    PROVE  ~Promise!Clobbers(r, Written(c))
BY DEF PInv, Inv, GuardHoldsUntilReplace, Promise!Clobbers, Written, IsFile

\* It is the first of the pending ones.
LEMMA FirstPending ==
    ASSUME PInv, NEW c \in Callers, call[c].pc \in Unwritten, NEW r, r = call[c].resource
    PROVE  /\ r \in Resources /\ AtHead(c) /\ Waiting(r) = queue[r]
           /\ 1 \in 1..Len(queue[r]) /\ queue[r][1] = c
           /\ Pending(r) \in Seq(Writes) /\ Len(Pending(r)) = Len(queue[r])
           /\ Pending(r) # <<>> /\ Head(Pending(r)) = Written(c) /\ Pending(r)[1] = Written(c)
<1>1. r \in Resources /\ FSTypeOK /\ AtHead(c) /\ call[c].pc # "replaced"
  BY RunningIsHead DEF PInv, Inv, FSTypeOK, Call, Unwritten, Running, Queued
<1>2. /\ queue[r] # <<>> /\ Head(queue[r]) = c /\ Waiting(r) = queue[r]
  BY <1>1 DEF AtHead, Waiting
<1>3. 1 \in 1..Len(queue[r]) /\ queue[r][1] = c
  BY <1>1, <1>2, FirstTwo, QueueFacts
<1>4. /\ Pending(r) \in Seq(Writes) /\ Len(Pending(r)) = Len(queue[r])
      /\ Pending(r)[1] = Written(c)
  BY <1>1, <1>2, <1>3, PendingTyped DEF PInv
<1> QED BY <1>1, <1>2, <1>3, <1>4, EmptySeq

\* It goes in place, or prepares a file to rename, which the promise does not see.
LEMMA DecisionStep ==
    ASSUME PInv, PInv', NEW c \in Callers, atomicReplacement(c), NEW r, r = call[c].resource
    PROVE  /\ r \in Resources /\ disk' = disk
           /\ \/ Promise!GoInPlace(r)
              \/ \A q \in Resources : Pending(q)' = Pending(q)
<1> DEFINE p == Pending(r)
           n == Len(queue[r])
<1>1. /\ call[c].pc = "checked" /\ UNCHANGED <<disk, queue>> /\ FSTypeOK'
      /\ call \in [Callers -> Call] /\ \A d \in Callers \ {c} : call'[d] = call[d]
      /\ call'[c] = [call[c] EXCEPT !.pc = IF InPlace(c) THEN "inPlace" ELSE "renaming"]
  BY DEF atomicReplacement, PInv, Inv, FSTypeOK
<1>2. /\ r \in Resources /\ Waiting(r) = queue[r] /\ 1 \in 1..n /\ queue[r][1] = c
      /\ p \in Seq(Writes) /\ Len(p) = n /\ p # <<>> /\ p[1] = Written(c) /\ Head(p) = Written(c)
  BY <1>1, FirstPending DEF Unwritten
<1>3. CASE ~InPlace(c)
  <2>1. call'[c] = [call[c] EXCEPT !.pc = "renaming"]
    BY <1>1, <1>3
  <2>2. \A d \in Callers : /\ call'[d].text = call[d].text /\ call'[d].etag = call[d].etag
                           /\ call'[d].atomic = call[d].atomic
                           /\ call'[d].pc = "replaced" <=> call[d].pc = "replaced"
                           /\ call'[d].pc \in {"inPlace", "torn"} <=> call[d].pc \in {"inPlace", "torn"}
    BY <1>1, <2>1 DEF Call
  <2> QED BY <1>1, <1>2, <2>2, PendingBeside
<1>4. CASE InPlace(c)
  <2>1. call'[c] = [call[c] EXCEPT !.pc = "inPlace"]
    BY <1>1, <1>4
  <2>2. WrittenNext(c) = [Written(c) EXCEPT !.way = "inPlace"]
    <3>1. /\ call'[c].text = call[c].text /\ call'[c].etag = call[c].etag
          /\ call'[c].atomic = call[c].atomic /\ call'[c].pc = "inPlace"
      BY <1>1, <2>1 DEF Call
    <3> QED BY <3>1 DEF Written, WrittenNext
  <2>3. ASSUME NEW q \in Resources \ {r} PROVE Pending(q)' = Pending(q)
    <3>1. \A d \in Callers : call[d].resource = q => call'[d] = call[d]
      BY <1>1, <2>3
    <3> QED BY <1>1, <2>3, <3>1, PendingBeside
  <2>4. Pending(r)' = [i \in 1..n |-> WrittenNext(queue[r][i])]
    <3>1. Waiting(r)' = queue[r]
      <4>1. queue[r] # <<>> /\ Head(queue[r]) = c
        BY <1>1, FirstPending DEF AtHead, Unwritten
      <4> QED BY <1>1, <2>1, <4>1 DEF Waiting, Call
    <3>2. Pending(r)' = [i \in 1..Len(Waiting(r)) |-> Written(Waiting(r)[i])]'
      BY DEF Pending, Waiting, Written
    <3> QED BY <1>1, <3>1, <3>2 DEF Written, WrittenNext
  <2>5. ASSUME NEW i \in 1..n
        PROVE  WrittenNext(queue[r][i]) = [p EXCEPT ![1].way = "inPlace"][i]
    <3>0. DOMAIN p = 1..n
      BY <1>2, LenProperties
    <3>4. queue[r][i] \in Callers /\ (queue[r][i] = c => i = 1)
      BY <1>2, QueueFacts
    <3>5. p[i] = Written(queue[r][i])
      BY <1>2, PendingTyped DEF PInv, Inv
    <3>1. p[i] = Written(queue[r][i]) /\ i \in DOMAIN p /\ queue[r][i] \in Callers
          /\ (queue[r][i] = c => i = 1)
      BY <3>0, <3>4, <3>5
    <3>2. CASE i = 1
      BY <1>2, <2>2, <3>1, <3>2
    <3>3. CASE i # 1
      <4>1. call'[queue[r][i]] = call[queue[r][i]]
        BY <1>1, <3>1, <3>3
      <4> QED BY <3>1, <3>3, <4>1 DEF Written, WrittenNext
    <3> QED BY <3>2, <3>3
  <2>6. Pending(r)' = [p EXCEPT ![1].way = "inPlace"]
    <3>1. DOMAIN p = 1..n
      BY <1>2, LenProperties
    <3> HIDE DEF n
    <3>2. [p EXCEPT ![1].way = "inPlace"] = [i \in 1..n |-> [p EXCEPT ![1].way = "inPlace"][i]]
      BY <3>1
    <3> QED BY <2>4, <2>5, <3>2
  <2>7. ~Head(p).atomic \/ (disk[r] # Absent /\ disk[r].linked)
    BY <1>2, <1>4 DEF InPlace, Written, IsFile
  <2> HIDE DEF n
  <2> DEFINE all == [q \in Resources |-> Pending(q)]
             next == [q \in Resources |-> Pending(q)']
  <2>8. next = [all EXCEPT ![r] = [p EXCEPT ![1].way = "inPlace"]]
    BY <1>2, <2>3, <2>6
  <2>9. all[r] = p
    BY <1>2
  <2>10. next = [all EXCEPT ![r][1].way = "inPlace"]
    BY <2>8, <2>9
  <2> QED BY <1>1, <1>2, <2>7, <2>9, <2>10 DEF Promise!GoInPlace
<1> QED BY <1>3, <1>4

LEMMA ReplaceStep ==
    ASSUME PInv, PInv', NEW c \in Callers, Replace(c), NEW r, r = call[c].resource
    PROVE  r \in Resources /\ Promise!Commit(r)
<1>1. /\ r \in Resources /\ Pending(r) # <<>> /\ Head(Pending(r)) = Written(c)
      /\ Pending(r)' = Tail(Pending(r))
      /\ \A q \in Resources \ {r} : Pending(q)' = Pending(q)
  BY LandsPending
<1>2. ~Promise!Clobbers(r, Written(c))
  BY NoClobber DEF Replace, Unwritten
<1>3. Promise!Stores(r, Written(c).text)
  <2>1. /\ disk \in [Resources -> File \cup {Absent}] /\ clock \in Nat
        /\ disk' = [disk EXCEPT ![r] = Version(call[c].text, "write", FALSE)]
        /\ call[c].text \in Texts /\ FSTypeOK /\ "write" \in Authors
    BY DEF Replace, PInv, Inv, FSTypeOK, Call, Authors
  <2>2. Version(call[c].text, "write", FALSE) \in File
    BY <2>1, VersionType
  <2>3. /\ \A q \in Resources \ {r} : disk'[q] = disk[q]
        /\ disk'[r] # Absent /\ disk'[r].text = Written(c).text /\ disk'[r].author = "write"
    BY <1>1, <2>1, <2>2, FileServiceAssumption DEF Version, File, Authors, Written
  <2> QED BY <1>1, <2>3, StoresStep
<1> QED BY <1>1, <1>2, <1>3 DEF Promise!Commit

LEMMA FillStep ==
    ASSUME PInv, PInv', NEW c \in Callers, Fill(c), NEW r, r = call[c].resource
    PROVE  r \in Resources /\ (Promise!Commit(r) \/ Promise!Drop(r))
<1>1. /\ r \in Resources /\ Pending(r) # <<>> /\ Head(Pending(r)) = Written(c)
      /\ Pending(r)' = Tail(Pending(r))
      /\ \A q \in Resources \ {r} : Pending(q)' = Pending(q)
  BY LandsPending
<1>2. CASE disk' = disk
  <2>1. Promise!Elsewhere
    BY <1>2, ElsewhereStep DEF IsFile
  <2> QED BY <1>1, <2>1 DEF Promise!Drop
<1>3. ASSUME NEW t \in Resources,
             IsFile(t), disk[t].text = Torn,
             \A q \in Resources \ {t} : disk'[q] = disk[q],
             disk'[t] = Version(call[c].text, disk[t].author, disk[t].linked),
             disk[t].author = "other" \/ t = r
      PROVE  Promise!Commit(r) \/ Promise!Drop(r)
  <2>1. /\ disk[t] \in File /\ call[c].text \in Texts /\ FSTypeOK
    BY <1>3, FilesAreTyped DEF PInv, Inv, FSTypeOK, Call
  <2>2. Version(call[c].text, disk[t].author, disk[t].linked) \in File
    BY <2>1, VersionType DEF File
  <2>3. /\ disk'[t] # Absent /\ disk'[t].text = call[c].text /\ disk'[t].text # Torn
        /\ disk'[t].author = disk[t].author /\ disk[t].author \in Authors
    BY <1>3, <2>1, <2>2, FileServiceAssumption DEF Version, File, Authors
  <2>4. CASE disk[t].author = "other"
    <3>1. Promise!Elsewhere
      BY <1>3, <2>3, <2>4, ElsewhereStep DEF IsFile
    <3> QED BY <1>1, <3>1 DEF Promise!Drop
  <2>5. CASE disk[t].author = "write" /\ t = r
    <3>1. Promise!Stores(r, Written(c).text)
      BY <1>3, <2>3, <2>5, StoresStep DEF Written
    <3>2. Promise!IsTorn(r)
      BY <1>3, <2>5 DEF Promise!IsTorn, IsFile
    <3> QED BY <1>1, <3>1, <3>2 DEF Promise!Commit
  <2> QED BY <1>3, <2>3, <2>4, <2>5 DEF Authors
<1> QED BY <1>1, <1>2, <1>3, FillsOne

LEMMA TruncateStep ==
    ASSUME PInv, PInv', NEW c \in Callers, Truncate(c), NEW r, r = call[c].resource
    PROVE  r \in Resources /\ Promise!Tear(r)
<1> DEFINE linked == IsFile(r) /\ disk[r].linked
<1>1. /\ call[c].pc = "inPlace" /\ queue' = queue
      /\ disk' = [disk EXCEPT ![r] = Version(Torn, "write", linked)]
      /\ call' = [call EXCEPT ![c].pc = "torn", ![c].stamp = clock + 1]
      /\ r \in Resources /\ FSTypeOK /\ disk \in [Resources -> File \cup {Absent}]
      /\ call \in [Callers -> Call]
  BY DEF Truncate, PInv, Inv, FSTypeOK, Call
<1>2. \A d \in Callers : /\ call'[d].text = call[d].text /\ call'[d].etag = call[d].etag
                         /\ call'[d].atomic = call[d].atomic
                         /\ call'[d].pc = "replaced" <=> call[d].pc = "replaced"
                         /\ call'[d].pc \in {"inPlace", "torn"} <=> call[d].pc \in {"inPlace", "torn"}
  BY <1>1 DEF Call
<1>3. \A q \in Resources : Pending(q)' = Pending(q)
  BY <1>1, <1>2, PendingBeside DEF PInv, Inv
<1>4. Pending(r) # <<>> /\ Head(Pending(r)) = Written(c)
  BY <1>1, FirstPending DEF Unwritten
<1>5. ~Promise!Clobbers(r, Written(c))
  BY <1>1, NoClobber DEF Unwritten
<1>6. Written(c).way = "inPlace"
  BY <1>1 DEF Written
<1>7. Promise!Stores(r, Torn)
  <2>1. linked \in BOOLEAN
    BY <1>1, FilesAreTyped DEF File
  <2> HIDE DEF linked
  <2>2. Version(Torn, "write", linked) \in File
    BY <1>1, <2>1, VersionType DEF Authors
  <2>3. /\ \A q \in Resources \ {r} : disk'[q] = disk[q]
        /\ disk'[r] # Absent /\ disk'[r].text = Torn /\ disk'[r].author = "write"
    BY <1>1, <2>2, FileServiceAssumption DEF Version, File, Authors
  <2> QED BY <1>1, <2>3, StoresStep
<1> QED BY <1>1, <1>3, <1>4, <1>5, <1>6, <1>7 DEF Promise!Tear

\* The closing stat changes nothing in the promise, even if it fails.
LEMMA StatStep ==
    ASSUME PInv, PInv', NEW c \in Callers, StatWritten(c) \/ Fail(c), call[c].pc = "replaced"
    PROVE  disk' = disk /\ \A q \in Resources : Pending(q)' = Pending(q)
<1> SUFFICES ASSUME NEW r, r = call[c].resource
             PROVE  disk' = disk /\ \A q \in Resources : Pending(q)' = Pending(q)
  OBVIOUS
<1>1. /\ call[c].pc = "replaced" /\ disk' = disk
      /\ call' = [call EXCEPT ![c] = IdleCall] /\ queue' = [queue EXCEPT ![r] = Tail(@)]
  BY DEF StatWritten, Fail, Settle
<1>2. /\ r \in Resources /\ FSTypeOK /\ FSTypeOK'
      /\ call \in [Callers -> Call] /\ queue \in [Resources -> Seq(Callers)]
  BY DEF PInv, Inv, FSTypeOK, Call
<1>3. AtHead(c)
  BY <1>1, RunningIsHead DEF PInv, Inv, Running, Queued
<1>4. queue[r] # <<>> /\ Head(queue[r]) = c /\ queue'[r] = Tail(queue[r])
  BY <1>1, <1>2, <1>3 DEF AtHead
<1>5. \A d \in Callers \ {c} : call'[d] = call[d]
  BY <1>1, <1>2
<1>6. /\ 1 \in 1..Len(queue[r]) /\ Head(queue[r]) = queue[r][1]
      /\ \A i \in 2..Len(queue[r]) : i \in 1..Len(queue[r]) /\ i > 1 /\ i # 1
      /\ Tail(queue[r]) # <<>> => 2 \in 2..Len(queue[r]) /\ Head(Tail(queue[r])) = queue[r][2]
  BY <1>2, <1>4, FirstTwo
<1>7. \A i \in 2..Len(queue[r]) : queue[r][i] \in Callers \ {c} /\ call[queue[r][i]].pc = "queued"
  BY <1>2, <1>4, <1>6, QueueFacts
<1>8. Waiting(r) = Tail(queue[r])
  BY <1>1, <1>4 DEF Waiting
<1>9. Waiting(r)' = Tail(queue[r])
  <2>1. CASE Tail(queue[r]) = <<>>
    BY <1>4, <2>1 DEF Waiting
  <2>2. CASE Tail(queue[r]) # <<>>
    <3>1. call'[Head(queue'[r])].pc = "queued"
      BY <1>4, <1>5, <1>6, <1>7, <2>2
    <3> QED BY <1>4, <3>1 DEF Waiting
  <2> QED BY <2>1, <2>2
<1>10. \A d \in Callers :
          (\E i \in 1..Len(Waiting(r)) : Waiting(r)[i] = d) => Written(d)' = Written(d)
  <2>1. \A i \in 1..Len(Tail(queue[r])) :
           i + 1 \in 2..Len(queue[r]) /\ Tail(queue[r])[i] = queue[r][i + 1]
    BY <1>2, <1>4, QueueFacts
  <2>2. \A d \in Callers : (\E i \in 1..Len(Waiting(r)) : Waiting(r)[i] = d) => d # c
    BY <1>7, <1>8, <2>1
  <2> QED BY <1>5, <2>2 DEF Written
<1>11. Pending(r)' = Pending(r)
  BY <1>2, <1>8, <1>9, <1>10, PendingStays
<1>12. ASSUME NEW q \in Resources \ {r} PROVE Pending(q)' = Pending(q)
  <2>1. queue'[q] = queue[q]
    BY <1>1, <1>2, <1>12
  <2>2. \A d \in Callers :
           call[d].pc \in Queued /\ call[d].resource = q => call'[d] = call[d]
    BY <1>5, <1>12
  <2> QED BY <1>2, <2>1, <2>2, PendingBeside
<1> QED BY <1>1, <1>11, <1>12

\* The check of a write, and a move or copy that begins.
LEMMA QuietStep ==
    ASSUME PInv, PInv', NEW c \in Callers,
           \/ Begin(c)
           \/ \E pc \in {"moving", "copying"}, s, t \in Resources, o \in BOOLEAN :
                  StartTransfer(c, pc, s, t, o)
    PROVE  disk' = disk /\ \A q \in Resources : Pending(q)' = Pending(q)
<1>1. FSTypeOK' /\ call \in [Callers -> Call]
  BY DEF PInv, Inv, FSTypeOK
<1>2. disk' = disk /\ queue' = queue
  BY DEF Begin, StartTransfer
<1>3. ASSUME NEW d \in Callers, call[d].pc \in Queued
      PROVE  /\ call'[d].text = call[d].text /\ call'[d].etag = call[d].etag
             /\ call'[d].atomic = call[d].atomic
             /\ call'[d].pc = "replaced" <=> call[d].pc = "replaced"
             /\ call'[d].pc \in {"inPlace", "torn"} <=> call[d].pc \in {"inPlace", "torn"}
  <2>1. CASE Begin(c)
    BY <1>1, <1>3, <2>1 DEF Begin, Call
  <2>2. CASE ~Begin(c)
    <3>1. call[c].pc = "idle" /\ d # c
      BY <1>3, <2>2 DEF StartTransfer, Idle, Queued
    <3>2. call'[d] = call[d]
      BY <1>1, <2>2, <3>1 DEF StartTransfer
    <3> QED BY <3>2
  <2> QED BY <2>1, <2>2
<1> QED BY <1>1, <1>2, <1>3, PendingBeside

\* What bypasses the queue leaves what is pending, and is a bypass of the promise.
LEMMA BypassStep ==
    ASSUME PInv, PInv',
           \/ \E c \in Callers : FinishMove(c) \/ FinishCopy(c)
           \/ \E r \in Resources : Del(r) \/ Foreign(r)
    PROVE  Promise!Elsewhere /\ \A q \in Resources : Pending(q)' = Pending(q)
<1>0. /\ FSTypeOK /\ FSTypeOK' /\ call \in [Callers -> Call]
      /\ disk \in [Resources -> File \cup {Absent}]
  BY DEF PInv, Inv, FSTypeOK
<1>1. ASSUME NEW c \in Callers, FinishMove(c) \/ FinishCopy(c)
      PROVE  \A q \in Resources : Pending(q)' = Pending(q)
  <2>1. /\ call[c].pc \notin Queued /\ queue' = queue
        /\ call' = [call EXCEPT ![c] = IdleCall]
    BY <1>1 DEF FinishMove, FinishCopy, Queued
  <2>2. \A d \in Callers : call[d].pc \in Queued => call'[d] = call[d]
    BY <1>0, <2>1
  <2> QED BY <1>0, <2>1, <2>2, PendingBeside
<1>2. ASSUME NEW r \in Resources, Del(r) \/ Foreign(r)
      PROVE  \A q \in Resources : Pending(q)' = Pending(q)
  <2>1. queue' = queue /\ call' = call
    BY <1>2 DEF Del, Foreign, ForeignRewrite, ForeignDelete
  <2> QED BY <1>0, <2>1, PendingBeside
<1>3. ASSUME NEW c \in Callers, FinishMove(c) PROVE Promise!Elsewhere
  <2> DEFINE s == call[c].resource
             t == call[c].target
  <2>1. CASE ~IsFile(s)
    BY <1>3, <2>1, ElsewhereStep DEF FinishMove, IsFile
  <2>2. CASE IsFile(s)
    <3> DEFINE new == [disk[s] EXCEPT !.author = "other"]
    <3>1. disk' = [disk EXCEPT ![s] = Absent, ![t] = new] /\ s \in Resources /\ t \in Resources
      BY <1>0, <1>3, <2>2 DEF FinishMove, Call
    <3>2. disk[s] \in File
      BY <1>0, <2>2, <3>1 DEF IsFile
    <3>3. new.author = "other" /\ new.text = disk[s].text
      BY <3>2 DEF File
    <3> HIDE DEF new, s, t
    <3>4. \A r \in Resources : disk'[r] = IF r = t THEN new ELSE IF r = s THEN Absent ELSE disk[r]
      BY <1>0, <3>1
    <3> QED BY <2>2, <3>1, <3>3, <3>4, ElsewhereStep DEF IsFile
  <2> QED BY <2>1, <2>2
<1>4. ASSUME NEW c \in Callers, FinishCopy(c) PROVE Promise!Elsewhere
  <2> DEFINE s == call[c].resource
             t == call[c].target
  <2>1. CASE ~IsFile(s)
    BY <1>4, <2>1, ElsewhereStep DEF FinishCopy, IsFile
  <2>2. CASE IsFile(s)
    <3>0. PICK linked \in {FALSE, disk[s].linked} :
              disk' = [disk EXCEPT ![t] = Version(disk[s].text, "other", linked)]
      BY <1>4, <2>2 DEF FinishCopy
    <3> DEFINE new == Version(disk[s].text, "other", linked)
    <3>1. disk' = [disk EXCEPT ![t] = new] /\ s \in Resources /\ t \in Resources
      BY <1>0, <3>0 DEF Call
    <3>2. new.author = "other" /\ new.text = disk[s].text
      BY DEF Version
    <3> HIDE DEF new, s, t
    <3>3. \A r \in Resources : disk'[r] = IF r = t THEN new ELSE disk[r]
      BY <1>0, <3>1
    <3> QED BY <2>2, <3>1, <3>2, <3>3, ElsewhereStep DEF IsFile
  <2> QED BY <2>1, <2>2
<1>5. ASSUME NEW r \in Resources, Del(r) PROVE Promise!Elsewhere
  <2>1. \A q \in Resources : disk'[q] = IF q = r THEN Absent ELSE disk[q]
    BY <1>0, <1>5 DEF Del
  <2> QED BY <2>1, ElsewhereStep DEF IsFile
<1>6. ASSUME NEW r \in Resources, NEW text \in Texts, NEW linked \in Linkings,
             ForeignRewrite(r, text, linked)
      PROVE  Promise!Elsewhere
  <2> DEFINE new == Version(text, "other", linked)
  <2>1. new.author = "other" /\ new.text # Torn
    BY FileServiceAssumption DEF Version
  <2>2. disk' = [disk EXCEPT ![r] = new]
    BY <1>6 DEF ForeignRewrite
  <2> HIDE DEF new
  <2>3. \A q \in Resources : disk'[q] = IF q = r THEN new ELSE disk[q]
    BY <1>0, <2>2
  <2> QED BY <2>1, <2>3, ElsewhereStep DEF IsFile
<1> QED BY <1>1, <1>2, <1>3, <1>4, <1>5, <1>6 DEF Foreign, ForeignDelete

\* The editor dies: nothing is pending any more.
LEMMA NonePending ==
    ASSUME NEW r \in Resources, queue[r] = <<>>
    PROVE  Pending(r) = <<>>
BY EmptySeq DEF Pending

LEMMA CrashStep ==
    ASSUME Crash
    PROVE  disk' = disk /\ \A r \in Resources : Pending(r)' = <<>>
<1>1. \A r \in Resources : queue'[r] = <<>>
  BY DEF Crash
<1>2. \A r \in Resources : Pending(r)' = <<>>
  BY <1>1, EmptySeq DEF Pending
<1> QED BY <1>2 DEF Crash

\* Every step is a step of the promise, or changes nothing in it.
LEMMA StepPromise == PInv /\ PInv' /\ [FSNext]_fsVars => [Promise!Next]_(Promise!gwVars)
<1> SUFFICES ASSUME PInv, PInv', [FSNext]_fsVars
             PROVE  Promise!Next \/ UNCHANGED Promise!gwVars
  BY DEF Promise!gwVars
<1>1. ASSUME disk' = disk, \A q \in Resources : Pending(q)' = Pending(q)
      PROVE  UNCHANGED Promise!gwVars
  BY <1>1 DEF Promise!gwVars
<1>2. ASSUME NEW c \in Callers, Request(c) PROVE Promise!Next \/ UNCHANGED Promise!gwVars
  <2>1. ASSUME NEW r \in Resources, NEW t \in Texts, NEW e \in KnownEtags, NEW a \in Atomics,
               WriteFile(c, r, t, e, a)
        PROVE  Promise!Next
    BY <2>1, AskStep DEF Promise!Next
  <2>2. CASE \E pc \in {"moving", "copying"}, s, t \in Resources, o \in BOOLEAN :
                StartTransfer(c, pc, s, t, o)
    BY <1>1, <2>2, QuietStep
  <2> QED BY <1>2, <2>1, <2>2 DEF Request
<1>3. ASSUME NEW c \in Callers, Task(c) PROVE Promise!Next \/ UNCHANGED Promise!gwVars
  <2>1. CASE Begin(c)
    BY <1>1, <2>1, QuietStep
  <2>2. CASE StatWritten(c) \/ (Fail(c) /\ call[c].pc = "replaced")
    BY <1>1, <2>2, StatStep DEF StatWritten
  <2>3. CASE Refuse(c) \/ (Fail(c) /\ call[c].pc # "replaced")
    BY <2>3, DropStep DEF Promise!Next, Refuse
  <2>4. CASE Replace(c)
    BY <2>4, ReplaceStep DEF Promise!Next
  <2>5. CASE Fill(c)
    BY <2>5, FillStep DEF Promise!Next
  <2>6. CASE Truncate(c)
    BY <2>6, TruncateStep DEF Promise!Next
  <2>7. CASE atomicReplacement(c)
    BY <1>1, <2>7, DecisionStep DEF Promise!Next
  <2> QED BY <1>3, <2>1, <2>2, <2>3, <2>4, <2>5, <2>6, <2>7 DEF Task
<1>4. CASE \/ \E c \in Callers : FinishMove(c) \/ FinishCopy(c)
           \/ \E r \in Resources : Del(r) \/ Foreign(r)
  BY <1>4, BypassStep DEF Promise!Next, Promise!Bypass
<1>5. CASE Crash
  BY <1>5, CrashStep DEF Promise!Next, Promise!Crash
<1>6. CASE UNCHANGED fsVars
  <2>1. \A q \in Resources : Pending(q)' = Pending(q)
    BY <1>6, PendingBeside DEF fsVars, PInv, Inv
  <2> QED BY <1>1, <1>6, <2>1 DEF fsVars
<1> QED BY <1>2, <1>3, <1>4, <1>5, <1>6 DEF FSNext

LEMMA StartPromise == FSInit => Promise!Init
<1> SUFFICES ASSUME FSInit PROVE Promise!Init
  OBVIOUS
<1>1. \A r \in Resources : Pending(r) = <<>>
  BY NonePending DEF FSInit
<1>2. disk \in [Resources -> {v \in Versions : v.text # Torn} \cup {Absent}]
  <2>1. /\ MaxClock \in Nat /\ Torn \notin Texts /\ Linkings \subseteq BOOLEAN
        /\ disk \in [Resources -> {Absent} \cup [text : Texts, stamp : {0}, author : {"other"},
                                                 linked : Linkings]]
    BY FileServiceAssumption DEF FSInit
  <2>2. ASSUME NEW v \in [text : Texts, stamp : {0}, author : {"other"}, linked : Linkings]
        PROVE  v \in Versions /\ v.text # Torn
    BY <2>1 DEF Versions, Authors
  <2> QED BY <2>1, <2>2
<1> QED BY <1>1, <1>2 DEF Promise!Init, Versions

\* The file service keeps the promise of GuardedWrites: the writes of a
\* resource take effect one at a time, in the order asked for, whole or not at
\* all, and a guarded one destroys no write its caller has not read
\* (FileService.writeFile and doWriteFile in fileService.ts over
\* DiskFileSystemProvider).
THEOREM KeepsGuardedWrites == FSSpec => ImplementsPromise
<1>1. FSSpec => []PInv
  BY StartPInv, StepPInv, PTL DEF FSSpec
<1>2. FSSpec => Promise!Init
  BY StartPromise DEF FSSpec
<1>3. FSSpec => [][Promise!Next]_(Promise!gwVars)
  BY <1>1, StepPromise, PTL DEF FSSpec
<1> QED BY <1>2, <1>3, PTL DEF ImplementsPromise, Promise!Spec
=============================================================================

-------------------------- MODULE FileServiceProofs --------------------------
(***************************************************************************)
(* Theorems of FileService for every set of files, callers and texts:      *)
(* types, the writes of a resource never overlap, and the guard of a write *)
(* holds from its check to its replacement. The argument is the inductive  *)
(* invariant Inv: the queue of a resource holds exactly the calls whose    *)
(* write waits or runs there, each once, and only its head runs.           *)
(***************************************************************************)
EXTENDS FileService, SequenceTheorems, TLAPS

-----------------------------------------------------------------------------
(* The invariant. Types alone are not inductive: a write that ends takes the *)
(* head off its queue, which must be there.                                  *)

Positions(r) == 1..Len(queue[r])

\* The queue of a resource holds calls that write to it, and only the first runs.
QueuedHere ==
    \A r \in Resources : \A i \in Positions(r) :
        /\ call[queue[r][i]].resource = r
        /\ call[queue[r][i]].pc \in Queued
        /\ i > 1 => call[queue[r][i]].pc = "queued"

QueuedOnce ==
    \A r \in Resources : \A i, j \in Positions(r) : queue[r][i] = queue[r][j] => i = j

AllQueued ==
    \A c \in Callers :
        call[c].pc \in Queued
          => \E i \in Positions(call[c].resource) : queue[call[c].resource][i] = c

QueueInv == QueuedHere /\ QueuedOnce /\ AllQueued

\* Stamps were given out by the clock.
StampsPast ==
    /\ \A r \in Resources : IsFile(r) => disk[r].stamp <= clock
    /\ \A c \in Callers : call[c].pc = "torn" => call[c].stamp <= clock

\* The torn file of a write is at its resource, unless something moved it.
TornAtHome ==
    \A c \in Callers, r \in Resources :
        (/\ call[c].pc = "torn" /\ IsFile(r)
         /\ disk[r].text = Torn /\ disk[r].stamp = call[c].stamp /\ disk[r].author = "write")
            => r = call[c].resource

Inv == FSTypeOK /\ QueueInv /\ StampsPast /\ TornAtHome /\ GuardHoldsUntilReplace

-----------------------------------------------------------------------------
(* Types *)

\* A caller without a call is typed.
LEMMA IdleCallType == IdleCall \in Call
  BY FileServiceAssumption DEF IdleCall, Call

\* A new version is typed, and so is the stamp it takes.
LEMMA VersionType ==
  ASSUME FSTypeOK, NEW text \in Texts \cup {Torn}, NEW author \in Authors, NEW linked \in BOOLEAN
  PROVE  /\ Version(text, author, linked) \in File
         /\ clock + 1 \in Nat
  BY DEF FSTypeOK, Version, File

\* What is at a path is a version.
LEMMA FilesAreTyped ==
  ASSUME FSTypeOK, NEW r \in Resources, IsFile(r)
  PROVE  disk[r] \in File
  BY DEF FSTypeOK, IsFile

\* The files and the empty queues the service starts with are typed.
LEMMA InitType == FSInit => FSTypeOK
<1> SUFFICES ASSUME FSInit PROVE FSTypeOK
  OBVIOUS
<1>1. clock \in Nat
  BY DEF FSInit
<1>2. disk \in [Resources -> File \cup {Absent}]
  BY FileServiceAssumption DEF FSInit, File, Authors
<1>3. queue \in [Resources -> Seq(Callers)]
  BY EmptySeq DEF FSInit
<1>4. call \in [Callers -> Call]
  BY IdleCallType DEF FSInit
<1> QED BY <1>1, <1>2, <1>3, <1>4 DEF FSTypeOK

-----------------------------------------------------------------------------
(* The queue *)

\* The head of a queue (fileService.ts:215-229), and what moves up behind it.
LEMMA HeadFacts ==
  ASSUME FSTypeOK, NEW c \in Callers, AtHead(c)
  PROVE  LET r == call[c].resource IN
         /\ r \in Resources
         /\ queue[r] \in Seq(Callers) /\ queue[r] # <<>>
         /\ Len(queue[r]) \in Nat \ {0}
         /\ queue[r][1] = c
         /\ Tail(queue[r]) \in Seq(Callers)
         /\ Len(Tail(queue[r])) = Len(queue[r]) - 1
         /\ \A i \in 1..Len(Tail(queue[r])) : Tail(queue[r])[i] = queue[r][i + 1]
<1> DEFINE r == call[c].resource
<1>1. r \in Resources /\ queue[r] \in Seq(Callers) /\ queue[r] # <<>> /\ Head(queue[r]) = c
  BY DEF FSTypeOK, AtHead, Call
<1>2. Len(queue[r]) \in Nat \ {0}
  BY <1>1, EmptySeq
<1>3. queue[r][1] = c
  BY <1>1
<1> QED BY <1>1, <1>2, <1>3, HeadTailProperties

\* Only the head of a queue runs.
LEMMA RunningIsHead ==
  ASSUME FSTypeOK, QueueInv, NEW c \in Callers, call[c].pc \in Running
  PROVE  AtHead(c)
<1> DEFINE r == call[c].resource
<1>1. call[c].pc \in Queued /\ call[c].pc # "queued"
  BY DEF Running, Queued
<1>2. PICK i \in Positions(r) : queue[r][i] = c
  BY <1>1 DEF QueueInv, AllQueued
<1>3. r \in Resources /\ queue[r] \in Seq(Callers)
  BY DEF FSTypeOK, Call
<1>4. Len(queue[r]) \in Nat
  BY <1>3, LenProperties
<1>5. i = 1
  BY <1>1, <1>2, <1>3, <1>4 DEF QueueInv, QueuedHere, Positions
<1>6. queue[r] # <<>>
  BY <1>2, <1>4, <1>5, EmptySeq DEF Positions
<1> QED BY <1>2, <1>3, <1>5, <1>6 DEF AtHead

\* The end of a task keeps calls and queues typed.
LEMMA SettleType ==
  ASSUME FSTypeOK, NEW c \in Callers, AtHead(c), Settle(c)
  PROVE  /\ call' \in [Callers -> Call]
         /\ queue' \in [Resources -> Seq(Callers)]
<1>1. call' \in [Callers -> Call]
  BY IdleCallType DEF FSTypeOK, Settle
<1>2. queue' \in [Resources -> Seq(Callers)]
  BY HeadFacts DEF FSTypeOK, Settle
<1> QED BY <1>1, <1>2

\* The end of a task: the rest of the queue moves up.
LEMMA SettleInv ==
  ASSUME FSTypeOK, QueueInv, NEW c \in Callers, AtHead(c), Settle(c)
  PROVE  QueueInv'
<1> DEFINE r == call[c].resource
<1>1. call' = [call EXCEPT ![c] = IdleCall] /\ queue' = [queue EXCEPT ![r] = Tail(queue[r])]
  BY DEF Settle
<1>2. /\ r \in Resources /\ queue[r] \in Seq(Callers)
      /\ Len(queue[r]) \in Nat \ {0} /\ queue[r][1] = c
      /\ Len(Tail(queue[r])) = Len(queue[r]) - 1
      /\ \A i \in 1..Len(Tail(queue[r])) : Tail(queue[r])[i] = queue[r][i + 1]
  BY HeadFacts
<1>3. queue'[r] = Tail(queue[r]) /\ \A q \in Resources \ {r} : queue'[q] = queue[q]
  BY <1>1, <1>2 DEF FSTypeOK
<1>4. \A i \in 1..Len(queue'[r]) : i + 1 \in Positions(r) /\ queue'[r][i] = queue[r][i + 1]
  BY <1>2, <1>3 DEF Positions
<1>5. \A q \in Resources : queue[q] \in Seq(Callers) /\ Len(queue[q]) \in Nat
  BY LenProperties DEF FSTypeOK
\* What is left in the queues is a call other than c, unchanged.
<1>6. ASSUME NEW q \in Resources, NEW i \in 1..Len(queue'[q])
      PROVE  /\ \E j \in Positions(q) : queue'[q][i] = queue[q][j] /\ (q = r => j = i + 1)
                                          /\ (q # r => j = i)
             /\ queue'[q][i] \in Callers \ {c}
             /\ call'[queue'[q][i]] = call[queue'[q][i]]
  <2>1. PICK j \in Positions(q) : queue'[q][i] = queue[q][j] /\ (q = r => j = i + 1) /\ (q # r => j = i)
    BY <1>3, <1>4, <1>6 DEF Positions
  <2>2. queue[q][j] \in Callers
    BY <1>5, <2>1, ElementOfSeq DEF Positions
  <2>3. queue[q][j] # c
    <3>1. CASE q # r
      BY <2>1, <3>1 DEF QueueInv, QueuedHere
    <3>2. CASE q = r
      <4>1. j # 1 /\ 1 \in Positions(r)
        BY <1>2, <1>3, <2>1, <3>2 DEF Positions
      <4> QED BY <1>2, <2>1, <3>2, <4>1 DEF QueueInv, QueuedOnce
    <3> QED BY <3>1, <3>2
  <2>4. call'[queue'[q][i]] = call[queue'[q][i]]
    BY <1>1, <2>1, <2>2, <2>3 DEF FSTypeOK
  <2> QED BY <2>1, <2>2, <2>3, <2>4
<1>7. QueuedHere'
  <2> SUFFICES ASSUME NEW q \in Resources, NEW i \in 1..Len(queue'[q])
               PROVE  /\ call'[queue'[q][i]].resource = q
                      /\ call'[queue'[q][i]].pc \in Queued
                      /\ i > 1 => call'[queue'[q][i]].pc = "queued"
    BY DEF QueuedHere, Positions
  <2>1. PICK j \in Positions(q) : queue'[q][i] = queue[q][j] /\ j >= i
    BY <1>3, <1>5, <1>6, <1>2
  <2>2. call'[queue'[q][i]] = call[queue[q][j]]
    BY <1>6, <2>1
  <2>3. i > 1 => j > 1
    BY <1>2, <1>3, <1>5, <2>1 DEF Positions
  <2> QED BY <2>1, <2>2, <2>3 DEF QueueInv, QueuedHere
<1>8. QueuedOnce'
  <2> SUFFICES ASSUME NEW q \in Resources, NEW i \in 1..Len(queue'[q]), NEW j \in 1..Len(queue'[q]),
                      queue'[q][i] = queue'[q][j]
               PROVE  i = j
    BY DEF QueuedOnce, Positions
  <2>1. CASE q # r
    BY <1>3, <2>1 DEF QueueInv, QueuedOnce, Positions
  <2>2. CASE q = r
    <3>1. /\ i + 1 \in Positions(r) /\ j + 1 \in Positions(r)
          /\ queue[r][i + 1] = queue[r][j + 1]
      BY <1>4, <2>2
    <3>2. i + 1 = j + 1
      BY <1>2, <3>1 DEF QueueInv, QueuedOnce
    <3>3. i \in Nat /\ j \in Nat
      BY <1>2, <1>3, <2>2
    <3> QED BY <3>2, <3>3
  <2> QED BY <2>1, <2>2
<1>9. AllQueued'
  <2> SUFFICES ASSUME NEW d \in Callers, call'[d].pc \in Queued
               PROVE  \E i \in 1..Len(queue'[call'[d].resource]) : queue'[call'[d].resource][i] = d
    BY DEF AllQueued, Positions
  <2> DEFINE q == call[d].resource
  <2>1. d # c /\ call'[d] = call[d]
    BY <1>1 DEF FSTypeOK, IdleCall, Queued
  <2>2. q \in Resources
    BY DEF FSTypeOK, Call
  <2>3. PICK j \in Positions(q) : queue[q][j] = d
    BY <2>1 DEF QueueInv, AllQueued
  <2>4. CASE q # r
    BY <1>3, <2>1, <2>2, <2>3, <2>4 DEF Positions
  <2>5. CASE q = r
    <3>1. j # 1
      BY <1>2, <2>1, <2>3, <2>5
    <3>2. j - 1 \in 1..Len(queue'[r])
      BY <1>2, <1>3, <2>3, <2>5, <3>1 DEF Positions
    <3>3. queue'[r][j - 1] = queue[r][(j - 1) + 1]
      BY <1>4, <3>2
    <3>4. queue'[r][j - 1] = d
      BY <1>2, <2>3, <2>5, <3>3 DEF Positions
    <3> QED BY <2>1, <2>5, <3>2, <3>4
  <2> QED BY <2>4, <2>5
<1> QED BY <1>7, <1>8, <1>9 DEF QueueInv

\* A step of a running task, or its beginning.
LEMMA AdvanceInv ==
  ASSUME FSTypeOK, QueueInv, NEW c \in Callers, AtHead(c),
         NEW new \in Call, new.pc \in Queued, new.resource = call[c].resource,
         call' = [call EXCEPT ![c] = new], UNCHANGED queue
  PROVE  QueueInv'
<1> DEFINE r == call[c].resource
<1>1. r \in Resources /\ Len(queue[r]) \in Nat \ {0} /\ queue[r][1] = c
  BY HeadFacts
<1>2. \A d \in Callers : call'[d] = IF d = c THEN new ELSE call[d]
  BY DEF FSTypeOK
<1>3. \A q \in Resources : \A i \in Positions(q) : queue[q][i] \in Callers
  BY ElementOfSeq DEF FSTypeOK, Positions
<1>4. \A q \in Resources : \A i \in Positions(q) : queue[q][i] = c => call[c].pc \in Queued /\ q = r /\ i = 1
  BY <1>1 DEF QueueInv, QueuedHere, QueuedOnce, Positions
<1>5. QueuedHere'
  BY <1>2, <1>3, <1>4 DEF QueueInv, QueuedHere, Positions
<1>6. QueuedOnce'
  BY DEF QueueInv, QueuedOnce, Positions
<1>7. AllQueued'
  <2> SUFFICES ASSUME NEW d \in Callers, call'[d].pc \in Queued
               PROVE  \E i \in 1..Len(queue[call'[d].resource]) : queue[call'[d].resource][i] = d
    BY DEF AllQueued, Positions
  <2>1. CASE d = c
    BY <1>1, <1>2, <2>1
  <2>2. CASE d # c
    BY <1>2, <2>2 DEF QueueInv, AllQueued, Positions
  <2> QED BY <2>1, <2>2
<1> QED BY <1>5, <1>6, <1>7 DEF QueueInv

\* A step of a call that is in no queue.
LEMMA BesideInv ==
  ASSUME FSTypeOK, QueueInv, NEW c \in Callers, call[c].pc \notin Queued,
         NEW new \in Call, new.pc \notin Queued,
         call' = [call EXCEPT ![c] = new], UNCHANGED queue
  PROVE  QueueInv'
<1>1. \A d \in Callers : call'[d] = IF d = c THEN new ELSE call[d]
  BY DEF FSTypeOK
<1>2. \A q \in Resources : \A i \in Positions(q) : queue[q][i] \in Callers /\ queue[q][i] # c
  BY ElementOfSeq DEF FSTypeOK, Positions, QueueInv, QueuedHere
<1>3. QueuedHere'
  BY <1>1, <1>2 DEF QueueInv, QueuedHere, Positions
<1>4. QueuedOnce'
  BY DEF QueueInv, QueuedOnce, Positions
<1>5. AllQueued'
  BY <1>1 DEF QueueInv, AllQueued, Positions
<1> QED BY <1>3, <1>4, <1>5 DEF QueueInv

\* A new write joins the end of its queue.
LEMMA AppendInv ==
  ASSUME FSTypeOK, QueueInv, NEW c \in Callers, call[c].pc \notin Queued,
         NEW r \in Resources, NEW new \in Call, new.pc = "queued", new.resource = r,
         call' = [call EXCEPT ![c] = new], queue' = [queue EXCEPT ![r] = Append(queue[r], c)]
  PROVE  QueueInv'
<1> DEFINE n == Len(queue[r])
<1>1. /\ queue[r] \in Seq(Callers) /\ n \in Nat
      /\ Len(queue'[r]) = n + 1 /\ queue'[r][n + 1] = c
      /\ \A i \in 1..n : queue'[r][i] = queue[r][i]
  BY LenProperties DEF FSTypeOK
<1>2. \A q \in Resources \ {r} : queue'[q] = queue[q]
  BY DEF FSTypeOK
<1>3. \A d \in Callers : call'[d] = IF d = c THEN new ELSE call[d]
  BY DEF FSTypeOK
<1>4. \A q \in Resources : \A i \in Positions(q) : queue[q][i] \in Callers \ {c}
  BY ElementOfSeq DEF FSTypeOK, Positions, QueueInv, QueuedHere
<1>5. QueuedHere'
  <2> SUFFICES ASSUME NEW q \in Resources, NEW i \in 1..Len(queue'[q])
               PROVE  /\ call'[queue'[q][i]].resource = q
                      /\ call'[queue'[q][i]].pc \in Queued
                      /\ i > 1 => call'[queue'[q][i]].pc = "queued"
    BY DEF QueuedHere, Positions
  <2>1. CASE q = r /\ i = n + 1
    BY <1>1, <1>3, <2>1 DEF Queued
  <2>2. CASE q = r /\ i # n + 1
    <3>1. i \in Positions(r) /\ queue'[q][i] = queue[r][i]
      BY <1>1, <2>2 DEF Positions
    <3> QED BY <1>3, <1>4, <2>2, <3>1 DEF QueueInv, QueuedHere
  <2>3. CASE q # r
    BY <1>2, <1>3, <1>4, <2>3 DEF QueueInv, QueuedHere, Positions
  <2> QED BY <2>1, <2>2, <2>3
<1>6. QueuedOnce'
  <2> SUFFICES ASSUME NEW q \in Resources, NEW i \in 1..Len(queue'[q]), NEW j \in 1..Len(queue'[q]),
                      queue'[q][i] = queue'[q][j]
               PROVE  i = j
    BY DEF QueuedOnce, Positions
  <2>1. CASE q = r
    <3>1. ASSUME NEW k \in 1..(n + 1), k # n + 1
          PROVE  k \in Positions(r) /\ queue'[r][k] = queue[r][k] /\ queue'[r][k] # c
      BY <1>1, <1>4, <3>1 DEF Positions
    <3> QED BY <1>1, <2>1, <3>1 DEF QueueInv, QueuedOnce
  <2>2. CASE q # r
    BY <1>2, <2>2 DEF QueueInv, QueuedOnce, Positions
  <2> QED BY <2>1, <2>2
<1>7. AllQueued'
  <2> SUFFICES ASSUME NEW d \in Callers, call'[d].pc \in Queued
               PROVE  \E i \in 1..Len(queue'[call'[d].resource]) : queue'[call'[d].resource][i] = d
    BY DEF AllQueued, Positions
  <2>1. CASE d = c
    BY <1>1, <1>3, <2>1
  <2>2. CASE d # c
    <3> DEFINE q == call[d].resource
    <3>1. call'[d] = call[d] /\ q \in Resources
      BY <1>3, <2>2 DEF FSTypeOK, Call
    <3>2. PICK i \in Positions(q) : queue[q][i] = d
      BY <3>1 DEF QueueInv, AllQueued
    <3>3. i \in 1..Len(queue'[q]) /\ queue'[q][i] = d
      BY <1>1, <1>2, <3>1, <3>2 DEF Positions
    <3> QED BY <3>1, <3>3
  <2> QED BY <2>1, <2>2
<1> QED BY <1>5, <1>6, <1>7 DEF QueueInv

-----------------------------------------------------------------------------
(* Types and queues, one lemma per group of actions *)

\* New calls (writeFile, and the first half of move and copy).
LEMMA RequestQueue ==
  ASSUME FSTypeOK, QueueInv, NEW c \in Callers, Request(c)
  PROVE  FSTypeOK' /\ QueueInv'
<1>1. ASSUME NEW r \in Resources, NEW t \in Texts, NEW e \in KnownEtags, NEW a \in Atomics,
             WriteFile(c, r, t, e, a)
      PROVE  FSTypeOK' /\ QueueInv'
  <2> DEFINE new == [call[c] EXCEPT !.pc = "queued", !.resource = r, !.text = t,
                                    !.etag = e, !.atomic = a]
  <2>1. e \in Nat \cup {NoEtag}
    BY DEF KnownEtags, FSTypeOK
  <2>2. a \in BOOLEAN
    BY FileServiceAssumption
  <2>3. new \in Call /\ new.pc = "queued" /\ new.resource = r
    BY <2>1, <2>2 DEF FSTypeOK, Call, Queued
  <2>4. call' = [call EXCEPT ![c] = new] /\ queue' = [queue EXCEPT ![r] = Append(queue[r], c)]
    BY <1>1 DEF WriteFile
  <2>5. call[c].pc \notin Queued
    BY <1>1 DEF WriteFile, Idle, Queued
  <2>6. QueueInv'
    BY <2>3, <2>4, <2>5, AppendInv
  <2>7. Append(queue[r], c) \in Seq(Callers)
    BY DEF FSTypeOK
  <2> QED BY <1>1, <2>3, <2>4, <2>6, <2>7 DEF FSTypeOK, WriteFile
<1>2. ASSUME NEW s \in Resources, NEW t \in Resources, NEW o \in BOOLEAN,
             NEW pc \in {"moving", "copying"}, StartTransfer(c, pc, s, t, o)
      PROVE  FSTypeOK' /\ QueueInv'
  <2> DEFINE new == [call[c] EXCEPT !.pc = pc, !.resource = s, !.target = t]
  <2>1. new \in Call /\ new.pc \notin Queued
    BY DEF FSTypeOK, Call, Queued
  <2>2. call' = [call EXCEPT ![c] = new] /\ call[c].pc \notin Queued
    BY <1>2 DEF StartTransfer, Idle, Queued
  <2>3. QueueInv'
    BY <1>2, <2>1, <2>2, BesideInv DEF StartTransfer
  <2> QED BY <1>2, <2>1, <2>2, <2>3 DEF FSTypeOK, StartTransfer
<1> QED BY <1>1, <1>2 DEF Request

\* The second half of move and copy.
LEMMA TransferQueue ==
  ASSUME FSTypeOK, QueueInv, NEW c \in Callers, FinishMove(c) \/ FinishCopy(c)
  PROVE  FSTypeOK' /\ QueueInv'
<1> DEFINE s == call[c].resource
           t == call[c].target
<1>1. s \in Resources /\ t \in Resources /\ call[c].pc \notin Queued
  BY DEF FSTypeOK, Call, FinishMove, FinishCopy, Queued
<1>2. IdleCall \in Call /\ IdleCall.pc \notin Queued
  BY IdleCallType DEF IdleCall, Queued
<1>3. call' = [call EXCEPT ![c] = IdleCall] /\ UNCHANGED queue
  BY DEF FinishMove, FinishCopy
<1>4. QueueInv'
  BY <1>1, <1>2, <1>3, BesideInv
<1>5. CASE FinishMove(c)
  <2>1. IsFile(s) => [disk[s] EXCEPT !.author = "other"] \in File
    BY <1>1, FilesAreTyped DEF File, Authors
  <2>2. disk' \in [Resources -> File \cup {Absent}]
    BY <1>1, <1>5, <2>1 DEF FinishMove, FSTypeOK
  <2> QED BY <1>2, <1>3, <1>4, <1>5, <2>2 DEF FinishMove, FSTypeOK
<1>6. CASE FinishCopy(c)
  <2>1. ASSUME IsFile(s), NEW linked \in {FALSE, disk[s].linked}
        PROVE  Version(disk[s].text, "other", linked) \in File
    BY <1>1, <2>1, FilesAreTyped, VersionType DEF File, Authors
  <2>2. disk' \in [Resources -> File \cup {Absent}]
    BY <1>1, <1>6, <2>1 DEF FinishCopy, FSTypeOK
  <2> QED BY <1>2, <1>3, <1>4, <1>6, <2>2 DEF FinishCopy, FSTypeOK
<1> QED BY <1>5, <1>6

\* Every step of a queued write (fileService.ts:124-150).
LEMMA TaskQueue ==
  ASSUME FSTypeOK, QueueInv, NEW c \in Callers, Task(c)
  PROVE  FSTypeOK' /\ QueueInv'
<1> DEFINE r == call[c].resource
<1>0. call[c] \in Call /\ r \in Resources /\ call[c].text \in Texts
  BY DEF FSTypeOK, Call
<1>1. CASE Begin(c)
  <2> DEFINE new == [call[c] EXCEPT !.pc = "checked"]
  <2>1. new \in Call /\ new.pc \in Queued /\ new.resource = r
    BY <1>0 DEF Call, Queued
  <2>2. call' = [call EXCEPT ![c] = new] /\ AtHead(c) /\ UNCHANGED queue
    BY <1>1 DEF Begin
  <2>3. QueueInv'
    BY <2>1, <2>2, AdvanceInv
  <2> QED BY <1>1, <2>1, <2>2, <2>3 DEF Begin, FSTypeOK
<1>2. CASE Refuse(c)
  BY <1>2, SettleType, SettleInv DEF Refuse, FSTypeOK
<1>3. CASE Fail(c)
  BY <1>3, SettleType, SettleInv DEF Fail, FSTypeOK
<1>4. CASE Replace(c)
  <2> DEFINE new == [call[c] EXCEPT !.pc = "replaced"]
  <2>1. new \in Call /\ new.pc \in Queued /\ new.resource = r
    BY <1>0 DEF Call, Queued
  <2>2. call' = [call EXCEPT ![c] = new] /\ AtHead(c) /\ UNCHANGED queue
    BY <1>4, RunningIsHead DEF Replace, Running, Queued
  <2>3. QueueInv'
    BY <2>1, <2>2, AdvanceInv
  <2>4. Version(call[c].text, "write", FALSE) \in File /\ clock + 1 \in Nat
    BY <1>0, VersionType DEF Authors
  <2> QED BY <1>4, <1>0, <2>1, <2>2, <2>3, <2>4 DEF Replace, FSTypeOK
<1>5. CASE Truncate(c)
  <2> DEFINE new == [call[c] EXCEPT !.pc = "torn", !.stamp = clock + 1]
             linked == IsFile(r) /\ disk[r].linked
  <2>0. linked \in BOOLEAN
    BY <1>0, FilesAreTyped DEF File
  <2>1. Version(Torn, "write", linked) \in File /\ clock + 1 \in Nat
    BY <2>0, VersionType DEF Authors
  <2>2. new \in Call /\ new.pc \in Queued /\ new.resource = r
    BY <1>0, <2>1 DEF Call, Queued
  <2>3. call' = [call EXCEPT ![c] = new] /\ AtHead(c) /\ UNCHANGED queue
    BY <1>5, RunningIsHead DEF Truncate, Running, Queued
  <2>4. QueueInv'
    BY <2>2, <2>3, AdvanceInv
  <2>5. disk' \in [Resources -> File \cup {Absent}]
    BY <1>5, <1>0, <2>1 DEF Truncate, FSTypeOK
  <2> QED BY <1>5, <2>1, <2>2, <2>3, <2>4, <2>5 DEF Truncate, FSTypeOK
<1>6. CASE Fill(c)
  <2> DEFINE new == [call[c] EXCEPT !.pc = "replaced"]
  <2>1. new \in Call /\ new.pc \in Queued /\ new.resource = r
    BY <1>0 DEF Call, Queued
  <2>2. call' = [call EXCEPT ![c] = new] /\ AtHead(c) /\ UNCHANGED queue
    BY <1>6, RunningIsHead DEF Fill, Running, Queued
  <2>3. QueueInv'
    BY <2>1, <2>2, AdvanceInv
  <2>4. ASSUME NEW q \in Resources, IsFile(q)
        PROVE  Version(call[c].text, disk[q].author, disk[q].linked) \in File
    BY <1>0, <2>4, FilesAreTyped, VersionType DEF File
  <2>5. disk' \in [Resources -> File \cup {Absent}] /\ clock' \in Nat
    BY <1>6, <2>4 DEF Fill, FSTypeOK
  <2> QED BY <1>6, <2>1, <2>2, <2>3, <2>5 DEF Fill, FSTypeOK
<1>7. CASE StatWritten(c)
  <2>1. AtHead(c) /\ Settle(c) /\ UNCHANGED <<disk, clock>>
    BY <1>7, RunningIsHead DEF StatWritten, Running, Queued
  <2> QED BY <2>1, SettleType, SettleInv DEF FSTypeOK
<1>8. CASE atomicReplacement(c)
  <2> DEFINE new == [call[c] EXCEPT !.pc = IF InPlace(c) THEN "inPlace" ELSE "renaming"]
  <2>1. new \in Call /\ new.pc \in Queued /\ new.resource = r
    BY <1>0 DEF Call, Queued
  <2>2. call' = [call EXCEPT ![c] = new] /\ AtHead(c) /\ UNCHANGED queue
    BY <1>8, RunningIsHead DEF atomicReplacement, Running, Queued
  <2>3. QueueInv'
    BY <2>1, <2>2, AdvanceInv
  <2> QED BY <1>8, <2>1, <2>2, <2>3 DEF atomicReplacement, FSTypeOK
<1> QED BY <1>1, <1>2, <1>3, <1>4, <1>5, <1>6, <1>7, <1>8 DEF Task

\* The queues and the calls do not change.
LEMMA ElsewhereQueue ==
  ASSUME FSTypeOK, QueueInv, NEW r \in Resources, Del(r) \/ Foreign(r)
  PROVE  FSTypeOK' /\ QueueInv'
<1>1. UNCHANGED <<queue, call>>
  BY DEF Del, Foreign, ForeignRewrite, ForeignDelete
<1>2. QueueInv'
  BY <1>1 DEF QueueInv, QueuedHere, QueuedOnce, AllQueued, Positions
<1>3. CASE Del(r) \/ ForeignDelete(r)
  BY <1>1, <1>2, <1>3 DEF Del, ForeignDelete, FSTypeOK
<1>4. ASSUME NEW t \in Texts, NEW l \in Linkings, ForeignRewrite(r, t, l)
      PROVE  FSTypeOK'
  <2>1. Version(t, "other", l) \in File /\ clock + 1 \in Nat
    BY FileServiceAssumption, VersionType DEF Authors
  <2> QED BY <1>1, <1>4, <2>1 DEF ForeignRewrite, FSTypeOK
<1> QED BY <1>2, <1>3, <1>4 DEF Foreign

\* A crash empties the queues with the calls.
LEMMA CrashQueue ==
  ASSUME FSTypeOK, Crash
  PROVE  FSTypeOK' /\ QueueInv'
<1>1. FSTypeOK'
  BY IdleCallType, EmptySeq DEF Crash, FSTypeOK
<1>2. \A r \in Resources : Len(queue'[r]) = 0
  BY EmptySeq DEF Crash
<1>3. \A c \in Callers : call'[c].pc \notin Queued
  BY DEF Crash, IdleCall, Queued
<1>4. QueueInv'
  BY <1>2, <1>3 DEF QueueInv, QueuedHere, QueuedOnce, AllQueued, Positions
<1> QED BY <1>1, <1>4

-----------------------------------------------------------------------------
(* The guard *)

\* Because only heads run, writes to one resource do not overlap.
LEMMA Exclusive == FSTypeOK /\ QueueInv => WritesDoNotInterleave
<1> SUFFICES ASSUME FSTypeOK, QueueInv, NEW c \in Callers, NEW d \in Callers,
                    call[c].pc \in Running, call[d].pc \in Running,
                    call[c].resource = call[d].resource
             PROVE  c = d
  BY DEF WritesDoNotInterleave
<1>1. AtHead(c) /\ AtHead(d)
  BY RunningIsHead
<1> QED BY <1>1 DEF AtHead

Files == FSTypeOK /\ StampsPast /\ TornAtHome /\ GuardHoldsUntilReplace

\* Whatever is not a write of the queue leaves the versions of writes where
\* they are, or deletes them.
LEMMA ElsewhereKeeps ==
  ASSUME Files, clock' \in Nat, clock' >= clock,
         \A d \in Callers : call'[d] = call[d] \/ call'[d].pc \notin {"torn"} \cup Unwritten,
         \A r \in Resources :
             \/ disk'[r] = disk[r]
             \/ disk'[r] = Absent
             \/ disk'[r].author = "other" /\ disk'[r].stamp \in Nat /\ disk'[r].stamp <= clock'
  PROVE  (StampsPast /\ TornAtHome /\ GuardHoldsUntilReplace)'
<1>0. /\ clock \in Nat
      /\ \A d \in Callers : call[d].stamp \in Nat
      /\ \A r \in Resources : IsFile(r) => disk[r].stamp \in Nat
  BY FilesAreTyped DEF Files, FSTypeOK, Call, File
<1>1. StampsPast'
  <2>1. ASSUME NEW r \in Resources, disk'[r] # Absent
        PROVE  disk'[r].stamp <= clock'
    BY <1>0, <2>1 DEF Files, StampsPast, IsFile
  <2>2. ASSUME NEW d \in Callers, call'[d].pc = "torn"
        PROVE  call'[d].stamp <= clock'
    BY <1>0, <2>2 DEF Files, StampsPast
  <2> QED BY <2>1, <2>2 DEF StampsPast, IsFile
<1>2. TornAtHome'
  <2> SUFFICES ASSUME NEW d \in Callers, NEW r \in Resources, call'[d].pc = "torn", disk'[r] # Absent,
                      disk'[r].text = Torn, disk'[r].stamp = call'[d].stamp,
                      disk'[r].author = "write"
               PROVE  r = call'[d].resource
    BY DEF TornAtHome, IsFile
  <2>1. call'[d] = call[d] /\ disk'[r] = disk[r]
    OBVIOUS
  <2> QED BY <2>1 DEF Files, TornAtHome, IsFile
<1>3. GuardHoldsUntilReplace'
  <2> SUFFICES ASSUME NEW d \in Callers, call'[d].pc \in Unwritten, call'[d].etag # NoEtag,
                      disk'[call'[d].resource] # Absent
               PROVE  \/ disk'[call'[d].resource].stamp = call'[d].etag
                      \/ disk'[call'[d].resource].author = "other"
    BY DEF GuardHoldsUntilReplace, IsFile
  <2>1. call'[d] = call[d] /\ call[d].resource \in Resources
    BY DEF Files, FSTypeOK, Call
  <2> QED BY <2>1 DEF Files, GuardHoldsUntilReplace, IsFile
<1> QED BY <1>1, <1>2, <1>3

\* A write decides where it goes; nothing else changes.
LEMMA DecisionKeeps ==
  ASSUME Files, NEW c \in Callers, atomicReplacement(c)
  PROVE  (StampsPast /\ TornAtHome /\ GuardHoldsUntilReplace)'
<1>1. /\ UNCHANGED <<disk, clock>> /\ call[c].pc = "checked"
      /\ \A d \in Callers : /\ call'[d].resource = call[d].resource
                            /\ call'[d].etag = call[d].etag /\ call'[d].stamp = call[d].stamp
                            /\ call'[d].pc = "torn" => call[d].pc = "torn"
                            /\ call'[d].pc \in Unwritten => call[d].pc \in Unwritten
  BY DEF atomicReplacement, Files, FSTypeOK, Call, Unwritten
<1> QED BY <1>1 DEF Files, StampsPast, TornAtHome, GuardHoldsUntilReplace, IsFile

\* A write of the queue changes its own file, or fills the torn one it opened.
LEMMA WriteKeeps ==
  ASSUME Files, QueueInv, NEW c \in Callers, Replace(c) \/ Truncate(c) \/ Fill(c)
  PROVE  (StampsPast /\ TornAtHome /\ GuardHoldsUntilReplace)'
<1> DEFINE r == call[c].resource
           pc == call'[c].pc
<1>0. /\ r \in Resources /\ clock \in Nat /\ clock' = clock + 1
      /\ \A d \in Callers : call[d].resource \in Resources /\ call[d].stamp \in Nat
      /\ \A q \in Resources : IsFile(q) => disk[q].stamp \in Nat /\ disk[q].stamp <= clock
      /\ \A d \in Callers : call[d].pc = "torn" => call[d].stamp <= clock
  BY FilesAreTyped DEF Files, FSTypeOK, Call, File, StampsPast, Replace, Truncate, Fill
<1>1. /\ \A d \in Callers \ {c} : call'[d] = call[d]
      /\ call'[c].resource = r /\ pc \in {"torn", "replaced"}
      /\ pc = "torn" => call'[c].stamp = clock + 1
  <2>0. call \in [Callers -> Call] /\ call[c] \in Call
    BY DEF Files, FSTypeOK
  <2>1. CASE Replace(c) \/ Fill(c)
    <3>1. call' = [call EXCEPT ![c] = [call[c] EXCEPT !.pc = "replaced"]]
      BY <2>1 DEF Replace, Fill
    <3> QED BY <2>0, <3>1 DEF Call
  <2>2. CASE Truncate(c)
    <3>1. call' = [call EXCEPT ![c] = [call[c] EXCEPT !.pc = "torn", !.stamp = clock + 1]]
      BY <2>2 DEF Truncate
    <3> QED BY <2>0, <3>1 DEF Call
  <2> QED BY <2>1, <2>2
\* No other write of this resource runs.
<1>2. \A d \in Callers \ {c} : call[d].pc \in {"torn"} \cup Unwritten => call[d].resource # r
  BY Exclusive DEF WritesDoNotInterleave, Files, Running, Queued, Unwritten, Replace, Truncate, Fill
\* What may have changed, and how.
<1>3. ASSUME NEW q \in Resources
      PROVE  \/ disk'[q] = disk[q] /\ (pc = "torn" => q # r)
             \/ disk'[q] # Absent /\ disk'[q].stamp = clock + 1
                  /\ (\/ q = r
                      \/ disk'[q].author = "other" /\ pc = "replaced")
  <2>1. CASE Replace(c)
    <3>1. call[c].text \in Texts
      BY DEF Files, FSTypeOK, Call
    <3>2. Version(call[c].text, "write", FALSE) \in File
      BY <3>1, VersionType DEF Files, Authors
    <3>3. call'[c].pc = "replaced"
      BY <2>1 DEF Replace, Files, FSTypeOK, Call
    <3> QED BY <1>0, <2>1, <3>2, <3>3, FileServiceAssumption DEF Replace, Files, FSTypeOK, Version, File, Authors
  <2>2. CASE Truncate(c)
    <3>1. (IsFile(r) /\ disk[r].linked) \in BOOLEAN
      BY <1>0, FilesAreTyped DEF Files, File
    <3>2. Version(Torn, "write", IsFile(r) /\ disk[r].linked) \in File
      BY <3>1, VersionType DEF Files, Authors
    <3> QED BY <1>0, <2>2, <3>2, FileServiceAssumption DEF Truncate, Files, FSTypeOK, Version, File, Authors
  <2>3. CASE Fill(c)
    <3>1. CASE IsFile(q) /\ disk[q].text = Torn /\ disk[q].stamp = call[c].stamp
      <4>1. disk[q] \in File
        BY <3>1, FilesAreTyped DEF Files
      <4>2. disk'[q] = Version(call[c].text, disk[q].author, disk[q].linked) /\ disk'[q] \in File
        BY <2>3, <3>1, <4>1, VersionType DEF Fill, Files, FSTypeOK, Call, File
      <4>3. disk[q].author = "other" \/ q = r
        BY <2>3, <3>1, <4>1 DEF Fill, Files, TornAtHome, File, Authors
      <4>4. disk'[q] # Absent /\ disk'[q].stamp = clock + 1 /\ disk'[q].author = disk[q].author
        BY <4>2, FileServiceAssumption DEF Version, File, Authors
      <4>5. pc = "replaced"
        BY <2>3 DEF Fill, Files, FSTypeOK, Call
      <4> QED BY <4>3, <4>4, <4>5
    <3>2. CASE ~(IsFile(q) /\ disk[q].text = Torn /\ disk[q].stamp = call[c].stamp)
      BY <2>3, <3>2 DEF Fill, Files, FSTypeOK, Call
    <3> QED BY <3>1, <3>2
  <2> QED BY <2>1, <2>2, <2>3
<1>4. StampsPast'
  <2>1. ASSUME NEW q \in Resources, disk'[q] # Absent
        PROVE  disk'[q].stamp <= clock'
    BY <1>0, <1>3, <2>1 DEF IsFile
  <2>2. ASSUME NEW d \in Callers, call'[d].pc = "torn"
        PROVE  call'[d].stamp <= clock'
    BY <1>0, <1>1, <2>2
  <2> QED BY <2>1, <2>2 DEF StampsPast, IsFile
<1>5. TornAtHome'
  <2> SUFFICES ASSUME NEW d \in Callers, NEW q \in Resources, call'[d].pc = "torn", disk'[q] # Absent,
                      disk'[q].text = Torn, disk'[q].stamp = call'[d].stamp,
                      disk'[q].author = "write"
               PROVE  q = call'[d].resource
    BY DEF TornAtHome, IsFile
  <2>1. CASE d = c
    BY <1>0, <1>1, <1>3, <2>1 DEF IsFile
  <2>2. CASE d # c
    <3>1. call'[d] = call[d] /\ call[d].stamp <= clock
      BY <1>0, <1>1, <2>2
    <3>2. disk'[q] = disk[q]
      BY <1>0, <1>3, <3>1
    <3> QED BY <3>1, <3>2 DEF Files, TornAtHome, IsFile
  <2> QED BY <2>1, <2>2
<1>6. GuardHoldsUntilReplace'
  <2> SUFFICES ASSUME NEW d \in Callers, call'[d].pc \in Unwritten, call'[d].etag # NoEtag,
                      disk'[call'[d].resource] # Absent
               PROVE  \/ disk'[call'[d].resource].stamp = call'[d].etag
                      \/ disk'[call'[d].resource].author = "other"
    BY DEF GuardHoldsUntilReplace, IsFile
  <2>1. d # c
    BY <1>1 DEF Unwritten
  <2>2. call'[d] = call[d] /\ call[d].resource \in Resources /\ call[d].resource # r
    BY <1>0, <1>1, <1>2, <2>1
  <2>3. \/ disk'[call[d].resource] = disk[call[d].resource]
        \/ disk'[call[d].resource].author = "other"
    BY <1>3, <2>2
  <2> QED BY <2>2, <2>3 DEF Files, GuardHoldsUntilReplace, IsFile
<1> QED BY <1>4, <1>5, <1>6

-----------------------------------------------------------------------------
(* The theorems *)

\* The invariant holds at the start.
LEMMA InitInv == FSInit => Inv
<1> SUFFICES ASSUME FSInit PROVE Inv
  OBVIOUS
<1>1. FSTypeOK
  BY InitType
<1>2. (\A r \in Resources : Len(queue[r]) = 0) /\ (\A c \in Callers : call[c].pc = "idle")
  BY EmptySeq DEF FSInit, IdleCall
<1>3. QueueInv
  BY <1>2 DEF QueueInv, QueuedHere, QueuedOnce, AllQueued, Positions, Queued
<1>4. \A r \in Resources : IsFile(r) => disk[r].stamp = 0
  BY DEF FSInit, IsFile
<1>5. StampsPast
  BY <1>2, <1>4 DEF StampsPast, FSInit
<1> QED BY <1>1, <1>2, <1>3, <1>5 DEF Inv, TornAtHome, GuardHoldsUntilReplace, Unwritten

\* Every step keeps the invariant.
LEMMA StepInv == Inv /\ [FSNext]_fsVars => Inv'
<1> SUFFICES ASSUME Inv, [FSNext]_fsVars PROVE Inv'
  OBVIOUS
<1> USE DEF Inv
<1>0. Files /\ clock \in Nat
  BY DEF Files, FSTypeOK
<1>1. ASSUME NEW c \in Callers, Request(c)
      PROVE  Inv'
  <2>1. /\ UNCHANGED <<disk, clock>>
        /\ \A d \in Callers : call'[d] = call[d] \/ call'[d].pc \in {"queued", "moving", "copying"}
    <3> call \in [Callers -> Call]
      BY DEF FSTypeOK
    <3>1. ASSUME NEW r \in Resources, NEW t \in Texts, NEW e \in KnownEtags, NEW a \in Atomics,
                 WriteFile(c, r, t, e, a)
          PROVE  UNCHANGED <<disk, clock>> /\ call'[c].pc = "queued"
                   /\ \A d \in Callers \ {c} : call'[d] = call[d]
      BY <3>1 DEF WriteFile, Call
    <3>2. ASSUME NEW s \in Resources, NEW t \in Resources, NEW o \in BOOLEAN,
                 NEW pc \in {"moving", "copying"}, StartTransfer(c, pc, s, t, o)
          PROVE  UNCHANGED <<disk, clock>> /\ call'[c].pc = pc
                   /\ \A d \in Callers \ {c} : call'[d] = call[d]
      BY <3>2 DEF StartTransfer, Call
    <3> QED BY <1>1, <3>1, <3>2 DEF Request
  <2> QED BY <1>0, <1>1, <2>1, RequestQueue, ElsewhereKeeps DEF Unwritten
<1>2. ASSUME NEW c \in Callers, Task(c)
      PROVE  Inv'
  <2>0. FSTypeOK' /\ QueueInv'
    BY <1>2, TaskQueue
  <2>1. CASE Begin(c)
    <3>1. UNCHANGED <<disk, clock>> /\ call' = [call EXCEPT ![c].pc = "checked"] /\ EtagAllows(c)
      BY <2>1 DEF Begin
    <3>2. \A d \in Callers : /\ call'[d].resource = call[d].resource
                             /\ call'[d].etag = call[d].etag /\ call'[d].stamp = call[d].stamp
                             /\ d # c => call'[d] = call[d]
                             /\ d = c => call'[d].pc = "checked"
      BY <3>1 DEF FSTypeOK, Call
    <3>3. StampsPast' /\ TornAtHome'
      BY <3>1, <3>2 DEF StampsPast, TornAtHome, IsFile
    <3>4. GuardHoldsUntilReplace'
      BY <3>1, <3>2 DEF GuardHoldsUntilReplace, EtagAllows, IsFile, Unwritten
    <3> QED BY <2>0, <3>3, <3>4
  <2>2. CASE Refuse(c) \/ Fail(c) \/ StatWritten(c)
    <3>1. UNCHANGED <<disk, clock>> /\ call' = [call EXCEPT ![c] = IdleCall]
      BY <2>2 DEF Refuse, Fail, StatWritten, Settle
    <3>2. \A d \in Callers : call'[d] = call[d] \/ call'[d].pc = "idle"
      BY <3>1 DEF FSTypeOK, IdleCall
    <3> QED BY <1>0, <2>0, <3>1, <3>2, ElsewhereKeeps DEF Unwritten
  <2>3. CASE Replace(c) \/ Truncate(c) \/ Fill(c)
    BY <1>0, <2>0, <2>3, WriteKeeps
  <2>4. CASE atomicReplacement(c)
    BY <1>0, <2>0, <2>4, DecisionKeeps
  <2> QED BY <1>2, <2>1, <2>2, <2>3, <2>4 DEF Task
<1>3. ASSUME NEW c \in Callers, FinishMove(c) \/ FinishCopy(c)
      PROVE  Inv'
  <2> DEFINE s == call[c].resource
             t == call[c].target
  <2>0. FSTypeOK' /\ QueueInv' /\ s \in Resources /\ t \in Resources
    BY <1>3, TransferQueue DEF FSTypeOK, Call
  <2>4. call' = [call EXCEPT ![c] = IdleCall] /\ clock' \in {clock, clock + 1}
    <3>1. FinishMove(c) => call' = [call EXCEPT ![c] = IdleCall] /\ clock' = clock
      BY DEF FinishMove
    <3>2. FinishCopy(c) => call' = [call EXCEPT ![c] = IdleCall] /\ clock' = clock + 1
      BY DEF FinishCopy
    <3> QED BY <1>3, <3>1, <3>2
  <2>1. \A d \in Callers : call'[d] = call[d] \/ call'[d].pc = "idle"
    BY <2>4 DEF FSTypeOK, IdleCall
  <2>2. clock' \in Nat /\ clock' >= clock
    BY <1>0, <2>4
  <2>3. ASSUME NEW r \in Resources
        PROVE  \/ disk'[r] = disk[r]
               \/ disk'[r] = Absent
               \/ disk'[r].author = "other" /\ disk'[r].stamp \in Nat /\ disk'[r].stamp <= clock'
    <3>1. CASE FinishMove(c)
      <4>1. CASE IsFile(s)
        <5>1. disk[s] \in File /\ disk[s].stamp \in Nat /\ disk[s].stamp <= clock
          BY <2>0, <4>1, FilesAreTyped DEF File, StampsPast
        <5>2. disk'[r] = disk[r] \/ disk'[r] = Absent \/ disk'[r] = [disk[s] EXCEPT !.author = "other"]
          BY <2>0, <3>1, <4>1 DEF FinishMove, FSTypeOK
        <5> QED BY <3>1, <5>1, <5>2 DEF FinishMove, File
      <4> QED BY <3>1, <4>1 DEF FinishMove
    <3>2. CASE FinishCopy(c)
      <4>1. CASE IsFile(s)
        <5>1. PICK linked \in {FALSE, disk[s].linked} :
                  disk' = [disk EXCEPT ![t] = Version(disk[s].text, "other", linked)]
          BY <3>2, <4>1 DEF FinishCopy
        <5>2. disk'[r] = disk[r] \/ disk'[r] = Version(disk[s].text, "other", linked)
          BY <2>0, <5>1 DEF FSTypeOK
        <5> QED BY <1>0, <3>2, <5>2 DEF FinishCopy, Version
      <4> QED BY <3>2, <4>1 DEF FinishCopy
    <3> QED BY <1>3, <3>1, <3>2
  <2> QED BY <1>0, <2>0, <2>1, <2>2, <2>3, ElsewhereKeeps DEF Unwritten
<1>4. ASSUME NEW q \in Resources, Del(q) \/ Foreign(q)
      PROVE  Inv'
  <2>0. FSTypeOK' /\ QueueInv'
    BY <1>4, ElsewhereQueue
  <2>1. UNCHANGED call /\ clock' \in Nat /\ clock' >= clock
    BY <1>0, <1>4 DEF Del, Foreign, ForeignDelete, ForeignRewrite
  <2>2. ASSUME NEW r \in Resources
        PROVE  \/ disk'[r] = disk[r]
               \/ disk'[r] = Absent
               \/ disk'[r].author = "other" /\ disk'[r].stamp \in Nat /\ disk'[r].stamp <= clock'
    BY <1>0, <1>4 DEF Del, Foreign, ForeignDelete, ForeignRewrite, Version, FSTypeOK
  <2> QED BY <1>0, <2>0, <2>1, <2>2, ElsewhereKeeps
<1>5. CASE Crash
  <2>1. UNCHANGED <<disk, clock>> /\ \A d \in Callers : call'[d].pc = "idle"
    BY <1>5 DEF Crash, IdleCall
  <2> QED BY <1>0, <1>5, <2>1, CrashQueue, ElsewhereKeeps DEF Unwritten
<1>6. CASE UNCHANGED fsVars
  <2>1. UNCHANGED <<disk, clock, queue, call>>
    BY <1>6 DEF fsVars
  <2> QED BY <2>1 DEF FSTypeOK, QueueInv, QueuedHere, QueuedOnce, AllQueued, Positions, StampsPast,
                      TornAtHome, GuardHoldsUntilReplace, IsFile
<1> QED BY <1>1, <1>2, <1>3, <1>4, <1>5, <1>6 DEF FSNext

\* The queue, the stamps and the guard keep the invariant in every behaviour.
THEOREM Invariance == FSSpec => []Inv
  BY InitInv, StepInv, PTL DEF FSSpec

\* Every reachable state of the file service is typed: fileService.ts and its
\* queues never lose a call or take one from an empty queue.
THEOREM TypeCorrect == FSSpec => []FSTypeOK
<1>1. Inv => FSTypeOK
  BY DEF Inv
<1> QED BY <1>1, Invariance, PTL

\* Two writes to one resource never overlap (fileService.ts:28).
THEOREM NoInterleaving == FSSpec => []WritesDoNotInterleave
<1>1. Inv => WritesDoNotInterleave
  BY Exclusive DEF Inv
<1> QED BY <1>1, Invariance, PTL

\* A guarded write never destroys a version of another write of the editor
\* that its caller has not read (fileService.ts:135-140).
THEOREM GuardHolds == FSSpec => []GuardHoldsUntilReplace
<1>1. Inv => GuardHoldsUntilReplace
  BY DEF Inv
<1> QED BY <1>1, Invariance, PTL
=============================================================================

------------------------- MODULE StateFileStoreProofs -------------------------
(***************************************************************************)
(* Theorems of StateFileStore for every set of files, any number of writes *)
(* and any bound: types, the timer always finds the dirty store it was     *)
(* armed for, a store that was disposed stays quiet, no workspace's values *)
(* reach the file of another unless a workspace opened while a write was   *)
(* making its directory, and an exit loses nothing unless a write, an open *)
(* or an exit came amid a write. The inductive invariants say besides      *)
(* where the values of writes under way come from, and where those of a    *)
(* store that is not dirty are.                                            *)
(***************************************************************************)
EXTENDS StateFileStore, SequenceTheorems, TLAPS

-----------------------------------------------------------------------------
(* The invariant *)

\* Only values that were stored are in files and in writes under way: what
\* open loads is typed because of it.
StoredOnly ==
    /\ \A f \in Files : loadStateFile(disk[f]) \subseteq 1..Len(home)
    /\ \A w \in Writes : write[w].content \subseteq 1..Len(home)

\* A write under way has a stage and a file.
WritesAreOfFiles ==
    \A w \in Writes : ~Idle(w) => write[w].stage # "none" /\ write[w].file \in Files

\* A write that has serialized has values of its own file; one that has not is
\* of the open file.
OwnWrites ==
    ~crossed => \A w \in Writes :
        /\ write[w].stage = "mkdir" => write[w].file = filePath
        /\ \A i \in write[w].content : home[i] = write[w].file

Inv ==
    TypeOK /\ StoredOnly /\ WritesAreOfFiles /\ TimerSeesItsFile /\ OwnFileOnly /\ OwnWrites

-----------------------------------------------------------------------------
(* Steps *)

\* The store and its empty files at the start.
LEMMA InitInv == Init => Inv
<1> SUFFICES ASSUME Init PROVE Inv
  OBVIOUS
<1> USE StateFileStoreAssumption DEF Init
<1>1. home \in Seq(Files) /\ Len(home) = 0
  BY EmptySeq
<1>2. TypeOK
  <2>1. write \in [Writes -> [stage : {"none", "mkdir", "open", "write"},
                             file : Files \cup {NoFile}, content : SUBSET Items]]
    BY DEF IdleWrite
  <2>2. disk \in [Files -> (SUBSET Items) \cup {Truncated, Mixed}]
    OBVIOUS
  <2>3. Len(home) <= MaxItems /\ failures \in 0..MaxFailures /\ data \subseteq 1..Len(home)
    BY <1>1
  <2> QED BY <1>1, <2>1, <2>2, <2>3 DEF TypeOK
<1>3. StoredOnly
  BY <1>1 DEF StoredOnly, loadStateFile, IdleWrite
<1>4. TimerSeesItsFile /\ OwnFileOnly /\ OwnWrites /\ WritesAreOfFiles
  BY DEF TimerSeesItsFile, OwnFileOnly, OwnWrites, WritesAreOfFiles, loadStateFile, Idle, IdleWrite
<1> QED BY <1>2, <1>3, <1>4 DEF Inv

\* store: the new value is the last one, and of the open file.
LEMMA StoreInv == Inv /\ Store => Inv'
<1> SUFFICES ASSUME Inv, Store PROVE Inv'
  OBVIOUS
<1> USE StateFileStoreAssumption DEF Inv, Store, markDirty
<1>1. /\ home' \in Seq(Files) /\ Len(home') = Len(home) + 1 /\ Len(home) \in Nat
      /\ home'[Len(home) + 1] = filePath
      /\ \A i \in 1..Len(home) : home'[i] = home[i]
  BY DEF TypeOK
<1>2. TypeOK'
  <2>1. ASSUME NEW i \in data' PROVE i \in 1..Len(home')
    <3>1. i \in 1..Len(home) \/ i = Len(home) + 1
      BY DEF TypeOK
    <3> QED BY <3>1, <1>1
  <2>3. Len(home') <= MaxItems
    BY <1>1
  <2>2. timer' \in Files \cup {NoFile} /\ dirty' \in BOOLEAN
    BY DEF TypeOK
  <2> QED BY <1>1, <2>1, <2>2, <2>3 DEF TypeOK
<1>3. StoredOnly'
  BY <1>1 DEF StoredOnly, loadStateFile
<1>4. TimerSeesItsFile'
  BY DEF TimerSeesItsFile, Arms
<1>5. OwnFileOnly'
  <2>1. ASSUME ~crossed, NEW i \in data' \cap Items PROVE home'[i] = filePath'
    BY <1>1, <2>1 DEF OwnFileOnly, TypeOK
  <2>2. ASSUME ~crossed, NEW f \in Files, NEW i \in loadStateFile(disk'[f]) \cap Items
        PROVE  home'[i] = f
    BY <1>1, <2>2 DEF OwnFileOnly, StoredOnly, TypeOK
  <2> QED BY <2>1, <2>2 DEF OwnFileOnly, TypeOK
<1>6. OwnWrites' /\ WritesAreOfFiles'
  BY <1>1 DEF OwnWrites, WritesAreOfFiles, StoredOnly, Idle
<1> QED BY <1>2, <1>3, <1>4, <1>5, <1>6

\* remove, dispose: memory and timer only.
LEMMA RemoveInv == Inv /\ (dispose \/ \E i \in Items : Remove(i)) => Inv'
<1> SUFFICES ASSUME Inv, dispose \/ \E i \in Items : Remove(i) PROVE Inv'
  OBVIOUS
<1> USE StateFileStoreAssumption DEF Inv, dispose, Remove, markDirty, history
<1>1. data' \subseteq data /\ UNCHANGED <<home, filePath, write, disk, crossed>>
  OBVIOUS
<1>2. TypeOK'
  BY DEF TypeOK
<1>3. StoredOnly' /\ OwnWrites' /\ WritesAreOfFiles'
  BY <1>1 DEF StoredOnly, OwnWrites, WritesAreOfFiles, Idle
<1>4. TimerSeesItsFile'
  BY DEF TimerSeesItsFile, Arms
<1>5. OwnFileOnly'
  BY <1>1 DEF OwnFileOnly
<1> QED BY <1>2, <1>3, <1>4, <1>5

\* The timer fires: it starts a write of the open file, TimerSeesItsFile says.
LEMMA FireInv == ASSUME NEW w \in Writes PROVE Inv /\ Fire(w) => Inv'
<1> SUFFICES ASSUME Inv, Fire(w) PROVE Inv'
  OBVIOUS
<1> USE StateFileStoreAssumption DEF Inv, Fire, Crowds
<1>1. \A v \in Writes :
        write'[v] = IF v = w THEN [stage |-> "mkdir", file |-> timer, content |-> {}]
                             ELSE write[v]
  BY DEF TypeOK
<1>2. TypeOK'
  BY DEF TypeOK
<1>3. StoredOnly'
  BY <1>1 DEF StoredOnly
<1>4. TimerSeesItsFile' /\ OwnFileOnly'
  BY DEF TimerSeesItsFile, OwnFileOnly
<1>5. OwnWrites' /\ WritesAreOfFiles'
  BY <1>1 DEF OwnWrites, WritesAreOfFiles, Idle, TimerSeesItsFile, TypeOK
<1> QED BY <1>2, <1>3, <1>4, <1>5

\* What an operation leaves in the file when it is done.
LEMMA LandedFacts ==
  ASSUME Inv, NEW w \in Writes, ~Idle(w), NEW contents \in Landed(w)
  PROVE  /\ write[w].file \in Files
         /\ contents \in (SUBSET Items) \cup {Truncated, Mixed}
         /\ loadStateFile(contents) \subseteq 1..Len(home)
         /\ ~crossed => \A i \in loadStateFile(contents) \cap Items :
                            home[i] = write[w].file
<1> USE StateFileStoreAssumption DEF Inv
<1> DEFINE file == write[w].file
<1>1. /\ file \in Files
      /\ write[w].stage \in {"mkdir", "open", "write"}
      /\ disk[file] \in (SUBSET Items) \cup {Truncated, Mixed}
      /\ write[w].content \in SUBSET Items
  BY DEF TypeOK, WritesAreOfFiles
<1>2. contents \in {disk[file], Truncated, write[w].content, Mixed}
  BY <1>1 DEF Landed
<1>3. loadStateFile(Truncated) = {} /\ loadStateFile(Mixed) = {}
  BY DEF loadStateFile, Truncated, Mixed, Items
<1>4. loadStateFile(write[w].content) = write[w].content
  BY <1>1 DEF loadStateFile
<1>5. loadStateFile(contents) \subseteq 1..Len(home)
  BY <1>1, <1>2, <1>3, <1>4 DEF StoredOnly
<1>6. ASSUME ~crossed, NEW i \in loadStateFile(contents) \cap Items PROVE home[i] = file
  BY <1>1, <1>2, <1>3, <1>4, <1>6 DEF OwnFileOnly, OwnWrites
<1> QED BY <1>1, <1>2, <1>5, <1>6

\* What the operation of w does to the file, the program going on or not, if
\* the write then has no other values than before or those in memory.
LEMMA LandInv ==
  ASSUME Inv, NEW w \in Writes, ~Idle(w), NEW contents \in Landed(w),
         disk' = [disk EXCEPT ![write[w].file] = contents],
         UNCHANGED <<storeVars, phase, failures, history>>,
         NEW next,
         \/ next = IdleWrite \/ next.content = write[w].content
         \/ next.content = data /\ write[w].stage = "mkdir",
         next = IdleWrite \/ (next.stage \in {"open", "write"} /\ next.file = write[w].file),
         next \in [stage : {"none", "mkdir", "open", "write"},
                   file : Files \cup {NoFile}, content : SUBSET Items],
         write' = [write EXCEPT ![w] = next]
  PROVE  Inv'
<1> USE StateFileStoreAssumption DEF Inv, storeVars, history
<1>1. /\ write[w].file \in Files
      /\ contents \in (SUBSET Items) \cup {Truncated, Mixed}
      /\ loadStateFile(contents) \subseteq 1..Len(home)
      /\ ~crossed => \A i \in loadStateFile(contents) \cap Items : home[i] = write[w].file
  BY LandedFacts
<1>2. \A f \in Files : disk'[f] = IF f = write[w].file THEN contents ELSE disk[f]
  BY <1>1 DEF TypeOK
<1>3. \A v \in Writes : write'[v] = IF v = w THEN next ELSE write[v]
  BY DEF TypeOK
<1>4. TypeOK'
  <2>1. disk' \in [Files -> (SUBSET Items) \cup {Truncated, Mixed}]
    BY <1>1 DEF TypeOK
  <2>2. write' \in [Writes -> [stage : {"none", "mkdir", "open", "write"},
                              file : Files \cup {NoFile}, content : SUBSET Items]]
    BY DEF TypeOK
  <2> QED BY <2>1, <2>2 DEF TypeOK
<1>5. next.content \subseteq 1..Len(home)
  <2>1. IdleWrite.content = {}
    BY DEF IdleWrite
  <2>2. data \subseteq 1..Len(home) /\ write[w].content \subseteq 1..Len(home)
    BY DEF TypeOK, StoredOnly
  <2> QED BY <2>1, <2>2
<1>6. StoredOnly'
  BY <1>1, <1>2, <1>3, <1>5 DEF StoredOnly
<1>7. WritesAreOfFiles'
  BY <1>1, <1>3 DEF WritesAreOfFiles, Idle
<1>8. OwnFileOnly'
  BY <1>1, <1>2 DEF OwnFileOnly
<1>9. ASSUME ~crossed
      PROVE  next.stage # "mkdir" /\ \A i \in next.content : home[i] = next.file
  <2>1. CASE next = IdleWrite
    BY <2>1 DEF IdleWrite
  <2>2. CASE next # IdleWrite /\ next.content = data
    BY <1>9, <2>2 DEF OwnWrites, OwnFileOnly, TypeOK, Items
  <2>3. CASE next # IdleWrite /\ next.content = write[w].content
    BY <1>9, <2>3 DEF OwnWrites
  <2> QED BY <2>1, <2>2, <2>3
<1>10. OwnWrites'
  BY <1>3, <1>9 DEF OwnWrites
<1> QED BY <1>4, <1>6, <1>7, <1>8, <1>10 DEF TimerSeesItsFile

\* An operation is done, in a process that goes on (Step) or stops (LandsLate).
LEMMA StepOfWriteInv ==
  ASSUME NEW w \in Writes PROVE Inv /\ (Step(w) \/ LandsLate(w)) => Inv'
<1> SUFFICES ASSUME Inv, Step(w) \/ LandsLate(w) PROVE Inv'
  OBVIOUS
<1> USE StateFileStoreAssumption
<1> DEFINE
      Typed == [stage : {"none", "mkdir", "open", "write"},
                file : Files \cup {NoFile}, content : SUBSET Items]
<1>1. /\ write[w] \in Typed /\ IdleWrite \in Typed /\ data \subseteq Items
      /\ write \in [Writes -> Typed]
  BY DEF Inv, TypeOK, IdleWrite, Items
<1>2. ~Idle(w) /\ write[w].stage \in {"mkdir", "open", "write"}
  BY <1>1 DEF Step, LandsLate, Inv, WritesAreOfFiles
<1>3. PICK contents \in Landed(w) : disk' = [disk EXCEPT ![write[w].file] = contents]
  BY DEF Step, LandsLate
<1>4. UNCHANGED <<storeVars, phase, failures, history>>
  BY DEF Step, LandsLate
<1>5. CASE write' = [write EXCEPT ![w] = IdleWrite]
  BY <1>1, <1>2, <1>3, <1>4, <1>5, LandInv
<1>6. CASE /\ write[w].stage = "mkdir"
           /\ write' = [write EXCEPT ![w] = [@ EXCEPT !.stage = "open", !.content = data]]
  <2> DEFINE next == [write[w] EXCEPT !.stage = "open", !.content = data]
  <2>1. next \in Typed /\ next.content = data /\ next.stage = "open" /\ next.file = write[w].file
    BY <1>1
  <2>2. write' = [write EXCEPT ![w] = next]
    BY <1>6
  <2> HIDE DEF next
  <2> QED BY <1>2, <1>3, <1>4, <1>6, <2>1, <2>2, LandInv
<1>7. CASE /\ write[w].stage = "open"
           /\ write' = [write EXCEPT ![w] = [@ EXCEPT !.stage = "write"]]
  <2> DEFINE next == [write[w] EXCEPT !.stage = "write"]
  <2>1. /\ next \in Typed /\ next.content = write[w].content
        /\ next.stage = "write" /\ next.file = write[w].file
    BY <1>1
  <2>2. write' = [write EXCEPT ![w] = next]
    BY <1>7
  <2> HIDE DEF next
  <2> QED BY <1>2, <1>3, <1>4, <2>1, <2>2, LandInv
<1> QED BY <1>2, <1>5, <1>6, <1>7 DEF Step, LandsLate

\* A write fails: the store is dirty again.
LEMMA FailInv == ASSUME NEW w \in Writes PROVE Inv /\ Fail(w) => Inv'
<1> SUFFICES ASSUME Inv, Fail(w) PROVE Inv'
  OBVIOUS
<1> USE StateFileStoreAssumption DEF Inv, Fail
<1>1. \A v \in Writes : write'[v] = IF v = w THEN IdleWrite ELSE write[v]
  BY DEF TypeOK
<1>2. TypeOK'
  <2>1. IdleWrite \in [stage : {"none", "mkdir", "open", "write"},
                      file : Files \cup {NoFile}, content : SUBSET Items]
    BY DEF IdleWrite
  <2>2. failures' \in 0..MaxFailures
    BY DEF TypeOK
  <2> QED BY <2>1, <2>2 DEF TypeOK
<1>3. StoredOnly'
  <2>1. IdleWrite.content = {}
    BY DEF IdleWrite
  <2> QED BY <1>1, <2>1 DEF StoredOnly
<1>4. WritesAreOfFiles' /\ OwnWrites'
  <2>1. IdleWrite.content = {} /\ IdleWrite.stage = "none"
    BY DEF IdleWrite
  <2>2. WritesAreOfFiles'
    BY <1>1 DEF WritesAreOfFiles, Idle
  <2>3. OwnWrites'
    BY <1>1, <2>1 DEF OwnWrites
  <2> QED BY <2>2, <2>3
<1>5. TimerSeesItsFile' /\ OwnFileOnly'
  BY DEF TimerSeesItsFile, OwnFileOnly
<1> QED BY <1>2, <1>3, <1>4, <1>5

\* A flush leaves in the open file what was there, what is in memory, or a
\* truncated file.
LEMMA FlushFacts ==
  ASSUME Inv, flushSync, UNCHANGED home
  PROVE  /\ disk' \in [Files -> (SUBSET Items) \cup {Truncated, Mixed}]
         /\ failures' \in 0..MaxFailures /\ failed' \in BOOLEAN /\ timer' = NoFile
         /\ \A f \in Files : loadStateFile(disk'[f]) \subseteq 1..Len(home)
         /\ ~crossed => \A f \in Files : \A i \in loadStateFile(disk'[f]) \cap Items :
                            home[i] = f
<1> USE StateFileStoreAssumption DEF Inv
<1>1. data \subseteq Items /\ data \subseteq 1..Len(home) /\ filePath \in Files
  BY DEF TypeOK, Items
<1>2. PICK contents \in {disk[filePath], data, Truncated} :
        disk' = [disk EXCEPT ![filePath] = contents]
  <2>1. CASE disk' = [disk EXCEPT ![filePath] = data]
    BY <2>1
  <2>2. CASE \E contents \in {disk[filePath], Truncated} :
               disk' = [disk EXCEPT ![filePath] = contents]
    BY <2>2
  <2>3. CASE disk' = disk
    BY <2>3, <1>1 DEF TypeOK
  <2> QED BY <2>1, <2>2, <2>3 DEF flushSync, writeSync
<1>3. \A f \in Files : disk'[f] = IF f = filePath THEN contents ELSE disk[f]
  BY <1>2 DEF TypeOK
<1>4. loadStateFile(Truncated) = {} /\ loadStateFile(data) = data
  BY <1>1 DEF loadStateFile, Truncated, Items
<1>5. contents \in (SUBSET Items) \cup {Truncated, Mixed}
  BY <1>1 DEF TypeOK
<1>6. disk' \in [Files -> (SUBSET Items) \cup {Truncated, Mixed}]
  BY <1>2, <1>5 DEF TypeOK
<1>7. failures' \in 0..MaxFailures /\ failed' \in BOOLEAN /\ timer' = NoFile
  BY DEF flushSync, writeSync, TypeOK, Disarmed
<1>8. \A f \in Files : loadStateFile(disk'[f]) \subseteq 1..Len(home)
  BY <1>1, <1>3, <1>4 DEF StoredOnly
<1>9. ASSUME ~crossed, NEW f \in Files, NEW i \in loadStateFile(disk'[f]) \cap Items
      PROVE  home[i] = f
  BY <1>1, <1>3, <1>4, <1>9 DEF OwnFileOnly
<1> QED BY <1>6, <1>7, <1>8, <1>9

\* The two flushes of an exit.
LEMMA ExitInv == Inv /\ (Shutdown \/ Exit) => Inv'
<1> SUFFICES ASSUME Inv, Shutdown \/ Exit PROVE Inv'
  OBVIOUS
<1> USE DEF Inv
<1>1. flushSync /\ UNCHANGED <<data, filePath, disposed, write, home, unread, crossed>>
      /\ crowded' \in BOOLEAN
  BY DEF Shutdown, Exit, Crowds, Inv, TypeOK
<1>2. dirty' \in BOOLEAN /\ phase' \in {"running", "stopping", "gone"}
  BY DEF Shutdown, Exit
<1>3. TypeOK'
  BY <1>1, <1>2, FlushFacts DEF TypeOK
<1>4. StoredOnly' /\ OwnFileOnly'
  BY <1>1, FlushFacts DEF StoredOnly, OwnFileOnly
<1>5. WritesAreOfFiles' /\ OwnWrites'
  BY <1>1 DEF WritesAreOfFiles, OwnWrites, Idle
<1>6. TimerSeesItsFile'
  BY <1>1, FlushFacts DEF TimerSeesItsFile
<1> QED BY <1>3, <1>4, <1>5, <1>6

\* open: what is read is typed because only stored values are in files.
LEMMA OpenInv == ASSUME NEW f \in Files PROVE Inv /\ Open(f) => Inv'
<1> SUFFICES ASSUME Inv, Open(f) PROVE Inv'
  OBVIOUS
<1> USE DEF Inv, Open
<1>1. flushSync /\ UNCHANGED <<disposed, write, home, phase>> /\ filePath' = f
      /\ crowded' \in BOOLEAN /\ crossed' \in BOOLEAN /\ unread' \in BOOLEAN
  BY DEF Crowds, TypeOK
<1>2. data' \subseteq 1..Len(home') /\ dirty' \in BOOLEAN
  BY <1>1, FlushFacts DEF Loaded
<1>3. TypeOK'
  BY <1>1, <1>2, FlushFacts DEF TypeOK
<1>4. StoredOnly'
  BY <1>1, FlushFacts DEF StoredOnly
<1>5. OwnFileOnly'
  BY <1>1, FlushFacts DEF OwnFileOnly, Loaded
<1>6. WritesAreOfFiles' /\ OwnWrites'
  BY <1>1 DEF WritesAreOfFiles, OwnWrites, Idle, AllIdle
<1>7. TimerSeesItsFile'
  BY <1>1, FlushFacts DEF TimerSeesItsFile
<1> QED BY <1>3, <1>4, <1>5, <1>6, <1>7

-----------------------------------------------------------------------------
(* The theorems *)

\* Every step keeps the invariant.
LEMMA NextInv == Inv /\ [Next]_vars => Inv'
<1> SUFFICES ASSUME Inv, [Next]_vars PROVE Inv'
  OBVIOUS
<1>1. CASE UNCHANGED vars
  BY <1>1 DEF vars, storeVars, history, Inv, TypeOK, StoredOnly, WritesAreOfFiles, TimerSeesItsFile,
              OwnFileOnly, OwnWrites, Idle
<1>2. CASE Next
  BY <1>2, StoreInv, RemoveInv, FireInv, StepOfWriteInv, FailInv, ExitInv, OpenInv DEF Next
<1> QED BY <1>1, <1>2

\* The invariant holds in every behaviour of the store.
THEOREM Invariance == Spec => []Inv
<1>1. Init => Inv
  BY InitInv
<1>2. Inv /\ [Next]_vars => Inv'
  BY NextInv
<1> QED BY <1>1, <1>2, PTL DEF Spec

\* The store, its writes and its files are typed: nothing but values that were
\* stored is ever loaded, after failed and torn writes too.
THEOREM TypeCorrect == Spec => []TypeOK
<1>1. Inv => TypeOK
  BY DEF Inv
<1> QED BY <1>1, Invariance, PTL

\* A timer that fires finds a dirty store with the file it was armed for
\* (stateService.ts:115).
THEOREM TimerAlwaysSeesItsFile == Spec => []TimerSeesItsFile
<1>1. Inv => TimerSeesItsFile
  BY DEF Inv
<1> QED BY <1>1, Invariance, PTL

\* No workspace's values reach memory or the file of another, on a disk of any
\* speed, until a workspace opens while a write makes its directory
\* (stateService.ts:82-87, 119-121).
THEOREM FilesStayApart == Spec => []OwnFileOnly
<1>1. Inv => OwnFileOnly
  BY DEF Inv
<1> QED BY <1>1, Invariance, PTL
-----------------------------------------------------------------------------
(* Durability and silence *)

\* Until something comes amid a write, one write runs at a time, of the open file
\* and only while the process runs; a store that is not dirty has its values in
\* memory in the write under way, or in the file.
Prompt ==
    ~crowded =>
        /\ \A w \in Writes : ~Idle(w) =>
              /\ phase = "running" /\ write[w].file = filePath
              /\ \A v \in Writes : ~Idle(v) => v = w
              /\ write[w].stage \in {"open", "write"} /\ ~dirty => write[w].content = data
              /\ write[w].stage = "write" => disk[write[w].file] = Truncated
        /\ ~dirty /\ AllIdle => Kept
        /\ phase = "gone" /\ ~failed => ~dirty

\* What is in memory is read back from a file as it is.
LEMMA DataIsRead == Inv => loadStateFile(data) = data
<1> SUFFICES ASSUME Inv PROVE loadStateFile(data) = data
  OBVIOUS
<1>1. data \subseteq Items
  BY StateFileStoreAssumption DEF Inv, TypeOK, Items
<1> QED BY <1>1 DEF loadStateFile

\* store, remove: the store is dirty now.
LEMMA PromptDirty == Inv /\ Prompt /\ (Store \/ \E i \in Items : Remove(i)) => Prompt'
<1> SUFFICES ASSUME Prompt, Store \/ \E i \in Items : Remove(i) PROVE Prompt'
  OBVIOUS
<1>1. /\ dirty' /\ phase' = "running" /\ phase = "running"
      /\ UNCHANGED <<write, disk, filePath, crowded>>
  BY DEF Store, Remove, markDirty
<1> QED BY <1>1 DEF Prompt, Idle

\* The timer fires when no write runs, or crowds it.
LEMMA PromptFire == ASSUME NEW w \in Writes PROVE Inv /\ Prompt /\ Fire(w) => Prompt'
<1> SUFFICES ASSUME Inv, Prompt, Fire(w), ~crowded' PROVE Prompt'
  BY DEF Prompt
<1>0. ~crowded /\ AllIdle
  BY DEF Fire, Crowds, AllIdle
<1> DEFINE started == [stage |-> "mkdir", file |-> timer, content |-> {}]
<1>1. \A v \in Writes : write'[v] = IF v = w THEN started ELSE write[v]
  BY DEF Inv, TypeOK, Fire
<1>2. \A v \in Writes : ~Idle(v)' => v = w
  BY <1>0, <1>1 DEF AllIdle, Idle
<1>3. write'[w].stage = "mkdir" /\ write'[w].file = timer /\ ~Idle(w)'
  BY <1>1 DEF Idle, IdleWrite
<1>4. phase' = "running" /\ timer = filePath /\ filePath' = filePath
  BY DEF Fire, Inv, TimerSeesItsFile
<1> QED BY <1>0, <1>2, <1>3, <1>4 DEF Prompt, AllIdle

\* An operation is done: the last one puts into the file what the memory holds,
\* unless the store is dirty.
LEMMA PromptStep == ASSUME NEW w \in Writes PROVE Inv /\ Prompt /\ Step(w) => Prompt'
<1> SUFFICES ASSUME Inv, Prompt, Step(w), ~crowded' PROVE Prompt'
  BY DEF Prompt
<1>0. ~crowded
  BY DEF Step, history
<1>1. /\ ~Idle(w) /\ phase = "running"
      /\ UNCHANGED <<data, filePath, dirty, phase, crowded, unread>>
  BY DEF Step, storeVars, history
<1>2. write[w].file = filePath /\ filePath \in Files /\ write[w].stage \in {"mkdir", "open", "write"}
  BY <1>0, <1>1 DEF Inv, Prompt, WritesAreOfFiles, TypeOK
<1>3. PICK contents \in Landed(w) : disk' = [disk EXCEPT ![write[w].file] = contents]
  BY DEF Step
<1>4. disk'[filePath] = contents
  BY <1>2, <1>3 DEF Inv, TypeOK
<1>5. PICK next : write' = [write EXCEPT ![w] = next]
  BY DEF Step
<1>6. \A v \in Writes : write'[v] = IF v = w THEN write'[w] ELSE write[v]
  BY <1>5 DEF Inv, TypeOK
<1>7. \A v \in Writes : v # w => Idle(v) /\ Idle(v)'
  BY <1>0, <1>1, <1>6 DEF Prompt, Idle
<1>8. CASE write[w].stage = "mkdir"
  <2>1. write'[w] = [write[w] EXCEPT !.stage = "open", !.content = data]
    BY <1>8 DEF Step, Inv, TypeOK
  <2>3. write[w] \in [stage : {"none", "mkdir", "open", "write"},
                      file : Files \cup {NoFile}, content : SUBSET Items]
    BY DEF Inv, TypeOK
  <2>4. write'[w].stage = "open" /\ write'[w].content = data /\ write'[w].file = filePath
    BY <1>2, <2>1, <2>3
  <2>2. ~Idle(w)'
    BY <2>4 DEF Idle, IdleWrite
  <2> QED BY <1>0, <1>1, <1>7, <2>2, <2>4 DEF Prompt, AllIdle
<1>9. CASE write[w].stage = "open"
  <2>1. write'[w] = [write[w] EXCEPT !.stage = "write"]
    BY <1>9 DEF Step, Inv, TypeOK
  <2>2. /\ write'[w].stage = "write" /\ write'[w].content = write[w].content
        /\ write'[w].file = filePath /\ ~Idle(w)'
    BY <2>1, <1>2 DEF Inv, TypeOK, Idle, IdleWrite
  <2>3. contents = Truncated
    BY <1>9 DEF Landed
  <2> QED BY <1>0, <1>1, <1>4, <1>7, <1>9, <2>2, <2>3 DEF Prompt, AllIdle
<1>10. CASE write[w].stage = "write"
  <2>1. Idle(w)'
    BY <1>10 DEF Step, Inv, TypeOK, Idle
  <2>2. contents = write[w].content
    BY <1>0, <1>1, <1>2, <1>10 DEF Prompt, Landed
  <2>3. ~dirty => Kept'
    BY <1>0, <1>1, <1>4, <1>10, <2>2, DataIsRead DEF Prompt, Kept
  <2> QED BY <1>0, <1>1, <1>7, <2>1, <2>3 DEF Prompt
<1> QED BY <1>2, <1>8, <1>9, <1>10

\* A write fails: the store is dirty.
LEMMA PromptFail == ASSUME NEW w \in Writes PROVE Inv /\ Prompt /\ Fail(w) => Prompt'
<1> SUFFICES ASSUME Inv, Prompt, Fail(w), ~crowded' PROVE Prompt'
  BY DEF Prompt
<1>0. ~crowded
  BY DEF Fail
<1>1. \A v \in Writes : write'[v] = IF v = w THEN IdleWrite ELSE write[v]
  BY DEF Inv, TypeOK, Fail
<1>2. dirty' /\ phase' = phase /\ phase = "running" /\ ~Idle(w)
  BY DEF Fail
<1>3. \A v \in Writes : Idle(v)'
  BY <1>0, <1>1, <1>2 DEF Prompt, Idle
<1> QED BY <1>0, <1>2, <1>3 DEF Prompt

\* A flush that does not fail leaves in the open file what is in memory, or
\* leaves a file that could not be read as it is.
LEMMA FlushDurable ==
  ASSUME Inv, Prompt, flushSync, ~crowded, AllIdle, ~failed'
  PROVE  loadStateFile(disk'[filePath]) = data \/ (unread /\ data = {})
<1>1. failures' = failures
  <2>1. failures \in Nat
    BY StateFileStoreAssumption DEF Inv, TypeOK
  <2>2. failures' \in {failures, failures + 1}
    BY DEF flushSync, writeSync
  <2>3. ~(failures' > failures)
    BY DEF flushSync
  <2> QED BY <2>1, <2>2, <2>3
<1>2. CASE dirty
  <2>1. disk' = [disk EXCEPT ![filePath] = data]
    BY <1>1, <1>2 DEF flushSync, writeSync, MustWrite, Inv, TypeOK
  <2>2. disk'[filePath] = data
    BY <2>1 DEF Inv, TypeOK
  <2> QED BY <2>2, DataIsRead
<1>3. CASE ~dirty
  BY <1>3 DEF flushSync, writeSync, MustWrite, Prompt, Kept
<1> QED BY <1>2, <1>3

\* Both flushes of an exit find no write under way, or crowd it.
LEMMA PromptExit == Inv /\ Prompt /\ (Shutdown \/ Exit) => Prompt'
<1> SUFFICES ASSUME Inv, Prompt, Shutdown \/ Exit, ~crowded' PROVE Prompt'
  BY DEF Prompt
<1>0. ~crowded
  BY DEF Shutdown, Exit, Crowds
<1>1. AllIdle /\ AllIdle'
  <2>1. CASE Shutdown
    BY <2>1 DEF Shutdown, Crowds, AllIdle, Idle
  <2>2. CASE Exit
    BY <1>0, <2>2 DEF Exit, Prompt, AllIdle, Idle
  <2> QED BY <2>1, <2>2
<1>2. flushSync /\ UNCHANGED <<data, filePath, unread>> /\ dirty' = (dirty /\ (failed' \/ ~MustWrite))
  BY DEF Shutdown, Exit
<1>3. ~failed' => ~dirty' /\ Kept'
  BY <1>0, <1>1, <1>2, FlushDurable DEF MustWrite, Kept
<1>4. ~dirty' /\ failed' => ~dirty /\ UNCHANGED disk
  BY <1>2 DEF flushSync, writeSync, MustWrite
<1>5. ~dirty' => Kept'
  BY <1>0, <1>1, <1>2, <1>3, <1>4 DEF Prompt, Inv, TypeOK, flushSync, Kept
<1> QED BY <1>0, <1>1, <1>2, <1>3, <1>5 DEF Prompt, AllIdle

\* open: the memory is what the file holds, or empty when it could not be read.
LEMMA PromptOpen == ASSUME NEW f \in Files PROVE Inv /\ Prompt /\ Open(f) => Prompt'
<1> SUFFICES ASSUME Prompt, Open(f), ~crowded' PROVE Prompt'
  BY DEF Prompt
<1>0. ~crowded
  BY DEF Open, Crowds
<1>1. AllIdle' /\ phase' = "running" /\ dirty' = FALSE
  BY DEF Open, Crowds, AllIdle, Idle
<1>2. Kept'
  BY DEF Open, Loaded, Kept
<1> QED BY <1>0, <1>1, <1>2 DEF Prompt, AllIdle

\* Every step keeps it. Nothing lands while the process stops, unless the exit
\* came amid a write.
LEMMA PromptNext == Inv /\ Prompt /\ [Next]_vars => Prompt'
<1> SUFFICES ASSUME Inv, Prompt, [Next]_vars PROVE Prompt'
  OBVIOUS
<1>1. CASE UNCHANGED vars
  BY <1>1 DEF vars, storeVars, history, Prompt, Idle, AllIdle, Kept
<1>2. CASE dispose
  BY <1>2 DEF dispose, history, Prompt, Idle, AllIdle, Kept
<1>3. ASSUME NEW w \in Writes, LandsLate(w) PROVE Prompt'
  BY <1>3 DEF LandsLate, history, Prompt
<1>4. CASE Next
  BY <1>2, <1>3, <1>4, PromptDirty, PromptFire, PromptStep, PromptFail, PromptExit, PromptOpen
     DEF Next
<1> QED BY <1>1, <1>4

\* An exit whose flush did not fail leaves in the file what the memory held
\* (docs/arch/State.md:112), if no write began, no workspace opened and no exit
\* came while a write was under way; whatever failed before.
THEOREM ExitKeeps == Spec => []UncrowdedFlushIsDurable
<1>1. Init => Prompt
  BY DEF Init, Prompt, Kept, loadStateFile, Idle, AllIdle
<1>2. Inv /\ Prompt => UncrowdedFlushIsDurable
  <2> SUFFICES ASSUME Prompt, ~crowded, phase = "gone", ~failed PROVE Kept
    BY DEF UncrowdedFlushIsDurable, FlushIsDurable
  <2> QED BY DEF Prompt, AllIdle
<1> QED BY <1>1, <1>2, Invariance, PromptNext, PTL DEF Spec

\* A silenced store begins no write: its timer was disarmed and is not armed
\* again (stateService.ts:205).
THEOREM SilencedStoreIsQuiet == Spec => QuietAfterDispose
<1>1. Inv /\ [Next]_vars => [disposed => \A w \in Writes : Idle(w) => Idle(w)']_vars
  <2> SUFFICES ASSUME Inv, Next, disposed, NEW w \in Writes, Idle(w) PROVE Idle(w)'
    OBVIOUS
  <2>1. timer = NoFile
    BY DEF Inv, TimerSeesItsFile
  <2>2. ASSUME NEW v \in Writes, Fire(v) PROVE FALSE
    BY <2>1, <2>2 DEF Fire
  <2>3. ASSUME NEW v \in Writes, Step(v) \/ Fail(v) \/ LandsLate(v) PROVE Idle(w)'
    <3>1. v # w
      BY <2>3 DEF Step, Fail, LandsLate
    <3>2. PICK next : write' = [write EXCEPT ![v] = next]
      BY <2>3 DEF Step, Fail, LandsLate
    <3> QED BY <3>1, <3>2 DEF Inv, TypeOK, Idle
  <2>4. ASSUME Store \/ dispose \/ Shutdown \/ Exit \/ (\E i \in Items : Remove(i))
                 \/ \E f \in Files : Open(f)
        PROVE  Idle(w)'
    BY <2>4 DEF Store, dispose, Shutdown, Exit, Remove, Open, markDirty, Idle
  <2> QED BY <2>2, <2>3, <2>4 DEF Next
<1> QED BY <1>1, Invariance, PTL DEF Spec, QuietAfterDispose
=============================================================================

---------------------------- MODULE StateFileStore ----------------------------
(***************************************************************************)
(* StateFileStore (stateService.ts): one JSON file of UI state, kept whole *)
(* in memory, written behind a debounce timer, and flushed synchronously   *)
(* when another workspace opens and when the process exits. An asynchronous*)
(* write is three operations of the disk (mkdir, open with truncation,     *)
(* write) with the program running in between.                             *)
(***************************************************************************)
EXTENDS Naturals, Sequences

CONSTANTS
    Files,      \* state files: the empty window's and the workspaces'
    NoFile,     \* no timer is armed
    Writes,     \* asynchronous writes under way at a time
    MaxItems,   \* bound: values stored per behaviour
    MaxFailures \* bound: operations of the disk that fail

ASSUME StateFileStoreAssumption ==
    /\ NoFile \notin Files
    /\ MaxItems \in Nat /\ MaxFailures \in Nat

VARIABLES
    data,       \* the values in memory; a value is its number
    filePath,   \* the file of the store
    dirty,      \* whether data awaits a write
    timer,      \* writeTimer: the file it will write, or NoFile
    disposed,   \* whether the store was silenced
    write,      \* Writes -> an asynchronous write: stage, file, content
    disk,       \* Files -> the values in the file, Truncated or Mixed
    home,       \* for each value stored, the file that was open
    phase,      \* the process: "running", "stopping" (between the two flushes
                \* of an exit, no callback runs), "gone"
    failed,     \* whether the last write or flush failed
    failures,   \* how many did
    unread,     \* whether the open file could not be read when it was opened
    crowded,    \* whether a write, an open or an exit came amid a write under way
    crossed     \* whether an open came amid a write that was making its directory

storeVars == <<data, filePath, dirty, timer, disposed>>
history == <<home, failed, unread, crowded, crossed>>
vars == <<storeVars, write, disk, phase, failures, history>>

Items == 1..MaxItems

Truncated == {0}            \* opened for a write that has not come
Mixed     == {0, MaxItems + 1} \* two writes on top of each other: not JSON

IdleWrite == [stage |-> "none", file |-> NoFile, content |-> {}]
Idle(w) == write[w] = IdleWrite
AllIdle == \A w \in Writes : Idle(w)

\* A write, an open or an exit begins, amid what is under way.
Crowds == crowded' = (crowded \/ ~AllIdle)

TypeOK ==
    /\ data \subseteq 1..Len(home) /\ filePath \in Files
    /\ dirty \in BOOLEAN /\ disposed \in BOOLEAN /\ failed \in BOOLEAN
    /\ timer \in Files \cup {NoFile}
    /\ write \in [Writes -> [stage : {"none", "mkdir", "open", "write"},
                             file : Files \cup {NoFile}, content : SUBSET Items]]
    /\ disk \in [Files -> (SUBSET Items) \cup {Truncated, Mixed}]
    /\ home \in Seq(Files) /\ Len(home) <= MaxItems
    /\ phase \in {"running", "stopping", "gone"}
    /\ failures \in 0..MaxFailures
    /\ unread \in BOOLEAN /\ crowded \in BOOLEAN /\ crossed \in BOOLEAN

\* Mutant: a file that does not parse is taken as it is.
AsRead(contents) == contents

\* loadStateFile: a file that does not parse gives an empty store.
loadStateFile(contents) == IF contents \subseteq Items THEN contents ELSE {}

-----------------------------------------------------------------------------
(* The store in memory *)

\* Mutant: a disposed store still arms its timer.
WheneverUnarmed == timer = NoFile

\* Mutant: no timer is armed while a write is under way.
WhenNotWriting == timer = NoFile /\ ~disposed /\ AllIdle

Arms == timer = NoFile /\ ~disposed

markDirty ==
    /\ dirty' = TRUE
    /\ timer' = IF Arms THEN filePath ELSE timer
    /\ UNCHANGED <<filePath, disposed, write, disk, phase, failed, failures, unread, crowded, crossed>>

Store ==
    /\ phase = "running" /\ Len(home) < MaxItems
    /\ home' = Append(home, filePath)
    /\ data' = data \cup {Len(home) + 1}
    /\ markDirty

Remove(i) ==
    /\ phase = "running" /\ i \in data
    /\ data' = data \ {i}
    /\ markDirty /\ UNCHANGED home

dispose ==
    /\ phase = "running" /\ ~disposed
    /\ disposed' = TRUE /\ timer' = NoFile
    /\ UNCHANGED <<data, filePath, dirty, write, disk, phase, failures, history>>

-----------------------------------------------------------------------------
(* Asynchronous writes *)

\* The timer fires: writeAsync of the file it was armed for.
Fire(w) ==
    /\ phase = "running" /\ timer # NoFile /\ Idle(w)
    /\ timer' = NoFile
    /\ dirty' = FALSE /\ failed' = FALSE
    /\ write' = [write EXCEPT ![w] = [stage |-> "mkdir", file |-> timer, content |-> {}]]
    /\ Crowds
    /\ UNCHANGED <<data, filePath, disposed, disk, home, phase, failures, unread, crossed>>

\* What the operation under way does to the file. A write that lands on the
\* contents of another one leaves the longer one's tail.
Landed(w) ==
    LET old == disk[write[w].file] IN
    CASE write[w].stage = "mkdir" -> {old}
      [] write[w].stage = "open"  -> {Truncated}
      [] write[w].stage = "write" ->
             {write[w].content} \cup (IF old = Truncated THEN {} ELSE {Mixed})

\* The operation is done and writeAsync goes on: data is serialized only now.
Step(w) ==
    /\ phase = "running" /\ ~Idle(w)
    /\ \E contents \in Landed(w) : disk' = [disk EXCEPT ![write[w].file] = contents]
    /\ write' = [write EXCEPT ![w] =
           CASE write[w].stage = "mkdir" -> [@ EXCEPT !.stage = "open", !.content = data]
             [] write[w].stage = "open"  -> [@ EXCEPT !.stage = "write"]
             [] write[w].stage = "write" -> IdleWrite]
    /\ UNCHANGED <<storeVars, phase, failures, history>>

\* The operation fails: the store is dirty until the next flush or timer.
Fail(w) ==
    /\ phase = "running" /\ ~Idle(w) /\ failures < MaxFailures
    /\ failures' = failures + 1 /\ failed' = TRUE
    /\ dirty' = TRUE
    /\ write' = [write EXCEPT ![w] = IdleWrite]
    /\ UNCHANGED <<data, filePath, timer, disposed, disk, home, phase, unread, crowded, crossed>>

\* The process stops: the operation may still be done, nothing goes on after it.
LandsLate(w) ==
    /\ phase = "stopping" /\ ~Idle(w)
    /\ \E contents \in Landed(w) : disk' = [disk EXCEPT ![write[w].file] = contents]
    /\ write' = [write EXCEPT ![w] = IdleWrite]
    /\ UNCHANGED <<storeVars, phase, failures, history>>

-----------------------------------------------------------------------------
(* Synchronous writes *)

\* Mutant: only what the timer was going to write is flushed.
OnlyScheduled == timer # NoFile

MustWrite == dirty

\* Mutant: the timer goes on.
StillArmed == timer

Disarmed == NoFile

\* writeSync, in which mkdir, open or write may fail.
writeSync ==
    \/ /\ MustWrite
       /\ disk' = [disk EXCEPT ![filePath] = data]
       /\ UNCHANGED failures
    \/ /\ MustWrite /\ failures < MaxFailures
       /\ \E contents \in {disk[filePath], Truncated} : disk' = [disk EXCEPT ![filePath] = contents]
       /\ failures' = failures + 1
    \/ ~MustWrite /\ UNCHANGED <<disk, failures>>

\* flushSync.
flushSync ==
    /\ timer' = Disarmed
    /\ writeSync
    /\ failed' = (failures' > failures)

\* An exit flushes twice: on shutdown, and again on "exit".
Shutdown ==
    /\ phase = "running"
    /\ phase' = "stopping"
    /\ flushSync /\ Crowds
    /\ dirty' = (dirty /\ (failed' \/ ~MustWrite))
    /\ UNCHANGED <<data, filePath, disposed, write, home, unread, crossed>>

Exit ==
    /\ phase = "stopping"
    /\ phase' = "gone"
    /\ flushSync
    /\ dirty' = (dirty /\ (failed' \/ ~MustWrite))
    /\ UNCHANGED <<data, filePath, disposed, write, home, unread, crowded, crossed>>

\* Mutant: the values of the old file stay in memory.
KeepsData(f) == data

Loaded(f) == loadStateFile(disk'[f])

\* open: another workspace, whose file cannot be read perhaps.
Open(f) ==
    /\ phase = "running" /\ f # filePath
    /\ flushSync /\ Crowds
    /\ crossed' = (crossed \/ \E w \in Writes : write[w].stage = "mkdir")
    /\ unread' \in BOOLEAN
    /\ data' = IF unread' THEN {} ELSE Loaded(f)
    /\ filePath' = f /\ dirty' = FALSE
    /\ UNCHANGED <<disposed, write, home, phase>>

-----------------------------------------------------------------------------
(* The specification *)

Init ==
    /\ data = {} /\ filePath \in Files /\ dirty = FALSE
    /\ timer = NoFile /\ disposed = FALSE
    /\ write = [w \in Writes |-> IdleWrite]
    /\ disk = [f \in Files |-> {}]
    /\ phase = "running" /\ failures = 0
    /\ home = <<>> /\ failed = FALSE /\ unread = FALSE
    /\ crowded = FALSE /\ crossed = FALSE

Next ==
    \/ Store \/ dispose \/ Shutdown \/ Exit
    \/ \E i \in Items : Remove(i)
    \/ \E w \in Writes : Fire(w) \/ Step(w) \/ Fail(w) \/ LandsLate(w)
    \/ \E f \in Files : Open(f)

\* The timer fires and the operations of the disk come to an end.
Fairness ==
    /\ WF_vars(\E w \in Writes : Fire(w))
    /\ \A w \in Writes : WF_vars(Step(w) \/ Fail(w))

Spec == Init /\ [][Next]_vars /\ Fairness

-----------------------------------------------------------------------------
(* Properties *)

\* When the timer fires it finds a dirty store with the same file
\* (stateService.ts:115), whatever was flushed, opened or failed meanwhile.
TimerSeesItsFile == timer # NoFile => dirty /\ timer = filePath /\ ~disposed

\* A workspace's values are in its own file only, not in memory or on disk of
\* another one, however opens, failed flushes and writes alternate, as long as no
\* workspace opens while a write makes its directory: that write has not
\* serialized the memory yet (stateService.ts:119-121).
OwnFileOnly ==
    ~crossed =>
        /\ \A i \in data \cap Items : home[i] = filePath
        /\ \A f \in Files : \A i \in loadStateFile(disk[f]) \cap Items : home[i] = f

\* The file holds what the memory holds; one that could not be read is left as it is.
Kept == loadStateFile(disk[filePath]) = data \/ (unread /\ data = {})

\* "Durability is guaranteed by flushSync() when the process exits"
\* (docs/arch/State.md:112): unless the disk refuses, the file then holds what
\* the memory held.
FlushIsDurable == phase = "gone" /\ ~failed => Kept

\* So it does, after writes, reads and flushes that failed as well, if no write
\* began, no workspace opened and no exit came while a write was under way.
UncrowdedFlushIsDurable == ~crowded => FlushIsDurable

\* After dispose no asynchronous write begins ("Silences the writer",
\* stateService.ts:205).
QuietAfterDispose ==
    [][disposed => \A w \in Writes : Idle(w) => Idle(w)']_vars

\* What was stored reaches the file without a flush, if the store lives on in
\* the same workspace, is not silenced and the disk does not refuse.
StoresReachDisk ==
    \A i \in Items :
        i \in data ~>
            \/ i \in loadStateFile(disk[filePath]) \/ i \notin data
            \/ disposed \/ failed \/ phase # "running" \/ crowded
=============================================================================

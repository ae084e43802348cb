----------------------------- MODULE FileService -----------------------------
(***************************************************************************)
(* FileService.writeFile, move, copy and del over DiskFileSystemProvider:  *)
(* callers inside the editor queue their writes per resource, each write   *)
(* runs as check - replace - stat with an await in between, and programs   *)
(* outside the editor change the same files at any moment.                 *)
(*                                                                         *)
(* A version of a file is identified by its stamp: mtime and size together *)
(* (files.ts, etag). Two versions with the same mtime and size are outside *)
(* the model.                                                              *)
(***************************************************************************)
EXTENDS Naturals, Sequences, FiniteSets

CONSTANTS
    Resources,   \* files, by uri
    Callers,     \* concurrent calls into the service
    Texts,       \* contents
    Torn,        \* the content of a file truncated by a write in place
    Absent,      \* no file
    NoEtag,      \* a write without a guard
    Atomics,     \* whether callers ask for atomic writes
    Linkings,    \* whether foreign files may be links (or owned by another user)
    MaxClock     \* bound: changes of files per behaviour

ASSUME FileServiceAssumption ==
    /\ Resources # {} /\ Texts # {}
    /\ Torn \notin Texts
    /\ Absent \notin [text : Texts \cup {Torn}, stamp : Nat, author : {"write", "other"},
                      linked : BOOLEAN]
    /\ Linkings \subseteq BOOLEAN /\ Atomics \subseteq BOOLEAN
    /\ MaxClock \in Nat
    /\ NoEtag \notin Nat

VARIABLES
    disk,     \* Resources -> the version of the file, or Absent
    clock,    \* the last stamp given out
    queue,    \* Resources -> the calls whose write is queued or running
    call      \* Callers -> the call in progress

fsVars == <<disk, clock, queue, call>>

\* Why a version is at its path: put by a queued write, or by anything else.
Authors == {"write", "other"}

\* linked: a symlink, one of several hard links, or another user's file.
File == [text : Texts \cup {Torn}, stamp : Nat, author : Authors, linked : BOOLEAN]

IsFile(r) == disk[r] # Absent

\* Mutant: a provider whose writes leave no stat.
VersionWithoutStat(text, author, linked) ==
    [text |-> text, stamp |-> NoEtag, author |-> author, linked |-> linked]

Version(text, author, linked) ==
    [text |-> text, stamp |-> clock + 1, author |-> author, linked |-> linked]

Queued  == {"queued", "checked", "renaming", "inPlace", "torn", "replaced"}
Running == Queued \ {"queued"}
Unwritten == {"checked", "renaming", "inPlace"} \* checked, nothing is on disk yet

Call == [pc : {"idle", "moving", "copying"} \cup Queued,
         resource : Resources, target : Resources, text : Texts,
         etag : Nat \cup {NoEtag}, atomic : BOOLEAN, stamp : Nat]

IdleCall == [pc |-> "idle", resource |-> CHOOSE r \in Resources : TRUE,
             target |-> CHOOSE r \in Resources : TRUE, text |-> CHOOSE t \in Texts : TRUE,
             etag |-> NoEtag, atomic |-> TRUE, stamp |-> 0]

FSTypeOK ==
    /\ clock \in Nat
    /\ disk \in [Resources -> File \cup {Absent}]
    /\ queue \in [Resources -> Seq(Callers)]
    /\ call \in [Callers -> Call]

-----------------------------------------------------------------------------
(* The write queue of a resource *)

Idle(c) == call[c].pc = "idle"

\* A call of writeFile: it joins the queue of its resource.
WriteFile(c, r, text, etag, atomic) ==
    /\ Idle(c)
    /\ call' = [call EXCEPT ![c].pc = "queued", ![c].resource = r, ![c].text = text,
                            ![c].etag = etag, ![c].atomic = atomic]
    /\ queue' = [queue EXCEPT ![r] = Append(@, c)]
    /\ UNCHANGED <<disk, clock>>

\* Mutant: no queue, every task runs at once.
AnyTask(c) == queue[call[c].resource] # <<>>

\* The task of c is the one the queue runs.
AtHead(c) ==
    LET q == queue[call[c].resource] IN q # <<>> /\ Head(q) = c

\* A task ends and lets the next one of its resource run, whatever its outcome.
Settle(c) ==
    /\ call' = [call EXCEPT ![c] = IdleCall]
    /\ queue' = [queue EXCEPT ![call[c].resource] = Tail(@)]

\* Mutant: the check is lost.
AnyVersion(c) == call[c].pc = "queued"

\* The guard: the file is the version the caller read, or there is no file.
EtagAllows(c) ==
    LET r == call[c].resource IN
        call[c].etag # NoEtag /\ IsFile(r) => disk[r].stamp = call[c].etag

Begin(c) ==
    /\ call[c].pc = "queued" /\ AtHead(c)
    /\ EtagAllows(c)
    /\ call' = [call EXCEPT ![c].pc = "checked"]
    /\ UNCHANGED <<disk, clock, queue>>

\* Mutant: only a fulfilled task lets the next one run.
RefuseAndStall(c) ==
    /\ call[c].pc = "queued" /\ AtHead(c)
    /\ ~EtagAllows(c)
    /\ call' = [call EXCEPT ![c] = IdleCall]
    /\ UNCHANGED <<disk, clock, queue>>

Refuse(c) ==
    /\ call[c].pc = "queued" /\ AtHead(c)
    /\ ~EtagAllows(c)
    /\ Settle(c)
    /\ UNCHANGED <<disk, clock>>

\* Any step of the task may throw: no provider, no permission, no space, and a
\* closing stat that finds no file or cannot read it. A failed atomic write
\* removes its temporary file; a failed write in place leaves the file truncated.
Fail(c) ==
    /\ call[c].pc \in Queued /\ AtHead(c)
    /\ Settle(c)
    /\ UNCHANGED <<disk, clock>>

\* Mutant: the atomic option does not reach the provider.
AlwaysInPlace(c) == call[c].pc = "checked"

InPlace(c) ==
    LET r == call[c].resource IN ~call[c].atomic \/ (IsFile(r) /\ disk[r].linked)

\* The provider looks at the file and awaits: a link is written in place, like
\* a non-atomic write. The file may become a link, or stop being one, before
\* what was decided here is done.
atomicReplacement(c) ==
    /\ call[c].pc = "checked"
    /\ call' = [call EXCEPT ![c].pc = IF InPlace(c) THEN "inPlace" ELSE "renaming"]
    /\ UNCHANGED <<disk, clock, queue>>

\* The temporary file is written and renamed over what is there by now, a link
\* as well.
Replace(c) ==
    /\ call[c].pc = "renaming" /\ clock < MaxClock
    /\ disk' = [disk EXCEPT ![call[c].resource] = Version(call[c].text, "write", FALSE)]
    /\ clock' = clock + 1
    /\ call' = [call EXCEPT ![c].pc = "replaced"]
    /\ UNCHANGED queue

\* A write in place first truncates what is there by now...
Truncate(c) ==
    LET r == call[c].resource
        linked == IsFile(r) /\ disk[r].linked
    IN  /\ call[c].pc = "inPlace" /\ clock < MaxClock
        /\ disk' = [disk EXCEPT ![r] = Version(Torn, "write", linked)]
        /\ clock' = clock + 1
        /\ call' = [call EXCEPT ![c].pc = "torn", ![c].stamp = clock + 1]
        /\ UNCHANGED queue

\* ...and then fills it: the open file, wherever it is by now, and no other.
Fill(c) ==
    /\ call[c].pc = "torn" /\ clock < MaxClock
    /\ disk' = [r \in Resources |->
                  IF IsFile(r) /\ disk[r].text = Torn /\ disk[r].stamp = call[c].stamp
                    THEN Version(call[c].text, disk[r].author, disk[r].linked)
                    ELSE disk[r]]
    /\ clock' = clock + 1
    /\ call' = [call EXCEPT ![c].pc = "replaced"]
    /\ UNCHANGED queue

\* The closing stat: whatever version is there by now is reported as the one
\* written.
StatWritten(c) ==
    /\ call[c].pc = "replaced" /\ IsFile(call[c].resource)
    /\ Settle(c)
    /\ UNCHANGED <<disk, clock>>

-----------------------------------------------------------------------------
(* Operations that bypass the queue *)

Del(r) ==
    /\ IsFile(r)
    /\ disk' = [disk EXCEPT ![r] = Absent]
    /\ UNCHANGED <<clock, queue, call>>

\* move and copy look at the target, await, and only then act.
StartTransfer(c, pc, source, target, overwrite) ==
    /\ Idle(c) /\ source # target
    /\ overwrite \/ ~IsFile(target)
    /\ call' = [call EXCEPT ![c].pc = pc, ![c].resource = source, ![c].target = target]
    /\ UNCHANGED <<disk, clock, queue>>

\* rename keeps the file, its mtime included.
FinishMove(c) ==
    LET s == call[c].resource
        t == call[c].target
    IN  /\ call[c].pc = "moving"
        /\ disk' = IF IsFile(s)
                     THEN [disk EXCEPT ![s] = Absent, ![t] = [disk[s] EXCEPT !.author = "other"]]
                     ELSE disk
        /\ call' = [call EXCEPT ![c] = IdleCall]
        /\ UNCHANGED <<clock, queue>>

\* cp puts a new file at the target, or a symlink to what the source links to.
FinishCopy(c) ==
    LET s == call[c].resource
        t == call[c].target
    IN  /\ call[c].pc = "copying" /\ clock < MaxClock
        /\ IF IsFile(s)
             THEN \E linked \in {FALSE, disk[s].linked} :
                      disk' = [disk EXCEPT ![t] = Version(disk[s].text, "other", linked)]
             ELSE UNCHANGED disk
        /\ clock' = clock + 1
        /\ call' = [call EXCEPT ![c] = IdleCall]
        /\ UNCHANGED queue

-----------------------------------------------------------------------------
(* The world outside the editor *)

ForeignRewrite(r, text, linked) ==
    /\ clock < MaxClock
    /\ disk' = [disk EXCEPT ![r] = Version(text, "other", linked)]
    /\ clock' = clock + 1
    /\ UNCHANGED <<queue, call>>

ForeignDelete(r) == Del(r)

\* The editor process dies: its calls and queues with it, files stay as they are.
Crash ==
    /\ call' = [c \in Callers |-> IdleCall]
    /\ queue' = [r \in Resources |-> <<>>]
    /\ UNCHANGED <<disk, clock>>

-----------------------------------------------------------------------------
(* The specification *)

FSInit ==
    /\ clock = 0
    /\ disk \in [Resources ->
                   {Absent} \cup [text : Texts, stamp : {0}, author : {"other"},
                                  linked : Linkings]]
    /\ queue = [r \in Resources |-> <<>>]
    /\ call = [c \in Callers |-> IdleCall]

\* A step of a write that has been queued.
Task(c) ==
    \/ Begin(c) \/ Refuse(c) \/ Fail(c) \/ atomicReplacement(c)
    \/ Replace(c) \/ Truncate(c) \/ Fill(c) \/ StatWritten(c)

\* The guards a caller may have: it has read some version, now or long ago, or
\* it has not read any.
KnownEtags == {NoEtag} \cup 0..clock

Request(c) ==
    \/ \E r \in Resources, t \in Texts, e \in KnownEtags, a \in Atomics :
           WriteFile(c, r, t, e, a)
    \/ \E s, t \in Resources, o \in BOOLEAN, pc \in {"moving", "copying"} :
           StartTransfer(c, pc, s, t, o)

Foreign(r) ==
    \/ \E t \in Texts, l \in Linkings : ForeignRewrite(r, t, l)
    \/ ForeignDelete(r)

FSNext ==
    \/ \E c \in Callers : Request(c) \/ Task(c) \/ FinishMove(c) \/ FinishCopy(c)
    \/ \E r \in Resources : Del(r) \/ Foreign(r)
    \/ Crash

\* The event loop runs every task it can.
FSFairness == \A c \in Callers : WF_fsVars(Task(c))

FSSpec == FSInit /\ [][FSNext]_fsVars /\ FSFairness

-----------------------------------------------------------------------------
(* Properties *)

\* Two writes to one resource never overlap: "two saves in a row don't
\* interleave" (fileService.ts:28).
WritesDoNotInterleave ==
    \A c, d \in Callers :
        c # d /\ {call[c].pc, call[d].pc} \subseteq Running => call[c].resource # call[d].resource

\* From the check of a guarded write to its replacement no other write of the
\* editor reaches the file: what the write destroys is the version its caller
\* read, or something that bypassed the queue - a foreign program, move, copy.
GuardHoldsUntilReplace ==
    \A c \in Callers :
        LET r == call[c].resource IN
            call[c].pc \in Unwritten /\ call[c].etag # NoEtag /\ IsFile(r)
              => disk[r].stamp = call[c].etag \/ disk[r].author = "other"

\* Every write settles, behind refused and failed ones too: "a write to a
\* resource runs strictly after the previous one (successful or not)"
\* (fileService.ts:214).
EveryWriteSettles == \A c \in Callers : (call[c].pc = "queued") ~> (call[c].pc = "idle")
=============================================================================

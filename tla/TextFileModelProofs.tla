------------------------- MODULE TextFileModelProofs -------------------------
(***************************************************************************)
(* Theorems of TextFileModel for any files, saves and commands. The model  *)
(* uses the file service only by the operations that module has, so what   *)
(* FileServiceProofs proves of it holds here. On top of that: a plain save *)
(* destroys no version of another program that was not read; and, as long  *)
(* as nothing is loaded amid a Save As, a clean buffer shows its file, a   *)
(* conflict is with another program, and a failed Save As leaves no trace. *)
(***************************************************************************)
EXTENDS TextFileModel, FileServiceProofs

-----------------------------------------------------------------------------
(* The invariant *)

\* A model calls writeFile and nothing else, and continues when it has settled.
\* Only a plain save guards its write, and a Save As has a path to go to.
CallsMatch ==
    \A c \in Callers :
        /\ call[c].pc \in {"idle", "replaced"} \cup {"queued"} \cup Unwritten
        /\ save[c].pc = "writing" <=> call[c].pc # "idle"
        /\ call[c].etag # NoEtag => call[c].pc # "idle" /\ save[c].kind = "save"
        /\ save[c].pc # "none" /\ save[c].kind = "saveAs" => Targets # {}

\* A stamp stands for one version at one path.
StampsApart ==
    \A r, s \in Resources :
        IsFile(r) /\ IsFile(s) /\ disk[r].stamp = disk[s].stamp => r = s

\* No file is torn: the writes are atomic.
NoneTorn == \A r \in Resources : IsFile(r) => disk[r].text \in Texts

\* What was read and what guards a write was on disk once.
StampsRead ==
    /\ {diskStat, base} \subseteq {NoStat} \cup 0..clock
    /\ \A c \in Callers : call[c].etag \in {NoEtag} \cup 0..clock

\* Versions of the document are given out once.
VersionsApart ==
    /\ \A i \in 1..Len(history) : history[i].id <= version
    /\ \A i, j \in 1..Len(history) : history[i].id = history[j].id => i = j

\* A save writes the text of its snapshot.
SnapshotWritten ==
    \A c \in Callers :
        /\ save[c].version <= version
        /\ save[c].pc = "writing" =>
              \A i \in 1..Len(history) :
                  history[i].id = save[c].version => history[i].text = call[c].text

BaseInv ==
    /\ TFTypeOK /\ Inv /\ CallsMatch /\ StampsApart /\ NoneTorn /\ StampsRead
    /\ VersionsApart /\ SnapshotWritten

\* Until its closing stat, a written file is what was written.
Landed ==
    \A c \in Callers :
        LET r == call[c].resource IN
            call[c].pc = "replaced"
              => IsFile(r) /\ disk[r].author = "write" /\ disk[r].text = call[c].text

\* The version of another program that diskStat names is under the text.
ForeignIsBase ==
    /\ diskStat = NoStat => base = NoStat
    /\ \A r \in Resources :
          IsFile(r) /\ disk[r].author = "other" /\ disk[r].stamp = diskStat => base = diskStat

\* So is, under the text a save took, the one that guards its write.
GuardIsBase ==
    \A c \in Callers : save[c].kind = "save" /\ call[c].pc = "queued" =>
        /\ call[c].etag = NoEtag => save[c].base = NoStat
        /\ \A r \in Resources :
              IsFile(r) /\ disk[r].author = "other" /\ disk[r].stamp = call[c].etag
                => save[c].base = call[c].etag

ReadInv == ~SlowStat => Landed /\ ForeignIsBase /\ GuardIsBase

BufferInv == BaseInv /\ ReadInv

\* A Save As is under way: the path is not settled. One save at a time, or no
\* Save As at all, leaves one path to settle.
Moving == \E c \in Callers : save[c].pc # "none" /\ save[c].kind = "saveAs"
OneSave == \A c, d \in Callers : c = d
OneMove == Targets = {} \/ OneSave

\* The text is that of the watched path. This is the path of the buffer, but for
\* a Save As under way, which may yet take the buffer back to it.
Paths ==
    OneMove =>
        /\ source = watched
        /\ ~Moving => watched = uri
        /\ \A c \in Callers : save[c].pc # "none" /\ save[c].kind = "saveAs" =>
              watched = save[c].previous /\ uri = save[c].target
        /\ \A c \in Callers : call[c].pc # "idle" => call[c].resource = uri

\* The saved state of the document is the text of the version that diskStat names.
SavedTextOnDisk ==
    IsFile(watched) /\ disk[watched].stamp = diskStat =>
        \A i \in 1..Len(history) :
            history[i].id = saved => history[i].text = disk[watched].text

\* Another version of the file is to be noticed, or shown.
MovedOnIsNoticed ==
    IsFile(watched) /\ diskStat # NoStat /\ disk[watched].stamp # diskStat
        => event \/ conflict

Replacing == \E c \in Callers : call[c].pc = "replaced" /\ call[c].resource = watched

\* A version that this editor wrote is the one it knows, unless the closing stat of
\* its write failed.
OwnIsKnown ==
    ~StatErrors /\ IsFile(watched) /\ disk[watched].author = "write" /\ ~Replacing
        => disk[watched].stamp = diskStat

SyncInv == ~SlowStat /\ OneMove => SavedTextOnDisk /\ MovedOnIsNoticed /\ OwnIsKnown

\* With one save at a time, its guard is a version of this editor if the file is,
GuardIsOwn ==
    \A c \in Callers :
        (/\ call[c].pc = "queued" /\ call[c].etag # NoEtag
         /\ IsFile(watched) /\ disk[watched].author = "write")
            => disk[watched].stamp = call[c].etag

\* and a conflict is with a version of another program.
ConflictWithOther ==
    conflict /\ IsFile(watched) /\ ~Replacing => disk[watched].author = "other"

ConflictInv == ~SlowStat /\ ~StatErrors /\ OneSave => GuardIsOwn /\ ConflictWithOther

PathInv == Paths /\ SyncInv /\ ConflictInv

\* The buffer is loaded again from the path it has. Amid a Save As this is a path
\* whose file may not become its own.
Reload == revertToDisk \/ (handleExternalFileChange /\ Load(uri, FALSE))

\* What every step keeps, and what it keeps unless it loads amid a Save As.
Keeps == BufferInv' /\ (PathInv /\ ~(Moving /\ Reload) => PathInv')

-----------------------------------------------------------------------------
(* The model over the file service *)

\* The document is at one of its versions, and their texts are texts.
LEMMA DocTyped ==
    ASSUME TFTypeOK
    PROVE  /\ doc \in [id : Nat, text : Texts] /\ pos \in 1..Len(history)
           /\ Len(history) \in Nat
<1>1. /\ history \in Seq([id : Nat, text : Texts]) /\ pos \in 1..Len(history)
      /\ Len(history) \in Nat
  BY LenProperties DEF TFTypeOK
<1>2. history[pos] \in [id : Nat, text : Texts]
  BY <1>1, ElementOfSeq
<1> QED BY <1>1, <1>2 DEF doc

\* The guard of a write is a stamp that was read.
LEMMA GuardTyped ==
    ASSUME StampsRead, NEW c \in Callers
    PROVE  Guard(c) \in KnownEtags
BY DEF StampsRead, Guard, KnownEtags

\* Every step of the model is a step of the file service, or none of its own.
LEMMA StepUsesService ==
    ASSUME TFTypeOK, StampsRead, [TFNext]_vars
    PROVE  [FSNext]_fsVars
<1>1. ASSUME NEW c \in Callers, SaveStep(c) PROVE FSNext \/ UNCHANGED fsVars
  <2>1. CASE BeginWrite(c)
    <3>1. WriteFile(c, uri, doc.text, Guard(c), TRUE)
      BY <2>1 DEF BeginWrite
    <3>2. uri \in Resources /\ doc.text \in Texts /\ Guard(c) \in KnownEtags /\ TRUE \in Atomics
      BY DocTyped, GuardTyped, TextFileModelAssumption DEF TFTypeOK
    <3> HIDE DEF doc, Guard
    <3>3. Request(c)
      BY <3>1, <3>2 DEF Request
    <3> QED BY <3>3 DEF FSNext
  <2>2. CASE WriteStep(c) \/ Saved(c) \/ SaveConflict(c) \/ SaveFailed(c)
    <3>1. Task(c)
      BY <2>2 DEF WriteStep, Saved, SaveConflict, SaveFailed, Task
    <3> QED BY <3>1 DEF FSNext
  <2> QED BY <1>1, <2>1, <2>2 DEF SaveStep
<1>2. ASSUME NEW r \in Resources, World(r) PROVE FSNext
  <2>1. CASE ForeignRewrite(r, clock + 1, FALSE)
    <3>1. clock + 1 \in Texts /\ FALSE \in Linkings
      BY <2>1, FileServiceAssumption, TextFileModelAssumption
         DEF TFTypeOK, FSTypeOK, ForeignRewrite
    <3> QED BY <2>1, <3>1 DEF Foreign, FSNext
  <2>2. CASE ForeignDelete(r)
    BY <2>2 DEF Foreign, FSNext
  <2> QED BY <1>2, <2>1, <2>2 DEF World
<1>3. UserStep \/ handleExternalFileChange \/ OrphanCheck \/ UNCHANGED vars => UNCHANGED fsVars
  BY DEF UserStep, Edit, Undo, Redo, MoveTo, revertToDisk, Save, SaveAs,
         handleExternalFileChange, OrphanCheck, vars
<1> QED BY <1>1, <1>2, <1>3 DEF TFNext

-----------------------------------------------------------------------------
(* Steps that leave the files alone *)

\* What is on disk, and what saves know, does not depend on the document.
LEMMA FilesRest ==
    ASSUME BufferInv, UNCHANGED <<fsVars, save, uri>>
    PROVE  /\ Inv' /\ CallsMatch' /\ StampsApart' /\ NoneTorn'
           /\ (~SlowStat => Landed /\ GuardIsBase)'
           /\ PathInv /\ watched' = watched /\ ~SlowStat /\ ~StatErrors /\ OneSave => GuardIsOwn'
<1> USE DEF BufferInv
<1>1. Inv'
  <2>1. [FSNext]_fsVars
    OBVIOUS
  <2> QED BY <2>1, StepInv DEF BaseInv
<1>2. UNCHANGED <<disk, clock, queue, call>>
  BY DEF fsVars
<1>3. CallsMatch' /\ StampsApart' /\ NoneTorn'
  BY <1>2 DEF BaseInv, CallsMatch, StampsApart, NoneTorn, IsFile
<1>4. (~SlowStat => Landed /\ GuardIsBase)'
  BY <1>2 DEF ReadInv, Landed, GuardIsBase, IsFile
<1>5. PathInv /\ watched' = watched /\ ~SlowStat /\ ~StatErrors /\ OneSave => GuardIsOwn'
  BY <1>2 DEF PathInv, ConflictInv, GuardIsOwn, IsFile
<1> QED BY <1>1, <1>3, <1>4, <1>5

\* The user edits: a new version, which is not the saved one.
LEMMA EditKeeps == ASSUME BufferInv, Edit PROVE Keeps
<1> USE DEF BufferInv
<1> DEFINE n == pos + 1
           new == [id |-> version + 1, text |-> MaxClock + version + 1]
<1>1. /\ history \in Seq([id : Nat, text : Texts]) /\ pos \in 1..Len(history)
      /\ Len(history) \in Nat /\ version \in Nat /\ saved \in 0..version
      /\ save \in [Callers -> Saving]
  BY LenProperties DEF BaseInv, TFTypeOK
<1>2. new \in [id : Nat, text : Texts]
  BY <1>1, FileServiceAssumption, TextFileModelAssumption DEF Edit
<1>3. /\ history' \in Seq([id : Nat, text : Texts]) /\ Len(history') = n /\ n \in Nat
      /\ history'[n] = new
      /\ \A i \in 1..pos : history'[i] = history[i] /\ i \in 1..Len(history)
  <2> DEFINE kept == SubSeq(history, 1, pos)
  <2>1. /\ kept \in Seq([id : Nat, text : Texts]) /\ Len(kept) = pos
        /\ \A i \in 1..pos : kept[i] = history[i]
    <3>0. \A i \in 1..pos : i \in 1..Len(history)
      BY <1>1
    <3>1. \A i \in 1..pos : history[i] \in [id : Nat, text : Texts]
      BY <1>1, <3>0, ElementOfSeq
    <3>2. 1 \in Int /\ pos \in Int /\ pos >= 1
      BY <1>1
    <3>3. /\ kept \in Seq([id : Nat, text : Texts])
          /\ Len(kept) = IF 1 <= pos THEN pos - 1 + 1 ELSE 0
          /\ \A i \in 1..(pos - 1 + 1) : kept[i] = history[1 + i - 1]
      BY <3>1, <3>2, SubSeqProperties
    <3> HIDE DEF kept
    <3> QED BY <3>2, <3>3
  <2>2. history' = Append(kept, new)
    BY DEF Edit
  <2> HIDE DEF kept, new
  <2>3. /\ Append(kept, new) \in Seq([id : Nat, text : Texts])
        /\ Len(Append(kept, new)) = pos + 1
        /\ \A i \in 1..pos : Append(kept, new)[i] = kept[i]
        /\ Append(kept, new)[pos + 1] = new
    BY <1>1, <1>2, <2>1, AppendProperties
  <2> QED BY <1>1, <2>1, <2>2, <2>3
<1>4. \A i \in 1..n : i = n \/ i \in 1..pos
  BY <1>1
<1>5. /\ version' = version + 1 /\ pos' = n
      /\ UNCHANGED <<fsVars, uri, saved, diskVars, watchVars, save>>
  BY DEF Edit
<1>6. UNCHANGED <<disk, clock, queue, call, diskStat, base, source, conflict, orphaned,
                  orphanCheck, watched, event>>
  BY <1>5 DEF fsVars, diskVars, watchVars
<1>7. \A i \in 1..Len(history) : history[i].id \in Nat /\ history[i].id <= version
  <2>1. \A i \in 1..Len(history) : history[i] \in [id : Nat, text : Texts]
    BY <1>1, ElementOfSeq
  <2> QED BY <2>1 DEF BaseInv, VersionsApart
<1>70. new.id = version + 1
  OBVIOUS
<1> HIDE DEF new
<1>71. \A i \in 1..n : \/ i = n /\ history'[i].id = version + 1
                       \/ /\ i \in 1..pos /\ i \in 1..Len(history)
                          /\ history'[i] = history[i]
                          /\ history'[i].id \in Nat /\ history'[i].id <= version
  BY <1>3, <1>4, <1>7, <1>70
<1> HIDE DEF n
<1>8. Inv' /\ CallsMatch' /\ StampsApart' /\ NoneTorn'
  BY <1>5, FilesRest
<1>9. TFTypeOK'
  <2>1. pos' \in 1..Len(history') /\ saved' \in 0..version'
    BY <1>1, <1>3, <1>5 DEF n
  <2> QED BY <1>1, <1>3, <1>5, <1>6, <1>8, <2>1 DEF BaseInv, TFTypeOK, Inv
<1>10. StampsRead' /\ (PathInv => Paths')
  <2>1. PathInv => Paths'
    BY <1>5, <1>6 DEF PathInv, Paths, Moving
  <2> QED BY <1>5, <1>6, <2>1 DEF BaseInv, StampsRead
<1>11. VersionsApart'
  <2>1. \A i \in 1..n : history'[i].id <= version'
    BY <1>1, <1>5, <1>71
  <2>2. \A i, j \in 1..Len(history) : history[i].id = history[j].id => i = j
    BY DEF BaseInv, VersionsApart
  <2>3. ASSUME NEW i \in 1..n, NEW j \in 1..n, history'[i].id = history'[j].id PROVE i = j
    <3>1. CASE i = n /\ history'[i].id = version + 1
      <4>1. ~(history'[j].id \in Nat /\ history'[j].id <= version)
        BY <1>1, <2>3, <3>1
      <4> QED BY <1>71, <3>1, <4>1
    <3>2. CASE /\ i \in 1..Len(history) /\ history'[i] = history[i]
               /\ history'[i].id \in Nat /\ history'[i].id <= version
      <4>1. history'[j].id # version + 1
        BY <1>1, <2>3, <3>2
      <4>2. j \in 1..Len(history) /\ history'[j] = history[j]
        BY <1>71, <4>1
      <4> QED BY <2>2, <2>3, <3>2, <4>2
    <3> QED BY <1>71, <3>1, <3>2
  <2> QED BY <1>3, <2>1, <2>3 DEF VersionsApart
<1>12. SnapshotWritten'
  <2>1. \A c \in Callers : save[c].version \in Nat /\ save[c].version <= version
    BY <1>1 DEF BaseInv, SnapshotWritten, Saving
  <2>2. \A c \in Callers : save[c].version <= version'
    BY <1>1, <1>5, <2>1
  <2>3. ASSUME NEW c \in Callers, save[c].pc = "writing", NEW i \in 1..n,
               history'[i].id = save[c].version
        PROVE  history'[i].text = call[c].text
    <3>1. i \in 1..pos
      BY <1>1, <1>71, <2>1, <2>3
    <3> QED BY <1>3, <2>3, <3>1 DEF BaseInv, SnapshotWritten
  <2> QED BY <1>3, <1>5, <1>6, <2>2, <2>3 DEF SnapshotWritten
<1>13. ReadInv'
  BY <1>5, <1>6, FilesRest DEF ReadInv, ForeignIsBase, BaseInv, IsFile
<1>14. PathInv => SyncInv'
  <2> SUFFICES ASSUME PathInv, ~SlowStat, OneMove
               PROVE  (SavedTextOnDisk /\ MovedOnIsNoticed /\ OwnIsKnown)'
    BY DEF PathInv, SyncInv
  <2>1. MovedOnIsNoticed' /\ OwnIsKnown'
    BY <1>5, <1>6 DEF PathInv, SyncInv, MovedOnIsNoticed, OwnIsKnown, Replacing, IsFile
  <2>2. ASSUME IsFile(watched), disk[watched].stamp = diskStat,
               NEW i \in 1..n, history'[i].id = saved
        PROVE  history'[i].text = disk[watched].text
    <3>1. i \in 1..pos
      BY <1>1, <1>71, <2>2
    <3> QED BY <1>3, <2>2, <3>1 DEF PathInv, SyncInv, SavedTextOnDisk
  <2>3. SavedTextOnDisk'
    BY <1>3, <1>5, <1>6, <2>2 DEF SavedTextOnDisk, IsFile
  <2> QED BY <2>1, <2>3
<1>15. PathInv => ConflictInv'
  <2>1. PathInv /\ ~SlowStat /\ ~StatErrors /\ OneSave => GuardIsOwn'
    BY <1>5, <1>6, FilesRest
  <2> QED BY <1>5, <1>6, <2>1 DEF PathInv, ConflictInv, ConflictWithOther, Replacing, IsFile
<1> QED BY <1>8, <1>9, <1>10, <1>11, <1>12, <1>13, <1>14, <1>15 DEF BaseInv, Keeps, PathInv

\* Steps that move along the history, or set marks: what they must see to is
\* that a moved file stays noticed and a conflict is with another program.
LEMMA MarksKeep ==
    ASSUME BufferInv,
           UNCHANGED <<fsVars, save, uri, history, version, saved, diskStat, base, source, watched>>,
           pos' \in 1..Len(history),
           {conflict', orphaned', orphanCheck', event'} \subseteq BOOLEAN,
           PathInv /\ ~SlowStat /\ OneMove => MovedOnIsNoticed',
           PathInv /\ ~SlowStat /\ ~StatErrors /\ OneSave => ConflictWithOther'
    PROVE  Keeps
<1> USE DEF BufferInv
<1>1. UNCHANGED <<disk, clock, queue, call>>
  BY DEF fsVars
<1>2. Inv' /\ CallsMatch' /\ StampsApart' /\ NoneTorn'
  BY FilesRest
<1>3. TFTypeOK'
  BY <1>2 DEF BaseInv, TFTypeOK, Inv
<1>4. StampsRead' /\ VersionsApart' /\ SnapshotWritten' /\ (PathInv => Paths')
  <2>1. StampsRead' /\ (PathInv => Paths')
    BY <1>1 DEF BaseInv, StampsRead, PathInv, Paths, Moving
  <2>2. VersionsApart' /\ SnapshotWritten'
    BY <1>1 DEF BaseInv, VersionsApart, SnapshotWritten
  <2> QED BY <2>1, <2>2
<1>5. ReadInv'
  BY <1>1, FilesRest DEF ReadInv, ForeignIsBase, BaseInv, IsFile
<1>6. PathInv => SyncInv'
  BY <1>1 DEF PathInv, SyncInv, SavedTextOnDisk, OwnIsKnown, Replacing, IsFile
<1>7. PathInv => ConflictInv'
  BY FilesRest DEF ConflictInv
<1> QED BY <1>2, <1>3, <1>4, <1>5, <1>6, <1>7 DEF BaseInv, Keeps, PathInv

\* The buffer takes the text of a file, of the watched one if the path is settled:
\* its one version is new and saved, and its version of the file is the one there.
LEMMA ReloadKeeps ==
    ASSUME BufferInv, NEW path \in Resources, NEW text \in Texts,
           UNCHANGED <<fsVars, save, uri, watched>>,
           PathInv /\ ~(Moving /\ Reload) /\ OneMove => path = watched,
           history' = <<[id |-> version + 1, text |-> text]>>, pos' = 1,
           version' = version + 1, saved' = version + 1,
           diskStat' = IF IsFile(path) THEN disk[path].stamp ELSE NoStat,
           base' = diskStat', source' = path,
           IsFile(path) => text = disk[path].text,
           conflict' => conflict,
           {conflict', orphaned', orphanCheck', event'} \subseteq BOOLEAN
    PROVE  Keeps
<1> USE DEF BufferInv
<1>1. UNCHANGED <<disk, clock, queue, call>>
  BY DEF fsVars
<1>2. Inv' /\ CallsMatch' /\ StampsApart' /\ NoneTorn'
  BY FilesRest
<1>3. version \in Nat /\ save \in [Callers -> Saving]
  BY DEF BaseInv, TFTypeOK
<1>4. diskStat' \in {NoStat} \cup 0..clock
  BY DEF BaseInv, Inv, FSTypeOK, File, IsFile, StampsPast
<1>5. /\ Len(history') = 1 /\ history'[1].id = version + 1 /\ history'[1].text = text
      /\ \A i \in 1..Len(history') : i = 1
      /\ history' \in Seq([id : Nat, text : Texts])
  BY <1>3
<1>6. TFTypeOK'
  <2>1. clock \in Nat
    BY DEF BaseInv, Inv, FSTypeOK
  <2>2. diskStat' \in Stamps /\ base' \in Stamps
    BY <1>4, <2>1 DEF Stamps
  <2>3. pos' \in 1..Len(history') /\ version' \in Nat /\ saved' \in 0..version'
    BY <1>3, <1>5
  <2> QED BY <1>2, <1>5, <2>2, <2>3 DEF BaseInv, TFTypeOK, Inv
<1> DEFINE settled == ~(Moving /\ Reload)
<1> HIDE DEF settled
<1>7. StampsRead' /\ (PathInv /\ settled => Paths')
  <2>1. PathInv /\ settled => Paths'
    BY <1>1 DEF PathInv, Paths, Moving, settled
  <2> QED BY <1>1, <1>4, <2>1 DEF BaseInv, StampsRead
<1>8. VersionsApart'
  BY <1>3, <1>5 DEF VersionsApart
<1>9. SnapshotWritten'
  <2>1. \A c \in Callers : save[c].version \in Nat /\ save[c].version <= version
    BY <1>3 DEF BaseInv, SnapshotWritten, Saving
  <2>2. \A c \in Callers : save[c].version <= version' /\ save[c].version # version + 1
    BY <1>3, <2>1
  <2> QED BY <1>5, <2>2 DEF SnapshotWritten
<1>10. ReadInv'
  BY <1>1, FilesRest DEF ReadInv, ForeignIsBase, BaseInv, IsFile
<1>11. PathInv /\ settled => SyncInv'
  <2> SUFFICES ASSUME PathInv, settled, ~SlowStat, OneMove
               PROVE  (SavedTextOnDisk /\ MovedOnIsNoticed /\ OwnIsKnown)'
    BY DEF SyncInv
  <2>1. IsFile(watched)' => disk'[watched'].stamp = diskStat' /\ text = disk'[watched'].text
    BY <1>1 DEF IsFile, settled
  <2>2. SavedTextOnDisk'
    BY <1>5, <2>1 DEF SavedTextOnDisk
  <2> QED BY <2>1, <2>2 DEF MovedOnIsNoticed, OwnIsKnown
<1>12. PathInv => ConflictInv'
  <2>1. PathInv /\ ~SlowStat /\ ~StatErrors /\ OneSave => ConflictWithOther'
    BY <1>1 DEF PathInv, ConflictInv, ConflictWithOther, Replacing, IsFile
  <2> QED BY <2>1, FilesRest DEF ConflictInv
<1> QED BY <1>2, <1>6, <1>7, <1>8, <1>9, <1>10, <1>11, <1>12
        DEF BaseInv, Keeps, PathInv, settled

\* A save begins: nothing is written yet.
LEMMA StartKeeps ==
    ASSUME BufferInv, NEW c \in Callers, NEW kind \in {"save", "overwrite", "saveAs"},
           NEW target \in Resources, save[c].pc = "none", Start(c, kind, target),
           uri' = IF kind = "saveAs" THEN target ELSE uri, kind = "saveAs" => Targets # {},
           UNCHANGED <<fsVars, documentVars, diskVars, watchVars>>
    PROVE  Keeps
<1> USE DEF BufferInv
<1>1. UNCHANGED <<disk, clock, queue, call, history, pos, version, saved, diskStat, base, source,
                  conflict, orphaned, orphanCheck, watched, event>>
  BY DEF fsVars, documentVars, diskVars, watchVars
<1>2. save \in [Callers -> Saving] /\ uri \in Resources
  BY DEF BaseInv, TFTypeOK
<1>3. /\ save' \in [Callers -> Saving]
      /\ save'[c].pc = "participants" /\ save'[c].kind = kind
      /\ save'[c].target = target /\ save'[c].previous = uri
      /\ save'[c].version = save[c].version
      /\ \A d \in Callers \ {c} : save'[d] = save[d]
  <2> DEFINE new == [save[c] EXCEPT !.pc = "participants", !.kind = kind,
                                    !.target = target, !.previous = uri]
  <2>1. save' = [save EXCEPT ![c] = new]
    BY DEF Start
  <2>2. /\ new \in Saving /\ new.pc = "participants" /\ new.kind = kind
        /\ new.target = target /\ new.previous = uri /\ new.version = save[c].version
    BY <1>2 DEF Saving
  <2> HIDE DEF new
  <2> QED BY <1>2, <2>1, <2>2
<1>4. call[c].pc = "idle"
  BY DEF BaseInv, CallsMatch
<1>5. Inv'
  <2>1. [FSNext]_fsVars
    OBVIOUS
  <2> QED BY <2>1, StepInv DEF BaseInv
<1>6. TFTypeOK'
  BY <1>1, <1>2, <1>3, <1>5 DEF BaseInv, TFTypeOK, Inv
<1>7. CallsMatch' /\ SnapshotWritten'
  BY <1>1, <1>3, <1>4 DEF BaseInv, CallsMatch, SnapshotWritten
<1>8. StampsApart' /\ NoneTorn' /\ StampsRead' /\ VersionsApart'
  BY <1>1 DEF BaseInv, StampsApart, NoneTorn, StampsRead, VersionsApart, IsFile
<1>9. ReadInv'
  <2>1. ASSUME ~SlowStat PROVE Landed' /\ ForeignIsBase'
    BY <1>1, <2>1 DEF ReadInv, Landed, ForeignIsBase, IsFile
  <2>2. ASSUME ~SlowStat PROVE GuardIsBase'
    BY <1>1, <1>3, <1>4, <2>2 DEF ReadInv, GuardIsBase, IsFile
  <2> QED BY <2>1, <2>2 DEF ReadInv
<1>10. PathInv => Paths'
  <2> SUFFICES ASSUME PathInv, OneMove PROVE Paths'
    BY DEF Paths
  <2>1. CASE Targets = {}
    <3>1. ~Moving /\ ~Moving' /\ uri' = uri
      BY <1>3, <2>1 DEF Moving, BaseInv, CallsMatch
    <3> QED BY <1>1, <1>3, <3>1 DEF PathInv, Paths, Moving
  <2>2. CASE OneSave
    <3>1. ~Moving /\ \A d \in Callers : d = c
      BY <2>2 DEF Moving, OneSave
    <3> QED BY <1>1, <1>3, <1>4, <3>1 DEF PathInv, Paths, Moving
  <2> QED BY <2>1, <2>2 DEF OneMove
<1>11. PathInv => SyncInv'
  BY <1>1 DEF PathInv, SyncInv, SavedTextOnDisk, MovedOnIsNoticed, OwnIsKnown, Replacing, IsFile
<1>12. PathInv => ConflictInv'
  BY <1>1 DEF PathInv, ConflictInv, GuardIsOwn, ConflictWithOther, Replacing, IsFile
<1> QED BY <1>5, <1>6, <1>7, <1>8, <1>9, <1>10, <1>11, <1>12 DEF BaseInv, Keeps, PathInv

\* What the user does, one step each.
LEMMA UserKeeps == ASSUME BufferInv, UserStep PROVE Keeps
<1>0. /\ version \in Nat /\ history \in Seq([id : Nat, text : Texts]) /\ pos \in 1..Len(history)
      /\ Len(history) \in Nat /\ uri \in Resources
      /\ {conflict, orphaned, orphanCheck, event} \subseteq BOOLEAN
  BY LenProperties DEF BufferInv, BaseInv, TFTypeOK
<1>1. CASE Edit
  BY <1>1, EditKeeps
<1>2. ASSUME NEW step \in Int, MoveTo(step) PROVE Keeps
  <2>1. /\ pos' \in 1..Len(history)
        /\ UNCHANGED <<fsVars, uri, history, version, saved, diskVars, watchVars, save>>
    BY <1>2 DEF MoveTo
  <2>2. UNCHANGED <<disk, call, diskStat, base, source, conflict, orphaned, orphanCheck, watched,
                    event>>
    BY <2>1 DEF fsVars, diskVars, watchVars
  <2>3. PathInv /\ ~SlowStat /\ OneMove => MovedOnIsNoticed'
    BY <2>1, <2>2 DEF PathInv, SyncInv, MovedOnIsNoticed, IsFile
  <2>4. PathInv /\ ~SlowStat /\ ~StatErrors /\ OneSave => ConflictWithOther'
    BY <2>1, <2>2 DEF PathInv, ConflictInv, ConflictWithOther, Replacing, IsFile
  <2> QED BY <1>0, <2>1, <2>2, <2>3, <2>4, MarksKeep
<1>3. CASE Undo \/ Redo
  BY <1>0, <1>2, <1>3 DEF Undo, Redo
<1>4. CASE revertToDisk
  <2>0. PathInv /\ ~(Moving /\ Reload) /\ OneMove => uri = watched
    BY <1>4 DEF Reload, PathInv, Paths
  <2> DEFINE text == IF IsFile(uri) THEN disk[uri].text ELSE Empty
  <2>1. text \in Texts
    BY <1>0, FileServiceAssumption, TextFileModelAssumption
       DEF BufferInv, BaseInv, NoneTorn, Empty
  <2>2. Load(uri, orphaned) /\ UNCHANGED <<fsVars, uri, watchVars, save>>
    BY <1>4 DEF revertToDisk
  <2>3. /\ history' = <<[id |-> version + 1, text |-> text]>> /\ pos' = 1
        /\ version' = version + 1 /\ saved' = version + 1
        /\ diskStat' = IF IsFile(uri) THEN disk[uri].stamp ELSE NoStat
        /\ base' = diskStat' /\ source' = uri /\ conflict' = FALSE
        /\ orphaned' = (orphaned /\ ~IsFile(uri))
    BY <2>2 DEF Load
  <2>4. UNCHANGED <<orphanCheck, watched, event>> /\ orphaned' \in BOOLEAN
    BY <1>0, <2>2, <2>3 DEF watchVars
  <2>5. IsFile(uri) => text = disk[uri].text
    OBVIOUS
  <2> HIDE DEF text
  <2> QED BY <1>0, <2>0, <2>1, <2>2, <2>3, <2>4, <2>5, ReloadKeeps
<1>5. ASSUME NEW c \in Callers, NEW kind \in {"save", "overwrite"}, Save(c, kind)
      PROVE  Keeps
  <2>1. /\ save[c].pc = "none"
        /\ UNCHANGED <<fsVars, uri, documentVars, diskStat, base, source, orphaned, watchVars>>
    BY <1>5 DEF Save
  <2>2. UNCHANGED <<disk, call, history, pos, version, saved, orphanCheck, watched, event>>
    BY <2>1 DEF fsVars, documentVars, watchVars
  <2>3. CASE kind = "save" /\ changedFrom(uri)
    <3>1. conflict' = TRUE /\ UNCHANGED save
      BY <1>5, <2>3 DEF Save
    <3>2. IsFile(uri) /\ disk[uri].stamp # diskStat /\ disk[uri].author \in Authors
      BY <1>0, <2>3, FilesAreTyped DEF changedFrom, BufferInv, BaseInv, Inv, File
    <3>3. MovedOnIsNoticed'
      BY <3>1 DEF MovedOnIsNoticed
    <3>4. PathInv /\ ~SlowStat /\ ~StatErrors /\ OneSave => ConflictWithOther'
      <4> SUFFICES ASSUME PathInv, ~SlowStat, ~StatErrors, OneSave PROVE ConflictWithOther'
        OBVIOUS
      <4>1. watched = uri /\ OneMove
        BY <2>1 DEF PathInv, Paths, OneMove, OneSave, Moving
      <4>2. OwnIsKnown
        BY <4>1 DEF PathInv, SyncInv
      <4> QED BY <2>1, <2>2, <3>2, <4>1, <4>2
              DEF OwnIsKnown, ConflictWithOther, Replacing, IsFile, Authors
    <3> QED BY <1>0, <2>1, <2>2, <3>1, <3>3, <3>4, MarksKeep
  <2>4. CASE ~(kind = "save" /\ changedFrom(uri))
    <3>1. Start(c, kind, uri) /\ UNCHANGED conflict
      BY <1>5, <2>4 DEF Save
    <3>2. UNCHANGED diskVars
      BY <2>1, <3>1 DEF diskVars
    <3> QED BY <1>0, <2>1, <3>1, <3>2, StartKeeps
  <2> QED BY <2>3, <2>4
<1>6. ASSUME NEW c \in Callers, NEW target \in Resources, SaveAs(c, target)
      PROVE  Keeps
  <2>1. /\ target \in Targets /\ save[c].pc = "none" /\ Start(c, "saveAs", target)
        /\ uri' = target /\ UNCHANGED <<fsVars, documentVars, diskVars, watchVars>>
    BY <1>6 DEF SaveAs
  <2> QED BY <1>0, <2>1, StartKeeps
<1> QED BY <1>1, <1>3, <1>4, <1>5, <1>6 DEF UserStep

\* The watcher's notification, and the orphan timer.
LEMMA WatchKeeps == ASSUME BufferInv, handleExternalFileChange \/ OrphanCheck PROVE Keeps
<1>0. /\ version \in Nat /\ pos \in 1..Len(history) /\ uri \in Resources /\ watched \in Resources
      /\ {conflict, orphaned, orphanCheck, event} \subseteq BOOLEAN
  BY DEF BufferInv, BaseInv, TFTypeOK
<1>1. CASE OrphanCheck
  <2>1. /\ UNCHANGED <<fsVars, uri, documentVars, diskStat, base, source, conflict, watched, event,
                       save>>
        /\ orphanCheck' = FALSE /\ orphaned' = (orphaned \/ ~IsFile(watched))
    BY <1>1 DEF OrphanCheck
  <2>2. UNCHANGED <<disk, call, history, pos, version, saved>> /\ orphaned' \in BOOLEAN
    BY <1>0, <2>1 DEF fsVars, documentVars
  <2>3. PathInv /\ ~SlowStat /\ OneMove => MovedOnIsNoticed'
    BY <2>1, <2>2 DEF PathInv, SyncInv, MovedOnIsNoticed, IsFile
  <2>4. PathInv /\ ~SlowStat /\ ~StatErrors /\ OneSave => ConflictWithOther'
    BY <2>1, <2>2 DEF PathInv, ConflictInv, ConflictWithOther, Replacing, IsFile
  <2> QED BY <1>0, <2>1, <2>2, <2>3, <2>4, MarksKeep
<1>2. CASE handleExternalFileChange
  <2>1. event' = FALSE /\ UNCHANGED <<fsVars, uri, watched, save>> /\ UNCHANGED <<disk, call>>
    BY <1>2 DEF handleExternalFileChange, fsVars
  <2>2. CASE ~IsFile(watched)
    <3>1. /\ UNCHANGED <<documentVars, diskVars>>
          /\ orphanCheck' = (orphanCheck \/ (~orphaned /\ diskStat # NoStat))
      BY <1>2, <2>2 DEF handleExternalFileChange
    <3>2. /\ UNCHANGED <<history, pos, version, saved, diskStat, base, source, conflict, orphaned>>
          /\ orphanCheck' \in BOOLEAN
      BY <1>0, <3>1 DEF documentVars, diskVars
    <3>3. PathInv /\ ~SlowStat /\ OneMove => MovedOnIsNoticed'
      BY <1>0, <2>1, <2>2 DEF MovedOnIsNoticed, IsFile
    <3>4. PathInv /\ ~SlowStat /\ ~StatErrors /\ OneSave => ConflictWithOther'
      BY <2>1, <3>2 DEF PathInv, ConflictInv, ConflictWithOther, Replacing, IsFile
    <3> QED BY <1>0, <2>1, <3>2, <3>3, <3>4, MarksKeep
  <2>3. CASE IsFile(watched) /\ ~changedFrom(watched)
    <3>1. /\ UNCHANGED <<documentVars, diskStat, base, source, conflict>>
          /\ orphanCheck' = FALSE /\ orphaned' = FALSE
      BY <1>2, <2>3 DEF handleExternalFileChange
    <3>2. UNCHANGED <<history, pos, version, saved>>
      BY <3>1 DEF documentVars
    <3>3. PathInv /\ ~SlowStat /\ OneMove => MovedOnIsNoticed'
      BY <1>0, <2>1, <2>3, <3>1 DEF changedFrom, MovedOnIsNoticed, IsFile
    <3>4. PathInv /\ ~SlowStat /\ ~StatErrors /\ OneSave => ConflictWithOther'
      BY <2>1, <3>1 DEF PathInv, ConflictInv, ConflictWithOther, Replacing, IsFile
    <3> QED BY <1>0, <2>1, <3>1, <3>2, <3>3, <3>4, MarksKeep
  <2>4. CASE IsFile(watched) /\ changedFrom(watched) /\ isModified
    <3>1. /\ UNCHANGED <<documentVars, diskStat, base, source>>
          /\ orphanCheck' = FALSE /\ orphaned' = FALSE /\ conflict' = TRUE
      BY <1>2, <2>4 DEF handleExternalFileChange
    <3>2. UNCHANGED <<history, pos, version, saved>>
      BY <3>1 DEF documentVars
    <3>3. MovedOnIsNoticed'
      BY <3>1 DEF MovedOnIsNoticed
    <3>4. disk[watched].stamp # diskStat /\ disk[watched].author \in Authors
      BY <1>0, <2>4, FilesAreTyped DEF changedFrom, BufferInv, BaseInv, Inv, File
    <3>5. PathInv /\ ~SlowStat /\ ~StatErrors /\ OneSave => ConflictWithOther'
      BY <1>0, <2>1, <2>4, <3>4
         DEF PathInv, SyncInv, OneMove, OwnIsKnown, ConflictWithOther, Replacing, IsFile,
             Authors
    <3> QED BY <1>0, <2>1, <3>1, <3>2, <3>3, <3>5, MarksKeep
  <2>5. CASE IsFile(watched) /\ changedFrom(watched) /\ ~isModified /\ Follow(watched)
    <3> DEFINE text == disk[watched].text
    <3>1. text \in Texts
      BY <1>0, <2>5 DEF BufferInv, BaseInv, NoneTorn
    <3>2. /\ history' = <<[id |-> version + 1, text |-> text]>> /\ pos' = 1
          /\ version' = version + 1 /\ saved' = version + 1
          /\ diskStat' = disk[watched].stamp /\ base' = diskStat' /\ source' = watched
          /\ orphaned' = FALSE /\ conflict' = conflict
      BY <2>5 DEF Follow
    <3>3. orphanCheck' = FALSE
      BY <1>2, <2>5 DEF handleExternalFileChange
    <3> HIDE DEF text
    <3> QED BY <1>0, <2>1, <2>5, <3>1, <3>2, <3>3, ReloadKeeps DEF text
  <2>6. CASE IsFile(watched) /\ changedFrom(watched) /\ ~isModified /\ Load(uri, FALSE)
    <3> DEFINE text == IF IsFile(uri) THEN disk[uri].text ELSE Empty
    <3>1. text \in Texts
      BY <1>0, FileServiceAssumption, TextFileModelAssumption
         DEF BufferInv, BaseInv, NoneTorn, Empty
    <3>2. /\ history' = <<[id |-> version + 1, text |-> text]>> /\ pos' = 1
          /\ version' = version + 1 /\ saved' = version + 1
          /\ diskStat' = IF IsFile(uri) THEN disk[uri].stamp ELSE NoStat
          /\ base' = diskStat' /\ source' = uri
          /\ conflict' = FALSE /\ orphaned' = FALSE
      BY <2>6 DEF Load
    <3>3. orphanCheck' = FALSE
      BY <1>2, <2>6 DEF handleExternalFileChange
    <3>4. IsFile(uri) => text = disk[uri].text
      OBVIOUS
    <3>5. PathInv /\ ~(Moving /\ Reload) /\ OneMove => uri = watched
      BY <1>2, <2>6 DEF Reload, PathInv, Paths
    <3> HIDE DEF text
    <3> QED BY <1>0, <2>1, <3>1, <3>2, <3>3, <3>4, <3>5, ReloadKeeps
  <2>7. IsFile(watched) /\ changedFrom(watched) /\ ~isModified
           => Follow(watched) \/ Load(uri, FALSE)
    BY <1>2 DEF handleExternalFileChange
  <2> QED BY <2>2, <2>3, <2>4, <2>5, <2>6, <2>7
<1> QED BY <1>1, <1>2

-----------------------------------------------------------------------------
(* Steps of a write *)

\* The document a save takes its snapshot of, and the call it makes.
LEMMA BeginWriteKeeps == ASSUME BufferInv, NEW c \in Callers, BeginWrite(c) PROVE Keeps
<1> USE DEF BufferInv
<1>1. /\ uri \in Resources /\ save \in [Callers -> Saving] /\ call \in [Callers -> Call]
      /\ base \in Stamps
  BY DEF BaseInv, TFTypeOK, FSTypeOK
<1>2. /\ WriteFile(c, uri, doc.text, Guard(c), TRUE) /\ save[c].pc = "participants"
      /\ UNCHANGED <<disk, clock, uri, history, pos, version, saved, diskStat, base, source,
                     conflict, orphaned, orphanCheck, watched, event>>
  BY DEF BeginWrite, WriteFile, documentVars, diskVars, watchVars
<1>3. /\ doc.id \in Nat /\ doc.text \in Texts /\ Guard(c) \in {NoEtag} \cup 0..clock
  BY DocTyped, GuardTyped DEF BaseInv, KnownEtags
<1>4. /\ save' \in [Callers -> Saving]
      /\ save'[c].pc = "writing" /\ save'[c].kind = save[c].kind
      /\ save'[c].target = save[c].target /\ save'[c].previous = save[c].previous
      /\ save'[c].version = doc.id /\ save'[c].base = base
      /\ \A d \in Callers \ {c} : save'[d] = save[d]
  <2> DEFINE new == [save[c] EXCEPT !.pc = "writing", !.version = doc.id, !.base = base]
  <2>1. save' = [save EXCEPT ![c] = new]
    BY DEF BeginWrite
  <2>2. /\ new \in Saving /\ new.pc = "writing" /\ new.kind = save[c].kind
        /\ new.target = save[c].target /\ new.previous = save[c].previous
        /\ new.version = doc.id /\ new.base = base
    BY <1>1, <1>3 DEF Saving
  <2> HIDE DEF new
  <2> QED BY <1>1, <2>1, <2>2
<1>5. /\ call[c].pc = "idle"
      /\ call'[c].pc = "queued" /\ call'[c].resource = uri /\ call'[c].text = doc.text
      /\ call'[c].etag = Guard(c)
      /\ \A d \in Callers \ {c} : call'[d] = call[d]
  <2> DEFINE new == [call[c] EXCEPT !.pc = "queued", !.resource = uri, !.text = doc.text,
                                    !.etag = Guard(c), !.atomic = TRUE]
  <2>1. call' = [call EXCEPT ![c] = new]
    BY <1>2 DEF WriteFile
  <2>2. /\ new.pc = "queued" /\ new.resource = uri /\ new.text = doc.text /\ new.etag = Guard(c)
    BY <1>1 DEF Call
  <2>3. call[c].pc = "idle"
    BY <1>2 DEF BaseInv, CallsMatch
  <2> HIDE DEF new
  <2> QED BY <1>1, <2>1, <2>2, <2>3
<1>6. /\ pos \in 1..Len(history) /\ doc = history[pos] /\ doc.id <= version
  BY DocTyped DEF doc, BaseInv, VersionsApart
<1>7. Guard(c) = IF save[c].kind = "save" /\ diskStat # NoStat THEN diskStat ELSE NoEtag
  BY DEF Guard
<1> HIDE DEF doc
<1>8. Inv'
  <2>1. Request(c)
    <3>1. Guard(c) \in KnownEtags /\ TRUE \in Atomics
      BY <1>3, TextFileModelAssumption DEF KnownEtags
    <3> QED BY <1>1, <1>2, <1>3, <3>1 DEF Request
  <2> QED BY <2>1, StepInv DEF BaseInv, FSNext
<1>9. TFTypeOK'
  BY <1>2, <1>4, <1>8 DEF BaseInv, TFTypeOK, Inv
<1>10. CallsMatch'
  BY <1>2, <1>4, <1>5, <1>7 DEF BaseInv, CallsMatch
<1>11. StampsApart' /\ NoneTorn' /\ VersionsApart'
  BY <1>2 DEF BaseInv, StampsApart, NoneTorn, VersionsApart, IsFile
<1>12. StampsRead'
  BY <1>2, <1>3, <1>5 DEF BaseInv, StampsRead
<1>13. SnapshotWritten'
  <2>1. ASSUME NEW i \in 1..Len(history), history[i].id = doc.id PROVE history[i].text = doc.text
    BY <1>6, <2>1 DEF BaseInv, VersionsApart
  <2> QED BY <1>2, <1>4, <1>5, <1>6, <2>1 DEF BaseInv, SnapshotWritten
<1>14. ReadInv'
  <2> SUFFICES ASSUME ~SlowStat PROVE Landed' /\ ForeignIsBase' /\ GuardIsBase'
    BY DEF ReadInv
  <2>1. Landed' /\ ForeignIsBase'
    BY <1>2, <1>5 DEF ReadInv, Landed, ForeignIsBase, IsFile
  <2>2. ASSUME save[c].kind = "save"
        PROVE  /\ Guard(c) = NoEtag => base = NoStat
               /\ \A r \in Resources :
                     IsFile(r) /\ disk[r].author = "other" /\ disk[r].stamp = Guard(c)
                       => base = Guard(c)
    <3>1. \A r \in Resources : IsFile(r) => disk[r].stamp \in Nat
      BY FilesAreTyped DEF BaseInv, Inv, File
    <3>2. CASE diskStat = NoStat
      BY <1>7, <2>2, <3>1, <3>2, FileServiceAssumption DEF ReadInv, ForeignIsBase
    <3>3. CASE diskStat # NoStat
      <4>1. diskStat \in Nat /\ Guard(c) = diskStat
        BY <1>7, <2>2, <3>3 DEF BaseInv, TFTypeOK, Stamps
      <4> QED BY <4>1, FileServiceAssumption DEF ReadInv, ForeignIsBase
    <3> QED BY <3>2, <3>3
  <2>3. GuardIsBase'
    BY <1>2, <1>4, <1>5, <2>2 DEF ReadInv, GuardIsBase, IsFile
  <2> QED BY <2>1, <2>3
<1>15. PathInv => Paths'
  BY <1>2, <1>4, <1>5 DEF PathInv, Paths, Moving
<1>16. Replacing' <=> Replacing
  BY <1>2, <1>5 DEF Replacing
<1>17. PathInv => SyncInv'
  BY <1>2, <1>16 DEF PathInv, SyncInv, SavedTextOnDisk, MovedOnIsNoticed, OwnIsKnown, IsFile
<1>18. PathInv => ConflictInv'
  <2> SUFFICES ASSUME PathInv, ~SlowStat, ~StatErrors, OneSave PROVE GuardIsOwn' /\ ConflictWithOther'
    BY DEF ConflictInv
  <2>1. ConflictWithOther'
    BY <1>2, <1>16 DEF PathInv, ConflictInv, ConflictWithOther, IsFile
  <2>2. ~Replacing
    BY <1>5 DEF Replacing, OneSave
  <2>3. ASSUME Guard(c) # NoEtag, IsFile(watched), disk[watched].author = "write"
        PROVE  disk[watched].stamp = Guard(c)
    BY <1>7, <2>2, <2>3 DEF PathInv, SyncInv, OneMove, OwnIsKnown
  <2>4. GuardIsOwn'
    BY <1>2, <1>5, <2>3 DEF GuardIsOwn, OneSave, IsFile
  <2> QED BY <2>1, <2>4
<1> QED BY <1>8, <1>9, <1>10, <1>11, <1>12, <1>13, <1>14, <1>15, <1>17, <1>18
        DEF BaseInv, Keeps, PathInv

\* A new version of a file has a stamp that nobody knows yet.
LEMMA NewVersion ==
    ASSUME BaseInv, NEW r \in Resources, NEW text \in Texts, NEW author \in Authors,
           disk' = [disk EXCEPT ![r] = Version(text, author, FALSE)], clock' = clock + 1
    PROVE  /\ clock \in Nat /\ IsFile(r)'
           /\ disk'[r].stamp = clock + 1 /\ disk'[r].text = text /\ disk'[r].author = author
           /\ \A s \in Resources \ {r} : disk'[s] = disk[s] /\ (IsFile(s)' <=> IsFile(s))
           /\ \A s \in Resources : IsFile(s) => disk[s].stamp # clock + 1
           /\ diskStat # clock + 1 /\ \A c \in Callers : call[c].etag # clock + 1
           /\ disk'[r] # disk[r]
           /\ StampsApart' /\ NoneTorn'
<1> DEFINE new == Version(text, author, FALSE)
<1>1. /\ FSTypeOK /\ clock \in Nat /\ disk \in [Resources -> File \cup {Absent}]
  BY DEF BaseInv, Inv, FSTypeOK
<1>2. new \in File /\ new.stamp = clock + 1 /\ new.text = text /\ new.author = author
  BY <1>1, VersionType DEF Version
<1>3. Absent \notin File
  BY FileServiceAssumption DEF File, Authors
<1> HIDE DEF new
<1>4. disk'[r] = new /\ \A s \in Resources \ {r} : disk'[s] = disk[s]
  BY <1>1 DEF new
<1>5. \A s \in Resources : IsFile(s) => disk[s].stamp \in Nat /\ disk[s].stamp <= clock
  BY <1>1, FilesAreTyped DEF File, BaseInv, Inv, StampsPast
<1>6. \A s \in Resources : IsFile(s) => disk[s].stamp # clock + 1
  BY <1>1, <1>5
<1>7. diskStat # clock + 1 /\ \A c \in Callers : call[c].etag # clock + 1
  BY <1>1, FileServiceAssumption, TextFileModelAssumption DEF BaseInv, StampsRead
<1>8. IsFile(r)' /\ \A s \in Resources \ {r} : IsFile(s)' <=> IsFile(s)
  BY <1>2, <1>3, <1>4 DEF IsFile
<1>9. disk'[r] # disk[r]
  BY <1>2, <1>3, <1>4, <1>6 DEF IsFile
<1>10. StampsApart'
  BY <1>2, <1>4, <1>6, <1>8 DEF BaseInv, StampsApart
<1>11. NoneTorn'
  BY <1>2, <1>4, <1>8 DEF BaseInv, NoneTorn
<1> QED BY <1>1, <1>2, <1>4, <1>6, <1>7, <1>8, <1>9, <1>10, <1>11

\* What the model knows is not changed by a step of the queue.
LEMMA ModelRest ==
    ASSUME UNCHANGED modelVars
    PROVE  UNCHANGED <<uri, history, pos, version, saved, diskStat, base, source, conflict,
                       orphaned, orphanCheck, watched, save>>
BY DEF modelVars, documentVars, diskVars

LEMMA BeginKeeps ==
    ASSUME BufferInv, NEW c \in Callers, Begin(c), Notice(watched), UNCHANGED modelVars
    PROVE  Keeps
<1> USE DEF BufferInv
<1>1. UNCHANGED <<uri, history, pos, version, saved, diskStat, base, source, conflict,
                  orphaned, orphanCheck, watched, save, disk, clock, queue>>
  BY ModelRest DEF Begin
<1>2. event' = event /\ event \in BOOLEAN
  BY <1>1 DEF Notice, BaseInv, TFTypeOK
<1>3. /\ call[c].pc = "queued" /\ call'[c].pc = "checked"
      /\ call'[c].resource = call[c].resource /\ call'[c].text = call[c].text
      /\ call'[c].etag = call[c].etag
      /\ \A d \in Callers \ {c} : call'[d] = call[d]
  BY DEF Begin, BaseInv, Inv, FSTypeOK, Call
<1>4. Inv'
  BY StepInv DEF BaseInv, FSNext, Task
<1>5. TFTypeOK'
  BY <1>1, <1>2, <1>4 DEF BaseInv, TFTypeOK, Inv
<1>6. CallsMatch' /\ StampsRead' /\ SnapshotWritten'
  BY <1>1, <1>3 DEF BaseInv, CallsMatch, StampsRead, SnapshotWritten, Unwritten
<1>7. StampsApart' /\ NoneTorn' /\ VersionsApart'
  BY <1>1 DEF BaseInv, StampsApart, NoneTorn, VersionsApart, IsFile
<1>8. ReadInv'
  BY <1>1, <1>3 DEF ReadInv, Landed, ForeignIsBase, GuardIsBase, IsFile
<1>9. PathInv => Paths'
  BY <1>1, <1>3 DEF PathInv, Paths, Moving
<1>10. Replacing' <=> Replacing
  BY <1>1, <1>3 DEF Replacing
<1>11. PathInv => SyncInv'
  BY <1>1, <1>2, <1>10
     DEF PathInv, SyncInv, SavedTextOnDisk, MovedOnIsNoticed, OwnIsKnown, IsFile
<1>12. PathInv => ConflictInv'
  BY <1>1, <1>3, <1>10 DEF PathInv, ConflictInv, GuardIsOwn, ConflictWithOther, IsFile
<1> QED BY <1>4, <1>5, <1>6, <1>7, <1>8, <1>9, <1>11, <1>12 DEF BaseInv, Keeps, PathInv

LEMMA DecideKeeps ==
    ASSUME BufferInv, NEW c \in Callers, atomicReplacement(c), Notice(watched),
           UNCHANGED modelVars
    PROVE  Keeps
<1> USE DEF BufferInv
<1>1. UNCHANGED <<uri, history, pos, version, saved, diskStat, base, source, conflict,
                  orphaned, orphanCheck, watched, save, disk, clock, queue>>
  BY ModelRest DEF atomicReplacement
<1>2. event' = event /\ event \in BOOLEAN
  BY <1>1 DEF Notice, BaseInv, TFTypeOK
<1>3. /\ call[c].pc = "checked" /\ call'[c].pc \in {"renaming", "inPlace"}
      /\ call'[c].resource = call[c].resource /\ call'[c].text = call[c].text
      /\ call'[c].etag = call[c].etag
      /\ \A d \in Callers \ {c} : call'[d] = call[d]
  BY DEF atomicReplacement, BaseInv, Inv, FSTypeOK, Call
<1>4. Inv'
  BY StepInv DEF BaseInv, FSNext, Task
<1>5. TFTypeOK'
  BY <1>1, <1>2, <1>4 DEF BaseInv, TFTypeOK, Inv
<1>6. CallsMatch' /\ StampsRead' /\ SnapshotWritten'
  BY <1>1, <1>3 DEF BaseInv, CallsMatch, StampsRead, SnapshotWritten, Unwritten
<1>7. StampsApart' /\ NoneTorn' /\ VersionsApart'
  BY <1>1 DEF BaseInv, StampsApart, NoneTorn, VersionsApart, IsFile
<1>8. ReadInv'
  BY <1>1, <1>3 DEF ReadInv, Landed, ForeignIsBase, GuardIsBase, IsFile
<1>9. PathInv => Paths'
  BY <1>1, <1>3 DEF PathInv, Paths, Moving
<1>10. Replacing' <=> Replacing
  BY <1>1, <1>3 DEF Replacing
<1>11. PathInv => SyncInv'
  BY <1>1, <1>2, <1>10
     DEF PathInv, SyncInv, SavedTextOnDisk, MovedOnIsNoticed, OwnIsKnown, IsFile
<1>12. PathInv => ConflictInv'
  BY <1>1, <1>3, <1>10 DEF PathInv, ConflictInv, GuardIsOwn, ConflictWithOther, IsFile
<1> QED BY <1>4, <1>5, <1>6, <1>7, <1>8, <1>9, <1>11, <1>12 DEF BaseInv, Keeps, PathInv

\* The written file: no other write of the resource is between its check and
\* its stat, so what other saves left behind stays.
LEMMA ReplaceKeeps ==
    ASSUME BufferInv, NEW c \in Callers, Replace(c), Notice(watched), UNCHANGED modelVars,
           NEW r, r = call[c].resource
    PROVE  Keeps
<1> USE DEF BufferInv
<1>1. UNCHANGED <<uri, history, pos, version, saved, diskStat, base, source, conflict,
                  orphaned, orphanCheck, watched, save, queue>>
  BY ModelRest DEF Replace
<1>2. /\ call \in [Callers -> Call] /\ r \in Resources /\ call[c].text \in Texts
      /\ "write" \in Authors
  BY DEF BaseInv, Inv, FSTypeOK, Call, Authors
<1>3. /\ call[c].pc = "renaming" /\ call'[c].pc = "replaced"
      /\ call'[c].resource = r /\ call'[c].text = call[c].text /\ call'[c].etag = call[c].etag
      /\ \A d \in Callers \ {c} : call'[d] = call[d]
  BY <1>2 DEF Replace, Call
<1>4. /\ disk' = [disk EXCEPT ![r] = Version(call[c].text, "write", FALSE)]
      /\ clock' = clock + 1
  BY DEF Replace
<1>5. /\ clock \in Nat /\ IsFile(r)' /\ disk'[r].stamp = clock + 1
      /\ disk'[r].text = call[c].text /\ disk'[r].author = "write"
      /\ \A s \in Resources \ {r} : disk'[s] = disk[s] /\ (IsFile(s)' <=> IsFile(s))
      /\ diskStat # clock + 1 /\ \A d \in Callers : call[d].etag # clock + 1
      /\ disk'[r] # disk[r] /\ StampsApart' /\ NoneTorn'
  BY <1>2, <1>4, NewVersion
<1>6. event' = (event \/ disk'[watched] # disk[watched]) /\ event' \in BOOLEAN
  BY DEF Notice
<1>7. Inv'
  BY StepInv DEF BaseInv, FSNext, Task
<1>8. TFTypeOK'
  BY <1>1, <1>6, <1>7 DEF BaseInv, TFTypeOK, Inv
<1>9. CallsMatch' /\ SnapshotWritten' /\ VersionsApart'
  <2>1. CallsMatch' /\ SnapshotWritten'
    BY <1>1, <1>3 DEF BaseInv, CallsMatch, SnapshotWritten
  <2> QED BY <1>1, <2>1 DEF BaseInv, VersionsApart
<1>10. StampsRead'
  BY <1>1, <1>3, <1>4, <1>5 DEF BaseInv, StampsRead
<1>11. ReadInv'
  <2> SUFFICES ASSUME ~SlowStat PROVE Landed' /\ ForeignIsBase' /\ GuardIsBase'
    BY DEF ReadInv
  <2>1. ASSUME NEW d \in Callers, d # c, call[d].pc = "replaced"
        PROVE  call[d].resource # r /\ call[d].resource \in Resources
    <3>1. WritesDoNotInterleave
      BY Exclusive DEF BaseInv, Inv
    <3>2. {call[c].pc, call[d].pc} \subseteq Running
      BY <1>3, <2>1 DEF Running, Queued
    <3> QED BY <1>2, <2>1, <3>1, <3>2 DEF WritesDoNotInterleave, Call
  <2>2. Landed'
    <3>1. ASSUME NEW d \in Callers, d # c, call'[d].pc = "replaced"
          PROVE  LET q == call'[d].resource IN
                     disk'[q] # Absent /\ disk'[q].author = "write" /\ disk'[q].text = call'[d].text
      <4>1. call'[d] = call[d] /\ call[d].pc = "replaced"
        BY <1>3, <3>1
      <4>2. call[d].resource \in Resources \ {r}
        BY <2>1, <3>1, <4>1
      <4> QED BY <1>5, <4>1, <4>2 DEF ReadInv, Landed, IsFile
    <3>2. LET q == call'[c].resource IN
             disk'[q] # Absent /\ disk'[q].author = "write" /\ disk'[q].text = call'[c].text
      BY <1>3, <1>5 DEF IsFile
    <3> QED BY <3>1, <3>2 DEF Landed, IsFile
  <2>3. ForeignIsBase' /\ GuardIsBase'
    BY <1>1, <1>3, <1>5 DEF ReadInv, ForeignIsBase, GuardIsBase
  <2> QED BY <2>2, <2>3
<1>12. PathInv => Paths'
  BY <1>1, <1>3 DEF PathInv, Paths, Moving
<1>13. r = watched => Replacing'
  BY <1>1, <1>3 DEF Replacing
<1>14. r # watched => disk'[watched] = disk[watched] /\ (Replacing' <=> Replacing)
  <2>1. watched \in Resources
    BY DEF BaseInv, TFTypeOK
  <2> QED BY <1>1, <1>3, <1>5, <2>1 DEF Replacing
<1>15. PathInv => SyncInv'
  <2> SUFFICES ASSUME PathInv, ~SlowStat, OneMove
               PROVE  SavedTextOnDisk' /\ MovedOnIsNoticed' /\ OwnIsKnown'
    BY DEF SyncInv
  <2>1. CASE r = watched
    <3>1. event'
      BY <1>5, <1>6, <2>1
    <3>2. SavedTextOnDisk'
      BY <1>1, <1>5, <2>1 DEF SavedTextOnDisk
    <3> QED BY <1>13, <2>1, <3>1, <3>2 DEF MovedOnIsNoticed, OwnIsKnown
  <2>2. CASE r # watched
    BY <1>1, <1>6, <1>14, <2>2
       DEF PathInv, SyncInv, SavedTextOnDisk, MovedOnIsNoticed, OwnIsKnown, IsFile
  <2> QED BY <2>1, <2>2
<1>16. PathInv => ConflictInv'
  <2> SUFFICES ASSUME PathInv, ~SlowStat, ~StatErrors, OneSave PROVE GuardIsOwn' /\ ConflictWithOther'
    BY DEF ConflictInv
  <2>1. GuardIsOwn'
    BY <1>3 DEF GuardIsOwn, OneSave
  <2>2. ConflictWithOther'
    BY <1>1, <1>13, <1>14 DEF PathInv, ConflictInv, ConflictWithOther, IsFile
  <2> QED BY <2>1, <2>2
<1> QED BY <1>5, <1>7, <1>8, <1>9, <1>10, <1>11, <1>12, <1>15, <1>16 DEF BaseInv, Keeps, PathInv

\* A program outside the editor rewrites or deletes a file.
LEMMA WorldKeeps == ASSUME BufferInv, NEW r \in Resources, World(r) PROVE Keeps
<1> USE DEF BufferInv
<1>1. /\ UNCHANGED <<uri, history, pos, version, saved, diskStat, base, source, conflict,
                     orphaned, orphanCheck, watched, save>>
      /\ event' = (event \/ disk'[watched] # disk[watched])
      /\ ForeignRewrite(r, clock + 1, FALSE) \/ ForeignDelete(r)
      /\ ~SlowStat => \A c \in Callers : call[c].pc # "replaced" \/ call[c].resource # r
  BY ModelRest DEF World, Notice
<1>2. UNCHANGED <<queue, call>>
  BY <1>1 DEF ForeignRewrite, ForeignDelete, Del
<1>3. Inv'
  <2>1. TFNext
    BY DEF TFNext
  <2>2. [FSNext]_fsVars
    BY <2>1, StepUsesService DEF BaseInv
  <2> QED BY <2>2, StepInv DEF BaseInv
<1>4. /\ \A s \in Resources \ {r} : disk'[s] = disk[s]
      /\ disk'[r] # Absent =>
            /\ disk'[r].author = "other" /\ disk'[r].stamp # diskStat
            /\ \A c \in Callers : call[c].etag # disk'[r].stamp
      /\ disk'[r] # disk[r] /\ clock \in Nat /\ clock' \in {clock, clock + 1}
      /\ StampsApart' /\ NoneTorn'
  <2>1. clock \in Nat /\ disk \in [Resources -> File \cup {Absent}]
    BY DEF BaseInv, Inv, FSTypeOK
  <2>2. CASE ForeignRewrite(r, clock + 1, FALSE)
    <3>1. clock + 1 \in Texts /\ "other" \in Authors
      BY <2>1, <2>2, FileServiceAssumption, TextFileModelAssumption DEF ForeignRewrite, Authors
    <3>2. disk' = [disk EXCEPT ![r] = Version(clock + 1, "other", FALSE)] /\ clock' = clock + 1
      BY <2>2 DEF ForeignRewrite
    <3> DEFINE text == clock + 1
    <3>3. /\ disk'[r].stamp = clock + 1 /\ disk'[r].author = "other"
          /\ \A s \in Resources \ {r} : disk'[s] = disk[s]
          /\ diskStat # clock + 1 /\ \A c \in Callers : call[c].etag # clock + 1
          /\ disk'[r] # disk[r] /\ StampsApart' /\ NoneTorn'
      BY <3>1, <3>2, NewVersion
    <3> QED BY <2>1, <3>2, <3>3
  <2>3. CASE ForeignDelete(r)
    <3>1. /\ disk'[r] = Absent /\ disk[r] # Absent /\ clock' = clock
          /\ \A s \in Resources \ {r} : disk'[s] = disk[s]
      BY <2>1, <2>3 DEF ForeignDelete, Del, IsFile
    <3>2. StampsApart' /\ NoneTorn'
      BY <3>1 DEF BaseInv, StampsApart, NoneTorn, IsFile
    <3> QED BY <2>1, <3>1, <3>2
  <2> QED BY <1>1, <2>2, <2>3
<1>5. TFTypeOK'
  <2>1. event' \in BOOLEAN
    BY <1>1
  <2> QED BY <1>1, <1>3, <2>1 DEF BaseInv, TFTypeOK, Inv
<1>6. CallsMatch' /\ SnapshotWritten' /\ VersionsApart' /\ (PathInv => Paths')
  <2>1. PathInv => Paths'
    BY <1>1, <1>2 DEF PathInv, Paths, Moving
  <2> QED BY <1>1, <1>2, <2>1 DEF BaseInv, CallsMatch, SnapshotWritten, VersionsApart
<1>7. StampsRead'
  <2>1. \A n \in 0..clock : n \in 0..clock'
    BY <1>4
  <2> QED BY <1>1, <1>2, <2>1 DEF BaseInv, StampsRead
<1>8. ReadInv'
  <2> SUFFICES ASSUME ~SlowStat PROVE Landed' /\ ForeignIsBase' /\ GuardIsBase'
    BY DEF ReadInv
  <2>1. Landed'
    <3>1. \A c \in Callers : call[c].resource \in Resources
      BY DEF BaseInv, Inv, FSTypeOK, Call
    <3> QED BY <1>1, <1>2, <1>4, <3>1 DEF ReadInv, Landed, IsFile
  <2>2. ForeignIsBase' /\ GuardIsBase'
    BY <1>1, <1>2, <1>4 DEF ReadInv, ForeignIsBase, GuardIsBase, IsFile
  <2> QED BY <2>1, <2>2
<1>9. r # watched => disk'[watched] = disk[watched] /\ (Replacing' <=> Replacing)
  <2>1. watched \in Resources
    BY DEF BaseInv, TFTypeOK
  <2> QED BY <1>1, <1>2, <1>4, <2>1 DEF Replacing
<1>10. PathInv => SyncInv'
  <2> SUFFICES ASSUME PathInv, ~SlowStat, OneMove
               PROVE  SavedTextOnDisk' /\ MovedOnIsNoticed' /\ OwnIsKnown'
    BY DEF SyncInv
  <2>1. CASE r = watched
    BY <1>1, <1>4, <2>1 DEF SavedTextOnDisk, MovedOnIsNoticed, OwnIsKnown, IsFile
  <2>2. CASE r # watched
    BY <1>1, <1>9, <2>2
       DEF PathInv, SyncInv, SavedTextOnDisk, MovedOnIsNoticed, OwnIsKnown, IsFile
  <2> QED BY <2>1, <2>2
<1>11. PathInv => ConflictInv'
  <2>1. CASE r = watched
    BY <1>1, <1>4, <2>1 DEF ConflictInv, GuardIsOwn, ConflictWithOther, IsFile
  <2>2. CASE r # watched
    BY <1>1, <1>2, <1>9, <2>2 DEF PathInv, ConflictInv, GuardIsOwn, ConflictWithOther, IsFile
  <2> QED BY <2>1, <2>2
<1> QED BY <1>3, <1>4, <1>5, <1>6, <1>7, <1>8, <1>10, <1>11 DEF BaseInv, Keeps, PathInv

\* A write settles, and with it its save: what the others know stays.
LEMMA SettleKeeps ==
    ASSUME BufferInv, NEW c \in Callers, Task(c), Settle(c), EndSave(c),
           UNCHANGED <<disk, clock, history, pos, version>>
    PROVE  /\ Inv' /\ CallsMatch' /\ StampsApart' /\ NoneTorn' /\ VersionsApart'
           /\ SnapshotWritten' /\ save' \in [Callers -> Saving]
           /\ \A d \in Callers : call'[d].etag \in {NoEtag} \cup 0..clock
           /\ (~SlowStat => Landed /\ GuardIsBase)'
           /\ call'[c].pc = "idle" /\ save'[c].pc = "none"
           /\ \A d \in Callers \ {c} : call'[d] = call[d] /\ save'[d] = save[d]
<1> USE DEF BufferInv
<1>1. /\ IdleCall.pc = "idle" /\ IdleCall.etag = NoEtag
      /\ NoSave \in Saving /\ NoSave.pc = "none" /\ NoSave.version = 0
  <2>1. (CHOOSE q \in Resources : TRUE) \in Resources
    BY FileServiceAssumption
  <2> QED BY <2>1 DEF IdleCall, NoSave, Saving, Stamps
<1>2. /\ save \in [Callers -> Saving] /\ call \in [Callers -> Call] /\ version \in Nat
  BY DEF BaseInv, TFTypeOK, FSTypeOK
<1>3. /\ call' = [call EXCEPT ![c] = IdleCall] /\ save' = [save EXCEPT ![c] = NoSave]
  BY DEF Settle, EndSave
<1> HIDE DEF IdleCall, NoSave
<1>4. /\ call'[c] = IdleCall /\ save'[c] = NoSave /\ save' \in [Callers -> Saving]
      /\ \A d \in Callers \ {c} : call'[d] = call[d] /\ save'[d] = save[d]
  BY <1>1, <1>2, <1>3
<1>5. Inv'
  <2>1. FSNext
    BY DEF FSNext
  <2> QED BY <2>1, StepInv DEF BaseInv
<1>6. CallsMatch' /\ SnapshotWritten'
  BY <1>1, <1>2, <1>4 DEF BaseInv, CallsMatch, SnapshotWritten
<1>7. StampsApart' /\ NoneTorn' /\ VersionsApart'
  BY DEF BaseInv, StampsApart, NoneTorn, VersionsApart, IsFile
<1>8. \A d \in Callers : call'[d].etag \in {NoEtag} \cup 0..clock
  BY <1>1, <1>4 DEF BaseInv, StampsRead
<1>9. (~SlowStat => Landed /\ GuardIsBase)'
  BY <1>1, <1>4 DEF ReadInv, Landed, GuardIsBase, IsFile
<1> QED BY <1>1, <1>4, <1>5, <1>6, <1>7, <1>8, <1>9

\* A write succeeded.
LEMMA SavedKeeps ==
    ASSUME BufferInv, NEW c \in Callers, Saved(c), NEW r, r = call[c].resource
    PROVE  Keeps
<1> USE DEF BufferInv
<1>1. /\ Task(c) /\ Settle(c) /\ EndSave(c)
      /\ UNCHANGED <<disk, clock, uri, history, pos, version, base>>
      /\ call[c].pc = "replaced" /\ IsFile(r)
      /\ saved' = save[c].version /\ diskStat' = disk[r].stamp /\ source' = r
      /\ conflict' = FALSE /\ orphaned' = FALSE /\ Rewatch(c)
  BY DEF Saved, StatWritten, Task, SavedState
<1>2. /\ Inv' /\ CallsMatch' /\ StampsApart' /\ NoneTorn' /\ VersionsApart'
      /\ SnapshotWritten' /\ save' \in [Callers -> Saving]
      /\ \A d \in Callers : call'[d].etag \in {NoEtag} \cup 0..clock
      /\ (~SlowStat => Landed /\ GuardIsBase)'
      /\ call'[c].pc = "idle" /\ save'[c].pc = "none"
      /\ \A d \in Callers \ {c} : call'[d] = call[d] /\ save'[d] = save[d]
  BY <1>1, SettleKeeps
<1>3. /\ save[c] \in Saving /\ save[c].pc = "writing" /\ r \in Resources
      /\ uri \in Resources /\ version \in Nat /\ clock \in Nat
  BY <1>1 DEF BaseInv, TFTypeOK, FSTypeOK, CallsMatch, Call
<1>4. disk[r].stamp \in 0..clock
  <2>1. disk[r] \in File /\ disk[r].stamp <= clock
    BY <1>1, <1>3, FilesAreTyped DEF BaseInv, Inv, StampsPast
  <2> QED BY <1>3, <2>1 DEF File
<1>5. save[c].version \in 0..version
  BY <1>3 DEF BaseInv, SnapshotWritten, Saving
<1>6. /\ watched' \in Resources /\ {event', orphanCheck'} \subseteq BOOLEAN
      /\ watched' = IF save[c].kind = "saveAs" THEN save[c].target ELSE watched
  BY <1>1, <1>3 DEF Rewatch, watchVars, BaseInv, TFTypeOK, Saving
<1>7. TFTypeOK'
  <2>1. diskStat' \in Stamps /\ saved' \in 0..version'
    BY <1>1, <1>3, <1>4, <1>5 DEF Stamps
  <2>2. {conflict', orphaned', orphanCheck', event'} \subseteq BOOLEAN
    BY <1>1, <1>6
  <2> QED BY <1>1, <1>2, <1>3, <1>6, <2>1, <2>2 DEF BaseInv, TFTypeOK, Inv
<1>8. StampsRead'
  BY <1>1, <1>2, <1>4 DEF BaseInv, StampsRead
<1>9. ReadInv'
  <2> SUFFICES ASSUME ~SlowStat PROVE ForeignIsBase'
    BY <1>2 DEF ReadInv
  <2>1. disk[r].author = "write"
    BY <1>1 DEF ReadInv, Landed
  <2>2. \A q \in Resources : IsFile(q) /\ disk[q].stamp = disk[r].stamp => q = r
    BY <1>1, <1>3 DEF BaseInv, StampsApart
  <2>3. disk[r].stamp # NoStat
    BY <1>3, <1>4, TextFileModelAssumption
  <2> QED BY <1>1, <2>1, <2>2, <2>3 DEF ForeignIsBase, IsFile
<1>10. PathInv /\ OneMove => r = uri /\ watched' = uri
  <2>1. CASE Targets = {}
    <3>1. ~Moving
      BY <2>1 DEF Moving, BaseInv, CallsMatch
    <3> QED BY <1>1, <1>3, <1>6, <3>1 DEF PathInv, Paths, Moving
  <2>2. CASE OneSave
    <3>1. save[c].kind # "saveAs" => ~Moving
      BY <2>2 DEF Moving, OneSave
    <3> QED BY <1>1, <1>3, <1>6, <3>1 DEF PathInv, Paths
  <2> QED BY <2>1, <2>2 DEF OneMove
<1>11. PathInv => Paths'
  <2>1. ~OneSave => (OneMove => ~Moving)
    BY DEF OneMove, Moving, BaseInv, CallsMatch
  <2>2. OneSave => ~Moving' /\ \A d \in Callers : call'[d].pc = "idle"
    BY <1>2 DEF OneSave, Moving
  <2>3. ~Moving => ~Moving'
    BY <1>2 DEF Moving
  <2> QED BY <1>1, <1>2, <1>10, <2>1, <2>2, <2>3 DEF PathInv, Paths, Moving
<1>12. PathInv => SyncInv'
  <2> SUFFICES ASSUME PathInv, ~SlowStat, OneMove
               PROVE  SavedTextOnDisk' /\ MovedOnIsNoticed' /\ OwnIsKnown'
    BY DEF SyncInv
  <2>1. \A i \in 1..Len(history) :
            history[i].id = save[c].version => history[i].text = disk[r].text
    BY <1>1, <1>3 DEF BaseInv, SnapshotWritten, ReadInv, Landed
  <2> QED BY <1>1, <1>10, <2>1 DEF SavedTextOnDisk, MovedOnIsNoticed, OwnIsKnown
<1>13. PathInv => ConflictInv'
  BY <1>1, <1>2 DEF ConflictInv, GuardIsOwn, ConflictWithOther, OneSave
<1> QED BY <1>2, <1>7, <1>8, <1>9, <1>11, <1>12, <1>13 DEF BaseInv, Keeps, PathInv

\* A write was refused.
LEMMA ConflictKeeps == ASSUME BufferInv, NEW c \in Callers, SaveConflict(c) PROVE Keeps
<1> USE DEF BufferInv
<1>1. /\ Task(c) /\ Settle(c) /\ EndSave(c)
      /\ UNCHANGED <<disk, clock, uri, history, pos, version, saved, diskStat, base, source,
                     orphaned, orphanCheck, watched, event>>
      /\ call[c].pc = "queued" /\ ~EtagAllows(c) /\ conflict' = TRUE
  BY DEF SaveConflict, Refuse, Task, documentVars, watchVars
<1>2. /\ Inv' /\ CallsMatch' /\ StampsApart' /\ NoneTorn' /\ VersionsApart'
      /\ SnapshotWritten' /\ save' \in [Callers -> Saving]
      /\ \A d \in Callers : call'[d].etag \in {NoEtag} \cup 0..clock
      /\ (~SlowStat => Landed /\ GuardIsBase)'
      /\ call'[c].pc = "idle" /\ save'[c].pc = "none"
      /\ \A d \in Callers \ {c} : call'[d] = call[d] /\ save'[d] = save[d]
  BY <1>1, SettleKeeps
<1>3. TFTypeOK'
  <2>1. conflict' \in BOOLEAN
    BY <1>1
  <2> QED BY <1>1, <1>2, <2>1 DEF BaseInv, TFTypeOK, Inv
<1>4. StampsRead'
  BY <1>1, <1>2 DEF BaseInv, StampsRead
<1>5. ReadInv'
  BY <1>1, <1>2 DEF ReadInv, ForeignIsBase, IsFile
<1>6. PathInv => Paths'
  <2>1. save[c].kind # "saveAs"
    BY <1>1 DEF BaseInv, CallsMatch, EtagAllows
  <2>2. Moving' <=> Moving
    BY <1>2, <2>1 DEF Moving
  <2> QED BY <1>1, <1>2, <2>2 DEF PathInv, Paths
<1>7. Replacing' <=> Replacing
  BY <1>1, <1>2 DEF Replacing
<1>8. PathInv => SyncInv'
  BY <1>1, <1>7 DEF PathInv, SyncInv, SavedTextOnDisk, MovedOnIsNoticed, OwnIsKnown, IsFile
<1>9. PathInv => ConflictInv'
  <2> SUFFICES ASSUME PathInv, ~SlowStat, ~StatErrors, OneSave PROVE GuardIsOwn' /\ ConflictWithOther'
    BY DEF ConflictInv
  <2>1. GuardIsOwn'
    BY <1>2 DEF GuardIsOwn, OneSave
  <2>2. ASSUME IsFile(watched) PROVE disk[watched].author = "other"
    <3>1. call[c].etag # NoEtag
      BY <1>1 DEF EtagAllows
    <3>2. ~Moving
      BY <3>1 DEF Moving, OneSave, BaseInv, CallsMatch
    <3>3. call[c].resource = watched
      BY <1>1, <3>2 DEF PathInv, Paths, OneMove
    <3>4. disk[watched].stamp # call[c].etag
      BY <1>1, <3>3 DEF EtagAllows
    <3>5. disk[watched].author # "write"
      BY <1>1, <2>2, <3>1, <3>4 DEF PathInv, ConflictInv, GuardIsOwn
    <3>6. watched \in Resources
      BY DEF BaseInv, TFTypeOK
    <3>7. disk[watched].author \in Authors
      BY <2>2, <3>6, FilesAreTyped DEF BaseInv, Inv, File
    <3> QED BY <3>5, <3>7 DEF Authors
  <2> QED BY <1>1, <2>1, <2>2 DEF ConflictWithOther, IsFile
<1> QED BY <1>2, <1>3, <1>4, <1>5, <1>6, <1>8, <1>9 DEF BaseInv, Keeps, PathInv

\* A write failed: the file is what it was, or gone, or written if it was the
\* closing stat that failed.
LEMMA FailureKeeps == ASSUME BufferInv, NEW c \in Callers, SaveFailed(c) PROVE Keeps
<1> USE DEF BufferInv
<1>1. /\ Task(c) /\ Settle(c) /\ EndSave(c)
      /\ UNCHANGED <<disk, clock, history, pos, version, saved, diskStat, base, source, conflict,
                     orphaned, orphanCheck, watched, event>>
      /\ uri' = IF save[c].kind = "saveAs" THEN save[c].previous ELSE uri
      /\ call[c].pc # "idle"
      /\ StatErrors \/ call[c].pc # "replaced" \/ ~IsFile(call[c].resource)
  BY DEF SaveFailed, Fail, Task, Queued, documentVars, diskVars, watchVars
<1>2. /\ Inv' /\ CallsMatch' /\ StampsApart' /\ NoneTorn' /\ VersionsApart'
      /\ SnapshotWritten' /\ save' \in [Callers -> Saving]
      /\ \A d \in Callers : call'[d].etag \in {NoEtag} \cup 0..clock
      /\ (~SlowStat => Landed /\ GuardIsBase)'
      /\ call'[c].pc = "idle" /\ save'[c].pc = "none"
      /\ \A d \in Callers \ {c} : call'[d] = call[d] /\ save'[d] = save[d]
  BY <1>1, SettleKeeps
<1>3. TFTypeOK'
  <2>1. uri' \in Resources
    BY <1>1 DEF BaseInv, TFTypeOK, Saving
  <2> QED BY <1>1, <1>2, <2>1 DEF BaseInv, TFTypeOK, Inv
<1>4. StampsRead'
  BY <1>1, <1>2 DEF BaseInv, StampsRead
<1>5. ReadInv'
  BY <1>1, <1>2 DEF ReadInv, ForeignIsBase, IsFile
<1>6. PathInv => Paths'
  <2> SUFFICES ASSUME PathInv, OneMove PROVE Paths'
    BY DEF Paths
  <2>1. CASE save[c].kind = "saveAs"
    <3>1. OneSave
      BY <1>1, <2>1 DEF OneMove, BaseInv, CallsMatch
    <3>2. save[c].pc # "none" /\ \A d \in Callers : d = c
      BY <1>1, <3>1 DEF OneSave, BaseInv, CallsMatch
    <3>3. uri' = watched /\ ~Moving'
      BY <1>1, <1>2, <2>1, <3>2 DEF PathInv, Paths, Moving
    <3> QED BY <1>1, <1>2, <3>2, <3>3 DEF PathInv, Paths, Moving
  <2>2. CASE save[c].kind # "saveAs"
    <3>1. (Moving' <=> Moving) /\ uri' = uri
      BY <1>1, <1>2, <2>2 DEF Moving
    <3> QED BY <1>1, <1>2, <3>1 DEF PathInv, Paths
  <2> QED BY <2>1, <2>2
<1>7. ~StatErrors /\ IsFile(watched) => (Replacing' <=> Replacing)
  BY <1>1, <1>2 DEF Replacing
<1>8. PathInv => SyncInv'
  BY <1>1, <1>7 DEF PathInv, SyncInv, SavedTextOnDisk, MovedOnIsNoticed, OwnIsKnown, IsFile
<1>9. PathInv => ConflictInv'
  <2> SUFFICES ASSUME PathInv, ~SlowStat, ~StatErrors, OneSave PROVE GuardIsOwn' /\ ConflictWithOther'
    BY DEF ConflictInv
  <2>1. GuardIsOwn'
    BY <1>2 DEF GuardIsOwn, OneSave
  <2>2. ConflictWithOther'
    BY <1>1, <1>7 DEF PathInv, ConflictInv, ConflictWithOther, IsFile
  <2> QED BY <2>1, <2>2
<1> QED BY <1>2, <1>3, <1>4, <1>5, <1>6, <1>8, <1>9 DEF BaseInv, Keeps, PathInv

-----------------------------------------------------------------------------
(* The invariant, and what follows from it *)

LEMMA OpenedInv == TFInit => BufferInv /\ PathInv
<1> SUFFICES ASSUME TFInit PROVE BufferInv /\ PathInv
  OBVIOUS
<1>1. /\ FSInit /\ uri \in Resources
      /\ \A r \in Resources : IsFile(r) => r = uri
      /\ history = <<[id |-> 0, text |-> Empty]>> /\ pos = 1 /\ version = 0 /\ saved = 0
      /\ diskStat = IF IsFile(uri) THEN 0 ELSE NoStat
      /\ base = diskStat /\ source = uri /\ watched = uri
      /\ conflict = FALSE /\ orphaned = FALSE /\ orphanCheck = FALSE /\ event = FALSE
      /\ save = [c \in Callers |-> NoSave]
      /\ IsFile(uri) => disk[uri].text = Empty
  BY DEF TFInit
<1>2. Inv
  BY <1>1, InitInv
<1>3. /\ clock = 0 /\ call = [c \in Callers |-> IdleCall]
      /\ \A r \in Resources : IsFile(r) => disk[r].stamp = 0 /\ disk[r].author = "other"
  BY <1>1 DEF FSInit, IsFile
<1>4. /\ IdleCall.pc = "idle" /\ IdleCall.etag = NoEtag
      /\ NoSave \in Saving /\ NoSave.pc = "none" /\ NoSave.version = 0
  <2>1. (CHOOSE q \in Resources : TRUE) \in Resources
    BY FileServiceAssumption
  <2> QED BY <2>1 DEF IdleCall, NoSave, Saving, Stamps
<1>5. Empty \in Texts
  BY FileServiceAssumption, TextFileModelAssumption DEF Empty
<1>6. /\ Len(history) = 1 /\ history[1].id = 0 /\ history[1].text = Empty
      /\ \A i \in 1..Len(history) : i = 1
      /\ history \in Seq([id : Nat, text : Texts])
  BY <1>1, <1>5
<1> HIDE DEF IdleCall, NoSave, Empty
<1>7. \A c \in Callers : call[c] = IdleCall /\ save[c] = NoSave
  BY <1>1, <1>3
<1>8. TFTypeOK
  <2>1. diskStat \in Stamps /\ pos \in 1..Len(history) /\ saved \in 0..version
    BY <1>1, <1>6 DEF Stamps
  <2> QED BY <1>1, <1>2, <1>4, <1>6, <2>1 DEF TFTypeOK, Inv
<1>9. CallsMatch /\ StampsApart /\ NoneTorn /\ StampsRead
  <2>1. CallsMatch
    BY <1>4, <1>7 DEF CallsMatch
  <2>2. StampsApart /\ NoneTorn
    BY <1>1, <1>5 DEF StampsApart, NoneTorn
  <2>3. StampsRead
    BY <1>1, <1>3, <1>4, <1>7 DEF StampsRead
  <2> QED BY <2>1, <2>2, <2>3
<1>10. VersionsApart /\ SnapshotWritten
  BY <1>1, <1>4, <1>6, <1>7 DEF VersionsApart, SnapshotWritten
<1>11. ReadInv
  BY <1>1, <1>4, <1>7 DEF ReadInv, Landed, ForeignIsBase, GuardIsBase
<1>12. Paths
  BY <1>1, <1>4, <1>7 DEF Paths, Moving
<1>13. SyncInv
  BY <1>1, <1>3, <1>6 DEF SyncInv, SavedTextOnDisk, MovedOnIsNoticed, OwnIsKnown
<1>14. ConflictInv
  BY <1>1, <1>4, <1>7 DEF ConflictInv, GuardIsOwn, ConflictWithOther
<1> QED BY <1>2, <1>8, <1>9, <1>10, <1>11, <1>12, <1>13, <1>14 DEF BufferInv, BaseInv, PathInv

LEMMA ModelStep == BufferInv /\ [TFNext]_vars => Keeps
<1> SUFFICES ASSUME BufferInv, [TFNext]_vars PROVE Keeps
  OBVIOUS
<1>1. CASE UserStep
  BY <1>1, UserKeeps
<1>2. ASSUME NEW c \in Callers, SaveStep(c) PROVE Keeps
  <2>1. CASE BeginWrite(c)
    BY <2>1, BeginWriteKeeps
  <2>2. CASE WriteStep(c)
    <3>1. /\ Begin(c) \/ atomicReplacement(c) \/ Replace(c)
          /\ Notice(watched) /\ UNCHANGED modelVars
      BY <2>2 DEF WriteStep
    <3> QED BY <3>1, BeginKeeps, DecideKeeps, ReplaceKeeps
  <2>3. CASE Saved(c)
    BY <2>3, SavedKeeps
  <2>4. CASE SaveConflict(c)
    BY <2>4, ConflictKeeps
  <2>5. CASE SaveFailed(c)
    BY <2>5, FailureKeeps
  <2> QED BY <1>2, <2>1, <2>2, <2>3, <2>4, <2>5 DEF SaveStep
<1>3. CASE handleExternalFileChange \/ OrphanCheck
  BY <1>3, WatchKeeps
<1>4. ASSUME NEW r \in Resources, World(r) PROVE Keeps
  BY <1>4, WorldKeeps
<1>5. CASE UNCHANGED vars
  <2>1. /\ UNCHANGED <<fsVars, save, uri, history, version, saved, diskStat, base, source, watched>>
        /\ UNCHANGED <<pos, conflict, orphaned, orphanCheck, event, disk, call>>
    BY <1>5 DEF vars, fsVars, modelVars, documentVars, diskVars
  <2>2. /\ pos' \in 1..Len(history)
        /\ {conflict', orphaned', orphanCheck', event'} \subseteq BOOLEAN
    BY <2>1 DEF BufferInv, BaseInv, TFTypeOK
  <2>3. PathInv /\ ~SlowStat /\ OneMove => MovedOnIsNoticed'
    BY <2>1 DEF PathInv, SyncInv, MovedOnIsNoticed, IsFile
  <2>4. PathInv /\ ~SlowStat /\ ~StatErrors /\ OneSave => ConflictWithOther'
    BY <2>1 DEF PathInv, ConflictInv, ConflictWithOther, Replacing, IsFile
  <2> QED BY <2>1, <2>2, <2>3, <2>4, MarksKeep
<1> QED BY <1>1, <1>2, <1>3, <1>4, <1>5 DEF TFNext

\* Whatever the user, the saves, the watcher and other programs do, the
\* invariant of the text model holds (textFileModel.ts).
THEOREM BufferInvariance == TFSpec => []BufferInv
<1>1. BufferInv /\ [TFNext]_vars => BufferInv'
  BY ModelStep DEF Keeps
<1> QED BY <1>1, OpenedInv, PTL DEF TFSpec

\* Nothing is loaded while a Save As may still fail.
ReloadsWhenSettled == [][~(Moving /\ Reload)]_vars

\* The text is that of the watched path, to which a failed Save As returns, as long
\* as nothing is loaded amid one (textFileModel.ts:825).
THEOREM PathInvariance == TFSpec /\ ReloadsWhenSettled => []PathInv
<1>1. BufferInv /\ PathInv /\ [TFNext]_vars /\ [~(Moving /\ Reload)]_vars => PathInv'
  <2> SUFFICES ASSUME BufferInv, PathInv, [TFNext]_vars, [~(Moving /\ Reload)]_vars PROVE PathInv'
    OBVIOUS
  <2>1. CASE ~(Moving /\ Reload)
    BY <2>1, ModelStep DEF Keeps
  <2>2. CASE UNCHANGED vars
    <3>1. version \in Nat /\ version' = version
      BY <2>2 DEF BufferInv, BaseInv, TFTypeOK, vars, modelVars, documentVars
    <3>2. ~Reload
      BY <3>1 DEF Reload, revertToDisk, Load
    <3> QED BY <3>2, ModelStep DEF Keeps
  <2> QED BY <2>1, <2>2
<1> QED BY <1>1, OpenedInv, BufferInvariance, PTL DEF TFSpec, ReloadsWhenSettled

\* Every reachable state of the text model is typed: the document is at one of
\* its versions, and its saved state is a version given out (textFileModel.ts).
THEOREM BufferTyped == TFSpec => []TFTypeOK
<1>1. BufferInv => TFTypeOK
  BY DEF BufferInv, BaseInv
<1> QED BY <1>1, BufferInvariance, PTL

\* The text model implements the file service as its module has it: files and
\* queues change only by the operations of fileService.ts and by other programs.
THEOREM BufferUsesService == TFSpec => FSInit /\ [][FSNext]_fsVars
<1>1. TFInit => FSInit
  BY DEF TFInit
<1>2. BufferInv /\ [TFNext]_vars => [FSNext]_fsVars
  BY StepUsesService DEF BufferInv, BaseInv
<1> QED BY <1>1, <1>2, BufferInvariance, PTL DEF TFSpec

\* A plain save that passes the check of the write queue over a version of
\* another program was made on top of that version (textFileModel.ts:726-733),
\* if no program changes a file between its replacement and its closing stat.
THEOREM KnownIsOverwritten ==
    ASSUME ~SlowStat
    PROVE  TFSpec => SavesOverKnownVersions
<1>1. ASSUME BufferInv, [TFNext]_vars, NEW c \in Callers,
             call[c].pc = "queued", call'[c].pc = "checked"
      PROVE  Begin(c)
  <2>0. call \in [Callers -> Call]
    BY <1>1 DEF BufferInv, BaseInv, TFTypeOK, FSTypeOK
  <2>1. call \in [Callers -> Call] /\ IdleCall.pc = "idle"
    BY <2>0 DEF IdleCall
  <2>2. UserStep \/ handleExternalFileChange \/ OrphanCheck \/ UNCHANGED vars
           \/ (\E r \in Resources : World(r)) => call' = call
    BY DEF UserStep, Edit, Undo, Redo, MoveTo, revertToDisk, Save, SaveAs,
           handleExternalFileChange, OrphanCheck, vars, fsVars, World, ForeignRewrite,
           ForeignDelete, Del
  <2>3. PICK d \in Callers : SaveStep(d)
    BY <1>1, <2>2 DEF TFNext
  <2> HIDE DEF IdleCall
  <2>4. CASE BeginWrite(d)
    <3>1. call'[d].pc = "queued" /\ (c # d => call'[c] = call[c])
      BY <2>1, <2>4 DEF BeginWrite, WriteFile, Call
    <3> QED BY <1>1, <3>1
  <2>5. CASE Begin(d)
    BY <1>1, <2>1, <2>5 DEF Begin
  <2>6. CASE atomicReplacement(d) \/ Replace(d)
    <3>1. call[d].pc # "queued" /\ (c # d => call'[c] = call[c])
      BY <2>1, <2>6 DEF atomicReplacement, Replace, Call
    <3> QED BY <1>1, <3>1
  <2>7. CASE Settle(d)
    <3>1. call'[d].pc = "idle" /\ (c # d => call'[c] = call[c])
      BY <2>1, <2>7 DEF Settle
    <3> QED BY <1>1, <3>1
  <2> QED BY <2>3, <2>4, <2>5, <2>6, <2>7
          DEF SaveStep, WriteStep, Saved, SaveConflict, SaveFailed, StatWritten, Refuse, Fail
<1>2. ASSUME BufferInv, [TFNext]_vars, NEW c \in Callers,
             call[c].pc = "queued", call'[c].pc = "checked", ForeignUnder(c),
             save[c].kind = "save", save[c].base # NoStat
      PROVE  disk[call[c].resource].stamp = save[c].base
  <2>1. EtagAllows(c)
    BY <1>1, <1>2 DEF Begin
  <2>2. call[c].resource \in Resources
    BY <1>2 DEF BufferInv, BaseInv, Inv, FSTypeOK, Call
  <2> QED BY <1>2, <2>1, <2>2 DEF EtagAllows, ForeignUnder, BufferInv, ReadInv, GuardIsBase
<1>3. BufferInv /\ [TFNext]_vars
         => [\A c \in Callers :
               (call[c].pc = "queued" /\ call'[c].pc = "checked" /\ ForeignUnder(c)
                  /\ save[c].kind = "save" /\ save[c].base # NoStat)
                 => disk[call[c].resource].stamp = save[c].base]_vars
  BY <1>2
<1> QED BY <1>3, BufferInvariance, PTL DEF TFSpec, SavesOverKnownVersions

-----------------------------------------------------------------------------
(* The buffer and its file *)

LEMMA NoSaveAs == ASSUME Targets = {} PROVE TFSpec => ReloadsWhenSettled
<1>1. BufferInv => ~Moving
  BY DEF BufferInv, BaseInv, CallsMatch, Moving
<1>2. BufferInv /\ [TFNext]_vars => [~(Moving /\ Reload)]_vars
  BY <1>1
<1> QED BY <1>2, BufferInvariance, PTL DEF TFSpec, ReloadsWhenSettled

\* When no save runs, the path is settled.
LEMMA Settled == Paths /\ OneMove /\ NoSaveRuns => source = uri /\ watched = uri
  BY DEF Paths, Moving, NoSaveRuns

\* A clean buffer shows its file, after any order of edits, undos past a save,
\* saves with edits under way, Save As that succeed or fail, reloads and foreign
\* changes (textFileModel.ts): with one save at a time, and no load amid a Save As.
THEOREM CleanIsSynced ==
    ASSUME ~SlowStat, OneMove
    PROVE  TFSpec /\ ReloadsWhenSettled => []CleanMeansSynced
<1>1. BufferInv /\ PathInv => CleanMeansSynced
  <2> SUFFICES ASSUME BufferInv, PathInv, NoSaveRuns, ~isModified, ~conflict, ~event,
                      diskStat # NoStat, IsFile(uri)
               PROVE  doc.text = disk[uri].text
    BY DEF CleanMeansSynced
  <2>1. watched = uri
    BY Settled DEF PathInv
  <2>2. disk[uri].stamp = diskStat
    BY <2>1 DEF PathInv, SyncInv, MovedOnIsNoticed
  <2>3. pos \in 1..Len(history) /\ history[pos].id = saved
    BY DEF BufferInv, BaseInv, TFTypeOK, isModified, doc
  <2> QED BY <2>1, <2>2, <2>3 DEF PathInv, SyncInv, SavedTextOnDisk, doc
<1> QED BY <1>1, BufferInvariance, PathInvariance, PTL

\* Without Save As a clean buffer shows its file whatever else goes on, several
\* saves at a time included.
THEOREM CleanWithoutSaveAs ==
    ASSUME ~SlowStat, Targets = {}
    PROVE  TFSpec => []CleanMeansSynced
<1>1. OneMove
  BY DEF OneMove
<1> QED BY <1>1, CleanIsSynced, NoSaveAs, PTL

\* With one save at a time, a buffer is never in conflict with a version the
\* editor wrote (textFileModel.diskWatch.test.ts:197), across Save As too, unless
\* something is loaded amid one.
THEOREM ConflictsAreForeign ==
    ASSUME ~SlowStat, ~StatErrors, OneSave
    PROVE  TFSpec /\ ReloadsWhenSettled => []ConflictIsForeign
<1>1. BufferInv /\ PathInv => ConflictIsForeign
  <2> SUFFICES ASSUME BufferInv, PathInv, conflict, NoSaveRuns, IsFile(uri)
               PROVE  disk[uri].author = "other"
    BY DEF ConflictIsForeign
  <2>1. watched = uri
    BY Settled DEF PathInv, OneMove
  <2>2. \A c \in Callers : call[c].pc = "idle"
    BY DEF BufferInv, BaseInv, CallsMatch, NoSaveRuns
  <2>3. ~Replacing
    BY <2>2 DEF Replacing
  <2> QED BY <2>1, <2>3 DEF PathInv, ConflictInv, ConflictWithOther
<1> QED BY <1>1, BufferInvariance, PathInvariance, PTL

\* A failed Save As leaves the buffer what it was (textFileModel.ts:825): the text
\* is that of its path, with one save at a time and no load amid a Save As.
THEOREM FailedSaveAsRestores ==
    ASSUME OneMove
    PROVE  TFSpec /\ ReloadsWhenSettled => []BufferStaysWithItsFile
<1>1. PathInv => BufferStaysWithItsFile
  BY Settled DEF PathInv, BufferStaysWithItsFile
<1> QED BY <1>1, PathInvariance, PTL
=============================================================================

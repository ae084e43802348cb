---------------------------- MODULE TextFileModel ----------------------------
(***************************************************************************)
(* A text buffer bound to a file (textFileModel.ts, textEditorModel.ts)    *)
(* over the file service: the snapshot of the file it was read from        *)
(* (diskStat), the disk conflict, the orphaned state, saves that wait for  *)
(* participants and then for the write queue, Save As, reloads by the      *)
(* watcher - while the user types and programs outside the editor change   *)
(* the file.                                                               *)
(*                                                                         *)
(* A file in memory, read synchronously, with a `file:` uri. The document  *)
(* on disk, streaming, encodings, provider resources and untitled buffers  *)
(* are not in this module.                                                 *)
(***************************************************************************)
EXTENDS FileService

CONSTANTS
    Commands,     \* what the user does: a subset of UserCommands
    Targets,      \* the paths Save As may be asked for
    ForeignPaths, \* the files that change behind the editor's back
    SlowStat,     \* whether that may happen between a replacement and its closing stat
    StatErrors,   \* whether a closing stat may fail though the file is there
    NoStat,       \* diskStat of a buffer whose file was missing: null
    MaxVersion    \* bound: the user's edits and reverts end at this version

UserCommands == {"edit", "undo", "save", "overwrite", "revert"}

\* Texts are numbers: the empty buffer, those the world writes (the stamp of
\* the version) and those the user types (MaxClock and the version typed).
Empty == 0

ASSUME TextFileModelAssumption ==
    /\ Commands \subseteq UserCommands
    /\ Targets \subseteq Resources /\ ForeignPaths \subseteq Resources
    /\ SlowStat \in BOOLEAN /\ StatErrors \in BOOLEAN
    /\ MaxVersion \in Nat
    /\ NoStat \notin Nat
    /\ Texts = 0..(MaxClock + MaxVersion)
    /\ Atomics = {TRUE} /\ Linkings = {FALSE}

VARIABLES
    uri,         \* uriValue
    history,     \* the document and what undo and redo reach: versions, oldest first
    pos,         \* the version the document is at
    version,     \* the last version id given out
    saved,       \* savedAlternativeVersionId
    diskStat,    \* the stamp of the version read or written last, or NoStat
    base,        \* the stamp of the version the text was last loaded from (ghost)
    source,      \* the file the text was last loaded from or saved to (ghost)
    conflict,    \* diskConflictValue
    orphaned,    \* orphanedValue
    orphanCheck, \* whether the orphan timer is set
    watched,     \* the path fileWatch is on
    event,       \* whether the watcher has a notification to deliver
    save         \* Callers -> the save or saveAs in progress

documentVars == <<history, pos, version, saved>>
diskVars     == <<diskStat, base, source, conflict, orphaned>>
watchVars    == <<orphanCheck, watched, event>>
modelVars    == <<uri, documentVars, diskVars, orphanCheck, watched, save>>
vars         == <<fsVars, modelVars, event>>

Stamps == Nat \cup {NoStat}
Saving == [pc : {"none", "participants", "writing"}, kind : {"save", "overwrite", "saveAs"},
           target : Resources, previous : Resources, version : Nat, base : Stamps]
NoSave == [pc |-> "none", kind |-> "save", target |-> CHOOSE r \in Resources : TRUE,
           previous |-> CHOOSE r \in Resources : TRUE, version |-> 0, base |-> NoStat]

TFTypeOK ==
    /\ FSTypeOK
    /\ uri \in Resources /\ source \in Resources /\ watched \in Resources
    /\ history \in Seq([id : Nat, text : Texts]) /\ pos \in 1..Len(history)
    /\ version \in Nat /\ saved \in 0..version
    /\ diskStat \in Stamps /\ base \in Stamps
    /\ {conflict, orphaned, orphanCheck, event} \subseteq BOOLEAN
    /\ save \in [Callers -> Saving]

doc == history[pos]
isModified == doc.id # saved

\* Mutants: the watcher misses changes, deletions, creations.
NoChange(path)   == event' = (event \/ (disk'[path] # disk[path]
                                          /\ (~IsFile(path) \/ disk'[path] = Absent)))
NoUnlink(path)   == event' = (event \/ (disk'[path] # disk[path] /\ disk'[path] # Absent))
NoAdd(path)      == event' = (event \/ (disk'[path] # disk[path] /\ IsFile(path)))

\* chokidar notices every change of the watched path; notifications coalesce.
Notice(path) == event' = (event \/ disk'[path] # disk[path])

-----------------------------------------------------------------------------
(* Reading the file *)

\* Mutant: any file on disk counts as changed, our own write too.
AnyFile(path) == diskStat # NoStat /\ IsFile(path)

\* The version the text was read with, when the file has moved on from it.
changedFrom(path) == diskStat # NoStat /\ IsFile(path) /\ disk[path].stamp # diskStat

\* loadDocumentFromDisk of a file in memory: the text is replaced, the undo
\* history is gone, the buffer is clean. A missing file reads as empty.
Load(path, wasOrphaned) ==
    LET text  == IF IsFile(path) THEN disk[path].text ELSE Empty
        stamp == IF IsFile(path) THEN disk[path].stamp ELSE NoStat
    IN  /\ version' = version + 1
        /\ history' = <<[id |-> version + 1, text |-> text]>>
        /\ pos' = 1
        /\ saved' = version + 1
        /\ diskStat' = stamp /\ base' = stamp /\ source' = path
        /\ conflict' = FALSE
        /\ orphaned' = (wasOrphaned /\ ~IsFile(path))

revertToDisk ==
    /\ "revert" \in Commands /\ version < MaxVersion
    /\ Load(uri, orphaned)
    /\ UNCHANGED <<fsVars, uri, watchVars, save>>

\* appendInMemory: the file grew after the bytes that were read (not written:
\* a write leaves no inode to compare), and the buffer takes the tail as an edit
\* of its own. Undo and redo check the version and reach nothing before it; a
\* conflict stays.
Follow(path) ==
    /\ base = diskStat
    /\ version' = version + 1
    /\ history' = <<[id |-> version + 1, text |-> disk[path].text]>>
    /\ pos' = 1
    /\ saved' = version + 1
    /\ diskStat' = disk[path].stamp /\ base' = disk[path].stamp /\ source' = path
    /\ orphaned' = FALSE
    /\ UNCHANGED conflict

\* The watcher reports the path it was started for; a reload reads the path
\* the buffer has now. Whether a changed file has only grown is not in its
\* version: either may be the case.
handleExternalFileChange ==
    /\ event
    /\ event' = FALSE
    /\ IF ~IsFile(watched)
         THEN /\ orphanCheck' = (orphanCheck \/ (~orphaned /\ diskStat # NoStat))
              /\ UNCHANGED <<documentVars, diskVars>>
         ELSE /\ orphanCheck' = FALSE
              /\ IF ~changedFrom(watched)
                   THEN orphaned' = FALSE /\ UNCHANGED <<diskStat, base, source, conflict>>
                                          /\ UNCHANGED documentVars
                 ELSE IF isModified
                   THEN conflict' = TRUE /\ orphaned' = FALSE
                        /\ UNCHANGED <<documentVars, diskStat, base, source>>
                 ELSE Follow(watched) \/ Load(uri, FALSE)
    /\ UNCHANGED <<fsVars, uri, watched, save>>

\* The timer of scheduleOrphanCheck.
OrphanCheck ==
    /\ orphanCheck
    /\ orphanCheck' = FALSE
    /\ orphaned' = (orphaned \/ ~IsFile(watched))
    /\ UNCHANGED <<fsVars, uri, documentVars, diskStat, base, source, conflict, watched, event, save>>

-----------------------------------------------------------------------------
(* The user, and save participants, edit the document *)

Edit ==
    /\ "edit" \in Commands /\ version < MaxVersion
    /\ version' = version + 1
    /\ history' = Append(SubSeq(history, 1, pos),
                         [id |-> version + 1, text |-> MaxClock + version + 1])
    /\ pos' = pos + 1
    /\ UNCHANGED <<fsVars, uri, saved, diskVars, watchVars, save>>

\* Undo and redo bring the alternative version back with the text.
\* Mutant: no check that there is a step to take.
MoveAnywhere(step) ==
    /\ "undo" \in Commands
    /\ pos' = step
    /\ UNCHANGED <<fsVars, uri, history, version, saved, diskVars, watchVars, save>>

MoveTo(step) ==
    /\ "undo" \in Commands
    /\ step \in 1..Len(history)
    /\ pos' = step
    /\ UNCHANGED <<fsVars, uri, history, version, saved, diskVars, watchVars, save>>

Undo == pos > 1 /\ MoveTo(pos - 1)
Redo == MoveTo(pos + 1)

-----------------------------------------------------------------------------
(* Saving *)

Start(c, kind, target) ==
    save' = [save EXCEPT ![c].pc = "participants", ![c].kind = kind,
                         ![c].target = target, ![c].previous = uri]

\* save up to its first await. Without participants the write starts in the
\* same tick, which is the step BeginWrite taken at once.
Save(c, kind) ==
    /\ kind \in Commands /\ save[c].pc = "none"
    /\ IF kind = "save" /\ changedFrom(uri)
         THEN conflict' = TRUE /\ UNCHANGED save
         ELSE Start(c, kind, uri) /\ UNCHANGED conflict
    /\ UNCHANGED <<fsVars, uri, documentVars, diskStat, base, source, orphaned, watchVars>>

\* saveAs takes the new path at once.
SaveAs(c, target) ==
    /\ target \in Targets \ {uri} /\ save[c].pc = "none"
    /\ Start(c, "saveAs", target)
    /\ uri' = target
    /\ UNCHANGED <<fsVars, documentVars, diskVars, watchVars>>

\* Mutant: the write goes unguarded.
Unguarded(c) == IF save[c].pc = "none" THEN diskStat ELSE NoEtag

\* The guard of a write: the version known, unless the user forces the write.
Guard(c) == IF save[c].kind = "save" /\ diskStat # NoStat THEN diskStat ELSE NoEtag

\* The participants are done, or timed out: snapshot of the document and of
\* the guard.
BeginWrite(c) ==
    /\ save[c].pc = "participants"
    /\ save' = [save EXCEPT ![c].pc = "writing", ![c].version = doc.id, ![c].base = base]
    /\ WriteFile(c, uri, doc.text, Guard(c), TRUE)
    /\ UNCHANGED <<uri, documentVars, diskVars, watchVars>>

\* A step of the write queue on the way.
WriteStep(c) ==
    /\ Begin(c) \/ atomicReplacement(c) \/ Replace(c)
    /\ Notice(watched)
    /\ UNCHANGED modelVars

\* The step that settles the write. Its continuation in the model runs before
\* anything else of the editor.
EndSave(c) == save' = [save EXCEPT ![c] = NoSave]

\* Mutant: the state of the document when the write ends counts as saved.
StateAtEnd(c) == IF save[c].pc = "writing" THEN doc.id ELSE saved

SavedState(c) == save[c].version

\* Mutant: Save As keeps watching the old path.
KeepWatch(c) == save[c].pc = "writing" /\ UNCHANGED watchVars

\* startWatchingFile, after a Save As.
Rewatch(c) ==
    IF save[c].kind = "saveAs"
      THEN watched' = save[c].target /\ event' = FALSE /\ orphanCheck' = FALSE
      ELSE UNCHANGED watchVars

\* The write succeeded: the snapshot is the saved state, the answer of the
\* closing stat is the version known.
Saved(c) ==
    /\ StatWritten(c) /\ EndSave(c)
    /\ saved' = SavedState(c)
    /\ diskStat' = disk[call[c].resource].stamp
    /\ source' = call[c].resource
    /\ conflict' = FALSE /\ orphaned' = FALSE
    /\ Rewatch(c)
    /\ UNCHANGED <<uri, history, pos, version, base>>

\* The guard of the write queue refused it.
SaveConflict(c) ==
    /\ Refuse(c) /\ EndSave(c)
    /\ conflict' = TRUE
    /\ UNCHANGED <<uri, documentVars, diskStat, base, source, orphaned, watchVars>>

\* The write threw: saveAs takes the old path back, even if the closing stat is
\* what threw.
SaveFailed(c) ==
    /\ Fail(c) /\ EndSave(c)
    /\ StatErrors \/ call[c].pc # "replaced" \/ ~IsFile(call[c].resource)
    /\ uri' = IF save[c].kind = "saveAs" THEN save[c].previous ELSE uri
    /\ UNCHANGED <<documentVars, diskVars, watchVars>>

-----------------------------------------------------------------------------
(* The specification *)

World(r) ==
    /\ r \in ForeignPaths
    /\ SlowStat \/ \A c \in Callers : call[c].pc # "replaced" \/ call[c].resource # r
    /\ ForeignRewrite(r, clock + 1, FALSE) \/ ForeignDelete(r)
    /\ Notice(watched)
    /\ UNCHANGED modelVars

\* openFile of an existing or a missing file, among files not there yet.
TFInit ==
    /\ FSInit
    /\ uri \in Resources
    /\ \A r \in Resources : IsFile(r) => r = uri /\ disk[r].text = Empty
    /\ history = <<[id |-> 0, text |-> Empty]>> /\ pos = 1 /\ version = 0 /\ saved = 0
    /\ diskStat = IF IsFile(uri) THEN 0 ELSE NoStat
    /\ base = diskStat /\ source = uri /\ watched = uri
    /\ conflict = FALSE /\ orphaned = FALSE /\ orphanCheck = FALSE /\ event = FALSE
    /\ save = [c \in Callers |-> NoSave]

UserStep ==
    \/ Edit \/ Undo \/ Redo \/ revertToDisk
    \/ \E c \in Callers :
           \/ \E kind \in {"save", "overwrite"} : Save(c, kind)
           \/ \E target \in Resources : SaveAs(c, target)

SaveStep(c) ==
    BeginWrite(c) \/ WriteStep(c) \/ Saved(c) \/ SaveConflict(c) \/ SaveFailed(c)

TFNext ==
    \/ UserStep
    \/ \E c \in Callers : SaveStep(c)
    \/ handleExternalFileChange
    \/ OrphanCheck
    \/ \E r \in Resources : World(r)

\* Participants are bounded by a timeout, the event loop runs every started
\* write, every timer and every notification.
TFFairness ==
    /\ \A c \in Callers : WF_vars(SaveStep(c))
    /\ WF_vars(handleExternalFileChange)
    /\ WF_vars(OrphanCheck)

TFSpec == TFInit /\ [][TFNext]_vars /\ TFFairness

-----------------------------------------------------------------------------
(* Properties *)

NoSaveRuns == \A c \in Callers : save[c].pc = "none"

\* A plain save that passes its check over a version of another program has
\* that version under its snapshot: the user's edits were made on top of it.
\* Reloads, reverts and other saves between the snapshot and the check do not
\* break this (textFileModel.ts:726-733).
ForeignUnder(c) ==
    LET r == call[c].resource IN IsFile(r) /\ disk[r].author = "other"

SavesOverKnownVersions ==
    [][\A c \in Callers :
          (call[c].pc = "queued" /\ call'[c].pc = "checked" /\ ForeignUnder(c)
             /\ save[c].kind = "save" /\ save[c].base # NoStat)
            => disk[call[c].resource].stamp = save[c].base]_vars

\* A clean buffer that is not in conflict shows its file, once the
\* notifications are delivered and no save runs: after any order of edits,
\* undos past a save, saves that took their snapshot before later edits,
\* reloads and foreign changes.
CleanMeansSynced ==
    (~isModified /\ ~conflict /\ NoSaveRuns /\ ~event /\ diskStat # NoStat /\ IsFile(uri))
        => doc.text = disk[uri].text

\* A conflict at rest is with a version that this editor did not write
\* ("ignores its own writes", textFileModel.diskWatch.test.ts:197).
ConflictIsForeign ==
    conflict /\ NoSaveRuns /\ IsFile(uri) => disk[uri].author = "other"

\* A failed Save As leaves the buffer what it was (textFileModel.ts:825): text
\* and diskStat are never those of a path the buffer does not have.
BufferStaysWithItsFile == NoSaveRuns => source = uri

\* A foreign change under a known version ends in a reload, in a conflict the
\* user sees, or in a save the user forced.
ForeignChangesNoticed == changedFrom(uri) ~> (conflict \/ ~changedFrom(uri))

\* A file that is gone for good is shown as deleted, whatever saves, reloads
\* and orphan checks were under way; one that is back is not.
DeletedIsOrphaned == <>[](~IsFile(uri) /\ diskStat # NoStat) => <>[]orphaned
PresentIsNotOrphaned == <>[]IsFile(uri) => <>[]~orphaned
=============================================================================

# Formal models of Diode

Diode is a terminal editor after VS Code: layers `base → platform → editor →
workbench → diode`, one process per window, extensions in a subprocess, the disk
shared with every other program. Paths below are under `src/vs/` of the
repository. The models are TLA+ modules checked by TLC on small instances; the
theorems are proved by TLAPS for every value of the constants.

## 1. The system

### Components

| Component | State it keeps | Operations | What is hard | What makes it correct |
|---|---|---|---|---|
| File service, disk provider (`platform/files`) | a promise chain per resource | write with etag guard, atomic replacement or in place, move, copy, delete | awaits between check, replacement and stat; other programs; crashes | writes of a resource never overlap; a guard holds until the replacement; every write settles; no torn file except in place |
| Text file model (`workbench/services/textfile`) | `diskStat`, conflict, orphaned, watcher, timers, uri | open, save, forced save, Save As, revert, external change, follow | saves that wait for participants and the queue while the user types and the file changes | clean means equal to the file; a plain save destroys no version that was not read; every foreign change is noticed |
| Base editor model, undo manager (`workbench/common/editor`, `editor/common/model`) | document, versions, saved version, undo and redo steps | edit, undo, redo, replace text, mark saved | undo past a save, history after a reload | modified exactly when the text differs from the saved one |
| Undo and redo service (`platform/undoRedo`) | a bucket per editor, steps over several buckets | push, adopt, undo, redo, clear | steps of several documents; undo that asks the disk; closed and reloaded buffers | a step is undone whole or not at all, once, in order; broken steps are not undone |
| UI state stores (`platform/state`) | the values, a dirty flag, a timer | store, remove, open, flush, dispose | asynchronous writes against synchronous flushes; exit; workspace switch | nothing stored is lost, nothing lands in another workspace's file |
| Watchers of files and trees (`platform/files/node`) | chokidar watches; a subprocess with subscriptions | watch, re-arm, restart | coalesced and lost events, late exits | a change of a watched file ends in a notification |
| Workspace edits (`workbench/contrib/bulkEdit`) | an edit over several files and its inverse | apply, roll back, undo | partial failure | all files or none |
| Editors, groups, closing (`workbench/services/editor`), models without a tab (`workbench/services/textfile`) | tabs, the active and the preview tab of a group, open questions, models that extensions hold | open, pin, close a series, confirm, hold, expire | answers, failing saves and other requests while a series waits; one document in several tabs, diffs and extensions | no edit is lost that the user did not refuse; whoever waits for an answer gets one; only named tabs close |
| Lifecycle of the window (`workbench/services/lifecycle`) | participants, phases | request shutdown, veto, shutdown, join with timeout | dirty items change while earlier ones are asked about | the window leaves no edits behind |
| Extension host (`workbench/services/extensions`) | phases of extensions, the journal of events, the subprocess, activations under way, stubs of commands | register, remove, activate, search a workspace, death, revival, restart, dispose | activations under way when the subprocess dies, restarts or never gets ready; dependencies | none is forgotten, each is activated at most once in a subprocess, what is active runs, commands stay reachable |
| Extension management | directories, leases, marks | install, remove, clean up | several processes without a lock | no loaded extension is deleted |
| Piece tree, document on disk, search, language features, configuration, themes, terminal, user interface | - | - | data structures, parsing, presentation | unit and property tests |

### How they interact

The text file model calls the file service for each write and awaits it; it
reads and stats the file synchronously. The watcher calls the model back with no
payload: the model stats the file and compares with `diskStat`. A reload clears
the buffer's bucket in the undo service, an opened file adopts the steps that
touched it, a closed buffer clears its bucket. Save participants (format on
save, extensions) edit the document before a save takes its snapshot. The state
stores know nothing of the rest: services store values, the window opens another
workspace's file, shutdown and `process.on("exit")` flush.

Tabs and diff sides refer to models by file; an extension may hold a model
without a tab. Closing a tab asks the user through the one save dialog of the
window, saves or discards, and then closes; a request to shut down asks about
every dirty item the same way. Extensions open and close tabs and edit documents
on their own. The extension host is told of activation events by the window and
by the stubs of commands, and sends each activation to its subprocess.

All of this runs on one event loop: a step of a model is the code between two
awaits, callbacks or timers. Other programs, the disk and the death of the
process come between any two steps.

## 2. The modules

| Module | Models | Uses |
|---|---|---|
| `FileService` | `fileService.ts`, `diskFileSystemProvider.ts` | |
| `GuardedWrites` | abstract: what the file service promises | |
| `MCFileService` | TLC instance and refinement mapping `ImplementsPromise` | `FileService`, `GuardedWrites` |
| `TextFileModel` | `textFileModel.ts`, `textEditorModel.ts`, `undoManager.ts`, over the file service | `FileService` |
| `MCTextFileModel` | TLC instance | `TextFileModel` |
| `UndoRedo` | `undoRedoService.ts` | |
| `MCUndoRedo` | TLC instance, symmetry and view | `UndoRedo` |
| `StateFileStore` | `StateFileStore` of `stateService.ts` | |
| `MCStateFileStore` | TLC instance | `StateFileStore` |
| `ExtensionHost` | `extensionHost.ts`, `extensionPhases.ts`, `extensionHostProcess.ts`, the stubs of `commandsCustomer.ts`; refines `ExtensionPromise` (`KeepsPromise`) | `ExtensionPromise` |
| `ExtensionPromise` | abstract: what the host promises of an extension | |
| `MCExtensionHost` | TLC instance | `ExtensionHost` |
| `EditorClosing` | `editorCloseHandler.ts`, closing and opening in `editorService.ts` and `editorGroupModel.ts`, `boundModelReferences.ts`, the save dialog, `requestShutdown` | |
| `MCEditorClosing` | TLC instance, symmetry | `EditorClosing` |
| `FileServiceProofs`, `StateFileStoreProofs`, `UndoRedoProofs`, `ExtensionHostProofs`, `EditorClosingProofs` | theorems | the component, `TLAPS` |
| `GuardedWritesProofs` | the refinement of `GuardedWrites` as a theorem | `MCFileService`, `FileServiceProofs` |
| `ExtensionPromiseProofs` | the refinement of `ExtensionPromise` as a theorem | `ExtensionHostProofs` |
| `TextFileModelProofs` | theorems | `TextFileModel`, `FileServiceProofs` |

Operators named "Mutant" in a comment are faulty variants of the definition they
stand before. Nothing uses them; substituted for that definition, each one makes
a named property fail, which shows that the property can tell.

### FileService

`disk` is the file system, with a stamp per version. The code compares mtime and
size; a stamp stands for the pair, so two versions with the same mtime and size
are outside the model. `queue[r]` is the chain of `FileService.queue`; `call[c]`
is one call with its program counter:

`queued` → (`Begin`: stat and etag check) → `checked` → (`atomicReplacement`: the
provider looks at the file with `lstat`) → `renaming` or `inPlace`; `renaming` →
(`Replace`: rename of the temporary file) → `replaced` → (`StatWritten`) → `idle`;
`inPlace` → `Truncate` → `torn` → `Fill` → `replaced`. Other programs come between
any two of these: a file that became a link after the look is replaced by a plain
one, one that ceased to be a link is truncated all the same. `Refuse` is the
`ModifiedSince` error, `Fail` any other, at any step, the closing stat included;
both let the queue go on. The guard of a
write is any earlier version (`KnownEtags`): the caller may have read it long ago.
A write in place goes on in the file it has open, even if that was moved (`Fill`). `move` and
`copy` check the target, await, and act, without the queue. `author` and the
`stamp` of a call are only there for the properties and for `Fill`.

`GuardedWrites` forgets program counters, temporary files and stats: writes are
pending in order and take effect one at a time, in one step or by tearing and
filling the file in place. That a pending write goes in place is a step of the
promise (`GoInPlace`), allowed if its caller asked for no atomicity or if there is a
link at its path in that step. It promises no more: an atomic write may tear a plain
file, if that was a link when the write was the next one.

### TextFileModel

It extends `FileService`: a save is a call of it. `history`, `pos` and `saved`
are the document, its undo and redo steps and `savedAlternativeVersionId`;
`isModified` compares versions as the code does. `Load` is
`loadDocumentFromDisk` of a file in memory, `Follow` is `appendInMemory`: the
buffer takes the tail as an edit with a new version, after which `canRedoStep`
refuses what was undone before, so nothing before it is reachable.
`handleExternalFileChange` is the watcher's callback for `watched`, the path the
watch was started for, which differs from `uri` while Save As is under way.
`Save` and `SaveAs` run to their first await, `BeginWrite` takes the snapshot and
the guard, `Saved`, `SaveConflict` and `SaveFailed` are the continuations. `base`
and `source` are ghosts: the version and the path the text came from.

`event` says whether the watcher still has something to deliver. It stands for
chokidar and its coalescing timer (`Notice`): every change of the watched path
is noticed, in the end. `StatErrors` says whether a closing stat may fail though the
file is there: the save then throws, and the written version is not known.

### UndoRedo

Buckets are `Contexts`; a key is used for one editor and never again. A step is
its push order. `participants`, `owners` (participants with an edit of their
own) and `broken` are `WorkspaceElementState`. `Move` is an undo or redo whose
step answers at once, `Ask` and `Answer` one that asks the disk; only steps over
files do, so `Ask` is for steps of several documents and for the workspace's
bucket. `Clear` is `clear` with `leave` of every step, `TruncatedRedo` and
`DroppedElsewhere` are `truncateRedo` and `dropFromRedo`.

### StateFileStore

A value is a number, the store the set of values in it. An asynchronous write
has three operations (mkdir, open with truncation, write), and the data is
serialized after the first, as in the code. A file may be `Truncated`, or
`Mixed` when two writes overlap; neither parses. `Shutdown` and `Exit` are the two
flushes of an exit, between which no callback runs but the thread pool may still
finish an operation (`LandsLate`). `open` reads the other file, or fails to and
starts empty (`unread`). Three ghosts are for the properties: `home`, the file that
was open when a value was stored; `crowded`, that a write began, a workspace opened
or an exit came while a write was under way; `crossed`, that a workspace opened while
a write was making its directory.

### ExtensionHost

An extension id may be registered again after its removal; `entry` numbers the
registrations and stands for the identity of the registration object, which the
code compares. `known`, `pending` and `active` are the maps of `ExtensionPhases`.
`Taken` is `takePending` over a registration and, transitively, its dependencies,
all in one synchronous run; `StartAll` starts their activations. `acts` are the
promises in `activating`: not yet `sent` while dependencies are awaited, `sent`
while `activate()` runs in subprocess `spawn`. `waiting` are calls that await
`readyPromise`, `replays` are `replayJournal` calls with the activations they
await, `passDue` says which of them, or a restart, goes on with the pass over the
folders. `Exit` is the end of a subprocess: of the current one a death
(`armRevival`), of one that `restartForWorkspaceChange` or `dispose` is shutting
down the expected end. Its continuations (rejections, `returnInterrupted`, the end
of a replay) are steps of their own, before any other callback (`Settled`).
`Ready` resolves or rejects the readiness, by an answer or by the timeout.

Removing an active extension only sends `host.deactivateExtension`: the registration
is in `leaving` until the answer (`Deactivated`), and its proxies go with
`commands.unregisterCommand` before or after that, or never. When the id is
registered again meanwhile, `arm` adds no stub to the live proxy; the ghost
`overtaken` holds such registrations until they are activated.

The last subprocess of the bound neither dies nor restarts (`Spare`), so that the
bound itself never leaves an extension without one. The ghosts `failed` and
`retried` say which registrations failed by their own fault, and which had an
activation interrupted; a removal takes its registration out of the ghosts. Whether
a subprocess that is gone had been ready is not kept: no call can ask any more.

`ExtensionPromise` forgets all of it: an extension waits, is active or failed,
what failed stays failed, and what is active ends by removal or with all others.

### EditorClosing

A document is one model with a text `version` and a `saved` text; the registry
has one model per file, alive while a tab, a diff side or an extension refers to
it (`Live`). A tab is a pane of `Panes`, used once; `shows` are its documents.
`closeEditors` is one call of `confirmAndClose`; its loop over the tabs is
`TakeClean` (a tab without a question), `TakeDirty` (the deferred tab closes, the
question opens or is joined, the loop awaits), `Confirmed` or `Vetoed` (the await
ends) and `LoopEnds`. The tabs of a call are a set: the loop takes them in any
order, as callers pass any. `turn` is the call whose loop runs, so that nothing
else comes in between. `stage`, `targets` and `dialog` are the open questions, the
save targets and the one `ConfirmSaveDialog`, whose callbacks belong to who asked
last. `requestShutdown` collects `IShutdownDirtyItem`s once and asks about one
after the other, checking `isStillDirty` before each. `declined` is a ghost: the
text of a document that the user last refused to save.

What the strip does with order and recency is one choice: when the active tab
closes, any other tab of the group may follow (`follows`).

## 3. What is checked

| Run | Shows | Bounds |
|---|---|---|
| `file_service` | `WritesDoNotInterleave`, `GuardHoldsUntilReplace`, `EveryWriteSettles`, refinement of `GuardedWrites` | 2 files, 2 callers, 1 text, 2 changes of files, links and plain files |
| `textfile_saves` | `CleanMeansSynced`, `SavesOverKnownVersions` | 1 file, 2 overlapping saves, 3 changes of the file, 2 edits |
| `textfile_watch` | `ConflictIsForeign`, `CleanMeansSynced`, `SavesOverKnownVersions`, `ForeignChangesNoticed`, `DeletedIsOrphaned`, `PresentIsNotOrphaned`, across Save As | 2 files of which a foreign program changes the second, 1 save at a time, no revert, 3 changes, 2 edits |
| `undo_redo` | `OnlyParticipantsHoldSteps`, `RedoneEverywhere`, `UndoneOrRedone`, `PushOrderKept` | workspace and 2 editors, 2 steps, 2 waiting requests |
| `state_store` | `TimerSeesItsFile`, `OwnFileOnly`, `UncrowdedFlushIsDurable`, `QuietAfterDispose`, `StoresReachDisk` | 2 workspaces, 2 overlapping writes, 2 values, 1 failure |
| `ext_host` | `NoneForgotten`, `ActiveRuns`, `HeardIsPickedUp`, `ActivatedOnce`, `CommandsReachable`, `DisposedStaysDown`, `DependenciesFirst`, `RestartRevives`, refinement of `ExtensionPromise` | 2 extensions, b depends on a and searches the workspace, 2 events, a may be registered twice, 3 subprocesses |
| `editor_closing` | `NothingLostUnasked`, `QuestionsStand`, `RefusedEditsEnd`, `OnlyNamedClose` | 2 documents, 2 groups, 3 tabs, 2 calls of `closeEditors`, 1 edit of each document |
| `textfile_failed_saveas`, `undo_broken`, `state_flush`, `ext_crash_loop`, `close_all` | a disagreement of the code with what it says of itself, section 4 | as above, smaller |

The type invariants (`FSTypeOK`, `TFTypeOK`, `TypeOK`) are checked with them.

Why the bounds are enough. What can go wrong is between two actors: two writes,
a save and a reload, two waiting undos, two workspaces; each bound has two of
what interacts, and one more change of the file than is needed to go from a read
version to a foreign one and over it. `MaxClock` bounds the changes of
files, `MaxVersion` the user's edits and reverts, `MaxSteps` the pushed steps,
`MaxItems` the stored values, `MaxFailures` the failures of the disk. The undo
service was also checked once with three steps and one request.
Three subprocesses are one that dies, one that is restarted or dies again, and
the spare one; two extensions of which one depends on the other are enough for a
dependency that fails, dies or is taken by another call. Three tabs over two
documents and two groups give a series that waits with a tab left over while
another tab of the same document closes or opens; one edit is enough to be lost.

`CHECK_DEADLOCK FALSE` in all runs but `ext_host`: the user may stop doing things,
and bounded counters end every behaviour. In `ext_host` deadlock is checked; a
state in which nobody could go on, an activation waiting for nothing, would be
reported.

`undo_redo` runs with a view: what is known of a step that is in no bucket and
in no request is dropped from the state. The code keeps that in a `WeakMap` keyed
by the step and can no longer reach it; no action reads it. Symmetry is over
editors and requests, over the callers in `textfile_saves`, and over documents,
groups and calls in `editor_closing` (not tabs, which are picked in an order), runs
of invariants and action properties only; the runs with liveness use none.

### Environment

- `SlowStat = FALSE` in the runs of the text file model: no other program changes
  a file between its replacement by a save and the closing stat of that save
  (`fileService.ts:144-145`). With `SlowStat = TRUE` `CleanMeansSynced` fails: the
  foreign version is taken for the one just saved, is never shown, and the next
  save destroys it.
- `StatErrors = TRUE` in `textfile_saves`, `FALSE` in `textfile_watch`. With `TRUE`
  there `ConflictIsForeign` fails: after a closing stat that failed the editor does
  not know its own version, and the watcher takes it for a foreign one.
  `CleanMeansSynced` fails too, but only by a reload amid a Save As (below).
- The bytes and the stat of a synchronous read are of one version.
- `ConflictIsForeign` is checked with one save at a time. Two saves are queued with
  one etag; the second is refused by the version of the first, and the conflict
  stays though only the editor wrote.
- No revert in `textfile_watch`: a revert or reload while a Save As is under way
  loads the new path (`uri` is set first), and when the Save As then fails, the
  clean buffer differs from its file. It is the disagreement of
  `textfile_failed_saveas` by another way; that there is no third one is proved
  (section 5).
- `Busy = FALSE` in `ext_host`: no restart and no removal of an extension while an
  activation of it is under way. With `Busy = TRUE` `NoneForgotten` and `ActiveRuns`
  fail (section 4).
- `Beside = FALSE` in `editor_closing`: no group shows one document twice, be it in
  a tab and in a diff or as a side of two diffs; `close_all` shows what happens
  with a tab and a diff. `Overlap = FALSE`: a
  request comes while no other one asks or saves, except a repeated close of the
  same tab. Modal dialogs see to that for the user's mouse and keys, not for
  extensions, nor while a save runs. With `TRUE` `QuestionsStand` fails.
  `LateEdits = FALSE`: nothing is typed between a question and the close or exit
  that follows, but an extension may edit the document the question names. With
  `TRUE` `NothingLostUnasked` fails (section 4).
- `HeardIsPickedUp` and `RestartRevives` leave out extensions whose subprocess
  never got ready and those interrupted while they waited for dependencies;
  `CommandsReachable` leaves out extensions that had an activation refused or
  interrupted, and registrations that overtook the leave of an earlier one
  (`overtaken`). The code drops them, section 4.
- Three properties of `state_store` end with what the code does amid a write, however
  fast the disk is. `OwnFileOnly` ends when a workspace opens while a write makes its
  directory (`crossed`): that write then serializes the new workspace's values into
  the old file (`stateService.ts:119-121`). `UncrowdedFlushIsDurable` and
  `StoresReachDisk` end when a write began, a workspace opened or an exit came amid a
  write (`crowded`): an exit loses what is under way (`state_flush`), and two writes
  of one file may leave the older values or no JSON. The other properties hold
  throughout.

### Fairness

Weak fairness of the steps the event loop runs when they are ready: the next
step of a started write (`FSFairness`), of a save, whose participants are cut
off by a timeout (`raceSaveParticipantTimeout`), of a notification and of the
orphan timer (`TFFairness`); of the debounce timer and of the operations of the
disk, which end by success or failure (`Fairness`). In `ExtensionHost` the
continuations of settled promises, the readiness of a subprocess, which a timeout
bounds, and the end of a subprocess that is being shut down, which signals bound;
nothing bounds `activate()`, so an activation may go on for ever. In
`EditorClosing` continuations and saves; nobody has to answer a question. Neither
the user nor another program is ever forced to act.

## 4. Where the code and its words disagree

- `textfile_failed_saveas`: a save that waits for participants during a Save As
  writes to the new path. When Save As fails, the buffer has its old path, is
  clean, and its old file lacks the edits.
- `undo_broken`: after the question to the disk only the position of the step is
  checked again, not whether the step was broken meanwhile.
- `state_flush`: an asynchronous write clears the dirty flag when it starts, so
  a flush at exit does nothing while it is under way.

- `ext_crash_loop`: the subprocess dies during an activation that a replay of the
  journal awaits. The interrupted activations resolve, the replay goes on to the
  pass over the folders, finds `replayPending` set by the death and starts the
  next subprocess at once, with no event, where the revival is said to be lazy to
  avoid a crash loop (`extensionHost.ts:311`).
- `close_all`: a group has a tab and a diff of one modified file, and both are
  closed in one series. The active one is deferred and still counts as a holder,
  so neither is asked about, both close, and the edits are gone.

Not stated as a run, and seen while modelling:

- Text file model: two saves queued with one etag (`textFileModel.ts:738`); a
  foreign write before the closing stat (`fileService.ts:145`); see the environment
  in section 3. `appendInMemory` keeps the redo history (`textEditorModel.ts:311-313`
  says the history stays), but bumps the version that `canRedoStep` compares, so
  that history can no longer be used.
- Extension host, restarts amid activations: a late success of the old subprocess
  marks the extension active in the new one; an activation that was interrupted
  goes back to pending after an event has consumed `replayPending`
  (`extensionHost.ts:306-307`); an extension removed during its activation becomes
  an active one that nobody knows.
- Extension host, otherwise: a command registered in an activation that dies is
  in no registry afterwards (`commandsCustomer.ts:14-17`). An active extension that
  is removed and registered again before its commands have gone is pending with
  neither stub nor proxy, once they have (`extensionHost.ts:804-818`,
  `commandsCustomer.ts:49, 125-131`); nothing calls the removal today, as
  `extensionService.ts:73` drops what `registerExtension` returns. After a readiness timeout
  the rejected `readyPromise` stays until the subprocess dies; `extensionService.ts:58-59`
  says the folder pass at start runs last, it runs beside the events; an
  `activate()` of `*` that hangs keeps the barrier of `extensionService.ts:95` closed,
  where line 66 says waiters do not hang; one that hangs in a replay holds back the
  pass over the folders.
- Closing: one dialog whose callbacks are overwritten (`dialogService.ts:67-78`), so
  a question that another request displaces never ends, `pending` keeps it, and a
  later close of the tab joins a dead question (`editorCloseHandler.ts:22` says it
  joins the open dialog); nothing is checked again after the answer, so edits typed
  during the save, or the close of another tab of a diff's other side, are not
  seen; a tab that closed while its series waited is asked about again when its
  turn comes, though it is gone; untitled documents that an extension holds without
  a tab are not among the dirty items of a shutdown.
- Lifecycle: the joins of a shutdown end after 2 s, the extension host's own
  shutdown after 2.5 s.

## 5. What is proved

`FileServiceProofs`, from `FileServiceAssumption`, for every set of files,
callers and texts and any bound:

- `TypeCorrect`, `NoInterleaving`, `GuardHolds`: `FSTypeOK`,
  `WritesDoNotInterleave` and `GuardHoldsUntilReplace` are invariants of `FSSpec`.
- None is inductive. `Invariance` proves `Inv`: the queue of a resource holds
  exactly the calls whose write waits or runs there, each once, and only its
  head runs (`QueuedHere`, `QueuedOnce`, `AllQueued`). Then the running calls of
  one resource are one call, the head. For the guard, `StampsPast` and `TornAtHome`:
  a stamp was given out by the clock, and a torn file is at the resource of the
  write that tore it unless something else put it elsewhere. So a replacement
  makes a stamp no pending guard holds, and a fill reaches only a file whose
  author it keeps.
- The proof has a lemma for what each kind of change does to the queue (append,
  advance, settle, a call beside it), one for what writes keep of the stamps, and
  one step per action.

`GuardedWritesProofs`, from the same assumption: `KeepsGuardedWrites`, `FSSpec`
implements `GuardedWrites` under the mapping of `MCFileService`. The calls that wait
at a resource, less a head that has reached the disk, are its pending writes; the
check, the closing stat and the start of a move change nothing in the promise; the
look at the file sends the first pending write in place or changes nothing
(`DecisionStep`); a replacement, a truncation and a fill land the first pending write (`HeadLeaves`).
Beyond `Inv` the steps need that two files never share a stamp (`StampsApart`: a
rename leaves none behind, a copy is stamped anew), so that a fill reaches one
file, and the bounds that make a stored record a version of the promise
(`InBounds`). That the landing write destroys nothing unread is
`GuardHoldsUntilReplace`.

`StateFileStoreProofs`, from `StateFileStoreAssumption`, for any files, number
of writes and bounds:

- `TypeCorrect`, `TimerAlwaysSeesItsFile`, `FilesStayApart`: `TypeOK`,
  `TimerSeesItsFile` and `OwnFileOnly` are invariants of `Spec`.
- `Inv` adds that files and writes under way hold only stored values
  (`StoredOnly`, without which a value loaded from a file has no home), that a
  write under way has a file, and that one which has not serialized yet is of the
  open file, one that has holds its own file's values (`OwnWrites`): an open amid
  the former (`crossed`) is what breaks `OwnFileOnly`.
- `ExitKeeps`, `SilencedStoreIsQuiet`: `UncrowdedFlushIsDurable`, and the action
  property `QuietAfterDispose`. The first needs `Prompt`: as long as nothing came
  amid a write there is one write at a time, and the values of a store that is not
  dirty are in the write under way or in the file.

`UndoRedoProofs`, from `UndoRedoAssumption`, for any contexts, requests and number
of steps:

- `TypeCorrect`, `HoldersParticipate`, `RedoIsShared`, `OneSideOnly`,
  `OrderOfPushes`: `TypeOK`, `OnlyParticipantsHoldSteps`, `RedoneEverywhere`,
  `UndoneOrRedone` and `PushOrderKept`.
- `Invariance` proves `IInv`, which adds three facts. What a bucket can undo is
  older than what it can redo (`UndoBelowRedo`): an undo appends to the redo, and
  push order stays only because of it. A step of one document is in one bucket
  (`PlainInOneBucket`), so moving it there leaves no copy on the other side. A step
  in a bucket was pushed (`StepsWerePushed`), so that a new one is newer than all.

`TextFileModelProofs`, from the assumptions of `TextFileModel` and `FileService`,
for any files, saves and commands:

- `BufferTyped`: `TFTypeOK`. `BufferUsesService`: every step of the text model is
  a step of the file service or none of its own, so that `Inv` of
  `FileServiceProofs`, and with it its theorems, hold of the files underneath.
- `KnownIsOverwritten`, from `~SlowStat`, closing stats that fail included:
  `SavesOverKnownVersions`. `ForeignIsBase`
  and `GuardIsBase` say that a foreign version that `diskStat` or the guard of a
  queued save names is the one under the text; `Landed`, that until its closing stat
  a written file is what was written, so that `diskStat` never takes the stamp of a
  foreign version for that of a save.
- `CleanIsSynced`, from `~SlowStat`, one save at a time and `ReloadsWhenSettled` (no
  reload or revert while a Save As is under way): `CleanMeansSynced`. The saved
  state of the document is the text of the version that `diskStat` names
  (`SavedTextOnDisk`, which needs `SnapshotWritten`: a save writes the text of its
  snapshot, whatever is typed meanwhile), and any other version of the file is to
  be noticed or is shown (`MovedOnIsNoticed`). The file is that of the watched path:
  Save As changes `uri` at once and the watch when it has succeeded, so that until
  then the watched path is the one the buffer may go back to (`Paths`).
- `ConflictsAreForeign`, from the same and `~StatErrors`: `ConflictIsForeign`. Section
  3 says what two saves, and a closing stat that fails, do.
- `FailedSaveAsRestores`, from the same without `~SlowStat` and `~StatErrors`:
  `BufferStaysWithItsFile`, which the code breaks in `textfile_failed_saveas`. So
  nothing breaks it but a second save or a reload amid a Save As.
- `CleanWithoutSaveAs`: with `Targets = {}`, `CleanIsSynced` needs neither of the two.
- `BufferInvariance` proves `BufferInv`, what holds whatever is loaded and saved,
  `PathInvariance` from `ReloadsWhenSettled` the rest (`PathInv`). TLC checked the
  parts of `PathInv` first, with both paths open to others and to Save As.

`ExtensionHostProofs`, from `ExtensionHostAssumption`, for any extensions,
dependencies without loops, events and number of subprocesses:

- `TypeCorrect`, `DisposedForGood`: `TypeOK` and `DisposedStaysDown`, for every
  host, restarts and removals amid activations included (`DownInv`).
- From `~Busy`: `NoneIsForgotten`, `ActiveOnesRun`, `OnceInASubprocess`,
  `DependenciesAreFirst`, `CommandsAreReachable`, `HeardArePickedUp`:
  `NoneForgotten`, `ActiveRuns`, `ActivatedOnce`, `DependenciesFirst`,
  `CommandsReachable` and `HeardIsPickedUp`. With `Busy` the first two are false
  (section 4), and the others rest on what they say.
- `Invariance` proves `IInv`. `NoneForgotten` alone is not inductive: an activation
  that ends must be about the entry registered now (`CallsKnown`), in the current
  subprocess or one that is gone (`ActsHere`, `WaitsHere`), else its outcome would
  be put down to another registration or another subprocess; and an extension is
  in one phase only (`Apart`), so that no second call marks it. `RunningActive` ties
  the subprocess to the phases. The central lemma, `StartAllStarts`, says what
  became of every extension a synchronous run of `activateRegistrations` took;
  events, replays, searches, registrations and continuations all end in it
  (`ActivateOutcome`, `OutcomeInv`).
- `CommandsInv` adds to `IInv` why a command reaches its extension. A pending
  extension has its stub until it is first activated (`StubsStand`), and a live
  proxy, which takes the place of the stub, or one that may yet come from an
  extension that leaves (`Lasting`), is that of an extension that is removed, active,
  being activated, refused, interrupted, or registered before the earlier one had
  left (`ProxiesLive`): so whoever is pending, was never tried and overtook nobody
  has the stub and no proxy.
- `HeardInv` adds to `IInv` who picks up what was heard. `HeardIsPickedUp` does not
  say which subprocess a call waits for; that it is the current one (`HeardHere`) is
  what survives a death, whose calls are dropped. A continuation of an earlier
  subprocess may leave an extension pending: then a replay is still due, as what a
  death interrupted is dealt with before anyone replays the journal
  (`RejectedFirst`). Only an extension with dependencies is held back before the
  message is sent (`UnsentHaveDeps`).

`ExtensionPromiseProofs`, from the same: `PromiseIsKept`, `Spec` implements
`ExtensionPromise` under the mapping `phaseOf`. As no extension is lost
(`NoneForgotten`), its phase is a function of what is registered, active and failed.
Most steps at most let waiting extensions fail (`FailStep`). That an activation
and a revival find no failed registration needs `FailedAreOver`: what has failed
is neither pending nor active nor being activated, `StartAll` included, which may
fail an extension and start others in one go; and that a new registration under
an id is no failed one needs `EntriesCounted`. After `dispose` the rest is stutter.

`EditorClosingProofs`, from `EditorClosingAssumption`, for any documents, groups,
tabs, calls and edits, in three layers with a hypothesis more each:

- `TypeCorrect`, `OnlyNamedOnesClose`: `TypeOK` and `OnlyNamedClose`, from nothing
  else. `Base` says that what a call keeps of its series goes with where it is
  (`Steps`), that the shutdown asks about an item and whoever asks awaits one save
  at a time (`Shutting`), and that an open tab shows something (`Shown`). That a
  request closes only what it named holds whatever overlaps.
- `QuestionsDoStand`: `QuestionsStand`, from `~Overlap`. `AInv` adds `Asking`: one
  tab is asked about at a time, a call waits for its answer, and no other call has
  tabs to ask about (`Questions`); no tab closes while the window does, and what
  is being saved for a tab is saved for its question (`Alone`).
- `NothingIsLost`, `RefusedOnesEnd`: `NothingLostUnasked` and `RefusedEditsEnd`,
  from `~Beside`, `~Overlap` and `~LateEdits`; without any of the three TLC shows
  the first violated. `Invariance` proves `IInv`. The question is asked before the
  tab closes, so that nothing is lost rests on `Cleared`: from the answer to the
  close, each modified document of the tab was refused or is shown in another
  group. That holds only because a group shows a document once and all calls under
  way are about one group (`Places`), so that no other tab of the series is the one
  relied on; because what a save writes is still the text (`Saves`); and, for the
  window, because every document not yet cleared is among the items left
  (`Leaving`) and what nobody refers to has no edits but refused ones (`Kept`).

Only model-checked: liveness (`EveryWriteSettles`, `ForeignChangesNoticed`,
`DeletedIsOrphaned`, `PresentIsNotOrphaned`, `StoresReachDisk`, `RestartRevives`),
which the prover does not reach. `textfile_watch` checks `CleanMeansSynced` and
`ConflictIsForeign` without `ReloadsWhenSettled`, on an instance where others write
the new path only; TLC shows both violated where they write the first one too.

## 6. What is not modelled

- Of the text file model: the document on disk and its indexing, streaming
  reloads, encodings, provider and untitled resources, `revertSoft`,
  `restoreUnsavedContents`, the keys of the buffer registry under renames.
- Of the file service: directories, trash, provider registration, moves across
  file systems.
- Of the state: the three scopes of `StateService` (each is one store), and the
  migration of values when they are read.
- What undo and redo do to documents and files: a step is a token.
- Of the extension host: the catalog and the state pushed to a new subprocess,
  the memento guard, `extensionService` (who awaits which event), the customers
  other than the stubs of commands.
- Of closing: moving, splitting and merging groups, the order of tabs and
  recency, files moved or deleted under tabs, untitled and virtual documents. A
  diff of a file with itself, for which the code counts two holders, is
  excluded (`shows` is a set).
- Of the lifecycle: phases and barriers, the order of listeners, what the joins
  wait for.
- The components without a module: workspace edits, tree watchers and extension
  management are planned; search, language features, configuration, rendering,
  terminal and the piece tree are pure functions, parsing, presentation or I/O
  where tests do better. They are most of the repository's lines, so the modules
  map a small share of it, and about a third of the files they model.

## 7. Plan

1. `TextFileModel`: deletion with an open buffer (`revertSoft`, then `del`)
   against a save in flight; then reloads that overtake each other
   (`reopenWithEncoding`, streaming, `loadGeneration`).
2. Workspace edits with rollback over the undo service (a permanent delete cannot
   be rolled back although "A half-applied edit is not allowed"; rollback and undo
   run outside `oneAtATime`).
3. The tree watcher: restarts, and subscriptions that ride on a shared traversal,
   against "From the outside the behavior is indistinguishable from independent
   watchers" (a traversal that died stays in use, `sharedTreeWatcher.ts:63-72`).
4. `EditorClosing` composed with `ExtensionHost` at shutdown; moves of tabs
   between groups; extension directories shared by processes.
5. Proofs: the refinement of an abstract editor by `EditorClosing` (what the user
   did not refuse is saved or still open), and each new module's invariants.

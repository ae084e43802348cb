---------------------------- MODULE ExtensionHost ----------------------------
(***************************************************************************)
(* Activation of extensions in a subprocess (extensionHost.ts,             *)
(* extensionPhases.ts, extensionHostProcess.ts, commandsCustomer.ts): the  *)
(* phases of a registration, the journal of activation events, lazy        *)
(* revival after the subprocess died, its restart for another workspace,   *)
(* dependencies, and the commands that stand for an extension before it    *)
(* is active.                                                              *)
(*                                                                         *)
(* A step is what runs between two callbacks of the event loop. The        *)
(* continuations of settled promises run before the next callback.         *)
(***************************************************************************)
EXTENDS Naturals, FiniteSets

CONSTANTS
    Exts,       \* extension ids
    Events,     \* activation events, without workspaceContains
    Deps,       \* extensionDependencies that have code of their own
    WakesOn,    \* activation events of each manifest
    Patterns,   \* the extensions with workspaceContains patterns
    Busy,       \* whether restarts and removals happen amid activations
    MaxSpawns,  \* bound: subprocesses
    MaxEntries  \* bound: registrations of each id

Spawns  == 1..MaxSpawns
Entries == {0} \cup UNION {1..MaxEntries[e] : e \in Exts}

\* Dependencies are ranked: findDependencyLoop fails every member of a loop.
ASSUME ExtensionHostAssumption ==
    /\ IsFiniteSet(Exts)
    /\ Deps \in [Exts -> SUBSET Exts] /\ WakesOn \in [Exts -> SUBSET Events]
    /\ \E rank \in [Exts -> 1..Cardinality(Exts)] :
           \A e \in Exts : \A d \in Deps[e] : rank[d] < rank[e]
    /\ Patterns \subseteq Exts /\ Busy \in BOOLEAN
    /\ MaxSpawns \in Nat /\ MaxEntries \in [Exts -> Nat]

VARIABLES
    known, pending, active, \* ExtensionPhases: the entry under an id, or 0
    entries,        \* the last entry registered under an id
    requested,      \* requestedEvents, the journal
    replayPending,
    hostDisposed,
    spawn,          \* rpc and process: the current subprocess, 0 for null
    proc,           \* the life of each subprocess
    ready,          \* readyPromise of each subprocess
    running,        \* the extensions activated in each subprocess
    waiting,        \* calls of activateRegistrations that await readyPromise
    searching,      \* registrations whose workspaceContains search runs
    acts,           \* activations under way, with what each awaits
    replays,        \* replayJournal calls, each the activations it awaits
    passDue,        \* what goes on with a pass over the folders: a replay, a restart
    stubs, proxies, \* commandsCustomer: whose command has a stub, a live proxy
    leaving,        \* removed registrations that the subprocess deactivates
    failed,         \* ghost: registrations that failed by their own fault
    retried,        \* ghost: registrations whose activation was interrupted
    overtaken       \* ghost: registrations made before an earlier one of the id
                    \* had left with its command, until they are activated

phases == <<known, pending, active, entries>>
procs  == <<spawn, proc, ready, running>>
calls  == <<waiting, searching, acts, replays, passDue>>
cmds   == <<stubs, proxies, leaving>>
ghosts == <<failed, retried, overtaken>>
vars   == <<phases, requested, replayPending, hostDisposed, procs, calls, cmds, ghosts>>

Regs     == [id : Exts, entry : Entries \ {0}]
Requests == Regs \X ({0} \cup Spawns)
Reg(e, n) == [id |-> e, entry |-> n]

\* Mutant: ids without an entry are listed too.
AllRegs(phase) == {Reg(e, phase[e]) : e \in Exts}

RegsOf(phase) == {Reg(e, phase[e]) : e \in {x \in Exts : phase[x] # 0}}
KnownIds == {e \in Exts : known[e] # 0}

\* An activation as its awaiters know it.
Request(a) == <<a.reg, a.spawn>>

Activations == [reg : Regs, spawn : {0} \cup Spawns, sent : BOOLEAN, awaits : SUBSET Requests]
Waits == [regs : SUBSET Regs, spawn : Spawns, own : BOOLEAN, replay : BOOLEAN]

\* Shape of the state.
TypeOK ==
    /\ {known, pending, active, entries} \subseteq [Exts -> Entries]
    /\ requested \subseteq Events
    /\ {replayPending, hostDisposed} \subseteq BOOLEAN
    /\ spawn \in {0} \cup Spawns
    /\ proc \in [Spawns -> {"unused", "live", "stopping", "closing", "gone"}]
    /\ ready \in [Spawns -> {"waiting", "yes", "no"}]
    /\ running \in [Spawns -> SUBSET Exts]
    /\ waiting \subseteq Waits
    /\ {searching, leaving, failed, retried, overtaken} \subseteq SUBSET Regs
    /\ acts \subseteq Activations
    /\ replays \subseteq SUBSET Requests
    /\ passDue \subseteq {"replay", "restart"}
    /\ stubs \subseteq Exts /\ proxies \subseteq Exts

-----------------------------------------------------------------------------
(* Starting activations *)

heard(e) == WakesOn[e] \cap requested # {}

pendingMatching(events) ==
    {r \in RegsOf(pending) : WakesOn[r.id] \cap events # {}}

\* Mutant: whoever asks for a registration activates it, pending or not.
NotTaken(regs, wait) ==
    {e \in Exts : \E r \in regs : r.id = e \/ e \in Deps[r.id]}

\* takePending for a set of registrations and, before each, for its
\* dependencies, unless one of these is unknown. Only pending ones are taken.
Taken(regs, wait) ==
    LET Closed(S) ==
            /\ \A r \in regs : wait[r.id] # 0 => r.id \in S
            /\ \A e \in S : Deps[e] \subseteq KnownIds
                   => {d \in Deps[e] : wait[d] # 0} \subseteq S
    IN  {e \in Exts : \A S \in SUBSET Exts : Closed(S) => e \in S}

entryOf(regs, e) ==
    IF \E r \in regs : r.id = e THEN (CHOOSE r \in regs : r.id = e).entry ELSE known[e]

\* The loop of activateRegistrations over a connected subprocess s: a taken
\* extension without dependencies asks for its activation at once, one with
\* dependencies awaits their activations, here or by another call. One whose
\* dependency is unknown fails. A replay awaits all of regs.
StartAll(regs, s, wait, replay) ==
    LET taken == Taken(regs, wait)
        begun == {e \in taken : Deps[e] \subseteq KnownIds}
        reg(e) == Reg(e, entryOf(regs, e))
        done(ids) == {<<reg(d), s>> : d \in ids \cap begun}
                       \cup {Request(a) : a \in {b \in acts : b.reg.id \in ids}}
    IN  /\ acts' = acts \cup {[reg |-> reg(e), spawn |-> s,
                               sent |-> Deps[e] = {}, awaits |-> done(Deps[e])] : e \in begun}
        /\ failed' = failed \cup {reg(e) : e \in taken \ begun}
        /\ pending' = [e \in Exts |-> IF e \in taken THEN 0 ELSE wait[e]]
        /\ replays' = IF replay THEN replays \cup {done({r.id : r \in regs})} ELSE replays

\* activateRegistrations with ensureSubprocess: the first call starts the
\* subprocess, the others await its readiness; after a timeout all throw.
activateRegistrations(regs, wait, replay) ==
    LET Await(s, own) ==
            /\ waiting' = waiting \cup
                   {[regs |-> regs, spawn |-> s, own |-> own, replay |-> replay]}
            /\ pending' = wait /\ UNCHANGED <<acts, replays, failed>>
    IN  \/ /\ regs = {}
           /\ pending' = wait
           /\ replays' = IF replay THEN replays \cup {{}} ELSE replays
           /\ UNCHANGED <<procs, proxies, waiting, acts, failed>>
        \/ /\ regs # {} /\ spawn = 0
           /\ \E s \in Spawns :
                  /\ proc[s] = "unused" /\ \A t \in 1..(s - 1) : proc[t] # "unused"
                  /\ spawn' = s
                  /\ proc' = [proc EXCEPT ![s] = "live"]
                  /\ Await(s, TRUE)
           /\ proxies' = {} /\ UNCHANGED <<ready, running>>
        \/ /\ regs # {} /\ spawn # 0
           /\ \/ ready[spawn] = "waiting" /\ Await(spawn, FALSE)
              \/ /\ ready[spawn] = "yes"
                 /\ StartAll(regs, spawn, wait, replay)
                 /\ UNCHANGED waiting
              \/ /\ ready[spawn] = "no"
                 /\ pending' = wait /\ UNCHANGED <<waiting, acts, replays, failed>>
           /\ UNCHANGED <<procs, proxies>>

-----------------------------------------------------------------------------
(* Registration *)

InUse(e) ==
    \/ \E a \in acts : a.reg.id = e
    \/ \E w \in waiting : \E r \in w.regs : r.id = e
    \/ \E r \in searching : r.id = e

Leaves(e) == \E r \in leaving : r.id = e

\* arm: a live proxy is never covered by a stub.
Armed(S) == stubs \cup (S \ proxies)

\* registerExtension. An event that was heard already activates it now.
registerExtension(e) ==
    /\ ~hostDisposed /\ pending[e] = 0 /\ active[e] = 0
    /\ Busy \/ ~InUse(e)
    /\ entries[e] < MaxEntries[e]
    /\ LET n == entries[e] + 1 IN
         /\ entries' = [entries EXCEPT ![e] = n]
         /\ known' = [known EXCEPT ![e] = n]
         /\ activateRegistrations(IF heard(e) THEN {Reg(e, n)} ELSE {},
                                  [pending EXCEPT ![e] = n], FALSE)
    /\ stubs' = Armed({e})
    /\ overtaken' = overtaken \cup
           {Reg(e, entries'[e]) : x \in {y \in {e} : y \in proxies \/ Leaves(y)}}
    /\ UNCHANGED <<active, requested, replayPending, hostDisposed, searching, passDue,
                   leaving, retried>>

\* The subprocess is asked to deactivate an active extension, before whatever
\* it is asked next. The extension's commands go as it leaves, if they do.
unregisterExtension(e) ==
    /\ active' = [active EXCEPT ![e] = 0]
    /\ running' = [s \in Spawns |-> IF s = spawn THEN running[s] \ {e} ELSE running[s]]
    /\ leaving' = leaving \cup {Reg(e, active[e])}

\* The registration's dispose. The ghosts forget it.
removeExtension(e) ==
    /\ known[e] # 0 /\ (Busy \/ ~InUse(e))
    /\ known' = [known EXCEPT ![e] = 0]
    /\ stubs' = stubs \ {e}
    /\ pending' = [pending EXCEPT ![e] = 0]
    /\ IF pending[e] = 0 /\ active[e] # 0
         THEN unregisterExtension(e)
         ELSE UNCHANGED <<active, running, leaving>>
    /\ failed' = failed \ {Reg(e, known[e])}
    /\ retried' = retried \ {Reg(e, known[e])}
    /\ overtaken' = overtaken \ {Reg(e, known[e])}
    /\ UNCHANGED <<entries, requested, replayPending, hostDisposed, spawn, proc, ready,
                   calls, proxies>>

-----------------------------------------------------------------------------
(* Activation events *)

\* Mutant: the journal is not replayed.
EventOnly(event) == pendingMatching({event})

\* What an event activates: the journal as well, if a revival is pending.
Woken(event) ==
    pendingMatching(IF replayPending THEN requested \cup {event} ELSE {event})

activateByEvent(event) ==
    /\ requested' = requested \cup {event}
    /\ replayPending' = FALSE
    /\ activateRegistrations(Woken(event), pending, replayPending)
    /\ UNCHANGED <<known, active, entries, hostDisposed, searching, passDue, stubs,
                   leaving, retried, overtaken>>

\* activateByWorkspaceContains: searches for the pending extensions, on top of
\* the ones that run; or a replay of the journal, which ends with this pass.
passOverFolders(searches) ==
    /\ replayPending' = FALSE
    /\ IF replayPending
         THEN /\ activateRegistrations(pendingMatching(requested), pending, TRUE)
              /\ searching' = searches
         ELSE /\ searching' = searches \cup {r \in RegsOf(pending) : r.id \in Patterns}
              /\ UNCHANGED <<pending, procs, proxies, waiting, acts, replays, failed>>

activateByWorkspaceContains ==
    /\ passOverFolders(searching)
    /\ UNCHANGED <<known, active, entries, requested, hostDisposed, passDue, stubs,
                   leaving, retried, overtaken>>

\* The search of a registration finds its pattern, or ends without.
SearchEnds(r) ==
    /\ r \in searching
    /\ searching' = searching \ {r}
    /\ \E found \in {{}, {r}} : activateRegistrations(found, pending, FALSE)
    /\ UNCHANGED <<known, active, entries, requested, replayPending, hostDisposed, passDue, stubs,
                   leaving, retried, overtaken>>

-----------------------------------------------------------------------------
(* The answers of the subprocess *)

Open(s) == s # 0 /\ proc[s] \in {"live", "stopping", "closing"}

\* host.ready and the timeout of waitForReady; what comes second is ignored.
Ready(s) ==
    /\ Open(s) /\ ready[s] = "waiting"
    /\ \E answer \in {"yes", "no"} : ready' = [ready EXCEPT ![s] = answer]
    /\ UNCHANGED <<phases, requested, replayPending, hostDisposed, spawn, proc, running, calls, cmds, ghosts>>

\* commands.registerCommand, from an extension that is active, about to be, or
\* leaving.
\* The subprocess left by a restart is not listened to any more.
registerCommand(e) ==
    /\ spawn # 0 /\ e \notin proxies
    /\ \/ e \in running[spawn] \/ Leaves(e)
       \/ \E a \in acts : a.reg.id = e /\ a.sent /\ a.spawn = spawn
    /\ stubs' = stubs \ {e} /\ proxies' = proxies \cup {e}
    /\ UNCHANGED <<phases, requested, replayPending, hostDisposed, procs, calls, leaving, ghosts>>

\* commands.unregisterCommand: no stub comes back.
unregisterCommand(e) ==
    /\ spawn # 0 /\ e \in proxies
    /\ proxies' = proxies \ {e}
    /\ UNCHANGED <<phases, requested, replayPending, hostDisposed, procs, calls, stubs, leaving, ghosts>>

\* The answer to host.deactivateExtension.
Deactivated(r) ==
    /\ spawn # 0 /\ r \in leaving
    /\ leaving' = leaving \ {r}
    /\ UNCHANGED <<phases, requested, replayPending, hostDisposed, procs, calls, stubs, proxies, ghosts>>

\* activate() ran in the subprocess, whichever that is by now.
Activated(a) ==
    /\ a.sent /\ Open(a.spawn) /\ a.reg.id \notin running[a.spawn]
    /\ acts' = acts \ {a}
    /\ active' = [active EXCEPT ![a.reg.id] = a.reg.entry]
    /\ running' = [running EXCEPT ![a.spawn] = @ \cup {a.reg.id}]
    /\ overtaken' = overtaken \ {a.reg}
    /\ UNCHANGED <<known, pending, entries, requested, replayPending, hostDisposed,
                   spawn, proc, ready, waiting, searching, replays, passDue, cmds, failed, retried>>

\* Mutant: an interrupted activation counts as failed.
GivenUp(a) == UNCHANGED <<pending, retried>>

\* returnInterrupted: back to pending, unless removed or registered anew.
returnInterrupted(a) ==
    IF known[a.reg.id] = a.reg.entry
      THEN /\ pending' = [pending EXCEPT ![a.reg.id] = a.reg.entry]
           /\ retried' = retried \cup {a.reg}
      ELSE UNCHANGED <<pending, retried>>

\* Mutant: every activation that did not succeed is tried again.
AlwaysBack(a) ==
    /\ acts' = acts \ {a}
    /\ returnInterrupted(a)
    /\ UNCHANGED <<known, active, entries, requested, replayPending, hostDisposed,
                   procs, waiting, searching, replays, passDue, cmds, overtaken>>

\* The request was refused: by the extension, or by the channel of a process
\* that is gone. Only the current subprocess's refusal is the extension's fault.
NotActivated(a) ==
    /\ acts' = acts \ {a}
    /\ IF a.spawn # spawn THEN returnInterrupted(a) ELSE UNCHANGED <<pending, retried>>
    /\ UNCHANGED <<known, active, entries, requested, replayPending, hostDisposed,
                   procs, waiting, searching, replays, passDue, cmds, overtaken>>

ActivateFails(a) ==
    /\ a.sent /\ Open(a.spawn)
    /\ NotActivated(a)
    /\ failed' = failed \cup {r \in {a.reg} : a.spawn = spawn}

-----------------------------------------------------------------------------
(* Continuations *)

\* readyPromise is settled. The call that started the subprocess goes on with
\* it, the others with what is current by then.
Resume(w) ==
    /\ w \in waiting /\ ready[w.spawn] # "waiting"
    /\ w.own \/ \A v \in waiting : v.spawn = w.spawn => ~v.own
    /\ waiting' = waiting \ {w}
    /\ IF ready[w.spawn] = "yes"
         THEN StartAll(w.regs, IF w.own THEN w.spawn ELSE spawn, pending, w.replay)
         ELSE UNCHANGED <<pending, acts, replays, failed>>
    /\ UNCHANGED <<known, active, entries, requested, replayPending, hostDisposed,
                   procs, searching, passDue, cmds, retried, overtaken>>

\* Mutant: dependencies need not have succeeded.
AnyOutcome(a) == TRUE

DependenciesActive(a) == \A d \in Deps[a.reg.id] : active[d] # 0

Awaited(requests) == \E a \in acts : Request(a) \in requests

\* Closing a channel rejects its requests at once: they are dealt with before
\* whoever awaits them goes on.
NoneRejected == \A a \in acts : a.sent => Open(a.spawn)

\* activateDependencies after its await. A failed or removed dependency is the
\* dependent's failure.
DependenciesSettled(a) ==
    /\ ~a.sent /\ ~Awaited(a.awaits) /\ NoneRejected
    /\ IF a.spawn # spawn
         THEN NotActivated(a) /\ UNCHANGED failed
       ELSE IF DependenciesActive(a)
         THEN /\ acts' = (acts \ {a}) \cup {[a EXCEPT !.sent = TRUE, !.awaits = {}]}
              /\ UNCHANGED <<phases, requested, replayPending, hostDisposed, procs,
                             waiting, searching, replays, passDue, cmds, ghosts>>
         ELSE NotActivated(a) /\ failed' = failed \cup {a.reg}

\* The channel is closed, or was never there: the request is rejected.
Rejected(a) ==
    /\ a.sent /\ ~Open(a.spawn)
    /\ NotActivated(a) /\ UNCHANGED failed

\* replayJournal after its await.
ReplayContinues(r) ==
    /\ r \in replays /\ ~Awaited(r) /\ NoneRejected
    /\ replays' = replays \ {r}
    /\ passDue' = passDue \cup {"replay"}
    /\ UNCHANGED <<phases, requested, replayPending, hostDisposed, procs,
                   waiting, searching, acts, cmds, ghosts>>

\* activateByWorkspaceContains at the end of replayJournal, and
\* restartForWorkspaceChange after its await: a replay, unless an event that
\* came meanwhile did it, or the pass over the folders.
FoldersPassed(caller) ==
    /\ caller \in passDue
    /\ passDue' = passDue \ {caller}
    /\ passOverFolders(searching)
    /\ UNCHANGED <<known, active, entries, requested, hostDisposed, stubs,
                   leaving, retried, overtaken>>

-----------------------------------------------------------------------------
(* The end of a subprocess *)

\* Mutants: revival is not armed; the stubs are not restored; what depends on
\* another extension is not revived.
NoReplay   == UNCHANGED replayPending
NoStubs    == UNCHANGED stubs
Standalone == {e \in Exts : active[e] # 0 /\ Deps[e] = {}}

replayArmed == replayPending' = TRUE
stubsArmed  == stubs' = stubs \cup {e \in Exts : active[e] # 0}
Revived     == {e \in Exts : active[e] # 0}

\* armRevival after endSpawn: the active extensions are pending again, with
\* stubs for their commands.
armRevival ==
    /\ pending' = [e \in Exts |-> IF e \in Revived THEN active[e] ELSE pending[e]]
    /\ active' = [e \in Exts |-> IF e \in Revived THEN 0 ELSE active[e]]
    /\ replayArmed
    /\ stubsArmed
    /\ spawn' = 0 /\ proxies' = {} /\ leaving' = {}

\* Bound: the last subprocess neither dies nor restarts.
Spare == \E s \in Spawns : proc[s] = "unused"

\* The process exits: a death, which handleSubprocessDeath cleans up after, or
\* the end of a shutdown, for which a restart waits. Requests in flight are
\* rejected, readyPromise as well; whether it was settled is forgotten, as nobody
\* asks it again.
Exit(s) ==
    /\ Open(s)
    /\ s = spawn => Spare
    /\ proc' = [proc EXCEPT ![s] = "gone"]
    /\ ready' = [ready EXCEPT ![s] = "no"]
    /\ running' = [running EXCEPT ![s] = {}]
    /\ IF s = spawn
         THEN armRevival /\ UNCHANGED passDue
         ELSE /\ passDue' = passDue \cup {c \in {"restart"} : proc[s] = "stopping"}
              /\ UNCHANGED <<pending, active, replayPending, cmds, spawn>>
    /\ UNCHANGED <<known, entries, requested, hostDisposed, waiting, searching, acts, replays, ghosts>>

\* restartForWorkspaceChange up to its await. The searches are cancelled.
\* Without a subprocess it is a pass over the folders.
restartForWorkspaceChange ==
    /\ Busy \/ (acts = {} /\ waiting = {})
    /\ \/ /\ spawn = 0
          /\ passOverFolders({})
          /\ UNCHANGED <<active, stubs, leaving>>
       \/ /\ spawn # 0 /\ Spare
          /\ proc' = [proc EXCEPT ![spawn] = "stopping"]
          /\ running' = [running EXCEPT ![spawn] = {}]
          /\ armRevival
          /\ searching' = {}
          /\ UNCHANGED <<ready, waiting, acts, replays, failed>>
    /\ UNCHANGED <<known, entries, requested, hostDisposed, passDue, retried, overtaken>>

\* Mutant: the registrations outlive the window.
KeepPhases == UNCHANGED <<known, pending, active>>

phasesCleared ==
    /\ known' = [e \in Exts |-> 0]
    /\ pending' = [e \in Exts |-> 0]
    /\ active' = [e \in Exts |-> 0]

dispose ==
    /\ ~hostDisposed
    /\ hostDisposed' = TRUE
    /\ searching' = {}
    /\ phasesCleared
    /\ stubs' = {} /\ proxies' = {} /\ leaving' = {}
    /\ spawn' = 0
    /\ proc' = [s \in Spawns |-> IF s = spawn THEN "closing" ELSE proc[s]]
    /\ running' = [s \in Spawns |-> IF s = spawn THEN {} ELSE running[s]]
    /\ UNCHANGED <<entries, requested, replayPending, ready, waiting, acts, replays, passDue, ghosts>>

-----------------------------------------------------------------------------
(* The specification *)

Init ==
    /\ known = [e \in Exts |-> 0]
    /\ pending = [e \in Exts |-> 0]
    /\ active = [e \in Exts |-> 0]
    /\ entries = [e \in Exts |-> 0]
    /\ requested = {} /\ replayPending = FALSE /\ hostDisposed = FALSE
    /\ spawn = 0
    /\ proc = [s \in Spawns |-> "unused"]
    /\ ready = [s \in Spawns |-> "waiting"]
    /\ running = [s \in Spawns |-> {}]
    /\ waiting = {} /\ searching = {} /\ acts = {} /\ replays = {} /\ passDue = {}
    /\ stubs = {} /\ proxies = {} /\ leaving = {}
    /\ failed = {} /\ retried = {} /\ overtaken = {}

Continuation ==
    \/ \E w \in waiting : Resume(w)
    \/ \E a \in acts : DependenciesSettled(a) \/ Rejected(a)
    \/ \E r \in replays : ReplayContinues(r)
    \/ \E caller \in passDue : FoldersPassed(caller)

\* No continuation is ready to run.
Settled ==
    /\ \A w \in waiting : ready[w.spawn] = "waiting"
    /\ \A a \in acts : IF a.sent THEN Open(a.spawn) ELSE Awaited(a.awaits)
    /\ \A r \in replays : Awaited(r)
    /\ passDue = {}

\* The window: extensionService and the stubs of commands.
WindowStep ==
    \/ \E e \in Exts : registerExtension(e) \/ removeExtension(e)
    \/ \E event \in Events : activateByEvent(event)
    \/ activateByWorkspaceContains
    \/ restartForWorkspaceChange
    \/ dispose

ProcessStep ==
    \/ \E s \in Spawns : Ready(s) \/ Exit(s)
    \/ \E e \in Exts : registerCommand(e) \/ unregisterCommand(e)
    \/ \E r \in leaving : Deactivated(r)
    \/ \E a \in acts : Activated(a) \/ ActivateFails(a)

Next ==
    \/ Continuation
    \/ Settled /\ (WindowStep \/ ProcessStep \/ \E r \in searching : SearchEnds(r))

\* The event loop runs continuations; readiness is bounded by a timeout, a
\* shutdown by signals, a search by a timeout. Nothing bounds activate().
Fairness ==
    /\ WF_vars(Continuation)
    /\ \A s \in Spawns : WF_vars(Settled /\ Ready(s))
    /\ \A s \in Spawns : WF_vars(Settled /\ proc[s] \in {"stopping", "closing"} /\ Exit(s))

Spec == Init /\ [][Next]_vars /\ Fairness

-----------------------------------------------------------------------------
(* Properties *)

\* Every registered extension is pending, active, failed by its own fault, or
\* in an activation that is under way: none falls between takePending and
\* markActive, whatever dies meanwhile (activateRegistration, requestActivation).
Accounted(e) ==
    LET r == Reg(e, known[e]) IN
        \/ pending[e] = known[e] \/ active[e] = known[e] \/ r \in failed
        \/ \E a \in acts : a.reg = r
NoneForgotten == \A e \in KnownIds : Accounted(e)

\* What the host calls active is the registered entry, and runs in the current
\* subprocess (markActive against death and restart).
ActiveRuns ==
    \A e \in Exts : active[e] # 0 /\ ~hostDisposed =>
        active[e] = known[e] /\ spawn # 0 /\ e \in running[spawn]

\* A pending extension whose event was heard does not stay behind: the next
\* event replays the journal, or its activation waits for the subprocess. The
\* exceptions are a subprocess that never became ready, and an interrupted
\* activation that was waiting for dependencies (requestedEvents).
UnderWay(r) ==
    \/ spawn # 0 /\ ready[spawn] = "no"
    \/ r \in retried /\ Deps[r.id] # {}
    \/ \E w \in waiting : r \in w.regs
HeardIsPickedUp == \A r \in pendingMatching(requested) : replayPending \/ UnderWay(r)

\* In one subprocess an extension is activated once: concurrent events, replays
\* and dependents share the activation (takePending, activating).
ActivatedOnce ==
    /\ \A a, b \in acts : a.reg.id = b.reg.id /\ a.spawn = b.spawn => a = b
    /\ \A a \in acts : a.spawn # 0 => a.reg.id \notin running[a.spawn]

\* The command of a pending extension is there to wake it, before its first
\* activation and after the subprocess died (arm, armRevival). The exceptions are
\* an extension that registered the command in an activation that was refused
\* or interrupted, and one registered again before the earlier registration had
\* left with its command: arm then adds no stub to a live proxy.
CommandsReachable ==
    \A e \in KnownIds :
        /\ pending[e] # 0 /\ (\A r \in failed \cup retried : r.id # e)
        /\ Reg(e, known[e]) \notin overtaken
        => e \in stubs

\* After dispose no registration and no subprocess comes back, whatever was
\* under way (hostDisposed).
DisposedStaysDown == hostDisposed => spawn = 0 /\ KnownIds = {} /\ pending = [e \in Exts |-> 0]

\* The activation of an extension is asked for only while what it depends on
\* runs in the same subprocess (activateDependencies).
DependenciesRun(a) == \A d \in Deps[a.reg.id] : d \in running[a.spawn]
DependenciesFirst ==
    [][\A a \in acts' : a.sent /\ a \notin acts /\ a.spawn # 0 => DependenciesRun(a)]_vars

\* After a death only an event, a search or a restart starts a subprocess again:
\* what a replay goes on with does not (replayPending).
LazyRevival ==
    [][spawn' \notin {0, spawn} => "replay" \notin passDue \/ "replay" \in passDue']_vars

\* A restart for another workspace revives what was active without another
\* event: what is pending is asked for again in a new subprocess, with the same
\* exceptions (restartForWorkspaceChange).
RestartRevives ==
    (\E s \in Spawns : proc[s] = "stopping") ~> \A r \in pendingMatching(requested) : UnderWay(r)

\* The phase of each extension as its users see it.
phaseOf(e) ==
    IF known[e] = 0 THEN "absent"
    ELSE IF active[e] = known[e] THEN "active"
    ELSE IF Reg(e, known[e]) \in failed THEN "failed"
    ELSE IF Accounted(e) THEN "waiting" ELSE "lost"
Promise == INSTANCE ExtensionPromise WITH phase <- [e \in Exts |-> phaseOf(e)]

\* The host keeps the promise of ExtensionPromise.
KeepsPromise == Promise!Spec
=============================================================================

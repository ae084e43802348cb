----------------------- MODULE ExtensionPromiseProofs -----------------------
(***************************************************************************)
(* The extension host keeps ExtensionPromise, if it is not restarted and   *)
(* loses no registration amid activations (~Busy): what its users see of   *)
(* an extension changes as the promise says, for any extensions, events    *)
(* and number of subprocesses.                                             *)
(***************************************************************************)
EXTENDS ExtensionHostProofs

-----------------------------------------------------------------------------
(* The invariant *)

\* Something may still come of the registration under this id.
Alive(e) == pending[e] # 0 \/ active[e] # 0 \/ \E a \in acts : a.reg.id = e

\* A failed registration is not tried again: it is not even pending.
FailedAreOver == ~hostDisposed => \A r \in failed : Engaged(r) => ~Alive(r.id)

\* A new registration is no failed one.
EntriesCounted ==
    /\ \A e \in Exts : known[e] <= entries[e]
    /\ ~hostDisposed => \A r \in failed : r.entry <= entries[r.id]

PInv == IInv /\ FailedAreOver /\ EntriesCounted

LEMMA StartPInv == Init => PInv
BY InitInv DEF PInv, Init, FailedAreOver, EntriesCounted

\* Entries are numbers.
LEMMA EntriesAreNat ==
    /\ Entries \subseteq Nat
    /\ TypeOK => \A e \in Exts : /\ entries[e] \in Nat /\ entries[e] <= entries[e]
                                 /\ 0 <= entries[e] /\ known[e] \in Nat
<1>1. Entries \subseteq Nat
  BY ExtensionHostAssumption DEF Entries
<1>2. \A n \in Nat : n <= n /\ 0 <= n
  OBVIOUS
<1> QED BY <1>1, <1>2 DEF TypeOK

-----------------------------------------------------------------------------
(* What fails while activations start *)

\* A registration that failed on the way was pending, and is no more.
FailedOnTheWay(wait, kn) ==
    /\ failed \subseteq failed'
    /\ \A r \in failed' \ failed :
          /\ r.id \in Exts /\ wait[r.id] # 0 /\ pending'[r.id] = 0 /\ r.entry = kn[r.id]
          /\ \A a \in acts' \ acts : a.reg.id # r.id
    /\ \A e \in Exts : wait[e] = 0 => pending'[e] = 0 /\ \A a \in acts' \ acts : a.reg.id # e

LEMMA StartAllFailures ==
    ASSUME TypeOK, NEW regs \in SUBSET Regs, NEW wait \in [Exts -> Entries],
           NEW kn, Registered(regs, wait, kn), regs # {} \/ kn = known,
           NEW s, NEW replay, StartAll(regs, s, wait, replay)
    PROVE  FailedOnTheWay(wait, kn)
<1> DEFINE taken == Taken(regs, wait)
           begun == {e \in taken : Deps[e] \subseteq KnownIds}
           reg(e) == Reg(e, entryOf(regs, e))
           done(ids) == {<<reg(d), s>> : d \in ids \cap begun}
                          \cup {Request(a) : a \in {b \in acts : b.reg.id \in ids}}
           new(e) == [reg |-> reg(e), spawn |-> s, sent |-> Deps[e] = {}, awaits |-> done(Deps[e])]
<1>1. \A e \in taken : e \in Exts /\ wait[e] # 0
  BY TakenPending
<1>2. \A e \in taken : reg(e).id = e /\ reg(e).entry = kn[e]
  BY <1>1 DEF entryOf, Registered, Reg
<1>3. \A e : new(e).reg = reg(e)
  OBVIOUS
<1>4. /\ acts' = acts \cup {new(e) : e \in begun}
      /\ failed' = failed \cup {reg(e) : e \in taken \ begun}
      /\ pending' = [e \in Exts |-> IF e \in taken THEN 0 ELSE wait[e]]
  BY DEF StartAll
<1>5. begun \subseteq taken
  OBVIOUS
<1> HIDE DEF taken, begun, reg, done, new
<1>6. \A a \in acts' \ acts : a.reg.id \in begun
  BY <1>2, <1>3, <1>4, <1>5
<1>7. \A r \in failed' \ failed : r.id \in taken \ begun /\ r.entry = kn[r.id]
  BY <1>2, <1>4
<1> QED BY <1>1, <1>4, <1>5, <1>6, <1>7 DEF FailedOnTheWay

\* Nothing fails on the way if nothing starts.
LEMMA NoFailures ==
    ASSUME NEW wait, NEW kn, acts' = acts, failed' = failed, pending' = wait
    PROVE  FailedOnTheWay(wait, kn)
BY DEF FailedOnTheWay

LEMMA ActivateFailures ==
    ASSUME TypeOK, NEW regs \in SUBSET Regs, NEW wait \in [Exts -> Entries],
           NEW kn, Registered(regs, wait, kn), NEW replay,
           activateRegistrations(regs, wait, replay)
    PROVE  FailedOnTheWay(wait, kn)
<1>1. \/ acts' = acts /\ failed' = failed /\ pending' = wait
      \/ regs # {} /\ StartAll(regs, spawn, wait, replay)
  BY DEF activateRegistrations
<1>2. CASE regs # {} /\ StartAll(regs, spawn, wait, replay)
  <2> HIDE DEF TypeOK, StartAll
  <2> QED BY <1>2, StartAllFailures
<1> QED BY <1>1, <1>2, NoFailures

\* What else such a step may change keeps the invariant.
LEMMA FailuresKept ==
    ASSUME PInv, NEW wait \in [Exts -> Entries], FailedOnTheWay(wait, known'),
           active' = active, hostDisposed' = hostDisposed,
           \A e \in Exts : known'[e] <= entries'[e] /\ entries[e] <= entries'[e]
                           /\ entries'[e] \in Nat,
           \A e \in Exts : \/ known'[e] = known[e] /\ wait[e] = pending[e]
                           \/ /\ ~InUse(e) /\ active[e] = 0
                              /\ known'[e] = entries[e] + 1,
           \A e \in Exts : wait[e] # 0 /\ ~hostDisposed =>
               active[e] = 0 /\ \A a \in acts : a.reg.id # e
    PROVE  FailedAreOver' /\ EntriesCounted'
<1>1. \A r \in failed : /\ r.id \in Exts /\ r.entry \in Nat /\ entries[r.id] \in Nat
                        /\ ~hostDisposed => r.entry <= entries[r.id]
  BY EntriesAreNat DEF PInv, IInv, TypeOK, EntriesCounted, Regs
<1>2. EntriesCounted'
  <2>1. \A r \in failed' : ~hostDisposed => r.entry <= entries'[r.id]
    BY <1>1 DEF FailedOnTheWay
  <2> QED BY <2>1 DEF EntriesCounted
<1>3. ASSUME ~hostDisposed, NEW r \in failed', known'[r.id] = r.entry
      PROVE  /\ pending'[r.id] = 0 /\ active[r.id] = 0
             /\ \A a \in acts' : a.reg.id # r.id
  <2>1. CASE r \in failed' \ failed
    BY <1>3, <2>1 DEF FailedOnTheWay
  <2>2. CASE r \in failed
    <3>1. r.id \in Exts /\ known'[r.id] # entries[r.id] + 1
      BY <1>1, <1>3, <2>2
    <3>2. known'[r.id] = known[r.id] /\ wait[r.id] = pending[r.id]
      BY <3>1
    <3>3. ~Alive(r.id)
      BY <1>3, <2>2, <3>2 DEF PInv, FailedAreOver, Engaged
    <3> QED BY <3>1, <3>2, <3>3 DEF Alive, FailedOnTheWay
  <2> QED BY <2>1, <2>2
<1>4. FailedAreOver'
  BY <1>3 DEF FailedAreOver, Engaged, Alive
<1> QED BY <1>2, <1>4

-----------------------------------------------------------------------------
(* The steps that start activations *)

LEMMA RegisterKept ==
    ASSUME ~Busy, PInv, NEW e \in Exts, registerExtension(e)
    PROVE  FailedAreOver' /\ EntriesCounted'
<1> DEFINE n == entries[e] + 1
           regs == IF heard(e) THEN {Reg(e, n)} ELSE {}
           wait == [pending EXCEPT ![e] = n]
<1>1. \A x \in Exts : entries[x] \in Nat /\ known[x] \in Nat /\ known[x] <= entries[x]
  BY EntriesAreNat DEF PInv, IInv, TypeOK, EntriesCounted
<1>2. n \in Entries \ {0} /\ n \in Nat
  BY <1>1, ExtensionHostAssumption DEF Entries, registerExtension
<1>3. /\ wait \in [Exts -> Entries] /\ regs \in SUBSET Regs /\ TypeOK
      /\ \A x \in Exts : wait[x] = IF x = e THEN n ELSE pending[x]
  BY <1>2 DEF PInv, IInv, TypeOK, Reg, Regs
<1>4. /\ known' = [known EXCEPT ![e] = n] /\ known' \in [Exts -> Entries]
      /\ entries' = [entries EXCEPT ![e] = n]
      /\ \A x \in Exts : known'[x] = IF x = e THEN n ELSE known[x]
      /\ \A x \in Exts : entries'[x] = IF x = e THEN n ELSE entries[x]
  BY <1>2 DEF PInv, IInv, TypeOK, registerExtension
<1>5. /\ activateRegistrations(regs, wait, FALSE) /\ ~InUse(e) /\ active[e] = 0
      /\ active' = active /\ hostDisposed' = hostDisposed
  BY DEF registerExtension
<1>6. (\A r \in regs : r.id = e /\ r.entry = n) /\ (regs # {} => \E r \in regs : r.id = e)
  BY DEF Reg
<1> HIDE DEF n, regs, wait
<1>7. Registered(regs, wait, known')
  BY <1>2, <1>3, <1>4, <1>6 DEF PInv, IInv, PendingKnown, Registered
<1>8. FailedOnTheWay(wait, known')
  BY <1>3, <1>5, <1>7, ActivateFailures
<1>9. \A x \in Exts : wait[x] # 0 /\ ~hostDisposed =>
          active[x] = 0 /\ \A a \in acts : a.reg.id # x
  <2>1. \A a \in acts : a.reg.id # e
    BY <1>5 DEF InUse
  <2>2. \A x \in Exts : pending[x] # 0 /\ ~hostDisposed =>
            active[x] = 0 /\ \A a \in acts : a.reg.id # x
    BY DEF PInv, IInv, Apart
  <2> QED BY <1>3, <1>5, <2>1, <2>2
<1>10. \A x \in Exts : \/ known'[x] = known[x] /\ wait[x] = pending[x]
                       \/ ~InUse(x) /\ active[x] = 0 /\ known'[x] = entries[x] + 1
  BY <1>3, <1>4, <1>5 DEF n
<1>11. \A x \in Exts : known'[x] <= entries'[x] /\ entries[x] <= entries'[x] /\ entries'[x] \in Nat
  BY <1>1, <1>2, <1>4 DEF n
<1> QED BY <1>3, <1>5, <1>8, <1>9, <1>10, <1>11, FailuresKept

\* Whatever starts activations of registrations that are pending.
LEMMA PendingKept ==
    ASSUME PInv, FailedOnTheWay(pending, known'),
           UNCHANGED <<known, active, entries, hostDisposed>>
    PROVE  FailedAreOver' /\ EntriesCounted'
<1>1. pending \in [Exts -> Entries]
  BY DEF PInv, IInv, TypeOK
<1>2. \A e \in Exts : known'[e] <= entries'[e] /\ entries[e] <= entries'[e] /\ entries'[e] \in Nat
  BY EntriesAreNat DEF PInv, IInv, EntriesCounted
<1>3. \A e \in Exts : pending[e] # 0 /\ ~hostDisposed =>
          active[e] = 0 /\ \A a \in acts : a.reg.id # e
  BY DEF PInv, IInv, Apart
<1> QED BY <1>1, <1>2, <1>3, FailuresKept

LEMMA PendingFailures ==
    ASSUME IInv, NEW regs \in SUBSET RegsOf(pending), NEW replay, known' = known,
           activateRegistrations(regs, pending, replay)
    PROVE  FailedOnTheWay(pending, known')
<1>1. regs \in SUBSET Regs /\ Registered(regs, pending, known')
  BY PendingRegistered
<1>2. TypeOK /\ pending \in [Exts -> Entries]
  BY DEF IInv, TypeOK
<1> QED BY <1>1, <1>2, ActivateFailures

LEMMA PassFailures ==
    ASSUME IInv, NEW searches, known' = known, passOverFolders(searches)
    PROVE  FailedOnTheWay(pending, known')
<1>1. pendingMatching(requested) \in SUBSET RegsOf(pending)
  BY DEF pendingMatching
<1> QED BY <1>1, PendingFailures, NoFailures DEF passOverFolders

LEMMA SearchFailures ==
    ASSUME IInv, NEW r \in searching, SearchEnds(r)
    PROVE  FailedOnTheWay(pending, known')
<1>1. PICK found \in {{}, {r}} : activateRegistrations(found, pending, FALSE)
  BY DEF SearchEnds
<1>2. r \in Regs /\ known[r.id] = r.entry /\ known' = known
  BY DEF SearchEnds, IInv, TypeOK, Quiet, CallsKnown, Engaged
<1>3. found \in SUBSET Regs /\ Registered(found, pending, known')
  BY <1>2 DEF Registered, IInv, TypeOK, PendingKnown
<1>4. TypeOK /\ pending \in [Exts -> Entries]
  BY DEF IInv, TypeOK
<1> QED BY <1>1, <1>3, <1>4, ActivateFailures

LEMMA ResumeFailures ==
    ASSUME IInv, NEW w \in waiting, Resume(w)
    PROVE  FailedOnTheWay(pending, known')
<1>1. w.regs \in SUBSET Regs /\ known' = known /\ TypeOK /\ pending \in [Exts -> Entries]
  BY DEF Resume, IInv, TypeOK, Waits
<1>2. CASE ready[w.spawn] # "yes"
  BY <1>2, NoFailures DEF Resume
<1>3. CASE ready[w.spawn] = "yes"
  <2> DEFINE s == IF w.own THEN w.spawn ELSE spawn
  <2>1. StartAll(w.regs, s, pending, w.replay)
    BY <1>3 DEF Resume
  <2> HIDE DEF s
  <2>2. CASE hostDisposed
    <3>1. Taken(w.regs, pending) = {}
      BY <1>1, <2>2, TakenPending DEF IInv, Quiet
    <3>2. acts' = acts /\ failed' = failed /\ pending' = pending
      BY <1>1, <2>1, <3>1 DEF StartAll
    <3> QED BY <3>2, NoFailures
  <2>3. CASE ~hostDisposed
    <3>1. \A r \in w.regs : known[r.id] = r.entry
      BY <2>3 DEF IInv, CallsKnown, Engaged
    <3>2. Registered(w.regs, pending, known')
      BY <1>1, <3>1 DEF Registered, IInv, TypeOK, PendingKnown
    <3> HIDE DEF Resume, TypeOK, StartAll
    <3> QED BY <1>1, <2>1, <3>2, StartAllFailures
  <2> QED BY <2>2, <2>3
<1> QED BY <1>2, <1>3

-----------------------------------------------------------------------------
(* The other steps *)

\* Nothing that matters to the failed changes, or less is alive.
LEMMA QuietKept ==
    ASSUME PInv, failed' = failed, UNCHANGED <<known, entries, hostDisposed>>,
           \A e \in Exts : Alive(e)' => Alive(e)
    PROVE  FailedAreOver' /\ EntriesCounted'
<1>1. \A r \in failed : r.id \in Exts
  BY DEF PInv, IInv, TypeOK, Regs
<1> QED BY <1>1 DEF PInv, FailedAreOver, EntriesCounted, Engaged

LEMMA RemoveKept ==
    ASSUME PInv, NEW e \in Exts, removeExtension(e)
    PROVE  FailedAreOver' /\ EntriesCounted'
<1>1. /\ known' = [known EXCEPT ![e] = 0] /\ pending' = [pending EXCEPT ![e] = 0]
      /\ failed' \subseteq failed /\ acts' = acts /\ UNCHANGED <<entries, hostDisposed>>
      /\ active' = active \/ active' = [active EXCEPT ![e] = 0]
  BY DEF removeExtension, unregisterExtension, calls, ghosts
<1>2. \A x \in Exts : entries[x] \in Nat /\ 0 <= entries[x]
  BY EntriesAreNat DEF PInv, IInv
<1>3. EntriesCounted'
  BY <1>1, <1>2 DEF PInv, IInv, TypeOK, EntriesCounted
<1>4. ASSUME ~hostDisposed, NEW r \in failed, known'[r.id] = r.entry
      PROVE  /\ pending'[r.id] = 0 /\ active'[r.id] = 0
             /\ \A a \in acts : a.reg.id # r.id
  <2>1. r.id \in Exts /\ r.entry # 0
    BY DEF PInv, IInv, TypeOK, Regs
  <2>2. r.id # e /\ known[r.id] = r.entry
    BY <1>1, <1>4, <2>1 DEF PInv, IInv, TypeOK
  <2>3. ~Alive(r.id)
    BY <1>4, <2>2 DEF PInv, FailedAreOver, Engaged
  <2> QED BY <1>1, <2>1, <2>2, <2>3 DEF Alive, PInv, IInv, TypeOK
<1> QED BY <1>1, <1>3, <1>4 DEF FailedAreOver, Engaged, Alive

\* A revival makes pending what was active.
LEMMA RevivalKept ==
    ASSUME PInv, spawn # 0, armRevival, UNCHANGED <<known, entries, hostDisposed, acts, failed>>
    PROVE  FailedAreOver' /\ EntriesCounted'
<1>1. \A e \in Exts : pending'[e] # 0 \/ active'[e] # 0 => pending[e] # 0 \/ active[e] # 0
  BY DEF armRevival, Revived
<1>2. \A e \in Exts : Alive(e)' => Alive(e)
  BY <1>1 DEF Alive
<1> QED BY <1>2, QuietKept

LEMMA DisposeKept == ASSUME PInv, dispose PROVE FailedAreOver' /\ EntriesCounted'
<1>1. \A x \in Exts : entries[x] \in Nat /\ 0 <= entries[x]
  BY EntriesAreNat DEF PInv, IInv
<1> QED BY <1>1 DEF PInv, dispose, phasesCleared, ghosts, FailedAreOver, EntriesCounted

\* What is being activated has not failed, and is the only such activation.
LEMMA UnderWayUnfailed ==
    ASSUME PInv, ~hostDisposed, NEW a \in acts
    PROVE  /\ a.reg \notin failed /\ a.reg \in Regs /\ a.reg.id \in Exts
           /\ known[a.reg.id] = a.reg.entry /\ a.reg.entry # 0
           /\ pending[a.reg.id] = 0 /\ active[a.reg.id] = 0
           /\ \A b \in acts \ {a} : b.reg.id # a.reg.id
<1>1. a.reg \in Regs /\ a.reg.id \in Exts /\ known[a.reg.id] = a.reg.entry /\ a.reg.entry # 0
  BY DEF PInv, IInv, TypeOK, Activations, Regs, CallsKnown, Engaged
<1>2. a.reg \notin failed
  BY <1>1 DEF PInv, FailedAreOver, Engaged, Alive
<1> QED BY <1>1, <1>2 DEF PInv, IInv, Apart

LEMMA NotActivatedKept ==
    ASSUME PInv, NEW a \in acts, NotActivated(a),
           \/ failed' = failed
           \/ failed' = failed \cup {a.reg} /\ a.spawn = spawn
           \/ failed' = failed \cup {a.reg} /\ pending' = pending
    PROVE  FailedAreOver' /\ EntriesCounted'
<1>1. /\ acts' = acts \ {a} /\ UNCHANGED <<known, active, entries, hostDisposed>>
      /\ pending' = pending \/ pending' = [pending EXCEPT ![a.reg.id] = a.reg.entry]
      /\ failed' = failed \/ (failed' = failed \cup {a.reg} /\ pending' = pending)
  BY DEF NotActivated, returnInterrupted
<1>2. CASE hostDisposed
  BY <1>1, <1>2 DEF PInv, FailedAreOver, EntriesCounted
<1>3. CASE ~hostDisposed
  <2>1. /\ a.reg \notin failed /\ a.reg \in Regs /\ a.reg.id \in Exts
        /\ known[a.reg.id] = a.reg.entry /\ a.reg.entry # 0
        /\ pending[a.reg.id] = 0 /\ active[a.reg.id] = 0
        /\ \A b \in acts \ {a} : b.reg.id # a.reg.id
    BY <1>3, UnderWayUnfailed
  <2>2. EntriesCounted'
    BY <1>1, <1>3, <2>1 DEF PInv, EntriesCounted
  <2>3. ASSUME NEW r \in failed', known[r.id] = r.entry
        PROVE  /\ pending'[r.id] = 0 /\ active[r.id] = 0
               /\ \A b \in acts' : b.reg.id # r.id
    <3>1. CASE r \in failed
      <4>1. r.id \in Exts /\ r \in Regs /\ ~Alive(r.id)
        BY <1>3, <2>3, <3>1 DEF PInv, IInv, TypeOK, Regs, FailedAreOver, Engaged
      <4>2. r.id # a.reg.id
        BY <4>1 DEF Alive
      <4> QED BY <1>1, <4>1, <4>2 DEF Alive, PInv, IInv, TypeOK
    <3>2. CASE r \notin failed
      <4>1. r = a.reg /\ pending' = pending
        BY <1>1, <2>3, <3>2
      <4> QED BY <1>1, <2>1, <4>1
    <3> QED BY <3>1, <3>2
  <2>4. FailedAreOver'
    BY <1>1, <2>3 DEF FailedAreOver, Engaged, Alive
  <2> QED BY <2>2, <2>4
<1> QED BY <1>2, <1>3

LEMMA ActivatedKept ==
    ASSUME PInv, NEW a \in acts, Activated(a)
    PROVE  FailedAreOver' /\ EntriesCounted'
<1>1. /\ acts' = acts \ {a} /\ active' = [active EXCEPT ![a.reg.id] = a.reg.entry]
      /\ failed' = failed /\ UNCHANGED <<known, entries, hostDisposed, pending>>
  BY DEF Activated, ghosts
<1>2. \A e \in Exts : Alive(e)' => Alive(e)
  BY <1>1 DEF Alive, PInv, IInv, TypeOK
<1> QED BY <1>1, <1>2, QuietKept

LEMMA DependenciesSettledKept ==
    ASSUME PInv, NEW a \in acts, DependenciesSettled(a)
    PROVE  FailedAreOver' /\ EntriesCounted'
<1>1. CASE NotActivated(a) /\ a.spawn # spawn /\ failed' = failed
  BY <1>1, NotActivatedKept
<1>2. CASE NotActivated(a) /\ a.spawn = spawn /\ failed' = failed \cup {a.reg}
  BY <1>2, NotActivatedKept
<1>3. CASE /\ acts' = (acts \ {a}) \cup {[a EXCEPT !.sent = TRUE, !.awaits = {}]}
           /\ UNCHANGED <<phases, hostDisposed, ghosts>>
  <2>1. [a EXCEPT !.sent = TRUE, !.awaits = {}].reg = a.reg
    BY DEF PInv, IInv, TypeOK, Activations
  <2>2. \A e \in Exts : Alive(e)' => Alive(e)
    BY <1>3, <2>1 DEF Alive, phases
  <2> QED BY <1>3, <2>2, QuietKept DEF phases, ghosts
<1> QED BY <1>1, <1>2, <1>3 DEF DependenciesSettled

LEMMA ActivateFailsKept ==
    ASSUME PInv, NEW a \in acts, ActivateFails(a) \/ Rejected(a)
    PROVE  FailedAreOver' /\ EntriesCounted'
<1>1. NotActivated(a)
  BY DEF ActivateFails, Rejected
<1>2. failed' = failed \/ (failed' = failed \cup {a.reg} /\ a.spawn = spawn)
  <2>1. a.spawn = spawn => {r \in {a.reg} : a.spawn = spawn} = {a.reg}
    OBVIOUS
  <2>2. a.spawn # spawn => {r \in {a.reg} : a.spawn = spawn} = {}
    OBVIOUS
  <2> QED BY <2>1, <2>2 DEF ActivateFails, Rejected
<1> QED BY <1>1, <1>2, NotActivatedKept

\* Steps that start and end nothing.
LEMMA StillKept ==
    ASSUME PInv,
           UNCHANGED <<known, entries, hostDisposed, pending, active, acts, failed>>
    PROVE  FailedAreOver' /\ EntriesCounted'
BY QuietKept DEF Alive

LEMMA StepPInv == ASSUME ~Busy PROVE PInv /\ [Next]_vars => PInv'
<1> SUFFICES ASSUME PInv, [Next]_vars PROVE FailedAreOver' /\ EntriesCounted'
  BY NextInv DEF PInv
<1>0. IInv
  BY DEF PInv
<1> USE DEF phases, calls, ghosts, procs
<1>1. CASE Continuation
  <2>1. ASSUME NEW w \in waiting, Resume(w) PROVE FailedAreOver' /\ EntriesCounted'
    BY <1>0, <2>1, ResumeFailures, PendingKept DEF Resume
  <2>2. ASSUME NEW r \in replays, ReplayContinues(r) PROVE FailedAreOver' /\ EntriesCounted'
    BY <2>2, StillKept DEF ReplayContinues
  <2>3. ASSUME NEW caller \in passDue, FoldersPassed(caller)
        PROVE  FailedAreOver' /\ EntriesCounted'
    BY <1>0, <2>3, PassFailures, PendingKept DEF FoldersPassed
  <2> QED BY <1>1, <2>1, <2>2, <2>3, DependenciesSettledKept, ActivateFailsKept DEF Continuation
<1>2. CASE WindowStep
  <2>1. ASSUME NEW event \in Events, activateByEvent(event)
        PROVE  FailedAreOver' /\ EntriesCounted'
    <3>1. Woken(event) \in SUBSET RegsOf(pending)
      BY DEF Woken, pendingMatching
    <3> QED BY <1>0, <2>1, <3>1, PendingFailures, PendingKept DEF activateByEvent
  <2>2. ASSUME activateByWorkspaceContains PROVE FailedAreOver' /\ EntriesCounted'
    BY <1>0, <2>2, PassFailures, PendingKept DEF activateByWorkspaceContains
  <2>3. ASSUME restartForWorkspaceChange PROVE FailedAreOver' /\ EntriesCounted'
    <3>1. CASE passOverFolders({}) /\ UNCHANGED active
      BY <1>0, <2>3, <3>1, PassFailures, PendingKept DEF restartForWorkspaceChange
    <3>2. CASE spawn # 0 /\ armRevival /\ UNCHANGED <<acts, failed>>
      BY <2>3, <3>2, RevivalKept DEF restartForWorkspaceChange
    <3> QED BY <2>3, <3>1, <3>2 DEF restartForWorkspaceChange
  <2> QED BY <1>2, <2>1, <2>2, <2>3, RegisterKept, RemoveKept, DisposeKept DEF WindowStep
<1>3. CASE ProcessStep
  <2>1. ASSUME NEW s \in Spawns, Ready(s) PROVE FailedAreOver' /\ EntriesCounted'
    BY <2>1, StillKept DEF Ready
  <2>2. ASSUME NEW s \in Spawns, Exit(s) PROVE FailedAreOver' /\ EntriesCounted'
    <3>1. CASE s = spawn
      BY <2>2, <3>1, RevivalKept DEF Exit, Spawns
    <3>2. CASE s # spawn
      BY <2>2, <3>2, StillKept DEF Exit
    <3> QED BY <3>1, <3>2
  <2>3. ASSUME CommandStep PROVE FailedAreOver' /\ EntriesCounted'
    BY <2>3, StillKept DEF CommandStep, registerCommand, unregisterCommand, Deactivated
  <2> QED BY <1>3, <2>1, <2>2, <2>3, ActivatedKept, ActivateFailsKept DEF ProcessStep, CommandStep
<1>4. CASE \E r \in searching : SearchEnds(r)
  BY <1>0, <1>4, SearchFailures, PendingKept DEF SearchEnds
<1>5. CASE UNCHANGED vars
  BY <1>5, StillKept DEF vars
<1> QED BY <1>1, <1>2, <1>3, <1>4, <1>5 DEF Next

-----------------------------------------------------------------------------
(* The phase of each extension *)

\* None is lost, so that what is registered, active and failed tells the phase.
Seen(e, kn, ac, fa) ==
    IF kn[e] = 0 THEN "absent"
    ELSE IF ac[e] = kn[e] THEN "active"
    ELSE IF Reg(e, kn[e]) \in fa THEN "failed" ELSE "waiting"

seen(e) == Seen(e, known, active, failed)
seenNext(e) == Seen(e, known', active', failed')

LEMMA PhaseSeen ==
    ASSUME PInv, PInv'
    PROVE  /\ [e \in Exts |-> phaseOf(e)] = [e \in Exts |-> seen(e)]
           /\ [e \in Exts |-> phaseOf(e)]' = [e \in Exts |-> seenNext(e)]
<1>1. \A e \in Exts : phaseOf(e) = seen(e)
  BY DEF PInv, IInv, NoneForgotten, KnownIds, phaseOf, seen, Seen
<1>2. \A e \in Exts : phaseOf(e)' = seenNext(e)
  BY DEF PInv, IInv, NoneForgotten, KnownIds, phaseOf, seenNext, Seen
<1> QED BY <1>1, <1>2

\* What a step does to the phases, as the promise puts it.
seenWaiting == {e \in Exts : seen(e) = "waiting"}
Fails(S, p) ==
    \E F \in SUBSET S : \A e \in Exts : seenNext(e) = IF e \in F THEN "failed" ELSE p[e]

LEMMA PromiseSteps ==
    ASSUME PInv, PInv'
    PROVE  /\ (\A e \in Exts : seenNext(e) = seen(e)) => UNCHANGED [e \in Exts |-> phaseOf(e)]
           /\ Fails(seenWaiting, [e \in Exts |-> seen(e)]) => Promise!Fail
           /\ \A x \in Exts :
                 /\ /\ seen(x) \in {"absent", "failed"}
                    /\ Fails(seenWaiting \cup {x},
                             [[e \in Exts |-> seen(e)] EXCEPT ![x] = "waiting"])
                    => Promise!Register(x)
                 /\ /\ seen(x) = "waiting" /\ seenNext(x) = "active"
                    /\ \A e \in Exts \ {x} : seenNext(e) = seen(e)
                    => Promise!Activate(x)
                 /\ /\ seenNext(x) = "absent"
                    /\ \A e \in Exts \ {x} : seenNext(e) = seen(e)
                    => Promise!Remove(x)
           /\ (\A e \in Exts : seenNext(e) = IF seen(e) = "active" THEN "waiting" ELSE seen(e))
                 => Promise!Revive
           /\ (\A e \in Exts : seenNext(e) = "absent") => Promise!Close
<1> DEFINE p == [e \in Exts |-> phaseOf(e)]
<1>1. p = [e \in Exts |-> seen(e)] /\ p' = [e \in Exts |-> seenNext(e)]
  BY PhaseSeen
<1>2. \A e \in Exts : p[e] = seen(e)
  BY <1>1
<1>3. \A S, q : Fails(S, q) =>
         \E F \in SUBSET S : p' = [e \in Exts |-> IF e \in F THEN "failed" ELSE q[e]]
  BY <1>1 DEF Fails
<1>4. Promise!Waiting = seenWaiting /\ Promise!Active = {e \in Exts : seen(e) = "active"}
  BY <1>2 DEF Promise!Waiting, Promise!Active, seenWaiting
<1>5. \A S, q : Fails(S, q) => Promise!Failing(S, q)
  BY <1>3 DEF Promise!Failing
<1> HIDE DEF p
<1>6. Fails(seenWaiting, [e \in Exts |-> seen(e)]) => Promise!Fail
  BY <1>1, <1>4, <1>5 DEF Promise!Fail, p
<1>7. ASSUME NEW x \in Exts, seen(x) \in {"absent", "failed"},
             Fails(seenWaiting \cup {x}, [[e \in Exts |-> seen(e)] EXCEPT ![x] = "waiting"])
      PROVE  Promise!Register(x)
  BY <1>1, <1>2, <1>4, <1>5, <1>7 DEF Promise!Register, p
<1>8. ASSUME NEW x \in Exts, NEW q, seenNext(x) = q,
             \A e \in Exts \ {x} : seenNext(e) = seen(e)
      PROVE  p' = [p EXCEPT ![x] = q]
  BY <1>1, <1>8
<1>9. ASSUME NEW x \in Exts, seen(x) = "waiting", seenNext(x) = "active",
             \A e \in Exts \ {x} : seenNext(e) = seen(e)
      PROVE  Promise!Activate(x)
  BY <1>2, <1>8, <1>9 DEF Promise!Activate, p
<1>10. ASSUME NEW x \in Exts, seenNext(x) = "absent",
              \A e \in Exts \ {x} : seenNext(e) = seen(e)
       PROVE  Promise!Remove(x)
  BY <1>8, <1>10 DEF Promise!Remove, p
<1>11. (\A e \in Exts : seenNext(e) = IF seen(e) = "active" THEN "waiting" ELSE seen(e))
          => Promise!Revive
  BY <1>1, <1>2, <1>4 DEF Promise!Revive, p
<1>12. (\A e \in Exts : seenNext(e) = "absent") => Promise!Close
  BY <1>1 DEF Promise!Close, p
<1>13. (\A e \in Exts : seenNext(e) = seen(e)) => UNCHANGED [e \in Exts |-> phaseOf(e)]
  BY <1>1 DEF p
<1> QED BY <1>6, <1>7, <1>9, <1>10, <1>11, <1>12, <1>13

\* Continuations, events, searches and answers: at most, what waits fails.
LEMMA FailStep ==
    ASSUME PInv, PInv', known' = known, active' = active, failed \subseteq failed'
    PROVE  Promise!Fail
<1> DEFINE F == {e \in Exts : seen(e) = "waiting" /\ seenNext(e) = "failed"}
<1>1. \A e \in Exts : seenNext(e) = IF e \in F THEN "failed" ELSE seen(e)
  BY DEF seen, seenNext, Seen
<1>2. F \in SUBSET seenWaiting
  BY DEF seenWaiting
<1> HIDE DEF F
<1>3. Fails(seenWaiting, [e \in Exts |-> seen(e)])
  BY <1>1, <1>2 DEF Fails
<1> QED BY <1>3, PromiseSteps

LEMMA RegisterStep ==
    ASSUME ~Busy, PInv, PInv', NEW x \in Exts, registerExtension(x)
    PROVE  Promise!Register(x)
<1> DEFINE F == {e \in Exts : e \in seenWaiting \cup {x} /\ seenNext(e) = "failed"}
           q == [[e \in Exts |-> seen(e)] EXCEPT ![x] = "waiting"]
<1>1. /\ pending[x] = 0 /\ active[x] = 0 /\ ~InUse(x) /\ active' = active
      /\ known' = [known EXCEPT ![x] = entries[x] + 1]
      /\ known \in [Exts -> Entries] /\ entries[x] \in Nat
  BY EntriesAreNat DEF registerExtension, PInv, IInv, TypeOK
<1>2. failed \subseteq failed'
  BY DEF registerExtension, activateRegistrations, StartAll
<1>3. seen(x) \in {"absent", "failed"}
  <2>1. known[x] = 0 \/ Accounted(x)
    BY DEF PInv, IInv, NoneForgotten, KnownIds
  <2>2. \A a \in acts : a.reg # Reg(x, known[x])
    BY <1>1 DEF InUse, Reg
  <2> QED BY <1>1, <2>1, <2>2 DEF Accounted, seen, Seen
<1>4. seenNext(x) \in {"waiting", "failed"}
  <2>1. known'[x] # 0 /\ active'[x] = 0
    BY <1>1
  <2> QED BY <2>1 DEF seenNext, Seen
<1>5. \A e \in Exts \ {x} : seenNext(e) = seen(e) \/ (seen(e) = "waiting" /\ seenNext(e) = "failed")
  BY <1>1, <1>2 DEF seen, seenNext, Seen
<1>6. \A e \in Exts : q[e] = IF e = x THEN "waiting" ELSE seen(e)
  OBVIOUS
<1> HIDE DEF q
<1>7. \A e \in Exts : seenNext(e) = IF e \in F THEN "failed" ELSE q[e]
  BY <1>4, <1>5, <1>6 DEF seenWaiting
<1>8. F \in SUBSET (seenWaiting \cup {x})
  OBVIOUS
<1> HIDE DEF F
<1>9. Fails(seenWaiting \cup {x}, q)
  BY <1>7, <1>8 DEF Fails
<1> QED BY <1>3, <1>9, PromiseSteps DEF q

LEMMA RemoveStep ==
    ASSUME PInv, PInv', NEW x \in Exts, removeExtension(x)
    PROVE  Promise!Remove(x)
<1>1. /\ known' = [known EXCEPT ![x] = 0] /\ failed' = failed \ {Reg(x, known[x])}
      /\ known \in [Exts -> Entries] /\ active \in [Exts -> Entries]
      /\ active' = active \/ active' = [active EXCEPT ![x] = 0]
  BY DEF removeExtension, unregisterExtension, ghosts, PInv, IInv, TypeOK
<1>2. seenNext(x) = "absent" /\ \A e \in Exts \ {x} : seenNext(e) = seen(e)
  BY <1>1 DEF seen, seenNext, Seen, Reg
<1> QED BY <1>2, PromiseSteps

\* An activation succeeds; once the host is disposed nobody sees it.
LEMMA ActivatedStep ==
    ASSUME PInv, PInv', NEW a \in acts, Activated(a)
    PROVE  \/ \E x \in Exts : Promise!Activate(x)
           \/ UNCHANGED [e \in Exts |-> phaseOf(e)]
<1>1. /\ active' = [active EXCEPT ![a.reg.id] = a.reg.entry]
      /\ known' = known /\ failed' = failed /\ active \in [Exts -> Entries]
      /\ hostDisposed' = hostDisposed
  BY DEF Activated, ghosts, PInv, IInv, TypeOK
<1>2. CASE hostDisposed
  <2>1. \A e \in Exts : seenNext(e) = seen(e)
    BY <1>1, <1>2 DEF PInv, IInv, Quiet, seen, seenNext, Seen
  <2> QED BY <2>1, PromiseSteps
<1>3. CASE ~hostDisposed
  <2> DEFINE x == a.reg.id
  <2>1. /\ a.reg \notin failed /\ a.reg \in Regs /\ x \in Exts
        /\ known[x] = a.reg.entry /\ a.reg.entry # 0 /\ active[x] = 0
    BY <1>3, UnderWayUnfailed
  <2>2. a.reg = Reg(x, known[x])
    BY <2>1 DEF Reg, Regs
  <2> HIDE DEF x
  <2>3. seen(x) = "waiting"
    BY <2>1, <2>2 DEF seen, Seen
  <2>4. seenNext(x) = "active" /\ \A e \in Exts \ {x} : seenNext(e) = seen(e)
    BY <1>1, <2>1 DEF seen, seenNext, Seen, x
  <2> QED BY <2>1, <2>3, <2>4, PromiseSteps
<1> QED BY <1>2, <1>3

LEMMA ReviveStep ==
    ASSUME PInv, PInv', spawn # 0, armRevival, UNCHANGED <<known, hostDisposed, failed>>
    PROVE  Promise!Revive
<1>1. ~hostDisposed
  BY DEF PInv, IInv, Quiet
<1>2. /\ active' = [e \in Exts |-> 0] /\ known' = known /\ failed' = failed
      /\ \A e \in Exts : active[e] # 0 => active[e] = known[e]
  BY <1>1 DEF PInv, IInv, TypeOK, ActiveRuns, armRevival, Revived
<1>3. \A e \in Exts : known[e] # 0 /\ active[e] = known[e] => Reg(e, known[e]) \notin failed
  BY <1>1 DEF PInv, FailedAreOver, Engaged, Alive, Reg
<1>4. \A e \in Exts : seenNext(e) = IF seen(e) = "active" THEN "waiting" ELSE seen(e)
  BY <1>2, <1>3 DEF seen, seenNext, Seen
<1> QED BY <1>4, PromiseSteps

LEMMA CloseStep ==
    ASSUME PInv, PInv', dispose
    PROVE  Promise!Close
<1>1. \A e \in Exts : seenNext(e) = "absent"
  BY DEF dispose, phasesCleared, seenNext, Seen
<1> QED BY <1>1, PromiseSteps

-----------------------------------------------------------------------------
(* The refinement *)

LEMMA StepPromise ==
    ASSUME ~Busy
    PROVE  PInv /\ PInv' /\ [Next]_vars => [Promise!Next]_([e \in Exts |-> phaseOf(e)])
<1> DEFINE Kept == Promise!Next \/ UNCHANGED [e \in Exts |-> phaseOf(e)]
<1> SUFFICES ASSUME PInv, PInv', [Next]_vars PROVE Kept
  OBVIOUS
<1>1. ASSUME known' = known, active' = active, failed \subseteq failed' PROVE Kept
  BY <1>1, FailStep DEF Promise!Next
<1>2. ASSUME NEW a \in acts, Activated(a) PROVE Kept
  BY <1>2, ActivatedStep DEF Promise!Next
<1>3. ASSUME spawn # 0, armRevival, UNCHANGED <<known, hostDisposed, failed>> PROVE Kept
  BY <1>3, ReviveStep DEF Promise!Next
<1>4. ASSUME NEW e \in Exts, registerExtension(e) PROVE Kept
  BY <1>4, RegisterStep DEF Promise!Next
<1>5. ASSUME NEW e \in Exts, removeExtension(e) PROVE Kept
  BY <1>5, RemoveStep DEF Promise!Next
<1>6. ASSUME dispose PROVE Kept
  BY <1>6, CloseStep DEF Promise!Next
<1> HIDE DEF Kept
<1> USE DEF phases, calls, ghosts, procs
<1>7. \A regs, wait, replay : activateRegistrations(regs, wait, replay) => failed \subseteq failed'
  BY DEF activateRegistrations, StartAll
<1>8. \A searches : passOverFolders(searches) => failed \subseteq failed'
  BY <1>7 DEF passOverFolders
<1>9. CASE Continuation
  <2>1. ASSUME NEW w \in waiting, Resume(w) PROVE Kept
    BY <1>1, <2>1 DEF Resume, StartAll
  <2>2. ASSUME NEW a \in acts, DependenciesSettled(a) \/ Rejected(a) PROVE Kept
    BY <1>1, <2>2 DEF DependenciesSettled, Rejected, NotActivated
  <2>3. ASSUME NEW r \in replays, ReplayContinues(r) PROVE Kept
    BY <1>1, <2>3 DEF ReplayContinues
  <2>4. ASSUME NEW caller \in passDue, FoldersPassed(caller) PROVE Kept
    BY <1>1, <1>8, <2>4 DEF FoldersPassed
  <2> QED BY <1>9, <2>1, <2>2, <2>3, <2>4 DEF Continuation
<1>10. CASE WindowStep
  <2>1. ASSUME NEW event \in Events, activateByEvent(event) PROVE Kept
    BY <1>1, <1>7, <2>1 DEF activateByEvent
  <2>2. ASSUME activateByWorkspaceContains PROVE Kept
    BY <1>1, <1>8, <2>2 DEF activateByWorkspaceContains
  <2>3. ASSUME restartForWorkspaceChange PROVE Kept
    BY <1>1, <1>3, <1>8, <2>3 DEF restartForWorkspaceChange
  <2> QED BY <1>4, <1>5, <1>6, <1>10, <2>1, <2>2, <2>3 DEF WindowStep
<1>11. CASE ProcessStep
  <2>1. ASSUME NEW s \in Spawns, Ready(s) PROVE Kept
    BY <1>1, <2>1 DEF Ready
  <2>2. ASSUME NEW s \in Spawns, Exit(s) PROVE Kept
    BY <1>1, <1>3, <2>2 DEF Exit, Spawns
  <2>3. ASSUME CommandStep PROVE Kept
    BY <1>1, <2>3 DEF CommandStep, registerCommand, unregisterCommand, Deactivated
  <2>4. ASSUME NEW a \in acts, ActivateFails(a) PROVE Kept
    BY <1>1, <2>4 DEF ActivateFails, NotActivated
  <2> QED BY <1>2, <1>11, <2>1, <2>2, <2>3, <2>4 DEF ProcessStep, CommandStep
<1>12. CASE \E r \in searching : SearchEnds(r)
  BY <1>1, <1>7, <1>12 DEF SearchEnds
<1>13. CASE UNCHANGED vars
  BY <1>1, <1>13 DEF vars
<1> QED BY <1>9, <1>10, <1>11, <1>12, <1>13 DEF Next

LEMMA StartPromise == Init => Promise!Init
BY DEF Init, Promise!Init, phaseOf

\* The host keeps the promise of ExtensionPromise (extensionHost.ts,
\* extensionPhases.ts): an extension waits, is active or has failed; a failed
\* one is not tried again, and an active one stops being active only by its
\* removal or with all the others, when their subprocess ends.
THEOREM PromiseIsKept == ASSUME ~Busy PROVE Spec => KeepsPromise
<1>1. Spec => []PInv
  BY StartPInv, StepPInv, PTL DEF Spec
<1>2. Spec => Promise!Init
  BY StartPromise DEF Spec
<1>3. Spec => [][Promise!Next]_([e \in Exts |-> phaseOf(e)])
  BY <1>1, StepPromise, PTL DEF Spec
<1> QED BY <1>2, <1>3, PTL DEF KeepsPromise, Promise!Spec
=============================================================================

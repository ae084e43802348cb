------------------------- MODULE ExtensionHostProofs -------------------------
(***************************************************************************)
(* Proofs about ExtensionHost. For a host that is not restarted and loses  *)
(* no registration amid activations (~Busy): every extension is accounted  *)
(* for, what is active runs, what is asked for comes first, commands are   *)
(* there to wake it, and what was heard is picked up. For any host: a      *)
(* disposed one stays down.                                                *)
(***************************************************************************)
EXTENDS ExtensionHost, TLAPS

-----------------------------------------------------------------------------
(* The inductive invariant *)

Engaged(r) == known[r.id] = r.entry

\* What is pending is what is registered.
PendingKnown == \A e \in Exts : pending[e] # 0 => pending[e] = known[e]

\* Calls under way are about what is registered.
CallsKnown ==
    ~hostDisposed =>
        /\ \A a \in acts : Engaged(a.reg)
        /\ \A w \in waiting : \A r \in w.regs : Engaged(r)
        /\ \A r \in searching : Engaged(r)

\* An activation is in the current subprocess, or in one that is gone.
ActsHere ==
    ~hostDisposed => \A a \in acts :
        a.spawn \in Spawns /\ (a.spawn = spawn \/ proc[a.spawn] = "gone")

\* A call waits for the current subprocess, or for one that is gone.
WaitsHere ==
    ~hostDisposed => \A w \in waiting :
        w.spawn = spawn \/ (proc[w.spawn] = "gone" /\ ready[w.spawn] = "no")

CurrentLive == spawn # 0 => proc[spawn] = "live"

\* An extension is in one phase: pending, active, or in one activation.
Apart ==
    ~hostDisposed =>
        /\ \A e \in Exts : pending[e] = 0 \/ active[e] = 0
        /\ \A a \in acts : pending[a.reg.id] = 0 /\ active[a.reg.id] = 0
        /\ \A a, b \in acts : a.reg.id = b.reg.id => a = b

\* What runs is active, in the current subprocess.
RunningActive ==
    ~hostDisposed => \A s \in Spawns : \A e \in running[s] : s = spawn /\ active[e] # 0

\* After dispose nothing is left to start a subprocess for.
Quiet ==
    hostDisposed => /\ spawn = 0 /\ searching = {}
                    /\ \A e \in Exts : known[e] = 0 /\ pending[e] = 0

IInv ==
    /\ TypeOK /\ PendingKnown /\ CallsKnown /\ ActsHere /\ WaitsHere
    /\ CurrentLive /\ Quiet /\ Apart /\ RunningActive
    /\ ActiveRuns /\ ActivatedOnce /\ NoneForgotten

-----------------------------------------------------------------------------
(* Starting activations *)

\* Only pending extensions are taken.
LEMMA TakenPending ==
    ASSUME NEW regs \in SUBSET Regs, NEW wait \in [Exts -> Entries]
    PROVE  Taken(regs, wait) \subseteq {e \in Exts : wait[e] # 0}
<1> DEFINE P == {e \in Exts : wait[e] # 0}
<1>1. P \in SUBSET Exts
  OBVIOUS
<1>2. \A r \in regs : wait[r.id] # 0 => r.id \in P
  BY DEF Regs
<1>3. \A e \in P : {d \in Deps[e] : wait[d] # 0} \subseteq P
  BY ExtensionHostAssumption
<1> QED BY <1>1, <1>2, <1>3 DEF Taken

\* kn is what is registered once the step is done: as known, but for regs.
Registered(regs, wait, kn) ==
    /\ kn \in [Exts -> Entries]
    /\ \A r \in regs : kn[r.id] = r.entry
    /\ regs # {} => \A e \in Exts : (\E r \in regs : r.id = e) \/ kn[e] = known[e]
    /\ \A e \in Exts : wait[e] # 0 => wait[e] = kn[e]

\* What became of the activations asked for: who is not pending any more failed
\* or is being activated.
Started(wait, kn) ==
    /\ acts \subseteq acts' /\ acts' \subseteq Activations
    /\ \A a \in acts' \ acts : /\ kn[a.reg.id] = a.reg.entry
                               /\ wait[a.reg.id] # 0 /\ pending'[a.reg.id] = 0
    /\ \A a, b \in acts' \ acts : a.reg.id = b.reg.id => a = b
    /\ failed \subseteq failed' /\ failed' \subseteq Regs
    /\ pending' \in [Exts -> Entries]
    /\ \A e \in Exts : \/ pending'[e] = wait[e]
                       \/ /\ pending'[e] = 0
                          /\ \/ Reg(e, kn[e]) \in failed'
                             \/ \E a \in acts' : a.reg = Reg(e, kn[e])
    /\ replays' \subseteq SUBSET Requests

LEMMA StartAllStarts ==
    ASSUME TypeOK, NEW regs \in SUBSET Regs, NEW wait \in [Exts -> Entries],
           NEW kn, Registered(regs, wait, kn), regs # {} \/ kn = known,
           NEW s \in {0} \cup Spawns, NEW replay \in BOOLEAN,
           StartAll(regs, s, wait, replay)
    PROVE  Started(wait, kn) /\ \A a \in acts' \ acts : a.spawn = s
<1> DEFINE taken == Taken(regs, wait)
           begun == {e \in taken : Deps[e] \subseteq KnownIds}
           reg(e) == Reg(e, entryOf(regs, e))
           done(ids) == {<<reg(d), s>> : d \in ids \cap begun}
                          \cup {Request(a) : a \in {b \in acts : b.reg.id \in ids}}
<1>1. \A e \in taken : e \in Exts /\ wait[e] # 0
  BY TakenPending
<1>2. \A e \in taken : entryOf(regs, e) = kn[e]
  BY <1>1 DEF entryOf, Registered
<1>3. \A e \in taken : reg(e) = Reg(e, kn[e]) /\ reg(e) \in Regs
  <2> SUFFICES ASSUME NEW e \in taken PROVE reg(e) = Reg(e, kn[e]) /\ reg(e) \in Regs
    OBVIOUS
  <2>1. kn[e] \in Entries \ {0}
    BY <1>1 DEF Registered
  <2> QED BY <1>1, <1>2, <2>1 DEF Reg, Regs
<1>4. \A ids : done(ids) \in SUBSET Requests
  <2>1. \A a \in acts : Request(a) \in Requests
    BY DEF TypeOK, Activations, Request, Requests
  <2> QED BY <1>3, <2>1 DEF Requests
<1> HIDE DEF done, reg, taken
<1>5. /\ acts' = acts \cup {[reg |-> reg(e), spawn |-> s, sent |-> Deps[e] = {},
                             awaits |-> done(Deps[e])] : e \in begun}
      /\ failed' = failed \cup {reg(e) : e \in taken \ begun}
      /\ pending' = [e \in Exts |-> IF e \in taken THEN 0 ELSE wait[e]]
      /\ replays' = IF replay THEN replays \cup {done({r.id : r \in regs})} ELSE replays
  BY DEF StartAll, taken, reg, done
<1>6. acts' \subseteq Activations
  <2>1. ASSUME NEW e \in begun
        PROVE  [reg |-> reg(e), spawn |-> s, sent |-> Deps[e] = {},
                awaits |-> done(Deps[e])] \in Activations
    <3>1. reg(e) \in Regs /\ done(Deps[e]) \in SUBSET Requests /\ (Deps[e] = {}) \in BOOLEAN
      BY <1>3, <1>4
    <3> HIDE DEF begun
    <3> QED BY <3>1 DEF Activations
  <2>2. acts \subseteq Activations
    BY DEF TypeOK
  <2> QED BY <1>5, <2>1, <2>2
<1>7. \A a \in acts' \ acts : /\ kn[a.reg.id] = a.reg.entry /\ a.spawn = s
                              /\ wait[a.reg.id] # 0 /\ pending'[a.reg.id] = 0
  <2> SUFFICES ASSUME NEW a \in acts', a \notin acts
               PROVE  /\ kn[a.reg.id] = a.reg.entry /\ a.spawn = s
                      /\ wait[a.reg.id] # 0 /\ pending'[a.reg.id] = 0
    OBVIOUS
  <2>1. PICK e \in begun : a = [reg |-> reg(e), spawn |-> s, sent |-> Deps[e] = {},
                                awaits |-> done(Deps[e])]
    BY <1>5
  <2>2. e \in taken /\ a.reg = Reg(e, kn[e]) /\ a.spawn = s
    BY <1>3, <2>1
  <2>3. a.reg.id = e /\ a.reg.entry = kn[e]
    BY <2>2 DEF Reg
  <2> QED BY <1>1, <1>5, <2>2, <2>3
<1>12. \A a, b \in acts' \ acts : a.reg.id = b.reg.id => a = b
  <2> SUFFICES ASSUME NEW a \in acts', a \notin acts, NEW b \in acts', b \notin acts,
                      a.reg.id = b.reg.id
               PROVE  a = b
    OBVIOUS
  <2>1. PICK d \in begun : a = [reg |-> reg(d), spawn |-> s, sent |-> Deps[d] = {},
                                awaits |-> done(Deps[d])]
    BY <1>5
  <2>2. PICK e \in begun : b = [reg |-> reg(e), spawn |-> s, sent |-> Deps[e] = {},
                                awaits |-> done(Deps[e])]
    BY <1>5
  <2>3. a.reg.id = d /\ b.reg.id = e
    BY <1>3, <2>1, <2>2 DEF Reg
  <2> QED BY <2>1, <2>2, <2>3
<1>8. failed \subseteq failed' /\ failed' \subseteq Regs
  BY <1>3, <1>5 DEF TypeOK
<1>9. pending' \in [Exts -> Entries]
  BY <1>5 DEF Entries
<1>10. ASSUME NEW e \in Exts
       PROVE  \/ pending'[e] = wait[e]
              \/ /\ pending'[e] = 0
                 /\ Reg(e, kn[e]) \in failed' \/ \E a \in acts' : a.reg = Reg(e, kn[e])
  <2>1. CASE e \notin taken
    BY <1>5, <2>1
  <2>2. CASE e \in taken \ begun
    BY <1>3, <1>5, <2>2
  <2>3. CASE e \in begun
    <3>1. [reg |-> reg(e), spawn |-> s, sent |-> Deps[e] = {}, awaits |-> done(Deps[e])] \in acts'
      BY <1>5, <2>3
    <3> QED BY <1>3, <1>5, <2>3, <3>1
  <2> QED BY <2>1, <2>2, <2>3
<1>11. replays' \subseteq SUBSET Requests
  BY <1>4, <1>5 DEF TypeOK
<1> QED BY <1>5, <1>6, <1>7, <1>8, <1>9, <1>10, <1>11, <1>12 DEF Started

\* What a call of activateRegistrations does, whether it has a subprocess, waits
\* for one or starts one.
Outcome(regs, wait, kn) ==
    /\ Started(wait, kn)
    /\ ~hostDisposed => \A a \in acts' \ acts : a.spawn = spawn /\ spawn # 0
    /\ waiting' \subseteq Waits
    /\ \A w \in waiting' \ waiting : w.regs = regs /\ w.spawn = spawn'
    /\ ready' = ready /\ running' = running
    /\ \/ spawn' = spawn /\ proc' = proc
       \/ /\ regs # {} /\ spawn = 0 /\ spawn' \in Spawns
          /\ proc[spawn'] = "unused" /\ proc' = [proc EXCEPT ![spawn'] = "live"]
    /\ proxies' \subseteq Exts

\* Nothing was asked for: what waited still does.
LEMMA NothingStarts ==
    ASSUME TypeOK, NEW wait \in [Exts -> Entries], NEW kn,
           acts' = acts, failed' = failed, pending' = wait, replays' \subseteq SUBSET Requests
    PROVE  Started(wait, kn)
BY DEF TypeOK, Started

LEMMA ActivateOutcome ==
    ASSUME TypeOK, NEW regs \in SUBSET Regs, NEW wait \in [Exts -> Entries],
           NEW kn, Registered(regs, wait, kn), NEW replay \in BOOLEAN,
           activateRegistrations(regs, wait, replay)
    PROVE  Outcome(regs, wait, kn)
<1> DEFINE Await(s, own) ==
        /\ waiting' = waiting \cup
               {[regs |-> regs, spawn |-> s, own |-> own, replay |-> replay]}
        /\ pending' = wait /\ UNCHANGED <<acts, replays, failed>>
<1> USE DEF procs
<1>1. ASSUME NEW s \in Spawns, NEW own \in BOOLEAN, Await(s, own)
      PROVE  /\ Started(wait, kn) /\ acts' = acts
             /\ waiting' \subseteq Waits
             /\ \A w \in waiting' \ waiting : w.regs = regs /\ w.spawn = s
  <2>1. Started(wait, kn)
    BY <1>1, NothingStarts DEF TypeOK
  <2>2. [regs |-> regs, spawn |-> s, own |-> own, replay |-> replay] \in Waits
    BY DEF Waits
  <2> QED BY <1>1, <2>1, <2>2 DEF TypeOK
<1>2. CASE /\ regs = {}
           /\ pending' = wait
           /\ replays' = IF replay THEN replays \cup {{}} ELSE replays
           /\ UNCHANGED <<procs, proxies, waiting, acts, failed>>
  <2>1. replays' \subseteq SUBSET Requests
    BY <1>2 DEF TypeOK
  <2>2. Started(wait, kn)
    BY <1>2, <2>1, NothingStarts
  <2> QED BY <1>2, <2>2 DEF Outcome, TypeOK
<1>3. CASE /\ regs # {} /\ spawn = 0
           /\ \E s \in Spawns :
                  /\ proc[s] = "unused" /\ \A t \in 1..(s - 1) : proc[t] # "unused"
                  /\ spawn' = s
                  /\ proc' = [proc EXCEPT ![s] = "live"]
                  /\ Await(s, TRUE)
           /\ proxies' = {} /\ UNCHANGED <<ready, running>>
  <2>1. PICK s \in Spawns : proc[s] = "unused" /\ spawn' = s
                            /\ proc' = [proc EXCEPT ![s] = "live"] /\ Await(s, TRUE)
    BY <1>3
  <2> HIDE DEF Await
  <2> QED BY <1>1, <1>3, <2>1 DEF Outcome
<1>4. CASE regs # {} /\ spawn # 0 /\ ready[spawn] = "waiting" /\ Await(spawn, FALSE)
           /\ UNCHANGED <<procs, proxies>>
  <2>1. spawn \in Spawns
    BY <1>4 DEF TypeOK
  <2> HIDE DEF Await
  <2> QED BY <1>1, <1>4, <2>1 DEF Outcome, TypeOK
<1>5. CASE /\ regs # {} /\ spawn # 0 /\ StartAll(regs, spawn, wait, replay)
           /\ UNCHANGED <<waiting, procs, proxies>>
  <2>1. spawn \in {0} \cup Spawns
    BY DEF TypeOK
  <2>2. TypeOK
    OBVIOUS
  <2>3. StartAll(regs, spawn, wait, replay) /\ (regs # {} \/ kn = known)
    BY <1>5
  <2> HIDE DEF TypeOK, StartAll
  <2>4. Started(wait, kn) /\ \A a \in acts' \ acts : a.spawn = spawn
    BY <2>1, <2>2, <2>3, StartAllStarts
  <2> QED BY <1>5, <2>2, <2>4 DEF Outcome, TypeOK
<1>6. CASE /\ spawn # 0 /\ pending' = wait
           /\ UNCHANGED <<waiting, acts, replays, failed, procs, proxies>>
  <2>1. Started(wait, kn)
    BY <1>6, NothingStarts DEF TypeOK
  <2> QED BY <1>6, <2>1 DEF Outcome, TypeOK
<1> QED BY <1>2, <1>3, <1>4, <1>5, <1>6 DEF activateRegistrations

\* What else a step with such a call may change: a registration that nothing is
\* under way for, and the searches.
Frame(regs, wait) ==
    /\ active' = active /\ hostDisposed' = hostDisposed /\ retried' = retried
    /\ entries' \in [Exts -> Entries] /\ requested' \subseteq Events
    /\ replayPending' \in BOOLEAN /\ passDue' \subseteq {"replay", "restart"}
    /\ stubs' \subseteq Exts /\ searching' \subseteq Regs
    /\ leaving' \subseteq Regs /\ overtaken' \subseteq Regs
    /\ \A e \in Exts : \/ known'[e] = known[e] /\ wait[e] = pending[e]
                       \/ ~InUse(e) /\ active[e] = 0 /\ wait[e] = known'[e]
    /\ ~hostDisposed => \A r \in searching' : known'[r.id] = r.entry
    /\ hostDisposed => regs = {} /\ searching' = {} /\ known' = known /\ wait = pending

LEMMA OutcomeInv ==
    ASSUME IInv, NEW regs \in SUBSET Regs, NEW wait \in [Exts -> Entries],
           Registered(regs, wait, known'), Outcome(regs, wait, known'), Frame(regs, wait)
    PROVE  IInv'
<1> USE DEF IInv
<1>1. TypeOK'
  BY DEF TypeOK, Outcome, Started, Frame, Registered
<1>2. PendingKnown'
  BY DEF PendingKnown, Registered, Outcome, Started
<1>3. CallsKnown'
  <2> SUFFICES ASSUME ~hostDisposed
               PROVE  /\ \A a \in acts' : known'[a.reg.id] = a.reg.entry
                      /\ \A w \in waiting' : \A r \in w.regs : known'[r.id] = r.entry
                      /\ \A r \in searching' : known'[r.id] = r.entry
    BY DEF CallsKnown, Engaged, Frame
  <2>1. ASSUME NEW a \in acts PROVE known'[a.reg.id] = a.reg.entry
    <3>1. a.reg.id \in Exts /\ known[a.reg.id] = a.reg.entry /\ InUse(a.reg.id)
      BY DEF TypeOK, Activations, Regs, CallsKnown, Engaged, InUse
    <3> QED BY <3>1 DEF Frame
  <2>2. ASSUME NEW w \in waiting, NEW r \in w.regs PROVE known'[r.id] = r.entry
    <3>1. r.id \in Exts /\ known[r.id] = r.entry /\ InUse(r.id)
      BY DEF TypeOK, Waits, Regs, CallsKnown, Engaged, InUse
    <3> QED BY <3>1 DEF Frame
  <2> QED BY <2>1, <2>2 DEF Outcome, Started, Frame, Registered
<1>4. ActsHere'
  <2> SUFFICES ASSUME ~hostDisposed, NEW a \in acts'
               PROVE  a.spawn \in Spawns /\ (a.spawn = spawn' \/ proc'[a.spawn] = "gone")
    BY DEF ActsHere, Frame
  <2>1. a.spawn \in Spawns /\ (a.spawn = spawn \/ (a \in acts /\ proc[a.spawn] = "gone"))
    BY DEF ActsHere, Outcome, TypeOK
  <2>2. 0 \notin Spawns /\ (spawn' = spawn \/ spawn = 0)
    BY DEF Outcome, Spawns
  <2>3. \A s \in Spawns : proc[s] = "gone" => proc'[s] = "gone"
    BY DEF Outcome, TypeOK
  <2> QED BY <2>1, <2>2, <2>3
<1>5. WaitsHere'
  <2>1. \A w \in waiting : w.spawn \in Spawns
    BY DEF TypeOK, Waits
  <2>2. spawn' = spawn \/ spawn = 0
    BY DEF Outcome
  <2>3. \A s \in Spawns : proc[s] = "gone" => proc'[s] = "gone"
    BY DEF Outcome, TypeOK
  <2>4. 0 \notin Spawns
    BY DEF Spawns
  <2>5. \A w \in waiting' : w \in waiting \/ w.spawn = spawn'
    BY DEF Outcome
  <2> QED BY <2>1, <2>2, <2>3, <2>4, <2>5 DEF WaitsHere, Frame, Outcome
<1>6. CurrentLive'
  BY DEF CurrentLive, Outcome, TypeOK
<1>7. Quiet'
  BY DEF Quiet, Outcome, Started, Frame
<1>8. ActiveRuns'
  <2> SUFFICES ASSUME NEW e \in Exts, active[e] # 0, ~hostDisposed
               PROVE  active[e] = known'[e] /\ spawn' # 0 /\ e \in running'[spawn']
    BY DEF ActiveRuns, Frame
  <2>1. active[e] = known[e] /\ spawn # 0 /\ e \in running[spawn]
    BY DEF ActiveRuns
  <2>2. known'[e] = known[e]
    BY DEF Frame
  <2> QED BY <2>1, <2>2 DEF Outcome
<1>9. NoneForgotten'
  <2> SUFFICES ASSUME NEW e \in Exts, known'[e] # 0 PROVE Accounted(e)'
    BY DEF NoneForgotten, KnownIds
  <2>1. CASE pending'[e] # wait[e]
    BY <2>1 DEF Outcome, Started, Accounted
  <2>2. CASE pending'[e] = wait[e] /\ wait[e] = known'[e]
    BY <2>2 DEF Accounted
  <2>3. CASE pending'[e] = wait[e] /\ known'[e] = known[e] /\ wait[e] = pending[e]
    <3>1. Accounted(e)
      BY <2>3 DEF NoneForgotten, KnownIds
    <3>2. acts \subseteq acts' /\ failed \subseteq failed' /\ active' = active
      BY DEF Outcome, Started, Frame
    <3> QED BY <2>3, <3>1, <3>2 DEF Accounted
  <2> QED BY <2>1, <2>2, <2>3 DEF Frame
<1>10. Apart'
  <2> SUFFICES ASSUME ~hostDisposed PROVE Apart'
    BY DEF Apart, Frame
  <2>1. \A e \in Exts : pending'[e] = 0 \/ active'[e] = 0
    BY DEF Apart, Outcome, Started, Frame
  <2>2. ASSUME NEW a \in acts
        PROVE  a.reg.id \in Exts /\ wait[a.reg.id] = 0 /\ pending'[a.reg.id] = 0 /\ active'[a.reg.id] = 0
    <3>1. a.reg.id \in Exts /\ InUse(a.reg.id)
      BY DEF TypeOK, Activations, Regs, InUse
    <3>2. wait[a.reg.id] = 0 /\ active[a.reg.id] = 0
      BY <3>1 DEF Apart, Frame
    <3> QED BY <3>1, <3>2 DEF Frame, Outcome, Started
  <2>3. ASSUME NEW a \in acts', a \notin acts
        PROVE  wait[a.reg.id] # 0 /\ pending'[a.reg.id] = 0 /\ active'[a.reg.id] = 0
    <3>1. acts' \subseteq Activations /\ wait[a.reg.id] # 0 /\ pending'[a.reg.id] = 0
      BY <2>3 DEF Outcome, Started
    <3>2. a.reg.id \in Exts
      BY <3>1 DEF Activations, Regs
    <3> QED BY <3>1, <3>2 DEF Apart, Frame
  <2>4. \A a, b \in acts' : a.reg.id = b.reg.id => a = b
    BY <2>2, <2>3 DEF Apart, Outcome, Started
  <2> QED BY <2>1, <2>2, <2>3, <2>4 DEF Apart
<1>11. RunningActive'
  BY DEF RunningActive, Outcome, Frame, Spawns
<1>12. ActivatedOnce'
  <2>1. CASE hostDisposed
    <3>1. /\ acts \subseteq acts' /\ acts' \subseteq Activations
          /\ \A a \in acts' \ acts : wait[a.reg.id] # 0
      BY DEF Outcome, Started
    <3>2. \A a \in Activations : a.reg.id \in Exts
      BY DEF Activations, Regs
    <3>3. \A e \in Exts : wait[e] = 0
      BY <2>1 DEF Quiet, Frame
    <3>4. acts' = acts
      BY <3>1, <3>2, <3>3
    <3> QED BY <3>4 DEF ActivatedOnce, Outcome
  <2>2. CASE ~hostDisposed
    <3>1. \A a, b \in acts' : a.reg.id = b.reg.id => a = b
      BY <1>10, <2>2 DEF Apart, Frame
    <3>2. ASSUME NEW a \in acts', a \notin acts PROVE a.reg.id \notin running[a.spawn]
      <4>1. a.spawn = spawn /\ spawn \in Spawns
        BY <2>2, <3>2 DEF Outcome, TypeOK
      <4>2. active[a.reg.id] = 0
        BY <1>10, <2>2 DEF Apart, Frame
      <4> QED BY <2>2, <4>1, <4>2 DEF RunningActive
    <3> QED BY <3>1, <3>2 DEF ActivatedOnce, Outcome
  <2> QED BY <2>1, <2>2
<1> QED BY <1>1, <1>2, <1>3, <1>4, <1>5, <1>6, <1>7, <1>8, <1>9, <1>10, <1>11, <1>12

-----------------------------------------------------------------------------
(* Steps of the window *)

LEMMA InitInv == Init => IInv
<1> SUFFICES ASSUME Init PROVE IInv
  OBVIOUS
<1> USE DEF Init
<1>1. TypeOK
  BY DEF TypeOK, Entries
<1> QED BY <1>1 DEF IInv, PendingKnown, CallsKnown, ActsHere, WaitsHere, CurrentLive, Quiet,
             Apart, RunningActive, ActiveRuns, ActivatedOnce, NoneForgotten, KnownIds

\* Registrations that are pending are what is known.
LEMMA PendingRegistered ==
    ASSUME IInv, NEW regs \in SUBSET RegsOf(pending), known' = known
    PROVE  regs \in SUBSET Regs /\ Registered(regs, pending, known')
<1>1. \A r \in RegsOf(pending) : r \in Regs /\ known[r.id] = r.entry
  BY DEF IInv, TypeOK, PendingKnown, RegsOf, Reg, Regs
<1> QED BY <1>1 DEF IInv, TypeOK, PendingKnown, Registered

\* After dispose nothing is pending.
LEMMA NonePending == ASSUME IInv, hostDisposed PROVE RegsOf(pending) = {}
BY DEF IInv, Quiet, RegsOf

LEMMA RegisterInv ==
    ASSUME ~Busy, IInv, NEW e \in Exts, registerExtension(e)
    PROVE  IInv'
<1> DEFINE n == entries[e] + 1
           regs == IF heard(e) THEN {Reg(e, n)} ELSE {}
           wait == [pending EXCEPT ![e] = n]
<1> USE DEF registerExtension
<1>1. n \in Entries \ {0} /\ n \in Nat
  <2>1. entries[e] \in Nat
    BY ExtensionHostAssumption DEF IInv, TypeOK, Entries
  <2> QED BY <2>1, ExtensionHostAssumption DEF Entries
<1>2. wait \in [Exts -> Entries] /\ regs \in SUBSET Regs
  BY <1>1 DEF IInv, TypeOK, Reg, Regs
<1>3. known' = [known EXCEPT ![e] = n] /\ known' \in [Exts -> Entries]
  BY <1>1 DEF IInv, TypeOK
<1>4. Registered(regs, wait, known')
  <2>1. (\A r \in regs : r.id = e /\ r.entry = n) /\ (regs # {} => \E r \in regs : r.id = e)
    BY DEF Reg
  <2> HIDE DEF n, regs
  <2> QED BY <1>1, <1>3, <2>1 DEF IInv, TypeOK, PendingKnown, Registered
<1>5. activateRegistrations(regs, wait, FALSE)
  OBVIOUS
<1>6. Frame(regs, wait)
  <2>1. entries' \in [Exts -> Entries]
    BY <1>1 DEF IInv, TypeOK
  <2>2. stubs' \subseteq Exts /\ leaving' \subseteq Regs
    BY DEF IInv, TypeOK, Armed
  <2>5. overtaken' \subseteq Regs
    BY <1>1 DEF IInv, TypeOK, Reg, Regs
  <2>3. \A x \in Exts : \/ known'[x] = known[x] /\ wait[x] = pending[x]
                        \/ ~InUse(x) /\ active[x] = 0 /\ wait[x] = known'[x]
    BY <1>3 DEF IInv, TypeOK
  <2>4. \A r \in searching' : known'[r.id] = r.entry
    <3>1. \A r \in searching : r.id \in Exts /\ known[r.id] = r.entry /\ r.id # e
      BY DEF IInv, TypeOK, Regs, CallsKnown, Engaged, InUse
    <3> QED BY <1>3, <3>1 DEF IInv, TypeOK
  <2> HIDE DEF n, regs, wait
  <2> QED BY <2>1, <2>2, <2>3, <2>4, <2>5 DEF Frame, IInv, TypeOK
<1> HIDE DEF n, regs, wait
<1>7. Outcome(regs, wait, known')
  BY <1>2, <1>4, <1>5, ActivateOutcome DEF IInv
<1> QED BY <1>2, <1>4, <1>6, <1>7, OutcomeInv

\* A call about pending registrations that leaves what is registered alone.
LEMMA PendingCallInv ==
    ASSUME IInv, NEW regs \in SUBSET RegsOf(pending), NEW replay \in BOOLEAN,
           activateRegistrations(regs, pending, replay),
           UNCHANGED <<known, active, entries, hostDisposed, retried>>,
           requested' \subseteq Events, replayPending' \in BOOLEAN,
           passDue' \subseteq {"replay", "restart"}, stubs' \subseteq Exts,
           searching' \subseteq searching, UNCHANGED <<leaving, overtaken>>
    PROVE  IInv'
<1>1. regs \in SUBSET Regs /\ Registered(regs, pending, known')
  BY PendingRegistered
<1>2. pending \in [Exts -> Entries] /\ TypeOK
  BY DEF IInv, TypeOK
<1>3. Outcome(regs, pending, known')
  BY <1>1, <1>2, ActivateOutcome
<1>4. hostDisposed => regs = {} /\ searching = {}
  BY NonePending DEF IInv, Quiet
<1>5. Frame(regs, pending)
  BY <1>4 DEF Frame, IInv, TypeOK, CallsKnown, Engaged
<1> QED BY <1>1, <1>2, <1>3, <1>5, OutcomeInv

LEMMA EventInv ==
    ASSUME IInv, NEW event \in Events, activateByEvent(event)
    PROVE  IInv'
<1>1. Woken(event) \in SUBSET RegsOf(pending)
  BY DEF Woken, pendingMatching
<1>2. replayPending \in BOOLEAN
  BY DEF IInv, TypeOK
<1> QED BY <1>1, <1>2, PendingCallInv DEF activateByEvent, IInv, TypeOK

\* The pass over the folders, with what its callers leave alone.
LEMMA PassInv ==
    ASSUME IInv, NEW searches \in SUBSET searching, passOverFolders(searches),
           UNCHANGED <<known, active, entries, requested, hostDisposed, stubs, retried>>,
           UNCHANGED <<leaving, overtaken>>, passDue' \subseteq {"replay", "restart"}
    PROVE  IInv'
<1>1. CASE replayPending
  <2>1. pendingMatching(requested) \in SUBSET RegsOf(pending)
    BY DEF pendingMatching
  <2> QED BY <1>1, <2>1, PendingCallInv DEF passOverFolders, IInv, TypeOK
<1>2. CASE ~replayPending
  <2> DEFINE found == {r \in RegsOf(pending) : r.id \in Patterns}
  <2>1. /\ searching' = searches \cup found
        /\ UNCHANGED <<pending, procs, proxies, waiting, acts, replays, failed>>
        /\ replayPending' = FALSE
    BY <1>2 DEF passOverFolders
  <2>2. \A r \in found : r \in Regs /\ known[r.id] = r.entry
    BY DEF IInv, TypeOK, PendingKnown, RegsOf, Reg, Regs
  <2>3. hostDisposed => found = {}
    BY NonePending
  <2> HIDE DEF found
  <2>0. searching' \subseteq Regs
    BY <2>1, <2>2 DEF IInv, TypeOK
  <2>4. TypeOK'
    BY <2>0, <2>1 DEF IInv, TypeOK, procs
  <2>5. CallsKnown' /\ Quiet'
    BY <2>1, <2>2, <2>3 DEF IInv, CallsKnown, Engaged, Quiet, procs
  <2>6. /\ PendingKnown' /\ ActsHere' /\ WaitsHere' /\ CurrentLive' /\ Apart' /\ RunningActive'
        /\ ActiveRuns' /\ ActivatedOnce' /\ NoneForgotten'
    BY <2>1 DEF IInv, procs, PendingKnown, ActsHere, WaitsHere, CurrentLive, Apart, RunningActive,
                ActiveRuns, ActivatedOnce, NoneForgotten, KnownIds, Accounted
  <2> QED BY <2>4, <2>5, <2>6 DEF IInv
<1> QED BY <1>1, <1>2

LEMMA SearchInv ==
    ASSUME IInv, NEW r \in searching, SearchEnds(r)
    PROVE  IInv'
<1>1. PICK found \in {{}, {r}} : activateRegistrations(found, pending, FALSE)
  BY DEF SearchEnds
<1>2. r \in Regs /\ (~hostDisposed /\ known[r.id] = r.entry)
  BY DEF IInv, TypeOK, Quiet, CallsKnown, Engaged
<1>3. found \in SUBSET Regs /\ Registered(found, pending, known')
  BY <1>2 DEF SearchEnds, Registered, IInv, TypeOK, PendingKnown
<1>4. Outcome(found, pending, known')
  BY <1>1, <1>3, ActivateOutcome DEF IInv, TypeOK
<1>5. Frame(found, pending)
  BY <1>2 DEF SearchEnds, Frame, IInv, TypeOK, CallsKnown, Engaged
<1> QED BY <1>3, <1>4, <1>5, OutcomeInv DEF IInv, TypeOK

\* A removal: nothing is under way for the extension.
LEMMA RemoveInv ==
    ASSUME ~Busy, IInv, NEW e \in Exts, removeExtension(e)
    PROVE  IInv'
<1> USE DEF IInv, removeExtension, unregisterExtension, calls, ghosts
<1>1. /\ known' = [known EXCEPT ![e] = 0] /\ pending' = [pending EXCEPT ![e] = 0]
      /\ ~hostDisposed /\ ~InUse(e) /\ active' = [active EXCEPT ![e] = 0]
  <2>1. ~hostDisposed
    BY DEF Quiet
  <2>2. active' = [active EXCEPT ![e] = 0]
    BY <2>1 DEF Apart, TypeOK
  <2> QED BY <2>1, <2>2
<1>11. leaving' \subseteq Regs
  <2>1. active[e] # 0 => Reg(e, active[e]) \in Regs
    BY DEF TypeOK, Reg, Regs
  <2> QED BY <2>1 DEF TypeOK
<1>2. running' \in [Spawns -> SUBSET Exts] /\ \A s \in Spawns : running'[s] \subseteq running[s]
  BY DEF TypeOK
<1>3. \A s \in Spawns : \A x \in Exts \ {e} : x \in running[s] => x \in running'[s]
  BY DEF TypeOK
<1>4. TypeOK'
  BY <1>1, <1>2, <1>11 DEF TypeOK, Entries
<1>5. PendingKnown' /\ CurrentLive' /\ ActsHere' /\ WaitsHere' /\ Quiet'
  BY <1>1 DEF TypeOK, PendingKnown, CurrentLive, ActsHere, WaitsHere, Quiet
<1>6. CallsKnown'
  <2>1. \A a \in acts : a.reg.id \in Exts \ {e}
    BY <1>1 DEF TypeOK, Activations, Regs, InUse
  <2>2. \A w \in waiting : \A r \in w.regs : r.id \in Exts \ {e}
    BY <1>1 DEF TypeOK, Waits, Regs, InUse
  <2>3. \A r \in searching : r.id \in Exts \ {e}
    BY <1>1 DEF TypeOK, Regs, InUse
  <2> QED BY <1>1, <2>1, <2>2, <2>3 DEF CallsKnown, Engaged, TypeOK
<1>7. Apart' /\ ActivatedOnce'
  <2>1. \A a \in acts : a.reg.id \in Exts /\ a.spawn \in {0} \cup Spawns
    BY DEF TypeOK, Activations, Regs
  <2> QED BY <1>1, <1>2, <2>1 DEF Apart, ActivatedOnce, TypeOK
<1>8. RunningActive'
  <2> SUFFICES ASSUME NEW s \in Spawns, NEW x \in running'[s]
               PROVE  s = spawn /\ active'[x] # 0
    BY DEF RunningActive
  <2>1. x \in Exts /\ s = spawn /\ active[x] # 0
    BY <1>1, <1>2 DEF RunningActive, TypeOK
  <2>2. CASE active[e] = 0
    BY <1>1, <2>1, <2>2 DEF TypeOK
  <2>3. CASE active[e] # 0
    <3>1. pending[e] = 0
      BY <1>1, <2>3 DEF Apart
    <3>2. running' = [t \in Spawns |-> IF t = spawn THEN running[t] \ {e} ELSE running[t]]
      BY <2>3, <3>1
    <3>3. x # e
      BY <2>1, <3>2
    <3> QED BY <1>1, <2>1, <3>3 DEF TypeOK
  <2> QED BY <2>1, <2>2, <2>3
<1>9. ActiveRuns'
  BY <1>1, <1>3 DEF ActiveRuns, TypeOK
<1>10. NoneForgotten'
  BY <1>1 DEF NoneForgotten, KnownIds, Accounted, TypeOK, Reg
<1> QED BY <1>4, <1>5, <1>6, <1>7, <1>8, <1>9, <1>10

\* The end of the current subprocess makes everything active pending.
LEMMA RevivalInv ==
    ASSUME IInv, spawn # 0, armRevival, UNCHANGED <<known, entries, hostDisposed>>
    PROVE  /\ ~hostDisposed /\ spawn' = 0 /\ proxies' = {} /\ replayPending' = TRUE
           /\ leaving' = {} /\ stubs' \subseteq Exts
           /\ pending' \in [Exts -> Entries] /\ active' = [e \in Exts |-> 0]
           /\ PendingKnown'
           /\ \A e \in KnownIds : pending[e] = known[e] \/ active[e] = known[e] => pending'[e] = known[e]
           /\ \A e \in Exts : pending[e] = 0 /\ active[e] = 0 => pending'[e] = 0
<1> USE DEF IInv, armRevival, Revived, stubsArmed, replayArmed
<1>1. ~hostDisposed
  BY DEF Quiet
<1>2. /\ pending' = [e \in Exts |-> IF active[e] # 0 THEN active[e] ELSE pending[e]]
      /\ active' = [e \in Exts |-> 0]
  BY DEF TypeOK
<1>3. pending' \in [Exts -> Entries]
  BY <1>2 DEF TypeOK
<1>4. \A e \in Exts : active[e] # 0 => active[e] = known[e]
  BY <1>1 DEF ActiveRuns
<1>5. PendingKnown'
  BY <1>2, <1>4 DEF PendingKnown
<1>6. \A e \in KnownIds : pending[e] = known[e] \/ active[e] = known[e] => pending'[e] = known[e]
  BY <1>2, <1>4 DEF KnownIds
<1> QED BY <1>1, <1>2, <1>3, <1>5, <1>6 DEF TypeOK

\* A restart, without a subprocess or of the current one.
LEMMA RestartInv ==
    ASSUME ~Busy, IInv, restartForWorkspaceChange
    PROVE  IInv'
<1> USE DEF restartForWorkspaceChange
<1>1. /\ acts = {} /\ waiting = {}
      /\ UNCHANGED <<known, entries, requested, hostDisposed, passDue, retried, overtaken>>
  OBVIOUS
<1>2. CASE spawn = 0 /\ passOverFolders({}) /\ UNCHANGED <<active, stubs, leaving>>
  BY <1>1, <1>2, PassInv DEF IInv, TypeOK
<1>3. CASE /\ spawn # 0
           /\ proc' = [proc EXCEPT ![spawn] = "stopping"]
           /\ running' = [running EXCEPT ![spawn] = {}]
           /\ armRevival
           /\ searching' = {}
           /\ UNCHANGED <<ready, waiting, acts, replays, failed>>
  <2>1. /\ ~hostDisposed /\ spawn' = 0 /\ proxies' = {} /\ replayPending' = TRUE
        /\ leaving' = {} /\ stubs' \subseteq Exts
        /\ pending' \in [Exts -> Entries] /\ active' = [e \in Exts |-> 0]
        /\ PendingKnown'
        /\ \A e \in KnownIds : pending[e] = known[e] \/ active[e] = known[e] => pending'[e] = known[e]
    BY <1>1, <1>3, RevivalInv
  <2>2. TypeOK'
    BY <1>1, <1>3, <2>1 DEF IInv, TypeOK, Entries
  <2>3. RunningActive'
    BY <1>3, <2>1 DEF IInv, TypeOK, RunningActive
  <2>4. NoneForgotten'
    BY <1>1, <1>3, <2>1 DEF IInv, NoneForgotten, KnownIds, Accounted
  <2> QED BY <1>1, <1>3, <2>1, <2>2, <2>3, <2>4
             DEF IInv, CallsKnown, ActsHere, WaitsHere, CurrentLive, Quiet, Apart, ActiveRuns, ActivatedOnce
<1> QED BY <1>2, <1>3

LEMMA DisposeInv == ASSUME IInv, dispose PROVE IInv'
<1> USE DEF IInv, dispose, phasesCleared, ghosts
<1>1. TypeOK'
  BY DEF TypeOK, Entries
<1>2. ActivatedOnce'
  <2>1. \A a \in acts : a.spawn \in {0} \cup Spawns
    BY DEF TypeOK, Activations
  <2>2. \A s \in Spawns : running'[s] \subseteq running[s]
    BY DEF TypeOK
  <2> QED BY <2>1, <2>2 DEF ActivatedOnce
<1> QED BY <1>1, <1>2 DEF PendingKnown, CallsKnown, ActsHere, WaitsHere, CurrentLive, Quiet, Apart,
             RunningActive, ActiveRuns, NoneForgotten, KnownIds

-----------------------------------------------------------------------------
(* Steps of the subprocess *)

LEMMA ReadyInv == ASSUME IInv, NEW s \in Spawns, Ready(s) PROVE IInv'
<1> USE DEF IInv, Ready, Open, phases, calls, cmds, ghosts
<1>1. ready' \in [Spawns -> {"waiting", "yes", "no"}]
      /\ \A t \in Spawns : proc[t] = "gone" => ready'[t] = ready[t]
  BY DEF TypeOK
<1>2. TypeOK'
  BY <1>1 DEF TypeOK
<1>3. WaitsHere'
  BY <1>1 DEF WaitsHere, TypeOK, Waits
<1> QED BY <1>2, <1>3 DEF PendingKnown, CallsKnown, Engaged, ActsHere, CurrentLive, Quiet, Apart,
             RunningActive, ActiveRuns, ActivatedOnce, NoneForgotten, KnownIds, Accounted

\* What the subprocess says about commands and deactivations.
CommandStep ==
    \/ \E e \in Exts : registerCommand(e) \/ unregisterCommand(e)
    \/ \E r \in leaving : Deactivated(r)

LEMMA CommandInv == ASSUME IInv, CommandStep PROVE IInv'
<1>1. /\ UNCHANGED <<phases, requested, replayPending, hostDisposed, procs, calls, ghosts>>
      /\ stubs' \subseteq Exts /\ proxies' \subseteq Exts /\ leaving' \subseteq Regs
  BY DEF CommandStep, registerCommand, unregisterCommand, Deactivated, IInv, TypeOK
<1> USE <1>1 DEF IInv, phases, procs, calls, ghosts
<1>2. TypeOK'
  BY DEF TypeOK
<1> QED BY <1>2 DEF PendingKnown, CallsKnown, Engaged, ActsHere, WaitsHere, CurrentLive, Quiet, Apart,
             RunningActive, ActiveRuns, ActivatedOnce, NoneForgotten, KnownIds, Accounted

\* An open subprocess with an activation is the current one.
LEMMA OpenIsCurrent ==
    ASSUME IInv, ~hostDisposed, NEW a \in acts, Open(a.spawn)
    PROVE  a.spawn = spawn /\ spawn \in Spawns
BY DEF IInv, ActsHere, Open

LEMMA ActivatedInv == ASSUME IInv, NEW a \in acts, Activated(a) PROVE IInv'
<1> USE DEF IInv, Activated, cmds, ghosts
<1>1. a.reg.id \in Exts /\ a.reg.entry \in Entries \ {0} /\ a.spawn \in Spawns
  BY DEF TypeOK, Activations, Regs, Open
<1>2. TypeOK'
  BY <1>1 DEF TypeOK
<1>3. PendingKnown' /\ WaitsHere' /\ CurrentLive' /\ Quiet' /\ CallsKnown' /\ ActsHere'
  BY DEF PendingKnown, WaitsHere, CurrentLive, Quiet, CallsKnown, Engaged, ActsHere
<1>4. Apart'
  <2> SUFFICES ASSUME ~hostDisposed PROVE Apart'
    BY DEF Apart
  <2>1. \A b \in acts' : b.reg.id # a.reg.id /\ b.reg.id \in Exts
    BY DEF Apart, TypeOK, Activations, Regs
  <2> QED BY <1>1, <2>1 DEF Apart, TypeOK
<1>5. RunningActive'
  <2> SUFFICES ASSUME ~hostDisposed, NEW s \in Spawns, NEW x \in running'[s]
               PROVE  s = spawn /\ active'[x] # 0
    BY DEF RunningActive
  <2>1. CASE x \in running[s]
    <3>1. x \in Exts /\ s = spawn /\ active[x] # 0
      BY <2>1 DEF RunningActive, TypeOK
    <3> QED BY <1>1, <3>1 DEF TypeOK
  <2>2. CASE x \notin running[s]
    <3>1. s = a.spawn /\ x = a.reg.id
      BY <1>1, <2>2 DEF TypeOK
    <3> QED BY <1>1, <3>1, OpenIsCurrent DEF TypeOK
  <2> QED BY <2>1, <2>2
<1>6. ActiveRuns'
  <2> SUFFICES ASSUME ~hostDisposed, NEW e \in Exts, active'[e] # 0
               PROVE  active'[e] = known[e] /\ spawn # 0 /\ e \in running'[spawn]
    BY DEF ActiveRuns
  <2>1. a.spawn = spawn /\ spawn \in Spawns /\ known[a.reg.id] = a.reg.entry
    BY OpenIsCurrent DEF CallsKnown, Engaged
  <2>2. CASE e = a.reg.id
    BY <1>1, <2>1, <2>2 DEF TypeOK, Spawns
  <2>3. CASE e # a.reg.id
    BY <1>1, <2>1, <2>3 DEF TypeOK, ActiveRuns
  <2> QED BY <2>2, <2>3
<1>7. ActivatedOnce'
  <2> SUFFICES ASSUME NEW b \in acts'
               PROVE  b.spawn # 0 => b.reg.id \notin running'[b.spawn]
    BY DEF ActivatedOnce
  <2>1. b \in acts /\ b # a /\ b.spawn \in {0} \cup Spawns
    BY DEF TypeOK, Activations
  <2>2. ~(b.reg.id = a.reg.id /\ b.spawn = a.spawn)
    BY <2>1 DEF ActivatedOnce
  <2> QED BY <1>1, <2>1, <2>2 DEF ActivatedOnce, TypeOK
<1>8. NoneForgotten'
  <2> SUFFICES ASSUME NEW e \in Exts, known[e] # 0 PROVE Accounted(e)'
    BY DEF NoneForgotten, KnownIds
  <2>1. ~hostDisposed
    BY DEF Quiet
  <2>2. CASE e = a.reg.id
    BY <1>1, <2>1, <2>2 DEF TypeOK, CallsKnown, Engaged, Accounted
  <2>3. CASE e # a.reg.id
    <3>1. Accounted(e)
      BY DEF NoneForgotten, KnownIds
    <3>2. \A b \in acts : b.reg = Reg(e, known[e]) => b \in acts'
      BY <2>3 DEF Reg
    <3> QED BY <1>1, <2>3, <3>1, <3>2 DEF TypeOK, Accounted
  <2> QED BY <2>2, <2>3
<1> QED BY <1>2, <1>3, <1>4, <1>5, <1>6, <1>7, <1>8

\* An activation that ended without success: its registration failed, or waits
\* again.
LEMMA NotActivatedInv ==
    ASSUME IInv, NEW a \in acts, NotActivated(a),
           failed \subseteq failed', failed' \subseteq Regs,
           ~hostDisposed /\ a.spawn = spawn => a.reg \in failed'
    PROVE  IInv'
<1> USE DEF IInv, NotActivated, cmds, procs, returnInterrupted
<1>1. a.reg.id \in Exts /\ a.reg.entry \in Entries \ {0} /\ a.reg \in Regs
  BY DEF TypeOK, Activations, Regs
<1>2. /\ \/ pending' = pending
         \/ known[a.reg.id] = a.reg.entry /\ pending' = [pending EXCEPT ![a.reg.id] = a.reg.entry]
      /\ retried' \subseteq Regs
  BY <1>1 DEF TypeOK
<1>3. hostDisposed => pending' = pending
  BY <1>1, <1>2 DEF Quiet
<1>4. TypeOK'
  BY <1>1, <1>2 DEF TypeOK
<1>5. PendingKnown' /\ Quiet' /\ WaitsHere' /\ CurrentLive' /\ CallsKnown' /\ ActsHere'
      /\ RunningActive' /\ ActiveRuns' /\ ActivatedOnce'
  BY <1>1, <1>2, <1>3 DEF TypeOK, PendingKnown, Quiet, WaitsHere, CurrentLive, CallsKnown, Engaged,
                          ActsHere, RunningActive, ActiveRuns, ActivatedOnce
<1>6. Apart'
  <2> SUFFICES ASSUME ~hostDisposed PROVE Apart'
    BY DEF Apart
  <2>1. \A b \in acts' : b.reg.id # a.reg.id /\ b.reg.id \in Exts
    BY DEF Apart, TypeOK, Activations, Regs
  <2> QED BY <1>1, <1>2, <2>1 DEF Apart, TypeOK
<1>7. NoneForgotten'
  <2> SUFFICES ASSUME NEW e \in Exts, known[e] # 0 PROVE Accounted(e)'
    BY DEF NoneForgotten, KnownIds
  <2>1. ~hostDisposed
    BY DEF Quiet
  <2>2. CASE e = a.reg.id
    <3>1. known[e] = a.reg.entry /\ a.reg = Reg(e, known[e])
      BY <1>1, <2>1, <2>2 DEF CallsKnown, Engaged, Reg, Regs
    <3>2. CASE a.spawn = spawn
      BY <2>1, <3>1, <3>2 DEF Accounted
    <3>3. CASE a.spawn # spawn
      BY <1>1, <2>2, <3>1, <3>3 DEF TypeOK, Accounted
    <3> QED BY <3>2, <3>3
  <2>3. CASE e # a.reg.id
    <3>1. Accounted(e)
      BY DEF NoneForgotten, KnownIds
    <3>2. \A b \in acts : b.reg = Reg(e, known[e]) => b \in acts'
      BY <2>3 DEF Reg
    <3>3. pending'[e] = pending[e]
      BY <1>2, <2>3 DEF TypeOK
    <3> QED BY <3>1, <3>2, <3>3 DEF Accounted
  <2> QED BY <2>2, <2>3
<1> QED BY <1>4, <1>5, <1>6, <1>7

LEMMA ActivateFailsInv == ASSUME IInv, NEW a \in acts, ActivateFails(a) PROVE IInv'
<1>1. a.reg \in Regs
  BY DEF IInv, TypeOK, Activations
<1> QED BY <1>1, NotActivatedInv DEF ActivateFails, IInv, TypeOK

\* The current subprocess rejects nothing: it is alive.
LEMMA RejectedInv == ASSUME IInv, NEW a \in acts, Rejected(a) PROVE IInv'
<1>1. ~hostDisposed => a.spawn # spawn
  <2> SUFFICES ASSUME ~hostDisposed, a.spawn = spawn PROVE FALSE
    OBVIOUS
  <2>1. spawn \in Spawns /\ spawn # 0
    BY DEF IInv, ActsHere, Spawns
  <2> QED BY <2>1 DEF IInv, CurrentLive, Rejected, Open
<1> QED BY <1>1, NotActivatedInv DEF Rejected, IInv, TypeOK

LEMMA DependenciesSettledInv == ASSUME IInv, NEW a \in acts, DependenciesSettled(a) PROVE IInv'
<1> USE DEF DependenciesSettled
<1>1. CASE a.spawn # spawn /\ NotActivated(a) /\ UNCHANGED failed
  BY <1>1, NotActivatedInv DEF IInv, TypeOK
<1>2. CASE NotActivated(a) /\ failed' = failed \cup {a.reg}
  <2>1. a.reg \in Regs
    BY DEF IInv, TypeOK, Activations
  <2> QED BY <1>2, <2>1, NotActivatedInv DEF IInv, TypeOK
<1>3. CASE /\ acts' = (acts \ {a}) \cup {[a EXCEPT !.sent = TRUE, !.awaits = {}]}
           /\ UNCHANGED <<phases, requested, replayPending, hostDisposed, procs,
                          waiting, searching, replays, passDue, cmds, ghosts>>
  <2> DEFINE c == [a EXCEPT !.sent = TRUE, !.awaits = {}]
  <2>1. a \in Activations
    BY DEF IInv, TypeOK
  <2>2. c \in Activations /\ c.reg = a.reg /\ c.spawn = a.spawn
    BY <2>1 DEF Activations
  <2>3. acts' = (acts \ {a}) \cup {c}
    BY <1>3
  <2> HIDE DEF c
  <2> USE <1>3, <2>2, <2>3 DEF IInv, phases, procs, cmds, ghosts
  <2>4. TypeOK'
    BY DEF TypeOK
  <2>5. CallsKnown' /\ ActsHere' /\ Apart' /\ ActivatedOnce'
    BY DEF CallsKnown, Engaged, ActsHere, Apart, ActivatedOnce
  <2>6. NoneForgotten'
    <3> SUFFICES ASSUME NEW e \in Exts, known[e] # 0 PROVE Accounted(e)'
      BY DEF NoneForgotten, KnownIds
    <3>1. Accounted(e)
      BY DEF NoneForgotten, KnownIds
    <3> QED BY <3>1 DEF Accounted
  <2> QED BY <2>4, <2>5, <2>6 DEF PendingKnown, WaitsHere, CurrentLive, Quiet, RunningActive, ActiveRuns
<1> QED BY <1>1, <1>2, <1>3

\* Nothing is taken once nothing is pending.
LEMMA NothingTaken ==
    ASSUME TypeOK, NEW regs \in SUBSET Regs, NEW s, NEW replay \in BOOLEAN,
           StartAll(regs, s, pending, replay), \A e \in Exts : pending[e] = 0
    PROVE  acts' = acts /\ failed' = failed /\ pending' = pending /\ replays' \subseteq SUBSET Requests
<1>1. Taken(regs, pending) = {}
  BY TakenPending DEF TypeOK
<1>2. acts' = acts /\ failed' = failed /\ pending' = pending
  BY <1>1 DEF StartAll, TypeOK
<1>3. \A a \in acts : Request(a) \in Requests
  BY DEF TypeOK, Activations, Request, Requests
<1>4. replays' \subseteq SUBSET Requests
  <2> DEFINE done(ids) == {Request(a) : a \in {b \in acts : b.reg.id \in ids}}
  <2>1. \/ replays' = replays
        \/ replays' = replays \cup {{} \cup done({r.id : r \in regs})}
    BY <1>1 DEF StartAll
  <2>2. \A ids : done(ids) \subseteq Requests
    BY <1>3
  <2>3. {} \cup done({r.id : r \in regs}) \in SUBSET Requests
    BY <2>2
  <2>4. replays \subseteq SUBSET Requests
    BY DEF TypeOK
  <2> HIDE DEF done
  <2> QED BY <2>1, <2>3, <2>4
<1> QED BY <1>2, <1>4

LEMMA ResumeInv == ASSUME IInv, NEW w \in waiting, Resume(w) PROVE IInv'
<1> USE DEF Resume
<1>1. w \in Waits /\ w.regs \in SUBSET Regs /\ w.spawn \in Spawns /\ w.replay \in BOOLEAN
  BY DEF IInv, TypeOK, Waits
<1>2. /\ waiting' \subseteq waiting /\ UNCHANGED procs /\ proxies' \subseteq Exts
      /\ known' = known /\ hostDisposed' = hostDisposed /\ pending \in [Exts -> Entries]
  BY DEF IInv, TypeOK, cmds
<1>3. ASSUME NEW regs \in SUBSET Regs, Registered(regs, pending, known'), Started(pending, known'),
             ~hostDisposed => (\A r \in regs : known[r.id] = r.entry)
                                /\ \A a \in acts' \ acts : a.spawn = spawn /\ spawn # 0,
             hostDisposed => regs = {}
      PROVE  IInv'
  <2>1. Outcome(regs, pending, known')
    BY <1>2, <1>3 DEF Outcome, IInv, TypeOK, procs
  <2>2. Frame(regs, pending)
    BY <1>2, <1>3 DEF Frame, IInv, TypeOK, CallsKnown, Engaged, Quiet, cmds
  <2> QED BY <1>2, <1>3, <2>1, <2>2, OutcomeInv
<1>4. CASE acts' = acts /\ failed' = failed /\ pending' = pending /\ replays' \subseteq SUBSET Requests
  <2>1. Started(pending, known')
    BY <1>2, <1>4 DEF IInv, TypeOK, Started
  <2>2. Registered({}, pending, known')
    BY <1>2 DEF Registered, IInv, TypeOK, PendingKnown
  <2> QED BY <1>3, <1>4, <2>1, <2>2
<1>5. CASE ready[w.spawn] = "yes"
  <2> DEFINE s == IF w.own THEN w.spawn ELSE spawn
  <2>1. StartAll(w.regs, s, pending, w.replay)
    BY <1>5
  <2>2. CASE hostDisposed
    BY <1>1, <1>4, <2>1, <2>2, NothingTaken DEF IInv, Quiet
  <2>3. CASE ~hostDisposed
    <3>1. s = spawn /\ spawn \in Spawns /\ spawn # 0
      BY <1>1, <1>5, <2>3 DEF IInv, WaitsHere, Spawns
    <3>2. \A r \in w.regs : known[r.id] = r.entry
      BY <2>3 DEF IInv, CallsKnown, Engaged
    <3>3. Registered(w.regs, pending, known')
      BY <1>2, <3>2 DEF Registered, IInv, TypeOK, PendingKnown
    <3>4. Started(pending, known') /\ \A a \in acts' \ acts : a.spawn = spawn
      <4>1. TypeOK /\ StartAll(w.regs, spawn, pending, w.replay)
        BY <2>1, <3>1 DEF IInv
      <4>2. ASSUME NEW regs \in SUBSET Regs, NEW replay \in BOOLEAN,
                   StartAll(regs, spawn, pending, replay), Registered(regs, pending, known')
            PROVE  Started(pending, known') /\ \A a \in acts' \ acts : a.spawn = spawn
        <5> HIDE DEF Resume, s
        <5>1. known' = known /\ pending \in [Exts -> Entries] /\ spawn \in {0} \cup Spawns
          BY <1>2, <3>1
        <5> QED BY <4>1, <4>2, <5>1, StartAllStarts
      <4> QED BY <1>1, <3>3, <4>1, <4>2
    <3> QED BY <1>1, <1>3, <2>3, <3>1, <3>2, <3>3, <3>4
  <2> QED BY <2>2, <2>3
<1>6. CASE ready[w.spawn] # "yes"
  BY <1>4, <1>6 DEF IInv, TypeOK
<1> QED BY <1>5, <1>6

LEMMA ReplayInv == ASSUME IInv, NEW r \in replays, ReplayContinues(r) PROVE IInv'
<1> USE DEF IInv, ReplayContinues, phases, procs, cmds, ghosts
<1>1. TypeOK'
  BY DEF TypeOK
<1> QED BY <1>1 DEF PendingKnown, CallsKnown, Engaged, ActsHere, WaitsHere, CurrentLive, Quiet, Apart,
             RunningActive, ActiveRuns, ActivatedOnce, NoneForgotten, KnownIds, Accounted

LEMMA FoldersPassedInv ==
    ASSUME IInv, NEW caller \in passDue, FoldersPassed(caller)
    PROVE  IInv'
BY PassInv DEF FoldersPassed, IInv, TypeOK

LEMMA WorkspaceContainsInv == IInv /\ activateByWorkspaceContains => IInv'
BY PassInv DEF activateByWorkspaceContains, IInv, TypeOK

\* No call waits for a subprocess that is ready when it exits.
LEMMA ExitInv == ASSUME IInv, Settled, NEW s \in Spawns, Exit(s) PROVE IInv'
<1> USE DEF Exit
<1>1. /\ proc' = [proc EXCEPT ![s] = "gone"]
      /\ running' = [running EXCEPT ![s] = {}]
      /\ UNCHANGED <<known, entries, requested, hostDisposed, waiting, searching, acts, replays, ghosts>>
      /\ passDue' \subseteq {"replay", "restart"}
  BY DEF IInv, TypeOK
<1>2. /\ ready' \in [Spawns -> {"waiting", "yes", "no"}]
      /\ \A t \in Spawns : ready'[t] = ready[t] \/ (t = s /\ ready'[s] = "no")
  BY DEF IInv, TypeOK
<1>3. WaitsHere' \/ ~(spawn' = spawn \/ spawn = s)
  <2> SUFFICES ASSUME ~hostDisposed, NEW w \in waiting, spawn' = spawn \/ spawn = s
               PROVE  w.spawn = spawn' \/ (proc'[w.spawn] = "gone" /\ ready'[w.spawn] = "no")
    BY <1>1 DEF WaitsHere
  <2>1. w.spawn \in Spawns /\ ready[w.spawn] = "waiting"
    BY DEF IInv, TypeOK, Waits, Settled
  <2>2. w.spawn = spawn
    BY <2>1 DEF IInv, WaitsHere
  <2>3. CASE spawn = s
    BY <2>1, <2>2, <2>3 DEF IInv, TypeOK
  <2> QED BY <2>2, <2>3
<1>4. \A t \in Spawns : running'[t] \subseteq running[t]
  BY <1>1 DEF IInv, TypeOK
<1>5. ActivatedOnce'
  <2>1. \A a \in acts : a.spawn \in {0} \cup Spawns
    BY DEF IInv, TypeOK, Activations
  <2> QED BY <1>1, <1>4, <2>1 DEF IInv, ActivatedOnce
<1>6. CASE s = spawn
  <2>1. spawn # 0
    BY <1>6 DEF Spawns
  <2>2. /\ ~hostDisposed /\ spawn' = 0 /\ proxies' = {} /\ replayPending' = TRUE
        /\ leaving' = {} /\ stubs' \subseteq Exts
        /\ pending' \in [Exts -> Entries] /\ active' = [e \in Exts |-> 0]
        /\ PendingKnown'
        /\ \A e \in KnownIds : pending[e] = known[e] \/ active[e] = known[e] => pending'[e] = known[e]
        /\ \A e \in Exts : pending[e] = 0 /\ active[e] = 0 => pending'[e] = 0
    BY <1>1, <1>6, <2>1, RevivalInv
  <2>3. TypeOK'
    BY <1>1, <1>2, <2>2 DEF IInv, TypeOK, Entries, ghosts, Regs
  <2>4. ActsHere' /\ CallsKnown'
    BY <1>1, <1>6, <2>2 DEF IInv, TypeOK, ActsHere, CallsKnown, Engaged
  <2>5. RunningActive'
    BY <1>1, <1>6, <2>2 DEF IInv, TypeOK, RunningActive
  <2>6. Apart'
    <3>1. \A a \in acts : a.reg.id \in Exts
      BY DEF IInv, TypeOK, Activations, Regs
    <3> QED BY <1>1, <2>2, <3>1 DEF IInv, Apart
  <2>7. NoneForgotten'
    BY <1>1, <2>2 DEF IInv, NoneForgotten, KnownIds, Accounted, ghosts
  <2> QED BY <1>1, <1>3, <1>5, <1>6, <2>2, <2>3, <2>4, <2>5, <2>6, <2>7
             DEF IInv, CurrentLive, Quiet, ActiveRuns
<1>7. CASE s # spawn
  <2>1. UNCHANGED <<pending, active, replayPending, cmds, spawn>>
    BY <1>7
  <2>2. TypeOK'
    BY <1>1, <1>2, <2>1 DEF IInv, TypeOK, cmds, ghosts
  <2>3. ActsHere' /\ CurrentLive' /\ RunningActive' /\ ActiveRuns'
    BY <1>1, <1>4, <1>7, <2>1 DEF IInv, TypeOK, ActsHere, CurrentLive, RunningActive, ActiveRuns
  <2> QED BY <1>1, <1>3, <1>5, <2>1, <2>2, <2>3
             DEF IInv, PendingKnown, CallsKnown, Engaged, Quiet, Apart, NoneForgotten, KnownIds, Accounted, ghosts
<1> QED BY <1>6, <1>7

-----------------------------------------------------------------------------
(* The theorems *)

\* Every step keeps the invariant.
LEMMA NextInv == ASSUME ~Busy PROVE IInv /\ [Next]_vars => IInv'
<1> SUFFICES ASSUME IInv, [Next]_vars PROVE IInv'
  OBVIOUS
<1>1. CASE Continuation
  BY <1>1, ResumeInv, DependenciesSettledInv, RejectedInv, ReplayInv, FoldersPassedInv
     DEF Continuation
<1>2. CASE WindowStep
  BY <1>2, RegisterInv, RemoveInv, EventInv, WorkspaceContainsInv, RestartInv, DisposeInv
     DEF WindowStep
<1>3. CASE Settled /\ ProcessStep
  BY <1>3, ReadyInv, ExitInv, CommandInv, ActivatedInv, ActivateFailsInv DEF ProcessStep, CommandStep
<1>4. CASE \E r \in searching : SearchEnds(r)
  BY <1>4, SearchInv
<1>5. CASE UNCHANGED vars
  <2> USE <1>5 DEF IInv, vars, phases, procs, calls, cmds, ghosts
  <2>1. TypeOK'
    BY DEF TypeOK
  <2> QED BY <2>1 DEF PendingKnown, CallsKnown, Engaged, ActsHere, WaitsHere, CurrentLive, Quiet,
               Apart, RunningActive, ActiveRuns, ActivatedOnce, NoneForgotten, KnownIds, Accounted
<1> QED BY <1>1, <1>2, <1>3, <1>4, <1>5 DEF Next

\* The inductive invariant holds.
THEOREM Invariance == ASSUME ~Busy PROVE Spec => []IInv
<1> QED BY InitInv, NextInv, PTL DEF Spec

\* No extension falls between the phases: takePending, markActive and
\* returnInterrupted hand each one on, whatever dies meanwhile.
THEOREM NoneIsForgotten == ASSUME ~Busy PROVE Spec => []NoneForgotten
<1>1. IInv => NoneForgotten
  BY DEF IInv
<1> QED BY <1>1, Invariance, PTL

\* What the host calls active runs in the current subprocess.
THEOREM ActiveOnesRun == ASSUME ~Busy PROVE Spec => []ActiveRuns
<1>1. IInv => ActiveRuns
  BY DEF IInv
<1> QED BY <1>1, Invariance, PTL

\* An extension is activated at most once in a subprocess.
THEOREM OnceInASubprocess == ASSUME ~Busy PROVE Spec => []ActivatedOnce
<1>1. IInv => ActivatedOnce
  BY DEF IInv
<1> QED BY <1>1, Invariance, PTL

-----------------------------------------------------------------------------
(* Dependencies *)

\* What a step may add to acts without looking at dependencies.
NoneToAwait == \A a \in acts' : a \notin acts /\ a.sent => Deps[a.reg.id] = {}

LEMMA StartAllNone ==
    ASSUME NEW regs, NEW s, NEW wait, NEW replay, StartAll(regs, s, wait, replay)
    PROVE  NoneToAwait
<1> SUFFICES ASSUME NEW a \in acts', a \notin acts, a.sent PROVE Deps[a.reg.id] = {}
  BY DEF NoneToAwait
<1> DEFINE begun == {e \in Taken(regs, wait) : Deps[e] \subseteq KnownIds}
           reg(e) == Reg(e, entryOf(regs, e))
           done(ids) == {<<reg(d), s>> : d \in ids \cap begun}
                          \cup {Request(b) : b \in {c \in acts : c.reg.id \in ids}}
           new(e) == [reg |-> reg(e), spawn |-> s, sent |-> Deps[e] = {}, awaits |-> done(Deps[e])]
<1>1. acts' = acts \cup {new(e) : e \in begun}
  BY DEF StartAll
<1>2. \A e : new(e).sent = (Deps[e] = {}) /\ new(e).reg.id = e
  BY DEF Reg
<1> HIDE DEF begun, new
<1>3. PICK e \in begun : a = new(e)
  BY <1>1
<1> QED BY <1>2, <1>3

LEMMA ActivateNone ==
    ASSUME NEW regs, NEW wait, NEW replay, activateRegistrations(regs, wait, replay)
    PROVE  NoneToAwait
BY StartAllNone DEF activateRegistrations, NoneToAwait

LEMMA PassNone == ASSUME NEW searches, passOverFolders(searches) PROVE NoneToAwait
BY ActivateNone DEF passOverFolders, NoneToAwait

\* The activation of an extension is asked for only while what it depends on
\* runs in the same subprocess (activateDependencies).
THEOREM DependenciesAreFirst == ASSUME ~Busy PROVE Spec => DependenciesFirst
<1>1. ASSUME IInv, [Next]_vars
      PROVE  [\A a \in acts' : a.sent /\ a \notin acts /\ a.spawn # 0 => DependenciesRun(a)]_vars
  <2> DEFINE Goal == \A a \in acts' : a.sent /\ a \notin acts /\ a.spawn # 0 => DependenciesRun(a)
  <2>1. NoneToAwait => Goal
    BY DEF NoneToAwait, DependenciesRun
  <2>2. acts' \subseteq acts => Goal
    OBVIOUS
  <2>3. ASSUME NEW w \in waiting, Resume(w) PROVE Goal
    BY <2>1, <2>2, <2>3, StartAllNone DEF Resume
  <2>4. ASSUME NEW a \in acts, DependenciesSettled(a) PROVE Goal
    <3>1. CASE NotActivated(a)
      BY <2>2, <3>1 DEF NotActivated
    <3>2. CASE /\ a.spawn = spawn /\ DependenciesActive(a)
               /\ acts' = (acts \ {a}) \cup {[a EXCEPT !.sent = TRUE, !.awaits = {}]}
      <4> SUFFICES ASSUME a.spawn # 0, NEW d \in Deps[a.reg.id]
                   PROVE  d \in running[a.spawn]
        <5>1. a \in Activations
          BY <1>1 DEF IInv, TypeOK
        <5>2. [a EXCEPT !.sent = TRUE, !.awaits = {}].reg = a.reg
              /\ [a EXCEPT !.sent = TRUE, !.awaits = {}].spawn = a.spawn
          BY <5>1 DEF Activations
        <5> QED BY <3>2, <5>2 DEF DependenciesRun
      <4>1. a.reg.id \in Exts
        BY <1>1 DEF IInv, TypeOK, Activations, Regs
      <4>2. d \in Exts /\ active[d] # 0
        BY <3>2, <4>1, ExtensionHostAssumption DEF DependenciesActive
      <4>3. ~hostDisposed
        BY <1>1, <3>2 DEF IInv, Quiet
      <4> QED BY <1>1, <3>2, <4>2, <4>3 DEF IInv, ActiveRuns
    <3> QED BY <2>4, <3>1, <3>2 DEF DependenciesSettled
  <2>5. ASSUME NEW a \in acts, Rejected(a) \/ ActivateFails(a) \/ Activated(a) PROVE Goal
    BY <2>2, <2>5 DEF Rejected, ActivateFails, Activated, NotActivated
  <2>6. ASSUME NEW r \in replays, ReplayContinues(r) PROVE Goal
    BY <2>2, <2>6 DEF ReplayContinues
  <2>7. ASSUME NEW caller \in passDue, FoldersPassed(caller) PROVE Goal
    BY <2>1, <2>7, PassNone DEF FoldersPassed
  <2>8. ASSUME WindowStep PROVE Goal
    <3>1. ASSUME NEW e \in Exts, registerExtension(e) \/ removeExtension(e) PROVE Goal
      BY <2>1, <2>2, <3>1, ActivateNone DEF registerExtension, removeExtension, calls
    <3>2. ASSUME NEW event \in Events, activateByEvent(event) PROVE Goal
      BY <2>1, <3>2, ActivateNone DEF activateByEvent
    <3>3. ASSUME activateByWorkspaceContains PROVE Goal
      BY <2>1, <3>3, PassNone DEF activateByWorkspaceContains
    <3>4. ASSUME restartForWorkspaceChange PROVE Goal
      BY <2>1, <2>2, <3>4, PassNone DEF restartForWorkspaceChange
    <3>5. ASSUME dispose PROVE Goal
      BY <2>2, <3>5 DEF dispose
    <3> HIDE DEF Goal
    <3> QED BY <2>8, <3>1, <3>2, <3>3, <3>4, <3>5 DEF WindowStep
  <2>9. ASSUME NEW s \in Spawns, Ready(s) \/ Exit(s) PROVE Goal
    BY <2>2, <2>9 DEF Ready, Exit, calls
  <2>10. CommandStep => Goal
    BY <2>2 DEF CommandStep, registerCommand, unregisterCommand, Deactivated, calls
  <2>11. ASSUME NEW r \in searching, SearchEnds(r) PROVE Goal
    BY <2>1, <2>11, ActivateNone DEF SearchEnds
  <2> HIDE DEF Goal
  <2>12. Continuation => Goal
    BY <2>3, <2>4, <2>5, <2>6, <2>7 DEF Continuation
  <2>13. ProcessStep => Goal
    BY <2>5, <2>9, <2>10 DEF ProcessStep, CommandStep
  <2>14. Goal \/ UNCHANGED vars
    BY <1>1, <2>8, <2>11, <2>12, <2>13 DEF Next
  <2> QED BY <2>14 DEF Goal
<1> QED BY <1>1, Invariance, PTL DEF Spec, DependenciesFirst

-----------------------------------------------------------------------------
(* The commands that wake an extension *)

\* Nothing was refused or interrupted under this id.
Untried(e) == \A r \in failed \cup retried : r.id # e

\* Nor was it registered before an earlier registration had left.
Fresh(e) == Untried(e) /\ Reg(e, known[e]) \notin overtaken

\* A pending extension has its stub, until it is first activated.
StubsStand == \A e \in Exts : pending[e] # 0 /\ Fresh(e) => e \in stubs

\* Its command is live, or may be again while it leaves.
Lasting(e) == e \in proxies \/ Leaves(e)

\* A lasting command is that of an extension that is removed, active or being
\* activated.
ProxiesLive ==
    \A e \in Exts : Lasting(e) =>
        /\ ~hostDisposed
        /\ \/ known[e] = 0 \/ active[e] # 0 \/ ~Fresh(e)
           \/ \E a \in acts : a.reg.id = e

CommandsInv == IInv /\ StubsStand /\ ProxiesLive

\* What every call of activateRegistrations leaves: each of regs is being
\* activated, or waits for the current subprocess, or that never got ready.
Asked(regs, wait) ==
    /\ acts \subseteq acts' /\ failed \subseteq failed' /\ waiting \subseteq waiting'
    /\ ready' = ready /\ (spawn' = spawn \/ spawn = 0)
    /\ proxies' = proxies \/ proxies' = {}
    /\ \A e \in Exts : pending'[e] = 0 \/ pending'[e] = wait[e]
    /\ \A r \in regs : \/ pending'[r.id] = 0
                       \/ spawn' # 0 /\ ready'[spawn'] = "no"
                       \/ \E w \in waiting' : w.spawn = spawn' /\ r \in w.regs

\* Whoever is asked for and pending is taken.
LEMMA TakesAll ==
    ASSUME NEW regs \in SUBSET Regs, NEW wait, NEW r \in regs, wait[r.id] # 0
    PROVE  r.id \in Taken(regs, wait)
BY DEF Taken, Regs

LEMMA StartAllAsks ==
    ASSUME NEW regs \in SUBSET Regs, NEW wait, NEW s, NEW replay, StartAll(regs, s, wait, replay)
    PROVE  /\ acts \subseteq acts' /\ failed \subseteq failed'
           /\ \A e \in Exts : pending'[e] = 0 \/ pending'[e] = wait[e]
           /\ \A r \in regs : pending'[r.id] = 0
<1>1. pending' = [e \in Exts |-> IF e \in Taken(regs, wait) THEN 0 ELSE wait[e]]
      /\ acts \subseteq acts' /\ failed \subseteq failed'
  BY DEF StartAll
<1>2. \A r \in regs : r.id \in Exts
  BY DEF Regs
<1> QED BY <1>1, <1>2, TakesAll

LEMMA ActivateAsks ==
    ASSUME NEW regs \in SUBSET Regs, NEW wait, NEW replay \in BOOLEAN,
           activateRegistrations(regs, wait, replay)
    PROVE  Asked(regs, wait)
<1> DEFINE Await(s, own) ==
        /\ waiting' = waiting \cup
               {[regs |-> regs, spawn |-> s, own |-> own, replay |-> replay]}
        /\ pending' = wait /\ UNCHANGED <<acts, replays, failed>>
<1>1. ASSUME NEW s, NEW own, Await(s, own)
      PROVE  /\ UNCHANGED <<acts, failed>> /\ pending' = wait /\ waiting \subseteq waiting'
             /\ \A r \in regs : \E w \in waiting' : w.spawn = s /\ r \in w.regs
  <2> DEFINE w == [regs |-> regs, spawn |-> s, own |-> own, replay |-> replay]
  <2>1. w.spawn = s /\ w.regs = regs /\ w \in waiting' /\ waiting \subseteq waiting'
    BY <1>1
  <2> HIDE DEF w
  <2> QED BY <1>1, <2>1
<1> USE DEF procs
<1>2. CASE regs = {} /\ pending' = wait /\ UNCHANGED <<procs, proxies, waiting, acts, failed>>
  BY <1>2 DEF Asked
<1>3. CASE /\ spawn = 0 /\ (\E s \in Spawns : spawn' = s /\ Await(s, TRUE))
           /\ proxies' = {} /\ UNCHANGED <<ready, running>>
  <2>1. PICK s \in Spawns : spawn' = s /\ Await(s, TRUE)
    BY <1>3
  <2> HIDE DEF Await
  <2> QED BY <1>1, <1>3, <2>1 DEF Asked
<1>4. CASE Await(spawn, FALSE) /\ UNCHANGED <<procs, proxies>>
  <2> HIDE DEF Await
  <2> QED BY <1>1, <1>4 DEF Asked
<1>5. CASE StartAll(regs, spawn, wait, replay) /\ UNCHANGED <<waiting, procs, proxies>>
  BY <1>5, StartAllAsks DEF Asked
<1>6. CASE /\ spawn # 0 /\ ready[spawn] = "no" /\ pending' = wait
           /\ UNCHANGED <<waiting, acts, replays, failed, procs, proxies>>
  BY <1>6 DEF Asked
<1> QED BY <1>2, <1>3, <1>4, <1>5, <1>6 DEF activateRegistrations

\* A step that keeps what is registered and active: it may add activations, stubs
\* and ghosts and take proxies, and what it makes pending has a stub.
LEMMA KeptCommands ==
    ASSUME CommandsInv, UNCHANGED <<known, active, hostDisposed>>,
           \A a \in acts : \E b \in acts' : b.reg.id = a.reg.id,
           failed \subseteq failed', retried \subseteq retried', overtaken \subseteq overtaken',
           stubs \subseteq stubs', proxies' \subseteq proxies, leaving' \subseteq leaving,
           \A e \in Exts : pending'[e] \in {0, pending[e]} \/ (Fresh(e) => e \in stubs')
    PROVE  StubsStand' /\ ProxiesLive'
<1>1. \A e : Fresh(e)' => Fresh(e)
  BY DEF Fresh, Untried
<1>2. \A e : Lasting(e)' => Lasting(e)
  BY DEF Lasting, Leaves
<1>3. StubsStand'
  BY <1>1 DEF CommandsInv, StubsStand
<1>4. ProxiesLive'
  BY <1>1, <1>2 DEF CommandsInv, ProxiesLive
<1> QED BY <1>3, <1>4

LEMMA InitCommands == Init => StubsStand /\ ProxiesLive
BY DEF Init, StubsStand, ProxiesLive, Lasting, Leaves

\* The registration that registerExtension asks for.
LEMMA NextEntry ==
    ASSUME IInv, NEW e \in Exts, entries[e] < MaxEntries[e]
    PROVE  Reg(e, entries[e] + 1) \in Regs
<1>1. entries[e] \in Nat
  BY ExtensionHostAssumption DEF IInv, TypeOK, Entries
<1>2. entries[e] + 1 \in Entries \ {0}
  BY <1>1, ExtensionHostAssumption DEF Entries
<1> QED BY <1>2 DEF Reg, Regs

\* Whoever covers no stub of a new registration registered it in an activation
\* that did not succeed, or has not left yet.
LEMMA RegisterCommands ==
    ASSUME ~Busy, CommandsInv, NEW e \in Exts, registerExtension(e)
    PROVE  StubsStand' /\ ProxiesLive'
<1> DEFINE n == entries[e] + 1
           regs == IF heard(e) THEN {Reg(e, n)} ELSE {}
           wait == [pending EXCEPT ![e] = n]
<1> USE DEF registerExtension
<1>1. regs \in SUBSET Regs
  BY NextEntry DEF CommandsInv
<1>2. activateRegistrations(regs, wait, FALSE)
  OBVIOUS
<1>3. known'[e] = n /\ (Lasting(e) => Reg(e, n) \in overtaken')
  BY DEF CommandsInv, IInv, TypeOK, Lasting
<1>4. stubs \subseteq stubs' /\ (e \in stubs' \/ e \in proxies)
  BY DEF Armed
<1>5. \A x \in Exts \ {e} : wait[x] = pending[x] /\ known'[x] = known[x]
  BY DEF CommandsInv, IInv, TypeOK
<1>6. UNCHANGED <<active, retried, hostDisposed, leaving>> /\ overtaken \subseteq overtaken'
  OBVIOUS
<1> HIDE DEF n, regs, wait, registerExtension
<1>7. Asked(regs, wait)
  BY <1>1, <1>2, ActivateAsks
<1>8. ~Lasting(e) \/ ~Fresh(e)'
  BY <1>3 DEF Fresh
<1>9. \A x \in Exts \ {e} : Fresh(x)' => Fresh(x)
  BY <1>5, <1>6, <1>7 DEF Fresh, Untried, Asked
<1>10. \A x \in Exts : Lasting(x)' => Lasting(x)
  BY <1>6, <1>7 DEF Lasting, Leaves, Asked
<1>11. StubsStand'
  BY <1>4, <1>5, <1>7, <1>8, <1>9 DEF CommandsInv, StubsStand, Asked, Lasting
<1>12. ProxiesLive'
  BY <1>5, <1>6, <1>7, <1>8, <1>9, <1>10 DEF CommandsInv, ProxiesLive, Asked
<1> QED BY <1>11, <1>12

\* A call about registrations that are there.
LEMMA CallCommands ==
    ASSUME CommandsInv, NEW regs \in SUBSET Regs, NEW replay \in BOOLEAN,
           activateRegistrations(regs, pending, replay),
           UNCHANGED <<known, active, hostDisposed, stubs, leaving, retried, overtaken>>
    PROVE  StubsStand' /\ ProxiesLive'
<1>1. Asked(regs, pending)
  BY ActivateAsks
<1>2. /\ \A a \in acts : \E b \in acts' : b.reg.id = a.reg.id
      /\ failed \subseteq failed' /\ retried \subseteq retried' /\ proxies' \subseteq proxies
      /\ \A e \in Exts : pending'[e] \in {0, pending[e]}
  BY <1>1 DEF Asked
<1> QED BY <1>2, KeptCommands

\* What is pending is a registration.
LEMMA PendingAreRegs == ASSUME IInv PROVE RegsOf(pending) \subseteq Regs
BY DEF IInv, TypeOK, RegsOf, Reg, Regs

LEMMA PassCommands ==
    ASSUME CommandsInv, NEW searches, passOverFolders(searches),
           UNCHANGED <<known, active, hostDisposed, stubs, leaving, retried, overtaken>>
    PROVE  StubsStand' /\ ProxiesLive'
<1>1. CASE replayPending
  <2>1. pendingMatching(requested) \in SUBSET Regs
    BY PendingAreRegs DEF CommandsInv, pendingMatching
  <2> QED BY <1>1, <2>1, CallCommands DEF passOverFolders
<1>2. CASE ~replayPending
  BY <1>2, KeptCommands DEF passOverFolders, procs
<1> QED BY <1>1, <1>2

LEMMA RemoveCommands ==
    ASSUME ~Busy, CommandsInv, NEW e \in Exts, removeExtension(e)
    PROVE  StubsStand' /\ ProxiesLive'
<1> USE DEF removeExtension, unregisterExtension, calls, ghosts, CommandsInv
<1>1. /\ known'[e] = 0 /\ pending'[e] = 0
      /\ \A x \in Exts \ {e} : /\ known'[x] = known[x] /\ pending'[x] = pending[x]
                               /\ active'[x] = active[x] /\ (x \in stubs => x \in stubs')
  BY DEF IInv, TypeOK
<1>2. \A x \in Exts \ {e} : Lasting(x)' => Lasting(x)
  BY DEF Lasting, Leaves, Reg
<1>3. \A x \in Exts \ {e} : Fresh(x)' => Fresh(x)
  BY <1>1 DEF Fresh, Untried, Reg
<1>4. ~hostDisposed /\ acts' = acts /\ hostDisposed' = hostDisposed
  BY DEF IInv, Quiet
<1>5. StubsStand'
  BY <1>1, <1>3 DEF StubsStand
<1>6. ProxiesLive'
  BY <1>1, <1>2, <1>3, <1>4 DEF ProxiesLive
<1> QED BY <1>5, <1>6

\* Who registers a command is not pending, or was overtaken.
LEMMA CommandCommands ==
    ASSUME CommandsInv, NEW e \in Exts, registerCommand(e)
    PROVE  StubsStand' /\ ProxiesLive'
<1> USE DEF registerCommand, phases, procs, calls, ghosts, CommandsInv
<1>1. ~hostDisposed
  BY DEF IInv, Quiet
<1>2. known[e] = 0 \/ active[e] # 0 \/ ~Fresh(e) \/ \E a \in acts : a.reg.id = e
  <2>1. CASE e \in running[spawn]
    BY <1>1, <2>1 DEF IInv, TypeOK, RunningActive
  <2>2. CASE Leaves(e)
    BY <2>2 DEF ProxiesLive, Lasting
  <2> QED BY <2>1, <2>2
<1>3. pending[e] = 0 \/ ~Fresh(e)
  BY <1>1, <1>2 DEF IInv, Apart, PendingKnown
<1>4. \A x \in Exts : Lasting(x)' => Lasting(x) \/ x = e
  BY DEF Lasting, Leaves
<1>5. \A x \in Exts : Fresh(x)' => Fresh(x)
  BY DEF Fresh, Untried
<1>6. StubsStand'
  BY <1>3, <1>5 DEF StubsStand
<1>7. ProxiesLive'
  BY <1>1, <1>2, <1>4, <1>5 DEF ProxiesLive
<1> QED BY <1>6, <1>7

\* Who is activated is not pending, and not overtaken any more.
LEMMA ActivatedCommands ==
    ASSUME CommandsInv, NEW a \in acts, Activated(a)
    PROVE  StubsStand' /\ ProxiesLive'
<1> USE DEF Activated, cmds, CommandsInv
<1>1. a.reg \in Regs /\ a.reg.id \in Exts /\ a.reg.entry # 0
  BY DEF IInv, TypeOK, Activations, Regs
<1>2. pending[a.reg.id] = 0
  BY <1>1 DEF IInv, Apart, Quiet
<1>3. \A x \in Exts \ {a.reg.id} : active'[x] = active[x] /\ (Fresh(x)' => Fresh(x))
  BY <1>1 DEF IInv, TypeOK, Fresh, Untried, Reg
<1>4. active'[a.reg.id] # 0
  BY <1>1 DEF IInv, TypeOK
<1>5. \A b \in acts : b.reg.id # a.reg.id => b \in acts'
  OBVIOUS
<1>6. \A x \in Exts : Lasting(x)' = Lasting(x)
  BY DEF Lasting, Leaves
<1>7. StubsStand'
  BY <1>2, <1>3 DEF StubsStand
<1>8. ProxiesLive'
  BY <1>3, <1>4, <1>5, <1>6 DEF ProxiesLive
<1> QED BY <1>7, <1>8

\* An activation that ended without success: its registration is not fresh.
LEMMA NotActivatedCommands ==
    ASSUME CommandsInv, NEW a \in acts, NotActivated(a), failed \subseteq failed',
           ~hostDisposed /\ a.spawn = spawn => a.reg \in failed'
    PROVE  StubsStand' /\ ProxiesLive'
<1> USE DEF NotActivated, returnInterrupted, cmds, CommandsInv
<1>1. a.reg.id \in Exts /\ (hostDisposed => known[a.reg.id] = 0 /\ a.reg.entry # 0)
  BY DEF IInv, TypeOK, Activations, Regs, Quiet
<1>2. retried \subseteq retried'
  OBVIOUS
<1>3. /\ \A e \in Exts : pending'[e] = pending[e] \/ (e = a.reg.id /\ a.reg \in retried')
      /\ ~hostDisposed => a.reg \in failed' \cup retried'
  BY <1>1 DEF IInv, TypeOK, CallsKnown, Engaged
<1>4. \A e : Fresh(e)' => Fresh(e)
  BY <1>2 DEF Fresh, Untried
<1>5. \A e : Fresh(e)' /\ ~hostDisposed => e # a.reg.id
  BY <1>3 DEF Fresh, Untried
<1>6. \A e \in Exts : Fresh(e)' => pending'[e] = pending[e]
  BY <1>3 DEF Fresh, Untried
<1>7. StubsStand'
  BY <1>4, <1>6 DEF StubsStand
<1>9. \A e : Lasting(e)' = Lasting(e)
  BY DEF Lasting, Leaves
<1>8. ProxiesLive'
  BY <1>4, <1>5, <1>9 DEF ProxiesLive
<1> QED BY <1>7, <1>8

\* The end of the current subprocess: stubs for all that was active.
LEMMA RevivalCommands ==
    ASSUME CommandsInv, armRevival, UNCHANGED <<known, failed, retried, overtaken, hostDisposed>>
    PROVE  StubsStand' /\ ProxiesLive'
BY DEF CommandsInv, StubsStand, ProxiesLive, Fresh, Untried, Lasting, Leaves, armRevival, Revived,
       stubsArmed

LEMMA ResumeCommands ==
    ASSUME CommandsInv, NEW w \in waiting, Resume(w)
    PROVE  StubsStand' /\ ProxiesLive'
<1> USE DEF Resume, cmds
<1>1. w.regs \in SUBSET Regs
  BY DEF CommandsInv, IInv, TypeOK, Waits
<1>2. /\ acts \subseteq acts' /\ failed \subseteq failed'
      /\ \A e \in Exts : pending'[e] \in {0, pending[e]}
  <2>1. ready[w.spawn] = "yes" =>
            StartAll(w.regs, IF w.own THEN w.spawn ELSE spawn, pending, w.replay)
    OBVIOUS
  <2>2. ready[w.spawn] # "yes" => UNCHANGED <<pending, acts, failed>>
    OBVIOUS
  <2> HIDE DEF Resume
  <2> QED BY <1>1, <2>1, <2>2, StartAllAsks
<1>3. UNCHANGED <<known, active, hostDisposed, cmds, retried, overtaken>>
  OBVIOUS
<1> HIDE DEF Resume
<1> QED BY <1>2, <1>3, KeptCommands DEF cmds

LEMMA SettledCommands ==
    ASSUME CommandsInv, NEW a \in acts, DependenciesSettled(a)
    PROVE  StubsStand' /\ ProxiesLive'
<1> USE DEF DependenciesSettled
<1>1. CASE /\ NotActivated(a)
           /\ (a.spawn # spawn /\ UNCHANGED failed) \/ failed' = failed \cup {a.reg}
  BY <1>1, NotActivatedCommands
<1>2. CASE /\ acts' = (acts \ {a}) \cup {[a EXCEPT !.sent = TRUE, !.awaits = {}]}
           /\ UNCHANGED <<phases, requested, replayPending, hostDisposed, procs,
                          waiting, searching, replays, passDue, cmds, ghosts>>
  <2>1. a \in Activations
    BY DEF CommandsInv, IInv, TypeOK
  <2>2. [a EXCEPT !.sent = TRUE, !.awaits = {}].reg = a.reg
    BY <2>1 DEF Activations
  <2>3. \A b \in acts : \E c \in acts' : c.reg.id = b.reg.id
    BY <1>2, <2>2
  <2> QED BY <1>2, <2>3, KeptCommands DEF phases, cmds, ghosts
<1> QED BY <1>1, <1>2

LEMMA RejectedCommands ==
    ASSUME CommandsInv, NEW a \in acts, Rejected(a)
    PROVE  StubsStand' /\ ProxiesLive'
<1>1. ~hostDisposed => a.spawn # spawn
  <2> SUFFICES ASSUME ~hostDisposed, a.spawn = spawn PROVE FALSE
    OBVIOUS
  <2>1. spawn \in Spawns /\ spawn # 0
    BY DEF CommandsInv, IInv, ActsHere, Spawns
  <2> QED BY <2>1 DEF CommandsInv, IInv, CurrentLive, Rejected, Open
<1> QED BY <1>1, NotActivatedCommands DEF Rejected

LEMMA ExitCommands ==
    ASSUME CommandsInv, NEW s \in Spawns, Exit(s)
    PROVE  StubsStand' /\ ProxiesLive'
<1>1. CASE s = spawn
  BY <1>1, RevivalCommands DEF Exit, ghosts
<1>2. CASE s # spawn
  BY <1>2, KeptCommands DEF Exit, cmds, ghosts
<1> QED BY <1>1, <1>2

LEMMA RestartCommands ==
    ASSUME CommandsInv, restartForWorkspaceChange
    PROVE  StubsStand' /\ ProxiesLive'
<1>1. CASE passOverFolders({}) /\ UNCHANGED <<active, stubs, leaving>>
  BY <1>1, PassCommands DEF restartForWorkspaceChange
<1>2. CASE armRevival /\ UNCHANGED failed
  BY <1>2, RevivalCommands DEF restartForWorkspaceChange
<1> QED BY <1>1, <1>2 DEF restartForWorkspaceChange

LEMMA NextCommands == ASSUME ~Busy PROVE CommandsInv /\ [Next]_vars => StubsStand' /\ ProxiesLive'
<1> SUFFICES ASSUME CommandsInv, [Next]_vars PROVE StubsStand' /\ ProxiesLive'
  OBVIOUS
<1>1. ASSUME NEW r \in replays, ReplayContinues(r) PROVE StubsStand' /\ ProxiesLive'
  BY <1>1, KeptCommands DEF ReplayContinues, phases, cmds, ghosts
<1>2. CASE Continuation
  BY <1>1, <1>2, ResumeCommands, SettledCommands, RejectedCommands, PassCommands
     DEF Continuation, FoldersPassed
<1>3. ASSUME NEW event \in Events, activateByEvent(event) PROVE StubsStand' /\ ProxiesLive'
  <2>1. Woken(event) \in SUBSET Regs /\ replayPending \in BOOLEAN
    BY PendingAreRegs DEF CommandsInv, IInv, TypeOK, Woken, pendingMatching
  <2> QED BY <1>3, <2>1, CallCommands DEF activateByEvent
<1>4. ASSUME dispose PROVE StubsStand' /\ ProxiesLive'
  BY <1>4 DEF dispose, phasesCleared, StubsStand, ProxiesLive, Lasting, Leaves
<1>5. CASE WindowStep
  BY <1>3, <1>4, <1>5, RegisterCommands, RemoveCommands, PassCommands, RestartCommands
     DEF WindowStep, activateByWorkspaceContains
<1>6. ASSUME NEW s \in Spawns, Ready(s) PROVE StubsStand' /\ ProxiesLive'
  BY <1>6, KeptCommands DEF Ready, phases, calls, cmds, ghosts
<1>7. ASSUME (\E e \in Exts : unregisterCommand(e)) \/ \E r \in leaving : Deactivated(r)
      PROVE  StubsStand' /\ ProxiesLive'
  BY <1>7, KeptCommands DEF unregisterCommand, Deactivated, phases, calls, ghosts
<1>8. ASSUME NEW a \in acts, ActivateFails(a) PROVE StubsStand' /\ ProxiesLive'
  BY <1>8, NotActivatedCommands DEF ActivateFails
<1>9. CASE ProcessStep
  BY <1>6, <1>7, <1>8, <1>9, ExitCommands, CommandCommands, ActivatedCommands DEF ProcessStep
<1>10. ASSUME NEW r \in searching, SearchEnds(r) PROVE StubsStand' /\ ProxiesLive'
  <2>1. \A found \in {{}, {r}} : found \in SUBSET Regs
    BY DEF CommandsInv, IInv, TypeOK
  <2> QED BY <1>10, <2>1, CallCommands DEF SearchEnds
<1>11. CASE UNCHANGED vars
  BY <1>11, KeptCommands DEF vars, phases, calls, cmds, ghosts
<1> QED BY <1>2, <1>5, <1>9, <1>10, <1>11 DEF Next

\* The command of a pending extension wakes it, until an activation was refused
\* or interrupted, unless the extension was registered again before it had left
\* with its command (arm, armRevival, unregisterExtension, registerCommand).
THEOREM CommandsAreReachable == ASSUME ~Busy PROVE Spec => []CommandsReachable
<1>1. Init => CommandsInv
  BY InitInv, InitCommands DEF CommandsInv
<1>2. CommandsInv /\ [Next]_vars => CommandsInv'
  BY NextInv, NextCommands DEF CommandsInv
<1>3. CommandsInv => CommandsReachable
  BY DEF CommandsInv, StubsStand, CommandsReachable, KnownIds, Fresh, Untried
<1> QED BY <1>1, <1>2, <1>3, PTL DEF Spec

-----------------------------------------------------------------------------
(* The journal *)

\* What is heard and pending: HeardIsPickedUp, with the subprocess a call waits for.
Here(r) ==
    \/ replayPending
    \/ spawn # 0 /\ ready[spawn] = "no"
    \/ r \in retried /\ Deps[r.id] # {}
    \/ \E w \in waiting : w.spawn = spawn /\ r \in w.regs
HeardHere == \A r \in pendingMatching(requested) : Here(r)

\* What a death interrupted is dealt with before anyone replays the journal.
RejectedFirst ==
    ~hostDisposed /\ (\E a \in acts : a.sent /\ a.spawn # spawn) =>
        replayPending /\ passDue = {}

UnsentHaveDeps == \A a \in acts : ~a.sent => Deps[a.reg.id] # {}

HeardInv == IInv /\ HeardHere /\ RejectedFirst /\ UnsentHaveDeps

\* The activations that a call adds are unsent only with dependencies.
NewHaveDeps == \A a \in acts' : a \notin acts /\ ~a.sent => Deps[a.reg.id] # {}

\* They are in the current subprocess; the one that a call starts is a new one.
NewHere ==
    /\ NewHaveDeps
    /\ \A a \in acts' \ acts : a.spawn = spawn
    /\ spawn' = spawn \/ (spawn = 0 /\ proc[spawn'] # "gone")

LEMMA StartAllDeps ==
    ASSUME NEW regs, NEW s, NEW wait, NEW replay, StartAll(regs, s, wait, replay)
    PROVE  NewHaveDeps /\ \A a \in acts' \ acts : a.spawn = s
<1> SUFFICES ASSUME NEW a \in acts', a \notin acts
             PROVE  (~a.sent => Deps[a.reg.id] # {}) /\ a.spawn = s
  BY DEF NewHaveDeps
<1> DEFINE begun == {e \in Taken(regs, wait) : Deps[e] \subseteq KnownIds}
           reg(e) == Reg(e, entryOf(regs, e))
           done(ids) == {<<reg(d), s>> : d \in ids \cap begun}
                          \cup {Request(b) : b \in {c \in acts : c.reg.id \in ids}}
           new(e) == [reg |-> reg(e), spawn |-> s, sent |-> Deps[e] = {}, awaits |-> done(Deps[e])]
<1>1. acts' = acts \cup {new(e) : e \in begun}
  BY DEF StartAll
<1>2. \A e : new(e).sent = (Deps[e] = {}) /\ new(e).reg.id = e /\ new(e).spawn = s
  BY DEF Reg
<1> HIDE DEF begun, new
<1>3. PICK e \in begun : a = new(e)
  BY <1>1
<1> QED BY <1>2, <1>3

LEMMA ActivateDeps ==
    ASSUME NEW regs, NEW wait, NEW replay, activateRegistrations(regs, wait, replay)
    PROVE  NewHere
BY StartAllDeps DEF activateRegistrations, NewHere, NewHaveDeps, procs

LEMMA HaveDepsKept == UnsentHaveDeps /\ NewHaveDeps => UnsentHaveDeps'
BY DEF UnsentHaveDeps, NewHaveDeps

LEMMA NoneNew == acts' \subseteq acts /\ spawn' = spawn => NewHere
BY DEF NewHaveDeps, NewHere

\* What waited before a call about other registrations still does, in the same
\* subprocess.
LEMMA HereKept ==
    ASSUME HeardInv, NEW regs, NEW wait, Asked(regs, wait), retried' = retried,
           NEW r, Here(r), replayPending' = replayPending \/ r \in regs \/ ~replayPending
    PROVE  pending'[r.id] = 0 \/ Here(r)'
<1>1. spawn # 0 => spawn' = spawn
  BY DEF Asked
<1>2. \A w \in waiting : w.spawn # 0
  BY DEF HeardInv, IInv, TypeOK, Waits, Spawns
<1> QED BY <1>1, <1>2 DEF Asked, Here

\* No call takes up an activation that a death interrupted: those are dealt with.
LEMMA RejectedKept ==
    ASSUME HeardInv, IInv', hostDisposed' = hostDisposed, NewHere,
           \/ replayPending' = replayPending /\ passDue' = passDue
           \/ \A a \in acts : a.sent => Open(a.spawn) \/ a.spawn = spawn
    PROVE  RejectedFirst'
<1> SUFFICES ASSUME ~hostDisposed, NEW a \in acts', a.sent, a.spawn # spawn'
             PROVE  replayPending' /\ passDue' = {}
  BY DEF RejectedFirst
<1>1. a \in acts /\ a.spawn # spawn /\ proc[a.spawn] = "gone"
  <2>1. a.spawn \in Spawns /\ 0 \notin Spawns
    BY DEF IInv, ActsHere, Spawns
  <2> QED BY <2>1 DEF HeardInv, IInv, ActsHere, NewHere
<1> QED BY <1>1 DEF HeardInv, RejectedFirst, Open

\* A call that asks about what is heard anew; the rest is as it was.
LEMMA CallHeard ==
    ASSUME HeardInv, NEW regs, NEW wait, Asked(regs, wait), retried' = retried,
           \A r \in pendingMatching(requested)' :
               r \in regs \/ (Here(r) /\ (replayPending' = replayPending \/ ~replayPending))
    PROVE  HeardHere'
<1> SUFFICES ASSUME NEW r \in pendingMatching(requested)' PROVE Here(r)'
  BY DEF HeardHere
<1>1. pending'[r.id] # 0
  BY DEF pendingMatching, RegsOf, Reg
<1>2. CASE r \in regs
  BY <1>1, <1>2 DEF Asked, Here
<1>3. CASE Here(r) /\ (replayPending' = replayPending \/ ~replayPending)
  BY <1>1, <1>3, HereKept
<1> QED BY <1>2, <1>3

\* A step that makes nothing pending and ends no call.
LEMMA KeptHeard ==
    ASSUME HeardInv, requested' = requested, spawn' = spawn, replayPending' = replayPending,
           spawn # 0 /\ ready[spawn] = "no" => ready'[spawn] = "no",
           \A r \in retried \ retried' : pending'[r.id] = 0, waiting \subseteq waiting',
           \A e \in Exts : pending'[e] \in {0, pending[e]}
    PROVE  HeardHere'
<1>1. \A r \in pendingMatching(requested)' :
          r \in pendingMatching(requested) /\ pending'[r.id] # 0
  BY DEF pendingMatching, RegsOf, Reg
<1>2. \A r \in pendingMatching(requested)' : Here(r) => Here(r)'
  BY <1>1 DEF Here
<1> QED BY <1>1, <1>2 DEF HeardInv, HeardHere

LEMMA NoneHeard == IInv' /\ hostDisposed' => HeardHere'
BY DEF IInv, Quiet, HeardHere, pendingMatching, RegsOf

LEMMA RegisterHeard ==
    ASSUME HeardInv, NEW e \in Exts, registerExtension(e)
    PROVE  HeardHere' /\ NewHere
<1> DEFINE n == entries[e] + 1
           regs == IF heard(e) THEN {Reg(e, n)} ELSE {}
           wait == [pending EXCEPT ![e] = n]
<1> USE DEF registerExtension
<1>1. regs \in SUBSET Regs
  BY NextEntry DEF HeardInv
<1>2. activateRegistrations(regs, wait, FALSE) /\ UNCHANGED <<requested, replayPending, retried>>
  OBVIOUS
<1>3. \A x \in Exts : IF x = e THEN wait[x] = n ELSE wait[x] = pending[x]
  BY DEF HeardInv, IInv, TypeOK
<1>4. heard(e) => Reg(e, n) \in regs
  OBVIOUS
<1> HIDE DEF n, regs, wait, registerExtension
<1>5. Asked(regs, wait)
  BY <1>1, <1>2, ActivateAsks
<1>6. ASSUME NEW r \in pendingMatching(requested)' PROVE r \in regs \/ Here(r)
  <2>1. PICK x \in Exts : /\ r = Reg(x, pending'[x]) /\ pending'[x] = wait[x] /\ wait[x] # 0
                          /\ WakesOn[x] \cap requested # {}
    BY <1>2, <1>5 DEF pendingMatching, RegsOf, Asked, Reg
  <2>2. CASE x = e
    BY <1>3, <1>4, <2>1, <2>2 DEF heard
  <2>3. CASE x # e
    BY <1>3, <2>1, <2>3 DEF HeardInv, HeardHere, pendingMatching, RegsOf, Reg
  <2> QED BY <2>2, <2>3
<1> QED BY <1>2, <1>5, <1>6, CallHeard, ActivateDeps

\* A call about pending registrations that covers the events heard now.
LEMMA PendingCallHeard ==
    ASSUME HeardInv, NEW regs \in SUBSET RegsOf(pending), NEW replay \in BOOLEAN,
           activateRegistrations(regs, pending, replay), retried' = retried,
           \/ pendingMatching(requested') \subseteq regs
           \/ /\ pendingMatching(requested') \subseteq regs \cup pendingMatching(requested)
              /\ replayPending' = replayPending \/ ~replayPending
    PROVE  HeardHere' /\ NewHere
<1>1. regs \in SUBSET Regs
  BY PendingAreRegs DEF HeardInv
<1>2. Asked(regs, pending)
  BY <1>1, ActivateAsks
<1>3. pendingMatching(requested)' \subseteq pendingMatching(requested')
  BY <1>2 DEF Asked, pendingMatching, RegsOf
<1> QED BY <1>2, <1>3, CallHeard, ActivateDeps DEF HeardInv, HeardHere

LEMMA EventHeard ==
    ASSUME HeardInv, NEW event \in Events, activateByEvent(event)
    PROVE  HeardHere' /\ NewHere
<1>1. Woken(event) \in SUBSET RegsOf(pending) /\ replayPending \in BOOLEAN
  BY DEF Woken, pendingMatching, HeardInv, IInv, TypeOK
<1>2. IF replayPending THEN pendingMatching(requested') \subseteq Woken(event)
      ELSE pendingMatching(requested') \subseteq Woken(event) \cup pendingMatching(requested)
  BY DEF activateByEvent, Woken, pendingMatching
<1> QED BY <1>1, <1>2, PendingCallHeard DEF activateByEvent

LEMMA PassHeard ==
    ASSUME HeardInv, NEW searches, passOverFolders(searches), UNCHANGED <<requested, retried>>
    PROVE  HeardHere' /\ NewHere
<1>1. CASE replayPending
  <2>1. pendingMatching(requested) \in SUBSET RegsOf(pending)
    BY DEF pendingMatching
  <2> QED BY <1>1, <2>1, PendingCallHeard DEF passOverFolders
<1>2. CASE ~replayPending
  <2>1. replayPending' = replayPending
    BY <1>2 DEF passOverFolders, HeardInv, IInv, TypeOK
  <2> QED BY <1>2, <2>1, KeptHeard, NoneNew DEF passOverFolders, procs
<1> QED BY <1>1, <1>2

LEMMA RemoveHeard ==
    ASSUME HeardInv, NEW e \in Exts, removeExtension(e)
    PROVE  HeardHere' /\ NewHere
<1> USE DEF removeExtension, calls, ghosts
<1>1. \A x \in Exts : pending'[x] \in {0, pending[x]}
  BY DEF HeardInv, IInv, TypeOK
<1>2. \A r \in retried \ retried' : pending'[r.id] = 0
  BY DEF HeardInv, IInv, TypeOK, Reg
<1> QED BY <1>1, <1>2, KeptHeard, NoneNew

\* The end of the current subprocess arms a replay.
LEMMA RevivalHeard == armRevival => HeardHere'
BY DEF armRevival, replayArmed, HeardHere, Here

\* An interrupted activation is pending again: a replay is armed, unless it was
\* waiting for dependencies.
LEMMA NotActivatedHeard ==
    ASSUME HeardInv, IInv', NEW a \in acts, NotActivated(a)
    PROVE  HeardHere' /\ NewHere
<1> USE DEF NotActivated, returnInterrupted, cmds, procs
<1>1. NewHere
  BY NoneNew
<1>2. CASE hostDisposed
  BY <1>1, <1>2, NoneHeard
<1>3. CASE pending' = pending
  <2>1. retried \subseteq retried' /\ \A e \in Exts : pending'[e] \in {0, pending[e]}
    BY <1>3
  <2> QED BY <1>1, <2>1, KeptHeard
<1>4. CASE ~hostDisposed /\ pending' # pending
  <2>1. /\ a.spawn # spawn /\ retried' = retried \cup {a.reg} /\ a.reg \in Regs
        /\ pending' = [pending EXCEPT ![a.reg.id] = a.reg.entry]
    BY <1>4 DEF HeardInv, IInv, TypeOK, Activations
  <2>2. replayPending \/ Deps[a.reg.id] # {}
    BY <1>4, <2>1 DEF HeardInv, RejectedFirst, UnsentHaveDeps
  <2>3. Reg(a.reg.id, a.reg.entry) = a.reg
    BY <2>1 DEF Reg, Regs
  <2>4. ASSUME NEW r \in pendingMatching(requested)' PROVE Here(r)'
    <3>1. PICK e \in Exts : /\ r = Reg(e, pending'[e]) /\ pending'[e] # 0
                            /\ WakesOn[e] \cap requested # {}
      BY DEF pendingMatching, RegsOf, Reg
    <3>2. CASE e = a.reg.id
      <4>1. pending \in [Exts -> Entries]
        BY DEF HeardInv, IInv, TypeOK
      <4>2. r = a.reg
        BY <2>1, <2>3, <3>1, <3>2, <4>1
      <4> QED BY <2>1, <2>2, <4>2 DEF Here
    <3>3. CASE e # a.reg.id
      <4>1. pending'[e] = pending[e]
        BY <2>1, <3>3 DEF HeardInv, IInv, TypeOK
      <4>2. Here(r)
        BY <3>1, <4>1 DEF HeardInv, HeardHere, pendingMatching, RegsOf, Reg
      <4> QED BY <2>1, <4>2 DEF Here
    <3> QED BY <3>2, <3>3
  <2> QED BY <1>1, <2>4 DEF HeardHere
<1> QED BY <1>2, <1>3, <1>4

\* Whoever waits for the current subprocess is asked for when it is ready.
LEMMA ResumeHeard ==
    ASSUME HeardInv, IInv', NEW w \in waiting, Resume(w)
    PROVE  HeardHere' /\ NewHaveDeps /\ (~hostDisposed => NewHere)
<1> DEFINE s == IF w.own THEN w.spawn ELSE spawn
<1>1. /\ waiting' = waiting \ {w} /\ hostDisposed' = hostDisposed
      /\ UNCHANGED <<requested, replayPending, retried, spawn, proc, ready>>
      /\ ready[w.spawn] # "waiting" /\ w.spawn \in Spawns /\ w.regs \in SUBSET Regs
  BY DEF Resume, procs, HeardInv, IInv, TypeOK, Waits
<1>2. IF ready[w.spawn] = "yes" THEN StartAll(w.regs, s, pending, w.replay)
      ELSE UNCHANGED <<pending, acts, failed>>
  BY DEF Resume
<1>3. ready[w.spawn] = "yes" /\ ~hostDisposed => s = spawn
  BY DEF HeardInv, IInv, WaitsHere
<1> HIDE DEF s
<1>4. /\ \A e \in Exts : pending'[e] \in {0, pending[e]}
      /\ ready[w.spawn] = "yes" => \A r \in w.regs : pending'[r.id] = 0
  BY <1>1, <1>2, StartAllAsks
<1>5. ~hostDisposed => HeardHere'
  <2> SUFFICES ASSUME ~hostDisposed, NEW r \in pendingMatching(requested)' PROVE Here(r)'
    BY DEF HeardHere
  <2>1. pending'[r.id] # 0 /\ r \in pendingMatching(requested)
    BY <1>1, <1>4 DEF pendingMatching, RegsOf, Reg
  <2>2. Here(r)
    BY <2>1 DEF HeardInv, HeardHere
  <2>3. CASE \E v \in waiting : v.spawn = spawn /\ r \in v.regs
    <3>1. PICK v \in waiting : v.spawn = spawn /\ r \in v.regs
      BY <2>3
    <3>2. CASE v # w
      BY <1>1, <3>1, <3>2 DEF Here
    <3>3. CASE v = w
      <4>1. ready[spawn] = "no" /\ spawn # 0
        BY <1>1, <1>4, <2>1, <3>1, <3>3 DEF HeardInv, IInv, TypeOK, Spawns
      <4> QED BY <1>1, <4>1 DEF Here
    <3> QED BY <3>2, <3>3
  <2> QED BY <1>1, <2>2, <2>3 DEF Here
<1>6. NewHaveDeps
  <2>1. UNCHANGED acts => NewHaveDeps
    BY DEF NewHaveDeps
  <2> QED BY <1>2, <2>1, StartAllDeps
<1>7. ~hostDisposed => NewHere
  <2> SUFFICES ASSUME ~hostDisposed PROVE \A a \in acts' \ acts : a.spawn = spawn
    BY <1>1, <1>6 DEF NewHere
  <2> QED BY <1>2, <1>3, StartAllDeps
<1> QED BY <1>1, <1>5, <1>6, <1>7, NoneHeard

LEMMA NextHeard ==
    ASSUME ~Busy, HeardInv, IInv', [Next]_vars
    PROVE  HeardHere' /\ RejectedFirst' /\ UnsentHaveDeps'
<1> DEFINE Goal == HeardHere' /\ RejectedFirst' /\ UnsentHaveDeps'
           Sent == \A a \in acts : a.sent => Open(a.spawn)
           Same == replayPending' = replayPending /\ passDue' = passDue
<1>1. ASSUME HeardHere', NewHere, hostDisposed' = hostDisposed, Same \/ Sent PROVE Goal
  BY <1>1, RejectedKept, HaveDepsKept DEF HeardInv, NewHere
<1>2. Settled => Sent
  BY DEF Settled
<1>3. ASSUME NEW w \in waiting, Resume(w) PROVE Goal
  <2>1. HeardHere' /\ NewHaveDeps /\ (~hostDisposed => NewHere)
    BY <1>3, ResumeHeard
  <2>2. Same /\ hostDisposed' = hostDisposed
    BY <1>3 DEF Resume
  <2>3. UnsentHaveDeps'
    BY <2>1, HaveDepsKept DEF HeardInv
  <2> QED BY <1>1, <2>1, <2>2, <2>3 DEF RejectedFirst
<1>4. ASSUME NEW a \in acts, NotActivated(a) PROVE Goal
  <2>1. HeardHere' /\ NewHere
    BY <1>4, NotActivatedHeard
  <2> QED BY <1>1, <1>4, <2>1 DEF NotActivated
<1>5. ASSUME NEW a \in acts, DependenciesSettled(a) PROVE Goal
  <2>1. CASE /\ a.spawn = spawn
             /\ acts' = (acts \ {a}) \cup {[a EXCEPT !.sent = TRUE, !.awaits = {}]}
             /\ UNCHANGED <<phases, requested, replayPending, hostDisposed, procs,
                            waiting, searching, replays, passDue, cmds, ghosts>>
    <3> DEFINE c == [a EXCEPT !.sent = TRUE, !.awaits = {}]
    <3>1. c.sent /\ c.spawn = a.spawn
      BY DEF HeardInv, IInv, TypeOK, Activations
    <3>2. acts' = (acts \ {a}) \cup {c}
      BY <2>1
    <3> HIDE DEF c
    <3>3. NewHere
      BY <2>1, <3>1, <3>2 DEF NewHere, NewHaveDeps, procs
    <3>4. HeardHere'
      BY <2>1, KeptHeard DEF phases, procs, ghosts
    <3> QED BY <1>1, <2>1, <3>3, <3>4
  <2> HIDE DEF Goal
  <2> QED BY <1>4, <1>5, <2>1 DEF DependenciesSettled
<1>6. ASSUME NEW r \in replays, ReplayContinues(r) PROVE Goal
  <2> USE <1>6 DEF ReplayContinues, phases, procs, ghosts
  <2>1. HeardHere' /\ NewHere
    BY KeptHeard, NoneNew
  <2> QED BY <1>1, <2>1 DEF NoneRejected
<1>7. ASSUME NEW searches, passOverFolders(searches), UNCHANGED <<requested, retried, hostDisposed>>
      PROVE  HeardHere' /\ NewHere
  BY <1>7, PassHeard
<1>8. ASSUME NEW caller \in passDue, FoldersPassed(caller) PROVE Goal
  <2>1. HeardHere' /\ NewHere /\ hostDisposed' = hostDisposed
    BY <1>7, <1>8 DEF FoldersPassed
  <2>2. ~hostDisposed => \A a \in acts : a.sent => a.spawn = spawn
    BY <1>8 DEF HeardInv, RejectedFirst
  <2>3. RejectedFirst'
    BY <2>1, <2>2, RejectedKept DEF RejectedFirst
  <2> QED BY <2>1, <2>3, HaveDepsKept DEF HeardInv, NewHere
<1>9. ASSUME Settled, WindowStep PROVE Goal
  <2>1. ASSUME NEW e \in Exts, registerExtension(e) PROVE Goal
    <3>1. HeardHere' /\ NewHere
      BY <2>1, RegisterHeard
    <3> QED BY <1>1, <2>1, <3>1 DEF registerExtension
  <2>2. ASSUME NEW e \in Exts, removeExtension(e) PROVE Goal
    <3>1. HeardHere' /\ NewHere
      BY <2>2, RemoveHeard
    <3> QED BY <1>1, <2>2, <3>1 DEF removeExtension, calls
  <2>3. ASSUME NEW event \in Events, activateByEvent(event) PROVE Goal
    <3>1. HeardHere' /\ NewHere
      BY <2>3, EventHeard
    <3> QED BY <1>1, <1>2, <1>9, <2>3, <3>1 DEF activateByEvent
  <2>4. ASSUME activateByWorkspaceContains PROVE Goal
    BY <1>1, <1>2, <1>7, <1>9, <2>4 DEF activateByWorkspaceContains
  <2>5. ASSUME restartForWorkspaceChange PROVE Goal
    <3> USE <2>5 DEF restartForWorkspaceChange
    <3>1. CASE passOverFolders({})
      BY <1>1, <1>2, <1>7, <1>9, <3>1
    <3>2. CASE armRevival /\ UNCHANGED acts
      <4>1. acts' = {}
        BY <3>2
      <4> QED BY <3>2, <4>1, RevivalHeard DEF RejectedFirst, UnsentHaveDeps
    <3> HIDE DEF Goal
    <3> QED BY <3>1, <3>2
  <2>6. ASSUME dispose PROVE Goal
    <3>1. hostDisposed' /\ acts' = acts
      BY <2>6 DEF dispose
    <3> QED BY <3>1, NoneHeard DEF HeardInv, RejectedFirst, UnsentHaveDeps
  <2> HIDE DEF Goal
  <2> QED BY <1>9, <2>1, <2>2, <2>3, <2>4, <2>5, <2>6 DEF WindowStep
<1>10. ASSUME NEW s \in Spawns, Ready(s) PROVE Goal
  <2> USE <1>10 DEF Ready, phases, calls, cmds, ghosts
  <2>1. spawn # 0 /\ ready[spawn] = "no" => ready'[spawn] = "no"
    BY DEF HeardInv, IInv, TypeOK
  <2>2. HeardHere' /\ NewHere
    BY <2>1, KeptHeard, NoneNew
  <2> QED BY <1>1, <2>2
<1>11. ASSUME NEW s \in Spawns, Exit(s), Settled PROVE Goal
  <2> USE <1>11 DEF Exit, ghosts
  <2>1. CASE s = spawn
    <3>1. replayPending' = TRUE /\ passDue' = {} /\ acts' = acts
      BY <2>1 DEF armRevival, replayArmed, Settled
    <3> QED BY <2>1, <3>1, RevivalHeard DEF HeardInv, RejectedFirst, UnsentHaveDeps
  <2>2. CASE s # spawn
    <3>1. spawn # 0 /\ ready[spawn] = "no" => ready'[spawn] = "no"
      BY <2>2 DEF HeardInv, IInv, TypeOK
    <3>2. HeardHere' /\ NewHere
      BY <2>2, <3>1, KeptHeard, NoneNew DEF cmds
    <3> QED BY <1>1, <1>2, <3>2
  <2> QED BY <2>1, <2>2
<1>12. ASSUME CommandStep PROVE Goal
  <2> USE <1>12 DEF CommandStep, registerCommand, unregisterCommand, Deactivated, phases, procs,
                    calls, ghosts
  <2>1. HeardHere' /\ NewHere
    BY KeptHeard, NoneNew
  <2> QED BY <1>1, <2>1
<1>13. ASSUME NEW a \in acts, Activated(a) PROVE Goal
  <2> USE <1>13 DEF Activated, ghosts
  <2>1. HeardHere' /\ NewHere
    BY KeptHeard, NoneNew
  <2> QED BY <1>1, <2>1
<1>14. ASSUME NEW r \in searching, SearchEnds(r) PROVE Goal
  <2>1. PICK found \in {{}, {r}} : activateRegistrations(found, pending, FALSE)
    BY <1>14 DEF SearchEnds
  <2>2. found \in SUBSET Regs
    BY DEF HeardInv, IInv, TypeOK
  <2>3. Asked(found, pending)
    BY <2>1, <2>2, ActivateAsks
  <2>4. UNCHANGED <<requested, replayPending, hostDisposed, passDue, retried>>
    BY <1>14 DEF SearchEnds
  <2>5. pendingMatching(requested)' \subseteq pendingMatching(requested)
    BY <2>3, <2>4 DEF Asked, pendingMatching, RegsOf
  <2>6. HeardHere'
    BY <2>3, <2>4, <2>5, CallHeard DEF HeardInv, HeardHere
  <2> QED BY <1>1, <2>1, <2>4, <2>6, ActivateDeps
<1>15. CASE UNCHANGED vars
  <2> USE <1>15 DEF vars, phases, procs, calls, cmds, ghosts
  <2>1. HeardHere' /\ NewHere
    BY KeptHeard, NoneNew
  <2> QED BY <1>1, <2>1
<1> HIDE DEF Goal
<1>16. Continuation => Goal
  BY <1>3, <1>4, <1>5, <1>6, <1>8 DEF Continuation, Rejected
<1>17. ProcessStep /\ Settled => Goal
  BY <1>4, <1>10, <1>11, <1>12, <1>13 DEF ProcessStep, CommandStep, ActivateFails
<1> QED BY <1>9, <1>14, <1>15, <1>16, <1>17 DEF Next, Goal

\* A pending extension whose event was heard does not stay behind: a replay is
\* due or it waits for the subprocess (requestedEvents, replayPending).
THEOREM HeardArePickedUp == ASSUME ~Busy PROVE Spec => []HeardIsPickedUp
<1>1. Init => HeardInv
  BY InitInv DEF Init, HeardInv, HeardHere, RejectedFirst, UnsentHaveDeps, pendingMatching
<1>2. HeardInv /\ [Next]_vars => HeardInv'
  BY NextInv, NextHeard DEF HeardInv
<1>3. HeardInv => HeardIsPickedUp
  BY DEF HeardInv, HeardHere, Here, HeardIsPickedUp, UnderWay
<1> QED BY <1>1, <1>2, <1>3, PTL DEF Spec

-----------------------------------------------------------------------------
(* Amid restarts and removals *)

\* The shape of the state, and that a disposed host stays down, hold whatever
\* goes on amid activations.
DownInv == TypeOK /\ Quiet

\* Whoever is taken is asked for, or is a dependency that is known.
LEMMA TakenKnown ==
    ASSUME NEW regs \in SUBSET Regs, NEW wait, NEW e \in Taken(regs, wait)
    PROVE  e \in Exts /\ ((\E r \in regs : r.id = e) \/ known[e] # 0)
<1> DEFINE P == {x \in Exts : (\E r \in regs : r.id = x) \/ known[x] # 0}
<1>1. P \in SUBSET Exts
  OBVIOUS
<1>2. \A r \in regs : wait[r.id] # 0 => r.id \in P
  BY DEF Regs
<1>3. \A x \in P : Deps[x] \subseteq KnownIds => {d \in Deps[x] : wait[d] # 0} \subseteq P
  BY DEF KnownIds
<1>4. e \in P
  BY <1>1, <1>2, <1>3 DEF Taken
<1> QED BY <1>4

LEMMA StartAllTyped ==
    ASSUME TypeOK, NEW regs \in SUBSET Regs, NEW wait \in [Exts -> Entries],
           NEW s \in {0} \cup Spawns, NEW replay \in BOOLEAN,
           StartAll(regs, s, wait, replay)
    PROVE  /\ acts' \subseteq Activations /\ failed' \subseteq Regs
           /\ pending' \in [Exts -> Entries] /\ replays' \subseteq SUBSET Requests
<1> DEFINE taken == Taken(regs, wait)
           begun == {e \in taken : Deps[e] \subseteq KnownIds}
           reg(e) == Reg(e, entryOf(regs, e))
           done(ids) == {<<reg(d), s>> : d \in ids \cap begun}
                          \cup {Request(a) : a \in {b \in acts : b.reg.id \in ids}}
           new(e) == [reg |-> reg(e), spawn |-> s, sent |-> Deps[e] = {}, awaits |-> done(Deps[e])]
<1>1. \A e \in taken : reg(e) \in Regs
  <2> SUFFICES ASSUME NEW e \in taken PROVE reg(e) \in Regs
    OBVIOUS
  <2>1. e \in Exts /\ ((\E r \in regs : r.id = e) \/ known[e] # 0)
    BY TakenKnown
  <2>2. entryOf(regs, e) \in Entries \ {0}
    <3>1. CASE \E r \in regs : r.id = e
      <4> DEFINE r == CHOOSE r \in regs : r.id = e
      <4>1. r \in regs /\ entryOf(regs, e) = r.entry
        BY <3>1 DEF entryOf
      <4> HIDE DEF r
      <4> QED BY <4>1 DEF Regs
    <3>2. CASE ~\E r \in regs : r.id = e
      BY <2>1, <3>2 DEF entryOf, TypeOK
    <3> QED BY <3>1, <3>2
  <2> QED BY <2>1, <2>2 DEF Reg, Regs
<1>2. \A ids : done(ids) \in SUBSET Requests
  <2>1. \A a \in acts : Request(a) \in Requests
    BY DEF TypeOK, Activations, Request, Requests
  <2> QED BY <1>1, <2>1 DEF Requests
<1> HIDE DEF reg, done
<1>3. \A e \in begun : new(e) \in Activations
  BY <1>1, <1>2 DEF Activations
<1>4. /\ acts' = acts \cup {new(e) : e \in begun}
      /\ failed' = failed \cup {reg(e) : e \in taken \ begun}
      /\ pending' = [e \in Exts |-> IF e \in taken THEN 0 ELSE wait[e]]
      /\ replays' = IF replay THEN replays \cup {done({r.id : r \in regs})} ELSE replays
  BY DEF StartAll, reg, done
<1> HIDE DEF taken, begun, new
<1>5. acts' \subseteq Activations
  BY <1>3, <1>4 DEF TypeOK
<1>6. failed' \subseteq Regs
  BY <1>1, <1>4 DEF TypeOK
<1>7. pending' \in [Exts -> Entries]
  BY <1>4 DEF Entries
<1>8. replays' \subseteq SUBSET Requests
  BY <1>2, <1>4 DEF TypeOK
<1> QED BY <1>5, <1>6, <1>7, <1>8

\* What a call of activateRegistrations leaves of the shape; a call about
\* nothing starts nothing.
CallTyped(regs, wait) ==
    /\ acts' \subseteq Activations /\ failed' \subseteq Regs /\ waiting' \subseteq Waits
    /\ pending' \in [Exts -> Entries] /\ replays' \subseteq SUBSET Requests
    /\ spawn' \in {0} \cup Spawns
    /\ proc' \in [Spawns -> {"unused", "live", "stopping", "closing", "gone"}]
    /\ ready' = ready /\ running' = running /\ proxies' \subseteq Exts
    /\ regs = {} => spawn' = spawn /\ pending' = wait

LEMMA ActivateTyped ==
    ASSUME TypeOK, NEW regs \in SUBSET Regs, NEW wait \in [Exts -> Entries],
           NEW replay \in BOOLEAN, activateRegistrations(regs, wait, replay)
    PROVE  CallTyped(regs, wait)
<1> DEFINE Await(s, own) ==
        /\ waiting' = waiting \cup
               {[regs |-> regs, spawn |-> s, own |-> own, replay |-> replay]}
        /\ pending' = wait /\ UNCHANGED <<acts, replays, failed>>
<1> USE DEF procs
<1>1. ASSUME NEW s \in Spawns, NEW own \in BOOLEAN, Await(s, own)
      PROVE  waiting' \subseteq Waits /\ pending' = wait /\ UNCHANGED <<acts, replays, failed>>
  <2>1. [regs |-> regs, spawn |-> s, own |-> own, replay |-> replay] \in Waits
    BY DEF Waits
  <2> QED BY <1>1, <2>1 DEF TypeOK
<1>2. CASE /\ regs = {}
           /\ pending' = wait
           /\ replays' = IF replay THEN replays \cup {{}} ELSE replays
           /\ UNCHANGED <<procs, proxies, waiting, acts, failed>>
  BY <1>2 DEF CallTyped, TypeOK
<1>3. CASE /\ regs # {}
           /\ \E s \in Spawns :
                  /\ spawn' = s /\ proc' = [proc EXCEPT ![s] = "live"]
                  /\ Await(s, TRUE)
           /\ proxies' = {} /\ UNCHANGED <<ready, running>>
  <2>1. PICK s \in Spawns : spawn' = s /\ proc' = [proc EXCEPT ![s] = "live"] /\ Await(s, TRUE)
    BY <1>3
  <2> HIDE DEF Await
  <2> QED BY <1>1, <1>3, <2>1 DEF CallTyped, TypeOK
<1>4. CASE regs # {} /\ spawn # 0 /\ Await(spawn, FALSE) /\ UNCHANGED <<procs, proxies>>
  <2>1. spawn \in Spawns
    BY <1>4 DEF TypeOK
  <2> HIDE DEF Await
  <2> QED BY <1>1, <1>4, <2>1 DEF CallTyped, TypeOK
<1>5. CASE regs # {} /\ StartAll(regs, spawn, wait, replay) /\ UNCHANGED <<waiting, procs, proxies>>
  <2>1. spawn \in {0} \cup Spawns
    BY DEF TypeOK
  <2>2. /\ acts' \subseteq Activations /\ failed' \subseteq Regs
        /\ pending' \in [Exts -> Entries] /\ replays' \subseteq SUBSET Requests
    BY <1>5, <2>1, StartAllTyped
  <2> QED BY <1>5, <2>2 DEF CallTyped, TypeOK
<1>6. CASE /\ regs # {} /\ pending' = wait
           /\ UNCHANGED <<waiting, acts, replays, failed, procs, proxies>>
  BY <1>6 DEF CallTyped, TypeOK
<1> QED BY <1>2, <1>3, <1>4, <1>5, <1>6 DEF activateRegistrations

\* A step with such a call.
LEMMA CallDown ==
    ASSUME DownInv, NEW regs, NEW wait, CallTyped(regs, wait),
           known' \in [Exts -> Entries], entries' \in [Exts -> Entries],
           active' = active, hostDisposed' = hostDisposed, retried' = retried,
           requested' \subseteq Events, replayPending' \in BOOLEAN,
           passDue' \subseteq {"replay", "restart"}, stubs' \subseteq Exts,
           {searching', leaving', overtaken'} \subseteq SUBSET Regs,
           hostDisposed => regs = {} /\ wait = pending /\ known' = known /\ searching' = {}
    PROVE  DownInv'
<1>1. TypeOK'
  BY DEF DownInv, TypeOK, CallTyped
<1>2. Quiet'
  BY DEF DownInv, Quiet, CallTyped
<1> QED BY <1>1, <1>2 DEF DownInv

\* Pending registrations; none after dispose.
LEMMA PendingDown ==
    ASSUME DownInv
    PROVE  RegsOf(pending) \subseteq Regs /\ (hostDisposed => RegsOf(pending) = {})
BY DEF DownInv, TypeOK, Quiet, RegsOf, Reg, Regs

LEMMA PendingCallDown ==
    ASSUME DownInv, NEW regs \in SUBSET RegsOf(pending), NEW replay \in BOOLEAN,
           activateRegistrations(regs, pending, replay),
           UNCHANGED <<known, active, entries, hostDisposed, stubs, leaving, retried, overtaken>>,
           requested' \subseteq Events, replayPending' \in BOOLEAN,
           passDue' \subseteq {"replay", "restart"}, searching' \subseteq searching
    PROVE  DownInv'
<1>1. regs \in SUBSET Regs /\ (hostDisposed => regs = {}) /\ pending \in [Exts -> Entries]
  BY PendingDown DEF DownInv, TypeOK
<1>2. CallTyped(regs, pending)
  BY <1>1, ActivateTyped DEF DownInv
<1>3. hostDisposed => searching' = {}
  BY DEF DownInv, Quiet
<1> QED BY <1>1, <1>2, <1>3, CallDown DEF DownInv, TypeOK

LEMMA PassDown ==
    ASSUME DownInv, NEW searches \in SUBSET searching, passOverFolders(searches),
           UNCHANGED <<known, active, entries, requested, hostDisposed, stubs>>,
           UNCHANGED <<leaving, retried, overtaken>>,
           passDue' \subseteq {"replay", "restart"}
    PROVE  DownInv'
<1>1. CASE replayPending
  <2>1. pendingMatching(requested) \in SUBSET RegsOf(pending)
    BY DEF pendingMatching
  <2> QED BY <1>1, <2>1, PendingCallDown DEF passOverFolders, DownInv, TypeOK
<1>2. CASE ~replayPending
  <2> DEFINE found == {r \in RegsOf(pending) : r.id \in Patterns}
  <2>1. /\ searching' = searches \cup found /\ replayPending' = FALSE
        /\ UNCHANGED <<pending, procs, proxies, waiting, acts, replays, failed>>
    BY <1>2 DEF passOverFolders
  <2>2. found \subseteq Regs /\ (hostDisposed => found = {})
    BY PendingDown
  <2> HIDE DEF found
  <2>3. searching' \subseteq Regs
    BY <2>1, <2>2 DEF DownInv, TypeOK
  <2>4. TypeOK'
    BY <2>1, <2>3 DEF DownInv, TypeOK, procs
  <2> QED BY <2>1, <2>2, <2>4 DEF DownInv, Quiet, procs
<1> QED BY <1>1, <1>2

LEMMA RegisterDown ==
    ASSUME DownInv, NEW e \in Exts, registerExtension(e)
    PROVE  DownInv'
<1> DEFINE n == entries[e] + 1
           regs == IF heard(e) THEN {Reg(e, n)} ELSE {}
           wait == [pending EXCEPT ![e] = n]
<1> USE DEF registerExtension
<1>1. n \in Entries \ {0}
  <2>1. entries[e] \in Nat
    BY ExtensionHostAssumption DEF DownInv, TypeOK, Entries
  <2> QED BY <2>1, ExtensionHostAssumption DEF Entries
<1>2. /\ wait \in [Exts -> Entries] /\ regs \in SUBSET Regs
      /\ known' \in [Exts -> Entries] /\ entries' \in [Exts -> Entries]
  BY <1>1 DEF DownInv, TypeOK, Reg, Regs
<1>3. /\ stubs' \subseteq Exts /\ ~hostDisposed /\ activateRegistrations(regs, wait, FALSE)
      /\ UNCHANGED <<active, requested, replayPending, hostDisposed, searching, passDue,
                     leaving, retried>>
  BY DEF DownInv, TypeOK, Armed
<1>5. overtaken' \subseteq Regs
  <2>1. /\ Reg(e, entries'[e]) \in Regs
        /\ overtaken' \subseteq overtaken \cup {Reg(e, entries'[e])}
    BY <1>1 DEF DownInv, TypeOK, Reg, Regs
  <2> QED BY <2>1 DEF DownInv, TypeOK
<1> HIDE DEF n, regs, wait, registerExtension
<1>4. CallTyped(regs, wait)
  BY <1>2, <1>3, ActivateTyped DEF DownInv
<1> QED BY <1>2, <1>3, <1>4, <1>5, CallDown DEF DownInv, TypeOK

LEMMA RemoveDown ==
    ASSUME DownInv, NEW e \in Exts, removeExtension(e)
    PROVE  DownInv'
<1> USE DEF removeExtension, unregisterExtension, calls, ghosts, DownInv
<1>1. known' \in [Exts -> Entries] /\ pending' \in [Exts -> Entries] /\ active' \in [Exts -> Entries]
      /\ running' \in [Spawns -> SUBSET Exts]
  BY DEF TypeOK, Entries
<1>4. leaving' \subseteq Regs
  BY DEF TypeOK, Reg, Regs
<1>2. TypeOK'
  BY <1>1, <1>4 DEF TypeOK
<1>3. Quiet'
  BY DEF Quiet
<1> QED BY <1>2, <1>3

LEMMA RevivalDown ==
    ASSUME DownInv, armRevival
    PROVE  /\ pending' \in [Exts -> Entries] /\ active' \in [Exts -> Entries]
           /\ replayPending' = TRUE /\ stubs' \subseteq Exts /\ spawn' = 0
           /\ proxies' = {} /\ leaving' = {}
BY DEF DownInv, TypeOK, armRevival, Revived, replayArmed, stubsArmed, Entries

LEMMA RestartDown ==
    ASSUME DownInv, restartForWorkspaceChange
    PROVE  DownInv'
<1> USE DEF restartForWorkspaceChange
<1>1. CASE passOverFolders({}) /\ UNCHANGED <<active, stubs, leaving>>
  <2>1. /\ UNCHANGED <<known, active, entries, requested, hostDisposed, stubs>>
        /\ UNCHANGED <<leaving, retried, overtaken>>
        /\ passDue' \subseteq {"replay", "restart"}
    BY <1>1 DEF DownInv, TypeOK
  <2> QED BY <1>1, <2>1, PassDown
<1>2. CASE /\ spawn # 0
           /\ proc' = [proc EXCEPT ![spawn] = "stopping"]
           /\ running' = [running EXCEPT ![spawn] = {}]
           /\ armRevival /\ searching' = {} /\ UNCHANGED <<ready, waiting, acts, replays, failed>>
  <2>1. ~hostDisposed /\ hostDisposed' = hostDisposed
    BY <1>2 DEF DownInv, Quiet
  <2>3. /\ pending' \in [Exts -> Entries] /\ active' \in [Exts -> Entries]
        /\ replayPending' = TRUE /\ stubs' \subseteq Exts /\ spawn' = 0
        /\ proxies' = {} /\ leaving' = {}
    BY <1>2, RevivalDown
  <2>4. /\ proc' \in [Spawns -> {"unused", "live", "stopping", "closing", "gone"}]
        /\ running' \in [Spawns -> SUBSET Exts]
    BY <1>2 DEF DownInv, TypeOK
  <2>2. TypeOK'
    BY <1>2, <2>3, <2>4 DEF DownInv, TypeOK
  <2> QED BY <2>1, <2>2 DEF DownInv, Quiet
<1> QED BY <1>1, <1>2

LEMMA DisposeDown == ASSUME DownInv, dispose PROVE DownInv'
<1> USE DEF DownInv, dispose, phasesCleared, ghosts
<1>1. TypeOK'
  BY DEF TypeOK, Entries
<1> QED BY <1>1 DEF Quiet

LEMMA ExitDown == ASSUME DownInv, NEW s \in Spawns, Exit(s) PROVE DownInv'
<1> USE DEF Exit, ghosts
<1>1. /\ proc' = [proc EXCEPT ![s] = "gone"]
      /\ running' = [running EXCEPT ![s] = {}]
      /\ UNCHANGED <<known, entries, requested, hostDisposed, waiting, searching, acts, replays,
                     failed, retried, overtaken>>
      /\ passDue' \subseteq {"replay", "restart"}
      /\ ready' \in [Spawns -> {"waiting", "yes", "no"}]
  BY DEF DownInv, TypeOK
<1>2. CASE s = spawn
  <2>1. ~hostDisposed
    BY <1>2 DEF DownInv, Quiet, Spawns
  <2>2. /\ pending' \in [Exts -> Entries] /\ active' \in [Exts -> Entries]
        /\ replayPending' = TRUE /\ stubs' \subseteq Exts /\ spawn' = 0
        /\ proxies' = {} /\ leaving' = {}
    BY <1>2, RevivalDown
  <2>3. TypeOK'
    BY <1>1, <2>2 DEF DownInv, TypeOK
  <2> QED BY <1>1, <2>1, <2>3 DEF DownInv, Quiet
<1>3. CASE s # spawn
  <2>1. UNCHANGED <<pending, active, replayPending, cmds, spawn>>
    BY <1>3
  <2> QED BY <1>1, <2>1 DEF DownInv, TypeOK, Quiet, cmds
<1> QED BY <1>2, <1>3

LEMMA NotActivatedDown ==
    ASSUME DownInv, NEW a \in acts, NotActivated(a), failed' \subseteq Regs
    PROVE  DownInv'
<1> USE DEF DownInv, NotActivated, cmds, procs, returnInterrupted
<1>1. a.reg \in Regs /\ a.reg.id \in Exts /\ a.reg.entry \in Entries \ {0}
  BY DEF TypeOK, Activations, Regs
<1>2. /\ pending' \in [Exts -> Entries] /\ retried' \subseteq Regs
      /\ hostDisposed => pending' = pending
  BY <1>1 DEF TypeOK, Quiet
<1>3. TypeOK'
  BY <1>2 DEF TypeOK
<1> QED BY <1>2, <1>3 DEF Quiet

LEMMA ResumeDown == ASSUME DownInv, NEW w \in waiting, Resume(w) PROVE DownInv'
<1> USE DEF Resume, procs, cmds
<1>1. w.regs \in SUBSET Regs /\ w.spawn \in Spawns /\ w.replay \in BOOLEAN
  BY DEF DownInv, TypeOK, Waits
<1>2. ASSUME acts' \subseteq Activations, failed' \subseteq Regs, pending' \in [Exts -> Entries],
             replays' \subseteq SUBSET Requests, hostDisposed => pending' = pending
      PROVE  DownInv'
  BY <1>2 DEF DownInv, TypeOK, Quiet
<1>3. CASE ready[w.spawn] = "yes"
  <2> DEFINE s == IF w.own THEN w.spawn ELSE spawn
  <2>1. StartAll(w.regs, s, pending, w.replay) /\ s \in {0} \cup Spawns
        /\ pending \in [Exts -> Entries] /\ TypeOK
    BY <1>1, <1>3 DEF DownInv, TypeOK
  <2> HIDE DEF s, Resume
  <2>2. /\ acts' \subseteq Activations /\ failed' \subseteq Regs
        /\ pending' \in [Exts -> Entries] /\ replays' \subseteq SUBSET Requests
    BY <1>1, <2>1, StartAllTyped
  <2>3. hostDisposed => pending' = pending
    BY <1>1, <2>1, NothingTaken DEF DownInv, Quiet
  <2> QED BY <1>2, <2>2, <2>3
<1>4. CASE ready[w.spawn] # "yes"
  BY <1>2, <1>4 DEF DownInv, TypeOK
<1> QED BY <1>3, <1>4

LEMMA SettledDown == ASSUME DownInv, NEW a \in acts, DependenciesSettled(a) PROVE DownInv'
<1> USE DEF DependenciesSettled
<1>1. a \in Activations /\ a.reg \in Regs
  BY DEF DownInv, TypeOK, Activations
<1>2. CASE /\ NotActivated(a)
           /\ failed' = failed \/ failed' = failed \cup {a.reg}
  BY <1>1, <1>2, NotActivatedDown DEF DownInv, TypeOK
<1>3. CASE /\ acts' = (acts \ {a}) \cup {[a EXCEPT !.sent = TRUE, !.awaits = {}]}
           /\ UNCHANGED <<phases, requested, replayPending, hostDisposed, procs,
                          waiting, searching, replays, passDue, cmds, ghosts>>
  <2>1. [a EXCEPT !.sent = TRUE, !.awaits = {}] \in Activations
    BY <1>1 DEF Activations
  <2> QED BY <1>3, <2>1 DEF DownInv, TypeOK, Quiet, phases, procs, cmds, ghosts
<1> QED BY <1>2, <1>3

LEMMA ActivatedDown == ASSUME DownInv, NEW a \in acts, Activated(a) PROVE DownInv'
<1> USE DEF DownInv, Activated, cmds, ghosts
<1>1. a.reg.id \in Exts /\ a.reg.entry \in Entries /\ a.spawn \in Spawns
  BY DEF TypeOK, Activations, Regs, Open
<1>2. active' \in [Exts -> Entries] /\ running' \in [Spawns -> SUBSET Exts]
  BY <1>1 DEF TypeOK
<1>3. TypeOK'
  BY <1>2 DEF TypeOK
<1> QED BY <1>3 DEF Quiet

LEMMA StartDown == Init => DownInv
<1> SUFFICES ASSUME Init PROVE DownInv
  OBVIOUS
<1>1. TypeOK
  BY DEF Init, TypeOK, Entries
<1> QED BY <1>1 DEF Init, DownInv, Quiet

LEMMA NextDown == DownInv /\ [Next]_vars => DownInv'
<1> SUFFICES ASSUME DownInv, [Next]_vars PROVE DownInv'
  OBVIOUS
<1>1. ASSUME NEW a \in acts, NotActivated(a), failed' \in {failed, failed \cup {a.reg}}
             \/ failed' = failed \cup {r \in {a.reg} : a.spawn = spawn}
      PROVE  DownInv'
  <2>1. a.reg \in Regs
    BY DEF DownInv, TypeOK, Activations
  <2> QED BY <1>1, <2>1, NotActivatedDown DEF DownInv, TypeOK
<1>2. CASE Continuation
  <2>1. ASSUME NEW r \in replays, ReplayContinues(r) PROVE DownInv'
    BY <2>1 DEF ReplayContinues, DownInv, TypeOK, Quiet, phases, procs, cmds, ghosts
  <2>2. ASSUME NEW caller \in passDue, FoldersPassed(caller) PROVE DownInv'
    BY <2>2, PassDown DEF FoldersPassed, DownInv, TypeOK
  <2> QED BY <1>1, <1>2, <2>1, <2>2, ResumeDown, SettledDown DEF Continuation, Rejected
<1>3. CASE WindowStep
  <2>1. ASSUME NEW event \in Events, activateByEvent(event) PROVE DownInv'
    <3>1. Woken(event) \in SUBSET RegsOf(pending) /\ replayPending \in BOOLEAN
      BY DEF Woken, pendingMatching, DownInv, TypeOK
    <3> QED BY <2>1, <3>1, PendingCallDown DEF activateByEvent, DownInv, TypeOK
  <2>2. ASSUME activateByWorkspaceContains PROVE DownInv'
    BY <2>2, PassDown DEF activateByWorkspaceContains, DownInv, TypeOK
  <2> QED BY <1>3, <2>1, <2>2, RegisterDown, RemoveDown, RestartDown, DisposeDown DEF WindowStep
<1>4. CASE ProcessStep
  <2>1. ASSUME NEW s \in Spawns, Ready(s) PROVE DownInv'
    BY <2>1 DEF Ready, DownInv, TypeOK, Quiet, phases, calls, cmds, ghosts
  <2>2. ASSUME CommandStep PROVE DownInv'
    BY <2>2 DEF CommandStep, registerCommand, unregisterCommand, Deactivated, DownInv, TypeOK, Quiet,
                phases, procs, calls, ghosts
  <2> QED BY <1>1, <1>4, <2>1, <2>2, ExitDown, ActivatedDown
          DEF ProcessStep, CommandStep, ActivateFails
<1>5. ASSUME NEW r \in searching, SearchEnds(r) PROVE DownInv'
  <2>1. PICK found \in {{}, {r}} : activateRegistrations(found, pending, FALSE)
    BY <1>5 DEF SearchEnds
  <2>2. found \in SUBSET Regs /\ pending \in [Exts -> Entries] /\ ~hostDisposed
    BY DEF DownInv, TypeOK, Quiet
  <2>3. CallTyped(found, pending)
    BY <2>1, <2>2, ActivateTyped DEF DownInv
  <2> QED BY <1>5, <2>2, <2>3, CallDown DEF SearchEnds, DownInv, TypeOK
<1>6. CASE UNCHANGED vars
  BY <1>6 DEF vars, phases, procs, calls, cmds, ghosts, DownInv, TypeOK, Quiet
<1> QED BY <1>2, <1>3, <1>4, <1>5, <1>6 DEF Next

LEMMA DownInvariance == Spec => []DownInv
BY StartDown, NextDown, PTL DEF Spec

\* The state keeps its shape (extensionHost.ts, extensionPhases.ts).
THEOREM TypeCorrect == Spec => []TypeOK
<1>1. DownInv => TypeOK
  BY DEF DownInv
<1> QED BY <1>1, DownInvariance, PTL

\* After dispose neither a registration nor a subprocess comes back, whatever was
\* under way, restarted or removed (hostDisposed).
THEOREM DisposedForGood == Spec => []DisposedStaysDown
<1>1. DownInv => DisposedStaysDown
  BY DEF DownInv, TypeOK, Quiet, DisposedStaysDown, KnownIds
<1> QED BY <1>1, DownInvariance, PTL
=============================================================================

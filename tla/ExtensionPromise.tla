-------------------------- MODULE ExtensionPromise --------------------------
(***************************************************************************)
(* What the extension host promises of an extension: it waits, is active   *)
(* or has failed; a failed one is not tried again, and an active one stops *)
(* being active only by its removal or with all the others, when the       *)
(* subprocess they share ends.                                             *)
(***************************************************************************)
CONSTANT Exts

VARIABLE phase

Waiting == {e \in Exts : phase[e] = "waiting"}
Active  == {e \in Exts : phase[e] = "active"}

\* Of the extensions in S, some fail; the others keep the phase p gives them.
Failing(S, p) ==
    \E F \in SUBSET S : phase' = [e \in Exts |-> IF e \in F THEN "failed" ELSE p[e]]

\* Its dependencies are settled on the way, and may fail with it.
Register(e) ==
    /\ phase[e] \in {"absent", "failed"}
    /\ Failing(Waiting \cup {e}, [phase EXCEPT ![e] = "waiting"])

Fail == Failing(Waiting, phase)

Activate(e) ==
    /\ phase[e] = "waiting"
    /\ phase' = [phase EXCEPT ![e] = "active"]

Remove(e) == phase' = [phase EXCEPT ![e] = "absent"]

Revive == phase' = [e \in Exts |-> IF e \in Active THEN "waiting" ELSE phase[e]]

Close == phase' = [e \in Exts |-> "absent"]

Init == phase = [e \in Exts |-> "absent"]

Next ==
    \/ \E e \in Exts : Register(e) \/ Activate(e) \/ Remove(e)
    \/ Fail \/ Revive \/ Close

Spec == Init /\ [][Next]_phase
=============================================================================

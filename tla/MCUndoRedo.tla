------------------------------ MODULE MCUndoRedo ------------------------------
(* UndoRedo on small sets.                                                   *)
EXTENDS UndoRedo, TLC

Symmetry == Permutations(Contexts \ {Workspace}) \cup Permutations(Requests)

\* What is known of a step that no bucket and no request holds is never read
\* again (the code keeps it in a WeakMap): states that differ in it are one.
Held == {e \in Steps : InUndo(e) \/ InRedo(e) \/ \E q \in Requests : request[q].step = e}
View ==
    <<bucket, undo, redo, pushed, request, workspace \cap Held,
      [e \in Held |-> <<participants[e], owners[e] \cap participants[e], broken[e]>>]>>
=============================================================================

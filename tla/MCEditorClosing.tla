--------------------------- MODULE MCEditorClosing ---------------------------
(* TLC instance of EditorClosing. *)
EXTENDS EditorClosing, TLC

\* Files, groups and calls are interchangeable; tabs are not: fresh picks them
\* in an order.
Symmetry == Permutations(Docs) \cup Permutations(Groups) \cup Permutations(Calls)
=============================================================================

--------------------------- MODULE MCTextFileModel ---------------------------
(* TextFileModel on small sets.                                              *)
EXTENDS TextFileModel, TLC

CallerSymmetry == Permutations(Callers)

MCTexts == 0..(MaxClock + MaxVersion)
=============================================================================

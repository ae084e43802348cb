--------------------------- MODULE MCExtensionHost ---------------------------
(* b depends on a; each has an activation event of its own; a can be removed  *)
(* and registered again.                                                      *)
EXTENDS ExtensionHost

MCDeps    == [e \in Exts |-> IF e = "b" THEN {"a"} ELSE {}]
MCWakesOn == [e \in Exts |-> IF e = "b" THEN {"eb"} ELSE {"ea"}]
MCMaxEntries == [e \in Exts |-> IF e = "a" THEN 2 ELSE 1]
=============================================================================

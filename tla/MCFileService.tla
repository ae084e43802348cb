---------------------------- MODULE MCFileService ----------------------------
(* FileService on small sets; the refinement mapping to GuardedWrites.       *)
EXTENDS FileService, TLC

CallerSymmetry == Permutations(Callers)

\* The writes of a resource that have not reached the disk, in order.
Pending(r) ==
    LET q == queue[r]
        landed == q # <<>> /\ call[Head(q)].pc = "replaced"
        waiting == IF landed THEN Tail(q) ELSE q
    IN  [i \in 1..Len(waiting) |->
            [text |-> call[waiting[i]].text, etag |-> call[waiting[i]].etag,
             atomic |-> call[waiting[i]].atomic,
             way |-> IF call[waiting[i]].pc \in {"inPlace", "torn"} THEN "inPlace" ELSE "any"]]

Promise == INSTANCE GuardedWrites WITH
    content <- disk,
    pending <- [r \in Resources |-> Pending(r)],
    Versions <- [text : Texts \cup {Torn}, stamp : 0..MaxClock, author : Authors,
                 linked : BOOLEAN],
    Writes <- [text : Texts, etag : {NoEtag} \cup 0..MaxClock, atomic : BOOLEAN,
               way : {"any", "inPlace"}]

\* The file service keeps the promise of GuardedWrites: every step of its
\* queue, its check, its replacement and its closing stat is one step of the
\* promise, or changes nothing in it.
ImplementsPromise == Promise!Spec
=============================================================================

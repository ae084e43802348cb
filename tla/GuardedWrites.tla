---------------------------- MODULE GuardedWrites ----------------------------
(***************************************************************************)
(* What the file service promises its callers: the writes of a resource    *)
(* take effect one at a time, in the order they were asked for, each as a  *)
(* single step that stores the whole text or changes nothing. A guarded    *)
(* write never destroys a version of another write that its caller has not *)
(* read. Only a write that goes in place shows a torn file on the way:     *)
(* its caller asked for no atomicity, or it found a link at its path while *)
(* it was the next one. The file need not be a link any more by the time   *)
(* it is torn, and one that became a link may be replaced.                 *)
(* Everything else - foreign programs, move, copy, delete - may change a   *)
(* file between any two steps, but tears none.                             *)
(***************************************************************************)
EXTENDS Naturals, Sequences

CONSTANTS Resources, Writes, Versions, Torn, Absent, NoEtag

VARIABLES content,  \* Resources -> a version, or Absent
          pending   \* Resources -> the writes that have not taken effect, in order

gwVars == <<content, pending>>

Init ==
    /\ content \in [Resources -> {v \in Versions : v.text # Torn} \cup {Absent}]
    /\ pending = [r \in Resources |-> <<>>]

IsTorn(r) == content[r] # Absent /\ content[r].text = Torn

Ask(r) ==
    /\ UNCHANGED content
    /\ pending'[r] # <<>>
    /\ LET w == pending'[r][Len(pending'[r])] IN
           w \in Writes /\ w.way = "any" /\ pending' = [pending EXCEPT ![r] = Append(@, w)]

\* w would destroy a version of another write that its caller has not read.
Clobbers(r, w) ==
    /\ w.etag # NoEtag /\ content[r] # Absent
    /\ content[r].stamp # w.etag /\ content[r].author = "write"

\* A version with this text, or a half-written one, is put at r, and nowhere else.
Stores(r, text) ==
    /\ content' = [content EXCEPT ![r] = content'[r]]
    /\ content'[r] \in Versions
    /\ content'[r].text = text /\ content'[r].author = "write"

\* The first pending write takes effect, in one step or by filling a torn file.
Commit(r) ==
    /\ pending[r] # <<>>
    /\ IsTorn(r) \/ ~Clobbers(r, Head(pending[r]))
    /\ Stores(r, Head(pending[r]).text)
    /\ pending' = [pending EXCEPT ![r] = Tail(@)]

\* It will go in place.
GoInPlace(r) ==
    /\ pending[r] # <<>>
    /\ ~Head(pending[r]).atomic \/ (content[r] # Absent /\ content[r].linked)
    /\ pending' = [pending EXCEPT ![r][1].way = "inPlace"]
    /\ UNCHANGED content

\* It starts in place.
Tear(r) ==
    /\ pending[r] # <<>>
    /\ ~Clobbers(r, Head(pending[r]))
    /\ Head(pending[r]).way = "inPlace"
    /\ Stores(r, Torn)
    /\ UNCHANGED pending

\* Changes that are not writes of the queue tear no file, but a torn file may
\* be moved, copied or filled wherever it went.
Elsewhere ==
    /\ content' \in [Resources -> Versions \cup {Absent}]
    /\ \A r \in Resources :
           content'[r] # content[r] =>
               \/ content'[r] = Absent
               \/ content'[r].author = "other"
    /\ (\E r \in Resources : content'[r] # Absent /\ content'[r].text = Torn)
         => \E r \in Resources : IsTorn(r)

Bypass == Elsewhere /\ UNCHANGED pending

\* The first pending write is refused, or fails.
Drop(r) ==
    /\ pending[r] # <<>>
    /\ pending' = [pending EXCEPT ![r] = Tail(@)]
    /\ Elsewhere

\* The editor dies, and the pending writes with it.
Crash ==
    /\ pending' = [r \in Resources |-> <<>>]
    /\ UNCHANGED content

Next ==
    \/ \E r \in Resources : Ask(r) \/ GoInPlace(r) \/ Commit(r) \/ Tear(r) \/ Drop(r)
    \/ Crash
    \/ Bypass

Spec == Init /\ [][Next]_gwVars
=============================================================================

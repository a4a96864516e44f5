------------------------------ MODULE PairLoop ------------------------------
(***************************************************************************)
(* Loops of meetings in pairs.  Each rank goes through the same loops, and *)
(* in each it meets its neighbours one by one, in the order of their       *)
(* numbers: it waits for the one whose turn it is.  This is what the loops *)
(* over intersect_rank of fvmc_locator.c promise, whatever the geometry:   *)
(* the ranks do not wait for each other in a circle.                       *)
(***************************************************************************)
EXTENDS Naturals

CONSTANT Ranks \* natural numbers

VARIABLES
  meets, \* meets[r]: the neighbours of r
  loop,  \* loop[r]: the loops r has been through
  met    \* met[r]: the neighbours it has met in this one

vars == <<meets, loop, met>>

Mutual(m) == \A r, s \in Ranks : (s \in m[r] <=> r \in m[s]) /\ r \notin m[r]

TypeOK ==
  /\ meets \in [Ranks -> SUBSET Ranks] /\ Mutual(meets)
  /\ loop \in [Ranks -> Nat]
  /\ met \in [Ranks -> SUBSET Ranks]

\* It is the turn of s on r.
Turn(r, s) ==
  /\ s \in meets[r] \ met[r]
  /\ \A t \in meets[r] \ met[r] : s <= t

\* The messages of all loops have the same tag: two ranks that wait for each other
\* meet, in whatever loop each is.
CanMeet(r, s) == Turn(r, s) /\ Turn(s, r)

Init ==
  /\ meets = [r \in Ranks |-> {}]
  /\ loop = [r \in Ranks |-> 0]
  /\ met = [r \in Ranks |-> {}]

\* The last neighbour ends the loop.
Ended(r, s) == met[r] \cup {s} = meets[r]

Meet(r, s) ==
  /\ CanMeet(r, s)
  /\ loop' = [x \in Ranks |->
       IF x = r THEN (IF Ended(r, s) THEN loop[r] + 1 ELSE loop[r])
       ELSE IF x = s THEN (IF Ended(s, r) THEN loop[s] + 1 ELSE loop[s]) ELSE loop[x]]
  /\ met' = [x \in Ranks |->
       IF x = r THEN (IF Ended(r, s) THEN {} ELSE met[r] \cup {s})
       ELSE IF x = s THEN (IF Ended(s, r) THEN {} ELSE met[s] \cup {r}) ELSE met[x]]
  /\ UNCHANGED meets

\* A new location, which all ranks begin together: other neighbours, and the
\* loops are counted anew.
Renew ==
  /\ \A r \in Ranks : met[r] = {}
  /\ \A r \in Ranks : \A s \in meets[r] : loop[r] = loop[s]
  /\ meets' \in [Ranks -> SUBSET Ranks] /\ Mutual(meets')
  /\ loop' = [r \in Ranks |-> 0]
  /\ UNCHANGED met

Next == Renew \/ \E r, s \in Ranks : Meet(r, s)

Spec == Init /\ [][Next]_vars

-----------------------------------------------------------------------------
(* What is proved in PairLoop_proofs. *)

\* Ranks that meet are in the same loop, so that what each gets is what it expects.
SameLoop == \A r, s \in Ranks : CanMeet(r, s) => loop[r] = loop[s]

\* Neighbours are in the same loop, and each has met the other in it or none has,
\* or one is in the next loop: the other has met it in the one before, and it has
\* not met the other again.
Abreast(r, s) ==
  /\ loop[r] = loop[s] => (s \in met[r] <=> r \in met[s])
  /\ loop[r] < loop[s] => loop[s] = loop[r] + 1 /\ s \in met[r] /\ r \notin met[s]
InStep == \A r \in Ranks : \A s \in meets[r] : Abreast(r, s)

\* A rank is never left with nobody to meet in a loop: the last one begins the
\* next.
Unfinished ==
  \A r \in Ranks : met[r] \subseteq meets[r] /\ (met[r] = meets[r] => meets[r] = {})

IInv == TypeOK /\ Unfinished /\ InStep

\* Nobody waits for ever in a circle: while there are neighbours, some two of
\* them can meet.
NeverStuck ==
  (\E r \in Ranks : meets[r] # {}) => \E r, s \in Ranks : CanMeet(r, s)
=============================================================================

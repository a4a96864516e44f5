--------------------------- MODULE PairLoop_proofs ---------------------------
(***************************************************************************)
(* Proofs about PairLoop: whatever ranks are neighbours, and however many, *)
(* they stay in step, and two of them can always meet.                     *)
(***************************************************************************)
EXTENDS PairLoop, WellFoundedInduction, TLAPS

\* A set of numbers has a least one.
LEMMA LeastNatural ==
  ASSUME NEW S \in SUBSET Nat, S # {}
  PROVE  \E i \in S : \A j \in S : i <= j
<1> DEFINE Less == OpToRel(<, Nat)
<1>1. \E i \in S : \A j \in S : <<j, i>> \notin Less
  <2>1. IsWellFoundedOn(Less, Nat)
    BY NatLessThanWellFounded
  <2> HIDE DEF Less
  <2> QED BY <2>1, WFMin
<1>2. PICK i \in S : \A j \in S : <<j, i>> \notin Less
  BY <1>1
<1>3. ASSUME NEW j \in S PROVE i <= j
  <2>1. <<j, i>> \in Less <=> j < i
    BY DEF OpToRel
  <2>2. i \in Nat /\ j \in Nat
    OBVIOUS
  <2> HIDE DEF Less
  <2> QED BY <1>2, <2>1, <2>2
<1> QED BY <1>3

\* A set of ranks that is not empty has a least one.
LEMMA LeastRank ==
  ASSUME Ranks \subseteq Nat, NEW S \in SUBSET Ranks, S # {}
  PROVE  \E i \in S : \A j \in S : i <= j
  BY LeastNatural

-----------------------------------------------------------------------------
\* The invariant is inductive.

\* Nobody has neighbours at first.
LEMMA InitInv == Init => IInv
  BY DEF Init, IInv, TypeOK, Mutual, Unfinished, InStep, Abreast

\* If one of two neighbours were a loop behind it would have met the other in it.
LEMMA MeetInSameLoop == IInv => SameLoop
<1> SUFFICES ASSUME IInv, NEW r \in Ranks, NEW s \in Ranks, CanMeet(r, s)
             PROVE  loop[r] = loop[s]
  BY DEF SameLoop
<1>1. Abreast(r, s) /\ Abreast(s, r)
  BY DEF IInv, InStep, CanMeet, Turn
<1>2. s \notin met[r] /\ r \notin met[s]
  BY DEF CanMeet, Turn
<1>3. loop[r] \in Nat /\ loop[s] \in Nat
  BY DEF IInv, TypeOK
<1> QED BY <1>1, <1>2, <1>3 DEF Abreast

\* The two ranks of a meeting, each of which may end its loop with it.
LEMMA MeetingAbreast ==
  ASSUME IInv, NEW r \in Ranks, NEW s \in Ranks, Meet(r, s)
  PROVE  Abreast(r, s)' /\ Abreast(s, r)'
<1>1. /\ r # s /\ loop[r] = loop[s] /\ loop[r] \in Nat
      /\ s \notin met[r] /\ r \notin met[s]
  BY MeetInSameLoop DEF SameLoop, IInv, TypeOK, Mutual, Meet, CanMeet, Turn
<1>2. /\ loop'[r] = IF Ended(r, s) THEN loop[r] + 1 ELSE loop[r]
      /\ loop'[s] = IF Ended(s, r) THEN loop[s] + 1 ELSE loop[s]
      /\ met'[r] = IF Ended(r, s) THEN {} ELSE met[r] \cup {s}
      /\ met'[s] = IF Ended(s, r) THEN {} ELSE met[s] \cup {r}
  BY <1>1 DEF Meet
<1>3. CASE Ended(r, s) /\ Ended(s, r)
  BY <1>1, <1>2, <1>3 DEF Abreast
<1>4. CASE Ended(r, s) /\ ~Ended(s, r)
  BY <1>1, <1>2, <1>4 DEF Abreast
<1>5. CASE ~Ended(r, s) /\ Ended(s, r)
  BY <1>1, <1>2, <1>5 DEF Abreast
<1>6. CASE ~Ended(r, s) /\ ~Ended(s, r)
  BY <1>1, <1>2, <1>6 DEF Abreast
<1> QED BY <1>3, <1>4, <1>5, <1>6

\* One rank of a meeting and another neighbour of it: if the loop of r ends, it
\* has met t in it, so t is not a loop behind.
LEMMA OtherAbreast ==
  ASSUME IInv, NEW r \in Ranks, NEW s \in Ranks, NEW t \in meets[r], t \in Ranks, t # s,
         loop[r] \in Nat, loop[t] \in Nat, loop'[t] = loop[t], met'[t] = met[t],
         loop'[r] = IF Ended(r, s) THEN loop[r] + 1 ELSE loop[r],
         met'[r] = IF Ended(r, s) THEN {} ELSE met[r] \cup {s}
  PROVE  Abreast(r, t)' /\ Abreast(t, r)'
<1>1. Abreast(r, t) /\ Abreast(t, r)
  <2>1. r \in meets[t]
    BY DEF IInv, TypeOK, Mutual
  <2> QED BY <2>1 DEF IInv, InStep, Abreast
<1>2. CASE Ended(r, s)
  <2>1. t \in met[r]
    BY <1>2 DEF Ended
  <2>2. ~(loop[t] < loop[r])
    BY <1>1, <2>1 DEF Abreast
  <2>3. loop'[r] = loop[r] + 1 /\ met'[r] = {}
    BY <1>2
  <2>4. CASE loop[t] = loop[r]
    BY <1>1, <2>1, <2>3, <2>4 DEF Abreast
  <2>5. CASE loop[r] < loop[t]
    BY <1>1, <2>3, <2>5 DEF Abreast
  <2> QED BY <2>2, <2>4, <2>5
<1>3. CASE ~Ended(r, s)
  <2>1. loop'[r] = loop[r] /\ (t \in met'[r] <=> t \in met[r])
    BY <1>3
  <2> QED BY <1>1, <2>1 DEF Abreast
<1> QED BY <1>2, <1>3

\* A meeting keeps the invariant.
LEMMA MeetInv ==
  ASSUME IInv, NEW r \in Ranks, NEW s \in Ranks, Meet(r, s)
  PROVE  IInv'
<1>1. /\ r # s /\ s \in meets[r] /\ r \in meets[s] /\ meets' = meets
      /\ loop \in [Ranks -> Nat] /\ met \in [Ranks -> SUBSET Ranks]
      /\ meets \in [Ranks -> SUBSET Ranks]
  BY DEF IInv, TypeOK, Mutual, Meet, CanMeet, Turn
<1>2. /\ loop'[r] = IF Ended(r, s) THEN loop[r] + 1 ELSE loop[r]
      /\ loop'[s] = IF Ended(s, r) THEN loop[s] + 1 ELSE loop[s]
      /\ met'[r] = IF Ended(r, s) THEN {} ELSE met[r] \cup {s}
      /\ met'[s] = IF Ended(s, r) THEN {} ELSE met[s] \cup {r}
      /\ \A t \in Ranks \ {r, s} : loop'[t] = loop[t] /\ met'[t] = met[t]
  BY <1>1 DEF Meet
<1>3. TypeOK'
  <2>1. loop' \in [Ranks -> Nat]
    BY <1>1 DEF Meet
  <2>2. met' \in [Ranks -> SUBSET Ranks]
    BY <1>1 DEF Meet
  <2>3. Mutual(meets)'
    BY <1>1 DEF IInv, TypeOK, Mutual
  <2> QED BY <1>1, <2>1, <2>2, <2>3 DEF TypeOK
<1>4. Unfinished'
  <2> SUFFICES ASSUME NEW t \in Ranks
               PROVE  met'[t] \subseteq meets[t] /\ (met'[t] = meets[t] => meets[t] = {})
    BY <1>1 DEF Unfinished
  <2>1. met[t] \subseteq meets[t] /\ (met[t] = meets[t] => meets[t] = {})
    BY DEF IInv, Unfinished
  <2>2. CASE t = r
    BY <1>1, <1>2, <2>1, <2>2 DEF Ended
  <2>3. CASE t = s
    BY <1>1, <1>2, <2>1, <2>3 DEF Ended
  <2>4. CASE t \notin {r, s}
    BY <1>2, <2>1, <2>4
  <2> QED BY <2>2, <2>3, <2>4
<1>5. InStep'
  <2> SUFFICES ASSUME NEW x \in Ranks, NEW y \in meets[x]
               PROVE  Abreast(x, y)'
    BY <1>1 DEF InStep, Abreast
  <2>1. y \in Ranks /\ x \in meets[y] /\ x # y
    BY <1>1 DEF IInv, TypeOK, Mutual
  <2>2. CASE {x, y} = {r, s}
    BY <2>2, MeetingAbreast
  <2>3. CASE x = r /\ y # s
    BY <1>1, <1>2, <2>1, <2>3, OtherAbreast
  <2>4. CASE x = s /\ y # r
    BY <1>1, <1>2, <2>1, <2>4, OtherAbreast
  <2>5. CASE y = r /\ x # s
    BY <1>1, <1>2, <2>1, <2>5, OtherAbreast
  <2>6. CASE y = s /\ x # r
    BY <1>1, <1>2, <2>1, <2>6, OtherAbreast
  <2>7. CASE x \notin {r, s} /\ y \notin {r, s}
    BY <1>2, <2>1, <2>7 DEF IInv, InStep, Abreast
  <2> QED BY <2>1, <2>2, <2>3, <2>4, <2>5, <2>6, <2>7
<1> QED BY <1>3, <1>4, <1>5 DEF IInv

\* A location begins when nobody has met anybody, and counts from the start.
LEMMA RenewInv == IInv /\ Renew => IInv'
<1> SUFFICES ASSUME IInv, Renew PROVE IInv'
  OBVIOUS
<1>1. /\ meets' \in [Ranks -> SUBSET Ranks] /\ Mutual(meets')
      /\ loop' = [r \in Ranks |-> 0] /\ met' = met
      /\ \A r \in Ranks : met[r] = {}
      /\ met \in [Ranks -> SUBSET Ranks]
  BY DEF Renew, IInv, TypeOK
<1>2. TypeOK'
  BY <1>1 DEF TypeOK, Mutual
<1>3. Unfinished'
  BY <1>1 DEF Unfinished
<1>4. InStep'
  <2> SUFFICES ASSUME NEW r \in Ranks, NEW s \in meets'[r]
               PROVE  Abreast(r, s)'
    BY DEF InStep, Abreast
  <2>1. s \in Ranks
    BY <1>1
  <2> QED BY <1>1, <2>1 DEF Abreast
<1> QED BY <1>2, <1>3, <1>4 DEF IInv

\* The loops of the locator keep every two neighbours in the same loop or in two
\* consecutive ones, for any number of ranks and any geometry.
THEOREM StayInStep == Spec => []IInv
<1>1. Init => IInv
  BY InitInv
<1>2. IInv /\ [Next]_vars => IInv'
  <2> SUFFICES ASSUME IInv, [Next]_vars PROVE IInv'
    OBVIOUS
  <2>1. CASE Renew
    BY <2>1, RenewInv
  <2>2. CASE \E r, s \in Ranks : Meet(r, s)
    BY <2>2, MeetInv
  <2>3. CASE UNCHANGED vars
    BY <2>3 DEF vars, IInv, TypeOK, Mutual, Unfinished, InStep, Abreast
  <2> QED BY <2>1, <2>2, <2>3 DEF Next
<1> QED BY <1>1, <1>2, PTL DEF Spec

\* The messages of one loop of the locator are never taken for those of another,
\* although they have the same tag.
THEOREM LoopsNeverMixed == Spec => []SameLoop
<1>1. IInv => SameLoop
  BY MeetInSameLoop
<1> QED BY <1>1, StayInStep, PTL

-----------------------------------------------------------------------------
\* Of the ranks in the earliest loop the lowest one, and the lowest neighbour it
\* has not met yet, can meet.
LEMMA TwoCanMeet ==
  ASSUME Ranks \subseteq Nat, IInv
  PROVE  NeverStuck
<1> SUFFICES ASSUME NEW x \in Ranks, meets[x] # {}
             PROVE  \E r, s \in Ranks : CanMeet(r, s)
  BY DEF NeverStuck
<1>1. /\ loop \in [Ranks -> Nat] /\ meets \in [Ranks -> SUBSET Ranks]
      /\ met \in [Ranks -> SUBSET Ranks] /\ Mutual(meets)
  BY DEF IInv, TypeOK
<1> DEFINE Busy == {r \in Ranks : meets[r] # {}}
           Loops == {loop[r] : r \in Busy}
<1>2. PICK first \in Loops : \A l \in Loops : first <= l
  <2>1. Loops \in SUBSET Nat /\ Loops # {}
    BY <1>1
  <2> HIDE DEF Loops
  <2> QED BY <2>1, LeastNatural
<1> DEFINE Last == {r \in Busy : loop[r] = first}
<1>3. PICK r \in Last : \A q \in Last : r <= q
  <2>1. Last \in SUBSET Ranks /\ Last # {}
    BY <1>2
  <2> HIDE DEF Last
  <2> QED BY <2>1, LeastRank
<1>4. r \in Ranks /\ meets[r] # {} /\ loop[r] = first
  BY <1>3
<1>5. PICK s \in meets[r] \ met[r] : \A q \in meets[r] \ met[r] : s <= q
  <2>1. meets[r] \ met[r] \in SUBSET Ranks /\ meets[r] \ met[r] # {}
    BY <1>1, <1>4 DEF IInv, Unfinished
  <2> QED BY <2>1, LeastRank
<1>6. s \in Ranks /\ r \in meets[s] /\ loop[s] = loop[r] /\ r \notin met[s]
  <2>1. s \in Ranks /\ r \in meets[s]
    BY <1>1, <1>4, <1>5 DEF Mutual
  <2>2. first <= loop[s]
    BY <1>2, <2>1
  <2>3. ~(loop[r] < loop[s])
    BY <1>4, <1>5 DEF IInv, InStep, Abreast
  <2>4. loop[s] = loop[r]
    BY <1>1, <1>4, <2>1, <2>2, <2>3
  <2>5. r \notin met[s]
    BY <1>4, <1>5, <2>4 DEF IInv, InStep, Abreast
  <2> QED BY <2>1, <2>4, <2>5
<1>7. PICK t \in meets[s] \ met[s] : \A q \in meets[s] \ met[s] : t <= q
  <2>1. meets[s] \ met[s] \in SUBSET Ranks /\ meets[s] \ met[s] # {}
    BY <1>1, <1>6
  <2> QED BY <2>1, LeastRank
<1>8. t = r
  <2>1. t \in Ranks /\ s \in meets[t]
    BY <1>1, <1>6, <1>7 DEF Mutual
  <2>2. first <= loop[t]
    BY <1>2, <2>1
  <2>3. ~(loop[s] < loop[t])
    BY <1>6, <1>7 DEF IInv, InStep, Abreast
  <2>4. loop[t] = first
    BY <1>1, <1>4, <1>6, <2>1, <2>2, <2>3
  <2>5. r <= t /\ t <= r
    BY <1>3, <1>6, <1>7, <2>1, <2>4
  <2>6. r \in Nat /\ t \in Nat
    BY <1>4, <2>1
  <2> QED BY <2>5, <2>6
<1>9. CanMeet(r, s)
  BY <1>5, <1>6, <1>7, <1>8 DEF CanMeet, Turn
<1> QED BY <1>4, <1>6, <1>9

\* The ranks never wait for each other in a circle in the loops of the locator:
\* as long as there are neighbours, two of them can exchange their messages.
THEOREM AlwaysSomeMeeting ==
  ASSUME Ranks \subseteq Nat
  PROVE  Spec => []NeverStuck
<1>1. IInv => NeverStuck
  BY TwoCanMeet
<1> QED BY <1>1, StayInStep, PTL
=============================================================================

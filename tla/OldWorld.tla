------------------------------ MODULE OldWorld ------------------------------
(***************************************************************************)
(* The ranks of the old interface, and the vocabulary of what they do.     *)
(*                                                                         *)
(* What a rank does in a function is a sequence of steps, each with at     *)
(* most one MPI call.  A step knows whom it concerns and carries an        *)
(* argument; what is sent and what is done with what arrives depends on    *)
(* the memory of the rank when it comes to it.  Sends wait for their       *)
(* receivers and collective calls for all ranks: MPI may let a rank go on  *)
(* earlier, which adds no wait, and since nobody receives from "any" rank, *)
(* no other result.                                                        *)
(***************************************************************************)
EXTENDS Integers, Sequences, FiniteSets, SequencesExt, TLC

CONSTANTS
  Worlds,   \* what the applications are like and do: one is chosen
  NoValue   \* NULL, and what a variable holds before it is assigned

VARIABLE world

Types == <<"int", "double", "string">>

ASSUME WorldAssumption ==
  \A w \in Worlds :
    /\ DOMAIN w.app = 0 .. Cardinality(DOMAIN w.app) - 1
    /\ DOMAIN w.calls = DOMAIN w.app
    /\ w.wrong \in BOOLEAN      \* what the code has to refuse
    \* w.geo[c]: the geometries of coupling c, one after each change: the
    \* points that each rank locates, which ranks' extents intersect, and how far
    \* a point is from the mesh of a rank: -1 if it is not in it, -2 if it is not
    \* in its extents
    /\ \A c \in DOMAIN w.geo : \A i \in DOMAIN w.geo[c] :
         LET g == w.geo[c][i] IN
         /\ \A p \in g.near : <<p[2], p[1]>> \in g.near /\ w.app[p[1]] # w.app[p[2]]
         /\ \A r \in DOMAIN w.app : \A j \in DOMAIN g.points[r] : \A s \in DOMAIN w.app :
              g.dist[g.points[r][j]][s] # -2 => <<r, s>> \in g.near

Ranks      == DOMAIN world.app
App(r)     == world.app[r]
Members(a) == {r \in Ranks : App(r) = a}
Least(S)   == CHOOSE i \in S : \A j \in S : i <= j
Root(a)    == Least(Members(a))
Ascending(S) == SetToSortSeq(S, <)
Largest(i, j) == IF i < j THEN j ELSE i
EachOf(s, Op(_)) == [i \in DOMAIN s |-> Op(s[i])]

-----------------------------------------------------------------------------
(* Communicators: what they are for, which one of these, and their ranks. *)

Global       == <<"global", <<>>, Ranks>>
Local(a)     == <<"local", <<a>>, Members(a)>>
Merge(a, b)  == <<"merge", <<>>, Members(a) \cup Members(b)>>
RanksOf(comm) == comm[3]

(* Steps. *)

Swap(do, s, comm, tag, arg) ==
  [do |-> do, how |-> "swap", with |-> s, comm |-> comm, tag |-> tag, arg |-> arg]
Send(do, s, comm, tag, arg) ==
  [do |-> do, how |-> "send", with |-> s, comm |-> comm, tag |-> tag, arg |-> arg]
Recv(do, s, comm, tag, arg) ==
  [do |-> do, how |-> "recv", with |-> s, comm |-> comm, tag |-> tag, arg |-> arg]
Coll(do, kind, comm, root, arg) ==
  [do |-> do, how |-> "coll", kind |-> kind, comm |-> comm, root |-> root, arg |-> arg]
Act(do, arg) == [do |-> do, how |-> "act", arg |-> arg]
Wait(do, arg) == [do |-> do, how |-> "wait", arg |-> arg]

Error(o) == [o EXCEPT !.error = TRUE]
Check(ok, o) == IF ok THEN o ELSE Error(o)
=============================================================================

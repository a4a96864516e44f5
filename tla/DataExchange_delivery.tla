------------------------ MODULE DataExchange_delivery ------------------------
(***************************************************************************)
(* Proofs about DataExchange, for any ranks, any distribution of the codes *)
(* over them and any programs that use the functions as WellUsed says: no  *)
(* call is refused; and, when the codes also agree on the order of what    *)
(* they exchange under a tag and no element has several origins, as        *)
(* Matched says, every wait gives the data of its own exchange.            *)
(*                                                                         *)
(* The inductive invariant gives what a rank has as a function of its      *)
(* program and of the number of calls it has made: its tables, its         *)
(* requests, and its messages, the n-th under an envelope being the item   *)
(* of the n-th call that sends one.                                        *)
(***************************************************************************)
EXTENDS DataExchange_proofs, WellFoundedInduction

-----------------------------------------------------------------------------
(* The invariant.  p is a program of which n calls have been made.  *)

\* The request of call i.
Position(p, i, kind) ==
  LET env == Envelope(kind, p[i]) IN [env |-> env, nth |-> Nth(p, i, p[i].do, env)]

\* The entry e of global data is that of call i.
Entered(p, i, e, posts) == e.data = Item(p, i) /\ (posts => e.req = Position(p, i, "global"))

GlobalFits(p, n, t, posts) ==
  /\ \A i \in 1..n : p[i].do \in GlobalStarts =>
       p[i].id \in DOMAIN t /\ Entered(p, i, t[p[i].id], posts)
  /\ \A id \in DOMAIN t : \E i \in 1..n : p[i].do \in GlobalStarts /\ p[i].id = id

\* The objects of partitioned data, ...
ObjectsFit(p, n, t) ==
  /\ \A j \in 1..n : Lives(p, n, j) => p[j].id \in DOMAIN t /\ t[p[j].id].type = p[j].type
  /\ \A id \in DOMAIN t : \E j \in 1..n : Lives(p, n, j) /\ p[j].id = id

\* ... and their requests.
RequestsFit(p, n, t) ==
  /\ \A j \in 1..n : UnderWay(p, n, j) =>
       /\ p[j].id \in DOMAIN t /\ p[j].exch \in DOMAIN t[p[j].id].requests
       /\ t[p[j].id].requests[p[j].exch] = Position(p, j, "part")
  /\ \A id \in DOMAIN t : \A e \in DOMAIN t[id].requests :
       \E j \in 1..n : UnderWay(p, n, j) /\ Key(p[j]) = <<id, e>>

\* The messages of q, under env, are the items of the calls do.
QueueFits(p, n, q, do, env) ==
  /\ q \in Seq(Range(q))
  /\ \A v \in 1..Len(q) : \E i \in 1..n :
       /\ p[i].do = do /\ Envelope(env[1], p[i]) = env
       /\ Nth(p, i, do, env) = v /\ q[v] = Item(p, i)

\* What a rank has under env, which exchanges global data if it posts them.
Uses(posts, env) == env[1] = "part" \/ posts

StreamFits(p, n, q, m, posts, env) ==
  /\ QueueFits(p, n, q, Issend(env[1]), env)
  /\ Uses(posts, env) =>
       Len(q) = Nth(p, n, Issend(env[1]), env) /\ m = Nth(p, n, Irecv(env[1]), env)

RowFits(p, n, g, t, s, m, posts, E) ==
  /\ GlobalFits(p, n, g, posts) /\ ObjectsFit(p, n, t) /\ RequestsFit(p, n, t)
  /\ \A env \in E : StreamFits(p, n, s[env], m[env], posts, env)

RankFits(c, r) ==
  RowFits(Prog(c), pc[c][r] - 1, global[c][r], part[c][r], sent[c][r], wanted[c][r],
          Posts(c, r), Envelopes)

\* An exchange that is under way has been started once more than waited for.
InTurn(p, n, key) ==
  Times(p, n, "part_irecv", key) = Times(p, n, "part_wait_irecv", key) +
    (IF \E j \in 1..n : UnderWay(p, n, j) /\ p[j].do = "part_irecv" /\ Key(p[j]) = key
     THEN 1 ELSE 0)

\* The number of broadcasts in the first n calls, and what they have been.
CastsIn(p, n) == Cardinality({i \in 1..n : p[i].do = "wait_irecv"})
CastFits(c) ==
  LET p == Prog(c) IN
  /\ cast[c] \in Seq(Range(cast[c])) /\ Len(cast[c]) = CastsIn(p, pc[c][Root(c)] - 1)
  /\ \A i \in 1..Len(p) : p[i].do = "wait_irecv" /\ CastsIn(p, i) <= Len(cast[c]) =>
       cast[c][CastsIn(p, i)] = Item(p, i)

\* What the code of smaller id has copied on a common root.
Copied(r) ==
  \A i \in 1..pc[1][r] - 1 : Prog(1)[i].do = "wait_issend" =>
    buffer[2][r].global[Key(Prog(1)[i])] = Append(Key(Prog(1)[i]), 1)

Keys == {Key(k) : k \in CallsOf(world)}

Frames ==
  /\ DOMAIN global = Codes /\ DOMAIN cast = Codes /\ DOMAIN buffer = Codes
  /\ \A c \in Codes :
       /\ DOMAIN global[c] = Ranks /\ DOMAIN buffer[c] = Ranks
       /\ \A r \in Ranks :
            /\ DOMAIN buffer[c][r] = Kinds
            /\ \A kind \in Kinds : DOMAIN buffer[c][r][kind] = Keys

Used  == WellUsed(world)
Agree == WellUsed(world) /\ Matched(world)

Fits == \A c \in Codes, r \in Ranks : r \in Holds(c) => RankFits(c, r)
Paces ==
  \A c \in Codes, r \in Ranks : r \in Holds(c) =>
    \A key \in Keys : InTurn(Prog(c), pc[c][r] - 1, key)
Arrays ==
  /\ \A c \in Codes : CastFits(c)
  /\ \A r \in Ranks : r = Root(1) /\ r = Root(2) => Copied(r)
  /\ Delivered

DInv == Frames /\ Fits /\ (Used => Paces) /\ (Agree => Arrays)

-----------------------------------------------------------------------------
(* Counting the calls of a program. *)

Upto(S, n) == {i \in 1..n : i \in S}

\* One call more.
LEMMA CountNext ==
  ASSUME NEW S, NEW n \in Nat
  PROVE  /\ IsFiniteSet(Upto(S, n)) /\ Cardinality(Upto(S, n)) \in Nat
         /\ Cardinality(Upto(S, n + 1)) = Cardinality(Upto(S, n)) + (IF n + 1 \in S THEN 1 ELSE 0)
         /\ Cardinality(Upto(S, 0)) = 0
<1> DEFINE T == Upto(S, n)
<1>1. IsFiniteSet(T) /\ Cardinality(T) \in Nat
  <2>1. IsFiniteSet(1..n)
    BY FS_Interval
  <2>2. T \in SUBSET (1..n)
    BY DEF Upto
  <2> HIDE DEF T
  <2> QED BY <2>1, <2>2, FS_Subset, FS_CardinalityType
<1>2. n + 1 \notin T /\ Upto(S, n + 1) = IF n + 1 \in S THEN T \cup {n + 1} ELSE T
  BY DEF Upto
<1>3. Cardinality(T \cup {n + 1}) = Cardinality(T) + 1
  <2> HIDE DEF T
  <2> QED BY <1>1, <1>2, FS_AddElement
<1>4. Cardinality(Upto(S, 0)) = 0
  <2>1. Upto(S, 0) = {}
    BY DEF Upto
  <2> QED BY <2>1, FS_EmptySet
<1>5. Cardinality(Upto(S, n + 1)) = Cardinality(T) + (IF n + 1 \in S THEN 1 ELSE 0)
  <2>1. CASE n + 1 \in S
    BY <1>2, <1>3, <2>1
  <2>2. CASE n + 1 \notin S
    <3> HIDE DEF T
    <3> QED BY <1>1, <1>2, <2>2
  <2> QED BY <2>1, <2>2
<1> QED BY <1>1, <1>4, <1>5

\* Later calls; the last of them is one more.
LEMMA CountLater ==
  ASSUME NEW S, NEW i \in Nat, NEW j \in Nat, i <= j
  PROVE  /\ Cardinality(Upto(S, i)) <= Cardinality(Upto(S, j))
         /\ i < j /\ j \in S => Cardinality(Upto(S, i)) < Cardinality(Upto(S, j))
         /\ (\A m \in i + 1..j : m \notin S) => Cardinality(Upto(S, i)) = Cardinality(Upto(S, j))
<1> DEFINE T == Upto(S, i)  U == Upto(S, j)
<1>1. IsFiniteSet(T) /\ IsFiniteSet(U) /\ Cardinality(T) \in Nat /\ Cardinality(U) \in Nat
  BY CountNext
<1>2. T \in SUBSET U /\ (i < j /\ j \in S => j \in U /\ j \notin T)
  BY DEF Upto
<1>3. (\A m \in i + 1..j : m \notin S) => T = U
  <2>1. \A m \in 1..j : m \in 1..i \/ m \in i + 1..j
    OBVIOUS
  <2>2. \A m \in 1..i : m \in 1..j
    OBVIOUS
  <2> QED BY <2>1, <2>2 DEF Upto
<1> HIDE DEF T, U
<1>4. Cardinality(T) <= Cardinality(U) /\ (Cardinality(T) = Cardinality(U) => T = U)
  BY <1>1, <1>2, FS_Subset
<1> QED BY <1>1, <1>2, <1>3, <1>4 DEF T, U

\* Two calls that are counted have different numbers.
LEMMA CountApart ==
  ASSUME NEW S, NEW i \in Nat, NEW j \in Nat, i \in S, j \in S,
         Cardinality(Upto(S, i)) = Cardinality(Upto(S, j))
  PROVE  i = j
<1>1. Cardinality(Upto(S, i)) \in Nat
  BY CountNext
<1>2. ~(i < j) /\ ~(j < i)
  BY <1>1, CountLater
<1> QED BY <1>2

\* The times of a call, ...
LEMMA TimesFacts ==
  ASSUME NEW p, NEW do, NEW key, NEW n \in Nat
  PROVE  /\ Times(p, n, do, key) \in Nat /\ Times(p, 0, do, key) = 0
         /\ Times(p, n + 1, do, key) = Times(p, n, do, key)
              + (IF p[n + 1].do = do /\ Key(p[n + 1]) = key THEN 1 ELSE 0)
<1> DEFINE S == {i \in 1..n + 1 : p[i].do = do /\ Key(p[i]) = key}
<1>1. n + 1 \in S <=> p[n + 1].do = do /\ Key(p[n + 1]) = key
  OBVIOUS
<1>2. {i \in 1..n : p[i].do = do /\ Key(p[i]) = key} = Upto(S, n)
  BY DEF Upto
<1>3. {i \in 1..n + 1 : p[i].do = do /\ Key(p[i]) = key} = Upto(S, n + 1)
  BY DEF Upto
<1>4. {i \in 1..0 : p[i].do = do /\ Key(p[i]) = key} = Upto(S, 0)
  BY DEF Upto
<1> HIDE DEF S
<1>5. /\ Times(p, n, do, key) = Cardinality(Upto(S, n)) /\ Times(p, 0, do, key) = Cardinality(Upto(S, 0))
      /\ Times(p, n + 1, do, key) = Cardinality(Upto(S, n + 1))
  BY <1>2, <1>3, <1>4 DEF Times
<1>6. Cardinality(Upto(S, n)) \in Nat /\ Cardinality(Upto(S, 0)) = 0
  BY CountNext
<1>7. Cardinality(Upto(S, n + 1)) = Cardinality(Upto(S, n)) + (IF n + 1 \in S THEN 1 ELSE 0)
  BY CountNext
<1> QED BY <1>1, <1>5, <1>6, <1>7

\* ... those of one call more, ...
LEMMA TimesMore ==
  ASSUME NEW p, NEW do, NEW key, NEW n \in Nat
  PROVE  /\ p[n + 1].do = do /\ Key(p[n + 1]) = key =>
              Times(p, n + 1, do, key) = Times(p, n, do, key) + 1
         /\ ~(p[n + 1].do = do /\ Key(p[n + 1]) = key) =>
              Times(p, n + 1, do, key) = Times(p, n, do, key)
<1>1. /\ Times(p, n, do, key) \in Nat
      /\ Times(p, n + 1, do, key) = Times(p, n, do, key)
           + (IF p[n + 1].do = do /\ Key(p[n + 1]) = key THEN 1 ELSE 0)
  BY TimesFacts
<1> QED BY <1>1

\* ... and those between two calls.
LEMMA TimesBetween ==
  ASSUME NEW p, NEW do, NEW key, NEW i \in Nat, NEW n \in Nat, i <= n
  PROVE  /\ Times(p, i, do, key) <= Times(p, n, do, key)
         /\ (\A m \in i + 1..n : ~(p[m].do = do /\ Key(p[m]) = key)) =>
              Times(p, i, do, key) = Times(p, n, do, key)
<1> DEFINE S == {j \in 1..n : p[j].do = do /\ Key(p[j]) = key}
<1>1. {j \in 1..n : p[j].do = do /\ Key(p[j]) = key} = Upto(S, n)
  BY DEF Upto
<1>2. {j \in 1..i : p[j].do = do /\ Key(p[j]) = key} = Upto(S, i)
  BY DEF Upto
<1>3. (\A m \in i + 1..n : ~(p[m].do = do /\ Key(p[m]) = key)) => \A m \in i + 1..n : m \notin S
  OBVIOUS
<1> HIDE DEF S
<1> QED BY <1>1, <1>2, <1>3, CountLater DEF Times

\* The number of a call under an envelope.
LEMMA NthFacts ==
  ASSUME NEW p, NEW do, NEW env, NEW n \in Nat
  PROVE  /\ Nth(p, n, do, env) \in Nat /\ Nth(p, 0, do, env) = 0
         /\ p[n + 1].do = do /\ Envelope(env[1], p[n + 1]) = env =>
              Nth(p, n + 1, do, env) = Nth(p, n, do, env) + 1
         /\ ~(p[n + 1].do = do /\ Envelope(env[1], p[n + 1]) = env) =>
              Nth(p, n + 1, do, env) = Nth(p, n, do, env)
<1> DEFINE S == {i \in 1..n + 1 : p[i].do = do /\ Envelope(env[1], p[i]) = env}
<1>1. n + 1 \in S <=> p[n + 1].do = do /\ Envelope(env[1], p[n + 1]) = env
  OBVIOUS
<1>2. {i \in 1..n : p[i].do = do /\ Envelope(env[1], p[i]) = env} = Upto(S, n)
  BY DEF Upto
<1>3. {i \in 1..n + 1 : p[i].do = do /\ Envelope(env[1], p[i]) = env} = Upto(S, n + 1)
  BY DEF Upto
<1>4. {i \in 1..0 : p[i].do = do /\ Envelope(env[1], p[i]) = env} = Upto(S, 0)
  BY DEF Upto
<1> HIDE DEF S
<1>5. /\ Nth(p, n, do, env) = Cardinality(Upto(S, n)) /\ Nth(p, 0, do, env) = Cardinality(Upto(S, 0))
      /\ Nth(p, n + 1, do, env) = Cardinality(Upto(S, n + 1))
  BY <1>2, <1>3, <1>4 DEF Nth
<1>6. Cardinality(Upto(S, n)) \in Nat /\ Cardinality(Upto(S, 0)) = 0
  BY CountNext
<1>7. Cardinality(Upto(S, n + 1)) = Cardinality(Upto(S, n)) + (IF n + 1 \in S THEN 1 ELSE 0)
  BY CountNext
<1> QED BY <1>1, <1>5, <1>6, <1>7

\* The number of a broadcast, which no other one has.
LEMMA CastsFacts ==
  ASSUME NEW p, NEW n \in Nat
  PROVE  /\ CastsIn(p, n) \in Nat /\ CastsIn(p, 0) = 0
         /\ CastsIn(p, n + 1) = CastsIn(p, n) + (IF p[n + 1].do = "wait_irecv" THEN 1 ELSE 0)
         /\ \A i \in 1..n : /\ CastsIn(p, i) <= CastsIn(p, n)
                            /\ p[i].do = "wait_irecv" => CastsIn(p, i) >= 1
         /\ \A i, j \in 1..n :
              p[i].do = "wait_irecv" /\ p[j].do = "wait_irecv" /\ CastsIn(p, i) = CastsIn(p, j) => i = j
<1> DEFINE S == {i \in 1..n + 1 : p[i].do = "wait_irecv"}
<1>1. \A i \in 1..n + 1 : i \in S <=> p[i].do = "wait_irecv"
  OBVIOUS
<1>2. \A m \in 0..n + 1 : {i \in 1..m : p[i].do = "wait_irecv"} = Upto(S, m)
  BY DEF Upto
<1> HIDE DEF S
<1>3. \A m \in 0..n + 1 : CastsIn(p, m) = Cardinality(Upto(S, m))
  BY <1>2 DEF CastsIn
<1>4. CastsIn(p, n) \in Nat /\ CastsIn(p, 0) = 0
  BY <1>3, CountNext
<1>5. CastsIn(p, n + 1) = CastsIn(p, n) + (IF p[n + 1].do = "wait_irecv" THEN 1 ELSE 0)
  BY <1>1, <1>3, CountNext
<1>6. ASSUME NEW i \in 1..n
      PROVE  CastsIn(p, i) <= CastsIn(p, n) /\ (p[i].do = "wait_irecv" => CastsIn(p, i) >= 1)
  <2>1. i \in Nat /\ 0 \in Nat /\ i <= n /\ 0 < i /\ i \in 0..n + 1 /\ i \in 1..n + 1 /\ n \in 0..n + 1
        /\ 0 \in 0..n + 1
    OBVIOUS
  <2>2. Cardinality(Upto(S, i)) <= Cardinality(Upto(S, n))
    BY <2>1, CountLater
  <2>3. i \in S => Cardinality(Upto(S, 0)) < Cardinality(Upto(S, i))
    BY <2>1, CountLater
  <2>4. Cardinality(Upto(S, 0)) = 0 /\ Cardinality(Upto(S, i)) \in Nat
    BY <2>1, CountNext
  <2> QED BY <1>1, <1>3, <2>1, <2>2, <2>3, <2>4
<1>7. ASSUME NEW i \in 1..n, NEW j \in 1..n, p[i].do = "wait_irecv", p[j].do = "wait_irecv",
             CastsIn(p, i) = CastsIn(p, j)
      PROVE  i = j
  <2>1. i \in Nat /\ j \in Nat /\ i \in S /\ j \in S /\ i \in 0..n + 1 /\ j \in 0..n + 1
    BY <1>1, <1>7
  <2>2. Cardinality(Upto(S, i)) = Cardinality(Upto(S, j))
    BY <1>3, <1>7, <2>1
  <2> QED BY <2>1, <2>2, CountApart
<1> QED BY <1>4, <1>5, <1>6, <1>7

-----------------------------------------------------------------------------
(* One call more: tables and messages that fit a program still do.  *)

\* What is there after a call more.
LEMMA LivesNext ==
  ASSUME NEW p, NEW n \in Nat, NEW j
  PROVE  Lives(p, n + 1, j) <=>
           \/ j = n + 1 /\ p[n + 1].do = "create"
           \/ Lives(p, n, j) /\ ~(p[n + 1].do \in Lifetime /\ p[n + 1].id = p[j].id)
<1>1. ASSUME j \in 1..n
      PROVE  \A m : m \in j + 1..n + 1 <=> m \in j + 1..n \/ m = n + 1
  BY <1>1
<1>2. j = n + 1 => j + 1..n + 1 = {}
  OBVIOUS
<1>3. j \in 1..n + 1 <=> j \in 1..n \/ j = n + 1
  OBVIOUS
<1>4. j = n + 1 => j \notin 1..n
  OBVIOUS
<1> QED BY <1>1, <1>2, <1>3, <1>4 DEF Lives

LEMMA UnderWayNext ==
  ASSUME NEW p, NEW n \in Nat, NEW j
  PROVE  UnderWay(p, n + 1, j) <=>
           \/ j = n + 1 /\ p[n + 1].do \in PartStarts
           \/ /\ UnderWay(p, n, j)
              /\ p[n + 1].do \in Lifetime => p[n + 1].id # p[j].id
              /\ p[n + 1].do \in PartWaits => Key(p[n + 1]) # Key(p[j])
<1>1. ASSUME j \in 1..n
      PROVE  \A m : m \in j + 1..n + 1 <=> m \in j + 1..n \/ m = n + 1
  BY <1>1
<1>2. j = n + 1 => j + 1..n + 1 = {}
  OBVIOUS
<1>3. j \in 1..n + 1 <=> j \in 1..n \/ j = n + 1
  OBVIOUS
<1>4. j = n + 1 => j \notin 1..n
  OBVIOUS
<1> QED BY <1>1, <1>2, <1>3, <1>4 DEF UnderWay

\* Global data that are started, ...
LEMMA GlobalMore ==
  ASSUME NEW p, NEW n \in Nat, NEW t, NEW posts, GlobalFits(p, n, t, posts),
         p[n + 1].do \in GlobalStarts, p[n + 1].id \notin DOMAIN t,
         NEW e, Entered(p, n + 1, e, posts)
  PROVE  GlobalFits(p, n + 1, With(t, p[n + 1].id, e), posts)
<1> DEFINE u == With(t, p[n + 1].id, e)
<1>1. /\ DOMAIN u = DOMAIN t \cup {p[n + 1].id} /\ u[p[n + 1].id] = e
      /\ \A id \in DOMAIN t : u[id] = t[id]
  BY DEF With
<1>2. \A i \in 1..n + 1 : i \in 1..n \/ i = n + 1
  OBVIOUS
<1>3. n + 1 \in 1..n + 1 /\ \A i \in 1..n : i \in 1..n + 1
  OBVIOUS
<1> HIDE DEF u
<1>4. ASSUME NEW i \in 1..n + 1, p[i].do \in GlobalStarts
      PROVE  p[i].id \in DOMAIN u /\ Entered(p, i, u[p[i].id], posts)
  BY <1>1, <1>2, <1>4 DEF GlobalFits
<1>5. ASSUME NEW id \in DOMAIN u
      PROVE  \E i \in 1..n + 1 : p[i].do \in GlobalStarts /\ p[i].id = id
  BY <1>1, <1>3 DEF GlobalFits
<1> QED BY <1>4, <1>5 DEF GlobalFits, u

\* ... and those that are there.
LEMMA GlobalKeeps ==
  ASSUME NEW p, NEW n \in Nat, NEW t, NEW posts, GlobalFits(p, n, t, posts),
         p[n + 1].do \notin GlobalStarts
  PROVE  GlobalFits(p, n + 1, t, posts)
<1>1. \A i \in 1..n + 1 : i \in 1..n \/ i = n + 1
  OBVIOUS
<1>2. \A i \in 1..n : i \in 1..n + 1
  OBVIOUS
<1> QED BY <1>1, <1>2 DEF GlobalFits

\* A call that neither creates nor deletes.
LEMMA ObjectsKeep ==
  ASSUME NEW p, NEW n \in Nat, NEW t, ObjectsFit(p, n, t), p[n + 1].do \notin Lifetime,
         NEW u, DOMAIN u = DOMAIN t, \A id \in DOMAIN t : u[id].type = t[id].type
  PROVE  ObjectsFit(p, n + 1, u)
<1>1. \A j \in 1..n + 1 : Lives(p, n + 1, j) => j \in 1..n /\ Lives(p, n, j)
  BY LivesNext DEF Lives, Lifetime
<1>2. \A j \in 1..n : j \in 1..n + 1 /\ (Lives(p, n, j) => Lives(p, n + 1, j))
  BY LivesNext
<1> QED BY <1>1, <1>2 DEF ObjectsFit

\* An object that is created, ...
LEMMA ObjectsMore ==
  ASSUME NEW p, NEW n \in Nat, NEW t, ObjectsFit(p, n, t), p[n + 1].do = "create",
         p[n + 1].id \notin DOMAIN t, NEW e, e.type = p[n + 1].type
  PROVE  ObjectsFit(p, n + 1, With(t, p[n + 1].id, e))
<1> DEFINE u == With(t, p[n + 1].id, e)
<1>1. /\ DOMAIN u = DOMAIN t \cup {p[n + 1].id} /\ u[p[n + 1].id] = e
      /\ \A id \in DOMAIN t : u[id] = t[id]
  BY DEF With
<1> HIDE DEF u
<1>2. \A j \in 1..n + 1 : Lives(p, n + 1, j) => j = n + 1 \/ (j \in 1..n /\ Lives(p, n, j))
  BY LivesNext DEF Lives
<1>3. Lives(p, n + 1, n + 1) /\ n + 1 \in 1..n + 1
  BY LivesNext
<1>4. ASSUME NEW j \in 1..n, Lives(p, n, j) PROVE j \in 1..n + 1 /\ Lives(p, n + 1, j)
  <2>1. p[j].id \in DOMAIN t
    BY <1>4 DEF ObjectsFit
  <2> QED BY <1>4, <2>1, LivesNext
<1>5. ASSUME NEW j \in 1..n + 1, Lives(p, n + 1, j)
      PROVE  p[j].id \in DOMAIN u /\ u[p[j].id].type = p[j].type
  BY <1>1, <1>2, <1>5 DEF ObjectsFit
<1>6. ASSUME NEW id \in DOMAIN u PROVE \E j \in 1..n + 1 : Lives(p, n + 1, j) /\ p[j].id = id
  BY <1>1, <1>3, <1>4 DEF ObjectsFit
<1> QED BY <1>5, <1>6 DEF ObjectsFit, u

\* ... and one that is deleted.
LEMMA ObjectsLess ==
  ASSUME NEW p, NEW n \in Nat, NEW t, ObjectsFit(p, n, t), p[n + 1].do = "del"
  PROVE  ObjectsFit(p, n + 1, Restrict(t, DOMAIN t \ {p[n + 1].id}))
<1> DEFINE u == Restrict(t, DOMAIN t \ {p[n + 1].id})
<1>1. DOMAIN u = DOMAIN t \ {p[n + 1].id} /\ \A id \in DOMAIN u : u[id] = t[id]
  BY DEF Restrict
<1> HIDE DEF u
<1>2. \A j \in 1..n + 1 : Lives(p, n + 1, j) <=> j \in 1..n /\ Lives(p, n, j) /\ p[j].id # p[n + 1].id
  BY LivesNext DEF Lives, Lifetime
<1>3. \A j \in 1..n : j \in 1..n + 1
  OBVIOUS
<1> QED BY <1>1, <1>2, <1>3 DEF ObjectsFit, u

\* Requests that stay, ...
LEMMA RequestsKeep ==
  ASSUME NEW p, NEW n \in Nat, NEW t, RequestsFit(p, n, t),
         p[n + 1].do \notin Lifetime \cup PartStarts \cup PartWaits,
         NEW u, DOMAIN u = DOMAIN t, \A id \in DOMAIN t : u[id].requests = t[id].requests
  PROVE  RequestsFit(p, n + 1, u)
<1>1. \A j \in 1..n + 1 : UnderWay(p, n + 1, j) => j \in 1..n /\ UnderWay(p, n, j)
  BY UnderWayNext DEF UnderWay
<1>2. \A j \in 1..n : j \in 1..n + 1 /\ (UnderWay(p, n, j) => UnderWay(p, n + 1, j))
  BY UnderWayNext
<1> QED BY <1>1, <1>2 DEF RequestsFit

\* ... that are made, ...
LEMMA RequestsMore ==
  ASSUME NEW p, NEW n \in Nat, NEW t, RequestsFit(p, n, t), p[n + 1].do \in PartStarts,
         p[n + 1].id \in DOMAIN t, p[n + 1].exch \notin DOMAIN t[p[n + 1].id].requests,
         NEW u, DOMAIN u = DOMAIN t,
         \A id \in DOMAIN t : id # p[n + 1].id => u[id].requests = t[id].requests,
         NEW req, req = Position(p, n + 1, "part"),
         u[p[n + 1].id].requests = With(t[p[n + 1].id].requests, p[n + 1].exch, req)
  PROVE  RequestsFit(p, n + 1, u)
<1> DEFINE k == p[n + 1]
<1>0. PICK q, s : q = t[k.id].requests /\ s = With(q, k.exch, req)
  OBVIOUS
<1>1. /\ DOMAIN s = DOMAIN q \cup {k.exch} /\ s[k.exch] = req
      /\ \A e \in DOMAIN q : s[e] = q[e]
  BY <1>0 DEF With
<1>2. u[k.id].requests = s /\ q = t[k.id].requests /\ k.exch \notin DOMAIN q
  BY <1>0
<1>3. \A j \in 1..n + 1 : UnderWay(p, n + 1, j) => j = n + 1 \/ (j \in 1..n /\ UnderWay(p, n, j))
  BY UnderWayNext DEF UnderWay
<1>4. UnderWay(p, n + 1, n + 1) /\ n + 1 \in 1..n + 1 /\ Key(k) = <<k.id, k.exch>>
  <2>1. \A j : j = n + 1 => UnderWay(p, n + 1, j)
    BY UnderWayNext
  <2> QED BY <2>1 DEF Key
<1>5. k.do \notin Lifetime /\ k.do \notin PartWaits
  BY DEF Lifetime, PartWaits, PartStarts
<1>6. \A j \in 1..n : j \in 1..n + 1 /\ (UnderWay(p, n, j) => UnderWay(p, n + 1, j))
  BY <1>5, UnderWayNext
<1>7. ASSUME NEW j \in 1..n + 1, UnderWay(p, n + 1, j)
      PROVE  /\ p[j].id \in DOMAIN u /\ p[j].exch \in DOMAIN u[p[j].id].requests
             /\ u[p[j].id].requests[p[j].exch] = Position(p, j, "part")
  <2>1. CASE j = n + 1
    BY <1>1, <1>2, <2>1
  <2>2. CASE j # n + 1
    <3>1. /\ j \in 1..n /\ p[j].id \in DOMAIN t /\ p[j].exch \in DOMAIN t[p[j].id].requests
          /\ t[p[j].id].requests[p[j].exch] = Position(p, j, "part")
      BY <1>3, <1>7, <2>2 DEF RequestsFit
    <3> QED BY <1>1, <1>2, <3>1
  <2> QED BY <2>1, <2>2
<1>8. ASSUME NEW id \in DOMAIN u, NEW e \in DOMAIN u[id].requests
      PROVE  \E j \in 1..n + 1 : UnderWay(p, n + 1, j) /\ Key(p[j]) = <<id, e>>
  <2>1. CASE id = k.id /\ e = k.exch
    BY <1>4, <2>1
  <2>2. CASE ~(id = k.id /\ e = k.exch)
    <3>1. id \in DOMAIN t /\ e \in DOMAIN t[id].requests
      BY <1>1, <1>2, <1>8, <2>2
    <3>2. \E j \in 1..n : UnderWay(p, n, j) /\ Key(p[j]) = <<id, e>>
      BY <3>1 DEF RequestsFit
    <3> QED BY <1>6, <3>2
  <2> QED BY <2>1, <2>2
<1> QED BY <1>7, <1>8 DEF RequestsFit

\* ... that are completed, ...
LEMMA RequestsLess ==
  ASSUME NEW p, NEW n \in Nat, NEW t, RequestsFit(p, n, t), p[n + 1].do \in PartWaits,
         p[n + 1].id \in DOMAIN t,
         NEW u, DOMAIN u = DOMAIN t,
         \A id \in DOMAIN t : id # p[n + 1].id => u[id].requests = t[id].requests,
         u[p[n + 1].id].requests = exch_clear(t[p[n + 1].id].requests, p[n + 1].exch)
  PROVE  RequestsFit(p, n + 1, u)
<1> DEFINE k == p[n + 1]  q == t[k.id].requests  s == exch_clear(q, k.exch)
<1>1. DOMAIN s = DOMAIN q \ {k.exch} /\ \A e \in DOMAIN s : s[e] = q[e]
  BY DEF exch_clear, Restrict
<1>2. u[k.id].requests = s
  OBVIOUS
<1> HIDE DEF s
<1>3. k.do \notin Lifetime /\ k.do \notin PartStarts
  BY DEF Lifetime, PartWaits, PartStarts
<1>4. \A j \in 1..n + 1 : UnderWay(p, n + 1, j) =>
        j \in 1..n /\ UnderWay(p, n, j) /\ <<p[j].id, p[j].exch>> # <<k.id, k.exch>>
  BY <1>3, UnderWayNext DEF UnderWay, Key
<1>5. \A j \in 1..n : j \in 1..n + 1 /\ (UnderWay(p, n, j) /\ Key(p[j]) # Key(k) => UnderWay(p, n + 1, j))
  BY <1>3, UnderWayNext
<1>6. ASSUME NEW j \in 1..n + 1, UnderWay(p, n + 1, j)
      PROVE  /\ p[j].id \in DOMAIN u /\ p[j].exch \in DOMAIN u[p[j].id].requests
             /\ u[p[j].id].requests[p[j].exch] = Position(p, j, "part")
  <2>1. /\ p[j].id \in DOMAIN t /\ p[j].exch \in DOMAIN t[p[j].id].requests
        /\ t[p[j].id].requests[p[j].exch] = Position(p, j, "part")
    BY <1>4, <1>6 DEF RequestsFit
  <2>2. p[j].id = k.id => p[j].exch # k.exch
    BY <1>4, <1>6
  <2> QED BY <1>1, <1>2, <2>1, <2>2
<1>7. ASSUME NEW id \in DOMAIN u, NEW e \in DOMAIN u[id].requests
      PROVE  \E j \in 1..n + 1 : UnderWay(p, n + 1, j) /\ Key(p[j]) = <<id, e>>
  <2>1. id \in DOMAIN t /\ e \in DOMAIN t[id].requests /\ ~(id = k.id /\ e = k.exch)
    BY <1>1, <1>2, <1>7
  <2>2. <<id, e>> # Key(k)
    BY <2>1 DEF Key
  <2>3. \E j \in 1..n : UnderWay(p, n, j) /\ Key(p[j]) = <<id, e>>
    BY <2>1 DEF RequestsFit
  <2> QED BY <1>5, <2>2, <2>3
<1> QED BY <1>6, <1>7 DEF RequestsFit

\* ... of an object that is created, ...
LEMMA RequestsNone ==
  ASSUME NEW p, NEW n \in Nat, NEW t, RequestsFit(p, n, t), p[n + 1].do = "create",
         p[n + 1].id \notin DOMAIN t, NEW e, DOMAIN e.requests = {}
  PROVE  RequestsFit(p, n + 1, With(t, p[n + 1].id, e))
<1> DEFINE u == With(t, p[n + 1].id, e)
<1>1. /\ DOMAIN u = DOMAIN t \cup {p[n + 1].id} /\ u[p[n + 1].id] = e
      /\ \A id \in DOMAIN t : u[id] = t[id]
  BY DEF With
<1> HIDE DEF u
<1>2. p[n + 1].do \in Lifetime /\ p[n + 1].do \notin PartStarts /\ p[n + 1].do \notin PartWaits
  BY DEF Lifetime, PartStarts, PartWaits
<1>3. \A j \in 1..n + 1 : UnderWay(p, n + 1, j) => j \in 1..n /\ UnderWay(p, n, j)
  BY <1>2, UnderWayNext DEF UnderWay
<1>4. ASSUME NEW j \in 1..n, UnderWay(p, n, j) PROVE j \in 1..n + 1 /\ UnderWay(p, n + 1, j)
  <2>1. p[j].id \in DOMAIN t
    BY <1>4 DEF RequestsFit
  <2> QED BY <1>2, <1>4, <2>1, UnderWayNext
<1>5. ASSUME NEW j \in 1..n + 1, UnderWay(p, n + 1, j)
      PROVE  /\ p[j].id \in DOMAIN u /\ p[j].exch \in DOMAIN u[p[j].id].requests
             /\ u[p[j].id].requests[p[j].exch] = Position(p, j, "part")
  BY <1>1, <1>3, <1>5 DEF RequestsFit
<1>6. ASSUME NEW id \in DOMAIN u, NEW x \in DOMAIN u[id].requests
      PROVE  \E j \in 1..n + 1 : UnderWay(p, n + 1, j) /\ Key(p[j]) = <<id, x>>
  <2>1. id \in DOMAIN t /\ x \in DOMAIN t[id].requests
    BY <1>1, <1>6
  <2>2. \E j \in 1..n : UnderWay(p, n, j) /\ Key(p[j]) = <<id, x>>
    BY <2>1 DEF RequestsFit
  <2> QED BY <1>4, <2>2
<1> QED BY <1>5, <1>6 DEF RequestsFit, u

\* ... and of one that is deleted.
LEMMA RequestsGone ==
  ASSUME NEW p, NEW n \in Nat, NEW t, RequestsFit(p, n, t), p[n + 1].do = "del"
  PROVE  RequestsFit(p, n + 1, Restrict(t, DOMAIN t \ {p[n + 1].id}))
<1> DEFINE u == Restrict(t, DOMAIN t \ {p[n + 1].id})
<1>1. DOMAIN u = DOMAIN t \ {p[n + 1].id} /\ \A id \in DOMAIN u : u[id] = t[id]
  BY DEF Restrict
<1> HIDE DEF u
<1>2. p[n + 1].do \in Lifetime /\ p[n + 1].do \notin PartStarts /\ p[n + 1].do \notin PartWaits
  BY DEF Lifetime, PartStarts, PartWaits
<1>3. \A j \in 1..n + 1 :
        UnderWay(p, n + 1, j) <=> j \in 1..n /\ UnderWay(p, n, j) /\ p[j].id # p[n + 1].id
  BY <1>2, UnderWayNext DEF UnderWay
<1>4. \A j \in 1..n : j \in 1..n + 1
  OBVIOUS
<1>5. ASSUME NEW j \in 1..n + 1, UnderWay(p, n + 1, j)
      PROVE  /\ p[j].id \in DOMAIN u /\ p[j].exch \in DOMAIN u[p[j].id].requests
             /\ u[p[j].id].requests[p[j].exch] = Position(p, j, "part")
  <2>1. /\ p[j].id \in DOMAIN t /\ p[j].exch \in DOMAIN t[p[j].id].requests
        /\ t[p[j].id].requests[p[j].exch] = Position(p, j, "part") /\ p[j].id # p[n + 1].id
    BY <1>3, <1>5 DEF RequestsFit
  <2> QED BY <1>1, <2>1
<1>6. ASSUME NEW id \in DOMAIN u, NEW x \in DOMAIN u[id].requests
      PROVE  \E j \in 1..n + 1 : UnderWay(p, n + 1, j) /\ Key(p[j]) = <<id, x>>
  <2>1. id \in DOMAIN t /\ x \in DOMAIN t[id].requests /\ id # p[n + 1].id
    BY <1>1, <1>6
  <2>2. PICK j \in 1..n : UnderWay(p, n, j) /\ Key(p[j]) = <<id, x>>
    BY <2>1 DEF RequestsFit
  <2>3. p[j].id = id
    BY <2>2 DEF Key
  <2> QED BY <1>3, <1>4, <2>1, <2>2, <2>3
<1> QED BY <1>5, <1>6 DEF RequestsFit, u

\* Messages that are there, ...
LEMMA QueueKeeps ==
  ASSUME NEW p, NEW n \in Nat, NEW q, NEW do, NEW env, QueueFits(p, n, q, do, env)
  PROVE  QueueFits(p, n + 1, q, do, env)
<1>1. \A i \in 1..n : i \in 1..n + 1
  OBVIOUS
<1> QED BY <1>1 DEF QueueFits

\* ... and one more.
LEMMA QueueMore ==
  ASSUME NEW p, NEW n \in Nat, NEW q, NEW do, NEW env, QueueFits(p, n, q, do, env),
         Len(q) = Nth(p, n, do, env), p[n + 1].do = do, Envelope(env[1], p[n + 1]) = env
  PROVE  /\ QueueFits(p, n + 1, Append(q, Item(p, n + 1)), do, env)
         /\ Len(Append(q, Item(p, n + 1))) = Nth(p, n + 1, do, env)
<1> DEFINE x == Item(p, n + 1)
<1> HIDE DEF x
<1> DEFINE u == Append(q, x)
<1>1. q \in Seq(Range(q)) /\ u \in Seq(Range(u))
  BY Appended DEF QueueFits
<1>2. /\ Len(q) \in Nat /\ Len(u) = Len(q) + 1 /\ u[Len(q) + 1] = x
      /\ \A v \in 1..Len(q) : u[v] = q[v]
  BY <1>1
<1>3. Nth(p, n + 1, do, env) = Len(q) + 1
  BY NthFacts
<1> HIDE DEF u
<1>4. ASSUME NEW v \in 1..Len(u)
      PROVE  \E i \in 1..n + 1 : /\ p[i].do = do /\ Envelope(env[1], p[i]) = env
                                 /\ Nth(p, i, do, env) = v /\ u[v] = Item(p, i)
  <2>1. CASE v = Len(q) + 1
    <3>1. n + 1 \in 1..n + 1
      OBVIOUS
    <3> QED BY <1>2, <1>3, <2>1, <3>1 DEF x
  <2>2. CASE v # Len(q) + 1
    <3>1. v \in 1..Len(q)
      BY <1>2, <2>2
    <3>2. PICK i \in 1..n : /\ p[i].do = do /\ Envelope(env[1], p[i]) = env
                            /\ Nth(p, i, do, env) = v /\ q[v] = Item(p, i)
      BY <3>1 DEF QueueFits
    <3>3. i \in 1..n + 1
      OBVIOUS
    <3> QED BY <1>2, <3>1, <3>2, <3>3
  <2> QED BY <2>1, <2>2
<1> QED BY <1>1, <1>2, <1>3, <1>4 DEF QueueFits, u, x

\* The messages and the receives of a rank.
LEMMA StreamNext ==
  ASSUME NEW p, NEW n \in Nat, NEW q, NEW m, NEW posts, NEW env, StreamFits(p, n, q, m, posts, env),
         NEW u, NEW l,
         u = IF Uses(posts, env) /\ p[n + 1].do = Issend(env[1]) /\ Envelope(env[1], p[n + 1]) = env
             THEN Append(q, Item(p, n + 1)) ELSE q,
         l = IF Uses(posts, env) /\ p[n + 1].do = Irecv(env[1]) /\ Envelope(env[1], p[n + 1]) = env
             THEN m + 1 ELSE m
  PROVE  StreamFits(p, n + 1, u, l, posts, env)
<1> DEFINE send == Issend(env[1])  recv == Irecv(env[1])
           sends == p[n + 1].do = send /\ Envelope(env[1], p[n + 1]) = env
           recvs == p[n + 1].do = recv /\ Envelope(env[1], p[n + 1]) = env
<1> HIDE DEF send, recv
<1>1. /\ QueueFits(p, n, q, send, env)
      /\ Uses(posts, env) => Len(q) = Nth(p, n, send, env) /\ m = Nth(p, n, recv, env)
      /\ u = IF Uses(posts, env) /\ sends THEN Append(q, Item(p, n + 1)) ELSE q
      /\ l = IF Uses(posts, env) /\ recvs THEN m + 1 ELSE m
  BY DEF StreamFits, send, recv
<1>2. /\ Nth(p, n, send, env) \in Nat
      /\ Nth(p, n + 1, send, env) = Nth(p, n, send, env) + (IF sends THEN 1 ELSE 0)
  BY NthFacts
<1>3. /\ Nth(p, n, recv, env) \in Nat
      /\ Nth(p, n + 1, recv, env) = Nth(p, n, recv, env) + (IF recvs THEN 1 ELSE 0)
  BY NthFacts
<1>4. Uses(posts, env) => l = Nth(p, n + 1, recv, env)
  BY <1>1, <1>3
<1>5. CASE Uses(posts, env) /\ sends
  <2>1. /\ QueueFits(p, n + 1, Append(q, Item(p, n + 1)), send, env)
        /\ Len(Append(q, Item(p, n + 1))) = Nth(p, n + 1, send, env)
    BY <1>1, <1>5, QueueMore
  <2>2. u = Append(q, Item(p, n + 1))
    BY <1>1, <1>5
  <2> QED BY <1>4, <2>1, <2>2 DEF StreamFits, send, recv
<1>6. CASE ~(Uses(posts, env) /\ sends)
  <2>1. QueueFits(p, n + 1, q, send, env) /\ u = q
    BY <1>1, <1>6, QueueKeeps
  <2>2. Uses(posts, env) => Len(q) = Nth(p, n + 1, send, env)
    BY <1>1, <1>2, <1>6
  <2> QED BY <1>4, <2>1, <2>2 DEF StreamFits, send, recv
<1> QED BY <1>5, <1>6

\* What a rank has after a step.
LEMMA RankAfter ==
  ASSUME world' = world, NEW c, NEW r,
         NEW n, NEW g, NEW t, NEW s, NEW m, RowFits(Prog(c), n, g, t, s, m, Posts(c, r), Envelopes),
         pc'[c][r] - 1 = n, global'[c][r] = g, part'[c][r] = t, sent'[c][r] = s, wanted'[c][r] = m
  PROVE  RankFits(c, r)'
<1>1. Prog(c)' = Prog(c) /\ Posts(c, r)' = Posts(c, r) /\ Envelopes' = Envelopes
  BY SameWorld, QueuesAfter
<1> QED BY <1>1 DEF RankFits

-----------------------------------------------------------------------------
(* What the steps change. *)

\* The tables of the other ranks, and those of the other code, stay.
OnlyAt(f, g, c, r) == \A d \in Codes, s \in Ranks : d # c \/ s # r => g[d][s] = f[d][s]

\* The messages and the receives after the call of a rank.
NextSent(c, r) ==
  /\ OnlyAt(sent, sent', c, r)
  /\ \A env \in Envelopes :
       sent'[c][r][env] = IF /\ Uses(Posts(c, r), env) /\ Call(c, r).do = Issend(env[1])
                             /\ Envelope(env[1], Call(c, r)) = env
                          THEN Append(sent[c][r][env], Data(c, r)) ELSE sent[c][r][env]
NextWanted(c, r) ==
  /\ OnlyAt(wanted, wanted', c, r)
  /\ \A env \in Envelopes :
       wanted'[c][r][env] = IF /\ Uses(Posts(c, r), env) /\ Call(c, r).do = Irecv(env[1])
                               /\ Envelope(env[1], Call(c, r)) = env
                            THEN wanted[c][r][env] + 1 ELSE wanted[c][r][env]

\* A set of numbers has a least one, and a code its root.
LEMMA LeastNumber ==
  ASSUME NEW S \in SUBSET Nat, S # {}
  PROVE  Min(S) \in S
<1> DEFINE Less == OpToRel(<, Nat)
<1>1. \E x \in S : \A y \in S : <<y, x>> \notin Less
  <2>1. IsWellFoundedOn(Less, Nat)
    BY NatLessThanWellFounded
  <2> HIDE DEF Less
  <2> QED BY <2>1, WFMin
<1>2. PICK x \in S : \A y \in S : <<y, x>> \notin Less
  BY <1>1
<1>3. ASSUME NEW y \in S PROVE x <= y
  <2>1. <<y, x>> \in Less <=> y < x
    BY DEF OpToRel
  <2>2. x \in Nat /\ y \in Nat
    OBVIOUS
  <2> HIDE DEF Less
  <2> QED BY <1>2, <2>1, <2>2
<1> QED BY <1>3 DEF Min

LEMMA RootFacts ==
  ASSUME DataAssumption, world \in Worlds, NEW c \in Codes
  PROVE  Root(c) \in Holds(c) /\ Root(c) \in Ranks
<1>1. Holds(c) # {} /\ Holds(c) \subseteq Ranks /\ Ranks \subseteq Nat
  BY DEF DataAssumption, Holds
<1> QED BY <1>1, LeastNumber DEF Root

\* The call that a rank makes is the next of its program.
LEMMA NextCall ==
  ASSUME DataAssumption, Shapes, NEW c \in Codes, NEW r \in Ranks, Turn(c, r)
  PROVE  \E n \in Nat :
           /\ pc[c][r] = n + 1 /\ pc[c][r] - 1 = n /\ n + 1 \in 1..Len(Prog(c))
           /\ Call(c, r) = Prog(c)[n + 1] /\ Data(c, r) = Item(Prog(c), n + 1)
           /\ r \in Holds(c)
<1>1. r \in Holds(c) /\ pc[c][r] \in 1..Len(Prog(c)) /\ Call(c, r) = Prog(c)[pc[c][r]]
  BY Turns
<1>2. PICK m : m = pc[c][r]
  OBVIOUS
<1>3. Len(Prog(c)) \in Nat
  BY WorldFacts DEF Shapes
<1>4. m - 1 \in Nat /\ m = (m - 1) + 1
  BY <1>1, <1>2, <1>3
<1> QED BY <1>1, <1>2, <1>4 DEF Data

\* The envelope of a call is one of the world, and so are its identifier and exch_id.
LEMMA CallFacts ==
  ASSUME DataAssumption, world \in Worlds, NEW c \in Codes, NEW i \in 1..Len(Prog(c))
  PROVE  /\ Prog(c)[i] \in CallsOf(world) /\ Key(Prog(c)[i]) \in Keys
         /\ \A kind \in Kinds : Envelope(kind, Prog(c)[i]) \in Envelopes
<1>1. Prog(c) \in Seq(Range(Prog(c)))
  BY DEF DataAssumption, Prog
<1>2. i \in DOMAIN Prog(c)
  BY <1>1
<1>3. Prog(c)[i] \in CallsOf(world)
  BY <1>2 DEF CallsOf, Range, Prog, Codes
<1> QED BY <1>3 DEF Keys, Envelopes

LEMMA EnvelopeFacts ==
  /\ \A kind, k : Envelope(kind, k)[1] = kind
  /\ \A env \in Envelopes : env[1] \in Kinds
BY DEF Envelopes, Envelope

LEMMA CallEnvelope ==
  ASSUME DataAssumption, Shapes, NEW c \in Codes, NEW r \in Ranks, Turn(c, r), NEW kind \in Kinds
  PROVE  /\ Envelope(kind, Call(c, r)) \in Envelopes /\ Envelope(kind, Call(c, r))[1] = kind
         /\ Key(Call(c, r)) \in Keys
<1>1. PICK n \in Nat : n + 1 \in 1..Len(Prog(c)) /\ Call(c, r) = Prog(c)[n + 1]
  BY NextCall
<1>2. PICK i \in 1..Len(Prog(c)) : Call(c, r) = Prog(c)[i]
  BY <1>1
<1>3. Envelope(kind, Prog(c)[i]) \in Envelopes /\ Key(Prog(c)[i]) \in Keys
  BY CallFacts DEF Shapes
<1> QED BY <1>2, <1>3, EnvelopeFacts

\* One entry changes.
LEMMA OneEntry ==
  ASSUME NEW f, DOMAIN f = Codes, \A d \in Codes : DOMAIN f[d] = Ranks,
         NEW c \in Codes, NEW r \in Ranks, NEW x, NEW g, g = [f EXCEPT ![c][r] = x]
  PROVE  /\ DOMAIN g = Codes /\ \A d \in Codes : DOMAIN g[d] = Ranks
         /\ g[c][r] = x /\ OnlyAt(f, g, c, r)
BY DEF OnlyAt

Placed(queue, c, r, env, x) == [queue EXCEPT ![c][r][env] = x]

PutAt(queue, q, c, r, env, x) ==
  /\ q[c][r][env] = x /\ OnlyAt(queue, q, c, r)
  /\ \A e \in Envelopes : e # env => q[c][r][e] = queue[c][r][e]

LEMMA OneQueue ==
  ASSUME NEW queue, NEW none, Posted(queue, none), NEW c \in Codes, NEW r \in Ranks,
         NEW env \in Envelopes, NEW x
  PROVE  PutAt(queue, Placed(queue, c, r, env, x), c, r, env, x)
<1> DEFINE q == [queue EXCEPT ![c][r][env] = x]
<1>1. /\ DOMAIN queue = Codes /\ \A d \in Codes : DOMAIN queue[d] = Ranks
      /\ DOMAIN queue[c][r] = Envelopes
  BY DEF Posted
<1>2. /\ q[c][r] = [queue[c][r] EXCEPT ![env] = x]
      /\ \A d \in Codes, s \in Ranks : d # c \/ s # r => q[d][s] = queue[d][s]
  BY <1>1
<1> HIDE DEF q
<1>3. /\ q[c][r][env] = x /\ OnlyAt(queue, q, c, r)
      /\ \A e \in Envelopes : e # env => q[c][r][e] = queue[c][r][e]
  BY <1>1, <1>2 DEF OnlyAt
<1> QED BY <1>3 DEF PutAt, Placed, q

\* A call that sends, ...
LEMMA Sends ==
  ASSUME DataAssumption, Shapes, AllPosted, NEW c \in Codes, NEW r \in Ranks, Turn(c, r),
         NEW kind \in Kinds, Call(c, r).do = Issend(kind),
         sent' = IF kind = "part" \/ Posts(c, r)
                 THEN PostSend(c, r, Envelope(kind, Call(c, r))) ELSE sent
  PROVE  NextSent(c, r)
<1>1. PICK e : e = Envelope(kind, Call(c, r))
  OBVIOUS
<1>2. e \in Envelopes /\ e[1] = kind
  BY <1>1, CallEnvelope
<1>3. PICK none : Posted(sent, none)
  BY DEF AllPosted
<1>4. \A env \in Envelopes : env[1] \in Kinds /\ (Issend(kind) = Issend(env[1]) => env[1] = kind)
  BY EnvelopeFacts DEF Kinds, Issend
<1>5. ASSUME NEW env \in Envelopes
      PROVE  (/\ Uses(Posts(c, r), env) /\ Call(c, r).do = Issend(env[1])
              /\ Envelope(env[1], Call(c, r)) = env) <=> env = e /\ (kind = "part" \/ Posts(c, r))
  <2>1. Uses(Posts(c, r), env) <=> env[1] = "part" \/ Posts(c, r)
    BY DEF Uses
  <2>2. CASE env[1] = kind
    BY <1>1, <2>1, <2>2
  <2>3. CASE env[1] # kind
    BY <1>2, <1>4, <2>3
  <2> QED BY <2>2, <2>3
<1>6. CASE kind = "part" \/ Posts(c, r)
  <2>1. sent' = [sent EXCEPT ![c][r][e] = Append(sent[c][r][e], Data(c, r))]
    BY <1>1, <1>6 DEF PostSend
  <2>2. PICK x : x = Append(sent[c][r][e], Data(c, r))
    OBVIOUS
  <2>3. /\ sent'[c][r][e] = x /\ OnlyAt(sent, sent', c, r)
        /\ \A env \in Envelopes : env # e => sent'[c][r][env] = sent[c][r][env]
    <3>1. PICK q : q = sent'
      OBVIOUS
    <3>2. q = Placed(sent, c, r, e, x)
      BY <2>1, <2>2, <3>1 DEF Placed
    <3>3. PutAt(sent, q, c, r, e, x)
      BY <1>2, <1>3, <3>2, OneQueue
    <3> QED BY <3>1, <3>3 DEF PutAt
  <2>4. ASSUME NEW env \in Envelopes
        PROVE  sent'[c][r][env] = IF env = e THEN Append(sent[c][r][env], Data(c, r)) ELSE sent[c][r][env]
    BY <2>2, <2>3
  <2> QED BY <1>5, <1>6, <2>3, <2>4 DEF NextSent
<1>7. CASE ~(kind = "part" \/ Posts(c, r))
  BY <1>5, <1>7 DEF NextSent, OnlyAt
<1> QED BY <1>6, <1>7

\* ... and one that does not.
LEMMA SendsNothing ==
  ASSUME NEW c, NEW r, Call(c, r).do \notin {"issend", "part_issend"}, sent' = sent
  PROVE  NextSent(c, r)
BY DEF NextSent, OnlyAt, Issend

\* A call that receives, ...
LEMMA Receives ==
  ASSUME DataAssumption, Shapes, AllPosted, NEW c \in Codes, NEW r \in Ranks, Turn(c, r),
         NEW kind \in Kinds, Call(c, r).do = Irecv(kind),
         wanted' = IF kind = "part" \/ Posts(c, r)
                   THEN PostRecv(c, r, Envelope(kind, Call(c, r))) ELSE wanted
  PROVE  NextWanted(c, r)
<1>1. PICK e : e = Envelope(kind, Call(c, r))
  OBVIOUS
<1>2. e \in Envelopes /\ e[1] = kind
  BY <1>1, CallEnvelope
<1>3. PICK none : Posted(wanted, none)
  BY DEF AllPosted
<1>4. \A env \in Envelopes : env[1] \in Kinds /\ (Irecv(kind) = Irecv(env[1]) => env[1] = kind)
  BY EnvelopeFacts DEF Kinds, Irecv
<1>5. ASSUME NEW env \in Envelopes
      PROVE  (/\ Uses(Posts(c, r), env) /\ Call(c, r).do = Irecv(env[1])
              /\ Envelope(env[1], Call(c, r)) = env) <=> env = e /\ (kind = "part" \/ Posts(c, r))
  <2>1. Uses(Posts(c, r), env) <=> env[1] = "part" \/ Posts(c, r)
    BY DEF Uses
  <2>2. CASE env[1] = kind
    BY <1>1, <2>1, <2>2
  <2>3. CASE env[1] # kind
    BY <1>2, <1>4, <2>3
  <2> QED BY <2>2, <2>3
<1>6. CASE kind = "part" \/ Posts(c, r)
  <2>1. wanted' = [wanted EXCEPT ![c][r][e] = wanted[c][r][e] + 1]
    BY <1>1, <1>6 DEF PostRecv
  <2>2. PICK x : x = wanted[c][r][e] + 1
    OBVIOUS
  <2>3. /\ wanted'[c][r][e] = x /\ OnlyAt(wanted, wanted', c, r)
        /\ \A env \in Envelopes : env # e => wanted'[c][r][env] = wanted[c][r][env]
    <3>1. PICK q : q = wanted'
      OBVIOUS
    <3>2. q = Placed(wanted, c, r, e, x)
      BY <2>1, <2>2, <3>1 DEF Placed
    <3>3. PutAt(wanted, q, c, r, e, x)
      BY <1>2, <1>3, <3>2, OneQueue
    <3> QED BY <3>1, <3>3 DEF PutAt
  <2>4. ASSUME NEW env \in Envelopes
        PROVE  wanted'[c][r][env] = IF env = e THEN wanted[c][r][env] + 1 ELSE wanted[c][r][env]
    BY <2>2, <2>3
  <2> QED BY <1>5, <1>6, <2>3, <2>4 DEF NextWanted
<1>7. CASE ~(kind = "part" \/ Posts(c, r))
  BY <1>5, <1>7 DEF NextWanted, OnlyAt
<1> QED BY <1>6, <1>7

\* ... and one that does not.
LEMMA ReceivesNothing ==
  ASSUME NEW c, NEW r, Call(c, r).do \notin {"irecv", "part_irecv"}, wanted' = wanted
  PROVE  NextWanted(c, r)
BY DEF NextWanted, OnlyAt, Irecv

-----------------------------------------------------------------------------
(* What the ranks have fits their programs after every step. *)

\* What a rank has is that of the calls it has made.
LEMMA RowOf ==
  ASSUME Fits, NEW c \in Codes, NEW r \in Ranks, r \in Holds(c),
         NEW n \in Nat, pc[c][r] - 1 = n
  PROVE  /\ GlobalFits(Prog(c), n, global[c][r], Posts(c, r))
         /\ ObjectsFit(Prog(c), n, part[c][r]) /\ RequestsFit(Prog(c), n, part[c][r])
         /\ \A env \in Envelopes :
              StreamFits(Prog(c), n, sent[c][r][env], wanted[c][r][env], Posts(c, r), env)
BY DEF Fits, RankFits, RowFits

\* A rank that is left alone.
LEMMA RankStays ==
  ASSUME world' = world, NEW c, NEW r, RankFits(c, r), pc'[c][r] = pc[c][r],
         global'[c][r] = global[c][r], part'[c][r] = part[c][r],
         sent'[c][r] = sent[c][r], wanted'[c][r] = wanted[c][r]
  PROVE  RankFits(c, r)'
<1>1. Prog(c)' = Prog(c) /\ Posts(c, r)' = Posts(c, r) /\ Envelopes' = Envelopes
  BY SameWorld, QueuesAfter
<1> QED BY <1>1 DEF RankFits

\* The call of a rank leaves the others alone.
LEMMA FitsAfter ==
  ASSUME DataAssumption, Shapes, Fits, NEW c \in Codes, NEW r \in Ranks, Turn(c, r), Return(c, r),
         world' = world, NextSent(c, r), NextWanted(c, r),
         OnlyAt(global, global', c, r), OnlyAt(part, part', c, r),
         GlobalFits(Prog(c), pc[c][r], global'[c][r], Posts(c, r)),
         ObjectsFit(Prog(c), pc[c][r], part'[c][r]), RequestsFit(Prog(c), pc[c][r], part'[c][r])
  PROVE  Fits'
<1>1. PICK n \in Nat :
        /\ pc[c][r] = n + 1 /\ pc[c][r] - 1 = n
        /\ Call(c, r) = Prog(c)[n + 1] /\ Data(c, r) = Item(Prog(c), n + 1) /\ r \in Holds(c)
  BY NextCall
<1>2. /\ pc'[c][r] = pc[c][r] + 1
      /\ \A d \in Codes, s \in Ranks : d # c \/ s # r => pc'[d][s] = pc[d][s]
  BY Returned
<1>3. pc'[c][r] - 1 = n + 1
  BY <1>1, <1>2
<1>4. PICK p, q, m, g, t, posts :
        /\ p = Prog(c) /\ q = sent'[c][r] /\ m = wanted'[c][r] /\ g = global'[c][r]
        /\ t = part'[c][r] /\ posts = Posts(c, r)
  OBVIOUS
<1>5. ASSUME NEW env \in Envelopes PROVE StreamFits(p, n + 1, q[env], m[env], posts, env)
  <2>1. StreamFits(p, n, sent[c][r][env], wanted[c][r][env], posts, env)
    BY <1>1, <1>4, RowOf
  <2>2. /\ q[env] = IF /\ Uses(posts, env) /\ p[n + 1].do = Issend(env[1])
                       /\ Envelope(env[1], p[n + 1]) = env
                    THEN Append(sent[c][r][env], Item(p, n + 1)) ELSE sent[c][r][env]
        /\ m[env] = IF /\ Uses(posts, env) /\ p[n + 1].do = Irecv(env[1])
                       /\ Envelope(env[1], p[n + 1]) = env
                    THEN wanted[c][r][env] + 1 ELSE wanted[c][r][env]
    BY <1>1, <1>4 DEF NextSent, NextWanted
  <2> QED BY <2>1, <2>2, StreamNext
<1>6. RowFits(p, n + 1, g, t, q, m, posts, Envelopes)
  BY <1>1, <1>4, <1>5 DEF RowFits
<1>7. RankFits(c, r)'
  BY <1>3, <1>4, <1>6, RankAfter
<1>8. ASSUME NEW d \in Codes, NEW s \in Ranks, s \in Holds(d), d # c \/ s # r PROVE RankFits(d, s)'
  <2>1. RankFits(d, s) /\ pc'[d][s] = pc[d][s]
    BY <1>2, <1>8 DEF Fits
  <2>2. /\ global'[d][s] = global[d][s] /\ part'[d][s] = part[d][s]
        /\ sent'[d][s] = sent[d][s] /\ wanted'[d][s] = wanted[d][s]
    BY <1>8 DEF NextSent, NextWanted, OnlyAt
  <2> QED BY <2>1, <2>2, RankStays
<1>9. \A d \in Codes : Holds(d)' = Holds(d)
  BY SameWorld
<1> QED BY <1>7, <1>8, <1>9 DEF Fits

\* Tables of which none changes.
LEMMA AllAlone == \A f, c, r : OnlyAt(f, f, c, r)
BY DEF OnlyAt

\* The objects and the requests of a call that touches neither.
LEMMA PartAlone ==
  ASSUME DataAssumption, Shapes, Fits, NEW c \in Codes, NEW r \in Ranks, Turn(c, r),
         Call(c, r).do \notin Lifetime \cup PartStarts \cup PartWaits
  PROVE  ObjectsFit(Prog(c), pc[c][r], part[c][r]) /\ RequestsFit(Prog(c), pc[c][r], part[c][r])
<1>1. PICK n \in Nat :
        /\ pc[c][r] = n + 1 /\ pc[c][r] - 1 = n /\ Call(c, r) = Prog(c)[n + 1] /\ r \in Holds(c)
  BY NextCall
<1>2. ObjectsFit(Prog(c), n, part[c][r]) /\ RequestsFit(Prog(c), n, part[c][r])
  BY <1>1, RowOf
<1>3. PICK p, t : p = Prog(c) /\ t = part[c][r]
  OBVIOUS
<1>4. ObjectsFit(p, n + 1, t)
  BY <1>1, <1>2, <1>3, ObjectsKeep
<1>5. RequestsFit(p, n + 1, t)
  BY <1>1, <1>2, <1>3, RequestsKeep
<1> QED BY <1>1, <1>3, <1>4, <1>5

\* The global data of a call that does not start any.
LEMMA GlobalAlone ==
  ASSUME DataAssumption, Shapes, Fits, NEW c \in Codes, NEW r \in Ranks, Turn(c, r),
         Call(c, r).do \notin GlobalStarts
  PROVE  GlobalFits(Prog(c), pc[c][r], global[c][r], Posts(c, r))
<1>1. PICK n \in Nat :
        /\ pc[c][r] = n + 1 /\ pc[c][r] - 1 = n /\ Call(c, r) = Prog(c)[n + 1] /\ r \in Holds(c)
  BY NextCall
<1>2. GlobalFits(Prog(c), n, global[c][r], Posts(c, r))
  BY <1>1, RowOf
<1> QED BY <1>1, <1>2, GlobalKeeps

\* A wait for global data, and a call of the other code.
LEMMA GlobalWaitFits ==
  ASSUME DataAssumption, Shapes, Fits, NEW c \in Codes, NEW r \in Ranks,
         \/ globalDataWaitIssend(c, r) \/ RootWaitIrecv(c, r) \/ globalDataWaitIrecv(c, r)
         \/ Pass(c, r)
  PROVE  Fits'
<1>1. /\ Turn(c, r) /\ Return(c, r) /\ Call(c, r).do \in GlobalWaits \cup {"none"}
      /\ world' = world /\ global' = global /\ part' = part /\ sent' = sent /\ wanted' = wanted
  BY DEF globalDataWaitIssend, RootWaitIrecv, globalDataWaitIrecv, Pass, Calls, GlobalWaits, mpi
<1>2. /\ Call(c, r).do \notin Lifetime \cup PartStarts \cup PartWaits
      /\ Call(c, r).do \notin GlobalStarts
      /\ Call(c, r).do \notin {"issend", "part_issend"} /\ Call(c, r).do \notin {"irecv", "part_irecv"}
  BY <1>1 DEF GlobalWaits, Lifetime, PartStarts, PartWaits, GlobalStarts
<1>3. NextSent(c, r) /\ NextWanted(c, r)
  BY <1>1, <1>2, SendsNothing, ReceivesNothing
<1>4. OnlyAt(global, global', c, r) /\ OnlyAt(part, part', c, r)
  BY <1>1, AllAlone
<1>5. /\ GlobalFits(Prog(c), pc[c][r], global'[c][r], Posts(c, r))
      /\ ObjectsFit(Prog(c), pc[c][r], part'[c][r]) /\ RequestsFit(Prog(c), pc[c][r], part'[c][r])
  BY <1>1, <1>2, GlobalAlone, PartAlone
<1> QED BY <1>1, <1>3, <1>4, <1>5, FitsAfter

\* The entry of global data that are started.
LEMMA EntryFits ==
  ASSUME DataAssumption, Shapes, AllPosted, Fits, NEW c \in Codes, NEW r \in Ranks, Turn(c, r),
         DOMAIN global = Codes, \A d \in Codes : DOMAIN global[d] = Ranks,
         Call(c, r).do \in GlobalStarts, ~Started(c, r), NEW req, AddGlobal(c, r, req),
         Posts(c, r) => req = Position(Prog(c), pc[c][r], "global")
  PROVE  /\ GlobalFits(Prog(c), pc[c][r], global'[c][r], Posts(c, r))
         /\ OnlyAt(global, global', c, r)
<1>1. PICK n \in Nat :
        /\ pc[c][r] = n + 1 /\ pc[c][r] - 1 = n /\ Call(c, r) = Prog(c)[n + 1]
        /\ Data(c, r) = Item(Prog(c), n + 1) /\ r \in Holds(c)
  BY NextCall
<1>2. GlobalFits(Prog(c), n, global[c][r], Posts(c, r))
  BY <1>1, RowOf
<1>3. PICK e : e = [req |-> req, data |-> Data(c, r)]
  OBVIOUS
<1>4. e.req = req /\ e.data = Item(Prog(c), n + 1)
  BY <1>1, <1>3
<1>5. Entered(Prog(c), n + 1, e, Posts(c, r))
  BY <1>1, <1>4 DEF Entered
<1>6. PICK t : t = With(global[c][r], Call(c, r).id, e)
  OBVIOUS
<1>7. global' = [global EXCEPT ![c][r] = t]
  BY <1>3, <1>6 DEF AddGlobal
<1>8. global'[c][r] = t /\ OnlyAt(global, global', c, r)
  BY <1>7 DEF OnlyAt
<1>9. Call(c, r).id \notin DOMAIN global[c][r]
  BY DEF Started
<1>10. GlobalFits(Prog(c), n + 1, t, Posts(c, r))
  BY <1>1, <1>2, <1>5, <1>6, <1>9, GlobalMore
<1> QED BY <1>1, <1>8, <1>10

\* The request of a call is that of the next message, or the next receive.
LEMMA NextRequest ==
  ASSUME DataAssumption, Shapes, Fits, NEW c \in Codes, NEW r \in Ranks, Turn(c, r),
         NEW kind \in Kinds, kind = "part" \/ Posts(c, r)
  PROVE  LET env == Envelope(kind, Call(c, r)) IN
         /\ Call(c, r).do = Issend(kind) => ToSend(c, r, env) = Position(Prog(c), pc[c][r], kind)
         /\ Call(c, r).do = Irecv(kind) => ToGet(c, r, env) = Position(Prog(c), pc[c][r], kind)
<1>1. PICK n \in Nat :
        /\ pc[c][r] = n + 1 /\ pc[c][r] - 1 = n /\ Call(c, r) = Prog(c)[n + 1] /\ r \in Holds(c)
  BY NextCall
<1>2. PICK p, env : p = Prog(c) /\ env = Envelope(kind, Call(c, r))
  OBVIOUS
<1>3. env \in Envelopes /\ env[1] = kind /\ Envelope(env[1], p[n + 1]) = env
  BY <1>1, <1>2, CallEnvelope
<1>4. Uses(Posts(c, r), env)
  BY <1>3 DEF Uses
<1>5. StreamFits(p, n, sent[c][r][env], wanted[c][r][env], Posts(c, r), env)
  BY <1>1, <1>2, <1>3, RowOf
<1>6. /\ Len(sent[c][r][env]) = Nth(p, n, Issend(kind), env)
      /\ wanted[c][r][env] = Nth(p, n, Irecv(kind), env)
  BY <1>3, <1>4, <1>5 DEF StreamFits
<1>7. /\ p[n + 1].do = Issend(kind) => Nth(p, n + 1, Issend(kind), env) = Nth(p, n, Issend(kind), env) + 1
      /\ p[n + 1].do = Irecv(kind) => Nth(p, n + 1, Irecv(kind), env) = Nth(p, n, Irecv(kind), env) + 1
  <2>1. ASSUME NEW do, p[n + 1].do = do PROVE Nth(p, n + 1, do, env) = Nth(p, n, do, env) + 1
    BY <1>3, <2>1, NthFacts
  <2> QED BY <2>1
<1>8. Position(p, n + 1, kind) = [env |-> env, nth |-> Nth(p, n + 1, p[n + 1].do, env)]
  BY <1>1, <1>2 DEF Position
<1>9. Call(c, r).do = Issend(kind) => ToSend(c, r, env) = Position(p, n + 1, kind)
  BY <1>1, <1>2, <1>6, <1>7, <1>8 DEF ToSend
<1>10. Call(c, r).do = Irecv(kind) => ToGet(c, r, env) = Position(p, n + 1, kind)
  BY <1>1, <1>2, <1>6, <1>7, <1>8 DEF ToGet
<1> QED BY <1>1, <1>2, <1>9, <1>10

\* Global data are started.
LEMMA GlobalStartFits ==
  ASSUME DataAssumption, Shapes, AllPosted, Fits, NEW c \in Codes, NEW r \in Ranks,
         DOMAIN global = Codes, \A d \in Codes : DOMAIN global[d] = Ranks,
         globalDataIssend(c, r) \/ globalDataIrecv(c, r)
  PROVE  Fits'
<1> DEFINE env == Envelope("global", Call(c, r))
<1>1. /\ Turn(c, r) /\ Return(c, r) /\ ~Started(c, r) /\ world' = world /\ part' = part
      /\ Call(c, r).do \in GlobalStarts
  BY DEF globalDataIssend, globalDataIrecv, Calls, GlobalStarts
<1>2. /\ Call(c, r).do \notin Lifetime \cup PartStarts \cup PartWaits /\ "global" \in Kinds
      /\ Issend("global") = "issend" /\ Irecv("global") = "irecv"
  BY <1>1 DEF GlobalStarts, Lifetime, PartStarts, PartWaits, Kinds, Issend, Irecv
<1>3. /\ ObjectsFit(Prog(c), pc[c][r], part'[c][r]) /\ RequestsFit(Prog(c), pc[c][r], part'[c][r])
      /\ OnlyAt(part, part', c, r)
  BY <1>1, <1>2, PartAlone, AllAlone
<1>4. CASE globalDataIssend(c, r)
  <2>1. /\ Call(c, r).do = "issend" /\ AddGlobal(c, r, ToSend(c, r, env)) /\ wanted' = wanted
        /\ sent' = IF Posts(c, r) THEN PostSend(c, r, env) ELSE sent
    BY <1>4 DEF globalDataIssend, Calls
  <2>2. Posts(c, r) => ToSend(c, r, env) = Position(Prog(c), pc[c][r], "global")
    BY <1>1, <1>2, <2>1, NextRequest
  <2>3. /\ GlobalFits(Prog(c), pc[c][r], global'[c][r], Posts(c, r))
        /\ OnlyAt(global, global', c, r)
    BY <1>1, <2>1, <2>2, EntryFits
  <2>4. NextSent(c, r)
    BY <1>1, <1>2, <2>1, Sends
  <2>5. NextWanted(c, r)
    BY <2>1, ReceivesNothing
  <2> QED BY <1>1, <1>3, <2>3, <2>4, <2>5, FitsAfter
<1>5. CASE globalDataIrecv(c, r)
  <2>1. /\ Call(c, r).do = "irecv" /\ AddGlobal(c, r, ToGet(c, r, env)) /\ sent' = sent
        /\ wanted' = IF Posts(c, r) THEN PostRecv(c, r, env) ELSE wanted
    BY <1>5 DEF globalDataIrecv, Calls
  <2>2. Posts(c, r) => ToGet(c, r, env) = Position(Prog(c), pc[c][r], "global")
    BY <1>1, <1>2, <2>1, NextRequest
  <2>3. /\ GlobalFits(Prog(c), pc[c][r], global'[c][r], Posts(c, r))
        /\ OnlyAt(global, global', c, r)
    BY <1>1, <2>1, <2>2, EntryFits
  <2>4. NextSent(c, r)
    BY <2>1, SendsNothing
  <2>5. NextWanted(c, r)
    BY <1>1, <1>2, <2>1, Receives
  <2> QED BY <1>1, <1>3, <2>3, <2>4, <2>5, FitsAfter
<1> QED BY <1>4, <1>5

\* Other requests of an object.
Rerequested(c, r, id, x) == part' = [part EXCEPT ![c][r][id].requests = x]

LEMMA RequestsAfter ==
  ASSUME Shapes, NEW c \in Codes, NEW r \in Ranks, NEW id \in DOMAIN part[c][r], NEW x,
         Rerequested(c, r, id, x)
  PROVE  /\ OnlyAt(part, part', c, r) /\ DOMAIN part'[c][r] = DOMAIN part[c][r]
         /\ \A i \in DOMAIN part[c][r] : part'[c][r][i].type = part[c][r][i].type
         /\ \A i \in DOMAIN part[c][r] : i # id => part'[c][r][i].requests = part[c][r][i].requests
         /\ part'[c][r][id].requests = x
<1>1. /\ DOMAIN part = Codes /\ \A d \in Codes : DOMAIN part[d] = Ranks
      /\ DOMAIN part[c][r][id] = {"type", "ptp", "requests"}
  BY DEF Shapes
<1>2. /\ part'[c][r] = [part[c][r] EXCEPT ![id].requests = x]
      /\ \A d \in Codes, s \in Ranks : d # c \/ s # r => part'[d][s] = part[d][s]
  BY <1>1 DEF Rerequested
<1>3. /\ DOMAIN part'[c][r] = DOMAIN part[c][r]
      /\ \A i \in DOMAIN part[c][r] : i # id => part'[c][r][i] = part[c][r][i]
      /\ part'[c][r][id] = [part[c][r][id] EXCEPT !.requests = x]
  BY <1>2
<1>4. part'[c][r][id].requests = x /\ part'[c][r][id].type = part[c][r][id].type
  BY <1>1, <1>3
<1> QED BY <1>2, <1>3, <1>4 DEF OnlyAt

\* An exchange of partitioned data is started, ...
LEMMA PartStartFits ==
  ASSUME DataAssumption, Shapes, AllPosted, Fits, NEW c \in Codes, NEW r \in Ranks,
         partDataIssend(c, r) \/ partDataIrecv(c, r)
  PROVE  Fits'
<1> DEFINE env == Envelope("part", Call(c, r))
<1>1. /\ Turn(c, r) /\ Return(c, r) /\ Exists(c, r) /\ world' = world /\ global' = global
      /\ Call(c, r).do \in PartStarts
  BY DEF partDataIssend, partDataIrecv, Calls, PartStarts
<1>2. /\ Call(c, r).do \notin Lifetime /\ Call(c, r).do \notin GlobalStarts /\ "part" \in Kinds
      /\ Issend("part") = "part_issend" /\ Irecv("part") = "part_irecv"
  BY <1>1 DEF PartStarts, Lifetime, GlobalStarts, Kinds, Issend, Irecv
<1>3. GlobalFits(Prog(c), pc[c][r], global'[c][r], Posts(c, r)) /\ OnlyAt(global, global', c, r)
  BY <1>1, <1>2, GlobalAlone, AllAlone
<1>4. NextSent(c, r) /\ NextWanted(c, r)
  <2>1. CASE partDataIssend(c, r)
    <3>1. Call(c, r).do = "part_issend" /\ wanted' = wanted /\ sent' = PostSend(c, r, env)
      BY <2>1 DEF partDataIssend, Calls
    <3>2. NextSent(c, r)
      BY <1>1, <1>2, <3>1, Sends
    <3>3. NextWanted(c, r)
      BY <3>1, ReceivesNothing
    <3> QED BY <3>2, <3>3
  <2>2. CASE partDataIrecv(c, r)
    <3>1. Call(c, r).do = "part_irecv" /\ sent' = sent /\ wanted' = PostRecv(c, r, env)
      BY <2>2 DEF partDataIrecv, Calls
    <3>2. NextSent(c, r)
      BY <3>1, SendsNothing
    <3>3. NextWanted(c, r)
      BY <1>1, <1>2, <3>1, Receives
    <3> QED BY <3>2, <3>3
  <2> QED BY <2>1, <2>2
<1>5. PICK req : req = Position(Prog(c), pc[c][r], "part") /\ AddRequest(c, r, req)
  <2>1. CASE partDataIssend(c, r)
    <3>1. Call(c, r).do = "part_issend" /\ AddRequest(c, r, ToSend(c, r, env))
      BY <2>1 DEF partDataIssend, Calls
    <3>2. ToSend(c, r, env) = Position(Prog(c), pc[c][r], "part")
      BY <1>1, <1>2, <3>1, NextRequest
    <3> QED BY <3>1, <3>2
  <2>2. CASE partDataIrecv(c, r)
    <3>1. Call(c, r).do = "part_irecv" /\ AddRequest(c, r, ToGet(c, r, env))
      BY <2>2 DEF partDataIrecv, Calls
    <3>2. ToGet(c, r, env) = Position(Prog(c), pc[c][r], "part")
      BY <1>1, <1>2, <3>1, NextRequest
    <3> QED BY <3>1, <3>2
  <2> QED BY <1>1, <2>1, <2>2
<1>6. PICK id, x : /\ id = Call(c, r).id
                   /\ x = With(part[c][r][id].requests, Call(c, r).exch, req)
  OBVIOUS
<1>7. /\ id \in DOMAIN part[c][r] /\ Call(c, r).exch \notin DOMAIN part[c][r][id].requests
      /\ Rerequested(c, r, id, x)
  BY <1>1, <1>5, <1>6 DEF AddRequest, Mine, Exists, Rerequested
<1>8. PICK t, u : t = part[c][r] /\ u = part'[c][r]
  OBVIOUS
<1>9. /\ OnlyAt(part, part', c, r) /\ DOMAIN u = DOMAIN t
      /\ \A i \in DOMAIN t : u[i].type = t[i].type
      /\ \A i \in DOMAIN t : i # id => u[i].requests = t[i].requests
      /\ u[id].requests = x
  BY <1>7, <1>8, RequestsAfter
<1>10. PICK n \in Nat :
         /\ pc[c][r] = n + 1 /\ pc[c][r] - 1 = n /\ Call(c, r) = Prog(c)[n + 1] /\ r \in Holds(c)
  <2>1. Turn(c, r)
    BY <1>1
  <2> QED BY <2>1, NextCall
<1>11. ObjectsFit(Prog(c), n, t) /\ RequestsFit(Prog(c), n, t)
  BY <1>8, <1>10, RowOf
<1>12. ObjectsFit(Prog(c), n + 1, u)
  BY <1>2, <1>9, <1>10, <1>11, ObjectsKeep
<1>13. RequestsFit(Prog(c), n + 1, u)
  <2>1. PICK p : p = Prog(c)
    OBVIOUS
  <2>2. /\ p[n + 1].id = id /\ p[n + 1].do \in PartStarts /\ p[n + 1].id \in DOMAIN t
        /\ p[n + 1].exch \notin DOMAIN t[p[n + 1].id].requests
        /\ u[p[n + 1].id].requests = With(t[p[n + 1].id].requests, p[n + 1].exch, req)
        /\ req = Position(p, n + 1, "part")
    BY <1>1, <1>5, <1>6, <1>7, <1>8, <1>9, <1>10, <2>1
  <2>3. RequestsFit(p, n, t)
    BY <1>11, <2>1
  <2>4. /\ DOMAIN u = DOMAIN t
        /\ \A i \in DOMAIN t : i # p[n + 1].id => u[i].requests = t[i].requests
    BY <1>9, <2>2
  <2>5. RequestsFit(p, n + 1, u)
    BY <2>2, <2>3, <2>4, RequestsMore
  <2> QED BY <2>1, <2>5
<1> QED BY <1>1, <1>3, <1>4, <1>8, <1>9, <1>10, <1>12, <1>13, FitsAfter

\* ... and waited for.
LEMMA PartWaitFits ==
  ASSUME DataAssumption, Shapes, Fits, NEW c \in Codes, NEW r \in Ranks,
         partDataWaitIssend(c, r) \/ partDataWaitIrecv(c, r)
  PROVE  Fits'
<1>1. /\ Turn(c, r) /\ Return(c, r) /\ Exists(c, r) /\ world' = world /\ global' = global
      /\ Call(c, r).do \in PartWaits /\ sent' = sent /\ wanted' = wanted /\ ClearRequest(c, r)
  BY DEF partDataWaitIssend, partDataWaitIrecv, Waits, Calls, PartWaits, mpi
<1>2. /\ Call(c, r).do \notin Lifetime /\ Call(c, r).do \notin GlobalStarts
      /\ Call(c, r).do \notin {"issend", "part_issend"} /\ Call(c, r).do \notin {"irecv", "part_irecv"}
  BY <1>1 DEF PartWaits, Lifetime, GlobalStarts
<1>3. GlobalFits(Prog(c), pc[c][r], global'[c][r], Posts(c, r)) /\ OnlyAt(global, global', c, r)
  BY <1>1, <1>2, GlobalAlone, AllAlone
<1>4. NextSent(c, r) /\ NextWanted(c, r)
  BY <1>1, <1>2, SendsNothing, ReceivesNothing
<1>6. PICK id, x : /\ id = Call(c, r).id
                   /\ x = exch_clear(part[c][r][id].requests, Call(c, r).exch)
  OBVIOUS
<1>7. id \in DOMAIN part[c][r] /\ Rerequested(c, r, id, x)
  BY <1>1, <1>6 DEF ClearRequest, Exists, Rerequested
<1>8. PICK t, u : t = part[c][r] /\ u = part'[c][r]
  OBVIOUS
<1>9. /\ OnlyAt(part, part', c, r) /\ DOMAIN u = DOMAIN t
      /\ \A i \in DOMAIN t : u[i].type = t[i].type
      /\ \A i \in DOMAIN t : i # id => u[i].requests = t[i].requests
      /\ u[id].requests = x
  BY <1>7, <1>8, RequestsAfter
<1>10. PICK n \in Nat :
         /\ pc[c][r] = n + 1 /\ pc[c][r] - 1 = n /\ Call(c, r) = Prog(c)[n + 1] /\ r \in Holds(c)
  <2>1. Turn(c, r)
    BY <1>1
  <2> QED BY <2>1, NextCall
<1>11. ObjectsFit(Prog(c), n, t) /\ RequestsFit(Prog(c), n, t)
  BY <1>8, <1>10, RowOf
<1>12. ObjectsFit(Prog(c), n + 1, u)
  BY <1>2, <1>9, <1>10, <1>11, ObjectsKeep
<1>13. RequestsFit(Prog(c), n + 1, u)
  <2>1. PICK p : p = Prog(c)
    OBVIOUS
  <2>2. /\ p[n + 1].id = id /\ p[n + 1].do \in PartWaits /\ p[n + 1].id \in DOMAIN t
        /\ u[p[n + 1].id].requests = exch_clear(t[p[n + 1].id].requests, p[n + 1].exch)
    BY <1>1, <1>6, <1>7, <1>8, <1>9, <1>10, <2>1
  <2>3. RequestsFit(p, n, t)
    BY <1>11, <2>1
  <2>4. \A i \in DOMAIN t : i # p[n + 1].id => u[i].requests = t[i].requests
    BY <1>9, <2>2
  <2> QED BY <1>9, <2>1, <2>2, <2>3, <2>4, RequestsLess
<1> QED BY <1>1, <1>3, <1>4, <1>8, <1>9, <1>10, <1>12, <1>13, FitsAfter

\* An object is created on a rank of both codes by the first of them, or deleted.
LEMMA LifetimeFits ==
  ASSUME DataAssumption, Shapes, Fits, NEW c \in Codes, NEW r \in Ranks,
         CreateFirst(c, r) \/ partDataDel(c, r)
  PROVE  Fits'
<1>1. /\ Turn(c, r) /\ Return(c, r) /\ world' = world /\ global' = global
      /\ Call(c, r).do \in Lifetime /\ sent' = sent /\ wanted' = wanted
  BY DEF CreateFirst, partDataDel, Calls, Lifetime, mpi
<1>2. /\ Call(c, r).do \notin GlobalStarts
      /\ Call(c, r).do \notin {"issend", "part_issend"} /\ Call(c, r).do \notin {"irecv", "part_irecv"}
  BY <1>1 DEF Lifetime, GlobalStarts
<1>3. GlobalFits(Prog(c), pc[c][r], global'[c][r], Posts(c, r)) /\ OnlyAt(global, global', c, r)
  BY <1>1, <1>2, GlobalAlone, AllAlone
<1>4. NextSent(c, r) /\ NextWanted(c, r)
  BY <1>1, <1>2, SendsNothing, ReceivesNothing
<1>5. PICK p, id, t : p = Prog(c) /\ id = Call(c, r).id /\ t = part[c][r]
  OBVIOUS
<1>6. PICK n \in Nat :
        /\ pc[c][r] = n + 1 /\ pc[c][r] - 1 = n /\ Call(c, r) = p[n + 1] /\ r \in Holds(c)
  <2>1. Turn(c, r)
    BY <1>1
  <2> QED BY <1>5, <2>1, NextCall
<1>7. ObjectsFit(p, n, t) /\ RequestsFit(p, n, t)
  BY <1>5, <1>6, RowOf
<1>8. DOMAIN part = Codes /\ \A d \in Codes : DOMAIN part[d] = Ranks
  BY DEF Shapes
<1>9. PICK u : /\ part' = [part EXCEPT ![c][r] = u]
               /\ ObjectsFit(p, n + 1, u) /\ RequestsFit(p, n + 1, u)
  <2>1. CASE CreateFirst(c, r)
    <3>1. PICK e : e = PartData(Call(c, r), NoData)
      OBVIOUS
    <3>2. e.type = Call(c, r).type /\ DOMAIN e.requests = {}
      BY <3>1 DEF PartData
    <3>3. /\ p[n + 1].do = "create" /\ p[n + 1].id \notin DOMAIN t
          /\ part' = [part EXCEPT ![c][r] = With(t, p[n + 1].id, e)]
      BY <1>5, <1>6, <2>1, <3>1 DEF CreateFirst, Calls, Exists
    <3>4. ObjectsFit(p, n + 1, With(t, p[n + 1].id, e))
      BY <1>6, <1>7, <3>2, <3>3, ObjectsMore
    <3>5. RequestsFit(p, n + 1, With(t, p[n + 1].id, e))
      BY <1>7, <3>2, <3>3, RequestsNone
    <3> QED BY <3>3, <3>4, <3>5
  <2>2. CASE partDataDel(c, r)
    <3>1. /\ p[n + 1].do = "del"
          /\ part' = [part EXCEPT ![c][r] = Restrict(t, DOMAIN t \ {p[n + 1].id})]
      BY <1>5, <1>6, <2>2 DEF partDataDel, Calls
    <3>2. ObjectsFit(p, n + 1, Restrict(t, DOMAIN t \ {p[n + 1].id}))
      BY <1>7, <3>1, ObjectsLess
    <3>3. RequestsFit(p, n + 1, Restrict(t, DOMAIN t \ {p[n + 1].id}))
      BY <1>7, <3>1, RequestsGone
    <3> QED BY <3>1, <3>2, <3>3
  <2> QED BY <2>1, <2>2
<1>10. part'[c][r] = u /\ OnlyAt(part, part', c, r)
  BY <1>8, <1>9 DEF OnlyAt
<1> QED BY <1>1, <1>3, <1>4, <1>5, <1>6, <1>9, <1>10, FitsAfter

\* The tables after the protocol of an object is created.
LEMMA MadeEntries ==
  ASSUME Shapes, partDataCreate, NEW c \in Codes, NEW r \in Ranks, r \in Holds(c)
  PROVE  /\ Creates(c, r) =>
              part'[c][r] = With(part[c][r], Call(c, r).id, PartData(Call(c, r), made + 1))
         /\ ~Creates(c, r) =>
              /\ DOMAIN part'[c][r] = DOMAIN part[c][r]
              /\ \A i \in DOMAIN part[c][r] : /\ part'[c][r][i].type = part[c][r][i].type
                                              /\ part'[c][r][i].requests = part[c][r][i].requests
         /\ pc'[c][r] = IF Creates(c, r) THEN pc[c][r] + 1 ELSE pc[c][r]
<1>1. part'[c][r] =
        IF Creates(c, r) THEN With(part[c][r], Call(c, r).id, PartData(Call(c, r), made + 1))
        ELSE [part[c][r] EXCEPT ![Call(Other(c), r).id].ptp = made + 1]
  BY DEF partDataCreate
<1>2. pc'[c][r] = IF Creates(c, r) THEN pc[c][r] + 1 ELSE pc[c][r]
  BY DEF partDataCreate
<1>3. ASSUME ~Creates(c, r), NEW i \in DOMAIN part[c][r]
      PROVE  /\ part'[c][r][i].type = part[c][r][i].type
             /\ part'[c][r][i].requests = part[c][r][i].requests
  <2>1. PICK t, u, id : t = part[c][r] /\ u = part'[c][r] /\ id = Call(Other(c), r).id
    OBVIOUS
  <2>2. DOMAIN t[i] = {"type", "ptp", "requests"}
    BY <1>3, <2>1 DEF Shapes
  <2>3. u = [t EXCEPT ![id].ptp = made + 1] /\ i \in DOMAIN t
    BY <1>1, <1>3, <2>1
  <2>4. u[i] = IF i = id THEN [t[i] EXCEPT !.ptp = made + 1] ELSE t[i]
    BY <2>3
  <2>5. u[i].type = t[i].type /\ u[i].requests = t[i].requests
    BY <2>2, <2>4
  <2> QED BY <2>1, <2>5
<1>4. ~Creates(c, r) => DOMAIN part'[c][r] = DOMAIN part[c][r]
  BY <1>1
<1> QED BY <1>1, <1>2, <1>3, <1>4

\* Objects that have other protocols have the same types and the same requests.
LEMMA OtherProtocols ==
  ASSUME NEW p, NEW n \in Nat, NEW t, NEW u, DOMAIN u = DOMAIN t,
         \A i \in DOMAIN t : u[i].type = t[i].type /\ u[i].requests = t[i].requests
  PROVE  /\ ObjectsFit(p, n, t) => ObjectsFit(p, n, u)
         /\ RequestsFit(p, n, t) => RequestsFit(p, n, u)
<1>1. ObjectsFit(p, n, t) => ObjectsFit(p, n, u)
  BY DEF ObjectsFit
<1>2. ASSUME RequestsFit(p, n, t) PROVE RequestsFit(p, n, u)
  <2>1. ASSUME NEW j \in 1..n, UnderWay(p, n, j)
        PROVE  /\ p[j].id \in DOMAIN u /\ p[j].exch \in DOMAIN u[p[j].id].requests
               /\ u[p[j].id].requests[p[j].exch] = Position(p, j, "part")
    BY <1>2, <2>1 DEF RequestsFit
  <2>2. ASSUME NEW id \in DOMAIN u, NEW e \in DOMAIN u[id].requests
        PROVE  \E j \in 1..n : UnderWay(p, n, j) /\ Key(p[j]) = <<id, e>>
    BY <1>2, <2>2 DEF RequestsFit
  <2> QED BY <2>1, <2>2 DEF RequestsFit
<1> QED BY <1>1, <1>2

\* An object is created by all ranks.
LEMMA CreateFits ==
  ASSUME DataAssumption, Shapes, Fits, partDataCreate
  PROVE  Fits'
<1>1. world' = world /\ global' = global /\ sent' = sent /\ wanted' = wanted
  BY DEF partDataCreate, mpi
<1>2. ASSUME NEW c \in Codes, NEW r \in Ranks, r \in Holds(c), Creates(c, r) PROVE RankFits(c, r)'
  <2>1. Turn(c, r) /\ Call(c, r).do = "create" /\ Call(c, r).id \notin DOMAIN part[c][r]
    BY <1>2 DEF Creates, Calls, Exists
  <2>2. PICK p, g, t, u, s, m, posts :
          /\ p = Prog(c) /\ g = global[c][r] /\ t = part[c][r] /\ u = part'[c][r]
          /\ s = sent[c][r] /\ m = wanted[c][r] /\ posts = Posts(c, r)
    OBVIOUS
  <2>3. PICK n \in Nat : pc[c][r] = n + 1 /\ pc[c][r] - 1 = n /\ Call(c, r) = p[n + 1]
    <3>1. Turn(c, r)
      BY <2>1
    <3> QED BY <2>2, <3>1, NextCall
  <2>4. /\ GlobalFits(p, n, g, posts) /\ ObjectsFit(p, n, t) /\ RequestsFit(p, n, t)
        /\ \A env \in Envelopes : StreamFits(p, n, s[env], m[env], posts, env)
    BY <1>2, <2>2, <2>3, RowOf
  <2>5. PICK e : e = PartData(p[n + 1], made + 1)
    OBVIOUS
  <2>6. /\ u = With(t, p[n + 1].id, e) /\ pc'[c][r] = pc[c][r] + 1
        /\ e.type = p[n + 1].type /\ DOMAIN e.requests = {}
    <3>1. u = With(t, p[n + 1].id, e) /\ pc'[c][r] = pc[c][r] + 1
      BY <1>2, <2>2, <2>3, <2>5, MadeEntries
    <3> QED BY <2>5, <3>1 DEF PartData
  <2>7. GlobalFits(p, n + 1, g, posts)
    BY <2>1, <2>3, <2>4, GlobalKeeps DEF GlobalStarts
  <2>8. ObjectsFit(p, n + 1, u)
    BY <2>1, <2>2, <2>3, <2>4, <2>6, ObjectsMore
  <2>9. RequestsFit(p, n + 1, u)
    BY <2>1, <2>2, <2>3, <2>4, <2>6, RequestsNone
  <2>10. ASSUME NEW env \in Envelopes PROVE StreamFits(p, n + 1, s[env], m[env], posts, env)
    <3>1. p[n + 1].do # Issend(env[1]) /\ p[n + 1].do # Irecv(env[1])
      BY <2>1, <2>3 DEF Issend, Irecv
    <3> QED BY <2>4, <3>1, StreamNext
  <2>11. RowFits(p, n + 1, g, u, s, m, posts, Envelopes)
    BY <2>7, <2>8, <2>9, <2>10 DEF RowFits
  <2>12. pc'[c][r] - 1 = n + 1
    BY <2>3, <2>6
  <2> QED BY <1>1, <2>2, <2>11, <2>12, RankAfter
<1>3. ASSUME NEW c \in Codes, NEW r \in Ranks, r \in Holds(c), ~Creates(c, r) PROVE RankFits(c, r)'
  <2>1. PICK p, g, t, u, s, m, posts, n :
          /\ p = Prog(c) /\ g = global[c][r] /\ t = part[c][r] /\ u = part'[c][r]
          /\ s = sent[c][r] /\ m = wanted[c][r] /\ posts = Posts(c, r) /\ n = pc[c][r] - 1
    OBVIOUS
  <2>2. pc[c][r] \in Nat /\ pc[c][r] >= 1
    BY WorldFacts DEF Shapes
  <2>3. n \in Nat
    BY <2>1, <2>2
  <2>4. /\ GlobalFits(p, n, g, posts) /\ ObjectsFit(p, n, t) /\ RequestsFit(p, n, t)
        /\ \A env \in Envelopes : StreamFits(p, n, s[env], m[env], posts, env)
    BY <1>3, <2>1, <2>3, RowOf
  <2>5. /\ DOMAIN u = DOMAIN t /\ pc'[c][r] = pc[c][r]
        /\ \A i \in DOMAIN t : u[i].type = t[i].type /\ u[i].requests = t[i].requests
    BY <1>3, <2>1, MadeEntries
  <2>6. ObjectsFit(p, n, u) /\ RequestsFit(p, n, u)
    BY <2>3, <2>4, <2>5, OtherProtocols
  <2>7. RowFits(p, n, g, u, s, m, posts, Envelopes)
    BY <2>4, <2>6 DEF RowFits
  <2>8. pc'[c][r] - 1 = n
    BY <2>1, <2>5
  <2> QED BY <1>1, <2>1, <2>7, <2>8, RankAfter
<1>4. \A c \in Codes : Holds(c)' = Holds(c)
  BY <1>1, SameWorld
<1> QED BY <1>2, <1>3, <1>4 DEF Fits

-----------------------------------------------------------------------------
(* The tables and the arrays are those of the codes and their ranks. *)

\* An array is written.
Written(c, r, key, kind, v) == buffer' = [buffer EXCEPT ![c][r][kind][key] = v]

LEMMA BufferFacts ==
  ASSUME Frames, NEW c \in Codes, NEW r \in Ranks, NEW key \in Keys, NEW kind \in Kinds, NEW v,
         Written(c, r, key, kind, v)
  PROVE  /\ DOMAIN buffer' = Codes /\ \A d \in Codes : DOMAIN buffer'[d] = Ranks
         /\ \A d \in Codes, s \in Ranks :
              /\ DOMAIN buffer'[d][s] = Kinds
              /\ \A l \in Kinds : DOMAIN buffer'[d][s][l] = Keys
         /\ buffer'[c][r][kind][key] = v
         /\ \A d \in Codes, s \in Ranks : \A l \in Kinds : \A k \in Keys :
              d # c \/ s # r \/ l # kind \/ k # key => buffer'[d][s][l][k] = buffer[d][s][l][k]
<1>1. /\ DOMAIN buffer = Codes /\ \A d \in Codes : DOMAIN buffer[d] = Ranks
      /\ \A d \in Codes, s \in Ranks : DOMAIN buffer[d][s] = Kinds
      /\ \A d \in Codes, s \in Ranks : \A l \in Kinds : DOMAIN buffer[d][s][l] = Keys
  BY DEF Frames
<1>2. PICK a, b : a = buffer[c][r] /\ b = buffer'[c][r]
  OBVIOUS
<1>3. /\ DOMAIN buffer' = Codes /\ \A d \in Codes : DOMAIN buffer'[d] = Ranks
      /\ b = [a EXCEPT ![kind][key] = v]
      /\ \A d \in Codes, s \in Ranks : d # c \/ s # r => buffer'[d][s] = buffer[d][s]
  BY <1>1, <1>2 DEF Written
<1>4. DOMAIN a = Kinds /\ \A l \in Kinds : DOMAIN a[l] = Keys
  BY <1>1, <1>2
<1>5. /\ DOMAIN b = Kinds /\ b[kind] = [a[kind] EXCEPT ![key] = v]
      /\ \A l \in Kinds : l # kind => b[l] = a[l]
  BY <1>3, <1>4
<1>6. /\ DOMAIN b[kind] = Keys /\ b[kind][key] = v
      /\ \A k \in Keys : k # key => b[kind][k] = a[kind][k]
  BY <1>4, <1>5
<1>7. \A l \in Kinds : DOMAIN b[l] = Keys
  BY <1>4, <1>5, <1>6
<1>8. \A l \in Kinds : \A k \in Keys : l # kind \/ k # key => b[l][k] = a[l][k]
  BY <1>5, <1>6
<1>9. ASSUME NEW d \in Codes, NEW s \in Ranks
      PROVE  /\ DOMAIN buffer'[d][s] = Kinds
             /\ \A l \in Kinds : DOMAIN buffer'[d][s][l] = Keys
             /\ \A l \in Kinds : \A k \in Keys :
                  d # c \/ s # r \/ l # kind \/ k # key => buffer'[d][s][l][k] = buffer[d][s][l][k]
  <2>1. CASE d = c /\ s = r
    BY <1>2, <1>5, <1>7, <1>8, <2>1
  <2>2. CASE d # c \/ s # r
    BY <1>1, <1>3, <2>2
  <2> QED BY <2>1, <2>2
<1> QED BY <1>2, <1>3, <1>6, <1>9

WroteOnly(c, r, key, kind, v) ==
  /\ buffer'[c][r][kind][key] = v
  /\ \A d \in Codes, s \in Ranks : \A l \in Kinds : \A k \in Keys :
       d # c \/ s # r \/ l # kind \/ k # key => buffer'[d][s][l][k] = buffer[d][s][l][k]

LEMMA OneWritten ==
  ASSUME Frames, NEW c \in Codes, NEW r \in Ranks, NEW key \in Keys, NEW kind \in Kinds, NEW v,
         Written(c, r, key, kind, v)
  PROVE  WroteOnly(c, r, key, kind, v)
<1>1. /\ buffer'[c][r][kind][key] = v
      /\ \A d \in Codes, s \in Ranks : \A l \in Kinds : \A k \in Keys :
           d # c \/ s # r \/ l # kind \/ k # key => buffer'[d][s][l][k] = buffer[d][s][l][k]
  BY BufferFacts
<1> QED BY <1>1 DEF WroteOnly

\* The identifiers are those of the world.
LEMMA SameKeys ==
  ASSUME world' = world
  PROVE  Keys' = Keys /\ Used' = Used /\ Agree' = Agree
BY DEF Keys, Used, Agree

\* The frames of the tables of global data, of the broadcasts and of the arrays.
LEMMA FramesAfter ==
  ASSUME Frames, world' = world,
         \/ global' = global
         \/ \E c, r, t : global' = [global EXCEPT ![c][r] = t],
         \/ cast' = cast
         \/ \E c, x : cast' = [cast EXCEPT ![c] = x],
         \/ buffer' = buffer
         \/ \E c \in Codes, r \in Ranks, key \in Keys, kind \in Kinds : \E v : Written(c, r, key, kind, v)
  PROVE  Frames'
<1>1. Keys' = Keys
  BY SameKeys
<1>2. DOMAIN global = Codes /\ \A d \in Codes : DOMAIN global[d] = Ranks
  BY DEF Frames
<1>3. DOMAIN global' = Codes /\ \A d \in Codes : DOMAIN global'[d] = Ranks
  <2>1. CASE global' = global
    BY <1>2, <2>1
  <2>2. ASSUME NEW c, NEW r, NEW t, global' = [global EXCEPT ![c][r] = t]
        PROVE  DOMAIN global' = Codes /\ \A d \in Codes : DOMAIN global'[d] = Ranks
    <3>1. DOMAIN global' = Codes
      BY <1>2, <2>2
    <3>2. ASSUME NEW d \in Codes PROVE DOMAIN global'[d] = Ranks
      <4>1. CASE d = c
        BY <1>2, <2>2, <4>1
      <4>2. CASE d # c
        BY <1>2, <2>2, <4>2
      <4> QED BY <4>1, <4>2
    <3> QED BY <3>1, <3>2
  <2> QED BY <2>1, <2>2
<1>4. DOMAIN cast' = Codes
  <2>1. DOMAIN cast = Codes
    BY DEF Frames
  <2> QED BY <2>1
<1>5. /\ DOMAIN buffer' = Codes
      /\ \A d \in Codes : DOMAIN buffer'[d] = Ranks
      /\ \A d \in Codes, s \in Ranks :
           DOMAIN buffer'[d][s] = Kinds /\ \A l \in Kinds : DOMAIN buffer'[d][s][l] = Keys
  <2>1. CASE buffer' = buffer
    BY <2>1 DEF Frames
  <2>2. CASE \E c \in Codes, r \in Ranks, key \in Keys, kind \in Kinds : \E v : Written(c, r, key, kind, v)
    BY <2>2, BufferFacts
  <2> QED BY <2>1, <2>2
<1> QED BY <1>1, <1>3, <1>4, <1>5 DEF Frames

\* Every step keeps the frames.
LEMMA FramesStep ==
  ASSUME DataAssumption, Shapes, Frames, [Next]_vars
  PROVE  Frames'
<1>1. ASSUME NEW c \in Codes, NEW r \in Ranks,
             \/ globalDataIssend(c, r) \/ globalDataIrecv(c, r)
             \/ CreateFirst(c, r) \/ partDataDel(c, r)
             \/ partDataIssend(c, r) \/ partDataIrecv(c, r) \/ partDataWaitIssend(c, r) \/ Pass(c, r)
      PROVE  Frames'
  <2>1. /\ world' = world /\ cast' = cast /\ buffer' = buffer
        /\ global' = global \/ \E x, y, t : global' = [global EXCEPT ![x][y] = t]
    BY <1>1 DEF globalDataIssend, globalDataIrecv, CreateFirst, partDataDel, partDataIssend,
                partDataIrecv, partDataWaitIssend, Pass, AddGlobal, mpi
  <2> QED BY <2>1, FramesAfter
<1>2. ASSUME NEW c \in Codes, NEW r \in Ranks,
             \/ globalDataWaitIssend(c, r) \/ RootWaitIrecv(c, r) \/ globalDataWaitIrecv(c, r)
             \/ partDataWaitIrecv(c, r)
      PROVE  Frames'
  <2>1. Turn(c, r)
    BY <1>2 DEF globalDataWaitIssend, RootWaitIrecv, globalDataWaitIrecv, partDataWaitIrecv,
                Waits, Calls
  <2>2. Key(Call(c, r)) \in Keys /\ "global" \in Kinds /\ "part" \in Kinds /\ Other(c) \in Codes
    <3>1. "global" \in Kinds /\ "part" \in Kinds
      BY DEF Kinds
    <3> QED BY <2>1, <3>1, CallEnvelope, CodeFacts
  <2>3. world' = world /\ global' = global
    BY <1>2 DEF globalDataWaitIssend, RootWaitIrecv, globalDataWaitIrecv, partDataWaitIrecv
  <2>4. cast' = cast \/ \E y, z : cast' = [cast EXCEPT ![y] = z]
    BY <1>2 DEF globalDataWaitIssend, RootWaitIrecv, globalDataWaitIrecv, partDataWaitIrecv, mpi
  <2>5. \/ buffer' = buffer
        \/ \E v : Written(Other(c), r, Key(Call(c, r)), "global", v)
        \/ \E v : Written(c, r, Key(Call(c, r)), "global", v)
        \/ \E v : Written(c, r, Key(Call(c, r)), "part", v)
    BY <1>2 DEF globalDataWaitIssend, RootWaitIrecv, globalDataWaitIrecv, partDataWaitIrecv, Written
  <2>6. \/ buffer' = buffer
        \/ \E d \in Codes, s \in Ranks, key \in Keys, kind \in Kinds : \E v : Written(d, s, key, kind, v)
    BY <2>2, <2>5
  <2> QED BY <2>3, <2>4, <2>6, FramesAfter
<1>3. ASSUME partDataCreate \/ UNCHANGED vars PROVE Frames'
  <2>1. world' = world /\ cast' = cast /\ buffer' = buffer /\ global' = global
    BY <1>3 DEF partDataCreate, vars, mpi
  <2> QED BY <2>1, FramesAfter
<1> QED BY <1>1, <1>2, <1>3 DEF Next, Step, Terminated

\* What the ranks have fits their programs after every step.
LEMMA FitsStep ==
  ASSUME DataAssumption, Shapes, AllPosted, Frames, Fits, [Next]_vars
  PROVE  Fits'
<1>1. DOMAIN global = Codes /\ \A d \in Codes : DOMAIN global[d] = Ranks
  BY DEF Frames
<1>2. ASSUME NEW c \in Codes, NEW r \in Ranks, globalDataIssend(c, r) \/ globalDataIrecv(c, r)
      PROVE  Fits'
  BY <1>1, <1>2, GlobalStartFits
<1>3. ASSUME NEW c \in Codes, NEW r \in Ranks,
             \/ globalDataWaitIssend(c, r) \/ RootWaitIrecv(c, r) \/ globalDataWaitIrecv(c, r)
             \/ Pass(c, r)
      PROVE  Fits'
  BY <1>3, GlobalWaitFits
<1>4. ASSUME NEW c \in Codes, NEW r \in Ranks, CreateFirst(c, r) \/ partDataDel(c, r) PROVE Fits'
  BY <1>4, LifetimeFits
<1>5. ASSUME NEW c \in Codes, NEW r \in Ranks, partDataIssend(c, r) \/ partDataIrecv(c, r) PROVE Fits'
  BY <1>5, PartStartFits
<1>6. ASSUME NEW c \in Codes, NEW r \in Ranks, partDataWaitIssend(c, r) \/ partDataWaitIrecv(c, r)
      PROVE  Fits'
  BY <1>6, PartWaitFits
<1>7. ASSUME partDataCreate PROVE Fits'
  BY <1>7, CreateFits
<1>8. ASSUME UNCHANGED vars PROVE Fits'
  <2>1. /\ world' = world /\ pc' = pc /\ global' = global /\ part' = part /\ sent' = sent
        /\ wanted' = wanted
    BY <1>8 DEF vars, mpi
  <2>2. \A c \in Codes, r \in Ranks : RankFits(c, r) => RankFits(c, r)'
    BY <2>1, RankStays
  <2>3. \A c \in Codes : Holds(c)' = Holds(c)
    BY <2>1, SameWorld
  <2> QED BY <2>2, <2>3 DEF Fits
<1> QED BY <1>2, <1>3, <1>4, <1>5, <1>6, <1>7, <1>8 DEF Next, Step, Terminated

-----------------------------------------------------------------------------
(* Programs that use the functions as they should. *)

\* The calls of the programs of a world.
LEMMA UseFacts ==
  ASSUME Used, NEW c \in Codes, NEW i \in 1..Len(Prog(c))
  PROVE  GlobalUse(Prog(c), i) /\ PartUse(Prog(c), i)
BY DEF Used, WellUsed, Prog

\* An exchange is started for an object that is there.
LEMMA UnderWayLives ==
  ASSUME NEW p, NEW n \in Nat, \A i \in 1..n : PartUse(p, i), NEW j, UnderWay(p, n, j)
  PROVE  \E m \in 1..n : Lives(p, n, m) /\ p[m].id = p[j].id
<1>1. j \in 1..n /\ p[j].do \in PartStarts
  BY DEF UnderWay
<1>2. PICK m \in 1..j - 1 : Lives(p, j - 1, m) /\ p[m].id = p[j].id
  BY <1>1 DEF PartUse, PartStarts, Exchanges
<1>3. m \in 1..n /\ j \in Nat
  BY <1>1
<1>4. ASSUME NEW l \in m + 1..n, p[l].do \in Lifetime PROVE p[l].id # p[m].id
  <2>1. CASE l \in m + 1..j - 1
    BY <1>2, <1>4, <2>1 DEF Lives
  <2>2. CASE l = j
    BY <1>1, <1>4, <2>2 DEF PartStarts, Lifetime
  <2>3. CASE l \in j + 1..n
    BY <1>2, <1>4, <2>3 DEF UnderWay
  <2>4. l \in m + 1..j - 1 \/ l = j \/ l \in j + 1..n
    BY <1>1, <1>3
  <2> QED BY <2>1, <2>2, <2>3, <2>4
<1>5. p[m].do = "create"
  BY <1>2 DEF Lives
<1> QED BY <1>2, <1>3, <1>4, <1>5 DEF Lives

\* An exchange that is under way was so after each call since it was started.
LEMMA UnderWaySince ==
  ASSUME NEW p, NEW n \in Nat, NEW j, UnderWay(p, n, j), NEW m \in j..n
  PROVE  UnderWay(p, m, j)
<1>1. j \in 1..n /\ j \in 1..m /\ \A l \in j + 1..m : l \in j + 1..n
  BY DEF UnderWay
<1> QED BY <1>1 DEF UnderWay

\* One exchange at a time of an exch_id.
LEMMA OneUnderWay ==
  ASSUME NEW p, NEW n \in Nat, \A i \in 1..n : PartUse(p, i),
         NEW i, NEW j, UnderWay(p, n, i), UnderWay(p, n, j), Key(p[i]) = Key(p[j])
  PROVE  i = j
<1>1. i \in 1..n /\ j \in 1..n /\ p[i].do \in PartStarts /\ p[j].do \in PartStarts
  BY DEF UnderWay
<1>2. ASSUME NEW k \in 1..n, NEW l \in 1..n, UnderWay(p, n, k), p[l].do \in PartStarts, k < l
      PROVE  Key(p[k]) # Key(p[l])
  <2>1. l - 1 \in k..n /\ k \in 1..l - 1
    BY <1>2
  <2>2. UnderWay(p, l - 1, k)
    BY <1>2, <2>1, UnderWaySince
  <2> QED BY <1>2, <2>1, <2>2 DEF PartUse
<1>3. ~(i < j) /\ ~(j < i)
  BY <1>1, <1>2
<1> QED BY <1>1, <1>3

\* One call more keeps the exchanges in turn.
LEMMA InTurnNext ==
  ASSUME NEW p, NEW n \in Nat, \A i \in 1..n + 1 : PartUse(p, i), NEW key, InTurn(p, n, key)
  PROVE  InTurn(p, n + 1, key)
<1> DEFINE k == p[n + 1]
           Open(m) == \E j \in 1..m : UnderWay(p, m, j) /\ p[j].do = "part_irecv" /\ Key(p[j]) = key
<1>1. PartUse(p, n + 1) /\ \A i \in 1..n : PartUse(p, i)
  OBVIOUS
<1>2. /\ Times(p, n, "part_irecv", key) \in Nat /\ Times(p, n, "part_wait_irecv", key) \in Nat
      /\ Times(p, n + 1, "part_irecv", key) = Times(p, n, "part_irecv", key)
           + (IF k.do = "part_irecv" /\ Key(k) = key THEN 1 ELSE 0)
      /\ Times(p, n + 1, "part_wait_irecv", key) = Times(p, n, "part_wait_irecv", key)
           + (IF k.do = "part_wait_irecv" /\ Key(k) = key THEN 1 ELSE 0)
  <2>1. ASSUME NEW do
        PROVE  /\ Times(p, n, do, key) \in Nat
               /\ Times(p, n + 1, do, key) = Times(p, n, do, key)
                    + (IF k.do = do /\ Key(k) = key THEN 1 ELSE 0)
    BY TimesFacts
  <2> QED BY <2>1
<1>3. Times(p, n, "part_irecv", key) =
        Times(p, n, "part_wait_irecv", key) + (IF Open(n) THEN 1 ELSE 0)
  BY DEF InTurn
<1>4. ASSUME NEW j, UnderWay(p, n, j) PROVE j \in 1..n /\ j \in 1..n + 1
  BY <1>4 DEF UnderWay
<1>5. CASE k.do \in PartStarts /\ Key(k) = key
  <2>1. \A j : ~(UnderWay(p, n, j) /\ Key(p[j]) = key)
    BY <1>1, <1>4, <1>5 DEF PartUse
  <2>2. ~Open(n)
    BY <2>1
  <2>3. \A j : j = n + 1 => UnderWay(p, n + 1, j)
    BY <1>5, UnderWayNext
  <2>4. \A j : UnderWay(p, n + 1, j) /\ Key(p[j]) = key => j = n + 1
    BY <2>1, UnderWayNext
  <2>5. Open(n + 1) <=> k.do = "part_irecv"
    <3>1. n + 1 \in 1..n + 1
      OBVIOUS
    <3> QED BY <1>5, <2>3, <2>4, <3>1
  <2>6. k.do # "part_wait_irecv"
    BY <1>5 DEF PartStarts
  <2> HIDE DEF Open
  <2>7. Times(p, n + 1, "part_irecv", key) =
          Times(p, n + 1, "part_wait_irecv", key) + (IF Open(n + 1) THEN 1 ELSE 0)
    BY <1>2, <1>3, <1>5, <2>2, <2>5, <2>6
  <2> QED BY <2>7 DEF InTurn, Open
<1>6. CASE k.do \in PartWaits /\ Key(k) = key
  <2>1. PICK j \in 1..n : UnderWay(p, n, j) /\ p[j].do = Awaited(k.do) /\ Key(p[j]) = key
    BY <1>1, <1>6 DEF PartUse
  <2>2. Open(n) <=> k.do = "part_wait_irecv"
    <3>1. \A i : UnderWay(p, n, i) /\ Key(p[i]) = key => i = j
      BY <1>1, <2>1, OneUnderWay
    <3>2. p[j].do = "part_irecv" <=> k.do = "part_wait_irecv"
      BY <1>6, <2>1 DEF Awaited, PartWaits
    <3> QED BY <2>1, <3>1, <3>2
  <2>3. k.do \notin PartStarts /\ k.do # "part_irecv"
    BY <1>6 DEF PartWaits, PartStarts
  <2>4. ~Open(n + 1)
    <3>1. \A i : UnderWay(p, n + 1, i) => (i = n + 1 /\ k.do \in PartStarts) \/ Key(p[i]) # key
      BY <1>6, UnderWayNext
    <3> QED BY <2>3, <3>1
  <2> HIDE DEF Open
  <2>5. Times(p, n + 1, "part_irecv", key) =
          Times(p, n + 1, "part_wait_irecv", key) + (IF Open(n + 1) THEN 1 ELSE 0)
    BY <1>2, <1>3, <1>6, <2>2, <2>3, <2>4
  <2> QED BY <2>5 DEF InTurn, Open
<1>7. CASE ~(k.do \in PartStarts /\ Key(k) = key) /\ ~(k.do \in PartWaits /\ Key(k) = key)
  <2>1. ASSUME NEW j, UnderWay(p, n, j), Key(p[j]) = key PROVE UnderWay(p, n + 1, j)
    <3>1. PICK m \in 1..n : Lives(p, n, m) /\ p[m].id = p[j].id
      BY <1>1, <2>1, UnderWayLives
    <3>2. k.do = "create" => k.id # p[j].id
      BY <1>1, <3>1 DEF PartUse
    <3>3. k.do = "del" => k.id # p[j].id
      BY <1>1, <1>4, <2>1 DEF PartUse
    <3>4. k.do \in Lifetime => k.id # p[j].id
      BY <3>2, <3>3 DEF Lifetime
    <3> QED BY <1>7, <2>1, <3>4, UnderWayNext
  <2>2. ASSUME NEW j, UnderWay(p, n + 1, j), Key(p[j]) = key PROVE UnderWay(p, n, j)
    BY <1>7, <2>2, UnderWayNext
  <2>3. Open(n + 1) <=> Open(n)
    <3>1. \A j : UnderWay(p, n + 1, j) /\ Key(p[j]) = key <=> UnderWay(p, n, j) /\ Key(p[j]) = key
      BY <2>1, <2>2
    <3>2. \A j : UnderWay(p, n + 1, j) => j \in 1..n + 1
      BY DEF UnderWay
    <3> QED BY <1>4, <3>1, <3>2
  <2>4. ~(k.do = "part_irecv" /\ Key(k) = key) /\ ~(k.do = "part_wait_irecv" /\ Key(k) = key)
    BY <1>7 DEF PartStarts, PartWaits
  <2> HIDE DEF Open
  <2>5. Times(p, n + 1, "part_irecv", key) =
          Times(p, n + 1, "part_wait_irecv", key) + (IF Open(n + 1) THEN 1 ELSE 0)
    BY <1>2, <1>3, <2>3, <2>4
  <2> QED BY <2>5 DEF InTurn, Open
<1> QED BY <1>5, <1>6, <1>7

\* A step is a call of some ranks, ...
LEMMA CallsMade ==
  ASSUME DataAssumption, Shapes, [Next]_vars
  PROVE  /\ world' = world
         /\ \A c \in Codes, r \in Ranks :
              pc'[c][r] = pc[c][r] \/ (Turn(c, r) /\ pc'[c][r] = pc[c][r] + 1)
<1>1. ASSUME NEW c \in Codes, NEW r \in Ranks, Turn(c, r), Return(c, r)
      PROVE  \A d \in Codes, s \in Ranks :
               pc'[d][s] = pc[d][s] \/ (Turn(d, s) /\ pc'[d][s] = pc[d][s] + 1)
  <2>1. /\ pc'[c][r] = pc[c][r] + 1
        /\ \A d \in Codes, s \in Ranks : d # c \/ s # r => pc'[d][s] = pc[d][s]
    BY <1>1, Returned
  <2>2. ASSUME NEW d \in Codes, NEW s \in Ranks
        PROVE  pc'[d][s] = pc[d][s] \/ (Turn(d, s) /\ pc'[d][s] = pc[d][s] + 1)
    <3>1. CASE d = c /\ s = r
      BY <1>1, <2>1, <3>1
    <3>2. CASE d # c \/ s # r
      BY <2>1, <3>2
    <3> QED BY <3>1, <3>2
  <2> QED BY <2>2
<1>2. ASSUME NEW c \in Codes, NEW r \in Ranks,
             \/ globalDataIssend(c, r) \/ globalDataIrecv(c, r) \/ globalDataWaitIssend(c, r)
             \/ RootWaitIrecv(c, r) \/ globalDataWaitIrecv(c, r) \/ CreateFirst(c, r)
             \/ partDataDel(c, r) \/ partDataIssend(c, r) \/ partDataIrecv(c, r)
             \/ partDataWaitIssend(c, r) \/ partDataWaitIrecv(c, r) \/ Pass(c, r)
      PROVE  world' = world /\ Turn(c, r) /\ Return(c, r)
  BY <1>2 DEF globalDataIssend, globalDataIrecv, globalDataWaitIssend, RootWaitIrecv,
              globalDataWaitIrecv, CreateFirst, partDataDel, partDataIssend, partDataIrecv,
              partDataWaitIssend, partDataWaitIrecv, Pass, Waits, Calls
<1>3. ASSUME partDataCreate
      PROVE  /\ world' = world
             /\ \A d \in Codes, s \in Ranks :
                  pc'[d][s] = pc[d][s] \/ (Turn(d, s) /\ pc'[d][s] = pc[d][s] + 1)
  <2>1. \A d \in Codes, s \in Ranks :
          pc'[d][s] = IF s \in Holds(d) /\ Creates(d, s) THEN pc[d][s] + 1 ELSE pc[d][s]
    BY <1>3 DEF partDataCreate
  <2>2. \A d, s : Creates(d, s) => Turn(d, s)
    BY DEF Creates, Calls
  <2>3. world' = world
    BY <1>3 DEF partDataCreate
  <2>4. ASSUME NEW d \in Codes, NEW s \in Ranks
        PROVE  pc'[d][s] = pc[d][s] \/ (Turn(d, s) /\ pc'[d][s] = pc[d][s] + 1)
    <3>1. CASE s \in Holds(d) /\ Creates(d, s)
      BY <2>1, <2>2, <3>1
    <3>2. CASE ~(s \in Holds(d) /\ Creates(d, s))
      BY <2>1, <3>2
    <3> QED BY <3>1, <3>2
  <2> QED BY <2>3, <2>4
<1>4. ASSUME UNCHANGED vars PROVE world' = world /\ pc' = pc
  BY <1>4 DEF vars
<1>5. CASE UNCHANGED vars
  BY <1>4, <1>5
<1>6. CASE partDataCreate
  BY <1>3, <1>6
<1>7. ASSUME NEW c \in Codes, NEW r \in Ranks, world' = world, Turn(c, r), Return(c, r)
      PROVE  /\ world' = world
             /\ \A d \in Codes, s \in Ranks :
                  pc'[d][s] = pc[d][s] \/ (Turn(d, s) /\ pc'[d][s] = pc[d][s] + 1)
  BY <1>1, <1>7
<1> QED BY <1>2, <1>5, <1>6, <1>7 DEF Next, Step, Terminated

\* ... which keeps the exchanges of partitioned data in turn.
LEMMA PacesStep ==
  ASSUME DataAssumption, Shapes, Used, Paces, [Next]_vars
  PROVE  Paces'
<1>1. world' = world /\ Keys' = Keys
  BY CallsMade, SameKeys
<1>2. \A c \in Codes : Holds(c)' = Holds(c) /\ Prog(c)' = Prog(c)
  BY <1>1, SameWorld
<1>3. ASSUME NEW c \in Codes, NEW r \in Ranks, r \in Holds(c), NEW key \in Keys
      PROVE  InTurn(Prog(c), pc'[c][r] - 1, key)
  <2>1. InTurn(Prog(c), pc[c][r] - 1, key)
    BY <1>3 DEF Paces
  <2>2. CASE pc'[c][r] = pc[c][r]
    BY <2>1, <2>2
  <2>3. CASE Turn(c, r) /\ pc'[c][r] = pc[c][r] + 1
    <3>1. PICK n \in Nat : pc[c][r] = n + 1 /\ pc[c][r] - 1 = n /\ n + 1 \in 1..Len(Prog(c))
      BY <2>3, NextCall
    <3>2. Len(Prog(c)) \in Nat
      BY WorldFacts DEF Shapes
    <3>3. \A i \in 1..n + 1 : i \in 1..Len(Prog(c))
      BY <3>1, <3>2
    <3>4. \A i \in 1..n + 1 : PartUse(Prog(c), i)
      BY <3>3, UseFacts
    <3>5. pc'[c][r] - 1 = n + 1
      BY <2>3, <3>1
    <3>6. InTurn(Prog(c), n + 1, key)
      BY <2>1, <3>1, <3>4, InTurnNext
    <3> QED BY <3>5, <3>6
  <2> QED BY <2>2, <2>3, CallsMade
<1> QED BY <1>1, <1>2, <1>3 DEF Paces

\* No call of such a program is refused.
LEMMA Accepted ==
  ASSUME DataAssumption, Shapes, Fits, Used
  PROVE  NotRefused
<1>1. SUFFICES ASSUME NEW c \in Codes, NEW r \in Ranks, Turn(c, r)
               PROVE  LET k == Call(c, r) IN
                      /\ k.do \in {"issend", "irecv"} => ~Started(c, r)
                      /\ k.do \in {"wait_issend", "wait_irecv"} => Known(c, r)
                      /\ k.do = "create" => ~Exists(c, r)
                      /\ k.do \in Exchanges \cup {"del"} => Exists(c, r)
                      /\ k.do = "part_issend" => Mine(c, r).type = "send"
                      /\ k.do = "part_irecv" => Mine(c, r).type = "recv"
                      /\ k.do \in {"part_issend", "part_irecv"} =>
                           k.exch \notin DOMAIN Mine(c, r).requests
                      /\ k.do \in {"part_wait_issend", "part_wait_irecv"} =>
                           k.exch \in DOMAIN Mine(c, r).requests
  BY DEF NotRefused
<1>2. PICK p, k, g, t : p = Prog(c) /\ k = Call(c, r) /\ g = global[c][r] /\ t = part[c][r]
  OBVIOUS
<1>3. PICK n \in Nat :
        /\ pc[c][r] = n + 1 /\ pc[c][r] - 1 = n /\ n + 1 \in 1..Len(p) /\ k = p[n + 1]
        /\ r \in Holds(c)
  <2>1. Turn(c, r)
    BY <1>1
  <2> QED BY <1>2, <2>1, NextCall
<1>4. GlobalFits(p, n, g, Posts(c, r)) /\ ObjectsFit(p, n, t) /\ RequestsFit(p, n, t)
  BY <1>2, <1>3, RowOf
<1>5. PICK i : i = n + 1
  OBVIOUS
<1>6. GlobalUse(p, i) /\ PartUse(p, i) /\ k = p[i] /\ i - 1 = n
  BY <1>2, <1>3, <1>5, UseFacts
<1>7. ASSUME k.do \in GlobalStarts PROVE ~Started(c, r)
  <2>1. \A j \in 1..n : p[j].do \in GlobalStarts => p[j].id # k.id
    BY <1>6, <1>7 DEF GlobalUse
  <2>2. k.id \notin DOMAIN g
    BY <1>4, <2>1 DEF GlobalFits
  <2> QED BY <1>2, <2>2 DEF Started
<1>8. ASSUME k.do \in GlobalWaits PROVE Known(c, r)
  <2>1. Started(c, r)
    <3>1. PICK j \in 1..n : p[j].do = Awaited(k.do) /\ Key(p[j]) = Key(k)
      BY <1>6, <1>8 DEF GlobalUse
    <3>2. p[j].do \in GlobalStarts /\ p[j].id = k.id
      BY <1>8, <3>1 DEF Awaited, GlobalStarts, GlobalWaits, Key
    <3> QED BY <1>2, <1>4, <3>2 DEF GlobalFits, Started
  <2>2. ASSUME Joint(r) PROVE k.id \in DOMAIN global[Other(c)][r]
    <3>1. PICK o \in Codes : o = Other(c)
      BY CodeFacts
    <3>2. Holds(1) \cap Holds(2) # {} /\ r \in Holds(o)
      BY <2>2, <3>1, CodeFacts DEF Joint, Codes
    <3>3. PICK j \in 1..n : Prog(o)[j].do \in GlobalStarts /\ Prog(o)[j].id = k.id
      <4>1. JointUse(world)
        BY DEF Used, WellUsed
      <4>2. \E j \in 1..i - 1 : Prog(o)[j].do \in GlobalStarts /\ Prog(o)[j].id = p[i].id
        <5>1. \A x \in 1..Len(Prog(c)) : Prog(c)[x].do \in GlobalWaits =>
                \E j \in 1..x - 1 : Prog(o)[j].do \in GlobalStarts /\ Prog(o)[j].id = Prog(c)[x].id
          <6>1. \A d \in Codes : \A x \in 1..Len(Prog(d)) : Prog(d)[x].do \in GlobalWaits =>
                  \E j \in 1..x - 1 :
                    Prog(Other(d))[j].do \in GlobalStarts /\ Prog(Other(d))[j].id = Prog(d)[x].id
            BY <3>2, <4>1 DEF JointUse, Holds, Prog
          <6> QED BY <3>1, <6>1
        <5>2. i \in 1..Len(Prog(c)) /\ Prog(c)[i].do \in GlobalWaits
          BY <1>2, <1>3, <1>5, <1>6, <1>8
        <5> QED BY <1>2, <5>1, <5>2
      <4> QED BY <1>6, <4>2
    <3>4. PICK m \in Nat : m = pc[o][r] - 1
      BY <3>1, WorldFacts DEF Shapes
    <3>5. n <= m
      <4>1. pc[c][r] = pc[o][r] \/ pc[c][r] < pc[o][r]
        BY <1>1, <2>2, <3>1 DEF Turn
      <4>2. pc[o][r] \in Nat
        BY <3>1 DEF Shapes
      <4> QED BY <1>3, <3>4, <4>1, <4>2
    <3>6. j \in 1..m
      BY <3>5
    <3>7. GlobalFits(Prog(o), m, global[o][r], Posts(o, r))
      BY <3>1, <3>2, <3>4, RowOf
    <3> QED BY <3>1, <3>3, <3>6, <3>7 DEF GlobalFits
  <2> QED BY <1>2, <2>1, <2>2 DEF Known
<1>9. ASSUME k.do = "create" PROVE ~Exists(c, r)
  <2>1. \A j \in 1..n : Lives(p, n, j) => p[j].id # k.id
    BY <1>6, <1>9 DEF PartUse
  <2> QED BY <1>2, <1>4, <2>1 DEF ObjectsFit, Exists
<1>10. ASSUME k.do \in Exchanges
       PROVE  /\ Exists(c, r)
              /\ k.do = "part_issend" => Mine(c, r).type = "send"
              /\ k.do = "part_irecv" => Mine(c, r).type = "recv"
  <2>1. PICK j \in 1..n : Lives(p, n, j) /\ p[j].id = k.id /\ p[j].type = TypeFor(k.do)
    BY <1>6, <1>10 DEF PartUse
  <2>2. k.id \in DOMAIN t /\ t[k.id].type = TypeFor(k.do)
    BY <1>4, <2>1 DEF ObjectsFit
  <2> QED BY <1>2, <2>2 DEF Exists, Mine, TypeFor
<1>11. ASSUME k.do = "del" PROVE Exists(c, r)
  <2>1. PICK j \in 1..n : Lives(p, n, j) /\ p[j].id = k.id
    BY <1>6, <1>11 DEF PartUse
  <2> QED BY <1>2, <1>4, <2>1 DEF ObjectsFit, Exists
<1>12. ASSUME k.do \in PartStarts PROVE k.exch \notin DOMAIN Mine(c, r).requests
  <2>1. k.id \in DOMAIN t
    BY <1>2, <1>10, <1>12 DEF Exchanges, PartStarts, Exists
  <2>2. \A j \in 1..n : UnderWay(p, n, j) => Key(p[j]) # <<k.id, k.exch>>
    BY <1>6, <1>12 DEF PartUse, Key
  <2>3. k.exch \notin DOMAIN t[k.id].requests
    BY <1>4, <2>1, <2>2 DEF RequestsFit
  <2> QED BY <1>2, <2>3 DEF Mine
<1>13. ASSUME k.do \in PartWaits PROVE k.exch \in DOMAIN Mine(c, r).requests
  <2>1. PICK j \in 1..n : UnderWay(p, n, j) /\ Key(p[j]) = Key(k)
    BY <1>6, <1>13 DEF PartUse
  <2>2. p[j].id = k.id /\ p[j].exch = k.exch
    BY <2>1 DEF Key
  <2>3. k.exch \in DOMAIN t[k.id].requests
    BY <1>4, <2>1, <2>2 DEF RequestsFit
  <2> QED BY <1>2, <2>3 DEF Mine
<1>14. /\ k.do \in {"issend", "irecv"} => ~Started(c, r)
       /\ k.do \in {"wait_issend", "wait_irecv"} => Known(c, r)
  BY <1>7, <1>8 DEF GlobalStarts, GlobalWaits
<1>15. k.do \in Exchanges \cup {"del"} => Exists(c, r)
  BY <1>10, <1>11
<1>16. /\ k.do = "part_issend" => Mine(c, r).type = "send"
       /\ k.do = "part_irecv" => Mine(c, r).type = "recv"
  BY <1>10 DEF Exchanges
<1>17. /\ k.do \in {"part_issend", "part_irecv"} => k.exch \notin DOMAIN Mine(c, r).requests
       /\ k.do \in {"part_wait_issend", "part_wait_irecv"} => k.exch \in DOMAIN Mine(c, r).requests
  BY <1>12, <1>13 DEF PartStarts, PartWaits
<1> QED BY <1>2, <1>9, <1>14, <1>15, <1>16, <1>17

\* What is done for the first time is that of the first exchange.
LEMMA FirstTime ==
  ASSUME NEW p, NEW i \in Nat, i > 0,
         \A j \in 1..i - 1 : ~(p[j].do = p[i].do /\ Key(p[j]) = Key(p[i]))
  PROVE  Item(p, i) = Append(Key(p[i]), 1) /\ Times(p, i, p[i].do, Key(p[i])) = 1
<1>1. PICK m \in Nat : i = m + 1 /\ i - 1 = m
  <2>1. i - 1 \in Nat /\ i = (i - 1) + 1
    OBVIOUS
  <2> QED BY <2>1
<1>2. PICK do, key : do = p[i].do /\ key = Key(p[i])
  OBVIOUS
<1>3. Times(p, 0, do, key) = 0
  BY <1>1, TimesFacts
<1>4. \A j \in 0 + 1..m : ~(p[j].do = do /\ Key(p[j]) = key)
  BY <1>1, <1>2
<1>5. Times(p, 0, do, key) = Times(p, m, do, key)
  <2>1. 0 \in Nat /\ 0 <= m
    BY <1>1
  <2> QED BY <1>1, <1>4, <2>1, TimesBetween
<1>6. Times(p, m + 1, do, key) = Times(p, m, do, key)
        + (IF p[m + 1].do = do /\ Key(p[m + 1]) = key THEN 1 ELSE 0)
  BY <1>1, TimesFacts
<1>7. Times(p, i, do, key) = 1
  BY <1>1, <1>2, <1>3, <1>5, <1>6
<1> QED BY <1>2, <1>7 DEF Item

\* Global data are started once, ...
LEMMA StartOnce ==
  ASSUME NEW p, NEW n \in Nat, \A i \in 1..n : GlobalUse(p, i),
         NEW j \in 1..n, p[j].do \in GlobalStarts
  PROVE  /\ Item(p, j) = Append(Key(p[j]), 1)
         /\ \A i \in 1..n : p[i].do \in GlobalStarts /\ p[i].id = p[j].id => i = j
<1>1. \A i \in 1..j - 1 : ~(p[i].do = p[j].do /\ Key(p[i]) = Key(p[j]))
  BY DEF GlobalUse, Key
<1>2. Item(p, j) = Append(Key(p[j]), 1)
  <2>1. j \in Nat /\ j > 0
    OBVIOUS
  <2> QED BY <1>1, <2>1, FirstTime
<1>3. ASSUME NEW i \in 1..n, p[i].do \in GlobalStarts, p[i].id = p[j].id PROVE i = j
  <2>1. ~(i \in 1..j - 1) /\ ~(j \in 1..i - 1)
    BY <1>3 DEF GlobalUse
  <2> QED BY <2>1
<1> QED BY <1>2, <1>3

\* ... and waited for once.
LEMMA WaitOnce ==
  ASSUME NEW p, NEW n \in Nat, \A i \in 1..n : GlobalUse(p, i)
  PROVE  /\ \A j \in 1..n : p[j].do \in GlobalWaits =>
              /\ Item(p, j) = Append(Key(p[j]), 1)
              /\ Times(p, j, p[j].do, Key(p[j])) = 1
         /\ \A key : Times(p, n, "wait_irecv", key) \in {0, 1}
<1>1. ASSUME NEW j \in 1..n, p[j].do \in GlobalWaits
      PROVE  Item(p, j) = Append(Key(p[j]), 1) /\ Times(p, j, p[j].do, Key(p[j])) = 1
  <2>1. \A i \in 1..j - 1 : ~(p[i].do = p[j].do /\ Key(p[i]) = Key(p[j]))
    BY <1>1 DEF GlobalUse, Key
  <2>2. j \in Nat /\ j > 0
    OBVIOUS
  <2> QED BY <2>1, <2>2, FirstTime
<1>2. ASSUME NEW key PROVE Times(p, n, "wait_irecv", key) \in {0, 1}
  <2>1. PICK S : S = {i \in 1..n : p[i].do = "wait_irecv" /\ Key(p[i]) = key}
    OBVIOUS
  <2>2. \A i, j \in S : i = j
    <3>1. \A i, j \in 1..n : p[i].do = "wait_irecv" /\ p[j].do = "wait_irecv" /\ p[i].id = p[j].id
                             => ~(i \in 1..j - 1)
      BY DEF GlobalUse, GlobalWaits
    <3>2. \A i, j \in S : ~(i \in 1..j - 1) /\ ~(j \in 1..i - 1)
      BY <2>1, <3>1 DEF Key
    <3> QED BY <2>1, <3>2
  <2>3. S = {} \/ \E i : S = {i}
    BY <2>2
  <2>4. Cardinality(S) \in {0, 1}
    <3>1. CASE S = {}
      BY <3>1, FS_EmptySet
    <3>2. ASSUME NEW i, S = {i} PROVE Cardinality(S) = 1
      BY <3>2, FS_Singleton
    <3> QED BY <2>3, <3>1, <3>2
  <2> QED BY <2>1, <2>4 DEF Times
<1> QED BY <1>1, <1>2

-----------------------------------------------------------------------------
(* What is received. *)

\* A message is that of the call that its receiver waits for.
LEMMA MessageFits ==
  ASSUME DataAssumption, Shapes, Fits, Agree, NEW c \in Codes, NEW kind \in Kinds,
         NEW j \in 1..Len(Prog(c)), Prog(c)[j].do = Irecv(kind),
         NEW s \in Ranks, s \in Holds(Other(c)),
         NEW req, req = Position(Prog(c), j, kind), Arrived(Other(c), s, req)
  PROVE  Message(Other(c), s, req) = Item(Prog(c), j)
<1>0. PICK o \in Codes : o = Other(c) /\ Other(o) = c
  BY CodeFacts
<1>1. PICK p, l, env, v :
        /\ o = Other(c) /\ Other(o) = c /\ p = Prog(c) /\ l = Prog(o)
        /\ env = Envelope(kind, p[j]) /\ v = Nth(p, j, Irecv(kind), env)
  BY <1>0
<1>2. env \in Envelopes /\ env[1] = kind
  BY <1>1, CallFacts, EnvelopeFacts DEF Shapes
<1>3. req.env = env /\ req.nth = v
  BY <1>1 DEF Position
<1>4. v \in Nat /\ v >= 1
  <2>1. Len(Prog(c)) \in Nat
    BY WorldFacts DEF Shapes
  <2>2. PICK i \in Nat : j = i + 1
    <3>1. j - 1 \in Nat /\ j = (j - 1) + 1
      BY <2>1
    <3> QED BY <3>1
  <2>3. p[i + 1].do = Irecv(kind) /\ Envelope(env[1], p[i + 1]) = env
    BY <1>1, <1>2, <2>2
  <2>4. Nth(p, i, Irecv(kind), env) \in Nat
    BY NthFacts
  <2>5. Nth(p, i + 1, Irecv(kind), env) = Nth(p, i, Irecv(kind), env) + 1
    BY <2>3, NthFacts
  <2> QED BY <1>1, <2>2, <2>4, <2>5
<1>5. PICK q : q = sent[o][s][env]
  OBVIOUS
<1>6. v <= Len(q)
  BY <1>1, <1>3, <1>5 DEF Arrived
<1>7. PICK m \in Nat : pc[o][s] - 1 = m /\ m <= Len(l) /\ Len(l) \in Nat
  <2>1. pc[o][s] \in 1..Len(l) + 1 /\ Len(l) \in Nat
    BY <1>1, WorldFacts DEF Shapes
  <2>2. pc[o][s] - 1 \in Nat /\ pc[o][s] - 1 <= Len(l)
    BY <2>1
  <2> QED BY <2>1, <2>2
<1>8. QueueFits(l, m, q, Issend(kind), env)
  BY <1>1, <1>2, <1>5, <1>7, RowOf DEF StreamFits
<1>9. Len(q) \in Nat
  BY <1>8 DEF QueueFits
<1>10. PICK i \in 1..m : /\ l[i].do = Issend(kind) /\ Envelope(kind, l[i]) = env
                         /\ Nth(l, i, Issend(kind), env) = v /\ q[v] = Item(l, i)
  <2>1. v \in 1..Len(q)
    BY <1>4, <1>6, <1>9
  <2> QED BY <1>2, <1>8, <2>1 DEF QueueFits
<1>11. Item(l, i) = Item(p, j)
  <2>1. SameOrder(world)
    BY DEF Agree, Matched
  <2>2. i \in 1..Len(l) /\ j \in 1..Len(p)
    BY <1>1, <1>7
  <2>3. \A a \in 1..Len(l), b \in 1..Len(p) :
          LET e == Envelope(kind, l[a]) IN
          /\ l[a].do = Issend(kind) /\ p[b].do = Irecv(kind) /\ Envelope(kind, p[b]) = e
          /\ Nth(l, a, Issend(kind), e) = Nth(p, b, Irecv(kind), e)
          => Item(l, a) = Item(p, b)
    BY <1>1, <2>1 DEF SameOrder, Prog
  <2> QED BY <1>1, <1>10, <2>2, <2>3
<1>12. Message(o, s, req) = q[v]
  BY <1>3, <1>5 DEF Message
<1> QED BY <1>1, <1>10, <1>11, <1>12

\* An entry of global data has those of its exchange.
LEMMA EntryOf ==
  ASSUME NEW p, NEW n \in Nat, NEW g, NEW posts, GlobalFits(p, n, g, posts),
         \A i \in 1..n : GlobalUse(p, i), NEW id \in DOMAIN g
  PROVE  \E j \in 1..n : /\ p[j].do \in GlobalStarts /\ p[j].id = id
                         /\ g[id].data = Append(Key(p[j]), 1)
<1>1. PICK j \in 1..n : p[j].do \in GlobalStarts /\ p[j].id = id
  BY DEF GlobalFits
<1>2. Item(p, j) = Append(Key(p[j]), 1)
  BY <1>1, StartOnce
<1>3. g[id].data = Item(p, j)
  BY <1>1 DEF GlobalFits, Entered
<1> QED BY <1>1, <1>2, <1>3

\* What a wait for global data waits for.
LEMMA WaitedFor ==
  ASSUME DataAssumption, Shapes, Fits, Used, NEW c \in Codes, NEW r \in Ranks, Turn(c, r),
         Call(c, r).do \in GlobalWaits
  PROVE  /\ global[c][r][Call(c, r).id].data = Append(Key(Call(c, r)), 1)
         /\ \E j \in 1..Len(Prog(c)) :
              /\ Prog(c)[j].do = Awaited(Call(c, r).do) /\ Key(Prog(c)[j]) = Key(Call(c, r))
              /\ Item(Prog(c), j) = Append(Key(Call(c, r)), 1)
              /\ Posts(c, r) =>
                   global[c][r][Call(c, r).id].req = Position(Prog(c), j, "global")
<1>1. PICK p, k, g : p = Prog(c) /\ k = Call(c, r) /\ g = global[c][r]
  OBVIOUS
<1>2. PICK n \in Nat :
        /\ pc[c][r] = n + 1 /\ pc[c][r] - 1 = n /\ n + 1 \in 1..Len(p) /\ k = p[n + 1]
        /\ r \in Holds(c)
  <2>1. Turn(c, r)
    BY <1>1
  <2> QED BY <1>1, <2>1, NextCall
<1>3. Len(p) \in Nat
  BY <1>1, WorldFacts DEF Shapes
<1>4. PICK i : i = n + 1 /\ i - 1 = n
  BY <1>2
<1>5. GlobalUse(p, i) /\ k = p[i]
  BY <1>1, <1>2, <1>4, UseFacts
<1>6. PICK j \in 1..n : p[j].do = Awaited(k.do) /\ Key(p[j]) = Key(k)
  BY <1>1, <1>4, <1>5 DEF GlobalUse
<1>7. p[j].do \in GlobalStarts /\ p[j].id = k.id
  BY <1>1, <1>6 DEF Awaited, GlobalStarts, GlobalWaits, Key
<1>8. \A x \in 1..n : x \in 1..Len(p)
  BY <1>2, <1>3
<1>9. \A x \in 1..n : GlobalUse(p, x)
  BY <1>1, <1>8, UseFacts
<1>10. Item(p, j) = Append(Key(p[j]), 1)
  BY <1>7, <1>9, StartOnce
<1>11. GlobalFits(p, n, g, Posts(c, r))
  BY <1>1, <1>2, RowOf
<1>12. g[k.id].data = Item(p, j) /\ (Posts(c, r) => g[k.id].req = Position(p, j, "global"))
  BY <1>7, <1>11 DEF GlobalFits, Entered
<1> QED BY <1>1, <1>6, <1>8, <1>10, <1>12


\* What the root of a code broadcasts is what its call waits for.
LEMMA ReceivedFits ==
  ASSUME DataAssumption, Shapes, Fits, Used, Agree, Arrays, NEW c \in Codes, NEW r \in Ranks,
         Turn(c, r), Call(c, r).do = "wait_irecv", Known(c, r), r = Root(c),
         Posts(c, r) => Arrived(Other(c), Root(Other(c)), global[c][r][Call(c, r).id].req)
  PROVE  Received(c, r, Call(c, r)) = Append(Key(Call(c, r)), 1)
<1>1. PICK k : k = Call(c, r)
  OBVIOUS
<1>2. PICK o \in Codes : o = Other(c) /\ Other(o) = c /\ o # c
  BY CodeFacts
<1>3. /\ k.do \in GlobalWaits /\ Awaited(k.do) = "irecv"
      /\ Irecv("global") = "irecv" /\ "global" \in Kinds
  BY <1>1 DEF GlobalWaits, Awaited, Irecv, Kinds
<1>4. PICK j \in 1..Len(Prog(c)) :
        /\ Prog(c)[j].do = "irecv" /\ Key(Prog(c)[j]) = Key(k)
        /\ Item(Prog(c), j) = Append(Key(k), 1)
        /\ Posts(c, r) => global[c][r][k.id].req = Position(Prog(c), j, "global")
  BY <1>1, <1>3, WaitedFor
<1>5. Root(o) \in Holds(o) /\ Root(o) \in Ranks /\ r \in Holds(c)
  <2>1. world \in Worlds
    BY DEF Shapes
  <2> QED BY <2>1, RootFacts
<1>6. CASE Posts(c, r)
  <2>1. PICK req : req = global[c][r][k.id].req
    OBVIOUS
  <2>2. req = Position(Prog(c), j, "global") /\ Arrived(Other(c), Root(o), req)
    BY <1>1, <1>2, <1>4, <1>6, <2>1
  <2>3. PICK s \in Ranks : s = Root(o) /\ s \in Holds(Other(c))
    BY <1>2, <1>5
  <2>4. PICK kind \in Kinds : kind = "global" /\ Prog(c)[j].do = Irecv(kind)
    BY <1>3, <1>4
  <2>5. req = Position(Prog(c), j, kind) /\ Arrived(Other(c), s, req)
    BY <2>2, <2>3, <2>4
  <2>6. Message(Other(c), s, req) = Item(Prog(c), j)
    BY <2>3, <2>4, <2>5, MessageFits
  <2>7. ~Copies(c, r)
    BY <1>6 DEF Posts, Copies
  <2>8. Received(c, r, k) = Message(Other(c), s, req)
    BY <1>1, <1>2, <1>6, <2>1, <2>3, <2>7 DEF Received
  <2> QED BY <1>1, <1>4, <2>6, <2>8
<1>7. CASE Copies(c, r)
  <2>1. c = 1 /\ o = 2 /\ r = Root(o)
    BY <1>2, <1>7 DEF Copies, Codes, Other
  <2>2. r \in Holds(o) /\ Joint(r)
    BY <1>5, <2>1 DEF Joint
  <2>3. PICK id \in DOMAIN global[o][r] : id = k.id
    BY <1>1, <1>2, <2>2 DEF Known
  <2>4. PICK q, g, m : q = Prog(o) /\ g = global[o][r] /\ m = pc[o][r] - 1
    OBVIOUS
  <2>5. m \in Nat /\ \A i \in 1..m : i \in 1..Len(q)
    <3>1. Len(Prog(o)) \in Nat /\ pc[o][r] \in 1..Len(Prog(o)) + 1
      BY <1>2, WorldFacts DEF Shapes
    <3>2. m \in Nat /\ m <= Len(q) /\ Len(q) \in Nat
      BY <2>4, <3>1
    <3> QED BY <3>2
  <2>6. PICK i \in 1..m :
          /\ q[i].do \in GlobalStarts /\ q[i].id = id
          /\ g[id].data = Append(Key(q[i]), 1)
    <3>1. GlobalFits(q, m, g, Posts(o, r))
      BY <1>2, <2>2, <2>4, <2>5, RowOf
    <3>2. \A x \in 1..m : GlobalUse(q, x)
      BY <1>2, <2>4, <2>5, UseFacts
    <3>3. id \in DOMAIN g
      BY <2>3, <2>4
    <3> QED BY <2>5, <3>1, <3>2, <3>3, EntryOf
  <2>7. Key(q[i]) = Key(k)
    <3>1. Facing(world)
      BY DEF Agree, Matched
    <3>2. /\ Prog(c)[j].do \in GlobalStarts /\ Prog(c)[j].id = q[i].id
          /\ q[i].do \in GlobalStarts /\ i \in 1..Len(q)
      BY <1>4, <2>3, <2>5, <2>6 DEF GlobalStarts, Key
    <3>3. Key(Prog(c)[j]) = Key(q[i])
      BY <2>1, <2>4, <3>1, <3>2 DEF Facing, Prog
    <3> QED BY <1>4, <3>3
  <2>8. ~Posts(c, r)
    BY <1>2, <2>1 DEF Posts
  <2>9. Received(c, r, k) = global[o][r][k.id].data
    BY <1>2, <1>7, <2>8 DEF Received
  <2> QED BY <1>1, <2>3, <2>4, <2>6, <2>7, <2>9
<1>8. CASE ~Posts(c, r) /\ ~Copies(c, r)
  <2>1. c = 2 /\ o = 1 /\ r = Root(1) /\ r = Root(2)
    <3>1. r = Root(o) /\ ~(c < o)
      BY <1>2, <1>8 DEF Posts, Copies
    <3>2. c = 2 /\ o = 1
      BY <1>2, <3>1 DEF Codes
    <3> QED BY <3>1, <3>2
  <2>2. Joint(r)
    BY <1>5, <2>1 DEF Joint
  <2>3. PICK i : i = pc[2][r]
    OBVIOUS
  <2>4. i \in 1..Len(Prog(2)) /\ k = Prog(2)[i] /\ Len(Prog(2)) \in Nat
    <3>1. Len(Prog(2)) \in Nat
      BY WorldFacts DEF Shapes
    <3> QED BY <1>1, <2>1, <2>3, <3>1, Turns
  <2>5. PICK a \in 1..Len(Prog(1)) :
          /\ Prog(1)[a].do = "wait_issend" /\ Key(Prog(1)[a]) = Key(k)
          /\ IF world.first = 1 THEN a <= i ELSE a < i
    <3>1. SenderFirst(world) /\ Min(world.holds[1]) = Min(world.holds[2])
      BY <2>1 DEF Agree, Matched, Root, Holds
    <3>2. Prog(2)[i].do = "wait_irecv"
      BY <1>1, <2>4
    <3> QED BY <2>4, <3>1, <3>2 DEF SenderFirst, Prog
  <2>6. pc[1][r] \in Nat /\ Len(Prog(1)) \in Nat /\ world.first \in Codes
    BY <1>2, <2>1, WorldFacts DEF Shapes
  <2>7. IF 2 = world.first THEN i = pc[1][r] ELSE i < pc[1][r]
    BY <1>2, <2>1, <2>2, <2>3 DEF Turn
  <2>8. a \in 1..pc[1][r] - 1
    BY <2>4, <2>5, <2>6, <2>7 DEF Codes
  <2>9. Copied(r)
    BY <2>1 DEF Arrays
  <2>10. buffer[2][r].global[Key(k)] = Append(Key(k), 1)
    BY <2>5, <2>8, <2>9 DEF Copied
  <2>11. Received(c, r, k) = buffer[2][r].global[Key(k)]
    BY <1>8, <2>1 DEF Received
  <2> QED BY <1>1, <2>10, <2>11
<1> QED BY <1>6, <1>7, <1>8

\* What a wait for partitioned data gives is what its exchange has brought.
LEMMA PartReceived ==
  ASSUME DataAssumption, Shapes, Fits, Used, Agree, Paces, NEW c \in Codes, NEW r \in Ranks,
         Waits(c, r, "part_wait_irecv"),
         NEW s \in Holds(Other(c)), Arrived(Other(c), s, Asked(c, r))
  PROVE  Message(Other(c), s, Asked(c, r)) =
           Append(Key(Call(c, r)), Times(Prog(c), pc[c][r], "part_wait_irecv", Key(Call(c, r))))
<1>1. PICK p, k, t, key : p = Prog(c) /\ k = Call(c, r) /\ t = part[c][r] /\ key = Key(k)
  OBVIOUS
<1>2. Turn(c, r) /\ k.do = "part_wait_irecv"
  BY <1>1 DEF Waits, Calls
<1>3. PICK n \in Nat :
        /\ pc[c][r] = n + 1 /\ pc[c][r] - 1 = n /\ n + 1 \in 1..Len(p) /\ k = p[n + 1]
        /\ r \in Holds(c)
  <2>1. Turn(c, r)
    BY <1>2
  <2> QED BY <1>1, <2>1, NextCall
<1>4. Len(p) \in Nat
  BY <1>1, WorldFacts DEF Shapes
<1>5. \A i \in 1..n + 1 : PartUse(p, i)
  <2>1. \A i \in 1..n + 1 : i \in 1..Len(p)
    BY <1>3, <1>4
  <2> QED BY <1>1, <2>1, UseFacts
<1>6. PICK j \in 1..n : UnderWay(p, n, j) /\ p[j].do = "part_irecv" /\ Key(p[j]) = key
  <2>1. PICK i : i = n + 1 /\ i - 1 = n /\ i \in 1..n + 1
    OBVIOUS
  <2>2. PartUse(p, i) /\ p[i] = k
    BY <1>3, <1>5, <2>1
  <2>3. k.do \in PartWaits /\ Awaited(k.do) = "part_irecv"
    BY <1>2 DEF PartWaits, Awaited
  <2> QED BY <1>1, <2>1, <2>2, <2>3 DEF PartUse
<1>7. p[j].id = k.id /\ p[j].exch = k.exch
  BY <1>1, <1>6 DEF Key
<1>8. Asked(c, r) = Position(p, j, "part")
  <2>1. RequestsFit(p, n, t)
    BY <1>1, <1>3, RowOf
  <2>2. t[k.id].requests[k.exch] = Position(p, j, "part")
    BY <1>6, <1>7, <2>1 DEF RequestsFit
  <2> QED BY <1>1, <2>2 DEF Asked, Mine
<1>9. j \in 1..Len(p) /\ j \in Nat /\ j <= n
  BY <1>3, <1>4
<1>10. Message(Other(c), s, Asked(c, r)) = Item(p, j)
  <2>1. "part" \in Kinds /\ Irecv("part") = "part_irecv"
    BY DEF Kinds, Irecv
  <2>2. s \in Ranks
    <3>1. Members \subseteq Ranks
      BY WorldFacts DEF Shapes
    <3> QED BY <3>1 DEF Members, Other, Codes
  <2> QED BY <1>1, <1>6, <1>8, <1>9, <2>1, <2>2, MessageFits
<1>11. Times(p, j, "part_irecv", key) = Times(p, n, "part_irecv", key)
  <2>1. ASSUME NEW m \in j + 1..n PROVE ~(p[m].do = "part_irecv" /\ Key(p[m]) = key)
    <3>1. m \in 1..n + 1 /\ m - 1 \in j..n /\ j \in 1..m - 1
      BY <1>9
    <3>2. UnderWay(p, m - 1, j)
      BY <1>6, <3>1, UnderWaySince
    <3>3. PartUse(p, m)
      BY <1>5, <3>1
    <3> QED BY <1>6, <3>1, <3>2, <3>3 DEF PartUse, PartStarts
  <2> QED BY <1>9, <2>1, TimesBetween
<1>12. Times(p, n, "part_irecv", key) = Times(p, n, "part_wait_irecv", key) + 1
  <2>1. key \in Keys
    BY <1>1, <1>2, CallEnvelope DEF Kinds
  <2>2. InTurn(p, n, key)
    BY <1>1, <1>3, <2>1 DEF Paces
  <2> QED BY <1>6, <2>2 DEF InTurn
<1>13. Times(p, n + 1, "part_wait_irecv", key) = Times(p, n, "part_wait_irecv", key) + 1
  <2>1. PICK do : do = "part_wait_irecv" /\ p[n + 1].do = do /\ Key(p[n + 1]) = key
    BY <1>1, <1>2, <1>3
  <2>2. Times(p, n + 1, do, key) = Times(p, n, do, key) + 1
    BY <2>1, TimesMore
  <2> QED BY <2>1, <2>2
<1>14. Item(p, j) = Append(key, Times(p, j, "part_irecv", key))
  BY <1>6 DEF Item
<1> QED BY <1>1, <1>3, <1>10, <1>11, <1>12, <1>13, <1>14

\* The items of m elements, of one origin each.
Items(h, m) == {<<i, h[i]>> : i \in 1..m}

LEMMA CountItems ==
  ASSUME NEW m \in Nat, NEW h
  PROVE  Cardinality(Items(h, m)) = m
<1> DEFINE T == {<<i, h[i]>> : i \in 1..m}
           f == [i \in 1..m |-> <<i, h[i]>>]
<1>1. f \in Bijection(1..m, T)
  <2>1. f \in [1..m -> T] /\ \A t \in T : \E i \in 1..m : f[i] = t
    OBVIOUS
  <2>2. \A i, j \in 1..m : f[i] = f[j] => i = j
    OBVIOUS
  <2>3. DOMAIN f = 1..m
    OBVIOUS
  <2> HIDE DEF T, f
  <2> QED BY <2>1, <2>2, <2>3 DEF Bijection, Injection, Surjection, IsInjective
<1>2. ExistsBijection(1..m, T)
  BY <1>1 DEF ExistsBijection
<1> HIDE DEF T
<1>3. Cardinality(T) = m
  BY <1>2, FS_CountingElements
<1> QED BY <1>3 DEF T, Items

\* With one origin for each of n elements, the i-th item is that of element i.
LEMMA ItemsInOrder ==
  ASSUME NEW n \in Nat, NEW h, \A i \in 1..n : h[i] \in Nat,
         NEW F, F = Items(h, n)
  PROVE  /\ Cardinality(F) = n
         /\ \A i \in 1..n : Cardinality({x \in F : x[1] < i}) = i - 1
         /\ \A i \in 1..n : Cardinality({y \in F : Before(y, <<i, h[i]>>)}) = i - 1
<1>1. Cardinality(F) = n
  BY CountItems
<1>2. ASSUME NEW i \in 1..n PROVE Cardinality({x \in F : x[1] < i}) = i - 1
  <2>1. {x \in F : x[1] < i} = Items(h, i - 1)
    <3>1. \A j \in 1..n : j < i <=> j \in 1..i - 1
      OBVIOUS
    <3>2. \A j \in 1..i - 1 : j \in 1..n
      OBVIOUS
    <3> QED BY <3>1, <3>2 DEF Items
  <2>2. i - 1 \in Nat
    OBVIOUS
  <2> QED BY <2>1, <2>2, CountItems
<1>3. ASSUME NEW i \in 1..n PROVE Cardinality({y \in F : Before(y, <<i, h[i]>>)}) = i - 1
  <2>1. \A y \in F : Before(y, <<i, h[i]>>) <=> y[1] < i
    BY DEF Before, Items
  <2>2. {y \in F : Before(y, <<i, h[i]>>)} = {x \in F : x[1] < i}
    BY <2>1
  <2> QED BY <1>2, <2>2
<1> QED BY <1>1, <1>2, <1>3

\* The items that come to a rank, when no element has several origins.
LEMMA OneItemEach ==
  ASSUME DataAssumption, world \in Worlds, OneOrigin(world),
         NEW c \in Codes, NEW r \in Ranks, r \in Holds(c)
  PROVE  /\ Len(Elts(c, r)) \in Nat /\ DOMAIN Elts(c, r) = 1..Len(Elts(c, r))
         /\ \E h : /\ \A i \in 1..Len(Elts(c, r)) : h[i] \in Linked(c, r) /\ h[i] \in Nat
                   /\ come_from(c, r) = Items(h, Len(Elts(c, r)))
<1>1. PICK o, e, n : o = Other(c) /\ o \in Codes /\ e = Elts(c, r) /\ n = Len(e)
  BY CodeFacts
<1>2. n \in Nat /\ DOMAIN e = 1..n
  <2>1. Parted(world)
    BY PartsAssumption
  <2>2. e \in Seq(Nat)
    BY <1>1, <2>1 DEF Parted, Elts, Holds
  <2> QED BY <1>1, <2>2
<1>3. Holds(o) \subseteq Nat
  BY <1>1 DEF DataAssumption, Holds
<1> DEFINE From(i, s) == s \in Holds(o) /\ \A t \in Holds(o) : e[i] \in Range(Elts(o, t)) <=> t = s
           h == [i \in 1..n |-> CHOOSE s \in Holds(o) : From(i, s)]
<1>4. \A i \in 1..n : From(i, h[i])
  <2>1. ASSUME NEW i \in 1..n PROVE \E s \in Holds(o) : From(i, s)
    <3>1. e[i] \in Range(e)
      BY <1>2 DEF Range
    <3>2. \A g \in Range(e) : \E s \in Holds(o) : \A t \in Holds(o) : g \in Range(Elts(o, t)) <=> t = s
      <4>1. \A d \in Codes : \A b \in Holds(d) : \A g \in Range(Elts(d, b)) :
              \E s \in Holds(Other(d)) :
                \A t \in Holds(Other(d)) : g \in Range(Elts(Other(d), t)) <=> t = s
        BY Zenon DEF OneOrigin, Elts, Holds
      <4> QED BY <1>1, <4>1
    <3> QED BY <3>1, <3>2
  <2> HIDE DEF From
  <2> QED BY <2>1
<1>5. \A i \in 1..n : \A s \in Holds(o) : e[i] \in Range(Elts(o, s)) <=> s = h[i]
  BY <1>4
<1>6. \A i \in 1..n : h[i] \in Holds(o) /\ e[i] \in Range(Elts(o, h[i]))
  <2>1. \A i \in 1..n : h[i] \in Holds(o)
    BY <1>4
  <2> QED BY <1>5, <2>1
<1> HIDE DEF h
<1>7. \A i \in 1..n : h[i] \in Linked(c, r) /\ h[i] \in Nat
  <2>1. \A i \in 1..n : e[i] \in Range(e)
    BY <1>2 DEF Range
  <2> QED BY <1>1, <1>3, <1>6, <2>1 DEF Linked
<1>8. come_from(c, r) = Items(h, n)
  <2>1. come_from(c, r) = {x \in (1..n) \X Linked(c, r) : e[x[1]] \in Range(Elts(o, x[2]))}
    BY <1>1, <1>2 DEF come_from
  <2>2. Linked(c, r) \subseteq Holds(o)
    BY <1>1 DEF Linked
  <2>3. ASSUME NEW x \in come_from(c, r) PROVE \E i \in 1..n : x = <<i, h[i]>>
    <3>1. PICK i \in 1..n, s \in Linked(c, r) : x = <<i, s>> /\ e[i] \in Range(Elts(o, s))
      BY <2>1
    <3> QED BY <1>5, <2>2, <3>1
  <2>4. ASSUME NEW i \in 1..n PROVE <<i, h[i]>> \in come_from(c, r)
    BY <1>6, <1>7, <2>1
  <2> QED BY <2>3, <2>4 DEF Items
<1> QED BY <1>1, <1>2, <1>7, <1>8

\* The array of a rank after the filter, whatever number of bytes it moves.
LEMMA PartFiltered ==
  ASSUME DataAssumption, Shapes, Fits, Used, Agree, Paces, NEW c \in Codes, NEW r \in Ranks,
         Waits(c, r, "part_wait_irecv"),
         \A s \in Linked(c, r) : Arrived(Other(c), s, Asked(c, r)), NEW u \in {0, 1}
  PROVE  recv_data_filter(c, r, Gathered(c, r), u) =
           Due(Elts(c, r), "part",
               Append(Key(Call(c, r)), Times(Prog(c), pc[c][r], "part_wait_irecv", Key(Call(c, r)))))
<1>1. PICK data :
        data = Append(Key(Call(c, r)), Times(Prog(c), pc[c][r], "part_wait_irecv", Key(Call(c, r))))
  OBVIOUS
<1>2. PICK e, n, F : e = Elts(c, r) /\ n = Len(e) /\ F = come_from(c, r)
  OBVIOUS
<1>3. r \in Holds(c) /\ world \in Worlds /\ OneOrigin(world)
  BY DEF Waits, Calls, Turn, Shapes, Agree, Matched
<1>4. /\ n \in Nat /\ DOMAIN e = 1..n
      /\ \E h : /\ \A i \in 1..n : h[i] \in Linked(c, r) /\ h[i] \in Nat
                /\ F = Items(h, n)
  <2>1. /\ Len(Elts(c, r)) \in Nat /\ DOMAIN Elts(c, r) = 1..Len(Elts(c, r))
        /\ \E h : /\ \A i \in 1..Len(Elts(c, r)) : h[i] \in Linked(c, r) /\ h[i] \in Nat
                  /\ come_from(c, r) = Items(h, Len(Elts(c, r)))
    BY <1>3, OneItemEach, Zenon
  <2> QED BY <1>2, <2>1, Zenon
<1>5. PICK h : /\ \A i \in 1..n : h[i] \in Linked(c, r) /\ h[i] \in Nat
               /\ F = Items(h, n)
  BY <1>4
<1>6. /\ Cardinality(F) = n
      /\ \A i \in 1..n : Cardinality({x \in F : x[1] < i}) = i - 1
      /\ \A i \in 1..n : Cardinality({y \in F : Before(y, <<i, h[i]>>)}) = i - 1
  <2>1. n \in Nat /\ (\A i \in 1..n : h[i] \in Nat) /\ F = Items(h, n)
    BY <1>4, <1>5
  <2> QED BY <2>1, ItemsInOrder
<1>7. ASSUME NEW q \in 1..n PROVE ItemAt(c, r, q) = <<q, h[q]>>
  <2> DEFINE At(x) == Cardinality({y \in F : Before(y, x)}) = q - 1
  <2>1. <<q, h[q]>> \in F /\ At(<<q, h[q]>>)
    BY <1>5, <1>6 DEF Items
  <2>2. ASSUME NEW x \in F, At(x) PROVE x = <<q, h[q]>>
    <3>1. PICK i \in 1..n : x = <<i, h[i]>>
      BY <1>5 DEF Items
    <3>2. i - 1 = q - 1
      BY <1>6, <2>2, <3>1
    <3> QED BY <1>4, <3>1, <3>2
  <2>3. ItemAt(c, r, q) = CHOOSE x \in F : At(x)
    BY <1>2 DEF ItemAt
  <2> HIDE DEF At
  <2> QED BY <2>1, <2>2, <2>3
<1>8. \A i \in 1..n : Message(Other(c), h[i], Asked(c, r)) = data
  <2>1. ASSUME NEW i \in 1..n PROVE Message(Other(c), h[i], Asked(c, r)) = data
    <3>1. PICK s : s = h[i]
      OBVIOUS
    <3>2. s \in Holds(Other(c)) /\ Arrived(Other(c), s, Asked(c, r))
      BY <1>5, <3>1 DEF Linked
    <3> QED BY <1>1, <3>1, <3>2, PartReceived
  <2> QED BY <2>1
<1>9. Gathered(c, r) = [q \in 1..n |-> <<data, e[q]>>]
  <2>1. Gathered(c, r) =
          [q \in 1..n |-> <<Message(Other(c), ItemAt(c, r, q)[2], Asked(c, r)), e[ItemAt(c, r, q)[1]]>>]
    BY <1>2, <1>6 DEF Gathered
  <2>2. \A q \in 1..n : ItemAt(c, r, q)[1] = q /\ ItemAt(c, r, q)[2] = h[q]
    BY <1>7
  <2> QED BY <1>8, <2>1, <2>2
<1>10. \A i \in 1..n : come_from_idx(c, r, i) + 1 = i
  <2>1. \A i \in 1..n : come_from_idx(c, r, i) = i - 1
    BY <1>2, <1>6 DEF come_from_idx
  <2> QED BY <1>4, <2>1
<1>11. recv_data_filter(c, r, Gathered(c, r), u) = [i \in 1..n |-> <<data, e[i]>>]
  <2>1. recv_data_filter(c, r, Gathered(c, r), u) =
          [i \in 1..n |-> Gathered(c, r)[IF u = 0 THEN i ELSE come_from_idx(c, r, i) + 1]]
    BY <1>2, <1>4 DEF recv_data_filter
  <2>2. \A i \in 1..n : (IF u = 0 THEN i ELSE come_from_idx(c, r, i) + 1) = i
    BY <1>10
  <2> QED BY <1>9, <2>1, <2>2
<1>12. Due(e, "part", data) = [i \in 1..n |-> <<data, e[i]>>]
  BY <1>4 DEF Due
<1> QED BY <1>1, <1>2, <1>11, <1>12

-----------------------------------------------------------------------------
(* The arrays after every step. *)

\* How many times rank s has waited for data of a kind, as a rank of code d.
Waited(d, s, kind, key) == Times(Prog(d), pc[d][s] - 1, WaitIrecv(kind), key)

\* A call counts for what it waits for only.
LEMMA WaitedNext ==
  ASSUME DataAssumption, Shapes, world' = world, NEW c \in Codes, NEW r \in Ranks, Turn(c, r),
         pc'[c][r] = pc[c][r] + 1, NEW kind, NEW key
  PROVE  /\ Waited(c, r, kind, key)' = Times(Prog(c), pc[c][r], WaitIrecv(kind), key)
         /\ ~(Call(c, r).do = WaitIrecv(kind) /\ Key(Call(c, r)) = key) =>
              Waited(c, r, kind, key)' = Waited(c, r, kind, key)
<1>1. PICK p, do : p = Prog(c) /\ do = WaitIrecv(kind)
  OBVIOUS
<1>2. PICK n \in Nat : pc[c][r] = n + 1 /\ pc[c][r] - 1 = n /\ Call(c, r) = p[n + 1]
  BY <1>1, NextCall
<1>3. pc'[c][r] - 1 = n + 1
  BY <1>2
<1>4. Waited(c, r, kind, key)' = Times(p, n + 1, do, key)
  BY <1>1, <1>3, SameWorld DEF Waited
<1>5. Waited(c, r, kind, key) = Times(p, n, do, key)
  BY <1>1, <1>2 DEF Waited
<1>6. ~(p[n + 1].do = do /\ Key(p[n + 1]) = key) => Times(p, n + 1, do, key) = Times(p, n, do, key)
  BY TimesMore
<1> QED BY <1>1, <1>2, <1>4, <1>5, <1>6

LEMMA WaitedStays ==
  ASSUME world' = world, NEW d, NEW s, pc'[d][s] = pc[d][s]
  PROVE  \A kind, key : Waited(d, s, kind, key)' = Waited(d, s, kind, key)
BY SameWorld DEF Waited

\* The call of a rank changes no other count.
CountsOnly(c, r) ==
  \A d \in Codes, s \in Ranks : \A kind, key :
    d # c \/ s # r \/ Call(c, r).do # WaitIrecv(kind) \/ Key(Call(c, r)) # key =>
      Waited(d, s, kind, key)' = Waited(d, s, kind, key)

LEMMA WaitedElsewhere ==
  ASSUME DataAssumption, Shapes, world' = world, NEW c \in Codes, NEW r \in Ranks,
         Turn(c, r), Return(c, r)
  PROVE  CountsOnly(c, r)
<1>1. /\ pc'[c][r] = pc[c][r] + 1
      /\ \A d \in Codes, s \in Ranks : d # c \/ s # r => pc'[d][s] = pc[d][s]
  BY Returned
<1>2. ASSUME NEW d \in Codes, NEW s \in Ranks, d # c \/ s # r
      PROVE  \A kind, key : Waited(d, s, kind, key)' = Waited(d, s, kind, key)
  BY <1>1, <1>2, WaitedStays
<1>3. ASSUME NEW kind, NEW key
      PROVE  ~(Call(c, r).do = WaitIrecv(kind) /\ Key(Call(c, r)) = key) =>
               Waited(c, r, kind, key)' = Waited(c, r, kind, key)
  <2>1. pc'[c][r] = pc[c][r] + 1
    BY <1>1
  <2> QED BY <2>1, WaitedNext
<1> QED BY <1>2, <1>3 DEF CountsOnly

\* Delivered, by the counts.
LEMMA DeliveredBy ==
  ASSUME DataAssumption, world \in Worlds, Frames
  PROVE  Delivered <=>
           \A d \in Codes, s \in Ranks : s \in Holds(d) => \A kind \in Kinds : \A key \in Keys :
             Waited(d, s, kind, key) > 0 =>
               buffer[d][s][kind][key] = Due(Elts(d, s), kind, Append(key, Waited(d, s, kind, key)))
<1>1. \A d \in Codes, s \in Ranks : \A kind \in Kinds : DOMAIN buffer[d][s][kind] = Keys
  BY DEF Frames
<1>2. \A d \in Codes : Holds(d) \subseteq Ranks
  BY DEF DataAssumption, Holds
<1> DEFINE Right(d, s, kind, key) ==
             LET n == Waited(d, s, kind, key) IN
             n > 0 => buffer[d][s][kind][key] = Due(Elts(d, s), kind, Append(key, n))
<1>3. Delivered <=>
        \A d \in Codes : \A s \in Holds(d) : \A kind \in Kinds :
          \A key \in DOMAIN buffer[d][s][kind] : Right(d, s, kind, key)
  BY Zenon DEF Delivered, Waited
<1> HIDE DEF Right
<1>4. Delivered <=>
        \A d \in Codes, s \in Ranks : s \in Holds(d) => \A kind \in Kinds : \A key \in Keys :
          Right(d, s, kind, key)
  BY <1>1, <1>2, <1>3
<1> QED BY <1>4 DEF Right


LEMMA DeliveredAfter ==
  ASSUME DataAssumption, world \in Worlds, world' = world, Frames',
         \A d \in Codes, s \in Ranks : s \in Holds(d) => \A kind \in Kinds : \A key \in Keys :
           Waited(d, s, kind, key)' > 0 =>
             buffer'[d][s][kind][key] = Due(Elts(d, s), kind, Append(key, Waited(d, s, kind, key)'))
  PROVE  Delivered'
<1>1. Keys' = Keys /\ \A d \in Codes : Holds(d)' = Holds(d)
  BY SameKeys, SameWorld
<1>2. \A d \in Codes, s \in Ranks : \A kind \in Kinds : DOMAIN buffer'[d][s][kind] = Keys
  BY <1>1 DEF Frames
<1>3. \A d \in Codes : Holds(d) \subseteq Ranks
  BY DEF DataAssumption, Holds
<1>4. ASSUME NEW d \in Codes, NEW s \in Holds(d)', NEW kind \in Kinds,
             NEW key \in DOMAIN buffer'[d][s][kind]
      PROVE  Waited(d, s, kind, key)' > 0 =>
               buffer'[d][s][kind][key] = Due(Elts(d, s)', kind, Append(key, Waited(d, s, kind, key)'))
  <2>1. s \in Holds(d) /\ s \in Ranks
    BY <1>1, <1>3
  <2>2. key \in Keys
    BY <1>2, <2>1
  <2>3. Elts(d, s)' = Elts(d, s)
    BY DEF Elts
  <2> QED BY <2>1, <2>2, <2>3
<1> QED BY <1>4 DEF Delivered, Waited

\* A step that writes no array and that waits for nothing.
LEMMA DeliveredQuiet ==
  ASSUME DataAssumption, world \in Worlds, world' = world, Frames, Frames', Delivered,
         buffer' = buffer,
         \A d \in Codes, s \in Ranks : \A kind \in Kinds : \A key \in Keys :
           Waited(d, s, kind, key)' = Waited(d, s, kind, key)
  PROVE  Delivered'
<1>1. \A d \in Codes, s \in Ranks : s \in Holds(d) => \A l \in Kinds : \A k \in Keys :
        Waited(d, s, l, k) > 0 => buffer[d][s][l][k] = Due(Elts(d, s), l, Append(k, Waited(d, s, l, k)))
  BY DeliveredBy
<1>2. ASSUME NEW d \in Codes, NEW s \in Ranks, s \in Holds(d), NEW kind \in Kinds, NEW key \in Keys,
             Waited(d, s, kind, key)' > 0
      PROVE  buffer'[d][s][kind][key] = Due(Elts(d, s), kind, Append(key, Waited(d, s, kind, key)'))
  <2>1. PICK n : n = Waited(d, s, kind, key) /\ n = Waited(d, s, kind, key)' /\ n > 0
    BY <1>2
  <2>2. buffer[d][s][kind][key] = Due(Elts(d, s), kind, Append(key, n))
    BY <1>1, <1>2, <2>1
  <2> QED BY <2>1, <2>2
<1> QED BY <1>2, DeliveredAfter

\* Nothing else is waited for in the step.
NothingElse(c, r, kind, key) ==
  \A d \in Codes, s \in Ranks : \A l \in Kinds : \A k \in Keys :
    d # c \/ s # r \/ l # kind \/ k # key => Waited(d, s, l, k)' = Waited(d, s, l, k)

\* A step that writes what is waited for in an array, if it is.
LEMMA DeliveredWritten ==
  ASSUME DataAssumption, world \in Worlds, world' = world, Frames, Frames', Delivered,
         NEW c \in Codes, NEW r \in Ranks, NEW key \in Keys, NEW kind \in Kinds, NEW v,
         Written(c, r, key, kind, v),
         Waited(c, r, kind, key)' > 0 => v = Due(Elts(c, r), kind, Append(key, Waited(c, r, kind, key)')),
         NothingElse(c, r, kind, key)
  PROVE  Delivered'
<1>1. \A d \in Codes, s \in Ranks : s \in Holds(d) => \A l \in Kinds : \A k \in Keys :
        Waited(d, s, l, k) > 0 => buffer[d][s][l][k] = Due(Elts(d, s), l, Append(k, Waited(d, s, l, k)))
  BY DeliveredBy
<1>2. \A d \in Codes, s \in Ranks : \A l \in Kinds : \A k \in Keys :
        d # c \/ s # r \/ l # kind \/ k # key => buffer'[d][s][l][k] = buffer[d][s][l][k]
  BY BufferFacts
<1>3. ASSUME NEW d \in Codes, NEW s \in Ranks, s \in Holds(d), NEW l \in Kinds, NEW k \in Keys,
             Waited(d, s, l, k)' > 0
      PROVE  buffer'[d][s][l][k] = Due(Elts(d, s), l, Append(k, Waited(d, s, l, k)'))
  <2>1. CASE d = c /\ s = r /\ l = kind /\ k = key
    <3>1. buffer'[c][r][kind][key] = v
      BY BufferFacts
    <3>2. v = Due(Elts(c, r), kind, Append(key, Waited(c, r, kind, key)'))
      BY <1>3, <2>1
    <3> QED BY <2>1, <3>1, <3>2
  <2>2. CASE d # c \/ s # r \/ l # kind \/ k # key
    <3>1. Waited(d, s, l, k)' = Waited(d, s, l, k)
      BY <2>2 DEF NothingElse
    <3>2. Waited(d, s, l, k) > 0
      BY <1>3, <3>1
    <3>3. buffer[d][s][l][k] = Due(Elts(d, s), l, Append(k, Waited(d, s, l, k)))
      BY <1>1, <1>3, <3>2
    <3>4. buffer'[d][s][l][k] = buffer[d][s][l][k]
      <4>1. \A i \in Kinds : \A j \in Keys :
              d # c \/ s # r \/ i # kind \/ j # key => buffer'[d][s][i][j] = buffer[d][s][i][j]
        BY <1>2, Zenon
      <4> QED BY <2>2, <4>1
    <3> QED BY <3>1, <3>3, <3>4
  <2> QED BY <2>1, <2>2
<1> QED BY <1>3, DeliveredAfter

\* What has been broadcast stays.
LEMMA CastStays ==
  ASSUME DataAssumption, Shapes, world' = world, NEW c \in Codes, CastFits(c), cast'[c] = cast[c],
         \/ pc'[c][Root(c)] = pc[c][Root(c)]
         \/ /\ Turn(c, Root(c)) /\ Call(c, Root(c)).do # "wait_irecv"
            /\ pc'[c][Root(c)] = pc[c][Root(c)] + 1
  PROVE  CastFits(c)'
<1>1. PICK p, s, r : p = Prog(c) /\ s = cast[c] /\ r = Root(c)
  OBVIOUS
<1>2. /\ s \in Seq(Range(s)) /\ Len(s) = CastsIn(p, pc[c][r] - 1)
      /\ \A i \in 1..Len(p) : p[i].do = "wait_irecv" /\ CastsIn(p, i) <= Len(s) =>
           s[CastsIn(p, i)] = Item(p, i)
  BY <1>1 DEF CastFits
<1>3. CastsIn(p, pc'[c][r] - 1) = CastsIn(p, pc[c][r] - 1)
  <2>1. CASE pc'[c][r] = pc[c][r]
    BY <2>1
  <2>2. CASE Turn(c, r) /\ Call(c, r).do # "wait_irecv" /\ pc'[c][r] = pc[c][r] + 1
    <3>1. r \in Ranks
      BY <1>1, RootFacts DEF Shapes
    <3>2. PICK n \in Nat : pc[c][r] = n + 1 /\ pc[c][r] - 1 = n /\ Call(c, r) = p[n + 1]
      BY <1>1, <2>2, <3>1, NextCall
    <3>3. pc'[c][r] - 1 = n + 1
      BY <2>2, <3>2
    <3>4. CastsIn(p, n) \in Nat
          /\ CastsIn(p, n + 1) = CastsIn(p, n) + (IF p[n + 1].do = "wait_irecv" THEN 1 ELSE 0)
      BY <3>2, CastsFacts
    <3> QED BY <2>2, <3>2, <3>3, <3>4
  <2> QED BY <1>1, <2>1, <2>2
<1>4. cast'[c] = s /\ Prog(c)' = p /\ Root(c)' = r
  BY <1>1, SameWorld
<1> QED BY <1>2, <1>3, <1>4 DEF CastFits

\* The root broadcasts once more.
LEMMA CastMore ==
  ASSUME DataAssumption, Shapes, world' = world, NEW c \in Codes, CastFits(c), Turn(c, Root(c)),
         Call(c, Root(c)).do = "wait_irecv", pc'[c][Root(c)] = pc[c][Root(c)] + 1,
         cast'[c] = Append(cast[c], Data(c, Root(c)))
  PROVE  CastFits(c)'
<1>1. PICK p, s, r : p = Prog(c) /\ s = cast[c] /\ r = Root(c)
  OBVIOUS
<1>2. r \in Ranks
  BY <1>1, RootFacts DEF Shapes
<1>3. PICK n \in Nat :
        /\ pc[c][r] = n + 1 /\ pc[c][r] - 1 = n /\ n + 1 \in 1..Len(p) /\ Call(c, r) = p[n + 1]
        /\ Data(c, r) = Item(p, n + 1)
  <2>1. Turn(c, r)
    BY <1>1
  <2>2. \E m \in Nat :
          /\ pc[c][r] = m + 1 /\ pc[c][r] - 1 = m /\ m + 1 \in 1..Len(Prog(c))
          /\ Call(c, r) = Prog(c)[m + 1] /\ Data(c, r) = Item(Prog(c), m + 1)
    BY <1>2, <2>1, NextCall
  <2> QED BY <1>1, <2>2
<1>4. /\ s \in Seq(Range(s)) /\ Len(s) = CastsIn(p, n)
      /\ \A i \in 1..Len(p) : p[i].do = "wait_irecv" /\ CastsIn(p, i) <= Len(s) =>
           s[CastsIn(p, i)] = Item(p, i)
  BY <1>1, <1>3 DEF CastFits
<1>5. p[n + 1].do = "wait_irecv" /\ Len(p) \in Nat
  BY <1>1, <1>3, WorldFacts DEF Shapes
<1>6. PICK t, x : x = Item(p, n + 1) /\ t = Append(s, x)
  OBVIOUS
<1>7. t \in Seq(Range(t)) /\ Len(t) = Len(s) + 1 /\ t[Len(s) + 1] = x
      /\ \A v \in 1..Len(s) : t[v] = s[v]
  <2>1. Append(s, x) \in Seq(Range(Append(s, x)))
    BY <1>4, Appended
  <2>2. /\ Len(Append(s, x)) = Len(s) + 1 /\ Append(s, x)[Len(s) + 1] = x
        /\ \A v \in 1..Len(s) : Append(s, x)[v] = s[v]
    BY <1>4
  <2> QED BY <1>6, <2>1, <2>2
<1>8. CastsIn(p, n + 1) = CastsIn(p, n) + 1 /\ CastsIn(p, n) \in Nat
  <2>1. CastsIn(p, n) \in Nat
        /\ CastsIn(p, n + 1) = CastsIn(p, n) + (IF p[n + 1].do = "wait_irecv" THEN 1 ELSE 0)
    BY CastsFacts
  <2> QED BY <1>5, <2>1
<1>9. ASSUME NEW i \in 1..Len(p), p[i].do = "wait_irecv", CastsIn(p, i) <= Len(t)
      PROVE  t[CastsIn(p, i)] = Item(p, i)
  <2>1. \A a, b \in 1..Len(p) :
          p[a].do = "wait_irecv" /\ p[b].do = "wait_irecv" /\ CastsIn(p, a) = CastsIn(p, b) => a = b
    BY <1>5, CastsFacts
  <2>2. CastsIn(p, i) \in Nat /\ CastsIn(p, i) >= 1
    <3>1. i \in Nat /\ i \in 1..i
      BY <1>5
    <3> QED BY <1>9, <3>1, CastsFacts
  <2>3. CASE CastsIn(p, i) <= Len(s)
    <3>1. CastsIn(p, i) \in 1..Len(s)
      BY <1>4, <1>8, <2>2, <2>3
    <3>2. s[CastsIn(p, i)] = Item(p, i)
      BY <1>4, <1>9, <2>3
    <3> QED BY <1>7, <3>1, <3>2
  <2>4. CASE ~(CastsIn(p, i) <= Len(s))
    <3>1. CastsIn(p, i) = CastsIn(p, n + 1) /\ CastsIn(p, i) = Len(s) + 1
      BY <1>4, <1>7, <1>8, <1>9, <2>2, <2>4
    <3>2. i = n + 1
      BY <1>3, <1>5, <1>9, <2>1, <3>1
    <3> QED BY <1>6, <1>7, <3>1, <3>2
  <2> QED BY <2>3, <2>4
<1>10. Len(t) = CastsIn(p, n + 1)
  BY <1>4, <1>7, <1>8
<1>11. cast'[c] = t /\ Prog(c)' = p /\ Root(c)' = r
  BY <1>1, <1>3, <1>6, SameWorld
<1>12. pc'[c][r] - 1 = n + 1
  BY <1>1, <1>3
<1> QED BY <1>7, <1>9, <1>10, <1>11, <1>12 DEF CastFits

\* On a common root the code of smaller id may have copied more.
LEMMA CopiedAfter ==
  ASSUME DataAssumption, Shapes, world' = world, NEW r \in Ranks, Copied(r),
         \A key \in Keys : \/ buffer'[2][r].global[key] = buffer[2][r].global[key]
                           \/ buffer'[2][r].global[key] = Append(key, 1),
         \/ pc'[1][r] = pc[1][r]
         \/ /\ Turn(1, r) /\ pc'[1][r] = pc[1][r] + 1
            /\ Call(1, r).do = "wait_issend" =>
                 buffer'[2][r].global[Key(Call(1, r))] = Append(Key(Call(1, r)), 1)
  PROVE  Copied(r)'
<1>1. PICK p, b, g : p = Prog(1) /\ b = buffer[2][r].global /\ g = buffer'[2][r].global
  OBVIOUS
<1>2. 1 \in Codes /\ Len(p) \in Nat /\ pc[1][r] \in 1..Len(p) + 1
  BY <1>1, CodeFacts, WorldFacts DEF Shapes
<1>3. PICK n \in Nat : pc[1][r] = n + 1 /\ pc[1][r] - 1 = n /\ \A i \in 1..n : i \in 1..Len(p)
  <2>1. pc[1][r] - 1 \in Nat /\ pc[1][r] = (pc[1][r] - 1) + 1 /\ pc[1][r] - 1 <= Len(p)
    BY <1>2
  <2>2. PICK m \in Nat : m = pc[1][r] - 1
    BY <2>1
  <2> QED BY <1>2, <2>1, <2>2
<1>4. ASSUME NEW i \in 1..n, p[i].do = "wait_issend" PROVE g[Key(p[i])] = Append(Key(p[i]), 1)
  <2>1. b[Key(p[i])] = Append(Key(p[i]), 1)
    BY <1>1, <1>3, <1>4 DEF Copied
  <2>2. Key(p[i]) \in Keys
    <3>1. i \in 1..Len(Prog(1)) /\ world \in Worlds
      BY <1>1, <1>3 DEF Shapes
    <3> QED BY <1>1, <1>2, <3>1, CallFacts
  <2> QED BY <1>1, <2>1, <2>2
<1>5. ASSUME NEW i \in 1..pc'[1][r] - 1, p[i].do = "wait_issend"
      PROVE  g[Key(p[i])] = Append(Key(p[i]), 1)
  <2>1. CASE pc'[1][r] = pc[1][r]
    BY <1>3, <1>4, <1>5, <2>1
  <2>2. CASE /\ Turn(1, r) /\ pc'[1][r] = pc[1][r] + 1
             /\ Call(1, r).do = "wait_issend" =>
                  buffer'[2][r].global[Key(Call(1, r))] = Append(Key(Call(1, r)), 1)
    <3>1. pc'[1][r] - 1 = n + 1
      BY <1>3, <2>2
    <3>2. i \in 1..n \/ i = n + 1
      BY <1>5, <3>1
    <3>3. Call(1, r) = p[n + 1]
      BY <1>1, <1>3 DEF Call
    <3>4. i = n + 1 => g[Key(p[i])] = Append(Key(p[i]), 1)
      BY <1>1, <1>5, <2>2, <3>3
    <3> QED BY <1>4, <1>5, <3>2, <3>4
  <2> QED BY <2>1, <2>2
<1>6. Prog(1)' = p
  BY <1>1, SameWorld
<1> QED BY <1>1, <1>5, <1>6 DEF Copied


\* The call of a rank, by what it does to the broadcasts, to the copies and to the arrays.
LEMMA ArraysAfter ==
  ASSUME world' = world, Delivered', \A c \in Codes : CastFits(c)',
         \A r \in Ranks : r = Root(1) /\ r = Root(2) => Copied(r)'
  PROVE  Arrays'
<1>1. Root(1)' = Root(1) /\ Root(2)' = Root(2)
  BY SameWorld
<1> QED BY <1>1 DEF Arrays

LEMMA CastsAfter ==
  ASSUME DataAssumption, Shapes, Arrays, world' = world, NEW c \in Codes, NEW r \in Ranks,
         Turn(c, r), Return(c, r), cast' = cast, Call(c, r).do # "wait_irecv" \/ r # Root(c)
  PROVE  \A d \in Codes : CastFits(d)'
<1>1. /\ pc'[c][r] = pc[c][r] + 1
      /\ \A d \in Codes, s \in Ranks : d # c \/ s # r => pc'[d][s] = pc[d][s]
  BY Returned
<1>2. ASSUME NEW d \in Codes PROVE CastFits(d)'
  <2>1. Root(d) \in Ranks
    BY RootFacts DEF Shapes
  <2>2. CastFits(d) /\ cast'[d] = cast[d]
    BY DEF Arrays
  <2>3. \/ pc'[d][Root(d)] = pc[d][Root(d)]
        \/ /\ Turn(d, Root(d)) /\ Call(d, Root(d)).do # "wait_irecv"
           /\ pc'[d][Root(d)] = pc[d][Root(d)] + 1
    <3>1. CASE d = c /\ Root(d) = r
      BY <1>1, <3>1
    <3>2. CASE d # c \/ Root(d) # r
      BY <1>1, <2>1, <3>2
    <3> QED BY <3>1, <3>2
  <2> QED BY <2>2, <2>3, CastStays
<1> QED BY <1>2

LEMMA CopiesAfter ==
  ASSUME DataAssumption, Shapes, Arrays, world' = world, NEW c \in Codes, NEW r \in Ranks,
         Turn(c, r), Return(c, r),
         \A s \in Ranks : s = Root(2) => \A key \in Keys :
           \/ buffer'[2][s].global[key] = buffer[2][s].global[key]
           \/ buffer'[2][s].global[key] = Append(key, 1),
         c = 1 /\ r = Root(1) /\ r = Root(2) /\ Call(c, r).do = "wait_issend" =>
           buffer'[2][r].global[Key(Call(c, r))] = Append(Key(Call(c, r)), 1)
  PROVE  \A s \in Ranks : s = Root(1) /\ s = Root(2) => Copied(s)'
<1>1. /\ pc'[c][r] = pc[c][r] + 1
      /\ \A d \in Codes, s \in Ranks : d # c \/ s # r => pc'[d][s] = pc[d][s]
  BY Returned
<1>2. ASSUME NEW s \in Ranks, s = Root(1), s = Root(2) PROVE Copied(s)'
  <2>1. Copied(s)
    BY <1>2 DEF Arrays
  <2>2. \A key \in Keys : \/ buffer'[2][s].global[key] = buffer[2][s].global[key]
                          \/ buffer'[2][s].global[key] = Append(key, 1)
    BY <1>2
  <2>3. \/ pc'[1][s] = pc[1][s]
        \/ /\ Turn(1, s) /\ pc'[1][s] = pc[1][s] + 1
           /\ Call(1, s).do = "wait_issend" =>
                buffer'[2][s].global[Key(Call(1, s))] = Append(Key(Call(1, s)), 1)
    <3>1. CASE c = 1 /\ r = s
      BY <1>1, <1>2, <3>1
    <3>2. CASE c # 1 \/ r # s
      BY <1>1, <3>2, CodeFacts
    <3> QED BY <3>1, <3>2
  <2> QED BY <2>1, <2>2, <2>3, CopiedAfter
<1> QED BY <1>2

\* The arrays into which the code of smaller id copies, as they were.
SameCopies ==
  \A s \in Ranks : s = Root(2) => \A key \in Keys :
    buffer'[2][s].global[key] = buffer[2][s].global[key]

LEMMA CopiesStay ==
  ASSUME DataAssumption, Shapes, Arrays, world' = world, NEW c \in Codes, NEW r \in Ranks,
         Turn(c, r), Return(c, r), SameCopies, Call(c, r).do # "wait_issend"
  PROVE  \A s \in Ranks : s = Root(1) /\ s = Root(2) => Copied(s)'
BY CopiesAfter DEF SameCopies

\* Calls that wait for no data, ...
NoWait(c, r) ==
  /\ Turn(c, r) /\ pc'[c][r] = pc[c][r] + 1
  /\ Call(c, r).do \notin GlobalWaits \cup {"part_wait_irecv"}

LEMMA QuietArrays ==
  ASSUME DataAssumption, Shapes, Frames, Frames', Arrays, world' = world,
         cast' = cast, buffer' = buffer,
         \A c \in Codes, r \in Ranks : pc'[c][r] = pc[c][r] \/ NoWait(c, r)
  PROVE  Arrays'
<1>1. ASSUME NEW d \in Codes, NEW s \in Ranks, NEW kind \in Kinds, NEW key \in Keys
      PROVE  Waited(d, s, kind, key)' = Waited(d, s, kind, key)
  <2>1. CASE pc'[d][s] = pc[d][s]
    BY <2>1, WaitedStays
  <2>2. CASE NoWait(d, s)
    <3>1. Turn(d, s) /\ pc'[d][s] = pc[d][s] + 1 /\ Call(d, s).do # WaitIrecv(kind)
      BY <2>2 DEF NoWait, GlobalWaits, WaitIrecv
    <3> QED BY <3>1, WaitedNext
  <2> QED BY <2>1, <2>2
<1>2. Delivered'
  <2>1. world \in Worlds /\ Delivered
    BY DEF Shapes, Arrays
  <2> QED BY <1>1, <2>1, DeliveredQuiet
<1>3. ASSUME NEW d \in Codes PROVE CastFits(d)'
  <2>1. Root(d) \in Ranks
    BY RootFacts DEF Shapes
  <2>2. CastFits(d) /\ cast'[d] = cast[d]
    BY DEF Arrays
  <2>3. \/ pc'[d][Root(d)] = pc[d][Root(d)]
        \/ /\ Turn(d, Root(d)) /\ Call(d, Root(d)).do # "wait_irecv"
           /\ pc'[d][Root(d)] = pc[d][Root(d)] + 1
    BY <2>1 DEF NoWait, GlobalWaits
  <2> QED BY <2>2, <2>3, CastStays
<1>4. ASSUME NEW s \in Ranks, s = Root(1), s = Root(2) PROVE Copied(s)'
  <2>1. Copied(s)
    BY <1>4 DEF Arrays
  <2>2. \/ pc'[1][s] = pc[1][s]
        \/ /\ Turn(1, s) /\ pc'[1][s] = pc[1][s] + 1
           /\ Call(1, s).do = "wait_issend" =>
                buffer'[2][s].global[Key(Call(1, s))] = Append(Key(Call(1, s)), 1)
    BY CodeFacts DEF NoWait, GlobalWaits
  <2> QED BY <2>1, <2>2, CopiedAfter
<1> QED BY <1>2, <1>3, <1>4, ArraysAfter

\* ... for data that are sent, which the code of smaller id copies on a common root, ...
LEMMA SentArrays ==
  ASSUME DataAssumption, Shapes, Frames, Frames', Fits, Used, Arrays,
         NEW c \in Codes, NEW r \in Ranks, globalDataWaitIssend(c, r)
  PROVE  Arrays'
<1>1. PICK o \in Codes : o = Other(c) /\ Other(o) = c /\ o # c
  BY CodeFacts
<1>2. PICK key, id : key = Key(Call(c, r)) /\ id = Call(c, r).id
  OBVIOUS
<1>3. /\ Turn(c, r) /\ Call(c, r).do = "wait_issend" /\ Return(c, r)
      /\ world' = world /\ cast' = cast /\ world \in Worlds /\ Delivered
      /\ Copies(c, r) => buffer' = [buffer EXCEPT ![o][r].global[key] = global[c][r][id].data]
      /\ ~Copies(c, r) => buffer' = buffer
  BY <1>1, <1>2 DEF globalDataWaitIssend, Calls, mpi, Shapes, Arrays
<1>4. \A kind : Call(c, r).do # WaitIrecv(kind)
  BY <1>3 DEF WaitIrecv
<1>5. ASSUME NEW d \in Codes, NEW s \in Ranks, NEW kind, NEW k
      PROVE  Waited(d, s, kind, k)' = Waited(d, s, kind, k)
  <2>1. CountsOnly(c, r)
    BY <1>3, WaitedElsewhere
  <2>2. Call(c, r).do # WaitIrecv(kind)
    BY <1>4
  <2> QED BY <2>1, <2>2 DEF CountsOnly
<1>6. \A d \in Codes : CastFits(d)'
  <2>1. Call(c, r).do # "wait_irecv"
    BY <1>3
  <2> QED BY <1>3, <2>1, CastsAfter
<1>7. CASE ~Copies(c, r)
  <2>1. buffer' = buffer
    BY <1>3, <1>7
  <2>2. Delivered'
    BY <1>3, <1>5, <2>1, DeliveredQuiet
  <2>3. ~(c = 1 /\ r = Root(1) /\ r = Root(2))
    BY <1>1, <1>7, CodeFacts DEF Copies
  <2>4. \A s \in Ranks : s = Root(1) /\ s = Root(2) => Copied(s)'
    BY <1>3, <2>1, <2>3, CopiesAfter
  <2> QED BY <1>3, <1>6, <2>2, <2>4, ArraysAfter
<1>8. CASE Copies(c, r)
  <2>1. c = 1 /\ o = 2 /\ r = Root(2) /\ "global" \in Kinds
    BY <1>1, <1>8, CodeFacts DEF Copies, Kinds
  <2>2. r \in Holds(o)
    BY <1>1, <1>3, <2>1, RootFacts
  <2>3. key \in Keys
    BY <1>2, <1>3, <2>1, CallEnvelope
  <2>4. global[c][r][id].data = Append(key, 1)
    <3>1. Call(c, r).do \in GlobalWaits
      BY <1>3 DEF GlobalWaits
    <3> QED BY <1>2, <1>3, <3>1, WaitedFor
  <2>5. PICK v : v = Append(key, 1)
    OBVIOUS
  <2>6. Written(o, r, key, "global", v)
    BY <1>3, <1>8, <2>4, <2>5 DEF Written
  <2>7. Waited(o, r, "global", key) \in {0, 1}
    <3>1. PICK p, m : p = Prog(o) /\ m = pc[o][r] - 1
      OBVIOUS
    <3>2. Len(p) \in Nat /\ pc[o][r] \in 1..Len(p) + 1
      BY <1>1, <3>1, WorldFacts DEF Shapes
    <3>3. m \in Nat /\ m <= Len(p)
      BY <3>1, <3>2
    <3>4. \A i \in 1..m : i \in 1..Len(p)
      BY <3>2, <3>3
    <3>5. \A i \in 1..m : GlobalUse(p, i)
      BY <1>1, <3>1, <3>4, UseFacts
    <3>6. \A k : Times(p, m, "wait_irecv", k) \in {0, 1}
      BY <3>3, <3>5, WaitOnce
    <3> QED BY <3>1, <3>6 DEF Waited, WaitIrecv
  <2>8. Waited(o, r, "global", key)' > 0 =>
          v = Due(Elts(o, r), "global", Append(key, Waited(o, r, "global", key)'))
    <3>1. Waited(o, r, "global", key)' \in {0, 1}
      BY <1>1, <1>5, <2>7
    <3> QED BY <2>5, <3>1 DEF Due
  <2>9. Delivered'
    <3>1. NothingElse(o, r, "global", key)
      BY <1>5 DEF NothingElse
    <3> QED BY <1>1, <1>3, <2>1, <2>3, <2>6, <2>8, <3>1, DeliveredWritten
  <2>10. /\ buffer'[2][r].global[key] = v
         /\ \A s \in Ranks : \A k \in Keys :
              s # r \/ k # key => buffer'[2][s].global[k] = buffer[2][s].global[k]
    <3>1. /\ buffer'[o][r]["global"][key] = v
          /\ \A d \in Codes, s \in Ranks : \A l \in Kinds : \A k \in Keys :
               d # o \/ s # r \/ l # "global" \/ k # key => buffer'[d][s][l][k] = buffer[d][s][l][k]
      <4>1. WroteOnly(o, r, key, "global", v)
        BY <1>1, <2>1, <2>3, <2>6, OneWritten
      <4> QED BY <4>1 DEF WroteOnly
    <3> QED BY <1>1, <2>1, <3>1
  <2>11. \A s \in Ranks : s = Root(1) /\ s = Root(2) => Copied(s)'
    <3>1. \A s \in Ranks : s = Root(2) => \A k \in Keys :
            \/ buffer'[2][s].global[k] = buffer[2][s].global[k]
            \/ buffer'[2][s].global[k] = Append(k, 1)
      BY <2>5, <2>10
    <3>2. c = 1 /\ r = Root(1) /\ r = Root(2) /\ Call(c, r).do = "wait_issend" =>
            buffer'[2][r].global[Key(Call(c, r))] = Append(Key(Call(c, r)), 1)
      BY <1>2, <2>5, <2>10
    <3> QED BY <1>3, <3>1, <3>2, CopiesAfter
  <2> QED BY <1>3, <1>6, <2>9, <2>11, ArraysAfter
<1> QED BY <1>7, <1>8


\* A call that waits for data, and writes those of its exchange.
LEMMA DeliveredWaited ==
  ASSUME DataAssumption, Shapes, world' = world, Frames, Frames', Delivered,
         NEW c \in Codes, NEW r \in Ranks, Turn(c, r), Return(c, r),
         NEW kind \in Kinds, Call(c, r).do = WaitIrecv(kind), NEW key, key = Key(Call(c, r)),
         NEW v, v = Due(Elts(c, r), kind, Append(key, Times(Prog(c), pc[c][r], WaitIrecv(kind), key))),
         Written(c, r, key, kind, v)
  PROVE  Delivered'
<1>1. key \in Keys /\ world \in Worlds
  BY CallEnvelope DEF Shapes
<1>2. Waited(c, r, kind, key)' = Times(Prog(c), pc[c][r], WaitIrecv(kind), key)
  <2>1. pc'[c][r] = pc[c][r] + 1
    BY Returned
  <2> QED BY <2>1, WaitedNext
<1>3. ASSUME NEW d \in Codes, NEW s \in Ranks, NEW l \in Kinds, NEW k \in Keys,
             d # c \/ s # r \/ l # kind \/ k # key
      PROVE  Waited(d, s, l, k)' = Waited(d, s, l, k)
  <2>1. CountsOnly(c, r)
    BY WaitedElsewhere
  <2>2. WaitIrecv(l) = WaitIrecv(kind) => l = kind
    BY DEF WaitIrecv, Kinds
  <2>3. d # c \/ s # r \/ Call(c, r).do # WaitIrecv(l) \/ Key(Call(c, r)) # k
    BY <1>3, <2>2
  <2> QED BY <2>1, <2>3 DEF CountsOnly
<1>4. Waited(c, r, kind, key)' > 0 => v = Due(Elts(c, r), kind, Append(key, Waited(c, r, kind, key)'))
  BY <1>2
<1>5. NothingElse(c, r, kind, key)
  BY <1>3 DEF NothingElse
<1> QED BY <1>1, <1>4, <1>5, DeliveredWritten

\* ... of the root for global data, which it broadcasts, ...
LEMMA RootArrays ==
  ASSUME DataAssumption, Shapes, Frames, Frames', Fits, Used, Agree, Arrays,
         NEW c \in Codes, NEW r \in Ranks, RootWaitIrecv(c, r)
  PROVE  Arrays'
<1>1. PICK key, v : key = Key(Call(c, r)) /\ v = Append(key, 1)
  OBVIOUS
<1>2. /\ Turn(c, r) /\ Call(c, r).do = "wait_irecv" /\ Return(c, r) /\ r = Root(c)
      /\ world' = world /\ world \in Worlds /\ Delivered
  BY DEF RootWaitIrecv, Calls, Shapes, Arrays
<1>3. Received(c, r, Call(c, r)) = v
  <2>1. Known(c, r)
    BY DEF RootWaitIrecv
  <2>2. Posts(c, r) => Arrived(Other(c), Root(Other(c)), global[c][r][Call(c, r).id].req)
    BY DEF RootWaitIrecv
  <2> QED BY <1>1, <1>2, <2>1, <2>2, ReceivedFits
<1>4. Written(c, r, key, "global", v) /\ cast' = [cast EXCEPT ![c] = Append(cast[c], v)]
  BY <1>1, <1>3 DEF RootWaitIrecv, Written
<1>5. "global" \in Kinds /\ "part" \in Kinds /\ key \in Keys /\ WaitIrecv("global") = "wait_irecv"
      /\ WaitIrecv("part") = "part_wait_irecv" /\ Kinds = {"global", "part"}
  BY <1>1, <1>2, CallEnvelope DEF Kinds, WaitIrecv
<1>6. Times(Prog(c), pc[c][r], "wait_irecv", key) = 1 /\ Data(c, r) = v
  <2>1. PICK p, k : p = Prog(c) /\ k = Call(c, r)
    OBVIOUS
  <2>2. PICK n \in Nat :
          /\ pc[c][r] = n + 1 /\ n + 1 \in 1..Len(p) /\ k = p[n + 1] /\ Data(c, r) = Item(p, n + 1)
    BY <1>2, <2>1, NextCall
  <2>3. PICK i \in Nat : i = n + 1 /\ i \in 1..i /\ \A j \in 1..i : j \in 1..Len(p)
    <3>1. Len(p) \in Nat
      BY <2>1, WorldFacts DEF Shapes
    <3> QED BY <2>2, <3>1
  <2>4. \A j \in 1..i : GlobalUse(p, j)
    BY <2>1, <2>3, UseFacts
  <2>5. p[i].do = "wait_irecv" /\ p[i].do \in GlobalWaits /\ Key(p[i]) = key
    BY <1>1, <1>2, <2>1, <2>2, <2>3 DEF GlobalWaits
  <2>6. Item(p, i) = Append(Key(p[i]), 1) /\ Times(p, i, p[i].do, Key(p[i])) = 1
    BY <2>3, <2>4, <2>5, WaitOnce
  <2> QED BY <1>1, <2>1, <2>2, <2>3, <2>5, <2>6
<1>7. Delivered'
  <2>1. v = Due(Elts(c, r), "global", Append(key, Times(Prog(c), pc[c][r], WaitIrecv("global"), key)))
    BY <1>1, <1>5, <1>6 DEF Due
  <2>2. Call(c, r).do = WaitIrecv("global")
    BY <1>2, <1>5
  <2> QED BY <1>1, <1>2, <1>4, <1>5, <2>1, <2>2, DeliveredWaited
<1>8. \A d \in Codes : CastFits(d)'
  <2>1. DOMAIN cast = Codes /\ \A d \in Codes : CastFits(d)
    BY DEF Frames, Arrays
  <2>2. cast'[c] = Append(cast[c], v) /\ \A d \in Codes : d # c => cast'[d] = cast[d]
    BY <1>4, <2>1
  <2>3. CastFits(c)'
    <3>1. pc'[c][Root(c)] = pc[c][Root(c)] + 1
      BY <1>2, Returned
    <3>2. cast'[c] = Append(cast[c], Data(c, Root(c)))
      BY <1>2, <1>6, <2>2
    <3> QED BY <1>2, <2>1, <3>1, <3>2, CastMore
  <2>4. ASSUME NEW d \in Codes, d # c PROVE CastFits(d)'
    <3>1. pc'[d][Root(d)] = pc[d][Root(d)]
      <4>1. Root(d) \in Ranks
        BY <1>2, RootFacts
      <4>2. \A e \in Codes, s \in Ranks : e # c \/ s # r => pc'[e][s] = pc[e][s]
        BY <1>2, Returned
      <4> QED BY <2>4, <4>1, <4>2
    <3> QED BY <1>2, <2>1, <2>2, <2>4, <3>1, CastStays
  <2> QED BY <2>3, <2>4
<1>9. \A s \in Ranks : s = Root(1) /\ s = Root(2) => Copied(s)'
  <2>1. /\ buffer'[c][r].global[key] = v
        /\ \A d \in Codes, s \in Ranks : \A k \in Keys :
             d # c \/ s # r \/ k # key => buffer'[d][s].global[k] = buffer[d][s].global[k]
    <3>1. /\ buffer'[c][r]["global"][key] = v
          /\ \A d \in Codes, s \in Ranks : \A l \in Kinds : \A k \in Keys :
               d # c \/ s # r \/ l # "global" \/ k # key => buffer'[d][s][l][k] = buffer[d][s][l][k]
      <4>1. WroteOnly(c, r, key, "global", v)
        BY <1>4, <1>5, OneWritten
      <4> QED BY <4>1 DEF WroteOnly
    <3> QED BY <1>5, <3>1
  <2>2. \A s \in Ranks : s = Root(2) => \A k \in Keys :
          \/ buffer'[2][s].global[k] = buffer[2][s].global[k]
          \/ buffer'[2][s].global[k] = Append(k, 1)
    <3>1. ASSUME NEW s \in Ranks, NEW k \in Keys
          PROVE  \/ buffer'[2][s].global[k] = buffer[2][s].global[k]
                 \/ buffer'[2][s].global[k] = Append(k, 1)
      <4>1. CASE c = 2 /\ s = r /\ k = key
        BY <1>1, <2>1, <4>1
      <4>2. CASE c # 2 \/ s # r \/ k # key
        <5>1. 2 \in Codes
          BY CodeFacts
        <5> QED BY <2>1, <4>2, <5>1
      <4> QED BY <4>1, <4>2
    <3> QED BY <3>1
  <2>3. Call(c, r).do # "wait_issend"
    BY <1>2
  <2> QED BY <1>2, <2>2, <2>3, CopiesAfter
<1> QED BY <1>2, <1>7, <1>8, <1>9, ArraysAfter

\* ... of another rank for what the root has broadcast, ...
LEMMA CastArrays ==
  ASSUME DataAssumption, Shapes, Frames, Frames', Arrays,
         NEW c \in Codes, NEW r \in Ranks, globalDataWaitIrecv(c, r)
  PROVE  Arrays'
<1>1. PICK key, v : key = Key(Call(c, r)) /\ v = cast[c][Casts(c, r)]
  OBVIOUS
<1>2. /\ Turn(c, r) /\ Call(c, r).do = "wait_irecv" /\ Return(c, r) /\ r # Root(c)
      /\ world' = world /\ world \in Worlds /\ Delivered /\ cast' = cast
      /\ Len(cast[c]) >= Casts(c, r) /\ Written(c, r, key, "global", v)
  BY <1>1 DEF globalDataWaitIrecv, Calls, Shapes, Arrays, mpi, Written
<1>3. "global" \in Kinds /\ "part" \in Kinds /\ key \in Keys /\ WaitIrecv("global") = "wait_irecv"
      /\ WaitIrecv("part") = "part_wait_irecv" /\ Kinds = {"global", "part"}
  BY <1>1, <1>2, CallEnvelope DEF Kinds, WaitIrecv
<1>4. v = Append(key, Times(Prog(c), pc[c][r], "wait_irecv", key))
  <2>1. PICK p, s : p = Prog(c) /\ s = cast[c]
    OBVIOUS
  <2>2. PICK i : i = pc[c][r] /\ i \in 1..Len(p) /\ p[i] = Call(c, r)
    <3>1. pc[c][r] \in 1..Len(Prog(c)) /\ Call(c, r) = Prog(c)[pc[c][r]]
      BY <1>2, Turns
    <3> QED BY <2>1, <3>1
  <2>3. Casts(c, r) = CastsIn(p, i)
    BY <2>1, <2>2 DEF Casts, CastsIn
  <2>4. CastsIn(p, i) <= Len(s)
    <3>1. Len(s) \in Nat
      <4>1. s \in Seq(Range(s))
        BY <2>1 DEF Arrays, CastFits
      <4> QED BY <4>1
    <3>2. CastsIn(p, i) \in Nat
      <4>1. Len(p) \in Nat
        BY <2>1, WorldFacts DEF Shapes
      <4>2. i \in Nat
        BY <2>2, <4>1
      <4> QED BY <4>2, CastsFacts
    <3> QED BY <1>2, <2>1, <2>3, <3>1, <3>2
  <2>5. s[CastsIn(p, i)] = Item(p, i)
    BY <1>2, <2>1, <2>2, <2>4 DEF Arrays, CastFits
  <2> QED BY <1>1, <1>2, <2>1, <2>2, <2>3, <2>5 DEF Item
<1>5. Delivered'
  <2>1. v = Due(Elts(c, r), "global", Append(key, Times(Prog(c), pc[c][r], WaitIrecv("global"), key)))
    BY <1>3, <1>4 DEF Due
  <2>2. Call(c, r).do = WaitIrecv("global")
    BY <1>2, <1>3
  <2> QED BY <1>1, <1>2, <1>3, <2>1, <2>2, DeliveredWaited
<1>6. \A d \in Codes : CastFits(d)'
  BY <1>2, CastsAfter
<1>7. \A s \in Ranks : s = Root(1) /\ s = Root(2) => Copied(s)'
  <2>1. SameCopies
    <3>1. /\ buffer'[c][r]["global"][key] = v
          /\ \A d \in Codes, s \in Ranks : \A l \in Kinds : \A k \in Keys :
               d # c \/ s # r \/ l # "global" \/ k # key => buffer'[d][s][l][k] = buffer[d][s][l][k]
      <4>1. WroteOnly(c, r, key, "global", v)
        BY <1>2, <1>3, OneWritten
      <4> QED BY <4>1 DEF WroteOnly
    <3>2. ASSUME NEW s \in Ranks, s = Root(2), NEW k \in Keys
          PROVE  buffer'[2][s]["global"][k] = buffer[2][s]["global"][k]
      <4>1. (2 # c \/ s # r) /\ 2 \in Codes
        BY <1>2, <3>2, CodeFacts
      <4> QED BY <1>3, <3>1, <4>1
    <3> QED BY <3>2 DEF SameCopies
  <2>2. Call(c, r).do # "wait_issend"
    BY <1>2
  <2> QED BY <1>2, <2>1, <2>2, CopiesStay
<1> QED BY <1>2, <1>5, <1>6, <1>7, ArraysAfter


\* ... and for partitioned data.
LEMMA PartArrays ==
  ASSUME DataAssumption, Shapes, Frames, Frames', Fits, Used, Agree, Paces, Arrays,
         NEW c \in Codes, NEW r \in Ranks, partDataWaitIrecv(c, r)
  PROVE  Arrays'
<1>1. PICK u \in {0, 1} :
        buffer' = [buffer EXCEPT ![c][r].part[Key(Call(c, r))] =
                     recv_data_filter(c, r, Gathered(c, r), u)]
  BY DEF partDataWaitIrecv
<1>2. PICK key, v : key = Key(Call(c, r)) /\ v = recv_data_filter(c, r, Gathered(c, r), u)
  OBVIOUS
<1>3. /\ Turn(c, r) /\ Call(c, r).do = "part_wait_irecv" /\ Return(c, r)
      /\ world' = world /\ world \in Worlds /\ Delivered /\ cast' = cast
      /\ Written(c, r, key, "part", v)
  BY <1>1, <1>2 DEF partDataWaitIrecv, Waits, Calls, Shapes, Arrays, mpi, Written
<1>4. "global" \in Kinds /\ "part" \in Kinds /\ key \in Keys /\ WaitIrecv("part") = "part_wait_irecv"
  BY <1>2, <1>3, CallEnvelope DEF Kinds, WaitIrecv
<1>5. v = Due(Elts(c, r), "part", Append(key, Times(Prog(c), pc[c][r], "part_wait_irecv", key)))
  <2>1. /\ Waits(c, r, "part_wait_irecv")
        /\ \A s \in Linked(c, r) : Arrived(Other(c), s, Asked(c, r))
    BY DEF partDataWaitIrecv
  <2> QED BY <1>2, <2>1, PartFiltered
<1>6. Delivered'
  <2>1. v = Due(Elts(c, r), "part", Append(key, Times(Prog(c), pc[c][r], WaitIrecv("part"), key)))
    BY <1>4, <1>5
  <2>2. Call(c, r).do = WaitIrecv("part")
    BY <1>3, <1>4
  <2> QED BY <1>2, <1>3, <1>4, <2>1, <2>2, DeliveredWaited
<1>7. \A d \in Codes : CastFits(d)'
  <2>1. Call(c, r).do # "wait_irecv"
    BY <1>3
  <2> QED BY <1>3, <2>1, CastsAfter
<1>8. \A e \in Ranks : e = Root(1) /\ e = Root(2) => Copied(e)'
  <2>1. SameCopies
    <3>1. /\ buffer'[c][r]["part"][key] = v
          /\ \A d \in Codes, e \in Ranks : \A l \in Kinds : \A k \in Keys :
               d # c \/ e # r \/ l # "part" \/ k # key => buffer'[d][e][l][k] = buffer[d][e][l][k]
      <4>1. WroteOnly(c, r, key, "part", v)
        BY <1>3, <1>4, OneWritten
      <4> QED BY <4>1 DEF WroteOnly
    <3>2. ASSUME NEW e \in Ranks, NEW k \in Keys
          PROVE  buffer'[2][e]["global"][k] = buffer[2][e]["global"][k]
      <4>1. "global" # "part" /\ 2 \in Codes
        BY CodeFacts
      <4> QED BY <1>4, <3>1, <4>1
    <3> QED BY <3>2 DEF SameCopies
  <2>2. Call(c, r).do # "wait_issend"
    BY <1>3
  <2> QED BY <1>3, <2>1, <2>2, CopiesStay
<1> QED BY <1>3, <1>6, <1>7, <1>8, ArraysAfter

\* The arrays hold what they should after every step.
LEMMA ArraysStep ==
  ASSUME DataAssumption, Shapes, Frames, Fits, Used, Agree, Paces, Arrays, [Next]_vars
  PROVE  Arrays'
<1>1. Frames'
  BY FramesStep
<1>2. ASSUME NEW c \in Codes, NEW r \in Ranks,
             \/ globalDataIssend(c, r) \/ globalDataIrecv(c, r)
             \/ CreateFirst(c, r) \/ partDataDel(c, r)
             \/ partDataIssend(c, r) \/ partDataIrecv(c, r) \/ partDataWaitIssend(c, r) \/ Pass(c, r)
      PROVE  Arrays'
  <2>1. /\ Turn(c, r) /\ Return(c, r) /\ world' = world /\ cast' = cast /\ buffer' = buffer
        /\ Call(c, r).do \notin GlobalWaits \cup {"part_wait_irecv"}
    <3> DEFINE WaitsForNone ==
           /\ Return(c, r) /\ world' = world /\ cast' = cast /\ buffer' = buffer
           /\ \E do : Calls(c, r, do) /\ do \notin GlobalWaits \cup {"part_wait_irecv"}
    <3>1. ASSUME globalDataIssend(c, r) \/ globalDataIrecv(c, r) PROVE WaitsForNone
      BY <3>1 DEF globalDataIssend, globalDataIrecv, mpi, GlobalWaits
    <3>2. ASSUME CreateFirst(c, r) \/ partDataDel(c, r) PROVE WaitsForNone
      BY <3>2 DEF CreateFirst, partDataDel, mpi, GlobalWaits
    <3>3. ASSUME partDataIssend(c, r) \/ partDataIrecv(c, r) PROVE WaitsForNone
      BY <3>3 DEF partDataIssend, partDataIrecv, mpi, GlobalWaits
    <3>4. ASSUME partDataWaitIssend(c, r) \/ Pass(c, r) PROVE WaitsForNone
      BY <3>4 DEF partDataWaitIssend, Pass, Waits, mpi, GlobalWaits
    <3>5. WaitsForNone
      BY <1>2, <3>1, <3>2, <3>3, <3>4
    <3> QED BY <3>5 DEF Calls
  <2>2. /\ pc'[c][r] = pc[c][r] + 1
        /\ \A d \in Codes, s \in Ranks : d # c \/ s # r => pc'[d][s] = pc[d][s]
    BY <2>1, Returned
  <2>3. \A d \in Codes, s \in Ranks : pc'[d][s] = pc[d][s] \/ NoWait(d, s)
    BY <2>1, <2>2 DEF NoWait
  <2> QED BY <1>1, <2>1, <2>3, QuietArrays
<1>3. CASE partDataCreate
  <2>1. world' = world /\ cast' = cast /\ buffer' = buffer
    BY <1>3 DEF partDataCreate, mpi
  <2>2. ASSUME NEW d \in Codes, NEW s \in Ranks PROVE pc'[d][s] = pc[d][s] \/ NoWait(d, s)
    <3>1. pc'[d][s] = IF s \in Holds(d) /\ Creates(d, s) THEN pc[d][s] + 1 ELSE pc[d][s]
      BY <1>3 DEF partDataCreate
    <3>2. Creates(d, s) => Turn(d, s) /\ Call(d, s).do \notin GlobalWaits \cup {"part_wait_irecv"}
      BY DEF Creates, Calls, GlobalWaits
    <3> QED BY <3>1, <3>2 DEF NoWait
  <2> QED BY <1>1, <2>1, <2>2, QuietArrays
<1>4. CASE UNCHANGED vars
  <2>1. world' = world /\ cast' = cast /\ buffer' = buffer /\ pc' = pc
    BY <1>4 DEF vars, mpi
  <2>2. \A d \in Codes, s \in Ranks : pc'[d][s] = pc[d][s]
    BY <2>1
  <2> QED BY <1>1, <2>1, <2>2, QuietArrays
<1>5. ASSUME NEW c \in Codes, NEW r \in Ranks, globalDataWaitIssend(c, r) PROVE Arrays'
  BY <1>1, <1>5, SentArrays
<1>6. ASSUME NEW c \in Codes, NEW r \in Ranks, RootWaitIrecv(c, r) PROVE Arrays'
  BY <1>1, <1>6, RootArrays
<1>7. ASSUME NEW c \in Codes, NEW r \in Ranks, globalDataWaitIrecv(c, r) PROVE Arrays'
  BY <1>1, <1>7, CastArrays
<1>8. ASSUME NEW c \in Codes, NEW r \in Ranks, partDataWaitIrecv(c, r) PROVE Arrays'
  BY <1>1, <1>8, PartArrays
<1> QED BY <1>2, <1>3, <1>4, <1>5, <1>6, <1>7, <1>8 DEF Next, Step, Terminated


-----------------------------------------------------------------------------
(* The invariant.  *)

LEMMA FitsAtFirst ==
  ASSUME DataAssumption, Init
  PROVE  Frames /\ Fits
<1>1. /\ world \in Worlds
      /\ pc = [c \in Codes |-> [r \in Ranks |-> 1]]
      /\ global = [c \in Codes |-> [r \in Ranks |-> [i \in {} |-> NoData]]]
      /\ part = [c \in Codes |-> [r \in Ranks |-> [i \in {} |-> NoData]]]
      /\ sent = [c \in Codes |-> [r \in Ranks |-> [env \in Envelopes |-> <<>>]]]
      /\ wanted = [c \in Codes |-> [r \in Ranks |-> [env \in Envelopes |-> 0]]]
      /\ cast = [c \in Codes |-> <<>>]
      /\ buffer = [c \in Codes |-> [r \in Ranks |-> Unfilled]]
  BY DEF Init
<1>2. Frames
  <2>1. DOMAIN Unfilled = Kinds /\ \A kind \in Kinds : DOMAIN Unfilled[kind] = Keys
    BY DEF Unfilled, Keys
  <2> QED BY <1>1, <2>1 DEF Frames
<1>3. ASSUME NEW c \in Codes, NEW r \in Ranks, r \in Holds(c) PROVE RankFits(c, r)
  <2>1. PICK p, t, s, m, posts :
          /\ p = Prog(c) /\ t = [i \in {} |-> NoData] /\ s = sent[c][r] /\ m = wanted[c][r]
          /\ posts = Posts(c, r)
    OBVIOUS
  <2>2. pc[c][r] - 1 = 0 /\ global[c][r] = t /\ part[c][r] = t
    BY <1>1, <2>1
  <2>3. DOMAIN t = {} /\ 1..0 = {}
    BY <2>1
  <2>4. GlobalFits(p, 0, t, posts) /\ ObjectsFit(p, 0, t) /\ RequestsFit(p, 0, t)
    BY <2>3 DEF GlobalFits, ObjectsFit, RequestsFit
  <2>5. ASSUME NEW env \in Envelopes PROVE StreamFits(p, 0, s[env], m[env], posts, env)
    <3>1. s[env] = <<>> /\ m[env] = 0
      BY <1>1, <2>1
    <3>2. \A do : Nth(p, 0, do, env) = 0
      BY NthFacts
    <3>3. <<>> \in Seq(Range(<<>>)) /\ Len(<<>>) = 0 /\ 1..Len(<<>>) = {}
      OBVIOUS
    <3>4. QueueFits(p, 0, <<>>, Issend(env[1]), env)
      BY <3>3 DEF QueueFits
    <3> QED BY <3>1, <3>2, <3>3, <3>4 DEF StreamFits
  <2>6. RowFits(p, 0, t, t, s, m, posts, Envelopes)
    BY <2>4, <2>5 DEF RowFits
  <2> QED BY <2>1, <2>2, <2>6 DEF RankFits
<1> QED BY <1>2, <1>3 DEF Fits

LEMMA ArraysAtFirst ==
  ASSUME DataAssumption, Init
  PROVE  Paces /\ Arrays
<1>1. /\ world \in Worlds
      /\ pc = [c \in Codes |-> [r \in Ranks |-> 1]]
      /\ cast = [c \in Codes |-> <<>>]
  BY DEF Init
<1>2. \A c \in Codes, r \in Ranks : pc[c][r] - 1 = 0
  BY <1>1
<1>3. \A p, do, key : Times(p, 0, do, key) = 0
  BY TimesFacts
<1>4. 1..0 = {}
  OBVIOUS
<1>5. Paces
  <2>1. \A p, key : InTurn(p, 0, key)
    BY <1>3, <1>4 DEF InTurn
  <2>2. ASSUME NEW c \in Codes, NEW r \in Ranks, NEW key PROVE InTurn(Prog(c), pc[c][r] - 1, key)
    <3>1. pc[c][r] - 1 = 0
      BY <1>2
    <3>2. InTurn(Prog(c), 0, key)
      BY <2>1
    <3> QED BY <3>1, <3>2
  <2> QED BY <2>2 DEF Paces
<1>6. ASSUME NEW c \in Codes PROVE CastFits(c)
  <2>1. PICK p : p = Prog(c) /\ Len(p) \in Nat
    BY <1>1, WorldFacts
  <2>2. pc[c][Root(c)] - 1 = 0
    BY <1>1, <1>2, RootFacts
  <2>3. CastsIn(p, 0) = 0
    BY CastsFacts
  <2>4. ASSUME NEW i \in 1..Len(p), p[i].do = "wait_irecv" PROVE ~(CastsIn(p, i) <= 0)
    <3>1. i \in Nat /\ i \in 1..i
      BY <2>1
    <3>2. CastsIn(p, i) \in Nat /\ CastsIn(p, i) >= 1
      BY <2>4, <3>1, CastsFacts
    <3> QED BY <3>2
  <2>5. cast[c] = <<>> /\ Len(<<>>) = 0 /\ <<>> \in Seq(Range(<<>>))
    BY <1>1
  <2> QED BY <2>1, <2>2, <2>3, <2>4, <2>5 DEF CastFits
<1>7. ASSUME NEW r \in Ranks PROVE Copied(r)
  <2>1. pc[1][r] - 1 = 0
    BY <1>2, CodeFacts
  <2> QED BY <1>4, <2>1 DEF Copied
<1>8. Delivered
  <2>1. \A c \in Codes : Holds(c) \subseteq Ranks
    BY <1>1 DEF DataAssumption, Holds
  <2>2. ASSUME NEW c \in Codes, NEW r \in Holds(c), NEW kind, NEW key
        PROVE  ~(Times(Prog(c), pc[c][r] - 1, WaitIrecv(kind), key) > 0)
    <3>1. pc[c][r] - 1 = 0
      BY <1>2, <2>1
    <3> QED BY <1>3, <3>1
  <2> QED BY <2>2 DEF Delivered
<1> QED BY <1>5, <1>6, <1>7, <1>8 DEF Arrays

LEMMA DeliveryKept ==
  ASSUME DataAssumption, IInv, DInv, [Next]_vars
  PROVE  DInv'
<1>1. Shapes /\ AllPosted /\ Frames /\ Fits
  BY DEF IInv, DInv
<1>2. Used' = Used /\ Agree' = Agree /\ (Agree => Used)
  <2>1. world' = world
    BY <1>1, CallsMade
  <2>2. Agree => Used
    BY DEF Agree, Used
  <2> QED BY <2>1, <2>2, SameKeys
<1>3. Frames' /\ Fits'
  BY <1>1, FramesStep, FitsStep
<1>4. Used => Paces'
  BY <1>1, PacesStep DEF DInv
<1>5. Agree => Arrays'
  BY <1>1, <1>2, ArraysStep DEF DInv
<1> QED BY <1>2, <1>3, <1>4, <1>5 DEF DInv

\* What a rank has is, after every step, that of the calls it has made.
THEOREM FitsAlways == Spec => []DInv
<1>1. Init => DInv
  BY DataAssumption, FitsAtFirst, ArraysAtFirst DEF DInv
<1>2. IInv /\ DInv /\ [Next]_vars => DInv'
  BY DataAssumption, DeliveryKept
<1> QED BY <1>1, <1>2, Invariance, PTL DEF Spec

\* In programs that use the functions as the code asks (an identifier of global data
\* once, a wait after its start, an object in its direction and between its creation
\* and its deletion) no rank is refused a call, in whatever order the ranks advance.
THEOREM NothingRefused == Spec => [](WellUsed(world) => NotRefused)
<1>1. IInv /\ DInv => (WellUsed(world) => NotRefused)
  BY DataAssumption, Accepted DEF IInv, DInv, Used
<1> QED BY <1>1, Invariance, FitsAlways, PTL

\* If the codes also agree on what they exchange under a tag, the sender comes first on a
\* common root, and each element of a part is on one rank of the other code (OneOrigin),
\* the array of a rank holds the data of the last exchange it has waited for, those of a
\* part element by element, whatever tags are shared, whichever order messages are waited
\* for in and whether recv_data_filter moves the items or not.
THEOREM DataDelivered == Spec => [](WellUsed(world) /\ Matched(world) => Delivered)
<1>1. DInv => (WellUsed(world) /\ Matched(world) => Delivered)
  BY DEF DInv, Agree, Arrays
<1> QED BY <1>1, FitsAlways, PTL
=============================================================================

------------------------- MODULE DataExchange_proofs -------------------------
(***************************************************************************)
(* Proofs about DataExchange, for any ranks, any distribution of the codes *)
(* over them and any programs whose creations and deletions of partitioned *)
(* data a rank of both codes makes for both of them at once: the types,    *)
(* and that every protocol is freed once, by one of the codes of a rank,   *)
(* and not used by either of them after that.                              *)
(*                                                                         *)
(* The inductive invariant compares, on every rank, the protocols of its   *)
(* objects with those it has freed: together they are those that have been *)
(* created, none of them twice.  A rank of both codes has two tables, and  *)
(* InStep says how they differ while one of its codes is a call ahead.     *)
(***************************************************************************)
EXTENDS DataExchange, SequenceTheorems, FiniteSetTheorems, TLAPS

-----------------------------------------------------------------------------
(* The invariant. *)

\* A rank of both codes creates and deletes an object in the same call of both.
Paired ==
  (\E r \in Ranks : Joint(r)) =>
    \A c \in Codes : \A i \in 1..Len(Prog(c)) :
      Prog(c)[i].do \in Lifetime =>
        Prog(Other(c))[i].do = Prog(c)[i].do /\ Prog(Other(c))[i].id = Prog(c)[i].id

\* The protocols of the objects in a table.
Ptp(c, r) == [i \in DOMAIN part[c][r] |-> part[c][r][i].ptp]

Without(table, id) == [i \in DOMAIN table \ {id} |-> table[i]]
Complete(c, r)     == NoData \notin Range(Ptp(c, r))

\* The code whose table tells what rank r has freed: on a rank of both the one that frees.
Owner(r) == IF r \in Holds(1) THEN 1 ELSE 2

\* The protocols of a table and those that have been freed are all of S, each of them once.
OnceEach(h, f, S) ==
  /\ IsInjective(h) /\ IsInjective(f)
  /\ (Range(h) \ {NoData}) \cap Range(f) = {} /\ (Range(h) \ {NoData}) \cup Range(f) = S

\* Every protocol that has been created is in the table or has been freed.
Counted(r) == OnceEach(Ptp(Owner(r), r), freed[r], 1..made)

\* Both codes of a rank have made the same calls, ...
Abreast(r) ==
  /\ pc[world.first][r] = pc[Other(world.first)][r]
  /\ Ptp(1, r) = Ptp(2, r) /\ Complete(1, r)

\* ... or one of them has one to catch up.
Behind(r) ==
  LET c == Other(world.first)
      k == Prog(c)[pc[c][r]] IN
  /\ pc[world.first][r] = pc[c][r] + 1 /\ Complete(c, r)
  /\ k.do = "create" =>
       k.id \notin DOMAIN Ptp(c, r) /\ Ptp(world.first, r) = With(Ptp(c, r), k.id, NoData)
  /\ k.do = "del" => k.id \in DOMAIN Ptp(c, r) /\ Ptp(world.first, r) = Without(Ptp(c, r), k.id)
  /\ k.do \notin Lifetime => Ptp(world.first, r) = Ptp(c, r)

InStep(r) == IF Joint(r) THEN Abreast(r) \/ Behind(r) ELSE Complete(Owner(r), r)

Shapes ==
  /\ world \in Worlds /\ made \in Nat
  /\ DOMAIN pc = Codes /\ DOMAIN part = Codes
  /\ DOMAIN freed = Ranks
  /\ \A c \in Codes :
       /\ pc[c] \in [Ranks -> Nat] /\ DOMAIN part[c] = Ranks
       /\ \A r \in Ranks :
            /\ pc[c][r] \in 1..Len(Prog(c)) + 1
            /\ \A i \in DOMAIN part[c][r] : DOMAIN part[c][r][i] = {"type", "ptp", "requests"}
            /\ Range(Ptp(c, r)) \subseteq (1..made) \cup {NoData}

\* Only a root that is not that of the other code exchanges messages of global data.
ByRoot(c, r, env)   == env[1] = "global" => Posts(c, r)
Posted(queue, none) ==
  /\ DOMAIN queue = Codes
  /\ \A c \in Codes :
       /\ DOMAIN queue[c] = Ranks
       /\ \A r \in Ranks :
            /\ DOMAIN queue[c][r] = Envelopes
            /\ \A env \in Envelopes : queue[c][r][env] # none => ByRoot(c, r, env)
AllPosted == Posted(sent, <<>>) /\ Posted(wanted, 0)

Objects ==
  /\ \A r \in Ranks : freed[r] \in Seq(Range(freed[r])) /\ Range(freed[r]) \subseteq 1..made
  /\ \A r \in Members : Counted(r) /\ InStep(r)

IInv == Shapes /\ AllPosted /\ (Paired => Objects)

-----------------------------------------------------------------------------
(* Tables and sequences. *)

\* The two codes.
LEMMA CodeFacts ==
  /\ Codes = {1, 2} /\ Other(1) = 2 /\ Other(2) = 1
  /\ \A c \in Codes : Other(c) \in Codes /\ Other(c) # c /\ Other(Other(c)) = c
BY DEF Codes, Other

\* A sequence with one more element.
LEMMA Appended ==
  ASSUME NEW s, s \in Seq(Range(s)), NEW x
  PROVE  /\ Append(s, x) \in Seq(Range(Append(s, x)))
         /\ Range(Append(s, x)) = Range(s) \cup {x}
         /\ IsInjective(s) /\ x \notin Range(s) => IsInjective(Append(s, x))
<1> DEFINE S == Range(s) \cup {x}  t == Append(s, x)  n == Len(s)
<1>1. /\ t \in Seq(S) /\ n \in Nat /\ Len(t) = n + 1 /\ DOMAIN t = 1..n + 1 /\ DOMAIN s = 1..n
      /\ \A i \in 1..n : t[i] = s[i] /\ s[i] \in Range(s)
      /\ t[n + 1] = x
  <2>1. s \in Seq(S) /\ x \in S
    OBVIOUS
  <2> QED BY <2>1 DEF Range
<1> HIDE DEF t, n
<1>2. Range(t) = S
  <2>1. n + 1 \in 1..n + 1 /\ \A i \in 1..n : i \in 1..n + 1
    BY <1>1
  <2>2. \A y \in Range(s) : y \in Range(t)
    BY <1>1, <2>1 DEF Range
  <2>3. x \in Range(t)
    BY <1>1, <2>1 DEF Range
  <2>4. \A y \in Range(t) : y \in S
    <3>1. \A i \in 1..n + 1 : i \in 1..n \/ i = n + 1
      BY <1>1
    <3> QED BY <1>1, <3>1 DEF Range
  <2> QED BY <2>2, <2>3, <2>4
<1>3. ASSUME IsInjective(s), x \notin Range(s) PROVE IsInjective(t)
  <2>1. \A i \in 1..n + 1 : i \in 1..n \/ i = n + 1
    BY <1>1
  <2> QED BY <1>1, <1>3, <2>1 DEF IsInjective
<1> QED BY <1>1, <1>2, <1>3 DEF t

\* A table with one more entry, ...
LEMMA WithFacts ==
  ASSUME NEW h, NEW i, NEW p, i \notin DOMAIN h
  PROVE  /\ i \in DOMAIN With(h, i, p) /\ Range(With(h, i, p)) = Range(h) \cup {p}
         /\ IsInjective(h) /\ p \notin Range(h) => IsInjective(With(h, i, p))
<1> DEFINE g == With(h, i, p)
<1>1. DOMAIN g = DOMAIN h \cup {i} /\ g[i] = p /\ \A j \in DOMAIN h : g[j] = h[j]
  BY DEF With
<1> HIDE DEF g
<1>2. Range(g) = Range(h) \cup {p}
  BY <1>1 DEF Range
<1>3. IsInjective(h) /\ p \notin Range(h) => IsInjective(g)
  BY <1>1 DEF Range, IsInjective
<1> QED BY <1>1, <1>2, <1>3 DEF g

\* ... and with one less.
LEMMA WithoutFacts ==
  ASSUME NEW h, NEW i
  PROVE  /\ Range(Without(h, i)) \subseteq Range(h)
         /\ IsInjective(h) => IsInjective(Without(h, i))
         /\ IsInjective(h) /\ i \in DOMAIN h => Range(Without(h, i)) = Range(h) \ {h[i]}
<1> DEFINE g == Without(h, i)
<1>1. DOMAIN g = DOMAIN h \ {i} /\ \A j \in DOMAIN h \ {i} : g[j] = h[j]
  BY DEF Without
<1> HIDE DEF g
<1>2. Range(g) \subseteq Range(h)
  BY <1>1 DEF Range
<1>3. IsInjective(h) => IsInjective(g)
  BY <1>1 DEF IsInjective
<1>4. ASSUME IsInjective(h), i \in DOMAIN h PROVE Range(g) = Range(h) \ {h[i]}
  <2>1. \A y \in Range(g) : y \in Range(h) \ {h[i]}
    BY <1>1, <1>4 DEF Range, IsInjective
  <2>2. \A y \in Range(h) \ {h[i]} : y \in Range(g)
    BY <1>1 DEF Range
  <2> QED BY <2>1, <2>2
<1> QED BY <1>1, <1>2, <1>3, <1>4 DEF g

\* An object waits for its protocol, ...
LEMMA OneWaits ==
  ASSUME NEW h, NEW f, NEW S, OnceEach(h, f, S), NEW i, i \notin DOMAIN h, NoData \notin Range(h)
  PROVE  OnceEach(With(h, i, NoData), f, S)
<1> DEFINE g == With(h, i, NoData)
<1>1. IsInjective(g) /\ Range(g) = Range(h) \cup {NoData}
  BY WithFacts DEF OnceEach
<1> HIDE DEF g
<1> QED BY <1>1 DEF OnceEach, g

\* ... or no longer, ...
LEMMA OneWaited ==
  ASSUME NEW h, NEW f, NEW S, NEW i, i \notin DOMAIN h, NoData \notin Range(h),
         OnceEach(With(h, i, NoData), f, S)
  PROVE  OnceEach(h, f, S)
<1> DEFINE g == With(h, i, NoData)
<1>1. Range(g) = Range(h) \cup {NoData}
  BY WithFacts
<1>2. IsInjective(h)
  BY DEF OnceEach, IsInjective, With
<1> HIDE DEF g
<1>3. OnceEach(g, f, S)
  BY DEF g
<1> QED BY <1>1, <1>2, <1>3 DEF OnceEach

\* ... has a new one, ...
LEMMA OneMade ==
  ASSUME NEW n \in Nat, NoData \notin Nat, NEW h, NEW f, OnceEach(h, f, 1..n),
         NEW i, i \notin DOMAIN h, NoData \notin Range(h)
  PROVE  OnceEach(With(h, i, n + 1), f, 1..n + 1)
<1> DEFINE g == With(h, i, n + 1)
<1>1. n + 1 \notin 1..n /\ n + 1 # NoData /\ 1..n + 1 = (1..n) \cup {n + 1}
  OBVIOUS
<1>2. n + 1 \notin Range(h) /\ n + 1 \notin Range(f)
  BY <1>1 DEF OnceEach
<1>3. IsInjective(g) /\ Range(g) = Range(h) \cup {n + 1}
  BY <1>2, WithFacts DEF OnceEach
<1> HIDE DEF g
<1>4. PICK S : S = 1..n
  OBVIOUS
<1>5. PICK m : m = n + 1
  OBVIOUS
<1>6. OnceEach(h, f, S) /\ m # NoData /\ m \notin Range(f) /\ 1..n + 1 = S \cup {m}
  BY <1>1, <1>2, <1>4, <1>5
<1>7. IsInjective(g) /\ Range(g) = Range(h) \cup {m}
  BY <1>3, <1>5
<1>8. OnceEach(g, f, S \cup {m})
  BY <1>6, <1>7 DEF OnceEach
<1> QED BY <1>6, <1>8 DEF g

\* ... and that of an entry that is left out is freed.
LEMMA OneFreed ==
  ASSUME NEW h, NEW f, f \in Seq(Range(f)), NEW S, OnceEach(h, f, S),
         NEW i \in DOMAIN h, h[i] # NoData
  PROVE  /\ OnceEach(Without(h, i), Append(f, h[i]), S)
         /\ Append(f, h[i]) \in Seq(Range(Append(f, h[i])))
<1> DEFINE g == Without(h, i)  e == Append(f, h[i])
<1>1. IsInjective(g) /\ Range(g) = Range(h) \ {h[i]}
  BY WithoutFacts DEF OnceEach
<1>2. h[i] \in Range(h)
  BY DEF Range
<1>3. e \in Seq(Range(e)) /\ Range(e) = Range(f) \cup {h[i]} /\ IsInjective(e)
  <2>1. h[i] \notin Range(f)
    BY <1>2 DEF OnceEach
  <2> QED BY <2>1, Appended DEF OnceEach
<1> HIDE DEF g, e
<1>4. OnceEach(g, e, S)
  BY <1>1, <1>2, <1>3 DEF OnceEach
<1> QED BY <1>3, <1>4 DEF g, e

-----------------------------------------------------------------------------
(* What a step leaves alone. *)

\* The ranks and the programs are those of the world.
LEMMA SameWorld ==
  ASSUME world' = world
  PROVE  /\ \A c : Holds(c)' = Holds(c) /\ Root(c)' = Root(c) /\ Prog(c)' = Prog(c)
         /\ \A r : Joint(r)' = Joint(r) /\ Owner(r)' = Owner(r)
         /\ Members' = Members /\ Paired' = Paired
<1>1. \A c : Holds(c)' = Holds(c) /\ Prog(c)' = Prog(c)
  BY DEF Holds, Prog
<1>2. \A c : Root(c)' = Root(c)
  BY <1>1 DEF Root
<1>3. \A r : Joint(r)' = Joint(r) /\ Owner(r)' = Owner(r)
  BY <1>1 DEF Joint, Owner
<1>4. Members' = Members
  BY <1>1 DEF Members
<1>5. Paired' = Paired
  BY <1>1, <1>3 DEF Paired
<1> QED BY <1>1, <1>2, <1>3, <1>4, <1>5

\* A table that does not change has the same protocols.
LEMMA SameTable ==
  ASSUME NEW c, NEW r, part'[c][r] = part[c][r]
  PROVE  Ptp(c, r)' = Ptp(c, r)
BY DEF Ptp

Untouched(r) ==
  /\ world' = world /\ made' = made /\ freed'[r] = freed[r]
  /\ \A c \in Codes : pc'[c][r] = pc[c][r] /\ Ptp(c, r)' = Ptp(c, r)

\* What holds of a rank stays so when it is left alone.
LEMMA Bystander ==
  ASSUME world.first \in Codes, NEW r, Untouched(r), Counted(r), InStep(r)
  PROVE  Counted(r)' /\ InStep(r)'
<1>1. world' = world /\ Owner(r)' = Owner(r) /\ Joint(r)' = Joint(r) /\ Owner(r) \in Codes
      /\ \A c \in Codes : Prog(c)' = Prog(c)
  BY SameWorld, CodeFacts DEF Untouched, Owner
<1>2. Counted(r)'
  BY <1>1 DEF Counted, Untouched
<1>3. \A c \in Codes : Complete(c, r)' = Complete(c, r)
  BY DEF Complete, Untouched
<1>4. Abreast(r)' = Abreast(r)
  BY <1>1, <1>3, CodeFacts DEF Abreast, Untouched
<1>5. Behind(r)' = Behind(r)
  BY <1>1, <1>3, CodeFacts DEF Behind, Untouched
<1>6. InStep(r)' = InStep(r)
  BY <1>1, <1>3, <1>4, <1>5 DEF InStep
<1> QED BY <1>2, <1>6

-----------------------------------------------------------------------------
(* Steps of a rank as a rank of one code. *)

\* The programs of a world.
LEMMA WorldFacts ==
  ASSUME DataAssumption, world \in Worlds
  PROVE  /\ world.first \in Codes /\ Members \subseteq Ranks
         /\ Len(Prog(1)) \in Nat /\ Len(Prog(2)) = Len(Prog(1))
         /\ \A c \in Codes : Len(Prog(c)) = Len(Prog(1))
         /\ \A r \in Members : Owner(r) \in Codes /\ r \in Holds(Owner(r))
         /\ \A r \in Ranks, c \in Codes : r \in Holds(c) =>
              r \in Members /\ IF Joint(r) THEN Owner(r) = 1 ELSE Owner(r) = c
<1>1. /\ world.first \in Codes /\ Holds(1) \subseteq Ranks /\ Holds(2) \subseteq Ranks
      /\ Len(Prog(1)) = Len(Prog(2)) /\ Prog(1) \in Seq(Range(Prog(1)))
  BY CodeFacts DEF DataAssumption, Holds, Prog
<1>2. Len(Prog(1)) \in Nat
  BY <1>1, LenProperties
<1>3. \A r \in Members : Owner(r) \in Codes /\ r \in Holds(Owner(r))
  BY CodeFacts DEF Members, Owner
<1>4. \A r \in Ranks, c \in Codes : r \in Holds(c) =>
        r \in Members /\ IF Joint(r) THEN Owner(r) = 1 ELSE Owner(r) = c
  BY CodeFacts DEF Members, Owner, Joint
<1> QED BY <1>1, <1>2, <1>3, <1>4, CodeFacts DEF Members

\* The code of a joint rank that calls: its codes are abreast, or it is behind.
LEMMA Turns ==
  ASSUME DataAssumption, Shapes, NEW c \in Codes, NEW r \in Ranks, Turn(c, r)
  PROVE  /\ r \in Holds(c) /\ pc[c][r] \in 1..Len(Prog(c)) /\ Call(c, r) = Prog(c)[pc[c][r]]
         /\ Joint(r) /\ InStep(r) /\ c = world.first => Abreast(r)
         /\ Joint(r) /\ InStep(r) /\ c # world.first => Behind(r) /\ c = Other(world.first)
<1>1. /\ world.first \in Codes /\ pc[c][r] \in Nat /\ pc[Other(c)][r] \in Nat
      /\ pc[c][r] \in 1..Len(Prog(c)) + 1 /\ Len(Prog(c)) \in Nat
  BY WorldFacts, CodeFacts DEF Shapes
<1>2. r \in Holds(c) /\ pc[c][r] \in 1..Len(Prog(c)) /\ Call(c, r) = Prog(c)[pc[c][r]]
  BY <1>1 DEF Turn, Call
<1>3. ASSUME Joint(r), InStep(r), c = world.first PROVE Abreast(r)
  BY <1>1, <1>3, CodeFacts DEF Turn, InStep, Behind
<1>4. ASSUME Joint(r), InStep(r), c # world.first PROVE Behind(r) /\ c = Other(world.first)
  <2>1. c = Other(world.first) /\ Other(c) = world.first
    BY <1>1, <1>4, CodeFacts
  <2> QED BY <1>1, <1>4, <2>1 DEF Turn, InStep, Abreast
<1> QED BY <1>2, <1>3, <1>4

\* It has one call less to make.
LEMMA Returned ==
  ASSUME DataAssumption, Shapes, NEW c \in Codes, NEW r \in Ranks, Turn(c, r), Return(c, r)
  PROVE  /\ DOMAIN pc' = Codes /\ pc'[c][r] = pc[c][r] + 1
         /\ \A d \in Codes, s \in Ranks : d # c \/ s # r => pc'[d][s] = pc[d][s]
         /\ \A d \in Codes :
              /\ pc'[d] \in [Ranks -> Nat]
              /\ \A s \in Ranks : pc'[d][s] \in 1..Len(Prog(d)) + 1
<1>1. /\ DOMAIN pc = Codes /\ \A d \in Codes : pc[d] \in [Ranks -> Nat]
      /\ \A d \in Codes, s \in Ranks : pc[d][s] \in 1..Len(Prog(d)) + 1
      /\ pc[c][r] \in 1..Len(Prog(c)) /\ Len(Prog(c)) \in Nat
  BY Turns, WorldFacts DEF Shapes
<1>2. /\ DOMAIN pc' = Codes /\ pc'[c] = [pc[c] EXCEPT ![r] = pc[c][r] + 1]
      /\ \A d \in Codes : d # c => pc'[d] = pc[d]
  BY <1>1 DEF Return
<1>3. /\ pc'[c][r] = pc[c][r] + 1 /\ pc'[c] \in [Ranks -> Nat]
      /\ \A s \in Ranks : s # r => pc'[c][s] = pc[c][s]
  BY <1>1, <1>2
<1>4. pc'[c][r] \in 1..Len(Prog(c)) + 1
  BY <1>1, <1>3
<1> QED BY <1>1, <1>2, <1>3, <1>4

\* A message or a receive more.
LEMMA OnePosted ==
  ASSUME NEW queue, NEW none, Posted(queue, none), NEW c \in Codes, NEW r \in Ranks, NEW env,
         ByRoot(c, r, env), NEW x
  PROVE  Posted([queue EXCEPT ![c][r][env] = x], none)
<1> DEFINE q == [queue EXCEPT ![c][r][env] = x]
<1>1. /\ DOMAIN queue = Codes /\ \A d \in Codes : DOMAIN queue[d] = Ranks
      /\ \A d \in Codes, s \in Ranks : DOMAIN queue[d][s] = Envelopes
      /\ \A d \in Codes, s \in Ranks : \A e \in Envelopes : queue[d][s][e] # none => ByRoot(d, s, e)
  BY DEF Posted
<1>2. /\ DOMAIN q = Codes /\ \A d \in Codes : DOMAIN q[d] = Ranks
      /\ q[c][r] = [queue[c][r] EXCEPT ![env] = x]
      /\ \A d \in Codes, s \in Ranks : d # c \/ s # r => q[d][s] = queue[d][s]
  BY <1>1
<1> HIDE DEF q
<1>3. /\ DOMAIN q[c][r] = Envelopes
      /\ \A e \in Envelopes : e # env => q[c][r][e] = queue[c][r][e]
  BY <1>1, <1>2
<1> QED BY <1>1, <1>2, <1>3 DEF Posted, q

\* The queues after a step.
LEMMA QueuesAfter ==
  ASSUME world' = world
  PROVE  /\ Envelopes' = Envelopes /\ \A c, r : Posts(c, r)' = Posts(c, r)
         /\ \A c, r, env : ByRoot(c, r, env)' = ByRoot(c, r, env)
         /\ \A q : Posted(q, <<>>) /\ sent' = q => Posted(sent, <<>>)'
         /\ \A q : Posted(q, 0) /\ wanted' = q => Posted(wanted, 0)'
<1>1. Envelopes' = Envelopes
  BY DEF Envelopes
<1>2. \A c, r : Posts(c, r)' = Posts(c, r)
  BY SameWorld DEF Posts
<1>3. \A c, r, env : ByRoot(c, r, env)' = ByRoot(c, r, env)
  BY <1>2 DEF ByRoot
<1> QED BY <1>1, <1>2, <1>3 DEF Posted

\* A call that neither creates nor deletes keeps the objects as they are.
LEMMA Quiet ==
  ASSUME DataAssumption, Shapes, Paired, Objects, NEW c \in Codes, NEW r \in Ranks,
         Turn(c, r), Return(c, r), Call(c, r).do \notin Lifetime,
         world' = world, made' = made, freed' = freed,
         \A d \in Codes, s \in Ranks : Ptp(d, s)' = Ptp(d, s)
  PROVE  Objects'
<1>1. /\ world \in Worlds /\ world.first \in Codes /\ Members \subseteq Ranks
      /\ Members' = Members /\ r \in Holds(c) /\ r \in Members
      /\ Owner(r)' = Owner(r) /\ Joint(r)' = Joint(r) /\ Owner(r) \in Codes
      /\ \A d \in Codes : Prog(d)' = Prog(d)
  BY SameWorld, WorldFacts, Turns DEF Shapes
<1>2. /\ \A s \in Members : Counted(s) /\ InStep(s)
      /\ \A s \in Ranks : freed[s] \in Seq(Range(freed[s])) /\ Range(freed[s]) \subseteq 1..made
  BY DEF Objects
<1>0. /\ pc'[c][r] = pc[c][r] + 1
      /\ \A d \in Codes, s \in Ranks : d # c \/ s # r => pc'[d][s] = pc[d][s]
  BY Returned
<1>3. ASSUME NEW s \in Members, s # r PROVE Counted(s)' /\ InStep(s)'
  <2>1. s \in Ranks /\ freed'[s] = freed[s]
    BY <1>1
  <2>2. \A d \in Codes : pc'[d][s] = pc[d][s]
    BY <1>0, <1>3, <2>1
  <2>3. \A d \in Codes : Ptp(d, s)' = Ptp(d, s)
    BY <2>1
  <2>4. Untouched(s)
    BY <2>1, <2>2, <2>3 DEF Untouched
  <2> QED BY <1>1, <1>2, <1>3, <2>4, Bystander
<1>4. Counted(r)'
  BY <1>1, <1>2 DEF Counted
<1>5. \A d \in Codes : Complete(d, r)' = Complete(d, r)
  BY DEF Complete
<1>6. ASSUME ~Joint(r) PROVE InStep(r)'
  BY <1>1, <1>2, <1>4, <1>5, <1>6 DEF InStep
<1>7. ASSUME Joint(r), c = world.first PROVE InStep(r)'
  <2>1. Abreast(r)
    BY <1>1, <1>2, <1>7, Turns
  <2> DEFINE o == Other(world.first)
  <2>2. o \in Codes /\ o # c /\ 1 \in Codes /\ 2 \in Codes /\ {c, o} = {1, 2}
    <3>1. c = 1 \/ c = 2
      BY DEF Codes
    <3>2. o = Other(c)
      BY <1>7
    <3> HIDE DEF o
    <3>3. 1 \in Codes /\ 2 \in Codes /\ Other(1) = 2 /\ Other(2) = 1
      BY CodeFacts
    <3> QED BY <3>1, <3>2, <3>3
  <2>3. /\ pc'[c][r] = pc[c][r] + 1 /\ pc'[o][r] = pc[o][r] /\ pc[o][r] = pc[c][r]
    <3>1. pc[c][r] = pc[o][r]
      BY <1>7, <2>1 DEF Abreast
    <3>2. r \in Ranks /\ o \in Codes /\ o # c
      BY <2>2
    <3> HIDE DEF o
    <3>3. pc'[o][r] = pc[o][r]
      BY <1>0, <3>2
    <3> QED BY <1>0, <3>1, <3>3
  <2>4. Ptp(c, r) = Ptp(o, r) /\ Complete(o, r)
    BY <2>1, <2>2 DEF Abreast, Complete
  <2>5. pc[c][r] \in 1..Len(Prog(o)) /\ Call(c, r) = Prog(c)[pc[c][r]] /\ c = Other(o)
    BY <1>1, <1>7, <2>2, Turns, WorldFacts, CodeFacts
  <2>6. Prog(o)[pc[o][r]].do \notin Lifetime
    <3>1. \A d \in Codes : \A i \in 1..Len(Prog(d)) :
            Prog(d)[i].do \in Lifetime => Prog(Other(d))[i].do = Prog(d)[i].do
      BY <1>7 DEF Paired
    <3>2. pc[o][r] = pc[c][r] /\ Prog(c)[pc[c][r]].do \notin Lifetime
      BY <2>3, <2>5
    <3> HIDE DEF o
    <3> QED BY <2>2, <2>5, <3>1, <3>2
  <2>7. Behind(r)'
    <3>1. /\ pc'[world.first][r] = pc'[o][r] + 1 /\ Complete(o, r)'
          /\ Ptp(world.first, r)' = Ptp(o, r)' /\ Prog(o)' = Prog(o)
          /\ Prog(o)[pc'[o][r]].do \notin Lifetime
      BY <1>1, <1>5, <1>7, <2>2, <2>3, <2>4, <2>6
    <3> QED BY <3>1 DEF Behind, Lifetime
  <2> QED BY <1>1, <1>7, <2>7 DEF InStep
<1>8. ASSUME Joint(r), c # world.first PROVE InStep(r)'
  <2>1. Behind(r) /\ c = Other(world.first) /\ world.first # c /\ world.first = Other(c)
    BY <1>1, <1>2, <1>8, Turns, CodeFacts
  <2>2. /\ pc'[c][r] = pc[c][r] + 1 /\ pc'[world.first][r] = pc[world.first][r]
    BY <1>0, <1>1, <2>1
  <2>3. /\ pc[world.first][r] = pc[c][r] + 1 /\ Complete(c, r)
        /\ Ptp(world.first, r) = Ptp(c, r)
    BY <2>1, Turns DEF Behind
  <2>4. Ptp(1, r) = Ptp(2, r) /\ Complete(1, r)
    BY <1>1, <2>1, <2>3, CodeFacts DEF Complete
  <2>5. Abreast(r)'
    <3>1. 1 \in Codes /\ 2 \in Codes
      BY CodeFacts
    <3>2. Ptp(1, r)' = Ptp(1, r) /\ Ptp(2, r)' = Ptp(2, r) /\ Complete(1, r)'
      BY <1>5, <2>4, <3>1
    <3>3. pc'[world.first][r] = pc'[Other(world.first)][r]
      BY <2>1, <2>2, <2>3
    <3> QED BY <2>4, <3>2, <3>3 DEF Abreast
  <2> QED BY <1>1, <1>8, <2>5 DEF InStep
<1>9. Counted(r)' /\ InStep(r)'
  BY <1>4, <1>6, <1>7, <1>8
<1>10. \A s \in Members' : Counted(s)' /\ InStep(s)'
  BY <1>1, <1>3, <1>9
<1> QED BY <1>2, <1>10 DEF Objects

-----------------------------------------------------------------------------
(* The tables after a step. *)

Entries(t) == \A i \in DOMAIN t : DOMAIN t[i] = {"type", "ptp", "requests"}

\* One table changes.
Retabled(c, r, t) == part' = [part EXCEPT ![c][r] = t]

\* The others stay.
LEMMA OneTable ==
  ASSUME Shapes, NEW c \in Codes, NEW r \in Ranks, NEW t, Retabled(c, r, t)
  PROVE  /\ DOMAIN part' = Codes /\ \A d \in Codes : DOMAIN part'[d] = Ranks
         /\ part'[c][r] = t
         /\ \A d \in Codes, s \in Ranks : d # c \/ s # r =>
              part'[d][s] = part[d][s] /\ Ptp(d, s)' = Ptp(d, s)
<1>1. DOMAIN part = Codes /\ \A d \in Codes : DOMAIN part[d] = Ranks
  BY DEF Shapes
<1>2. /\ DOMAIN part' = Codes /\ \A d \in Codes : DOMAIN part'[d] = Ranks
      /\ part'[c][r] = t
      /\ \A d \in Codes, s \in Ranks : d # c \/ s # r => part'[d][s] = part[d][s]
  BY <1>1 DEF Retabled
<1>3. ASSUME NEW d \in Codes, NEW s \in Ranks, part'[d][s] = part[d][s]
      PROVE  Ptp(d, s)' = Ptp(d, s)
  BY <1>3, SameTable
<1> QED BY <1>2, <1>3

\* An entry more, in terms of the protocols, ...
LEMMA EntryMore ==
  ASSUME NEW c, NEW r, NEW id, NEW k, NEW p, Entries(part[c][r]),
         part'[c][r] = With(part[c][r], id, PartData(k, p))
  PROVE  Ptp(c, r)' = With(Ptp(c, r), id, p) /\ Entries(part'[c][r])
<1> DEFINE x == PartData(k, p)
<1>1. DOMAIN x = {"type", "ptp", "requests"} /\ x.ptp = p
  BY DEF PartData
<1> HIDE DEF x
<1>2. part'[c][r] = With(part[c][r], id, x)
  BY DEF x
<1>3. Ptp(c, r)' = With(Ptp(c, r), id, p)
  BY <1>1, <1>2 DEF Ptp, With
<1>4. Entries(part'[c][r])
  BY <1>1, <1>2 DEF Entries, With
<1> QED BY <1>3, <1>4

\* ... and an entry less.
LEMMA EntryLess ==
  ASSUME NEW c, NEW r, NEW id, Entries(part[c][r]),
         part'[c][r] = Restrict(part[c][r], DOMAIN part[c][r] \ {id})
  PROVE  Ptp(c, r)' = Without(Ptp(c, r), id) /\ Entries(part'[c][r])
BY DEF Ptp, Without, Restrict, Entries

\* The requests of an object do not touch its protocol.
LEMMA RequestsOnly ==
  ASSUME Shapes, NEW c \in Codes, NEW r \in Ranks, NEW id \in DOMAIN part[c][r], NEW x,
         part' = [part EXCEPT ![c][r][id].requests = x]
  PROVE  /\ DOMAIN part' = Codes /\ \A d \in Codes : DOMAIN part'[d] = Ranks
         /\ \A d \in Codes, s \in Ranks : Ptp(d, s)' = Ptp(d, s) /\ Entries(part'[d][s])
<1> DEFINE t == [part[c][r] EXCEPT ![id].requests = x]
<1>1. /\ DOMAIN part = Codes /\ \A d \in Codes : DOMAIN part[d] = Ranks
      /\ \A d \in Codes, s \in Ranks : Entries(part[d][s])
  BY DEF Shapes, Entries
<1>2. part' = [part EXCEPT ![c][r] = t]
  BY <1>1
<1>3. /\ DOMAIN t = DOMAIN part[c][r]
      /\ \A i \in DOMAIN t : DOMAIN t[i] = DOMAIN part[c][r][i] /\ t[i].ptp = part[c][r][i].ptp
  <2>1. DOMAIN t = DOMAIN part[c][r]
    OBVIOUS
  <2>2. \A i \in DOMAIN t : i # id => t[i] = part[c][r][i]
    OBVIOUS
  <2>3. t[id] = [part[c][r][id] EXCEPT !.requests = x]
    OBVIOUS
  <2>4. DOMAIN part[c][r][id] = {"type", "ptp", "requests"}
    BY <1>1 DEF Entries
  <2>5. DOMAIN t[id] = DOMAIN part[c][r][id] /\ t[id].ptp = part[c][r][id].ptp
    BY <2>3, <2>4
  <2> QED BY <2>1, <2>2, <2>5
<1> HIDE DEF t
<1>4. /\ DOMAIN part' = Codes /\ \A d \in Codes : DOMAIN part'[d] = Ranks
      /\ part'[c][r] = t
      /\ \A d \in Codes, s \in Ranks : d # c \/ s # r =>
           part'[d][s] = part[d][s] /\ Ptp(d, s)' = Ptp(d, s)
  <2>1. PICK u : u = t
    OBVIOUS
  <2>2. Retabled(c, r, u)
    BY <1>2, <2>1 DEF Retabled
  <2>3. /\ DOMAIN part' = Codes /\ \A d \in Codes : DOMAIN part'[d] = Ranks
        /\ part'[c][r] = u
    BY <2>2, OneTable
  <2>4. \A d \in Codes, s \in Ranks : d # c \/ s # r =>
           part'[d][s] = part[d][s] /\ Ptp(d, s)' = Ptp(d, s)
    BY <2>2, OneTable
  <2> QED BY <2>1, <2>3, <2>4
<1>5. Ptp(c, r)' = Ptp(c, r)
  BY <1>3, <1>4 DEF Ptp
<1>6. Entries(part'[c][r])
  BY <1>1, <1>3, <1>4 DEF Entries
<1> QED BY <1>1, <1>4, <1>5, <1>6

\* The shapes after a call of one rank.
LEMMA ShapesAfter ==
  ASSUME DataAssumption, Shapes, NEW c \in Codes, NEW r \in Ranks, Turn(c, r), Return(c, r),
         world' = world, made' = made, DOMAIN freed' = Ranks, DOMAIN part' = Codes,
         \A d \in Codes : DOMAIN part'[d] = Ranks,
         \A d \in Codes, s \in Ranks :
           Entries(part'[d][s]) /\ Range(Ptp(d, s)') \subseteq (1..made) \cup {NoData}
  PROVE  Shapes'
<1>1. /\ DOMAIN pc' = Codes
      /\ \A d \in Codes : /\ pc'[d] \in [Ranks -> Nat]
                          /\ \A s \in Ranks : pc'[d][s] \in 1..Len(Prog(d)) + 1
  BY Returned
<1>2. world \in Worlds /\ made \in Nat /\ \A d : Prog(d)' = Prog(d)
  BY SameWorld DEF Shapes
<1>3. \A d \in Codes, s \in Ranks : Range(Ptp(d, s))' \subseteq (1..made') \cup {NoData}
  BY DEF Range
<1> QED BY SMTT(30), <1>1, <1>2, <1>3 DEF Shapes, Entries

\* A call that leaves the tables alone but for the requests.
LEMMA QuietStep ==
  ASSUME DataAssumption, IInv, NEW c \in Codes, NEW r \in Ranks, Turn(c, r), Return(c, r),
         Call(c, r).do \notin Lifetime,
         world' = world, made' = made, freed' = freed, AllPosted',
         DOMAIN part' = Codes, \A d \in Codes : DOMAIN part'[d] = Ranks,
         \A d \in Codes, s \in Ranks : Ptp(d, s)' = Ptp(d, s) /\ Entries(part'[d][s])
  PROVE  IInv'
<1>1. Shapes /\ (Paired => Objects) /\ Paired' = Paired
  BY SameWorld DEF IInv
<1>2. \A d \in Codes, s \in Ranks : Ptp(d, s)' = Ptp(d, s)
  OBVIOUS
<1>3. Paired => Objects'
  BY <1>1, <1>2, Quiet
<1>4. \A d \in Codes, s \in Ranks : Range(Ptp(d, s)') \subseteq (1..made) \cup {NoData}
  BY <1>1, <1>2 DEF Shapes
<1>5. DOMAIN freed' = Ranks
  BY <1>1 DEF Shapes
<1>6. Shapes'
  BY <1>1, <1>4, <1>5, ShapesAfter
<1> QED BY <1>1, <1>3, <1>6 DEF IInv

-----------------------------------------------------------------------------
(* The calls of global data, and the exchanges of partitioned data. *)

\* Tables that stay as they are.
LEMMA TablesStay ==
  ASSUME Shapes, part' = part
  PROVE  /\ DOMAIN part' = Codes /\ \A d \in Codes : DOMAIN part'[d] = Ranks
         /\ \A d \in Codes, s \in Ranks : Ptp(d, s)' = Ptp(d, s) /\ Entries(part'[d][s])
<1>1. \A d \in Codes, s \in Ranks : Ptp(d, s)' = Ptp(d, s)
  BY DEF Ptp
<1> QED BY <1>1 DEF Shapes, Entries

\* Messages posted by a rank that may post them.
LEMMA PostedAfter ==
  ASSUME world' = world, AllPosted, NEW c \in Codes, NEW r \in Ranks, NEW env, ByRoot(c, r, env),
         \/ sent' = sent
         \/ \E x : sent' = [sent EXCEPT ![c][r][env] = x],
         \/ wanted' = wanted
         \/ \E x : wanted' = [wanted EXCEPT ![c][r][env] = x]
  PROVE  AllPosted'
<1>1. PICK q : sent' = q /\ Posted(q, <<>>)
  <2>1. ASSUME NEW x, sent' = [sent EXCEPT ![c][r][env] = x]
        PROVE  Posted([sent EXCEPT ![c][r][env] = x], <<>>)
    BY OnePosted DEF AllPosted
  <2> QED BY <2>1 DEF AllPosted
<1>2. PICK m : wanted' = m /\ Posted(m, 0)
  <2>1. ASSUME NEW x, wanted' = [wanted EXCEPT ![c][r][env] = x]
        PROVE  Posted([wanted EXCEPT ![c][r][env] = x], 0)
    BY OnePosted DEF AllPosted
  <2> QED BY <2>1 DEF AllPosted
<1> QED BY <1>1, <1>2, QueuesAfter DEF AllPosted

\* No message is posted.
LEMMA NonePosted ==
  ASSUME world' = world, AllPosted, sent' = sent, wanted' = wanted
  PROVE  AllPosted'
BY QueuesAfter DEF AllPosted

\* The calls of global data start and complete messages of the roots, ...
LEMMA GlobalSteps ==
  ASSUME DataAssumption, IInv, NEW c \in Codes, NEW r \in Ranks,
         \/ globalDataIssend(c, r) \/ globalDataIrecv(c, r) \/ globalDataWaitIssend(c, r)
         \/ RootWaitIrecv(c, r) \/ globalDataWaitIrecv(c, r) \/ Pass(c, r)
  PROVE  IInv'
<1> DEFINE env == Envelope("global", Call(c, r))
<1>1. /\ Turn(c, r) /\ Return(c, r) /\ Call(c, r).do \notin Lifetime
      /\ world' = world /\ made' = made /\ freed' = freed /\ part' = part
  BY DEF globalDataIssend, globalDataIrecv, globalDataWaitIssend, RootWaitIrecv,
         globalDataWaitIrecv, Pass, Calls, Lifetime, mpi
<1>2. \/ sent' = sent /\ wanted' = wanted
      \/ /\ Posts(c, r)
         /\ sent' = sent \/ \E x : sent' = [sent EXCEPT ![c][r][env] = x]
         /\ wanted' = wanted \/ \E x : wanted' = [wanted EXCEPT ![c][r][env] = x]
  BY DEF globalDataIssend, globalDataIrecv, globalDataWaitIssend, RootWaitIrecv,
         globalDataWaitIrecv, Pass, mpi, PostSend, PostRecv
<1>3. Shapes /\ AllPosted
  BY DEF IInv
<1>4. AllPosted'
  <2>1. Posts(c, r) => ByRoot(c, r, env)
    BY DEF ByRoot
  <2> HIDE DEF env
  <2>2. CASE sent' = sent /\ wanted' = wanted
    BY <1>1, <1>3, <2>2, NonePosted
  <2>3. CASE ~(sent' = sent /\ wanted' = wanted)
    BY <1>1, <1>2, <1>3, <2>1, <2>3, PostedAfter
  <2> QED BY <2>2, <2>3
<1>5. /\ DOMAIN part' = Codes /\ \A d \in Codes : DOMAIN part'[d] = Ranks
      /\ \A d \in Codes, s \in Ranks : Ptp(d, s)' = Ptp(d, s) /\ Entries(part'[d][s])
  BY <1>1, <1>3, TablesStay
<1> QED BY <1>1, <1>4, <1>5, QuietStep

\* ... those of partitioned data the messages of all ranks and the requests of an object.
LEMMA PartSteps ==
  ASSUME DataAssumption, IInv, NEW c \in Codes, NEW r \in Ranks,
         \/ partDataIssend(c, r) \/ partDataIrecv(c, r)
         \/ partDataWaitIssend(c, r) \/ partDataWaitIrecv(c, r)
  PROVE  IInv'
<1> DEFINE env == Envelope("part", Call(c, r))
<1>1. /\ Turn(c, r) /\ Return(c, r) /\ Call(c, r).do \notin Lifetime /\ Exists(c, r)
      /\ world' = world /\ made' = made /\ freed' = freed
  BY DEF partDataIssend, partDataIrecv, partDataWaitIssend, partDataWaitIrecv, Waits, Calls,
         Lifetime, mpi
<1>2. /\ sent' = sent \/ \E x : sent' = [sent EXCEPT ![c][r][env] = x]
      /\ wanted' = wanted \/ \E x : wanted' = [wanted EXCEPT ![c][r][env] = x]
  BY DEF partDataIssend, partDataIrecv, partDataWaitIssend, partDataWaitIrecv, mpi, PostSend, PostRecv
<1>3. Shapes /\ AllPosted
  BY DEF IInv
<1>4. AllPosted'
  <2>1. ByRoot(c, r, env)
    BY DEF Envelope, ByRoot
  <2> HIDE DEF env
  <2> QED BY <1>1, <1>2, <1>3, <2>1, PostedAfter
<1>5. \E x : part' = [part EXCEPT ![c][r][Call(c, r).id].requests = x]
  BY DEF partDataIssend, partDataIrecv, partDataWaitIssend, partDataWaitIrecv, AddRequest,
         ClearRequest
<1>6. PICK id \in DOMAIN part[c][r] : id = Call(c, r).id
  BY <1>1 DEF Exists
<1>7. PICK x : part' = [part EXCEPT ![c][r][id].requests = x]
  BY <1>5, <1>6
<1>8. /\ DOMAIN part' = Codes /\ \A d \in Codes : DOMAIN part'[d] = Ranks
      /\ \A d \in Codes, s \in Ranks : Ptp(d, s)' = Ptp(d, s) /\ Entries(part'[d][s])
  BY <1>3, <1>7, RequestsOnly
<1> QED BY <1>1, <1>4, <1>8, QuietStep

-----------------------------------------------------------------------------
(* Objects made and deleted by one code of a rank. *)

\* What both codes of a joint rank do at a call at which one creates or deletes.
LEMMA SameLife ==
  ASSUME DataAssumption, world \in Worlds, Paired, NEW r \in Ranks, Joint(r),
         NEW c \in Codes, NEW i \in 1..Len(Prog(c)), Prog(c)[i].do \in Lifetime
  PROVE  /\ Prog(Other(c))[i].do = Prog(c)[i].do /\ Prog(Other(c))[i].id = Prog(c)[i].id
BY DEF Paired

\* Where one code of a rank calls, the other ranks are left alone.
LEMMA Elsewhere ==
  ASSUME DataAssumption, Shapes, NEW c \in Codes, NEW r \in Ranks, Turn(c, r), Return(c, r),
         NEW t, Retabled(c, r, t), world' = world, made' = made,
         NEW s \in Ranks, s # r, freed'[s] = freed[s], Counted(s), InStep(s)
  PROVE  Counted(s)' /\ InStep(s)'
<1>1. \A d \in Codes, x \in Ranks : d # c \/ x # r => pc'[d][x] = pc[d][x]
  BY Returned
<1>2. \A d \in Codes : pc'[d][s] = pc[d][s]
  BY <1>1
<1>3. ASSUME NEW d \in Codes PROVE Ptp(d, s)' = Ptp(d, s)
  <2>1. part'[d][s] = part[d][s]
    BY DEF Shapes, Retabled
  <2> QED BY <2>1, SameTable
<1>4. \A d \in Codes : Ptp(d, s)' = Ptp(d, s)
  BY <1>3
<1>5. Untouched(s)
  BY <1>2, <1>4 DEF Untouched
<1>6. world.first \in Codes
  BY WorldFacts DEF Shapes
<1> QED BY <1>5, <1>6, Bystander

\* The shapes where one code of a rank has changed its table.
LEMMA ShapesRetabled ==
  ASSUME DataAssumption, Shapes, NEW c \in Codes, NEW r \in Ranks, Turn(c, r), Return(c, r),
         NEW t, Retabled(c, r, t), world' = world, made' = made, DOMAIN freed' = Ranks,
         Entries(part'[c][r]), Range(Ptp(c, r)') \subseteq (1..made) \cup {NoData}
  PROVE  Shapes'
<1>1. /\ DOMAIN part' = Codes /\ \A d \in Codes : DOMAIN part'[d] = Ranks
      /\ \A d \in Codes, s \in Ranks : d # c \/ s # r =>
           part'[d][s] = part[d][s] /\ Ptp(d, s)' = Ptp(d, s)
  BY OneTable
<1>2. ASSUME NEW d \in Codes, NEW s \in Ranks
      PROVE  Entries(part'[d][s]) /\ Range(Ptp(d, s)') \subseteq (1..made) \cup {NoData}
  <2>1. CASE d = c /\ s = r
    BY <2>1
  <2>2. CASE d # c \/ s # r
    <3>1. part'[d][s] = part[d][s] /\ Ptp(d, s)' = Ptp(d, s)
      BY <1>1, <2>2
    <3>2. Entries(part[d][s]) /\ Range(Ptp(d, s)) \subseteq (1..made) \cup {NoData}
      BY DEF Shapes, Entries
    <3> QED BY <3>1, <3>2
  <2> QED BY <2>1, <2>2
<1> QED BY <1>1, <1>2, ShapesAfter

\* The first code of a rank creates an object that waits for its protocol.
LEMMA CreateFirstStep ==
  ASSUME DataAssumption, IInv, NEW c \in Codes, NEW r \in Ranks, CreateFirst(c, r)
  PROVE  IInv'
<1>1. PICK i : i = Call(c, r).id
  OBVIOUS
<1>2. PICK o : o = Other(c)
  OBVIOUS
<1>3. /\ Turn(c, r) /\ Return(c, r) /\ Call(c, r).do = "create" /\ i \notin DOMAIN part[c][r]
      /\ Joint(r) /\ i \notin DOMAIN part[o][r]
      /\ world' = world /\ made' = made /\ freed' = freed /\ sent' = sent /\ wanted' = wanted
      /\ part' = [part EXCEPT ![c][r] = With(part[c][r], i, PartData(Call(c, r), NoData))]
  BY <1>1, <1>2 DEF CreateFirst, Calls, Exists, mpi
<1>4. Shapes /\ AllPosted /\ (Paired => Objects) /\ world \in Worlds
  BY DEF IInv, Shapes
<1>5. o \in Codes /\ o # c /\ Other(o) = c /\ 1 \in Codes /\ 2 \in Codes /\ {c, o} = {1, 2}
  BY <1>2, CodeFacts
<1>6. r \in Holds(c) /\ r \in Members /\ Owner(r) = 1 /\ world.first \in Codes
  BY <1>3, <1>4, Turns, WorldFacts
<1>7. Entries(part[c][r]) /\ DOMAIN freed = Ranks
  BY <1>4 DEF Shapes, Entries
<1>8. PICK u : u = With(part[c][r], i, PartData(Call(c, r), NoData))
  OBVIOUS
<1>9. Retabled(c, r, u)
  BY <1>3, <1>8 DEF Retabled
<1>10. /\ part'[c][r] = u
       /\ \A d \in Codes, s \in Ranks : d # c \/ s # r => Ptp(d, s)' = Ptp(d, s)
  <2>1. part'[c][r] = u
    BY <1>4, <1>9, OneTable
  <2>2. \A d \in Codes, s \in Ranks : d # c \/ s # r => Ptp(d, s)' = Ptp(d, s)
    BY <1>4, <1>9, OneTable
  <2> QED BY <2>1, <2>2
<1>11. Ptp(c, r)' = With(Ptp(c, r), i, NoData) /\ Entries(part'[c][r])
  <2>1. PICK k : k = Call(c, r)
    OBVIOUS
  <2>2. part'[c][r] = With(part[c][r], i, PartData(k, NoData))
    BY <1>8, <1>10, <2>1
  <2> QED BY <1>7, <2>2, EntryMore
<1>12. i \notin DOMAIN Ptp(c, r) /\ i \notin DOMAIN Ptp(o, r)
  BY <1>3 DEF Ptp
<1>13. PICK h : h = Ptp(c, r)
  OBVIOUS
<1>14. /\ i \notin DOMAIN h /\ Ptp(c, r)' = With(h, i, NoData)
       /\ i \in DOMAIN With(h, i, NoData) /\ Range(With(h, i, NoData)) = Range(h) \cup {NoData}
  BY <1>11, <1>12, <1>13, WithFacts
<1>15. Shapes'
  <2>1. Range(h) \subseteq (1..made) \cup {NoData}
    BY <1>4, <1>13 DEF Shapes
  <2>2. Range(Ptp(c, r)') \subseteq (1..made) \cup {NoData}
    BY <1>14, <2>1
  <2>3. DOMAIN freed' = Ranks
    BY <1>3, <1>7
  <2> QED BY <1>3, <1>4, <1>9, <1>11, <2>2, <2>3, ShapesRetabled
<1>16. AllPosted'
  BY <1>3, <1>4, NonePosted
<1>17. ASSUME Paired PROVE Objects'
  <2>1. Counted(r) /\ InStep(r) /\ \A s \in Members : Counted(s) /\ InStep(s)
    BY <1>4, <1>6, <1>17 DEF Objects
  <2>2. pc[c][r] \in 1..Len(Prog(c)) /\ Call(c, r) = Prog(c)[pc[c][r]]
    BY <1>3, <1>4, Turns
  <2>3. c = world.first
    <3>1. SUFFICES ASSUME c # world.first PROVE FALSE
      OBVIOUS
    <3>2. Behind(r) /\ c = Other(world.first)
      BY <1>3, <1>4, <2>1, <3>1, Turns
    <3>3. o = world.first
      BY <1>2, <1>6, <3>2, CodeFacts
    <3>4. Ptp(o, r) = With(Ptp(c, r), i, NoData)
      BY <1>1, <1>3, <2>2, <3>2, <3>3 DEF Behind
    <3> QED BY <1>12, <1>13, <1>14, <3>4
  <2>4. Abreast(r)
    BY <1>3, <1>4, <2>1, <2>3, Turns
  <2>5. Ptp(1, r) = Ptp(2, r) /\ NoData \notin Range(Ptp(1, r)) /\ pc[o][r] = pc[c][r]
    BY <1>2, <2>3, <2>4 DEF Abreast, Complete
  <2>6. Ptp(o, r) = h /\ NoData \notin Range(h)
    BY <1>5, <1>13, <2>5
  <2>7. Prog(o)[pc[o][r]].do = "create" /\ Prog(o)[pc[o][r]].id = i
    <3>1. Prog(c)[pc[c][r]].do = "create" /\ Prog(c)[pc[c][r]].id = i
      BY <1>1, <1>3, <2>2
    <3>2. Prog(c)[pc[c][r]].do \in Lifetime
      BY <3>1 DEF Lifetime
    <3>3. PICK n \in 1..Len(Prog(c)) : n = pc[c][r]
      BY <2>2
    <3>4. Prog(o)[n].do = Prog(c)[n].do /\ Prog(o)[n].id = Prog(c)[n].id
      BY <1>2, <1>3, <1>4, <1>17, <3>2, <3>3, SameLife
    <3> QED BY <2>5, <3>1, <3>3, <3>4
  <2>8. pc'[c][r] = pc[c][r] + 1 /\ \A d \in Codes, s \in Ranks : d # c \/ s # r => pc'[d][s] = pc[d][s]
    BY SMTT(30), <1>3, <1>4, Returned
  <2>9. Prog(o)' = Prog(o) /\ Owner(r)' = Owner(r) /\ Members' = Members /\ Joint(r)' = Joint(r)
    BY <1>3, SameWorld
  <2>10. pc'[o][r] = pc[o][r] /\ Ptp(o, r)' = h
    BY <1>5, <1>10, <2>6, <2>8
  <2>11. Complete(o, r)'
    BY <2>6, <2>10 DEF Complete
  <2>12. Behind(r)'
    <3>1. /\ Other(world.first) = o /\ pc'[world.first][r] = pc'[o][r] + 1
          /\ Prog(o)[pc'[o][r]].do = "create" /\ Prog(o)[pc'[o][r]].id = i
      BY <1>2, <2>3, <2>5, <2>7, <2>8, <2>10
    <3>2. i \notin DOMAIN Ptp(o, r)' /\ Ptp(world.first, r)' = With(Ptp(o, r)', i, NoData)
      <4>1. i \notin DOMAIN h /\ Ptp(c, r)' = With(h, i, NoData)
        BY <1>12, <1>13, <1>14
      <4>2. world'.first = c
        BY <1>3, <2>3
      <4> QED BY <2>10, <4>1, <4>2
    <3> QED BY <1>3, <2>9, <2>11, <3>1, <3>2 DEF Behind, Lifetime, With
  <2>13. Counted(r)'
    <3>1. CASE c = 2
      <4>1. Ptp(1, r)' = Ptp(1, r)
        BY <1>5, <1>10, <3>1
      <4> QED BY <1>3, <1>6, <2>1, <2>9, <4>1 DEF Counted
    <3>2. CASE c = 1
      <4>1. OnceEach(h, freed[r], 1..made)
        BY <1>6, <1>13, <2>1, <3>2 DEF Counted
      <4>2. OnceEach(With(h, i, NoData), freed[r], 1..made)
        BY <1>14, <2>6, <4>1, OneWaits
      <4> QED BY <1>3, <1>6, <1>14, <2>9, <3>2, <4>2 DEF Counted
    <3> QED BY <3>1, <3>2 DEF Codes
  <2>14. ASSUME NEW s \in Members, s # r PROVE Counted(s)' /\ InStep(s)'
    <3>1. s \in Ranks
      BY <1>4, WorldFacts
    <3>2. freed'[s] = freed[s] /\ Counted(s) /\ InStep(s)
      BY <1>3, <2>1
    <3> QED BY <1>3, <1>4, <1>9, <2>14, <3>1, <3>2, Elsewhere
  <2>15. \A s \in Ranks : freed'[s] \in Seq(Range(freed'[s])) /\ Range(freed'[s]) \subseteq 1..made'
    BY <1>3, <1>4, <1>17 DEF Objects
  <2>16. InStep(r)'
    BY <1>3, <2>9, <2>12 DEF InStep
  <2>17. \A s \in Members' : Counted(s)' /\ InStep(s)'
    BY <2>9, <2>13, <2>14, <2>16
  <2> QED BY <2>15, <2>17 DEF Objects
<1> QED BY <1>3, <1>15, <1>16, <1>17, SameWorld DEF IInv

\* A code of a rank deletes an object, and frees its protocol or leaves that to the other code.
LEMMA DelStep ==
  ASSUME DataAssumption, IInv, NEW c \in Codes, NEW r \in Ranks, partDataDel(c, r)
  PROVE  IInv'
<1>1. PICK i : i = Call(c, r).id
  OBVIOUS
<1>2. PICK o : o = Other(c)
  OBVIOUS
<1>3. /\ Turn(c, r) /\ Return(c, r) /\ Call(c, r).do = "del" /\ i \in DOMAIN part[c][r]
      /\ world' = world /\ made' = made /\ sent' = sent /\ wanted' = wanted
      /\ part' = [part EXCEPT ![c][r] = Restrict(part[c][r], DOMAIN part[c][r] \ {i})]
      /\ freed' = IF Frees(c, r) THEN [freed EXCEPT ![r] = Append(freed[r], part[c][r][i].ptp)]
                  ELSE freed
  BY <1>1 DEF partDataDel, Calls, Exists, Mine, mpi
<1>4. Shapes /\ AllPosted /\ (Paired => Objects) /\ world \in Worlds
  BY DEF IInv, Shapes
<1>5. o \in Codes /\ o # c /\ Other(o) = c /\ 1 \in Codes /\ 2 \in Codes /\ {c, o} = {1, 2}
  BY <1>2, CodeFacts
<1>6. /\ r \in Holds(c) /\ r \in Members /\ world.first \in Codes
      /\ IF Joint(r) THEN Owner(r) = 1 ELSE Owner(r) = c
  BY <1>3, <1>4, Turns, WorldFacts
<1>7. Entries(part[c][r]) /\ DOMAIN freed = Ranks
  BY <1>4 DEF Shapes, Entries
<1>8. PICK u : u = Restrict(part[c][r], DOMAIN part[c][r] \ {i})
  OBVIOUS
<1>9. Retabled(c, r, u)
  BY <1>3, <1>8 DEF Retabled
<1>10. /\ part'[c][r] = u
       /\ \A d \in Codes, s \in Ranks : d # c \/ s # r =>
            part'[d][s] = part[d][s] /\ Ptp(d, s)' = Ptp(d, s)
  BY <1>4, <1>9, OneTable
<1>11. Ptp(c, r)' = Without(Ptp(c, r), i) /\ Entries(part'[c][r])
  BY <1>7, <1>8, <1>10, EntryLess
<1>12. PICK h : h = Ptp(c, r)
  OBVIOUS
<1>13. PICK g : g = Without(h, i)
  OBVIOUS
<1>14. Ptp(c, r)' = g /\ Range(g) \subseteq Range(h)
  BY <1>11, <1>12, <1>13, WithoutFacts
<1>15. i \in DOMAIN h /\ h[i] = part[c][r][i].ptp /\ h[i] \in Range(h)
  BY <1>3, <1>12 DEF Ptp, Range
<1>16. DOMAIN freed' = Ranks /\ \A s \in Ranks : s # r => freed'[s] = freed[s]
  BY <1>3, <1>7
<1>17. freed'[r] = IF Frees(c, r) THEN Append(freed[r], h[i]) ELSE freed[r]
  BY <1>3, <1>7, <1>15
<1>18. Range(h) \subseteq (1..made) \cup {NoData}
  BY <1>4, <1>12 DEF Shapes
<1>19. Shapes'
  BY <1>3, <1>4, <1>9, <1>11, <1>14, <1>16, <1>18, ShapesRetabled
<1>20. AllPosted'
  BY <1>3, <1>4, NonePosted
<1>21. ASSUME Paired PROVE Objects'
  <2>1. Counted(r) /\ InStep(r) /\ \A s \in Members : Counted(s) /\ InStep(s)
    BY <1>4, <1>6, <1>21 DEF Objects
  <2>2. pc[c][r] \in 1..Len(Prog(c)) /\ Call(c, r) = Prog(c)[pc[c][r]]
    BY <1>3, <1>4, Turns
  <2>3. Prog(c)[pc[c][r]].do = "del" /\ Prog(c)[pc[c][r]].id = i
    BY <1>1, <1>3, <2>2
  <2>4. freed[r] \in Seq(Range(freed[r])) /\ \A s \in Ranks : Range(freed[s]) \subseteq 1..made
    BY <1>4, <1>21 DEF Objects
  <2>5. NoData \notin Range(h)
    <3>1. CASE ~Joint(r)
      BY <1>6, <1>12, <2>1, <3>1 DEF InStep, Complete
    <3>2. CASE Joint(r) /\ c = world.first
      <4>1. Abreast(r)
        BY <1>3, <1>4, <2>1, <3>2, Turns
      <4> QED BY <1>5, <1>12, <4>1 DEF Abreast, Complete
    <3>3. CASE Joint(r) /\ c # world.first
      <4>1. Behind(r) /\ c = Other(world.first)
        BY <1>3, <1>4, <2>1, <3>3, Turns
      <4> QED BY <1>12, <4>1 DEF Behind, Complete
    <3> QED BY <3>1, <3>2, <3>3
  <2>6. h[i] # NoData
    BY <1>15, <2>5
  <2>7. Prog(o)' = Prog(o) /\ Owner(r)' = Owner(r) /\ Members' = Members /\ Joint(r)' = Joint(r)
    BY <1>3, SameWorld
  <2>8. Counted(r)' /\ freed'[r] \in Seq(Range(freed'[r])) /\ Range(freed'[r]) \subseteq 1..made
    <3>1. CASE Owner(r) = c
      <4>1. Frees(c, r)
        BY <1>5, <1>6, <3>1, CodeFacts DEF Frees
      <4>2. PICK e : e = Append(freed[r], h[i])
        OBVIOUS
      <4>3. freed'[r] = e
        BY <1>17, <4>1, <4>2
      <4>4. OnceEach(h, freed[r], 1..made)
        BY <1>12, <2>1, <3>1 DEF Counted
      <4>5. OnceEach(g, e, 1..made) /\ e \in Seq(Range(e))
        BY <1>13, <1>15, <2>4, <2>6, <4>2, <4>4, OneFreed
      <4>6. Range(e) \subseteq 1..made
        BY <4>5 DEF OnceEach
      <4>7. Ptp(Owner(r), r)' = g /\ made' = made
        BY <1>3, <1>14, <2>7, <3>1
      <4> QED BY <4>3, <4>5, <4>6, <4>7 DEF Counted
    <3>2. CASE Owner(r) # c
      <4>1. Joint(r) /\ Owner(r) = 1 /\ c = 2 /\ o = 1
        BY <1>5, <1>6, <3>2
      <4>2. freed'[r] = freed[r]
        BY <1>2, <1>17, <4>1 DEF Frees
      <4>3. Ptp(1, r)' = Ptp(1, r)
        BY <1>5, <1>10, <4>1
      <4> QED BY <1>3, <2>1, <2>4, <2>7, <4>1, <4>2, <4>3 DEF Counted
    <3> QED BY <3>1, <3>2
  <2>9. /\ pc'[c][r] = pc[c][r] + 1
        /\ \A d \in Codes, s \in Ranks : d # c \/ s # r => pc'[d][s] = pc[d][s]
    BY SMTT(30), <1>3, <1>4, Returned
  <2>10. pc'[o][r] = pc[o][r] /\ Ptp(o, r)' = Ptp(o, r)
    BY <1>5, <1>10, <2>9
  <2>11. world'.first = world.first /\ NoData \notin Range(g)
    BY <1>3, <1>14, <2>5
  <2>12. InStep(r)'
    <3>1. CASE ~Joint(r)
      BY <1>6, <1>14, <2>7, <2>11, <3>1 DEF InStep, Complete
    <3>2. CASE Joint(r) /\ c = world.first
      <4>1. Abreast(r)
        BY <1>3, <1>4, <2>1, <3>2, Turns
      <4>2. pc[o][r] = pc[c][r] /\ Ptp(o, r) = h
        BY <1>2, <1>5, <1>12, <3>2, <4>1 DEF Abreast
      <4>3. PICK n \in 1..Len(Prog(c)) : n = pc[c][r]
        BY <2>2
      <4>4. Prog(c)[n].do \in Lifetime
        BY <2>3, <4>3 DEF Lifetime
      <4>5. Prog(o)[n].do = Prog(c)[n].do /\ Prog(o)[n].id = Prog(c)[n].id
        BY <1>2, <1>4, <1>21, <3>2, <4>3, <4>4, SameLife
      <4>6. /\ Other(world'.first) = o /\ pc'[world'.first][r] = pc'[o][r] + 1
            /\ Prog(o)[pc'[o][r]].do = "del" /\ Prog(o)[pc'[o][r]].id = i
        BY <1>2, <2>3, <2>9, <2>10, <2>11, <3>2, <4>2, <4>3, <4>5
      <4>7. i \in DOMAIN Ptp(o, r)' /\ Ptp(c, r)' = Without(Ptp(o, r)', i) /\ Complete(o, r)'
        BY <1>13, <1>14, <1>15, <2>5, <2>10, <4>2 DEF Complete
      <4>8. Behind(r)'
        BY <2>7, <2>11, <3>2, <4>6, <4>7 DEF Behind, Lifetime, Without
      <4> QED BY <2>7, <3>2, <4>8 DEF InStep
    <3>3. CASE Joint(r) /\ c # world.first
      <4>1. Behind(r) /\ c = Other(world.first) /\ o = world.first
        BY <1>2, <1>3, <1>4, <1>6, <2>1, <3>3, Turns, CodeFacts
      <4>2. Ptp(o, r) = g /\ pc[o][r] = pc[c][r] + 1
        BY <1>12, <1>13, <2>3, <4>1 DEF Behind
      <4>3. /\ Ptp(1, r)' = g /\ Ptp(2, r)' = g
            /\ pc'[world'.first][r] = pc'[Other(world'.first)][r]
        BY <1>5, <1>14, <2>9, <2>10, <2>11, <4>1, <4>2
      <4>4. Abreast(r)'
        BY <2>11, <4>3 DEF Abreast, Complete
      <4> QED BY <2>7, <3>3, <4>4 DEF InStep
    <3> QED BY <3>1, <3>2, <3>3
  <2>13. ASSUME NEW s \in Members, s # r PROVE Counted(s)' /\ InStep(s)'
    <3>1. s \in Ranks
      BY <1>4, WorldFacts
    <3>2. freed'[s] = freed[s] /\ Counted(s) /\ InStep(s)
      BY <1>16, <2>1, <2>13, <3>1
    <3> QED BY <1>3, <1>4, <1>9, <2>13, <3>1, <3>2, Elsewhere
  <2>14. ASSUME NEW s \in Ranks
         PROVE  freed'[s] \in Seq(Range(freed'[s])) /\ Range(freed'[s]) \subseteq 1..made'
    <3>1. CASE s = r
      BY <1>3, <2>8, <3>1
    <3>2. CASE s # r
      BY <1>3, <1>4, <1>16, <1>21, <3>2 DEF Objects
    <3> QED BY <3>1, <3>2
  <2>15. \A s \in Members' : Counted(s)' /\ InStep(s)'
    BY <2>7, <2>8, <2>12, <2>13
  <2> QED BY <2>14, <2>15 DEF Objects
<1> QED BY <1>3, <1>19, <1>20, <1>21, SameWorld DEF IInv

-----------------------------------------------------------------------------
(* Protocols made by all ranks together. *)

\* The new protocol of an object that waits for it.
LEMMA EntryMade ==
  ASSUME NEW c, NEW r, NEW p, Entries(part[c][r]), NEW id \in DOMAIN part[c][r],
         part'[c][r] = [part[c][r] EXCEPT ![id].ptp = p]
  PROVE  Ptp(c, r)' = With(Ptp(c, r), id, p) /\ Entries(part'[c][r])
<1> DEFINE t == part[c][r]  u == part'[c][r]
<1>1. DOMAIN u = DOMAIN t /\ \A i \in DOMAIN t : i # id => u[i] = t[i]
  OBVIOUS
<1>2. u[id] = [t[id] EXCEPT !.ptp = p] /\ DOMAIN t[id] = {"type", "ptp", "requests"}
  BY DEF Entries
<1>3. DOMAIN u[id] = {"type", "ptp", "requests"} /\ u[id].ptp = p
  BY <1>2
<1>4. \A i \in DOMAIN t : DOMAIN t[i] = {"type", "ptp", "requests"}
  BY DEF Entries
<1>5. Ptp(c, r)' = [i \in DOMAIN u |-> u[i].ptp] /\ Ptp(c, r) = [i \in DOMAIN t |-> t[i].ptp]
  BY DEF Ptp
<1>6. Entries(u)
  BY <1>1, <1>3, <1>4 DEF Entries
<1>7. DOMAIN t \cup {id} = DOMAIN t
  OBVIOUS
<1> HIDE DEF t, u
<1>8. Ptp(c, r)' = With(Ptp(c, r), id, p)
  BY <1>1, <1>3, <1>5, <1>7 DEF With
<1> QED BY <1>6, <1>8 DEF u

\* The entry of an object has the new protocol.
Remade(c, r, id) ==
  Ptp(c, r)' = With(Ptp(c, r), id, made + 1) /\ Entries(part'[c][r])

\* What the creation does to the table of a code on a rank: the object has the new
\* protocol where this code creates it, and where it has waited for the other code.
LEMMA MadeTables ==
  ASSUME DataAssumption, Shapes, partDataCreate
  PROVE  /\ \A c \in Codes, r \in Ranks : r \notin Holds(c) =>
              Ptp(c, r)' = Ptp(c, r) /\ Entries(part'[c][r]) /\ pc'[c][r] = pc[c][r]
         /\ \A c \in Codes, r \in Ranks : Creates(c, r) =>
              Remade(c, r, Call(c, r).id) /\ pc'[c][r] = pc[c][r] + 1
         /\ \A c \in Codes, r \in Ranks : r \in Holds(c) /\ ~Creates(c, r) =>
              /\ Creates(Other(c), r) /\ Joint(r)
              /\ Remade(c, r, Call(Other(c), r).id) /\ pc'[c][r] = pc[c][r]
<1>1. \A d \in Codes, s \in Ranks : Entries(part[d][s])
  BY DEF Shapes, Entries
<1>2. \A d \in Codes, s \in Ranks :
        /\ pc'[d][s] = IF s \in Holds(d) /\ Creates(d, s) THEN pc[d][s] + 1 ELSE pc[d][s]
        /\ part'[d][s] =
             IF s \notin Holds(d) THEN part[d][s]
             ELSE IF Creates(d, s)
                  THEN With(part[d][s], Call(d, s).id, PartData(Call(d, s), made + 1))
             ELSE [part[d][s] EXCEPT ![Call(Other(d), s).id].ptp = made + 1]
  BY DEF partDataCreate
<1>3. ASSUME NEW c \in Codes, NEW r \in Ranks, r \notin Holds(c)
      PROVE  Ptp(c, r)' = Ptp(c, r) /\ Entries(part'[c][r]) /\ pc'[c][r] = pc[c][r]
  BY <1>1, <1>2, <1>3, SameTable
<1>4. ASSUME NEW c \in Codes, NEW r \in Ranks, Creates(c, r)
      PROVE  Remade(c, r, Call(c, r).id) /\ pc'[c][r] = pc[c][r] + 1
  <2>1. r \in Holds(c)
    BY <1>4 DEF Creates, Calls, Turn
  <2>2. PICK k : k = Call(c, r)
    OBVIOUS
  <2>3. part'[c][r] = With(part[c][r], k.id, PartData(k, made + 1)) /\ pc'[c][r] = pc[c][r] + 1
    BY <1>2, <1>4, <2>1, <2>2
  <2>4. Entries(part[c][r])
    BY <1>1
  <2>5. PICK id : id = k.id
    OBVIOUS
  <2>6. PICK p : p = made + 1
    OBVIOUS
  <2>7. part'[c][r] = With(part[c][r], id, PartData(k, p))
    BY <2>3, <2>5, <2>6
  <2>8. Ptp(c, r)' = With(Ptp(c, r), id, p) /\ Entries(part'[c][r])
    BY <2>4, <2>7, EntryMore
  <2> QED BY <2>2, <2>3, <2>5, <2>6, <2>8 DEF Remade
<1>5. ASSUME NEW c \in Codes, NEW r \in Ranks, r \in Holds(c), ~Creates(c, r)
      PROVE  /\ Creates(Other(c), r) /\ Joint(r)
             /\ Remade(c, r, Call(Other(c), r).id) /\ pc'[c][r] = pc[c][r]
  <2>1. PICK o : o = Other(c)
    OBVIOUS
  <2>2. o \in Codes /\ Other(o) = c /\ \A d \in Codes : d = c \/ d = o
    <3>1. c = 1 \/ c = 2
      BY DEF Codes
    <3> QED BY <2>1, <3>1, CodeFacts
  <2>3. r \in Members
    BY <1>5, CodeFacts DEF Members
  <2>4. Creates(o, r)
    BY <1>5, <2>2, <2>3 DEF partDataCreate
  <2>5. r \in Holds(o) /\ Joint(r)
    <3>1. r \in Holds(o)
      BY <2>4 DEF Creates, Calls, Turn
    <3>2. r \in Holds(1) /\ r \in Holds(2)
      BY <1>5, <2>2, <3>1, CodeFacts
    <3> QED BY <3>1, <3>2 DEF Joint
  <2>6. PICK id : id = Call(o, r).id
    OBVIOUS
  <2>7. id \in DOMAIN part[c][r]
    BY <2>2, <2>4, <2>5, <2>6 DEF Creates
  <2>8. part'[c][r] = [part[c][r] EXCEPT ![id].ptp = made + 1] /\ pc'[c][r] = pc[c][r]
    BY <1>2, <1>5, <2>1, <2>6
  <2>9. PICK p : p = made + 1
    OBVIOUS
  <2>10. part'[c][r] = [part[c][r] EXCEPT ![id].ptp = p] /\ Entries(part[c][r])
    BY <1>1, <2>8, <2>9
  <2>11. Ptp(c, r)' = With(Ptp(c, r), id, p) /\ Entries(part'[c][r])
    BY <2>7, <2>10, EntryMade
  <2> QED BY <2>1, <2>4, <2>5, <2>6, <2>8, <2>9, <2>11 DEF Remade
<1> QED BY <1>3, <1>4, <1>5

\* The protocol of an entry is that of one before, or the new one.
LEMMA RangeRemade ==
  ASSUME NEW h, NEW i, NEW p, NEW S, Range(h) \subseteq S
  PROVE  Range(With(h, i, p)) \subseteq S \cup {p}
BY DEF Range, With

\* The shapes after the creation.
LEMMA ShapesMade ==
  ASSUME DataAssumption, Shapes, partDataCreate
  PROVE  Shapes'
<1>1. world' = world /\ made' = made + 1 /\ freed' = freed /\ made \in Nat /\ world \in Worlds
  BY DEF partDataCreate, Shapes
<1>2. /\ DOMAIN freed' = Ranks /\ DOMAIN pc' = Codes /\ DOMAIN part' = Codes
      /\ \A c \in Codes : DOMAIN pc'[c] = Ranks /\ DOMAIN part'[c] = Ranks
  BY <1>1 DEF partDataCreate, Shapes
<1>3. ASSUME NEW c \in Codes, NEW r \in Ranks
      PROVE  /\ Entries(part'[c][r]) /\ Range(Ptp(c, r)') \subseteq (1..made + 1) \cup {NoData}
             /\ pc'[c][r] \in Nat /\ pc'[c][r] \in 1..Len(Prog(c)) + 1
  <2>1. PICK S : S = (1..made) \cup {NoData}
    OBVIOUS
  <2>2. Range(Ptp(c, r)) \subseteq S /\ pc[c][r] \in Nat /\ pc[c][r] \in 1..Len(Prog(c)) + 1
    BY <2>1 DEF Shapes
  <2>3. S \subseteq (1..made + 1) \cup {NoData}
        /\ S \cup {made + 1} \subseteq (1..made + 1) \cup {NoData}
    BY <1>1, <2>1
  <2>4. \A id : Remade(c, r, id) =>
          Entries(part'[c][r]) /\ Range(Ptp(c, r)') \subseteq S \cup {made + 1}
    <3>1. PICK p : p = made + 1
      OBVIOUS
    <3>2. PICK h : h = Ptp(c, r)
      OBVIOUS
    <3>3. \A id : Range(With(h, id, p)) \subseteq S \cup {p}
      BY <2>2, <3>2, RangeRemade
    <3> QED BY <3>1, <3>2, <3>3 DEF Remade
  <2>5. CASE r \notin Holds(c)
    <3>1. Ptp(c, r)' = Ptp(c, r) /\ Entries(part'[c][r]) /\ pc'[c][r] = pc[c][r]
      BY <2>5, MadeTables
    <3> QED BY <2>2, <2>3, <3>1
  <2>6. CASE Creates(c, r)
    <3>1. Remade(c, r, Call(c, r).id) /\ pc'[c][r] = pc[c][r] + 1
      BY <2>6, MadeTables
    <3>2. pc[c][r] \in 1..Len(Prog(c)) /\ Len(Prog(c)) \in Nat
      <4>1. Turn(c, r)
        BY <2>6 DEF Creates, Calls
      <4> QED BY <1>1, <4>1, Turns, WorldFacts
    <3>3. pc'[c][r] \in Nat /\ pc'[c][r] \in 1..Len(Prog(c)) + 1
      BY <2>2, <3>1, <3>2
    <3>4. Entries(part'[c][r]) /\ Range(Ptp(c, r)') \subseteq S \cup {made + 1}
      BY <2>4, <3>1
    <3> QED BY <2>3, <3>3, <3>4
  <2>7. CASE r \in Holds(c) /\ ~Creates(c, r)
    <3>1. Remade(c, r, Call(Other(c), r).id) /\ pc'[c][r] = pc[c][r]
      BY <2>7, MadeTables
    <3>2. Entries(part'[c][r]) /\ Range(Ptp(c, r)') \subseteq S \cup {made + 1}
      BY <2>4, <3>1
    <3> QED BY <2>2, <2>3, <3>1, <3>2
  <2> QED BY <2>5, <2>6, <2>7
<1>4. \A c : Prog(c)' = Prog(c)
  BY <1>1, SameWorld
<1>5. \A c \in Codes : pc'[c] \in [Ranks -> Nat]
  <2>1. SUFFICES ASSUME NEW c \in Codes PROVE pc'[c] \in [Ranks -> Nat]
    OBVIOUS
  <2>2. pc'[c] = [r \in Ranks |->
                   IF r \in Holds(c) /\ Creates(c, r) THEN pc[c][r] + 1 ELSE pc[c][r]]
    BY DEF partDataCreate
  <2>3. \A r \in Ranks : pc'[c][r] \in Nat
    BY <1>3
  <2> QED BY <2>2, <2>3
<1>6. made' \in Nat
  BY <1>1
<1>7. \A c \in Codes, r \in Ranks : Range(Ptp(c, r))' \subseteq (1..made') \cup {NoData}
  BY <1>1, <1>3 DEF Range
<1> QED BY <1>1, <1>2, <1>3, <1>4, <1>5, <1>6, <1>7 DEF Shapes, Entries

\* A table that keeps the protocol of an entry does not keep what was there before.
LEMMA WithTwice ==
  ASSUME NEW h, NEW i, NEW p, NEW q
  PROVE  With(With(h, i, p), i, q) = With(h, i, q)
BY DEF With

\* All ranks create the protocol of an object.
LEMMA CreateStep ==
  ASSUME DataAssumption, IInv, partDataCreate
  PROVE  IInv'
<1>1. Shapes /\ AllPosted /\ (Paired => Objects) /\ world \in Worlds
  BY DEF IInv, Shapes
<1>2. /\ world' = world /\ made' = made + 1 /\ freed' = freed /\ made \in Nat
      /\ sent' = sent /\ wanted' = wanted /\ NoData \notin Nat /\ world.first \in Codes
  BY <1>1, WorldFacts DEF partDataCreate, mpi, Shapes, DataAssumption
<1>3. Shapes'
  BY <1>1, ShapesMade
<1>4. AllPosted'
  BY <1>1, <1>2, NonePosted
<1>5. Members' = Members /\ Paired' = Paired
  BY <1>2, SameWorld
<1>6. PICK m : m = made + 1
  OBVIOUS
<1>7. m # NoData
  BY <1>2, <1>6
<1>8. ASSUME Paired, NEW r \in Members PROVE Counted(r)' /\ InStep(r)'
  <2>1. Counted(r) /\ InStep(r) /\ r \in Ranks
    BY <1>1, <1>8, WorldFacts DEF Objects
  <2>2. PICK c \in Codes : Creates(c, r)
    BY DEF partDataCreate
  <2>3. PICK o : o = Other(c)
    OBVIOUS
  <2>4. o \in Codes /\ o # c /\ Other(o) = c /\ 1 \in Codes /\ 2 \in Codes /\ {c, o} = {1, 2}
    BY <2>3, CodeFacts
  <2>5. PICK i : i = Call(c, r).id
    OBVIOUS
  <2>6. /\ Turn(c, r) /\ r \in Holds(c) /\ Call(c, r).do = "create" /\ i \notin DOMAIN part[c][r]
        /\ Joint(r) => i \in DOMAIN part[o][r]
    BY <2>2, <2>3, <2>5 DEF Creates, Calls, Turn, Exists
  <2>7. PICK h : h = Ptp(c, r)
    OBVIOUS
  <2>8. i \notin DOMAIN h /\ Ptp(c, r)' = With(h, i, m) /\ pc'[c][r] = pc[c][r] + 1
    <3>1. Remade(c, r, i) /\ pc'[c][r] = pc[c][r] + 1
      BY <1>1, <2>1, <2>2, <2>5, MadeTables
    <3> QED BY <1>6, <2>6, <2>7, <3>1 DEF Remade, Ptp
  <2>9. Owner(r)' = Owner(r) /\ Joint(r)' = Joint(r) /\ Owner(r) \in Codes
        /\ (IF Joint(r) THEN Owner(r) = 1 ELSE Owner(r) = c)
    BY <1>1, <1>2, <2>1, <2>6, SameWorld, WorldFacts
  <2>10. ASSUME OnceEach(h, freed[r], 1..made), NoData \notin Range(h)
         PROVE  OnceEach(With(h, i, m), freed[r], 1..made + 1) /\ NoData \notin Range(With(h, i, m))
    <3>1. OnceEach(With(h, i, made + 1), freed[r], 1..made + 1)
      BY <1>2, <2>8, <2>10, OneMade
    <3>2. Range(With(h, i, m)) = Range(h) \cup {m}
      BY <2>8, WithFacts
    <3> QED BY <1>6, <1>7, <2>10, <3>1, <3>2
  <2>11. CASE ~Joint(r)
    <3>1. OnceEach(h, freed[r], 1..made) /\ NoData \notin Range(h)
      BY <2>1, <2>7, <2>9, <2>11 DEF Counted, InStep, Complete
    <3>2. OnceEach(With(h, i, m), freed[r], 1..made + 1) /\ NoData \notin Range(With(h, i, m))
      BY <2>10, <3>1
    <3>3. Ptp(Owner(r), r)' = With(h, i, m) /\ made' = made + 1 /\ freed' = freed
      BY <1>2, <2>8, <2>9, <2>11
    <3>4. Counted(r)' /\ Complete(Owner(r), r)'
      BY <3>2, <3>3 DEF Counted, Complete
    <3> QED BY <2>9, <2>11, <3>4 DEF InStep
  <2>12. CASE Joint(r)
    <3>1. pc[c][r] \in 1..Len(Prog(c)) /\ Call(c, r) = Prog(c)[pc[c][r]] /\ r \in Holds(o)
      <4>1. Shapes /\ r \in Ranks /\ Turn(c, r)
        BY <1>1, <2>1, <2>6
      <4>2. pc[c][r] \in 1..Len(Prog(c)) /\ Call(c, r) = Prog(c)[pc[c][r]]
        BY <4>1, Turns
      <4>3. r \in Holds(o)
        BY <2>4, <2>12 DEF Joint
      <4> QED BY <4>2, <4>3
    <3>2. c # world.first
      <4>1. SUFFICES ASSUME c = world.first PROVE FALSE
        OBVIOUS
      <4>2. Abreast(r)
        BY <1>1, <2>1, <2>6, <2>12, <4>1, Turns
      <4>3. Ptp(o, r) = h
        BY <2>4, <2>7, <4>2 DEF Abreast
      <4>4. i \in DOMAIN Ptp(o, r)
        BY <2>6, <2>12 DEF Ptp
      <4> QED BY <2>8, <4>3, <4>4
    <3>3. Behind(r) /\ c = Other(world.first) /\ o = world.first
      BY <1>1, <1>2, <2>1, <2>3, <2>6, <2>12, <3>2, Turns, CodeFacts
    <3>4. /\ pc[o][r] = pc[c][r] + 1 /\ NoData \notin Range(h)
          /\ Ptp(o, r) = With(h, i, NoData)
      <4>1. Prog(c)[pc[c][r]].do = "create" /\ Prog(c)[pc[c][r]].id = i
        BY <2>5, <2>6, <3>1
      <4> QED BY <2>7, <3>3, <4>1 DEF Behind, Complete
    <3>5. Ptp(o, r)' = With(h, i, m) /\ pc'[o][r] = pc[o][r]
      <4>1. ~Creates(o, r)
        <5>1. ~Turn(o, r)
          <6>1. pc[o][r] # pc[c][r]
            BY <1>1, <2>1, <3>4 DEF Shapes
          <6> QED BY <2>4, <2>12, <3>3, <6>1 DEF Turn
        <5> QED BY <5>1 DEF Creates, Calls
      <4>2. Remade(o, r, i) /\ pc'[o][r] = pc[o][r]
        BY <1>1, <2>1, <2>4, <2>5, <3>1, <4>1, MadeTables
      <4>3. Ptp(o, r)' = With(With(h, i, NoData), i, m)
        BY <1>6, <3>4, <4>2 DEF Remade
      <4> QED BY <4>2, <4>3, WithTwice
    <3>6. OnceEach(h, freed[r], 1..made)
      <4>1. CASE c = 1
        BY <2>1, <2>7, <2>9, <2>12, <4>1 DEF Counted
      <4>2. CASE c = 2
        <5>1. OnceEach(With(h, i, NoData), freed[r], 1..made)
          BY <2>1, <2>4, <2>9, <2>12, <3>4, <4>2 DEF Counted
        <5> QED BY <2>8, <3>4, <5>1, OneWaited
      <4> QED BY <4>1, <4>2 DEF Codes
    <3>7. OnceEach(With(h, i, m), freed[r], 1..made + 1) /\ NoData \notin Range(With(h, i, m))
      BY <2>10, <3>4, <3>6
    <3>8. Ptp(1, r)' = With(h, i, m) /\ Ptp(2, r)' = With(h, i, m)
      BY <2>4, <2>8, <3>5
    <3>9. Counted(r)'
      BY <1>2, <2>9, <2>12, <3>7, <3>8 DEF Counted
    <3>10. Abreast(r)'
      <4>1. world'.first = o /\ Other(world'.first) = c /\ pc'[o][r] = pc'[c][r]
        BY <1>2, <2>4, <2>8, <3>3, <3>4, <3>5
      <4> QED BY <3>7, <3>8, <4>1 DEF Abreast, Complete
    <3> QED BY <2>9, <2>12, <3>9, <3>10 DEF InStep
  <2> QED BY <2>11, <2>12
<1>9. ASSUME Paired PROVE Objects'
  <2>1. \A r \in Ranks : freed'[r] \in Seq(Range(freed'[r])) /\ Range(freed'[r]) \subseteq 1..made'
    <3>1. \A r \in Ranks : freed[r] \in Seq(Range(freed[r])) /\ Range(freed[r]) \subseteq 1..made
      BY <1>1, <1>9 DEF Objects
    <3>2. 1..made \subseteq 1..made + 1
      BY <1>2
    <3> QED BY <1>2, <3>1, <3>2
  <2>2. \A r \in Members' : Counted(r)' /\ InStep(r)'
    BY <1>5, <1>8, <1>9
  <2> QED BY <2>1, <2>2 DEF Objects
<1> QED BY <1>3, <1>4, <1>5, <1>9 DEF IInv

-----------------------------------------------------------------------------
(* The theorems. *)

\* The invariant holds at the start, ...
LEMMA Starts ==
  ASSUME DataAssumption, Init
  PROVE  IInv
<1>1. /\ world \in Worlds /\ made = 0
      /\ pc = [c \in Codes |-> [r \in Ranks |-> 1]]
      /\ part = [c \in Codes |-> [r \in Ranks |-> [i \in {} |-> NoData]]]
      /\ freed = [r \in Ranks |-> <<>>]
      /\ sent = [c \in Codes |-> [r \in Ranks |-> [env \in Envelopes |-> <<>>]]]
      /\ wanted = [c \in Codes |-> [r \in Ranks |-> [env \in Envelopes |-> 0]]]
  BY DEF Init
<1>2. /\ world.first \in Codes /\ Members \subseteq Ranks
      /\ \A c \in Codes : Len(Prog(c)) \in Nat
      /\ \A r \in Members : Owner(r) \in Codes
  BY <1>1, WorldFacts
<1>3. \A c \in Codes, r \in Ranks :
        /\ pc[c][r] = 1 /\ DOMAIN part[c][r] = {}
        /\ freed[r] = <<>>
  BY <1>1
<1>4. \A c \in Codes, r \in Ranks : DOMAIN Ptp(c, r) = {} /\ Range(Ptp(c, r)) = {}
  BY <1>3 DEF Ptp, Range
<1>5. <<>> \in Seq(Range(<<>>)) /\ Range(<<>>) = {} /\ IsInjective(<<>>)
  BY DEF Range, IsInjective
<1>6. Shapes
  <2>1. /\ DOMAIN pc = Codes /\ DOMAIN part = Codes /\ DOMAIN freed = Ranks
        /\ \A c \in Codes : pc[c] \in [Ranks -> Nat] /\ DOMAIN part[c] = Ranks
    BY <1>1
  <2>2. \A c \in Codes, r \in Ranks : pc[c][r] \in 1..Len(Prog(c)) + 1
    BY <1>2, <1>3
  <2>3. made \in Nat
    BY <1>1
  <2> QED BY <1>1, <1>3, <1>4, <2>1, <2>2, <2>3 DEF Shapes
<1>7. Posted(sent, <<>>)
  BY <1>1 DEF Posted
<1>8. Posted(wanted, 0)
  BY <1>1 DEF Posted
<1>9. \A r \in Ranks : freed[r] \in Seq(Range(freed[r])) /\ Range(freed[r]) \subseteq 1..made
  BY <1>3, <1>5, CodeFacts
<1>10. ASSUME NEW r \in Members PROVE Counted(r) /\ InStep(r)
  <2>1. r \in Ranks /\ Owner(r) \in Codes /\ 1 \in Codes /\ 2 \in Codes /\ Other(world.first) \in Codes
    BY <1>2, CodeFacts
  <2>2. 1..made = {}
    BY <1>1
  <2>3. IsInjective(Ptp(Owner(r), r))
    BY <1>4, <2>1 DEF IsInjective
  <2>4. Counted(r)
    BY <1>3, <1>4, <1>5, <2>1, <2>2, <2>3 DEF Counted, OnceEach
  <2>5. \A c \in Codes : Complete(c, r)
    BY <1>4, <2>1 DEF Complete
  <2>6. Ptp(1, r) = Ptp(2, r)
    <3>1. \A c \in Codes : Ptp(c, r) = [i \in {} |-> NoData]
      BY <1>3, <2>1 DEF Ptp
    <3> QED BY <2>1, <3>1
  <2>7. Abreast(r)
    BY <1>2, <1>3, <2>1, <2>5, <2>6 DEF Abreast
  <2> QED BY <2>1, <2>4, <2>5, <2>7 DEF InStep
<1> QED BY <1>6, <1>7, <1>8, <1>9, <1>10 DEF IInv, Objects, AllPosted

\* ... and every step keeps it.
LEMMA Keeps ==
  ASSUME DataAssumption, IInv, [Next]_vars
  PROVE  IInv'
<1>1. ASSUME UNCHANGED vars PROVE IInv'
  <2>1. /\ world' = world /\ pc' = pc /\ part' = part /\ made' = made /\ freed' = freed
        /\ sent' = sent /\ wanted' = wanted
    BY <1>1 DEF vars, mpi
  <2>2. \A c, r : Ptp(c, r)' = Ptp(c, r)
    BY <2>1 DEF Ptp
  <2>3. Shapes' /\ AllPosted'
    BY <2>1, <2>2, SameWorld, NonePosted DEF IInv, Shapes
  <2>4. ASSUME Paired PROVE Objects'
    <3>1. Objects /\ Members' = Members /\ world.first \in Codes
      BY <2>1, <2>4, SameWorld, WorldFacts DEF IInv, Shapes
    <3>2. \A r \in Members : Counted(r) /\ InStep(r) /\ Untouched(r)
      BY <2>1, <2>2, <3>1 DEF Objects, Untouched
    <3>3. \A r \in Members : Counted(r)' /\ InStep(r)'
      BY <3>1, <3>2, Bystander
    <3> QED BY <2>1, <3>1, <3>3 DEF Objects
  <2> QED BY <2>1, <2>3, <2>4, SameWorld DEF IInv
<1>2. ASSUME NEW c \in Codes, NEW r \in Ranks,
             \/ globalDataIssend(c, r) \/ globalDataIrecv(c, r)
             \/ globalDataWaitIssend(c, r) \/ RootWaitIrecv(c, r) \/ globalDataWaitIrecv(c, r)
             \/ Pass(c, r)
      PROVE  IInv'
  BY <1>2, GlobalSteps
<1>3. ASSUME NEW c \in Codes, NEW r \in Ranks,
             \/ partDataIssend(c, r) \/ partDataIrecv(c, r)
             \/ partDataWaitIssend(c, r) \/ partDataWaitIrecv(c, r)
      PROVE  IInv'
  BY <1>3, PartSteps
<1>4. ASSUME NEW c \in Codes, NEW r \in Ranks, CreateFirst(c, r) PROVE IInv'
  BY <1>4, CreateFirstStep
<1>5. ASSUME NEW c \in Codes, NEW r \in Ranks, partDataDel(c, r) PROVE IInv'
  BY <1>5, DelStep
<1>6. ASSUME partDataCreate PROVE IInv'
  BY <1>6, CreateStep
<1> QED BY <1>1, <1>2, <1>3, <1>4, <1>5, <1>6 DEF Next, Step, Terminated

\* The inductive invariant holds for any ranks and programs.
THEOREM Invariance == Spec => []IInv
<1>1. Init => IInv
  BY Starts, DataAssumption
<1>2. IInv /\ [Next]_vars => IInv'
  BY Keeps, DataAssumption
<1> QED BY <1>1, <1>2, PTL DEF Spec

\* The tables and what has been freed hold protocols that have been created,
\* and only a root that is not that of both codes posts messages of global data.
THEOREM TypeCorrect == Spec => [](Paired => TypeOK)
<1>1. ASSUME IInv, Paired PROVE TypeOK
  <2>1. Shapes /\ AllPosted /\ Objects
    BY <1>1 DEF IInv
  <2>2. world \in Worlds /\ \A c \in Codes, r \in Ranks : pc[c][r] \in 1..Len(Prog(c)) + 1
    BY <2>1 DEF Shapes
  <2>3. ASSUME NEW c \in Codes, NEW r \in Ranks, NEW i \in DOMAIN part[c][r]
        PROVE  part[c][r][i].ptp \in (1..made) \cup {NoData}
    <3>1. part[c][r][i].ptp \in Range(Ptp(c, r))
      BY DEF Ptp, Range
    <3> QED BY <2>1, <3>1 DEF Shapes
  <2>4. ASSUME NEW c \in Codes, NEW r \in Ranks, NEW env \in DOMAIN sent[c][r],
               env[1] = "global", sent[c][r][env] # <<>> \/ wanted[c][r][env] # 0
        PROVE  r = Root(c) /\ r # Root(Other(c))
    BY <2>1, <2>4 DEF AllPosted, Posted, ByRoot, Posts
  <2>5. \A r \in Ranks : Range(freed[r]) \subseteq 1..made
    BY <2>1 DEF Objects
  <2> QED BY <2>2, <2>3, <2>4, <2>5 DEF TypeOK
<1> QED BY <1>1, Invariance, PTL

\* A protocol is freed once, by one of the codes of a rank, no exchange of
\* either code uses it after that, and none is left when all objects are deleted.
THEOREM ProtocolsFreed == Spec => [](Paired => FreedOnce)
<1>1. ASSUME IInv, Paired PROVE FreedOnce
  <2>1. Shapes /\ Objects /\ world \in Worlds
    BY <1>1 DEF IInv, Shapes
  <2>2. ASSUME NEW c \in Codes, NEW r \in Ranks, Turn(c, r), Call(c, r).do \in Exchanges, Exists(c, r)
        PROVE  Mine(c, r).ptp \in 1..made /\ Mine(c, r).ptp \notin Range(freed[r])
    <3>1. /\ r \in Holds(c) /\ r \in Members
          /\ IF Joint(r) THEN Owner(r) = 1 ELSE Owner(r) = c
      BY DataAssumption, <2>1, <2>2, Turns, WorldFacts
    <3>2. Counted(r) /\ InStep(r)
      BY <2>1, <3>1 DEF Objects
    <3>3. Mine(c, r).ptp \in Range(Ptp(c, r))
      BY <2>2 DEF Mine, Exists, Ptp, Range
    <3>4. Ptp(Owner(r), r) = Ptp(c, r) /\ Complete(c, r)
      <4>1. CASE ~Joint(r)
        BY <3>1, <3>2, <4>1 DEF InStep
      <4>2. CASE Joint(r) /\ c = world.first
        <5>1. Abreast(r)
          BY DataAssumption, <2>1, <2>2, <3>2, <4>2, Turns
        <5> QED BY <3>1, <4>2, <5>1, CodeFacts DEF Abreast, Complete
      <4>3. CASE Joint(r) /\ c # world.first
        <5>1. Behind(r) /\ c = Other(world.first) /\ Call(c, r) = Prog(c)[pc[c][r]]
          BY DataAssumption, <2>1, <2>2, <3>2, <4>3, Turns
        <5>2. Call(c, r).do \notin Lifetime
          BY <2>2 DEF Lifetime, Exchanges
        <5>3. Ptp(world.first, r) = Ptp(c, r) /\ Complete(c, r)
          BY <5>1, <5>2 DEF Behind
        <5>4. c = 1 \/ world.first = 1
          <6>1. world.first \in Codes
            BY DataAssumption, <2>1, WorldFacts
          <6> QED BY <4>3, <6>1 DEF Codes
        <5> QED BY <3>1, <4>3, <5>3, <5>4
      <4> QED BY <4>1, <4>2, <4>3
    <3> QED BY <3>2, <3>3, <3>4 DEF Counted, OnceEach, Complete
  <2>3. ASSUME NEW r \in Members
        PROVE  /\ IsInjective(freed[r])
               /\ (\A c \in Codes : part[c][r] = <<>>) => Range(freed[r]) = 1..made
    <3>1. Counted(r) /\ Owner(r) \in Codes
      BY DataAssumption, <2>1, WorldFacts DEF Objects
    <3>2. ASSUME \A c \in Codes : part[c][r] = <<>> PROVE Range(Ptp(Owner(r), r)) = {}
      <4>1. DOMAIN part[Owner(r)][r] = {}
        BY <3>1, <3>2
      <4> QED BY <4>1 DEF Ptp, Range
    <3> QED BY <3>1, <3>2 DEF Counted, OnceEach
  <2> QED BY <2>2, <2>3 DEF FreedOnce
<1> QED BY <1>1, Invariance, PTL
=============================================================================

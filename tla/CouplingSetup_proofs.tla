------------------------ MODULE CouplingSetup_proofs ------------------------
(***************************************************************************)
(* Proofs about CouplingSetup, for any ranks, any distribution of the      *)
(* codes over them and any fields: the types, TypeKnown, and, for the      *)
(* worlds in which the weights are not computed again with an object from  *)
(* B to A on a joint rank, SameCollectives and Associated.                 *)
(*                                                                         *)
(* The inductive invariant says in which stage of the calls of the user    *)
(* every rank is: which MPI calls it has left, which of the three          *)
(* exchanges it has been through (communication types, fields, send        *)
(* objects) and what it knows from them, and how long its log is.  Every   *)
(* entry of a log is the one that all ranks make at that place (Common).   *)
(***************************************************************************)
EXTENDS CouplingSetup, WellFoundedInduction, SequenceTheorems, FiniteSetTheorems, TLAPS

-----------------------------------------------------------------------------
(* What the world says: the keys of the objects, and the calls of all ranks. *)

\* The keys of the send objects of code c, and their order.
Completes(f, g) == f.name = g.name /\ Sends(f) = Recvs(g) /\ Recvs(f) = Sends(g)
FieldPairs(c) ==
  {p \in world.fields[c] \X world.fields[Other[c]] : Completes(p[1], p[2]) /\ Sends(p[1])}
KeysOf(c) == {<<p[1].loc, p[2].loc>> : p \in FieldPairs(c)}
Order(c)  == Sorted(KeysOf(c))

\* The three exchanges: what code c sends in the k-th one.
What(k) == IF k = 1 THEN "type" ELSE IF k = 2 THEN "fields" ELSE "sends"
Value(c, k) ==
  IF k = 1 THEN world.part[c] ELSE IF k = 2 THEN world.fields[c] ELSE Order(c)

\* The weights computed in a step: the i-th is of the object of From(i) with Key(i).
Weighed == Len(Order("A")) + Len(Order("B"))
From(i) == IF i <= Len(Order("A")) THEN "A" ELSE "B"
Key(i)  == IF i <= Len(Order("A")) THEN Order("A")[i] ELSE Order("B")[i - Len(Order("A"))]
Edge(i) == [from |-> From(i), ends |-> Key(i)]

Sender(i)   == Obj(From(i), "send", Key(i))
Receiver(i) == Obj(Other[From(i)], "recv", Rev(Key(i)))
ObjsAt(r, i) == {o \in {Sender(i), Receiver(i)} : o.code \in world.codes[r]}
ObjList(r, i) ==
  IF Joint(r) THEN <<Sender(i), Receiver(i)>>
  ELSE IF Main(r) = From(i) THEN <<Sender(i)>> ELSE <<Receiver(i)>>
Weights(r) == [i \in 1 .. Weighed |-> Compute(ObjList(r, i))]

ObjsOf(c) == {Obj(c, "send", key) : key \in KeysOf(c)}
               \cup {Obj(c, "recv", Rev(key)) : key \in KeysOf(Other[c])}
AllObjs(r) == UNION {ObjsOf(c) : c \in world.codes[r]}

\* The n-th collective call of every rank: the creation of the union
\* communicator, that of the coupling communicator unless both codes are
\* partitioned, and the weights, step after step.
BothPart == world.part["A"] /\ world.part["B"]
Group ==
  LET Without(c) == RootOnly(UnionOf(RanksOf("A"), RanksOf("B")), RanksOf(c), Root(c))
  IN IF world.part["A"] THEN Without("B")
     ELSE IF world.part["B"] THEN Without("A") ELSE <<Root("B"), Root("A")>>
Opening == IF BothPart THEN 1 ELSE 2
Base(s)   == Opening + s * Weighed
Common(n) ==
  IF n = 1 THEN [op |-> "create_group"]
  ELSE IF n = 2 /\ ~BothPart THEN [op |-> "create", group |-> Group]
  ELSE [op |-> "weights",
        of |-> Edge(CHOOSE i \in 1 .. Weighed : \E s \in 0 .. world.steps : n = Base(s) + i)]

\* Weights are computed again only where no object goes from B to A on a joint rank.
Sound == world.steps > 1 => \A r \in Ranks : Joint(r) => KeysOf("B") = {}

-----------------------------------------------------------------------------
(* The calls of an exchange. *)

Asker(r, k) ==
  IF k = 1 THEN side[r] ELSE IF Joint(r) /\ Root("A") # r THEN "B" ELSE Main(r)
First(r, k) == IF k = 1 THEN side[r] ELSE Main(r)

\* The calls after the k-th exchange, and those of the exchange: a asks the
\* other root, v hears first.
After(r, k) ==
  IF k = 1 THEN <<Local("create")>>
  ELSE IF k = 2 THEN <<Local("objects")>> \o (ExchangeCalls(r, "sends") \o <<Local("order")>>)
  ELSE <<Local("order")>>
Seconds(r, v, k) ==
  (IF Joint(r) THEN <<Bcast(Other[v], What(k))>> ELSE <<>>) \o After(r, k)
Firsts(r, v, k)   == <<Bcast(v, What(k))>> \o Seconds(r, v, k)
Block(r, a, v, k) == AskCalls(r, a, What(k)) \o Firsts(r, v, k)

-----------------------------------------------------------------------------
(* What a rank knows and has done. *)

\* As a rank of c it knows what the other code sends in the k-th exchange.
Right(r, c, k) == got[r][c][What(k)] = Value(Other[c], k)
Learned(r, k)  == \A j \in 1 .. k : \A c \in world.codes[r] : Right(r, c, j)
Asked(r, k)    == \A c \in world.codes[r] : Root(c) = r => Right(r, c, k)

\* The root of c, and not of the other code, has sent n messages to it.
Told(r, n) ==
  \A c \in world.codes[r] : Root(c) = r /\ Root(Other[c]) # r => Len(mail[c]) = n
Heard(r, n) == \A c \in world.codes[r] : arrived[r][c] = n

Joined(r) ==
  /\ made[r] = world.codes[r] /\ side[r] \in world.codes[r]
  /\ \A c \in world.codes[r] : Root(c) = r => side[r] = c \/ Root(Other[c]) = r

LogEntry ==
  [op : {"create_group"}] \cup [op : {"create"}, group : {Group}]
    \cup [op : {"weights"}, of : [from : Codes, ends : Nat \X Nat]]
Logged(r, n) ==
  Sound => /\ log[r] \in Seq(LogEntry) /\ Len(log[r]) = n
           /\ \A i \in 1 .. n : log[r][i] = Common(i)

Built(r) ==
  /\ DOMAIN objects[r] = AllObjs(r)
  /\ \A o \in AllObjs(r) : DOMAIN objects[r][o] = {"as", "link"}
  /\ Sound => \A o \in AllObjs(r) : objects[r][o].as = o.code

Linked(r, i) ==
  \A j \in 1 .. i : \A o \in ObjsAt(r, j) :
    objects[r][o].link = [of |-> Edge(j), step |-> step[r]]
Unlinked(r, i, n) == \A j \in i .. n : \A o \in ObjsAt(r, j) : objects[r][o].link = NoValue

Begun(r) == Main(r) \in called[r]
Empty(r) == objects[r] = <<>>

-----------------------------------------------------------------------------
(* The stages of a rank. *)

\* It still has to create the coupling of a code.
Fresh(r) ==
  /\ made[r] # world.codes[r] /\ Idle(r) /\ ~entered[r] /\ step[r] = 0 /\ called[r] = {}
  /\ Empty(r) /\ Heard(r, 0) /\ Told(r, 0) /\ Logged(r, 0)

\* It creates the union communicator, ...
Grouping(r) ==
  /\ Joined(r) /\ step[r] = 0 /\ called[r] = {} /\ Empty(r)
  /\ todo[r] = <<Local("create_group")>> \o Block(r, side[r], side[r], 1)
  /\ Heard(r, 0) /\ Told(r, 0) /\ Logged(r, IF entered[r] THEN 1 ELSE 0)

\* Where the k-th exchange takes place.
Place(r, k) ==
  /\ Joined(r) /\ step[r] = 0 /\ Learned(r, k - 1)
  /\ k = 1 => called[r] = {} /\ Empty(r) /\ Logged(r, 1)
  /\ k > 1 => Begun(r) /\ Logged(r, Base(0))
  /\ k = 2 => Empty(r)
  /\ k = 3 => Built(r) /\ (Sound => Unlinked(r, 1, Weighed))

\* ... asks the root of the other code, or is no root, ...
Asking(r, k) ==
  /\ Place(r, k) /\ todo[r] = Block(r, Asker(r, k), First(r, k), k) /\ Heard(r, k - 1)
  /\ entered[r] => Root(Asker(r, k)) = r /\ Root(Other[Asker(r, k)]) # r
  /\ Told(r, IF entered[r] THEN k ELSE k - 1)

\* ... and hears from the root of the one code, and of the other.
HearFirst(r, k) ==
  /\ Place(r, k) /\ todo[r] = Firsts(r, First(r, k), k) /\ Asked(r, k) /\ Told(r, k)
  /\ \A c \in world.codes[r] :
       arrived[r][c] = IF c = First(r, k) /\ entered[r] THEN k ELSE k - 1

HearSecond(r, k) ==
  /\ Place(r, k) /\ Joint(r) /\ todo[r] = Seconds(r, First(r, k), k)
  /\ Asked(r, k) /\ Told(r, k) /\ Right(r, First(r, k), k)
  /\ \A c \in world.codes[r] :
       arrived[r][c] = IF c = First(r, k) \/ entered[r] THEN k ELSE k - 1

\* It creates the coupling communicator.
Creating(r) ==
  /\ Joined(r) /\ step[r] = 0 /\ called[r] = {} /\ Empty(r) /\ todo[r] = <<Local("create")>>
  /\ Learned(r, 1) /\ Heard(r, 1) /\ Told(r, 1)
  /\ entered[r] => ~BothPart
  /\ Logged(r, IF entered[r] THEN 2 ELSE 1)

\* It has not asked for the weights, ...
Waiting(r) ==
  /\ Joined(r) /\ step[r] = 0 /\ ~Begun(r) /\ Idle(r) /\ ~entered[r] /\ Empty(r)
  /\ Learned(r, 1) /\ Heard(r, 1) /\ Told(r, 1) /\ Logged(r, Base(0))

\* ... creates the objects, ...
Listing(r) ==
  /\ Joined(r) /\ step[r] = 0 /\ Begun(r) /\ ~entered[r] /\ Empty(r) /\ todo[r] = After(r, 2)
  /\ Learned(r, 2) /\ Heard(r, 2) /\ Told(r, 2) /\ Logged(r, Base(0))

Later(r) == Joined(r) /\ Learned(r, 3) /\ Heard(r, 3) /\ Told(r, 3) /\ Built(r)

\* ... has not asked for the weights of a further step, ...
Resting(r) ==
  /\ Later(r) /\ step[r] > 0 /\ ~Begun(r) /\ Idle(r) /\ ~entered[r] /\ Logged(r, Base(step[r]))

\* ... puts the objects in order, ...
Ordering(r) ==
  /\ Later(r) /\ Begun(r) /\ ~entered[r] /\ todo[r] = <<Local("order")>>
  /\ Logged(r, Base(step[r]))
  /\ Sound /\ step[r] = 0 => Unlinked(r, 1, Weighed)

\* ... and computes the i-th weights of the step, or has computed all of them.
Weighing(r, i) ==
  /\ Later(r) /\ Begun(r) /\ todo[r] = SubSeq(Weights(r), i, Weighed)
  /\ entered[r] => i <= Weighed
  /\ Logged(r, IF entered[r] THEN Base(step[r]) + i ELSE Base(step[r]) + i - 1)
  /\ Sound => /\ Linked(r, i - 1)
              /\ step[r] = 0 => Unlinked(r, i, Weighed)
              /\ entered[r] => Unlinked(r, i, i)

Stage(r) ==
  \/ Fresh(r) \/ Grouping(r) \/ Creating(r) \/ Waiting(r) \/ Listing(r) \/ Resting(r)
  \/ Ordering(r)
  \/ \E k \in 1 .. 3 : Asking(r, k) \/ HearFirst(r, k) \/ HearSecond(r, k)
  \/ \E i \in 1 .. Weighed + 1 : Weighing(r, i)

-----------------------------------------------------------------------------
(* The invariant. *)

Values(c) == {Value(c, 1), Value(c, 2), Value(c, 3)}

UserShapes ==
  /\ world \in Worlds
  /\ made \in [Ranks -> SUBSET Codes] /\ called \in [Ranks -> SUBSET Codes]
  /\ side \in [Ranks -> Codes \cup {NoValue}] /\ step \in [Ranks -> Nat]
  /\ \A r \in Ranks :
       /\ step[r] <= world.steps /\ (called[r] # {} => step[r] < world.steps)
       /\ made[r] \subseteq world.codes[r] /\ called[r] \subseteq world.codes[r]

MPIShapes ==
  /\ entered \in [Ranks -> BOOLEAN] /\ arrived \in [Ranks -> [Codes -> Nat]]
  /\ DOMAIN got = Ranks
  /\ \A r \in Ranks : DOMAIN got[r] = Codes
  /\ \A r \in Ranks : \A c \in Codes : DOMAIN got[r][c] = {"type", "fields", "sends"}
  /\ DOMAIN objects = Ranks /\ DOMAIN todo = Ranks /\ DOMAIN log = Ranks
  /\ DOMAIN mail = Codes /\ DOMAIN shared = Codes

Shapes == UserShapes /\ MPIShapes

Mailed ==
  \A c \in Codes :
    mail[c] \in Seq(Values(c)) /\ \A k \in 1 .. Len(mail[c]) : mail[c][k] = Value(c, k)

Heralded ==
  \A c \in Codes :
    /\ shared[c] \in Seq(Values(Other[c])) /\ Len(shared[c]) = arrived[Root(c)][c]
    /\ \A k \in 1 .. Len(shared[c]) : shared[c][k] = Value(Other[c], k)

IInv == Shapes /\ Mailed /\ Heralded /\ \A r \in Ranks : Stage(r)

-----------------------------------------------------------------------------
(* Ranks, codes and sorted sets. *)

\* A set of numbers that is not empty has a least element.
LEMMA SmallestIsIn ==
  ASSUME NEW S \in SUBSET Nat, S # {}
  PROVE  /\ Min(S) \in S /\ \A x \in S : Min(S) <= x
<1>1. PICK x \in S : \A y \in S : ~(<<y, x>> \in OpToRel(<, Nat))
  BY NatLessThanWellFounded, WFMin
<1>2. ASSUME NEW y \in S PROVE x <= y
  <2>1. x \in Nat /\ y \in Nat
    OBVIOUS
  <2>2. ~(y < x)
    <3>1. SUFFICES ASSUME y < x PROVE FALSE
      OBVIOUS
    <3>2. <<y, x>> \in OpToRel(<, Nat)
      BY <2>1, <3>1 DEF OpToRel
    <3> QED
      BY <1>1, <3>2
  <2> QED
    BY <2>1, <2>2
<1> QED
  BY <1>2 DEF Min

\* The codes of a rank, and the roots of the codes.
LEMMA CodeFacts ==
  ASSUME SetupAssumption, world \in Worlds
  PROVE  /\ \A c \in Codes : /\ Other[c] \in Codes /\ Other[c] # c /\ Other[Other[c]] = c
                             /\ Root(c) \in Ranks /\ c \in world.codes[Root(c)]
                             /\ Root(c) \in RanksOf(c)
         /\ \A r \in Ranks : /\ world.codes[r] \subseteq Codes /\ Main(r) \in world.codes[r]
                             /\ Joint(r) => Main(r) = "A"
                             /\ ~Joint(r) => world.codes[r] = {Main(r)}
<1>1. /\ world.codes \in [Ranks -> (SUBSET Codes) \ {{}}]
      /\ \A c \in Codes : \E r \in Ranks : c \in world.codes[r]
      /\ Ranks \subseteq Nat
  BY DEF SetupAssumption
<1>2. ASSUME NEW c \in Codes PROVE Root(c) \in RanksOf(c)
  <2>1. RanksOf(c) \in SUBSET Nat /\ RanksOf(c) # {}
    BY <1>1 DEF RanksOf
  <2> QED BY <2>1, SmallestIsIn DEF Root
<1>3. \A c \in Codes : Root(c) \in Ranks /\ c \in world.codes[Root(c)]
  BY <1>2 DEF RanksOf
<1>4. \A c \in Codes : Other[c] \in Codes /\ Other[c] # c /\ Other[Other[c]] = c
  BY DEF Codes, Other
<1>5. ASSUME NEW r \in Ranks
      PROVE  /\ world.codes[r] \subseteq Codes /\ Main(r) \in world.codes[r]
             /\ Joint(r) => Main(r) = "A"
             /\ ~Joint(r) => world.codes[r] = {Main(r)}
  <2>1. world.codes[r] \in SUBSET {"A", "B"} /\ world.codes[r] # {}
    BY <1>1 DEF Codes
  <2> QED BY <2>1 DEF Main, Joint, Codes
<1> QED BY <1>2, <1>3, <1>4, <1>5

\* The two codes are each other's.
LEMMA TwoCodes ==
  /\ \A c \in Codes : c = "A" \/ c = "B"
  /\ "A" \in Codes /\ "B" \in Codes /\ Other["A"] = "B" /\ Other["B"] = "A"
BY DEF Codes, Other

PairsOf == Nat \X Nat

\* Before is a strict order of the pairs of locations, in which any two differ.
LEMMA BeforeOrders ==
  /\ \A k, l, m \in PairsOf : Before(k, l) /\ Before(l, m) => Before(k, m)
  /\ \A k, l \in PairsOf : ~(Before(k, l) /\ Before(l, k))
  /\ \A k, l \in PairsOf : k = l \/ Before(k, l) \/ Before(l, k)
<1>1. \A k \in PairsOf : k[1] \in Nat /\ k[2] \in Nat /\ k = <<k[1], k[2]>>
  BY DEF PairsOf
<1>2. \A k, l \in PairsOf : k[1] = l[1] /\ k[2] = l[2] => k = l
  BY <1>1
<1>3. \A k, l, m \in PairsOf : Before(k, l) /\ Before(l, m) => Before(k, m)
  BY <1>1 DEF Before
<1>4. \A k, l \in PairsOf : ~(Before(k, l) /\ Before(l, k))
  BY <1>1 DEF Before
<1>5. \A k, l \in PairsOf : k = l \/ Before(k, l) \/ Before(l, k)
  BY <1>1, <1>2 DEF Before
<1> QED BY <1>3, <1>4, <1>5

\* A set of pairs that is not empty has one before all others.
LEMMA FirstPair ==
  ASSUME NEW S \in SUBSET PairsOf, S # {}
  PROVE  \E k \in S : \A l \in S : l = k \/ Before(k, l)
<1> DEFINE Firsts1 == {k[1] : k \in S}
           a == Min(Firsts1)
           Seconds1 == {k[2] : k \in {l \in S : l[1] = a}}
           b == Min(Seconds1)
<1>1. \A k \in S : k[1] \in Nat /\ k[2] \in Nat
  BY DEF PairsOf
<1>2. Firsts1 \in SUBSET Nat /\ Firsts1 # {}
  BY <1>1
<1>3. a \in Firsts1 /\ \A x \in Firsts1 : a <= x
  <2> HIDE DEF Firsts1
  <2> QED BY <1>2, SmallestIsIn
<1>4. Seconds1 \in SUBSET Nat /\ Seconds1 # {}
  <2> HIDE DEF a
  <2> QED BY <1>1, <1>3
<1>5. b \in Seconds1 /\ \A x \in Seconds1 : b <= x
  <2> HIDE DEF Seconds1
  <2> QED BY <1>4, SmallestIsIn
<1> HIDE DEF a, b
<1>6. PICK k \in S : k[1] = a /\ k[2] = b
  BY <1>5
<1>7. ASSUME NEW l \in S PROVE l = k \/ Before(k, l)
  <2>1. a <= l[1]
    BY <1>3
  <2>2. l[1] = a => b <= l[2]
    BY <1>5
  <2>3. k \in PairsOf /\ l \in PairsOf
    OBVIOUS
  <2>4. ~Before(l, k)
    BY <1>1, <1>6, <2>1, <2>2 DEF Before
  <2> QED BY <2>3, <2>4, BeforeOrders
<1> QED BY <1>7

Sorts(s, S) == s \in SetToSeqs(S) /\ \A i, j \in DOMAIN s : i < j => Before(s[i], s[j])

\* A finite set of pairs whose set without its first pair can be sorted.
LEMMA SortsMore ==
  ASSUME NEW S \in SUBSET PairsOf, IsFiniteSet(S), NEW k \in S,
         \A l \in S : l = k \/ Before(k, l), NEW t, Sorts(t, S \ {k})
  PROVE  \E s : Sorts(s, S)
<1> DEFINE n == Cardinality(S)  s == [i \in 1 .. n |-> IF i = 1 THEN k ELSE t[i - 1]]
<1>1. n \in Nat /\ Cardinality(S \ {k}) = n - 1 /\ n > 0
  <2>1. Cardinality(S) \in Nat /\ Cardinality(S \ {k}) = Cardinality(S) - 1
    BY FS_CardinalityType, FS_RemoveElement
  <2>2. Cardinality(S \ {k}) \in Nat
    BY FS_CardinalityType, FS_RemoveElement
  <2> QED BY <2>1, <2>2
<1>2. /\ t \in [1 .. n - 1 -> S \ {k}]
      /\ \A i, j \in 1 .. n - 1 : i # j => t[i] # t[j]
      /\ \A i, j \in 1 .. n - 1 : i < j => Before(t[i], t[j])
  BY <1>1 DEF Sorts, SetToSeqs
<1> HIDE DEF n
<1>3. s \in [1 .. n -> S]
  BY <1>1, <1>2
<1>4. ASSUME NEW i \in 1 .. n, NEW j \in 1 .. n, i < j PROVE Before(s[i], s[j]) /\ s[i] # s[j]
  <2>1. CASE i = 1
    <3>1. s[i] = k /\ s[j] = t[j - 1] /\ t[j - 1] \in S \ {k}
      BY <1>1, <1>2, <1>4, <2>1
    <3> QED BY <3>1
  <2>2. CASE i # 1
    <3>1. s[i] = t[i - 1] /\ s[j] = t[j - 1] /\ i - 1 \in 1 .. n - 1 /\ j - 1 \in 1 .. n - 1
      BY <1>1, <1>4, <2>2
    <3>2. i - 1 < j - 1
      BY <1>4
    <3> QED BY <1>2, <3>1, <3>2
  <2> QED BY <2>1, <2>2
<1>5. \A i, j \in 1 .. n : i # j => s[i] # s[j]
  <2> HIDE DEF s
  <2>1. SUFFICES ASSUME NEW i \in 1 .. n, NEW j \in 1 .. n, i # j PROVE s[i] # s[j]
    OBVIOUS
  <2>2. i < j \/ j < i
    BY <1>1, <2>1
  <2> QED BY <1>4, <2>2
<1>6. DOMAIN s = 1 .. n
  OBVIOUS
<1> HIDE DEF s
<1>7. s \in SetToSeqs(S)
  BY <1>3, <1>5 DEF SetToSeqs, n
<1> QED BY <1>4, <1>6, <1>7 DEF Sorts

\* Every finite set of pairs can be sorted: there is no least size of one that cannot.
LEMMA SortExists ==
  ASSUME NEW T \in SUBSET PairsOf, IsFiniteSet(T)
  PROVE  \E s : Sorts(s, T)
<1> DEFINE Fails(S) == S \in SUBSET PairsOf /\ IsFiniteSet(S) /\ ~\E s : Sorts(s, S)
           Sizes == {n \in Nat : \E S \in SUBSET PairsOf : Fails(S) /\ Cardinality(S) = n}
<1>1. SUFFICES ASSUME Fails(T) PROVE FALSE
  OBVIOUS
<1>2. Cardinality(T) \in Sizes
  BY <1>1, FS_CardinalityType
<1>3. PICK n \in Sizes : \A m \in Sizes : n <= m
  <2>1. Sizes \in SUBSET Nat /\ Sizes # {}
    BY <1>2
  <2> HIDE DEF Sizes
  <2> QED BY <2>1, SmallestIsIn
<1>4. PICK S \in SUBSET PairsOf : Fails(S) /\ Cardinality(S) = n
  BY <1>3
<1>5. CASE S = {}
  <2>1. Cardinality(S) = 0
    BY <1>5, FS_EmptySet
  <2>2. <<>> \in SetToSeqs(S) /\ DOMAIN <<>> = {}
    BY <1>5, <2>1 DEF SetToSeqs
  <2>3. Sorts(<<>>, S)
    BY <2>2 DEF Sorts
  <2> QED BY <1>4, <2>3
<1>6. CASE S # {}
  <2>1. PICK k \in S : \A l \in S : l = k \/ Before(k, l)
    BY <1>6, FirstPair
  <2>2. IsFiniteSet(S \ {k}) /\ Cardinality(S \ {k}) = n - 1 /\ S \ {k} \in SUBSET PairsOf
    BY <1>4, FS_RemoveElement
  <2>3. n - 1 \in Nat
    BY <2>2, FS_CardinalityType
  <2>4. n - 1 \notin Sizes
    BY <1>3, <2>3
  <2>5. ~Fails(S \ {k})
    BY <2>2, <2>3, <2>4
  <2>6. PICK t : Sorts(t, S \ {k})
    BY <2>2, <2>5
  <2>7. \E s : Sorts(s, S)
    BY <1>4, <2>1, <2>6, SortsMore
  <2> QED BY <1>4, <2>7
<1> QED BY <1>5, <1>6

\* Sorted lists every pair of a finite set once.
LEMMA SortedLists ==
  ASSUME NEW S \in SUBSET PairsOf, IsFiniteSet(S)
  PROVE  /\ Sorted(S) \in Seq(S)
         /\ \A i, j \in 1 .. Len(Sorted(S)) : i # j => Sorted(S)[i] # Sorted(S)[j]
         /\ \A k \in S : \E i \in 1 .. Len(Sorted(S)) : Sorted(S)[i] = k
<1> DEFINE n == Cardinality(S)  s == Sorted(S)
<1>1. n \in Nat
  BY FS_CardinalityType
<1>2. s \in SetToSeqs(S)
  BY SortExists DEF Sorted, Sorts
<1> HIDE DEF s
<1>3. s \in [1 .. n -> S] /\ \A i, j \in 1 .. n : i # j => s[i] # s[j]
  BY <1>2 DEF SetToSeqs
<1> HIDE DEF n
<1>4. s \in Seq(S) /\ Len(s) = n
  BY <1>1, <1>3
<1>5. s \in Injection(1 .. n, S)
  BY <1>3 DEF Injection, IsInjective
<1>6. Cardinality(1 .. n) = n
  BY <1>1, FS_Interval
<1>7. s \in Surjection(1 .. n, S)
  BY <1>5, <1>6, FS_Injection DEF n
<1>8. \A k \in S : \E i \in 1 .. n : s[i] = k
  BY <1>7 DEF Surjection
<1> QED BY <1>3, <1>4, <1>8 DEF s

-----------------------------------------------------------------------------
(* The keys, the objects and the weights of a step. *)

\* The keys are a finite set of pairs.
LEMMA KeysFinite ==
  ASSUME SetupAssumption, world \in Worlds, NEW c \in Codes
  PROVE  KeysOf(c) \in SUBSET PairsOf /\ IsFiniteSet(KeysOf(c))
<1>1. /\ IsFiniteSet(world.fields[c]) /\ IsFiniteSet(world.fields[Other[c]])
      /\ \A f \in world.fields[c] : f.loc \in Nat
      /\ \A f \in world.fields[Other[c]] : f.loc \in Nat
  BY CodeFacts DEF SetupAssumption
<1>2. IsFiniteSet(world.fields[c] \X world.fields[Other[c]])
  BY <1>1, FS_Product
<1>3. FieldPairs(c) \in SUBSET (world.fields[c] \X world.fields[Other[c]])
  BY DEF FieldPairs
<1>4. IsFiniteSet(FieldPairs(c))
  BY <1>2, <1>3, FS_Subset
<1> DEFINE key == [p \in FieldPairs(c) |-> <<p[1].loc, p[2].loc>>]
<1>5. key \in Surjection(FieldPairs(c), KeysOf(c))
  BY DEF KeysOf, Surjection
<1> HIDE DEF key
<1>6. IsFiniteSet(KeysOf(c))
  BY <1>4, <1>5, FS_Surjection
<1>7. \A p \in FieldPairs(c) : p[1].loc \in Nat /\ p[2].loc \in Nat
  BY <1>1, <1>3
<1>8. KeysOf(c) \in SUBSET PairsOf
  BY <1>7 DEF KeysOf, PairsOf
<1> QED BY <1>6, <1>8

\* The order of the keys.
LEMMA OrderFacts ==
  ASSUME SetupAssumption, world \in Worlds, NEW c \in Codes
  PROVE  /\ Order(c) \in Seq(PairsOf) /\ Len(Order(c)) \in Nat
         /\ \A i \in 1 .. Len(Order(c)) : Order(c)[i] \in KeysOf(c)
         /\ \A i, j \in 1 .. Len(Order(c)) : i # j => Order(c)[i] # Order(c)[j]
         /\ \A k \in KeysOf(c) : \E i \in 1 .. Len(Order(c)) : Order(c)[i] = k
<1> DEFINE S == KeysOf(c)  s == Order(c)
<1>1. S \in SUBSET PairsOf /\ IsFiniteSet(S)
  BY KeysFinite
<1>2. /\ s \in Seq(S)
      /\ \A i, j \in 1 .. Len(s) : i # j => s[i] # s[j]
      /\ \A k \in S : \E i \in 1 .. Len(s) : s[i] = k
  <2>1. s = Sorted(S)
    BY DEF Order
  <2> HIDE DEF S, s
  <2> QED BY <1>1, <2>1, SortedLists
<1> HIDE DEF S, s
<1>3. s \in Seq(PairsOf)
  BY <1>1, <1>2, SeqMonotonic
<1>4. Len(s) \in Nat /\ \A i \in 1 .. Len(s) : s[i] \in S
  BY <1>2, LenProperties, ElementOfSeq
<1> QED BY <1>2, <1>3, <1>4 DEF S, s

\* A pair reversed twice is itself.
LEMMA RevTwice == \A k \in PairsOf : Rev(k) \in PairsOf /\ Rev(Rev(k)) = k
BY DEF Rev, PairsOf

\* The weights of a step are of different data; the two objects of each.
LEMMA EdgeFacts ==
  ASSUME SetupAssumption, world \in Worlds
  PROVE  /\ Weighed \in Nat
         /\ \A i \in 1 .. Weighed :
              From(i) \in Codes /\ Key(i) \in KeysOf(From(i)) /\ Key(i) \in PairsOf
         /\ \A i, j \in 1 .. Weighed : From(i) = From(j) /\ Key(i) = Key(j) => i = j
         /\ \A c \in Codes : \A k \in KeysOf(c) : \E i \in 1 .. Weighed : From(i) = c /\ Key(i) = k
<1> DEFINE a == Order("A")  b == Order("B")
<1>1. /\ Len(a) \in Nat /\ Len(b) \in Nat
      /\ \A i \in 1 .. Len(a) : a[i] \in KeysOf("A")
      /\ \A i \in 1 .. Len(b) : b[i] \in KeysOf("B")
      /\ \A i, j \in 1 .. Len(a) : i # j => a[i] # a[j]
      /\ \A i, j \in 1 .. Len(b) : i # j => b[i] # b[j]
      /\ \A k \in KeysOf("A") : \E i \in 1 .. Len(a) : a[i] = k
      /\ \A k \in KeysOf("B") : \E i \in 1 .. Len(b) : b[i] = k
  BY OrderFacts, TwoCodes
<1>2. Weighed = Len(a) + Len(b)
  BY DEF Weighed
<1>3. \A i : From(i) = (IF i <= Len(a) THEN "A" ELSE "B")
             /\ Key(i) = (IF i <= Len(a) THEN a[i] ELSE b[i - Len(a)])
  BY DEF From, Key
<1> HIDE DEF a, b
<1>4. ASSUME NEW i \in 1 .. Weighed
      PROVE  From(i) \in Codes /\ Key(i) \in KeysOf(From(i)) /\ Key(i) \in PairsOf
  <2>0. KeysOf("A") \subseteq PairsOf /\ KeysOf("B") \subseteq PairsOf
    BY KeysFinite, TwoCodes
  <2>1. CASE i <= Len(a)
    <3>1. From(i) = "A" /\ Key(i) = a[i] /\ i \in 1 .. Len(a)
      BY <1>1, <1>2, <1>3, <2>1
    <3>2. a[i] \in KeysOf("A")
      BY <1>1, <3>1
    <3> QED BY <2>0, <3>1, <3>2, TwoCodes
  <2>2. CASE ~(i <= Len(a))
    <3>1. From(i) = "B" /\ Key(i) = b[i - Len(a)] /\ i - Len(a) \in 1 .. Len(b)
      BY <1>1, <1>2, <1>3, <2>2
    <3>2. b[i - Len(a)] \in KeysOf("B")
      BY <1>1, <3>1
    <3> QED BY <2>0, <3>1, <3>2, TwoCodes
  <2> QED BY <2>1, <2>2
<1>5. ASSUME NEW i \in 1 .. Weighed, NEW j \in 1 .. Weighed, From(i) = From(j), Key(i) = Key(j)
      PROVE  i = j
  <2>1. CASE i <= Len(a)
    <3>1. j <= Len(a)
      BY <1>3, <1>5, <2>1
    <3> QED BY <1>1, <1>2, <1>3, <1>5, <2>1, <3>1
  <2>2. CASE ~(i <= Len(a))
    <3>1. ~(j <= Len(a))
      BY <1>3, <1>5, <2>2
    <3>2. i - Len(a) \in 1 .. Len(b) /\ j - Len(a) \in 1 .. Len(b)
      BY <1>1, <1>2, <2>2, <3>1
    <3>3. b[i - Len(a)] = b[j - Len(a)]
      BY <1>3, <1>5, <2>2, <3>1
    <3>4. i - Len(a) = j - Len(a)
      BY <1>1, <3>2, <3>3
    <3> QED BY <1>1, <3>4
  <2> QED BY <2>1, <2>2
<1>6. ASSUME NEW c \in Codes, NEW k \in KeysOf(c)
      PROVE  \E i \in 1 .. Weighed : From(i) = c /\ Key(i) = k
  <2>1. CASE c = "A"
    <3>1. PICK i \in 1 .. Len(a) : a[i] = k
      BY <1>1, <1>6, <2>1
    <3>2. i \in 1 .. Weighed /\ From(i) = c /\ Key(i) = k
      BY <1>1, <1>2, <1>3, <2>1, <3>1
    <3> QED BY <3>2
  <2>2. CASE c = "B"
    <3>1. PICK i \in 1 .. Len(b) : b[i] = k
      BY <1>1, <1>6, <2>2
    <3>2. Len(a) + i \in 1 .. Weighed /\ ~(Len(a) + i <= Len(a)) /\ Len(a) + i - Len(a) = i
      BY <1>1, <1>2
    <3>3. From(Len(a) + i) = c /\ Key(Len(a) + i) = k
      BY <1>3, <2>2, <3>1, <3>2
    <3> QED BY <3>2, <3>3
  <2> QED BY <2>1, <2>2, TwoCodes
<1> QED BY <1>1, <1>2, <1>4, <1>5, <1>6

\* What an object of a weight connects is what the weight is of.
LEMMA EndsOf ==
  ASSUME SetupAssumption, world \in Worlds, NEW i \in 1 .. Weighed
  PROVE  /\ Sender(i).code = From(i) /\ Receiver(i).code = Other[From(i)]
         /\ Ends(Sender(i), From(i)) = Edge(i) /\ Ends(Receiver(i), Other[From(i)]) = Edge(i)
         /\ Partner(Sender(i), From(i)) = Receiver(i)
         /\ Partner(Receiver(i), Other[From(i)]) = Sender(i)
<1>1. From(i) \in Codes /\ Key(i) \in PairsOf /\ Rev(Rev(Key(i))) = Key(i)
      /\ Other[Other[From(i)]] = From(i)
  BY EdgeFacts, RevTwice, CodeFacts
<1> QED BY <1>1 DEF Sender, Receiver, Obj, Ends, Edge, Partner

\* Each object has one weight, and every object of a rank has one.
LEMMA OneWeight ==
  ASSUME SetupAssumption, world \in Worlds, NEW r \in Ranks
  PROVE  /\ \A i, j \in 1 .. Weighed : \A o \in ObjsAt(r, i) :
              Ends(o, o.code) = Edge(i) /\ (o \in ObjsAt(r, j) => i = j)
         /\ AllObjs(r) = UNION {ObjsAt(r, i) : i \in 1 .. Weighed}
<1>1. ASSUME NEW i \in 1 .. Weighed, NEW o \in ObjsAt(r, i) PROVE Ends(o, o.code) = Edge(i)
  BY <1>1, EndsOf DEF ObjsAt
<1>2. ASSUME NEW i \in 1 .. Weighed, NEW j \in 1 .. Weighed, NEW o \in ObjsAt(r, i),
             o \in ObjsAt(r, j)
      PROVE  i = j
  <2>1. Edge(i) = Edge(j)
    BY <1>1, <1>2
  <2>2. From(i) = From(j) /\ Key(i) = Key(j)
    BY <2>1 DEF Edge
  <2> QED BY <2>2, EdgeFacts
<1>3. ASSUME NEW o \in AllObjs(r) PROVE \E i \in 1 .. Weighed : o \in ObjsAt(r, i)
  <2>1. PICK c \in world.codes[r] : o \in ObjsOf(c)
    BY DEF AllObjs
  <2>2. c \in Codes /\ Other[c] \in Codes /\ Other[Other[c]] = c
    BY CodeFacts
  <2>3. CASE \E k \in KeysOf(c) : o = Obj(c, "send", k)
    <3>1. PICK k \in KeysOf(c) : o = Obj(c, "send", k)
      BY <2>3
    <3>2. PICK i \in 1 .. Weighed : From(i) = c /\ Key(i) = k
      BY <2>2, <3>1, EdgeFacts
    <3>3. o = Sender(i) /\ o.code = c
      BY <3>1, <3>2 DEF Sender, Obj
    <3> QED BY <2>1, <3>3 DEF ObjsAt
  <2>4. CASE \E k \in KeysOf(Other[c]) : o = Obj(c, "recv", Rev(k))
    <3>1. PICK k \in KeysOf(Other[c]) : o = Obj(c, "recv", Rev(k))
      BY <2>4
    <3>2. PICK i \in 1 .. Weighed : From(i) = Other[c] /\ Key(i) = k
      BY <2>2, <3>1, EdgeFacts
    <3>3. o = Receiver(i) /\ o.code = c
      BY <2>2, <3>1, <3>2 DEF Receiver, Obj
    <3> QED BY <2>1, <3>3 DEF ObjsAt
  <2> QED BY <2>1, <2>3, <2>4 DEF ObjsOf
<1>4. ASSUME NEW i \in 1 .. Weighed, NEW o \in ObjsAt(r, i) PROVE o \in AllObjs(r)
  <2>1. o \in {Sender(i), Receiver(i)} /\ o.code \in world.codes[r]
    BY DEF ObjsAt
  <2>2. From(i) \in Codes /\ Key(i) \in KeysOf(From(i)) /\ Other[Other[From(i)]] = From(i)
    BY EdgeFacts, CodeFacts
  <2>3. CASE o = Sender(i)
    <3>1. o \in ObjsOf(From(i)) /\ o.code = From(i)
      BY <2>2, <2>3 DEF Sender, Obj, ObjsOf
    <3> QED BY <2>1, <3>1 DEF AllObjs
  <2>4. CASE o = Receiver(i)
    <3>1. o \in ObjsOf(Other[From(i)]) /\ o.code = Other[From(i)]
      BY <2>2, <2>4 DEF Receiver, Obj, ObjsOf
    <3> QED BY <2>1, <3>1 DEF AllObjs
  <2> QED BY <2>1, <2>3, <2>4
<1>5. AllObjs(r) = UNION {ObjsAt(r, i) : i \in 1 .. Weighed}
  BY <1>3, <1>4
<1> QED BY <1>1, <1>2, <1>5

-----------------------------------------------------------------------------
(* The lists of calls. *)

Whats == {"type", "fields", "sends"}
MPICalls ==
  [op : {"create_group", "create", "objects", "order"}] \cup [op : {"copy"}, what : Whats]
    \cup [op : {"sendrecv", "bcast"}, code : Codes, what : Whats]

\* The first of some calls, and the rest of them.
LEMMA HeadTail ==
  ASSUME NEW S, NEW x \in S, NEW s \in Seq(S)
  PROVE  /\ <<x>> \o s \in Seq(S) /\ <<x>> \o s # <<>>
         /\ Head(<<x>> \o s) = x /\ Tail(<<x>> \o s) = s
<1> DEFINE t == <<x>> \o s
<1>1. <<x>> \in Seq(S) /\ Len(<<x>>) = 1 /\ <<x>>[1] = x
  OBVIOUS
<1>2. /\ t \in Seq(S) /\ Len(t) = 1 + Len(s) /\ Len(s) \in Nat
      /\ \A i \in 1 .. 1 + Len(s) : t[i] = IF i <= 1 THEN x ELSE s[i - 1]
  BY <1>1, ConcatProperties
<1> HIDE DEF t
<1>3. t # <<>>
  BY <1>2
<1>4. Head(t) = x
  BY <1>2, <1>3
<1>5. Tail(t) \in Seq(S) /\ Len(Tail(t)) = Len(s) /\ \A i \in 1 .. Len(s) : Tail(t)[i] = t[i + 1]
  BY <1>2, <1>3, HeadTailProperties
<1>6. \A i \in 1 .. Len(s) : t[i + 1] = s[i]
  BY <1>2
<1>7. Tail(t) = s
  BY <1>5, <1>6, SeqEqual
<1> QED BY <1>2, <1>3, <1>4, <1>7 DEF t

\* How lists may be put together.
Cat(s, t) == s \o t

\* Lists of calls put together are lists, in whatever grouping.
LEMMA CatFacts ==
  ASSUME NEW S
  PROVE  /\ \A s, t \in Seq(S) : Cat(s, t) \in Seq(S)
         /\ \A s, t, u \in Seq(S) : Cat(Cat(s, t), u) = Cat(s, Cat(t, u))
<1>1. \A s, t \in Seq(S) : Cat(s, t) \in Seq(S)
  BY ConcatProperties DEF Cat
<1>2. \A s, t, u \in Seq(S) : Cat(Cat(s, t), u) = Cat(s, Cat(t, u))
  BY ConcatAssociative DEF Cat
<1> QED BY <1>1, <1>2

\* Four lists put together one after the other.
LEMMA Regroup ==
  ASSUME NEW S, NEW s \in Seq(S), NEW t \in Seq(S), NEW u \in Seq(S), NEW v \in Seq(S)
  PROVE  Cat(Cat(Cat(s, t), u), v) = Cat(s, Cat(t, Cat(u, v)))
<1>1. Cat(s, t) \in Seq(S) /\ Cat(u, v) \in Seq(S)
  BY CatFacts
<1>2. Cat(Cat(Cat(s, t), u), v) = Cat(Cat(s, t), Cat(u, v))
  BY <1>1, CatFacts
<1>3. Cat(Cat(s, t), Cat(u, v)) = Cat(s, Cat(t, Cat(u, v)))
  BY <1>1, CatFacts
<1> QED BY <1>2, <1>3, Zenon

\* The calls of a rank are MPI calls.
LEMMA CallTypes ==
  ASSUME SetupAssumption, world \in Worlds, NEW r \in Ranks, NEW k \in 1 .. 3,
         NEW a \in Codes, NEW v \in Codes
  PROVE  /\ AskCalls(r, a, What(k)) \in Seq(MPICalls) /\ Bcast(v, What(k)) \in MPICalls
         /\ After(r, k) \in Seq(MPICalls) /\ Seconds(r, v, k) \in Seq(MPICalls)
         /\ Firsts(r, v, k) \in Seq(MPICalls) /\ Block(r, a, v, k) \in Seq(MPICalls)
         /\ (IF Joint(r) THEN <<Bcast(Other[v], What(k))>> ELSE <<>>) \in Seq(MPICalls)
         /\ ExchangeCalls(r, What(k)) \in Seq(MPICalls)
<1>1. ASSUME NEW b \in Codes, NEW w \in Whats
      PROVE  Bcast(b, w) \in MPICalls /\ AskCalls(r, b, w) \in Seq(MPICalls)
  <2>1. Bcast(b, w) \in MPICalls /\ Ask(b, w) \in MPICalls /\ [op |-> "copy", what |-> w] \in MPICalls
    BY DEF Bcast, Ask, MPICalls
  <2>2. <<Ask(b, w)>> \in Seq(MPICalls) /\ <<[op |-> "copy", what |-> w]>> \in Seq(MPICalls)
        /\ <<>> \in Seq(MPICalls)
    BY <2>1
  <2> QED BY <2>1, <2>2 DEF AskCalls
<1>2. What(k) \in Whats /\ "sends" \in Whats
  BY DEF What, Whats
<1>3. Main(r) \in Codes /\ Other[v] \in Codes /\ "A" \in Codes /\ "B" \in Codes
  BY CodeFacts, TwoCodes
<1>4. \A w \in Whats : ExchangeCalls(r, w) \in Seq(MPICalls)
  BY <1>1, <1>3, ConcatProperties DEF ExchangeCalls
<1>5. \A x \in {"create_group", "create", "objects", "order"} : <<Local(x)>> \in Seq(MPICalls)
  BY DEF Local, MPICalls
<1>6. After(r, k) \in Seq(MPICalls)
  <2>1. ExchangeCalls(r, "sends") \o <<Local("order")>> \in Seq(MPICalls)
    BY <1>2, <1>4, <1>5, ConcatProperties
  <2>2. <<Local("objects")>> \o (ExchangeCalls(r, "sends") \o <<Local("order")>>) \in Seq(MPICalls)
    BY <1>5, <2>1, ConcatProperties
  <2> QED BY <1>5, <2>2 DEF After
<1>7. (IF Joint(r) THEN <<Bcast(Other[v], What(k))>> ELSE <<>>) \in Seq(MPICalls)
  BY <1>1, <1>2, <1>3
<1>8. Seconds(r, v, k) \in Seq(MPICalls)
  BY <1>6, <1>7, ConcatProperties DEF Seconds
<1>9. <<Bcast(v, What(k))>> \in Seq(MPICalls)
  BY <1>1, <1>2
<1>10. Firsts(r, v, k) \in Seq(MPICalls)
  BY <1>8, <1>9, ConcatProperties DEF Firsts
<1>11. Block(r, a, v, k) \in Seq(MPICalls)
  BY <1>1, <1>2, <1>10, ConcatProperties DEF Block
<1> QED BY <1>1, <1>2, <1>4, <1>6, <1>7, <1>8, <1>10, <1>11

\* The lists the user's calls start are those of the stages.
LEMMA CallLists ==
  ASSUME SetupAssumption, world \in Worlds, NEW r \in Ranks
  PROVE  /\ \A v \in Codes : CreateCalls(r, v) = <<Local("create_group")>> \o Block(r, v, v, 1)
         /\ \A k \in {2, 3} :
              ExchangeCalls(r, What(k)) \o After(r, k) = Block(r, Asker(r, k), Main(r), k)
         /\ After(r, 2) = <<Local("objects")>> \o Block(r, Asker(r, 3), Main(r), 3)
         /\ (ExchangeCalls(r, "fields") \o <<Local("objects")>> \o ExchangeCalls(r, "sends"))
              \o <<Local("order")>> = Block(r, Asker(r, 2), Main(r), 2)
<1>1. Main(r) \in Codes /\ (Joint(r) => Other[Main(r)] = "B")
  BY CodeFacts, TwoCodes
<1>2. \A x \in {"create_group", "create", "objects", "order"} : <<Local(x)>> \in Seq(MPICalls)
  BY DEF Local, MPICalls
<1>3. ASSUME NEW v \in Codes
      PROVE  CreateCalls(r, v) = <<Local("create_group")>> \o Block(r, v, v, 1)
  <2> DEFINE g == <<Local("create_group")>>  s == AskCalls(r, v, "type")
             t == <<Bcast(v, "type")>>
             u == IF Joint(r) THEN <<Bcast(Other[v], "type")>> ELSE <<>>
             e == <<Local("create")>>
  <2>1. s \in Seq(MPICalls) /\ t \in Seq(MPICalls) /\ u \in Seq(MPICalls)
    <3>1. What(1) = "type" /\ 1 \in 1 .. 3
      BY DEF What
    <3>2. /\ Bcast(v, What(1)) \in MPICalls /\ AskCalls(r, v, What(1)) \in Seq(MPICalls)
          /\ (IF Joint(r) THEN <<Bcast(Other[v], What(1))>> ELSE <<>>) \in Seq(MPICalls)
      BY <3>1, CallTypes
    <3> QED BY <3>1, <3>2
  <2>2. g \in Seq(MPICalls) /\ e \in Seq(MPICalls)
    BY <1>2
  <2>3. CreateCalls(r, v) = Cat(Cat(Cat(Cat(g, s), t), u), e)
    BY DEF CreateCalls, Cat
  <2>4. Block(r, v, v, 1) = Cat(s, Cat(t, Cat(u, e)))
    BY DEF Block, Firsts, Seconds, After, What, Cat
  <2> HIDE DEF g, s, t, u, e
  <2>5. Cat(g, s) \in Seq(MPICalls) /\ Cat(u, e) \in Seq(MPICalls)
    BY <2>1, <2>2, CatFacts
  <2>6. Cat(t, Cat(u, e)) \in Seq(MPICalls)
    BY <2>1, <2>5, CatFacts
  <2>7. Cat(Cat(Cat(Cat(g, s), t), u), e) = Cat(Cat(g, s), Cat(t, Cat(u, e)))
    BY <2>1, <2>2, <2>5, Regroup
  <2>8. Cat(Cat(g, s), Cat(t, Cat(u, e))) = Cat(g, Cat(s, Cat(t, Cat(u, e))))
    BY <2>1, <2>2, <2>6, CatFacts
  <2>9. CreateCalls(r, v) = Cat(g, Block(r, v, v, 1))
    BY <2>3, <2>4, <2>7, <2>8, Zenon
  <2> QED BY <2>9 DEF g, Cat
<1>4. ASSUME NEW k \in {2, 3}
      PROVE  ExchangeCalls(r, What(k)) \o After(r, k) = Block(r, Asker(r, k), Main(r), k)
  <2> DEFINE s == AskCalls(r, Asker(r, k), What(k))  t == <<Bcast(Main(r), What(k))>>
             u == IF Joint(r) THEN <<Bcast(Other[Main(r)], What(k))>> ELSE <<>>
             e == After(r, k)
  <2>1. s \in Seq(MPICalls) /\ t \in Seq(MPICalls) /\ u \in Seq(MPICalls) /\ e \in Seq(MPICalls)
    <3>1. Asker(r, k) \in Codes /\ k \in 1 .. 3
      BY <1>1, <1>4, TwoCodes DEF Asker
    <3>2. /\ Bcast(Main(r), What(k)) \in MPICalls /\ After(r, k) \in Seq(MPICalls)
          /\ (IF Joint(r) THEN <<Bcast(Other[Main(r)], What(k))>> ELSE <<>>) \in Seq(MPICalls)
      BY <1>1, <3>1, CallTypes
    <3>3. AskCalls(r, Asker(r, k), What(k)) \in Seq(MPICalls)
      BY <1>1, <3>1, CallTypes
    <3> QED BY <3>2, <3>3
  <2>2. ExchangeCalls(r, What(k)) = Cat(Cat(s, t), u)
    <3>1. AskCalls(r, Asker(r, k), What(k)) =
            IF Joint(r) /\ Root("A") # r
            THEN AskCalls(r, "B", What(k)) ELSE AskCalls(r, Main(r), What(k))
      BY <1>4 DEF Asker
    <3>2. u = IF Joint(r) THEN <<Bcast("B", What(k))>> ELSE <<>>
      BY <1>1
    <3> QED BY <3>1, <3>2, Zenon DEF ExchangeCalls, Cat
  <2>3. Block(r, Asker(r, k), Main(r), k) = Cat(s, Cat(t, Cat(u, e)))
    BY DEF Block, Firsts, Seconds, Cat
  <2> HIDE DEF s, t, u, e
  <2>4. Cat(Cat(Cat(s, t), u), e) = Cat(s, Cat(t, Cat(u, e)))
    BY <2>1, Regroup
  <2>5. Cat(ExchangeCalls(r, What(k)), e) = Block(r, Asker(r, k), Main(r), k)
    BY <2>2, <2>3, <2>4, Zenon
  <2> QED BY <2>5 DEF e, Cat
<1>5. After(r, 2) = <<Local("objects")>> \o Block(r, Asker(r, 3), Main(r), 3)
  <2>1. ExchangeCalls(r, "sends") \o <<Local("order")>> = Block(r, Asker(r, 3), Main(r), 3)
    BY <1>4 DEF What, After
  <2> QED BY <2>1 DEF After
<1>6. (ExchangeCalls(r, "fields") \o <<Local("objects")>> \o ExchangeCalls(r, "sends"))
        \o <<Local("order")>> = Block(r, Asker(r, 2), Main(r), 2)
  <2> DEFINE s == ExchangeCalls(r, "fields")  t == <<Local("objects")>>
             u == ExchangeCalls(r, "sends")  e == <<Local("order")>>
  <2>1. s \in Seq(MPICalls) /\ u \in Seq(MPICalls)
    <3>1. What(2) = "fields" /\ What(3) = "sends" /\ 2 \in 1 .. 3 /\ 3 \in 1 .. 3
      BY DEF What
    <3> QED BY <1>1, <3>1, CallTypes
  <2>2. t \in Seq(MPICalls) /\ e \in Seq(MPICalls)
    BY <1>2
  <2>3. Cat(s, Cat(t, Cat(u, e))) = Block(r, Asker(r, 2), Main(r), 2)
    BY SMTT(30), <1>4 DEF What, After, Cat
  <2> HIDE DEF s, t, u, e
  <2>4. Cat(Cat(Cat(s, t), u), e) = Cat(s, Cat(t, Cat(u, e)))
    BY <2>1, <2>2, Regroup
  <2>5. Cat(Cat(Cat(s, t), u), e) = Block(r, Asker(r, 2), Main(r), 2)
    BY <2>3, <2>4, Zenon
  <2> QED BY <2>5 DEF s, t, u, e, Cat
<1> QED BY <1>3, <1>4, <1>5, <1>6

-----------------------------------------------------------------------------
(* The objects and the calls a rank makes from what it knows. *)

\* The reverse of a pair.
LEMMA RevOf == \A a, b : Rev(<<a, b>>) = <<b, a>>
BY DEF Rev

\* The objects made by a rank of one code.
LEMMA OwnOnes ==
  ASSUME SetupAssumption, world \in Worlds, NEW r \in Ranks,
         got[r][Main(r)].fields = world.fields[Other[Main(r)]]
  PROVE  OwnObjects(r) = ObjsOf(Main(r))
<1> DEFINE m == Main(r)  n == Other[Main(r)]
           KeyOf(p) == <<p[1].loc, p[2].loc>>
           SendPairs == {q \in Matches(r) : Sends(q[1])}
           RecvPairs == {q \in Matches(r) : Recvs(q[1])}
<1>1. m \in Codes /\ n \in Codes /\ Other[n] = m
  BY CodeFacts
<1>2. Matches(r) = {p \in world.fields[m] \X world.fields[n] : Completes(p[1], p[2])}
  BY DEF Matches, Completes
<1>3. SendPairs = FieldPairs(m)
  BY <1>2 DEF FieldPairs
<1>4. \A p \in RecvPairs : <<p[2], p[1]>> \in FieldPairs(n)
  BY <1>1, <1>2 DEF FieldPairs, Completes
<1>5. \A q \in FieldPairs(n) : <<q[2], q[1]>> \in RecvPairs
  BY <1>1, <1>2 DEF FieldPairs, Completes
<1>6. OwnObjects(r) = {Obj(m, "send", KeyOf(p)) : p \in SendPairs}
                        \cup {Obj(m, "recv", KeyOf(p)) : p \in RecvPairs}
  BY DEF OwnObjects
<1>7. {Obj(m, "send", KeyOf(p)) : p \in SendPairs} = {Obj(m, "send", key) : key \in KeysOf(m)}
  <2>1. KeysOf(m) = {KeyOf(p) : p \in SendPairs}
    BY <1>3 DEF KeysOf
  <2> HIDE DEF SendPairs, KeyOf, m, n
  <2> QED BY <2>1
<1>8. ASSUME NEW p \in RecvPairs
      PROVE  \E key \in KeysOf(n) : Obj(m, "recv", KeyOf(p)) = Obj(m, "recv", Rev(key))
  <2>1. <<p[2].loc, p[1].loc>> \in KeysOf(n)
    <3> DEFINE q == <<p[2], p[1]>>
    <3>1. q[1] = p[2] /\ q[2] = p[1] /\ q \in FieldPairs(n)
      BY <1>4
    <3>2. <<q[1].loc, q[2].loc>> \in KeysOf(n)
      BY <3>1 DEF KeysOf
    <3> HIDE DEF q
    <3> QED BY <3>1, <3>2
  <2>2. Rev(<<p[2].loc, p[1].loc>>) = KeyOf(p)
    BY RevOf
  <2> QED BY <2>1, <2>2
<1>9. ASSUME NEW key \in KeysOf(n)
      PROVE  \E p \in RecvPairs : Obj(m, "recv", KeyOf(p)) = Obj(m, "recv", Rev(key))
  <2>1. PICK q \in FieldPairs(n) : key = <<q[1].loc, q[2].loc>>
    BY DEF KeysOf
  <2>2. <<q[2], q[1]>> \in RecvPairs /\ KeyOf(<<q[2], q[1]>>) = Rev(key)
    BY <1>5, <2>1, RevOf
  <2> QED BY <2>2
<1>10. {Obj(m, "recv", KeyOf(p)) : p \in RecvPairs} = {Obj(m, "recv", Rev(key)) : key \in KeysOf(n)}
  <2> HIDE DEF RecvPairs, KeyOf, m, n
  <2> QED BY <1>8, <1>9
<1> QED BY <1>6, <1>7, <1>10 DEF ObjsOf

\* The partners of the objects of a code are those of the other.
LEMMA OtherOnes ==
  ASSUME SetupAssumption, world \in Worlds, NEW c \in Codes
  PROVE  {Partner(o, c) : o \in ObjsOf(c)} = ObjsOf(Other[c])
<1>1. /\ Other[c] \in Codes /\ Other[Other[c]] = c
      /\ KeysOf(c) \subseteq PairsOf /\ KeysOf(Other[c]) \subseteq PairsOf
  BY CodeFacts, KeysFinite
<1>2. ASSUME NEW o \in ObjsOf(c) PROVE Partner(o, c) \in ObjsOf(Other[c])
  <2>1. CASE \E k \in KeysOf(c) : o = Obj(c, "send", k)
    <3>1. PICK k \in KeysOf(c) : o = Obj(c, "send", k)
      BY <2>1
    <3>2. Partner(o, c) = Obj(Other[c], "recv", Rev(k))
      BY <3>1 DEF Partner, Obj
    <3> QED BY <1>1, <3>2 DEF ObjsOf
  <2>2. CASE \E k \in KeysOf(Other[c]) : o = Obj(c, "recv", Rev(k))
    <3>1. PICK k \in KeysOf(Other[c]) : o = Obj(c, "recv", Rev(k))
      BY <2>2
    <3>2. Partner(o, c) = Obj(Other[c], "send", Rev(Rev(k))) /\ Rev(Rev(k)) = k
      BY <1>1, <3>1, RevTwice DEF Partner, Obj
    <3> QED BY <1>1, <3>2 DEF ObjsOf
  <2> QED BY <2>1, <2>2 DEF ObjsOf
<1>3. ASSUME NEW p \in ObjsOf(Other[c]) PROVE \E o \in ObjsOf(c) : p = Partner(o, c)
  <2>1. CASE \E k \in KeysOf(Other[c]) : p = Obj(Other[c], "send", k)
    <3>1. PICK k \in KeysOf(Other[c]) : p = Obj(Other[c], "send", k)
      BY <2>1
    <3>2. Partner(Obj(c, "recv", Rev(k)), c) = p
      BY <1>1, <3>1, RevTwice DEF Partner, Obj
    <3> QED BY <3>2 DEF ObjsOf
  <2>2. CASE \E k \in KeysOf(Other[Other[c]]) : p = Obj(Other[c], "recv", Rev(k))
    <3>1. PICK k \in KeysOf(c) : p = Obj(Other[c], "recv", Rev(k))
      BY <1>1, <2>2
    <3>2. Partner(Obj(c, "send", k), c) = p
      BY <3>1 DEF Partner, Obj
    <3> QED BY <3>2 DEF ObjsOf
  <2> QED BY <2>1, <2>2 DEF ObjsOf
<1> QED BY <1>2, <1>3

\* The objects a rank makes are those of its codes.
LEMMA MadeObjects ==
  ASSUME SetupAssumption, world \in Worlds, NEW r \in Ranks,
         got[r][Main(r)].fields = world.fields[Other[Main(r)]]
  PROVE  NewObjects(r) = AllObjs(r)
<1>1. OwnObjects(r) = ObjsOf(Main(r)) /\ Main(r) \in Codes
  BY OwnOnes, CodeFacts
<1>2. CASE Joint(r)
  <2>1. world.codes[r] = {Main(r), Other[Main(r)]}
    BY <1>2, CodeFacts, TwoCodes DEF Joint
  <2>2. NewObjects(r) = ObjsOf(Main(r)) \cup ObjsOf(Other[Main(r)])
    BY <1>1, <1>2, OtherOnes DEF NewObjects
  <2> QED BY <2>1, <2>2 DEF AllObjs
<1>3. CASE ~Joint(r)
  <2>1. world.codes[r] = {Main(r)}
    BY <1>3, CodeFacts
  <2>2. NewObjects(r) = ObjsOf(Main(r))
    BY <1>1, <1>3 DEF NewObjects
  <2> QED BY <2>1, <2>2 DEF AllObjs
<1> QED BY <1>2, <1>3

\* The keys of its send objects, in their order.
LEMMA KeysHeld ==
  ASSUME SetupAssumption, world \in Worlds, NEW r \in Ranks, NEW c \in world.codes[r],
         DOMAIN objects[r] = AllObjs(r)
  PROVE  SendKeys(r, c) = Order(c)
<1> DEFINE Mine == {o.key : o \in {x \in AllObjs(r) : x.code = c /\ x.dir = "send"}}
<1>1. \A d \in world.codes[r] : \A o \in ObjsOf(d) : o.code = d
  BY DEF ObjsOf, Obj
<1>2. \A k \in KeysOf(c) : Obj(c, "send", k) \in AllObjs(r)
  BY DEF AllObjs, ObjsOf
<1>3. ASSUME NEW o \in AllObjs(r), o.code = c, o.dir = "send" PROVE o.key \in KeysOf(c)
  <2>1. o \in ObjsOf(c)
    BY <1>1, <1>3 DEF AllObjs
  <2> QED BY <1>3, <2>1 DEF ObjsOf, Obj
<1>4. Mine = KeysOf(c)
  <2>1. ASSUME NEW k \in KeysOf(c) PROVE k \in Mine
    <3> DEFINE o == Obj(c, "send", k)
    <3>1. o \in AllObjs(r) /\ o.code = c /\ o.dir = "send" /\ o.key = k
      BY <1>2 DEF Obj
    <3> HIDE DEF o
    <3> QED BY <3>1
  <2> QED BY <1>3, <2>1
<1> QED BY <1>4 DEF SendKeys, Order

\* A function on 1 .. n is a sequence of length n.
LEMMA FunSeq ==
  ASSUME NEW n \in Nat, NEW S, NEW s \in [1 .. n -> S]
  PROVE  s \in Seq(S) /\ Len(s) = n
OBVIOUS

\* Two lists of calls put together.
LEMMA TwoLists ==
  ASSUME NEW a \in Nat, NEW b \in Nat, NEW f, DOMAIN f = 1 .. a + b,
         NEW s, s = [i \in 1 .. a |-> f[i]], NEW t, t = [i \in 1 .. b |-> f[a + i]],
         f = [i \in 1 .. a + b |-> f[i]]
  PROVE  s \o t = f
<1> DEFINE S == {f[i] : i \in 1 .. a + b}
<1>1. s \in Seq(S) /\ Len(s) = a
  <2>1. \A i \in 1 .. a : f[i] \in S
    OBVIOUS
  <2> HIDE DEF S
  <2>2. s \in [1 .. a -> S]
    BY <2>1
  <2> QED BY <2>2, FunSeq
<1>2. t \in Seq(S) /\ Len(t) = b
  <2>1. \A i \in 1 .. b : f[a + i] \in S
    OBVIOUS
  <2> HIDE DEF S
  <2>2. t \in [1 .. b -> S]
    BY <2>1
  <2> QED BY <2>2, FunSeq
<1>3. f \in Seq(S) /\ Len(f) = a + b
  OBVIOUS
<1> HIDE DEF S
<1>4. /\ s \o t \in Seq(S) /\ Len(s \o t) = a + b
      /\ \A i \in 1 .. a + b : (s \o t)[i] = IF i <= a THEN s[i] ELSE t[i - a]
  BY <1>1, <1>2, ConcatProperties
<1>5. \A i \in 1 .. a + b : (s \o t)[i] = f[i]
  BY <1>4
<1> DEFINE u == s \o t
<1>6. u \in Seq(S) /\ Len(u) = Len(f) /\ \A i \in 1 .. Len(u) : u[i] = f[i]
  BY <1>3, <1>4, <1>5
<1> HIDE DEF u
<1>7. u = f
  BY <1>3, <1>6, SeqEqual
<1> QED BY <1>7 DEF u

\* The objects on either side of the weights of a rank.
LEMMA ListsHeld ==
  ASSUME SetupAssumption, world \in Worlds, NEW r \in Ranks, NEW c \in world.codes[r],
         DOMAIN objects[r] = AllObjs(r), Right(r, c, 3)
  PROVE  /\ SendObjs(r, c) = [i \in 1 .. Len(Order(c)) |-> Obj(c, "send", Order(c)[i])]
         /\ RecvObjs(r, c) =
              [i \in 1 .. Len(Order(Other[c])) |-> Obj(c, "recv", Rev(Order(Other[c])[i]))]
<1>1. c \in Codes /\ Other[c] \in Codes
  BY CodeFacts
<1>2. DOMAIN Order(c) = 1 .. Len(Order(c)) /\ DOMAIN Order(Other[c]) = 1 .. Len(Order(Other[c]))
  BY <1>1, OrderFacts, LenProperties
<1>3. SendKeys(r, c) = Order(c)
  BY KeysHeld
<1>4. got[r][c].sends = Order(Other[c])
  BY DEF Right, Value, What
<1> QED BY <1>2, <1>3, <1>4 DEF SendObjs, RecvObjs

\* The calls for the weights are in the order of the edges.
LEMMA WeightsHeld ==
  ASSUME SetupAssumption, world \in Worlds, NEW r \in Ranks,
         DOMAIN objects[r] = AllObjs(r), Learned(r, 3)
  PROVE  WeightsCalls(r) = Weights(r)
<1> DEFINE a == Len(Order("A"))  b == Len(Order("B"))  f == Weights(r)
           Single(s)   == [i \in DOMAIN s |-> Compute(<<s[i]>>)]
           Pairs(s, t) == [i \in DOMAIN s |-> Compute(<<s[i], t[i]>>)]
<1>1. a \in Nat /\ b \in Nat /\ Weighed = a + b
  BY OrderFacts, TwoCodes DEF Weighed
<1>2. \A c \in world.codes[r] :
        /\ SendObjs(r, c) = [i \in 1 .. Len(Order(c)) |-> Obj(c, "send", Order(c)[i])]
        /\ RecvObjs(r, c) =
             [i \in 1 .. Len(Order(Other[c])) |-> Obj(c, "recv", Rev(Order(Other[c])[i]))]
  <2>1. \A c \in world.codes[r] : Right(r, c, 3)
    BY DEF Learned
  <2> QED BY <2>1, ListsHeld
<1>3. /\ \A i \in 1 .. a : Sender(i) = Obj("A", "send", Order("A")[i])
                           /\ Receiver(i) = Obj("B", "recv", Rev(Order("A")[i])) /\ From(i) = "A"
      /\ \A i \in 1 .. b : Sender(a + i) = Obj("B", "send", Order("B")[i])
                           /\ Receiver(a + i) = Obj("A", "recv", Rev(Order("B")[i]))
                           /\ From(a + i) = "B"
  <2>1. ASSUME NEW i \in 1 .. a
        PROVE  Sender(i) = Obj("A", "send", Order("A")[i])
               /\ Receiver(i) = Obj("B", "recv", Rev(Order("A")[i])) /\ From(i) = "A"
    <3>1. From(i) = "A" /\ Key(i) = Order("A")[i]
      BY <1>1 DEF From, Key
    <3> QED BY <3>1, TwoCodes DEF Sender, Receiver
  <2>2. ASSUME NEW i \in 1 .. b
        PROVE  Sender(a + i) = Obj("B", "send", Order("B")[i])
               /\ Receiver(a + i) = Obj("A", "recv", Rev(Order("B")[i])) /\ From(a + i) = "B"
    <3>1. ~(a + i <= a) /\ a + i - a = i
      BY <1>1
    <3>2. From(a + i) = "B" /\ Key(a + i) = Order("B")[i]
      BY <3>1 DEF From, Key
    <3> QED BY <3>2, TwoCodes DEF Sender, Receiver
  <2> QED BY <2>1, <2>2
<1>4. f = [i \in 1 .. a + b |-> f[i]] /\ DOMAIN f = 1 .. a + b
      /\ \A i \in 1 .. a + b : f[i] = Compute(ObjList(r, i))
  BY <1>1 DEF Weights
<1>5. ASSUME NEW s, NEW t, s = [i \in 1 .. a |-> f[i]], t = [i \in 1 .. b |-> f[a + i]]
      PROVE  s \o t = f
  <2> HIDE DEF f, a, b
  <2> QED BY <1>1, <1>4, <1>5, TwoLists
<1> DEFINE x == IF Joint(r) THEN Pairs(SendObjs(r, "A"), RecvObjs(r, "B"))
                ELSE IF Main(r) = "A" THEN Single(SendObjs(r, "A")) ELSE Single(RecvObjs(r, "B"))
           y == IF Joint(r) THEN Pairs(SendObjs(r, "B"), RecvObjs(r, "A"))
                ELSE IF Main(r) = "A" THEN Single(RecvObjs(r, "A")) ELSE Single(SendObjs(r, "B"))
<1>6. WeightsCalls(r) = x \o y
  BY DEF WeightsCalls
<1>7. /\ "A" \in world.codes[r] =>
           /\ SendObjs(r, "A") = [i \in 1 .. a |-> Sender(i)]
           /\ RecvObjs(r, "A") = [i \in 1 .. b |-> Receiver(a + i)]
      /\ "B" \in world.codes[r] =>
           /\ SendObjs(r, "B") = [i \in 1 .. b |-> Sender(a + i)]
           /\ RecvObjs(r, "B") = [i \in 1 .. a |-> Receiver(i)]
  <2>1. Other["A"] = "B" /\ Other["B"] = "A"
    BY TwoCodes
  <2> HIDE DEF x, y, f
  <2> QED BY SMTT(30), <1>2, <1>3, <2>1
<1>8. /\ \A i \in 1 .. a + b : i \in 1 .. a =>
           ObjList(r, i) = IF Joint(r) THEN <<Sender(i), Receiver(i)>>
                           ELSE IF Main(r) = "A" THEN <<Sender(i)>> ELSE <<Receiver(i)>>
      /\ \A i \in 1 .. b :
           ObjList(r, a + i) = IF Joint(r) THEN <<Sender(a + i), Receiver(a + i)>>
                               ELSE IF Main(r) = "A" THEN <<Receiver(a + i)>> ELSE <<Sender(a + i)>>
  <2>1. Main(r) = "A" \/ Main(r) = "B"
    BY DEF Main
  <2> HIDE DEF x, y, f, a, b
  <2> QED BY <1>3, <2>1 DEF ObjList
<1> HIDE DEF a, b, f
<1>9. /\ \A i \in 1 .. a : f[i] = Compute(ObjList(r, i)) /\ i \in 1 .. a + b
      /\ \A i \in 1 .. b : f[a + i] = Compute(ObjList(r, a + i))
  <2>1. /\ \A i \in 1 .. a : i \in 1 .. a + b
        /\ \A i \in 1 .. b : a + i \in 1 .. a + b
    BY <1>1
  <2> QED BY <1>4, <2>1
<1>10. CASE Joint(r)
  <2>1. "A" \in world.codes[r] /\ "B" \in world.codes[r]
    BY <1>10, TwoCodes DEF Joint
  <2>2. x = [i \in 1 .. a |-> Compute(<<Sender(i), Receiver(i)>>)]
    BY <1>7, <1>10, <2>1
  <2>3. y = [i \in 1 .. b |-> Compute(<<Sender(a + i), Receiver(a + i)>>)]
    BY <1>7, <1>10, <2>1
  <2> HIDE DEF x, y
  <2>4. x = [i \in 1 .. a |-> f[i]]
    BY <1>8, <1>10, <1>9, <2>2
  <2>5. y = [i \in 1 .. b |-> f[a + i]]
    <3>1. \A i \in 1 .. b : ObjList(r, a + i) = <<Sender(a + i), Receiver(a + i)>>
      BY <1>8, <1>10, Zenon
    <3>2. \A i \in 1 .. b : f[a + i] = Compute(<<Sender(a + i), Receiver(a + i)>>)
      BY <1>9, <3>1, Zenon
    <3> QED BY <2>3, <3>2
  <2> QED BY <1>5, <1>6, <2>4, <2>5 DEF f
<1>11. CASE ~Joint(r) /\ Main(r) = "A"
  <2>1. "A" \in world.codes[r]
    BY <1>11, CodeFacts
  <2>2. x = [i \in 1 .. a |-> Compute(<<Sender(i)>>)]
    BY <1>7, <1>11, <2>1
  <2>3. y = [i \in 1 .. b |-> Compute(<<Receiver(a + i)>>)]
    BY <1>7, <1>11, <2>1
  <2> HIDE DEF x, y
  <2>4. x = [i \in 1 .. a |-> f[i]]
    BY <1>8, <1>11, <1>9, <2>2
  <2>5. y = [i \in 1 .. b |-> f[a + i]]
    <3>1. \A i \in 1 .. b : ObjList(r, a + i) = <<Receiver(a + i)>>
      BY <1>8, <1>11, Zenon
    <3>2. \A i \in 1 .. b : f[a + i] = Compute(<<Receiver(a + i)>>)
      BY <1>9, <3>1, Zenon
    <3> QED BY <2>3, <3>2
  <2> QED BY <1>5, <1>6, <2>4, <2>5 DEF f
<1>12. CASE ~Joint(r) /\ Main(r) # "A"
  <2>1. "B" \in world.codes[r]
    <3>1. Main(r) \in world.codes[r] /\ Main(r) \in Codes
      BY CodeFacts
    <3> QED BY <1>12, <3>1, TwoCodes
  <2>2. x = [i \in 1 .. a |-> Compute(<<Receiver(i)>>)]
    BY <1>7, <1>12, <2>1
  <2>3. y = [i \in 1 .. b |-> Compute(<<Sender(a + i)>>)]
    BY <1>7, <1>12, <2>1
  <2> HIDE DEF x, y
  <2>4. x = [i \in 1 .. a |-> f[i]]
    BY <1>8, <1>12, <1>9, <2>2
  <2>5. y = [i \in 1 .. b |-> f[a + i]]
    <3>1. \A i \in 1 .. b : ObjList(r, a + i) = <<Sender(a + i)>>
      BY <1>8, <1>12, Zenon
    <3>2. \A i \in 1 .. b : f[a + i] = Compute(<<Sender(a + i)>>)
      BY <1>9, <3>1, Zenon
    <3> QED BY <2>3, <3>2
  <2> QED BY <1>5, <1>6, <2>4, <2>5 DEF f
<1> QED BY <1>10, <1>11, <1>12

\* The places of the weights in the logs.
LEMMA BaseStep ==
  ASSUME SetupAssumption, world \in Worlds
  PROVE  /\ Base(0) = Opening /\ Opening \in {1, 2} /\ (Opening = 1 <=> BothPart)
         /\ \A s \in Nat : Base(s) \in Nat /\ Base(s) >= Opening /\ Base(s + 1) = Base(s) + Weighed
<1>1. Weighed \in Nat
  BY EdgeFacts
<1>2. Opening \in {1, 2} /\ (Opening = 1 <=> BothPart)
  BY DEF Opening
<1>3. Base(0) = Opening
  BY <1>1, <1>2 DEF Base
<1>4. ASSUME NEW s \in Nat
      PROVE  Base(s) \in Nat /\ Base(s) >= Opening /\ Base(s + 1) = Base(s) + Weighed
  <2> DEFINE w == Weighed
  <2>1. w \in Nat
    BY <1>1
  <2> HIDE DEF w
  <2>2. s * w \in Nat /\ (s + 1) * w = s * w + w
    BY <2>1
  <2>3. Base(s) = Opening + s * w /\ Base(s + 1) = Opening + (s + 1) * w
    BY DEF Base, w
  <2>4. Base(s) \in Nat /\ Base(s) >= Opening /\ Base(s + 1) = Base(s) + w
    BY <1>2, <2>1, <2>2, <2>3
  <2> QED BY <2>4 DEF w
<1> QED BY <1>2, <1>3, <1>4

\* The place of a weight among all weights tells its step and its place in it.
LEMMA OneSplit ==
  ASSUME NEW w \in Nat, NEW s \in Nat, NEW t \in Nat, NEW i \in 1 .. w, NEW j \in 1 .. w,
         s * w + i = t * w + j, s < t
  PROVE  FALSE
<1> DEFINE d == t - s
<1>1. d \in Nat /\ d >= 1 /\ t = s + d
  OBVIOUS
<1> HIDE DEF d
<1>2. t * w = s * w + d * w
  BY <1>1
<1>3. d * w >= w
  <2>1. PICK e \in Nat : d = e + 1
    BY <1>1
  <2>2. d * w = e * w + w /\ e * w >= 0
    BY <2>1
  <2> QED BY <2>2
<1>4. s * w \in Nat /\ d * w \in Nat
  BY <1>1
<1> QED BY <1>2, <1>3, <1>4

\* The calls at these places.
LEMMA CommonCalls ==
  ASSUME SetupAssumption, world \in Worlds
  PROVE  /\ Common(1) = [op |-> "create_group"] /\ Common(1) \in LogEntry
         /\ ~BothPart => /\ Common(2) = [op |-> "create", group |-> Group]
                         /\ Common(2) \in LogEntry
         /\ \A s \in 0 .. world.steps : \A i \in 1 .. Weighed :
              /\ Common(Base(s) + i) = [op |-> "weights", of |-> Edge(i)]
              /\ Common(Base(s) + i) \in LogEntry
<1>1. Common(1) = [op |-> "create_group"] /\ Common(1) \in LogEntry
  BY DEF Common, LogEntry
<1>2. ASSUME ~BothPart
      PROVE  Common(2) = [op |-> "create", group |-> Group] /\ Common(2) \in LogEntry
  BY <1>2 DEF Common, LogEntry
<1>3. ASSUME NEW s \in 0 .. world.steps, NEW i \in 1 .. Weighed
      PROVE  /\ Common(Base(s) + i) = [op |-> "weights", of |-> Edge(i)]
             /\ Common(Base(s) + i) \in LogEntry
  <2> DEFINE n == Base(s) + i
             C == CHOOSE j \in 1 .. Weighed : \E t \in 0 .. world.steps : n = Base(t) + j
  <2>1. world.steps \in Nat /\ s \in Nat /\ Weighed \in Nat
    BY EdgeFacts DEF SetupAssumption
  <2>2. C \in 1 .. Weighed /\ \E t \in 0 .. world.steps : n = Base(t) + C
    OBVIOUS
  <2>3. PICK t \in 0 .. world.steps : n = Base(t) + C
    BY <2>2
  <2> HIDE DEF C
  <2>4. s * Weighed + i = t * Weighed + C
    <3> DEFINE w == Weighed
    <3>1. Opening + s * w + i = Opening + t * w + C
      BY <2>3 DEF Base
    <3>3. w \in Nat
      BY <2>1
    <3> HIDE DEF w
    <3>2. s * w \in Nat /\ t * w \in Nat /\ Opening \in Nat
      BY <2>1, <3>3, BaseStep
    <3>4. s * w + i = t * w + C
      BY <2>2, <3>1, <3>2
    <3> QED BY <3>4 DEF w
  <2>5. C = i
    <3>1. ~(s < t) /\ ~(t < s)
      BY <2>1, <2>2, <2>4, OneSplit
    <3>2. s = t
      BY <2>1, <3>1
    <3> DEFINE m == s * Weighed
    <3>3. m \in Nat /\ m + i = m + C
      BY <2>1, <2>4, <3>2
    <3> HIDE DEF m
    <3> QED BY <2>2, <3>3
  <2>6. n # 1 /\ ~(n = 2 /\ ~BothPart)
    BY <2>1, BaseStep
  <2>7. Common(n) = [op |-> "weights", of |-> Edge(C)]
    BY <2>6 DEF Common, C
  <2>8. Edge(i) \in [from : Codes, ends : Nat \X Nat]
    BY EdgeFacts DEF Edge, PairsOf
  <2> QED BY <2>5, <2>7, <2>8 DEF LogEntry
<1> QED BY <1>1, <1>2, <1>3

\* The group of the coupling communicator is the same for all ranks.
LEMMA SameGroup ==
  ASSUME SetupAssumption, world \in Worlds, NEW r \in Ranks, side[r] \in Codes, Right(r, side[r], 1),
         ~BothPart
  PROVE  CplGroup(r) = Group
<1> DEFINE v == side[r]
           Without(c) == RootOnly(UnionOf(RanksOf("A"), RanksOf("B")), RanksOf(c), Root(c))
<1>1. got[r][v].type = world.part[Other[v]]
  BY DEF Right, Value, What
<1>2. world.part["A"] \in BOOLEAN /\ world.part["B"] \in BOOLEAN
  BY DEF SetupAssumption, Codes
<1>3. CplGroup(r) =
        IF world.part[v] THEN Without(Other[v])
        ELSE IF got[r][v].type THEN Without(v)
        ELSE IF v = "A" THEN <<Root(Other[v]), Root(v)>> ELSE <<Root(v), Root(Other[v])>>
  BY DEF CplGroup
<1>4. Group = IF world.part["A"] THEN Without("B")
              ELSE IF world.part["B"] THEN Without("A") ELSE <<Root("B"), Root("A")>>
  BY DEF Group
<1> HIDE DEF Without
<1>5. v = "A" \/ v = "B"
  BY TwoCodes
<1>6. CASE v = "A"
  BY <1>1, <1>2, <1>3, <1>4, <1>6, TwoCodes DEF BothPart
<1>7. CASE v = "B"
  BY <1>1, <1>2, <1>3, <1>4, <1>7, TwoCodes DEF BothPart
<1> QED BY <1>5, <1>6, <1>7

-----------------------------------------------------------------------------
(* The world does not change, nor does what depends on it only. *)

\* The ranks of the codes are those of the world, ...
LEMMA SameWorld ==
  ASSUME world' = world
  PROVE  /\ \A c : Root(c)' = Root(c) /\ RanksOf(c)' = RanksOf(c)
         /\ \A r : Joint(r)' = Joint(r) /\ Main(r)' = Main(r)
<1>1. \A c : RanksOf(c)' = RanksOf(c)
  BY DEF RanksOf
<1>2. \A c : Root(c)' = Root(c)
  BY <1>1 DEF Root
<1>3. \A r : Joint(r)' = Joint(r) /\ Main(r)' = Main(r)
  BY DEF Joint, Main
<1> QED BY <1>1, <1>2, <1>3

\* ... so are the keys, their order and what the codes send, ...
LEMMA SameOrders ==
  ASSUME world' = world
  PROVE  /\ \A c : KeysOf(c)' = KeysOf(c) /\ Order(c)' = Order(c)
         /\ \A c, k : Value(c, k)' = Value(c, k)
         /\ \A c : Values(c)' = Values(c)
<1>1. \A c : FieldPairs(c)' = FieldPairs(c)
  BY DEF FieldPairs
<1>2. \A c : KeysOf(c)' = KeysOf(c)
  BY <1>1 DEF KeysOf
<1>3. \A c : Order(c)' = Order(c)
  BY <1>2 DEF Order
<1>4. \A c, k : Value(c, k)' = Value(c, k)
  BY <1>3 DEF Value
<1>5. \A c : Values(c)' = Values(c)
  BY <1>3 DEF Values, Value
<1> QED BY <1>2, <1>3, <1>4, <1>5

\* ... the weights of a step and the objects, ...
LEMMA SameEdges ==
  ASSUME world' = world
  PROVE  /\ Weighed' = Weighed
         /\ \A i : From(i)' = From(i) /\ Key(i)' = Key(i) /\ Edge(i)' = Edge(i)
         /\ \A r, i : ObjsAt(r, i)' = ObjsAt(r, i) /\ ObjList(r, i)' = ObjList(r, i)
         /\ \A r : Weights(r)' = Weights(r) /\ AllObjs(r)' = AllObjs(r)
<1>1. Order("A")' = Order("A") /\ Order("B")' = Order("B") /\ \A c : KeysOf(c)' = KeysOf(c)
  BY SameOrders, TwoCodes
<1>2. Weighed' = Weighed
  BY <1>1 DEF Weighed
<1>3. \A i : From(i)' = From(i) /\ Key(i)' = Key(i)
  BY <1>1 DEF From, Key
<1>4. \A i : Edge(i)' = Edge(i) /\ Sender(i)' = Sender(i) /\ Receiver(i)' = Receiver(i)
  BY <1>3 DEF Edge, Sender, Receiver
<1>5. \A r, i : ObjsAt(r, i)' = ObjsAt(r, i) /\ ObjList(r, i)' = ObjList(r, i)
  BY <1>3, <1>4, SameWorld DEF ObjsAt, ObjList
<1>6. ASSUME NEW r PROVE Weights(r)' = Weights(r)
  <2>1. Weighed' = Weighed /\ \A i \in 1 .. Weighed : ObjList(r, i)' = ObjList(r, i)
    BY <1>2, <1>5
  <2> QED BY <2>1 DEF Weights
<1>7. ASSUME NEW r PROVE AllObjs(r)' = AllObjs(r)
  <2>1. \A c : ObjsOf(c)' = ObjsOf(c)
    BY <1>1, TwoCodes DEF ObjsOf
  <2> QED BY <2>1 DEF AllObjs
<1> QED BY <1>2, <1>3, <1>4, <1>5, <1>6, <1>7

\* ... the collective calls, ...
LEMMA SameCalls ==
  ASSUME world' = world
  PROVE  /\ BothPart' = BothPart /\ Group' = Group /\ Opening' = Opening /\ Sound' = Sound
         /\ LogEntry' = LogEntry
         /\ \A s : Base(s)' = Base(s)
         /\ \A n \in Nat : Common(n)' = Common(n)
<1>1. BothPart' = BothPart /\ Opening' = Opening
  BY DEF BothPart, Opening
<1>2. Group' = Group
  BY SameWorld, TwoCodes DEF Group
<1>3. Sound' = Sound
  BY SameWorld, SameOrders, TwoCodes DEF Sound
<1>4. LogEntry' = LogEntry
  BY <1>2 DEF LogEntry
<1>5. \A s : Base(s)' = Base(s)
  BY <1>1, SameEdges DEF Base
<1>6. ASSUME NEW n \in Nat PROVE Common(n)' = Common(n)
  <2> DEFINE C == CHOOSE i \in 1 .. Weighed : \E s \in 0 .. world.steps : n = Base(s) + i
  <2>1. C' = C
    BY <1>5, SameEdges
  <2>2. Edge(C)' = Edge(C)
    <3>1. PICK i : i = C
      OBVIOUS
    <3>2. Edge(i)' = Edge(i)
      BY SameEdges
    <3> HIDE DEF C
    <3> QED BY <2>1, <3>1, <3>2 DEF Edge, From, Key
  <2>3. Common(n) = IF n = 1 THEN [op |-> "create_group"]
                    ELSE IF n = 2 /\ ~BothPart THEN [op |-> "create", group |-> Group]
                    ELSE [op |-> "weights", of |-> Edge(C)]
    BY DEF Common
  <2>4. Common(n)' = IF n = 1 THEN [op |-> "create_group"]
                     ELSE IF n = 2 /\ ~BothPart' THEN [op |-> "create", group |-> Group']
                     ELSE [op |-> "weights", of |-> Edge(C)']
    BY DEF Common
  <2> HIDE DEF C
  <2> QED BY <1>1, <1>2, <2>2, <2>3, <2>4
<1> QED BY <1>1, <1>2, <1>3, <1>4, <1>5, <1>6

\* ... and the lists of calls of an exchange.
LEMMA SameLists ==
  ASSUME world' = world, NEW r \in Ranks
  PROVE  /\ \A a \in Codes, v \in Codes, k \in 1 .. 3 :
              /\ Block(r, a, v, k)' = Block(r, a, v, k) /\ Firsts(r, v, k)' = Firsts(r, v, k)
              /\ Seconds(r, v, k)' = Seconds(r, v, k)
         /\ \A k \in 1 .. 3 : After(r, k)' = After(r, k)
<1>1. \A c, w : AskCalls(r, c, w)' = AskCalls(r, c, w)
  BY SameWorld DEF AskCalls
<1>2. \A w : ExchangeCalls(r, w)' = ExchangeCalls(r, w)
  BY <1>1, SameWorld, TwoCodes DEF ExchangeCalls
<1>3. \A k \in 1 .. 3 : After(r, k)' = After(r, k)
  BY <1>2, SameWorld DEF After, Whats
<1>4. \A v \in Codes, k \in 1 .. 3 : Seconds(r, v, k)' = Seconds(r, v, k)
  BY <1>3, SameWorld DEF Seconds
<1>5. \A v \in Codes, k \in 1 .. 3 : Firsts(r, v, k)' = Firsts(r, v, k)
  BY <1>4 DEF Firsts
<1>6. \A a \in Codes, v \in Codes, k \in 1 .. 3 : Block(r, a, v, k)' = Block(r, a, v, k)
  BY <1>1, <1>5 DEF Block, What, Whats
<1> QED BY <1>3, <1>4, <1>5, <1>6

-----------------------------------------------------------------------------
(* What a step of other ranks leaves as it is. *)

\* A rank that has created its couplings stays in their exchanges as it is.
LEMMA JoinedKept ==
  ASSUME SetupAssumption, world \in Worlds, world' = world, NEW r \in Ranks,
         made'[r] = made[r], side'[r] = side[r]
  PROVE  /\ Joined(r)' = Joined(r)
         /\ \A k \in 1 .. 3 : Asker(r, k)' = Asker(r, k) /\ First(r, k)' = First(r, k)
<1>1. Joined(r)' = Joined(r)
  BY SameWorld DEF Joined
<1>2. \A k \in 1 .. 3 : Asker(r, k)' = Asker(r, k) /\ First(r, k)' = First(r, k)
  BY SameWorld DEF Asker, First
<1> QED BY <1>1, <1>2

\* What a rank knows stays right.
LEMMA RightKept ==
  ASSUME SetupAssumption, world \in Worlds, world' = world, NEW r \in Ranks, got'[r] = got[r]
  PROVE  /\ \A c, k : Right(r, c, k)' = Right(r, c, k)
         /\ \A k : Learned(r, k)' = Learned(r, k) /\ Asked(r, k)' = Asked(r, k)
<1>1. \A c, k : Right(r, c, k)' = Right(r, c, k)
  BY SameOrders DEF Right
<1>2. \A k : Learned(r, k)' = Learned(r, k)
  BY <1>1 DEF Learned
<1>3. \A k : Asked(r, k)' = Asked(r, k)
  BY <1>1, SameWorld DEF Asked
<1> QED BY <1>1, <1>2, <1>3

\* A log that does not change stays as long and as right as it is.
LEMMA LogKept ==
  ASSUME SetupAssumption, world \in Worlds, world' = world, NEW r \in Ranks, log'[r] = log[r]
  PROVE  \A n \in Nat : Logged(r, n)' = Logged(r, n)
<1>1. SUFFICES ASSUME NEW n \in Nat PROVE Logged(r, n)' = Logged(r, n)
  OBVIOUS
<1>2. \A i \in 1 .. n : Common(i)' = Common(i)
  BY SameCalls
<1>3. Sound' = Sound /\ LogEntry' = LogEntry
  BY SameCalls
<1> QED BY <1>2, <1>3 DEF Logged

\* A root that sends nothing has sent what it had sent.
LEMMA ToldKept ==
  ASSUME SetupAssumption, world \in Worlds, world' = world, NEW r \in Ranks,
         \A c \in Codes : Root(c) = r => mail'[c] = mail[c]
  PROVE  \A n : Told(r, n)' = Told(r, n)
<1>1. world.codes[r] \subseteq Codes
  BY CodeFacts
<1> QED BY <1>1, SameWorld DEF Told

\* A rank that enters no broadcast has heard what it had heard.
LEMMA HeardKept ==
  ASSUME world' = world, NEW r \in Ranks, arrived'[r] = arrived[r]
  PROVE  \A n : Heard(r, n)' = Heard(r, n)
BY DEF Heard

\* The objects of a rank stay those of its codes.
LEMMA BuiltKept ==
  ASSUME SetupAssumption, world \in Worlds, world' = world, NEW r \in Ranks,
         objects'[r] = objects[r]
  PROVE  /\ Built(r)' = Built(r) /\ Empty(r)' = Empty(r)
         /\ \A i, n : Unlinked(r, i, n)' = Unlinked(r, i, n)
         /\ step'[r] = step[r] => \A i : Linked(r, i)' = Linked(r, i)
<1>1. Built(r)' = Built(r)
  BY SameEdges, SameCalls DEF Built
<1>2. Empty(r)' = Empty(r)
  BY DEF Empty
<1>3. \A i, n : Unlinked(r, i, n)' = Unlinked(r, i, n)
  BY SameEdges DEF Unlinked
<1>4. step'[r] = step[r] => \A i : Linked(r, i)' = Linked(r, i)
  BY SameEdges DEF Linked
<1> QED BY <1>1, <1>2, <1>3, <1>4

\* The place of an exchange is kept where nothing of the rank changes.
LEMMA PlaceKept ==
  ASSUME SetupAssumption, world \in Worlds, world' = world, NEW r \in Ranks,
         made'[r] = made[r], side'[r] = side[r], step'[r] = step[r], called'[r] = called[r],
         objects'[r] = objects[r], log'[r] = log[r],
         NEW k \in 1 .. 3, Place(r, k), Learned(r, k - 1)'
  PROVE  Place(r, k)'
<1>1. Joined(r)' = Joined(r)
  BY JoinedKept
<1>2. Logged(r, 1)' = Logged(r, 1) /\ Logged(r, Base(0))' = Logged(r, Base(0))
  <2>1. PICK n \in Nat : n = Base(0)
    BY BaseStep
  <2>2. Logged(r, n)' = Logged(r, n) /\ Logged(r, 1)' = Logged(r, 1)
    BY LogKept
  <2>3. Base(0)' = n
    BY <2>1, SameCalls
  <2> QED BY <2>1, <2>2, <2>3 DEF Logged
<1>3. Begun(r)' = Begun(r)
  BY SameWorld DEF Begun
<1>4. Built(r)' = Built(r) /\ Empty(r)' = Empty(r) /\ Sound' = Sound
  BY BuiltKept, SameCalls
<1>5. Unlinked(r, 1, Weighed)' = Unlinked(r, 1, Weighed)
  <2>1. Weighed' = Weighed /\ \A j : ObjsAt(r, j)' = ObjsAt(r, j)
    BY SameEdges
  <2> QED BY <2>1 DEF Unlinked
<1> QED BY <1>1, <1>2, <1>3, <1>4, <1>5 DEF Place

\* A rank that makes no step, and whose messages are not changed, stays in its stage.
Untouched(r) ==
  /\ made'[r] = made[r] /\ side'[r] = side[r] /\ step'[r] = step[r] /\ called'[r] = called[r]
  /\ got'[r] = got[r] /\ objects'[r] = objects[r] /\ todo'[r] = todo[r]
  /\ entered'[r] = entered[r] /\ log'[r] = log[r] /\ arrived'[r] = arrived[r]
  /\ \A c \in Codes : Root(c) = r => mail'[c] = mail[c]

\* A rank of which nothing changes stays in its stage.
LEMMA StageKept ==
  ASSUME SetupAssumption, world \in Worlds, world' = world, NEW r \in Ranks, Untouched(r),
         step[r] \in Nat, entered[r] \in BOOLEAN, Stage(r)
  PROVE  Stage(r)'
<1>1. /\ made'[r] = made[r] /\ side'[r] = side[r] /\ step'[r] = step[r] /\ called'[r] = called[r]
      /\ got'[r] = got[r] /\ objects'[r] = objects[r] /\ todo'[r] = todo[r]
      /\ entered'[r] = entered[r] /\ log'[r] = log[r] /\ arrived'[r] = arrived[r]
      /\ Idle(r)' = Idle(r)
  BY DEF Untouched, Idle
<1>2. \A n : Told(r, n)' = Told(r, n) /\ Heard(r, n)' = Heard(r, n)
  BY <1>1, ToldKept, HeardKept DEF Untouched
<1>3. \A k : Learned(r, k)' = Learned(r, k) /\ Asked(r, k)' = Asked(r, k)
  BY <1>1, RightKept
<1>4. Joined(r)' = Joined(r) /\ Begun(r)' = Begun(r) /\ Empty(r)' = Empty(r)
  BY <1>1, JoinedKept, BuiltKept, SameWorld DEF Begun
<1>5. Later(r)' = Later(r)
  BY <1>1, <1>2, <1>3, <1>4, BuiltKept DEF Later
<1>6. Base(0) \in Nat /\ Base(step[r]) \in Nat
      /\ Base(0)' = Base(0) /\ Base(step[r])' = Base(step[r])
  <2>1. \A s \in Nat : Base(s) \in Nat
    BY BaseStep
  <2>2. \A s : Base(s)' = Base(s)
    BY SameCalls
  <2>3. PICK s \in Nat : s = step[r]
    OBVIOUS
  <2>4. step[r]' = s /\ Base(s)' = Base(s)
    BY <1>1, <2>2, <2>3
  <2> QED BY <2>1, <2>2, <2>3, <2>4 DEF Base
<1>7. \A n \in Nat : Logged(r, n)' = Logged(r, n)
  BY <1>1, LogKept
<1>8. Sound' = Sound /\ Unlinked(r, 1, Weighed)' = Unlinked(r, 1, Weighed)
      /\ BothPart' = BothPart
  <2>1. Sound' = Sound /\ BothPart' = BothPart
    BY SameCalls
  <2>2. Unlinked(r, 1, Weighed)' = Unlinked(r, 1, Weighed)
    <3>1. Weighed' = Weighed /\ \A j : ObjsAt(r, j)' = ObjsAt(r, j)
      BY SameEdges
    <3> QED BY <1>1, <3>1 DEF Unlinked
  <2> QED BY <2>1, <2>2
<1>9. CASE Fresh(r)
  BY <1>1, <1>2, <1>4, <1>7, <1>9 DEF Fresh, Stage
<1>10. CASE Grouping(r)
  <2>1. side[r] \in Codes /\ Block(r, side[r], side[r], 1)' = Block(r, side[r], side[r], 1)
    <3>1. side[r] \in Codes
      BY <1>10, CodeFacts DEF Grouping, Joined
    <3>2. PICK v \in Codes : v = side[r]
      BY <3>1
    <3>3. 1 \in 1 .. 3
      OBVIOUS
    <3>4. Block(r, v, v, 1)' = Block(r, v, v, 1)
      BY <3>3, SameLists
    <3>5. v = side[r]'
      BY <1>1, <3>2
    <3> QED BY <3>1, <3>2, <3>4, <3>5
  <2>2. todo'[r] = (<<Local("create_group")>> \o Block(r, side[r], side[r], 1))'
    BY <1>1, <1>10, <2>1 DEF Grouping, Local
  <2>3. Logged(r, IF entered[r] THEN 1 ELSE 0)'
    <3>1. CASE entered[r]
      BY <1>1, <1>7, <1>10, <3>1 DEF Grouping
    <3>2. CASE ~entered[r]
      BY <1>1, <1>7, <1>10, <3>2 DEF Grouping
    <3> QED BY <3>1, <3>2
  <2> QED BY <1>1, <1>2, <1>4, <1>10, <2>2, <2>3 DEF Grouping, Stage
<1>11. CASE Creating(r)
  <2>1. Logged(r, IF entered[r] THEN 2 ELSE 1)'
    <3>1. CASE entered[r]
      BY <1>1, <1>7, <1>11, <3>1 DEF Creating
    <3>2. CASE ~entered[r]
      BY <1>1, <1>7, <1>11, <3>2 DEF Creating
    <3> QED BY <3>1, <3>2
  <2> QED BY <1>1, <1>2, <1>3, <1>4, <1>8, <1>11, <2>1 DEF Creating, Stage, Local
<1>21. Logged(r, Base(0))' = Logged(r, Base(0))
  <2>1. PICK n \in Nat : n = Base(0)
    BY <1>6
  <2>2. Logged(r, n)' = Logged(r, n)
    BY <1>7
  <2>3. Base(0)' = n
    BY <1>6, <2>1
  <2> QED BY <2>1, <2>2, <2>3 DEF Logged
<1>12. CASE Waiting(r)
  BY <1>1, <1>2, <1>3, <1>4, <1>21, <1>12 DEF Waiting, Stage
<1>13. CASE Listing(r)
  <2>1. After(r, 2)' = After(r, 2)
    BY SameLists
  <2> QED BY <1>1, <1>2, <1>3, <1>4, <1>13, <1>21, <2>1 DEF Listing, Stage
<1>14. CASE Resting(r)
  BY <1>1, <1>4, <1>5, <1>6, <1>7, <1>14 DEF Resting, Stage
<1>15. CASE Ordering(r)
  BY <1>1, <1>4, <1>5, <1>6, <1>7, <1>8, <1>15 DEF Ordering, Stage, Local
<1>16. ASSUME NEW k \in 1 .. 3, Asking(r, k) \/ HearFirst(r, k) \/ HearSecond(r, k)
       PROVE  Asking(r, k)' \/ HearFirst(r, k)' \/ HearSecond(r, k)'
  <2> DEFINE a == Asker(r, k)  v == First(r, k)
  <2>1. Place(r, k)
    BY <1>16 DEF Asking, HearFirst, HearSecond
  <2>2. a \in Codes /\ v \in Codes /\ side[r] \in world.codes[r]
    BY ZenonT(60), <2>1, CodeFacts, TwoCodes DEF Place, Joined, Asker, First
  <2>3. a' = a /\ v' = v
    BY <1>1, JoinedKept
  <2>4. PICK x \in Codes, y \in Codes : x = a /\ y = v
    BY <2>2
  <2>5. /\ Block(r, a, v, k)' = Block(r, x, y, k) /\ Firsts(r, v, k)' = Firsts(r, y, k)
        /\ Seconds(r, v, k)' = Seconds(r, y, k)
    <3>1. /\ Block(r, x, y, k)' = Block(r, x, y, k) /\ Firsts(r, y, k)' = Firsts(r, y, k)
          /\ Seconds(r, y, k)' = Seconds(r, y, k)
      BY SameLists
    <3> HIDE DEF a, v
    <3> QED BY <2>3, <2>4, <3>1
  <2>6. Place(r, k)'
    <3>1. Learned(r, k - 1)'
      BY <1>3, <2>1 DEF Place
    <3> QED BY <1>1, <2>1, <3>1, PlaceKept
  <2>7. \A c : Root(c)' = Root(c)
    BY SameWorld
  <2>8. Root(a)' = Root(x) /\ Root(Other[a])' = Root(Other[x])
    <3> HIDE DEF a
    <3> QED BY <2>3, <2>4, <2>7
  <2>9. world.codes[r]' = world.codes[r] /\ Joint(r)' = Joint(r)
    BY SameWorld
  <2>10. Right(r, v, k)' = Right(r, y, k)
    <3>1. Right(r, y, k)' = Right(r, y, k)
      BY <1>1, RightKept
    <3> HIDE DEF v
    <3> QED BY <2>3, <2>4, <3>1
  <2> HIDE DEF a, v
  <2>11. CASE Asking(r, k)
    <3>1. todo'[r] = Block(r, a, v, k)' /\ Heard(r, k - 1)'
          /\ (entered'[r] => Root(a)' = r /\ Root(Other[a])' # r)
      BY <1>1, <1>2, <2>4, <2>5, <2>8, <2>11 DEF Asking, a, v
    <3>2. Told(r, IF entered[r] THEN k ELSE k - 1)'
      <4>1. CASE entered[r]
        BY <1>1, <1>2, <2>11, <4>1 DEF Asking
      <4>2. CASE ~entered[r]
        BY <1>1, <1>2, <2>11, <4>2 DEF Asking
      <4> QED BY <4>1, <4>2
    <3> QED BY <2>6, <3>1, <3>2 DEF Asking, a, v
  <2>12. CASE HearFirst(r, k)
    <3>1. todo'[r] = Firsts(r, v, k)' /\ Asked(r, k)' /\ Told(r, k)'
      BY <1>1, <1>2, <1>3, <2>4, <2>5, <2>12 DEF HearFirst, v
    <3>2. \A c \in world.codes[r] :
            arrived'[r][c] = IF c = v' /\ entered'[r] THEN k ELSE k - 1
      BY <1>1, <2>3, <2>12 DEF HearFirst, v
    <3> QED BY <2>6, <2>9, <3>1, <3>2 DEF HearFirst, v
  <2>13. CASE HearSecond(r, k)
    <3>1. todo'[r] = Seconds(r, v, k)' /\ Asked(r, k)' /\ Told(r, k)' /\ Right(r, v, k)'
      BY <1>1, <1>2, <1>3, <2>4, <2>5, <2>10, <2>13 DEF HearSecond, v
    <3>2. \A c \in world.codes[r] :
            arrived'[r][c] = IF c = v' \/ entered'[r] THEN k ELSE k - 1
      BY <1>1, <2>3, <2>13 DEF HearSecond, v
    <3> QED BY <2>6, <2>9, <2>13, <3>1, <3>2 DEF HearSecond, v
  <2> QED BY <1>16, <2>11, <2>12, <2>13
<1>17. ASSUME NEW i \in 1 .. Weighed + 1, Weighing(r, i)
       PROVE  i \in (1 .. Weighed + 1)' /\ Weighing(r, i)'
  <2>1. Weighed \in Nat /\ Weighed' = Weighed /\ Weights(r)' = Weights(r)
    BY EdgeFacts, SameEdges
  <2>2. todo'[r] = SubSeq(Weights(r), i, Weighed)'
    BY <1>1, <1>17, <2>1 DEF Weighing
  <2>3. Logged(r, IF entered[r] THEN Base(step[r]) + i ELSE Base(step[r]) + i - 1)'
    <3>1. PICK n \in Nat : n = IF entered[r] THEN Base(step[r]) + i ELSE Base(step[r]) + i - 1
      BY <1>6
    <3>2. Logged(r, n) /\ Logged(r, n)'
      BY <1>7, <1>17, <3>1 DEF Weighing
    <3>3. n = (IF entered[r] THEN Base(step[r]) + i ELSE Base(step[r]) + i - 1)'
      BY <1>1, <1>6, <3>1
    <3> QED BY <3>2, <3>3
  <2>4. /\ Linked(r, i - 1)' = Linked(r, i - 1) /\ Unlinked(r, i, i)' = Unlinked(r, i, i)
        /\ Unlinked(r, i, Weighed)' = Unlinked(r, i, Weighed)
    <3>1. \A j : ObjsAt(r, j)' = ObjsAt(r, j) /\ Edge(j)' = Edge(j)
      BY SameEdges
    <3>2. Linked(r, i - 1)' = Linked(r, i - 1)
      BY <1>1, <3>1 DEF Linked
    <3>3. Unlinked(r, i, i)' = Unlinked(r, i, i)
      BY <1>1, <3>1 DEF Unlinked
    <3>4. Unlinked(r, i, Weighed)' = Unlinked(r, i, Weighed)
      BY <1>1, <2>1, <3>1 DEF Unlinked
    <3> QED BY <3>2, <3>3, <3>4
  <2> QED BY <1>1, <1>4, <1>5, <1>8, <1>17, <2>1, <2>2, <2>3, <2>4 DEF Weighing
<1>18. \/ Fresh(r) \/ Grouping(r) \/ Creating(r) \/ Waiting(r) \/ Listing(r) \/ Resting(r)
       \/ Ordering(r)
       \/ \E k \in 1 .. 3 : Asking(r, k) \/ HearFirst(r, k) \/ HearSecond(r, k)
       \/ \E i \in 1 .. Weighed + 1 : Weighing(r, i)
  BY DEF Stage
<1>19. CASE \E k \in 1 .. 3 : Asking(r, k) \/ HearFirst(r, k) \/ HearSecond(r, k)
  BY <1>16, <1>19 DEF Stage
<1>20. CASE \E i \in 1 .. Weighed + 1 : Weighing(r, i)
  BY <1>17, <1>20 DEF Stage
<1> QED BY <1>9, <1>10, <1>11, <1>12, <1>13, <1>14, <1>15, <1>18, <1>19, <1>20

-----------------------------------------------------------------------------
(* What a rank does next, from its stage. *)

\* The call rank r is to make or in, and those after it.
Ahead(r, call, rest) == todo[r] # <<>> /\ Head(todo[r]) = call /\ Tail(todo[r]) = rest

\* The first call of a list that is put together.
LEMMA AheadOf ==
  ASSUME NEW r, NEW x \in MPICalls, NEW s \in Seq(MPICalls), todo[r] = <<x>> \o s
  PROVE  Ahead(r, x, s)
BY HeadTail DEF Ahead

\* The asking and the first hearing code of a rank are its own; the other code of
\* which it is the root has its root in common with the asking one.
LEMMA AskerOwn ==
  ASSUME SetupAssumption, world \in Worlds, NEW r \in Ranks, Joined(r), NEW k \in 1 .. 3
  PROVE  /\ Asker(r, k) \in world.codes[r] /\ First(r, k) \in world.codes[r]
         /\ \A c \in world.codes[r] : Root(c) = r => Asker(r, k) = c \/ Root(Other[c]) = r
<1>1. /\ side[r] \in world.codes[r] /\ Main(r) \in world.codes[r]
      /\ \A c \in world.codes[r] : Root(c) = r => side[r] = c \/ Root(Other[c]) = r
      /\ world.codes[r] \subseteq Codes /\ (~Joint(r) => world.codes[r] = {Main(r)})
      /\ Joint(r) => Main(r) = "A"
  BY CodeFacts DEF Joined
<1>2. First(r, k) \in world.codes[r]
  BY <1>1 DEF First
<1>3. CASE k = 1
  BY <1>1, <1>2, <1>3 DEF Asker
<1>4. CASE k # 1 /\ Joint(r)
  <2>1. world.codes[r] = Codes /\ Asker(r, k) = IF Root("A") # r THEN "B" ELSE "A"
    BY <1>1, <1>4 DEF Asker, Joint
  <2>2. \A c \in Codes : Root(c) = r => Asker(r, k) = c \/ Root(Other[c]) = r
    BY <2>1, TwoCodes
  <2> QED BY <1>2, <2>1, <2>2, TwoCodes
<1>5. CASE k # 1 /\ ~Joint(r)
  BY <1>1, <1>2, <1>5 DEF Asker
<1> QED BY <1>3, <1>4, <1>5

\* A rank whose asking code has its root elsewhere has nothing to ask.
LEMMA NothingToAsk ==
  ASSUME SetupAssumption, world \in Worlds, NEW r \in Ranks, NEW k \in 1 .. 3, Asking(r, k),
         Root(Asker(r, k)) # r
  PROVE  HearFirst(r, k)
<1> DEFINE a == Asker(r, k)
<1>1. Place(r, k) /\ Joined(r) /\ ~entered[r]
  BY DEF Asking, Place
<1>2. /\ a \in world.codes[r] /\ world.codes[r] \subseteq Codes
      /\ \A c \in world.codes[r] : Root(c) = r => a = c \/ Root(Other[c]) = r
      /\ First(r, k) \in Codes
  BY <1>1, AskerOwn, CodeFacts
<1>3. \A c \in world.codes[r] : Root(c) # r
  <2>1. SUFFICES ASSUME NEW c \in world.codes[r], Root(c) = r PROVE FALSE
    OBVIOUS
  <2>2. c # a /\ Root(Other[c]) = r
    BY <1>2, <2>1
  <2>3. Other[c] = a
    BY <1>2, <2>2, TwoCodes
  <2> QED BY <2>2, <2>3
<1>4. AskCalls(r, a, What(k)) = <<>>
  BY DEF AskCalls
<1>5. Firsts(r, First(r, k), k) \in Seq(MPICalls)
  BY <1>2, TwoCodes, CallTypes
<1>6. Block(r, a, First(r, k), k) = Firsts(r, First(r, k), k)
  <2> DEFINE s == Firsts(r, First(r, k), k)
  <2>1. Block(r, a, First(r, k), k) = <<>> \o s
    BY <1>4 DEF Block
  <2> HIDE DEF s
  <2>2. <<>> \o s = s
    BY <1>5, ConcatEmptySeq DEF s
  <2> QED BY <2>1, <2>2 DEF s
<1>7. todo[r] = Firsts(r, First(r, k), k) /\ Heard(r, k - 1)
  BY <1>6 DEF Asking
<1>8. Asked(r, k) /\ Told(r, k)
  BY <1>3 DEF Asked, Told
<1> QED BY <1>1, <1>7, <1>8 DEF HearFirst, Heard

\* The calls of the stages with one in particular.
LEMMA OneCalls ==
  ASSUME SetupAssumption, world \in Worlds, NEW r \in Ranks
  PROVE  /\ Grouping(r) => Ahead(r, Local("create_group"), Block(r, side[r], side[r], 1))
         /\ Creating(r) => Ahead(r, Local("create"), <<>>)
         /\ Listing(r) => Ahead(r, Local("objects"), Block(r, Asker(r, 3), Main(r), 3))
         /\ Ordering(r) => Ahead(r, Local("order"), <<>>)
<1>1. \A x \in {"create_group", "create", "objects", "order"} : Local(x) \in MPICalls
  BY DEF Local, MPICalls
<1>2. ASSUME Grouping(r) PROVE Ahead(r, Local("create_group"), Block(r, side[r], side[r], 1))
  <2>1. side[r] \in Codes
    BY <1>2, CodeFacts DEF Grouping, Joined
  <2>2. 1 \in 1 .. 3
    OBVIOUS
  <2>3. Block(r, side[r], side[r], 1) \in Seq(MPICalls)
    BY <2>1, <2>2, CallTypes
  <2> QED BY <1>1, <1>2, <2>3, AheadOf DEF Grouping
<1>3. ASSUME NEW x \in {"create", "order"}, todo[r] = <<Local(x)>> PROVE Ahead(r, Local(x), <<>>)
  BY <1>3 DEF Ahead
<1>4. ASSUME Listing(r) PROVE Ahead(r, Local("objects"), Block(r, Asker(r, 3), Main(r), 3))
  <2>1. Asker(r, 3) \in Codes /\ Main(r) \in Codes
    BY <1>4, AskerOwn, CodeFacts DEF Listing
  <2>4. 3 \in 1 .. 3
    OBVIOUS
  <2>2. Block(r, Asker(r, 3), Main(r), 3) \in Seq(MPICalls)
    BY <2>1, <2>4, CallTypes
  <2>3. todo[r] = <<Local("objects")>> \o Block(r, Asker(r, 3), Main(r), 3)
    BY <1>4, CallLists DEF Listing
  <2> QED BY <1>1, <2>2, <2>3, AheadOf
<1> QED BY <1>2, <1>3, <1>4 DEF Creating, Ordering

\* The calls of an exchange.
LEMMA ExchangeAhead ==
  ASSUME SetupAssumption, world \in Worlds, NEW r \in Ranks, NEW k \in 1 .. 3, Joined(r)
  PROVE  /\ Asking(r, k) /\ Root(Asker(r, k)) = r =>
              Ahead(r, IF Root(Other[Asker(r, k)]) = r THEN [op |-> "copy", what |-> What(k)]
                       ELSE Ask(Asker(r, k), What(k)),
                    Firsts(r, First(r, k), k))
         /\ HearFirst(r, k) =>
              Ahead(r, Bcast(First(r, k), What(k)), Seconds(r, First(r, k), k))
         /\ HearSecond(r, k) => Ahead(r, Bcast(Other[First(r, k)], What(k)), After(r, k))
         /\ ~Joint(r) => Seconds(r, First(r, k), k) = After(r, k)
<1> DEFINE a == Asker(r, k)  v == First(r, k)  w == What(k)
<1>1. a \in Codes /\ v \in Codes /\ Other[v] \in Codes /\ w \in Whats
  BY AskerOwn, CodeFacts DEF What, Whats
<1>2. /\ Bcast(v, w) \in MPICalls /\ Bcast(Other[v], w) \in MPICalls
      /\ After(r, k) \in Seq(MPICalls) /\ Seconds(r, v, k) \in Seq(MPICalls)
      /\ Firsts(r, v, k) \in Seq(MPICalls)
  BY <1>1, CallTypes
<1>3. ASSUME Asking(r, k), Root(a) = r
      PROVE  Ahead(r, IF Root(Other[a]) = r THEN [op |-> "copy", what |-> w] ELSE Ask(a, w),
                   Firsts(r, v, k))
  <2> DEFINE x == IF Root(Other[a]) = r THEN [op |-> "copy", what |-> w] ELSE Ask(a, w)
  <2>1. x \in MPICalls
    <3> HIDE DEF w, a
    <3> QED BY <1>1 DEF MPICalls, Ask
  <2>2. AskCalls(r, a, w) = <<x>>
    BY <1>3 DEF AskCalls
  <2>3. todo[r] = <<x>> \o Firsts(r, v, k)
    BY <1>3, <2>2 DEF Asking, Block
  <2> HIDE DEF x
  <2>4. Ahead(r, x, Firsts(r, v, k))
    BY <1>2, <2>1, <2>3, AheadOf
  <2> QED BY <2>4 DEF x
<1>4. ASSUME HearFirst(r, k) PROVE Ahead(r, Bcast(v, w), Seconds(r, v, k))
  <2>1. todo[r] = <<Bcast(v, w)>> \o Seconds(r, v, k)
    BY <1>4 DEF HearFirst, Firsts
  <2> QED BY <1>2, <2>1, AheadOf
<1>5. ASSUME HearSecond(r, k) PROVE Ahead(r, Bcast(Other[v], w), After(r, k))
  <2>1. todo[r] = <<Bcast(Other[v], w)>> \o After(r, k)
    BY <1>5 DEF HearSecond, Seconds
  <2> QED BY <1>2, <2>1, AheadOf
<1>6. ASSUME ~Joint(r) PROVE Seconds(r, v, k) = After(r, k)
  <2> DEFINE s == After(r, k)
  <2>1. Seconds(r, v, k) = <<>> \o s
    BY <1>6 DEF Seconds
  <2> HIDE DEF s
  <2>2. <<>> \o s = s
    BY <1>2, ConcatEmptySeq DEF s
  <2> QED BY <2>1, <2>2 DEF s
<1> QED BY <1>3, <1>4, <1>5, <1>6

\* The calls for the weights, and none when they are all computed.
LEMMA WeightsAhead ==
  ASSUME SetupAssumption, world \in Worlds, NEW r \in Ranks, NEW i \in 1 .. Weighed + 1,
         Weighing(r, i)
  PROVE  /\ i <= Weighed => Ahead(r, Compute(ObjList(r, i)), SubSeq(Weights(r), i + 1, Weighed))
         /\ i = Weighed + 1 => Idle(r) /\ ~entered[r]
<1>1. Weighed \in Nat
  BY EdgeFacts
<1> DEFINE n == Weighed  f == Weights(r)  S == {f[j] : j \in 1 .. n}
<1>2. f \in Seq(S) /\ Len(f) = n /\ \A j \in 1 .. n : f[j] = Compute(ObjList(r, j))
  <2>1. f = [j \in 1 .. n |-> Compute(ObjList(r, j))]
    BY DEF Weights
  <2> HIDE DEF f
  <2>2. f \in [1 .. n -> S]
    BY <2>1
  <2> HIDE DEF S
  <2> QED BY <1>1, <2>1, <2>2, FunSeq
<1>3. todo[r] = SubSeq(f, i, n) /\ (entered[r] => i <= n)
  BY DEF Weighing
<1> HIDE DEF n, f, S
<1>4. ASSUME i <= n PROVE Ahead(r, f[i], SubSeq(f, i + 1, n))
  <2> DEFINE t == SubSeq(f, i, n)  u == SubSeq(f, i + 1, n)
  <2>1. /\ t \in Seq(S) /\ Len(t) = n - i + 1
        /\ \A j \in 1 .. n - i + 1 : t[j] = f[i + j - 1]
    BY <1>1, <1>2, <1>4 DEF n
  <2>2. /\ u \in Seq(S) /\ Len(u) = n - i
        /\ \A j \in 1 .. n - i : u[j] = f[i + 1 + j - 1]
    BY <1>1, <1>2, <1>4 DEF n
  <2> HIDE DEF t, u
  <2>3. t # <<>>
    BY <1>1, <1>4, <2>1 DEF n
  <2>4. Head(t) = f[i]
    BY <1>1, <1>4, <2>1, <2>3 DEF n
  <2>5. Tail(t) \in Seq(S) /\ Len(Tail(t)) = n - i
        /\ \A j \in 1 .. n - i : Tail(t)[j] = t[j + 1]
    <3>1. Tail(t) \in Seq(S) /\ Len(Tail(t)) = Len(t) - 1
          /\ \A j \in 1 .. Len(Tail(t)) : Tail(t)[j] = t[j + 1]
      BY <2>1, <2>3, HeadTailProperties
    <3> QED BY <1>1, <2>1, <3>1 DEF n
  <2>6. \A j \in 1 .. n - i : Tail(t)[j] = u[j]
    BY <1>1, <2>1, <2>2, <2>5 DEF n
  <2>7. Tail(t) = u
    BY <2>2, <2>5, <2>6, SeqEqual
  <2> QED BY <1>3, <2>3, <2>4, <2>7 DEF Ahead, t, u
<1>5. ASSUME i = n + 1 PROVE todo[r] = <<>> /\ ~entered[r]
  BY <1>1, <1>2, <1>3, <1>5 DEF n
<1> QED BY <1>1, <1>2, <1>4, <1>5 DEF n, f, Idle

\* What the kinds of calls are.
LEMMA Kinds ==
  /\ \A x : Local(x).op = x
  /\ \A c, w : /\ Ask(c, w).op = "sendrecv" /\ Ask(c, w).code = c /\ Ask(c, w).what = w
               /\ Bcast(c, w).op = "bcast" /\ Bcast(c, w).code = c /\ Bcast(c, w).what = w
  /\ \A s : Compute(s).op = "weights" /\ Compute(s).objs = s
BY DEF Local, Ask, Bcast, Compute

\* The stage a rank is in, from the call it makes.
LEMMA Stages ==
  ASSUME SetupAssumption, world \in Worlds, NEW r \in Ranks, Stage(r)
  PROVE  \/ Idle(r) /\ ~entered[r]
              /\ (Fresh(r) \/ Waiting(r) \/ Resting(r) \/ Weighing(r, Weighed + 1))
         \/ Doing(r, "create_group") /\ Grouping(r)
         \/ Doing(r, "create") /\ Creating(r)
         \/ Doing(r, "objects") /\ Listing(r)
         \/ Doing(r, "order") /\ Ordering(r)
         \/ Doing(r, "copy") /\ \E k \in 1 .. 3 : Asking(r, k) /\ Root(Asker(r, k)) = r
                                                  /\ Root(Other[Asker(r, k)]) = r
         \/ Doing(r, "sendrecv") /\ \E k \in 1 .. 3 : Asking(r, k) /\ Root(Asker(r, k)) = r
                                                      /\ Root(Other[Asker(r, k)]) # r
         \/ Doing(r, "bcast") /\ \E k \in 1 .. 3 : HearFirst(r, k) \/ HearSecond(r, k)
         \/ Doing(r, "weights") /\ \E i \in 1 .. Weighed : Weighing(r, i)
<1>1. CASE Fresh(r) \/ Waiting(r) \/ Resting(r)
  BY <1>1 DEF Fresh, Waiting, Resting
<1>2. CASE Grouping(r)
  BY <1>2, OneCalls, Kinds DEF Ahead, Doing
<1>3. CASE Creating(r)
  BY <1>3, OneCalls, Kinds DEF Ahead, Doing
<1>4. CASE Listing(r)
  BY <1>4, OneCalls, Kinds DEF Ahead, Doing
<1>5. CASE Ordering(r)
  BY <1>5, OneCalls, Kinds DEF Ahead, Doing
<1>6. ASSUME NEW k \in 1 .. 3, HearFirst(r, k) \/ HearSecond(r, k) PROVE Doing(r, "bcast")
  <2>1. Joined(r)
    BY <1>6 DEF HearFirst, HearSecond, Place
  <2>2. \E c, rest : Ahead(r, Bcast(c, What(k)), rest)
    BY <1>6, <2>1, ExchangeAhead
  <2> QED BY <2>2, Kinds DEF Ahead, Doing
<1>7. ASSUME NEW k \in 1 .. 3, Asking(r, k), Root(Asker(r, k)) = r
      PROVE  Doing(r, IF Root(Other[Asker(r, k)]) = r THEN "copy" ELSE "sendrecv")
  <2> DEFINE a == Asker(r, k)
  <2>1. Joined(r)
    BY <1>7 DEF Asking, Place
  <2>2. \E rest : Ahead(r, IF Root(Other[a]) = r THEN [op |-> "copy", what |-> What(k)]
                           ELSE Ask(a, What(k)), rest)
    BY <1>7, <2>1, ExchangeAhead
  <2> HIDE DEF a
  <2>3. CASE Root(Other[a]) = r
    BY <2>2, <2>3 DEF Ahead, Doing, a
  <2>4. CASE Root(Other[a]) # r
    <3>1. \E rest : Ahead(r, Ask(a, What(k)), rest)
      BY <2>2, <2>4
    <3>2. Doing(r, "sendrecv")
      BY <3>1, Kinds DEF Ahead, Doing
    <3> QED BY <2>4, <3>2 DEF a
  <2> QED BY <2>3, <2>4
<1>8. CASE \E k \in 1 .. 3 : Asking(r, k) \/ HearFirst(r, k) \/ HearSecond(r, k)
  <2>1. PICK k \in 1 .. 3 : Asking(r, k) \/ HearFirst(r, k) \/ HearSecond(r, k)
    BY <1>8
  <2>2. CASE HearFirst(r, k) \/ HearSecond(r, k)
    BY <1>6, <2>2
  <2>3. CASE Asking(r, k) /\ Root(Asker(r, k)) # r
    BY <1>6, <2>3, NothingToAsk
  <2>4. CASE Asking(r, k) /\ Root(Asker(r, k)) = r /\ Root(Other[Asker(r, k)]) = r
    BY <1>7, <2>4
  <2>5. CASE Asking(r, k) /\ Root(Asker(r, k)) = r /\ Root(Other[Asker(r, k)]) # r
    BY <1>7, <2>5
  <2> QED BY <2>1, <2>2, <2>3, <2>4, <2>5
<1>9. CASE \E i \in 1 .. Weighed + 1 : Weighing(r, i)
  <2>1. PICK i \in 1 .. Weighed + 1 : Weighing(r, i)
    BY <1>9
  <2>2. Weighed \in Nat
    BY EdgeFacts
  <2>3. CASE i = Weighed + 1
    BY <2>1, <2>3, WeightsAhead
  <2>4. CASE i # Weighed + 1
    <3>1. i \in 1 .. Weighed
      BY <2>2, <2>4
    <3>2. Ahead(r, Compute(ObjList(r, i)), SubSeq(Weights(r), i + 1, Weighed))
      BY <2>1, <2>2, <3>1, WeightsAhead
    <3> QED BY <2>1, <3>1, <3>2, Kinds DEF Ahead, Doing
  <2> QED BY <2>3, <2>4
<1> QED BY <1>1, <1>2, <1>3, <1>4, <1>5, <1>8, <1>9 DEF Stage

\* The stage in which a rank makes a call, or none.
LEMMA StageOf ==
  ASSUME SetupAssumption, world \in Worlds, NEW r \in Ranks, Stage(r)
  PROVE  /\ Idle(r) => ~entered[r]
              /\ (Fresh(r) \/ Waiting(r) \/ Resting(r) \/ Weighing(r, Weighed + 1))
         /\ Doing(r, "create_group") => Grouping(r)
         /\ Doing(r, "create") => Creating(r)
         /\ Doing(r, "objects") => Listing(r)
         /\ Doing(r, "order") => Ordering(r)
         /\ Doing(r, "copy") => \E k \in 1 .. 3 : Asking(r, k) /\ Root(Asker(r, k)) = r
                                                  /\ Root(Other[Asker(r, k)]) = r
         /\ Doing(r, "sendrecv") => \E k \in 1 .. 3 : Asking(r, k) /\ Root(Asker(r, k)) = r
                                                      /\ Root(Other[Asker(r, k)]) # r
         /\ Doing(r, "bcast") => \E k \in 1 .. 3 : HearFirst(r, k) \/ HearSecond(r, k)
         /\ Doing(r, "weights") => \E i \in 1 .. Weighed : Weighing(r, i)
<1>1. \A x, y : Doing(r, x) /\ Doing(r, y) => x = y
  BY DEF Doing
<1>2. \A x : ~(Doing(r, x) /\ Idle(r))
  BY DEF Doing, Idle
<1> QED BY <1>1, <1>2, Stages

-----------------------------------------------------------------------------
(* What one rank learns, and what the others see of it. *)

\* A step of one rank: the other ranks, and the codes of which it is not the root.
Alone(r) ==
  /\ world' = world
  /\ \A s \in Ranks : s # r =>
       /\ made'[s] = made[s] /\ side'[s] = side[s] /\ step'[s] = step[s]
       /\ called'[s] = called[s] /\ got'[s] = got[s] /\ objects'[s] = objects[s]
       /\ todo'[s] = todo[s] /\ entered'[s] = entered[s] /\ log'[s] = log[s]
       /\ arrived'[s] = arrived[s]
  /\ \A c \in Codes : Root(c) # r => mail'[c] = mail[c]

\* The other ranks stay in their stages.
LEMMA OthersStay ==
  ASSUME SetupAssumption, IInv, NEW r \in Ranks, Alone(r),
         Shapes', Mailed', Heralded', Stage(r)'
  PROVE  IInv'
<1>1. ASSUME NEW s \in Ranks, s # r PROVE Stage(s)'
  <2>1. Untouched(s)
    BY <1>1 DEF Alone, Untouched
  <2>2. step[s] \in Nat /\ entered[s] \in BOOLEAN /\ Stage(s) /\ world \in Worlds /\ world' = world
    BY DEF IInv, Shapes, UserShapes, MPIShapes, Alone
  <2> QED BY <2>1, <2>2, StageKept
<1> QED BY <1>1 DEF IInv

\* Nothing is said to the other code, or told to the own one.
LEMMA MailKept ==
  ASSUME world' = world, Shapes, Mailed, mail' = mail
  PROVE  Mailed'
<1>1. \A c : Values(c)' = Values(c)
  BY SameOrders
<1>2. ASSUME NEW c \in Codes
      PROVE  mail'[c] \in Seq(Values(c)') /\ \A k \in 1 .. Len(mail'[c]) : mail'[c][k] = Value(c, k)'
  <2>1. mail[c] \in Seq(Values(c)) /\ \A k \in 1 .. Len(mail[c]) : mail[c][k] = Value(c, k)
    BY DEF Mailed
  <2>2. \A k : Value(c, k)' = Value(c, k)
    BY SameOrders
  <2> QED BY <1>1, <2>1, <2>2
<1> QED BY <1>2 DEF Mailed

\* Nothing is broadcast.
LEMMA SharedKept ==
  ASSUME SetupAssumption, world' = world, Shapes, Heralded, shared' = shared, arrived' = arrived
  PROVE  Heralded'
<1>1. \A c : Values(c)' = Values(c)
  BY SameOrders
<1>2. ASSUME NEW c \in Codes
      PROVE  /\ shared'[c] \in Seq(Values(Other[c])') /\ Len(shared'[c]) = arrived'[Root(c)'][c]
             /\ \A k \in 1 .. Len(shared'[c]) : shared'[c][k] = Value(Other[c], k)'
  <2>1. /\ shared[c] \in Seq(Values(Other[c])) /\ Len(shared[c]) = arrived[Root(c)][c]
        /\ \A k \in 1 .. Len(shared[c]) : shared[c][k] = Value(Other[c], k)
    BY DEF Heralded
  <2>2. \A k : Value(Other[c], k)' = Value(Other[c], k)
    BY SameOrders
  <2>3. Root(c)' = Root(c)
    BY SameWorld
  <2> QED BY <1>1, <2>1, <2>2, <2>3
<1> QED BY <1>2 DEF Heralded

-----------------------------------------------------------------------------
(* The steps. *)

\* An MPI call changes nothing of what the user has asked for.
LEMMA UserKept ==
  ASSUME SetupAssumption, Shapes, UNCHANGED user
  PROVE  /\ world \in Worlds /\ world' = world /\ UserShapes'
         /\ \A r \in Ranks :
              /\ made'[r] = made[r] /\ side'[r] = side[r] /\ step'[r] = step[r]
              /\ called'[r] = called[r] /\ step[r] \in Nat
              /\ Joined(r)' = Joined(r) /\ Begun(r)' = Begun(r)
              /\ \A k \in 1 .. 3 : Asker(r, k)' = Asker(r, k) /\ First(r, k)' = First(r, k)
<1>1. /\ world \in Worlds /\ world' = world /\ made' = made /\ side' = side /\ step' = step
      /\ called' = called /\ UserShapes
  BY DEF Shapes, UserShapes, user
<1>2. UserShapes'
  BY <1>1 DEF UserShapes
<1>3. ASSUME NEW r \in Ranks
      PROVE  /\ Joined(r)' = Joined(r) /\ Begun(r)' = Begun(r) /\ step[r] \in Nat
             /\ \A k \in 1 .. 3 : Asker(r, k)' = Asker(r, k) /\ First(r, k)' = First(r, k)
  BY <1>1, JoinedKept, SameWorld DEF Begun, UserShapes
<1> QED BY <1>1, <1>2, <1>3

\* A rank leaves the call it is in.
LEMMA Finished ==
  ASSUME MPIShapes, NEW r \in Ranks, Finish(r), NEW call, NEW rest, Ahead(r, call, rest)
  PROVE  /\ todo'[r] = rest /\ entered'[r] = FALSE /\ DOMAIN todo' = Ranks
         /\ entered' \in [Ranks -> BOOLEAN]
         /\ \A s \in Ranks : s # r => todo'[s] = todo[s] /\ entered'[s] = entered[s]
<1>1. /\ todo' = [todo EXCEPT ![r] = Tail(todo[r])] /\ entered' = [entered EXCEPT ![r] = FALSE]
      /\ DOMAIN todo = Ranks /\ entered \in [Ranks -> BOOLEAN]
      /\ Tail(todo[r]) = rest
  BY DEF Finish, Ahead, MPIShapes
<1> QED BY <1>1

\* A rank enters the call it has to make, one of its own or one over all ranks.
LEMMA Entered ==
  ASSUME MPIShapes, NEW r \in Ranks, Enter(r)
  PROVE  /\ entered'[r] = TRUE /\ entered' \in [Ranks -> BOOLEAN]
         /\ \A s \in Ranks : s # r => entered'[s] = entered[s]
BY DEF Enter, MPIShapes

\* A rank that enters a call over all ranks has one more entry in its log.
LEMMA EnteredAll ==
  ASSUME SetupAssumption, world \in Worlds, world' = world, MPIShapes, NEW r \in Ranks,
         NEW call, EnterAll(r, call), NEW n \in Nat, Logged(r, n),
         Sound => call = Common(n + 1) /\ call \in LogEntry
  PROVE  /\ Logged(r, n + 1)' /\ DOMAIN log' = Ranks
         /\ \A s \in Ranks : s # r => log'[s] = log[s]
<1>1. log' = [log EXCEPT ![r] = Append(log[r], call)] /\ DOMAIN log = Ranks
  BY DEF EnterAll, MPIShapes
<1>2. log'[r] = Append(log[r], call)
  BY <1>1
<1>3. Sound' = Sound /\ LogEntry' = LogEntry /\ \A i \in Nat : Common(i)' = Common(i)
  BY SameCalls
<1>4. ASSUME Sound
      PROVE  /\ log'[r] \in Seq(LogEntry) /\ Len(log'[r]) = n + 1
             /\ \A i \in 1 .. n + 1 : log'[r][i] = Common(i)
  <2>1. /\ log[r] \in Seq(LogEntry) /\ Len(log[r]) = n /\ \A i \in 1 .. n : log[r][i] = Common(i)
        /\ call = Common(n + 1) /\ call \in LogEntry
    BY <1>4 DEF Logged
  <2> DEFINE t == log[r]
  <2>2. /\ Append(t, call) \in Seq(LogEntry) /\ Len(Append(t, call)) = n + 1
        /\ \A i \in 1 .. n + 1 : Append(t, call)[i] = IF i <= n THEN t[i] ELSE call
    <3>1. t \in Seq(LogEntry) /\ Len(t) = n /\ call \in LogEntry
      BY <2>1
    <3> HIDE DEF t
    <3>2. /\ Append(t, call) \in Seq(LogEntry) /\ Len(Append(t, call)) = Len(t) + 1
          /\ \A i \in 1 .. Len(t) : Append(t, call)[i] = t[i]
          /\ Append(t, call)[Len(t) + 1] = call
      BY <3>1, AppendProperties
    <3> QED BY <3>1, <3>2
  <2>3. \A i \in 1 .. n + 1 : Append(t, call)[i] = Common(i)
    BY <2>1, <2>2
  <2> QED BY <1>2, <2>2, <2>3
<1>5. \A i \in 1 .. n + 1 : i \in Nat
  OBVIOUS
<1>6. Logged(r, n + 1)'
  BY <1>3, <1>4, <1>5 DEF Logged
<1> QED BY <1>1, <1>6

\* The log of a rank stays as it is.
LEMMA LogStays ==
  ASSUME SetupAssumption, world \in Worlds, world' = world, NEW r \in Ranks, log'[r] = log[r],
         NEW n \in Nat, Logged(r, n)
  PROVE  Logged(r, n)'
BY LogKept

\* Stages other than the exchanges and the weights.
LEMMA SimpleStages ==
  ASSUME NEW r, Fresh(r) \/ Grouping(r) \/ Creating(r) \/ Waiting(r) \/ Listing(r) \/ Resting(r)
                  \/ Ordering(r)
  PROVE  Stage(r)
BY DEF Stage

\* An MPI call over all ranks is entered or left: what else is kept.
LEMMA CollectiveKept ==
  ASSUME SetupAssumption, IInv, NEW r \in Ranks, UNCHANGED <<user, got, mail, arrived, shared>>
  PROVE  /\ Mailed' /\ Heralded'
         /\ \A k : Learned(r, k)' = Learned(r, k)
         /\ \A n : Heard(r, n)' = Heard(r, n) /\ Told(r, n)' = Told(r, n)
<1>1. Shapes /\ Mailed /\ Heralded /\ world \in Worlds /\ world' = world
  BY UserKept DEF IInv
<1>2. Mailed' /\ Heralded'
  BY <1>1, MailKept, SharedKept
<1> QED BY <1>1, <1>2, RightKept, HeardKept, ToldKept

\* A step of rank r that is an MPI call and not one between the roots.
LEMMA AloneMPI ==
  ASSUME SetupAssumption, IInv, NEW r \in Ranks, UNCHANGED user, mail' = mail,
         \A s \in Ranks : s # r =>
           /\ got'[s] = got[s] /\ objects'[s] = objects[s] /\ todo'[s] = todo[s]
           /\ entered'[s] = entered[s] /\ log'[s] = log[s] /\ arrived'[s] = arrived[s]
  PROVE  Alone(r)
BY UserKept DEF IInv, Alone

\* Every step keeps the invariant: the union communicator, ...
LEMMA StepCreateGroup ==
  ASSUME SetupAssumption, IInv, NEW r \in Ranks, CreateGroup(r)
  PROVE  IInv'
<1>1. /\ Shapes /\ MPIShapes /\ Stage(r) /\ UNCHANGED user /\ got' = got /\ objects' = objects
      /\ world \in Worlds /\ world' = world
  BY UserKept DEF IInv, Shapes, CreateGroup
<1>2. Grouping(r)
  BY <1>1, StageOf DEF CreateGroup
<1>3. /\ Joined(r)' /\ step'[r] = 0 /\ called'[r] = {} /\ Empty(r)'
      /\ UserShapes' /\ side'[r] = side[r] /\ side[r] \in Codes
      /\ Asker(r, 1)' = side[r] /\ First(r, 1)' = side[r]
  <2>1. Joined(r)' /\ step'[r] = 0 /\ called'[r] = {} /\ Empty(r)' /\ UserShapes'
        /\ side'[r] = side[r] /\ side[r] \in Codes
    BY <1>1, <1>2, UserKept, CodeFacts DEF Grouping, Empty, Joined
  <2> QED BY <1>1, <2>1 DEF Asker, First
<1>4. CASE EnterAll(r, [op |-> "create_group"]) /\ UNCHANGED todo
  <2>1. UNCHANGED <<user, got, mail, arrived, shared>> /\ ~entered[r] /\ Enter(r)
    BY <1>1, <1>4 DEF EnterAll
  <2>2. entered'[r] = TRUE /\ entered' \in [Ranks -> BOOLEAN]
        /\ \A s \in Ranks : s # r => entered'[s] = entered[s]
    BY <1>1, <2>1, Entered
  <2>3. Logged(r, 1)' /\ DOMAIN log' = Ranks /\ \A s \in Ranks : s # r => log'[s] = log[s]
    <3>1. Logged(r, 0) /\ 0 \in Nat /\ 0 + 1 = 1
      BY <1>2, <2>1 DEF Grouping
    <3> QED BY <1>1, <1>4, <3>1, EnteredAll, CommonCalls
  <2>4. Mailed' /\ Heralded' /\ Heard(r, 0)' /\ Told(r, 0)'
    BY <1>2, <2>1, CollectiveKept DEF Grouping
  <2>5. Shapes'
    BY <1>1, <1>3, <1>4, <2>1, <2>2, <2>3 DEF Shapes, MPIShapes
  <2>6. Alone(r)
    BY <1>1, <1>4, <2>1, <2>2, <2>3, AloneMPI
  <2>7. todo'[r] = (<<Local("create_group")>> \o Block(r, side[r], side[r], 1))'
    <3>1. PICK v \in Codes : v = side[r]
      BY <1>3
    <3>2. 1 \in 1 .. 3
      OBVIOUS
    <3>3. Block(r, v, v, 1)' = Block(r, v, v, 1)
      BY <1>1, <3>2, SameLists
    <3>4. Block(r, side[r], side[r], 1)' = Block(r, side[r], side[r], 1)
      BY <1>3, <3>1, <3>3
    <3> QED BY <1>2, <1>4, <3>4 DEF Grouping, Local
  <2>8. Grouping(r)'
    BY <1>3, <2>2, <2>3, <2>4, <2>7 DEF Grouping
  <2> QED BY <2>4, <2>5, <2>6, <2>8, OthersStay DEF Stage
<1>5. CASE AllIn(r) /\ Finish(r) /\ UNCHANGED mpi
  <2>1. UNCHANGED <<user, got, mail, arrived, shared, log>> /\ entered[r] = TRUE
    BY <1>1, <1>5 DEF AllIn, mpi, MPIShapes
  <2>2. Ahead(r, Local("create_group"), Block(r, side[r], side[r], 1))
    BY <1>1, <1>2, OneCalls
  <2>3. /\ todo'[r] = Block(r, side[r], side[r], 1) /\ entered'[r] = FALSE /\ DOMAIN todo' = Ranks
        /\ entered' \in [Ranks -> BOOLEAN]
        /\ \A s \in Ranks : s # r => todo'[s] = todo[s] /\ entered'[s] = entered[s]
    BY <1>1, <1>5, <2>2, Finished
  <2>4. Mailed' /\ Heralded' /\ Heard(r, 0)' /\ Told(r, 0)'
    BY <1>2, <2>1, CollectiveKept DEF Grouping
  <2>5. Shapes'
    BY <1>1, <1>3, <2>1, <2>3 DEF Shapes, MPIShapes
  <2>6. Alone(r)
    BY <1>1, <2>1, <2>3, AloneMPI
  <2>7. Logged(r, 1)'
    BY <1>1, <1>2, <2>1, LogStays DEF Grouping
  <2>8. todo'[r] = Block(r, Asker(r, 1), First(r, 1), 1)'
    <3>1. PICK v \in Codes : v = side[r]
      BY <1>3
    <3>2. 1 \in 1 .. 3
      OBVIOUS
    <3>3. Block(r, v, v, 1)' = Block(r, v, v, 1)
      BY <1>1, <3>2, SameLists
    <3>4. Block(r, Asker(r, 1), First(r, 1), 1)' = Block(r, side[r], side[r], 1)
      BY <1>3, <3>1, <3>3
    <3> QED BY <2>3, <3>4
  <2>9. Learned(r, 1 - 1)'
    BY DEF Learned
  <2>10. Place(r, 1)'
    BY <1>3, <2>7, <2>9 DEF Place
  <2>11. Asking(r, 1)'
    BY <2>3, <2>4, <2>8, <2>10 DEF Asking
  <2>12. 1 \in 1 .. 3
    OBVIOUS
  <2> QED BY <2>4, <2>5, <2>6, <2>11, <2>12, OthersStay DEF Stage
<1> QED BY <1>4, <1>5 DEF CreateGroup

\* ... the communicator of the coupling, ...
LEMMA StepCplCommCreate ==
  ASSUME SetupAssumption, IInv, NEW r \in Ranks, CplCommCreate(r)
  PROVE  IInv'
<1>1. /\ Shapes /\ MPIShapes /\ Stage(r) /\ UNCHANGED user /\ got' = got /\ objects' = objects
      /\ world \in Worlds /\ world' = world
  BY UserKept DEF IInv, Shapes, CplCommCreate
<1>2. Creating(r)
  BY <1>1, StageOf DEF CplCommCreate
<1>3. /\ Joined(r)' /\ step'[r] = 0 /\ called'[r] = {} /\ Empty(r)' /\ UserShapes'
      /\ ~Begun(r)'
  BY <1>1, <1>2, UserKept DEF Creating, Empty, Begun
<1>4. /\ side[r] \in Codes /\ Right(r, side[r], 1)
      /\ got[r][side[r]].type = world.part[Other[side[r]]]
  <2>1. side[r] \in world.codes[r] /\ Learned(r, 1) /\ world.codes[r] \subseteq Codes
    BY <1>1, <1>2, CodeFacts DEF Creating, Joined
  <2>2. Right(r, side[r], 1)
    BY <2>1 DEF Learned
  <2> QED BY <2>1, <2>2 DEF Right, Value, What
<1>5. (world.part[side[r]] /\ got[r][side[r]].type) <=> BothPart
  BY <1>4, TwoCodes DEF BothPart
<1>6. BothPart' = BothPart /\ Base(0)' = Base(0) /\ Base(0) = (IF BothPart THEN 1 ELSE 2)
  BY <1>1, SameCalls, BaseStep DEF Opening
<1>7. ASSUME Finish(r), UNCHANGED mpi, entered[r] \/ BothPart PROVE IInv'
  <2>1. UNCHANGED <<user, got, mail, arrived, shared, log>>
    BY <1>1, <1>7 DEF mpi
  <2>2. Ahead(r, Local("create"), <<>>)
    BY <1>1, <1>2, OneCalls
  <2>3. /\ todo'[r] = <<>> /\ entered'[r] = FALSE /\ DOMAIN todo' = Ranks
        /\ entered' \in [Ranks -> BOOLEAN]
        /\ \A s \in Ranks : s # r => todo'[s] = todo[s] /\ entered'[s] = entered[s]
    BY <1>1, <1>7, <2>2, Finished
  <2>4. Mailed' /\ Heralded' /\ Heard(r, 1)' /\ Told(r, 1)' /\ Learned(r, 1)'
    BY <1>2, <2>1, CollectiveKept DEF Creating
  <2>5. Shapes'
    BY <1>1, <1>3, <2>1, <2>3 DEF Shapes, MPIShapes
  <2>6. Alone(r)
    BY <1>1, <2>1, <2>3, AloneMPI
  <2>7. Logged(r, Base(0))'
    <3>1. PICK n \in Nat : n = Base(0)
      BY <1>6
    <3>2. Logged(r, n)
      BY <1>2, <1>6, <1>7, <3>1 DEF Creating
    <3>3. Logged(r, n)'
      BY <1>1, <2>1, <3>2, LogStays
    <3> QED BY <1>6, <3>1, <3>3
  <2>8. Waiting(r)'
    BY <1>3, <2>3, <2>4, <2>7 DEF Waiting, Idle
  <2> QED BY <2>4, <2>5, <2>6, <2>8, OthersStay DEF Stage
<1>8. CASE BothPart
  BY <1>5, <1>7, <1>8 DEF CplCommCreate
<1>9. CASE ~BothPart /\ AllIn(r) /\ Finish(r) /\ UNCHANGED mpi
  BY <1>7, <1>9 DEF AllIn
<1>10. CASE ~BothPart /\ EnterAll(r, [op |-> "create", group |-> CplGroup(r)]) /\ UNCHANGED todo
  <2>1. UNCHANGED <<user, got, mail, arrived, shared>> /\ ~entered[r] /\ Enter(r)
    BY <1>1, <1>10 DEF EnterAll
  <2>2. entered'[r] = TRUE /\ entered' \in [Ranks -> BOOLEAN]
        /\ \A s \in Ranks : s # r => entered'[s] = entered[s]
    BY <1>1, <2>1, Entered
  <2>3. Logged(r, 2)' /\ DOMAIN log' = Ranks /\ \A s \in Ranks : s # r => log'[s] = log[s]
    <3>1. Logged(r, 1) /\ 1 \in Nat /\ 1 + 1 = 2
      BY <1>2, <2>1 DEF Creating
    <3>2. CplGroup(r) = Group
      BY <1>1, <1>4, <1>10, SameGroup
    <3> QED BY <1>1, <1>10, <3>1, <3>2, EnteredAll, CommonCalls
  <2>4. Mailed' /\ Heralded' /\ Heard(r, 1)' /\ Told(r, 1)' /\ Learned(r, 1)'
    BY <1>2, <2>1, CollectiveKept DEF Creating
  <2>5. Shapes'
    BY <1>1, <1>3, <1>10, <2>1, <2>2, <2>3 DEF Shapes, MPIShapes
  <2>6. Alone(r)
    BY <1>1, <1>10, <2>1, <2>2, <2>3, AloneMPI
  <2>7. todo'[r] = <<Local("create")>>'
    BY <1>2, <1>10 DEF Creating, Local
  <2>8. Creating(r)'
    BY <1>3, <1>6, <1>10, <2>2, <2>3, <2>4, <2>7 DEF Creating
  <2> QED BY <2>4, <2>5, <2>6, <2>8, OthersStay DEF Stage
<1>11. ~BothPart => \/ EnterAll(r, [op |-> "create", group |-> CplGroup(r)]) /\ UNCHANGED todo
                    \/ AllIn(r) /\ Finish(r) /\ UNCHANGED mpi
  BY <1>5 DEF CplCommCreate
<1> QED BY <1>8, <1>9, <1>10, <1>11

\* ... the objects, made from the fields of the other code, ...
LEMMA StepCreateObjects ==
  ASSUME SetupAssumption, IInv, NEW r \in Ranks, CreateObjects(r)
  PROVE  IInv'
<1>1. /\ Shapes /\ MPIShapes /\ Stage(r) /\ UNCHANGED user /\ got' = got
      /\ world \in Worlds /\ world' = world /\ Finish(r) /\ UNCHANGED mpi
      /\ UNCHANGED <<user, got, mail, arrived, shared, log>>
  BY UserKept DEF IInv, Shapes, CreateObjects, mpi
<1>2. Listing(r)
  BY <1>1, StageOf DEF CreateObjects
<1>3. /\ Joined(r)' /\ Joined(r) /\ step'[r] = 0 /\ Begun(r)' /\ UserShapes'
      /\ Main(r) \in Codes /\ Asker(r, 3) \in Codes /\ First(r, 3) = Main(r)
  <2>1. Joined(r)' /\ Joined(r) /\ step'[r] = 0 /\ Begun(r)' /\ UserShapes'
    BY <1>1, <1>2, UserKept DEF Listing
  <2>2. 3 \in 1 .. 3
    OBVIOUS
  <2> QED BY SMTT(30), <1>1, <2>1, <2>2, AskerOwn, CodeFacts DEF First
<1>4. NewObjects(r) = AllObjs(r)
  <2>1. Main(r) \in world.codes[r] /\ 2 \in 1 .. 2 /\ Learned(r, 2)
    BY <1>1, <1>2, CodeFacts DEF Listing
  <2>2. Right(r, Main(r), 2)
    BY <2>1 DEF Learned
  <2>3. got[r][Main(r)].fields = world.fields[Other[Main(r)]]
    BY <2>2 DEF Right, Value, What
  <2> QED BY <1>1, <2>3, MadeObjects
<1>5. /\ objects'[r] = [o \in AllObjs(r) |-> [as |-> o.code, link |-> NoValue]]
      /\ DOMAIN objects' = Ranks /\ \A s \in Ranks : s # r => objects'[s] = objects[s]
  BY <1>1, <1>4 DEF CreateObjects, MPIShapes
<1>6. Built(r)'
  <2>1. AllObjs(r)' = AllObjs(r)
    BY <1>1, SameEdges
  <2>2. DOMAIN objects'[r] = AllObjs(r)
    BY <1>5
  <2>3. \A o \in AllObjs(r) : DOMAIN objects'[r][o] = {"as", "link"} /\ objects'[r][o].as = o.code
    BY <1>5
  <2> QED BY <2>1, <2>2, <2>3 DEF Built
<1>7. Unlinked(r, 1, Weighed)'
  <2>1. Weighed' = Weighed /\ \A j : ObjsAt(r, j)' = ObjsAt(r, j)
    BY <1>1, SameEdges
  <2>2. \A j \in 1 .. Weighed : ObjsAt(r, j) \subseteq AllObjs(r)
    BY <1>1, OneWeight
  <2>3. \A o \in AllObjs(r) : objects'[r][o].link = NoValue
    BY <1>5
  <2> QED BY <2>1, <2>2, <2>3 DEF Unlinked
<1>8. Ahead(r, Local("objects"), Block(r, Asker(r, 3), Main(r), 3))
  BY <1>1, <1>2, OneCalls
<1>9. /\ todo'[r] = Block(r, Asker(r, 3), Main(r), 3) /\ entered'[r] = FALSE
      /\ DOMAIN todo' = Ranks /\ entered' \in [Ranks -> BOOLEAN]
      /\ \A s \in Ranks : s # r => todo'[s] = todo[s] /\ entered'[s] = entered[s]
  BY <1>1, <1>8, Finished
<1>10. Mailed' /\ Heralded' /\ Heard(r, 2)' /\ Told(r, 2)' /\ Learned(r, 2)'
  BY <1>1, <1>2, CollectiveKept DEF Listing
<1>11. Shapes'
  BY <1>1, <1>3, <1>5, <1>9 DEF Shapes, MPIShapes
<1>12. Alone(r)
  BY <1>1, <1>5, <1>9, AloneMPI
<1>13. Logged(r, Base(0))'
  <2>1. Base(0) \in Nat /\ Base(0)' = Base(0)
    BY <1>1, BaseStep, SameCalls
  <2>2. PICK n \in Nat : n = Base(0)
    BY <2>1
  <2>3. Logged(r, n)'
    BY <1>1, <1>2, <2>2, LogStays DEF Listing
  <2> QED BY <2>1, <2>2, <2>3
<1>14. todo'[r] = Block(r, Asker(r, 3), First(r, 3), 3)'
  <2>1. PICK a \in Codes, v \in Codes : a = Asker(r, 3) /\ v = First(r, 3)
    BY <1>3
  <2>2. 3 \in 1 .. 3
    OBVIOUS
  <2>3. Block(r, a, v, 3)' = Block(r, a, v, 3) /\ a = Asker(r, 3)' /\ v = First(r, 3)'
    BY ZenonT(60), <1>1, <2>1, <2>2, SameLists, UserKept
  <2> QED BY <1>3, <1>9, <2>1, <2>3
<1>15. Place(r, 3)'
  <2>1. Learned(r, 3 - 1)'
    BY <1>10
  <2> QED BY <1>3, <1>6, <1>7, <1>13, <2>1 DEF Place
<1>16. Asking(r, 3)' /\ 3 \in 1 .. 3
  BY <1>9, <1>10, <1>14, <1>15 DEF Asking
<1> QED BY <1>10, <1>11, <1>12, <1>16, OthersStay DEF Stage

\* ... the weights, put in the order of the send objects of both codes, ...
LEMMA StepOrderWeights ==
  ASSUME SetupAssumption, IInv, NEW r \in Ranks, OrderWeights(r)
  PROVE  IInv'
<1>1. /\ Shapes /\ MPIShapes /\ Stage(r) /\ objects' = objects /\ entered' = entered
      /\ world \in Worlds /\ world' = world /\ step[r] \in Nat
      /\ UNCHANGED user /\ got' = got
      /\ UNCHANGED <<user, got, mail, arrived, shared, log>>
  BY UserKept DEF IInv, Shapes, OrderWeights, mpi
<1>2. Ordering(r)
  BY <1>1, StageOf DEF OrderWeights
<1>3. Joined(r)' /\ Begun(r)' /\ step'[r] = step[r] /\ UserShapes'
  BY <1>1, <1>2, UserKept DEF Ordering, Later
<1>4. Mailed' /\ Heralded' /\ Heard(r, 3)' /\ Told(r, 3)' /\ Learned(r, 3)'
  BY <1>1, <1>2, CollectiveKept DEF Ordering, Later
<1>5. Built(r)' /\ Later(r)'
  BY <1>1, <1>2, <1>3, <1>4, BuiltKept DEF Ordering, Later
<1>6. todo'[r] = Weights(r) /\ DOMAIN todo' = Ranks /\ \A s \in Ranks : s # r => todo'[s] = todo[s]
  <2>1. WeightsCalls(r) = Weights(r)
    BY <1>1, <1>2, WeightsHeld DEF Ordering, Later, Built
  <2> QED BY <1>1, <2>1 DEF OrderWeights, MPIShapes
<1>7. Shapes'
  BY <1>1, <1>3, <1>6 DEF Shapes, MPIShapes
<1>8. Alone(r)
  BY <1>1, <1>6, AloneMPI
<1>9. Weighed \in Nat /\ Weighed' = Weighed /\ Weights(r)' = Weights(r)
      /\ Sound' = Sound /\ \A j : ObjsAt(r, j)' = ObjsAt(r, j)
  BY <1>1, EdgeFacts, SameEdges, SameCalls
<1>10. todo'[r] = SubSeq(Weights(r), 1, Weighed)'
  <2> DEFINE n == Weighed  f == Weights(r)  S == {f[j] : j \in 1 .. n}
  <2>1. f = [j \in 1 .. n |-> Compute(ObjList(r, j))]
    BY DEF Weights
  <2>2. f \in Seq(S) /\ Len(f) = n
    <3> HIDE DEF f
    <3>1. f \in [1 .. n -> S]
      BY <2>1
    <3> HIDE DEF S
    <3> QED BY <1>9, <3>1, FunSeq
  <2> HIDE DEF f, S, n
  <2>3. SubSeq(f, 1, n) = f
    <3> DEFINE t == SubSeq(f, 1, n)
    <3>1. t \in Seq(S) /\ Len(t) = n /\ \A j \in 1 .. n : t[j] = f[1 + j - 1]
      BY <1>9, <2>2 DEF n
    <3> HIDE DEF t
    <3>2. \A j \in 1 .. n : t[j] = f[j]
      BY <1>9, <3>1 DEF n
    <3>3. t = f
      BY <2>2, <3>1, <3>2, SeqEqual
    <3> QED BY <3>3 DEF t
  <2> QED BY <1>6, <1>9, <2>3 DEF f, n
<1>11. Logged(r, Base(step[r]))' /\ Base(step[r])' = Base(step[r]) /\ Base(step[r]) \in Nat
  <2>1. PICK s \in Nat : s = step[r]
    BY <1>1
  <2>2. PICK n \in Nat : n = Base(s)
    BY <1>1, BaseStep
  <2>3. Logged(r, n)' /\ Base(s)' = n /\ step'[r] = s
    BY <1>1, <1>2, <1>3, <2>1, <2>2, LogStays, SameCalls DEF Ordering
  <2> QED BY <2>1, <2>2, <2>3
<1>12. Logged(r, Base(step[r]) + 1 - 1)'
  <2>1. (Base(step[r]) + 1 - 1)' = Base(step[r])'
    BY <1>11
  <2> QED BY <1>11, <2>1
<1>13. Linked(r, 1 - 1)'
  BY DEF Linked
<1>14. Sound /\ step[r] = 0 => Unlinked(r, 1, Weighed)'
  BY <1>1, <1>2, <1>9 DEF Ordering, Unlinked
<1>15. ~entered'[r]
  BY <1>1, <1>2 DEF Ordering
<1>16. Weighing(r, 1)'
  BY <1>3, <1>5, <1>9, <1>10, <1>12, <1>13, <1>14, <1>15 DEF Weighing
<1>17. 1 \in (1 .. Weighed + 1)'
  BY <1>9
<1>18. Stage(r)'
  BY <1>16, <1>17 DEF Stage
<1> QED BY <1>4, <1>7, <1>8, <1>18, OthersStay

\* The names of the exchanges are different.
LEMMA WhatsDiffer ==
  /\ \A j, k \in 1 .. 3 : What(j) = What(k) => j = k
  /\ \A k \in 1 .. 3 : What(k) \in Whats
BY DEF What, Whats

\* A root has to say what its code sends in the exchange.
LEMMA SaysRight ==
  ASSUME SetupAssumption, world \in Worlds, NEW r \in Ranks, NEW k \in 1 .. 3, Place(r, k),
         NEW c \in world.codes[r]
  PROVE  Payload(r, c, What(k)) = Value(c, k)
<1>1. CASE k = 1
  BY <1>1 DEF Payload, What, Value
<1>2. CASE k = 2
  BY <1>2 DEF Payload, What, Value
<1>3. CASE k = 3
  <2>1. SendKeys(r, c) = Order(c)
    BY <1>3, KeysHeld DEF Place, Built
  <2> QED BY <1>3, <2>1 DEF Payload, What, Value
<1> QED BY <1>1, <1>2, <1>3

\* A rank comes to know one thing as a rank of one code.
LEMMA OneLearned ==
  ASSUME SetupAssumption, MPIShapes, world' = world, NEW r \in Ranks, NEW c \in Codes,
         NEW k \in 1 .. 3, NEW x, got' = [got EXCEPT ![r][c][What(k)] = x]
  PROVE  /\ DOMAIN got' = Ranks /\ \A s \in Ranks : s # r => got'[s] = got[s]
         /\ \A s \in Ranks : DOMAIN got'[s] = Codes
         /\ \A s \in Ranks : \A d \in Codes : DOMAIN got'[s][d] = {"type", "fields", "sends"}
         /\ \A d \in Codes, j \in 1 .. 3 : ~(d = c /\ j = k) => (Right(r, d, j) => Right(r, d, j)')
         /\ x = Value(Other[c], k) => Right(r, c, k)'
<1> DEFINE w == What(k)
<1>1. /\ DOMAIN got = Ranks /\ DOMAIN got[r] = Codes
      /\ \A s \in Ranks : DOMAIN got[s] = Codes
      /\ \A s \in Ranks : \A d \in Codes : DOMAIN got[s][d] = {"type", "fields", "sends"}
      /\ w \in {"type", "fields", "sends"}
  BY WhatsDiffer DEF MPIShapes, Whats
<1>2. got' = [got EXCEPT ![r][c][w] = x]
  OBVIOUS
<1> HIDE DEF w
<1>3. /\ DOMAIN got' = Ranks /\ \A s \in Ranks : s # r => got'[s] = got[s]
      /\ got'[r] = [got[r] EXCEPT ![c][w] = x]
  BY <1>1, <1>2
<1>4. /\ DOMAIN got'[r] = Codes /\ \A d \in Codes : d # c => got'[r][d] = got[r][d]
      /\ got'[r][c] = [got[r][c] EXCEPT ![w] = x]
  BY <1>1, <1>3
<1>5. /\ DOMAIN got'[r][c] = {"type", "fields", "sends"} /\ got'[r][c][w] = x
      /\ \A y \in {"type", "fields", "sends"} : y # w => got'[r][c][y] = got[r][c][y]
  BY <1>1, <1>4
<1>6. \A d, j : Value(d, j)' = Value(d, j)
  BY SameOrders
<1>7. ASSUME NEW d \in Codes, NEW j \in 1 .. 3, ~(d = c /\ j = k), Right(r, d, j)
      PROVE  Right(r, d, j)'
  <2>1. What(j) \in {"type", "fields", "sends"} /\ (What(j) = w => j = k)
    BY WhatsDiffer DEF w, Whats
  <2>2. got'[r][d][What(j)] = got[r][d][What(j)]
    BY <1>4, <1>5, <1>7, <2>1
  <2>3. Value(Other[d], j)' = Value(Other[d], j)
    BY <1>6
  <2> QED BY <1>7, <2>2, <2>3 DEF Right
<1>8. x = Value(Other[c], k) => Right(r, c, k)'
  BY <1>5, <1>6 DEF Right, w
<1>9. \A s \in Ranks : DOMAIN got'[s] = Codes
  BY <1>1, <1>3, <1>4
<1>10. \A s \in Ranks : \A d \in Codes : DOMAIN got'[s][d] = {"type", "fields", "sends"}
  BY <1>1, <1>3, <1>4, <1>5
<1> QED BY <1>3, <1>7, <1>8, <1>9, <1>10

\* The lists of an exchange are those of before a step.
LEMMA ListsKept ==
  ASSUME SetupAssumption, Shapes, UNCHANGED user, NEW r \in Ranks, NEW k \in 1 .. 3, Joined(r)
  PROVE  /\ Block(r, Asker(r, k), First(r, k), k)' = Block(r, Asker(r, k), First(r, k), k)
         /\ Firsts(r, First(r, k), k)' = Firsts(r, First(r, k), k)
         /\ Seconds(r, First(r, k), k)' = Seconds(r, First(r, k), k)
         /\ After(r, k)' = After(r, k)
<1>1. /\ world \in Worlds /\ world' = world
      /\ Asker(r, k)' = Asker(r, k) /\ First(r, k)' = First(r, k)
  BY UserKept
<1>2. Asker(r, k) \in Codes /\ First(r, k) \in Codes
  BY <1>1, AskerOwn, CodeFacts
<1>3. PICK a \in Codes, v \in Codes : a = Asker(r, k) /\ v = First(r, k)
  BY <1>2
<1>4. /\ Block(r, a, v, k)' = Block(r, a, v, k) /\ Firsts(r, v, k)' = Firsts(r, v, k)
      /\ Seconds(r, v, k)' = Seconds(r, v, k) /\ After(r, k)' = After(r, k)
  BY <1>1, SameLists
<1>5. a = Asker(r, k)' /\ v = First(r, k)'
  BY <1>1, <1>3
<1>6. Block(r, Asker(r, k), First(r, k), k)' = Block(r, Asker(r, k), First(r, k), k)
  BY <1>3, <1>4, <1>5
<1>7. Firsts(r, First(r, k), k)' = Firsts(r, First(r, k), k)
  BY <1>3, <1>4, <1>5
<1>8. Seconds(r, First(r, k), k)' = Seconds(r, First(r, k), k)
  BY <1>3, <1>4, <1>5
<1> QED BY <1>4, <1>6, <1>7, <1>8

\* The place of an exchange is kept by its steps.
LEMMA PlaceStays ==
  ASSUME SetupAssumption, Shapes, UNCHANGED user, UNCHANGED <<objects, log>>,
         NEW r \in Ranks, NEW k \in 1 .. 3, Place(r, k),
         \A c \in world.codes[r], j \in 1 .. k - 1 : Right(r, c, j) => Right(r, c, j)'
  PROVE  Place(r, k)' /\ Learned(r, k - 1)'
<1>1. world \in Worlds /\ world' = world
  BY UserKept
<1>2. Learned(r, k - 1)
  BY DEF Place
<1>3. \A j \in 1 .. k - 1 : \A c \in world.codes[r] : Right(r, c, j)'
  BY <1>2 DEF Learned
<1>4. Learned(r, k - 1)'
  BY <1>1, <1>3 DEF Learned
<1> QED BY <1>1, <1>4, PlaceKept DEF user

\* After an exchange a rank is in the stage that follows it.
LEMMA ExchangeDone ==
  ASSUME SetupAssumption, world' \in Worlds, NEW r \in Ranks, NEW k \in 1 .. 3,
         Place(r, k)', Learned(r, k)', Heard(r, k)', Told(r, k)', ~entered'[r],
         todo'[r] = After(r, k)'
  PROVE  Stage(r)'
<1>1. CASE k = 1
  <2>1. todo'[r] = <<Local("create")>>'
    BY <1>1 DEF After
  <2>2. /\ Joined(r)' /\ step'[r] = 0 /\ called'[r] = {} /\ Empty(r)' /\ Logged(r, 1)'
        /\ Learned(r, 1)' /\ Heard(r, 1)' /\ Told(r, 1)'
    BY <1>1 DEF Place
  <2> QED BY <2>1, <2>2 DEF Creating, Stage
<1>2. CASE k = 2
  <2>1. /\ Joined(r)' /\ step'[r] = 0 /\ Begun(r)' /\ Empty(r)' /\ Logged(r, Base(0))'
        /\ Learned(r, 2)' /\ Heard(r, 2)' /\ Told(r, 2)' /\ todo'[r] = After(r, 2)'
    BY <1>2 DEF Place
  <2> QED BY <2>1 DEF Listing, Stage
<1>3. CASE k = 3
  <2>1. /\ Joined(r)' /\ step'[r] = 0 /\ Begun(r)' /\ Logged(r, Base(0))' /\ Built(r)'
        /\ Learned(r, 3)' /\ Heard(r, 3)' /\ Told(r, 3)'
        /\ (Sound => Unlinked(r, 1, Weighed))'
    BY <1>3 DEF Place
  <2>2. todo'[r] = <<Local("order")>>'
    BY <1>3 DEF After
  <2>3. Later(r)'
    BY <2>1 DEF Later
  <2>4. Logged(r, Base(step[r]))'
    BY <2>1
  <2> QED BY <2>1, <2>2, <2>3, <2>4 DEF Ordering, Stage
<1> QED BY <1>1, <1>2, <1>3

\* ... the exchange of a rank that is the root of both codes, ...
LEMMA StepCopy ==
  ASSUME SetupAssumption, IInv, NEW r \in Ranks, Copy(r)
  PROVE  IInv'
<1>1. /\ Shapes /\ MPIShapes /\ Stage(r) /\ UNCHANGED user /\ objects' = objects
      /\ world \in Worlds /\ world' = world /\ UserShapes'
      /\ UNCHANGED <<log, mail, arrived, shared>> /\ Finish(r)
  BY UserKept DEF IInv, Shapes, Copy, mpi
<1>2. PICK k \in 1 .. 3 : Asking(r, k) /\ Root(Asker(r, k)) = r /\ Root(Other[Asker(r, k)]) = r
  BY <1>1, StageOf DEF Copy
<1> DEFINE a == Asker(r, k)  v == First(r, k)  w == What(k)
<1>3. /\ Joined(r) /\ Place(r, k) /\ a \in Codes /\ Other[a] \in Codes /\ v \in Codes
      /\ world.codes[r] \subseteq Codes
  BY <1>1, <1>2, AskerOwn, CodeFacts DEF Asking, Place
<1>4. \A c \in Codes :
        Root(c) = r /\ Root(Other[c]) = r /\ c \in world.codes[r] /\ Other[c] \in world.codes[r]
  <2>1. \A c \in Codes : c = a \/ c = Other[a]
    BY <1>3, TwoCodes
  <2>2. \A c \in Codes : Root(c) = r
    BY <1>2, <2>1
  <2>3. \A c \in Codes : c \in world.codes[r] /\ Other[c] \in Codes
    BY <1>1, <2>2, CodeFacts
  <2> QED BY <2>2, <2>3
<1>5. Ahead(r, [op |-> "copy", what |-> w], Firsts(r, v, k))
  BY <1>1, <1>2, <1>3, ExchangeAhead
<1>6. Head(todo[r]).what = w
  <2>1. Head(todo[r]) = [op |-> "copy", what |-> w]
    BY <1>5 DEF Ahead
  <2> QED BY <2>1
<1>7. /\ todo'[r] = Firsts(r, v, k) /\ entered'[r] = FALSE
      /\ DOMAIN todo' = Ranks /\ entered' \in [Ranks -> BOOLEAN]
      /\ \A s \in Ranks : s # r => todo'[s] = todo[s] /\ entered'[s] = entered[s]
  BY <1>1, <1>5, Finished
<1> HIDE DEF a, v
<1>8. got' = [got EXCEPT ![r] = [c \in Codes |->
                [got[r][c] EXCEPT ![w] = Payload(r, Other[c], w)]]]
  BY <1>6 DEF Copy
<1>9. /\ DOMAIN got = Ranks /\ DOMAIN got[r] = Codes
      /\ \A s \in Ranks : DOMAIN got[s] = Codes
      /\ \A s \in Ranks : \A d \in Codes : DOMAIN got[s][d] = {"type", "fields", "sends"}
      /\ w \in {"type", "fields", "sends"}
  BY <1>1, WhatsDiffer DEF MPIShapes, Whats
<1> HIDE DEF w
<1>10. /\ DOMAIN got' = Ranks /\ \A s \in Ranks : s # r => got'[s] = got[s]
       /\ got'[r] = [c \in Codes |-> [got[r][c] EXCEPT ![w] = Payload(r, Other[c], w)]]
  BY <1>8, <1>9
<1>11. /\ DOMAIN got'[r] = Codes
       /\ \A c \in Codes : got'[r][c] = [got[r][c] EXCEPT ![w] = Payload(r, Other[c], w)]
  BY <1>10
<1>12. \A c \in Codes : /\ DOMAIN got'[r][c] = {"type", "fields", "sends"}
                        /\ got'[r][c][w] = Payload(r, Other[c], w)
                        /\ \A y \in {"type", "fields", "sends"} : y # w => got'[r][c][y] = got[r][c][y]
  BY <1>9, <1>11
<1>13. \A c \in Codes : Right(r, c, k)'
  <2>1. SUFFICES ASSUME NEW c \in Codes PROVE Right(r, c, k)'
    OBVIOUS
  <2>2. Payload(r, Other[c], w) = Value(Other[c], k)
    BY <1>1, <1>3, <1>4, SaysRight DEF w
  <2>3. Value(Other[c], k)' = Value(Other[c], k)
    BY <1>1, SameOrders
  <2> QED BY <1>12, <2>2, <2>3 DEF Right, w
<1>14. \A c \in Codes, j \in 1 .. k - 1 : Right(r, c, j) => Right(r, c, j)'
  <2>1. SUFFICES ASSUME NEW c \in Codes, NEW j \in 1 .. k - 1, Right(r, c, j) PROVE Right(r, c, j)'
    OBVIOUS
  <2>2. j \in 1 .. 3 /\ j # k
    OBVIOUS
  <2>3. What(j) \in {"type", "fields", "sends"} /\ What(j) # w
    BY <2>2, WhatsDiffer DEF w, Whats
  <2>4. got'[r][c][What(j)] = got[r][c][What(j)]
    BY <1>12, <2>3
  <2>5. Value(Other[c], j)' = Value(Other[c], j)
    BY <1>1, SameOrders
  <2> QED BY <2>1, <2>4, <2>5 DEF Right
<1>15. Place(r, k)'
  BY <1>1, <1>3, <1>14, PlaceStays
<1>16. Asked(r, k)' /\ Told(r, k)'
  <2>1. \A c : Root(c)' = Root(c) /\ world.codes[r]' = world.codes[r]
    BY <1>1, SameWorld
  <2>2. Asked(r, k)'
    BY <1>3, <1>13, <2>1 DEF Asked
  <2>3. Told(r, k)'
    BY <1>3, <1>4, <2>1 DEF Told
  <2> QED BY <2>2, <2>3
<1>17. \A c \in world.codes[r] : arrived'[r][c] = k - 1
  BY <1>1, <1>2 DEF Asking, Heard
<1>18. todo'[r] = Firsts(r, First(r, k), k)'
  BY <1>1, <1>3, <1>7, ListsKept DEF v
<1>19. HearFirst(r, k)'
  BY <1>1, <1>7, <1>15, <1>16, <1>17, <1>18 DEF HearFirst
<1>20. Mailed' /\ Heralded'
  BY <1>1, MailKept, SharedKept DEF IInv
<1>21. Shapes'
  <2>1. \A s \in Ranks : DOMAIN got'[s] = Codes
    BY <1>9, <1>10, <1>11
  <2>2. \A s \in Ranks : \A d \in Codes : DOMAIN got'[s][d] = {"type", "fields", "sends"}
    BY <1>9, <1>10, <1>12
  <2> QED BY <1>1, <1>7, <1>10, <2>1, <2>2 DEF Shapes, MPIShapes
<1>22. Alone(r)
  BY <1>1, <1>7, <1>10, AloneMPI
<1> QED BY <1>19, <1>20, <1>21, <1>22, OthersStay DEF Stage

\* ... the message of a root to the other root, ...
LEMMA StepEnterSendrecv ==
  ASSUME SetupAssumption, IInv, NEW r \in Ranks, EnterSendrecv(r)
  PROVE  IInv'
<1>1. /\ Shapes /\ MPIShapes /\ Stage(r) /\ UNCHANGED user /\ Mailed /\ Heralded
      /\ world \in Worlds /\ world' = world /\ UserShapes' /\ ~entered[r] /\ Enter(r)
      /\ UNCHANGED <<user, got, objects, todo, log, arrived, shared>>
  BY UserKept DEF IInv, Shapes, EnterSendrecv
<1>2. PICK k \in 1 .. 3 : Asking(r, k) /\ Root(Asker(r, k)) = r /\ Root(Other[Asker(r, k)]) # r
  BY <1>1, StageOf DEF EnterSendrecv
<1> DEFINE a == Asker(r, k)  v == First(r, k)  w == What(k)
<1>3. /\ Joined(r) /\ Place(r, k) /\ a \in Codes /\ a \in world.codes[r] /\ v \in Codes
      /\ world.codes[r] \subseteq Codes
      /\ \A c \in world.codes[r] : Root(c) = r => a = c \/ Root(Other[c]) = r
  <2>1. Joined(r) /\ Place(r, k)
    BY <1>2 DEF Asking, Place
  <2>2. /\ a \in world.codes[r] /\ v \in world.codes[r]
        /\ \A c \in world.codes[r] : Root(c) = r => a = c \/ Root(Other[c]) = r
    BY <1>1, <2>1, AskerOwn
  <2>3. world.codes[r] \subseteq Codes
    BY <1>1, CodeFacts
  <2> QED BY <2>1, <2>2, <2>3
<1>4. Head(todo[r]) = Ask(a, w)
  BY <1>1, <1>2, <1>3, ExchangeAhead DEF Ahead
<1>5. entered'[r] = TRUE /\ entered' \in [Ranks -> BOOLEAN]
      /\ \A s \in Ranks : s # r => entered'[s] = entered[s]
  BY <1>1, Entered
<1>6. Payload(r, a, w) = Value(a, k)
  BY <1>1, <1>3, SaysRight
<1>7. Len(mail[a]) = k - 1
  BY <1>1, <1>2, <1>3 DEF Asking, Told
<1> HIDE DEF a, v, w
<1>8. mail' = [mail EXCEPT ![a] = Append(mail[a], Value(a, k))]
  <2>1. Head(todo[r]).code = a /\ Head(todo[r]).what = w
    BY <1>4, Kinds
  <2> QED BY <1>6, <2>1 DEF EnterSendrecv
<1>9. /\ DOMAIN mail' = Codes /\ mail'[a] = Append(mail[a], Value(a, k))
      /\ \A c \in Codes : c # a => mail'[c] = mail[c]
  BY <1>1, <1>3, <1>8 DEF MPIShapes
<1>10. /\ mail'[a] \in Seq(Values(a)) /\ Len(mail'[a]) = k
       /\ \A j \in 1 .. k : mail'[a][j] = Value(a, j)
  <2> DEFINE m == mail[a]  x == Value(a, k)
  <2>1. m \in Seq(Values(a)) /\ Len(m) = k - 1 /\ \A j \in 1 .. k - 1 : m[j] = Value(a, j)
    BY <1>1, <1>3, <1>7 DEF Mailed
  <2>2. x \in Values(a)
    BY DEF Values
  <2> HIDE DEF m, x
  <2>3. /\ Append(m, x) \in Seq(Values(a)) /\ Len(Append(m, x)) = k
        /\ \A j \in 1 .. k : Append(m, x)[j] = IF j = k THEN x ELSE m[j]
    <3>1. /\ Append(m, x) \in Seq(Values(a)) /\ Len(Append(m, x)) = Len(m) + 1
          /\ \A j \in 1 .. Len(m) : Append(m, x)[j] = m[j] /\ Append(m, x)[Len(m) + 1] = x
      BY <2>1, <2>2, AppendProperties
    <3>2. Append(m, x)[Len(m) + 1] = x
      BY <2>1, <2>2, AppendProperties
    <3> QED BY <2>1, <3>1, <3>2
  <2>4. \A j \in 1 .. k : Append(m, x)[j] = Value(a, j)
    BY <2>1, <2>3 DEF x
  <2> QED BY <1>9, <2>3, <2>4 DEF m, x
<1>11. Mailed'
  <2>1. ASSUME NEW c \in Codes
        PROVE  mail'[c] \in Seq(Values(c)) /\ \A j \in 1 .. Len(mail'[c]) : mail'[c][j] = Value(c, j)
    <3>1. CASE c = a
      BY <1>10, <3>1
    <3>2. CASE c # a
      BY <1>1, <1>9, <3>2 DEF Mailed
    <3> QED BY <3>1, <3>2
  <2>2. ASSUME NEW c \in Codes
        PROVE  (mail[c] \in Seq(Values(c)) /\ \A j \in 1 .. Len(mail[c]) : mail[c][j] = Value(c, j))'
    <3>1. Values(c)' = Values(c) /\ \A j : Value(c, j)' = Value(c, j)
      BY <1>1, SameOrders
    <3> QED BY <2>1, <3>1
  <2> QED BY <2>2 DEF Mailed
<1>12. Heralded'
  BY <1>1, SharedKept
<1>13. Shapes'
  BY <1>1, <1>5, <1>9 DEF Shapes, MPIShapes
<1>14. Alone(r)
  BY <1>1, <1>2, <1>5, <1>9 DEF Alone, user, a
<1>15. Place(r, k)'
  <2>1. \A c \in world.codes[r], j \in 1 .. k - 1 : Right(r, c, j) => Right(r, c, j)'
    BY <1>1, RightKept
  <2> QED BY <1>1, <1>3, <2>1, PlaceStays
<1>16. Heard(r, k - 1)'
  BY <1>1, <1>2, HeardKept DEF Asking
<1>17. Told(r, k)'
  <2>1. \A c : Root(c)' = Root(c) /\ world.codes[r]' = world.codes[r]
    BY <1>1, SameWorld
  <2>2. \A c \in world.codes[r] : Root(c) = r /\ Root(Other[c]) # r => Len(mail'[c]) = k
    BY <1>3, <1>10
  <2> QED BY <2>1, <2>2 DEF Told
<1>18. todo'[r] = Block(r, Asker(r, k), First(r, k), k)'
  BY <1>1, <1>2, <1>3, ListsKept DEF Asking
<1>19. (entered[r] => Root(Asker(r, k)) = r /\ Root(Other[Asker(r, k)]) # r)'
  <2>1. \A c : Root(c)' = Root(c)
    BY <1>1, SameWorld
  <2>2. Asker(r, k)' = a
    BY <1>1, UserKept DEF a
  <2>3. Root(Asker(r, k))' = Root(a) /\ Root(Other[Asker(r, k)])' = Root(Other[a])
    BY <2>1, <2>2
  <2> QED BY <1>2, <2>3 DEF a
<1>20. Asking(r, k)'
  BY <1>5, <1>15, <1>16, <1>17, <1>18, <1>19 DEF Asking
<1> QED BY <1>11, <1>12, <1>13, <1>14, <1>20, OthersStay DEF Stage

\* ... and its answer, ...
LEMMA StepLeaveSendrecv ==
  ASSUME SetupAssumption, IInv, NEW r \in Ranks, LeaveSendrecv(r)
  PROVE  IInv'
<1>1. /\ Shapes /\ MPIShapes /\ Stage(r) /\ UNCHANGED user /\ Mailed /\ Heralded
      /\ world \in Worlds /\ world' = world /\ UserShapes' /\ entered[r] /\ Finish(r)
      /\ UNCHANGED <<user, objects, log, mail, arrived, shared>>
  BY UserKept DEF IInv, Shapes, LeaveSendrecv, mpi
<1>2. PICK k \in 1 .. 3 : Asking(r, k) /\ Root(Asker(r, k)) = r /\ Root(Other[Asker(r, k)]) # r
  BY <1>1, StageOf DEF LeaveSendrecv
<1> DEFINE a == Asker(r, k)  v == First(r, k)  w == What(k)
<1>3. /\ Joined(r) /\ Place(r, k) /\ a \in Codes /\ a \in world.codes[r] /\ v \in Codes
      /\ world.codes[r] \subseteq Codes /\ Other[a] \in Codes
      /\ \A c \in world.codes[r] : Root(c) = r => a = c \/ Root(Other[c]) = r
  BY <1>1, <1>2, AskerOwn, CodeFacts DEF Asking, Place
<1>4. Ahead(r, Ask(a, w), Firsts(r, v, k))
  BY <1>1, <1>2, <1>3, ExchangeAhead
<1>5. /\ todo'[r] = Firsts(r, v, k) /\ entered'[r] = FALSE
      /\ DOMAIN todo' = Ranks /\ entered' \in [Ranks -> BOOLEAN]
      /\ \A s \in Ranks : s # r => todo'[s] = todo[s] /\ entered'[s] = entered[s]
  BY <1>1, <1>4, Finished
<1>6. Told(r, k)
  BY <1>1, <1>2 DEF Asking
<1>7. Len(mail[a]) = k
  BY <1>2, <1>3, <1>6 DEF Told
<1> HIDE DEF a, v, w
<1>8. Len(mail[Other[a]]) >= k /\ got' = [got EXCEPT ![r][a][w] = mail[Other[a]][k]]
  <2>1. Head(todo[r]).code = a /\ Head(todo[r]).what = w
    BY <1>4, Kinds DEF Ahead
  <2> QED BY <1>7, <2>1 DEF LeaveSendrecv
<1>9. mail[Other[a]][k] = Value(Other[a], k)
  <2>1. mail[Other[a]] \in Seq(Values(Other[a]))
        /\ \A j \in 1 .. Len(mail[Other[a]]) : mail[Other[a]][j] = Value(Other[a], j)
    BY <1>1, <1>3 DEF Mailed
  <2>2. Len(mail[Other[a]]) \in Nat
    BY <2>1, LenProperties
  <2> QED BY <1>8, <2>1, <2>2
<1>19. PICK b \in Codes : b = a
  BY <1>3
<1>10. /\ DOMAIN got' = Ranks /\ \A s \in Ranks : s # r => got'[s] = got[s]
       /\ \A s \in Ranks : DOMAIN got'[s] = Codes
       /\ \A s \in Ranks : \A d \in Codes : DOMAIN got'[s][d] = {"type", "fields", "sends"}
       /\ \A d \in Codes, j \in 1 .. 3 : ~(d = b /\ j = k) => (Right(r, d, j) => Right(r, d, j)')
       /\ Right(r, b, k)'
  <2>1. got' = [got EXCEPT ![r][a][What(k)] = mail[Other[a]][k]]
    BY <1>8 DEF w
  <2>2. PICK x : x = mail[Other[a]][k]
    OBVIOUS
  <2>3. got' = [got EXCEPT ![r][b][What(k)] = x] /\ x = Value(Other[b], k)
    BY <1>9, <1>19, <2>1, <2>2
  <2> QED BY <1>1, <2>3, OneLearned
<1>11. Place(r, k)'
  <2>1. \A c \in world.codes[r], j \in 1 .. k - 1 : Right(r, c, j) => Right(r, c, j)'
    BY <1>3, <1>10
  <2> QED BY <1>1, <1>3, <2>1, PlaceStays
<1>12. Asked(r, k)' /\ Told(r, k)'
  <2>1. \A c : Root(c)' = Root(c) /\ world.codes[r]' = world.codes[r]
    BY <1>1, SameWorld
  <2>2. \A c \in world.codes[r] : Root(c) = r => c = a
    <3>1. SUFFICES ASSUME NEW c \in world.codes[r], Root(c) = r, c # a PROVE FALSE
      OBVIOUS
    <3>2. Root(Other[c]) = r /\ Other[c] = a /\ c = Other[a]
      BY <1>3, <3>1, TwoCodes
    <3> QED BY <1>2, <3>1, <3>2 DEF a
  <2>3. Asked(r, k)'
    <3>1. \A c \in world.codes[r] : Root(c) = r => Right(r, c, k)'
      BY <1>10, <1>19, <2>2
    <3> QED BY <2>1, <3>1 DEF Asked
  <2>4. Told(r, k)'
    BY <1>1, <1>6, ToldKept
  <2> QED BY <2>3, <2>4
<1>13. \A c \in world.codes[r] : arrived'[r][c] = k - 1
  BY <1>1, <1>2 DEF Asking, Heard
<1>14. todo'[r] = Firsts(r, First(r, k), k)'
  BY <1>1, <1>3, <1>5, ListsKept DEF v
<1>15. HearFirst(r, k)'
  BY <1>1, <1>5, <1>11, <1>12, <1>13, <1>14 DEF HearFirst
<1>16. Mailed' /\ Heralded'
  BY <1>1, MailKept, SharedKept
<1>17. Shapes'
  BY <1>1, <1>5, <1>10 DEF Shapes, MPIShapes
<1>18. Alone(r)
  BY <1>1, <1>5, <1>10, AloneMPI
<1> QED BY <1>15, <1>16, <1>17, <1>18, OthersStay DEF Stage

\* A rank enters a broadcast of code c; its root has what the other code has sent.
LEMMA OneHeralded ==
  ASSUME SetupAssumption, Shapes, Heralded, world' = world, NEW r \in Ranks, NEW k \in 1 .. 3,
         NEW c \in world.codes[r], Asked(r, k), arrived[r][c] = k - 1,
         arrived' = [arrived EXCEPT ![r][c] = @ + 1],
         shared' = IF r = Root(c) THEN [shared EXCEPT ![c] = Append(@, got[r][c][What(k)])]
                                  ELSE shared
  PROVE  /\ Heralded' /\ DOMAIN shared' = Codes
         /\ arrived' \in [Ranks -> [Codes -> Nat]] /\ arrived'[r][c] = k
         /\ \A d \in Codes : d # c => arrived'[r][d] = arrived[r][d]
         /\ \A s \in Ranks : s # r => arrived'[s] = arrived[s]
<1>1. /\ arrived \in [Ranks -> [Codes -> Nat]] /\ DOMAIN shared = Codes /\ world \in Worlds
      /\ c \in Codes
  BY CodeFacts DEF Shapes, UserShapes, MPIShapes
<1>2. /\ arrived' \in [Ranks -> [Codes -> Nat]] /\ arrived'[r][c] = k
      /\ \A d \in Codes : d # c => arrived'[r][d] = arrived[r][d]
      /\ \A s \in Ranks : s # r => arrived'[s] = arrived[s]
  <2>1. arrived' = [arrived EXCEPT ![r] = [arrived[r] EXCEPT ![c] = arrived[r][c] + 1]]
    BY <1>1
  <2>2. /\ arrived'[r] = [arrived[r] EXCEPT ![c] = k]
        /\ \A s \in Ranks : s # r => arrived'[s] = arrived[s]
        /\ DOMAIN arrived' = Ranks
    BY <1>1, <2>1
  <2>3. arrived'[r] \in [Codes -> Nat] /\ arrived'[r][c] = k
        /\ \A d \in Codes : d # c => arrived'[r][d] = arrived[r][d]
    BY <1>1, <2>2
  <2>4. arrived' \in [Ranks -> [Codes -> Nat]]
    BY <1>1, <2>1, <2>3
  <2> QED BY <2>2, <2>3, <2>4
<1>3. /\ \A d : Values(d)' = Values(d) /\ Root(d)' = Root(d)
      /\ \A d, j : Value(d, j)' = Value(d, j)
  BY SameOrders, SameWorld
<1>4. /\ DOMAIN shared' = Codes
      /\ \A d \in Codes : d # c \/ r # Root(c) => shared'[d] = shared[d]
      /\ r = Root(c) => shared'[c] = Append(shared[c], got[r][c][What(k)])
  BY <1>1
<1>5. ASSUME NEW d \in Codes
      PROVE  /\ shared'[d] \in Seq(Values(Other[d])) /\ Len(shared'[d]) = arrived'[Root(d)][d]
             /\ \A j \in 1 .. Len(shared'[d]) : shared'[d][j] = Value(Other[d], j)
  <2>1. /\ shared[d] \in Seq(Values(Other[d])) /\ Len(shared[d]) = arrived[Root(d)][d]
        /\ \A j \in 1 .. Len(shared[d]) : shared[d][j] = Value(Other[d], j)
    BY DEF Heralded
  <2>2. Root(d) \in Ranks
    BY <1>1, CodeFacts
  <2>3. CASE d # c \/ r # Root(c)
    <3>1. arrived'[Root(d)][d] = arrived[Root(d)][d]
      BY <1>2, <2>2, <2>3
    <3> QED BY <1>4, <2>1, <2>3, <3>1
  <2>4. CASE d = c /\ r = Root(c)
    <3> DEFINE m == shared[c]  x == Value(Other[c], k)
    <3>1. got[r][c][What(k)] = x
      BY <2>4 DEF Asked, Right
    <3>2. m \in Seq(Values(Other[c])) /\ Len(m) = k - 1
          /\ \A j \in 1 .. k - 1 : m[j] = Value(Other[c], j)
      BY <2>1, <2>4
    <3>3. x \in Values(Other[c])
      BY DEF Values
    <3> HIDE DEF m, x
    <3>4. /\ Append(m, x) \in Seq(Values(Other[c])) /\ Len(Append(m, x)) = k
          /\ \A j \in 1 .. k : Append(m, x)[j] = IF j = k THEN x ELSE m[j]
      <4>1. /\ Append(m, x) \in Seq(Values(Other[c])) /\ Len(Append(m, x)) = Len(m) + 1
            /\ \A j \in 1 .. Len(m) : Append(m, x)[j] = m[j]
            /\ Append(m, x)[Len(m) + 1] = x
        BY <3>2, <3>3, AppendProperties
      <4> QED BY <3>2, <4>1
    <3>5. \A j \in 1 .. k : Append(m, x)[j] = Value(Other[c], j)
      BY <3>2, <3>4 DEF x
    <3>6. shared'[d] = Append(m, x) /\ arrived'[Root(d)][d] = k
      BY <1>2, <1>4, <2>4, <3>1 DEF m
    <3> QED BY <2>4, <3>4, <3>5, <3>6
  <2> QED BY <2>3, <2>4
<1>6. ASSUME NEW d \in Codes
      PROVE  (/\ shared[d] \in Seq(Values(Other[d])) /\ Len(shared[d]) = arrived[Root(d)][d]
              /\ \A j \in 1 .. Len(shared[d]) : shared[d][j] = Value(Other[d], j))'
  <2>1. /\ Values(Other[d])' = Values(Other[d]) /\ Root(d)' = Root(d)
        /\ \A j : Value(Other[d], j)' = Value(Other[d], j)
    BY <1>3
  <2> QED BY <1>5, <2>1
<1>7. Heralded'
  BY <1>6 DEF Heralded
<1> QED BY <1>2, <1>4, <1>7

\* ... the broadcast of what the root has learned, ...
LEMMA StepEnterBcast ==
  ASSUME SetupAssumption, IInv, NEW r \in Ranks, EnterBcast(r)
  PROVE  IInv'
<1>1. /\ Shapes /\ MPIShapes /\ Stage(r) /\ UNCHANGED user /\ Mailed /\ Heralded
      /\ world \in Worlds /\ world' = world /\ UserShapes' /\ ~entered[r] /\ Enter(r)
      /\ UNCHANGED <<user, got, objects, todo, log, mail>>
  BY UserKept DEF IInv, Shapes, EnterBcast
<1>2. PICK k \in 1 .. 3 : HearFirst(r, k) \/ HearSecond(r, k)
  BY <1>1, StageOf DEF EnterBcast
<1>3. /\ Joined(r) /\ Place(r, k) /\ Asked(r, k) /\ Told(r, k)
      /\ First(r, k) \in world.codes[r] /\ world.codes[r] \subseteq Codes
  <2>1. Joined(r) /\ Place(r, k) /\ Asked(r, k) /\ Told(r, k)
    BY <1>2 DEF HearFirst, HearSecond, Place
  <2> QED BY <1>1, <2>1, AskerOwn, CodeFacts
<1>4. PICK v \in world.codes[r] : v = First(r, k)
  BY <1>3
<1>5. entered'[r] = TRUE /\ entered' \in [Ranks -> BOOLEAN]
      /\ \A s \in Ranks : s # r => entered'[s] = entered[s]
  BY <1>1, Entered
<1>6. /\ Place(r, k)' /\ Asked(r, k)' /\ Told(r, k)' /\ First(r, k)' = v
      /\ Right(r, v, k)' = Right(r, v, k) /\ Joint(r)' = Joint(r)
      /\ Firsts(r, First(r, k), k)' = Firsts(r, v, k)
      /\ Seconds(r, First(r, k), k)' = Seconds(r, v, k)
  <2>1. \A c \in world.codes[r], j \in 1 .. k - 1 : Right(r, c, j) => Right(r, c, j)'
    BY <1>1, RightKept
  <2>2. Place(r, k)'
    BY <1>1, <1>3, <2>1, PlaceStays
  <2>3. Asked(r, k)' /\ Right(r, v, k)' = Right(r, v, k)
    BY <1>1, <1>3, RightKept
  <2>4. Told(r, k)' /\ Joint(r)' = Joint(r)
    BY <1>1, <1>3, ToldKept, SameWorld
  <2>5. First(r, k)' = v
    BY <1>1, <1>4, UserKept
  <2> QED BY <1>1, <1>3, <1>4, <2>2, <2>3, <2>4, <2>5, ListsKept
<1>7. ASSUME NEW c \in world.codes[r], Head(todo[r]) = Bcast(c, What(k)), arrived[r][c] = k - 1,
             ASSUME arrived'[r][c] = k, \A d \in Codes : d # c => arrived'[r][d] = arrived[r][d]
             PROVE  Stage(r)'
      PROVE  IInv'
  <2>1. Head(todo[r]).code = c /\ Head(todo[r]).what = What(k)
    BY <1>7, Kinds
  <2>2. /\ arrived' = [arrived EXCEPT ![r][c] = @ + 1]
        /\ shared' = IF r = Root(c) THEN [shared EXCEPT ![c] = Append(@, got[r][c][What(k)])]
                                    ELSE shared
    BY <2>1 DEF EnterBcast
  <2>3. /\ Heralded' /\ DOMAIN shared' = Codes
        /\ arrived' \in [Ranks -> [Codes -> Nat]] /\ arrived'[r][c] = k
        /\ \A d \in Codes : d # c => arrived'[r][d] = arrived[r][d]
        /\ \A s \in Ranks : s # r => arrived'[s] = arrived[s]
    BY <1>1, <1>3, <1>7, <2>2, OneHeralded
  <2>4. Stage(r)'
    BY <1>7, <2>3
  <2>5. Mailed'
    BY <1>1, MailKept
  <2>6. Shapes'
    BY <1>1, <1>5, <2>3 DEF Shapes, MPIShapes
  <2>7. Alone(r)
    BY <1>1, <1>5, <2>3, AloneMPI
  <2> QED BY <2>3, <2>4, <2>5, <2>6, <2>7, OthersStay
<1>8. CASE HearFirst(r, k)
  <2>1. Head(todo[r]) = Bcast(v, What(k))
    BY <1>1, <1>3, <1>4, <1>8, ExchangeAhead DEF Ahead
  <2>2. \A c \in world.codes[r] : arrived[r][c] = k - 1
    BY <1>1, <1>8 DEF HearFirst
  <2>3. ASSUME arrived'[r][v] = k, \A d \in Codes : d # v => arrived'[r][d] = arrived[r][d]
        PROVE  Stage(r)'
    <3>1. \A c \in world.codes[r] : arrived'[r][c] = IF c = v THEN k ELSE k - 1
      BY <1>3, <2>2, <2>3
    <3>2. \A c \in world.codes[r]' :
            arrived'[r][c] = IF c = First(r, k)' /\ entered'[r] THEN k ELSE k - 1
      BY <1>1, <1>5, <1>6, <3>1
    <3>3. todo'[r] = Firsts(r, First(r, k), k)'
      BY <1>1, <1>4, <1>6, <1>8 DEF HearFirst
    <3>4. HearFirst(r, k)'
      BY <1>6, <3>2, <3>3 DEF HearFirst
    <3> QED BY <3>4 DEF Stage
  <2> QED BY <1>7, <2>1, <2>2, <2>3
<1>9. CASE HearSecond(r, k)
  <2> DEFINE u == Other[v]
  <2>1. Head(todo[r]) = Bcast(u, What(k))
    BY <1>1, <1>3, <1>4, <1>9, ExchangeAhead DEF Ahead
  <2>2. u \in world.codes[r] /\ u # v /\ \A c \in Codes : c = u \/ c = v
    BY <1>3, <1>9, TwoCodes DEF HearSecond, Joint
  <2>3. arrived[r][u] = k - 1 /\ arrived[r][v] = k
    BY <1>1, <1>4, <1>9, <2>2 DEF HearSecond
  <2>4. ASSUME arrived'[r][u] = k, \A d \in Codes : d # u => arrived'[r][d] = arrived[r][d]
        PROVE  Stage(r)'
    <3>1. \A c \in world.codes[r] : arrived'[r][c] = k
      BY <1>3, <2>2, <2>3, <2>4
    <3>2. \A c \in world.codes[r]' :
            arrived'[r][c] = IF c = First(r, k)' \/ entered'[r] THEN k ELSE k - 1
      BY <1>1, <1>5, <1>6, <3>1
    <3>3. todo'[r] = Seconds(r, First(r, k), k)'
      BY <1>1, <1>4, <1>6, <1>9 DEF HearSecond
    <3>4. Right(r, First(r, k), k)' /\ Joint(r)'
      <4>1. Right(r, v, k) /\ Joint(r)
        BY <1>4, <1>9 DEF HearSecond
      <4>2. Right(r, v, k)' /\ v = First(r, k)' /\ Joint(r)'
        BY <1>6, <4>1
      <4> QED BY <4>2
    <3>5. HearSecond(r, k)'
      BY <1>6, <3>2, <3>3, <3>4 DEF HearSecond
    <3> QED BY <3>5 DEF Stage
  <2> HIDE DEF u
  <2> QED BY <1>7, <2>1, <2>2, <2>3, <2>4
<1> QED BY <1>2, <1>8, <1>9

\* ... and what the ranks of the code hear, ...
LEMMA StepLeaveBcast ==
  ASSUME SetupAssumption, IInv, NEW r \in Ranks, LeaveBcast(r)
  PROVE  IInv'
<1>1. /\ Shapes /\ MPIShapes /\ Stage(r) /\ UNCHANGED user /\ Mailed /\ Heralded
      /\ world \in Worlds /\ world' = world /\ UserShapes' /\ entered[r] /\ Finish(r)
      /\ UNCHANGED <<user, objects, log, mail, arrived, shared>>
  BY UserKept DEF IInv, Shapes, LeaveBcast, mpi
<1>2. PICK k \in 1 .. 3 : HearFirst(r, k) \/ HearSecond(r, k)
  BY <1>1, StageOf DEF LeaveBcast
<1>3. /\ Joined(r) /\ Place(r, k) /\ Asked(r, k) /\ Told(r, k) /\ Learned(r, k - 1)
      /\ First(r, k) \in world.codes[r] /\ world.codes[r] \subseteq Codes
  <2>1. Joined(r) /\ Place(r, k) /\ Asked(r, k) /\ Told(r, k) /\ Learned(r, k - 1)
    BY <1>2 DEF HearFirst, HearSecond, Place
  <2> QED BY <1>1, <2>1, AskerOwn, CodeFacts
<1>4. PICK v \in world.codes[r] : v = First(r, k)
  BY <1>3
<1>5. /\ First(r, k)' = v /\ Joint(r)' = Joint(r) /\ Told(r, k)' /\ After(r, k)' = After(r, k)
      /\ Seconds(r, First(r, k), k)' = Seconds(r, v, k)
      /\ world.codes[r]' = world.codes[r] /\ \A c : Root(c)' = Root(c)
  BY <1>1, <1>3, <1>4, UserKept, ToldKept, SameWorld, ListsKept
<1>6. ASSUME NEW c \in world.codes[r], NEW rest, Ahead(r, Bcast(c, What(k)), rest),
             arrived[r][c] = k,
             ASSUME todo'[r] = rest, ~entered'[r], Right(r, c, k)', Place(r, k)', Asked(r, k)',
                    Learned(r, k - 1)',
                    \A d \in Codes : d # c => (Right(r, d, k) => Right(r, d, k)')
             PROVE  Stage(r)'
      PROVE  IInv'
  <2>1. Head(todo[r]).code = c /\ Head(todo[r]).what = What(k) /\ c \in Codes
    BY <1>3, <1>6, Kinds DEF Ahead
  <2>2. /\ todo'[r] = rest /\ entered'[r] = FALSE
        /\ DOMAIN todo' = Ranks /\ entered' \in [Ranks -> BOOLEAN]
        /\ \A s \in Ranks : s # r => todo'[s] = todo[s] /\ entered'[s] = entered[s]
    BY <1>1, <1>6, Finished
  <2>3. /\ \A s \in RanksOf(c) : s = Root(c) => arrived[s][c] >= k
        /\ got' = [got EXCEPT ![r][c][What(k)] = shared[c][k]]
    BY <1>6, <2>1 DEF LeaveBcast
  <2>4. shared[c][k] = Value(Other[c], k)
    <3>1. arrived[Root(c)][c] >= k
      BY <1>1, <2>1, <2>3, CodeFacts
    <3>2. Len(shared[c]) = arrived[Root(c)][c] /\ shared[c] \in Seq(Values(Other[c]))
          /\ \A j \in 1 .. Len(shared[c]) : shared[c][j] = Value(Other[c], j)
      BY <1>1, <2>1 DEF Heralded
    <3>3. Len(shared[c]) \in Nat
      BY <3>2, LenProperties
    <3>4. k \in 1 .. Len(shared[c])
      <4>1. Len(shared[c]) >= k
        BY <3>1, <3>2
      <4> HIDE <3>1, <3>2
      <4> QED BY <3>3, <4>1
    <3> QED BY <3>2, <3>4
  <2>5. PICK x : x = shared[c][k]
    OBVIOUS
  <2>6. /\ DOMAIN got' = Ranks /\ \A s \in Ranks : s # r => got'[s] = got[s]
        /\ \A s \in Ranks : DOMAIN got'[s] = Codes
        /\ \A s \in Ranks : \A d \in Codes : DOMAIN got'[s][d] = {"type", "fields", "sends"}
        /\ \A d \in Codes, j \in 1 .. 3 : ~(d = c /\ j = k) => (Right(r, d, j) => Right(r, d, j)')
        /\ Right(r, c, k)'
    <3>1. got' = [got EXCEPT ![r][c][What(k)] = x] /\ x = Value(Other[c], k)
      BY <2>3, <2>4, <2>5
    <3> QED BY ZenonT(60), <1>1, <2>1, <3>1, OneLearned
  <2>7. Place(r, k)' /\ Learned(r, k - 1)'
    <3>1. \A d \in world.codes[r], j \in 1 .. k - 1 : Right(r, d, j) => Right(r, d, j)'
      BY <1>3, <2>6
    <3> QED BY <1>1, <1>3, <3>1, PlaceStays
  <2>8. Asked(r, k)'
    <3>1. \A d \in world.codes[r] : Root(d) = r => Right(r, d, k)'
      <4>1. SUFFICES ASSUME NEW d \in world.codes[r], Root(d) = r PROVE Right(r, d, k)'
        OBVIOUS
      <4>2. Right(r, d, k) /\ d \in Codes
        BY <1>3, <4>1 DEF Asked
      <4> QED BY <2>6, <4>2
    <3> QED BY <1>5, <3>1 DEF Asked
  <2>9. Stage(r)'
    <3>1. \A d \in Codes : d # c => (Right(r, d, k) => Right(r, d, k)')
      BY <2>6
    <3> QED BY <1>6, <2>2, <2>6, <2>7, <2>8, <3>1
  <2>10. Mailed' /\ Heralded'
    BY <1>1, MailKept, SharedKept
  <2>11. Shapes'
    BY <1>1, <2>2, <2>6 DEF Shapes, MPIShapes
  <2>12. Alone(r)
    BY <1>1, <2>2, <2>6, AloneMPI
  <2> QED BY <2>9, <2>10, <2>11, <2>12, OthersStay
<1>7. ASSUME \A c \in world.codes[r] : arrived[r][c] = k /\ Right(r, c, k)',
             Learned(r, k - 1)', Place(r, k)', ~entered'[r], todo'[r] = After(r, k)
      PROVE  Stage(r)'
  <2>1. Heard(r, k)'
    BY <1>1, <1>5, <1>7 DEF Heard
  <2>2. Learned(r, k)'
    <3>1. \A j \in 1 .. k : j \in 1 .. k - 1 \/ j = k
      OBVIOUS
    <3> QED BY <1>5, <1>7, <3>1 DEF Learned
  <2> QED BY <1>1, <1>5, <1>7, <2>1, <2>2, ExchangeDone
<1>8. CASE HearFirst(r, k)
  <2>1. Ahead(r, Bcast(v, What(k)), Seconds(r, v, k))
        /\ (~Joint(r) => Seconds(r, v, k) = After(r, k))
    BY <1>1, <1>3, <1>4, <1>8, ExchangeAhead
  <2>2. \A c \in world.codes[r] : arrived[r][c] = IF c = v THEN k ELSE k - 1
    BY <1>1, <1>4, <1>8 DEF HearFirst
  <2>3. ASSUME todo'[r] = Seconds(r, v, k), ~entered'[r], Right(r, v, k)', Place(r, k)',
               Asked(r, k)', Learned(r, k - 1)'
        PROVE  Stage(r)'
    <3>1. CASE Joint(r)
      <4>1. \A c \in world.codes[r]' :
              arrived'[r][c] = IF c = First(r, k)' \/ entered'[r] THEN k ELSE k - 1
        BY <1>1, <1>5, <2>2, <2>3
      <4>2. todo'[r] = Seconds(r, First(r, k), k)'
        BY <1>5, <2>3
      <4>3. Right(r, First(r, k), k)'
        BY <1>5, <2>3
      <4>4. HearSecond(r, k)'
        BY <1>5, <2>3, <3>1, <4>1, <4>2, <4>3 DEF HearSecond
      <4> QED BY <4>4 DEF Stage
    <3>2. CASE ~Joint(r)
      <4>1. \A c \in world.codes[r] : c = v
        BY <1>1, <3>2, CodeFacts
      <4>2. \A c \in world.codes[r] : arrived[r][c] = k /\ Right(r, c, k)'
        BY <2>2, <2>3, <4>1
      <4> QED BY <1>7, <2>1, <2>3, <3>2, <4>2
    <3> QED BY <3>1, <3>2
  <2> DEFINE rest == Seconds(r, v, k)
  <2>4. arrived[r][v] = k
    BY <2>2
  <2> QED BY <1>6, <2>1, <2>3, <2>4
<1>9. CASE HearSecond(r, k)
  <2> DEFINE u == Other[v]
  <2>1. Ahead(r, Bcast(u, What(k)), After(r, k))
    BY <1>1, <1>3, <1>4, <1>9, ExchangeAhead
  <2>2. u \in world.codes[r] /\ u # v /\ \A c \in Codes : c = u \/ c = v
    BY <1>3, <1>9, TwoCodes DEF HearSecond, Joint
  <2>3. \A c \in world.codes[r] : arrived[r][c] = k
    BY <1>1, <1>9 DEF HearSecond
  <2>4. Right(r, v, k)
    BY <1>4, <1>9 DEF HearSecond
  <2>5. ASSUME todo'[r] = After(r, k), ~entered'[r], Right(r, u, k)', Place(r, k)',
               Learned(r, k - 1)', \A d \in Codes : d # u => (Right(r, d, k) => Right(r, d, k)')
        PROVE  Stage(r)'
    <3>1. Right(r, v, k)'
      BY <1>3, <2>2, <2>4, <2>5
    <3>2. \A c \in world.codes[r] : Right(r, c, k)'
      BY <1>3, <2>2, <2>5, <3>1
    <3> QED BY <1>7, <2>3, <2>5, <3>2
  <2> HIDE DEF u
  <2> QED BY <1>6, <2>1, <2>2, <2>3, <2>5
<1> QED BY <1>2, <1>8, <1>9

\* ... the creation of the coupling by a code, ...
LEMMA StepCreate ==
  ASSUME SetupAssumption, IInv, NEW r \in Ranks, NEW c \in Codes, CWP_Cpl_create(r, c)
  PROVE  IInv'
<1>1. /\ Shapes /\ UserShapes /\ MPIShapes /\ Stage(r) /\ Mailed /\ Heralded
      /\ world \in Worlds /\ world' = world /\ step' = step /\ called' = called
      /\ objects' = objects /\ entered' = entered /\ log' = log
      /\ UNCHANGED <<world, step, called, objects, entered, log, mail, arrived, shared>>
      /\ c \in world.codes[r] /\ c \notin made[r] /\ Idle(r) /\ world.codes[r] \subseteq Codes
  BY CodeFacts DEF IInv, Shapes, UserShapes, CWP_Cpl_create, mpi
<1>2. Fresh(r)
  <2>1. Fresh(r) \/ Waiting(r) \/ Resting(r) \/ Weighing(r, Weighed + 1)
    BY <1>1, StageOf
  <2>2. made[r] # world.codes[r]
    BY <1>1
  <2> QED BY <2>1, <2>2 DEF Waiting, Resting, Weighing, Later, Joined
<1>3. /\ made' = [made EXCEPT ![r] = @ \cup {c}] /\ made \in [Ranks -> SUBSET Codes]
      /\ made'[r] = made[r] \cup {c} /\ \A s \in Ranks : s # r => made'[s] = made[s]
  BY <1>1 DEF CWP_Cpl_create, UserShapes
<1>4. Mailed' /\ Heralded'
  BY <1>1, MailKept, SharedKept
<1>5. /\ step'[r] = 0 /\ called'[r] = {} /\ ~entered'[r]
      /\ Empty(r)' /\ Heard(r, 0)' /\ Told(r, 0)' /\ Logged(r, 0)'
  <2>1. Heard(r, 0)' /\ Told(r, 0)'
    BY <1>1, <1>2, HeardKept, ToldKept DEF Fresh
  <2>2. Logged(r, 0)'
    <3>1. Logged(r, 0) /\ 0 \in Nat /\ log'[r] = log[r]
      BY <1>1, <1>2 DEF Fresh
    <3> QED BY <1>1, <3>1, LogStays
  <2>3. Empty(r)'
    BY <1>1, <1>2 DEF Fresh, Empty
  <2> QED BY <1>1, <1>2, <2>1, <2>2, <2>3 DEF Fresh
<1>6. made' \in [Ranks -> SUBSET Codes]
      /\ \A s \in Ranks : made'[s] \subseteq world.codes[s]
  BY <1>1, <1>3 DEF UserShapes
<1>7. ASSUME side' \in [Ranks -> Codes \cup {NoValue}] PROVE UserShapes'
  BY <1>1, <1>6, <1>7 DEF UserShapes
<1>8. CASE Joint(r) /\ Other[c] \notin made[r]
  <2>1. side' = side /\ got' = got /\ todo' = todo
    BY <1>8 DEF CWP_Cpl_create
  <2>2. UserShapes'
    BY <1>1, <1>7, <2>1 DEF UserShapes
  <2>3. Shapes'
    BY <1>1, <2>1, <2>2 DEF Shapes, MPIShapes
  <2>4. Alone(r)
    BY <1>1, <1>3, <2>1 DEF Alone
  <2>5. made'[r] # world.codes[r]'
    <3>1. Other[c] \in world.codes[r] /\ Other[c] # c
      BY <1>1, <1>8, TwoCodes DEF Joint
    <3> QED BY <1>1, <1>3, <1>8, <3>1
  <2>6. Fresh(r)'
    BY <1>1, <1>2, <1>5, <2>1, <2>5 DEF Fresh, Idle
  <2> QED BY <1>4, <2>3, <2>4, <2>6, OthersStay DEF Stage
<1>9. CASE ~(Joint(r) /\ Other[c] \notin made[r])
  <2>1. PICK v : v = Side(r, c)
    OBVIOUS
  <2>2. /\ side' = [side EXCEPT ![r] = v] /\ todo' = [todo EXCEPT ![r] = CreateCalls(r, v)]
        /\ got' = [got EXCEPT ![r][Other[v]][What(1)] = world.part[v]]
    BY <1>9, <2>1 DEF CWP_Cpl_create, What
  <2>3. /\ v \in world.codes[r] /\ v \in Codes /\ Other[v] \in Codes
        /\ \A d \in world.codes[r] : Root(d) = r => v = d \/ Root(Other[d]) = r
    <3>1. v = IF Joint(r) /\ Root(Other[c]) = r /\ Root(c) # r THEN Other[c] ELSE c
      BY <2>1 DEF Side
    <3>2. v \in world.codes[r] /\ v \in Codes
      BY <1>1, <3>1, TwoCodes DEF Joint
    <3>3. ASSUME NEW d \in world.codes[r], Root(d) = r PROVE v = d \/ Root(Other[d]) = r
      <4>1. d = c \/ (d = Other[c] /\ c = Other[d])
        BY <1>1, TwoCodes
      <4>2. CASE d = c
        BY <3>1, <3>3, <4>2
      <4>3. CASE d # c
        <5>1. d = Other[c] /\ c = Other[d] /\ Joint(r)
          <6>1. d \in Codes /\ c \in Codes /\ world.codes[r] \subseteq Codes
            BY <1>1
          <6>2. world.codes[r] = Codes
            BY <1>1, <4>3, <6>1 DEF Codes
          <6> QED BY <4>1, <4>3, <6>2 DEF Joint
        <5> QED BY <3>1, <3>3, <5>1
      <4> QED BY <4>2, <4>3
    <3>4. Other[v] \in Codes
      BY <3>2, TwoCodes
    <3> QED BY <3>2, <3>3, <3>4
  <2>4. /\ side'[r] = v /\ side' \in [Ranks -> Codes \cup {NoValue}]
        /\ \A s \in Ranks : s # r => side'[s] = side[s]
    BY <1>1, <2>2, <2>3 DEF UserShapes
  <2>5. /\ todo'[r] = CreateCalls(r, v) /\ DOMAIN todo' = Ranks
        /\ \A s \in Ranks : s # r => todo'[s] = todo[s]
    BY <1>1, <2>2 DEF MPIShapes
  <2>6. /\ DOMAIN got' = Ranks /\ \A s \in Ranks : s # r => got'[s] = got[s]
        /\ \A s \in Ranks : DOMAIN got'[s] = Codes
        /\ \A s \in Ranks : \A d \in Codes : DOMAIN got'[s][d] = {"type", "fields", "sends"}
    <3>1. PICK x : x = world.part[v]
      OBVIOUS
    <3>2. PICK d \in Codes : d = Other[v]
      BY <2>3
    <3>3. got' = [got EXCEPT ![r][d][What(1)] = x] /\ 1 \in 1 .. 3
      BY <2>2, <3>1, <3>2
    <3> QED BY <1>1, <3>3, OneLearned
  <2>7. Shapes'
    BY <1>1, <1>7, <2>4, <2>5, <2>6 DEF Shapes, MPIShapes
  <2>8. Alone(r)
    BY <1>1, <1>3, <2>4, <2>5, <2>6 DEF Alone
  <2>9. made'[r] = world.codes[r]
    <3>1. CASE Joint(r)
      <4>1. Other[c] \in made[r] /\ \A d \in Codes : d = c \/ d = Other[c]
        BY <1>9, <3>1, TwoCodes
      <4>2. world.codes[r] = Codes /\ made[r] \subseteq Codes
        BY <1>3, <3>1 DEF Joint
      <4> QED BY <1>3, <4>1, <4>2
    <3>2. CASE ~Joint(r)
      <4>1. world.codes[r] = {Main(r)} /\ made[r] \subseteq world.codes[r]
        BY <1>1, <3>2, CodeFacts DEF UserShapes
      <4> QED BY <1>1, <1>3, <4>1
    <3> QED BY <3>1, <3>2
  <2>10. Joined(r)'
    <3>1. \A d : Root(d)' = Root(d) /\ world.codes[r]' = world.codes[r]
      BY <1>1, SameWorld
    <3> QED BY <1>1, <2>3, <2>4, <2>9, <3>1 DEF Joined
  <2>11. todo'[r] = (<<Local("create_group")>> \o Block(r, side[r], side[r], 1))'
    <3>1. CreateCalls(r, v) = <<Local("create_group")>> \o Block(r, v, v, 1)
      BY <1>1, <2>3, CallLists
    <3>2. 1 \in 1 .. 3
      OBVIOUS
    <3>3. Block(r, v, v, 1)' = Block(r, v, v, 1)
      BY <1>1, <2>3, <3>2, SameLists
    <3>5. v = side[r]'
      BY <2>4
    <3>4. Block(r, side[r], side[r], 1)' = Block(r, v, v, 1)
      BY <3>3, <3>5
    <3> QED BY <2>5, <3>1, <3>4 DEF Local
  <2>12. Logged(r, IF entered[r] THEN 1 ELSE 0)'
    BY <1>5
  <2>13. Grouping(r)'
    BY <1>5, <2>10, <2>11, <2>12 DEF Grouping
  <2> QED BY <1>4, <2>7, <2>8, <2>13, OthersStay DEF Stage
<1> QED BY <1>8, <1>9

\* ... the end of a time step, ...
LEMMA StepTimeStepEnd ==
  ASSUME SetupAssumption, IInv, NEW r \in Ranks, CWP_Time_step_end(r)
  PROVE  IInv'
<1>1. /\ Shapes /\ UserShapes /\ MPIShapes /\ Stage(r) /\ Mailed /\ Heralded
      /\ world \in Worlds /\ world' = world /\ made' = made /\ side' = side /\ got' = got
      /\ objects' = objects /\ entered' = entered /\ log' = log /\ todo' = todo
      /\ UNCHANGED <<mail, arrived, shared>> /\ step[r] \in Nat
      /\ called[r] = world.codes[r] /\ Idle(r) /\ world.codes[r] \subseteq Codes
  BY CodeFacts DEF IInv, Shapes, UserShapes, CWP_Time_step_end, mpi
<1>2. Weighing(r, Weighed + 1) /\ ~entered[r] /\ Main(r) \in world.codes[r]
  <2>1. Fresh(r) \/ Waiting(r) \/ Resting(r) \/ Weighing(r, Weighed + 1)
    BY <1>1, StageOf
  <2>2. Main(r) \in called[r]
    BY <1>1, CodeFacts
  <2> QED BY <1>1, <2>1, <2>2, StageOf, CodeFacts DEF Fresh, Waiting, Resting, Begun
<1>3. /\ step'[r] = step[r] + 1 /\ \A s \in Ranks : s # r => step'[s] = step[s]
      /\ called'[r] = {} /\ \A s \in Ranks : s # r => called'[s] = called[s]
      /\ step' \in [Ranks -> Nat] /\ called' \in [Ranks -> SUBSET Codes]
  BY <1>1 DEF CWP_Time_step_end, UserShapes
<1>4. step[r] < world.steps
  BY <1>1, <1>2 DEF UserShapes
<1>5. UserShapes'
  <2>1. world.steps \in Nat
    BY <1>1 DEF SetupAssumption
  <2>2. \A s \in Ranks : step'[s] <= world.steps /\ (called'[s] # {} => step'[s] < world.steps)
                         /\ called'[s] \subseteq world.codes[s]
    BY <1>1, <1>3, <1>4, <2>1 DEF UserShapes
  <2> QED BY <1>1, <1>3, <2>2 DEF UserShapes
<1>6. Shapes' /\ Mailed' /\ Heralded'
  BY <1>1, <1>5, MailKept, SharedKept DEF Shapes, MPIShapes
<1>7. Alone(r)
  BY <1>1, <1>3 DEF Alone
<1>8. Later(r)'
  <2>1. Joined(r)' = Joined(r) /\ Built(r)' = Built(r)
    BY <1>1, JoinedKept, BuiltKept
  <2>2. Learned(r, 3)' = Learned(r, 3) /\ Heard(r, 3)' = Heard(r, 3) /\ Told(r, 3)' = Told(r, 3)
    BY <1>1, RightKept, HeardKept, ToldKept
  <2> QED BY <1>2, <2>1, <2>2 DEF Later, Weighing
<1>9. Logged(r, Base(step[r]))'
  <2>1. PICK s \in Nat : s = step[r]
    BY <1>1
  <2>2. Base(s) \in Nat /\ Base(s + 1) = Base(s) + Weighed /\ Weighed \in Nat
    BY <1>1, BaseStep, EdgeFacts
  <2>3. Base(step[r]) + (Weighed + 1) - 1 = Base(s + 1)
    BY <2>1, <2>2
  <2>4. Logged(r, Base(s + 1))
    BY <1>2, <2>3 DEF Weighing
  <2>5. PICK n \in Nat : n = Base(s + 1)
    BY <2>2
  <2>6. Logged(r, n)'
    BY <1>1, <2>4, <2>5, LogStays
  <2>7. Base(s + 1)' = Base(s + 1)
    BY <1>1, SameCalls
  <2>8. Base(step[r])' = n
    BY <1>3, <2>1, <2>5, <2>7
  <2> QED BY <2>6, <2>8
<1>10. ~Begun(r)' /\ Idle(r)' /\ step'[r] > 0 /\ ~entered'[r]
  BY <1>1, <1>2, <1>3 DEF Begun, Idle
<1>11. Resting(r)'
  BY <1>8, <1>9, <1>10 DEF Resting
<1> QED BY <1>6, <1>7, <1>11, OthersStay DEF Stage

\* ... the weights, asked for by a code, ...
LEMMA StepCompute ==
  ASSUME SetupAssumption, IInv, NEW r \in Ranks, NEW c \in Codes,
         CWP_Spatial_interp_weights_compute(r, c)
  PROVE  IInv'
<1>1. /\ Shapes /\ UserShapes /\ MPIShapes /\ Stage(r) /\ Mailed /\ Heralded
      /\ world \in Worlds /\ world' = world /\ made' = made /\ side' = side /\ got' = got
      /\ step' = step /\ step[r] \in Nat
      /\ objects' = objects /\ entered' = entered /\ log' = log
      /\ UNCHANGED <<mail, arrived, shared>>
      /\ made[r] = world.codes[r] /\ step[r] < world.steps
      /\ c \in world.codes[r] /\ c \notin called[r] /\ Idle(r)
      /\ world.codes[r] \subseteq Codes /\ Main(r) \in world.codes[r]
  BY CodeFacts DEF IInv, Shapes, UserShapes, CWP_Spatial_interp_weights_compute, mpi
<1>2. /\ called'[r] = called[r] \cup {c} /\ \A s \in Ranks : s # r => called'[s] = called[s]
      /\ called' \in [Ranks -> SUBSET Codes]
  BY <1>1 DEF CWP_Spatial_interp_weights_compute, UserShapes
<1>3. UserShapes'
  <2>1. \A s \in Ranks : (called'[s] # {} => step'[s] < world.steps)
                         /\ called'[s] \subseteq world.codes[s]
    BY <1>1, <1>2 DEF UserShapes
  <2> QED BY <1>1, <1>2, <2>1 DEF UserShapes
<1> DEFINE calls == IF Joint(r) /\ c = "B" THEN <<>>
                    ELSE (IF step[r] > 0 THEN <<>>
                          ELSE ExchangeCalls(r, "fields") \o <<Local("objects")>>
                                 \o ExchangeCalls(r, "sends"))
                         \o <<Local("order")>>
<1>4. todo'[r] = calls /\ DOMAIN todo' = Ranks /\ \A s \in Ranks : s # r => todo'[s] = todo[s]
  BY <1>1 DEF CWP_Spatial_interp_weights_compute, MPIShapes
<1> HIDE DEF calls
<1>5. Shapes' /\ Mailed' /\ Heralded'
  BY <1>1, <1>3, <1>4, MailKept, SharedKept DEF Shapes, MPIShapes
<1>6. Alone(r)
  BY <1>1, <1>2, <1>4 DEF Alone
<1>7. /\ Joined(r)' = Joined(r) /\ Main(r)' = Main(r) /\ Empty(r)' = Empty(r)
      /\ \A k : Learned(r, k)' = Learned(r, k)
      /\ \A n : Heard(r, n)' = Heard(r, n) /\ Told(r, n)' = Told(r, n)
      /\ \A k \in 1 .. 3 : Asker(r, k)' = Asker(r, k) /\ First(r, k)' = First(r, k)
  BY <1>1, JoinedKept, SameWorld, BuiltKept, RightKept, HeardKept, ToldKept
<1>8. Later(r)' = Later(r)
  BY <1>1, <1>7, BuiltKept DEF Later
<1>9. ~entered[r] /\ (Waiting(r) \/ Resting(r) \/ Weighing(r, Weighed + 1))
  <2>1. ~Fresh(r)
    BY <1>1 DEF Fresh
  <2> QED BY <1>1, <2>1, StageOf
<1>10. \A n \in Nat : Logged(r, n) => Logged(r, n)'
  BY <1>1, LogStays
<1>11. /\ \A s \in Nat : Base(s) \in Nat /\ Base(s)' = Base(s)
       /\ Weighed \in Nat /\ Weighed' = Weighed
  BY <1>1, BaseStep, SameCalls, EdgeFacts, SameEdges
<1>12. Logged(r, Base(0)) => Logged(r, Base(0))'
  <2>1. PICK n \in Nat : n = Base(0)
    BY <1>11
  <2>2. (Logged(r, n) => Logged(r, n)') /\ n = Base(0)'
    BY <1>10, <1>11, <2>1
  <2> QED BY <2>1, <2>2
<1>13. Logged(r, Base(step[r])) => Logged(r, Base(step[r]))'
  <2>1. PICK s \in Nat : s = step[r]
    BY <1>1
  <2>2. PICK n \in Nat : n = Base(s)
    BY <1>11
  <2>3. (Logged(r, n) => Logged(r, n)') /\ n = Base(s)' /\ s = step[r]'
    BY <1>1, <1>10, <1>11, <2>1, <2>2
  <2> QED BY <2>1, <2>2, <2>3
<1>14. CASE c # Main(r)
  <2>1. Joint(r) /\ c = "B"
    <3>2. ~Joint(r) => world.codes[r] = {Main(r)}
      BY <1>1, CodeFacts
    <3>3. Joint(r)
      BY <1>1, <1>14, <3>2
    <3>1. Joint(r) /\ Main(r) = "A"
      BY <1>1, <3>3, CodeFacts
    <3> QED BY <1>1, <1>14, <3>1, TwoCodes
  <2>2. todo'[r] = <<>> /\ todo'[r] = todo[r] /\ Begun(r)' = Begun(r)
    BY <1>1, <1>2, <1>4, <1>7, <1>14, <2>1 DEF calls, Idle, Begun
  <2>3. CASE Waiting(r)
    <3>1. Waiting(r)'
      BY <1>1, <1>7, <1>12, <2>2, <2>3 DEF Waiting, Idle
    <3> QED BY <1>5, <1>6, <3>1, OthersStay DEF Stage
  <2>4. CASE Resting(r)
    <3>1. Resting(r)'
      BY <1>1, <1>8, <1>13, <2>2, <2>4 DEF Resting, Idle
    <3> QED BY <1>5, <1>6, <3>1, OthersStay DEF Stage
  <2>5. CASE Weighing(r, Weighed + 1)
    <3>1. PICK i \in 1 .. Weighed + 1 : i = Weighed + 1
      BY <1>11
    <3>2. Weighing(r, i)
      BY <2>5, <3>1
    <3>3. todo'[r] = SubSeq(Weights(r), i, Weighed)'
      BY <1>1, <1>11, <2>2, <3>2, SameEdges DEF Weighing
    <3>4. Logged(r, IF entered[r] THEN Base(step[r]) + i ELSE Base(step[r]) + i - 1)'
      <4>1. PICK s \in Nat : s = step[r]
        BY <1>1
      <4>2. PICK n \in Nat : n = Base(s) + i - 1
        BY <1>11
      <4>3. Logged(r, n)'
        BY <1>9, <1>10, <3>2, <4>1, <4>2 DEF Weighing
      <4>4. n = (Base(step[r]) + i - 1)'
        <5>1. Base(s)' = Base(s) /\ s = step[r]'
          BY <1>1, <1>11, <4>1
        <5> QED BY <4>2, <5>1
      <4> QED BY <1>1, <1>9, <4>3, <4>4
    <3>5. Sound' = Sound /\ \A j : ObjsAt(r, j)' = ObjsAt(r, j) /\ Edge(j)' = Edge(j)
      BY <1>1, SameCalls, SameEdges
    <3>6. Linked(r, i - 1) => Linked(r, i - 1)'
      BY <1>1, <3>5 DEF Linked
    <3>7. Unlinked(r, i, Weighed) => Unlinked(r, i, Weighed)'
      BY <1>1, <1>11, <3>5 DEF Unlinked
    <3>8. Weighing(r, i)'
      BY <1>1, <1>8, <1>9, <2>2, <3>2, <3>3, <3>4, <3>5, <3>6, <3>7 DEF Weighing
    <3>9. i \in (1 .. Weighed + 1)'
      BY <1>11
    <3>10. Stage(r)'
      BY <3>8, <3>9 DEF Stage
    <3> QED BY <1>5, <1>6, <3>10, OthersStay
  <2> QED BY <1>9, <2>3, <2>4, <2>5
<1>15. CASE c = Main(r)
  <2>1. Begun(r)' /\ ~Begun(r)
    BY <1>1, <1>2, <1>7, <1>15 DEF Begun
  <2>2. ~(Joint(r) /\ c = "B")
    BY <1>1, <1>15, CodeFacts
  <2>3. CASE Waiting(r)
    <3>1. step[r] = 0 /\ Joined(r)
      BY <2>3 DEF Waiting
    <3>2. calls = (ExchangeCalls(r, "fields") \o <<Local("objects")>> \o ExchangeCalls(r, "sends"))
                    \o <<Local("order")>>
      BY <2>2, <3>1 DEF calls
    <3>3. calls = Block(r, Asker(r, 2), Main(r), 2)
      BY <1>1, <3>2, CallLists
    <3>4. Place(r, 2)'
      <4>1. /\ Joined(r)' /\ step'[r] = 0 /\ Logged(r, Base(0))' /\ Empty(r)'
        BY <1>1, <1>7, <1>12, <2>3 DEF Waiting
      <4>2. Learned(r, 2 - 1)'
        BY <1>7, <2>3 DEF Waiting
      <4> QED BY <2>1, <4>1, <4>2 DEF Place
    <3>5. PICK a \in Codes, v \in Codes : a = Asker(r, 2) /\ v = Main(r)
      <4>1. 2 \in 1 .. 3
        OBVIOUS
      <4> QED BY <1>1, <3>1, <4>1, AskerOwn, CodeFacts
    <3>6. todo'[r] = Block(r, Asker(r, 2), First(r, 2), 2)'
      <4>1. 2 \in 1 .. 3
        OBVIOUS
      <4>2. First(r, 2) = Main(r)
        BY DEF First
      <4>3. a = Asker(r, 2)' /\ v = First(r, 2)'
        BY <1>7, <3>5, <4>1, <4>2
      <4>4. Block(r, a, v, 2)' = Block(r, a, v, 2)
        BY <1>1, <4>1, SameLists
      <4> QED BY <1>4, <3>3, <3>5, <4>3, <4>4
    <3>7. Heard(r, 2 - 1)' /\ Told(r, 2 - 1)' /\ ~entered'[r]
      BY <1>1, <1>7, <1>9, <2>3 DEF Waiting
    <3>8. Asking(r, 2)' /\ 2 \in 1 .. 3
      BY <3>4, <3>6, <3>7 DEF Asking
    <3> QED BY <1>5, <1>6, <3>8, OthersStay DEF Stage
  <2>4. CASE Resting(r)
    <3>1. step[r] > 0
      BY <2>4 DEF Resting
    <3>2. calls = <<>> \o <<Local("order")>>
      BY <2>2, <3>1 DEF calls
    <3>3. <<>> \o <<Local("order")>> = <<Local("order")>>
      <4>1. <<Local("order")>> \in Seq({Local("order")})
        OBVIOUS
      <4> QED BY <4>1, ConcatEmptySeq
    <3>4. todo'[r] = <<Local("order")>>'
      BY <1>4, <3>2, <3>3 DEF Local
    <3>5. Later(r)' /\ Logged(r, Base(step[r]))' /\ ~entered'[r] /\ ~(step'[r] = 0)
      BY <1>1, <1>8, <1>13, <2>4 DEF Resting
    <3>6. Ordering(r)'
      BY <2>1, <3>4, <3>5 DEF Ordering
    <3> QED BY <1>5, <1>6, <3>6, OthersStay DEF Stage
  <2>5. CASE Weighing(r, Weighed + 1)
    BY <2>1, <2>5 DEF Weighing
  <2> QED BY <1>9, <2>3, <2>4, <2>5
<1> QED BY <1>14, <1>15

\* The objects of a call for weights, and the one of them that does the work.
LEMMA ListRange ==
  ASSUME SetupAssumption, world \in Worlds, NEW r \in Ranks, NEW i \in 1 .. Weighed
  PROVE  Range(ObjList(r, i)) = ObjsAt(r, i)
<1>1. /\ From(i) \in Codes /\ Other[From(i)] \in Codes /\ Other[From(i)] # From(i)
      /\ Sender(i).code = From(i) /\ Receiver(i).code = Other[From(i)]
  BY EdgeFacts, CodeFacts, EndsOf
<1>2. \A x, y : Range(<<x, y>>) = {x, y} /\ Range(<<x>>) = {x}
  BY DEF Range
<1>3. CASE Joint(r)
  <2>1. world.codes[r] = Codes /\ ObjList(r, i) = <<Sender(i), Receiver(i)>>
    BY <1>3 DEF Joint, ObjList
  <2>2. ObjsAt(r, i) = {Sender(i), Receiver(i)}
    BY <1>1, <2>1 DEF ObjsAt
  <2> QED BY <1>2, <2>1, <2>2
<1>4. CASE ~Joint(r) /\ Main(r) = From(i)
  <2>1. world.codes[r] = {From(i)} /\ ObjList(r, i) = <<Sender(i)>>
    BY <1>4, CodeFacts DEF ObjList
  <2>2. ObjsAt(r, i) = {Sender(i)}
    BY <1>1, <2>1 DEF ObjsAt
  <2> QED BY <1>2, <2>1, <2>2
<1>5. CASE ~Joint(r) /\ Main(r) # From(i)
  <2>1. Main(r) = Other[From(i)]
    BY <1>1, <1>5, CodeFacts, TwoCodes
  <2>2. world.codes[r] = {Other[From(i)]} /\ ObjList(r, i) = <<Receiver(i)>>
    BY <1>5, <2>1, CodeFacts DEF ObjList
  <2>3. ObjsAt(r, i) = {Receiver(i)}
    BY <1>1, <2>2 DEF ObjsAt
  <2> QED BY <1>2, <2>2, <2>3
<1> QED BY <1>3, <1>4, <1>5

\* The object that computes the weights, when it stands for its own code.
LEMMA WorkerIs ==
  ASSUME SetupAssumption, world \in Worlds, NEW r \in Ranks, NEW i \in 1 .. Weighed, NEW known,
         \A o \in ObjsAt(r, i) : known[o].as = o.code, NEW w, w = Worker(r, ObjList(r, i), known)
  PROVE  /\ w \in ObjsAt(r, i) /\ Ends(w, known[w].as) = Edge(i)
         /\ ObjsAt(r, i) = IF Joint(r) THEN {w, Partner(w, known[w].as)} ELSE {w}
<1>1. /\ From(i) \in Codes /\ Other[From(i)] \in Codes /\ Other[From(i)] # From(i)
      /\ Sender(i).code = From(i) /\ Receiver(i).code = Other[From(i)]
      /\ Partner(Sender(i), From(i)) = Receiver(i)
      /\ Partner(Receiver(i), Other[From(i)]) = Sender(i)
  BY EdgeFacts, CodeFacts, EndsOf
<1>2. Range(ObjList(r, i)) = ObjsAt(r, i)
  BY ListRange
<1>3. CASE Joint(r)
  <2>1. ObjsAt(r, i) = {Sender(i), Receiver(i)}
    BY <1>1, <1>3 DEF ObjsAt, Joint
  <2>2. \E o \in ObjsAt(r, i) : known[o].as = "A"
    <3>1. From(i) = "A" \/ Other[From(i)] = "A"
      BY <1>1, TwoCodes
    <3> QED BY <1>1, <2>1, <3>1
  <2>3. w = CHOOSE o \in ObjsAt(r, i) : known[o].as = "A"
    BY <1>2, <1>3 DEF Worker
  <2>4. w \in ObjsAt(r, i)
    BY <2>2, <2>3
  <2>5. known[w].as = w.code
    BY <2>4
  <2>6. Ends(w, w.code) = Edge(i)
    BY <2>4, OneWeight
  <2>7. {w, Partner(w, w.code)} = {Sender(i), Receiver(i)}
    BY <1>1, <2>1, <2>4
  <2> QED BY <1>3, <2>1, <2>4, <2>5, <2>6, <2>7
<1>4. CASE ~Joint(r)
  <2>1. w = CHOOSE o \in ObjsAt(r, i) : TRUE
    BY <1>2, <1>4 DEF Worker
  <2>2. \E o : ObjsAt(r, i) = {o}
    <3>1. world.codes[r] = {Main(r)} /\ Main(r) \in Codes
      BY <1>4, CodeFacts
    <3>2. Main(r) = From(i) \/ Main(r) = Other[From(i)]
      BY <1>1, <3>1, TwoCodes
    <3>3. CASE Main(r) = From(i)
      <4>1. ObjsAt(r, i) = {Sender(i)}
        BY <1>1, <3>1, <3>3 DEF ObjsAt
      <4> QED BY <4>1
    <3>4. CASE Main(r) = Other[From(i)]
      <4>1. ObjsAt(r, i) = {Receiver(i)}
        BY <1>1, <3>1, <3>4 DEF ObjsAt
      <4> QED BY <4>1
    <3> QED BY <3>2, <3>3, <3>4
  <2>3. w \in ObjsAt(r, i) /\ ObjsAt(r, i) = {w}
    BY <2>1, <2>2
  <2>4. known[w].as = w.code /\ Ends(w, w.code) = Edge(i)
    BY <2>3, OneWeight
  <2> QED BY <1>4, <2>3, <2>4
<1> QED BY <1>3, <1>4

\* What rank r knows of its objects when it computes the i-th weights of a step.
ClearedTo(r, i, known) ==
  /\ DOMAIN known = AllObjs(r)
  /\ \A o \in AllObjs(r) : DOMAIN known[o] = {"as", "link"}
  /\ Sound => \A o \in AllObjs(r) : known[o].as = o.code
  /\ \A o \in AllObjs(r) : o \notin ObjsAt(r, i) => known[o] = objects[r][o]
  /\ step[r] = 0 => known = objects[r]
  /\ step[r] # 0 => \A o \in ObjsAt(r, i) : known[o].link = NoValue

\* Objects cleared for new weights.
LEMMA Cleared ==
  ASSUME SetupAssumption, world \in Worlds, NEW r \in Ranks, NEW i \in 1 .. Weighed, Built(r),
         step[r] \in Nat, step[r] < world.steps, NEW known, known = Clear(r, ObjList(r, i))
  PROVE  ClearedTo(r, i, known)
<1> DEFINE As(o) == IF Joint(r) /\ Ends(o, o.code).from = "B" THEN Other[o.code] ELSE o.code
<1> USE DEF ClearedTo
<1>1. /\ DOMAIN objects[r] = AllObjs(r)
      /\ \A o \in AllObjs(r) : DOMAIN objects[r][o] = {"as", "link"}
      /\ Sound => \A o \in AllObjs(r) : objects[r][o].as = o.code
  BY DEF Built
<1>2. CASE step[r] = 0
  BY <1>1, <1>2 DEF Clear
<1>3. CASE step[r] # 0
  <2>1. known = [o \in AllObjs(r) |-> IF o \notin ObjsAt(r, i) THEN objects[r][o]
                                      ELSE [as |-> As(o), link |-> NoValue]]
    BY <1>1, <1>3, ListRange DEF Clear
  <2>2. ASSUME Sound, NEW o \in ObjsAt(r, i) PROVE As(o) = o.code
    <3>1. world.steps \in Nat
      BY DEF SetupAssumption
    <3>2. Joint(r) => KeysOf("B") = {}
      <4>1. world.steps > 1
        BY <1>3, <3>1
      <4> QED BY <2>2, <4>1 DEF Sound
    <3>3. Ends(o, o.code) = Edge(i) /\ Key(i) \in KeysOf(From(i)) /\ From(i) \in Codes
      BY OneWeight, EdgeFacts
    <3>4. Joint(r) => Ends(o, o.code).from # "B"
      BY <3>2, <3>3 DEF Edge
    <3> QED BY <3>4
  <2> HIDE DEF As
  <2>3. DOMAIN known = AllObjs(r)
    BY <2>1
  <2>4. \A o \in AllObjs(r) :
          known[o] = IF o \notin ObjsAt(r, i) THEN objects[r][o] ELSE [as |-> As(o), link |-> NoValue]
    BY <2>1
  <2>5. ObjsAt(r, i) \subseteq AllObjs(r)
    BY OneWeight
  <2>6. ASSUME NEW o \in ObjsAt(r, i)
        PROVE  /\ DOMAIN known[o] = {"as", "link"} /\ known[o].link = NoValue
               /\ Sound => known[o].as = o.code
    <3>1. known[o] = [as |-> As(o), link |-> NoValue]
      BY <2>4, <2>5
    <3> QED BY <2>2, <3>1
  <2>7. \A o \in AllObjs(r) : o \notin ObjsAt(r, i) => known[o] = objects[r][o]
    BY <2>4
  <2>8. \A o \in AllObjs(r) : DOMAIN known[o] = {"as", "link"}
    BY <1>1, <2>6, <2>7
  <2>9. Sound => \A o \in AllObjs(r) : known[o].as = o.code
    BY <1>1, <2>6, <2>7
  <2> QED BY <1>3, <2>3, <2>6, <2>7, <2>8, <2>9
<1> QED BY <1>2, <1>3

\* ... the computation of the weights of an object, ...
LEMMA StepEnterWeights ==
  ASSUME SetupAssumption, IInv, NEW r \in Ranks, EnterWeights(r)
  PROVE  IInv'
<1>1. /\ Shapes /\ UserShapes /\ MPIShapes /\ Stage(r) /\ UNCHANGED user
      /\ world \in Worlds /\ world' = world /\ UserShapes'
      /\ got' = got /\ todo' = todo /\ step[r] \in Nat
  BY UserKept DEF IInv, Shapes, EnterWeights
<1>2. PICK i \in 1 .. Weighed : Weighing(r, i)
  BY <1>1, StageOf DEF EnterWeights
<1>3. Weighed \in Nat /\ i \in 1 .. Weighed + 1
  BY <1>1, EdgeFacts
<1>4. Ahead(r, Compute(ObjList(r, i)), SubSeq(Weights(r), i + 1, Weighed))
  BY <1>1, <1>2, <1>3, WeightsAhead
<1>5. Head(todo[r]).objs = ObjList(r, i)
  BY <1>4, Kinds DEF Ahead
<1>6. PICK known : known = Clear(r, ObjList(r, i))
  OBVIOUS
<1>7. PICK w : w = Worker(r, ObjList(r, i), known)
  OBVIOUS
<1>8. /\ objects' = [objects EXCEPT ![r] = known]
      /\ EnterAll(r, [op |-> "weights", of |-> Ends(w, known[w].as)])
  BY <1>5, <1>6, <1>7 DEF EnterWeights
<1>9. /\ UNCHANGED <<user, got, mail, arrived, shared>> /\ ~entered[r] /\ Enter(r)
  BY <1>1, <1>8 DEF EnterAll
<1>10. entered'[r] = TRUE /\ entered' \in [Ranks -> BOOLEAN]
       /\ \A s \in Ranks : s # r => entered'[s] = entered[s]
  BY <1>1, <1>9, Entered
<1>11. /\ objects'[r] = known /\ DOMAIN objects' = Ranks
       /\ \A s \in Ranks : s # r => objects'[s] = objects[s]
  BY <1>1, <1>8 DEF MPIShapes
<1>12. /\ Later(r) /\ Joined(r) /\ Built(r) /\ Begun(r) /\ step[r] < world.steps
       /\ Learned(r, 3) /\ Heard(r, 3) /\ Told(r, 3)
  BY <1>1, <1>2 DEF Weighing, Later, Begun, UserShapes
<1>13. /\ DOMAIN known = AllObjs(r)
       /\ \A o \in AllObjs(r) : DOMAIN known[o] = {"as", "link"}
       /\ Sound => \A o \in AllObjs(r) : known[o].as = o.code
       /\ \A o \in AllObjs(r) : o \notin ObjsAt(r, i) => known[o] = objects[r][o]
       /\ step[r] = 0 => known = objects[r]
       /\ step[r] # 0 => \A o \in ObjsAt(r, i) : known[o].link = NoValue
  <2>1. world \in Worlds /\ Built(r) /\ step[r] \in Nat /\ step[r] < world.steps
    BY <1>1, <1>12
  <2>2. ClearedTo(r, i, known)
    BY <1>6, <2>1, Cleared
  <2> QED BY <2>2 DEF ClearedTo
<1>14. \A j \in 1 .. Weighed : ObjsAt(r, j) \subseteq AllObjs(r)
  BY <1>1, OneWeight
<1>15. Sound' = Sound /\ Weighed' = Weighed /\ AllObjs(r)' = AllObjs(r)
       /\ Weights(r)' = Weights(r)
       /\ \A j : ObjsAt(r, j)' = ObjsAt(r, j) /\ Edge(j)' = Edge(j)
  BY <1>1, SameCalls, SameEdges
<1>16. /\ Joined(r)' /\ Begun(r)' /\ step'[r] = step[r]
       /\ Mailed' /\ Heralded' /\ Learned(r, 3)' /\ Heard(r, 3)' /\ Told(r, 3)'
  BY <1>1, <1>9, <1>12, UserKept, CollectiveKept
<1>17. Later(r)'
  <2>1. Built(r)'
    BY <1>11, <1>13, <1>15 DEF Built
  <2> QED BY <1>16, <2>1 DEF Later
<1>18. PICK n \in Nat : n = Base(step[r]) + i - 1
  <2>1. Base(step[r]) \in Nat
    BY <1>1, BaseStep
  <2> QED BY <1>3, <2>1
<1>19. Logged(r, n + 1)' /\ DOMAIN log' = Ranks /\ \A s \in Ranks : s # r => log'[s] = log[s]
  <2>1. Logged(r, n)
    BY <1>2, <1>9, <1>18 DEF Weighing
  <2>2. n + 1 = Base(step[r]) + i /\ step[r] \in 0 .. world.steps
    <3>1. Base(step[r]) \in Nat /\ world.steps \in Nat
      BY <1>1, BaseStep DEF SetupAssumption
    <3> QED BY <1>1, <1>3, <1>12, <1>18, <3>1
  <2>3. ASSUME Sound PROVE Ends(w, known[w].as) = Edge(i)
    <3>1. \A o \in ObjsAt(r, i) : known[o].as = o.code
      BY <1>13, <1>14, <2>3
    <3>2. world \in Worlds
      BY <1>1
    <3> QED BY <1>7, <3>1, <3>2, WorkerIs
  <2>4. Common(n + 1) = [op |-> "weights", of |-> Edge(i)] /\ Common(n + 1) \in LogEntry
    BY <1>1, <2>2, CommonCalls
  <2>5. Sound => [op |-> "weights", of |-> Ends(w, known[w].as)] = Common(n + 1)
                 /\ [op |-> "weights", of |-> Ends(w, known[w].as)] \in LogEntry
    BY <2>3, <2>4
  <2> QED BY <1>1, <1>8, <2>1, <2>5, EnteredAll
<1>20. Logged(r, IF entered[r] THEN Base(step[r]) + i ELSE Base(step[r]) + i - 1)'
  <2>1. Base(step[r])' = Base(step[r]) /\ Base(step[r]) \in Nat
    <3>1. PICK s \in Nat : s = step[r]
      BY <1>1
    <3>2. Base(s)' = Base(s) /\ s = step[r]' /\ Base(s) \in Nat
      BY <1>1, <1>16, <3>1, SameCalls, BaseStep
    <3> QED BY <3>1, <3>2
  <2>2. (Base(step[r]) + i)' = n + 1
    BY <1>3, <1>18, <2>1
  <2> QED BY <1>10, <1>19, <2>2
<1>21. Shapes'
  BY <1>1, <1>9, <1>10, <1>11, <1>19 DEF Shapes, MPIShapes
<1>22. Alone(r)
  BY <1>1, <1>9, <1>10, <1>11, <1>19, AloneMPI
<1>23. todo'[r] = SubSeq(Weights(r), i, Weighed)'
  BY <1>1, <1>2, <1>15 DEF Weighing
<1>24. ASSUME Sound
       PROVE  Linked(r, i - 1)' /\ (step[r] = 0 => Unlinked(r, i, Weighed)') /\ Unlinked(r, i, i)'
  <2>1. Linked(r, i - 1) /\ (step[r] = 0 => Unlinked(r, i, Weighed))
    BY <1>2, <1>24 DEF Weighing
  <2>2. \A j \in 1 .. i - 1 : j \in 1 .. Weighed /\ j # i
    BY <1>3
  <2>3. ASSUME NEW j \in 1 .. i - 1, NEW o \in ObjsAt(r, j)
        PROVE  objects'[r][o].link = [of |-> Edge(j), step |-> step[r]]
    <3>1. o \in AllObjs(r) /\ o \notin ObjsAt(r, i)
      BY <1>1, <1>14, <2>2, OneWeight
    <3> QED BY <1>11, <1>13, <2>1, <3>1 DEF Linked
  <2>4. Linked(r, i - 1)'
    BY <1>15, <1>16, <2>3 DEF Linked
  <2>5. step[r] = 0 => Unlinked(r, i, Weighed)'
    BY <1>11, <1>13, <1>15, <2>1 DEF Unlinked
  <2>6. Unlinked(r, i, i)'
    <3>1. \A o \in ObjsAt(r, i) : known[o].link = NoValue
      BY <1>3, <1>13, <2>1 DEF Unlinked
    <3>2. \A j \in i .. i : j = i
      BY <1>3
    <3> QED BY <1>11, <1>15, <3>1, <3>2 DEF Unlinked
  <2> QED BY <2>4, <2>5, <2>6
<1>25. Weighing(r, i)'
  BY <1>3, <1>10, <1>15, <1>16, <1>17, <1>20, <1>23, <1>24 DEF Weighing
<1>26. i \in (1 .. Weighed + 1)'
  BY <1>3, <1>15
<1>27. Stage(r)'
  BY <1>25, <1>26 DEF Stage
<1> QED BY <1>16, <1>21, <1>22, <1>27, OthersStay

\* ... and its end, after which the object has the protocol of the exchange.
LEMMA StepLeaveWeights ==
  ASSUME SetupAssumption, IInv, NEW r \in Ranks, LeaveWeights(r)
  PROVE  IInv'
<1>1. /\ Shapes /\ UserShapes /\ MPIShapes /\ Stage(r) /\ UNCHANGED user
      /\ world \in Worlds /\ world' = world /\ UserShapes' /\ entered[r] /\ Finish(r)
      /\ got' = got /\ step[r] \in Nat /\ Len(log[r]) = Len(log[r])
      /\ UNCHANGED <<user, got, mail, arrived, shared, log>>
  BY UserKept DEF IInv, Shapes, LeaveWeights, AllIn, mpi
<1>2. PICK i \in 1 .. Weighed : Weighing(r, i)
  BY <1>1, StageOf DEF LeaveWeights
<1>3. Weighed \in Nat /\ i \in 1 .. Weighed + 1 /\ i + 1 \in 1 .. Weighed + 1 /\ i + 1 - 1 = i
  BY <1>1, EdgeFacts
<1>4. Ahead(r, Compute(ObjList(r, i)), SubSeq(Weights(r), i + 1, Weighed))
  BY <1>1, <1>2, <1>3, WeightsAhead
<1>5. Head(todo[r]).objs = ObjList(r, i)
  BY <1>4, Kinds DEF Ahead
<1>6. PICK known : known = objects[r]
  OBVIOUS
<1>7. PICK w : w = Worker(r, ObjList(r, i), known)
  OBVIOUS
<1>8. PICK p : p = Partner(w, known[w].as)
  OBVIOUS
<1>9. PICK link : link = IF known[w].link # NoValue THEN known[w].link
                         ELSE [of |-> Ends(w, known[w].as), step |-> step[r]]
  OBVIOUS
<1>10. objects' = [objects EXCEPT ![r] = [o \in DOMAIN known |->
         IF o = w \/ (Joint(r) /\ o = p) THEN [known[o] EXCEPT !.link = link] ELSE known[o]]]
  BY <1>5, <1>6, <1>7, <1>8, <1>9 DEF LeaveWeights
<1>11. /\ objects'[r] = [o \in DOMAIN known |->
            IF o = w \/ (Joint(r) /\ o = p) THEN [known[o] EXCEPT !.link = link] ELSE known[o]]
       /\ DOMAIN objects' = Ranks /\ \A s \in Ranks : s # r => objects'[s] = objects[s]
  BY <1>1, <1>10 DEF MPIShapes
<1>12. /\ todo'[r] = SubSeq(Weights(r), i + 1, Weighed) /\ entered'[r] = FALSE
       /\ DOMAIN todo' = Ranks /\ entered' \in [Ranks -> BOOLEAN]
       /\ \A s \in Ranks : s # r => todo'[s] = todo[s] /\ entered'[s] = entered[s]
  BY <1>1, <1>4, Finished
<1>13. /\ Later(r) /\ Joined(r) /\ Built(r) /\ Begun(r)
       /\ Learned(r, 3) /\ Heard(r, 3) /\ Told(r, 3)
  BY <1>2 DEF Weighing, Later
<1>14. /\ DOMAIN known = AllObjs(r)
       /\ \A o \in AllObjs(r) : DOMAIN known[o] = {"as", "link"}
       /\ Sound => \A o \in AllObjs(r) : known[o].as = o.code
  BY <1>6, <1>13 DEF Built
<1>15. /\ DOMAIN objects'[r] = AllObjs(r)
       /\ \A o \in AllObjs(r) :
            /\ DOMAIN objects'[r][o] = {"as", "link"} /\ objects'[r][o].as = known[o].as
            /\ ~(o = w \/ (Joint(r) /\ o = p)) => objects'[r][o] = known[o]
            /\ o = w \/ (Joint(r) /\ o = p) => objects'[r][o].link = link
  <2>1. DOMAIN objects'[r] = AllObjs(r)
    BY <1>11, <1>14
  <2>2. ASSUME NEW o \in AllObjs(r)
        PROVE  /\ DOMAIN objects'[r][o] = {"as", "link"} /\ objects'[r][o].as = known[o].as
               /\ ~(o = w \/ (Joint(r) /\ o = p)) => objects'[r][o] = known[o]
               /\ o = w \/ (Joint(r) /\ o = p) => objects'[r][o].link = link
    <3>1. objects'[r][o] = IF o = w \/ (Joint(r) /\ o = p)
                           THEN [known[o] EXCEPT !.link = link] ELSE known[o]
      BY <1>11, <1>14
    <3>2. DOMAIN known[o] = {"as", "link"}
      BY <1>14
    <3>3. CASE o = w \/ (Joint(r) /\ o = p)
      <4>1. objects'[r][o] = [known[o] EXCEPT !.link = link]
        BY <3>1, <3>3
      <4>2. /\ DOMAIN objects'[r][o] = {"as", "link"} /\ objects'[r][o].as = known[o].as
            /\ objects'[r][o].link = link
        BY <3>2, <4>1
      <4> QED BY <3>3, <4>2
    <3>4. CASE ~(o = w \/ (Joint(r) /\ o = p))
      BY <3>1, <3>2, <3>4
    <3> QED BY <3>3, <3>4
  <2> QED BY <2>1, <2>2
<1>16. \A j \in 1 .. Weighed : ObjsAt(r, j) \subseteq AllObjs(r)
  BY <1>1, OneWeight
<1>17. Sound' = Sound /\ Weighed' = Weighed /\ AllObjs(r)' = AllObjs(r)
       /\ Weights(r)' = Weights(r)
       /\ \A j : ObjsAt(r, j)' = ObjsAt(r, j) /\ Edge(j)' = Edge(j)
  BY <1>1, SameCalls, SameEdges
<1>18. /\ Joined(r)' /\ Begun(r)' /\ step'[r] = step[r]
       /\ Mailed' /\ Heralded' /\ Learned(r, 3)' /\ Heard(r, 3)' /\ Told(r, 3)'
  BY <1>1, <1>13, UserKept, CollectiveKept
<1>19. Later(r)'
  <2>1. Built(r)'
    BY <1>14, <1>15, <1>17 DEF Built
  <2> QED BY <1>18, <2>1 DEF Later
<1>20. Logged(r, IF entered[r] THEN Base(step[r]) + (i + 1) ELSE Base(step[r]) + (i + 1) - 1)'
  <2>1. PICK s \in Nat : s = step[r]
    BY <1>1
  <2>2. PICK n \in Nat : n = Base(s) + i
    BY <1>1, <1>3, BaseStep
  <2>3. Logged(r, n)'
    BY <1>1, <1>2, <2>1, <2>2, LogStays DEF Weighing
  <2>4. Base(s)' = Base(s) /\ s = step[r]' /\ Base(s) \in Nat
    BY <1>1, <1>18, <2>1, SameCalls, BaseStep
  <2>5. Base(step[r])' = Base(s)
    BY <2>4
  <2>6. (Base(step[r]) + (i + 1) - 1)' = n
    BY <1>3, <2>2, <2>4, <2>5
  <2> QED BY <1>12, <2>3, <2>6
<1>21. Shapes'
  BY <1>1, <1>11, <1>12 DEF Shapes, MPIShapes
<1>22. Alone(r)
  BY <1>1, <1>11, <1>12, AloneMPI
<1>23. ASSUME Sound PROVE Linked(r, i)' /\ (step[r] = 0 => Unlinked(r, i + 1, Weighed)')
  <2>1. /\ Linked(r, i - 1) /\ Unlinked(r, i, i)
        /\ step[r] = 0 => Unlinked(r, i, Weighed)
    BY <1>1, <1>2, <1>23 DEF Weighing
  <2>2. \A o \in ObjsAt(r, i) : known[o].as = o.code
    BY <1>14, <1>16, <1>23
  <2>3. /\ w \in ObjsAt(r, i) /\ Ends(w, known[w].as) = Edge(i)
        /\ ObjsAt(r, i) = IF Joint(r) THEN {w, p} ELSE {w}
    <3>1. world \in Worlds
      BY <1>1
    <3> QED BY <1>7, <1>8, <2>2, <3>1, WorkerIs
  <2>4. link = [of |-> Edge(i), step |-> step[r]]
    <3>1. known[w].link = NoValue
      BY <1>3, <1>6, <2>1, <2>3 DEF Unlinked
    <3> QED BY <1>9, <2>3, <3>1
  <2>5. \A o \in ObjsAt(r, i) : objects'[r][o].link = link
    BY <1>15, <1>16, <2>3
  <2>6. ASSUME NEW j \in 1 .. Weighed, j # i, NEW o \in ObjsAt(r, j)
        PROVE  objects'[r][o] = objects[r][o]
    <3>1. o \in AllObjs(r) /\ o \notin ObjsAt(r, i)
      BY <1>1, <1>16, <2>6, OneWeight
    <3>2. ~(o = w \/ (Joint(r) /\ o = p))
      BY <2>3, <3>1
    <3> QED BY <1>6, <1>15, <3>1, <3>2
  <2>7. ASSUME NEW j \in 1 .. i, NEW o \in ObjsAt(r, j)
        PROVE  objects'[r][o].link = [of |-> Edge(j), step |-> step[r]]
    <3>1. CASE j = i
      BY <2>4, <2>5, <3>1
    <3>2. CASE j # i
      <4>1. j \in 1 .. i - 1 /\ j \in 1 .. Weighed
        BY <1>3, <3>2
      <4> QED BY <2>1, <2>6, <3>2, <4>1 DEF Linked
    <3> QED BY <3>1, <3>2
  <2>8. Linked(r, i)'
    BY <1>17, <1>18, <2>7 DEF Linked
  <2>9. ASSUME step[r] = 0, NEW j \in i + 1 .. Weighed, NEW o \in ObjsAt(r, j)
        PROVE  objects'[r][o].link = NoValue
    <3>1. j \in 1 .. Weighed /\ j # i /\ j \in i .. Weighed
      BY <1>3
    <3> QED BY <2>1, <2>6, <2>9, <3>1 DEF Unlinked
  <2>10. step[r] = 0 => Unlinked(r, i + 1, Weighed)'
    BY <1>17, <2>9 DEF Unlinked
  <2> QED BY <2>8, <2>10
<1>24. todo'[r] = SubSeq(Weights(r), i + 1, Weighed)'
  BY <1>12, <1>17
<1>25. PICK n \in 1 .. Weighed + 1 : n = i + 1
  BY <1>3
<1>26. /\ todo'[r] = SubSeq(Weights(r), n, Weighed)' /\ n - 1 = i
       /\ Logged(r, IF entered[r] THEN Base(step[r]) + n ELSE Base(step[r]) + n - 1)'
       /\ Sound => Linked(r, n - 1)' /\ (step[r] = 0 => Unlinked(r, n, Weighed)')
  BY <1>3, <1>20, <1>23, <1>24, <1>25
<1>27. Weighing(r, n)'
  BY <1>12, <1>17, <1>18, <1>19, <1>26 DEF Weighing
<1>28. n \in (1 .. Weighed + 1)'
  BY <1>17, <1>25
<1>29. Stage(r)'
  BY <1>27, <1>28 DEF Stage
<1> QED BY <1>18, <1>21, <1>22, <1>29, OthersStay

-----------------------------------------------------------------------------
(* The theorems. *)

\* The invariant holds at first ...
LEMMA InitInvariant == ASSUME SetupAssumption, Init PROVE IInv
<1>1. world \in Worlds
  BY DEF Init
<1>2. /\ world.codes \in [Ranks -> (SUBSET Codes) \ {{}}] /\ world.steps \in Nat
      /\ \A c \in Codes : Root(c) \in Ranks
  BY <1>1, CodeFacts DEF SetupAssumption
<1>3. Shapes
  BY <1>1, <1>2 DEF Init, Shapes, UserShapes, MPIShapes
<1>4. Mailed
  BY DEF Init, Mailed
<1>5. Heralded
  BY <1>2 DEF Init, Heralded
<1>6. ASSUME NEW r \in Ranks PROVE Fresh(r)
  <2>1. made[r] # world.codes[r] /\ world.codes[r] \subseteq Codes
    BY <1>2 DEF Init
  <2>2. Logged(r, 0)
    BY DEF Init, Logged
  <2>3. Heard(r, 0) /\ Told(r, 0)
    BY <2>1 DEF Init, Heard, Told
  <2> QED BY <2>1, <2>2, <2>3 DEF Init, Fresh, Idle, Empty
<1> QED BY <1>3, <1>4, <1>5, <1>6 DEF IInv, Stage

\* ... and where nothing happens.
LEMMA StutterInvariant == ASSUME SetupAssumption, IInv, UNCHANGED vars PROVE IInv'
<1>1. /\ UNCHANGED user /\ UNCHANGED <<got, objects, todo, entered, log, mail, arrived, shared>>
      /\ Shapes /\ MPIShapes /\ Mailed /\ Heralded /\ world \in Worlds /\ world' = world
      /\ UserShapes'
  BY UserKept DEF vars, user, mpi, IInv, Shapes
<1>2. Shapes' /\ Mailed' /\ Heralded'
  BY <1>1, MailKept, SharedKept DEF Shapes, MPIShapes
<1>3. ASSUME NEW r \in Ranks PROVE Stage(r)'
  <2>1. Untouched(r)
    BY <1>1 DEF Untouched, user
  <2>2. step[r] \in Nat /\ entered[r] \in BOOLEAN /\ Stage(r)
    BY DEF IInv, Shapes, UserShapes, MPIShapes
  <2> QED BY <1>1, <2>1, <2>2, StageKept
<1> QED BY <1>2, <1>3 DEF IInv

\* Every rank is in a stage of its calls, with what it must know there.
THEOREM Invariance == Spec => []IInv
<1>1. Init => IInv
  BY SetupAssumption, InitInvariant
<1>2. ASSUME IInv, NEW r \in Ranks, Step(r) PROVE IInv'
  <2>1. ASSUME NEW c \in Codes, CWP_Cpl_create(r, c) PROVE IInv'
    BY SetupAssumption, <1>2, <2>1, StepCreate
  <2>2. ASSUME NEW c \in Codes, CWP_Spatial_interp_weights_compute(r, c) PROVE IInv'
    BY SetupAssumption, <1>2, <2>2, StepCompute
  <2>3. CASE CWP_Time_step_end(r)
    BY SetupAssumption, <1>2, <2>3, StepTimeStepEnd
  <2>4. CASE Copy(r) \/ EnterSendrecv(r) \/ LeaveSendrecv(r)
    BY SetupAssumption, <1>2, <2>4, StepCopy, StepEnterSendrecv, StepLeaveSendrecv
  <2>5. CASE EnterBcast(r) \/ LeaveBcast(r)
    BY SetupAssumption, <1>2, <2>5, StepEnterBcast, StepLeaveBcast
  <2>6. CASE CreateGroup(r) \/ CplCommCreate(r) \/ CreateObjects(r) \/ OrderWeights(r)
    BY SetupAssumption, <1>2, <2>6, StepCreateGroup, StepCplCommCreate, StepCreateObjects,
       StepOrderWeights
  <2>7. CASE EnterWeights(r) \/ LeaveWeights(r)
    BY SetupAssumption, <1>2, <2>7, StepEnterWeights, StepLeaveWeights
  <2> QED BY <1>2, <2>1, <2>2, <2>3, <2>4, <2>5, <2>6, <2>7 DEF Step, MPIStep
<1>3. IInv /\ [Next]_vars => IInv'
  BY SetupAssumption, <1>2, StutterInvariant DEF Next
<1> QED BY <1>1, <1>3, PTL DEF Spec

\* The states of the calls are of their types.
THEOREM TypeCorrect == Spec => []TypeOK
<1>1. IInv => TypeOK
  <2>1. SUFFICES ASSUME IInv PROVE TypeOK
    OBVIOUS
  <2>2. UserShapes /\ MPIShapes /\ world \in Worlds /\ \A r \in Ranks : Stage(r)
    BY <2>1 DEF IInv, Shapes, UserShapes
  <2>3. ASSUME NEW r \in Ranks
        PROVE  /\ step[r] \in 0 .. world.steps
               /\ \A o \in DOMAIN objects[r] : o.code \in world.codes[r]
               /\ entered[r] => ~Idle(r)
    <3>1. step[r] \in 0 .. world.steps
      BY SetupAssumption, <2>2 DEF UserShapes, SetupAssumption
    <3>2. entered[r] => ~Idle(r)
      BY SetupAssumption, <2>2, StageOf
    <3>3. Empty(r) \/ Built(r)
      BY <2>2 DEF Stage, Fresh, Grouping, Creating, Waiting, Listing, Resting, Ordering,
                  Asking, HearFirst, HearSecond, Place, Weighing, Later
    <3>4. CASE Empty(r)
      BY <3>1, <3>2, <3>4 DEF Empty
    <3>5. CASE Built(r)
      <4>1. \A c \in world.codes[r] : \A o \in ObjsOf(c) : o.code = c
        BY DEF ObjsOf, Obj
      <4>2. \A o \in AllObjs(r) : o.code \in world.codes[r]
        BY <4>1 DEF AllObjs
      <4> QED BY <3>1, <3>2, <3>5, <4>2 DEF Built
    <3> QED BY <3>3, <3>4, <3>5
  <2> QED BY <2>2, <2>3 DEF TypeOK, UserShapes, MPIShapes
<1> QED BY <1>1, Invariance, PTL

\* Whatever the order in which the ranks that run both codes create the couplings
\* of the two, a rank knows the communication type of the coupled code before it
\* creates the communicator.
THEOREM TypesKnown == Spec => []TypeKnown
<1>1. IInv => TypeKnown
  <2>1. SUFFICES ASSUME IInv, NEW r \in Ranks, Doing(r, "create")
                 PROVE  got[r][side[r]].type = world.part[Other[side[r]]]
    BY DEF TypeKnown
  <2>2. world \in Worlds /\ Stage(r)
    BY <2>1 DEF IInv, Shapes, UserShapes
  <2>3. Creating(r)
    BY SetupAssumption, <2>1, <2>2, StageOf
  <2>4. side[r] \in world.codes[r] /\ Learned(r, 1)
    BY <2>3 DEF Creating, Joined
  <2>5. Right(r, side[r], 1)
    BY <2>4 DEF Learned
  <2> QED BY <2>5 DEF Right, Value, What
<1> QED BY <1>1, Invariance, PTL

\* Where the weights are not computed again with an object from B to A on a joint
\* rank, all ranks make the same collective calls, in the same order.
THEOREM CollectivesAgree == Spec => [](Sound => SameCollectives)
<1>1. IInv => (Sound => SameCollectives)
  <2>1. SUFFICES ASSUME IInv, Sound PROVE SameCollectives
    OBVIOUS
  <2>2. world \in Worlds /\ \A r \in Ranks : Stage(r) /\ step[r] \in Nat
    BY <2>1 DEF IInv, Shapes, UserShapes
  <2>3. Weighed \in Nat /\ \A s \in Nat : Base(s) \in Nat
    BY SetupAssumption, <2>2, EdgeFacts, BaseStep
  <2>4. ASSUME NEW r \in Ranks PROVE \E n \in Nat : Logged(r, n)
    <3>1. CASE Fresh(r) \/ Grouping(r) \/ Creating(r)
      BY <3>1 DEF Fresh, Grouping, Creating
    <3>2. CASE Waiting(r) \/ Listing(r)
      BY <2>3, <3>2 DEF Waiting, Listing
    <3>3. CASE Resting(r) \/ Ordering(r)
      BY <2>2, <2>3, <3>3 DEF Resting, Ordering
    <3>4. ASSUME NEW k \in 1 .. 3, Place(r, k) PROVE \E n \in Nat : Logged(r, n)
      BY <2>3, <3>4 DEF Place
    <3>5. ASSUME NEW i \in 1 .. Weighed + 1, Weighing(r, i) PROVE \E n \in Nat : Logged(r, n)
      <4>1. Base(step[r]) + i \in Nat /\ Base(step[r]) + i - 1 \in Nat
        BY <2>2, <2>3
      <4>2. Logged(r, IF entered[r] THEN Base(step[r]) + i ELSE Base(step[r]) + i - 1)
        BY <3>5 DEF Weighing
      <4> QED BY <4>1, <4>2
    <3> QED BY <2>2, <3>1, <3>2, <3>3, <3>4, <3>5 DEF Stage, Asking, HearFirst, HearSecond
  <2>5. ASSUME NEW r \in Ranks, NEW i \in DOMAIN log[r] PROVE log[r][i] = Common(i)
    <3>1. PICK n \in Nat : log[r] \in Seq(LogEntry) /\ Len(log[r]) = n
                           /\ \A j \in 1 .. n : log[r][j] = Common(j)
      BY <2>1, <2>4 DEF Logged
    <3>2. DOMAIN log[r] = 1 .. n
      BY <3>1, LenProperties
    <3> QED BY <2>5, <3>1, <3>2
  <2> QED BY <2>5 DEF SameCollectives
<1> QED BY <1>1, Invariance, PTL

\* In the same worlds every object has, once the weights of a step are computed, the
\* protocol of its own exchange, computed in that step.
THEOREM ObjectsAssociated == Spec => [](Sound => Associated)
<1>1. IInv => (Sound => Associated)
  <2>1. SUFFICES ASSUME IInv, Sound, NEW r \in Ranks, Idle(r), called[r] = world.codes[r],
                        NEW o \in DOMAIN objects[r]
                 PROVE  objects[r][o].link = [of |-> Ends(o, o.code), step |-> step[r]]
    BY DEF Associated
  <2>2. world \in Worlds /\ Stage(r)
    BY <2>1 DEF IInv, Shapes, UserShapes
  <2>3. Main(r) \in called[r]
    BY SetupAssumption, <2>1, <2>2, CodeFacts
  <2>4. Weighing(r, Weighed + 1)
    <3>1. Fresh(r) \/ Waiting(r) \/ Resting(r) \/ Weighing(r, Weighed + 1)
      BY SetupAssumption, <2>1, <2>2, StageOf
    <3> QED BY <2>3, <3>1 DEF Fresh, Waiting, Resting, Begun
  <2>5. Weighed \in Nat /\ Weighed + 1 - 1 = Weighed
    BY SetupAssumption, <2>2, EdgeFacts
  <2>6. Linked(r, Weighed) /\ DOMAIN objects[r] = AllObjs(r)
    BY <2>1, <2>4, <2>5 DEF Weighing, Later, Built
  <2>7. PICK i \in 1 .. Weighed : o \in ObjsAt(r, i)
    BY SetupAssumption, <2>1, <2>2, <2>6, OneWeight
  <2>8. Ends(o, o.code) = Edge(i)
    BY SetupAssumption, <2>2, <2>7, OneWeight
  <2> QED BY <2>6, <2>7, <2>8 DEF Linked
<1> QED BY <1>1, Invariance, PTL
=============================================================================

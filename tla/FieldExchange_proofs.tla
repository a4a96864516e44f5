------------------------- MODULE FieldExchange_proofs -------------------------
(***************************************************************************)
(* Proofs about FieldExchange, for every number of ranks that run one code *)
(* or both, every set of fields and every pair of programs in which the    *)
(* two codes make the exchanges of a coupling in the same order.           *)
(***************************************************************************)
EXTENDS FieldExchange, FiniteSetTheorems, TLAPS

\* The order in which the codes must call (FieldExchange, "What the two codes
\* owe each other").
Disciplined ==
  \A p \in Programs :
    SameOrder(p) /\ SameWaits(p) /\ WaitsBetween(p) /\ WaitsAfter(p) /\ JointOrder(p)

\* What is needed of it for an exchange to be made once in a time step.
Paced == \A p \in Programs : WaitsBetween(p)

-----------------------------------------------------------------------------
(* The ranks, the codes and the calls. *)

\* The two codes, their ranks and their members.
LEMMA CodeTypes ==
  /\ Codes = {"A", "B"} /\ RanksOf["A"] = RanksA /\ RanksOf["B"] = RanksB
  /\ Other["A"] = "B" /\ Other["B"] = "A"
  /\ \A c \in Codes : Other[c] \in Codes /\ Other[c] # c /\ Other[Other[c]] = c
  /\ \A c \in Codes : RanksOf[c] \subseteq Ranks
  /\ \A m \in Members : m[1] \in Ranks /\ m[2] \in Codes /\ m[1] \in RanksOf[m[2]]
  /\ \A m \in Members : m = <<m[1], m[2]>>
  /\ \A c \in Codes : \A r \in RanksOf[c] : <<r, c>> \in Members
BY DEF Codes, RanksOf, Other, Members, Ranks

\* One member of a rank does its work, and it is the code of smaller id.
LEMMA OneWorker ==
  /\ \A x, y \in Members : x[1] = y[1] /\ Works(x) /\ Works(y) => x = y
  /\ \A m \in Members : IsJoint(m) => Partner(m) \in Members /\ Partner(m) # m
  /\ \A m \in Members : ~Works(m) => IsJoint(m) /\ m[2] = "B" /\ Works(Partner(m))
  /\ \A x, y \in Members : x[1] = y[1] /\ x # y => IsJoint(x) /\ y = Partner(x)
BY CodeTypes DEF Works, IsJoint, Partner

\* The program of a code is as long as that of the other, and made of calls.
LEMMA ProgramType ==
  ASSUME ExchangeAssumption, NEW p \in Programs
  PROVE  /\ Len(p["A"]) \in Nat
         /\ \A c \in Codes : p[c] \in Seq(Calls) /\ DOMAIN p[c] = 1 .. Len(p["A"])
         /\ \A c \in Codes : \A i \in 1 .. Len(p["A"]) :
              /\ p[c][i] \in Calls /\ p[c][i].field \in Fields
              /\ p[c][i].op \in {"issend", "irecv", "wait_issend", "wait_irecv"}
              /\ p[c][i] = [op |-> p[c][i].op, field |-> p[c][i].field]
<1>1. p \in [Codes -> Seq(Calls)] /\ Len(p["A"]) = Len(p["B"])
  BY DEF ExchangeAssumption
<1>2. \A c \in Codes : p[c] \in Seq(Calls) /\ DOMAIN p[c] = 1 .. Len(p["A"])
  <2>1. \A c \in Codes : p[c] \in Seq(Calls) /\ Len(p[c]) = Len(p["A"])
    <3>1. \A c \in Codes : p[c] \in Seq(Calls)
      BY <1>1
    <3> QED BY <1>1, <3>1 DEF Codes
  <2>2. ASSUME NEW c \in Codes PROVE DOMAIN p[c] = 1 .. Len(p[c])
    BY <2>1
  <2> QED BY <2>1, <2>2
<1>3. \A c \in Codes : \A i \in 1 .. Len(p["A"]) : p[c][i] \in Calls
  BY <1>2
<1>4. \A x \in Calls :
        /\ x.field \in Fields /\ x.op \in {"issend", "irecv", "wait_issend", "wait_irecv"}
        /\ x = [op |-> x.op, field |-> x.field]
  BY DEF Calls
<1>5. Len(p["A"]) \in Nat
  BY <1>1 DEF Codes
<1> QED BY <1>2, <1>3, <1>4, <1>5

-----------------------------------------------------------------------------
(* Where a member is in its program. *)

\* A number is its quotient and its remainder, and only one pair is.
LEMMA Division ==
  ASSUME NEW n \in Nat, NEW P \in Nat, P > 0
  PROVE  /\ (n \div P) \in Nat /\ (n % P) \in Nat /\ (n % P) < P
         /\ n = P * (n \div P) + (n % P)
OBVIOUS

\* A number divides in one way: quotient and remainder.
LEMMA OneDivision ==
  ASSUME NEW a \in Nat, NEW b \in Nat, NEW P \in Nat, NEW x \in Nat, NEW y \in Nat,
         x < P, y < P, P * a + x = P * b + y
  PROVE  a = b /\ x = y
<1>1. ~(b + 1 <= a)
  <2> SUFFICES ASSUME b + 1 <= a PROVE FALSE
    OBVIOUS
  <2>1. P * (b + 1) <= P * a
    OBVIOUS
  <2>2. P * (b + 1) = P * b + P
    OBVIOUS
  <2> QED BY <2>1, <2>2
<1>2. ~(a + 1 <= b)
  <2> SUFFICES ASSUME a + 1 <= b PROVE FALSE
    OBVIOUS
  <2>1. P * (a + 1) <= P * b
    OBVIOUS
  <2>2. P * (a + 1) = P * a + P
    OBVIOUS
  <2> QED BY <2>1, <2>2
<1>3. a = b
  BY <1>1, <1>2
<1> QED BY <1>3

\* The next call is in the same step, except after the last one.
LEMMA Position ==
  ASSUME NEW n \in Nat, NEW P \in Nat, P > 0
  PROVE  /\ (n % P) # P - 1 =>
              ((n + 1) % P) = (n % P) + 1 /\ ((n + 1) \div P) = (n \div P)
         /\ (n % P) = P - 1 =>
              ((n + 1) % P) = 0 /\ ((n + 1) \div P) = (n \div P) + 1
<1> DEFINE q == n \div P  s == n % P  qq == (n + 1) \div P  ss == (n + 1) % P
<1>1. q \in Nat /\ s \in Nat /\ s < P /\ n = P * q + s
  BY Division
<1>2. qq \in Nat /\ ss \in Nat /\ ss < P /\ n + 1 = P * qq + ss
  BY Division
<1> HIDE DEF q, s, qq, ss
<1>3. CASE s # P - 1
  <2>1. P * qq + ss = P * q + (s + 1) /\ s + 1 \in Nat /\ s + 1 < P
    BY <1>1, <1>2, <1>3
  <2>2. qq = q /\ ss = s + 1
    BY <1>1, <1>2, <2>1, OneDivision
  <2> QED BY <1>3, <2>2 DEF q, s, qq, ss
<1>4. CASE s = P - 1
  <2>1. P * qq + ss = P * (q + 1) + 0
    BY <1>1, <1>2, <1>4
  <2>2. qq = q + 1 /\ ss = 0
    BY <1>1, <1>2, <2>1, OneDivision
  <2> QED BY <1>4, <2>2 DEF q, s, qq, ss
<1> QED BY <1>3, <1>4

\* What a member's position is before, and after a call that returns.
LEMMA Places ==
  ASSUME ExchangeAssumption, TypeOK, NEW m \in Members
  PROVE  /\ Pos(m) \in 0 .. Len(prog["A"]) + 1 /\ Now(m) \in Nat \ {0}
         /\ AtEnd(m) <=> Pos(m) = Len(prog["A"]) + 1
         /\ done'[m] = done[m] + 1 /\ prog' = prog =>
              /\ ~AtEnd(m) => Pos(m)' = Pos(m) + 1 /\ Now(m)' = Now(m)
              /\ AtEnd(m)  => Pos(m)' = 0 /\ Now(m)' = Now(m) + 1
         /\ done'[m] = done[m] /\ prog' = prog => Pos(m)' = Pos(m) /\ Now(m)' = Now(m)
<1> DEFINE n == done[m]  P == Period
<1>1. n \in Nat /\ P \in Nat /\ P > 0 /\ P = Len(prog["A"]) + 2 /\ Len(prog["A"]) \in Nat
  BY ProgramType DEF TypeOK, Period
<1>2. Pos(m) = (n % P) /\ Now(m) = (n \div P) + 1
  BY Zenon DEF Pos, Now
<1>3. ASSUME prog' = prog
      PROVE  Pos(m)' = (done'[m] % P) /\ Now(m)' = (done'[m] \div P) + 1
  <2>1. Period' = P
    BY <1>3 DEF Period
  <2> QED BY <2>1 DEF Pos, Now
<1>4. AtEnd(m) <=> Pos(m) = P - 1
  BY DEF AtEnd
<1> HIDE DEF n, P
<1>5. (n % P) \in Nat /\ (n % P) < P /\ (n \div P) \in Nat
  BY <1>1, Division
<1>6. Pos(m) \in 0 .. Len(prog["A"]) + 1 /\ Now(m) \in Nat \ {0}
  <2> DEFINE s == n % P  q == n \div P
  <2>1. Pos(m) = s /\ Now(m) = q + 1 /\ s \in Nat /\ s < P /\ q \in Nat
    BY <1>2, <1>5
  <2> HIDE DEF s, q
  <2> QED BY <1>1, <2>1
<1>7. ASSUME done'[m] = n + 1, prog' = prog
      PROVE  /\ ~AtEnd(m) => Pos(m)' = Pos(m) + 1 /\ Now(m)' = Now(m)
             /\ AtEnd(m)  => Pos(m)' = 0 /\ Now(m)' = Now(m) + 1
  <2>1. Pos(m)' = ((n + 1) % P) /\ Now(m)' = ((n + 1) \div P) + 1
    BY <1>3, <1>7
  <2>2. CASE AtEnd(m)
    BY ZenonT(60), <1>1, <1>2, <1>4, <2>1, <2>2, Position
  <2>3. CASE ~AtEnd(m)
    BY ZenonT(60), <1>1, <1>2, <1>4, <2>1, <2>3, Position
  <2> QED BY <2>2, <2>3
<1>8. ASSUME done'[m] = n, prog' = prog PROVE Pos(m)' = Pos(m) /\ Now(m)' = Now(m)
  BY <1>2, <1>3, <1>8
<1> QED BY <1>1, <1>4, <1>6, <1>7, <1>8 DEF n

\* A member that makes a call of its program is neither at the end nor at the
\* beginning of its step.
LEMMA InProgram ==
  ASSUME ExchangeAssumption, TypeOK, NEW m \in Members, NEW op, Is(m, op)
  PROVE  /\ Pos(m) \in 1 .. Len(prog["A"]) /\ ~AtEnd(m)
         /\ Call(m) = prog[m[2]][Pos(m)] /\ Call(m) \in Calls /\ Call(m).op = op
         /\ Call(m).field \in Fields /\ Call(m) = [op |-> op, field |-> Call(m).field]
         /\ Direction(m) \in Codes
         /\ op \in {"issend", "irecv"} => op = StartOp(m[2], Direction(m))
         /\ op \in {"wait_issend", "wait_irecv"} => op = WaitOp(m[2], Direction(m))
<1>1. prog \in Programs /\ m[2] \in Codes
  BY CodeTypes DEF TypeOK
<1>2. Pos(m) \in 1 .. Len(prog["A"]) /\ Call(m) = prog[m[2]][Pos(m)] /\ Call(m).op = op
  BY <1>1, ProgramType DEF Is, Call
<1>3. /\ Call(m) \in Calls /\ Call(m).field \in Fields
      /\ Call(m) = [op |-> op, field |-> Call(m).field]
  BY <1>1, <1>2, ProgramType
<1>4. ~AtEnd(m)
  BY <1>1, <1>2, Places, ProgramType
<1>5. Direction(m) \in Codes
  BY <1>1, CodeTypes DEF Direction
<1> QED BY <1>1, <1>2, <1>3, <1>4, <1>5, CodeTypes DEF Direction, StartOp, WaitOp

-----------------------------------------------------------------------------
(* The exchanges of a direction that a program starts, and their numbers. *)

\* The number of starts grows by one at a start and stays elsewhere.
LEMMA CountStep ==
  ASSUME NEW p, NEW a \in Codes, NEW d \in Codes
  PROVE  /\ Count(p, a, d, 0) = 0
         /\ \A n \in Nat :
              /\ Count(p, a, d, n) \in Nat
              /\ Count(p, a, d, n + 1) =
                   IF p[a][n + 1].op = StartOp(a, d) THEN Count(p, a, d, n) + 1
                                                     ELSE Count(p, a, d, n)
<1>1. StartsTo(p, a, d, 0) = {}
  BY DEF StartsTo
<1>2. Count(p, a, d, 0) = 0
  BY <1>1, FS_EmptySet DEF Count
<1>3. ASSUME NEW n \in Nat
      PROVE  IsFiniteSet(StartsTo(p, a, d, n)) /\ Count(p, a, d, n) \in Nat
  <2>1. IsFiniteSet(1 .. n)
    BY FS_Interval
  <2>2. StartsTo(p, a, d, n) \subseteq 1 .. n
    BY DEF StartsTo
  <2> QED BY <2>1, <2>2, FS_Subset, FS_CardinalityType DEF Count
<1>4. ASSUME NEW n \in Nat
      PROVE  Count(p, a, d, n + 1) =
               IF p[a][n + 1].op = StartOp(a, d) THEN Count(p, a, d, n) + 1
                                                 ELSE Count(p, a, d, n)
  <2>1. CASE p[a][n + 1].op = StartOp(a, d)
    <3>1. /\ StartsTo(p, a, d, n + 1) = StartsTo(p, a, d, n) \cup {n + 1}
          /\ n + 1 \notin StartsTo(p, a, d, n)
      BY <2>1 DEF StartsTo
    <3> QED BY <1>3, <2>1, <3>1, FS_AddElement DEF Count
  <2>2. CASE p[a][n + 1].op # StartOp(a, d)
    <3>1. StartsTo(p, a, d, n + 1) = StartsTo(p, a, d, n)
      BY <2>2 DEF StartsTo
    <3> QED BY <2>2, <3>1 DEF Count
  <2> QED BY <2>1, <2>2
<1> QED BY <1>2, <1>3, <1>4

\* It never falls.
LEMMA CountGrows ==
  ASSUME NEW p, NEW a \in Codes, NEW d \in Codes, NEW n \in Nat, NEW i \in 0 .. n
  PROVE  /\ Count(p, a, d, i) \in Nat /\ Count(p, a, d, n) \in Nat
         /\ Count(p, a, d, i) <= Count(p, a, d, n)
<1>1. StartsTo(p, a, d, i) \subseteq StartsTo(p, a, d, n) /\ StartsTo(p, a, d, n) \subseteq 1 .. n
  BY DEF StartsTo
<1>2. IsFiniteSet(1 .. n)
  BY FS_Interval
<1>3. IsFiniteSet(StartsTo(p, a, d, n))
  BY <1>1, <1>2, FS_Subset
<1>4. Cardinality(StartsTo(p, a, d, i)) <= Cardinality(StartsTo(p, a, d, n))
  BY <1>1, <1>3, FS_Subset
<1>5. i \in Nat
  OBVIOUS
<1>6. Count(p, a, d, i) \in Nat /\ Count(p, a, d, n) \in Nat
  BY <1>5, CountStep
<1> QED BY <1>4, <1>6 DEF Count

\* Two calls that start exchanges of a direction are not given one number.
LEMMA CountApart ==
  ASSUME NEW p, NEW a \in Codes, NEW d \in Codes, NEW n \in Nat,
         NEW i \in StartsTo(p, a, d, n)
  PROVE  /\ Count(p, a, d, i) \in 1 .. Count(p, a, d, n) /\ Count(p, a, d, n) \in Nat
         /\ i \in 1 .. n /\ p[a][i].op = StartOp(a, d)
         /\ \A j \in Nat : j < i => Count(p, a, d, j) < Count(p, a, d, i)
         /\ \A j \in StartsTo(p, a, d, n) :
              Count(p, a, d, i) = Count(p, a, d, j) => i = j
<1>1. \A k \in StartsTo(p, a, d, n) : k \in 1 .. n /\ p[a][k].op = StartOp(a, d)
  BY DEF StartsTo
<1>2. ASSUME NEW k \in StartsTo(p, a, d, n), NEW j \in Nat, j < k
      PROVE  Count(p, a, d, j) < Count(p, a, d, k)
  <2>1. PICK h \in Nat : k = h + 1 /\ j \in 0 .. h
    <3>1. k - 1 \in Nat /\ k = (k - 1) + 1 /\ j \in 0 .. k - 1
      BY <1>1, <1>2
    <3> QED BY <3>1
  <2>2. Count(p, a, d, k) = Count(p, a, d, h) + 1 /\ Count(p, a, d, h) \in Nat
    <3>1. p[a][h + 1].op = StartOp(a, d)
      BY <1>1, <2>1
    <3> QED BY <2>1, <3>1, CountStep
  <2>3. Count(p, a, d, j) <= Count(p, a, d, h) /\ Count(p, a, d, j) \in Nat
    BY <2>1, CountGrows
  <2> QED BY <2>2, <2>3
<1>3. Count(p, a, d, i) \in 1 .. Count(p, a, d, n) /\ Count(p, a, d, n) \in Nat
  <2>1. 0 \in Nat /\ 0 < i /\ i \in 0 .. n
    BY <1>1
  <2>2. Count(p, a, d, 0) < Count(p, a, d, i)
    BY <1>2, <2>1
  <2>3. /\ Count(p, a, d, i) \in Nat /\ Count(p, a, d, n) \in Nat
        /\ Count(p, a, d, i) <= Count(p, a, d, n)
    BY <2>1, CountGrows
  <2>4. Count(p, a, d, 0) = 0
    BY CountStep
  <2> QED BY <2>2, <2>3, <2>4
<1>4. ASSUME NEW j \in StartsTo(p, a, d, n), Count(p, a, d, i) = Count(p, a, d, j) PROVE i = j
  <2>1. ~(i < j) /\ ~(j < i)
    <3>1. \A k \in StartsTo(p, a, d, n) : Count(p, a, d, k) \in Nat /\ k \in Nat
      BY <1>1, CountStep
    <3> QED BY <1>2, <1>4, <3>1
  <2> QED BY <1>1, <2>1
<1> QED BY <1>1, <1>2, <1>3, <1>4

\* The n-th exchanges that the two codes start in a step are of one field.
LEMMA SameField ==
  ASSUME NEW p, SameOrder(p), Len(p["A"]) \in Nat,
         NEW a \in Codes, NEW b \in Codes, NEW d \in Codes
  PROVE  /\ Count(p, a, d, Len(p["A"])) = Count(p, b, d, Len(p["A"]))
         /\ \A i \in StartsTo(p, a, d, Len(p["A"])), j \in StartsTo(p, b, d, Len(p["A"])) :
              Count(p, a, d, i) = Count(p, b, d, j) => p[a][i].field = p[b][j].field
<1>1. CASE a = b
  BY <1>1, CountApart
<1>2. CASE a = "A" /\ b = "B"
  BY <1>2 DEF SameOrder
<1>3. CASE a = "B" /\ b = "A"
  BY <1>3 DEF SameOrder
<1> QED BY <1>1, <1>2, <1>3 DEF Codes

\* An exchange is numbered by its step and its number in the step.
LEMMA LaterNumber ==
  ASSUME NEW N \in Nat, NEW s \in Nat, NEW t \in Nat, NEW x \in 1 .. N, NEW y \in 1 .. N,
         s * N + x <= t * N + y
  PROVE  s <= t
<1> SUFFICES ASSUME t + 1 <= s PROVE FALSE
  OBVIOUS
<1>1. (t + 1) * N <= s * N
  OBVIOUS
<1>2. (t + 1) * N = t * N + N
  OBVIOUS
<1>3. s * N \in Nat /\ t * N \in Nat
  OBVIOUS
<1> QED BY <1>1, <1>2, <1>3

\* The number of an exchange tells its step and its place in the step.
LEMMA SameNumber ==
  ASSUME NEW N \in Nat, NEW s \in Nat, NEW t \in Nat, NEW x \in 1 .. N, NEW y \in 1 .. N,
         s * N + x = t * N + y
  PROVE  s = t /\ x = y
<1>1. s * N \in Nat /\ t * N \in Nat
  OBVIOUS
<1>2. s * N + x <= t * N + y /\ t * N + y <= s * N + x
  BY <1>1
<1>3. s <= t /\ t <= s
  BY <1>2, LaterNumber
<1>4. s = t
  BY <1>3
<1> QED BY <1>1, <1>4

-----------------------------------------------------------------------------
(* The shapes of the variables. *)

Entry == [field : Fields, step : Nat, data : Nat]

\* What starting an exchange adds to the log of the rank, and to its requests.
LEMMA StartEffect ==
  ASSUME ExchangeAssumption, TypeOK, NEW m \in Members, NEW op, Is(m, op), Start(m)
  PROVE  LET r == m[1]  c == Direction(m)  f == Call(m).field  n == Len(exch[c][r])
             e == [field |-> f, step |-> Now(m), data |-> IF r \in RanksOf[c] THEN Now(m) ELSE 0]
         IN /\ exch' \in [Codes -> [Ranks -> Seq(Entry)]]
            /\ request' \in [Codes -> [Ranks -> [Fields -> Nat]]]
            /\ n \in Nat /\ exch[c][r] \in Seq(Entry)
            /\ (r \in RanksOf[c] => Now(<<r, c>>) = Now(m)) =>
                 exch'[c][r] = Append(exch[c][r], e)
            /\ Len(exch'[c][r]) = n + 1
            /\ \A k \in 1 .. n : exch'[c][r][k] = exch[c][r][k]
            /\ \A d \in Codes, s \in Ranks : d # c \/ s # r =>
                 exch'[d][s] = exch[d][s] /\ request'[d][s] = request[d][s]
            /\ request'[c][r][f] = n + 1
            /\ \A g \in Fields : g # f => request'[c][r][g] = request[c][r][g]
<1> DEFINE r == m[1]  c == Direction(m)  f == Call(m).field  n == Len(exch[c][r])
           e == [field |-> f, step |-> Now(m),
                 data |-> IF r \in RanksOf[c] THEN Now(<<r, c>>) ELSE 0]
<1>1. r \in Ranks /\ c \in Codes /\ f \in Fields
  BY CodeTypes, InProgram
<1>2. /\ exch \in [Codes -> [Ranks -> Seq(Entry)]]
      /\ request \in [Codes -> [Ranks -> [Fields -> Nat]]]
  BY DEF TypeOK, Entry
<1>3. e \in Entry
  <2>1. Now(m) \in Nat
    BY Places
  <2>2. r \in RanksOf[c] => Now(<<r, c>>) \in Nat
    BY <1>1, CodeTypes, Places
  <2> QED BY <1>1, <2>1, <2>2 DEF Entry
<1>4. /\ exch' = [exch EXCEPT ![c][r] = Append(@, e)]
      /\ request' = [request EXCEPT ![c][r][f] = Len(exch'[c][r])]
  BY DEF Start
<1> HIDE DEF e
<1>5. exch[c][r] \in Seq(Entry) /\ n \in Nat
  BY <1>1, <1>2
<1>6. Append(exch[c][r], e) \in Seq(Entry)
  BY <1>3, <1>5
<1>7. /\ exch' \in [Codes -> [Ranks -> Seq(Entry)]]
      /\ exch'[c][r] = Append(exch[c][r], e)
      /\ \A d \in Codes, s \in Ranks : d # c \/ s # r => exch'[d][s] = exch[d][s]
  BY <1>1, <1>2, <1>4, <1>6
<1>8. Len(exch'[c][r]) = n + 1 /\ \A k \in 1 .. n : exch'[c][r][k] = exch[c][r][k]
  BY <1>3, <1>5, <1>7
<1>9. /\ request' \in [Codes -> [Ranks -> [Fields -> Nat]]]
      /\ request'[c][r][f] = n + 1
      /\ \A g \in Fields : g # f => request'[c][r][g] = request[c][r][g]
      /\ \A d \in Codes, s \in Ranks : d # c \/ s # r => request'[d][s] = request[d][s]
  <2>1. n + 1 \in Nat
    BY <1>5
  <2>2. request' = [request EXCEPT ![c][r][f] = n + 1]
    BY <1>4, <1>8
  <2> HIDE DEF n
  <2> QED BY <1>1, <1>2, <2>1, <2>2
<1> QED BY <1>5, <1>7, <1>8, <1>9 DEF e

\* What a wait brings to the members of the rank that receive.
LEMMA WaitEffect ==
  ASSUME ExchangeAssumption, TypeOK, NEW m \in Members, waitIssend_waitIrecv(m)
  PROVE  LET r == m[1]  c == Direction(m)  f == Call(m).field  k == request[c][r][f]
         IN /\ Is(m, "wait_issend") \/ Is(m, "wait_irecv")
            /\ r \in Ranks /\ c \in Codes /\ f \in Fields
            /\ k \in Nat /\ k > 0 /\ k <= Len(exch[c][r])
            /\ r \in RanksOf[Other[c]] => \A s \in RanksOf[c] : k \in 1 .. Len(exch[c][s])
            /\ \A x \in Members :
                 /\ x[1] = r /\ x[2] = Other[c] => target'[x] = [target[x] EXCEPT ![f] = Received(c, k)]
                 /\ x[1] # r \/ x[2] # Other[c] => target'[x] = target[x]
                 /\ sendYet'[x] = IF x[1] = r /\ x[2] = c THEN sendYet[x] \cup {f} ELSE sendYet[x]
                 /\ recvYet'[x] = IF x[1] = r /\ x[2] = Other[c] THEN recvYet[x] \cup {f}
                                                                  ELSE recvYet[x]
            /\ DOMAIN target' = Members
            /\ inside[r] = {m[2]} /\ inside' = [inside EXCEPT ![r] = {}]
            /\ Returned(m) /\ prog' = prog /\ exch' = exch /\ request' = request
            /\ refused' = refused
<1> DEFINE r == m[1]  c == Direction(m)  f == Call(m).field  k == request[c][r][f]
<1>1. Is(m, "wait_issend") \/ Is(m, "wait_irecv")
  BY DEF waitIssend_waitIrecv
<1>2. r \in Ranks /\ c \in Codes /\ f \in Fields
  BY <1>1, CodeTypes, InProgram
<1>3. k \in Nat /\ k > 0 /\ k <= Len(exch[c][r])
  BY <1>2 DEF waitIssend_waitIrecv, TypeOK
<1>4. r \in RanksOf[Other[c]] => \A s \in RanksOf[c] : k \in 1 .. Len(exch[c][s])
  <2>1. r \in RanksOf[Other[c]] => \A s \in RanksOf[c] : k <= Len(exch[c][s])
    BY DEF waitIssend_waitIrecv, Complete
  <2>2. \A s \in Ranks : Len(exch[c][s]) \in Nat
    BY <1>2 DEF TypeOK
  <2> QED BY <1>2, <1>3, <2>1, <2>2, CodeTypes
<1>5. \A x \in Members : /\ x \in Senders(m) <=> x[1] = r /\ x[2] = c
                         /\ x \in Receivers(m) <=> x[1] = r /\ x[2] = Other[c]
  BY DEF Senders, Receivers
<1>6. /\ target' = [x \in Members |-> IF x \in Receivers(m)
                       THEN [target[x] EXCEPT ![f] = Received(c, k)] ELSE target[x]]
      /\ sendYet' = [x \in Members |->
                        IF x \in Senders(m) THEN sendYet[x] \cup {f} ELSE sendYet[x]]
      /\ recvYet' = [x \in Members |->
                        IF x \in Receivers(m) THEN recvYet[x] \cup {f} ELSE recvYet[x]]
      /\ inside[r] = {m[2]} /\ inside' = [inside EXCEPT ![r] = {}] /\ Returned(m)
      /\ prog' = prog /\ exch' = exch /\ request' = request /\ refused' = refused
  BY DEF waitIssend_waitIrecv, lib
<1> HIDE DEF r, c, f, k
<1>7. /\ DOMAIN target' = Members
      /\ \A x \in Members :
           /\ x[1] = r /\ x[2] = Other[c] => target'[x] = [target[x] EXCEPT ![f] = Received(c, k)]
           /\ x[1] # r \/ x[2] # Other[c] => target'[x] = target[x]
           /\ sendYet'[x] = IF x[1] = r /\ x[2] = c THEN sendYet[x] \cup {f} ELSE sendYet[x]
           /\ recvYet'[x] = IF x[1] = r /\ x[2] = Other[c] THEN recvYet[x] \cup {f}
                                                            ELSE recvYet[x]
  BY <1>5, <1>6
<1> QED BY <1>1, <1>2, <1>3, <1>4, <1>6, <1>7 DEF r, c, f, k

\* The entries of a log are exchanges.
LEMMA InLog ==
  ASSUME NEW S, NEW log \in Seq(S), NEW k \in 1 .. Len(log)
  PROVE  log[k] \in S
OBVIOUS

\* Every step keeps the types.
LEMMA Types == ExchangeAssumption /\ TypeOK /\ [Next]_vars => TypeOK'
<1> SUFFICES ASSUME ExchangeAssumption, TypeOK, [Next]_vars PROVE TypeOK'
  OBVIOUS
<1> USE DEF flags, lib
<1>1. \A m \in Members : m[1] \in Ranks /\ m[2] \in Codes
  BY CodeTypes
<1>2. \A m \in Members : Returned(m) => done' \in [Members -> Nat]
  BY DEF Returned, TypeOK
<1>3. ASSUME NEW m \in Members, EnterBegin(m) PROVE TypeOK'
  BY ZenonT(60), <1>1, <1>3 DEF EnterBegin, TypeOK
<1>4. ASSUME NEW m \in Members, issend_irecv(m) PROVE TypeOK'
  <2>1. PICK op : Is(m, op)
    BY <1>4 DEF issend_irecv
  <2>2. CASE Refuses(m) /\ Refuse(m)
    <3>1. [member |-> m, call |-> Call(m), step |-> Now(m)] \in [member : Members, call : Calls, step : Nat]
      BY <2>1, InProgram, Places
    <3> QED BY <2>2, <3>1 DEF Refuse, TypeOK
  <2>3. CASE ~Refuses(m) /\ Start(m) /\ Returned(m) /\ UNCHANGED <<prog, eager, inside, flags, target, refused>>
    <3> DEFINE r == m[1]  c == Direction(m)  f == Call(m).field  n == Len(exch[c][r])
    <3>1. /\ exch' \in [Codes -> [Ranks -> Seq(Entry)]]
          /\ request' \in [Codes -> [Ranks -> [Fields -> Nat]]]
          /\ n \in Nat /\ Len(exch'[c][r]) = n + 1
          /\ \A d \in Codes, s \in Ranks : d # c \/ s # r =>
               exch'[d][s] = exch[d][s] /\ request'[d][s] = request[d][s]
          /\ request'[c][r][f] = n + 1
          /\ \A g \in Fields : g # f => request'[c][r][g] = request[c][r][g]
      BY <2>1, <2>3, StartEffect
    <3>2. r \in Ranks /\ c \in Codes /\ f \in Fields
      BY <1>1, <2>1, InProgram
    <3>3. \A d \in Codes, s \in Ranks, g \in Fields : request'[d][s][g] <= Len(exch'[d][s])
      <4> SUFFICES ASSUME NEW d \in Codes, NEW s \in Ranks, NEW g \in Fields
                   PROVE  request'[d][s][g] <= Len(exch'[d][s])
        OBVIOUS
      <4>1. request[d][s][g] <= Len(exch[d][s]) /\ request[d][s][g] \in Nat
        BY DEF TypeOK
      <4>2. CASE d # c \/ s # r
        BY <3>1, <4>1, <4>2
      <4>3. CASE d = c /\ s = r /\ g # f
        BY <3>1, <4>1, <4>3
      <4>4. CASE d = c /\ s = r /\ g = f
        BY <3>1, <4>4
      <4> QED BY <4>2, <4>3, <4>4
    <3> HIDE DEF r, c, f, n
    <3> QED BY <1>2, <2>3, <3>1, <3>3 DEF TypeOK, Entry
  <2>4. CASE ~Refuses(m) /\ UNCHANGED lib /\ Returned(m) /\ UNCHANGED <<prog, eager, inside, flags, target, refused>>
    BY <1>2, <2>4 DEF TypeOK
  <2> QED BY <1>4, <2>2, <2>3, <2>4 DEF issend_irecv
<1>5. ASSUME NEW m \in Members, EnterWait(m) PROVE TypeOK'
  BY <1>1, <1>5 DEF EnterWait, TypeOK
<1>6. ASSUME NEW m \in Members, SkipWait(m) PROVE TypeOK'
  BY <1>2, <1>6 DEF SkipWait, TypeOK
<1>7. ASSUME NEW m \in Members, waitIssend_waitIrecv(m) PROVE TypeOK'
  <2> DEFINE r == m[1]  c == Direction(m)  f == Call(m).field  k == request[c][r][f]
  <2>1. /\ r \in Ranks /\ c \in Codes /\ f \in Fields
        /\ r \in RanksOf[Other[c]] => \A s \in RanksOf[c] : k \in 1 .. Len(exch[c][s])
        /\ \A x \in Members :
             /\ x[1] = r /\ x[2] = Other[c] => target'[x] = [target[x] EXCEPT ![f] = Received(c, k)]
             /\ x[1] # r \/ x[2] # Other[c] => target'[x] = target[x]
        /\ DOMAIN target' = Members /\ Returned(m)
        /\ prog' = prog /\ exch' = exch /\ request' = request /\ refused' = refused
    BY ZenonT(60), <1>7, WaitEffect
  <2>2. /\ sendYet' \in [Members -> SUBSET Fields] /\ recvYet' \in [Members -> SUBSET Fields]
        /\ inside' \in [Ranks -> SUBSET Codes] /\ eager' = eager
    <3>1. /\ sendYet' = [x \in Members |->
                          IF x \in Senders(m) THEN sendYet[x] \cup {f} ELSE sendYet[x]]
          /\ recvYet' = [x \in Members |->
                          IF x \in Receivers(m) THEN recvYet[x] \cup {f} ELSE recvYet[x]]
          /\ inside' = [inside EXCEPT ![m[1]] = {}] /\ eager' = eager
      BY <1>7 DEF waitIssend_waitIrecv
    <3>2. f \in Fields /\ sendYet \in [Members -> SUBSET Fields]
          /\ recvYet \in [Members -> SUBSET Fields] /\ inside \in [Ranks -> SUBSET Codes]
      BY <2>1 DEF TypeOK
    <3> HIDE DEF f
    <3> QED BY <3>1, <3>2
  <2>3. ASSUME NEW x \in Members
        PROVE  target'[x] \in [Fields -> {<<>>} \cup [RanksOf[Other[x[2]]] -> [field : Fields, data : Nat]]]
    <3>1. target[x] \in [Fields -> {<<>>} \cup [RanksOf[Other[x[2]]] -> [field : Fields, data : Nat]]]
      BY DEF TypeOK
    <3>2. CASE x[1] # r \/ x[2] # Other[c]
      BY <2>1, <3>1, <3>2
    <3>3. CASE x[1] = r /\ x[2] = Other[c]
      <4>1. r \in RanksOf[Other[c]] /\ Other[x[2]] = c
        BY <2>1, <3>3, CodeTypes
      <4>2. \A s \in RanksOf[c] : exch[c][s][k] \in [field : Fields, step : Nat, data : Nat]
        <5>1. exch \in [Codes -> [Ranks -> Seq([field : Fields, step : Nat, data : Nat])]]
          BY DEF TypeOK
        <5> HIDE DEF r, c, f, k
        <5>2. ASSUME NEW s \in RanksOf[c]
              PROVE  exch[c][s][k] \in [field : Fields, step : Nat, data : Nat]
          <6>1. s \in Ranks
            BY <2>1, CodeTypes
          <6>2. exch[c][s] \in Seq([field : Fields, step : Nat, data : Nat])
            BY <2>1, <5>1, <6>1
          <6>3. k \in 1 .. Len(exch[c][s])
            BY <2>1, <4>1
          <6> QED BY <6>2, <6>3, InLog
        <5> QED BY <5>2
      <4>3. Received(c, k) \in [RanksOf[c] -> [field : Fields, data : Nat]]
        BY <4>2 DEF Received
      <4>4. target'[x] = [target[x] EXCEPT ![f] = Received(c, k)]
        BY <2>1, <3>3
      <4> HIDE DEF r, c, f, k
      <4> QED BY <2>1, <3>1, <4>1, <4>3, <4>4
    <3> QED BY <3>2, <3>3
  <2> HIDE DEF r, c, f, k
  <2> QED BY <1>2, <2>1, <2>2, <2>3 DEF TypeOK
<1>8. ASSUME NEW m \in Members, EnterEnd(m) PROVE TypeOK'
  BY <1>8, CodeTypes DEF EnterEnd, TypeOK
<1>11. ASSUME NEW c \in Codes, time_step_end(c) PROVE TypeOK'
  <2>1. done' \in [Members -> Nat] /\ inside' \in [Ranks -> SUBSET Codes]
    BY <1>11 DEF time_step_end, TypeOK
  <2>2. sendYet' \in [Members -> SUBSET Fields] /\ recvYet' \in [Members -> SUBSET Fields]
    BY <1>11 DEF time_step_end, ResetFlags, TypeOK
  <2> QED BY <1>11, <2>1, <2>2 DEF time_step_end, TypeOK
<1>9. ASSUME NEW c \in Codes, time_step_beg(c) PROVE TypeOK'
  <2>1. done' \in [Members -> Nat]
    BY <1>9 DEF time_step_beg, TypeOK
  <2>2. inside' \in [Ranks -> SUBSET Codes]
    BY <1>9 DEF time_step_beg, TypeOK
  <2> QED BY <1>9, <2>1, <2>2 DEF time_step_beg, TypeOK
<1>10. CASE UNCHANGED vars
  BY <1>10 DEF vars, TypeOK
<1> QED BY <1>3, <1>4, <1>5, <1>6, <1>7, <1>8, <1>9, <1>10, <1>11 DEF Next, Step

-----------------------------------------------------------------------------
(* The two codes of a joint rank take turns. *)

\* The calls of two members that are one call apart.
LEMMA Ahead ==
  ASSUME ExchangeAssumption, TypeOK, NEW x \in Members, NEW y \in Members
  PROVE  /\ done[y] = done[x] => Pos(y) = Pos(x) /\ Now(y) = Now(x)
         /\ done[y] = done[x] + 1 =>
              /\ ~AtEnd(x) => Pos(y) = Pos(x) + 1 /\ Now(y) = Now(x)
              /\ AtEnd(x)  => Pos(y) = 0 /\ Now(y) = Now(x) + 1
<1> DEFINE n == done[x]  P == Period
<1>1. n \in Nat /\ P \in Nat /\ P > 0
  BY ProgramType DEF TypeOK, Period
<1>2. /\ Pos(x) = (n % P) /\ Now(x) = (n \div P) + 1
      /\ Pos(y) = (done[y] % P) /\ Now(y) = (done[y] \div P) + 1
  BY Zenon DEF Pos, Now
<1>3. AtEnd(x) <=> Pos(x) = P - 1
  BY DEF AtEnd
<1> HIDE DEF P
<1>4. ASSUME done[y] = n + 1
      PROVE  /\ ~AtEnd(x) => Pos(y) = Pos(x) + 1 /\ Now(y) = Now(x)
             /\ AtEnd(x)  => Pos(y) = 0 /\ Now(y) = Now(x) + 1
  <2> HIDE DEF n
  <2>1. Pos(y) = ((n + 1) % P) /\ Now(y) = ((n + 1) \div P) + 1
    BY <1>2, <1>4
  <2>2. CASE AtEnd(x)
    BY <1>1, <1>2, <1>3, <2>1, <2>2, Position
  <2>3. CASE ~AtEnd(x)
    BY <1>1, <1>2, <1>3, <2>1, <2>3, Position
  <2> QED BY <2>2, <2>3
<1> QED BY <1>2, <1>4

\* A call that returns on a free rank, or at the end of a wait.
LEMMA ReturnTurns ==
  ASSUME ExchangeAssumption, TypeOK, TakeTurns, NEW m \in Members, Returned(m), prog' = prog,
         IsJoint(m) => done[m] <= done[Partner(m)],
         inside'[m[1]] = {}, \A r \in Ranks : r # m[1] => inside'[r] = inside[r]
  PROVE  TakeTurns'
<1>1. /\ done'[m] = done[m] + 1
      /\ \A x \in Members : done[x] \in Nat /\ (x # m => done'[x] = done[x])
  BY DEF Returned, TypeOK
<1>2. ASSUME NEW r \in Ranks, inside'[r] # {}
      PROVE  \E c \in Codes : /\ inside'[r] = {c} /\ <<r, c>> \in Members
                              /\ Pos(<<r, c>>)' = 0 \/ AtEnd(<<r, c>>)' \/ Works(<<r, c>>)
                              /\ IsJoint(<<r, c>>) => done'[<<r, c>>] <= done'[<<r, Other[c]>>]
  <2>1. r # m[1] /\ inside'[r] = inside[r]
    BY <1>2
  <2>2. PICK c \in Codes : /\ inside[r] = {c} /\ <<r, c>> \in Members
                           /\ Pos(<<r, c>>) = 0 \/ AtEnd(<<r, c>>) \/ Works(<<r, c>>)
                           /\ IsJoint(<<r, c>>) => done[<<r, c>>] <= done[<<r, Other[c]>>]
    BY <1>2, <2>1 DEF TakeTurns
  <2>3. <<r, c>> # m /\ <<r, Other[c]>> # m
    BY <2>1
  <2>4. /\ done'[<<r, c>>] = done[<<r, c>>] /\ Pos(<<r, c>>)' = Pos(<<r, c>>)
        /\ AtEnd(<<r, c>>)' = AtEnd(<<r, c>>)
    BY <1>1, <2>2, <2>3, Places DEF AtEnd, Period
  <2>5. IsJoint(<<r, c>>) => <<r, Other[c]>> \in Members
    BY <2>2, OneWorker DEF Partner
  <2> QED BY <1>1, <2>1, <2>2, <2>3, <2>4, <2>5
<1>3. ASSUME NEW x \in Members, IsJoint(x) PROVE done'[x] <= done'[Partner(x)] + 1
  <2>1. Partner(x) \in Members /\ Partner(x) # x /\ done[x] <= done[Partner(x)] + 1
    BY <1>3, OneWorker DEF TakeTurns
  <2>2. CASE x = m
    BY <1>1, <1>3, <2>1, <2>2
  <2>3. CASE x # m
    BY <1>1, <2>1, <2>3
  <2> QED BY <2>2, <2>3
<1> QED BY <1>2, <1>3 DEF TakeTurns, Works, IsJoint, Partner

\* Every step keeps the turns of the two members of a joint rank.
LEMMA Turns == ExchangeAssumption /\ TypeOK /\ TakeTurns /\ [Next]_vars => TakeTurns'
<1> SUFFICES ASSUME ExchangeAssumption, TypeOK, TakeTurns, [Next]_vars PROVE TakeTurns'
  OBVIOUS
<1>0. \A m \in Members : m[1] \in Ranks /\ m[2] \in Codes /\ m = <<m[1], m[2]>>
  BY CodeTypes
<1>1. inside \in [Ranks -> SUBSET Codes] /\ \A m \in Members : done[m] \in Nat
  BY DEF TypeOK
<1>2. ASSUME NEW m \in Members, Free(m), Pos(m) = 0 \/ AtEnd(m) \/ Works(m), prog' = prog, done' = done,
             inside' = [inside EXCEPT ![m[1]] = {m[2]}]
      PROVE  TakeTurns'
  <2>1. \A x \in Members : Pos(x)' = Pos(x) /\ AtEnd(x)' = AtEnd(x)
    BY <1>2 DEF Pos, AtEnd, Period
  <2>2. ASSUME NEW r \in Ranks, inside'[r] # {}
        PROVE  \E c \in Codes : /\ inside'[r] = {c} /\ <<r, c>> \in Members
                                /\ Pos(<<r, c>>)' = 0 \/ AtEnd(<<r, c>>)' \/ Works(<<r, c>>)
                                /\ IsJoint(<<r, c>>) => done'[<<r, c>>] <= done'[<<r, Other[c]>>]
    <3>1. CASE r = m[1]
      BY <1>0, <1>1, <1>2, <2>1, <3>1 DEF Free, Partner
    <3>2. CASE r # m[1]
      <4>1. inside'[r] = inside[r] /\ done' = done
        BY <1>0, <1>1, <1>2, <3>2
      <4>2. PICK c \in Codes : /\ inside[r] = {c} /\ <<r, c>> \in Members
                               /\ Pos(<<r, c>>) = 0 \/ AtEnd(<<r, c>>) \/ Works(<<r, c>>)
                               /\ IsJoint(<<r, c>>) => done[<<r, c>>] <= done[<<r, Other[c]>>]
        BY <2>2, <4>1 DEF TakeTurns
      <4> QED BY <2>1, <4>1, <4>2
    <3> QED BY <3>1, <3>2
  <2>3. \A x \in Members : IsJoint(x) => done'[x] <= done'[Partner(x)] + 1
    BY <1>2 DEF TakeTurns
  <2> QED BY <2>2, <2>3 DEF TakeTurns, Works, IsJoint, Partner
<1>3. ASSUME NEW m \in Members, EnterBegin(m) PROVE TakeTurns'
  BY <1>2, <1>3 DEF EnterBegin
<1>4. ASSUME NEW m \in Members, EnterWait(m) PROVE TakeTurns'
  BY <1>2, <1>4 DEF EnterWait
<1>5. ASSUME NEW m \in Members, Free(m), Returned(m), prog' = prog, inside' = inside
      PROVE  TakeTurns'
  <2>1. inside'[m[1]] = {} /\ (IsJoint(m) => done[m] <= done[Partner(m)])
    BY <1>5 DEF Free
  <2> QED BY <1>5, <2>1, ReturnTurns
<1>6. ASSUME prog' = prog, done' = done, inside' = inside PROVE TakeTurns'
  <2>1. \A x \in Members : Pos(x)' = Pos(x) /\ AtEnd(x)' = AtEnd(x)
    BY <1>6 DEF Pos, AtEnd, Period
  <2> QED BY <1>6, <2>1 DEF TakeTurns, Works, IsJoint, Partner
<1>7. ASSUME NEW m \in Members, issend_irecv(m) PROVE TakeTurns'
  BY <1>5, <1>6, <1>7 DEF issend_irecv, Refuse
<1>8. ASSUME NEW m \in Members, SkipWait(m) PROVE TakeTurns'
  BY <1>5, <1>8 DEF SkipWait
<1>9. ASSUME NEW m \in Members, waitIssend_waitIrecv(m) PROVE TakeTurns'
  <2>1. inside[m[1]] = {m[2]} /\ inside' = [inside EXCEPT ![m[1]] = {}] /\ Returned(m) /\ prog' = prog
    BY <1>9 DEF waitIssend_waitIrecv
  <2>2. PICK c \in Codes : /\ inside[m[1]] = {c}
                           /\ IsJoint(<<m[1], c>>) => done[<<m[1], c>>] <= done[<<m[1], Other[c]>>]
    BY <1>0, <2>1 DEF TakeTurns
  <2>3. c = m[2]
    BY <2>1, <2>2
  <2>4. IsJoint(m) => done[m] <= done[Partner(m)]
    BY <1>0, <2>2, <2>3 DEF Partner
  <2>5. inside'[m[1]] = {} /\ \A r \in Ranks : r # m[1] => inside'[r] = inside[r]
    BY <1>0, <1>1, <2>1
  <2> QED BY <2>1, <2>4, <2>5, ReturnTurns
<1>10. ASSUME NEW m \in Members, EnterEnd(m) PROVE TakeTurns'
  BY <1>2, <1>10 DEF EnterEnd
<1>11. ASSUME NEW c \in Codes, time_step_beg(c) \/ time_step_end(c) PROVE TakeTurns'
  <2>1. /\ \A r \in RanksOf[c] : inside[r] = {c}
        /\ prog' = prog
        /\ \A r \in Ranks : inside'[r] = IF r \in RanksOf[c] THEN {} ELSE inside[r]
        /\ \A m \in Members : done'[m] = IF m[2] = c THEN done[m] + 1 ELSE done[m]
    BY <1>11 DEF time_step_beg, time_step_end
  <2>2. ASSUME NEW r \in Ranks, inside'[r] # {}
        PROVE  \E b \in Codes : /\ inside'[r] = {b} /\ <<r, b>> \in Members
                                /\ Pos(<<r, b>>)' = 0 \/ AtEnd(<<r, b>>)' \/ Works(<<r, b>>)
                                /\ IsJoint(<<r, b>>) => done'[<<r, b>>] <= done'[<<r, Other[b]>>]
    <3>1. r \notin RanksOf[c] /\ inside'[r] = inside[r]
      BY <2>1, <2>2
    <3>2. PICK b \in Codes : /\ inside[r] = {b} /\ <<r, b>> \in Members
                             /\ Pos(<<r, b>>) = 0 \/ AtEnd(<<r, b>>) \/ Works(<<r, b>>)
                             /\ IsJoint(<<r, b>>) => done[<<r, b>>] <= done[<<r, Other[b]>>]
      BY <2>2, <3>1 DEF TakeTurns
    <3>3. b # c /\ ~IsJoint(<<r, b>>)
      BY <3>1, <3>2, CodeTypes DEF IsJoint, Codes
    <3>4. done'[<<r, b>>] = done[<<r, b>>]
      BY <2>1, <3>2, <3>3
    <3>5. Pos(<<r, b>>)' = Pos(<<r, b>>) /\ AtEnd(<<r, b>>)' = AtEnd(<<r, b>>)
      BY <2>1, <3>2, <3>4, Places DEF AtEnd, Period
    <3> QED BY <3>1, <3>2, <3>3, <3>5
  <2>3. ASSUME NEW x \in Members, IsJoint(x) PROVE done'[x] <= done'[Partner(x)] + 1
    <3>1. Partner(x) \in Members /\ done[x] <= done[Partner(x)] + 1
      BY <2>3, OneWorker DEF TakeTurns
    <3>2. CASE x[2] = c
      <4>1. inside[x[1]] = {c} /\ x[1] \in Ranks /\ x = <<x[1], c>>
        BY <1>0, <2>1, <3>2, CodeTypes
      <4>2. PICK b \in Codes : /\ inside[x[1]] = {b}
                               /\ IsJoint(<<x[1], b>>) => done[<<x[1], b>>] <= done[<<x[1], Other[b]>>]
        BY <4>1 DEF TakeTurns
      <4>3. done[x] <= done[Partner(x)]
        BY <2>3, <4>1, <4>2 DEF Partner
      <4>4. Partner(x)[2] # c
        BY <3>2, CodeTypes DEF Partner
      <4> QED BY <1>1, <2>1, <3>1, <3>2, <4>3, <4>4
    <3>3. CASE x[2] # c
      BY <1>1, <2>1, <3>1, <3>3
    <3> QED BY <3>2, <3>3
  <2> QED BY <2>2, <2>3 DEF TakeTurns, Works, IsJoint, Partner
<1>12. CASE UNCHANGED vars
  BY <1>6, <1>12 DEF vars
<1> QED BY <1>3, <1>4, <1>7, <1>8, <1>9, <1>10, <1>11, <1>12 DEF Next, Step

-----------------------------------------------------------------------------
(* What a step leaves of the history of a rank.  A step moves the member on *)
(* to the next call, to the next step, or not at all.                      *)

Stays(m)    == Pos(m)' = Pos(m) /\ Now(m)' = Now(m)
Enters(m)   == Pos(m) = 0 /\ Pos(m)' = 1 /\ Now(m)' = Now(m)
MovesOn(m)  == Pos(m) \in 1 .. Len(prog["A"]) /\ Pos(m)' = Pos(m) + 1 /\ Now(m)' = Now(m)
Finishes(m) == AtEnd(m) /\ Pos(m)' = 0 /\ Now(m)' = Now(m) + 1

LibSame(m) == \A d \in Codes : exch'[d][m[1]] = exch[d][m[1]] /\ request'[d][m[1]] = request[d][m[1]]

StartsNot(m) == prog[m[2]][Pos(m)].op \notin {"issend", "irecv"}

\* The primed forms of the operators of the program.
LEMMA SameProgram ==
  ASSUME prog' = prog, NEW m \in Members, NEW d \in Codes
  PROVE  /\ PerStep(m, d)' = PerStep(m, d)
         /\ PerStep(m, d) = Count(prog, m[2], d, Len(prog["A"]))
         /\ \A n \in Nat : Count(prog, m[2], d, n)' = Count(prog, m[2], d, n)
         /\ StartsTo(prog, m[2], d, Len(prog["A"]))' = StartsTo(prog, m[2], d, Len(prog["A"]))
BY DEF PerStep, Count, StartsTo

\* The calls that are over, before and after.
LEMMA OverToStep ==
  ASSUME ExchangeAssumption, TypeOK, NEW m \in Members, prog' = prog
  PROVE  /\ OverTo(m) \in 0 .. Len(prog["A"]) /\ Len(prog["A"]) \in Nat
         /\ Stays(m) \/ Enters(m) => OverTo(m)' = OverTo(m) /\ Now(m)' = Now(m)
         /\ MovesOn(m) => /\ OverTo(m) + 1 = Pos(m) /\ OverTo(m)' = Pos(m) /\ Now(m)' = Now(m)
         /\ Finishes(m) => /\ OverTo(m) = Len(prog["A"]) /\ OverTo(m)' = 0
                           /\ Now(m)' = Now(m) + 1
<1>1. Len(prog["A"]) \in Nat
  BY ProgramType DEF TypeOK
<1>2. Pos(m) \in 0 .. Len(prog["A"]) + 1 /\ (AtEnd(m) <=> Pos(m) = Len(prog["A"]) + 1)
  BY Places
<1>3. OverTo(m) = IF Pos(m) = 0 THEN 0 ELSE Pos(m) - 1
  BY DEF OverTo
<1>4. OverTo(m)' = IF Pos(m)' = 0 THEN 0 ELSE Pos(m)' - 1
  BY DEF OverTo
<1> QED BY <1>1, <1>2, <1>3, <1>4 DEF Stays, Enters, MovesOn, Finishes

\* Nothing is started.
LEMMA CountedKept ==
  ASSUME ExchangeAssumption, TypeOK, NEW m \in Members, prog' = prog, LibSame(m), Counted(m),
         Stays(m) \/ Enters(m) \/ (MovesOn(m) /\ StartsNot(m)) \/ Finishes(m)
  PROVE  Counted(m)'
<1> SUFFICES ASSUME NEW d \in Codes
             PROVE  Len(exch'[d][m[1]]) =
                      (Now(m)' - 1) * PerStep(m, d)' + Count(prog, m[2], d, OverTo(m))'
  BY DEF Counted
<1>1. Len(exch[d][m[1]]) = (Now(m) - 1) * PerStep(m, d) + Count(prog, m[2], d, OverTo(m))
  BY DEF Counted
<1>2. exch'[d][m[1]] = exch[d][m[1]]
  BY DEF LibSame
<1>3. Count(prog, m[2], d, OverTo(m))' = Count(prog, m[2], d, OverTo(m)')
  BY DEF Count, StartsTo
<1>4. m[2] \in Codes /\ Now(m) \in Nat \ {0} /\ Len(prog["A"]) \in Nat
  BY CodeTypes, Places, OverToStep
<1>5. CASE Stays(m) \/ Enters(m)
  BY <1>1, <1>2, <1>3, <1>5, OverToStep, SameProgram
<1>6. CASE MovesOn(m) /\ StartsNot(m)
  <2>1. OverTo(m) + 1 = Pos(m) /\ OverTo(m)' = Pos(m) /\ Now(m)' = Now(m) /\ OverTo(m) \in Nat
    BY <1>4, <1>6, OverToStep
  <2>2. prog[m[2]][OverTo(m) + 1].op # StartOp(m[2], d)
    BY <1>6, <2>1 DEF StartsNot, StartOp
  <2>3. Count(prog, m[2], d, OverTo(m) + 1) = Count(prog, m[2], d, OverTo(m))
    BY <1>4, <2>1, <2>2, CountStep
  <2> QED BY <1>1, <1>2, <1>3, <2>1, <2>3, SameProgram
<1>7. CASE Finishes(m)
  <2> DEFINE N == PerStep(m, d)  w == Now(m)
  <2>1. OverTo(m) = Len(prog["A"]) /\ OverTo(m)' = 0 /\ Now(m)' = w + 1
    BY <1>7, OverToStep
  <2>2. N = Count(prog, m[2], d, Len(prog["A"])) /\ N \in Nat /\ PerStep(m, d)' = N
    <3>1. Count(prog, m[2], d, Len(prog["A"])) \in Nat
      BY <1>4, CountStep
    <3> QED BY <3>1, SameProgram
  <2>3. Count(prog, m[2], d, 0) = 0
    BY <1>4, CountStep
  <2>4. Len(exch[d][m[1]]) = (w - 1) * N + N
    BY <1>1, <2>1, <2>2
  <2>5. Count(prog, m[2], d, OverTo(m))' = 0
    BY <1>3, <2>1, <2>3
  <2> HIDE DEF N, w
  <2>6. (w - 1) * N + N = w * N
    BY <1>4, <2>2 DEF w
  <2>7. (w + 1) - 1 = w /\ w * N \in Nat
    BY <1>4, <2>2 DEF w
  <2> QED BY <1>2, <2>1, <2>2, <2>4, <2>5, <2>6, <2>7
<1> QED BY <1>5, <1>6, <1>7

\* A member that starts no exchange keeps its part of the log, ...
LEMMA LoggedKept ==
  ASSUME ExchangeAssumption, TypeOK, NEW m \in Members, prog' = prog, LibSame(m), Logged(m),
         Stays(m) \/ Enters(m) \/ MovesOn(m) \/ Finishes(m)
  PROVE  Logged(m)'
<1>1. /\ OverTo(m) \in 0 .. Len(prog["A"]) /\ Len(prog["A"]) \in Nat /\ Now(m) \in Nat \ {0}
      /\ \/ OverTo(m)' \in Nat /\ OverTo(m) <= OverTo(m)' /\ Now(m)' = Now(m)
         \/ Now(m)' = Now(m) + 1
  BY OverToStep, Places DEF MovesOn
<1> SUFFICES ASSUME NEW d \in Codes, NEW k \in 1 .. Len(exch[d][m[1]])
             PROVE  \E i \in StartsTo(prog, m[2], d, Len(prog["A"])), st \in 1 .. Now(m)' :
                      Logs(m, d, k, i, st)'
  BY SameProgram DEF Logged, LibSame
<1>2. PICK i \in StartsTo(prog, m[2], d, Len(prog["A"])), st \in 1 .. Now(m) : Logs(m, d, k, i, st)
  BY DEF Logged
<1>3. i \in 1 .. Len(prog["A"])
  BY DEF StartsTo
<1>4. Logs(m, d, k, i, st)'
  <2>1. k = (st - 1) * PerStep(m, d)' + Count(prog, m[2], d, i)'
    BY <1>2, <1>3, SameProgram DEF Logs
  <2>2. st < Now(m)' \/ (st = Now(m)' /\ i <= OverTo(m)')
    BY <1>1, <1>2, <1>3 DEF Logs
  <2>3. exch'[d][m[1]][k] = [field |-> prog[m[2]][i].field, step |-> st,
                             data |-> IF m[1] \in RanksOf[d] THEN st ELSE 0]
    BY <1>2 DEF Logs, LibSame
  <2> QED BY <2>1, <2>2, <2>3 DEF Logs
<1>5. st \in 1 .. Now(m)'
  BY <1>1
<1> QED BY <1>2, <1>4, <1>5

\* ... the last request of every field, ...
LEMMA LastRequestKept ==
  ASSUME NEW m \in Members, LibSame(m), LastRequest(m)
  PROVE  LastRequest(m)'
<1>1. ASSUME NEW d \in Codes, NEW f \in Fields
      PROVE  /\ request[d][m[1]][f] # 0 => exch[d][m[1]][request[d][m[1]][f]].field = f
             /\ \A k \in 1 .. Len(exch[d][m[1]]) :
                  exch[d][m[1]][k].field = f => k <= request[d][m[1]][f]
  BY DEF LastRequest
<1>2. \A d \in Codes : exch'[d][m[1]] = exch[d][m[1]] /\ request'[d][m[1]] = request[d][m[1]]
  BY DEF LibSame
<1>3. ASSUME NEW d \in Codes, NEW f \in Fields
      PROVE  /\ request'[d][m[1]][f] # 0 => exch'[d][m[1]][request'[d][m[1]][f]].field = f
             /\ \A k \in 1 .. Len(exch'[d][m[1]]) :
                  exch'[d][m[1]][k].field = f => k <= request'[d][m[1]][f]
  <2>1. exch'[d][m[1]] = exch[d][m[1]] /\ request'[d][m[1]] = request[d][m[1]]
    BY <1>2
  <2>2. request'[d][m[1]][f] # 0 => exch'[d][m[1]][request'[d][m[1]][f]].field = f
    BY SMTT(30), <1>1, <2>1
  <2>3. \A k \in 1 .. Len(exch'[d][m[1]]) :
          exch'[d][m[1]][k].field = f => k <= request'[d][m[1]][f]
    BY <1>1, <2>1
  <2> QED BY <2>2, <2>3
<1> QED BY <1>3 DEF LastRequest

\* ... the absence of repeats so far, ...
LEMMA NoRepeatKept ==
  ASSUME ExchangeAssumption, TypeOK, NEW m \in Members, prog' = prog, NoRepeat(m),
         Stays(m) \/ Enters(m) \/ (MovesOn(m) /\ StartsNot(m)) \/ Finishes(m)
  PROVE  NoRepeat(m)'
<1> SUFFICES ASSUME NEW i \in DOMAIN prog[m[2]], NEW j \in DOMAIN prog[m[2]],
                    i < j, prog[m[2]][i] = prog[m[2]][j], j <= OverTo(m)' \/ Now(m)' > 1
             PROVE  prog[m[2]][i].op \notin {"issend", "irecv"}
  BY DEF NoRepeat
<1>1. DOMAIN prog[m[2]] = 1 .. Len(prog["A"])
  <2>1. prog \in Programs /\ m[2] \in Codes
    BY CodeTypes DEF TypeOK
  <2> QED BY <2>1, ProgramType
<1>2. OverTo(m) \in 0 .. Len(prog["A"]) /\ Len(prog["A"]) \in Nat /\ Now(m) \in Nat \ {0}
  BY OverToStep, Places
<1>3. CASE j <= OverTo(m) \/ Now(m) > 1
  BY <1>3 DEF NoRepeat
<1>4. CASE MovesOn(m) /\ StartsNot(m) /\ j = Pos(m)
  BY <1>4 DEF StartsNot
<1>5. Stays(m) \/ Enters(m) => j <= OverTo(m) \/ Now(m) > 1
  BY OverToStep
<1>6. MovesOn(m) => j <= OverTo(m) \/ Now(m) > 1 \/ j = Pos(m)
  <2>1. MovesOn(m) => OverTo(m) + 1 = Pos(m) /\ OverTo(m)' = Pos(m) /\ Now(m)' = Now(m)
    BY OverToStep
  <2>2. j \in Nat
    BY <1>1
  <2> QED BY <1>2, <2>1, <2>2
<1>7. Finishes(m) => j <= OverTo(m)
  BY <1>1, <1>2, OverToStep
<1> QED BY <1>3, <1>4, <1>5, <1>6, <1>7

\* No wait is over but the one of the step.
LEMMA OverStep ==
  ASSUME ExchangeAssumption, TypeOK, NEW m \in Members, prog' = prog, NEW op, NEW f
  PROVE  /\ Stays(m) => (Over(m, op, f)' <=> Over(m, op, f))
         /\ Enters(m) => (Over(m, op, f)' <=> Over(m, op, f))
         /\ MovesOn(m) => (Over(m, op, f)' <=>
              Over(m, op, f) \/ prog[m[2]][Pos(m)] = [op |-> op, field |-> f])
         /\ Finishes(m) => ~Over(m, op, f)'
<1>1. Pos(m) \in 0 .. Len(prog["A"]) + 1 /\ Len(prog["A"]) \in Nat
  BY Places, OverToStep
<1>2. Over(m, op, f) <=> \E i \in 1 .. Pos(m) - 1 : prog[m[2]][i] = [op |-> op, field |-> f]
  BY DEF Over
<1>3. Over(m, op, f)' <=> \E i \in 1 .. Pos(m)' - 1 : prog[m[2]][i] = [op |-> op, field |-> f]
  BY DEF Over
<1>4. Enters(m) => 1 .. Pos(m) - 1 = {} /\ 1 .. Pos(m)' - 1 = {}
  BY DEF Enters
<1>5. Finishes(m) => 1 .. Pos(m)' - 1 = {}
  BY DEF Finishes
<1>6. MovesOn(m) => 1 .. Pos(m)' - 1 = (1 .. Pos(m) - 1) \cup {Pos(m)}
  BY <1>1 DEF MovesOn
<1> QED BY <1>2, <1>3, <1>4, <1>5, <1>6 DEF Stays

\* ... the flags of the exchanges it has not waited for, ...
LEMMA FlagsKept ==
  ASSUME ExchangeAssumption, TypeOK, NEW m \in Members, prog' = prog, FlagsOver(m),
         \/ /\ sendYet'[m] = sendYet[m] /\ recvYet'[m] = recvYet[m]
            /\ \/ Stays(m) \/ Enters(m)
               \/ MovesOn(m) /\ prog[m[2]][Pos(m)].op \notin {"wait_issend", "wait_irecv"}
         \/ sendYet'[m] = {} /\ recvYet'[m] = {} /\ Finishes(m)
  PROVE  FlagsOver(m)'
<1> SUFFICES ASSUME NEW f \in Fields
             PROVE  /\ f \in sendYet'[m] <=> Over(m, "wait_issend", f)'
                    /\ f \in recvYet'[m] <=> Over(m, "wait_irecv", f)'
  BY DEF FlagsOver
<1>1. /\ f \in sendYet[m] <=> Over(m, "wait_issend", f)
      /\ f \in recvYet[m] <=> Over(m, "wait_irecv", f)
  BY DEF FlagsOver
<1>2. ASSUME NEW op \in {"wait_issend", "wait_irecv"},
             Stays(m) \/ Enters(m)
             \/ (MovesOn(m) /\ prog[m[2]][Pos(m)].op \notin {"wait_issend", "wait_irecv"})
      PROVE  Over(m, op, f)' <=> Over(m, op, f)
  <2>1. prog[m[2]][Pos(m)] = [op |-> op, field |-> f] => prog[m[2]][Pos(m)].op = op
    OBVIOUS
  <2> QED BY <1>2, <2>1, OverStep
<1>3. ASSUME NEW op, Finishes(m) PROVE ~Over(m, op, f)'
  BY <1>3, OverStep
<1> QED BY <1>1, <1>2, <1>3

\* ... and what has been brought to its fields.
LEMMA BroughtKept ==
  ASSUME ExchangeAssumption, TypeOK, NEW m \in Members, prog' = prog, Brought(m),
         \A x \in Members : x[1] = m[1] => target'[x] = target[x],
         \/ Stays(m) \/ Enters(m) \/ Finishes(m)
         \/ MovesOn(m) /\ prog[m[2]][Pos(m)].op \notin {"wait_issend", "wait_irecv"}
  PROVE  Brought(m)'
<1> SUFFICES ASSUME NEW x \in Members, NEW f \in Fields, x[1] = m[1], LastStep(m)' > 0,
                    NEW i \in 1 .. LastTo(m)',
                    prog[m[2]][i] = [op |-> WaitOp(m[2], Other[x[2]]), field |-> f]
             PROVE  target'[x][f] =
                      [s \in RanksOf[Other[x[2]]] |-> [field |-> f, data |-> LastStep(m)']]
  BY DEF Brought
<1>1. Len(prog["A"]) \in Nat /\ Pos(m) \in 0 .. Len(prog["A"]) + 1 /\ Now(m) \in Nat \ {0}
      /\ (AtEnd(m) <=> Pos(m) = Len(prog["A"]) + 1)
  BY Places, OverToStep
<1>2. /\ LastTo(m) = IF Pos(m) = 0 THEN Len(prog["A"]) ELSE Pos(m) - 1
      /\ LastTo(m)' = IF Pos(m)' = 0 THEN Len(prog["A"]) ELSE Pos(m)' - 1
      /\ LastStep(m) = IF Pos(m) = 0 THEN Now(m) - 1 ELSE Now(m)
      /\ LastStep(m)' = IF Pos(m)' = 0 THEN Now(m)' - 1 ELSE Now(m)'
  BY DEF LastTo, LastStep
<1>3. prog[m[2]][i].op \in {"wait_issend", "wait_irecv"}
  BY DEF WaitOp
<1>4. LastStep(m)' = LastStep(m) /\ i \in 1 .. LastTo(m)
  <2>1. CASE Stays(m)
    BY <1>2, <2>1 DEF Stays
  <2>2. CASE Enters(m)
    <3>1. LastTo(m)' = 0
      BY <1>2, <2>2 DEF Enters
    <3> QED BY <3>1
  <2>3. CASE Finishes(m)
    BY <1>1, <1>2, <2>3 DEF Finishes
  <2>4. CASE MovesOn(m) /\ prog[m[2]][Pos(m)].op \notin {"wait_issend", "wait_irecv"}
    <3>1. i # Pos(m)
      BY <1>3, <2>4
    <3> QED BY <1>1, <1>2, <2>4, <3>1 DEF MovesOn
  <2> QED BY <2>1, <2>2, <2>3, <2>4
<1>5. target[x][f] = [s \in RanksOf[Other[x[2]]] |-> [field |-> f, data |-> LastStep(m)]]
  BY <1>4 DEF Brought
<1>6. target'[x] = target[x]
  OBVIOUS
<1> QED BY <1>4, <1>5, <1>6

-----------------------------------------------------------------------------
(* What the logs of two ranks say of one exchange. *)

\* What the k-th entry of a log is.
LEMMA LogEntry ==
  ASSUME ExchangeAssumption, TypeOK, NEW m \in Members, Logged(m), NEW d \in Codes,
         NEW k \in 1 .. Len(exch[d][m[1]])
  PROVE  LET e == exch[d][m[1]][k]  N == PerStep(m, d)
         IN /\ e.step \in 1 .. Now(m) /\ N \in Nat
            /\ m[1] \in RanksOf[d] => e.data = e.step
            /\ \E i \in StartsTo(prog, m[2], d, Len(prog["A"])) :
                 /\ e.field = prog[m[2]][i].field
                 /\ Count(prog, m[2], d, i) \in 1 .. N
                 /\ k = (e.step - 1) * N + Count(prog, m[2], d, i)
                 /\ e.step = Now(m) => i <= OverTo(m)
<1> DEFINE e == exch[d][m[1]][k]  N == PerStep(m, d)
<1>1. PICK i \in StartsTo(prog, m[2], d, Len(prog["A"])), st \in 1 .. Now(m) : Logs(m, d, k, i, st)
  BY DEF Logged
<1>2. e.step = st /\ e.field = prog[m[2]][i].field /\ (m[1] \in RanksOf[d] => e.data = st)
  BY <1>1 DEF Logs
<1>3. k = (st - 1) * N + Count(prog, m[2], d, i) /\ (st = Now(m) => i <= OverTo(m))
  <2>1. Now(m) \in Nat
    BY Places
  <2> QED BY <1>1, <2>1 DEF Logs
<1>4. Count(prog, m[2], d, i) \in 1 .. N /\ N \in Nat
  <2>1. Len(prog["A"]) \in Nat /\ m[2] \in Codes
    BY ProgramType, CodeTypes DEF TypeOK
  <2> QED BY <2>1, CountApart DEF PerStep
<1> HIDE DEF e, N
<1>5. st \in 1 .. Now(m)
  OBVIOUS
<1>6. /\ e.step \in 1 .. Now(m) /\ N \in Nat /\ (m[1] \in RanksOf[d] => e.data = e.step)
  BY <1>2, <1>4, <1>5
<1>7. /\ e.field = prog[m[2]][i].field
      /\ Count(prog, m[2], d, i) \in 1 .. N
      /\ k = (e.step - 1) * N + Count(prog, m[2], d, i)
      /\ e.step = Now(m) => i <= OverTo(m)
  BY <1>2, <1>3, <1>4
<1> QED BY <1>6, <1>7 DEF e, N

\* The k-th exchange is of one step and of one field on every rank.
LEMMA OneExchange ==
  ASSUME ExchangeAssumption, Disciplined, TypeOK, NEW x \in Members, NEW y \in Members,
         Logged(x), Logged(y), NEW d \in Codes,
         NEW k \in 1 .. Len(exch[d][x[1]]), k \in 1 .. Len(exch[d][y[1]])
  PROVE  /\ exch[d][x[1]][k].step = exch[d][y[1]][k].step
         /\ exch[d][x[1]][k].field = exch[d][y[1]][k].field
<1> DEFINE u == exch[d][x[1]][k]  v == exch[d][y[1]][k]  N == PerStep(x, d)
<1>1. Len(prog["A"]) \in Nat /\ x[2] \in Codes /\ y[2] \in Codes /\ SameOrder(prog)
  BY ProgramType, CodeTypes DEF TypeOK, Disciplined
<1>2. PerStep(y, d) = N
  BY <1>1, SameField DEF PerStep
<1>3. /\ u.step \in 1 .. Now(x) /\ N \in Nat
      /\ \E i \in StartsTo(prog, x[2], d, Len(prog["A"])) :
           /\ u.field = prog[x[2]][i].field
           /\ Count(prog, x[2], d, i) \in 1 .. N
           /\ k = (u.step - 1) * N + Count(prog, x[2], d, i)
  BY LogEntry
<1>4. /\ v.step \in 1 .. Now(y)
      /\ \E i \in StartsTo(prog, y[2], d, Len(prog["A"])) :
           /\ v.field = prog[y[2]][i].field
           /\ Count(prog, y[2], d, i) \in 1 .. N
           /\ k = (v.step - 1) * N + Count(prog, y[2], d, i)
  BY <1>2, LogEntry
<1> HIDE DEF u, v, N
<1>5. PICK i \in StartsTo(prog, x[2], d, Len(prog["A"])) :
        /\ u.field = prog[x[2]][i].field
        /\ Count(prog, x[2], d, i) \in 1 .. N
        /\ k = (u.step - 1) * N + Count(prog, x[2], d, i)
  BY <1>3
<1>6. PICK j \in StartsTo(prog, y[2], d, Len(prog["A"])) :
        /\ v.field = prog[y[2]][j].field
        /\ Count(prog, y[2], d, j) \in 1 .. N
        /\ k = (v.step - 1) * N + Count(prog, y[2], d, j)
  BY <1>4
<1>7. u.step - 1 \in Nat /\ v.step - 1 \in Nat
  <2>1. Now(x) \in Nat /\ Now(y) \in Nat
    BY Places
  <2>2. u.step \in 1 .. Now(x) /\ v.step \in 1 .. Now(y)
    BY <1>3, <1>4
  <2> QED BY <2>1, <2>2
<1>8. u.step - 1 = v.step - 1 /\ Count(prog, x[2], d, i) = Count(prog, y[2], d, j)
  <2> DEFINE s == u.step - 1  t == v.step - 1  p == Count(prog, x[2], d, i)  q == Count(prog, y[2], d, j)
  <2>1. s \in Nat /\ t \in Nat /\ p \in 1 .. N /\ q \in 1 .. N /\ N \in Nat
    BY <1>3, <1>5, <1>6, <1>7
  <2> DEFINE Number(a, b) == a * N + b
  <2>2. Number(s, p) = Number(t, q)
    BY <1>5, <1>6
  <2> HIDE DEF s, t, p, q
  <2>3. \A a, b \in Nat, g, h \in 1 .. N : Number(a, g) = Number(b, h) => a = b /\ g = h
    BY <2>1, SameNumber
  <2> HIDE DEF Number
  <2>4. s = t /\ p = q
    BY <2>1, <2>2, <2>3
  <2> QED BY <2>4 DEF s, t, p, q
<1>9. u.field = v.field
  BY <1>1, <1>5, <1>6, <1>8, SameField
<1>10. u.step = v.step
  <2>1. Now(x) \in Nat /\ Now(y) \in Nat
    BY Places
  <2> QED BY SMTT(30), <1>3, <1>4, <1>8, <2>1
<1> QED BY <1>9, <1>10 DEF u, v

\* A call of this step that is over and starts an exchange has its entry.
LEMMA EntryOfCall ==
  ASSUME ExchangeAssumption, TypeOK, NEW m \in Members, Counted(m), Logged(m), NEW d \in Codes,
         NEW i \in 1 .. OverTo(m), prog[m[2]][i].op = StartOp(m[2], d)
  PROVE  LET k == (Now(m) - 1) * PerStep(m, d) + Count(prog, m[2], d, i)
         IN /\ k \in 1 .. Len(exch[d][m[1]])
            /\ exch[d][m[1]][k].field = prog[m[2]][i].field
            /\ exch[d][m[1]][k].step = Now(m)
<1> DEFINE N == PerStep(m, d)  L == Len(prog["A"])  w == Now(m) - 1
           q == Count(prog, m[2], d, i)  k == w * N + q  e == exch[d][m[1]][k]
<1>1. L \in Nat /\ m[2] \in Codes /\ Now(m) \in Nat \ {0} /\ OverTo(m) \in 0 .. L
  <2>1. prog \in Programs /\ m[2] \in Codes /\ L \in Nat
    BY ProgramType, CodeTypes DEF TypeOK
  <2>2. Now(m) \in Nat \ {0} /\ Pos(m) \in 0 .. L + 1
    BY Places
  <2> QED BY <2>1, <2>2 DEF OverTo
<1>2. i \in StartsTo(prog, m[2], d, L) /\ i \in 0 .. OverTo(m) /\ OverTo(m) \in Nat
  BY <1>1 DEF StartsTo
<1>3. q \in 1 .. N /\ N \in Nat
  BY <1>1, <1>2, CountApart DEF PerStep
<1>4. q <= Count(prog, m[2], d, OverTo(m)) /\ Count(prog, m[2], d, OverTo(m)) \in Nat
  BY <1>1, <1>2, CountGrows
<1>5. Len(exch[d][m[1]]) = w * N + Count(prog, m[2], d, OverTo(m))
  BY DEF Counted
<1>6. k \in 1 .. Len(exch[d][m[1]])
  <2>1. w \in Nat
    BY <1>1
  <2> HIDE DEF w, N, q
  <2>2. w * N \in Nat
    BY <1>3, <2>1
  <2> QED BY <1>3, <1>4, <1>5, <2>2
<1>7. /\ e.step \in 1 .. Now(m)
      /\ \E j \in StartsTo(prog, m[2], d, L) :
           /\ e.field = prog[m[2]][j].field
           /\ Count(prog, m[2], d, j) \in 1 .. N
           /\ k = (e.step - 1) * N + Count(prog, m[2], d, j)
  <2> HIDE DEF k
  <2> QED BY <1>6, LogEntry
<1>8. PICK j \in StartsTo(prog, m[2], d, L) :
           /\ e.field = prog[m[2]][j].field
           /\ Count(prog, m[2], d, j) \in 1 .. N
           /\ k = (e.step - 1) * N + Count(prog, m[2], d, j)
  BY <1>7
<1>9. w = e.step - 1 /\ q = Count(prog, m[2], d, j)
  <2> DEFINE s == e.step - 1  p == Count(prog, m[2], d, j)
  <2>1. w \in Nat /\ s \in Nat /\ p \in 1 .. N /\ w * N + q = s * N + p
    <3>1. e.step \in 1 .. Now(m) /\ p \in 1 .. N /\ w * N + q = s * N + p
      BY <1>7, <1>8
    <3> HIDE DEF e, q, N, p
    <3> QED BY <1>1, <3>1
  <2> HIDE DEF w, s, q, p, N
  <2>2. w = s /\ q = p
    BY <1>3, <2>1, SameNumber
  <2> QED BY <2>2 DEF s, p
<1>10. j = i
  <2>1. Count(prog, m[2], d, i) = Count(prog, m[2], d, j)
    BY <1>9
  <2>2. \A n \in StartsTo(prog, m[2], d, L) :
          Count(prog, m[2], d, i) = Count(prog, m[2], d, n) => i = n
    <3> HIDE DEF L
    <3> QED BY <1>1, <1>2, CountApart
  <2> QED BY <2>1, <2>2
<1>11. e.step = Now(m)
  <2> HIDE DEF e
  <2> QED BY <1>1, <1>7, <1>9
<1> QED BY <1>6, <1>8, <1>10, <1>11

\* The exchange a wait waits for is that of its field and of its step.
LEMMA WaitedFor ==
  ASSUME ExchangeAssumption, Disciplined, TypeOK, NEW m \in Members, Account(m),
         NEW op \in {"wait_issend", "wait_irecv"}, Is(m, op)
  PROVE  LET c == Direction(m)  f == Call(m).field  k == request[c][m[1]][f]
         IN /\ k \in 1 .. Len(exch[c][m[1]])
            /\ exch[c][m[1]][k].field = f /\ exch[c][m[1]][k].step = Now(m)
<1> DEFINE c == Direction(m)  f == Call(m).field  k == request[c][m[1]][f]
           N == PerStep(m, c)  e == exch[c][m[1]][k]
<1>1. /\ Pos(m) \in 1 .. Len(prog["A"]) /\ c \in Codes /\ f \in Fields
      /\ prog[m[2]][Pos(m)] = [op |-> WaitOp(m[2], c), field |-> f]
  BY InProgram
<1>2. m[1] \in Ranks /\ m[2] \in Codes /\ WaitsAfter(prog) /\ prog \in Programs
  BY CodeTypes DEF TypeOK, Disciplined
<1>3. Len(prog["A"]) \in Nat /\ DOMAIN prog[m[2]] = 1 .. Len(prog["A"]) /\ Now(m) \in Nat \ {0}
  BY <1>2, ProgramType, Places
<1>4. PICK i \in 1 .. Pos(m) - 1 : prog[m[2]][i] = [op |-> StartOp(m[2], c), field |-> f]
  <2> HIDE DEF c, f
  <2>1. \A j \in DOMAIN prog[m[2]] :
          prog[m[2]][j] = [op |-> WaitOp(m[2], c), field |-> f] =>
            \E i \in 1 .. j - 1 : prog[m[2]][i] = [op |-> StartOp(m[2], c), field |-> f]
    BY <1>1, <1>2 DEF WaitsAfter
  <2> QED BY <1>1, <1>3, <2>1
<1>5. i \in 1 .. OverTo(m) /\ prog[m[2]][i].op = StartOp(m[2], c) /\ prog[m[2]][i].field = f
  BY <1>1, <1>4 DEF OverTo
<1> DEFINE h == (Now(m) - 1) * N + Count(prog, m[2], c, i)
<1>6. h \in 1 .. Len(exch[c][m[1]]) /\ exch[c][m[1]][h].field = f
  BY <1>1, <1>5, EntryOfCall DEF Account
<1>7. k \in Nat /\ k <= Len(exch[c][m[1]]) /\ Len(exch[c][m[1]]) \in Nat
  <2> HIDE DEF c, f
  <2>1. exch[c][m[1]] \in Seq([field : Fields, step : Nat, data : Nat])
    <3>1. exch \in [Codes -> [Ranks -> Seq([field : Fields, step : Nat, data : Nat])]]
      BY DEF TypeOK
    <3> QED BY <1>1, <1>2, <3>1
  <2>2. request[c][m[1]][f] \in Nat /\ request[c][m[1]][f] <= Len(exch[c][m[1]])
    BY SMTT(30), <1>1, <1>2 DEF TypeOK
  <2> QED BY <2>1, <2>2
<1>8. h <= k /\ (k # 0 => e.field = f)
  <2>1. /\ k # 0 => exch[c][m[1]][k].field = f
        /\ \A n \in 1 .. Len(exch[c][m[1]]) : exch[c][m[1]][n].field = f => n <= k
    BY <1>1 DEF Account, LastRequest
  <2> HIDE DEF k, h
  <2> QED BY <1>6, <2>1 DEF e
<1>9. k \in 1 .. Len(exch[c][m[1]])
  <2> HIDE DEF h, k
  <2> QED BY <1>6, <1>7, <1>8
<1>10. e.step = Now(m)
  <2>1. /\ e.step \in 1 .. Now(m) /\ N \in Nat
        /\ \E j \in StartsTo(prog, m[2], c, Len(prog["A"])) :
             /\ Count(prog, m[2], c, j) \in 1 .. N
             /\ k = (e.step - 1) * N + Count(prog, m[2], c, j)
    <3> HIDE DEF c, k
    <3> QED BY <1>1, <1>9, LogEntry DEF Account
  <2>2. PICK q \in 1 .. N : k = (e.step - 1) * N + q
    BY <2>1
  <2>3. Count(prog, m[2], c, i) \in 1 .. N
    <3>1. i \in StartsTo(prog, m[2], c, Len(prog["A"]))
      BY <1>1, <1>3, <1>5 DEF StartsTo, OverTo
    <3> QED BY <1>1, <1>2, <1>3, <3>1, CountApart DEF PerStep
  <2> DEFINE s == e.step - 1  w == Now(m) - 1  p == Count(prog, m[2], c, i)
  <2>4. s \in Nat /\ w \in Nat /\ s <= w
    <3> HIDE DEF e
    <3> QED BY SMTT(30), <1>3, <2>1
  <2>5. w * N + p <= s * N + q
    <3> HIDE DEF e, k, N
    <3> QED BY <1>8, <2>2
  <2>6. w <= s
    <3>1. N \in Nat /\ p \in 1 .. N
      BY <2>1, <2>3
    <3> HIDE DEF s, w, p, N
    <3> QED BY <2>2, <2>4, <2>5, <3>1, LaterNumber
  <2>7. e.step \in Nat /\ e.step - 1 = Now(m) - 1
    <3> HIDE DEF e
    <3> QED BY <1>3, <2>1, <2>4, <2>6
  <2> HIDE DEF e
  <2> QED BY <1>3, <2>7
<1>11. k # 0
  <2> HIDE DEF k
  <2> QED BY <1>9
<1> QED BY <1>8, <1>9, <1>10, <1>11

-----------------------------------------------------------------------------
(* The calls that make history: those that start an exchange, and the waits. *)

\* Where the data that a rank sends come from, the member is in the same step.
LEMMA SourceStep ==
  ASSUME ExchangeAssumption, TypeOK, TakeTurns, NEW m \in Members, ~AtEnd(m),
         IsJoint(m) => done[m] <= done[Partner(m)],
         NEW c \in Codes, m[1] \in RanksOf[c]
  PROVE  Now(<<m[1], c>>) = Now(m)
<1> DEFINE x == <<m[1], c>>
<1>1. x \in Members /\ m = <<m[1], m[2]>>
  BY CodeTypes
<1>2. CASE c = m[2]
  BY <1>1, <1>2
<1>3. CASE c # m[2]
  <2>1. IsJoint(m) /\ x = Partner(m) /\ IsJoint(x) /\ Partner(x) = m
    BY <1>1, <1>3, CodeTypes, OneWorker DEF IsJoint, Partner
  <2>2. done[m] <= done[x] /\ done[x] <= done[m] + 1
    BY <1>1, <2>1 DEF TakeTurns
  <2>3. done[m] \in Nat /\ done[x] \in Nat
    BY <1>1 DEF TypeOK
  <2>4. done[x] = done[m] \/ done[x] = done[m] + 1
    BY SMTT(30), <2>2, <2>3
  <2> QED BY <1>1, <2>4, Ahead
<1> QED BY <1>2, <1>3

\* A member is not refused only if it has not made the call before in the step.
LEMMA FirstStart ==
  ASSUME ExchangeAssumption, Paced, TypeOK, NEW m \in Members, Works(m), FlagsOver(m),
         NEW op \in {"issend", "irecv"}, Is(m, op), ~Refuses(m),
         NEW i \in 1 .. Pos(m) - 1
  PROVE  prog[m[2]][i] # Call(m)
<1> DEFINE c == Direction(m)  f == Call(m).field
<1>1. /\ Pos(m) \in 1 .. Len(prog["A"]) /\ c \in Codes /\ f \in Fields
      /\ prog[m[2]][Pos(m)] = Call(m) /\ Call(m).op = op
      /\ Call(m) = [op |-> StartOp(m[2], c), field |-> f]
  BY InProgram
<1>2. prog \in Programs /\ m[2] \in Codes /\ WaitsBetween(prog)
  BY CodeTypes DEF TypeOK, Paced
<1>3. DOMAIN prog[m[2]] = 1 .. Len(prog["A"]) /\ Len(prog["A"]) \in Nat
  BY <1>2, ProgramType
<1>4. op = "issend" <=> c = m[2]
  BY <1>1, <1>2, CodeTypes DEF Direction
<1> HIDE DEF c, f
<1> SUFFICES ASSUME prog[m[2]][i] = Call(m) PROVE FALSE
  OBVIOUS
<1>5. \A g, h \in DOMAIN prog[m[2]] :
        /\ g < h
        /\ prog[m[2]][g] = [op |-> StartOp(m[2], c), field |-> f]
        /\ prog[m[2]][h] = [op |-> StartOp(m[2], c), field |-> f]
        => \E k \in g + 1 .. h - 1 : prog[m[2]][k] = [op |-> WaitOp(m[2], c), field |-> f]
  <2>1. c \in Codes /\ f \in Fields /\ m[2] \in Codes /\ WaitsBetween(prog)
    BY <1>1, <1>2
  <2> QED BY Zenon, <2>1 DEF WaitsBetween
<1>6. PICK k \in i + 1 .. Pos(m) - 1 : prog[m[2]][k] = [op |-> WaitOp(m[2], c), field |-> f]
  <2>1. i \in DOMAIN prog[m[2]] /\ Pos(m) \in DOMAIN prog[m[2]] /\ i < Pos(m)
    BY <1>1, <1>3
  <2> QED BY <1>1, <1>5, <2>1
<1>7. Over(m, WaitOp(m[2], c), f)
  <2>1. k \in 1 .. Pos(m) - 1
    BY <1>1
  <2> QED BY <1>6, <2>1 DEF Over
<1>8. f \in IF op = "issend" THEN sendYet[m] ELSE recvYet[m]
  BY <1>1, <1>4, <1>7 DEF FlagsOver, WaitOp
<1> QED BY <1>1, <1>8 DEF Refuses, Works, f

\* The history of a rank that starts an exchange.
LEMMA StartHistory ==
  ASSUME ExchangeAssumption, Paced, TypeOK, TakeTurns, NEW m \in Members, Works(m), Account(m),
         Free(m), NEW op \in {"issend", "irecv"}, Is(m, op), ~Refuses(m), Start(m), Returned(m),
         UNCHANGED <<prog, flags, target>>
  PROVE  Account(m)' /\ (Brought(m) => Brought(m)')
<1> DEFINE r == m[1]  c == Direction(m)  f == Call(m).field  L == Len(prog["A"])
           n == Len(exch[c][r])  a == m[2]
           e == [field |-> f, step |-> Now(m), data |-> IF r \in RanksOf[c] THEN Now(m) ELSE 0]
<1>1. /\ Pos(m) \in 1 .. L /\ ~AtEnd(m) /\ c \in Codes /\ f \in Fields
      /\ prog[a][Pos(m)] = Call(m) /\ Call(m).op = op /\ op = StartOp(a, c)
  BY InProgram
<1>2. prog \in Programs /\ a \in Codes /\ r \in Ranks /\ L \in Nat /\ DOMAIN prog[a] = 1 .. L
  <2>1. prog \in Programs /\ a \in Codes /\ r \in Ranks
    BY CodeTypes DEF TypeOK
  <2> QED BY <2>1, ProgramType
<1>3. /\ done'[m] = done[m] + 1 /\ prog' = prog
      /\ sendYet' = sendYet /\ recvYet' = recvYet /\ target' = target
  BY DEF Returned, TypeOK, flags
<1>4. MovesOn(m)
  BY <1>1, <1>3, Places DEF MovesOn
<1>5. /\ Now(m) \in Nat \ {0} /\ Now(m)' = Now(m) /\ OverTo(m) \in 0 .. L
      /\ OverTo(m) + 1 = Pos(m) /\ OverTo(m)' = Pos(m)
  BY <1>3, <1>4, Places, OverToStep
<1>6. /\ n \in Nat /\ exch'[c][r] = Append(exch[c][r], e)
      /\ Len(exch'[c][r]) = n + 1
      /\ \A k \in 1 .. n : exch'[c][r][k] = exch[c][r][k]
      /\ \A d \in Codes : d # c => exch'[d][r] = exch[d][r] /\ request'[d][r] = request[d][r]
      /\ request'[c][r][f] = n + 1
      /\ \A g \in Fields : g # f => request'[c][r][g] = request[c][r][g]
      /\ exch[c][r] \in Seq(Entry)
  <2>1. r \in RanksOf[c] => Now(<<r, c>>) = Now(m)
    BY <1>1, SourceStep DEF Free
  <2> QED BY SMTT(30), <1>2, <2>1, StartEffect
<1>7. exch'[c][r][n + 1] = e
  <2> HIDE DEF e, r, c
  <2> QED BY <1>6 DEF n
<1>8. Counted(m) /\ Logged(m) /\ LastRequest(m) /\ FlagsOver(m) /\ NoRepeat(m)
  BY DEF Account
<1>9. \A d \in Codes : d # c => prog[a][OverTo(m) + 1].op # StartOp(a, d)
  BY <1>1, <1>2, <1>5 DEF StartOp, Codes
<1> HIDE DEF r, c, f, L, n, a, e
<1>10. ASSUME NEW d \in Codes
       PROVE  /\ PerStep(m, d)' = PerStep(m, d)
              /\ \A k \in Nat : Count(prog, a, d, k)' = Count(prog, a, d, k)
              /\ Count(prog, a, d, OverTo(m))' = Count(prog, a, d, Pos(m))
              /\ Count(prog, a, d, OverTo(m)) \in Nat
              /\ Count(prog, a, d, Pos(m)) = IF d = c THEN Count(prog, a, d, OverTo(m)) + 1
                                                      ELSE Count(prog, a, d, OverTo(m))
              /\ StartsTo(prog, a, d, L)' = StartsTo(prog, a, d, L)
  <2>1. /\ PerStep(m, d)' = PerStep(m, d)
        /\ \A k \in Nat : Count(prog, a, d, k)' = Count(prog, a, d, k)
        /\ StartsTo(prog, a, d, L)' = StartsTo(prog, a, d, L)
    BY <1>3, SameProgram DEF a, L
  <2>2. Count(prog, a, d, OverTo(m))' = Count(prog, a, d, Pos(m))
    BY <1>3, <1>5 DEF Count, StartsTo, a
  <2>3. OverTo(m) \in Nat
    BY <1>2, <1>5
  <2>4. /\ Count(prog, a, d, OverTo(m)) \in Nat
        /\ Count(prog, a, d, OverTo(m) + 1) =
             IF prog[a][OverTo(m) + 1].op = StartOp(a, d) THEN Count(prog, a, d, OverTo(m)) + 1
                                                          ELSE Count(prog, a, d, OverTo(m))
    BY <1>2, <2>3, CountStep
  <2>5. prog[a][OverTo(m) + 1].op = StartOp(a, c)
    BY <1>1, <1>5
  <2> QED BY <1>5, <1>9, <2>1, <2>2, <2>4, <2>5
<1>11. Counted(m)'
  <2> SUFFICES ASSUME NEW d \in Codes
               PROVE  Len(exch'[d][r]) = (Now(m)' - 1) * PerStep(m, d)' + Count(prog, a, d, OverTo(m))'
    BY DEF Counted, r, a
  <2> DEFINE w == (Now(m) - 1) * PerStep(m, d)
  <2>1. Len(exch[d][r]) = w + Count(prog, a, d, OverTo(m))
    BY <1>8 DEF Counted, r, a
  <2>2. (Now(m)' - 1) * PerStep(m, d)' = w
    BY <1>5, <1>10
  <2>3. w \in Nat
    <3>1. Now(m) - 1 \in Nat
      BY <1>5
    <3>2. PerStep(m, d) \in Nat
      BY <1>2, CountStep DEF PerStep, L, a
    <3> QED BY <3>1, <3>2
  <2> HIDE DEF w
  <2>4. CASE d = c
    BY SMTT(30), <1>6, <1>10, <2>1, <2>2, <2>3, <2>4 DEF n
  <2>5. CASE d # c
    BY <1>6, <1>10, <2>1, <2>2, <2>5
  <2> QED BY <2>4, <2>5
<1>12. Logged(m)'
  <2> SUFFICES ASSUME NEW d \in Codes, NEW k \in 1 .. Len(exch'[d][r])
               PROVE  \E i \in StartsTo(prog, a, d, L), st \in 1 .. Now(m) : Logs(m, d, k, i, st)'
    BY <1>3, <1>5, <1>10 DEF Logged, r, a, L
  <2>1. CASE d # c \/ k <= n
    <3>1. k \in 1 .. Len(exch[d][r]) /\ exch'[d][r][k] = exch[d][r][k]
      BY <1>6, <2>1 DEF n
    <3>2. PICK i \in StartsTo(prog, a, d, L), st \in 1 .. Now(m) : Logs(m, d, k, i, st)
      BY <1>8, <3>1 DEF Logged, r, a, L
    <3>3. i \in 1 .. L /\ i \in Nat
      BY <1>2 DEF StartsTo
    <3>4. Logs(m, d, k, i, st)'
      <4>1. k = (st - 1) * PerStep(m, d)' + Count(prog, a, d, i)'
        BY <1>10, <3>2, <3>3 DEF Logs, a
      <4>2. st < Now(m)' \/ (st = Now(m)' /\ i <= OverTo(m)')
        BY <1>2, <1>5, <3>2, <3>3 DEF Logs
      <4>3. exch'[d][r][k] = [field |-> prog'[a][i].field, step |-> st,
                              data |-> IF r \in RanksOf[d] THEN st ELSE 0]
        BY <1>3, <3>1, <3>2 DEF Logs, r, a
      <4> QED BY <4>1, <4>2, <4>3 DEF Logs, r, a
    <3> QED BY <3>2, <3>4
  <2>2. CASE d = c /\ k = n + 1
    <3>1. PICK i \in Nat : i = Pos(m)
      BY <1>1
    <3>2. i \in StartsTo(prog, a, d, L) /\ Now(m) \in 1 .. Now(m)
      BY <1>1, <1>5, <2>2, <3>1 DEF StartsTo
    <3>3. k = (Now(m) - 1) * PerStep(m, d)' + Count(prog, a, d, i)'
      <4> DEFINE w == (Now(m) - 1) * PerStep(m, d)
      <4>1. n = w + Count(prog, a, d, OverTo(m))
        BY <1>8, <2>2 DEF Counted, r, a, n
      <4>2. Count(prog, a, d, i)' = Count(prog, a, d, OverTo(m)) + 1
        BY <1>10, <2>2, <3>1
      <4>3. (Now(m) - 1) * PerStep(m, d)' = w
        BY <1>10
      <4>4. w \in Nat
        <5>1. Now(m) - 1 \in Nat
          BY <1>5
        <5>2. PerStep(m, d) \in Nat
          BY <1>2, CountStep DEF PerStep, L, a
        <5> QED BY <5>1, <5>2
      <4> HIDE DEF w
      <4> QED BY <1>10, <2>2, <4>1, <4>2, <4>3, <4>4
    <3>4. exch'[d][r][k] = [field |-> prog'[a][i].field, step |-> Now(m),
                            data |-> IF r \in RanksOf[d] THEN Now(m) ELSE 0]
      BY <1>1, <1>3, <1>7, <2>2, <3>1 DEF e, f
    <3>5. PICK st \in 1 .. Now(m) : st = Now(m)
      BY <3>2
    <3>6. Logs(m, d, k, i, st)'
      BY <1>5, <3>1, <3>3, <3>4, <3>5 DEF Logs, r, a
    <3> QED BY <3>2, <3>6
  <2>3. d = c => k <= n \/ k = n + 1
    BY <1>6
  <2> QED BY <2>1, <2>2, <2>3
<1>13. LastRequest(m)'
  <2> SUFFICES ASSUME NEW d \in Codes, NEW g \in Fields
               PROVE  /\ request'[d][r][g] # 0 => exch'[d][r][request'[d][r][g]].field = g
                      /\ \A k \in 1 .. Len(exch'[d][r]) :
                           exch'[d][r][k].field = g => k <= request'[d][r][g]
    BY DEF LastRequest, r
  <2>1. /\ request[d][r][g] # 0 => exch[d][r][request[d][r][g]].field = g
        /\ \A k \in 1 .. Len(exch[d][r]) : exch[d][r][k].field = g => k <= request[d][r][g]
    BY <1>8 DEF LastRequest, r
  <2>2. request[d][r][g] \in Nat /\ request[d][r][g] <= Len(exch[d][r])
    BY <1>2 DEF TypeOK
  <2>3. CASE d # c
    BY <1>6, <2>1, <2>3
  <2>4. CASE d = c /\ g = f
    <3>1. exch'[c][r][n + 1].field = f
      BY <1>7 DEF e
    <3> QED BY SMTT(30), <1>6, <2>4, <3>1
  <2>5. CASE d = c /\ g # f
    <3>1. request'[d][r][g] = request[d][r][g] /\ exch'[c][r][n + 1].field # g
      BY <1>6, <1>7, <2>5 DEF e
    <3>2. request[d][r][g] # 0 => request[d][r][g] \in 1 .. n
      BY <2>2, <2>5 DEF n
    <3>3. \A k \in 1 .. n + 1 : k \in 1 .. n \/ k = n + 1
      BY <1>6
    <3> QED BY <1>6, <2>1, <2>5, <3>1, <3>2, <3>3 DEF n
  <2> QED BY <2>3, <2>4, <2>5
<1>14. FlagsOver(m)'
  BY <1>1, <1>3, <1>4, <1>8, FlagsKept DEF a
<1>15. NoRepeat(m)'
  <2> SUFFICES ASSUME NEW i \in DOMAIN prog[a], NEW j \in DOMAIN prog[a],
                      i < j, prog[a][i] = prog[a][j], j <= Pos(m) \/ Now(m) > 1
               PROVE  prog[a][i].op \notin {"issend", "irecv"}
    BY <1>3, <1>5 DEF NoRepeat, a
  <2>1. CASE j <= OverTo(m) \/ Now(m) > 1
    BY <1>8, <2>1 DEF NoRepeat, a
  <2>2. CASE j = Pos(m)
    <3>1. i \in 1 .. Pos(m) - 1
      BY <1>1, <1>2, <2>2
    <3> QED BY <1>1, <1>8, <2>2, <3>1, FirstStart DEF a
  <2>3. j \in Nat
    BY <1>2
  <2> QED BY <1>5, <2>1, <2>2, <2>3
<1>16. Brought(m) => Brought(m)'
  BY <1>1, <1>3, <1>4, <1>8, BroughtKept DEF a
<1> QED BY <1>11, <1>12, <1>13, <1>14, <1>15, <1>16 DEF Account

\* What a wait brings is what each source rank sent of the field in this step.
LEMMA ReceivedNow ==
  ASSUME ExchangeAssumption, Disciplined, IInv, NEW m \in Members, Works(m),
         NEW op \in {"wait_issend", "wait_irecv"}, Is(m, op),
         \A s \in RanksOf[Direction(m)] :
           request[Direction(m)][m[1]][Call(m).field] \in 1 .. Len(exch[Direction(m)][s])
  PROVE  Received(Direction(m), request[Direction(m)][m[1]][Call(m).field]) =
           [s \in RanksOf[Direction(m)] |-> [field |-> Call(m).field, data |-> Now(m)]]
<1> DEFINE r == m[1]  c == Direction(m)  f == Call(m).field  k == request[c][r][f]
<1>1. c \in Codes /\ f \in Fields
  BY InProgram DEF IInv, Accounts
<1>2. k \in 1 .. Len(exch[c][r]) /\ exch[c][r][k].field = f /\ exch[c][r][k].step = Now(m)
  BY WaitedFor DEF IInv, Accounts
<1>3. ASSUME NEW s \in RanksOf[c]
      PROVE  exch[c][s][k].field = f /\ exch[c][s][k].data = Now(m)
  <2>1. k \in 1 .. Len(exch[c][s])
    OBVIOUS
  <2> HIDE DEF c, f, k, r
  <2>2. s \in Ranks /\ <<s, c>> \in Members
    BY <1>1, CodeTypes
  <2>3. PICK w \in Members : w[1] = s /\ Works(w)
    <3>1. CASE Works(<<s, c>>)
      BY <2>2, <3>1
    <3>2. CASE ~Works(<<s, c>>)
      BY <2>2, <3>2, OneWorker DEF Partner
    <3> QED BY <3>1, <3>2
  <2>4. Logged(w) /\ Logged(m) /\ TypeOK
    BY <2>3 DEF IInv, Accounts, Account
  <2>5. exch[c][s][k].field = exch[c][r][k].field /\ exch[c][s][k].step = exch[c][r][k].step
    <3>1. k \in 1 .. Len(exch[c][w[1]]) /\ k \in 1 .. Len(exch[c][m[1]])
      BY <1>2, <2>1, <2>3 DEF r
    <3> QED BY <1>1, <2>3, <2>4, <3>1, OneExchange DEF r
  <2>6. exch[c][s][k].data = exch[c][s][k].step
    <3>1. k \in 1 .. Len(exch[c][w[1]]) /\ w[1] \in RanksOf[c]
      BY <2>1, <2>3
    <3> QED BY <1>1, <2>3, <2>4, <3>1, LogEntry
  <2> QED BY <1>2, <2>5, <2>6
<1> HIDE DEF r, c, f, k
<1>4. Received(c, k) = [s \in RanksOf[c] |-> [field |-> f, data |-> Now(m)]]
  BY <1>3 DEF Received
<1> QED BY <1>4 DEF r, c, f, k

\* The history of a rank that has waited.
LEMMA WaitHistory ==
  ASSUME ExchangeAssumption, Accounts, NEW m \in Members, Works(m), waitIssend_waitIrecv(m)
  PROVE  Account(m)' /\ (Disciplined /\ IInv => Brought(m)')
<1> DEFINE r == m[1]  c == Direction(m)  f == Call(m).field  a == m[2]  k == request[c][r][f]
<1>1. TypeOK /\ Counted(m) /\ Logged(m) /\ LastRequest(m) /\ FlagsOver(m) /\ NoRepeat(m)
  BY DEF Accounts, Account
<1>2. PICK op \in {"wait_issend", "wait_irecv"} : Is(m, op)
  BY DEF waitIssend_waitIrecv
<1>3. /\ Pos(m) \in 1 .. Len(prog["A"]) /\ ~AtEnd(m) /\ c \in Codes /\ f \in Fields
      /\ prog[a][Pos(m)] = [op |-> op, field |-> f] /\ op = WaitOp(a, c)
  BY <1>1, <1>2, InProgram
<1>4. a \in Codes /\ r \in Ranks /\ Len(prog["A"]) \in Nat /\ Now(m) \in Nat \ {0}
  BY <1>1, CodeTypes, ProgramType, Places DEF TypeOK
<1>5. /\ r \in RanksOf[Other[c]] => \A s \in RanksOf[c] : k \in 1 .. Len(exch[c][s])
      /\ \A x \in Members :
           /\ x[1] = r /\ x[2] = Other[c] => target'[x] = [target[x] EXCEPT ![f] = Received(c, k)]
           /\ x[1] # r \/ x[2] # Other[c] => target'[x] = target[x]
           /\ sendYet'[x] = IF x[1] = r /\ x[2] = c THEN sendYet[x] \cup {f} ELSE sendYet[x]
           /\ recvYet'[x] = IF x[1] = r /\ x[2] = Other[c] THEN recvYet[x] \cup {f} ELSE recvYet[x]
      /\ Returned(m) /\ prog' = prog /\ exch' = exch /\ request' = request
  BY <1>1, WaitEffect
<1>6. Disciplined /\ IInv /\ r \in RanksOf[Other[c]] =>
        Received(c, k) = [s \in RanksOf[c] |-> [field |-> f, data |-> Now(m)]]
  BY <1>2, <1>5, ReceivedNow
<1>7. done'[m] = done[m] + 1
  BY <1>1, <1>5 DEF Returned, TypeOK
<1>8. MovesOn(m) /\ LibSame(m) /\ StartsNot(m)
  BY <1>1, <1>3, <1>5, <1>7, Places DEF MovesOn, LibSame, StartsNot
<1>9. Counted(m)' /\ Logged(m)' /\ LastRequest(m)' /\ NoRepeat(m)'
  BY <1>1, <1>5, <1>8, CountedKept, LoggedKept, LastRequestKept, NoRepeatKept
<1> HIDE DEF c, f, k
<1>10. FlagsOver(m)'
  <2> SUFFICES ASSUME NEW g \in Fields
               PROVE  /\ g \in sendYet'[m] <=> Over(m, "wait_issend", g)'
                      /\ g \in recvYet'[m] <=> Over(m, "wait_irecv", g)'
    BY DEF FlagsOver
  <2>1. /\ g \in sendYet[m] <=> Over(m, "wait_issend", g)
        /\ g \in recvYet[m] <=> Over(m, "wait_irecv", g)
    BY <1>1 DEF FlagsOver
  <2>2. \A o \in {"wait_issend", "wait_irecv"} :
          Over(m, o, g)' <=> Over(m, o, g) \/ (op = o /\ f = g)
    <3>1. \A o \in {"wait_issend", "wait_irecv"} :
            prog[a][Pos(m)] = [op |-> o, field |-> g] <=> op = o /\ f = g
      BY <1>3
    <3> QED BY <1>1, <1>5, <1>8, <3>1, OverStep
  <2>3. /\ sendYet'[m] = IF a = c THEN sendYet[m] \cup {f} ELSE sendYet[m]
        /\ recvYet'[m] = IF a = Other[c] THEN recvYet[m] \cup {f} ELSE recvYet[m]
    BY <1>5
  <2>4. (op = "wait_issend" <=> a = c) /\ (op = "wait_irecv" <=> a = Other[c])
    BY <1>3, <1>4, CodeTypes DEF WaitOp
  <2> QED BY <2>1, <2>2, <2>3, <2>4
<1>11. Disciplined /\ IInv => Brought(m)'
  <2> SUFFICES ASSUME Disciplined, IInv, NEW x \in Members, NEW g \in Fields, x[1] = r, LastStep(m)' > 0,
                      NEW i \in 1 .. LastTo(m)',
                      prog[a][i] = [op |-> WaitOp(a, Other[x[2]]), field |-> g]
               PROVE  target'[x][g] =
                        [s \in RanksOf[Other[x[2]]] |-> [field |-> g, data |-> LastStep(m)']]
    BY <1>5 DEF Brought
  <2>1. /\ LastTo(m)' = Pos(m) /\ LastTo(m) = Pos(m) - 1
        /\ LastStep(m)' = Now(m) /\ LastStep(m) = Now(m)
    <3>1. Pos(m) \in Nat /\ Pos(m) # 0 /\ Pos(m)' = Pos(m) + 1 /\ Now(m)' = Now(m)
      BY <1>3, <1>8 DEF MovesOn
    <3>2. Pos(m)' # 0 /\ Pos(m)' - 1 = Pos(m)
      BY <3>1
    <3> QED BY <3>1, <3>2 DEF LastTo, LastStep
  <2>2. x[2] \in Codes /\ x[1] \in RanksOf[x[2]]
    BY CodeTypes
  <2>3. target[x] \in [Fields -> {<<>>} \cup [RanksOf[Other[x[2]]] -> [field : Fields, data : Nat]]]
    BY <1>1 DEF TypeOK
  <2>4. CASE x[2] = Other[c] /\ g = f
    <3>1. Other[x[2]] = c /\ r \in RanksOf[Other[c]]
      BY <1>3, <2>2, <2>4, CodeTypes
    <3>2. target'[x] = [target[x] EXCEPT ![f] = Received(c, k)]
      BY <1>5, <2>4
    <3>3. target'[x][f] = Received(c, k)
      BY <1>3, <2>3, <3>2
    <3> QED BY <1>6, <2>1, <2>4, <3>1, <3>3
  <2>5. CASE x[2] # Other[c] \/ g # f
    <3>1. i # Pos(m)
      <4>1. x[2] # Other[c] => Other[x[2]] # c
        BY <1>3, <2>2, CodeTypes
      <4>2. WaitOp(a, Other[x[2]]) = WaitOp(a, c) => Other[x[2]] = c
        BY <1>3, <1>4, <2>2, CodeTypes DEF WaitOp, Codes
      <4>3. i = Pos(m) => WaitOp(a, Other[x[2]]) = WaitOp(a, c) /\ g = f
        BY <1>3
      <4> QED BY <2>5, <4>1, <4>2, <4>3
    <3>2. i \in 1 .. LastTo(m)
      BY <1>3, <2>1, <3>1
    <3>3. target[x][g] = [s \in RanksOf[Other[x[2]]] |-> [field |-> g, data |-> LastStep(m)]]
      <4>1. LastStep(m) > 0
        BY <1>4, <2>1
      <4>2. Brought(m)
        BY DEF IInv
      <4>3. x[1] = m[1] /\ prog[m[2]][i] = [op |-> WaitOp(m[2], Other[x[2]]), field |-> g]
        BY <1>1
      <4> HIDE DEF r, a
      <4> QED BY <3>2, <4>1, <4>2, <4>3 DEF Brought
    <3>4. target'[x][g] = target[x][g]
      <4>1. CASE x[2] # Other[c]
        BY <1>5, <4>1
      <4>2. CASE x[2] = Other[c] /\ g # f
        BY <1>3, <1>5, <2>3, <4>2
      <4> QED BY <2>5, <4>1, <4>2
    <3> QED BY <2>1, <3>3, <3>4
  <2> QED BY <2>4, <2>5
<1> QED BY <1>9, <1>10, <1>11 DEF Account

\* The history of a rank that a step does not concern, or whose member begins
\* or ends a time step.
LEMMA KeptHistory ==
  ASSUME ExchangeAssumption, TypeOK, NEW m \in Members, prog' = prog, LibSame(m),
         \A x \in Members : x[1] = m[1] => target'[x] = target[x],
         \/ (Stays(m) \/ Enters(m)) /\ sendYet'[m] = sendYet[m] /\ recvYet'[m] = recvYet[m]
         \/ Finishes(m) /\ sendYet'[m] = {} /\ recvYet'[m] = {}
  PROVE  (Account(m) => Account(m)') /\ (Brought(m) => Brought(m)')
<1>1. Account(m) => Account(m)'
  BY CountedKept, LoggedKept, LastRequestKept, FlagsKept, NoRepeatKept DEF Account
<1> QED BY <1>1, BroughtKept

-----------------------------------------------------------------------------
(* The invariant is inductive. *)

\* Every step keeps the history of every member.
LEMMA Histories ==
  ASSUME ExchangeAssumption, Paced, Accounts, [Next]_vars
  PROVE  \A m \in Members : Works(m) => Account(m)' /\ (Disciplined /\ IInv => Brought(m)')
<1> USE DEF flags, lib
<1>0. TypeOK /\ TakeTurns /\ \A x \in Members : Works(x) => Account(x)
  BY DEF Accounts
<1> SUFFICES ASSUME NEW x \in Members, Works(x)
             PROVE  Account(x)' /\ (Disciplined /\ IInv => Brought(x)')
  OBVIOUS
<1> DEFINE Kept == Account(x)' /\ (Disciplined /\ IInv => Brought(x)')
<1> SUFFICES Kept
  OBVIOUS
<1>1. /\ Account(x) /\ (IInv => Brought(x)) /\ x[1] \in Ranks /\ x[2] \in Codes /\ x = <<x[1], x[2]>>
      /\ Pos(x) \in 0 .. Len(prog["A"]) + 1 /\ Len(prog["A"]) \in Nat
  BY <1>0, CodeTypes, Places, OverToStep DEF IInv
<1>2. ASSUME UNCHANGED <<prog, flags, lib, target>>, done'[x] = done[x] PROVE Kept
  <2>1. Stays(x) /\ LibSame(x)
    BY <1>0, <1>2, Places DEF Stays, LibSame
  <2> QED BY <1>0, <1>1, <1>2, <2>1, KeptHistory
<1>3. ASSUME NEW m \in Members, Returned(m), x # m PROVE done'[x] = done[x]
  BY <1>0, <1>3 DEF Returned, TypeOK
<1>4. ASSUME NEW m \in Members, EnterBegin(m) PROVE Kept
  BY <1>2, <1>4 DEF EnterBegin
<1>5. ASSUME NEW m \in Members, issend_irecv(m) PROVE Kept
  <2>1. PICK op \in {"issend", "irecv"} : Is(m, op)
    BY <1>5 DEF issend_irecv
  <2>2. CASE Refuse(m)
    BY <1>2, <2>2 DEF Refuse
  <2>3. CASE /\ ~Refuses(m) /\ Works(m) /\ Start(m) /\ Returned(m) /\ Free(m)
             /\ UNCHANGED <<prog, eager, inside, flags, target, refused>>
    <3>1. CASE x = m
      BY <1>0, <1>1, <2>1, <2>3, <3>1, StartHistory
    <3>2. CASE x # m
      <4>1. x[1] # m[1]
        BY <2>3, <3>2, OneWorker
      <4>2. LibSame(x)
        BY <1>0, <1>1, <2>1, <2>3, <4>1, StartEffect DEF LibSame
      <4>3. done'[x] = done[x]
        BY <1>3, <2>3, <3>2
      <4>4. Stays(x)
        BY <1>0, <2>3, <4>3, Places DEF Stays
      <4> QED BY <1>0, <1>1, <2>3, <4>2, <4>4, KeptHistory
    <3> QED BY <3>1, <3>2
  <2>4. CASE ~Works(m) /\ Returned(m) /\ UNCHANGED <<prog, flags, lib, target>>
    BY <1>2, <1>3, <2>4
  <2> QED BY <1>5, <2>2, <2>3, <2>4 DEF issend_irecv
<1>6. ASSUME NEW m \in Members, EnterWait(m) PROVE Kept
  BY <1>2, <1>6 DEF EnterWait
<1>7. ASSUME NEW m \in Members, SkipWait(m) PROVE Kept
  BY <1>2, <1>3, <1>7 DEF SkipWait
<1>8. ASSUME NEW m \in Members, waitIssend_waitIrecv(m) PROVE Kept
  <2>1. Works(m)
    <3>1. /\ Is(m, "wait_issend") \/ Is(m, "wait_irecv")
          /\ m[1] \in Ranks /\ inside[m[1]] = {m[2]} /\ m = <<m[1], m[2]>>
      BY <1>0, <1>8, CodeTypes DEF waitIssend_waitIrecv
    <3>2. Pos(m) # 0 /\ ~AtEnd(m)
      BY <1>0, <3>1, InProgram
    <3>3. PICK c \in Codes : /\ inside[m[1]] = {c}
                             /\ Pos(<<m[1], c>>) = 0 \/ AtEnd(<<m[1], c>>) \/ Works(<<m[1], c>>)
      BY <1>0, <3>1 DEF TakeTurns
    <3>4. c = m[2]
      BY <3>1, <3>3
    <3> QED BY <3>1, <3>2, <3>3, <3>4
  <2>2. CASE x = m
    BY <1>8, <2>1, <2>2, WaitHistory
  <2>3. CASE x # m
    <3>1. x[1] # m[1]
      BY <2>1, <2>3, OneWorker
    <3>2. /\ Returned(m) /\ prog' = prog /\ exch' = exch /\ request' = request
          /\ sendYet'[x] = sendYet[x] /\ recvYet'[x] = recvYet[x]
          /\ \A y \in Members : y[1] = x[1] => target'[y] = target[y]
      <4>1. Returned(m) /\ prog' = prog /\ exch' = exch /\ request' = request
        BY <1>8 DEF waitIssend_waitIrecv
      <4>2. \A y \in Members : y[1] # m[1] =>
              target'[y] = target[y] /\ sendYet'[y] = sendYet[y] /\ recvYet'[y] = recvYet[y]
        BY <1>8 DEF waitIssend_waitIrecv, Senders, Receivers
      <4> QED BY <3>1, <4>1, <4>2
    <3>3. done'[x] = done[x]
      BY <1>3, <2>3, <3>2
    <3>4. Stays(x) /\ LibSame(x)
      BY <1>0, <3>2, <3>3, Places DEF Stays, LibSame
    <3> QED BY <1>0, <1>1, <3>2, <3>4, KeptHistory
  <2> QED BY <2>2, <2>3
<1>9. ASSUME NEW m \in Members, EnterEnd(m) PROVE Kept
  BY <1>2, <1>9 DEF EnterEnd
<1>12. ASSUME NEW c \in Codes, time_step_end(c) PROVE Kept
  <2>1. /\ \A r \in RanksOf[c] : AtEnd(<<r, c>>)
        /\ done'[x] = IF x[2] = c THEN done[x] + 1 ELSE done[x]
        /\ sendYet'[x] = IF x[2] = c THEN {} ELSE sendYet[x]
        /\ recvYet'[x] = IF x[2] = c THEN {} ELSE recvYet[x]
        /\ UNCHANGED <<prog, lib, target>>
    BY <1>12 DEF time_step_end, ResetFlags
  <2>2. LibSame(x)
    BY <2>1 DEF LibSame
  <2>3. CASE x[2] = c
    <3>1. AtEnd(x) /\ done'[x] = done[x] + 1
      BY <1>1, <2>1, <2>3, CodeTypes
    <3>2. Finishes(x)
      BY <1>0, <2>1, <3>1, Places DEF Finishes
    <3> QED BY <1>0, <1>1, <2>1, <2>2, <2>3, <3>2, KeptHistory
  <2>4. CASE x[2] # c
    <3>1. Stays(x)
      BY <1>0, <2>1, <2>4, Places DEF Stays
    <3> QED BY <1>0, <1>1, <2>1, <2>2, <2>4, <3>1, KeptHistory
  <2> QED BY <2>3, <2>4
<1>10. ASSUME NEW c \in Codes, time_step_beg(c) PROVE Kept
  <2>1. /\ \A r \in RanksOf[c] : Pos(<<r, c>>) = 0
        /\ done'[x] = IF x[2] = c THEN done[x] + 1 ELSE done[x]
        /\ UNCHANGED <<prog, flags, lib, target>>
    BY <1>10 DEF time_step_beg
  <2>2. LibSame(x)
    BY <2>1 DEF LibSame
  <2>3. CASE x[2] = c
    <3>1. Pos(x) = 0 /\ done'[x] = done[x] + 1
      BY <1>1, <2>1, <2>3, CodeTypes
    <3>2. ~AtEnd(x)
      BY <1>0, <1>1, <3>1, Places
    <3>3. Enters(x)
      BY <1>0, <2>1, <3>1, <3>2, Places DEF Enters
    <3> QED BY <1>0, <1>1, <2>1, <2>2, <3>3, KeptHistory
  <2>4. CASE x[2] # c
    BY <1>2, <2>1, <2>4
  <2> QED BY <2>3, <2>4
<1>11. CASE UNCHANGED vars
  BY <1>2, <1>11 DEF vars
<1> QED BY <1>4, <1>5, <1>6, <1>7, <1>8, <1>9, <1>10, <1>11, <1>12 DEF Next, Step

\* At the start no exchange is made, and no call is over.
LEMMA AtStart == ExchangeAssumption /\ Init => IInv
<1> SUFFICES ASSUME ExchangeAssumption, Init PROVE IInv
  OBVIOUS
<1>1. TypeOK
  <2>1. <<>> \in Seq([field : Fields, step : Nat, data : Nat]) /\ Len(<<>>) = 0
    OBVIOUS
  <2>2. exch \in [Codes -> [Ranks -> Seq([field : Fields, step : Nat, data : Nat])]]
    BY <2>1 DEF Init
  <2>3. request \in [Codes -> [Ranks -> [Fields -> Nat]]]
    BY DEF Init
  <2>4. \A c \in Codes, r \in Ranks, f \in Fields : request[c][r][f] <= Len(exch[c][r])
    BY <2>1 DEF Init
  <2> QED BY <2>2, <2>3, <2>4 DEF Init, TypeOK
<1>2. ASSUME NEW m \in Members PROVE Pos(m) = 0 /\ Now(m) = 1 /\ OverTo(m) = 0
  <2>1. Period \in Nat /\ Period > 0
    BY <1>1, ProgramType DEF TypeOK, Period
  <2>2. done[m] = 0
    BY DEF Init
  <2> HIDE DEF Period
  <2>3. (0 % Period) = 0 /\ (0 \div Period) = 0
    <3>1. /\ (0 \div Period) \in Nat /\ (0 % Period) \in Nat /\ (0 % Period) < Period
          /\ 0 = Period * (0 \div Period) + (0 % Period)
      BY <2>1, Division
    <3>2. Period * 0 + 0 = Period * (0 \div Period) + (0 % Period)
      BY <2>1, <3>1
    <3> QED BY <2>1, <3>1, <3>2, OneDivision
  <2> QED BY <2>2, <2>3 DEF Pos, Now, OverTo
<1>3. TakeTurns
  BY OneWorker DEF Init, TakeTurns
<1>4. ASSUME NEW m \in Members, Works(m) PROVE Account(m) /\ Brought(m)
  <2>1. m[1] \in Ranks /\ m[2] \in Codes /\ Pos(m) = 0 /\ Now(m) = 1 /\ OverTo(m) = 0
        /\ Len(prog["A"]) \in Nat
    BY <1>1, <1>2, CodeTypes, OverToStep, ProgramType DEF TypeOK
  <2>2. \A d \in Codes : exch[d][m[1]] = <<>> /\ \A f \in Fields : request[d][m[1]][f] = 0
    BY <2>1 DEF Init
  <2>3. Len(<<>>) = 0 /\ 1 .. 0 = {}
    OBVIOUS
  <2>4. Counted(m)
    <3> SUFFICES ASSUME NEW d \in Codes
                 PROVE  Len(exch[d][m[1]]) = (Now(m) - 1) * PerStep(m, d) + Count(prog, m[2], d, OverTo(m))
      BY DEF Counted
    <3>1. PerStep(m, d) \in Nat /\ Count(prog, m[2], d, 0) = 0
      BY <2>1, CountStep DEF PerStep
    <3>2. (1 - 1) * PerStep(m, d) = 0
      BY <3>1
    <3> QED BY <2>1, <2>2, <2>3, <3>1, <3>2
  <2>5. Logged(m) /\ LastRequest(m)
    BY <2>2, <2>3 DEF Logged, LastRequest
  <2>6. FlagsOver(m)
    BY <2>1 DEF FlagsOver, Over, Init
  <2>7. NoRepeat(m)
    <3>1. prog \in Programs
      BY DEF Init
    <3>2. DOMAIN prog[m[2]] = 1 .. Len(prog["A"])
      BY <2>1, <3>1, ProgramType
    <3> QED BY <2>1, <3>2 DEF NoRepeat
  <2>8. Brought(m)
    BY <2>1 DEF Brought, LastStep
  <2> QED BY <2>4, <2>5, <2>6, <2>7, <2>8 DEF Account
<1> QED BY <1>1, <1>3, <1>4 DEF IInv, Accounts

-----------------------------------------------------------------------------
(* What the invariant says of the state. *)

\* Every rank has a member that works.
LEMMA SomeWorker == \A r \in Ranks : \E w \in Members : w[1] = r /\ Works(w)
<1> SUFFICES ASSUME NEW r \in Ranks PROVE \E w \in Members : w[1] = r /\ Works(w)
  OBVIOUS
<1>1. PICK c \in Codes : r \in RanksOf[c]
  BY CodeTypes DEF Ranks
<1>2. <<r, c>> \in Members
  BY <1>1, CodeTypes
<1>3. CASE Works(<<r, c>>)
  BY <1>2, <1>3
<1>4. CASE ~Works(<<r, c>>)
  BY <1>2, <1>4, OneWorker DEF Partner
<1> QED BY <1>3, <1>4

\* The invariant implies that a field is exchanged once in a step, ...
LEMMA OnceLemma == ExchangeAssumption /\ Accounts => OncePerStep
<1> SUFFICES ASSUME ExchangeAssumption, Accounts, NEW d \in Codes, NEW r \in Ranks,
                    NEW i \in DOMAIN exch[d][r], NEW j \in DOMAIN exch[d][r],
                    exch[d][r][i].field = exch[d][r][j].field,
                    exch[d][r][i].step = exch[d][r][j].step
             PROVE  i = j
  BY DEF OncePerStep
<1>1. PICK m \in Members : m[1] = r /\ Works(m)
  BY SomeWorker
<1>2. TypeOK /\ Logged(m) /\ NoRepeat(m)
  BY <1>1 DEF Accounts, Account
<1>3. i \in 1 .. Len(exch[d][m[1]]) /\ j \in 1 .. Len(exch[d][m[1]])
  <2>1. exch[d][r] \in Seq([field : Fields, step : Nat, data : Nat])
    <3>1. exch \in [Codes -> [Ranks -> Seq([field : Fields, step : Nat, data : Nat])]]
      BY <1>2 DEF TypeOK
    <3> QED BY <3>1
  <2>2. DOMAIN exch[d][r] = 1 .. Len(exch[d][r])
    BY <2>1
  <2> QED BY <1>1, <2>2
<1> DEFINE u == exch[d][m[1]][i]  v == exch[d][m[1]][j]  N == PerStep(m, d)
<1>4. /\ u.step \in 1 .. Now(m)
      /\ \E g \in StartsTo(prog, m[2], d, Len(prog["A"])) :
           /\ u.field = prog[m[2]][g].field
           /\ i = (u.step - 1) * N + Count(prog, m[2], d, g)
           /\ u.step = Now(m) => g <= OverTo(m)
  BY <1>2, <1>3, LogEntry
<1>5. \E h \in StartsTo(prog, m[2], d, Len(prog["A"])) :
        /\ v.field = prog[m[2]][h].field
        /\ j = (v.step - 1) * N + Count(prog, m[2], d, h)
        /\ v.step = Now(m) => h <= OverTo(m)
  BY <1>2, <1>3, LogEntry
<1>6. u.step = v.step /\ u.field = v.field
  BY <1>1
<1> HIDE DEF u, v, N
<1>7. PICK g \in StartsTo(prog, m[2], d, Len(prog["A"])) :
        /\ u.field = prog[m[2]][g].field
        /\ i = (u.step - 1) * N + Count(prog, m[2], d, g)
        /\ u.step = Now(m) => g <= OverTo(m)
  BY <1>4
<1>8. PICK h \in StartsTo(prog, m[2], d, Len(prog["A"])) :
        /\ v.field = prog[m[2]][h].field
        /\ j = (v.step - 1) * N + Count(prog, m[2], d, h)
        /\ v.step = Now(m) => h <= OverTo(m)
  BY <1>5
<1>9. g = h
  <2>1. /\ prog \in Programs /\ m[2] \in Codes /\ Len(prog["A"]) \in Nat
        /\ DOMAIN prog[m[2]] = 1 .. Len(prog["A"])
    <3>1. prog \in Programs /\ m[2] \in Codes
      BY <1>2, CodeTypes DEF TypeOK
    <3> QED BY <3>1, ProgramType
  <2>2. /\ g \in 1 .. Len(prog["A"]) /\ h \in 1 .. Len(prog["A"])
        /\ prog[m[2]][g].op = StartOp(m[2], d) /\ prog[m[2]][h].op = StartOp(m[2], d)
    BY DEF StartsTo
  <2>3. prog[m[2]][g] = prog[m[2]][h]
    <3>1. /\ prog[m[2]][g] = [op |-> prog[m[2]][g].op, field |-> prog[m[2]][g].field]
          /\ prog[m[2]][h] = [op |-> prog[m[2]][h].op, field |-> prog[m[2]][h].field]
      BY <2>1, <2>2, ProgramType
    <3> QED BY <1>6, <1>7, <1>8, <2>2, <3>1
  <2>4. (g <= OverTo(m) /\ h <= OverTo(m)) \/ Now(m) > 1
    <3>1. Now(m) \in Nat
      BY <1>2, Places
    <3> QED BY <1>4, <1>6, <1>7, <1>8, <3>1
  <2>5. prog[m[2]][g].op \in {"issend", "irecv"}
    BY <2>2 DEF StartOp
  <2>6. ~(g < h) /\ ~(h < g)
    BY <1>2, <2>1, <2>2, <2>3, <2>4, <2>5 DEF NoRepeat
  <2> QED BY <2>2, <2>6
<1> QED BY <1>6, <1>7, <1>8, <1>9

\* ... that a step delivers the data of that step, ...
LEMMA DeliveredLemma == ExchangeAssumption /\ Disciplined /\ IInv => StepDelivered
<1> SUFFICES ASSUME ExchangeAssumption, Disciplined, IInv, NEW m \in Members, NEW f \in Fields,
                    AtEnd(m), IsJoint(m) => done[Partner(m)] >= done[m],
                    Over(m, "wait_irecv", f)
             PROVE  target[m][f] = [s \in RanksOf[Other[m[2]]] |-> [field |-> f, data |-> Now(m)]]
  BY DEF StepDelivered
<1>1. TypeOK /\ TakeTurns /\ \A x \in Members : Works(x) => Brought(x)
  BY DEF IInv, Accounts
<1>2. prog \in Programs /\ m[2] \in Codes /\ m = <<m[1], m[2]>> /\ SameWaits(prog)
  BY <1>1, CodeTypes DEF TypeOK, Disciplined
<1>3. /\ Len(prog["A"]) \in Nat /\ DOMAIN prog[m[2]] = 1 .. Len(prog["A"])
      /\ DOMAIN prog[Other[m[2]]] = 1 .. Len(prog["A"])
  BY <1>2, ProgramType, CodeTypes
<1>4. Pos(m) = Len(prog["A"]) + 1 /\ Now(m) \in Nat \ {0}
  BY <1>1, Places
<1>5. PICK i \in 1 .. Len(prog["A"]) : prog[m[2]][i] = [op |-> "wait_irecv", field |-> f]
  BY <1>3, <1>4 DEF Over
\* A worker at the end of the step, or after it, has what its waits have brought.
<1>6. ASSUME NEW w \in Members, Works(w), w[1] = m[1], NEW j \in 1 .. Len(prog["A"]),
             prog[w[2]][j] = [op |-> WaitOp(w[2], Other[m[2]]), field |-> f],
             \/ Pos(w) = Len(prog["A"]) + 1 /\ Now(w) = Now(m)
             \/ Pos(w) = 0 /\ Now(w) = Now(m) + 1
      PROVE  target[m][f] = [s \in RanksOf[Other[m[2]]] |-> [field |-> f, data |-> Now(m)]]
  <2>1. LastTo(w) = Len(prog["A"]) /\ LastStep(w) = Now(m)
    <3>1. Len(prog["A"]) \in Nat /\ Now(m) \in Nat
      BY <1>3, <1>4
    <3>2. CASE Pos(w) = Len(prog["A"]) + 1 /\ Now(w) = Now(m)
      BY <3>1, <3>2 DEF LastTo, LastStep
    <3>3. CASE Pos(w) = 0 /\ Now(w) = Now(m) + 1
      BY <3>1, <3>3 DEF LastTo, LastStep
    <3> QED BY <1>6, <3>2, <3>3
  <2>2. Brought(w)
    BY <1>1, <1>6
  <2>3. m[1] = w[1] /\ LastStep(w) > 0 /\ j \in 1 .. LastTo(w)
    BY <1>4, <1>6, <2>1
  <2>4. target[m][f] = [s \in RanksOf[Other[m[2]]] |-> [field |-> f, data |-> LastStep(w)]]
    BY <1>6, <2>2, <2>3 DEF Brought
  <2> QED BY <2>1, <2>4
<1>7. CASE Works(m)
  <2>1. WaitOp(m[2], Other[m[2]]) = "wait_irecv"
    BY <1>2, CodeTypes DEF WaitOp
  <2> QED BY <1>4, <1>5, <1>6, <1>7, <2>1
<1>8. CASE ~Works(m)
  <2> DEFINE w == Partner(m)
  <2>1. IsJoint(m) /\ m[2] = "B" /\ w \in Members /\ Works(w) /\ w[1] = m[1] /\ w[2] = "A"
        /\ IsJoint(w) /\ Partner(w) = m
    BY <1>2, <1>8, OneWorker, CodeTypes DEF Partner, IsJoint
  <2>2. done[w] = done[m] \/ done[w] = done[m] + 1
    <3>1. done[w] >= done[m] /\ done[w] <= done[m] + 1
      BY <1>1, <2>1 DEF TakeTurns
    <3>2. done[w] \in Nat /\ done[m] \in Nat
      BY <1>1, <2>1 DEF TypeOK
    <3> HIDE DEF w
    <3> QED BY <3>1, <3>2
  <2>3. PICK j \in 1 .. Len(prog["A"]) : prog["A"][j] = [op |-> "wait_issend", field |-> f]
    <3>1. \E j \in DOMAIN prog[Other[m[2]]] :
            prog[Other[m[2]]][j] = [op |-> "wait_issend", field |-> prog[m[2]][i].field]
      <4>1. i \in DOMAIN prog[m[2]] /\ prog[m[2]][i].op = "wait_irecv"
        BY <1>3, <1>5
      <4> QED BY <1>2, <4>1 DEF SameWaits
    <3> QED BY <1>3, <1>5, <2>1, <3>1, CodeTypes
  <2>4. \/ Pos(w) = Len(prog["A"]) + 1 /\ Now(w) = Now(m)
        \/ Pos(w) = 0 /\ Now(w) = Now(m) + 1
    BY <1>1, <1>4, <2>1, <2>2, Ahead
  <2>5. WaitOp("A", Other[m[2]]) = "wait_issend"
    BY <2>1, CodeTypes DEF WaitOp
  <2> HIDE DEF w
  <2> QED BY <1>6, <2>1, <2>3, <2>4, <2>5
<1> QED BY <1>7, <1>8

\* A call that is refused has been made before in the step.
LEMMA RefusedOnce ==
  ASSUME ExchangeAssumption, Disciplined, IInv, NEW m \in Members,
         NEW op \in {"issend", "irecv"}, Is(m, op), Refuses(m)
  PROVE  \E i \in DOMAIN exch[Direction(m)][m[1]] :
           /\ exch[Direction(m)][m[1]][i].field = Call(m).field
           /\ exch[Direction(m)][m[1]][i].step = Now(m)
<1> DEFINE c == Direction(m)  f == Call(m).field  a == m[2]
<1>1. TypeOK /\ TakeTurns /\ \A x \in Members : Works(x) => Account(x)
  BY DEF IInv, Accounts
<1>2. /\ Pos(m) \in 1 .. Len(prog["A"]) /\ c \in Codes /\ f \in Fields
      /\ prog[a][Pos(m)] = Call(m) /\ Call(m).op = op
      /\ Call(m) = [op |-> StartOp(a, c), field |-> f]
  BY <1>1, InProgram
<1>3. prog \in Programs /\ a \in Codes /\ m[1] \in Ranks /\ WaitsAfter(prog) /\ JointOrder(prog)
  BY <1>1, CodeTypes DEF TypeOK, Disciplined
<1>4. DOMAIN prog[a] = 1 .. Len(prog["A"]) /\ Len(prog["A"]) \in Nat
  BY <1>3, ProgramType
<1>5. op = "issend" <=> c = a
  BY <1>2, <1>3, CodeTypes DEF Direction
<1>6. Works(m) /\ (IsJoint(m) => a = "A" /\ f \in sendYet[m] \cup recvYet[m])
      /\ (~IsJoint(m) => f \in IF op = "issend" THEN sendYet[m] ELSE recvYet[m])
  BY <1>2 DEF Refuses, Works
<1>7. FlagsOver(m) /\ Counted(m) /\ Logged(m)
  BY <1>1, <1>6 DEF Account
<1> HIDE DEF c, f, a
<1>8. PICK i \in 1 .. Pos(m) - 1 : prog[a][i] = Call(m)
  <2>1. CASE IsJoint(m)
    <3>1. PICK o \in {"wait_issend", "wait_irecv"} : Over(m, o, f)
      BY <1>2, <1>6, <1>7, <2>1 DEF FlagsOver
    <3>2. PICK k \in 1 .. Pos(m) - 1 : prog[a][k] = [op |-> o, field |-> f]
      BY <3>1 DEF Over, a
    <3>3. RanksA \cap RanksB # {}
      BY <2>1 DEF IsJoint
    <3>4. a = "A"
      BY <1>6, <2>1
    <3>5. /\ k \in DOMAIN prog["A"] /\ Pos(m) \in DOMAIN prog["A"] /\ k < Pos(m)
          /\ prog["A"][k].field = prog["A"][Pos(m)].field
          /\ prog["A"][k].op \in {"wait_issend", "wait_irecv"}
          /\ prog["A"][Pos(m)].op \in {"issend", "irecv"}
      BY <1>2, <1>4, <3>2, <3>4 DEF f
    <3>6. \E i \in 1 .. Pos(m) - 1 : prog["A"][i] = prog["A"][Pos(m)]
      BY <1>3, <3>3, <3>5 DEF JointOrder
    <3> QED BY <1>2, <3>4, <3>6
  <2>2. CASE ~IsJoint(m)
    <3>1. Over(m, WaitOp(a, c), f)
      BY <1>2, <1>5, <1>6, <1>7, <2>2 DEF FlagsOver, WaitOp
    <3>2. PICK k \in 1 .. Pos(m) - 1 : prog[a][k] = [op |-> WaitOp(a, c), field |-> f]
      BY <3>1 DEF Over, a
    <3>3. \A j \in DOMAIN prog[a] :
            prog[a][j] = [op |-> WaitOp(a, c), field |-> f] =>
              \E i \in 1 .. j - 1 : prog[a][i] = [op |-> StartOp(a, c), field |-> f]
      <4>1. c \in Codes /\ f \in Fields /\ a \in Codes /\ WaitsAfter(prog)
        BY <1>2, <1>3
      <4> QED BY Zenon, <4>1 DEF WaitsAfter
    <3>4. PICK i \in 1 .. k - 1 : prog[a][i] = [op |-> StartOp(a, c), field |-> f]
      <4>1. k \in DOMAIN prog[a]
        BY <1>2, <1>4
      <4> QED BY Zenon, <3>2, <3>3, <4>1
    <3>5. i \in 1 .. Pos(m) - 1
      BY <1>2
    <3> QED BY <1>2, <3>4, <3>5
  <2> QED BY <2>1, <2>2
<1>9. i \in 1 .. OverTo(m) /\ prog[m[2]][i].op = StartOp(m[2], c) /\ prog[m[2]][i].field = f
  BY <1>2, <1>8 DEF OverTo, a
<1> DEFINE k == (Now(m) - 1) * PerStep(m, c) + Count(prog, m[2], c, i)
<1>10. k \in 1 .. Len(exch[c][m[1]]) /\ exch[c][m[1]][k].field = f /\ exch[c][m[1]][k].step = Now(m)
  BY <1>1, <1>2, <1>7, <1>9, EntryOfCall
<1>11. DOMAIN exch[c][m[1]] = 1 .. Len(exch[c][m[1]])
  <2>1. exch \in [Codes -> [Ranks -> Seq([field : Fields, step : Nat, data : Nat])]]
    BY <1>1 DEF TypeOK
  <2> QED BY <1>2, <1>3, <2>1
<1> HIDE DEF k
<1> QED BY <1>10, <1>11 DEF c, f

\* ... and that a call is refused only as a repeat.
LEMMA RefusedLemma ==
  ASSUME ExchangeAssumption, Disciplined, IInv, OnlyRepeatsRefused, [Next]_vars
  PROVE  OnlyRepeatsRefused'
<1> USE DEF flags, lib
<1>1. CASE UNCHANGED vars
  <2>1. /\ refused' = refused /\ exch' = exch
        /\ \A m : Direction(m)' = Direction(m)
    BY <1>1 DEF vars, Direction, Call, Pos, Period
  <2> QED BY <2>1 DEF OnlyRepeatsRefused
<1>2. ASSUME NEW m \in Members, issend_irecv(m), Refuses(m), Refuse(m) PROVE OnlyRepeatsRefused'
  <2>1. PICK op \in {"issend", "irecv"} : Is(m, op)
    BY <1>2 DEF issend_irecv
  <2>2. PICK i \in DOMAIN exch[Direction(m)][m[1]] :
          /\ exch[Direction(m)][m[1]][i].field = Call(m).field
          /\ exch[Direction(m)][m[1]][i].step = Now(m)
    BY <1>2, <2>1, RefusedOnce
  <2>3. refused' = [member |-> m, call |-> Call(m), step |-> Now(m)] /\ exch' = exch
        /\ prog' = prog /\ done' = done
    BY <1>2 DEF Refuse
  <2>4. refused'.member = m /\ refused'.call.field = Call(m).field /\ refused'.step = Now(m)
    BY <2>3
  <2>5. Direction(m)' = Direction(m)
    BY <2>3 DEF Direction, Call, Pos, Period
  <2> QED BY <2>2, <2>3, <2>4, <2>5 DEF OnlyRepeatsRefused
<1>3. CASE Next /\ refused' = refused
  BY <1>3 DEF Next, OnlyRepeatsRefused
<1>4. ASSUME NEW m \in Members, issend_irecv(m), ~(Refuses(m) /\ Refuse(m)) PROVE refused' = refused
  BY <1>4 DEF issend_irecv
<1>5. ASSUME NEW m \in Members,
             EnterBegin(m) \/ EnterWait(m) \/ SkipWait(m) \/ waitIssend_waitIrecv(m) \/ EnterEnd(m)
      PROVE  refused' = refused
  BY <1>5 DEF EnterBegin, EnterWait, SkipWait, waitIssend_waitIrecv, EnterEnd
<1>6. ASSUME NEW c \in Codes, time_step_beg(c) \/ time_step_end(c) PROVE refused' = refused
  BY <1>6 DEF time_step_beg, time_step_end
<1> QED BY <1>1, <1>2, <1>3, <1>4, <1>5, <1>6 DEF Next, Step

-----------------------------------------------------------------------------
(* The theorems. *)

\* Whatever the calls of the codes are, every variable has its type; the
\* request a wait uses is always that of an exchange the rank has started.
THEOREM TypeCorrect == Spec => []TypeOK
<1>1. Init => TypeOK
  BY AtStart, ExchangeAssumption DEF IInv, Accounts
<1>2. TypeOK /\ [Next]_vars => TypeOK'
  BY Types, ExchangeAssumption
<1> QED BY <1>1, <1>2, PTL DEF Spec

\* Codes that wait for an exchange before they start it again keep the logs of
\* the exchanges and the status of the fields in step with their calls, whatever
\* the order of the exchanges is on either side.
THEOREM Accounting == ASSUME Paced PROVE Spec => []Accounts
<1>1. Init => Accounts
  BY AtStart, ExchangeAssumption DEF IInv
<1>2. Accounts /\ [Next]_vars => Accounts'
  <2> SUFFICES ASSUME Accounts, [Next]_vars PROVE Accounts'
    OBVIOUS
  <2>1. TypeOK' /\ TakeTurns'
    BY Types, Turns, ExchangeAssumption DEF Accounts
  <2>2. \A m \in Members : Works(m) => Account(m)'
    BY Histories, ExchangeAssumption
  <2> QED BY <2>1, <2>2 DEF Accounts, Works, IsJoint
<1> QED BY <1>1, <1>2, PTL DEF Spec

\* Codes that make the exchanges of the coupling in one order keep the logs of
\* the exchanges, the status of the fields and the data received in step.
THEOREM Invariance == ASSUME Disciplined PROVE Spec => []IInv
<1>1. Init => IInv
  BY AtStart, ExchangeAssumption
<1>2. IInv /\ [Next]_vars => IInv'
  <2> SUFFICES ASSUME IInv, [Next]_vars PROVE IInv'
    OBVIOUS
  <2>1. Paced
    BY DEF Paced, Disciplined
  <2>2. TypeOK' /\ TakeTurns'
    BY Types, Turns, ExchangeAssumption DEF IInv, Accounts
  <2>3. \A m \in Members : Works(m) => Account(m)' /\ Brought(m)'
    BY <2>1, Histories, ExchangeAssumption DEF IInv
  <2> QED BY <2>2, <2>3 DEF IInv, Accounts, Works, IsJoint
<1> QED BY <1>1, <1>2, PTL DEF Spec

\* Each code finds, at the end of every time step, the data that the other set
\* in that step, in every field it has waited for and from every rank of it.
THEOREM Delivery == ASSUME Disciplined PROVE Spec => []StepDelivered
<1>1. IInv => StepDelivered
  BY DeliveredLemma, ExchangeAssumption
<1> QED BY <1>1, Invariance, PTL

\* "Each field can only be exchanged once within a time step": where the codes
\* wait for an exchange before they start it again, the repeat is refused.  (The
\* code lets a repeat before the first wait through.)
THEOREM ExchangedOnce == ASSUME Paced PROVE Spec => []OncePerStep
<1>1. Accounts => OncePerStep
  BY OnceLemma, ExchangeAssumption
<1> QED BY <1>1, Accounting, PTL

\* PDM_error ends a run for "The field has already been exchanged for the
\* current time step" only when that is so.
THEOREM RefusedForCause == ASSUME Disciplined PROVE Spec => []OnlyRepeatsRefused
<1>1. Init => OnlyRepeatsRefused
  BY DEF Init, OnlyRepeatsRefused
<1>2. IInv /\ OnlyRepeatsRefused /\ [Next]_vars => OnlyRepeatsRefused'
  BY RefusedLemma, ExchangeAssumption
<1> QED BY <1>1, <1>2, Invariance, PTL DEF Spec
=============================================================================

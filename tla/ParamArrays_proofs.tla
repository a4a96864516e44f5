-------------------------- MODULE ParamArrays_proofs --------------------------
(***************************************************************************)
(* Proofs about the packed arrays of the control parameters, for every     *)
(* number and size of the parameters: while no entry is deleted, a search  *)
(* finds what was added and nothing else, and no name leaves its array;    *)
(* while no string changes its size either, what is found has the value    *)
(* last given to it.                                                       *)
(*                                                                         *)
(* The argument: n strings, each shorter than StrSize, laid one after the  *)
(* other, end before n * StrSize (Ordered); a string appended there lands  *)
(* behind the others (Appended) and one of the same size written in place  *)
(* touches no other (Rewritten).                                           *)
(***************************************************************************)
EXTENDS ParamArrays, TLAPS

-----------------------------------------------------------------------------
(* Arithmetic, and strings in arrays. *)

\* The sizes of the arrays are natural numbers.
LEMMA Sizes ==
  /\ Capacity \in Nat /\ MaxParam \in Nat /\ StrSize \in Nat /\ NStr \in Nat
  /\ NStr < MaxParam /\ Capacity = MaxParam * StrSize
BY ArraysAssumption DEF Capacity

\* m strings fit, and one more takes StrSize cells.
LEMMA Room ==
  ASSUME NEW m \in 0 .. MaxParam
  PROVE  /\ m * StrSize \in Nat /\ m * StrSize <= Capacity
         /\ (m + 1) * StrSize = m * StrSize + StrSize
<1>1. (m + 1) * StrSize = m * StrSize + StrSize
  BY Sizes
<1>2. m * StrSize \in Nat
  BY Sizes
<1>3. m * StrSize <= MaxParam * StrSize
  BY Sizes
<1> QED
  BY <1>1, <1>2, <1>3, Sizes

\* Ordered indexes are cells, or the end, of a packed array.
LEMMA OrderedFit ==
  ASSUME NEW idx, NEW m \in 0 .. MaxParam, Ordered(idx, m)
  PROVE  \A i \in 0 .. m : idx[i] \in 0 .. Capacity
<1> TAKE i \in 0 .. m
<1>1. i \in 0 .. MaxParam
  BY Sizes
<1>2. i * StrSize \in Nat /\ i * StrSize <= Capacity
  BY <1>1, Room
<1>3. idx[i] \in 0 .. i * StrSize
  BY DEF Ordered
<1> QED
  BY <1>2, <1>3, Sizes

\* What lies between two such indexes are cells.
LEMMA Between ==
  ASSUME NEW first \in 0 .. Capacity, NEW last \in 0 .. Capacity
  PROVE  \A k \in first .. last - 1 : k \in Cells
BY Sizes DEF Cells

\* An interval inside another.
LEMMA Within ==
  ASSUME NEW c \in Nat, NEW p \in Nat, p <= c, NEW k \in 0 .. p
  PROVE  k \in 0 .. c
OBVIOUS

\* The size of a packed string.
LEMMA PackedSize ==
  ASSUME NEW a, NEW first \in Int, NEW last \in Int, first <= last,
         Packed(a, first, last) \in Seq(Characters)
  PROVE  Len(Packed(a, first, last)) = last - first
<1>1. DOMAIN Packed(a, first, last) = 1 .. last - first
  BY DEF Packed
<1>2. DOMAIN Packed(a, first, last) = 1 .. Len(Packed(a, first, last))
  OBVIOUS
<1>3. Len(Packed(a, first, last)) \in Nat
  OBVIOUS
<1> QED
  BY <1>1, <1>2, <1>3

\* A string is found again where it was copied to.
LEMMA CopyReadBack ==
  ASSUME NEW a, NEW s \in Seq(Characters), NEW at \in Int,
         \A k \in at .. at + Len(s) - 1 : k \in DOMAIN a
  PROVE  Packed(CopyTo(a, at, s), at, at + Len(s)) = s
<1> DEFINE b == CopyTo(a, at, s)
<1>1. Len(s) \in Nat /\ s = [k \in 1 .. Len(s) |-> s[k]]
  OBVIOUS
<1>2. \A k \in 1 .. Len(s) : b[at + k - 1] = s[k]
  <2> TAKE k \in 1 .. Len(s)
  <2>1. at + k - 1 \in at .. at + Len(s) - 1
    BY <1>1
  <2>2. at + k - 1 \in DOMAIN a
    BY <2>1
  <2>3. (at + k - 1) - at \in 0 .. Len(s) - 1
    BY <1>1
  <2>4. b[at + k - 1] = s[(at + k - 1) - at + 1]
    BY <2>2, <2>3 DEF CopyTo
  <2> QED
    BY <2>4
<1>3. (at + Len(s)) - at = Len(s)
  BY <1>1
<1>4. Packed(b, at, at + Len(s)) = [k \in 1 .. Len(s) |-> b[at + k - 1]]
  BY <1>3 DEF Packed
<1> HIDE DEF b
<1>5. [k \in 1 .. Len(s) |-> b[at + k - 1]] = [k \in 1 .. Len(s) |-> s[k]]
  BY <1>2
<1> QED
  BY <1>1, <1>4, <1>5 DEF b

\* A copy leaves the strings before and after it alone.
LEMMA CopyElsewhere ==
  ASSUME NEW a, NEW s \in Seq(Characters), NEW at \in Int,
         NEW first \in Int, NEW last \in Int,
         \A k \in first .. last - 1 : k \in DOMAIN a,
         last <= at \/ at + Len(s) <= first
  PROVE  Packed(CopyTo(a, at, s), first, last) = Packed(a, first, last)
<1>1. Len(s) \in Nat
  OBVIOUS
<1>2. \A k \in 1 .. last - first : CopyTo(a, at, s)[first + k - 1] = a[first + k - 1]
  <2> TAKE k \in 1 .. last - first
  <2>1. first + k - 1 \in first .. last - 1
    OBVIOUS
  <2>2. first + k - 1 \in DOMAIN a
    BY <2>1
  <2>3. (first + k - 1) - at \notin 0 .. Len(s) - 1
    BY <1>1, <2>1
  <2> QED
    BY <2>2, <2>3 DEF CopyTo
<1> QED
  BY <1>2 DEF Packed

\* Cells moved by nothing stay.
LEMMA MoveNowhere ==
  ASSUME NEW S, NEW a \in [Cells -> S], NEW first \in Int, NEW last \in Int
  PROVE  Move(a, first, last, 0) = a
<1>1. \A k \in Cells : k \in Int /\ k - 0 = k
  BY Sizes DEF Cells
<1>2. DOMAIN a = Cells
  OBVIOUS
<1>3. Move(a, first, last, 0) = [k \in Cells |-> a[k]]
  BY <1>1, <1>2 DEF Move
<1> QED
  BY <1>3

-----------------------------------------------------------------------------
(* Arrays of strings: n of them, one after the other. *)

\* jdx goes on where idx has m strings, with the end of string s.
Extends(jdx, idx, m, s) ==
  (\A i \in 0 .. m : jdx[i] = idx[i]) /\ jdx[m + 1] = idx[m] + Len(s)

\* The first m strings of b are those of a.
SameStrings(b, jdx, a, idx, m) ==
  \A i \in 0 .. m - 1 : Packed(b, jdx[i], jdx[i + 1]) = Packed(a, idx[i], idx[i + 1])

\* b and jdx hold these m strings, and then s.
Holds(b, jdx, a, idx, m, s) ==
  /\ Ordered(jdx, m + 1) /\ SameStrings(b, jdx, a, idx, m)
  /\ Packed(b, jdx[m], jdx[m + 1]) = s

\* A string appended after m others: the indexes stay in order, the others
\* stay what they are, and the new one is read back.
LEMMA Appended ==
  ASSUME NEW a, DOMAIN a = Cells, NEW idx \in [0 .. MaxParam -> Int],
         NEW m \in 0 .. MaxParam - 1, Ordered(idx, m),
         NEW s \in Seq(Characters), Len(s) < StrSize,
         NEW jdx, Extends(jdx, idx, m, s),
         NEW b, b = CopyTo(a, idx[m], s)
  PROVE  Holds(b, jdx, a, idx, m, s)
<1>1. Len(s) \in Nat /\ m \in Nat /\ m + 1 \in 0 .. MaxParam
  BY Sizes
<1>3. /\ \A i \in 0 .. m : jdx[i] = idx[i] /\ idx[i] \in Int
      /\ jdx[m + 1] = idx[m] + Len(s)
  BY <1>1, Sizes DEF Extends
<1>4. /\ m * StrSize \in Nat
      /\ (m + 1) * StrSize = m * StrSize + StrSize
      /\ (m + 1) * StrSize <= Capacity
  BY <1>1, Room, Sizes
<1>5. idx[m] \in 0 .. m * StrSize
  BY <1>1 DEF Ordered
<1>6. idx[m] + Len(s) \in 0 .. (m + 1) * StrSize
  BY <1>1, <1>4, <1>5, Sizes
<1>7. Ordered(jdx, m + 1)
  <2>1. ASSUME NEW i \in 0 .. m + 1
        PROVE  jdx[i] \in 0 .. i * StrSize
    <3>1. CASE i = m + 1
      BY <3>1, <1>3, <1>6
    <3>2. CASE i \in 0 .. m
      BY <3>2, <1>3 DEF Ordered
    <3> QED
      BY <3>1, <3>2, <1>1
  <2>2. ASSUME NEW i \in 0 .. m + 1, NEW j \in i .. m + 1
        PROVE  jdx[i] <= jdx[j]
    <3>1. CASE j \in 0 .. m
      BY <3>1, <1>1, <1>3 DEF Ordered
    <3>2. CASE j = m + 1 /\ i \in 0 .. m
      <4>1. idx[i] <= idx[m]
        BY <3>2, <1>1 DEF Ordered
      <4> QED
        BY <4>1, <3>2, <1>1, <1>3
    <3>3. CASE j = m + 1 /\ i = m + 1
      BY <3>3, <1>1, <1>3
    <3> QED
      BY <3>1, <3>2, <3>3, <1>1
  <2> QED
    BY <2>1, <2>2 DEF Ordered
<1>8. ASSUME NEW i \in 0 .. m - 1
      PROVE  Packed(b, jdx[i], jdx[i + 1]) = Packed(a, idx[i], idx[i + 1])
  <2>1. i \in 0 .. m /\ i + 1 \in 0 .. m /\ m \in 0 .. m /\ m \in i + 1 .. m
    BY <1>1
  <2>2. idx[i + 1] <= idx[m]
    BY <2>1 DEF Ordered
  <2>3. idx[i] \in 0 .. Capacity /\ idx[i + 1] \in 0 .. Capacity
    <3>1. m \in 0 .. MaxParam
      BY <1>1, Sizes
    <3>2. \A k \in 0 .. m : idx[k] \in 0 .. Capacity
      BY <3>1, OrderedFit
    <3> QED
      BY <2>1, <3>2
  <2>4. \A k \in idx[i] .. idx[i + 1] - 1 : k \in DOMAIN a
    BY <2>3, Between
  <2>5. idx[i] \in Int /\ idx[i + 1] \in Int /\ idx[m] \in Int
    BY <2>1, <1>3
  <2>6. Packed(CopyTo(a, idx[m], s), idx[i], idx[i + 1]) = Packed(a, idx[i], idx[i + 1])
    BY ZenonT(60), <2>2, <2>4, <2>5, CopyElsewhere
  <2> QED
    BY <2>6, <2>1, <1>3
<1>9. Packed(b, jdx[m], jdx[m + 1]) = s
  <2>1. idx[m] \in 0 .. Capacity /\ idx[m] + Len(s) \in 0 .. Capacity
    <3>1. m * StrSize <= Capacity /\ Capacity \in Nat
      BY <1>1, Room, Sizes
    <3>2. idx[m] \in 0 .. Capacity
      BY <3>1, <1>4, <1>5, Within
    <3>3. (m + 1) * StrSize \in Nat
      BY <1>1, Room
    <3> QED
      BY <3>1, <3>2, <3>3, <1>4, <1>6, Within
  <2>2. \A k \in idx[m] .. idx[m] + Len(s) - 1 : k \in DOMAIN a
    BY <2>1, Between
  <2>3. idx[m] \in Int
    BY <2>1
  <2>4. Packed(CopyTo(a, idx[m], s), idx[m], idx[m] + Len(s)) = s
    BY <2>2, <2>3, CopyReadBack
  <2> QED
    BY <2>4, <1>1, <1>3
<1> QED
  BY <1>7, <1>8, <1>9 DEF SameStrings, Holds

\* String i of b is s, the others are those of a.
Replaces(b, a, idx, m, i, s) ==
  /\ Packed(b, idx[i], idx[i + 1]) = s
  /\ \A j \in 0 .. m - 1 : j # i =>
       Packed(b, idx[j], idx[j + 1]) = Packed(a, idx[j], idx[j + 1])

\* A string replaced by one of the same size: it is read back, and the others
\* stay what they are.
LEMMA Rewritten ==
  ASSUME NEW a, DOMAIN a = Cells, NEW idx \in [0 .. MaxParam -> Int],
         NEW m \in 0 .. MaxParam, Ordered(idx, m), NEW i \in 0 .. m - 1,
         NEW s \in Seq(Characters), Len(s) = idx[i + 1] - idx[i],
         NEW b, b = CopyTo(a, idx[i], s)
  PROVE  Replaces(b, a, idx, m, i, s)
<1>1. Len(s) \in Nat /\ m \in Nat
  BY Sizes
<1>2. \A j \in 0 .. m : idx[j] \in 0 .. Capacity
  BY OrderedFit
<1>3. /\ i \in 0 .. m /\ i + 1 \in 0 .. m
      /\ idx[i] \in 0 .. Capacity /\ idx[i + 1] \in 0 .. Capacity
  BY <1>1, <1>2
<1>4. idx[i] + Len(s) = idx[i + 1]
  BY <1>1, <1>3, Sizes
<1>5. \A k \in idx[i] .. idx[i] + Len(s) - 1 : k \in DOMAIN a
  BY <1>3, <1>4, Between
<1>6. idx[i] \in Int
  BY <1>3
<1>7. Packed(CopyTo(a, idx[i], s), idx[i], idx[i] + Len(s)) = s
  BY <1>5, <1>6, CopyReadBack
<1>8. ASSUME NEW j \in 0 .. m - 1, j # i
      PROVE  Packed(b, idx[j], idx[j + 1]) = Packed(a, idx[j], idx[j + 1])
  <2>1. /\ j \in 0 .. m /\ j + 1 \in 0 .. m
        /\ idx[j] \in 0 .. Capacity /\ idx[j + 1] \in 0 .. Capacity
    BY <1>1, <1>2
  <2>2. \A k \in idx[j] .. idx[j + 1] - 1 : k \in DOMAIN a
    BY <2>1, Between
  <2>3. idx[j + 1] <= idx[i] \/ idx[i] + Len(s) <= idx[j]
    <3>1. CASE j < i
      <4>1. i \in j + 1 .. m
        BY <3>1, <2>1, <1>3, <1>1
      <4>2. idx[j + 1] <= idx[i]
        BY <4>1, <2>1 DEF Ordered
      <4> QED
        BY <4>2
    <3>2. CASE j > i
      <4>1. j \in i + 1 .. m
        BY <3>2, <2>1, <1>3, <1>1
      <4>2. idx[i + 1] <= idx[j]
        BY <4>1, <1>3 DEF Ordered
      <4> QED
        BY <4>2, <1>4
    <3> QED
      BY <3>1, <3>2, <1>8, <1>1
  <2>4. idx[j] \in Int /\ idx[j + 1] \in Int
    BY <2>1
  <2>5. Packed(CopyTo(a, idx[i], s), idx[j], idx[j + 1]) = Packed(a, idx[j], idx[j + 1])
    BY ZenonT(60), <2>2, <2>3, <2>4, <1>6, CopyElsewhere
  <2> QED
    BY <2>5
<1> QED
  BY <1>4, <1>7, <1>8 DEF Replaces

-----------------------------------------------------------------------------
(* What a search finds. *)

\* While the packed names are those of the table, an entry is named x exactly
\* when the name packed for it is x: the sizes agree then.
LEMMA Named ==
  ASSUME TypeOK, NamesHeld, NEW x \in Names, NEW i \in 0 .. n - 1
  PROVE  Same(i, x) <=> NameAt(i) = x
<1>1. n \in 0 .. MaxParam /\ i \in 0 .. n /\ i + 1 \in i .. n /\ i + 1 \in 0 .. MaxParam
      /\ i \in 0 .. MaxParam
  BY Sizes DEF TypeOK
<1>2. idxName[i] \in Int /\ idxName[i + 1] \in Int
  BY <1>1 DEF TypeOK
<1>3. idxName[i] <= idxName[i + 1]
  BY <1>1 DEF NamesHeld, Ordered
<1>4. NameAt(i) \in Seq(Characters)
  BY ArraysAssumption DEF NamesHeld
<1>5. Len(NameAt(i)) = NameSize(i)
  BY <1>2, <1>3, <1>4, PackedSize DEF NameAt, NameSize
<1> QED
  BY <1>5 DEF Same, NameAt

\* The search loops stop at the one entry that has the name, if there is one.
LEMMA Found ==
  ASSUME TypeOK, NamesHeld, NEW x \in Names
  PROVE  Matches(x) = {i \in 0 .. n - 1 : NameAt(i) = x}
<1>1. ASSUME NEW i \in Matches(x)
      PROVE  NameAt(i) = x
  BY <1>1, Named DEF Matches
<1>2. ASSUME NEW i \in 0 .. n - 1, NameAt(i) = x
      PROVE  i \in Matches(x)
  <2>1. Same(i, x)
    BY <1>2, Named
  <2>2. ASSUME NEW j \in 0 .. i - 1, Same(j, x)
        PROVE  FALSE
    <3>1. j \in 0 .. n - 1 /\ j # i
      BY DEF TypeOK
    <3>2. NameAt(j) = x
      BY <2>2, <3>1, Named
    <3> QED
      BY <1>2, <3>1, <3>2 DEF NamesHeld
  <2> QED
    BY <2>1, <2>2 DEF Matches
<1> QED
  BY <1>1, <1>2 DEF Matches

-----------------------------------------------------------------------------
(* The inductive invariant. *)

\* A name or a value that was not refused for its size.
LEMMA Short ==
  ASSUME TypeOK, NEW x \in Names, NEW v \in Values, ~TooLong(x, v)
  PROVE  /\ x \in Seq(Characters) /\ Len(x) < StrSize
         /\ kind = "str" => v \in Seq(Characters) /\ Len(v) < StrSize
<1>1. x \in Seq(Characters) /\ Len(x) \in Nat
  BY ArraysAssumption
<1>2. kind = "str" => v \in Seq(Characters) /\ Len(v) \in Nat
  BY ArraysAssumption DEF TypeOK
<1> QED
  BY <1>1, <1>2, Sizes DEF TooLong

\* Nothing is in the arrays at first.
LEMMA Start == Init => IInv
<1> SUFFICES ASSUME Init PROVE IInv
  OBVIOUS
<1>1. 0 * StrSize = 0
  BY Sizes
<1>2. TypeOK
  <2>1. n \in 0 .. MaxParam
    BY Sizes DEF Init
  <2>2. DOMAIN chars = Cells /\ bytes \in [Cells -> Characters \cup {Junk}]
    BY DEF Init
  <2>3. /\ idxName \in [0 .. MaxParam -> Int] /\ idxVal \in [0 .. MaxParam -> Int]
        /\ val \in [0 .. MaxParam - 1 -> Values \cup {Junk}]
        /\ table \in [Names -> Values \cup {None}]
    BY DEF Init
  <2> QED
    BY <2>1, <2>2, <2>3 DEF Init, TypeOK
<1>3. Ordered(idxName, n) /\ Ordered(idxVal, n)
  BY <1>1, Sizes DEF Init, Ordered
<1>4. 0 .. n - 1 = {}
  BY DEF Init
<1>5. NamesHeld
  BY <1>3, <1>4 DEF Init, NamesHeld
<1>6. ValuesHeld
  BY <1>3, <1>4 DEF ValuesHeld
<1> QED
  BY <1>2, <1>5, <1>6 DEF Init, IInv

\* A call that ends with an error changes no array.
LEMMA FailStep ==
  ASSUME IInv, Fail
  PROVE  IInv'
<1>1. /\ kind' = kind /\ n' = n /\ idxName' = idxName /\ chars' = chars /\ idxVal' = idxVal
      /\ bytes' = bytes /\ val' = val /\ table' = table /\ whole' = whole /\ exact' = exact
      /\ failed' = TRUE
  BY DEF Fail, arrays
<1>2. TypeOK'
  BY <1>1 DEF IInv, TypeOK
<1>3. NamesHeld' <=> NamesHeld
  BY <1>1 DEF NamesHeld, NameAt, Ordered
<1>4. ValuesHeld' <=> ValuesHeld
  BY <1>1 DEF ValuesHeld, ValueAt, NameAt, Ordered
<1> QED
  BY <1>1, <1>2, <1>3, <1>4 DEF IInv

\* The room test and the refusal of long strings keep the types.
LEMMA AddTypes ==
  ASSUME IInv, NEW x \in Names, NEW v \in Values, Add(x, v), ~Fail
  PROVE  TypeOK' /\ (kind' = "int" => idxVal' = [k \in 0 .. MaxParam |-> 0])
<1> USE DEF IInv
<1>1. n < MaxParam /\ ~TooLong(x, v)
  BY DEF Add
<1>2. n \in 0 .. MaxParam - 1 /\ n + 1 \in 0 .. MaxParam
  BY <1>1, Sizes DEF TypeOK
<1>3. x \in Seq(Characters) /\ Len(x) \in Nat
  BY <1>1, Short
<1>4. /\ idxName' = [idxName EXCEPT ![n + 1] = idxName[n] + Len(x)]
      /\ chars' = CopyTo(chars, idxName[n], x) /\ AppendValue(v) /\ n' = n + 1
      /\ table' = [table EXCEPT ![x] = v] /\ UNCHANGED <<kind, whole, exact, failed>>
  BY DEF Add
<1>5. idxName' \in [0 .. MaxParam -> Int]
  BY <1>2, <1>3, <1>4, Sizes DEF TypeOK
<1>6. DOMAIN chars' = Cells
  BY <1>4 DEF TypeOK, CopyTo
<1>7. table' \in [Names -> Values \cup {None}]
  BY <1>4 DEF TypeOK
<1>8. /\ idxVal' \in [0 .. MaxParam -> Int]
      /\ bytes' \in [Cells -> Characters \cup {Junk}]
      /\ val' \in [0 .. MaxParam - 1 -> Values \cup {Junk}]
      /\ kind' = "int" => idxVal' = [k \in 0 .. MaxParam |-> 0]
  <2>1. CASE kind = "int"
    BY <2>1, <1>2, <1>4 DEF AppendValue, TypeOK
  <2>2. CASE kind = "str"
    <3>1. v \in Seq(Characters) /\ Len(v) \in Nat
      BY <2>2, <1>1, Short
    <3>2. idxVal' \in [0 .. MaxParam -> Int]
      BY SMTT(30), <2>2, <3>1, <1>2, <1>4, Sizes DEF AppendValue, TypeOK
    <3>3. idxVal[n] \in Int
      BY <1>2, Sizes DEF TypeOK
    <3>4. bytes' = CopyTo(bytes, idxVal[n], v)
      BY <2>2, <1>4 DEF AppendValue
    <3>5. bytes' \in [Cells -> Characters \cup {Junk}]
      <4>1. ASSUME NEW k \in Cells, k - idxVal[n] \in 0 .. Len(v) - 1
            PROVE  v[k - idxVal[n] + 1] \in Characters
        <5>1. k \in Int
          BY Sizes DEF Cells
        <5>2. k - idxVal[n] + 1 \in 1 .. Len(v)
          BY <5>1, <4>1, <3>1, <3>3
        <5> QED
          BY <5>2, <3>1
      <4> QED
        BY <4>1, <3>4 DEF TypeOK, CopyTo
    <3> QED
      BY <2>2, <3>2, <3>5, <1>4 DEF AppendValue, TypeOK
  <2> QED
    BY <2>1, <2>2, ArraysAssumption DEF TypeOK
<1> QED
  BY <1>2, <1>4, <1>5, <1>6, <1>7, <1>8 DEF TypeOK

\* The new name comes behind the others, and is not one of them.
LEMMA AddedName ==
  ASSUME TypeOK, NamesHeld, NEW x \in Names, NEW v \in Values, Add(x, v), ~Fail,
         NEW m, m = n
  PROVE  /\ Ordered(idxName', m + 1)
         /\ (\A i \in 0 .. m - 1 : NameAt(i)' = NameAt(i)) /\ NameAt(m)' = x
         /\ \A i \in 0 .. m - 1 : NameAt(i) \in Names /\ NameAt(i) # x
<1>1. n < MaxParam /\ ~TooLong(x, v) /\ Matches(x) = {}
  BY DEF Add
<1>2. n \in 0 .. MaxParam - 1 /\ n \in Nat
  BY <1>1, Sizes DEF TypeOK
<1>3. x \in Seq(Characters) /\ Len(x) < StrSize
  BY <1>1, Short
<1>4. /\ idxName' = [idxName EXCEPT ![n + 1] = idxName[n] + Len(x)]
      /\ chars' = CopyTo(chars, idxName[n], x) /\ n' = n + 1
      /\ table' = [table EXCEPT ![x] = v] /\ whole' = whole
  BY DEF Add
<1>5. Ordered(idxName, n)
  BY DEF NamesHeld
<1>6. idxName \in [0 .. MaxParam -> Int] /\ DOMAIN chars = Cells
  BY DEF TypeOK
<1>7. m \in 0 .. MaxParam - 1 /\ Ordered(idxName, m)
  BY <1>2, <1>5
<1>8. Extends(idxName', idxName, m, x)
  BY <1>4, <1>6, <1>7, Sizes DEF Extends
<1>9. chars' = CopyTo(chars, idxName[m], x)
  BY <1>4
<1>10. \A jdx, b : Extends(jdx, idxName, m, x) /\ b = CopyTo(chars, idxName[m], x) =>
         Holds(b, jdx, chars, idxName, m, x)
  BY <1>3, <1>6, <1>7, Appended, Zenon
<1>11. Holds(chars', idxName', chars, idxName, m, x)
  BY <1>8, <1>9, <1>10, Zenon
<1>12. (\A i \in 0 .. m - 1 : NameAt(i)' = NameAt(i)) /\ NameAt(m)' = x
  BY <1>11 DEF NameAt, SameStrings, Holds
<1>13. \A i \in 0 .. m - 1 : NameAt(i) \in Names /\ NameAt(i) # x
  <2>1. Matches(x) = {i \in 0 .. m - 1 : NameAt(i) = x}
    BY Found
  <2> QED
    BY <2>1, <1>1 DEF NamesHeld
<1> QED
  BY <1>11, <1>12, <1>13 DEF Holds

\* The names are those of the table again.
LEMMA AddNames ==
  ASSUME TypeOK, NamesHeld, NEW x \in Names, NEW v \in Values, Add(x, v), ~Fail
  PROVE  NamesHeld'
<1>1. n < MaxParam /\ n' = n + 1 /\ table' = [table EXCEPT ![x] = v]
  BY DEF Add
<1> PICK m : m = n
  OBVIOUS
<1>2. /\ Ordered(idxName', m + 1)
      /\ (\A i \in 0 .. m - 1 : NameAt(i)' = NameAt(i)) /\ NameAt(m)' = x
      /\ \A i \in 0 .. m - 1 : NameAt(i) \in Names /\ NameAt(i) # x
  BY AddedName
<1>3. m \in Nat /\ n' - 1 = m
  BY <1>1 DEF TypeOK
<1>4. \A i \in 0 .. m : i \in 0 .. m - 1 \/ i = m
  BY <1>3
<1>5. v # None
  BY ArraysAssumption
<1>6. ASSUME NEW i \in 0 .. m
       PROVE  NameAt(i)' \in Names /\ table'[NameAt(i)'] # None
  <2>1. CASE i \in 0 .. m - 1
    BY <2>1, <1>1, <1>2 DEF NamesHeld, TypeOK
  <2>2. CASE i = m
    BY <2>2, <1>1, <1>2, <1>5 DEF TypeOK
  <2> QED
    BY <2>1, <2>2, <1>4
<1>7. ASSUME NEW i \in 0 .. m, NEW j \in 0 .. m, NameAt(i)' = NameAt(j)'
       PROVE  i = j
  <2>1. CASE i \in 0 .. m - 1 /\ j \in 0 .. m - 1
    BY <2>1, <1>2, <1>7 DEF NamesHeld
  <2>2. CASE i \in 0 .. m - 1 /\ j = m
    BY <2>2, <1>2, <1>7
  <2>3. CASE i = m /\ j \in 0 .. m - 1
    BY <2>3, <1>2, <1>7
  <2> QED
    BY <2>1, <2>2, <2>3, <1>4
<1>8. ASSUME NEW y \in Names, table'[y] # None
       PROVE  \E i \in 0 .. m : NameAt(i)' = y
  <2>1. CASE y = x
    BY <2>1, <1>2, <1>3
  <2>2. CASE y # x
    <3>1. table[y] # None
      BY <2>2, <1>1, <1>8 DEF TypeOK
    <3>2. PICK i \in 0 .. m - 1 : NameAt(i) = y
      BY <3>1 DEF NamesHeld
    <3>3. NameAt(i)' = y /\ i \in 0 .. m
      BY <3>2, <1>2, <1>3
    <3> QED
      BY <3>3
  <2> QED
    BY <2>1, <2>2
<1>9. Ordered(idxName, n)'
  BY <1>1, <1>2
<1> QED
  BY <1>3, <1>6, <1>7, <1>8, <1>9 DEF NamesHeld

\* The new entry has the value it was added with, and the others theirs.
LEMMA AddValues ==
  ASSUME TypeOK, NamesHeld, ValuesHeld, NEW x \in Names, NEW v \in Values,
         kind = "int" => idxVal = [k \in 0 .. MaxParam |-> 0],
         Add(x, v), ~Fail
  PROVE  ValuesHeld'
<1>1. n < MaxParam /\ ~TooLong(x, v)
  BY DEF Add
<1>2. /\ AppendValue(v) /\ n' = n + 1 /\ kind' = kind
      /\ table' = [table EXCEPT ![x] = v]
  BY DEF Add
<1> PICK m : m = n
  OBVIOUS
<1>3. m \in 0 .. MaxParam - 1 /\ m \in Nat /\ n' - 1 = m
  BY <1>1, <1>2, Sizes DEF TypeOK
<1>4. /\ \A i \in 0 .. m - 1 : NameAt(i)' = NameAt(i) /\ NameAt(i) \in Names /\ NameAt(i) # x
      /\ NameAt(m)' = x
  BY AddedName
<1>5. /\ \A i \in 0 .. m - 1 : table'[NameAt(i)'] = ValueAt(i)
      /\ table'[NameAt(m)'] = v
  BY <1>2, <1>4 DEF TypeOK, ValuesHeld
<1>6. Ordered(idxVal, m) /\ idxVal \in [0 .. MaxParam -> Int] /\ DOMAIN bytes = Cells
  BY DEF ValuesHeld, TypeOK
<1>7. CASE kind = "int"
  <2>1. val' = [val EXCEPT ![m] = v] /\ idxVal' = idxVal
    BY <1>7, <1>2 DEF AppendValue
  <2>2. Ordered(idxVal', m + 1)
    <3>1. \A i \in 0 .. m + 1 : i \in 0 .. MaxParam
      BY <1>3, Sizes
    <3>2. \A i \in 0 .. m + 1 : idxVal'[i] = 0
      BY <1>7, <2>1, <3>1
    <3>3. \A i \in 0 .. m + 1 : i * StrSize \in Nat
      BY <3>1, Room
    <3>4. \A i \in 0 .. m + 1 : \A j \in i .. m + 1 : j \in 0 .. m + 1
      BY <1>3
    <3> QED
      BY <3>2, <3>3, <3>4 DEF Ordered
  <2>3. \A i \in 0 .. m - 1 : ValueAt(i)' = ValueAt(i)
    BY <1>2, <1>3, <1>7, <2>1, Sizes DEF ValueAt, TypeOK
  <2>4. ValueAt(m)' = v
    BY <1>2, <1>3, <1>7, <2>1, Sizes DEF ValueAt, TypeOK
  <2> QED
    BY <1>2, <1>3, <1>5, <2>2, <2>3, <2>4 DEF ValuesHeld
<1>8. CASE kind = "str"
  <2>1. v \in Seq(Characters) /\ Len(v) < StrSize
    BY <1>1, <1>8, Short
  <2>2. Extends(idxVal', idxVal, m, v)
    BY <1>2, <1>3, <1>6, <1>8, Sizes DEF AppendValue, Extends
  <2>3. bytes' = CopyTo(bytes, idxVal[m], v)
    BY <1>2, <1>8 DEF AppendValue
  <2>4. \A jdx, b : Extends(jdx, idxVal, m, v) /\ b = CopyTo(bytes, idxVal[m], v) =>
          Holds(b, jdx, bytes, idxVal, m, v)
    BY <1>3, <1>6, <2>1, Appended, Zenon
  <2>5. Holds(bytes', idxVal', bytes, idxVal, m, v)
    BY <2>2, <2>3, <2>4, Zenon
  <2>6. (\A i \in 0 .. m - 1 : ValueAt(i)' = ValueAt(i)) /\ ValueAt(m)' = v
    BY <1>2, <1>8, <2>5 DEF ValueAt, SameStrings, Holds
  <2> QED
    BY <1>2, <1>3, <1>5, <2>5, <2>6 DEF ValuesHeld, Holds
<1> QED
  BY <1>7, <1>8, ArraysAssumption DEF TypeOK

\* ctrlParamAdd.
LEMMA AddStep ==
  ASSUME IInv, NEW x \in Names, NEW v \in Values, Add(x, v)
  PROVE  IInv'
<1>1. CASE Fail
  BY <1>1, FailStep
<1>2. CASE ~Fail
  <2>1. UNCHANGED <<kind, whole, exact, failed>>
    BY <1>2 DEF Add
  <2>2. TypeOK' /\ (kind' = "int" => idxVal' = [k \in 0 .. MaxParam |-> 0])
    BY <1>2, AddTypes
  <2>3. whole => NamesHeld'
    BY <1>2, AddNames DEF IInv
  <2>4. exact => ValuesHeld'
    BY <1>2, AddValues DEF IInv
  <2> QED
    BY <2>1, <2>2, <2>3, <2>4 DEF IInv
<1> QED
  BY <1>1, <1>2

\* A value that is set has its place, and its array stays an array.
LEMMA SetTypes ==
  ASSUME IInv, Inside(idxVal), NEW v \in Values, NEW i \in 0 .. n - 1, SetValue(i, v)
  PROVE  /\ idxVal' \in [0 .. MaxParam -> Int]
         /\ bytes' \in [Cells -> Characters \cup {Junk}]
         /\ val' \in [0 .. MaxParam - 1 -> Values \cup {Junk}]
         /\ kind = "int" => idxVal' = idxVal
<1>1. TypeOK /\ i \in 0 .. MaxParam - 1 /\ n \in 0 .. MaxParam /\ n \in 0 .. n
      /\ i \in 0 .. n /\ i + 1 \in 0 .. n /\ MaxParam \in Nat
  BY Sizes DEF IInv, TypeOK
<1>2. CASE kind = "int"
  BY <1>1, <1>2 DEF SetValue, TypeOK
<1>3. CASE kind = "str"
  <2>1. v \in Seq(Characters) /\ Len(v) \in Nat
    BY <1>3, ArraysAssumption DEF IInv, TypeOK
  <2>2. /\ idxVal[i] \in 0 .. Capacity /\ idxVal[i + 1] \in 0 .. Capacity
        /\ idxVal[n] \in 0 .. Capacity
    BY <1>1 DEF Inside
  <2>3. Gap(i, v) \in Int
    BY <2>1, <2>2, Sizes DEF Gap
  <2> DEFINE b == Move(bytes, idxVal[i + 1], idxVal[n], Gap(i, v))
  <2>4. /\ bytes' = CopyTo(b, idxVal[i], v) /\ val' = val
        /\ idxVal' = [k \in DOMAIN idxVal |->
             IF k \in i + 1 .. n - 1 THEN idxVal[k] + Gap(i, v) ELSE idxVal[k]]
    BY <1>3 DEF SetValue
  <2>5. idxVal' \in [0 .. MaxParam -> Int]
    <3>1. idxVal \in [0 .. MaxParam -> Int]
      BY <1>1 DEF TypeOK
    <3>2. \A k \in 0 .. MaxParam : idxVal[k] + Gap(i, v) \in Int /\ idxVal[k] \in Int
      BY <3>1, <2>3
    <3> QED
      BY <3>1, <3>2, <2>4
  <2>6. b \in [Cells -> Characters \cup {Junk}]
    <3>1. ASSUME NEW k \in Cells, k - Gap(i, v) \in idxVal[i + 1] .. idxVal[n] - 1
          PROVE  bytes[k - Gap(i, v)] \in Characters \cup {Junk}
      <4>1. k - Gap(i, v) \in Cells
        BY <3>1, <2>2, Between
      <4> QED
        BY <4>1, <1>1 DEF TypeOK
    <3>2. bytes \in [Cells -> Characters \cup {Junk}]
      BY <1>1 DEF TypeOK
    <3> QED
      BY <3>1, <3>2 DEF Move
  <2> HIDE DEF b
  <2>7. bytes' \in [Cells -> Characters \cup {Junk}]
    <3>1. ASSUME NEW k \in Cells, k - idxVal[i] \in 0 .. Len(v) - 1
          PROVE  v[k - idxVal[i] + 1] \in Characters
      <4>1. k \in Int /\ idxVal[i] \in Int
        BY Sizes, <2>2 DEF Cells
      <4>2. k - idxVal[i] + 1 \in 1 .. Len(v)
        BY <4>1, <3>1, <2>1
      <4> QED
        BY <4>2, <2>1
    <3> QED
      BY <3>1, <2>4, <2>6 DEF CopyTo
  <2> QED
    BY <1>1, <1>3, <2>4, <2>5, <2>7 DEF TypeOK
<1> QED
  BY <1>1, <1>2, <1>3, ArraysAssumption DEF TypeOK

\* A value of the size of the former one takes its place.
LEMMA SetValues ==
  ASSUME IInv, exact, NEW v \in Values, NEW i \in 0 .. n - 1, SetValue(i, v),
         kind = "str" => Gap(i, v) = 0, kind' = kind
  PROVE  /\ idxVal' = idxVal
         /\ ValueAt(i)' = v
         /\ \A j \in 0 .. n - 1 : j # i => ValueAt(j)' = ValueAt(j)
<1>1. TypeOK /\ i \in 0 .. MaxParam - 1 /\ n \in 0 .. MaxParam /\ n \in 0 .. n
      /\ i \in 0 .. n /\ i + 1 \in 0 .. n /\ MaxParam \in Nat
  BY Sizes DEF IInv, TypeOK
<1>2. CASE kind = "int"
  <2>1. val' = [val EXCEPT ![i] = v] /\ idxVal' = idxVal
    BY <1>2 DEF SetValue
  <2> QED
    BY <2>1, <1>1, <1>2 DEF ValueAt, TypeOK
<1>3. CASE kind = "str"
  <2>1. v \in Seq(Characters)
    BY <1>3, ArraysAssumption DEF IInv, TypeOK
  <2>2. idxVal \in [0 .. MaxParam -> Int] /\ DOMAIN bytes = Cells /\ Ordered(idxVal, n)
    BY <1>1 DEF TypeOK, IInv, ValuesHeld
  <2>3. idxVal[i] \in Int /\ idxVal[i + 1] \in Int /\ idxVal[n] \in Int
    BY <1>1, <2>2
  <2>4. Len(v) = idxVal[i + 1] - idxVal[i]
    <3>1. Len(v) \in Nat /\ Len(v) - (idxVal[i + 1] - idxVal[i]) = 0
      BY <1>3, <2>1 DEF Gap
    <3> QED
      BY <3>1, <2>3
  <2>5. idxVal' = idxVal
    <3>1. idxVal' = [k \in DOMAIN idxVal |->
                       IF k \in i + 1 .. n - 1 THEN idxVal[k] + 0 ELSE idxVal[k]]
      BY <1>3 DEF SetValue
    <3>2. \A k \in 0 .. MaxParam : idxVal[k] + 0 = idxVal[k]
      BY <2>2
    <3>3. idxVal' = [k \in 0 .. MaxParam |-> idxVal[k]]
      BY <3>1, <3>2, <2>2
    <3> QED
      BY <3>3, <2>2
  <2>6. bytes' = CopyTo(bytes, idxVal[i], v)
    <3>1. bytes' = CopyTo(Move(bytes, idxVal[i + 1], idxVal[n], 0), idxVal[i], v)
      BY <1>3 DEF SetValue
    <3>2. bytes \in [Cells -> Characters \cup {Junk}]
      BY <1>1 DEF TypeOK
    <3>3. Move(bytes, idxVal[i + 1], idxVal[n], 0) = bytes
      BY <3>2, <2>3, MoveNowhere
    <3> QED
      BY <3>1, <3>3
  <2>7. Replaces(CopyTo(bytes, idxVal[i], v), bytes, idxVal, n, i, v)
    BY <1>1, <2>1, <2>2, <2>4, Rewritten
  <2> QED
    BY <1>3, <2>5, <2>6, <2>7 DEF ValueAt, Replaces
<1> QED
  BY <1>1, <1>2, <1>3, ArraysAssumption DEF TypeOK

\* ctrlParamSet.
LEMMA SetStep ==
  ASSUME IInv, Inside(idxVal), NEW x \in Names, NEW v \in Values, Set(x, v)
  PROVE  IInv'
<1>1. CASE Fail
  BY <1>1, FailStep
<1>2. ASSUME NEW i \in Matches(x), SetValue(i, v), table' = [table EXCEPT ![x] = v],
             exact' = (exact /\ (kind = "str" => Gap(i, v) = 0)), failed' = Spills(i, v),
             UNCHANGED <<kind, n, idxName, chars, whole>>
      PROVE  IInv'
  <2>1. i \in 0 .. n - 1 /\ TypeOK
    BY DEF Matches, IInv
  <2>2. TypeOK' /\ (kind' = "int" => idxVal' = [k \in 0 .. MaxParam |-> 0])
    <3>1. /\ idxVal' \in [0 .. MaxParam -> Int]
          /\ bytes' \in [Cells -> Characters \cup {Junk}]
          /\ val' \in [0 .. MaxParam - 1 -> Values \cup {Junk}]
          /\ kind = "int" => idxVal' = idxVal
      BY <1>2, <2>1, SetTypes
    <3>2. table' \in [Names -> Values \cup {None}]
      BY <1>2, <2>1 DEF TypeOK
    <3>3. exact' \in BOOLEAN /\ failed' \in BOOLEAN
      BY <1>2, <2>1 DEF TypeOK, Spills
    <3>4. /\ kind' \in Kinds /\ n' \in 0 .. MaxParam /\ idxName' \in [0 .. MaxParam -> Int]
          /\ DOMAIN chars' = Cells /\ whole' \in BOOLEAN
      BY <1>2, <2>1 DEF TypeOK
    <3> QED
      BY <1>2, <3>1, <3>2, <3>3, <3>4 DEF TypeOK, IInv
  <2>3. ASSUME whole
        PROVE  /\ NamesHeld' /\ NameAt(i) = x
               /\ \A j \in 0 .. n - 1 : NameAt(j)' = NameAt(j) /\ NameAt(j) \in Names
               /\ \A j \in 0 .. n - 1 : NameAt(j) = x => j = i
    <3>1. NamesHeld
      BY <2>3 DEF IInv
    <3>2. NameAt(i) = x
      BY <2>1, <3>1, Found
    <3>3. \A j \in 0 .. n - 1 : NameAt(j)' = NameAt(j) /\ NameAt(j) \in Names
      BY <1>2, <3>1 DEF NameAt, NamesHeld
    <3>4. v # None
      BY ArraysAssumption
    <3>5. Ordered(idxName, n)'
      BY <1>2, <3>1 DEF NamesHeld, Ordered
    <3>6. \A y \in Names : table'[y] # None <=> table[y] # None
      BY <1>2, <2>1, <3>1, <3>2, <3>4 DEF NamesHeld, TypeOK
    <3>7. n' = n
      BY <1>2
    <3> QED
      BY <2>1, <3>1, <3>2, <3>3, <3>5, <3>6, <3>7 DEF NamesHeld
  <2>4. ASSUME exact'
        PROVE  ValuesHeld'
    <3>1. exact /\ whole /\ ValuesHeld /\ (kind = "str" => Gap(i, v) = 0) /\ kind' = kind
      BY <1>2, <2>4 DEF IInv
    <3>2. /\ idxVal' = idxVal /\ ValueAt(i)' = v
          /\ \A j \in 0 .. n - 1 : j # i => ValueAt(j)' = ValueAt(j)
      BY <1>2, <2>1, <3>1, SetValues
    <3>3. Ordered(idxVal, n)'
      BY <1>2, <3>1, <3>2 DEF ValuesHeld, Ordered
    <3>4. \A j \in 0 .. n - 1 : ValueAt(j)' = table'[NameAt(j)']
      <4> TAKE j \in 0 .. n - 1
      <4>1. CASE j = i
        BY <4>1, <1>2, <2>1, <2>3, <3>1, <3>2 DEF TypeOK
      <4>2. CASE j # i
        <5>1. NameAt(j)' = NameAt(j) /\ NameAt(j) # x /\ NameAt(j) \in Names
          BY <4>2, <2>3, <3>1
        <5>2. table'[NameAt(j)] = table[NameAt(j)]
          BY <5>1, <1>2, <2>1 DEF TypeOK
        <5> QED
          BY <4>2, <5>1, <5>2, <3>1, <3>2 DEF ValuesHeld
      <4> QED
        BY <4>1, <4>2
    <3> QED
      BY <1>2, <3>3, <3>4 DEF ValuesHeld
  <2> QED
    BY <1>2, <2>2, <2>3, <2>4 DEF IInv
<1> QED
  BY <1>1, <1>2 DEF Set

\* ctrlParamCancel: what it leaves behind has its type, and no more is said.
LEMMA CancelStep ==
  ASSUME IInv, NEW x \in Names, Cancel(x)
  PROVE  IInv'
<1>1. kind = "int" /\ TypeOK
  BY DEF Cancel, IInv
<1>2. ASSUME NEW i \in CancelMatches(x), CancelAt(i, x)
      PROVE  IInv'
  <2>1. i \in 0 .. MaxParam - 1 /\ n \in 0 .. MaxParam /\ i + 1 \in 0 .. MaxParam
    BY <1>1, Sizes DEF CancelMatches, Matches, TypeOK
  <2>2. NameSize(i) \in Int /\ Len(x) \in Int
    BY <1>1, <2>1, Sizes, ArraysAssumption DEF NameSize, TypeOK
  <2> DEFINE moved == [k \in DOMAIN idxName |->
                         IF k \in i .. n - 2 THEN idxName[k + 1] - NameSize(i)
                                             ELSE idxName[k]]
  <2>3. moved \in [0 .. MaxParam -> Int]
    <3>1. idxName \in [0 .. MaxParam -> Int]
      BY <1>1 DEF TypeOK
    <3>2. ASSUME NEW k \in 0 .. MaxParam, k \in i .. n - 2
          PROVE  idxName[k + 1] - NameSize(i) \in Int
      <4>1. k + 1 \in 0 .. MaxParam
        BY <3>2, <2>1, Sizes
      <4> QED
        BY <4>1, <3>1, <2>2
    <3> QED
      BY <3>1, <3>2
  <2>4. idxName' = [moved EXCEPT ![NStr + 1] = moved[NStr] + Len(x)]
    BY <1>2 DEF CancelAt
  <2> HIDE DEF moved
  <2>5. idxName' \in [0 .. MaxParam -> Int]
    BY <2>2, <2>3, <2>4, Sizes
  <2>6. val' \in [0 .. MaxParam - 1 -> Values \cup {Junk}]
    <3>1. val \in [0 .. MaxParam - 1 -> Values \cup {Junk}]
      BY <1>1 DEF TypeOK
    <3>2. ASSUME NEW k \in 0 .. MaxParam - 1, k \in i .. n - 2
          PROVE  val[k + 1] \in Values \cup {Junk}
      <4>1. k + 1 \in 0 .. MaxParam - 1
        BY <3>2, <2>1, Sizes
      <4> QED
        BY <4>1, <3>1
    <3>3. val' = [k \in DOMAIN val |-> IF k \in i .. n - 2 THEN val[k + 1] ELSE val[k]]
      BY <1>2 DEF CancelAt
    <3> QED
      BY <3>1, <3>2, <3>3
  <2>7. DOMAIN chars' = Cells
    BY <1>1, <1>2 DEF CancelAt, Move, TypeOK
  <2>8. table' \in [Names -> Values \cup {None}]
    BY <1>1, <1>2 DEF CancelAt, TypeOK
  <2>9. whole' = FALSE /\ exact' = FALSE /\ UNCHANGED <<kind, n, idxVal, bytes, failed>>
    BY <1>2 DEF CancelAt
  <2>10. TypeOK'
    BY <1>1, <2>5, <2>6, <2>7, <2>8, <2>9 DEF TypeOK
  <2> QED
    BY <2>9, <2>10 DEF IInv
<1>3. CASE UNCHANGED vars
  BY <1>3 DEF vars, arrays, IInv, TypeOK, NamesHeld, ValuesHeld, NameAt, ValueAt, Ordered
<1> QED
  BY <1>2, <1>3 DEF Cancel

-----------------------------------------------------------------------------
(* The theorems. *)

\* The inductive invariant: the packed arrays are the table.
THEOREM Invariance == Spec => []IInv
<1>1. Init => IInv
  BY Start
<1>2. IInv /\ [Next]_vars => IInv'
  <2> SUFFICES ASSUME IInv, [Next]_vars PROVE IInv'
    OBVIOUS
  <2>1. CASE UNCHANGED vars
    BY <2>1 DEF vars, arrays, IInv, TypeOK, NamesHeld, ValuesHeld, NameAt, ValueAt, Ordered
  <2>2. CASE Next
    BY <2>2, AddStep, SetStep, CancelStep DEF Next
  <2> QED
    BY <2>1, <2>2
<1> QED
  BY <1>1, <1>2, PTL DEF Spec

\* Indexes in order are inside of the arrays.
LEMMA OrderedInside ==
  ASSUME TypeOK, NEW idx, Ordered(idx, n)
  PROVE  Inside(idx)
<1>1. n \in 0 .. MaxParam
  BY DEF TypeOK
<1>2. \A i \in 0 .. n : idx[i] \in 0 .. Capacity
  BY <1>1, OrderedFit
<1> QED
  BY <1>2 DEF Inside, Ordered

\* No entry is counted that the arrays have no room for, and no name or value
\* is packed outside of its array: the room test and the size tests of
\* ctrlParamAdd are enough, whatever the number of parameters.
THEOREM RoomForAll == Spec => []InBounds
<1>1. IInv => InBounds
  BY OrderedInside DEF IInv, InBounds, TypeOK, NamesHeld, ValuesHeld
<1> QED
  BY <1>1, Invariance, PTL

\* A search finds what was put into the table, and nothing else, with the value
\* last given to it; for any names, prefixes of one another included.
THEOREM ReadsBack == Spec => []ReadBack
<1>1. IInv => ReadBack
  <2> SUFFICES ASSUME IInv, NEW x \in Names
               PROVE  /\ whole => (Matches(x) = {} <=> table[x] = None)
                      /\ exact => \A i \in Matches(x) : ValueAt(i) = table[x]
    BY DEF ReadBack
  <2>1. ASSUME whole
        PROVE  /\ Matches(x) = {i \in 0 .. n - 1 : NameAt(i) = x}
               /\ Matches(x) = {} <=> table[x] = None
    <3>1. TypeOK /\ NamesHeld
      BY <2>1 DEF IInv
    <3>2. Matches(x) = {i \in 0 .. n - 1 : NameAt(i) = x}
      BY <3>1, Found
    <3> QED
      BY <3>1, <3>2 DEF NamesHeld
  <2> QED
    BY <2>1 DEF IInv, ValuesHeld
<1> QED
  BY <1>1, Invariance, PTL
=============================================================================

----------------------------- MODULE ParamArrays -----------------------------
(***************************************************************************)
(* The arrays behind the windows of ParamWin, in the memory of the root    *)
(* rank: the names of one type of parameters are packed one after the      *)
(* other, delimited by an array of indexes, and so are the values of the   *)
(* string type.  Calls on them are executed one at a time (ParamWin shows  *)
(* that the locks see to it); here is what each call does to the bytes,    *)
(* against the table its documentation describes.                          *)
(*                                                                         *)
(* Arrays are indexed from 0 as in the code.                               *)
(***************************************************************************)
EXTENDS Integers, Sequences, FiniteSets

CONSTANTS
  Kinds,      \* the types: "int" (int and double are alike) and "str"
  Characters, \* what strings are made of
  Names,      \* parameter names
  Values,     \* values: sequences of characters for "str", anything for "int"
  Junk,       \* what malloc leaves in a cell
  None,       \* no such parameter
  MaxParam,   \* _n_param_max
  StrSize,    \* _str_size_max
  NStr        \* number of string parameters, while kind is "int"

ASSUME ArraysAssumption ==
  /\ Kinds \subseteq {"int", "str"}
  /\ Names \subseteq Seq(Characters)
  /\ "str" \in Kinds => Values \subseteq Seq(Characters)
  /\ MaxParam \in Nat /\ StrSize \in Nat /\ NStr \in Nat /\ NStr < MaxParam
  /\ None \notin Values

\* Bytes of a packed array.
Capacity == MaxParam * StrSize

VARIABLES
  kind,      \* the type of these parameters
  n,         \* _winGlobData[k]
  idxName,   \* entry i is named by the characters idxName[i] .. idxName[i+1]-1
  chars,     \* the packed names
  idxVal,    \* str: the same for the values
  bytes,     \* str: the packed values
  val,       \* int: val[i] is the value of entry i
  table,     \* history: the table the calls describe, name to value
  whole,     \* history: no entry was deleted
  exact,     \* history: nor did a string change its size
  failed     \* a PDM_error has ended the run, or a string left its array

arrays == <<kind, n, idxName, chars, idxVal, bytes, val>>
vars == <<arrays, table, whole, exact, failed>>

\* Cells first .. last - 1 of a packed array, as a string.
Packed(a, first, last) == [k \in 1 .. last - first |-> a[first + k - 1]]

\* The array a after strncpy of string s to a + at.
CopyTo(a, at, s) == [k \in DOMAIN a |-> IF k - at \in 0 .. Len(s) - 1
                                        THEN s[k - at + 1] ELSE a[k]]

\* The array a after cells first .. last - 1 have been moved by gap cells, in
\* the direction that does not overwrite what is still to move.
Move(a, first, last, gap) ==
  [k \in DOMAIN a |-> IF k - gap \in first .. last - 1 THEN a[k - gap] ELSE a[k]]

NameSize(i) == idxName[i + 1] - idxName[i]

\* Faulty variant: strncmp without the test of the two sizes.
SamePrefix(i, x) == Packed(chars, idxName[i], idxName[i] + Len(x)) = x

\* Entry i is named x: the sizes agree and strncmp finds no difference.
Same(i, x) == NameSize(i) = Len(x) /\ Packed(chars, idxName[i], idxName[i + 1]) = x

\* The search loops: the first entry named x, if any.
Matches(x) == {i \in 0 .. n - 1 : Same(i, x) /\ \A j \in 0 .. i - 1 : ~Same(j, x)}

Fail == failed' = TRUE /\ UNCHANGED <<arrays, table, whole, exact>>

\* A name, or a string value, that ctrlParamAdd refuses for its size.
TooLong(x, v) == Len(x) >= StrSize \/ (kind = "str" /\ Len(v) >= StrSize)

AppendValue(v) ==
  IF kind = "int" THEN val' = [val EXCEPT ![n] = v] /\ UNCHANGED <<idxVal, bytes>>
  ELSE /\ idxVal' = [idxVal EXCEPT ![n + 1] = idxVal[n] + Len(v)]
       /\ bytes' = CopyTo(bytes, idxVal[n], v)
       /\ UNCHANGED val

\* Faulty variant: no test of the room left in the arrays.
AddFull(x, v) ==
  \/ (TooLong(x, v) \/ Matches(x) # {}) /\ Fail
  \/ /\ ~TooLong(x, v) /\ Matches(x) = {}
     /\ idxName' = [idxName EXCEPT ![n + 1] = idxName[n] + Len(x)]
     /\ chars' = CopyTo(chars, idxName[n], x)
     /\ AppendValue(v)
     /\ n' = n + 1
     /\ table' = [table EXCEPT ![x] = v]
     /\ UNCHANGED <<kind, whole, exact, failed>>

\* Faulty variant: the name is not looked for first.
AddTwice(x, v) ==
  \/ (n >= MaxParam \/ TooLong(x, v)) /\ Fail
  \/ /\ n < MaxParam /\ ~TooLong(x, v)
     /\ idxName' = [idxName EXCEPT ![n + 1] = idxName[n] + Len(x)]
     /\ chars' = CopyTo(chars, idxName[n], x)
     /\ AppendValue(v)
     /\ n' = n + 1
     /\ table' = [table EXCEPT ![x] = v]
     /\ UNCHANGED <<kind, whole, exact, failed>>

\* ctrlParamAdd.
Add(x, v) ==
  \/ (n >= MaxParam \/ TooLong(x, v) \/ Matches(x) # {}) /\ Fail
  \/ /\ n < MaxParam /\ ~TooLong(x, v) /\ Matches(x) = {}
     /\ idxName' = [idxName EXCEPT ![n + 1] = idxName[n] + Len(x)]
     /\ chars' = CopyTo(chars, idxName[n], x)
     /\ AppendValue(v)
     /\ n' = n + 1
     /\ table' = [table EXCEPT ![x] = v]
     /\ UNCHANGED <<kind, whole, exact, failed>>

\* What the string of entry i grows by when it becomes v.
Gap(i, v) == Len(v) - (idxVal[i + 1] - idxVal[i])

\* ctrlParamSet tests no size: what it moves or copies may leave the array.
\* The model stops there.
Spills(i, v) ==
  /\ kind = "str"
  /\ \/ idxVal[i + 1] < idxVal[n] /\ idxVal[n] + Gap(i, v) > Capacity
     \/ idxVal[i] + Len(v) > Capacity

\* The value of entry i becomes v.  A string of another size first moves the
\* values after it, and the indexes i + 1 .. n - 1; not the index n.
SetValue(i, v) ==
  IF kind = "int" THEN val' = [val EXCEPT ![i] = v] /\ UNCHANGED <<idxVal, bytes>>
  ELSE LET gap == Gap(i, v)
       IN /\ bytes' = CopyTo(Move(bytes, idxVal[i + 1], idxVal[n], gap), idxVal[i], v)
          /\ idxVal' = [k \in DOMAIN idxVal |->
                          IF k \in i + 1 .. n - 1 THEN idxVal[k] + gap ELSE idxVal[k]]
          /\ UNCHANGED val

\* ctrlParamSet.
Set(x, v) ==
  \/ Matches(x) = {} /\ Fail
  \/ \E i \in Matches(x) :
       /\ SetValue(i, v)
       /\ table' = [table EXCEPT ![x] = v]
       /\ exact' = (exact /\ (kind = "str" => Gap(i, v) = 0))
       /\ failed' = Spills(i, v)
       /\ UNCHANGED <<kind, n, idxName, chars, whole>>

\* The entries ctrlParamCancel may stop its search at.  Its flag "found" has no
\* initial value: when the size of the first entry is not that of the name, or
\* there is no entry, the flag may already be set there.
CancelMatches(x) ==
  Matches(x) \cup (IF n = 0 \/ NameSize(0) # Len(x) THEN {0} ELSE {})

\* ctrlParamCancel of entry i: the entries after it move down by one; the last
\* indexes and the counter of the entries stay what they are, and the index
\* after that of the last string parameter is rewritten.
CancelAt(i, x) ==
  LET gap   == NameSize(i)
      moved == [k \in DOMAIN idxName |->
                  IF k \in i .. n - 2 THEN idxName[k + 1] - gap ELSE idxName[k]]
  IN /\ val' = [k \in DOMAIN val |-> IF k \in i .. n - 2 THEN val[k + 1] ELSE val[k]]
     /\ chars' = Move(chars, idxName[i] + gap, idxName[n], 0 - gap)
     /\ idxName' = [moved EXCEPT ![NStr + 1] = moved[NStr] + Len(x)]
     /\ table' = [table EXCEPT ![x] = None]
     /\ whole' = FALSE /\ exact' = FALSE
     /\ UNCHANGED <<kind, n, idxVal, bytes, failed>>

\* ctrlParamCancel, for the types whose values are plain cells (for strings it
\* assigns std::string objects over the packed characters).
Cancel(x) ==
  /\ kind = "int"
  /\ \/ \E i \in CancelMatches(x) : CancelAt(i, x)
     \/ Matches(x) = {} /\ UNCHANGED vars

Cells == 0 .. Capacity - 1

Init ==
  /\ kind \in Kinds
  /\ n = 0
  /\ idxName = [k \in 0 .. MaxParam |-> 0] /\ chars = [k \in Cells |-> Junk]
  /\ idxVal = [k \in 0 .. MaxParam |-> 0]  /\ bytes = [k \in Cells |-> Junk]
  /\ val = [k \in 0 .. MaxParam - 1 |-> Junk]
  /\ table = [x \in Names |-> None]
  /\ whole = TRUE /\ exact = TRUE /\ failed = FALSE

\* The first n + 1 indexes of an array stay in a packed array, and ascend.
Inside(idx) ==
  /\ \A i \in 0 .. n : idx[i] \in 0 .. Capacity
  /\ \A i \in 0 .. n : \A j \in i .. n : idx[i] <= idx[j]

\* With any other index the code leaves the arrays, or compares and moves
\* stretches of negative size; the model stops there.
Next ==
  /\ ~failed
  /\ Inside(idxName) /\ Inside(idxVal)
  /\ \/ \E x \in Names, v \in Values : Add(x, v) \/ Set(x, v)
     \/ \E x \in Names : Cancel(x)

Spec == Init /\ [][Next]_vars

-----------------------------------------------------------------------------
\* What ctrlParamGet of entry i returns.
ValueAt(i) == IF kind = "int" THEN val[i] ELSE Packed(bytes, idxVal[i], idxVal[i + 1])

\* Every search finds what the calls so far have put into the table, and
\* nothing else, for names that are prefixes of one another, up to the first
\* call of ctrlParamCancel; and what it finds has the value last given to it,
\* up to the first call of ctrlParamSet with a string of another size.
ReadBack ==
  \A x \in Names :
    /\ whole => (Matches(x) = {} <=> table[x] = None)
    /\ exact => \A i \in Matches(x) : ValueAt(i) = table[x]

\* "Set a string control parameter value": the value that was set is read back.
StringSetReadBack ==
  \A x \in Names : \A i \in Matches(x) : kind = "str" => ValueAt(i) = table[x]

\* "Delete a control parameter": a parameter that was deleted is not found.
DeletedIsGone == \A x \in Names : table[x] = None => Matches(x) = {}

\* No sequence of calls counts an entry the arrays have no room for.  While no
\* entry is deleted every name is in the memory its window was created with,
\* whatever the sizes of the strings; and every value, while no string changes
\* its size.  (Past that an index can even become negative.)
InBounds ==
  /\ n \in 0 .. MaxParam
  /\ whole => Inside(idxName)
  /\ exact => Inside(idxVal)

-----------------------------------------------------------------------------
TypeOK ==
  /\ kind \in Kinds /\ n \in 0 .. MaxParam
  /\ idxName \in [0 .. MaxParam -> Int] /\ idxVal \in [0 .. MaxParam -> Int]
  /\ DOMAIN chars = Cells /\ bytes \in [Cells -> Characters \cup {Junk}]
  /\ val \in [0 .. MaxParam - 1 -> Values \cup {Junk}]
  /\ table \in [Names -> Values \cup {None}]
  /\ whole \in BOOLEAN /\ exact \in BOOLEAN /\ failed \in BOOLEAN

\* The name packed for entry i.
NameAt(i) == Packed(chars, idxName[i], idxName[i + 1])

\* The indexes of m strings, each shorter than StrSize, one after the other.
Ordered(idx, m) ==
  /\ \A i \in 0 .. m : idx[i] \in 0 .. i * StrSize
  /\ \A i \in 0 .. m : \A j \in i .. m : idx[i] <= idx[j]

\* The packed names are those of the table, each once.
NamesHeld ==
  /\ Ordered(idxName, n)
  /\ \A i \in 0 .. n - 1 : NameAt(i) \in Names /\ table[NameAt(i)] # None
  /\ \A i, j \in 0 .. n - 1 : NameAt(i) = NameAt(j) => i = j
  /\ \A x \in Names : table[x] # None => \E i \in 0 .. n - 1 : NameAt(i) = x

\* Each entry has the value of the table.
ValuesHeld ==
  /\ Ordered(idxVal, n)
  /\ \A i \in 0 .. n - 1 : ValueAt(i) = table[NameAt(i)]

\* The inductive invariant behind ReadBack and InBounds.
IInv ==
  /\ TypeOK
  /\ exact => whole
  /\ kind = "int" => idxVal = [k \in 0 .. MaxParam |-> 0]
  /\ whole => NamesHeld
  /\ exact => ValuesHeld
=============================================================================

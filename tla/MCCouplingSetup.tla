--------------------------- MODULE MCCouplingSetup ---------------------------
(* Small instances of CouplingSetup for TLC: who runs what, and the fields. *)
EXTENDS CouplingSetup

Field(name, loc, exch) == [name |-> name, loc |-> loc, exch |-> exch]

NoFields == [c \in Codes |-> {}]

\* Two fields from A to B, whose locations order them differently in the two
\* codes, one from B to A, and one that does not match.
Crossed ==
  [A |-> {Field("f", 1, "send"), Field("g", 2, "send"), Field("h", 1, "recv"), Field("k", 1, "send")},
   B |-> {Field("f", 2, "recv"), Field("g", 1, "recv"), Field("h", 1, "send"), Field("k", 1, "send")}]

OneWay ==
  [A |-> {Field("f", 1, "send"), Field("g", 2, "send")},
   B |-> {Field("f", 2, "recv"), Field("g", 1, "recv")}]

BothWays ==
  [A |-> {Field("f", 1, "sendrecv")}, B |-> {Field("f", 1, "sendrecv")}]

Members == {m \in [Ranks -> {{"A"}, {"B"}, Codes}] :
              \A c \in Codes : \E r \in Ranks : c \in m[r]}

RootIn(m, c) == Min({r \in Ranks : c \in m[r]})

WorldOf(codes, part, fields, steps) ==
  {[codes |-> m, part |-> p, chain |-> b, fields |-> f, steps |-> steps] :
     m \in codes, p \in part, b \in BOOLEAN, f \in fields}

\* Creation only; two codes without partition have different roots.
Creations ==
  {w \in WorldOf(Members, [Codes -> BOOLEAN], {NoFields}, 0) :
     w.part["A"] \/ w.part["B"] \/ RootIn(w.codes, "A") # RootIn(w.codes, "B")}

Partitioned == {[c \in Codes |-> TRUE]}
Disjoint    == {m \in Members : \A r \in Ranks : m[r] # Codes}
OneJoint    == {m \in Members : Cardinality({r \in Ranks : m[r] = Codes}) = 1}

\* The weights of two partitioned codes, where a rank waits for the most others.
Weights(codes, fields, steps) == {w \in WorldOf(codes, Partitioned, {fields}, steps) : w.chain}

\* Weights once with a joint rank; and again where no object goes from B to A on
\* a joint rank.
Usual ==
  Creations \cup Weights(OneJoint, Crossed, 1) \cup Weights(OneJoint, OneWay, 2)
    \cup Weights(Disjoint, Crossed, 2)

Again == Weights(Members, BothWays, 2)
=============================================================================

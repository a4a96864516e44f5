--------------------------- MODULE MCDataExchange ---------------------------
(* Instances of DataExchange: three ranks, the exchanges of the tests and   *)
(* others that one coupling may have under way together.                    *)
EXTENDS DataExchange

\* Identifiers, by their bytes: "131" and "212" have the same checksum.
a == <<97>>
b == <<98>>
x == <<49, 51, 49>>
y == <<50, 49, 50>>

Glo(do, id)        == [do |-> do, id |-> id, exch |-> 0]
Par(do, id, e)     == [do |-> do, id |-> id, exch |-> e]
Create(id, type)   == [do |-> "create", id |-> id, exch |-> 0, type |-> type]
None               == Glo("none", a)

\* Disjoint codes; one rank of both, a root of none, of one or of both of them.
Layouts == {[c \in Codes |-> IF c = 1 THEN h[1] ELSE h[2]] :
              h \in {<<{0}, {1, 2}>>, <<{1}, {0, 2}>>, <<{0, 1}, {1, 2}>>, <<{1, 2}, {0, 1}>>,
                     <<{0, 1}, {0, 2}>>, <<{0, 1, 2}, {0, 1, 2}>>}}

\* Two global data, started and waited for in different orders, the waits of
\* the sender first.
Reversed ==
  << <<Glo("issend", b), Glo("issend", a), Glo("wait_issend", a), Glo("wait_issend", b), None, None>>,
     <<Glo("irecv", a), Glo("irecv", b), None, None, Glo("wait_irecv", b), Glo("wait_irecv", a)>> >>

\* One in each direction.
BothWays ==
  << <<Glo("issend", a), Glo("irecv", b), Glo("wait_issend", a), None, None, Glo("wait_irecv", b)>>,
     <<Glo("irecv", a), Glo("issend", b), None, Glo("wait_irecv", a), Glo("wait_issend", b), None>> >>

\* Two identifiers of one tag, started in the same order.
SameTags ==
  << <<Glo("issend", x), Glo("issend", y), Glo("wait_issend", y), Glo("wait_issend", x), None, None>>,
     <<Glo("irecv", x), Glo("irecv", y), None, None, Glo("wait_irecv", x), Glo("wait_irecv", y)>> >>

\* Partitioned data: two exchanges started in different orders, the exch_id of
\* one of them again, and an object of the same name in the other direction.
PartExchanges ==
  << <<Create(b, "send"), Par("part_issend", b, 1), Par("part_issend", b, 2),
       Par("part_wait_issend", b, 1), Par("part_issend", b, 1), Par("part_wait_issend", b, 2),
       Par("part_wait_issend", b, 1), Par("del", b, 0),
       Create(b, "recv"), Par("part_irecv", b, 3), Par("part_wait_irecv", b, 3), Par("del", b, 0)>>,
     <<Create(b, "recv"), Par("part_irecv", b, 2), Par("part_irecv", b, 1),
       Par("part_wait_irecv", b, 1), Par("part_irecv", b, 1), Par("part_wait_irecv", b, 1),
       Par("part_wait_irecv", b, 2), Par("del", b, 0),
       Create(b, "send"), Par("part_issend", b, 3), Par("part_wait_issend", b, 3), Par("del", b, 0)>> >>

\* Two objects at once, one in each direction; one code makes its calls first.
CodeByCode ==
  << <<Create(a, "send"), Create(b, "recv"), None, None,
       Par("part_issend", a, 1), Par("part_irecv", b, 1), None, None,
       Par("part_wait_issend", a, 1), Par("part_wait_irecv", b, 1), None, None,
       Par("del", a, 0), Par("del", b, 0), None, None>>,
     <<None, None, Create(a, "recv"), Create(b, "send"),
       None, None, Par("part_irecv", a, 1), Par("part_issend", b, 1),
       None, None, Par("part_wait_irecv", a, 1), Par("part_wait_issend", b, 1),
       None, None, Par("del", a, 0), Par("del", b, 0)>> >>

\* Three elements, each on one rank of each code: dealt out to those of code 1,
\* and in blocks, backwards, on those of code 2.
Nbr(h, r) == Cardinality({s \in h : s < r})
Dealt(h) ==
  [c \in Codes |-> [r \in h[c] |->
     LET n == Cardinality(h[c]) IN
     IF c = 1 THEN SelectSeq(<<1, 2, 3>>, LAMBDA g : (g + 1) % n = Nbr(h[c], r))
              ELSE SelectSeq(<<3, 2, 1>>, LAMBDA g : ((g - 1) * n) \div 3 = Nbr(h[c], r))]]

\* All elements on all ranks, as on the ranks of the codes of a test.
Shared(h) == [c \in Codes |-> [r \in h[c] |-> <<1, 2, 3>>]]

WorldsOf(progs, Parts(_)) ==
  {[holds |-> h, elts |-> Parts(h), prog |-> p, first |-> f] : h \in Layouts, p \in progs, f \in Codes}

DataWorlds == WorldsOf({Reversed, BothWays, SameTags, PartExchanges, CodeByCode}, Dealt)

\* These programs are what the theorems ask of them.
ASSUME UsualUse == \A w \in DataWorlds : WellUsed(w) /\ Matched(w)

\* The code of smaller id sends, to a code whose calls come first on their root.
ReceiverFirst ==
  WorldsOf({<< <<Glo("issend", a), Glo("wait_issend", a)>>,
               <<Glo("irecv", a), Glo("wait_irecv", a)>> >>}, Dealt)

\* Elements of several origins.
SharedElements == WorldsOf({PartExchanges}, Shared)
=============================================================================

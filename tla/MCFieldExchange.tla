--------------------------- MODULE MCFieldExchange ---------------------------
(* Small instances of FieldExchange for TLC: the programs of the two codes. *)
EXTENDS FieldExchange

Do(op, f) == [op |-> op, field |-> f]

Both(a, b) == [c \in Codes |-> IF c = "A" THEN a ELSE b]

\* Two fields from A to B, all started before the first wait.
OneWay == Both(
  <<Do("issend", "f"), Do("issend", "g"), Do("wait_issend", "f"), Do("wait_issend", "g")>>,
  <<Do("irecv", "f"), Do("irecv", "g"), Do("wait_irecv", "g"), Do("wait_irecv", "f")>>)

\* One field from A to B, and then one from B to A.
BackAndForth == Both(
  <<Do("issend", "f"), Do("wait_issend", "f"), Do("irecv", "g"), Do("wait_irecv", "g")>>,
  <<Do("irecv", "f"), Do("wait_irecv", "f"), Do("issend", "g"), Do("wait_issend", "g")>>)

\* A field that is sent and received, as in the SENDRECV tests.
SendRecv == Both(
  <<Do("issend", "f"), Do("irecv", "f"), Do("wait_issend", "f"), Do("wait_irecv", "f")>>,
  <<Do("irecv", "f"), Do("issend", "f"), Do("wait_irecv", "f"), Do("wait_issend", "f")>>)

\* A field that is exchanged a second time in the same step.
Twice == Both(
  <<Do("issend", "f"), Do("wait_issend", "f"), Do("issend", "f"), Do("wait_issend", "f")>>,
  <<Do("irecv", "f"), Do("wait_irecv", "f"), Do("irecv", "f"), Do("wait_irecv", "f")>>)

\* A field that is sent, and received once it has been sent.
SendThenRecv == Both(
  <<Do("issend", "f"), Do("wait_issend", "f"), Do("irecv", "f"), Do("wait_irecv", "f")>>,
  <<Do("irecv", "f"), Do("wait_irecv", "f"), Do("issend", "f"), Do("wait_issend", "f")>>)

\* A field that is exchanged a second time before the first wait.
StartedTwice == Both(
  <<Do("issend", "f"), Do("issend", "f"), Do("wait_issend", "f"), Do("wait_issend", "f")>>,
  <<Do("irecv", "f"), Do("irecv", "f"), Do("wait_irecv", "f"), Do("wait_irecv", "f")>>)

\* These programs keep the order that the theorems ask of the codes.
ASSUME UsualOrder ==
  \A p \in {OneWay, BackAndForth, SendRecv, Twice} :
    SameOrder(p) /\ SameWaits(p) /\ WaitsBetween(p) /\ WaitsAfter(p) /\ JointOrder(p)

Usual   == {OneWay, BackAndForth, SendRecv, Twice}
TwoWays == {SendThenRecv}
Unwaited == {StartedTwice}
=============================================================================

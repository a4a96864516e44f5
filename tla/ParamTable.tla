----------------------------- MODULE ParamTable -----------------------------
(***************************************************************************)
(* What one type of the control parameters of a code promises to its       *)
(* users, whatever the windows, locks and caches behind it: a table that   *)
(* maps names to values, whose owner may close it to readers while it      *)
(* changes several entries, and readers that answer every question from    *)
(* one single state of that table, never from a state the owner had closed.*)
(*                                                                         *)
(* ParamWin implements this specification.                                 *)
(***************************************************************************)
EXTENDS FiniteSets, Naturals

CONSTANTS
  Procs,   \* the MPI ranks that read the table (its owner included)
  Names,   \* parameter names
  Vals,    \* parameter values
  NoVal    \* the table has no such entry

VARIABLES
  table,   \* table[n]: the value of parameter n, or NoVal
  closed,  \* the owner holds the table closed to readers
  snap,    \* snap[p]: the table p answers from, or NoTable between two reads
  answer   \* answer[p]: what the last read of p returned

absVars == <<table, closed, snap, answer>>

Table   == [Names -> Vals \cup {NoVal}]
NoTable == [n \in {} |-> NoVal]
Asks    == [kind : {"get", "is", "nget"}, name : Names]
Answers == [val : Vals \cup {NoVal}, n : Nat]

NoAnswer == [val |-> NoVal, n |-> 0]
Present(t) == {x \in DOMAIN t : t[x] # NoVal}

\* What a read must return for the table it is answered from.
AnswerOf(ask, t) ==
  [ val |-> IF ask.kind = "get" THEN t[ask.name] ELSE NoVal,
    n   |-> CASE ask.kind = "is"   -> IF ask.name \in Present(t) THEN 1 ELSE 0
              [] ask.kind = "nget" -> Cardinality(Present(t))
              [] OTHER             -> 0 ]

AbsInit ==
  /\ table  = [n \in Names |-> NoVal]
  /\ closed = FALSE
  /\ snap   = [p \in Procs |-> NoTable]
  /\ answer = [p \in Procs |-> NoAnswer]

Close == closed' = TRUE  /\ UNCHANGED <<table, snap, answer>>
Open  == closed' = FALSE /\ UNCHANGED <<table, snap, answer>>

\* The owner adds or changes one entry, the table being open or closed.
Put(n, v) ==
  /\ table' = [table EXCEPT ![n] = v]
  /\ UNCHANGED <<closed, snap, answer>>

\* A rank asks again, and forgets the answer it had.
Ask(p) ==
  /\ answer' = [answer EXCEPT ![p] = NoAnswer]
  /\ UNCHANGED <<table, closed, snap>>

\* A read takes the state of the open table it will answer from.
Take(p) ==
  /\ ~closed
  /\ snap[p] = NoTable
  /\ snap' = [snap EXCEPT ![p] = table]
  /\ UNCHANGED <<table, closed, answer>>

\* The read returns: the answer is that of the state it took.
Return(p, ask) ==
  /\ snap[p] # NoTable
  /\ answer' = [answer EXCEPT ![p] = AnswerOf(ask, snap[p])]
  /\ snap'   = [snap EXCEPT ![p] = NoTable]
  /\ UNCHANGED <<table, closed>>

AbsNext ==
  \/ Close
  \/ Open
  \/ \E n \in Names, v \in Vals : Put(n, v)
  \/ \E p \in Procs : Ask(p) \/ Take(p)
  \/ \E p \in Procs, ask \in Asks : Return(p, ask)

AbsSpec == AbsInit /\ [][AbsNext]_absVars
=============================================================================

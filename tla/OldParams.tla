------------------------------ MODULE OldParams ------------------------------
(***************************************************************************)
(* The applications and their control parameters in the old interface:     *)
(* ApplicationPropertiesDataBase.  Each rank has the parameters of its own *)
(* application, and copies of those of others as of the last               *)
(* synchronisation with them.                                              *)
(*                                                                         *)
(* The size, the name and the value of a parameter are one message; the    *)
(* broadcasts of the number of parameters and of each of them are one.     *)
(***************************************************************************)
EXTENDS OldWorld

(* cwipi_init: the names of the applications of all ranks. *)

Blocks(a) == {i \in Members(a) : i = 0 \/ App(i - 1) # a}

\* A rank sees a name of another application twice if its ranks are apart.
NamesDiffer(r) == \A a \in {App(i) : i \in Ranks} \ {App(r)} : Cardinality(Blocks(a)) = 1

InitSteps == <<Coll("names", "allgather", Global, NoValue, NoValue)>>

-----------------------------------------------------------------------------
(* Parameters of the own application. *)

\* addXxxControlParameter, setXxxControlParameter, eraseXxxControlParameter.
Add(o, t, n, v) ==
  Check(n \notin DOMAIN o.params[t], [o EXCEPT !.params[t] = @ @@ (n :> v)])
Set(o, t, n, v) ==
  Check(n \in DOMAIN o.params[t], [o EXCEPT !.params[t] = (n :> v) @@ @])
Erase(o, t, n) ==
  Check(n \in DOMAIN o.params[t],
        [o EXCEPT !.params[t] = [m \in DOMAIN @ \ {n} |-> @[m]]])

\* The i-th parameter of type t.
Param(o, t, i) ==
  LET n == Ascending(DOMAIN o.params[t])[i] IN [name |-> n, value |-> o.params[t][n]]
Count(o, t) == Cardinality(DOMAIN o.params[t])

-----------------------------------------------------------------------------
(* mergeParameters: the copies of the parameters of application b. *)

Of(t, b, i) == [type |-> t, app |-> b, i |-> i]

\* The root compares its parameters with those of the others, one by one.
CheckSteps(r, o, t, b) ==
  LET a == App(r) IN
  IF r = Root(a)
  THEN FlattenSeq([i \in 1 .. Count(o, t) |->
         LET From(k) == Recv("check", k, Local(a), 0, Of(t, b, i))
         IN EachOf(Ascending(Members(a) \ {r}), From)])
  ELSE [i \in 1 .. Count(o, t) |-> Send("check", Root(a), Local(a), 0, Of(t, b, i))]

MergeSteps(r, o, t, b) ==
  LET a == App(r)
      several == Cardinality(Members(a)) > 1
  IN <<Act("clear", Of(t, b, 0))>>
       \o (IF several THEN CheckSteps(r, o, t, b) ELSE <<>>)
       \o (IF r = Root(a)
           THEN <<Swap("count", Root(b), Global, IF t = "int" THEN 100 ELSE 0, Of(t, b, 0))>>
           ELSE <<>>)
       \o (IF several THEN <<Coll("copies", "bcast", Local(a), Root(a), Of(t, b, 0))>> ELSE <<>>)

\* Faulty variant: as many rounds as the shorter list has.
ShortRounds(o, d, other) ==
  [i \in 1 .. (IF Count(o, d.arg.type) < other THEN Count(o, d.arg.type) ELSE other) |->
     Swap("param", Root(d.arg.app), Global, 0, Of(d.arg.type, d.arg.app, i))]

\* One round for each parameter of the longer list: the roots swap while both have
\* one, then the one with more sends and the other receives.
Rounds(o, d, other) ==
  LET own == Count(o, d.arg.type)
      Round(i) == LET of == Of(d.arg.type, d.arg.app, i)
                      b == Root(d.arg.app)
                  IN IF i > other THEN Send("param", b, Global, 0, of)
                     ELSE IF i > own THEN Recv("param", b, Global, 0, of)
                     ELSE Swap("param", b, Global, 0, of)
  IN [i \in 1 .. Largest(own, other) |-> Round(i)]

\* o.said tells, for the properties, what was offered in each synchronisation.
SynchronizeSteps(r, o, b) ==
  <<Act("say", Of("int", b, 0))>>
    \o FlattenSeq(EachOf(Types, LAMBDA t : MergeSteps(r, o, t, b)))

-----------------------------------------------------------------------------
(* What a step sends, what it does with what it gets, what follows. *)

ParamSteps == {"names", "say", "clear", "check", "count", "param", "copies"}

ParamData(r, o, d) ==
  CASE d.do = "count"              -> Count(o, d.arg.type)
    [] d.do \in {"check", "param"} -> Param(o, d.arg.type, d.arg.i)
    [] d.do = "copies"             -> o.copies[d.arg.app][d.arg.type]
    [] OTHER                       -> NoValue

ParamEffect(r, o, d, got) ==
  CASE d.do = "names" -> Check(NamesDiffer(r), o)
    [] d.do = "say"   -> [o EXCEPT !.said[d.arg.app] = Append(@, o.params)]
    [] d.do = "clear" -> [o EXCEPT !.copies[d.arg.app][d.arg.type] = <<>>]
    [] d.do = "check" /\ d.how = "recv" ->
         Check(got = Param(o, d.arg.type, d.arg.i), o)
    [] d.do = "param" /\ d.how # "send" ->
         [o EXCEPT !.copies[d.arg.app][d.arg.type] = (got.name :> got.value) @@ @]
    [] d.do = "copies" ->
         [o EXCEPT !.copies[d.arg.app][d.arg.type] = got[d.root]]
    [] OTHER -> o

ParamMore(r, o, d, got) == IF d.do = "count" THEN Rounds(o, d, got) ELSE <<>>
=============================================================================

----------------------------- MODULE OldInterface -----------------------------
(***************************************************************************)
(* The applications that use the old interface: ranks that run the steps   *)
(* of OldParams and OldCouplings and meet in their messages and collective *)
(* calls.  A call of bftc_error on one rank ends all of them.              *)
(***************************************************************************)
EXTENDS OldParams, OldCouplings

CONSTANT MaxRank   \* the largest rank of all worlds

VARIABLES
  own,    \* own[r]: what rank r keeps
  todo,   \* todo[r]: the steps it still has to make in its call
  at,     \* at[r]: which of its calls comes next
  sent,   \* sent[ch]: the messages of MPI_Issend in a channel, a channel being
  posted, \* <<from, to, communicator, tag>>; posted[ch]: how many MPI_Irecv
  turns   \* for PairLoop: the neighbours of r in coupling 1, the loops it has
          \* been through since the last location, whom it has met in this one

vars == <<world, own, todo, at, sent, posted, turns>>

Idle(r)    == todo[r] = <<>>
Now(r)     == Head(todo[r])
Aborted    == \E r \in Ranks : own[r].error
Is(r, how) == ~Aborted /\ ~Idle(r) /\ Now(r).how = how
Returned(r) == Idle(r) /\ at[r] > Len(world.calls[r])

Apps == {App(r) : r \in Ranks}
NoTable == [t \in Range(Types) |-> <<>>]

Init ==
  /\ world \in Worlds
  /\ own = [r \in Ranks |->
       [params |-> NoTable, copies |-> [b \in Apps |-> NoTable], said |-> [b \in Apps |-> <<>>],
        cpls |-> <<>>, made |-> [b \in Apps |-> 0], new |-> NoValue, error |-> FALSE]]
  /\ todo = [r \in Ranks |-> <<>>]
  /\ at = [r \in Ranks |-> 1]
  /\ sent = <<>> /\ posted = <<>>
  /\ turns = [r \in 0 .. MaxRank |-> [meets |-> {}, loop |-> 0, met |-> {}]]

-----------------------------------------------------------------------------
(* Calls. *)

\* Faulty variant: the points are only located once.
Unmarked(C) == [C EXCEPT !.geo = @ + 1]

\* set_points and update_location: what is located next is something else.
Changed(C) == [C EXCEPT !.geo = @ + 1, !.toLocate = TRUE]

\* deleteCoupling, and the couplings that are left in the end.
DeleteSteps(r, C, c) ==
  OnlyIf(C.coupled, <<Barrier(r, C, c)>>) \o <<Act("delete", OfCpl(c))>>
FinalizeSteps(r, o) ==
  FlattenSeq(EachOf(Ascending(DOMAIN o.cpls), LAMBDA c : DeleteSteps(r, o.cpls[c], c)))
    \o <<Coll("finalize", "barrier", Global, NoValue, NoValue)>>

\* What a call k changes at once.
Begun(o, k) ==
  CASE k.fn = "add"   -> Add(o, k.type, k.name, k.value)
    [] k.fn = "set"   -> Set(o, k.type, k.name, k.value)
    [] k.fn = "erase" -> Erase(o, k.type, k.name)
    [] k.fn = "set_points" -> [o EXCEPT !.cpls[k.c] = Changed(@)]
    [] k.fn = "update_location" ->
         Check(o.cpls[k.c].coupled, [o EXCEPT !.cpls[k.c] = Changed(@)])
    [] k.fn = "define_mesh" -> Check(o.cpls[k.c].coupled /\ ~o.cpls[k.c].mesh, o)
    [] k.fn = "issend"      -> Check(~o.cpls[k.c].toLocate, o)
    [] OTHER -> o

\* The steps of k.
Steps(r, o, k) ==
  CASE k.fn = "init"        -> InitSteps
    [] k.fn = "synchronize" -> SynchronizeSteps(r, o, k.app)
    [] k.fn = "create"      -> CreateSteps(r, k.c, k.app, k.type)
    [] k.fn = "define_mesh" ->
         <<Coll("define_mesh", "barrier", Fvm(r, o.cpls[k.c]), NoValue, OfCpl(k.c))>>
    [] k.fn = "locate"      -> LocateSteps(r, o.cpls[k.c], k.c)
    [] k.fn = "exchange"    -> ExchangeSteps(r, o.cpls[k.c], k.c, k.name, k.send, k.recv)
    [] k.fn = "issend"      -> IssendSteps(r, o.cpls[k.c], k.c, k.tag, k.name)
    [] k.fn = "wait_issend" -> WaitIssendSteps(o.cpls[k.c], k.c, k.tag, k.name)
    [] k.fn = "irecv"       -> IrecvSteps(r, o.cpls[k.c], k.c, k.tag, k.name)
    [] k.fn = "wait_irecv"  -> WaitIrecvSteps(r, o.cpls[k.c], k.c, k.tag, k.name)
    [] k.fn = "delete"      -> DeleteSteps(r, o.cpls[k.c], k.c)
    [] k.fn = "finalize"    -> FinalizeSteps(r, o)
    [] OTHER -> <<>>

Begin(r) ==
  /\ ~Aborted /\ Idle(r) /\ ~Returned(r)
  /\ LET k == world.calls[r][at[r]]
         o == Begun(own[r], k)
     IN /\ own' = [own EXCEPT ![r] = o]
        /\ todo' = [todo EXCEPT ![r] = IF o.error THEN <<>> ELSE Steps(r, o, k)]
  /\ at' = [at EXCEPT ![r] = @ + 1]
  /\ UNCHANGED <<world, sent, posted, turns>>

-----------------------------------------------------------------------------
(* Steps. *)

\* All ranks of an application must give the same type.
SameType(r, d, got) == \A s \in Members(App(r)) : got[s] = d.arg.type

Data(r) ==
  LET d == Now(r) IN
  CASE d.do \in ParamSteps -> ParamData(r, own[r], d)
    [] d.do = "types"      -> d.arg.type
    [] d.do \in {"fvm", "finalize", "barrier"} -> NoValue
    [] OTHER -> CplData(r, own[r].cpls[d.arg.c], d)

\* What r keeps after its step, having got that.
Effect(r, got) ==
  LET d == Now(r)
      o == own[r]
  IN CASE d.do \in ParamSteps -> ParamEffect(r, o, d, got)
       [] d.do = "types" ->
            Check(SameType(r, d, got),
                  [o EXCEPT !.new = NewCoupling(r, o, d, got), !.made[d.arg.app] = @ + 1])
       [] d.do = "fvm"    -> Check(d.arg.c \notin DOMAIN o.cpls,
                                   [o EXCEPT !.cpls = (d.arg.c :> o.new) @@ @, !.new = NoValue])
       [] d.do = "delete" -> [o EXCEPT !.cpls = Without(@, d.arg.c)]
       [] d.do \in {"finalize", "barrier"} -> o
       [] OTHER ->
            LET C == o.cpls[d.arg.c]
            IN Check(Accepts(C, d, got), [o EXCEPT !.cpls[d.arg.c] = CplEffect(r, C, d, got)])

More(r, o, got) ==
  LET d == Now(r) IN
  CASE d.do \in ParamSteps -> ParamMore(r, o, d, got)
    [] d.do \in {"extents", "interpolate", "status"} -> CplMore(r, o.cpls[d.arg.c], d)
    [] OTHER -> <<>>

\* The ranks of S make their steps; r gets got[r].
Do(S, got) ==
  LET new == [r \in S |-> Effect(r, got[r])] IN
  /\ own' = [r \in Ranks |-> IF r \in S THEN new[r] ELSE own[r]]
  /\ todo' = [r \in Ranks |->
       IF r \in S /\ ~new[r].error THEN More(r, new[r], got[r]) \o Tail(todo[r]) ELSE todo[r]]
  /\ UNCHANGED <<world, at>>

LocalStep(r) ==
  /\ Is(r, "act")
  /\ Do({r}, [x \in {r} |-> NoValue])
  /\ UNCHANGED <<sent, posted, turns>>

\* r has met s: for PairLoop.
After(t, r, s) ==
  LET d == Now(r) IN
  IF d.tag # FvmTag \/ d.arg.c # 1 \/ ~d.arg.ends THEN t[r]
  ELSE IF d.arg.last THEN [t[r] EXCEPT !.loop = @ + 1, !.met = {}]
  ELSE [t[r] EXCEPT !.met = @ \cup {s}]

\* Messages of the same tag meet; that they are also about the same thing is
\* what the code relies on.
Meeting(r, s) ==
  /\ Now(r).comm = Now(s).comm /\ Now(r).tag = Now(s).tag
  /\ Now(r).with = s /\ Now(s).with = r
  /\ Now(r).do = Now(s).do

\* MPI_Sendrecv on both.
Sendrecv(r, s) ==
  /\ r < s /\ Is(r, "swap") /\ Is(s, "swap") /\ Meeting(r, s)
  /\ Do({r, s}, (r :> Data(s)) @@ (s :> Data(r)))
  /\ turns' = [turns EXCEPT ![r] = After(turns, r, s), ![s] = After(turns, s, r)]
  /\ UNCHANGED <<sent, posted>>

SendRecv(r, s) ==
  /\ Is(r, "send") /\ Is(s, "recv") /\ Meeting(r, s)
  /\ Do({r, s}, (r :> NoValue) @@ (s :> Data(r)))
  /\ UNCHANGED <<sent, posted, turns>>

\* A collective call, which all ranks of the communicator make.
Renewed(r) ==
  LET C == own[r].cpls[1] IN
  [meets |-> {s \in C.ranks : <<r, s>> \in Geo(C, 1).near}, loop |-> 0, met |-> {}]

Collective(r) ==
  /\ Is(r, "coll") /\ r = Least(RanksOf(Now(r).comm))
  /\ LET S == RanksOf(Now(r).comm) IN
     /\ \A s \in S : /\ Is(s, "coll") /\ Now(s).comm = Now(r).comm
                     /\ Now(s).do = Now(r).do /\ Now(s).root = Now(r).root
     /\ Do(S, [s \in S |-> [x \in S |-> Data(x)]])
     /\ turns' = IF Now(r).do = "extents" /\ Now(r).arg.c = 1
                 THEN [s \in 0 .. MaxRank |-> IF s \in S THEN Renewed(s) ELSE turns[s]]
                 ELSE turns
  /\ UNCHANGED <<sent, posted>>

-----------------------------------------------------------------------------
(* Messages without waiting, and their waits. *)

Near(r)  == Range(own[r].cpls[Now(r).arg.c].near)
Comm(r)  == Cpl(own[r].cpls[Now(r).arg.c])
To(r, s)   == <<r, s, Comm(r), Now(r).arg.tag>>
From(r, s) == <<s, r, Comm(r), Now(r).arg.tag>>
Sent(ch)   == IF ch \in DOMAIN sent THEN sent[ch] ELSE <<>>
Posted(ch) == IF ch \in DOMAIN posted THEN posted[ch] ELSE 0

\* _issend_point_var_distant: the buffer belongs to the coupling.
Issend(r) ==
  /\ Is(r, "post") /\ Now(r).do = "issend"
  /\ LET C == own[r].cpls[Now(r).arg.c] IN
     sent' = [ch \in {To(r, s) : s \in Near(r)} |->
                Append(Sent(ch), [values |-> Interpolated(r, C, Now(r).arg, ch[2]),
                                  c |-> Now(r).arg.c, buffer |-> C.nbuf + 1])] @@ sent
  /\ Do({r}, r :> [s \in Near(r) |-> Len(Sent(To(r, s))) + 1])
  /\ UNCHANGED <<posted, turns>>

Irecv(r) ==
  /\ Is(r, "post") /\ Now(r).do = "irecv"
  /\ posted' = [ch \in {From(r, s) : s \in Near(r)} |-> Posted(ch) + 1] @@ posted
  /\ Do({r}, r :> [s \in Near(r) |-> Posted(From(r, s)) + 1])
  /\ UNCHANGED <<sent, turns>>

\* The messages that the request of this wait stands for.
Nth(r, way, busy) ==
  LET C == own[r].cpls[Now(r).arg.c]
      i == C.asked[<<way, Now(r).arg.name>>]
  IN IF i \in DOMAIN busy THEN busy[i] ELSE <<>>

WaitIssend(r) ==
  /\ Is(r, "wait") /\ Now(r).do = "wait_issend"
  /\ LET nth == Nth(r, "send", own[r].cpls[Now(r).arg.c].sends)
     IN \A s \in DOMAIN nth : nth[s] <= Posted(To(r, s))
  /\ Do({r}, r :> NoValue)
  /\ UNCHANGED <<sent, posted, turns>>

WaitIrecv(r) ==
  /\ Is(r, "wait") /\ Now(r).do = "wait_irecv"
  /\ LET nth == Nth(r, "recv", own[r].cpls[Now(r).arg.c].recvs)
     IN /\ \A s \in DOMAIN nth : nth[s] <= Len(Sent(From(r, s)))
        /\ Do({r}, r :> [s \in DOMAIN nth |-> Sent(From(r, s))[nth[s]].values])
  /\ UNCHANGED <<sent, posted, turns>>

-----------------------------------------------------------------------------

Terminated == (Aborted \/ \A r \in Ranks : Returned(r)) /\ UNCHANGED vars

Step ==
  \/ \E r \in Ranks : Begin(r) \/ LocalStep(r) \/ Collective(r)
  \/ \E r \in Ranks : Issend(r) \/ Irecv(r) \/ WaitIssend(r) \/ WaitIrecv(r)
  \/ \E r, s \in Ranks : Sendrecv(r, s) \/ SendRecv(r, s)

Next == Step \/ Terminated

Spec     == Init /\ [][Next]_vars
FairSpec == Spec /\ WF_vars(Step)

-----------------------------------------------------------------------------
(* Properties. *)

\* The shape of what the ranks keep; a request that a caller holds is the place
\* of one in its array.
TypeOK ==
  /\ world \in Worlds
  /\ \A r \in Ranks :
       /\ at[r] \in 1 .. Len(world.calls[r]) + 1
       /\ \A c \in DOMAIN own[r].cpls :
            LET C == own[r].cpls[c] IN
            /\ C.type \in {"P", "W"} /\ C.ranks \subseteq Ranks /\ C.alive \subseteq 1 .. C.nbuf
            /\ Range(C.near) \subseteq C.ranks /\ Range(C.asked) \subseteq Nat
  /\ \A ch \in DOMAIN posted : posted[ch] \in Nat \ {0}

\* A rank outside of a synchronisation has, of each other application, the
\* parameters with which the root of that one entered the last they made
\* together, all of them and nothing else; the roots exchange lists of different
\* lengths, and check and broadcast within their applications.
Merged ==
  \A r \in Ranks : Idle(r) /\ ~own[r].error =>
    \A b \in Apps :
      LET n == Len(own[r].said[b]) IN
      own[r].copies[b] = IF n = 0 THEN NoTable ELSE own[Root(b)].said[App(r)][n]

\* Who a point is located by: the nearest of the ranks whose mesh it is in, the
\* lowest of several.
Holder(g, p) ==
  LET ranks == {s \in DOMAIN g.dist[p] : g.dist[p][s] >= 0} IN
  IF ranks = {} THEN NoValue
  ELSE CHOOSE s \in ranks : \A t \in ranks \ {s} :
         g.dist[p][s] < g.dist[p][t] \/ (g.dist[p][s] = g.dist[p][t] /\ s < t)

Expected(r, c, i, name) ==
  LET g == world.geo[c][i]
      points == g.points[Root(App(r))]
      mine == IF own[r].cpls[c].type = "P" THEN g.points[r] ELSE points
      located == SelectSeq([j \in DOMAIN mine |-> j], LAMBDA j : Holder(g, mine[j]) # NoValue)
      Value(j) == LET s == Holder(g, mine[j]) IN
                  <<name, mine[j], IF name = 0 THEN g.dist[mine[j]][s] ELSE s>>
  IN EachOf(located, Value)

\* What a rank has received under a name are the values of that name at exactly
\* its located points, in their order, each from the nearest rank, with the
\* points and the meshes there were at the exchange, and the same on the ranks
\* that are not coupled themselves.
FieldsArrive ==
  \A r \in Ranks : \A c \in DOMAIN own[r].cpls :
    LET C == own[r].cpls[c] IN
    /\ C.status # "BAD_RECEIVING"
    /\ \A name \in DOMAIN C.done : C.fields[name] = Expected(r, c, C.done[name], name)

\* What MPI_Issend has not delivered yet is still allocated: a buffer is deleted
\* by the wait for its own request, and by nothing else.
BuffersAlive ==
  \A ch \in DOMAIN sent : \A k \in DOMAIN sent[ch] :
    LET m == sent[ch][k] IN
    k > Posted(ch) => /\ m.c \in DOMAIN own[ch[1]].cpls
                      /\ m.buffer \in own[ch[1]].cpls[m.c].alive

\* The loops of the locator over neighbours are those of PairLoop, of which it is
\* proved that they never stop each other; a location starts when all ranks are
\* through with the loops of the one before.
Pairs == INSTANCE PairLoop WITH
  Ranks <- 0 .. MaxRank,
  meets <- [r \in 0 .. MaxRank |-> turns[r].meets],
  loop  <- [r \in 0 .. MaxRank |-> turns[r].loop],
  met   <- [r \in 0 .. MaxRank |-> turns[r].met]
LoopsOrdered == Pairs!Spec

\* All calls return on all ranks, and none is refused, unless the applications
\* contradict each other: then the code notices.
Ends ==
  <>(IF world.wrong THEN Aborted ELSE ~Aborted /\ \A r \in Ranks : Returned(r))
=============================================================================

----------------------------- MODULE OldCouplings -----------------------------
(***************************************************************************)
(* The couplings of the old interface: oldCoupling, its two location       *)
(* classes and the fvmc_locator they use, on one rank.                     *)
(*                                                                         *)
(* A coupling is C == o.cpls[c].  Its type is "P", with partitioning, or   *)
(* "W": then only the root rank of the application is coupled, and         *)
(* broadcasts what it gets.  Points, meshes and the point location itself  *)
(* are in world.geo; a point of a rank is meant by its index.              *)
(*                                                                         *)
(* Consecutive collective calls of a communicator, and consecutive         *)
(* messages between the same two ranks, are one.  Output files, high       *)
(* order, location indexes and CWIPI_DISTANT_MESH_INFO are left out.  The  *)
(* distances of the located points are the field of the name 0.            *)
(***************************************************************************)
EXTENDS OldWorld

FvmTag == 70 + 86 + 77  \* FVMC_MPI_TAG, 'F' + 'V' + 'M'

Cpl(C)    == <<"cpl", <<C.n>>, C.ranks>>
Fvm(r, C) == <<"fvm", <<C.peer, C.n>>, IF C.type = "P" THEN Members(App(r)) ELSE {Root(App(r))}>>
Without(f, i) == [j \in DOMAIN f \ {i} |-> f[j]]

OfCpl(c) == [c |-> c]
Barrier(r, C, c)   == Coll("barrier", "barrier", Fvm(r, C), NoValue, OfCpl(c))
Bcast(r, do, arg)  == Coll(do, "bcast", Local(App(r)), Root(App(r)), arg)
OnlyIf(cond, s)    == IF cond THEN s ELSE <<>>

-----------------------------------------------------------------------------
(* cwipi_create_coupling: _createCouplingComm, then the data base. *)

CreateSteps(r, c, b, type) ==
  <<Coll("types", "allgather", Merge(App(r), b), NoValue, [c |-> c, app |-> b, type |-> type]),
    Coll("fvm", IF type = "P" THEN "dup" ELSE "create", Local(App(r)), NoValue, OfCpl(c))>>

\* The ranks of application a in the coupling communicator.
Coupled(a, type) == IF type = "P" THEN Members(a) ELSE {Root(a)}

NewCoupling(r, o, d, types) ==
  LET b == d.arg.app IN
  [peer |-> b, type |-> d.arg.type, n |-> o.made[b],
   ranks |-> Coupled(App(r), d.arg.type) \cup Coupled(b, types[Root(b)]),
   coupled |-> r \in Coupled(App(r), d.arg.type),
   mesh |-> FALSE, nodal |-> FALSE, toLocate |-> TRUE,
   geo |-> 1,                         \* which geometry there is now
   near |-> <<>>,                     \* intersect_rank
   best |-> <<>>,                     \* for each point, who has it, and how far
   offer |-> <<>>, flag |-> 0,        \* what the neighbour of this turn has sent
   theirs |-> <<>>,                   \* for each neighbour, its points here
   located |-> <<>>,                  \* interior_list
   fields |-> <<>>, done |-> <<>>,    \* what was received, by name; with which geometry
   status |-> NoValue,                \* of the last exchange
   asked |-> <<>>,                    \* the requests of the caller
   sends |-> <<>>, recvs |-> <<>>,    \* nblockings_send, nblockings_recv: the busy ones
   buffers |-> <<>>, alive |-> {}, nbuf |-> 0]  \* _tmpDistantFieldsIssend; allocated

-----------------------------------------------------------------------------
(* Loops over the neighbours, in the order of their ranks: a swap, or two,   *)
(* with each.                                                                *)

Turn(C, arg, doing, i, k) ==
  Swap(doing[k], C.near[i], Cpl(C), FvmTag,
       arg @@ [ends |-> k = Len(doing), last |-> i = Len(C.near)])

Loop(C, arg, doing) ==
  FlattenSeq([i \in DOMAIN C.near |-> [k \in DOMAIN doing |-> Turn(C, arg, doing, i, k)]])

Exchange(C, arg) == Loop(C, arg, <<"flag", "values">>)  \* _exchange_point_var

-----------------------------------------------------------------------------
(* Geometry. *)

Geo(C, c)      == world.geo[c][C.geo]
Points(r, C, c) == Geo(C, c).points[r]
Dist(C, c, p, s) == Geo(C, c).dist[p][s]

\* The points of r in the extents of s, and those that r has found there.
Offered(r, C, c, s) ==
  SelectSeq([j \in DOMAIN Points(r, C, c) |-> j],
            LAMBDA j : Dist(C, c, Points(r, C, c)[j], s) # -2)
Mine(C, s) == SelectSeq([j \in DOMAIN C.best |-> j], LAMBDA j : C.best[j].rank = s)
Interior(C) == SelectSeq([j \in DOMAIN C.best |-> j], LAMBDA j : C.best[j].rank # NoValue)

\* Faulty variant: the last neighbour that has the point is taken.
BestIsLast(r, C, c, s, answers) ==
  LET offered == Offered(r, C, c, s)
      new == [k \in {i \in DOMAIN answers : answers[i] >= 0} |-> answers[k]]
  IN [j \in DOMAIN C.best |->
        IF \E k \in DOMAIN new : offered[k] = j
        THEN [rank |-> s, dist |-> new[CHOOSE k \in DOMAIN new : offered[k] = j]]
        ELSE C.best[j]]

\* The nearest so far is kept for each point, the first one of several.
Best(r, C, c, s, answers) ==
  LET offered == Offered(r, C, c, s)
      Closer(k) == answers[k] >= 0
                     /\ (C.best[offered[k]].dist < 0 \/ answers[k] < C.best[offered[k]].dist)
      new == [k \in {i \in DOMAIN answers : Closer(i)} |-> answers[k]]
  IN [j \in DOMAIN C.best |->
        IF \E k \in DOMAIN new : offered[k] = j
        THEN [rank |-> s, dist |-> new[CHOOSE k \in DOMAIN new : offered[k] = j]]
        ELSE C.best[j]]

-----------------------------------------------------------------------------
(* locate *)

\* What follows the location proper: the exchange of the distances.
Distances(c) == <<Act("interpolate", [c |-> c, name |-> 0, send |-> TRUE, recv |-> TRUE])>>

\* The root ranks agree on what is known of a located point, and tell the others.
InfoSteps(r, C, c) ==
  LET a == App(r)
      Tell(k) == Send("info", k, Cpl(C), 0, OfCpl(c))
  IN IF r = Root(a)
     THEN <<Swap("info", Root(C.peer), Cpl(C), 0, OfCpl(c))>>
            \o EachOf(Ascending((C.ranks \cap Members(a)) \ {r}), Tell)
     ELSE <<Recv("info", Root(a), Cpl(C), 0, OfCpl(c))>>

\* fvmc_locator_set_nodal once the extents are known, to the end of locate.
LocateAllDistant(r, C, c) ==
  Loop(C, OfCpl(c), <<"dimension">>)
    \o <<Coll("intersects", "reduce", Cpl(C), Least(C.ranks), OfCpl(c))>>
    \o Loop(C, OfCpl(c), <<"order">>)
    \o Loop(C, OfCpl(c), <<"offer", "answer">>)
    \o Loop(C, OfCpl(c), <<"count_points">>)
    \o Loop(C, OfCpl(c), <<"results">>)
    \o <<Coll("timing", "allreduce", Cpl(C), NoValue, OfCpl(c))>>
    \o InfoSteps(r, C, c)
    \o OnlyIf(C.type = "W", <<Bcast(r, "synchronize", OfCpl(c))>>)
    \o Distances(c)

LocateSteps(r, C, c) ==
  CASE ~C.toLocate -> Distances(c)
    [] C.toLocate /\ ~C.coupled -> <<Bcast(r, "synchronize", OfCpl(c))>> \o Distances(c)
    [] C.toLocate /\ C.coupled /\ ~C.mesh -> <<Act("undefined_mesh", OfCpl(c))>>
    [] OTHER -> OnlyIf(~C.nodal, <<Coll("nodal", "allgather", Fvm(r, C), NoValue, OfCpl(c))>>)
                  \o <<Coll("extents", "allgather", Cpl(C), NoValue, OfCpl(c))>>

\* Faulty variant: all ranks but the first have their neighbours in the
\* opposite order.
OppositeExtents(r, C, c) ==
  [C EXCEPT !.near = IF r = Least(C.ranks)
                     THEN Ascending({s \in C.ranks : <<r, s>> \in Geo(C, c).near})
                     ELSE Reverse(Ascending({s \in C.ranks : <<r, s>> \in Geo(C, c).near})),
            !.best = [j \in DOMAIN Points(r, C, c) |-> [rank |-> NoValue, dist |-> -1]],
            !.theirs = <<>>]

\* extents: who is near, and nothing is located.
Extents(r, C, c) ==
  [C EXCEPT !.near = Ascending({s \in C.ranks : <<r, s>> \in Geo(C, c).near}),
            !.best = [j \in DOMAIN Points(r, C, c) |-> [rank |-> NoValue, dist |-> -1]],
            !.theirs = <<>>]

-----------------------------------------------------------------------------
(* exchange *)

\* Faulty variant: every coupled rank checks the names.
EachNames(r, C, c, name) ==
  <<Swap("coupling_name", Root(C.peer), Cpl(C), 0, OfCpl(c)),
    Swap("exchange_name", Root(C.peer), Cpl(C), 0, [c |-> c, name |-> name])>>

NameSteps(r, C, c, name) ==
  OnlyIf(r = Root(App(r)),
    <<Swap("coupling_name", Root(C.peer), Cpl(C), 0, OfCpl(c)),
      Swap("exchange_name", Root(C.peer), Cpl(C), 0, [c |-> c, name |-> name])>>)

ExchangeSteps(r, C, c, name, send, recv) ==
  NameSteps(r, C, c, name)
    \o OnlyIf(C.toLocate, LocateSteps(r, C, c))
    \o <<Act("interpolate", [c |-> c, name |-> name, send |-> send, recv |-> recv])>>

\* The exchange of a field or of the distances, once it is interpolated.
PointVarSteps(r, C, arg) ==
  OnlyIf(C.coupled, Exchange(C, arg))
    \o (IF arg.name = 0
        THEN OnlyIf(C.type = "W", <<Bcast(r, "field", arg)>>)
               \o OnlyIf(C.coupled, <<Barrier(r, C, arg.c)>>)
               \o <<Act("located", arg)>>
        ELSE IF C.coupled THEN <<Barrier(r, C, arg.c), Act("status", arg)>>
        ELSE <<Bcast(r, "field", arg)>>)

\* Visualisation, and the broadcast of the status and of the field.
AfterCheck(r, C, arg) ==
  OnlyIf(C.status = "OK", <<Barrier(r, C, arg.c)>>)
    \o OnlyIf(C.type = "W", <<Bcast(r, "field", arg)>>)

\* What r sends to s of a field: its values at the points of s.
Flag(C, arg, s) == IF arg.send /\ C.theirs[s] # <<>> THEN 1 ELSE 0
Interpolated(r, C, arg, s) ==
  EachOf(C.theirs[s],
         LAMBDA p : IF arg.name = 0 THEN <<0, p, Dist(C, arg.c, p, r)>> ELSE <<arg.name, p, r>>)

\* Faulty variant: values are put at the places of their points among all points.
PutAmongAll(f, C, s, values) ==
  LET mine == Mine(C, s)
  IN [i \in DOMAIN f |->
        IF \E k \in DOMAIN mine : mine[k] = i /\ k \in DOMAIN values
        THEN values[CHOOSE k \in DOMAIN mine : mine[k] = i] ELSE f[i]]

\* The values from s are put at the places of its points among the located ones.
Put(f, C, s, values) ==
  LET mine == Mine(C, s)
  IN [i \in DOMAIN f |->
        IF \E k \in DOMAIN mine : mine[k] = C.located[i] /\ k \in DOMAIN values
        THEN values[CHOOSE k \in DOMAIN mine : mine[k] = C.located[i]] ELSE f[i]]

\* The array of the caller: the first value is marked, to see if it is received.
Fresh(C) == [i \in DOMAIN C.located |-> IF i = 1 THEN <<"NAN">> ELSE <<"old">>]
Status(C, arg) ==
  IF arg.recv /\ <<"NAN">> \in Range(C.fields[arg.name]) THEN "BAD_RECEIVING" ELSE "OK"
Finish(C, name) == [C EXCEPT !.done = (name :> C.geo) @@ @]

-----------------------------------------------------------------------------
(* issend, irecv and their waits *)

\* Faulty variant: the array is not extended.
OneRequest(busy) == IF busy = <<>> THEN 0 ELSE -1

\* _get_free_request: the array grows as needed.  With no neighbour the request
\* stays free, since there is nothing to allocate.
FreeRequest(busy) == Least({i \in 0 .. Cardinality(DOMAIN busy) : i \notin DOMAIN busy})
Occupy(C, busy, i, nth) == IF C.near = <<>> THEN busy ELSE (i :> nth) @@ busy

Post(do, arg) == [do |-> do, how |-> "post", arg |-> arg]

IssendSteps(r, C, c, tag, name) ==
  OnlyIf(C.coupled, <<Post("issend", [c |-> c, tag |-> tag, name |-> name, send |-> TRUE]),
                      Barrier(r, C, c)>>)
WaitIssendSteps(C, c, tag, name) ==
  OnlyIf(C.coupled, <<Wait("wait_issend", [c |-> c, tag |-> tag, name |-> name])>>)

IrecvSteps(r, C, c, tag, name) ==
  LET arg == [c |-> c, tag |-> tag, name |-> name, recv |-> TRUE] IN
  OnlyIf(C.coupled, <<Post("irecv", arg)>>)
    \o OnlyIf(C.type = "W", <<Bcast(r, "request", arg)>>)
WaitIrecvSteps(r, C, c, tag, name) ==
  LET arg == [c |-> c, tag |-> tag, name |-> name, recv |-> TRUE] IN
  OnlyIf(C.coupled, <<Wait("wait_irecv", arg), Barrier(r, C, c)>>)
    \o OnlyIf(C.type = "W", <<Bcast(r, "field", arg)>>)

\* nth[s]: which message of its channel goes to s, or comes from s.
Issended(C, arg, nth) ==
  LET i == FreeRequest(C.sends)
      new == C.nbuf + 1
  IN [C EXCEPT !.sends = Occupy(C, @, i, nth), !.asked = (<<"send", arg.name>> :> i) @@ @,
               !.nbuf = new, !.alive = @ \cup {new}, !.buffers = (i :> new) @@ @]

\* Faulty variant: the last buffer is deleted.
LastDeleted(C, arg) ==
  LET i == C.asked[<<"send", arg.name>>]
  IN [C EXCEPT !.sends = Without(@, i), !.alive = @ \ {C.nbuf}]

IssendWaited(C, arg) ==
  LET i == C.asked[<<"send", arg.name>>]
  IN [C EXCEPT !.sends = Without(@, i), !.alive = @ \ {C.buffers[i]},
               !.buffers = (i :> NoValue) @@ @]

Irecved(C, arg, nth) ==
  LET i == FreeRequest(C.recvs)
  IN [C EXCEPT !.recvs = Occupy(C, @, i, nth), !.asked = (<<"recv", arg.name>> :> i) @@ @,
               !.fields = (arg.name :> Fresh(C)) @@ @]

\* values[s]: what has come from s.
IrecvWaited(C, arg, values) ==
  LET i == C.asked[<<"recv", arg.name>>]
      From(f, s) == Put(f, C, s, values[s])
  IN Finish([C EXCEPT !.recvs = Without(@, i),
                      !.fields[arg.name] = FoldLeft(From, @, C.near)], arg.name)

-----------------------------------------------------------------------------
(* What a step sends, what it does with what it gets, what follows. *)

CplData(r, C, d) ==
  LET c == d.arg.c
      points(js) == EachOf(js, LAMBDA j : Points(r, C, c)[j])
  IN CASE d.do = "coupling_name" -> c
       [] d.do = "exchange_name" -> d.arg.name
       [] d.do = "offer"         -> points(Offered(r, C, c, d.with))
       [] d.do = "answer"        -> EachOf(C.offer, LAMBDA p : Dist(C, c, p, r))
       [] d.do = "count_points"  -> Len(Mine(C, d.with))
       [] d.do = "results"       -> points(Mine(C, d.with))
       [] d.do = "flag"          -> Flag(C, d.arg, d.with)
       [] d.do = "values"        -> OnlyIf(Flag(C, d.arg, d.with) = 1, Interpolated(r, C, d.arg, d.with))
       [] d.do = "synchronize"   -> C.located
       [] d.do = "field"         -> IF d.arg.recv THEN C.fields[d.arg.name] ELSE NoValue
       [] d.do = "request"       -> C.asked[<<"recv", d.arg.name>>]
       [] OTHER                  -> NoValue

\* Whether the code goes on.
Accepts(C, d, got) ==
  CASE d.do = "coupling_name" -> got = d.arg.c
    [] d.do = "exchange_name" -> got = d.arg.name
    [] d.do = "flag"          -> got = 1 => d.arg.recv /\ Mine(C, d.with) # <<>>
    [] OTHER                  -> d.do # "undefined_mesh"

CplEffect(r, C, d, got) ==
  LET c == d.arg.c
      name == d.arg.name
  IN CASE d.do = "nodal"   -> [C EXCEPT !.nodal = TRUE]
       [] d.do = "define_mesh" -> [C EXCEPT !.mesh = TRUE]
       [] d.do = "extents" -> Extents(r, C, c)
       [] d.do = "offer"   -> [C EXCEPT !.offer = got]
       [] d.do = "answer"  -> [C EXCEPT !.best = Best(r, C, c, d.with, got)]
       [] d.do = "results" -> [C EXCEPT !.theirs = (d.with :> got) @@ @]
       [] d.do = "timing"  -> [C EXCEPT !.located = Interior(C)]
       [] d.do = "synchronize" /\ r # d.root ->
            [C EXCEPT !.located = got[d.root]]
       [] d.do = "interpolate" /\ d.arg.recv ->
            [C EXCEPT !.fields = (name :> Fresh(C)) @@ @, !.done = Without(@, name)]
       [] d.do = "flag"    -> [C EXCEPT !.flag = got]
       [] d.do = "values" /\ C.flag = 1 ->
            [C EXCEPT !.fields[name] = Put(@, C, d.with, got)]
       [] d.do = "status"  ->
            [IF d.arg.recv THEN Finish(C, name) ELSE C EXCEPT !.status = Status(C, d.arg)]
       [] d.do = "field" /\ r # d.root /\ d.arg.recv ->
            Finish([C EXCEPT !.fields = (name :> got[d.root]) @@ @], name)
       [] d.do = "located" -> [Finish(C, 0) EXCEPT !.toLocate = FALSE]
       [] d.do = "request" -> [C EXCEPT !.asked = (<<"recv", name>> :> got[d.root]) @@ @]
       [] d.do = "issend"      -> Issended(C, d.arg, got)
       [] d.do = "wait_issend" -> IssendWaited(C, d.arg)
       [] d.do = "irecv"       -> Irecved(C, d.arg, got)
       [] d.do = "wait_irecv"  -> IrecvWaited(C, d.arg, got)
       [] OTHER -> C

CplMore(r, C, d) ==
  CASE d.do = "extents"     -> LocateAllDistant(r, C, d.arg.c)
    [] d.do = "interpolate" -> PointVarSteps(r, C, d.arg)
    [] d.do = "status"      -> AfterCheck(r, C, d.arg)
    [] OTHER                -> <<>>
=============================================================================

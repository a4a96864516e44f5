--------------------------- MODULE MCOldInterface ---------------------------
(* Instances of OldInterface: what the applications are like, and call.     *)
EXTENDS OldInterface

(* Geometries.  A point is given by its rank and by how far it is from the *)
(* meshes in whose extents it is.                                          *)
Pt(by, reach) == [by |-> by, reach |-> reach]
Geometry(ranks, pts) ==
  [points |-> [r \in ranks |-> SelectSeq([i \in DOMAIN pts |-> i], LAMBDA i : pts[i].by = r)],
   near   |-> UNION {{<<pts[i].by, s>>, <<s, pts[i].by>>} :
                       <<i, s>> \in {x \in (DOMAIN pts) \X ranks : x[2] \in DOMAIN pts[x[1]].reach}},
   dist   |-> [i \in DOMAIN pts |->
                 [s \in ranks |-> IF s \in DOMAIN pts[i].reach THEN pts[i].reach[s] ELSE -2]]]

\* Applications A on ranks 0 and 1, B on 2 and 3: each point is in the extents of
\* one rank, of both or of none, and in their meshes at several distances.
Crossed ==
  Geometry(0 .. 3,
    <<Pt(0, (2 :> 1) @@ (3 :> 0)), Pt(0, 3 :> 2), Pt(0, 2 :> -1),
      Pt(1, 3 :> 0), Pt(2, (0 :> 1) @@ (1 :> 1)), Pt(3, 0 :> 0), Pt(3, <<>>)>>)
\* A chain: 0 - 2 - 1, and 3 has no neighbour.
Moved ==
  Geometry(0 .. 3,
    <<Pt(0, 2 :> 0), Pt(0, 2 :> -1), Pt(1, 2 :> 3), Pt(2, (0 :> -1) @@ (1 :> 2)), Pt(3, <<>>)>>)
\* Roots only, and the root of B with both ranks of A.
Roots ==
  Geometry(0 .. 3, <<Pt(0, 2 :> 0), Pt(0, 2 :> -1), Pt(0, 2 :> 1), Pt(2, 0 :> 2), Pt(2, 0 :> -1)>>)
OneSide ==
  Geometry(0 .. 3, <<Pt(0, 2 :> 0), Pt(1, 2 :> -1), Pt(1, 2 :> 1),
                     Pt(2, (0 :> 2) @@ (1 :> 1)), Pt(2, 1 :> 0)>>)

-----------------------------------------------------------------------------
(* Calls. *)

Call(fn)           == [fn |-> fn]
Parm(fn, t, n, v)  == [fn |-> fn, type |-> t, name |-> n, value |-> v]
Sync(b)            == [fn |-> "synchronize", app |-> b]
Create(c, b, t)    == [fn |-> "create", c |-> c, app |-> b, type |-> t]
On(fn, c)          == [fn |-> fn, c |-> c]
Exch(c, n, s, r)   == [fn |-> "exchange", c |-> c, name |-> n, send |-> s, recv |-> r]
Async(fn, c, t, n) == [fn |-> fn, c |-> c, tag |-> t, name |-> n]

\* init, s, finalize.
Whole(s) == <<Call("init")>> \o s \o <<Call("finalize")>>

World(app, calls, geo, wrong) ==
  [app |-> app, calls |-> calls, geo |-> geo, wrong |-> wrong]

TwoTwo == [r \in 0 .. 3 |-> IF r < 2 THEN "A" ELSE "B"]
TwoOne == [r \in 0 .. 2 |-> IF r < 2 THEN "A" ELSE "B"]

\* Each rank of A calls a, each of B calls b.
Both(app, a, b) == [r \in DOMAIN app |-> Whole(IF app[r] = "A" THEN a ELSE b)]

-----------------------------------------------------------------------------
(* Control parameters: lists of different lengths, changed in between. *)

ParamWorlds ==
  LET app == [r \in 0 .. 3 |-> IF r < 2 THEN "A" ELSE IF r = 2 THEN "B" ELSE "C"]
      a == <<Parm("add", "int", 1, 10), Parm("add", "int", 2, 20), Parm("add", "string", 1, 5),
             Sync("B"), Parm("set", "int", 2, 21), Parm("erase", "string", 1, 0), Sync("C"),
             Parm("erase", "int", 1, 0), Sync("B")>>
      b == <<Parm("add", "int", 7, 70), Parm("add", "double", 1, 1), Sync("A"),
             Parm("add", "int", 2, 3), Sync("C"), Parm("add", "int", 8, 80), Sync("A")>>
      c == <<Parm("add", "int", 4, 4), Sync("A"), Parm("set", "int", 4, 5), Sync("B")>>
  IN {World(app, [r \in 0 .. 3 |-> Whole(CASE app[r] = "A" -> a [] app[r] = "B" -> b [] OTHER -> c)],
            <<>>, FALSE)}

\* Couplings with partitioning on both sides, on one and on none.
Prologue(b, t) == <<Create(1, b, t), On("define_mesh", 1)>>
Coarse(b, t, r) == <<Create(1, b, t)>> \o (IF r \in {0, 2} THEN <<On("define_mesh", 1)>> ELSE <<>>)
Fields(change) ==
  <<Exch(1, 1, TRUE, TRUE), Exch(1, 2, TRUE, TRUE), On(change, 1)>>
PartWorlds ==
  LET back(s, r) == <<On("locate", 1), Exch(1, 3, s, r), On("delete", 1)>>
  IN {World(TwoTwo, Both(TwoTwo, Prologue("B", "P") \o Fields("update_location") \o back(TRUE, FALSE),
                                 Prologue("A", "P") \o Fields("update_location") \o back(FALSE, TRUE)),
            <<geos>>, FALSE) : geos \in {<<Crossed, Moved>>, <<Moved, Crossed>>}}

\* Every way in which the extents of two and two ranks may intersect: a point that
\* is in all the extents it can be in, and nearest to the last rank.
Reached(by, n) ==
  Pt(by, [s \in {t \in 0 .. 3 : <<by, t>> \in n \/ <<t, by>> \in n} |-> 3 - s])
NearWorlds ==
  {World(TwoTwo, Both(TwoTwo, Prologue("B", "P") \o <<Exch(1, 1, TRUE, TRUE)>>,
                              Prologue("A", "P") \o <<Exch(1, 1, TRUE, TRUE)>>),
         <<<<Geometry(0 .. 3, [i \in 1 .. 4 |-> Reached(i - 1, n)])>>>>, FALSE) :
     n \in SUBSET ({0, 1} \X {2, 3})}

FullMesh(ta, tb, r) ==
  IF r < 2 THEN (IF ta = "P" THEN Prologue("B", ta) ELSE Coarse("B", ta, r))
           ELSE (IF tb = "P" THEN Prologue("A", tb) ELSE Coarse("A", tb, r))
CoarseWorlds ==
  {World(TwoTwo, [r \in 0 .. 3 |-> Whole(FullMesh(ta, "W", r) \o Fields("set_points")
                                            \o <<Exch(1, 3, r < 2, r >= 2)>>)],
         <<IF ta = "P" THEN <<OneSide, Roots>> ELSE <<Roots, Roots>>>>, FALSE) : ta \in {"P", "W"}}

\* Two fields under way together, waited for in different orders.
AsyncWorlds ==
  LET out(r) == <<On("locate", 1), Async("issend", 1, 1, 1), Async("issend", 1, 2, 2),
                  Async("irecv", 1, 3, 3), Async("wait_issend", 1, 2, 2), Async("issend", 1, 1, 4),
                  Async("wait_irecv", 1, 3, 3), Async("wait_issend", 1, 1, 1),
                  Async("wait_issend", 1, 1, 4)>>
      in(r)  == <<On("locate", 1), Async("irecv", 1, 2, 2), Async("irecv", 1, 1, 1),
                  Async("issend", 1, 3, 3), Async("wait_irecv", 1, 2, 2), Async("irecv", 1, 1, 4),
                  Async("wait_irecv", 1, 1, 4), Async("wait_irecv", 1, 1, 1), Async("wait_issend", 1, 3, 3)>>
  IN {World(TwoTwo, [r \in 0 .. 3 |-> Whole(FullMesh(t[1], t[2], r) \o (IF r < 2 THEN out(r) ELSE in(r)))],
            <<<<t[3]>>>>, FALSE) : t \in {<<"P", "P", Moved>>, <<"P", "W", OneSide>>}}

\* What the applications contradict each other about.
WrongWorlds ==
  LET differ == <<Parm("add", "int", 1, 1), Sync("B")>>
      swapped(r) == IF r < 2 THEN <<Create(1, "B", "P"), Create(2, "B", "P")>>
                             ELSE <<Create(2, "A", "P"), Create(1, "A", "P")>>
      named(r, a, b) == Prologue(IF r < 2 THEN "B" ELSE "A", "P") \o <<IF r < 2 THEN a ELSE b>>
  IN {World([r \in 0 .. 2 |-> IF r = 1 THEN "B" ELSE "A"], [r \in 0 .. 2 |-> Whole(<<>>)], <<>>, TRUE),
      World(TwoOne, [r \in 0 .. 2 |-> Whole(IF r = 1 THEN <<Parm("add", "int", 1, 2), Sync("B")>>
                                            ELSE IF r = 0 THEN differ ELSE <<Sync("A")>>)], <<>>, TRUE),
      World(TwoOne, [r \in 0 .. 2 |-> Whole(<<Create(1, IF r < 2 THEN "B" ELSE "A",
                                                     IF r = 1 THEN "W" ELSE "P")>>)], <<>>, TRUE)}
     \cup {World(TwoTwo, [r \in 0 .. 3 |-> Whole(swapped(r)
             \o (IF r < 2 THEN <<On("define_mesh", 1), Exch(1, 1, TRUE, TRUE)>>
                          ELSE <<On("define_mesh", 2), Exch(2, 1, TRUE, TRUE)>>))],
             <<<<Moved>>, <<Moved>>>>, TRUE)}
     \cup {World(TwoTwo, [r \in 0 .. 3 |-> Whole(named(r, p[1], p[2]))], <<<<Crossed>>>>, TRUE) :
             p \in {<<Exch(1, 1, TRUE, TRUE), Exch(1, 2, TRUE, TRUE)>>,
                    <<Exch(1, 1, TRUE, TRUE), Exch(1, 1, TRUE, FALSE)>>,
                    <<Async("issend", 1, 1, 1), Async("irecv", 1, 1, 1)>>}}

OldWorlds == ParamWorlds \cup PartWorlds \cup NearWorlds \cup CoarseWorlds \cup AsyncWorlds \cup WrongWorlds
=============================================================================

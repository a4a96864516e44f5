---------------------------- MODULE CouplingSetup ----------------------------
(***************************************************************************)
(* How the ranks of two codes create a coupling (CWP_Cpl_create) and       *)
(* compute its spatial interpolation weights, time step after time step    *)
(* (CWP_Spatial_interp_weights_compute): the MPI calls they make, in which *)
(* order, and the interpolation objects they end up with.                  *)
(*                                                                         *)
(* A rank that runs both codes ("joint") creates the communicators when    *)
(* the second of its codes creates the coupling, and makes the calls of    *)
(* both codes; a rank that runs one makes its own.  todo[r] is the list of *)
(* MPI calls rank r still has to make in the library call it is in.        *)
(*                                                                         *)
(* Ranks are numbered as in the global communicator, and the groups of the *)
(* codes are ordered like it; the first rank of a code is its root.        *)
(*                                                                         *)
(* The numbers, names, types and locations of the fields are one message,  *)
(* and so are the keys of the interpolation objects.  The gathers that     *)
(* check the dimensions of the two couplings, and visualisation, are left  *)
(* out.                                                                    *)
(***************************************************************************)
EXTENDS Naturals, Sequences, FiniteSets, SequencesExt

CONSTANTS
  Ranks,    \* the active ranks
  Worlds,   \* what the codes may be like: one is chosen
  NoValue   \* what a variable holds before it is assigned, and the null pointer

Codes == {"A", "B"}    \* A has the smaller id
Other == [c \in Codes |-> IF c = "A" THEN "B" ELSE "A"]

ASSUME SetupAssumption ==
  /\ Ranks \subseteq Nat /\ IsFiniteSet(Ranks)
  /\ \A w \in Worlds :
       /\ w.codes \in [Ranks -> (SUBSET Codes) \ {{}}]
       /\ \A c \in Codes : \E r \in Ranks : c \in w.codes[r]
       /\ w.part \in [Codes -> BOOLEAN]  \* CWP_COMM_PAR_WITH_PART
       /\ w.chain \in BOOLEAN            \* how broadcasts go on, see LeaveBcast
       /\ w.steps \in Nat                \* bound: time steps
       /\ \A c \in Codes :
            /\ IsFiniteSet(w.fields[c])
            /\ \A f \in w.fields[c] : f.loc \in Nat /\ f.exch \in {"send", "recv", "sendrecv"}

VARIABLES
  world,    \* the chosen world
  made,     \* made[r]: the codes whose coupling rank r has created
  side,     \* side[r]: the code as which rank r creates the communicators
  step,     \* step[r]: the time step, _n_step
  called,   \* called[r]: the codes that have asked for the weights in this step
  got,      \* got[r][c]: what rank r has received from the other code as a rank
            \* of c: its communication type, its fields, its send objects
  objects,  \* objects[r]: the interpolation objects of its couplings: the code
            \* each takes as its own, and its part-to-part protocol
  todo,     \* the MPI calls to make
  entered,  \* entered[r]: rank r is inside the first of them
  log,      \* log[r]: the collective calls over both codes it has entered
  mail,     \* mail[c]: what the root of c has sent to that of the other code
  arrived,  \* arrived[r][c]: the broadcasts of code c that rank r has entered
  shared    \* shared[c]: what the root of c has broadcast

user == <<world, made, side, step, called>>
mpi  == <<log, mail, arrived, shared>>
vars == <<user, got, objects, todo, entered, mpi>>

-----------------------------------------------------------------------------
(* Ranks, codes and the calls to make. *)

RanksOf(c) == {r \in Ranks : c \in world.codes[r]}
Root(c)    == Min(RanksOf(c))
Joint(r)   == world.codes[r] = Codes
Main(r)    == IF "A" \in world.codes[r] THEN "A" ELSE "B"
Idle(r)    == todo[r] = <<>>
Doing(r, op) == todo[r] # <<>> /\ Head(todo[r]).op = op

Local(op)      == [op |-> op]
Ask(c, what)   == [op |-> "sendrecv", code |-> c, what |-> what]
Bcast(c, what) == [op |-> "bcast", code |-> c, what |-> what]
Compute(objs)  == [op |-> "weights", objs |-> objs]

\* The root of c gets what the other root has: from its own memory when it is
\* the root of both codes.
AskCalls(r, c, what) ==
  IF Root(c) # r THEN <<>>
  ELSE IF Root(Other[c]) = r THEN <<[op |-> "copy", what |-> what]>>
  ELSE <<Ask(c, what)>>

\* Faulty variant: the second code to create the coupling is the local one.
SideOfCaller(r, c) == c

\* The root of a code acts for that code, unless it is the root of both.
Side(r, c) ==
  IF Joint(r) /\ Root(Other[c]) = r /\ Root(c) # r THEN Other[c] ELSE c

\* Communication::init, seen from code v.
CreateCalls(r, v) ==
  <<Local("create_group")>> \o AskCalls(r, v, "type") \o <<Bcast(v, "type")>>
    \o (IF Joint(r) THEN <<Bcast(Other[v], "type")>> ELSE <<>>) \o <<Local("create")>>

\* iexchGlobalDataBetweenCodesThroughUnionCom, in the call of the smaller id
\* on a joint rank.
ExchangeCalls(r, what) ==
  (IF Joint(r) /\ Root("A") # r THEN AskCalls(r, "B", what) ELSE AskCalls(r, Main(r), what))
    \o <<Bcast(Main(r), what)>> \o (IF Joint(r) THEN <<Bcast("B", what)>> ELSE <<>>)

-----------------------------------------------------------------------------
(* Interpolation objects.  A key is a pair of degrees of freedom locations,  *)
(* the local one first; a map of objects is ordered by its keys.             *)

Rev(key) == <<key[2], key[1]>>
Before(k, l) == k[1] < l[1] \/ (k[1] = l[1] /\ k[2] < l[2])

Sorted(keys) ==
  CHOOSE s \in SetToSeqs(keys) : \A i, j \in DOMAIN s : i < j => Before(s[i], s[j])

Obj(c, dir, key) == [code |-> c, dir |-> dir, key |-> key]

\* The object of the other code that goes with o, if o belongs to code c.
Partner(o, c) ==
  Obj(Other[c], IF o.dir = "send" THEN "recv" ELSE "send", Rev(o.key))

Sends(f) == f.exch \in {"send", "sendrecv"}
Recvs(f) == f.exch \in {"recv", "sendrecv"}

\* Fields of the same name, whose exchange types complete one another.
Matches(r) ==
  {p \in world.fields[Main(r)] \X got[r][Main(r)].fields :
     /\ p[1].name = p[2].name
     /\ Sends(p[1]) = Recvs(p[2]) /\ Recvs(p[1]) = Sends(p[2])}

\* The objects of the code in whose call they are created.
OwnObjects(r) ==
  LET Key(p) == <<p[1].loc, p[2].loc>>
  IN {Obj(Main(r), "send", Key(p)) : p \in {q \in Matches(r) : Sends(q[1])}}
       \cup {Obj(Main(r), "recv", Key(p)) : p \in {q \in Matches(r) : Recvs(q[1])}}

\* Faulty variant: every rank makes the objects of both codes.
BothObjects(r) == OwnObjects(r) \cup {Partner(o, Main(r)) : o \in OwnObjects(r)}

\* On a joint rank each comes with its partner.
NewObjects(r) ==
  OwnObjects(r) \cup (IF Joint(r) THEN {Partner(o, Main(r)) : o \in OwnObjects(r)} ELSE {})

\* The send objects of c in the order of their map, and its receive objects in
\* the order in which the other code says it has its send objects (_sis_loc_r).
SendKeys(r, c) ==
  Sorted({o.key : o \in {x \in DOMAIN objects[r] : x.code = c /\ x.dir = "send"}})
SendObjs(r, c) == [i \in DOMAIN SendKeys(r, c) |-> Obj(c, "send", SendKeys(r, c)[i])]

\* Faulty variant: in the order of their own map.
RecvObjsByMap(r, c) ==
  LET keys == Sorted({Rev(got[r][c].sends[i]) : i \in DOMAIN got[r][c].sends})
  IN [i \in DOMAIN keys |-> Obj(c, "recv", keys[i])]

RecvObjs(r, c) == [i \in DOMAIN got[r][c].sends |-> Obj(c, "recv", Rev(got[r][c].sends[i]))]

\* The calls of weightsCompute: first what A sends, then what B sends.
WeightsCalls(r) ==
  LET Single(s)   == [i \in DOMAIN s |-> Compute(<<s[i]>>)]
      Pairs(s, t) == [i \in DOMAIN s |-> Compute(<<s[i], t[i]>>)]
  IN IF Joint(r) THEN Pairs(SendObjs(r, "A"), RecvObjs(r, "B"))
                      \o Pairs(SendObjs(r, "B"), RecvObjs(r, "A"))
     ELSE IF Main(r) = "A" THEN Single(SendObjs(r, "A")) \o Single(RecvObjs(r, "A"))
     ELSE Single(RecvObjs(r, "B")) \o Single(SendObjs(r, "B"))

\* What an object connects if it belongs to code c: whose data, and where.
Ends(o, c) ==
  IF o.dir = "send" THEN [from |-> c, ends |-> o.key]
                    ELSE [from |-> Other[c], ends |-> Rev(o.key)]

\* Faulty variant: the objects are not cleared for new weights.
Keep(r, objs) == objects[r]

\* clear_data: the objects are cleared and initialised again.  On a joint rank
\* those of what B sends are given the coupling of the other code.
Clear(r, objs) ==
  IF step[r] = 0 THEN objects[r]
  ELSE [o \in DOMAIN objects[r] |->
         IF o \notin Range(objs) THEN objects[r][o]
         ELSE [as   |-> IF Joint(r) /\ Ends(o, o.code).from = "B"
                        THEN Other[o.code] ELSE o.code,
               link |-> NoValue]]

\* The object that does the work: the only one, or on a joint rank the one that
\* takes the code of smaller id as its own.
Worker(r, objs, known) ==
  CHOOSE o \in Range(objs) : Joint(r) => known[o].as = "A"

-----------------------------------------------------------------------------
(* The calls of the user. *)

\* The constructor of Coupling; the coupling is in the data base from then on.
CWP_Cpl_create(r, c) ==
  /\ Idle(r) /\ c \in world.codes[r] \ made[r]
  /\ made' = [made EXCEPT ![r] = @ \cup {c}]
  /\ IF Joint(r) /\ Other[c] \notin made[r]
     THEN UNCHANGED <<side, got, todo>>
     ELSE LET v == Side(r, c) IN
          /\ side' = [side EXCEPT ![r] = v]
          /\ todo' = [todo EXCEPT ![r] = CreateCalls(r, v)]
          \* commType is the buffer of the broadcast to the other code
          /\ got' = [got EXCEPT ![r][Other[v]].type = world.part[v]]
  /\ UNCHANGED <<world, step, called, objects, entered, mpi>>

\* Coupling::spatialInterpWeightsCompute: field properties are exchanged in the
\* first step only; on a joint rank the call of the larger id does nothing.
CWP_Spatial_interp_weights_compute(r, c) ==
  /\ Idle(r) /\ made[r] = world.codes[r] /\ step[r] < world.steps
  /\ c \in world.codes[r] \ called[r]
  /\ called' = [called EXCEPT ![r] = @ \cup {c}]
  /\ todo' = [todo EXCEPT ![r] =
       IF Joint(r) /\ c = "B" THEN <<>>
       ELSE (IF step[r] > 0 THEN <<>>
             ELSE ExchangeCalls(r, "fields") \o <<Local("objects")>> \o ExchangeCalls(r, "sends"))
            \o <<Local("order")>>]
  /\ UNCHANGED <<world, made, side, step, got, objects, entered, mpi>>

\* The end of the time step, for all codes of the rank.
CWP_Time_step_end(r) ==
  /\ Idle(r) /\ called[r] = world.codes[r]
  /\ step' = [step EXCEPT ![r] = @ + 1]
  /\ called' = [called EXCEPT ![r] = {}]
  /\ UNCHANGED <<world, made, side, got, objects, todo, entered, mpi>>

-----------------------------------------------------------------------------
(* MPI: a call is entered, and left when it is complete. *)

Finish(r) ==
  /\ todo' = [todo EXCEPT ![r] = Tail(@)]
  /\ entered' = [entered EXCEPT ![r] = FALSE]

Enter(r) == entered' = [entered EXCEPT ![r] = TRUE]

\* What a root rank has for the other code.
Payload(r, c, what) ==
  CASE what = "type"   -> world.part[c]
    [] what = "fields" -> world.fields[c]
    [] what = "sends"  -> SendKeys(r, c)

\* Faulty variant: a root of both codes takes its own communication type.
CopyOwn(r) ==
  /\ Doing(r, "copy")
  /\ LET what == Head(todo[r]).what
     IN got' = [got EXCEPT ![r] =
                  [c \in Codes |-> [@[c] EXCEPT ![what] = Payload(r, c, what)]]]
  /\ Finish(r)
  /\ UNCHANGED <<user, objects, mpi>>

Copy(r) ==
  /\ Doing(r, "copy")
  /\ LET what == Head(todo[r]).what
     IN got' = [got EXCEPT ![r] =
                  [c \in Codes |-> [@[c] EXCEPT ![what] = Payload(r, Other[c], what)]]]
  /\ Finish(r)
  /\ UNCHANGED <<user, objects, mpi>>

EnterSendrecv(r) ==
  /\ Doing(r, "sendrecv") /\ ~entered[r]
  /\ LET c == Head(todo[r]).code
     IN mail' = [mail EXCEPT ![c] = Append(@, Payload(r, c, Head(todo[r]).what))]
  /\ Enter(r)
  /\ UNCHANGED <<user, got, objects, todo, log, arrived, shared>>

LeaveSendrecv(r) ==
  /\ Doing(r, "sendrecv") /\ entered[r]
  /\ LET c == Head(todo[r]).code  n == Len(mail[c])
     IN /\ Len(mail[Other[c]]) >= n
        /\ got' = [got EXCEPT ![r][c][Head(todo[r]).what] = mail[Other[c]][n]]
  /\ Finish(r)
  /\ UNCHANGED <<user, objects, mpi>>

EnterBcast(r) ==
  /\ Doing(r, "bcast") /\ ~entered[r]
  /\ LET c == Head(todo[r]).code  what == Head(todo[r]).what
     IN /\ arrived' = [arrived EXCEPT ![r][c] = @ + 1]
        /\ shared' = IF r = Root(c) THEN [shared EXCEPT ![c] = Append(@, got[r][c][what])]
                                    ELSE shared
  /\ Enter(r)
  /\ UNCHANGED <<user, got, objects, todo, log, mail>>

\* A rank waits for the root, or for all ranks before it when they pass the
\* data on; a rank does not wait for those behind it.
LeaveBcast(r) ==
  /\ Doing(r, "bcast") /\ entered[r]
  /\ LET c == Head(todo[r]).code  n == arrived[r][c]
     IN /\ \A s \in RanksOf(c) :
             (s = Root(c) \/ (world.chain /\ s < r)) => arrived[s][c] >= n
        /\ got' = [got EXCEPT ![r][c][Head(todo[r]).what] = shared[c][n]]
  /\ Finish(r)
  /\ UNCHANGED <<user, objects, mpi>>

\* A collective call over the ranks of both codes.
EnterAll(r, call) ==
  /\ ~entered[r] /\ Enter(r)
  /\ log' = [log EXCEPT ![r] = Append(@, call)]
  /\ UNCHANGED <<mail, arrived, shared>>

AllIn(r) == entered[r] /\ \A s \in Ranks : Len(log[s]) >= Len(log[r])

CreateGroup(r) ==
  /\ Doing(r, "create_group")
  /\ \/ EnterAll(r, [op |-> "create_group"]) /\ UNCHANGED todo
     \/ AllIn(r) /\ Finish(r) /\ UNCHANGED mpi
  /\ UNCHANGED <<user, got, objects>>

\* The union of two groups, and a group with only the root of some ranks.
InOrder(S) == SetToSortSeq(S, <)
UnionOf(S, T) == InOrder(S) \o InOrder(T \ S)
RootOnly(group, S, root) == SelectSeq(group, LAMBDA s : s = root \/ s \notin S)

\* The group of the coupling communicator, in its order: without the ranks,
\* but the root, of a code without partition; the two roots if both are.
CplGroup(r) ==
  LET v == side[r]
      Without(c) == RootOnly(UnionOf(RanksOf("A"), RanksOf("B")), RanksOf(c), Root(c))
  IN IF world.part[v] THEN Without(Other[v])
     ELSE IF got[r][v].type THEN Without(v)
     ELSE IF v = "A" THEN <<Root(Other[v]), Root(v)>> ELSE <<Root(v), Root(Other[v])>>

\* _cplCommCreate: with two partitioned codes it is the union communicator.
CplCommCreate(r) ==
  /\ Doing(r, "create")
  /\ IF world.part[side[r]] /\ got[r][side[r]].type
     THEN Finish(r) /\ UNCHANGED mpi
     ELSE \/ EnterAll(r, [op |-> "create", group |-> CplGroup(r)]) /\ UNCHANGED todo
          \/ AllIn(r) /\ Finish(r) /\ UNCHANGED mpi
  /\ UNCHANGED <<user, got, objects>>

\* "Create spatial interpolation objects".
CreateObjects(r) ==
  /\ Doing(r, "objects")
  /\ objects' = [objects EXCEPT ![r] =
       [o \in NewObjects(r) |-> [as |-> o.code, link |-> NoValue]]]
  /\ Finish(r)
  /\ UNCHANGED <<user, got, mpi>>

OrderWeights(r) ==
  /\ Doing(r, "order")
  /\ todo' = [todo EXCEPT ![r] = WeightsCalls(r)]
  /\ UNCHANGED <<user, got, objects, entered, mpi>>

\* weightsCompute of one object, or of a pair of them.
EnterWeights(r) ==
  /\ Doing(r, "weights")
  /\ LET objs == Head(todo[r]).objs
         known == Clear(r, objs)
         w == Worker(r, objs, known)
     IN /\ objects' = [objects EXCEPT ![r] = known]
        /\ EnterAll(r, [op |-> "weights", of |-> Ends(w, known[w].as)])
  /\ UNCHANGED <<user, got, todo>>

\* The worker keeps the protocol it has, or creates one; it gives it to the
\* object it takes for its partner, which must be there.
LeaveWeights(r) ==
  /\ Doing(r, "weights") /\ AllIn(r)
  /\ LET w == Worker(r, Head(todo[r]).objs, objects[r])
         p == Partner(w, objects[r][w].as)
         link == IF objects[r][w].link # NoValue THEN objects[r][w].link
                 ELSE [of |-> Ends(w, objects[r][w].as), step |-> step[r]]
     IN /\ Joint(r) => p \in DOMAIN objects[r]
        /\ objects' = [objects EXCEPT ![r] = [o \in DOMAIN @ |->
             IF o = w \/ (Joint(r) /\ o = p) THEN [@[o] EXCEPT !.link = link] ELSE @[o]]]
  /\ Finish(r)
  /\ UNCHANGED <<user, got, mpi>>

-----------------------------------------------------------------------------
Init ==
  /\ world \in Worlds
  /\ made = [r \in Ranks |-> {}]  /\ side = [r \in Ranks |-> NoValue]
  /\ step = [r \in Ranks |-> 0]   /\ called = [r \in Ranks |-> {}]
  /\ got = [r \in Ranks |-> [c \in Codes |->
                            [type |-> NoValue, fields |-> NoValue, sends |-> NoValue]]]
  /\ objects = [r \in Ranks |-> <<>>]
  /\ todo = [r \in Ranks |-> <<>>]
  /\ entered = [r \in Ranks |-> FALSE]
  /\ log = [r \in Ranks |-> <<>>] /\ mail = [c \in Codes |-> <<>>]
  /\ arrived = [r \in Ranks |-> [c \in Codes |-> 0]]
  /\ shared = [c \in Codes |-> <<>>]

MPIStep(r) ==
  \/ Copy(r) \/ EnterSendrecv(r) \/ LeaveSendrecv(r) \/ EnterBcast(r) \/ LeaveBcast(r)
  \/ CreateGroup(r) \/ CplCommCreate(r) \/ CreateObjects(r) \/ OrderWeights(r)
  \/ EnterWeights(r) \/ LeaveWeights(r)

Step(r) ==
  \/ \E c \in Codes : CWP_Cpl_create(r, c) \/ CWP_Spatial_interp_weights_compute(r, c)
  \/ CWP_Time_step_end(r)
  \/ MPIStep(r)

Next == \E r \in Ranks : Step(r)

Spec == Init /\ [][Next]_vars

\* Every rank goes on, and the ranks of a code make the same calls.
FairSpec == Spec /\ \A r \in Ranks : WF_vars(Step(r))

-----------------------------------------------------------------------------
(* Properties. *)

TypeOK ==
  /\ world \in Worlds
  /\ made \in [Ranks -> SUBSET Codes] /\ called \in [Ranks -> SUBSET Codes]
  /\ side \in [Ranks -> Codes \cup {NoValue}]
  /\ entered \in [Ranks -> BOOLEAN]
  /\ \A r \in Ranks :
       /\ step[r] \in 0 .. world.steps
       /\ \A o \in DOMAIN objects[r] : o.code \in world.codes[r]
       /\ entered[r] => ~Idle(r)

\* When a rank creates the coupling communicator it knows the communication type
\* of the coupled code, of which it chooses the group: whatever the order in
\* which the joint ranks create the couplings of their two codes.
TypeKnown ==
  \A r \in Ranks : Doing(r, "create") => got[r][side[r]].type = world.part[Other[side[r]]]

\* All ranks of the two codes make the same collective calls in the same order:
\* they create the communicator of the same group, and compute the weights of
\* the same exchange, whether they do the work of one code or of both.
SameCollectives ==
  \A r, s \in Ranks : \A n \in DOMAIN log[r] \cap DOMAIN log[s] : log[r][n] = log[s][n]

\* "Local sent interpolation objects to associate with receive distant" ones, and
\* the other way round: once the weights of a step are computed every object has
\* the protocol of its own exchange, computed in that step.
Associated ==
  \A r \in Ranks :
    (Idle(r) /\ called[r] = world.codes[r]) =>
      \A o \in DOMAIN objects[r] :
        objects[r][o].link = [of |-> Ends(o, o.code), step |-> step[r]]

\* No rank waits for another one for ever, neither for the creation of the
\* coupling nor for the weights of any step.
SetupEnds ==
  <>[](\A r \in Ranks : made[r] = world.codes[r] /\ Idle(r) /\ step[r] = world.steps)
=============================================================================

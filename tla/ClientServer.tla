---------------------------- MODULE ClientServer ----------------------------
(***************************************************************************)
(* The client/server mode: each rank of a code is a client process, whose  *)
(* calls are made by a server process over a socket.  Both sides run the   *)
(* scripts of ClientScripts and ServerScripts, one step at a time; the     *)
(* barriers of a function join the clients, or the servers, of all ranks.  *)
(*                                                                         *)
(* A stream is in order and loses nothing; it holds SockCap items at most, *)
(* and a writer waits for room, a reader for what it reads.  An item of 0  *)
(* bytes is neither sent nor received.  Timeouts are left out.             *)
(*                                                                         *)
(* The code that uses the mode makes the same calls on all ranks: the ones *)
(* of a plan, in any order that is legal, again and again, and Finalize.   *)
(***************************************************************************)
EXTENDS SocketSteps, FiniteSets, TLC

CONSTANTS
  Plans,    \* what a code may do: one is chosen
  Sizes,    \* the sizes a rank may give
  MaxRanks, \* the ranks of all plans
  SockCap,  \* bound: number of items in a stream
  Counts, Strings, StdTypes, HoTypes

Clt == INSTANCE ClientScripts
Svr == INSTANCE ServerScripts

\* A call: its function, the arguments that all ranks share, and the names of
\* those each rank has its own value of.
Ask(fn, shared, own) == [fn |-> fn, shared |-> shared, own |-> own]

ASSUME ClientServerAssumption ==
  /\ SockCap \in Nat \ {0}
  /\ \A p \in Plans : p.ranks # {} /\ p.ranks \subseteq MaxRanks

VARIABLES
  plan,  \* [ranks, verbose, calls]
  proc,  \* proc[p]: the function process p is in, its arguments and what it
         \* has read, the position in its script and the step there
  cwp,   \* cwp[p]: clt_cwp or svr_cwp
  sent,  \* sent[p]: what p has written and its peer has not read
  asked, \* asked[r]: the calls of client r that server r has not completed
  given, \* given[r]: the elements that the library of r holds, per part
  user   \* what the code knows: the blocks it has set, the parts whose field
         \* data fit the mesh, whether it awaits global data

vars == <<plan, proc, cwp, sent, asked, given, user>>

Ranks   == plan.ranks
Verbose == plan.verbose
Calls   == plan.calls

Sides   == {"client", "server"}
Client(r) == <<"client", r>>
Server(r) == <<"server", r>>
Peer(p) == IF p[1] = "client" THEN Server(p[2]) ELSE Client(p[2])
Procs   == Sides \X Ranks

-----------------------------------------------------------------------------
(* The steps of a process. *)

\* Faulty variant: the server takes a request to lock for one to unlock.
Mistaken(fn, a, c) ==
  CASE fn = "accept"     -> Svr!CWP_server_accept(a, c)
    [] fn = "listen"     -> Svr!NextMessage
    [] fn = "Param_lock" -> Svr!CWP_server_msg_handler("Param_unlock", a, c)
    [] OTHER             -> Svr!CWP_server_msg_handler(fn, a, c)

\* CWP_server_run: the connection, then messages one after the other.
CWP_server_run(fn, a, c) ==
  CASE fn = "accept" -> Svr!CWP_server_accept(a, c)
    [] fn = "listen" -> Svr!NextMessage
    [] OTHER         -> Svr!CWP_server_msg_handler(fn, a, c)

Script(side, fn, a, c) ==
  IF fn \in {"idle", "closed"} THEN <<>>
  ELSE IF side = "client" THEN Clt!Script(fn, a, c) ELSE CWP_server_run(fn, a, c)

Now(p) == Script(p[1], proc[p].fn, proc[p].a, cwp[p])

\* A process that enters fn, keeping c, and one that is in no function.
In(side, fn, a, c) ==
  [fn |-> fn, a |-> a, pc |-> 1, step |-> Script(side, fn, a, c)[1]]
Rest(fn) == [fn |-> fn, a |-> Nothing, pc |-> 1, step |-> [do |-> "rest"]]

Step(p)   == proc[p].step
Is(p, do) == p \in Procs /\ Step(p).do = do

\* Where p goes at the end of its function.
Returned(p, a, c) ==
  CASE p[1] = "client" -> Rest(IF proc[p].fn = "Finalize" THEN "closed" ELSE "idle")
    [] proc[p].fn # "listen" -> In("server", "listen", Nothing, c)
    [] a.message = "DIE" -> Rest("closed")
    [] OTHER -> In("server", a.message, Nothing, c)

\* The call of r is over once its server returns.
Completed(p) ==
  IF p[1] = "server" /\ proc[p].fn \notin {"accept", "listen"}
  THEN [asked EXCEPT ![p[2]] = Tail(@)] ELSE asked

\* p after its step: a is what it knows then, c what it keeps.
After(p, a, c) ==
  LET script == Script(p[1], proc[p].fn, a, c) IN
  IF proc[p].pc < Len(script)
  THEN [fn |-> proc[p].fn, a |-> a, pc |-> proc[p].pc + 1, step |-> script[proc[p].pc + 1]]
  ELSE Returned(p, a, c)

Advance(p, a, c) ==
  LET next == After(p, a, c) IN
  /\ proc' = [proc EXCEPT ![p] = next]
  /\ asked' = IF next.pc = 1 THEN Completed(p) ELSE asked

\* Faulty variant: a write that does not wait for room.
SendNow(p) ==
  /\ Is(p, "write")
  /\ sent' = IF Step(p).size = 0 THEN sent
             ELSE [sent EXCEPT ![p] = Append(@, [what |-> Step(p).what, size |-> Step(p).size,
                                                 val |-> Step(p).val])]
  /\ Advance(p, proc[p].a, cwp[p])
  /\ UNCHANGED <<plan, cwp, given, user>>

Send(p) ==
  /\ Is(p, "write")
  /\ Step(p).size # 0 => Len(sent[p]) < SockCap
  /\ sent' = IF Step(p).size = 0 THEN sent
             ELSE [sent EXCEPT ![p] = Append(@, [what |-> Step(p).what, size |-> Step(p).size,
                                                 val |-> Step(p).val])]
  /\ Advance(p, proc[p].a, cwp[p])
  /\ UNCHANGED <<plan, cwp, given, user>>

\* The reader takes the bytes for what it expects: its peer must have sent that.
Agrees(p, item) == item.what = Step(p).what /\ item.size = Step(p).size

Receive(p) ==
  /\ Is(p, "read")
  /\ IF Step(p).size = 0
     THEN /\ sent' = sent
          /\ Advance(p, proc[p].a, cwp[p])
     ELSE /\ sent[Peer(p)] # <<>>
          /\ Agrees(p, Head(sent[Peer(p)]))
          /\ sent' = [sent EXCEPT ![Peer(p)] = Tail(@)]
          /\ Advance(p, (Step(p).what :> Head(sent[Peer(p)]).val) @@ proc[p].a, cwp[p])
  /\ UNCHANGED <<plan, cwp, given, user>>

Assign(p) ==
  /\ Is(p, "keep")
  /\ cwp' = [cwp EXCEPT ![p] = Step(p).to]
  /\ Advance(p, proc[p].a, Step(p).to)
  /\ UNCHANGED <<plan, sent, given, user>>

Release(p) ==
  /\ Is(p, "free")
  /\ Advance(p, proc[p].a, cwp[p])
  /\ UNCHANGED <<plan, cwp, sent, given, user>>

\* The elements of every part that the library holds after a call.
Elements(fn) ==
  CASE fn \in {"Mesh_interf_from_cellface_set"} -> "n_cells"
    [] fn \in {"Mesh_interf_from_faceedge_set"} -> "n_faces"
    [] OTHER                                    -> "n_elts"
SetsElements == {"Mesh_interf_block_std_set", "Mesh_interf_block_ho_set",
                 "Mesh_interf_f_poly_block_set", "Mesh_interf_c_poly_block_set",
                 "Mesh_interf_from_cellface_set", "Mesh_interf_from_faceedge_set"}
Holds(r, fn, a) ==
  CASE fn \in SetsElements -> [given[r] EXCEPT ![a.i_part] = @ + a[Elements(fn)]]
    [] fn \in {"Mesh_interf_del", "Cpl_del"} -> [j \in DOMAIN given[r] |-> 0]
    [] OTHER -> given[r]

CallLibrary(p) ==
  /\ Is(p, "call")
  /\ given' = [given EXCEPT ![p[2]] = Holds(p[2], Step(p).fn, proc[p].a)]
  /\ \E out \in Step(p).outs : Advance(p, out @@ proc[p].a, cwp[p])
  /\ UNCHANGED <<plan, cwp, sent, user>>

\* MPI_Barrier among the processes of a side.
MPI_Barrier(side) ==
  LET all  == {p \in Procs : p[1] = side}
      next == [p \in all |-> After(p, proc[p].a, cwp[p])]
  IN /\ \A p \in all : Is(p, "barrier")
     /\ proc' = next @@ proc
     /\ asked' = [r \in Ranks |->
                    LET p == Server(r) IN
                    IF p \in all /\ next[p].pc = 1 THEN Tail(asked[r]) ELSE asked[r]]
     /\ UNCHANGED <<plan, cwp, sent, given, user>>

-----------------------------------------------------------------------------
(* The calls of the code. *)

OfField == {"Field_data_set", "Field_issend", "Field_irecv", "Field_wait_issend",
            "Field_wait_irecv", "Field_del", "Field_dof_location_get",
            "Field_storage_get", "Field_n_components_get", "Field_n_dof_get",
            "Computed_tgts_bcast_enable", "Involved_srcs_bcast_enable",
            "N_uncomputed_tgts_get", "Uncomputed_tgts_get", "N_computed_tgts_get",
            "Computed_tgts_get", "N_involved_srcs_get", "Involved_srcs_get"}
OfPart  == {"Part_data_issend", "Part_data_irecv", "Part_data_wait_issend",
            "Part_data_wait_irecv", "Part_data_del"}
OfNoCoupling ==
  {"Init", "Finalize", "Properties_dump", "State_update", "State_get", "Time_step_beg",
   "Time_step_end", "Codes_nb_get", "Codes_list_get", "Loc_codes_nb_get",
   "Loc_codes_list_get", "Param_lock", "Param_unlock", "Param_add", "Param_set",
   "Param_del", "Param_get", "Param_is", "Param_n_get", "Param_list_get", "Param_reduce",
   "Cpl_create"}
SetsCells    == {"Mesh_interf_from_cellface_set", "Mesh_interf_from_faceedge_set"}
SetsPoints   == {"Mesh_interf_vtx_set", "User_tgt_pts_set"}
DeletesMesh  == {"Mesh_interf_del", "Cpl_del"}

Whole(cpl) == \A j \in Parts(cpl.n_part) : cpl.vtx_coord[j] = "set"
Points(cpl) == \A j \in Parts(cpl.n_part) : cpl.usr_coord[j] = "set"

\* The part of a block that a call sets; the block of cells (faces) made from
\* their faces (edges) has no number.
Block(fn, a) == <<a.i_part, IF fn \in SetsCells THEN fn ELSE a.block_id>>

\* What the interface asks of its user: that what a call is about exists, that
\* all parts of a mesh or of a field have been given before they are used, that
\* a part of a block, of whatever kind, is set once, and nothing is awaited that
\* was not started.
LegalIn(cpl, fn, a) ==
  /\ fn \in OfField => cpl.field # NULL
  /\ fn \in OfPart => cpl.part_data # NULL
  /\ fn = "Field_create" => cpl.field = NULL
  /\ fn = "Part_data_create" => cpl.part_data = NULL
  /\ fn = "Part_data_wait_irecv" => cpl.part_data.s_unit # NULL
  /\ fn = "Global_data_wait_irecv" => user.awaits
  /\ fn = "Field_data_set" => Clt!EntitiesOf(cpl) # NULL
  /\ fn \in {"Field_issend", "Field_wait_irecv"} => user.fits = Parts(cpl.n_part)
  /\ fn = "Spatial_interp_weights_compute" /\ cpl.deformable =>
       /\ cpl.vtx_coord # NULL /\ Whole(cpl)
       /\ cpl.usr_coord # NULL => Points(cpl)
  /\ fn \in SetsElements => Block(fn, a) \notin user.blocks

Legal(r, fn, a) ==
  LET cpl == cwp[Client(r)].coupling IN
  CASE fn = "Cpl_create"    -> cpl = NULL
    [] fn \in OfNoCoupling  -> TRUE
    [] OTHER                -> cpl # NULL /\ LegalIn(cpl, fn, a)

\* What the code knows after the call.
Knows(fn, a) ==
  [blocks |-> CASE fn \in SetsElements -> user.blocks \cup {Block(fn, a)}
                [] fn \in DeletesMesh  -> {}
                [] OTHER               -> user.blocks,
   fits   |-> CASE fn = "Field_data_set" -> user.fits \cup {a.i_part}
                [] fn \in SetsElements \cup SetsPoints -> user.fits \ {a.i_part}
                [] fn \in DeletesMesh \cup {"Field_del"} -> {}
                [] OTHER -> user.fits,
   awaits |-> CASE fn = "Global_data_irecv" -> TRUE
                [] fn \in {"Global_data_wait_irecv", "Cpl_del"} -> FALSE
                [] OTHER -> user.awaits]

Ready == \A r \in Ranks : proc[Client(r)].fn = "idle"

\* The clients enter the same function, when all are ready to.
Start(k) ==
  /\ \E size \in [Ranks -> [k.own -> Sizes]] :
       LET a == [r \in Ranks |-> k.shared @@ size[r]] IN
       /\ \A r \in Ranks : Legal(r, k.fn, a[r])
       /\ proc' = [p \in Procs |-> IF p[1] = "client" THEN In("client", k.fn, a[p[2]], cwp[p])
                 ELSE proc[p]]
       /\ asked' = [r \in Ranks |-> Append(asked[r], [fn |-> k.fn, a |-> a[r]])]
  /\ user' = Knows(k.fn, k.shared)
  /\ UNCHANGED <<plan, cwp, sent, given>>

-----------------------------------------------------------------------------
(* Specification. *)

Initial == Ask("Init", ("n_code" :> 1), {})
Final   == Ask("Finalize", Nothing, {})

Init ==
  /\ plan \in Plans
  /\ cwp = [p \in Procs |-> NewCwp(Verbose)]
  /\ proc = [p \in Procs |->
               IF p[1] = "client" THEN In("client", "Init", Initial.shared, cwp[p])
               ELSE In("server", "accept", Nothing, cwp[p])]
  /\ sent = [p \in Procs |-> <<>>]
  /\ asked = [r \in Ranks |-> <<[fn |-> "Init", a |-> Initial.shared]>>]
  /\ given = [r \in Ranks |-> [j \in Parts(2) |-> 0]]
  /\ user = [blocks |-> {}, fits |-> {}, awaits |-> FALSE]

\* All processes are closed.
Closed == \A p \in Procs : proc[p].fn = "closed"
Terminated == Closed /\ UNCHANGED vars

\* A step of a process that is in a function, or of a barrier.
Progress ==
  \/ \E p \in Sides \X MaxRanks :
       Send(p) \/ Receive(p) \/ Assign(p) \/ Release(p) \/ CallLibrary(p)
  \/ \E side \in Sides : MPI_Barrier(side)

Next ==
  \/ Progress
  \/ Ready /\ \E k \in Calls \cup {Final} : Start(k)
  \/ Terminated

\* As long as a process can go on, one of them does; a code need not make a
\* further call.
Fairness == WF_vars(Progress)

Spec == Init /\ [][Next]_vars /\ Fairness

-----------------------------------------------------------------------------
(* Properties. *)

\* Nothing is under way on rank r.
Quiet(r) == asked[r] = <<>> /\ proc[Client(r)].fn = "idle"

\* The processes are those of the plan, and streams and requests are bounded.
TypeOK ==
  /\ plan \in Plans
  /\ DOMAIN proc = Procs /\ DOMAIN cwp = Procs
  /\ \A p \in Procs :
       /\ Len(sent[p]) <= SockCap
       /\ Step(p).do \in {"rest", "read", "write", "barrier", "keep", "free", "call"}
       /\ cwp[p].verbose \in BOOLEAN
       /\ cwp[p].coupling # NULL =>
            DOMAIN cwp[p].coupling = DOMAIN NewCoupling(1, TRUE)
  /\ user.fits \subseteq Parts(2) /\ user.awaits \in BOOLEAN

\* A process that waits for an item, in any function and after any calls,
\* finds what it expects: the same thing, in as many bytes.
StreamsAgree ==
  \A p \in Procs :
    Is(p, "read") /\ Step(p).size # 0 /\ sent[Peer(p)] # <<>>
      => Agrees(p, Head(sent[Peer(p)]))

\* Nothing is left in the streams when nothing is under way.
NothingLeft ==
  \A r \in Ranks : Quiet(r) => sent[Server(r)] = <<>> /\ sent[Client(r)] = <<>>

\* The calls of the library are those the client has asked for, in that order,
\* with its arguments.
CallsArrive ==
  \A r \in Ranks :
    LET p == Server(r) k == Head(asked[r]) IN
    Is(p, "call") =>
      /\ asked[r] # <<>>
      /\ Step(p).fn \in {k.fn, "std_block_type_get"}
      /\ \A w \in DOMAIN k.a \cap DOMAIN proc[p].a : proc[p].a[w] = k.a[w]

\* What both sides keep of the couplings is the same when nothing is under way.
SameSizes(here, there) ==
  (here = NULL) = (there = NULL) /\
  (here # NULL => \A j \in DOMAIN here :
                    here[j] = there[j] \/ (here[j] = 0 /\ there[j] = Unset))
SameField(here, there) ==
  (here = NULL) = (there = NULL) /\
  (here # NULL => \A j \in user.fits :
                    there.size[j] = here.n_component * here.n_entities[j])
SameCoupling(here, there) ==
  /\ here.n_part = there.n_part /\ here.deformable = there.deformable
  /\ here.deformable =>
       /\ SameSizes(here.n_vtx, there.n_vtx) /\ SameSizes(here.n_user_vtx, there.n_user_vtx)
       /\ (here.usr_coord = NULL) = (there.usr_coord = NULL)
  /\ SameField(here.field, there.field)
  /\ here.part_data = there.part_data
  /\ user.awaits => here.global_data = there.global_data
CopiesAgree ==
  \A r \in Ranks :
    Quiet(r) =>
      LET here == cwp[Client(r)].coupling there == cwp[Server(r)].coupling IN
      (here = NULL) = (there = NULL) /\ (here # NULL => SameCoupling(here, there))

\* The client's number of elements, which is the size of the fields at the
\* centers of cells, is the number that the library holds.  So it is for parts
\* of standard and high-order blocks, and for parts of one block of polygons,
\* polyhedra or cells; where such a block follows another one in a part the
\* code refutes it.
ElementsCounted ==
  \A r \in Ranks :
    LET cpl == cwp[Client(r)].coupling IN
    Quiet(r) /\ cpl # NULL =>
      \A j \in Parts(cpl.n_part) :
        given[r][j] = IF cpl.n_elt = NULL THEN 0 ELSE cpl.n_elt[j]

\* The functions asked of server r whose library call it has still to make.
Made(r) ==
  LET p == Server(r) IN
  /\ proc[p].fn = Head(asked[r]).fn
  /\ \A i \in DOMAIN Now(p) : i >= proc[p].pc => Now(p)[i].do # "call"
Pending(r) ==
  {asked[r][i].fn : i \in {j \in DOMAIN asked[r] : j = 1 => ~Made(r)}}

\* With the verbose flag, a client returns from a function only when the servers
\* of all ranks have made the call.
CalledBeforeReturn ==
  Verbose =>
    \A r \in Ranks :
      proc[Client(r)].fn = "idle" => \A s \in Ranks : Pending(s) = {}

\* A client returns from CWP_client_Cpl_barrier when all servers have entered
\* the barrier of the coupling: "MPI Barrier on the coupling communicator".
BarrierHeld ==
  \A r \in Ranks :
    proc[Client(r)].fn = "idle" => \A s \in Ranks : "Cpl_barrier" \notin Pending(s)

\* The data that CWP_Field_issend sends are those set for the source map, also
\* when data for the target map are set: "Choice if data is set for the source
\* or the target".
SendsSource ==
  \A r \in Ranks :
    LET p == Server(r) IN
    Is(p, "call") /\ Step(p).fn = "Field_issend" /\ "data" \in DOMAIN proc[p].a
      => proc[p].a.data = "SOURCE"

\* The global numbers of user points that the library is given, and the arrays
\* that are freed, are arrays that the server has allocated: "global_num".
NumbersOwned ==
  \A r \in Ranks :
    LET p == Server(r) numbers == cwp[p].coupling.usr_global_num IN
    /\ Is(p, "call") /\ Step(p).fn = "User_tgt_pts_set" /\ proc[p].a.NULL_flag = 0
         => numbers[proc[p].a.i_part] = "array"
    /\ Is(p, "free") => Step(p).array # Freed

\* Every call of the clients returns, and servers stop once their clients have.
EveryCallReturns == ~Ready ~> (Ready \/ Closed)
=============================================================================

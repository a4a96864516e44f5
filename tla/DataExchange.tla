---------------------------- MODULE DataExchange ----------------------------
(***************************************************************************)
(* Global data and partitioned data of one coupling of two codes: the      *)
(* functions CWP_Global_data_xxx and CWP_Part_data_xxx.                    *)
(*                                                                         *)
(* Global data go from the root rank of one code to that of the other, as  *)
(* a message whose tag is a checksum of the identifier, and are broadcast  *)
(* to the ranks of the receiving code when it waits for them; on a rank    *)
(* that is the root of both codes they are copied, in a wait of the code   *)
(* of smaller id.  Partitioned data go from each rank of one code to each  *)
(* rank of the other, through a part-to-part protocol that all ranks of    *)
(* both codes create together.                                             *)
(*                                                                         *)
(* MPI is external: the n-th receive of a sender and a tag takes the n-th  *)
(* message of that tag from it; a synchronous send completes when its      *)
(* receive is posted.  The identifiers of a world are such that no global  *)
(* data has the tag of partitioned data, and short enough that no checksum *)
(* passes 2^31 (the code computes it with 32 bits, unsigned).              *)
(*                                                                         *)
(* The program of a rank that runs both codes makes their calls in turn,   *)
(* one of each at a time; a program where one code makes several of them   *)
(* first gives the other "none" meanwhile.  A rank has one part, all of    *)
(* whose elements some rank of the other code has too.                     *)
(***************************************************************************)
EXTENDS Naturals, Sequences, FiniteSets, SequencesExt, FiniteSetsExt, Functions

CONSTANTS
  Ranks,   \* the ranks of both codes, numbered as in the global communicator
  Worlds,  \* what may be run: one is chosen
  MaxTag,  \* MPI_TAG_UB
  NoData   \* what a variable holds before it is assigned

Codes    == {1, 2}  \* the ids of the codes
Other(c) == 3 - c

Kinds   == {"global", "part"}
Globals == {"issend", "irecv", "wait_issend", "wait_irecv"}
Exchanges == {"part_issend", "part_irecv", "part_wait_issend", "part_wait_irecv"}

ASSUME DataAssumption ==
  /\ Ranks \subseteq Nat /\ IsFiniteSet(Ranks)
  /\ MaxTag \in Nat /\ MaxTag > 1
  /\ NoData \notin Nat
  /\ \A w \in Worlds :
       /\ \A c \in Codes : w.holds[c] # {} /\ w.holds[c] \subseteq Ranks
       /\ w.first \in Codes
       /\ Len(w.prog[1]) = Len(w.prog[2])
       /\ \A c \in Codes :
            /\ w.prog[c] \in Seq(Range(w.prog[c]))
            /\ \A i \in DOMAIN w.prog[c] :
                 w.prog[c][i].do \in Globals \cup Exchanges \cup {"create", "del", "none"}

\* The parts of the ranks: numbers of elements, each on a rank of the other code too.
Parted(w) ==
  \A c \in Codes : \A r \in w.holds[c] :
    /\ w.elts[c][r] \in Seq(Nat) /\ IsInjective(w.elts[c][r])
    /\ \A g \in Range(w.elts[c][r]) : \E s \in w.holds[Other(c)] : g \in Range(w.elts[Other(c)][s])

ASSUME PartsAssumption == \A w \in Worlds : Parted(w)

VARIABLES
  world,   \* [holds, elts, prog, first]: the ranks of the codes, the global numbers
           \* of the elements of their parts, their calls, and the code whose calls
           \* come first on the ranks of both
  pc,      \* pc[c][r]: the call that rank r makes next as a rank of c
  global,  \* global[c][r]: _globalData, by identifier
  part,    \* part[c][r]: _partData, by identifier
  made,    \* the part-to-part protocols that have been created: 1 .. made
  freed,   \* freed[r]: those that rank r has freed, one entry each time
  sent,    \* sent[c][r][env]: the messages rank r has sent under env as a rank of c
  wanted,  \* wanted[c][r][env]: how many receives it has posted there
  cast,    \* cast[c]: what the root of c has broadcast
  buffer   \* buffer[c][r]: what its arrays for receiving hold, by kind and key

mpi  == <<sent, wanted, cast>>
vars == <<world, pc, global, part, made, freed, mpi, buffer>>

-----------------------------------------------------------------------------
(* Ranks and calls. *)

Holds(c) == world.holds[c]
Root(c)  == Min(Holds(c))
Joint(r) == r \in Holds(1) \cap Holds(2)
Members  == Holds(1) \cup Holds(2)

\* The elements of a part, and the ranks of the other code that have some of them.
Elts(c, r)   == world.elts[c][r]
Linked(c, r) == {s \in Holds(Other(c)) : Range(Elts(c, r)) \cap Range(Elts(Other(c), s)) # {}}

Prog(c)    == world.prog[c]
Call(c, r) == Prog(c)[pc[c][r]]
Key(k)     == <<k.id, k.exch>>

\* It is the turn of code c on rank r.
Turn(c, r) ==
  /\ r \in Holds(c) /\ pc[c][r] <= Len(Prog(c))
  /\ Joint(r) => IF c = world.first THEN pc[c][r] = pc[Other(c)][r]
                 ELSE pc[c][r] < pc[Other(c)][r]

Calls(c, r, do) == Turn(c, r) /\ Call(c, r).do = do
Return(c, r)    == pc' = [pc EXCEPT ![c][r] = @ + 1]

\* A table with an entry more.
With(table, id, entry) ==
  [i \in DOMAIN table \cup {id} |-> IF i = id THEN entry ELSE table[i]]

\* How many times the first n calls of program p do this to these data.
Times(p, n, do, key) == Cardinality({i \in 1..n : p[i].do = do /\ Key(p[i]) = key})

\* The data of its call i: those of the n-th exchange.
Item(p, i) == Append(Key(p[i]), Times(p, i, p[i].do, Key(p[i])))
Data(c, r) == Item(Prog(c), pc[c][r])

-----------------------------------------------------------------------------
(* Tags and messages. *)

\* Communication::_adler32 of a string of bytes.
adler32(name) ==
  LET sums == FoldLeft(LAMBDA s, b : <<(s[1] + b) % 65521, (s[2] + s[1] + b) % 65521>>,
                       <<1, 0>>, name)
  IN sums[2] * 65536 + sums[1]

\* The calls of a kind.
Issend(kind)    == IF kind = "global" THEN "issend" ELSE "part_issend"
Irecv(kind)     == IF kind = "global" THEN "irecv" ELSE "part_irecv"
WaitIrecv(kind) == IF kind = "global" THEN "wait_irecv" ELSE "part_wait_irecv"

get_tag(name, offset) == ((adler32(name) + offset) % (MaxTag - 1)) + 1

Envelope(kind, k) == <<kind, get_tag(k.id, k.exch)>>

\* A request: the n-th message under env, of a sender or for a receiver.
ToSend(c, r, env) == [env |-> env, nth |-> Len(sent[c][r][env]) + 1]
ToGet(c, r, env)  == [env |-> env, nth |-> wanted[c][r][env] + 1]

\* A message or a receive more.
PostSend(c, r, env) == [sent EXCEPT ![c][r][env] = Append(@, Data(c, r))]
PostRecv(c, r, env) == [wanted EXCEPT ![c][r][env] = @ + 1]

\* The receive, or the message, of a request has been posted on rank r of c.
Expected(c, r, req) == req.nth <= wanted[c][r][req.env]
Arrived(c, r, req)  == req.nth <= Len(sent[c][r][req.env])
Message(c, r, req)  == sent[c][r][req.env][req.nth]

\* Faulty variant: the root of both codes sends messages, to itself.
PostsAsRoot(c, r) == r = Root(c)

\* Faulty variant: a root that is a rank of both codes sends no message.
PostsAsDisjoint(c, r) == r = Root(c) /\ ~Joint(r)

\* The rank that exchanges messages for code c, unless it is the root of both.
Posts(c, r) == r = Root(c) /\ Root(Other(c)) # r
Copies(c, r) == r = Root(c) /\ Root(Other(c)) = r /\ c < Other(c)

-----------------------------------------------------------------------------
(* Global data.  An identifier stays in the table after its exchange. *)

Started(c, r) == Call(c, r).id \in DOMAIN global[c][r]

\* What a wait asserts: both codes of a rank have started the exchange.
Known(c, r) ==
  Started(c, r) /\ (Joint(r) => Call(c, r).id \in DOMAIN global[Other(c)][r])

AddGlobal(c, r, req) ==
  global' = [global EXCEPT ![c][r] = With(@, Call(c, r).id, [req |-> req, data |-> Data(c, r)])]

globalDataIssend(c, r) ==
  LET env == Envelope("global", Call(c, r)) IN
  /\ Calls(c, r, "issend") /\ ~Started(c, r)
  /\ AddGlobal(c, r, ToSend(c, r, env))
  /\ sent' = IF Posts(c, r) THEN PostSend(c, r, env) ELSE sent
  /\ Return(c, r)
  /\ UNCHANGED <<world, part, made, freed, wanted, cast, buffer>>

globalDataIrecv(c, r) ==
  LET env == Envelope("global", Call(c, r)) IN
  /\ Calls(c, r, "irecv") /\ ~Started(c, r)
  /\ AddGlobal(c, r, ToGet(c, r, env))
  /\ wanted' = IF Posts(c, r) THEN PostRecv(c, r, env) ELSE wanted
  /\ Return(c, r)
  /\ UNCHANGED <<world, part, made, freed, sent, cast, buffer>>

globalDataWaitIssend(c, r) ==
  LET k == Call(c, r)
      entry == global[c][r][k.id] IN
  /\ Calls(c, r, "wait_issend") /\ Known(c, r)
  /\ Posts(c, r) => Expected(Other(c), Root(Other(c)), entry.req)
  /\ buffer' = IF Copies(c, r) THEN [buffer EXCEPT ![Other(c)][r].global[Key(k)] = entry.data]
               ELSE buffer
  /\ Return(c, r)
  /\ UNCHANGED <<world, global, part, made, freed, mpi>>

\* Faulty variant: the root does not wait for the data, and broadcasts its array as it was.
ReceivedEarly(c, r, k) == buffer[c][r].global[Key(k)]

\* What the array of the root holds when it broadcasts it.
Received(c, r, k) ==
  CASE Posts(c, r)  -> Message(Other(c), Root(Other(c)), global[c][r][k.id].req)
    [] Copies(c, r) -> global[Other(c)][r][k.id].data
    [] OTHER        -> buffer[c][r].global[Key(k)]

\* The root of the code does not wait for the other ranks in the broadcast.
RootWaitIrecv(c, r) ==
  LET k == Call(c, r) IN
  /\ Calls(c, r, "wait_irecv") /\ Known(c, r) /\ r = Root(c)
  /\ Posts(c, r) => Arrived(Other(c), Root(Other(c)), global[c][r][k.id].req)
  /\ buffer' = [buffer EXCEPT ![c][r].global[Key(k)] = Received(c, r, k)]
  /\ cast' = [cast EXCEPT ![c] = Append(@, Received(c, r, k))]
  /\ Return(c, r)
  /\ UNCHANGED <<world, global, part, made, freed, sent, wanted>>

\* The number of broadcasts of code c in its calls up to that of rank r.
Casts(c, r) == Cardinality({i \in 1..pc[c][r] : Prog(c)[i].do = "wait_irecv"})

globalDataWaitIrecv(c, r) ==
  LET k == Call(c, r) IN
  /\ Calls(c, r, "wait_irecv") /\ Known(c, r) /\ r # Root(c)
  /\ Len(cast[c]) >= Casts(c, r)
  /\ buffer' = [buffer EXCEPT ![c][r].global[Key(k)] = cast[c][Casts(c, r)]]
  /\ Return(c, r)
  /\ UNCHANGED <<world, global, part, made, freed, mpi>>

-----------------------------------------------------------------------------
(* Partitioned data. *)

PartData(k, ptp) == [type |-> k.type, ptp |-> ptp, requests |-> [e \in {} |-> NoData]]
Exists(c, r)     == Call(c, r).id \in DOMAIN part[c][r]
Mine(c, r)       == part[c][r][Call(c, r).id]

\* On a rank of both codes the first to create the object waits for the other.
CreateFirst(c, r) ==
  /\ Calls(c, r, "create") /\ ~Exists(c, r)
  /\ Joint(r) /\ Call(c, r).id \notin DOMAIN part[Other(c)][r]
  /\ part' = [part EXCEPT ![c][r] = With(@, Call(c, r).id, PartData(Call(c, r), NoData))]
  /\ Return(c, r)
  /\ UNCHANGED <<world, global, made, freed, mpi, buffer>>

\* Rank r creates the protocol as a rank of c, or of both codes.
Creates(c, r) ==
  /\ Calls(c, r, "create") /\ ~Exists(c, r)
  /\ Joint(r) => Call(c, r).id \in DOMAIN part[Other(c)][r]

\* PDM_part_to_part_create, a collective call over the ranks of both codes.
partDataCreate ==
  /\ \A r \in Members : \E c \in Codes : Creates(c, r)
  /\ made' = made + 1
  /\ part' = [c \in Codes |-> [r \in Ranks |->
       IF r \notin Holds(c) THEN part[c][r]
       ELSE IF Creates(c, r) THEN With(part[c][r], Call(c, r).id, PartData(Call(c, r), made + 1))
       ELSE [part[c][r] EXCEPT ![Call(Other(c), r).id].ptp = made + 1]]]
  /\ pc' = [c \in Codes |-> [r \in Ranks |->
              IF r \in Holds(c) /\ Creates(c, r) THEN pc[c][r] + 1 ELSE pc[c][r]]]
  /\ UNCHANGED <<world, global, freed, mpi, buffer>>

\* Faulty variant: both codes of a rank free the protocol they share.
FreesAlways(c, r) == TRUE

\* The code of smaller id frees the protocol of a rank of both codes.
Frees(c, r) == Joint(r) => c < Other(c)

partDataDel(c, r) ==
  /\ Calls(c, r, "del") /\ Exists(c, r)
  /\ freed' = IF Frees(c, r) THEN [freed EXCEPT ![r] = Append(@, Mine(c, r).ptp)] ELSE freed
  /\ part' = [part EXCEPT ![c][r] = Restrict(@, DOMAIN @ \ {Call(c, r).id})]
  /\ Return(c, r)
  /\ UNCHANGED <<world, global, made, mpi, buffer>>

\* data_set and request_set, which want an exch_id that is not in use.
AddRequest(c, r, req) ==
  /\ Call(c, r).exch \notin DOMAIN Mine(c, r).requests
  /\ part' = [part EXCEPT ![c][r][Call(c, r).id].requests = With(@, Call(c, r).exch, req)]

\* Faulty variant: the exch_id stays in use.
KeepRequest(requests, exch) == requests

exch_clear(requests, exch) == Restrict(requests, DOMAIN requests \ {exch})

ClearRequest(c, r) ==
  part' = [part EXCEPT ![c][r][Call(c, r).id].requests = exch_clear(@, Call(c, r).exch)]

partDataIssend(c, r) ==
  LET env == Envelope("part", Call(c, r)) IN
  /\ Calls(c, r, "part_issend") /\ Exists(c, r) /\ Mine(c, r).type = "send"
  /\ AddRequest(c, r, ToSend(c, r, env))
  /\ sent' = PostSend(c, r, env)
  /\ Return(c, r)
  /\ UNCHANGED <<world, global, made, freed, wanted, cast, buffer>>

partDataIrecv(c, r) ==
  LET env == Envelope("part", Call(c, r)) IN
  /\ Calls(c, r, "part_irecv") /\ Exists(c, r) /\ Mine(c, r).type = "recv"
  /\ AddRequest(c, r, ToGet(c, r, env))
  /\ wanted' = PostRecv(c, r, env)
  /\ Return(c, r)
  /\ UNCHANGED <<world, global, made, freed, sent, cast, buffer>>

\* A wait for a request that has been made.
Asked(c, r) == Mine(c, r).requests[Call(c, r).exch]
Waits(c, r, do) ==
  Calls(c, r, do) /\ Exists(c, r) /\ Call(c, r).exch \in DOMAIN Mine(c, r).requests

partDataWaitIssend(c, r) ==
  /\ Waits(c, r, "part_wait_issend")
  /\ \A s \in Linked(c, r) : Expected(Other(c), s, Asked(c, r))
  /\ ClearRequest(c, r)
  /\ Return(c, r)
  /\ UNCHANGED <<world, global, made, freed, mpi, buffer>>

\* The items that come to a rank: <<i, s>> is that of its element i from rank s.
come_from(c, r) ==
  {x \in (DOMAIN Elts(c, r)) \X Linked(c, r) : Elts(c, r)[x[1]] \in Range(Elts(Other(c), x[2]))}
Before(x, y) == x[1] < y[1] \/ (x[1] = y[1] /\ x[2] < y[2])

\* How many of them are for the elements before i, and that at place q of the array.
come_from_idx(c, r, i) == Cardinality({x \in come_from(c, r) : x[1] < i})
ItemAt(c, r, q) ==
  CHOOSE x \in come_from(c, r) : Cardinality({y \in come_from(c, r) : Before(y, x)}) = q - 1

\* The array that a request fills: the data of an element, from each that sends it.
Gathered(c, r) ==
  [q \in 1..Cardinality(come_from(c, r)) |->
     LET x == ItemAt(c, r, q) IN
     <<Message(Other(c), x[2], Asked(c, r)), Elts(c, r)[x[1]]>>]

\* The filter moves s_unit bytes for each element, between the same two places for
\* any number of them; it reads this number past the end of _s_unit, which is never
\* filled: 0 stands for no byte, 1 for the whole item.
recv_data_filter(c, r, array, s_unit) ==
  [i \in DOMAIN Elts(c, r) |-> array[IF s_unit = 0 THEN i ELSE come_from_idx(c, r, i) + 1]]

partDataWaitIrecv(c, r) ==
  /\ Waits(c, r, "part_wait_irecv")
  /\ \A s \in Linked(c, r) : Arrived(Other(c), s, Asked(c, r))
  /\ \E s_unit \in {0, 1} :
       buffer' = [buffer EXCEPT ![c][r].part[Key(Call(c, r))] =
                    recv_data_filter(c, r, Gathered(c, r), s_unit)]
  /\ ClearRequest(c, r)
  /\ Return(c, r)
  /\ UNCHANGED <<world, global, made, freed, mpi>>

-----------------------------------------------------------------------------
(* Specification. *)

\* The other code of the rank has a call here, this one has none.
Pass(c, r) ==
  /\ Calls(c, r, "none")
  /\ Return(c, r)
  /\ UNCHANGED <<world, global, part, made, freed, mpi, buffer>>

CallsOf(w)  == Range(w.prog[1]) \cup Range(w.prog[2])
Envelopes   == {Envelope(kind, k) : kind \in Kinds, k \in CallsOf(world)}
Unfilled    == [kind \in Kinds |-> [key \in {Key(k) : k \in CallsOf(world)} |-> NoData]]

Init ==
  /\ world \in Worlds
  /\ pc = [c \in Codes |-> [r \in Ranks |-> 1]]
  /\ global = [c \in Codes |-> [r \in Ranks |-> [i \in {} |-> NoData]]]
  /\ part = [c \in Codes |-> [r \in Ranks |-> [i \in {} |-> NoData]]]
  /\ made = 0
  /\ freed = [r \in Ranks |-> <<>>]
  /\ sent = [c \in Codes |-> [r \in Ranks |-> [env \in Envelopes |-> <<>>]]]
  /\ wanted = [c \in Codes |-> [r \in Ranks |-> [env \in Envelopes |-> 0]]]
  /\ cast = [c \in Codes |-> <<>>]
  /\ buffer = [c \in Codes |-> [r \in Ranks |-> Unfilled]]

Done == \A c \in Codes : \A r \in Holds(c) : pc[c][r] > Len(Prog(c))
Terminated == Done /\ UNCHANGED vars

Step ==
  \/ \E c \in Codes, r \in Ranks :
       \/ globalDataIssend(c, r) \/ globalDataIrecv(c, r)
       \/ globalDataWaitIssend(c, r) \/ RootWaitIrecv(c, r) \/ globalDataWaitIrecv(c, r)
       \/ CreateFirst(c, r) \/ partDataDel(c, r)
       \/ partDataIssend(c, r) \/ partDataIrecv(c, r)
       \/ partDataWaitIssend(c, r) \/ partDataWaitIrecv(c, r)
       \/ Pass(c, r)
  \/ partDataCreate

Next == Step \/ Terminated

\* Ranks go on as long as one of them can.
FairSpec == Init /\ [][Next]_vars /\ WF_vars(Step)
Spec     == Init /\ [][Next]_vars

-----------------------------------------------------------------------------
(* How the codes of a world are to use the functions, which the theorems of  *)
(* DataExchange_delivery ask of them.  p is the program of a code.           *)

GlobalStarts == {"issend", "irecv"}
GlobalWaits  == {"wait_issend", "wait_irecv"}
PartStarts   == {"part_issend", "part_irecv"}
PartWaits    == {"part_wait_issend", "part_wait_irecv"}
Lifetime     == {"create", "del"}

\* What a wait waits for, and the type of the objects that it is called on.
Awaited(do) ==
  CASE do = "wait_issend"      -> "issend"
    [] do = "wait_irecv"       -> "irecv"
    [] do = "part_wait_issend" -> "part_issend"
    [] do = "part_wait_irecv"  -> "part_irecv"
TypeFor(do) == IF do \in {"part_issend", "part_wait_issend"} THEN "send" ELSE "recv"

\* Call j creates an object, or starts an exchange, that is there after n calls.
Lives(p, n, j) ==
  /\ j \in 1..n /\ p[j].do = "create"
  /\ \A m \in j + 1..n : p[m].do \in Lifetime => p[m].id # p[j].id
UnderWay(p, n, j) ==
  /\ j \in 1..n /\ p[j].do \in PartStarts
  /\ \A m \in j + 1..n : /\ p[m].do \in Lifetime => p[m].id # p[j].id
                         /\ p[m].do \in PartWaits => Key(p[m]) # Key(p[j])

\* Global data: an identifier is started once, and waited for after that, once.
GlobalUse(p, i) ==
  /\ p[i].do \in GlobalStarts =>
       \A j \in 1..i - 1 : p[j].do \in GlobalStarts => p[j].id # p[i].id
  /\ p[i].do \in GlobalWaits =>
       /\ \A j \in 1..i - 1 : p[j].do \in GlobalWaits => p[j].id # p[i].id
       /\ \E j \in 1..i - 1 : p[j].do = Awaited(p[i].do) /\ Key(p[j]) = Key(p[i])

\* Partitioned data: an object is created again after its deletion only, which
\* comes after all waits, and is used in its direction; an exch_id is used again
\* after its wait.
PartUse(p, i) ==
  /\ p[i].do = "create" => \A j \in 1..i - 1 : Lives(p, i - 1, j) => p[j].id # p[i].id
  /\ p[i].do = "del" =>
       /\ \E j \in 1..i - 1 : Lives(p, i - 1, j) /\ p[j].id = p[i].id
       /\ \A j \in 1..i - 1 : UnderWay(p, i - 1, j) => p[j].id # p[i].id
  /\ p[i].do \in Exchanges =>
       \E j \in 1..i - 1 : Lives(p, i - 1, j) /\ p[j].id = p[i].id /\ p[j].type = TypeFor(p[i].do)
  /\ p[i].do \in PartStarts =>
       \A j \in 1..i - 1 : UnderWay(p, i - 1, j) => Key(p[j]) # Key(p[i])
  /\ p[i].do \in PartWaits =>
       \E j \in 1..i - 1 :
         UnderWay(p, i - 1, j) /\ p[j].do = Awaited(p[i].do) /\ Key(p[j]) = Key(p[i])

\* A rank of both codes starts the data it waits for in both of them.
JointUse(w) ==
  w.holds[1] \cap w.holds[2] # {} =>
    \A c \in Codes : \A i \in 1..Len(w.prog[c]) : w.prog[c][i].do \in GlobalWaits =>
      \E j \in 1..i - 1 :
        w.prog[Other(c)][j].do \in GlobalStarts /\ w.prog[Other(c)][j].id = w.prog[c][i].id

WellUsed(w) ==
  /\ \A c \in Codes : \A i \in 1..Len(w.prog[c]) : GlobalUse(w.prog[c], i) /\ PartUse(w.prog[c], i)
  /\ JointUse(w)

\* The n-th message sent under a tag and the n-th received are of one exchange.
Nth(p, i, do, env) == Cardinality({j \in 1..i : p[j].do = do /\ Envelope(env[1], p[j]) = env})
SameOrder(w) ==
  \A c \in Codes, kind \in Kinds :
    \A i \in 1..Len(w.prog[c]), j \in 1..Len(w.prog[Other(c)]) :
      LET env == Envelope(kind, w.prog[c][i]) IN
      /\ w.prog[c][i].do = Issend(kind) /\ w.prog[Other(c)][j].do = Irecv(kind)
      /\ Envelope(kind, w.prog[Other(c)][j]) = env
      /\ Nth(w.prog[c], i, Issend(kind), env) = Nth(w.prog[Other(c)], j, Irecv(kind), env)
      => Item(w.prog[c], i) = Item(w.prog[Other(c)], j)

\* Global data of one identifier are sent by one code and received by the other.
Facing(w) ==
  \A i \in 1..Len(w.prog[1]), j \in 1..Len(w.prog[2]) :
    LET k == w.prog[1][i] l == w.prog[2][j] IN
    k.do \in GlobalStarts /\ l.do \in GlobalStarts /\ k.id = l.id =>
      k.do # l.do /\ Key(k) = Key(l)

\* On a common root, the code of smaller id copies what it sends in its wait,
\* which must be the first.
SenderFirst(w) ==
  Min(w.holds[1]) = Min(w.holds[2]) =>
    \A i \in 1..Len(w.prog[2]) : w.prog[2][i].do = "wait_irecv" =>
      \E j \in 1..Len(w.prog[1]) :
        /\ w.prog[1][j].do = "wait_issend" /\ Key(w.prog[1][j]) = Key(w.prog[2][i])
        /\ IF w.first = 1 THEN j <= i ELSE j < i

\* An element that a rank may receive comes from one rank.
OneOrigin(w) ==
  \A c \in Codes : \A r \in w.holds[c] : \A g \in Range(w.elts[c][r]) :
    \E s \in w.holds[Other(c)] :
      \A t \in w.holds[Other(c)] : g \in Range(w.elts[Other(c)][t]) <=> t = s

Matched(w) == SameOrder(w) /\ Facing(w) /\ SenderFirst(w) /\ OneOrigin(w)

-----------------------------------------------------------------------------
(* Properties. *)

\* The tables, the protocols and the messages; only the root of a code that is
\* not that of the other exchanges messages of global data.
TypeOK ==
  /\ world \in Worlds
  /\ \A c \in Codes, r \in Ranks :
       /\ pc[c][r] \in 1..Len(Prog(c)) + 1
       /\ \A i \in DOMAIN part[c][r] : part[c][r][i].ptp \in (1..made) \cup {NoData}
       /\ \A env \in DOMAIN sent[c][r] :
            env[1] = "global" /\ (sent[c][r][env] # <<>> \/ wanted[c][r][env] # 0) =>
              r = Root(c) /\ r # Root(Other(c))
  /\ \A r \in Ranks : Range(freed[r]) \subseteq 1..made

\* What the array of a rank is to hold of data: for each of its elements, theirs.
Due(elts, kind, data) ==
  IF kind = "global" THEN data ELSE [i \in DOMAIN elts |-> <<data, elts[i]>>]

\* A rank that has waited for the n-th exchange of data has those data in its
\* array, in whatever order the exchanges were started and waited for: of a part,
\* those of each element at its place.  It is checked for elements that one rank of
\* the other code has; for those of several origins the filter that is to keep one
\* of their data does not, and it is refuted.
Delivered ==
  \A c \in Codes : \A r \in Holds(c) : \A kind \in Kinds :
    \A key \in DOMAIN buffer[c][r][kind] :
      LET n == Times(Prog(c), pc[c][r] - 1, WaitIrecv(kind), key) IN
      n > 0 => buffer[c][r][kind][key] = Due(Elts(c, r), kind, Append(key, n))

\* No call is refused: an identifier of global data is new, an exch_id is free
\* again after its wait, a part data object after its deletion, and nothing is
\* asserted that does not hold, the direction of an object included.
NotRefused ==
  \A c \in Codes, r \in Ranks :
    Turn(c, r) =>
      LET k == Call(c, r) IN
      /\ k.do \in {"issend", "irecv"} => ~Started(c, r)
      /\ k.do \in {"wait_issend", "wait_irecv"} => Known(c, r)
      /\ k.do = "create" => ~Exists(c, r)
      /\ k.do \in Exchanges \cup {"del"} => Exists(c, r)
      /\ k.do = "part_issend" => Mine(c, r).type = "send"
      /\ k.do = "part_irecv" => Mine(c, r).type = "recv"
      /\ k.do \in {"part_issend", "part_irecv"} => k.exch \notin DOMAIN Mine(c, r).requests
      /\ k.do \in {"part_wait_issend", "part_wait_irecv"} => k.exch \in DOMAIN Mine(c, r).requests

\* A protocol is not used once it has been freed, on a rank of both codes by
\* either of them; it is freed once, and none is left at the end.
FreedOnce ==
  /\ \A c \in Codes, r \in Ranks :
       Turn(c, r) /\ Call(c, r).do \in Exchanges /\ Exists(c, r) =>
         Mine(c, r).ptp \in 1..made /\ Mine(c, r).ptp \notin Range(freed[r])
  /\ \A r \in Members :
       /\ IsInjective(freed[r])
       /\ Done /\ (\A c \in Codes : part[c][r] = <<>>) => Range(freed[r]) = 1..made

\* All calls of all ranks return.
ExchangesEnd == <>Done
=============================================================================

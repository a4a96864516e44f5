# A verification development for CWIPI

CWIPI couples parallel codes: each code runs on its own MPI ranks (a rank may run
several codes), declares control parameters that the others can read, creates
couplings with other codes and exchanges fields and other data with them, time step after time
step. A code may also leave its calls to a server process behind a socket. Beside this interface
(`src/src/new`) the library keeps its old one (`src/src`), with blocking messages. This directory
holds TLA+ models of the parts of both where ranks and processes interact, the TLC configurations
that check them, and TLAPS proofs.

## 1. The system

| component | state it keeps | operations | interacts with |
|---|---|---|---|
| Control parameters (`codeProperties.hxx`) | per code and type: a counter, packed names, values, in the memory of the code's root rank; a flag that closes the table; a copy of all this on every other rank | `CWP_Param_add/set/del` (collective over the code), `get/is/n_get/list_get` (any rank), `lock/unlock` | MPI windows: EXCLUSIVE and SHARED locks, `MPI_Get`; barriers of the code's ranks |
| CodePropertiesDB (`codePropertiesDB.cxx`) | the codes, their communicators, the windows | start-up, forwarding | MPI collectives over all ranks |
| CWP_Init, C interface (`cwp.cxx`) | singletons | start-up, `CWP_Time_step_beg/end`, forwarding | all of the above |
| CouplingDB, Coupling (`couplingDB.cxx`, `coupling.cxx`) | couplings of each code, their fields and interpolation objects | creation, `weightsCompute`, field calls, time steps | Communication, SpatialInterp; on a rank that runs both codes, the coupling of the other code |
| Communication (`communication.cxx`) | union and coupling communicators, tags | creation, global data messages | MPI groups over the two codes |
| SpatialInterp (`spatialInterp.cxx`) | part-to-part object, requests and buffers by field | `issend, irecv, waitIssend, waitIrecv` | ParaDiGM part-to-part (external) |
| Field (`field.cxx`) | data, sent/received in this step | status, read, write | SpatialInterp, Coupling |
| Global data, partitioned data (`coupling.cxx`, `globalData`, `partData.cxx`) | the data exchanges of a coupling by identifier, their requests, a part-to-part protocol | `CWP_Global_data_*`, `CWP_Part_data_*`: create, delete, issend, irecv, both waits | Communication: tags, messages between the roots, broadcasts; part-to-part; on a joint rank the coupling of the other code |
| Client/server (`client_server/`) | a socket per client; on both sides a `t_cwp`: the coupling, its sizes, arrays, fields and data | 74 functions, each written twice; the server's message loop, connection and end | sockets; barriers among the clients and among the servers; on the server the C interface |
| Old interface: parameters (`applicationProperties*`) | the parameters of the own application and copies of those of others, of three types | `cwipi_init`, add, set, delete, synchronise with one application | blocking messages between the roots, inside an application, broadcasts |
| Old interface: couplings (`oldCoupling`, `couplingDataBase`, `oldMesh`, `locationTo*Mesh`, `fvmc_locator.c`) | mesh, whether points must be located, who has which point, requests and buffers | create, mesh, points, locate, exchange, issend, irecv, waits, delete, finalize | a communicator of the coupled ranks; loops over neighbours; broadcasts when only the root is coupled |
| Interpolation algorithms, mesh, blocks, fvm, bft, bindings | geometric data | numerical code | none of interest here |

What is hard:
* *Control parameters*: a flag that is a plain store next to locks that are real; a
  reader that retries; windows locked one by one; a counter of the string type
  written after the locks are given back; arrays of fixed size; names and values
  packed without separators. They are correct when each read answers from one
  state of the table, never aborts because of another rank's pace, and returns.
* *Field exchange*: no message carries the name of a field or a step, so exchanges are
  matched by order; the status that forbids a second exchange is set late and reset at
  each step; a rank that runs both codes does the work of both in the calls of one.
  It is correct when each step delivers its own data, once, and ends.
* *Creation of couplings and weights*: some ranks run one code and make its MPI calls, others
  run both and make the calls of both, in the order in which their user creates the couplings.
  It is correct when all make the same collective calls in the same order, what they
  create fits together, and nobody waits for ever.
* *Global and partitioned data*: identifiers become tags through a checksum; what has been started must be
  found again by its wait; on a joint rank two objects share one protocol and one
  of two waits does the work. It is correct when each array gets its own data, nothing is
  refused or freed twice, and all calls return.
* *Client/server*: each function is written twice, once for each end of a stream that carries
  bytes and no names, and its number of bytes depends on what both sides remember; in between there are
  barriers. It is correct when reader and writer agree on every item, the same call reaches the
  library with the same arguments, both memories stay equal and every call returns.
* *Old interface*: roots and other ranks, coupled ranks and ranks that only get a broadcast, make
  different calls, all blocking; each rank goes through loops over neighbours of its own, with one tag for
  everything; whether points are located anew is a flag on each rank. It is correct when the loops of
  two ranks are never mixed up and nobody waits in a circle, each point gets the value from the
  rank nearest to it, buffers live as long as their messages, and applications that contradict
  each other are refused.
* *Start-up*: the order of collective calls on ranks that play different roles.

`PROJECT.json` lists each of these hazards at its line.

## 2. Modules

| module | what it is |
|---|---|
| `ParamTable` | what one type of parameters promises: a table, closed or open; a read takes one open state of it and answers from it |
| `ParamWin` | the implementation: windows, locks, flag, copies, collective calls, reads |
| `MCParamWin` | the symmetry of its instances |
| `ParamWin_proofs` | type correctness, the inductive invariant of locks and arrays, coherence of reads |
| `ParamWin_answers` | the rest of that invariant: no spurious abort, and that `ParamWin` implements `ParamTable` |
| `ParamArrays` | the bytes: packed names and values under add, set and delete |
| `MCParamArrays` | names that are prefixes of one another, values of several sizes |
| `ParamArrays_proofs` | that they hold the table and stay inside, for any sizes |
| `FieldExchange` | the calls that exchange the fields of a coupling, inside time steps |
| `MCFieldExchange` | the programs of the two codes |
| `FieldExchange_proofs` | that each step delivers its data, once, for any disciplined programs |
| `CouplingSetup` | creation of a coupling and its interpolation weights: the MPI calls of each rank and the interpolation objects |
| `MCCouplingSetup` | the distributions of the codes and the fields |
| `CouplingSetup_proofs` | that all ranks make the same collective calls and create matching objects, for any distribution |
| `DataExchange` | global and partitioned data of a coupling: tags, messages, tables, protocols |
| `MCDataExchange` | the distributions of the codes and their programs |
| `DataExchange_proofs` | that protocols are freed once and not used after that, for any distribution |
| `DataExchange_delivery` | that no call is refused and each wait gives the data of its own exchange, for any distribution and any programs that use the functions as they should |
| `SocketSteps` | the vocabulary of the scripts: read, write, barrier, keep, free, call |
| `ClientScripts`, `ServerScripts` | each function of the client/server mode, on its side, as a sequence of these steps |
| `ClientServer` | the processes that run the scripts, the streams, the barriers, the calls a code may make |
| `MCClientServer` | the plans: which calls, how many ranks, verbose or not |
| `OldWorld` | the ranks, communicators and kinds of steps of the old interface |
| `OldParams` | its control parameters: the steps of each call, what they send and change |
| `OldCouplings` | the same for couplings, location and exchanges |
| `OldInterface` | the ranks that run these steps, and meet in messages and collective calls |
| `MCOldInterface` | the applications, their calls, their geometry |
| `PairLoop` | what the loops of the locator promise, for any neighbours |
| `PairLoop_proofs` | that these loops never mix and never stop |

### ParamWin

One parameter type of one code. `flag`, `cnt` and `mem` are `_winGlobData[0]`,
`_winGlobData[k]` and the arrays of the root rank; `cFlag`, `cCnt` and `cMem` the
copies of every other rank; `shared` and `excl` the locks of the four windows.
Every rank has a place `pc` and the call `op` it executes. A step is one
MPI call or the local code between two of them:

| code | actions |
|---|---|
| `paramLock`, `paramUnLock` | `Flip` |
| `ctrlParamAdd`, `ctrlParamSet` | `StartPut`, `AcqExclGlob`, `AcqExclWin`, `WriteSet` or `WriteAdd`, `Count`, `Release`, `LateCountStore` (strings), `Barrier` |
| `ctrlParamGet`, `Is`, `NGet`, `ListGet` | `BeginRead`, `AcqShared`, `Snapshot` (the `MPI_Rget` of flag and counter), `Backoff`, `LockWin`, `Fetch`, `Relist` (the second `MPI_Rget` of `ListGet`), `Search` |
| `PDM_error` | `aborted`: nothing happens any more |

The ranks of a code make the same collective calls in the same order: `prog` is the list
of calls the first rank chose, and `pos` how far each rank is in it. `LateCount`
chooses between the int and double types (`FALSE`) and the string type (`TRUE`).
`ParamTable` is implemented under the mapping `Abs`: the table is what the
first `cnt` cells of the root's arrays say, it is closed when the flag is set, and a
reader holds its table from the moment it reads an unset flag.

Assumed of MPI: SHARED and EXCLUSIVE locks of a window exclude one another, and stores
and gets see one memory (the unified model). One name or value is one cell, whatever
its length; the characters are the subject of `ParamArrays`.

### ParamArrays

Calls one at a time, as the locks of `ParamWin` guarantee, on packed arrays indexed from 0.
`table` is the history the calls describe, `whole` says that no entry was deleted so far, `exact` also
that no string changed its size. The model stops where the code would leave an array (`failed`, or an index out of place, `Next`).

### FieldExchange

One coupling of two codes. A member is a rank in one of its codes; `prog` gives the calls
each code makes in a time step, the same in each. `inside` is the blocking call a
rank is in: a rank that runs both codes has one thread. `exch[c][r]` is the sequence
of exchanges rank `r` has started in the direction that leaves code `c`; the external
part-to-part library matches the k-th of one rank with the k-th of the others, and completes
a send before or after it is received (`eager`). A step begins and ends with a barrier of the ranks of a code: `EnterBegin`, `EnterEnd`
enter it, `time_step_beg` and `time_step_end` leave it, the latter with the reset of the status of all fields. `issend_irecv` is both start calls with
`Refuses` as the test of the status of the field, `waitIssend_waitIrecv` both waits, `SkipWait` those
of the code of larger id on a joint rank. `target` is which step's data each field holds.

### CouplingSetup

One coupling of two codes on the ranks of both, from `CWP_Cpl_create` to the weights of the
second time step. `todo[r]` is the list of MPI calls rank `r` still makes in the library call
it is in; a call is entered and left, and what lets it be left is that of MPI:

| code | definitions |
|---|---|
| constructor of `Coupling`, `CouplingDB::couplingCreate` | `CWP_Cpl_create`, `Side` (as which of its codes a joint rank creates the communicators) |
| `Communication::init` | `CreateCalls`, `AskCalls`, `CreateGroup`, `CplCommCreate`, `CplGroup` |
| `iexchGlobalDataBetweenCodesThroughUnionCom` | `ExchangeCalls`, `Copy`, `Enter/LeaveSendrecv`, `Enter/LeaveBcast` |
| `spatialInterpWeightsCompute` | `CWP_Spatial_interp_weights_compute`, `CreateObjects`, `OrderWeights`, `WeightsCalls`, `Clear` |
| `weightsCompute` of an object or of a pair | `EnterWeights`, `LeaveWeights`, `Worker`, `Partner` |

`got` is what a rank has received from the other code, `objects` the interpolation
objects with the code each takes as its own and its part-to-part protocol (`link`). A
collective call over both codes appends to `log`; a broadcast waits for the root, or with
`chain` for all ranks before it, never for those behind. Ranks and groups are numbered
alike; the several messages that carry the fields are one, and so are those
that carry the keys of the objects.

### DataExchange

One coupling of two codes on up to three ranks. `global[c][r]` and `part[c][r]` are the tables
`_globalData` and `_partData` that rank `r` keeps as a rank of code `c`, `pc` its call, `buffer` its arrays for
receiving, by kind and identifier. A
message has an envelope (its kind and its tag, which `get_tag` and `adler32` compute as the code does); `sent` holds the messages of
a rank, a queue for each envelope, and `wanted` the number of its receives. The n-th
receive of an envelope takes the n-th message of it, as MPI promises: a request is an envelope and this number.

| code | definitions |
|---|---|
| `Coupling::globalDataIssend`, `Irecv`, and `Communication::i*GlobalDataBetweenCodes` | `globalDataIssend`, `globalDataIrecv`, `Posts` (who sends) |
| `globalDataWaitIssend`, `WaitIrecv` | `globalDataWaitIssend`, `RootWaitIrecv`, `globalDataWaitIrecv`, `Copies` (the root of both codes copies) |
| `partDataCreate`, `partDataDel` | `CreateFirst`, `partDataCreate` (collective), `partDataDel`, `Frees` |
| `partDataIssend`, `Irecv`, their waits | the actions of those names, `AddRequest`, `ClearRequest`; `recv_data_filter` |

At the end of the module stands what the theorems ask of the programs: `WellUsed`, which is what the functions ask of their user, and
`Matched`, what two codes must agree on for their data to arrive (section 4). `MCDataExchange` has an `ASSUME` that the
programs of the run satisfy both.

The program of a rank of both codes makes their calls in turn, with the same code first everywhere
(`first`); where one code makes several calls before the other, as in `c_new_api_part_data.c` and `c_new_api_part_data_two_exch.c`,
the other has "none" in their place (`CodeByCode` of `MCDataExchange`). On a root
of both codes the wait of the sender comes before that of the receiver (for the other order see section 6). Identifiers are
short, so that the checksum stays below 2^31; `MaxTag` is the value Open MPI gives.

`elts` gives each rank a part, its elements by global number; a rank exchanges with those of the other code that have some of them
(`Linked`). An array that is received has the items of all origins of each element (`Gathered`), which `recv_data_filter` is to reduce to
one for each. It takes the size of an item from `_s_unit`, a map nothing fills, so that it reads past its end; `s_unit` is what it finds there:
nothing is moved, or items are. (Other values would move other numbers of bytes between the same places; with one origin for each element
these places coincide, and no number does harm.) Several parts of one rank and components of an item are left out.

### ClientServer

A process is a client or its server; `proc` is the function it is in, what it knows (its arguments and what
it has read) and its step, `cwp` what it keeps, `sent` the streams. Each step of a script is an action:

| code | definitions |
|---|---|
| `CWP_client_*` | operators of the same names in `ClientScripts` |
| `CWP_server_*`, `CWP_server_msg_handler` | operators of the same names in `ServerScripts` |
| `CWP_transfer_writedata`, `readdata` | `Out`/`Write` with `Send`, `Inp`/`Read` with `Receive` |
| `MPI_Barrier(clt->intra_comm)`, `svr` | `Barrier`, `MPI_Barrier(side)` |
| assignments to `clt_cwp`, `svr_cwp`; `free` | `Keep` with `Assign`; `Free` with `Release` |
| the call of the library | `Call` with `CallLibrary`, whose results are any of a small set |
| `CWP_server_run` | `CWP_server_run`, `Returned` |

A script is evaluated again at each step, with what has been read and kept so far, so a length that arrives
decides the items that follow. An item carries its name only for the properties: nothing in the model but `Agrees`
looks at it, and `StreamsAgree` says that `Agrees` never fails. `Legal` is what the interface asks of its
user: what a call is about exists, the parts of a mesh or field are given before they are used,
nothing is awaited that was not started. All ranks of a code make the same calls.

Left out: time-outs of the socket (an error ends the process), byte order (swapped on both sides or on none), several couplings, fields or strings at once, a field
with data for both maps (a refuted statement, section 6), a part with a polygon, polyhedron or cell block
after another block (its number of elements replaces the count of the client instead of adding to it: a refuted statement, section 6), and user points with global numbers outside of `client_numbers`.

### OldInterface

A rank is in one call, and has the steps `todo` it still makes in it: each is one MPI call, or local
code. `own` is what it keeps: `params` and `copies` (`_intControlParameters` and its sisters, here and in
the copies of other applications), and its couplings `cpls`, whose fields are the members of `oldCoupling`,
of the two location classes and of `fvmc_locator_t`.

| code | definitions |
|---|---|
| `ApplicationPropertiesDataBase::init` | `InitSteps`, `NamesDiffer` |
| `_mergeIntParameters`, `Double`, `String` | `MergeSteps`: `CheckSteps` inside the application, `Rounds` between the roots, a broadcast |
| `oldCoupling::_createCouplingComm`, `CouplingDataBase::createCoupling` | `CreateSteps`, `SameType`, `NewCoupling`, `Coupled` |
| `locate`, `fvmc_locator_set_nodal`, `_locate_all_distant` | `LocateSteps`, `Extents`, `LocateAllDistant`, `Offered`, `Best`, `InfoSteps`, `Distances` |
| `oldCoupling::exchange`, `_exchange_point_var_distant` | `NameSteps`, `ExchangeSteps`, `PointVarSteps`, `Exchange`, `Put`, `Status`, `AfterCheck` |
| `issend`, `irecv`, `waitIssend`, `waitIrecv`, `_get_free_request` | `IssendSteps` ..., `FreeRequest`, `Issended`, `IssendWaited`, `Irecved`, `IrecvWaited`; the messages are `sent` and `posted` |
| `bftc_error` | `Check`: the rank ends, and with it all others (`Aborted`) |
| `MPI_Sendrecv`, `Send` and `Recv`, collective calls | `Sendrecv`, `SendRecv`, `Collective` |

Two ranks meet when communicator and tag agree. `Meeting` also asks that they be about the same thing:
where they are not, the code would take one message for another, and the model stops
there, which is a deadlock. A send waits for its receiver, since MPI may make it
wait; nobody receives from an unnamed rank, so other orders bring no other values. Consecutive
messages of two ranks (name and length, then name, then value) are one step, as are consecutive collective
calls of one communicator. Releasing a communicator is not a wait.

Numerical geometry is a table in the instance: which ranks' extents intersect, which points lie in the
extents and in the mesh of a rank, and how far from it. Who asks whom, which answer is kept
and where values are put is modelled. The tags that users give to `irecv` differ from 0 and from the
locator's own. Left out: several locations of one coupling, location files, polyhedra, high order,
`CWIPI_DISTANT_MESH_INFO`, user interpolation, output.

### PairLoop

The loops over `intersect_rank` without what they carry: each rank has neighbours, goes through
them in ascending order, waits for each, and begins the next loop with the first. `OldInterface` implements
it under the mapping `Pairs` (`LoopsOrdered`): a location begins (`Renew`) when all ranks are between loops and
neighbours have been through the same number of them.

## 3. Runs

| run | instance | shows |
|---|---|---|
| `param_safety` | root and one more rank of a code, 3 names, 2 values, 2 cells, 3 calls; get, is, list | types, coherent reads, no abort caused by pace, and the invariant of the proofs |
| `param_refines` | the same and a rank of another code, 2 names, strings (late counter) | every answer is that of one open state of the table |
| `param_liveness` | root, one rank, two readers of other codes | reads and collective calls return, once the owner makes no more calls |
| `param_own_read` | a rank of the code itself reads | it never returns when the root rank has the flag set before a collective call (finding) |
| `arrays_safety` | 3 entries, 9 bytes, int and string, one string parameter beside the ints | the packed arrays are the table up to the first deletion, the values up to the first string of another size; indexes stay inside; the invariant of the proofs |
| `field_exchange` | ranks a, j, b; j runs both codes; 2 fields, 3 steps, four programs | each step delivers its data, only repeats are refused and no repeat after a wait is let through, steps end with the barriers at both of their ends, and the invariant of the proofs |
| `setup` | 3 ranks. Creation: every distribution of the codes, with partition or without, in any order of the two creations. Weights: partitioned codes with one joint rank, crossed and one-way fields, one or two steps | same collectives in the same order, known communication types, objects with the right protocol, and an end |
| `weights_again` | 2 ranks, a field of both directions, two steps | a joint rank mixes up the objects of the two couplings (finding) |
| `data_exchange` | 3 ranks in six layouts (disjoint, joint, one or two joint roots), either code first, five programs: two global data in crossed orders, one each way, two of the same tag, partitioned data with two exchanges, a reused exchange number and a second object of the same name, two objects at once with the calls of one code first; three elements, numbered differently in the two codes | each array gets its own data, element by element, nothing is refused, protocols are freed once, all calls return |
| `client_server` | 15 plans: 13 with one client and server for the families of functions, 2 with two; sizes 0 and 1, streams of 2 items, verbose or not, any legal order of calls without end | both ends of all functions agree on every item; calls arrive with their arguments; memories stay equal; no call is stuck |
| `client_numbers` | user points with global numbers, 2 parts | the server reads the numbers over its table of arrays (finding) |
| `old_interface` | 30 worlds of 2 to 3 applications on 3 or 4 ranks: parameters of three types in lists of different lengths; couplings with partitioning on both sides, one or none; every relation of extents between two and two ranks; moved meshes and new points; fields under way together; applications that contradict each other | copies are the roots' parameters, every located point gets its value from the nearest rank, buffers outlive their messages, the locator's loops are those of `PairLoop`, all calls return, and contradictions are refused |

**Bounds.** `MaxCalls = 3` is enough for lock, put, unlock; an owner that locks again and again for ever is not
in the runs, and may starve a reader, which looks at the flag at times of its own (`ReadReturns` does not claim more). It is also enough for two additions that
fill `MaxParam = 2` cells and a third that aborts. Two cells are the smallest array in which an
entry other than the searched one can change, three names the smallest that overflow
it. A third rank of a code would play the part of the second: they only wait. `Remotes` has two readers
where they compete (liveness) and one where they only add interleavings. Three entries are the smallest
array in which a deletion moves one entry and leaves one; the capacity of 9 holds them. Three time steps let a
rank be one step ahead or behind and still see the reset twice; ranks
a, j, b are every role (A only, both, B only), and the four programs are those of
the tests: all started first, one direction after the other, both directions, and a repeat.
`setup` has three ranks, the fewest for A only, B only and both, and for a joint rank that is root of
one code, of both or of none. Fields `f` and `g` have locations that order them differently in the two codes, `h` goes
the other way and `k` does not match. Two time steps, because only the first differs from
the others. On a joint rank the second step has one-way fields: the other case is the finding. Two codes without partition and with the same root
are left out (MPI does not define what the duplicate rank in their group does).

`data_exchange` has the three ranks that tell apart a root and another rank, of one code or of both; two
identifiers are the fewest that can be mistaken for one another, and the pair of `SameTags` has equal
checksums. Three elements are dealt out to the ranks of one code and laid in blocks, backwards, on those of the other, so that
a part comes from several ranks, in another order than its own, and some ranks have nothing for each other. Its program of partitioned data ends with the deletion of an object and one of the same name in the other direction, so
what is left over from the first would be met by the second.
In `client_server` a size of 0 is the case in which an item is not sent at all, 1 the one in which it is; a
stream of two items fills up in every function that writes three, and makes a writer wait for its reader. A second rank
only adds what barriers do, which two plans cover; with the calls of all plans in one, a reader
would meet no other item: what a function sends depends on what both sides keep, and the plans put together those
functions that change and use the same part of it.

In `old_interface` two ranks on each side are the fewest with a rank that is not root, a point in two meshes,
and a circle of neighbours; the 16 relations between two and two ranks are all there are. The parameter lists
have 0 to 3 entries of a type, so that the rounds of both, of the longer and none at all occur. Two sends and two receptions
of one coupling are under way together and are waited for out of order, so that a request is reused. A coupling has at most two
geometries, the second with other neighbours. The worlds of contradictions have one each: the
same name in two places, parameters that differ inside an application, coupling types that differ, other coupling
names, other exchange names, a receiver nobody sends to, and a send before the location.

**Deadlock** is checked in `client_server`, `client_numbers`, `data_exchange` and `old_interface`, whose specifications say what a regular
end is (`Terminated`). In the others it is not: those runs end when the bounds are used up or a call aborted. That nothing stops
earlier is what `ReadReturns`, `CallReturns`, `StepsEnd` and `SetupEnds` say.

**Fairness.** A rank inside a call executes its next step (weak fairness of
`RootPut`, `ReadStep`, `Barrier`, of every member's `Step` in `FieldExchange` and of every rank's in `CouplingSetup`): MPI ranks are
processes of their own. The calls of a code are collective, so a rank joins a call another one has
made (strong fairness: between two of its own reads), and a code that locks unlocks, as
`CWP_Time_step_beg` does. A shared lock that is free again and again is granted (strong fairness of `AcqShared`).
`FairLock` adds that a queued EXCLUSIVE lock holds back later SHARED
ones. MPI does not promise it; without it a crowd of readers may starve the writer, and this
is the one thing the liveness runs assume of the MPI library. New reads and new calls are under no fairness.
In `DataExchange`, `OldInterface` and `ClientServer` it is enough that some rank or process goes on while one can (`WF_vars(Step)`,
`WF_vars(Progress)`): programs are finite there, and a function is a finite script, so nobody can be
overtaken for ever. A code need not make a further call.

Every property of a passing run has a mutant in `PROJECT.json`; the faulty variants stand
before the definitions they replace and are marked as such.

## 4. Proofs

What TLC checks on small instances is proved here for all of them: any number of ranks, codes
on them in any way, any names, values, fields, identifiers and programs. Each proof assumes the assumption of its
module only (`ParamAssumption`, `ArraysAssumption`, ...) and, where it says so, a hypothesis on what the user calls.
A theorem that names a property of a run is listed with it in `PROJECT.json`; the invariants named `IInv` of `ParamWin`,
`ParamArrays` and `FieldExchange` stand in those modules, and runs check them.

**Control parameters: locks and reads** (`ParamWin_proofs`)
* `Invariance`: `Spec => []LockInv`, the part of the inductive invariant about locks and arrays;
* `TypeCorrect`: `Spec => []TypeOK`; above all, no write goes past the arrays;
* `Coherence`: `Spec => []SnapshotCoherent`;
* `WritersAlone`: from its exclusive lock of `winGlob` until it gives its locks back, the root rank is alone: no other rank is inside a read or
  holds a window. The counter of the strings, stored after that, is the case apart (`Refines` and the answers below are about it).

`SnapshotCoherent` is not inductive: it speaks of readers that search, and what they
search was fetched long before. `LockInv` adds
* `NamesUnique`: no two used cells have the same name and there is room for them, also
  for the cell that is filled and not yet counted (`Pending`), which `TypeOK` needs for the counter;
* `LocksExclude`: `winGlob` is never held both ways, and every place of a call that relies on it
  holds it;
* `FetchOrder`: which of the other windows a reader still holds tells which arrays it has fetched;
* `FetchedSame`: what a reader has fetched since its last look at the counter is what the
  root's arrays hold in the cells it counts. An addition only writes beyond them, and
  a change needs `winGlob`, which the reader holds.

Each has a lemma of its own with one step per action (`TypeStep`, `NamesStep`,
`LocksStep`, `OrderStep`, `FetchedStep`).

**Control parameters: answers** (`ParamWin_answers`)
* `AbortsJustified`: `Spec => []NoSpuriousAbort`;
* `NamesKeepCells`: an action property, the counter never falls and the counted cells keep their names;
* `Implementation`: `Spec => Refines` if `ReadKinds \subseteq {"get", "is", "nget"}`.

`IInv` extends `LockInv` with what the ranks of a code know of one another: only the root rank writes (`OpsMatch`), the ranks
that are in a call are in the same one (`SameCalls`), what is in a counted cell is a name and a value (`EntriesReal`), a name that a rank was told of
by a call that ended is there (`KnownThere`), and the root has put an entry before any rank leaves the barrier of its call
(`PutDone`). For the refinement every action is a stutter of `ParamTable`, but for the store of the counter (an addition),
of a value (a change) and of the flag, the snapshot of an open flag (a read takes its table) and the search (it answers).
`FetchedSame` is what makes the table held by the reader in `Abs` the one it really searches. The hypothesis is needed:
`ctrlParamListGet` reads the counter again after the names (section 6).

**Control parameters: bytes** (`ParamArrays_proofs`)
* `RoomForAll`: `Spec => []InBounds`; `ReadsBack`: `Spec => []ReadBack`; `Invariance`: `Spec => []IInv`.

The code has no test of the room left in the arrays of characters, only of the number of entries and of the size of each string.
That these are enough is `Ordered`: `n` strings shorter than `StrSize`, one after the other, end before `n * StrSize`.
`Appended`, `Rewritten` say what a string put at the end or one of the same size put in place leaves alone; with them `NamesHeld` and
`ValuesHeld`, a one-to-one relation of packed strings and table, are kept. They hold up to the first deletion (`whole`), the values
up to the first string that changes its size (`exact`): past that the code itself breaks them (section 6), so no invariant about
later states can say it.

**Field exchange** (`FieldExchange_proofs`)
* `TypeCorrect`: `Spec => []TypeOK`;
* under `Paced`: `ExchangedOnce`: `Spec => []OncePerStep`, from `Accounting`: `Spec => []Accounts`;
* under `Disciplined`: `Delivery` and `RefusedForCause`: `Spec => []StepDelivered`,
  `[]OnlyRepeatsRefused`, from `Invariance`: `Spec => []IInv`.

Nothing in a message says which field or step it is, so `StepDelivered` holds because both sides count alike. `Account` says it of
each rank that is working: it has started the exchanges of its program up to the call it is in, in order and as many in each time step
(`Counted`, `Logged`); the request of a field is that of its last exchange (`LastRequest`); the status of a field is that of the waits
of this step (`FlagsOver`), no start was let through twice (`NoRepeat`). `Accounts` puts this together and is inductive by itself; `IInv` adds that a wait that is over has brought
the data of its step (`Brought`), which needs both codes.
The k-th exchange of one rank and that of another are then the same call of the same step. `TakeTurns` says how far
the two codes of a joint rank are apart.
`Paced` is about each code alone: it waits for an exchange before it starts it again (`WaitsBetween`). It says nothing of the repeat after the wait, which
the status of the field refuses, nor of the order of the two codes. It excludes two starts before the first wait, which the code lets through because the status is set by
the wait: for these `OncePerStep` is refuted (section 6).
`Disciplined` is what the library asks of its users without checking it: both codes start the exchanges of a direction in the same order,
wait for the same fields, wait for what they started and before they start it again, and, where a rank runs both codes, start both directions
of a field before they wait for one. Without the last the code refuses a legal call (section 6); without the first it delivers the wrong field.
The four programs of `field_exchange` satisfy it.

**Creation and weights** (`CouplingSetup_proofs`)
* `TypeCorrect`: `Spec => []TypeOK`; `TypesKnown`: `Spec => []TypeKnown`;
* `CollectivesAgree`: `Spec => [](Sound => SameCollectives)`; `ObjectsAssociated`: `Spec => [](Sound => Associated)`.

`IInv` is a disjunction: each rank is in one of the stages of its calls (`Fresh`, `Grouping`, `Asking`, `HearFirst`, `HearSecond`, `Creating`,
`Waiting`, `Listing`, `Resting`, `Ordering`, `Weighing`), and a stage says which MPI calls it has left, what it knows from
the exchanges it has been through (the types, the fields, the keys of the send objects) and how long its log is. No two ranks are compared: the
n-th entry of a log is `Common(n)`, which depends on the world only, so that all logs agree. What goes between the roots is what
`Mailed` and `Heralded` say: the k-th message is the value of the k-th exchange, so a rank learns the right thing from it, in whatever order the
joint ranks make the calls of their codes. A step moves one rank to its next stage, or a meeting all of them, and leaves the stages of the others alone.
`Sound` excludes exactly the finding `weights_again`: weights computed again while an object goes from code B to code A on a joint rank.

**Global and partitioned data** (`DataExchange_proofs`)
* `TypeCorrect`: `Spec => [](Paired => TypeOK)`; `ProtocolsFreed`: `Spec => [](Paired => FreedOnce)`; `Invariance`: `Spec => []IInv`.

On a joint rank two tables name one protocol, and only the code of smaller id frees it. `Counted` relates the table of that code
with what the rank has freed: together they are all protocols that exist, each once. That is not enough, for the other code must neither
use nor keep one that is freed: `InStep` says that the two tables are equal while both codes have made the same calls (`Abreast`), and that, while one
is a call ahead, they differ by exactly the object this call creates, without its protocol, or deletes (`Behind`). A creation is a step of all
ranks at once; `CreateStep` shows that on a joint rank the code that calls last fills in the entry of both. `Paired` is the
hypothesis that the codes of a joint rank create and delete an object in the same of their calls, which are made in turn. Where no rank is joint
it says nothing. It holds in the worlds of `data_exchange`.

**Global and partitioned data: delivery** (`DataExchange_delivery`)
* `NothingRefused`: `Spec => [](WellUsed(world) => NotRefused)`;
* `DataDelivered`: `Spec => [](WellUsed(world) /\ Matched(world) => Delivered)`; both from `FitsAlways`: `Spec => []DInv`.

A message carries data, and nothing says to which exchange they belong; a request is a tag and a place in the order of arrival. `Fits` says
that what a rank has is a function of its program and of the number `n` of calls it has made, and of nothing else: the table of global data
has the entries of the calls that start one (`GlobalFits`), that of partitioned data the objects that live after `n` calls (`ObjectsFit`)
with the requests that are under way (`RequestsFit`), and the n-th message under an envelope is the item of the n-th call that sends under it (`StreamFits`,
`QueueFits`). It holds for any programs: a call the code refuses is simply not made. No two ranks are compared, so a step of one leaves
what is said of the others alone, and the creation of an object, a step of all of them, is the same argument for each.
`NothingRefused` follows for programs that are `WellUsed`, which speaks of programs only and not of tables: an identifier of global data is started once, a wait
follows its start, an `exch_id` is used again after its wait, an object is deleted after all waits and used in its direction, and a joint
rank has started global data in both codes before it waits for them.

For `DataDelivered`, a rank that waits finds under its request the item of a call of the other code, and `SameOrder` makes it that
of its own exchange: the n-th message sent and the n-th received under a tag are of one exchange. What is needed besides are
`Paces` (an `exch_id` that is under way has been started once more than waited for, so that the request of a wait is the one of its own
exchange and not of one before or after), `CastFits` (the n-th broadcast of a root is the item of the n-th wait of its code, which the other ranks may
take much later) and `Copied` (on a common root the code of smaller id has copied what it has waited for).
`Matched` is `SameOrder`, `Facing` (global data of one identifier are sent by one code and received by the other) and `SenderFirst` (on a common
root the code of smaller id waits for what it sends before the other waits for it),
and `OneOrigin` (an element that a rank may receive comes from one rank). `SenderFirst` excludes exactly the order of `ReceiverFirst`, with which
the code gives data that have not been copied (section 6). Nothing is assumed of `adler32` or `get_tag`: identifiers may have equal tags, and programs
whose exchanges have different tags satisfy `SameOrder` in whatever order they start them.
For partitioned data the array that a request fills is computed from what came from each rank: by `ItemsInOrder` and `OneItemEach`, with `OneOrigin`, the item of the i-th element
stands at place i, and `PartFiltered` is that the filter then leaves it there, whatever it reads as the size of an item. With elements of several origins it does not, and `Delivered` is
refuted (section 6).
Neither theorem needs `Paired`; what a program that uses objects otherwise may free twice is the subject of `ProtocolsFreed`.

**Loops of the old interface** (`PairLoop_proofs`), for any set `Ranks` and any neighbours (symmetric, nobody is its own):
* `StayInStep`: `Spec => []IInv`;
* `LoopsNeverMixed`: `Spec => []SameLoop`. All messages of the locator have one tag, so a rank that is a loop
  ahead could be taken for one that is not;
* `AlwaysSomeMeeting`: `Spec => []NeverStuck`, if ranks are natural numbers.

`SameLoop` speaks of two ranks that meet, and is not inductive: `InStep` says of all neighbours that they are in the same
loop and have met each other, or neither has, or that one is exactly one loop ahead, of the other's loop it is
through with the other, and has not met it again. `Unfinished` says that a rank with neighbours always has one left to meet.
For `NeverStuck` take the least loop of a rank with neighbours, among the ranks in it the least that still has
neighbours to meet, and the least of these: by `InStep` that one is not ahead, and it has not met anyone it still should
that is lower, so it waits for the first. So the number of ranks and the geometry do not matter;
`LoopsOrdered` is the bridge to the modelled code.

**Only model-checked**, and why:
* liveness (`ReadReturns`, `CallReturns`, `StepsEnd`, `SetupEnds`, `ExchangesEnd`, `Ends`, `EveryCallReturns`): fairness and ENABLED are beyond the prover;
* `ClientServer`: its scripts are concatenated, some of them with `FlattenSeq` over parts, from what has been read so far, and a process keeps what it
  read in a record extended with `:>` and `@@`; that the two scripts of each call agree is computed by TLC, call by call: what the fold gives for
  every number of parts is an induction over data;
* `OldInterface`: its calls are lists of steps put together with `FlattenSeq`, `SelectSeq` and `FoldLeft`, and its tables use `:>` and `@@`; what does not depend on them is `PairLoop`.

## 5. Findings

Each is a run that TLC finds violated.
* `param_own_read`: a rank of a code that reads one of its own parameters is locked out like a distant one, and
  hangs when the root rank is inside `CWP_Time_step_beg`.
* `weights_again`: on a joint rank with a field of both directions, weights that are computed again
  initialise two objects with the coupling of the wrong code: one loses its protocol, another
  gets that of the opposite direction, and the ranks of one code only compute another exchange.
* `client_numbers`: the server reads the global numbers of user points over the table of its arrays; the library
  gets a number for an array, and what is freed later was never allocated.

## 6. Refuted statements, what is not modelled, and what is left

**Statements the code refutes** that no run of the project keeps. Each is a definition of its module; with it as the INVARIANT of
the configuration named, TLC finds the counterexample.

| statement | in | instance | what happens |
|---|---|---|---|
| `ListGetCoherent` | `ParamWin` | `param_refines` with `list` reads | `CWP_Param_list_get` reads the counter again after it has fetched the names, and may return names it has not fetched |
| `StringSetReadBack` | `ParamArrays` | `arrays_safety` | `CWP_Param_set` of a string of another size leaves the end of the last value where it was |
| `DeletedIsGone` | `ParamArrays` | `arrays_safety` | `CWP_Param_del` does not delete: the counter in the window keeps its value |
| `OnlyRepeatsRefused` | `FieldExchange` | a program that sends a field, waits, and then receives it in the same step | on a rank that runs both codes the status of the sent field refuses the reception |
| `OncePerStep` | `FieldExchange` | `field_exchange` with `Programs <- Unwaited` | a field started twice before the first wait is exchanged twice in a step: its status is set by the wait |
| `BarrierHeld` | `ClientServer` | `client_server` with `Plans <- BarrierPlans` | without the verbose flag `CWP_client_Cpl_barrier` returns before the servers are in the barrier |
| `Delivered` | `DataExchange` | `data_exchange` with `Worlds <- ReceiverFirst` | on the common root of two codes only the wait of the code of smaller id copies global data: the receiver's wait returns, and broadcasts, before they are copied when it comes first (`communication.cxx:894`); `SenderFirst` of `DataDelivered` excludes this order |
| `Delivered` | `DataExchange` | `data_exchange` with `Worlds <- SharedElements` | elements that several ranks send, as in the joint part of `c_new_api_part_data.c`: the comment of `recv_data_filter` is "In-place filtering of data coming from multiple origins" (`partData.cxx:114`), but it looks up the size of an item in `_s_unit`, which nothing fills (`partData.cxx:128`), and the array may stay as it came |
| `ElementsCounted` | `ClientServer` | `client_server` with `Plans <- MixedPlans` | a block of polygons set after a standard block replaces the number of elements of the part on the client (`client.cxx:4405`; likewise 4665, 5172, 5306), and fields at the centers of cells have the wrong length |
| `SendsSource` | `ClientServer` | `client_server` with `Plans <- SendRecvPlans` | data set for the target map replace those `CWP_client_Field_issend` was given for the source map |

Of the old interface, read in its code while it was modelled; the instances keep clear of them:
* `cwipi_update_location` in a coupling without partitioning is refused on the ranks that are not root
  (`oldCoupling.cxx:903`); these then keep `_toLocate`, skip `locate` and its broadcasts in the next exchange, and so take the broadcast of the
  root's points for that of the status;
* a rank with more parameters than its root is not noticed: it is left in a send nobody receives, or the
  message is taken for the next check (`applicationPropertiesDataBase.cxx:294`);
* an exchange in which the other side sends nothing gives `BAD_RECEIVING` on ranks with located points, and
  only the others go on to the barrier of the visualisation (`oldCoupling.cxx:1500`);
* points set on one application only make that one locate, and the other exchange (`locationToLocalMesh.cxx:415` has
  a note to do about it);
* with several locations, a wait uses the locator of the location chosen at the time of the wait, and
  deletes the buffer of a request of the same number (`oldCoupling.cxx:1878`);
* `distant_distribution` is only set for ranks that intersect: the condition for the others
  cannot be true (`fvmc_locator.c:1551`);
* a tag 0 of a user's `irecv` is that of the checks of the names (`oldCoupling.cxx:1141`).

**Not modelled**, and why:
* the collective order of `CWP_Init` (names of the codes, communicators, windows, default parameters);
* the barriers of `CWP_Time_step_beg` and `CWP_Time_step_end` in `CouplingSetup`: between two computations of the weights a rank goes on at its own pace;
* ranks of the old interface that disagree about whether points must be located (`_toLocate`); strings moved or copied past the end of their arrays, where `ParamArrays` stops;
* couplings without partition in the field exchange and in the weights (broadcasts inside the waits), and fields created after
  the first interpolation;
* several couplings of a code, their deletion and their tags, in the new interface; two codes without partition and one root (MPI does
  not say what a rank that is twice in a group does);
* numerical code: interpolation weights, meshes and blocks, high-order location, the geometry helpers;
* of the old interface what section 2 lists, and the rest of the fvm and bft libraries, which are a vendored copy of those of
  Code_Saturne; ParaDiGM and MPI, which are external: of
  them only the order in which messages are matched and what a collective call waits for is used;
* the Fortran and Python bindings, which convert arguments and keep no state;
* output for visualisation.

The share of the whole repository that is modelled is small for that reason: most of its lines are geometry, file
formats, bindings and vendored libraries, in which no order of events can go wrong.

**What could come next**, in this order: proofs about `ClientServer` and `OldInterface` on what does not depend on these sequences (the streams and
barriers between any two scripts; buffers and requests under way); `CodeStart` for `CWP_Init`; `FieldExchange` without partition; several couplings.

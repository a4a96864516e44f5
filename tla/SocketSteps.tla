---------------------------- MODULE SocketSteps ----------------------------
(***************************************************************************)
(* What a function of the client/server mode does, as a sequence of steps: *)
(* bytes written to and read from the socket that joins a client to its    *)
(* server, barriers among the clients or among the servers, assignments to *)
(* the t_cwp a process keeps, and calls of the CWIPI library.              *)
(*                                                                         *)
(* A script is evaluated again before each of its steps, on the arguments  *)
(* the process has by then and on the t_cwp it keeps by then, so that a    *)
(* size that is read decides the steps that follow the read.               *)
(*                                                                         *)
(* What is sent carries its name, its size in bytes and its value.  The    *)
(* name is not in the socket: it says what the writer means.  Enumerations *)
(* are ints.  A name is sent as its length and its characters, which is    *)
(* one item here, whose size is the model value Name.                      *)
(***************************************************************************)
EXTENDS Integers, Sequences, SequencesExt

CONSTANTS
  Name,     \* the size of an item that carries its own length
  Message,  \* sizeof(t_message)
  Opaque,   \* a value that nothing depends on
  NULL,     \* a pointer to nothing
  Freed,    \* a pointer to what has been freed
  Unset     \* what an array holds before it is written

Integer == 4
Double  == 8
Gnum    == 8  \* sizeof(CWP_g_num_t)
Size_t  == 8

\* The value of argument w, and w as a number: none before it is known.
Val(a, w) == IF w \in DOMAIN a THEN a[w] ELSE Opaque
N(a, w)   == IF w \in DOMAIN a THEN a[w] ELSE 0

\* CWP_transfer_writedata and CWP_transfer_readdata.
Out(w, n, v)   == [do |-> "write", what |-> w, size |-> n, val |-> v]
Inp(w, n)      == [do |-> "read", what |-> w, size |-> n]
Write(w, n, v) == <<Out(w, n, v)>>
Read(w, n)     == <<Inp(w, n)>>

Barrier == <<[do |-> "barrier"]>>

\* t_cwp becomes c.
Keep(c) == <<[do |-> "keep", to |-> c]>>

\* Array p is freed.
Free(p) == <<[do |-> "free", array |-> p]>>

\* A call of the library, and the records of results it may give.
Call(fn, outs) == <<[do |-> "call", fn |-> fn, outs |-> outs]>>
Nothing  == [w \in {} |-> Opaque]
NoResult == {Nothing}

\* One item for each name of ws, which is a sequence.
WriteNames(ws)   == [i \in 1..Len(ws) |-> Out(ws[i], Name, Opaque)]
ReadNames(ws)    == [i \in 1..Len(ws) |-> Inp(ws[i], Name)]
WriteInts(a, ws) == [i \in 1..Len(ws) |-> Out(ws[i], Integer, Val(a, ws[i]))]
ReadInts(ws)     == [i \in 1..Len(ws) |-> Inp(ws[i], Integer)]

\* n names, each of them w.
WriteList(w, n) == WriteNames([i \in 1..n |-> w])
ReadList(w, n)  == ReadNames([i \in 1..n |-> w])

\* Global numbers of n entities, after a flag that says there are none.
WriteNumbers(a, n) ==
  WriteInts(a, <<"NULL_flag">>)
    \o (IF N(a, "NULL_flag") = 1 THEN <<>> ELSE Write("global_num", Gnum * n, Opaque))
ReadNumbers(a, n) ==
  ReadInts(<<"NULL_flag">>)
    \o (IF N(a, "NULL_flag") = 1 THEN <<>> ELSE Read("global_num", Gnum * n))

\* Connectivity w of n entities: its index, then as many entries as the last
\* entry of the index says, which is the value kept of the index.
WriteConnec(a, idx, w, n) ==
  Write(idx, Integer * (n + 1), Val(a, idx)) \o Write(w, Integer * N(a, idx), Opaque)
ReadConnec(a, idx, w, n) == Read(idx, Integer * (n + 1)) \o Read(w, Integer * N(a, idx))

-----------------------------------------------------------------------------
(* The beginning and the end of every function. *)

\* A status message, with verbose flags only.
ReadStatus(c)        == IF c.verbose THEN Read("status", Message) ELSE <<>>
WriteStatus(c, flag) == IF c.verbose THEN Write("status", Message, flag) ELSE <<>>

\* Client: the message that asks for fn, then the server's first status.
Request(fn, c) == Barrier \o Write("message", Message, fn) \o Barrier \o ReadStatus(c)

\* Client: a further status; the library call has begun, and has ended.
NextStatus(c) == Barrier \o ReadStatus(c)

\* Faulty variant: the status after the call is not waited for.
LaunchedOnce(c) == NextStatus(c)

Launched(c)   == NextStatus(c) \o NextStatus(c)

\* Server: the same statuses, the last two around the calls.
Begin(c) == Barrier \o WriteStatus(c, "BEGIN")
LaunchBegin(c) == Barrier \o WriteStatus(c, "LCH_BEGIN")

\* Faulty variant: there is no status after the call.
LaunchEndSilent(c) == Barrier

LaunchEnd(c)   == Barrier \o WriteStatus(c, "LCH_END")

\* Faulty variant: the end is announced before the call is made.
LaunchLate(c, calls) == LaunchBegin(c) \o LaunchEnd(c) \o calls

Launch(c, calls) == LaunchBegin(c) \o calls \o LaunchEnd(c)

-----------------------------------------------------------------------------
(* What a t_cwp keeps. *)

\* A coupling that CWP_Cpl_create has just made, and a process without any.
NewCoupling(n_part, deformable) ==
  [n_part |-> n_part, deformable |-> deformable,
   n_vtx |-> NULL, vtx_coord |-> NULL, n_user_vtx |-> NULL, usr_coord |-> NULL,
   usr_global_num |-> NULL, n_elt |-> NULL, field |-> NULL,
   global_data |-> NULL, part_data |-> NULL]
NewCwp(verbose) == [verbose |-> verbose, coupling |-> NULL, char_param_value |-> NULL]

Parts(n_part) == 0..n_part - 1

\* Pointer p after p[i] = v, the array being allocated and filled with d when
\* p is NULL.
Put(p, n_part, d, i, v) ==
  [(IF p = NULL THEN [j \in Parts(n_part) |-> d] ELSE p) EXCEPT ![i] = v]

\* The scripts S(0), S(1), ... for the parts.
EachPart(n_part, S(_)) == FlattenSeq([j \in 1..n_part |-> S(j - 1)])
=============================================================================

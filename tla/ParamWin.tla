------------------------------ MODULE ParamWin ------------------------------
(***************************************************************************)
(* The control parameters of one code, for one parameter type, as          *)
(* CodeProperties keeps them: arrays in the memory of the root rank of the *)
(* code, exposed through MPI windows, written by the root rank inside the  *)
(* collective calls of the code's ranks, and read by every other rank of   *)
(* the global communicator through a local copy of the same arrays.        *)
(*                                                                         *)
(* Two mechanisms protect a reader.  The MPI locks of the windows make one *)
(* call atomic.  The flag _winGlobData[0], a plain store of the root rank  *)
(* (CWP_Param_lock / CWP_Param_unlock), closes the whole table over        *)
(* several calls: a reader that finds it set gives its lock back, sleeps   *)
(* and asks again.                                                         *)
(*                                                                         *)
(* Abstractions.  A name or a value is one cell whatever its length, so    *)
(* IdxName is the array of the names its bounds delimit, and the IdxValue  *)
(* window of the string type, always locked next to Value, is one with it  *)
(* (ParamArrays models the packed bytes).  Stores and gets of the flag     *)
(* and of the counter see the window in the MPI unified memory model.      *)
(* CWP_Param_del is in ParamArrays.                                        *)
(***************************************************************************)
EXTENDS Naturals, FiniteSets, Sequences

CONSTANTS
  Root,      \* the root rank of the code, owner of the windows
  Locals,    \* the other ranks of its intraConnectableComm
  Remotes,   \* ranks of the other codes
  Names,     \* parameter names
  Vals,      \* parameter values
  NoName, NoVal, NoProc,
  MaxParam,  \* _n_param_max: capacity of the arrays
  LateCount, \* TRUE for strings: the counter is stored after the last unlock
  FairLock,  \* a queued exclusive lock holds back new shared locks
  MaxCalls,  \* bound: collective calls of one behaviour
  ReadKinds, \* the reads the ranks issue
  SelfReaders \* the ranks of the code that read its own parameters

Win     == {"idxName", "name", "value"}
AllWin  == Win \cup {"glob"}
Ranks   == {Root} \cup Locals
Readers == Locals \cup Remotes
Procs   == Ranks \cup Remotes
Slots   == 1 .. MaxParam
Cells   == Names \cup Vals \cup {NoVal}

ASSUME ParamAssumption ==
  /\ Root \notin Readers
  /\ Locals \cap Remotes = {}
  /\ NoProc \notin Procs
  /\ MaxParam \in Nat
  /\ MaxCalls \in Nat
  /\ NoVal \notin Names \cup Vals
  /\ Names \cap Vals = {}
  /\ LateCount \in BOOLEAN
  /\ FairLock \in BOOLEAN
  /\ ReadKinds \subseteq {"get", "is", "nget", "list"}
  /\ SelfReaders \subseteq Ranks

Puts  == [kind : {"add", "set"}, name : Names, val : Vals]
Flips == [kind : {"lock", "unlock"}, name : {NoName}, val : {NoVal}]
Calls == Puts \cup Flips
Asks  == [kind : ReadKinds, name : Names, val : {NoVal}]
NoOp  == [kind |-> "none", name |-> NoName, val |-> NoVal]
NoAnswer == [val |-> NoVal, n |-> 0]

VARIABLES
  flag,    \* root: _winGlobData[0]
  cnt,     \* root: _winGlobData[k], the number of entries readers may use
  mem,     \* root: mem[w][i], cell i of the array behind window w
  cFlag, cCnt, cMem,  \* the copies every other rank keeps of the three
  shared,  \* shared[w]: the ranks that hold window w SHARED
  excl,    \* excl[w]: the root rank holds window w EXCLUSIVE
  pc, op,  \* per rank: where it is, and the call or read it executes
  prog,    \* the calls of the code's ranks since all of them last returned
           \* from a barrier: the same calls for all of them
  pos,     \* pos[p]: how many of them rank p has returned from
  made,    \* the number of calls before those
  answer,  \* answer[p]: what the last read of p returned
  aborted, \* the rank whose PDM_error ended the run, or NoProc
  known    \* history: the names p was told of, by a collective add or a read

rootVars  == <<flag, cnt, mem>>
cacheVars == <<cFlag, cCnt, cMem>>
lockVars  == <<shared, excl>>
callVars  == <<prog, pos, made>>
readVars  == <<answer, aborted, known>>
vars == <<rootVars, cacheVars, lockVars, pc, op, callVars, readVars>>

Go(p, at) == pc' = [pc EXCEPT ![p] = at]

-----------------------------------------------------------------------------
(* Searching the arrays: entry i is x when bounds and characters agree.    *)
(* The loops stop at the first match; there is one only (NamesUnique).     *)

Found(n, m, x) == {i \in 1 .. n : m["idxName"][i] = x /\ m["name"][i] = x}

ValueOf(n, m, x) ==
  IF Found(n, m, x) = {} THEN NoVal
  ELSE m["value"][CHOOSE i \in Found(n, m, x) : TRUE]

\* The table that the first n cells of the arrays hold.
View(n, m) == [x \in Names |-> ValueOf(n, m, x)]

\* The arrays a rank searches: its own memory for the root rank.
CntAt(p) == IF p = Root THEN cnt ELSE cCnt[p]
MemAt(p) == IF p = Root THEN mem ELSE cMem[p]

-----------------------------------------------------------------------------
(* Calls of the ranks of the code: CWP_Param_lock, _unlock, _add, _set.    *)

\* The lock state a rank of the code sees: paramIsLocked reads its own array.
FlagAt(p) == IF p = Root THEN flag ELSE cFlag[p]

\* Each rank of the code makes the same calls in the same order; the first
\* one to get there chooses.  A code locks once, and unlocks what it locked.
CallsLeft(c, locked) ==
  CASE c.kind = "lock"   -> ~locked /\ made + Len(prog) + 2 <= MaxCalls
    [] c.kind = "unlock" -> locked
    [] OTHER -> made + Len(prog) + (IF locked THEN 2 ELSE 1) <= MaxCalls

Issue(p, c) ==
  /\ pc[p] = "idle"
  /\ \/ /\ pos[p] < Len(prog)
        /\ c = prog[pos[p] + 1]
        /\ UNCHANGED prog
     \/ /\ pos[p] = Len(prog)
        /\ CallsLeft(c, FlagAt(p) = 1)
        /\ prog' = Append(prog, c)

\* paramLock and paramUnLock: a plain store into the rank's own array.
Flip(p, c) ==
  /\ c \in Flips
  /\ Issue(p, c)
  /\ LET f == IF c.kind = "lock" THEN 1 ELSE 0
     IN IF p = Root
        THEN flag' = f /\ UNCHANGED cFlag
        ELSE cFlag' = [cFlag EXCEPT ![p] = f] /\ UNCHANGED flag
  /\ pos' = [pos EXCEPT ![p] = @ + 1]
  /\ UNCHANGED <<cnt, mem, cCnt, cMem, lockVars, pc, op, made, readVars>>

\* ctrlParamAdd or ctrlParamSet: the root rank writes, the others only wait.
StartPut(p, c) ==
  /\ c \in Puts
  /\ Issue(p, c)
  /\ op' = [op EXCEPT ![p] = c]
  /\ Go(p, IF p = Root THEN "exclGlob" ELSE "barrier")
  /\ UNCHANGED <<rootVars, cacheVars, lockVars, pos, made, readVars>>

\* The windows the root rank locks after winGlob, in its order.
ExclOrder(c) == IF c.kind = "set" THEN <<"value">> ELSE <<"value", "name", "idxName">>

\* Faulty variant: the exclusive lock of winGlob ignores the shared ones.
AcqExclGlobBlind ==
  /\ pc[Root] = "exclGlob"
  /\ excl' = [excl EXCEPT !["glob"] = TRUE]
  /\ Go(Root, "exclWin")
  /\ UNCHANGED <<rootVars, cacheVars, shared, op, callVars, readVars>>

AcqExclGlob ==
  /\ pc[Root] = "exclGlob"
  /\ shared["glob"] = {}
  /\ excl' = [excl EXCEPT !["glob"] = TRUE]
  /\ Go(Root, "exclWin")
  /\ UNCHANGED <<rootVars, cacheVars, shared, op, callVars, readVars>>

\* One more MPI_Win_lock (EXCLUSIVE) of the sequence; after the last, write.
AcqExclWin(w) ==
  LET order == ExclOrder(op[Root])
  IN /\ pc[Root] = "exclWin"
     /\ \E i \in DOMAIN order :
          /\ order[i] = w /\ ~excl[w]
          /\ \A j \in 1 .. i - 1 : excl[order[j]]
          /\ Go(Root, IF i = Len(order) THEN "write" ELSE "exclWin")
     /\ shared[w] = {}
     /\ excl' = [excl EXCEPT ![w] = TRUE]
     /\ UNCHANGED <<rootVars, cacheVars, shared, op, callVars, readVars>>

Abort(p) ==
  /\ aborted' = p
  /\ UNCHANGED <<rootVars, cacheVars, lockVars, pc, op, callVars, answer, known>>

\* ctrlParamSet: find the entry, or abort; store its value.
WriteSet ==
  LET c == op[Root]
      found == Found(cnt, mem, c.name)
  IN /\ pc[Root] = "write" /\ c.kind = "set"
     /\ \/ found = {} /\ Abort(Root)
        \/ /\ \E i \in found : mem' = [mem EXCEPT !["value"][i] = c.val]
           /\ Go(Root, "release")
           /\ UNCHANGED <<flag, cnt, cacheVars, lockVars, op, callVars, readVars>>

\* Faulty variant: no test of the capacity of the arrays.
RoomUnchecked == TRUE

\* The arrays have a free cell: nParam < _n_param_max.
Room == cnt < MaxParam

\* ctrlParamAdd: abort when the arrays are full or the name exists; else fill
\* the cells after the last entry.
WriteAdd ==
  LET c == op[Root]
  IN /\ pc[Root] = "write" /\ c.kind = "add"
     /\ IF ~Room \/ Found(cnt, mem, c.name) # {} THEN Abort(Root)
        ELSE /\ mem' = [w \in Win |->
                          [mem[w] EXCEPT ![cnt + 1] =
                             IF w = "value" THEN c.val ELSE c.name]]
             /\ Go(Root, IF LateCount THEN "release" ELSE "count")
             /\ UNCHANGED <<flag, cnt, cacheVars, lockVars, op, callVars, readVars>>

\* The counter of the int and double types, stored under the locks.
Count ==
  /\ pc[Root] = "count"
  /\ cnt' = cnt + 1
  /\ Go(Root, "release")
  /\ UNCHANGED <<flag, mem, cacheVars, lockVars, op, callVars, readVars>>

\* Faulty variant: winGlob stays locked.
ReleaseWins ==
  /\ pc[Root] = "release"
  /\ excl' = [w \in AllWin |-> w = "glob"]
  /\ Go(Root, "barrier")
  /\ UNCHANGED <<rootVars, cacheVars, shared, op, callVars, readVars>>

\* MPI_Win_unlock of every window, winGlob last.
Release ==
  /\ pc[Root] = "release"
  /\ excl' = [w \in AllWin |-> FALSE]
  /\ Go(Root, IF LateCount /\ op[Root].kind = "add" THEN "lateCount" ELSE "barrier")
  /\ UNCHANGED <<rootVars, cacheVars, shared, op, callVars, readVars>>

\* The counter of the string type, stored after the last unlock.
LateCountStore ==
  /\ pc[Root] = "lateCount"
  /\ cnt' = cnt + 1
  /\ Go(Root, "barrier")
  /\ UNCHANGED <<flag, mem, cacheVars, lockVars, op, callVars, readVars>>

\* Faulty variant: a call without the closing MPI_Barrier.
ReturnAlone ==
  \E p \in Ranks :
    /\ pc[p] = "barrier"
    /\ Go(p, "idle")
    /\ pos' = [pos EXCEPT ![p] = @ + 1]
    /\ known' = [known EXCEPT ![p] = @ \cup {op[p].name}]
    /\ op' = [op EXCEPT ![p] = NoOp]
    /\ UNCHANGED <<rootVars, cacheVars, lockVars, prog, made, answer, aborted>>

\* MPI_Barrier (_intraConnectableComm): the call returns on every rank.
Barrier ==
  /\ \A p \in Ranks : pc[p] = "barrier"
  /\ pc'  = [p \in Procs |-> IF p \in Ranks THEN "idle" ELSE pc[p]]
  /\ op'  = [p \in Procs |-> IF p \in Ranks THEN NoOp ELSE op[p]]
  /\ prog' = <<>> /\ pos' = [p \in Ranks |-> 0] /\ made' = made + Len(prog)
  /\ known' = [p \in Procs |-> IF p \in Ranks THEN known[p] \cup {op[p].name}
                               ELSE known[p]]
  /\ UNCHANGED <<rootVars, cacheVars, lockVars, answer, aborted>>

-----------------------------------------------------------------------------
(* Reads: ctrlParamGet, ctrlParamIs, ctrlParamNGet, ctrlParamListGet.      *)

\* A rank of the code does not read its own parameters while it holds them
\* locked: it would wait for its own unlock (the root rank aborts, Snapshot).
BeginRead(p, ask) ==
  /\ pc[p] = "idle"
  /\ p \in Remotes \cup SelfReaders
  /\ p \in Locals => cFlag[p] = 0
  /\ op' = [op EXCEPT ![p] = ask]
  /\ answer' = [answer EXCEPT ![p] = NoAnswer]
  /\ Go(p, "acqGlob")
  /\ UNCHANGED <<rootVars, cacheVars, lockVars, callVars, aborted, known>>

\* MPI_Win_lock (SHARED) of winGlob, for the first time or after a back-off.
AcqShared(p) ==
  /\ \/ pc[p] = "acqGlob"   /\ Go(p, "snapshot")
     \/ pc[p] = "reacqGlob" /\ Go(p, "relist")
  /\ ~excl["glob"]
  /\ FairLock => pc[Root] # "exclGlob"
  /\ shared' = [shared EXCEPT !["glob"] = @ \cup {p}]
  /\ UNCHANGED <<rootVars, cacheVars, excl, op, callVars, readVars>>

\* Nothing is fetched from an empty table, nor to count its entries.
AfterSnapshot(kind, n) ==
  CASE n > 0 /\ kind # "nget" -> "lock"
    [] kind = "list"          -> "relist"
    [] OTHER                  -> "search"

\* Faulty variant: a reader goes on although the flag is set.
SnapshotFlagBlind(p) ==
  /\ pc[p] = "snapshot"
  /\ p # Root
  /\ cFlag' = [cFlag EXCEPT ![p] = flag]
  /\ cCnt'  = [cCnt EXCEPT ![p] = cnt]
  /\ Go(p, AfterSnapshot(op[p].kind, cnt))
  /\ UNCHANGED <<rootVars, cMem, lockVars, op, callVars, readVars>>

\* The MPI_Rget of _winGlobData and the test of the flag; the root rank tests
\* its own flag and aborts when it is set.
Snapshot(p) ==
  /\ pc[p] = "snapshot"
  /\ IF p = Root
     THEN IF flag = 1 THEN Abort(Root)
          ELSE /\ Go(Root, "search")
               /\ UNCHANGED <<rootVars, cacheVars, lockVars, op, callVars, readVars>>
     ELSE /\ cFlag' = [cFlag EXCEPT ![p] = flag]
          /\ cCnt'  = [cCnt EXCEPT ![p] = cnt]
          /\ Go(p, IF flag = 1 THEN "backoff" ELSE AfterSnapshot(op[p].kind, cnt))
          /\ UNCHANGED <<rootVars, cMem, lockVars, op, callVars, readVars>>

\* Faulty variant: the lock is kept over the sleep.
BackoffHolding(p) ==
  /\ \/ pc[p] = "backoff"   /\ Go(p, "snapshot")
     \/ pc[p] = "rebackoff" /\ Go(p, "relist")
  /\ UNCHANGED <<rootVars, cacheVars, lockVars, op, callVars, readVars>>

\* The flag was set: unlock winGlob, usleep(1), and lock it again.
Backoff(p) ==
  /\ \/ pc[p] = "backoff"   /\ Go(p, "acqGlob")
     \/ pc[p] = "rebackoff" /\ Go(p, "reacqGlob")
  /\ shared' = [shared EXCEPT !["glob"] = @ \ {p}]
  /\ UNCHANGED <<rootVars, cacheVars, excl, op, callVars, readVars>>

\* The windows a read locks SHARED to fetch the arrays, in its order.
SharedOrder(kind) ==
  IF kind = "is" THEN <<"name", "idxName">> ELSE <<"idxName", "name", "value">>

LockWin(p, w) ==
  LET order == SharedOrder(op[p].kind)
  IN /\ pc[p] = "lock"
     /\ \E i \in DOMAIN order :
          /\ order[i] = w /\ p \notin shared[w]
          /\ \A j \in 1 .. i - 1 : p \in shared[order[j]]
          /\ Go(p, IF i = Len(order) THEN "fetch" ELSE "lock")
     /\ ~excl[w]
     /\ shared' = [shared EXCEPT ![w] = @ \cup {p}]
     /\ UNCHANGED <<rootVars, cacheVars, excl, op, callVars, readVars>>

\* MPI_Get of the first cCnt cells of a window, and its MPI_Win_unlock.
Fetch(p, w) ==
  /\ pc[p] = "fetch"
  /\ p \in shared[w]
  /\ w = "name"  => p \notin shared["idxName"]
  /\ w = "value" => p \notin shared["name"]
  /\ cMem' = [cMem EXCEPT ![p][w] =
                [i \in Slots |-> IF i <= cCnt[p] THEN mem[w][i] ELSE cMem[p][w][i]]]
  /\ shared' = [shared EXCEPT ![w] = @ \ {p}]
  /\ Go(p, IF w = "value" \/ (w = "name" /\ op[p].kind = "is")
           THEN (IF op[p].kind = "list" THEN "relist" ELSE "search") ELSE "fetch")
  /\ UNCHANGED <<rootVars, cFlag, cCnt, excl, op, callVars, readVars>>

\* ctrlParamListGet reads _winGlobData a second time after it has fetched the
\* names, and backs off again when the flag is set.
Relist(p) ==
  /\ pc[p] = "relist"
  /\ cFlag' = [cFlag EXCEPT ![p] = flag]
  /\ cCnt'  = [cCnt EXCEPT ![p] = cnt]
  /\ Go(p, IF flag = 1 THEN "rebackoff" ELSE "search")
  /\ UNCHANGED <<rootVars, cMem, lockVars, op, callVars, readVars>>

\* The search in the rank's own arrays, the unlock of winGlob and the return;
\* ctrlParamGet aborts on a name it does not find.  ctrlParamIs and
\* ctrlParamListGet lock name and idxName SHARED around the search, which
\* never blocks: an exclusive lock of those is only held with winGlob.
Search(p) ==
  LET ask == op[p]
      found == Found(CntAt(p), MemAt(p), ask.name)
  IN /\ pc[p] = "search"
     /\ IF ask.kind = "get" /\ found = {} THEN Abort(p)
        ELSE /\ answer' = [answer EXCEPT ![p] =
                  [ val |-> IF ask.kind = "get"
                            THEN ValueOf(CntAt(p), MemAt(p), ask.name) ELSE NoVal,
                    n   |-> CASE ask.kind = "is" -> IF found # {} THEN 1 ELSE 0
                              [] ask.kind \in {"nget", "list"} -> CntAt(p)
                              [] OTHER -> 0 ]]
             /\ known' = [known EXCEPT ![p] =
                  IF ask.kind \in {"get", "is"} /\ found # {} THEN @ \cup {ask.name} ELSE @]
             /\ shared' = [shared EXCEPT !["glob"] = @ \ {p}]
             /\ op' = [op EXCEPT ![p] = NoOp]
             /\ Go(p, "idle")
             /\ UNCHANGED <<rootVars, cacheVars, excl, callVars, aborted>>

-----------------------------------------------------------------------------
Init ==
  /\ flag = 0 /\ cnt = 0
  /\ mem   = [w \in Win |-> [i \in Slots |-> NoVal]]
  /\ cFlag = [p \in Readers |-> 0]
  /\ cCnt  = [p \in Readers |-> 0]
  /\ cMem  = [p \in Readers |-> [w \in Win |-> [i \in Slots |-> NoVal]]]
  /\ shared = [w \in AllWin |-> {}]
  /\ excl   = [w \in AllWin |-> FALSE]
  /\ pc = [p \in Procs |-> "idle"]
  /\ op = [p \in Procs |-> NoOp]
  /\ prog = <<>> /\ pos = [p \in Ranks |-> 0] /\ made = 0
  /\ answer  = [p \in Procs |-> NoAnswer]
  /\ aborted = NoProc
  /\ known   = [p \in Procs |-> {}]

RootPut ==
  \/ AcqExclGlob
  \/ \E w \in Win : AcqExclWin(w)
  \/ WriteSet \/ WriteAdd \/ Count \/ Release \/ LateCountStore

ReadStep(p) ==
  \/ AcqShared(p)
  \/ Snapshot(p)
  \/ Backoff(p)
  \/ \E w \in Win : LockWin(p, w)
  \/ \E w \in Win : Fetch(p, w)
  \/ Relist(p)
  \/ Search(p)

Step ==
  \/ \E p \in Ranks, c \in Flips : Flip(p, c)
  \/ \E p \in Ranks, c \in Puts : StartPut(p, c)
  \/ RootPut
  \/ Barrier
  \/ \E p \in Procs, ask \in Asks : BeginRead(p, ask)
  \/ \E p \in Procs : ReadStep(p)

Next == aborted = NoProc /\ Step

Spec == Init /\ [][Next]_vars

(***************************************************************************)
(* Fairness.  A rank that is inside a call goes on; the ranks of the code  *)
(* make the calls that one of them has made; a code that locks unlocks.    *)
(* A shared lock that is available again and again is granted.             *)
(***************************************************************************)
Fairness ==
  /\ WF_vars(aborted = NoProc /\ RootPut)
  /\ WF_vars(aborted = NoProc /\ Barrier)
  /\ \A p \in Ranks :
       /\ WF_vars(aborted = NoProc /\ \E c \in Flips : c.kind = "unlock" /\ Flip(p, c))
       /\ SF_vars(aborted = NoProc /\ pos[p] < Len(prog)
                  /\ \/ \E c \in Flips : Flip(p, c)
                     \/ \E c \in Puts : StartPut(p, c))
  /\ \A p \in Procs :
       /\ WF_vars(aborted = NoProc /\ ReadStep(p))
       /\ SF_vars(aborted = NoProc /\ AcqShared(p))

FairSpec == Spec /\ Fairness

-----------------------------------------------------------------------------
(* Properties. *)

WritePcs == {"exclGlob", "exclWin", "write", "count", "release", "lateCount"}
ReadPcs  == {"acqGlob", "reacqGlob", "snapshot", "backoff", "rebackoff", "lock",
             "fetch", "relist", "search"}
Pcs      == {"idle", "barrier"} \cup WritePcs \cup ReadPcs

\* Every variable has its type; above all, no write of ctrlParamAdd goes past
\* the _n_param_max cells the windows were allocated with.
TypeOK ==
  /\ flag \in {0, 1}
  /\ cnt \in 0 .. MaxParam
  /\ mem \in [Win -> [Slots -> Cells]]
  /\ cFlag \in [Readers -> {0, 1}]
  /\ cCnt \in [Readers -> 0 .. MaxParam]
  /\ cMem \in [Readers -> [Win -> [Slots -> Cells]]]
  /\ shared \in [AllWin -> SUBSET Procs]
  /\ excl \in [AllWin -> BOOLEAN]
  /\ pc \in [Procs -> Pcs]
  /\ op \in [Procs -> Calls \cup Asks \cup {NoOp}]
  /\ prog \in Seq(Calls)
  /\ pos \in [Ranks -> Nat] /\ made \in Nat
  /\ answer \in [Procs -> [val : Cells, n : Nat]]
  /\ aborted \in Procs \cup {NoProc}
  /\ known \in [Procs -> SUBSET (Names \cup {NoName})]

\* What a reader searches is one state of the root's arrays: from the counter
\* it read to the last array it fetched the root has written nothing those
\* entries hold, although the counter, the names and the values come through
\* different windows, fetched one after the other.
SnapshotCoherent ==
  \A p \in Readers :
    (pc[p] = "search" /\ op[p].kind \in {"get", "is"}) =>
      /\ cCnt[p] <= cnt
      /\ \A i \in 1 .. cCnt[p] :
           /\ cMem[p]["idxName"][i] = mem["idxName"][i]
           /\ cMem[p]["name"][i] = mem["name"][i]
           /\ op[p].kind = "get" => cMem[p]["value"][i] = mem["value"][i]

\* The list of names that ctrlParamListGet returns is that of its counter:
\* what its documentation promises.
ListGetCoherent ==
  \A p \in Readers :
    (pc[p] = "search" /\ op[p].kind = "list") =>
      \A i \in 1 .. cCnt[p] : cMem[p]["name"][i] = mem["name"][i]

\* PDM_error only ends the run for a mistake of its caller, never because a
\* rank runs ahead: a rank whose ctrlParamAdd has returned, or who has seen a
\* name in a read, finds that name in every later call.
NoSpuriousAbort ==
  aborted # NoProc =>
    LET o == op[aborted]
    IN \/ o.kind \in {"get", "set"} /\ o.name \notin known[aborted]
       \/ o.kind = "add" /\ (cnt = MaxParam \/ o.name \in known[aborted])
       \/ aborted = Root /\ flag = 1

\* The table the readers are promised.  A reader holds its table from the
\* moment it reads an unset flag.
Holding(p) == pc[p] = "search" \/ (p # Root /\ pc[p] \in {"lock", "fetch"})

\* The tables the readers answer from.
Taken == [p \in Procs |-> IF Holding(p) THEN View(CntAt(p), mem) ELSE [n \in {} |-> NoVal]]

Abs == INSTANCE ParamTable WITH
  table  <- View(cnt, mem),
  closed <- (flag = 1),
  snap   <- Taken

\* Every answer is that of one single open state of the table.
Refines == Abs!AbsSpec

Stopped(p) == pc[p] = "idle" \/ aborted # NoProc

\* A read of another code's parameters returns once the owner makes no more
\* calls (it makes MaxCalls of them here, and unlocks what it has locked): no
\* order of its locks, writes and unlocks leaves a reader waiting for ever.
\* An owner that locks its parameters again and again may starve the reader,
\* whose retries may all meet the flag set.
ReadReturns == \A p \in Procs : (pc[p] \in ReadPcs) ~> Stopped(p)

\* A collective add or set returns on the root rank, however many readers come.
CallReturns == (pc[Root] \in WritePcs) ~> Stopped(Root)

\* CWP_Param_lock only locks out "a distant code": a read of a rank of the
\* code itself, issued outside of its own lock, returns.
OwnReadReturns == \A p \in Locals : (pc[p] \in ReadPcs) ~> Stopped(p)

-----------------------------------------------------------------------------
(* The inductive invariant behind TypeOK and SnapshotCoherent. *)

\* ctrlParamAdd has filled a cell that the counter does not count yet.
Pending ==
  \/ pc[Root] \in {"count", "lateCount"}
  \/ pc[Root] = "release" /\ LateCount /\ op[Root].kind = "add"

Used == IF Pending THEN cnt + 1 ELSE cnt

\* No two entries have the same name; there is room for all of them.
NamesUnique ==
  /\ Used <= MaxParam
  /\ pc[Root] = "count" => ~LateCount
  /\ \A i \in 1 .. Used : mem["idxName"][i] = mem["name"][i]
  /\ \A i, j \in 1 .. Used : mem["name"][i] = mem["name"][j] => i = j

\* winGlob is EXCLUSIVE or SHARED, never both; a rank holds it where the code
\* says it does.
LocksExclude ==
  /\ excl["glob"] => shared["glob"] = {}
  /\ pc[Root] \in {"exclWin", "write", "count", "release"} => excl["glob"]
  /\ \A p \in Procs :
       pc[p] \in {"snapshot", "backoff", "rebackoff", "lock", "fetch", "relist", "search"}
         => p \in shared["glob"]

\* The order in which a read gives its other windows back.
FetchOrder ==
  \A p \in Readers :
    /\ pc[p] \notin {"lock", "fetch"} => \A w \in Win : p \notin shared[w]
    /\ op[p].kind = "is" => p \notin shared["value"]
    /\ pc[p] = "fetch" /\ p \notin shared["name"] => p \notin shared["idxName"]

Fetched(p, w) == \A i \in 1 .. cCnt[p] : cMem[p][w][i] = mem[w][i]

\* The arrays a reader has fetched in this read, and its counter.
FetchedSame ==
  \A p \in Readers :
    /\ cCnt[p] <= cnt
    /\ pc[p] = "fetch" => \A w \in Win : p \in shared[w] \/ Fetched(p, w)
                                         \/ (op[p].kind = "is" /\ w = "value")
    /\ pc[p] \in {"relist", "rebackoff", "reacqGlob"} => op[p].kind = "list"
    /\ pc[p] = "search" /\ op[p].kind \in {"get", "is"} =>
         \A w \in Win : Fetched(p, w) \/ (op[p].kind = "is" /\ w = "value")

\* Type correctness, the entries the root rank writes, and what the locks keep still.
LockInv == TypeOK /\ NamesUnique /\ LocksExclude /\ FetchOrder /\ FetchedSame

-----------------------------------------------------------------------------
(* The inductive invariant behind Refines and NoSpuriousAbort. *)

\* A rank reads with a question of a read; the root rank alone writes, and it
\* reads without the windows.
OpsMatch ==
  /\ \A p \in Procs :
       /\ pc[p] \in ReadPcs => op[p] \in Asks
       /\ pc[p] \in WritePcs => p = Root
  /\ pc[Root] \notin {"backoff", "rebackoff", "reacqGlob", "lock", "fetch", "relist"}

\* Every entry has a name and a value: none is a cell nobody filled.
EntriesReal ==
  \A i \in 1 .. Used : mem["name"][i] \in Names /\ mem["value"][i] \in Vals

\* The ranks of the code are in the same call: what a rank has returned from
\* since the last barrier were no collective calls.
SameCalls ==
  \A p \in Ranks :
    /\ pos[p] <= Len(prog)
    /\ \A i \in 1 .. pos[p] : prog[i] \in Flips
    /\ pc[p] \in WritePcs \cup {"barrier"} =>
         /\ pos[p] < Len(prog)
         /\ op[p] = prog[pos[p] + 1] /\ op[p] \in Puts

Named(x, n) == \E i \in 1 .. n : mem["name"][i] = x

\* A name a rank was told of stays in the table, and in the entries the rank
\* searches next.
KnownThere ==
  \A p \in Procs : \A x \in known[p] :
    /\ Named(x, cnt)
    /\ (p # Root /\ pc[p] \in {"lock", "fetch", "search"} /\ op[p].kind \in {"get", "is"})
         => Named(x, cCnt[p])

\* How far the call of the root rank is: its name is in the cell that is not
\* counted yet, then in the table, where the root rank knows every other name.
PutDone ==
  /\ Pending => mem["name"][cnt + 1] = op[Root].name
  /\ pc[Root] \in {"release", "barrier"} /\ ~Pending => Named(op[Root].name, cnt)
  /\ \A i \in 1 .. Used :
       \/ mem["name"][i] \in known[Root]
       \/ /\ pc[Root] \in {"count", "release", "lateCount", "barrier"}
          /\ mem["name"][i] = op[Root].name

\* The windows and locks, the calls in progress and the names the ranks know.
IInv == LockInv /\ OpsMatch /\ EntriesReal /\ SameCalls /\ KnownThere /\ PutDone
=============================================================================

-------------------------- MODULE ParamWin_answers --------------------------
(***************************************************************************)
(* Proofs about ParamWin, second part: what the calls and the reads of its *)
(* users find in the table.  PDM_error ends a run only for a mistake of    *)
(* its caller, and every answer is that of one open state of the table     *)
(* ParamTable promises, for every number of ranks, names, values, cells.   *)
(***************************************************************************)
EXTENDS ParamWin_proofs, FiniteSetTheorems

\* What a call of the code's ranks and what a question carry.
LEMMA OpTypes ==
  /\ \A c \in Puts : c.name \in Names /\ c.val \in Vals /\ c.kind \in {"add", "set"}
  /\ \A c \in Flips : c.kind \in {"lock", "unlock"}
  /\ \A a \in Asks : a.name \in Names /\ a.kind \in {"get", "is", "nget", "list"}
  /\ NoOp.kind = "none" /\ NoOp \notin Puts
  /\ \A o \in Calls \cup Asks \cup {NoOp} :
       /\ o.kind \in {"add", "set"} => o \in Puts
       /\ o.kind \in {"get", "is", "nget", "list"} => o \in Asks
<1>1. \A c \in Puts : c.name \in Names /\ c.val \in Vals /\ c.kind \in {"add", "set"}
  BY DEF Puts
<1>2. \A c \in Flips : c.kind \in {"lock", "unlock"}
  BY DEF Flips
<1>3. \A a \in Asks : a.name \in Names /\ a.kind \in {"get", "is", "nget", "list"}
  BY ParamAssumption DEF Asks
<1>4. NoOp.kind = "none"
  BY DEF NoOp
<1> QED BY <1>1, <1>2, <1>3, <1>4 DEF Calls

-----------------------------------------------------------------------------
(* The invariant is inductive, one part after the other. *)

\* A rank reads only with a question, and the root rank alone writes.
LEMMA OpsStep == TypeOK /\ OpsMatch /\ [Next]_vars => OpsMatch'
<1> SUFFICES ASSUME TypeOK, OpsMatch, [Next]_vars PROVE OpsMatch'
  OBVIOUS
<1> USE ParamAssumption, SetTypes DEF Go, Abort
<1> USE DEF rootVars, cacheVars, lockVars, callVars, readVars, ReadPcs, WritePcs
<1>0. pc \in [Procs -> Pcs] /\ op \in [Procs -> Calls \cup Asks \cup {NoOp}]
  BY DEF TypeOK
<1>1. ASSUME NEW p \in Ranks, NEW c \in Flips, Flip(p, c) PROVE OpsMatch'
  BY <1>1 DEF Flip, OpsMatch
<1>2. ASSUME NEW p \in Ranks, NEW c \in Puts, StartPut(p, c) PROVE OpsMatch'
  BY <1>0, <1>2 DEF StartPut, OpsMatch
<1>3. ASSUME AcqExclGlob PROVE OpsMatch'
  BY <1>0, <1>3 DEF AcqExclGlob, OpsMatch
<1>4. ASSUME NEW w \in Win, AcqExclWin(w) PROVE OpsMatch'
  <2>1. PICK at \in {"write", "exclWin"} : pc' = [pc EXCEPT ![Root] = at] /\ op' = op
    BY <1>4 DEF AcqExclWin
  <2> QED BY <1>0, <2>1 DEF OpsMatch
<1>5. ASSUME WriteSet PROVE OpsMatch'
  BY <1>0, <1>5 DEF WriteSet, OpsMatch
<1>6. ASSUME WriteAdd PROVE OpsMatch'
  BY <1>0, <1>6 DEF WriteAdd, OpsMatch
<1>7. ASSUME Count PROVE OpsMatch'
  BY <1>0, <1>7 DEF Count, OpsMatch
<1>8. ASSUME Release PROVE OpsMatch'
  BY <1>0, <1>8 DEF Release, OpsMatch
<1>9. ASSUME LateCountStore PROVE OpsMatch'
  BY <1>0, <1>9 DEF LateCountStore, OpsMatch
<1>10. ASSUME Barrier PROVE OpsMatch'
  BY <1>0, <1>10 DEF Barrier, OpsMatch
<1>11. ASSUME NEW p \in Procs, NEW ask \in Asks, BeginRead(p, ask) PROVE OpsMatch'
  BY <1>0, <1>11 DEF BeginRead, OpsMatch
<1>12. ASSUME NEW p \in Procs, AcqShared(p) PROVE OpsMatch'
  BY <1>0, <1>12 DEF AcqShared, OpsMatch
<1>13. ASSUME NEW p \in Procs, Snapshot(p) PROVE OpsMatch'
  <2>1. CASE p = Root
    BY <1>0, <1>13, <2>1 DEF Snapshot, OpsMatch
  <2>2. CASE p # Root
    <3>1. PICK at \in ReadPcs : pc' = [pc EXCEPT ![p] = at]
      BY <1>13, <2>2 DEF Snapshot, AfterSnapshot
    <3>2. pc[p] = "snapshot" /\ op' = op
      BY <1>13, <2>2 DEF Snapshot
    <3> QED BY <1>0, <2>2, <3>1, <3>2 DEF OpsMatch
  <2> QED BY <2>1, <2>2
<1>14. ASSUME NEW p \in Procs, Backoff(p) PROVE OpsMatch'
  BY <1>0, <1>14 DEF Backoff, OpsMatch
<1>15. ASSUME NEW p \in Procs, NEW w \in Win, LockWin(p, w) PROVE OpsMatch'
  <2>1. PICK at \in {"lock", "fetch"} : pc' = [pc EXCEPT ![p] = at]
    BY <1>15 DEF LockWin
  <2>2. pc[p] = "lock" /\ op' = op
    BY <1>15 DEF LockWin
  <2> QED BY <1>0, <2>1, <2>2 DEF OpsMatch
<1>16. ASSUME NEW p \in Procs, NEW w \in Win, Fetch(p, w) PROVE OpsMatch'
  <2>1. PICK at \in {"relist", "search", "fetch"} : pc' = [pc EXCEPT ![p] = at]
    BY <1>16 DEF Fetch
  <2>2. pc[p] = "fetch" /\ op' = op
    BY <1>16 DEF Fetch
  <2> QED BY <1>0, <2>1, <2>2 DEF OpsMatch
<1>17. ASSUME NEW p \in Procs, Relist(p) PROVE OpsMatch'
  BY <1>0, <1>17 DEF Relist, OpsMatch
<1>18. ASSUME NEW p \in Procs, Search(p) PROVE OpsMatch'
  BY <1>0, <1>18 DEF Search, OpsMatch
<1>19. CASE UNCHANGED vars
  BY <1>19 DEF vars, OpsMatch
<1> QED
  BY <1>1, <1>2, <1>3, <1>4, <1>5, <1>6, <1>7, <1>8, <1>9, <1>10, <1>11, <1>12,
     <1>13, <1>14, <1>15, <1>16, <1>17, <1>18, <1>19
  DEF Next, Step, RootPut, ReadStep

-----------------------------------------------------------------------------
(* What a step of a read leaves alone. *)

\* A step of a read changes nothing of the root rank's arrays nor of the calls
\* of the code; it takes no rank into a call or out of one.
LEMMA ReadFrame ==
  ASSUME TypeOK, OpsMatch, NEW p \in Procs,
         ReadStep(p) \/ \E ask \in Asks : BeginRead(p, ask)
  PROVE  /\ UNCHANGED <<rootVars, callVars>>
         /\ \A q \in Procs :
              /\ pc[q] \notin ReadPcs \cup {"idle"} => pc'[q] = pc[q] /\ op'[q] = op[q]
              /\ pc'[q] \notin ReadPcs \cup {"idle"} => pc'[q] = pc[q]
              /\ q # p => pc'[q] = pc[q] /\ op'[q] = op[q] /\ known'[q] = known[q]
              /\ known[q] \subseteq known'[q]
<1> USE ParamAssumption, SetTypes DEF Go, Abort
<1> USE DEF rootVars, cacheVars, lockVars, callVars, readVars, ReadPcs
<1>0. pc \in [Procs -> Pcs] /\ op \in [Procs -> Calls \cup Asks \cup {NoOp}]
      /\ known \in [Procs -> SUBSET (Names \cup {NoName})]
  BY DEF TypeOK
<1> DEFINE Quiet ==
      /\ UNCHANGED <<rootVars, callVars>>
      /\ \A q \in Procs :
           /\ pc[q] \notin ReadPcs \cup {"idle"} => pc'[q] = pc[q] /\ op'[q] = op[q]
           /\ pc'[q] \notin ReadPcs \cup {"idle"} => pc'[q] = pc[q]
           /\ q # p => pc'[q] = pc[q] /\ op'[q] = op[q] /\ known'[q] = known[q]
           /\ known[q] \subseteq known'[q]
<1>1. ASSUME NEW ask \in Asks, BeginRead(p, ask) PROVE Quiet
  BY <1>0, <1>1 DEF BeginRead
<1>2. CASE AcqShared(p)
  BY <1>0, <1>2 DEF AcqShared
<1>3. CASE Snapshot(p)
  <2>1. CASE Abort(p)
    BY <2>1
  <2>2. CASE ~Abort(p)
    <3>1. PICK at \in ReadPcs : pc' = [pc EXCEPT ![p] = at]
      BY <1>3, <2>2 DEF Snapshot, AfterSnapshot
    <3>2. pc[p] = "snapshot" /\ UNCHANGED <<rootVars, op, callVars, known>>
      BY <1>3, <2>2 DEF Snapshot
    <3> QED BY <1>0, <3>1, <3>2
  <2> QED BY <2>1, <2>2
<1>4. CASE Backoff(p)
  BY <1>0, <1>4 DEF Backoff
<1>5. ASSUME NEW w \in Win, LockWin(p, w) PROVE Quiet
  <2>1. PICK at \in {"lock", "fetch"} : pc' = [pc EXCEPT ![p] = at]
    BY <1>5 DEF LockWin
  <2>2. pc[p] = "lock" /\ UNCHANGED <<rootVars, op, callVars, known>>
    BY <1>5 DEF LockWin
  <2> QED BY <1>0, <2>1, <2>2
<1>6. ASSUME NEW w \in Win, Fetch(p, w) PROVE Quiet
  <2>1. PICK at \in {"relist", "search", "fetch"} : pc' = [pc EXCEPT ![p] = at]
    BY <1>6 DEF Fetch
  <2>2. pc[p] = "fetch" /\ UNCHANGED <<rootVars, op, callVars, known>>
    BY <1>6 DEF Fetch
  <2> QED BY <1>0, <2>1, <2>2
<1>7. CASE Relist(p)
  BY <1>0, <1>7 DEF Relist
<1>8. CASE Search(p)
  <2>1. CASE Abort(p)
    BY <2>1
  <2>2. CASE ~Abort(p)
    <3>1. /\ pc[p] = "search" /\ pc' = [pc EXCEPT ![p] = "idle"]
          /\ op' = [op EXCEPT ![p] = NoOp]
          /\ UNCHANGED <<rootVars, callVars>>
          /\ \A q \in Procs : known[q] \subseteq known'[q] /\ (q # p => known'[q] = known[q])
      BY <1>0, <1>8, <2>2 DEF Search
    <3> QED BY <1>0, <3>1
  <2> QED BY <2>1, <2>2
<1> QED BY <1>1, <1>2, <1>3, <1>4, <1>5, <1>6, <1>7, <1>8 DEF ReadStep

\* So the addition of the root rank, and with it the filled cells, stay.
LEMMA ReadPending ==
  ASSUME TypeOK, OpsMatch, NEW p \in Procs,
         ReadStep(p) \/ \E ask \in Asks : BeginRead(p, ask)
  PROVE  (Pending' <=> Pending) /\ Used' = Used
<1>1. /\ pc[Root] \notin ReadPcs \cup {"idle"} => pc'[Root] = pc[Root] /\ op'[Root] = op[Root]
      /\ pc'[Root] \notin ReadPcs \cup {"idle"} => pc'[Root] = pc[Root]
      /\ cnt' = cnt
  BY ReadFrame, SetTypes DEF rootVars
<1>2. Pending' <=> Pending
  BY <1>1 DEF Pending, ReadPcs
<1> QED BY <1>1, <1>2 DEF Used

-----------------------------------------------------------------------------
(* The entries of the table are names and values. *)

\* ctrlParamAdd fills the three arrays before the entry counts.
LEMMA EntriesStep ==
  TypeOK /\ NamesUnique /\ OpsMatch /\ EntriesReal /\ [Next]_vars => EntriesReal'
<1> SUFFICES ASSUME TypeOK, NamesUnique, OpsMatch, EntriesReal, [Next]_vars PROVE EntriesReal'
  OBVIOUS
<1> USE ParamAssumption, SetTypes DEF Go, Abort
<1> USE DEF rootVars, cacheVars, lockVars, callVars, readVars
<1>0. /\ pc \in [Procs -> Pcs] /\ op \in [Procs -> Calls \cup Asks \cup {NoOp}]
      /\ cnt \in Nat /\ mem \in [Win -> [Slots -> Cells]]
  BY DEF TypeOK
<1>1. ASSUME NEW p \in Ranks, NEW c \in Flips, Flip(p, c) PROVE EntriesReal'
  BY <1>1 DEF Flip, EntriesReal, Used, Pending
<1>2. ASSUME NEW p \in Ranks, NEW c \in Puts, StartPut(p, c) PROVE EntriesReal'
  BY <1>0, <1>2 DEF StartPut, Issue, EntriesReal, Used, Pending
<1>3. ASSUME AcqExclGlob PROVE EntriesReal'
  BY <1>0, <1>3 DEF AcqExclGlob, EntriesReal, Used, Pending
<1>4. ASSUME NEW w \in Win, AcqExclWin(w) PROVE EntriesReal'
  <2>1. PICK at \in {"write", "exclWin"} : pc' = [pc EXCEPT ![Root] = at]
    BY <1>4 DEF AcqExclWin
  <2>2. pc[Root] = "exclWin" /\ UNCHANGED <<cnt, mem, op>>
    BY <1>4 DEF AcqExclWin
  <2> QED BY <1>0, <2>1, <2>2 DEF EntriesReal, Used, Pending
<1>5. ASSUME WriteSet PROVE EntriesReal'
  <2>1. CASE Abort(Root)
    BY <2>1 DEF EntriesReal, Used, Pending
  <2>2. ASSUME NEW i \in Found(cnt, mem, op[Root].name),
               mem' = [mem EXCEPT !["value"][i] = op[Root].val],
               pc' = [pc EXCEPT ![Root] = "release"], UNCHANGED <<cnt, op>>
        PROVE  EntriesReal'
    <3>1. op[Root].val \in Vals /\ op[Root].kind = "set" /\ pc[Root] = "write"
      BY <1>0, <1>5, OpTypes DEF WriteSet
    <3>2. Used' = Used
      BY <1>0, <2>2, <3>1 DEF Used, Pending
    <3>3. mem'["name"] = mem["name"]
      BY <1>0, <2>2
    <3>4. \A j \in 1 .. Used : mem'["value"][j] = mem["value"][j] \/ mem'["value"][j] = op[Root].val
      BY <1>0, <2>2
    <3> QED BY <3>1, <3>2, <3>3, <3>4 DEF EntriesReal
  <2> QED BY <1>5, <2>1, <2>2 DEF WriteSet
<1>6. ASSUME WriteAdd PROVE EntriesReal'
  <2>1. CASE ~Room \/ Found(cnt, mem, op[Root].name) # {}
    BY <1>6, <2>1 DEF WriteAdd, EntriesReal, Used, Pending
  <2>2. CASE Room /\ Found(cnt, mem, op[Root].name) = {}
    <3>1. op[Root].name \in Names /\ op[Root].val \in Vals
      BY <1>0, <1>6, OpTypes DEF WriteAdd
    <3>2. Used' <= cnt + 1 /\ Used = cnt
      BY <1>0, <1>6, <2>2 DEF WriteAdd, Used, Pending
    <3>3. mem' = [w \in Win |-> [mem[w] EXCEPT ![cnt + 1] =
                                   IF w = "value" THEN op[Root].val ELSE op[Root].name]]
      BY <1>6, <2>2 DEF WriteAdd
    <3>4. cnt + 1 \in Slots
      BY <1>0, <2>2 DEF Room, Slots
    <3>5. \A j \in 1 .. cnt : mem'["name"][j] = mem["name"][j] /\ mem'["value"][j] = mem["value"][j]
      BY <1>0, <3>3, <3>4
    <3>6. mem'["name"][cnt + 1] = op[Root].name /\ mem'["value"][cnt + 1] = op[Root].val
      BY <1>0, <3>3, <3>4
    <3>7. Used' \in {cnt, cnt + 1}
      BY <1>6, <2>2 DEF WriteAdd, Used
    <3>8. \A j \in 1 .. Used' : j \in 1 .. cnt \/ j = cnt + 1
      BY <1>0, <3>7
    <3> QED BY <3>1, <3>2, <3>5, <3>6, <3>8 DEF EntriesReal
  <2> QED BY <2>1, <2>2
<1>7. ASSUME Count PROVE EntriesReal'
  BY <1>0, <1>7 DEF Count, NamesUnique, EntriesReal, Used, Pending
<1>8. ASSUME Release PROVE EntriesReal'
  BY <1>0, <1>8 DEF Release, EntriesReal, Used, Pending
<1>9. ASSUME LateCountStore PROVE EntriesReal'
  BY <1>0, <1>9 DEF LateCountStore, EntriesReal, Used, Pending
<1>10. ASSUME Barrier PROVE EntriesReal'
  BY <1>0, <1>10 DEF Barrier, EntriesReal, Used, Pending
<1>11. ASSUME NEW p \in Procs, ReadStep(p) \/ \E ask \in Asks : BeginRead(p, ask)
       PROVE  EntriesReal'
  BY <1>11, ReadFrame, ReadPending DEF EntriesReal
<1>12. CASE UNCHANGED vars
  BY <1>12 DEF vars, EntriesReal, Used, Pending
<1> QED
  BY <1>1, <1>2, <1>3, <1>4, <1>5, <1>6, <1>7, <1>8, <1>9, <1>10, <1>11, <1>12
  DEF Next, Step, RootPut

-----------------------------------------------------------------------------
(* The ranks of the code are in the same call. *)

\* The rank that gets to a call first chooses it, the others follow.
LEMMA IssueProg ==
  ASSUME TypeOK, NEW p \in Ranks, NEW c \in Calls, pos[p] <= Len(prog), Issue(p, c)
  PROVE  /\ Len(prog) <= Len(prog') /\ Len(prog') \in Nat
         /\ \A i \in 1 .. Len(prog) : prog'[i] = prog[i]
         /\ pos[p] + 1 <= Len(prog') /\ prog'[pos[p] + 1] = c
<1>1. prog \in Seq(Calls) /\ pos[p] \in Nat
  BY DEF TypeOK
<1>2. CASE pos[p] < Len(prog) /\ c = prog[pos[p] + 1] /\ UNCHANGED prog
  BY <1>1, <1>2
<1>3. CASE pos[p] = Len(prog) /\ prog' = Append(prog, c)
  BY <1>1, <1>3
<1> QED BY <1>2, <1>3 DEF Issue

\* Calls made since stay what they were for the ranks that are behind.
LEMMA PrefixKept ==
  ASSUME TypeOK, SameCalls, Len(prog) <= Len(prog'),
         \A i \in 1 .. Len(prog) : prog'[i] = prog[i], NEW q \in Ranks
  PROVE  /\ \A i \in 1 .. pos[q] : prog'[i] \in Flips
         /\ pc[q] \in WritePcs \cup {"barrier"} =>
              pos[q] < Len(prog) /\ op[q] = prog'[pos[q] + 1] /\ op[q] \in Puts
<1>1. pos[q] \in Nat /\ Len(prog) \in Nat
  BY DEF TypeOK
<1>2. /\ pos[q] <= Len(prog) /\ \A i \in 1 .. pos[q] : prog[i] \in Flips
      /\ pc[q] \in WritePcs \cup {"barrier"} =>
           pos[q] < Len(prog) /\ op[q] = prog[pos[q] + 1] /\ op[q] \in Puts
  BY DEF SameCalls
<1>3. \A i \in 1 .. pos[q] : i \in 1 .. Len(prog)
  BY <1>1, <1>2
<1>4. pos[q] < Len(prog) => pos[q] + 1 \in 1 .. Len(prog)
  BY <1>1
<1> QED BY <1>2, <1>3, <1>4

\* A step of the root rank in a call keeps it in this call.
LEMMA RootFrame ==
  ASSUME TypeOK, RootPut
  PROVE  /\ UNCHANGED <<flag, cacheVars, op, callVars, answer, known>>
         /\ pc[Root] \in WritePcs
         /\ pc'[Root] \in WritePcs \cup {"barrier"}
         /\ \A q \in Procs : q # Root => pc'[q] = pc[q]
<1> USE SetTypes DEF Go, Abort, rootVars, cacheVars, lockVars, callVars, readVars, WritePcs
<1>0. pc \in [Procs -> Pcs]
  BY DEF TypeOK
<1> DEFINE Within == /\ UNCHANGED <<flag, cacheVars, op, callVars, answer, known>>
                     /\ pc[Root] \in WritePcs
                     /\ pc'[Root] \in WritePcs \cup {"barrier"}
                     /\ \A q \in Procs : q # Root => pc'[q] = pc[q]
<1>1. CASE AcqExclGlob
  BY <1>0, <1>1 DEF AcqExclGlob
<1>2. ASSUME NEW w \in Win, AcqExclWin(w) PROVE Within
  <2>1. PICK at \in {"write", "exclWin"} : pc' = [pc EXCEPT ![Root] = at]
    BY <1>2 DEF AcqExclWin
  <2> QED BY <1>0, <1>2, <2>1 DEF AcqExclWin
<1>3. CASE WriteSet
  BY <1>0, <1>3 DEF WriteSet
<1>4. CASE WriteAdd
  BY <1>0, <1>4 DEF WriteAdd
<1>5. CASE Count
  BY <1>0, <1>5 DEF Count
<1>6. CASE Release
  BY <1>0, <1>6 DEF Release
<1>7. CASE LateCountStore
  BY <1>0, <1>7 DEF LateCountStore
<1> QED BY <1>1, <1>2, <1>3, <1>4, <1>5, <1>6, <1>7 DEF RootPut

\* A barrier is the only way past a collective call, and it takes every rank.
LEMMA CallsStep == TypeOK /\ OpsMatch /\ SameCalls /\ [Next]_vars => SameCalls'
<1> SUFFICES ASSUME TypeOK, OpsMatch, SameCalls, [Next]_vars PROVE SameCalls'
  OBVIOUS
<1> USE SetTypes DEF Go
<1>0. /\ pc \in [Procs -> Pcs] /\ op \in [Procs -> Calls \cup Asks \cup {NoOp}]
      /\ prog \in Seq(Calls) /\ pos \in [Ranks -> Nat] /\ Len(prog) \in Nat
  BY DEF TypeOK
<1>1. ASSUME NEW p \in Ranks, NEW c \in Flips, Flip(p, c) PROVE SameCalls'
  <2>1. /\ Len(prog) <= Len(prog') /\ Len(prog') \in Nat
        /\ \A i \in 1 .. Len(prog) : prog'[i] = prog[i]
        /\ pos[p] + 1 <= Len(prog') /\ prog'[pos[p] + 1] = c
    BY <1>1, IssueProg, CallTypes DEF Flip, SameCalls
  <2>2. /\ pc[p] = "idle" /\ UNCHANGED <<pc, op>>
        /\ pos' = [pos EXCEPT ![p] = @ + 1]
    BY <1>1 DEF Flip, Issue
  <2> SUFFICES ASSUME NEW q \in Ranks
               PROVE  /\ pos'[q] <= Len(prog')
                      /\ \A i \in 1 .. pos'[q] : prog'[i] \in Flips
                      /\ pc'[q] \in WritePcs \cup {"barrier"} =>
                           /\ pos'[q] < Len(prog')
                           /\ op'[q] = prog'[pos'[q] + 1] /\ op'[q] \in Puts
    BY DEF SameCalls
  <2>0. \A i \in 1 .. pos[q] : prog'[i] \in Flips
    BY <2>1, PrefixKept
  <2>3. CASE q = p
    <3>1. pos'[q] = pos[p] + 1 /\ pos[p] \in Nat /\ pos[p] <= Len(prog)
      BY <1>0, <2>2, <2>3 DEF SameCalls
    <3>2. \A i \in 1 .. pos[p] : prog'[i] \in Flips
      BY <2>0, <2>3
    <3>3. \A i \in 1 .. pos[p] + 1 : i \in 1 .. pos[p] \/ i = pos[p] + 1
      BY <3>1
    <3>4. pc'[q] \notin WritePcs \cup {"barrier"}
      BY <2>2, <2>3 DEF WritePcs
    <3> QED BY <2>1, <3>1, <3>2, <3>3, <3>4
  <2>4. CASE q # p
    <3>1. pos'[q] = pos[q] /\ pos[q] \in Nat /\ pos[q] <= Len(prog)
      BY <1>0, <2>2, <2>4 DEF SameCalls
    <3>2. pc'[q] \in WritePcs \cup {"barrier"} =>
            pos[q] < Len(prog) /\ op'[q] = prog'[pos[q] + 1] /\ op'[q] \in Puts
      BY <2>1, <2>2, PrefixKept
    <3> QED BY <2>0, <2>1, <3>1, <3>2
  <2> QED BY <2>3, <2>4
<1>2. ASSUME NEW p \in Ranks, NEW c \in Puts, StartPut(p, c) PROVE SameCalls'
  <2>1. /\ Len(prog) <= Len(prog') /\ Len(prog') \in Nat
        /\ \A i \in 1 .. Len(prog) : prog'[i] = prog[i]
        /\ pos[p] + 1 <= Len(prog') /\ prog'[pos[p] + 1] = c
    BY <1>2, IssueProg, CallTypes DEF StartPut, SameCalls
  <2>2. /\ pos' = pos /\ op' = [op EXCEPT ![p] = c]
        /\ \A q \in Procs : q # p => pc'[q] = pc[q]
    BY <1>0, <1>2 DEF StartPut
  <2>3. \A q \in Ranks : pos[q] \in Nat /\ pos[q] <= Len(prog)
    BY <1>0 DEF SameCalls
  <2>4. \A q \in Ranks : q # p => op'[q] = op[q]
    BY <1>0, <2>2
  <2>5. op'[p] = c
    BY <1>0, <2>2
  <2>6. \A q \in Ranks : \A i \in 1 .. pos'[q] : prog'[i] \in Flips
    BY <2>1, <2>2, PrefixKept
  <2>7. \A q \in Ranks : q # p /\ pc'[q] \in WritePcs \cup {"barrier"} =>
          pos'[q] < Len(prog') /\ op'[q] = prog'[pos'[q] + 1] /\ op'[q] \in Puts
    BY <1>0, <2>1, <2>2, <2>3, <2>4, PrefixKept
  <2>8. pos'[p] < Len(prog') /\ op'[p] = prog'[pos'[p] + 1] /\ op'[p] \in Puts
    BY <1>0, <2>1, <2>2, <2>3, <2>5
  <2>9. \A q \in Ranks : pos'[q] <= Len(prog')
    BY <1>0, <2>1, <2>2, <2>3
  <2> QED BY <2>6, <2>7, <2>8, <2>9 DEF SameCalls
<1>3. CASE RootPut
  <2>1. UNCHANGED <<prog, pos, op>> /\ pc[Root] \in WritePcs
        /\ \A q \in Procs : q # Root => pc'[q] = pc[q]
    BY <1>3, RootFrame DEF callVars
  <2> QED BY <2>1 DEF SameCalls
<1>4. CASE Barrier
  <2>1. prog' = <<>> /\ pos' = [q \in Ranks |-> 0] /\ \A q \in Ranks : pc'[q] = "idle"
    BY <1>4 DEF Barrier
  <2> QED BY <2>1 DEF SameCalls, WritePcs
<1>5. ASSUME NEW p \in Procs, ReadStep(p) \/ \E ask \in Asks : BeginRead(p, ask)
      PROVE  SameCalls'
  <2>1. UNCHANGED <<prog, pos>>
    BY <1>5, ReadFrame DEF callVars
  <2>2. \A q \in Procs :
          pc'[q] \in WritePcs \cup {"barrier"} => pc'[q] = pc[q] /\ op'[q] = op[q]
    <3>1. \A x \in WritePcs \cup {"barrier"} : x \notin ReadPcs \cup {"idle"}
      BY DEF WritePcs, ReadPcs
    <3> QED BY <1>5, <3>1, ReadFrame
  <2> QED BY <2>1, <2>2 DEF SameCalls
<1>6. CASE UNCHANGED vars
  BY <1>6 DEF vars, callVars, SameCalls
<1> QED BY <1>1, <1>2, <1>3, <1>4, <1>5, <1>6 DEF Next, Step

-----------------------------------------------------------------------------
(* What the root rank has done of its call, and the names the ranks know. *)

\* ctrlParamAdd puts its name into the table before the ranks return.
LEMMA PutStep ==
  TypeOK /\ NamesUnique /\ OpsMatch /\ SameCalls /\ PutDone /\ [Next]_vars => PutDone'
<1> SUFFICES ASSUME TypeOK, NamesUnique, OpsMatch, SameCalls, PutDone, [Next]_vars
             PROVE PutDone'
  OBVIOUS
<1> USE SetTypes DEF Go, Abort
<1> USE DEF rootVars, cacheVars, lockVars, callVars, readVars
<1>0. /\ pc \in [Procs -> Pcs] /\ op \in [Procs -> Calls \cup Asks \cup {NoOp}]
      /\ cnt \in Nat /\ mem \in [Win -> [Slots -> Cells]]
      /\ known \in [Procs -> SUBSET (Names \cup {NoName})] /\ MaxParam \in Nat
  BY ParamAssumption DEF TypeOK
<1>1. ASSUME NEW p \in Ranks, NEW c \in Flips, Flip(p, c) PROVE PutDone'
  BY <1>1 DEF Flip, PutDone, Named, Used, Pending
<1>2. ASSUME NEW p \in Ranks, NEW c \in Puts, StartPut(p, c) PROVE PutDone'
  <2>1. /\ pc[p] = "idle" /\ op' = [op EXCEPT ![p] = c]
        /\ pc' = [pc EXCEPT ![p] = IF p = Root THEN "exclGlob" ELSE "barrier"]
        /\ UNCHANGED <<cnt, mem, known>>
    BY <1>2 DEF StartPut, Issue
  <2>2. CASE p = Root
    BY <1>0, <2>1, <2>2 DEF PutDone, Named, Used, Pending
  <2>3. CASE p # Root
    <3>1. pc'[Root] = pc[Root] /\ op'[Root] = op[Root]
      BY <1>0, <2>1, <2>3
    <3> QED BY <2>1, <3>1 DEF PutDone, Named, Used, Pending
  <2> QED BY <2>2, <2>3
<1>3. ASSUME AcqExclGlob PROVE PutDone'
  BY <1>0, <1>3 DEF AcqExclGlob, PutDone, Named, Used, Pending
<1>4. ASSUME NEW w \in Win, AcqExclWin(w) PROVE PutDone'
  <2>1. PICK at \in {"write", "exclWin"} : pc' = [pc EXCEPT ![Root] = at]
    BY <1>4 DEF AcqExclWin
  <2>2. pc[Root] = "exclWin" /\ UNCHANGED <<cnt, mem, op, known>>
    BY <1>4 DEF AcqExclWin
  <2> QED BY <1>0, <2>1, <2>2 DEF PutDone, Used, Pending
<1>5. ASSUME WriteSet PROVE PutDone'
  <2>1. CASE Abort(Root)
    BY <2>1 DEF PutDone, Named, Used, Pending
  <2>2. ASSUME NEW i \in Found(cnt, mem, op[Root].name),
               mem' = [mem EXCEPT !["value"][i] = op[Root].val],
               pc' = [pc EXCEPT ![Root] = "release"], UNCHANGED <<cnt, op, known>>
        PROVE  PutDone'
    <3>1. op[Root].kind = "set" /\ pc[Root] = "write"
      BY <1>5 DEF WriteSet
    <3>2. Used' = Used /\ ~Pending' /\ pc'[Root] = "release"
      BY <1>0, <2>2, <3>1 DEF Used, Pending
    <3>3. mem'["name"] = mem["name"]
      BY <1>0, <2>2
    <3>4. i \in 1 .. cnt /\ mem["name"][i] = op[Root].name
      BY <2>2 DEF Found
    <3> QED BY <2>2, <3>1, <3>2, <3>3, <3>4 DEF PutDone, Named
  <2> QED BY <1>5, <2>1, <2>2 DEF WriteSet
<1>6. ASSUME WriteAdd PROVE PutDone'
  <2>1. CASE ~Room \/ Found(cnt, mem, op[Root].name) # {}
    BY <1>6, <2>1 DEF WriteAdd, PutDone, Named, Used, Pending
  <2>2. CASE Room /\ Found(cnt, mem, op[Root].name) = {}
    <3>1. /\ pc[Root] = "write" /\ op[Root].kind = "add" /\ UNCHANGED <<cnt, op, known>>
          /\ pc' = [pc EXCEPT ![Root] = IF LateCount THEN "release" ELSE "count"]
          /\ mem' = [w \in Win |-> [mem[w] EXCEPT ![cnt + 1] =
                                   IF w = "value" THEN op[Root].val ELSE op[Root].name]]
      BY <1>6, <2>2 DEF WriteAdd
    <3>2. Pending' /\ Used = cnt /\ Used' = cnt + 1 /\ pc'[Root] \in {"count", "release"}
      BY <1>0, <3>1 DEF Used, Pending
    <3>3. cnt + 1 \in Slots
      BY <1>0, <2>2 DEF Room, Slots
    <3>4. \A j \in 1 .. cnt : mem'["name"][j] = mem["name"][j]
      BY <1>0, <3>1, <3>3
    <3>5. mem'["name"][cnt + 1] = op[Root].name
      BY <1>0, <3>1, <3>3
    <3>6. \A j \in 1 .. cnt + 1 : j \in 1 .. cnt \/ j = cnt + 1
      BY <1>0
    <3>7. \A j \in 1 .. cnt : mem["name"][j] \in known[Root]
      BY <3>1, <3>2 DEF PutDone
    <3> QED BY <3>1, <3>2, <3>4, <3>5, <3>6, <3>7 DEF PutDone
  <2> QED BY <2>1, <2>2
<1>7. ASSUME Count PROVE PutDone'
  <2>1. /\ pc[Root] = "count" /\ pc' = [pc EXCEPT ![Root] = "release"]
        /\ cnt' = cnt + 1 /\ UNCHANGED <<mem, op, known>>
    BY <1>7 DEF Count
  <2>2. Pending /\ ~Pending' /\ Used' = Used /\ pc'[Root] = "release"
    BY <1>0, <2>1 DEF NamesUnique, Used, Pending
  <2>3. cnt + 1 \in 1 .. cnt + 1
    BY <1>0
  <2> QED BY <2>1, <2>2, <2>3 DEF PutDone, Named
<1>8. ASSUME Release PROVE PutDone'
  <2>1. /\ pc[Root] = "release" /\ UNCHANGED <<cnt, mem, op, known>>
        /\ pc' = [pc EXCEPT ![Root] =
                    IF LateCount /\ op[Root].kind = "add" THEN "lateCount" ELSE "barrier"]
    BY <1>8 DEF Release
  <2>2. (Pending' <=> Pending) /\ Used' = Used /\ pc'[Root] \in {"lateCount", "barrier"}
    BY <1>0, <2>1 DEF Used, Pending
  <2> QED BY <2>1, <2>2 DEF PutDone, Named
<1>9. ASSUME LateCountStore PROVE PutDone'
  <2>1. /\ pc[Root] = "lateCount" /\ pc' = [pc EXCEPT ![Root] = "barrier"]
        /\ cnt' = cnt + 1 /\ UNCHANGED <<mem, op, known>>
    BY <1>9 DEF LateCountStore
  <2>2. Pending /\ ~Pending' /\ Used' = Used /\ pc'[Root] = "barrier"
    BY <1>0, <2>1 DEF Used, Pending
  <2>3. cnt + 1 \in 1 .. cnt + 1
    BY <1>0
  <2> QED BY <2>1, <2>2, <2>3 DEF PutDone, Named
<1>10. ASSUME Barrier PROVE PutDone'
  <2>1. /\ pc[Root] = "barrier" /\ pc'[Root] = "idle" /\ UNCHANGED <<cnt, mem>>
        /\ known'[Root] = known[Root] \cup {op[Root].name}
    BY <1>10 DEF Barrier
  <2>2. ~Pending /\ ~Pending' /\ Used' = Used
    BY <2>1 DEF Used, Pending
  <2> QED BY <2>1, <2>2 DEF PutDone
<1>11. ASSUME NEW p \in Procs, ReadStep(p) \/ \E ask \in Asks : BeginRead(p, ask)
       PROVE  PutDone'
  <2>1. UNCHANGED <<cnt, mem>> /\ (Pending' <=> Pending) /\ Used' = Used
        /\ known[Root] \subseteq known'[Root]
    BY <1>11, ReadFrame, ReadPending
  <2>2. pc[Root] \in WritePcs \cup {"barrier"} => pc'[Root] = pc[Root] /\ op'[Root] = op[Root]
    <3>1. \A x \in WritePcs \cup {"barrier"} : x \notin ReadPcs \cup {"idle"}
      BY DEF WritePcs, ReadPcs
    <3> QED BY <1>11, <3>1, ReadFrame
  <2>3. pc'[Root] \in WritePcs \cup {"barrier"} => pc'[Root] = pc[Root]
    <3>1. \A x \in WritePcs \cup {"barrier"} : x \notin ReadPcs \cup {"idle"}
      BY DEF WritePcs, ReadPcs
    <3> QED BY <1>11, <3>1, ReadFrame
  <2> QED BY <2>1, <2>2, <2>3 DEF PutDone, Pending, WritePcs, Named
<1>12. CASE UNCHANGED vars
  BY <1>12 DEF vars, PutDone, Named, Used, Pending
<1> QED
  BY <1>1, <1>2, <1>3, <1>4, <1>5, <1>6, <1>7, <1>8, <1>9, <1>10, <1>11, <1>12
  DEF Next, Step, RootPut

\* No step takes a name out of the table or moves it.
LEMMA NamesStay ==
  ASSUME TypeOK, OpsMatch, [Next]_vars
  PROVE  cnt <= cnt' /\ \A i \in 1 .. cnt : mem'["name"][i] = mem["name"][i]
<1> USE SetTypes DEF Go, Abort, rootVars, cacheVars, lockVars, callVars, readVars
<1>0. cnt \in Nat /\ mem \in [Win -> [Slots -> Cells]]
  BY ParamAssumption DEF TypeOK
<1>1. CASE UNCHANGED <<cnt, mem>>
  BY <1>0, <1>1
<1>2. CASE WriteSet
  BY <1>0, <1>2 DEF WriteSet
<1>3. CASE WriteAdd
  <2>1. CASE ~Room \/ Found(cnt, mem, op[Root].name) # {}
    BY <1>1, <1>3, <2>1 DEF WriteAdd
  <2>2. CASE Room /\ Found(cnt, mem, op[Root].name) = {}
    <3>1. /\ cnt' = cnt
          /\ mem' = [w \in Win |-> [mem[w] EXCEPT ![cnt + 1] =
                                   IF w = "value" THEN op[Root].val ELSE op[Root].name]]
      BY <1>3, <2>2 DEF WriteAdd
    <3> QED BY <1>0, <3>1
  <2> QED BY <2>1, <2>2
<1>4. CASE Count \/ LateCountStore
  BY <1>0, <1>4 DEF Count, LateCountStore
<1>5. ASSUME NEW p \in Procs, ReadStep(p) \/ \E ask \in Asks : BeginRead(p, ask)
      PROVE  UNCHANGED <<cnt, mem>>
  BY <1>5, ReadFrame
<1>6. ASSUME NEW p \in Ranks, NEW c, Flip(p, c) \/ StartPut(p, c)
      PROVE  UNCHANGED <<cnt, mem>>
  BY <1>6 DEF Flip, StartPut
<1>7. ASSUME NEW w \in Win, AcqExclWin(w) PROVE UNCHANGED <<cnt, mem>>
  BY <1>7 DEF AcqExclWin
<1>8. AcqExclGlob \/ Release \/ Barrier => UNCHANGED <<cnt, mem>>
  BY DEF AcqExclGlob, Release, Barrier
<1>9. UNCHANGED vars => UNCHANGED <<cnt, mem>>
  BY DEF vars
<1> QED BY <1>1, <1>2, <1>3, <1>4, <1>5, <1>6, <1>7, <1>8, <1>9 DEF Next, Step, RootPut

\* The ranks that wait at a barrier are in the same call.
LEMMA SameOp ==
  ASSUME TypeOK, SameCalls, \A p \in Ranks : pc[p] = "barrier", NEW p \in Ranks
  PROVE  op[p] = op[Root]
<1>1. /\ pos[p] \in Nat /\ pos[Root] \in Nat /\ Len(prog) \in Nat
      /\ pos[p] < Len(prog) /\ pos[Root] < Len(prog)
  BY SetTypes DEF TypeOK, SameCalls
<1>2. /\ op[p] = prog[pos[p] + 1] /\ op[p] \in Puts
      /\ op[Root] = prog[pos[Root] + 1] /\ op[Root] \in Puts
      /\ \A i \in 1 .. pos[p] : prog[i] \in Flips
      /\ \A i \in 1 .. pos[Root] : prog[i] \in Flips
  BY SetTypes DEF SameCalls
<1>3. \A c \in Flips : c \notin Puts
  BY OpTypes
<1>4. ~(pos[p] < pos[Root]) /\ ~(pos[Root] < pos[p])
  BY <1>1, <1>2, <1>3
<1>5. pos[p] = pos[Root]
  BY <1>1, <1>4
<1> QED BY <1>2, <1>5

\* A read learns a name only from the root rank's entries, and takes the
\* counter of all of them.
LEMMA ReadKnown ==
  ASSUME LockInv, OpsMatch, KnownThere, NEW p \in Procs, NEW q \in Procs,
         ReadStep(p) \/ \E ask \in Asks : BeginRead(p, ask)
  PROVE  \A x \in known'[q] :
           /\ Named(x, cnt)'
           /\ (q # Root /\ pc'[q] \in {"lock", "fetch", "search"} /\ op'[q].kind \in {"get", "is"})
                => Named(x, cCnt[q])'
<1> USE SetTypes DEF Go, Abort
<1> USE DEF rootVars, cacheVars, lockVars, callVars, readVars
<1>0. /\ TypeOK /\ UNCHANGED <<cnt, mem>>
      /\ pc \in [Procs -> Pcs] /\ op \in [Procs -> Calls \cup Asks \cup {NoOp}]
      /\ cCnt \in [Readers -> 0 .. MaxParam]
      /\ known \in [Procs -> SUBSET (Names \cup {NoName})]
  BY ReadFrame DEF LockInv, TypeOK
<1> DEFINE Busy(r) == r # Root /\ pc[r] \in {"lock", "fetch", "search"}
                               /\ op[r].kind \in {"get", "is"}
           Fine == \A x \in known'[q] : Named(x, cnt)' /\ (Busy(q)' => Named(x, cCnt[q])')
\* The rank keeps its counter, or is not searching.
<1>1. ASSUME known'[q] = known[q], Busy(q)' => Busy(q) /\ cCnt'[q] = cCnt[q] PROVE Fine
  BY <1>0, <1>1 DEF KnownThere, Named
\* The rank takes the counter of the table as it is.
<1>2. ASSUME known'[q] = known[q], Busy(q)' => cCnt'[q] = cnt PROVE Fine
  BY <1>0, <1>2 DEF KnownThere, Named
<1>3. ASSUME NEW ask \in Asks, BeginRead(p, ask) PROVE Fine
  BY <1>0, <1>1, <1>3 DEF BeginRead
<1>4. CASE AcqShared(p)
  BY <1>0, <1>1, <1>4 DEF AcqShared
<1>5. CASE Snapshot(p)
  <2>1. CASE p = Root \/ q # p
    <3>1. known' = known /\ op' = op /\ (q # Root => cCnt'[q] = cCnt[q])
      BY <1>0, <1>5, <2>1 DEF Snapshot
    <3>2. q # Root => pc'[q] = pc[q]
      BY <1>0, <1>5, <2>1 DEF Snapshot
    <3> QED BY <1>1, <3>1, <3>2
  <2>2. CASE p # Root /\ q = p
    <3>1. known' = known /\ cCnt' = [cCnt EXCEPT ![p] = cnt]
      BY <1>5, <2>2 DEF Snapshot
    <3> QED BY <1>0, <1>2, <2>2, <3>1
  <2> QED BY <2>1, <2>2
<1>6. CASE Backoff(p)
  BY <1>0, <1>1, <1>6 DEF Backoff
<1>7. ASSUME NEW w \in Win, LockWin(p, w) PROVE Fine
  <2>1. pc[p] = "lock" /\ UNCHANGED <<op, known, cCnt>>
        /\ \A r \in Procs : r # p => pc'[r] = pc[r]
    BY <1>0, <1>7 DEF LockWin
  <2> QED BY <1>1, <2>1
<1>8. ASSUME NEW w \in Win, Fetch(p, w) PROVE Fine
  <2>1. pc[p] = "fetch" /\ UNCHANGED <<op, known, cCnt>>
        /\ \A r \in Procs : r # p => pc'[r] = pc[r]
    BY <1>0, <1>8 DEF Fetch
  <2> QED BY <1>1, <2>1
<1>9. CASE Relist(p)
  <2>1. known' = known /\ op' = op /\ cCnt' = [cCnt EXCEPT ![p] = cnt] /\ pc[p] = "relist"
        /\ pc' = [pc EXCEPT ![p] = IF flag = 1 THEN "rebackoff" ELSE "search"]
    BY <1>9 DEF Relist
  <2>2. CASE q = p
    BY <1>0, <1>2, <2>1, <2>2
  <2>3. CASE q # p
    BY <1>0, <1>1, <2>1, <2>3
  <2> QED BY <2>2, <2>3
<1>10. CASE Search(p)
  <2>1. CASE Abort(p)
    BY <1>1, <2>1
  <2>2. CASE ~Abort(p) /\ q # p
    <3>1. pc'[q] = pc[q] /\ op'[q] = op[q] /\ known'[q] = known[q] /\ cCnt' = cCnt
      BY <1>0, <1>10, <2>2 DEF Search
    <3> QED BY <1>1, <3>1
  <2>3. CASE ~Abort(p) /\ q = p
    <3> DEFINE found == Found(CntAt(p), MemAt(p), op[p].name)
    <3>1. /\ pc'[p] = "idle" /\ pc[p] = "search"
          /\ known'[p] = IF op[p].kind \in {"get", "is"} /\ found # {}
                         THEN known[p] \cup {op[p].name} ELSE known[p]
      BY <1>0, <1>10, <2>3 DEF Search
    <3>2. ASSUME op[p].kind \in {"get", "is"}, found # {} PROVE Named(op[p].name, cnt)
      <4>1. PICK i \in 1 .. CntAt(p) : MemAt(p)["name"][i] = op[p].name
        BY <3>2 DEF Found
      <4>2. CASE p = Root
        BY <4>1, <4>2 DEF CntAt, MemAt, Named
      <4>3. CASE p # Root
        <5>1. cCnt[p] <= cnt /\ Fetched(p, "name")
          BY <3>1, <3>2, <4>3 DEF LockInv, FetchedSame
        <5>2. cCnt[p] \in Nat /\ cnt \in Nat
          BY <1>0, <4>3, ParamAssumption DEF TypeOK
        <5> QED BY <4>1, <4>3, <5>1, <5>2 DEF CntAt, MemAt, Named, Fetched
      <4> QED BY <4>2, <4>3
    <3>3. \A x \in known'[p] : Named(x, cnt)
      BY <3>1, <3>2 DEF KnownThere
    <3> QED BY <1>0, <2>3, <3>1, <3>3 DEF Named
  <2> QED BY <2>1, <2>2, <2>3
<1> QED
  BY <1>3, <1>4, <1>5, <1>6, <1>7, <1>8, <1>9, <1>10 DEF ReadStep

\* What a rank was told of stays true, and every table it fetches has it.
LEMMA KnownStep ==
  LockInv /\ OpsMatch /\ SameCalls /\ PutDone /\ KnownThere /\ [Next]_vars => KnownThere'
<1> SUFFICES ASSUME LockInv, OpsMatch, SameCalls, PutDone, KnownThere, [Next]_vars
             PROVE KnownThere'
  OBVIOUS
<1> USE SetTypes DEF Go, Abort
<1>0. /\ pc \in [Procs -> Pcs] /\ op \in [Procs -> Calls \cup Asks \cup {NoOp}]
      /\ cnt \in Nat /\ cCnt \in [Readers -> Nat] /\ TypeOK
      /\ known \in [Procs -> SUBSET (Names \cup {NoName})]
      /\ \A q \in Readers : cCnt[q] <= cnt
  BY ParamAssumption DEF LockInv, TypeOK, FetchedSame
<1> DEFINE Busy(q) == q # Root /\ pc[q] \in {"lock", "fetch", "search"}
                               /\ op[q].kind \in {"get", "is"}
           Same(q) == /\ known'[q] = known[q]
                      /\ Busy(q)' => Busy(q) /\ cCnt'[q] = cCnt[q]
\* A rank that learns nothing and fetches nothing still finds what it knows.
<1>1. ASSUME NEW q \in Procs, Same(q)
      PROVE  \A x \in known'[q] : Named(x, cnt)' /\ (Busy(q)' => Named(x, cCnt[q])')
  <2>1. cnt' >= cnt /\ cnt' \in Int /\ \A i \in 1 .. cnt : mem'["name"][i] = mem["name"][i]
    <3>1. cnt' \in Nat
      BY <1>0, ParamAssumption, TypeStep DEF LockInv, TypeOK
    <3> QED BY <1>0, <3>1, NamesStay
  <2>2. ASSUME NEW x, Named(x, cnt) PROVE Named(x, cnt)'
    BY <1>0, <2>1, <2>2 DEF Named
  <2>3. ASSUME NEW x, Busy(q)', Named(x, cCnt[q]) PROVE Named(x, cCnt[q])'
    <3>1. q \in Readers /\ cCnt'[q] = cCnt[q] /\ cCnt[q] \in Nat /\ cCnt[q] <= cnt
      BY <1>0, <1>1, <2>3
    <3> QED BY <1>0, <2>1, <2>3, <3>1 DEF Named
  <2> QED BY <1>1, <2>2, <2>3 DEF KnownThere
<1>2. SUFFICES ASSUME NEW q \in Procs
               PROVE  \A x \in known'[q] : Named(x, cnt)' /\ (Busy(q)' => Named(x, cCnt[q])')
  BY <1>2 DEF KnownThere
<1> USE DEF rootVars, cacheVars, lockVars, callVars, readVars
<1>3. ASSUME NEW p \in Ranks, NEW c \in Flips, Flip(p, c)
      PROVE  Same(q)
  BY <1>3 DEF Flip
<1>4. ASSUME NEW p \in Ranks, NEW c \in Puts, StartPut(p, c)
      PROVE  Same(q)
  BY <1>0, <1>4 DEF StartPut
<1>5. CASE RootPut
  BY <1>0, <1>5, <1>1, RootFrame
<1>6. CASE Barrier
  <2>1. /\ UNCHANGED <<cnt, mem>> /\ \A r \in Ranks : pc[r] = "barrier"
        /\ known' = [r \in Procs |-> IF r \in Ranks THEN known[r] \cup {op[r].name}
                                     ELSE known[r]]
        /\ pc' = [r \in Procs |-> IF r \in Ranks THEN "idle" ELSE pc[r]]
        /\ op' = [r \in Procs |-> IF r \in Ranks THEN NoOp ELSE op[r]]
        /\ UNCHANGED cacheVars
    BY <1>6 DEF Barrier
  <2>2. CASE q \notin Ranks
    BY <1>1, <2>1, <2>2
  <2>3. CASE q \in Ranks
    <3>1. op[q] = op[Root]
      BY <1>0, <2>1, <2>3, SameOp
    <3>2. Named(op[Root].name, cnt)
      BY <2>1 DEF PutDone, Pending
    <3>3. \A x \in known'[q] : Named(x, cnt)
      BY <2>1, <2>3, <3>1, <3>2 DEF KnownThere
    <3>4. ~Busy(q)'
      BY <2>1, <2>3
    <3> QED BY <2>1, <3>3, <3>4 DEF Named
  <2> QED BY <2>2, <2>3
<1>7. ASSUME NEW p \in Procs, ReadStep(p) \/ \E ask \in Asks : BeginRead(p, ask)
      PROVE  \A x \in known'[q] : Named(x, cnt)' /\ (Busy(q)' => Named(x, cCnt[q])')
  BY <1>0, <1>1, <1>7, ReadKnown DEF LockInv
<1>8. CASE UNCHANGED vars
  BY <1>1, <1>8 DEF vars
<1> QED BY <1>1, <1>3, <1>4, <1>5, <1>6, <1>7, <1>8 DEF Next, Step

-----------------------------------------------------------------------------
(* PDM_error ends a run for a mistake of its caller alone. *)

\* The four places that call PDM_error.
LEMMA AbortStep ==
  IInv /\ NoSpuriousAbort /\ [Next]_vars => NoSpuriousAbort'
<1> SUFFICES ASSUME IInv, NoSpuriousAbort, [Next]_vars PROVE NoSpuriousAbort'
  OBVIOUS
<1> USE SetTypes DEF Go, Abort
<1> USE DEF rootVars, cacheVars, lockVars, callVars, readVars
<1>0. /\ op \in [Procs -> Calls \cup Asks \cup {NoOp}] /\ cnt \in 0 .. MaxParam
      /\ MaxParam \in Nat
  BY ParamAssumption DEF IInv, LockInv, TypeOK
<1>1. CASE UNCHANGED vars
  BY <1>1 DEF vars, NoSpuriousAbort
<1>2. ASSUME aborted = NoProc, aborted' = NoProc PROVE NoSpuriousAbort'
  BY <1>2 DEF NoSpuriousAbort
<1>3. ASSUME WriteSet, aborted' # aborted PROVE NoSpuriousAbort'
  <2>1. /\ aborted' = Root /\ UNCHANGED <<cnt, op, known, flag>> /\ op[Root].kind = "set"
        /\ Found(cnt, mem, op[Root].name) = {}
    BY <1>3 DEF WriteSet
  <2>2. \A i \in 1 .. cnt : mem["idxName"][i] = mem["name"][i]
    BY <1>0 DEF IInv, LockInv, NamesUnique, Used
  <2>3. op[Root].name \notin known[Root]
    BY <2>1, <2>2 DEF IInv, KnownThere, Named, Found
  <2> QED BY <2>1, <2>3 DEF NoSpuriousAbort
<1>4. ASSUME WriteAdd, aborted' # aborted PROVE NoSpuriousAbort'
  <2>1. /\ aborted' = Root /\ UNCHANGED <<cnt, op, known, flag>>
        /\ op[Root].kind = "add" /\ pc[Root] = "write"
        /\ ~Room \/ Found(cnt, mem, op[Root].name) # {}
    BY <1>4 DEF WriteAdd
  <2>2. ~Room => cnt = MaxParam
    BY <1>0 DEF Room
  <2>3. Found(cnt, mem, op[Root].name) # {} => op[Root].name \in known[Root]
    BY <2>1 DEF Found, IInv, PutDone, Used, Pending
  <2> QED BY <2>1, <2>2, <2>3 DEF NoSpuriousAbort
<1>5. ASSUME NEW p \in Procs, Snapshot(p), aborted' # aborted PROVE NoSpuriousAbort'
  BY <1>5 DEF Snapshot, NoSpuriousAbort
<1>6. ASSUME NEW p \in Procs, Search(p), aborted' # aborted PROVE NoSpuriousAbort'
  <2>1. /\ aborted' = p /\ UNCHANGED <<cnt, op, known, flag>> /\ op[p].kind = "get"
        /\ Found(CntAt(p), MemAt(p), op[p].name) = {} /\ pc[p] = "search"
    BY <1>6 DEF Search
  <2>2. \A i \in 1 .. cnt : mem["idxName"][i] = mem["name"][i]
    BY <1>0 DEF IInv, LockInv, NamesUnique, Used
  <2>3. CASE p = Root
    BY <2>1, <2>2, <2>3 DEF IInv, KnownThere, Named, Found, CntAt, MemAt, NoSpuriousAbort
  <2>4. CASE p # Root
    <3>1. /\ cCnt[p] \in Nat /\ cCnt[p] <= cnt
          /\ Fetched(p, "name") /\ Fetched(p, "idxName")
      BY <2>1, <2>4, ParamAssumption DEF IInv, LockInv, TypeOK, FetchedSame
    <3>2. \A i \in 1 .. cCnt[p] : cMem[p]["name"][i] = mem["name"][i]
                                /\ cMem[p]["idxName"][i] = mem["name"][i]
      BY <1>0, <2>2, <3>1 DEF Fetched
    <3>3. ~Named(op[p].name, cCnt[p])
      BY <2>1, <2>4, <3>2 DEF Named, Found, CntAt, MemAt
    <3>4. op[p].name \notin known[p]
      BY <2>1, <2>4, <3>3 DEF IInv, KnownThere
    <3> QED BY <2>1, <3>4 DEF NoSpuriousAbort
  <2> QED BY <2>3, <2>4
<1>7. ASSUME NEW p \in Procs, ReadStep(p), ~Snapshot(p), ~Search(p) PROVE aborted' = aborted
  BY <1>7 DEF ReadStep, AcqShared, Backoff, LockWin, Fetch, Relist
<1>8. ASSUME RootPut, ~WriteSet, ~WriteAdd PROVE aborted' = aborted
  BY <1>8 DEF RootPut, AcqExclGlob, AcqExclWin, Count, Release, LateCountStore
<1>9. ASSUME NEW p, NEW c, Flip(p, c) \/ StartPut(p, c) \/ BeginRead(p, c) \/ Barrier
      PROVE  aborted' = aborted
  BY <1>9 DEF Flip, StartPut, BeginRead, Barrier
<1>10. aborted = NoProc \/ UNCHANGED vars
  BY DEF Next
<1> QED
  BY <1>1, <1>2, <1>3, <1>4, <1>5, <1>6, <1>7, <1>8, <1>9, <1>10 DEF Next, Step

\* The empty table, before any call.
LEMMA InitIInv == Init => IInv /\ NoSpuriousAbort
<1> SUFFICES ASSUME Init PROVE IInv /\ NoSpuriousAbort
  OBVIOUS
<1> USE SetTypes DEF Init
<1>1. LockInv
  BY InitInv
<1>2. ~Pending /\ Used = 0
  BY DEF Pending, Used
<1>3. OpsMatch
  BY DEF OpsMatch, ReadPcs, WritePcs
<1>4. EntriesReal
  BY <1>2 DEF EntriesReal
<1>5. SameCalls
  BY DEF SameCalls, WritePcs
<1>6. KnownThere
  BY DEF KnownThere
<1>7. PutDone
  BY <1>2 DEF PutDone
<1>8. NoSpuriousAbort
  BY DEF NoSpuriousAbort
<1> QED BY <1>1, <1>3, <1>4, <1>5, <1>6, <1>7, <1>8 DEF IInv

\* The windows, the locks, the calls in progress and the names the ranks know,
\* for every number of ranks, names, values and cells.
THEOREM CallInvariance == Spec => []IInv
<1>1. IInv /\ [Next]_vars => IInv'
  <2> SUFFICES ASSUME IInv, [Next]_vars PROVE IInv'
    OBVIOUS
  <2>1. LockInv'
    BY TypeStep, NamesStep, LocksStep, OrderStep, FetchedStep DEF IInv, LockInv
  <2>2. OpsMatch' /\ EntriesReal' /\ SameCalls'
    BY OpsStep, EntriesStep, CallsStep DEF IInv, LockInv
  <2>3. PutDone' /\ KnownThere'
    BY PutStep, KnownStep DEF IInv, LockInv
  <2> QED BY <2>1, <2>2, <2>3 DEF IInv
<1>2. Init => IInv
  BY InitIInv
<1> QED BY <1>1, <1>2, PTL DEF Spec

\* PDM_error never ends a run because a rank runs ahead of the root rank: who
\* was told of a name finds it, and only a full table or a name it knows makes
\* an addition fail.
THEOREM AbortsJustified == Spec => []NoSpuriousAbort
<1>1. IInv /\ NoSpuriousAbort /\ [Next]_vars => NoSpuriousAbort'
  BY AbortStep
<1>2. Init => NoSpuriousAbort
  BY InitIInv
<1> QED BY <1>1, <1>2, CallInvariance, PTL DEF Spec

\* Without CWP_Param_del an entry keeps its cell for ever: what a reader has
\* fetched of the names cannot be overtaken by a later addition.
THEOREM NamesKeepCells ==
  Spec => [][cnt <= cnt' /\ \A i \in 1 .. cnt : mem'["name"][i] = mem["name"][i]]_vars
<1>1. IInv /\ [Next]_vars =>
        [cnt <= cnt' /\ \A i \in 1 .. cnt : mem'["name"][i] = mem["name"][i]]_vars
  BY NamesStay DEF IInv, LockInv
<1> QED BY <1>1, CallInvariance, PTL DEF Spec

-----------------------------------------------------------------------------
(* ParamWin implements ParamTable: the table that the counted cells hold. *)

\* The table depends on the counted cells only.
LEMMA ViewSame ==
  ASSUME NEW n, NEW m, NEW k,
         \A w \in Win : \A i \in 1 .. n : k[w][i] = m[w][i]
  PROVE  View(n, k) = View(n, m)
<1>1. \A x : Found(n, k, x) = Found(n, m, x)
  BY SetTypes DEF Found
<1>2. ASSUME NEW x PROVE ValueOf(n, k, x) = ValueOf(n, m, x)
  <2>1. CASE Found(n, m, x) = {}
    BY <1>1, <2>1 DEF ValueOf
  <2>2. CASE Found(n, m, x) # {}
    <3> DEFINE i == CHOOSE j \in Found(n, m, x) : TRUE
    <3>1. i \in 1 .. n
      BY <2>2 DEF Found
    <3>2. k["value"][i] = m["value"][i]
      BY <3>1, SetTypes
    <3> QED BY <1>1, <2>2, <3>2 DEF ValueOf
  <2> QED BY <2>1, <2>2
<1> QED BY <1>2 DEF View

\* The first n cells hold n entries with names of their own.
Proper(n, m) ==
  /\ \A i \in 1 .. n : /\ m["idxName"][i] = m["name"][i]
                       /\ m["name"][i] \in Names /\ m["value"][i] \in Vals
  /\ \A i, j \in 1 .. n : m["name"][i] = m["name"][j] => i = j

\* A search that finds an entry finds the only one.
LEMMA ViewAt ==
  ASSUME NEW n, NEW m, Proper(n, m)
  PROVE  /\ \A i \in 1 .. n : View(n, m)[m["name"][i]] = m["value"][i]
         /\ \A x \in Names : (\A i \in 1 .. n : m["name"][i] # x) => View(n, m)[x] = NoVal
<1>1. ASSUME NEW i \in 1 .. n PROVE View(n, m)[m["name"][i]] = m["value"][i]
  <2> DEFINE x == m["name"][i]
  <2>1. Found(n, m, x) = {i}
    BY <1>1 DEF Proper, Found
  <2>2. ValueOf(n, m, x) = m["value"][i]
    BY <2>1 DEF ValueOf
  <2>3. x \in Names
    BY <1>1 DEF Proper
  <2> QED BY <2>2, <2>3 DEF View
<1>2. ASSUME NEW x \in Names, \A i \in 1 .. n : m["name"][i] # x
      PROVE  View(n, m)[x] = NoVal
  <2>1. Found(n, m, x) = {}
    BY <1>2 DEF Found
  <2> QED BY <2>1 DEF View, ValueOf
<1> QED BY <1>1, <1>2

\* The entries of the table are the names of its cells, and the counter counts them.
LEMMA ViewCounts ==
  ASSUME NEW n \in Nat, NEW m, Proper(n, m)
  PROVE  /\ Abs!Present(View(n, m)) = {m["name"][i] : i \in 1 .. n}
         /\ Cardinality(Abs!Present(View(n, m))) = n
<1> DEFINE P == {m["name"][i] : i \in 1 .. n}
           f == [i \in 1 .. n |-> m["name"][i]]
<1>1. Abs!Present(View(n, m)) = P
  <2>1. DOMAIN View(n, m) = Names
    BY DEF View
  <2>2. ASSUME NEW i \in 1 .. n PROVE m["name"][i] \in Names /\ View(n, m)[m["name"][i]] # NoVal
    BY <2>2, ViewAt, ParamAssumption DEF Proper
  <2>3. ASSUME NEW x \in Names, View(n, m)[x] # NoVal PROVE x \in P
    BY <2>3, ViewAt
  <2> QED BY <2>1, <2>2, <2>3 DEF Abs!Present
<1>2. f \in Bijection(1 .. n, P)
  <2>1. f \in [1 .. n -> P]
    OBVIOUS
  <2>2. \A i, j \in 1 .. n : f[i] = f[j] => i = j
    BY DEF Proper
  <2>3. \A x \in P : \E i \in 1 .. n : f[i] = x
    OBVIOUS
  <2> QED BY <2>1, <2>2, <2>3 DEF Bijection, Injection, Surjection, IsInjective
<1>3. Cardinality(P) = n
  BY <1>2, FS_CountingElements DEF ExistsBijection
<1> QED BY <1>1, <1>3

\* The counted cells are proper entries.
LEMMA InvProper == IInv => Proper(Used, mem) /\ Proper(cnt, mem)
<1> SUFFICES ASSUME IInv PROVE Proper(Used, mem) /\ Proper(cnt, mem)
  OBVIOUS
<1>1. cnt \in Nat
  BY ParamAssumption DEF IInv, LockInv, TypeOK
<1>2. Proper(Used, mem)
  BY DEF IInv, LockInv, NamesUnique, EntriesReal, Proper
<1>3. 1 .. cnt \subseteq 1 .. Used
  BY <1>1 DEF Used
<1> QED BY <1>2, <1>3 DEF Proper

\* A reader that holds a table keeps it when neither its cells nor its counter change.
LEMMA TakenKept ==
  ASSUME \A q \in Procs : /\ Holding(q)' <=> Holding(q)
                          /\ Holding(q) => View(CntAt(q), mem)' = View(CntAt(q), mem)
  PROVE  Taken' = Taken
  BY DEF Taken

\* No reader holds a table while the root rank has winGlob, nor does the root
\* rank inside its own call.
LEMMA NoneHolds ==
  ASSUME LockInv, pc[Root] \in {"exclWin", "write", "count", "release"}, NEW q \in Procs
  PROVE  ~Holding(q)
  BY SetTypes DEF LockInv, LocksExclude, Holding

Stutter == UNCHANGED <<View(cnt, mem), flag, Taken, answer>>

\* Steps that change nothing the abstract parameters show are stutters of them.
LEMMA Stutters == Stutter => [Abs!AbsNext]_(Abs!absVars)
  BY DEF Stutter, Abs!absVars

\* A call of the code's ranks: the flag opens and closes the table, the store
\* of a value or of the counter puts one entry, and nothing else shows.
LEMMA CallRefines ==
  ASSUME IInv,
         \/ \E p \in Ranks, c \in Flips : Flip(p, c)
         \/ \E p \in Ranks, c \in Puts : StartPut(p, c)
         \/ RootPut
         \/ Barrier
  PROVE  [Abs!AbsNext]_(Abs!absVars)
<1> USE SetTypes DEF Go, Abort
<1> USE DEF rootVars, cacheVars, lockVars, callVars, readVars
<1>0. /\ pc \in [Procs -> Pcs] /\ op \in [Procs -> Calls \cup Asks \cup {NoOp}]
      /\ cnt \in Nat /\ cnt <= MaxParam /\ mem \in [Win -> [Slots -> Cells]]
      /\ TypeOK /\ LockInv
  <2>1. TypeOK /\ LockInv
    BY DEF IInv, LockInv
  <2> QED BY <2>1, ParamAssumption DEF TypeOK
<1>1. ASSUME NEW p \in Ranks, NEW c \in Flips, Flip(p, c)
      PROVE  [Abs!AbsNext]_(Abs!absVars)
  <2>1. UNCHANGED <<pc, cnt, mem, cCnt, answer>>
    BY <1>1 DEF Flip
  <2>2. View(cnt, mem)' = View(cnt, mem) /\ Taken' = Taken
    BY <2>1, TakenKept DEF Holding, CntAt
  <2>3. flag' \in {0, 1, flag}
    BY <1>1 DEF Flip
  <2>4. CASE flag' = 1
    BY <2>1, <2>2, <2>4 DEF Abs!AbsNext, Abs!Close
  <2>5. CASE flag' = 0
    BY <2>1, <2>2, <2>5 DEF Abs!AbsNext, Abs!Open
  <2>6. CASE flag' = flag
    BY <2>1, <2>2, <2>6, Stutters DEF Stutter
  <2> QED BY <2>3, <2>4, <2>5, <2>6
<1>2. ASSUME NEW p \in Ranks, NEW c \in Puts, StartPut(p, c)
      PROVE  Stutter
  <2>1. /\ UNCHANGED <<flag, cnt, mem, cCnt, answer>> /\ pc[p] = "idle"
        /\ pc' = [pc EXCEPT ![p] = IF p = Root THEN "exclGlob" ELSE "barrier"]
    BY <1>2 DEF StartPut, Issue
  <2>2. \A q \in Procs : Holding(q)' <=> Holding(q)
    BY <1>0, <2>1 DEF Holding
  <2> QED BY <2>1, <2>2, TakenKept DEF Stutter, CntAt
<1>3. ASSUME AcqExclGlob \/ (\E w \in Win : AcqExclWin(w)) \/ Release
      PROVE  Stutter
  <2>1. /\ UNCHANGED <<flag, cnt, mem, cCnt, answer>>
        /\ \A q \in Procs : q # Root => pc'[q] = pc[q]
        /\ pc[Root] # "search" /\ pc'[Root] # "search"
    <3>1. RootPut
      BY <1>3 DEF RootPut
    <3>2. UNCHANGED <<flag, cnt, mem, cCnt, answer>>
      BY <1>3 DEF AcqExclGlob, AcqExclWin, Release
    <3> QED BY <1>0, <3>1, <3>2, RootFrame DEF WritePcs
  <2>2. \A q \in Procs : Holding(q)' <=> Holding(q)
    BY <2>1 DEF Holding
  <2> QED BY <2>1, <2>2, TakenKept DEF Stutter, CntAt
<1>4. CASE Barrier
  <2>1. /\ UNCHANGED <<flag, cnt, mem, cCnt, answer>>
        /\ \A q \in Procs : pc'[q] = pc[q] \/ (pc[q] = "barrier" /\ pc'[q] = "idle")
    BY <1>0, <1>4 DEF Barrier
  <2>2. \A q \in Procs : Holding(q)' <=> Holding(q)
    BY <2>1 DEF Holding
  <2>3. Stutter
    BY <2>1, <2>2, TakenKept DEF Stutter, CntAt
  <2> QED BY <2>3, Stutters
\* The three steps that write the arrays or the counter.
<1>5. ASSUME WriteSet \/ WriteAdd \/ Count \/ LateCountStore, ~(\E q \in Procs : Holding(q))
      PROVE  Taken' = Taken
  <2>1. /\ \A q \in Procs : q # Root => pc'[q] = pc[q]
        /\ pc'[Root] # "search"
    <3>1. RootPut
      BY <1>5 DEF RootPut
    <3> QED BY <1>0, <3>1, RootFrame DEF WritePcs
  <2>2. \A q \in Procs : ~Holding(q)'
    BY <1>5, <2>1 DEF Holding
  <2> QED BY <1>5, <2>2, TakenKept
<1>6. CASE WriteSet
  <2>1. CASE Abort(Root)
    <3>1. UNCHANGED <<flag, cnt, mem, cCnt, pc, answer>>
      BY <2>1
    <3> QED BY <3>1, TakenKept, Stutters DEF Stutter, Holding, CntAt
  <2>2. ASSUME NEW i \in Found(cnt, mem, op[Root].name),
               mem' = [mem EXCEPT !["value"][i] = op[Root].val],
               UNCHANGED <<flag, cnt, op, answer>>
        PROVE  [Abs!AbsNext]_(Abs!absVars)
    <3> DEFINE x == op[Root].name
               v == op[Root].val
    <3>1. pc[Root] = "write" /\ op[Root].kind = "set"
      BY <1>6 DEF WriteSet
    <3>2. x \in Names /\ v \in Vals
      BY <1>0, <3>1, OpTypes
    <3>3. Taken' = Taken
      BY <1>0, <1>5, <1>6, <3>1, NoneHolds
    <3>4. i \in 1 .. cnt /\ mem["name"][i] = x /\ i \in Slots
      BY <1>0, <2>2, ParamAssumption DEF Found, Slots
    <3>5. /\ \A j \in 1 .. cnt : mem'["name"][j] = mem["name"][j]
          /\ \A j \in 1 .. cnt : mem'["idxName"][j] = mem["idxName"][j]
          /\ \A j \in 1 .. cnt : mem'["value"][j] = IF j = i THEN v ELSE mem["value"][j]
      <4>1. 1 .. cnt \subseteq Slots
        BY <1>0, ParamAssumption DEF Slots
      <4> QED BY <1>0, <2>2, <3>4, <4>1
    <3>6. Proper(cnt, mem) /\ Proper(cnt, mem')
      <4>1. Proper(cnt, mem)
        BY InvProper
      <4> QED BY <3>2, <3>5, <4>1 DEF Proper
    <3>7. ASSUME NEW y \in Names
          PROVE  View(cnt, mem')[y] = IF y = x THEN v ELSE View(cnt, mem)[y]
      <4>1. ASSUME NEW j \in 1 .. cnt, mem["name"][j] = y
            PROVE  View(cnt, mem')[y] = IF y = x THEN v ELSE View(cnt, mem)[y]
        <5>1. View(cnt, mem')[y] = mem'["value"][j]
          BY <3>5, <3>6, <4>1, ViewAt
        <5>2. View(cnt, mem)[y] = mem["value"][j]
          BY <3>6, <4>1, ViewAt
        <5>3. (j = i) <=> (y = x)
          BY <3>4, <3>6, <4>1 DEF Proper
        <5> QED BY <3>5, <5>1, <5>2, <5>3
      <4>2. ASSUME \A j \in 1 .. cnt : mem["name"][j] # y
            PROVE  View(cnt, mem')[y] = IF y = x THEN v ELSE View(cnt, mem)[y]
        BY <3>4, <3>5, <3>6, <4>2, ViewAt
      <4> QED BY <4>1, <4>2
    <3>8. View(cnt, mem') = [View(cnt, mem) EXCEPT ![x] = v]
      BY <3>7 DEF View
    <3>9. View(cnt, mem)' = [View(cnt, mem) EXCEPT ![x] = v]
      BY <2>2, <3>8
    <3>10. Abs!Put(x, v)
      BY <2>2, <3>3, <3>9 DEF Abs!Put
    <3> QED BY <3>2, <3>10 DEF Abs!AbsNext
  <2> QED BY <1>6, <2>1, <2>2 DEF WriteSet
<1>7. CASE WriteAdd
  <2>1. CASE Abort(Root)
    <3>1. UNCHANGED <<flag, cnt, mem, cCnt, pc, answer>>
      BY <2>1
    <3> QED BY <3>1, TakenKept, Stutters DEF Stutter, Holding, CntAt
  <2>2. CASE ~Abort(Root)
    <3>1. /\ pc[Root] = "write" /\ UNCHANGED <<flag, cnt, answer>>
          /\ mem' = [w \in Win |-> [mem[w] EXCEPT ![cnt + 1] =
                                   IF w = "value" THEN op[Root].val ELSE op[Root].name]]
      BY <1>7, <2>2 DEF WriteAdd
    <3>2. Taken' = Taken
      BY <1>0, <1>5, <1>7, <3>1, NoneHolds
    <3>3. \A w \in Win : \A i \in 1 .. cnt : mem'[w][i] = mem[w][i]
      BY <1>0, <3>1
    <3>4. View(cnt, mem') = View(cnt, mem)
      BY <3>3, ViewSame
    <3>5. Stutter
      BY <3>1, <3>2, <3>4 DEF Stutter
    <3> QED BY <3>5, Stutters
  <2> QED BY <2>1, <2>2
<1>8. CASE Count \/ LateCountStore
  <2> DEFINE x == mem["name"][cnt + 1]
             v == mem["value"][cnt + 1]
  <2>1. /\ pc[Root] \in {"count", "lateCount"} /\ cnt' = cnt + 1
        /\ UNCHANGED <<flag, mem, cCnt, answer>>
    BY <1>8 DEF Count, LateCountStore
  <2>2. Used = cnt + 1
    BY <2>1 DEF Used, Pending
  <2>3. Proper(cnt, mem) /\ Proper(cnt + 1, mem)
    BY <2>2, InvProper
  <2>4. cnt + 1 \in 1 .. cnt + 1 /\ \A i \in 1 .. cnt + 1 : i \in 1 .. cnt \/ i = cnt + 1
    BY <1>0
  <2>5. x \in Names /\ v \in Vals
    BY <2>3, <2>4 DEF Proper
  <2>6. Taken' = Taken
    <3>1. /\ \A q \in Procs : q # Root => pc'[q] = pc[q]
          /\ pc[Root] # "search" /\ pc'[Root] # "search"
      <4>1. RootPut
        BY <1>8 DEF RootPut
      <4> QED BY <1>0, <4>1, RootFrame DEF WritePcs
    <3>2. \A q \in Procs : Holding(q)' <=> Holding(q)
      BY <3>1 DEF Holding
    <3>3. \A q \in Procs : Holding(q) => q # Root
      BY <3>1 DEF Holding
    <3> QED BY <2>1, <3>2, <3>3, TakenKept DEF CntAt
  <2>7. ASSUME NEW y \in Names
        PROVE  View(cnt + 1, mem)[y] = IF y = x THEN v ELSE View(cnt, mem)[y]
    <3>1. CASE y = x
      BY <2>3, <2>4, <3>1, ViewAt
    <3>2. ASSUME NEW j \in 1 .. cnt, mem["name"][j] = y, y # x
          PROVE  View(cnt + 1, mem)[y] = View(cnt, mem)[y]
      <4>1. j \in 1 .. cnt + 1
        BY <1>0
      <4> QED BY <2>3, <3>2, <4>1, ViewAt
    <3>3. ASSUME \A j \in 1 .. cnt : mem["name"][j] # y, y # x
          PROVE  View(cnt + 1, mem)[y] = View(cnt, mem)[y]
      <4>1. \A j \in 1 .. cnt + 1 : mem["name"][j] # y
        BY <2>4, <3>3
      <4> QED BY <2>3, <3>3, <4>1, ViewAt
    <3> QED BY <3>1, <3>2, <3>3
  <2>8. View(cnt, mem)' = [View(cnt, mem) EXCEPT ![x] = v]
    <3>1. View(cnt + 1, mem) = [View(cnt, mem) EXCEPT ![x] = v]
      BY <2>7 DEF View
    <3> QED BY <2>1, <3>1
  <2>9. Abs!Put(x, v)
    BY <2>1, <2>6, <2>8 DEF Abs!Put
  <2> QED BY <2>5, <2>9 DEF Abs!AbsNext
<1> QED
  BY <1>1, <1>2, <1>3, <1>4, <1>6, <1>7, <1>8, Stutters DEF RootPut

\* What ctrlParamGet, ctrlParamIs and ctrlParamNGet return is what the table
\* they hold answers.
LEMMA AnswerRefines ==
  ASSUME IInv, ReadKinds \subseteq {"get", "is", "nget"},
         NEW p \in Procs, pc[p] = "search", Search(p), ~Abort(p)
  PROVE  \E ask \in Abs!Asks :
           answer' = [answer EXCEPT ![p] = Abs!AnswerOf(ask, View(CntAt(p), mem))]
<1> USE SetTypes
<1> DEFINE o == op[p]
           t == View(CntAt(p), mem)
           ask == [kind |-> o.kind, name |-> o.name]
           found == Found(CntAt(p), MemAt(p), o.name)
<1>1. o \in Asks /\ o.kind \in {"get", "is", "nget"} /\ o.name \in Names
  <2>1. o \in Asks
    BY DEF IInv, OpsMatch, ReadPcs
  <2> QED BY <2>1 DEF Asks
<1>2. CntAt(p) \in 0 .. cnt /\ cnt \in Nat
  BY ParamAssumption DEF IInv, LockInv, TypeOK, FetchedSame, CntAt
<1>3. Proper(CntAt(p), mem)
  <2>1. Proper(cnt, mem)
    BY InvProper
  <2>2. 1 .. CntAt(p) \subseteq 1 .. cnt
    BY <1>2
  <2> QED BY <2>1, <2>2 DEF Proper
\* What the rank fetched is what the root rank has.
<1>4. o.kind \in {"get", "is"} =>
        /\ \A i \in 1 .. CntAt(p) : /\ MemAt(p)["idxName"][i] = mem["idxName"][i]
                                   /\ MemAt(p)["name"][i] = mem["name"][i]
        /\ o.kind = "get" => \A i \in 1 .. CntAt(p) : MemAt(p)["value"][i] = mem["value"][i]
  BY DEF IInv, LockInv, FetchedSame, Fetched, CntAt, MemAt
<1>5. o.kind \in {"get", "is"} => found = {i \in 1 .. CntAt(p) : mem["name"][i] = o.name}
  BY <1>3, <1>4 DEF Found, Proper
<1>6. o.kind = "get" => ValueOf(CntAt(p), MemAt(p), o.name) = t[o.name]
  <2> SUFFICES ASSUME o.kind = "get" PROVE ValueOf(CntAt(p), MemAt(p), o.name) = t[o.name]
    OBVIOUS
  <2>1. View(CntAt(p), MemAt(p)) = t
    BY <1>4, ViewSame
  <2> QED BY <1>1, <2>1 DEF View
<1>7. o.kind = "is" => (found # {} <=> o.name \in Abs!Present(t))
  BY <1>2, <1>3, <1>5, ViewCounts
<1>8. Cardinality(Abs!Present(t)) = CntAt(p)
  BY <1>2, <1>3, ViewCounts
<1> DEFINE a == [ val |-> IF o.kind = "get"
                          THEN ValueOf(CntAt(p), MemAt(p), o.name) ELSE NoVal,
                  n   |-> CASE o.kind = "is" -> IF found # {} THEN 1 ELSE 0
                            [] o.kind \in {"nget", "list"} -> CntAt(p)
                            [] OTHER -> 0 ]
<1>9. answer' = [answer EXCEPT ![p] = a]
  BY DEF Search, Abort
<1>10. ask \in Abs!Asks /\ ask.kind = o.kind /\ ask.name = o.name
  BY <1>1 DEF Abs!Asks
<1>11. a = Abs!AnswerOf(ask, t)
  <2>1. CASE o.kind = "get"
    BY <1>6, <1>10, <2>1 DEF Abs!AnswerOf
  <2>2. CASE o.kind = "is"
    BY <1>7, <1>10, <2>2 DEF Abs!AnswerOf
  <2>3. CASE o.kind = "nget"
    <3>1. a = [val |-> NoVal, n |-> CntAt(p)]
      BY <2>3
    <3>2. Abs!AnswerOf(ask, t) = [val |-> NoVal, n |-> Cardinality(Abs!Present(t))]
      <4>1. \A k, u : k.kind = "nget" =>
              Abs!AnswerOf(k, u) = [val |-> NoVal, n |-> Cardinality(Abs!Present(u))]
        BY Zenon DEF Abs!AnswerOf, Abs!Cardinality, Cardinality
      <4> QED BY <1>10, <2>3, <4>1
    <3> QED BY <1>8, <3>1, <3>2
  <2> QED BY <1>1, <2>1, <2>2, <2>3
<1> QED BY <1>9, <1>10, <1>11

\* A read of ParamWin is one question to the table it promises: it takes the
\* table with the unset flag, and answers from it.
LEMMA ReadRefines ==
  ASSUME IInv, aborted = NoProc, ReadKinds \subseteq {"get", "is", "nget"}, NEW p \in Procs,
         ReadStep(p) \/ \E ask \in Asks : BeginRead(p, ask)
  PROVE  [Abs!AbsNext]_(Abs!absVars)
<1> USE SetTypes DEF Go, Abort
<1> USE DEF rootVars, cacheVars, lockVars, callVars, readVars
<1>0. /\ pc \in [Procs -> Pcs] /\ TypeOK /\ LockInv
      /\ op \in [Procs -> Calls \cup Asks \cup {NoOp}]
      /\ flag \in {0, 1} /\ cCnt \in [Readers -> 0 .. MaxParam]
  BY DEF IInv, LockInv, TypeOK
<1>1. /\ UNCHANGED <<flag, cnt, mem>> /\ View(cnt, mem)' = View(cnt, mem)
      /\ \A q \in Procs : q # p => pc'[q] = pc[q]
  <2>1. UNCHANGED <<flag, cnt, mem>> /\ \A q \in Procs : q # p => pc'[q] = pc[q]
    BY <1>0, ReadFrame DEF IInv
  <2> QED BY <2>1
<1>2. \A q \in Procs : q # p /\ q # Root => cCnt'[q] = cCnt[q]
  BY <1>0 DEF ReadStep, BeginRead, AcqShared, Snapshot, Backoff, LockWin, Fetch, Relist, Search
\* The other readers keep their tables, so that of this one decides.
<1> DEFINE Held(at) == at = "search" \/ (p # Root /\ at \in {"lock", "fetch"})
           NowCnt  == IF p = Root THEN cnt ELSE cCnt[p]
           NextCnt == IF p = Root THEN cnt ELSE cCnt'[p]
<1>3. /\ \A q \in Procs : q # p => Taken'[q] = Taken[q]
      /\ Taken[p]  = IF Held(pc[p]) THEN View(NowCnt, mem) ELSE Abs!NoTable
      /\ Taken'[p] = IF Held(pc'[p]) THEN View(NextCnt, mem) ELSE Abs!NoTable
      /\ Taken = [q \in Procs |-> Taken[q]] /\ Taken' = [q \in Procs |-> Taken'[q]]
  BY <1>1, <1>2 DEF Taken, Holding, CntAt, Abs!NoTable
<1> HIDE DEF Held, NowCnt, NextCnt
<1>4. ASSUME Taken'[p] = Taken[p], answer' = answer PROVE [Abs!AbsNext]_(Abs!absVars)
  BY <1>1, <1>3, <1>4, Stutters DEF Stutter
\* The read takes the table.
<1>6. ASSUME Taken[p] = Abs!NoTable, Taken'[p] = View(cnt, mem), flag = 0, answer' = answer
      PROVE  [Abs!AbsNext]_(Abs!absVars)
  <2>1. Taken' = [Taken EXCEPT ![p] = View(cnt, mem)]
    BY <1>3, <1>6
  <2>2. Abs!Take(p)
    BY <1>1, <1>6, <2>1 DEF Abs!Take
  <2> QED BY <2>2 DEF Abs!AbsNext
<1>5. Abort(p) <=> aborted' # aborted
  BY ParamAssumption DEF ReadStep, BeginRead, AcqShared, Snapshot, Backoff, LockWin,
                         Fetch, Relist, Search
<1>7. CASE aborted' # aborted
  <2>1. UNCHANGED <<pc, cCnt, answer>>
    BY <1>5, <1>7
  <2> QED BY <1>3, <1>4, <2>1 DEF Held, NowCnt, NextCnt
<1>8. ASSUME aborted' = aborted, NEW ask \in Asks, BeginRead(p, ask)
      PROVE  [Abs!AbsNext]_(Abs!absVars)
  <2>1. /\ pc[p] = "idle" /\ pc'[p] = "acqGlob"
        /\ answer' = [answer EXCEPT ![p] = NoAnswer]
    BY <1>0, <1>8 DEF BeginRead
  <2>2. Taken' = Taken
    BY <1>3, <2>1 DEF Held
  <2>3. Abs!Ask(p)
    BY <1>1, <2>1, <2>2 DEF Abs!Ask, Abs!NoAnswer, NoAnswer
  <2> QED BY <2>3 DEF Abs!AbsNext
<1>9. CASE AcqShared(p)
  <2>1. /\ pc[p] \notin {"search", "lock", "fetch"} /\ pc'[p] \notin {"search", "lock", "fetch"}
        /\ answer' = answer
    BY <1>0, <1>9 DEF AcqShared
  <2> QED BY <1>3, <1>4, <2>1 DEF Held
<1>10. CASE Snapshot(p) /\ aborted' = aborted
  <2>0. pc[p] = "snapshot" /\ answer' = answer
    BY <1>10 DEF Snapshot
  <2>1. CASE p = Root
    <3>1. pc'[p] = "search" /\ flag # 1
      BY <1>0, <1>5, <1>10, <2>1 DEF Snapshot
    <3> QED BY <1>0, <1>3, <1>6, <2>0, <2>1, <3>1 DEF Held, NextCnt
  <2>2. CASE p # Root /\ flag = 1
    <3>1. pc'[p] = "backoff"
      BY <1>0, <1>10, <2>2 DEF Snapshot
    <3> QED BY <1>3, <1>4, <2>0, <3>1 DEF Held
  <2>3. CASE p # Root /\ flag # 1
    <3>1. op[p].kind # "list"
      BY <1>10 DEF IInv, OpsMatch, ReadPcs, Snapshot, Asks
    <3>2. pc'[p] \in {"lock", "search"}
      BY <1>0, <1>10, <2>3, <3>1 DEF Snapshot, AfterSnapshot
    <3>3. cCnt'[p] = cnt
      BY <1>0, <1>10, <2>3 DEF Snapshot
    <3> QED BY <1>0, <1>3, <1>6, <2>0, <2>3, <3>2, <3>3 DEF Held, NextCnt
  <2> QED BY <2>1, <2>2, <2>3
<1>11. CASE Backoff(p)
  <2>1. /\ pc[p] \notin {"search", "lock", "fetch"} /\ pc'[p] \notin {"search", "lock", "fetch"}
        /\ answer' = answer
    BY <1>0, <1>11 DEF Backoff
  <2> QED BY <1>3, <1>4, <2>1 DEF Held
<1>12. ASSUME NEW w \in Win, LockWin(p, w) PROVE [Abs!AbsNext]_(Abs!absVars)
  <2>1. PICK at \in {"lock", "fetch"} : pc' = [pc EXCEPT ![p] = at]
    BY <1>12 DEF LockWin
  <2>2. pc[p] = "lock" /\ UNCHANGED <<cCnt, answer>> /\ p # Root
    BY <1>12 DEF LockWin, IInv, OpsMatch
  <2> QED BY <1>0, <1>3, <1>4, <2>1, <2>2 DEF Held, NowCnt, NextCnt
<1>13. ASSUME NEW w \in Win, Fetch(p, w) PROVE [Abs!AbsNext]_(Abs!absVars)
  <2>1. pc[p] = "fetch" /\ UNCHANGED <<cCnt, answer>> /\ p # Root
    BY <1>13 DEF Fetch, IInv, OpsMatch
  <2>2. op[p].kind # "list"
    BY <2>1 DEF IInv, OpsMatch, ReadPcs, Asks
  <2>3. pc'[p] \in {"fetch", "search"}
    BY <1>0, <1>13, <2>2 DEF Fetch
  <2> QED BY <1>3, <1>4, <2>1, <2>3 DEF Held, NowCnt, NextCnt
<1>14. CASE Relist(p)
  <2>1. pc[p] = "relist" /\ p # Root
    BY <1>14 DEF Relist, IInv, OpsMatch
  <2>2. op[p].kind = "list" /\ op[p] \in Asks
    BY <1>0, <2>1 DEF IInv, LockInv, FetchedSame, OpsMatch, ReadPcs
  <2> QED BY <2>2 DEF Asks
<1>15. CASE Search(p) /\ aborted' = aborted
  <2>1. pc[p] = "search" /\ ~Abort(p) /\ pc'[p] = "idle"
    BY <1>0, <1>5, <1>15 DEF Search
  <2>2. PICK ask \in Abs!Asks :
          answer' = [answer EXCEPT ![p] = Abs!AnswerOf(ask, View(CntAt(p), mem))]
    BY <1>15, <2>1, AnswerRefines
  <2>3. Taken[p] = View(CntAt(p), mem) /\ Taken[p] # Abs!NoTable
    <3>1. Taken[p] = View(CntAt(p), mem)
      BY <1>3, <2>1 DEF Held, NowCnt, CntAt
    <3>2. ask.name \in DOMAIN View(CntAt(p), mem)
      BY DEF View, Abs!Asks
    <3> QED BY <3>1, <3>2 DEF Abs!NoTable
  <2>4. Taken' = [Taken EXCEPT ![p] = Abs!NoTable]
    BY <1>3, <2>1 DEF Held
  <2>5. Abs!Return(p, ask)
    BY <1>1, <2>2, <2>3, <2>4 DEF Abs!Return
  <2> QED BY <2>5 DEF Abs!AbsNext
<1> QED
  BY <1>7, <1>8, <1>9, <1>10, <1>11, <1>12, <1>13, <1>14, <1>15 DEF ReadStep

\* Every answer of ctrlParamGet, ctrlParamIs and ctrlParamNGet is that of one
\* state of the table in which its owner had not closed it, although counter,
\* names and values reach the reader through windows of their own.  Without
\* ctrlParamListGet, which reads the counter a second time.
THEOREM Implementation ==
  ASSUME ReadKinds \subseteq {"get", "is", "nget"}
  PROVE  Spec => Refines
<1>1. Init => Abs!AbsInit
  <2> SUFFICES ASSUME Init PROVE Abs!AbsInit
    OBVIOUS
  <2>1. View(cnt, mem) = [n \in Names |-> NoVal]
    BY DEF Init, View, ValueOf, Found
  <2>2. Taken = [p \in Procs |-> Abs!NoTable]
    BY DEF Init, Taken, Holding, Abs!NoTable
  <2> QED BY <2>1, <2>2 DEF Init, Abs!AbsInit, Abs!NoAnswer, NoAnswer
<1>2. IInv /\ [Next]_vars => [Abs!AbsNext]_(Abs!absVars)
  <2> SUFFICES ASSUME IInv, [Next]_vars PROVE [Abs!AbsNext]_(Abs!absVars)
    OBVIOUS
  <2>1. CASE UNCHANGED vars
    <3>1. UNCHANGED <<flag, cnt, mem, cCnt, pc, answer>>
      BY <2>1 DEF vars, rootVars, cacheVars, readVars
    <3> QED BY <3>1, TakenKept, Stutters DEF Stutter, Holding, CntAt
  <2> QED BY <2>1, CallRefines, ReadRefines DEF Next, Step
<1> QED BY <1>1, <1>2, CallInvariance, PTL DEF Spec, Refines, Abs!AbsSpec
=============================================================================

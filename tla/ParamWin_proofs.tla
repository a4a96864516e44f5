--------------------------- MODULE ParamWin_proofs ---------------------------
(***************************************************************************)
(* Proofs about ParamWin: its types, and the coherence of what a reader    *)
(* searches, for every number of ranks, names, values and cells.           *)
(***************************************************************************)
EXTENDS ParamWin, TLAPS

\* The value a search returns is that of a cell, or none.
LEMMA ValueType ==
  ASSUME NEW n \in 0 .. MaxParam, NEW m \in [Win -> [Slots -> Cells]], NEW x
  PROVE  ValueOf(n, m, x) \in Cells
<1>1. Found(n, m, x) \subseteq Slots
  BY ParamAssumption DEF Found, Slots
<1>2. CASE Found(n, m, x) = {}
  BY <1>2 DEF ValueOf, Cells
<1>3. CASE Found(n, m, x) # {}
  <2> DEFINE i == CHOOSE j \in Found(n, m, x) : TRUE
  <2>1. i \in Slots
    BY <1>1, <1>3
  <2>2. m["value"][i] \in Cells
    BY <2>1 DEF Win
  <2> QED BY <2>2, <1>3 DEF ValueOf
<1> QED BY <1>2, <1>3

-----------------------------------------------------------------------------
\* Type correctness is inductive with the room that NamesUnique keeps.

\* The windows are created with the types their users expect.
LEMMA InitType == Init => TypeOK
  BY ParamAssumption
  DEF Init, TypeOK, Slots, Cells, Pcs, Procs, Ranks, Readers, NoOp, NoAnswer

\* Every call or read names a parameter or none, and carries a value or none.
LEMMA ValOfSet ==
  ASSUME NEW o \in Calls \cup Asks \cup {NoOp}
  PROVE  /\ o.name \in Names \cup {NoName} /\ o.val \in Cells
         /\ o.kind \in {"add", "set"} => o.name \in Names
  BY ParamAssumption DEF Calls, Puts, Flips, Asks, NoOp, Cells

\* What ctrlParamAdd, ctrlParamSet, the locks and the reads are called with.
LEMMA CallTypes ==
  /\ \A c \in Calls : c.name \in Names \cup {NoName}
  /\ \A c \in Puts : c \in Calls /\ c.name \in Names /\ c.val \in Vals
  /\ \A c \in Flips : c \in Calls
  /\ \A a \in Asks : a.name \in Names
  BY DEF Calls, Puts, Flips, Asks

\* The places a rank can be at inside a call.
LEMMA PcTypes ==
  /\ "idle" \in Pcs /\ "barrier" \in Pcs /\ "exclGlob" \in Pcs
  /\ "exclWin" \in Pcs /\ "write" \in Pcs /\ "count" \in Pcs
  /\ "release" \in Pcs /\ "lateCount" \in Pcs /\ "acqGlob" \in Pcs
  /\ "reacqGlob" \in Pcs /\ "snapshot" \in Pcs /\ "backoff" \in Pcs
  /\ "rebackoff" \in Pcs /\ "lock" \in Pcs /\ "fetch" \in Pcs
  /\ "relist" \in Pcs /\ "search" \in Pcs
  BY DEF Pcs, WritePcs, ReadPcs

\* The ranks and the windows, without their definitions.
LEMMA SetTypes ==
  /\ Root \in Procs /\ Root \in Ranks /\ Ranks \subseteq Procs
  /\ Readers \subseteq Procs
  /\ \A p \in Procs : p # Root => p \in Readers
  /\ Names \subseteq Cells /\ Vals \subseteq Cells /\ NoVal \in Cells
  /\ Win \subseteq AllWin /\ "glob" \in AllWin
  /\ "value" \in Win /\ "name" \in Win /\ "idxName" \in Win
  /\ "glob" \notin Win /\ \A w \in Win : w \in {"idxName", "name", "value"}
  BY ParamAssumption DEF Procs, Ranks, Readers, Cells, AllWin, Win

\* No step changes a type: ctrlParamAdd writes only where there is room.
LEMMA TypeStep == TypeOK /\ NamesUnique /\ [Next]_vars => TypeOK'
<1> SUFFICES ASSUME TypeOK, NamesUnique, [Next]_vars PROVE TypeOK'
  OBVIOUS
<1> USE ParamAssumption, CallTypes, PcTypes, SetTypes DEF Go, Abort
<1> USE DEF rootVars, cacheVars, lockVars, callVars, readVars
<1>1. ASSUME NEW p \in Ranks, NEW c \in Flips, Flip(p, c) PROVE TypeOK'
  <2>1. prog' \in Seq(Calls) /\ pos' \in [Ranks -> Nat]
    <3>1. prog \in Seq(Calls) /\ c \in Calls /\ Issue(p, c)
      BY <1>1 DEF TypeOK, Flip
    <3>2. prog' \in Seq(Calls)
      BY ONLY <3>1 DEF Issue
    <3> QED BY <1>1, <3>2 DEF TypeOK, Flip
  <2>2. flag' \in {0, 1} /\ cFlag' \in [Readers -> {0, 1}]
    BY <1>1 DEF TypeOK, Flip
  <2> QED BY <1>1, <2>1, <2>2 DEF TypeOK, Flip
<1>2. ASSUME NEW p \in Ranks, NEW c \in Puts, StartPut(p, c) PROVE TypeOK'
  <2>1. prog' \in Seq(Calls)
    <3>1. prog \in Seq(Calls) /\ c \in Calls /\ Issue(p, c)
      BY <1>2 DEF TypeOK, StartPut
    <3> QED BY ONLY <3>1 DEF Issue
  <2>2. pc' \in [Procs -> Pcs] /\ op' \in [Procs -> Calls \cup Asks \cup {NoOp}]
    BY <1>2 DEF TypeOK, StartPut
  <2> QED BY <1>2, <2>1, <2>2 DEF TypeOK, StartPut
<1>3. ASSUME AcqExclGlob PROVE TypeOK'
  BY <1>3 DEF TypeOK, AcqExclGlob
<1>4. ASSUME NEW w \in Win, AcqExclWin(w) PROVE TypeOK'
  BY <1>4 DEF TypeOK, AcqExclWin
<1>5. ASSUME WriteSet PROVE TypeOK'
  <2> DEFINE c == op[Root]
  <2>1. CASE Abort(Root)
    BY <2>1 DEF TypeOK
  <2>2. ASSUME NEW i \in Found(cnt, mem, c.name),
               mem' = [mem EXCEPT !["value"][i] = c.val], Go(Root, "release"),
               UNCHANGED <<flag, cnt, cacheVars, lockVars, op, callVars, readVars>>,
               c.kind = "set"
        PROVE  TypeOK'
    <3>1. i \in Slots
      BY DEF Found, Slots, TypeOK
    <3>2. c.val \in Cells
      BY <2>2, ValOfSet DEF TypeOK
    <3>3. mem' \in [Win -> [Slots -> Cells]]
      BY <2>2, <3>1, <3>2 DEF TypeOK
    <3> QED BY <2>2, <3>3 DEF TypeOK
  <2> QED BY <1>5, <2>1, <2>2 DEF WriteSet
<1>6. ASSUME WriteAdd PROVE TypeOK'
  <2> DEFINE c == op[Root]
  <2>1. CASE ~Room \/ Found(cnt, mem, c.name) # {}
    BY <1>6, <2>1 DEF TypeOK, WriteAdd
  <2>2. CASE Room /\ Found(cnt, mem, c.name) = {}
    <3>1. c.val \in Cells /\ c.name \in Cells
      BY <1>6, ValOfSet DEF TypeOK, WriteAdd
    <3>2. mem' = [w \in Win |-> [mem[w] EXCEPT ![cnt + 1] =
                                   IF w = "value" THEN c.val ELSE c.name]]
      BY <1>6, <2>2 DEF WriteAdd
    <3>3. mem' \in [Win -> [Slots -> Cells]]
      BY <3>1, <3>2 DEF TypeOK
    <3>4. pc' = [pc EXCEPT ![Root] = IF LateCount THEN "release" ELSE "count"]
      BY <1>6, <2>2 DEF WriteAdd
    <3>5. UNCHANGED <<flag, cnt, cacheVars, lockVars, op, callVars, readVars>>
      BY <1>6, <2>2 DEF WriteAdd
    <3> QED BY <3>3, <3>4, <3>5 DEF TypeOK
  <2> QED BY <2>1, <2>2
<1>7. ASSUME Count PROVE TypeOK'
  BY <1>7 DEF TypeOK, Count, NamesUnique, Used, Pending
<1>8. ASSUME Release PROVE TypeOK'
  BY <1>8 DEF TypeOK, Release
<1>9. ASSUME LateCountStore PROVE TypeOK'
  BY <1>9 DEF TypeOK, LateCountStore, NamesUnique, Used, Pending
<1>10. ASSUME Barrier PROVE TypeOK'
  BY <1>10 DEF TypeOK, Barrier, NoOp, Calls, Puts, Flips
<1>11. ASSUME NEW p \in Procs, NEW ask \in Asks, BeginRead(p, ask) PROVE TypeOK'
  BY <1>11 DEF TypeOK, BeginRead, NoAnswer
<1>12. ASSUME NEW p \in Procs, AcqShared(p) PROVE TypeOK'
  <2>1. PICK at \in Pcs : pc' = [pc EXCEPT ![p] = at]
    BY <1>12 DEF AcqShared
  <2>2. /\ shared' = [shared EXCEPT !["glob"] = @ \cup {p}]
        /\ UNCHANGED <<rootVars, cacheVars, excl, op, callVars, readVars>>
    BY <1>12 DEF AcqShared
  <2> QED BY <2>1, <2>2 DEF TypeOK
<1>13. ASSUME NEW p \in Procs, Snapshot(p) PROVE TypeOK'
  <2>1. CASE p = Root /\ flag = 1
    BY <1>13, <2>1 DEF TypeOK, Snapshot
  <2>2. CASE p = Root /\ flag # 1
    <3>1. /\ pc' = [pc EXCEPT ![Root] = "search"]
          /\ UNCHANGED <<rootVars, cacheVars, lockVars, op, callVars, readVars>>
      BY <1>13, <2>2 DEF Snapshot
    <3> QED BY <3>1 DEF TypeOK
  <2>3. CASE p # Root
    <3>1. PICK at \in Pcs : pc' = [pc EXCEPT ![p] = at]
      BY <1>13, <2>3 DEF Snapshot, AfterSnapshot
    <3>2. /\ cFlag' = [cFlag EXCEPT ![p] = flag]
          /\ cCnt'  = [cCnt EXCEPT ![p] = cnt]
          /\ UNCHANGED <<rootVars, cMem, lockVars, op, callVars, readVars>>
      BY <1>13, <2>3 DEF Snapshot
    <3> QED BY <3>1, <3>2 DEF TypeOK
  <2> QED BY <2>1, <2>2, <2>3
<1>14. ASSUME NEW p \in Procs, Backoff(p) PROVE TypeOK'
  <2>1. PICK at \in Pcs : pc' = [pc EXCEPT ![p] = at]
    BY <1>14 DEF Backoff
  <2>2. /\ shared' = [shared EXCEPT !["glob"] = @ \ {p}]
        /\ UNCHANGED <<rootVars, cacheVars, excl, op, callVars, readVars>>
    BY <1>14 DEF Backoff
  <2> QED BY <2>1, <2>2 DEF TypeOK
<1>15. ASSUME NEW p \in Procs, NEW w \in Win, LockWin(p, w) PROVE TypeOK'
  BY <1>15 DEF TypeOK, LockWin
<1>16. ASSUME NEW p \in Procs, NEW w \in Win, Fetch(p, w) PROVE TypeOK'
  <2>1. cMem' \in [Readers -> [Win -> [Slots -> Cells]]]
    <3> DEFINE got == [i \in Slots |-> IF i <= cCnt[p] THEN mem[w][i] ELSE cMem[p][w][i]]
    <3>1. CASE p \in Readers
      <4>1. got \in [Slots -> Cells]
        BY <3>1 DEF TypeOK
      <4>2. cMem' = [cMem EXCEPT ![p] = [cMem[p] EXCEPT ![w] = got]]
        BY <1>16 DEF Fetch
      <4> QED BY <3>1, <4>1, <4>2 DEF TypeOK
    <3>2. CASE p \notin Readers
      BY ZenonT(60), <1>16, <3>2 DEF TypeOK, Fetch
    <3> QED BY <3>1, <3>2
  <2>2. pc' \in [Procs -> Pcs]
    BY <1>16 DEF TypeOK, Fetch
  <2> QED BY <1>16, <2>1, <2>2 DEF TypeOK, Fetch
<1>17. ASSUME NEW p \in Procs, Relist(p) PROVE TypeOK'
  BY <1>17 DEF TypeOK, Relist
<1>18. ASSUME NEW p \in Procs, Search(p) PROVE TypeOK'
  <2> DEFINE ask == op[p]
             found == Found(CntAt(p), MemAt(p), ask.name)
  <2>1. CASE ask.kind = "get" /\ found = {}
    BY <1>18, <2>1 DEF TypeOK, Search
  <2>2. CASE ~(ask.kind = "get" /\ found = {})
    <3>1. CntAt(p) \in 0 .. MaxParam /\ MemAt(p) \in [Win -> [Slots -> Cells]]
      BY DEF CntAt, MemAt, TypeOK
    <3>2. PICK val \in Cells, n \in Nat : answer' = [answer EXCEPT ![p] = [val |-> val, n |-> n]]
      <4>1. ValueOf(CntAt(p), MemAt(p), ask.name) \in Cells
        BY <3>1, ValueType
      <4> DEFINE val == IF ask.kind = "get"
                        THEN ValueOf(CntAt(p), MemAt(p), ask.name) ELSE NoVal
                 n   == CASE ask.kind = "is" -> IF found # {} THEN 1 ELSE 0
                          [] ask.kind \in {"nget", "list"} -> CntAt(p)
                          [] OTHER -> 0
      <4>2. answer' = [answer EXCEPT ![p] = [val |-> val, n |-> n]]
        BY <1>18, <2>2 DEF Search
      <4>3. val \in Cells /\ n \in Nat
        BY <3>1, <4>1
      <4> QED BY <4>2, <4>3
    <3>3. known' \in [Procs -> SUBSET (Names \cup {NoName})]
      BY <1>18, <2>2, ValOfSet DEF TypeOK, Search
    <3>4. /\ shared' = [shared EXCEPT !["glob"] = @ \ {p}]
          /\ op' = [op EXCEPT ![p] = NoOp]
          /\ pc' = [pc EXCEPT ![p] = "idle"]
          /\ UNCHANGED <<rootVars, cacheVars, excl, callVars, aborted>>
      BY <1>18, <2>2 DEF Search
    <3> QED BY <3>2, <3>3, <3>4 DEF TypeOK
  <2> QED BY <2>1, <2>2
<1>19. CASE UNCHANGED vars
  BY <1>19 DEF TypeOK, vars
<1> QED
  BY <1>1, <1>2, <1>3, <1>4, <1>5, <1>6, <1>7, <1>8, <1>9, <1>10, <1>11, <1>12,
     <1>13, <1>14, <1>15, <1>16, <1>17, <1>18, <1>19
  DEF Next, Step, RootPut, ReadStep
-----------------------------------------------------------------------------
\* A step that leaves the arrays and the counter alone, and the root rank where
\* it is with its addition, leaves the names unique.
LEMMA NamesKept ==
  ASSUME NamesUnique, cnt' = cnt, mem' = mem, Pending' <=> Pending,
         pc'[Root] = "count" => pc[Root] = "count"
  PROVE  NamesUnique'
<1>1. Used' = Used
  BY DEF Used
<1> QED BY <1>1 DEF NamesUnique

\* A rank that goes from a place outside of an addition to another one leaves
\* the root rank where it is with its addition.
LEMMA PendingKept ==
  ASSUME NEW p \in Procs, NEW at, pc \in [Procs -> Pcs],
         pc[p] \notin {"count", "lateCount", "release"},
         at \notin {"count", "lateCount", "release"},
         pc' = [pc EXCEPT ![p] = at],
         p # Root => op'[Root] = op[Root]
  PROVE  /\ Pending' <=> Pending
         /\ pc'[Root] = "count" => pc[Root] = "count"
<1>1. Root \in Procs
  BY SetTypes
<1>2. CASE p = Root
  BY <1>1, <1>2 DEF Pending
<1>3. CASE p # Root
  BY <1>1, <1>3 DEF Pending
<1> QED BY <1>2, <1>3

\* The names stay unique: ctrlParamAdd searches before it writes.
LEMMA NamesStep == TypeOK /\ NamesUnique /\ [Next]_vars => NamesUnique'
<1> SUFFICES ASSUME TypeOK, NamesUnique, [Next]_vars PROVE NamesUnique'
  OBVIOUS
<1> USE ParamAssumption, SetTypes DEF Go, Abort
<1> USE DEF rootVars, cacheVars, lockVars, callVars, readVars
<1>0. pc \in [Procs -> Pcs] /\ op \in [Procs -> Calls \cup Asks \cup {NoOp}]
  BY DEF TypeOK
<1>1. ASSUME NEW p \in Ranks, NEW c \in Flips, Flip(p, c) PROVE NamesUnique'
  BY <1>1 DEF Flip, TypeOK, NamesUnique, Used, Pending
<1>2. ASSUME NEW p \in Ranks, NEW c \in Puts, StartPut(p, c) PROVE NamesUnique'
  BY <1>2 DEF StartPut, Issue, TypeOK, NamesUnique, Used, Pending
<1>3. ASSUME AcqExclGlob PROVE NamesUnique'
  BY <1>3 DEF AcqExclGlob, TypeOK, NamesUnique, Used, Pending
<1>4. ASSUME NEW w \in Win, AcqExclWin(w) PROVE NamesUnique'
  BY <1>4 DEF AcqExclWin, TypeOK, NamesUnique, Used, Pending
<1>5. ASSUME WriteSet PROVE NamesUnique'
  <2>1. CASE Abort(Root)
    BY <2>1 DEF NamesUnique, Used, Pending
  <2>2. CASE /\ \E i \in Found(cnt, mem, op[Root].name) :
                  mem' = [mem EXCEPT !["value"][i] = op[Root].val]
             /\ pc' = [pc EXCEPT ![Root] = "release"]
             /\ op[Root].kind = "set" /\ pc[Root] = "write"
             /\ UNCHANGED <<cnt, op>>
    <3>1. mem'["name"] = mem["name"] /\ mem'["idxName"] = mem["idxName"]
      BY <2>2 DEF TypeOK
    <3>2. pc'[Root] = "release"
      BY <2>2 DEF TypeOK
    <3>3. Used' = Used
      BY <2>2, <3>2 DEF Used, Pending
    <3> QED BY <3>1, <3>2, <3>3 DEF NamesUnique
  <2> QED BY <1>5, <2>1, <2>2 DEF WriteSet
<1>6. ASSUME WriteAdd PROVE NamesUnique'
  <2> DEFINE c == op[Root]
  <2>1. CASE ~Room \/ Found(cnt, mem, c.name) # {}
    BY <1>6, <2>1 DEF WriteAdd, NamesUnique, Used, Pending
  <2>2. CASE Room /\ Found(cnt, mem, c.name) = {}
    <3>1. /\ cnt \in Nat /\ cnt + 1 \in Slots /\ cnt < MaxParam
          /\ cnt' = cnt /\ Used = cnt /\ op' = op /\ c.kind = "add"
      BY <1>6, <2>2 DEF WriteAdd, TypeOK, Room, Slots, Used, Pending
    <3>2. pc' = [pc EXCEPT ![Root] = IF LateCount THEN "release" ELSE "count"]
      BY <1>6, <2>2 DEF WriteAdd
    <3>3. Used' = cnt + 1 /\ (pc'[Root] = "count" => ~LateCount)
      BY <3>1, <3>2 DEF Used, Pending, TypeOK
    <3>4. mem' = [w \in Win |-> [mem[w] EXCEPT ![cnt + 1] =
                                   IF w = "value" THEN c.val ELSE c.name]]
      BY <1>6, <2>2 DEF WriteAdd
    <3>5. \A w \in {"idxName", "name"} :
            /\ mem'[w][cnt + 1] = c.name
            /\ \A i \in 1 .. cnt : mem'[w][i] = mem[w][i]
      BY <3>1, <3>4 DEF TypeOK, Slots
    <3>6. \A i \in 1 .. cnt : mem["idxName"][i] = mem["name"][i]
      BY <3>1 DEF NamesUnique
    <3>7. \A i \in 1 .. cnt : mem["name"][i] # c.name
      BY <2>2, <3>6 DEF Found
    <3>8. \A i \in 1 .. cnt + 1 : i \in 1 .. cnt \/ i = cnt + 1
      BY <3>1
    <3>9. \A i \in 1 .. cnt + 1 : mem'["idxName"][i] = mem'["name"][i]
      BY <3>5, <3>6, <3>8
    <3>10. \A i, j \in 1 .. cnt : mem["name"][i] = mem["name"][j] => i = j
      BY <3>1 DEF NamesUnique
    <3>11. \A i, j \in 1 .. cnt + 1 : mem'["name"][i] = mem'["name"][j] => i = j
      BY <3>5, <3>7, <3>8, <3>10
    <3> QED BY <3>1, <3>3, <3>9, <3>11 DEF NamesUnique
  <2> QED BY <2>1, <2>2
<1>7. ASSUME Count PROVE NamesUnique'
  BY <1>7 DEF Count, TypeOK, NamesUnique, Used, Pending
<1>8. ASSUME Release PROVE NamesUnique'
  BY <1>8 DEF Release, TypeOK, NamesUnique, Used, Pending
<1>9. ASSUME LateCountStore PROVE NamesUnique'
  BY <1>9 DEF LateCountStore, TypeOK, NamesUnique, Used, Pending
<1>10. ASSUME Barrier PROVE NamesUnique'
  BY <1>10 DEF Barrier, TypeOK, NamesUnique, Used, Pending
<1>11. ASSUME NEW p \in Procs, NEW ask \in Asks, BeginRead(p, ask) PROVE NamesUnique'
  <2>1. pc[p] \notin {"count", "lateCount", "release"}
    BY <1>11 DEF BeginRead
  <2>2. \E at : at \notin {"count", "lateCount", "release"} /\ pc' = [pc EXCEPT ![p] = at]
    BY <1>11 DEF BeginRead
  <2>3. cnt' = cnt /\ mem' = mem /\ (p # Root => op'[Root] = op[Root])
    BY <1>0, <1>11 DEF BeginRead
  <2> QED BY <1>0, <2>1, <2>2, <2>3, NamesKept, PendingKept
<1>12. ASSUME NEW p \in Procs, AcqShared(p) PROVE NamesUnique'
  <2>1. pc[p] \notin {"count", "lateCount", "release"}
    BY <1>12 DEF AcqShared
  <2>2. \E at : at \notin {"count", "lateCount", "release"} /\ pc' = [pc EXCEPT ![p] = at]
    BY <1>12 DEF AcqShared
  <2>3. cnt' = cnt /\ mem' = mem /\ (p # Root => op'[Root] = op[Root])
    BY <1>0, <1>12 DEF AcqShared
  <2> QED BY <1>0, <2>1, <2>2, <2>3, NamesKept, PendingKept
<1>13. ASSUME NEW p \in Procs, Snapshot(p) PROVE NamesUnique'
  <2>1. CASE Abort(p)
    <3>1. UNCHANGED <<cnt, mem, pc, op>>
      BY <2>1
    <3>2. Pending' <=> Pending
      BY <3>1 DEF Pending
    <3> QED BY <3>1, <3>2, NamesKept
  <2>2. CASE ~Abort(p)
    <3>1. pc[p] \notin {"count", "lateCount", "release"}
      BY <1>13 DEF Snapshot
    <3>2. \E at : at \notin {"count", "lateCount", "release"} /\ pc' = [pc EXCEPT ![p] = at]
      BY ONLY <1>13, <2>2 DEF Snapshot, AfterSnapshot, Go
    <3>3. cnt' = cnt /\ mem' = mem /\ (p # Root => op'[Root] = op[Root])
      BY <1>0, <1>13, <2>2 DEF Snapshot, AfterSnapshot
    <3> QED BY <1>0, <3>1, <3>2, <3>3, NamesKept, PendingKept
  <2> QED BY <2>1, <2>2
<1>14. ASSUME NEW p \in Procs, Backoff(p) PROVE NamesUnique'
  <2>1. pc[p] \notin {"count", "lateCount", "release"}
    BY <1>14 DEF Backoff
  <2>2. \E at : at \notin {"count", "lateCount", "release"} /\ pc' = [pc EXCEPT ![p] = at]
    BY <1>14 DEF Backoff
  <2>3. cnt' = cnt /\ mem' = mem /\ (p # Root => op'[Root] = op[Root])
    BY <1>0, <1>14 DEF Backoff
  <2> QED BY <1>0, <2>1, <2>2, <2>3, NamesKept, PendingKept
<1>15. ASSUME NEW p \in Procs, NEW w \in Win, LockWin(p, w) PROVE NamesUnique'
  <2>1. pc[p] \notin {"count", "lateCount", "release"}
    BY <1>15 DEF LockWin
  <2>2. \E at : at \notin {"count", "lateCount", "release"} /\ pc' = [pc EXCEPT ![p] = at]
    BY <1>15 DEF LockWin
  <2>3. cnt' = cnt /\ mem' = mem /\ (p # Root => op'[Root] = op[Root])
    BY <1>0, <1>15 DEF LockWin
  <2> QED BY <1>0, <2>1, <2>2, <2>3, NamesKept, PendingKept
<1>16. ASSUME NEW p \in Procs, NEW w \in Win, Fetch(p, w) PROVE NamesUnique'
  <2>1. pc[p] \notin {"count", "lateCount", "release"}
    BY <1>16 DEF Fetch
  <2>2. \E at : at \notin {"count", "lateCount", "release"} /\ pc' = [pc EXCEPT ![p] = at]
    BY <1>16 DEF Fetch
  <2>3. cnt' = cnt /\ mem' = mem /\ (p # Root => op'[Root] = op[Root])
    BY <1>0, <1>16 DEF Fetch
  <2> QED BY <1>0, <2>1, <2>2, <2>3, NamesKept, PendingKept
<1>17. ASSUME NEW p \in Procs, Relist(p) PROVE NamesUnique'
  <2>1. pc[p] \notin {"count", "lateCount", "release"}
    BY <1>17 DEF Relist
  <2>2. \E at : at \notin {"count", "lateCount", "release"} /\ pc' = [pc EXCEPT ![p] = at]
    BY <1>17 DEF Relist
  <2>3. cnt' = cnt /\ mem' = mem /\ (p # Root => op'[Root] = op[Root])
    BY <1>0, <1>17 DEF Relist
  <2> QED BY <1>0, <2>1, <2>2, <2>3, NamesKept, PendingKept
<1>18. ASSUME NEW p \in Procs, Search(p) PROVE NamesUnique'
  <2>1. CASE Abort(p)
    <3>1. UNCHANGED <<cnt, mem, pc, op>>
      BY <2>1
    <3>2. Pending' <=> Pending
      BY <3>1 DEF Pending
    <3> QED BY <3>1, <3>2, NamesKept
  <2>2. CASE ~Abort(p)
    <3>1. pc[p] \notin {"count", "lateCount", "release"}
      BY <1>18 DEF Search
    <3>2. \E at : at \notin {"count", "lateCount", "release"} /\ pc' = [pc EXCEPT ![p] = at]
      BY ONLY <1>18, <2>2 DEF Search, Go
    <3>3. cnt' = cnt /\ mem' = mem /\ (p # Root => op'[Root] = op[Root])
      BY <1>0, <1>18, <2>2 DEF Search
    <3> QED BY <1>0, <3>1, <3>2, <3>3, NamesKept, PendingKept
  <2> QED BY <2>1, <2>2
<1>19. CASE UNCHANGED vars
  <2>1. UNCHANGED <<cnt, mem, pc, op>>
    BY <1>19 DEF vars
  <2>2. Pending' <=> Pending
    BY <2>1 DEF Pending
  <2> QED BY <2>1, <2>2, NamesKept
<1> QED
  BY <1>1, <1>2, <1>3, <1>4, <1>5, <1>6, <1>7, <1>8, <1>9, <1>10, <1>11, <1>12,
     <1>13, <1>14, <1>15, <1>16, <1>17, <1>18, <1>19
  DEF Next, Step, RootPut, ReadStep

\* The locks of winGlob exclude the root rank's writes from the reads.
LEMMA LocksStep == TypeOK /\ LocksExclude /\ [Next]_vars => LocksExclude'
<1> SUFFICES ASSUME TypeOK, LocksExclude, [Next]_vars PROVE LocksExclude'
  OBVIOUS
<1> USE ParamAssumption, SetTypes DEF Go, Abort
<1> USE DEF rootVars, cacheVars, lockVars, callVars, readVars
<1>1. ASSUME NEW p \in Ranks, NEW c \in Flips, Flip(p, c) PROVE LocksExclude'
  BY <1>1 DEF Flip, TypeOK, LocksExclude
<1>2. ASSUME NEW p \in Ranks, NEW c \in Puts, StartPut(p, c) PROVE LocksExclude'
  BY <1>2 DEF StartPut, Issue, TypeOK, LocksExclude
<1>3. ASSUME AcqExclGlob PROVE LocksExclude'
  BY <1>3 DEF AcqExclGlob, TypeOK, LocksExclude
<1>4. ASSUME NEW w \in Win, AcqExclWin(w) PROVE LocksExclude'
  BY <1>4 DEF AcqExclWin, TypeOK, LocksExclude
<1>5. ASSUME WriteSet PROVE LocksExclude'
  BY <1>5 DEF WriteSet, TypeOK, LocksExclude
<1>6. ASSUME WriteAdd PROVE LocksExclude'
  BY <1>6 DEF WriteAdd, TypeOK, LocksExclude
<1>7. ASSUME Count PROVE LocksExclude'
  BY <1>7 DEF Count, TypeOK, LocksExclude
<1>8. ASSUME Release PROVE LocksExclude'
  BY <1>8 DEF Release, TypeOK, LocksExclude
<1>9. ASSUME LateCountStore PROVE LocksExclude'
  BY <1>9 DEF LateCountStore, TypeOK, LocksExclude
<1>10. ASSUME Barrier PROVE LocksExclude'
  BY <1>10 DEF Barrier, TypeOK, LocksExclude
<1>11. ASSUME NEW p \in Procs, NEW ask \in Asks, BeginRead(p, ask) PROVE LocksExclude'
  BY <1>11 DEF BeginRead, TypeOK, LocksExclude
<1>12. ASSUME NEW p \in Procs, AcqShared(p) PROVE LocksExclude'
  BY <1>12 DEF AcqShared, TypeOK, LocksExclude
<1>13. ASSUME NEW p \in Procs, Snapshot(p) PROVE LocksExclude'
  BY <1>13 DEF Snapshot, AfterSnapshot, TypeOK, LocksExclude
<1>14. ASSUME NEW p \in Procs, Backoff(p) PROVE LocksExclude'
  BY <1>14 DEF Backoff, TypeOK, LocksExclude
<1>15. ASSUME NEW p \in Procs, NEW w \in Win, LockWin(p, w) PROVE LocksExclude'
  BY <1>15 DEF LockWin, TypeOK, LocksExclude
<1>16. ASSUME NEW p \in Procs, NEW w \in Win, Fetch(p, w) PROVE LocksExclude'
  <2>1. shared'["glob"] = shared["glob"] /\ excl' = excl
    BY <1>16 DEF Fetch, TypeOK
  <2>2. PICK at \in {"relist", "search", "fetch"} : pc' = [pc EXCEPT ![p] = at]
    BY <1>16 DEF Fetch
  <2>3. pc[p] = "fetch"
    BY <1>16 DEF Fetch
  <2> QED BY <2>1, <2>2, <2>3 DEF TypeOK, LocksExclude
<1>17. ASSUME NEW p \in Procs, Relist(p) PROVE LocksExclude'
  BY <1>17 DEF Relist, TypeOK, LocksExclude
<1>18. ASSUME NEW p \in Procs, Search(p) PROVE LocksExclude'
  BY <1>18 DEF Search, TypeOK, LocksExclude
<1>19. CASE UNCHANGED vars
  BY <1>19 DEF vars, TypeOK, LocksExclude
<1> QED
  BY <1>1, <1>2, <1>3, <1>4, <1>5, <1>6, <1>7, <1>8, <1>9, <1>10, <1>11, <1>12,
     <1>13, <1>14, <1>15, <1>16, <1>17, <1>18, <1>19
  DEF Next, Step, RootPut, ReadStep

\* A read gives its windows back in the order it fetches them.
LEMMA OrderStep == TypeOK /\ FetchOrder /\ [Next]_vars => FetchOrder'
<1> SUFFICES ASSUME TypeOK, FetchOrder, [Next]_vars PROVE FetchOrder'
  OBVIOUS
<1> USE ParamAssumption, SetTypes DEF Go, Abort
<1> USE DEF rootVars, cacheVars, lockVars, callVars, readVars
<1>1. ASSUME NEW p \in Ranks, NEW c \in Flips, Flip(p, c) PROVE FetchOrder'
  BY <1>1 DEF Flip, TypeOK, FetchOrder
<1>2. ASSUME NEW p \in Ranks, NEW c \in Puts, StartPut(p, c) PROVE FetchOrder'
  BY <1>2 DEF StartPut, Issue, TypeOK, FetchOrder
<1>3. ASSUME AcqExclGlob PROVE FetchOrder'
  BY <1>3 DEF AcqExclGlob, TypeOK, FetchOrder
<1>4. ASSUME NEW w \in Win, AcqExclWin(w) PROVE FetchOrder'
  BY <1>4 DEF AcqExclWin, TypeOK, FetchOrder
<1>5. ASSUME WriteSet PROVE FetchOrder'
  BY <1>5 DEF WriteSet, TypeOK, FetchOrder
<1>6. ASSUME WriteAdd PROVE FetchOrder'
  BY <1>6 DEF WriteAdd, TypeOK, FetchOrder
<1>7. ASSUME Count PROVE FetchOrder'
  BY <1>7 DEF Count, TypeOK, FetchOrder
<1>8. ASSUME Release PROVE FetchOrder'
  BY <1>8 DEF Release, TypeOK, FetchOrder
<1>9. ASSUME LateCountStore PROVE FetchOrder'
  BY <1>9 DEF LateCountStore, TypeOK, FetchOrder
<1>10. ASSUME Barrier PROVE FetchOrder'
  BY <1>10 DEF Barrier, TypeOK, FetchOrder
<1>11. ASSUME NEW p \in Procs, NEW ask \in Asks, BeginRead(p, ask) PROVE FetchOrder'
  BY <1>11 DEF BeginRead, TypeOK, FetchOrder
<1>12. ASSUME NEW p \in Procs, AcqShared(p) PROVE FetchOrder'
  <2>1. \A w \in Win : shared'[w] = shared[w]
    BY <1>12 DEF AcqShared, TypeOK
  <2>2. PICK at \in {"snapshot", "relist"} : pc' = [pc EXCEPT ![p] = at]
    BY <1>12 DEF AcqShared
  <2>3. pc[p] \in {"acqGlob", "reacqGlob"} /\ op' = op
    BY <1>12 DEF AcqShared
  <2> QED BY <2>1, <2>2, <2>3 DEF TypeOK, FetchOrder
<1>13. ASSUME NEW p \in Procs, Snapshot(p) PROVE FetchOrder'
  BY <1>13 DEF Snapshot, AfterSnapshot, TypeOK, FetchOrder
<1>14. ASSUME NEW p \in Procs, Backoff(p) PROVE FetchOrder'
  BY <1>14 DEF Backoff, TypeOK, FetchOrder
<1>15. ASSUME NEW p \in Procs, NEW w \in Win, LockWin(p, w) PROVE FetchOrder'
  <2>1. PICK i \in DOMAIN SharedOrder(op[p].kind) :
          /\ SharedOrder(op[p].kind)[i] = w
          /\ \A j \in 1 .. i - 1 : p \in shared[SharedOrder(op[p].kind)[j]]
          /\ pc' = [pc EXCEPT ![p] =
                      IF i = Len(SharedOrder(op[p].kind)) THEN "fetch" ELSE "lock"]
    BY <1>15 DEF LockWin
  <2>2. /\ pc[p] = "lock" /\ op' = op
        /\ shared' = [shared EXCEPT ![w] = @ \cup {p}]
    BY <1>15 DEF LockWin
  <2>3. op[p].kind = "is" => w # "value"
    BY <2>1 DEF SharedOrder
  <2>4. pc'[p] = "fetch" => p \in shared'["name"]
    BY <2>1, <2>2 DEF SharedOrder, TypeOK
  <2> QED BY <2>1, <2>2, <2>3, <2>4 DEF TypeOK, FetchOrder
<1>16. ASSUME NEW p \in Procs, NEW w \in Win, Fetch(p, w) PROVE FetchOrder'
  <2>1. /\ pc[p] = "fetch" /\ op' = op
        /\ shared' = [shared EXCEPT ![w] = @ \ {p}]
        /\ p \in shared[w]
        /\ w = "name" => p \notin shared["idxName"]
        /\ w = "value" => p \notin shared["name"]
    BY <1>16 DEF Fetch
  <2>2. pc' = [pc EXCEPT ![p] =
                 IF w = "value" \/ (w = "name" /\ op[p].kind = "is")
                 THEN (IF op[p].kind = "list" THEN "relist" ELSE "search") ELSE "fetch"]
    BY <1>16 DEF Fetch
  <2>3. CASE p \in Readers
    <3>1. pc'[p] # "fetch" => \A v \in Win : p \notin shared'[v]
      BY <2>1, <2>2, <2>3 DEF TypeOK, FetchOrder
    <3>2. p \notin shared'["name"] => p \notin shared'["idxName"]
      BY <2>1, <2>3 DEF TypeOK, FetchOrder
    <3> QED BY <2>1, <2>2, <2>3, <3>1, <3>2 DEF TypeOK, FetchOrder
  <2>4. CASE p \notin Readers
    BY <2>1, <2>2, <2>4 DEF TypeOK, FetchOrder
  <2> QED BY <2>3, <2>4
<1>17. ASSUME NEW p \in Procs, Relist(p) PROVE FetchOrder'
  BY <1>17 DEF Relist, TypeOK, FetchOrder
<1>18. ASSUME NEW p \in Procs, Search(p) PROVE FetchOrder'
  <2>1. CASE UNCHANGED <<pc, op, shared>>
    BY <2>1 DEF FetchOrder
  <2>2. CASE /\ pc[p] = "search" /\ pc' = [pc EXCEPT ![p] = "idle"]
             /\ shared' = [shared EXCEPT !["glob"] = @ \ {p}]
             /\ op' = [op EXCEPT ![p] = NoOp]
    BY <2>2 DEF TypeOK, FetchOrder, NoOp
  <2> QED BY <1>18, <2>1, <2>2 DEF Search
<1>19. CASE UNCHANGED vars
  BY <1>19 DEF vars, TypeOK, FetchOrder
<1> QED
  BY <1>1, <1>2, <1>3, <1>4, <1>5, <1>6, <1>7, <1>8, <1>9, <1>10, <1>11, <1>12,
     <1>13, <1>14, <1>15, <1>16, <1>17, <1>18, <1>19
  DEF Next, Step, RootPut, ReadStep

\* What a reader has fetched stays what the root rank has.
LEMMA FetchedStep == TypeOK /\ LocksExclude /\ FetchOrder /\ FetchedSame /\ [Next]_vars => FetchedSame'
<1> SUFFICES ASSUME TypeOK, LocksExclude, FetchOrder, FetchedSame, [Next]_vars PROVE FetchedSame'
  OBVIOUS
<1> USE ParamAssumption, SetTypes DEF Go, Abort
<1> USE DEF rootVars, cacheVars, lockVars, callVars, readVars
<1>1. ASSUME NEW p \in Ranks, NEW c \in Flips, Flip(p, c) PROVE FetchedSame'
  BY <1>1 DEF Flip, TypeOK, FetchedSame, Fetched
<1>2. ASSUME NEW p \in Ranks, NEW c \in Puts, StartPut(p, c) PROVE FetchedSame'
  <2>1. \A q \in Readers :
          pc'[q] \in {"fetch", "search", "relist", "rebackoff", "reacqGlob"}
            => pc'[q] = pc[q] /\ op'[q] = op[q]
    BY <1>2 DEF StartPut, TypeOK
  <2>2. UNCHANGED <<cnt, mem, cCnt, cMem, shared>>
    BY <1>2 DEF StartPut
  <2> QED BY <2>1, <2>2 DEF FetchedSame, Fetched
<1>3. ASSUME AcqExclGlob PROVE FetchedSame'
  BY <1>3 DEF AcqExclGlob, TypeOK, FetchedSame, Fetched
<1>4. ASSUME NEW w \in Win, AcqExclWin(w) PROVE FetchedSame'
  BY <1>4 DEF AcqExclWin, TypeOK, FetchedSame, Fetched
<1>5. ASSUME WriteSet PROVE FetchedSame'
  <2>1. \A q \in Readers : pc[q] \notin {"fetch", "search"}
    BY <1>5 DEF WriteSet, LocksExclude, TypeOK
  <2>2. \A q \in Readers : pc'[q] = pc[q]
    BY <1>5 DEF WriteSet, TypeOK
  <2> QED BY <1>5, <2>1, <2>2 DEF WriteSet, FetchedSame
<1>6. ASSUME WriteAdd PROVE FetchedSame'
  <2>1. \A q \in Readers : pc[q] \notin {"fetch", "search"}
    BY <1>6 DEF WriteAdd, LocksExclude, TypeOK
  <2>2. \A q \in Readers : pc'[q] = pc[q]
    BY <1>6 DEF WriteAdd, TypeOK
  <2> QED BY <1>6, <2>1, <2>2 DEF WriteAdd, FetchedSame
<1>7. ASSUME Count PROVE FetchedSame'
  BY <1>7 DEF Count, TypeOK, FetchedSame, Fetched
<1>8. ASSUME Release PROVE FetchedSame'
  BY <1>8 DEF Release, TypeOK, FetchedSame, Fetched
<1>9. ASSUME LateCountStore PROVE FetchedSame'
  BY <1>9 DEF LateCountStore, TypeOK, FetchedSame, Fetched
<1>10. ASSUME Barrier PROVE FetchedSame'
  BY <1>10 DEF Barrier, TypeOK, FetchedSame, Fetched
<1>11. ASSUME NEW p \in Procs, NEW ask \in Asks, BeginRead(p, ask) PROVE FetchedSame'
  BY <1>11 DEF BeginRead, TypeOK, FetchedSame, Fetched
<1>12. ASSUME NEW p \in Procs, AcqShared(p) PROVE FetchedSame'
  BY <1>12 DEF AcqShared, TypeOK, FetchedSame, Fetched
<1>13. ASSUME NEW p \in Procs, Snapshot(p) PROVE FetchedSame'
  <2>1. CASE p = Root
    BY <1>13, <2>1 DEF Snapshot, TypeOK, FetchedSame, Fetched
  <2>2. CASE p # Root
    <3>1. /\ cCnt' = [cCnt EXCEPT ![p] = cnt]
          /\ UNCHANGED <<rootVars, cMem, lockVars, op, callVars, readVars>>
          /\ pc' = [pc EXCEPT ![p] = IF flag = 1 THEN "backoff"
                                     ELSE AfterSnapshot(op[p].kind, cnt)]
      BY <1>13, <2>2 DEF Snapshot
    <3>2. pc'[p] # "fetch"
      BY <3>1 DEF AfterSnapshot, TypeOK
    <3>3. pc'[p] = "search" /\ op'[p].kind \in {"get", "is"} => cnt = 0
      BY <3>1 DEF AfterSnapshot, TypeOK
    <3>4. \A q \in Readers : cCnt'[q] <= cnt'
      BY <3>1 DEF TypeOK, FetchedSame
    <3>5. pc'[p] \notin {"rebackoff", "reacqGlob"} /\ (pc'[p] = "relist" => op'[p].kind = "list")
      BY <3>1 DEF AfterSnapshot, TypeOK
    <3>6. \A q \in Readers : q # p => pc'[q] = pc[q] /\ \A w \in Win : Fetched(q, w)' = Fetched(q, w)
      BY <3>1 DEF TypeOK, Fetched
    <3>7. pc'[p] = "search" /\ op'[p].kind \in {"get", "is"} => \A w \in Win : Fetched(p, w)'
      BY <2>2, <3>1, <3>3 DEF TypeOK, Fetched
    <3> QED BY <3>1, <3>2, <3>4, <3>5, <3>6, <3>7 DEF FetchedSame
  <2> QED BY <2>1, <2>2
<1>14. ASSUME NEW p \in Procs, Backoff(p) PROVE FetchedSame'
  BY <1>14 DEF Backoff, TypeOK, FetchedSame, Fetched
<1>15. ASSUME NEW p \in Procs, NEW w \in Win, LockWin(p, w) PROVE FetchedSame'
  <2>1. PICK i \in DOMAIN SharedOrder(op[p].kind) :
          /\ SharedOrder(op[p].kind)[i] = w
          /\ \A j \in 1 .. i - 1 : p \in shared[SharedOrder(op[p].kind)[j]]
          /\ pc' = [pc EXCEPT ![p] =
                      IF i = Len(SharedOrder(op[p].kind)) THEN "fetch" ELSE "lock"]
    BY <1>15 DEF LockWin
  <2>2. /\ shared' = [shared EXCEPT ![w] = @ \cup {p}]
        /\ UNCHANGED <<rootVars, cacheVars, op>>
    BY <1>15 DEF LockWin
  <2>3. pc'[p] = "fetch" => \A v \in Win : p \in shared'[v]
                                           \/ (op[p].kind = "is" /\ v = "value")
    BY <2>1, <2>2 DEF SharedOrder, TypeOK
  <2>4. pc'[p] \notin {"search", "relist", "rebackoff", "reacqGlob"}
    BY <2>1 DEF TypeOK
  <2>5. \A q \in Procs : q # p => pc'[q] = pc[q] /\ \A v \in Win : q \in shared[v] => q \in shared'[v]
    BY <2>1, <2>2 DEF TypeOK
  <2> QED BY <2>2, <2>3, <2>4, <2>5 DEF FetchedSame, Fetched
<1>16. ASSUME NEW p \in Procs, NEW w \in Win, Fetch(p, w) PROVE FetchedSame'
  <2> DEFINE got == [i \in Slots |-> IF i <= cCnt[p] THEN mem[w][i] ELSE cMem[p][w][i]]
  <2>1. /\ pc[p] = "fetch" /\ UNCHANGED <<op, mem, cnt, cCnt>>
        /\ shared' = [shared EXCEPT ![w] = @ \ {p}]
        /\ cMem' = [cMem EXCEPT ![p] = [cMem[p] EXCEPT ![w] = got]]
        /\ w = "name" => p \notin shared["idxName"]
        /\ w = "value" => p \notin shared["name"]
    BY <1>16 DEF Fetch
  <2>2. pc' = [pc EXCEPT ![p] =
                 IF w = "value" \/ (w = "name" /\ op[p].kind = "is")
                 THEN (IF op[p].kind = "list" THEN "relist" ELSE "search") ELSE "fetch"]
    BY <1>16 DEF Fetch
  <2>3. \A q \in Readers, v \in Win : q # p => Fetched(q, v)' = Fetched(q, v)
    BY <2>1 DEF Fetched, TypeOK
  <2>4. \A q \in Readers, v \in Win :
          q # p => pc'[q] = pc[q] /\ (q \in shared'[v] <=> q \in shared[v])
    BY <2>1, <2>2 DEF TypeOK
  <2>5. CASE p \in Readers
    <3>1. 1 .. cCnt[p] \subseteq Slots
      BY <2>5 DEF TypeOK, Slots
    <3>2. Fetched(p, w)'
      <4>1. cMem'[p][w] = got /\ cCnt'[p] = cCnt[p] /\ mem' = mem
        BY <2>1, <2>5 DEF TypeOK
      <4>2. \A i \in 1 .. cCnt[p] : got[i] = mem[w][i]
        BY <2>5, <3>1 DEF TypeOK
      <4> QED BY <4>1, <4>2 DEF Fetched
    <3>3. \A v \in Win : v # w => Fetched(p, v)' = Fetched(p, v)
      BY <2>1, <2>5 DEF Fetched, TypeOK
    <3>4. \A v \in Win : p \in shared'[v] \/ Fetched(p, v)'
                         \/ (op[p].kind = "is" /\ v = "value")
      BY <2>1, <2>5, <3>2, <3>3 DEF FetchedSame, TypeOK
    <3>5. pc'[p] = "search" => \A v \in Win : p \notin shared'[v]
      BY <2>1, <2>2, <2>5 DEF FetchOrder, TypeOK
    <3> QED BY <2>1, <2>2, <2>3, <2>4, <2>5, <3>4, <3>5 DEF FetchedSame, TypeOK
  <2>6. CASE p \notin Readers
    BY <2>1, <2>2, <2>3, <2>4, <2>6 DEF FetchedSame
  <2> QED BY <2>5, <2>6
<1>17. ASSUME NEW p \in Procs, Relist(p) PROVE FetchedSame'
  <2>1. /\ pc[p] = "relist" /\ cCnt' = [cCnt EXCEPT ![p] = cnt]
        /\ UNCHANGED <<rootVars, cMem, lockVars, op, callVars, readVars>>
        /\ pc' = [pc EXCEPT ![p] = IF flag = 1 THEN "rebackoff" ELSE "search"]
    BY <1>17 DEF Relist
  <2>2. p \in Readers => op[p].kind = "list"
    BY <2>1 DEF FetchedSame
  <2> QED BY <2>1, <2>2 DEF TypeOK, FetchedSame, Fetched
<1>18. ASSUME NEW p \in Procs, Search(p) PROVE FetchedSame'
  <2>1. UNCHANGED <<cnt, mem, cCnt, cMem>> /\ \A w \in Win : shared'[w] = shared[w]
    BY <1>18 DEF Search, TypeOK
  <2>2. \A q \in Procs : (pc'[q] = pc[q] /\ op'[q] = op[q]) \/ pc'[q] = "idle"
    BY <1>18 DEF Search, TypeOK
  <2> QED BY <2>1, <2>2 DEF FetchedSame, Fetched
<1>19. CASE UNCHANGED vars
  BY <1>19 DEF vars, TypeOK, FetchedSame, Fetched
<1> QED
  BY <1>1, <1>2, <1>3, <1>4, <1>5, <1>6, <1>7, <1>8, <1>9, <1>10, <1>11, <1>12,
     <1>13, <1>14, <1>15, <1>16, <1>17, <1>18, <1>19
  DEF Next, Step, RootPut, ReadStep

-----------------------------------------------------------------------------
(* The theorems. *)

\* The empty arrays and the free locks of CodeProperties' creation satisfy it.
LEMMA InitInv == Init => LockInv
<1> SUFFICES ASSUME Init PROVE LockInv
  OBVIOUS
<1>1. TypeOK
  BY InitType
<1>2. NamesUnique
  BY ParamAssumption DEF Init, NamesUnique, Used, Pending, Procs, Ranks
<1>3. LocksExclude
  BY SetTypes DEF Init, LocksExclude
<1>4. FetchOrder
  BY SetTypes DEF Init, FetchOrder, NoOp
<1>5. FetchedSame
  BY SetTypes DEF Init, FetchedSame
<1> QED BY <1>1, <1>2, <1>3, <1>4, <1>5 DEF LockInv

\* LockInv holds in every reachable state, for every number of ranks, names,
\* values and cells.
THEOREM Invariance == Spec => []LockInv
<1>1. LockInv /\ [Next]_vars => LockInv'
  BY TypeStep, NamesStep, LocksStep, OrderStep, FetchedStep DEF LockInv
<1> QED BY <1>1, InitInv, PTL DEF Spec

\* No write of the root rank leaves the arrays that were allocated, and every
\* other variable keeps its type.
THEOREM TypeCorrect == Spec => []TypeOK
<1>1. LockInv => TypeOK
  BY DEF LockInv
<1> QED BY <1>1, Invariance, PTL

\* A rank that searches its copy of a table has one state of that table, though
\* counter, names and values came through different windows.
THEOREM Coherence == Spec => []SnapshotCoherent
<1>1. LockInv => SnapshotCoherent
  BY SetTypes DEF LockInv, FetchedSame, Fetched, SnapshotCoherent
<1> QED BY <1>1, Invariance, PTL

\* From its exclusive lock of winGlob until it gives its locks back (while it
\* takes the other windows, writes the arrays and stores the counter of the int
\* and double types) no rank is in the middle of a read, and none holds a
\* window.  The counter of the string type is stored later, without a lock.
THEOREM WritersAlone ==
  Spec => [](pc[Root] \in {"exclWin", "write", "count", "release"} =>
               /\ shared["glob"] = {}
               /\ \A p \in Readers :
                    /\ pc[p] \notin ReadPcs \ {"acqGlob", "reacqGlob"}
                    /\ \A w \in Win : p \notin shared[w])
<1> DEFINE Alone == pc[Root] \in {"exclWin", "write", "count", "release"} =>
                      /\ shared["glob"] = {}
                      /\ \A p \in Readers :
                           /\ pc[p] \notin ReadPcs \ {"acqGlob", "reacqGlob"}
                           /\ \A w \in Win : p \notin shared[w]
<1>1. LockInv => Alone
  <2> SUFFICES ASSUME LockInv, pc[Root] \in {"exclWin", "write", "count", "release"}
               PROVE  /\ shared["glob"] = {}
                      /\ \A p \in Readers :
                           /\ pc[p] \notin ReadPcs \ {"acqGlob", "reacqGlob"}
                           /\ \A w \in Win : p \notin shared[w]
    OBVIOUS
  <2>1. shared["glob"] = {}
    BY DEF LockInv, LocksExclude
  <2>2. ASSUME NEW p \in Readers
        PROVE  pc[p] \notin ReadPcs \ {"acqGlob", "reacqGlob"} /\ \A w \in Win : p \notin shared[w]
    <3>1. pc[p] \notin ReadPcs \ {"acqGlob", "reacqGlob"}
      BY <2>1, SetTypes DEF LockInv, LocksExclude, ReadPcs
    <3>2. pc[p] \notin {"lock", "fetch"}
      BY <3>1 DEF ReadPcs
    <3> QED BY <3>1, <3>2 DEF LockInv, FetchOrder
  <2> QED BY <2>1, <2>2
<1> QED BY <1>1, Invariance, PTL
=============================================================================

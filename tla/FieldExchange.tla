---------------------------- MODULE FieldExchange ----------------------------
(***************************************************************************)
(* The exchange of the fields of one coupling, step by step: what          *)
(* CWP_Field_issend, _irecv, _wait_issend and _wait_irecv do between       *)
(* CWP_Time_step_beg and CWP_Time_step_end on the ranks of the two coupled *)
(* codes (Coupling and SpatialInterp, partitioned communications).         *)
(*                                                                         *)
(* A rank runs one code or both.  A rank that runs one code ("disjoint")   *)
(* starts its own half of an exchange.  On a rank that runs both ("joint") *)
(* the code of smaller id does the work of both, and the calls of the      *)
(* other code do nothing.                                                  *)
(*                                                                         *)
(* All fields have the same pair of degrees of freedom locations, so that  *)
(* they share one SpatialInterp, and its part-to-part object, for each     *)
(* direction.  The part-to-part library is external: the k-th exchange     *)
(* that a rank starts on an object meets the k-th of every other rank of   *)
(* the two codes.  Source data are abstracted to the time step that set    *)
(* them, and interpolation to the choice of the field.                     *)
(***************************************************************************)
EXTENDS Naturals, Sequences, FiniteSets

CONSTANTS
  RanksA,    \* the ranks of code A, the code of smaller id
  RanksB,    \* the ranks of code B
  Fields,
  Programs,  \* the calls the codes may make in a time step: one is chosen
  MaxSteps,  \* bound: number of time steps
  NoCall     \* no call was refused

Codes   == {"A", "B"}
Ranks   == RanksA \cup RanksB
RanksOf == [c \in Codes |-> IF c = "A" THEN RanksA ELSE RanksB]
Other   == [c \in Codes |-> IF c = "A" THEN "B" ELSE "A"]
Members == {m \in Ranks \X Codes : m[1] \in RanksOf[m[2]]}
Calls   == [op : {"issend", "irecv", "wait_issend", "wait_irecv"}, field : Fields]

ASSUME ExchangeAssumption ==
  /\ RanksA # {} /\ RanksB # {} /\ MaxSteps \in Nat
  /\ \A p \in Programs :
       p \in [Codes -> Seq(Calls)] /\ Len(p["A"]) = Len(p["B"])

VARIABLES
  prog,     \* prog[c]: the calls of code c in each time step
  eager,    \* the library completes a send before it is received
  done,     \* done[m]: the number of calls member <<rank, code>> returned from
  inside,   \* inside[r]: the codes whose blocking call rank r is in, one at most
  sendYet,  \* sendYet[m]: the fields with _is_send_yet
  recvYet,  \* recvYet[m]: the fields with _is_recv_yet
  exch,     \* exch[c][r]: the exchanges rank r has started in direction c to
            \* Other[c]: of which field, in which step, with which source data
  request,  \* request[c][r][f]: the last of them for field f, 0 if none
  target,   \* target[m][f]: the source data field f of m holds, per source rank
  refused   \* the member, call and step whose PDM_error ended the run

flags == <<sendYet, recvYet>>
lib   == <<exch, request>>
vars  == <<prog, eager, done, inside, flags, lib, target, refused>>

-----------------------------------------------------------------------------
(* Where a member is in its program. *)

IsJoint(m) == m[1] \in RanksA \cap RanksB
Partner(m) == <<m[1], Other[m[2]]>>

\* A time step: CWP_Time_step_beg, the calls of the program, CWP_Time_step_end.
Period == Len(prog["A"]) + 2
Pos(m) == done[m] % Period
Now(m) == done[m] \div Period + 1

AtEnd(m) == Pos(m) = Period - 1
Call(m)  == prog[m[2]][Pos(m)]
Is(m, op) == Pos(m) \in DOMAIN prog[m[2]] /\ Call(m).op = op

\* The single thread of a joint rank makes the n-th calls of its two codes one
\* after the other.
Free(m) == inside[m[1]] = {} /\ (IsJoint(m) => done[m] <= done[Partner(m)])

Returned(m) == done' = [done EXCEPT ![m] = @ + 1]

\* Faulty variants: on a joint rank each code does its own half, or none does.
WorksTwice(m) == TRUE
WorksAlone(m) == ~IsJoint(m)

\* localCodeIs and idGet: the calls of this member exchange data.
Works(m) == IsJoint(m) => m[2] = "A"

\* The direction in which a call of m exchanges: from code Direction(m).
Direction(m) == IF Call(m).op \in {"issend", "wait_issend"} THEN m[2] ELSE Other[m[2]]

-----------------------------------------------------------------------------
(* CWP_Time_step_beg and CWP_Time_step_end. *)

EnterBegin(m) ==
  /\ Free(m) /\ Pos(m) = 0 /\ Now(m) <= MaxSteps
  /\ inside' = [inside EXCEPT ![m[1]] = {m[2]}]
  /\ UNCHANGED <<prog, eager, done, flags, lib, target, refused>>

\* The barriers of CWP_Time_step_beg; the user then sets the fields' data.
time_step_beg(c) ==
  /\ \A r \in RanksOf[c] : inside[r] = {c} /\ Pos(<<r, c>>) = 0
  /\ inside' = [r \in Ranks |-> IF r \in RanksOf[c] THEN {} ELSE inside[r]]
  /\ done' = [m \in Members |-> IF m[2] = c THEN done[m] + 1 ELSE done[m]]
  /\ UNCHANGED <<prog, eager, flags, lib, target, refused>>

EnterEnd(m) ==
  /\ Free(m) /\ AtEnd(m)
  /\ inside' = [inside EXCEPT ![m[1]] = {m[2]}]
  /\ UNCHANGED <<prog, eager, done, flags, lib, target, refused>>

\* Faulty variant: the status of the fields is kept.
KeepFlags(c) == UNCHANGED flags

\* "reset field status to unexchanged", on every rank of the code.
ResetFlags(c) ==
  /\ sendYet' = [m \in Members |-> IF m[2] = c THEN {} ELSE sendYet[m]]
  /\ recvYet' = [m \in Members |-> IF m[2] = c THEN {} ELSE recvYet[m]]

\* The barrier of CWP_Time_step_end, and Coupling::time_step_end after it.
time_step_end(c) ==
  /\ \A r \in RanksOf[c] : inside[r] = {c} /\ AtEnd(<<r, c>>)
  /\ ResetFlags(c)
  /\ inside' = [r \in Ranks |-> IF r \in RanksOf[c] THEN {} ELSE inside[r]]
  /\ done' = [m \in Members |-> IF m[2] = c THEN done[m] + 1 ELSE done[m]]
  /\ UNCHANGED <<prog, eager, lib, target, refused>>

-----------------------------------------------------------------------------
(* The calls that start an exchange. *)

\* Faulty variant: the status of the field is not tested.
RefusesNothing(m) == FALSE

\* "The field has already been exchanged for the current time step": the tests
\* of _is_send_yet and _is_recv_yet on the way of issend or irecv.  On a joint
\* rank Coupling passes the field of its own code to both halves.
Refuses(m) ==
  LET f == Call(m).field
  IN IF IsJoint(m) THEN m[2] = "A" /\ f \in sendYet[m] \cup recvYet[m]
     ELSE f \in IF Call(m).op = "issend" THEN sendYet[m] ELSE recvYet[m]

Refuse(m) ==
  /\ refused' = [member |-> m, call |-> Call(m), step |-> Now(m)]
  /\ UNCHANGED <<prog, eager, done, inside, flags, lib, target>>

\* Faulty variant: the request is that of the next exchange.
StartOff(m) ==
  LET r == m[1]  c == Direction(m)  f == Call(m).field
  IN /\ exch' = [exch EXCEPT ![c][r] =
                   Append(@, [field |-> f, step |-> Now(m),
                              data |-> IF r \in RanksOf[c] THEN Now(<<r, c>>) ELSE 0])]
     /\ request' = [request EXCEPT ![c][r][f] = Len(exch'[c][r]) + 1]

\* PDM_part_to_part_iexch: the rank starts its next exchange, and sends the data
\* its source code has in its field at that time.
Start(m) ==
  LET r == m[1]  c == Direction(m)  f == Call(m).field
  IN /\ exch' = [exch EXCEPT ![c][r] =
                   Append(@, [field |-> f, step |-> Now(m),
                              data |-> IF r \in RanksOf[c] THEN Now(<<r, c>>) ELSE 0])]
     /\ request' = [request EXCEPT ![c][r][f] = Len(exch'[c][r])]

issend_irecv(m) ==
  /\ Free(m) /\ (Is(m, "issend") \/ Is(m, "irecv"))
  /\ \/ Refuses(m) /\ Refuse(m)
     \/ /\ ~Refuses(m)
        /\ IF Works(m) THEN Start(m) ELSE UNCHANGED lib
        /\ Returned(m)
        /\ UNCHANGED <<prog, eager, inside, flags, target, refused>>

-----------------------------------------------------------------------------
(* The calls that wait for it. *)

EnterWait(m) ==
  /\ Free(m) /\ (Is(m, "wait_issend") \/ Is(m, "wait_irecv"))
  /\ Works(m)
  /\ inside' = [inside EXCEPT ![m[1]] = {m[2]}]
  /\ UNCHANGED <<prog, eager, done, flags, lib, target, refused>>

\* On a joint rank, a wait of the code that does not work returns at once.
SkipWait(m) ==
  /\ Free(m) /\ (Is(m, "wait_issend") \/ Is(m, "wait_irecv"))
  /\ ~Works(m)
  /\ Returned(m)
  /\ UNCHANGED <<prog, eager, inside, flags, lib, target, refused>>

\* PDM_part_to_part_iexch_wait of the k-th exchange of rank r, from code c.
Complete(c, r, k) ==
  /\ r \in RanksOf[Other[c]] => \A s \in RanksOf[c] : k <= Len(exch[c][s])
  /\ r \in RanksOf[c] =>
       eager \/ \A t \in RanksOf[Other[c]] : k <= Len(exch[c][t])

\* What the k-th exchange from code c brings, from each of its ranks.
Received(c, k) ==
  [s \in RanksOf[c] |-> [field |-> exch[c][s][k].field, data |-> exch[c][s][k].data]]

\* The members whose source and target field an exchange of m is on this rank:
\* m alone, or both codes on a joint rank.
Senders(m)   == {x \in Members : x[1] = m[1] /\ x[2] = Direction(m)}
Receivers(m) == {x \in Members : x[1] = m[1] /\ x[2] = Other[Direction(m)]}

waitIssend_waitIrecv(m) ==
  LET r == m[1]  c == Direction(m)  f == Call(m).field  k == request[c][r][f]
  IN /\ inside[r] = {m[2]} /\ (Is(m, "wait_issend") \/ Is(m, "wait_irecv"))
     /\ k > 0 /\ Complete(c, r, k)
     /\ target' = [x \in Members |-> IF x \in Receivers(m)
                     THEN [target[x] EXCEPT ![f] = Received(c, k)] ELSE target[x]]
     /\ sendYet' = [x \in Members |->
                      IF x \in Senders(m) THEN sendYet[x] \cup {f} ELSE sendYet[x]]
     /\ recvYet' = [x \in Members |->
                      IF x \in Receivers(m) THEN recvYet[x] \cup {f} ELSE recvYet[x]]
     /\ inside' = [inside EXCEPT ![r] = {}]
     /\ Returned(m)
     /\ UNCHANGED <<prog, eager, lib, refused>>

-----------------------------------------------------------------------------
Init ==
  /\ prog \in Programs /\ eager \in BOOLEAN
  /\ done    = [m \in Members |-> 0]
  /\ inside  = [r \in Ranks |-> {}]
  /\ sendYet = [m \in Members |-> {}]
  /\ recvYet = [m \in Members |-> {}]
  /\ exch    = [c \in Codes |-> [r \in Ranks |-> <<>>]]
  /\ request = [c \in Codes |-> [r \in Ranks |-> [f \in Fields |-> 0]]]
  /\ target  = [m \in Members |-> [f \in Fields |-> <<>>]]
  /\ refused = NoCall

Step(m) ==
  \/ EnterBegin(m) \/ issend_irecv(m) \/ EnterWait(m) \/ SkipWait(m)
  \/ waitIssend_waitIrecv(m) \/ EnterEnd(m)

Next ==
  /\ refused = NoCall
  /\ \/ \E m \in Members : Step(m)
     \/ \E c \in Codes : time_step_beg(c) \/ time_step_end(c)

Spec == Init /\ [][Next]_vars

\* Every rank goes on with its program, and MPI with its barriers.
Fairness ==
  /\ \A m \in Members : WF_vars(refused = NoCall /\ Step(m))
  /\ \A c \in Codes : WF_vars(refused = NoCall /\ (time_step_beg(c) \/ time_step_end(c)))

FairSpec == Spec /\ Fairness

-----------------------------------------------------------------------------
(* Properties. *)

TypeOK ==
  /\ prog \in Programs /\ eager \in BOOLEAN
  /\ done \in [Members -> Nat]
  /\ inside \in [Ranks -> SUBSET Codes]
  /\ sendYet \in [Members -> SUBSET Fields]
  /\ recvYet \in [Members -> SUBSET Fields]
  /\ exch \in [Codes -> [Ranks -> Seq([field : Fields, step : Nat, data : Nat])]]
  /\ request \in [Codes -> [Ranks -> [Fields -> Nat]]]
  /\ \A c \in Codes, r \in Ranks, f \in Fields : request[c][r][f] <= Len(exch[c][r])
  /\ DOMAIN target = Members
  /\ \A m \in Members :
       target[m] \in [Fields -> {<<>>} \cup
                       [RanksOf[Other[m[2]]] -> [field : Fields, data : Nat]]]
  /\ refused \in {NoCall} \cup [member : Members, call : Calls, step : Nat]

\* The calls of m that are over, in the time step it is in.
Over(m, op, f) == \E i \in 1 .. Pos(m) - 1 : prog[m[2]][i] = [op |-> op, field |-> f]

\* At the end of a time step every field that was received holds, from every
\* source rank, the data that the coupled code set in that same step, although
\* the exchanges of all fields are told apart by their order only and each rank
\* goes its own pace.
StepDelivered ==
  \A m \in Members, f \in Fields :
    (AtEnd(m) /\ (IsJoint(m) => done[Partner(m)] >= done[m]) /\ Over(m, "wait_irecv", f)) =>
      target[m][f] = [s \in RanksOf[Other[m[2]]] |-> [field |-> f, data |-> Now(m)]]

\* "Each field can only be exchanged once within a time step": an exchange that
\* was waited for is not started again.  The code lets two starts before the
\* first wait through (the programs with WaitsBetween make none).
OncePerStep ==
  \A c \in Codes, r \in Ranks : \A i, j \in DOMAIN exch[c][r] :
    (exch[c][r][i].field = exch[c][r][j].field /\ exch[c][r][i].step = exch[c][r][j].step)
      => i = j

\* "The field has already been exchanged for the current time step": a call is
\* refused only when that is so.
OnlyRepeatsRefused ==
  refused # NoCall =>
    LET m == refused.member
    IN \E i \in DOMAIN exch[Direction(m)][m[1]] :
         /\ exch[Direction(m)][m[1]][i].field = refused.call.field
         /\ exch[Direction(m)][m[1]][i].step = refused.step

\* A time step that a rank has begun ends, or a call is refused: neither the
\* order in which the ranks make their calls, nor the way a joint rank does the
\* work of two codes, makes the codes wait for one another for ever.
StepsEnd ==
  \A m \in Members : (Pos(m) # 0) ~> (Pos(m) = 0 \/ refused # NoCall)

-----------------------------------------------------------------------------
(* What the two codes owe each other for StepDelivered and                 *)
(* OnlyRepeatsRefused, whatever their calls are; OncePerStep needs         *)
(* WaitsBetween only.                                                      *)

StartOp(a, d) == IF a = d THEN "issend" ELSE "irecv"
WaitOp(a, d)  == IF a = d THEN "wait_issend" ELSE "wait_irecv"

\* The calls of code a among its first n that start an exchange in direction d.
StartsTo(p, a, d, n) == {i \in 1 .. n : p[a][i].op = StartOp(a, d)}
Count(p, a, d, n)    == Cardinality(StartsTo(p, a, d, n))

\* The codes start the same exchanges of a direction, in the same order.
SameOrder(p) ==
  \A d \in Codes :
    /\ Count(p, "A", d, Len(p["A"])) = Count(p, "B", d, Len(p["A"]))
    /\ \A i \in StartsTo(p, "A", d, Len(p["A"])), j \in StartsTo(p, "B", d, Len(p["A"])) :
         Count(p, "A", d, i) = Count(p, "B", d, j) => p["A"][i].field = p["B"][j].field

\* What one code waits to receive, the other waits to have sent.
SameWaits(p) ==
  \A c \in Codes : \A i \in DOMAIN p[c] :
    p[c][i].op = "wait_irecv" =>
      \E j \in DOMAIN p[Other[c]] :
        p[Other[c]][j] = [op |-> "wait_issend", field |-> p[c][i].field]

\* A code waits for what it has started before it starts it again.
WaitsBetween(p) ==
  \A a, d \in Codes, f \in Fields : \A i, j \in DOMAIN p[a] :
    /\ i < j
    /\ p[a][i] = [op |-> StartOp(a, d), field |-> f]
    /\ p[a][j] = [op |-> StartOp(a, d), field |-> f]
    => \E k \in i + 1 .. j - 1 : p[a][k] = [op |-> WaitOp(a, d), field |-> f]

\* A code waits for what it has started in the time step.
WaitsAfter(p) ==
  \A a, d \in Codes, f \in Fields : \A j \in DOMAIN p[a] :
    p[a][j] = [op |-> WaitOp(a, d), field |-> f] =>
      \E i \in 1 .. j - 1 : p[a][i] = [op |-> StartOp(a, d), field |-> f]

\* Where ranks run both codes, a field that is both sent and received starts in
\* both directions before the first wait: the status of the two is one there.
JointOrder(p) ==
  RanksA \cap RanksB # {} =>
    \A k, j \in DOMAIN p["A"] :
      /\ k < j /\ p["A"][k].field = p["A"][j].field
      /\ p["A"][k].op \in {"wait_issend", "wait_irecv"}
      /\ p["A"][j].op \in {"issend", "irecv"}
      => \E i \in 1 .. j - 1 : p["A"][i] = p["A"][j]

-----------------------------------------------------------------------------
(* The inductive invariant behind these three properties. *)

\* The calls of the program that are over in the time step m is in.
OverTo(m) == IF Pos(m) = 0 THEN 0 ELSE Pos(m) - 1

\* The number of exchanges of direction d in a time step.
PerStep(m, d) == Count(prog, m[2], d, Len(prog["A"]))

\* A rank is in one blocking call of a code it runs; its two codes take turns.
TakeTurns ==
  /\ \A r \in Ranks : inside[r] # {} =>
       \E c \in Codes : /\ inside[r] = {c} /\ <<r, c>> \in Members
                        /\ Pos(<<r, c>>) = 0 \/ AtEnd(<<r, c>>) \/ Works(<<r, c>>)
                        /\ IsJoint(<<r, c>>) => done[<<r, c>>] <= done[<<r, Other[c]>>]
  /\ \A m \in Members : IsJoint(m) => done[m] <= done[Partner(m)] + 1

\* The exchanges the rank of m has started: those of every step, in program order.
Counted(m) ==
  \A d \in Codes :
    Len(exch[d][m[1]]) = (Now(m) - 1) * PerStep(m, d) + Count(prog, m[2], d, OverTo(m))

\* The k-th exchange of the rank of m is that of the i-th call of step st.
Logs(m, d, k, i, st) ==
  /\ k = (st - 1) * PerStep(m, d) + Count(prog, m[2], d, i)
  /\ st < Now(m) \/ (st = Now(m) /\ i <= OverTo(m))
  /\ exch[d][m[1]][k] = [field |-> prog[m[2]][i].field, step |-> st,
                         data |-> IF m[1] \in RanksOf[d] THEN st ELSE 0]

Logged(m) ==
  \A d \in Codes : \A k \in 1 .. Len(exch[d][m[1]]) :
    \E i \in StartsTo(prog, m[2], d, Len(prog["A"])), st \in 1 .. Now(m) : Logs(m, d, k, i, st)

\* The request of a field is that of its last exchange.
LastRequest(m) ==
  \A d \in Codes, f \in Fields :
    LET log == exch[d][m[1]]  last == request[d][m[1]][f]
    IN /\ last # 0 => log[last].field = f
       /\ \A k \in 1 .. Len(log) : log[k].field = f => k <= last

\* The status of a field is that of the waits of this step.
FlagsOver(m) ==
  \A f \in Fields :
    /\ f \in sendYet[m] <=> Over(m, "wait_issend", f)
    /\ f \in recvYet[m] <=> Over(m, "wait_irecv", f)

\* No call that starts an exchange was let through twice in a step.
NoRepeat(m) ==
  \A i, j \in DOMAIN prog[m[2]] :
    /\ i < j /\ prog[m[2]][i] = prog[m[2]][j]
    /\ j <= OverTo(m) \/ Now(m) > 1
    => prog[m[2]][i].op \notin {"issend", "irecv"}

\* The calls of the last step m has called in, and that step.
LastTo(m)   == IF Pos(m) = 0 THEN Len(prog["A"]) ELSE Pos(m) - 1
LastStep(m) == IF Pos(m) = 0 THEN Now(m) - 1 ELSE Now(m)

\* A wait that is over has brought the data of its step.
Brought(m) ==
  \A x \in Members, f \in Fields :
    x[1] = m[1] /\ LastStep(m) > 0 =>
      \A i \in 1 .. LastTo(m) :
        prog[m[2]][i] = [op |-> WaitOp(m[2], Other[x[2]]), field |-> f] =>
          target[x][f] = [s \in RanksOf[Other[x[2]]] |-> [field |-> f, data |-> LastStep(m)]]

\* What the rank of m has done so far.
Account(m) ==
  Counted(m) /\ Logged(m) /\ LastRequest(m) /\ FlagsOver(m) /\ NoRepeat(m)

\* Each rank has started the exchanges of its program, in order: inductive
\* where the codes keep WaitsBetween.
Accounts == TypeOK /\ TakeTurns /\ \A m \in Members : Works(m) => Account(m)

\* And its waits have brought what was sent in their step: the inductive invariant.
IInv == Accounts /\ \A m \in Members : Works(m) => Brought(m)
=============================================================================

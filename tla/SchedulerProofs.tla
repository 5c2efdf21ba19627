-------------------------- MODULE SchedulerProofs --------------------------
(***************************************************************************)
(* Machine-checked proofs that the safety properties of Scheduler hold for *)
(* any number of sources, dispatchers, workers, cycles and faults.         *)
(***************************************************************************)
EXTENDS Scheduler, FiniteSetTheorems, TLAPS

USE DEF Fault, Beat, ledger, locks

-----------------------------------------------------------------------------
(* Operators of the ledger.                                                *)

(* Counting the rows of one outcome gives a natural number. *)
LEMMA CountsType ==
    ASSUME NEW rows
    PROVE  CountsOf(rows) \in [Outcomes -> Nat]
<1>1. ASSUME NEW o \in Outcomes
      PROVE  Cardinality({s \in Sources : rows[s].state = o}) \in Nat
  <2>1. IsFiniteSet({s \in Sources : rows[s].state = o})
    BY SchedulerAssumption, FS_Subset
  <2> QED  BY <2>1, FS_CardinalityType
<1> QED  BY <1>1 DEF CountsOf

(* A recount never yields "absent" or "dispatching", and it yields         *)
(* "dispatched" exactly when something is pending.                         *)
LEMMA StateType ==
    ASSUME NEW rows
    PROVE  /\ StateOf(rows) \in {"dispatched"} \cup Closed
           /\ StateOf(rows) = "dispatched" <=> \E s \in Sources : rows[s].state \in Pending
BY DEF StateOf, Closed

(* Replacing one row of a typed ledger by a row. *)
LEMMA UpdatedType ==
    ASSUME TypeOK, NEW c \in Cycles, NEW s \in Sources, NEW r \in SourceRows
    PROVE  /\ Updated(c, s, r) \in [Cycles -> [Sources -> SourceRows]]
           /\ \A b \in Cycles, u \in Sources :
                Updated(c, s, r)[b][u] = IF b = c /\ u = s THEN r ELSE row[b][u]
BY DEF TypeOK, Updated

(* The three ways a row changes yield rows. *)
LEMMA RowTypes ==
    ASSUME TypeOK, NEW c \in Cycles, NEW s \in Sources
    PROVE  /\ [row[c][s] EXCEPT !.message = "known"] \in SourceRows
           /\ \A o \in Outcomes : [row[c][s] EXCEPT !.state = o, !.at = tick] \in SourceRows
           /\ \A n \in Nat : [row[c][s] EXCEPT !.state = "running", !.at = n] \in SourceRows
<1>1. row[c][s] \in SourceRows /\ tick \in Nat
  BY DEF TypeOK
<1> QED  BY <1>1 DEF SourceRows, Pending

LEMMA ChangeTypes ==
    ASSUME TypeOK, NEW c \in Cycles, NEW s \in Sources
    PROVE  /\ Bound(c, s) \in [Cycles -> [Sources -> SourceRows]]
           /\ \A o \in Outcomes : Ended(c, s, o) \in [Cycles -> [Sources -> SourceRows]]
<1>1. Bound(c, s) \in [Cycles -> [Sources -> SourceRows]]
  BY UpdatedType, RowTypes DEF Bound
<1>2. ASSUME NEW o \in Outcomes
      PROVE  Ended(c, s, o) \in [Cycles -> [Sources -> SourceRows]]
  BY UpdatedType, RowTypes DEF Ended
<1> QED  BY <1>1, <1>2

(* Sending a job keeps the queue within its bound. *)
LEMMA SentType ==
    ASSUME TypeOK, NEW j \in Jobs
    PROVE  Sent(queue, j) \in [Cycles -> [Sources -> 0..MaxDup]]
BY SchedulerAssumption DEF TypeOK, Sent, Jobs

-----------------------------------------------------------------------------
(* Local states.                                                           *)

(* The updates of one dispatcher's locals are dispatcher states. *)
LEMMA DispTypes ==
    ASSUME TypeOK, NEW d \in Dispatchers
    PROVE  /\ \A pc \in DispPcs : Goto(d, pc) => disp' \in [Dispatchers -> DispStates]
           /\ \A pc \in DispPcs, j \in Jobs : Pick(d, pc, j) => disp' \in [Dispatchers -> DispStates]
           /\ \A pc \in DispPcs : Done(d, pc) => disp' \in [Dispatchers -> DispStates]
           /\ \A c \in Cycles, jobs \in SUBSET Jobs :
                Owe(d, c, jobs) => disp' \in [Dispatchers -> DispStates]
           /\ Sleep(d) \/ Raise(d) => /\ disp' \in [Dispatchers -> DispStates]
                                      /\ schedulerLock' \in Dispatchers \cup {None}
<1>1. disp[d] \in DispStates
  BY DEF TypeOK
<1>2. \A pc \in DispPcs : [disp[d] EXCEPT !.pc = pc] \in DispStates
  BY <1>1 DEF DispStates
<1>3. \A pc \in DispPcs, j \in Jobs : [disp[d] EXCEPT !.pc = pc, !.cur = j] \in DispStates
  BY <1>1 DEF DispStates
<1>4. \A pc \in DispPcs :
        [disp[d] EXCEPT !.pc = pc, !.cur = None, !.todo = disp[d].todo \ {disp[d].cur}] \in DispStates
  BY <1>1 DEF DispStates
<1>5. \A c \in Cycles, jobs \in SUBSET Jobs :
        [disp[d] EXCEPT !.pc = "dispatch", !.cycle = c, !.due = {}, !.todo = jobs] \in DispStates
  BY <1>1 DEF DispStates, DispPcs
<1>6. Asleep \in DispStates /\ [Asleep EXCEPT !.pc = "raised"] \in DispStates
  BY DEF DispStates, DispPcs, Asleep
<1>7. \A r \in DispStates : [disp EXCEPT ![d] = r] \in [Dispatchers -> DispStates]
  BY DEF TypeOK
<1>8. \A pc \in DispPcs : Goto(d, pc) => disp' \in [Dispatchers -> DispStates]
  BY <1>2, <1>7 DEF Goto
<1>9. \A pc \in DispPcs, j \in Jobs : Pick(d, pc, j) => disp' \in [Dispatchers -> DispStates]
  BY <1>3, <1>7 DEF Pick
<1>10. \A pc \in DispPcs : Done(d, pc) => disp' \in [Dispatchers -> DispStates]
  BY <1>4, <1>7 DEF Done
<1>11. \A c \in Cycles, jobs \in SUBSET Jobs :
         Owe(d, c, jobs) => disp' \in [Dispatchers -> DispStates]
  BY <1>5, <1>7 DEF Owe
<1>12. Sleep(d) \/ Raise(d) => disp' \in [Dispatchers -> DispStates]
  BY <1>6, <1>7 DEF Sleep, Raise
<1>13. Sleep(d) \/ Raise(d) => schedulerLock' \in Dispatchers \cup {None}
  BY DEF Sleep, Raise, Unlock, TypeOK
<1> QED  BY <1>8, <1>9, <1>10, <1>11, <1>12, <1>13

LEMMA WorkTypes ==
    ASSUME TypeOK, NEW w \in Workers
    PROVE  /\ \A pc \in WorkerPcs : WorkerAt(w, pc) => worker' \in [Workers -> WorkStates]
           /\ Release(w) => /\ worker' \in [Workers -> WorkStates]
                            /\ sourceLock' \in [Sources -> Workers \cup {None}]
           /\ \A j \in Jobs : [Idle EXCEPT !.pc = "locked", !.job = j] \in WorkStates
           /\ \A o \in Outcomes : [worker[w] EXCEPT !.pc = "finish", !.outcome = o] \in WorkStates
<1>1. worker[w] \in WorkStates /\ sourceLock \in [Sources -> Workers \cup {None}]
  BY DEF TypeOK
<1>2. \A pc \in WorkerPcs : [worker[w] EXCEPT !.pc = pc] \in WorkStates
  BY <1>1 DEF WorkStates
<1>3. Idle \in WorkStates
  BY DEF WorkStates, Idle, WorkerPcs
<1>4. \A r \in WorkStates : [worker EXCEPT ![w] = r] \in [Workers -> WorkStates]
  BY DEF TypeOK
<1>5. \A j \in Jobs : [Idle EXCEPT !.pc = "locked", !.job = j] \in WorkStates
  BY DEF WorkStates, Idle, WorkerPcs
<1>6. \A o \in Outcomes : [worker[w] EXCEPT !.pc = "finish", !.outcome = o] \in WorkStates
  BY <1>1 DEF WorkStates, WorkerPcs
<1>7. \A pc \in WorkerPcs : WorkerAt(w, pc) => worker' \in [Workers -> WorkStates]
  BY <1>2, <1>4 DEF WorkerAt
<1>8. Release(w) => worker' \in [Workers -> WorkStates]
  BY <1>3, <1>4 DEF Release
<1>9. Release(w) => sourceLock' \in [Sources -> Workers \cup {None}]
  BY <1>1 DEF Release
<1> QED  BY <1>5, <1>6, <1>7, <1>8, <1>9

-----------------------------------------------------------------------------
(* Types are preserved.                                                    *)

(* The first state has the types. *)
LEMMA TypeInit == Init => TypeOK
<1> SUFFICES ASSUME Init PROVE TypeOK
  OBVIOUS
<1>1. NoRow \in SourceRows
  BY DEF NoRow, SourceRows
<1>2. NoCycle \in CycleRows
  BY DEF NoCycle, CycleRows
<1>3. Asleep \in DispStates
  BY DEF Asleep, DispStates, DispPcs
<1>4. Idle \in WorkStates
  BY DEF Idle, WorkStates, WorkerPcs
<1>5. 0 \in 0..MaxDup
  BY SchedulerAssumption
<1> QED  BY <1>1, <1>2, <1>3, <1>4, <1>5 DEF Init, TypeOK

LEMMA RecoverType ==
    ASSUME TypeOK, Targets, NEW d \in Dispatchers,
           \/ RecoverBegin(d) \/ RecoverSend(d) \/ RecoverBind(d)
           \/ RecoverEnd(d) \/ RecoverReport(d)
    PROVE  TypeOK'
<1> USE DEF DispPcs
<1>1. CASE RecoverBegin(d)
  <2>1. ASSUME NEW stale \in SUBSET Stalable,
               disp' = [disp EXCEPT ![d] = [Asleep EXCEPT !.pc = "recover", !.todo = stale]]
        PROVE  disp' \in [Dispatchers -> DispStates]
    <3>1. [Asleep EXCEPT !.pc = "recover", !.todo = stale] \in DispStates
      BY DEF Asleep, DispStates, Stalable
    <3> QED  BY <2>1, <3>1 DEF TypeOK
  <2>2. Goto(d, "awake") => disp' \in [Dispatchers -> DispStates]
    BY DispTypes
  <2>4. disp' \in [Dispatchers -> DispStates]
    BY <1>1, <2>1, <2>2 DEF RecoverBegin
  <2>3. schedulerLock' \in Dispatchers \cup {None}
    BY <1>1 DEF RecoverBegin, TypeOK
  <2> QED  BY <1>1, <2>3, <2>4 DEF RecoverBegin, TypeOK
<1>2. CASE RecoverSend(d)
  <2>1. PICK j \in disp[d].todo : queue' = Sent(queue, j) /\ Pick(d, "rebind", j)
    BY <1>2 DEF RecoverSend
  <2>2. j \in Jobs
    <3>1. disp[d] \in DispStates
      BY DEF TypeOK
    <3> QED  BY <3>1 DEF DispStates
  <2> QED  BY <1>2, <2>1, <2>2, SentType, DispTypes DEF RecoverSend, TypeOK
<1>3. CASE RecoverBind(d)
  <2>1. PICK c \in Cycles, s \in Sources : disp[d].cur = <<c, s>>
    BY <1>3 DEF RecoverBind, Targets, Jobs
  <2>2. row' \in [Cycles -> [Sources -> SourceRows]]
    BY <1>3, <2>1, ChangeTypes DEF RecoverBind, TypeOK
  <2>3. Done(d, "recover") => disp' \in [Dispatchers -> DispStates]
    BY DispTypes
  <2>4. Raise(d) => /\ disp' \in [Dispatchers -> DispStates]
                    /\ schedulerLock' \in Dispatchers \cup {None}
    BY DispTypes
  <2>5. disp' \in [Dispatchers -> DispStates] /\ schedulerLock' \in Dispatchers \cup {None}
    BY <1>3, <2>3, <2>4 DEF RecoverBind, TypeOK
  <2> QED  BY <1>3, <2>2, <2>5 DEF RecoverBind, TypeOK
<1>4. CASE RecoverEnd(d)
  BY <1>4, DispTypes DEF RecoverEnd, TypeOK, Unlock
<1>5. CASE RecoverReport(d)
  BY <1>5, DispTypes DEF RecoverReport, TypeOK
<1> QED  BY <1>1, <1>2, <1>3, <1>4, <1>5

LEMMA DispatchType ==
    ASSUME TypeOK, Targets, NEW d \in Dispatchers,
           DispatchBegin(d) \/ DispatchRead(d) \/ BeginCycle(d)
    PROVE  TypeOK'
<1> USE DEF DispPcs
<1>0. Sleep(d) \/ Raise(d) => /\ disp' \in [Dispatchers -> DispStates]
                             /\ schedulerLock' \in Dispatchers \cup {None}
  BY DispTypes
<1>1. CASE DispatchBegin(d)
  <2>1. [Asleep EXCEPT !.pc = "read", !.now = tick] \in DispStates
    BY DEF Asleep, DispStates, TypeOK
  <2>2. disp' \in [Dispatchers -> DispStates] /\ schedulerLock' \in Dispatchers \cup {None}
    BY <1>0, <1>1, <2>1 DEF DispatchBegin, TypeOK
  <2> QED  BY <1>1, <2>2 DEF DispatchBegin, TypeOK
<1>2. CASE DispatchRead(d)
  <2>1. ASSUME NEW c \in Cycles, Resume(d, c)
        PROVE  TypeOK'
    <3>1. {c} \X UnboundIn(c) \in SUBSET Jobs
      BY DEF UnboundIn, PendingIn, Jobs
    <3>2. disp' \in [Dispatchers -> DispStates]
      BY <2>1, <3>1, DispTypes DEF Resume
    <3> QED  BY <1>2, <2>1, <3>2 DEF DispatchRead, Resume, TypeOK
  <2>2. ASSUME FindDue(d)
        PROVE  TypeOK'
    <3>1. ASSUME NEW due \in SUBSET Sources
          PROVE  [disp[d] EXCEPT !.pc = "begin", !.due = due] \in DispStates
      BY DEF TypeOK, DispStates
    <3>2. MayBeDue(disp[d].now) \in SUBSET Sources
      BY DEF MayBeDue
    <3>3. PICK due \in SUBSET Sources :
            disp' = [disp EXCEPT ![d] = [@ EXCEPT !.pc = "begin", !.due = due]]
      BY <2>2, <3>2 DEF FindDue
    <3>4. disp' \in [Dispatchers -> DispStates]
      BY <3>1, <3>3 DEF TypeOK
    <3> QED  BY <1>2, <2>2, <3>4 DEF DispatchRead, FindDue, TypeOK
  <2>3. ASSUME NothingDue(d)
        PROVE  TypeOK'
    BY <1>0, <1>2, <2>3 DEF DispatchRead, NothingDue, TypeOK
  <2> QED  BY <1>2, <2>1, <2>2, <2>3 DEF DispatchRead
<1>3. CASE BeginCycle(d)
  <2>1. disp[d].due \in SUBSET Sources /\ disp[d].now \in Nat /\ tick \in Nat
    BY DEF TypeOK, DispStates
  <2>2. \A c \in Cycles : {c} \X disp[d].due \in SUBSET Jobs
    BY <2>1 DEF Jobs
  <2>3. ASSUME NEW c \in Cycles, Insert(d, c, disp[d].due)
        PROVE  TypeOK'
    <3>1. disp' \in [Dispatchers -> DispStates]
      BY <2>2, <2>3, DispTypes DEF Insert
    <3>2. [NoCycle EXCEPT !.state = "dispatching", !.eligible = disp[d].due,
                          !.bucket = disp[d].now] \in CycleRows
      BY <2>1 DEF NoCycle, CycleRows, Open
    <3>3. cycle' \in [Cycles -> CycleRows]
      BY <2>3, <3>2 DEF Insert, TypeOK
    <3>4. NoRow \in SourceRows /\ [state |-> "queued", message |-> "null", at |-> tick] \in SourceRows
      BY <2>1 DEF NoRow, SourceRows, Pending
    <3>5. row' \in [Cycles -> [Sources -> SourceRows]]
      BY <2>3, <3>4 DEF Insert, TypeOK
    <3> QED  BY <1>3, <2>3, <3>1, <3>3, <3>5 DEF BeginCycle, Insert, TypeOK
  <2>4. ASSUME NEW c \in Cycles, Existing(d, c)
        PROVE  TypeOK'
    <3>1. Owe(d, c, {c} \X disp[d].due) => disp' \in [Dispatchers -> DispStates]
      BY <2>2, DispTypes
    <3>2. disp' \in [Dispatchers -> DispStates] /\ schedulerLock' \in Dispatchers \cup {None}
      BY <1>0, <2>4, <3>1 DEF Existing, TypeOK
    <3>3. heartbeat' \in {heartbeat, "idle", "dispatching"}
      BY <2>4 DEF Existing
    <3> QED  BY <1>3, <2>4, <3>2, <3>3 DEF BeginCycle, Existing, TypeOK
  <2> QED  BY <1>3, <2>3, <2>4 DEF BeginCycle
<1> QED  BY <1>1, <1>2, <1>3

LEMMA SendType ==
    ASSUME TypeOK, Targets, NEW d \in Dispatchers,
           Send(d) \/ Bind(d) \/ FailDispatch(d)
    PROVE  TypeOK'
<1> USE DEF DispPcs
<1>1. CASE Send(d)
  <2>1. PICK j \in disp[d].todo :
          \/ queue' = Sent(queue, j) /\ Pick(d, "bind", j) /\ UNCHANGED faults
          \/ Fault /\ Pick(d, "undo", j) /\ UNCHANGED queue
    BY <1>1 DEF Send
  <2>2. j \in Jobs
    <3>1. disp[d] \in DispStates
      BY DEF TypeOK
    <3> QED  BY <3>1 DEF DispStates
  <2>3. disp' \in [Dispatchers -> DispStates]
    BY <2>1, <2>2, DispTypes
  <2>4. queue' \in [Cycles -> [Sources -> 0..MaxDup]] /\ faults' \in Nat
    BY <2>1, <2>2, SentType DEF TypeOK
  <2> QED  BY <1>1, <2>3, <2>4 DEF Send, TypeOK
<1>2. CASE Bind(d)
  <2>1. PICK c \in Cycles, s \in Sources : disp[d].cur = <<c, s>>
    BY <1>2 DEF Bind, Targets, Jobs
  <2>2. row' \in {row, Bound(c, s)} /\ faults' \in {faults, faults + 1}
    BY <1>2, <2>1 DEF Bind
  <2>3. Done(d, "dispatch") \/ Goto(d, "undo")
    BY <1>2 DEF Bind
  <2>4. disp' \in [Dispatchers -> DispStates]
    BY <2>3, DispTypes
  <2>5. row' \in [Cycles -> [Sources -> SourceRows]] /\ faults' \in Nat
    BY <2>1, <2>2, ChangeTypes DEF TypeOK
  <2> QED  BY <1>2, <2>4, <2>5 DEF Bind, TypeOK
<1>3. CASE FailDispatch(d)
  <2>1. PICK c \in Cycles, s \in Sources : disp[d].cur = <<c, s>>
    BY <1>3 DEF FailDispatch, Targets, Jobs
  <2>2. row' \in {row, Ended(c, s, "failed")} /\ Done(d, "dispatch")
    BY <1>3, <2>1 DEF FailDispatch, Undone, Done
  <2>3. disp' \in [Dispatchers -> DispStates]
    BY <2>2, DispTypes
  <2>4. row' \in [Cycles -> [Sources -> SourceRows]]
    BY <2>1, <2>2, ChangeTypes DEF TypeOK, Outcomes
  <2> QED  BY <1>3, <2>3, <2>4 DEF FailDispatch, TypeOK
<1> QED  BY <1>1, <1>2, <1>3

LEMMA EndType ==
    ASSUME TypeOK, Targets, NEW d \in Dispatchers,
           \/ CheckRemaining(d) \/ FinishDispatch(d) \/ DispatchReport(d)
           \/ ReportError(d) \/ Abort(d)
    PROVE  TypeOK'
<1> USE DEF DispPcs
<1>0. Sleep(d) \/ Raise(d) => /\ disp' \in [Dispatchers -> DispStates]
                             /\ schedulerLock' \in Dispatchers \cup {None}
  BY DispTypes
<1>1. CASE CheckRemaining(d)
  <2>1. Goto(d, "finish") => disp' \in [Dispatchers -> DispStates]
    BY DispTypes
  <2> QED  BY <1>0, <1>1, <2>1 DEF CheckRemaining, TypeOK
<1>2. CASE FinishDispatch(d)
  <2>1. disp' \in [Dispatchers -> DispStates]
    BY <1>2, DispTypes DEF FinishDispatch
  <2>2. disp[d].cycle \in Cycles
    BY <1>2 DEF FinishDispatch, Targets, OwnPcs
  <2>3. [cycle[disp[d].cycle] EXCEPT
           !.state = StateOf(row[disp[d].cycle]), !.count = CountsOf(row[disp[d].cycle]),
           !.finished = EndTime(row[disp[d].cycle], tick)] \in CycleRows
    <3>1. cycle[disp[d].cycle] \in CycleRows
      BY <2>2 DEF TypeOK
    <3>2. StateOf(row[disp[d].cycle]) \in Open \cup Closed
      BY StateType DEF Open
    <3>3. CountsOf(row[disp[d].cycle]) \in [Outcomes -> Nat]
      BY CountsType
    <3>4. EndTime(row[disp[d].cycle], tick) \in Nat
      BY DEF EndTime, TypeOK
    <3> QED  BY <3>1, <3>2, <3>3, <3>4 DEF CycleRows
  <2>4. cycle' \in [Cycles -> CycleRows]
    BY <1>2, <2>3 DEF FinishDispatch, TypeOK
  <2> QED  BY <1>2, <2>1, <2>4 DEF FinishDispatch, TypeOK
<1>3. CASE DispatchReport(d)
  BY <1>0, <1>3 DEF DispatchReport, TypeOK
<1>4. CASE ReportError(d)
  BY <1>0, <1>4 DEF ReportError, TypeOK
<1>5. CASE Abort(d)
  BY <1>0, <1>5 DEF Abort, TypeOK
<1> QED  BY <1>1, <1>2, <1>3, <1>4, <1>5

(* finish_source writes a typed cycle and row. *)
LEMMA StoreType ==
    ASSUME TypeOK, NEW c \in Cycles, NEW s \in Sources, NEW o \in Outcomes,
           Accepts(c, s), Store(c, s, o)
    PROVE  /\ cycle' \in [Cycles -> CycleRows]
           /\ row' \in [Cycles -> [Sources -> SourceRows]]
<1> DEFINE rows == Ended(c, s, o)[c]
           state == IF StateOf(rows) = "dispatched" THEN cycle[c].state ELSE StateOf(rows)
           time == EndTime(rows, IF cycle[c].finished = 0 THEN tick ELSE cycle[c].finished)
<1>1. state \in Open \cup Closed
  BY StateType DEF Accepts, Open
<1>2. cycle' = [cycle EXCEPT ![c] = [@ EXCEPT !.state = state, !.count = CountsOf(rows),
                                             !.finished = time]]
  BY DEF Store, StoreAt
<1>3. [cycle[c] EXCEPT !.state = state, !.count = CountsOf(rows), !.finished = time] \in CycleRows
  <2>1. time \in Nat
    BY DEF EndTime, TypeOK, CycleRows
  <2> HIDE DEF state, rows, time
  <2> QED  BY <1>1, <2>1, CountsType DEF TypeOK, CycleRows
<1>4. cycle' \in [Cycles -> CycleRows]
  <2> HIDE DEF state, rows, time
  <2> QED  BY <1>2, <1>3 DEF TypeOK
<1>5. row' \in [Cycles -> [Sources -> SourceRows]]
  BY ChangeTypes DEF Store, StoreAt
<1> QED  BY <1>4, <1>5

LEMMA WorkType ==
    ASSUME TypeOK, LocksHeld, Targets, NEW w \in Workers,
           Start(w) \/ Run(w) \/ Finish(w) \/ Fail(w) \/ WorkerCrash(w)
    PROVE  TypeOK'
<1> USE DEF WorkerPcs
<1>0. PICK c \in Cycles, s \in Sources : worker[w].job = <<c, s>>
  BY DEF LocksHeld, Start, Run, Finish, Fail, WorkerCrash, Jobs
<1>1. Release(w) => /\ worker' \in [Workers -> WorkStates]
                    /\ sourceLock' \in [Sources -> Workers \cup {None}]
  BY WorkTypes
<1>2. Requeue(w) => queue' \in [Cycles -> [Sources -> 0..MaxDup]]
  BY <1>0, SentType DEF Requeue, Jobs
<1>3. CASE Start(w)
  <2>1. row' \in [Cycles -> [Sources -> SourceRows]]
    <3>1. tick \in Nat /\ row[c][s].at \in Nat /\ row \in [Cycles -> [Sources -> SourceRows]]
      BY DEF TypeOK, SourceRows
    <3> DEFINE at == IF row[c][s].state = "queued" THEN tick ELSE row[c][s].at
    <3>2. [row[c][s] EXCEPT !.state = "running", !.at = at] \in SourceRows
      BY <3>1, RowTypes
    <3>3. Updated(c, s, [row[c][s] EXCEPT !.state = "running", !.at = at])
            \in [Cycles -> [Sources -> SourceRows]]
      BY <3>2, UpdatedType
    <3> QED  BY <1>0, <1>3, <3>1, <3>3 DEF Start
  <2>2. WorkerAt(w, "running") => worker' \in [Workers -> WorkStates]
    BY WorkTypes
  <2>3. /\ worker' \in [Workers -> WorkStates]
        /\ sourceLock' \in [Sources -> Workers \cup {None}]
    BY <1>1, <1>3, <2>2 DEF Start, TypeOK
  <2> QED  BY <1>3, <2>1, <2>3 DEF Start, TypeOK
<1>4. CASE Run(w)
  <2>1. ASSUME NEW o \in Outcomes,
               worker' = [worker EXCEPT ![w] = [@ EXCEPT !.pc = "finish", !.outcome = o]]
        PROVE  worker' \in [Workers -> WorkStates]
    BY <2>1, WorkTypes DEF TypeOK
  <2>2. WorkerAt(w, "fail") => worker' \in [Workers -> WorkStates]
    BY WorkTypes
  <2>3. worker' \in [Workers -> WorkStates]
    BY <1>4, <2>1, <2>2 DEF Run, Outcomes
  <2> QED  BY <1>4, <2>3 DEF Run, TypeOK
<1>5. CASE Finish(w)
  <2>1. \/ Accepts(c, s) /\ Store(c, s, worker[w].outcome)
        \/ UNCHANGED <<cycle, row>>
    BY <1>0, <1>5 DEF Finish
  <2>2. worker[w].outcome \in Outcomes
    BY <1>5 DEF Finish, Targets
  <2>3. cycle' \in [Cycles -> CycleRows] /\ row' \in [Cycles -> [Sources -> SourceRows]]
    BY <2>1, <2>2, StoreType DEF TypeOK
  <2>4. WorkerAt(w, "fail") => worker' \in [Workers -> WorkStates]
    BY WorkTypes
  <2>5. /\ worker' \in [Workers -> WorkStates]
        /\ sourceLock' \in [Sources -> Workers \cup {None}]
        /\ faults' \in Nat
    BY <1>1, <1>5, <2>4 DEF Finish, TypeOK
  <2> QED  BY <1>5, <2>3, <2>5 DEF Finish, TypeOK
<1>6. CASE Fail(w)
  <2>1. \/ Accepts(c, s) /\ Store(c, s, "failed")
        \/ UNCHANGED <<cycle, row>>
    BY <1>0, <1>6 DEF Fail
  <2>2. cycle' \in [Cycles -> CycleRows] /\ row' \in [Cycles -> [Sources -> SourceRows]]
    BY <2>1, StoreType DEF TypeOK, Outcomes
  <2>3. queue' \in [Cycles -> [Sources -> 0..MaxDup]] /\ faults' \in Nat
    BY <1>2, <1>6 DEF Fail, TypeOK
  <2> QED  BY <1>1, <1>6, <2>2, <2>3 DEF Fail, TypeOK
<1>7. CASE WorkerCrash(w)
  BY <1>1, <1>2, <1>7 DEF WorkerCrash, TypeOK
<1> QED  BY <1>3, <1>4, <1>5, <1>6, <1>7

(* Every step keeps the types. *)
LEMMA TypeStep ==
    ASSUME TypeOK, LocksHeld, Targets, [Next]_vars
    PROVE  TypeOK'
<1>1. ASSUME NEW d \in Dispatchers, Dispatch(d) \/ Abort(d)
      PROVE  TypeOK'
  BY <1>1, RecoverType, DispatchType, SendType, EndType DEF Dispatch
<1>2. ASSUME NEW w \in Workers, Work(w) \/ WorkerCrash(w)
      PROVE  TypeOK'
  BY <1>2, WorkType DEF Work
<1>3. ASSUME NEW w \in Workers, NEW c \in Cycles, NEW s \in Sources, Deliver(w, c, s)
      PROVE  TypeOK'
  <2>1. <<c, s>> \in Jobs
    BY DEF Jobs
  <2>2. worker' \in [Workers -> WorkStates]
    BY <1>3, <2>1, WorkTypes DEF Deliver, TypeOK
  <2>3. queue' \in [Cycles -> [Sources -> 0..MaxDup]]
    BY <1>3, SchedulerAssumption DEF Deliver, TypeOK
  <2>4. sourceLock' \in [Sources -> Workers \cup {None}]
    BY <1>3 DEF Deliver, TypeOK
  <2> QED  BY <1>3, <2>2, <2>3, <2>4 DEF Deliver, TypeOK
<1>4. ASSUME NEW c \in Cycles, NEW s \in Sources, LoseMessage(c, s)
      PROVE  TypeOK'
  <2>1. queue' \in [Cycles -> [Sources -> 0..MaxDup]]
    BY <1>4, SchedulerAssumption DEF LoseMessage, TypeOK
  <2> QED  BY <1>4, <2>1 DEF LoseMessage, TypeOK
<1>5. CASE MinutePasses
  BY <1>5 DEF MinutePasses, TypeOK
<1>6. CASE UNCHANGED vars
  BY <1>6 DEF vars, TypeOK
<1> QED  BY <1>1, <1>2, <1>3, <1>4, <1>5, <1>6 DEF Next

-----------------------------------------------------------------------------
(* The locks, and what the local states point to.                          *)

(* What the updates of one dispatcher's locals do to its fields. *)
LEMMA DispEffects ==
    ASSUME TypeOK, NEW d \in Dispatchers
    PROVE  /\ \A pc : Goto(d, pc) =>
                /\ disp'[d].pc = pc
                /\ disp'[d].cycle = disp[d].cycle /\ disp'[d].due = disp[d].due
                /\ disp'[d].todo = disp[d].todo /\ disp'[d].cur = disp[d].cur
           /\ \A pc, j : Pick(d, pc, j) =>
                /\ disp'[d].pc = pc /\ disp'[d].cur = j
                /\ disp'[d].cycle = disp[d].cycle /\ disp'[d].todo = disp[d].todo
           /\ \A pc : Done(d, pc) =>
                /\ disp'[d].pc = pc /\ disp'[d].cycle = disp[d].cycle
                /\ disp'[d].todo = disp[d].todo \ {disp[d].cur}
           /\ \A c, jobs : Owe(d, c, jobs) =>
                /\ disp'[d].pc = "dispatch" /\ disp'[d].cycle = c /\ disp'[d].todo = jobs
           /\ Sleep(d) => disp'[d].pc = "asleep"
           /\ Raise(d) => disp'[d].pc = "raised"
<1>1. disp[d] \in DispStates /\ disp \in [Dispatchers -> DispStates]
  BY DEF TypeOK
<1>2. \A r : [disp EXCEPT ![d] = r][d] = r
  BY <1>1
<1>3. \A pc : Goto(d, pc) => disp'[d] = [disp[d] EXCEPT !.pc = pc]
  BY <1>2 DEF Goto
<1>4. \A pc, j : Pick(d, pc, j) => disp'[d] = [disp[d] EXCEPT !.pc = pc, !.cur = j]
  BY <1>2 DEF Pick
<1>5. \A pc : Done(d, pc) => disp'[d] = [disp[d] EXCEPT
           !.pc = pc, !.cur = None, !.todo = disp[d].todo \ {disp[d].cur}]
  BY <1>2 DEF Done
<1>6. \A c, jobs : Owe(d, c, jobs) => disp'[d] = [disp[d] EXCEPT
           !.pc = "dispatch", !.cycle = c, !.due = {}, !.todo = jobs]
  BY <1>2 DEF Owe
<1>7. Sleep(d) => disp'[d].pc = "asleep"
  BY <1>2 DEF Sleep, Asleep
<1>8. Raise(d) => disp'[d].pc = "raised"
  BY <1>2 DEF Raise, Asleep
<1>9. \A pc : Goto(d, pc) =>
        /\ disp'[d].pc = pc
        /\ disp'[d].cycle = disp[d].cycle /\ disp'[d].due = disp[d].due
        /\ disp'[d].todo = disp[d].todo /\ disp'[d].cur = disp[d].cur
  BY <1>1, <1>3 DEF DispStates
<1>10. \A pc, j : Pick(d, pc, j) =>
        /\ disp'[d].pc = pc /\ disp'[d].cur = j
        /\ disp'[d].cycle = disp[d].cycle /\ disp'[d].todo = disp[d].todo
  <2> SUFFICES ASSUME NEW pc, NEW j, disp'[d] = [disp[d] EXCEPT !.pc = pc, !.cur = j]
               PROVE  /\ disp'[d].pc = pc /\ disp'[d].cur = j
                      /\ disp'[d].cycle = disp[d].cycle /\ disp'[d].todo = disp[d].todo
    BY <1>4
  <2> QED  BY <1>1 DEF DispStates
<1>11. \A pc : Done(d, pc) =>
        /\ disp'[d].pc = pc /\ disp'[d].cycle = disp[d].cycle
        /\ disp'[d].todo = disp[d].todo \ {disp[d].cur}
  <2> SUFFICES ASSUME NEW pc, disp'[d] = [disp[d] EXCEPT
                        !.pc = pc, !.cur = None, !.todo = disp[d].todo \ {disp[d].cur}]
               PROVE  /\ disp'[d].pc = pc /\ disp'[d].cycle = disp[d].cycle
                      /\ disp'[d].todo = disp[d].todo \ {disp[d].cur}
    BY <1>5
  <2> QED  BY <1>1 DEF DispStates
<1>12. \A c, jobs : Owe(d, c, jobs) =>
        /\ disp'[d].pc = "dispatch" /\ disp'[d].cycle = c /\ disp'[d].todo = jobs
  <2> SUFFICES ASSUME NEW c, NEW jobs, disp'[d] = [disp[d] EXCEPT
                        !.pc = "dispatch", !.cycle = c, !.due = {}, !.todo = jobs]
               PROVE  /\ disp'[d].pc = "dispatch" /\ disp'[d].cycle = c
                      /\ disp'[d].todo = jobs
    BY <1>6
  <2> QED  BY <1>1 DEF DispStates
<1> QED  BY <1>7, <1>8, <1>9, <1>10, <1>11, <1>12

(* What a step of dispatcher d owes: it leaves the other dispatchers and   *)
(* all workers alone, and the scheduler lock to whoever else holds it; it  *)
(* ends inside the with block only holding the lock; its locals point to   *)
(* jobs of its own cycle.                                                  *)
Alone(d) ==
    /\ \A e \in Dispatchers \ {d} :
         disp'[e] = disp[e] /\ (schedulerLock = e => schedulerLock' = e)
    /\ UNCHANGED <<worker, sourceLock>>
Aims(d) ==
    /\ disp[d].pc \in HeldPcs => schedulerLock = d
    /\ disp[d].pc \in {"rebind", "bind", "undo"} => disp[d].cur \in Jobs
    /\ disp[d].pc \in OwnPcs =>
         /\ disp[d].cycle \in Cycles
         /\ \A j \in disp[d].todo : j[1] = disp[d].cycle
    /\ disp[d].pc \in {"bind", "undo"} => disp[d].cur[1] = disp[d].cycle

LEMMA UpdateAlone ==
    ASSUME TypeOK, NEW d \in Dispatchers
    PROVE  /\ \A r : disp' = [disp EXCEPT ![d] = r] =>
                \A e \in Dispatchers \ {d} : disp'[e] = disp[e]
           /\ \A pc : Goto(d, pc) => \A e \in Dispatchers \ {d} : disp'[e] = disp[e]
           /\ \A pc, j : Pick(d, pc, j) => \A e \in Dispatchers \ {d} : disp'[e] = disp[e]
           /\ \A pc : Done(d, pc) => \A e \in Dispatchers \ {d} : disp'[e] = disp[e]
           /\ \A c, jobs : Owe(d, c, jobs) => \A e \in Dispatchers \ {d} : disp'[e] = disp[e]
           /\ Sleep(d) \/ Raise(d) => \A e \in Dispatchers \ {d} :
                disp'[e] = disp[e] /\ (schedulerLock = e => schedulerLock' = e)
<1>1. \A r : disp' = [disp EXCEPT ![d] = r] => \A e \in Dispatchers \ {d} : disp'[e] = disp[e]
  BY DEF TypeOK
<1>2. Sleep(d) \/ Raise(d) => \A e \in Dispatchers \ {d} :
        disp'[e] = disp[e] /\ (schedulerLock = e => schedulerLock' = e)
  BY <1>1 DEF Sleep, Raise, Unlock
<1>3. \A pc : Goto(d, pc) => \A e \in Dispatchers \ {d} : disp'[e] = disp[e]
  BY <1>1 DEF Goto
<1>4. \A pc, j : Pick(d, pc, j) => \A e \in Dispatchers \ {d} : disp'[e] = disp[e]
  BY <1>1 DEF Pick
<1>5. \A pc : Done(d, pc) => \A e \in Dispatchers \ {d} : disp'[e] = disp[e]
  BY <1>1 DEF Done
<1>6. \A c, jobs : Owe(d, c, jobs) => \A e \in Dispatchers \ {d} : disp'[e] = disp[e]
  BY <1>1 DEF Owe
<1> QED  BY <1>1, <1>2, <1>3, <1>4, <1>5, <1>6

LEMMA DispatchAims ==
    ASSUME TypeOK, NEW d \in Dispatchers, Aims(d), Dispatch(d) \/ Abort(d)
    PROVE  Alone(d) /\ Aims(d)'
<1> USE DEF HeldPcs, OwnPcs
<1>0. disp[d] \in DispStates /\ None \notin Dispatchers
  BY SchedulerAssumption DEF TypeOK
<1>00. disp[d].todo \in SUBSET Jobs
  BY <1>0 DEF DispStates
<1>1. CASE RecoverBegin(d)
  <2>1. Alone(d)
    BY <1>0, <1>1, UpdateAlone DEF RecoverBegin, Alone, Unlock
  <2>2. ASSUME NEW stale, schedulerLock' = d,
               disp' = [disp EXCEPT ![d] = [Asleep EXCEPT !.pc = "recover", !.todo = stale]]
        PROVE  Aims(d)'
    <3>1. disp'[d].pc = "recover"
      BY <2>2 DEF TypeOK, Asleep
    <3> QED  BY <2>2, <3>1 DEF Aims
  <2>3. Goto(d, "awake") => Aims(d)'
    BY DispEffects DEF Aims
  <2>4. Aims(d)'
    BY <1>1, <2>2, <2>3 DEF RecoverBegin
  <2> QED  BY <2>1, <2>4
<1>2. CASE RecoverSend(d)
  <2>1. Alone(d)
    BY <1>0, <1>2, UpdateAlone DEF RecoverSend, Alone, Unlock
  <2>2. Aims(d)'
    BY <1>0, <1>00, <1>2, DispEffects DEF RecoverSend, Aims
  <2> QED  BY <2>1, <2>2
<1>3. CASE RecoverBind(d)
  <2>1. Alone(d)
    BY <1>0, <1>3, UpdateAlone DEF RecoverBind, Alone, Unlock
  <2>2. Aims(d)'
    BY <1>0, <1>00, <1>3, DispEffects DEF RecoverBind, Aims
  <2> QED  BY <2>1, <2>2
<1>4. CASE RecoverEnd(d)
  <2>1. Alone(d)
    BY <1>0, <1>4, UpdateAlone DEF RecoverEnd, Alone, Unlock
  <2>2. Aims(d)'
    BY <1>0, <1>00, <1>4, DispEffects DEF RecoverEnd, Aims
  <2> QED  BY <2>1, <2>2
<1>5. CASE RecoverReport(d)
  <2>1. Alone(d)
    BY <1>0, <1>5, UpdateAlone DEF RecoverReport, Alone, Unlock
  <2>2. Aims(d)'
    BY <1>0, <1>00, <1>5, DispEffects DEF RecoverReport, Aims
  <2> QED  BY <2>1, <2>2
<1>6. CASE DispatchBegin(d)
  <2>1. Alone(d)
    BY <1>0, <1>6, UpdateAlone DEF DispatchBegin, Alone, Unlock
  <2>2. disp' = [disp EXCEPT ![d] = [Asleep EXCEPT !.pc = "read", !.now = tick]]
        => disp'[d].pc = "read"
    BY DEF TypeOK, Asleep
  <2>3. Aims(d)'
    BY <1>6, <2>2, DispEffects DEF DispatchBegin, Aims
  <2> QED  BY <2>1, <2>3
<1>7. CASE DispatchRead(d)
  <2>1. Alone(d)
    BY <1>0, <1>7, UpdateAlone DEF DispatchRead, Resume, FindDue, NothingDue, Alone, Unlock
  <2>2. schedulerLock = d
    BY <1>7 DEF DispatchRead, Aims
  <2>3. ASSUME NEW c \in Cycles, Resume(d, c)
        PROVE  Aims(d)'
    <3>1. \A j \in {c} \X UnboundIn(c) : j[1] = c
      OBVIOUS
    <3>2. disp'[d].pc = "dispatch" /\ disp'[d].cycle = c /\ disp'[d].todo = {c} \X UnboundIn(c)
      BY <2>3, DispEffects DEF Resume
    <3> QED  BY <2>2, <2>3, <3>1, <3>2 DEF Resume, Aims
  <2>4. ASSUME NEW due, schedulerLock' = d,
               disp' = [disp EXCEPT ![d] = [@ EXCEPT !.pc = "begin", !.due = due]]
        PROVE  Aims(d)'
    <3>1. disp'[d].pc = "begin"
      BY <1>0, <2>4 DEF TypeOK, DispStates
    <3> QED  BY <2>4, <3>1 DEF Aims
  <2>5. FindDue(d) => Aims(d)'
    BY <2>2, <2>4 DEF FindDue
  <2>6. NothingDue(d) => Aims(d)'
    BY DispEffects DEF NothingDue, Aims
  <2>7. Aims(d)'
    BY <1>7, <2>3, <2>5, <2>6 DEF DispatchRead
  <2> QED  BY <2>1, <2>7
<1>8. CASE BeginCycle(d)
  <2>1. Alone(d)
    BY <1>0, <1>8, UpdateAlone DEF BeginCycle, Insert, Existing, Alone, Unlock
  <2>2. schedulerLock = d
    BY <1>8 DEF BeginCycle, Aims
  <2>3. ASSUME NEW c \in Cycles, Owe(d, c, {c} \X disp[d].due), UNCHANGED schedulerLock
        PROVE  Aims(d)'
    <3>1. \A j \in {c} \X disp[d].due : j[1] = c
      OBVIOUS
    <3>2. disp'[d].pc = "dispatch" /\ disp'[d].cycle = c /\ disp'[d].todo = {c} \X disp[d].due
      BY <2>3, DispEffects
    <3> QED  BY <2>2, <2>3, <3>1, <3>2 DEF Aims
  <2>4. Sleep(d) \/ Raise(d) => Aims(d)'
    BY DispEffects DEF Aims
  <2>5. Aims(d)'
    BY <1>8, <2>3, <2>4 DEF BeginCycle, Insert, Existing
  <2> QED  BY <2>1, <2>5
<1>9. CASE Send(d)
  <2>1. Alone(d)
    BY <1>0, <1>9, UpdateAlone DEF Send, Alone, Unlock
  <2>2. Aims(d)'
    BY <1>0, <1>00, <1>9, DispEffects DEF Send, Aims
  <2> QED  BY <2>1, <2>2
<1>10. CASE Bind(d)
  <2>1. Alone(d)
    BY <1>0, <1>10, UpdateAlone DEF Bind, Alone, Unlock
  <2>2. Aims(d)'
    BY <1>0, <1>00, <1>10, DispEffects DEF Bind, Aims
  <2> QED  BY <2>1, <2>2
<1>11. CASE FailDispatch(d)
  <2>1. Alone(d)
    BY <1>0, <1>11, UpdateAlone DEF FailDispatch, Alone, Unlock
  <2>2. Aims(d)'
    BY <1>0, <1>00, <1>11, DispEffects DEF FailDispatch, Aims
  <2> QED  BY <2>1, <2>2
<1>12. CASE CheckRemaining(d)
  <2>1. Alone(d)
    BY <1>0, <1>12, UpdateAlone DEF CheckRemaining, Alone, Unlock
  <2>2. Aims(d)'
    BY <1>0, <1>00, <1>12, DispEffects DEF CheckRemaining, Aims
  <2> QED  BY <2>1, <2>2
<1>13. CASE FinishDispatch(d)
  <2>1. Alone(d)
    BY <1>0, <1>13, UpdateAlone DEF FinishDispatch, Alone, Unlock
  <2>2. Aims(d)'
    BY <1>0, <1>00, <1>13, DispEffects DEF FinishDispatch, Aims
  <2> QED  BY <2>1, <2>2
<1>14. CASE DispatchReport(d)
  <2>1. Alone(d)
    BY <1>0, <1>14, UpdateAlone DEF DispatchReport, Alone, Unlock
  <2>2. Aims(d)'
    BY <1>0, <1>00, <1>14, DispEffects DEF DispatchReport, Aims
  <2> QED  BY <2>1, <2>2
<1>15. CASE ReportError(d)
  <2>1. Alone(d)
    BY <1>0, <1>15, UpdateAlone DEF ReportError, Alone, Unlock
  <2>2. Aims(d)'
    BY <1>0, <1>00, <1>15, DispEffects DEF ReportError, Aims
  <2> QED  BY <2>1, <2>2
<1>16. CASE Abort(d)
  <2>1. Alone(d)
    BY <1>0, <1>16, UpdateAlone DEF Abort, Alone, Unlock
  <2>2. Aims(d)'
    BY <1>0, <1>00, <1>16, DispEffects DEF Abort, Aims
  <2> QED  BY <2>1, <2>2
<1> QED  BY <1>1, <1>2, <1>3, <1>4, <1>5, <1>6, <1>7, <1>8, <1>9, <1>10, <1>11, <1>12, <1>13, <1>14, <1>15, <1>16 DEF Dispatch

LEMMA LocksInit == Init => LocksHeld /\ Targets
BY DEF Init, LocksHeld, Targets, Asleep, Idle, HeldPcs, OwnPcs

(* Every worker that is not idle holds the lock of its source: a step of w *)
(* frees or takes only a lock that no other worker relies on.              *)
LEMMA LocksStep ==
    ASSUME TypeOK, LocksHeld, Targets, [Next]_vars
    PROVE  LocksHeld' /\ Targets'
<1> DEFINE Works(w) == /\ worker[w].pc # "idle" =>
                            worker[w].job \in Jobs /\ sourceLock[worker[w].job[2]] = w
                       /\ worker[w].pc = "finish" => worker[w].outcome \in Outcomes
<1>1. /\ \A d \in Dispatchers : Aims(d)
      /\ \A w \in Workers : Works(w)
  BY DEF LocksHeld, Targets, Aims
<1>2. SUFFICES /\ \A d \in Dispatchers : Aims(d)'
               /\ \A w \in Workers : Works(w)'
  BY DEF LocksHeld, Targets, Aims
<1>3. ASSUME NEW d \in Dispatchers, Dispatch(d) \/ Abort(d)
      PROVE  (\A e \in Dispatchers : Aims(e)') /\ (\A w \in Workers : Works(w)')
  <2>1. Alone(d) /\ Aims(d)'
    BY <1>1, <1>3, DispatchAims
  <2>2. \A e \in Dispatchers : Aims(e)'
    BY <1>1, <2>1 DEF Alone, Aims
  <2> QED  BY <1>1, <2>1, <2>2 DEF Alone
<1>4. ASSUME NEW w \in Workers, Work(w) \/ WorkerCrash(w)
      PROVE  (\A d \in Dispatchers : Aims(d)') /\ (\A v \in Workers : Works(v)')
  <2>1. UNCHANGED <<disp, schedulerLock>>
    BY <1>4 DEF Work, Start, Run, Finish, Fail, WorkerCrash
  <2>2. worker[w].job \in Jobs /\ sourceLock[worker[w].job[2]] = w
    BY <1>1, <1>4 DEF Work, Start, Run, Finish, Fail, WorkerCrash
  <2>3. PICK s \in Sources : worker[w].job[2] = s
    BY <2>2 DEF Jobs
  <2>4. ASSUME Release(w)
        PROVE  \A v \in Workers : Works(v)'
    <3>1. worker'[w].pc = "idle" /\ \A v \in Workers \ {w} : worker'[v] = worker[v]
      BY <2>4 DEF Release, TypeOK, Idle
    <3>2. \A u \in Sources \ {s} : sourceLock'[u] = sourceLock[u]
      BY <2>3, <2>4 DEF Release, TypeOK
    <3>3. ASSUME NEW v \in Workers \ {w}, worker[v].pc # "idle"
          PROVE  sourceLock'[worker[v].job[2]] = v
      <4>1. worker[v].job[2] \in Sources \ {s} /\ sourceLock[worker[v].job[2]] = v
        BY <1>1, <2>2, <2>3, <3>3 DEF Jobs
      <4> QED  BY <3>2, <4>1
    <3> QED  BY <1>1, <3>1, <3>3
  <2>5. ASSUME NEW pc \in {"running", "fail"}, WorkerAt(w, pc), UNCHANGED sourceLock
        PROVE  \A v \in Workers : Works(v)'
    <3>1. worker[w] \in WorkStates
      BY DEF TypeOK
    <3>2. worker'[w] = [worker[w] EXCEPT !.pc = pc]
      BY <2>5 DEF WorkerAt, TypeOK
    <3>3. worker'[w].pc = pc /\ worker'[w].job = worker[w].job
      BY <3>1, <3>2 DEF WorkStates
    <3>4. \A v \in Workers \ {w} : worker'[v] = worker[v]
      BY <2>5 DEF WorkerAt, TypeOK
    <3> QED  BY <1>1, <2>2, <2>5, <3>3, <3>4
  <2>6. ASSUME NEW o \in Outcomes, UNCHANGED sourceLock,
               worker' = [worker EXCEPT ![w] = [@ EXCEPT !.pc = "finish", !.outcome = o]]
        PROVE  \A v \in Workers : Works(v)'
    <3>1. worker[w] \in WorkStates
      BY DEF TypeOK
    <3>2. worker'[w] = [worker[w] EXCEPT !.pc = "finish", !.outcome = o]
      BY <2>6 DEF TypeOK
    <3>3. worker'[w].pc = "finish" /\ worker'[w].job = worker[w].job /\ worker'[w].outcome = o
      BY <3>1, <3>2 DEF WorkStates
    <3>4. \A v \in Workers \ {w} : worker'[v] = worker[v]
      BY <2>6 DEF TypeOK
    <3> QED  BY <1>1, <2>2, <2>6, <3>3, <3>4
  <2>7. \A v \in Workers : Works(v)'
    <3>1. CASE Start(w)
      BY <3>1, <2>4, <2>5 DEF Start
    <3>2. CASE Run(w)
      BY <3>2, <2>5, <2>6 DEF Run, Outcomes
    <3>3. CASE Finish(w)
      BY <3>3, <2>4, <2>5 DEF Finish
    <3>4. CASE Fail(w) \/ WorkerCrash(w)
      BY <3>4, <2>4 DEF Fail, WorkerCrash
    <3> QED  BY <1>4, <3>1, <3>2, <3>3, <3>4 DEF Work
  <2> QED  BY <1>1, <2>1, <2>7 DEF Aims
<1>5. ASSUME NEW w \in Workers, NEW c \in Cycles, NEW s \in Sources, Deliver(w, c, s)
      PROVE  (\A d \in Dispatchers : Aims(d)') /\ (\A v \in Workers : Works(v)')
  <2>1. UNCHANGED <<disp, schedulerLock>>
    BY <1>5 DEF Deliver
  <2>2. worker'[w] = [Idle EXCEPT !.pc = "locked", !.job = <<c, s>>]
    BY <1>5 DEF Deliver, TypeOK
  <2>3. worker'[w].pc = "locked" /\ worker'[w].job = <<c, s>>
    BY <2>2 DEF Idle
  <2>4. sourceLock'[s] = w /\ \A u \in Sources \ {s} : sourceLock'[u] = sourceLock[u]
    BY <1>5 DEF Deliver, TypeOK
  <2>5. \A v \in Workers \ {w} : worker'[v] = worker[v]
    BY <1>5 DEF Deliver, TypeOK
  <2>6. sourceLock[s] = None /\ None \notin Workers
    BY <1>5, SchedulerAssumption DEF Deliver
  <2>7. ASSUME NEW v \in Workers \ {w}, worker[v].pc # "idle"
        PROVE  sourceLock'[worker[v].job[2]] = v
    <3>1. worker[v].job[2] \in Sources \ {s} /\ sourceLock[worker[v].job[2]] = v
      BY <1>1, <2>6, <2>7 DEF Jobs
    <3> QED  BY <2>4, <3>1
  <2>8. Works(w)'
    BY <2>3, <2>4 DEF Jobs
  <2>9. \A v \in Workers : Works(v)'
    BY <1>1, <2>5, <2>7, <2>8
  <2> QED  BY <1>1, <2>1, <2>9 DEF Aims
<1>6. CASE MinutePasses \/ \E c \in Cycles, s \in Sources : LoseMessage(c, s)
  BY <1>1, <1>6 DEF MinutePasses, LoseMessage, Aims
<1>7. CASE UNCHANGED vars
  BY <1>1, <1>7 DEF vars, Aims
<1> QED  BY <1>3, <1>4, <1>5, <1>6, <1>7 DEF Next

-----------------------------------------------------------------------------
(* Theorems.                                                               *)

(* Types, lock ownership and job targets are one inductive invariant.      *)
THEOREM Typing == Spec => [](TypeOK /\ LocksHeld /\ Targets)
<1>1. Init => TypeOK /\ LocksHeld /\ Targets
  BY TypeInit, LocksInit
<1>2. (TypeOK /\ LocksHeld /\ Targets) /\ [Next]_vars => (TypeOK /\ LocksHeld /\ Targets)'
  BY TypeStep, LocksStep
<1> QED  BY <1>1, <1>2, PTL DEF Spec

(* No source is ever run by two workers at once (source_lock).             *)
THEOREM Exclusion == Spec => []ExclusiveExecution
<1>1. TypeOK /\ LocksHeld /\ Targets => ExclusiveExecution
  BY DEF LocksHeld, ExclusiveExecution, Jobs
<1> QED  BY <1>1, Typing, PTL

-----------------------------------------------------------------------------
(* The ledger: the inductive invariant IndInv, the safety properties that  *)
(* follow from it, and that the Scheduler implements JobLedger.            *)

(* What must hold of the two tables at every moment. *)
LedgerInv ==
    /\ CyclesInOrder
    /\ PendingIsOpen
    /\ OneDispatching
    /\ OnlyLatestPending
    /\ ClosedIsSettled
    /\ DispatchedHasWork
    /\ RecoveryVisibility

(* A step that only makes progress: no new pending or unbound row, no new  *)
(* dispatching cycle, and no cycle back from the hands of its dispatcher.  *)
Eases ==
    /\ \A c \in Cycles :
         /\ cycle'[c].state = "dispatching" => cycle[c].state = "dispatching"
         /\ cycle[c].state \in {"dispatching"} \cup Closed =>
              cycle'[c].state \in {"dispatching"} \cup Closed
         /\ UnboundIn(c)' \subseteq UnboundIn(c)
    /\ \A c \in Cycles, s \in Sources : RowPending(c, s)' => RowPending(c, s)

(* HistoryIsFinal, of one step, but for the finish time. *)
Final ==
    \A c \in Cycles :
        /\ cycle[c].state \in Closed =>
             [cycle'[c] EXCEPT !.finished = 0] = [cycle[c] EXCEPT !.finished = 0]
        /\ \A s \in Sources : row[c][s].state \in Outcomes =>
             row'[c][s].state = row[c][s].state /\ row'[c][s].at = row[c][s].at

(* The running rows other than (c, s) stay ready for their result. *)
KeepsOthers(c, s) ==
    \A b \in Cycles, u \in Sources : b # c \/ u # s =>
        (Accepts(b, u) => Accepts(b, u)')

USE DEF Outcomes, Pending, Open, Closed, Fault, Beat, ledger, locks

-----------------------------------------------------------------------------
(* Each way the tables change.                                             *)

(* A step that touches neither table. *)
LEMMA SameLedger ==
    ASSUME LedgerInv, UNCHANGED <<cycle, row>>
    PROVE  /\ LedgerInv' /\ Eases /\ Final
           /\ \A b \in Cycles, u \in Sources : Accepts(b, u) => Accepts(b, u)'
BY DEF LedgerInv, CyclesInOrder, PendingIsOpen, OneDispatching, OnlyLatestPending,
       ClosedIsSettled, DispatchedHasWork, RecoveryVisibility, RowPending, PendingIn,
       UnboundIn, Incomplete, CountsOf, StateOf, Eases, Final, Accepts

(* A recounted cycle has a finish time exactly when nothing is pending. *)
LEMMA EndTimeOf ==
    ASSUME NEW rows, NEW time, time # 0
    PROVE  EndTime(rows, time) # 0 <=> StateOf(rows) # "dispatched"
BY DEF EndTime, StateOf

(* Equal states of the rows of a cycle have equal recounts. *)
LEMMA SameCounts ==
    ASSUME NEW rows, NEW others,
           \A s \in Sources : rows[s].state = others[s].state
    PROVE  CountsOf(rows) = CountsOf(others) /\ StateOf(rows) = StateOf(others)
<1>1. ASSUME NEW o \in Outcomes
      PROVE  {s \in Sources : rows[s].state = o} = {s \in Sources : others[s].state = o}
  OBVIOUS
<1>2. CountsOf(rows) = CountsOf(others)
  BY <1>1 DEF CountsOf
<1>3. StateOf(rows) = StateOf(others)
  BY DEF StateOf
<1> QED  BY <1>2, <1>3

(* A row that is bound or started stays as pending as it was: bind_message,*)
(* bind_recovery_message and start_source disturb nothing.                 *)
LEMMA MovedRow ==
    ASSUME TypeOK, LedgerInv, UNCHANGED cycle,
           \A c \in Cycles, s \in Sources :
              /\ row'[c][s].message = "null" => row[c][s].message = "null"
              /\ \/ row'[c][s].state = row[c][s].state
                 \/ row[c][s].state \in Pending /\ row'[c][s].state = "running"
              /\ row[c][s].state \in Outcomes => row'[c][s].at = row[c][s].at
    PROVE  /\ LedgerInv' /\ Eases /\ Final
           /\ \A b \in Cycles, u \in Sources : Accepts(b, u) => Accepts(b, u)'
<1>1. \A c \in Cycles, s \in Sources : RowPending(c, s)' <=> RowPending(c, s)
  BY DEF RowPending
<1>2. \A c \in Cycles, s \in Sources :
        row'[c][s].state = "none" <=> row[c][s].state = "none"
  OBVIOUS
<1>3. \A c \in Cycles : PendingIn(c)' = PendingIn(c) /\ UnboundIn(c)' \subseteq UnboundIn(c)
  BY <1>1 DEF PendingIn, UnboundIn
<1>4. \A c \in Cycles : cycle[c].state \in Closed =>
        CountsOf(row[c])' = CountsOf(row[c]) /\ StateOf(row[c])' = StateOf(row[c])
  <2> SUFFICES ASSUME NEW c \in Cycles, cycle[c].state \in Closed
               PROVE  CountsOf(row'[c]) = CountsOf(row[c]) /\ StateOf(row'[c]) = StateOf(row[c])
    BY DEF CountsOf, StateOf
  <2>1. \A s \in Sources : row'[c][s].state = row[c][s].state
    BY DEF LedgerInv, PendingIsOpen, RowPending
  <2> QED  BY <2>1, SameCounts
<1>5. CyclesInOrder' /\ PendingIsOpen' /\ OneDispatching' /\ OnlyLatestPending'
  BY <1>1, <1>2 DEF LedgerInv, CyclesInOrder, PendingIsOpen, OneDispatching, OnlyLatestPending, Cycles
<1>6. ClosedIsSettled' /\ DispatchedHasWork' /\ RecoveryVisibility'
  BY <1>3, <1>4 DEF LedgerInv, ClosedIsSettled, DispatchedHasWork, RecoveryVisibility, Incomplete
<1>7. Eases /\ Final
  BY <1>1, <1>3 DEF Eases, Final
<1>8. \A b \in Cycles, u \in Sources : Accepts(b, u) => Accepts(b, u)'
  BY DEF Accepts
<1> QED  BY <1>5, <1>6, <1>7, <1>8 DEF LedgerInv

(* What Ended does to the ledger, row by row. *)
LEMMA EndedRow ==
    ASSUME TypeOK, NEW c \in Cycles, NEW s \in Sources, NEW o \in Outcomes
    PROVE  /\ \A b \in Cycles, u \in Sources : b # c \/ u # s => Ended(c, s, o)[b][u] = row[b][u]
           /\ Ended(c, s, o)[c][s].state = o
           /\ Ended(c, s, o)[c][s].message = row[c][s].message
<1> DEFINE r == [row[c][s] EXCEPT !.state = o, !.at = tick]
<1>1. row[c][s] \in SourceRows
  BY DEF TypeOK
<1>2. r \in SourceRows
  BY RowTypes
<1>3. r.state = o /\ r.message = row[c][s].message
  BY <1>1 DEF SourceRows
<1>4. Ended(c, s, o) = Updated(c, s, r)
  BY DEF Ended
<1> HIDE DEF r
<1>5. \A b \in Cycles, u \in Sources :
        Updated(c, s, r)[b][u] = IF b = c /\ u = s THEN r ELSE row[b][u]
  BY <1>2, UpdatedType
<1> QED  BY <1>3, <1>4, <1>5

(* fail_source_dispatch ends a queued row of a cycle that is dispatching.  *)
LEMMA FailedRow ==
    ASSUME TypeOK, LedgerInv, UNCHANGED cycle, NEW c \in Cycles, NEW s \in Sources,
           cycle[c].state = "dispatching", row[c][s].state = "queued",
           row' = Ended(c, s, "failed")
    PROVE  /\ LedgerInv' /\ Eases /\ Final
           /\ \A b \in Cycles, u \in Sources : Accepts(b, u) => Accepts(b, u)'
<1>1. /\ \A b \in Cycles, u \in Sources : b # c \/ u # s => row'[b][u] = row[b][u]
      /\ row'[c][s].state = "failed" /\ row'[c][s].message = row[c][s].message
  BY EndedRow
<1>2. \A b \in Cycles, u \in Sources : RowPending(b, u)' <=> RowPending(b, u) /\ ~(b = c /\ u = s)
  BY <1>1 DEF RowPending
<1>3. \A b \in Cycles, u \in Sources : row'[b][u].state = "none" <=> row[b][u].state = "none"
  BY <1>1
<1>4. \A b \in Cycles : /\ PendingIn(b)' \subseteq PendingIn(b)
                        /\ b # c => PendingIn(b)' = PendingIn(b)
                        /\ UnboundIn(b)' \subseteq UnboundIn(b)
  BY <1>1, <1>2 DEF PendingIn, UnboundIn
<1>5. \A b \in Cycles : b # c =>
        CountsOf(row[b])' = CountsOf(row[b]) /\ StateOf(row[b])' = StateOf(row[b])
  <2> SUFFICES ASSUME NEW b \in Cycles, b # c
               PROVE  CountsOf(row'[b]) = CountsOf(row[b]) /\ StateOf(row'[b]) = StateOf(row[b])
    BY DEF CountsOf, StateOf
  <2> QED  BY <1>1, SameCounts
<1>6. CyclesInOrder' /\ PendingIsOpen' /\ OneDispatching' /\ OnlyLatestPending'
  BY <1>2, <1>3 DEF LedgerInv, CyclesInOrder, PendingIsOpen, OneDispatching, OnlyLatestPending, Cycles
<1>7. ClosedIsSettled' /\ DispatchedHasWork' /\ RecoveryVisibility'
  BY <1>4, <1>5 DEF LedgerInv, ClosedIsSettled, DispatchedHasWork, RecoveryVisibility, Incomplete
<1>8. Eases /\ Final
  BY <1>1, <1>2, <1>4 DEF Eases, Final
<1>9. \A b \in Cycles, u \in Sources : Accepts(b, u) => Accepts(b, u)'
  BY <1>1 DEF Accepts
<1> QED  BY <1>6, <1>7, <1>8, <1>9 DEF LedgerInv

(* finish_source stores an outcome it accepts: the cycle keeps its state   *)
(* while work is pending and closes, settled, with its last row.           *)
LEMMA StoredRow ==
    ASSUME TypeOK, LedgerInv, NEW c \in Cycles, NEW s \in Sources, NEW o \in Outcomes,
           Accepts(c, s), Store(c, s, o)
    PROVE  LedgerInv' /\ Eases /\ Final /\ KeepsOthers(c, s)
<1>0. row[c][s].state = "running" /\ cycle[c].state \in Open /\ row' = Ended(c, s, o)
  BY DEF Accepts, Store, StoreAt
<1>1. /\ \A b \in Cycles, u \in Sources : b # c \/ u # s => row'[b][u] = row[b][u]
      /\ row'[c][s].state = o /\ row'[c][s].message = row[c][s].message
  BY <1>0, EndedRow
<1>2. \A b \in Cycles, u \in Sources : RowPending(b, u)' <=> RowPending(b, u) /\ ~(b = c /\ u = s)
  BY <1>1 DEF RowPending
<1>3. \A b \in Cycles, u \in Sources : row'[b][u].state = "none" <=> row[b][u].state = "none"
  BY <1>0, <1>1
<1>4. \A b \in Cycles : /\ PendingIn(b)' \subseteq PendingIn(b)
                        /\ b # c => PendingIn(b)' = PendingIn(b)
                        /\ UnboundIn(b)' \subseteq UnboundIn(b)
  BY <1>1, <1>2 DEF PendingIn, UnboundIn
<1>5. \A b \in Cycles : b # c =>
        CountsOf(row[b])' = CountsOf(row[b]) /\ StateOf(row[b])' = StateOf(row[b])
  <2> SUFFICES ASSUME NEW b \in Cycles, b # c
               PROVE  CountsOf(row'[b]) = CountsOf(row[b]) /\ StateOf(row'[b]) = StateOf(row[b])
    BY DEF CountsOf, StateOf
  <2> QED  BY <1>1, SameCounts
<1>6. /\ \A b \in Cycles : b # c => cycle'[b] = cycle[b]
      /\ cycle'[c].count = CountsOf(row'[c])
      /\ StateOf(row'[c]) = "dispatched" => cycle'[c].state = cycle[c].state
      /\ StateOf(row'[c]) # "dispatched" => cycle'[c].state = StateOf(row'[c])
      /\ cycle'[c].finished # 0 <=> StateOf(row'[c]) # "dispatched"
  <2>1. cycle[c] \in CycleRows
    BY DEF TypeOK
  <2> DEFINE st == IF StateOf(row'[c]) = "dispatched" THEN cycle[c].state ELSE StateOf(row'[c])
             now == IF cycle[c].finished = 0 THEN tick ELSE cycle[c].finished
             time == EndTime(row'[c], now)
  <2>2. cycle' = [cycle EXCEPT ![c] = [@ EXCEPT !.state = st, !.count = CountsOf(row'[c]),
                                               !.finished = time]]
    <3>1. /\ StateOf(Ended(c, s, o)[c]) = StateOf(row'[c])
          /\ CountsOf(Ended(c, s, o)[c]) = CountsOf(row'[c])
          /\ EndTime(Ended(c, s, o)[c], now) = time
      BY <1>0
    <3> QED  BY <3>1 DEF Store, StoreAt
  <2>5. time # 0 <=> StateOf(row'[c]) # "dispatched"
    <3>1. now # 0
      BY DEF TypeOK
    <3> HIDE DEF now
    <3> QED  BY <3>1, EndTimeOf
  <2> HIDE DEF st, time
  <2>3. cycle'[c] = [cycle[c] EXCEPT !.state = st, !.count = CountsOf(row'[c]), !.finished = time]
    BY <2>2 DEF TypeOK
  <2>4. cycle'[c].state = st /\ cycle'[c].count = CountsOf(row'[c]) /\ cycle'[c].finished = time
    BY <2>1, <2>3 DEF CycleRows
  <2> QED  BY <2>2, <2>4, <2>5 DEF TypeOK, st
<1>7. /\ StateOf(row'[c]) = "dispatched" <=> PendingIn(c)' # {}
      /\ StateOf(row'[c]) \in {"dispatched", "completed", "partial_failure"}
  BY StateType DEF PendingIn, RowPending
<1>8. StateOf(row[c])' = StateOf(row'[c]) /\ CountsOf(row[c])' = CountsOf(row'[c])
  BY DEF StateOf, CountsOf
<1>9. CyclesInOrder' /\ PendingIsOpen' /\ OneDispatching' /\ OnlyLatestPending'
  <2>1. \A b \in Cycles : cycle'[b].state = "absent" <=> cycle[b].state = "absent"
    BY <1>0, <1>6, <1>7
  <2>2. \A b \in Cycles : cycle'[b].state = "dispatching" => cycle[b].state = "dispatching"
    BY <1>6, <1>7
  <2>3. CyclesInOrder' /\ OneDispatching' /\ OnlyLatestPending'
    BY <1>2, <1>3, <2>1, <2>2 DEF LedgerInv, CyclesInOrder, OneDispatching, OnlyLatestPending, Cycles
  <2>4. \A b \in Cycles, u \in Sources : RowPending(b, u)' => cycle'[b].state \in Open
    <3> SUFFICES ASSUME NEW b \in Cycles, NEW u \in Sources, RowPending(b, u)'
                 PROVE  cycle'[b].state \in Open
      OBVIOUS
    <3>1. CASE b = c
      BY <1>0, <1>6, <1>7, <3>1 DEF PendingIn
    <3>2. CASE b # c
      BY <1>2, <1>6, <3>2 DEF LedgerInv, PendingIsOpen
    <3> QED  BY <3>1, <3>2
  <2> QED  BY <2>3, <2>4 DEF PendingIsOpen
<1>10. ClosedIsSettled'
  BY <1>0, <1>4, <1>5, <1>6, <1>7, <1>8 DEF LedgerInv, ClosedIsSettled
<1>11. DispatchedHasWork'
  BY <1>4, <1>6, <1>7 DEF LedgerInv, DispatchedHasWork
<1>12. RecoveryVisibility'
  <2> SUFFICES ASSUME NEW b \in Cycles, UnboundIn(b)' # {}
               PROVE  Incomplete(b)'
    BY DEF RecoveryVisibility
  <2>1. Incomplete(b)
    BY <1>4 DEF LedgerInv, RecoveryVisibility
  <2>2. cycle'[b].state = "dispatching"
    <3>1. PendingIn(b)' # {}
      BY DEF UnboundIn
    <3> QED  BY <1>6, <1>7, <2>1, <3>1 DEF Incomplete
  <2>3. \A a \in 1..(b - 1) : cycle'[a].state # "dispatching"
    <3>1. \A a \in Cycles : cycle'[a].state = "dispatching" => cycle[a].state = "dispatching"
      BY <1>6, <1>7
    <3>2. \A a \in 1..(b - 1) : a \in Cycles
      BY SchedulerAssumption DEF Cycles
    <3> QED  BY <2>1, <3>1, <3>2 DEF Incomplete
  <2> QED  BY <2>2, <2>3 DEF Incomplete
<1>13. Eases
  BY <1>0, <1>2, <1>4, <1>6, <1>7 DEF Eases
<1>14. Final
  BY <1>0, <1>1, <1>6 DEF Final
<1>15. KeepsOthers(c, s)
  <2> SUFFICES ASSUME NEW b \in Cycles, NEW u \in Sources, b # c \/ u # s, Accepts(b, u)
               PROVE  Accepts(b, u)'
    BY DEF KeepsOthers
  <2>1. row'[b][u].state = "running"
    BY <1>1 DEF Accepts
  <2>2. cycle'[b].state \in Open
    BY <1>9, <2>1 DEF PendingIsOpen, RowPending
  <2> QED  BY <2>1, <2>2 DEF Accepts
<1> QED  BY <1>9, <1>10, <1>11, <1>12, <1>13, <1>14, <1>15 DEF LedgerInv

(* finish_dispatch recounts the cycle of its dispatcher, all of whose rows *)
(* are bound: a dispatching cycle leaves that state, a closed one is left  *)
(* as it is, but for the finish time.                                      *)
LEMMA FinishedCycle ==
    ASSUME TypeOK, LedgerInv, NEW c \in Cycles, UNCHANGED row,
           cycle[c].state \in {"dispatching"} \cup Closed, UnboundIn(c) = {},
           cycle' = [cycle EXCEPT ![c] = [@ EXCEPT
                       !.state = StateOf(row[c]), !.count = CountsOf(row[c]),
                       !.finished = EndTime(row[c], tick)]]
    PROVE  /\ LedgerInv' /\ Final
           /\ cycle'[c].state # "dispatching"
           /\ \A b \in Cycles : cycle'[b].state = "dispatching" => cycle[b].state = "dispatching"
           /\ \A b \in Cycles, u \in Sources : Accepts(b, u) => Accepts(b, u)'
<1>1. cycle[c] \in CycleRows
  BY DEF TypeOK
<1>2. /\ cycle'[c].state = StateOf(row[c]) /\ cycle'[c].count = CountsOf(row[c])
      /\ \A b \in Cycles : b # c => cycle'[b] = cycle[b]
      /\ cycle'[c].finished # 0 <=> StateOf(row[c]) # "dispatched"
      /\ cycle[c].state = StateOf(row[c]) /\ cycle[c].count = CountsOf(row[c]) =>
           [cycle'[c] EXCEPT !.finished = 0] = [cycle[c] EXCEPT !.finished = 0]
  <2> DEFINE st == StateOf(row[c])
             n  == CountsOf(row[c])
             t  == EndTime(row[c], tick)
  <2>5. t # 0 <=> st # "dispatched"
    BY EndTimeOf DEF TypeOK
  <2> HIDE DEF st, n, t
  <2>1. cycle'[c] = [cycle[c] EXCEPT !.state = st, !.count = n, !.finished = t]
    BY DEF TypeOK, st, n, t
  <2>2. \A b \in Cycles : b # c => cycle'[b] = cycle[b]
    BY DEF TypeOK
  <2>3. cycle'[c].state = st /\ cycle'[c].count = n /\ cycle'[c].finished = t
    BY <1>1, <2>1 DEF CycleRows
  <2>4. ASSUME cycle[c].state = st, cycle[c].count = n
        PROVE  [cycle'[c] EXCEPT !.finished = 0] = [cycle[c] EXCEPT !.finished = 0]
    BY <1>1, <2>1, <2>4 DEF CycleRows
  <2> QED  BY <2>2, <2>3, <2>4, <2>5 DEF st, n
<1>3. /\ StateOf(row[c]) = "dispatched" <=> PendingIn(c) # {}
      /\ StateOf(row[c]) \in {"dispatched", "completed", "partial_failure"}
  BY StateType DEF PendingIn, RowPending
<1>4. \A b \in Cycles : cycle[b].state \in Closed =>
        [cycle'[b] EXCEPT !.finished = 0] = [cycle[b] EXCEPT !.finished = 0]
  BY <1>2 DEF LedgerInv, ClosedIsSettled
<1>5. \A b \in Cycles, u \in Sources : RowPending(b, u)' <=> RowPending(b, u)
  BY DEF RowPending
<1>6. \A b \in Cycles :
        /\ PendingIn(b)' = PendingIn(b) /\ UnboundIn(b)' = UnboundIn(b)
        /\ CountsOf(row[b])' = CountsOf(row[b]) /\ StateOf(row[b])' = StateOf(row[b])
  BY DEF PendingIn, UnboundIn, RowPending, CountsOf, StateOf
<1>7. \A b \in Cycles : cycle'[b].state = "absent" <=> cycle[b].state = "absent"
  BY <1>2, <1>3
<1>8. \A b \in Cycles : cycle'[b].state = "dispatching" => cycle[b].state = "dispatching" /\ b # c
  BY <1>2, <1>3
<1>9. CyclesInOrder' /\ OneDispatching' /\ OnlyLatestPending'
  BY <1>5, <1>7, <1>8 DEF LedgerInv, CyclesInOrder, OneDispatching, OnlyLatestPending, Cycles
<1>10. PendingIsOpen'
  <2> SUFFICES ASSUME NEW b \in Cycles, NEW u \in Sources, RowPending(b, u)'
               PROVE  cycle'[b].state \in Open
    BY DEF PendingIsOpen
  <2>1. u \in PendingIn(b)
    BY <1>5 DEF PendingIn
  <2> QED  BY <1>2, <1>3, <1>5, <2>1 DEF LedgerInv, PendingIsOpen
<1>11. ClosedIsSettled'
  BY <1>2, <1>3, <1>6 DEF LedgerInv, ClosedIsSettled
<1>12. DispatchedHasWork'
  BY <1>2, <1>3, <1>6 DEF LedgerInv, DispatchedHasWork
<1>13. RecoveryVisibility'
  <2> SUFFICES ASSUME NEW b \in Cycles, UnboundIn(b) # {}
               PROVE  Incomplete(b)'
    BY <1>6 DEF RecoveryVisibility
  <2>1. Incomplete(b) /\ b # c
    BY DEF LedgerInv, RecoveryVisibility
  <2>2. \A a \in 1..(b - 1) : a \in Cycles
    BY SchedulerAssumption DEF Cycles
  <2> QED  BY <1>2, <1>8, <2>1, <2>2 DEF Incomplete
<1>14. Final
  BY <1>4 DEF Final
<1>15. \A b \in Cycles, u \in Sources : Accepts(b, u) => Accepts(b, u)'
  BY <1>10 DEF Accepts, PendingIsOpen, RowPending
<1> QED  BY <1>8, <1>9, <1>10, <1>11, <1>12, <1>13, <1>14, <1>15 DEF LedgerInv

(* begin_cycle inserts a cycle when no cycle is dispatching, with sources  *)
(* none of which has pending work.                                         *)
LEMMA InsertedCycle ==
    ASSUME TypeOK, LedgerInv, NothingIncomplete, NEW c \in Cycles, NEW due \in SUBSET Sources,
           \A b \in Cycles, s \in due : ~RowPending(b, s),
           NEW d \in Dispatchers, Insert(d, c, due)
    PROVE  /\ LedgerInv' /\ Final
           /\ cycle'[c].state = "dispatching"
           /\ \A b \in Cycles : b # c => cycle'[b] = cycle[b]
           /\ \A b \in Cycles, u \in Sources : Accepts(b, u) => Accepts(b, u)'
<1>0. cycle[c].state = "absent" /\ \A b \in 1..(c - 1) : cycle[b].state # "absent"
  BY DEF Insert
<1>1. /\ cycle'[c].state = "dispatching" /\ cycle'[c].finished = 0
      /\ \A b \in Cycles : b # c => cycle'[b] = cycle[b]
  BY DEF Insert, TypeOK, NoCycle
<1>2. /\ \A b \in Cycles : b # c => row'[b] = row[b]
      /\ \A s \in Sources : s \in due => row'[c][s].state = "queued"
      /\ \A s \in Sources : s \notin due => row'[c][s].state = "none"
  BY DEF Insert, TypeOK, NoRow
<1>3. \A s \in Sources : row[c][s].state = "none"
  BY <1>0 DEF LedgerInv, CyclesInOrder
<1>4. \A b \in Cycles, u \in Sources :
        RowPending(b, u)' <=> IF b = c THEN u \in due ELSE RowPending(b, u)
  BY <1>2 DEF RowPending
<1>5. \A b \in Cycles : b # c =>
        /\ PendingIn(b)' = PendingIn(b) /\ UnboundIn(b)' = UnboundIn(b)
        /\ CountsOf(row[b])' = CountsOf(row[b]) /\ StateOf(row[b])' = StateOf(row[b])
  <2> SUFFICES ASSUME NEW b \in Cycles, b # c
               PROVE  /\ PendingIn(b)' = PendingIn(b) /\ UnboundIn(b)' = UnboundIn(b)
                      /\ CountsOf(row[b])' = CountsOf(row[b]) /\ StateOf(row[b])' = StateOf(row[b])
    OBVIOUS
  <2>1. row'[b] = row[b]
    BY <1>2
  <2> QED  BY <2>1 DEF PendingIn, UnboundIn, RowPending, CountsOf, StateOf
<1>6. CyclesInOrder'
  <2> SUFFICES ASSUME NEW b \in Cycles, cycle'[b].state = "absent"
               PROVE  /\ \A s \in Sources : row'[b][s].state = "none"
                      /\ \A a \in (b + 1)..MaxCycles : cycle'[a].state = "absent"
    BY DEF CyclesInOrder
  <2>1. b # c /\ cycle[b].state = "absent"
    BY <1>1
  <2>2. ~(b < c)
    BY <1>0, <2>1, SchedulerAssumption DEF Cycles
  <2>3. \A a \in (b + 1)..MaxCycles : a \in Cycles /\ a # c
    BY <2>1, <2>2, SchedulerAssumption DEF Cycles
  <2> QED  BY <1>1, <1>2, <2>1, <2>3 DEF LedgerInv, CyclesInOrder
<1>7. PendingIsOpen'
  BY <1>1, <1>4 DEF LedgerInv, PendingIsOpen
<1>8. OneDispatching'
  BY <1>1 DEF NothingIncomplete, OneDispatching
<1>9. OnlyLatestPending'
  <2> SUFFICES ASSUME NEW b \in Cycles, NEW s \in Sources, RowPending(b, s)',
                      NEW a \in (b + 1)..MaxCycles
               PROVE  row'[a][s].state = "none"
    BY DEF OnlyLatestPending
  <2>0. a \in Cycles /\ b < a
    BY SchedulerAssumption DEF Cycles
  <2>1. CASE b = c
    <3>1. cycle[a].state = "absent" /\ a # c
      BY <1>0, <2>0, <2>1 DEF LedgerInv, CyclesInOrder
    <3> QED  BY <1>2, <2>0, <3>1 DEF LedgerInv, CyclesInOrder
  <2>2. CASE b # c /\ a = c
    <3>1. s \notin due
      BY <1>4, <2>2
    <3> QED  BY <1>2, <2>2, <3>1
  <2>3. CASE b # c /\ a # c
    BY <1>2, <1>4, <2>0, <2>3 DEF LedgerInv, OnlyLatestPending
  <2> QED  BY <2>1, <2>2, <2>3
<1>10. ClosedIsSettled' /\ DispatchedHasWork'
  BY <1>1, <1>5 DEF LedgerInv, ClosedIsSettled, DispatchedHasWork
<1>11. RecoveryVisibility'
  <2> SUFFICES ASSUME NEW b \in Cycles, UnboundIn(b)' # {}
               PROVE  Incomplete(b)'
    BY DEF RecoveryVisibility
  <2>1. b = c
    BY <1>5 DEF LedgerInv, RecoveryVisibility, NothingIncomplete, Incomplete
  <2>2. \A a \in 1..(c - 1) : a \in Cycles /\ a # c
    BY SchedulerAssumption DEF Cycles
  <2> QED  BY <1>1, <2>1, <2>2 DEF Incomplete, NothingIncomplete
<1>12. Final
  BY <1>0, <1>1, <1>2, <1>3 DEF Final
<1>13. \A b \in Cycles, u \in Sources : Accepts(b, u) => Accepts(b, u)'
  BY <1>1, <1>2, <1>3 DEF Accepts
<1> QED  BY <1>1, <1>6, <1>7, <1>8, <1>9, <1>10, <1>11, <1>12, <1>13 DEF LedgerInv

-----------------------------------------------------------------------------
(* What a dispatcher has read.                                             *)

(* ReadsHold, of one dispatcher. *)
Reads(d) ==
    /\ disp[d].pc = "begin" =>
         /\ NothingIncomplete
         /\ disp[d].due # {}
         /\ \A c \in Cycles, s \in disp[d].due : ~RowPending(c, s)
    /\ disp[d].pc \in OwnPcs =>
         /\ cycle[disp[d].cycle].state \in {"dispatching"} \cup Closed
         /\ \A b \in Cycles : cycle[b].state = "dispatching" => b = disp[d].cycle
    /\ disp[d].pc = "finish" => UnboundIn(disp[d].cycle) = {}
    /\ disp[d].pc = "report" => NothingIncomplete

(* Progress made by others leaves true what a dispatcher has read. *)
LEMMA ReadsEase ==
    ASSUME TypeOK, Targets, Eases, NEW d \in Dispatchers, Reads(d), disp'[d] = disp[d]
    PROVE  Reads(d)'
<1>1. disp[d].due \subseteq Sources
  BY DEF TypeOK, DispStates
<1>2. disp[d].pc \in OwnPcs => disp[d].cycle \in Cycles
  BY DEF Targets
<1>3. NothingIncomplete => NothingIncomplete'
  BY DEF Eases, NothingIncomplete
<1>4. disp[d].pc = "begin" => \A c \in Cycles, s \in disp[d].due : ~RowPending(c, s)'
  BY <1>1 DEF Eases, Reads
<1>5. disp[d].pc \in OwnPcs =>
        /\ cycle'[disp[d].cycle].state \in {"dispatching"} \cup Closed
        /\ \A b \in Cycles : cycle'[b].state = "dispatching" => b = disp[d].cycle
  BY <1>2 DEF Eases, Reads
<1>6. disp[d].pc = "finish" => UnboundIn(disp[d].cycle)' = {}
  BY <1>2 DEF Eases, Reads, OwnPcs
<1> QED  BY <1>3, <1>4, <1>5, <1>6 DEF Reads

(* An idle heartbeat stays honest while nothing new is dispatched. *)
LEMMA IdleEase ==
    ASSUME IdleIsHonest, Eases, UNCHANGED heartbeat \/ heartbeat' # "idle" \/ NothingIncomplete
    PROVE  IdleIsHonest'
BY DEF IdleIsHonest, Eases, NothingIncomplete

(* The sources found due have no pending work: due_source_ids reads the    *)
(* newest row of each, and only that row can be pending.                   *)
LEMMA DueIsFree ==
    ASSUME TypeOK, OnlyLatestPending, NEW now, NEW s \in MayBeDue(now), NEW c \in Cycles
    PROVE  ~RowPending(c, s)
<1>1. s \in Sources
  BY DEF MayBeDue
<1>2. RowPending(c, s) => Latest(c, s)
  BY <1>1 DEF OnlyLatestPending, Latest, RowPending
<1>3. Latest(c, s) => row[c][s].state \in Outcomes
  BY DEF MayBeDue
<1> QED  BY <1>2, <1>3 DEF RowPending

-----------------------------------------------------------------------------
(* The steps.                                                              *)

(* What a step of dispatcher d establishes. *)
Sound(d) ==
    /\ LedgerInv' /\ Final
    /\ \A b \in Cycles, u \in Sources : Accepts(b, u) => Accepts(b, u)'
    /\ Reads(d)'
    /\ IdleIsHonest'

(* Steps of a dispatcher that write neither table. *)
LEMMA QuietStep ==
    ASSUME IndInv, NEW d \in Dispatchers,
           \/ RecoverBegin(d) \/ RecoverSend(d) \/ RecoverEnd(d) \/ RecoverReport(d)
           \/ DispatchBegin(d) \/ Send(d) \/ CheckRemaining(d) \/ DispatchReport(d)
           \/ ReportError(d) \/ Abort(d)
    PROVE  Sound(d)
<1> USE DEF OwnPcs
<1>0. TypeOK /\ LedgerInv /\ Reads(d) /\ IdleIsHonest /\ Targets
  BY DEF IndInv, LedgerInv, ReadsHold, Reads
<1>1. UNCHANGED <<cycle, row>>
  BY DEF RecoverBegin, RecoverSend, RecoverEnd, RecoverReport, DispatchBegin, Send,
         CheckRemaining, DispatchReport, ReportError, Abort
<1>2. /\ LedgerInv' /\ Eases /\ Final
      /\ \A b \in Cycles, u \in Sources : Accepts(b, u) => Accepts(b, u)'
  BY <1>0, <1>1, SameLedger
<1>3. UNCHANGED heartbeat \/ heartbeat' # "idle" \/ NothingIncomplete
  BY <1>0 DEF RecoverBegin, RecoverSend, RecoverEnd, RecoverReport, DispatchBegin, Send,
         CheckRemaining, DispatchReport, ReportError, Abort, Reads
<1>4. IdleIsHonest'
  BY <1>0, <1>2, <1>3, IdleEase
<1>5. Sleep(d) \/ Raise(d) => Reads(d)'
  BY <1>0, DispEffects DEF Reads
<1>6. \A c \in Cycles : /\ UnboundIn(c)' = UnboundIn(c) /\ cycle'[c] = cycle[c]
  BY <1>1 DEF UnboundIn, PendingIn, RowPending
<1>7. Reads(d)'
  <2>1. CASE RecoverBegin(d)
    <3>1. ASSUME NEW stale,
                 disp' = [disp EXCEPT ![d] = [Asleep EXCEPT !.pc = "recover", !.todo = stale]]
          PROVE  Reads(d)'
      <4>1. disp'[d].pc = "recover"
        BY <1>0, <3>1 DEF TypeOK, Asleep
      <4> QED  BY <4>1 DEF Reads
    <3>2. Goto(d, "awake") => Reads(d)'
      BY <1>0, DispEffects DEF Reads
    <3> QED  BY <2>1, <3>1, <3>2 DEF RecoverBegin
  <2>2. CASE RecoverSend(d)
    BY <1>0, <2>2, DispEffects DEF RecoverSend, Reads
  <2>3. CASE RecoverEnd(d) \/ RecoverReport(d)
    BY <1>0, <2>3, DispEffects DEF RecoverEnd, RecoverReport, Reads
  <2>4. CASE DispatchBegin(d)
    <3>1. disp' = [disp EXCEPT ![d] = [Asleep EXCEPT !.pc = "read", !.now = tick]]
          => disp'[d].pc = "read"
      BY <1>0 DEF TypeOK, Asleep
    <3> QED  BY <1>5, <2>4, <3>1 DEF DispatchBegin, Reads
  <2>5. CASE Send(d)
    <3>1. PICK j \in disp[d].todo, pc \in {"bind", "undo"} : Pick(d, pc, j)
      BY <2>5 DEF Send
    <3>2. disp'[d].pc \in {"bind", "undo"} /\ disp'[d].cycle = disp[d].cycle
      BY <1>0, <3>1, DispEffects
    <3>3. disp[d].pc = "dispatch" /\ disp[d].cycle \in Cycles
      BY <1>0, <2>5 DEF Send, Targets
    <3> QED  BY <1>0, <1>6, <3>2, <3>3 DEF Reads
  <2>6. CASE CheckRemaining(d)
    <3>1. disp[d].pc = "dispatch" /\ disp[d].cycle \in Cycles
      BY <1>0, <2>6 DEF CheckRemaining, Targets
    <3>2. CASE Sleep(d)
      BY <1>5, <3>2
    <3>3. CASE Goto(d, "finish") /\ ~(Incomplete(disp[d].cycle) /\ UnboundIn(disp[d].cycle) # {})
      <4>1. UnboundIn(disp[d].cycle) = {}
        BY <1>0, <3>1, <3>3 DEF LedgerInv, RecoveryVisibility
      <4>2. disp'[d].pc = "finish" /\ disp'[d].cycle = disp[d].cycle
        BY <1>0, <3>3, DispEffects
      <4> QED  BY <1>0, <1>6, <3>1, <4>1, <4>2 DEF Reads
    <3> QED  BY <2>6, <3>2, <3>3 DEF CheckRemaining
  <2>7. CASE DispatchReport(d) \/ ReportError(d) \/ Abort(d)
    BY <1>5, <2>7 DEF DispatchReport, ReportError, Abort
  <2> QED  BY <2>1, <2>2, <2>3, <2>4, <2>5, <2>6, <2>7
<1> QED  BY <1>2, <1>4, <1>7 DEF Sound

(* What Bound does to the ledger, row by row. *)
LEMMA BoundRow ==
    ASSUME TypeOK, NEW c \in Cycles, NEW s \in Sources, NEW b \in Cycles, NEW u \in Sources
    PROVE  /\ Bound(c, s)[b][u].state = row[b][u].state
           /\ Bound(c, s)[b][u].at = row[b][u].at
           /\ Bound(c, s)[b][u].message = "null" => row[b][u].message = "null"
<1> DEFINE r == [row[c][s] EXCEPT !.message = "known"]
<1>1. row[c][s] \in SourceRows
  BY DEF TypeOK
<1>2. r \in SourceRows
  BY RowTypes
<1>3. r.state = row[c][s].state /\ r.at = row[c][s].at /\ r.message = "known"
  BY <1>1 DEF SourceRows
<1>4. Bound(c, s) = Updated(c, s, r)
  BY DEF Bound
<1> HIDE DEF r
<1>5. Updated(c, s, r)[b][u] = IF b = c /\ u = s THEN r ELSE row[b][u]
  BY <1>2, UpdatedType
<1> QED  BY <1>3, <1>4, <1>5

(* Steps of a dispatcher that write one row. *)
LEMMA RowStep ==
    ASSUME IndInv, NEW d \in Dispatchers, RecoverBind(d) \/ Bind(d) \/ FailDispatch(d)
    PROVE  Sound(d)
<1> USE DEF OwnPcs
<1>0. TypeOK /\ LedgerInv /\ Reads(d) /\ IdleIsHonest /\ Targets
  BY DEF IndInv, LedgerInv, ReadsHold, Reads
<1>1. PICK c \in Cycles, s \in Sources : disp[d].cur = <<c, s>>
  BY <1>0 DEF RecoverBind, Bind, FailDispatch, Targets, Jobs
<1>2. UNCHANGED <<cycle, heartbeat>>
  BY DEF RecoverBind, Bind, FailDispatch
<1>3. /\ LedgerInv' /\ Eases /\ Final
      /\ \A b \in Cycles, u \in Sources : Accepts(b, u) => Accepts(b, u)'
  <2>1. CASE row' = row
    BY <1>0, <1>2, <2>1, SameLedger
  <2>2. CASE row' = Bound(c, s)
    <3>1. \A b \in Cycles, u \in Sources :
            /\ row'[b][u].message = "null" => row[b][u].message = "null"
            /\ row'[b][u].state = row[b][u].state
            /\ row'[b][u].at = row[b][u].at
      BY <1>0, <2>2, BoundRow
    <3> QED  BY <1>0, <1>2, <3>1, MovedRow
  <2>3. CASE FailDispatch(d) /\ row' # row
    <3>1. row[c][s].state = "queued" /\ row' = Ended(c, s, "failed")
      BY <1>1, <2>3 DEF FailDispatch, Undone
    <3>2. cycle[c].state = "dispatching"
      <4>1. disp[d].cycle = c /\ disp[d].pc = "undo"
        BY <1>0, <1>1, <2>3 DEF FailDispatch, Targets
      <4>2. cycle[c].state \in Open
        BY <1>0, <3>1 DEF LedgerInv, PendingIsOpen, RowPending
      <4> QED  BY <1>0, <4>1, <4>2 DEF Reads
    <3> QED  BY <1>0, <1>2, <3>1, <3>2, FailedRow
  <2> QED  BY <1>1, <2>1, <2>2, <2>3 DEF RecoverBind, Bind
<1>4. IdleIsHonest'
  BY <1>0, <1>2, <1>3, IdleEase
<1>5. Reads(d)'
  <2>1. CASE RecoverBind(d)
    BY <1>0, <2>1, DispEffects DEF RecoverBind, Reads
  <2>2. CASE Bind(d) \/ FailDispatch(d)
    <3>1. disp[d].pc \in {"bind", "undo"} /\ disp[d].cycle \in Cycles
      BY <1>0, <2>2 DEF Bind, FailDispatch, Targets
    <3>2. disp'[d].pc \in {"dispatch", "undo"} /\ disp'[d].cycle = disp[d].cycle
      BY <1>0, <2>2, DispEffects DEF Bind, FailDispatch
    <3>3. /\ cycle'[disp'[d].cycle].state \in {"dispatching"} \cup Closed
          /\ \A b \in Cycles : cycle'[b].state = "dispatching" => b = disp'[d].cycle
      BY <1>0, <1>2, <3>1, <3>2 DEF Reads
    <3> QED  BY <3>2, <3>3 DEF Reads
  <2> QED  BY <2>1, <2>2
<1> QED  BY <1>3, <1>4, <1>5 DEF Sound

(* The dispatcher resumes the one dispatching cycle, or finds sources with *)
(* no pending work, or rests when nothing is half dispatched.              *)
LEMMA ReadStep ==
    ASSUME IndInv, NEW d \in Dispatchers, DispatchRead(d)
    PROVE  Sound(d)
<1> USE DEF OwnPcs
<1>0. TypeOK /\ LedgerInv /\ Reads(d) /\ IdleIsHonest /\ Targets /\ OnlyLatestPending
  BY DEF IndInv, LedgerInv, ReadsHold, Reads
<1>1. UNCHANGED <<cycle, row>>
  BY DEF DispatchRead
<1>2. /\ LedgerInv' /\ Eases /\ Final
      /\ \A b \in Cycles, u \in Sources : Accepts(b, u) => Accepts(b, u)'
  BY <1>0, <1>1, SameLedger
<1>3. UNCHANGED heartbeat \/ heartbeat' # "idle" \/ NothingIncomplete
  BY DEF DispatchRead, Resume, FindDue, NothingDue
<1>4. IdleIsHonest'
  BY <1>0, <1>2, <1>3, IdleEase
<1>5. ASSUME NEW c \in Cycles, Resume(d, c)
      PROVE  Reads(d)'
  <2>1. disp'[d].pc = "dispatch" /\ disp'[d].cycle = c
    BY <1>0, <1>5, DispEffects DEF Resume
  <2>2. cycle[c].state = "dispatching"
    BY <1>5 DEF Resume, Incomplete
  <2>3. \A b \in Cycles : cycle[b].state = "dispatching" => b = c
    BY <1>0, <2>2 DEF LedgerInv, OneDispatching
  <2> QED  BY <1>1, <2>1, <2>2, <2>3 DEF Reads
<1>6. ASSUME FindDue(d)
      PROVE  Reads(d)'
  <2>1. PICK due \in SUBSET MayBeDue(disp[d].now) :
          due # {} /\ disp' = [disp EXCEPT ![d] = [@ EXCEPT !.pc = "begin", !.due = due]]
    BY <1>6 DEF FindDue
  <2>2. disp[d] \in DispStates
    BY <1>0 DEF TypeOK
  <2>3. disp'[d] = [disp[d] EXCEPT !.pc = "begin", !.due = due]
    BY <1>0, <2>1 DEF TypeOK
  <2>4. disp'[d].pc = "begin" /\ disp'[d].due = due
    BY <2>2, <2>3 DEF DispStates
  <2>5. \A c \in Cycles, s \in due : ~RowPending(c, s)
    BY <1>0, <2>1, DueIsFree
  <2>6. NothingIncomplete' /\ \A c \in Cycles, s \in due : ~RowPending(c, s)'
    BY <1>1, <1>6, <2>5 DEF FindDue, NothingIncomplete, RowPending
  <2> QED  BY <2>1, <2>4, <2>6 DEF Reads
<1>7. NothingDue(d) => Reads(d)'
  BY <1>0, DispEffects DEF NothingDue, Reads
<1>8. Reads(d)'
  BY <1>5, <1>6, <1>7 DEF DispatchRead
<1> QED  BY <1>2, <1>4, <1>8 DEF Sound

(* begin_cycle inserts a cycle, or leaves the tables alone. *)
LEMMA BeginStep ==
    ASSUME IndInv, NEW d \in Dispatchers, BeginCycle(d)
    PROVE  Sound(d)
<1> USE DEF OwnPcs
<1>0. TypeOK /\ LedgerInv /\ Reads(d) /\ IdleIsHonest /\ Targets
  BY DEF IndInv, LedgerInv, ReadsHold, Reads
<1>1. /\ NothingIncomplete
      /\ \A c \in Cycles, s \in disp[d].due : ~RowPending(c, s)
  BY <1>0 DEF BeginCycle, Reads
<1>2. disp[d].due \in SUBSET Sources
  BY <1>0 DEF TypeOK, DispStates
<1>3. ASSUME NEW c \in Cycles, Insert(d, c, disp[d].due)
      PROVE  Sound(d)
  <2>1. /\ LedgerInv' /\ Final /\ cycle'[c].state = "dispatching"
        /\ \A b \in Cycles : b # c => cycle'[b] = cycle[b]
        /\ \A b \in Cycles, u \in Sources : Accepts(b, u) => Accepts(b, u)'
    BY <1>0, <1>1, <1>2, <1>3, InsertedCycle
  <2>2. heartbeat' # "idle"
    BY <1>3 DEF Insert
  <2>3. disp'[d].pc = "dispatch" /\ disp'[d].cycle = c
    BY <1>0, <1>3, DispEffects DEF Insert
  <2>4. \A b \in Cycles : cycle'[b].state = "dispatching" => b = c
    BY <1>1, <2>1 DEF NothingIncomplete
  <2>5. Reads(d)'
    BY <2>1, <2>3, <2>4 DEF Reads
  <2> QED  BY <2>1, <2>2, <2>5 DEF Sound, IdleIsHonest
<1>4. ASSUME NEW c \in Cycles, Existing(d, c)
      PROVE  Sound(d)
  <2>1. UNCHANGED <<cycle, row>>
    BY <1>4 DEF Existing
  <2>2. /\ LedgerInv' /\ Eases /\ Final
        /\ \A b \in Cycles, u \in Sources : Accepts(b, u) => Accepts(b, u)'
    BY <1>0, <2>1, SameLedger
  <2>3. IdleIsHonest'
    BY <1>0, <1>1, <2>2, IdleEase
  <2>4. Sleep(d) \/ Raise(d)
    BY <1>1, <1>4 DEF Existing, NothingIncomplete
  <2>5. Reads(d)'
    BY <1>0, <2>4, DispEffects DEF Reads
  <2> QED  BY <2>2, <2>3, <2>5 DEF Sound
<1> QED  BY <1>3, <1>4 DEF BeginCycle

(* finish_dispatch leaves no cycle dispatching. *)
LEMMA FinishStep ==
    ASSUME IndInv, NEW d \in Dispatchers, FinishDispatch(d)
    PROVE  Sound(d)
<1> USE DEF OwnPcs
<1>0. TypeOK /\ LedgerInv /\ Reads(d) /\ IdleIsHonest /\ Targets
  BY DEF IndInv, LedgerInv, ReadsHold, Reads
<1> DEFINE c == disp[d].cycle
<1>1. /\ c \in Cycles
      /\ cycle[c].state \in {"dispatching"} \cup Closed
      /\ \A b \in Cycles : cycle[b].state = "dispatching" => b = c
      /\ UnboundIn(c) = {}
  BY <1>0 DEF FinishDispatch, Reads, Targets
<1>2. /\ UNCHANGED <<row, heartbeat>> /\ Goto(d, "report")
      /\ cycle' = [cycle EXCEPT ![c] = [@ EXCEPT
                     !.state = StateOf(row[c]), !.count = CountsOf(row[c]),
                     !.finished = EndTime(row[c], tick)]]
  BY DEF FinishDispatch
<1> HIDE DEF c
<1>3. /\ LedgerInv' /\ Final
      /\ cycle'[c].state # "dispatching"
      /\ \A b \in Cycles : cycle'[b].state = "dispatching" => cycle[b].state = "dispatching"
      /\ \A b \in Cycles, u \in Sources : Accepts(b, u) => Accepts(b, u)'
  BY <1>0, <1>1, <1>2, FinishedCycle
<1>4. NothingIncomplete'
  BY <1>1, <1>3 DEF NothingIncomplete
<1>5. disp'[d].pc = "report"
  BY <1>0, <1>2, DispEffects
<1> QED  BY <1>3, <1>4, <1>5 DEF Sound, Reads, IdleIsHonest

(* A dispatcher's step keeps what the other dispatchers have read: only    *)
(* the holder of the scheduler lock writes the ledger.                     *)
LEMMA DispatchStep ==
    ASSUME IndInv, NEW d \in Dispatchers, Dispatch(d) \/ Abort(d)
    PROVE  Sound(d) /\ ReadsHold' /\ ResultAccepted'
<1>0. /\ TypeOK /\ LedgerInv /\ Targets /\ LocksHeld /\ ResultAccepted
      /\ \A e \in Dispatchers : Reads(e)
  BY DEF IndInv, LedgerInv, ReadsHold, Reads
<1>1. Sound(d)
  BY QuietStep, RowStep, ReadStep, BeginStep, FinishStep DEF Dispatch
<1>2. Aims(d)
  BY <1>0 DEF LocksHeld, Targets, Aims
<1>3. Alone(d)
  BY <1>0, <1>2, DispatchAims
<1>4. ASSUME NEW e \in Dispatchers \ {d}
      PROVE  Reads(e)'
  <2>1. disp'[e] = disp[e]
    BY <1>3 DEF Alone
  <2>2. CASE disp[d].pc \in HeldPcs
    <3>1. disp[e].pc \notin HeldPcs
      BY <1>0, <2>2 DEF LocksHeld
    <3> QED  BY <2>1, <3>1 DEF Reads, HeldPcs, OwnPcs
  <2>3. CASE disp[d].pc \notin HeldPcs
    <3>1. UNCHANGED <<cycle, row>>
      BY <2>3 DEF HeldPcs, Dispatch, Abort, RecoverBegin, RecoverSend, RecoverBind, RecoverEnd,
                  RecoverReport, DispatchBegin, DispatchRead, BeginCycle, Send, Bind,
                  FailDispatch, CheckRemaining, FinishDispatch, DispatchReport, ReportError
    <3>2. Eases
      BY <1>0, <3>1, SameLedger
    <3> QED  BY <1>0, <2>1, <3>2, ReadsEase
  <2> QED  BY <2>2, <2>3
<1>5. ReadsHold'
  BY <1>1, <1>4 DEF Sound, ReadsHold, Reads
<1>6. ResultAccepted'
  <2> SUFFICES ASSUME NEW w \in Workers, worker'[w].pc \in {"running", "finish"}
               PROVE  Accepts(worker[w].job[1], worker[w].job[2])'
    BY DEF ResultAccepted
  <2>1. worker' = worker
    BY <1>3 DEF Alone
  <2>2. worker[w].job \in Jobs
    BY <1>0, <2>1 DEF LocksHeld
  <2>3. worker[w].job[1] \in Cycles /\ worker[w].job[2] \in Sources
    BY <2>2 DEF Jobs
  <2>4. Accepts(worker[w].job[1], worker[w].job[2])
    BY <1>0, <2>1 DEF ResultAccepted
  <2>5. Accepts(worker[w].job[1], worker[w].job[2])'
    BY <1>1, <2>1, <2>3, <2>4 DEF Sound, Accepts
  <2> QED  BY <2>1, <2>5
<1> QED  BY <1>1, <1>5, <1>6

(* What worker w does to the ledger: nothing, start a pending row, or      *)
(* store a result that is accepted.                                        *)
LEMMA WorkLedger ==
    ASSUME TypeOK, LedgerInv, LocksHeld, Targets, NEW w \in Workers, Work(w) \/ WorkerCrash(w)
    PROVE  /\ LedgerInv' /\ Eases /\ Final
           /\ UNCHANGED <<disp, heartbeat>>
           /\ worker[w].job \in Jobs
           /\ KeepsOthers(worker[w].job[1], worker[w].job[2])
<1>1. worker[w].job \in Jobs
  BY DEF LocksHeld, Work, Start, Run, Finish, Fail, WorkerCrash
<1>2. PICK c \in Cycles, s \in Sources : worker[w].job = <<c, s>>
  BY <1>1 DEF Jobs
<1>3. UNCHANGED <<disp, heartbeat>>
  BY DEF Work, Start, Run, Finish, Fail, WorkerCrash
<1>4. ASSUME UNCHANGED <<cycle, row>>
      PROVE  LedgerInv' /\ Eases /\ Final /\ KeepsOthers(c, s)
  BY <1>4, SameLedger DEF KeepsOthers
<1>5. ASSUME NEW o \in Outcomes, Accepts(c, s), Store(c, s, o)
      PROVE  LedgerInv' /\ Eases /\ Final /\ KeepsOthers(c, s)
  BY <1>5, StoredRow
<1>6. LedgerInv' /\ Eases /\ Final /\ KeepsOthers(c, s)
  <2>1. CASE Start(w)
    <3>1. CASE RowPending(c, s)
      <4> DEFINE n == IF row[c][s].state = "queued" THEN tick ELSE row[c][s].at
                 r == [row[c][s] EXCEPT !.state = "running", !.at = n]
      <4>1. row[c][s] \in SourceRows /\ n \in Nat
        BY DEF TypeOK, SourceRows
      <4> HIDE DEF n
      <4>2. r \in SourceRows
        BY <4>1, RowTypes
      <4>3. r.state = "running" /\ r.message = row[c][s].message
        BY <4>1 DEF SourceRows
      <4>4. row' = Updated(c, s, r) /\ UNCHANGED cycle
        BY <1>2, <2>1, <3>1 DEF Start, n
      <4> HIDE DEF r
      <4>5. \A b \in Cycles, u \in Sources : row'[b][u] = IF b = c /\ u = s THEN r ELSE row[b][u]
        BY <4>2, <4>4, UpdatedType
      <4>6. \A b \in Cycles, u \in Sources :
              /\ row'[b][u].message = "null" => row[b][u].message = "null"
              /\ \/ row'[b][u].state = row[b][u].state
                 \/ row[b][u].state \in Pending /\ row'[b][u].state = "running"
              /\ row[b][u].state \in Outcomes => row'[b][u].at = row[b][u].at
        BY <3>1, <4>3, <4>5 DEF RowPending
      <4> QED  BY <4>4, <4>6, MovedRow DEF KeepsOthers
    <3>2. CASE ~RowPending(c, s)
      BY <1>2, <1>4, <2>1, <3>2 DEF Start
    <3> QED  BY <3>1, <3>2
  <2>2. CASE Run(w) \/ WorkerCrash(w)
    BY <1>4, <2>2 DEF Run, WorkerCrash
  <2>3. CASE Finish(w)
    <3>1. worker[w].outcome \in Outcomes
      BY <2>3 DEF Finish, Targets
    <3> QED  BY <1>2, <1>4, <1>5, <2>3, <3>1 DEF Finish
  <2>4. CASE Fail(w)
    BY <1>2, <1>4, <1>5, <2>4 DEF Fail
  <2> QED  BY <2>1, <2>2, <2>3, <2>4 DEF Work
<1> QED  BY <1>1, <1>2, <1>3, <1>6

(* A worker at work finds its row running in an open cycle, whatever the   *)
(* other workers do: they work for other sources.                          *)
LEMMA WorkStep ==
    ASSUME IndInv, NEW w \in Workers, Work(w) \/ WorkerCrash(w)
    PROVE  LedgerInv' /\ Final /\ ReadsHold' /\ IdleIsHonest' /\ ResultAccepted'
<1>0. /\ TypeOK /\ LedgerInv /\ Targets /\ LocksHeld /\ ResultAccepted /\ IdleIsHonest
      /\ \A e \in Dispatchers : Reads(e)
  BY DEF IndInv, LedgerInv, ReadsHold, Reads
<1>1. /\ LedgerInv' /\ Eases /\ Final
      /\ UNCHANGED <<disp, heartbeat>>
      /\ worker[w].job \in Jobs
      /\ KeepsOthers(worker[w].job[1], worker[w].job[2])
  BY <1>0, WorkLedger
<1>2. IdleIsHonest'
  BY <1>0, <1>1, IdleEase
<1>3. ReadsHold'
  <2>1. \A d \in Dispatchers : Reads(d)'
    BY <1>0, <1>1, ReadsEase
  <2> QED  BY <2>1 DEF ReadsHold, Reads
<1>4. ASSUME NEW v \in Workers \ {w}, worker'[v].pc \in {"running", "finish"}
      PROVE  Accepts(worker[v].job[1], worker[v].job[2])'
  <2>1. worker'[v] = worker[v]
    BY <1>0 DEF Work, Start, Run, Finish, Fail, WorkerCrash, Release, WorkerAt, TypeOK
  <2>2. worker[v].job \in Jobs /\ sourceLock[worker[v].job[2]] = v
    BY <1>0, <1>4, <2>1 DEF LocksHeld
  <2>3. sourceLock[worker[w].job[2]] = w
    BY <1>0 DEF LocksHeld, Work, Start, Run, Finish, Fail, WorkerCrash
  <2>4. worker[v].job[2] # worker[w].job[2]
    BY <2>2, <2>3
  <2>5. worker[v].job[1] \in Cycles /\ worker[v].job[2] \in Sources
    BY <2>2 DEF Jobs
  <2>6. Accepts(worker[v].job[1], worker[v].job[2])
    BY <1>0, <1>4, <2>1 DEF ResultAccepted
  <2>7. Accepts(worker[v].job[1], worker[v].job[2])'
    BY <1>1, <2>4, <2>5, <2>6, <2>1 DEF KeepsOthers, Accepts
  <2> QED  BY <2>1, <2>7
<1>5. ASSUME worker'[w].pc \in {"running", "finish"}
      PROVE  Accepts(worker[w].job[1], worker[w].job[2])'
  <2>0. worker[w] \in WorkStates
    BY <1>0 DEF TypeOK
  <2>1. PICK c \in Cycles, s \in Sources : worker[w].job = <<c, s>>
    BY <1>1 DEF Jobs
  <2>2. ~Release(w)
    BY <1>0, <1>5 DEF Release, TypeOK, Idle
  <2>3. ~(WorkerAt(w, "fail"))
    <3>1. WorkerAt(w, "fail") => worker'[w] = [worker[w] EXCEPT !.pc = "fail"]
      BY <1>0 DEF WorkerAt, TypeOK
    <3> QED  BY <1>5, <2>0, <3>1 DEF WorkStates
  <2>4. CASE Start(w)
    <3>1. RowPending(c, s) /\ WorkerAt(w, "running") /\ UNCHANGED cycle
      BY <2>1, <2>2, <2>4 DEF Start
    <3>2. worker'[w] = [worker[w] EXCEPT !.pc = "running"]
      BY <1>0, <3>1 DEF WorkerAt, TypeOK
    <3>3. worker'[w].job = <<c, s>>
      BY <2>0, <2>1, <3>2 DEF WorkStates
    <3>4. row'[c][s].state = "running"
      <4> DEFINE n == IF row[c][s].state = "queued" THEN tick ELSE row[c][s].at
                 r == [row[c][s] EXCEPT !.state = "running", !.at = n]
      <4>1. row[c][s] \in SourceRows /\ n \in Nat
        BY <1>0 DEF TypeOK, SourceRows
      <4> HIDE DEF n
      <4>2. r \in SourceRows /\ r.state = "running"
        BY <1>0, <4>1, RowTypes DEF SourceRows
      <4>3. row' = Updated(c, s, r)
        BY <2>1, <2>4, <3>1 DEF Start, n
      <4> HIDE DEF r
      <4> QED  BY <1>0, <4>2, <4>3, UpdatedType
    <3>5. cycle[c].state \in Open
      BY <1>0, <3>1 DEF LedgerInv, PendingIsOpen
    <3> QED  BY <3>1, <3>3, <3>4, <3>5 DEF Accepts
  <2>5. CASE Run(w)
    <3>1. PICK o \in Outcomes : worker' = [worker EXCEPT ![w] = [@ EXCEPT !.pc = "finish", !.outcome = o]]
      BY <2>3, <2>5 DEF Run
    <3>2. worker'[w] = [worker[w] EXCEPT !.pc = "finish", !.outcome = o]
      BY <1>0, <3>1 DEF TypeOK
    <3>3. worker'[w].job = <<c, s>>
      BY <2>0, <2>1, <3>2 DEF WorkStates
    <3>4. Accepts(c, s)
      BY <1>0, <2>1, <2>5 DEF Run, ResultAccepted
    <3> QED  BY <2>5, <3>3, <3>4 DEF Run, Accepts
  <2>6. CASE Finish(w)
    BY <2>2, <2>3, <2>6 DEF Finish
  <2>7. CASE Fail(w) \/ WorkerCrash(w)
    BY <2>2, <2>7 DEF Fail, WorkerCrash
  <2> QED  BY <2>4, <2>5, <2>6, <2>7 DEF Work
<1>6. ResultAccepted'
  BY <1>4, <1>5 DEF ResultAccepted
<1> QED  BY <1>1, <1>2, <1>3, <1>6

(* Handing over, losing a message and the clock leave the ledger alone. *)
LEMMA OtherStep ==
    ASSUME IndInv,
           \/ MinutePasses
           \/ \E c \in Cycles, s \in Sources : LoseMessage(c, s)
           \/ \E w \in Workers, c \in Cycles, s \in Sources : Deliver(w, c, s)
           \/ UNCHANGED vars
    PROVE  LedgerInv' /\ Final /\ ReadsHold' /\ IdleIsHonest' /\ ResultAccepted'
<1>0. /\ TypeOK /\ LedgerInv /\ Targets /\ LocksHeld /\ ResultAccepted /\ IdleIsHonest
      /\ \A e \in Dispatchers : Reads(e)
  BY DEF IndInv, LedgerInv, ReadsHold, Reads
<1>1. UNCHANGED <<cycle, row, disp, heartbeat>>
  BY DEF MinutePasses, LoseMessage, Deliver, vars
<1>2. LedgerInv' /\ Eases /\ Final
  BY <1>0, <1>1, SameLedger
<1>3. IdleIsHonest'
  BY <1>0, <1>1, <1>2, IdleEase
<1>4. ReadsHold'
  <2>1. \A d \in Dispatchers : Reads(d)'
    BY <1>0, <1>1, <1>2, ReadsEase
  <2> QED  BY <2>1 DEF ReadsHold, Reads
<1>5. ASSUME NEW w \in Workers, worker'[w].pc \in {"running", "finish"}
      PROVE  worker'[w] = worker[w]
  <2>1. CASE \E v \in Workers, c \in Cycles, s \in Sources : Deliver(v, c, s)
    <3>1. PICK v \in Workers, c \in Cycles, s \in Sources : Deliver(v, c, s)
      BY <2>1
    <3>2. v # w => worker'[w] = worker[w]
      BY <1>0, <3>1 DEF Deliver, TypeOK
    <3>3. v = w => worker'[w].pc = "locked"
      BY <1>0, <3>1 DEF Deliver, TypeOK, Idle
    <3> QED  BY <1>5, <3>2, <3>3
  <2>2. CASE UNCHANGED worker
    BY <2>2
  <2> QED  BY <2>1, <2>2 DEF MinutePasses, LoseMessage, vars
<1>6. ResultAccepted'
  <2> SUFFICES ASSUME NEW w \in Workers, worker'[w].pc \in {"running", "finish"}
               PROVE  Accepts(worker[w].job[1], worker[w].job[2])'
    BY DEF ResultAccepted
  <2>1. Accepts(worker[w].job[1], worker[w].job[2]) /\ worker'[w] = worker[w]
    BY <1>0, <1>5 DEF ResultAccepted
  <2> QED  BY <1>1, <2>1 DEF Accepts
<1> QED  BY <1>2, <1>3, <1>4, <1>6

(* The tables and the local states of the first moment satisfy IndInv. *)
LEMMA IndInvInit == Init => IndInv
<1> SUFFICES ASSUME Init PROVE IndInv
  OBVIOUS
<1>1. TypeOK /\ LocksHeld /\ Targets
  BY TypeInit, LocksInit
<1>2. \A c \in Cycles : /\ cycle[c].state = "absent" /\ cycle[c].finished = 0
                        /\ \A s \in Sources : row[c][s].state = "none"
  BY DEF Init, NoCycle, NoRow
<1>3. \A c \in Cycles : \A b \in (c + 1)..MaxCycles : b \in Cycles
  BY SchedulerAssumption DEF Cycles
<1>4. \A c \in Cycles : PendingIn(c) = {} /\ UnboundIn(c) = {}
  BY <1>2 DEF PendingIn, UnboundIn, RowPending
<1>5. CyclesInOrder /\ PendingIsOpen /\ OneDispatching /\ OnlyLatestPending
  BY <1>2, <1>3 DEF CyclesInOrder, PendingIsOpen, OneDispatching, OnlyLatestPending, RowPending
<1>6. ClosedIsSettled /\ DispatchedHasWork /\ RecoveryVisibility
  BY <1>2, <1>4 DEF ClosedIsSettled, DispatchedHasWork, RecoveryVisibility
<1>7. ReadsHold
  BY DEF Init, Asleep, ReadsHold, OwnPcs
<1>8. ResultAccepted /\ IdleIsHonest
  BY DEF Init, Idle, ResultAccepted, IdleIsHonest
<1> QED  BY <1>1, <1>5, <1>6, <1>7, <1>8 DEF IndInv

(* IndInv is inductive, and a step under it rewrites no history. *)
LEMMA IndInvStep ==
    ASSUME IndInv, [Next]_vars
    PROVE  IndInv' /\ Final
<1>1. TypeOK' /\ LocksHeld' /\ Targets'
  BY TypeStep, LocksStep DEF IndInv
<1>2. LedgerInv' /\ Final /\ ReadsHold' /\ IdleIsHonest' /\ ResultAccepted'
  <2>1. ASSUME NEW d \in Dispatchers, Dispatch(d) \/ Abort(d)
        PROVE  LedgerInv' /\ Final /\ ReadsHold' /\ IdleIsHonest' /\ ResultAccepted'
    BY <2>1, DispatchStep DEF Sound
  <2>2. ASSUME NEW w \in Workers, Work(w) \/ WorkerCrash(w)
        PROVE  LedgerInv' /\ Final /\ ReadsHold' /\ IdleIsHonest' /\ ResultAccepted'
    BY <2>2, WorkStep
  <2> QED  BY <2>1, <2>2, OtherStep DEF Next
<1> QED  BY <1>1, <1>2 DEF IndInv, LedgerInv

-----------------------------------------------------------------------------
(* Theorems.                                                               *)

(* IndInv holds in every reachable state.                                  *)
THEOREM Invariance == Spec => []IndInv
<1>1. IndInv /\ [Next]_vars => IndInv'
  BY IndInvStep
<1> QED  BY <1>1, IndInvInit, PTL DEF Spec

(* A row that was never bound to a message is always in the cycle that     *)
(* incomplete_dispatch returns, and a dispatched cycle always has pending  *)
(* rows for stale_source_results: between them they find all owed work.    *)
THEOREM Recoverable == Spec => [](RecoveryVisibility /\ DispatchedHasWork)
<1>1. IndInv => RecoveryVisibility /\ DispatchedHasWork
  BY DEF IndInv
<1> QED  BY <1>1, Invariance, PTL

(* A closed cycle is settled, whoever of finish_source, finish_dispatch    *)
(* and fail_source_dispatch wrote last.                                    *)
THEOREM Settlement == Spec => []ClosedIsSettled
<1>1. IndInv => ClosedIsSettled
  BY DEF IndInv
<1> QED  BY <1>1, Invariance, PTL

(* A source never has pending work in two cycles. *)
THEOREM OneJobPerSource == Spec => []OnlyLatestPending
<1>1. IndInv => OnlyLatestPending
  BY DEF IndInv
<1> QED  BY <1>1, Invariance, PTL

(* While a worker runs a source, no one else ends its row or its cycle. *)
THEOREM Acceptance == Spec => []ResultAccepted
<1>1. IndInv => ResultAccepted
  BY DEF IndInv
<1> QED  BY <1>1, Invariance, PTL

(* An idle heartbeat means that no cycle is half dispatched. *)
THEOREM HonestHeartbeat == Spec => []IdleIsHonest
<1>1. IndInv => IdleIsHonest
  BY DEF IndInv
<1> QED  BY <1>1, Invariance, PTL

(* Only finish_dispatch gives a closed cycle another finish time.          *)
LEMMA Retimed ==
    ASSUME IndInv, [Next]_vars, NEW c \in Cycles, cycle[c].state \in Closed,
           cycle'[c].finished # cycle[c].finished
    PROVE  \E d \in Dispatchers : FinishDispatch(d) /\ disp[d].cycle = c
<1>0. TypeOK
  BY DEF IndInv
<1>1. cycle' # cycle
  OBVIOUS
<1>2. ASSUME NEW b \in Cycles, NEW s \in Sources, NEW o, Accepts(b, s), Store(b, s, o)
      PROVE  FALSE
  <2>1. b # c
    BY <1>2 DEF Accepts
  <2> QED  BY <1>0, <1>2, <2>1 DEF Store, StoreAt, TypeOK
<1>3. ASSUME NEW w \in Workers, Work(w) \/ WorkerCrash(w)
      PROVE  FALSE
  <2>0. PICK b \in Cycles, s \in Sources : worker[w].job = <<b, s>>
    BY <1>3 DEF IndInv, LocksHeld, Jobs, Work, Start, Run, Finish, Fail, WorkerCrash
  <2>1. ~Store(worker[w].job[1], worker[w].job[2], "failed") \/ ~Accepts(worker[w].job[1], worker[w].job[2])
    BY <1>2, <2>0
  <2>2. ~Store(worker[w].job[1], worker[w].job[2], worker[w].outcome) \/ ~Accepts(worker[w].job[1], worker[w].job[2])
    BY <1>2, <2>0
  <2> QED  BY <1>1, <1>3, <2>1, <2>2 DEF Work, Start, Run, Finish, Fail, WorkerCrash
<1>4. ASSUME NEW d \in Dispatchers, NEW b \in Cycles, NEW due, Insert(d, b, due)
      PROVE  FALSE
  <2>1. b # c
    BY <1>4 DEF Insert
  <2> QED  BY <1>0, <1>4, <2>1 DEF Insert, TypeOK
<1>5. ASSUME NEW d \in Dispatchers, Dispatch(d) \/ Abort(d)
      PROVE  FinishDispatch(d) /\ disp[d].cycle = c
  <2>1. ~BeginCycle(d)
    BY <1>1, <1>4 DEF BeginCycle, Existing
  <2>2. FinishDispatch(d)
    BY <1>1, <1>5, <2>1
       DEF Dispatch, Abort, RecoverBegin, RecoverSend, RecoverBind, RecoverEnd, RecoverReport,
           DispatchBegin, DispatchRead, Send, Bind, FailDispatch, CheckRemaining,
           DispatchReport, ReportError
  <2> QED  BY <1>0, <2>2 DEF FinishDispatch, TypeOK
<1>6. ~UNCHANGED vars
  BY <1>1 DEF vars
<1> QED  BY <1>1, <1>3, <1>5, <1>6 DEF Next, Deliver, LoseMessage, MinutePasses

(* Its dispatcher is done with the cycle then, and is the only one at work. *)
LEMMA NotSending ==
    ASSUME IndInv, NEW d \in Dispatchers, FinishDispatch(d)
    PROVE  \A e \in Dispatchers : disp'[e].pc \notin OwnPcs
<1>1. TypeOK /\ LocksHeld
  BY DEF IndInv
<1>2. disp[d].pc = "finish" /\ Goto(d, "report")
  BY DEF FinishDispatch
<1>3. disp'[d].pc = "report" /\ \A e \in Dispatchers : e # d => disp'[e] = disp[e]
  <2>1. disp'[d].pc = "report"
    BY <1>1, <1>2, DispEffects
  <2>2. \A e \in Dispatchers : e # d => disp'[e] = disp[e]
    BY <1>1, <1>2 DEF Goto, TypeOK
  <2> QED  BY <2>1, <2>2
<1>4. schedulerLock = d
  BY <1>1, <1>2 DEF LocksHeld, HeldPcs
<1> QED  BY <1>1, <1>3, <1>4 DEF LocksHeld, HeldPcs, OwnPcs

(* No dispatcher takes up a closed cycle: the resumption and begin_cycle go *)
(* on with dispatching ones only.                                           *)
LEMMA NotTakenUp ==
    ASSUME IndInv, [Next]_vars, NEW c \in Cycles, cycle[c].state \in Closed, Sending(c)'
    PROVE  Sending(c)
<1>0. TypeOK
  BY DEF IndInv
<1>1. PICK e \in Dispatchers : disp'[e].pc \in OwnPcs /\ disp'[e].cycle = c
  BY DEF Sending
<1>2. CASE disp'[e] = disp[e]
  BY <1>1, <1>2 DEF Sending
<1>3. CASE disp'[e] # disp[e]
  <2>1. PICK d \in Dispatchers : Dispatch(d) \/ Abort(d)
    BY <1>3 DEF Next, vars, Work, Start, Run, Finish, Fail, WorkerCrash, Deliver, LoseMessage, MinutePasses
  <2>2. d = e
    <3>1. Aims(d)
      BY DEF IndInv, LocksHeld, Targets, Aims
    <3>2. Alone(d)
      BY <1>0, <2>1, <3>1, DispatchAims
    <3> QED  BY <1>3, <3>2 DEF Alone
  <2>3. disp[d].pc \in OwnPcs /\ disp[d].cycle = c
    <3>1. disp[d] \in DispStates
      BY <1>0 DEF TypeOK
    <3>2. CASE DispatchRead(d)
      <4>1. ASSUME NEW b \in Cycles, Resume(d, b) PROVE FALSE
        <5>1. disp'[d].cycle = b
          BY <1>0, <4>1, DispEffects DEF Resume
        <5> QED  BY <1>1, <2>2, <4>1, <5>1 DEF Resume, Incomplete
      <4>2. ~FindDue(d)
        <5> SUFFICES ASSUME NEW due,
                            disp' = [disp EXCEPT ![d] = [@ EXCEPT !.pc = "begin", !.due = due]]
                     PROVE  FALSE
          BY DEF FindDue
        <5>1. disp'[d] = [disp[d] EXCEPT !.pc = "begin", !.due = due]
          BY <1>0 DEF TypeOK
        <5>2. disp'[d].pc = "begin"
          BY <3>1, <5>1 DEF DispStates
        <5> QED  BY <1>1, <2>2, <5>2 DEF OwnPcs
      <4>3. ~NothingDue(d)
        BY <1>0, <1>1, <2>2 DEF NothingDue, Sleep, Asleep, TypeOK, OwnPcs
      <4> QED  BY <3>2, <4>1, <4>2, <4>3 DEF DispatchRead
    <3>3. CASE BeginCycle(d)
      <4>1. ASSUME NEW b \in Cycles, NEW jobs, Owe(d, b, jobs), cycle[b].state \notin Closed PROVE FALSE
        <5>1. disp'[d].cycle = b
          BY <1>0, <4>1, DispEffects
        <5> QED  BY <1>1, <2>2, <4>1, <5>1
      <4>2. ~Raise(d) /\ ~Sleep(d)
        BY <1>0, <1>1, <2>2 DEF Raise, Sleep, Asleep, TypeOK, OwnPcs
      <4> QED  BY <3>3, <4>1, <4>2 DEF BeginCycle, Insert, Existing
    <3>4. CASE Send(d) \/ Bind(d) \/ FailDispatch(d) \/ CheckRemaining(d)
      <4>1. disp[d].pc \in OwnPcs
        BY <3>4 DEF Send, Bind, FailDispatch, CheckRemaining, OwnPcs
      <4>2. disp'[d].cycle = disp[d].cycle \/ Sleep(d)
        BY <1>0, <3>4, DispEffects DEF Send, Bind, FailDispatch, CheckRemaining
      <4>3. ~Sleep(d)
        BY <1>0, <1>1, <2>2, DispEffects DEF OwnPcs
      <4> QED  BY <1>1, <2>2, <4>1, <4>2, <4>3
    <3>5. CASE \/ RecoverSend(d) \/ RecoverBind(d) \/ RecoverEnd(d) \/ RecoverReport(d)
               \/ FinishDispatch(d) \/ DispatchReport(d) \/ ReportError(d) \/ Abort(d)
      <4>1. disp'[d].pc \notin OwnPcs
        BY <1>0, <3>5, DispEffects
           DEF RecoverSend, RecoverBind, RecoverEnd, RecoverReport, FinishDispatch,
               DispatchReport, ReportError, Abort, OwnPcs
      <4> QED  BY <1>1, <2>2, <4>1
    <3>6. CASE RecoverBegin(d) \/ DispatchBegin(d)
      <4>1. disp'[d].pc \notin OwnPcs
        <5>1. ASSUME NEW stale,
                     disp' = [disp EXCEPT ![d] = [Asleep EXCEPT !.pc = "recover", !.todo = stale]]
              PROVE  disp'[d].pc = "recover"
          BY <1>0, <5>1 DEF TypeOK, Asleep
        <5>2. ASSUME disp' = [disp EXCEPT ![d] = [Asleep EXCEPT !.pc = "read", !.now = tick]]
              PROVE  disp'[d].pc = "read"
          BY <1>0, <5>2 DEF TypeOK, Asleep
        <5>3. /\ Goto(d, "awake") => disp'[d].pc = "awake"
              /\ Sleep(d) => disp'[d].pc = "asleep"
          BY <1>0, DispEffects
        <5> QED  BY <3>6, <5>1, <5>2, <5>3 DEF RecoverBegin, DispatchBegin, OwnPcs
      <4> QED  BY <1>1, <2>2, <4>1
    <3> QED  BY <2>1, <3>2, <3>3, <3>4, <3>5, <3>6 DEF Dispatch
  <2> QED  BY <2>3 DEF Sending
<1> QED  BY <1>2, <1>3

(* Terminal rows and closed cycles are never rewritten, but for the finish  *)
(* time that the dispatcher still sending a cycle puts when it is done.     *)
THEOREM History == Spec => HistoryIsFinal
<1> DEFINE Kept == \A c \in Cycles :
              /\ cycle[c].state \in Closed =>
                   /\ [cycle'[c] EXCEPT !.finished = 0] = [cycle[c] EXCEPT !.finished = 0]
                   /\ cycle'[c].finished # cycle[c].finished => Sending(c) /\ ~Sending(c)'
                   /\ Sending(c)' => Sending(c)
              /\ \A s \in Sources : row[c][s].state \in Outcomes =>
                   row'[c][s].state = row[c][s].state /\ row'[c][s].at = row[c][s].at
<1>1. IndInv /\ [Next]_vars => Kept
  <2> SUFFICES ASSUME IndInv, [Next]_vars PROVE Kept
    OBVIOUS
  <2>1. Final
    BY IndInvStep
  <2>2. ASSUME NEW c \in Cycles, cycle[c].state \in Closed
        PROVE  /\ cycle'[c].finished # cycle[c].finished => Sending(c) /\ ~Sending(c)'
               /\ Sending(c)' => Sending(c)
    <3>1. ASSUME cycle'[c].finished # cycle[c].finished
          PROVE  Sending(c) /\ ~Sending(c)'
      <4>1. PICK d \in Dispatchers : FinishDispatch(d) /\ disp[d].cycle = c
        BY <2>2, <3>1, Retimed
      <4>3. Sending(c)
        BY <4>1 DEF Sending, FinishDispatch, OwnPcs
      <4>4. \A e \in Dispatchers : disp'[e].pc \notin OwnPcs
        BY <4>1, NotSending
      <4> QED  BY <4>3, <4>4 DEF Sending
    <3> QED  BY <2>2, <3>1, NotTakenUp
  <2> QED  BY <2>1, <2>2 DEF Final
<1>2. IndInv /\ [Next]_vars => [Kept]_vars
  BY <1>1
<1> HIDE DEF Kept
<1>3. Spec => [][Kept]_vars
  BY <1>2, Invariance, PTL DEF Spec
<1> QED  BY <1>3 DEF HistoryIsFinal, Kept

-----------------------------------------------------------------------------
(* The ledger keeps its promise: JobLedger, through jobBar and phaseBar.   *)

(* One job and one phase, as the promise sees them. *)
JobSeen(c, s) == IF RowPending(c, s) THEN "pending" ELSE row[c][s].state
PhaseSeen(c)  == IF cycle[c].state \in Open THEN "open" ELSE cycle[c].state

(* The tables as the promise sees them, cell by cell. *)
LEMMA Seen ==
    /\ jobBar = [c \in Cycles |-> [s \in Sources |-> JobSeen(c, s)]]
    /\ phaseBar = [c \in Cycles |-> PhaseSeen(c)]
    /\ jobBar' = [c \in Cycles |-> [s \in Sources |-> JobSeen(c, s)']]
    /\ phaseBar' = [c \in Cycles |-> PhaseSeen(c)']
BY DEF jobBar, phaseBar, JobSeen, PhaseSeen

(* The promise speaks of the same cycles. *)
LEMMA SameCycles == Promise!Cycles = Cycles
BY DEF Promise!Cycles, Cycles

(* Binding, starting and closing nothing is not seen. *)
LEMMA CalmStep ==
    ASSUME \A c \in Cycles : cycle'[c].state = cycle[c].state,
           \A c \in Cycles, s \in Sources :
              \/ row'[c][s].state = row[c][s].state
              \/ row[c][s].state \in Pending /\ row'[c][s].state = "running"
    PROVE  UNCHANGED <<jobBar, phaseBar>>
<1>1. \A c \in Cycles : PhaseSeen(c)' = PhaseSeen(c)
  BY DEF PhaseSeen
<1>2. \A c \in Cycles, s \in Sources : JobSeen(c, s)' = JobSeen(c, s)
  BY DEF JobSeen, RowPending
<1> QED  BY <1>1, <1>2, Seen

(* A cycle is settled for the promise when nothing of it is pending, and   *)
(* then the recount gives the verdict of the promise.                      *)
LEMMA VerdictSeen ==
    ASSUME NEW jobs, NEW rows,
           \A s \in Sources : jobs[s] = IF rows[s].state \in Pending THEN "pending"
                                        ELSE rows[s].state,
           \A s \in Sources : rows[s].state # "pending"
    PROVE  /\ Promise!Settled(jobs) <=> StateOf(rows) # "dispatched"
           /\ StateOf(rows) # "dispatched" => Promise!Verdict(jobs) = StateOf(rows)
<1>1. ASSUME \E s \in Sources : rows[s].state \in Pending
      PROVE  ~Promise!Settled(jobs) /\ StateOf(rows) = "dispatched"
  BY <1>1 DEF StateOf, Promise!Settled
<1>2. ASSUME \A s \in Sources : rows[s].state \notin Pending
      PROVE  /\ Promise!Settled(jobs) /\ StateOf(rows) # "dispatched"
             /\ Promise!Verdict(jobs) = StateOf(rows)
  BY <1>2 DEF StateOf, Promise!Settled, Promise!Verdict
<1> QED  BY <1>1, <1>2

(* Of a typed ledger, row by row and after a step too. *)
LEMMA VerdictOfCycle ==
    ASSUME TypeOK, NEW c \in Cycles
    PROVE  /\ Promise!Settled(jobBar[c]) <=> StateOf(row[c]) # "dispatched"
           /\ StateOf(row[c]) # "dispatched" => Promise!Verdict(jobBar[c]) = StateOf(row[c])
<1>1. \A s \in Sources : row[c][s].state # "pending"
  BY DEF TypeOK, SourceRows
<1>2. \A s \in Sources : jobBar[c][s] = IF row[c][s].state \in Pending THEN "pending"
                                        ELSE row[c][s].state
  BY Seen DEF JobSeen, RowPending
<1> QED  BY <1>1, <1>2, VerdictSeen

(* The same of the tables after a step. *)
LEMMA VerdictOfNext ==
    ASSUME TypeOK', NEW c \in Cycles
    PROVE  /\ Promise!Settled(jobBar'[c]) <=> StateOf(row'[c]) # "dispatched"
           /\ StateOf(row'[c]) # "dispatched" => Promise!Verdict(jobBar'[c]) = StateOf(row'[c])
<1>1. \A s \in Sources : row'[c][s].state # "pending"
  BY DEF TypeOK, SourceRows
<1>2. \A s \in Sources : jobBar'[c][s] = IF row'[c][s].state \in Pending THEN "pending"
                                         ELSE row'[c][s].state
  BY Seen DEF JobSeen, RowPending
<1> QED  BY <1>1, <1>2, VerdictSeen

(* A row that ends resolves its job; its cycle stays as it is or closes.   *)
LEMMA EndStep ==
    ASSUME TypeOK', LedgerInv, NEW c \in Cycles, NEW s \in Sources, NEW o \in Outcomes,
           RowPending(c, s), row'[c][s].state = o,
           \A b \in Cycles, u \in Sources : b # c \/ u # s =>
              row'[b][u].state = row[b][u].state,
           \A b \in Cycles : b # c => cycle'[b].state = cycle[b].state,
           \/ cycle'[c].state = cycle[c].state
           \/ cycle'[c].state = StateOf(row'[c]) /\ StateOf(row'[c]) # "dispatched"
    PROVE  Promise!Next
<1>1. cycle[c].state \in Open
  BY DEF LedgerInv, PendingIsOpen
<1>2. phaseBar[c] = "open" /\ jobBar[c][s] = "pending"
  BY <1>1, Seen DEF PhaseSeen, JobSeen
<1>3. jobBar' = [jobBar EXCEPT ![c][s] = o]
  <2>1. JobSeen(c, s)' = o
    BY DEF JobSeen, RowPending
  <2>2. \A b \in Cycles, u \in Sources : b # c \/ u # s => JobSeen(b, u)' = JobSeen(b, u)
    BY DEF JobSeen, RowPending
  <2>3. PICK jobs : jobs = [u \in Sources |-> JobSeen(c, u)']
    OBVIOUS
  <2>4. jobs = [jobBar[c] EXCEPT ![s] = o]
    BY <2>1, <2>2, <2>3, Seen
  <2>5. jobBar' = [jobBar EXCEPT ![c] = jobs]
    BY <2>2, <2>3, Seen
  <2> QED  BY <2>4, <2>5
<1>4. \A b \in Cycles : b # c => PhaseSeen(b)' = PhaseSeen(b)
  BY DEF PhaseSeen
<1>5. ASSUME cycle'[c].state = cycle[c].state
      PROVE  UNCHANGED phaseBar
  <2>1. PhaseSeen(c)' = PhaseSeen(c)
    BY <1>5 DEF PhaseSeen
  <2> QED  BY <1>4, <2>1, Seen
<1>6. ASSUME cycle'[c].state = StateOf(row'[c]), StateOf(row'[c]) # "dispatched"
      PROVE  /\ Promise!Settled(jobBar'[c])
             /\ phaseBar' = [phaseBar EXCEPT ![c] = Promise!Verdict(jobBar'[c])]
  <2>1. StateOf(row'[c]) \in Closed
    BY <1>6, StateType
  <2>2. Promise!Settled(jobBar'[c]) /\ Promise!Verdict(jobBar'[c]) = StateOf(row'[c])
    BY <1>6, VerdictOfNext
  <2>3. PhaseSeen(c)' = StateOf(row'[c])
    BY <1>6, <2>1 DEF PhaseSeen
  <2> QED  BY <1>4, <2>2, <2>3, Seen
<1>7. Promise!Resolve(c, s, o)
  BY <1>2, <1>3, <1>5, <1>6 DEF Promise!Resolve
<1>8. o \in Promise!Outcomes
  BY DEF Promise!Outcomes
<1> QED  BY <1>7, <1>8, SameCycles DEF Promise!Next

(* A recount closes a cycle whose rows are settled, or is not seen. *)
LEMMA RecountStep ==
    ASSUME TypeOK, LedgerInv, NEW c \in Cycles, UNCHANGED row,
           cycle[c].state \in {"dispatching"} \cup Closed,
           cycle'[c].state = StateOf(row[c]),
           \A b \in Cycles : b # c => cycle'[b].state = cycle[b].state
    PROVE  Promise!Next \/ UNCHANGED <<jobBar, phaseBar>>
<1>1. CASE cycle'[c].state = cycle[c].state
  BY <1>1, CalmStep
<1>2. CASE cycle[c].state = "dispatching" /\ StateOf(row[c]) = "dispatched"
  <2>1. \A b \in Cycles : PhaseSeen(b)' = PhaseSeen(b)
    BY <1>2 DEF PhaseSeen
  <2>2. \A b \in Cycles, u \in Sources : JobSeen(b, u)' = JobSeen(b, u)
    BY DEF JobSeen, RowPending
  <2> QED  BY <2>1, <2>2, Seen
<1>3. CASE cycle[c].state = "dispatching" /\ StateOf(row[c]) # "dispatched"
  <2>1. StateOf(row[c]) \in Closed
    BY <1>3, StateType
  <2>2. Promise!Settled(jobBar[c]) /\ Promise!Verdict(jobBar[c]) = StateOf(row[c])
    BY <1>3, VerdictOfCycle
  <2>3. phaseBar[c] = "open" /\ PhaseSeen(c)' = StateOf(row[c])
    BY <1>3, <2>1, Seen DEF PhaseSeen
  <2>4. \A b \in Cycles : b # c => PhaseSeen(b)' = PhaseSeen(b)
    BY DEF PhaseSeen
  <2>5. phaseBar' = [phaseBar EXCEPT ![c] = Promise!Verdict(jobBar[c])]
    BY <2>2, <2>3, <2>4, Seen
  <2>6. \A b \in Cycles, u \in Sources : JobSeen(b, u)' = JobSeen(b, u)
    BY DEF JobSeen, RowPending
  <2>7. UNCHANGED jobBar
    BY <2>6, Seen
  <2>8. Promise!CloseCycle(c)
    BY <2>2, <2>3, <2>5, <2>7 DEF Promise!CloseCycle
  <2> QED  BY <2>8, SameCycles DEF Promise!Next
<1>4. CASE cycle[c].state \in Closed
  BY <1>1, <1>4 DEF LedgerInv, ClosedIsSettled
<1> QED  BY <1>1, <1>2, <1>3, <1>4

(* A cycle opens with sources none of which is busy. *)
LEMMA OpenStep ==
    ASSUME TypeOK, LedgerInv, NEW c \in Cycles, NEW due \in SUBSET Sources, due # {},
           \A b \in Cycles, s \in due : ~RowPending(b, s),
           NEW d \in Dispatchers, Insert(d, c, due)
    PROVE  Promise!Next
<1>0. cycle[c].state = "absent" /\ \A b \in 1..(c - 1) : cycle[b].state # "absent"
  BY DEF Insert
<1>1. cycle'[c].state = "dispatching" /\ \A b \in Cycles : b # c => cycle'[b] = cycle[b]
  BY DEF Insert, TypeOK, NoCycle
<1>2. /\ \A b \in Cycles : b # c => row'[b] = row[b]
      /\ \A s \in Sources : row'[c][s].state = IF s \in due THEN "queued" ELSE "none"
  BY DEF Insert, TypeOK, NoRow
<1>3. phaseBar[c] = "absent"
  BY <1>0, Seen DEF PhaseSeen
<1>4. \A b \in 1..(c - 1) : phaseBar[b] # "absent"
  <2>1. \A b \in 1..(c - 1) : b \in Cycles
    BY SchedulerAssumption DEF Cycles
  <2> QED  BY <1>0, <2>1, Seen DEF PhaseSeen
<1>5. due \cap Promise!Busy = {}
  <2>1. \A b \in Cycles, s \in due : jobBar[b][s] # "pending"
    BY Seen DEF JobSeen, TypeOK, SourceRows
  <2> QED  BY <2>1, SameCycles DEF Promise!Busy
<1>6. phaseBar' = [phaseBar EXCEPT ![c] = "open"]
  <2>1. PhaseSeen(c)' = "open" /\ \A b \in Cycles : b # c => PhaseSeen(b)' = PhaseSeen(b)
    BY <1>1 DEF PhaseSeen
  <2> QED  BY <2>1, Seen
<1>7. jobBar' = [jobBar EXCEPT ![c] = [s \in Sources |-> IF s \in due THEN "pending" ELSE "none"]]
  <2>1. \A s \in Sources : JobSeen(c, s)' = IF s \in due THEN "pending" ELSE "none"
    BY <1>2 DEF JobSeen, RowPending
  <2>2. \A b \in Cycles, s \in Sources : b # c => JobSeen(b, s)' = JobSeen(b, s)
    BY <1>2 DEF JobSeen, RowPending
  <2> QED  BY <2>1, <2>2, Seen
<1>8. Promise!OpenCycle(c, due)
  BY <1>3, <1>4, <1>5, <1>6, <1>7 DEF Promise!OpenCycle
<1> QED  BY <1>8, SameCycles DEF Promise!Next

(* What each action does, as the promise sees it. *)
LEMMA PromiseStep ==
    ASSUME IndInv, [Next]_vars
    PROVE  Promise!Next \/ UNCHANGED <<jobBar, phaseBar>>
<1>0. /\ TypeOK /\ LedgerInv /\ Targets /\ LocksHeld
      /\ \A e \in Dispatchers : Reads(e)
  BY DEF IndInv, LedgerInv, ReadsHold, Reads
<1>1. TypeOK'
  BY IndInvStep DEF IndInv
<1>2. ASSUME UNCHANGED <<cycle, row>>
      PROVE  UNCHANGED <<jobBar, phaseBar>>
  BY <1>2, CalmStep
<1>3. ASSUME NEW d \in Dispatchers, RecoverBind(d) \/ Bind(d) \/ FailDispatch(d)
      PROVE  Promise!Next \/ UNCHANGED <<jobBar, phaseBar>>
  <2>1. PICK c \in Cycles, s \in Sources : disp[d].cur = <<c, s>>
    BY <1>0, <1>3 DEF RecoverBind, Bind, FailDispatch, Targets, Jobs
  <2>2. UNCHANGED cycle
    BY <1>3 DEF RecoverBind, Bind, FailDispatch
  <2>3. CASE row' = row \/ row' = Bound(c, s)
    <3>1. \A b \in Cycles, u \in Sources : row'[b][u].state = row[b][u].state
      BY <1>0, <2>3, BoundRow
    <3> QED  BY <2>2, <3>1, CalmStep
  <2>4. CASE FailDispatch(d) /\ row' # row
    <3>1. row[c][s].state = "queued" /\ row' = Ended(c, s, "failed")
      BY <2>1, <2>4 DEF FailDispatch, Undone
    <3>2. /\ \A b \in Cycles, u \in Sources : b # c \/ u # s => row'[b][u] = row[b][u]
          /\ row'[c][s].state = "failed"
      BY <1>0, <3>1, EndedRow
    <3> QED  BY <1>0, <1>1, <2>2, <3>1, <3>2, EndStep DEF RowPending
  <2> QED  BY <1>3, <2>1, <2>3, <2>4 DEF RecoverBind, Bind
<1>4. ASSUME NEW d \in Dispatchers, BeginCycle(d)
      PROVE  Promise!Next \/ UNCHANGED <<jobBar, phaseBar>>
  <2>1. PICK due \in SUBSET Sources : due = disp[d].due
    BY <1>0 DEF TypeOK, DispStates
  <2>2. due # {} /\ \A b \in Cycles, s \in due : ~RowPending(b, s)
    BY <1>0, <1>4, <2>1 DEF BeginCycle, Reads
  <2>3. CASE \E c \in Cycles : Insert(d, c, due)
    BY <1>0, <2>2, <2>3, OpenStep
  <2>4. CASE UNCHANGED <<cycle, row>>
    BY <1>2, <2>4
  <2> QED  BY <1>4, <2>1, <2>3, <2>4 DEF BeginCycle, Existing
<1>5. ASSUME NEW d \in Dispatchers, FinishDispatch(d)
      PROVE  Promise!Next \/ UNCHANGED <<jobBar, phaseBar>>
  <2>1. PICK c \in Cycles : c = disp[d].cycle
    BY <1>0, <1>5 DEF FinishDispatch, Targets, OwnPcs
  <2>2. cycle[c].state \in {"dispatching"} \cup Closed
    BY <1>0, <1>5, <2>1 DEF FinishDispatch, Reads, OwnPcs
  <2>3. PICK r : r = [cycle[c] EXCEPT !.state = StateOf(row[c]), !.count = CountsOf(row[c]),
                                       !.finished = EndTime(row[c], tick)]
    OBVIOUS
  <2>4. cycle[c] \in CycleRows
    BY <1>0 DEF TypeOK
  <2>5. r.state = StateOf(row[c])
    BY <2>3, <2>4 DEF CycleRows
  <2>6. cycle' = [cycle EXCEPT ![c] = r] /\ UNCHANGED row
    BY <1>5, <2>1, <2>3 DEF FinishDispatch
  <2>7. cycle'[c].state = StateOf(row[c]) /\ \A b \in Cycles : b # c => cycle'[b] = cycle[b]
    BY <1>0, <2>5, <2>6 DEF TypeOK
  <2> QED  BY <1>0, <2>2, <2>6, <2>7, RecountStep
<1>6. ASSUME NEW c \in Cycles, NEW s \in Sources, NEW o \in Outcomes,
             Accepts(c, s), Store(c, s, o)
      PROVE  Promise!Next
  <2>1. row[c][s].state = "running" /\ row' = Ended(c, s, o)
    BY <1>6 DEF Accepts, Store, StoreAt
  <2>2. /\ \A b \in Cycles, u \in Sources : b # c \/ u # s => row'[b][u] = row[b][u]
        /\ row'[c][s].state = o
    BY <1>0, <2>1, EndedRow
  <2>3. PICK st : st = IF StateOf(row'[c]) = "dispatched" THEN cycle[c].state ELSE StateOf(row'[c])
    OBVIOUS
  <2>9. PICK t : t = EndTime(row'[c], IF cycle[c].finished = 0 THEN tick ELSE cycle[c].finished)
    OBVIOUS
  <2>4. PICK r : r = [cycle[c] EXCEPT !.state = st, !.count = CountsOf(row'[c]), !.finished = t]
    OBVIOUS
  <2>5. cycle[c] \in CycleRows
    BY <1>0 DEF TypeOK
  <2>6. r.state = st
    BY <2>4, <2>5 DEF CycleRows
  <2>7. cycle' = [cycle EXCEPT ![c] = r]
    BY <1>6, <2>1, <2>3, <2>4, <2>9 DEF Store, StoreAt
  <2>8. cycle'[c].state = st /\ \A b \in Cycles : b # c => cycle'[b] = cycle[b]
    BY <1>0, <2>6, <2>7 DEF TypeOK
  <2> QED  BY <1>0, <1>1, <2>1, <2>2, <2>3, <2>8, EndStep DEF RowPending
<1>7. ASSUME NEW w \in Workers, Work(w) \/ WorkerCrash(w)
      PROVE  Promise!Next \/ UNCHANGED <<jobBar, phaseBar>>
  <2>1. worker[w].job \in Jobs
    BY <1>0, <1>7, WorkLedger
  <2>2. PICK c \in Cycles, s \in Sources : worker[w].job = <<c, s>>
    BY <2>1 DEF Jobs
  <2>3. CASE Start(w)
    <3>1. CASE RowPending(c, s)
      <4>1. PICK n : n = IF row[c][s].state = "queued" THEN tick ELSE row[c][s].at
        OBVIOUS
      <4>2. PICK r : r = [row[c][s] EXCEPT !.state = "running", !.at = n]
        OBVIOUS
      <4>3. n \in Nat /\ row[c][s] \in SourceRows
        BY <1>0, <4>1 DEF TypeOK, SourceRows
      <4>4. r \in SourceRows /\ r.state = "running"
        BY <1>0, <4>2, <4>3, RowTypes DEF SourceRows
      <4>5. row' = Updated(c, s, r) /\ UNCHANGED cycle
        BY <2>2, <2>3, <3>1, <4>1, <4>2 DEF Start
      <4>6. \A b \in Cycles, u \in Sources : row'[b][u] = IF b = c /\ u = s THEN r ELSE row[b][u]
        BY <1>0, <4>4, <4>5, UpdatedType
      <4> QED  BY <3>1, <4>4, <4>5, <4>6, CalmStep DEF RowPending
    <3>2. CASE ~RowPending(c, s)
      BY <1>2, <2>2, <2>3, <3>2 DEF Start
    <3> QED  BY <3>1, <3>2
  <2>4. CASE Run(w) \/ WorkerCrash(w)
    BY <1>2, <2>4 DEF Run, WorkerCrash
  <2>5. CASE Finish(w)
    <3>1. worker[w].outcome \in Outcomes
      BY <1>0, <2>5 DEF Finish, Targets
    <3>2. CASE UNCHANGED <<cycle, row>>
      BY <1>2, <3>2
    <3>3. CASE Accepts(c, s) /\ Store(c, s, worker[w].outcome)
      BY <1>6, <3>1, <3>3
    <3> QED  BY <2>2, <2>5, <3>2, <3>3 DEF Finish
  <2>6. CASE Fail(w)
    <3>1. CASE UNCHANGED <<cycle, row>>
      BY <1>2, <3>1
    <3>2. CASE Accepts(c, s) /\ Store(c, s, "failed")
      BY <1>6, <3>2
    <3> QED  BY <2>2, <2>6, <3>1, <3>2 DEF Fail
  <2> QED  BY <1>7, <2>3, <2>4, <2>5, <2>6 DEF Work
<1>8. ASSUME NEW d \in Dispatchers,
             \/ RecoverBegin(d) \/ RecoverSend(d) \/ RecoverEnd(d) \/ RecoverReport(d)
             \/ DispatchBegin(d) \/ DispatchRead(d) \/ Send(d) \/ CheckRemaining(d)
             \/ DispatchReport(d) \/ ReportError(d) \/ Abort(d)
      PROVE  UNCHANGED <<cycle, row>>
  BY <1>8 DEF RecoverBegin, RecoverSend, RecoverEnd, RecoverReport, DispatchBegin, DispatchRead,
              Send, CheckRemaining, DispatchReport, ReportError, Abort
<1>9. ASSUME \/ MinutePasses
             \/ \E c \in Cycles, s \in Sources : LoseMessage(c, s)
             \/ \E w \in Workers, c \in Cycles, s \in Sources : Deliver(w, c, s)
             \/ UNCHANGED vars
      PROVE  UNCHANGED <<cycle, row>>
  BY <1>9 DEF MinutePasses, LoseMessage, Deliver, vars
<1> QED  BY <1>2, <1>3, <1>4, <1>5, <1>7, <1>8, <1>9 DEF Next, Dispatch

(* Scheduler, queue and workers together implement the job ledger: cycles  *)
(* open in order with sources that have nothing pending, each job gets one *)
(* outcome, and each cycle closes once with the verdict of its jobs.       *)
THEOREM KeepsPromise == Spec => LedgerPromise
<1>1. Init => Promise!Init
  <2> SUFFICES ASSUME Init PROVE Promise!Init
    OBVIOUS
  <2>1. \A c \in Cycles : PhaseSeen(c) = "absent" /\ \A s \in Sources : JobSeen(c, s) = "none"
    BY DEF Init, NoCycle, NoRow, PhaseSeen, JobSeen, RowPending
  <2> QED  BY <2>1, Seen, SameCycles DEF Promise!Init
<1>2. IndInv /\ [Next]_vars => [Promise!Next]_<<jobBar, phaseBar>>
  BY PromiseStep
<1> QED  BY <1>1, <1>2, Invariance, PTL DEF Spec, LedgerPromise, Promise!Spec
=============================================================================

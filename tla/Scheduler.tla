----------------------------- MODULE Scheduler -----------------------------
(***************************************************************************)
(* The source-sync scheduler: dispatchers (run_forever, dispatch_cycle,    *)
(* recover_stale_messages), the Redis/Dramatiq queue they send to, the     *)
(* worker threads that run run_registered_source, and the ledger of cycles *)
(* and per-source rows they share in PostgreSQL.                           *)
(*                                                                         *)
(* One action is one database transaction, one queue operation or one lock *)
(* operation.  Both locks are PostgreSQL session locks taken with          *)
(* pg_try_advisory_lock: they live exactly as long as the process that     *)
(* took them.  The queue delivers at least once and in any order.          *)
(*                                                                         *)
(* An operator marked "mutant of X" is X with a bug in it, kept to show    *)
(* that a property tells the two apart; no specification uses it.          *)
(***************************************************************************)
EXTENDS Naturals, FiniteSets

CONSTANTS
    Sources,        \* the sources config/sources-v2.yaml makes eligible
    Dispatchers,    \* processes that run the dispatch loop
    Workers,        \* worker threads
    None,           \* nobody, nothing
    MaxCycles,      \* bound: scheduler cycles ever created
    MaxTick,        \* bound: minutes that pass
    MaxDup,         \* bound: copies of one message told apart in the queue
    MaxFaults       \* bound: crashes, failed calls and lost messages

ASSUME SchedulerAssumption ==
    /\ IsFiniteSet(Sources)
    /\ None \notin Workers
    /\ None \notin Dispatchers
    /\ MaxCycles \in Nat
    /\ MaxTick \in Nat
    /\ MaxDup \in Nat \ {0}
    /\ MaxFaults \in Nat

VARIABLES
    cycle,          \* sync.scheduler_cycles
    row,            \* sync.scheduler_source_results
    heartbeat,      \* sync.scheduler_runtime.last_status
    queue,          \* queue[c][s]: messages (c, s) waiting in Redis
    schedulerLock,  \* the dispatcher holding the scheduler lock
    sourceLock,     \* sourceLock[s]: the worker holding the lock of s
    disp,           \* the local state of each dispatcher
    worker,         \* the local state of each worker
    tick,           \* the current minute
    faults          \* faults so far

ledger == <<cycle, row>>
locks  == <<schedulerLock, sourceLock>>
vars   == <<cycle, row, heartbeat, queue, schedulerLock, sourceLock,
            disp, worker, tick, faults>>

Cycles   == 1..MaxCycles
Jobs     == Cycles \X Sources
Outcomes == {"completed", "review_required", "failed"}
Pending  == {"queued", "running"}
Open     == {"dispatching", "dispatched"}
Closed   == {"completed", "partial_failure"}

-----------------------------------------------------------------------------
(* The ledger, as the queries of OperationsDatabase read it.               *)

NoCycle == [state |-> "absent", eligible |-> {}, bucket |-> 0,
            count |-> [o \in Outcomes |-> 0], finished |-> 0]
NoRow   == [state |-> "none", message |-> "null", at |-> 0]

RowPending(c, s) == row[c][s].state \in Pending
PendingIn(c)     == {s \in Sources : RowPending(c, s)}
UnboundIn(c)     == {s \in PendingIn(c) : row[c][s].message = "null"}

(* incomplete_dispatch: the dispatching cycle of lowest id. *)
Incomplete(c) ==
    /\ cycle[c].state = "dispatching"
    /\ \A b \in 1..(c - 1) : cycle[b].state # "dispatching"
NothingIncomplete == \A c \in Cycles : cycle[c].state # "dispatching"

(* stale_source_results: rows without an update for SYNC_MESSAGE_STALE_    *)
(* SECONDS.  Any pending row of a dispatched cycle may be that old.        *)
Stalable == {j \in Jobs : /\ cycle[j[1]].state = "dispatched"
                          /\ RowPending(j[1], j[2])}

(* due_source_ids over last_source_activity: the newest row of s is not    *)
(* pending and is at least one cadence (one minute here) old.  Whether a   *)
(* longer cadence has elapsed is left open.                                *)
Latest(c, s) ==
    /\ row[c][s].state # "none"
    /\ \A b \in (c + 1)..MaxCycles : row[b][s].state = "none"
MayBeDue(now) ==
    {s \in Sources : \A c \in Cycles :
        Latest(c, s) => /\ row[c][s].state \in Outcomes
                        /\ row[c][s].at < now}

(* The counts and the state a cycle gets when its rows are recounted. *)
CountsOf(rows) == [o \in Outcomes |-> Cardinality({s \in Sources : rows[s].state = o})]
StateOfQueued(rows) ==                                           \* mutant of StateOf
    IF \E s \in Sources : rows[s].state = "queued" THEN "dispatched"
    ELSE IF \E s \in Sources : rows[s].state \in {"failed", "review_required"}
         THEN "partial_failure"
         ELSE "completed"
StateOf(rows)  ==
    IF \E s \in Sources : rows[s].state \in Pending THEN "dispatched"
    ELSE IF \E s \in Sources : rows[s].state \in {"failed", "review_required"}
         THEN "partial_failure"
         ELSE "completed"

(* finished_at of a cycle with these rows: NULL (0) while one is pending. *)
EndTime(rows, time) == IF \E s \in Sources : rows[s].state \in Pending THEN 0 ELSE time

(* The ledger with another row for s in cycle c. *)
Updated(c, s, r) == [row EXCEPT ![c] = [@ EXCEPT ![s] = r]]
Ended(c, s, state) == Updated(c, s, [row[c][s] EXCEPT !.state = state, !.at = tick])

(* bind_message and bind_recovery_message: only whether message_id is NULL *)
(* matters, for every sent message has a new id.                           *)
Bound(c, s) == Updated(c, s, [row[c][s] EXCEPT !.message = "known"])

(* Sending is LPUSH; copies beyond MaxDup are not told apart. *)
Sent(q, j) == [q EXCEPT ![j[1]][j[2]] = IF @ < MaxDup THEN @ + 1 ELSE @]

-----------------------------------------------------------------------------
(* Local states.                                                           *)

Asleep == [pc |-> "asleep", cycle |-> None, now |-> 0, due |-> {},
           todo |-> {}, cur |-> None]
Idle   == [pc |-> "idle", job |-> None, outcome |-> "none"]

Init ==
    /\ cycle = [c \in Cycles |-> NoCycle]
    /\ row = [c \in Cycles |-> [s \in Sources |-> NoRow]]
    /\ heartbeat = "none"
    /\ queue = [c \in Cycles |-> [s \in Sources |-> 0]]
    /\ schedulerLock = None
    /\ sourceLock = [s \in Sources |-> None]
    /\ disp = [d \in Dispatchers |-> Asleep]
    /\ worker = [w \in Workers |-> Idle]
    /\ tick = 1
    /\ faults = 0

Goto(d, pc)     == disp' = [disp EXCEPT ![d] = [@ EXCEPT !.pc = pc]]
Pick(d, pc, j)  == disp' = [disp EXCEPT ![d] = [@ EXCEPT !.pc = pc, !.cur = j]]
Done(d, pc)     == disp' = [disp EXCEPT ![d] = [@ EXCEPT
                      !.pc = pc, !.cur = None, !.todo = disp[d].todo \ {disp[d].cur}]]
Owe(d, c, jobs) == disp' = [disp EXCEPT ![d] = [@ EXCEPT
                      !.pc = "dispatch", !.cycle = c, !.due = {}, !.todo = jobs]]
Unlock(d)       == schedulerLock' = IF schedulerLock = d THEN None ELSE schedulerLock
Sleep(d)        == Unlock(d) /\ disp' = [disp EXCEPT ![d] = Asleep]
(* An exception leaves the with block, then run_forever reports it. *)
Raise(d)        == Unlock(d) /\ disp' = [disp EXCEPT ![d] = [Asleep EXCEPT !.pc = "raised"]]
Beat(status)    == heartbeat' = status
Fault           == faults < MaxFaults /\ faults' = faults + 1

-----------------------------------------------------------------------------
(* recover_stale_messages                                                  *)

RecoverBegin(d) ==
    /\ disp[d].pc = "asleep"
    /\ \/ /\ schedulerLock = None
          /\ \E stale \in (SUBSET Stalable) \ {{}} :
               disp' = [disp EXCEPT ![d] = [Asleep EXCEPT !.pc = "recover", !.todo = stale]]
          /\ schedulerLock' = d
       \/ Goto(d, "awake") /\ UNCHANGED schedulerLock    \* busy, or nothing is stale
    /\ UNCHANGED <<ledger, heartbeat, queue, sourceLock, worker, tick, faults>>

RecoverSend(d) ==
    /\ disp[d].pc = "recover"
    /\ \E j \in disp[d].todo :
         /\ queue' = Sent(queue, j)
         /\ Pick(d, "rebind", j)
    /\ UNCHANGED <<ledger, heartbeat, locks, worker, tick, faults>>

(* bind_recovery_message raises when the row became terminal meanwhile. *)
RecoverBind(d) ==
    /\ disp[d].pc = "rebind"
    /\ LET c == disp[d].cur[1]
           s == disp[d].cur[2]
       IN  IF RowPending(c, s)
           THEN /\ row' = Bound(c, s)
                /\ Done(d, "recover")
                /\ UNCHANGED schedulerLock
           ELSE Raise(d) /\ UNCHANGED row
    /\ UNCHANGED <<cycle, heartbeat, queue, sourceLock, worker, tick, faults>>

RecoverEnd(d) ==
    /\ disp[d].pc = "recover"
    /\ disp[d].todo = {}
    /\ Unlock(d)
    /\ Goto(d, "recovered")
    /\ UNCHANGED <<ledger, heartbeat, queue, sourceLock, worker, tick, faults>>

RecoverReport(d) ==
    /\ disp[d].pc = "recovered"
    /\ Beat("recovering")
    /\ Goto(d, "awake")
    /\ UNCHANGED <<ledger, queue, locks, worker, tick, faults>>

-----------------------------------------------------------------------------
(* dispatch_cycle                                                          *)

DispatchBeginUnlocked(d) ==                                      \* mutant of DispatchBegin
    /\ disp[d].pc = "awake"
    /\ disp' = [disp EXCEPT ![d] = [Asleep EXCEPT !.pc = "read", !.now = tick]]
    /\ schedulerLock' = d
    /\ Beat("starting")
    /\ UNCHANGED <<ledger, queue, sourceLock, worker, tick, faults>>

DispatchBegin(d) ==
    /\ disp[d].pc = "awake"
    /\ IF schedulerLock = None
       THEN /\ schedulerLock' = d
            /\ disp' = [disp EXCEPT ![d] = [Asleep EXCEPT !.pc = "read", !.now = tick]]
            /\ Beat("starting")
       ELSE Sleep(d) /\ UNCHANGED heartbeat
    /\ UNCHANGED <<ledger, queue, sourceLock, worker, tick, faults>>

(* incomplete_dispatch found a cycle: send what it still owes. *)
Resume(d, c) ==
    /\ Incomplete(c)
    /\ Owe(d, c, {c} \X UnboundIn(c))
    /\ Beat("recovering")
    /\ UNCHANGED schedulerLock

FindDue(d) ==
    /\ NothingIncomplete
    /\ \E c \in Cycles : cycle[c].state = "absent"      \* bound
    /\ \E due \in (SUBSET MayBeDue(disp[d].now)) \ {{}} :
         disp' = [disp EXCEPT ![d] = [@ EXCEPT !.pc = "begin", !.due = due]]
    /\ UNCHANGED <<heartbeat, schedulerLock>>

NothingDue(d) ==
    /\ NothingIncomplete
    /\ Beat("idle")
    /\ Sleep(d)

DispatchRead(d) ==
    /\ disp[d].pc = "read"
    /\ \/ \E c \in Cycles : Resume(d, c)
       \/ FindDue(d)
       \/ NothingDue(d)
    /\ UNCHANGED <<ledger, queue, sourceLock, worker, tick, faults>>

(* begin_cycle inserts the cycle and its whole source ledger at once. *)
Insert(d, c, due) ==
    /\ cycle[c].state = "absent"
    /\ \A b \in 1..(c - 1) : cycle[b].state # "absent"
    /\ cycle' = [cycle EXCEPT ![c] = [NoCycle EXCEPT
                   !.state = "dispatching", !.eligible = due, !.bucket = disp[d].now]]
    /\ row' = [row EXCEPT ![c] = [s \in Sources |->
                  IF s \in due THEN [state |-> "queued", message |-> "null", at |-> tick]
                               ELSE NoRow]]
    /\ Owe(d, c, {c} \X due)
    /\ Beat("dispatching")
    /\ UNCHANGED schedulerLock

(* The key of this minute exists: another source set is a conflict, the    *)
(* same one is dispatched while it is dispatching and left alone after.    *)
Existing(d, c) ==
    /\ IF cycle[c].eligible # disp[d].due THEN Raise(d) /\ UNCHANGED heartbeat
       ELSE IF cycle[c].state # "dispatching" THEN Beat("idle") /\ Sleep(d)
       ELSE /\ Owe(d, c, {c} \X disp[d].due)
            /\ Beat("dispatching")
            /\ UNCHANGED schedulerLock
    /\ UNCHANGED ledger

BeginCycle(d) ==
    /\ disp[d].pc = "begin"
    /\ LET same == {c \in Cycles : cycle[c].state # "absent" /\ cycle[c].bucket = disp[d].now}
       IN  IF same = {}
           THEN \E c \in Cycles : Insert(d, c, disp[d].due)
           ELSE \E c \in same : Existing(d, c)
    /\ UNCHANGED <<queue, sourceLock, worker, tick, faults>>

(* run_registered_source.send: Redis may refuse. *)
Send(d) ==
    /\ disp[d].pc = "dispatch"
    /\ \E j \in disp[d].todo :
         \/ /\ queue' = Sent(queue, j)
            /\ Pick(d, "bind", j)
            /\ UNCHANGED faults
         \/ /\ Fault
            /\ Pick(d, "undo", j)
            /\ UNCHANGED queue
    /\ UNCHANGED <<ledger, heartbeat, locks, worker, tick>>

(* bind_message: accepts a row in any state whose message is still NULL.   *)
(* A broken connection raises whether or not the update was committed.     *)
Bind(d) ==
    /\ disp[d].pc = "bind"
    /\ LET c == disp[d].cur[1]
           s == disp[d].cur[2]
       IN  \/ /\ IF row[c][s].message = "null"
                 THEN row' = Bound(c, s) /\ Done(d, "dispatch")
                 ELSE Goto(d, "undo") /\ UNCHANGED row
              /\ UNCHANGED faults
           \/ /\ Fault
              /\ row' \in {row, Bound(c, s)}
              /\ Goto(d, "undo")
    /\ UNCHANGED <<cycle, heartbeat, queue, locks, worker, tick>>

(* fail_source_dispatch gives up a row whose message is known but that no  *)
(* worker has started; the cycle's own state and counts are left alone.    *)
UndonePending(c, s) == IF RowPending(c, s) THEN Ended(c, s, "failed") ELSE row      \* mutant of Undone
Undone(c, s) == IF row[c][s].state = "queued" /\ row[c][s].message = "known" THEN Ended(c, s, "failed") ELSE row

FailDispatch(d) ==
    /\ disp[d].pc = "undo"
    /\ row' = Undone(disp[d].cur[1], disp[d].cur[2])
    /\ Done(d, "dispatch")
    /\ UNCHANGED <<cycle, heartbeat, queue, locks, worker, tick, faults>>

(* The second incomplete_dispatch: keep the cycle visible while it owes.   *)
CheckRemaining(d) ==
    /\ disp[d].pc = "dispatch"
    /\ disp[d].todo = {}
    /\ IF Incomplete(disp[d].cycle) /\ UnboundIn(disp[d].cycle) # {}
       THEN Beat("recovering") /\ Sleep(d)
       ELSE Goto(d, "finish") /\ UNCHANGED <<heartbeat, schedulerLock>>
    /\ UNCHANGED <<ledger, queue, sourceLock, worker, tick, faults>>

(* finish_dispatch looks at no state: a cycle that a worker has closed by   *)
(* now gets the same verdict again, and another finish time.               *)
FinishDispatch(d) ==
    /\ disp[d].pc = "finish"
    /\ LET c == disp[d].cycle
       IN  cycle' = [cycle EXCEPT ![c] = [@ EXCEPT
                        !.state = StateOf(row[c]), !.count = CountsOf(row[c]),
                        !.finished = EndTime(row[c], tick)]]
    /\ Goto(d, "report")
    /\ UNCHANGED <<row, heartbeat, queue, locks, worker, tick, faults>>

DispatchReport(d) ==
    /\ disp[d].pc = "report"
    /\ Beat("idle")
    /\ Sleep(d)
    /\ UNCHANGED <<ledger, queue, sourceLock, worker, tick, faults>>

(* run_forever's except clause: the lock is already released. *)
ReportError(d) ==
    /\ disp[d].pc = "raised"
    /\ Beat("error")
    /\ Sleep(d)
    /\ UNCHANGED <<ledger, queue, sourceLock, worker, tick, faults>>

(* A database call raises outside the send/bind handler, or the process    *)
(* dies: either way the session that holds the lock ends.                  *)
Abort(d) ==
    /\ disp[d].pc \notin {"asleep", "raised"}
    /\ Fault
    /\ Raise(d) \/ Sleep(d)
    /\ UNCHANGED <<ledger, heartbeat, queue, sourceLock, worker, tick>>

-----------------------------------------------------------------------------
(* run_registered_source                                                   *)

Release(w)      == /\ sourceLock' = [sourceLock EXCEPT ![worker[w].job[2]] = None]
                   /\ worker' = [worker EXCEPT ![w] = Idle]
Requeue(w)      == queue' = Sent(queue, worker[w].job)
WorkerAt(w, pc) == worker' = [worker EXCEPT ![w] = [@ EXCEPT !.pc = pc]]

(* The message leaves the queue and the actor gets the source lock.  A     *)
(* message that finds the lock taken is retried later: it stays queued.    *)
DeliverUnlocked(w, c, s) ==                                      \* mutant of Deliver
    /\ worker[w].pc = "idle"
    /\ queue[c][s] > 0
    /\ sourceLock' = [sourceLock EXCEPT ![s] = w]
    /\ queue' = [queue EXCEPT ![c][s] = @ - 1]
    /\ worker' = [worker EXCEPT ![w] = [Idle EXCEPT !.pc = "locked", !.job = <<c, s>>]]
    /\ UNCHANGED <<ledger, heartbeat, schedulerLock, disp, tick, faults>>

Deliver(w, c, s) ==
    /\ worker[w].pc = "idle"
    /\ queue[c][s] > 0
    /\ sourceLock[s] = None
    /\ sourceLock' = [sourceLock EXCEPT ![s] = w]
    /\ queue' = [queue EXCEPT ![c][s] = @ - 1]
    /\ worker' = [worker EXCEPT ![w] = [Idle EXCEPT !.pc = "locked", !.job = <<c, s>>]]
    /\ UNCHANGED <<ledger, heartbeat, schedulerLock, disp, tick, faults>>

(* start_source: a row that is no longer pending is skipped. *)
StartAnyRow(w) ==                                                \* mutant of Start
    /\ worker[w].pc = "locked"
    /\ row' = Ended(worker[w].job[1], worker[w].job[2], "running")
    /\ WorkerAt(w, "running")
    /\ UNCHANGED <<cycle, heartbeat, queue, locks, disp, tick, faults>>

Start(w) ==
    /\ worker[w].pc = "locked"
    /\ LET c == worker[w].job[1]
           s == worker[w].job[2]
       IN  IF RowPending(c, s)
           THEN /\ row' = Updated(c, s, [row[c][s] EXCEPT !.state = "running",
                              !.at = IF row[c][s].state = "queued" THEN tick ELSE @])
                /\ WorkerAt(w, "running")
                /\ UNCHANGED sourceLock
           ELSE Release(w) /\ UNCHANGED row
    /\ UNCHANGED <<cycle, heartbeat, queue, schedulerLock, disp, tick, faults>>

(* run_source returns a result, or raises and only the failure is stored. *)
Run(w) ==
    /\ worker[w].pc = "running"
    /\ \/ \E o \in {"completed", "review_required"} :
            worker' = [worker EXCEPT ![w] = [@ EXCEPT !.pc = "finish", !.outcome = o]]
       \/ WorkerAt(w, "fail")
    /\ UNCHANGED <<ledger, heartbeat, queue, locks, disp, tick, faults>>

(* finish_source stores outcome o unless the cycle is closed or the row is *)
(* not running; it recounts the cycle, and closes it with its last row.    *)
Accepts(c, s) == cycle[c].state \in Open /\ row[c][s].state = "running"
StoreAt(c, s, o, state) ==
    /\ row' = Ended(c, s, o)
    /\ LET time == IF cycle[c].finished = 0 THEN tick ELSE cycle[c].finished
       IN  cycle' = [cycle EXCEPT ![c] = [@ EXCEPT
                        !.state = state, !.count = CountsOf(Ended(c, s, o)[c]),
                        !.finished = EndTime(Ended(c, s, o)[c], time)]]
StoreDispatched(c, s, o) ==                                      \* mutant of Store
    StoreAt(c, s, o, StateOf(Ended(c, s, o)[c]))
StoreOpen(c, s, o) == StoreAt(c, s, o, cycle[c].state)           \* mutant of Store
Store(c, s, o) ==
    LET state == StateOf(Ended(c, s, o)[c])
    IN  StoreAt(c, s, o, IF state = "dispatched" THEN cycle[c].state ELSE state)

Finish(w) ==
    /\ worker[w].pc = "finish"
    /\ LET c == worker[w].job[1]
           s == worker[w].job[2]
       IN  \/ /\ Accepts(c, s)
              /\ Store(c, s, worker[w].outcome)
              /\ Release(w)
              /\ UNCHANGED faults
           \/ /\ ~Accepts(c, s)
              /\ WorkerAt(w, "fail")
              /\ UNCHANGED <<ledger, sourceLock, faults>>
           \/ /\ Fault
              /\ \/ Accepts(c, s) /\ Store(c, s, worker[w].outcome)
                 \/ UNCHANGED ledger
              /\ WorkerAt(w, "fail")
              /\ UNCHANGED sourceLock
    /\ UNCHANGED <<heartbeat, queue, schedulerLock, disp, tick>>

(* The except clause stores "failed"; if that raises too, Retry requeues. *)
Fail(w) ==
    /\ worker[w].pc = "fail"
    /\ LET c == worker[w].job[1]
           s == worker[w].job[2]
       IN  \/ /\ Accepts(c, s)
              /\ Store(c, s, "failed")
              /\ UNCHANGED <<queue, faults>>
           \/ /\ ~Accepts(c, s)
              /\ Requeue(w)
              /\ UNCHANGED <<ledger, faults>>
           \/ /\ Fault
              /\ \/ Accepts(c, s) /\ Store(c, s, "failed")
                 \/ UNCHANGED ledger
              /\ Requeue(w)
    /\ Release(w)
    /\ UNCHANGED <<heartbeat, schedulerLock, disp, tick>>

(* The process dies or the actor's time limit interrupts it: the lock goes *)
(* with the session, the message was never acknowledged.                   *)
WorkerCrash(w) ==
    /\ worker[w].pc # "idle"
    /\ Fault
    /\ Requeue(w)
    /\ Release(w)
    /\ UNCHANGED <<ledger, heartbeat, schedulerLock, disp, tick>>

(* Redis loses its tail of the append-only file, or a message has used its *)
(* max_retries waiting for the source lock.                                *)
LoseMessage(c, s) ==
    /\ queue[c][s] > 0
    /\ Fault
    /\ queue' = [queue EXCEPT ![c][s] = @ - 1]
    /\ UNCHANGED <<ledger, heartbeat, locks, disp, worker, tick>>

MinutePasses ==
    /\ tick < MaxTick
    /\ tick' = tick + 1
    /\ UNCHANGED <<ledger, heartbeat, queue, locks, disp, worker, faults>>

-----------------------------------------------------------------------------
Dispatch(d) ==
    \/ RecoverBegin(d) \/ RecoverSend(d) \/ RecoverBind(d) \/ RecoverEnd(d)
    \/ RecoverReport(d) \/ DispatchBegin(d) \/ DispatchRead(d) \/ BeginCycle(d)
    \/ Send(d) \/ Bind(d) \/ FailDispatch(d) \/ CheckRemaining(d)
    \/ FinishDispatch(d) \/ DispatchReport(d) \/ ReportError(d)

Work(w) == Start(w) \/ Run(w) \/ Finish(w) \/ Fail(w)

Next ==
    \/ \E d \in Dispatchers : Dispatch(d) \/ Abort(d)
    \/ \E w \in Workers : Work(w) \/ WorkerCrash(w)
    \/ \E w \in Workers, c \in Cycles, s \in Sources : Deliver(w, c, s)
    \/ \E c \in Cycles, s \in Sources : LoseMessage(c, s)
    \/ MinutePasses

Spec == Init /\ [][Next]_vars

(* The dispatch loop never stops, worker threads keep running, a queued    *)
(* message is eventually handed to a thread, and a row that stays pending  *)
(* grows old enough to be in the stale set of some later pass.             *)
Recovers(d, j) == RecoverBegin(d) /\ j \in disp'[d].todo
Hand(c, s)     == \E w \in Workers : Deliver(w, c, s)
Fairness ==
    /\ \A d \in Dispatchers : WF_vars(Dispatch(d))
    /\ \A w \in Workers : WF_vars(Work(w))
    /\ \A c \in Cycles, s \in Sources :
         /\ SF_vars(Hand(c, s))
         /\ \A d \in Dispatchers : SF_vars(Recovers(d, <<c, s>>))

FairSpec == Spec /\ Fairness

-----------------------------------------------------------------------------
(* Types.                                                                  *)

DispPcs == {"asleep", "recover", "rebind", "recovered", "awake", "read", "begin",
            "dispatch", "bind", "undo", "finish", "report", "raised"}
WorkerPcs == {"idle", "locked", "running", "finish", "fail"}

CycleRows  == [state : {"absent"} \cup Open \cup Closed, eligible : SUBSET Sources,
               bucket : Nat, count : [Outcomes -> Nat], finished : Nat]
SourceRows == [state : {"none"} \cup Pending \cup Outcomes, message : {"null", "known"}, at : Nat]
DispStates == [pc : DispPcs, cycle : Cycles \cup {None}, now : Nat,
               due : SUBSET Sources, todo : SUBSET Jobs, cur : Jobs \cup {None}]
WorkStates == [pc : WorkerPcs, job : Jobs \cup {None}, outcome : Outcomes \cup {"none"}]

(* Every variable has the shape of the columns and locals it stands for. *)
TypeOK ==
    /\ cycle \in [Cycles -> CycleRows]
    /\ row \in [Cycles -> [Sources -> SourceRows]]
    /\ heartbeat \in {"none", "starting", "idle", "dispatching", "recovering", "error"}
    /\ queue \in [Cycles -> [Sources -> 0..MaxDup]]
    /\ schedulerLock \in Dispatchers \cup {None}
    /\ sourceLock \in [Sources -> Workers \cup {None}]
    /\ disp \in [Dispatchers -> DispStates]
    /\ worker \in [Workers -> WorkStates]
    /\ tick \in Nat \ {0}
    /\ faults \in Nat

-----------------------------------------------------------------------------
(* Safety.                                                                 *)

(* A source has pending work in its newest row only: due_source_ids reads  *)
(* that row before begin_cycle writes the next, with workers in between.   *)
OnlyLatestPending ==
    \A c \in Cycles, s \in Sources :
        RowPending(c, s) => \A b \in (c + 1)..MaxCycles : row[b][s].state = "none"

(* A closed cycle is settled: nothing of it is pending, and its counts and *)
(* verdict are those of its rows, though finish_source, finish_dispatch    *)
(* and fail_source_dispatch race to write them.  It has a finish time, and *)
(* an open one has none, so the CHECK of the table never refuses a write.  *)
ClosedIsSettled ==
    \A c \in Cycles :
        /\ cycle[c].state \in Closed =>
             /\ PendingIn(c) = {}
             /\ cycle[c].count = CountsOf(row[c])
             /\ cycle[c].state = StateOf(row[c])
        /\ cycle[c].finished # 0 <=> cycle[c].state \in Closed

(* A dispatched cycle still has work: nothing else would ever close it,    *)
(* because stale_source_results returns pending rows only.                 *)
DispatchedHasWork ==
    \A c \in Cycles : cycle[c].state = "dispatched" => PendingIn(c) # {}

(* docs/operations/scheduler-monitoring-v1.md: a worker cannot move a      *)
(* still-dispatching cycle out of recovery visibility.  A row that was     *)
(* never bound to a message stays where incomplete_dispatch finds it.      *)
RecoveryVisibility ==
    \A c \in Cycles : UnboundIn(c) # {} => Incomplete(c)

(* run_source never runs twice at once for a source, whatever the queue    *)
(* duplicates and the recovery resends.                                    *)
ExclusiveExecution ==
    \A v, w \in Workers :
        /\ v # w
        /\ worker[v].pc \notin {"idle", "locked"}
        /\ worker[w].pc \notin {"idle", "locked"}
        => worker[v].job[2] # worker[w].job[2]

(* While a source runs, its first finish_source is bound to be accepted:   *)
(* no dispatcher or other worker can end the row or close the cycle first, *)
(* so a result is refused only after a write that broke half-way.          *)
ResultAccepted ==
    \A w \in Workers : worker[w].pc \in {"running", "finish"} =>
        Accepts(worker[w].job[1], worker[w].job[2])

(* The monitor may trust an idle heartbeat: no cycle is half dispatched.   *)
IdleIsHonest == heartbeat = "idle" => NothingIncomplete

(* The dispatcher is between begin_cycle, or the resumption, of c and the  *)
(* finish_dispatch that ends its work on c.                                *)
OwnPcs     == {"dispatch", "bind", "undo", "finish"}
Sending(c) == \E d \in Dispatchers : disp[d].pc \in OwnPcs /\ disp[d].cycle = c

(* A terminal row and a closed cycle are history: late, duplicated or      *)
(* resent messages and a second dispatcher never rewrite them.  The finish *)
(* time of a closed cycle is the one exception, and happens once at most:  *)
(* the dispatcher that was still sending when a worker closed the cycle    *)
(* puts its own time, and no dispatcher takes a closed cycle up again.     *)
HistoryIsFinal ==
    [][\A c \in Cycles :
        /\ cycle[c].state \in Closed =>
             /\ [cycle'[c] EXCEPT !.finished = 0] = [cycle[c] EXCEPT !.finished = 0]
             /\ cycle'[c].finished # cycle[c].finished => Sending(c) /\ ~Sending(c)'
             /\ Sending(c)' => Sending(c)
        /\ \A s \in Sources : row[c][s].state \in Outcomes =>
             row'[c][s].state = row[c][s].state /\ row'[c][s].at = row[c][s].at]_vars

-----------------------------------------------------------------------------
(* Why the safety properties hold: what the two locks protect at each      *)
(* point of the code.                                                      *)

HeldPcs == {"recover", "rebind", "read", "begin", "dispatch", "bind", "undo",
            "finish", "report"}

LocksHeld ==
    /\ \A d \in Dispatchers : disp[d].pc \in HeldPcs => schedulerLock = d
    /\ \A w \in Workers : worker[w].pc # "idle" =>
         worker[w].job \in Jobs /\ sourceLock[worker[w].job[2]] = w

Targets ==
    /\ \A d \in Dispatchers :
        /\ disp[d].pc \in {"rebind", "bind", "undo"} => disp[d].cur \in Jobs
        /\ disp[d].pc \in OwnPcs =>
             /\ disp[d].cycle \in Cycles
             /\ \A j \in disp[d].todo : j[1] = disp[d].cycle
        /\ disp[d].pc \in {"bind", "undo"} => disp[d].cur[1] = disp[d].cycle
    /\ \A w \in Workers : worker[w].pc = "finish" => worker[w].outcome \in Outcomes

CyclesInOrder ==
    \A c \in Cycles : cycle[c].state = "absent" =>
        /\ \A s \in Sources : row[c][s].state = "none"
        /\ \A b \in (c + 1)..MaxCycles : cycle[b].state = "absent"

PendingIsOpen == \A c \in Cycles, s \in Sources : RowPending(c, s) => cycle[c].state \in Open

OneDispatching ==
    \A b, c \in Cycles :
        cycle[b].state = "dispatching" /\ cycle[c].state = "dispatching" => b = c

(* What the dispatcher read under the lock is still true when it acts.     *)
ReadsHold ==
    \A d \in Dispatchers :
        /\ disp[d].pc = "begin" =>
             /\ NothingIncomplete
             /\ disp[d].due # {}
             /\ \A c \in Cycles, s \in disp[d].due : ~RowPending(c, s)
        /\ disp[d].pc \in OwnPcs =>
             /\ cycle[disp[d].cycle].state \in {"dispatching"} \cup Closed
             /\ \A b \in Cycles : cycle[b].state = "dispatching" => b = disp[d].cycle
        /\ disp[d].pc = "finish" => UnboundIn(disp[d].cycle) = {}
        /\ disp[d].pc = "report" => NothingIncomplete

(* The inductive invariant behind the theorems of SchedulerProofs.         *)
IndInv ==
    /\ TypeOK
    /\ LocksHeld
    /\ Targets
    /\ CyclesInOrder
    /\ PendingIsOpen
    /\ OneDispatching
    /\ ReadsHold
    /\ OnlyLatestPending
    /\ ClosedIsSettled
    /\ DispatchedHasWork
    /\ RecoveryVisibility
    /\ ResultAccepted
    /\ IdleIsHonest

-----------------------------------------------------------------------------
(* Liveness, once faults have stopped.                                     *)

(* Every cycle that was created closes, and with it every queued or running *)
(* row has reached an outcome: a lost message is sent again, a              *)
(* half-dispatched cycle is resumed, and the last result closes the cycle.  *)
(* A pending row is always of an open cycle (ClosedIsSettled), so this is   *)
(* also the promise that every job ends.                                    *)
EveryCycleCloses ==
    \A c \in Cycles : cycle[c].state \in Open ~>
        /\ cycle[c].state \in Closed
        /\ \A s \in Sources : row[c][s].state \in Outcomes \cup {"none"}

-----------------------------------------------------------------------------
(* What the ledger promises, whoever writes it: JobLedger.                 *)

jobBar   == [c \in Cycles |-> [s \in Sources |->
               IF RowPending(c, s) THEN "pending" ELSE row[c][s].state]]
phaseBar == [c \in Cycles |->
               IF cycle[c].state \in Open THEN "open" ELSE cycle[c].state]

Promise == INSTANCE JobLedger WITH job <- jobBar, phase <- phaseBar

(* Every step of scheduler, queue and workers is a step of the ledger. *)
LedgerPromise == Promise!Spec

=============================================================================

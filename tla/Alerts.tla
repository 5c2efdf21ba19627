------------------------------- MODULE Alerts -------------------------------
(***************************************************************************)
(* The operations monitor (sync/monitor.py) and the alert ledger it keeps  *)
(* in sync.alert_deliveries (sync/operations.py): a pass collects what is  *)
(* wrong, opens and resolves alerts, posts the ones nobody was told about  *)
(* to the webhook, and marks them. The steps are apart, so a pass that     *)
(* dies or a webhook that fails leaves the rest to the next one, and the   *)
(* passes of two processes interleave: docs/operations/                    *)
(* scheduler-monitoring-v1.md runs monitor-once beside the container, with *)
(* no lock between them.                                                   *)
(* An episode of a condition begins when its alert opens and ends when it  *)
(* is resolved. What is said about episodes is history, not columns: the   *)
(* variables accepted, late and shared and the field stale of a pass.      *)
(***************************************************************************)
EXTENDS Naturals, FiniteSets

CONSTANTS
  Conditions,   \* fingerprints: an alert code and its subject
  Monitors,     \* processes that run passes
  Deployed,     \* those of run_forever; the others are monitor-once
  MaxChanges,   \* BOUND: how often a condition appears or disappears
  MaxFaults     \* BOUND: failed webhooks, lost answers, killed passes

ASSUME MonitorsAssumption == IsFiniteSet(Monitors) /\ Deployed \subseteq Monitors
ASSUME BoundsAssumption == MaxChanges \in Nat /\ MaxFaults \in Nat

VARIABLES
  wrong,        \* the conditions that hold now
  alert,        \* alert[f]: the row of sync.alert_deliveries
  accepted,     \* accepted[f]: deliveries of the newest episode
  late,         \* late[f]: marked by a pass that had posted an older episode
  shared,       \* shared[f]: two passes had the newest episode to post at once
  monitor,      \* the pass each monitor is in
  changes,      \* changes of wrong so far
  faults        \* faults so far

history == <<accepted, late, shared>>
vars == <<wrong, alert, accepted, late, shared, monitor, changes, faults>>

AlertRows == [state : {"none", "open", "resolved"}, told : {"never", "once"}]
\* unseen: rows that another transaction opened while this pass may have been in
\* observe_alerts; stale: pending rows of which a newer episode has begun
Passes == [pc : {"idle", "collected", "observed", "posted"},
           seen : SUBSET Conditions, pending : SUBSET Conditions,
           unseen : SUBSET Conditions, stale : SUBSET Conditions]

NoAlert == [state |-> "none", told |-> "never"]
NoPass == [pc |-> "idle", seen |-> {}, pending |-> {}, unseen |-> {}, stale |-> {}]

Init ==
  /\ wrong = {}
  /\ alert = [f \in Conditions |-> NoAlert]
  /\ accepted = [f \in Conditions |-> 0]
  /\ late = [f \in Conditions |-> FALSE]
  /\ shared = [f \in Conditions |-> FALSE]
  /\ monitor = [m \in Monitors |-> NoPass]
  /\ changes = 0
  /\ faults = 0

-----------------------------------------------------------------------------
(* One pass: run_once.                                                     *)

At(m, pc) == monitor[m].pc = pc
EndPass(m) == monitor' = [monitor EXCEPT ![m] = NoPass]

\* the passes that have the newest episode of f to post, or have posted it
Current(m, f) == f \in monitor[m].pending \ monitor[m].stale
Unposted(f) == {m \in Monitors : At(m, "observed") /\ Current(m, f)}
Delivered(f) == {m \in Monitors : At(m, "posted") /\ Current(m, f)}

\* snapshot and collect_alerts
Collect(m) ==
  /\ At(m, "idle")
  /\ monitor' = [monitor EXCEPT ![m] = [NoPass EXCEPT !.pc = "collected", !.seen = wrong]]
  /\ UNCHANGED <<wrong, alert, history, changes, faults>>

\* mutant: a resolved alert that opens again keeps its last notification
OpenedAgain(a) == [a EXCEPT !.state = "open"]
Opened(a) == IF a.state = "open" THEN a ELSE [state |-> "open", told |-> "never"]
Resolved(a) == IF a.state = "open" THEN [a EXCEPT !.state = "resolved"] ELSE a

Observed(seen, missed) ==
  [f \in Conditions |-> IF f \in seen THEN Opened(alert[f])
                        ELSE IF f \in missed THEN alert[f] ELSE Resolved(alert[f])]
Opens(seen) == {f \in seen : alert[f].state # "open"}

\* mutant: every open alert is posted in every pass
PendingOpen(seen) == seen
Pending(seen) == {f \in seen : Opened(alert[f]).told = "never"}

\* What a transaction that opens rows does to a pass beside it. The statement
\* that looks for alerts to resolve may have run before this commit, unless
\* both upsert a common row and so wait for each other.
Overtaken(pass, seen) ==
  [pass EXCEPT !.stale = pass.stale \cup (pass.pending \cap Opens(seen)),
               !.unseen = IF pass.pc = "collected" /\ pass.seen \cap seen = {}
                          THEN pass.unseen \cup Opens(seen) ELSE pass.unseen]

\* observe_alerts, one transaction
Observe(m) ==
  LET seen == monitor[m].seen
      next == IF Pending(seen) = {} THEN NoPass
              ELSE [NoPass EXCEPT !.pc = "observed", !.pending = Pending(seen)]
  IN /\ At(m, "collected")
     /\ \E missed \in SUBSET monitor[m].unseen : alert' = Observed(seen, missed)
     /\ accepted' = [f \in Conditions |-> IF f \in Opens(seen) THEN 0 ELSE accepted[f]]
     /\ late' = [f \in Conditions |-> f \notin Opens(seen) /\ late[f]]
     /\ shared' = [f \in Conditions |->
          /\ f \notin Opens(seen)
          /\ shared[f] \/ (f \in Pending(seen) /\ Unposted(f) \cup Delivered(f) # {})]
     /\ monitor' = [n \in Monitors |-> IF n = m THEN next ELSE Overtaken(monitor[n], seen)]
     /\ UNCHANGED <<wrong, changes, faults>>

\* what the receiver of the webhook knows once it has accepted the post of m
Receive(m) ==
  accepted' = [f \in Conditions |-> IF Current(m, f) THEN accepted[f] + 1 ELSE accepted[f]]

Post(m) ==
  /\ At(m, "observed")
  /\ Receive(m)
  /\ monitor' = [monitor EXCEPT ![m] = [@ EXCEPT !.pc = "posted"]]
  /\ UNCHANGED <<wrong, alert, late, shared, changes, faults>>

\* the UPDATE names fingerprints: it marks whatever episode is open by now
Marked(m) ==
  /\ alert' = [f \in Conditions |->
       IF f \in monitor[m].pending /\ alert[f].state = "open"
       THEN [alert[f] EXCEPT !.told = "once"] ELSE alert[f]]
  /\ late' = [f \in Conditions |->
       late[f] \/ (f \in monitor[m].stale /\ alert[f].state = "open")]

\* mutant: alerts are marked before they are posted
MarkEarly(m) ==
  /\ ~At(m, "idle")
  /\ Marked(m)
  /\ EndPass(m)
  /\ UNCHANGED <<wrong, accepted, shared, changes, faults>>

\* mark_notified
Mark(m) ==
  /\ At(m, "posted")
  /\ Marked(m)
  /\ EndPass(m)
  /\ UNCHANGED <<wrong, accepted, shared, changes, faults>>

-----------------------------------------------------------------------------
(* Faults, and the world the monitor watches.                              *)

Fault == faults < MaxFaults /\ faults' = faults + 1

\* the webhook accepts, and its answer is lost or comes too late
LoseAnswer(m) ==
  /\ At(m, "observed")
  /\ Fault
  /\ Receive(m)
  /\ EndPass(m)
  /\ UNCHANGED <<wrong, alert, late, shared, changes>>

\* the webhook refuses, a query fails (two observe_alerts may deadlock), or the
\* process dies: run_forever starts a new pass after the interval
BreakOff(m) ==
  /\ ~At(m, "idle")
  /\ Fault
  /\ EndPass(m)
  /\ UNCHANGED <<wrong, alert, history, changes>>

Change(f) ==
  /\ changes < MaxChanges
  /\ changes' = changes + 1
  /\ wrong' = IF f \in wrong THEN wrong \ {f} ELSE wrong \cup {f}
  /\ UNCHANGED <<alert, history, monitor, faults>>

-----------------------------------------------------------------------------
Proceed(m) == Observe(m) \/ Post(m) \/ Mark(m)
Pass(m) == Collect(m) \/ Proceed(m)

Next ==
  \/ \E m \in Monitors : Pass(m) \/ LoseAnswer(m) \/ BreakOff(m)
  \/ \E f \in Conditions : Change(f)

Spec == Init /\ [][Next]_vars
\* Every call of a pass has a timeout, so a pass that is not broken off goes on;
\* run_forever catches every exception and starts the next one. Nobody has to
\* start a probe.
FairSpec ==
  /\ Spec
  /\ \A m \in Monitors : WF_vars(Proceed(m))
  /\ \A m \in Deployed : WF_vars(Pass(m))
-----------------------------------------------------------------------------
(* Properties.                                                             *)

\* Types of the ledger and of the passes.
TypeOK ==
  /\ wrong \subseteq Conditions
  /\ alert \in [Conditions -> AlertRows]
  /\ accepted \in [Conditions -> Nat]
  /\ late \in [Conditions -> BOOLEAN]
  /\ shared \in [Conditions -> BOOLEAN]
  /\ monitor \in [Monitors -> Passes]
  /\ changes \in Nat
  /\ faults \in Nat

\* An open alert that is marked was posted in this episode and not only in an
\* earlier one, although the mark names the fingerprint and not the episode. A
\* pass that overlaps another may mark what the other has opened again; nobody
\* is told then only if a fault also takes the pass that was to post it.
MarkedWasPosted ==
  \A f \in Conditions :
    alert[f].state = "open" /\ alert[f].told = "once" =>
      \/ accepted[f] > 0
      \/ late[f] /\ (Unposted(f) # {} \/ faults > 0)

\* docs/operations/scheduler-monitoring-v1.md: a webhook receives only the
\* first notification of an open fingerprint. A fault repeats it once, and so
\* does each further pass that found it unmarked while another was posting it.
RepeatsExplained ==
  \A f \in Conditions :
    accepted[f] <= faults + (IF shared[f] THEN Cardinality(Monitors) ELSE 1)

\* The strengthening that makes both inductive, in parts. A pass has something
\* to post only after observe_alerts, and its stale rows are among it.
PassShape ==
  \A m \in Monitors :
    /\ monitor[m].stale \subseteq monitor[m].pending
    /\ monitor[m].pending # {} => monitor[m].pc \in {"observed", "posted"}

\* Of what passes have posted, or are about to post, the receiver knows, or it
\* has not heard of the episode because of a fault.
Reported ==
  \A f \in Conditions :
    /\ Delivered(f) # {} => accepted[f] > 0
    /\ alert[f].state = "open" => accepted[f] > 0 \/ Unposted(f) # {} \/ faults > 0
    /\ alert[f].state = "open" /\ alert[f].told = "once" => accepted[f] > 0 \/ late[f]

\* While an alert is unmarked its deliveries are those of faults and of passes
\* about to mark it; after that only the passes that still have it can add to
\* them. Two passes have it at once only if it is shared.
Allowed(f) == IF shared[f] THEN Cardinality(Monitors) ELSE 1
Counted ==
  \A f \in Conditions :
    /\ ~shared[f] => \A m, n \in Unposted(f) \cup Delivered(f) : m = n
    /\ IF alert[f] = [state |-> "open", told |-> "never"]
       THEN accepted[f] <= faults + Cardinality(Delivered(f))
       ELSE accepted[f] + Cardinality(Unposted(f)) <= faults + Allowed(f)

NotificationInv == PassShape /\ Reported /\ Counted

\* Every condition that lasts is open and reported, and every one that is over
\* is not open, after any sequence of recurrences and failed posts; it stays
\* unreported only where a late mark and a fault met.
LedgerFollows ==
  \A f \in Conditions :
    []<>(IF f \in wrong
         THEN alert[f].state = "open" /\ (accepted[f] > 0 \/ (late[f] /\ faults > 0))
         ELSE alert[f].state # "open")
=============================================================================

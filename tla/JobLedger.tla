----------------------------- MODULE JobLedger -----------------------------
(***************************************************************************)
(* What the scheduler's ledger promises its readers (the monitor, the      *)
(* admin page, the operator), without queues, locks or processes: a cycle  *)
(* opens with one job for each of its sources, a job gets exactly one      *)
(* outcome, and the cycle closes once, with the verdict of its jobs.       *)
(***************************************************************************)
EXTENDS Naturals

CONSTANTS Sources, MaxCycles

VARIABLES
    job,    \* job[c][s]: "none", "pending" or an outcome
    phase   \* phase[c]: "absent", "open", "completed" or "partial_failure"

Cycles   == 1..MaxCycles
Outcomes == {"completed", "review_required", "failed"}

Init ==
    /\ job = [c \in Cycles |-> [s \in Sources |-> "none"]]
    /\ phase = [c \in Cycles |-> "absent"]

Busy == {s \in Sources : \E c \in Cycles : job[c][s] = "pending"}

Verdict(jobs) ==
    IF \E s \in Sources : jobs[s] \in {"review_required", "failed"}
    THEN "partial_failure" ELSE "completed"
Settled(jobs) == \A s \in Sources : jobs[s] # "pending"

(* Cycles open in order, with sources none of which is still busy. *)
OpenCycle(c, due) ==
    /\ phase[c] = "absent"
    /\ \A b \in 1..(c - 1) : phase[b] # "absent"
    /\ due # {} /\ due \cap Busy = {}
    /\ phase' = [phase EXCEPT ![c] = "open"]
    /\ job' = [job EXCEPT ![c] = [s \in Sources |->
                 IF s \in due THEN "pending" ELSE "none"]]

Resolve(c, s, o) ==
    /\ phase[c] = "open"
    /\ job[c][s] = "pending"
    /\ job' = [job EXCEPT ![c][s] = o]
    /\ \/ UNCHANGED phase
       \/ /\ Settled(job'[c])
          /\ phase' = [phase EXCEPT ![c] = Verdict(job'[c])]

CloseCycle(c) ==
    /\ phase[c] = "open"
    /\ Settled(job[c])
    /\ phase' = [phase EXCEPT ![c] = Verdict(job[c])]
    /\ UNCHANGED job

Next ==
    \E c \in Cycles :
        \/ \E due \in SUBSET Sources : OpenCycle(c, due)
        \/ \E s \in Sources, o \in Outcomes : Resolve(c, s, o)
        \/ CloseCycle(c)

Spec == Init /\ [][Next]_<<job, phase>>

=============================================================================

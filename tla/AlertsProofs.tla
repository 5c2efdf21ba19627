---------------------------- MODULE AlertsProofs ----------------------------
(***************************************************************************)
(* Machine-checked proofs about Alerts, for any monitors and probes beside *)
(* each other: what a mark says of the episode that is open, and how often *)
(* the webhook hears of it.                                                *)
(***************************************************************************)
EXTENDS Alerts, FiniteSetTheorems, TLAPS

-----------------------------------------------------------------------------
(* Types.                                                                  *)

(* A new pass, and every way a pass goes on, is a pass.                    *)
LEMMA PassTypes ==
    /\ NoPass \in Passes
    /\ \A pass \in Passes, pc \in {"idle", "collected", "observed", "posted"} :
         [pass EXCEPT !.pc = pc] \in Passes
    /\ \A seen \in SUBSET Conditions :
         [NoPass EXCEPT !.pc = "collected", !.seen = seen] \in Passes
    /\ \A pending \in SUBSET Conditions :
         [NoPass EXCEPT !.pc = "observed", !.pending = pending] \in Passes
    /\ \A pass \in Passes, seen \in SUBSET Conditions : Overtaken(pass, seen) \in Passes
<1>1. ASSUME NEW pass \in Passes, NEW seen \in SUBSET Conditions
      PROVE  Overtaken(pass, seen) \in Passes
  <2> DEFINE s == pass.stale \cup (pass.pending \cap Opens(seen))
             u == IF pass.pc = "collected" /\ pass.seen \cap seen = {}
                  THEN pass.unseen \cup Opens(seen) ELSE pass.unseen
  <2>1. s \subseteq Conditions /\ u \subseteq Conditions
    BY DEF Passes, Opens
  <2>2. Overtaken(pass, seen) = [pass EXCEPT !.stale = s, !.unseen = u]
    BY DEF Overtaken
  <2> HIDE DEF s, u
  <2> QED  BY <2>1, <2>2 DEF Passes
<1> QED  BY <1>1 DEF NoPass, Passes

(* Opening, resolving and marking an alert yields a row of the table.      *)
LEMMA RowTypes ==
    ASSUME NEW a \in AlertRows
    PROVE  /\ Opened(a) \in AlertRows
           /\ Resolved(a) \in AlertRows
           /\ [a EXCEPT !.told = "once"] \in AlertRows
BY DEF AlertRows, Opened, Resolved

LEMMA CollectTyped ==
    ASSUME TypeOK, NEW m \in Monitors, Collect(m)
    PROVE  TypeOK'
<1>1. [NoPass EXCEPT !.pc = "collected", !.seen = wrong] \in Passes
  BY PassTypes DEF TypeOK
<1> QED  BY <1>1 DEF TypeOK, Collect, history

LEMMA ObserveTyped ==
    ASSUME TypeOK, NEW m \in Monitors, Observe(m)
    PROVE  TypeOK'
<1> DEFINE seen == monitor[m].seen
<1>1. seen \subseteq Conditions
  BY DEF TypeOK, Passes
<1>2. alert' \in [Conditions -> AlertRows]
  BY RowTypes DEF TypeOK, Observe, Observed
<1>3. /\ accepted' \in [Conditions -> Nat] /\ late' \in [Conditions -> BOOLEAN]
      /\ shared' \in [Conditions -> BOOLEAN]
  BY DEF TypeOK, Observe
<1>4. [NoPass EXCEPT !.pc = "observed", !.pending = Pending(seen)] \in Passes
  BY <1>1, PassTypes DEF Pending
<1>5. monitor' \in [Monitors -> Passes]
  BY <1>1, <1>4, PassTypes DEF TypeOK, Observe
<1> QED  BY <1>2, <1>3, <1>5 DEF TypeOK, Observe

LEMMA PostTyped ==
    ASSUME TypeOK, NEW m \in Monitors, Post(m)
    PROVE  TypeOK'
<1>1. accepted' \in [Conditions -> Nat]
  BY DEF TypeOK, Post, Receive
<1>2. monitor' \in [Monitors -> Passes]
  BY PassTypes DEF TypeOK, Post
<1> QED  BY <1>1, <1>2 DEF TypeOK, Post

LEMMA MarkTyped ==
    ASSUME TypeOK, NEW m \in Monitors, Mark(m)
    PROVE  TypeOK'
<1>1. alert' \in [Conditions -> AlertRows]
  BY RowTypes DEF TypeOK, Mark, Marked
<1>2. monitor' \in [Monitors -> Passes]
  BY PassTypes DEF TypeOK, Mark, EndPass
<1>3. late' \in [Conditions -> BOOLEAN]
  BY DEF TypeOK, Mark, Marked
<1> QED  BY <1>1, <1>2, <1>3 DEF TypeOK, Mark

LEMMA FaultsTyped ==
    ASSUME TypeOK, NEW m \in Monitors, LoseAnswer(m) \/ BreakOff(m)
    PROVE  TypeOK'
<1>1. monitor' \in [Monitors -> Passes]
  BY PassTypes DEF TypeOK, LoseAnswer, BreakOff, EndPass
<1>2. accepted' \in [Conditions -> Nat]
  BY DEF TypeOK, LoseAnswer, BreakOff, Receive, history
<1> QED  BY <1>1, <1>2 DEF TypeOK, LoseAnswer, BreakOff, Fault, history

LEMMA ChangeTyped ==
    ASSUME TypeOK, NEW f \in Conditions, Change(f)
    PROVE  TypeOK'
BY DEF TypeOK, Change, history

(* The columns of sync.alert_deliveries and the locals of a pass keep their types. *)
THEOREM Typing == Spec => []TypeOK
<1>1. Init => TypeOK
  <2>1. NoAlert \in AlertRows
    BY DEF NoAlert, AlertRows
  <2>2. NoPass \in Passes
    BY PassTypes
  <2> QED  BY <2>1, <2>2 DEF Init, TypeOK
<1>2. TypeOK /\ [Next]_vars => TypeOK'
  <2> SUFFICES ASSUME TypeOK, [Next]_vars PROVE TypeOK'
    OBVIOUS
  <2>1. CASE UNCHANGED vars
    BY <2>1 DEF vars, TypeOK
  <2>2. ASSUME NEW m \in Monitors, Pass(m) \/ LoseAnswer(m) \/ BreakOff(m)
        PROVE  TypeOK'
    BY <2>2, CollectTyped, ObserveTyped, PostTyped, MarkTyped, FaultsTyped DEF Pass, Proceed
  <2>3. ASSUME NEW f \in Conditions, Change(f)
        PROVE  TypeOK'
    BY <2>3, ChangeTyped
  <2> QED  BY <2>1, <2>2, <2>3 DEF Next
<1> QED  BY <1>1, <1>2, PTL DEF Spec

-----------------------------------------------------------------------------
(* Notifications.                                                          *)

(* The passes that have an episode to post and those that have posted it   *)
(* are finitely many, and no more than are allowed together.               *)
LEMMA Holders ==
    ASSUME TypeOK, Counted, NEW f \in Conditions
    PROVE  /\ IsFiniteSet(Unposted(f)) /\ IsFiniteSet(Delivered(f))
           /\ Cardinality(Unposted(f)) \in Nat /\ Cardinality(Delivered(f)) \in Nat
           /\ Allowed(f) \in Nat
           /\ Cardinality(Unposted(f)) + Cardinality(Delivered(f)) <= Allowed(f)
<1> DEFINE U == Unposted(f)
           D == Delivered(f)
<1>1. U \subseteq Monitors /\ D \subseteq Monitors /\ U \cap D = {}
  BY DEF Unposted, Delivered, At
<1>2. ~shared[f] => \A m, n \in U \cup D : m = n
  BY DEF Counted
<1> HIDE DEF U, D
<1>3. /\ IsFiniteSet(U) /\ IsFiniteSet(D) /\ IsFiniteSet(Monitors) /\ IsFiniteSet(U \cup D)
      /\ Cardinality(U \cup D) <= Cardinality(Monitors)
  BY <1>1, FS_Subset, MonitorsAssumption
<1>4. /\ Cardinality(U) \in Nat /\ Cardinality(D) \in Nat /\ Cardinality(Monitors) \in Nat
      /\ Cardinality(U \cup D) \in Nat
  BY <1>3, FS_CardinalityType
<1>5. Cardinality(U \cup D) = Cardinality(U) + Cardinality(D)
  <2>1. Cardinality(U \cup D) = Cardinality(U) + Cardinality(D) - Cardinality(U \cap D)
    BY <1>3, FS_Union
  <2>2. Cardinality(U \cap D) = 0
    BY <1>1, FS_EmptySet
  <2> QED  BY <1>4, <2>1, <2>2
<1>6. ~shared[f] => Cardinality(U \cup D) <= 1
  <2> SUFFICES ASSUME ~shared[f], U \cup D # {} PROVE Cardinality(U \cup D) = 1
    BY <1>3, <1>4, FS_EmptySet
  <2>1. PICK m : m \in U \cup D
    OBVIOUS
  <2>2. U \cup D = {m}
    BY <1>2, <2>1
  <2> QED  BY <2>2, FS_Singleton
<1>7. Allowed(f) \in Nat /\ Cardinality(U) + Cardinality(D) <= Allowed(f)
  BY <1>3, <1>4, <1>5, <1>6 DEF Allowed
<1> QED  BY <1>3, <1>4, <1>7 DEF U, D

(* One more or one less in a finite set. *)
LEMMA Resized ==
    ASSUME NEW S, IsFiniteSet(S), NEW m
    PROVE  /\ Cardinality(S) \in Nat
           /\ IsFiniteSet(S \cup {m}) /\ IsFiniteSet(S \ {m})
           /\ Cardinality(S \cup {m}) \in Nat /\ Cardinality(S \ {m}) \in Nat
           /\ Cardinality(S \cup {m}) <= Cardinality(S) + 1
           /\ m \notin S => Cardinality(S \cup {m}) = Cardinality(S) + 1
           /\ Cardinality(S) <= Cardinality(S \ {m}) + 1
           /\ Cardinality(S \ {m}) <= Cardinality(S)
           /\ m \in S => Cardinality(S) = Cardinality(S \ {m}) + 1
<1>1. IsFiniteSet(S \cup {m}) /\ IsFiniteSet(S \ {m})
  BY FS_AddElement, FS_RemoveElement
<1>2. Cardinality(S) \in Nat /\ Cardinality(S \cup {m}) \in Nat /\ Cardinality(S \ {m}) \in Nat
  BY <1>1, FS_CardinalityType
<1>3. Cardinality(S \cup {m}) = IF m \in S THEN Cardinality(S) ELSE Cardinality(S) + 1
  BY FS_AddElement
<1>4. Cardinality(S \ {m}) = IF m \in S THEN Cardinality(S) - 1 ELSE Cardinality(S)
  BY FS_RemoveElement
<1> QED  BY <1>1, <1>2, <1>3, <1>4

(* What the parts of NotificationInv say of one alert. *)
ReportedAt(f) ==
    /\ Delivered(f) # {} => accepted[f] > 0
    /\ alert[f].state = "open" => accepted[f] > 0 \/ Unposted(f) # {} \/ faults > 0
    /\ alert[f].state = "open" /\ alert[f].told = "once" => accepted[f] > 0 \/ late[f]

CountedAt(f) ==
    /\ ~shared[f] => \A m, n \in Unposted(f) \cup Delivered(f) : m = n
    /\ IF alert[f] = [state |-> "open", told |-> "never"]
       THEN accepted[f] <= faults + Cardinality(Delivered(f))
       ELSE accepted[f] + Cardinality(Unposted(f)) <= faults + Allowed(f)

LEMMA Parts ==
    /\ Reported <=> \A f \in Conditions : ReportedAt(f)
    /\ Counted <=> \A f \in Conditions : CountedAt(f)
BY DEF Reported, ReportedAt, Counted, CountedAt

(* What an episode may still come to, once it is marked or over.           *)
LEMMA Closing ==
    ASSUME TypeOK, Counted, NEW f \in Conditions
    PROVE  accepted[f] + Cardinality(Unposted(f)) <= faults + Allowed(f)
<1>1. /\ Cardinality(Unposted(f)) \in Nat /\ Cardinality(Delivered(f)) \in Nat
      /\ Allowed(f) \in Nat
      /\ Cardinality(Unposted(f)) + Cardinality(Delivered(f)) <= Allowed(f)
  BY Holders
<1>2. accepted[f] \in Nat /\ faults \in Nat
  BY DEF TypeOK
<1>3. \/ accepted[f] <= faults + Cardinality(Delivered(f))
      \/ accepted[f] + Cardinality(Unposted(f)) <= faults + Allowed(f)
  BY DEF Counted
<1> QED  BY <1>1, <1>2, <1>3

(* A step that leaves the row, the deliveries and the passes of an alert.  *)
LEMMA SameAt ==
    ASSUME NEW f \in Conditions, ReportedAt(f), CountedAt(f),
           alert'[f] = alert[f], accepted'[f] = accepted[f], late'[f] = late[f],
           shared'[f] = shared[f], faults' = faults,
           Unposted(f)' = Unposted(f), Delivered(f)' = Delivered(f)
    PROVE  ReportedAt(f)' /\ CountedAt(f)'
BY DEF ReportedAt, CountedAt, Allowed

(* A pass has nothing to post before observe_alerts.                        *)
LEMMA CollectKeeps ==
    ASSUME TypeOK, NotificationInv, NEW m \in Monitors, Collect(m)
    PROVE  NotificationInv'
<1>1. /\ \A n \in Monitors : n # m => monitor'[n] = monitor[n]
      /\ monitor[m].pc = "idle" /\ monitor'[m].pc = "collected"
      /\ monitor'[m].pending = {} /\ monitor'[m].stale = {}
  BY DEF TypeOK, Collect, At, NoPass
<1>2. PassShape'
  BY <1>1 DEF NotificationInv, PassShape
<1>3. \A f \in Conditions : Unposted(f)' = Unposted(f) /\ Delivered(f)' = Delivered(f)
  BY <1>1 DEF Unposted, Delivered, Current, At
<1>4. UNCHANGED <<alert, accepted, late, shared, faults>>
  BY DEF Collect, history
<1>5. Reported' /\ Counted'
  BY <1>3, <1>4, SameAt, Parts DEF NotificationInv, ReportedAt, CountedAt, Allowed, Reported, Counted
<1> QED  BY <1>2, <1>5 DEF NotificationInv

(* observe_alerts ends the episodes of the other passes whose alert it     *)
(* opens, and takes up every alert it finds unmarked.                      *)
LEMMA ObservePasses ==
    ASSUME TypeOK, PassShape, NEW m \in Monitors, Observe(m)
    PROVE  /\ PassShape'
           /\ \A f \in Conditions :
                /\ m \notin Unposted(f) /\ m \notin Delivered(f)
                /\ Delivered(f)' = IF f \in Opens(monitor[m].seen) THEN {} ELSE Delivered(f)
                /\ Unposted(f)' = (IF f \in Opens(monitor[m].seen) THEN {} ELSE Unposted(f))
                                    \cup (IF f \in Pending(monitor[m].seen) THEN {m} ELSE {})
<1> DEFINE seen == monitor[m].seen
           new == monitor'[m]
<1>1. monitor[m].pc = "collected" /\ monitor[m].pending = {}
  BY DEF Observe, At, PassShape
<1>2. /\ new.pending = Pending(seen) /\ new.stale = {}
      /\ new.pc = IF Pending(seen) = {} THEN "idle" ELSE "observed"
  BY DEF Observe, TypeOK, NoPass
<1>3. ASSUME NEW n \in Monitors, n # m
      PROVE  /\ monitor'[n].pc = monitor[n].pc /\ monitor'[n].pending = monitor[n].pending
             /\ monitor'[n].stale = monitor[n].stale \cup (monitor[n].pending \cap Opens(seen))
  <2> DEFINE u == IF monitor[n].pc = "collected" /\ monitor[n].seen \cap seen = {}
                  THEN monitor[n].unseen \cup Opens(seen) ELSE monitor[n].unseen
             t == monitor[n].stale \cup (monitor[n].pending \cap Opens(seen))
  <2>1. monitor'[n] = [monitor[n] EXCEPT !.stale = t, !.unseen = u]
    BY <1>3 DEF Observe, Overtaken
  <2>2. monitor[n] \in Passes
    BY DEF TypeOK
  <2> HIDE DEF u, t
  <2>3. /\ monitor'[n].pc = monitor[n].pc /\ monitor'[n].pending = monitor[n].pending
        /\ monitor'[n].stale = t
    BY <2>1, <2>2 DEF Passes
  <2> QED  BY <2>3 DEF t
<1> HIDE DEF seen, new
<1>4. PassShape'
  <2> SUFFICES ASSUME NEW n \in Monitors
               PROVE  /\ monitor'[n].stale \subseteq monitor'[n].pending
                      /\ monitor'[n].pending # {} => monitor'[n].pc \in {"observed", "posted"}
    BY DEF PassShape
  <2>1. CASE n = m
    BY <1>2, <2>1 DEF new
  <2>2. CASE n # m
    BY <1>3, <2>2 DEF PassShape
  <2> QED  BY <2>1, <2>2
<1>5. ASSUME NEW f \in Conditions
      PROVE  /\ m \notin Unposted(f) /\ m \notin Delivered(f)
             /\ Delivered(f)' = IF f \in Opens(seen) THEN {} ELSE Delivered(f)
             /\ Unposted(f)' = (IF f \in Opens(seen) THEN {} ELSE Unposted(f))
                                 \cup (IF f \in Pending(seen) THEN {m} ELSE {})
  <2>1. m \notin Unposted(f) /\ m \notin Delivered(f)
    BY <1>1 DEF Unposted, Delivered, At
  <2>2. \A n \in Monitors : n # m =>
          /\ n \in Delivered(f)' <=> n \in Delivered(f) /\ f \notin Opens(seen)
          /\ n \in Unposted(f)' <=> n \in Unposted(f) /\ f \notin Opens(seen)
    BY <1>3 DEF Unposted, Delivered, At, Current
  <2>3. m \notin Delivered(f)' /\ (m \in Unposted(f)' <=> f \in Pending(seen))
    BY <1>2 DEF Unposted, Delivered, At, Current, new
  <2>4. Delivered(f)' \subseteq Monitors /\ Unposted(f)' \subseteq Monitors
    BY DEF Unposted, Delivered
  <2>5. Delivered(f) \subseteq Monitors /\ Unposted(f) \subseteq Monitors
    BY DEF Unposted, Delivered
  <2> QED  BY <2>1, <2>2, <2>3, <2>4, <2>5
<1> QED  BY <1>4, <1>5 DEF seen

LEMMA ObserveKeeps ==
    ASSUME TypeOK, NotificationInv, NEW m \in Monitors, Observe(m)
    PROVE  NotificationInv'
<1> DEFINE seen == monitor[m].seen
<1>0. PassShape /\ Counted /\ seen \subseteq Conditions
  BY DEF NotificationInv, TypeOK, Passes
<1>1. /\ PassShape'
      /\ \A f \in Conditions :
           /\ m \notin Unposted(f) /\ m \notin Delivered(f)
           /\ Delivered(f)' = IF f \in Opens(seen) THEN {} ELSE Delivered(f)
           /\ Unposted(f)' = (IF f \in Opens(seen) THEN {} ELSE Unposted(f))
                               \cup (IF f \in Pending(seen) THEN {m} ELSE {})
  BY <1>0, ObservePasses
<1>2. PICK missed : alert' = Observed(seen, missed)
  BY DEF Observe
<1>3. ASSUME NEW f \in Conditions
      PROVE  /\ alert'[f] = IF f \in seen THEN Opened(alert[f])
                            ELSE IF f \in missed THEN alert[f] ELSE Resolved(alert[f])
             /\ accepted'[f] = IF f \in Opens(seen) THEN 0 ELSE accepted[f]
             /\ late'[f] = (f \notin Opens(seen) /\ late[f])
             /\ shared'[f] = (/\ f \notin Opens(seen)
                              /\ \/ shared[f]
                                 \/ f \in Pending(seen) /\ Unposted(f) \cup Delivered(f) # {})
             /\ faults' = faults /\ faults \in Nat /\ accepted[f] \in Nat
             /\ alert[f] \in AlertRows /\ late[f] \in BOOLEAN /\ shared[f] \in BOOLEAN
  BY <1>2 DEF TypeOK, Observe, Observed
<1>4. ASSUME NEW f \in Conditions
      PROVE  ReportedAt(f)' /\ CountedAt(f)'
  <2> USE <1>3, <1>4
  <2>0. ReportedAt(f) /\ CountedAt(f)
    BY Parts DEF NotificationInv
  <2>1. CASE f \in Opens(seen)
    <3>1. f \in Pending(seen) /\ alert'[f] = [state |-> "open", told |-> "never"]
      BY <2>1 DEF Opens, Opened, Pending
    <3>2. Unposted(f)' = {m} /\ Delivered(f)' = {} /\ accepted'[f] = 0
      BY <1>1, <2>1, <3>1
    <3>3. Cardinality(Delivered(f)') = 0
      BY <3>2, FS_EmptySet
    <3>4. ReportedAt(f)'
      BY <3>1, <3>2 DEF ReportedAt
    <3>5. accepted'[f] <= faults' + Cardinality(Delivered(f)')
      <4>1. accepted'[f] = 0 /\ faults' \in Nat
        BY <3>2, <1>3
      <4>2. \A i \in Nat : 0 <= i + 0
        OBVIOUS
      <4> QED  BY <3>3, <4>1, <4>2
    <3>6. \A p, n \in Unposted(f)' \cup Delivered(f)' : p = n
      BY <3>2
    <3> QED  BY <3>1, <3>4, <3>5, <3>6 DEF CountedAt
  <2>2. CASE f \notin Opens(seen) /\ f \in Pending(seen)
    <3>1. alert[f] = [state |-> "open", told |-> "never"] /\ alert'[f] = alert[f]
      BY <2>2 DEF Opens, Opened, Pending, AlertRows
    <3>2. Unposted(f)' = Unposted(f) \cup {m} /\ Delivered(f)' = Delivered(f)
      BY <1>1, <2>2
    <3>3. accepted'[f] = accepted[f] /\ late'[f] = late[f]
      BY <2>2
    <3>4. ReportedAt(f)'
      BY <2>0, <3>1, <3>2, <3>3 DEF ReportedAt
    <3>5. accepted'[f] <= faults' + Cardinality(Delivered(f)')
      BY <2>0, <3>1, <3>2, <3>3 DEF CountedAt
    <3>6. ~shared'[f] => \A p, n \in Unposted(f)' \cup Delivered(f)' : p = n
      BY <2>2, <3>2
    <3> QED  BY <3>1, <3>4, <3>5, <3>6 DEF CountedAt
  <2>3. CASE f \notin Pending(seen)
    <3>1. f \notin Opens(seen)
      BY <2>3 DEF Opens, Opened, Pending
    <3>2. Unposted(f)' = Unposted(f) /\ Delivered(f)' = Delivered(f)
      BY <1>1, <2>3, <3>1
    <3>3. accepted'[f] = accepted[f] /\ late'[f] = late[f] /\ shared'[f] = shared[f]
      BY <2>3, <3>1
    <3>4. CASE alert'[f] = alert[f]
      BY <2>0, <3>2, <3>3, <3>4, SameAt
    <3>5. CASE alert'[f] # alert[f]
      <4>1. alert'[f].state = "resolved"
        BY <3>1, <3>5 DEF Opens, Opened, Resolved, AlertRows
      <4>2. ReportedAt(f)'
        BY <2>0, <3>2, <3>3, <4>1 DEF ReportedAt
      <4>3. /\ Cardinality(Unposted(f)) \in Nat /\ Cardinality(Delivered(f)) \in Nat
            /\ Allowed(f) \in Nat
            /\ Cardinality(Unposted(f)) + Cardinality(Delivered(f)) <= Allowed(f)
        BY <1>0, Holders
      <4>4. accepted[f] + Cardinality(Unposted(f)) <= faults + Allowed(f)
        BY <1>0, <1>3, Closing
      <4>5. alert'[f] # [state |-> "open", told |-> "never"] /\ Allowed(f)' = Allowed(f)
        BY <3>3, <4>1 DEF Allowed
      <4> QED  BY <2>0, <3>2, <3>3, <4>2, <4>4, <4>5 DEF CountedAt
    <3> QED  BY <3>4, <3>5
  <2>4. f \notin Pending(seen) => f \notin Opens(seen)
    BY DEF Opens, Opened, Pending
  <2> QED  BY <2>1, <2>2, <2>3, <2>4
<1>5. Reported' /\ Counted'
  BY <1>4 DEF Reported, Counted, ReportedAt, CountedAt
<1> QED  BY <1>1, <1>5 DEF NotificationInv

(* How the other steps of a pass change who holds an alert.                *)
LEMMA PassEnds ==
    ASSUME TypeOK, PassShape, NEW m \in Monitors, EndPass(m)
    PROVE  /\ PassShape'
           /\ \A f \in Conditions :
                /\ Unposted(f)' = Unposted(f) \ {m}
                /\ Delivered(f)' = Delivered(f) \ {m}
<1>1. monitor'[m] = NoPass /\ \A n \in Monitors : n # m => monitor'[n] = monitor[n]
  BY DEF TypeOK, EndPass
<1>2. PassShape'
  BY <1>1 DEF PassShape, NoPass
<1>3. ASSUME NEW f \in Conditions
      PROVE  Unposted(f)' = Unposted(f) \ {m} /\ Delivered(f)' = Delivered(f) \ {m}
  <2>1. m \notin Unposted(f)' /\ m \notin Delivered(f)'
    BY <1>1 DEF Unposted, Delivered, At, NoPass
  <2>2. \A n \in Monitors : n # m =>
          /\ n \in Unposted(f)' <=> n \in Unposted(f)
          /\ n \in Delivered(f)' <=> n \in Delivered(f)
    BY <1>1 DEF Unposted, Delivered, At, Current
  <2>3. /\ Unposted(f)' \subseteq Monitors /\ Unposted(f) \subseteq Monitors
        /\ Delivered(f)' \subseteq Monitors /\ Delivered(f) \subseteq Monitors
    BY DEF Unposted, Delivered
  <2> QED  BY <2>1, <2>2, <2>3
<1> QED  BY <1>2, <1>3

LEMMA PassPosts ==
    ASSUME TypeOK, PassShape, NEW m \in Monitors, Post(m)
    PROVE  /\ PassShape'
           /\ \A f \in Conditions :
                /\ Unposted(f)' = Unposted(f) \ {m}
                /\ Delivered(f)' = IF Current(m, f) THEN Delivered(f) \cup {m} ELSE Delivered(f)
<1>1. /\ monitor[m].pc = "observed" /\ monitor'[m] = [monitor[m] EXCEPT !.pc = "posted"]
      /\ monitor[m] \in Passes /\ \A n \in Monitors : n # m => monitor'[n] = monitor[n]
  BY DEF TypeOK, Post, At
<1>2. /\ monitor'[m].pc = "posted" /\ monitor'[m].pending = monitor[m].pending
      /\ monitor'[m].stale = monitor[m].stale
  BY <1>1 DEF Passes
<1>3. PassShape'
  BY <1>1, <1>2 DEF PassShape
<1>4. ASSUME NEW f \in Conditions
      PROVE  /\ Unposted(f)' = Unposted(f) \ {m}
             /\ Delivered(f)' = IF Current(m, f) THEN Delivered(f) \cup {m} ELSE Delivered(f)
  <2>1. m \notin Unposted(f)' /\ m \notin Delivered(f) /\ (m \in Delivered(f)' <=> Current(m, f))
    BY <1>1, <1>2 DEF Unposted, Delivered, At, Current
  <2>2. \A n \in Monitors : n # m =>
          /\ n \in Unposted(f)' <=> n \in Unposted(f)
          /\ n \in Delivered(f)' <=> n \in Delivered(f)
    BY <1>1 DEF Unposted, Delivered, At, Current
  <2>3. /\ Unposted(f)' \subseteq Monitors /\ Unposted(f) \subseteq Monitors
        /\ Delivered(f)' \subseteq Monitors /\ Delivered(f) \subseteq Monitors
    BY DEF Unposted, Delivered
  <2> QED  BY <2>1, <2>2, <2>3
<1> QED  BY <1>3, <1>4

(* An accepted post is one more delivery, and one pass less to come.        *)
LEMMA PostKeeps ==
    ASSUME TypeOK, NotificationInv, NEW m \in Monitors, Post(m)
    PROVE  NotificationInv'
<1>0. PassShape /\ Counted
  BY DEF NotificationInv
<1>1. /\ PassShape'
      /\ \A f \in Conditions :
           /\ Unposted(f)' = Unposted(f) \ {m}
           /\ Delivered(f)' = IF Current(m, f) THEN Delivered(f) \cup {m} ELSE Delivered(f)
  BY <1>0, PassPosts
<1>2. ASSUME NEW f \in Conditions
      PROVE  ReportedAt(f)' /\ CountedAt(f)'
  <2>0. ReportedAt(f) /\ CountedAt(f)
    BY Parts DEF NotificationInv
  <2>1. /\ alert'[f] = alert[f] /\ late'[f] = late[f] /\ shared'[f] = shared[f]
        /\ faults' = faults /\ faults \in Nat /\ accepted[f] \in Nat
        /\ accepted'[f] = IF Current(m, f) THEN accepted[f] + 1 ELSE accepted[f]
    BY DEF Post, Receive, TypeOK
  <2>2. CASE ~Current(m, f)
    <3>1. m \notin Unposted(f)
      BY <2>2 DEF Unposted
    <3>2. Unposted(f)' = Unposted(f) /\ Delivered(f)' = Delivered(f)
      BY <1>1, <2>2, <3>1
    <3> QED  BY <2>0, <2>1, <2>2, <3>2, SameAt
  <2>3. CASE Current(m, f)
    <3>1. /\ Unposted(f)' = Unposted(f) \ {m} /\ Delivered(f)' = Delivered(f) \cup {m}
          /\ m \in Unposted(f) /\ m \notin Delivered(f)
      BY <1>1, <2>3 DEF Unposted, Delivered, Post, At
    <3>2. accepted'[f] = accepted[f] + 1
      BY <2>1, <2>3
    <3>3. ReportedAt(f)'
      BY <2>1, <3>2 DEF ReportedAt
    <3>4. /\ IsFiniteSet(Unposted(f)) /\ IsFiniteSet(Delivered(f)) /\ Allowed(f) \in Nat
      BY <1>0, Holders
    <3>5. /\ Cardinality(Unposted(f)) = Cardinality(Unposted(f)') + 1
          /\ Cardinality(Delivered(f)') = Cardinality(Delivered(f)) + 1
          /\ Cardinality(Unposted(f)') \in Nat /\ Cardinality(Delivered(f)) \in Nat
      BY <3>1, <3>4, Resized
    <3>6. ~shared'[f] => \A p, n \in Unposted(f)' \cup Delivered(f)' : p = n
      BY <2>0, <2>1, <3>1 DEF CountedAt
    <3>7. CASE alert[f] = [state |-> "open", told |-> "never"]
      <4>1. accepted[f] <= faults + Cardinality(Delivered(f))
        BY <2>0, <3>7 DEF CountedAt
      <4>2. accepted'[f] <= faults' + Cardinality(Delivered(f)')
        BY <2>1, <3>2, <3>5, <4>1
      <4> QED  BY <2>1, <3>3, <3>6, <3>7, <4>2 DEF CountedAt
    <3>8. CASE alert[f] # [state |-> "open", told |-> "never"]
      <4>1. accepted[f] + Cardinality(Unposted(f)) <= faults + Allowed(f)
        BY <2>0, <3>8 DEF CountedAt
      <4>2. accepted'[f] + Cardinality(Unposted(f)') <= faults' + Allowed(f)
        BY <2>1, <3>2, <3>4, <3>5, <4>1
      <4>3. Allowed(f)' = Allowed(f)
        BY <2>1 DEF Allowed
      <4> QED  BY <2>1, <3>3, <3>6, <3>8, <4>2, <4>3 DEF CountedAt
    <3> QED  BY <3>7, <3>8
  <2> QED  BY <2>2, <2>3
<1>3. Reported' /\ Counted'
  BY <1>2 DEF Reported, Counted, ReportedAt, CountedAt
<1> QED  BY <1>1, <1>3 DEF NotificationInv

(* A mark is of what the pass posted in the newest episode, or it is late.  *)
LEMMA MarkKeeps ==
    ASSUME TypeOK, NotificationInv, NEW m \in Monitors, Mark(m)
    PROVE  NotificationInv'
<1>0. PassShape /\ Counted /\ At(m, "posted")
  BY DEF NotificationInv, Mark
<1>1. /\ PassShape'
      /\ \A f \in Conditions : /\ Unposted(f)' = Unposted(f) \ {m}
                               /\ Delivered(f)' = Delivered(f) \ {m}
  BY <1>0, PassEnds DEF Mark
<1>2. ASSUME NEW f \in Conditions
      PROVE  ReportedAt(f)' /\ CountedAt(f)'
  <2>0. ReportedAt(f) /\ CountedAt(f)
    BY Parts DEF NotificationInv
  <2>1. /\ accepted'[f] = accepted[f] /\ shared'[f] = shared[f]
        /\ faults' = faults /\ faults \in Nat /\ accepted[f] \in Nat
        /\ late'[f] = (late[f] \/ (f \in monitor[m].stale /\ alert[f].state = "open"))
        /\ alert[f] \in AlertRows
    BY DEF Mark, Marked, TypeOK
  <2>2. /\ Unposted(f)' = Unposted(f)
        /\ Delivered(f)' = IF Current(m, f) THEN Delivered(f) \ {m} ELSE Delivered(f)
    BY <1>0, <1>1 DEF Unposted, Delivered, At
  <2>3. ~shared'[f] => \A p, n \in Unposted(f)' \cup Delivered(f)' : p = n
    BY <2>0, <2>1, <2>2 DEF CountedAt
  <2>4. Allowed(f)' = Allowed(f)
    BY <2>1 DEF Allowed
  <2>5. CASE f \in monitor[m].pending /\ alert[f].state = "open"
    <3>1. alert'[f].state = "open" /\ alert'[f].told = "once"
      BY <2>1, <2>5 DEF Mark, Marked, AlertRows
    <3>2. Current(m, f) => accepted[f] > 0
      BY <1>0, <2>0 DEF ReportedAt, Delivered
    <3>3. ~Current(m, f) => late'[f]
      BY <2>1, <2>5 DEF Current
    <3>4. ReportedAt(f)'
      BY <2>0, <2>1, <2>2, <2>5, <3>1, <3>2, <3>3 DEF ReportedAt
    <3>5. accepted[f] + Cardinality(Unposted(f)) <= faults + Allowed(f)
      BY <1>0, Closing
    <3>6. alert'[f] # [state |-> "open", told |-> "never"]
      BY <3>1
    <3> QED  BY <2>1, <2>2, <2>3, <2>4, <3>4, <3>5, <3>6 DEF CountedAt
  <2>6. CASE ~(f \in monitor[m].pending /\ alert[f].state = "open")
    <3>1. alert'[f] = alert[f]
      BY <2>6 DEF Mark, Marked, TypeOK
    <3>2. late'[f] = late[f]
      BY <1>0, <2>1, <2>6 DEF PassShape, TypeOK
    <3>3. ReportedAt(f)'
      BY <2>0, <2>1, <2>2, <3>1, <3>2 DEF ReportedAt
    <3>4. CASE f \in monitor[m].pending
      <4>1. alert'[f] # [state |-> "open", told |-> "never"]
        BY <2>6, <3>1, <3>4
      <4>2. accepted[f] + Cardinality(Unposted(f)) <= faults + Allowed(f)
        BY <1>0, Closing
      <4> QED  BY <2>1, <2>2, <2>3, <2>4, <3>3, <4>1, <4>2 DEF CountedAt
    <3>5. CASE f \notin monitor[m].pending
      <4>1. Delivered(f)' = Delivered(f)
        BY <2>2, <3>5 DEF Current
      <4> QED  BY <2>0, <2>1, <2>2, <3>1, <3>2, <4>1, SameAt
    <3> QED  BY <3>4, <3>5
  <2> QED  BY <2>5, <2>6
<1>3. Reported' /\ Counted'
  BY <1>2 DEF Reported, Counted, ReportedAt, CountedAt
<1> QED  BY <1>1, <1>3 DEF NotificationInv

(* A pass that ends early leaves the rows; what it had delivered, or did not *)
(* deliver, is accounted for by the fault that ended it.                    *)
LEMMA BreakOffKeeps ==
    ASSUME TypeOK, NotificationInv, NEW m \in Monitors, LoseAnswer(m) \/ BreakOff(m)
    PROVE  NotificationInv'
<1>0. PassShape /\ Counted
  BY DEF NotificationInv
<1>1. /\ PassShape'
      /\ \A f \in Conditions : /\ Unposted(f)' = Unposted(f) \ {m}
                               /\ Delivered(f)' = Delivered(f) \ {m}
  BY <1>0, PassEnds DEF LoseAnswer, BreakOff
<1>2. ASSUME NEW f \in Conditions
      PROVE  ReportedAt(f)' /\ CountedAt(f)'
  <2>0. ReportedAt(f) /\ CountedAt(f)
    BY Parts DEF NotificationInv
  <2>1. /\ alert'[f] = alert[f] /\ late'[f] = late[f] /\ shared'[f] = shared[f]
        /\ faults' = faults + 1 /\ faults \in Nat /\ accepted[f] \in Nat
    BY DEF LoseAnswer, BreakOff, Fault, history, TypeOK
  <2>2. /\ accepted'[f] \in Nat /\ accepted[f] <= accepted'[f]
        /\ \/ accepted'[f] = accepted[f]
           \/ /\ accepted'[f] = accepted[f] + 1
              /\ m \in Unposted(f) /\ m \notin Delivered(f)
    <3>1. BreakOff(m) => accepted'[f] = accepted[f]
      BY DEF BreakOff, history
    <3>2. LoseAnswer(m) => \/ accepted'[f] = accepted[f]
                           \/ /\ accepted'[f] = accepted[f] + 1
                              /\ m \in Unposted(f) /\ m \notin Delivered(f)
      BY DEF LoseAnswer, Receive, Unposted, Delivered, At
    <3> QED  BY <2>1, <3>1, <3>2
  <2>3. /\ Unposted(f)' = Unposted(f) \ {m} /\ Delivered(f)' = Delivered(f) \ {m}
    BY <1>1
  <2>4. ReportedAt(f)'
    BY <2>0, <2>1, <2>2, <2>3 DEF ReportedAt
  <2>5. ~shared'[f] => \A p, n \in Unposted(f)' \cup Delivered(f)' : p = n
    BY <2>0, <2>1, <2>3 DEF CountedAt
  <2>6. IsFiniteSet(Unposted(f)) /\ IsFiniteSet(Delivered(f)) /\ Allowed(f) \in Nat
    BY <1>0, Holders
  <2>7. /\ Cardinality(Unposted(f)) \in Nat /\ Cardinality(Delivered(f)) \in Nat
        /\ Cardinality(Unposted(f)') \in Nat /\ Cardinality(Delivered(f)') \in Nat
        /\ Cardinality(Unposted(f)') <= Cardinality(Unposted(f))
        /\ Cardinality(Delivered(f)) <= Cardinality(Delivered(f)') + 1
    BY <2>3, <2>6, Resized
  <2>8. m \notin Delivered(f) => Delivered(f)' = Delivered(f)
    BY <2>3
  <2>9. CASE alert[f] = [state |-> "open", told |-> "never"]
    <3>1. accepted[f] <= faults + Cardinality(Delivered(f))
      BY <2>0, <2>9 DEF CountedAt
    <3>2. accepted'[f] <= faults' + Cardinality(Delivered(f)')
      <4>1. CASE accepted'[f] = accepted[f]
        BY <2>1, <2>7, <3>1, <4>1
      <4>2. CASE accepted'[f] = accepted[f] + 1 /\ Delivered(f)' = Delivered(f)
        BY <2>1, <2>7, <3>1, <4>2
      <4> QED  BY <2>2, <2>8, <4>1, <4>2
    <3> QED  BY <2>1, <2>4, <2>5, <2>9, <3>2 DEF CountedAt
  <2>10. CASE alert[f] # [state |-> "open", told |-> "never"]
    <3>1. accepted[f] + Cardinality(Unposted(f)) <= faults + Allowed(f)
      BY <2>0, <2>10 DEF CountedAt
    <3>2. accepted'[f] + Cardinality(Unposted(f)') <= faults' + Allowed(f)
      BY <2>1, <2>2, <2>6, <2>7, <3>1
    <3>3. Allowed(f)' = Allowed(f)
      BY <2>1 DEF Allowed
    <3> QED  BY <2>1, <2>4, <2>5, <2>10, <3>2, <3>3 DEF CountedAt
  <2> QED  BY <2>9, <2>10
<1>3. Reported' /\ Counted'
  BY <1>2 DEF Reported, Counted, ReportedAt, CountedAt
<1> QED  BY <1>1, <1>3 DEF NotificationInv

LEMMA StillKeeps ==
    ASSUME NotificationInv, UNCHANGED <<alert, history, monitor, faults>>
    PROVE  NotificationInv'
BY DEF NotificationInv, PassShape, Reported, Counted, Unposted, Delivered, Current, At,
       Allowed, history

(* The strengthening holds: what is posted, marked and still to come of an *)
(* episode add up, whatever passes overlap.                                *)
THEOREM Notification == Spec => []NotificationInv
<1>1. Init => NotificationInv
  <2> SUFFICES ASSUME Init PROVE NotificationInv
    OBVIOUS
  <2>1. \A m \in Monitors : /\ monitor[m].pc = "idle"
                            /\ monitor[m].pending = {} /\ monitor[m].stale = {}
    BY DEF Init, NoPass
  <2>2. \A f \in Conditions : /\ alert[f].state = "none" /\ accepted[f] = 0 /\ faults = 0
                              /\ shared[f] = FALSE
    BY DEF Init, NoAlert
  <2>3. \A f \in Conditions : Unposted(f) = {} /\ Delivered(f) = {}
    BY <2>1 DEF Unposted, Delivered, At
  <2>4. \A f \in Conditions : Allowed(f) = 1
    BY <2>2 DEF Allowed
  <2>5. PassShape
    BY <2>1 DEF PassShape
  <2>6. Reported
    BY <2>2, <2>3 DEF Reported
  <2>7. Counted
    <3> SUFFICES ASSUME NEW f \in Conditions
                 PROVE  /\ alert[f] # [state |-> "open", told |-> "never"]
                        /\ accepted[f] + Cardinality(Unposted(f)) <= faults + Allowed(f)
      BY <2>3 DEF Counted
    <3>1. Cardinality(Unposted(f)) = 0
      BY <2>3, FS_EmptySet
    <3> QED  BY <2>2, <2>4, <3>1
  <2> QED  BY <2>5, <2>6, <2>7 DEF NotificationInv
<1>2. TypeOK /\ NotificationInv /\ [Next]_vars => NotificationInv'
  <2> SUFFICES ASSUME TypeOK, NotificationInv, [Next]_vars PROVE NotificationInv'
    OBVIOUS
  <2>1. CASE UNCHANGED vars
    BY <2>1, StillKeeps DEF vars, history
  <2>2. ASSUME NEW m \in Monitors, Pass(m) \/ LoseAnswer(m) \/ BreakOff(m)
        PROVE  NotificationInv'
    BY <2>2, CollectKeeps, ObserveKeeps, PostKeeps, MarkKeeps, BreakOffKeeps DEF Pass, Proceed
  <2>3. ASSUME NEW f \in Conditions, Change(f)
        PROVE  NotificationInv'
    BY <2>3, StillKeeps DEF Change
  <2> QED  BY <2>1, <2>2, <2>3 DEF Next
<1> QED  BY <1>1, <1>2, Typing, PTL DEF Spec

(* No open alert is marked without a delivery in its own episode, unless an *)
(* overlapping pass marked it; that costs the notification only together    *)
(* with a fault of the pass that was to post it.                            *)
THEOREM Marking == Spec => []MarkedWasPosted
<1>1. NotificationInv => MarkedWasPosted
  BY DEF NotificationInv, Reported, MarkedWasPosted
<1> QED  BY <1>1, Notification, PTL

(* With one pass at a time no mark is late: an open alert that is marked was *)
(* posted in its own episode.                                               *)
THEOREM OnePassMarks ==
    ASSUME \A m, n \in Monitors : m = n
    PROVE  Spec => [](\A f \in Conditions : ~late[f] /\ ~shared[f])
<1> DEFINE Alone == /\ \A f \in Conditions : ~late[f] /\ ~shared[f]
                    /\ \A m \in Monitors : monitor[m].stale = {}
                    /\ \A m \in Monitors : monitor[m].pc = "collected" => monitor[m].pending = {}
<1>1. Init => Alone
  BY DEF Init, NoPass
<1>2. TypeOK /\ Alone /\ [Next]_vars => Alone'
  <2> SUFFICES ASSUME TypeOK, Alone, [Next]_vars PROVE Alone'
    OBVIOUS
  <2>1. CASE UNCHANGED vars
    BY <2>1 DEF vars
  <2>2. ASSUME NEW m \in Monitors, Collect(m) PROVE Alone'
    BY <2>2 DEF Collect, NoPass, history, TypeOK
  <2>3. ASSUME NEW m \in Monitors, Observe(m) PROVE Alone'
    <3>1. \A f \in Conditions : Unposted(f) = {} /\ Delivered(f) = {}
      BY <2>3 DEF Observe, Unposted, Delivered, At
    <3>2. monitor'[m].stale = {} /\ monitor'[m].pc # "collected" /\ \A n \in Monitors : n = m
      BY <2>3 DEF Observe, NoPass, TypeOK
    <3>3. \A f \in Conditions : ~late'[f] /\ ~shared'[f]
      BY <2>3, <3>1 DEF Observe, TypeOK
    <3> QED  BY <3>2, <3>3
  <2>4. ASSUME NEW m \in Monitors, Post(m) PROVE Alone'
    <3>1. monitor'[m] = [monitor[m] EXCEPT !.pc = "posted"] /\ monitor[m] \in Passes
      BY <2>4 DEF Post, TypeOK
    <3>2. monitor'[m].stale = monitor[m].stale /\ monitor'[m].pc = "posted"
      BY <3>1 DEF Passes
    <3> QED  BY <2>4, <3>2 DEF Post
  <2>5. ASSUME NEW m \in Monitors, EndPass(m) PROVE monitor'[m].stale = {} /\ monitor'[m].pc = "idle"
    BY <2>5 DEF EndPass, NoPass, TypeOK
  <2>6. ASSUME NEW m \in Monitors, Mark(m) PROVE Alone'
    BY <2>5, <2>6 DEF Mark, Marked, TypeOK
  <2>7. ASSUME NEW m \in Monitors, LoseAnswer(m) \/ BreakOff(m) PROVE Alone'
    BY <2>5, <2>7 DEF LoseAnswer, BreakOff, history
  <2>8. ASSUME NEW f \in Conditions, Change(f) PROVE Alone'
    BY <2>8 DEF Change, history
  <2> QED  BY <2>1, <2>2, <2>3, <2>4, <2>6, <2>7, <2>8 DEF Next, Pass, Proceed
<1>3. Alone => \A f \in Conditions : ~late[f] /\ ~shared[f]
  OBVIOUS
<1> HIDE DEF Alone
<1> QED  BY <1>1, <1>2, <1>3, Typing, PTL DEF Spec

(* The webhook hears of an episode once, once more for each fault at most,  *)
(* and as often as there are passes only if they overlapped.                *)
THEOREM Repetition == Spec => []RepeatsExplained
<1>1. TypeOK /\ NotificationInv => RepeatsExplained
  <2> SUFFICES ASSUME TypeOK, NotificationInv, NEW f \in Conditions
               PROVE  accepted[f] <= faults + Allowed(f)
    BY DEF RepeatsExplained, Allowed
  <2>1. accepted[f] \in Nat /\ faults \in Nat
    BY DEF TypeOK
  <2>2. Cardinality(Unposted(f)) \in Nat /\ Allowed(f) \in Nat
    BY Holders DEF NotificationInv
  <2>3. accepted[f] + Cardinality(Unposted(f)) <= faults + Allowed(f)
    BY Closing DEF NotificationInv
  <2> QED  BY <2>1, <2>2, <2>3
<1> QED  BY <1>1, Typing, Notification, PTL
=============================================================================

------------------------- MODULE MCSyncPublication -------------------------
(* Small instances of SyncPublication: contents of the commits and limits.  *)
EXTENDS SyncPublication

Case(s, r, key, canonical) ==
  [source |-> s, revision |-> r, key |-> key, canonical |-> canonical]

\* "east" only gains a case; "west" replaces its only case at commit 2
TwoSources == {"east", "west"}
TwoContents ==
  {Case("east", 1, "e1", "apple"), Case("east", 2, "e1", "apple"),
   Case("east", 2, "e2", "berry"),
   Case("west", 1, "w1", "cedar"), Case("west", 2, "w2", "maple")}
OneEach == [w \in TwoSources |-> w]

\* one source: commit 2 edits a case and adds one, commit 3 adds another instead
OneSource == {"east"}
OneEach1 == [w \in OneSource |-> w]
ThreeCommits ==
  {Case("east", 1, "e1", "apple"), Case("east", 2, "e1", "bloom"),
   Case("east", 2, "e3", "elder"),
   Case("east", 3, "e1", "apple"), Case("east", 3, "e2", "berry")}

TwoCommits == {c \in ThreeCommits : c.revision < 3 /\ c.key = "e1"}

NoEvents == [e \in Events |-> 0]
NoLimits == {NoEvents}
SafetyLimits ==
  {[NoEvents EXCEPT !["crash"] = 1, !["reset"] = 1, !["unanswered"] = 1]}
LiveLimits ==
  {[NoEvents EXCEPT !["raise"] = 1, !["review"] = 1, !["operate"] = 1],
   [NoEvents EXCEPT !["review"] = 2]}
CrashLimits == {[NoEvents EXCEPT !["crash"] = 1]}
CrashResetLimits == {[NoEvents EXCEPT !["crash"] = 1, !["reset"] = 1]}
ResetLimits == {[NoEvents EXCEPT !["raise"] = 1, !["reset"] = 1]}

\* the scheduled worker and a manual run-source of the same source
Both == {"worker", "manual"}
OneForBoth == [w \in Both |-> "east"]
=============================================================================

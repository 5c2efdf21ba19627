---------------------------- MODULE MCInventory ----------------------------
(* Inventory for TLC. Three keys of one source: the registered one, another *)
(* strategy for the same commit that finds one of its cases under the same  *)
(* key or none of them, and another commit that shares an image.            *)
EXTENDS Inventory

OneCommit == [k \in Keys |-> IF k = "newer" THEN 2 ELSE 1]
SomeCases == [k \in Keys |-> CASE k = "first" -> {"c1"} [] k = "overlap" -> {"c1", "c2"}
                               [] k = "apart" -> {"c3"} [] k = "newer" -> {"c1"}]
SomeFiles == [k \in Keys |-> IF k = "first" THEN {"data", "i1"} ELSE {"data", "i2"}]
SomeImages == [k \in Keys |-> CASE k = "first" -> {"i1"} [] k = "apart" -> {"i1", "i2"} [] OTHER -> {"i2"}]
AllKeys == {"first", "overlap", "apart", "newer"}
TwoWorkers == {"one", "two"}
SomeCourses == {{"kill", "edit"}, {"unanswered", "edit"}, {"deploy", "unanswered"}, {"raise", "edit"}}
=============================================================================

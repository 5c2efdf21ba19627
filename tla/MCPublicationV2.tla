-------------------------- MODULE MCPublicationV2 --------------------------
(* A small instance of PublicationV2: two sources whose projects were      *)
(* registered in the opposite order, and a case with two images.           *)
EXTENDS PublicationV2, TLC

MCSources == {"east", "west"}
MCProjectId == [s \in MCSources |-> IF s = "east" THEN 2 ELSE 1]
MCMaxRuns == [s \in MCSources |-> IF s = "east" THEN 2 ELSE 1]
MCCases == {"elm"}
MCSourceOf == [c \in MCCases |-> "east"]
MCHolds == [c \in MCCases |-> {1, 2}]
MCShows == [c \in MCCases |-> Assets]
MCBroad == {"case-elm"}
MCCovers == [x \in MCBroad |-> {"elm"}]
Interchangeable == Permutations(Callers) \cup Permutations(BuildKeys) \cup Permutations(Assets)
=============================================================================

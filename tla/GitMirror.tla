------------------------------ MODULE GitMirror ------------------------------
(***************************************************************************)
(* The mirror of one source's repository (ingestion/git_snapshot.py) under  *)
(* several processes: synchronisations that detect the head of the branch, *)
(* prove that it follows what they have, read it in a worktree and keep it,*)
(* and commands that read the registered commit. Each git command is a     *)
(* step. Upstream rewrites its branch and forgets commits, and git collects*)
(* garbage in the mirror. Making the clone is part of Inventory.           *)
(***************************************************************************)
EXTENDS Integers, FiniteSets, SequencesExt

CONSTANTS
  Gits,        \* processes that use the mirror
  Commits,     \* every commit upstream may ever have: 1 .. n
  ParentOf,    \* ParentOf[c]: an earlier commit, or 0
  FixedCommit, \* verified_commit_sha of the registry
  Filtered,    \* commits that declare a submodule or a filter
  MaxMoves     \* BOUND: pushes, rewrites and cleanups upstream

\* a killed process leaves its worktree to nobody
ASSUME MirrorAssumption == FixedCommit \in Commits /\ "left" \notin Gits

VARIABLES
  branch,   \* upstream: head of the default branch
  offered,  \* upstream: commits it still has
  moves,
  tip,      \* mirror: refs/remotes/origin/<default branch>
  stored,   \* mirror: commits in its object database
  kept,     \* mirror: refs/image2-retained/<source>/<commit>
  trees,    \* worktrees: <<process, commit>>, "left" by one that was killed
  inventoried,    \* commits with ready inventory
  git       \* each process: its call in progress, with the heads that upstream
            \* had during a detection, and whether it found one of them

upstream == <<branch, offered, moves>>
mirrored == <<tip, stored, kept>>
gitVars == <<upstream, mirrored, trees, inventoried, git>>

History[c \in Commits \cup {0}] == IF c = 0 THEN {} ELSE {c} \cup History[ParentOf[c]]
Behind(commits) == UNION {History[c] : c \in commits}

NoCall == [pc |-> "idle", todo |-> <<>>, listed |-> 0, candidate |-> 0, previous |-> 0,
           got |-> {}, heads |-> {}, fresh |-> "unknown"]

\* cloned when the registered commit was the head
MirrorInit ==
  /\ branch \in Commits
  /\ offered = History[branch] \cup History[FixedCommit]
  /\ moves = 0
  /\ tip = FixedCommit
  /\ stored = History[FixedCommit]
  /\ kept = {}
  /\ trees = {}
  /\ inventoried = {}
  /\ git = [p \in Gits |-> NoCall]

Running(p, pc) == git[p].pc = pc
Turn(p, pc, todo) == git' = [git EXCEPT ![p] = [@ EXCEPT !.pc = pc, !.todo = todo]]
Leaves(p) == git' = [git EXCEPT ![p] = NoCall]

-----------------------------------------------------------------------------
(* detect_default_branch_candidate: a forced fetch of one branch, then the  *)
(* ref it wrote is read by another command.                                *)

BeginDetect(p) ==
  /\ Running(p, "idle")
  /\ git' = [git EXCEPT ![p] =
       [NoCall EXCEPT !.pc = "listing",
                      !.heads = {branch} \cup {git[q].listed : q \in {x \in Gits : Running(x, "updating")}}]]
  /\ UNCHANGED <<upstream, mirrored, trees, inventoried>>

ListHead(p) ==
  /\ Running(p, "listing")
  /\ git' = [git EXCEPT ![p] = [@ EXCEPT !.pc = "updating", !.listed = branch]]
  /\ UNCHANGED <<upstream, mirrored, trees, inventoried>>

\* mutant: a refspec without a destination, so that only FETCH_HEAD moves
UpdateFetchHead(p) ==
  /\ Running(p, "updating")
  /\ stored' = stored \cup History[git[p].listed]
  /\ git' = [git EXCEPT ![p] = [@ EXCEPT !.pc = "resolving", !.listed = 0,
                                       !.got = git[p].got \cup {git[p].listed}]]
  /\ UNCHANGED <<upstream, tip, kept, trees, inventoried>>
UpdateTip(p) ==
  /\ Running(p, "updating")
  /\ stored' = stored \cup History[git[p].listed]
  /\ tip' = git[p].listed
  /\ git' = [git EXCEPT ![p] = [@ EXCEPT !.pc = "resolving", !.listed = 0,
                                       !.got = git[p].got \cup {git[p].listed}]]
  /\ UNCHANGED <<upstream, kept, trees, inventoried>>

\* run_source compares with the latest ready commit, or with the one an
\* earlier attempt compared with; without any it extracts at once
Resolve(p) ==
  /\ Running(p, "resolving")
  /\ \E previous \in IF inventoried = {} THEN {0} ELSE inventoried :
       git' = [git EXCEPT ![p] =
         IF previous = tip THEN NoCall
         ELSE [@ EXCEPT !.candidate = tip, !.previous = previous, !.heads = {},
                        !.fresh = IF tip \in git[p].heads THEN "yes" ELSE "no",
                        !.pc = IF previous = 0 THEN "extract" ELSE "prove",
                        !.todo = IF previous = 0 THEN <<tip>> ELSE <<tip, previous, tip>>]]
  /\ UNCHANGED <<upstream, mirrored, trees, inventoried>>

\* extract and import_package on the registered commit
BeginFixed(p) ==
  /\ Running(p, "idle")
  /\ git' = [git EXCEPT ![p] =
       [NoCall EXCEPT !.pc = "extract", !.candidate = FixedCommit, !.todo = <<FixedCommit>>]]
  /\ UNCHANGED <<upstream, mirrored, trees, inventoried>>

-----------------------------------------------------------------------------
(* _fetch_exact_commit. git asks upstream only for what is not complete in *)
(* the mirror already.                                                     *)

Complete(c) == History[c] \subseteq stored
Obtainable(c) == Complete(c) \/ c \in offered
FetchExact(p) ==
  /\ git[p].todo # <<>>
  /\ LET c == Head(git[p].todo)
     IN /\ Obtainable(c)
        /\ stored' = stored \cup History[c]
        /\ git' = [git EXCEPT ![p] = [@ EXCEPT !.todo = Tail(git[p].todo),
                                               !.got = git[p].got \cup IF Complete(c) THEN {} ELSE {c}]]
  /\ UNCHANGED <<upstream, tip, kept, trees, inventoried>>
Fetched(p, pc) == Running(p, pc) /\ git[p].todo = <<>>

\* is_fast_forward
Prove(p) ==
  /\ Fetched(p, "prove")
  /\ Complete(git[p].candidate) /\ Complete(git[p].previous)
  /\ IF git[p].previous \in History[git[p].candidate]
     THEN Turn(p, "extract", <<git[p].candidate>>) ELSE Leaves(p)
  /\ UNCHANGED <<upstream, mirrored, trees, inventoried>>

\* _assert_safe_tree
SafeTree(c) == c \notin Filtered
\* fixed_snapshot, for the extraction and again for the import: a detached
\* worktree holds the commit until the call has read it
CheckOut(p) ==
  /\ Fetched(p, "extract") \/ Fetched(p, "import")
  /\ SafeTree(git[p].candidate)
  /\ Complete(git[p].candidate)
  /\ trees' = trees \cup {<<p, git[p].candidate>>}
  /\ Turn(p, IF Running(p, "extract") THEN "extracting" ELSE "importing", <<>>)
  /\ UNCHANGED <<upstream, mirrored, inventoried>>
CleanUp(p) ==
  /\ Running(p, "extracting") \/ Running(p, "importing")
  /\ trees' = trees \ {<<p, git[p].candidate>>}
  /\ IF Running(p, "extracting") THEN Turn(p, "import", <<git[p].candidate>>) /\ UNCHANGED inventoried
     ELSE /\ inventoried' = inventoried \cup {git[p].candidate}
          \* only a synchronisation keeps the commit
          /\ IF git[p].fresh = "unknown" THEN Leaves(p)
             ELSE Turn(p, "keep", <<git[p].candidate>>)
  /\ UNCHANGED <<upstream, mirrored>>

\* retain_candidate_ref, after the same commit was fetched twice: the name of the ref holds the commit, so a ref that is
\* there already is the same
Keep(p) ==
  /\ Fetched(p, "keep")
  /\ Complete(git[p].candidate)
  /\ kept' = kept \cup {git[p].candidate}
  /\ Leaves(p)
  /\ UNCHANGED <<upstream, tip, stored, trees, inventoried>>

\* a command fails: the tree is refused, a commit cannot be had, upstream does
\* not answer, or another process holds the lock of the ref. The finally clause
\* removes the worktree, and a process that is killed does not come to it.
GitFails(p) ==
  /\ ~Running(p, "idle")
  /\ trees' = trees \ {<<p, git[p].candidate>>}
  /\ Leaves(p)
  /\ UNCHANGED <<upstream, mirrored, inventoried>>
KillGit(p) ==
  /\ Running(p, "extracting") \/ Running(p, "importing")
  /\ trees' = (trees \ {<<p, git[p].candidate>>}) \cup {<<"left", git[p].candidate>>}
  /\ Leaves(p)
  /\ UNCHANGED <<upstream, mirrored, inventoried>>

-----------------------------------------------------------------------------
(* git and upstream.                                                       *)

\* refs, worktrees, and what was transferred lately
Anchors == {tip} \cup kept \cup {t[2] : t \in trees} \cup UNION {git[p].got : p \in Gits}
\* a fetch collects garbage when there is much of it
CollectGarbage ==
  /\ stored' = stored \cap Behind(Anchors)
  /\ UNCHANGED <<upstream, tip, kept, trees, inventoried, git>>

\* every detection in progress may see the new head
Move(c, forget) ==
  /\ moves < MaxMoves
  /\ moves' = moves + 1
  /\ branch' = c
  /\ offered' = History[c] \cup IF forget THEN {} ELSE offered
  /\ git' = [p \in Gits |-> IF git[p].heads = {} THEN git[p] ELSE [git[p] EXCEPT !.heads = @ \cup {c}]]
  /\ UNCHANGED <<mirrored, trees, inventoried>>

-----------------------------------------------------------------------------
\* Whatever upstream rewrites or forgets and whichever processes share the
\* mirror: a candidate was the head of the branch during the detection, or is
\* what a detection that was running when this one began had seen; what is read
\* after a proof follows what it was proved against; a worktree has the commit of
\* its call, and no submodule or filter; and a commit that a synchronisation
\* kept stays complete, so that later ones can be proved against it.
EvidenceStays ==
  /\ \A p \in Gits :
       /\ git[p].fresh # "no"
       /\ git[p].pc # "prove" /\ git[p].previous # 0 => git[p].previous \in History[git[p].candidate]
  /\ \A t \in trees : t[2] \notin Filtered /\ Complete(t[2]) /\ (t[1] \in Gits => t[2] = git[t[1]].candidate)
  /\ \A c \in kept : Complete(c) /\ c \in inventoried
=============================================================================

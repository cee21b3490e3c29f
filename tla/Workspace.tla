----------------------------- MODULE Workspace -----------------------------
(***************************************************************************)
(* The workspaces of a project's issues and the way of their branches into *)
(* the base branch: internal/workspace/manager.go, as the loop of the      *)
(* orchestrator calls it (dispatch, reconcile, transitionMergeIssueToDone, *)
(* the cleanup at the start).  The loop makes one call at a time; sessions *)
(* work beside it, those it has cancelled included.                        *)
(*                                                                         *)
(* A branch is the number of its commits, and a base branch says of every  *)
(* issue how much of its branch is in it.  What git and gh do is external: *)
(* every call may also fail and leave things as they were.  People push    *)
(* to the base branch at origin.  There is a remote.                       *)
(***************************************************************************)
EXTENDS Naturals

CONSTANTS
    Issues,
    NoIssue,
    Modes,        \* of "directory", "local" (git_worktree), "github"
    MaxCommits,   \* bound: commits of a branch
    MaxPushes     \* bound: pushes by people

ASSUME WorkspaceAssumption ==
    /\ NoIssue \notin Issues
    /\ Modes \subseteq {"directory", "local", "github"} /\ Modes # {}
    /\ MaxCommits \in Nat /\ MaxPushes \in Nat

Branches == [Issues -> 0..MaxCommits]
Trees == [issues : Branches, people : 0..MaxPushes]
Contains(tree, other) ==
    /\ \A i \in Issues : tree.issues[i] >= other.issues[i]
    /\ tree.people >= other.people

VARIABLES
    mode, cleanup,  \* workspace.mode with github.enabled, cleanup_worktrees
    path,           \* what is at an issue's path
    dirty,          \* the worktree has changes that are not committed
    working,        \* issues whose running entry has a live session
    lingering,      \* issues with a cancelled session that still works
    branch,         \* commits on the issues' branches
    base, origin,   \* the base branch in the repository and at origin
    step,           \* where the loop is
    call,           \* the locals of the call it is in
    pushed,         \* the branches at origin
    passed,         \* history: the tree that verify passed last
    excused,        \* history: a push or a rollback failed, or the process died in a merge
    done,           \* history: how much of a branch was wanted when its issue was done
    reused          \* history: issues done with a pull request that was merged before

config == <<mode, cleanup>>
spaces == <<path, dirty>>
sessions == <<working, lingering>>
history == <<passed, excused, done, reused>>
vars == <<config, spaces, sessions, branch, base, origin, pushed, step, call, history>>

Nothing == [issues |-> [i \in Issues |-> 0], people |-> 0]

\* CreatedNow, preMergeSHA and mergedNow; whether the pull request takes what is
\* pushed; and, for the properties, the branch as the merge found it.
NoCall == [issue |-> NoIssue, fresh |-> FALSE, before |-> Nothing, merged |-> FALSE,
           request |-> TRUE, wanted |-> 0]
Calls == [issue : Issues \cup {NoIssue}, fresh : BOOLEAN, before : Trees,
          merged : BOOLEAN, request : BOOLEAN, wanted : 0..MaxCommits]
For(i) == [NoCall EXCEPT !.issue = i]
cur == call.issue

Init ==
    /\ mode \in Modes /\ cleanup \in BOOLEAN
    /\ path = [i \in Issues |-> "absent"]
    /\ dirty = [i \in Issues |-> FALSE]
    /\ working = {} /\ lingering = {}
    /\ branch = [i \in Issues |-> 0]
    /\ base = Nothing /\ origin = Nothing
    /\ pushed = [i \in Issues |-> 0]
    /\ step = "idle" /\ call = NoCall
    /\ passed = Nothing /\ excused = FALSE
    /\ done = [i \in Issues |-> 0] /\ reused = {}

Goes(next) == step' = next /\ UNCHANGED call
Returns == step' = "idle" /\ call' = NoCall
-----------------------------------------------------------------------------
(* A session: dispatch, the agent's work, the end.                         *)

\* PrepareWorkspace.  What is there is used again; a path that has files but is no
\* worktree is refused.
Prepare(i) ==
    /\ step = "idle" /\ i \notin working
    /\ \/ /\ path[i] = "tree" \/ (mode = "directory" /\ path[i] # "absent")
          /\ call' = For(i)
          /\ UNCHANGED spaces
       \/ /\ path[i] = "absent"
          /\ call' = [For(i) EXCEPT !.fresh = TRUE]
          /\ path' = [path EXCEPT ![i] = "tree"]
          /\ UNCHANGED dirty
    /\ step' = "prepared"
    /\ UNCHANGED <<config, sessions, branch, base, origin, pushed, history>>

\* Mutant of RemoveWorkspace: the directory itself stays.
RemoveFilesOnly(i) ==
    LET goes == IF mode = "directory" THEN TRUE
                ELSE cleanup /\ path[i] = "tree" /\ ~dirty[i]
    IN /\ path' = IF goes THEN [path EXCEPT ![i] = "empty"] ELSE path
       /\ dirty' = IF goes THEN [dirty EXCEPT ![i] = FALSE] ELSE dirty

\* RemoveWorkspace, errors ignored: a worktree goes only if worktrees are cleaned
\* up and git finds no changes in it; in directory mode everything goes.
RemoveWorkspace(i) ==
    LET goes == IF mode = "directory" THEN TRUE
                ELSE cleanup /\ path[i] = "tree" /\ ~dirty[i]
    IN /\ path' = IF goes THEN [path EXCEPT ![i] = "absent"] ELSE path
       /\ dirty' = IF goes THEN [dirty EXCEPT ![i] = FALSE] ELSE dirty

\* The transition to the working state or before_run fails: a retry.
DispatchFails ==
    /\ step \in {"prepared", "ready"}
    /\ Returns
    /\ UNCHANGED <<config, spaces, sessions, branch, base, origin, pushed, history>>

AfterCreate ==
    /\ step = "prepared"
    /\ Goes("ready")
    /\ UNCHANGED <<config, spaces, sessions, branch, base, origin, pushed, history>>

\* Mutant of AfterCreateFails: the session is started all the same.
AfterCreateFailsGoesOn ==
    /\ step = "prepared" /\ call.fresh
    /\ RemoveWorkspace(cur)
    /\ Goes("ready")
    /\ UNCHANGED <<config, sessions, branch, base, origin, pushed, history>>

AfterCreateFails ==
    /\ step = "prepared" /\ call.fresh
    /\ RemoveWorkspace(cur)
    /\ Returns
    /\ UNCHANGED <<config, sessions, branch, base, origin, pushed, history>>

Launch ==
    /\ step = "ready"
    /\ working' = working \cup {cur}
    /\ Returns
    /\ UNCHANGED <<config, spaces, lingering, branch, base, origin, pushed, history>>

\* The agent of a session, external.  One whose workspace was removed under it
\* leaves files where the worktree was.
AgentWrites(i) ==
    /\ i \in working \cup lingering
    /\ path' = IF path[i] = "tree" THEN path ELSE [path EXCEPT ![i] = "debris"]
    /\ dirty' = IF path[i] = "tree" THEN [dirty EXCEPT ![i] = TRUE] ELSE dirty
    /\ UNCHANGED <<config, sessions, branch, base, origin, pushed, step, call, history>>

AgentCommits(i) ==
    /\ i \in working \cup lingering
    /\ path[i] = "tree" /\ dirty[i]
    /\ branch[i] < MaxCommits
    /\ branch' = [branch EXCEPT ![i] = @ + 1]
    /\ dirty' = [dirty EXCEPT ![i] = FALSE]
    /\ UNCHANGED <<config, path, sessions, base, origin, pushed, step, call, history>>

SessionEnds(i) ==
    /\ \/ i \in working /\ working' = working \ {i} /\ UNCHANGED lingering
       \/ i \in lingering /\ lingering' = lingering \ {i} /\ UNCHANGED working
    /\ UNCHANGED <<config, spaces, branch, base, origin, pushed, step, call, history>>

\* reconcile finds the issue in a terminal state: the session is cancelled, not
\* waited for, and its workspace is removed.
TerminateTerminal(i) ==
    /\ step = "idle" /\ i \in working
    /\ working' = working \ {i}
    /\ lingering' = lingering \cup {i}
    /\ RemoveWorkspace(i)
    /\ UNCHANGED <<config, branch, base, origin, pushed, step, call, history>>

\* reconcile finds it in a state that is neither: the workspace stays.
TerminateInactive(i) ==
    /\ step = "idle" /\ i \in working
    /\ working' = working \ {i}
    /\ lingering' = lingering \cup {i}
    /\ UNCHANGED <<config, spaces, branch, base, origin, pushed, step, call, history>>
-----------------------------------------------------------------------------
(* MergeWorkspaceToBaseBranchVerified.                                     *)

\* The merge stage of an issue is completed.  In directory mode there is nothing
\* to merge.
MergeStarts(i) ==
    /\ step = "idle" /\ i \notin working
    /\ mode = "github" => branch[i] > 0
    /\ mode = "local" => path[i] = "tree"
    /\ step' = CASE mode = "local" -> "merge"
                 [] mode = "github" -> "verify_branch"
                 [] OTHER -> "close"
    /\ call' = For(i)
    /\ UNCHANGED <<config, spaces, sessions, branch, base, origin, pushed, history>>

\* Any call fails and has changed nothing: a comment and a retry.
MergeCallFails ==
    /\ step \in {"merge", "verify_branch", "push_branch", "checks", "merge_pr", "refresh", "close"}
    /\ Returns
    /\ UNCHANGED <<config, spaces, sessions, branch, base, origin, pushed, history>>

\* A branch that is in the base branch already is not merged again.
Merge ==
    /\ step = "merge"
    /\ base' = [base EXCEPT !.issues[cur] = branch[cur]]
    /\ call' = [call EXCEPT !.before = base, !.merged = base.issues[cur] < branch[cur],
                            !.wanted = branch[cur]]
    /\ step' = "verify"
    /\ UNCHANGED <<config, spaces, sessions, branch, origin, pushed, history>>

\* Mutant of VerifyPasses: a branch that was merged before counts as verified.
VerifyPassesUnread ==
    /\ step = "verify"
    /\ passed' = IF call.merged THEN base ELSE passed
    /\ Goes("push")
    /\ UNCHANGED <<config, spaces, sessions, branch, base, origin, pushed, excused, done, reused>>

VerifyPasses ==
    /\ step = "verify"
    /\ passed' = base
    /\ Goes("push")
    /\ UNCHANGED <<config, spaces, sessions, branch, base, origin, pushed, excused, done, reused>>

\* Mutant of VerifyFails: no rollback.
VerifyFailsKeepsMerge ==
    /\ step = "verify"
    /\ Returns
    /\ UNCHANGED <<config, spaces, sessions, branch, base, origin, pushed, history>>

\* The merge of this call is rolled back; the error of the rollback is ignored.
VerifyFails ==
    /\ step = "verify"
    /\ \/ /\ base' = IF call.merged THEN call.before ELSE base
          /\ UNCHANGED excused
       \/ /\ excused' = TRUE
          /\ UNCHANGED base
    /\ Returns
    /\ UNCHANGED <<config, spaces, sessions, branch, origin, pushed, passed, done, reused>>

\* origin takes a push only of a branch that contains its own.
Push ==
    /\ step = "push"
    /\ Contains(base, origin)
    /\ origin' = base
    /\ Goes("close")
    /\ UNCHANGED <<config, spaces, sessions, branch, base, pushed, history>>

\* Mutant of PushFails: the error is not looked at.
PushFailsGoesOn ==
    /\ step = "push"
    /\ excused' = TRUE
    /\ Goes("close")
    /\ UNCHANGED <<config, spaces, sessions, branch, base, origin, pushed, passed, done, reused>>

\* The merge stays in the repository's base branch.
PushFails ==
    /\ step = "push"
    /\ excused' = TRUE
    /\ Returns
    /\ UNCHANGED <<config, spaces, sessions, branch, base, origin, pushed, passed, done, reused>>
-----------------------------------------------------------------------------
(* MergeIssueBranchViaGitHubPR.                                            *)

VerifyBranch ==
    /\ step = "verify_branch"
    /\ Goes("push_branch")
    /\ UNCHANGED <<config, spaces, sessions, branch, base, origin, pushed, history>>

\* The branch is pushed, and its pull request made or found.  gh finds one that was
\* merged before too, whose branch is kept: it does not take the new commits.
PushBranch ==
    /\ step = "push_branch"
    /\ pushed' = [pushed EXCEPT ![cur] = branch[cur]]
    /\ \E takes \in BOOLEAN :
         /\ takes \/ origin.issues[cur] > 0
         /\ call' = [call EXCEPT !.wanted = branch[cur], !.request = takes]
    /\ step' = "checks"
    /\ UNCHANGED <<config, spaces, sessions, branch, base, origin, history>>

\* The checks of the pull request have to register within a grace period and to
\* pass before the time limit.
ChecksPass ==
    /\ step = "checks"
    /\ Goes("merge_pr")
    /\ UNCHANGED <<config, spaces, sessions, branch, base, origin, pushed, history>>

\* gh merges what the pull request has, which is no error if it was merged before;
\* the answer may not arrive.
MergePR ==
    /\ step = "merge_pr"
    /\ origin' = IF call.request THEN [origin EXCEPT !.issues[cur] = pushed[cur]] ELSE origin
    /\ Goes("refresh") \/ Returns
    /\ UNCHANGED <<config, spaces, sessions, branch, base, pushed, history>>

\* fetch, checkout, reset --hard origin/base.
Refresh ==
    /\ step = "refresh"
    /\ base' = origin
    /\ Goes("close")
    /\ UNCHANGED <<config, spaces, sessions, branch, origin, pushed, history>>
-----------------------------------------------------------------------------
\* The issue is moved to done and its workspace removed.
Close ==
    /\ step = "close"
    /\ done' = IF mode = "directory" THEN done ELSE [done EXCEPT ![cur] = call.wanted]
    /\ reused' = IF call.request THEN reused \ {cur} ELSE reused \cup {cur}
    /\ RemoveWorkspace(cur)
    /\ Returns
    /\ UNCHANGED <<config, sessions, branch, base, origin, pushed, passed, excused>>

\* The process ends and starts again, and its sessions with it; the cleanup at the
\* start removes the workspaces of the issues that are done.
Restart ==
    /\ working' = {} /\ lingering' = {}
    /\ Returns
    /\ excused' = (excused \/ step \in {"verify", "push"})
    /\ \E i \in Issues \cup {NoIssue} :
         IF i = NoIssue THEN UNCHANGED spaces ELSE RemoveWorkspace(i)
    /\ UNCHANGED <<config, branch, base, origin, pushed, passed, done, reused>>

\* People, external: they push to the base branch at origin.
PeoplePush ==
    /\ origin.people < MaxPushes
    /\ origin' = [origin EXCEPT !.people = @ + 1]
    /\ UNCHANGED <<config, spaces, sessions, branch, base, pushed, step, call, history>>

OfIssue(i) ==
    \/ Prepare(i) \/ TerminateTerminal(i) \/ TerminateInactive(i) \/ MergeStarts(i)
    \/ AgentWrites(i) \/ AgentCommits(i) \/ SessionEnds(i)

Next ==
    \/ \E i \in Issues : OfIssue(i)
    \/ DispatchFails \/ AfterCreate \/ AfterCreateFails \/ Launch
    \/ Merge \/ VerifyPasses \/ VerifyFails \/ Push \/ PushFails \/ MergeCallFails
    \/ VerifyBranch \/ PushBranch \/ ChecksPass \/ MergePR \/ Refresh
    \/ Close \/ Restart \/ PeoplePush

Spec == Init /\ [][Next]_vars
-----------------------------------------------------------------------------
TypeOK ==
    /\ mode \in Modes /\ cleanup \in BOOLEAN
    /\ path \in [Issues -> {"absent", "debris", "tree"}]
    /\ dirty \in [Issues -> BOOLEAN]
    /\ working \subseteq Issues /\ lingering \subseteq Issues
    /\ branch \in Branches /\ base \in Trees /\ origin \in Trees
    /\ step \in {"idle", "prepared", "ready", "merge", "verify", "push", "verify_branch",
                 "push_branch", "checks", "merge_pr", "refresh", "close"}
    /\ call \in Calls /\ (cur = NoIssue <=> step = "idle")
    /\ pushed \in Branches
    /\ passed \in Trees /\ excused \in BOOLEAN /\ done \in Branches
    /\ reused \subseteq Issues

\* A session that the loop counts as running has its worktree under it; the loop
\* takes it away only from sessions that it has cancelled.
RunsInWorktree ==
    \A i \in working : path[i] = "tree" \/ (mode = "directory" /\ path[i] = "debris")

\* In the local flow nothing is pushed but a tree that verify passed, the leftovers
\* of earlier failures and crashes included.
PushedWasVerified ==
    [][step = "push" /\ origin' # origin /\ origin'.people = origin.people /\ mode = "local"
       => origin' = passed]_vars

\* The commits that a merge found on the branch of an issue are in the base branch
\* at origin when the issue is done, and stay there whatever is merged, pushed,
\* rolled back and reset later.  The one exception: gh found a pull request of the
\* branch that was merged before.  The merge takes that for its own, and what was
\* committed since, by an issue that was opened again, is not merged at all.
DoneIsPublished ==
    \A i \in Issues :
        \/ origin.issues[i] >= done[i]
        \/ i \in reused /\ origin.issues[i] > 0

\* Between merges the repository's base branch has nothing that origin lacks,
\* unless a push or a rollback failed or the process died in the middle.
NothingLeftBehind == step = "idle" /\ ~excused => Contains(origin, base)
=============================================================================

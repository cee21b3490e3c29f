----------------------------- MODULE Completion -----------------------------
(***************************************************************************)
(* How one issue goes through the pipeline, internal/orchestrator/         *)
(* orchestrator.go: completeIssueAfterRun, handleCompletionTransitionRetry *)
(* and the transitions they share, with the agent events that the          *)
(* review-resolution decision is read from.                                *)
(*                                                                         *)
(* Scheduler has the claims, slots and timers of many issues and leaves    *)
(* the decision open; here is one issue, its session and the decision.     *)
(* The steps that run outside o.mu, where people, late events and failures *)
(* come in between, are actions of their own: "phase" says how far the     *)
(* issue is.  A message is the directive it carries; a branch is whether   *)
(* it has commits that are not in the base branch.  The issue's team has   *)
(* some of the states, and a move to one that it lacks fails.              *)
(***************************************************************************)
EXTENDS Naturals, Sequences

CONSTANTS
    CodingState,      \* a state of the coding stage
    ReviewState,      \* cfg.Pipeline.ReviewState
    ResolutionState,  \* cfg.Pipeline.ReviewResolutionState
    MergeState,       \* cfg.Pipeline.MergeState
    DoneState,        \* cfg.Pipeline.DoneState, a terminal state
    OtherState,       \* a state that is neither active nor terminal
    Missing,          \* the tracker does not return the issue
    ActiveStates,     \* cfg.Tracker.ActiveStates
    CompletionStates, \* the states completionStatePreferences has after the review state
    Teams,            \* the sets of states that the issue's team may have
    GitHub,           \* cfg.GitHub.Enabled: branches are merged by pull requests
    WithResolution,   \* reviewResolutionEnabled
    EscalationState,  \* cfg.ReviewResolution.EscalationState
    MaxAttempts,      \* cfg.ReviewResolution.MaxAttempts
    PeopleSet         \* bound: the states that people set

States == {CodingState, ReviewState, ResolutionState, MergeState, DoneState, OtherState}

ASSUME ConfigAssumption ==
    /\ Missing \notin States
    /\ {DoneState, OtherState} \cap {CodingState, ReviewState, ResolutionState, MergeState} = {}
    /\ MergeState \notin {CodingState, ReviewState, ResolutionState}
    /\ ResolutionState \notin {CodingState, ReviewState}
    /\ CodingState # ReviewState
    /\ {CodingState, MergeState} \subseteq ActiveStates
    /\ ActiveStates \subseteq {CodingState, ReviewState, ResolutionState, MergeState}
    /\ CompletionStates \in Seq(States)
    /\ Teams \subseteq SUBSET States
    /\ GitHub \in BOOLEAN
    /\ WithResolution \in BOOLEAN
    /\ EscalationState \in States
    /\ MaxAttempts \in Nat
    /\ PeopleSet \subseteq States \cup {Missing}

Directives == {"none", "approved", "retry", "escalate"}
Phases == {"free", "running", "ended", "check", "merge", "close", "move",
           "agent_retry", "completion_retry"}

VARIABLES
    team,            \* the states that the issue's team has
    tracker,         \* the tracker's state of the issue
    phase,           \* what the orchestrator is doing with the issue
    outcome,         \* how the session ended, as completedCh will say
    message,         \* entry.Session.LastCodexMessage
    stale,           \* a session without an entry is still winding down
    target,          \* where the completion in progress moves the issue; in phase
                     \* "close" it does so after a merge
    reviewAttempts,  \* o.reviewAttempts of the issue, MaxAttempts + 1 for more
    unmerged,        \* the branch has commits, made by a session while it had the
                     \* entry, that the base branch does not have
    mergedPR,        \* the branch has a pull request that was merged
    found,           \* the completion in progress took a pull request for its own
                     \* that had been merged before
    passes           \* history: passes granted since the issue entered its state

sessionVars == <<outcome, message, stale>>
branchVars == <<unmerged, mergedPR, found>>
vars == <<team, tracker, phase, sessionVars, target, reviewAttempts, branchVars, passes>>

TypeOK ==
    /\ team \in Teams
    /\ tracker \in States \cup {Missing}
    /\ phase \in Phases
    /\ outcome \in {"none", "completed", "left", "failed"}
    /\ message \in Directives
    /\ stale \in BOOLEAN
    /\ target \in States
    /\ reviewAttempts \in 0..MaxAttempts + 1
    /\ {unmerged, mergedPR, found} \subseteq BOOLEAN
    /\ passes \in 0..MaxAttempts + 1

Init ==
    /\ team \in Teams
    /\ tracker \in ActiveStates \cap team
    /\ phase = "free"
    /\ outcome = "none"
    /\ message = "none"
    /\ stale = FALSE
    /\ target = DoneState
    /\ reviewAttempts = 0
    /\ unmerged \in BOOLEAN
    /\ mergedPR \in {FALSE, GitHub}
    /\ found = FALSE
    /\ passes = 0
-----------------------------------------------------------------------------
(* The session.                                                            *)

\* dispatch made an entry and launched a session, for a free issue or for the
\* retry of a failed or unfinished one.
Launch ==
    /\ phase \in {"free", "agent_retry"}
    /\ tracker \in ActiveStates
    /\ phase' = "running"
    /\ outcome' = "none"
    /\ message' = "none"
    /\ UNCHANGED <<team, tracker, stale, target, reviewAttempts, branchVars, passes>>

\* The agent's message arrives as item/completed, with a directive or without.
\* An agent that says something has usually committed something.
AgentSpeaks(d) ==
    /\ phase = "running"
    /\ message' = d
    /\ unmerged' = TRUE
    /\ UNCHANGED <<team, tracker, phase, outcome, stale, target, reviewAttempts, mergedPR,
                   found, passes>>

\* Events of a session that lost its entry reach the issue's next entry.
StaleSpeaks(d) ==
    /\ stale
    /\ phase \in {"running", "ended"}
    /\ message' = d
    /\ UNCHANGED <<team, tracker, phase, outcome, stale, target, reviewAttempts, branchVars,
                   passes>>

StaleFades ==
    /\ stale
    /\ stale' = FALSE
    /\ UNCHANGED <<team, tracker, phase, outcome, message, target, reviewAttempts, branchVars,
                   passes>>

\* Run returns: with an error; at agent.max_turns or after a turn of an issue
\* that is still active ("completed"); after one of an issue that left the active
\* states ("left").  Its last event, continuation_stopped or max_turns_reached,
\* has no agent message, but eventCallback sets the last message all the same.
SessionEnds ==
    /\ phase = "running"
    /\ phase' = "ended"
    /\ \/ outcome' \in {"completed", "failed"}
       \/ tracker \notin ActiveStates /\ outcome' = "left"
    /\ message' = "none"
    /\ UNCHANGED <<team, tracker, stale, target, reviewAttempts, branchVars, passes>>

\* Stall detection, reconcile, or the result of a session that was itself
\* cancelled take the entry away from a session that goes on.
EntryTaken ==
    /\ phase = "running"
    /\ stale' = TRUE
    /\ \/ phase' = "agent_retry"
       \/ tracker \notin ActiveStates /\ phase' = "free"
       \/ stale /\ phase' \in {"check", "free"}
    /\ UNCHANGED <<team, tracker, outcome, message, target, reviewAttempts, branchVars, passes>>

\* handleWorkerResult.
HandleWorkerResult ==
    /\ phase = "ended"
    /\ phase' = CASE outcome = "failed" -> "agent_retry"
                  [] outcome = "left" -> "free"
                  [] OTHER -> "check"
    /\ outcome' = "none"
    /\ UNCHANGED <<team, tracker, message, stale, target, reviewAttempts, branchVars, passes>>

\* handleRetry drops an agent retry of an issue that is not active any more.
AgentRetryReleased ==
    /\ phase = "agent_retry"
    /\ tracker \notin ActiveStates
    /\ phase' = "free"
    /\ UNCHANGED <<team, tracker, sessionVars, target, reviewAttempts, branchVars, passes>>
-----------------------------------------------------------------------------
(* The completion.                                                         *)

\* reviewResolutionDecision: a message without a directive approves.
ReviewResolutionDecision(m) == IF m = "none" THEN "approved" ELSE m

MoveTo(s) ==
    /\ phase' = "move"
    /\ target' = s

\* Mutant of AnotherPass: the count is compared before it is raised.
AnotherPassTooMany ==
    /\ reviewAttempts' = IF reviewAttempts > MaxAttempts THEN reviewAttempts
                         ELSE reviewAttempts + 1
    /\ IF reviewAttempts > MaxAttempts
       THEN MoveTo(EscalationState) /\ UNCHANGED passes
       ELSE phase' = "agent_retry" /\ passes' = passes + 1 /\ UNCHANGED target

\* Mutant of AnotherPass: the pass is not counted.
AnotherPassUncounted ==
    /\ UNCHANGED reviewAttempts
    /\ IF reviewAttempts' > MaxAttempts
       THEN MoveTo(EscalationState) /\ UNCHANGED passes
       ELSE phase' = "agent_retry" /\ passes' = passes + 1 /\ UNCHANGED target

\* scheduleReviewResolutionRetryOrEscalate.
AnotherPass ==
    /\ reviewAttempts' = IF reviewAttempts > MaxAttempts THEN reviewAttempts
                         ELSE reviewAttempts + 1
    /\ IF reviewAttempts' > MaxAttempts
       THEN MoveTo(EscalationState) /\ UNCHANGED passes
       ELSE phase' = "agent_retry" /\ passes' = passes + 1 /\ UNCHANGED target

\* MoveIssueToFirstAvailableState: none, or the first of prefs that the team has.
FirstAvailable(prefs) ==
    {prefs[k] : k \in {n \in DOMAIN prefs :
                          prefs[n] \in team /\ \A j \in 1..n - 1 : prefs[j] \notin team}}

\* completionStatePreferences.
Preferences == <<ReviewState>> \o CompletionStates

InResolution(state) == WithResolution /\ state = ResolutionState

\* Where a completed run moves an issue that needs no merge and no other pass.
\* Only the coding stage looks for a state that is there.
StateAfter(state, decision) ==
    CASE InResolution(state) -> {IF decision = "escalate" THEN EscalationState ELSE MergeState}
      [] state = ReviewState -> {IF WithResolution THEN ResolutionState ELSE MergeState}
      [] OTHER -> FirstAvailable(Preferences)

\* What to do with an active issue, by the state that was just fetched and the
\* message of the entry.
Decide(m) ==
    LET decision == ReviewResolutionDecision(m)
        another  == InResolution(tracker) /\ decision = "retry"
        next     == StateAfter(tracker, decision)
    IN
    \/ another /\ AnotherPass
    \/ /\ ~another
       /\ \/ tracker = MergeState /\ phase' = "merge" /\ UNCHANGED target
          \/ tracker # MergeState /\ \E s \in next : MoveTo(s)
          \/ tracker # MergeState /\ next = {} /\ phase' = "completion_retry"
             /\ UNCHANGED target
       /\ UNCHANGED <<reviewAttempts, passes>>

\* completeIssueAfterRun.  A release leaves reviewAttempts as it is.
CompleteIssueAfterRun ==
    /\ phase = "check"
    /\ \/ /\ phase' = "completion_retry"
          /\ UNCHANGED <<target, reviewAttempts, passes>>
       \/ /\ tracker \notin ActiveStates
          /\ phase' = "free"
          /\ UNCHANGED <<target, reviewAttempts, passes>>
       \/ /\ tracker \in ActiveStates
          /\ Decide(message)
    /\ UNCHANGED <<team, tracker, sessionVars, branchVars>>

\* handleCompletionTransitionRetry: the same on a fresh state, but with a
\* made-up entry that has no message.
HandleCompletionTransitionRetry ==
    /\ phase = "completion_retry"
    /\ \/ /\ tracker \notin ActiveStates
          /\ phase' = "free"
          /\ UNCHANGED <<target, reviewAttempts, passes>>
       \/ /\ tracker \in ActiveStates
          /\ Decide("none")
    /\ UNCHANGED <<team, tracker, sessionVars, branchVars>>

\* The branch as it is, or merged into the base branch.
MergedOrNot ==
    \/ unmerged' = FALSE /\ mergedPR' = GitHub
    \/ UNCHANGED <<unmerged, mergedPR>>

\* Mutant of MergeBranch: after a failed merge the handler goes on.
MergeBranchGoesOn ==
    /\ phase = "merge"
    /\ MergedOrNot
    /\ found' = FALSE
    /\ phase' = "close"
    /\ target' = DoneState
    /\ UNCHANGED <<team, tracker, sessionVars, reviewAttempts, passes>>

\* transitionMergeIssueToDone up to the move.  The merge succeeds, or fails, perhaps
\* only after it was done.  With pull requests it succeeds too when the one that
\* the branch has was merged before, without the commits that came later:
\* ensureGitHubPR takes it, and merging it once more is no error.
MergeBranch ==
    /\ phase = "merge"
    /\ \/ /\ \/ unmerged' = FALSE /\ mergedPR' = GitHub /\ found' = FALSE
             \/ mergedPR /\ UNCHANGED <<unmerged, mergedPR>> /\ found' = TRUE
          /\ phase' = "close"
          /\ target' = DoneState
       \/ /\ MergedOrNot
          /\ phase' = "completion_retry"
          /\ UNCHANGED <<found, target>>
    /\ UNCHANGED <<team, tracker, sessionVars, reviewAttempts, passes>>

\* What a change of the tracker's state means for the properties.
Entered(s) ==
    /\ tracker' = s
    /\ passes' = 0

\* The tracker's part of a move: it takes the issue to a state that the team has.
TrackerMoves ==
    /\ tracker # Missing
    /\ target \in team
    /\ Entered(target)

\* MoveIssueToState or the last request of MoveIssueToFirstAvailableState, and
\* markCompletionTransitioned.
MoveSucceeds ==
    /\ phase \in {"move", "close"}
    /\ TrackerMoves
    /\ phase' = "free"
    /\ reviewAttempts' = 0
    /\ UNCHANGED <<team, sessionVars, target, branchVars>>

\* The move fails; the tracker may have done it all the same, if only its
\* answer was late or lost.
MoveFails ==
    /\ phase \in {"move", "close"}
    /\ phase' = "completion_retry"
    /\ TrackerMoves \/ UNCHANGED <<tracker, passes>>
    /\ UNCHANGED <<team, sessionVars, target, reviewAttempts, branchVars>>

\* People move, archive or restore the issue.
PeopleMove ==
    /\ \E s \in (PeopleSet \cap (team \cup {Missing})) \ {tracker} : Entered(s)
    /\ UNCHANGED <<team, phase, sessionVars, target, reviewAttempts, branchVars>>

\* People merge the branch's pull request themselves.
PeopleMerge ==
    /\ GitHub
    /\ unmerged
    /\ unmerged' = FALSE
    /\ mergedPR' = TRUE
    /\ UNCHANGED <<team, tracker, phase, sessionVars, target, reviewAttempts, found, passes>>
-----------------------------------------------------------------------------
Next ==
    \/ Launch
    \/ \E d \in Directives : AgentSpeaks(d) \/ StaleSpeaks(d)
    \/ StaleFades
    \/ SessionEnds
    \/ EntryTaken
    \/ HandleWorkerResult
    \/ AgentRetryReleased
    \/ CompleteIssueAfterRun
    \/ HandleCompletionTransitionRetry
    \/ MergeBranch
    \/ MoveSucceeds
    \/ MoveFails
    \/ PeopleMove
    \/ PeopleMerge

Spec == Init /\ [][Next]_vars
-----------------------------------------------------------------------------
(* What the pipeline promises.                                             *)

\* review_resolution.max_attempts: while an issue stays in the review-resolution
\* state it gets no more autonomous passes than that, whoever's message asked
\* for them and however many of its sessions and moves failed in between.
PassesBounded == passes <= MaxAttempts

\* The orchestrator sets an issue to done only with the commits of its sessions
\* in the base branch, also when an earlier try had merged and could not move.
\* The exceptions are those the code has: a pull request of the branch that was
\* merged before is taken for this merge; the issue's team has no review state,
\* so that coding ends in the first completion state that is there; and people
\* configured done as the state to escalate to.  It is about sessions that had
\* the entry: one that lost it may commit at any moment.
MergedBeforeDone ==
    [][/\ phase \in {"move", "close"} /\ phase' # phase
       /\ tracker # DoneState /\ tracker' = DoneState
       => \/ ~unmerged
          \/ phase = "close" /\ found
          \/ phase = "move" /\ (ReviewState \notin team \/ EscalationState = DoneState)]_vars
=============================================================================

------------------------- MODULE CompletionProofs -------------------------
(***************************************************************************)
(* Proofs about Completion, for any limit of passes, any escalation state  *)
(* and whatever people do to the issue.                                    *)
(***************************************************************************)
EXTENDS Completion, TLAPS

USE DEF sessionVars, branchVars

(* Done is set without a merge only by an escalation or where the team has *)
(* no review state.                                                        *)
MoveTarget == target = DoneState => ReviewState \notin team \/ EscalationState = DoneState

(* The counter of the code never lags behind the passes that were granted: *)
(* whatever resets it, o.reviewAttempts, moves the issue as well.          *)
IInv ==
    /\ TypeOK
    /\ passes <= reviewAttempts
    /\ PassesBounded
    /\ phase = "move" => MoveTarget
    /\ phase = "close" => ~unmerged \/ found

LEMMA StatesAreDistinct ==
  /\ ActiveStates \subseteq States /\ DoneState \notin ActiveStates
  /\ {ReviewState, ResolutionState, MergeState, DoneState, EscalationState} \subseteq States
  /\ DoneState \notin {ReviewState, ResolutionState, MergeState}
BY ConfigAssumption DEF States

(* A completed coding run moves the issue to the review state wherever the *)
(* team has it.                                                            *)
LEMMA ReviewIsPreferred ==
  /\ FirstAvailable(Preferences) \subseteq States
  /\ ReviewState \in team => FirstAvailable(Preferences) = {ReviewState}
<1>1. /\ Preferences \in Seq(States)
      /\ Len(Preferences) = 1 + Len(CompletionStates)
      /\ Preferences[1] = ReviewState
      /\ Len(CompletionStates) \in Nat
  BY ConfigAssumption, StatesAreDistinct DEF Preferences
<1>2. FirstAvailable(Preferences) \subseteq States
  BY <1>1 DEF FirstAvailable
<1>3. ASSUME ReviewState \in team PROVE FirstAvailable(Preferences) = {ReviewState}
  <2>1. 1 \in DOMAIN Preferences /\ DOMAIN Preferences = 1..1 + Len(CompletionStates)
    BY <1>1
  <2>2. \A k \in DOMAIN Preferences :
           (\A j \in 1..k - 1 : Preferences[j] \notin team) => k = 1
    BY <1>1, <1>3, <2>1
  <2>3. \A j \in 1..1 - 1 : Preferences[j] \notin team
    OBVIOUS
  <2> QED
    BY <1>1, <1>3, <2>1, <2>2, <2>3 DEF FirstAvailable
<1> QED
  BY <1>2, <1>3

LEMMA StateAfterIsChecked ==
  ASSUME NEW s \in States, NEW d \in Directives, NEW t \in StateAfter(s, d)
  PROVE  /\ t \in States
         /\ t = DoneState => ReviewState \notin team \/ EscalationState = DoneState
<1>1. CASE t \in FirstAvailable(Preferences)
  BY <1>1, ReviewIsPreferred, StatesAreDistinct
<1>2. CASE t \in {EscalationState, MergeState, ResolutionState}
  BY <1>2, StatesAreDistinct
<1> QED
  BY <1>1, <1>2 DEF StateAfter

LEMMA CountsStartAtZero == MaxAttempts \in Nat /\ 0 \in 0..MaxAttempts + 1
  BY ConfigAssumption

LEMMA DecideKeepsIInv ==
  ASSUME IInv, NEW m \in Directives, tracker \in ActiveStates,
         phase \notin {"move", "close"},
         Decide(m),
         UNCHANGED <<team, tracker, sessionVars, branchVars>>
  PROVE  IInv'
<1> DEFINE decision == ReviewResolutionDecision(m)
<1>1. decision \in Directives
  BY DEF ReviewResolutionDecision, Directives
<1>2. CASE AnotherPass
  <2>1. /\ reviewAttempts' \in 0..MaxAttempts + 1
        /\ passes' <= reviewAttempts'
        /\ passes' <= MaxAttempts
        /\ passes' \in 0..MaxAttempts + 1
    BY <1>2, ConfigAssumption DEF IInv, TypeOK, PassesBounded, AnotherPass
  <2>2. /\ phase' \in Phases /\ target' \in States
        /\ phase' # "close"
        /\ phase' = "move" => target' = EscalationState
    BY <1>2, StatesAreDistinct DEF IInv, TypeOK, AnotherPass, MoveTo, Phases
  <2> QED
    BY <2>1, <2>2 DEF IInv, TypeOK, PassesBounded, MoveTarget
<1>3. CASE /\ \/ phase' \in {"merge", "completion_retry"} /\ UNCHANGED target
              \/ \E s \in StateAfter(tracker, decision) : MoveTo(s)
           /\ UNCHANGED <<reviewAttempts, passes>>
  <2>1. /\ phase' \in Phases /\ target' \in States
        /\ phase' # "close"
        /\ phase' = "move" => MoveTarget'
    BY <1>1, <1>3, StatesAreDistinct, StateAfterIsChecked
       DEF IInv, TypeOK, MoveTo, Phases, MoveTarget
  <2> QED
    BY <1>3, <2>1 DEF IInv, TypeOK, PassesBounded
<1> QED
  BY <1>2, <1>3 DEF Decide

LEMMA InitIInv == Init => IInv
<1> SUFFICES ASSUME Init PROVE IInv
  OBVIOUS
<1>1. TypeOK
  <2>1. tracker \in States \cup {Missing} /\ target \in States /\ mergedPR \in BOOLEAN
    BY ConfigAssumption, StatesAreDistinct DEF Init, States
  <2>2. reviewAttempts \in 0..MaxAttempts + 1 /\ passes \in 0..MaxAttempts + 1
    BY CountsStartAtZero DEF Init
  <2> QED
    BY <2>1, <2>2 DEF Init, TypeOK, Phases, Directives
<1>2. passes <= reviewAttempts /\ PassesBounded
  BY CountsStartAtZero DEF Init, PassesBounded
<1>3. phase \notin {"move", "close"}
  BY DEF Init
<1> QED
  BY <1>1, <1>2, <1>3 DEF IInv

LEMMA NextIInv == IInv /\ [Next]_vars => IInv'
<1> SUFFICES ASSUME IInv, [Next]_vars PROVE IInv'
  OBVIOUS
<1> USE DEF IInv, TypeOK, PassesBounded, MoveTarget
<1>1. CASE Launch
  BY <1>1 DEF Launch, Phases, Directives
<1>2. ASSUME NEW d \in Directives, AgentSpeaks(d) \/ StaleSpeaks(d) PROVE IInv'
  BY <1>2 DEF AgentSpeaks, StaleSpeaks
<1>3. CASE StaleFades
  BY <1>3 DEF StaleFades
<1>4. CASE SessionEnds
  BY <1>4 DEF SessionEnds, Phases, Directives
<1>5. CASE EntryTaken
  BY <1>5 DEF EntryTaken, Phases
<1>6. CASE HandleWorkerResult
  BY <1>6 DEF HandleWorkerResult, Phases
<1>7. CASE AgentRetryReleased
  BY <1>7 DEF AgentRetryReleased, Phases
<1>8. CASE CompleteIssueAfterRun
  <2>1. CASE UNCHANGED <<target, reviewAttempts, passes>> /\ phase' \in {"free", "completion_retry"}
    BY <1>8, <2>1 DEF CompleteIssueAfterRun, Decide, AnotherPass, MoveTo, Phases
  <2>2. CASE tracker \in ActiveStates /\ Decide(message)
    BY <1>8, <2>2, DecideKeepsIInv DEF CompleteIssueAfterRun
  <2> QED
    BY <1>8, <2>1, <2>2 DEF CompleteIssueAfterRun
<1>9. CASE HandleCompletionTransitionRetry
  <2>1. CASE tracker \notin ActiveStates
    BY <1>9, <2>1 DEF HandleCompletionTransitionRetry, Phases
  <2>2. CASE tracker \in ActiveStates
    BY <1>9, <2>2, DecideKeepsIInv DEF HandleCompletionTransitionRetry, Directives
  <2> QED
    BY <2>1, <2>2
<1>10. CASE MergeBranch
  BY <1>10, StatesAreDistinct, ConfigAssumption DEF MergeBranch, MergedOrNot, Phases
<1>11. CASE MoveSucceeds \/ MoveFails
  <2>1. CASE UNCHANGED <<tracker, passes>>
    BY <1>11, <2>1, CountsStartAtZero DEF MoveSucceeds, MoveFails, TrackerMoves, Entered, Phases
  <2>2. CASE Entered(target)
    <3>1. passes' = 0 /\ reviewAttempts' \in {0, reviewAttempts}
      BY <1>11, <2>2 DEF MoveSucceeds, MoveFails, TrackerMoves, Entered
    <3>2. /\ passes' <= reviewAttempts' /\ passes' <= MaxAttempts
          /\ passes' \in 0..MaxAttempts + 1
          /\ reviewAttempts' \in 0..MaxAttempts + 1
      BY <3>1, CountsStartAtZero
    <3> QED
      BY <1>11, <2>2, <3>2 DEF MoveSucceeds, MoveFails, TrackerMoves, Entered, Phases
  <2> QED
    BY <1>11, <2>1, <2>2 DEF MoveSucceeds, MoveFails, TrackerMoves
<1>12. CASE PeopleMove
  <2>1. /\ passes' = 0 /\ UNCHANGED reviewAttempts
        /\ UNCHANGED <<team, phase, sessionVars, target, branchVars>>
    BY <1>12 DEF PeopleMove, Entered
  <2>2. tracker' \in States \cup {Missing}
    BY <1>12, ConfigAssumption DEF PeopleMove, Entered
  <2>3. /\ passes' <= reviewAttempts' /\ passes' <= MaxAttempts
        /\ passes' \in 0..MaxAttempts + 1
    BY <2>1, CountsStartAtZero
  <2> QED
    BY <2>1, <2>2, <2>3 DEF Directives
<1>13. CASE PeopleMerge
  BY <1>13 DEF PeopleMerge
<1>14. CASE UNCHANGED vars
  BY <1>14 DEF vars
<1> QED
  BY <1>1, <1>2, <1>3, <1>4, <1>5, <1>6, <1>7, <1>8, <1>9, <1>10, <1>11, <1>12, <1>13, <1>14
     DEF Next

(* The inductive invariant holds in every reachable state.                 *)
THEOREM CompletionIInv == Spec => []IInv
  BY InitIInv, NextIInv, PTL DEF Spec

(* The state of an issue in the pipeline is well typed; in particular the  *)
(* count of passes stays within what the model tells apart.                *)
THEOREM CompletionTypeOK == Spec => []TypeOK
<1>1. IInv => TypeOK
  BY DEF IInv
<1> QED
  BY <1>1, CompletionIInv, PTL

(* review_resolution.max_attempts bounds the autonomous passes of every    *)
(* stay in the review-resolution state, for any limit.                     *)
THEOREM CompletionPassesBounded == Spec => []PassesBounded
<1>1. IInv => PassesBounded
  BY DEF IInv
<1> QED
  BY <1>1, CompletionIInv, PTL

(* A completion sets an issue to done only with the commits of its         *)
(* sessions merged, whatever fails or people do on the way, but for the    *)
(* exceptions that MergedBeforeDone names: a pull request that was merged  *)
(* before, a team without the review state, an escalation to done.         *)
THEOREM CompletionMergedBeforeDone == Spec => MergedBeforeDone
<1>1. IInv /\ [Next]_vars
        => [/\ phase \in {"move", "close"} /\ phase' # phase
            /\ tracker # DoneState /\ tracker' = DoneState
            => \/ ~unmerged
               \/ phase = "close" /\ found
               \/ phase = "move" /\ (ReviewState \notin team \/ EscalationState = DoneState)]_vars
  <2> SUFFICES ASSUME IInv, Next, phase \in {"move", "close"}, phase' # phase,
                      tracker # DoneState, tracker' = DoneState
               PROVE  \/ ~unmerged
                      \/ phase = "close" /\ found
                      \/ phase = "move" /\ (ReviewState \notin team \/ EscalationState = DoneState)
    BY DEF vars
  <2>1. MoveSucceeds \/ MoveFails
    BY DEF Next, Launch, AgentSpeaks, StaleSpeaks, StaleFades, SessionEnds, EntryTaken,
       HandleWorkerResult, AgentRetryReleased, CompleteIssueAfterRun,
       HandleCompletionTransitionRetry, MergeBranch, PeopleMove, PeopleMerge
  <2>2. target = DoneState
    BY <2>1 DEF MoveSucceeds, MoveFails, TrackerMoves, Entered
  <2> QED
    BY <2>2 DEF IInv, MoveTarget
<1> QED
  BY <1>1, CompletionIInv, PTL DEF Spec, MergedBeforeDone
=============================================================================

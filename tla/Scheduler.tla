----------------------------- MODULE Scheduler -----------------------------
(***************************************************************************)
(* The scheduling core of one project, internal/orchestrator/              *)
(* orchestrator.go, from Start to the moment Stop is called.               *)
(*                                                                         *)
(* Four kinds of process share the state behind o.mu:                      *)
(*   - the loop goroutine: tick, handleWorkerResult and handleRetry, one   *)
(*     at a time.  It gives up o.mu around every tracker call, every       *)
(*     workspace operation and every hook, so one handler is several       *)
(*     actions here, and "pc" says where in a handler the loop is;         *)
(*   - the workers, one goroutine per launched agent session;              *)
(*   - the retry timers and the goroutines that send on retryCh;           *)
(*   - the operator (pause and resume) and the people who edit issues in   *)
(*     the tracker.                                                        *)
(* Steps of a handler between which no other process can change what the   *)
(* handler reads are one action.                                           *)
(*                                                                         *)
(* An issue is its id, a tracker state is its normalised name; issue text, *)
(* token totals and log state are left out, and so is everything that only *)
(* Snapshot reads.  The configuration does not change while the model      *)
(* runs.  Stop, UpdateRuntime and the workspaces on disk are not here.     *)
(***************************************************************************)
EXTENDS Integers, FiniteSets, Sequences

CONSTANTS
    Issues,          \* issue ids
    Runs,            \* names for worker goroutines; a name is reused once its
                     \* result was handled
    ActiveStates,    \* cfg.Tracker.ActiveStates
    TerminalStates,  \* cfg.Tracker.TerminalStates
    OtherStates,     \* tracker states in neither list
    Missing,         \* no state: the tracker does not return the issue
    StageOf,         \* pipelineStage: the stage of an active state
    Succ,            \* where a completed run in an active state can move its issue
    AgainStates,     \* active states whose completion can ask for another pass
    WorkingState,    \* cfg.Tracker.WorkingState, or Missing when it is not set
    CodingStage,     \* the stage whose issues are moved to WorkingState
    Todo,            \* the state in which an open blocker holds an issue back
    MaxAgents,       \* cfg.Agent.MaxConcurrentAgents
    StateLimit,      \* cfg.Agent.MaxConcurrentAgentsByState, 0 for no limit
    SlotLimit,       \* the capacity of the supervisor's limiter
    ResultCap,       \* the capacity of completedCh (32 in the code)
    MaxAttempt,      \* bound: attempts beyond it are not told apart
    MaxWakes,        \* bound: wake-ups of one issue waiting for the loop
    EditStates,      \* bound: what people set an issue's state to, Missing for
                     \* an issue that is archived
    Pausable,        \* bound: what the operator pauses, stages and "project"
    LabelEdits,      \* whether people also take trusted labels away
    ClockSlack,      \* whether a timer may fire just before DueAtMs, see TimerFires
    NoIssue, NoRun, NoRetry

States   == ActiveStates \cup TerminalStates \cup OtherStates
Stages   == {StageOf[s] : s \in ActiveStates}
Kinds    == {"agent", "completion_transition"}
Outcomes == {"success", "max_turns", "failed"}

ASSUME StatesAssumption ==
    /\ ActiveStates \cap TerminalStates = {}
    /\ (ActiveStates \cup TerminalStates) \cap OtherStates = {}
    /\ Missing \notin States
ASSUME PipelineAssumption ==
    /\ StageOf \in [ActiveStates -> Stages]
    /\ Succ \in [ActiveStates -> SUBSET States]
    /\ AgainStates \subseteq ActiveStates
    /\ WorkingState \in ActiveStates \cup {Missing}
    /\ WorkingState # Missing => StageOf[WorkingState] = CodingStage
ASSUME LimitsAssumption ==
    /\ MaxAgents \in Nat \ {0}
    /\ StateLimit \in [ActiveStates -> Nat]
    /\ SlotLimit \in Nat \ {0}
    /\ ResultCap \in Nat \ {0}
    /\ MaxAttempt \in Nat \ {0}
    /\ MaxWakes \in Nat \ {0}
    /\ EditStates \subseteq States \cup {Missing}
    /\ "project" \notin Stages
    /\ Pausable \subseteq Stages \cup {"project"}
    /\ LabelEdits \in BOOLEAN
    /\ ClockSlack \in BOOLEAN
ASSUME NamesAssumption ==
    /\ IsFiniteSet(Issues)
    /\ NoIssue \notin Issues
    /\ NoRun \notin Runs
    /\ NoRetry \notin [kind : Kinds, attempt : 1..MaxAttempt, due : BOOLEAN]

VARIABLES
    tracker,       \* the tracker's state of every issue
    trusted,       \* the issues that carry a trusted label
    running,       \* o.state.Running: which worker the entry was made for
    entryState,    \* RunningEntry.Issue.State
    cancels,       \* o.workerCancels: whose cancel function is on file
    claimed,       \* o.state.Claimed
    retry,         \* o.state.RetryAttempts
    timers,        \* issues with an armed retry timer
    wakes,         \* ids sent, or being sent, on retryCh
    worker,        \* the worker goroutines
    results,       \* completedCh, as the workers whose results wait in it
    paused,        \* o.state.Paused
    pausedStages,  \* o.state.PausedStages
    slots,         \* limiter slots that this project holds
    waiting,       \* whether this project is in line at the limiter
    pc,            \* where the loop goroutine is
    cur,           \* the issue it is dispatching or completing
    cands,         \* the candidates that dispatchEligibleIssues has left
    seen           \* the states it fetched and still uses

trackerVars == <<tracker, trusted>>
entryVars   == <<running, entryState, cancels>>
retryVars   == <<retry, timers>>
workVars    == <<worker, results>>
pauseVars   == <<paused, pausedStages>>
limiterVars == <<slots, waiting>>
loopVars    == <<pc, cur, cands, seen>>
vars == <<tracker, trusted, running, entryState, cancels, claimed,
          retry, timers, wakes, worker, results, paused, pausedStages, slots,
          waiting, pc, cur, cands, seen>>

RetryEntries == [kind : Kinds, attempt : 1..MaxAttempt, due : BOOLEAN]
Workers == [issue : Issues \cup {NoIssue},
            phase : {"free", "running", "finished", "sending", "delivered"},
            result : Outcomes,
            cancelled : BOOLEAN]
LoopPoints == {"idle", "apply", "candidates", "next", "gate", "prepare", "recheck",
               "launch", "complete", "move", "cleanup"}

TypeOK ==
    /\ tracker \in [Issues -> States \cup {Missing}]
    /\ trusted \in SUBSET Issues
    /\ running \in [Issues -> Runs \cup {NoRun}]
    /\ entryState \in [Issues -> States \cup {Missing}]
    /\ cancels \in [Issues -> Runs \cup {NoRun}]
    /\ claimed \in SUBSET Issues
    /\ retry \in [Issues -> RetryEntries \cup {NoRetry}]
    /\ timers \in SUBSET Issues
    /\ wakes \in [Issues -> 0..MaxWakes]
    /\ worker \in [Runs -> Workers]
    /\ results \in Seq(Runs)
    /\ paused \in BOOLEAN
    /\ pausedStages \in SUBSET Stages
    /\ slots \in 0..SlotLimit
    /\ waiting \in BOOLEAN
    /\ pc \in LoopPoints
    /\ cur \in Issues \cup {NoIssue}
    /\ cands \in SUBSET Issues
    /\ seen \in [Issues -> States \cup {Missing}]
-----------------------------------------------------------------------------
NoWorker == [issue |-> NoIssue, phase |-> "free", result |-> "success",
             cancelled |-> FALSE]
Unseen == [i \in Issues |-> Missing]

\* Start, with the controls that the registry's start_paused set before it.
Init ==
    /\ tracker \in [Issues -> States]
    /\ trusted \in IF LabelEdits THEN SUBSET Issues ELSE {Issues}
    /\ running = [i \in Issues |-> NoRun]
    /\ entryState = Unseen
    /\ cancels = [i \in Issues |-> NoRun]
    /\ claimed = {}
    /\ retry = [i \in Issues |-> NoRetry]
    /\ timers = {}
    /\ wakes = [i \in Issues |-> 0]
    /\ worker = [r \in Runs |-> NoWorker]
    /\ results = <<>>
    /\ paused \in IF "project" \in Pausable THEN BOOLEAN ELSE {FALSE}
    /\ pausedStages = {}
    /\ slots = 0
    /\ waiting = FALSE
    /\ pc = "candidates"
    /\ cur = NoIssue
    /\ cands = {}
    /\ seen = Unseen
-----------------------------------------------------------------------------
(* What the handlers look up.                                              *)

Running   == {i \in Issues : running[i] # NoRun}
HasRetry  == {i \in Issues : retry[i] # NoRetry}
RunningIn(s) == {i \in Running : entryState[i] = s}

\* Mutant of CanDispatch: one entry too many.
CanDispatchOffByOne == Cardinality(Running) <= MaxAgents

\* canDispatch.
CanDispatch == Cardinality(Running) < MaxAgents

\* perStateSlots(state) > 0.
HasStateSlot(s) ==
    IF StateLimit[s] > 0 THEN Cardinality(RunningIn(s)) < StateLimit[s]
                         ELSE CanDispatch

StagePaused(s) == StageOf[s] \in pausedStages

\* pauseReason(stage) # "".
PausedFor(s) == paused \/ StagePaused(s)

\* What FetchIssueStatesByIDs or FetchCandidateIssues returns for some issues.
Fetched(ids) == [i \in Issues |-> IF i \in ids THEN tracker[i] ELSE Missing]

\* filterEligible, on the states and labels just fetched, for the issues that
\* have an open blocker.
Eligible(blocked) ==
    {i \in Issues : /\ tracker[i] \in ActiveStates
                    /\ i \notin Running
                    /\ i \notin claimed
                    /\ ~(tracker[i] = Todo /\ i \in blocked)
                    /\ i \in trusted}
-----------------------------------------------------------------------------
(* Parts of the handlers.                                                  *)

\* scheduleRetry's new entry: one more attempt than the entry it replaces.
NewRetry(i, k) ==
    [kind    |-> k,
     attempt |-> IF retry[i] = NoRetry THEN 1
                 ELSE IF retry[i].attempt < MaxAttempt THEN retry[i].attempt + 1
                 ELSE MaxAttempt,
     due     |-> FALSE]

\* scheduleRetry: claim the issue, stop the old timer, arm a new one.
ScheduleRetry(i, k) ==
    /\ claimed' = claimed \cup {i}
    /\ retry' = [retry EXCEPT ![i] = NewRetry(i, k)]
    /\ timers' = timers \cup {i}

\* releaseClaim of an issue that has no retry entry.
ReleaseClaim(i) ==
    /\ claimed' = claimed \ {i}
    /\ UNCHANGED retryVars

\* delete(RetryAttempts) and releaseClaim.  The timer is not stopped.
DropRetry(i) ==
    /\ claimed' = claimed \ {i}
    /\ retry' = [retry EXCEPT ![i] = NoRetry]
    /\ UNCHANGED timers

\* The handler returns to the select of loop().
BackToSelect ==
    /\ pc' = "idle"
    /\ cur' = NoIssue
    /\ cands' = {}
    /\ seen' = Unseen

\* The same for a handler whose last call is removeTerminalWorkspace, if the
\* issue's state s is terminal: a hook and git, which may take any time.
ReturnAfter(s) ==
    /\ pc' = IF s \in TerminalStates THEN "cleanup" ELSE "idle"
    /\ cur' = NoIssue
    /\ cands' = {}
    /\ seen' = Unseen

\* dispatch returned true: on to the next candidate.  The dispatch that a retry
\* starts has no other candidates.
NextOf(cs) ==
    IF cs = {} THEN BackToSelect
    ELSE /\ pc' = "next"
         /\ cur' = NoIssue
         /\ cands' = cs
         /\ seen' = seen

GoTo(point) ==
    /\ pc' = point
    /\ UNCHANGED <<cur, cands, seen>>

\* Mutant of Terminate: removeRunningLocked is forgotten.
TerminateKeepsEntry(ids) ==
    /\ worker' = [r \in Runs |->
          IF \E i \in ids : cancels[i] = r
          THEN [worker[r] EXCEPT !.cancelled = TRUE]
          ELSE worker[r]]
    /\ cancels' = [i \in Issues |-> IF i \in ids THEN NoRun ELSE cancels[i]]
    /\ slots' = slots - Cardinality(ids)
    /\ UNCHANGED running

\* terminateWorkerLocked and removeRunningLocked for a set of issues.
Terminate(ids) ==
    /\ worker' = [r \in Runs |->
          IF \E i \in ids : cancels[i] = r
          THEN [worker[r] EXCEPT !.cancelled = TRUE]
          ELSE worker[r]]
    /\ cancels' = [i \in Issues |-> IF i \in ids THEN NoRun ELSE cancels[i]]
    /\ running' = [i \in Issues |-> IF i \in ids THEN NoRun ELSE running[i]]
    /\ slots' = slots - Cardinality(ids)
-----------------------------------------------------------------------------
(* tick: reconcile, then dispatchEligibleIssues.                           *)

\* reconcile, part A and the fetch of part B.  Any tracked session may have
\* been silent for longer than the stall timeout.
Tick ==
    /\ pc = "idle"
    /\ \E stalled \in SUBSET Running, fetchOK \in BOOLEAN :
          LET left == Running \ stalled IN
          /\ Terminate(stalled)
          /\ entryState' = [i \in Issues |-> IF i \in stalled THEN Missing ELSE entryState[i]]
          /\ claimed' = claimed \cup stalled
          /\ retry' = [i \in Issues |->
                IF i \in stalled THEN NewRetry(i, "agent") ELSE retry[i]]
          /\ timers' = timers \cup stalled
          /\ IF left # {} /\ fetchOK
             THEN pc' = "apply" /\ seen' = Fetched(left)
             ELSE pc' = "candidates" /\ seen' = Unseen
    /\ UNCHANGED <<trackerVars, wakes, results, pauseVars, waiting, cur, cands>>

\* reconcile, part B after the fetch, on states that may be out of date by now.
ReconcileApply ==
    LET gone == {i \in Running : seen[i] \notin ActiveStates} IN
    /\ pc = "apply"
    /\ Terminate(gone)
    /\ entryState' = [i \in Issues |->
          IF i \in gone THEN Missing
          ELSE IF i \in Running THEN seen[i]
          ELSE entryState[i]]
    /\ claimed' = claimed \ gone
    /\ pc' = "candidates"
    /\ seen' = Unseen
    /\ UNCHANGED <<trackerVars, retryVars, wakes, results, pauseVars, waiting,
                   cur, cands>>

\* dispatchEligibleIssues when preflight is blocked or the fetch fails.
CandidatesFail ==
    /\ pc = "candidates"
    /\ BackToSelect
    /\ UNCHANGED <<trackerVars, entryVars, claimed, retryVars, wakes, workVars,
                   pauseVars, limiterVars>>

\* The fetch and filterEligible.  Any issue may have an open blocker.  Without
\* an eligible issue the project gives up its place in the supervisor's line.
FetchCandidates ==
    /\ pc = "candidates"
    /\ \E blocked \in SUBSET Issues :
          LET eligible == Eligible(blocked) IN
          IF eligible = {}
          THEN BackToSelect /\ waiting' = FALSE
          ELSE /\ pc' = "next"
               /\ cands' = eligible
               /\ seen' = Fetched(eligible)
               /\ UNCHANGED <<cur, waiting>>
    /\ UNCHANGED <<trackerVars, entryVars, claimed, retryVars, wakes, workVars,
                   pauseVars, slots>>

\* The loop over the candidates, in the order that sortIssues gave them.
NextCandidate ==
    /\ pc = "next"
    /\ IF CanDispatch
       THEN /\ \E i \in cands : cur' = i /\ cands' = cands \ {i}
            /\ pc' = "gate"
            /\ UNCHANGED <<seen, waiting>>
       ELSE BackToSelect /\ waiting' = FALSE
    /\ UNCHANGED <<trackerVars, entryVars, claimed, retryVars, wakes, workVars,
                   pauseVars, slots>>
-----------------------------------------------------------------------------
(* dispatch(issue).                                                        *)

\* dispatch returns before it claims the issue: the project or the stage is
\* paused, or the state has no free slot.  A paused project ends the tick.
GateRefuses ==
    /\ pc = "gate"
    /\ \/ paused /\ BackToSelect
       \/ /\ ~paused
          /\ StagePaused(seen[cur]) \/ ~HasStateSlot(seen[cur])
          /\ NextOf(cands)
    /\ UNCHANGED <<trackerVars, entryVars, claimed, retryVars, wakes, workVars,
                   pauseVars, limiterVars>>

\* Bound: no more sessions at a time than Runs has names.
RunLeft == \E r \in Runs : worker[r].phase = "free"

GateOpen == pc = "gate" /\ ~PausedFor(seen[cur]) /\ HasStateSlot(seen[cur])

\* The limiter says no: other projects hold the slots or are ahead in line.
SlotDenied ==
    /\ GateOpen
    /\ waiting' = TRUE
    /\ BackToSelect
    /\ UNCHANGED <<trackerVars, entryVars, claimed, retryVars, wakes, workVars,
                   pauseVars, slots>>

\* The limiter grants a slot and the issue is claimed.
SlotGranted ==
    /\ GateOpen
    /\ slots < SlotLimit
    /\ RunLeft
    /\ slots' = slots + 1
    /\ waiting' = FALSE
    /\ claimed' = claimed \cup {cur}
    /\ GoTo("prepare")
    /\ UNCHANGED <<trackerVars, entryVars, retryVars, wakes, workVars, pauseVars>>

\* Whether dispatch moves the issue to the working state.
MovesToWorking ==
    /\ WorkingState # Missing
    /\ StageOf[seen[cur]] = CodingStage
    /\ seen[cur] # WorkingState

\* TransitionIssueState succeeded: the issue in hand is the updated one.
MoveToWorking ==
    /\ tracker[cur] # Missing
    /\ tracker' = [tracker EXCEPT ![cur] = WorkingState]
    /\ seen' = [seen EXCEPT ![cur] = WorkingState]

\* PrepareWorkspace, the working-state transition and both hooks succeed.
PrepareOK ==
    /\ pc = "prepare"
    /\ IF MovesToWorking THEN MoveToWorking ELSE UNCHANGED <<tracker, seen>>
    /\ pc' = "recheck"
    /\ UNCHANGED <<trusted, entryVars, claimed, retryVars, wakes, workVars,
                   pauseVars, limiterVars, cur, cands>>

\* Mutant of PrepareFails: the error path does not give the slot back.
PrepareFailsKeepsSlot ==
    /\ pc = "prepare"
    /\ ScheduleRetry(cur, "agent")
    /\ NextOf(cands)
    /\ UNCHANGED <<trackerVars, entryVars, wakes, workVars, pauseVars, limiterVars>>

\* One of them fails; the hooks run after the transition.
PrepareFails ==
    /\ pc = "prepare"
    /\ \/ UNCHANGED tracker
       \/ /\ MovesToWorking
          /\ tracker[cur] # Missing
          /\ tracker' = [tracker EXCEPT ![cur] = WorkingState]
    /\ slots' = slots - 1
    /\ ScheduleRetry(cur, "agent")
    /\ NextOf(cands)
    /\ UNCHANGED <<trusted, entryVars, wakes, workVars, pauseVars, waiting>>

\* The pause check "immediately before launching the worker".
Recheck ==
    /\ pc = "recheck"
    /\ IF PausedFor(seen[cur])
       THEN /\ claimed' = claimed \ {cur}
            /\ slots' = slots - 1
            /\ IF paused THEN BackToSelect ELSE NextOf(cands)
       ELSE GoTo("launch") /\ UNCHANGED <<claimed, slots>>
    /\ UNCHANGED <<trackerVars, entryVars, retryVars, wakes, workVars, pauseVars,
                   waiting>>

\* Mutant of Launch: the cancel function is not put on file.
LaunchWithoutCancel ==
    /\ pc = "launch"
    /\ \E r \in Runs :
          /\ worker[r].phase = "free"
          /\ worker' = [worker EXCEPT ![r] =
                [issue |-> cur, phase |-> "running", result |-> "success",
                 cancelled |-> FALSE]]
          /\ running' = [running EXCEPT ![cur] = r]
    /\ entryState' = [entryState EXCEPT ![cur] = seen[cur]]
    /\ NextOf(cands)
    /\ UNCHANGED <<trackerVars, cancels, claimed, retryVars, wakes, results,
                   pauseVars, limiterVars>>

\* The running entry, the cancel function and the worker goroutine.  They are
\* set under separate locks; only Stop could tell.
Launch ==
    /\ pc = "launch"
    /\ \E r \in Runs :
          /\ worker[r].phase = "free"
          /\ worker' = [worker EXCEPT ![r] =
                [issue |-> cur, phase |-> "running", result |-> "success",
                 cancelled |-> FALSE]]
          /\ running' = [running EXCEPT ![cur] = r]
          /\ cancels' = [cancels EXCEPT ![cur] = r]
    /\ entryState' = [entryState EXCEPT ![cur] = seen[cur]]
    /\ NextOf(cands)
    /\ UNCHANGED <<trackerVars, claimed, retryVars, wakes, results, pauseVars,
                   limiterVars>>
-----------------------------------------------------------------------------
(* Workers.                                                                *)

\* runner.Run returns.  Before it returns nil it has fetched the issue's state
\* (continueDecision) and, if there is one, written it to the entry that the
\* issue has now.
WorkerFinishes(r) ==
    /\ worker[r].phase = "running"
    /\ \E o \in Outcomes :
          /\ worker' = [worker EXCEPT ![r].phase = "finished", ![r].result = o]
          /\ IF o = "success" /\ worker[r].issue \in Running /\ tracker[worker[r].issue] # Missing
             THEN entryState' = [entryState EXCEPT ![worker[r].issue] = tracker[worker[r].issue]]
             ELSE UNCHANGED entryState
    /\ UNCHANGED <<trackerVars, running, cancels, claimed, retryVars, wakes,
                   results, pauseVars, limiterVars, loopVars>>

\* The after_run hook ends.
AfterRun(r) ==
    /\ worker[r].phase = "finished"
    /\ worker' = [worker EXCEPT ![r].phase = "sending"]
    /\ UNCHANGED <<trackerVars, entryVars, claimed, retryVars, wakes, results, pauseVars,
                   limiterVars, loopVars>>

\* Mutant of WorkerDelivers: a send that does not wait for room.
WorkerDeliversOrDrops(r) ==
    /\ worker[r].phase = "sending"
    /\ results' = IF Len(results) < ResultCap THEN Append(results, r) ELSE results
    /\ worker' = [worker EXCEPT ![r].phase = "delivered"]
    /\ UNCHANGED <<trackerVars, entryVars, claimed, retryVars, wakes, pauseVars,
                   limiterVars, loopVars>>

\* Mutant of WorkerDelivers: a session that fails reports nothing.
WorkerDeliversSuccessOnly(r) ==
    /\ worker[r].phase = "sending"
    /\ Len(results) < ResultCap
    /\ results' = IF worker[r].result = "failed" THEN results ELSE Append(results, r)
    /\ worker' = [worker EXCEPT ![r].phase = "delivered"]
    /\ UNCHANGED <<trackerVars, entryVars, claimed, retryVars, wakes, pauseVars, limiterVars,
                   loopVars>>

\* The send on completedCh; it blocks while the channel is full.
WorkerDelivers(r) ==
    /\ worker[r].phase = "sending"
    /\ Len(results) < ResultCap
    /\ results' = Append(results, r)
    /\ worker' = [worker EXCEPT ![r].phase = "delivered"]
    /\ UNCHANGED <<trackerVars, entryVars, claimed, retryVars, wakes, pauseVars,
                   limiterVars, loopVars>>
-----------------------------------------------------------------------------
(* handleWorkerResult and the completion of an issue.                      *)

\* Mutant of HandleStaleResult: the slot is given back a second time.
HandleStaleResultReleases ==
    /\ pc = "idle"
    /\ results # <<>>
    /\ worker[Head(results)].issue \notin Running
    /\ results' = Tail(results)
    /\ worker' = [worker EXCEPT ![Head(results)] = NoWorker]
    /\ slots' = slots - 1
    /\ UNCHANGED <<trackerVars, entryVars, claimed, retryVars, wakes, pauseVars,
                   waiting, loopVars>>

\* The result of a worker whose issue has no running entry is dropped.
HandleStaleResult ==
    /\ pc = "idle"
    /\ results # <<>>
    /\ worker[Head(results)].issue \notin Running
    /\ results' = Tail(results)
    /\ worker' = [worker EXCEPT ![Head(results)] = NoWorker]
    /\ UNCHANGED <<trackerVars, entryVars, claimed, retryVars, wakes, pauseVars,
                   limiterVars, loopVars>>

\* The issue's entry and cancel function are removed, whichever worker they
\* were made for: a result carries the issue id only.
HandleWorkerResult ==
    LET r == Head(results)
        i == worker[r].issue
    IN
    /\ pc = "idle"
    /\ results # <<>>
    /\ i \in Running
    /\ results' = Tail(results)
    /\ worker' = [worker EXCEPT ![r] = NoWorker]
    /\ running' = [running EXCEPT ![i] = NoRun]
    /\ cancels' = [cancels EXCEPT ![i] = NoRun]
    /\ entryState' = [entryState EXCEPT ![i] = Missing]
    /\ slots' = slots - 1
    /\ \/ /\ worker[r].result = "failed"
          /\ ScheduleRetry(i, "agent")
          /\ UNCHANGED loopVars
       \/ /\ worker[r].result = "success" /\ entryState[i] \notin ActiveStates
          /\ ReleaseClaim(i)
          /\ ReturnAfter(entryState[i])
       \/ /\ \/ worker[r].result = "max_turns"
             \/ worker[r].result = "success" /\ entryState[i] \in ActiveStates
          /\ pc' = "complete"
          /\ cur' = i
          /\ UNCHANGED <<claimed, retryVars, cands, seen>>
    /\ UNCHANGED <<trackerVars, wakes, pauseVars, waiting>>

\* completeIssueAfterRun: the state check.
CompleteCheck ==
    /\ pc = "complete"
    /\ \/ /\ ScheduleRetry(cur, "completion_transition")
          /\ BackToSelect
       \/ /\ tracker[cur] \notin ActiveStates
          /\ ReleaseClaim(cur)
          /\ ReturnAfter(tracker[cur])
       \/ /\ tracker[cur] \in ActiveStates
          /\ pc' = "move"
          /\ seen' = Fetched({cur})
          /\ UNCHANGED <<claimed, retryVars, cur, cands>>
    /\ UNCHANGED <<trackerVars, entryVars, wakes, workVars, pauseVars, limiterVars>>

\* MoveIssueToState or MoveIssueToFirstAvailableState at the tracker, which sets
\* the state it is told to, whatever the state is by then.
MoveToSucc ==
    /\ tracker[cur] # Missing
    /\ \E s \in Succ[seen[cur]] : tracker' = [tracker EXCEPT ![cur] = s]

\* The move and markCompletionTransitioned.
MoveOK ==
    /\ pc = "move"
    /\ MoveToSucc
    /\ DropRetry(cur)
    /\ ReturnAfter(tracker'[cur])
    /\ UNCHANGED <<trusted, entryVars, wakes, workVars, pauseVars, limiterVars>>

\* The merge or the move fails, the move perhaps because the tracker's answer was
\* late or lost, or the review-resolution agent asked for
\* another pass (scheduleReviewResolutionRetryOrEscalate).  A completion that
\* is retried has lost the agent's message, so it cannot ask for a pass.
MoveRetries ==
    /\ pc = "move"
    /\ \/ /\ UNCHANGED tracker \/ MoveToSucc
          /\ ScheduleRetry(cur, "completion_transition")
       \/ /\ seen[cur] \in AgainStates
          /\ retry[cur] = NoRetry
          /\ ScheduleRetry(cur, "agent")
          /\ UNCHANGED tracker
    /\ BackToSelect
    /\ UNCHANGED <<trusted, entryVars, wakes, workVars, pauseVars, limiterVars>>

\* removeTerminalWorkspace ends.
CleanupEnds ==
    /\ pc = "cleanup"
    /\ BackToSelect
    /\ UNCHANGED <<trackerVars, entryVars, claimed, retryVars, wakes, workVars,
                   pauseVars, limiterVars>>
-----------------------------------------------------------------------------
(* handleRetry.                                                            *)

\* The loop receives an id from retryCh.
TakeWake(i) ==
    /\ pc = "idle"
    /\ wakes[i] > 0
    /\ wakes' = [wakes EXCEPT ![i] = @ - 1]

\* No entry any more, or one whose time has not come.
HandleStaleRetry(i) ==
    /\ TakeWake(i)
    /\ retry[i] # NoRetry => ~retry[i].due
    /\ UNCHANGED <<trackerVars, entryVars, claimed, retryVars, workVars, pauseVars,
                   limiterVars, loopVars>>

TakeDueRetry(i, k) ==
    /\ TakeWake(i)
    /\ retry[i] # NoRetry
    /\ retry[i].due
    /\ retry[i].kind = k

\* The entry is rescheduled: the tracker does not answer, or an agent retry
\* finds no free slot.
HandleRetryAgain(i) ==
    /\ \E k \in Kinds :
          /\ TakeDueRetry(i, k)
          /\ ScheduleRetry(i, k)
    /\ UNCHANGED <<trackerVars, entryVars, workVars, pauseVars, limiterVars, loopVars>>

\* The issue is gone or no longer active; a retried completion also removes the
\* workspace of a terminal issue.
HandleRetryReleased(i) ==
    /\ \E k \in Kinds :
          /\ TakeDueRetry(i, k)
          /\ ReturnAfter(IF k = "agent" THEN Missing ELSE tracker[i])
    /\ tracker[i] \notin ActiveStates
    /\ DropRetry(i)
    /\ UNCHANGED <<trackerVars, entryVars, workVars, pauseVars, limiterVars>>

\* Untrusted or paused: the entry is kept, nothing is armed for it.
HandleRetryDeferred(i) ==
    /\ \E k \in Kinds : TakeDueRetry(i, k)
    /\ tracker[i] \in ActiveStates
    /\ i \notin trusted \/ PausedFor(tracker[i])
    /\ UNCHANGED <<trackerVars, entryVars, claimed, retryVars, workVars, pauseVars,
                   limiterVars, loopVars>>

RetryMayProceed(i) ==
    /\ tracker[i] \in ActiveStates
    /\ i \in trusted
    /\ ~PausedFor(tracker[i])

\* Mutant of HandleAgentRetry: the entry stays while dispatch runs.
HandleAgentRetryKeepsEntry(i) ==
    /\ TakeDueRetry(i, "agent")
    /\ RetryMayProceed(i)
    /\ CanDispatch /\ HasStateSlot(tracker[i])
    /\ pc' = "gate"
    /\ cur' = i
    /\ seen' = Fetched({i})
    /\ UNCHANGED <<trackerVars, entryVars, claimed, retryVars, workVars, pauseVars,
                   limiterVars, cands>>

\* An agent retry with free slots: the entry is deleted, then dispatch runs.
HandleAgentRetry(i) ==
    /\ TakeDueRetry(i, "agent")
    /\ RetryMayProceed(i)
    /\ CanDispatch /\ HasStateSlot(tracker[i])
    /\ retry' = [retry EXCEPT ![i] = NoRetry]
    /\ pc' = "gate"
    /\ cur' = i
    /\ seen' = Fetched({i})
    /\ UNCHANGED <<trackerVars, entryVars, claimed, timers, workVars, pauseVars,
                   limiterVars, cands>>

\* handleCompletionTransitionRetry up to the move.
HandleCompletionRetry(i) ==
    /\ TakeDueRetry(i, "completion_transition")
    /\ RetryMayProceed(i)
    /\ pc' = "move"
    /\ cur' = i
    /\ seen' = Fetched({i})
    /\ UNCHANGED <<trackerVars, entryVars, claimed, retryVars, workVars, pauseVars,
                   limiterVars, cands>>
-----------------------------------------------------------------------------
(* The retry timers.  An issue has one armed timer here: a timer that was   *)
(* left running for a deleted entry counts as the next entry's.             *)

\* The clock reaches DueAtMs.
TimeReachesDue(i) ==
    /\ retry[i] # NoRetry
    /\ ~retry[i].due
    /\ retry' = [retry EXCEPT ![i].due = TRUE]
    /\ UNCHANGED <<trackerVars, entryVars, claimed, timers, wakes, workVars,
                   pauseVars, limiterVars, loopVars>>

\* The timer's function runs and sends the id.  DueAtMs is computed after the
\* timer is armed, so the function may run a moment before it: ClockSlack.
TimerFires(i) ==
    /\ i \in timers
    /\ retry[i] # NoRetry /\ ~ClockSlack => retry[i].due
    /\ wakes[i] < MaxWakes
    /\ timers' = timers \ {i}
    /\ wakes' = [wakes EXCEPT ![i] = @ + 1]
    /\ UNCHANGED <<trackerVars, entryVars, claimed, retry, workVars, pauseVars,
                   limiterVars, loopVars>>
-----------------------------------------------------------------------------
(* The operator and the people at the tracker.                             *)

PauseProject ==
    /\ "project" \in Pausable
    /\ paused' = TRUE
    /\ UNCHANGED <<trackerVars, entryVars, claimed, retryVars, wakes, workVars,
                   pausedStages, limiterVars, loopVars>>

PauseStage(s) ==
    /\ pausedStages' = pausedStages \cup {s}
    /\ UNCHANGED <<trackerVars, entryVars, claimed, retryVars, wakes, workVars,
                   paused, limiterVars, loopVars>>

\* Mutant of WakeRetries: the entries that are due already are left out.
WakeOnlyWaiting ==
    wakes' = [i \in Issues |-> IF i \in HasRetry /\ ~retry[i].due /\ wakes[i] < MaxWakes
                               THEN wakes[i] + 1
                               ELSE wakes[i]]

\* wakeAfterResume: one id for every entry, whatever its time.  The refresh
\* that it also asks for is a Tick, which may come at any time anyway.
WakeRetries ==
    wakes' = [i \in Issues |-> IF i \in HasRetry /\ wakes[i] < MaxWakes
                               THEN wakes[i] + 1
                               ELSE wakes[i]]

ResumeProject ==
    /\ "project" \in Pausable
    /\ paused' = FALSE
    /\ WakeRetries
    /\ UNCHANGED <<trackerVars, entryVars, claimed, retryVars, workVars,
                   pausedStages, limiterVars, loopVars>>

ResumeStage(s) ==
    /\ pausedStages' = pausedStages \ {s}
    /\ WakeRetries
    /\ UNCHANGED <<trackerVars, entryVars, claimed, retryVars, workVars,
                   paused, limiterVars, loopVars>>

\* Someone, a person or an agent, moves, archives or restores an issue.
EditState(i) ==
    /\ \E s \in EditStates \ {tracker[i]} :
          tracker' = [tracker EXCEPT ![i] = s]
    /\ UNCHANGED <<trusted, entryVars, claimed, retryVars, wakes, workVars,
                   pauseVars, limiterVars, loopVars>>

\* Someone adds or removes the trusted label.
EditLabel(i) ==
    /\ LabelEdits
    /\ trusted' = IF i \in trusted THEN trusted \ {i} ELSE trusted \cup {i}
    /\ UNCHANGED <<tracker, entryVars, claimed, retryVars, wakes, workVars,
                   pauseVars, limiterVars, loopVars>>
-----------------------------------------------------------------------------
\* A handler that the loop has begun goes on.
LoopContinues ==
    \/ ReconcileApply
    \/ CandidatesFail
    \/ FetchCandidates
    \/ NextCandidate
    \/ GateRefuses
    \/ SlotDenied
    \/ SlotGranted
    \/ PrepareOK
    \/ PrepareFails
    \/ Recheck
    \/ Launch
    \/ CompleteCheck
    \/ MoveOK
    \/ MoveRetries
    \/ CleanupEnds

HandleResult == HandleStaleResult \/ HandleWorkerResult

HandleRetry(i) ==
    \/ HandleStaleRetry(i)
    \/ HandleRetryAgain(i)
    \/ HandleRetryReleased(i)
    \/ HandleRetryDeferred(i)
    \/ HandleAgentRetry(i)
    \/ HandleCompletionRetry(i)

Operator ==
    \/ PauseProject
    \/ ResumeProject
    \/ \E s \in Pausable \cap Stages : PauseStage(s) \/ ResumeStage(s)

Next ==
    \/ Tick
    \/ LoopContinues
    \/ HandleResult
    \/ \E i \in Issues : HandleRetry(i)
    \/ \E r \in Runs : WorkerFinishes(r) \/ AfterRun(r) \/ WorkerDelivers(r)
    \/ \E i \in Issues : TimeReachesDue(i) \/ TimerFires(i)
    \/ Operator
    \/ \E i \in Issues : EditState(i) \/ EditLabel(i)

Spec == Init /\ [][Next]_vars

\* Go's select chooses among the ready cases at random and serves the senders of
\* a channel in their order, so a result that is ready time and again is sent
\* and received.  Nothing else is fair: a handler runs git, gh and hooks, an
\* agent or a hook may leave a child that holds its output, and none of these
\* is bounded.
Fairness ==
    /\ \A r \in Runs : SF_vars(WorkerDelivers(r))
    /\ SF_vars(HandleResult)

FairSpec == Spec /\ Fairness
-----------------------------------------------------------------------------
(* What the scheduling core promises.                                      *)

\* The issue that dispatch has claimed and not launched or given back yet.
InDispatch == IF pc \in {"prepare", "recheck", "launch"} THEN {cur} ELSE {}

\* The issue whose running entry is gone and whose completion is under way.
InCompletion == IF pc \in {"complete", "move"} THEN {cur} ELSE {}

\* The claim is what keeps two owners from an issue: whoever holds one (a
\* running entry, a retry entry, the dispatch or the completion in progress)
\* holds a claim, and only a retried completion keeps its retry entry at work.
ClaimDiscipline ==
    /\ Running \cup HasRetry \cup InDispatch \cup InCompletion \subseteq claimed
    /\ Running \cap HasRetry = {}
    /\ InDispatch \cap (Running \cup HasRetry) = {}
    /\ InCompletion \cap Running = {}

\* Every slot that the project took from the supervisor's limiter belongs to a
\* running entry or to the dispatch in progress, on every path through dispatch,
\* reconcile and handleWorkerResult: none is lost, none is given back twice.
SlotsConserved == slots = Cardinality(Running) + Cardinality(InDispatch)

\* agent.max_concurrent_agents bounds the running entries, although the count
\* is checked long before the entry is made.
WithinMaxAgents == Cardinality(Running) <= MaxAgents

\* A running entry stands for a session that is alive or whose result has not
\* been handled, that nobody cancelled, and that can still be cancelled: stall
\* detection and reconcile reach the worker that the entry was made for.
RunningEntryIsBacked ==
    \A i \in Running :
        /\ worker[running[i]].issue = i
        /\ worker[running[i]].phase # "free"
        /\ ~worker[running[i]].cancelled
        /\ cancels[i] = running[i]

\* A worker's result waits in completedCh once, and nothing else does.
ResultsAreDelivered ==
    /\ \A k \in DOMAIN results : worker[results[k]].phase = "delivered"
    /\ \A r \in Runs : worker[r].phase = "delivered" =>
            \E k \in DOMAIN results : results[k] = r
    /\ \A j, k \in DOMAIN results : results[j] = results[k] => j = k

\* While nobody takes labels away and timers fire on time, a retry entry that
\* nothing will wake is one that a pause parked, and the resume wakes it.
Parked(i) ==
    /\ i \in HasRetry \ InCompletion
    /\ i \notin timers
    /\ wakes[i] = 0

ParkedOnlyWhilePaused ==
    \A i \in Issues : Parked(i) => paused \/ pausedStages # {}

\* A dispatch never puts a new session in the place of one that still has its
\* running entry: the old one's cancel function and slot would be lost.
EntryNotOverwritten ==
    [][\A i \in Issues : running[i] # NoRun => running'[i] \in {running[i], NoRun}]_running

\* Unless the loop hangs in a handler, a running entry outlasts its session only
\* for a time: it goes, even with the result channel full and other results,
\* retries and ticks competing for the loop, if its worker gets as far as
\* sending the result, that is, if runner.Run and the after_run hook return.
LoopHangs == <>[](pc # "idle")
WorkerHangs(r) == <>[](worker[r].phase \in {"running", "finished"})

SessionsEnd ==
    \/ LoopHangs
    \/ \A i \in Issues, r \in Runs :
          WorkerHangs(r) \/ (running[i] = r ~> running[i] # r)
-----------------------------------------------------------------------------
(* What a doc or a comment says and the code does not keep.                *)

\* docs/operations.md: "Failures are retried".  A claimed issue is skipped by
\* every tick, so a claim that nobody owns is never retried.
ClaimsAreOwned ==
    pc = "idle" => claimed \subseteq Running \cup HasRetry
=============================================================================

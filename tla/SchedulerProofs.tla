-------------------------- MODULE SchedulerProofs --------------------------
(***************************************************************************)
(* Proofs about Scheduler, for any number of issues, workers and states    *)
(* and for any limits.                                                     *)
(***************************************************************************)
EXTENDS Scheduler, SequenceTheorems, FiniteSetTheorems, TLAPS

USE DEF trackerVars, entryVars, retryVars, workVars, pauseVars, limiterVars, loopVars

(***************************************************************************)
(* The inductive invariant.  ClaimDiscipline and SlotsConserved say who    *)
(* owns an issue and a slot; what they do not say is what the loop still   *)
(* relies on between the steps of a handler, after it gave up o.mu:        *)
(* HandInv.                                                                *)
(***************************************************************************)
Dispatching == {"gate", "prepare", "recheck", "launch"}

HandInv ==
    /\ pc \in Dispatching \cup {"complete", "move"} => cur \in Issues
    /\ pc \in Dispatching \cup {"move"} => seen[cur] \in ActiveStates
    /\ pc \in Dispatching => /\ cur \notin Running \cup HasRetry
                             /\ cur \notin cands
                             /\ Cardinality(Running) < MaxAgents
    /\ pc = "complete" => cur \notin HasRetry
    /\ pc \in Dispatching \cup {"next"} =>
          \A i \in cands : seen[i] \in ActiveStates /\ i \notin Running \cup HasRetry
    /\ pc \notin Dispatching \cup {"next"} => cands = {}

IInv ==
    /\ TypeOK
    /\ HandInv
    /\ ClaimDiscipline
    /\ SlotsConserved
    /\ WithinMaxAgents
    /\ RunningEntryIsBacked
-----------------------------------------------------------------------------
(* Facts about the helpers.                                                *)

LEMMA NewRetryIsEntry ==
  ASSUME TypeOK, NEW i \in Issues, NEW k \in Kinds
  PROVE  NewRetry(i, k) \in RetryEntries
<1>1. retry[i] # NoRetry => retry[i] \in RetryEntries
  BY DEF TypeOK
<1>2. retry[i] # NoRetry => retry[i].attempt \in 1..MaxAttempt
  BY <1>1 DEF RetryEntries
<1>3. 1 \in 1..MaxAttempt /\ MaxAttempt \in 1..MaxAttempt
  BY LimitsAssumption
<1>4. retry[i] # NoRetry /\ retry[i].attempt < MaxAttempt
        => retry[i].attempt + 1 \in 1..MaxAttempt
  BY <1>2, LimitsAssumption
<1> QED
  BY <1>3, <1>4 DEF NewRetry, RetryEntries

LEMMA EntryIsNotNoRetry == NoRetry \notin RetryEntries
  BY NamesAssumption DEF RetryEntries

LEMMA RunningIsFinite ==
  /\ IsFiniteSet(Running)
  /\ Cardinality(Running) \in Nat
<1>1. IsFiniteSet(Running)
  BY FS_Subset, NamesAssumption DEF Running
<1> QED
  BY <1>1, FS_CardinalityType

(* What the account of the slots says in numbers.                          *)
LEMMA SlotFacts ==
  ASSUME IInv
  PROVE  /\ slots \in 0..SlotLimit /\ SlotLimit \in Nat
         /\ pc \in {"prepare", "recheck", "launch"} => slots = Cardinality(Running) + 1
         /\ pc \notin {"prepare", "recheck", "launch"} => slots = Cardinality(Running)
<1>1. Cardinality({}) = 0 /\ Cardinality({cur}) = 1
  BY FS_EmptySet, FS_Singleton
<1> QED
  BY <1>1, RunningIsFinite, LimitsAssumption DEF IInv, TypeOK, SlotsConserved, InDispatch

LEMMA TerminateCount ==
  ASSUME NEW ids \in SUBSET Running
  PROVE  /\ Cardinality(ids) \in Nat
         /\ Cardinality(ids) <= Cardinality(Running)
         /\ Cardinality(Running \ ids) = Cardinality(Running) - Cardinality(ids)
<1>1. Running \cap ids = ids
  OBVIOUS
<1>2. IsFiniteSet(ids) /\ Cardinality(ids) <= Cardinality(Running)
  BY RunningIsFinite, FS_Subset
<1>3. Cardinality(ids) \in Nat
  BY <1>2, FS_CardinalityType
<1>4. Cardinality(Running \ ids) = Cardinality(Running) - Cardinality(Running \cap ids)
  BY RunningIsFinite, FS_Difference
<1> QED
  BY <1>1, <1>2, <1>3, <1>4

(* Running after Terminate.                                                *)
LEMMA TerminateRunning ==
  ASSUME TypeOK, NEW ids \in SUBSET Running, Terminate(ids)
  PROVE  Running' = Running \ ids
  BY NamesAssumption DEF Terminate, TypeOK, Running
-----------------------------------------------------------------------------
LEMMA InitIInv == Init => IInv
<1> SUFFICES ASSUME Init PROVE IInv
  OBVIOUS
<1>1. TypeOK
  <2>1. /\ tracker \in [Issues -> States \cup {Missing}]
        /\ trusted \in SUBSET Issues
        /\ running \in [Issues -> Runs \cup {NoRun}]
        /\ cancels \in [Issues -> Runs \cup {NoRun}]
        /\ retry \in [Issues -> RetryEntries \cup {NoRetry}]
    BY DEF Init
  <2>2. Unseen \in [Issues -> States \cup {Missing}]
    BY DEF Unseen
  <2>3. 0 \in 0..MaxWakes /\ 0 \in 0..SlotLimit
    BY LimitsAssumption
  <2>4. NoWorker \in Workers
    BY DEF NoWorker, Workers, Outcomes
  <2>5. wakes \in [Issues -> 0..MaxWakes] /\ worker \in [Runs -> Workers]
    BY <2>3, <2>4 DEF Init
  <2>6. results \in Seq(Runs)
    BY EmptySeq DEF Init
  <2>7. paused \in BOOLEAN
    BY DEF Init
  <2> QED
    BY <2>1, <2>2, <2>3, <2>5, <2>6, <2>7 DEF Init, TypeOK, LoopPoints
<1>2. Running = {} /\ HasRetry = {}
  BY DEF Init, Running, HasRetry
<1>3. Cardinality({}) = 0
  BY FS_EmptySet
<1>4. HandInv
  BY DEF Init, HandInv, Dispatching
<1>5. ClaimDiscipline
  BY <1>2 DEF Init, ClaimDiscipline, InDispatch, InCompletion
<1>6. SlotsConserved /\ WithinMaxAgents
  BY <1>2, <1>3, LimitsAssumption DEF Init, SlotsConserved, WithinMaxAgents, InDispatch
<1>7. RunningEntryIsBacked
  BY <1>2 DEF RunningEntryIsBacked
<1> QED
  BY <1>1, <1>4, <1>5, <1>6, <1>7 DEF IInv
-----------------------------------------------------------------------------
(* Typing.  The helpers first.                                             *)

LEMMA BackToSelectType ==
  ASSUME BackToSelect
  PROVE  /\ pc' \in LoopPoints
         /\ cur' \in Issues \cup {NoIssue}
         /\ cands' \in SUBSET Issues
         /\ seen' \in [Issues -> States \cup {Missing}]
  BY DEF BackToSelect, LoopPoints, Unseen

LEMMA ReturnAfterType ==
  ASSUME NEW s, ReturnAfter(s)
  PROVE  /\ pc' \in LoopPoints
         /\ cur' \in Issues \cup {NoIssue}
         /\ cands' \in SUBSET Issues
         /\ seen' \in [Issues -> States \cup {Missing}]
  BY DEF ReturnAfter, LoopPoints, Unseen

LEMMA NextOfType ==
  ASSUME TypeOK, NextOf(cands)
  PROVE  /\ pc' \in LoopPoints
         /\ cur' \in Issues \cup {NoIssue}
         /\ cands' \in SUBSET Issues
         /\ seen' \in [Issues -> States \cup {Missing}]
  BY BackToSelectType DEF TypeOK, NextOf, LoopPoints

LEMMA ScheduleRetryType ==
  ASSUME TypeOK, NEW i \in Issues, NEW k \in Kinds, ScheduleRetry(i, k)
  PROVE  /\ claimed' \in SUBSET Issues
         /\ retry' \in [Issues -> RetryEntries \cup {NoRetry}]
         /\ timers' \in SUBSET Issues
  BY NewRetryIsEntry DEF TypeOK, ScheduleRetry

LEMMA DropRetryType ==
  ASSUME TypeOK, NEW i \in Issues, DropRetry(i)
  PROVE  /\ claimed' \in SUBSET Issues
         /\ retry' \in [Issues -> RetryEntries \cup {NoRetry}]
         /\ timers' \in SUBSET Issues
  BY DEF TypeOK, DropRetry

LEMMA WorkerUpdates ==
  \A w \in Workers :
      /\ [w EXCEPT !.cancelled = TRUE] \in Workers
      /\ [w EXCEPT !.phase = "sending"] \in Workers
      /\ [w EXCEPT !.phase = "delivered"] \in Workers
      /\ \A o \in Outcomes : [w EXCEPT !.phase = "finished", !.result = o] \in Workers
  BY DEF Workers

LEMMA TerminateType ==
  ASSUME IInv, pc \in {"idle", "apply"}, NEW ids \in SUBSET Running, Terminate(ids)
  PROVE  /\ worker' \in [Runs -> Workers]
         /\ cancels' \in [Issues -> Runs \cup {NoRun}]
         /\ running' \in [Issues -> Runs \cup {NoRun}]
         /\ slots' \in 0..SlotLimit
<1>1. worker' \in [Runs -> Workers]
  BY WorkerUpdates DEF IInv, TypeOK, Terminate
<1>2. slots' \in 0..SlotLimit
  <2>1. slots = Cardinality(Running) /\ slots \in 0..SlotLimit /\ SlotLimit \in Nat
    BY SlotFacts
  <2>2. Cardinality(ids) \in Nat /\ Cardinality(ids) <= Cardinality(Running)
    BY TerminateCount
  <2> QED
    BY <2>1, <2>2 DEF Terminate
<1> QED
  BY <1>1, <1>2 DEF IInv, TypeOK, Terminate

LEMMA FetchedType ==
  ASSUME TypeOK, NEW ids
  PROVE  Fetched(ids) \in [Issues -> States \cup {Missing}]
  BY DEF TypeOK, Fetched

LEMMA TakeWakeType ==
  ASSUME TypeOK, NEW i \in Issues, TakeWake(i)
  PROVE  wakes' \in [Issues -> 0..MaxWakes]
<1>1. wakes[i] - 1 \in 0..MaxWakes
  BY LimitsAssumption DEF TypeOK, TakeWake
<1> QED
  BY <1>1 DEF TypeOK, TakeWake

LEMMA WakeRetriesType ==
  ASSUME TypeOK, WakeRetries
  PROVE  wakes' \in [Issues -> 0..MaxWakes]
<1>1. \A i \in Issues : wakes[i] < MaxWakes => wakes[i] + 1 \in 0..MaxWakes
  BY LimitsAssumption DEF TypeOK
<1> QED
  BY <1>1 DEF TypeOK, WakeRetries

LEMMA ResultType ==
  ASSUME TypeOK, results # <<>>
  PROVE  Head(results) \in Runs /\ Tail(results) \in Seq(Runs)
  BY HeadTailProperties DEF TypeOK

LEMMA TypeNext == IInv /\ [Next]_vars => TypeOK'
<1> SUFFICES ASSUME IInv, [Next]_vars PROVE TypeOK'
  OBVIOUS
<1> USE DEF IInv
<1>1. ASSUME Tick PROVE TypeOK'
  <2>1. PICK stalled \in SUBSET Running, fetchOK \in BOOLEAN :
              /\ Terminate(stalled)
              /\ entryState' = [i \in Issues |->
                    IF i \in stalled THEN Missing ELSE entryState[i]]
              /\ claimed' = claimed \cup stalled
              /\ retry' = [i \in Issues |->
                    IF i \in stalled THEN NewRetry(i, "agent") ELSE retry[i]]
              /\ timers' = timers \cup stalled
              /\ IF Running \ stalled # {} /\ fetchOK
                 THEN pc' = "apply" /\ seen' = Fetched(Running \ stalled)
                 ELSE pc' = "candidates" /\ seen' = Unseen
    BY <1>1 DEF Tick
  <2>2. /\ worker' \in [Runs -> Workers]
        /\ cancels' \in [Issues -> Runs \cup {NoRun}]
        /\ running' \in [Issues -> Runs \cup {NoRun}]
        /\ slots' \in 0..SlotLimit
    BY <1>1, <2>1, TerminateType DEF Tick
  <2>3. /\ entryState' \in [Issues -> States \cup {Missing}]
        /\ claimed' \in SUBSET Issues
        /\ timers' \in SUBSET Issues
    BY <2>1 DEF TypeOK, Running
  <2>4. retry' \in [Issues -> RetryEntries \cup {NoRetry}]
    BY <2>1, NewRetryIsEntry DEF TypeOK, Kinds
  <2>5. pc' \in LoopPoints /\ seen' \in [Issues -> States \cup {Missing}]
    BY <2>1, FetchedType DEF LoopPoints, Unseen
  <2> QED
    BY <1>1, <2>2, <2>3, <2>4, <2>5 DEF TypeOK, Tick
<1>2. ASSUME HandleWorkerResult PROVE TypeOK'
  <2> DEFINE r == Head(results)
             i == worker[r].issue
  <2>1. r \in Runs /\ i \in Issues /\ i \in Running
    BY <1>2, ResultType DEF HandleWorkerResult, Running
  <2>2. results' \in Seq(Runs)
    BY <1>2, ResultType DEF HandleWorkerResult
  <2>3. worker' \in [Runs -> Workers]
    BY <1>2 DEF TypeOK, HandleWorkerResult, NoWorker, Workers, Outcomes
  <2>4. slots' \in 0..SlotLimit
    <3>1. Cardinality(Running) # 0
      BY <2>1, RunningIsFinite, FS_EmptySet
    <3> QED
      BY <1>2, <3>1, SlotFacts, RunningIsFinite DEF HandleWorkerResult
  <2>5. /\ running' \in [Issues -> Runs \cup {NoRun}]
        /\ cancels' \in [Issues -> Runs \cup {NoRun}]
        /\ entryState' \in [Issues -> States \cup {Missing}]
    BY <1>2 DEF TypeOK, HandleWorkerResult
  <2>6. /\ claimed' \in SUBSET Issues
        /\ retry' \in [Issues -> RetryEntries \cup {NoRetry}]
        /\ timers' \in SUBSET Issues
    BY <1>2, <2>1, ScheduleRetryType DEF TypeOK, HandleWorkerResult, ReleaseClaim, Kinds
  <2>7. /\ pc' \in LoopPoints
        /\ cur' \in Issues \cup {NoIssue}
        /\ cands' \in SUBSET Issues
        /\ seen' \in [Issues -> States \cup {Missing}]
    BY <1>2, <2>1, ReturnAfterType DEF TypeOK, HandleWorkerResult, LoopPoints
  <2> QED
    BY <1>2, <2>2, <2>3, <2>4, <2>5, <2>6, <2>7 DEF TypeOK, HandleWorkerResult
<1>3. ASSUME FetchCandidates PROVE TypeOK'
  <2>1. PICK blocked \in SUBSET Issues :
              IF Eligible(blocked) = {}
              THEN BackToSelect /\ waiting' = FALSE
              ELSE /\ pc' = "next"
                   /\ cands' = Eligible(blocked)
                   /\ seen' = Fetched(Eligible(blocked))
                   /\ UNCHANGED <<cur, waiting>>
    BY <1>3 DEF FetchCandidates
  <2>2. /\ Eligible(blocked) \in SUBSET Issues
        /\ Fetched(Eligible(blocked)) \in [Issues -> States \cup {Missing}]
    BY FetchedType DEF Eligible
  <2>3. /\ pc' \in LoopPoints
        /\ cur' \in Issues \cup {NoIssue}
        /\ cands' \in SUBSET Issues
        /\ seen' \in [Issues -> States \cup {Missing}]
        /\ waiting' \in BOOLEAN
    BY <2>1, <2>2, BackToSelectType DEF TypeOK, LoopPoints
  <2> QED
    BY <1>3, <2>3 DEF TypeOK, FetchCandidates
<1>4. ASSUME NEW r \in Runs, WorkerFinishes(r) PROVE TypeOK'
  <2>1. PICK o \in Outcomes :
              worker' = [worker EXCEPT ![r].phase = "finished", ![r].result = o]
    BY <1>4 DEF WorkerFinishes
  <2>2. [worker[r] EXCEPT !.phase = "finished", !.result = o] \in Workers
    BY WorkerUpdates DEF TypeOK
  <2>3. worker' \in [Runs -> Workers]
    BY <2>1, <2>2 DEF TypeOK
  <2>4. entryState' \in [Issues -> States \cup {Missing}]
    <3>1. \/ entryState' = entryState
          \/ /\ worker[r].issue \in Issues
             /\ entryState' = [entryState EXCEPT ![worker[r].issue] = tracker[worker[r].issue]]
      BY <1>4 DEF WorkerFinishes, Running
    <3>2. entryState \in [Issues -> States \cup {Missing}]
      BY DEF TypeOK
    <3>3. tracker \in [Issues -> States \cup {Missing}]
      BY DEF TypeOK
    <3> QED
      BY <3>1, <3>2, <3>3
  <2> QED
    BY <1>4, <2>3, <2>4 DEF TypeOK, WorkerFinishes
<1>5. ASSUME ReconcileApply PROVE TypeOK'
  <2>1. /\ worker' \in [Runs -> Workers]
        /\ cancels' \in [Issues -> Runs \cup {NoRun}]
        /\ running' \in [Issues -> Runs \cup {NoRun}]
        /\ slots' \in 0..SlotLimit
    BY <1>5, TerminateType DEF ReconcileApply
  <2>2. entryState' \in [Issues -> States \cup {Missing}]
    BY <1>5 DEF TypeOK, ReconcileApply
  <2> QED
    BY <1>5, <2>1, <2>2 DEF TypeOK, ReconcileApply, LoopPoints, Unseen
<1>6. ASSUME CandidatesFail PROVE TypeOK'
  BY <1>6, BackToSelectType DEF TypeOK, CandidatesFail
<1>7. ASSUME NextCandidate PROVE TypeOK'
  <2>1. /\ pc' \in LoopPoints
        /\ cur' \in Issues \cup {NoIssue}
        /\ cands' \in SUBSET Issues
        /\ seen' \in [Issues -> States \cup {Missing}]
        /\ waiting' \in BOOLEAN
    BY <1>7, BackToSelectType DEF TypeOK, NextCandidate, LoopPoints
  <2> QED
    BY <1>7, <2>1 DEF TypeOK, NextCandidate
<1>8. ASSUME GateRefuses PROVE TypeOK'
  BY <1>8, BackToSelectType, NextOfType DEF TypeOK, GateRefuses
<1>9. ASSUME SlotDenied PROVE TypeOK'
  BY <1>9, BackToSelectType DEF TypeOK, SlotDenied
<1>10. ASSUME SlotGranted PROVE TypeOK'
  <2>1. slots' \in 0..SlotLimit
    BY <1>10, LimitsAssumption DEF TypeOK, SlotGranted
  <2>2. cur \in Issues
    BY <1>10 DEF HandInv, Dispatching, SlotGranted, GateOpen
  <2> QED
    BY <1>10, <2>1, <2>2 DEF TypeOK, SlotGranted, GoTo, LoopPoints
<1>11. ASSUME PrepareOK PROVE TypeOK'
  <2>1. cur \in Issues
    BY <1>11 DEF HandInv, Dispatching, PrepareOK
  <2>2. /\ tracker' \in [Issues -> States \cup {Missing}]
        /\ seen' \in [Issues -> States \cup {Missing}]
    BY <1>11, <2>1, PipelineAssumption DEF TypeOK, PrepareOK, MoveToWorking, MovesToWorking, States
  <2> QED
    BY <1>11, <2>1, <2>2 DEF TypeOK, PrepareOK, LoopPoints
<1>12. ASSUME PrepareFails PROVE TypeOK'
  <2>1. cur \in Issues
    BY <1>12 DEF HandInv, Dispatching, PrepareFails
  <2>2. tracker' \in [Issues -> States \cup {Missing}]
    BY <1>12, <2>1, PipelineAssumption DEF TypeOK, PrepareFails, MovesToWorking, States
  <2>3. slots' \in 0..SlotLimit
    BY <1>12, SlotFacts, RunningIsFinite DEF PrepareFails
  <2>4. /\ claimed' \in SUBSET Issues
        /\ retry' \in [Issues -> RetryEntries \cup {NoRetry}]
        /\ timers' \in SUBSET Issues
    BY <1>12, <2>1, ScheduleRetryType DEF PrepareFails, Kinds
  <2> QED
    BY <1>12, <2>1, <2>2, <2>3, <2>4, NextOfType DEF TypeOK, PrepareFails
<1>13. ASSUME Recheck PROVE TypeOK'
  <2>1. slots' \in 0..SlotLimit
    BY <1>13, SlotFacts, RunningIsFinite DEF TypeOK, Recheck
  <2>2. /\ pc' \in LoopPoints
        /\ cur' \in Issues \cup {NoIssue}
        /\ cands' \in SUBSET Issues
        /\ seen' \in [Issues -> States \cup {Missing}]
    BY <1>13, BackToSelectType, NextOfType DEF TypeOK, Recheck, GoTo, LoopPoints
  <2>3. claimed' \in SUBSET Issues
    BY <1>13 DEF TypeOK, Recheck
  <2> QED
    BY <1>13, <2>1, <2>2, <2>3 DEF TypeOK, Recheck
<1>14. ASSUME Launch PROVE TypeOK'
  <2>1. cur \in Issues
    BY <1>14 DEF HandInv, Dispatching, Launch
  <2>2. /\ worker' \in [Runs -> Workers]
        /\ running' \in [Issues -> Runs \cup {NoRun}]
        /\ cancels' \in [Issues -> Runs \cup {NoRun}]
        /\ entryState' \in [Issues -> States \cup {Missing}]
    BY <1>14, <2>1 DEF TypeOK, Launch, Workers, Outcomes
  <2> QED
    BY <1>14, <2>1, <2>2, NextOfType DEF TypeOK, Launch
<1>15. ASSUME CompleteCheck PROVE TypeOK'
  <2>1. cur \in Issues
    BY <1>15 DEF HandInv, CompleteCheck
  <2>2. /\ claimed' \in SUBSET Issues
        /\ retry' \in [Issues -> RetryEntries \cup {NoRetry}]
        /\ timers' \in SUBSET Issues
    BY <1>15, <2>1, ScheduleRetryType DEF TypeOK, CompleteCheck, ReleaseClaim, Kinds
  <2>3. /\ pc' \in LoopPoints
        /\ cur' \in Issues \cup {NoIssue}
        /\ cands' \in SUBSET Issues
        /\ seen' \in [Issues -> States \cup {Missing}]
    BY <1>15, BackToSelectType, ReturnAfterType, FetchedType DEF TypeOK, CompleteCheck, LoopPoints
  <2> QED
    BY <1>15, <2>1, <2>2, <2>3 DEF TypeOK, CompleteCheck
<1>16. ASSUME MoveOK PROVE TypeOK'
  <2>1. cur \in Issues /\ seen[cur] \in ActiveStates
    BY <1>16 DEF HandInv, MoveOK
  <2>2. tracker' \in [Issues -> States \cup {Missing}]
    BY <1>16, <2>1, PipelineAssumption DEF TypeOK, MoveOK, MoveToSucc
  <2> QED
    BY <1>16, <2>1, <2>2, ReturnAfterType, DropRetryType DEF TypeOK, MoveOK
<1>17. ASSUME MoveRetries PROVE TypeOK'
  <2>1. cur \in Issues /\ seen[cur] \in ActiveStates
    BY <1>17 DEF HandInv, MoveRetries
  <2>2. tracker' \in [Issues -> States \cup {Missing}]
    <3>1. tracker' = tracker \/ MoveToSucc
      BY <1>17 DEF MoveRetries
    <3>2. CASE tracker' = tracker
      BY <3>2 DEF TypeOK
    <3>3. CASE MoveToSucc
      BY <2>1, <3>3, PipelineAssumption DEF TypeOK, MoveToSucc
    <3> QED
      BY <3>1, <3>2, <3>3
  <2>3. /\ claimed' \in SUBSET Issues
        /\ retry' \in [Issues -> RetryEntries \cup {NoRetry}]
        /\ timers' \in SUBSET Issues
    BY <1>17, <2>1, ScheduleRetryType DEF MoveRetries, Kinds
  <2> QED
    BY <1>17, <2>1, <2>2, <2>3, BackToSelectType DEF TypeOK, MoveRetries
<1>18. ASSUME HandleStaleResult PROVE TypeOK'
  <2>1. results' \in Seq(Runs)
    BY <1>18, ResultType DEF HandleStaleResult
  <2>2. worker' \in [Runs -> Workers]
    BY <1>18 DEF TypeOK, HandleStaleResult, NoWorker, Workers, Outcomes
  <2> QED
    BY <1>18, <2>1, <2>2 DEF TypeOK, HandleStaleResult
<1>19. ASSUME NEW i \in Issues, HandleRetryDeferred(i) PROVE TypeOK'
  BY <1>19, TakeWakeType DEF TypeOK, HandleRetryDeferred, TakeDueRetry
<1>20. ASSUME NEW i \in Issues, HandleStaleRetry(i) PROVE TypeOK'
  BY <1>20, TakeWakeType DEF TypeOK, HandleStaleRetry
<1>21. ASSUME NEW i \in Issues, HandleRetryAgain(i) PROVE TypeOK'
  <2>1. wakes' \in [Issues -> 0..MaxWakes]
    BY <1>21, TakeWakeType DEF HandleRetryAgain, TakeDueRetry
  <2>2. /\ claimed' \in SUBSET Issues
        /\ retry' \in [Issues -> RetryEntries \cup {NoRetry}]
        /\ timers' \in SUBSET Issues
    BY <1>21, ScheduleRetryType DEF HandleRetryAgain
  <2> QED
    BY <1>21, <2>1, <2>2 DEF TypeOK, HandleRetryAgain
<1>22. ASSUME NEW i \in Issues, HandleRetryReleased(i) PROVE TypeOK'
  <2>1. wakes' \in [Issues -> 0..MaxWakes]
    BY <1>22, TakeWakeType DEF HandleRetryReleased, TakeDueRetry
  <2> QED
    BY <1>22, <2>1, DropRetryType, ReturnAfterType DEF TypeOK, HandleRetryReleased
<1>23. ASSUME NEW i \in Issues, HandleAgentRetry(i) PROVE TypeOK'
  <2>1. wakes' \in [Issues -> 0..MaxWakes]
    BY <1>23, TakeWakeType DEF HandleAgentRetry, TakeDueRetry
  <2> QED
    BY <1>23, <2>1, FetchedType DEF TypeOK, HandleAgentRetry, LoopPoints
<1>24. ASSUME NEW i \in Issues, HandleCompletionRetry(i) PROVE TypeOK'
  <2>1. wakes' \in [Issues -> 0..MaxWakes]
    BY <1>24, TakeWakeType DEF HandleCompletionRetry, TakeDueRetry
  <2> QED
    BY <1>24, <2>1, FetchedType DEF TypeOK, HandleCompletionRetry, LoopPoints
<1>25. ASSUME NEW r \in Runs, WorkerDelivers(r) PROVE TypeOK'
  <2>1. worker[r] \in Workers
    BY <1>25 DEF TypeOK
  <2>2. worker' \in [Runs -> Workers]
    BY <1>25, <2>1, WorkerUpdates DEF TypeOK, WorkerDelivers
  <2>3. results' \in Seq(Runs)
    BY <1>25, AppendProperties DEF TypeOK, WorkerDelivers
  <2> QED
    BY <1>25, <2>1, <2>2, <2>3 DEF TypeOK, WorkerDelivers
<1>26. ASSUME NEW i \in Issues, TimeReachesDue(i) PROVE TypeOK'
  <2>1. [retry[i] EXCEPT !.due = TRUE] \in RetryEntries
    BY <1>26 DEF TypeOK, TimeReachesDue, RetryEntries
  <2>2. retry' \in [Issues -> RetryEntries \cup {NoRetry}]
    BY <1>26, <2>1 DEF TypeOK, TimeReachesDue
  <2> QED
    BY <1>26, <2>1, <2>2 DEF TypeOK, TimeReachesDue
<1>27. ASSUME NEW i \in Issues, TimerFires(i) PROVE TypeOK'
  <2>1. wakes' \in [Issues -> 0..MaxWakes]
    BY <1>27, LimitsAssumption DEF TypeOK, TimerFires
  <2> QED
    BY <1>27, <2>1 DEF TypeOK, TimerFires
<1>28. ASSUME Operator PROVE TypeOK'
  <2>1. wakes' \in [Issues -> 0..MaxWakes]
    BY <1>28, WakeRetriesType DEF TypeOK, Operator, PauseProject, PauseStage, ResumeProject, ResumeStage
  <2> QED
    BY <1>28, <2>1 DEF TypeOK, Operator, PauseProject, PauseStage, ResumeProject, ResumeStage
<1>29. ASSUME NEW i \in Issues, EditState(i) PROVE TypeOK'
  <2>1. EditStates \subseteq States \cup {Missing}
    BY <1>29, LimitsAssumption
  <2> QED
    BY <1>29, <2>1 DEF TypeOK, EditState
<1>30. ASSUME NEW i \in Issues, EditLabel(i) PROVE TypeOK'
  BY <1>30 DEF TypeOK, EditLabel
<1>31. CASE UNCHANGED vars
  BY <1>31 DEF TypeOK, vars
<1>32. ASSUME CleanupEnds PROVE TypeOK'
  BY <1>32, BackToSelectType DEF TypeOK, CleanupEnds
<1>33. ASSUME NEW r \in Runs, AfterRun(r) PROVE TypeOK'
  <2>1. worker[r] \in Workers
    BY <1>33 DEF TypeOK
  <2>2. worker' \in [Runs -> Workers]
    BY <1>33, <2>1, WorkerUpdates DEF TypeOK, AfterRun
  <2> QED
    BY <1>33, <2>2 DEF TypeOK, AfterRun
<1> QED
  BY <1>1, <1>2, <1>3, <1>4, <1>5, <1>6, <1>7, <1>8, <1>9, <1>10, <1>11, <1>12, <1>13, <1>14, <1>15, <1>16, <1>17, <1>18, <1>19, <1>20, <1>21, <1>22, <1>23, <1>24, <1>25, <1>26, <1>27, <1>28, <1>29, <1>30, <1>31, <1>32, <1>33
  DEF Next, LoopContinues, HandleResult, HandleRetry
-----------------------------------------------------------------------------
(* Running entries and their workers.                                      *)

(* Only these steps touch the entries, the cancel functions or the workers. *)
LEMMA WhoTouchesEntries ==
  ASSUME [Next]_vars
  PROVE  \/ \E ids \in SUBSET Running : Terminate(ids)
         \/ Launch
         \/ \E r \in Runs : WorkerFinishes(r) \/ AfterRun(r) \/ WorkerDelivers(r)
         \/ HandleResult
         \/ UNCHANGED <<running, cancels, worker>>
<1>1. CASE Tick
  BY <1>1 DEF Tick
<1>2. CASE ReconcileApply
  BY <1>2 DEF ReconcileApply
<1>3. CASE LoopContinues /\ ~ReconcileApply /\ ~Launch
  BY <1>3 DEF LoopContinues, CandidatesFail, FetchCandidates, NextCandidate, GateRefuses,
     SlotDenied, SlotGranted, PrepareOK, PrepareFails, Recheck, CompleteCheck, MoveOK, MoveRetries,
     CleanupEnds
<1>4. ASSUME NEW i \in Issues, HandleRetry(i) PROVE UNCHANGED <<running, cancels, worker>>
  BY <1>4 DEF HandleRetry, HandleStaleRetry, HandleRetryAgain, HandleRetryReleased,
     HandleRetryDeferred, HandleAgentRetry, HandleCompletionRetry
<1>5. ASSUME NEW i \in Issues,
             TimeReachesDue(i) \/ TimerFires(i) \/ EditState(i) \/ EditLabel(i)
      PROVE  UNCHANGED <<running, cancels, worker>>
  BY <1>5 DEF TimeReachesDue, TimerFires, EditState, EditLabel
<1>6. CASE Operator
  BY <1>6 DEF Operator, PauseProject, PauseStage, ResumeProject, ResumeStage
<1>7. CASE UNCHANGED vars
  BY <1>7 DEF vars
<1> QED
  BY <1>1, <1>2, <1>3, <1>4, <1>5, <1>6, <1>7 DEF Next

(* A terminated entry is gone, and its cancel function hits no other one.  *)
LEMMA TerminateBacked ==
  ASSUME IInv, NEW ids \in SUBSET Running, Terminate(ids)
  PROVE  RunningEntryIsBacked'
<1>1. Running' = Running \ ids
  BY TerminateRunning DEF IInv
<1>2. SUFFICES ASSUME NEW i \in Running \ ids
               PROVE  /\ worker'[running'[i]].issue = i
                      /\ worker'[running'[i]].phase # "free"
                      /\ ~worker'[running'[i]].cancelled
                      /\ cancels'[i] = running'[i]
  BY <1>1 DEF RunningEntryIsBacked
<1>3. i \in Issues /\ running'[i] = running[i] /\ cancels'[i] = cancels[i]
  BY DEF IInv, TypeOK, Terminate, Running
<1>4. running[i] \in Runs
  BY DEF IInv, TypeOK, Running
<1>5. \A j \in ids : cancels[j] # running[i]
  BY DEF IInv, RunningEntryIsBacked
<1>6. worker'[running[i]] = worker[running[i]]
  BY <1>4, <1>5 DEF Terminate
<1> QED
  BY <1>3, <1>6 DEF IInv, RunningEntryIsBacked

LEMMA BackedNext == IInv /\ [Next]_vars => RunningEntryIsBacked'
<1> SUFFICES ASSUME IInv, [Next]_vars PROVE RunningEntryIsBacked'
  OBVIOUS
<1>0. \A i \in Running : running[i] \in Runs /\ worker[running[i]] \in Workers
  BY DEF IInv, TypeOK, Running
<1>1. CASE \E ids \in SUBSET Running : Terminate(ids)
  BY <1>1, TerminateBacked
<1>2. CASE Launch
  <2>1. cur \in Issues /\ cur \notin Running
    BY <1>2 DEF IInv, HandInv, Dispatching, Launch
  <2>2. PICK r \in Runs :
              /\ worker[r].phase = "free"
              /\ worker' = [worker EXCEPT ![r] =
                    [issue |-> cur, phase |-> "running", result |-> "success",
                     cancelled |-> FALSE]]
              /\ running' = [running EXCEPT ![cur] = r]
              /\ cancels' = [cancels EXCEPT ![cur] = r]
    BY <1>2 DEF Launch
  <2>3. Running' \subseteq Running \cup {cur}
    BY <2>1, <2>2 DEF IInv, TypeOK, Running
  <2>4. ASSUME NEW i \in Running
        PROVE  /\ worker'[running'[i]] = worker[running[i]]
               /\ running'[i] = running[i]
               /\ cancels'[i] = cancels[i]
    BY <1>0, <2>1, <2>2, <2>4 DEF IInv, TypeOK, RunningEntryIsBacked
  <2>5. /\ worker'[running'[cur]].issue = cur
        /\ worker'[running'[cur]].phase # "free"
        /\ ~worker'[running'[cur]].cancelled
        /\ cancels'[cur] = running'[cur]
    BY <2>1, <2>2 DEF IInv, TypeOK
  <2> QED
    BY <2>3, <2>4, <2>5 DEF IInv, RunningEntryIsBacked
<1>3. ASSUME NEW r \in Runs, WorkerFinishes(r) \/ AfterRun(r) \/ WorkerDelivers(r)
      PROVE  RunningEntryIsBacked'
  <2>1. UNCHANGED <<running, cancels>>
    BY <1>3 DEF WorkerFinishes, AfterRun, WorkerDelivers
  <2>2. \A q \in Runs : /\ worker'[q].issue = worker[q].issue
                        /\ worker'[q].cancelled = worker[q].cancelled
                        /\ worker[q].phase # "free" => worker'[q].phase # "free"
    <3>1. worker \in [Runs -> Workers]
      BY DEF IInv, TypeOK
    <3>2. \/ \E o \in Outcomes :
               worker' = [worker EXCEPT ![r] =
                             [worker[r] EXCEPT !.phase = "finished", !.result = o]]
          \/ \E p \in {"sending", "delivered"} :
               worker' = [worker EXCEPT ![r] = [worker[r] EXCEPT !.phase = p]]
      BY <1>3, <3>1 DEF WorkerFinishes, AfterRun, WorkerDelivers
    <3>3. PICK w \in Workers :
                /\ worker' = [worker EXCEPT ![r] = w]
                /\ w.issue = worker[r].issue
                /\ w.cancelled = worker[r].cancelled
                /\ w.phase # "free"
      <4>1. worker[r] \in Workers
        BY <3>1
      <4>2. \A o \in Outcomes :
               LET w == [worker[r] EXCEPT !.phase = "finished", !.result = o]
               IN  /\ w \in Workers
                   /\ w.issue = worker[r].issue
                   /\ w.cancelled = worker[r].cancelled
                   /\ w.phase # "free"
        BY <4>1 DEF Workers
      <4>3. \A p \in {"sending", "delivered"} :
               LET w == [worker[r] EXCEPT !.phase = p]
               IN  /\ w \in Workers
                   /\ w.issue = worker[r].issue
                   /\ w.cancelled = worker[r].cancelled
                   /\ w.phase # "free"
        BY <4>1 DEF Workers
      <4> QED
        BY <3>2, <4>2, <4>3
    <3> QED
      BY <3>1, <3>3
  <2>3. Running' = Running
    BY <2>1 DEF Running
  <2> QED
    BY <1>0, <2>1, <2>2, <2>3 DEF IInv, RunningEntryIsBacked
<1>4. CASE HandleStaleResult
  <2>1. UNCHANGED <<running, cancels>> /\ Running' = Running
    BY <1>4 DEF HandleStaleResult, Running
  <2>2. \A i \in Running : running[i] # Head(results)
    BY <1>4 DEF IInv, RunningEntryIsBacked, HandleStaleResult
  <2>3. \A i \in Running : worker'[running[i]] = worker[running[i]]
    BY <1>0, <1>4, <2>2 DEF IInv, TypeOK, HandleStaleResult
  <2> QED
    BY <2>1, <2>3 DEF IInv, RunningEntryIsBacked
<1>5. CASE HandleWorkerResult
  <2> DEFINE h == worker[Head(results)].issue
  <2>1. Running' = Running \ {h}
    BY <1>5 DEF IInv, TypeOK, HandleWorkerResult, Running
  <2>2. \A i \in Running \ {h} : running[i] # Head(results)
    BY DEF IInv, RunningEntryIsBacked
  <2>3. \A i \in Running \ {h} : /\ worker'[running[i]] = worker[running[i]]
                                 /\ running'[i] = running[i]
                                 /\ cancels'[i] = cancels[i]
    BY <1>0, <1>5, <2>2 DEF IInv, TypeOK, HandleWorkerResult, Running
  <2> QED
    BY <2>1, <2>3 DEF IInv, RunningEntryIsBacked
<1>6. CASE UNCHANGED <<running, cancels, worker>>
  BY <1>6 DEF IInv, RunningEntryIsBacked, Running
<1> QED
  BY <1>1, <1>2, <1>3, <1>4, <1>5, <1>6, WhoTouchesEntries DEF HandleResult
-----------------------------------------------------------------------------
(* Who owns an issue and a slot, and what the loop relies on.              *)
OwnerInv == HandInv /\ ClaimDiscipline /\ SlotsConserved /\ WithinMaxAgents

(* What the parts of the handlers do to the owners.                        *)
LEMMA ScheduleRetryOwners ==
  ASSUME TypeOK, NEW i \in Issues, NEW k \in Kinds, ScheduleRetry(i, k)
  PROVE  HasRetry' = HasRetry \cup {i} /\ claimed' = claimed \cup {i}
<1>1. NewRetry(i, k) # NoRetry
  BY NewRetryIsEntry, EntryIsNotNoRetry
<1> QED
  BY <1>1 DEF TypeOK, ScheduleRetry, HasRetry

LEMMA DropRetryOwners ==
  ASSUME TypeOK, NEW i \in Issues, DropRetry(i)
  PROVE  HasRetry' = HasRetry \ {i} /\ claimed' = claimed \ {i}
  BY DEF TypeOK, DropRetry, HasRetry

(* The handler is over, or dispatchEligibleIssues has another candidate.   *)
LEMMA NextOfHand ==
  ASSUME NextOf(cands) \/ BackToSelect
  PROVE  /\ \/ pc' = "idle" /\ cands' = {}
            \/ pc' = "next" /\ cands' = cands /\ seen' = seen
         /\ InDispatch' = {} /\ InCompletion' = {}
<1>1. \/ pc' = "idle" /\ cands' = {}
      \/ pc' = "next" /\ cands' = cands /\ seen' = seen
  BY DEF NextOf, BackToSelect
<1> QED
  BY <1>1 DEF InDispatch, InCompletion

LEMMA HandType ==
  ASSUME IInv
  PROVE  /\ InDispatch = IF pc \in {"prepare", "recheck", "launch"} THEN {cur} ELSE {}
         /\ pc \in {"prepare", "recheck", "launch"} =>
              Cardinality(InDispatch) = 1 /\ slots = Cardinality(Running) + 1
         /\ pc \notin {"prepare", "recheck", "launch"} =>
              Cardinality(InDispatch) = 0 /\ slots = Cardinality(Running)
         /\ Cardinality({cur}) = 1 /\ Cardinality({}) = 0
         /\ slots \in Nat
<1>1. Cardinality({}) = 0 /\ Cardinality({cur}) = 1
  BY FS_EmptySet, FS_Singleton
<1> QED
  BY <1>1, SlotFacts DEF InDispatch

(* Nothing that the invariant speaks of changes.                           *)
LEMMA QuietKeepsOwners ==
  ASSUME IInv, UNCHANGED <<running, claimed, slots, loopVars>>, HasRetry' = HasRetry
  PROVE  OwnerInv'
<1>1. Running' = Running /\ InDispatch' = InDispatch /\ InCompletion' = InCompletion
  BY DEF Running, InDispatch, InCompletion
<1>2. HandInv'
  BY <1>1 DEF IInv, HandInv
<1>3. ClaimDiscipline'
  BY <1>1 DEF IInv, ClaimDiscipline
<1> QED
  BY <1>1, <1>2, <1>3 DEF IInv, OwnerInv, SlotsConserved, WithinMaxAgents

LEMMA QuietSteps ==
  ASSUME IInv,
         \/ HandleStaleResult
         \/ \E i \in Issues : HandleStaleRetry(i) \/ HandleRetryDeferred(i)
         \/ \E r \in Runs : WorkerFinishes(r) \/ AfterRun(r) \/ WorkerDelivers(r)
         \/ \E i \in Issues : TimeReachesDue(i) \/ TimerFires(i)
         \/ Operator
         \/ \E i \in Issues : EditState(i) \/ EditLabel(i)
         \/ UNCHANGED vars
  PROVE  OwnerInv'
<1>1. ASSUME NEW i \in Issues, TimeReachesDue(i) PROVE OwnerInv'
  <2>1. [retry[i] EXCEPT !.due = TRUE] \in RetryEntries
    BY <1>1 DEF IInv, TypeOK, TimeReachesDue, RetryEntries
  <2>2. HasRetry' = HasRetry
    BY <1>1, <2>1, EntryIsNotNoRetry DEF IInv, TypeOK, TimeReachesDue, HasRetry
  <2> QED
    BY <1>1, <2>2, QuietKeepsOwners DEF TimeReachesDue
<1>2. SUFFICES ASSUME UNCHANGED <<running, claimed, slots, loopVars, retry>> PROVE OwnerInv'
  BY <1>1 DEF HandleStaleResult, HandleStaleRetry, HandleRetryDeferred, TakeDueRetry, TakeWake,
     WorkerFinishes, AfterRun, WorkerDelivers, TimerFires, Operator, PauseProject, PauseStage,
     ResumeProject, ResumeStage, EditState, EditLabel, vars
<1>3. HasRetry' = HasRetry
  BY <1>2 DEF HasRetry
<1> QED
  BY <1>2, <1>3, QuietKeepsOwners

(* tick *)
LEMMA TickOwners ==
  ASSUME IInv, Tick \/ ReconcileApply
  PROVE  OwnerInv'
<1>1. PICK ids \in SUBSET Running :
            /\ Terminate(ids)
            /\ \/ HasRetry' = HasRetry \cup ids /\ claimed' = claimed \cup ids
               \/ HasRetry' = HasRetry /\ claimed' = claimed \ ids
  <2>1. CASE Tick
    <3>1. PICK ids \in SUBSET Running :
                /\ Terminate(ids)
                /\ claimed' = claimed \cup ids
                /\ retry' = [i \in Issues |->
                      IF i \in ids THEN NewRetry(i, "agent") ELSE retry[i]]
      BY <2>1 DEF Tick
    <3>2. \A i \in Issues : NewRetry(i, "agent") # NoRetry
      BY NewRetryIsEntry, EntryIsNotNoRetry DEF IInv, Kinds
    <3>3. HasRetry' = HasRetry \cup ids
      BY <3>1, <3>2 DEF HasRetry, Running
    <3> QED
      BY <3>1, <3>3
  <2>2. CASE ReconcileApply
    BY <2>2 DEF ReconcileApply, HasRetry
  <2> QED
    BY <2>1, <2>2
<1>2. /\ pc \in {"idle", "apply"} /\ pc' \in {"apply", "candidates"}
      /\ cands' = cands
  BY DEF Tick, ReconcileApply
<1>3. /\ Running' = Running \ ids
      /\ InDispatch' = {} /\ InCompletion' = {} /\ cands' = {}
  BY <1>1, <1>2, TerminateRunning DEF IInv, HandInv, Dispatching, InDispatch, InCompletion
<1>4. HandInv'
  BY <1>2, <1>3 DEF HandInv, Dispatching
<1>5. ClaimDiscipline'
  BY <1>1, <1>3 DEF IInv, ClaimDiscipline
<1>6. /\ Cardinality(ids) \in Nat
      /\ Cardinality(Running') = Cardinality(Running) - Cardinality(ids)
  BY <1>3, TerminateCount
<1>7. SlotsConserved' /\ WithinMaxAgents'
  <2>1. slots = Cardinality(Running) /\ slots' = slots - Cardinality(ids)
    BY <1>1, <1>2, HandType DEF Terminate
  <2>2. Cardinality(InDispatch') = 0
    BY <1>3, FS_EmptySet
  <2> QED
    BY <1>6, <2>1, <2>2, RunningIsFinite, LimitsAssumption
    DEF IInv, SlotsConserved, WithinMaxAgents
<1> QED
  BY <1>4, <1>5, <1>7 DEF OwnerInv

(* dispatchEligibleIssues, and dispatch up to the claim.                   *)
LEMMA CandidateOwners ==
  ASSUME IInv,
         CandidatesFail \/ FetchCandidates \/ NextCandidate \/ GateRefuses \/ SlotDenied
  PROVE  OwnerInv'
<1>1. UNCHANGED <<running, claimed, slots, retry>>
  BY DEF CandidatesFail, FetchCandidates, NextCandidate, GateRefuses, SlotDenied
<1>2. Running' = Running /\ HasRetry' = HasRetry
  BY <1>1 DEF Running, HasRetry
<1>3. InDispatch = {} /\ InDispatch' = {} /\ InCompletion' = {}
  <2>1. pc \in {"candidates", "next", "gate"} /\ pc' \in {"idle", "next", "gate"}
    BY DEF CandidatesFail, FetchCandidates, NextCandidate, GateRefuses, SlotDenied, GateOpen,
       BackToSelect, NextOf
  <2> QED
    BY <2>1 DEF InDispatch, InCompletion
<1>4. ClaimDiscipline' /\ SlotsConserved' /\ WithinMaxAgents'
  BY <1>1, <1>2, <1>3 DEF IInv, ClaimDiscipline, SlotsConserved, WithinMaxAgents
<1>5. HandInv'
  <2>1. CASE BackToSelect
    BY <2>1 DEF BackToSelect, HandInv, Dispatching
  <2>2. CASE GateRefuses
    BY <2>2, <1>2, NextOfHand DEF IInv, HandInv, Dispatching, GateRefuses
  <2>3. CASE FetchCandidates /\ ~BackToSelect
    <3>1. PICK blocked \in SUBSET Issues :
                /\ pc' = "next"
                /\ cands' = Eligible(blocked)
                /\ seen' = Fetched(Eligible(blocked))
      BY <2>3 DEF FetchCandidates
    <3>2. ASSUME NEW i \in Eligible(blocked)
          PROVE  seen'[i] \in ActiveStates /\ i \notin Running \cup HasRetry
      BY <3>1, <3>2 DEF IInv, ClaimDiscipline, Eligible, Fetched
    <3> QED
      BY <3>1, <3>2, <1>2 DEF HandInv, Dispatching
  <2>4. CASE NextCandidate /\ ~BackToSelect
    <3>1. /\ pc = "next" /\ pc' = "gate" /\ seen' = seen
          /\ cur' \in cands /\ cands' = cands \ {cur'}
          /\ Cardinality(Running) < MaxAgents
      BY <2>4 DEF NextCandidate, CanDispatch
    <3> QED
      BY <3>1, <1>2 DEF IInv, TypeOK, HandInv, Dispatching
  <2> QED
    BY <2>1, <2>2, <2>3, <2>4 DEF CandidatesFail, SlotDenied
<1> QED
  BY <1>4, <1>5 DEF OwnerInv

(* dispatch after the claim.                                               *)
LEMMA DispatchOwners ==
  ASSUME IInv, SlotGranted \/ PrepareOK \/ PrepareFails \/ Recheck \/ Launch
  PROVE  OwnerInv'
<1> USE DEF OwnerInv
<1>0. /\ cur \in Issues /\ seen[cur] \in ActiveStates
      /\ cur \notin Running \cup HasRetry /\ cur \notin cands
      /\ Cardinality(Running) < MaxAgents
      /\ \A i \in cands : seen[i] \in ActiveStates /\ i \notin Running \cup HasRetry
      /\ Cardinality(Running) \in Nat
      /\ MaxAgents \in Nat
  BY RunningIsFinite, LimitsAssumption
  DEF IInv, HandInv, Dispatching, SlotGranted, GateOpen, PrepareOK, PrepareFails, Recheck, Launch
<1>1. CASE SlotGranted
  <2>1. /\ Running' = Running /\ HasRetry' = HasRetry /\ claimed' = claimed \cup {cur}
        /\ InDispatch' = {cur} /\ InCompletion' = {}
        /\ pc = "gate" /\ pc' = "prepare" /\ UNCHANGED <<cur, cands, seen>>
    BY <1>1 DEF SlotGranted, GateOpen, GoTo, Running, HasRetry, InDispatch, InCompletion
  <2>2. HandInv'
    BY <1>0, <2>1 DEF HandInv, Dispatching
  <2>3. ClaimDiscipline'
    BY <1>0, <2>1 DEF IInv, ClaimDiscipline
  <2>4. SlotsConserved' /\ WithinMaxAgents'
    <3>1. slots' = slots + 1
      BY <1>1 DEF SlotGranted
    <3> QED
      BY <1>0, <2>1, <3>1, HandType DEF SlotsConserved, WithinMaxAgents
  <2> QED
    BY <2>2, <2>3, <2>4
<1>2. CASE PrepareOK
  <2>1. /\ Running' = Running /\ HasRetry' = HasRetry /\ UNCHANGED <<claimed, slots>>
        /\ InDispatch' = InDispatch /\ InCompletion' = InCompletion
        /\ pc' = "recheck" /\ UNCHANGED <<cur, cands>>
    BY <1>2 DEF PrepareOK, Running, HasRetry, InDispatch, InCompletion
  <2>2. \A i \in Issues : seen[i] \in ActiveStates => seen'[i] \in ActiveStates
    BY <1>2, PipelineAssumption DEF IInv, TypeOK, PrepareOK, MoveToWorking, MovesToWorking
  <2>3. HandInv'
    BY <1>0, <2>1, <2>2 DEF IInv, TypeOK, HandInv, Dispatching
  <2> QED
    BY <2>1, <2>3 DEF IInv, ClaimDiscipline, SlotsConserved, WithinMaxAgents
<1>3. CASE PrepareFails
  <2>1. /\ Running' = Running
        /\ InDispatch' = {} /\ InCompletion' = {}
        /\ pc = "prepare" /\ slots' = slots - 1
        /\ \/ pc' = "idle" /\ cands' = {}
           \/ pc' = "next" /\ cands' = cands /\ seen' = seen
    BY <1>3, NextOfHand DEF PrepareFails, Running
  <2>2. HasRetry' = HasRetry \cup {cur} /\ claimed' = claimed \cup {cur}
    BY <1>0, <1>3, ScheduleRetryOwners DEF IInv, PrepareFails, Kinds
  <2>3. HandInv'
    BY <1>0, <2>1, <2>2 DEF HandInv, Dispatching
  <2>4. ClaimDiscipline'
    BY <1>0, <2>1, <2>2 DEF IInv, ClaimDiscipline
  <2>5. SlotsConserved' /\ WithinMaxAgents'
    BY <1>0, <2>1, HandType DEF SlotsConserved, WithinMaxAgents
  <2> QED
    BY <2>3, <2>4, <2>5
<1>4. CASE Recheck /\ PausedFor(seen[cur])
  <2>1. /\ Running' = Running /\ HasRetry' = HasRetry /\ claimed' = claimed \ {cur}
        /\ InDispatch' = {} /\ InCompletion' = {}
        /\ pc = "recheck" /\ slots' = slots - 1
        /\ \/ pc' = "idle" /\ cands' = {}
           \/ pc' = "next" /\ cands' = cands /\ seen' = seen
    BY <1>4, NextOfHand DEF Recheck, Running, HasRetry
  <2>2. HandInv'
    BY <1>0, <2>1 DEF HandInv, Dispatching
  <2>3. ClaimDiscipline'
    BY <1>0, <2>1 DEF IInv, ClaimDiscipline
  <2>4. SlotsConserved' /\ WithinMaxAgents'
    BY <1>0, <2>1, HandType DEF SlotsConserved, WithinMaxAgents
  <2> QED
    BY <2>2, <2>3, <2>4
<1>5. CASE Recheck /\ ~PausedFor(seen[cur])
  <2>1. /\ Running' = Running /\ HasRetry' = HasRetry /\ UNCHANGED <<claimed, slots>>
        /\ InDispatch' = InDispatch /\ InCompletion' = InCompletion
        /\ pc' = "launch" /\ UNCHANGED <<cur, cands, seen>>
    BY <1>5 DEF Recheck, GoTo, Running, HasRetry, InDispatch, InCompletion
  <2>2. HandInv'
    BY <1>0, <2>1 DEF HandInv, Dispatching
  <2> QED
    BY <2>1, <2>2 DEF IInv, ClaimDiscipline, SlotsConserved, WithinMaxAgents
<1>6. CASE Launch
  <2>1. /\ HasRetry' = HasRetry /\ UNCHANGED <<claimed, slots>>
        /\ InDispatch = {cur} /\ InDispatch' = {} /\ InCompletion' = {}
        /\ pc = "launch"
        /\ \/ pc' = "idle" /\ cands' = {}
           \/ pc' = "next" /\ cands' = cands /\ seen' = seen
    BY <1>6, NextOfHand DEF Launch, HasRetry, InDispatch
  <2>2. Running' = Running \cup {cur}
    BY <1>0, <1>6, NamesAssumption DEF IInv, TypeOK, Launch, Running
  <2>3. Cardinality(Running') = Cardinality(Running) + 1
    BY <1>0, <2>2, RunningIsFinite, FS_AddElement
  <2>4. HandInv'
    BY <1>0, <2>1, <2>2 DEF HandInv, Dispatching
  <2>5. ClaimDiscipline'
    BY <1>0, <2>1, <2>2 DEF IInv, ClaimDiscipline
  <2>6. SlotsConserved' /\ WithinMaxAgents'
    BY <1>0, <2>1, <2>3, HandType DEF SlotsConserved, WithinMaxAgents
  <2> QED
    BY <2>4, <2>5, <2>6
<1> QED
  BY <1>1, <1>2, <1>3, <1>4, <1>5, <1>6

(* handleWorkerResult and the completion of an issue.                      *)
LEMMA ResultOwners ==
  ASSUME IInv, HandleWorkerResult
  PROVE  OwnerInv'
<1> DEFINE r == Head(results)
           i == worker[r].issue
<1>1. /\ pc = "idle" /\ cands = {} /\ cands' = {}
      /\ i \in Running /\ i \in Issues /\ i \notin HasRetry
      /\ slots' = slots - 1
  BY DEF IInv, HandInv, Dispatching, ClaimDiscipline, HandleWorkerResult, ReturnAfter, Running
<1>2. Running' = Running \ {i}
  BY DEF IInv, TypeOK, HandleWorkerResult, Running
<1>3. \/ /\ HasRetry' = HasRetry \cup {i} /\ claimed' = claimed \cup {i}
         /\ pc' = "idle"
      \/ HasRetry' = HasRetry /\ claimed' = claimed \ {i} /\ pc' \in {"idle", "cleanup"}
      \/ HasRetry' = HasRetry /\ claimed' = claimed /\ pc' = "complete" /\ cur' = i
  <2>1. CASE ScheduleRetry(i, "agent") /\ UNCHANGED loopVars
    BY <1>1, <2>1, ScheduleRetryOwners DEF IInv, Kinds
  <2>2. CASE ReleaseClaim(i) /\ ReturnAfter(entryState[i])
    BY <1>1, <2>2 DEF ReleaseClaim, ReturnAfter, HasRetry
  <2>3. CASE pc' = "complete" /\ cur' = i /\ UNCHANGED <<claimed, retryVars>>
    BY <2>3 DEF HasRetry
  <2> QED
    BY <2>1, <2>2, <2>3 DEF HandleWorkerResult
<1> HIDE DEF i
<1>4. InDispatch' = {} /\ InCompletion' \subseteq {i}
  BY <1>3 DEF InDispatch, InCompletion
<1>5. HandInv'
  BY <1>1, <1>2, <1>3 DEF HandInv, Dispatching
<1>6. ClaimDiscipline'
  <2>1. pc' = "complete" \/ InCompletion' = {}
    BY <1>3 DEF InCompletion
  <2> QED
    BY <1>1, <1>2, <1>3, <1>4, <2>1 DEF IInv, ClaimDiscipline
<1>7. SlotsConserved' /\ WithinMaxAgents'
  <2>1. Cardinality(Running') = Cardinality(Running) - 1
    BY <1>1, <1>2, RunningIsFinite, FS_RemoveElement
  <2> QED
    BY <1>1, <1>4, <2>1, HandType, RunningIsFinite, LimitsAssumption
    DEF IInv, SlotsConserved, WithinMaxAgents
<1> QED
  BY <1>5, <1>6, <1>7 DEF OwnerInv

LEMMA CompletionOwners ==
  ASSUME IInv, CompleteCheck \/ MoveOK \/ MoveRetries
  PROVE  OwnerInv'
<1>1. /\ pc \in {"complete", "move"} /\ cur \in Issues /\ cands = {}
      /\ cur \notin Running /\ cur \in claimed
      /\ UNCHANGED <<running, slots>>
      /\ Running' = Running /\ InDispatch = {}
  BY DEF IInv, HandInv, Dispatching, ClaimDiscipline, InCompletion, InDispatch, CompleteCheck,
     MoveOK, MoveRetries, Running
<1> DEFINE Returns == pc' \in {"idle", "cleanup"} /\ cands' = {}
<1>2. \/ Returns /\ \E k \in Kinds : ScheduleRetry(cur, k)
      \/ Returns /\ ReleaseClaim(cur) /\ pc = "complete"
      \/ Returns /\ DropRetry(cur)
      \/ /\ pc' = "move" /\ seen' = Fetched({cur}) /\ tracker[cur] \in ActiveStates
         /\ UNCHANGED <<claimed, retryVars, cur, cands>>
  BY DEF CompleteCheck, MoveOK, MoveRetries, Kinds, BackToSelect, ReturnAfter
<1>3. CASE Returns
  <2>1. InDispatch' = {} /\ InCompletion' = {} /\ pc' \in {"idle", "cleanup"} /\ cands' = {}
    BY <1>3 DEF InDispatch, InCompletion
  <2>2. \/ HasRetry' = HasRetry \cup {cur} /\ claimed' = claimed \cup {cur}
        \/ HasRetry' = HasRetry \ {cur} /\ claimed' = claimed \ {cur}
    <3>1. CASE ReleaseClaim(cur) /\ pc = "complete"
      BY <3>1 DEF IInv, HandInv, ReleaseClaim, HasRetry
    <3>2. CASE \E k \in Kinds : ScheduleRetry(cur, k)
      BY <1>1, <3>2, ScheduleRetryOwners DEF IInv
    <3>3. CASE DropRetry(cur)
      BY <1>1, <3>3, DropRetryOwners DEF IInv
    <3>4. pc' # "move"
      BY <2>1
    <3> QED
      BY <1>2, <3>1, <3>2, <3>3, <3>4
  <2>3. HandInv'
    BY <2>1 DEF HandInv, Dispatching
  <2>4. ClaimDiscipline'
    BY <1>1, <2>1, <2>2 DEF IInv, ClaimDiscipline
  <2> QED
    BY <1>1, <2>1, <2>3, <2>4 DEF IInv, OwnerInv, SlotsConserved, WithinMaxAgents
<1>4. CASE ~Returns
  <2>1. /\ pc' = "move" /\ seen'[cur] \in ActiveStates
        /\ HasRetry' = HasRetry /\ UNCHANGED <<claimed, cur, cands>>
        /\ InDispatch' = {} /\ InCompletion' = {cur}
    BY <1>1, <1>2, <1>4 DEF Fetched, HasRetry, InDispatch, InCompletion
  <2>2. HandInv'
    BY <1>1, <2>1 DEF HandInv, Dispatching
  <2>3. ClaimDiscipline'
    BY <1>1, <2>1 DEF IInv, ClaimDiscipline
  <2> QED
    BY <1>1, <2>1, <2>2, <2>3 DEF IInv, OwnerInv, SlotsConserved, WithinMaxAgents
<1> QED
  BY <1>3, <1>4

LEMMA CleanupOwners ==
  ASSUME IInv, CleanupEnds
  PROVE  OwnerInv'
<1>1. /\ UNCHANGED <<running, slots, claimed, retry>>
      /\ Running' = Running /\ HasRetry' = HasRetry
  BY DEF CleanupEnds, Running, HasRetry
<1>2. /\ pc' = "idle" /\ cands' = {}
      /\ InDispatch = {} /\ InDispatch' = {} /\ InCompletion' = {}
  BY DEF CleanupEnds, BackToSelect, InDispatch, InCompletion
<1>3. HandInv' /\ ClaimDiscipline'
  BY <1>1, <1>2 DEF IInv, HandInv, Dispatching, ClaimDiscipline
<1> QED
  BY <1>1, <1>2, <1>3 DEF IInv, OwnerInv, SlotsConserved, WithinMaxAgents

(* handleRetry, where it does something to the entry.                      *)
LEMMA RetryOwners ==
  ASSUME IInv, NEW i \in Issues,
         \/ HandleRetryAgain(i)
         \/ HandleRetryReleased(i)
         \/ HandleAgentRetry(i)
         \/ HandleCompletionRetry(i)
  PROVE  OwnerInv'
<1>1. /\ pc = "idle" /\ cands = {} /\ cands' = {}
      /\ i \in HasRetry /\ i \notin Running /\ i \in claimed
      /\ UNCHANGED <<running, slots>>
      /\ Running' = Running /\ InDispatch = {}
  BY DEF IInv, HandInv, Dispatching, ClaimDiscipline, InDispatch, HandleRetryAgain,
     HandleRetryReleased, HandleAgentRetry, HandleCompletionRetry, TakeDueRetry, TakeWake,
     ReturnAfter, Running, HasRetry
<1>2. CASE HandleRetryAgain(i) \/ HandleRetryReleased(i)
  <2>1. \/ HasRetry' = HasRetry \cup {i} /\ claimed' = claimed \cup {i}
        \/ HasRetry' = HasRetry \ {i} /\ claimed' = claimed \ {i}
    BY <1>2, ScheduleRetryOwners, DropRetryOwners
    DEF IInv, HandleRetryAgain, HandleRetryReleased
  <2>2. /\ pc' \in {"idle", "cleanup"} /\ InDispatch' = {} /\ InCompletion' = {}
    BY <1>1, <1>2 DEF HandleRetryAgain, HandleRetryReleased, ReturnAfter, InDispatch, InCompletion
  <2>3. HandInv'
    BY <1>1, <2>2 DEF HandInv, Dispatching
  <2>4. ClaimDiscipline'
    BY <1>1, <2>1, <2>2 DEF IInv, ClaimDiscipline
  <2> QED
    BY <1>1, <2>2, <2>3, <2>4 DEF IInv, OwnerInv, SlotsConserved, WithinMaxAgents
<1>3. CASE HandleAgentRetry(i)
  <2>1. /\ pc' = "gate" /\ cur' = i /\ seen'[i] \in ActiveStates
        /\ Cardinality(Running) < MaxAgents
        /\ claimed' = claimed
        /\ InDispatch' = {} /\ InCompletion' = {}
    BY <1>3 DEF HandleAgentRetry, RetryMayProceed, CanDispatch, Fetched, InDispatch, InCompletion
  <2>2. HasRetry' = HasRetry \ {i}
    BY <1>3 DEF IInv, TypeOK, HandleAgentRetry, HasRetry
  <2>3. HandInv'
    BY <1>1, <2>1, <2>2 DEF HandInv, Dispatching
  <2>4. ClaimDiscipline'
    BY <1>1, <2>1, <2>2 DEF IInv, ClaimDiscipline
  <2> QED
    BY <1>1, <2>1, <2>3, <2>4 DEF IInv, OwnerInv, SlotsConserved, WithinMaxAgents
<1>4. CASE HandleCompletionRetry(i)
  <2>1. /\ pc' = "move" /\ cur' = i /\ seen'[i] \in ActiveStates
        /\ claimed' = claimed /\ HasRetry' = HasRetry
        /\ InDispatch' = {} /\ InCompletion' = {i}
    BY <1>4 DEF HandleCompletionRetry, RetryMayProceed, Fetched, HasRetry, InDispatch, InCompletion
  <2>2. HandInv'
    BY <1>1, <2>1 DEF HandInv, Dispatching
  <2>3. ClaimDiscipline'
    BY <1>1, <2>1 DEF IInv, ClaimDiscipline
  <2> QED
    BY <1>1, <2>1, <2>2, <2>3 DEF IInv, OwnerInv, SlotsConserved, WithinMaxAgents
<1> QED
  BY <1>2, <1>3, <1>4

LEMMA OwnersNext == IInv /\ [Next]_vars => OwnerInv'
  BY QuietSteps, TickOwners, CandidateOwners, DispatchOwners, ResultOwners, CompletionOwners,
     RetryOwners, CleanupOwners
  DEF Next, LoopContinues, HandleResult, HandleRetry

LEMMA NextIInv == IInv /\ [Next]_vars => IInv'
  BY TypeNext, OwnersNext, BackedNext DEF IInv, OwnerInv
-----------------------------------------------------------------------------
(* The inductive invariant holds in every reachable state: the facts that  *)
(* the loop relies on when it takes o.mu again are still true.             *)
THEOREM SchedulerIInv == Spec => []IInv
  BY InitIInv, NextIInv, PTL DEF Spec

(* Every variable of the scheduling core keeps its type: in particular the *)
(* count of held supervisor slots never goes below zero.                   *)
THEOREM SchedulerTypeOK == Spec => []TypeOK
<1>1. IInv => TypeOK
  BY DEF IInv
<1> QED
  BY <1>1, SchedulerIInv, PTL

(* Whoever works on an issue holds its claim, and no issue has two owners: *)
(* dispatch, reconcile, handleWorkerResult and handleRetry together keep   *)
(* the discipline of o.state.Claimed.                                      *)
THEOREM SchedulerClaimDiscipline == Spec => []ClaimDiscipline
<1>1. IInv => ClaimDiscipline
  BY DEF IInv
<1> QED
  BY <1>1, SchedulerIInv, PTL

(* Slots taken from the supervisor's limiter are the running entries and   *)
(* the dispatch in progress, however the handlers interleave with workers. *)
THEOREM SchedulerSlotsConserved == Spec => []SlotsConserved
<1>1. IInv => SlotsConserved
  BY DEF IInv
<1> QED
  BY <1>1, SchedulerIInv, PTL

(* canDispatch before the long preparation is enough to keep the number of *)
(* running entries within agent.max_concurrent_agents.                     *)
THEOREM SchedulerWithinMaxAgents == Spec => []WithinMaxAgents
<1>1. IInv => WithinMaxAgents
  BY DEF IInv
<1> QED
  BY <1>1, SchedulerIInv, PTL

(* terminateWorkerLocked always finds the session that the entry is for.   *)
THEOREM SchedulerRunningEntryIsBacked == Spec => []RunningEntryIsBacked
<1>1. IInv => RunningEntryIsBacked
  BY DEF IInv
<1> QED
  BY <1>1, SchedulerIInv, PTL

(* Only Launch makes running entries, and its issue has none.              *)
LEMMA NoOverwriteStep ==
  IInv /\ [Next]_vars
    => [\A i \in Issues : running[i] # NoRun => running'[i] \in {running[i], NoRun}]_running
<1> SUFFICES ASSUME IInv, [Next]_vars, NEW i \in Issues, running[i] # NoRun
             PROVE  running'[i] \in {running[i], NoRun}
  OBVIOUS
<1>1. CASE \E ids \in SUBSET Running : Terminate(ids)
  BY <1>1 DEF Terminate
<1>2. CASE Launch
  <2>1. cur # i
    BY <1>2 DEF IInv, HandInv, Dispatching, Launch, Running
  <2> QED
    BY <1>2, <2>1 DEF IInv, TypeOK, Launch
<1>3. CASE \E r \in Runs : WorkerFinishes(r) \/ AfterRun(r) \/ WorkerDelivers(r)
  BY <1>3 DEF WorkerFinishes, AfterRun, WorkerDelivers
<1>4. CASE HandleResult
  BY <1>4 DEF IInv, TypeOK, HandleResult, HandleStaleResult, HandleWorkerResult
<1>5. CASE UNCHANGED <<running, cancels, worker>>
  BY <1>5
<1> QED
  BY <1>1, <1>2, <1>3, <1>4, <1>5, WhoTouchesEntries

(* A dispatch never replaces a running entry: the claim, the filter and    *)
(* the single loop goroutine together keep a second launch away from an    *)
(* issue that still has its entry.                                         *)
THEOREM SchedulerEntryNotOverwritten == Spec => EntryNotOverwritten
  BY SchedulerIInv, NoOverwriteStep, PTL DEF Spec, EntryNotOverwritten
-----------------------------------------------------------------------------
(* The results in completedCh, each the one of a delivered worker.         *)

LEMMA WhoTouchesResults ==
  ASSUME IInv, [Next]_vars
  PROVE  \/ UNCHANGED results /\ \A r \in Runs : worker'[r].phase = worker[r].phase
         \/ UNCHANGED results /\ \E q \in Runs :
               /\ worker[q].phase # "delivered" /\ worker'[q].phase # "delivered"
               /\ \A r \in Runs \ {q} : worker'[r] = worker[r]
         \/ \E r \in Runs : WorkerDelivers(r)
         \/ /\ results # <<>>
            /\ results' = Tail(results)
            /\ worker' = [worker EXCEPT ![Head(results)] = NoWorker]
<1>0. worker \in [Runs -> Workers] /\ \A r \in Runs : worker[r] \in Workers
  BY DEF IInv, TypeOK
<1>1. CASE Tick \/ ReconcileApply
  <2>1. UNCHANGED results /\ \E ids \in SUBSET Running : Terminate(ids)
    BY <1>1 DEF Tick, ReconcileApply
  <2>2. \A w \in Workers : [w EXCEPT !.cancelled = TRUE].phase = w.phase
    BY DEF Workers
  <2> QED
    BY <1>0, <2>1, <2>2 DEF Terminate
<1>2. CASE Launch
  BY <1>0, <1>2 DEF Launch
<1>3. CASE LoopContinues /\ ~ReconcileApply /\ ~Launch
  BY <1>3 DEF LoopContinues, CandidatesFail, FetchCandidates, NextCandidate, GateRefuses,
     SlotDenied, SlotGranted, PrepareOK, PrepareFails, Recheck, CompleteCheck, MoveOK, MoveRetries,
     CleanupEnds
<1>4. CASE HandleResult
  BY <1>4 DEF HandleResult, HandleStaleResult, HandleWorkerResult
<1>5. ASSUME NEW i \in Issues, HandleRetry(i) PROVE UNCHANGED workVars
  BY <1>5 DEF HandleRetry, HandleStaleRetry, HandleRetryAgain, HandleRetryReleased,
     HandleRetryDeferred, HandleAgentRetry, HandleCompletionRetry
<1>6. ASSUME NEW r \in Runs, WorkerFinishes(r)
      PROVE  /\ UNCHANGED results
             /\ worker[r].phase # "delivered" /\ worker'[r].phase # "delivered"
             /\ \A q \in Runs \ {r} : worker'[q] = worker[q]
  <2>1. PICK o \in Outcomes :
              worker' = [worker EXCEPT ![r].phase = "finished", ![r].result = o]
    BY <1>6 DEF WorkerFinishes
  <2>2. [worker[r] EXCEPT !.phase = "finished", !.result = o].phase = "finished"
    BY <1>0 DEF Workers
  <2> QED
    BY <1>0, <1>6, <2>1, <2>2 DEF WorkerFinishes
<1>10. ASSUME NEW r \in Runs, AfterRun(r)
       PROVE  /\ UNCHANGED results
              /\ worker[r].phase # "delivered" /\ worker'[r].phase # "delivered"
              /\ \A q \in Runs \ {r} : worker'[q] = worker[q]
  <2>1. [worker[r] EXCEPT !.phase = "sending"].phase = "sending"
    BY <1>0 DEF Workers
  <2> QED
    BY <1>0, <1>10, <2>1 DEF AfterRun
<1>7. ASSUME NEW i \in Issues,
             TimeReachesDue(i) \/ TimerFires(i) \/ EditState(i) \/ EditLabel(i)
      PROVE  UNCHANGED workVars
  BY <1>7 DEF TimeReachesDue, TimerFires, EditState, EditLabel
<1>8. CASE Operator
  BY <1>8 DEF Operator, PauseProject, PauseStage, ResumeProject, ResumeStage
<1>9. CASE UNCHANGED vars
  BY <1>9 DEF vars
<1> QED
  BY <1>1, <1>2, <1>3, <1>4, <1>5, <1>6, <1>7, <1>8, <1>9, <1>10 DEF Next

LEMMA ResultsNext ==
  ASSUME IInv, ResultsAreDelivered, [Next]_vars
  PROVE  ResultsAreDelivered'
<1>0. /\ worker \in [Runs -> Workers]
      /\ results \in Seq(Runs) /\ Len(results) \in Nat /\ DOMAIN results = 1..Len(results)
      /\ \A k \in DOMAIN results : results[k] \in Runs
  BY DEF IInv, TypeOK
<1>1. CASE UNCHANGED results /\ \A r \in Runs : worker'[r].phase = worker[r].phase
  BY <1>0, <1>1 DEF ResultsAreDelivered
<1>2. ASSUME NEW q \in Runs, UNCHANGED results,
             worker[q].phase # "delivered", worker'[q].phase # "delivered",
             \A r \in Runs \ {q} : worker'[r] = worker[r]
      PROVE  ResultsAreDelivered'
  BY <1>0, <1>2 DEF ResultsAreDelivered
<1>3. ASSUME NEW q \in Runs, WorkerDelivers(q) PROVE ResultsAreDelivered'
  <2>1. /\ worker[q].phase = "sending"
        /\ worker'[q].phase = "delivered"
        /\ \A r \in Runs \ {q} : worker'[r] = worker[r]
    BY <1>0, <1>3 DEF WorkerDelivers, Workers
  <2>2. \A k \in DOMAIN results : results[k] # q
    BY <2>1 DEF ResultsAreDelivered
  <2>3. /\ DOMAIN results' = 1..(Len(results) + 1)
        /\ \A k \in DOMAIN results : results'[k] = results[k]
        /\ results'[Len(results) + 1] = q
    BY <1>0, <1>3, AppendProperties DEF WorkerDelivers
  <2>4. \A k \in DOMAIN results' : k \in DOMAIN results \/ k = Len(results) + 1
    BY <1>0, <2>3
  <2>5. DOMAIN results \subseteq DOMAIN results' /\ Len(results) + 1 \in DOMAIN results'
    BY <1>0, <2>3
  <2> QED
    BY <1>0, <2>1, <2>2, <2>3, <2>4, <2>5 DEF ResultsAreDelivered
<1>4. ASSUME results # <<>>, results' = Tail(results),
             worker' = [worker EXCEPT ![Head(results)] = NoWorker]
      PROVE  ResultsAreDelivered'
  <2>1. /\ Len(results) >= 1
        /\ Head(results) = results[1]
        /\ DOMAIN results' = 1..(Len(results) - 1)
        /\ \A k \in DOMAIN results' : results'[k] = results[k + 1]
    BY <1>0, <1>4, HeadTailProperties
  <2>2. /\ worker'[results[1]].phase = "free"
        /\ \A r \in Runs \ {results[1]} : worker'[r] = worker[r]
    BY <1>0, <1>4, <2>1 DEF NoWorker
  <2>3. \A k \in DOMAIN results' : k + 1 \in DOMAIN results /\ k + 1 # 1
    BY <1>0, <2>1
  <2>4. \A k \in DOMAIN results : k # 1 =>
            k - 1 \in DOMAIN results' /\ (k - 1) + 1 = k
    BY <1>0, <2>1
  <2>5. 1 \in DOMAIN results
    BY <1>0, <2>1
  <2>6. \A k \in DOMAIN results' : worker'[results'[k]].phase = "delivered"
    BY <1>0, <2>1, <2>2, <2>3, <2>5 DEF ResultsAreDelivered
  <2>7. ASSUME NEW r \in Runs, worker'[r].phase = "delivered"
        PROVE  \E k \in DOMAIN results' : results'[k] = r
    <3>1. r # results[1] /\ worker[r].phase = "delivered"
      BY <2>2, <2>7
    <3>2. PICK k \in DOMAIN results : results[k] = r
      BY <3>1 DEF ResultsAreDelivered
    <3>3. k - 1 \in DOMAIN results' /\ results'[k - 1] = r
      BY <2>1, <2>4, <3>1, <3>2
    <3> QED
      BY <3>3
  <2>8. ASSUME NEW j \in DOMAIN results', NEW k \in DOMAIN results', results'[j] = results'[k]
        PROVE  j = k
    <3>1. j + 1 = k + 1
      BY <2>1, <2>3, <2>8 DEF ResultsAreDelivered
    <3> QED
      BY <1>0, <2>1, <3>1
  <2> QED
    BY <2>6, <2>7, <2>8 DEF ResultsAreDelivered
<1> QED
  BY <1>1, <1>2, <1>3, <1>4, WhoTouchesResults

(* A worker's result is in completedCh exactly from its send to the loop's *)
(* receive, and once: no session ends without handleWorkerResult, however  *)
(* full the channel was and whatever happened to the issue's entry.        *)
THEOREM SchedulerResultsAreDelivered == Spec => []ResultsAreDelivered
<1>1. Init => ResultsAreDelivered
  BY DEF Init, ResultsAreDelivered, NoWorker
<1>2. IInv /\ ResultsAreDelivered /\ [Next]_vars => ResultsAreDelivered'
  BY ResultsNext
<1> QED
  BY <1>1, <1>2, SchedulerIInv, PTL DEF Spec
-----------------------------------------------------------------------------
(* Why a retry entry is not forgotten.  An entry that is not due has its   *)
(* timer, since only a timer that is late enough fires; one that is due    *)
(* has a wake-up on its way unless a pause has used it up.                 *)

WakeInv ==
    /\ ~LabelEdits => trusted = Issues
    /\ ~ClockSlack => \A i \in HasRetry : ~retry[i].due => i \in timers
    /\ ~LabelEdits /\ ~ClockSlack => ParkedOnlyWhilePaused

LEMMA WakeInit == Init => WakeInv
  BY DEF Init, WakeInv, HasRetry, ParkedOnlyWhilePaused, Parked

(* The steps that leave labels and pauses alone treat an issue in one of   *)
(* four ways: its entry is dropped, it is scheduled and armed anew, it     *)
(* becomes the completion in hand, or its entry loses neither its timer    *)
(* nor its wake-up.                                                        *)
Untouched(i) ==
    /\ retry'[i] = retry[i]
    /\ i \in InCompletion => i \in InCompletion'
    /\ i \in timers => i \in timers'
    /\ wakes'[i] = wakes[i]

Tended(i) ==
    \/ retry'[i] = NoRetry
    \/ i \in timers'
    \/ retry'[i] = retry[i] /\ retry[i].due /\ i \in InCompletion'
    \/ Untouched(i)

LEMMA TendedKeeps ==
  ASSUME WakeInv,
         UNCHANGED <<trusted, paused, pausedStages>>,
         \A i \in Issues : Tended(i)
  PROVE  WakeInv'
<1>1. \A i \in Issues : i \in HasRetry <=> retry[i] # NoRetry
  BY DEF HasRetry
<1>2. \A i \in Issues : i \in HasRetry' <=> retry'[i] # NoRetry
  BY DEF HasRetry
<1>3. ~LabelEdits => trusted' = Issues
  BY DEF WakeInv
<1>4. ASSUME ~ClockSlack, NEW i \in HasRetry', ~retry'[i].due PROVE i \in timers'
  BY <1>1, <1>2, <1>4 DEF WakeInv, Tended, Untouched, HasRetry
<1>5. ASSUME ~LabelEdits, ~ClockSlack, NEW i \in Issues, Parked(i)'
      PROVE  paused' \/ pausedStages' # {}
  <2>1. Parked(i)
    BY <1>1, <1>2, <1>5 DEF Tended, Untouched, Parked
  <2> QED
    BY <1>5, <2>1 DEF WakeInv, ParkedOnlyWhilePaused
<1> QED
  BY <1>3, <1>4, <1>5 DEF WakeInv, ParkedOnlyWhilePaused

LEMMA LoopTends ==
  ASSUME IInv, Tick \/ LoopContinues \/ HandleResult, NEW i \in Issues
  PROVE  Tended(i) /\ UNCHANGED <<trusted, paused, pausedStages>>
<1>0. retry \in [Issues -> RetryEntries \cup {NoRetry}]
  BY DEF IInv, TypeOK
<1>1. CASE Tick
  BY <1>1 DEF Tick, Tended, Untouched, InCompletion
<1>2. CASE \/ ReconcileApply \/ CandidatesFail \/ FetchCandidates \/ NextCandidate
           \/ GateRefuses \/ SlotDenied \/ SlotGranted \/ PrepareOK
  <2>1. UNCHANGED <<retry, timers, wakes, trusted, paused, pausedStages>>
    BY <1>2 DEF ReconcileApply, CandidatesFail, FetchCandidates, NextCandidate, GateRefuses,
       SlotDenied, SlotGranted, PrepareOK, GateOpen
  <2>2. InCompletion = {}
    BY <1>2 DEF ReconcileApply, CandidatesFail, FetchCandidates, NextCandidate, GateRefuses,
       SlotDenied, SlotGranted, PrepareOK, GateOpen, InCompletion
  <2> QED
    BY <2>1, <2>2 DEF Tended, Untouched
<1>3. CASE Recheck \/ Launch \/ CleanupEnds
  <2>1. UNCHANGED <<retry, timers, wakes, trusted, paused, pausedStages>>
    BY <1>3 DEF Recheck, Launch, CleanupEnds
  <2>2. InCompletion = {}
    BY <1>3 DEF Recheck, Launch, CleanupEnds, InCompletion
  <2> QED
    BY <2>1, <2>2 DEF Tended, Untouched
<1>4. CASE PrepareFails
  <2>1. ScheduleRetry(cur, "agent") /\ pc = "prepare"
        /\ UNCHANGED <<wakes, trusted, paused, pausedStages>>
    BY <1>4 DEF PrepareFails
  <2> QED
    BY <1>0, <2>1 DEF ScheduleRetry, Tended, Untouched, InCompletion
<1>5. CASE CompleteCheck \/ MoveOK \/ MoveRetries
  <2>1. /\ UNCHANGED <<wakes, trusted, paused, pausedStages>>
        /\ pc \in {"complete", "move"} /\ cur \in Issues
    BY <1>5 DEF IInv, HandInv, CompleteCheck, MoveOK, MoveRetries
  <2>2. \/ \E k \in Kinds : ScheduleRetry(cur, k)
        \/ pc = "complete" /\ ReleaseClaim(cur)
        \/ DropRetry(cur)
        \/ UNCHANGED retryVars /\ pc' = "move" /\ cur' = cur
    BY <1>5 DEF CompleteCheck, MoveOK, MoveRetries, Kinds
  <2>3. InCompletion = {cur}
    BY <2>1 DEF InCompletion
  <2>4. CASE \E k \in Kinds : ScheduleRetry(cur, k)
    BY <1>0, <2>1, <2>3, <2>4 DEF ScheduleRetry, Tended, Untouched
  <2>5. CASE pc = "complete" /\ ReleaseClaim(cur)
    <3>1. retry[cur] = NoRetry
      BY <2>1, <2>5 DEF IInv, HandInv, HasRetry
    <3> QED
      BY <2>1, <2>3, <2>5, <3>1 DEF ReleaseClaim, Tended, Untouched
  <2>6. CASE DropRetry(cur)
    BY <1>0, <2>1, <2>3, <2>6 DEF DropRetry, Tended, Untouched
  <2>7. CASE UNCHANGED retryVars /\ pc' = "move" /\ cur' = cur
    BY <2>1, <2>3, <2>7 DEF Tended, Untouched, InCompletion
  <2> QED
    BY <2>1, <2>2, <2>4, <2>5, <2>6, <2>7
<1>6. CASE HandleResult
  <2>1. pc = "idle" /\ UNCHANGED <<wakes, trusted, paused, pausedStages>>
    BY <1>6 DEF HandleResult, HandleStaleResult, HandleWorkerResult
  <2>2. UNCHANGED retryVars \/ \E j \in Issues : ScheduleRetry(j, "agent")
    BY <1>6 DEF HandleResult, HandleStaleResult, HandleWorkerResult, ReleaseClaim, Running
  <2>3. InCompletion = {}
    BY <2>1 DEF InCompletion
  <2> QED
    BY <1>0, <2>1, <2>2, <2>3 DEF ScheduleRetry, Tended, Untouched
<1> QED
  BY <1>1, <1>2, <1>3, <1>4, <1>5, <1>6 DEF LoopContinues

(* handleRetry uses a wake-up of its issue up; what it leaves behind is a  *)
(* timer, a completion in hand, no entry, or a pause that is still on.     *)
LEMMA RetryKeepsAwake ==
  ASSUME IInv, WakeInv, NEW j \in Issues, HandleRetry(j)
  PROVE  WakeInv'
<1>0. /\ retry \in [Issues -> RetryEntries \cup {NoRetry}]
      /\ wakes \in [Issues -> 0..MaxWakes]
  BY DEF IInv, TypeOK
<1>1. /\ pc = "idle" /\ InCompletion = {}
      /\ wakes' = [wakes EXCEPT ![j] = @ - 1]
      /\ UNCHANGED <<trusted, paused, pausedStages>>
  BY DEF HandleRetry, HandleStaleRetry, HandleRetryAgain, HandleRetryReleased, HandleRetryDeferred,
     HandleAgentRetry, HandleCompletionRetry, TakeDueRetry, TakeWake, InCompletion
<1>2. CASE \/ HandleRetryAgain(j) \/ HandleRetryReleased(j) \/ HandleAgentRetry(j)
  <2>1. \/ \E k \in Kinds : ScheduleRetry(j, k)
        \/ DropRetry(j)
        \/ retry' = [retry EXCEPT ![j] = NoRetry] /\ UNCHANGED timers
    BY <1>2 DEF HandleRetryAgain, HandleRetryReleased, HandleAgentRetry
  <2>2. \A i \in Issues : Tended(i)
    BY <1>0, <1>1, <2>1 DEF ScheduleRetry, DropRetry, Tended, Untouched
  <2> QED
    BY <1>1, <2>2, TendedKeeps
<1>3. CASE HandleCompletionRetry(j)
  <2>1. /\ UNCHANGED retryVars /\ retry[j].due
        /\ pc' = "move" /\ cur' = j
    BY <1>3 DEF HandleCompletionRetry, TakeDueRetry
  <2>2. \A i \in Issues : Tended(i)
    BY <1>0, <1>1, <2>1 DEF Tended, Untouched, InCompletion
  <2> QED
    BY <1>1, <2>2, TendedKeeps
<1>4. CASE HandleStaleRetry(j) \/ HandleRetryDeferred(j)
  <2>1. /\ UNCHANGED <<retry, timers, pc, cur>>
        /\ \/ retry[j] # NoRetry => ~retry[j].due
           \/ j \notin trusted
           \/ paused \/ pausedStages # {}
    BY <1>4 DEF HandleStaleRetry, HandleRetryDeferred, PausedFor, StagePaused
  <2>2. InCompletion' = {} /\ HasRetry' = HasRetry
    BY <1>1, <2>1 DEF InCompletion, HasRetry
  <2>3. ASSUME ~LabelEdits, ~ClockSlack, NEW i \in Issues, Parked(i)'
        PROVE  paused' \/ pausedStages' # {}
    <3>1. CASE i # j
      BY <1>0, <1>1, <2>1, <2>2, <2>3, <3>1 DEF WakeInv, ParkedOnlyWhilePaused, Parked
    <3>2. CASE i = j
      BY <1>1, <2>1, <2>2, <2>3, <3>2 DEF WakeInv, Parked, HasRetry
    <3> QED
      BY <3>1, <3>2
  <2> QED
    BY <1>1, <2>1, <2>2, <2>3 DEF WakeInv, ParkedOnlyWhilePaused
<1> QED
  BY <1>2, <1>3, <1>4 DEF HandleRetry

LEMMA TimersKeepAwake ==
  ASSUME IInv, WakeInv, NEW j \in Issues, TimeReachesDue(j) \/ TimerFires(j)
  PROVE  WakeInv'
<1>0. /\ retry \in [Issues -> RetryEntries \cup {NoRetry}]
      /\ wakes \in [Issues -> 0..MaxWakes]
      /\ NoRetry \notin RetryEntries
  BY EntryIsNotNoRetry DEF IInv, TypeOK
<1>1. UNCHANGED <<trusted, paused, pausedStages, pc, cur>> /\ InCompletion' = InCompletion
  BY DEF TimeReachesDue, TimerFires, InCompletion
<1>2. CASE TimeReachesDue(j)
  <2>1. /\ UNCHANGED <<timers, wakes>>
        /\ retry[j] # NoRetry
        /\ \A i \in Issues \ {j} : retry'[i] = retry[i]
        /\ retry'[j].due
    BY <1>0, <1>2 DEF TimeReachesDue, RetryEntries
  <2>2. \A i \in Issues : Parked(i)' => Parked(i)
    BY <1>1, <2>1 DEF Parked, HasRetry
  <2>3. ~ClockSlack => \A i \in HasRetry' : ~retry'[i].due => i \in timers'
    BY <2>1 DEF WakeInv, HasRetry
  <2> QED
    BY <1>1, <2>2, <2>3 DEF WakeInv, ParkedOnlyWhilePaused
<1>3. CASE TimerFires(j)
  <2>1. /\ UNCHANGED retry /\ HasRetry' = HasRetry
        /\ timers' = timers \ {j}
        /\ \A i \in Issues \ {j} : wakes'[i] = wakes[i]
        /\ wakes'[j] = wakes[j] + 1 /\ wakes[j] \in Nat
        /\ j \in HasRetry /\ ~ClockSlack => retry[j].due
    BY <1>0, <1>3, LimitsAssumption DEF TimerFires, HasRetry
  <2>2. \A i \in Issues : Parked(i)' => Parked(i)
    BY <1>1, <2>1 DEF Parked
  <2> QED
    BY <1>1, <2>1, <2>2 DEF WakeInv, ParkedOnlyWhilePaused
<1> QED
  BY <1>2, <1>3

(* A resume wakes every entry, also the ones that a pause parked.          *)
LEMMA OthersKeepAwake ==
  ASSUME IInv, WakeInv,
         \/ Operator
         \/ \E r \in Runs : WorkerFinishes(r) \/ AfterRun(r) \/ WorkerDelivers(r)
         \/ \E i \in Issues : EditState(i) \/ EditLabel(i)
         \/ UNCHANGED vars
  PROVE  WakeInv'
<1>0. wakes \in [Issues -> 0..MaxWakes] /\ MaxWakes \in Nat \ {0}
  BY LimitsAssumption DEF IInv, TypeOK
<1>1. /\ UNCHANGED <<retry, timers, pc, cur>>
      /\ ~LabelEdits => UNCHANGED trusted
      /\ \/ WakeRetries
         \/ /\ UNCHANGED wakes
            /\ paused' = paused \/ paused' = TRUE
            /\ pausedStages \subseteq pausedStages'
  BY DEF Operator, PauseProject, PauseStage, ResumeProject, ResumeStage, WorkerFinishes,
     AfterRun, WorkerDelivers, EditState, EditLabel, vars
<1>2. HasRetry' = HasRetry /\ InCompletion' = InCompletion
  BY <1>1 DEF HasRetry, InCompletion
<1>3. CASE WakeRetries
  <2>1. \A i \in HasRetry : wakes'[i] # 0
    BY <1>0, <1>3 DEF WakeRetries, HasRetry
  <2>2. \A i \in Issues : ~Parked(i)'
    BY <1>2, <2>1 DEF Parked
  <2> QED
    BY <1>1, <1>2, <2>2 DEF WakeInv, ParkedOnlyWhilePaused
<1>4. CASE ~WakeRetries
  BY <1>1, <1>2, <1>4 DEF WakeInv, ParkedOnlyWhilePaused, Parked
<1> QED
  BY <1>3, <1>4

LEMMA WakeNext == IInv /\ WakeInv /\ [Next]_vars => WakeInv'
<1> SUFFICES ASSUME IInv, WakeInv, [Next]_vars PROVE WakeInv'
  OBVIOUS
<1>1. CASE Tick \/ LoopContinues \/ HandleResult
  <2>1. \A i \in Issues : Tended(i)
    BY <1>1, LoopTends
  <2>2. UNCHANGED <<trusted, paused, pausedStages>>
    BY <1>1 DEF Tick, LoopContinues, HandleResult, ReconcileApply, CandidatesFail, FetchCandidates,
       NextCandidate, GateRefuses, SlotDenied, SlotGranted, PrepareOK, PrepareFails, Recheck,
       Launch, CompleteCheck, MoveOK, MoveRetries, CleanupEnds, HandleStaleResult,
       HandleWorkerResult
  <2> QED
    BY <2>1, <2>2, TendedKeeps
<1>2. CASE \E i \in Issues : HandleRetry(i)
  BY <1>2, RetryKeepsAwake
<1>3. CASE \E i \in Issues : TimeReachesDue(i) \/ TimerFires(i)
  BY <1>3, TimersKeepAwake
<1>4. CASE \/ Operator
           \/ \E r \in Runs : WorkerFinishes(r) \/ AfterRun(r) \/ WorkerDelivers(r)
           \/ \E i \in Issues : EditState(i) \/ EditLabel(i)
           \/ UNCHANGED vars
  BY <1>4, OthersKeepAwake
<1> QED
  BY <1>1, <1>2, <1>3, <1>4 DEF Next

(* While nobody takes trusted labels away and the timers keep to DueAtMs,  *)
(* a retry entry that nothing will wake was parked by a pause: handleRetry *)
(* keeps an entry without arming it only behind a pause, and               *)
(* wakeAfterResume reaches every entry.  Both hypotheses are needed: the   *)
(* entry of an issue that is untrusted when its retry comes, and the entry *)
(* whose timer fired a moment early, are kept with nothing armed for them. *)
THEOREM SchedulerParkedOnlyWhilePaused ==
  ASSUME ~LabelEdits, ~ClockSlack
  PROVE  Spec => []ParkedOnlyWhilePaused
<1>1. WakeInv => ParkedOnlyWhilePaused
  BY DEF WakeInv
<1> QED
  BY <1>1, WakeInit, WakeNext, SchedulerIInv, PTL DEF Spec
=============================================================================

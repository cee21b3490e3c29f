--------------------------- MODULE ShutdownProofs ---------------------------
(***************************************************************************)
(* Proofs about Shutdown, for any number of projects and sessions and any  *)
(* capacity of completedCh.                                                *)
(***************************************************************************)
EXTENDS Shutdown, TLAPS

(* Runtime.started is reset by the call that closes stopCh, and by nothing *)
(* else: it tells whether the call is still to come.                       *)
Marked ==
    \A p \in Projects :
        /\ calls[p] = IF started[p] THEN 0 ELSE 1
        /\ started[p] <=> phase[p] = "open"

(* What a wait of Stop found stays true after it.  The wait for the loop   *)
(* comes first because only the loop launches sessions: once it has ended, *)
(* the sessions of the project can only become fewer.                      *)
Waited ==
    \A p \in Projects :
        /\ phase[p] \in {"loop_waited", "draining", "handling", "stopped"} /\ late[p] = {}
             => loop[p] = "ended"
        /\ phase[p] \in {"draining", "handling", "stopped"} /\ late[p] = {}
             => live[p] = 0 /\ cancelled[p] = 0 /\ ending[p] = 0
        /\ phase[p] = "stopped" /\ late[p] = {} => queue[p] = 0

IInv == TypeOK /\ Marked /\ Waited

USE DEF main, stop, sessions, Add, Less, GoesTo, LoopGoesTo

LEMMA InitIInv == Init => IInv
<1> SUFFICES ASSUME Init PROVE IInv
  OBVIOUS
<1>1. 0 \in Nat /\ 0 \in 0..Capacity /\ 0 \in 0..MaxLaunches
  BY ShutdownAssumption
<1>2. TypeOK
  BY <1>1, Zenon DEF Init, TypeOK, Phases
<1>3. Marked
  BY DEF Init, Marked
<1>4. Waited
  BY DEF Init, Waited
<1> QED
  BY <1>2, <1>3, <1>4 DEF IInv

(* The counters of a session's way stay counters.                          *)
LEMMA TypeNext ==
  ASSUME TypeOK, [Next]_vars
  PROVE  TypeOK'
<1> USE ShutdownAssumption DEF TypeOK, Phases
<1>1. CASE Signal
  BY <1>1 DEF Signal
<1>2. CASE MainGoesOn \/ Exit
  BY <1>2 DEF MainGoesOn, Exit
<1>3. ASSUME NEW p \in Projects, MainStops(p) \/ MainSkips(p) \/ RuntimeStops(p)
      PROVE  TypeOK'
  <2>1. CASE BeginStop(p) /\ UNCHANGED <<signalled, exited, left, loop, sessions>>
    <3>1. /\ started' \in [Projects -> BOOLEAN] /\ phase' \in [Projects -> Phases]
          /\ calls' \in [Projects -> Nat] /\ UNCHANGED late
      BY <2>1 DEF BeginStop
    <3>2. at' \in Projects \cup {NoProject}
      BY <1>3, <2>1 DEF MainStops, MainSkips, RuntimeStops
    <3> QED
      BY <2>1, <3>1, <3>2
  <2>2. CASE MainSkips(p)
    BY <2>2 DEF MainSkips
  <2> QED
    BY <1>3, <2>1, <2>2 DEF MainStops, RuntimeStops
<1>4. ASSUME NEW p \in Projects, StopStep(p) \/ HandlingEnds(p)
      PROVE  TypeOK'
  <2>1. CASE Sweep(p)
    BY <2>1 DEF Sweep
  <2>2. CASE LoopIsDone(p) \/ LoopIsLate(p)
    BY <2>2 DEF LoopIsDone, LoopIsLate
  <2>3. CASE WorkersAreDone(p) \/ WorkersAreLate(p)
    BY <2>3 DEF WorkersAreDone, WorkersAreLate
  <2>4. CASE Drain(p) \/ HandlingEnds(p) \/ Drained(p)
    BY <2>4 DEF Drain, HandlingEnds, Drained
  <2> QED
    BY <1>4, <2>1, <2>2, <2>3, <2>4 DEF StopStep
<1>5. ASSUME NEW p \in Projects, AtWorkStep(p)
      PROVE  TypeOK'
  <2>1. CASE LoopTicks(p) \/ LoopReturns(p) \/ LoopEnds(p)
    BY <2>1 DEF LoopTicks, LoopReturns, LoopEnds
  <2>2. CASE Launch(p)
    BY <2>2 DEF Launch
  <2>3. CASE LoopCancels(p)
    BY <2>3 DEF LoopCancels
  <2>4. CASE LoopTakesResult(p)
    BY <2>4 DEF LoopTakesResult
  <2>5. CASE SessionEnds(p)
    BY <2>5 DEF SessionEnds
  <2>6. CASE Deliver(p)
    BY <2>6 DEF Deliver
  <2> QED
    BY <1>5, <2>1, <2>2, <2>3, <2>4, <2>5, <2>6 DEF AtWorkStep
<1>6. CASE UNCHANGED vars
  BY <1>6 DEF vars
<1> QED
  BY <1>1, <1>2, <1>3, <1>4, <1>5, <1>6 DEF Next, MainStep

(* Only BeginStop reads and resets the mark.                               *)
LEMMA MarkedNext ==
  ASSUME TypeOK, Marked, [Next]_vars
  PROVE  Marked'
<1> USE DEF TypeOK, Marked, Phases
<1>1. ASSUME NEW p \in Projects, BeginStop(p)
      PROVE  Marked'
  BY <1>1 DEF BeginStop
<1>2. ASSUME NEW p \in Projects, StopStep(p) \/ HandlingEnds(p)
      PROVE  Marked'
  <2>1. /\ phase[p] # "open" /\ phase'[p] # "open"
        /\ \A q \in Projects \ {p} : phase'[q] = phase[q]
        /\ UNCHANGED <<calls, started>>
    BY <1>2 DEF StopStep, Sweep, LoopIsDone, LoopIsLate, WorkersAreDone, WorkersAreLate,
                Drain, HandlingEnds, Drained
  <2> QED
    BY <2>1
<1>3. CASE UNCHANGED <<calls, started, phase>>
  BY <1>3
<1>4. ASSUME NEW p \in Projects, AtWorkStep(p)
      PROVE  UNCHANGED <<calls, started, phase>>
  BY <1>4 DEF AtWorkStep, LoopTicks, Launch, LoopCancels, LoopTakesResult, LoopReturns,
              LoopEnds, SessionEnds, Deliver
<1>5. CASE Signal \/ MainGoesOn \/ Exit \/ UNCHANGED vars
  BY <1>3, <1>5 DEF Signal, MainGoesOn, Exit, vars
<1> QED
  BY <1>1, <1>2, <1>3, <1>4, <1>5 DEF Next, MainStep, MainStops, MainSkips, RuntimeStops

(* Stop goes on from a wait only with what it waited for or marked late,   *)
(* and neither the loop nor a session undoes it.                           *)
LEMMA WaitedNext ==
  ASSUME TypeOK, Marked, Waited, [Next]_vars
  PROVE  Waited'
<1> USE DEF TypeOK, Waited, Phases
<1>1. ASSUME NEW p \in Projects, BeginStop(p), UNCHANGED <<loop, sessions>>
      PROVE  Waited'
  BY <1>1 DEF BeginStop
<1>2. ASSUME NEW p \in Projects, StopStep(p) \/ HandlingEnds(p)
      PROVE  Waited'
  <2>1. CASE Sweep(p)
    BY <2>1 DEF Sweep
  <2>2. CASE LoopIsDone(p)
    BY <2>2 DEF LoopIsDone
  <2>3. CASE LoopIsLate(p)
    BY <2>3 DEF LoopIsLate
  <2>4. CASE WorkersAreDone(p)
    <3>1. live[p] = 0 /\ cancelled[p] = 0 /\ ending[p] = 0
      BY <2>4 DEF WorkersAreDone, AtWork
    <3> QED
      BY <2>4, <3>1 DEF WorkersAreDone
  <2>5. CASE WorkersAreLate(p)
    BY <2>5 DEF WorkersAreLate
  <2>6. CASE Drain(p)
    BY <2>6 DEF Drain
  <2>7. CASE HandlingEnds(p)
    BY <2>7 DEF HandlingEnds
  <2>8. CASE Drained(p)
    BY <2>8 DEF Drained
  <2> QED
    BY <1>2, <2>1, <2>2, <2>3, <2>4, <2>5, <2>6, <2>7, <2>8 DEF StopStep
<1>3. ASSUME NEW p \in Projects, AtWorkStep(p)
      PROVE  Waited'
  <2>1. CASE LoopTicks(p) \/ LoopReturns(p) \/ LoopEnds(p)
    BY <2>1 DEF LoopTicks, LoopReturns, LoopEnds
  <2>2. CASE Launch(p)
    BY <2>2 DEF Launch
  <2>3. CASE LoopCancels(p)
    BY <2>3 DEF LoopCancels
  <2>4. CASE LoopTakesResult(p)
    BY <2>4 DEF LoopTakesResult
  <2>5. CASE SessionEnds(p)
    BY <2>5 DEF SessionEnds
  <2>6. CASE Deliver(p)
    BY <2>6 DEF Deliver
  <2> QED
    BY <1>3, <2>1, <2>2, <2>3, <2>4, <2>5, <2>6 DEF AtWorkStep
<1>4. CASE UNCHANGED <<phase, late, loop, sessions>>
  BY <1>4
<1>5. CASE Signal \/ MainGoesOn \/ Exit \/ UNCHANGED vars
  BY <1>4, <1>5 DEF Signal, MainGoesOn, Exit, vars
<1> QED
  BY <1>1, <1>2, <1>3, <1>4, <1>5 DEF Next, MainStep, MainStops, MainSkips, RuntimeStops

(* The inductive invariant holds in every reachable state.                 *)
THEOREM ShutdownIInv == Spec => []IInv
<1>1. IInv /\ [Next]_vars => IInv'
  BY TypeNext, MarkedNext, WaitedNext DEF IInv
<1> QED
  BY <1>1, InitIInv, PTL DEF Spec

(* The state of a shutdown is well typed for any projects: no count of     *)
(* sessions goes below zero and completedCh never holds more than it can.  *)
THEOREM ShutdownTypeOK == Spec => []TypeOK
<1>1. IInv => TypeOK
  BY DEF IInv
<1> QED
  BY <1>1, ShutdownIInv, PTL

(* However many projects there are, main and the runtimes' own goroutines  *)
(* call Orchestrator.Stop at most once for each: stopCh is closed once.    *)
THEOREM ShutdownStopsOnce == Spec => []StopsOnce
<1>1. IInv => StopsOnce
  BY DEF IInv, TypeOK, Marked, StopsOnce
<1> QED
  BY <1>1, ShutdownIInv, PTL

(* A Stop whose waits were met has ended the loop and every session and    *)
(* handled every result, for any capacity and any number of sessions.      *)
THEOREM ShutdownStopIsComplete == Spec => []StopIsComplete
<1>1. IInv => StopIsComplete
  BY DEF IInv, TypeOK, Waited, StopIsComplete, AtWork
<1> QED
  BY <1>1, ShutdownIInv, PTL
=============================================================================

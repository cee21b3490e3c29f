------------------------------ MODULE Shutdown ------------------------------
(***************************************************************************)
(* The end of the process: the signal, main and the goroutine of every     *)
(* project runtime that both stop it (cmd/simphony/main.go,                *)
(* internal/project/manager.go and runtime.go), and Orchestrator.Stop      *)
(* beside a poll loop and sessions that are still at work                  *)
(* (internal/orchestrator/orchestrator.go).                                *)
(*                                                                         *)
(* Sessions are counted, by how far they have come.  What a tick and the   *)
(* handlers do is in Scheduler and Completion; here a tick may launch      *)
(* sessions and a handler takes its time.                                  *)
(***************************************************************************)
EXTENDS Naturals, FiniteSets

CONSTANTS
    Projects,      \* projects that were started
    Capacity,      \* of completedCh
    Multi,         \* run from a registry, not from one workflow file
    NoProject,
    MaxLaunches    \* bound: sessions of all projects

ASSUME ShutdownAssumption ==
    /\ IsFiniteSet(Projects) /\ Projects # {}
    /\ ~Multi => Cardinality(Projects) = 1
    /\ NoProject \notin Projects
    /\ Capacity \in Nat \ {0} /\ MaxLaunches \in Nat /\ Multi \in BOOLEAN

Phases == {"open", "closed", "swept", "loop_waited", "draining", "handling", "stopped"}

VARIABLES
    signalled,   \* ctx is done
    exited,      \* main has returned
    left,        \* runtimes that manager.Stop has not been through
    at,          \* the runtime whose Stop main is in
    started,     \* Runtime.started
    phase,       \* how far Orchestrator.Stop is
    calls,       \* history: calls of Orchestrator.Stop
    late,        \* the waits of Stop that ran into their time limit
    loop,        \* the poll loop
    live,        \* sessions that were not cancelled
    cancelled,   \* sessions that were
    ending,      \* sessions that have a result and have not sent it
    queue,       \* results in completedCh
    launched     \* sessions so far

main == <<signalled, exited, left, at>>
stop == <<started, phase, calls, late>>
sessions == <<live, cancelled, ending, queue, launched>>
vars == <<main, stop, loop, sessions>>

Init ==
    /\ signalled = FALSE /\ exited = FALSE
    /\ left = Projects /\ at = NoProject
    /\ started = [p \in Projects |-> TRUE]
    /\ phase = [p \in Projects |-> "open"]
    /\ calls = [p \in Projects |-> 0]
    /\ late = [p \in Projects |-> {}]
    /\ loop = [p \in Projects |-> "tick"]  \* the first tick is at once
    /\ live = [p \in Projects |-> 0]
    /\ cancelled = [p \in Projects |-> 0]
    /\ ending = [p \in Projects |-> 0]
    /\ queue = [p \in Projects |-> 0]
    /\ launched = 0

Add(f, p, n) == [f EXCEPT ![p] = @ + n]
Less(f, p) == [f EXCEPT ![p] = @ - 1]
-----------------------------------------------------------------------------
(* Who stops a project.                                                    *)

Signal ==
    /\ ~signalled
    /\ signalled' = TRUE
    /\ UNCHANGED <<exited, left, at, stop, loop, sessions>>

\* Mutant of BeginStop: started is read under the lock and not reset there.
BeginStopUnmarked(p) ==
    /\ started[p]
    /\ calls' = Add(calls, p, 1)
    /\ phase' = [phase EXCEPT ![p] = "closed"]
    /\ UNCHANGED <<started, late>>

\* Runtime.Stop of a runtime that is started: it is marked under r.mu, then
\* Orchestrator.Stop stops the ticker, leaves the supervisor's line and closes stopCh.
BeginStop(p) ==
    /\ started[p]
    /\ started' = [started EXCEPT ![p] = FALSE]
    /\ calls' = Add(calls, p, 1)
    /\ phase' = [phase EXCEPT ![p] = "closed"]
    /\ UNCHANGED late

\* The goroutine that Runtime.Start leaves behind.
RuntimeStops(p) ==
    /\ Multi /\ signalled
    /\ BeginStop(p)
    /\ UNCHANGED <<main, loop, sessions>>

\* manager.Stop, in any order of its map; without a registry, main stops its one
\* orchestrator itself.
MainStops(p) ==
    /\ signalled /\ at = NoProject /\ p \in left
    /\ BeginStop(p)
    /\ at' = p
    /\ UNCHANGED <<signalled, exited, left, loop, sessions>>

\* Runtime.Stop returns at once when the other caller was first.
MainSkips(p) ==
    /\ signalled /\ at = NoProject /\ p \in left
    /\ ~started[p]
    /\ left' = left \ {p}
    /\ UNCHANGED <<signalled, exited, at, stop, loop, sessions>>

MainGoesOn ==
    /\ at # NoProject /\ phase[at] = "stopped"
    /\ left' = left \ {at}
    /\ at' = NoProject
    /\ UNCHANGED <<signalled, exited, stop, loop, sessions>>

Exit ==
    /\ signalled /\ at = NoProject /\ left = {}
    /\ exited' = TRUE
    /\ UNCHANGED <<signalled, left, at, stop, loop, sessions>>
-----------------------------------------------------------------------------
(* Orchestrator.Stop.                                                      *)

GoesTo(p, next) == phase' = [phase EXCEPT ![p] = next]

\* Every session that has a cancel function is cancelled, once.
Sweep(p) ==
    /\ phase[p] = "closed"
    /\ GoesTo(p, "swept")
    /\ cancelled' = Add(cancelled, p, live[p])
    /\ live' = [live EXCEPT ![p] = 0]
    /\ UNCHANGED <<main, started, calls, late, loop, ending, queue, launched>>

\* Mutant of LoopIsDone: Stop does not wait for the loop.
LoopIsDoneAnyway(p) ==
    /\ phase[p] = "swept"
    /\ GoesTo(p, "loop_waited")
    /\ UNCHANGED <<main, started, calls, late, loop, sessions>>

LoopIsDone(p) ==
    /\ phase[p] = "swept" /\ loop[p] = "ended"
    /\ GoesTo(p, "loop_waited")
    /\ UNCHANGED <<main, started, calls, late, loop, sessions>>

LoopIsLate(p) ==
    /\ phase[p] = "swept" /\ loop[p] # "ended"
    /\ GoesTo(p, "loop_waited")
    /\ late' = [late EXCEPT ![p] = @ \cup {"loop"}]
    /\ UNCHANGED <<main, started, calls, loop, sessions>>

\* A session's goroutine is done when its result is in completedCh.
AtWork(p) == live[p] + cancelled[p] + ending[p]

WorkersAreDone(p) ==
    /\ phase[p] = "loop_waited" /\ AtWork(p) = 0
    /\ GoesTo(p, "draining")
    /\ UNCHANGED <<main, started, calls, late, loop, sessions>>

\* Mutant of WorkersAreLate: the wait for the sessions has no time limit.
WorkersAreLateNever(p) == FALSE

WorkersAreLate(p) ==
    /\ phase[p] = "loop_waited" /\ AtWork(p) > 0
    /\ GoesTo(p, "draining")
    /\ late' = [late EXCEPT ![p] = @ \cup {"workers"}]
    /\ UNCHANGED <<main, started, calls, loop, sessions>>

\* Stop takes a result and calls handleWorkerResult, which may run a completion:
\* git and gh without a time limit, or up to 30 minutes of pull request checks.
Drain(p) ==
    /\ phase[p] = "draining" /\ queue[p] > 0
    /\ queue' = Less(queue, p)
    /\ GoesTo(p, "handling")
    /\ UNCHANGED <<main, started, calls, late, loop, live, cancelled, ending, launched>>

HandlingEnds(p) ==
    /\ phase[p] = "handling"
    /\ GoesTo(p, "draining")
    /\ UNCHANGED <<main, started, calls, late, loop, sessions>>

Drained(p) ==
    /\ phase[p] = "draining" /\ queue[p] = 0
    /\ GoesTo(p, "stopped")
    /\ UNCHANGED <<main, started, calls, late, loop, sessions>>
-----------------------------------------------------------------------------
(* The loop and the sessions, which go on meanwhile.                       *)

LoopGoesTo(p, next) == loop' = [loop EXCEPT ![p] = next]

\* A select takes any branch that is ready: a tick, a refresh, a retry or a result
\* may still come before stopCh.
LoopTicks(p) ==
    /\ loop[p] = "select"
    /\ LoopGoesTo(p, "tick")
    /\ UNCHANGED <<main, stop, sessions>>

\* dispatch does not look at stopCh: what it launches after the sweep, nobody cancels.
Launch(p) ==
    /\ loop[p] = "tick"
    /\ launched < MaxLaunches
    /\ launched' = launched + 1
    /\ live' = Add(live, p, 1)
    /\ UNCHANGED <<main, stop, loop, cancelled, ending, queue>>

LoopTakesResult(p) ==
    /\ loop[p] = "select" /\ queue[p] > 0
    /\ queue' = Less(queue, p)
    /\ LoopGoesTo(p, "result")
    /\ UNCHANGED <<main, stop, live, cancelled, ending, launched>>

LoopReturns(p) ==
    /\ loop[p] \in {"tick", "result"}
    /\ LoopGoesTo(p, "select")
    /\ UNCHANGED <<main, stop, sessions>>

LoopEnds(p) ==
    /\ loop[p] = "select" /\ phase[p] # "open"
    /\ LoopGoesTo(p, "ended")
    /\ UNCHANGED <<main, stop, sessions>>

SessionEnds(p) ==
    /\ \/ live[p] > 0 /\ live' = Less(live, p) /\ UNCHANGED cancelled
       \/ cancelled[p] > 0 /\ cancelled' = Less(cancelled, p) /\ UNCHANGED live
    /\ ending' = Add(ending, p, 1)
    /\ UNCHANGED <<main, stop, loop, queue, launched>>

\* Mutant of Deliver: the channel has no limit.
DeliverUnbounded(p) ==
    /\ ending[p] > 0
    /\ ending' = Less(ending, p)
    /\ queue' = Add(queue, p, 1)
    /\ UNCHANGED <<main, stop, loop, live, cancelled, launched>>

Deliver(p) ==
    /\ ending[p] > 0 /\ queue[p] < Capacity
    /\ ending' = Less(ending, p)
    /\ queue' = Add(queue, p, 1)
    /\ UNCHANGED <<main, stop, loop, live, cancelled, launched>>

\* A tick of reconcile, or stall detection, cancels a session and forgets it.
LoopCancels(p) ==
    /\ loop[p] = "tick" /\ live[p] > 0
    /\ live' = Less(live, p)
    /\ cancelled' = Add(cancelled, p, 1)
    /\ UNCHANGED <<main, stop, loop, ending, queue, launched>>

StopStep(p) ==
    \/ Sweep(p)
    \/ LoopIsDone(p) \/ LoopIsLate(p)
    \/ WorkersAreDone(p) \/ WorkersAreLate(p)
    \/ Drain(p) \/ Drained(p)

MainStep == MainGoesOn \/ Exit \/ \E p \in Projects : MainStops(p) \/ MainSkips(p)

AtWorkStep(p) ==
    \/ LoopTicks(p) \/ Launch(p) \/ LoopCancels(p) \/ LoopTakesResult(p)
    \/ LoopReturns(p) \/ LoopEnds(p)
    \/ SessionEnds(p) \/ Deliver(p)

\* With main's return everything in the process is over.
Next ==
    /\ ~exited
    /\ \/ Signal
       \/ MainStep
       \/ \E p \in Projects :
             RuntimeStops(p) \/ StopStep(p) \/ HandlingEnds(p) \/ AtWorkStep(p)

Spec == Init /\ [][Next]_vars

\* The goroutines that stop run; nothing is promised of the loop, the agents or
\* the handling of a result that Stop drains.
Fairness ==
    /\ WF_vars(~exited /\ MainStep)
    /\ \A p \in Projects : WF_vars(~exited /\ StopStep(p))

FairSpec == Spec /\ Fairness
-----------------------------------------------------------------------------
TypeOK ==
    /\ signalled \in BOOLEAN /\ exited \in BOOLEAN
    /\ left \subseteq Projects /\ at \in Projects \cup {NoProject}
    /\ started \in [Projects -> BOOLEAN]
    /\ phase \in [Projects -> Phases]
    /\ calls \in [Projects -> Nat]
    /\ late \in [Projects -> SUBSET {"loop", "workers"}]
    /\ loop \in [Projects -> {"select", "tick", "result", "ended"}]
    /\ live \in [Projects -> Nat] /\ cancelled \in [Projects -> Nat]
    /\ ending \in [Projects -> Nat] /\ queue \in [Projects -> 0..Capacity]
    /\ launched \in 0..MaxLaunches

\* Orchestrator.Stop closes stopCh, and a second close panics: of main and the
\* runtime's own goroutine, only one calls it.
StopsOnce == \A p \in Projects : calls[p] <= 1

\* A Stop whose waits were met leaves nothing behind: the loop has ended, no session
\* is at work, and every result was handled.  Nothing of the project starts again.
StopIsComplete ==
    \A p \in Projects :
        phase[p] = "stopped" /\ late[p] = {} =>
            loop[p] = "ended" /\ AtWork(p) = 0 /\ queue[p] = 0

\* The process ends after the signal, whatever the loops and the agents do, unless
\* the handling of a result that Stop found in completedCh never ends.
StopReturns ==
    \/ \E p \in Projects : <>[](phase[p] = "handling")
    \/ signalled ~> exited

\* Main does not return before every project was stopped.
ExitWaits == exited => \A p \in Projects : phase[p] = "stopped"
=============================================================================

---------------------------- MODULE MCScheduler ----------------------------
(* Small instances of Scheduler: one project with its issues, the coding   *)
(* and the review stage, and two or three sessions at a time.              *)
EXTENDS Scheduler, TLC

\* todo -> in progress by dispatch, -> in review -> done by completion.
MCStageOf == ("todo" :> "coding") @@ ("in progress" :> "coding") @@ ("in review" :> "review")
MCSucc == ("todo" :> {"in review"}) @@ ("in progress" :> {"in review"})
          @@ ("in review" :> {"done"})
NoStateLimit == ("todo" :> 0) @@ ("in progress" :> 0) @@ ("in review" :> 0)

\* One coding state, for the runs with several issues.
OneStageOf == "todo" :> "coding"
OneSucc == "todo" :> {"done"}
OneNoStateLimit == "todo" :> 0

SymmetricRuns == Permutations(Runs)
SymmetricNames == Permutations(Runs) \cup Permutations(Issues)

\* Nothing that happens here depends on waiting.
WhatMatters ==
    <<tracker, trusted, running, entryState, cancels, claimed, retry, timers, wakes, worker,
      results, paused, pausedStages, slots, pc, cur, cands, seen>>
=============================================================================

----------------------------- MODULE MCShutdown -----------------------------
(* Two projects of a registry and two sessions: both may be one project's, *)
(* where a result then waits for the only place in completedCh.            *)
EXTENDS Shutdown
=============================================================================

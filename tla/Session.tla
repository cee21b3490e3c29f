------------------------------- MODULE Session -------------------------------
(***************************************************************************)
(* What a session is to the orchestrator, whichever agent runs in it: up   *)
(* to MaxTurns turns, one after the other, and one result, which says that *)
(* the turns went well only if the last of them is over.  AgentSession     *)
(* implements it, and says when the result comes.                          *)
(***************************************************************************)
EXTENDS Naturals

CONSTANT MaxTurns   \* agent.max_turns

VARIABLES phase, turn, result
vars == <<phase, turn, result>>

Init ==
    /\ phase = "idle"
    /\ turn = 1
    /\ result = "none"

BeginTurn ==
    /\ phase = "idle"
    /\ phase' = "working"
    /\ UNCHANGED <<turn, result>>

TurnOver ==
    /\ phase = "working"
    /\ phase' = "over"
    /\ UNCHANGED <<turn, result>>

NextTurn ==
    /\ phase = "over"
    /\ turn < MaxTurns
    /\ phase' = "working"
    /\ turn' = turn + 1
    /\ UNCHANGED result

End ==
    /\ phase # "ended"
    /\ phase' = "ended"
    /\ \/ result' \in {"failed", "cancelled"}
       \/ phase = "over" /\ turn < MaxTurns /\ result' = "success"
       \/ phase = "over" /\ turn = MaxTurns /\ result' = "max_turns"
    /\ UNCHANGED turn

Next == BeginTurn \/ TurnOver \/ NextTurn \/ End

Spec == Init /\ [][Next]_vars
=============================================================================

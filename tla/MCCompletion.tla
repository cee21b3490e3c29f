---------------------------- MODULE MCCompletion ----------------------------
(* A small instance of Completion: the default pipeline with review        *)
(* resolution, two passes and pull requests, in a team that has every      *)
(* state, in one without the review state, whose coding runs end in done,  *)
(* and in one that has neither.                                            *)
EXTENDS Completion

MCCompletionStates == <<ReviewState, DoneState>>
MCTeams == {States, States \ {ReviewState}, States \ {ReviewState, DoneState}}
=============================================================================

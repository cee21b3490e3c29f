---------------------------- MODULE MCWorkspace ----------------------------
(* Two issues whose branches are merged into one base branch, with up to  *)
(* two commits on each and a push by people in between.                    *)
EXTENDS Workspace, TLC

SymmetricIssues == Permutations(Issues)
=============================================================================

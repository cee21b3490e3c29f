----------------------------- MODULE MCTracker -----------------------------
(* Three issues and three workflow states on pages of one: every fetch and *)
(* every search for a state takes several requests.                        *)
EXTENDS Tracker
=============================================================================

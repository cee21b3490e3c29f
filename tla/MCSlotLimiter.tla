--------------------------- MODULE MCSlotLimiter ---------------------------
(* Four projects and one anonymous caller share two slots.                 *)
EXTENDS SlotLimiter

\* Enough sessions for one caller to hold every slot.
MCSessions == 1..Capacity
=============================================================================

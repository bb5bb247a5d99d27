----------------------------- MODULE MCSlotPool -----------------------------
(* One dispatch of each kind, and two that block, one of which hangs;       *)
(* so does the heavy one, so that both slots may be lost.                   *)
EXTENDS SlotPool

CONSTANTS heavy, git, bash, bash2, short
=============================================================================

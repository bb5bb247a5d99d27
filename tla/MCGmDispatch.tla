---------------------------- MODULE MCGmDispatch ----------------------------
(* Three dispatches of one lane, of which a and b use the same verb; a may   *)
(* hang.                                                                     *)
EXTENDS GmDispatch

CONSTANTS a, b, c, x, y

MCTasks == {a, b, c}
MCIdentities == {x, y}
MCIdentityOf == [d \in MCTasks |-> IF d = c THEN y ELSE x]
MCBudget == [d \in MCTasks |-> 1]
MCToolBudget == [d \in {a, b} |-> 1]
=============================================================================

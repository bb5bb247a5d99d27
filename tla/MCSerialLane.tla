---------------------------- MODULE MCSerialLane ----------------------------
(* A git lane: c1 and its re-dispatch c2 commit, c3 pushes.  c1 asked for a  *)
(* short wait of its own.                                                    *)
EXTENDS SerialLane

CONSTANTS c1, c2, c3, commit, push

MCClaims == {c1, c2, c3}
MCIdentities == {commit, push}
MCIdentityOf == [c \in MCClaims |-> IF c = c3 THEN push ELSE commit]
MCNetwork == {push}
MCBudget == [c \in MCClaims |-> IF c = c1 THEN 0 ELSE 3]
=============================================================================

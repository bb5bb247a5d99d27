----------------------------- MODULE RemoteCall -----------------------------
(* What a caller of a daemon is promised: its verb runs at most once,       *)
(* whoever runs it; a result is of a verb that ran; who is told to run the  *)
(* verb itself is the only one to do so; nothing runs after a reply.  Only  *)
(* an unverified outcome says nothing.                                      *)
EXTENDS Naturals

CONSTANT Callers

VARIABLES
    runs,      \* how often the verb of each caller was started
    outcome    \* what each caller knows of it

vars == <<runs, outcome>>

Init ==
    /\ runs = [c \in Callers |-> 0]
    /\ outcome = [c \in Callers |-> "pending"]

Start(c) == runs[c] = 0 /\ runs' = [runs EXCEPT ![c] = 1]

Execute(c) ==
    /\ outcome[c] \in {"pending", "unverified"}
    /\ Start(c)
    /\ UNCHANGED outcome

Learn(c) ==
    /\ outcome[c] = "pending"
    /\ \E o \in {"answered", "failed", "unverified", "alone"} :
          /\ outcome' = [outcome EXCEPT ![c] = o]
          /\ o = "answered" => runs[c] = 1
          /\ o = "alone" => runs[c] = 0
    /\ UNCHANGED runs

ExecuteAlone(c) ==
    /\ outcome[c] = "alone"
    /\ Start(c)
    /\ UNCHANGED outcome

Next == \E c \in Callers : Execute(c) \/ Learn(c) \/ ExecuteAlone(c)

Spec == Init /\ [][Next]_vars
=============================================================================

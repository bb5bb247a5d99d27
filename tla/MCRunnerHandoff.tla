-------------------------- MODULE MCRunnerHandoff --------------------------
(* One run of exec_js and one of task-spawn, on a single worker.           *)
EXTENDS RunnerHandoff

MCExecs == {"e"}
MCSpawns == {"s"}

=============================================================================

---------------------------- MODULE MCRunnerUpdate ----------------------------
(* Three builds of a plugin, the last two under one version, and three       *)
(* releases of the runner.                                                   *)
EXTENDS RunnerUpdate

CONSTANTS t1, t2

MCThreads == {t1, t2}
\* Version 2 needs the second runner, until it is published again.
MCVersionOf == <<1, 2, 2>>
MCNeedsRunner == <<1, 2, 1>>
=============================================================================

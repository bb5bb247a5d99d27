---------------------------- MODULE MCToolQueue ----------------------------
(* Four threads on one key: three with a budget, one without.              *)
EXTENDS ToolQueue

CONSTANTS d1, d2, d3, d4

MCDispatches == {d1, d2, d3, d4}
MCBounded == {d1, d2, d3}
=============================================================================

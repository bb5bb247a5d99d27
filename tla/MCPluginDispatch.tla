-------------------------- MODULE MCPluginDispatch --------------------------
(* Two callers and two daemons, as during a handoff.                        *)
EXTENDS PluginDispatch

CONSTANTS c1, c2, d1, d2
=============================================================================

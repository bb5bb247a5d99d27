----------------------------- MODULE MCHotReload -----------------------------
(***************************************************************************)
(* The hot reload of a plugin with two versions, two slots, a dispatch        *)
(* thread and calls from another plugin.                                    *)
(***************************************************************************)
EXTENDS HotReload

CONSTANTS v1, v2, s1, s2, d1, c1, t1, t2

MCHashes == {v1, v2}
MCSlots == {s1, s2}
MCDispatchers == {d1}
MCCallers == {c1}
MCThreads == {t1, t2}
=============================================================================

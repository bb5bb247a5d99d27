--------------------------- MODULE MCBrowserLease ---------------------------
(***************************************************************************)
(* The lease of one browser between two browser calls and an agent of the     *)
(* lease verbs, with one crash or shutdown of the daemon and windows closed   *)
(* by the user at any time.                                                 *)
(***************************************************************************)
EXTENDS BrowserLease

CONSTANTS c1, c2, v1, b1, b2

MCCalls == {c1, c2}
MCClients == {v1}
MCBrowsers == {b1, b2}
=============================================================================

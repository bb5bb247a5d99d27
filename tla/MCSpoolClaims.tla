--------------------------- MODULE MCSpoolClaims ---------------------------
(* One request and two daemons.  Requests meet only in the order of a      *)
(* sweep; one of them goes through everything that the files can do.        *)
EXTENDS SpoolInbox

CONSTANT r1
=============================================================================

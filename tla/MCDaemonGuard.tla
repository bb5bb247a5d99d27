--------------------------- MODULE MCDaemonGuard ---------------------------
(* Three process ids, two guards and two clients.                           *)
EXTENDS DaemonGuard

MCDaemons == {"d1", "d2", "d3"}
MCGuards == {"g1", "g2"}
MCClients == {"c1", "c2"}

=============================================================================

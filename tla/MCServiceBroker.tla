-------------------------- MODULE MCServiceBroker --------------------------
(* Three providers with weights of 0, 1 and 2, and one dispatch at a time.  *)
EXTENDS ServiceBroker

CONSTANTS p1, p2, p3, c1

MCProviders == {p1, p2, p3}
=============================================================================

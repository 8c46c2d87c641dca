----------------------------- MODULE MCShutdown -----------------------------
(* The shutdown of a server with a few requests in flight.                 *)
EXTENDS ServerShutdown

CONSTANTS u1, t1
=============================================================================

---------------------------- MODULE MCDatabasePool ----------------------------
(* Three calls on a pool of at most two databases: one call can find the pool
   empty while two others, or one and the call inside it, have both. *)
EXTENDS DatabasePool

MCNames == 1..MaxCalls
=============================================================================

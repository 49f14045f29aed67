--------------------------- MODULE MCDatabaseQueue ---------------------------
(* Three blocks: one that leaves something behind, one that runs into it and
   one that sees the result; one close and two failures among them. *)
EXTENDS DatabaseQueue

MCNames == 1..MaxTasks
=============================================================================

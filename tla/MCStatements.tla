---------------------------- MODULE MCStatements ----------------------------
(* One query of two rows, one update, two result sets. *)
EXTENDS Statements, TLC

CONSTANTS select, insert

MCRowCount == select :> 2
=============================================================================

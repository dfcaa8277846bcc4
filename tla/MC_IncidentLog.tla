--------------------------- MODULE MC_IncidentLog ---------------------------
(* Two threads append while two operators move the status, somebody with     *)
(* access to the database rewrites or deletes a row, and the process dies.   *)
EXTENDS IncidentLog, TLC

Symmetric == Permutations(Writers) \cup Permutations(Operators)
=============================================================================

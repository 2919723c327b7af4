--------------------------- MODULE MCSafeMigration ---------------------------
(* Instances of Migration that meet the conditions of SafeMigration. *)
EXTENDS SafeMigration, MCMigration
==============================================================================

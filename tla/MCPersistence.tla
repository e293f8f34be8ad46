---------------------------- MODULE MCPersistence ---------------------------
(* Persistence with three of the eleven files, in the order of the save.  *)
EXTENDS Persistence

CONSTANTS saver, c1

ThreeFiles == <<"access_modes", "memories", "jobs">>
=============================================================================

-------------------------- MODULE MCDatabaseRestore -------------------------
(* DatabaseRestore with one request, one worker and three restores.          *)
EXTENDS DatabaseRestore
=============================================================================

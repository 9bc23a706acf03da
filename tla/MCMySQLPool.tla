---------------------------- MODULE MCMySQLPool -----------------------------
(* Instances of MySQLPool for TLC.  Connections are interchangeable, but   *)
(* the run checks liveness, so no symmetry is declared.                    *)
EXTENDS MySQLPool
=============================================================================

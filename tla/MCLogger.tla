------------------------------ MODULE MCLogger ------------------------------
(* Instances of Logger for TLC.                                            *)
EXTENDS Logger

MCEntry == 1..MaxEntry
=============================================================================

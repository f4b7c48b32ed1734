--------------------------- MODULE MCLevelWrites ---------------------------
(* Instances of LevelWrites for TLC.                                        *)
EXTENDS LevelWrites, TLC

CONSTANTS gui, worker
=============================================================================

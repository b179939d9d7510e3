------------------------------ MODULE MCBackup ------------------------------
(* Instances of Backup for TLC.                                            *)
EXTENDS Backup, TLC

(* The databases and the backups are interchangeable.                      *)
Symmetry == Permutations(Conn) \cup Permutations(Backups)
=============================================================================

--------------------------- MODULE MCBackup ---------------------------
(* A small instance of the commands of the owning loop. *)
EXTENDS Backup, TLC

MCArgs == [release : Releases \cup {NoRelease}, rollback : BOOLEAN] \cup BackupIds
MCIds == 1 .. MaxSends

Symmetry == Permutations(Keys) \cup Permutations(Releases)
==============================================================================

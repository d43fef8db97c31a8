----------------------------- MODULE MCCvsLock -----------------------------
(* An instance of CvsLock for TLC. *)
EXTENDS CvsLock

MCProcs == 1..2
MCDirs == 1..3
MCNobody == 0
=============================================================================

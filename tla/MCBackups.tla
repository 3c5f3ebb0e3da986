----------------------------- MODULE MCBackups -----------------------------
(* Model values for Backups.                                               *)
EXTENDS Backups

CONSTANTS v1, m1, d1, loopBaks
=============================================================================

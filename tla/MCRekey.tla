------------------------------ MODULE MCRekey ------------------------------
(* Key exchanges on small instances. *)
EXTENDS Rekey
=============================================================================

--------------------------- MODULE MCTenantDeletion ---------------------------
(* A practice, its backups and its deletion for TLC. *)
EXTENDS TenantDeletion

===============================================================================

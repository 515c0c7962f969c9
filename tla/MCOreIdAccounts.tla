-------------------------- MODULE MCOreIdAccounts --------------------------
(* Small instances of OreIdAccounts. *)
EXTENDS OreIdAccounts

=============================================================================

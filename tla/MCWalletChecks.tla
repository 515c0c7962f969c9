--------------------------- MODULE MCWalletChecks ---------------------------
(* Small instances of WalletChecks. *)
EXTENDS WalletChecks

=============================================================================

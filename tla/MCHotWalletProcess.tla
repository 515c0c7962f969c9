------------------------ MODULE MCHotWalletProcess ------------------------
(* A small instance of HotWalletProcess for TLC.                           *)
EXTENDS HotWalletProcess, TLC

Symmetry == Permutations(Targets) \cup Permutations(Contracts)

\* A transaction may not be saved; what else happens beside the wallet is in
\* the instances of BlockchainTransactions and HotWallet.
SavesFail == {"save_fails"}
===========================================================================

--------------------------- MODULE MCHotWallet ---------------------------
(* Small instances of HotWallet for TLC. The accidents that the Redis keys  *)
(* do not stand happen in the process around it (MCHotWalletProcess).       *)
EXTENDS HotWallet, TLC

Symmetry == Permutations(Awards) \cup Permutations(Requests)

\* What the server's processes and people do beside the wallet.
Beside == {"save_fails", "crash", "by_hand"}

\* Every fault the Redis keys are meant to stand.
GuardedFaults == {"reply_lost", "put_lost", "delete_lost", "crash"}
==========================================================================

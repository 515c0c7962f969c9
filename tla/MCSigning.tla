----------------------------- MODULE MCSigning -----------------------------
(* Small instances of Signing: a tab with an Ethereum project and one with  *)
(* an Algorand project.                                                     *)
EXTENDS Signing, TLC

EthereumAndAlgorand ==
  "ethereum" :> {"metamask", "wallet-connect"} @@ "algorand" :> {"ore-id"}

=============================================================================

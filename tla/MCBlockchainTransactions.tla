-------------------- MODULE MCBlockchainTransactions --------------------
(* Small instances of BlockchainTransactions for TLC: what the surroundings *)
(* do in each run, and which constants are interchangeable.                 *)
EXTENDS BlockchainTransactions, TLC

Symmetry == Permutations(Awards) \cup Permutations(Requests) \cup Permutations(Workers)

\* People sign in the browser.
Browser == {"ui"}
=========================================================================

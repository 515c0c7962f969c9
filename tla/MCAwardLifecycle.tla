------------------------ MODULE MCAwardLifecycle ------------------------
(* Small instances of AwardLifecycle for TLC: which handlers are used in   *)
(* each run, and which constants are interchangeable.                      *)
EXTENDS AwardLifecycle, TLC

Symmetry == Permutations(Accounts) \cup Permutations(Requests)

\* Awards are sent, paid and cancelled beside what contributors do.
Paying == {"transfers", "send", "payments"}
=========================================================================

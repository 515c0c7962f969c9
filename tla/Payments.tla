----------------------------- MODULE Payments -----------------------------
(***************************************************************************)
(* What the payment of awards promises, whatever processes carry it out:   *)
(* an award is put on the chain by at most one transaction, and it is      *)
(* marked as paid only after that, or because people say so.               *)
(***************************************************************************)
CONSTANTS Awards, Transactions

VARIABLES
  carriers,  \* for each award, the transactions broadcast that pay it
  settled,   \* the awards marked as paid
  byHand     \* those of them that people marked

payVars == <<carriers, settled, byHand>>

TypeOK ==
  /\ carriers \in [Awards -> SUBSET Transactions]
  /\ settled \subseteq Awards
  /\ byHand \subseteq settled

Init ==
  /\ carriers = [a \in Awards |-> {}]
  /\ settled = {}
  /\ byHand = {}

\* Transaction t is broadcast and pays the awards of S, none paid before.
Deliver(t, S) ==
  /\ \A a \in S : carriers[a] = {}
  /\ carriers' = [a \in Awards |-> IF a \in S THEN {t} ELSE carriers[a]]
  /\ UNCHANGED <<settled, byHand>>

Settle(a) ==
  /\ carriers[a] # {}
  /\ settled' = settled \cup {a}
  /\ UNCHANGED <<carriers, byHand>>

\* People mark an award that is not settled, on the chain or not.
SettleByHand(a) ==
  /\ a \notin settled
  /\ settled' = settled \cup {a}
  /\ byHand' = byHand \cup {a}
  /\ UNCHANGED carriers

Next ==
  \/ \E t \in Transactions, S \in SUBSET Awards : Deliver(t, S)
  \/ \E a \in Awards : Settle(a) \/ SettleByHand(a)

Spec == Init /\ [][Next]_payVars

\* An award is carried by at most one transaction.
AtMostOnce == \A a \in Awards : \A t, u \in carriers[a] : t = u

\* Only what was put on the chain is marked as paid, but by people.
SettledWasDelivered == \A a \in settled \ byHand : carriers[a] # {}

=============================================================================

------------------------- MODULE WalletChecksProofs -------------------------
(***************************************************************************)
(* Theorems about the checks of the wallet, for all balances and amounts:  *)
(* what is cached at the start of a pass bounds what the wallet has while  *)
(* the pass lasts, and rounding keeps the order of amounts.                *)
(***************************************************************************)
EXTENDS WalletChecks, Integers, TLAPS

\* What was read is still there, but for what landed since: once at most in a
\* pass, as a pass that gives a transaction up is over.
CacheBounds ==
  /\ ~At("idle") => pass.coins <= wallet.coins + pass.landed.fee
  /\ pass.pc \in {"ask", "check", "send"} => pass.tokens <= wallet.tokens + pass.landed.amount
  /\ flight # Nothing => pass.landed = Nothing

\* Whatever is to be sent, the check has let through.
Checked == At("send") => pass.tx.amount = 0 \/ ~ShortOfTokens

ChecksInv == TypeOK /\ CacheBounds /\ Checked /\ RefusedWasShort /\ EndsWithAMark

-----------------------------------------------------------------------------
(* Rounding                                                                 *)

\* A larger amount never has a smaller JavaScript number.
LEMMA NumberIsMonotone ==
  ASSUME NEW m \in Nat, NEW n \in Nat, m <= n
  PROVE  Number(m) <= Number(n)
<1>1. CASE m <= Exact
  BY <1>1, ChecksAssumption DEF Number
<1>2. CASE m > Exact /\ n = m
  BY <1>2, ChecksAssumption DEF Number
<1>3. CASE m > Exact /\ n = m + 1
  <2>1. m % 4 = 3 => n % 2 = 0
    BY <1>3
  <2>2. m % 2 = 0 \/ m % 4 = 1 \/ m % 4 = 3
    OBVIOUS
  <2> QED BY <1>3, <2>1, <2>2, ChecksAssumption DEF Number
<1>4. CASE m > Exact /\ n > m + 1
  BY <1>4, ChecksAssumption DEF Number
<1> QED BY <1>1, <1>2, <1>3, <1>4, ChecksAssumption

\* So what is short of numbers is short of tokens.
LEMMA ShortIsShort ==
  ASSUME TypeOK, ShortOfTokens PROVE pass.tokens < pass.tx.amount
<1>1. pass.tokens \in Nat /\ pass.tx.amount \in Nat
  BY ChecksAssumption DEF TypeOK, Passes, Transaction
<1>2. Number(pass.tokens) \in Int /\ Number(pass.tx.amount) \in Int
  BY <1>1 DEF Number
<1>3. pass.tx.amount <= pass.tokens => Number(pass.tx.amount) <= Number(pass.tokens)
  BY <1>1, NumberIsMonotone
<1> QED BY <1>1, <1>2, <1>3 DEF ShortOfTokens, Amount

-----------------------------------------------------------------------------
(* The steps                                                                *)

\* What a step may leave of the pass when it ends it: a result with the
\* transaction and the balance that it was about.
LEMMA EndTyped ==
  ASSUME TypeOK, NEW is \in {"sent", "cancelled", "failed", "untouched"},
         NEW by \in {"isTransactionValid", "sendTransaction"}, NEW manual \in BOOLEAN,
         Ends(is, by, manual)
  PROVE  /\ pass' \in Passes /\ result' \in Results
         /\ pass'.pc = "idle" /\ pass'.landed = Nothing
         /\ result'.is = is /\ result'.by = by
         /\ result'.of = pass.tx /\ result'.tokens = pass.tokens
<1>1. NewPass \in Passes /\ NewPass.pc = "idle" /\ NewPass.landed = Nothing
  BY ChecksAssumption DEF NewPass, Passes, NoTransaction, Transaction, Nothing, Cost
<1>2. pass.tx \in Transaction /\ pass.tokens \in 0..MaxTokens
  BY DEF TypeOK, Passes
<1> QED BY <1>1, <1>2 DEF Ends, Verdict, Results

LEMMA ChecksInit == Init => ChecksInv
<1> SUFFICES ASSUME Init PROVE ChecksInv
  OBVIOUS
<1>1. NoTransaction \in Transaction /\ Nothing \in Cost
  BY ChecksAssumption DEF NoTransaction, Transaction, Nothing, Cost
<1>2. NewPass \in Passes /\ NoResult \in Results
  BY <1>1, ChecksAssumption DEF NewPass, Passes, NoResult, Results
<1>3. TypeOK
  BY <1>1, <1>2, ChecksAssumption DEF Init, TypeOK
<1> QED BY <1>1, <1>3 DEF Init, ChecksInv, CacheBounds, Checked, RefusedWasShort, EndsWithAMark,
                    At, NewPass, NoResult, NoTransaction

\* The pass goes on to its next step.
LEMMA Reading ==
  ASSUME ChecksInv, ReadsCoins \/ ReadsTokens \/ \E tx \in Transaction : GetsTransaction(tx)
  PROVE  ChecksInv'
<1> USE DEF ChecksInv, TypeOK, CacheBounds, Checked, RefusedWasShort, EndsWithAMark, At
<1>0. /\ NewPass \in Passes /\ NewPass.pc = "idle" /\ NewPass.landed = Nothing
      /\ NoResult \in Results
  BY ChecksAssumption
     DEF NewPass, Passes, NoTransaction, Transaction, NoResult, Results, Nothing, Cost
<1>a. pass.landed.amount \in Nat /\ pass.landed.fee \in Nat
  BY ChecksAssumption DEF Passes, Cost
<1>1. CASE ReadsCoins
  <2>1. pass' \in Passes /\ pass'.pc = "tokens" /\ pass'.coins = wallet.coins
        /\ pass'.landed = Nothing /\ pass'.landed.fee = 0
    BY <1>0, <1>1 DEF ReadsCoins, NewPass, Passes, Nothing
  <2>2. result'.is = "untouched" /\ result'.of.text = "none" /\ result' \in Results
    BY <1>0, <1>1 DEF ReadsCoins, NoResult, NoTransaction
  <2> QED BY <1>1, <2>1, <2>2, ChecksAssumption DEF ReadsCoins
<1>2. CASE ReadsTokens
  <2>1. CASE wallet.tokens > 0
    <3>1. pass' \in Passes /\ pass'.pc = "ask" /\ pass'.coins = pass.coins
          /\ pass'.tokens = wallet.tokens /\ pass'.landed = pass.landed
      BY <1>2, <2>1 DEF ReadsTokens, Passes
    <3> QED BY <1>a, <1>2, <3>1, ChecksAssumption DEF ReadsTokens
  <2>2. CASE ~(wallet.tokens > 0)
    BY <1>0, <1>2, <2>2 DEF ReadsTokens
  <2> QED BY <2>1, <2>2
<1>3. ASSUME NEW tx \in Transaction, GetsTransaction(tx) PROVE ChecksInv'
  <2>1. CASE tx.text = "none"
    BY <1>0, <1>3, <2>1 DEF GetsTransaction
  <2>2. CASE tx.text # "none"
    <3>1. pass' \in Passes /\ pass'.pc = "check" /\ pass'.coins = pass.coins
          /\ pass'.tokens = pass.tokens /\ pass'.landed = pass.landed
      BY <1>3, <2>2 DEF GetsTransaction, Passes
    <3> QED BY <1>3, <2>2, <3>1 DEF GetsTransaction
  <2> QED BY <2>1, <2>2
<1> QED BY <1>1, <1>2, <1>3

\* A pass that ends leaves nothing to keep but its result.
LEMMA Ended ==
  ASSUME ChecksInv, network' = network,
         wallet' \in [coins: 0..MaxCoins, tokens: 0..MaxTokens], flight' \in Cost,
         NEW is \in {"sent", "cancelled", "failed", "untouched"},
         NEW by \in {"isTransactionValid", "sendTransaction"}, NEW manual \in BOOLEAN,
         Ends(is, by, manual),
         is = "cancelled" /\ by = "isTransactionValid" => pass.tokens < pass.tx.amount,
         is = "untouched" => network = "ethereum" /\ pass.tx.text = "broken"
  PROVE  ChecksInv'
<1>1. TypeOK'
  BY EndTyped DEF ChecksInv, TypeOK
<1>2. CacheBounds' /\ Checked'
  BY EndTyped DEF ChecksInv, CacheBounds, Checked, At
<1>3. RefusedWasShort' /\ EndsWithAMark'
  BY EndTyped DEF ChecksInv, RefusedWasShort, EndsWithAMark
<1> QED BY <1>1, <1>2, <1>3 DEF ChecksInv

\* A transaction that is found valid.
LEMMA GoesToSend ==
  ASSUME ChecksInv, At("check"), pass' = [pass EXCEPT !.pc = "send"],
         UNCHANGED <<network, wallet, flight, result>>,
         pass.tx.amount = 0 \/ ~ShortOfTokens
  PROVE  ChecksInv'
<1>1. /\ pass' \in Passes /\ pass'.pc = "send" /\ pass'.coins = pass.coins
      /\ pass'.tokens = pass.tokens /\ pass'.landed = pass.landed /\ pass'.tx = pass.tx
  BY DEF ChecksInv, TypeOK, Passes
<1> QED BY <1>1 DEF ChecksInv, TypeOK, CacheBounds, Checked, RefusedWasShort, EndsWithAMark,
                    At, ShortOfTokens, Amount

LEMMA Checking == ASSUME ChecksInv, ChecksAlgorand \/ ChecksEthereum PROVE ChecksInv'
<1>0. TypeOK /\ wallet \in [coins: 0..MaxCoins, tokens: 0..MaxTokens] /\ flight \in Cost
  BY DEF ChecksInv, TypeOK
<1>1. CASE ChecksAlgorand
  <2>1. CASE Refuses("failed", FALSE)
    BY <1>0, <1>1, <2>1, Ended DEF ChecksAlgorand, Refuses
  <2>2. CASE ShortOfTokens /\ Refuses("cancelled", FALSE)
    BY <1>0, <1>1, <2>2, Ended, ShortIsShort DEF ChecksAlgorand, Refuses
  <2>3. CASE ~ShortOfTokens /\ pass' = [pass EXCEPT !.pc = "send"] /\ UNCHANGED result
    BY <1>1, <2>3, GoesToSend DEF ChecksAlgorand
  <2> QED BY <1>1, <2>1, <2>2, <2>3 DEF ChecksAlgorand
<1>2. CASE ChecksEthereum
  <2>1. CASE pass.tx.amount > 0 /\ ShortOfTokens
    BY <1>0, <1>2, <2>1, Ended, ShortIsShort DEF ChecksEthereum, Refuses
  <2>2. CASE ~(pass.tx.amount > 0 /\ ShortOfTokens)
    <3>1. pass.tx.amount \in Nat
      BY <1>0, ChecksAssumption DEF TypeOK, Passes, Transaction
    <3>2. pass.tx.amount = 0 \/ ~ShortOfTokens
      BY <2>2, <3>1
    <3> QED BY <1>2, <2>2, <3>2, GoesToSend DEF ChecksEthereum
  <2> QED BY <2>1, <2>2
<1> QED BY <1>1, <1>2

LEMMA Sending ==
  ASSUME ChecksInv, ThrowsOnText \/ FindsNoGas \/ Sends \/ FailsToSend \/ LosesSight
  PROVE  ChecksInv'
<1>0. /\ wallet \in [coins: 0..MaxCoins, tokens: 0..MaxTokens] /\ flight \in Cost
      /\ pass.tx.fee \in 0..MaxCoins /\ pass.tx.amount \in 0..MaxTokens
  BY ChecksAssumption DEF ChecksInv, TypeOK, Passes, Transaction
<1>1. CASE ThrowsOnText
  BY <1>0, <1>1, Ended DEF ThrowsOnText
<1>2. CASE FindsNoGas \/ FailsToSend
  BY <1>0, <1>2, Ended DEF FindsNoGas, FailsToSend
<1>3. CASE Sends
  <2>1. wallet' \in [coins: 0..MaxCoins, tokens: 0..MaxTokens]
    BY <1>0, <1>3, ChecksAssumption DEF Sends, CanPay
  <2> QED BY <1>0, <1>3, <2>1, Ended DEF Sends
<1>4. CASE LosesSight
  <2>1. wallet' = wallet /\ flight' \in Cost
    BY <1>0, <1>4 DEF LosesSight, Cost
  <2> QED BY <1>0, <1>4, <2>1, Ended DEF LosesSight
<1> QED BY <1>1, <1>2, <1>3, <1>4

LEMMA Beside == ASSUME ChecksInv, Lands \/ TopsUp \/ UNCHANGED vars PROVE ChecksInv'
<1> USE DEF ChecksInv, TypeOK, CacheBounds, Checked, RefusedWasShort, EndsWithAMark, At
<1>0. /\ Nothing \in Cost
      /\ pass.coins \in Nat /\ pass.tokens \in Nat /\ wallet.coins \in Nat /\ wallet.tokens \in Nat
      /\ pass.landed.amount \in Nat /\ pass.landed.fee \in Nat
  BY ChecksAssumption DEF Passes, Nothing, Cost
<1>1. CASE Lands
  <2>1. /\ flight' = Nothing /\ pass.landed.amount = 0 /\ pass.landed.fee = 0
        /\ UNCHANGED <<network, result>>
    BY <1>1 DEF Lands, Nothing
  <2>2. CASE UNCHANGED <<wallet, pass>>
    BY <1>0, <2>1, <2>2 DEF ShortOfTokens, Amount
  <2>3. ASSUME NEW cost \in Cost, cost.fee <= wallet.coins, cost.amount <= wallet.tokens,
               wallet' = [coins |-> wallet.coins - cost.fee,
                          tokens |-> wallet.tokens - cost.amount],
               pass' = [pass EXCEPT !.landed = Unseen(cost)]
        PROVE  ChecksInv'
    <3>1. Unseen(cost) \in Cost
      BY <2>3, ChecksAssumption DEF Cost, Unseen
    <3>2. /\ pass' \in Passes /\ pass'.pc = pass.pc /\ pass'.coins = pass.coins
          /\ pass'.tokens = pass.tokens /\ pass'.tx = pass.tx /\ pass'.landed = Unseen(cost)
      BY <2>3, <3>1 DEF Passes
    <3>3. wallet' \in [coins: 0..MaxCoins, tokens: 0..MaxTokens]
      BY <2>3, ChecksAssumption DEF Cost
    <3>4. CacheBounds'
      BY <1>0, <2>1, <2>3, <3>2, ChecksAssumption DEF Unseen, Cost
    <3> QED BY <1>0, <2>1, <3>2, <3>3, <3>4 DEF ShortOfTokens, Amount
  <2>4. ASSUME NEW moved \in {0, flight.amount}
        PROVE  [amount |-> moved, fee |-> flight.fee] \in Cost
    BY ChecksAssumption DEF Cost
  <2> QED BY <1>1, <2>2, <2>3, <2>4 DEF Lands
<1>2. CASE TopsUp
  <2>1. wallet' \in [coins: 0..MaxCoins, tokens: 0..MaxTokens]
        /\ wallet.coins <= wallet'.coins /\ wallet.tokens <= wallet'.tokens
    BY <1>2, ChecksAssumption DEF TopsUp
  <2>2. wallet'.coins \in Nat /\ wallet'.tokens \in Nat
    BY <2>1, ChecksAssumption
  <2> QED BY <1>0, <1>2, <2>1, <2>2 DEF TopsUp, ShortOfTokens, Amount
<1>3. CASE UNCHANGED vars
  BY <1>3 DEF vars, ShortOfTokens, Amount
<1> QED BY <1>1, <1>2, <1>3

LEMMA ChecksKept == Spec => []ChecksInv
<1>1. ChecksInv /\ [Next]_vars => ChecksInv'
  <2> SUFFICES ASSUME ChecksInv, Next \/ UNCHANGED vars PROVE ChecksInv'
    OBVIOUS
  <2> QED BY Reading, Checking, Sending, Beside DEF Next
<1> QED BY <1>1, ChecksInit, PTL DEF Spec

-----------------------------------------------------------------------------

\* isTransactionValid turns a payment away only if the wallet was short of it
\* when the pass began, whatever is rounded.
THEOREM RefusalsAreRight == Spec => [](TypeOK /\ RefusedWasShort)
<1>1. ChecksInv => TypeOK /\ RefusedWasShort
  BY DEF ChecksInv
<1> QED BY <1>1, ChecksKept, PTL

\* Every transaction gets an end, but for the one on Ethereum whose text kills
\* the process.
THEOREM MarksAreLeft == Spec => []EndsWithAMark
<1>1. ChecksInv => EndsWithAMark
  BY DEF ChecksInv
<1> QED BY <1>1, ChecksKept, PTL

\* What sendTransaction is given the wallet can pay, though it decides on
\* balances read before, up to what landed in between.
THEOREM SendsAffordable == Spec => []SendsWhatItHas
<1>1. ChecksInv => SendsWhatItHas
  <2> SUFFICES ASSUME ChecksInv, At("send"), ~(network = "algorand" /\ pass.tx.amount > Exact)
               PROVE  pass.tx.amount <= wallet.tokens + pass.landed.amount
    BY DEF ChecksInv, CacheBounds, SendsWhatItHas, At
  <2>1. /\ pass.tokens \in Nat /\ pass.tx.amount \in Nat /\ wallet.tokens \in Nat
        /\ pass.landed.amount \in Nat
        /\ network \in {"ethereum", "algorand"} /\ Exact \in Nat
    BY ChecksAssumption DEF ChecksInv, TypeOK, Passes, Transaction, Cost
  <2>2. pass.tokens <= wallet.tokens + pass.landed.amount
    BY DEF ChecksInv, CacheBounds, At
  <2>3. ~ShortOfTokens => pass.tx.amount <= pass.tokens
    BY <2>1 DEF ShortOfTokens, Amount, Number
  <2>4. pass.tx.amount = 0 \/ pass.tx.amount <= pass.tokens
    BY <2>3 DEF ChecksInv, Checked
  <2> QED BY <2>1, <2>2, <2>4
<1> QED BY <1>1, ChecksKept, PTL

=============================================================================

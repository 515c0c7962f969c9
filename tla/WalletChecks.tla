---------------------------- MODULE WalletChecks ----------------------------
(***************************************************************************)
(* What HotWallet leaves open: whether the wallet goes for a transaction,  *)
(* finds it valid and can send it (hotwallet/lib/blockchains). Both        *)
(* blockchains keep what they read in a cache that lives for one pass of   *)
(* waitForNewTransaction, so that everything is decided on what the wallet *)
(* had when the pass began, while people top it up and transactions whose  *)
(* fate was unclear get mined.                                             *)
(*                                                                         *)
(* Amounts are whole base units. AlgorandBlockchain keeps them in          *)
(* JavaScript numbers, which cannot tell the odd ones beyond 2^53 (here    *)
(* Exact); EthereumBlockchain has BigNumbers.                              *)
(***************************************************************************)
EXTENDS Naturals

CONSTANTS
  MaxTokens,    \* bound: tokens of the wallet, and tokens to transfer
  MaxCoins,     \* bound: coins of the wallet, and fees
  MinCoins,     \* enoughCoinBalanceToSendTransaction: 0.001
  Exact,        \* Number.MAX_SAFE_INTEGER + 1
  MaxTransfer   \* MAX_AMOUNT_FOR_TRANSFER, 0 for none

ASSUME ChecksAssumption ==
  /\ MaxTokens \in Nat /\ MaxCoins \in Nat /\ MinCoins \in Nat
  /\ Exact \in Nat /\ Exact % 4 = 0
  /\ MaxTransfer \in Nat

VARIABLES
  network,  \* envs.blockchainNetwork, for the life of the process
  wallet,   \* the coins and tokens of the wallet now
  flight,   \* what a transaction that was sent, not mined, and given up may cost
  pass,     \* the pass: its step, its cache and the transaction it was given
  result    \* what became of the transaction of the last pass, until the next one

vars == <<network, wallet, flight, pass, result>>

\* good: JSON that names an app, or a contract to call. broken: it does not
\* parse, or has no such thing. The server names the total in `amount`, 0 for
\* what is no transfer.
Transaction ==
  [text: {"none", "broken", "good"}, rightApp: BOOLEAN,
   amount: 0..MaxTokens, fee: 0..MaxCoins]
NoTransaction == [text |-> "none", rightApp |-> FALSE, amount |-> 0, fee |-> 0]

\* What a transaction takes from the wallet.
Cost == [amount: 0..MaxTokens, fee: 0..MaxCoins]
Nothing == [amount |-> 0, fee |-> 0]

\* landed is history: what the chain took after the pass had read it.
Passes ==
  [pc: {"idle", "tokens", "ask", "check", "send"}, coins: 0..MaxCoins,
   tokens: 0..MaxTokens, landed: Cost, tx: Transaction]
NewPass == [pc |-> "idle", coins |-> 0, tokens |-> 0, landed |-> Nothing,
            tx |-> NoTransaction]

\* by: the function that decided.
Results == [of: Transaction, is: {"sent", "cancelled", "failed", "untouched"},
            by: {"isTransactionValid", "sendTransaction"}, tokens: 0..MaxTokens,
            manual: BOOLEAN]
NoResult == [of |-> NoTransaction, is |-> "untouched", by |-> "isTransactionValid",
             tokens |-> 0, manual |-> FALSE]

TypeOK ==
  /\ network \in {"ethereum", "algorand"}
  /\ wallet \in [coins: 0..MaxCoins, tokens: 0..MaxTokens]
  /\ flight \in Cost
  /\ pass \in Passes
  /\ result \in Results

Init ==
  /\ network \in {"ethereum", "algorand"}
  /\ wallet = [coins |-> 0, tokens |-> 0]
  /\ flight = Nothing
  /\ pass = NewPass
  /\ result = NoResult

At(pc) == pass.pc = pc

-----------------------------------------------------------------------------
(* Numbers                                                                  *)

\* A JavaScript number: ties go to the even mantissa.
Number(n) ==
  IF n <= Exact \/ n % 2 = 0 THEN n
  ELSE IF n % 4 = 1 THEN n - 1 ELSE n + 1

Amount(n) == IF network = "algorand" THEN Number(n) ELSE n

-----------------------------------------------------------------------------
(* Before there is a transaction                                            *)

\* Mutant: the cache outlives the pass, so that tokens are read only once.
KeepsTokens ==
  /\ At("idle")
  /\ wallet.coins > MinCoins
  /\ pass' = [NewPass EXCEPT !.pc = IF result.tokens > 0 THEN "ask" ELSE "tokens",
                             !.coins = wallet.coins, !.tokens = result.tokens]
  /\ result' = NoResult
  /\ UNCHANGED <<network, wallet, flight>>

\* enoughCoinBalanceToSendTransaction; too few coins end the pass at once.
ReadsCoins ==
  /\ At("idle")
  /\ wallet.coins > MinCoins
  /\ pass' = [NewPass EXCEPT !.pc = "tokens", !.coins = wallet.coins]
  /\ result' = NoResult
  /\ UNCHANGED <<network, wallet, flight>>

\* positiveTokenBalance. What is read is kept for isTransactionValid.
ReadsTokens ==
  /\ At("tokens")
  /\ pass' = IF wallet.tokens > 0
             THEN [pass EXCEPT !.pc = "ask", !.tokens = wallet.tokens]
             ELSE NewPass
  /\ UNCHANGED <<network, wallet, flight, result>>

\* getNextTransactionToSign; {} has no text, and nothing to report.
GetsTransaction(tx) ==
  /\ At("ask")
  /\ pass' = IF tx.text = "none" THEN NewPass ELSE [pass EXCEPT !.pc = "check", !.tx = tx]
  /\ UNCHANGED <<network, wallet, flight, result>>

-----------------------------------------------------------------------------
(* isTransactionValid                                                       *)

Verdict(is, by, manual) ==
  [of |-> pass.tx, is |-> is, by |-> by, tokens |-> pass.tokens, manual |-> manual]

Ends(is, by, manual) == pass' = NewPass /\ result' = Verdict(is, by, manual)
Refuses(is, manual) == Ends(is, "isTransactionValid", manual)

\* Mutant: the balance is rounded, the amount is not.
ShortOfNumber == Number(pass.tokens) < pass.tx.amount

ShortOfTokens == Amount(pass.tokens) < Amount(pass.tx.amount)

\* Mutant: a transaction for another app is not reported.
IgnoresOtherApp ==
  /\ network = "algorand" /\ At("check")
  /\ IF pass.tx.text = "broken" THEN Refuses("failed", FALSE)
     ELSE IF ~pass.tx.rightApp THEN Refuses("untouched", FALSE)
     ELSE pass' = [pass EXCEPT !.pc = "send"] /\ UNCHANGED result
  /\ UNCHANGED <<network, wallet, flight>>

ChecksAlgorand ==
  /\ network = "algorand" /\ At("check")
  /\ LET TooBig == MaxTransfer > 0 /\ Number(pass.tx.amount) > MaxTransfer
     IN \/ pass.tx.text = "broken" /\ Refuses("failed", FALSE)
        \/ pass.tx.text = "good" /\ ~pass.tx.rightApp /\ Refuses("failed", FALSE)
        \/ /\ pass.tx.text = "good" /\ pass.tx.rightApp
           /\ \/ TooBig /\ Refuses("failed", FALSE)
              \/ ~TooBig /\ ShortOfTokens /\ Refuses("cancelled", FALSE)
              \/ ~TooBig /\ ~ShortOfTokens /\ pass' = [pass EXCEPT !.pc = "send"]
                 /\ UNCHANGED result
  /\ UNCHANGED <<network, wallet, flight>>

\* Only the amount is looked at; short of tokens, the project goes manual.
ChecksEthereum ==
  /\ network = "ethereum" /\ At("check")
  /\ IF pass.tx.amount > 0 /\ ShortOfTokens
     THEN Refuses("cancelled", TRUE)
     ELSE pass' = [pass EXCEPT !.pc = "send"] /\ UNCHANGED result
  /\ UNCHANGED <<network, wallet, flight>>

-----------------------------------------------------------------------------
(* sendTransaction                                                          *)

\* The comparison with getEthBalance, the function, is never true.
ShortOfGas == network = "algorand" /\ pass.tx.fee > pass.coins

\* A text without a contract throws outside of the try: the process exits, and
\* pm2 starts it again.
ThrowsOnText ==
  /\ network = "ethereum" /\ At("send") /\ pass.tx.text = "broken"
  /\ Ends("untouched", "sendTransaction", FALSE)
  /\ UNCHANGED <<network, wallet, flight>>

FindsNoGas ==
  /\ At("send") /\ pass.tx.text = "good"
  /\ ShortOfGas
  /\ Ends("cancelled", "sendTransaction", FALSE)
  /\ UNCHANGED <<network, wallet, flight>>

\* The wallet can pay now, whatever the cache says.
CanPay == pass.tx.fee <= wallet.coins /\ pass.tx.amount <= wallet.tokens

\* send waits for the first confirmation.
Sends ==
  /\ At("send") /\ pass.tx.text = "good"
  /\ ~ShortOfGas /\ CanPay
  /\ wallet' = [coins |-> wallet.coins - pass.tx.fee,
                tokens |-> wallet.tokens - pass.tx.amount]
  /\ Ends("sent", "sendTransaction", FALSE)
  /\ UNCHANGED <<network, flight>>

\* validate or send throws: the chain refuses, or cannot be reached.
FailsToSend ==
  /\ At("send") /\ pass.tx.text = "good"
  /\ ~ShortOfGas
  /\ Ends("failed", "sendTransaction", FALSE)
  /\ UNCHANGED <<network, wallet, flight>>

\* The confirmation does not come in time: the transaction may be mined yet,
\* and until then the wallet has what it had. Bound: one such at a time.
LosesSight ==
  /\ At("send") /\ pass.tx.text = "good"
  /\ ~ShortOfGas /\ CanPay /\ flight = Nothing
  /\ flight' = [amount |-> pass.tx.amount, fee |-> pass.tx.fee]
  /\ Ends("failed", "sendTransaction", FALSE)
  /\ UNCHANGED <<network, wallet>>

-----------------------------------------------------------------------------
(* Around the pass                                                          *)

\* The part of a cost that the pass does not know of: it has read that before.
Unseen(cost) ==
  [amount |-> IF pass.pc \in {"idle", "tokens"} THEN 0 ELSE cost.amount,
   fee |-> IF pass.pc = "idle" THEN 0 ELSE cost.fee]

\* It is mined, during any later pass, if its fee is still there, and moves its
\* tokens if they are; or it never is.
Lands ==
  /\ flight # Nothing
  /\ \/ \E moved \in {0, flight.amount} :
          LET cost == [amount |-> moved, fee |-> flight.fee]
          IN  /\ cost.fee <= wallet.coins /\ cost.amount <= wallet.tokens
              /\ moved = 0 => flight.amount = 0 \/ flight.amount > wallet.tokens
              /\ wallet' = [coins |-> wallet.coins - cost.fee,
                            tokens |-> wallet.tokens - cost.amount]
              /\ pass' = [pass EXCEPT !.landed = Unseen(cost)]
     \/ UNCHANGED <<wallet, pass>>
  /\ flight' = Nothing
  /\ UNCHANGED <<network, result>>

TopsUp ==
  /\ \E coins \in wallet.coins..MaxCoins, tokens \in wallet.tokens..MaxTokens :
       wallet' = [coins |-> coins, tokens |-> tokens]
  /\ UNCHANGED <<network, flight, pass, result>>

Next ==
  \/ ReadsCoins \/ ReadsTokens \/ (\E tx \in Transaction : GetsTransaction(tx))
  \/ ChecksAlgorand \/ ChecksEthereum
  \/ ThrowsOnText \/ FindsNoGas \/ Sends \/ FailsToSend \/ LosesSight
  \/ Lands \/ TopsUp

Spec == Init /\ [][Next]_vars

-----------------------------------------------------------------------------

\* A payment is refused for want of tokens only if the wallet was short when
\* the pass began: no rounding, and no cached value of another pass, turns
\* away what the wallet could pay (on Ethereum the project would stop paying
\* automatically).
RefusedWasShort ==
  result.is = "cancelled" /\ result.by = "isTransactionValid" =>
    result.tokens < result.of.amount

\* What goes to sendTransaction the wallet has, tokens and coins, although both
\* were read before the transaction was asked for: it is short by no more than
\* what a transaction given up earlier took since they were read, and by more
\* only where JavaScript cannot tell the amounts.
SendsWhatItHas ==
  At("send") =>
    /\ pass.coins <= wallet.coins + pass.landed.fee
    /\ \/ pass.tx.amount <= wallet.tokens + pass.landed.amount
       \/ network = "algorand" /\ pass.tx.amount > Exact

\* A transaction that the wallet was given never ends without a hash or a mark
\* for the server, so that its awards are not blocked: on Ethereum a text
\* without a contract kills the process instead, again and again.
EndsWithAMark ==
  result.is = "untouched" /\ result.of.text # "none" =>
    network = "ethereum" /\ result.of.text = "broken"

\* sendTransaction says so for both networks ("validate enough gas").
ShortOfGasIsCancelled ==
  [][At("send") /\ pass.tx.text = "good" /\ pass.tx.fee > pass.coins
     /\ pass'.pc = "idle" /\ result'.is # "sent"
       => result'.is = "cancelled"]_vars

=============================================================================

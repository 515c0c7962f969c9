----------------------------- MODULE HotWallet -----------------------------
(***************************************************************************)
(* The hot wallet (hotwallet/lib/hotwalletUtils.js), a Node process that   *)
(* asks the server for the next transaction, signs and sends it, remembers *)
(* in Redis which awards it has sent, and reports the hash; composed with  *)
(* the server of BlockchainTransactions, of whose clients it is the only   *)
(* one here. Every call to the server may get lost: ComakeryApi.js turns   *)
(* any error into an empty answer and repeats nothing.                     *)
(***************************************************************************)
EXTENDS BlockchainTransactions

CONSTANT HwFaults   \* which of HwFaultKinds happen

HwFaultKinds ==
  { "reply_lost",    \* the answer to POST does not reach the wallet
    "put_lost",      \* PUT, the report of the hash, does not reach the server
    "delete_lost",   \* DELETE, giving up, does not reach the server
    "crash",         \* the process dies where nothing unrecorded is on the chain
    "crash_unsaved", \* it dies after sending and before Redis has every award
    "send_unclear",  \* send() throws although the transaction was broadcast
    "key_expires" }  \* a Redis key reaches its thirty days

ASSUME HwFaultsAssumption == HwFaults \subseteq HwFaultKinds

VARIABLES
  hw,      \* the loop: where it is, the request it waits for, the transaction
           \* it holds, and how it will give it up
  redis,   \* the awards with a key in Redis
  unsaved  \* the awards whose saveDavaForTransaction has not reached Redis

hwVars == <<hw, redis, unsaved>>
allVars == <<vars, hwVars>>

HwIdle == [pc |-> "idle", req |-> {}, tx |-> 0, markAs |-> "failed", switch |-> FALSE]

HwState == [pc: {"idle", "asking", "check", "send", "sent", "report", "abandon"},
            req: SUBSET Requests, tx: 0..MaxBatches,
            markAs: {"cancelled", "failed"}, switch: BOOLEAN]

HwTypeOK ==
  /\ TypeOK
  /\ hw \in HwState
  /\ redis \subseteq Awards
  /\ unsaved \subseteq Awards

HwInit ==
  /\ Init
  /\ hw = HwIdle
  /\ redis = {}
  /\ unsaved = {}

At(pc) == hw.pc = pc
GoTo(pc) == hw' = [hw EXCEPT !.pc = pc]
Abandon(mark, switch) ==
  hw' = [hw EXCEPT !.pc = "abandon", !.markAs = mark, !.switch = switch]

-----------------------------------------------------------------------------
(* Asking for a transaction: the POST is a request of the server            *)

HwAsks(r) ==
  /\ At("idle")
  /\ CreateByHotWallet(r)
  /\ hw' = [HwIdle EXCEPT !.pc = "asking", !.req = {r}]
  /\ UNCHANGED <<redis, unsaved>>

ServerInserts(r) ==
  /\ InsertBatch(r)
  /\ UNCHANGED hwVars

\* The answer reaches the wallet if it still waits and nothing is lost.
ServerAnswers(r) ==
  /\ SaveTransaction(r)
  /\ \/ /\ r \in hw.req
        /\ hw' = [HwIdle EXCEPT !.pc = "check", !.tx = request[r].batch]
     \/ /\ r \in hw.req => "reply_lost" \in HwFaults
        /\ hw' = IF r \in hw.req THEN HwIdle ELSE hw
  /\ UNCHANGED <<redis, unsaved>>

ServerRefuses(r) ==
  /\ SaveTransactionFails(r) \/ InsertBatchDies(r)
  /\ hw' = IF r \in hw.req THEN HwIdle ELSE hw
  /\ UNCHANGED <<redis, unsaved>>

-----------------------------------------------------------------------------
(* Checking, sending, remembering, reporting                                *)

\* isTransactionValid says no: too few tokens, another app, too much, an error.
HwFindsInvalid ==
  /\ At("check")
  /\ \E mark \in {"cancelled", "failed"}, switch \in BOOLEAN : Abandon(mark, switch)
  /\ UNCHANGED <<vars, redis, unsaved>>

\* Mutant: Redis is not asked.
HwSkipsRedis ==
  /\ At("check")
  /\ GoTo("send")
  /\ UNCHANGED <<vars, redis, unsaved>>

\* getSavedDataForTransaction: one award with a key stops the whole batch. The
\* read queues behind the writes this process has issued on its connection.
HwChecksRedis ==
  /\ At("check")
  /\ unsaved = {}
  /\ IF rows[hw.tx] \cap redis = {} THEN GoTo("send") ELSE Abandon("failed", FALSE)
  /\ UNCHANGED <<vars, redis, unsaved>>

\* sendTransaction stops before anything left the wallet: no gas, or an error.
HwCannotSend ==
  /\ At("send")
  /\ \E mark \in {"cancelled", "failed"} : Abandon(mark, FALSE)
  /\ UNCHANGED <<vars, redis, unsaved>>

HwSends ==
  /\ At("send")
  /\ Broadcast(hw.tx)
  /\ GoTo("sent")
  /\ UNCHANGED <<redis, unsaved>>

\* Mutant: no key is written for what was sent.
HwRecordsNothing ==
  /\ At("sent")
  /\ GoTo("report")
  /\ UNCHANGED <<vars, redis, unsaved>>

\* send() returned the hash: the saves start, and are not waited for. (The
\* server names awards in blockchainTransactables only, even a single one.)
HwRecords ==
  /\ At("sent")
  /\ GoTo("report")
  /\ unsaved' = rows[hw.tx]
  /\ UNCHANGED <<vars, redis>>

\* send() waits for the first confirmation, and throws if that fails.
HwSendUnclear ==
  /\ "send_unclear" \in HwFaults
  /\ At("sent")
  /\ Abandon("failed", FALSE)
  /\ UNCHANGED <<vars, redis, unsaved>>

RedisSaves(a) ==
  /\ a \in unsaved
  /\ redis' = redis \cup {a}
  /\ unsaved' = unsaved \ {a}
  /\ UNCHANGED <<vars, hw>>

HwReports ==
  /\ At("report")
  /\ \/ UpdateTransaction(hw.tx) \/ ReportDies(hw.tx)
     \/ "put_lost" \in HwFaults /\ UNCHANGED vars
  /\ hw' = HwIdle
  /\ UNCHANGED <<redis, unsaved>>

\* cancelTransaction: DELETE with the mark, and the switch to manual sending.
HwGivesUp ==
  /\ At("abandon")
  /\ GiveUp(hw.tx, hw.markAs, hw.switch)
  /\ hw' = HwIdle
  /\ UNCHANGED <<redis, unsaved>>

HwGivesUpUnheard ==
  /\ "delete_lost" \in HwFaults
  /\ At("abandon")
  /\ hw' = HwIdle
  /\ UNCHANGED <<vars, redis, unsaved>>

\* The process dies and pm2 starts it again: what was not in Redis is gone.
Unrecorded == At("sent") \/ unsaved # {}

HwCrashes ==
  /\ IF Unrecorded THEN "crash_unsaved" \in HwFaults ELSE "crash" \in HwFaults
  /\ ~At("idle") \/ unsaved # {}
  /\ hw' = HwIdle
  /\ unsaved' = {}
  /\ UNCHANGED <<vars, redis>>

RedisExpires(a) ==
  /\ "key_expires" \in HwFaults
  /\ a \in redis
  /\ redis' = redis \ {a}
  /\ UNCHANGED <<vars, hw, unsaved>>

-----------------------------------------------------------------------------

\* What the keys in Redis are meant to stand.
HwGuardedStep ==
  \/ \E r \in Requests :
       HwAsks(r) \/ ServerInserts(r) \/ ServerAnswers(r) \/ ServerRefuses(r)
  \/ HwFindsInvalid \/ HwChecksRedis \/ HwCannotSend \/ HwSends \/ HwRecords
  \/ HwReports \/ HwGivesUp \/ HwGivesUpUnheard \/ HwCrashes
  \/ \E a \in Awards : RedisSaves(a)

HwAccident ==
  \/ HwSendUnclear
  \/ \E a \in Awards : RedisExpires(a)

HwStep == HwGuardedStep \/ HwAccident

\* The steps of the server, of people and of the chain that no wallet takes.
OtherStep ==
  /\ \/ \E w \in Workers : JobStep(w) \/ WorkerDies(w)
     \/ \E w \in Workers, b \in Batches : JobBegin(w, b)
     \/ PeopleStep
     \/ \E b \in Batches : Mine(b) \/ Expire(b)
  /\ UNCHANGED hwVars

HwNext == HwStep \/ OtherStep

HwSpec == HwInit /\ [][HwNext]_allVars

\* Without the accidents that the keys do not stand; the composition with the
\* whole process (HotWalletProcess) has all of them.
HwGuardedSpec == HwInit /\ [][HwGuardedStep \/ OtherStep]_allVars

-----------------------------------------------------------------------------

OnChain(b) == chain[b] # "none"

\* No award is put on the chain by two transactions: the Redis guard holds
\* against lost answers, lost reports, expired and cancelled transactions,
\* retries by people, and crashes outside the one window that it leaves.
AtMostOneBroadcast ==
  \A b, c \in Batches : OnChain(b) /\ OnChain(c) /\ b # c => rows[b] \cap rows[c] = {}

\* Under every fault: what is broadcast again is only what Redis has forgotten,
\* because a key expired or was never written. The keys are read in one step
\* and the transaction is sent in a later one, while keys of earlier sends are
\* still being written.
ResendsOnlyForgotten ==
  [][\A b, c \in Batches : b # c /\ OnChain(c) /\ ~OnChain(b) /\ OnChain(b)'
       => rows[b] \cap rows[c] \cap (redis \cup unsaved) = {}]_allVars

Carriers == [a \in Awards |-> { b \in Batches : a \in rows[b] /\ OnChain(b) }]
Settled == { a \in Awards : award[a] = "paid" }

P == INSTANCE Payments WITH
       Transactions <- Batches, carriers <- Carriers, settled <- Settled, byHand <- byHand

\* The server and the wallet together implement Payments: an award is carried
\* by one transaction at most, and it is marked as paid only when one carries
\* it or when people say so.
ImplementsPayments == P!Spec

=============================================================================

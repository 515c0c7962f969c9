---------------------- MODULE BlockchainTransactions ----------------------
(***************************************************************************)
(* The life of blockchain transactions (app/models/blockchain_transaction  *)
(* .rb and its STI child for awards), of the awards they pay and of the    *)
(* processes that touch them:                                              *)
(*   - web requests that create a transaction for ready awards (the hot    *)
(*     wallet API and the signing pages), which read, then insert a batch, *)
(*     then save the transaction, with no lock and no enclosing database   *)
(*     transaction;                                                        *)
(*   - web requests that report a hash (PUT, "receive") or give up         *)
(*     (DELETE, "receive" with an error);                                  *)
(*   - Sidekiq workers that load a transaction, ask the chain about it and *)
(*     later write what they decided from the copy they loaded;            *)
(*   - wallets, which broadcast a transaction they were handed, and the    *)
(*     chain, which mines it or not;                                       *)
(*   - admins, who cancel and prioritize awards, mark them as paid by a    *)
(*     hash of their own, and switch the hot wallet mode.                  *)
(*                                                                         *)
(* A TransactionBatch and the BlockchainTransaction that belongs to it     *)
(* share one index, the batch id: status[b] = "none" is a batch whose      *)
(* transaction row does not exist (yet, or ever).                          *)
(***************************************************************************)
EXTENDS Naturals, FiniteSets

CONSTANTS
  Awards,       \* the awards (transfers) of one project
  MaxBatches,   \* bound: TransactionBatch rows ever inserted
  Requests,     \* web requests creating a transaction at the same time
  Workers,      \* Sidekiq processes (config/sidekiq.yml: one thread each)
  MaxSyncs,     \* BlockchainTransaction.max_syncs
  BatchSize,    \* project.transfer_batch_size; 1 where the token has no batches
  Environment   \* which of EnvironmentEvents the surroundings produce

EnvironmentEvents ==
  { "ui",           \* people sign in the browser: sign/new and sign/receive
    "custom",       \* an API client names the award it wants a transaction for
    "prioritize",   \* people prioritize awards on the transfers page
    "modes",        \* people change the hot wallet mode of the project
    "cancel_award", \* people cancel awards that are accepted
    "by_hand",      \* people mark an accepted award as paid by a hash they give
    "save_fails",   \* a transaction is not saved (invalid, chain API down)
    "crash",        \* a web or worker process is killed
    "award_raises", \* marking an award as paid raises (an invalid award)
    "late_delete" } \* a client gives up a transaction it already reported

ASSUME ConstantsAssumption ==
  /\ MaxBatches \in Nat \ {0}
  /\ MaxSyncs \in Nat \ {0}
  /\ BatchSize \in Nat \ {0}
  /\ IsFiniteSet(Awards)
  /\ Environment \subseteq EnvironmentEvents

Batches == 1..MaxBatches

VARIABLES
  award,       \* Award#status, of the statuses a payment can meet
  byHand,      \* awards that people reported: ethereum_transaction_address or
               \* transaction_success is set
  prioritized, \* Award#prioritized_at is not null
  mode,        \* Project#hot_wallet_mode
  nBatches,    \* how many TransactionBatch rows exist
  rows,        \* batch_transactables of each batch
  status,      \* BlockchainTransaction#status
  waiting,     \* the transactions for which waiting_in_created? holds
  hash,        \* tx_hash is present
  syncs,       \* number_of_syncs, counted up to MaxSyncs
  request,     \* the requests that are creating a transaction
  worker,      \* the Sidekiq workers and the copy each has loaded
  chain        \* what became of each transaction on the blockchain

dbVars == <<award, byHand, prioritized, mode, nBatches, rows, status, waiting, hash, syncs>>
vars == <<dbVars, request, worker, chain>>

AwardStatus == {"accepted", "paid", "cancelled"}
TxStatus == {"created", "pending", "cancelled", "succeed", "failed"}
Modes == {"disabled", "auto_sending", "manual_sending"}
ChainStates == {"none", "sent", "valid", "invalid"}

Idle == [pc |-> "idle", sel |-> {}, batch |-> 0]
Resting == [pc |-> "idle", tx |-> 0, syncs |-> 0, todo |-> {}]

RequestState == [pc: {"idle", "insert", "save"}, sel: SUBSET Awards, batch: 0..MaxBatches]
\* "count": the copy still says pending; "settled": it says succeed or failed.
WorkerState == [pc: {"idle", "check", "valid", "invalid", "pay", "count", "settled"},
                tx: 0..MaxBatches, syncs: 0..MaxSyncs, todo: SUBSET Awards]

TypeOK ==
  /\ award \in [Awards -> AwardStatus]
  /\ byHand \subseteq Awards
  /\ prioritized \in [Awards -> BOOLEAN]
  /\ mode \in Modes
  /\ nBatches \in 0..MaxBatches
  /\ rows \in [Batches -> SUBSET Awards]
  /\ status \in [Batches -> TxStatus \cup {"none"}]
  /\ waiting \subseteq Batches
  /\ hash \in [Batches -> BOOLEAN]
  /\ syncs \in [Batches -> 0..MaxSyncs]
  /\ request \in [Requests -> RequestState]
  /\ worker \in [Workers -> WorkerState]
  /\ chain \in [Batches -> ChainStates]

Init ==
  /\ award = [a \in Awards |-> "accepted"]
  /\ byHand = {}
  /\ prioritized = [a \in Awards |-> FALSE]
  /\ mode = "auto_sending"
  /\ nBatches = 0
  /\ rows = [b \in Batches |-> {}]
  /\ status = [b \in Batches |-> "none"]
  /\ waiting = {}
  /\ hash = [b \in Batches |-> FALSE]
  /\ syncs = [b \in Batches |-> 0]
  /\ request = [r \in Requests |-> Idle]
  /\ worker = [w \in Workers |-> Resting]
  /\ chain = [b \in Batches |-> "none"]

-----------------------------------------------------------------------------
(* Which awards are ready                                                   *)

\* The LEFT JOIN on MAX(batch_transactables.id): b is the last batch of a.
IsLatest(a, b) ==
  /\ a \in rows[b]
  /\ \A c \in Batches : c > b => a \notin rows[c]

ReadyStatuses(includeFailed) ==
  {"none", "cancelled"} \cup (IF includeFailed THEN {"failed"} ELSE {})

Ready(includeFailed) ==
  { a \in Awards :
      /\ award[a] = "accepted"
      /\ \A b \in Batches :
           IsLatest(a, b) => \/ status[b] \in ReadyStatuses(includeFailed)
                             \/ status[b] = "created" /\ b \notin waiting }

\* .first of a scope: some one of the members. The order is not modelled.
Singletons(S) == { {a} : a \in S }

\* .limit(n) of a scope: as many members as there are, up to n.
Limited(S, n) ==
  { T \in SUBSET S : T # {} /\ (Cardinality(T) = n \/ (T = S /\ Cardinality(S) <= n)) }

\* default_transactable for a request whose source is the hot wallet.
HotWalletSelections ==
  CASE mode = "disabled"       -> {}
    [] mode = "manual_sending" -> Singletons({ a \in Ready(TRUE) : prioritized[a] })
    [] mode = "auto_sending"   -> Limited(Ready(FALSE), BatchSize)

\* sign/*/new: pay? asks that the award is accepted, and nothing of its
\* transactions; the user wallet page also takes a batch of ready awards.
SignSelections ==
  Singletons({ a \in Awards : award[a] = "accepted" }) \cup Limited(Ready(FALSE), BatchSize)

-----------------------------------------------------------------------------
(* Creating a transaction: select, insert the batch, save the transaction   *)

Begin(r, S) ==
  /\ request[r].pc = "idle"
  /\ request' = [request EXCEPT ![r] = [pc |-> "insert", sel |-> S, batch |-> 0]]
  /\ UNCHANGED <<dbVars, worker, chain>>

CreateByHotWallet(r) == \E S \in HotWalletSelections : Begin(r, S)

CreateCustom(r) ==
  /\ "custom" \in Environment
  /\ \E S \in Singletons(Ready(TRUE)) : Begin(r, S)

SignNew(r) ==
  /\ "ui" \in Environment
  /\ \E S \in SignSelections : Begin(r, S)

\* TransactionBatch.create! and one batch_transactables.create! per award.
InsertBatch(r) ==
  /\ request[r].pc = "insert"
  /\ nBatches < MaxBatches
  /\ nBatches' = nBatches + 1
  /\ rows' = [rows EXCEPT ![nBatches + 1] = request[r].sel]
  /\ request' = [request EXCEPT ![r].pc = "save", ![r].batch = nBatches + 1]
  /\ UNCHANGED <<award, byHand, prioritized, mode, status, waiting, hash, syncs, worker, chain>>

\* The process dies after it inserted some of the rows.
InsertBatchDies(r) ==
  /\ "crash" \in Environment
  /\ request[r].pc = "insert"
  /\ nBatches < MaxBatches
  /\ nBatches' = nBatches + 1
  /\ \E part \in SUBSET request[r].sel : rows' = [rows EXCEPT ![nBatches + 1] = part]
  /\ request' = [request EXCEPT ![r] = Idle]
  /\ UNCHANGED <<award, byHand, prioritized, mode, status, waiting, hash, syncs, worker, chain>>

SaveTransaction(r) ==
  /\ request[r].pc = "save"
  /\ status' = [status EXCEPT ![request[r].batch] = "created"]
  /\ waiting' = waiting \cup {request[r].batch}
  /\ request' = [request EXCEPT ![r] = Idle]
  /\ UNCHANGED <<award, byHand, prioritized, mode, nBatches, rows, hash, syncs, worker, chain>>

\* save returns false or save! raises (or the process dies): the batch stays.
SaveTransactionFails(r) ==
  /\ {"save_fails", "crash"} \cap Environment # {}
  /\ request[r].pc = "save"
  /\ request' = [request EXCEPT ![r] = Idle]
  /\ UNCHANGED <<dbVars, worker, chain>>

-----------------------------------------------------------------------------
(* Reporting and giving up a transaction                                    *)

\* update_transactable_prioritized_at: prioritized_at of every award is cleared.
Deprioritize(b) == prioritized' = [a \in Awards |-> prioritized[a] /\ a \notin rows[b]]

\* update_status(:pending) after tx_hash is stored, and the sync job.
MarkPending(b) ==
  /\ status[b] # "none"
  /\ chain[b] # "none"
  /\ hash' = [hash EXCEPT ![b] = TRUE]
  /\ status' = [status EXCEPT ![b] = "pending"]
  /\ waiting' = waiting \ {b}
  /\ Deprioritize(b)
  /\ UNCHANGED <<award, byHand, mode, nBatches, rows, syncs, request, worker, chain>>

\* PUT: the client of the API reports a hash once and never repeats the call.
UpdateTransaction(b) ==
  /\ ~hash[b]
  /\ MarkPending(b)

\* The browser comes back with a hash; it may come back again (a reload).
SignReceive(b) ==
  /\ "ui" \in Environment
  /\ \E a \in rows[b] : award[a] = "accepted"
  /\ MarkPending(b)

\* The process dies between the two: the hash is stored, nothing else.
ReportDies(b) ==
  /\ "crash" \in Environment
  /\ status[b] # "none"
  /\ chain[b] # "none"
  /\ hash' = [hash EXCEPT ![b] = TRUE]
  /\ UNCHANGED <<award, byHand, prioritized, mode, nBatches, rows, status, waiting, syncs, request, worker, chain>>

\* DELETE: update_status(:failed or :cancelled), and with
\* switch_hot_wallet_to_manual_mode an automatic project goes manual.
GiveUp(b, newStatus, switch) ==
  /\ status[b] # "none"
  /\ hash[b] => "late_delete" \in Environment
  /\ status' = [status EXCEPT ![b] = newStatus]
  /\ waiting' = waiting \ {b}
  /\ Deprioritize(b)
  /\ mode' = IF switch /\ mode = "auto_sending" THEN "manual_sending" ELSE mode
  /\ UNCHANGED <<award, byHand, nBatches, rows, hash, syncs, request, worker, chain>>

DestroyTransaction(b) ==
  \E newStatus \in {"cancelled", "failed"}, switch \in BOOLEAN : GiveUp(b, newStatus, switch)

\* The browser comes back with an error: update_status(:cancelled).
SignReceiveError(b) ==
  /\ "ui" \in Environment
  /\ GiveUp(b, "cancelled", FALSE)

-----------------------------------------------------------------------------
(* The sync job. The scheduled SyncJob enqueues a job for every pending     *)
(* transaction whenever it runs, on top of the jobs that reports enqueue    *)
(* and that jobs reschedule, so a worker may take up any pending            *)
(* transaction at any time and the queue itself is not a variable. A job    *)
(* for a transaction that is not pending returns at once, and one that must *)
(* wait (waiting_till_next_sync_is_allowed?) puts itself back: no change.   *)

\* The record is loaded here; every later step of the job uses this copy.
JobBegin(w, b) ==
  /\ worker[w].pc = "idle"
  /\ status[b] = "pending"
  /\ worker' = [worker EXCEPT ![w] = [pc |-> "check", tx |-> b, syncs |-> syncs[b], todo |-> {}]]
  /\ UNCHANGED <<dbVars, request, chain>>

\* Mutant: mined is good enough, valid_on_chain? is not asked.
JobAsksIfMined(w) ==
  /\ worker[w].pc = "check"
  /\ chain[worker[w].tx] \in {"valid", "invalid"}
  /\ worker' = [worker EXCEPT ![w].pc = "valid"]
  /\ UNCHANGED <<dbVars, request, chain>>

\* confirmed_on_chain? and valid_on_chain?; not confirmed also stands for a
\* request that raised, because the ensure clause counts it just the same.
JobAsksChain(w) ==
  /\ worker[w].pc = "check"
  /\ \/ chain[worker[w].tx] \in {"valid", "invalid"}
        /\ worker' = [worker EXCEPT ![w].pc = chain[worker[w].tx]]
     \/ worker' = [worker EXCEPT ![w].pc = "count"]
  /\ UNCHANGED <<dbVars, request, chain>>

\* sync, update_status(:succeed).
JobSucceeds(w) ==
  LET b == worker[w].tx IN
  /\ worker[w].pc = "valid"
  /\ status' = [status EXCEPT ![b] = "succeed"]
  /\ waiting' = waiting \ {b}
  /\ worker' = [worker EXCEPT ![w].pc = "pay", ![w].todo = rows[b]]
  /\ UNCHANGED <<award, byHand, prioritized, mode, nBatches, rows, hash, syncs, request, chain>>

\* sync, update_status(:failed, 'Failed on chain').
JobFails(w) ==
  LET b == worker[w].tx IN
  /\ worker[w].pc = "invalid"
  /\ status' = [status EXCEPT ![b] = "failed"]
  /\ waiting' = waiting \ {b}
  /\ Deprioritize(b)
  /\ worker' = [worker EXCEPT ![w].pc = "settled"]
  /\ UNCHANGED <<award, byHand, mode, nBatches, rows, hash, syncs, request, chain>>

\* update_transactable_status: the awards of the batch, one update! at a time.
JobPaysAward(w) ==
  /\ worker[w].pc = "pay"
  /\ \E a \in worker[w].todo :
       /\ award' = [award EXCEPT ![a] = "paid"]
       /\ worker' = [worker EXCEPT ![w].todo = @ \ {a}]
  /\ UNCHANGED <<byHand, prioritized, mode, nBatches, rows, status, waiting, hash, syncs, request, chain>>

\* Mutant: only the first award of the batch is marked.
JobStopsPayingEarly(w) ==
  /\ worker[w].pc = "pay"
  /\ worker' = [worker EXCEPT ![w].pc = "settled", ![w].todo = {}]
  /\ UNCHANGED <<dbVars, request, chain>>

\* The last award is paid, or one of the update! calls raises.
JobStopsPaying(w) ==
  /\ worker[w].pc = "pay"
  /\ worker[w].todo = {} \/ "award_raises" \in Environment
  /\ worker' = [worker EXCEPT ![w].pc = "settled", ![w].todo = {}]
  /\ UNCHANGED <<dbVars, request, chain>>

\* Mutant: the count is not stored.
NextSyncsUnsaved(n) == n

NextSyncs(n) == IF n < MaxSyncs THEN n + 1 ELSE MaxSyncs

\* Mutant: pending? is not asked.
SyncsExhaustedAnyway(w) == NextSyncs(worker[w].syncs) >= MaxSyncs

\* pending? && reached_max_syncs?, of the copy.
SyncsExhausted(w) == worker[w].pc = "count" /\ NextSyncs(worker[w].syncs) >= MaxSyncs

\* update_number_of_syncs writes the loaded count plus one, and cancels the
\* transaction if the copy still says pending and the count is exhausted.
JobCounts(w) ==
  LET b == worker[w].tx IN
  /\ worker[w].pc \in {"count", "settled"}
  /\ syncs' = [syncs EXCEPT ![b] = NextSyncs(worker[w].syncs)]
  /\ \/ /\ SyncsExhausted(w)
        /\ status' = [status EXCEPT ![b] = "cancelled"]
        /\ waiting' = waiting \ {b}
        /\ Deprioritize(b)
     \/ /\ ~SyncsExhausted(w)
        /\ UNCHANGED <<status, waiting, prioritized>>
  /\ worker' = [worker EXCEPT ![w] = Resting]
  /\ UNCHANGED <<award, byHand, mode, nBatches, rows, hash, request, chain>>

\* The worker process is killed; the job is lost with it.
WorkerDies(w) ==
  /\ "crash" \in Environment
  /\ worker[w].pc # "idle"
  /\ worker' = [worker EXCEPT ![w] = Resting]
  /\ UNCHANGED <<dbVars, request, chain>>

-----------------------------------------------------------------------------
(* Wallets, the chain, time and people                                      *)

\* A wallet signs and sends a transaction the server handed to it.
Broadcast(b) ==
  /\ status[b] # "none"
  /\ chain[b] = "none"
  /\ chain' = [chain EXCEPT ![b] = "sent"]
  /\ UNCHANGED <<dbVars, request, worker>>

Mine(b) ==
  /\ chain[b] = "sent"
  /\ \E outcome \in {"valid", "invalid"} : chain' = [chain EXCEPT ![b] = outcome]
  /\ UNCHANGED <<dbVars, request, worker>>

\* seconds_to_wait_in_created go by.
Expire(b) ==
  /\ b \in waiting
  /\ waiting' = waiting \ {b}
  /\ UNCHANGED <<award, byHand, prioritized, mode, nBatches, rows, status, hash, syncs, request, worker, chain>>

Prioritize(a) ==
  /\ "prioritize" \in Environment
  /\ prioritized' = [prioritized EXCEPT ![a] = TRUE]
  /\ UNCHANGED <<award, byHand, mode, nBatches, rows, status, waiting, hash, syncs, request, worker, chain>>

SetMode(m) ==
  /\ "modes" \in Environment
  /\ mode' = m
  /\ UNCHANGED <<award, byHand, prioritized, nBatches, rows, status, waiting, hash, syncs, request, worker, chain>>

\* awards#destroy and transfers#destroy: only the award's own status counts.
CancelAward(a) ==
  /\ "cancel_award" \in Environment
  /\ award[a] = "accepted"
  /\ award' = [award EXCEPT ![a] = "cancelled"]
  /\ UNCHANGED <<byHand, prioritized, mode, nBatches, rows, status, waiting, hash, syncs, request, worker, chain>>

\* awards#update_transaction_address (handle_tx_hash, or a good receipt):
\* pay? asks that the award is accepted, and the chain is not asked at all.
\* An error or a bad receipt writes "accepted" over "accepted".
UpdateTransactionAddress(a) ==
  /\ "by_hand" \in Environment
  /\ award[a] = "accepted"
  /\ award' = [award EXCEPT ![a] = "paid"]
  /\ byHand' = byHand \cup {a}
  /\ UNCHANGED <<prioritized, mode, nBatches, rows, status, waiting, hash, syncs, request, worker, chain>>

-----------------------------------------------------------------------------

CreateStep(r) ==
  \/ CreateByHotWallet(r) \/ CreateCustom(r) \/ SignNew(r)
  \/ InsertBatch(r) \/ InsertBatchDies(r)
  \/ SaveTransaction(r) \/ SaveTransactionFails(r)

ReportStep(b) ==
  \/ UpdateTransaction(b) \/ SignReceive(b) \/ ReportDies(b)
  \/ DestroyTransaction(b) \/ SignReceiveError(b)

JobStep(w) ==
  \/ JobAsksChain(w) \/ JobSucceeds(w) \/ JobFails(w)
  \/ JobPaysAward(w) \/ JobStopsPaying(w) \/ JobCounts(w)

\* What this program's own processes do once they have started.
ServerStep ==
  \/ \E r \in Requests : CreateStep(r)
  \/ \E w \in Workers : JobStep(w) \/ WorkerDies(w)
  \/ \E w \in Workers, b \in Batches : JobBegin(w, b)

PeopleStep ==
  \/ \E a \in Awards : Prioritize(a) \/ CancelAward(a) \/ UpdateTransactionAddress(a)
  \/ \E m \in Modes : SetMode(m)

Next ==
  \/ ServerStep
  \/ PeopleStep
  \/ \E b \in Batches : ReportStep(b) \/ Broadcast(b) \/ Mine(b) \/ Expire(b)

Spec == Init /\ [][Next]_vars

\* Sidekiq finishes the jobs it starts, and the scheduler keeps enqueueing a
\* job for each pending transaction, which some worker comes to.
JobFairness ==
  /\ \A w \in Workers : WF_vars(JobStep(w))
  /\ \A b \in Batches : SF_vars(\E w \in Workers : JobBegin(w, b))

FairSpec == Spec /\ JobFairness

-----------------------------------------------------------------------------
(* Safety                                                                   *)

\* An award is marked as paid only if a transaction that pays it is valid on
\* the chain, or people said so themselves (update_transaction_address): sync
\* writes "succeed" from what the chain said, whatever the other requests and
\* workers did to the row meanwhile, and nothing else of the server pays.
PaidOnlyIfConfirmed ==
  \A a \in Awards : award[a] = "paid" =>
    a \in byHand \/ \E b \in Batches : a \in rows[b] /\ chain[b] = "valid"

\* A transaction that says "succeed" was reported with a hash and is valid on
\* the chain.
SucceedIsConfirmed ==
  \A b \in Batches : status[b] = "succeed" => hash[b] /\ chain[b] = "valid"

Paying(b) == \E w \in Workers : worker[w].pc = "pay" /\ worker[w].tx = b

\* Once no worker is in the middle of settling a transaction that succeeded,
\* every award of its batch is paid: update_transactable_status is not atomic
\* but nothing that runs beside it may leave half a batch unpaid.
SucceedSettlesBatch ==
  \A b \in Batches : status[b] = "succeed" /\ ~Paying(b) => \A a \in rows[b] : award[a] = "paid"

\* Those who do not know of a success: a job that counts itself out on a copy
\* loaded before it, a browser that comes back once more, and a client that
\* gives up what it has reported.
OverwritesUnseen(b) ==
  \/ \E w \in Workers : worker[w].tx = b /\ worker[w].pc = "count" /\ JobCounts(w)
  \/ SignReceive(b) \/ SignReceiveError(b) \/ DestroyTransaction(b)

\* Nobody else takes a success back: not the job that saw it, which counts its
\* sync afterwards, nor a second job that asks the chain once more.
SuccessIsOverwrittenUnseen ==
  [][\A b \in Batches : status[b] = "succeed" /\ status'[b] # "succeed" => OverwritesUnseen(b)]_vars

-----------------------------------------------------------------------------
(* Liveness                                                                 *)

\* No transaction stays pending for ever: the chain answers or max_syncs ends it.
PendingIsSettled ==
  \A b \in Batches : status[b] = "pending" ~> status[b] # "pending"

=============================================================================

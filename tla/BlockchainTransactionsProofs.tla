------------------- MODULE BlockchainTransactionsProofs -------------------
(***************************************************************************)
(* Theorems about BlockchainTransactions, for any awards, any number of    *)
(* requests, workers and batches, and whatever the surroundings do.        *)
(***************************************************************************)
EXTENDS BlockchainTransactions, TLAPS

\* A busy worker holds a batch, and so does a request that is about to save.
HoldBatches ==
  /\ \A w \in Workers : worker[w].pc # "idle" => worker[w].tx \in Batches
  /\ \A r \in Requests : request[r].pc = "save" => request[r].batch \in Batches

TypeInv == TypeOK /\ HoldBatches

USE DEF Batches

\* Whatever a request selects is a set of awards.
LEMMA SelectionsAreAwards ==
  ASSUME TypeOK
  PROVE  /\ HotWalletSelections \subseteq SUBSET Awards
         /\ SignSelections \subseteq SUBSET Awards
         /\ Singletons(Ready(TRUE)) \subseteq SUBSET Awards
<1>1. \A f \in BOOLEAN : Ready(f) \subseteq Awards
  BY DEF Ready
<1>2. \A S \in SUBSET Awards : Singletons(S) \subseteq SUBSET Awards
  BY DEF Singletons
<1>3. \A S \in SUBSET Awards : Limited(S, BatchSize) \subseteq SUBSET Awards
  BY DEF Limited
<1>4. HotWalletSelections \subseteq SUBSET Awards
  <2>1. CASE mode = "disabled"
    BY <2>1 DEF HotWalletSelections
  <2>2. CASE mode = "manual_sending"
    BY <2>2, <1>1, <1>2 DEF HotWalletSelections
  <2>3. CASE mode = "auto_sending"
    BY <2>3, <1>1, <1>3 DEF HotWalletSelections
  <2> QED BY <2>1, <2>2, <2>3 DEF TypeOK, Modes
<1>5. SignSelections \subseteq SUBSET Awards
  BY <1>1, <1>2, <1>3 DEF SignSelections
<1> QED BY <1>1, <1>2, <1>4, <1>5

\* The initial state has the types.
LEMMA TypeInit == Init => TypeInv
  BY ConstantsAssumption DEF Init, TypeInv, TypeOK, HoldBatches, AwardStatus, TxStatus,
     Modes, ChainStates, Idle, Resting, RequestState, WorkerState

\* The requests keep their type in every step that creates a transaction.
LEMMA RequestsTyped ==
  ASSUME TypeOK, NEW r \in Requests, CreateStep(r)
  PROVE  request' \in [Requests -> RequestState]
<1> DEFINE F == [Requests -> RequestState]
<1>1. request \in F /\ nBatches \in 0..MaxBatches
  BY DEF TypeOK
<1>2. Idle \in RequestState
  BY ConstantsAssumption DEF Idle, RequestState
<1>3. ASSUME NEW S \in SUBSET Awards, Begin(r, S) PROVE request' \in F
  <2>1. [pc |-> "insert", sel |-> S, batch |-> 0] \in RequestState
    BY ConstantsAssumption DEF RequestState
  <2> QED BY <1>1, <1>3, <2>1 DEF Begin
<1>4. CASE CreateByHotWallet(r) \/ CreateCustom(r) \/ SignNew(r)
  BY <1>3, <1>4, SelectionsAreAwards DEF CreateByHotWallet, CreateCustom, SignNew
<1>5. CASE InsertBatch(r)
  <2>1. nBatches + 1 \in 0..MaxBatches
    BY <1>1, <1>5, ConstantsAssumption DEF InsertBatch
  <2>2. [request EXCEPT ![r].pc = "save", ![r].batch = nBatches + 1] \in F
    BY <1>1, <2>1 DEF RequestState
  <2> QED BY <1>5, <2>2 DEF InsertBatch
<1>6. CASE InsertBatchDies(r) \/ SaveTransaction(r) \/ SaveTransactionFails(r)
  <2>1. request' = [request EXCEPT ![r] = Idle]
    BY <1>6 DEF InsertBatchDies, SaveTransaction, SaveTransactionFails
  <2> QED BY <1>1, <1>2, <2>1
<1> QED BY <1>4, <1>5, <1>6 DEF CreateStep

\* Creating a transaction keeps the types.
LEMMA TypeCreate ==
  ASSUME TypeInv, NEW r \in Requests, CreateStep(r)
  PROVE  TypeInv'
<1> USE ConstantsAssumption, RequestsTyped DEF TypeInv, TypeOK, HoldBatches, dbVars
<1>1. ASSUME NEW S \in SUBSET Awards, Begin(r, S) PROVE TypeInv'
  BY <1>1 DEF Begin
<1>2. CASE CreateByHotWallet(r) \/ CreateCustom(r) \/ SignNew(r)
  BY <1>1, <1>2, SelectionsAreAwards DEF CreateByHotWallet, CreateCustom, SignNew
<1>3. CASE InsertBatch(r)
  <2>1. request[r].sel \in SUBSET Awards
    BY DEF RequestState
  <2>2. nBatches' \in 0..MaxBatches /\ rows' \in [Batches -> SUBSET Awards]
    BY <1>3, <2>1 DEF InsertBatch
  <2> QED BY <1>3, <2>2 DEF InsertBatch
<1>4. CASE InsertBatchDies(r)
  <2>1. request[r].sel \in SUBSET Awards
    BY DEF RequestState
  <2>2. nBatches' \in 0..MaxBatches /\ rows' \in [Batches -> SUBSET Awards]
    BY <1>4, <2>1 DEF InsertBatchDies
  <2> QED BY <1>4, <2>2 DEF InsertBatchDies, Idle
<1>5. CASE SaveTransaction(r)
  <2>1. request[r].batch \in Batches
    BY <1>5 DEF SaveTransaction
  <2>2. waiting' \subseteq Batches /\ status' \in [Batches -> TxStatus \cup {"none"}]
    BY <1>5, <2>1 DEF SaveTransaction, TxStatus
  <2>3. HoldBatches'
    BY <1>5 DEF SaveTransaction, Idle
  <2> QED BY <1>5, <2>2, <2>3 DEF SaveTransaction
<1>6. CASE SaveTransactionFails(r)
  BY <1>6 DEF SaveTransactionFails, Idle
<1> QED BY <1>2, <1>3, <1>4, <1>5, <1>6 DEF CreateStep

\* Reporting and giving up keep the types.
LEMMA TypeReport ==
  ASSUME TypeInv, NEW b \in Batches, ReportStep(b)
  PROVE  TypeInv'
<1> USE DEF TypeInv, TypeOK, HoldBatches, TxStatus, Modes, Deprioritize
<1>1. ASSUME MarkPending(b) PROVE TypeInv'
  BY <1>1 DEF MarkPending
<1>2. ASSUME NEW s \in {"cancelled", "failed"}, NEW switch \in BOOLEAN, GiveUp(b, s, switch)
      PROVE TypeInv'
  BY <1>2 DEF GiveUp
<1>3. CASE UpdateTransaction(b)
  BY <1>1, <1>3 DEF UpdateTransaction
<1>4. CASE SignReceive(b)
  BY <1>1, <1>4 DEF SignReceive
<1>5. CASE DestroyTransaction(b)
  BY <1>2, <1>5 DEF DestroyTransaction
<1>6. CASE SignReceiveError(b)
  BY <1>2, <1>6 DEF SignReceiveError
<1>7. CASE ReportDies(b)
  BY <1>7 DEF ReportDies
<1> QED BY <1>3, <1>4, <1>5, <1>6, <1>7 DEF ReportStep

\* The workers keep their type in every step of a job.
LEMMA WorkersTyped ==
  ASSUME TypeInv, NEW w \in Workers,
         JobStep(w) \/ WorkerDies(w) \/ \E b \in Batches : JobBegin(w, b)
  PROVE  worker' \in [Workers -> WorkerState]
<1> DEFINE F == [Workers -> WorkerState]
<1>1. worker \in F
  BY DEF TypeInv, TypeOK
<1>2. Resting \in WorkerState
  BY ConstantsAssumption DEF Resting, WorkerState
<1>3. CASE JobAsksChain(w)
  <2>1. ASSUME NEW pc \in {"valid", "invalid", "count"}
        PROVE [worker EXCEPT ![w].pc = pc] \in F
    BY <1>1 DEF WorkerState
  <2> QED BY <1>3, <2>1 DEF JobAsksChain
<1>4. CASE JobSucceeds(w)
  <2>1. rows[worker[w].tx] \in SUBSET Awards
    BY <1>4 DEF JobSucceeds, TypeInv, TypeOK, HoldBatches
  <2>2. [worker EXCEPT ![w].pc = "pay", ![w].todo = rows[worker[w].tx]] \in F
    BY <1>1, <2>1 DEF WorkerState
  <2> QED BY <1>4, <2>2 DEF JobSucceeds
<1>5. CASE JobFails(w)
  <2>1. [worker EXCEPT ![w].pc = "settled"] \in F
    BY <1>1 DEF WorkerState
  <2> QED BY <1>5, <2>1 DEF JobFails
<1>6. CASE JobPaysAward(w)
  <2>1. ASSUME NEW a PROVE [worker EXCEPT ![w].todo = @ \ {a}] \in F
    BY <1>1 DEF WorkerState
  <2> QED BY <1>6, <2>1 DEF JobPaysAward
<1>7. CASE JobStopsPaying(w)
  <2>1. [worker EXCEPT ![w].pc = "settled", ![w].todo = {}] \in F
    BY <1>1 DEF WorkerState
  <2> QED BY <1>7, <2>1 DEF JobStopsPaying
<1>8. CASE JobCounts(w) \/ WorkerDies(w)
  BY <1>1, <1>2, <1>8 DEF JobCounts, WorkerDies
<1>9. ASSUME NEW b \in Batches, JobBegin(w, b) PROVE worker' \in F
  <2>1. syncs[b] \in 0..MaxSyncs
    BY DEF TypeInv, TypeOK
  <2>2. [pc |-> "check", tx |-> b, syncs |-> syncs[b], todo |-> {}] \in WorkerState
    BY <2>1 DEF WorkerState
  <2> QED BY <1>1, <1>9, <2>2 DEF JobBegin
<1> QED BY <1>3, <1>4, <1>5, <1>6, <1>7, <1>8, <1>9 DEF JobStep

\* A sync job keeps the types.
LEMMA TypeJob ==
  ASSUME TypeInv, NEW w \in Workers,
         JobStep(w) \/ WorkerDies(w) \/ \E b \in Batches : JobBegin(w, b)
  PROVE  TypeInv'
<1> USE WorkersTyped DEF TypeInv, TypeOK, HoldBatches, dbVars
<1>1. worker[w] \in WorkerState
  OBVIOUS
<1>2. CASE JobAsksChain(w)
  <2>1. \E pc \in {"valid", "invalid", "count"} : worker' = [worker EXCEPT ![w].pc = pc]
    BY <1>2 DEF JobAsksChain
  <2>2. HoldBatches'
    BY <1>2, <2>1 DEF JobAsksChain
  <2> QED BY <1>2, <2>2 DEF JobAsksChain
<1>3. CASE JobSucceeds(w)
  <2>1. status' \in [Batches -> TxStatus \cup {"none"}] /\ waiting' \subseteq Batches
    BY <1>3 DEF JobSucceeds, TxStatus
  <2>2. HoldBatches'
    BY <1>3 DEF JobSucceeds
  <2> QED BY <1>3, <2>1, <2>2 DEF JobSucceeds
<1>4. CASE JobFails(w)
  <2>1. /\ status' \in [Batches -> TxStatus \cup {"none"}]
        /\ waiting' \subseteq Batches
        /\ prioritized' \in [Awards -> BOOLEAN]
    BY <1>4 DEF JobFails, TxStatus, Deprioritize
  <2>2. HoldBatches'
    BY <1>4 DEF JobFails
  <2> QED BY <1>4, <2>1, <2>2 DEF JobFails
<1>5. CASE JobPaysAward(w)
  <2>1. award' \in [Awards -> AwardStatus]
    BY <1>5 DEF JobPaysAward, AwardStatus
  <2>2. HoldBatches'
    BY <1>5 DEF JobPaysAward
  <2> QED BY <1>5, <2>1, <2>2 DEF JobPaysAward
<1>6. CASE JobStopsPaying(w)
  BY <1>6 DEF JobStopsPaying
<1>7. CASE JobCounts(w)
  <2>1. NextSyncs(worker[w].syncs) \in 0..MaxSyncs
    BY <1>1, ConstantsAssumption DEF NextSyncs, WorkerState
  <2>2. syncs' \in [Batches -> 0..MaxSyncs]
    BY <1>7, <2>1 DEF JobCounts
  <2>3. /\ status' \in [Batches -> TxStatus \cup {"none"}]
        /\ waiting' \subseteq Batches
        /\ prioritized' \in [Awards -> BOOLEAN]
    BY <1>7 DEF JobCounts, TxStatus, Deprioritize
  <2>4. HoldBatches'
    BY <1>7 DEF JobCounts, Resting
  <2> QED BY <1>7, <2>2, <2>3, <2>4 DEF JobCounts
<1>8. CASE WorkerDies(w)
  BY <1>8 DEF WorkerDies, Resting
<1>9. ASSUME NEW b \in Batches, JobBegin(w, b) PROVE TypeInv'
  BY <1>9 DEF JobBegin
<1> QED BY <1>2, <1>3, <1>4, <1>5, <1>6, <1>7, <1>8, <1>9 DEF JobStep

\* What people do keeps the types.
LEMMA TypePeople ==
  ASSUME TypeInv, PeopleStep
  PROVE  TypeInv'
<1> USE DEF TypeInv, TypeOK, HoldBatches
<1>1. ASSUME NEW a \in Awards, Prioritize(a) PROVE TypeInv'
  BY <1>1 DEF Prioritize
<1>2. ASSUME NEW a \in Awards, CancelAward(a) PROVE TypeInv'
  BY <1>2 DEF CancelAward, AwardStatus
<1>3. ASSUME NEW m \in Modes, SetMode(m) PROVE TypeInv'
  BY <1>3 DEF SetMode
<1>4. ASSUME NEW a \in Awards, UpdateTransactionAddress(a) PROVE TypeInv'
  BY <1>4 DEF UpdateTransactionAddress, AwardStatus
<1> QED BY <1>1, <1>2, <1>3, <1>4 DEF PeopleStep

\* Wallets, the chain and time keep the types.
LEMMA TypeChain ==
  ASSUME TypeInv, NEW b \in Batches, Broadcast(b) \/ Mine(b) \/ Expire(b)
  PROVE  TypeInv'
<1> USE DEF TypeInv, TypeOK, HoldBatches, ChainStates, dbVars
<1>1. CASE Broadcast(b)
  BY <1>1 DEF Broadcast
<1>2. CASE Mine(b)
  BY <1>2 DEF Mine
<1>3. CASE Expire(b)
  BY <1>3 DEF Expire
<1> QED BY <1>1, <1>2, <1>3

\* So does a step that changes nothing.
LEMMA TypeStutter == ASSUME TypeInv, UNCHANGED vars PROVE TypeInv'
  BY DEF TypeInv, TypeOK, HoldBatches, vars, dbVars

\* No step of the specification breaks the types.
LEMMA TypeStep == ASSUME TypeInv, [Next]_vars PROVE TypeInv'
<1>1. CASE ServerStep
  BY <1>1, TypeCreate, TypeJob DEF ServerStep
<1>2. CASE PeopleStep
  BY <1>2, TypePeople
<1>3. CASE \E b \in Batches : ReportStep(b) \/ Broadcast(b) \/ Mine(b) \/ Expire(b)
  BY <1>3, TypeReport, TypeChain
<1>4. CASE UNCHANGED vars
  BY <1>4, TypeStutter
<1> QED BY <1>1, <1>2, <1>3, <1>4 DEF Next

\* Every variable keeps its type, and a busy worker holds an existing
\* transaction, whatever requests, jobs and people do in whatever order.
THEOREM TypeCorrect == Spec => [](TypeOK /\ HoldBatches)
<1>1. TypeInv /\ [Next]_vars => TypeInv'
  BY TypeStep
<1>2. TypeInv <=> TypeOK /\ HoldBatches
  BY DEF TypeInv
<1> QED BY <1>1, <1>2, TypeInit, PTL DEF Spec

-----------------------------------------------------------------------------
(* What confirmation rests on. A worker acts on the copy it loaded and on    *)
(* the answer of the chain, both old by the time it writes; what makes the   *)
(* write right is that a reported hash is never taken back, that a valid     *)
(* transaction stays valid and that a batch never loses a row.               *)

\* The worker's knowledge is still true.
JobKnows(w) ==
  LET job == worker[w] IN
  /\ job.pc # "idle" => hash[job.tx]
  /\ job.pc \in {"valid", "pay"} => chain[job.tx] = "valid"
  /\ job.pc = "invalid" => chain[job.tx] = "invalid"
  /\ job.pc = "pay" => job.todo \subseteq rows[job.tx]

\* A batch id that is not given out yet has no rows.
UnusedBatchesAreEmpty == \A b \in Batches : b > nBatches => rows[b] = {}

ReportedHaveHash == \A b \in Batches : status[b] \in {"pending", "succeed"} => hash[b]

ConfirmationInv ==
  /\ PaidOnlyIfConfirmed
  /\ SucceedIsConfirmed
  /\ ReportedHaveHash
  /\ UnusedBatchesAreEmpty
  /\ \A w \in Workers : JobKnows(w)

\* At first nothing is paid and nobody works.
LEMMA ConfirmationInit == Init => ConfirmationInv
  BY DEF Init, ConfirmationInv, PaidOnlyIfConfirmed, SucceedIsConfirmed, ReportedHaveHash,
         UnusedBatchesAreEmpty, JobKnows, Resting

\* Steps that only touch requests, new rows and the status "created".
LEMMA ConfirmationCreate ==
  ASSUME TypeInv, ConfirmationInv, NEW r \in Requests, CreateStep(r)
  PROVE  ConfirmationInv'
<1> USE DEF ConfirmationInv, PaidOnlyIfConfirmed, SucceedIsConfirmed, ReportedHaveHash,
            UnusedBatchesAreEmpty, JobKnows, TypeInv, dbVars
<1>1. ASSUME NEW S, Begin(r, S) PROVE ConfirmationInv'
  BY <1>1 DEF Begin
<1>2. CASE CreateByHotWallet(r) \/ CreateCustom(r) \/ SignNew(r)
  BY <1>1, <1>2 DEF CreateByHotWallet, CreateCustom, SignNew
<1>3. CASE InsertBatch(r) \/ InsertBatchDies(r)
  <2>1. nBatches + 1 \in Batches /\ nBatches' = nBatches + 1
    BY <1>3, ConstantsAssumption DEF InsertBatch, InsertBatchDies, TypeOK
  <2>2. \A b \in Batches : b # nBatches + 1 => rows'[b] = rows[b]
    BY <1>3 DEF InsertBatch, InsertBatchDies, TypeOK
  <2>3. \A b \in Batches : rows[b] \subseteq rows'[b]
    BY <2>1, <2>2 DEF TypeOK
  <2>4. UNCHANGED <<award, byHand, status, hash, worker, chain>>
    BY <1>3 DEF InsertBatch, InsertBatchDies
  <2>5. UnusedBatchesAreEmpty'
    BY <2>1, <2>2 DEF TypeOK
  <2>6. \A w \in Workers : JobKnows(w)'
    BY <2>3, <2>4 DEF HoldBatches
  <2>7. PaidOnlyIfConfirmed'
    BY <2>3, <2>4
  <2> QED BY <2>4, <2>5, <2>6, <2>7
<1>4. CASE SaveTransaction(r)
  BY <1>4 DEF SaveTransaction, TypeOK
<1>5. CASE SaveTransactionFails(r)
  BY <1>5 DEF SaveTransactionFails
<1> QED BY <1>2, <1>3, <1>4, <1>5 DEF CreateStep

\* A report sets the hash for good; giving up leaves it and the chain alone.
LEMMA ConfirmationReport ==
  ASSUME TypeInv, ConfirmationInv, NEW b \in Batches, ReportStep(b)
  PROVE  ConfirmationInv'
<1> USE DEF ConfirmationInv, PaidOnlyIfConfirmed, SucceedIsConfirmed, ReportedHaveHash,
            UnusedBatchesAreEmpty, JobKnows, TypeInv, TypeOK
<1>1. ASSUME MarkPending(b) PROVE ConfirmationInv'
  <2>1. \A c \in Batches : hash[c] => hash'[c]
    BY <1>1 DEF MarkPending
  <2>2. \A w \in Workers : JobKnows(w)'
    BY <1>1, <2>1 DEF MarkPending, HoldBatches
  <2> QED BY <1>1, <2>1, <2>2 DEF MarkPending
<1>2. ASSUME NEW s \in {"cancelled", "failed"}, NEW switch, GiveUp(b, s, switch)
      PROVE ConfirmationInv'
  BY <1>2 DEF GiveUp
<1>3. CASE ReportDies(b)
  BY <1>3 DEF ReportDies
<1> QED BY <1>1, <1>2, <1>3 DEF ReportStep, UpdateTransaction, SignReceive, DestroyTransaction,
                          SignReceiveError

\* A job writes succeed and paid from what it knows, which is still true.
LEMMA ConfirmationJob ==
  ASSUME TypeInv, ConfirmationInv, NEW w \in Workers,
         JobStep(w) \/ WorkerDies(w) \/ \E b \in Batches : JobBegin(w, b)
  PROVE  ConfirmationInv'
<1> USE DEF ConfirmationInv, PaidOnlyIfConfirmed, SucceedIsConfirmed, ReportedHaveHash,
            UnusedBatchesAreEmpty, JobKnows, TypeInv, TypeOK, dbVars
<1>1. CASE JobAsksChain(w)
  <2>1. \E pc \in {"valid", "invalid", "count"} :
          /\ worker' = [worker EXCEPT ![w].pc = pc]
          /\ pc \in {"valid", "invalid"} => chain[worker[w].tx] = pc
    BY <1>1 DEF JobAsksChain
  <2>2. \A v \in Workers : JobKnows(v)'
    BY <1>1, <2>1 DEF JobAsksChain, WorkerState
  <2> QED BY <1>1, <2>2 DEF JobAsksChain
<1>2. CASE JobSucceeds(w)
  <2>1. worker[w].tx \in Batches /\ hash[worker[w].tx] /\ chain[worker[w].tx] = "valid"
    BY <1>2 DEF JobSucceeds, HoldBatches
  <2>2. SucceedIsConfirmed' /\ ReportedHaveHash'
    BY <1>2, <2>1 DEF JobSucceeds
  <2>3. \A v \in Workers : JobKnows(v)'
    BY <1>2, <2>1 DEF JobSucceeds, WorkerState
  <2> QED BY <1>2, <2>2, <2>3 DEF JobSucceeds
<1>3. CASE JobFails(w)
  <2>1. \A v \in Workers : JobKnows(v)'
    BY <1>3 DEF JobFails, WorkerState
  <2> QED BY <1>3, <2>1 DEF JobFails
<1>4. CASE JobPaysAward(w)
  <2>1. \A v \in Workers : JobKnows(v)'
    BY <1>4 DEF JobPaysAward, WorkerState
  <2>2. PaidOnlyIfConfirmed'
    BY <1>4 DEF JobPaysAward, HoldBatches
  <2> QED BY <1>4, <2>1, <2>2 DEF JobPaysAward
<1>5. CASE JobStopsPaying(w)
  <2>1. \A v \in Workers : JobKnows(v)'
    BY <1>5 DEF JobStopsPaying, WorkerState
  <2> QED BY <1>5, <2>1 DEF JobStopsPaying
<1>6. CASE JobCounts(w)
  <2>1. \A v \in Workers : JobKnows(v)'
    BY <1>6 DEF JobCounts, Resting
  <2>2. SucceedIsConfirmed' /\ ReportedHaveHash'
    BY <1>6 DEF JobCounts
  <2> QED BY <1>6, <2>1, <2>2 DEF JobCounts
<1>7. CASE WorkerDies(w)
  BY <1>7 DEF WorkerDies, Resting
<1>8. ASSUME NEW b \in Batches, JobBegin(w, b) PROVE ConfirmationInv'
  BY <1>8 DEF JobBegin
<1> QED BY <1>1, <1>2, <1>3, <1>4, <1>5, <1>6, <1>7, <1>8 DEF JobStep

\* The chain never takes back a valid transaction; what people pay is byHand.
LEMMA ConfirmationOther ==
  ASSUME TypeInv, ConfirmationInv,
         \/ PeopleStep
         \/ \E b \in Batches : Broadcast(b) \/ Mine(b) \/ Expire(b)
         \/ UNCHANGED vars
  PROVE  ConfirmationInv'
<1> USE DEF ConfirmationInv, PaidOnlyIfConfirmed, SucceedIsConfirmed, ReportedHaveHash,
            UnusedBatchesAreEmpty, JobKnows, TypeInv, TypeOK, dbVars
<1>1. ASSUME NEW a \in Awards, Prioritize(a) PROVE ConfirmationInv'
  BY <1>1 DEF Prioritize
<1>2. ASSUME NEW a \in Awards, CancelAward(a) PROVE ConfirmationInv'
  BY <1>2 DEF CancelAward
<1>3. ASSUME NEW m \in Modes, SetMode(m) PROVE ConfirmationInv'
  BY <1>3 DEF SetMode
<1>4. ASSUME NEW b \in Batches, Broadcast(b) \/ Mine(b) PROVE ConfirmationInv'
  <2>1. \A c \in Batches : chain[c] \in {"valid", "invalid"} => chain'[c] = chain[c]
    BY <1>4 DEF Broadcast, Mine
  <2>2. \A w \in Workers : JobKnows(w)'
    <3>1. UNCHANGED <<worker, hash, rows>>
      BY <1>4 DEF Broadcast, Mine
    <3> QED BY <2>1, <3>1 DEF HoldBatches
  <2>3. UNCHANGED <<award, byHand, rows, status, hash, nBatches>>
    BY <1>4 DEF Broadcast, Mine
  <2>4. PaidOnlyIfConfirmed' /\ SucceedIsConfirmed'
    BY <2>1, <2>3
  <2> QED BY <2>2, <2>3, <2>4
<1>5. ASSUME NEW b \in Batches, Expire(b) PROVE ConfirmationInv'
  BY <1>5 DEF Expire
<1>6. ASSUME NEW a \in Awards, UpdateTransactionAddress(a) PROVE ConfirmationInv'
  BY <1>6 DEF UpdateTransactionAddress
<1>7. CASE UNCHANGED vars
  BY <1>7 DEF vars
<1> QED BY <1>1, <1>2, <1>3, <1>4, <1>5, <1>6, <1>7 DEF PeopleStep

\* No step of the specification breaks what confirmation rests on.
LEMMA ConfirmationStep == ASSUME TypeInv, ConfirmationInv, [Next]_vars PROVE ConfirmationInv'
<1>1. CASE ServerStep
  BY <1>1, ConfirmationCreate, ConfirmationJob DEF ServerStep
<1>2. CASE PeopleStep \/ UNCHANGED vars
  BY <1>2, ConfirmationOther
<1>3. CASE \E b \in Batches : ReportStep(b) \/ Broadcast(b) \/ Mine(b) \/ Expire(b)
  BY <1>3, ConfirmationReport, ConfirmationOther
<1> QED BY <1>1, <1>2, <1>3 DEF Next

\* Whatever is created, reported, given up and synced beside each other: an
\* award that is paid is paid by a transaction that is valid on the chain, or
\* people have marked it by hand, and a transaction that says succeed was
\* reported and is valid on the chain.
THEOREM PaidIsConfirmed == Spec => [](PaidOnlyIfConfirmed /\ SucceedIsConfirmed)
<1>1. TypeInv /\ ConfirmationInv /\ [Next]_vars => ConfirmationInv'
  BY ConfirmationStep
<1>2. TypeInv <=> TypeOK /\ HoldBatches
  BY DEF TypeInv
<1>3. ConfirmationInv => PaidOnlyIfConfirmed /\ SucceedIsConfirmed
  BY DEF ConfirmationInv
<1> QED BY <1>1, <1>2, <1>3, ConfirmationInit, TypeCorrect, PTL DEF Spec

-----------------------------------------------------------------------------
(* Which batches have a transaction. A request inserts a batch and saves its *)
(* transaction in two steps; in between nobody else knows of the batch.      *)

\* A transaction that is not saved has no hash, only a transaction that says
\* created waits, and each request saves for a batch of its own.
SavingInv ==
  /\ \A b \in Batches : b > nBatches => status[b] = "none"
  /\ \A b \in Batches : status[b] = "none" => ~hash[b]
  /\ \A b \in waiting : status[b] = "created"
  /\ \A r \in Requests : request[r].pc = "save" =>
       /\ request[r].batch \in 1..nBatches
       /\ status[request[r].batch] = "none"
  /\ \A r, q \in Requests :
       request[r].pc = "save" /\ request[q].pc = "save" /\ r # q => request[r].batch # request[q].batch

LEMMA SavingInit == Init => SavingInv
  BY DEF Init, SavingInv, Idle

LEMMA SavingCreate ==
  ASSUME TypeInv, SavingInv, NEW r \in Requests, CreateStep(r)
  PROVE  SavingInv'
<1> USE DEF SavingInv
<1>1. /\ nBatches \in 0..MaxBatches /\ request \in [Requests -> RequestState]
      /\ status \in [Batches -> TxStatus \cup {"none"}] /\ waiting \subseteq Batches
  BY DEF TypeInv, TypeOK
<1>2. CASE CreateByHotWallet(r) \/ CreateCustom(r) \/ SignNew(r)
  <2>1. PICK S : Begin(r, S)
    BY <1>2 DEF CreateByHotWallet, CreateCustom, SignNew
  <2>2. UNCHANGED <<nBatches, status, hash, waiting>>
    BY <2>1 DEF Begin, dbVars
  <2>3. \A q \in Requests : request'[q].pc = "save" => request'[q] = request[q]
    BY <1>1, <2>1 DEF Begin
  <2>4. \A q \in Requests : request'[q].pc = "save" => request[q].pc = "save"
    BY <2>3
  <2> QED BY <2>2, <2>3, <2>4
<1>3. CASE InsertBatch(r)
  <2>1. nBatches' = nBatches + 1 /\ nBatches + 1 \in Batches
    BY <1>1, <1>3, ConstantsAssumption DEF InsertBatch
  <2>2. /\ request'[r].pc = "save" /\ request'[r].batch = nBatches + 1
        /\ \A q \in Requests : q # r => request'[q] = request[q]
    BY <1>1, <1>3 DEF InsertBatch, RequestState
  <2>3. \A q \in Requests : request[q].pc = "save" => request[q].batch # nBatches + 1
    BY <1>1
  <2>4. UNCHANGED <<status, hash, waiting>>
    BY <1>3 DEF InsertBatch
  <2>5. \A q \in Requests : request'[q].pc = "save" =>
          request'[q].batch \in 1..nBatches' /\ status[request'[q].batch] = "none"
    BY <1>1, <2>1, <2>2
  <2>6. \A p, q \in Requests : request'[p].pc = "save" /\ request'[q].pc = "save" /\ p # q
                                 => request'[p].batch # request'[q].batch
    BY <2>2, <2>3
  <2> QED BY <1>1, <2>1, <2>4, <2>5, <2>6
<1>4. CASE InsertBatchDies(r)
  <2>1. nBatches' = nBatches + 1 /\ UNCHANGED <<status, hash, waiting>>
    BY <1>4 DEF InsertBatchDies
  <2>2. request' = [request EXCEPT ![r] = Idle]
    BY <1>4 DEF InsertBatchDies
  <2> QED BY <1>1, <2>1, <2>2 DEF Idle
<1>5. CASE SaveTransaction(r)
  <2>1. /\ status' = [status EXCEPT ![request[r].batch] = "created"]
        /\ waiting' = waiting \cup {request[r].batch}
        /\ request' = [request EXCEPT ![r] = Idle] /\ request[r].pc = "save"
        /\ UNCHANGED <<nBatches, hash>>
    BY <1>5 DEF SaveTransaction
  <2>2. \A q \in Requests : request'[q].pc = "save" =>
          request'[q] = request[q] /\ request[q].pc = "save" /\ q # r
    BY <1>1, <2>1 DEF Idle
  <2>3. \A b \in Batches : b > nBatches => status'[b] = "none"
    <3>1. request[r].batch \in 1..nBatches
      BY <2>1
    <3>2. \A b \in Batches : b > nBatches => b # request[r].batch
      BY <1>1, <3>1
    <3> QED BY <1>1, <2>1, <3>2
  <2>4. \A b \in waiting' : status'[b] = "created"
    <3>1. request[r].batch \in Batches
      BY <2>1 DEF TypeInv, HoldBatches
    <3>2. status'[request[r].batch] = "created"
      BY <1>1, <2>1, <3>1
    <3>3. \A b \in waiting : status'[b] = status[b] \/ b = request[r].batch
      BY <1>1, <2>1
    <3> QED BY <2>1, <3>2, <3>3
  <2>5. \A b \in Batches : status'[b] = "none" => ~hash[b]
    BY <1>1, <2>1
  <2>6. \A q \in Requests : request'[q].pc = "save" => status'[request'[q].batch] = "none"
    BY <1>1, <2>1, <2>2
  <2> QED BY <2>1, <2>2, <2>3, <2>4, <2>5, <2>6
<1>6. CASE SaveTransactionFails(r)
  BY <1>1, <1>6 DEF SaveTransactionFails, Idle, dbVars
<1> QED BY <1>2, <1>3, <1>4, <1>5, <1>6 DEF CreateStep

\* A step that writes the status of one saved transaction only takes it out of
\* waiting; such are all the steps of reports, jobs and givings up.
SavedStep(b) ==
  /\ UNCHANGED <<nBatches, request>>
  /\ waiting' \subseteq waiting
  /\ \A c \in Batches \ {b} : status'[c] = status[c] /\ hash'[c] = hash[c]
  /\ \/ status'[b] = status[b] /\ (hash'[b] = hash[b] \/ status[b] # "none")
     \/ /\ status[b] # "none" /\ status'[b] # "none"
        /\ b \notin waiting'

LEMMA SavingKept ==
  ASSUME TypeInv, SavingInv, NEW b \in Batches, SavedStep(b)
  PROVE  SavingInv'
<1>1. nBatches \in 0..MaxBatches /\ waiting \subseteq Batches
  BY DEF TypeInv, TypeOK
<1>2. \A r \in Requests : request[r].pc = "save" => request[r].batch \in Batches
  BY DEF TypeInv, HoldBatches
<1>3. \A c \in Batches : status[c] = "none" <=> status'[c] = "none"
  BY DEF SavedStep
<1> QED BY <1>1, <1>2, <1>3 DEF SavingInv, SavedStep

LEMMA ReportSaves ==
  ASSUME TypeInv, NEW b \in Batches, ReportStep(b)
  PROVE  SavedStep(b)
<1> USE DEF SavedStep, TypeInv, TypeOK
<1>1. ASSUME MarkPending(b) PROVE SavedStep(b)
  BY <1>1 DEF MarkPending
<1>2. ASSUME NEW s \in {"cancelled", "failed"}, NEW switch, GiveUp(b, s, switch)
      PROVE SavedStep(b)
  BY <1>2 DEF GiveUp
<1>3. CASE ReportDies(b)
  BY <1>3 DEF ReportDies
<1> QED BY <1>1, <1>2, <1>3 DEF ReportStep, UpdateTransaction, SignReceive, DestroyTransaction,
                          SignReceiveError

\* A job only writes to a transaction whose hash was there when it began.
LEMMA JobSaves ==
  ASSUME TypeInv, SavingInv, ConfirmationInv, NEW w \in Workers,
         JobStep(w) \/ WorkerDies(w) \/ \E b \in Batches : JobBegin(w, b)
  PROVE  \E b \in Batches : SavedStep(b)
<1>1. ASSUME worker[w].pc # "idle"
      PROVE  worker[w].tx \in Batches /\ status[worker[w].tx] # "none"
  BY <1>1 DEF ConfirmationInv, JobKnows, SavingInv, TypeInv, HoldBatches
<1> USE DEF SavedStep, TypeInv, TypeOK
<1>2. CASE JobAsksChain(w) \/ JobPaysAward(w) \/ JobStopsPaying(w) \/ WorkerDies(w)
  BY <1>1, <1>2 DEF JobAsksChain, JobPaysAward, JobStopsPaying, WorkerDies, dbVars
<1>3. CASE JobSucceeds(w)
  BY <1>1, <1>3 DEF JobSucceeds
<1>4. CASE JobFails(w)
  BY <1>1, <1>4 DEF JobFails
<1>5. CASE JobCounts(w)
  BY <1>1, <1>5 DEF JobCounts
<1>6. ASSUME NEW b \in Batches, JobBegin(w, b) PROVE SavedStep(b)
  BY <1>6 DEF JobBegin, dbVars
<1> QED BY <1>2, <1>3, <1>4, <1>5, <1>6 DEF JobStep

LEMMA SavingStep ==
  ASSUME TypeInv, ConfirmationInv, SavingInv, [Next]_vars
  PROVE  SavingInv'
<1>1. CASE ServerStep
  BY <1>1, SavingCreate, SavingKept, JobSaves DEF ServerStep
<1>2. CASE \E b \in Batches : ReportStep(b)
  BY <1>2, ReportSaves, SavingKept
<1>3. CASE PeopleStep \/ (\E b \in Batches : Broadcast(b) \/ Mine(b)) \/ UNCHANGED vars
  <2>1. UNCHANGED <<nBatches, status, hash, waiting, request>>
    BY <1>3 DEF PeopleStep, Prioritize, CancelAward, UpdateTransactionAddress, SetMode, Broadcast, Mine, dbVars, vars
  <2> QED BY <2>1 DEF SavingInv
<1>4. CASE \E b \in Batches : Expire(b)
  BY <1>4 DEF Expire, SavingInv
<1> QED BY <1>1, <1>2, <1>3, <1>4 DEF Next

\* What holds of the rows and the workers, whatever the surroundings do.
ServerInv == TypeInv /\ ConfirmationInv /\ SavingInv

LEMMA ServerInvStep == ASSUME ServerInv, [Next]_vars PROVE ServerInv'
  BY TypeStep, ConfirmationStep, SavingStep DEF ServerInv

LEMMA ServerInvKept == Spec => []ServerInv
<1>1. Init => ServerInv
  BY TypeInit, ConfirmationInit, SavingInit DEF ServerInv
<1>2. ServerInv /\ [Next]_vars => ServerInv'
  BY ServerInvStep
<1> QED BY <1>1, <1>2, PTL DEF Spec

-----------------------------------------------------------------------------
(* A batch that succeeded is paid                                           *)

\* What a worker that settles a transaction has not marked is still to do.
WorkersPay ==
  \A w \in Workers : worker[w].pc = "pay" =>
    \A a \in rows[worker[w].tx] : a \in worker[w].todo \/ award[a] = "paid"

SettlementInv == SucceedSettlesBatch /\ WorkersPay

\* A worker's batch is given out, and so is one that succeeded: the rows of
\* both are there for good.
LEMMA InsertedIsKept ==
  ASSUME ServerInv
  PROVE  /\ \A w \in Workers : worker[w].pc # "idle" => worker[w].tx \in 1..nBatches
         /\ \A b \in Batches : status[b] = "succeed" => b \in 1..nBatches
BY DEF ServerInv, TypeInv, TypeOK, HoldBatches, ConfirmationInv, JobKnows, SavingInv

\* Creating a transaction adds a batch, and "created" is not "succeed".
LEMMA SettlementCreate ==
  ASSUME ServerInv, SettlementInv, NEW r \in Requests, CreateStep(r)
  PROVE  SettlementInv'
<1> USE DEF SettlementInv, SucceedSettlesBatch, WorkersPay, Paying
<1>1. /\ nBatches \in 0..MaxBatches /\ rows \in [Batches -> SUBSET Awards]
      /\ status \in [Batches -> TxStatus \cup {"none"}]
  BY DEF ServerInv, TypeInv, TypeOK
<1>2. UNCHANGED <<award, worker>>
  BY DEF CreateStep, CreateByHotWallet, CreateCustom, SignNew, Begin, InsertBatch, InsertBatchDies,
         SaveTransaction, SaveTransactionFails, dbVars
<1>3. \A b \in 1..nBatches : rows'[b] = rows[b]
  <2>1. CASE InsertBatch(r)
    BY <1>1, <2>1 DEF InsertBatch
  <2>2. CASE InsertBatchDies(r)
    BY <1>1, <2>2 DEF InsertBatchDies
  <2>3. CASE ~InsertBatch(r) /\ ~InsertBatchDies(r)
    BY <2>3 DEF CreateStep, CreateByHotWallet, CreateCustom, SignNew, Begin, SaveTransaction,
                SaveTransactionFails, dbVars
  <2> QED BY <2>1, <2>2, <2>3
<1>4. \A b \in Batches : status'[b] = "succeed" => status[b] = "succeed"
  BY <1>1 DEF CreateStep, CreateByHotWallet, CreateCustom, SignNew, Begin, InsertBatch,
              InsertBatchDies, SaveTransaction, SaveTransactionFails, dbVars
<1> QED BY <1>2, <1>3, <1>4, InsertedIsKept

\* A worker goes through every award of the batch before it stops.
LEMMA SettlementJob ==
  ASSUME ServerInv, SettlementInv, Environment \cap {"crash", "award_raises"} = {}, NEW w \in Workers,
         JobStep(w) \/ WorkerDies(w) \/ \E b \in Batches : JobBegin(w, b)
  PROVE  SettlementInv'
<1> USE DEF SettlementInv, SucceedSettlesBatch, WorkersPay, Paying
<1>1. /\ worker \in [Workers -> WorkerState] /\ award \in [Awards -> AwardStatus]
      /\ rows \in [Batches -> SUBSET Awards] /\ status \in [Batches -> TxStatus \cup {"none"}]
  BY DEF ServerInv, TypeInv, TypeOK
<1>2. worker[w].pc # "idle" => worker[w].tx \in Batches
  BY DEF ServerInv, TypeInv, HoldBatches
<1>3. CASE JobAsksChain(w)
  <2>1. PICK pc \in {"valid", "invalid", "count"} : worker' = [worker EXCEPT ![w].pc = pc]
    BY <1>3 DEF JobAsksChain, ServerInv, ConfirmationInv
  <2>2. \A v \in Workers : worker'[v].pc = "pay" <=> worker[v].pc = "pay" 
    BY <1>1, <1>3, <2>1 DEF JobAsksChain, WorkerState
  <2>3. \A v \in Workers : worker'[v].tx = worker[v].tx /\ worker'[v].todo = worker[v].todo
    BY <1>1, <2>1 DEF WorkerState
  <2> QED BY <1>3, <2>2, <2>3 DEF JobAsksChain, dbVars
<1>4. CASE JobSucceeds(w)
  <2>1. /\ worker'[w].pc = "pay" /\ worker'[w].tx = worker[w].tx
        /\ worker'[w].todo = rows[worker[w].tx]
        /\ \A v \in Workers \ {w} : worker'[v] = worker[v]
    BY <1>1, <1>4 DEF JobSucceeds, WorkerState
  <2>2. UNCHANGED <<award, rows>> /\ \A b \in Batches \ {worker[w].tx} : status'[b] = status[b]
    BY <1>1, <1>4 DEF JobSucceeds
  <2>3. worker[w].pc # "pay"
    BY <1>4 DEF JobSucceeds
  <2> QED BY <2>1, <2>2, <2>3
<1>5. CASE JobFails(w)
  <2>1. worker[w].pc # "pay" /\ worker'[w].pc # "pay" /\ \A v \in Workers \ {w} : worker'[v] = worker[v]
    BY <1>1, <1>5 DEF JobFails, WorkerState
  <2>2. UNCHANGED <<award, rows>> /\ \A b \in Batches : status'[b] = "succeed" => status[b] = "succeed"
    BY <1>1, <1>5 DEF JobFails
  <2> QED BY <2>1, <2>2
<1>6. CASE JobPaysAward(w)
  <2>1. PICK a \in worker[w].todo : /\ award' = [award EXCEPT ![a] = "paid"]
                                    /\ worker' = [worker EXCEPT ![w].todo = @ \ {a}]
    BY <1>6 DEF JobPaysAward
  <2>2. /\ \A v \in Workers : worker'[v].pc = worker[v].pc /\ worker'[v].tx = worker[v].tx
        /\ \A v \in Workers : worker[v].todo \subseteq worker'[v].todo \cup {a}
    BY <1>1, <2>1 DEF WorkerState
  <2>3. a \in Awards /\ award'[a] = "paid" /\ \A c \in Awards : award[c] = "paid" => award'[c] = "paid"
    BY <1>1, <2>1 DEF WorkerState
  <2>4. UNCHANGED <<rows, status>>
    BY <1>6 DEF JobPaysAward
  <2>5. \A b \in Batches : rows[b] \subseteq Awards
    BY <1>1
  <2>6. \A v \in Workers : worker[v].pc = "pay" => worker[v].tx \in Batches
    BY DEF ServerInv, TypeInv, HoldBatches
  <2> QED BY <2>2, <2>3, <2>4, <2>5, <2>6
<1>7. CASE JobStopsPaying(w)
  <2>1. worker[w].todo = {} /\ UNCHANGED <<award, rows, status>> /\ worker[w].pc = "pay"
    BY <1>7 DEF JobStopsPaying, dbVars
  <2>2. worker'[w].pc # "pay" /\ \A v \in Workers \ {w} : worker'[v] = worker[v]
    BY <1>1, <1>7 DEF JobStopsPaying, WorkerState
  <2>3. \A a \in rows[worker[w].tx] : award[a] = "paid"
    BY <2>1
  <2> QED BY <2>1, <2>2, <2>3
<1>8. CASE JobCounts(w)
  <2>1. worker[w].pc # "pay" /\ worker'[w].pc # "pay" /\ \A v \in Workers \ {w} : worker'[v] = worker[v]
    BY <1>1, <1>8 DEF JobCounts, Resting
  <2>2. UNCHANGED <<award, rows>> /\ \A b \in Batches : status'[b] = "succeed" => status[b] = "succeed"
    BY <1>1, <1>8 DEF JobCounts
  <2> QED BY <2>1, <2>2
<1>9. ASSUME NEW b \in Batches, JobBegin(w, b) PROVE SettlementInv'
  <2>1. worker[w].pc # "pay" /\ worker'[w].pc # "pay" /\ \A v \in Workers \ {w} : worker'[v] = worker[v]
    BY <1>1, <1>9 DEF JobBegin
  <2>2. UNCHANGED <<award, rows, status>>
    BY <1>9 DEF JobBegin, dbVars
  <2> QED BY <2>1, <2>2
<1> QED BY <1>3, <1>4, <1>5, <1>6, <1>7, <1>8, <1>9 DEF JobStep, WorkerDies

\* Reports and givings up write other statuses, and nobody unpays an award.
LEMMA SettlementOther ==
  ASSUME ServerInv, SettlementInv,
         \/ PeopleStep
         \/ \E b \in Batches : ReportStep(b) \/ Broadcast(b) \/ Mine(b) \/ Expire(b)
         \/ UNCHANGED vars
  PROVE  SettlementInv'
<1>1. award \in [Awards -> AwardStatus] /\ status \in [Batches -> TxStatus \cup {"none"}]
      /\ rows \in [Batches -> SUBSET Awards]
  BY DEF ServerInv, TypeInv, TypeOK
<1>2. \A b \in Batches : status'[b] = "succeed" => status[b] = "succeed"
  BY <1>1 DEF PeopleStep, Prioritize, CancelAward, UpdateTransactionAddress, SetMode, ReportStep, UpdateTransaction, SignReceive,
              DestroyTransaction, SignReceiveError, MarkPending, GiveUp, ReportDies,
              Broadcast, Mine, Expire, vars, dbVars
<1>3. \A a \in Awards : award[a] = "paid" => award'[a] = "paid"
  BY <1>1 DEF PeopleStep, Prioritize, CancelAward, UpdateTransactionAddress, SetMode, ReportStep, UpdateTransaction, SignReceive,
              DestroyTransaction, SignReceiveError, MarkPending, GiveUp, ReportDies,
              Broadcast, Mine, Expire, vars, dbVars
<1>4. UNCHANGED <<rows, worker>>
  BY DEF PeopleStep, Prioritize, CancelAward, UpdateTransactionAddress, SetMode, ReportStep, UpdateTransaction, SignReceive,
         DestroyTransaction, SignReceiveError, MarkPending, GiveUp, ReportDies,
         Broadcast, Mine, Expire, vars, dbVars
<1>5. \A w \in Workers : worker[w].pc = "pay" => worker[w].tx \in Batches
  BY DEF ServerInv, TypeInv, HoldBatches
<1> QED BY <1>1, <1>2, <1>3, <1>4, <1>5 DEF SettlementInv, SucceedSettlesBatch, WorkersPay, Paying

\* Where no process dies and no award refuses to be marked, a transaction
\* that succeeded has paid its whole batch, or a worker is just doing it:
\* whatever other workers, reports, cancelled awards and reloads do meanwhile.
THEOREM SettledBatchesArePaid ==
  ASSUME Environment \cap {"crash", "award_raises"} = {}
  PROVE  Spec => []SucceedSettlesBatch
<1>1. Init => SettlementInv
  BY DEF Init, SettlementInv, SucceedSettlesBatch, WorkersPay, Resting
<1>2. ServerInv /\ SettlementInv /\ [Next]_vars => SettlementInv'
  BY SettlementCreate, SettlementJob, SettlementOther DEF Next, ServerStep
<1>3. SettlementInv => SucceedSettlesBatch
  BY DEF SettlementInv
<1> QED BY <1>1, <1>2, <1>3, ServerInvKept, PTL DEF Spec

-----------------------------------------------------------------------------
(* Who takes a confirmed payment back                                       *)

\* A job that found the transaction failed does not meet one that succeeded:
\* the chain says either valid or invalid, and succeed was written from it.
LEMMA FailedIsNoSuccess ==
  ASSUME ServerInv, NEW w \in Workers, worker[w].pc = "invalid"
  PROVE  status[worker[w].tx] # "succeed"
BY DEF ServerInv, TypeInv, HoldBatches, ConfirmationInv, SucceedIsConfirmed, JobKnows

\* With any number of workers, requests and browsers: a step that takes
\* "succeed" back is one of a stale copy, of a returning browser or of a client
\* that gives up; never of the job that wrote it or of one that saw it failed.
THEOREM SuccessIsLostUnseen == Spec => SuccessIsOverwrittenUnseen
<1>1. ASSUME ServerInv, Next, NEW b \in Batches, status[b] = "succeed", status'[b] # "succeed"
      PROVE  OverwritesUnseen(b)
  <2> USE <1>1
  <2>1. /\ status \in [Batches -> TxStatus \cup {"none"}]
        /\ \A r \in Requests : request[r].pc = "save" => status[request[r].batch] = "none"
        /\ \A w \in Workers : worker[w].pc # "idle" => worker[w].tx \in Batches
    BY DEF ServerInv, TypeInv, TypeOK, HoldBatches, SavingInv
  <2>2. ASSUME NEW r \in Requests, CreateStep(r) PROVE FALSE
    <3>1. CASE SaveTransaction(r)
      BY <2>1, <3>1 DEF SaveTransaction
    <3>2. CASE ~SaveTransaction(r)
      BY <2>2, <3>2 DEF CreateStep, CreateByHotWallet, CreateCustom, SignNew, Begin, InsertBatch,
                        InsertBatchDies, SaveTransactionFails, dbVars
    <3> QED BY <3>1, <3>2
  <2>3. ASSUME NEW w \in Workers, JobCounts(w) PROVE OverwritesUnseen(b)
    <3>1. SyncsExhausted(w) /\ worker[w].tx = b
      BY <2>1, <2>3 DEF JobCounts
    <3> QED BY <2>3, <3>1 DEF SyncsExhausted, OverwritesUnseen
  <2>4. ASSUME NEW w \in Workers, JobFails(w) PROVE FALSE
    BY <2>1, <2>4, FailedIsNoSuccess DEF JobFails
  <2>5. ASSUME NEW w \in Workers, JobStep(w) \/ WorkerDies(w) \/ \E c \in Batches : JobBegin(w, c),
               ~JobCounts(w), ~JobFails(w)
        PROVE  FALSE
    BY <2>1, <2>5 DEF JobStep, JobAsksChain, JobSucceeds, JobPaysAward, JobStopsPaying, WorkerDies,
                      JobBegin, dbVars
  <2>6. ASSUME NEW c \in Batches, ReportStep(c) PROVE OverwritesUnseen(b)
    <3>1. CASE ReportDies(c)
      BY <3>1 DEF ReportDies
    <3>2. CASE UpdateTransaction(c)
      <4>1. hash[b]
        BY DEF ServerInv, ConfirmationInv, SucceedIsConfirmed
      <4> QED BY <2>1, <3>2, <4>1 DEF UpdateTransaction, MarkPending
    <3>3. CASE SignReceive(c) \/ DestroyTransaction(c) \/ SignReceiveError(c)
      <4>1. c = b
        BY <2>1, <3>3 DEF SignReceive, DestroyTransaction, SignReceiveError, MarkPending, GiveUp
      <4> QED BY <3>3, <4>1 DEF OverwritesUnseen
    <3> QED BY <2>6, <3>1, <3>2, <3>3 DEF ReportStep
  <2>7. ASSUME PeopleStep \/ \E c \in Batches : Broadcast(c) \/ Mine(c) \/ Expire(c) PROVE FALSE
    BY <2>7 DEF PeopleStep, Prioritize, CancelAward, UpdateTransactionAddress, SetMode,
                Broadcast, Mine, Expire, dbVars
  <2> QED BY <2>2, <2>3, <2>4, <2>5, <2>6, <2>7 DEF Next, ServerStep
<1>2. ServerInv /\ [Next]_vars =>
        [\A b \in Batches : status[b] = "succeed" /\ status'[b] # "succeed" => OverwritesUnseen(b)]_vars
  BY <1>1
<1> QED BY <1>2, ServerInvKept, PTL DEF Spec, SuccessIsOverwrittenUnseen

=============================================================================

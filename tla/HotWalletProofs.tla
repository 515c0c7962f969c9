-------------------------- MODULE HotWalletProofs --------------------------
(***************************************************************************)
(* Theorems about the server and the hot wallet together. What the server  *)
(* alone guarantees carries over, because every step of the composition is *)
(* a step of the server or leaves it alone. On top of that the Redis keys  *)
(* keep an award from being broadcast twice, where no fault opens the      *)
(* window between send and save.                                           *)
(***************************************************************************)
EXTENDS HotWalletProcess, BlockchainTransactionsProofs

\* No fault takes a key away or leaves a broadcast award without one.
KeysAreKept == HwFaults \cap {"crash_unsaved", "send_unclear", "key_expires"} = {}

\* The wallet holds a batch that exists.
Holds == hw.pc \in {"check", "send", "sent", "report", "abandon"} => hw.tx \in 1..nBatches

\* Only a wallet that asks has a request to wait for.
AsksFirst == hw.req # {} => At("asking")

\* A batch that is not inserted yet is not on the chain, and no request is
\* about to save a transaction for it.
OnlyInserted ==
  /\ \A b \in Batches : OnChain(b) => b <= nBatches
  /\ \A r \in Requests : request[r].pc = "save" => request[r].batch \in 1..nBatches

\* An award that is on the chain has a key, or its key is being written, or
\* send() is just returning.
Remembered ==
  \A b \in Batches : OnChain(b) =>
    \/ At("sent") /\ hw.tx = b
    \/ rows[b] \subseteq redis \cup unsaved

\* Between the check of the keys and the writes nothing else is being written.
NothingPending ==
  /\ At("send") => unsaved = {} /\ rows[hw.tx] \cap redis = {}
  /\ At("sent") => unsaved = {}

GuardInv ==
  /\ HwTypeOK
  /\ Holds
  /\ AsksFirst
  /\ OnlyInserted
  /\ Remembered
  /\ NothingPending
  /\ AtMostOneBroadcast
-----------------------------------------------------------------------------
(* Every step of the composition is a step of the server, or leaves it alone *)

\* What is proved of the server's steps holds of those of the composition.
LEMMA ServerSteps == ASSUME HwTypeOK, Holds, HwNext PROVE [Next]_vars
<1> USE DEF Next, ServerStep
<1>0. nBatches \in 0..MaxBatches /\ (hw.pc \in {"sent", "send", "report", "abandon"} => hw.tx \in Batches)
  BY ConstantsAssumption DEF HwTypeOK, TypeOK, Holds, Batches
<1>1. ASSUME NEW r \in Requests,
             HwAsks(r) \/ ServerInserts(r) \/ ServerAnswers(r) \/ ServerRefuses(r)
      PROVE Next
  <2>1. CreateStep(r)
    BY <1>1 DEF HwAsks, ServerInserts, ServerAnswers, ServerRefuses, CreateStep
  <2> QED BY <2>1
<1>2. CASE HwSends
  BY <1>0, <1>2 DEF HwSends, At
<1>3. CASE HwReports
  BY <1>0, <1>3 DEF HwReports, At, ReportStep
<1>4. CASE HwGivesUp
  <2>1. hw.markAs \in {"cancelled", "failed"} /\ hw.switch \in BOOLEAN
    BY DEF HwTypeOK, HwState
  <2>2. hw.tx \in Batches /\ DestroyTransaction(hw.tx)
    BY <1>0, <1>4, <2>1 DEF HwGivesUp, At, DestroyTransaction
  <2> QED BY <2>2 DEF ReportStep
<1>5. CASE \/ HwFindsInvalid \/ HwChecksRedis \/ HwCannotSend \/ HwRecords \/ HwSendUnclear
           \/ HwGivesUpUnheard \/ HwCrashes \/ \E a \in Awards : RedisSaves(a) \/ RedisExpires(a)
  BY <1>5 DEF HwFindsInvalid, HwChecksRedis, HwCannotSend, HwRecords, HwSendUnclear,
              HwGivesUpUnheard, HwCrashes, RedisSaves, RedisExpires
<1>6. CASE OtherStep
  BY <1>6 DEF OtherStep
<1> QED BY <1>1, <1>2, <1>3, <1>4, <1>5, <1>6 DEF HwNext, HwStep, HwGuardedStep, HwAccident

\* The wallet's own state keeps its type.
LEMMA HwTyped == ASSUME HwTypeOK, Holds, HoldBatches, HwNext
                 PROVE  hw' \in HwState /\ redis' \subseteq Awards /\ unsaved' \subseteq Awards
<1> USE DEF HwTypeOK, TypeOK
<1> DEFINE T == redis' \subseteq Awards /\ unsaved' \subseteq Awards
<1>1. HwIdle \in HwState
  BY ConstantsAssumption DEF HwIdle, HwState
<1>2. ASSUME NEW pc \in {"idle", "asking", "check", "send", "sent", "report", "abandon"}, GoTo(pc)
      PROVE  hw' \in HwState
  BY <1>2 DEF GoTo, HwState
<1>3. ASSUME NEW mark \in {"cancelled", "failed"}, NEW switch \in BOOLEAN, Abandon(mark, switch)
      PROVE  hw' \in HwState
  BY <1>3 DEF Abandon, HwState
<1>4. ASSUME NEW r \in Requests, HwAsks(r) PROVE hw' \in HwState /\ T
  <2>1. [HwIdle EXCEPT !.pc = "asking", !.req = {r}] \in HwState
    BY <1>1 DEF HwState
  <2> QED BY <1>4, <2>1 DEF HwAsks
<1>5. ASSUME NEW r \in Requests, ServerInserts(r) \/ ServerRefuses(r) PROVE hw' \in HwState /\ T
  BY <1>1, <1>5 DEF ServerInserts, ServerRefuses, hwVars
<1>6. ASSUME NEW r \in Requests, ServerAnswers(r) PROVE hw' \in HwState /\ T
  <2>1. request[r].batch \in 0..MaxBatches
    BY DEF RequestState
  <2>2. [HwIdle EXCEPT !.pc = "check", !.tx = request[r].batch] \in HwState
    BY <1>1, <2>1 DEF HwState
  <2> QED BY <1>1, <1>6, <2>2 DEF ServerAnswers
<1>7. CASE HwFindsInvalid \/ HwCannotSend
  BY <1>3, <1>7 DEF HwFindsInvalid, HwCannotSend
<1>8. CASE HwChecksRedis
  BY <1>2, <1>3, <1>8 DEF HwChecksRedis
<1>9. CASE HwSends
  BY <1>2, <1>9 DEF HwSends
<1>10. CASE HwRecords
  <2>1. rows[hw.tx] \subseteq Awards
    BY <1>10, ConstantsAssumption DEF HwRecords, At, Holds, Batches
  <2> QED BY <1>2, <1>10, <2>1 DEF HwRecords
<1>11. CASE HwSendUnclear
  BY <1>3, <1>11 DEF HwSendUnclear
<1>12. CASE HwReports \/ HwGivesUp \/ HwGivesUpUnheard \/ HwCrashes
  BY <1>1, <1>12 DEF HwReports, HwGivesUp, HwGivesUpUnheard, HwCrashes
<1>13. CASE \E a \in Awards : RedisSaves(a) \/ RedisExpires(a)
  BY <1>13 DEF RedisSaves, RedisExpires
<1>14. CASE OtherStep
  BY <1>14 DEF OtherStep, hwVars
<1> QED BY <1>4, <1>5, <1>6, <1>7, <1>8, <1>9, <1>10, <1>11, <1>12, <1>13, <1>14
        DEF HwNext, HwStep, HwGuardedStep, HwAccident

\* The server keeps its types too.
LEMMA HwTypeStep ==
  ASSUME HwTypeOK, Holds, HoldBatches, HwNext \/ UNCHANGED allVars
  PROVE  HwTypeOK' /\ HoldBatches'
<1>1. TypeInv'
  BY ServerSteps, TypeStep DEF HwTypeOK, TypeInv, allVars
<1>2. CASE HwNext
  BY <1>1, <1>2, HwTyped DEF HwTypeOK, TypeInv
<1>3. CASE UNCHANGED allVars
  BY <1>1, <1>3 DEF HwTypeOK, TypeInv, allVars, hwVars
<1> QED BY <1>2, <1>3

\* What goes on without the wallet neither creates nor broadcasts.
LEMMA OtherLeaves ==
  ASSUME HwTypeOK, OtherStep
  PROVE  /\ UNCHANGED <<rows, nBatches, request, hw>>
         /\ \A b \in Batches : OnChain(b)' <=> OnChain(b)
<1>1. ASSUME NEW w \in Workers,
             JobStep(w) \/ WorkerDies(w) \/ \E b \in Batches : JobBegin(w, b)
      PROVE UNCHANGED <<rows, nBatches, request, chain>>
  BY <1>1 DEF JobStep, JobAsksChain, JobSucceeds, JobFails, JobPaysAward, JobStopsPaying,
              JobCounts, WorkerDies, JobBegin, dbVars
<1>2. PeopleStep => UNCHANGED <<rows, nBatches, request, chain>>
  BY DEF PeopleStep, Prioritize, CancelAward, UpdateTransactionAddress, SetMode
<1>3. ASSUME NEW b \in Batches, Mine(b) \/ Expire(b)
      PROVE  /\ UNCHANGED <<rows, nBatches, request>>
             /\ \A c \in Batches : OnChain(c)' <=> OnChain(c)
  BY <1>3 DEF Mine, Expire, dbVars, OnChain, HwTypeOK, TypeOK
<1> QED BY <1>1, <1>2, <1>3 DEF OtherStep, hwVars, OnChain

-----------------------------------------------------------------------------
(* The wallet holds what is inserted, whatever accidents happen              *)

Saving == \A r \in Requests : request[r].pc = "save" => request[r].batch \in 1..nBatches

LEMMA HeldStep ==
  ASSUME HwTypeOK, Holds, Saving, HwNext \/ UNCHANGED allVars
  PROVE  Holds' /\ Saving'
<1> USE DEF Holds, Saving
<1>1. nBatches \in 0..MaxBatches /\ request \in [Requests -> RequestState] /\ hw \in HwState
  BY DEF HwTypeOK, TypeOK
<1>2. HwIdle.pc = "idle" /\ Idle.pc = "idle"
  BY DEF HwIdle, Idle
<1>3. ASSUME NEW r \in Requests, HwAsks(r)
      PROVE  Holds' /\ Saving'
  BY <1>1, <1>3 DEF HwAsks, HwIdle, CreateByHotWallet, Begin, dbVars
<1>4. ASSUME NEW r \in Requests, InsertBatch(r) \/ InsertBatchDies(r),
             hw' = hw \/ hw' = HwIdle
      PROVE  Holds' /\ Saving'
  <2>1. nBatches' = nBatches + 1
    BY <1>4 DEF InsertBatch, InsertBatchDies
  <2>2. Saving'
    BY <1>1, <1>2, <1>4, <2>1 DEF InsertBatch, InsertBatchDies, RequestState
  <2> QED BY <1>1, <1>2, <1>4, <2>1, <2>2
<1>5. ASSUME NEW r \in Requests, SaveTransaction(r) \/ SaveTransactionFails(r),
             \/ hw' = hw \/ hw' = HwIdle
             \/ hw' = [HwIdle EXCEPT !.pc = "check", !.tx = request[r].batch]
      PROVE  Holds' /\ Saving'
  <2>1. UNCHANGED nBatches /\ request' = [request EXCEPT ![r] = Idle] /\ request[r].pc = "save"
    BY <1>5 DEF SaveTransaction, SaveTransactionFails, dbVars
  <2>2. Saving'
    BY <1>1, <1>2, <2>1
  <2>3. request[r].batch \in 1..nBatches
    BY <2>1
  <2>4. CASE hw' = [HwIdle EXCEPT !.pc = "check", !.tx = request[r].batch]
    BY <2>1, <2>2, <2>3, <2>4 DEF HwIdle
  <2>5. Holds'
    BY <1>2, <1>5, <2>1, <2>4
  <2> QED BY <2>2, <2>5
<1>6. CASE \E r \in Requests : ServerInserts(r) \/ ServerAnswers(r) \/ ServerRefuses(r)
  BY <1>4, <1>5, <1>6 DEF ServerInserts, ServerAnswers, ServerRefuses, hwVars
<1>7. CASE \/ HwFindsInvalid \/ HwChecksRedis \/ HwCannotSend \/ HwSends \/ HwRecords
           \/ HwSendUnclear \/ HwReports \/ HwGivesUp \/ HwGivesUpUnheard \/ HwCrashes
  <2>1. UNCHANGED <<nBatches, request>>
    BY <1>7 DEF HwFindsInvalid, HwChecksRedis, HwCannotSend, HwSends, HwRecords, HwSendUnclear,
         HwReports, HwGivesUp, HwGivesUpUnheard, HwCrashes, Broadcast, UpdateTransaction,
         ReportDies, MarkPending, GiveUp, vars, dbVars
  <2>2. hw' = HwIdle \/ (hw.pc \in {"check", "send", "sent"} /\ hw'.tx = hw.tx)
    BY <1>1, <1>7 DEF HwFindsInvalid, HwChecksRedis, HwCannotSend, HwSends, HwRecords,
         HwSendUnclear, HwReports, HwGivesUp, HwGivesUpUnheard, HwCrashes, Abandon, GoTo, At, HwState
  <2> QED BY <1>2, <2>1, <2>2
<1>8. CASE (\E a \in Awards : RedisSaves(a) \/ RedisExpires(a)) \/ OtherStep \/ UNCHANGED allVars
  BY <1>8, OtherLeaves DEF RedisSaves, RedisExpires, allVars, hwVars, vars, dbVars
<1> QED BY <1>3, <1>6, <1>7, <1>8 DEF HwNext, HwStep, HwGuardedStep, HwAccident

-----------------------------------------------------------------------------
(* The guard: which steps move the keys, the rows and the chain             *)

\* A step that broadcasts and inserts nothing, and begins no save.
LEMMA Quietly ==
  ASSUME GuardInv, UNCHANGED <<rows, nBatches>>,
         \A b \in Batches : OnChain(b)' <=> OnChain(b),
         \A r \in Requests : request'[r] = request[r] \/ request'[r].pc # "save"
  PROVE  AtMostOneBroadcast' /\ OnlyInserted'
  BY DEF GuardInv, AtMostOneBroadcast, OnlyInserted

\* The steps of a request.
LEMMA GuardRequest ==
  ASSUME GuardInv, HwTypeOK', NEW r \in Requests,
         HwAsks(r) \/ ServerInserts(r) \/ ServerAnswers(r) \/ ServerRefuses(r)
  PROVE  GuardInv'
<1> USE DEF GuardInv, OnlyInserted
<1>1. nBatches \in 0..MaxBatches /\ rows \in [Batches -> SUBSET Awards]
      /\ request \in [Requests -> RequestState]
  BY DEF HwTypeOK, TypeOK
<1>2. UNCHANGED <<chain, redis, unsaved>>
  BY DEF HwAsks, ServerInserts, ServerAnswers, ServerRefuses, CreateByHotWallet, Begin,
         InsertBatch, InsertBatchDies, SaveTransaction, SaveTransactionFails, hwVars
<1>3. \A b \in Batches : OnChain(b)' <=> OnChain(b)
  BY <1>2 DEF OnChain
<1>4. ServerInserts(r) \/ ServerRefuses(r) => hw' = hw \/ (hw' = HwIdle /\ At("asking"))
  BY DEF ServerInserts, ServerRefuses, AsksFirst, hwVars
<1>5. CASE HwAsks(r)
  <2>1. \E S : Begin(r, S)
    BY <1>5 DEF HwAsks, CreateByHotWallet
  <2>2. AtMostOneBroadcast' /\ OnlyInserted'
    BY <1>1, <1>3, <2>1, Quietly DEF Begin, dbVars
  <2>3. Holds' /\ AsksFirst' /\ NothingPending'
    BY <1>5 DEF HwAsks, Holds, AsksFirst, NothingPending, At, HwIdle
  <2>4. Remembered'
    BY <1>2, <1>3, <1>5, <2>1 DEF HwAsks, Begin, dbVars, Remembered, At
  <2> QED BY <2>2, <2>3, <2>4
<1>6. CASE (ServerInserts(r) \/ ServerRefuses(r)) /\ (InsertBatch(r) \/ InsertBatchDies(r))
  <2>1. nBatches' = nBatches + 1 /\ nBatches' \in 0..MaxBatches
    BY <1>1, <1>6, ConstantsAssumption DEF InsertBatch, InsertBatchDies
  <2>2. \A b \in 1..nBatches : b \in Batches /\ rows'[b] = rows[b]
    BY <1>1, <1>6, ConstantsAssumption DEF InsertBatch, InsertBatchDies, Batches
  <2>3. \A b \in Batches : OnChain(b) => b \in 1..nBatches
    BY <1>1 DEF Batches
  <2>4. OnlyInserted'
    <3>1. \A q \in Requests : request'[q].pc = "save" => request'[q].batch \in 1..nBatches'
      BY <1>1, <1>6, <2>1 DEF InsertBatch, InsertBatchDies, RequestState, Idle
    <3> QED BY <1>1, <1>3, <2>1, <2>3, <3>1
  <2>5. AtMostOneBroadcast'
    BY <1>3, <2>2, <2>3 DEF AtMostOneBroadcast
  <2>6. hw' = hw \/ (hw' = HwIdle /\ At("asking"))
    BY <1>6, <1>4
  <2>7. Holds' /\ AsksFirst'
    BY <1>1, <2>1, <2>6 DEF Holds, AsksFirst, At, HwIdle
  <2>8. NothingPending' /\ Remembered'
    BY <1>2, <1>3, <2>2, <2>3, <2>6 DEF NothingPending, Remembered, Holds, At, HwIdle
  <2> QED BY <2>4, <2>5, <2>7, <2>8
<1>7. CASE ServerAnswers(r) \/ (ServerRefuses(r) /\ SaveTransactionFails(r))
  <2>1. UNCHANGED <<rows, nBatches>> /\ request' = [request EXCEPT ![r] = Idle]
    BY <1>7 DEF ServerAnswers, SaveTransaction, SaveTransactionFails, dbVars
  <2>2. AtMostOneBroadcast' /\ OnlyInserted'
    BY <1>1, <1>3, <2>1, Quietly DEF Idle
  <2>3. \/ hw' = hw
        \/ /\ At("asking")
           /\ \/ hw' = HwIdle
              \/ hw' = [HwIdle EXCEPT !.pc = "check", !.tx = request[r].batch]
    BY <1>7, <1>4 DEF ServerAnswers, AsksFirst
  <2>4. request[r].batch \in 1..nBatches
    BY <1>7 DEF ServerAnswers, SaveTransaction, SaveTransactionFails
  <2>5. Holds' /\ AsksFirst' /\ NothingPending'
    <3>1. CASE hw' = hw
      BY <1>2, <2>1, <3>1 DEF Holds, AsksFirst, NothingPending, At
    <3>2. CASE hw' = HwIdle
      BY <3>2 DEF Holds, AsksFirst, NothingPending, At, HwIdle
    <3>3. CASE hw' = [HwIdle EXCEPT !.pc = "check", !.tx = request[r].batch]
      BY <2>1, <2>4, <3>3 DEF Holds, AsksFirst, NothingPending, At, HwIdle
    <3> QED BY <2>3, <3>1, <3>2, <3>3
  <2>6. Remembered'
    BY <1>2, <1>3, <2>1, <2>3 DEF Remembered, At
  <2> QED BY <2>2, <2>5, <2>6
<1> QED BY <1>5, <1>6, <1>7 DEF ServerInserts, ServerRefuses

\* The steps of the wallet that hold a batch: reporting, sending, giving up.
LEMMA GuardWallet ==
  ASSUME GuardInv, HwTypeOK', KeysAreKept,
         \/ HwFindsInvalid \/ HwChecksRedis \/ HwCannotSend \/ HwSends \/ HwRecords
         \/ HwSendUnclear \/ HwReports \/ HwGivesUp \/ HwGivesUpUnheard \/ HwCrashes
  PROVE  GuardInv'
<1> USE DEF GuardInv
<1>1. rows \in [Batches -> SUBSET Awards] /\ chain \in [Batches -> ChainStates]
      /\ hw \in HwState /\ nBatches \in 0..MaxBatches
  BY DEF HwTypeOK, TypeOK
<1>2. UNCHANGED <<rows, nBatches, request>>
  BY DEF HwFindsInvalid, HwChecksRedis, HwCannotSend, HwSends, HwRecords, HwSendUnclear,
         HwReports, HwGivesUp, HwGivesUpUnheard, HwCrashes, Broadcast, UpdateTransaction, ReportDies,
         MarkPending, GiveUp, vars, dbVars
<1>3. CASE HwSends
  <2>1. hw.tx \in Batches /\ hw.tx \in 1..nBatches /\ hw.pc = "send" /\ unsaved = {}
    BY <1>1, <1>3, ConstantsAssumption DEF HwSends, At, Holds, Batches, NothingPending
  <2>2. hw' = [hw EXCEPT !.pc = "sent"] /\ UNCHANGED <<redis, unsaved>>
    BY <1>3 DEF HwSends, GoTo
  <2>3. \A b \in Batches : OnChain(b)' <=> OnChain(b) \/ b = hw.tx
    BY <1>1, <1>3, <2>1 DEF HwSends, Broadcast, OnChain
  <2>4. \A b \in Batches : OnChain(b) => rows[b] \cap rows[hw.tx] = {}
    BY <2>1 DEF Remembered, NothingPending, At
  <2>5. AtMostOneBroadcast'
    BY <1>2, <2>1, <2>3, <2>4 DEF AtMostOneBroadcast
  <2>6. OnlyInserted'
    BY <1>2, <2>1, <2>3 DEF OnlyInserted
  <2>7. Holds' /\ AsksFirst' /\ NothingPending'
    BY <1>1, <1>2, <2>1, <2>2 DEF Holds, AsksFirst, NothingPending, At, HwState
  <2>8. Remembered'
    BY <1>1, <1>2, <2>1, <2>2, <2>3 DEF Remembered, At, HwState
  <2> QED BY <2>5, <2>6, <2>7, <2>8
<1>4. CASE ~HwSends
  <2>1. \A b \in Batches : OnChain(b)' <=> OnChain(b)
    BY <1>4 DEF HwFindsInvalid, HwChecksRedis, HwCannotSend, HwRecords, HwSendUnclear,
         HwReports, HwGivesUp, HwGivesUpUnheard, HwCrashes, UpdateTransaction, ReportDies,
         MarkPending, GiveUp, vars, OnChain
  <2>2. AtMostOneBroadcast' /\ OnlyInserted'
    BY <1>2, <2>1, Quietly
  <2>3. CASE HwFindsInvalid \/ HwCannotSend \/ HwChecksRedis
    <3>1. UNCHANGED <<redis, unsaved>> /\ hw.pc \in {"check", "send"}
      BY <2>3 DEF HwFindsInvalid, HwCannotSend, HwChecksRedis, At
    <3>2. \/ /\ hw'.pc = "abandon" /\ hw'.tx = hw.tx /\ hw'.req = hw.req
          \/ /\ hw'.pc = "send" /\ hw'.tx = hw.tx /\ hw'.req = hw.req
             /\ unsaved = {} /\ rows[hw.tx] \cap redis = {}
      BY <1>1, <2>3 DEF HwFindsInvalid, HwCannotSend, HwChecksRedis, Abandon, GoTo, HwState
    <3>3. Holds' /\ AsksFirst' /\ NothingPending' /\ Remembered'
      BY <1>2, <2>1, <3>1, <3>2 DEF Holds, AsksFirst, NothingPending, Remembered, At
    <3> QED BY <2>2, <3>3
  <2>4. CASE HwRecords
    <3>1. /\ hw.pc = "sent" /\ unsaved = {} /\ unsaved' = rows[hw.tx] /\ redis' = redis
          /\ hw'.pc = "report" /\ hw'.tx = hw.tx /\ hw'.req = hw.req
      BY <1>1, <2>4 DEF HwRecords, GoTo, At, HwState, NothingPending
    <3>2. Holds' /\ AsksFirst' /\ NothingPending' /\ Remembered'
      BY <1>2, <2>1, <3>1 DEF Holds, AsksFirst, NothingPending, Remembered, At
    <3> QED BY <2>2, <3>2
  <2>5. CASE HwReports \/ HwGivesUp \/ HwGivesUpUnheard \/ HwCrashes
    <3>1. hw.pc # "sent" /\ hw' = HwIdle /\ UNCHANGED <<redis, unsaved>>
      BY <2>5 DEF HwReports, HwGivesUp, HwGivesUpUnheard, HwCrashes, KeysAreKept, Unrecorded, At
    <3>2. Holds' /\ AsksFirst' /\ NothingPending' /\ Remembered'
      BY <1>2, <2>1, <3>1 DEF Holds, AsksFirst, NothingPending, Remembered, At, HwIdle
    <3> QED BY <2>2, <3>2
  <2>6. CASE HwSendUnclear
    BY <2>6 DEF HwSendUnclear, KeysAreKept
  <2> QED BY <1>4, <2>3, <2>4, <2>5, <2>6
<1> QED BY <1>3, <1>4

\* The steps that leave the wallet's loop where it is.
LEMMA GuardOther ==
  ASSUME GuardInv, HwTypeOK', KeysAreKept,
         \/ \E a \in Awards : RedisSaves(a) \/ RedisExpires(a)
         \/ OtherStep
         \/ UNCHANGED allVars
  PROVE  GuardInv'
<1> USE DEF GuardInv
<1>1. /\ UNCHANGED <<rows, nBatches, request, hw>>
      /\ \A b \in Batches : OnChain(b)' <=> OnChain(b)
  BY OtherLeaves DEF RedisSaves, RedisExpires, allVars, hwVars, vars, dbVars, OnChain
<1>2. AtMostOneBroadcast' /\ OnlyInserted'
  BY <1>1, Quietly
<1>3. Holds' /\ AsksFirst'
  BY <1>1 DEF Holds, AsksFirst, At
<1>4. \/ UNCHANGED <<redis, unsaved>>
      \/ /\ unsaved # {}
         /\ redis' \cup unsaved' = redis \cup unsaved
  BY DEF RedisSaves, RedisExpires, KeysAreKept, OtherStep, allVars, hwVars
<1>5. Remembered'
  BY <1>1, <1>4 DEF Remembered, At
<1>6. NothingPending'
  BY <1>1, <1>4 DEF NothingPending, At
<1> QED BY <1>2, <1>3, <1>5, <1>6

\* Nothing is under way at first.
LEMMA GuardInit == HwInit => GuardInv /\ HoldBatches
<1> SUFFICES ASSUME HwInit PROVE GuardInv /\ HoldBatches
  OBVIOUS
<1>1. TypeInv
  BY TypeInit DEF HwInit
<1>2. HwIdle \in HwState
  BY ConstantsAssumption DEF HwIdle, HwState
<1>3. HwTypeOK /\ HoldBatches
  BY <1>1, <1>2 DEF HwInit, HwTypeOK, TypeInv
<1>4. Holds /\ AsksFirst /\ NothingPending
  BY DEF HwInit, HwIdle, Holds, AsksFirst, NothingPending, At
<1>5. OnlyInserted /\ Remembered /\ AtMostOneBroadcast
  BY DEF HwInit, Init, OnChain, OnlyInserted, Remembered, AtMostOneBroadcast, Idle
<1> QED BY <1>3, <1>4, <1>5 DEF GuardInv

\* No step opens the guard.
LEMMA GuardStep ==
  ASSUME GuardInv, HoldBatches, KeysAreKept, [HwNext]_allVars
  PROVE  GuardInv' /\ HoldBatches'
<1>1. HwTypeOK' /\ HoldBatches'
  BY HwTypeStep DEF GuardInv
<1>2. GuardInv'
  BY <1>1, GuardRequest, GuardWallet, GuardOther DEF HwNext, HwStep, HwGuardedStep, HwAccident
<1> QED BY <1>1, <1>2

\* Whatever answers, reports and calls are lost, whatever the wallet finds or
\* fails at, whenever it dies with nothing unrecorded on the chain, and
\* whatever the server and people do meanwhile: no award is broadcast twice.
THEOREM BroadcastOnce == ASSUME KeysAreKept PROVE HwSpec => []AtMostOneBroadcast
<1>1. GuardInv /\ HoldBatches /\ [HwNext]_allVars => GuardInv' /\ HoldBatches'
  BY GuardStep
<1>2. GuardInv => AtMostOneBroadcast
  BY DEF GuardInv
<1> QED BY <1>1, <1>2, GuardInit, PTL DEF HwSpec

-----------------------------------------------------------------------------
(* The refinement: server and wallet implement Payments                     *)

\* What the steps of the composition rest on, taken together.
PaymentInv == GuardInv /\ HoldBatches /\ ConfirmationInv

\* The settled awards stay as they are, a worker pays one and knows a
\* transaction on the chain that carries it, or people pay one by hand.
LEMMA SettledSteps ==
  ASSUME PaymentInv, HwNext \/ UNCHANGED allVars
  PROVE  \/ UNCHANGED <<Settled, byHand>>
         \/ \E a \in Awards : /\ Carriers[a] # {} /\ Settled' = Settled \cup {a}
                             /\ UNCHANGED byHand
         \/ \E a \in Awards : /\ a \notin Settled /\ Settled' = Settled \cup {a}
                             /\ byHand' = byHand \cup {a}
<1> USE DEF PaymentInv
<1>1. TypeInv /\ award \in [Awards -> AwardStatus]
  BY DEF GuardInv, HwTypeOK, TypeInv, TypeOK
<1>2. [Next]_vars
  BY ServerSteps DEF GuardInv, allVars
<1>3. ASSUME NEW w \in Workers, JobPaysAward(w)
      PROVE  \E a \in Awards : Carriers[a] # {} /\ Settled' = Settled \cup {a} /\ UNCHANGED byHand
  <2>1. PICK a \in worker[w].todo : award' = [award EXCEPT ![a] = "paid"]
    BY <1>3 DEF JobPaysAward
  <2>2. worker[w].tx \in Batches /\ chain[worker[w].tx] = "valid" /\ a \in rows[worker[w].tx]
    BY <1>3, <2>1 DEF JobPaysAward, HoldBatches, ConfirmationInv, JobKnows
  <2>3. a \in Awards
    BY <2>2 DEF GuardInv, HwTypeOK, TypeOK
  <2>4. worker[w].tx \in Carriers[a]
    BY <2>2, <2>3 DEF Carriers, OnChain
  <2>5. Settled' = Settled \cup {a}
    BY <1>1, <2>1, <2>3 DEF Settled
  <2> QED BY <1>3, <2>3, <2>4, <2>5 DEF JobPaysAward
<1>4. CASE UNCHANGED <<award, byHand>>
  BY <1>4 DEF Settled
<1>5. ASSUME NEW a \in Awards, CancelAward(a) PROVE UNCHANGED <<Settled, byHand>>
  BY <1>1, <1>5 DEF CancelAward, Settled
<1>6. ASSUME NEW a \in Awards, UpdateTransactionAddress(a)
      PROVE  a \notin Settled /\ Settled' = Settled \cup {a} /\ byHand' = byHand \cup {a}
  BY <1>1, <1>6 DEF UpdateTransactionAddress, Settled
<1>7. CASE ~UNCHANGED <<award, byHand>>
  <2> DEFINE Kept == UNCHANGED <<award, byHand>>
  <2>1. ASSUME NEW r \in Requests, CreateStep(r) PROVE Kept
    BY <2>1 DEF CreateStep, CreateByHotWallet, CreateCustom, SignNew, Begin, InsertBatch,
                InsertBatchDies, SaveTransaction, SaveTransactionFails, dbVars
  <2>2. ASSUME NEW w \in Workers, NEW b \in Batches, JobBegin(w, b) PROVE Kept
    BY <2>2 DEF JobBegin, dbVars
  <2>3. ASSUME NEW w \in Workers, JobStep(w) \/ WorkerDies(w)
        PROVE  Kept \/ JobPaysAward(w)
    BY <2>3 DEF JobStep, JobAsksChain, JobSucceeds, JobFails, JobStopsPaying, JobCounts,
                WorkerDies, dbVars
  <2>4. ASSUME NEW b \in Batches, ReportStep(b) \/ Broadcast(b) \/ Mine(b) \/ Expire(b)
        PROVE  Kept
    BY <2>4 DEF ReportStep, UpdateTransaction, ReportDies, SignReceive, DestroyTransaction, SignReceiveError,
                MarkPending, GiveUp, Broadcast, Mine, Expire, dbVars
  <2>5. ASSUME PeopleStep
        PROVE  Kept \/ \E a \in Awards : CancelAward(a) \/ UpdateTransactionAddress(a)
    BY <2>5 DEF PeopleStep, Prioritize, SetMode
  <2>6. UNCHANGED vars => Kept
    BY DEF vars, dbVars
  <2> QED BY <1>2, <1>3, <1>5, <1>6, <1>7, <2>1, <2>2, <2>3, <2>4, <2>5, <2>6
          DEF Next, ServerStep
<1> QED BY <1>4, <1>7

\* Only HwSends puts a transaction on the chain, and no transaction that is
\* there ever gets or loses an award.
LEMMA ChainSteps ==
  ASSUME GuardInv, HwNext \/ UNCHANGED allVars, ~HwSends
  PROVE  \A b \in Batches : /\ OnChain(b)' <=> OnChain(b)
                            /\ OnChain(b) => rows'[b] = rows[b]
<1> SUFFICES ASSUME NEW b \in Batches
             PROVE  (OnChain(b)' <=> OnChain(b)) /\ (OnChain(b) => rows'[b] = rows[b])
  OBVIOUS
<1>1. OnChain(b) => b <= nBatches
  BY DEF GuardInv, OnlyInserted
<1>2. TypeOK
  BY DEF GuardInv, HwTypeOK
<1>3. ASSUME NEW r \in Requests, CreateStep(r)
      PROVE chain' = chain /\ (OnChain(b) => rows'[b] = rows[b])
  <2>1. CASE InsertBatch(r) \/ InsertBatchDies(r)
    BY <1>1, <1>2, <2>1, ConstantsAssumption DEF InsertBatch, InsertBatchDies, TypeOK, Batches
  <2>2. CASE ~(InsertBatch(r) \/ InsertBatchDies(r))
    BY <1>3, <2>2 DEF CreateStep, CreateByHotWallet, CreateCustom, SignNew, Begin,
                      SaveTransaction, SaveTransactionFails, dbVars
  <2> QED BY <2>1, <2>2
<1>4. ASSUME NEW w \in Workers,
             JobStep(w) \/ WorkerDies(w) \/ \E c \in Batches : JobBegin(w, c)
      PROVE UNCHANGED <<rows, chain>>
  BY <1>4 DEF JobStep, JobAsksChain, JobSucceeds, JobFails, JobPaysAward, JobStopsPaying,
              JobCounts, WorkerDies, JobBegin, dbVars
<1>5. PeopleStep => UNCHANGED <<rows, chain>>
  BY DEF PeopleStep, Prioritize, CancelAward, UpdateTransactionAddress, SetMode
<1>6. ASSUME NEW c \in Batches, Mine(c) \/ Expire(c)
      PROVE UNCHANGED rows /\ (OnChain(b)' <=> OnChain(b))
  BY <1>2, <1>6 DEF Mine, Expire, dbVars, OnChain, TypeOK
<1>7. CASE OtherStep
  BY <1>4, <1>5, <1>6, <1>7 DEF OtherStep, OnChain
<1>8. ASSUME NEW r \in Requests,
             HwAsks(r) \/ ServerInserts(r) \/ ServerAnswers(r) \/ ServerRefuses(r)
      PROVE CreateStep(r)
  BY <1>8 DEF HwAsks, ServerInserts, ServerAnswers, ServerRefuses, CreateStep
<1>9. CASE HwReports \/ HwGivesUp
  BY <1>9 DEF HwReports, HwGivesUp, UpdateTransaction, ReportDies, MarkPending, GiveUp, vars, dbVars, OnChain
<1>10. CASE UNCHANGED vars
  BY <1>10 DEF vars, dbVars, OnChain
<1> QED BY <1>3, <1>7, <1>8, <1>9, <1>10
        DEF HwNext, HwStep, HwGuardedStep, HwAccident, OnChain, allVars, HwFindsInvalid, HwChecksRedis, HwCannotSend,
            HwRecords, HwSendUnclear, HwGivesUpUnheard, HwCrashes, RedisSaves, RedisExpires

\* The server and the wallet implement Payments: they put an award on the chain
\* at most once and mark it as paid only after that or by hand, under the same
\* faults.
THEOREM PaymentsImplemented == ASSUME KeysAreKept PROVE HwSpec => ImplementsPayments
<1>1. HwInit => PaymentInv /\ P!Init
  <2> SUFFICES ASSUME HwInit PROVE PaymentInv /\ P!Init
    OBVIOUS
  <2>1. PaymentInv
    BY GuardInit, ConfirmationInit DEF HwInit, PaymentInv
  <2>2. Carriers = [a \in Awards |-> {}] /\ Settled = {} /\ byHand = {}
    BY DEF HwInit, Init, Carriers, Settled, OnChain
  <2> QED BY <2>1, <2>2 DEF P!Init
<1>2. PaymentInv /\ [HwNext]_allVars => PaymentInv'
  <2> SUFFICES ASSUME PaymentInv, [HwNext]_allVars PROVE PaymentInv'
    OBVIOUS
  <2>1. TypeInv /\ [Next]_vars
    BY ServerSteps DEF PaymentInv, GuardInv, HwTypeOK, TypeInv, allVars
  <2> QED BY <2>1, GuardStep, ConfirmationStep DEF PaymentInv
<1>3. PaymentInv /\ [HwNext]_allVars => [P!Next]_(P!payVars)
  <2> SUFFICES ASSUME PaymentInv, [HwNext]_allVars PROVE [P!Next]_(P!payVars)
    OBVIOUS
  <2>1. CASE HwSends
    <3>1. /\ hw.tx \in Batches /\ hw.pc = "send" /\ unsaved = {}
          /\ rows[hw.tx] \cap redis = {}
          /\ rows \in [Batches -> SUBSET Awards] /\ chain \in [Batches -> ChainStates]
      BY <2>1, ConstantsAssumption
         DEF HwSends, At, PaymentInv, GuardInv, HwTypeOK, TypeOK, Holds, Batches, NothingPending
    <3>2. \A b \in Batches : OnChain(b) => rows[b] \cap rows[hw.tx] = {}
      BY <3>1 DEF PaymentInv, GuardInv, Remembered, At
    <3>3. \A b \in Batches : OnChain(b)' <=> OnChain(b) \/ b = hw.tx
      BY <2>1, <3>1 DEF HwSends, Broadcast, OnChain
    <3>4. UNCHANGED <<rows, award, byHand>>
      BY <2>1 DEF HwSends, Broadcast, dbVars
    <3>5. \A a \in rows[hw.tx] : Carriers[a] = {}
      BY <3>1, <3>2 DEF Carriers
    <3>6. Carriers' = [a \in Awards |-> IF a \in rows[hw.tx] THEN {hw.tx} ELSE Carriers[a]]
      BY <3>1, <3>2, <3>3, <3>4 DEF Carriers
    <3>7. P!Deliver(hw.tx, rows[hw.tx])
      BY <3>4, <3>5, <3>6 DEF P!Deliver, Settled
    <3> QED BY <3>1, <3>7 DEF P!Next
  <2>2. CASE ~HwSends
    <3>1. Carriers' = Carriers
      <4>1. ASSUME NEW a \in Awards, NEW b \in Batches
            PROVE  (a \in rows'[b] /\ OnChain(b)') <=> (a \in rows[b] /\ OnChain(b))
        BY <2>2, ChainSteps DEF PaymentInv
      <4> QED BY <4>1 DEF Carriers
    <3>2. CASE UNCHANGED <<Settled, byHand>>
      BY <3>1, <3>2 DEF P!payVars
    <3>3. ASSUME NEW a \in Awards, Carriers[a] # {}, Settled' = Settled \cup {a}, UNCHANGED byHand
          PROVE  P!Next
      BY <3>1, <3>3 DEF P!Settle, P!Next
    <3>4. ASSUME NEW a \in Awards, a \notin Settled, Settled' = Settled \cup {a},
                 byHand' = byHand \cup {a}
          PROVE  P!Next
      BY <3>1, <3>4 DEF P!SettleByHand, P!Next
    <3> QED BY <3>2, <3>3, <3>4, SettledSteps
  <2> QED BY <2>1, <2>2
<1> QED BY <1>1, <1>2, <1>3, PTL DEF HwSpec, ImplementsPayments, P!Spec

\* What Payments promises of any carriers and settlements.
LEMMA PaymentsPromise == P!Spec => [](P!AtMostOnce /\ P!SettledWasDelivered)
<1>0. Settled \subseteq Awards
  BY DEF Settled
<1>1. P!Init => P!AtMostOnce /\ P!SettledWasDelivered
  BY DEF P!Init, P!AtMostOnce, P!SettledWasDelivered
<1>2. P!AtMostOnce /\ P!SettledWasDelivered /\ [P!Next]_(P!payVars) =>
        (P!AtMostOnce /\ P!SettledWasDelivered)'
  <2> SUFFICES ASSUME P!AtMostOnce, P!SettledWasDelivered, P!Next \/ UNCHANGED P!payVars
               PROVE  (P!AtMostOnce /\ P!SettledWasDelivered)'
    OBVIOUS
  <2>1. ASSUME NEW t \in Batches, NEW S \in SUBSET Awards, P!Deliver(t, S)
        PROVE  (P!AtMostOnce /\ P!SettledWasDelivered)'
    <3>1. /\ \A a \in Awards : Carriers'[a] = IF a \in S THEN {t} ELSE Carriers[a]
          /\ Settled' = Settled /\ byHand' = byHand
      BY <2>1 DEF P!Deliver
    <3>2. P!AtMostOnce'
      BY <3>1 DEF P!AtMostOnce
    <3>3. P!SettledWasDelivered'
      BY <1>0, <3>1 DEF P!SettledWasDelivered
    <3> QED BY <3>2, <3>3
  <2>2. ASSUME NEW a \in Awards, P!Settle(a)
        PROVE  (P!AtMostOnce /\ P!SettledWasDelivered)'
    BY <2>2 DEF P!Settle, P!AtMostOnce, P!SettledWasDelivered
  <2>3. ASSUME NEW a \in Awards, P!SettleByHand(a)
        PROVE  (P!AtMostOnce /\ P!SettledWasDelivered)'
    BY <2>3 DEF P!SettleByHand, P!AtMostOnce, P!SettledWasDelivered
  <2>4. CASE UNCHANGED P!payVars
    BY <2>4 DEF P!payVars, P!AtMostOnce, P!SettledWasDelivered
  <2> QED BY <2>1, <2>2, <2>3, <2>4 DEF P!Next
<1> QED BY <1>1, <1>2, PTL DEF P!Spec

\* So one transaction at most carries an award, and an award that is marked as
\* paid was put on the chain or people marked it, whatever answers, calls and
\* processes of the guarded kinds get lost in between.
COROLLARY PaidIsCarriedOnce ==
  ASSUME KeysAreKept PROVE HwSpec => [](P!AtMostOnce /\ P!SettledWasDelivered)
<1>1. HwSpec => P!Spec
  BY PaymentsImplemented DEF ImplementsPayments
<1> QED BY <1>1, PaymentsPromise

-----------------------------------------------------------------------------
(* What the server guarantees carries over                                   *)

\* Types and what the wallet holds, under every fault.
LoopInv == HwTypeOK /\ HoldBatches /\ Holds /\ Saving

LEMMA LoopInvKept == HwSpec => []LoopInv
<1>1. HwInit => LoopInv
  BY GuardInit DEF GuardInv, Saving, OnlyInserted, LoopInv
<1>2. LoopInv /\ [HwNext]_allVars => LoopInv'
  BY HwTypeStep, HeldStep DEF LoopInv
<1> QED BY <1>1, <1>2, PTL DEF HwSpec

\* With the wallet beside it, the server still does what it does alone.
THEOREM LoopRunsServer == HwSpec => Spec
<1>1. HwInit => Init
  BY DEF HwInit
<1>2. LoopInv /\ [HwNext]_allVars => [Next]_vars
  BY ServerSteps DEF LoopInv, allVars
<1> QED BY <1>1, <1>2, LoopInvKept, PTL DEF HwSpec, Spec

\* So with the wallet and all its faults at work as well, a confirmed payment
\* is taken back only by those who have not seen it.
COROLLARY WalletSuccessIsLostUnseen == HwSpec => SuccessIsOverwrittenUnseen
BY LoopRunsServer, SuccessIsLostUnseen

-----------------------------------------------------------------------------
(* What the keys are worth under every fault                                *)

\* A broadcast leaves its batch with a wallet that has found no key for it,
\* while nothing else is being written.
LEMMA NothingPendingStep ==
  ASSUME LoopInv, NothingPending, HwNext \/ UNCHANGED allVars
  PROVE  NothingPending'
<1> USE DEF NothingPending, At
<1>1. /\ hw \in HwState /\ nBatches \in 0..MaxBatches /\ rows \in [Batches -> SUBSET Awards]
      /\ hw.pc \in {"send", "sent"} => hw.tx \in 1..nBatches /\ hw.tx \in Batches
  BY ConstantsAssumption DEF LoopInv, HwTypeOK, TypeOK, Holds, Batches
<1>2. ASSUME NEW r \in Requests,
             HwAsks(r) \/ ServerInserts(r) \/ ServerAnswers(r) \/ ServerRefuses(r)
      PROVE  NothingPending'
  <2>1. /\ UNCHANGED <<redis, unsaved>>
        /\ hw' = hw \/ hw'.pc \notin {"send", "sent"}
    <3>1. CASE HwAsks(r)
      BY <3>1 DEF HwAsks, HwIdle
    <3>2. CASE ServerInserts(r)
      BY <3>2 DEF ServerInserts, hwVars
    <3>3. CASE ServerAnswers(r)
      <4>1. CASE hw' = [HwIdle EXCEPT !.pc = "check", !.tx = request[r].batch]
        BY <3>3, <4>1 DEF ServerAnswers, HwIdle
      <4>2. CASE hw' = HwIdle
        BY <3>3, <4>2 DEF ServerAnswers, HwIdle
      <4>3. CASE hw' = hw
        BY <3>3, <4>3 DEF ServerAnswers
      <4> QED BY <3>3, <4>1, <4>2, <4>3 DEF ServerAnswers
    <3>4. CASE ServerRefuses(r)
      BY <3>4 DEF ServerRefuses, HwIdle
    <3> QED BY <1>2, <3>1, <3>2, <3>3, <3>4
  <2>2. \A b \in 1..nBatches : rows'[b] = rows[b]
    <3>1. CASE InsertBatch(r) \/ InsertBatchDies(r)
      BY <1>1, <3>1, ConstantsAssumption DEF InsertBatch, InsertBatchDies, Batches
    <3>2. CASE ~(InsertBatch(r) \/ InsertBatchDies(r))
      BY <1>2, <3>2 DEF HwAsks, ServerInserts, ServerAnswers, ServerRefuses, CreateByHotWallet, Begin,
                        SaveTransaction, SaveTransactionFails, dbVars
    <3> QED BY <3>1, <3>2
  <2> QED BY <1>1, <2>1, <2>2
<1>3. CASE HwChecksRedis
  BY <1>1, <1>3 DEF HwChecksRedis, GoTo, Abandon, HwState, vars, dbVars
<1>4. CASE HwSends
  BY <1>1, <1>4 DEF HwSends, GoTo, HwState
<1>5. CASE HwFindsInvalid \/ HwCannotSend \/ HwSendUnclear
  BY <1>1, <1>5 DEF HwFindsInvalid, HwCannotSend, HwSendUnclear, Abandon, HwState
<1>6. CASE HwRecords
  BY <1>1, <1>6 DEF HwRecords, GoTo, HwState
<1>7. CASE HwReports \/ HwGivesUp \/ HwGivesUpUnheard \/ HwCrashes
  BY <1>7 DEF HwReports, HwGivesUp, HwGivesUpUnheard, HwCrashes, HwIdle
<1>8. CASE \E a \in Awards : RedisSaves(a) \/ RedisExpires(a)
  BY <1>8 DEF RedisSaves, RedisExpires, vars, dbVars
<1>9. CASE OtherStep \/ UNCHANGED allVars
  <2>1. UNCHANGED <<rows, hw>>
    BY <1>9, OtherLeaves DEF LoopInv, allVars, hwVars, vars, dbVars
  <2>2. UNCHANGED <<redis, unsaved>>
    BY <1>9 DEF OtherStep, allVars, hwVars
  <2> QED BY <2>1, <2>2
<1> QED BY <1>2, <1>3, <1>4, <1>5, <1>6, <1>7, <1>8, <1>9 DEF HwNext, HwStep, HwGuardedStep, HwAccident

\* Only HwSends broadcasts.
LEMMA OnlySends ==
  ASSUME LoopInv, HwNext, NEW b \in Batches, ~OnChain(b), OnChain(b)'
  PROVE  HwSends /\ b = hw.tx
<1>1. chain \in [Batches -> ChainStates]
  BY DEF LoopInv, HwTypeOK, TypeOK
<1>2. ASSUME NEW r \in Requests,
             HwAsks(r) \/ ServerInserts(r) \/ ServerAnswers(r) \/ ServerRefuses(r)
      PROVE  UNCHANGED chain
  BY <1>2 DEF HwAsks, ServerInserts, ServerAnswers, ServerRefuses, CreateByHotWallet, Begin,
              InsertBatch, InsertBatchDies, SaveTransaction, SaveTransactionFails
<1>3. CASE OtherStep
  BY <1>3, OtherLeaves DEF LoopInv
<1>4. CASE HwSends
  BY <1>1, <1>4 DEF HwSends, Broadcast, OnChain
<1>5. CASE \/ HwFindsInvalid \/ HwChecksRedis \/ HwCannotSend \/ HwRecords \/ HwSendUnclear
           \/ HwReports \/ HwGivesUp \/ HwGivesUpUnheard \/ HwCrashes
           \/ \E a \in Awards : RedisSaves(a) \/ RedisExpires(a)
  <2>1. UNCHANGED chain
    BY <1>5 DEF HwFindsInvalid, HwChecksRedis, HwCannotSend, HwRecords, HwSendUnclear, HwReports,
         HwGivesUp, HwGivesUpUnheard, HwCrashes, RedisSaves, RedisExpires, UpdateTransaction,
         ReportDies, MarkPending, GiveUp, vars, dbVars
  <2> QED BY <2>1 DEF OnChain
<1> QED BY <1>2, <1>3, <1>4, <1>5 DEF HwNext, HwStep, HwGuardedStep, HwAccident, OnChain

\* Without any assumption on the faults: the wallet broadcasts an award again
\* only when no key of it is in Redis or on its way there. The guard is as
\* good as the memory of Redis, and nothing between reading and sending, no
\* late write and no request of an earlier life of the process, gets past it.
THEOREM OnlyForgottenIsResent == HwSpec => ResendsOnlyForgotten
<1>1. HwInit => NothingPending
  BY DEF HwInit, HwIdle, NothingPending, At
<1>2. LoopInv /\ NothingPending /\ [HwNext]_allVars => NothingPending'
  BY NothingPendingStep
<1>3. ASSUME LoopInv, NothingPending, HwNext, NEW b \in Batches, NEW c \in Batches,
             ~OnChain(b), OnChain(b)'
      PROVE  rows[b] \cap rows[c] \cap (redis \cup unsaved) = {}
  BY <1>3, OnlySends DEF NothingPending, HwSends, At
<1>4. LoopInv /\ NothingPending /\ [HwNext]_allVars =>
        [\A b, c \in Batches : b # c /\ OnChain(c) /\ ~OnChain(b) /\ OnChain(b)'
           => rows[b] \cap rows[c] \cap (redis \cup unsaved) = {}]_allVars
  BY <1>3
<1> QED BY <1>1, <1>2, <1>4, LoopInvKept, PTL DEF HwSpec, ResendsOnlyForgotten

-----------------------------------------------------------------------------
(* The whole process: every step of it is a step of the loop or leaves the *)
(* loop alone, so that what is proved of the loop holds of the process; and *)
(* registering before saving keeps the wallet in Redis the registered one.  *)

\* The process and its keys, as far as the registration depends on them.
ProcTyped == proc \in ProcState /\ nKeys \in 0..MaxKeys

\* A wallet is registered only while Redis has none, it is saved only as it
\* was registered, and the loop runs only with a wallet in Redis.
RegistrationInv ==
  /\ ProcTyped
  /\ InProcess("register") => proc.key # 0 /\ saved = 0
  /\ InProcess("save") => proc.key # 0 /\ saved = 0 /\ registered = proc.key
  /\ saved # 0 => registered = saved
  /\ Running => saved # 0

\* Steps that move the process on and leave the registration as it is.
Onwards ==
  /\ UNCHANGED <<nKeys, registered, saved>>
  /\ \/ UNCHANGED proc \/ proc' = Down
     \/ Running /\ \E pc \in {"loop", "prepare", "tokens", "ask", "asked"} : Move(pc)

\* Every step but the three of the initialization is one of those.
LEMMA OnwardsSteps ==
  ASSUME PwNext, ~Starts, ~Registers, ~SavesKeys
  PROVE  Onwards
<1> USE DEF Onwards, Running, InProcess
<1>1. CASE SeesCoins \/ SyncsOptIns \/ OptsIn \/ SkipsApproval \/ ThrowsOnApproval
  BY <1>1 DEF SeesCoins, SyncsOptIns, OptsIn, SkipsApproval, ThrowsOnApproval
<1>2. CASE Approves \/ SeesTokens \/ GetsNothing
  BY <1>2 DEF Approves, SeesTokens, GetsNothing
<1>3. CASE (\E r \in Requests : Asks(r)) \/ GoesOn
  BY <1>3 DEF Asks, GoesOn
<1>4. CASE GoesOnBeside \/ Dies \/ Redeploys
  BY <1>4 DEF GoesOnBeside, ownVars, Dies, Redeploys
<1> QED BY <1>1, <1>2, <1>3, <1>4 DEF PwNext

-----------------------------------------------------------------------------
(* The process implements the loop                                          *)

\* A step of the process is one of the loop, or the loop does not see it.
LEMMA LoopSteps == PwNext => [HwNext]_allVars
<1> USE DEF HwNext, HwStep, HwGuardedStep, HwAccident
<1>1. CASE Starts \/ Registers \/ SavesKeys
  BY <1>1 DEF Starts, Registers, SavesKeys
<1>2. CASE SeesCoins \/ SyncsOptIns \/ OptsIn \/ Approves
  BY <1>2 DEF SeesCoins, SyncsOptIns, OptsIn, Approves
<1>3. CASE SkipsApproval \/ ThrowsOnApproval \/ SeesTokens \/ GetsNothing \/ Redeploys
  BY <1>3 DEF SkipsApproval, ThrowsOnApproval, SeesTokens, GetsNothing, Redeploys
<1>4. CASE \E r \in Requests : Asks(r)
  BY <1>4 DEF Asks
<1>5. CASE GoesOn
  BY <1>5 DEF GoesOn
<1>6. CASE GoesOnBeside
  BY <1>6 DEF GoesOnBeside
<1>7. CASE Dies
  BY <1>7 DEF Dies
<1> QED BY <1>1, <1>2, <1>3, <1>4, <1>5, <1>6, <1>7 DEF PwNext

\* The process, with its starts, registration, opt-ins, approvals, crashes and
\* redeployments (app.js, hotwalletUtils.js), implements the loop of HotWallet.
THEOREM ProcessImplementsLoop == PwSpec => HwSpec
<1>1. PwInit => HwInit
  BY DEF PwInit
<1>2. [PwNext]_wholeVars => [HwNext]_allVars
  BY LoopSteps DEF wholeVars
<1> QED BY <1>1, <1>2, PTL DEF PwSpec, HwSpec

\* Where no fault opens the window between send and save, the whole process
\* puts no award on the chain twice: not by a restart, a redeployment or a
\* repeated opt-in either.
THEOREM ProcessBroadcastsOnce == ASSUME KeysAreKept PROVE PwSpec => []AtMostOneBroadcast
  BY ProcessImplementsLoop, BroadcastOnce

\* With every fault, what it sends again is only what Redis has forgotten.
COROLLARY ProcessResendsForgotten == PwSpec => ResendsOnlyForgotten
  BY ProcessImplementsLoop, OnlyForgottenIsResent

\* The process as a whole implements Payments, under the guarded faults.
COROLLARY ProcessPays == ASSUME KeysAreKept PROVE PwSpec => ImplementsPayments
  BY ProcessImplementsLoop, PaymentsImplemented

-----------------------------------------------------------------------------
(* The registration                                                         *)

LEMMA RegistrationInit == PwInit => RegistrationInv
<1> SUFFICES ASSUME PwInit PROVE RegistrationInv
  OBVIOUS
<1>1. Down \in ProcState /\ Down.pc = "down"
  BY DEF Down, ProcState
<1> QED BY <1>1, ProcessAssumption DEF PwInit, RegistrationInv, ProcTyped, InProcess, Running

LEMMA RegistrationStep ==
  ASSUME RegistrationInv, PwNext \/ UNCHANGED wholeVars
  PROVE  RegistrationInv'
<1> USE DEF RegistrationInv, ProcTyped, InProcess, Running
<1>1. Down \in ProcState /\ Down.pc = "down"
  BY DEF Down, ProcState
<1>2. ASSUME NEW pc \in {"down", "register", "save", "stopped", "loop", "prepare",
                         "tokens", "ask", "asked"}, Move(pc)
      PROVE  proc' \in ProcState /\ proc'.pc = pc /\ proc'.key = proc.key
  BY <1>2 DEF Move, ProcState
<1>3. CASE Starts
  <2>1. CASE Move("stopped") /\ UNCHANGED nKeys
    BY <1>2, <1>3, <2>1 DEF Starts
  <2>2. CASE saved # 0 /\ Move("loop") /\ UNCHANGED nKeys
    BY <1>2, <1>3, <2>2 DEF Starts
  <2>3. CASE /\ saved = 0 /\ nKeys < MaxKeys
             /\ proc' = [pc |-> "register", key |-> nKeys + 1]
             /\ nKeys' = nKeys + 1
    <3>1. nKeys + 1 \in Keys /\ nKeys + 1 # 0 /\ nKeys + 1 \in 0..MaxKeys
      BY <2>3, ProcessAssumption DEF Keys
    <3>2. proc' \in ProcState /\ proc'.pc = "register" /\ proc'.key # 0
      BY <2>3, <3>1 DEF ProcState
    <3> QED BY <1>3, <2>3, <3>1, <3>2 DEF Starts
  <2> QED BY <1>3, <2>1, <2>2, <2>3 DEF Starts
<1>4. CASE Registers
  <2>1. UNCHANGED <<nKeys, saved>> /\ saved = 0 /\ proc.key # 0
    BY <1>4 DEF Registers
  <2>2. CASE Move("stopped")
    BY <1>2, <2>1, <2>2
  <2>3. CASE registered' = proc.key /\ Move("save")
    BY <1>2, <2>1, <2>3
  <2> QED BY <1>4, <2>2, <2>3 DEF Registers
<1>5. CASE SavesKeys
  BY <1>2, <1>5 DEF SavesKeys
<1>6. CASE Onwards
  <2>1. UNCHANGED <<nKeys, registered, saved>>
    BY <1>6 DEF Onwards
  <2>2. CASE UNCHANGED proc
    BY <2>1, <2>2
  <2>3. CASE proc' = Down
    BY <1>1, <2>1, <2>3
  <2>4. CASE Running /\ \E pc \in {"loop", "prepare", "tokens", "ask", "asked"} : Move(pc)
    BY <1>2, <2>1, <2>4
  <2> QED BY <1>6, <2>2, <2>3, <2>4 DEF Onwards
<1>7. CASE UNCHANGED wholeVars
  BY <1>7 DEF wholeVars, ownVars
<1> QED BY <1>3, <1>4, <1>5, <1>6, <1>7, OnwardsSteps

LEMMA RegistrationKept == PwSpec => []RegistrationInv
<1>1. RegistrationInv /\ [PwNext]_wholeVars => RegistrationInv'
  BY RegistrationStep
<1> QED BY <1>1, RegistrationInit, PTL DEF PwSpec

\* hotWalletInitialization and registerHotWallet: whatever is lost, killed or
\* redeployed, the loop runs only with the wallet that the server knows.
THEOREM LoopIsRegistered == PwSpec => []RunsAsRegistered
<1>1. RegistrationInv => RunsAsRegistered
  BY DEF RegistrationInv, RunsAsRegistered
<1> QED BY <1>1, RegistrationKept, PTL

\* A project whose wallet was registered and not saved has no hot wallet ever
\* again: hot_wallet_addresses_controller.rb refuses a second address.
THEOREM LostKeysStayLost == PwSpec => KeysStayLost
<1>1. RegistrationInv /\ [PwNext]_wholeVars => [KeysLost => KeysLost' /\ ~Running']_wholeVars
  <2> SUFFICES ASSUME RegistrationInv, PwNext, KeysLost PROVE KeysLost' /\ ~Running'
    OBVIOUS
  <2> USE DEF RegistrationInv, ProcTyped, KeysLost, InProcess, Running
  <2>1. ASSUME NEW pc \in {"register", "stopped"}, Move(pc)
        PROVE  proc'.pc = pc
    BY <2>1 DEF Move, ProcState
  <2>2. CASE Starts
    <3>1. CASE Move("stopped")
      BY <2>1, <2>2, <3>1 DEF Starts
    <3>2. CASE proc' = [pc |-> "register", key |-> nKeys + 1]
      BY <2>2, <3>2 DEF Starts
    <3> QED BY <2>2, <3>1, <3>2 DEF Starts
  <2>3. CASE Registers
    BY <2>1, <2>3 DEF Registers
  <2>4. CASE SavesKeys
    BY <2>4 DEF SavesKeys
  <2>5. CASE Onwards
    BY <2>5 DEF Onwards, Down
  <2> QED BY <2>2, <2>3, <2>4, <2>5, OnwardsSteps
<1> QED BY <1>1, RegistrationKept, PTL DEF PwSpec, KeysStayLost

-----------------------------------------------------------------------------
(* Types                                                                    *)

\* The process's own variables; nothing runs without a complete environment,
\* which is why an Algorand wallet has an app to opt in to. What the chain has
\* is of the kind that the network of the wallet needs, through redeployments.
OwnTyped ==
  /\ env \in Envs
  /\ {registered, saved} \subseteq Keys \cup {0}
  /\ recorded \subseteq Targets
  /\ RecordedIsPrepared
  /\ prepared \subseteq
       Targets \X (IF env.network = "algorand" THEN {NoTarget} ELSE Contracts)
  /\ proc.pc \notin {"down", "stopped"} => env.complete

LEMMA OwnTypedStep ==
  ASSUME OwnTyped, RegistrationInv, PwNext \/ UNCHANGED wholeVars
  PROVE  OwnTyped'
<1> USE DEF OwnTyped, RecordedIsPrepared, InProcess
<1>1. Down.pc = "down" /\ proc \in ProcState /\ proc.key \in Keys \cup {0}
  BY DEF Down, RegistrationInv, ProcTyped, ProcState
<1>2. ASSUME NEW pc, Move(pc) PROVE proc'.pc = pc
  BY <1>1, <1>2 DEF Move, ProcState
<1>3. CASE Starts
  BY <1>1, <1>2, <1>3 DEF Starts
<1>4. CASE Registers \/ SavesKeys
  BY <1>1, <1>2, <1>4 DEF Registers, SavesKeys
<1>5. CASE SeesCoins \/ SkipsApproval \/ ThrowsOnApproval \/ SeesTokens \/ GetsNothing
  BY <1>1, <1>5 DEF SeesCoins, SkipsApproval, ThrowsOnApproval, SeesTokens, GetsNothing
<1>6. CASE SyncsOptIns
  <2>1. prepared \subseteq Targets \X {NoTarget} /\ recorded' = { pair[1] : pair \in prepared }
    BY <1>6 DEF SyncsOptIns
  <2>2. \A pair \in prepared : pair = <<pair[1], NoTarget>> /\ pair[1] \in Targets
    BY <2>1
  <2>3. recorded' \subseteq Targets /\ \A t \in recorded' : <<t, NoTarget>> \in prepared
    BY <2>1, <2>2
  <2> QED BY <1>1, <1>6, <2>3 DEF SyncsOptIns
<1>7. CASE OptsIn \/ Approves
  <2>1. /\ env.target \in Targets
        /\ env.network = "algorand" => env.contract = NoTarget
        /\ env.network # "algorand" => env.contract \in Contracts
    BY <1>7, ProcessAssumption DEF OptsIn, Approves, Envs, NetworkKinds
  <2>2. Wanted \in Targets \X (IF env.network = "algorand" THEN {NoTarget} ELSE Contracts)
    BY <2>1 DEF Wanted
  <2>3. CASE OptsIn
    BY <1>1, <2>2, <2>3 DEF OptsIn
  <2>4. CASE Approves
    <3>1. env.network # "algorand" /\ recorded' \in {recorded, {env.target}}
      BY <2>4 DEF Approves
    <3>2. <<env.target, env.contract>> \in prepared' /\ env.contract \in Contracts
      BY <2>1, <2>4, <3>1 DEF Approves, Wanted
    <3> QED BY <1>1, <2>1, <2>2, <2>4, <3>1, <3>2 DEF Approves
  <2> QED BY <1>7, <2>3, <2>4
<1>8. CASE (\E r \in Requests : Asks(r)) \/ GoesOn \/ GoesOnBeside
  BY <1>1, <1>8 DEF Asks, GoesOn, GoesOnBeside, ownVars
<1>9. CASE Dies \/ Redeploys
  BY <1>1, <1>9 DEF Dies, Redeploys
<1>10. CASE UNCHANGED wholeVars
  BY <1>10 DEF wholeVars, ownVars
<1> QED BY <1>3, <1>4, <1>5, <1>6, <1>7, <1>8, <1>9, <1>10 DEF PwNext

LEMMA OwnTypedKept == PwSpec => []OwnTyped
<1>1. PwInit => OwnTyped
  BY DEF PwInit, OwnTyped, Down, RecordedIsPrepared
<1>2. OwnTyped /\ RegistrationInv /\ [PwNext]_wholeVars => OwnTyped'
  BY OwnTypedStep
<1> QED BY <1>1, <1>2, RegistrationKept, PTL DEF PwSpec

\* Server, wallet and process are type correct under every fault, for any
\* number of awards, requests, workers, contracts and keys.
THEOREM ProcessTyped == PwSpec => []PwTypeOK
<1>1. LoopInv /\ OwnTyped /\ RegistrationInv => PwTypeOK
  BY DEF LoopInv, OwnTyped, RegistrationInv, ProcTyped, PwTypeOK
<1> QED BY <1>1, LoopInvKept, OwnTypedKept, ProcessImplementsLoop, RegistrationKept, PTL

-----------------------------------------------------------------------------
(* What Redis says of the chain                                             *)

\* isReadyToSendTx never believes in an opt-in that the chain does not have, nor
\* in a contract that was never approved for any token contract, whenever the
\* process dies and whatever is deployed.
THEOREM RecordsAreTrue == PwSpec => []RecordedIsPrepared
<1>1. OwnTyped => RecordedIsPrepared
  BY DEF OwnTyped
<1> QED BY <1>1, OwnTypedKept, PTL

-----------------------------------------------------------------------------
(* The opt-in comes first                                                   *)

\* Past the preparation an Algorand wallet is opted in to the app that the
\* running process is configured for.
OptedInPast ==
  (InProcess("tokens") \/ InProcess("ask") \/ InProcess("asked")) /\ env.network = "algorand" =>
    Wanted \in prepared

LEMMA OptedInStep ==
  ASSUME OwnTyped, RegistrationInv, OptedInPast, PwNext \/ UNCHANGED wholeVars
  PROVE  OptedInPast'
<1> USE DEF OptedInPast, InProcess, Wanted
<1>1. Down.pc = "down" /\ proc \in ProcState
  BY DEF Down, RegistrationInv, ProcTyped
<1>2. ASSUME NEW pc, Move(pc) PROVE proc'.pc = pc
  BY <1>1, <1>2 DEF Move, ProcState
<1>3. CASE Starts
  <2>1. proc'.pc \in {"stopped", "loop", "register"}
    BY <1>2, <1>3 DEF Starts
  <2> QED BY <2>1
<1>4. CASE Registers \/ SavesKeys
  <2>1. proc'.pc \in {"save", "stopped", "loop"}
    BY <1>2, <1>4 DEF Registers, SavesKeys
  <2> QED BY <2>1
<1>5. CASE SeesCoins
  <2>1. UNCHANGED <<env, prepared>> /\ proc'.pc = IF IsReady THEN "tokens" ELSE "prepare"
    BY <1>2, <1>5 DEF SeesCoins
  <2>2. OwnTyped /\ env.network = "algorand" => env.contract = NoTarget
    BY DEF OwnTyped, Envs
  <2> QED BY <2>1, <2>2 DEF OwnTyped, RecordedIsPrepared, IsReady, Wanted
<1>6. CASE SyncsOptIns
  BY <1>6 DEF SyncsOptIns
<1>7. CASE OptsIn \/ Dies \/ Redeploys \/ ThrowsOnApproval
  BY <1>1, <1>7 DEF OptsIn, Dies, Redeploys, ThrowsOnApproval
<1>8. CASE Approves \/ SkipsApproval
  BY <1>8 DEF Approves, SkipsApproval
<1>9. CASE SeesTokens
  BY <1>9 DEF SeesTokens
<1>10. CASE (\E r \in Requests : Asks(r)) \/ GetsNothing \/ GoesOn
  <2>1. UNCHANGED <<env, prepared>> /\ proc.pc \in {"ask", "asked"}
    BY <1>10 DEF Asks, GetsNothing, GoesOn
  <2> QED BY <2>1
<1>11. CASE GoesOnBeside \/ UNCHANGED wholeVars
  BY <1>11 DEF GoesOnBeside, ownVars, wholeVars
<1> QED BY <1>3, <1>4, <1>5, <1>6, <1>7, <1>8, <1>9, <1>10, <1>11 DEF PwNext

\* isReadyToSendTx and optInOrSyncApp: an Algorand wallet asks for transactions
\* only when it is opted in to the app they are for, whatever an opt-in that
\* fails, a key of an earlier app, a crash or a redeployment leaves behind.
THEOREM AsksWhenOptedIn == PwSpec => AsksOnlyOptedIn
<1>1. PwInit => OptedInPast
  BY DEF PwInit, OptedInPast, InProcess, Down
<1>2. OwnTyped /\ RegistrationInv /\ OptedInPast /\ [PwNext]_wholeVars => OptedInPast'
  BY OptedInStep
<1>3. OptedInPast =>
        [\A r \in Requests : Asks(r) /\ env.network = "algorand" => Wanted \in prepared]_wholeVars
  BY DEF OptedInPast, Asks
<1> QED BY <1>1, <1>2, <1>3, OwnTypedKept, RegistrationKept, PTL DEF PwSpec, AsksOnlyOptedIn

=============================================================================

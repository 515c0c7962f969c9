# CoMakery: a verification of how awards are paid and kept

CoMakery is a Rails application in which projects award tokens to contributors,
with a Sidekiq worker and React and Stimulus pages around it, a Node process
(the *hot wallet*) that signs and sends transactions on a project's behalf, and
the services ORE ID and the blockchains. This directory holds TLA+ models of its
core logic, TLC configurations that check them on small instances, and TLAPS
proofs of what matters most.

## 1. Inventory

### 1.1 Components, state, operations

| Component | Source | State it keeps | Operations |
|---|---|---|---|
| Blockchain transactions of awards | `app/models/blockchain_transaction*.rb`, `concerns/blockchain_transactable.rb`, `transaction_batch.rb` | transactions (status, hash, number of syncs), batches and the awards in them | create for ready awards, report a hash, give up, sync, count |
| Hot wallet API | `api/v1/blockchain_transactions_controller.rb`, `hot_wallet_addresses_controller.rb` | the project's hot wallet mode and address | POST, PUT, DELETE, register |
| Sync jobs | `jobs/blockchain_job/*`, Sidekiq | the queue, the record each job loaded | sync one, enqueue all pending |
| Hot wallet process | `hotwallet/app.js`, `hotwallet/lib` | Redis: keys of the wallet, opt-ins, approvals, a key for each sent award; a cache for one pass | start, register, opt in, approve, ask, validate, guard, send, remember, report, give up |
| Signing pages | `javascript/controllers/sign`, `sign/ore_id_controller.rb`, `sign/user_wallet_controller.rb`, `ore_id_callbacks.rb` | wallets connected in a tab, buttons, prompts; one state in the session | connect, switch, click, approve, report, give up |
| Awards (tasks and transfers) | `models/award.rb`, awards and transfers controllers, rake tasks | award status, assignee, expiry, clones, budget | start, assign, submit, accept, reject, cancel, expire, clone |
| Page that issues an award | `javascript/components/TaskShow.jsx` | chosen recipient, look-ups, the address shown, a lock | choose, look up, issue, go back |
| Forms | `javascript/components/*Form.jsx` | fields, errors, disabled buttons, the next request's action and address | change, look up a contract, submit, read the answer |
| ORE ID | `models/ore_id_*.rb`, `synchronisation.rb`, `concerns/synchronisable.rb`, `wallet_provision.rb`, `jobs/ore_id_*` | account state, synchronisations, wallets, provisions | open, pull, push, link, unlink, claim, recover, provision |
| Wallets | `models/wallet.rb`, `lib/wallets` | one primary wallet per account and blockchain | create, make primary, destroy |
| Security token records | `account_token_record.rb`, `transfer_rule.rb`, `jobs/blockchain_job/comakery_security_token_job` | created and synced versions of a rule | replace, sync from chain |
| Balances | `models/balance.rb`, `sync_balance*_job.rb` | cached balance | sync |
| Pure algorithms | `token.rb`, `app/lib/comakery` | none | base units, ABI encoding, signatures |

`components` in `PROJECT.json` lists every part, the ones left out too.

### 1.2 How they interact

The hot wallet and the browser create transactions through the API and the
signing pages; both read which awards are ready, insert a *batch*, then save the
transaction. The wallet signs it, puts it on the chain and reports the hash
(PUT, or `receive`), which makes it pending and enqueues a sync job. Jobs load
the transaction, ask an explorer, and write the outcome to the transaction and
to the awards of its batch. A DELETE, an expired ten-minute wait, a failed or
cancelled transaction makes the awards ready again. Beside all of this an admin
may mark an accepted award as paid with any hash. Awards get there by tasks
that people start and submit, or by the page on which an admin issues one. ORE ID
jobs bring an account's wallets in line with the service while requests change
them. Forms create and edit the records that all of this reads. Nothing locks
rows, and outside the ORE ID jobs almost nothing runs inside a database
transaction.

### 1.3 What is hard here

Interleavings of requests and jobs that read, wait and write back; a batch
inserted before its transaction; a status and its awards written one at a time;
calls between wallet, browser and server that may be lost and are never
repeated; crashes between sending, remembering and reporting, or between
registering a wallet and saving its keys; retries of what may already be on the
chain; database transactions that roll back what a remote service has done;
wallets and answers that report to a page which has moved on; buttons as the
only lock. `PROJECT.json` lists each hazard at its line.

### 1.4 What makes each component correct

* **Blockchain transactions.** An award is marked paid only on the chain's
  word, or when people mark it by hand with a hash that nothing looks up
  (`update_transaction_address`); a success is taken back only by those who have
  not seen it, and settles the whole batch; a pending transaction does not stay
  pending.
* **Hot wallet.** No award is put on the chain by two transactions, whatever
  calls get lost, and under every accident none that Redis still remembers; an
  award is paid only after it was put on the chain, or by hand; the process runs
  only as the wallet that the server knows, and is opted in to what it pays
  from; what it refuses it could not pay, what it sends it had when it looked.
* **Signing pages.** Buttons belong to a wallet that can sign; only what was
  sent is pending. A double click pays twice: nothing but a CSS class is in its
  way.
* **Awards.** Quotas of assignments hold, up to what requests that run at once
  cannot see of each other; the counter cache counts the clones; a clone is never
  cloned or offered again; a started task has a deadline and an overdue one is
  taken back; what is settled is moved only by who loaded it before.
* **Issuing an award.** It goes, once, to the person whose address was looked
  up, unless the channel lists nobody.
* **Forms.** A page is never left without buttons, a click too many creates no
  second record, and what is sent of a contract belongs to it.
* **ORE ID.** A pending account is never forgotten; it is not claimed before
  its wallets are provisioned (which, unlike documented, none ever is beyond its
  balance); the service is asked for one account a chain.

## 2. Plan

| Step | Module | State |
|---|---|---|
| 1 | `BlockchainTransactions`, the server around transactions | checked, proved |
| 2 | `HotWallet`, which extends 1 with the loop of the Node process; `Payments`, the abstract specification both implement | checked, proved |
| 3 | `HotWalletProcess`, which extends 2 with starting, registering and preparing | checked, proved |
| 4 | `WalletChecks`, what the loop leaves open: the decisions of one pass | checked, proved |
| 5 | `Signing`, the browser side of paying | checked, proved |
| 6 | `AwardLifecycle`, tasks and transfers; `AwardPage`, the page that issues one | checked, proved |
| 7 | `OreIdAccounts`, account, synchronisations, wallets and provisions | checked, proved |
| 8 | `RecordForms`, the five forms that make and edit records | checked, proved |
| 9 | account token records and transfer rules (created and synced versions); the page on which missions are put in order | not written |

Every safety invariant and every action property that a passing run checks is
proved (section 5), under the assumptions named there.

## 3. Modules

`MC*` modules only name the constants that the configurations use. A
definition whose comment begins with `Mutant:` is a plausible mistake in the
definition below it; nothing else refers to it.

### 3.1 `BlockchainTransactions`

| Code | Model |
|---|---|
| `awards.status`, `prioritized_at`, `projects.hot_wallet_mode` | `award`, `prioritized`, `mode` |
| `ethereum_transaction_address`, `transaction_success` of an award | `byHand` |
| `transaction_batches`, `batch_transactables` | `nBatches`, `rows[b]` |
| `blockchain_transactions.status`, `tx_hash`, `number_of_syncs` | `status[b]` (`"none"`: no such row), `hash[b]`, `syncs[b]` |
| `waiting_in_created?` | `b \in waiting`, left by `Expire` |
| a request in `create` or `new` | `request[r]`: nothing, a selection, a selection and a batch |
| a Sidekiq job and the record it loaded | `worker[w]` |
| the explorer's answer | `chain[b]` |
| `ready_for_blockchain_transaction` and the selection of the API | `Ready`, `HotWalletSelections` |
| `create`: select, insert the batch, save | `CreateByHotWallet`, `CreateCustom`, `SignNew`; `InsertBatch`; `SaveTransaction` |
| a save that fails, a process killed between the two | `SaveTransactionFails`, `InsertBatchDies` |
| PUT, `receive`; DELETE, `receive` with an error | `UpdateTransaction`, `SignReceive`, `ReportDies`; `DestroyTransaction`, `SignReceiveError` |
| `BlockchainTransactionSyncJob` and `sync` | `JobBegin`, `JobAsksChain`, `JobSucceeds`, `JobFails`, `JobPaysAward`, `JobStopsPaying`, `JobCounts`, `WorkerDies` |

A job's steps are separate actions because it waits for the explorer and saves
several rows; everything after `JobBegin` uses the copy loaded there. The
scheduler enqueues a job for every pending transaction each time it runs, so
the queue is not a variable: a worker may take up any pending transaction at
any time. People prioritize and cancel awards, switch the mode of the hot wallet
and mark accepted awards as paid by hand (`UpdateTransactionAddress`), which no
transaction hears of. `Environment` says what the surroundings do; a run without
an event asks what the code promises where that event does not occur.

### 3.2 `HotWallet` and `Payments`

`HotWallet` extends the server with the loop of `hotwalletUtils.js`: `HwAsks`
(POST; the server goes on by itself, and `ServerAnswers` is heard or lost),
`HwFindsInvalid`, `HwChecksRedis`, `HwCannotSend`, `HwSends`, `HwRecords` with
one `RedisSaves` for each award, `HwReports`, `HwGivesUp`. The saves are not
awaited in the code, so the report and even the next request may come before
them; the next read of Redis cannot, because one connection keeps its order.
`HwFaults` lists what may go wrong. `HwAccident` are the steps that the Redis
keys are not meant to stand: `HwGuardedSpec`, the specification of the run
`guard`, is without them, and in `process` they happen. Steps of the server that
the wallet takes no part in are `OtherStep`.

`Payments` promises two things of awards and transactions: a transaction is put
on the chain only for awards that no other carries, and an award is settled
only when some transaction carries it or when people settle it by hand.
`Carriers`, `Settled` and `byHand` map the state of `HotWallet` to it.

### 3.3 `HotWalletProcess`

Extends `HotWallet` with `app.js` and the first half of each pass.

| Code | Model |
|---|---|
| environment variables of a deployment | `env`; `Redeploys` changes it |
| `app.js`, `hotWalletInitialization`, `registerHotWallet`, `saveNewHotWallet` | `Starts`, `Registers`, `SavesKeys` |
| `projects.hot_wallet` at the server; keys, `optedInApps`, `approvedContract` in Redis | `registered`; `saved`, `recorded` |
| opt-ins and approvals on the chain | `prepared`, a set of pairs: app or approval contract, and token contract |
| what this deployment needs of them | `Wanted` |
| `optInOrSyncApp`; `approveContractTransactions` | `SyncsOptIns`, `OptsIn`; `Approves`, `SkipsApproval`, `ThrowsOnApproval` |
| `waitForNewTransaction` | `SeesCoins`, `SeesTokens`, `Asks`, `GetsNothing`, `GoesOn` |
| `pm2` | `Dies`, and `Down`, from which the process starts again |

The result of an opt-in is assigned to an undeclared variable, which strict code
does not allow: `OptsIn` therefore always ends the process, and the next one
finds the opt-in on the chain. A process that ends its initialization without an
error is not started again (`"stopped"`).

An ERC20 approval is one between an approval contract and a token contract
(`ethereumContractAddress`), but Redis records the former alone and `IsReady`
asks for it alone. After a redeployment with another token contract the record is
true of the old pair, and nothing approves the new one: `RecordedIsPrepared`
says of Ethereum only that some token contract goes with what is recorded.

### 3.4 `WalletChecks`

The decisions that `HotWallet` leaves open (`HwFindsInvalid`, `HwCannotSend`)
on both blockchains: `ReadsCoins` and `ReadsTokens` fill the cache that lives
for one pass, `GetsTransaction` is any transaction, `ChecksAlgorand` and
`ChecksEthereum` are `isTransactionValid`, `FindsNoGas`, `Sends`, `FailsToSend`,
`LosesSight` and `ThrowsOnText` are `sendTransaction`. A transaction whose fate
is unclear takes nothing when the wallet gives it up: it is in `flight` until
`Lands` mines it at any later time, beside other passes, with its amount or, if
that is not there any more, with its fee only, or drops it. `pass.landed` is
what the chain took since the pass read its balances. `Number` rounds as JavaScript does
beyond 2^53 (`Exact`); Algorand amounts are such numbers, Ethereum's are not.

### 3.5 `Signing`

| Code | Model |
|---|---|
| the three Stimulus controllers of a tab and its buttons | `page[t]`: which wallet the buttons are bound to, which have accounts |
| WalletConnect objects, replaced ones included | `connector[t][i]` |
| a run of `sendTx` from click to report | `flow[c]`: `ClicksSend`, `Saves`, `Creates`, `Approves`, `Rejects`, `Reports`, `GivesUp` |
| `BlockchainTransaction#status`, what a wallet broadcast | `status[c]`, `sent` |
| `session[:sign_ore_id_fallback_state]` | `session` |
| ORE ID's redirect, its callback, or none | `GoesToOreId`, `OreIdSigned`, `OreIdFailed`, `LeavesOreId` |

`SigningFaults` are lost calls, calls that the server answers without doing them
(an ended session, an award that is not payable any more, a refused save), a
wallet that broadcasts and keeps silent or a browser that does not come back from
ORE ID, and reloads. `sendTx` takes a class from its button, which keeps the
pointer off the link and nothing else: `ClicksSend` asks for no enabled button.

### 3.6 `AwardLifecycle`

| Code | Model |
|---|---|
| a row of `awards` | `awards[i]`: status, account, `origin` (`cloned_on_assignment_from_id`), `quota`, `perUser`, `count` (`assignments_count`), `expires`, `notify` (nil, later, passed) |
| `Experience#level` | `experience[a]`, up to a bound |
| a request or task and its `@award` | `request[r]`: the row as loaded (`old`) and as changed (`new`) |
| policy and assignment in a controller | `Start`, `Assign`, `SendAward`, `Submit`, `Accept`, `Reject`, `Destroy`, `DestroyTransfer`, `UpdateTransactionAddress`, `CreateAward`, `CreateTransfer` |
| jobs and rake tasks | `UpdateTransactableStatus`, `RunExpiration`, `RunExpiringNotification` |
| `clone_on_assignment` | `KeepOriginal`, `RefuseClone`, `ValidateClone`, `InsertClone` |
| callbacks before validation, validations | `Prepared`, `Valid`; `Validate`, `Refuse` |
| `save` | `InsertAward`, `UpdateAward`: `Merged` writes the attributes that differ from the loaded row |

The stages of a request are separate actions because nothing locks the row
between them. Only the changed attributes are written, which is what makes it
hard to see what two requests leave behind.

### 3.7 `AwardPage`

The page on which an admin issues an award, beside `recipient_address` and
`send_award` of the awards controller: `ChoosesChannel`, `ChoosesMember`,
`TypesEmail`, `Proceeds` (asks for the address and locks the fields at once),
`AddressArrives` and `LookUpFails` for every look-up under way, `GoesBack`,
`Cancels`, `Issues`, `ServerGives`, `ServerDenies` and what the page hears.
A uid is not cleared when the channel changes, so that the dropdown may show
the new channel's first member while the look-up and the award are for the old
one; both agree, which is what `IssuesWhatWasLookedUp` says. They do not for a
channel that lists nobody: the look-up leaves an undefined uid out of its JSON
and finds nobody (`LookedUp`), while the award sends the text `undefined`, for
which the server finds or makes an account (`Recipient`, `Strangers`). Whom a uid
stands for depends on its channel as well (`UidAccount`): the server goes by the
team while the uid has no authentication.

### 3.8 `OreIdAccounts`

| Code | Model |
|---|---|
| the row `OreIdAccount`, its wallets, provisions and `latest_synchronisation` | `ore`, `wallets`, `provision`, `psync`, `sync` |
| accounts at ORE ID, their chain accounts and passwords | `service` |
| jobs queued and run | `jobs`, `pjobs`, `worker[w]`; `lost` remembers those that ended with their worker |
| `create_remote!`, `sync_remote!`, `pull_wallets`, `push_wallets`, `claim!` | `OpensAccount`, `OpensUnheard`, `StartsPulling`, `Pulls`, `MakesWallet`, `Commits`, `Claims` |
| the limits and backoff of `Synchronisable`; rescheduling | `Allowed`, `Begins`, `DeclaresFailed`, `Reschedules`, `TimePasses` |
| `auth/ore_id`, API wallets and recovery | `LinksManually`, `Receives`, `Unlinks`, `SignsUp`, `AsksForWallets`, `InsertsWallets`, `Recovers` |
| jobs of a provision | `TakesJob`, `Postpones`, `Performs` |

An event with a bang is a transaction of the database around calls of the
service: what a job writes is in `worker[w]` until `Commits`, and `Fails`
forgets it while the service keeps what it did. `jobs` holds kinds: a receive
or a recovery queues one more job, so beginning one may leave its kind queued.

### 3.9 `RecordForms`

The five forms share one structure in five copies that differ in details, and
the model keeps those: what a change handler reaches (`ChangesProject` to
`ChangesBatch`), when an answer lets the user submit again (`ProjectAccepted`
reads the body first, `Enables` and `ReadsBody` are the other four) and under
which keys the server answers a refusal (`KeysOf`; keys that no input of the page
has are the field `other`). A token form looks up the
symbol of a contract (`LooksUp`, `LookupAnswers`) and has the address of a batch
contract, which is not looked up (`ChangesBatchAddress`); a project form has rows of
channels (`AddsChannel`, `DestroysChannel`). `Fields` has one field for each
group that behaves alike.

## 4. Runs

| Run | What it shows | Distinct states |
|---|---|---|
| `confirmation` | Under everything `Environment` lists, with two workers on one transaction of two awards, an award is paid only on the chain's word or by hand, and a success is taken back only by who has not seen it. | 1.24 million |
| `settling` | Fair jobs settle what is pending, and a success pays the whole batch, also when two workers settle it at once. | 48,115 |
| `guard` | With two creating requests at once, failed saves, lost calls and crashes that leave nothing unrecorded, no award is sent twice, and `Payments` is implemented. | 0.63 million |
| `process` | With every fault and accident of the wallet, lost registrations and redeployments, it runs only as registered, what Redis says of opt-ins and approvals is on the chain, and it sends again only what Redis forgot. | 1.82 million |
| `checks` | What the wallet refuses it could not pay, what it sends it had but for what landed since, and what it was given ends with a hash or a mark. | 2.47 million |
| `gas` | That a transaction without gas is cancelled is not so on Ethereum. | stops at the violation |
| `tasks` | One request at a time with every handler and two clones: assignments within the quota, overdue tasks taken back. | 53,322 |
| `tasks_at_once` | Two requests with stale copies: the counter cache and deadlines stay right, a clone is never ready again, one clone too many is the most, and only who has not seen a settled award moves it. | 1.39 million |
| `signing` | Three wallets in two tabs with late events, lost and refused calls, any number of clicks and reloads: buttons belong to a wallet that can sign, only what was sent is pending. | 1.19 million |
| `oreid` | Jobs that fail, die or lose answers beside the requests of a person and of the API: the account is not forgotten, not claimed too early, and has one account on the chain. | 0.54 million |
| `provisions` | That an account is pending while its wallets are provisioned, as documented, is not so. | stops at the violation |
| `pages` | Each form, to create and to edit, with refusals and lost answers: buttons come back, a project page makes one project, details are those of the contract, channels are saved once. The page that issues an award, with answers that come late or never: it goes to whom was looked up, once, and the address is that person's. | 3.63 million |

Two runs end with a violation, and `findings` quotes what they contradict. `gas`:
`EthereumBlockchain.js` compares the fee with the function `getEthBalance`
instead of its result. `provisions`: `wallet_provision.rb:1-7` has the account
pending until the opt-ins of its wallets are made, and `create_remote!` ends its
pending state as it gets its name, so that `create_tx`, which wants a pending
account with a name, never signs.

The models show more, of which no run is kept:

* Where a save fails its batch is there already: the scope joins on the orphan
  and selects an award whose transaction is fresh, pending or failed. Two
  creating requests select the same award before either inserts its batch. Both
  make two open transactions of one award; in `guard` both happen, and the Redis
  keys keep the award from being sent twice. A browser has no such keys.
* An award that is marked as paid by hand while a transaction of it is open or in
  the hands of the wallet is broadcast all the same (`by_hand`).
* A clone copies its original's `assignments_count`, so from the second clone
  on it counts for nothing in the budget. A task whose assignments use up
  the budget cannot be started, because its clone is counted before the original
  offers one less.
* The update that clears a sent reminder is refused for a contributor with the
  maximum of started tasks, who is reminded for ever.
* `number_of_assignments_per_user` is not asked of a clone that a refused start
  left behind. An award that is accepted and later paid adds twice to the
  experience.
* With two requests at once, a cancellation can overwrite a payment,
  `awards:expire` a submission, and a start the start of somebody else; two
  starts count the same assignments. `SettledIsOverwrittenUnseen` and
  `OvershootIsBounded` name what is left of the promises then.
* A job that counts itself out on a copy loaded as "pending", a browser that
  comes back once more and a client that gives up what it reported write over
  "succeed": `OverwritesUnseen` lists them. Two synchronisations of one ORE ID
  account, the first declared failed after a minute, both ask for the account of a
  blank wallet if two workers run (`OneChainAccount`).
* `metamask_controller.js` cancels a payment that was broadcast when the call
  that reports its hash fails, and an error from ORE ID cancels whatever the
  session names: no property is left that says otherwise.
* Every form but that of a project enables its buttons before it knows what it
  created: a click in between creates a second record (`OneRecordPerForm`).
* An address that arrives after another recipient was chosen and looked up
  replaces that one's on the page (`ShowsRecipientsAddress` names the case).

### 4.1 Bounds

* `MaxBatches`: every rule about several transactions of an award compares its
  last batch with the ones before. Three batches of two awards (`guard`) let
  batches overlap in part and a third one meet the keys of two others; two
  (`process`) let an award come back after a lost, failed or expired
  transaction. `confirmation` and `settling` are about one transaction and have
  two workers on it instead.
* `MaxSyncs`: the count matters when it is reached; one reaches it at once, two
  pass through a count below it, and let two workers write one.
* Two workers suffice for one to overwrite the other, and two creating requests
  (`guard`) for both to select the same award. Beside them `guard` has failed
  saves, deaths and awards marked by hand; that people sign, prioritize and switch
  modes there as well is covered by the theorems, which leave `Environment` open.
  `oreid` has the single worker that `config/sidekiq.yml` configures and one
  chain: `OneChainAccount` needs the first, and two chains go beyond five million
  states.
* `MaxKeys` 2 (`process`): a second wallet is generated after the first was
  lost; two targets and two token contracts are what one redeployment can change,
  either or both. Of the surroundings only failed saves are in this run: what else
  happens beside the wallet is in `confirmation` and `guard`.
* `MaxTokens` 6 and `Exact` 4 (`checks`): amounts and balances on both sides of
  the first number that JavaScript rounds, odd and even; fees below, at and
  above the coins.
* `MaxClicks` 2, `MaxConnectors` 2 (`signing`): a second click, of the same
  button too, and a replaced object; two tabs, since a session is shared by tabs.
* `MaxAwards` 3, `MaxQuota` 4 and `MaxTokens` 4 (`tasks`): an original and its
  two clones, below, at and above the boundary at which the original is the last
  of three assignments itself. A new clone is counted before its original offers
  one less, so three assignments need a budget of four; a task of four uses it up,
  and none of its clones is accepted. There is one task: tasks of a project meet
  only in its budget and in the limit of started tasks. One contributor with
  `StartedLimit` 1 meets that limit, and starts the next clone when the last one
  is settled.
* `tasks_at_once`: two requests, a task of up to two assignments and three rows,
  so that the second clone is the one too many; no budget, which would refuse it,
  and a limit of two started tasks, so that one contributor can start both.
* `MaxRequests` 2, `MaxRows` 2 (`pages`): the second request is the one that
  might create again; one row to add and one to remove; one contract on two
  networks, so that the same address is another contract after the network
  changed.
* `MaxLookUps` 3 (`pages`): the middle one may be answered before the first
  and after the last. Three channels, one of which shares a member and one of
  which lists nobody; a uid that is another account in another channel.
* `Room` and `RoomForTask` keep a request from beginning when its insert would
  pass the bound; `MaxExperience` stops the count.

Symmetry is used in runs of safety properties only, over sets whose elements no
definition tells apart. Deadlock is not checked where the bounds or a page that
was left end the behaviour: then nothing is left to do, as in the real system
between two visits. `checks` can always go on, and there it is checked.

### 4.2 Fairness

* `JobFairness` (`settling`): Sidekiq runs a job it started to the end (weak
  fairness of each worker's steps), and `SyncJob`, which the scheduler runs
  again and again, enqueues a job for every pending transaction (strong
  fairness, because a worker may always be taken by another one first). Crashes
  are left out of `settling`. Nothing is assumed of the chain or of the wallet.
* `Fairness` of `AwardLifecycle` (`tasks`): a request that began ends (weak),
  and `awards:expire`, a process of its own, comes again and again to every task
  that is overdue again and again (strong). Nothing is assumed of visitors.

The other components have no liveness worth stating: a wallet whose report got
lost never repeats it, an ORE ID account that the service knows already stays
pending, a page whose answer got lost stays locked. `PendingIsWorkedOn` and
`BusyHasCause` say as invariants what does hold.

## 5. Proofs

All theorems hold for every value of the constants that the named assumptions
allow: any sets of requests, workers, awards or accounts, any bounds. The type
invariants that no run checks are among them. Two assumptions are named in the
statements that need them, and the runs that check the same properties are
instances of them:

* `OneWorker` (`AsksOnce`) is one Sidekiq process with the concurrency of one
  that `config/sidekiq.yml` gives it. No theorem assumes that web requests do
  not overlap.
* `Environment` without some event, or no fault of a kind: what the event would
  break is said below.

The modules:

* `BlockchainTransactionsProofs`. `TypeCorrect`: types, and whoever holds a
  batch holds one that exists. `PaidIsConfirmed` (nobody else marks an award
  paid than the chain's word and people by hand): the strengthening,
  `ConfirmationInv`, adds that a pending or succeeded transaction has a hash,
  that batches not inserted are empty, and what a worker knows at each stage
  (one that pays knows that its transaction is valid on the chain). It is
  needed because a worker acts on what it learned before others changed the row.
  `SettledBatchesArePaid`: `SettlementInv` adds that what a paying worker has
  not paid yet is still on its list; a killed process or an award that cannot
  be saved (`crash`, `award_raises`) leaves the rest of a batch unpaid for
  ever. Two workers may settle at once: the second one to say "succeed" pays
  all of it again. `SuccessIsLostUnseen` says who may write over a success, for
  any number of workers and everything in `Environment`: not a request that
  creates (`SavingInv`: what is being saved has no transaction yet, and no two
  requests save the same batch), not a job that found it failed
  (`FailedIsNoSuccess`: the chain says one of the two and stays with it), not the
  job that wrote it.
* `HotWalletProofs`. Every step of the composition is a step of the server or
  leaves it alone (`ServerSteps`), so what is proved of the server is used for
  the composition. `BroadcastOnce` and `PaymentsImplemented` assume
  `KeysAreKept`: none of the faults `crash_unsaved`, `send_unclear` and
  `key_expires`, each of which leaves a broadcast award without a key.
  `GuardInv` says that every award on the chain has a key, or its key is being
  written, or `send()` is just returning, and that nothing is being written
  between the check of the keys and the writes. For the refinement,
  `PaymentInv` adds `ConfirmationInv`: an award is settled by a worker, long
  after the step that carried it. Every step of `HotWalletProcess` is a step of
  the loop or leaves it alone (`ProcessImplementsLoop`), which carries
  `BroadcastOnce`, `PaymentsImplemented` and `OnlyForgottenIsResent` to the whole
  process (`ProcessBroadcastsOnce`, `ProcessPays`, `ProcessResendsForgotten`).
  `LoopRunsServer` (the composition implements the server) carries
  `SuccessIsLostUnseen` to the wallet. `OnlyForgottenIsResent` needs no assumption
  about faults: `NothingPending` says that from the check of the keys to the
  broadcast nothing is being written and no award of the batch has a key, and
  nobody but the wallet writes one. `PaidIsCarriedOnce` follows from the
  refinement: `Payments` by itself promises that no award is carried twice
  (`PaymentsPromise`), and that a settled one was carried or settled by hand.
  `AsksWhenOptedIn` rests on `OptedInPast`: a process past its preparation is
  opted in to the app it was started for, because a new app comes only with a
  new process. `LoopIsRegistered` and
  `LostKeysStayLost` rest on `RegistrationInv`: a wallet is registered only
  while Redis has none, and saved as it was registered. `RecordsAreTrue` is
  part of `OwnTyped`, which is inductive: pairs are only ever added to
  `prepared`, and the network of a wallet stays. `ProcessTyped` needs no
  assumption about faults: it rests on `Holds` and `Saving`, which no accident
  touches.
* `WalletChecksProofs`. `CacheBounds`: what was read when the pass began is
  still there, or what landed since makes up for it; one transaction at most can
  land in a pass, since a pass that gives one up is over. With the monotony of
  `Number` it gives `RefusalsAreRight` and `SendsAffordable` for all amounts.
  `MarksAreLeft`: the stages of a pass say which texts can still be in it, so only
  the Ethereum parser's throw leaves a transaction untouched.
* `SigningProofs`. `SigningInv` says of each page which wallets may be bound to
  its buttons and which objects still report (`GoodPage`), that a report
  is of what was sent (`ReportsSent`), which is all that `PendingWasSent` needs of
  the clicks, however many there are of a button.
* `AwardLifecycleProofs`. `LifecycleTyped`, `ClonesCounted`, `OriginalsCloned`,
  `DeadlinesKept` and `ClonesStayClosed`, for any number of requests at once.
  The rows alone are not inductive: a request changes them later, from a copy.
  `LifecycleInv` therefore says what each request's copy may be at each stage:
  `Changes` after the handler, `Writes` after the callbacks. The argument is
  that a save whose status differs from the loaded one brings a deadline that
  differs too, so both are written, and one whose status does not differ writes
  neither (`MergedFits`). `QuotaOvershoot` counts: `Overshoot` says that the
  clones of an original and the processes about to make one together exceed its
  room by no more than the processes beside one could; a process joins them only
  while its copy, and so the row, leaves room, and stays one of them until its
  clone is there. `SettledMovesUnseen` rests on `Obeys`: a copy that shows a
  settled award is not saved with another status, as the policies and the
  validation of a cancellation ask the copy. Neither assumes anything about how
  many processes there are.
* `AwardPageProofs`. `PageInv`: a page that waits for its request is locked, so
  that it asks for no other look-up; the details are those of the last look-up,
  and that was for who is chosen, or for nobody where the award goes to a
  stranger; a page that gave an award waits or is left.
* `OreIdAccountsProofs`. `OreInv` adds to what is claimed that an unclaimed
  account is named by the service's account, that wallets are synchronised of
  linked accounts only, and what the job of each worker may hold (`GoodJobs`).
  `ClaimsAreProven` follows from it step by step. `AsksOnce` (`OneWorker`) is
  the deepest of them: a chain account is asked for when a synchronisation finds
  a blank wallet, and the service makes it while the job may already be gone.
  `OneInv` says that a POST under way is for chains without an account
  (`MadeInv`), that where a job may still come to ask, every chain that was asked
  for has its wallet and no blank one beside it (`PushInv`), and that what a job
  has in its hands agrees with this (`HandsOf`). `ProvisionsStop` says of every account and any
  number of workers what the run `provisions` shows of one: no provision gets
  past its confirmed balance, because `create_tx` signs for nobody (`NoOptIns`).
* `RecordFormsProofs`. `FormsInv`: a look-up under way locks the fields and is
  for what they show (`DetailsInv`); a project page has one answer to wait for
  and is disabled until it has read all of it (`ProjectInv`).
  `FormsTyped` types every field of the form, the rows and the requests; no more
  records are made than requests were answered, which bounds them
  (`TypeInv`). `SavedOnce`, that no channel of a project is made twice, rests on
  `ChannelsInv`: rows the server has not seen, on the page or in a request on
  its way, are not more than the channels people added and the server has not
  made, and all other rows name channels it has. After a save is granted the
  rows of the page are stale until its answer is read: only a page that can
  submit (`InForce`) is claimed to be right.

Only model-checked: the two liveness properties `PendingIsSettled` (`settling`)
and `OverdueIsTakenBack` (`tasks`). They need fairness and `ENABLED`, which the
prover cannot reason about. `ShortOfGasIsCancelled` and `PendingUntilProvisioned`
are violated, not proved. No theorem is about what a recursive definition
computes: the modules have none.

## 6. Not modelled, or in part

* Data: amounts outside `WalletChecks`, addresses, raw transactions and how a
  chain's answer is compared with them. A transaction is the set of awards it
  pays, the chain says valid or invalid. Which of several ready awards is taken
  first is open.
* `AwardLifecycle`: every award has the amount 1 and one specialty;
  `invite_ready` (the award type is not published) counts as ready; recipients
  known only by email and `confirm!`, editing of awards, and projects without a
  token are left out. That a job pays an award that was cancelled after
  its transaction was created is in `BlockchainTransactions`, where awards are
  only accepted, paid or cancelled. `experience` is written in the same step as
  the award, although the code reads and saves it by itself.
* Transactions for account token records, transfer rules, freezing and opt-ins
  share the model of section 3.1; their own effects are a flag, an opt-in status
  or the removal of older versions when they succeed.
* The page that puts missions in order (`MissionIndex.jsx`,
  `missions_controller.rb`): `rearrange` answers with a list it loaded before it
  saved, which the page takes over, so that after one drag it shows the old
  order and a second one may give two missions the same place. One user at one
  page is enough for that, and a test finds it.
* Balances are a number and a time that each job overwrites. A primary wallet
  is kept single by an index of the database, whatever requests do.
* Conversions, ABI encodings and signatures are transformations of data without
  state, compared by nothing that is modelled.
* Authorization, settings, mails, chat integrations, images and CSV keep no
  state that the modelled parts race for.
* Much of the JavaScript has no behaviour to model. `polyfill.js` is a copy of a
  library. Most of `TaskDetails`, `MyTask`, `Task`, `BatchIndex` and of the
  style guide is markup and styled-components CSS, rendered from properties that
  never change. `javascript/networks` and `transfer_award.js`, which paid through
  Qtum, Cardano, Bitcoin, Tezos, EOS and Ethereum wallets, cannot be reached:
  every transfer button of the views has the class that keeps them from
  starting. `ethereum_controller.js` and `disconnect()` of the WalletConnect
  controller are used by no view. Of what is left, the modules stand for the
  files in which events, calls and answers meet.

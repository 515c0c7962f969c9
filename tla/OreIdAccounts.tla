---------------------------- MODULE OreIdAccounts ----------------------------
(***************************************************************************)
(* The ORE ID account of one person: the row OreIdAccount, its wallets and *)
(* their provisions, the jobs that bring them in line with the ORE ID      *)
(* service, and the requests that come in between (auth/ore_id, the API's  *)
(* wallets and wallet_recovery). The service keeps accounts of its own: one *)
(* the person opened there, one that the API opened.                       *)
(*                                                                         *)
(* An event with a bang (create_remote!, sync_remote!, claim!) is one      *)
(* transaction of the database around several calls of the service: when   *)
(* one of them raises, the row and the wallets are as before, and what the *)
(* service did stays done. A job carries what its transaction has written. *)
(***************************************************************************)
EXTENDS Naturals

CONSTANTS
  Chains,      \* blockchains with ORE ID wallets, one is asked for at a time for each
  Workers,     \* threads of Sidekiq
  MaxMade,     \* bound: chain accounts the API asks for, for each chain
  OreFaults    \* what may go wrong beside calls that raise

AllOreFaults == {"crash", "early"}
ASSUME OreAssumption ==
  MaxMade \in Nat \ {0} /\ OreFaults \subseteq AllOreFaults /\ "none" \notin Workers

VARIABLES
  ore,        \* the row: its state, "none" for no row, and account_name
  wallets,    \* the rows of wallets, each of a chain account or blank
  provision,  \* the provision of the wallet of a chain
  psync,      \* when the provision may be synchronised
  pjobs,      \* the jobs queued with a provision
  sync,       \* latest_synchronisation of the row
  jobs,       \* the kinds of which jobs are queued with the row's id
  lost,       \* history: jobs that ended with their worker
  worker,     \* what a thread is doing
  request,    \* chains of a POST wallets that has made sure of the row
  service     \* the accounts at ORE ID

vars == <<ore, wallets, provision, psync, pjobs, sync, jobs, lost, worker, request, service>>
rows == <<ore, wallets, provision, psync, pjobs, sync, jobs, lost, request>>

States == {"pending", "pending_manual", "unclaimed", "ok"}
Remotes == {"own", "custodial"}
Kinds == {"OreIdSync", "OreIdWalletsSync", "OreIdPasswordUpdateSync"}
ProvisionJobs == {"balance", "create_tx", "sync_tx"}
ProvisionStates == {"pending", "initial_balance_confirmed", "opt_in_created", "provisioned"}

NoRow == [state |-> "none", name |-> "none"]
NoSync == [status |-> "none", due |-> FALSE, by |-> "none"]

WalletRow(c, of) == [chain |-> c, of |-> of]
Blank(c) == WalletRow(c, "blank")

\* adds, fills: rows of wallets inserted, and blank ones given an address, by
\* the transaction of the job. gone: the row was destroyed under the job.
JobStates ==
  [job: Kinds, pc: {"starts", "pulls", "pushes", "pulls_again", "ends"},
   state: States, name: Remotes \cup {"none"}, adds: SUBSET [chain: Chains, of: Remotes],
   fills: SUBSET Chains, todo: SUBSET Chains, gone: BOOLEAN]
Resting == [job |-> "none"]
NoRequest == [chains |-> {}, provisioned |-> {}]

OTypeOK ==
  /\ ore \in [state: States, name: Remotes \cup {"none"}] \cup {NoRow}
  /\ wallets \subseteq [chain: Chains, of: Remotes \cup {"blank"}]
  /\ provision \in [Chains -> ProvisionStates \cup {"none"}]
  /\ psync \in [Chains -> {"none", "recent", "due"}]
  /\ pjobs \in [Chains -> SUBSET ProvisionJobs]
  /\ sync \in [status: {"none", "in_progress", "ok", "failed"}, due: BOOLEAN,
               by: Workers \cup {"none"}]
  /\ jobs \subseteq Kinds /\ lost \subseteq Kinds
  /\ worker \in [Workers -> JobStates \cup {Resting}]
  /\ request \in [chains: SUBSET Chains, provisioned: SUBSET Chains]
  /\ service \in [Remotes -> [exists: BOOLEAN, password: BOOLEAN,
                              made: [Chains -> 0..MaxMade]]]
  /\ ore.state = "none" => wallets = {} /\ jobs = {} /\ sync = NoSync /\ request = NoRequest

Init ==
  /\ ore = NoRow
  /\ wallets = {}
  /\ provision = [c \in Chains |-> "none"]
  /\ psync = [c \in Chains |-> "none"]
  /\ pjobs = [c \in Chains |-> {}]
  /\ sync = NoSync
  /\ jobs = {} /\ lost = {}
  /\ worker = [w \in Workers |-> Resting]
  /\ request = NoRequest
  /\ service = [r \in Remotes |-> [exists |-> FALSE, password |-> FALSE,
                                   made |-> [c \in Chains |-> 0]]]

Exists == ore.state # "none"
Busy(w) == worker[w].job # "none"
Does(w, job, pc) == Busy(w) /\ worker[w].job = job /\ worker[w].pc = pc

\* The row is locked from the update of account_name to the end of the
\* transaction; who wants to write it, or to insert a wallet of it, waits.
Locked == \E w \in Workers : /\ Busy(w) /\ worker[w].job = "OreIdSync"
                             /\ worker[w].pc # "starts" /\ ~worker[w].gone

-----------------------------------------------------------------------------
(* Requests                                                                 *)

\* create_ore_id_account. Nobody schedules anything for a row the person
\* fills in by hand.
CreatesRow(state) ==
  /\ ore' = [state |-> state, name |-> "none"]
  /\ jobs' = IF state = "pending_manual" THEN jobs ELSE jobs \cup {"OreIdSync"}

EnsuresRow(state) == IF Exists THEN UNCHANGED <<ore, jobs>> ELSE CreatesRow(state)

\* auth/ore_id/new.
LinksManually ==
  /\ ~Exists
  /\ EnsuresRow("pending_manual")
  /\ UNCHANGED <<wallets, provision, psync, pjobs, sync, lost, worker, request, service>>

\* auth/ore_id/receive: the person comes back from ORE ID with an account.
Receives(r) ==
  /\ service[r].exists /\ ~Locked
  /\ ore' = [state |-> "ok", name |-> r]
  /\ jobs' = jobs \cup {"OreIdWalletsSync"}
  /\ UNCHANGED <<wallets, provision, psync, pjobs, sync, lost, worker, request, service>>

\* Mutant: the wallets are left behind.
UnlinksRowOnly ==
  /\ Exists /\ ~Locked
  /\ ore' = NoRow
  /\ sync' = NoSync /\ jobs' = {} /\ lost' = {}
  /\ worker' = [w \in Workers |-> IF Busy(w) THEN [worker[w] EXCEPT !.gone = TRUE] ELSE Resting]
  /\ request' = NoRequest
  /\ UNCHANGED <<wallets, provision, psync, pjobs, service>>

\* auth/ore_id/destroy: unlink! destroys the row and all that is of it. Its
\* jobs find nothing any more, and a POST under way breaks on the missing row.
Unlinks ==
  /\ Exists /\ ~Locked
  /\ ore' = NoRow /\ wallets' = {}
  /\ provision' = [c \in Chains |-> "none"]
  /\ psync' = [c \in Chains |-> "none"]
  /\ pjobs' = [c \in Chains |-> {}]
  /\ sync' = NoSync /\ jobs' = {} /\ lost' = {}
  /\ worker' = [w \in Workers |-> IF Busy(w) THEN [worker[w] EXCEPT !.gone = TRUE] ELSE Resting]
  /\ request' = NoRequest
  /\ UNCHANGED service

\* POST wallets, validation: create_ore_id commits the row, with its job,
\* before there is a wallet. ps: the chains with tokens_to_provision.
AsksForWallets(cs, ps) ==
  /\ request = NoRequest
  /\ cs # {} /\ ps \subseteq cs
  /\ \A x \in wallets : x.chain \notin cs
  /\ EnsuresRow("pending")
  /\ request' = [chains |-> cs, provisioned |-> ps]
  /\ UNCHANGED <<wallets, provision, psync, pjobs, sync, lost, worker, service>>

\* account.save. early: a job runs before the commit, finds no provision, and
\* is discarded.
InsertsWallets(early) ==
  /\ request # NoRequest /\ ~Locked
  /\ early \subseteq request.provisioned /\ ("early" \notin OreFaults => early = {})
  /\ wallets' = wallets \cup {Blank(c) : c \in request.chains}
  /\ provision' = [c \in Chains |-> IF c \in request.provisioned THEN "pending" ELSE provision[c]]
  /\ pjobs' = [c \in Chains |-> IF c \in request.provisioned \ early THEN {"balance"} ELSE pjobs[c]]
  /\ request' = NoRequest
  /\ UNCHANGED <<ore, psync, sync, jobs, lost, worker, service>>

\* wallet_recovery/recover.
Recovers ==
  /\ Exists
  /\ jobs' = jobs \cup {"OreIdPasswordUpdateSync"}
  /\ UNCHANGED <<ore, wallets, provision, psync, pjobs, sync, lost, worker, request, service>>

-----------------------------------------------------------------------------
(* Jobs of the row                                                          *)

Allowed(s) == s.status = "none" \/ (s.status # "in_progress" /\ s.due)

\* perform, up to create_synchronisation. A row has one OreIdSync; every receive
\* and every recovery queues a job of its own, and another one may be left.
Begins(w, k) ==
  /\ ~Busy(w) /\ k \in jobs /\ Allowed(sync)
  /\ jobs' \in {jobs \ {k}} \cup (IF k = "OreIdSync" THEN {} ELSE {jobs})
  /\ sync' = [status |-> "in_progress", due |-> FALSE, by |-> w]
  /\ worker' = [worker EXCEPT ![w] =
       [job |-> k, pc |-> "starts", state |-> ore.state, name |-> ore.name,
        adds |-> {}, fills |-> {}, todo |-> {}, gone |-> FALSE]]
  /\ UNCHANGED <<ore, wallets, provision, psync, pjobs, lost, request, service>>

\* A job that is not allowed to begin is put back; the one that finds a
\* synchronisation a minute in progress declares it failed.
DeclaresFailed ==
  /\ jobs # {} /\ \E w \in Workers : ~Busy(w)
  /\ sync.status = "in_progress" /\ sync.due
  /\ sync' = [sync EXCEPT !.status = "failed", !.due = FALSE]
  /\ UNCHANGED <<ore, wallets, provision, psync, pjobs, jobs, lost, worker, request, service>>

Rests(w) == worker' = [worker EXCEPT ![w] = Resting]

Closes(w, status) ==
  sync' = IF sync.by = w THEN [status |-> status, due |-> FALSE, by |-> "none"] ELSE sync

\* Mutant: only a job that may not begin is put back.
GivesUp(w) ==
  /\ Closes(w, "failed")
  /\ Rests(w)
  /\ UNCHANGED jobs

\* The branches of rescue. The transaction is rolled back, the job put back; a
\* job without its row has nothing to write.
Reschedules(w) ==
  /\ Closes(w, "failed")
  /\ jobs' = IF worker[w].gone THEN jobs ELSE jobs \cup {worker[w].job}
  /\ Rests(w)

\* Something raises: a call of the service or a chain, ProvisioningError,
\* AASM::InvalidTransition.
Fails(w) ==
  /\ Busy(w)
  /\ Reschedules(w)
  /\ UNCHANGED <<ore, wallets, provision, psync, pjobs, lost, request, service>>

Crashes(w) ==
  /\ "crash" \in OreFaults
  /\ Busy(w) /\ ~worker[w].gone
  /\ lost' = lost \cup {worker[w].job}
  /\ Rests(w)
  /\ UNCHANGED <<ore, wallets, provision, psync, pjobs, sync, jobs, request, service>>

\* What the transaction of w sees of the wallets.
Seen(w) == (wallets \ {Blank(c) : c \in worker[w].fills}) \cup worker[w].adds

\* create_account. A second one for the same mail is refused
\* (RemoteUserExistsError), whoever asks.
OpensAccount(w) ==
  /\ Does(w, "OreIdSync", "starts")
  /\ ~service["custodial"].exists
  /\ service' = [service EXCEPT !["custodial"].exists = TRUE]
  /\ worker' = [worker EXCEPT ![w].pc = "pulls", ![w].name = "custodial"]
  /\ UNCHANGED rows

\* sync_remote! begins with the wallets.
StartsPulling(w) ==
  /\ Does(w, "OreIdWalletsSync", "starts")
  /\ worker[w].name # "none"
  /\ worker' = [worker EXCEPT ![w].pc = "pulls"]
  /\ UNCHANGED <<rows, service>>

\* Mutant: chain accounts are asked for first.
BlankBefore(w, new) == {c \in Chains : Blank(c) \in Seen(w)}

\* push_wallets takes the list of blank wallets once, after the pull.
BlankAfter(w, new) == {c \in Chains : Blank(c) \in Seen(w)} \ {x.chain : x \in new}

Pushes(w) == worker[w].job = "OreIdSync" \/ worker[w].state # "ok"

\* pull_wallets: a chain account that no wallet has goes to the blank one of
\* its chain, or to a new one.
Pulls(w) ==
  /\ Busy(w) /\ worker[w].pc \in {"pulls", "pulls_again"} /\ ~worker[w].gone
  /\ LET r == worker[w].name
         new == {WalletRow(c, r) : c \in {d \in Chains : /\ service[r].made[d] > 0
                                                          /\ WalletRow(d, r) \notin Seen(w)}}
         todo == IF worker[w].pc = "pulls_again" THEN worker[w].todo
                 ELSE IF Pushes(w) THEN BlankAfter(w, new) ELSE {}
     IN worker' = [worker EXCEPT
          ![w].adds = @ \cup new,
          ![w].fills = @ \cup {c \in {x.chain : x \in new} : Blank(c) \in Seen(w)},
          ![w].todo = todo,
          ![w].pc = IF todo = {} THEN "ends" ELSE "pushes"]
  /\ UNCHANGED <<rows, service>>

\* create_wallet asks for a chain account, and pulls. Its answer may be lost.
MakesWallet(w, c, answered) ==
  /\ Busy(w) /\ worker[w].pc = "pushes"
  /\ c \in worker[w].todo
  /\ service[worker[w].name].made[c] < MaxMade
  /\ service' = [service EXCEPT ![worker[w].name].made[c] = @ + 1]
  /\ IF answered
     THEN /\ worker' = [worker EXCEPT ![w].pc = "pulls_again", ![w].todo = @ \ {c}]
          /\ UNCHANGED <<sync, jobs>>
     ELSE Reschedules(w)
  /\ UNCHANGED <<ore, wallets, provision, psync, pjobs, lost, request>>

\* The transition and the commit. The state is saved when the one the job has
\* loaded changes, and over whatever the row has now.
Commits(w) ==
  /\ Busy(w) /\ worker[w].pc = "ends" /\ ~worker[w].gone
  /\ CASE worker[w].job = "OreIdSync" ->
            /\ worker[w].state = "pending"
            /\ ore' = [state |-> "unclaimed", name |-> worker[w].name]
       [] worker[w].job = "OreIdWalletsSync" ->
            /\ worker[w].state # "pending"
            /\ ore' = IF worker[w].state = "pending_manual"
                      THEN [ore EXCEPT !.state = "ok"] ELSE ore
  /\ wallets' = Seen(w)
  /\ Closes(w, "ok")
  /\ Rests(w)
  /\ UNCHANGED <<provision, psync, pjobs, jobs, lost, request, service>>

NoPendingProvisions == \A c \in Chains : provision[c] \in {"none", "provisioned"}

\* Mutant: sync_password_update does not raise.
ClaimsUnasked(w) ==
  /\ Does(w, "OreIdPasswordUpdateSync", "starts") /\ ~worker[w].gone
  /\ NoPendingProvisions
  /\ worker[w].name # "none"
  /\ worker[w].state = "unclaimed"
  /\ ore' = [ore EXCEPT !.state = "ok"]
  /\ Closes(w, "ok")
  /\ Rests(w)
  /\ UNCHANGED <<wallets, provision, psync, pjobs, jobs, lost, request, service>>

\* claim!, where it does not raise.
Claims(w) ==
  /\ Does(w, "OreIdPasswordUpdateSync", "starts") /\ ~worker[w].gone
  /\ NoPendingProvisions
  /\ worker[w].name # "none" /\ service[worker[w].name].password
  /\ worker[w].state = "unclaimed"
  /\ ore' = [ore EXCEPT !.state = "ok"]
  /\ Closes(w, "ok")
  /\ Rests(w)
  /\ UNCHANGED <<wallets, provision, psync, pjobs, jobs, lost, request, service>>

-----------------------------------------------------------------------------
(* Jobs of a provision. Nobody else writes its row, so each is one step. A  *)
(* job that is put back is put back with the id of the provision, which     *)
(* perform takes for the provision itself: it is never done.                *)

TakesJob(c, j, more) == pjobs' = [pjobs EXCEPT ![c] = (@ \ {j}) \cup more]

\* Not allowed yet.
Postpones(c, j) ==
  /\ j \in pjobs[c] /\ psync[c] = "recent"
  /\ TakesJob(c, j, {})
  /\ UNCHANGED <<ore, wallets, provision, psync, sync, jobs, lost, worker, request, service>>

\* create_tx signs for a pending account that has a name, and for no other.
Signs == ore.state = "pending" /\ ore.name # "none"

\* Where sync_balance, create_opt_in_tx and sync_opt_in_tx take a provision;
\* where it is when they raise or find it elsewhere. good: coins on the chain,
\* which takes an address, or an answer of the service or the chain.
Reached(c, j, good) ==
  CASE j = "balance" /\ provision[c] = "pending" /\ good /\ Blank(c) \notin wallets ->
         "initial_balance_confirmed"
    [] j = "create_tx" /\ provision[c] = "initial_balance_confirmed" /\ good /\ Signs ->
         "opt_in_created"
    [] j = "sync_tx" /\ provision[c] = "opt_in_created" /\ good -> "provisioned"
    [] OTHER -> provision[c]

\* after_update schedules what comes next.
Follows(c, state) ==
  IF state = provision[c] THEN {}
  ELSE IF state = "initial_balance_confirmed" THEN {"create_tx"}
  ELSE IF state = "opt_in_created" THEN {"sync_tx"} ELSE {}

Performs(c, j, good) ==
  /\ j \in pjobs[c] /\ psync[c] # "recent"
  /\ LET state == Reached(c, j, good)
     IN /\ TakesJob(c, j, Follows(c, state))
        /\ provision' = [provision EXCEPT ![c] = state]
  /\ psync' = [psync EXCEPT ![c] = "recent"]
  /\ UNCHANGED <<ore, wallets, sync, jobs, lost, worker, request, service>>

-----------------------------------------------------------------------------
(* Time and the service                                                     *)

\* Enough time for the next synchronisation, or a minute in progress.
TimePasses ==
  /\ sync.status # "none" /\ ~sync.due
  /\ sync' = [sync EXCEPT !.due = TRUE]
  /\ UNCHANGED <<ore, wallets, provision, psync, pjobs, jobs, lost, worker, request, service>>

TimePassesFor(c) ==
  /\ psync[c] = "recent"
  /\ psync' = [psync EXCEPT ![c] = "due"]
  /\ UNCHANGED <<ore, wallets, provision, pjobs, sync, jobs, lost, worker, request, service>>

\* A person signs up at ORE ID, with chain accounts or without.
SignsUp(cs) ==
  /\ ~service["own"].exists
  /\ service' = [service EXCEPT !["own"] =
       [exists |-> TRUE, password |-> TRUE, made |-> [c \in Chains |-> IF c \in cs THEN 1 ELSE 0]]]
  /\ UNCHANGED <<rows, worker>>

\* The person sets a password for the account the API opened.
UpdatesPassword ==
  /\ service["custodial"].exists /\ ~service["custodial"].password
  /\ service' = [service EXCEPT !["custodial"].password = TRUE]
  /\ UNCHANGED <<rows, worker>>

\* The service has done it, and the job hears nothing.
OpensUnheard(w) ==
  /\ Does(w, "OreIdSync", "starts")
  /\ ~service["custodial"].exists
  /\ service' = [service EXCEPT !["custodial"].exists = TRUE]
  /\ Reschedules(w)
  /\ UNCHANGED <<ore, wallets, provision, psync, pjobs, lost, request>>

-----------------------------------------------------------------------------

Requests ==
  \/ LinksManually \/ Unlinks \/ Recovers
  \/ \E r \in Remotes : Receives(r)
  \/ \E cs, ps \in SUBSET Chains : AsksForWallets(cs, ps)
  \/ \E early \in SUBSET Chains : InsertsWallets(early)

Job(w) ==
  \/ \E k \in Kinds : Begins(w, k)
  \/ Fails(w) \/ Crashes(w)
  \/ OpensAccount(w) \/ OpensUnheard(w) \/ StartsPulling(w) \/ Pulls(w)
  \/ \E c \in Chains, answered \in BOOLEAN : MakesWallet(w, c, answered)
  \/ Commits(w) \/ Claims(w)

ProvisionJob(c) ==
  \/ \E j \in ProvisionJobs : Postpones(c, j) \/ \E good \in BOOLEAN : Performs(c, j, good)
  \/ TimePassesFor(c)

Outside ==
  \/ DeclaresFailed \/ TimePasses \/ UpdatesPassword
  \/ \E cs \in SUBSET Chains : SignsUp(cs)

Next ==
  \/ Requests \/ Outside
  \/ \E w \in Workers : Job(w)
  \/ \E c \in Chains : ProvisionJob(c)

Spec == Init /\ [][Next]_vars

-----------------------------------------------------------------------------
(* Properties                                                               *)

\* A pending account is never forgotten: its job is queued, or under way, or
\* ended with its worker. (schedule_sync is called once, so every branch of
\* OreIdSyncJob has to put the job back, and whatever else writes the row has to
\* leave it another state.)
PendingIsWorkedOn ==
  ore.state = "pending" =>
    \/ "OreIdSync" \in jobs \cup lost
    \/ \E w \in Workers : Busy(w) /\ worker[w].job = "OreIdSync" /\ ~worker[w].gone

\* What the comment of wallet_provision.rb says of the accounts that the API
\* opens: they are pending while a balance is confirmed and an opt-in made. The
\* code does not keep it: create_remote! names the account, fills its wallets
\* and ends its pending state in one transaction, and only then is there an
\* address to have a balance.
PendingUntilProvisioned ==
  ore.name = "custodial" /\ ore.state # "pending" =>
    \A c \in Chains : provision[c] \notin {"initial_balance_confirmed", "opt_in_created"}

\* A job makes an unclaimed account ok only when its person has set a password
\* and no provision of its wallets is open, whatever was asked for between its
\* loading and its saving.
ClaimedWhenProvisioned ==
  [][\A w \in Workers :
       Busy(w) /\ worker'[w] = Resting /\ ore.state # "ok" /\ ore'.state = "ok" =>
         /\ service[ore.name].password
         /\ \A c \in Chains : provision[c] \in {"none", "provisioned"}]_vars

\* The API asks for one chain account for each wallet, although answers are lost
\* and jobs repeated: a job pulls what is there before it pushes. (With one
\* worker, as sidekiq.yml has it.)
OneChainAccount == \A c \in Chains : service["custodial"].made[c] <= 1

=============================================================================

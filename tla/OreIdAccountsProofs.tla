------------------------- MODULE OreIdAccountsProofs -------------------------
(***************************************************************************)
(* Theorems about ORE ID accounts, for any chains, any number of workers   *)
(* and all faults: what the transactions around remote calls keep together, *)
(* and what they make impossible. What is asked of the service only once   *)
(* needs the one worker that sidekiq.yml gives the queues.                 *)
(***************************************************************************)
EXTENDS OreIdAccounts, TLAPS

Linked(s) == s \in {"unclaimed", "ok"}

\* What a job under way knows, given the state s the row has now. An account
\* that was linked or opened when the job loaded it does not become another
\* state again, unless it is destroyed.
GoodJob(j, s) ==
  /\ j \in JobStates
  /\ j.job = "OreIdSync" /\ j.pc # "starts" => j.name = "custodial"
  /\ j.job = "OreIdPasswordUpdateSync" => j.pc = "starts"
  /\ j.job = "OreIdWalletsSync" => Linked(j.state)
  /\ j.pc # "starts" => j.name # "none"
  /\ j.state = "unclaimed" => j.name = "custodial"
  /\ ~j.gone => s # "none"
  /\ ~j.gone /\ Linked(j.state) => Linked(s)

GoodJobs == \A w \in Workers : Busy(w) => GoodJob(worker[w], ore.state)

\* The latest synchronisation is not of a job whose row was destroyed.
SyncHasRow == \A w \in Workers : Busy(w) /\ worker[w].gone => sync.by # w

\* No provision gets beyond its balance: create_tx wants a pending account that
\* has a name, and the transaction of create_remote! gives the account its name
\* together with its next state.
NoOptIns ==
  /\ ore.state = "pending" => ore.name = "none"
  /\ \A c \in Chains : provision[c] \notin {"opt_in_created", "provisioned"}

OreInv ==
  /\ OTypeOK
  /\ NoOptIns
  /\ PendingIsWorkedOn
  /\ ore.state = "unclaimed" => ore.name = "custodial"
  /\ "OreIdWalletsSync" \in jobs => Linked(ore.state)
  /\ GoodJobs
  /\ SyncHasRow

\* No provision can be signed for.
LEMMA NothingSigns == ASSUME NoOptIns PROVE ~Signs
BY DEF NoOptIns, Signs

-----------------------------------------------------------------------------
(* Jobs of the row                                                          *)

\* A job that goes on with what it is about changes no row.
LEMMA GoesOn ==
  ASSUME OreInv, NEW w \in Workers, NEW j, Busy(w),
         GoodJob(j, ore.state), j.job = worker[w].job, j.gone = worker[w].gone,
         worker' = [worker EXCEPT ![w] = j], UNCHANGED rows,
         service' \in [Remotes -> [exists: BOOLEAN, password: BOOLEAN, made: [Chains -> 0..MaxMade]]]
  PROVE  OreInv'
<1>1. /\ worker \in [Workers -> JobStates \cup {Resting}] /\ j \in JobStates
      /\ worker' \in [Workers -> JobStates \cup {Resting}]
      /\ worker'[w] = j /\ \A v \in Workers \ {w} : worker'[v] = worker[v]
  BY DEF OreInv, OTypeOK, GoodJob
<1>2. OTypeOK'
  BY <1>1 DEF OreInv, OTypeOK, rows
<1>3. \A v \in Workers : Busy(v)' => GoodJob(worker'[v], ore'.state)
  BY <1>1 DEF OreInv, GoodJobs, Busy, rows
<1>4. SyncHasRow'
  BY <1>1 DEF OreInv, SyncHasRow, Busy, rows
<1>5. PendingIsWorkedOn' /\ NoOptIns'
  BY <1>1 DEF OreInv, PendingIsWorkedOn, NoOptIns, Busy, rows
<1>6. GoodJobs'
  BY <1>3 DEF GoodJobs
<1>7. /\ ore'.state = "unclaimed" => ore'.name = "custodial"
      /\ "OreIdWalletsSync" \in jobs' => Linked(ore'.state)
  BY DEF OreInv, rows
<1> QED BY <1>2, <1>4, <1>5, <1>6, <1>7 DEF OreInv

\* A job that ends may leave the row as it is, or bring it to unclaimed or ok.
LEMMA JobEnds ==
  ASSUME OreInv, NEW w \in Workers, Busy(w), Rests(w),
         sync' \in [status: {"none", "in_progress", "ok", "failed"}, due: BOOLEAN,
                    by: Workers \cup {"none"}],
         sync'.by \in {sync.by, "none"},
         ore' = ore \/ ore' \in [state: {"unclaimed", "ok"}, name: Remotes \cup {"none"}],
         ore'.state = "unclaimed" => ore'.name = "custodial",
         wallets' \subseteq [chain: Chains, of: Remotes \cup {"blank"}],
         jobs \subseteq jobs' /\ lost \subseteq lost',
         jobs' = jobs \/ jobs' = jobs \cup {worker[w].job},
         lost' \subseteq Kinds,
         worker[w].gone => ore' = ore /\ wallets' = wallets /\ jobs' = jobs /\ sync' = sync,
         ore' = ore => worker[w].gone \/ worker[w].job \in jobs' \cup lost' \/ ore.state # "pending",
         service' \in [Remotes -> [exists: BOOLEAN, password: BOOLEAN, made: [Chains -> 0..MaxMade]]],
         UNCHANGED <<provision, psync, pjobs, request>>
  PROVE  OreInv'
<1>1. /\ worker \in [Workers -> JobStates \cup {Resting}]
      /\ worker' \in [Workers -> JobStates \cup {Resting}]
      /\ worker'[w] = Resting /\ \A v \in Workers \ {w} : worker'[v] = worker[v]
  BY DEF OreInv, OTypeOK, Rests
<1>2. worker[w] \in JobStates /\ worker[w].job \in Kinds /\ GoodJob(worker[w], ore.state)
  BY DEF OreInv, GoodJobs, GoodJob, JobStates
<1>3. ~Busy(w)'
  BY <1>1 DEF Busy, Resting
<1>4. ore' \in [state: States, name: Remotes \cup {"none"}] \cup {NoRow}
  BY DEF OreInv, OTypeOK, States
<1>5. ore.state = "none" => ore' = ore /\ wallets' = wallets /\ jobs' = jobs /\ sync' = sync
  BY <1>2 DEF GoodJob
<1>6. ore'.state = "none" => ore' = ore /\ ore.state = "none"
  OBVIOUS
<1>7. OTypeOK'
  BY <1>1, <1>2, <1>4, <1>5, <1>6 DEF OreInv, OTypeOK
<1>8. Linked(ore.state) => Linked(ore'.state)
  BY DEF Linked
<1>9. \A v \in Workers : Busy(v)' => GoodJob(worker'[v], ore'.state)
  BY <1>1, <1>3, <1>6, <1>8 DEF OreInv, GoodJobs, Busy, GoodJob
<1>10. SyncHasRow'
  BY <1>1, <1>3, OreAssumption DEF OreInv, SyncHasRow, Busy
<1>11. PendingIsWorkedOn'
  <2> SUFFICES ASSUME ore'.state = "pending"
               PROVE  \/ "OreIdSync" \in jobs' \cup lost'
                      \/ \E v \in Workers : Busy(v)' /\ worker'[v].job = "OreIdSync" /\ ~worker'[v].gone
    BY DEF PendingIsWorkedOn, Busy
  <2>1. ore' = ore
    OBVIOUS
  <2>2. CASE "OreIdSync" \in jobs \cup lost
    BY <2>2
  <2>3. CASE \E v \in Workers : Busy(v) /\ worker[v].job = "OreIdSync" /\ ~worker[v].gone
    BY <1>1, <2>1, <2>3 DEF Busy
  <2> QED BY <2>1, <2>2, <2>3 DEF OreInv, PendingIsWorkedOn
<1>12. NoOptIns'
  BY DEF OreInv, NoOptIns
<1>13. "OreIdWalletsSync" \in jobs' => Linked(ore'.state)
  <2>1. CASE "OreIdWalletsSync" \in jobs
    BY <1>8, <2>1 DEF OreInv
  <2>2. CASE "OreIdWalletsSync" \notin jobs /\ worker[w].job = "OreIdWalletsSync" /\ ~worker[w].gone
    BY <1>2, <1>8, <2>2 DEF GoodJob
  <2> QED BY <2>1, <2>2
<1>14. GoodJobs'
  BY <1>9 DEF GoodJobs
<1> QED BY <1>7, <1>10, <1>11, <1>12, <1>13, <1>14 DEF OreInv

LEMMA SeenTyped ==
  ASSUME OreInv, NEW w \in Workers, Busy(w)
  PROVE  Seen(w) \subseteq [chain: Chains, of: Remotes \cup {"blank"}]
<1>1. worker[w] \in JobStates
  BY DEF OreInv, GoodJobs, GoodJob
<1>2. worker[w].adds \subseteq [chain: Chains, of: Remotes]
  BY <1>1 DEF JobStates
<1> QED BY <1>2 DEF OreInv, OTypeOK, Seen

\* A worker that has not lost its row has one.
LEMMA BusyHasRow ==
  ASSUME OreInv, NEW w \in Workers, Busy(w), Linked(worker[w].state), ~worker[w].gone
  PROVE  Linked(ore.state)
BY DEF OreInv, GoodJobs, GoodJob

LEMMA ClosesTyped ==
  ASSUME OreInv, NEW w \in Workers, Busy(w), NEW status \in {"ok", "failed"}, Closes(w, status)
  PROVE  /\ sync' \in [status: {"none", "in_progress", "ok", "failed"}, due: BOOLEAN,
                       by: Workers \cup {"none"}]
         /\ sync'.by \in {sync.by, "none"}
         /\ worker[w].gone => sync' = sync
BY DEF OreInv, OTypeOK, SyncHasRow, Closes

LEMMA FailsStep ==
  ASSUME OreInv, NEW w \in Workers, Busy(w), Reschedules(w),
         service' \in [Remotes -> [exists: BOOLEAN, password: BOOLEAN, made: [Chains -> 0..MaxMade]]],
         UNCHANGED <<ore, wallets, provision, psync, pjobs, lost, request>>
  PROVE  OreInv'
<1>1. Closes(w, "failed") /\ Rests(w)
  BY DEF Reschedules
<1>2. /\ sync' \in [status: {"none", "in_progress", "ok", "failed"}, due: BOOLEAN,
                    by: Workers \cup {"none"}]
      /\ sync'.by \in {sync.by, "none"}
      /\ worker[w].gone => sync' = sync
  BY <1>1, ClosesTyped
<1>3. jobs' = IF worker[w].gone THEN jobs ELSE jobs \cup {worker[w].job}
  BY DEF Reschedules
<1>4. /\ wallets' \subseteq [chain: Chains, of: Remotes \cup {"blank"}] /\ lost' \subseteq Kinds
      /\ ore'.state = "unclaimed" => ore'.name = "custodial"
  BY DEF OreInv, OTypeOK
<1> QED BY <1>1, <1>2, <1>3, <1>4, JobEnds

LEMMA CrashesStep ==
  ASSUME OreInv, NEW w \in Workers, Crashes(w) PROVE OreInv'
<1>1. worker[w].job \in Kinds /\ Busy(w) /\ Rests(w) /\ ~worker[w].gone
  BY DEF OreInv, Crashes, GoodJobs, GoodJob, JobStates
<1>2. /\ wallets' \subseteq [chain: Chains, of: Remotes \cup {"blank"}]
      /\ lost' = lost \cup {worker[w].job} /\ lost' \subseteq Kinds
      /\ ore'.state = "unclaimed" => ore'.name = "custodial"
      /\ service' \in [Remotes -> [exists: BOOLEAN, password: BOOLEAN, made: [Chains -> 0..MaxMade]]]
      /\ sync' \in [status: {"none", "in_progress", "ok", "failed"}, due: BOOLEAN,
                    by: Workers \cup {"none"}]
      /\ UNCHANGED <<ore, wallets, provision, psync, pjobs, sync, jobs, request, service>>
  BY <1>1 DEF OreInv, OTypeOK, Crashes
<1> QED BY <1>1, <1>2, JobEnds

\* An event that commits.
LEMMA CommitsStep ==
  ASSUME OreInv, NEW w \in Workers, Commits(w) \/ Claims(w) PROVE OreInv'
<1>1. /\ Busy(w) /\ Rests(w) /\ ~worker[w].gone /\ Closes(w, "ok")
      /\ UNCHANGED <<provision, psync, pjobs, jobs, lost, request, service>>
  BY DEF Commits, Claims, Does
<1>2. /\ sync' \in [status: {"none", "in_progress", "ok", "failed"}, due: BOOLEAN,
                    by: Workers \cup {"none"}]
      /\ sync'.by \in {sync.by, "none"}
  BY <1>1, ClosesTyped
<1>3. /\ GoodJob(worker[w], ore.state) /\ worker[w].job \in Kinds
      /\ worker[w].name \in Remotes \cup {"none"} /\ worker[w].state \in States
  BY <1>1 DEF OreInv, GoodJobs, GoodJob, JobStates
<1>4. wallets' \subseteq [chain: Chains, of: Remotes \cup {"blank"}]
  <2>1. CASE Commits(w)
    BY <1>1, <2>1, SeenTyped DEF Commits
  <2>2. CASE Claims(w)
    BY <2>2 DEF Claims, OreInv, OTypeOK
  <2> QED BY <2>1, <2>2
<1>5. /\ service' \in [Remotes -> [exists: BOOLEAN, password: BOOLEAN, made: [Chains -> 0..MaxMade]]]
      /\ lost' \subseteq Kinds
  BY <1>1 DEF OreInv, OTypeOK
<1>6. /\ ore' = ore \/ ore' \in [state: {"unclaimed", "ok"}, name: Remotes \cup {"none"}]
      /\ ore'.state = "unclaimed" => ore'.name = "custodial"
      /\ ore' = ore => worker[w].job \in jobs' \cup lost' \/ ore.state # "pending"
  <2>1. CASE Commits(w) /\ worker[w].job = "OreIdSync"
    <3>1. ore' = [state |-> "unclaimed", name |-> worker[w].name] /\ worker[w].pc = "ends"
      BY <2>1 DEF Commits
    <3>2. worker[w].name = "custodial"
      BY <1>3, <2>1, <3>1 DEF GoodJob
    <3> QED BY <3>1, <3>2 DEF Remotes
  <2>2. CASE Commits(w) /\ worker[w].job = "OreIdWalletsSync"
    <3>1. Linked(worker[w].state) /\ Linked(ore.state)
      BY <1>1, <1>3, <2>2 DEF GoodJob
    <3>2. ore' = ore
      BY <2>2, <3>1 DEF Commits, Linked
    <3> QED BY <3>1, <3>2 DEF OreInv, Linked
  <2>3. CASE Claims(w)
    <3>1. Linked(worker[w].state)
      BY <2>3 DEF Claims, Linked
    <3>2. Linked(ore.state)
      BY <1>1, <1>3, <3>1 DEF GoodJob
    <3>3. ore \in [state: States, name: Remotes \cup {"none"}]
      BY <3>2 DEF OreInv, OTypeOK, Linked, NoRow
    <3> QED BY <2>3, <3>2, <3>3 DEF Claims, Linked
  <2>4. ~(Commits(w) /\ worker[w].job = "OreIdPasswordUpdateSync")
    BY <1>3 DEF Commits, GoodJob
  <2> QED BY <1>3, <2>1, <2>2, <2>3, <2>4 DEF Kinds
<1> QED BY <1>1, <1>2, <1>4, <1>5, <1>6, JobEnds

\* The record of a job that begins, or goes on.
LEMMA BeginsStep ==
  ASSUME OreInv, NEW w \in Workers, NEW k \in Kinds, Begins(w, k) PROVE OreInv'
<1> DEFINE j == [job |-> k, pc |-> "starts", state |-> ore.state, name |-> ore.name,
                 adds |-> {}, fills |-> {}, todo |-> {}, gone |-> FALSE]
<1>1. /\ k \in jobs /\ jobs' \in {jobs \ {k}, jobs} /\ worker' = [worker EXCEPT ![w] = j]
      /\ sync' = [status |-> "in_progress", due |-> FALSE, by |-> w]
      /\ UNCHANGED <<ore, wallets, provision, psync, pjobs, lost, request, service>>
  BY DEF Begins
<1>2. ore \in [state: States, name: Remotes \cup {"none"}]
  BY <1>1 DEF OreInv, OTypeOK, NoRow
<1>3. j \in JobStates
  BY <1>2 DEF JobStates
<1>4. GoodJob(j, ore.state)
  BY <1>1, <1>2, <1>3 DEF GoodJob, OreInv, States
<1>5. /\ j.job = k /\ j.gone = FALSE /\ k # "none"
  BY DEF Kinds
<1> HIDE DEF j
<1>6. /\ worker' \in [Workers -> JobStates \cup {Resting}] /\ worker'[w] = j
      /\ \A v \in Workers \ {w} : worker'[v] = worker[v]
  BY <1>1, <1>3 DEF OreInv, OTypeOK
<1>7. OTypeOK'
  BY <1>1, <1>2, <1>6 DEF OreInv, OTypeOK, States
<1>8. \A v \in Workers : Busy(v)' => GoodJob(worker'[v], ore'.state)
  BY <1>1, <1>4, <1>6 DEF OreInv, GoodJobs, Busy
<1>9. GoodJobs'
  BY <1>8 DEF GoodJobs
<1>10. SyncHasRow'
  BY <1>1, <1>5, <1>6 DEF SyncHasRow
<1>11. PendingIsWorkedOn'
  <2>1. CASE k = "OreIdSync"
    BY <1>5, <1>6, <2>1 DEF PendingIsWorkedOn, Busy
  <2>2. CASE k # "OreIdSync" /\ "OreIdSync" \in jobs \cup lost
    BY <1>1, <2>2 DEF PendingIsWorkedOn
  <2>3. CASE \E v \in Workers : Busy(v) /\ worker[v].job = "OreIdSync" /\ ~worker[v].gone
    <3>1. PICK v \in Workers : Busy(v) /\ worker[v].job = "OreIdSync" /\ ~worker[v].gone
      BY <2>3
    <3>2. v # w
      BY <3>1 DEF Begins
    <3> QED BY <1>6, <3>1, <3>2 DEF PendingIsWorkedOn, Busy
  <2>4. CASE ore.state # "pending"
    BY <1>1, <2>4 DEF PendingIsWorkedOn
  <2> QED BY <2>1, <2>2, <2>3, <2>4 DEF OreInv, PendingIsWorkedOn
<1>12. NoOptIns'
  BY <1>1 DEF OreInv, NoOptIns
<1>13. /\ ore'.state = "unclaimed" => ore'.name = "custodial"
       /\ "OreIdWalletsSync" \in jobs' => Linked(ore'.state)
  BY <1>1 DEF OreInv
<1> QED BY <1>7, <1>9, <1>10, <1>11, <1>12, <1>13 DEF OreInv

LEMMA OpensStep ==
  ASSUME OreInv, NEW w \in Workers, OpensAccount(w) \/ StartsPulling(w) PROVE OreInv'
<1>1. Busy(w) /\ worker[w].pc = "starts"
  BY DEF OpensAccount, StartsPulling, Does
<1>2. worker[w] \in JobStates /\ GoodJob(worker[w], ore.state)
  BY <1>1 DEF OreInv, GoodJobs, GoodJob
<1>3. worker \in [Workers -> JobStates \cup {Resting}]
  BY DEF OreInv, OTypeOK
<1>4. CASE OpensAccount(w)
  <2> DEFINE j == [worker[w] EXCEPT !.pc = "pulls", !.name = "custodial"]
  <2>1. worker' = [worker EXCEPT ![w] = j] /\ UNCHANGED rows /\ worker[w].job = "OreIdSync"
    BY <1>3, <1>4 DEF OpensAccount, Does
  <2>2. GoodJob(j, ore.state) /\ j.job = worker[w].job /\ j.gone = worker[w].gone
    BY <1>2, <2>1 DEF GoodJob, JobStates, Remotes
  <2>3. service' \in [Remotes -> [exists: BOOLEAN, password: BOOLEAN, made: [Chains -> 0..MaxMade]]]
    BY <1>4 DEF OpensAccount, OreInv, OTypeOK, Remotes
  <2> QED BY <1>1, <2>1, <2>2, <2>3, GoesOn
<1>5. CASE StartsPulling(w)
  <2> DEFINE j == [worker[w] EXCEPT !.pc = "pulls"]
  <2>1. /\ worker' = [worker EXCEPT ![w] = j] /\ UNCHANGED <<rows, service>>
        /\ worker[w].job = "OreIdWalletsSync" /\ worker[w].name # "none"
    BY <1>3, <1>5 DEF StartsPulling, Does
  <2>2. GoodJob(j, ore.state) /\ j.job = worker[w].job /\ j.gone = worker[w].gone
    BY <1>2, <2>1 DEF GoodJob, JobStates
  <2>3. service' \in [Remotes -> [exists: BOOLEAN, password: BOOLEAN, made: [Chains -> 0..MaxMade]]]
    BY <2>1 DEF OreInv, OTypeOK
  <2> QED BY <1>1, <2>1, <2>2, <2>3, GoesOn
<1> QED BY <1>4, <1>5

LEMMA PullsStep ==
  ASSUME OreInv, NEW w \in Workers, Pulls(w) PROVE OreInv'
<1>1. Busy(w) /\ worker[w].pc \in {"pulls", "pulls_again"} /\ UNCHANGED <<rows, service>>
  BY DEF Pulls
<1>2. worker[w] \in JobStates /\ GoodJob(worker[w], ore.state)
  BY <1>1 DEF OreInv, GoodJobs, GoodJob
<1>3. worker \in [Workers -> JobStates \cup {Resting}]
  BY DEF OreInv, OTypeOK
<1> DEFINE r == worker[w].name
           new == {WalletRow(c, r) : c \in {d \in Chains : /\ service[r].made[d] > 0
                                                            /\ WalletRow(d, r) \notin Seen(w)}}
           todo == IF worker[w].pc = "pulls_again" THEN worker[w].todo
                   ELSE IF Pushes(w) THEN BlankAfter(w, new) ELSE {}
           filled == {c \in {x.chain : x \in new} : Blank(c) \in Seen(w)}
           j == [worker[w] EXCEPT !.adds = @ \cup new, !.fills = @ \cup filled,
                                  !.todo = todo, !.pc = IF todo = {} THEN "ends" ELSE "pushes"]
<1>4. worker' = [worker EXCEPT ![w] = j]
  BY <1>3 DEF Pulls
<1>5. r \in Remotes
  BY <1>1, <1>2 DEF GoodJob, JobStates
<1>6. new \subseteq [chain: Chains, of: Remotes]
  <2> SUFFICES ASSUME NEW x \in new PROVE x \in [chain: Chains, of: Remotes]
    OBVIOUS
  <2>1. PICK c \in Chains : x = WalletRow(c, r)
    OBVIOUS
  <2> QED BY <1>5, <2>1 DEF WalletRow
<1>7. filled \subseteq Chains
  BY <1>6
<1>8. todo \subseteq Chains
  BY <1>2 DEF JobStates, BlankAfter
<1>9. worker[w].job # "OreIdPasswordUpdateSync"
  BY <1>1, <1>2 DEF GoodJob
<1> HIDE DEF new, todo, filled
<1>10. j \in JobStates
  BY <1>2, <1>6, <1>7, <1>8 DEF JobStates
<1>11. GoodJob(j, ore.state) /\ j.job = worker[w].job /\ j.gone = worker[w].gone
  <2>1. /\ j.job = worker[w].job /\ j.gone = worker[w].gone /\ j.state = worker[w].state
        /\ j.name = worker[w].name /\ j.pc \in {"ends", "pushes"}
    BY <1>2 DEF JobStates
  <2> HIDE DEF j
  <2> QED BY <1>1, <1>2, <1>9, <1>10, <2>1 DEF GoodJob
<1>12. service' \in [Remotes -> [exists: BOOLEAN, password: BOOLEAN, made: [Chains -> 0..MaxMade]]]
  BY <1>1 DEF OreInv, OTypeOK
<1> QED BY <1>1, <1>4, <1>11, <1>12, GoesOn

LEMMA MakesWalletStep ==
  ASSUME OreInv, NEW w \in Workers, NEW c \in Chains, NEW answered \in BOOLEAN,
         MakesWallet(w, c, answered)
  PROVE  OreInv'
<1>1. Busy(w) /\ worker[w].pc = "pushes"
  BY DEF MakesWallet
<1>2. worker[w] \in JobStates /\ GoodJob(worker[w], ore.state)
  BY <1>1 DEF OreInv, GoodJobs, GoodJob
<1>3. worker[w].name \in Remotes /\ worker[w].job # "OreIdPasswordUpdateSync"
  BY <1>1, <1>2 DEF GoodJob, JobStates
<1>4. service' \in [Remotes -> [exists: BOOLEAN, password: BOOLEAN, made: [Chains -> 0..MaxMade]]]
  <2>1. service[worker[w].name].made[c] + 1 \in 0..MaxMade
    BY <1>3, OreAssumption DEF MakesWallet, OreInv, OTypeOK
  <2>2. service' = [service EXCEPT ![worker[w].name].made[c] = service[worker[w].name].made[c] + 1]
    BY DEF MakesWallet
  <2> QED BY <1>3, <2>1, <2>2 DEF OreInv, OTypeOK
<1>5. CASE answered
  <2> DEFINE j == [worker[w] EXCEPT !.pc = "pulls_again", !.todo = @ \ {c}]
  <2>1. worker' = [worker EXCEPT ![w] = j] /\ UNCHANGED rows
    BY <1>5 DEF MakesWallet, OreInv, OTypeOK, rows
  <2>2. GoodJob(j, ore.state) /\ j.job = worker[w].job /\ j.gone = worker[w].gone
    BY <1>1, <1>2, <1>3 DEF GoodJob, JobStates
  <2> QED BY <1>1, <1>4, <2>1, <2>2, GoesOn
<1>6. CASE ~answered
  <2>1. Reschedules(w) /\ UNCHANGED <<ore, wallets, provision, psync, pjobs, lost, request>>
    BY <1>6 DEF MakesWallet
  <2> QED BY <1>1, <1>4, <2>1, FailsStep
<1> QED BY <1>5, <1>6

LEMMA FailsUnheardStep ==
  ASSUME OreInv, NEW w \in Workers, Fails(w) \/ OpensUnheard(w) PROVE OreInv'
<1>1. /\ Busy(w) /\ Reschedules(w)
      /\ UNCHANGED <<ore, wallets, provision, psync, pjobs, lost, request>>
  BY DEF Fails, OpensUnheard, Does
<1>2. service' \in [Remotes -> [exists: BOOLEAN, password: BOOLEAN, made: [Chains -> 0..MaxMade]]]
  <2>1. service \in [Remotes -> [exists: BOOLEAN, password: BOOLEAN, made: [Chains -> 0..MaxMade]]]
    BY DEF OreInv, OTypeOK
  <2>2. CASE Fails(w)
    BY <2>1, <2>2 DEF Fails
  <2>3. CASE OpensUnheard(w)
    BY <2>1, <2>3 DEF OpensUnheard, Remotes
  <2> QED BY <2>2, <2>3
<1> QED BY <1>1, <1>2, FailsStep

LEMMA JobStep == ASSUME OreInv, NEW w \in Workers, Job(w) PROVE OreInv'
BY BeginsStep, FailsUnheardStep, CrashesStep, OpensStep, PullsStep, MakesWalletStep, CommitsStep DEF Job

-----------------------------------------------------------------------------
(* Requests, provisions, and what happens outside                           *)

\* A step of nobody's job leaves the row linked if it was, and the jobs queued.
LEMMA OthersStep ==
  ASSUME OreInv, OTypeOK', NoOptIns', UNCHANGED <<worker, lost>>, jobs \subseteq jobs',
         Exists => ore' = ore \/ ore'.state = "ok",
         ore'.state = "unclaimed" => ore' = ore,
         ore'.state = "pending" => ore' = ore \/ "OreIdSync" \in jobs',
         "OreIdWalletsSync" \in jobs' \ jobs => ore'.state = "ok",
         sync'.by \in {sync.by, "none"}
  PROVE  OreInv'
<1>1. \A w \in Workers : Busy(w)' <=> Busy(w)
  BY DEF Busy
<1>2. (Exists => Exists') /\ (Linked(ore.state) => Linked(ore'.state))
  BY DEF Exists, Linked
<1>3. \A w \in Workers : Busy(w) => GoodJob(worker[w], ore'.state)
  BY <1>2 DEF OreInv, GoodJobs, GoodJob, Exists
<1>4. GoodJobs'
  BY <1>1, <1>3 DEF GoodJobs
<1>5. SyncHasRow'
  BY <1>1, OreAssumption DEF OreInv, SyncHasRow
<1>6. PendingIsWorkedOn'
  BY <1>1 DEF OreInv, PendingIsWorkedOn
<1>7. /\ ore'.state = "unclaimed" => ore'.name = "custodial"
      /\ "OreIdWalletsSync" \in jobs' => Linked(ore'.state)
  BY <1>2 DEF OreInv, Linked
<1> QED BY <1>4, <1>5, <1>6, <1>7 DEF OreInv

LEMMA UnlinksStep == ASSUME OreInv, Unlinks PROVE OreInv'
<1>1. /\ ore' = NoRow /\ wallets' = {} /\ sync' = NoSync /\ jobs' = {} /\ lost' = {}
      /\ worker' = [w \in Workers |-> IF Busy(w) THEN [worker[w] EXCEPT !.gone = TRUE] ELSE Resting]
  BY DEF Unlinks
<1>2. \A w \in Workers : Busy(w) => GoodJob([worker[w] EXCEPT !.gone = TRUE], "none")
  BY DEF OreInv, GoodJobs, GoodJob, JobStates
<1>3. \A w \in Workers : Busy(w) => worker[w] \in JobStates
  BY DEF OreInv, GoodJobs, GoodJob
<1>4. \A w \in Workers : Busy(w) => worker'[w] \in JobStates
  BY <1>1, <1>3 DEF JobStates
<1>5. worker' \in [Workers -> JobStates \cup {Resting}]
  BY <1>1, <1>4
<1>6. OTypeOK'
  BY <1>1, <1>5 DEF OreInv, OTypeOK, Unlinks, NoSync, NoRequest
<1>7. \A w \in Workers : Busy(w)' => GoodJob(worker'[w], ore'.state)
  BY <1>1, <1>2 DEF Busy, Resting, NoRow
<1>8. GoodJobs'
  BY <1>7 DEF GoodJobs
<1>9. SyncHasRow' /\ PendingIsWorkedOn' /\ NoOptIns'
  BY <1>1, OreAssumption DEF SyncHasRow, NoSync, NoRow, PendingIsWorkedOn, NoOptIns, Unlinks
<1> QED BY <1>1, <1>6, <1>8, <1>9 DEF OreInv, NoRow

LEMMA RequestStep == ASSUME OreInv, Requests PROVE OreInv'
<1>1. CASE LinksManually
  <2>1. OTypeOK' /\ NoOptIns'
    BY <1>1 DEF LinksManually, EnsuresRow, CreatesRow, Exists, OreInv, OTypeOK, NoOptIns, States
  <2> QED BY <1>1, <2>1, OthersStep DEF LinksManually, EnsuresRow, CreatesRow
<1>2. CASE Unlinks
  BY <1>2, UnlinksStep
<1>3. CASE Recovers
  <2>1. OTypeOK' /\ NoOptIns'
    BY <1>3 DEF Recovers, Exists, OreInv, OTypeOK, NoOptIns, Kinds
  <2> QED BY <1>3, <2>1, OthersStep DEF Recovers
<1>4. ASSUME NEW r \in Remotes, Receives(r) PROVE OreInv'
  <2>1. OTypeOK' /\ NoOptIns'
    BY <1>4 DEF Receives, OreInv, OTypeOK, NoOptIns, Kinds, States
  <2> QED BY <1>4, <2>1, OthersStep DEF Receives
<1>5. ASSUME NEW cs \in SUBSET Chains, NEW ps \in SUBSET Chains, AsksForWallets(cs, ps)
      PROVE  OreInv'
  <2>1. request' = [chains |-> cs, provisioned |-> ps]
        /\ UNCHANGED <<wallets, provision, psync, pjobs, sync, lost, worker, service>>
    BY <1>5 DEF AsksForWallets
  <2>2. CASE Exists
    <3>1. UNCHANGED <<ore, jobs>>
      BY <1>5, <2>2 DEF AsksForWallets, EnsuresRow
    <3> QED BY <2>1, <2>2, <3>1, OthersStep DEF Exists, OreInv, OTypeOK, NoOptIns
  <2>3. CASE ~Exists
    <3>1. ore' = [state |-> "pending", name |-> "none"] /\ jobs' = jobs \cup {"OreIdSync"}
      BY <1>5, <2>3 DEF AsksForWallets, EnsuresRow, CreatesRow
    <3>2. ore' \in [state: States, name: Remotes \cup {"none"}] /\ jobs' \subseteq Kinds
      BY <3>1 DEF OreInv, OTypeOK, Kinds, States
    <3> QED BY <2>1, <2>3, <3>1, <3>2, OthersStep DEF OreInv, OTypeOK, NoOptIns
  <2> QED BY <2>2, <2>3
<1>6. ASSUME NEW early \in SUBSET Chains, InsertsWallets(early) PROVE OreInv'
  <2>1. /\ request \in [chains: SUBSET Chains, provisioned: SUBSET Chains]
        /\ request # NoRequest /\ Exists
    BY <1>6 DEF InsertsWallets, Exists, OreInv, OTypeOK
  <2>2. wallets' \subseteq [chain: Chains, of: Remotes \cup {"blank"}]
    BY <1>6, <2>1 DEF InsertsWallets, Blank, WalletRow, OreInv, OTypeOK
  <2>3. /\ provision' \in [Chains -> ProvisionStates \cup {"none"}]
        /\ \A c \in Chains : provision'[c] \notin {"opt_in_created", "provisioned"}
    BY <1>6 DEF InsertsWallets, OreInv, OTypeOK, NoOptIns, ProvisionStates
  <2>4. pjobs' \in [Chains -> SUBSET ProvisionJobs]
    BY <1>6 DEF InsertsWallets, OreInv, OTypeOK, ProvisionJobs
  <2>5. /\ request' = NoRequest
        /\ UNCHANGED <<ore, psync, sync, jobs, lost, worker, service>>
    BY <1>6 DEF InsertsWallets
  <2>6. OTypeOK' /\ NoOptIns'
    BY <2>1, <2>2, <2>3, <2>4, <2>5 DEF OreInv, OTypeOK, NoOptIns, NoRequest, Exists
  <2> QED BY <2>5, <2>6, OthersStep
<1> QED BY <1>1, <1>2, <1>3, <1>4, <1>5, <1>6 DEF Requests

LEMMA ProvisionStep == ASSUME OreInv, NEW c \in Chains, ProvisionJob(c) PROVE OreInv'
<1>1. ASSUME NEW j \in ProvisionJobs, Postpones(c, j) PROVE OreInv'
  <2>1. OTypeOK' /\ NoOptIns'
    BY <1>1 DEF Postpones, TakesJob, OreInv, OTypeOK, NoOptIns, ProvisionJobs
  <2> QED BY <1>1, <2>1, OthersStep DEF Postpones
<1>2. ASSUME NEW j \in ProvisionJobs, NEW good \in BOOLEAN, Performs(c, j, good) PROVE OreInv'
  <2> DEFINE state == Reached(c, j, good)
  <2>1. provision[c] \in {"none", "pending", "initial_balance_confirmed"}
    BY DEF OreInv, OTypeOK, NoOptIns, ProvisionStates
  <2>2. state \in {"none", "pending", "initial_balance_confirmed"}
    BY <2>1, NothingSigns DEF OreInv, Reached
  <2>3. Follows(c, state) \subseteq ProvisionJobs
    BY DEF Follows, ProvisionJobs
  <2> HIDE DEF state
  <2>4. /\ pjobs' = [pjobs EXCEPT ![c] = (@ \ {j}) \cup Follows(c, state)]
        /\ provision' = [provision EXCEPT ![c] = state]
        /\ psync' = [psync EXCEPT ![c] = "recent"]
        /\ UNCHANGED <<ore, wallets, sync, jobs, lost, worker, request, service>>
    BY <1>2 DEF Performs, TakesJob, state
  <2>5. OTypeOK' /\ NoOptIns'
    BY <2>2, <2>3, <2>4 DEF OreInv, OTypeOK, NoOptIns, ProvisionStates
  <2> QED BY <2>4, <2>5, OthersStep
<1>3. CASE TimePassesFor(c)
  <2>1. OTypeOK' /\ NoOptIns'
    BY <1>3 DEF TimePassesFor, OreInv, OTypeOK, NoOptIns
  <2> QED BY <1>3, <2>1, OthersStep DEF TimePassesFor
<1> QED BY <1>1, <1>2, <1>3 DEF ProvisionJob

LEMMA OutsideStep == ASSUME OreInv, Outside PROVE OreInv'
<1>1. CASE DeclaresFailed \/ TimePasses
  <2>1. /\ sync' \in [status: {"none", "in_progress", "ok", "failed"}, due: BOOLEAN,
                       by: Workers \cup {"none"}]
        /\ sync'.by = sync.by /\ sync.status # "none"
        /\ UNCHANGED <<ore, wallets, provision, psync, pjobs, jobs, lost, worker, request, service>>
    BY <1>1 DEF DeclaresFailed, TimePasses, OreInv, OTypeOK
  <2>2. OTypeOK' /\ NoOptIns'
    BY <2>1 DEF OreInv, OTypeOK, NoOptIns, NoSync
  <2> QED BY <2>1, <2>2, OthersStep
<1>2. CASE UpdatesPassword \/ \E cs \in SUBSET Chains : SignsUp(cs)
  <2>1. UNCHANGED <<rows, worker>>
    BY <1>2 DEF UpdatesPassword, SignsUp
  <2> USE OreAssumption
  <2>2. service' \in [Remotes -> [exists: BOOLEAN, password: BOOLEAN, made: [Chains -> 0..MaxMade]]]
    <3>1. service \in [Remotes -> [exists: BOOLEAN, password: BOOLEAN, made: [Chains -> 0..MaxMade]]]
      BY DEF OreInv, OTypeOK
    <3>2. CASE UpdatesPassword
      BY <3>1, <3>2 DEF UpdatesPassword, Remotes
    <3>3. ASSUME NEW cs \in SUBSET Chains, SignsUp(cs)
          PROVE  service' \in [Remotes -> [exists: BOOLEAN, password: BOOLEAN, made: [Chains -> 0..MaxMade]]]
      <4> DEFINE own == [exists |-> TRUE, password |-> TRUE,
                         made |-> [c \in Chains |-> IF c \in cs THEN 1 ELSE 0]]
      <4>1. own \in [exists: BOOLEAN, password: BOOLEAN, made: [Chains -> 0..MaxMade]]
        OBVIOUS
      <4>2. service' = [service EXCEPT !["own"] = own]
        BY <3>3 DEF SignsUp
      <4> HIDE DEF own
      <4> QED BY <3>1, <4>1, <4>2
    <3> QED BY <1>2, <3>2, <3>3
  <2>3. OTypeOK' /\ NoOptIns'
    BY <2>1, <2>2 DEF OreInv, OTypeOK, NoOptIns, rows
  <2> QED BY <2>1, <2>3, OthersStep DEF rows
<1> QED BY <1>1, <1>2 DEF Outside

-----------------------------------------------------------------------------
(* Theorems                                                                 *)

LEMMA OreInitially == ASSUME Init PROVE OreInv
<1>1. OTypeOK
  BY OreAssumption DEF Init, OTypeOK, NoSync, NoRequest
<1>2. \A w \in Workers : ~Busy(w)
  BY DEF Init, Busy, Resting
<1> QED BY <1>1, <1>2 DEF Init, OreInv, GoodJobs, SyncHasRow, NoOptIns, PendingIsWorkedOn, NoRow

LEMMA OreStays == ASSUME OreInv, [Next]_vars PROVE OreInv'
<1>1. CASE Next
  BY <1>1, RequestStep, OutsideStep, JobStep, ProvisionStep DEF Next
<1>2. CASE UNCHANGED vars
  <2>1. \A w \in Workers : Busy(w)' <=> Busy(w)
    BY <1>2 DEF vars, Busy
  <2>2. \A w \in Workers : Busy(w) => GoodJob(worker'[w], ore'.state)
    BY <1>2 DEF vars, OreInv, GoodJobs
  <2>3. GoodJobs'
    BY <2>1, <2>2 DEF GoodJobs
  <2>4. OTypeOK' /\ NoOptIns' /\ PendingIsWorkedOn' /\ SyncHasRow'
    BY <1>2, <2>1 DEF vars, OreInv, OTypeOK, NoOptIns, PendingIsWorkedOn, SyncHasRow
  <2> QED BY <1>2, <2>3, <2>4 DEF vars, OreInv
<1> QED BY <1>1, <1>2

\* The row, its wallets, provisions and jobs are what they should be at every
\* moment, and wallets, jobs and a POST under way have a row (ore_id_account.rb).
THEOREM OreIdTyped == Spec => []OTypeOK
<1>1. Spec => []OreInv
  BY OreInitially, OreStays, PTL DEF Spec
<1>2. OreInv => OTypeOK
  BY DEF OreInv
<1> QED BY <1>1, <1>2, PTL

\* A pending account has a job that works on it, unless one has ended with its
\* worker: OreIdSyncJob puts itself back on every branch that leaves it pending.
THEOREM PendingNotForgotten == Spec => []PendingIsWorkedOn
<1>1. Spec => []OreInv
  BY OreInitially, OreStays, PTL DEF Spec
<1>2. OreInv => PendingIsWorkedOn
  BY DEF OreInv
<1> QED BY <1>1, <1>2, PTL

\* What follows from it for the flow that wallet_provision.rb documents: no
\* opt-in is ever created for a provision, because create_remote! saves the name
\* of an account together with the state that create_tx refuses.
THEOREM ProvisionsStop == Spec => []NoOptIns
<1>1. Spec => []OreInv
  BY OreInitially, OreStays, PTL DEF Spec
<1>2. OreInv => NoOptIns
  BY DEF OreInv
<1> QED BY <1>1, <1>2, PTL

\* A job that claims an account does it for the account it has now.
LEMMA ClaimIsProven ==
  ASSUME OreInv, NEW v \in Workers, Claims(v), ore.state # "ok"
  PROVE  service[ore.name].password /\ NoPendingProvisions
<1>1. /\ Busy(v) /\ ~worker[v].gone /\ worker[v].state = "unclaimed"
      /\ NoPendingProvisions /\ service[worker[v].name].password
  BY DEF Claims, Does
<1>2. GoodJob(worker[v], ore.state)
  BY <1>1 DEF OreInv, GoodJobs
<1>3. worker[v].name = "custodial" /\ ore.state = "unclaimed"
  BY <1>1, <1>2 DEF GoodJob, Linked
<1>4. ore.name = "custodial"
  BY <1>3 DEF OreInv
<1> QED BY <1>1, <1>3, <1>4

\* claim! is all that makes an account ok in a job, and it does so only after the
\* person has set a password and with no provision open.
THEOREM ClaimsAreProven == Spec => ClaimedWhenProvisioned
<1>1. Spec => []OreInv
  BY OreInitially, OreStays, PTL DEF Spec
<1>2. ASSUME OreInv, [Next]_vars
      PROVE  [\A w \in Workers :
               Busy(w) /\ worker'[w] = Resting /\ ore.state # "ok" /\ ore'.state = "ok" =>
                 /\ service[ore.name].password
                 /\ \A c \in Chains : provision[c] \in {"none", "provisioned"}]_vars
  <2> SUFFICES ASSUME Next, NEW w \in Workers, Busy(w), worker'[w] = Resting,
                      ore.state # "ok", ore'.state = "ok"
               PROVE  /\ service[ore.name].password
                      /\ \A c \in Chains : provision[c] \in {"none", "provisioned"}
    BY <1>2
  <2>1. worker' # worker
    BY DEF Busy, Resting
  <2>2. ASSUME NEW v \in Workers, Job(v) PROVE Claims(v)
    <3>1. ore' # ore
      OBVIOUS
    <3>2. Commits(v) \/ Claims(v)
      BY <2>2, <3>1 DEF Job, Begins, Fails, Crashes, OpensAccount, OpensUnheard, StartsPulling,
                       Pulls, MakesWallet, rows
    <3>3. ASSUME Commits(v) PROVE FALSE
      <4>1. Busy(v) /\ worker[v].pc = "ends" /\ ~worker[v].gone
        BY <3>3 DEF Commits
      <4>2. GoodJob(worker[v], ore.state) /\ worker[v].job \in Kinds
        BY <1>2, <4>1 DEF OreInv, GoodJobs, GoodJob, JobStates
      <4>3. worker[v].job # "OreIdPasswordUpdateSync"
        BY <4>1, <4>2 DEF GoodJob
      <4>4. worker[v].job # "OreIdSync"
        <5>1. worker[v].job = "OreIdSync" =>
                ore' = [state |-> "unclaimed", name |-> worker[v].name]
          BY <3>3 DEF Commits
        <5> QED BY <5>1
      <4>5. worker[v].job = "OreIdWalletsSync" /\ Linked(worker[v].state)
        BY <4>2, <4>3, <4>4 DEF Kinds, GoodJob
      <4>6. ore' = ore
        BY <3>3, <4>5 DEF Commits, Linked
      <4> QED BY <4>6
    <3> QED BY <3>2, <3>3
  <2>3. ~Requests
    BY <2>1 DEF Requests, LinksManually, Unlinks, Recovers, Receives, AsksForWallets, InsertsWallets,
                NoRow
  <2>4. ~Outside /\ \A c \in Chains : ~ProvisionJob(c)
    BY <2>1 DEF Outside, DeclaresFailed, TimePasses, UpdatesPassword, SignsUp, ProvisionJob,
                Postpones, Performs, TimePassesFor
  <2>5. PICK v \in Workers : Claims(v)
    BY <2>2, <2>3, <2>4 DEF Next
  <2> QED BY <1>2, <2>5, ClaimIsProven DEF NoPendingProvisions
<1>3. Spec => [][Next]_vars
  BY DEF Spec
<1> QED BY <1>1, <1>2, <1>3, PTL DEF ClaimedWhenProvisioned

-----------------------------------------------------------------------------
(* One worker. A chain account is asked for by the job that opened the      *)
(* account, or by one of its wallets while it is unclaimed, and for a chain *)
(* whose wallet is blank. What keeps the second request away is that the    *)
(* chain accounts there are have all reached their wallets when the list of *)
(* blank ones is taken.                                                     *)

OneWorker == \A v, w \in Workers : v = w

Asked(c) == service["custodial"].made[c] # 0

\* No chain has a blank wallet beside the one of its chain account.
Tidy(set) == \A c \in Chains : ~(Blank(c) \in set /\ WalletRow(c, "custodial") \in set)

\* A job may come to ask for chain accounts.
MayPush ==
  \/ ore.state = "unclaimed"
  \/ \E w \in Workers : /\ Busy(w) /\ ~worker[w].gone
                        /\ \/ worker[w].job = "OreIdSync" /\ worker[w].pc # "starts"
                           \/ worker[w].job = "OreIdWalletsSync" /\ worker[w].state = "unclaimed"

\* What the transaction of job j sees of the wallets.
SeenBy(j) == (wallets \ {Blank(c) : c \in j.fills}) \cup j.adds

\* What a job has in its hands is about chain accounts there are, and what it
\* has to do about chains that have none.
HandsOf(j) ==
  /\ j.pc = "starts" => j.adds = {} /\ j.fills = {} /\ j.todo = {}
  /\ \A x \in j.adds : x.of = "custodial" => Asked(x.chain)
  /\ \A c \in j.fills : \E x \in j.adds : x.chain = c
  /\ \A c \in j.todo : j.name = "custodial" /\ ~Asked(c)
  /\ ~j.gone => \A c \in j.todo : Blank(c) \in wallets
  /\ j.gone => ore.state # "unclaimed"
  /\ j.name = "custodial" => service["custodial"].exists

MadeInv ==
  /\ OneChainAccount
  /\ ~service["custodial"].exists => ore.name # "custodial" /\ \A c \in Chains : ~Asked(c)
  /\ \A x \in wallets : x.of = "custodial" => Asked(x.chain)
  /\ \A c \in Chains : Blank(c) \in wallets => c \notin request.chains

\* The wallets there are, and no POST under way, are of the chains asked for.
WalletsOf == \A c \in Chains : Asked(c) => c \notin request.chains /\ \E x \in wallets : x.chain = c

PushInv == MayPush =>
  /\ WalletsOf
  /\ Tidy(wallets)
  /\ \A w \in Workers : Busy(w) /\ ~worker[w].gone => Tidy(SeenBy(worker[w]))

OneInv ==
  /\ MadeInv
  /\ PushInv
  /\ \A w \in Workers : Busy(w) => HandsOf(worker[w])

\* A step of no job: the chain accounts and wallets stay, and a POST that
\* begins asks for chains that have no wallet.
LEMMA OneOthers ==
  ASSUME OreInv, OneInv, UNCHANGED <<wallets, worker>>,
         service'["custodial"].made = service["custodial"].made,
         service'["custodial"].exists = service["custodial"].exists,
         ore'.state = "unclaimed" => ore.state = "unclaimed",
         ore'.name = "custodial" => ore' = ore \/ service["custodial"].exists,
         request'.chains = request.chains \/ \A x \in wallets : x.chain \notin request'.chains
  PROVE  OneInv'
<1>1. /\ \A c \in Chains : Asked(c)' <=> Asked(c)
      /\ \A w \in Workers : Busy(w)' <=> Busy(w)
      /\ MayPush' => MayPush
  BY DEF Asked, Busy, MayPush
<1>2. \A c \in Chains : Blank(c).chain = c
  BY DEF Blank, WalletRow
<1>3. \A x \in wallets : x.chain \in Chains
  BY DEF OreInv, OTypeOK
<1>4. MadeInv'
  BY <1>1, <1>2, <1>3 DEF OneInv, MadeInv, OneChainAccount
<1>5. PushInv'
  BY <1>1 DEF OneInv, PushInv, WalletsOf, Tidy, SeenBy
<1>6. ASSUME NEW w \in Workers, Busy(w) PROVE HandsOf(worker[w])'
  <2>1. worker[w] \in JobStates
    BY <1>6 DEF OreInv, GoodJobs, GoodJob
  <2>2. worker[w].adds \subseteq [chain: Chains, of: Remotes] /\ worker[w].todo \subseteq Chains
    BY <2>1 DEF JobStates
  <2> QED BY <1>1, <1>6, <2>2 DEF OneInv, HandsOf
<1> QED BY <1>1, <1>4, <1>5, <1>6 DEF OneInv

\* Blank wallets come for chains whose chain accounts nobody has asked for,
\* while a job may push.
LEMMA OneInserts ==
  ASSUME OreInv, OneInv, NEW early \in SUBSET Chains, InsertsWallets(early)
  PROVE  OneInv'
<1> DEFINE blanks == {Blank(c) : c \in request.chains}
<1>1. /\ wallets' = wallets \cup blanks /\ request' = NoRequest /\ request'.chains = {}
      /\ UNCHANGED <<ore, worker, service>>
  BY DEF InsertsWallets, NoRequest
<1>2. /\ \A c \in Chains : Asked(c)' <=> Asked(c)
      /\ \A w \in Workers : Busy(w)' <=> Busy(w)
      /\ MayPush' <=> MayPush
  BY <1>1 DEF Asked, Busy, MayPush
<1>3. request.chains \subseteq Chains
  BY DEF OreInv, OTypeOK
<1>4. /\ \A x \in blanks : x.of = "blank" /\ x.chain \in request.chains
      /\ \A c \in Chains : Blank(c) \in blanks <=> c \in request.chains
      /\ \A c \in Chains : WalletRow(c, "custodial") \notin blanks
      /\ \A c \in Chains : WalletRow(c, "custodial").of = "custodial"
                           /\ WalletRow(c, "custodial").chain = c /\ Blank(c).chain = c
  <2>1. \A c : Blank(c).of = "blank" /\ Blank(c).chain = c
    BY DEF Blank, WalletRow
  <2>2. \A c : WalletRow(c, "custodial").of = "custodial" /\ WalletRow(c, "custodial").chain = c
    BY DEF WalletRow
  <2> QED BY <1>3, <2>1, <2>2
<1> HIDE DEF blanks
<1>5. MadeInv'
  <2>1. \A x \in wallets : x.chain \in Chains
    BY DEF OreInv, OTypeOK
  <2>2. \A x \in wallets' : x.of = "custodial" => x \in wallets
    BY <1>1, <1>4
  <2> QED BY <1>1, <1>2, <2>1, <2>2 DEF OneInv, MadeInv, OneChainAccount
<1>6. ASSUME MayPush PROVE WalletsOf' /\ Tidy(wallets')
  <2>1. WalletsOf /\ Tidy(wallets)
    BY <1>6 DEF OneInv, PushInv
  <2>2. WalletsOf'
    BY <1>1, <1>2, <2>1 DEF WalletsOf
  <2>3. ASSUME NEW c \in Chains, Blank(c) \in wallets', WalletRow(c, "custodial") \in wallets'
        PROVE  FALSE
    <3>1. WalletRow(c, "custodial") \in wallets /\ Asked(c)
      BY <1>1, <1>4, <2>3 DEF OneInv, MadeInv
    <3>2. c \notin request.chains
      BY <2>1, <3>1 DEF WalletsOf
    <3> QED BY <1>1, <1>4, <2>1, <2>3, <3>1, <3>2 DEF Tidy
  <2> QED BY <2>2, <2>3 DEF Tidy
<1>7. ASSUME MayPush, NEW w \in Workers, Busy(w), ~worker[w].gone
      PROVE  Tidy(SeenBy(worker[w])')
  <2>1. WalletsOf /\ Tidy(SeenBy(worker[w])) /\ Tidy(wallets)
    BY <1>7 DEF OneInv, PushInv
  <2>2. SUFFICES ASSUME NEW c \in Chains, Blank(c) \in SeenBy(worker[w])',
                        WalletRow(c, "custodial") \in SeenBy(worker[w])'
                 PROVE  FALSE
    BY DEF Tidy
  <2>3. worker' = worker /\ HandsOf(worker[w])
    BY <1>1, <1>7 DEF OneInv
  <2>4. Asked(c)
    BY <1>1, <1>4, <2>2, <2>3 DEF SeenBy, HandsOf, OneInv, MadeInv
  <2>5. c \notin request.chains
    BY <2>1, <2>4 DEF WalletsOf
  <2>6. Blank(c) \in SeenBy(worker[w]) /\ WalletRow(c, "custodial") \in SeenBy(worker[w])
    BY <1>1, <1>4, <2>2, <2>3, <2>5 DEF SeenBy
  <2> QED BY <2>1, <2>6 DEF Tidy
<1>8. PushInv'
  BY <1>1, <1>2, <1>6, <1>7 DEF PushInv
<1>9. ASSUME NEW w \in Workers, Busy(w) PROVE HandsOf(worker[w])'
  <2>1. worker[w] \in JobStates
    BY <1>9 DEF OreInv, GoodJobs, GoodJob
  <2>2. worker[w].adds \subseteq [chain: Chains, of: Remotes] /\ worker[w].todo \subseteq Chains
    BY <2>1 DEF JobStates
  <2> QED BY <1>1, <1>2, <1>9, <2>2 DEF OneInv, HandsOf
<1> QED BY <1>2, <1>5, <1>8, <1>9 DEF OneInv

\* Without its row no job pushes, or commits.
LEMMA OneUnlinks == ASSUME OreInv, OneInv, Unlinks PROVE OneInv'
<1>1. /\ ore' = NoRow /\ wallets' = {} /\ request' = NoRequest /\ request'.chains = {}
      /\ worker' = [w \in Workers |-> IF Busy(w) THEN [worker[w] EXCEPT !.gone = TRUE] ELSE Resting]
      /\ service' = service /\ ore'.state = "none" /\ ore'.name = "none"
  BY DEF Unlinks, NoRequest, NoRow
<1>2. \A c \in Chains : Asked(c)' <=> Asked(c)
  BY <1>1 DEF Asked
<1>3. ASSUME NEW w \in Workers
      PROVE  /\ Busy(w)' <=> Busy(w)
             /\ Busy(w) => /\ worker[w] \in JobStates /\ worker'[w].gone
                           /\ worker'[w].pc = worker[w].pc /\ worker'[w].adds = worker[w].adds
                           /\ worker'[w].fills = worker[w].fills /\ worker'[w].todo = worker[w].todo
                           /\ worker'[w].name = worker[w].name
  <2>1. Busy(w) => worker[w] \in JobStates
    BY DEF OreInv, GoodJobs, GoodJob
  <2>2. Busy(w) => worker'[w] = [worker[w] EXCEPT !.gone = TRUE]
    BY <1>1
  <2>3. ~Busy(w) => worker'[w] = Resting
    BY <1>1
  <2> QED BY <2>1, <2>2, <2>3 DEF Busy, Resting, JobStates
<1>4. ~MayPush'
  BY <1>1, <1>3 DEF MayPush, NoRow
<1>5. MadeInv'
  BY <1>1, <1>2 DEF OneInv, MadeInv, OneChainAccount
<1>6. ASSUME NEW w \in Workers, Busy(w) PROVE HandsOf(worker[w])'
  <2>1. worker[w].adds \subseteq [chain: Chains, of: Remotes] /\ worker[w].todo \subseteq Chains
    BY <1>3, <1>6 DEF JobStates
  <2>2. HandsOf(worker[w])
    BY <1>6 DEF OneInv
  <2>3. /\ worker'[w].gone
        /\ worker'[w].pc = worker[w].pc /\ worker'[w].adds = worker[w].adds
        /\ worker'[w].fills = worker[w].fills /\ worker'[w].todo = worker[w].todo
        /\ worker'[w].name = worker[w].name
    BY <1>3, <1>6
  <2>4. /\ \A x \in worker[w].adds : x.of = "custodial" => Asked(x.chain)'
        /\ \A c \in worker[w].todo : worker[w].name = "custodial" /\ ~Asked(c)'
    BY <1>2, <2>1, <2>2 DEF HandsOf
  <2> QED BY <1>1, <2>2, <2>3, <2>4 DEF HandsOf
<1> QED BY <1>3, <1>4, <1>5, <1>6 DEF OneInv, PushInv

\* The one worker that there is has a job in another stage, or another job.
LEMMA OneGoesOn ==
  ASSUME OneWorker, NEW w \in Workers, UNCHANGED wallets,
         Busy(w)' => HandsOf(worker[w])', MadeInv',
         MayPush' => /\ WalletsOf' /\ Tidy(wallets)
                     /\ Busy(w)' /\ ~worker'[w].gone => Tidy(SeenBy(worker[w]))'
  PROVE  OneInv'
<1>1. \A v \in Workers : v = w
  BY DEF OneWorker
<1>2. Tidy(wallets) => Tidy(wallets)'
  BY DEF Tidy
<1>3. PushInv'
  BY <1>1, <1>2 DEF PushInv
<1> QED BY <1>1, <1>3 DEF OneInv

\* A job begins with what the row says, and nothing in its hands.
LEMMA OneBegins ==
  ASSUME OneWorker, OreInv, OneInv, NEW w \in Workers, NEW k \in Kinds, Begins(w, k)
  PROVE  OneInv'
<1> DEFINE j == [job |-> k, pc |-> "starts", state |-> ore.state, name |-> ore.name,
                 adds |-> {}, fills |-> {}, todo |-> {}, gone |-> FALSE]
<1>1. worker' = [worker EXCEPT ![w] = j] /\ UNCHANGED <<ore, wallets, request, service>>
  BY DEF Begins
<1>2. j.pc = "starts" /\ j.adds = {} /\ j.fills = {} /\ j.todo = {} /\ j.state = ore.state
      /\ j.name = ore.name /\ ~j.gone
  OBVIOUS
<1> HIDE DEF j
<1>3. worker'[w] = j /\ \A v \in Workers : v = w
  BY <1>1 DEF OneWorker, OreInv, OTypeOK
<1>4. HandsOf(worker[w])'
  BY <1>1, <1>2, <1>3 DEF HandsOf, OneInv, MadeInv
<1>5. MayPush' => MayPush
  BY <1>1, <1>2, <1>3 DEF MayPush
<1>6. MadeInv'
  BY <1>1 DEF OneInv, MadeInv, OneChainAccount, Asked
<1>7. Tidy(wallets) => Tidy(SeenBy(worker[w]))'
  BY <1>1, <1>2, <1>3 DEF SeenBy, Tidy
<1>8. WalletsOf => WalletsOf'
  BY <1>1 DEF WalletsOf, Asked
<1> QED BY <1>1, <1>4, <1>5, <1>6, <1>7, <1>8, OneGoesOn DEF OneInv, PushInv

\* A job that ends without having written anything.
LEMMA OneRests ==
  ASSUME OneWorker, OreInv, OneInv, NEW w \in Workers, Rests(w),
         UNCHANGED <<ore, wallets, request>>,
         service'["custodial"].made = service["custodial"].made,
         service'["custodial"].exists = service["custodial"].exists \/ service'["custodial"].exists
  PROVE  OneInv'
<1>1. worker' = [worker EXCEPT ![w] = Resting] /\ ~Busy(w)' /\ \A v \in Workers : v = w
  BY DEF Rests, OneWorker, OreInv, OTypeOK, Busy, Resting
<1>2. \A c \in Chains : Asked(c)' <=> Asked(c)
  BY DEF Asked
<1>3. MayPush' => MayPush
  BY <1>1 DEF MayPush
<1>4. MadeInv'
  <2>1. \A x \in wallets : x.chain \in Chains
    BY DEF OreInv, OTypeOK
  <2> QED BY <1>2, <2>1 DEF OneInv, MadeInv, OneChainAccount
<1>5. WalletsOf => WalletsOf'
  BY <1>2 DEF WalletsOf
<1> QED BY <1>1, <1>3, <1>4, <1>5, OneGoesOn DEF OneInv, PushInv

LEMMA OneOpens ==
  ASSUME OneWorker, OreInv, OneInv, NEW w \in Workers, OpensAccount(w) \/ StartsPulling(w)
  PROVE  OneInv'
<1>1. Busy(w) /\ worker[w].pc = "starts" /\ worker[w] \in JobStates /\ HandsOf(worker[w])
  BY DEF OpensAccount, StartsPulling, Does, OreInv, GoodJobs, GoodJob, OneInv
<1>2. /\ worker \in [Workers -> JobStates \cup {Resting}]
      /\ service \in [Remotes -> [exists: BOOLEAN, password: BOOLEAN, made: [Chains -> 0..MaxMade]]]
  BY DEF OreInv, OTypeOK
<1>3. CASE OpensAccount(w)
  <2> DEFINE j == [worker[w] EXCEPT !.pc = "pulls", !.name = "custodial"]
  <2>1. /\ worker' = [worker EXCEPT ![w] = j] /\ UNCHANGED <<ore, wallets, request>>
        /\ ~service["custodial"].exists
        /\ service' = [service EXCEPT !["custodial"].exists = TRUE]
    BY <1>2, <1>3 DEF OpensAccount, rows
  <2>2. /\ j.pc = "pulls" /\ j.adds = {} /\ j.fills = {} /\ j.todo = {} /\ j.gone = worker[w].gone
    BY <1>1 DEF JobStates, HandsOf
  <2> HIDE DEF j
  <2>3. /\ service'["custodial"].exists
        /\ service'["custodial"].made = service["custodial"].made
    BY <1>2, <2>1 DEF Remotes
  <2>4. worker'[w] = j
    BY <1>2, <2>1
  <2>5. \A c \in Chains : ~Asked(c) /\ ~Asked(c)'
    BY <2>1, <2>3 DEF OneInv, MadeInv, Asked
  <2>6. \A x \in wallets : x.chain \in Chains
    BY DEF OreInv, OTypeOK
  <2>7. MadeInv'
    BY <2>1, <2>3, <2>5, <2>6 DEF OneInv, MadeInv, OneChainAccount
  <2>8. HandsOf(worker[w])'
    BY <1>1, <2>1, <2>2, <2>3, <2>4 DEF HandsOf
  <2>9. \A x \in wallets : x.of # "custodial"
    BY <2>5, <2>6 DEF OneInv, MadeInv
  <2>10. Tidy(wallets) /\ Tidy(SeenBy(worker[w]))' /\ WalletsOf'
    BY <2>1, <2>2, <2>5, <2>9, <2>4 DEF Tidy, SeenBy, WalletRow, WalletsOf
  <2> QED BY <2>1, <2>7, <2>8, <2>10, OneGoesOn
<1>4. CASE StartsPulling(w)
  <2> DEFINE j == [worker[w] EXCEPT !.pc = "pulls"]
  <2>1. /\ worker' = [worker EXCEPT ![w] = j] /\ UNCHANGED <<ore, wallets, request, service>>
        /\ worker[w].job = "OreIdWalletsSync"
    BY <1>2, <1>4 DEF StartsPulling, rows, Does
  <2>2. /\ j.pc = "pulls" /\ j.adds = {} /\ j.fills = {} /\ j.todo = {} /\ j.gone = worker[w].gone
        /\ j.name = worker[w].name /\ j.job = worker[w].job /\ j.state = worker[w].state
    BY <1>1 DEF JobStates, HandsOf
  <2> HIDE DEF j
  <2>3. worker'[w] = j /\ \A v \in Workers : v = w
    BY <1>2, <2>1 DEF OneWorker
  <2>4. MayPush' => MayPush
    BY <1>1, <2>1, <2>2, <2>3 DEF MayPush
  <2>5. MadeInv' /\ (WalletsOf => WalletsOf')
    BY <2>1 DEF OneInv, MadeInv, OneChainAccount, Asked, WalletsOf
  <2>6. HandsOf(worker[w])'
    BY <1>1, <2>1, <2>2, <2>3 DEF HandsOf, Asked
  <2>7. Tidy(wallets) => Tidy(SeenBy(worker[w]))'
    BY <2>1, <2>2, <2>3 DEF SeenBy, Tidy
  <2> QED BY <2>1, <2>4, <2>5, <2>6, <2>7, OneGoesOn DEF OneInv, PushInv
<1> QED BY <1>3, <1>4

\* A job that may push sees no blank wallet whose chain account there is, once it
\* has pulled.
LEMMA OnePulls ==
  ASSUME OneWorker, OreInv, OneInv, NEW w \in Workers, Pulls(w)
  PROVE  OneInv'
<1>1. /\ Busy(w) /\ worker[w].pc \in {"pulls", "pulls_again"} /\ ~worker[w].gone
      /\ UNCHANGED <<ore, wallets, request, service>>
  BY DEF Pulls, rows
<1>2. /\ worker[w] \in JobStates /\ GoodJob(worker[w], ore.state) /\ HandsOf(worker[w])
      /\ worker \in [Workers -> JobStates \cup {Resting}]
  BY <1>1 DEF OreInv, OTypeOK, GoodJobs, GoodJob, OneInv
<1> DEFINE r == worker[w].name
           new == {WalletRow(c, r) : c \in {d \in Chains : /\ service[r].made[d] > 0
                                                            /\ WalletRow(d, r) \notin Seen(w)}}
           todo == IF worker[w].pc = "pulls_again" THEN worker[w].todo
                   ELSE IF Pushes(w) THEN BlankAfter(w, new) ELSE {}
           filled == {c \in {x.chain : x \in new} : Blank(c) \in Seen(w)}
           j == [worker[w] EXCEPT !.adds = @ \cup new, !.fills = @ \cup filled,
                                  !.todo = todo, !.pc = IF todo = {} THEN "ends" ELSE "pushes"]
<1>3. worker' = [worker EXCEPT ![w] = j]
  BY <1>2 DEF Pulls
<1>4. /\ j.pc # "starts" /\ j.gone = worker[w].gone /\ j.name = r /\ j.job = worker[w].job
      /\ j.state = worker[w].state /\ j.todo = todo
      /\ j.adds = worker[w].adds \cup new /\ j.fills = worker[w].fills \cup filled
  BY <1>2 DEF JobStates
<1>5. worker'[w] = j /\ \A v \in Workers : v = w
  BY <1>2, <1>3 DEF OneWorker
<1>6. Seen(w) = SeenBy(worker[w])
  BY DEF Seen, SeenBy
<1>7. /\ service \in [Remotes -> [exists: BOOLEAN, password: BOOLEAN, made: [Chains -> 0..MaxMade]]]
      /\ MaxMade \in Nat
      /\ worker[w].adds \subseteq [chain: Chains, of: Remotes]
      /\ r \in Remotes /\ worker[w].todo \subseteq Chains
  BY <1>1, <1>2, OreAssumption DEF OreInv, OTypeOK, JobStates, GoodJob
<1>8. /\ \A x \in new : /\ x.of = r /\ x.chain \in Chains /\ service[r].made[x.chain] > 0
                        /\ x = WalletRow(x.chain, r)
      /\ \A c \in Chains : service[r].made[c] > 0 /\ WalletRow(c, r) \notin Seen(w) =>
           \E x \in new : x.chain = c
  <2>1. \A c, o : WalletRow(c, o).chain = c /\ WalletRow(c, o).of = o
    BY DEF WalletRow
  <2> QED BY <2>1
<1>9. /\ \A c \in filled : \E x \in new : x.chain = c
      /\ \A x \in new : Blank(x.chain) \in Seen(w) => x.chain \in filled
  OBVIOUS
<1>10. \A c \in BlankAfter(w, new) : c \in Chains /\ Blank(c) \in Seen(w) /\ ~\E x \in new : x.chain = c
  BY DEF BlankAfter
<1>11. /\ \A c : Blank(c).of = "blank" /\ Blank(c).chain = c
       /\ \A c : WalletRow(c, "custodial").of = "custodial" /\ WalletRow(c, "custodial").chain = c
  BY DEF Blank, WalletRow
<1>12. \A c \in Chains : Asked(c) <=> service["custodial"].made[c] > 0
  BY <1>7 DEF Asked, Remotes
<1>13. Pushes(w) => r = "custodial" /\ MayPush
  BY <1>1, <1>2 DEF Pushes, GoodJob, Linked, MayPush, JobStates, Kinds
<1> HIDE DEF j, new, filled
<1>14. MayPush' => MayPush
  BY <1>1, <1>4, <1>5 DEF MayPush
<1>15. MayPush => WalletsOf' /\ Tidy(wallets) /\ Tidy(SeenBy(worker[w]))
  BY <1>1 DEF OneInv, PushInv, WalletsOf, Asked
<1>16. MadeInv'
  BY <1>1 DEF OneInv, MadeInv, OneChainAccount, Asked
<1>17. ASSUME MayPush, NEW c \in Chains, Blank(c) \in SeenBy(worker[w])',
              WalletRow(c, "custodial") \in SeenBy(worker[w])'
       PROVE  FALSE
  <2>1. /\ Blank(c) \in wallets \/ Blank(c) \in worker[w].adds \cup new
        /\ WalletRow(c, "custodial") \in wallets \cup worker[w].adds \cup new
    BY <1>1, <1>4, <1>5, <1>17 DEF SeenBy
  <2>2. Blank(c) \in wallets /\ Blank(c) \notin worker[w].adds \cup new
    BY <1>7, <1>8, <1>11, <2>1 DEF Remotes
  <2>3. c \notin worker[w].fills /\ c \notin filled
    BY <1>1, <1>4, <1>5, <1>17, <2>2 DEF SeenBy
  <2>4. Blank(c) \in Seen(w)
    <3>1. \A d \in worker[w].fills : Blank(d) # Blank(c)
      BY <1>11, <2>3
    <3> QED BY <1>6, <2>2, <3>1 DEF SeenBy
  <2>5. WalletRow(c, "custodial") \notin new
    BY <1>9, <1>11, <2>3, <2>4
  <2>6. WalletRow(c, "custodial") \in Seen(w)
    <3>1. \A d : WalletRow(c, "custodial") # Blank(d)
      BY <1>11
    <3> QED BY <1>6, <2>1, <2>5, <3>1 DEF SeenBy
  <2> QED BY <1>6, <1>15, <1>17, <2>4, <2>6 DEF Tidy
<1>18. ASSUME NEW c \in todo
       PROVE  c \in Chains /\ r = "custodial" /\ ~Asked(c) /\ Blank(c) \in wallets
  <2>1. CASE worker[w].pc = "pulls_again"
    BY <1>1, <1>2, <1>7, <1>18, <2>1 DEF HandsOf
  <2>2. CASE worker[w].pc # "pulls_again"
    <3>1. c \in BlankAfter(w, new) /\ Pushes(w)
      BY <1>18, <2>2
    <3>2. Blank(c) \in Seen(w) /\ ~(\E x \in new : x.chain = c) /\ r = "custodial" /\ MayPush
          /\ c \in Chains
      BY <1>10, <1>13, <3>1
    <3>3. Blank(c) \in wallets
      BY <1>6, <1>7, <1>11, <3>2 DEF SeenBy, Remotes
    <3>4. ~Asked(c)
      BY <1>6, <1>8, <1>12, <1>15, <3>2 DEF Tidy
    <3> QED BY <3>2, <3>3, <3>4
  <2> QED BY <2>1, <2>2
<1> HIDE DEF todo
<1>19. HandsOf(worker[w])'
  <2>1. \A c \in Chains : Asked(c)' <=> Asked(c)
    BY <1>1 DEF Asked
  <2>2. \A x \in worker[w].adds \cup new : x.of = "custodial" => Asked(x.chain)'
    BY <1>2, <1>7, <1>8, <1>12, <2>1 DEF HandsOf
  <2>3. \A c \in worker[w].fills \cup filled : \E x \in worker[w].adds \cup new : x.chain = c
    BY <1>2, <1>9 DEF HandsOf
  <2>4. \A c \in todo : r = "custodial" /\ ~Asked(c)' /\ Blank(c) \in wallets'
    BY <1>1, <1>18, <2>1
  <2> QED BY <1>1, <1>2, <1>4, <1>5, <2>2, <2>3, <2>4 DEF HandsOf
<1>20. MayPush => Tidy(SeenBy(worker[w]))'
  BY <1>17 DEF Tidy
<1> QED BY <1>1, <1>14, <1>15, <1>16, <1>19, <1>20, OneGoesOn

\* A chain account is asked for where there was none.
LEMMA OneMakes ==
  ASSUME OneWorker, OreInv, OneInv, NEW w \in Workers, NEW c \in Chains, NEW answered \in BOOLEAN,
         MakesWallet(w, c, answered)
  PROVE  OneInv'
<1>1. /\ Busy(w) /\ worker[w].pc = "pushes" /\ c \in worker[w].todo
      /\ service' = [service EXCEPT ![worker[w].name].made[c] = @ + 1]
      /\ UNCHANGED <<ore, wallets, request>>
  BY DEF MakesWallet
<1>2. /\ worker[w] \in JobStates /\ HandsOf(worker[w]) /\ worker[w].todo \subseteq Chains
      /\ worker \in [Workers -> JobStates \cup {Resting}]
      /\ worker[w].adds \subseteq [chain: Chains, of: Remotes]
  BY <1>1 DEF OreInv, OTypeOK, GoodJobs, GoodJob, OneInv, JobStates
<1>3. worker[w].name = "custodial" /\ ~Asked(c)
  BY <1>1, <1>2 DEF HandsOf
<1>4. service \in [Remotes -> [exists: BOOLEAN, password: BOOLEAN, made: [Chains -> 0..MaxMade]]]
  BY DEF OreInv, OTypeOK
<1>5. /\ service'["custodial"].made = [service["custodial"].made EXCEPT ![c] = @ + 1]
      /\ service'["custodial"].exists = service["custodial"].exists
  BY <1>1, <1>3, <1>4 DEF Remotes
<1>6. /\ service["custodial"].made[c] = 0
      /\ service["custodial"].made \in [Chains -> 0..MaxMade] /\ MaxMade \in Nat
  BY <1>3, <1>4, OreAssumption DEF Asked, Remotes
<1>7. /\ service'["custodial"].made[c] = 1
      /\ \A d \in Chains \ {c} : service'["custodial"].made[d] = service["custodial"].made[d]
  BY <1>5, <1>6
<1>8. Asked(c)' /\ \A d \in Chains \ {c} : Asked(d)' <=> Asked(d)
  BY <1>7 DEF Asked
<1>9. service["custodial"].exists
  BY <1>2, <1>3 DEF HandsOf
<1>10. MadeInv'
  <2>1. OneChainAccount'
    BY <1>7 DEF OneInv, MadeInv, OneChainAccount
  <2>2. \A x \in wallets : x.chain \in Chains
    BY DEF OreInv, OTypeOK
  <2> QED BY <1>1, <1>5, <1>8, <1>9, <2>1, <2>2 DEF OneInv, MadeInv
<1>11. \A v \in Workers : v = w
  BY DEF OneWorker
<1>12. MayPush /\ ~worker[w].gone => WalletsOf' /\ Tidy(wallets) /\ Tidy(SeenBy(worker[w]))
  <2> SUFFICES ASSUME MayPush, ~worker[w].gone
               PROVE  WalletsOf' /\ Tidy(wallets) /\ Tidy(SeenBy(worker[w]))
    OBVIOUS
  <2>1. WalletsOf /\ Tidy(wallets) /\ Tidy(SeenBy(worker[w]))
    BY <1>1 DEF OneInv, PushInv
  <2>2. Blank(c) \in wallets /\ c \notin request.chains
    BY <1>1, <1>2 DEF HandsOf, OneInv, MadeInv
  <2>3. Blank(c).chain = c
    BY DEF Blank, WalletRow
  <2>4. WalletsOf'
    BY <1>1, <1>8, <2>1, <2>2, <2>3 DEF WalletsOf
  <2> QED BY <2>1, <2>4
<1>13. worker[w].gone => ore.state # "unclaimed"
  BY <1>2 DEF HandsOf
<1>14. CASE answered
  <2> DEFINE j == [worker[w] EXCEPT !.pc = "pulls_again", !.todo = @ \ {c}]
  <2>1. worker' = [worker EXCEPT ![w] = j]
    BY <1>2, <1>14 DEF MakesWallet
  <2>2. /\ j.pc = "pulls_again" /\ j.todo = worker[w].todo \ {c} /\ j.adds = worker[w].adds
        /\ j.fills = worker[w].fills /\ j.gone = worker[w].gone /\ j.name = worker[w].name
        /\ j.job = worker[w].job /\ j.state = worker[w].state
    BY <1>2 DEF JobStates
  <2> HIDE DEF j
  <2>3. worker'[w] = j
    BY <1>2, <2>1
  <2>4. MayPush' => MayPush /\ ~worker[w].gone
    BY <1>1, <1>11, <1>13, <2>2, <2>3 DEF MayPush
  <2>5. HandsOf(worker[w])'
    <3>1. \A x \in worker[w].adds : x.of = "custodial" => Asked(x.chain)'
      BY <1>2, <1>8 DEF HandsOf
    <3>2. \A d \in worker[w].todo \ {c} : ~Asked(d)'
      BY <1>2, <1>8 DEF HandsOf
    <3> QED BY <1>1, <1>2, <1>3, <1>5, <2>2, <2>3, <3>1, <3>2 DEF HandsOf
  <2>6. Tidy(SeenBy(worker[w])) => Tidy(SeenBy(worker[w]))'
    BY <1>1, <2>2, <2>3 DEF SeenBy, Tidy
  <2> QED BY <1>1, <1>10, <1>12, <2>4, <2>5, <2>6, OneGoesOn
<1>15. CASE ~answered
  <2>1. worker' = [worker EXCEPT ![w] = Resting]
    BY <1>15 DEF MakesWallet, Reschedules, Rests
  <2>2. ~Busy(w)'
    BY <1>2, <2>1 DEF Busy, Resting
  <2>3. MayPush' => MayPush /\ ~worker[w].gone
    BY <1>1, <1>11, <1>13, <2>2 DEF MayPush
  <2> QED BY <1>1, <1>10, <1>12, <2>2, <2>3, OneGoesOn
<1> QED BY <1>14, <1>15

\* What a transaction has seen of the wallets is what there is when it commits.
LEMMA OneCommits ==
  ASSUME OneWorker, OreInv, OneInv, NEW w \in Workers, Commits(w) \/ Claims(w)
  PROVE  OneInv'
<1>1. /\ Busy(w) /\ ~worker[w].gone /\ Rests(w) /\ UNCHANGED <<request, service>>
      /\ \A v \in Workers : v = w
  BY DEF Commits, Claims, Does, OneWorker
<1>2. /\ worker[w] \in JobStates /\ HandsOf(worker[w]) /\ GoodJob(worker[w], ore.state)
      /\ worker \in [Workers -> JobStates \cup {Resting}]
      /\ worker[w].adds \subseteq [chain: Chains, of: Remotes]
  BY <1>1 DEF OreInv, OTypeOK, GoodJobs, GoodJob, OneInv, JobStates
<1>3. ~Busy(w)'
  BY <1>1, <1>2 DEF Busy, Resting, Rests
<1>4. \A c \in Chains : Asked(c)' <=> Asked(c)
  BY <1>1 DEF Asked
<1>5. \A x \in wallets : x.chain \in Chains
  BY DEF OreInv, OTypeOK
<1>6. CASE Claims(w)
  <2>1. wallets' = wallets /\ ore' = [ore EXCEPT !.state = "ok"]
    BY <1>6 DEF Claims
  <2>2. ore \in [state: States, name: Remotes \cup {"none"}]
    BY <1>1, <1>2 DEF OreInv, OTypeOK, GoodJob, NoRow
  <2>3. ore'.state = "ok" /\ ore'.name = ore.name
    BY <2>1, <2>2
  <2>4. MadeInv'
    BY <1>1, <1>4, <1>5, <2>1, <2>3 DEF OneInv, MadeInv, OneChainAccount
  <2>5. ~MayPush'
    BY <1>1, <1>3, <2>3 DEF MayPush
  <2> QED BY <1>1, <1>3, <2>4, <2>5 DEF OneInv, PushInv
<1>7. CASE Commits(w)
  <2>1. wallets' = SeenBy(worker[w]) /\ worker[w].pc = "ends"
    BY <1>7 DEF Commits, Seen, SeenBy
  <2>2. /\ ore'.name = "custodial" => ore.name = "custodial" \/ worker[w].name = "custodial"
        /\ ore'.state = "unclaimed" => MayPush
    <3>1. CASE worker[w].job = "OreIdSync"
      <4>1. ore' = [state |-> "unclaimed", name |-> worker[w].name]
        BY <1>7, <3>1 DEF Commits
      <4> QED BY <1>1, <2>1, <3>1, <4>1 DEF MayPush
    <3>2. CASE worker[w].job = "OreIdWalletsSync"
      <4>1. Linked(worker[w].state)
        BY <1>2, <3>2 DEF GoodJob
      <4>2. ore' = ore
        BY <1>7, <3>2, <4>1 DEF Commits, Linked
      <4> QED BY <4>2 DEF MayPush
    <3>3. worker[w].job # "OreIdPasswordUpdateSync" /\ worker[w].job \in Kinds
      BY <1>2, <2>1 DEF GoodJob, JobStates
    <3> QED BY <3>1, <3>2, <3>3 DEF Kinds
  <2>3. /\ \A c : Blank(c).of = "blank" /\ Blank(c).chain = c
        /\ \A c, x : x = Blank(c) => x.chain = c
    BY DEF Blank, WalletRow
  <2>4. \A x \in wallets' : x.chain \in Chains /\ (x.of = "custodial" => Asked(x.chain))
    BY <1>2, <1>5, <2>1 DEF SeenBy, HandsOf, OneInv, MadeInv
  <2>5. \A c \in Chains : Blank(c) \in wallets' => Blank(c) \in wallets
    BY <1>2, <2>1, <2>3 DEF SeenBy, Remotes
  <2>6. MadeInv'
    BY <1>1, <1>2, <1>4, <2>2, <2>4, <2>5 DEF OneInv, MadeInv, OneChainAccount, HandsOf
  <2>7. MayPush' => MayPush
    BY <1>1, <1>3, <2>2 DEF MayPush
  <2>8. ASSUME MayPush PROVE WalletsOf' /\ Tidy(wallets')
    <3>1. WalletsOf /\ Tidy(wallets')
      BY <1>1, <2>1, <2>8 DEF OneInv, PushInv
    <3>2. ASSUME NEW c \in Chains, Asked(c) PROVE \E x \in wallets' : x.chain = c
      <4>1. PICK x \in wallets : x.chain = c
        BY <3>1, <3>2 DEF WalletsOf
      <4>2. CASE x \in wallets'
        BY <4>1, <4>2
      <4>3. CASE x \notin wallets'
        <5>1. PICK d \in worker[w].fills : x = Blank(d)
          BY <2>1, <4>3 DEF SeenBy
        <5>2. PICK y \in worker[w].adds : y.chain = d
          BY <1>2, <5>1 DEF HandsOf
        <5> QED BY <2>1, <2>3, <4>1, <5>1, <5>2 DEF SeenBy
      <4> QED BY <4>2, <4>3
    <3>3. WalletsOf'
      BY <1>1, <1>4, <3>1, <3>2 DEF WalletsOf
    <3> QED BY <3>1, <3>3
  <2>9. PushInv'
    BY <1>1, <1>3, <2>7, <2>8 DEF PushInv, Tidy
  <2> QED BY <1>1, <1>3, <2>6, <2>9 DEF OneInv
<1> QED BY <1>6, <1>7

LEMMA OneJobStep ==
  ASSUME OneWorker, OreInv, OneInv, NEW w \in Workers, Job(w)
  PROVE  OneInv'
<1>1. CASE Fails(w) \/ Crashes(w) \/ OpensUnheard(w)
  <2>1. Rests(w) /\ UNCHANGED <<ore, wallets, request>>
    BY <1>1 DEF Fails, Crashes, OpensUnheard, Reschedules
  <2>2. /\ service'["custodial"].made = service["custodial"].made
        /\ service'["custodial"].exists = service["custodial"].exists \/ service'["custodial"].exists
    BY <1>1 DEF Fails, Crashes, OpensUnheard, OreInv, OTypeOK, Remotes
  <2> QED BY <2>1, <2>2, OneRests
<1> QED BY <1>1, OneBegins, OneOpens, OnePulls, OneMakes, OneCommits DEF Job

LEMMA OneStays ==
  ASSUME OneWorker, OreInv, OneInv, [Next]_vars
  PROVE  OneInv'
<1>1. CASE UNCHANGED vars
  BY <1>1, OneOthers DEF vars
<1>2. CASE Requests
  <2>1. CASE LinksManually
    BY <2>1, OneOthers DEF LinksManually, EnsuresRow, CreatesRow, Exists
  <2>2. CASE Recovers
    BY <2>2, OneOthers DEF Recovers
  <2>3. ASSUME NEW r \in Remotes, Receives(r) PROVE OneInv'
    BY <2>3, OneOthers DEF Receives
  <2>4. ASSUME NEW cs \in SUBSET Chains, NEW ps \in SUBSET Chains, AsksForWallets(cs, ps)
        PROVE  OneInv'
    <3>1. /\ request'.chains = cs /\ \A x \in wallets : x.chain \notin cs
          /\ UNCHANGED <<wallets, worker, service>>
          /\ ore' = ore \/ ore' = [state |-> "pending", name |-> "none"]
      BY <2>4 DEF AsksForWallets, EnsuresRow, CreatesRow
    <3> QED BY <3>1, OneOthers
  <2> QED BY <1>2, <2>1, <2>2, <2>3, <2>4, OneUnlinks, OneInserts DEF Requests
<1>3. CASE Outside
  <2>1. CASE DeclaresFailed \/ TimePasses
    BY <2>1, OneOthers DEF DeclaresFailed, TimePasses
  <2>2. CASE UpdatesPassword \/ \E cs \in SUBSET Chains : SignsUp(cs)
    <3>1. /\ service'["custodial"].made = service["custodial"].made
          /\ service'["custodial"].exists = service["custodial"].exists
      BY <2>2 DEF UpdatesPassword, SignsUp, OreInv, OTypeOK, Remotes
    <3> QED BY <2>2, <3>1, OneOthers DEF UpdatesPassword, SignsUp, rows
  <2> QED BY <1>3, <2>1, <2>2 DEF Outside
<1>4. ASSUME NEW c \in Chains, ProvisionJob(c) PROVE OneInv'
  BY <1>4, OneOthers DEF ProvisionJob, Postpones, Performs, TimePassesFor
<1> QED BY <1>1, <1>2, <1>3, <1>4, OneJobStep DEF Next

LEMMA OneInitially == ASSUME Init PROVE OneInv
<1>1. \A w \in Workers : ~Busy(w)
  BY DEF Init, Busy, Resting
<1>2. \A c \in Chains : ~Asked(c) /\ service["custodial"].made[c] = 0
  BY DEF Init, Asked, Remotes
<1>3. ~MayPush
  BY <1>1 DEF Init, MayPush, NoRow
<1>4. MadeInv
  <2>1. OneChainAccount
    <3> SUFFICES ASSUME NEW c \in Chains PROVE service["custodial"].made[c] <= 1
      BY DEF OneChainAccount
    <3> DEFINE n == service["custodial"].made[c]
    <3>1. n = 0
      BY <1>2
    <3> HIDE DEF n
    <3>2. n <= 1
      BY <3>1
    <3> QED BY <3>2 DEF n
  <2>2. wallets = {} /\ ore.name = "none"
    BY DEF Init, NoRow
  <2> QED BY <1>2, <2>1, <2>2 DEF MadeInv
<1> QED BY <1>1, <1>3, <1>4 DEF OneInv, PushInv

\* With one worker, the API never asks for a second chain account of a chain,
\* however often its jobs are repeated, their answers lost and the account
\* unlinked and linked again (create_wallet, pull_wallets, push_wallets).
THEOREM AsksOnce == ASSUME OneWorker PROVE Spec => []OneChainAccount
<1>1. Spec => []OreInv
  BY OreInitially, OreStays, PTL DEF Spec
<1>2. Init => OneInv
  BY OneInitially
<1>3. OreInv /\ OneInv /\ [Next]_vars => OneInv'
  BY OneStays
<1>4. OneInv => OneChainAccount
  BY DEF OneInv, MadeInv
<1> QED BY <1>1, <1>2, <1>3, <1>4, PTL DEF Spec

=============================================================================

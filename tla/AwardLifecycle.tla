-------------------------- MODULE AwardLifecycle --------------------------
(***************************************************************************)
(* The life of the awards of one project (app/models/award.rb): tasks that *)
(* contributors start, submit and see accepted, rejected and paid, that    *)
(* are cloned when several people may do them, that expire when nobody     *)
(* hands them in, and that may not exceed the project's budget.            *)
(*                                                                         *)
(* Every operation is a process (a web request of awards_controller.rb or  *)
(* transfers_controller.rb, the task awards:expire, a job that pays) that  *)
(* loads a copy of the award, checks the policy against it, changes the    *)
(* copy, validates it and saves it. Nothing locks the row in between, and  *)
(* a save writes only the attributes that differ from the loaded copy.     *)
(*                                                                         *)
(* Abstracted: every award has the amount 1, one specialty, one network,   *)
(* recipients are known accounts, and invite_ready counts as ready.        *)
(***************************************************************************)
EXTENDS Integers, FiniteSets, FiniteSetsExt

CONSTANTS
  Accounts,      \* contributors
  Nobody,        \* account is nil
  Requests,      \* web requests and tasks running at the same time
  MaxAwards,     \* bound: award rows ever inserted
  MaxTasks,      \* bound: how many of them are not clones
  MaxQuota,      \* bound: the largest number_of_assignments of a task
  StartedLimit,  \* Award::STARTED_TASKS_PER_CONTRIBUTOR
  MaxTokens,     \* project.maximum_tokens; 0 where the project has no budget
  MaxExperience, \* bound: the level up to which experience is counted
  Handlers       \* which of OptionalHandlers are used, beside contributors

OptionalHandlers ==
  { "transfers", \* API clients create transfers and cancel them
    "reviews",   \* admins accept and reject what is submitted
    "assign",    \* admins assign tasks to people
    "send",      \* admins send awards for tasks to people
    "payments",  \* awards are paid from the browser or by a sync job
    "reminders" } \* the task that reminds contributors runs

ASSUME LifecycleAssumption ==
  /\ Nobody \notin Accounts
  /\ IsFiniteSet(Accounts) /\ IsFiniteSet(Requests)
  /\ MaxAwards \in Nat \ {0}
  /\ MaxTasks \in Nat
  /\ MaxQuota \in Nat \ {0}
  /\ StartedLimit \in Nat \ {0}
  /\ MaxTokens \in Nat
  /\ MaxExperience \in Nat
  /\ Handlers \subseteq OptionalHandlers

Ids == 1..MaxAwards

VARIABLES
  awards,     \* the rows of table awards
  nAwards,    \* how many there are
  request,    \* what each process is doing, and the copy it loaded
  experience  \* Experience#level of each account

vars == <<awards, nAwards, request, experience>>

Status == {"ready", "started", "submitted", "accepted", "rejected", "paid", "cancelled"}
Deadlines == {"none", "future", "past"}  \* of a time: nil, after now, before now

\* origin: the award this one was cloned from, 0 if it was not;
\* quota, perUser: number_of_assignments and number_of_assignments_per_user;
\* count: the counter cache assignments_count.
Row == [status: Status \cup {"none"}, account: Accounts \cup {Nobody}, origin: 0..MaxAwards,
        quota: 1..MaxQuota, perUser: 1..MaxQuota, count: Nat,
        expires: Deadlines, notify: Deadlines]

NewTask(quota, perUser) ==
  [status |-> "ready", account |-> Nobody, origin |-> 0, quota |-> quota,
   perUser |-> perUser, count |-> 0, expires |-> "none", notify |-> "none"]

NewTransfer(a) == [NewTask(1, 1) EXCEPT !.status = "accepted", !.account = a]

Absent == [NewTask(1, 1) EXCEPT !.status = "none"]

\* id = 0: the award is new; old: the row as loaded; new: the copy as changed.
Process == [pc: {"idle", "clone", "insert", "validate", "write"},
            id: 0..MaxAwards, old: Row, new: Row]

Idle == [pc |-> "idle", id |-> 0, old |-> Absent, new |-> Absent]

Live == 1..nAwards

\* What a save never changes, and so no copy can get wrong.
SameTask(copy, row) ==
  copy.origin = row.origin /\ copy.quota = row.quota /\ copy.perUser = row.perUser

TypeOK ==
  /\ awards \in [Ids -> Row]
  /\ nAwards \in 0..MaxAwards
  /\ request \in [Requests -> Process]
  /\ experience \in [Accounts -> 0..MaxExperience]
  /\ \A i \in Ids : awards[i].status # "none" <=> i \in Live
  /\ \A i \in Live : awards[i].origin < i
  /\ \A r \in Requests : request[r].id # 0 =>
       /\ request[r].id \in Live
       /\ SameTask(request[r].old, awards[request[r].id])
       /\ SameTask(request[r].new, request[r].old)

Init ==
  /\ awards = [i \in Ids |-> Absent]
  /\ nAwards = 0
  /\ request = [r \in Requests |-> Idle]
  /\ experience = [a \in Accounts |-> 0]

-----------------------------------------------------------------------------
(* What the model's predicates and validations ask                          *)

\* Mutant: the award itself is not counted among its assignments.
ShouldBeClonedOneMore(row) == row.count < row.quota

ShouldBeCloned(row) == row.count + 1 < row.quota

ClonesOf(i) == {j \in Live : awards[j].origin = i}
StartedBy(a) == {j \in Live : awards[j].status = "started" /\ awards[j].account = a}

ReachedMaximum(i, row, a) ==
  Cardinality({j \in ClonesOf(i) : awards[j].account = a}) >= row.perUser

TooManyStarted(a) == Cardinality(StartedBy(a)) >= StartedLimit

CanBeClonedFor(i, row, a) == ~TooManyStarted(a) /\ ~ReachedMaximum(i, row, a)

PossibleQuantity(row) ==
  IF row.status \in {"cancelled", "rejected"} THEN 0 ELSE row.quota - row.count

\* The validation of the budget when row is saved as award i (0: a new one).
FitsBudget(i, row) ==
  \/ MaxTokens = 0
  \/ LET Quantity(j) == PossibleQuantity(awards[j])
     IN  PossibleQuantity(row) + MapThenSumSet(Quantity, Live \ {i}) <= MaxTokens

\* Mutant: no validation of the change of status.
CancellationAllowedAlways(old, row) == TRUE

CancellationAllowed(old, row) ==
  row.status = "cancelled" => old.status \notin {"rejected", "paid"}

Valid(i, old, row) ==
  /\ FitsBudget(i, row)
  /\ row.status = "started" /\ row.account # Nobody =>
       ~TooManyStarted(row.account) /\ ~ReachedMaximum(i, row, row.account)
  /\ CancellationAllowed(old, row)
  /\ row.status = "accepted" => row.account # Nobody

\* The callbacks set_expires_at and clear_expires_at, before the validation.
Prepared(row) ==
  CASE row.status = "started" /\ row.expires = "none" ->
         [row EXCEPT !.expires = "future", !.notify = "future"]
    [] row.status = "submitted" /\ row.expires # "none" ->
         [row EXCEPT !.expires = "none", !.notify = "none"]
    [] OTHER -> row

-----------------------------------------------------------------------------
(* A request loads an award, checks the policy and changes its copy         *)

\* Bound: an insert must find room when it comes; the guards of the two inserts
\* repeat it and are never false.
Room == nAwards + Cardinality({r \in Requests : request[r] # Idle}) < MaxAwards

\* Bound: how many tasks and transfers are created.
RoomForTask ==
  /\ Room
  /\ Cardinality({i \in Live : awards[i].origin = 0})
       + Cardinality({r \in Requests : request[r] # Idle /\ request[r].id = 0}) < MaxTasks

Load(r, id, row, changed, pc) ==
  /\ request[r] = Idle
  /\ request' = [request EXCEPT ![r] = [pc |-> pc, id |-> id, old |-> row, new |-> changed]]
  /\ UNCHANGED <<awards, nAwards, experience>>

\* Change the status of award i alone.
ChangeStatus(r, i, status) ==
  Load(r, i, awards[i], [awards[i] EXCEPT !.status = status], "validate")

\* Give award i to account a, or a clone of it where it should be cloned.
Give(r, i, status, a) ==
  /\ ShouldBeCloned(awards[i]) => Room
  /\ Load(r, i, awards[i], [awards[i] EXCEPT !.status = status, !.account = a], "clone")

MayAssign(i) == awards[i].status = "ready"
MaySubmit(i) == awards[i].status = "started" /\ awards[i].account # Nobody
MayReview(i) == awards[i].status = "submitted"
MayPay(i) == awards[i].status = "accepted"
MayCancel(i) == MaySubmit(i) \/ MayPay(i) \/ MayAssign(i)

MayStart(i, a) ==
  /\ awards[i].status = "ready"
  /\ awards[i].account = a \/ ~ReachedMaximum(i, awards[i], a)

CanBeEdited(i) ==
  awards[i].status = "ready" /\ awards[i].origin = 0 /\ awards[i].count = 0

CreateAward(r, quota, perUser) ==
  /\ RoomForTask /\ perUser <= quota
  /\ Load(r, 0, NewTask(quota, perUser), NewTask(quota, perUser), "validate")

CreateTransfer(r, a) ==
  /\ "transfers" \in Handlers /\ RoomForTask
  /\ Load(r, 0, NewTransfer(a), NewTransfer(a), "validate")

Start(r, i, a) == MayStart(i, a) /\ Give(r, i, "started", a)
Assign(r, i, a) ==
  "assign" \in Handlers /\ MayAssign(i) /\ Give(r, i, "ready", a)
SendAward(r, i, a) ==
  "send" \in Handlers /\ CanBeEdited(i) /\ Give(r, i, "accepted", a)
Submit(r, i) == MaySubmit(i) /\ ChangeStatus(r, i, "submitted")
Accept(r, i) ==
  "reviews" \in Handlers /\ MayReview(i) /\ ChangeStatus(r, i, "accepted")
Reject(r, i) ==
  "reviews" \in Handlers /\ MayReview(i) /\ ChangeStatus(r, i, "rejected")
Destroy(r, i) == MayCancel(i) /\ ChangeStatus(r, i, "cancelled")

\* DELETE of the API: a transfer that is accepted, paid or cancelled.
DestroyTransfer(r, i) ==
  /\ "transfers" \in Handlers
  /\ awards[i].status \in {"accepted", "paid", "cancelled"}
  /\ ChangeStatus(r, i, "cancelled")

\* A hash or a good receipt makes it paid; an error or a bad receipt does not.
UpdateTransactionAddress(r, i) ==
  /\ "payments" \in Handlers /\ MayPay(i)
  /\ \E status \in {"paid", "accepted"} : ChangeStatus(r, i, status)

\* A job found the award's transaction confirmed. (It pays an award that was
\* cancelled after its transaction was created too: BlockchainTransactions.)
UpdateTransactableStatus(r, i) ==
  /\ "payments" \in Handlers
  /\ awards[i].status \in {"accepted", "paid"}
  /\ ChangeStatus(r, i, "paid")

\* Mutant: the scan leaves clones out.
MayExpireOriginals(i) ==
  awards[i].status = "started" /\ awards[i].expires = "past" /\ awards[i].origin = 0

MayExpire(i) == awards[i].status = "started" /\ awards[i].expires = "past"

\* Mutant: a clone is taken back like an original.
ExpiredReopened(row) ==
  [row EXCEPT !.status = "ready", !.account = Nobody, !.expires = "none"]

\* Mutant: the deadline stays.
ExpiredWithDeadline(row) ==
  IF row.origin # 0 THEN [row EXCEPT !.status = "cancelled"]
  ELSE [row EXCEPT !.status = "ready", !.account = Nobody]

Expired(row) ==
  IF row.origin # 0 THEN [row EXCEPT !.status = "cancelled"]
  ELSE [row EXCEPT !.status = "ready", !.account = Nobody, !.expires = "none"]

\* Overdue awards are loaded first; mails are delivered before each is saved.
RunExpiration(r, i) ==
  MayExpire(i) /\ Load(r, i, awards[i], Expired(awards[i]), "validate")

RunExpiringNotification(r, i) ==
  /\ "reminders" \in Handlers
  /\ awards[i].status = "started" /\ awards[i].notify = "past"
  /\ Load(r, i, awards[i], [awards[i] EXCEPT !.notify = "none"], "validate")

-----------------------------------------------------------------------------
(* Cloning: the copy's own save, with its own validation                    *)

\* dup copies every attribute, the counter cache assignments_count too.
CloneOf(i, row) == [row EXCEPT !.origin = i, !.quota = 1, !.perUser = 1]

NeedsClone(r) ==
  LET p == request[r]
  IN  ShouldBeCloned(p.old) /\ CanBeClonedFor(p.id, p.old, p.new.account)

KeepOriginal(r) ==
  /\ request[r].pc = "clone" /\ ~NeedsClone(r)
  /\ request' = [request EXCEPT ![r].pc = "validate"]
  /\ UNCHANGED <<awards, nAwards, experience>>

\* save! of the clone is refused: the request ends with an error.
RefuseClone(r) ==
  /\ request[r].pc = "clone" /\ NeedsClone(r)
  /\ ~FitsBudget(0, CloneOf(request[r].id, request[r].old))
  /\ request' = [request EXCEPT ![r] = Idle]
  /\ UNCHANGED <<awards, nAwards, experience>>

ValidateClone(r) ==
  /\ request[r].pc = "clone" /\ NeedsClone(r)
  /\ FitsBudget(0, CloneOf(request[r].id, request[r].old))
  /\ request' = [request EXCEPT ![r].pc = "insert"]
  /\ UNCHANGED <<awards, nAwards, experience>>

\* The request goes on with the clone, which it changes as it was asked to.
OnClone(p, clone) ==
  [pc |-> "validate", id |-> nAwards + 1, old |-> clone,
   new |-> [clone EXCEPT !.status = p.new.status, !.account = p.new.account]]

\* Mutant: the counter is written from the loaded copy.
InsertCloneCountingStale(r) ==
  LET p == request[r]
      clone == CloneOf(p.id, p.old)
  IN  /\ p.pc = "insert" /\ nAwards < MaxAwards
      /\ nAwards' = nAwards + 1
      /\ awards' = [awards EXCEPT ![p.id].count = p.old.count + 1, ![nAwards + 1] = clone]
      /\ request' = [request EXCEPT ![r] = OnClone(p, clone)]
      /\ UNCHANGED experience

\* The row and the counter, which the database increments, in one transaction.
InsertClone(r) ==
  LET p == request[r]
      clone == CloneOf(p.id, p.old)
  IN  /\ p.pc = "insert" /\ nAwards < MaxAwards
      /\ nAwards' = nAwards + 1
      /\ awards' = [awards EXCEPT ![p.id].count = @ + 1, ![nAwards + 1] = clone]
      /\ request' = [request EXCEPT ![r] = OnClone(p, clone)]
      /\ UNCHANGED experience

-----------------------------------------------------------------------------
(* Saving                                                                   *)

Validate(r) ==
  LET p == request[r]
      row == Prepared(p.new)
  IN  /\ p.pc = "validate" /\ Valid(p.id, p.old, row)
      /\ request' = [request EXCEPT ![r].pc = "write", ![r].new = row]
      /\ UNCHANGED <<awards, nAwards, experience>>

Refuse(r) ==
  LET p == request[r]
  IN  /\ p.pc = "validate" /\ ~Valid(p.id, p.old, Prepared(p.new))
      /\ request' = [request EXCEPT ![r] = Idle]
      /\ UNCHANGED <<awards, nAwards, experience>>

\* after_save: a completed award adds to its account's experience.
GainExperience(row) ==
  experience' = [a \in Accounts |->
    IF row.status \in {"accepted", "paid"} /\ row.account = a /\ experience[a] < MaxExperience
      THEN experience[a] + 1 ELSE experience[a]]

InsertAward(r) ==
  /\ request[r].pc = "write" /\ request[r].id = 0 /\ nAwards < MaxAwards
  /\ nAwards' = nAwards + 1
  /\ awards' = [awards EXCEPT ![nAwards + 1] = request[r].new]
  /\ GainExperience(request[r].new)
  /\ request' = [request EXCEPT ![r] = Idle]

\* The attributes that differ from the loaded copy, over the row as it is now.
Merged(row, old, new) ==
  [row EXCEPT !.status = IF new.status = old.status THEN @ ELSE new.status,
              !.account = IF new.account = old.account THEN @ ELSE new.account,
              !.expires = IF new.expires = old.expires THEN @ ELSE new.expires,
              !.notify = IF new.notify = old.notify THEN @ ELSE new.notify]

UpdateAward(r) ==
  LET p == request[r]
  IN  /\ p.pc = "write" /\ p.id # 0
      /\ awards' = [awards EXCEPT ![p.id] = Merged(@, p.old, p.new)]
      /\ GainExperience(p.new)
      /\ request' = [request EXCEPT ![r] = Idle]
      /\ UNCHANGED nAwards

\* Time passes; the notification comes at three quarters of the time allowed
\* (where reminders are never sent, nobody can tell when it does).
NotificationFallsDue(i) ==
  /\ "reminders" \in Handlers /\ awards[i].notify = "future"
  /\ awards' = [awards EXCEPT ![i].notify = "past"]
  /\ UNCHANGED <<nAwards, request, experience>>

ExpiryFallsDue(i) ==
  /\ awards[i].expires = "future"
  /\ "reminders" \in Handlers => awards[i].notify # "future"
  /\ awards' = [awards EXCEPT ![i].expires = "past"]
  /\ UNCHANGED <<nAwards, request, experience>>

-----------------------------------------------------------------------------
Contributor(r, i) ==
  \/ \E a \in Accounts : Start(r, i, a)
  \/ Submit(r, i)

Admin(r, i) ==
  \/ \E a \in Accounts : Assign(r, i, a) \/ SendAward(r, i, a)
  \/ Accept(r, i) \/ Reject(r, i) \/ Destroy(r, i) \/ DestroyTransfer(r, i)
  \/ UpdateTransactionAddress(r, i)

Background(r, i) ==
  \/ RunExpiration(r, i)
  \/ RunExpiringNotification(r, i)
  \/ UpdateTransactableStatus(r, i)

Create(r) ==
  \/ \E quota, perUser \in 1..MaxQuota : CreateAward(r, quota, perUser)
  \/ \E a \in Accounts : CreateTransfer(r, a)

Saving(r) ==
  \/ KeepOriginal(r) \/ RefuseClone(r) \/ ValidateClone(r) \/ InsertClone(r)
  \/ Validate(r) \/ Refuse(r) \/ InsertAward(r) \/ UpdateAward(r)

Time(i) == NotificationFallsDue(i) \/ ExpiryFallsDue(i)

Next ==
  \/ \E r \in Requests :
       \/ Create(r)
       \/ \E i \in Live : Contributor(r, i) \/ Admin(r, i) \/ Background(r, i)
       \/ Saving(r)
  \/ \E i \in Live : Time(i)

Spec == Init /\ [][Next]_vars

\* A request that has begun ends, and awards:expire runs again and again beside
\* whatever visitors do.
Fairness ==
  /\ \A r \in Requests : WF_vars(Saving(r))
  /\ \A i \in Ids : SF_vars(\E r \in Requests : i \in Live /\ RunExpiration(r, i))

FairSpec == Spec /\ Fairness

-----------------------------------------------------------------------------
(* Safety: whatever requests run beside each other                          *)

\* The counter cache of an original is the number of its clones
\* (counter_cache: :assignments_count), however many are cloned at once: it is
\* what should_be_cloned? and the budget count with.
CountsClones ==
  \A i \in Live : awards[i].origin = 0 => awards[i].count = Cardinality(ClonesOf(i))

\* clone_on_assignment makes clones of originals, never clones of clones.
ClonesAreNotCloned ==
  \A i \in Live : awards[i].origin # 0 =>
    awards[awards[i].origin].origin = 0 /\ ClonesOf(i) = {}

\* The expiry scan sees every started task and no ready one: a started task has
\* a deadline, a ready one has none, whoever started, submitted or expired it.
DeadlinesFit ==
  \A i \in Live :
    /\ awards[i].status = "started" => awards[i].expires # "none"
    /\ awards[i].status = "ready" => awards[i].expires = "none"

\* A clone that was started is never offered again: expire! cancels it.
ClonesNeverReopen ==
  [][\A i \in Live : awards[i].origin # 0 /\ awards[i].status # "ready" =>
       awards'[i].status # "ready"]_vars

\* The original is the last of its number_of_assignments assignments, so that it
\* has fewer clones than that: should_be_cloned? asks a copy, and each process
\* that runs beside another one can add at most one clone too many.
OvershootIsBounded ==
  \A i \in Live : awards[i].origin = 0 =>
    awards[i].count + 2 <= awards[i].quota + Cardinality(Requests)

Settled == {"paid", "rejected"}

\* A paid or rejected award is moved by nobody who has seen that it is settled
\* (validate :cancellation), only by processes that loaded it before.
SettledIsOverwrittenUnseen ==
  [][\A i \in Live : awards[i].status \in Settled /\ awards'[i].status # awards[i].status =>
       \E r \in Requests : /\ request[r].id = i /\ request[r].pc = "write"
                            /\ request[r].old.status \notin Settled]_vars

-----------------------------------------------------------------------------
(* Liveness                                                                 *)

Overdue(i) == awards[i].status = "started" /\ awards[i].expires = "past"

\* An overdue task or clone does not stay with its contributor for ever.
OverdueIsTakenBack ==
  \A i \in Ids : Overdue(i) ~> ~Overdue(i)

===========================================================================

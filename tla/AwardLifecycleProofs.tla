----------------------- MODULE AwardLifecycleProofs -----------------------
(***************************************************************************)
(* Proofs about AwardLifecycle, for any accounts, requests and bounds:     *)
(* types, the counter cache, clones and deadlines. Every request works on  *)
(* a copy of its own, so the invariant says what a copy may be at each     *)
(* stage, and that this is enough for the rows when the copy is saved.     *)
(* At the end: how many clones too many stale copies can make, and who can *)
(* move an award that is settled.                                          *)
(***************************************************************************)
EXTENDS AwardLifecycle, FiniteSetTheorems, TLAPS

-----------------------------------------------------------------------------
(* Rows                                                                     *)

\* Changing the status and the account leaves a row.
LEMMA StatusChanges ==
  ASSUME NEW row \in Row, NEW st \in Status, NEW a \in Accounts \cup {Nobody}
  PROVE  /\ [row EXCEPT !.status = st] \in Row
         /\ [row EXCEPT !.status = st, !.account = a] \in Row
         /\ [row EXCEPT !.status = st, !.account = a, !.expires = "none"] \in Row
  BY DEF Row, Deadlines

\* The numbers that new rows and clones hold are within the bounds.
LEMMA Bounds ==
  /\ MaxQuota \in Nat /\ MaxAwards \in Nat /\ MaxExperience \in Nat
  /\ 1 \in 1..MaxQuota /\ 0 \in 0..MaxAwards
  BY LifecycleAssumption

\* A new row is one, whatever its quota.
LEMMA NewRows ==
  ASSUME NEW quota \in 1..MaxQuota, NEW perUser \in 1..MaxQuota
  PROVE  NewTask(quota, perUser) \in Row /\ Absent \in Row
<1>1. \A q, u \in 1..MaxQuota : NewTask(q, u) \in Row
  BY Bounds DEF NewTask, Row, Status, Deadlines
<1> QED BY <1>1, Bounds DEF Absent, Row

LEMMA NewTransferRow ==
  ASSUME NEW a \in Accounts
  PROVE  NewTransfer(a) \in Row
<1>1. NewTask(1, 1) \in Row BY NewRows, Bounds
<1>2. "accepted" \in Status \cup {"none"} /\ a \in Accounts \cup {Nobody} BY DEF Status
<1>3. PICK task \in Row : task = NewTask(1, 1) BY <1>1
<1>4. [task EXCEPT !.status = "accepted", !.account = a] \in Row
  BY <1>2 DEF Row
<1> QED BY <1>3, <1>4 DEF NewTransfer

\* A clone of a row is a row.
LEMMA CloneRow ==
  ASSUME NEW i \in Ids, NEW row \in Row
  PROVE  CloneOf(i, row) \in Row
<1>1. i \in 0..MaxAwards BY Bounds DEF Ids
<1> QED BY <1>1, Bounds DEF CloneOf, Row

\* What the callbacks and the save make of a row is a row of the same task.
LEMMA SavedRows ==
  ASSUME NEW row \in Row, NEW old \in Row, NEW new \in Row
  PROVE  /\ Prepared(new) \in Row /\ SameTask(Prepared(new), new)
         /\ Merged(row, old, new) \in Row /\ SameTask(Merged(row, old, new), row)
         /\ Prepared(new).count = new.count /\ Merged(row, old, new).count = row.count
<1>1. Prepared(new) \in Row /\ SameTask(Prepared(new), new) /\ Prepared(new).count = new.count
  <2>1. CASE new.status = "started" /\ new.expires = "none"
    BY <2>1 DEF Prepared, SameTask, Row, Deadlines
  <2>2. CASE new.status = "submitted" /\ new.expires # "none"
    BY <2>2 DEF Prepared, SameTask, Row, Deadlines
  <2>3. CASE /\ ~(new.status = "started" /\ new.expires = "none")
             /\ ~(new.status = "submitted" /\ new.expires # "none")
    BY <2>3 DEF Prepared, SameTask
  <2> QED BY <2>1, <2>2, <2>3
<1>2. Merged(row, old, new) \in Row /\ SameTask(Merged(row, old, new), row)
      /\ Merged(row, old, new).count = row.count
  BY DEF Merged, SameTask, Row
<1> QED BY <1>1, <1>2

-----------------------------------------------------------------------------
(* The invariant                                                            *)

\* A started row has a deadline and a ready one has none.
Fits(row) ==
  /\ row.status = "started" => row.expires # "none"
  /\ row.status = "ready" => row.expires = "none"

\* The row of a task or transfer that is being created.
IsNew(row) ==
  /\ row.origin = 0 /\ row.count = 0 /\ row.expires = "none"
  /\ row.status \in {"ready", "accepted"}

\* What a handler may have changed in its copy ...
Changes(old, new) ==
  /\ new.status # "none"
  /\ new.status = old.status => new.expires = old.expires /\ new.status # "submitted"
  /\ new.status # old.status /\ new.status = "started" =>
       old.expires = "none" /\ new.expires = "none"
  /\ new.status # old.status /\ new.status = "ready" =>
       old.expires # "none" /\ new.expires = "none" /\ old.origin = 0

\* ... and, once the callbacks have run, the save will write: a status that
\* changes brings its deadline along.
Writes(old, new) ==
  /\ new.status # "none"
  /\ new.status = old.status => new.expires = old.expires
  /\ new.status # old.status /\ new.status = "started" =>
       new.expires # "none" /\ new.expires # old.expires
  /\ new.status # old.status /\ new.status = "ready" =>
       old.expires # "none" /\ new.expires = "none" /\ old.origin = 0

\* The copy of process p at each stage.
GoodCopy(p) ==
  /\ p.id # 0 => Fits(p.old)
  /\ p.pc \in {"clone", "insert"} =>
       /\ p.id # 0 /\ p.old.status = "ready"
       /\ p.new.status \in {"started", "ready", "accepted"} /\ p.new.expires = p.old.expires
  /\ p.pc = "insert" => p.old.origin = 0
  /\ p.pc = "validate" => IF p.id = 0 THEN IsNew(p.new) ELSE Changes(p.old, p.new)
  /\ p.pc = "write" => IF p.id = 0 THEN IsNew(p.new) ELSE Writes(p.old, p.new)

CopiesFit == \A r \in Requests : GoodCopy(request[r])

RowsFit ==
  \A i \in Live :
    /\ Fits(awards[i])
    /\ awards[i].origin # 0 => awards[i].quota = 1 /\ awards[awards[i].origin].origin = 0

LifecycleInv == TypeOK /\ CopiesFit /\ RowsFit /\ CountsClones

\* What TypeOK says of the process that holds copy p.
Placed(p) ==
  p.id # 0 => p.id \in Live /\ SameTask(p.old, awards[p.id]) /\ SameTask(p.new, p.old)

\* A request that gets a good copy and touches nothing else keeps the types
\* and the copies.
LEMMA Replaced ==
  ASSUME TypeOK, CopiesFit, NEW r \in Requests, NEW p \in Process,
         Placed(p), GoodCopy(p), request' = [request EXCEPT ![r] = p],
         UNCHANGED <<awards, nAwards, experience>>
  PROVE  TypeOK' /\ CopiesFit'
<1>1. request' \in [Requests -> Process] BY DEF TypeOK
<1>2. Live' = Live BY DEF Live
<1>3. \A q \in Requests : request'[q] = IF q = r THEN p ELSE request[q] BY DEF TypeOK
<1>4. \A q \in Requests : request'[q].id # 0 =>
        /\ request'[q].id \in Live
        /\ SameTask(request'[q].old, awards[request'[q].id])
        /\ SameTask(request'[q].new, request'[q].old)
  BY <1>3 DEF Placed, TypeOK
<1>5. TypeOK' BY <1>1, <1>2, <1>4 DEF TypeOK
<1>6. CopiesFit' BY <1>3 DEF CopiesFit
<1> QED BY <1>5, <1>6

\* The process that does nothing holds nothing.
LEMMA IdleIsGood == Idle \in Process /\ Placed(Idle) /\ GoodCopy(Idle)
<1>1. Absent \in Row BY NewRows, Bounds
<1>2. Idle \in Process BY <1>1, Bounds DEF Idle, Process
<1> QED BY <1>2 DEF Idle, Placed, GoodCopy

\* The rows stay as they are.
LEMMA RowsUntouched ==
  ASSUME RowsFit, CountsClones, UNCHANGED <<awards, nAwards>>
  PROVE  RowsFit' /\ CountsClones'
  BY DEF RowsFit, CountsClones, ClonesOf, Live

-----------------------------------------------------------------------------
(* Handlers                                                                 *)

\* A handler loads an award and changes its copy.
LEMMA Loaded ==
  ASSUME TypeOK, CopiesFit, NEW r \in Requests, NEW id \in 0..MaxAwards,
         NEW row \in Row, NEW changed \in Row, NEW pc \in {"clone", "validate"},
         Load(r, id, row, changed, pc),
         id # 0 => id \in Live /\ row = awards[id], SameTask(changed, row),
         GoodCopy([pc |-> pc, id |-> id, old |-> row, new |-> changed])
  PROVE  TypeOK' /\ CopiesFit' /\ UNCHANGED <<awards, nAwards, experience>>
<1> DEFINE p == [pc |-> pc, id |-> id, old |-> row, new |-> changed]
<1>1. p \in Process BY DEF Process
<1>2. Placed(p) BY DEF Placed, SameTask
<1>3. UNCHANGED <<awards, nAwards, experience>> /\ request' = [request EXCEPT ![r] = p]
  BY DEF Load
<1> HIDE DEF p
<1>4. GoodCopy(p) BY DEF p
<1> QED BY <1>1, <1>2, <1>3, <1>4, Replaced

\* A status that is neither started nor ready is set.
LEMMA StatusChanged ==
  ASSUME LifecycleInv, NEW r \in Requests, NEW i \in Live,
         NEW st \in Status \ {"started", "ready"},
         st = "submitted" => awards[i].status # "submitted", ChangeStatus(r, i, st)
  PROVE  TypeOK' /\ CopiesFit' /\ UNCHANGED <<awards, nAwards, experience>>
<1>1. i \in Ids /\ i \in 0..MaxAwards /\ i # 0 /\ awards[i] \in Row
  BY Bounds DEF LifecycleInv, TypeOK, Live, Ids
<1> DEFINE row == awards[i]
           changed == [awards[i] EXCEPT !.status = st]
<1>2. changed \in Row BY <1>1, StatusChanges
<1>3. /\ changed.status = st /\ changed.expires = row.expires
      /\ SameTask(changed, row)
  BY <1>1 DEF Row, SameTask
<1>4. Fits(row) BY DEF LifecycleInv, RowsFit
<1>5. Load(r, i, row, changed, "validate") BY DEF ChangeStatus
<1> HIDE DEF changed
<1>6. GoodCopy([pc |-> "validate", id |-> i, old |-> row, new |-> changed])
  BY <1>1, <1>3, <1>4 DEF GoodCopy, Changes, Status
<1> QED BY <1>1, <1>2, <1>3, <1>5, <1>6, Loaded DEF LifecycleInv

\* A ready award is given to somebody, or a clone of it will be.
LEMMA Given ==
  ASSUME LifecycleInv, NEW r \in Requests, NEW i \in Live, NEW a \in Accounts,
         NEW st \in {"started", "ready", "accepted"}, awards[i].status = "ready",
         Give(r, i, st, a)
  PROVE  TypeOK' /\ CopiesFit' /\ UNCHANGED <<awards, nAwards, experience>>
<1>1. i \in Ids /\ i \in 0..MaxAwards /\ i # 0 /\ awards[i] \in Row
  BY Bounds DEF LifecycleInv, TypeOK, Live, Ids
<1> DEFINE row == awards[i]
           changed == [awards[i] EXCEPT !.status = st, !.account = a]
<1>2. changed \in Row BY <1>1, StatusChanges DEF Status
<1>3. /\ changed.status = st /\ changed.expires = row.expires
      /\ SameTask(changed, row)
  BY <1>1 DEF Row, SameTask
<1>4. Fits(row) BY DEF LifecycleInv, RowsFit
<1>5. Load(r, i, row, changed, "clone") BY DEF Give
<1> HIDE DEF changed
<1>6. GoodCopy([pc |-> "clone", id |-> i, old |-> row, new |-> changed])
  BY <1>1, <1>3, <1>4 DEF GoodCopy
<1> QED BY <1>1, <1>2, <1>3, <1>5, <1>6, Loaded DEF LifecycleInv

\* A task or transfer is prepared for its first save.
LEMMA Created ==
  ASSUME LifecycleInv, NEW r \in Requests, NEW row \in Row, IsNew(row),
         Load(r, 0, row, row, "validate")
  PROVE  TypeOK' /\ CopiesFit' /\ UNCHANGED <<awards, nAwards, experience>>
<1>1. GoodCopy([pc |-> "validate", id |-> 0, old |-> row, new |-> row])
  BY DEF GoodCopy
<1> QED BY <1>1, Bounds, Loaded DEF LifecycleInv, SameTask

\* An overdue task or clone is about to be taken back.
LEMMA Expiring ==
  ASSUME LifecycleInv, NEW r \in Requests, NEW i \in Live, RunExpiration(r, i)
  PROVE  TypeOK' /\ CopiesFit' /\ UNCHANGED <<awards, nAwards, experience>>
<1>1. i \in Ids /\ i \in 0..MaxAwards /\ i # 0 /\ awards[i] \in Row
  BY Bounds DEF LifecycleInv, TypeOK, Live, Ids
<1> DEFINE row == awards[i]
           changed == Expired(awards[i])
<1>2. changed \in Row BY <1>1, StatusChanges DEF Expired, Status
<1>3. /\ SameTask(changed, row)
      /\ \/ changed.status = "cancelled"
         \/ changed.status = "ready" /\ changed.expires = "none" /\ row.origin = 0
  BY <1>1 DEF Expired, Row, SameTask
<1>4. Fits(row) /\ row.status = "started" /\ row.expires # "none"
  BY DEF LifecycleInv, RowsFit, RunExpiration, MayExpire
<1>5. Load(r, i, row, changed, "validate") BY DEF RunExpiration
<1> HIDE DEF changed
<1>6. GoodCopy([pc |-> "validate", id |-> i, old |-> row, new |-> changed])
  BY <1>1, <1>3, <1>4 DEF GoodCopy, Changes
<1> QED BY <1>1, <1>2, <1>3, <1>5, <1>6, Loaded DEF LifecycleInv

\* A reminder is about to be cleared.
LEMMA Reminding ==
  ASSUME LifecycleInv, NEW r \in Requests, NEW i \in Live, RunExpiringNotification(r, i)
  PROVE  TypeOK' /\ CopiesFit' /\ UNCHANGED <<awards, nAwards, experience>>
<1>1. i \in Ids /\ i \in 0..MaxAwards /\ i # 0 /\ awards[i] \in Row
  BY Bounds DEF LifecycleInv, TypeOK, Live, Ids
<1> DEFINE row == awards[i]
           changed == [awards[i] EXCEPT !.notify = "none"]
<1>2. changed \in Row BY <1>1 DEF Row, Deadlines
<1>3. /\ changed.status = row.status /\ changed.expires = row.expires
      /\ SameTask(changed, row)
  BY <1>1 DEF Row, SameTask
<1>4. Fits(row) /\ row.status = "started"
  BY DEF LifecycleInv, RowsFit, RunExpiringNotification
<1>5. Load(r, i, row, changed, "validate") BY DEF RunExpiringNotification
<1> HIDE DEF changed
<1>6. GoodCopy([pc |-> "validate", id |-> i, old |-> row, new |-> changed])
  BY <1>1, <1>3, <1>4 DEF GoodCopy, Changes
<1> QED BY <1>1, <1>2, <1>3, <1>5, <1>6, Loaded DEF LifecycleInv

\* Every handler that begins leaves the rows alone and gets a good copy.
LEMMA HandlerSteps ==
  ASSUME LifecycleInv, NEW r \in Requests,
         \/ Create(r)
         \/ \E i \in Live : Contributor(r, i) \/ Admin(r, i) \/ Background(r, i)
  PROVE  TypeOK' /\ CopiesFit' /\ UNCHANGED <<awards, nAwards, experience>>
<1>1. CASE Create(r)
  <2>1. ASSUME NEW quota \in 1..MaxQuota, NEW perUser \in 1..MaxQuota,
               CreateAward(r, quota, perUser)
        PROVE  TypeOK' /\ CopiesFit' /\ UNCHANGED <<awards, nAwards, experience>>
    <3>1. NewTask(quota, perUser) \in Row BY NewRows
    <3>2. IsNew(NewTask(quota, perUser)) BY DEF IsNew, NewTask
    <3>3. Load(r, 0, NewTask(quota, perUser), NewTask(quota, perUser), "validate")
      BY <2>1 DEF CreateAward
    <3> QED BY <3>1, <3>2, <3>3, Created
  <2>2. ASSUME NEW a \in Accounts, CreateTransfer(r, a)
        PROVE  TypeOK' /\ CopiesFit' /\ UNCHANGED <<awards, nAwards, experience>>
    <3>1. NewTransfer(a) \in Row BY NewTransferRow
    <3>2. IsNew(NewTransfer(a)) BY DEF IsNew, NewTransfer, NewTask
    <3>3. Load(r, 0, NewTransfer(a), NewTransfer(a), "validate")
      BY <2>2 DEF CreateTransfer
    <3> QED BY <3>1, <3>2, <3>3, Created
  <2> QED BY <1>1, <2>1, <2>2 DEF Create
<1>2. ASSUME NEW i \in Live, Contributor(r, i)
      PROVE  TypeOK' /\ CopiesFit' /\ UNCHANGED <<awards, nAwards, experience>>
  <2>1. ASSUME NEW a \in Accounts, Start(r, i, a)
        PROVE  TypeOK' /\ CopiesFit' /\ UNCHANGED <<awards, nAwards, experience>>
    BY <2>1, Given DEF Start, MayStart
  <2>2. CASE Submit(r, i)
    BY <2>2, StatusChanged DEF Submit, MaySubmit, Status
  <2> QED BY <1>2, <2>1, <2>2 DEF Contributor
<1>3. ASSUME NEW i \in Live, Admin(r, i)
      PROVE  TypeOK' /\ CopiesFit' /\ UNCHANGED <<awards, nAwards, experience>>
  <2>1. ASSUME NEW a \in Accounts, Assign(r, i, a)
        PROVE  TypeOK' /\ CopiesFit' /\ UNCHANGED <<awards, nAwards, experience>>
    BY <2>1, Given DEF Assign, MayAssign
  <2>2. ASSUME NEW a \in Accounts, SendAward(r, i, a)
        PROVE  TypeOK' /\ CopiesFit' /\ UNCHANGED <<awards, nAwards, experience>>
    BY <2>2, Given DEF SendAward, CanBeEdited
  <2>3. CASE Accept(r, i) BY <2>3, StatusChanged DEF Accept, Status
  <2>4. CASE Reject(r, i) BY <2>4, StatusChanged DEF Reject, Status
  <2>5. CASE Destroy(r, i) BY <2>5, StatusChanged DEF Destroy, Status
  <2>6. CASE DestroyTransfer(r, i) BY <2>6, StatusChanged DEF DestroyTransfer, Status
  <2>7. CASE UpdateTransactionAddress(r, i)
    BY <2>7, StatusChanged DEF UpdateTransactionAddress, Status
  <2> QED BY <1>3, <2>1, <2>2, <2>3, <2>4, <2>5, <2>6, <2>7 DEF Admin
<1>4. ASSUME NEW i \in Live, Background(r, i)
      PROVE  TypeOK' /\ CopiesFit' /\ UNCHANGED <<awards, nAwards, experience>>
  <2>1. CASE UpdateTransactableStatus(r, i)
    BY <2>1, StatusChanged DEF UpdateTransactableStatus, Status
  <2> QED BY <1>4, <2>1, Expiring, Reminding DEF Background
<1> QED BY <1>1, <1>2, <1>3, <1>4

-----------------------------------------------------------------------------
(* Stages of a request that leave the rows alone                            *)

\* A clone has one assignment, so only an original is cloned.
LEMMA OnlyOriginals ==
  ASSUME LifecycleInv, NEW r \in Requests, request[r].pc = "clone", NeedsClone(r)
  PROVE  request[r].old.origin = 0
<1> DEFINE p == request[r]
<1>1. p.id \in Live /\ SameTask(p.old, awards[p.id]) /\ p.old \in Row
  BY DEF LifecycleInv, TypeOK, CopiesFit, GoodCopy, Process
<1>2. p.old.count + 1 < p.old.quota /\ p.old.count \in Nat
  BY <1>1 DEF NeedsClone, ShouldBeCloned, Row
<1>3. awards[p.id].origin # 0 => awards[p.id].quota = 1
  BY <1>1 DEF LifecycleInv, RowsFit
<1>4. p.old.quota = awards[p.id].quota /\ p.old.origin = awards[p.id].origin
  BY <1>1 DEF SameTask
<1> QED BY <1>2, <1>3, <1>4

\* Refusals end a request; the other stages keep its copy good.
LEMMA StageSteps ==
  ASSUME LifecycleInv, NEW r \in Requests,
         \/ KeepOriginal(r) \/ RefuseClone(r) \/ ValidateClone(r)
         \/ Validate(r) \/ Refuse(r)
  PROVE  TypeOK' /\ CopiesFit' /\ UNCHANGED <<awards, nAwards, experience>>
<1> DEFINE p == request[r]
<1>1. p \in Process /\ Placed(p) /\ GoodCopy(p) /\ p.old \in Row /\ p.new \in Row
  BY DEF LifecycleInv, TypeOK, CopiesFit, Placed, Process
<1>2. CASE RefuseClone(r) \/ Refuse(r)
  BY <1>2, IdleIsGood, Replaced DEF RefuseClone, Refuse, LifecycleInv
<1>3. CASE KeepOriginal(r)
  <2> DEFINE q == [p EXCEPT !.pc = "validate"]
  <2>1. q \in Process /\ q.pc = "validate" /\ q.id = p.id /\ q.old = p.old /\ q.new = p.new
    BY <1>1 DEF Process
  <2>2. p.pc = "clone" BY <1>3 DEF KeepOriginal
  <2>3. GoodCopy(q)
    BY <1>1, <2>1, <2>2 DEF GoodCopy, Fits, Changes
  <2>4. Placed(q) BY <1>1, <2>1 DEF Placed
  <2>5. request' = [request EXCEPT ![r] = q] /\ UNCHANGED <<awards, nAwards, experience>>
    BY <1>3 DEF KeepOriginal, LifecycleInv, TypeOK
  <2> HIDE DEF q
  <2> QED BY <2>1, <2>3, <2>4, <2>5, Replaced DEF LifecycleInv
<1>4. CASE ValidateClone(r)
  <2> DEFINE q == [p EXCEPT !.pc = "insert"]
  <2>1. q \in Process /\ q.pc = "insert" /\ q.id = p.id /\ q.old = p.old /\ q.new = p.new
    BY <1>1 DEF Process
  <2>2. p.pc = "clone" /\ p.old.origin = 0 BY <1>4, OnlyOriginals DEF ValidateClone
  <2>3. GoodCopy(q) BY <1>1, <2>1, <2>2 DEF GoodCopy
  <2>4. Placed(q) BY <1>1, <2>1 DEF Placed
  <2>5. request' = [request EXCEPT ![r] = q] /\ UNCHANGED <<awards, nAwards, experience>>
    BY <1>4 DEF ValidateClone, LifecycleInv, TypeOK
  <2> HIDE DEF q
  <2> QED BY <2>1, <2>3, <2>4, <2>5, Replaced DEF LifecycleInv
<1>5. CASE Validate(r)
  <2> DEFINE row == Prepared(p.new)
             q == [p EXCEPT !.pc = "write", !.new = row]
  <2>1. row \in Row /\ SameTask(row, p.new) /\ row.count = p.new.count
    BY <1>1, SavedRows
  <2>2. q \in Process /\ q.pc = "write" /\ q.id = p.id /\ q.old = p.old /\ q.new = row
    BY <1>1, <2>1 DEF Process
  <2>3. p.pc = "validate" BY <1>5 DEF Validate
  <2>4. CASE p.id = 0
    <3>1. IsNew(p.new) BY <1>1, <2>3, <2>4 DEF GoodCopy
    <3>2. row = p.new BY <3>1 DEF IsNew, Prepared
    <3>3. GoodCopy(q) BY <2>2, <2>4, <3>1, <3>2 DEF GoodCopy
    <3>4. Placed(q) BY <2>2, <2>4 DEF Placed
    <3>5. request' = [request EXCEPT ![r] = q] /\ UNCHANGED <<awards, nAwards, experience>>
      BY <1>5 DEF Validate, LifecycleInv, TypeOK
    <3> HIDE DEF q
    <3> QED BY <2>2, <3>3, <3>4, <3>5, Replaced DEF LifecycleInv
  <2>5. CASE p.id # 0
    <3>1. Changes(p.old, p.new) /\ Fits(p.old) BY <1>1, <2>3, <2>5 DEF GoodCopy
    <3>2. /\ row.status = p.new.status
          /\ p.new.status = "started" =>
               IF p.new.expires = "none" THEN row.expires = "future"
                                         ELSE row.expires = p.new.expires
          /\ p.new.status \notin {"started", "submitted"} => row = p.new
      BY <1>1 DEF Prepared, Row
    <3>3. Writes(p.old, row) BY <3>1, <3>2 DEF Writes, Changes, Fits
    <3>4. GoodCopy(q) BY <2>2, <2>5, <3>1, <3>3 DEF GoodCopy
    <3>5. Placed(q) BY <1>1, <2>1, <2>2 DEF Placed, SameTask
    <3>6. request' = [request EXCEPT ![r] = q] /\ UNCHANGED <<awards, nAwards, experience>>
      BY <1>5 DEF Validate, LifecycleInv, TypeOK
    <3> HIDE DEF q
    <3> QED BY <2>2, <3>4, <3>5, <3>6, Replaced DEF LifecycleInv
  <2> QED BY <2>4, <2>5
<1> QED BY <1>2, <1>3, <1>4, <1>5

-----------------------------------------------------------------------------
(* Saves                                                                    *)

\* The clones of an award are finitely many.
LEMMA ClonesAreFinite ==
  ASSUME TypeOK, NEW i
  PROVE  IsFiniteSet(ClonesOf(i)) /\ nAwards + 1 \notin ClonesOf(i)
<1>1. nAwards \in Nat BY Bounds DEF TypeOK
<1>2. IsFiniteSet(1..nAwards) BY <1>1, FS_Interval
<1>3. ClonesOf(i) \subseteq 1..nAwards BY DEF ClonesOf, Live
<1> QED BY <1>1, <1>2, <1>3, FS_Subset

\* The experience that a save adds stays within its bound.
LEMMA ExperienceTyped ==
  ASSUME TypeOK, NEW row, GainExperience(row)
  PROVE  experience' \in [Accounts -> 0..MaxExperience]
<1>1. \A a \in Accounts : experience[a] \in 0..MaxExperience BY DEF TypeOK
<1> QED BY <1>1, Bounds DEF GainExperience

\* A clone is inserted and its original counts it.
LEMMA InsertCloneStep ==
  ASSUME LifecycleInv, NEW r \in Requests, InsertClone(r)
  PROVE  LifecycleInv'
<1> DEFINE p == request[r]
           n == nAwards + 1
           clone == CloneOf(p.id, p.old)
           q == OnClone(p, clone)
<1>1. /\ p \in Process /\ p.pc = "insert" /\ p.id # 0 /\ p.id \in Live
      /\ p.old \in Row /\ p.new \in Row /\ p.old.origin = 0 /\ p.old.status = "ready"
      /\ p.new.status \in {"started", "ready", "accepted"} /\ Fits(p.old)
      /\ SameTask(p.old, awards[p.id])
  BY DEF LifecycleInv, TypeOK, CopiesFit, GoodCopy, Process, InsertClone
<1>2. /\ nAwards \in Nat /\ n \in Ids /\ nAwards' = n /\ p.id \in Ids /\ p.id < n
      /\ n \in 0..MaxAwards /\ p.id # n /\ Live \subseteq Ids /\ n \notin Live
      /\ Live' = Live \cup {n}
  BY <1>1, Bounds DEF LifecycleInv, TypeOK, Live, Ids, InsertClone
<1>3. /\ clone \in Row /\ clone.origin = p.id /\ clone.quota = 1
      /\ clone.status = "ready" /\ clone.expires = "none"
  <2>1. clone \in Row BY <1>1, <1>2, CloneRow
  <2>2. clone.origin = p.id /\ clone.quota = 1 /\ clone.status = p.old.status
        /\ clone.expires = p.old.expires
    BY <1>1 DEF CloneOf, Row
  <2> QED BY <1>1, <2>1, <2>2 DEF Fits
<1>4. awards' = [awards EXCEPT ![p.id].count = @ + 1, ![n] = clone]
  BY DEF InsertClone
<1>5. \A i \in Ids : awards[i] \in Row BY DEF LifecycleInv, TypeOK
<1>6. awards'[n] = clone
  BY <1>2, <1>4 DEF LifecycleInv, TypeOK
<1>7. awards'[p.id] = [awards[p.id] EXCEPT !.count = @ + 1]
  BY <1>2, <1>4 DEF LifecycleInv, TypeOK
<1>8. \A i \in Ids \ {n, p.id} : awards'[i] = awards[i]
  BY <1>4 DEF LifecycleInv, TypeOK
<1>9. /\ awards'[p.id] \in Row /\ SameTask(awards'[p.id], awards[p.id])
      /\ awards'[p.id].status = awards[p.id].status
      /\ awards'[p.id].expires = awards[p.id].expires
      /\ awards'[p.id].count = awards[p.id].count + 1
  BY <1>2, <1>5, <1>7 DEF Row, SameTask
<1>10. awards' \in [Ids -> Row]
  <2>1. \A i \in Ids : awards'[i] \in Row BY <1>3, <1>5, <1>6, <1>8, <1>9
  <2>2. DOMAIN awards' = Ids BY <1>4 DEF LifecycleInv, TypeOK
  <2>3. awards' = [i \in Ids |-> awards'[i]] BY <1>4, <2>2 DEF LifecycleInv, TypeOK
  <2> QED BY <2>1, <2>3
<1>11. \A i \in Live : SameTask(awards'[i], awards[i]) /\ awards'[i].status = awards[i].status
                       /\ awards'[i].expires = awards[i].expires
  BY <1>2, <1>8, <1>9 DEF SameTask
<1>12. /\ request' = [request EXCEPT ![r] = q] /\ UNCHANGED experience
  BY DEF InsertClone
<1>13. /\ q \in Process /\ q.pc = "validate" /\ q.id = n /\ q.old = clone
       /\ SameTask(q.new, clone) /\ q.new.expires = "none"
       /\ q.new.status \in {"started", "ready", "accepted"}
  <2>1. p.new.status \in Status /\ p.new.account \in Accounts \cup {Nobody}
    BY <1>1 DEF Row, Status
  <2> DEFINE new == [clone EXCEPT !.status = p.new.status, !.account = p.new.account]
  <2>2. new \in Row BY <1>3, <2>1, StatusChanges
  <2>3. SameTask(new, clone) /\ new.expires = "none" /\ new.status = p.new.status
    BY <1>3, <2>1 DEF SameTask, Row
  <2>4. q = [pc |-> "validate", id |-> n, old |-> clone, new |-> new] BY DEF OnClone
  <2> HIDE DEF new, clone
  <2> QED BY <1>1, <1>2, <1>3, <2>2, <2>3, <2>4 DEF Process
<1> HIDE DEF q, clone
<1>14. TypeOK'
  <2>1. \A i \in Ids : awards'[i].status # "none" <=> i \in Live'
    BY <1>2, <1>3, <1>6, <1>8, <1>9 DEF LifecycleInv, TypeOK
  <2>2. \A i \in Live' : awards'[i].origin < i
    BY <1>2, <1>3, <1>6, <1>11 DEF LifecycleInv, TypeOK, SameTask
  <2>3. request' \in [Requests -> Process] BY <1>12, <1>13 DEF LifecycleInv, TypeOK
  <2>4. ASSUME NEW s \in Requests, request'[s].id # 0
        PROVE  /\ request'[s].id \in Live'
               /\ SameTask(request'[s].old, awards'[request'[s].id])
               /\ SameTask(request'[s].new, request'[s].old)
    <3>1. CASE s = r
      BY <1>2, <1>6, <1>12, <1>13, <3>1 DEF LifecycleInv, TypeOK, SameTask
    <3>2. CASE s # r
      BY <1>2, <1>11, <1>12, <2>4, <3>2 DEF LifecycleInv, TypeOK, SameTask
    <3> QED BY <3>1, <3>2
  <2> QED BY <1>2, <1>10, <1>12, <2>1, <2>2, <2>3, <2>4 DEF LifecycleInv, TypeOK
<1>15. CopiesFit'
  <2>1. GoodCopy(q) BY <1>2, <1>3, <1>13 DEF GoodCopy, Fits, Changes
  <2> QED BY <1>12, <2>1 DEF LifecycleInv, TypeOK, CopiesFit
<1>16. RowsFit'
  <2>1. ASSUME NEW i \in Live'
        PROVE  /\ Fits(awards'[i])
               /\ awards'[i].origin # 0 =>
                    awards'[i].quota = 1 /\ awards'[awards'[i].origin].origin = 0
    <3>1. CASE i = n
      BY <1>1, <1>2, <1>3, <1>6, <1>9, <3>1 DEF Fits, SameTask
    <3>2. CASE i \in Live
      <4>1. awards[i].origin # 0 => awards[i].origin \in Live
        <5>1. awards[i] \in Row /\ awards[i].origin < i
          BY <1>2, <1>5, <3>2 DEF LifecycleInv, TypeOK
        <5>2. awards[i].origin \in 0..MaxAwards BY <5>1 DEF Row
        <5> QED BY <1>2, <3>2, <5>1, <5>2, Bounds DEF Live
      <4> QED BY <1>11, <3>2, <4>1 DEF LifecycleInv, RowsFit, Fits, SameTask
    <3> QED BY <1>2, <3>1, <3>2
  <2> QED BY <2>1 DEF RowsFit
<1>17. CountsClones'
  <2>1. ASSUME NEW i \in Live', awards'[i].origin = 0
        PROVE  awards'[i].count = Cardinality(ClonesOf(i)')
    <3>1. i \in Live BY <1>1, <1>2, <1>3, <1>6, <2>1
    <3>2. awards[i].origin = 0 /\ awards[i].count = Cardinality(ClonesOf(i))
      BY <1>11, <2>1, <3>1 DEF LifecycleInv, CountsClones, SameTask
    <3>3. IsFiniteSet(ClonesOf(i)) /\ n \notin ClonesOf(i)
      BY ClonesAreFinite DEF LifecycleInv
    <3>4. CASE i = p.id
      <4>1. ClonesOf(i)' = ClonesOf(i) \cup {n}
        BY <1>2, <1>3, <1>6, <1>11, <3>4 DEF ClonesOf, SameTask
      <4>2. Cardinality(ClonesOf(i) \cup {n}) = Cardinality(ClonesOf(i)) + 1
        BY <3>3, FS_AddElement
      <4> QED BY <1>9, <3>2, <3>4, <4>1, <4>2
    <3>5. CASE i # p.id
      <4>1. ClonesOf(i)' = ClonesOf(i)
        BY <1>2, <1>3, <1>6, <1>11, <3>5 DEF ClonesOf, SameTask
      <4>2. awards'[i].count = awards[i].count BY <1>2, <1>8, <3>1, <3>5
      <4> QED BY <3>2, <4>1, <4>2
    <3> QED BY <3>4, <3>5
  <2> QED BY <2>1 DEF CountsClones
<1> QED BY <1>14, <1>15, <1>16, <1>17 DEF LifecycleInv

\* The row of a new task or transfer is inserted.
LEMMA InsertAwardStep ==
  ASSUME LifecycleInv, NEW r \in Requests, InsertAward(r)
  PROVE  LifecycleInv'
<1> DEFINE row == request[r].new
           n == nAwards + 1
<1>1. row \in Row /\ IsNew(row)
  BY DEF LifecycleInv, TypeOK, CopiesFit, GoodCopy, Process, InsertAward
<1>2. /\ nAwards \in Nat /\ n \in Ids /\ nAwards' = n /\ Live \subseteq Ids /\ n \notin Live
      /\ Live' = Live \cup {n} /\ n \in 0..MaxAwards
  BY Bounds DEF LifecycleInv, TypeOK, Live, Ids, InsertAward
<1>3. awards' = [awards EXCEPT ![n] = row] BY DEF InsertAward
<1>4. /\ awards' \in [Ids -> Row] /\ awards'[n] = row
      /\ \A i \in Ids \ {n} : awards'[i] = awards[i]
  BY <1>1, <1>2, <1>3 DEF LifecycleInv, TypeOK
<1>5. request' = [request EXCEPT ![r] = Idle] BY DEF InsertAward
<1>6. experience' \in [Accounts -> 0..MaxExperience]
  BY ExperienceTyped DEF InsertAward, LifecycleInv
<1> HIDE DEF row
<1>7. TypeOK'
  <2>1. \A i \in Ids : awards'[i].status # "none" <=> i \in Live'
    BY <1>1, <1>2, <1>4 DEF LifecycleInv, TypeOK, IsNew
  <2>2. \A i \in Live' : awards'[i].origin < i
    <3>1. row.origin < n BY <1>1, <1>2 DEF IsNew
    <3> QED BY <1>2, <1>4, <3>1 DEF LifecycleInv, TypeOK
  <2>3. request' \in [Requests -> Process] BY <1>5, IdleIsGood DEF LifecycleInv, TypeOK
  <2>4. ASSUME NEW s \in Requests, request'[s].id # 0
        PROVE  /\ request'[s].id \in Live'
               /\ SameTask(request'[s].old, awards'[request'[s].id])
               /\ SameTask(request'[s].new, request'[s].old)
    <3>1. s # r BY <1>5, <2>4 DEF Idle, LifecycleInv, TypeOK
    <3> QED BY <1>2, <1>4, <1>5, <2>4, <3>1 DEF LifecycleInv, TypeOK, SameTask
  <2> QED BY <1>2, <1>4, <1>6, <2>1, <2>2, <2>3, <2>4 DEF TypeOK
<1>8. CopiesFit' BY <1>5, IdleIsGood DEF LifecycleInv, TypeOK, CopiesFit
<1>9. \A i \in Live : awards[i].origin # 0 => awards[i].origin \in Live
  <2>1. ASSUME NEW i \in Live, awards[i].origin # 0 PROVE awards[i].origin \in Live
    <3>1. awards[i] \in Row /\ awards[i].origin < i
      BY <1>2 DEF LifecycleInv, TypeOK
    <3>2. awards[i].origin \in 0..MaxAwards BY <3>1 DEF Row
    <3> QED BY <1>2, <2>1, <3>1, <3>2, Bounds DEF Live
  <2> QED BY <2>1
<1>10. RowsFit'
  BY <1>1, <1>2, <1>4, <1>9 DEF LifecycleInv, RowsFit, Fits, IsNew
<1>11. CountsClones'
  <2>1. ASSUME NEW i \in Live', awards'[i].origin = 0
        PROVE  awards'[i].count = Cardinality(ClonesOf(i)')
    <3>1. ClonesOf(i)' = {j \in Live : awards[j].origin = i}
      <4>1. i # 0 BY <1>2, <2>1 DEF Live
      <4> QED BY <1>1, <1>2, <1>4, <4>1 DEF ClonesOf, IsNew
    <3>2. CASE i = n
      <4>1. ClonesOf(i)' = {} BY <1>2, <1>9, <3>1, <3>2, Bounds DEF Live
      <4> QED BY <1>1, <1>4, <3>2, <4>1, FS_EmptySet DEF IsNew
    <3>3. CASE i \in Live
      BY <1>2, <1>4, <2>1, <3>1, <3>3 DEF LifecycleInv, CountsClones, ClonesOf
    <3> QED BY <1>2, <3>2, <3>3
  <2> QED BY <2>1 DEF CountsClones
<1> QED BY <1>7, <1>8, <1>10, <1>11 DEF LifecycleInv

\* A row is written again: the same task, with a deadline that fits.
LEMMA RowRewritten ==
  ASSUME LifecycleInv, NEW i \in Live, NEW row \in Row,
         SameTask(row, awards[i]), row.count = awards[i].count, row.status # "none",
         Fits(row), awards' = [awards EXCEPT ![i] = row], nAwards' = nAwards,
         experience' \in [Accounts -> 0..MaxExperience],
         \/ request' = request
         \/ \E r \in Requests : request' = [request EXCEPT ![r] = Idle]
  PROVE  LifecycleInv'
<1>1. Live' = Live /\ Live \subseteq Ids /\ i \in Ids
  BY Bounds DEF LifecycleInv, TypeOK, Live, Ids
<1>2. /\ awards' \in [Ids -> Row] /\ awards'[i] = row
      /\ \A j \in Ids \ {i} : awards'[j] = awards[j]
  BY <1>1 DEF LifecycleInv, TypeOK
<1>3. \A j \in Ids : SameTask(awards'[j], awards[j]) /\ awards'[j].count = awards[j].count
  BY <1>2 DEF SameTask
<1>4. \A s \in Requests : request'[s] = request[s] \/ request'[s] = Idle
  BY DEF LifecycleInv, TypeOK
<1>5. request' \in [Requests -> Process]
  BY IdleIsGood DEF LifecycleInv, TypeOK
<1>6. TypeOK'
  <2>1. \A j \in Ids : awards'[j].status # "none" <=> j \in Live'
    BY <1>1, <1>2 DEF LifecycleInv, TypeOK
  <2>2. \A j \in Live' : awards'[j].origin < j
    BY <1>1, <1>3 DEF LifecycleInv, TypeOK, SameTask
  <2>3. ASSUME NEW s \in Requests, request'[s].id # 0
        PROVE  /\ request'[s].id \in Live'
               /\ SameTask(request'[s].old, awards'[request'[s].id])
               /\ SameTask(request'[s].new, request'[s].old)
    <3>1. request'[s] = request[s] BY <1>4, <2>3 DEF Idle
    <3> QED BY <1>1, <1>3, <2>3, <3>1 DEF LifecycleInv, TypeOK, SameTask
  <2> QED BY <1>2, <1>5, <2>1, <2>2, <2>3 DEF LifecycleInv, TypeOK
<1>7. CopiesFit' BY <1>4, IdleIsGood DEF LifecycleInv, CopiesFit
<1>8. RowsFit'
  <2>1. ASSUME NEW j \in Live, awards[j].origin # 0 PROVE awards[j].origin \in Ids
    <3>1. awards[j] \in Row BY <1>1 DEF LifecycleInv, TypeOK
    <3> QED BY <2>1, <3>1, Bounds DEF Row, Ids
  <2> QED BY <1>1, <1>2, <1>3, <2>1 DEF LifecycleInv, RowsFit, SameTask
<1>9. CountsClones'
  <2>1. \A j \in Live : ClonesOf(j)' = ClonesOf(j)
    BY <1>1, <1>3 DEF ClonesOf, SameTask
  <2> QED BY <1>1, <1>3, <2>1 DEF LifecycleInv, CountsClones, SameTask
<1> QED BY <1>6, <1>7, <1>8, <1>9 DEF LifecycleInv

\* What a request writes over the row as it is now still fits: a status that
\* changes brings its deadline, and one that does not leaves the row's.
LEMMA MergedFits ==
  ASSUME NEW row \in Row, NEW old \in Row, NEW new \in Row,
         row.status # "none", row.origin = old.origin, Fits(row), Writes(old, new)
  PROVE  /\ Merged(row, old, new).status # "none" /\ Fits(Merged(row, old, new))
         /\ row.origin # 0 /\ row.status # "ready" => Merged(row, old, new).status # "ready"
<1>1. /\ Merged(row, old, new).status =
           IF new.status = old.status THEN row.status ELSE new.status
      /\ Merged(row, old, new).expires =
           IF new.expires = old.expires THEN row.expires ELSE new.expires
  BY DEF Merged, Row
<1>2. CASE new.status = old.status
  BY <1>1, <1>2 DEF Fits, Writes
<1>3. CASE new.status # old.status
  BY <1>1, <1>3 DEF Fits, Writes
<1> QED BY <1>2, <1>3

\* What a request that updates an award has in its hands.
LEMMA Updating ==
  ASSUME LifecycleInv, NEW r \in Requests, UpdateAward(r)
  PROVE  LET p == request[r]
             row == Merged(awards[p.id], p.old, p.new)
         IN  /\ p.id \in Live /\ row \in Row /\ SameTask(row, awards[p.id])
             /\ row.count = awards[p.id].count /\ row.status # "none" /\ Fits(row)
             /\ awards[p.id].origin # 0 /\ awards[p.id].status # "ready" =>
                  row.status # "ready"
             /\ awards' = [awards EXCEPT ![p.id] = row]
<1> DEFINE p == request[r]
<1>1. p.pc = "write" /\ p.id # 0 /\ p \in Process /\ p.old \in Row /\ p.new \in Row
  BY DEF LifecycleInv, TypeOK, Process, UpdateAward
<1>2. /\ p.id \in Live /\ Live \subseteq Ids /\ SameTask(p.old, awards[p.id])
  BY <1>1, Bounds DEF LifecycleInv, TypeOK, Live, Ids
<1>3. Writes(p.old, p.new)
  BY <1>1 DEF LifecycleInv, CopiesFit, GoodCopy
<1>4. awards[p.id] \in Row /\ awards[p.id].status # "none" /\ Fits(awards[p.id])
  BY <1>2 DEF LifecycleInv, TypeOK, RowsFit
<1>5. awards[p.id].origin = p.old.origin BY <1>2 DEF SameTask
<1>6. awards' = [awards EXCEPT ![p.id] = Merged(awards[p.id], p.old, p.new)]
  BY DEF UpdateAward
<1> HIDE DEF p
<1>7. /\ Merged(awards[p.id], p.old, p.new) \in Row
      /\ SameTask(Merged(awards[p.id], p.old, p.new), awards[p.id])
      /\ Merged(awards[p.id], p.old, p.new).count = awards[p.id].count
  <2>1. \A row, old, new \in Row :
          /\ Merged(row, old, new) \in Row /\ SameTask(Merged(row, old, new), row)
          /\ Merged(row, old, new).count = row.count
    BY SavedRows
  <2> QED BY <1>1, <1>4, <2>1
<1>8. /\ Merged(awards[p.id], p.old, p.new).status # "none"
      /\ Fits(Merged(awards[p.id], p.old, p.new))
      /\ awards[p.id].origin # 0 /\ awards[p.id].status # "ready" =>
           Merged(awards[p.id], p.old, p.new).status # "ready"
  BY <1>1, <1>3, <1>4, <1>5, MergedFits
<1> QED BY <1>2, <1>6, <1>7, <1>8 DEF p

\* The changes of a copy are written over its row.
LEMMA UpdateAwardStep ==
  ASSUME LifecycleInv, NEW r \in Requests, UpdateAward(r)
  PROVE  LifecycleInv'
<1>1. request' = [request EXCEPT ![r] = Idle] /\ nAwards' = nAwards BY DEF UpdateAward
<1>2. experience' \in [Accounts -> 0..MaxExperience]
  BY ExperienceTyped DEF UpdateAward, LifecycleInv
<1> QED BY <1>1, <1>2, Updating, RowRewritten

\* A deadline that passes is still a deadline.
LEMMA TimeStep ==
  ASSUME LifecycleInv, NEW i \in Live, Time(i)
  PROVE  LifecycleInv' /\ awards'[i].status = awards[i].status
<1>1. i \in Ids /\ awards[i] \in Row /\ awards[i].status # "none" /\ Fits(awards[i])
  BY Bounds DEF LifecycleInv, TypeOK, RowsFit, Live, Ids
<1>2. experience \in [Accounts -> 0..MaxExperience] BY DEF LifecycleInv, TypeOK
<1>3. CASE NotificationFallsDue(i)
  <2> DEFINE row == [awards[i] EXCEPT !.notify = "past"]
  <2>1. /\ row \in Row /\ SameTask(row, awards[i]) /\ row.count = awards[i].count
        /\ row.status = awards[i].status /\ row.expires = awards[i].expires
    BY <1>1 DEF Row, SameTask, Deadlines
  <2>2. awards' = [awards EXCEPT ![i] = row] /\ UNCHANGED <<nAwards, request, experience>>
    BY <1>3 DEF NotificationFallsDue
  <2> HIDE DEF row
  <2>3. LifecycleInv' BY <1>1, <1>2, <2>1, <2>2, RowRewritten DEF Fits
  <2> QED BY <1>1, <2>1, <2>2, <2>3 DEF LifecycleInv, TypeOK
<1>4. CASE ExpiryFallsDue(i)
  <2> DEFINE row == [awards[i] EXCEPT !.expires = "past"]
  <2>1. /\ row \in Row /\ SameTask(row, awards[i]) /\ row.count = awards[i].count
        /\ row.status = awards[i].status /\ row.expires = "past"
    BY <1>1 DEF Row, SameTask, Deadlines
  <2>2. awards' = [awards EXCEPT ![i] = row] /\ UNCHANGED <<nAwards, request, experience>>
        /\ awards[i].expires = "future"
    BY <1>4 DEF ExpiryFallsDue
  <2> HIDE DEF row
  <2>3. Fits(row) BY <1>1, <2>1, <2>2 DEF Fits
  <2>4. LifecycleInv' BY <1>1, <1>2, <2>1, <2>2, <2>3, RowRewritten
  <2> QED BY <1>1, <2>1, <2>2, <2>4 DEF LifecycleInv, TypeOK
<1> QED BY <1>3, <1>4 DEF Time

-----------------------------------------------------------------------------
(* The theorems                                                             *)

\* A database without awards has nothing out of place.
LEMMA LifecycleInit == Init => LifecycleInv
<1> SUFFICES ASSUME Init PROVE LifecycleInv
  OBVIOUS
<1>1. Absent \in Row /\ Absent.status = "none" BY NewRows, Bounds DEF Absent, NewTask
<1>2. Live = {} BY DEF Init, Live
<1>3. \A r \in Requests : request[r] = Idle BY DEF Init
<1>4. TypeOK
  <2>1. request \in [Requests -> Process] BY IdleIsGood DEF Init
  <2>2. \A r \in Requests : request[r].id = 0 BY <1>3 DEF Idle
  <2> QED BY <1>1, <1>2, <2>1, <2>2, Bounds DEF Init, TypeOK
<1>5. CopiesFit BY <1>3, IdleIsGood DEF CopiesFit
<1> QED BY <1>2, <1>4, <1>5 DEF LifecycleInv, RowsFit, CountsClones

\* No step of the specification breaks the invariant.
LEMMA LifecycleStep == LifecycleInv /\ [Next]_vars => LifecycleInv'
<1> SUFFICES ASSUME LifecycleInv, [Next]_vars PROVE LifecycleInv'
  OBVIOUS
<1>1. ASSUME NEW r \in Requests,
             \/ Create(r)
             \/ \E i \in Live : Contributor(r, i) \/ Admin(r, i) \/ Background(r, i)
      PROVE  LifecycleInv'
  BY <1>1, HandlerSteps, RowsUntouched DEF LifecycleInv
<1>2. ASSUME NEW r \in Requests, Saving(r) PROVE LifecycleInv'
  <2>1. CASE KeepOriginal(r) \/ RefuseClone(r) \/ ValidateClone(r) \/ Validate(r) \/ Refuse(r)
    BY <2>1, StageSteps, RowsUntouched DEF LifecycleInv
  <2> QED BY <1>2, <2>1, InsertCloneStep, InsertAwardStep, UpdateAwardStep DEF Saving
<1>3. ASSUME NEW i \in Live, Time(i) PROVE LifecycleInv'
  BY <1>3, TimeStep
<1>4. CASE UNCHANGED vars
  <2>1. TypeOK' /\ CopiesFit'
    BY <1>4 DEF LifecycleInv, vars, TypeOK, CopiesFit, Live
  <2>2. UNCHANGED <<awards, nAwards>> BY <1>4 DEF vars
  <2> QED BY <2>1, <2>2, RowsUntouched DEF LifecycleInv
<1> QED BY <1>1, <1>2, <1>3, <1>4 DEF Next

\* The copies that requests hold fit the rows they will be written over.
THEOREM LifecycleInvariant == Spec => []LifecycleInv
BY LifecycleInit, LifecycleStep, PTL DEF Spec

\* Rows, copies and experience keep their types: a copy that a request holds is
\* always one of a row of the table, of the same task.
THEOREM LifecycleTyped == Spec => []TypeOK
<1>1. LifecycleInv => TypeOK BY DEF LifecycleInv
<1> QED BY <1>1, LifecycleInvariant, PTL

\* However many requests clone an award at once, its counter cache is the number
\* of its clones.
THEOREM ClonesCounted == Spec => []CountsClones
<1>1. LifecycleInv => CountsClones BY DEF LifecycleInv
<1> QED BY <1>1, LifecycleInvariant, PTL

\* No clone is ever cloned.
THEOREM OriginalsCloned == Spec => []ClonesAreNotCloned
<1>1. LifecycleInv => ClonesAreNotCloned
  <2> SUFFICES ASSUME LifecycleInv, NEW i \in Live, awards[i].origin # 0
               PROVE  awards[awards[i].origin].origin = 0 /\ ClonesOf(i) = {}
    BY DEF ClonesAreNotCloned
  <2>1. i # 0 BY Bounds DEF LifecycleInv, TypeOK, Live
  <2>2. \A j \in Live : awards[j].origin # i
    BY <2>1 DEF LifecycleInv, RowsFit
  <2> QED BY <2>2 DEF LifecycleInv, RowsFit, ClonesOf
<1> QED BY <1>1, LifecycleInvariant, PTL

\* Whatever is started, submitted and expired at once, started awards have a
\* deadline and ready ones have none.
THEOREM DeadlinesKept == Spec => []DeadlinesFit
<1>1. LifecycleInv => DeadlinesFit
  BY DEF LifecycleInv, RowsFit, Fits, DeadlinesFit
<1> QED BY <1>1, LifecycleInvariant, PTL

\* No request makes a clone ready that was not, whatever row it meets when it
\* saves its copy.
THEOREM ClonesStayClosed == Spec => ClonesNeverReopen
<1> DEFINE Closed == \A i \in Live : awards[i].origin # 0 /\ awards[i].status # "ready" =>
                       awards'[i].status # "ready"
<1>1. LifecycleInv /\ [Next]_vars => [Closed]_vars
  <2> SUFFICES ASSUME LifecycleInv, Next PROVE Closed
    BY DEF vars
  <2>0. /\ awards \in [Ids -> Row] /\ Live \subseteq Ids /\ nAwards + 1 \notin Live
    BY Bounds DEF LifecycleInv, TypeOK, Live, Ids
  <2>1. CASE awards' = awards
    BY <2>1
  <2>2. ASSUME NEW r \in Requests, Create(r) \/
               \E i \in Live : Contributor(r, i) \/ Admin(r, i) \/ Background(r, i)
        PROVE  awards' = awards
    BY <2>2, HandlerSteps
  <2>3. ASSUME NEW r \in Requests, KeepOriginal(r) \/ RefuseClone(r) \/ ValidateClone(r)
                                     \/ Validate(r) \/ Refuse(r)
        PROVE  awards' = awards
    BY <2>3, StageSteps
  <2>4. ASSUME NEW r \in Requests, InsertClone(r) PROVE Closed
    <3>1. awards' = [awards EXCEPT ![request[r].id].count = @ + 1,
                       ![nAwards + 1] = CloneOf(request[r].id, request[r].old)]
      BY <2>4 DEF InsertClone
    <3>2. \A i \in Live : awards'[i].status = awards[i].status
      BY <2>0, <3>1 DEF Row
    <3> QED BY <3>2
  <2>5. ASSUME NEW r \in Requests, InsertAward(r) PROVE Closed
    <3>1. awards' = [awards EXCEPT ![nAwards + 1] = request[r].new]
      BY <2>5 DEF InsertAward
    <3> QED BY <2>0, <3>1
  <2>6. ASSUME NEW r \in Requests, UpdateAward(r) PROVE Closed
    <3> DEFINE k == request[r].id
               row == Merged(awards[k], request[r].old, request[r].new)
    <3>1. /\ awards' = [awards EXCEPT ![k] = row]
          /\ awards[k].origin # 0 /\ awards[k].status # "ready" => row.status # "ready"
      BY <2>6, Updating
    <3> HIDE DEF k, row
    <3> QED BY <2>0, <3>1
  <2>7. ASSUME NEW i \in Live, Time(i) PROVE Closed
    <3>1. awards'[i].status = awards[i].status BY <2>7, TimeStep
    <3>2. \A j \in Live \ {i} : awards'[j] = awards[j]
      BY <2>0, <2>7 DEF Time, NotificationFallsDue, ExpiryFallsDue
    <3> QED BY <3>1, <3>2
  <2> HIDE DEF Closed
  <2> QED BY <2>1, <2>2, <2>3, <2>4, <2>5, <2>6, <2>7 DEF Next, Saving
<1> QED BY <1>1, LifecycleInvariant, PTL DEF Spec, ClonesNeverReopen

-----------------------------------------------------------------------------
(* What processes that work on stale copies may still do: clone a task once *)
(* each, and move a settled award only if they have not seen that it is.    *)

\* The processes that are about to clone award i.
Underway(i) ==
  {r \in Requests : /\ request[r].pc \in {"clone", "insert"} /\ request[r].id = i
                    /\ ShouldBeCloned(request[r].old)}

\* Each of them may add one to the clones that are there.
Overshoot ==
  \A i \in Live : awards[i].origin = 0 =>
    awards[i].count + Cardinality(Underway(i)) + 2 <= awards[i].quota + Cardinality(Requests)

\* A copy that shows a settled award is not saved with another status.
Obeys(p) ==
  /\ p.id # 0 /\ p.old.status \in Settled =>
       p.new.status = p.old.status \/ (p.pc = "validate" /\ p.new.status = "cancelled")
  /\ p.pc = "insert" => ShouldBeCloned(p.old)

SharedInv == Overshoot /\ \A r \in Requests : Obeys(request[r])

LEMMA SomeRequests ==
  ASSUME NEW S \in SUBSET Requests
  PROVE  /\ IsFiniteSet(S) /\ Cardinality(S) \in Nat /\ Cardinality(Requests) \in Nat
         /\ Cardinality(S) <= Cardinality(Requests)
         /\ \A T \in SUBSET S : Cardinality(T) \in Nat /\ Cardinality(T) <= Cardinality(S)
<1>1. IsFiniteSet(Requests)
  BY LifecycleAssumption
<1>2. IsFiniteSet(S) /\ Cardinality(S) <= Cardinality(Requests)
  BY <1>1, FS_Subset
<1>3. \A T \in SUBSET S : IsFiniteSet(T) /\ Cardinality(T) <= Cardinality(S)
  BY <1>2, FS_Subset
<1> QED BY <1>1, <1>2, <1>3, FS_CardinalityType

\* Counters and quotas stay, and no process joins those that clone a task,
\* unless it finds room for a clone.
LEMMA OvershootStays ==
  ASSUME LifecycleInv, Overshoot, Live' = Live,
         \A j \in Live : /\ awards'[j].count = awards[j].count
                         /\ awards'[j].quota = awards[j].quota
                         /\ awards'[j].origin = awards[j].origin,
         \A j \in Live : Underway(j)' \subseteq Underway(j) \/ awards[j].count + 1 < awards[j].quota
  PROVE  Overshoot'
<1> SUFFICES ASSUME NEW j \in Live, awards[j].origin = 0
             PROVE  awards[j].count + Cardinality(Underway(j)') + 2
                      <= awards[j].quota + Cardinality(Requests)
  BY DEF Overshoot
<1>1. awards[j].count \in Nat /\ awards[j].quota \in Nat
  BY Bounds DEF LifecycleInv, TypeOK, Row, Live, Ids
<1>2. Underway(j) \in SUBSET Requests /\ Underway(j)' \in SUBSET Requests
  BY DEF Underway
<1>3. CASE Underway(j)' \subseteq Underway(j)
  BY <1>1, <1>2, <1>3, SomeRequests DEF Overshoot
<1>4. CASE awards[j].count + 1 < awards[j].quota
  BY <1>1, <1>2, <1>4, SomeRequests
<1> QED BY <1>3, <1>4

\* The rows stay, and one request gets a copy that obeys.
LEMMA SharedReplaced ==
  ASSUME LifecycleInv, SharedInv, NEW r \in Requests, NEW p, Obeys(p),
         request' = [request EXCEPT ![r] = p], UNCHANGED <<awards, nAwards>>,
         p.pc \in {"clone", "insert"} /\ ShouldBeCloned(p.old) =>
           r \in Underway(p.id) \/ p.old = awards[p.id]
  PROVE  SharedInv'
<1>1. \A q \in Requests : request'[q] = IF q = r THEN p ELSE request[q]
  BY DEF LifecycleInv, TypeOK
<1>2. \A j \in Live : Underway(j)' \subseteq Underway(j) \/ awards[j].count + 1 < awards[j].quota
  BY <1>1 DEF Underway, ShouldBeCloned
<1>3. Live' = Live
  BY DEF Live
<1>4. Overshoot'
  BY <1>2, <1>3, OvershootStays DEF SharedInv
<1> QED BY <1>1, <1>4 DEF SharedInv, Obeys, ShouldBeCloned

LEMMA IdleObeys == Obeys(Idle) /\ Idle.pc = "idle"
BY DEF Obeys, Idle

\* A handler that loads row i and leaves its status, if it is settled.
LEMMA SharedLoaded ==
  ASSUME LifecycleInv, SharedInv, NEW r \in Requests, NEW i \in Live, NEW changed \in Row,
         NEW pc \in {"clone", "validate"}, Load(r, i, awards[i], changed, pc),
         awards[i].status \in Settled =>
           pc = "validate" /\ changed.status \in {awards[i].status, "cancelled"}
  PROVE  SharedInv'
<1> DEFINE p == [pc |-> pc, id |-> i, old |-> awards[i], new |-> changed]
<1>1. Obeys(p) /\ p.old = awards[p.id]
  BY DEF Obeys
<1>2. request' = [request EXCEPT ![r] = p] /\ UNCHANGED <<awards, nAwards>>
  BY DEF Load
<1> HIDE DEF p
<1> QED BY <1>1, <1>2, SharedReplaced

\* Every handler that begins.
LEMMA SharedHandlers ==
  ASSUME LifecycleInv, SharedInv, NEW r \in Requests,
         \/ Create(r)
         \/ \E i \in Live : Contributor(r, i) \/ Admin(r, i) \/ Background(r, i)
  PROVE  SharedInv'
<1>1. ASSUME NEW row, Load(r, 0, row, row, "validate") PROVE SharedInv'
  <2> DEFINE p == [pc |-> "validate", id |-> 0, old |-> row, new |-> row]
  <2>1. Obeys(p) /\ p.pc = "validate" BY DEF Obeys
  <2>2. request' = [request EXCEPT ![r] = p] /\ UNCHANGED <<awards, nAwards>>
    BY <1>1 DEF Load
  <2> HIDE DEF p
  <2> QED BY <2>1, <2>2, SharedReplaced
<1>2. CASE Create(r)
  BY <1>1, <1>2 DEF Create, CreateAward, CreateTransfer
<1>3. ASSUME NEW i \in Live PROVE i \in Ids /\ awards[i] \in Row
  BY <1>3, Bounds DEF LifecycleInv, TypeOK, Live, Ids
<1>4. ASSUME NEW i \in Live, NEW st \in Status, NEW a \in Accounts,
             awards[i].status = "ready", Give(r, i, st, a)
      PROVE  SharedInv'
  <2> DEFINE changed == [awards[i] EXCEPT !.status = st, !.account = a]
  <2>1. changed \in Row BY <1>3, StatusChanges
  <2>2. Load(r, i, awards[i], changed, "clone") BY <1>4 DEF Give
  <2> HIDE DEF changed
  <2> QED BY <1>4, <2>1, <2>2, SharedLoaded DEF Settled
<1>5. ASSUME NEW i \in Live, NEW st \in Status, ChangeStatus(r, i, st),
             awards[i].status \in Settled => st \in {awards[i].status, "cancelled"}
      PROVE  SharedInv'
  <2> DEFINE changed == [awards[i] EXCEPT !.status = st]
  <2>1. changed \in Row BY <1>3, StatusChanges
  <2>2. Load(r, i, awards[i], changed, "validate") BY <1>5 DEF ChangeStatus, Settled
  <2>3. changed.status = st /\ changed.account = awards[i].account
    BY <1>3 DEF Row
  <2> HIDE DEF changed
  <2> QED BY <1>5, <2>1, <2>2, <2>3, SharedLoaded
<1>6. ASSUME NEW i \in Live, Contributor(r, i) PROVE SharedInv'
  <2>1. ASSUME NEW a \in Accounts, Start(r, i, a) PROVE SharedInv'
    BY <1>4, <2>1 DEF Start, MayStart, Status, Settled
  <2>2. CASE Submit(r, i)
    BY <1>5, <2>2 DEF Submit, MaySubmit, Status, Settled
  <2> QED BY <1>6, <2>1, <2>2 DEF Contributor
<1>7. ASSUME NEW i \in Live, Admin(r, i) PROVE SharedInv'
  <2>1. ASSUME NEW a \in Accounts, Assign(r, i, a) PROVE SharedInv'
    BY <1>4, <2>1 DEF Assign, MayAssign, Status, Settled
  <2>2. ASSUME NEW a \in Accounts, SendAward(r, i, a) PROVE SharedInv'
    BY <1>4, <2>2 DEF SendAward, CanBeEdited, Status, Settled
  <2>3. CASE Accept(r, i) BY <1>5, <2>3 DEF Accept, MayReview, Status, Settled
  <2>4. CASE Reject(r, i) BY <1>5, <2>4 DEF Reject, MayReview, Status, Settled
  <2>5. CASE Destroy(r, i) BY <1>5, <2>5 DEF Destroy, Status, Settled
  <2>6. CASE DestroyTransfer(r, i) BY <1>5, <2>6 DEF DestroyTransfer, Status, Settled
  <2>7. CASE UpdateTransactionAddress(r, i)
    BY <1>5, <2>7 DEF UpdateTransactionAddress, MayPay, Status, Settled
  <2> QED BY <1>7, <2>1, <2>2, <2>3, <2>4, <2>5, <2>6, <2>7 DEF Admin
<1>8. ASSUME NEW i \in Live, Background(r, i) PROVE SharedInv'
  <2>1. CASE RunExpiration(r, i)
    <3>1. Expired(awards[i]) \in Row BY <1>3, StatusChanges DEF Expired, Status
    <3>2. awards[i].status = "started" /\ awards[i].expires = "past"
          /\ Load(r, i, awards[i], Expired(awards[i]), "validate")
      BY <2>1 DEF RunExpiration, MayExpire
    <3> QED BY <3>1, <3>2, SharedLoaded DEF Settled
  <2>2. CASE RunExpiringNotification(r, i)
    <3> DEFINE changed == [awards[i] EXCEPT !.notify = "none"]
    <3>1. changed \in Row /\ changed.account = awards[i].account
      BY <1>3 DEF Row, Deadlines
    <3>2. awards[i].status = "started" /\ Load(r, i, awards[i], changed, "validate")
      BY <2>2 DEF RunExpiringNotification
    <3> HIDE DEF changed
    <3> QED BY <3>1, <3>2, SharedLoaded DEF Settled
  <2>3. CASE UpdateTransactableStatus(r, i)
    BY <1>5, <2>3 DEF UpdateTransactableStatus, Status, Settled
  <2> QED BY <1>8, <2>1, <2>2, <2>3 DEF Background
<1> QED BY <1>2, <1>6, <1>7, <1>8

\* The stages between loading and writing; the validation lets no settled award
\* be cancelled.
LEMMA SharedStages ==
  ASSUME LifecycleInv, SharedInv, NEW r \in Requests,
         \/ KeepOriginal(r) \/ RefuseClone(r) \/ ValidateClone(r)
         \/ Validate(r) \/ Refuse(r)
  PROVE  SharedInv'
<1> DEFINE p == request[r]
<1>1. /\ p \in Process /\ Obeys(p) /\ p.old \in Row /\ p.new \in Row
      /\ request \in [Requests -> Process]
      /\ p.pc \in {"clone", "insert"} => p.old.status = "ready"
  BY DEF LifecycleInv, TypeOK, SharedInv, CopiesFit, GoodCopy, Process
<1>2. UNCHANGED <<awards, nAwards>>
  BY DEF KeepOriginal, RefuseClone, ValidateClone, Validate, Refuse
<1>3. CASE RefuseClone(r) \/ Refuse(r)
  BY <1>2, <1>3, IdleObeys, SharedReplaced DEF RefuseClone, Refuse
<1>4. CASE KeepOriginal(r) \/ ValidateClone(r)
  <2> DEFINE q == [p EXCEPT !.pc = IF KeepOriginal(r) THEN "validate" ELSE "insert"]
  <2>1. p.pc = "clone" /\ (~KeepOriginal(r) => ShouldBeCloned(p.old))
    BY <1>4 DEF KeepOriginal, ValidateClone, NeedsClone
  <2>2. /\ q.pc = IF KeepOriginal(r) THEN "validate" ELSE "insert"
        /\ q.id = p.id /\ q.old = p.old /\ q.new = p.new
    BY <1>1 DEF Process
  <2>3. request' = [request EXCEPT ![r] = q]
    BY <1>1, <1>4 DEF KeepOriginal, ValidateClone
  <2> HIDE DEF q
  <2>4. Obeys(q)
    BY <1>1, <2>1, <2>2 DEF Obeys, Settled
  <2>5. ShouldBeCloned(q.old) => r \in Underway(q.id)
    BY <2>1, <2>2 DEF Underway
  <2> QED BY <1>2, <2>3, <2>4, <2>5, SharedReplaced
<1>5. CASE Validate(r)
  <2> DEFINE row == Prepared(p.new)
             q == [p EXCEPT !.pc = "write", !.new = row]
  <2>1. row.status = p.new.status /\ row.account = p.new.account
    BY <1>1 DEF Prepared, Row
  <2>2. q.pc = "write" /\ q.id = p.id /\ q.old = p.old /\ q.new = row
    BY <1>1 DEF Process
  <2>3. request' = [request EXCEPT ![r] = q]
    BY <1>1, <1>5 DEF Validate
  <2>4. row.status = "cancelled" => p.old.status \notin {"rejected", "paid"}
    BY <1>5 DEF Validate, Valid, CancellationAllowed
  <2> HIDE DEF q, row
  <2>5. Obeys(q)
    BY <1>1, <2>1, <2>2, <2>4 DEF Obeys, Settled
  <2> QED BY <1>2, <2>2, <2>3, <2>5, SharedReplaced
<1> QED BY <1>3, <1>4, <1>5

\* The clone that a process inserts was counted as one to come.
LEMMA SharedInsertsClone ==
  ASSUME LifecycleInv, SharedInv, NEW r \in Requests, InsertClone(r)
  PROVE  SharedInv'
<1> DEFINE p == request[r]
           n == nAwards + 1
           clone == CloneOf(p.id, p.old)
           q == OnClone(p, clone)
<1>1. /\ p \in Process /\ p.pc = "insert" /\ p.id # 0 /\ p.id \in Live
      /\ p.old \in Row /\ p.new \in Row /\ p.old.status = "ready" /\ Obeys(p)
  BY DEF LifecycleInv, TypeOK, CopiesFit, GoodCopy, Process, InsertClone, SharedInv
<1>2. /\ n \in Ids /\ nAwards' = n /\ p.id \in Ids /\ p.id # n /\ Live \subseteq Ids /\ n \notin Live
      /\ Live' = Live \cup {n}
  BY <1>1, Bounds DEF LifecycleInv, TypeOK, Live, Ids, InsertClone
<1>3. clone.origin = p.id /\ clone.status = "ready"
  BY <1>1 DEF CloneOf, Row
<1>4. awards' = [awards EXCEPT ![p.id].count = @ + 1, ![n] = clone]
      /\ request' = [request EXCEPT ![r] = q]
  BY DEF InsertClone
<1>5. q.id = n /\ q.old = clone /\ q.pc = "validate"
  BY DEF OnClone
<1>6. ShouldBeCloned(p.old)
  BY <1>1 DEF Obeys
<1> HIDE DEF q, clone
<1>7. /\ awards'[n] = clone
      /\ awards'[p.id] = [awards[p.id] EXCEPT !.count = @ + 1]
      /\ \A i \in Ids \ {n, p.id} : awards'[i] = awards[i]
  BY <1>2, <1>4 DEF LifecycleInv, TypeOK
<1>8. /\ awards'[p.id].count = awards[p.id].count + 1
      /\ awards'[p.id].quota = awards[p.id].quota
      /\ awards'[p.id].origin = awards[p.id].origin
  BY <1>2, <1>7 DEF LifecycleInv, TypeOK, Row
<1>9. \A s \in Requests : request'[s] = IF s = r THEN q ELSE request[s]
  BY <1>4 DEF LifecycleInv, TypeOK
<1>10. \A j \in Live : Underway(j)' = Underway(j) \ {r}
  BY <1>5, <1>9 DEF Underway
<1>11. r \in Underway(p.id)
  BY <1>1, <1>6 DEF Underway
<1>12. Overshoot'
  <2> SUFFICES ASSUME NEW i \in Live', awards'[i].origin = 0
               PROVE  awards'[i].count + Cardinality(Underway(i)') + 2
                        <= awards'[i].quota + Cardinality(Requests)
    BY DEF Overshoot
  <2>1. i \in Live /\ Underway(i) \in SUBSET Requests
    BY <1>1, <1>2, <1>3, <1>7 DEF Underway
  <2>2. awards[i].count \in Nat /\ awards[i].quota \in Nat
    BY <1>2, <2>1, Bounds DEF LifecycleInv, TypeOK, Row
  <2>3. CASE i = p.id
    <3>1. IsFiniteSet(Underway(i)) /\ Cardinality(Underway(i)) \in Nat
          /\ Cardinality(Requests) \in Nat
      BY <2>1, SomeRequests
    <3>2. Cardinality(Underway(i) \ {r}) = Cardinality(Underway(i)) - 1
      BY <1>11, <2>3, <3>1, FS_RemoveElement
    <3>3. awards[i].count + Cardinality(Underway(i)) + 2 <= awards[i].quota + Cardinality(Requests)
      BY <1>8, <2>1, <2>3 DEF SharedInv, Overshoot
    <3>4. Underway(i)' = Underway(i) \ {r}
      BY <1>10, <2>1
    <3>5. awards'[i].count = awards[i].count + 1 /\ awards'[i].quota = awards[i].quota
      BY <1>8, <2>3
    <3> QED BY <2>2, <3>1, <3>2, <3>3, <3>4, <3>5
  <2>4. CASE i # p.id
    <3>1. awards'[i] = awards[i] /\ Underway(i)' \subseteq Underway(i)
      BY <1>2, <1>7, <1>10, <2>1, <2>4
    <3>2. awards[i].count + Cardinality(Underway(i)) + 2 <= awards[i].quota + Cardinality(Requests)
      BY <2>1, <3>1 DEF SharedInv, Overshoot
    <3> QED BY <2>1, <2>2, <3>1, <3>2, SomeRequests
  <2> QED BY <2>3, <2>4
<1>13. Obeys(q)
  BY <1>3, <1>5 DEF Obeys, Settled
<1> QED BY <1>9, <1>12, <1>13 DEF SharedInv, Obeys, ShouldBeCloned

\* A new award has room for itself, and nobody works on it yet.
LEMMA SharedInserts ==
  ASSUME LifecycleInv, SharedInv, NEW r \in Requests, InsertAward(r)
  PROVE  SharedInv'
<1> DEFINE row == request[r].new
           n == nAwards + 1
<1>1. row \in Row /\ row.count = 0 /\ row.quota \in Nat \ {0}
  BY Bounds DEF LifecycleInv, TypeOK, CopiesFit, GoodCopy, Process, InsertAward, IsNew, Row
<1>2. n \in Ids /\ nAwards' = n /\ Live \subseteq Ids /\ n \notin Live /\ Live' = Live \cup {n}
  BY Bounds DEF LifecycleInv, TypeOK, Live, Ids, InsertAward
<1>3. awards' = [awards EXCEPT ![n] = row] /\ request' = [request EXCEPT ![r] = Idle]
  BY DEF InsertAward
<1> HIDE DEF row
<1>4. \A s \in Requests : request'[s] = IF s = r THEN Idle ELSE request[s]
  BY <1>3 DEF LifecycleInv, TypeOK
<1>5. \A j \in Live : Underway(j)' \subseteq Underway(j) /\ awards'[j] = awards[j]
  BY <1>2, <1>3, <1>4, IdleObeys DEF Underway, LifecycleInv, TypeOK
<1>6. ASSUME NEW i \in Ids, i = n PROVE Underway(i)' = {} /\ awards'[i] = row
  <2>1. \A s \in Requests : request[s].pc \in {"clone", "insert"} => request[s].id \in Live
    BY DEF LifecycleInv, TypeOK, CopiesFit, GoodCopy
  <2>2. \A s \in Requests : request'[s].pc \in {"clone", "insert"} => request'[s].id # i
    BY <1>2, <1>4, <1>6, <2>1, IdleObeys
  <2>3. Underway(i)' = {}
    BY <2>2 DEF Underway
  <2> QED BY <1>2, <1>3, <1>6, <2>3 DEF LifecycleInv, TypeOK
<1>7. Overshoot'
  <2> SUFFICES ASSUME NEW i \in Live', awards'[i].origin = 0
               PROVE  awards'[i].count + Cardinality(Underway(i)') + 2
                        <= awards'[i].quota + Cardinality(Requests)
    BY DEF Overshoot
  <2>1. CASE i = n
    <3>1. {r} \in SUBSET Requests /\ Cardinality({r}) = 1 /\ Cardinality({}) = 0
      BY FS_Singleton, FS_EmptySet
    <3>2. Cardinality(Requests) \in Nat /\ 1 <= Cardinality(Requests)
      BY <3>1, SomeRequests
    <3>3. awards'[i] = row /\ Cardinality(Underway(i)') = 0
      BY <1>2, <1>6, <2>1, <3>1
    <3> QED BY <1>1, <3>2, <3>3
  <2>2. CASE i # n
    <3>1. i \in Live /\ Underway(i) \in SUBSET Requests
      BY <1>2, <2>2 DEF Underway
    <3>2. awards[i].count \in Nat /\ awards[i].quota \in Nat
      BY <1>2, <3>1, Bounds DEF LifecycleInv, TypeOK, Row
    <3>3. awards[i].count + Cardinality(Underway(i)) + 2 <= awards[i].quota + Cardinality(Requests)
      BY <1>5, <3>1 DEF SharedInv, Overshoot
    <3> QED BY <1>5, <3>1, <3>2, <3>3, SomeRequests
  <2> QED BY <2>1, <2>2
<1> QED BY <1>4, <1>7, IdleObeys DEF SharedInv, Obeys, ShouldBeCloned

\* Writing a copy changes neither counter nor quota.
LEMMA SharedUpdates ==
  ASSUME LifecycleInv, SharedInv, NEW r \in Requests, UpdateAward(r)
  PROVE  SharedInv'
<1> DEFINE k == request[r].id
           row == Merged(awards[k], request[r].old, request[r].new)
<1>1. /\ k \in Live /\ SameTask(row, awards[k]) /\ row.count = awards[k].count
      /\ awards' = [awards EXCEPT ![k] = row]
  BY Updating
<1>2. request' = [request EXCEPT ![r] = Idle] /\ nAwards' = nAwards
  BY DEF UpdateAward
<1>3. Live' = Live /\ Live \subseteq Ids
  BY <1>2, Bounds DEF LifecycleInv, TypeOK, Live, Ids
<1> HIDE DEF k, row
<1>4. \A s \in Requests : request'[s] = IF s = r THEN Idle ELSE request[s]
  BY <1>2 DEF LifecycleInv, TypeOK
<1>5. \A j \in Live : Underway(j)' \subseteq Underway(j)
  BY <1>4, IdleObeys DEF Underway
<1>6. \A j \in Live : /\ awards'[j].count = awards[j].count /\ awards'[j].quota = awards[j].quota
                      /\ awards'[j].origin = awards[j].origin
  BY <1>1, <1>3 DEF SameTask, LifecycleInv, TypeOK
<1>7. Overshoot'
  BY <1>3, <1>5, <1>6, OvershootStays DEF SharedInv
<1> QED BY <1>4, <1>7, IdleObeys DEF SharedInv, Obeys, ShouldBeCloned

\* Time moves deadlines only.
LEMMA SharedTime ==
  ASSUME LifecycleInv, SharedInv, NEW i \in Live, Time(i)
  PROVE  /\ SharedInv'
         /\ \A j \in Live : awards'[j].status = awards[j].status
<1>1. /\ awards \in [Ids -> Row] /\ i \in Ids /\ Live \subseteq Ids /\ Live' = Live
      /\ UNCHANGED request
  BY Bounds DEF LifecycleInv, TypeOK, Live, Ids, Time, NotificationFallsDue, ExpiryFallsDue
<1>2. \/ awards' = [awards EXCEPT ![i].notify = "past"]
      \/ awards' = [awards EXCEPT ![i].expires = "past"]
  BY DEF Time, NotificationFallsDue, ExpiryFallsDue
<1>3. \A j \in Ids : /\ awards'[j].status = awards[j].status
                     /\ awards'[j].count = awards[j].count /\ awards'[j].quota = awards[j].quota
                     /\ awards'[j].origin = awards[j].origin
  BY <1>1, <1>2 DEF Row
<1>4. \A j \in Live : Underway(j)' = Underway(j)
  BY <1>1 DEF Underway
<1>5. Overshoot'
  BY <1>1, <1>3, <1>4, OvershootStays DEF SharedInv
<1> QED BY <1>1, <1>3, <1>5 DEF SharedInv

LEMMA SharedStep == ASSUME LifecycleInv, SharedInv, [Next]_vars PROVE SharedInv'
<1>1. CASE UNCHANGED vars
  <2>1. Live' = Live /\ UNCHANGED <<awards, request>> /\ \A j : Underway(j)' = Underway(j)
    BY <1>1 DEF vars, Live, Underway
  <2> QED BY <2>1, OvershootStays DEF SharedInv
<1> QED BY <1>1, SharedHandlers, SharedStages, SharedInsertsClone, SharedInserts, SharedUpdates,
           SharedTime DEF Next, Saving

LEMMA SharedKept == Spec => []SharedInv
<1>1. Init => SharedInv
  BY IdleObeys DEF Init, SharedInv, Overshoot, Live
<1>2. LifecycleInv /\ SharedInv /\ [Next]_vars => SharedInv'
  BY SharedStep
<1> QED BY <1>1, <1>2, LifecycleInvariant, PTL DEF Spec

\* A task gets no more assignments than it allows plus one for each process
\* that runs beside the first, however stale the copies are that they count
\* with: a process that finds room adds one clone, and must look again.
THEOREM QuotaOvershoot == Spec => []OvershootIsBounded
<1>1. LifecycleInv /\ SharedInv => OvershootIsBounded
  <2> SUFFICES ASSUME LifecycleInv, SharedInv, NEW i \in Live, awards[i].origin = 0
               PROVE  awards[i].count + 2 <= awards[i].quota + Cardinality(Requests)
    BY DEF OvershootIsBounded
  <2>1. awards[i].count \in Nat /\ awards[i].quota \in Nat
    BY Bounds DEF LifecycleInv, TypeOK, Row, Live, Ids
  <2>2. Underway(i) \in SUBSET Requests
    BY DEF Underway
  <2> QED BY <2>1, <2>2, SomeRequests DEF SharedInv, Overshoot
<1> QED BY <1>1, SharedKept, LifecycleInvariant, PTL

\* Only UpdateAward writes to a row that is there already, and it writes the
\* status of its copy where that differs from the one it loaded.
LEMMA WritesKnown ==
  ASSUME LifecycleInv, SharedInv, Next, NEW i \in Live,
         awards'[i].status # awards[i].status
  PROVE  \E r \in Requests :
           LET p == request[r] IN
           UpdateAward(r) /\ p.id = i /\ p.new.status # p.old.status
<1>0. /\ awards \in [Ids -> Row] /\ Live \subseteq Ids /\ nAwards + 1 \notin Live
      /\ request \in [Requests -> Process]
  BY Bounds DEF LifecycleInv, TypeOK, Live, Ids
<1>1. ASSUME NEW r \in Requests,
             \/ Create(r) \/ \E j \in Live : Contributor(r, j) \/ Admin(r, j) \/ Background(r, j)
             \/ KeepOriginal(r) \/ RefuseClone(r) \/ ValidateClone(r) \/ Validate(r) \/ Refuse(r)
      PROVE  FALSE
  BY <1>1, HandlerSteps, StageSteps
<1>2. ASSUME NEW r \in Requests, InsertClone(r) PROVE FALSE
  <2>1. awards' = [awards EXCEPT ![request[r].id].count = @ + 1,
                     ![nAwards + 1] = CloneOf(request[r].id, request[r].old)]
    BY <1>2 DEF InsertClone
  <2> QED BY <1>0, <2>1 DEF Row
<1>3. ASSUME NEW r \in Requests, InsertAward(r) PROVE FALSE
  BY <1>0, <1>3 DEF InsertAward
<1>4. ASSUME NEW j \in Live, Time(j) PROVE FALSE
  BY <1>4, SharedTime
<1>5. PICK r \in Requests : UpdateAward(r)
  BY <1>1, <1>2, <1>3, <1>4 DEF Next, Saving
<1> DEFINE p == request[r]
<1>6. awards' = [awards EXCEPT ![p.id] = Merged(awards[p.id], p.old, p.new)] /\ p.id # 0
  BY <1>5 DEF UpdateAward
<1>7. p.id = i
  BY <1>0, <1>6
<1>8. awards'[i].status = IF p.new.status = p.old.status THEN awards[i].status ELSE p.new.status
  BY <1>0, <1>6, <1>7 DEF Merged, Row
<1> QED BY <1>5, <1>7, <1>8

\* Beside any number of processes, a paid or rejected award is moved only by
\* one that had loaded it before it was settled: validate_cancellation turns
\* every other one away.
THEOREM SettledMovesUnseen == Spec => SettledIsOverwrittenUnseen
<1>1. LifecycleInv /\ SharedInv /\ [Next]_vars =>
        [\A i \in Live : awards[i].status \in Settled /\ awards'[i].status # awards[i].status =>
           \E r \in Requests : /\ request[r].id = i /\ request[r].pc = "write"
                                /\ request[r].old.status \notin Settled]_vars
  <2> SUFFICES ASSUME LifecycleInv, SharedInv, Next, NEW i \in Live,
                      awards'[i].status # awards[i].status
               PROVE  \E r \in Requests : /\ request[r].id = i /\ request[r].pc = "write"
                                           /\ request[r].old.status \notin Settled
    OBVIOUS
  <2>1. PICK r \in Requests : LET p == request[r] IN
           UpdateAward(r) /\ p.id = i /\ p.new.status # p.old.status
    BY WritesKnown
  <2>2. request[r].pc = "write" /\ request[r].id # 0
    BY <2>1 DEF UpdateAward
  <2> QED BY <2>1, <2>2 DEF SharedInv, Obeys
<1> QED BY <1>1, SharedKept, LifecycleInvariant, PTL DEF Spec, SettledIsOverwrittenUnseen

===========================================================================

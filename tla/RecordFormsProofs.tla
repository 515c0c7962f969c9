------------------------- MODULE RecordFormsProofs -------------------------
(***************************************************************************)
(* Theorems about the pages of forms, for any number of requests, rows,    *)
(* addresses and networks. The requests of a page are a sequence of        *)
(* records; for buttons and details the values of most fields do not       *)
(* matter, so that only the shape of the records is kept first. Types and  *)
(* channels, which count rows, come last.                                  *)
(***************************************************************************)
EXTENDS RecordForms, Integers, FiniteSetTheorems, TLAPS

\* A record with the fields of a request.
IsRequest(r) ==
  r = [action |-> r.action, record |-> r.record, image |-> r.image, address |-> r.address,
       symbol |-> r.symbol, network |-> r.network, rows |-> r.rows, stage |-> r.stage,
       keys |-> r.keys, id |-> r.id, channels |-> r.channels]

\* A record with the fields of a form.
IsForm(f) ==
  f = [action |-> f.action, record |-> f.record, valid |-> f.valid, image |-> f.image,
       errors |-> f.errors, busy |-> f.busy, close |-> f.close, left |-> f.left]

\* A record with the fields of the contract part.
IsContract(c) ==
  c = [typed |-> c.typed, address |-> c.address, batch |-> c.batch, network |-> c.network,
       symbol |-> c.symbol, locked |-> c.locked, lookups |-> c.lookups]

IsServer(s) ==
  s = [records |-> s.records, channels |-> s.channels, made |-> s.made, added |-> s.added]

\* The requests, as a sequence.
IsPage ==
  /\ \E S : requests \in Seq(S)
  /\ \A i \in DOMAIN requests : IsRequest(requests[i])

\* What the proofs rest on.
Shaped ==
  /\ kind \in FormKinds
  /\ IsForm(form) /\ form.errors = [f \in Fields |-> form.errors[f]]
  /\ IsContract(contract)
  /\ IsServer(server)
  /\ IsPage

-----------------------------------------------------------------------------
(* Requests                                                                 *)

\* Appending a request keeps those there are.
LEMMA AppendRequest ==
  ASSUME IsPage, NEW r, IsRequest(r), requests' = Append(requests, r)
  PROVE  /\ IsPage'
         /\ DOMAIN requests' = DOMAIN requests \cup {Len(requests) + 1}
         /\ Len(requests) + 1 \notin DOMAIN requests
         /\ requests'[Len(requests) + 1] = r
         /\ \A i \in DOMAIN requests : requests'[i] = requests[i]
<1>1. PICK S : requests \in Seq(S)
  BY DEF IsPage
<1>2. requests \in Seq(S \cup {r}) /\ requests' \in Seq(S \cup {r})
  BY <1>1
<1>3. /\ DOMAIN requests = 1..Len(requests) /\ Len(requests) \in Nat
      /\ DOMAIN requests' = 1..(Len(requests) + 1)
      /\ requests'[Len(requests) + 1] = r
      /\ \A i \in DOMAIN requests : requests'[i] = requests[i]
  BY <1>1, <1>2
<1>4. DOMAIN requests' = DOMAIN requests \cup {Len(requests) + 1}
      /\ Len(requests) + 1 \notin DOMAIN requests
  BY <1>3
<1>5. \A i \in DOMAIN requests' : IsRequest(requests'[i])
  BY <1>3, <1>4 DEF IsPage
<1>6. \E T : requests' \in Seq(T)
  BY <1>2
<1> QED BY <1>3, <1>4, <1>5, <1>6 DEF IsPage

\* Changing one keeps the others.
LEMMA ChangeRequest ==
  ASSUME IsPage, NEW i \in DOMAIN requests, NEW r, IsRequest(r),
         requests' = [requests EXCEPT ![i] = r]
  PROVE  /\ IsPage'
         /\ DOMAIN requests' = DOMAIN requests
         /\ requests'[i] = r
         /\ \A j \in DOMAIN requests : j # i => requests'[j] = requests[j]
<1>1. PICK S : requests \in Seq(S)
  BY DEF IsPage
<1>2. requests \in Seq(S \cup {r})
  BY <1>1
<1>3. requests' \in Seq(S \cup {r})
  BY <1>2
<1>4. /\ DOMAIN requests' = DOMAIN requests
      /\ requests'[i] = r
      /\ \A j \in DOMAIN requests : j # i => requests'[j] = requests[j]
  BY <1>2
<1>5. \A j \in DOMAIN requests' : IsRequest(requests'[j])
  BY <1>4 DEF IsPage
<1>6. \E T : requests' \in Seq(T)
  BY <1>3
<1> QED BY <1>4, <1>5, <1>6 DEF IsPage

\* A request of which some fields change is one still.
LEMMA RequestChange ==
  ASSUME NEW r, IsRequest(r), NEW s, NEW id, NEW channels, NEW keys
  PROVE  /\ IsRequest([r EXCEPT !.stage = s, !.id = id, !.channels = channels])
         /\ IsRequest([r EXCEPT !.stage = s, !.keys = keys])
<1>1. ASSUME NEW q, IsRequest(q), NEW v
      PROVE  /\ IsRequest([q EXCEPT !.stage = v]) /\ IsRequest([q EXCEPT !.keys = v])
             /\ IsRequest([q EXCEPT !.id = v]) /\ IsRequest([q EXCEPT !.channels = v])
  BY <1>1 DEF IsRequest
<1>2. [r EXCEPT !.stage = s, !.keys = keys] = [[r EXCEPT !.stage = s] EXCEPT !.keys = keys]
  OBVIOUS
<1>3. [r EXCEPT !.stage = s, !.id = id, !.channels = channels]
        = [[[r EXCEPT !.stage = s] EXCEPT !.id = id] EXCEPT !.channels = channels]
  OBVIOUS
<1> QED BY <1>1, <1>2, <1>3

\* What every step does to the requests, apart from submitting: one of them
\* moves to another stage, or none.
Moves(i, s) ==
  /\ requests'[i].stage = s
  /\ requests'[i].action = requests[i].action /\ requests'[i].record = requests[i].record
  /\ requests'[i].symbol = requests[i].symbol /\ requests'[i].address = requests[i].address
  /\ requests'[i].network = requests[i].network
  /\ DOMAIN requests' = DOMAIN requests
  /\ \A j \in DOMAIN requests : j # i => requests'[j] = requests[j]

LEMMA StageMoves ==
  ASSUME IsPage, NEW i \in DOMAIN requests, NEW s, Stage(i, s)
  PROVE  IsPage' /\ Moves(i, s) /\ requests'[i].keys = requests[i].keys
<1>1. IsRequest(requests[i])
  BY DEF IsPage
<1> DEFINE r == [requests[i] EXCEPT !.stage = s]
<1>2. IsRequest(r) /\ r.stage = s /\ r.action = requests[i].action /\ r.record = requests[i].record
      /\ r.symbol = requests[i].symbol /\ r.address = requests[i].address
      /\ r.network = requests[i].network /\ r.keys = requests[i].keys
  BY <1>1 DEF IsRequest
<1>3. requests' = [requests EXCEPT ![i] = r]
  BY DEF Stage
<1> HIDE DEF r
<1> QED BY <1>2, <1>3, ChangeRequest DEF Moves

\* What no change of a page touches.
Kept ==
  /\ form'.busy = form.busy /\ form'.action = form.action /\ form'.left = form.left
  /\ form'.record = form.record
  /\ server'.records = server.records
  /\ UNCHANGED <<kind, requests>>

ErrorsOf(e) == e = [f \in Fields |-> e[f]]

LEMMA ErrorsChange ==
  ASSUME NEW e, ErrorsOf(e), NEW f \in Fields, NEW m, NEW d \in {ErrorAdd(e, f, m), ErrorRemove(e, f, m)}
  PROVE  ErrorsOf(d) /\ \A g \in Fields : g # f => d[g] = e[g]
BY DEF ErrorAdd, ErrorRemove, ErrorsOf

\* The errors after a change of a value or a file.
LEMMA ErrorsOfChange ==
  ASSUME NEW e, ErrorsOf(e), NEW ok, NEW image, NEW f \in {"value", "address", "batch"}
  PROVE  /\ ErrorsOf(ErrorsOfValue(e, f, ok)) /\ ErrorsOf(ErrorsOfFile(e, image))
         /\ ErrorsOf(ThrowsOnValue(e, f, ok)) /\ ErrorsOf(FileThenInvalid(e, image))
<1>0. f \in Fields /\ "file" \in Fields
  BY DEF Fields
<1>1. ErrorsOf(ErrorsOfValue(e, f, ok))
  BY <1>0, ErrorsChange DEF ErrorsOfValue
<1>2. ErrorsOf(ErrorsOfFile(e, image))
  BY <1>0, ErrorsChange DEF ErrorsOfFile
<1>3. ErrorsOf(FileThenInvalid(e, image))
  BY <1>0, <1>2, ErrorsChange DEF FileThenInvalid
<1> QED BY <1>1, <1>2, <1>3 DEF ThrowsOnValue

\* Of a form that is changed in some field, the others stay.
LEMMA FormChange ==
  ASSUME IsForm(form), NEW e, NEW v, NEW i, ErrorsOf(e),
         form' \in { [form EXCEPT !.valid = v, !.errors = e],
                     [form EXCEPT !.image = i, !.errors = e], [form EXCEPT !.errors = e] }
  PROVE  /\ IsForm(form') /\ form'.errors = e
         /\ form'.busy = form.busy /\ form'.action = form.action /\ form'.left = form.left
         /\ form'.record = form.record
BY DEF IsForm

ChangesForm ==
  \/ ChangesProject \/ ChangesToken \/ ChangesMission \/ ChangesTask \/ ChangesBatch
  \/ ClosesFileChooser

LEMMA FormKept ==
  ASSUME Shaped, ChangesForm
  PROVE  Shaped' /\ Kept /\ UNCHANGED contract
<1>0. /\ IsForm(form) /\ ErrorsOf(form.errors)
      /\ UNCHANGED <<kind, contract, rows, requests, server>>
  BY DEF Shaped, ErrorsOf, ChangesForm, ChangesProject, ChangesToken, ChangesMission,
         ChangesTask, ChangesBatch, ClosesFileChooser
<1> DEFINE Changed ==
      \E e : /\ ErrorsOf(e)
             /\ \/ \E v : form' = [form EXCEPT !.valid = v, !.errors = e]
                \/ \E i : form' = [form EXCEPT !.image = i, !.errors = e]
<1>1. Changed
  <2>1. ASSUME NEW oks, Edits(oks, ErrorsOfValue) PROVE Changed
    <3>1. PICK ok : form' = [form EXCEPT !.valid = ok, !.errors = ErrorsOfValue(@, "value", ok)]
      BY <2>1 DEF Edits
    <3>2. ErrorsOf(ErrorsOfValue(form.errors, "value", ok))
      BY <1>0, ErrorsOfChange
    <3>3. form' = [form EXCEPT !.valid = ok, !.errors = ErrorsOfValue(form.errors, "value", ok)]
      BY <1>0, <3>1 DEF IsForm
    <3> QED BY <3>2, <3>3
  <2>2. CASE Picks(ErrorsOfFile)
    <3>1. PICK i : form' = [form EXCEPT !.image = i, !.errors = ErrorsOfFile(@, i)]
      BY <2>2 DEF Picks
    <3>2. ErrorsOf(ErrorsOfFile(form.errors, i))
      BY <1>0, ErrorsOfChange
    <3>3. form' = [form EXCEPT !.image = i, !.errors = ErrorsOfFile(form.errors, i)]
      BY <1>0, <3>1 DEF IsForm
    <3> QED BY <3>2, <3>3
  <2>3. ASSUME NEW oks, Edits(oks, ThrowsOnValue) PROVE Changed
    <3>1. PICK ok : form' = [form EXCEPT !.valid = ok, !.errors = form.errors]
      BY <2>3 DEF Edits, ThrowsOnValue
    <3> QED BY <1>0, <3>1
  <2>4. CASE kind = "mission" /\ Picks(FileThenInvalid)
    <3>1. PICK i : form' = [form EXCEPT !.image = i, !.errors = FileThenInvalid(@, i)]
      BY <2>4 DEF Picks
    <3>2. ErrorsOf(FileThenInvalid(form.errors, i))
      BY <1>0, <2>4, ErrorsOfChange
    <3>3. form' = [form EXCEPT !.image = i, !.errors = FileThenInvalid(form.errors, i)]
      BY <1>0, <3>1 DEF IsForm
    <3> QED BY <3>2, <3>3
  <2>5. CASE ClosesFileChooser
    <3>1. form' = [form EXCEPT !.image = "none", !.errors = form.errors]
      BY <1>0, <2>5 DEF ClosesFileChooser, IsForm
    <3> QED BY <1>0, <3>1
  <2> QED BY <2>1, <2>2, <2>3, <2>4, <2>5 DEF ChangesForm, ChangesProject, ChangesToken,
             ChangesMission, ChangesTask, ChangesBatch, OnPage
<1>2. PICK e : /\ ErrorsOf(e)
               /\ \/ \E v : form' = [form EXCEPT !.valid = v, !.errors = e]
                  \/ \E i : form' = [form EXCEPT !.image = i, !.errors = e]
  BY <1>1
<1>3. IsForm(form') /\ form'.errors = e /\ Kept
  BY <1>0, <1>2, FormChange DEF Kept
<1> QED BY <1>0, <1>2, <1>3 DEF Shaped, ErrorsOf, IsPage

-----------------------------------------------------------------------------
(* The invariants                                                           *)

\* While details are looked up the fields of the contract are locked, so that
\* the answer is about them; details that are kept beside another address are
\* beside one that is not valid.
DetailsInv ==
  /\ \A l \in contract.lookups :
       contract.locked /\ contract.typed /\ l = <<contract.address, contract.network>>
  /\ contract.locked => contract.symbol = NoDetails
  /\ ~contract.typed => contract.symbol = NoDetails /\ contract.address = NoAddress
  /\ contract.symbol # NoDetails /\ contract.address \in Addresses =>
       contract.symbol = <<contract.address, contract.network>>

\* A project form waits for one answer at a time, and is disabled until it has
\* read all of it: before a creation is known no other request leaves.
ProjectInv == kind = "project" =>
  /\ server.records \in {0, 1}
  /\ \A i \in DOMAIN requests :
       /\ requests[i].stage # "body"
       /\ Open(i) => form.busy /\ requests[i].action = form.action
       /\ requests[i].stage \in {"sent", "refused"} /\ requests[i].action = "POST" =>
            server.records = 0
       /\ \A j \in DOMAIN requests : Open(i) /\ Open(j) => i = j
  /\ form.action = "POST" /\ ~form.busy => server.records = 0

FormsInv ==
  /\ Shaped
  /\ DetailsInv
  /\ BusyHasCause
  /\ ProjectInv
  /\ SentDetailsMatch

\* A change of the page breaks none of them, if it keeps the details right.
LEMMA KeptIsFine ==
  ASSUME FormsInv, Shaped', Kept, DetailsInv'
  PROVE  FormsInv'
<1>1. BusyHasCause'
  BY DEF FormsInv, Kept, BusyHasCause, Open
<1>2. ProjectInv'
  BY DEF FormsInv, Kept, ProjectInv, Open
<1>3. SentDetailsMatch'
  BY DEF FormsInv, Kept, SentDetailsMatch
<1> QED BY <1>1, <1>2, <1>3 DEF FormsInv

LEMMA FormStep == ASSUME FormsInv, ChangesForm PROVE FormsInv'
<1>1. Shaped
  BY DEF FormsInv
<1>2. DetailsInv'
  BY <1>1, FormKept DEF FormsInv, DetailsInv
<1> QED BY <1>1, <1>2, FormKept, KeptIsFine

-----------------------------------------------------------------------------
(* The contract and the channels                                            *)

\* Looking details up gives a contract whose only lookup is about it.
LEMMA LooksUpIsRight ==
  ASSUME NEW c, IsContract(c), c.lookups = {}, ~c.locked, c.typed \/ c.address = NoAddress
  PROVE  /\ IsContract(LooksUp(c))
         /\ LooksUp(c).address = c.address /\ LooksUp(c).network = c.network
         /\ LooksUp(c).typed = c.typed
         /\ \/ /\ LooksUp(c).lookups = {<<c.address, c.network>>}
               /\ LooksUp(c).locked /\ LooksUp(c).symbol = NoDetails
               /\ c.typed
            \/ c.address = NoAddress /\ LooksUp(c) = c
BY DEF LooksUp, IsContract

LEMMA ContractStep ==
  ASSUME FormsInv,
         \/ \E a \in Addresses \cup {NoAddress, BadAddress} : ChangesAddress(a)
         \/ ChangesBatchAddress \/ (\E n \in Networks : ChangesNetwork(n)) \/ ChangesType
         \/ \E l \in contract.lookups : LookupAnswers(l) \/ LookupIsLost(l)
  PROVE  FormsInv'
<1>0. /\ IsForm(form) /\ ErrorsOf(form.errors) /\ IsContract(contract)
      /\ Shaped /\ DetailsInv /\ NoAddress \notin Addresses
  BY FormAssumption DEF FormsInv, Shaped, ErrorsOf
<1>1. ASSUME NEW a, ChangesAddress(a) PROVE FormsInv'
  <2>0. kind = "token" /\ ~contract.locked /\ contract.typed /\ contract.lookups = {}
        /\ UNCHANGED <<kind, rows, requests, server>>
    BY <1>0, <1>1 DEF ChangesAddress, OnPage, DetailsInv
  <2>1. IsForm(form') /\ ErrorsOf(form'.errors) /\ Kept
    <3> DEFINE e == ErrorsOfValue(form.errors, "address", a \in Addresses)
    <3>1. ErrorsOf(e)
      BY <1>0, ErrorsOfChange
    <3>2. form' = [form EXCEPT !.errors = e]
      BY <1>0, <1>1 DEF ChangesAddress, IsForm
    <3> HIDE DEF e
    <3> QED BY <1>0, <2>0, <3>1, <3>2, FormChange DEF Kept
  <2> DEFINE c == [contract EXCEPT !.address = a]
  <2>2. /\ IsContract(c) /\ c.lookups = {} /\ ~c.locked /\ c.typed
        /\ c.address = a /\ c.network = contract.network
    BY <1>0, <2>0 DEF IsContract
  <2>3. contract' = IF a \in Addresses THEN LooksUp(c) ELSE c
    BY <1>1 DEF ChangesAddress
  <2> HIDE DEF c
  <2>4. IsContract(contract') /\ DetailsInv'
    BY <1>0, <2>2, <2>3, LooksUpIsRight DEF DetailsInv
  <2> QED BY <1>0, <2>0, <2>1, <2>4, KeptIsFine DEF Shaped, ErrorsOf, IsPage
<1>2. ASSUME NEW n, ChangesNetwork(n) PROVE FormsInv'
  <2>0. contract.lookups = {} /\ ~contract.locked /\ UNCHANGED <<kind, form, rows, requests, server>>
    BY <1>0, <1>2 DEF ChangesNetwork, DetailsInv
  <2> DEFINE c == [contract EXCEPT !.network = n]
  <2>2. /\ IsContract(c) /\ c.lookups = {} /\ ~c.locked /\ (c.typed \/ c.address = NoAddress)
        /\ c.typed = contract.typed /\ c.address = contract.address /\ c.symbol = contract.symbol
    BY <1>0, <2>0 DEF IsContract, DetailsInv
  <2>3. contract' = LooksUp(c)
    BY <1>2 DEF ChangesNetwork
  <2> HIDE DEF c
  <2>4. IsContract(contract') /\ DetailsInv'
    BY <1>0, <2>2, <2>3, LooksUpIsRight DEF DetailsInv
  <2> QED BY <1>0, <2>0, <2>4, KeptIsFine DEF Shaped, Kept, ErrorsOf, IsPage
<1>3. CASE ChangesType
  <2>1. PICK t \in BOOLEAN :
          contract' = [NoContract(contract.network) EXCEPT !.typed = t, !.lookups = contract.lookups]
    BY <1>3 DEF ChangesType
  <2>2. contract.lookups = {} /\ UNCHANGED <<kind, form, rows, requests, server>>
    BY <1>0, <1>3 DEF ChangesType, DetailsInv
  <2>3. IsContract(contract') /\ DetailsInv'
    BY <1>0, <2>1, <2>2 DEF NoContract, IsContract, DetailsInv
  <2> QED BY <1>0, <2>2, <2>3, KeptIsFine DEF Shaped, Kept, ErrorsOf, IsPage
<1>4. ASSUME NEW l \in contract.lookups, LookupAnswers(l) \/ LookupIsLost(l) PROVE FormsInv'
  <2>1. /\ contract.locked /\ contract.typed /\ l = <<contract.address, contract.network>>
        /\ contract.lookups \ {l} = {} /\ contract.symbol = NoDetails
    BY <1>0 DEF DetailsInv
  <2>2. UNCHANGED <<kind, form, rows, requests, server>>
    BY <1>4 DEF LookupAnswers, LookupIsLost
  <2>3. /\ IsContract(contract') /\ contract'.lookups = {} /\ contract'.typed = contract.typed
        /\ contract'.address = contract.address /\ contract'.network = contract.network
        /\ \/ contract'.symbol = NoDetails
           \/ contract'.symbol = l /\ ~contract'.locked
    BY <1>0, <1>4, <2>1 DEF LookupAnswers, LookupIsLost, IsContract
  <2>4. DetailsInv'
    BY <1>0, <2>1, <2>3 DEF DetailsInv
  <2> QED BY <1>0, <2>2, <2>3, <2>4, KeptIsFine DEF Shaped, Kept, ErrorsOf, IsPage
<1>5. CASE ChangesBatchAddress
  <2>1. PICK ok \in BOOLEAN :
          /\ form' = [form EXCEPT !.errors = ErrorsOfValue(form.errors, "batch", ok)]
          /\ contract' = [contract EXCEPT !.batch = ok]
    BY <1>0, <1>5 DEF ChangesBatchAddress, IsForm
  <2> DEFINE e == ErrorsOfValue(form.errors, "batch", ok)
  <2>2. ErrorsOf(e)
    BY <1>0, ErrorsOfChange
  <2>3. form' = [form EXCEPT !.errors = e] /\ UNCHANGED <<kind, rows, requests, server>>
    BY <1>5, <2>1 DEF ChangesBatchAddress
  <2> HIDE DEF e
  <2>4. IsForm(form') /\ ErrorsOf(form'.errors) /\ Kept
    BY <1>0, <2>2, <2>3, FormChange DEF Kept
  <2>5. IsContract(contract') /\ DetailsInv'
    BY <1>0, <2>1, <2>3 DEF IsContract, DetailsInv
  <2> QED BY <1>0, <2>3, <2>4, <2>5, KeptIsFine DEF Shaped, ErrorsOf, IsPage
<1> QED BY <1>1, <1>2, <1>3, <1>4, <1>5

LEMMA ChannelStep ==
  ASSUME FormsInv, AddsChannel \/ \E i \in DOMAIN rows : DestroysChannel(i)
  PROVE  FormsInv'
<1>1. UNCHANGED <<kind, form, contract, requests>>
  BY DEF AddsChannel, DestroysChannel
<1>2. IsServer(server') /\ server'.records = server.records
  BY DEF AddsChannel, DestroysChannel, FormsInv, Shaped, IsServer
<1>3. Shaped' /\ Kept /\ DetailsInv'
  BY <1>1, <1>2 DEF FormsInv, Shaped, Kept, DetailsInv, IsPage
<1> QED BY <1>1, <1>3, KeptIsFine

-----------------------------------------------------------------------------
(* Submitting                                                               *)

LEMMA SubmitStep ==
  ASSUME FormsInv, SubmitsProject \/ SubmitsToken \/ SubmitsMission \/ SubmitsTask \/ SubmitsBatch
  PROVE  FormsInv'
<1> DEFINE n == Len(requests) + 1
<1>1. PICK c \in BOOLEAN, p \in {Payload, [Payload EXCEPT !.network = "omitted"]} :
        /\ Submits(c, p) /\ ~form.left
        /\ contract.locked \/ p = Payload
  BY DEF SubmitsProject, SubmitsToken, SubmitsMission, SubmitsTask, SubmitsBatch, OnPage
<1>2. /\ IsRequest(p) /\ p.stage = "sent" /\ p.action = form.action
      /\ p.symbol = contract.symbol /\ p.address = contract.address
      /\ ~contract.locked => p.network = contract.network
  BY <1>1 DEF Payload, IsRequest
<1>3. /\ requests' = Append(requests, p) /\ ~form.busy /\ CheckValidity
      /\ form' = [form EXCEPT !.busy = TRUE, !.close = c]
      /\ UNCHANGED <<kind, contract, rows, server>>
  BY <1>1 DEF Submits
<1>4. /\ IsPage' /\ DOMAIN requests' = DOMAIN requests \cup {n} /\ n \notin DOMAIN requests
      /\ requests'[n] = p /\ \A i \in DOMAIN requests : requests'[i] = requests[i]
  BY <1>2, <1>3, AppendRequest DEF FormsInv, Shaped
<1> HIDE DEF n
<1>5. /\ IsForm(form') /\ form'.errors = form.errors /\ form'.action = form.action
      /\ form'.busy /\ form'.left = form.left
  BY <1>3 DEF FormsInv, Shaped, IsForm
<1>6. Shaped' /\ DetailsInv'
  BY <1>3, <1>4, <1>5 DEF FormsInv, Shaped, DetailsInv
<1>7. BusyHasCause'
  BY <1>2, <1>4 DEF BusyHasCause, Open
<1>8. ProjectInv'
  BY <1>2, <1>3, <1>4, <1>5 DEF FormsInv, ProjectInv, Open
<1>9. SentDetailsMatch'
  <2>1. p.symbol # NoDetails => p.symbol = <<p.address, p.network>>
    BY <1>2, <1>3 DEF FormsInv, DetailsInv, CheckValidity
  <2> QED BY <1>4, <2>1 DEF FormsInv, SentDetailsMatch
<1> QED BY <1>6, <1>7, <1>8, <1>9 DEF FormsInv

-----------------------------------------------------------------------------
(* The server                                                               *)

LEMMA ServerAcceptsStep ==
  ASSUME FormsInv, NEW i \in DOMAIN requests, ServerAccepts(i)
  PROVE  FormsInv'
<1>1. PICK id, channels, made :
        /\ requests[i].stage = "sent"
        /\ requests' = [requests EXCEPT ![i] = [@ EXCEPT !.stage = "accepted", !.id = id,
                                                         !.channels = channels]]
        /\ server' = [server EXCEPT !.records = IF requests[i].action = "POST"
                                                THEN server.records + 1 ELSE @,
                                    !.channels = channels, !.made = made]
        /\ UNCHANGED <<kind, form, contract, rows>>
  <2>1. /\ requests[i].stage = "sent" /\ UNCHANGED <<kind, form, contract, rows>>
        /\ IsServer(server)
    BY DEF ServerAccepts, FormsInv, Shaped
  <2>2. PICK id, channels, made :
          /\ requests' = [requests EXCEPT ![i] = [@ EXCEPT !.stage = "accepted", !.id = id,
                                                           !.channels = channels]]
          /\ server' = [server EXCEPT !.records = IF requests[i].action = "POST" THEN id ELSE @,
                                      !.channels = channels, !.made = made]
          /\ requests[i].action = "POST" => id = server.records + 1
    BY DEF ServerAccepts, IsServer, FormsInv, Shaped
  <2> QED BY <2>1, <2>2
<1> DEFINE r == [requests[i] EXCEPT !.stage = "accepted", !.id = id, !.channels = channels]
<1>0. IsRequest(requests[i])
  BY DEF FormsInv, Shaped, IsPage
<1>a. IsRequest(r)
  BY <1>0, RequestChange
<1>2. /\ IsRequest(r) /\ r.stage = "accepted" /\ r.action = requests[i].action
      /\ r.symbol = requests[i].symbol /\ r.address = requests[i].address
      /\ r.network = requests[i].network
  BY <1>0, <1>a DEF IsRequest
<1>3. requests' = [requests EXCEPT ![i] = r]
  BY <1>1
<1> HIDE DEF r
<1>4. /\ IsPage' /\ DOMAIN requests' = DOMAIN requests /\ requests'[i] = r
      /\ \A j \in DOMAIN requests : j # i => requests'[j] = requests[j]
  BY <1>2, <1>3, ChangeRequest DEF FormsInv, Shaped
<1>5. /\ IsServer(server')
      /\ server'.records = IF requests[i].action = "POST" THEN server.records + 1 ELSE server.records
  BY <1>1 DEF FormsInv, Shaped, IsServer
<1>6. Shaped' /\ DetailsInv'
  BY <1>1, <1>4, <1>5 DEF FormsInv, Shaped, DetailsInv
<1>7. BusyHasCause'
  BY <1>1, <1>2, <1>4 DEF FormsInv, BusyHasCause, Open
<1>8. ProjectInv'
  <2> SUFFICES ASSUME kind = "project" PROVE ProjectInv'
    BY <1>1 DEF ProjectInv
  <2>1. /\ Open(i) /\ form.busy /\ requests[i].action = form.action
        /\ requests[i].action = "POST" => server.records = 0
        /\ server.records \in {0, 1}
    BY <1>1 DEF FormsInv, ProjectInv, Open
  <2>2. server'.records \in {0, 1}
    BY <1>5, <2>1
  <2>3. \A j \in DOMAIN requests' : Open(j)' <=> Open(j)
    BY <1>1, <1>2, <1>4 DEF Open
  <2>4. \A j \in DOMAIN requests' : requests'[j].stage \notin {"sent", "refused"}
    BY <1>2, <1>4, <2>1 DEF FormsInv, ProjectInv, Open
  <2> QED BY <1>1, <1>2, <1>4, <2>1, <2>2, <2>3, <2>4 DEF FormsInv, ProjectInv
<1>9. SentDetailsMatch'
  BY <1>2, <1>4 DEF FormsInv, SentDetailsMatch
<1> QED BY <1>6, <1>7, <1>8, <1>9 DEF FormsInv

\* A refusal, and an answer that is lost: the request stays or ends.
LEMMA ServerRefusesStep ==
  ASSUME FormsInv, NEW i \in DOMAIN requests, ServerRefuses(i) \/ AnswerIsLost(i)
  PROVE  FormsInv'
<1>1. UNCHANGED <<kind, form, contract, rows, server>>
  BY DEF ServerRefuses, AnswerIsLost
<1>2. /\ IsPage' /\ DOMAIN requests' = DOMAIN requests
      /\ \A j \in DOMAIN requests : j # i => requests'[j] = requests[j]
      /\ requests'[i].action = requests[i].action /\ requests'[i].symbol = requests[i].symbol
      /\ requests'[i].address = requests[i].address /\ requests'[i].network = requests[i].network
      /\ \/ requests'[i].stage = "lost"
         \/ requests[i].stage = "sent" /\ requests'[i].stage = "refused"
  <2>1. CASE AnswerIsLost(i)
    BY <2>1, StageMoves DEF AnswerIsLost, Stage, Moves, FormsInv, Shaped
  <2>2. CASE ServerRefuses(i)
    <3>1. PICK ks \in KeysOf(requests[i]) :
            requests' = [requests EXCEPT ![i] = [@ EXCEPT !.stage = "refused", !.keys = ks]]
      BY <2>2 DEF ServerRefuses
    <3> DEFINE r == [requests[i] EXCEPT !.stage = "refused", !.keys = ks]
    <3>0. IsRequest(requests[i])
      BY DEF FormsInv, Shaped, IsPage
    <3>a. IsRequest(r)
      BY <3>0, RequestChange
    <3>2. /\ IsRequest(r) /\ r.stage = "refused" /\ r.action = requests[i].action
          /\ r.symbol = requests[i].symbol /\ r.address = requests[i].address
          /\ r.network = requests[i].network /\ r.keys = ks
      BY <3>0, <3>a DEF IsRequest
    <3>3. requests' = [requests EXCEPT ![i] = r]
      BY <3>1
    <3> HIDE DEF r
    <3> QED BY <2>2, <3>2, <3>3, ChangeRequest DEF ServerRefuses, FormsInv, Shaped
  <2> QED BY <2>1, <2>2
<1>3. Shaped' /\ DetailsInv'
  BY <1>1, <1>2 DEF FormsInv, Shaped, DetailsInv
<1>4. BusyHasCause'
  BY <1>1, <1>2 DEF FormsInv, BusyHasCause, Open
<1>5. ProjectInv'
  BY <1>1, <1>2 DEF FormsInv, ProjectInv, Open
<1>6. SentDetailsMatch'
  BY <1>2 DEF FormsInv, SentDetailsMatch
<1> QED BY <1>3, <1>4, <1>5, <1>6 DEF FormsInv

-----------------------------------------------------------------------------
(* Answers                                                                  *)

\* An answer that reaches the page ends its request or has its body read, and
\* leaves the form disabled only if the page is left or another answer is due.
AnswerEffect(i, s) ==
  /\ Stage(i, s) /\ requests[i].stage \in {"accepted", "refused", "body"}
  /\ UNCHANGED <<kind, contract, server>>
  /\ IsForm(form')
  /\ \/ ~form'.busy
     \/ form'.left
     \/ form'.busy = form.busy /\ form'.left = form.left /\ requests[i].stage = "body"
  /\ \/ form'.errors = form.errors
     \/ /\ requests[i].stage = "refused"
        /\ form'.errors = [f \in Fields |-> IF f \in requests[i].keys THEN <<"server">> ELSE <<>>]
  /\ kind = "project" =>
       /\ s = "done"
       /\ \/ requests[i].stage = "refused" /\ form'.action = form.action
          \/ requests[i].stage = "accepted" /\ (form'.action # "POST" \/ form'.busy = form.busy)

LEMMA AnswerHasEffect ==
  ASSUME IsForm(form), NEW i \in DOMAIN requests, Answer(i)
  PROVE  \E s \in {"body", "done"} : AnswerEffect(i, s)
<1> USE DEF IsForm, AnswerEffect
<1>1. CASE Refused(i)
  BY <1>1 DEF Refused
<1>2. CASE Leaves(i)
  BY <1>2 DEF Leaves
<1>3. ASSUME NEW s \in {"body", "done"}, Enables(i, s), kind # "project"
      PROVE  AnswerEffect(i, s)
  BY <1>3 DEF Enables
<1>4. ASSUME NEW f \in {Updating(requests[i].id), UpdatingOnce(requests[i].id)},
             ReadsBody(i, f), kind # "project"
      PROVE  AnswerEffect(i, "done")
  <2>1. IsForm(f) /\ f.busy = form.busy /\ f.left = form.left /\ f.errors = form.errors
    BY DEF Updating, UpdatingOnce
  <2> QED BY <1>4, <2>1 DEF ReadsBody
<1>5. CASE /\ kind = "project" /\ requests[i].stage = "accepted"
           /\ form' = [UpdatingOnce(requests[i].id) EXCEPT !.busy = FALSE]
           /\ Stage(i, "done") /\ UNCHANGED <<kind, contract, server>>
  <2>1. IsForm(UpdatingOnce(requests[i].id)) /\ UpdatingOnce(requests[i].id).action # "POST"
        /\ UpdatingOnce(requests[i].id).errors = form.errors
    BY DEF Updating, UpdatingOnce
  <2>2. IsForm(form') /\ ~form'.busy /\ form'.errors = form.errors /\ form'.action # "POST"
    BY <1>5, <2>1
  <2> QED BY <1>5, <2>2
<1>6. CASE ProjectAccepted(i)
  BY <1>2, <1>5, <1>6 DEF ProjectAccepted, OnPage
<1>7. CASE TokenAccepted(i) \/ MissionAccepted(i)
  BY <1>2, <1>3, <1>4, <1>7 DEF TokenAccepted, MissionAccepted, OnPage, BodyOfCreation
<1>8. CASE TaskAccepted(i) \/ BatchAccepted(i)
  BY <1>2, <1>3, <1>4, <1>8 DEF TaskAccepted, BatchAccepted, OnPage
<1> QED BY <1>1, <1>6, <1>7, <1>8 DEF Answer

LEMMA AnswerStep == ASSUME FormsInv, NEW i \in DOMAIN requests, Answer(i) PROVE FormsInv'
<1>1. PICK s \in {"body", "done"} : AnswerEffect(i, s)
  BY AnswerHasEffect DEF FormsInv, Shaped
<1>2. IsPage' /\ Moves(i, s)
  BY <1>1, StageMoves DEF FormsInv, Shaped, AnswerEffect
<1> USE <1>1, <1>2 DEF AnswerEffect, Moves
<1>3. ErrorsOf(form'.errors)
  BY DEF FormsInv, Shaped, ErrorsOf
<1>4. Shaped' /\ DetailsInv'
  BY <1>3 DEF FormsInv, Shaped, DetailsInv, ErrorsOf
<1>5. BusyHasCause'
  BY DEF FormsInv, BusyHasCause, Open
<1>6. ProjectInv'
  <2> SUFFICES ASSUME kind = "project" PROVE ProjectInv'
    BY DEF ProjectInv
  <2>1. s = "done" /\ Open(i) /\ form.busy /\ requests[i].action = form.action
        /\ server'.records = server.records
    BY DEF FormsInv, ProjectInv, Open
  <2>2. \A j \in DOMAIN requests : ~Open(j)'
    BY <2>1 DEF FormsInv, ProjectInv, Open
  <2>3. \A j \in DOMAIN requests :
          requests'[j].stage # "body" /\ requests'[j].stage \notin {"sent", "refused"}
    BY <2>1, <2>2 DEF FormsInv, ProjectInv, Open
  <2>4. form'.action = "POST" /\ ~form'.busy => server.records = 0
    BY <2>1 DEF FormsInv, ProjectInv
  <2> QED BY <2>1, <2>2, <2>3, <2>4 DEF FormsInv, ProjectInv
<1>7. SentDetailsMatch'
  BY DEF FormsInv, SentDetailsMatch
<1> QED BY <1>4, <1>5, <1>6, <1>7 DEF FormsInv

-----------------------------------------------------------------------------

LEMMA FormsInit == Init => FormsInv
<1> SUFFICES ASSUME Init PROVE FormsInv
  OBVIOUS
<1>1. PICK k \in FormKinds, new \in BOOLEAN, n \in Networks :
        /\ Opens(k, new)
        /\ \/ contract = NoContract(n)
           \/ \E t \in BOOLEAN : contract = [NoContract(n) EXCEPT !.typed = t]
           \/ \E a \in Addresses :
                contract = [NoContract(n) EXCEPT !.typed = TRUE, !.address = a, !.symbol = <<a, n>>]
  BY DEF Init, OpensProject, OpensToken, OpensMission, OpensTask, OpensBatch, FormKinds
<1>2. requests = <<>> /\ DOMAIN requests = {} /\ IsPage
  BY DEF Init, IsPage
<1>3. IsForm(form) /\ ErrorsOf(form.errors) /\ IsServer(server) /\ kind \in FormKinds
  <2>1. PICK first : form = Blank(k, new, first)
    BY <1>1 DEF Opens
  <2> QED BY <1>1, <2>1 DEF Opens, Blank, IsForm, ErrorsOf, IsServer
<1>4. IsContract(contract) /\ DetailsInv
  <2> USE DEF NoContract, IsContract, DetailsInv
  <2>1. CASE contract = NoContract(n)
    BY <2>1
  <2>2. ASSUME NEW t \in BOOLEAN, contract = [NoContract(n) EXCEPT !.typed = t]
        PROVE  IsContract(contract) /\ DetailsInv
    BY <2>2
  <2>3. ASSUME NEW a \in Addresses,
               contract = [NoContract(n) EXCEPT !.typed = TRUE, !.address = a, !.symbol = <<a, n>>]
        PROVE  IsContract(contract) /\ DetailsInv
    <3>1. contract = [typed |-> TRUE, address |-> a, batch |-> TRUE, network |-> n,
                      symbol |-> <<a, n>>, locked |-> FALSE, lookups |-> {}]
      BY <2>3
    <3> QED BY <3>1
  <2> QED BY <1>1, <2>1, <2>2, <2>3
<1>a. /\ ~form.busy /\ form.errors = [f \in Fields |-> <<>>]
      /\ form.action = "POST" => server.records = 0
      /\ server.records \in {0, 1}
  <2>1. PICK first : form = Blank(k, new, first)
    BY <1>1 DEF Opens
  <2> QED BY <1>1, <2>1 DEF Opens, Blank
<1>5. BusyHasCause /\ SentDetailsMatch
  BY <1>2, <1>a DEF BusyHasCause, SentDetailsMatch
<1>6. ProjectInv
  BY <1>2, <1>a DEF ProjectInv
<1> QED BY <1>2, <1>3, <1>4, <1>5, <1>6 DEF FormsInv, Shaped, ErrorsOf

LEMMA FormsKept == Spec => []FormsInv
<1>1. FormsInv /\ [Next]_vars => FormsInv'
  <2> SUFFICES ASSUME FormsInv, Next \/ UNCHANGED vars PROVE FormsInv'
    OBVIOUS
  <2>1. CASE UserStep
    BY <2>1, FormStep, ContractStep, ChannelStep, SubmitStep DEF UserStep, ChangesForm
  <2>2. CASE Machine
    BY <2>2, ContractStep, ServerAcceptsStep, ServerRefusesStep, AnswerStep DEF Machine
  <2>3. CASE UNCHANGED vars
    BY <2>3 DEF vars, FormsInv, Shaped, IsPage, DetailsInv, BusyHasCause, ProjectInv,
             SentDetailsMatch, Open
  <2> QED BY <2>1, <2>2, <2>3 DEF Next
<1> QED BY <1>1, FormsInit, PTL DEF Spec

\* handleSubmit of all five forms: whatever is clicked, answered and refused in
\* whatever order, a form stays disabled only for an answer that is due or lost.
THEOREM BusyForACause == Spec => []BusyHasCause
<1>1. FormsInv => BusyHasCause
  BY DEF FormsInv
<1> QED BY <1>1, FormsKept, PTL

\* handleSubmit of ProjectForm.jsx: a page creates at most one project,
\* however many requests it sends and whichever answers get lost.
THEOREM OneProjectPerPage == Spec => []OneRecordPerForm
<1>1. FormsInv => OneRecordPerForm
  BY DEF FormsInv, ProjectInv, OneRecordPerForm
<1> QED BY <1>1, FormsKept, PTL

\* fetchSymbolAndDecimals of TokenForm.jsx: a token is never sent with the
\* symbol and decimals of another contract or network than the one it names.
THEOREM DetailsOfContract == Spec => []SentDetailsMatch
<1>1. FormsInv => SentDetailsMatch
  BY DEF FormsInv
<1> QED BY <1>1, FormsKept, PTL

-----------------------------------------------------------------------------
(* Types                                                                    *)

\* The requests that the server has answered, or whose answer got lost: each
\* made at most one record.
Answered == { i \in DOMAIN requests : requests[i].stage # "sent" }

\* With the types, what bounds the records, and what makes a sequence of the
\* rows that an answer lists.
TypeInv ==
  /\ TypeOK
  /\ Len(requests) <= MaxRequests
  /\ server.records <= 1 + Cardinality(Answered)
  /\ IsFiniteSet(server.channels)
  /\ \A i \in DOMAIN requests : IsFiniteSet(requests[i].channels)

LEMMA SplicedErrors ==
  ASSUME NEW s \in Seq(Messages), NEW m
  PROVE  RemoveAt(s, IndexOf(s, m)) \in Seq(Messages)
<1> DEFINE i == IndexOf(s, m)
<1>1. i \in 0..Len(s)
  <2>1. CASE m \in ToSet(s)
    <3>1. \E k \in DOMAIN s : s[k] = m
      BY <2>1 DEF ToSet
    <3>2. i \in DOMAIN s
      BY <2>1, <3>1 DEF IndexOf
    <3> QED BY <3>2
  <2>2. CASE m \notin ToSet(s)
    BY <2>2 DEF IndexOf
  <2> QED BY <2>1, <2>2
<1> HIDE DEF i
<1>2. SubSeq(s, 1, i - 1) \in Seq(Messages)
  BY <1>1
<1>3. SubSeq(s, i + 1, Len(s)) \in Seq(Messages)
  BY <1>1
<1>4. RemoveAt(s, i) \in Seq(Messages)
  BY <1>2, <1>3 DEF RemoveAt
<1> QED BY <1>4 DEF i

Errors == [Fields -> Seq(Messages)]

LEMMA ErrorsTyped ==
  ASSUME NEW e \in Errors, NEW ok, NEW image, NEW f \in {"value", "address", "batch"}
  PROVE  /\ ErrorsOfValue(e, f, ok) \in Errors /\ ErrorsOfFile(e, image) \in Errors
         /\ ThrowsOnValue(e, f, ok) \in Errors /\ FileThenInvalid(e, image) \in Errors
<1>1. f \in Fields /\ "file" \in Fields /\ {"invalid", "size"} \subseteq Messages
  BY DEF Fields, Messages
<1>2. ASSUME NEW d \in Errors, NEW g \in Fields, NEW m \in Messages
      PROVE  ErrorAdd(d, g, m) \in Errors /\ ErrorRemove(d, g, m) \in Errors
  <2>1. d[g] \in Seq(Messages)
    BY DEF Errors
  <2>2. Append(d[g], m) \in Seq(Messages) /\ RemoveAt(d[g], IndexOf(d[g], m)) \in Seq(Messages)
    BY <2>1, SplicedErrors
  <2> QED BY <2>1, <2>2 DEF ErrorAdd, ErrorRemove, Errors
<1>3. ErrorsOfValue(e, f, ok) \in Errors /\ ErrorsOfFile(e, image) \in Errors
  BY <1>1, <1>2 DEF ErrorsOfValue, ErrorsOfFile
<1>4. FileThenInvalid(e, image) \in Errors
  BY <1>1, <1>2, <1>3 DEF FileThenInvalid
<1> QED BY <1>3, <1>4 DEF ThrowsOnValue

\* Steps that leave the requests and the server alone.
LEMMA PageTyped ==
  ASSUME TypeInv, form' \in FormState, contract' \in Contract, rows' \in Seq(Row),
         UNCHANGED <<kind, requests, server>>
  PROVE  TypeInv'
BY DEF TypeInv, TypeOK, Answered

LEMMA FormTyped == ASSUME TypeInv, ChangesForm PROVE TypeInv'
<1>0. /\ form \in FormState /\ form.errors \in Errors
      /\ UNCHANGED <<kind, contract, rows, requests, server>>
      /\ contract \in Contract /\ rows \in Seq(Row)
  BY DEF TypeInv, TypeOK, FormState, Errors, ChangesForm, ChangesProject, ChangesToken,
         ChangesMission, ChangesTask, ChangesBatch, ClosesFileChooser
<1>1. ASSUME NEW v \in BOOLEAN, NEW e \in Errors
      PROVE  [form EXCEPT !.valid = v, !.errors = e] \in FormState
  BY <1>0, <1>1 DEF FormState, Errors
<1>2. ASSUME NEW i \in Images, NEW e \in Errors
      PROVE  [form EXCEPT !.image = i, !.errors = e] \in FormState
  BY <1>0, <1>2 DEF FormState, Errors
<1>3. form' \in FormState
  <2>1. ASSUME NEW oks \in SUBSET BOOLEAN, Edits(oks, ErrorsOfValue) PROVE form' \in FormState
    <3>1. PICK ok \in oks : form' = [form EXCEPT !.valid = ok, !.errors = ErrorsOfValue(@, "value", ok)]
      BY <2>1 DEF Edits
    <3>2. form' = [form EXCEPT !.valid = ok, !.errors = ErrorsOfValue(form.errors, "value", ok)]
      BY <1>0, <3>1 DEF FormState
    <3>3. ErrorsOfValue(form.errors, "value", ok) \in Errors
      BY <1>0, ErrorsTyped
    <3> QED BY <1>1, <3>2, <3>3
  <2>2. CASE Picks(ErrorsOfFile)
    <3>1. PICK i \in {"small", "large"} : form' = [form EXCEPT !.image = i, !.errors = ErrorsOfFile(@, i)]
      BY <2>2 DEF Picks
    <3>2. form' = [form EXCEPT !.image = i, !.errors = ErrorsOfFile(form.errors, i)]
      BY <1>0, <3>1 DEF FormState
    <3>3. ErrorsOfFile(form.errors, i) \in Errors /\ i \in Images
      BY <1>0, ErrorsTyped DEF Images
    <3> QED BY <1>2, <3>2, <3>3
  <2>3. CASE Edits(BOOLEAN, ThrowsOnValue)
    <3>1. PICK ok \in BOOLEAN : form' = [form EXCEPT !.valid = ok, !.errors = form.errors]
      BY <2>3, <1>0 DEF Edits, ThrowsOnValue, FormState
    <3> QED BY <1>0, <1>1, <3>1
  <2>4. CASE Picks(FileThenInvalid)
    <3>1. PICK i \in {"small", "large"} : form' = [form EXCEPT !.image = i, !.errors = FileThenInvalid(@, i)]
      BY <2>4 DEF Picks
    <3>2. form' = [form EXCEPT !.image = i, !.errors = FileThenInvalid(form.errors, i)]
      BY <1>0, <3>1 DEF FormState
    <3>3. FileThenInvalid(form.errors, i) \in Errors /\ i \in Images
      BY <1>0, ErrorsTyped DEF Images
    <3> QED BY <1>2, <3>2, <3>3
  <2>5. CASE ClosesFileChooser
    <3>1. form' = [form EXCEPT !.image = "none", !.errors = form.errors] /\ "none" \in Images
      BY <1>0, <2>5 DEF ClosesFileChooser, FormState, Images
    <3> QED BY <1>0, <1>2, <3>1
  <2> QED BY <2>1, <2>2, <2>3, <2>4, <2>5 DEF ChangesForm, ChangesProject, ChangesToken,
             ChangesMission, ChangesTask, ChangesBatch
<1> QED BY <1>0, <1>3, PageTyped

LEMMA ContractTyped ==
  ASSUME TypeInv,
         \/ \E a \in Addresses \cup {NoAddress, BadAddress} : ChangesAddress(a)
         \/ ChangesBatchAddress \/ (\E n \in Networks : ChangesNetwork(n)) \/ ChangesType
         \/ \E l \in contract.lookups : LookupAnswers(l) \/ LookupIsLost(l)
  PROVE  TypeInv'
<1>0. /\ form \in FormState /\ form.errors \in Errors /\ contract \in Contract /\ rows \in Seq(Row)
  BY DEF TypeInv, TypeOK, FormState, Errors
<1>1. ASSUME NEW c \in Contract PROVE LooksUp(c) \in Contract
  <2>1. /\ c.address # NoAddress => <<c.address, c.network>> \in (Addresses \cup {BadAddress}) \X Networks
        /\ c.lookups \subseteq (Addresses \cup {BadAddress}) \X Networks
    BY DEF Contract
  <2>2. ASSUME NEW ls \in SUBSET ((Addresses \cup {BadAddress}) \X Networks)
        PROVE  [c EXCEPT !.symbol = NoDetails, !.locked = TRUE, !.lookups = ls] \in Contract
    BY <2>2 DEF Contract
  <2>3. c.address # NoAddress =>
          LooksUp(c) = [c EXCEPT !.symbol = NoDetails, !.locked = TRUE,
                                 !.lookups = c.lookups \cup {<<c.address, c.network>>}]
    BY DEF LooksUp, Contract
  <2> QED BY <2>1, <2>2, <2>3 DEF LooksUp
<1>2. ASSUME NEW a \in Addresses \cup {NoAddress, BadAddress}, ChangesAddress(a) PROVE TypeInv'
  <2>1. [contract EXCEPT !.address = a] \in Contract
    BY <1>0 DEF Contract
  <2>2. contract' \in Contract
    BY <1>1, <1>2, <2>1 DEF ChangesAddress
  <2>3. form' = [form EXCEPT !.errors = ErrorsOfValue(form.errors, "address", a \in Addresses)]
    BY <1>0, <1>2 DEF ChangesAddress, FormState
  <2>4. form' \in FormState
    BY <1>0, <2>3, ErrorsTyped DEF FormState, Errors
  <2> QED BY <1>0, <1>2, <2>2, <2>4, PageTyped DEF ChangesAddress
<1>3. ASSUME NEW n \in Networks, ChangesNetwork(n) PROVE TypeInv'
  <2>1. [contract EXCEPT !.network = n] \in Contract
    BY <1>0 DEF Contract
  <2>2. contract' \in Contract
    BY <1>1, <1>3, <2>1 DEF ChangesNetwork
  <2> QED BY <1>0, <1>3, <2>2, PageTyped DEF ChangesNetwork
<1>4. CASE ChangesType
  <2>1. PICK t \in BOOLEAN :
          contract' = [NoContract(contract.network) EXCEPT !.typed = t, !.lookups = contract.lookups]
    BY <1>4 DEF ChangesType
  <2>2. contract' \in Contract
    BY <1>0, <2>1 DEF NoContract, Contract
  <2> QED BY <1>0, <1>4, <2>2, PageTyped DEF ChangesType
<1>5. ASSUME NEW l \in contract.lookups, LookupAnswers(l) \/ LookupIsLost(l) PROVE TypeInv'
  <2>1. /\ contract.lookups \ {l} \subseteq (Addresses \cup {BadAddress}) \X Networks
        /\ contract.symbol \in Details \cup {NoDetails}
    BY <1>0 DEF Contract
  <2>2. contract' \in Contract
    <3>1. CASE LookupAnswers(l)
      <4>1. PICK s \in {NoDetails} \cup ({l} \cap Details) :
              contract' = [contract EXCEPT !.lookups = @ \ {l}, !.locked = FALSE,
                                           !.symbol = IF s = NoDetails THEN @ ELSE s]
        BY <3>1 DEF LookupAnswers
      <4>2. PICK z \in Details \cup {NoDetails} :
              contract' = [contract EXCEPT !.lookups = contract.lookups \ {l}, !.locked = FALSE,
                                           !.symbol = z]
        BY <1>0, <2>1, <4>1 DEF Contract
      <4> QED BY <1>0, <2>1, <4>2 DEF Contract
    <3>2. CASE LookupIsLost(l)
      BY <1>0, <2>1, <3>2 DEF LookupIsLost, Contract
    <3> QED BY <1>5, <3>1, <3>2
  <2> QED BY <1>0, <1>5, <2>2, PageTyped DEF LookupAnswers, LookupIsLost
<1>6. CASE ChangesBatchAddress
  <2>1. PICK ok \in BOOLEAN :
          /\ form' = [form EXCEPT !.errors = ErrorsOfValue(form.errors, "batch", ok)]
          /\ contract' = [contract EXCEPT !.batch = ok]
    BY <1>0, <1>6 DEF ChangesBatchAddress, FormState
  <2>2. contract' \in Contract
    BY <1>0, <2>1 DEF Contract
  <2>3. form' \in FormState
    BY <1>0, <2>1, ErrorsTyped DEF FormState, Errors
  <2> QED BY <1>0, <1>6, <2>2, <2>3, PageTyped DEF ChangesBatchAddress
<1> QED BY <1>2, <1>3, <1>4, <1>5, <1>6

LEMMA ChannelTyped ==
  ASSUME TypeInv, AddsChannel \/ \E i \in DOMAIN rows : DestroysChannel(i)
  PROVE  TypeInv'
<1>0. /\ rows \in Seq(Row) /\ UNCHANGED <<kind, form, contract, requests>>
      /\ server \in [records: 0..MaxRequests+1, channels: SUBSET Nat, made: Nat, added: Nat]
  BY DEF TypeInv, TypeOK, AddsChannel, DestroysChannel
<1>1. rows' \in Seq(Row)
  <2>1. CASE AddsChannel
    <3>1. [id |-> 0, destroy |-> FALSE] \in Row
      BY DEF Row
    <3> QED BY <1>0, <2>1, <3>1 DEF AddsChannel
  <2>2. ASSUME NEW i \in DOMAIN rows, DestroysChannel(i) PROVE rows' \in Seq(Row)
    <3>1. rows[i] \in Row
      BY <1>0
    <3>2. [rows[i] EXCEPT !.destroy = TRUE] \in Row
      BY <3>1 DEF Row
    <3>3. rows' = [rows EXCEPT ![i] = [rows[i] EXCEPT !.destroy = TRUE]]
      BY <1>0, <2>2 DEF DestroysChannel
    <3> QED BY <1>0, <3>2, <3>3
  <2> QED BY <2>1, <2>2
<1>2. /\ server' \in [records: 0..MaxRequests+1, channels: SUBSET Nat, made: Nat, added: Nat]
      /\ server'.records = server.records /\ server'.channels = server.channels
  BY <1>0 DEF AddsChannel, DestroysChannel
<1> QED BY <1>0, <1>1, <1>2 DEF TypeInv, TypeOK, Answered

LEMMA CountTo ==
  ASSUME NEW n \in Nat
  PROVE  IsFiniteSet(1..n) /\ Cardinality(1..n) = n
<1>1. 1 \in Int /\ n \in Int
  OBVIOUS
<1>2. IsFiniteSet(1..n) /\ Cardinality(1..n) = IF 1 > n THEN 0 ELSE n - 1 + 1
  BY <1>1, FS_Interval
<1> QED BY <1>2

LEMMA AnsweredFinite ==
  ASSUME TypeInv
  PROVE  /\ IsFiniteSet(Answered) /\ Cardinality(Answered) \in Nat
         /\ Cardinality(Answered) <= Len(requests)
         /\ Answered \subseteq 1..Len(requests) /\ Len(requests) \in Nat
<1>1. Answered \subseteq 1..Len(requests) /\ Len(requests) \in Nat
  BY DEF TypeInv, TypeOK, Answered
<1>2. IsFiniteSet(1..Len(requests)) /\ Cardinality(1..Len(requests)) = Len(requests)
  BY <1>1, CountTo
<1>3. IsFiniteSet(Answered) /\ Cardinality(Answered) <= Len(requests)
  BY <1>1, <1>2, FS_Subset
<1> QED BY <1>1, <1>3, FS_CardinalityType

\* One request is answered, or gets further after its answer.
LEMMA RequestTyped ==
  ASSUME TypeInv, NEW i \in DOMAIN requests, NEW r \in Request, r.stage # "sent",
         IsFiniteSet(r.channels), requests' = [requests EXCEPT ![i] = r]
  PROVE  /\ requests' \in Seq(Request) /\ Len(requests') <= MaxRequests
         /\ \A j \in DOMAIN requests' : IsFiniteSet(requests'[j].channels)
         /\ Cardinality(Answered)' \in Nat /\ Cardinality(Answered) <= Cardinality(Answered)'
         /\ requests[i].stage = "sent" =>
              /\ Cardinality(Answered)' = Cardinality(Answered) + 1
              /\ Cardinality(Answered) < MaxRequests
<1>0. requests \in Seq(Request)
  BY DEF TypeInv, TypeOK
<1>1. /\ requests' \in Seq(Request) /\ Len(requests') = Len(requests)
      /\ DOMAIN requests' = DOMAIN requests /\ requests'[i] = r
      /\ \A j \in DOMAIN requests : j # i => requests'[j] = requests[j]
  BY <1>0
<1>2. Answered' = Answered \cup {i}
  BY <1>1 DEF Answered
<1>3. /\ IsFiniteSet(Answered) /\ Cardinality(Answered) \in Nat
      /\ Cardinality(Answered) <= Len(requests) /\ Len(requests) \in Nat
  BY AnsweredFinite
<1>4. Cardinality(Answered)' = IF i \in Answered THEN Cardinality(Answered)
                               ELSE Cardinality(Answered) + 1
  BY <1>2, <1>3, FS_AddElement
<1>5. requests[i].stage = "sent" => i \notin Answered
  BY DEF Answered
<1>6. requests[i].stage = "sent" => Cardinality(Answered) < Len(requests)
  <2> SUFFICES ASSUME requests[i].stage = "sent" PROVE Cardinality(Answered) < Len(requests)
    OBVIOUS
  <2>1. Answered \cup {i} \subseteq 1..Len(requests)
    BY <1>0, AnsweredFinite
  <2>2. IsFiniteSet(1..Len(requests)) /\ Cardinality(1..Len(requests)) = Len(requests)
    BY <1>3, CountTo
  <2>3. Cardinality(Answered \cup {i}) <= Len(requests)
    BY <2>1, <2>2, FS_Subset
  <2>4. Cardinality(Answered \cup {i}) = Cardinality(Answered) + 1
    BY <1>3, <1>5, FS_AddElement
  <2> QED BY <1>3, <2>3, <2>4
<1>7. Len(requests) <= MaxRequests /\ MaxRequests \in Nat
  BY FormAssumption DEF TypeInv
<1> QED BY <1>1, <1>3, <1>4, <1>5, <1>6, <1>7 DEF TypeInv

LEMMA SubmitTyped ==
  ASSUME TypeInv, SubmitsProject \/ SubmitsToken \/ SubmitsMission \/ SubmitsTask \/ SubmitsBatch
  PROVE  TypeInv'
<1>0. /\ form \in FormState /\ contract \in Contract /\ rows \in Seq(Row) /\ requests \in Seq(Request)
      /\ MaxRequests \in Nat
  BY FormAssumption DEF TypeInv, TypeOK
<1>1. PICK c \in BOOLEAN, p \in {Payload, [Payload EXCEPT !.network = "omitted"]} : Submits(c, p)
  BY DEF SubmitsProject, SubmitsToken, SubmitsMission, SubmitsTask, SubmitsBatch
<1>2. p \in Request /\ p.stage = "sent" /\ p.channels = {}
  <2>1. PICK n \in Networks \cup {"omitted"} :
          p = [action |-> form.action, record |-> form.record, image |-> form.image,
               address |-> contract.address, symbol |-> contract.symbol, network |-> n,
               rows |-> rows, stage |-> "sent", keys |-> {}, id |-> 0, channels |-> {}]
    <3>1. contract.network \in Networks \cup {"omitted"}
      BY <1>0 DEF Contract
    <3> QED BY <3>1 DEF Payload
  <2>2. /\ form.action \in {"POST", "PUT"} /\ form.record \in 0..MaxRequests+1 /\ form.image \in Images
        /\ contract.address \in Addresses \cup {NoAddress, BadAddress}
        /\ contract.symbol \in Details \cup {NoDetails}
    BY <1>0 DEF FormState, Contract
  <2>3. "sent" \in Stages /\ {} \subseteq Fields /\ 0 \in 0..MaxRequests+1 /\ {} \subseteq Nat
    BY <1>0 DEF Stages
  <2>4. p \in Request
    BY <1>0, <2>1, <2>2, <2>3 DEF Request
  <2> QED BY <2>1, <2>4
<1>3. /\ requests' = Append(requests, p) /\ Len(requests) < MaxRequests
      /\ form' = [form EXCEPT !.busy = TRUE, !.close = c]
      /\ UNCHANGED <<kind, contract, rows, server>>
  BY <1>1 DEF Submits
<1> DEFINE n == Len(requests) + 1
<1>4. /\ requests' \in Seq(Request) /\ Len(requests') <= MaxRequests
      /\ DOMAIN requests' = DOMAIN requests \cup {n} /\ requests'[n] = p
      /\ \A i \in DOMAIN requests : requests'[i] = requests[i]
  BY <1>0, <1>2, <1>3
<1> HIDE DEF n
<1>5. Answered' = Answered
  BY <1>2, <1>4 DEF Answered
<1>6. form' \in FormState
  BY <1>0, <1>3 DEF FormState
<1>7. \A i \in DOMAIN requests' : IsFiniteSet(requests'[i].channels)
  BY <1>2, <1>4, FS_EmptySet DEF TypeInv
<1> QED BY <1>0, <1>3, <1>4, <1>5, <1>6, <1>7 DEF TypeInv, TypeOK

\* What a save makes: so many new ids, after all those that were made before.
LEMMA ChannelsMade ==
  ASSUME NEW made \in Nat, NEW n \in Nat
  PROVE  LET ids == { 1 + made + k : k \in 1..n }
         IN  ids \subseteq Nat \ {0} /\ IsFiniteSet(ids)
<1> DEFINE ids == { 1 + made + k : k \in 1..n }
<1>1. ids \subseteq 1..(1 + made + n)
  OBVIOUS
<1>2. 1 + made + n \in Nat
  OBVIOUS
<1>3. IsFiniteSet(1..(1 + made + n))
  BY <1>2, CountTo
<1>4. IsFiniteSet(ids)
  BY <1>1, <1>3, FS_Subset
<1> QED BY <1>1, <1>4

\* The rows that are new, and the ids that are named, in rows on their way.
Fresh(rs) == { i \in DOMAIN rs : rs[i].id = 0 /\ ~rs[i].destroy }
Ids(rs) == { rs[i].id : i \in DOMAIN rs }

LEMMA FreshFinite ==
  ASSUME NEW rs \in Seq(Row)
  PROVE  IsFiniteSet(Fresh(rs)) /\ Cardinality(Fresh(rs)) \in Nat
<1>1. Fresh(rs) \subseteq 1..Len(rs) /\ Len(rs) \in Nat
  BY DEF Fresh
<1>2. IsFiniteSet(1..Len(rs))
  BY <1>1, CountTo
<1>3. IsFiniteSet(Fresh(rs))
  BY <1>1, <1>2, FS_Subset
<1> QED BY <1>3, FS_CardinalityType

\* What a success of the server changes.
LEMMA AcceptEffect ==
  ASSUME TypeInv, NEW i \in DOMAIN requests, ServerAccepts(i)
  PROVE  \E id \in 0..MaxRequests+1, channels \in SUBSET Nat :
           /\ IsFiniteSet(channels)
           /\ 0 \notin server.channels => 0 \notin channels
           /\ requests[i].stage = "sent"
           /\ requests' = [requests EXCEPT ![i] =
                [requests[i] EXCEPT !.stage = "accepted", !.id = id, !.channels = channels]]
           /\ server' = [records |-> IF requests[i].action = "POST" THEN id ELSE server.records,
                         channels |-> channels,
                         made |-> server.made + Cardinality(Fresh(requests[i].rows)),
                         added |-> server.added]
           /\ requests[i].action = "POST" => id = server.records + 1
           /\ Cardinality(Fresh(requests[i].rows)) = 0 =>
                channels \subseteq server.channels
           /\ UNCHANGED <<kind, form, contract, rows>>
<1> DEFINE r == requests[i]
           n == NewRows(r)
           id == IF r.action = "POST" THEN server.records + 1 ELSE r.record
           made == { 1 + server.made + k : k \in 1..n }
           channels == IF r.action = "POST" THEN made ELSE (server.channels \ Destroyed(r)) \cup made
<1>0. /\ r \in Request /\ r.rows \in Seq(Row) /\ r.record \in 0..MaxRequests+1
      /\ server \in [records: 0..MaxRequests+1, channels: SUBSET Nat, made: Nat, added: Nat]
      /\ MaxRequests \in Nat
  <2>1. r \in Request /\ MaxRequests \in Nat
        /\ server \in [records: 0..MaxRequests+1, channels: SUBSET Nat, made: Nat, added: Nat]
    BY FormAssumption DEF TypeInv, TypeOK
  <2> QED BY <2>1 DEF Request
<1>1. n = Cardinality(Fresh(r.rows)) /\ n \in Nat
  BY <1>0, FreshFinite DEF NewRows, Fresh
<1>2. /\ r.stage = "sent"
      /\ server' = [server EXCEPT !.records = IF r.action = "POST" THEN id ELSE @,
                                  !.channels = channels, !.made = @ + n]
      /\ requests' = [requests EXCEPT ![i] = [@ EXCEPT !.stage = "accepted", !.id = id,
                                                       !.channels = channels]]
      /\ UNCHANGED <<kind, form, contract, rows>>
  BY DEF ServerAccepts
<1>3. made \subseteq Nat \ {0} /\ IsFiniteSet(made) /\ (n = 0 => made = {})
  <2>1. server.made \in Nat
    BY <1>0
  <2> HIDE DEF n
  <2>2. made \subseteq Nat \ {0} /\ IsFiniteSet(made)
    BY <1>1, <2>1, ChannelsMade
  <2>3. n = 0 => made = {}
    OBVIOUS
  <2> QED BY <2>2, <2>3
<1> HIDE DEF made, n
<1>4. IsFiniteSet(server.channels \ Destroyed(r))
  BY FS_Difference DEF TypeInv
<1>5. /\ channels \in SUBSET Nat /\ IsFiniteSet(channels)
      /\ 0 \notin server.channels => 0 \notin channels
      /\ n = 0 => channels \subseteq server.channels
  BY <1>0, <1>3, <1>4, FS_Union
<1> HIDE DEF channels
<1>6. id \in 0..MaxRequests+1
  <2>1. CASE r.action = "POST"
    <3>1. Cardinality(Answered) \in Nat /\ Cardinality(Answered) < MaxRequests
      <4>1. i \notin Answered /\ Answered \cup {i} \subseteq 1..Len(requests)
        BY <1>0, <1>2, AnsweredFinite DEF Answered, TypeInv, TypeOK
      <4>2. /\ IsFiniteSet(1..Len(requests)) /\ Cardinality(1..Len(requests)) = Len(requests)
            /\ Len(requests) \in Nat
        BY AnsweredFinite, CountTo
      <4>3. Cardinality(Answered \cup {i}) <= Len(requests)
        BY <4>1, <4>2, FS_Subset
      <4>4. Cardinality(Answered \cup {i}) = Cardinality(Answered) + 1
        BY <4>1, AnsweredFinite, FS_AddElement
      <4> QED BY <1>0, <4>2, <4>3, <4>4, AnsweredFinite DEF TypeInv
    <3> QED BY <1>0, <2>1, <3>1 DEF TypeInv
  <2>2. CASE r.action # "POST"
    BY <1>0, <2>2
  <2> QED BY <2>1, <2>2
<1> HIDE DEF id
<1>7. server' = [records |-> IF r.action = "POST" THEN id ELSE server.records,
                 channels |-> channels, made |-> server.made + n, added |-> server.added]
  BY <1>0, <1>2
<1>8. r.action = "POST" => id = server.records + 1
  BY DEF id
<1> QED BY <1>1, <1>2, <1>5, <1>6, <1>7, <1>8

LEMMA AcceptTyped ==
  ASSUME TypeInv, NEW i \in DOMAIN requests, ServerAccepts(i)
  PROVE  TypeInv'
<1>1. PICK id \in 0..MaxRequests+1, channels \in SUBSET Nat :
        /\ IsFiniteSet(channels)
        /\ requests[i].stage = "sent"
        /\ requests' = [requests EXCEPT ![i] =
             [requests[i] EXCEPT !.stage = "accepted", !.id = id, !.channels = channels]]
        /\ server' = [records |-> IF requests[i].action = "POST" THEN id ELSE server.records,
                      channels |-> channels,
                      made |-> server.made + Cardinality(Fresh(requests[i].rows)),
                      added |-> server.added]
        /\ requests[i].action = "POST" => id = server.records + 1
        /\ UNCHANGED <<kind, form, contract, rows>>
  BY AcceptEffect
<1> DEFINE r == [requests[i] EXCEPT !.stage = "accepted", !.id = id, !.channels = channels]
<1>2. /\ requests[i] \in Request /\ MaxRequests \in Nat
      /\ server \in [records: 0..MaxRequests+1, channels: SUBSET Nat, made: Nat, added: Nat]
  BY FormAssumption DEF TypeInv, TypeOK
<1>3. r \in Request /\ r.stage # "sent" /\ r.channels = channels
  <2>1. "accepted" \in Stages
    BY DEF Stages
  <2> QED BY <1>2, <2>1 DEF Request
<1> HIDE DEF r
<1>4. /\ requests' \in Seq(Request) /\ Len(requests') <= MaxRequests
      /\ \A j \in DOMAIN requests' : IsFiniteSet(requests'[j].channels)
      /\ Cardinality(Answered)' = Cardinality(Answered) + 1
  BY <1>1, <1>3, RequestTyped DEF r
<1>5. Cardinality(Fresh(requests[i].rows)) \in Nat
  BY <1>2, FreshFinite DEF Request
<1> DEFINE n == Cardinality(Fresh(requests[i].rows))
<1> HIDE DEF n
<1>6. /\ server' \in [records: 0..MaxRequests+1, channels: SUBSET Nat, made: Nat, added: Nat]
      /\ server'.channels = channels
      /\ server'.records <= server.records + 1
  <2>1. server.made + n \in Nat
    BY <1>2, <1>5 DEF n
  <2> QED BY <1>1, <1>2, <2>1 DEF n
<1>7. server'.records <= 1 + Cardinality(Answered)'
  <2>1. Cardinality(Answered) \in Nat /\ server.records <= 1 + Cardinality(Answered)
    BY AnsweredFinite DEF TypeInv
  <2> QED BY <1>2, <1>4, <1>6, <2>1
<1> QED BY <1>1, <1>4, <1>6, <1>7 DEF TypeInv, TypeOK

\* Steps that take a request further, and perhaps the page.
LEMMA MovesTyped ==
  ASSUME TypeInv, NEW i \in DOMAIN requests, NEW s \in Stages \ {"sent"}, NEW ks \in SUBSET Fields,
         requests' = [requests EXCEPT ![i] = [requests[i] EXCEPT !.stage = s, !.keys = ks]],
         form' \in FormState, rows' \in Seq(Row), UNCHANGED <<kind, contract, server>>
  PROVE  TypeInv'
<1> DEFINE r == [requests[i] EXCEPT !.stage = s, !.keys = ks]
<1>1. requests[i] \in Request
  BY DEF TypeInv, TypeOK
<1>2. r \in Request /\ r.stage # "sent" /\ r.channels = requests[i].channels
  BY <1>1 DEF Request
<1> HIDE DEF r
<1>3. IsFiniteSet(r.channels)
  BY <1>2 DEF TypeInv
<1>4. /\ requests' \in Seq(Request) /\ Len(requests') <= MaxRequests
      /\ \A j \in DOMAIN requests' : IsFiniteSet(requests'[j].channels)
      /\ Cardinality(Answered)' \in Nat /\ Cardinality(Answered) <= Cardinality(Answered)'
  BY <1>2, <1>3, RequestTyped DEF r
<1>5. server'.records <= 1 + Cardinality(Answered)'
  <2>1. /\ Cardinality(Answered) \in Nat /\ server.records <= 1 + Cardinality(Answered)
        /\ server.records \in Nat
    BY AnsweredFinite, FormAssumption DEF TypeInv, TypeOK
  <2> QED BY <1>4, <2>1
<1> QED BY <1>4, <1>5 DEF TypeInv, TypeOK

LEMMA StageTyped ==
  ASSUME TypeInv, NEW i \in DOMAIN requests, NEW s \in Stages \ {"sent"}, Stage(i, s),
         form' \in FormState, rows' \in Seq(Row), UNCHANGED <<kind, contract, server>>
  PROVE  TypeInv'
<1>1. requests[i] \in Request
  BY DEF TypeInv, TypeOK
<1>2. [requests[i] EXCEPT !.stage = s] = [requests[i] EXCEPT !.stage = s, !.keys = requests[i].keys]
      /\ requests[i].keys \in SUBSET Fields
  BY <1>1 DEF Request
<1>3. requests' = [requests EXCEPT ![i] = [requests[i] EXCEPT !.stage = s, !.keys = requests[i].keys]]
  BY <1>2 DEF Stage
<1> QED BY <1>2, <1>3, MovesTyped

LEMMA RefuseTyped ==
  ASSUME TypeInv, NEW i \in DOMAIN requests, ServerRefuses(i) \/ AnswerIsLost(i)
  PROVE  TypeInv'
<1>0. UNCHANGED <<kind, form, contract, rows, server>> /\ form' \in FormState /\ rows' \in Seq(Row)
      /\ {"refused", "lost"} \subseteq Stages \ {"sent"}
  BY DEF ServerRefuses, AnswerIsLost, TypeInv, TypeOK, Stages
<1>1. CASE ServerRefuses(i)
  <2>1. PICK ks \in KeysOf(requests[i]) :
          requests' = [requests EXCEPT ![i] = [@ EXCEPT !.stage = "refused", !.keys = ks]]
    BY <1>1 DEF ServerRefuses
  <2>2. ks \subseteq Fields
    <3>1. kind \in FormKinds
      BY FormAssumption DEF TypeInv, TypeOK
    <3>2. KeysOf(requests[i]) \in
            {KeysOfLetters, KeysOfToken(requests[i]), KeysBeyondInputs, KeysOfAttributes}
      BY <3>1 DEF KeysOf, FormKinds
    <3> QED BY <2>1, <3>2 DEF KeysOfLetters, KeysOfToken, KeysBeyondInputs, KeysOfAttributes, Fields
  <2> QED BY <1>0, <2>1, <2>2, MovesTyped
<1>2. CASE AnswerIsLost(i)
  BY <1>0, <1>2, StageTyped DEF AnswerIsLost, Stage
<1> QED BY <1>1, <1>2

\* The rows that an answer lists are rows, and are the server's.
LEMMA RowsListed ==
  ASSUME NEW channels \in SUBSET Nat, IsFiniteSet(channels), NEW rs \in RowsOf(channels)
  PROVE  /\ rs \in Seq(Row) /\ Ids(rs) \subseteq channels
         /\ 0 \notin channels => Fresh(rs) = {}
<1> DEFINE n == Cardinality(channels)
<1>1. n \in Nat
  BY FS_CardinalityType
<1>2. rs \in [1..n -> [id: channels, destroy: {FALSE}]]
  BY DEF RowsOf
<1> HIDE DEF n
<1>3. \A i \in 1..n : rs[i] \in Row /\ rs[i].id \in channels
  BY <1>2 DEF Row
<1>4. DOMAIN rs = 1..n /\ rs \in [1..n -> Row]
  BY <1>2, <1>3
<1>5. rs \in Seq(Row)
  BY <1>1, <1>4
<1> QED BY <1>3, <1>4, <1>5 DEF Ids, Fresh

LEMMA AnswerTyped ==
  ASSUME TypeInv, NEW i \in DOMAIN requests, Answer(i)
  PROVE  TypeInv'
<1>0. /\ form \in FormState /\ rows \in Seq(Row) /\ requests[i] \in Request
      /\ requests[i].keys \subseteq Fields /\ requests[i].id \in 0..MaxRequests+1
      /\ {"body", "done"} \subseteq Stages \ {"sent"}
  <2>1. form \in FormState /\ rows \in Seq(Row) /\ requests[i] \in Request
    BY DEF TypeInv, TypeOK
  <2> QED BY <2>1 DEF Request, Stages
<1>1. /\ Updating(requests[i].id) \in FormState
      /\ UpdatingOnce(requests[i].id) \in FormState
  BY <1>0 DEF Updating, UpdatingOnce, FormState
<1>2. CASE Refused(i)
  <2> DEFINE e == [f \in Fields |-> IF f \in requests[i].keys THEN <<"server">> ELSE <<>>]
  <2>1. e \in Errors
    <3>1. <<"server">> \in Seq(Messages) /\ <<>> \in Seq(Messages)
      BY DEF Messages
    <3> QED BY <3>1 DEF Errors
  <2>2. form' = [form EXCEPT !.busy = FALSE, !.errors = e]
    BY <1>2 DEF Refused
  <2> HIDE DEF e
  <2>3. form' \in FormState
    BY <1>0, <2>1, <2>2 DEF FormState, Errors
  <2> QED BY <1>0, <1>2, <2>3, StageTyped DEF Refused
<1>3. CASE Leaves(i)
  <2>1. form' \in FormState
    BY <1>0, <1>3 DEF Leaves, FormState
  <2> QED BY <1>0, <1>3, <2>1, StageTyped DEF Leaves
<1>4. ASSUME NEW s \in {"body", "done"}, Enables(i, s) PROVE TypeInv'
  <2>1. form' \in FormState
    BY <1>0, <1>4 DEF Enables, FormState
  <2> QED BY <1>0, <1>4, <2>1, StageTyped DEF Enables
<1>5. ASSUME NEW f \in FormState, ReadsBody(i, f) PROVE TypeInv'
  BY <1>0, <1>5, StageTyped DEF ReadsBody
<1>6. CASE ProjectAccepted(i)
  <2> SUFFICES ASSUME form' = [UpdatingOnce(requests[i].id) EXCEPT !.busy = FALSE],
                      rows' \in RowsOf(requests[i].channels), Stage(i, "done"),
                      UNCHANGED <<kind, contract, server>>
               PROVE  TypeInv'
    BY <1>3, <1>6 DEF ProjectAccepted
  <2>1. form' \in FormState
    BY <1>1 DEF FormState
  <2>2. rows' \in Seq(Row)
    BY <1>0, RowsListed DEF TypeInv, Request
  <2> QED BY <1>0, <2>1, <2>2, StageTyped
<1>7. CASE TokenAccepted(i) \/ MissionAccepted(i)
  BY <1>1, <1>3, <1>4, <1>5, <1>7 DEF TokenAccepted, MissionAccepted, BodyOfCreation
<1>8. CASE TaskAccepted(i) \/ BatchAccepted(i)
  BY <1>1, <1>3, <1>4, <1>5, <1>8 DEF TaskAccepted, BatchAccepted
<1> QED BY <1>2, <1>6, <1>7, <1>8 DEF Answer

LEMMA TypesInitially == Init => TypeInv
<1> SUFFICES ASSUME Init PROVE TypeInv
  OBVIOUS
<1>0. MaxRequests \in Nat
  BY FormAssumption
<1>1. PICK k \in FormKinds, new \in BOOLEAN, n \in Networks :
        /\ Opens(k, new)
        /\ \/ contract = NoContract(n)
           \/ \E t \in BOOLEAN : contract = [NoContract(n) EXCEPT !.typed = t]
           \/ \E a \in Addresses :
                contract = [NoContract(n) EXCEPT !.typed = TRUE, !.address = a, !.symbol = <<a, n>>]
        /\ rows \in {<<>>, << [id |-> 1, destroy |-> FALSE] >>}
  BY DEF Init, OpensProject, OpensToken, OpensMission, OpensTask, OpensBatch, FormKinds
<1>2. rows \in Seq(Row)
  <2> DEFINE row == [id |-> 1, destroy |-> FALSE]
  <2>1. row \in Row /\ rows \in {<<>>, <<row>>}
    BY <1>1 DEF Row
  <2> HIDE DEF row
  <2>2. <<>> \in Seq(Row) /\ <<row>> \in Seq(Row)
    BY <2>1
  <2> QED BY <2>1, <2>2
<1>3. contract \in Contract
  <2> USE DEF NoContract, Contract, Details
  <2>1. CASE contract = NoContract(n)
    BY <2>1
  <2>2. ASSUME NEW t \in BOOLEAN, contract = [NoContract(n) EXCEPT !.typed = t]
        PROVE  contract \in Contract
    BY <2>2
  <2>3. ASSUME NEW a \in Addresses,
               contract = [NoContract(n) EXCEPT !.typed = TRUE, !.address = a, !.symbol = <<a, n>>]
        PROVE  contract \in Contract
    <3>1. contract = [typed |-> TRUE, address |-> a, batch |-> TRUE, network |-> n,
                      symbol |-> <<a, n>>, locked |-> FALSE, lookups |-> {}]
      BY <2>3
    <3> QED BY <3>1
  <2> QED BY <1>1, <2>1, <2>2, <2>3
<1>4. form \in FormState
  <2> DEFINE e == [f \in Fields |-> <<>>]
  <2>1. e \in [Fields -> Seq(Messages)]
    OBVIOUS
  <2> HIDE DEF e
  <2>2. PICK v \in BOOLEAN, a \in {"POST", "PUT"}, r \in {0, 1}, i \in Images :
          form = [action |-> a, record |-> r, valid |-> v, image |-> i, errors |-> e,
                  busy |-> FALSE, close |-> FALSE, left |-> FALSE]
    <3>1. PICK first \in FirstImages(k, new) : form = Blank(k, new, first)
      BY <1>1 DEF Opens
    <3>2. first \in Images
      BY DEF FirstImages, Images
    <3>3. form = [action |-> IF new THEN "POST" ELSE "PUT", record |-> IF new THEN 0 ELSE 1,
                  valid |-> ~new \/ k = "token", image |-> first, errors |-> e,
                  busy |-> FALSE, close |-> FALSE, left |-> FALSE]
      BY <3>1 DEF Blank, e
    <3>4. (~new \/ k = "token") \in BOOLEAN
      OBVIOUS
    <3> QED BY <3>2, <3>3, <3>4
  <2>3. r \in 0..MaxRequests+1
    BY <1>0
  <2> QED BY <2>1, <2>2, <2>3 DEF FormState, Images
<1>5. /\ server \in [records: 0..MaxRequests+1, channels: SUBSET Nat, made: Nat, added: Nat]
      /\ server.records <= 1 /\ server.channels \in {{}, {1}}
  <2>1. PICK n1 \in {0, 1}, cs \in {{}, {1}} :
          server = [records |-> n1, made |-> 0, added |-> 0, channels |-> cs]
    BY <1>1 DEF Opens
  <2>2. n1 \in 0..MaxRequests+1 /\ cs \in SUBSET Nat
    BY <1>0
  <2> QED BY <2>1, <2>2
<1>6. IsFiniteSet(server.channels)
  <2>1. IsFiniteSet({}) /\ IsFiniteSet({1})
    BY FS_EmptySet, FS_Singleton
  <2> QED BY <1>5, <2>1
<1>7. requests = <<>> /\ kind \in Kinds /\ Len(requests) = 0 /\ DOMAIN requests = {}
  BY DEF Init
<1>8. Answered = {} /\ Cardinality(Answered) = 0
  BY <1>7, FS_EmptySet DEF Answered
<1>9. TypeOK
  BY <1>2, <1>3, <1>4, <1>5, <1>7 DEF TypeOK
<1> QED BY <1>0, <1>5, <1>6, <1>7, <1>8, <1>9 DEF TypeInv

LEMMA TypesKept == Spec => []TypeInv
<1>1. TypeInv /\ [Next]_vars => TypeInv'
  <2> SUFFICES ASSUME TypeInv, Next \/ UNCHANGED vars PROVE TypeInv'
    OBVIOUS
  <2>1. CASE UserStep
    BY <2>1, FormTyped, ContractTyped, ChannelTyped, SubmitTyped DEF UserStep, ChangesForm
  <2>2. CASE Machine
    BY <2>2, ContractTyped, AcceptTyped, RefuseTyped, AnswerTyped DEF Machine
  <2>3. CASE UNCHANGED vars
    BY <2>3 DEF vars, TypeInv, TypeOK, Answered
  <2> QED BY <2>1, <2>2, <2>3 DEF Next
<1> QED BY <1>1, TypesInitially, PTL DEF Spec

\* The five forms and their server: every field keeps its range, the errors
\* are lists of messages at fields of the page, and no more records are made
\* than requests were sent.
THEOREM FormsTyped == Spec => []TypeOK
<1>1. TypeInv => TypeOK
  BY DEF TypeInv
<1> QED BY <1>1, TypesKept, PTL

-----------------------------------------------------------------------------
(* The channels                                                             *)

\* The rows of a project page are what its next save may rely on: nothing is
\* due, or the request that is due has not been granted.
InForce == \/ ~form.busy
           \/ \E i \in DOMAIN requests : requests[i].stage \in {"sent", "refused"}

\* As many channels may still be made as there are rows on the page, or in the
\* request on its way, that the server has not seen; the other rows are of
\* channels the project has. While a save is granted and its answer is on its
\* way the rows of the page are stale, and those of the answer count.
ChannelsInv ==
  /\ kind # "project" => rows = <<>> /\ \A i \in DOMAIN requests : requests[i].rows = <<>>
  /\ 0 \notin server.channels
  /\ server.made <= server.added
  /\ kind = "project" =>
       /\ \A i \in DOMAIN requests :
            /\ requests[i].stage = "sent" =>
                 /\ server.made + Cardinality(Fresh(requests[i].rows)) <= server.added
                 /\ Ids(requests[i].rows) \subseteq server.channels \cup {0}
            /\ requests[i].stage = "accepted" => requests[i].channels = server.channels
       /\ InForce /\ ~form.left =>
            /\ server.made + Cardinality(Fresh(rows)) <= server.added
            /\ Ids(rows) \subseteq server.channels \cup {0}

\* Changes of other fields.
LEMMA OtherFields ==
  ASSUME ChannelsInv, UNCHANGED <<kind, rows, requests, server>>,
         form'.busy = form.busy, form'.left = form.left
  PROVE  ChannelsInv'
BY DEF ChannelsInv, InForce

LEMMA OtherFieldsStep ==
  ASSUME FormsInv, ChannelsInv,
         \/ ChangesForm
         \/ \E a \in Addresses \cup {NoAddress, BadAddress} : ChangesAddress(a)
         \/ ChangesBatchAddress \/ (\E n \in Networks : ChangesNetwork(n)) \/ ChangesType
         \/ \E l \in contract.lookups : LookupAnswers(l) \/ LookupIsLost(l)
  PROVE  ChannelsInv'
<1>0. IsForm(form) /\ Shaped
  BY DEF FormsInv, Shaped
<1>1. CASE ChangesForm
  <2>1. Kept /\ UNCHANGED <<rows, server>>
    BY <1>0, <1>1, FormKept DEF ChangesForm, ChangesProject, ChangesToken, ChangesMission,
       ChangesTask, ChangesBatch, ClosesFileChooser
  <2> QED BY <2>1, OtherFields DEF Kept
<1>2. ASSUME NEW a, ChangesAddress(a) \/ ChangesBatchAddress PROVE ChannelsInv'
  <2>1. /\ UNCHANGED <<kind, rows, requests, server>>
        /\ \E e : form' = [form EXCEPT !.errors = e]
    BY <1>0, <1>2 DEF ChangesAddress, ChangesBatchAddress, IsForm
  <2>2. form'.busy = form.busy /\ form'.left = form.left
    BY <1>0, <2>1 DEF IsForm
  <2> QED BY <2>1, <2>2, OtherFields
<1>3. CASE \/ (\E n \in Networks : ChangesNetwork(n)) \/ ChangesType
           \/ \E l \in contract.lookups : LookupAnswers(l) \/ LookupIsLost(l)
  <2>1. UNCHANGED <<kind, form, rows, requests, server>>
    BY <1>3 DEF ChangesNetwork, ChangesType, LookupAnswers, LookupIsLost
  <2> QED BY <2>1, OtherFields
<1> QED BY <1>1, <1>2, <1>3

LEMMA RowsStep ==
  ASSUME TypeInv, ChannelsInv, AddsChannel \/ \E i \in DOMAIN rows : DestroysChannel(i)
  PROVE  ChannelsInv'
<1>0. /\ rows \in Seq(Row) /\ UNCHANGED <<kind, form, contract, requests>> /\ kind = "project"
      /\ server \in [records: 0..MaxRequests+1, channels: SUBSET Nat, made: Nat, added: Nat]
      /\ IsFiniteSet(Fresh(rows)) /\ Cardinality(Fresh(rows)) \in Nat
  BY FreshFinite DEF TypeInv, TypeOK, AddsChannel, DestroysChannel, OnPage
<1>1. \A i \in DOMAIN requests : Cardinality(Fresh(requests[i].rows)) \in Nat
  <2> SUFFICES ASSUME NEW i \in DOMAIN requests PROVE Cardinality(Fresh(requests[i].rows)) \in Nat
    OBVIOUS
  <2>1. requests[i] \in Request
    BY DEF TypeInv, TypeOK
  <2> QED BY <2>1, FreshFinite DEF Request
<1>2. CASE AddsChannel
  <2> DEFINE row == [id |-> 0, destroy |-> FALSE]
             n == Len(rows) + 1
  <2>1. row \in Row /\ row.id = 0 /\ ~row.destroy /\ rows' = Append(rows, row)
    BY <1>2 DEF AddsChannel, Row
  <2> HIDE DEF row
  <2>2. /\ DOMAIN rows' = DOMAIN rows \cup {n} /\ rows'[n] = row
        /\ \A i \in DOMAIN rows : rows'[i] = rows[i]
    BY <1>0, <2>1
  <2> HIDE DEF n
  <2>3. Fresh(rows') \subseteq Fresh(rows) \cup {n} /\ Ids(rows') \subseteq Ids(rows) \cup {0}
    BY <2>1, <2>2 DEF Fresh, Ids
  <2>4. /\ IsFiniteSet(Fresh(rows) \cup {n})
        /\ Cardinality(Fresh(rows) \cup {n}) <= Cardinality(Fresh(rows)) + 1
        /\ Cardinality(Fresh(rows) \cup {n}) \in Nat
    <3> DEFINE S == Fresh(rows)
    <3>1. IsFiniteSet(S) /\ Cardinality(S) \in Nat
      BY <1>0
    <3> HIDE DEF S
    <3>2. /\ IsFiniteSet(S \cup {n})
          /\ Cardinality(S \cup {n}) = IF n \in S THEN Cardinality(S) ELSE Cardinality(S) + 1
      BY <3>1, FS_AddElement
    <3>3. IsFiniteSet(S \cup {n}) /\ Cardinality(S \cup {n}) <= Cardinality(S) + 1
          /\ Cardinality(S \cup {n}) \in Nat
      BY <3>1, <3>2
    <3> QED BY <3>3 DEF S
  <2>5. Cardinality(Fresh(rows')) <= Cardinality(Fresh(rows) \cup {n})
        /\ Cardinality(Fresh(rows')) \in Nat
    BY <2>3, <2>4, FS_Subset, FS_CardinalityType
  <2>6. /\ server'.made = server.made /\ server'.added = server.added + 1
        /\ server'.channels = server.channels /\ server.made \in Nat /\ server.added \in Nat
    BY <1>0, <1>2 DEF AddsChannel
  <2>7. InForce' <=> InForce
    BY <1>0 DEF InForce
  <2>8. server.made <= server.added =>
          server'.made <= server'.added
    BY <2>6
  <2>9. \A k \in Nat : server.made + k <= server.added =>
          server'.made + k <= server'.added /\ server'.made + (k + 1) <= server'.added
    BY <2>6
  <2>10. server.made + Cardinality(Fresh(rows)) <= server.added =>
           server'.made + Cardinality(Fresh(rows')) <= server'.added
    BY <1>0, <2>4, <2>5, <2>6
  <2> HIDE DEF Fresh, Ids
  <2> QED BY <1>0, <1>1, <2>3, <2>6, <2>7, <2>8, <2>9, <2>10 DEF ChannelsInv
<1>3. ASSUME NEW i \in DOMAIN rows, DestroysChannel(i) PROVE ChannelsInv'
  <2> DEFINE row == [rows[i] EXCEPT !.destroy = TRUE]
  <2>1. rows[i] \in Row /\ rows' = [rows EXCEPT ![i] = row] /\ server' = server
    BY <1>0, <1>3 DEF DestroysChannel
  <2>2. row.id = rows[i].id /\ row.destroy
    BY <2>1 DEF Row
  <2> HIDE DEF row
  <2>3. Fresh(rows') \subseteq Fresh(rows) /\ Ids(rows') \subseteq Ids(rows)
    BY <1>0, <2>1, <2>2 DEF Fresh, Ids
  <2>4. Cardinality(Fresh(rows')) <= Cardinality(Fresh(rows)) /\ Cardinality(Fresh(rows')) \in Nat
    BY <1>0, <2>3, FS_Subset, FS_CardinalityType
  <2>5. InForce' <=> InForce
    BY <1>0 DEF InForce
  <2>6. server.made \in Nat /\ server.added \in Nat
    BY <1>0
  <2>7. server.made + Cardinality(Fresh(rows)) <= server.added =>
          server.made + Cardinality(Fresh(rows')) <= server.added
    BY <1>0, <2>4, <2>6
  <2> QED BY <1>0, <2>1, <2>3, <2>5, <2>7 DEF ChannelsInv
<1> QED BY <1>2, <1>3

LEMMA SubmitRows ==
  ASSUME TypeInv, ChannelsInv,
         SubmitsProject \/ SubmitsToken \/ SubmitsMission \/ SubmitsTask \/ SubmitsBatch
  PROVE  ChannelsInv'
<1>1. PICK c \in BOOLEAN, p \in {Payload, [Payload EXCEPT !.network = "omitted"]} :
        Submits(c, p) /\ ~form.left
  BY DEF SubmitsProject, SubmitsToken, SubmitsMission, SubmitsTask, SubmitsBatch, OnPage
<1>2. p.rows = rows /\ p.stage = "sent"
  BY DEF Payload
<1>3. /\ requests \in Seq(Request) /\ form \in FormState /\ ~form.busy
      /\ requests' = Append(requests, p) /\ form' = [form EXCEPT !.busy = TRUE, !.close = c]
      /\ UNCHANGED <<kind, contract, rows, server>>
  BY <1>1 DEF Submits, TypeInv, TypeOK
<1> DEFINE n == Len(requests) + 1
<1>4. /\ DOMAIN requests' = DOMAIN requests \cup {n} /\ requests'[n] = p
      /\ \A i \in DOMAIN requests : requests'[i] = requests[i]
  <2>1. requests \in Seq(Request \cup {p})
    BY <1>3
  <2> QED BY <1>3, <2>1
<1> HIDE DEF n
<1>5. form'.left = form.left
  BY <1>3 DEF FormState
<1> QED BY <1>1, <1>2, <1>3, <1>4, <1>5 DEF ChannelsInv, InForce

LEMMA AcceptRows ==
  ASSUME TypeInv, FormsInv, ChannelsInv, NEW i \in DOMAIN requests, ServerAccepts(i)
  PROVE  ChannelsInv'
<1>1. PICK id \in 0..MaxRequests+1, channels \in SUBSET Nat :
        /\ 0 \notin server.channels => 0 \notin channels
        /\ requests[i].stage = "sent"
        /\ requests' = [requests EXCEPT ![i] =
             [requests[i] EXCEPT !.stage = "accepted", !.id = id, !.channels = channels]]
        /\ server' = [records |-> IF requests[i].action = "POST" THEN id ELSE server.records,
                      channels |-> channels,
                      made |-> server.made + Cardinality(Fresh(requests[i].rows)),
                      added |-> server.added]
        /\ UNCHANGED <<kind, form, contract, rows>>
  BY AcceptEffect
<1> DEFINE r == [requests[i] EXCEPT !.stage = "accepted", !.id = id, !.channels = channels]
<1>2. /\ requests \in Seq(Request) /\ requests[i] \in Request
      /\ server \in [records: 0..MaxRequests+1, channels: SUBSET Nat, made: Nat, added: Nat]
  BY DEF TypeInv, TypeOK
<1>3. r.stage = "accepted" /\ r.channels = channels /\ r.rows = requests[i].rows
  BY <1>2 DEF Request
<1> HIDE DEF r
<1>4. /\ DOMAIN requests' = DOMAIN requests /\ requests'[i] = r
      /\ \A j \in DOMAIN requests : j # i => requests'[j] = requests[j]
  BY <1>1, <1>2 DEF r
<1>5. /\ server'.made = server.made + Cardinality(Fresh(requests[i].rows))
      /\ server'.added = server.added /\ server'.channels = channels
  BY <1>1
<1>6. CASE kind = "project"
  <2>1. /\ form.busy
        /\ \A j \in DOMAIN requests : j # i => requests[j].stage \notin {"sent", "accepted", "refused"}
    BY <1>1, <1>6 DEF FormsInv, ProjectInv, Open
  <2>2. ~InForce'
    BY <1>1, <1>3, <1>4, <2>1 DEF InForce
  <2>3. server'.made <= server'.added
    BY <1>1, <1>5, <1>6 DEF ChannelsInv
  <2> QED BY <1>1, <1>3, <1>4, <1>5, <1>6, <2>1, <2>2, <2>3 DEF ChannelsInv
<1>7. CASE kind # "project"
  <2>1. requests[i].rows = <<>>
    BY <1>7 DEF ChannelsInv
  <2>2. Fresh(requests[i].rows) = {}
    BY <2>1 DEF Fresh
  <2>3. Cardinality(Fresh(requests[i].rows)) = 0
    BY <2>2, FS_EmptySet
  <2>4. server'.made = server.made
    BY <1>2, <1>5, <2>3
  <2> QED BY <1>1, <1>3, <1>4, <1>5, <1>7, <2>1, <2>4 DEF ChannelsInv
<1> QED BY <1>6, <1>7

\* A request that gets no grant, or whose answer is heard.
LEMMA EndRows ==
  ASSUME TypeInv, NEW i \in DOMAIN requests, NEW s, NEW ks,
         requests' = [requests EXCEPT ![i] = [requests[i] EXCEPT !.stage = s, !.keys = ks]]
  PROVE  /\ DOMAIN requests' = DOMAIN requests
         /\ requests'[i].stage = s /\ requests'[i].rows = requests[i].rows
         /\ requests'[i].channels = requests[i].channels
         /\ \A j \in DOMAIN requests : j # i => requests'[j] = requests[j]
<1>1. requests \in Seq(Request) /\ requests[i] \in Request
  BY DEF TypeInv, TypeOK
<1> DEFINE r == [requests[i] EXCEPT !.stage = s, !.keys = ks]
<1>2. r.stage = s /\ r.rows = requests[i].rows /\ r.channels = requests[i].channels
  BY <1>1 DEF Request
<1> HIDE DEF r
<1>3. DOMAIN requests' = DOMAIN requests /\ requests'[i] = r
      /\ \A j \in DOMAIN requests : j # i => requests'[j] = requests[j]
  BY <1>1 DEF r
<1> QED BY <1>2, <1>3

LEMMA StageRows ==
  ASSUME TypeInv, NEW i \in DOMAIN requests, NEW s, Stage(i, s)
  PROVE  /\ DOMAIN requests' = DOMAIN requests
         /\ requests'[i].stage = s /\ requests'[i].rows = requests[i].rows
         /\ requests'[i].channels = requests[i].channels
         /\ \A j \in DOMAIN requests : j # i => requests'[j] = requests[j]
<1>1. requests[i] \in Request
  BY DEF TypeInv, TypeOK
<1>2. [requests[i] EXCEPT !.stage = s] = [requests[i] EXCEPT !.stage = s, !.keys = requests[i].keys]
  BY <1>1 DEF Request
<1>3. requests' = [requests EXCEPT ![i] =
        [requests[i] EXCEPT !.stage = s, !.keys = requests[i].keys]]
  BY <1>2 DEF Stage
<1> QED BY <1>3, EndRows

LEMMA RefuseRows ==
  ASSUME TypeInv, ChannelsInv, NEW i \in DOMAIN requests, ServerRefuses(i) \/ AnswerIsLost(i)
  PROVE  ChannelsInv'
<1>0. UNCHANGED <<kind, form, contract, rows, server>>
  BY DEF ServerRefuses, AnswerIsLost
<1>1. /\ DOMAIN requests' = DOMAIN requests
      /\ \/ requests'[i].stage = "lost"
         \/ requests'[i].stage = "refused" /\ requests[i].stage = "sent"
      /\ requests'[i].rows = requests[i].rows
      /\ \A j \in DOMAIN requests : j # i => requests'[j] = requests[j]
  <2>1. CASE ServerRefuses(i)
    <3>1. PICK ks :
            requests' = [requests EXCEPT ![i] = [requests[i] EXCEPT !.stage = "refused", !.keys = ks]]
      BY <2>1 DEF ServerRefuses
    <3>2. requests[i].stage = "sent"
      BY <2>1 DEF ServerRefuses
    <3> QED BY <3>1, <3>2, EndRows
  <2>2. CASE AnswerIsLost(i)
    BY <2>2, StageRows DEF AnswerIsLost, Stage
  <2> QED BY <2>1, <2>2
<1>2. InForce' => InForce
  BY <1>0, <1>1 DEF InForce
<1> QED BY <1>0, <1>1, <1>2 DEF ChannelsInv

LEMMA AnswerRows ==
  ASSUME TypeInv, FormsInv, ChannelsInv, NEW i \in DOMAIN requests, Answer(i)
  PROVE  ChannelsInv'
<1>1. PICK s \in {"body", "done"} : AnswerEffect(i, s)
  BY AnswerHasEffect DEF FormsInv, Shaped
<1>2. /\ DOMAIN requests' = DOMAIN requests
      /\ requests'[i].stage = s /\ requests'[i].rows = requests[i].rows
      /\ \A j \in DOMAIN requests : j # i => requests'[j] = requests[j]
      /\ UNCHANGED <<kind, contract, server>>
  BY <1>1, StageRows DEF AnswerEffect
<1>3. CASE kind # "project"
  <2>1. rows' = rows
    BY <1>3 DEF Answer, Refused, Leaves, Enables, ReadsBody, ProjectAccepted, TokenAccepted,
       MissionAccepted, TaskAccepted, BatchAccepted, OnPage
  <2> QED BY <1>2, <1>3, <2>1 DEF ChannelsInv
<1>4. ASSUME kind = "project",
             form'.left \/ ( /\ server.made + Cardinality(Fresh(rows')) <= server.added
                             /\ Ids(rows') \subseteq server.channels \cup {0} )
      PROVE  ChannelsInv'
  BY <1>1, <1>2, <1>4 DEF ChannelsInv
<1>5. CASE Refused(i) /\ kind = "project"
  <2>1. InForce /\ ~form.left /\ rows' = rows
    BY <1>5 DEF Refused, InForce
  <2> QED BY <1>4, <1>5, <2>1 DEF ChannelsInv
<1>6. CASE Leaves(i) /\ kind = "project"
  <2>1. form'.left
    BY <1>6 DEF Leaves, FormsInv, Shaped, IsForm
  <2> QED BY <1>4, <1>6, <2>1
<1>7. CASE /\ kind = "project" /\ requests[i].stage = "accepted"
           /\ rows' \in RowsOf(requests[i].channels)
  <2>1. requests[i].channels = server.channels /\ 0 \notin server.channels
        /\ server.made <= server.added
    BY <1>7 DEF ChannelsInv
  <2>2. /\ server.channels \in SUBSET Nat /\ IsFiniteSet(server.channels)
        /\ server.made \in Nat /\ server.added \in Nat
    BY DEF TypeInv, TypeOK
  <2>3. Fresh(rows') = {} /\ Ids(rows') \subseteq server.channels
    BY <1>7, <2>1, <2>2, RowsListed
  <2>4. server.made + Cardinality(Fresh(rows')) <= server.added
    BY <2>1, <2>2, <2>3, FS_EmptySet
  <2> QED BY <1>4, <1>7, <2>3, <2>4
<1>8. CASE ProjectAccepted(i)
  BY <1>6, <1>7, <1>8 DEF ProjectAccepted, OnPage
<1>9. kind = "project" => Refused(i) \/ ProjectAccepted(i)
  BY DEF Answer, TokenAccepted, MissionAccepted, TaskAccepted, BatchAccepted, OnPage
<1> QED BY <1>3, <1>5, <1>8, <1>9

LEMMA ChannelsInitially == Init => ChannelsInv
<1> SUFFICES ASSUME Init PROVE ChannelsInv
  OBVIOUS
<1>1. /\ requests = <<>> /\ DOMAIN requests = {}
      /\ server.made = 0 /\ server.added = 0 /\ server.channels \in {{}, {1}}
      /\ kind # "project" => rows = <<>>
      /\ kind = "project" =>
           \/ rows = <<>>
           \/ rows = << [id |-> 1, destroy |-> FALSE] >> /\ server.channels = {1}
  <2>1. requests = <<>> /\ DOMAIN requests = {}
    BY DEF Init
  <2>2. PICK k \in FormKinds, new \in BOOLEAN :
          /\ Opens(k, new)
          /\ k # "project" => rows = <<>>
          /\ k = "project" => rows = IF new THEN <<>> ELSE << [id |-> 1, destroy |-> FALSE] >>
    BY DEF Init, OpensProject, OpensToken, OpensMission, OpensTask, OpensBatch, FormKinds
  <2>3. /\ kind = k /\ server.made = 0 /\ server.added = 0
        /\ server.channels = IF k = "project" /\ ~new THEN {1} ELSE {}
    BY <2>2 DEF Opens
  <2> QED BY <2>1, <2>2, <2>3
<1>2. kind = "project" => Fresh(rows) = {} /\ Ids(rows) \subseteq server.channels
  <2>1. CASE rows = <<>>
    BY <2>1 DEF Fresh, Ids
  <2>2. CASE rows = << [id |-> 1, destroy |-> FALSE] >> /\ server.channels = {1}
    <3>1. DOMAIN rows = {1} /\ rows[1].id = 1
      BY <2>2
    <3> QED BY <2>2, <3>1 DEF Fresh, Ids
  <2> QED BY <1>1, <2>1, <2>2
<1>3. Cardinality({}) = 0
  BY FS_EmptySet
<1> QED BY <1>1, <1>2, <1>3 DEF ChannelsInv

LEMMA ChannelsKept == Spec => []ChannelsInv
<1>1. TypeInv /\ FormsInv /\ ChannelsInv /\ [Next]_vars => ChannelsInv'
  <2> SUFFICES ASSUME TypeInv, FormsInv, ChannelsInv, Next \/ UNCHANGED vars PROVE ChannelsInv'
    OBVIOUS
  <2>1. CASE UserStep
    BY <2>1, OtherFieldsStep, RowsStep, SubmitRows DEF UserStep, ChangesForm
  <2>2. CASE Machine
    BY <2>2, OtherFieldsStep, AcceptRows, RefuseRows, AnswerRows DEF Machine
  <2>3. CASE UNCHANGED vars
    BY <2>3, OtherFields DEF vars
  <2> QED BY <2>1, <2>2, <2>3 DEF Next
<1> QED BY <1>1, ChannelsInitially, TypesKept, FormsKept, PTL DEF Spec

\* addChannel, destroyChannel and handleSubmit of ProjectForm.jsx, and
\* set_generic_props: no order of clicks, saves, refusals and lost answers
\* makes a channel twice from one row, or removes one the project lacks.
THEOREM SavedOnce == Spec => []ChannelsSavedOnce
<1>1. TypeInv /\ ChannelsInv => ChannelsSavedOnce
  <2> SUFFICES ASSUME TypeInv, ChannelsInv PROVE ChannelsSavedOnce
    OBVIOUS
  <2>1. ASSUME NEW i \in DOMAIN requests, requests[i].stage = "sent"
        PROVE  Destroyed(requests[i]) \subseteq server.channels
    <3>1. Destroyed(requests[i]) \subseteq Ids(requests[i].rows) \ {0}
      BY DEF Destroyed, Ids
    <3>2. kind # "project" => Ids(requests[i].rows) = {}
      BY DEF ChannelsInv, Ids
    <3>3. Ids(requests[i].rows) \subseteq server.channels \cup {0}
      BY <2>1, <3>2 DEF ChannelsInv
    <3> QED BY <3>1, <3>3
  <2> QED BY <2>1 DEF ChannelsSavedOnce, ChannelsInv
<1> QED BY <1>1, TypesKept, ChannelsKept, PTL

=============================================================================

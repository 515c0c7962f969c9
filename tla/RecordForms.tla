---------------------------- MODULE RecordForms ----------------------------
(***************************************************************************)
(* The pages that create and edit projects, tokens, missions, tasks and    *)
(* batches (app/javascript/components/*Form.jsx). Each keeps the fields,   *)
(* the errors shown at them, the action and address of its next request    *)
(* and which buttons are disabled; requests and answers travel beside it.  *)
(* The five copies of the code differ in what a change handler reaches,    *)
(* in when an answer lets the user submit again and in what the server     *)
(* says of a refusal. A token form looks the details of its contract up;   *)
(* a project form has rows of channels.                                    *)
(*                                                                         *)
(* Of the fields one stands for all that behave alike: "value" (text,      *)
(* number, select), "file" (an image), "address", "batch" and "symbol" (of *)
(* a contract, the batch contract, symbol and decimals; the last two are   *)
(* read-only), and "other" for every key of a refusal that no input of the *)
(* page has.                                                               *)
(***************************************************************************)
EXTENDS Naturals, Sequences, FiniteSets, SequencesExt

CONSTANTS
  Kinds,        \* the forms: a subset of FormKinds
  Addresses,    \* contract addresses that match the pattern of their input
  Networks,     \* blockchains to choose from
  MaxRequests,  \* bound: requests that one page sends
  MaxRows,      \* bound: rows of channels on a page
  FormFaults    \* "lost": an answer that never arrives or is not JSON

FormKinds == {"project", "token", "mission", "task", "batch"}
NoAddress == "empty"
BadAddress == "invalid"
NoDetails == <<>>

ASSUME FormAssumption ==
  /\ Kinds \subseteq FormKinds
  /\ {NoAddress, BadAddress} \cap Addresses = {}
  /\ MaxRequests \in Nat /\ MaxRows \in Nat
  /\ FormFaults \subseteq {"lost"}

VARIABLES
  kind,      \* which of the forms the page is
  form,      \* the state of the component
  contract,  \* of a token form: the contract fields and their lookups
  rows,      \* of a project form: the rows of channels
  requests,  \* the requests of the page, each up to its answer
  server     \* records made by this page, channels of the project

vars == <<kind, form, contract, rows, requests, server>>

Fields == {"value", "file", "address", "batch", "symbol", "other"}
Messages == {"invalid", "size", "server"}
\* "shown": no file was chosen yet, and the page shows the image of the record.
Images == {"shown", "none", "small", "large"}
Stages == {"sent", "accepted", "refused", "body", "done", "lost"}

FormState ==
  [action: {"POST", "PUT"}, record: 0..MaxRequests+1, valid: BOOLEAN, image: Images,
   errors: [Fields -> Seq(Messages)], busy: BOOLEAN, close: BOOLEAN, left: BOOLEAN]

Details == Addresses \X Networks
Contract ==
  [typed: BOOLEAN, address: Addresses \cup {NoAddress, BadAddress}, batch: BOOLEAN,
   network: Networks, symbol: Details \cup {NoDetails}, locked: BOOLEAN,
   lookups: SUBSET ((Addresses \cup {BadAddress}) \X Networks)]

\* A row of a channel: id 0 until the server has it.
Row == [id: Nat, destroy: BOOLEAN]

Request ==
  [action: {"POST", "PUT"}, record: 0..MaxRequests+1, image: Images,
   address: Addresses \cup {NoAddress, BadAddress}, symbol: Details \cup {NoDetails},
   network: Networks \cup {"omitted"}, rows: Seq(Row), stage: Stages,
   keys: SUBSET Fields, id: 0..MaxRequests+1, channels: SUBSET Nat]

TypeOK ==
  /\ kind \in Kinds
  /\ form \in FormState
  /\ contract \in Contract
  /\ rows \in Seq(Row)
  /\ requests \in Seq(Request)
  /\ server \in [records: 0..MaxRequests+1, channels: SUBSET Nat, made: Nat, added: Nat]

-----------------------------------------------------------------------------
(* Opening a page                                                           *)

\* A page opened to create is empty; one opened to edit shows record 1, with
\* its image where that is required; a token may have none.
FirstImages(k, new) ==
  IF new \/ k \notin {"token", "mission"} THEN {"none"}
  ELSE IF k = "mission" THEN {"shown"} ELSE {"shown", "none"}

\* Of a new token no value is required.
Blank(k, new, first) ==
  [action |-> IF new THEN "POST" ELSE "PUT", record |-> IF new THEN 0 ELSE 1,
   valid |-> ~new \/ k = "token", image |-> first, errors |-> [f \in Fields |-> <<>>],
   busy |-> FALSE, close |-> FALSE, left |-> FALSE]

NoContract(n) ==
  [typed |-> FALSE, address |-> NoAddress, batch |-> TRUE, network |-> n,
   symbol |-> NoDetails, locked |-> FALSE, lookups |-> {}]

Opens(k, new) ==
  /\ kind = k
  /\ \E first \in FirstImages(k, new) : form = Blank(k, new, first)
  /\ server = [records |-> IF new THEN 0 ELSE 1, made |-> 0, added |-> 0,
               channels |-> IF k = "project" /\ ~new THEN {1} ELSE {}]

OpensProject ==
  \E new \in BOOLEAN, n \in Networks :
    /\ Opens("project", new)
    /\ contract = NoContract(n)
    /\ rows = IF new THEN <<>> ELSE << [id |-> 1, destroy |-> FALSE] >>

OpensToken ==
  \E new, typed \in BOOLEAN, n \in Networks, a \in Addresses :
    /\ Opens("token", new)
    /\ contract = IF new \/ ~typed
                  THEN [NoContract(n) EXCEPT !.typed = typed]
                  ELSE [NoContract(n) EXCEPT !.typed = TRUE, !.address = a, !.symbol = <<a, n>>]
    /\ rows = <<>>

OpensMission == \E new \in BOOLEAN, n \in Networks :
  Opens("mission", new) /\ contract = NoContract(n) /\ rows = <<>>

OpensTask == \E new \in BOOLEAN, n \in Networks :
  Opens("task", new) /\ contract = NoContract(n) /\ rows = <<>>

OpensBatch == \E new \in BOOLEAN, n \in Networks :
  Opens("batch", new) /\ contract = NoContract(n) /\ rows = <<>>

Init ==
  /\ kind \in Kinds
  /\ OpensProject \/ OpensToken \/ OpensMission \/ OpensTask \/ OpensBatch
  /\ requests = <<>>

-----------------------------------------------------------------------------
(* Errors at fields                                                         *)

\* errorAdd: once each.
ErrorAdd(errors, f, m) ==
  [errors EXCEPT ![f] = IF m \in ToSet(@) THEN @ ELSE Append(@, m)]

\* errorRemove: splice(indexOf(m), 1), which removes the last message of the
\* field when m is none of them.
IndexOf(s, m) == IF m \in ToSet(s) THEN CHOOSE i \in DOMAIN s : s[i] = m ELSE Len(s)
ErrorRemove(errors, f, m) == [errors EXCEPT ![f] = RemoveAt(@, IndexOf(@, m))]

NoErrors(errors) == \A f \in Fields : errors[f] = <<>>

\* handleFieldChange of a value, and verifyImgSize of a file.
ErrorsOfValue(errors, f, ok) ==
  IF ok THEN ErrorRemove(errors, f, "invalid") ELSE ErrorAdd(errors, f, "invalid")
ErrorsOfFile(errors, image) ==
  IF image = "large" THEN ErrorAdd(errors, "file", "size") ELSE ErrorRemove(errors, "file", "size")

OnPage(k) == kind = k /\ ~form.left

Edits(oks, errorsOf(_, _, _)) ==
  \E ok \in oks :
    form' = [form EXCEPT !.valid = ok, !.errors = errorsOf(@, "value", ok)]
Picks(errorsOf(_, _)) ==
  \E i \in {"small", "large"} :
    form' = [form EXCEPT !.image = i, !.errors = errorsOf(@, i)]

ChangesProject ==
  /\ OnPage("project")
  /\ Edits(BOOLEAN, ErrorsOfValue) \/ Picks(ErrorsOfFile)
  /\ UNCHANGED <<kind, contract, rows, requests, server>>

ChangesToken ==
  /\ OnPage("token")
  /\ Edits({TRUE}, ErrorsOfValue) \/ Picks(ErrorsOfFile)
  /\ UNCHANGED <<kind, contract, rows, requests, server>>

\* handleChangeFormData calls verifyImgSize for every input: for one without
\* files it throws, after the value is set and before the errors are.
ThrowsOnValue(errors, f, ok) == errors

\* Of a file it then removes "invalid value". setState has not happened yet:
\* what errorAdd has just added is not seen, and is overwritten.
FileThenInvalid(errors, image) ==
  IF image # "large" THEN ErrorRemove(ErrorsOfFile(errors, image), "file", "invalid")
  ELSE IF errors["file"] = <<>> THEN ErrorsOfFile(errors, image)
  ELSE ErrorRemove(errors, "file", "invalid")

ChangesMission ==
  /\ OnPage("mission")
  /\ Edits(BOOLEAN, ThrowsOnValue) \/ Picks(FileThenInvalid)
  /\ UNCHANGED <<kind, contract, rows, requests, server>>

ChangesTask ==
  /\ OnPage("task")
  /\ Edits(BOOLEAN, ErrorsOfValue) \/ Picks(ErrorsOfFile)
  /\ UNCHANGED <<kind, contract, rows, requests, server>>

ChangesBatch ==
  /\ OnPage("batch")
  /\ Edits(BOOLEAN, ErrorsOfValue) \/ Picks(ErrorsOfFile)
  /\ UNCHANGED <<kind, contract, rows, requests, server>>

\* The chooser of a file is closed without one: the input is empty now, and
\* handleFileChange throws before the form hears of it; the errors stay, and a
\* required input is required. (A mission form remembers the file: the images
\* that are not required it still sends.)
ClosesFileChooser ==
  /\ ~form.left
  /\ form.image \in {"small", "large"}
  /\ form' = [form EXCEPT !.image = "none"]
  /\ UNCHANGED <<kind, contract, rows, requests, server>>

-----------------------------------------------------------------------------
(* The contract of a token                                                  *)

\* Mutant: the contract fields stay open while their details are looked up.
LooksUpUnlocked(c) ==
  IF c.address = NoAddress THEN c
  ELSE [c EXCEPT !.symbol = NoDetails,
                 !.lookups = @ \cup {<<c.address, c.network>>}]

\* fetchSymbolAndDecimals: nothing without an address; else the details are
\* cleared and the fields of the contract locked until the answer.
LooksUp(c) ==
  IF c.address = NoAddress THEN c
  ELSE [c EXCEPT !.symbol = NoDetails, !.locked = TRUE,
                 !.lookups = @ \cup {<<c.address, c.network>>}]

\* An address that does not match the pattern is marked, and not looked up.
ChangesAddress(a) ==
  /\ OnPage("token") /\ contract.typed /\ ~contract.locked
  /\ a # contract.address
  /\ form' = [form EXCEPT !.errors = ErrorsOfValue(@, "address", a \in Addresses)]
  /\ contract' = IF a \in Addresses THEN LooksUp([contract EXCEPT !.address = a])
                 ELSE [contract EXCEPT !.address = a]
  /\ UNCHANGED <<kind, rows, requests, server>>

\* The address of the batch contract is not required, nor looked up.
ChangesBatchAddress ==
  /\ OnPage("token") /\ contract.typed /\ ~contract.locked
  /\ \E ok \in BOOLEAN :
       /\ form' = [form EXCEPT !.errors = ErrorsOfValue(@, "batch", ok)]
       /\ contract' = [contract EXCEPT !.batch = ok]
  /\ UNCHANGED <<kind, rows, requests, server>>

ChangesNetwork(n) ==
  /\ OnPage("token") /\ ~contract.locked
  /\ n # contract.network
  /\ contract' = LooksUp([contract EXCEPT !.network = n])
  /\ UNCHANGED <<kind, form, rows, requests, server>>

ChangesType ==
  /\ OnPage("token") /\ ~contract.locked
  /\ \E t \in BOOLEAN :
       contract' = [NoContract(contract.network) EXCEPT !.typed = t, !.lookups = contract.lookups]
  /\ UNCHANGED <<kind, form, rows, requests, server>>

\* The details, or an error and no details. An answer that gets lost leaves
\* the fields locked.
LookupAnswers(l) ==
  /\ OnPage("token") /\ l \in contract.lookups
  /\ \E s \in {NoDetails} \cup ({l} \cap Details) :
       contract' = [contract EXCEPT !.lookups = @ \ {l}, !.locked = FALSE,
                                    !.symbol = IF s = NoDetails THEN @ ELSE s]
  /\ UNCHANGED <<kind, form, rows, requests, server>>

LookupIsLost(l) ==
  /\ "lost" \in FormFaults
  /\ l \in contract.lookups
  /\ contract' = [contract EXCEPT !.lookups = @ \ {l}]
  /\ UNCHANGED <<kind, form, rows, requests, server>>

-----------------------------------------------------------------------------
(* The channels of a project                                                *)

AddsChannel ==
  /\ OnPage("project") /\ Len(rows) < MaxRows
  /\ rows' = Append(rows, [id |-> 0, destroy |-> FALSE])
  /\ server' = [server EXCEPT !.added = @ + 1]
  /\ UNCHANGED <<kind, form, contract, requests>>

DestroysChannel(i) ==
  /\ OnPage("project") /\ ~rows[i].destroy
  /\ rows' = [rows EXCEPT ![i].destroy = TRUE]
  /\ UNCHANGED <<kind, form, contract, requests, server>>

-----------------------------------------------------------------------------
(* Submitting                                                               *)

\* Required, unless the image of the record is shown.
ImageRequired == kind \in {"token", "mission"}

\* event.target.checkValidity(): a read-only input is not looked at.
CheckValidity ==
  /\ form.valid
  /\ ImageRequired => form.image # "none"
  /\ contract.typed => contract.locked \/ (contract.address \in Addresses /\ contract.batch)

Payload ==
  [action |-> form.action, record |-> form.record, image |-> form.image,
   address |-> contract.address, symbol |-> contract.symbol, network |-> contract.network,
   rows |-> rows, stage |-> "sent", keys |-> {}, id |-> 0, channels |-> {}]

\* handleSubmit by an enabled button, of a form without errors: the buttons
\* stay disabled until an answer enables them. (With errors nothing is sent.)
Submits(close, payload) ==
  /\ ~form.busy /\ CheckValidity /\ NoErrors(form.errors)
  /\ Len(requests) < MaxRequests
  /\ form' = [form EXCEPT !.busy = TRUE, !.close = close]
  /\ requests' = Append(requests, payload)
  /\ UNCHANGED <<kind, contract, rows, server>>

SubmitsProject == OnPage("project") /\ \E c \in BOOLEAN : Submits(c, Payload)

\* A disabled select is not part of the data of its form.
SubmitsToken == OnPage("token") /\ \E c \in BOOLEAN :
  Submits(c, IF contract.locked THEN [Payload EXCEPT !.network = "omitted"] ELSE Payload)

SubmitsMission == OnPage("mission") /\ \E c \in BOOLEAN : Submits(c, Payload)
SubmitsTask == OnPage("task") /\ \E c \in BOOLEAN : Submits(c, Payload)
SubmitsBatch == OnPage("batch") /\ \E c \in BOOLEAN : Submits(c, Payload)

-----------------------------------------------------------------------------
(* The server                                                               *)

NewRows(r) == Cardinality({ i \in DOMAIN r.rows : r.rows[i].id = 0 /\ ~r.rows[i].destroy })
Destroyed(r) == { r.rows[i].id : i \in { j \in DOMAIN r.rows : r.rows[j].destroy } } \ {0}

\* Ids of channels count on from the one an edited project has.
ServerAccepts(i) ==
  LET r == requests[i]
      id == IF r.action = "POST" THEN server.records + 1 ELSE r.record
      made == { 1 + server.made + n : n \in 1..NewRows(r) }
      channels == IF r.action = "POST" THEN made ELSE (server.channels \ Destroyed(r)) \cup made
  IN /\ r.stage = "sent" /\ r.image # "large"
     /\ r.action = "POST" => r.network # "omitted"
     /\ Destroyed(r) \subseteq server.channels
     /\ server' = [server EXCEPT !.records = IF r.action = "POST" THEN id ELSE @,
                                 !.channels = channels, !.made = @ + NewRows(r)]
     /\ requests' = [requests EXCEPT ![i] = [@ EXCEPT !.stage = "accepted", !.id = id,
                                                      !.channels = channels]]
     /\ UNCHANGED <<kind, form, contract, rows>>

\* Mutant: an image is refused by the name of its column, not of its input.
KeysOfColumns == {{"value"}, {"image_id"}}

\* The keys of a refusal are the names of the attributes, as the page has
\* them; an image can always be refused.
KeysOfAttributes == {{"value"}, {"file"}}

\* What the page has no input for under that name: a task's budget and a
\* project's terms (base), a project's long_id and the attributes of its
\* channels, a mission's whitelabel_api_public_key.
KeysBeyondInputs == KeysOfAttributes \cup {{"other"}}

\* ProjectsController#update and TokensController#update turn the errors into
\* a string, of which the page makes one key per letter.
KeysOfLetters == {{"other"}}

\* A token without its type; a contract that has no symbol to look up, maybe
\* of a token whose name is taken.
KeysOfToken(r) ==
  IF r.network = "omitted" THEN {{"value", "symbol"}}
  ELSE IF r.address # NoAddress /\ r.symbol = NoDetails
  THEN {{"address", "symbol"}, {"value", "address", "symbol"}}
  ELSE KeysOfAttributes

KeysOf(r) ==
  CASE kind \in {"project", "token"} /\ r.action = "PUT" -> KeysOfLetters
    [] kind = "token" /\ r.action = "POST" -> KeysOfToken(r)
    [] kind = "batch" -> KeysOfAttributes
    [] OTHER -> KeysBeyondInputs

ServerRefuses(i) ==
  /\ requests[i].stage = "sent"
  /\ \E ks \in KeysOf(requests[i]) :
       requests' = [requests EXCEPT ![i] = [@ EXCEPT !.stage = "refused", !.keys = ks]]
  /\ UNCHANGED <<kind, form, contract, rows, server>>

\* The fetch or its json() rejects, and nothing catches that; the server may
\* have done what it was asked.
AnswerIsLost(i) ==
  /\ "lost" \in FormFaults
  /\ requests[i].stage \in {"sent", "accepted", "refused", "body"}
  /\ requests' = [requests EXCEPT ![i] = [@ EXCEPT !.stage = "lost"]]
  /\ UNCHANGED <<kind, form, contract, rows, server>>

-----------------------------------------------------------------------------
(* Answers                                                                  *)

Stage(i, s) == requests' = [requests EXCEPT ![i] = [@ EXCEPT !.stage = s]]

\* Mutant: the buttons are left as they are.
RefusedAndLocked(i) ==
  /\ ~form.left
  /\ requests[i].stage = "refused"
  /\ form' = [form EXCEPT
       !.errors = [f \in Fields |-> IF f \in requests[i].keys THEN <<"server">> ELSE <<>>]]
  /\ Stage(i, "done")
  /\ UNCHANGED <<kind, contract, rows, server>>

\* Any other status: all errors are replaced, and the buttons enabled.
Refused(i) ==
  /\ ~form.left
  /\ requests[i].stage = "refused"
  /\ form' = [form EXCEPT !.busy = FALSE,
       !.errors = [f \in Fields |-> IF f \in requests[i].keys THEN <<"server">> ELSE <<>>]]
  /\ Stage(i, "done")
  /\ UNCHANGED <<kind, contract, rows, server>>

\* What the body of the answer to a creation sets.
Updating(id) == [form EXCEPT !.action = "PUT", !.record = id]
UpdatingOnce(id) == IF form.action = "POST" THEN Updating(id) ELSE form

\* The rows for the channels that an answer lists, by their ids.
RowsOf(channels) ==
  { r \in [1..Cardinality(channels) -> [id: channels, destroy: {FALSE}]] :
      \A i, j \in DOMAIN r : i < j => r[i].id < r[j].id }

Leaves(i) ==
  /\ requests[i].stage = "accepted" /\ form.close
  /\ form' = [form EXCEPT !.left = TRUE]
  /\ Stage(i, "done")
  /\ UNCHANGED <<kind, contract, rows, server>>

\* Mutant: the buttons are enabled before the body of the answer is read.
ProjectEnablesEarly(i) ==
  /\ OnPage("project")
  /\ \/ /\ requests[i].stage = "accepted" /\ ~form.close
        /\ form' = [form EXCEPT !.busy = FALSE]
        /\ Stage(i, "body")
        /\ UNCHANGED rows
     \/ /\ requests[i].stage = "body"
        /\ form' = UpdatingOnce(requests[i].id)
        /\ rows' \in RowsOf(requests[i].channels)
        /\ Stage(i, "done")
  /\ UNCHANGED <<kind, contract, server>>

\* Mutant: the rows stay as they were sent.
ProjectKeepsRows(i) ==
  /\ OnPage("project")
  /\ requests[i].stage = "accepted" /\ ~form.close
  /\ form' = [UpdatingOnce(requests[i].id) EXCEPT !.busy = FALSE]
  /\ Stage(i, "done")
  /\ UNCHANGED <<kind, contract, rows, server>>

\* A project form reads the body first; its rows become the server's.
ProjectAccepted(i) ==
  /\ OnPage("project")
  /\ \/ Leaves(i)
     \/ /\ requests[i].stage = "accepted" /\ ~form.close
        /\ form' = [UpdatingOnce(requests[i].id) EXCEPT !.busy = FALSE]
        /\ rows' \in RowsOf(requests[i].channels)
        /\ Stage(i, "done")
        /\ UNCHANGED <<kind, contract, server>>

\* The others enable the buttons as soon as the status is there. The answer
\* to a creation then has its body read, which tells the new address.
Enables(i, stage) ==
  /\ requests[i].stage = "accepted" /\ ~form.close
  /\ form' = [form EXCEPT !.busy = FALSE]
  /\ Stage(i, stage)
  /\ UNCHANGED <<kind, contract, rows, server>>
ReadsBody(i, updated) ==
  /\ requests[i].stage = "body"
  /\ form' = updated
  /\ Stage(i, "done")
  /\ UNCHANGED <<kind, contract, rows, server>>

\* Tokens and missions decide what to read when the status arrives, tasks and
\* batches when the body does.
BodyOfCreation(i) == IF form.action = "POST" THEN "body" ELSE "done"

TokenAccepted(i) ==
  /\ OnPage("token")
  /\ Leaves(i) \/ Enables(i, BodyOfCreation(i)) \/ ReadsBody(i, Updating(requests[i].id))
MissionAccepted(i) ==
  /\ OnPage("mission")
  /\ Leaves(i) \/ Enables(i, BodyOfCreation(i)) \/ ReadsBody(i, Updating(requests[i].id))
TaskAccepted(i) ==
  /\ OnPage("task")
  /\ Leaves(i) \/ Enables(i, "body") \/ ReadsBody(i, UpdatingOnce(requests[i].id))
BatchAccepted(i) ==
  /\ OnPage("batch")
  /\ Leaves(i) \/ Enables(i, "body") \/ ReadsBody(i, UpdatingOnce(requests[i].id))

-----------------------------------------------------------------------------

UserStep ==
  \/ ChangesProject \/ ChangesToken \/ ChangesMission \/ ChangesTask \/ ChangesBatch
  \/ ClosesFileChooser
  \/ \E a \in Addresses \cup {NoAddress, BadAddress} : ChangesAddress(a)
  \/ ChangesBatchAddress \/ (\E n \in Networks : ChangesNetwork(n)) \/ ChangesType
  \/ AddsChannel \/ \E i \in DOMAIN rows : DestroysChannel(i)
  \/ SubmitsProject \/ SubmitsToken \/ SubmitsMission \/ SubmitsTask \/ SubmitsBatch

Answer(i) ==
  \/ Refused(i) \/ ProjectAccepted(i) \/ TokenAccepted(i) \/ MissionAccepted(i)
  \/ TaskAccepted(i) \/ BatchAccepted(i)

Machine ==
  \/ \E l \in contract.lookups : LookupAnswers(l) \/ LookupIsLost(l)
  \/ \E i \in DOMAIN requests :
       ServerAccepts(i) \/ ServerRefuses(i) \/ AnswerIsLost(i) \/ Answer(i)

Next == UserStep \/ Machine

Spec == Init /\ [][Next]_vars

-----------------------------------------------------------------------------

Open(i) == requests[i].stage \in {"sent", "accepted", "refused"}

\* The buttons are disabled only while an answer is on its way, or because it
\* got lost: every answer that arrives enables them.
BusyHasCause ==
  form.busy /\ ~form.left =>
    \E i \in DOMAIN requests : Open(i) \/ requests[i].stage = "lost"

\* A page opened to create a project makes one, however it is clicked, refused
\* and answered: after a creation it only ever updates, and when the answer
\* got lost it sends nothing more. (The other forms do not promise this: they
\* can be submitted again before they know that they have created.)
OneRecordPerForm == kind = "project" => server.records <= 1

\* The symbol and decimals a token form sends are those of the contract and
\* the network it sends, whatever was looked up, changed and looked up again.
SentDetailsMatch ==
  \A i \in DOMAIN requests :
    requests[i].symbol # NoDetails => requests[i].symbol = <<requests[i].address, requests[i].network>>

\* A row of a channel makes one channel, however often the project is saved,
\* and a save removes only channels the project has.
ChannelsSavedOnce ==
  /\ server.made <= server.added
  /\ \A i \in DOMAIN requests :
       requests[i].stage = "sent" => Destroyed(requests[i]) \subseteq server.channels

=============================================================================

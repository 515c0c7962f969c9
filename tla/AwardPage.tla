----------------------------- MODULE AwardPage -----------------------------
(***************************************************************************)
(* The page on which an admin issues an award for a task                   *)
(* (app/javascript/components/TaskShow.jsx) beside the two handlers of     *)
(* awards_controller.rb it calls. The admin chooses a channel and a member *)
(* of it, or types an email, and proceeds; the fields get locked, the page *)
(* looks up the recipient's address; the admin issues the award or goes    *)
(* back to edit. Answers come whenever they come, to the same page.        *)
(*                                                                         *)
(* An address stands for the person who owns it. Whom the server finds, or *)
(* creates, depends on the uid and, when it has no Authentication yet, on  *)
(* the channel it came with. What the server checks before it gives an     *)
(* award is AwardLifecycle's SendAward; here it gives or refuses. Message  *)
(* and quantity are left out.                                              *)
(***************************************************************************)
EXTENDS Naturals, Sequences, SequencesExt

CONSTANTS
  Channels,      \* the project's channels the admin has access to
  Members,       \* the uids each channel lists, in order
  Emails,        \* what may be typed as an email
  People,        \* the accounts there are, or will be
  UidAccount,    \* the account of a uid that comes with a channel
  EmailAccount,  \* the account of an email
  Wallets,       \* the people with an address on the token's blockchain
  MaxLookUps     \* bound: look-ups of one page

ByEmail == "email"          \* the last entry of the channels, an empty id
NotGiven == "not given"     \* a field that was never touched
NotKnown == "no address"
Nobody == "nobody"          \* for JSON that leaves out a uid that is undefined
Undefined == "undefined"    \* where FormData makes a text of it, a uid like others

Uids == UNION { ToSet(Members[c]) : c \in Channels }

ASSUME AwardPageAssumption ==
  /\ ByEmail \notin Channels
  /\ Members \in [Channels -> Seq(Uids)]
  /\ UidAccount \in [Channels -> [Uids \cup {Undefined} -> People]]
  /\ EmailAccount \in [Emails -> People]
  /\ NotGiven \notin Uids \cup Emails /\ Undefined \notin Uids
  /\ {NotKnown, Nobody} \cap People = {}
  /\ Wallets \subseteq People
  /\ MaxLookUps \in Nat

VARIABLES
  page,     \* the component's state; "left" once the browser shows another page
  lookUps,  \* the look-ups the page asked for, in order
  sending,  \* the request that issues the award
  given     \* the people the server gave an award to for this page

pageVars == <<page, lookUps, sending, given>>

Page == [step: {"form", "details", "left"}, locked: BOOLEAN,
         channel: Channels \cup {ByEmail}, uid: Uids \cup {NotGiven},
         email: Emails \cup {NotGiven}, address: People \cup {NotKnown}]
LookUp == [whom: People \cup {Nobody}, open: BOOLEAN, late: BOOLEAN]
NotSending == [pc |-> "none", whom |-> Nobody]
Sending == [pc: {"asked", "given", "refused", "unheard"}, whom: People] \cup {NotSending}

PageTypeOK ==
  /\ page \in Page
  /\ lookUps \in Seq(LookUp)
  /\ sending \in Sending
  /\ given \in Seq(People)

PageInit ==
  /\ page \in { p \in Page : p.step = "form" /\ ~p.locked /\ p.uid = NotGiven
                             /\ p.email = NotGiven /\ p.address = NotKnown }
  /\ lookUps = <<>>
  /\ sending = NotSending
  /\ given = <<>>

-----------------------------------------------------------------------------
(* The fields                                                               *)

\* Mutant: going on to the details does not lock the fields.
NotLeft == page.step # "left"

\* detailsFetched is false: the fields can be changed.
InForm == page.step = "form"

Fill(form) == page' = form /\ UNCHANGED <<lookUps, sending, given>>

\* The uid chosen in another channel stays in the state.
ChoosesChannel(c) == InForm /\ Fill([page EXCEPT !.channel = c])

\* What the dropdown shows: the first entry if the value is none of them.
\* Choosing that one changes nothing.
Displayed(c) ==
  IF page.uid \in ToSet(Members[c]) THEN page.uid ELSE Members[c][1]

ChoosesMember(u) ==
  /\ InForm /\ page.channel # ByEmail
  /\ u \in ToSet(Members[page.channel]) /\ u # Displayed(page.channel)
  /\ Fill([page EXCEPT !.uid = u])

TypesEmail(e) ==
  /\ InForm /\ page.channel = ByEmail
  /\ Fill([page EXCEPT !.email = e])

\* state['task[uid]'] || the first member, of which a channel may have none.
FormUid ==
  IF page.uid # NotGiven THEN page.uid
  ELSE IF Members[page.channel] = <<>> THEN Undefined ELSE Members[page.channel][1]

\* Whom the server finds for the look-up: without a uid, nobody.
LookedUp ==
  IF page.channel = ByEmail THEN EmailAccount[page.email]
  ELSE IF FormUid = Undefined THEN Nobody
  ELSE UidAccount[page.channel][FormUid]

\* Whom it finds, or creates, for the award.
Recipient ==
  IF page.channel = ByEmail THEN EmailAccount[page.email]
  ELSE UidAccount[page.channel][FormUid]

-----------------------------------------------------------------------------
(* Looking up the address                                                   *)

\* Mutant: the address of an earlier look-up is not cleared.
ProceedsShowingOld ==
  /\ page.step = "form" /\ ~page.locked
  /\ page.channel = ByEmail => page.email # NotGiven
  /\ Len(lookUps) < MaxLookUps
  /\ lookUps' = Append(lookUps, [whom |-> LookedUp, open |-> TRUE, late |-> FALSE])
  /\ page' = [page EXCEPT !.step = "details"]
  /\ UNCHANGED <<sending, given>>

\* handleSubmit of a form: fetchRecipientAddress, and the fields are locked
\* at once, before there is an answer.
Proceeds ==
  /\ page.step = "form" /\ ~page.locked
  /\ page.channel = ByEmail => page.email # NotGiven
  /\ Len(lookUps) < MaxLookUps
  /\ lookUps' = Append(lookUps, [whom |-> LookedUp, open |-> TRUE, late |-> FALSE])
  /\ page' = [page EXCEPT !.step = "details", !.address = NotKnown]
  /\ UNCHANGED <<sending, given>>

\* The answer to a look-up; late if another was asked for in the meantime. A
\* person without a wallet, and one the server does not know, has no address.
Answered(i) ==
  /\ page.step # "left" /\ lookUps[i].open
  /\ lookUps' =
       [lookUps EXCEPT ![i] = [whom |-> @.whom, open |-> FALSE, late |-> i < Len(lookUps)]]
  /\ UNCHANGED <<sending, given>>

AddressArrives(i) ==
  /\ Answered(i)
  /\ page' = [page EXCEPT !.address =
       IF lookUps[i].whom \in Wallets THEN lookUps[i].whom ELSE NotKnown]

\* Any other status, or none: a message at most.
LookUpFails(i) == Answered(i) /\ UNCHANGED page

\* goBack: "edit", which awaits nothing, and "cancel".
GoesBack == page.step = "details" /\ Fill([page EXCEPT !.step = "form"])
Cancels == page.step = "form" /\ Fill([page EXCEPT !.step = "left"])

-----------------------------------------------------------------------------
(* Issuing the award                                                        *)

\* handleSubmit of the details: the button stays disabled until the answer.
Issues ==
  /\ page.step = "details" /\ ~page.locked
  /\ page' = [page EXCEPT !.locked = TRUE]
  /\ sending' = [pc |-> "asked", whom |-> Recipient]
  /\ UNCHANGED <<lookUps, given>>

\* send_award
ServerGives ==
  /\ sending.pc = "asked"
  /\ sending' = [sending EXCEPT !.pc = "given"]
  /\ given' = Append(given, sending.whom)
  /\ UNCHANGED <<page, lookUps>>

\* error_response, with 422.
ServerDenies ==
  /\ sending.pc = "asked"
  /\ sending' = [sending EXCEPT !.pc = "refused"]
  /\ UNCHANGED <<page, lookUps, given>>

HearsSuccess ==
  /\ sending.pc = "given" /\ page.step # "left"
  /\ page' = [page EXCEPT !.step = "left"]
  /\ sending' = NotSending
  /\ UNCHANGED <<lookUps, given>>

HearsRefusal ==
  /\ sending.pc = "refused" /\ page.step # "left"
  /\ page' = [page EXCEPT !.step = "form", !.locked = FALSE]
  /\ sending' = NotSending
  /\ UNCHANGED <<lookUps, given>>

\* Mutant: the button is enabled again whatever comes.
HearsNothingAndUnlocks ==
  /\ sending.pc \in {"asked", "given", "refused"} /\ page.step # "left"
  /\ page' = [page EXCEPT !.locked = FALSE]
  /\ sending' = [sending EXCEPT !.pc = "unheard"]
  /\ UNCHANGED <<lookUps, given>>

\* No answer, or one that is no JSON, such as that of send_award raising after
\* it gave the award (a mail that cannot be delivered): nothing handles it.
HearsNothing ==
  /\ sending.pc \in {"asked", "given", "refused"} /\ page.step # "left"
  /\ sending' = [sending EXCEPT !.pc = "unheard"]
  /\ UNCHANGED <<page, lookUps, given>>

-----------------------------------------------------------------------------

PageNext ==
  \/ \E c \in Channels \cup {ByEmail} : ChoosesChannel(c)
  \/ \E u \in Uids : ChoosesMember(u)
  \/ \E e \in Emails : TypesEmail(e)
  \/ \E i \in DOMAIN lookUps : AddressArrives(i) \/ LookUpFails(i)
  \/ Proceeds \/ GoesBack \/ Cancels
  \/ Issues \/ ServerGives \/ ServerDenies
  \/ HearsSuccess \/ HearsRefusal \/ HearsNothing

PageSpec == PageInit /\ [][PageNext]_pageVars

-----------------------------------------------------------------------------

\* Who "undefined" is for the channels that list nobody.
Strangers == { UidAccount[c][Undefined] : c \in { d \in Channels : Members[d] = <<>> } }

\* The award goes to whom the page looked up last, however the admin went
\* back and forth, also while an award is being issued. Only a channel that
\* lists nobody is looked up as nobody, and its award given to a stranger. (The
\* person need not be the member the dropdown shows: a uid chosen in another
\* channel goes before it, in the look-up and here.)
IssuesWhatWasLookedUp ==
  sending.pc # "none" =>
    \/ sending.whom = Last(lookUps).whom
    \/ Last(lookUps).whom = Nobody /\ sending.whom \in Strangers

\* The address beside the button is the recipient's: nothing is left of the
\* recipient before. Only an answer that comes after the next look-up was
\* asked for replaces it by the address of another, and nothing tells so.
ShowsRecipientsAddress ==
  page.step = "details" /\ page.address # NotKnown =>
    \/ page.address = Last(lookUps).whom
    \/ \E i \in DOMAIN lookUps : lookUps[i].late /\ lookUps[i].whom = page.address

\* One page gives one award: when it does not hear what became of a request
\* its button stays disabled, and edit and cancel do not enable it.
GivesOnce == Len(given) <= 1

=============================================================================

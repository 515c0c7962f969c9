-------------------------- MODULE AwardPageProofs --------------------------
(***************************************************************************)
(* Theorems about the page that issues an award, for any channels, members *)
(* and emails and any number of look-ups. A page that waits for the answer *)
(* to its request is locked, so that it asks for no other look-up and      *)
(* sends no other request; an overtaken answer is marked late.             *)
(***************************************************************************)
EXTENDS AwardPage, TLAPS

\* The page waits, or stopped waiting, for what became of its request.
LockedWhenSending == sending.pc # "none" => page.locked \/ page.step = "left"

\* The details are those of the last look-up, which was for who is chosen.
DetailsOfLast ==
  page.step = "details" =>
    /\ page.channel = ByEmail => page.email # NotGiven
    /\ lookUps # <<>> /\ Last(lookUps).whom = LookedUp

SentAsLookedUp ==
  sending.pc # "none" =>
    /\ lookUps # <<>>
    /\ \/ sending.whom = Last(lookUps).whom
       \/ Last(lookUps).whom = Nobody /\ sending.whom \in Strangers

\* A look-up is late only once it is answered.
LateIsAnswered == \A i \in DOMAIN lookUps : lookUps[i].late => ~lookUps[i].open

\* ShowsRecipientsAddress, also while the admin edits.
AddressOfLast ==
  page.address # NotKnown =>
    /\ lookUps # <<>>
    /\ \/ page.address = Last(lookUps).whom
       \/ \E i \in DOMAIN lookUps : lookUps[i].late /\ lookUps[i].whom = page.address

\* A page that gave an award waits for the answer, or is left.
GivenIsSent ==
  given # <<>> =>
    /\ Len(given) = 1
    /\ sending.pc \in {"given", "unheard", "none"}
    /\ sending.pc = "none" => page.step = "left"

PageInv ==
  /\ PageTypeOK
  /\ LockedWhenSending
  /\ DetailsOfLast
  /\ SentAsLookedUp
  /\ LateIsAnswered
  /\ AddressOfLast
  /\ GivenIsSent

-----------------------------------------------------------------------------
(* The recipient and the look-ups                                           *)

\* Whoever is chosen is somebody the server knows, or nobody at all; where the
\* look-up is for nobody, the award is for a stranger.
LEMMA RecipientKnown ==
  ASSUME PageTypeOK, page.channel = ByEmail => page.email # NotGiven
  PROVE  /\ Recipient \in People /\ LookedUp \in People \cup {Nobody}
         /\ Recipient = LookedUp \/ (LookedUp = Nobody /\ Recipient \in Strangers)
<1>1. page \in Page
  BY DEF PageTypeOK
<1>2. CASE page.channel = ByEmail
  <2>1. page.email \in Emails
    BY <1>1, <1>2 DEF Page
  <2> QED BY <1>2, <2>1, AwardPageAssumption DEF Recipient, LookedUp
<1>3. CASE page.channel # ByEmail
  <2>1. page.channel \in Channels
    BY <1>1, <1>3 DEF Page
  <2>2. FormUid \in Uids \/ (FormUid = Undefined /\ Members[page.channel] = <<>>)
    <3>1. Members[page.channel] \in Seq(Uids)
      BY <2>1, AwardPageAssumption
    <3>2. page.uid \in Uids \cup {NotGiven}
      BY <1>1 DEF Page
    <3>3. Members[page.channel] # <<>> => Members[page.channel][1] \in Uids
      BY <3>1
    <3> QED BY <3>2, <3>3 DEF FormUid
  <2>3. Recipient = UidAccount[page.channel][FormUid] /\ Recipient \in People
    BY <1>3, <2>1, <2>2, AwardPageAssumption DEF Recipient
  <2>4. CASE FormUid = Undefined
    <3>1. Members[page.channel] = <<>>
      BY <2>2, <2>4, AwardPageAssumption
    <3> QED BY <1>3, <2>1, <2>3, <2>4, <3>1 DEF LookedUp, Strangers
  <2>5. CASE FormUid # Undefined
    BY <1>3, <2>3, <2>5 DEF LookedUp
  <2> QED BY <2>4, <2>5
<1> QED BY <1>2, <1>3

\* What is chosen decides who is looked up.
LEMMA SameLookedUp ==
  ASSUME page'.channel = page.channel, page'.uid = page.uid, page'.email = page.email
  PROVE  LookedUp' = LookedUp
  BY DEF LookedUp, FormUid

\* An answer changes nobody's look-up.
LEMMA AnsweredLookUps ==
  ASSUME PageTypeOK, NEW i \in DOMAIN lookUps, Answered(i)
  PROVE  /\ lookUps' \in Seq(LookUp)
         /\ DOMAIN lookUps' = DOMAIN lookUps /\ Len(lookUps') = Len(lookUps)
         /\ \A j \in DOMAIN lookUps : lookUps'[j].whom = lookUps[j].whom
         /\ \A j \in DOMAIN lookUps : j # i => lookUps'[j] = lookUps[j]
         /\ lookUps'[i].late = (i < Len(lookUps)) /\ ~lookUps'[i].open
         /\ lookUps # <<>> /\ lookUps' # <<>>
         /\ Last(lookUps').whom = Last(lookUps).whom
<1>1. lookUps \in Seq(LookUp) /\ i \in 1..Len(lookUps) /\ Len(lookUps) \in Nat
  BY DEF PageTypeOK
<1> DEFINE answer == [whom |-> lookUps[i].whom, open |-> FALSE, late |-> (i < Len(lookUps))]
<1>2. lookUps[i] \in LookUp
  BY <1>1
<1>3. answer \in LookUp
  BY <1>2 DEF LookUp
<1>4. lookUps' = [lookUps EXCEPT ![i] = answer]
  BY DEF Answered
<1> HIDE DEF answer
<1>5. lookUps' \in Seq(LookUp) /\ Len(lookUps') = Len(lookUps) /\ DOMAIN lookUps' = DOMAIN lookUps
  BY <1>1, <1>3, <1>4
<1>6. lookUps'[i] = answer /\ \A j \in DOMAIN lookUps : j # i => lookUps'[j] = lookUps[j]
  BY <1>1, <1>4
<1>7. \A j \in DOMAIN lookUps : lookUps'[j].whom = lookUps[j].whom
  BY <1>6 DEF answer
<1>8. lookUps # <<>> /\ lookUps' # <<>> /\ Len(lookUps) \in DOMAIN lookUps
  BY <1>1, <1>5
<1> QED BY <1>5, <1>6, <1>7, <1>8 DEF answer, Last

\* A look-up that is asked for is the last, and the others stay.
LEMMA AppendedLookUp ==
  ASSUME PageTypeOK, NEW whom \in People \cup {Nobody},
         lookUps' = Append(lookUps, [whom |-> whom, open |-> TRUE, late |-> FALSE])
  PROVE  /\ lookUps' \in Seq(LookUp) /\ lookUps' # <<>>
         /\ Last(lookUps').whom = whom
         /\ \A j \in DOMAIN lookUps' : lookUps'[j].late => j \in DOMAIN lookUps
         /\ \A j \in DOMAIN lookUps : j \in DOMAIN lookUps' /\ lookUps'[j] = lookUps[j]
<1> DEFINE asked == [whom |-> whom, open |-> TRUE, late |-> FALSE]
<1>1. lookUps \in Seq(LookUp) /\ asked \in LookUp
  BY DEF PageTypeOK, LookUp
<1>2. asked.whom = whom /\ ~asked.late
  OBVIOUS
<1> HIDE DEF asked
<1>3. /\ lookUps' \in Seq(LookUp) /\ Len(lookUps') = Len(lookUps) + 1 /\ Len(lookUps) \in Nat
      /\ lookUps'[Len(lookUps) + 1] = asked
      /\ \A j \in 1..Len(lookUps) : lookUps'[j] = lookUps[j]
      /\ DOMAIN lookUps = 1..Len(lookUps) /\ DOMAIN lookUps' = 1..(Len(lookUps) + 1)
  BY <1>1 DEF asked
<1> QED BY <1>2, <1>3 DEF Last

-----------------------------------------------------------------------------
(* Every step keeps the invariant                                           *)

LEMMA PageInitially == PageInit => PageInv
<1> SUFFICES ASSUME PageInit PROVE PageInv
  OBVIOUS
<1>1. NotSending \in Sending /\ NotSending.pc = "none"
  BY DEF NotSending, Sending
<1>2. PageTypeOK
  BY <1>1 DEF PageInit, PageTypeOK
<1> QED BY <1>1, <1>2 DEF PageInit, PageInv, LockedWhenSending, DetailsOfLast, SentAsLookedUp,
      LateIsAnswered, AddressOfLast, GivenIsSent

\* The fields change only in the form, where there are no details.
LEMMA FieldsKeep ==
  ASSUME PageInv,
         \/ \E c \in Channels \cup {ByEmail} : ChoosesChannel(c)
         \/ \E u \in Uids : ChoosesMember(u)
         \/ \E e \in Emails : TypesEmail(e)
         \/ GoesBack \/ Cancels
  PROVE  PageInv'
<1>1. page \in Page
  BY DEF PageInv, PageTypeOK
<1>2. UNCHANGED <<lookUps, sending, given>>
  BY DEF ChoosesChannel, ChoosesMember, TypesEmail, GoesBack, Cancels, Fill
<1>3. /\ page' \in Page /\ page'.locked = page.locked /\ page'.address = page.address
      /\ page'.step # "details" /\ (page.step = "left" => page'.step = "left")
  BY <1>1 DEF ChoosesChannel, ChoosesMember, TypesEmail, GoesBack, Cancels, Fill, InForm, Page
<1> QED BY <1>2, <1>3 DEF PageInv, PageTypeOK, LockedWhenSending, DetailsOfLast, SentAsLookedUp,
      LateIsAnswered, AddressOfLast, GivenIsSent

\* Nothing is being sent when the next look-up is asked for.
LEMMA ProceedsKeeps == ASSUME PageInv, Proceeds PROVE PageInv'
<1> USE DEF PageInv
<1>1. page \in Page /\ ~page.locked /\ page.step = "form" /\ sending.pc = "none"
  BY DEF PageTypeOK, Proceeds, LockedWhenSending
<1>2. LookedUp \in People \cup {Nobody}
  BY RecipientKnown DEF Proceeds
<1>3. lookUps' = Append(lookUps, [whom |-> LookedUp, open |-> TRUE, late |-> FALSE])
      /\ UNCHANGED <<sending, given>>
  BY DEF Proceeds
<1>4. /\ lookUps' \in Seq(LookUp) /\ lookUps' # <<>> /\ Last(lookUps').whom = LookedUp
      /\ \A j \in DOMAIN lookUps' : lookUps'[j].late => j \in DOMAIN lookUps
      /\ \A j \in DOMAIN lookUps : lookUps'[j] = lookUps[j]
  BY <1>2, <1>3, AppendedLookUp
<1>5. page' \in Page /\ page'.address = NotKnown
      /\ page'.channel = page.channel /\ page'.uid = page.uid /\ page'.email = page.email
  BY <1>1 DEF Proceeds, Page
<1>6. PageTypeOK'
  BY <1>3, <1>4, <1>5 DEF PageTypeOK
<1>7. DetailsOfLast'
  BY <1>4, <1>5, SameLookedUp DEF Proceeds, DetailsOfLast
<1>8. LateIsAnswered'
  BY <1>4 DEF LateIsAnswered
<1>9. LockedWhenSending' /\ SentAsLookedUp' /\ AddressOfLast' /\ GivenIsSent'
  BY <1>1, <1>3, <1>5 DEF LockedWhenSending, SentAsLookedUp, AddressOfLast, GivenIsSent
<1> QED BY <1>6, <1>7, <1>8, <1>9

\* An answer shows the address of the last look-up, or comes late.
LEMMA AnswersKeep ==
  ASSUME PageInv, NEW i \in DOMAIN lookUps, AddressArrives(i) \/ LookUpFails(i)
  PROVE  PageInv'
<1> USE DEF PageInv
<1>1. Answered(i)
  BY DEF AddressArrives, LookUpFails
<1>2. page \in Page /\ UNCHANGED <<sending, given>>
  BY <1>1 DEF PageTypeOK, Answered
<1>3. /\ lookUps' \in Seq(LookUp) /\ lookUps # <<>> /\ lookUps' # <<>>
      /\ DOMAIN lookUps' = DOMAIN lookUps
      /\ \A j \in DOMAIN lookUps : lookUps'[j].whom = lookUps[j].whom
      /\ \A j \in DOMAIN lookUps : j # i => lookUps'[j] = lookUps[j]
      /\ lookUps'[i].late = (i < Len(lookUps)) /\ ~lookUps'[i].open
      /\ Last(lookUps').whom = Last(lookUps).whom
  BY <1>1, AnsweredLookUps
<1>4. /\ page' \in Page /\ page'.step = page.step /\ page'.locked = page.locked
      /\ page'.channel = page.channel /\ page'.uid = page.uid /\ page'.email = page.email
      /\ page'.address \in {page.address, NotKnown, lookUps[i].whom}
  <2>1. CASE LookUpFails(i)
    BY <1>2, <2>1 DEF LookUpFails
  <2>2. CASE AddressArrives(i)
    <3> DEFINE a == IF lookUps[i].whom \in Wallets THEN lookUps[i].whom ELSE NotKnown
    <3>1. a \in People \cup {NotKnown} /\ a \in {NotKnown, lookUps[i].whom}
      BY AwardPageAssumption
    <3>2. page' = [page EXCEPT !.address = a]
      BY <2>2 DEF AddressArrives
    <3> QED BY <1>2, <3>1, <3>2 DEF Page
  <2> QED BY <2>1, <2>2
<1>5. PageTypeOK'
  BY <1>2, <1>3, <1>4 DEF PageTypeOK
<1>6. DetailsOfLast'
  BY <1>3, <1>4, SameLookedUp DEF DetailsOfLast
<1>7. LockedWhenSending' /\ SentAsLookedUp' /\ GivenIsSent'
  BY <1>2, <1>3, <1>4 DEF LockedWhenSending, SentAsLookedUp, GivenIsSent
<1>8. LateIsAnswered'
  BY <1>3 DEF LateIsAnswered
<1>9. AddressOfLast'
  <2>1. CASE page'.address = lookUps[i].whom
    <3>1. i \in 1..Len(lookUps) /\ Len(lookUps) \in Nat
      BY DEF PageTypeOK
    <3>2. CASE i = Len(lookUps)
      BY <1>3, <2>1, <3>2 DEF AddressOfLast, Last
    <3>3. CASE i < Len(lookUps)
      BY <1>3, <2>1, <3>3 DEF AddressOfLast
    <3> QED BY <3>1, <3>2, <3>3
  <2>2. CASE page'.address = page.address
    <3>1. \A j \in DOMAIN lookUps : lookUps[j].late => j # i
      BY <1>1 DEF LateIsAnswered, Answered
    <3> QED BY <1>3, <2>2, <3>1 DEF AddressOfLast
  <2>3. CASE page'.address = NotKnown
    BY <2>3 DEF AddressOfLast
  <2> QED BY <1>4, <2>1, <2>2, <2>3
<1> QED BY <1>5, <1>6, <1>7, <1>8, <1>9

\* The steps of the request that issues the award.
LEMMA SendingKeeps ==
  ASSUME PageInv,
         \/ Issues \/ ServerGives \/ ServerDenies
         \/ HearsSuccess \/ HearsRefusal \/ HearsNothing
  PROVE  PageInv'
<1> USE DEF PageInv, DetailsOfLast, SentAsLookedUp, LockedWhenSending, GivenIsSent
<1>1. page \in Page /\ sending \in Sending /\ given \in Seq(People)
  BY DEF PageTypeOK
<1>2. NotSending \in Sending /\ NotSending.pc = "none"
  BY DEF NotSending, Sending
<1>3. UNCHANGED lookUps
  BY DEF Issues, ServerGives, ServerDenies, HearsSuccess, HearsRefusal, HearsNothing
<1>4. /\ page' \in Page /\ page'.address = page.address
      /\ page'.channel = page.channel /\ page'.uid = page.uid /\ page'.email = page.email
      /\ page'.step = "details" => page.step = "details"
  BY <1>1 DEF Issues, ServerGives, ServerDenies, HearsSuccess, HearsRefusal, HearsNothing, Page
<1>5. DetailsOfLast' /\ LateIsAnswered' /\ AddressOfLast'
  BY <1>3, <1>4, SameLookedUp DEF LateIsAnswered, AddressOfLast
<1>6. CASE Issues
  <2>1. /\ Recipient \in People
        /\ Recipient = LookedUp \/ (LookedUp = Nobody /\ Recipient \in Strangers)
        /\ sending.pc = "none" /\ given = <<>>
    BY <1>6, RecipientKnown DEF Issues
  <2>2. sending' \in Sending /\ sending'.whom = Recipient /\ given' = <<>>
    BY <1>6, <2>1 DEF Issues, Sending
  <2>3. page'.locked
    BY <1>1, <1>6 DEF Issues, Page
  <2>4. PageTypeOK'
    BY <1>3, <1>4, <2>2 DEF PageTypeOK
  <2>5. lookUps # <<>> /\ Last(lookUps).whom = LookedUp
    BY <1>6 DEF Issues
  <2>6. SentAsLookedUp'
    <3>1. Strangers' = Strangers /\ lookUps' = lookUps
      BY <1>3 DEF Strangers
    <3> QED BY <2>1, <2>2, <2>5, <3>1
  <2> QED BY <1>5, <2>2, <2>3, <2>4, <2>6
<1>7. CASE ServerGives
  <2>1. given = <<>> /\ sending.pc = "asked" /\ sending.whom \in People
    BY <1>1, <1>7 DEF ServerGives, Sending, NotSending
  <2>2. sending' \in Sending /\ sending'.pc = "given" /\ sending'.whom = sending.whom /\ page' = page
    BY <1>1, <1>7 DEF ServerGives, Sending, NotSending
  <2>3. given' \in Seq(People) /\ Len(given') = 1
    BY <1>1, <1>7, <2>1 DEF ServerGives
  <2>4. PageTypeOK'
    BY <1>3, <1>4, <2>2, <2>3 DEF PageTypeOK
  <2> QED BY <1>3, <1>5, <2>1, <2>2, <2>3, <2>4
<1>8. CASE ServerDenies \/ HearsNothing
  <2>1. /\ sending' \in Sending /\ sending'.whom = sending.whom
        /\ sending.pc # "none" /\ sending'.pc \in {"refused", "unheard"}
        /\ sending'.pc = "refused" => sending.pc = "asked"
        /\ UNCHANGED <<page, given>>
    BY <1>1, <1>8 DEF ServerDenies, HearsNothing, Sending, NotSending
  <2>2. PageTypeOK'
    BY <1>1, <1>3, <2>1 DEF PageTypeOK
  <2> QED BY <1>3, <1>5, <2>1, <2>2
<1>9. CASE HearsSuccess \/ HearsRefusal
  <2>1. sending' = NotSending /\ given' = given /\ (page'.step = "left" \/ given = <<>>)
    BY <1>1, <1>9 DEF HearsSuccess, HearsRefusal, Page
  <2>2. PageTypeOK'
    BY <1>1, <1>2, <1>3, <1>4, <2>1 DEF PageTypeOK
  <2> QED BY <1>2, <1>5, <2>1, <2>2
<1> QED BY <1>6, <1>7, <1>8, <1>9

LEMMA PageStep == ASSUME PageInv, [PageNext]_pageVars PROVE PageInv'
<1>1. CASE UNCHANGED pageVars
  BY <1>1 DEF pageVars, PageInv, PageTypeOK, LockedWhenSending, DetailsOfLast, LookedUp, Recipient, FormUid,
     SentAsLookedUp, LateIsAnswered, AddressOfLast, GivenIsSent
<1>2. CASE PageNext
  BY <1>2, FieldsKeep, ProceedsKeeps, AnswersKeep, SendingKeeps DEF PageNext
<1> QED BY <1>1, <1>2

LEMMA PageInvariant == PageSpec => []PageInv
  BY PageInitially, PageStep, PTL DEF PageSpec

-----------------------------------------------------------------------------
(* What the page promises                                                   *)

\* The page, its look-ups and its request keep their types.
THEOREM PageTyped == PageSpec => []PageTypeOK
<1>1. PageInv => PageTypeOK
  BY DEF PageInv
<1> QED BY <1>1, PageInvariant, PTL

\* TaskShow's handleSubmit sends the award to whom its last look-up was for,
\* whatever the admin did in between, however many look-ups there were.
THEOREM GivenToWhomWasShown == PageSpec => []IssuesWhatWasLookedUp
<1>1. PageInv => IssuesWhatWasLookedUp
  BY DEF PageInv, SentAsLookedUp, IssuesWhatWasLookedUp
<1> QED BY <1>1, PageInvariant, PTL

\* fetchRecipientAddress can show another's address only by an answer that
\* was overtaken by a later look-up.
THEOREM AddressIsRecipients == PageSpec => []ShowsRecipientsAddress
<1>1. PageInv => ShowsRecipientsAddress
  BY DEF PageInv, AddressOfLast, ShowsRecipientsAddress
<1> QED BY <1>1, PageInvariant, PTL

\* The lock that handleSubmit sets and only a refusal lifts is enough for one
\* award per page, with any answer lost.
THEOREM PageGivesOnce == PageSpec => []GivesOnce
<1>1. PageInv => GivesOnce
  <2>1. CASE given = <<>>
    BY <2>1 DEF GivesOnce
  <2>2. CASE given # <<>>
    <3> SUFFICES ASSUME PageInv PROVE GivesOnce
      OBVIOUS
    <3>1. Len(given) = 1
      BY <2>2 DEF PageInv, GivenIsSent
    <3> QED BY <3>1 DEF GivesOnce
  <2> QED BY <2>1, <2>2
<1> QED BY <1>1, PageInvariant, PTL

=============================================================================

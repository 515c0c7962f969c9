------------------------------ MODULE MCPages ------------------------------
(***************************************************************************)
(* Small instances of RecordForms and of AwardPage: a browser that shows   *)
(* either a form or the page that issues an award. What is not shown stays *)
(* as it is.                                                               *)
(***************************************************************************)
EXTENDS RecordForms, AwardPage, TLC

OfMembers == "general" :> <<"u1", "u2">> @@ "random" :> <<"u3", "u2">> @@ "empty" :> <<>>
Everybody == {"ann", "bob", "cy", "eve", "stranger"}

\* u1 is known everywhere; of u3 the server finds another account in each of
\* the teams; a text "undefined" makes an account of its own.
OfUids ==
  LET shared == "u2" :> "bob" @@ "undefined" :> "stranger"
  IN  "general" :> (shared @@ "u1" :> "ann" @@ "u3" :> "eve") @@
      "random" :> (shared @@ "u1" :> "ann" @@ "u3" :> "cy") @@
      "empty" :> (shared @@ "u1" :> "ann" @@ "u3" :> "eve")
OfEmails == "e1" :> "ann"

VARIABLE shown

NoPage ==
  /\ page = [step |-> "left", locked |-> FALSE, channel |-> ByEmail, uid |-> NotGiven,
             email |-> NotGiven, address |-> NotKnown]
  /\ lookUps = <<>> /\ sending = NotSending /\ given = <<>>

NoForm ==
  /\ kind = "batch" /\ form = [Blank(kind, TRUE, "none") EXCEPT !.left = TRUE]
  /\ \E n \in Networks : contract = NoContract(n)
  /\ rows = <<>> /\ requests = <<>>
  /\ server = [records |-> 0, made |-> 0, added |-> 0, channels |-> {}]

ShowsForm == shown = "form" /\ Next /\ UNCHANGED <<shown, pageVars>>
ShowsAward == shown = "award" /\ PageNext /\ UNCHANGED <<shown, vars>>

BrowserInit ==
  \/ shown = "form" /\ Init /\ NoPage
  \/ shown = "award" /\ PageInit /\ NoForm
BrowserSpec == BrowserInit /\ [][ShowsForm \/ ShowsAward]_<<shown, vars, pageVars>>

Symmetry == Permutations(Addresses) \cup Permutations(Networks)

=============================================================================

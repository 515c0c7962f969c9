--------------------------- MODULE SigningProofs ---------------------------
(***************************************************************************)
(* Theorems about the signing pages, for any number of tabs, buttons and   *)
(* clicks: what the three controllers of a page may do to its buttons,     *)
(* and which transactions the server may be told about.                    *)
(***************************************************************************)
EXTENDS Signing, Integers, TLAPS

Clicked(c) == flow[c] # NotClicked

\* Only a broadcast payment has a hash to report.
ReportsSent == \A c \in Clicks : At(c, "report") => c \in sent

\* A page that is as it should be, given the WalletConnect objects it has: see
\* BoundHasAccounts and StaleWalletConnect.
GoodPage(t, p, conn) ==
  /\ p \in PageState
  /\ conn \in [Connectors -> {"none", "pairing", "connected", "killed", "closed"}]
  /\ p.bound \in {"null", "wallet-connect"} \cup p.accounts
  /\ \A i \in Connectors : i > p.made => conn[i] = "none"
  /\ /\ p.bound = "wallet-connect"
     /\ ~(p.connector # 0 /\ conn[p.connector] = "connected") \/ "wallet-connect" \notin p.accounts
     => \E i \in Connectors : conn[i] \in {"killed", "closed"}

SigningInv ==
  /\ TypeOK
  /\ ReportsSent
  /\ PendingIsSent
  /\ \A t \in Tabs : GoodPage(t, page[t], connector[t])

-----------------------------------------------------------------------------
(* Pages                                                                    *)

\* A step that changes one page and its objects, and keeps it good.
LEMMA PageSteps ==
  ASSUME SigningInv, NEW t \in Tabs, NEW p, NEW conn,
         GoodPage(t, p, conn),
         page' = [page EXCEPT ![t] = p], connector' = [connector EXCEPT ![t] = conn],
         UNCHANGED <<flow, status, sent, session>>
  PROVE  SigningInv'
<1>1. /\ page' \in [Tabs -> PageState]
      /\ connector' \in [Tabs -> [Connectors -> {"none", "pairing", "connected", "killed", "closed"}]]
      /\ page'[t] = p /\ connector'[t] = conn
      /\ \A u \in Tabs \ {t} : page'[u] = page[u] /\ connector'[u] = connector[u]
  BY DEF SigningInv, TypeOK, GoodPage
<1>2. TypeOK' /\ ReportsSent' /\ PendingIsSent'
  BY <1>1 DEF SigningInv, TypeOK, ReportsSent, PendingIsSent, At
<1>3. \A u \in Tabs : GoodPage(u, page[u], connector[u])' <=> GoodPage(u, page'[u], connector'[u])
  BY DEF GoodPage
<1>4. \A u \in Tabs : GoodPage(u, page[u], connector[u])'
  BY <1>1, <1>3 DEF SigningInv
<1> QED BY <1>2, <1>4 DEF SigningInv

\* The buttons after updateTargets are bound to the controller that calls it,
\* or not at all.
LEMMA Updated ==
  ASSUME NEW p \in PageState, NEW by \in Controllers, NEW present \in BOOLEAN
  PROVE  /\ UpdateTargets(p, by, present) \in PageState
         /\ UpdateTargets(p, by, present).accounts = p.accounts
         /\ UpdateTargets(p, by, present).connector = p.connector
         /\ UpdateTargets(p, by, present).made = p.made
         /\ UpdateTargets(p, by, present).bound = IF present THEN by ELSE "null"
BY DEF UpdateTargets, PageState

\* MetaMask and ORE ID.
LEMMA HasAccountsStep ==
  ASSUME SigningInv, NEW t \in Tabs, NEW by \in {"metamask", "ore-id"},
         NEW present \in BOOLEAN, NEW listening \in Listening,
         HasAccounts(t, by, present, listening)
  PROVE  SigningInv'
<1> DEFINE q == [SetAccounts(page[t], by, present) EXCEPT !.listening = listening]
           p == UpdateTargets(q, by, present)
<1>0. page[t] \in PageState /\ by \in Controllers /\ page \in [Tabs -> PageState]
      /\ connector \in [Tabs -> [Connectors -> {"none", "pairing", "connected", "killed", "closed"}]]
  BY DEF SigningInv, TypeOK, Controllers
<1>1. /\ q \in PageState /\ q.connector = page[t].connector /\ q.made = page[t].made
      /\ q.accounts = IF present THEN page[t].accounts \cup {by} ELSE page[t].accounts \ {by}
  BY <1>0 DEF SetAccounts, PageState
<1>2. page' = [page EXCEPT ![t] = p] /\ connector' = [connector EXCEPT ![t] = connector[t]]
      /\ UNCHANGED <<flow, status, sent, session>>
  BY <1>0 DEF HasAccounts
<1> HIDE DEF q
<1>3. /\ p \in PageState /\ p.accounts = q.accounts /\ p.made = q.made
      /\ p.bound = IF present THEN by ELSE "null"
  BY <1>0, <1>1, Updated
<1> HIDE DEF p
<1>4. GoodPage(t, p, connector[t])
  BY <1>0, <1>1, <1>3 DEF GoodPage, SigningInv
<1> QED BY <1>1, <1>2, <1>3, <1>4, PageSteps

LEMMA SwitchesStep ==
  ASSUME SigningInv, NEW t \in Tabs,
         SwitchesMetaMask(t) \/ MetaMaskChangesAccounts(t) \/ SwitchesOreId(t)
  PROVE  SigningInv'
<1>0. page[t] \in PageState /\ page \in [Tabs -> PageState]
      /\ connector \in [Tabs -> [Connectors -> {"none", "pairing", "connected", "killed", "closed"}]]
      /\ page[t].listening \in Listening
  BY DEF SigningInv, TypeOK, PageState
<1>1. CASE \E by \in {"metamask", "ore-id"}, present \in BOOLEAN, listening \in Listening :
             HasAccounts(t, by, present, listening)
  BY <1>1, HasAccountsStep
<1>2. CASE page' = [page EXCEPT ![t].listening = "onboarding"] /\ UNCHANGED <<connector, flow, status, sent, session>>
  <2> DEFINE p == [page[t] EXCEPT !.listening = "onboarding"]
  <2>1. page' = [page EXCEPT ![t] = p] /\ connector' = [connector EXCEPT ![t] = connector[t]]
    BY <1>0, <1>2
  <2>2. GoodPage(t, p, connector[t])
    BY <1>0 DEF SigningInv, GoodPage, PageState, Listening
  <2> HIDE DEF p
  <2> QED BY <1>2, <2>1, <2>2, PageSteps
<1>3. SwitchesMetaMask(t) => \/ HasAccounts(t, "metamask", FALSE, "stopped")
                             \/ HasAccounts(t, "metamask", TRUE, "onboarding")
                             \/ page' = [page EXCEPT ![t].listening = "onboarding"]
                                /\ UNCHANGED <<connector, flow, status, sent, session>>
  BY DEF SwitchesMetaMask
<1>4. SwitchesMetaMask(t) => SigningInv'
  BY <1>0, <1>1, <1>2, <1>3 DEF Listening
<1>5. MetaMaskChangesAccounts(t) => SigningInv'
  BY <1>0, <1>1 DEF MetaMaskChangesAccounts
<1>6. SwitchesOreId(t) => SigningInv'
  BY <1>0, <1>1 DEF SwitchesOreId
<1> QED BY <1>4, <1>5, <1>6

\* The page after onSessionUpdate, given the objects after the event.
LEMMA SessionUpdated ==
  ASSUME SigningInv, NEW t \in Tabs, NEW present \in BOOLEAN, NEW p \in PageState,
         p.accounts = page[t].accounts,
         NEW conn \in [Connectors -> {"none", "pairing", "connected", "killed", "closed"}],
         \A i \in Connectors : i > p.made => conn[i] = "none",
         present \/ \E i \in Connectors : conn[i] = "closed"
  PROVE  GoodPage(t, SessionUpdate(p, conn, present), conn)
<1> DEFINE q == SetAccounts(p, "wallet-connect", present)
           now == p.connector # 0 /\ conn[p.connector] = "connected"
           u == UpdateTargets(q, "wallet-connect", now)
<1>1. /\ q \in PageState /\ q.connector = p.connector /\ q.made = p.made
      /\ q.accounts = IF present THEN p.accounts \cup {"wallet-connect"}
                      ELSE p.accounts \ {"wallet-connect"}
  BY DEF SetAccounts, PageState, Controllers
<1>2. "wallet-connect" \in Controllers /\ now \in BOOLEAN
  BY DEF Controllers
<1> HIDE DEF q, now
<1>3. /\ u \in PageState /\ u.accounts = q.accounts /\ u.made = q.made /\ u.connector = q.connector
      /\ u.bound = IF now THEN "wallet-connect" ELSE "null"
  BY <1>1, <1>2, Updated
<1>4. SessionUpdate(p, conn, present) = u
  BY DEF SessionUpdate, q, now
<1> HIDE DEF u
<1>5. GoodPage(t, u, conn)
  BY <1>1, <1>3 DEF GoodPage, now
<1> QED BY <1>1, <1>3, <1>4, <1>5

LEMMA WalletConnectStep ==
  ASSUME SigningInv, NEW t \in Tabs,
         \/ KillsWalletConnect(t) \/ InitsWalletConnect(t)
         \/ \E i \in Connectors : WalletConnectEvent(t, i) \/ WalletConnectEnds(t, i)
  PROVE  SigningInv'
<1> DEFINE ConnStates == {"none", "pairing", "connected", "killed", "closed"}
<1>0. /\ page[t] \in PageState /\ page \in [Tabs -> PageState]
      /\ connector \in [Tabs -> [Connectors -> ConnStates]]
      /\ GoodPage(t, page[t], connector[t])
  BY DEF SigningInv, TypeOK
<1>1. CASE KillsWalletConnect(t)
  <2> DEFINE k == page[t].connector
             conn == [connector[t] EXCEPT ![k] = "killed"]
             p == [page[t] EXCEPT !.connector = 0]
  <2>1. k \in Connectors /\ connector[t][k] = "connected"
    BY <1>0, <1>1 DEF KillsWalletConnect, Connected, PageState
  <2>2. conn \in [Connectors -> ConnStates] /\ conn[k] = "killed"
        /\ \A i \in Connectors : i # k => conn[i] = connector[t][i]
    BY <1>0, <2>1
  <2>3. page' = [page EXCEPT ![t] = p] /\ connector' = [connector EXCEPT ![t] = conn]
        /\ UNCHANGED <<flow, status, sent, session>>
    BY <1>0, <1>1 DEF KillsWalletConnect
  <2>4. /\ p \in PageState /\ p.bound = page[t].bound /\ p.accounts = page[t].accounts
        /\ p.made = page[t].made
    BY <1>0 DEF PageState
  <2> HIDE DEF p, conn, k
  <2>5. GoodPage(t, p, conn)
    BY <1>0, <2>1, <2>2, <2>4 DEF GoodPage
  <2> QED BY <2>3, <2>4, <2>5, PageSteps
<1>2. CASE InitsWalletConnect(t)
  <2> DEFINE new == page[t].made + 1
             q == [page[t] EXCEPT !.connector = new, !.made = new]
  <2>1. /\ new \in Connectors /\ new > page[t].made /\ connector[t][new] = "none"
        /\ new \in Connectors \cup {0} /\ new \in 0..MaxConnectors
    BY <1>0, <1>2, SigningAssumption DEF InitsWalletConnect, PageState, Connectors, GoodPage
  <2>2. /\ q \in PageState /\ q.bound = page[t].bound /\ q.accounts = page[t].accounts
        /\ q.made = new /\ q.connector = new
    BY <1>0, <2>1 DEF PageState
  <2>3. ASSUME NEW s \in {"pairing", "connected"}
        PROVE  /\ [connector[t] EXCEPT ![new] = s] \in [Connectors -> ConnStates]
               /\ [connector[t] EXCEPT ![new] = s][new] = s
               /\ \A i \in Connectors : i # new =>
                    [connector[t] EXCEPT ![new] = s][i] = connector[t][i]
               /\ \A i \in Connectors : i > new => [connector[t] EXCEPT ![new] = s][i] = "none"
               /\ connector' = [connector EXCEPT ![t][new] = s] =>
                    /\ connector' = [connector EXCEPT ![t] = [connector[t] EXCEPT ![new] = s]]
                    /\ connector'[t] = [connector[t] EXCEPT ![new] = s]
    <3>1. \A i \in Connectors : i > new => i > page[t].made /\ i # new
      BY <1>0 DEF PageState, Connectors
    <3> HIDE DEF new
    <3> DEFINE f == [connector[t] EXCEPT ![new] = s]
    <3>2. connector[t] \in [Connectors -> ConnStates]
      BY <1>0
    <3>3. /\ f \in [Connectors -> ConnStates] /\ f[new] = s
          /\ \A i \in Connectors : i # new => f[i] = connector[t][i]
      BY <2>1, <3>2
    <3>4. \A i \in Connectors : i > new => f[i] = "none"
      BY <1>0, <3>1, <3>3 DEF GoodPage
    <3>5. connector' = [connector EXCEPT ![t][new] = s] =>
            connector' = [connector EXCEPT ![t] = f] /\ connector'[t] = f
      BY <1>0
    <3> QED BY <3>3, <3>4, <3>5
  <2>4. CASE connector' = [connector EXCEPT ![t][new] = "pairing"] /\ page' = [page EXCEPT ![t] = q]
    <3> DEFINE conn == [connector[t] EXCEPT ![new] = "pairing"]
    <3>1. page[t].bound = "wallet-connect" => \E i \in Connectors : connector[t][i] \in {"killed", "closed"}
      BY <1>0, <1>2 DEF InitsWalletConnect, Connected, GoodPage
    <3>2. GoodPage(t, q, conn)
      <4>1. conn \in [Connectors -> ConnStates] /\ \A i \in Connectors : i > new => conn[i] = "none"
        BY <2>3
      <4>2. page[t].bound = "wallet-connect" => \E i \in Connectors : conn[i] \in {"killed", "closed"}
        BY <2>1, <2>3, <3>1
      <4> HIDE DEF conn, q, new
      <4> QED BY <1>0, <2>2, <4>1, <4>2 DEF GoodPage
    <3>3. connector' = [connector EXCEPT ![t] = conn]
      BY <2>3, <2>4
    <3> HIDE DEF conn, q
    <3> QED BY <1>2, <2>2, <2>4, <3>2, <3>3, PageSteps DEF InitsWalletConnect
  <2>5. CASE /\ connector' = [connector EXCEPT ![t][new] = "connected"]
             /\ page' = [page EXCEPT ![t] = SessionUpdate(q, connector'[t], TRUE)]
    <3> DEFINE conn == [connector[t] EXCEPT ![new] = "connected"]
    <3>1. /\ conn \in [Connectors -> ConnStates] /\ \A i \in Connectors : i > new => conn[i] = "none"
          /\ connector' = [connector EXCEPT ![t] = conn] /\ connector'[t] = conn
      BY <2>3, <2>5
    <3> DEFINE p == SessionUpdate(q, conn, TRUE)
    <3>2. page' = [page EXCEPT ![t] = p]
      BY <2>5, <3>1
    <3> HIDE DEF conn, q, new
    <3>3. GoodPage(t, p, conn)
      BY <2>2, <3>1, SessionUpdated
    <3> HIDE DEF p
    <3> QED BY <1>2, <3>1, <3>2, <3>3, PageSteps DEF InitsWalletConnect
  <2> QED BY <1>2, <2>4, <2>5 DEF InitsWalletConnect
<1>3. ASSUME NEW i \in Connectors, NEW s \in {"connected", "closed"}, NEW present \in BOOLEAN,
             present \/ s = "closed", connector[t][i] # "none",
             connector' = [connector EXCEPT ![t][i] = s],
             page' = [page EXCEPT ![t] = SessionUpdate(@, connector'[t], present)],
             UNCHANGED <<flow, status, sent, session>>
      PROVE  SigningInv'
  <2> DEFINE conn == [connector[t] EXCEPT ![i] = s]
             p == SessionUpdate(page[t], conn, present)
  <2>1. /\ conn \in [Connectors -> ConnStates] /\ conn[i] = s
        /\ \A j \in Connectors : j # i => conn[j] = connector[t][j]
        /\ connector' = [connector EXCEPT ![t] = conn] /\ connector'[t] = conn
    BY <1>0, <1>3
  <2>2. page' = [page EXCEPT ![t] = p]
    BY <1>0, <1>3, <2>1
  <2>3. \A j \in Connectors : j > page[t].made => conn[j] = "none"
    BY <1>0, <1>3, <2>1 DEF GoodPage
  <2>4. present \/ \E j \in Connectors : conn[j] = "closed"
    BY <1>3, <2>1
  <2> HIDE DEF conn
  <2>5. GoodPage(t, p, conn)
    BY <1>0, <2>1, <2>3, <2>4, SessionUpdated
  <2> HIDE DEF p
  <2> QED BY <1>3, <2>1, <2>2, <2>5, PageSteps
<1>4. ASSUME NEW i \in Connectors, WalletConnectEvent(t, i) PROVE SigningInv'
  BY <1>3, <1>4 DEF WalletConnectEvent
<1>5. ASSUME NEW i \in Connectors, WalletConnectEnds(t, i) PROVE SigningInv'
  BY <1>3, <1>5 DEF WalletConnectEnds
<1> QED BY <1>1, <1>2, <1>4, <1>5

-----------------------------------------------------------------------------
(* Runs of sendTx                                                           *)

\* What no step does to the runs: make one report what was not sent,
\* or the server say pending of it.
FlowsGoOn ==
  /\ flow' \in [Clicks -> FlowState]
  /\ \A c \in Clicks : flow'[c] = flow[c] \/ (At(c, "report")' => c \in sent')
  /\ sent \subseteq sent' /\ sent' \subseteq Clicks
  /\ status' \in [Clicks -> {"none", "created", "pending", "cancelled"}]
  /\ session' \in Clicks \cup {0}
  /\ PendingIsSent'

LEMMA FlowsKept ==
  ASSUME SigningInv, FlowsGoOn
  PROVE  ReportsSent' /\ PendingIsSent'
BY DEF SigningInv, ReportsSent, FlowsGoOn, At

\* Runs go on beside pages that stay as they are.
LEMMA RunSteps ==
  ASSUME SigningInv, FlowsGoOn, UNCHANGED <<page, connector>>
  PROVE  SigningInv'
<1>1. TypeOK'
  BY DEF SigningInv, TypeOK, FlowsGoOn
<1>2. \A t \in Tabs : GoodPage(t, page[t], connector[t])'
  BY DEF SigningInv, GoodPage
<1> QED BY <1>1, <1>2, FlowsKept DEF SigningInv

\* Runs go on while a tab loads another page.
LEMMA ShowSteps ==
  ASSUME SigningInv, FlowsGoOn, NEW t \in Tabs, NEW at \in {"page", "ore-id"}, Shows(t, at)
  PROVE  SigningInv'
<1> DEFINE p == NewPage(at)
           conn == [i \in Connectors |-> "none"]
<1>0. /\ page \in [Tabs -> PageState]
      /\ connector \in [Tabs -> [Connectors -> {"none", "pairing", "connected", "killed", "closed"}]]
  BY DEF SigningInv, TypeOK
<1>1. p \in PageState /\ p.bound = "null"
  BY SigningAssumption DEF NewPage, PageState, Listening
<1>2. conn \in [Connectors -> {"none", "pairing", "connected", "killed", "closed"}]
      /\ \A i \in Connectors : conn[i] = "none"
  OBVIOUS
<1>3. page' = [page EXCEPT ![t] = p] /\ connector' = [connector EXCEPT ![t] = conn]
  BY DEF Shows
<1> HIDE DEF p, conn
<1>4. /\ page' \in [Tabs -> PageState] /\ page'[t] = p
      /\ \A u \in Tabs \ {t} : page'[u] = page[u]
      /\ connector' \in [Tabs -> [Connectors -> {"none", "pairing", "connected", "killed", "closed"}]]
      /\ connector'[t] = conn
      /\ \A u \in Tabs \ {t} : connector'[u] = connector[u]
  BY <1>0, <1>1, <1>2, <1>3
<1>5. TypeOK'
  BY <1>4 DEF SigningInv, TypeOK, FlowsGoOn
<1>6. \A u \in Tabs : GoodPage(u, page[u], connector[u])'
  <2> SUFFICES ASSUME NEW u \in Tabs PROVE GoodPage(u, page[u], connector[u])'
    OBVIOUS
  <2>1. CASE u = t
    BY <1>1, <1>2, <1>4, <2>1 DEF GoodPage
  <2>2. CASE u # t
    BY <1>4, <2>2 DEF SigningInv, GoodPage
  <2> QED BY <2>1, <2>2
<1> QED BY <1>5, <1>6, FlowsKept DEF SigningInv

-----------------------------------------------------------------------------
(* The steps of sendTx                                                      *)

\* One run moves on.
LEMMA Going ==
  ASSUME SigningInv, NEW c \in Clicks, Clicked(c), NEW pc \in FlowStates, Goes(c, pc),
         pc = "report" => c \in sent',
         sent' \in {sent, sent \cup {c}}, session' \in Clicks \cup {0},
         status' \in [Clicks -> {"none", "created", "pending", "cancelled"}],
         \A d \in Clicks : status'[d] = "pending" => status[d] = "pending" \/ d \in sent'
  PROVE  FlowsGoOn
<1>1. flow \in [Clicks -> FlowState] /\ sent \subseteq Clicks /\ PendingIsSent
  BY DEF SigningInv, TypeOK
<1>2. flow[c] \in [pc: FlowStates, tab: Tabs, button: Buttons, by: Controllers]
  BY <1>1 DEF FlowState, Clicked
<1> DEFINE f == [flow[c] EXCEPT !.pc = pc]
<1>3. f \in FlowState /\ f.pc = pc
  BY <1>2 DEF FlowState
<1>4. f # NotClicked
  BY <1>3 DEF FlowStates, NotClicked
<1>5. flow' = [flow EXCEPT ![c] = f]
  BY <1>1 DEF Goes
<1> HIDE DEF f
<1>6. PendingIsSent'
  BY <1>1 DEF PendingIsSent
<1> QED BY <1>1, <1>3, <1>4, <1>5, <1>6 DEF FlowsGoOn, Clicked, At

LEMMA SendTxStep ==
  ASSUME SigningInv, NEW c \in Clicks,
         \/ Saves(c) \/ Creates(c) \/ Approves(c) \/ ApprovesSilently(c) \/ Rejects(c)
         \/ Reports(c) \/ GivesUp(c)
  PROVE  SigningInv'
<1>0. /\ status \in [Clicks -> {"none", "created", "pending", "cancelled"}]
      /\ session \in Clicks \cup {0} /\ sent \subseteq Clicks
      /\ At(c, "report") => c \in sent
  BY DEF SigningInv, TypeOK, ReportsSent
<1>1. ASSUME NEW s \in {"created", "pending", "cancelled"}, status' = [status EXCEPT ![c] = s]
      PROVE  /\ status' \in [Clicks -> {"none", "created", "pending", "cancelled"}]
             /\ \A d \in Clicks : status'[d] = "pending" => status[d] = "pending" \/ (d = c /\ s = "pending")
  <2>1. status'[c] = s /\ \A d \in Clicks : d # c => status'[d] = status[d]
    BY <1>0, <1>1
  <2>2. status' \in [Clicks -> {"none", "created", "pending", "cancelled"}]
    BY <1>0, <1>1
  <2> QED BY <2>1, <2>2
<1>2. ASSUME NEW pc \in FlowStates, Goes(c, pc), flow[c].pc # "none",
             pc = "report" => c \in sent',
             sent' \in {sent, sent \cup {c}}, session' \in Clicks \cup {0},
             status' \in [Clicks -> {"none", "created", "pending", "cancelled"}],
             \A d \in Clicks : status'[d] = "pending" => status[d] = "pending" \/ d \in sent',
             UNCHANGED <<page, connector>>
      PROVE  SigningInv'
  <2>1. Clicked(c)
    BY <1>2 DEF Clicked, NotClicked
  <2>2. FlowsGoOn
    BY <1>2, <2>1, Going
  <2> QED BY <1>2, <2>2, RunSteps
<1> USE DEF FlowStates, At
<1>3. CASE Saves(c)
  BY <1>0, <1>2, <1>3 DEF Saves
<1>4. CASE Rejects(c)
  BY <1>0, <1>2, <1>4 DEF Rejects
<1>5. CASE Approves(c)
  BY <1>0, <1>2, <1>5 DEF Approves
<1>6. CASE ApprovesSilently(c)
  BY <1>0, <1>2, <1>6 DEF ApprovesSilently
<1>7. CASE Creates(c)
  <2>1. /\ status' \in [Clicks -> {"none", "created", "pending", "cancelled"}]
        /\ \A d \in Clicks : status'[d] = "pending" => status[d] = "pending"
        /\ session' \in Clicks \cup {0} /\ sent' = sent
    BY <1>0, <1>1, <1>7 DEF Creates, CreatesTransaction
  <2>2. PICK pc \in {"dead", "sign"} : Goes(c, pc)
    BY <1>7 DEF Creates
  <2> QED BY <1>2, <1>7, <2>1, <2>2 DEF Creates
<1>8. CASE Reports(c)
  <2>1. /\ status' \in [Clicks -> {"none", "created", "pending", "cancelled"}]
        /\ \A d \in Clicks : status'[d] = "pending" => status[d] = "pending" \/ d \in sent
    BY <1>0, <1>1, <1>8 DEF Reports
  <2>2. PICK pc \in {"told", "silent", "give up"} : Goes(c, pc)
    BY <1>8 DEF Reports
  <2> QED BY <1>0, <1>2, <1>8, <2>1, <2>2 DEF Reports
<1>9. CASE GivesUp(c)
  <2>1. /\ status' \in [Clicks -> {"none", "created", "pending", "cancelled"}]
        /\ \A d \in Clicks : status'[d] = "pending" => status[d] = "pending"
    BY <1>0, <1>1, <1>9 DEF GivesUp
  <2>2. PICK pc \in {"told", "dead"} : Goes(c, pc)
    BY <1>9 DEF GivesUp
  <2> QED BY <1>0, <1>2, <1>9, <2>1, <2>2 DEF GivesUp
<1> QED BY <1>3, <1>4, <1>5, <1>6, <1>7, <1>8, <1>9

LEMMA OreIdStep ==
  ASSUME SigningInv, NEW c \in Clicks, OreIdSigned(c) \/ OreIdFailed(c) \/ LeavesOreId(c)
  PROVE  SigningInv'
<1>0. /\ status \in [Clicks -> {"none", "created", "pending", "cancelled"}]
      /\ session \in Clicks \cup {0} /\ sent \subseteq Clicks
  BY DEF SigningInv, TypeOK
<1>1. /\ At(c, "ore-id") /\ Clicked(c) /\ flow[c].tab \in Tabs
  BY DEF OreIdSigned, OreIdFailed, LeavesOreId, At, Clicked, NotClicked, SigningInv, TypeOK,
     FlowState
<1>2. /\ session' \in Clicks \cup {0} /\ Shows(flow[c].tab, "page")
      /\ \E pc \in {"told", "dead", "silent"} : Goes(c, pc)
  BY <1>0 DEF OreIdSigned, OreIdFailed, LeavesOreId
<1>3. /\ status' \in [Clicks -> {"none", "created", "pending", "cancelled"}]
      /\ sent' \in {sent, sent \cup {c}}
      /\ \A d \in Clicks : status'[d] = "pending" => status[d] = "pending" \/ d \in sent'
  <2>1. CASE OreIdSigned(c)
    BY <1>0, <2>1 DEF OreIdSigned
  <2>2. CASE OreIdFailed(c)
    BY <1>0, <2>2 DEF OreIdFailed
  <2>3. CASE LeavesOreId(c)
    BY <1>0, <2>3 DEF LeavesOreId
  <2> QED BY <2>1, <2>2, <2>3
<1>4. FlowsGoOn
  BY <1>1, <1>2, <1>3, Going DEF FlowStates
<1> QED BY <1>1, <1>2, <1>4, ShowSteps

\* What a page that goes away leaves of its runs.
LEMMA UnloadsFlow ==
  ASSUME SigningInv, NEW d \in Clicks, Clicked(d), NEW landed
  PROVE  LET f == [flow[d] EXCEPT !.pc = Unloads(d, landed)]
         IN  /\ f \in FlowState /\ f # NotClicked
            
             /\ f.pc # "report"
<1>1. flow[d] \in [pc: FlowStates, tab: Tabs, button: Buttons, by: Controllers]
  BY DEF SigningInv, TypeOK, FlowState, Clicked
<1>2. Unloads(d, landed) \in FlowStates \ {"report"}
  BY <1>1 DEF Unloads, At, FlowStates
<1> DEFINE pc == Unloads(d, landed)
<1>3. pc \in FlowStates /\ pc # "report" /\ pc # "none"
  BY <1>2 DEF FlowStates
<1> HIDE DEF pc
<1>4. [flow[d] EXCEPT !.pc = pc] \in FlowState /\ [flow[d] EXCEPT !.pc = pc].pc = pc
  BY <1>1, <1>3 DEF FlowState
<1>5. [flow[d] EXCEPT !.pc = pc] # NotClicked
  BY <1>3, <1>4 DEF NotClicked
<1> QED BY <1>3, <1>4, <1>5 DEF pc

\* Runs that end with their page, beside one that takes the page along.
LEMMA UnloadingStep ==
  ASSUME SigningInv, NEW t \in Tabs,
         Reloads(t) \/ \E c \in Clicks : flow[c].tab = t /\ GoesToOreId(c)
  PROVE  SigningInv'
<1>0. /\ status \in [Clicks -> {"none", "created", "pending", "cancelled"}]
      /\ session \in Clicks \cup {0} /\ sent \subseteq Clicks
      /\ flow \in [Clicks -> FlowState] /\ PendingIsSent /\ ReportsSent
  BY DEF SigningInv, TypeOK
<1>1. CASE Reloads(t)
  <2>1. PICK landed \in SUBSET { c \in OfTab(t) : flow[c].pc \in {"new", "report"} } :
          /\ status' = [c \in Clicks |->
               IF c \notin landed THEN status[c]
               ELSE IF At(c, "report") THEN "pending" ELSE "created"]
          /\ flow' = [c \in Clicks |->
               IF c \in OfTab(t) THEN [flow[c] EXCEPT !.pc = Unloads(c, landed)] ELSE flow[c]]
          /\ session' \in {session} \cup { c \in landed : At(c, "new") }
    BY <1>1 DEF Reloads
  <2>2. landed \subseteq Clicks /\ sent' = sent /\ Shows(t, "page")
    BY <1>1, <2>1 DEF Reloads, OfTab
  <2>3. \A c \in OfTab(t) :
          /\ c \in Clicks /\ Clicked(c)
          /\ flow'[c] \in FlowState /\ flow'[c] # NotClicked
          /\ flow'[c].pc # "report"
    <3> SUFFICES ASSUME NEW c \in OfTab(t)
                 PROVE  /\ c \in Clicks /\ Clicked(c)
                        /\ flow'[c] \in FlowState /\ flow'[c] # NotClicked
                        /\ flow'[c].pc # "report"
      OBVIOUS
    <3>1. c \in Clicks /\ Clicked(c)
      BY DEF OfTab, Clicked
    <3>2. flow'[c] = [flow[c] EXCEPT !.pc = Unloads(c, landed)]
      BY <2>1, <3>1
    <3> QED BY <3>1, <3>2, UnloadsFlow
  <2>4. flow' \in [Clicks -> FlowState] /\ \A c \in Clicks \ OfTab(t) : flow'[c] = flow[c]
    BY <1>0, <2>1, <2>3
  <2>5. /\ status' \in [Clicks -> {"none", "created", "pending", "cancelled"}]
        /\ session' \in Clicks \cup {0}
        /\ \A c \in Clicks : status'[c] = "pending" => status[c] = "pending" \/ At(c, "report")
    BY <1>0, <2>1, <2>2
  <2>6. PendingIsSent'
    BY <1>0, <2>2, <2>5 DEF PendingIsSent, ReportsSent
  <2>7. FlowsGoOn
    BY <1>0, <2>2, <2>3, <2>4, <2>5, <2>6 DEF FlowsGoOn, Clicked, At
  <2> QED BY <2>2, <2>7, ShowSteps
<1>2. ASSUME NEW c \in Clicks, flow[c].tab = t, GoesToOreId(c) PROVE SigningInv'
  <2>1. /\ At(c, "new") /\ sent' = sent /\ Shows(t, "ore-id")
        /\ status' = [status EXCEPT ![c] = "created"] /\ session' = c
        /\ flow' = [d \in Clicks |->
             IF d = c THEN [flow[c] EXCEPT !.pc = "ore-id"]
             ELSE IF d \in OfTab(t) THEN [flow[d] EXCEPT !.pc = Unloads(d, {})]
             ELSE flow[d]]
    BY <1>2 DEF GoesToOreId, CreatesTransaction
  <2>2. Clicked(c) /\ flow[c] \in [pc: FlowStates, tab: Tabs, button: Buttons, by: Controllers]
    BY <1>0, <2>1 DEF Clicked, At, NotClicked, FlowState
  <2>3. /\ flow'[c] \in FlowState /\ flow'[c] # NotClicked
        /\ flow'[c].pc # "report"
    <3>1. flow'[c] = [flow[c] EXCEPT !.pc = "ore-id"] /\ "ore-id" \in FlowStates
      BY <2>1 DEF FlowStates
    <3>2. flow'[c] \in FlowState /\ flow'[c].pc = "ore-id"
      BY <2>2, <3>1 DEF FlowState
    <3> QED BY <3>2 DEF NotClicked
  <2>4. \A d \in OfTab(t) \ {c} :
          /\ d \in Clicks /\ Clicked(d)
          /\ flow'[d] \in FlowState /\ flow'[d] # NotClicked
          /\ flow'[d].pc # "report"
    <3> SUFFICES ASSUME NEW d \in OfTab(t) \ {c}
                 PROVE  /\ d \in Clicks /\ Clicked(d)
                        /\ flow'[d] \in FlowState /\ flow'[d] # NotClicked
                        /\ flow'[d].pc # "report"
      OBVIOUS
    <3>1. d \in Clicks /\ Clicked(d)
      BY DEF OfTab, Clicked
    <3>2. flow'[d] = [flow[d] EXCEPT !.pc = Unloads(d, {})]
      BY <2>1, <3>1
    <3> QED BY <3>1, <3>2, UnloadsFlow
  <2>5. flow' \in [Clicks -> FlowState] /\ \A d \in Clicks \ (OfTab(t) \cup {c}) : flow'[d] = flow[d]
    BY <1>0, <2>1, <2>3, <2>4
  <2>6. /\ status' \in [Clicks -> {"none", "created", "pending", "cancelled"}]
        /\ \A d \in Clicks : status'[d] = "pending" => status[d] = "pending"
    BY <1>0, <2>1
  <2>7. FlowsGoOn
    BY <1>0, <2>1, <2>2, <2>3, <2>4, <2>5, <2>6 DEF FlowsGoOn, Clicked, At, PendingIsSent
  <2> QED BY <2>1, <2>7, ShowSteps
<1> QED BY <1>1, <1>2

\* A click begins the next run.
LEMMA ClickStep ==
  ASSUME SigningInv, NEW t \in Tabs, NEW b \in Buttons, ClicksSend(t, b)
  PROVE  SigningInv'
<1>0. /\ page \in [Tabs -> PageState] /\ flow \in [Clicks -> FlowState]
      /\ page[t].accounts \subseteq Controllers
  BY DEF SigningInv, TypeOK, PageState
<1>1. PICK c \in Clicks, pc \in {"save", "new"} :
        flow' = [flow EXCEPT ![c] = [pc |-> pc, tab |-> t, button |-> b, by |-> page[t].bound]]
  BY DEF ClicksSend
<1>2. /\ page[t].bound \in page[t].accounts
      /\ UNCHANGED <<page, connector, status, sent, session>>
  BY DEF ClicksSend
<1> DEFINE f == [pc |-> pc, tab |-> t, button |-> b, by |-> page[t].bound]
<1>3. f \in FlowState /\ f.pc = pc
  BY <1>0, <1>2 DEF FlowState, FlowStates
<1>4. flow' = [flow EXCEPT ![c] = f]
  BY <1>1
<1> HIDE DEF f
<1>5. FlowsGoOn
  BY <1>0, <1>2, <1>3, <1>4 DEF SigningInv, TypeOK, FlowsGoOn, At, PendingIsSent
<1> QED BY <1>2, <1>5, RunSteps

-----------------------------------------------------------------------------

LEMMA SigningInit == Init => SigningInv
<1> SUFFICES ASSUME Init PROVE SigningInv
  OBVIOUS
<1>1. NewPage("page") \in PageState /\ NewPage("page").bound = "null"
  BY SigningAssumption DEF NewPage, PageState, Listening
<1>2. TypeOK
  BY <1>1 DEF Init, TypeOK, FlowState
<1>3. ReportsSent /\ PendingIsSent
  BY DEF Init, ReportsSent, At, NotClicked, PendingIsSent
<1>4. \A t \in Tabs : GoodPage(t, page[t], connector[t])
  BY <1>1, <1>2 DEF Init, TypeOK, GoodPage
<1> QED BY <1>2, <1>3, <1>4 DEF SigningInv

LEMMA SigningKept == Spec => []SigningInv
<1>1. SigningInv /\ [Next]_vars => SigningInv'
  <2> SUFFICES ASSUME SigningInv, Next \/ UNCHANGED vars PROVE SigningInv'
    OBVIOUS
  <2>1. ASSUME NEW t \in Tabs,
               \/ SwitchesMetaMask(t) \/ MetaMaskChangesAccounts(t) \/ SwitchesOreId(t)
               \/ KillsWalletConnect(t) \/ InitsWalletConnect(t) \/ Reloads(t)
               \/ \E i \in Connectors : WalletConnectEvent(t, i) \/ WalletConnectEnds(t, i)
               \/ \E b \in Buttons : ClicksSend(t, b)
        PROVE  SigningInv'
    BY <2>1, SwitchesStep, WalletConnectStep, UnloadingStep, ClickStep
  <2>2. ASSUME NEW c \in Clicks, GoesToOreId(c) PROVE SigningInv'
    <3>1. flow[c].tab \in Tabs
      BY <2>2 DEF GoesToOreId, At, NotClicked, SigningInv, TypeOK, FlowState
    <3> QED BY <2>2, <3>1, UnloadingStep
  <2>3. ASSUME NEW c \in Clicks,
               \/ Saves(c) \/ Creates(c) \/ Approves(c) \/ ApprovesSilently(c) \/ Rejects(c)
               \/ Reports(c) \/ GivesUp(c) \/ OreIdSigned(c) \/ OreIdFailed(c) \/ LeavesOreId(c)
        PROVE  SigningInv'
    BY <2>3, SendTxStep, OreIdStep
  <2>4. CASE UNCHANGED vars
    <3>1. \A t \in Tabs : GoodPage(t, page[t], connector[t])'
      BY <2>4 DEF vars, SigningInv, GoodPage
    <3> QED BY <2>4, <3>1 DEF vars, SigningInv, TypeOK, ReportsSent, At, PendingIsSent
  <2> QED BY <2>1, <2>2, <2>3, <2>4 DEF Next
<1> QED BY <1>1, SigningInit, PTL DEF Spec

\* updateTargets and the listeners of the three controllers: the buttons of a
\* page never belong to MetaMask or ORE ID without an account of theirs.
THEOREM ButtonsHaveAccounts == Spec => []BoundHasAccounts
<1>1. SigningInv => BoundHasAccounts
  BY DEF SigningInv, GoodPage, BoundHasAccounts
<1> QED BY <1>1, SigningKept, PTL

\* onSessionUpdate: WalletConnect has them without accounts or an object only
\* after one of its objects was killed or closed.
THEOREM StaleIsReplaced == Spec => []StaleWalletConnect
<1>1. SigningInv => StaleWalletConnect
  BY DEF SigningInv, GoodPage, StaleWalletConnect, Connected
<1> QED BY <1>1, SigningKept, PTL

\* receive of both sign controllers: pending is said of broadcast payments
\* only, in whatever order tabs, prompts and answers come.
THEOREM PendingWasSent == Spec => [](TypeOK /\ PendingIsSent)
<1>1. SigningInv => TypeOK /\ PendingIsSent
  BY DEF SigningInv
<1> QED BY <1>1, SigningKept, PTL

=============================================================================

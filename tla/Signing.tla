------------------------------ MODULE Signing ------------------------------
(***************************************************************************)
(* The pages on which people sign with a wallet of their own: the three    *)
(* Stimulus controllers of app/javascript/controllers/sign, mounted side   *)
(* by side on one element, and the two Rails controllers they call         *)
(* (app/controllers/sign). One browser, with one server session and        *)
(* several tabs; wallets answer, keep silent and change their accounts.    *)
(*                                                                         *)
(* The n-th click on a transfer button is the n-th run of sendTx, and the  *)
(* transaction it creates, if it gets that far, has the same number.       *)
(* Which address an account is does not matter here: the wallet refuses to *)
(* sign for another one.                                                   *)
(***************************************************************************)
EXTENDS Naturals

CONSTANTS
  Tabs,           \* tabs of one browser
  Offers,         \* the controllers that people of a tab connect, of those its page has
  Buttons,        \* transfer buttons of a page
  MaxClicks,      \* bound: clicks on transfer buttons
  MaxConnectors,  \* bound: WalletConnect objects that a page creates
  SigningFaults   \* which of AllSigningFaults happen

AllSigningFaults ==
  { "lost",     \* the call of receive fails in the browser
    "refused",  \* receive changes nothing: no session, another account, an award
                \* that is not accepted any more, a hash that is not saved
    "silent",   \* a wallet broadcasts and never answers, or never comes back
    "reload" }  \* people reload a page, or leave ORE ID, whatever goes on

Controllers == {"metamask", "wallet-connect", "ore-id"}

\* supported_by_wallet_connect? (which stands for MetaMask, too) and
\* supported_by_ore_id? of the project's blockchain decide what is offered.
ASSUME SigningAssumption ==
  /\ Offers \in [Tabs -> SUBSET Controllers]
  /\ MaxClicks \in Nat /\ MaxConnectors \in Nat
  /\ SigningFaults \subseteq AllSigningFaults

Clicks == 1..MaxClicks
Connectors == 1..MaxConnectors

VARIABLES
  page,      \* what the controllers of each tab keep, and its buttons
  connector, \* the WalletConnect objects of each tab
  flow,      \* the runs of sendTx
  status,    \* BlockchainTransaction#status of the transactions they created
  sent,      \* the transactions that a wallet has broadcast
  session    \* session[:sign_ore_id_fallback_state]: a transaction, or 0

vars == <<page, connector, flow, status, sent, session>>

\* MetaMask: no listener yet; one, and an onboarding object; one only.
Listening == {"no", "onboarding", "stopped"}

\* accounts: the controllers for which `accounts` is set. bound is
\* dataset.connectedController, the same for all buttons. The class that sendTx
\* takes from a button keeps the pointer off it; the link keeps its focus, a
\* key still runs sendTx, and no line of it reads the class.
PageState ==
  [at: {"page", "ore-id"}, accounts: SUBSET Controllers, listening: Listening,
   connector: Connectors \cup {0}, made: 0..MaxConnectors,
   bound: Controllers \cup {"null"}]

NewPage(at) ==
  [at |-> at, accounts |-> {}, listening |-> "no", connector |-> 0, made |-> 0,
   bound |-> "null"]

\* "orphan": the wallet still shows its prompt, for a page that is gone.
\* "silent", "dead": nothing runs any more; the server was not told.
FlowStates == {"save", "new", "sign", "ore-id", "orphan", "report", "give up",
               "silent", "dead", "told"}
NotClicked == [pc |-> "none"]
FlowState == {NotClicked} \cup
  [pc: FlowStates, tab: Tabs, button: Buttons, by: Controllers]

TypeOK ==
  /\ page \in [Tabs -> PageState]
  /\ connector \in [Tabs -> [Connectors -> {"none", "pairing", "connected", "killed", "closed"}]]
  /\ flow \in [Clicks -> FlowState]
  /\ status \in [Clicks -> {"none", "created", "pending", "cancelled"}]
  /\ sent \subseteq Clicks
  /\ session \in Clicks \cup {0}

Init ==
  /\ page = [t \in Tabs |-> NewPage("page")]
  /\ connector = [t \in Tabs |-> [i \in Connectors |-> "none"]]
  /\ flow = [c \in Clicks |-> NotClicked]
  /\ status = [c \in Clicks |-> "none"]
  /\ sent = {}
  /\ session = 0

OfTab(t) == { c \in Clicks : flow[c] # NotClicked /\ flow[c].tab = t }
OnPage(t) == page[t].at = "page"
At(c, pc) == flow[c].pc = pc
Goes(c, pc) == flow' = [flow EXCEPT ![c].pc = pc]

-----------------------------------------------------------------------------
(* Connecting and disconnecting                                             *)

\* Mutant: disconnecting leaves the buttons bound.
UpdatesWhenPresent(p, by, present) ==
  [p EXCEPT !.bound = IF present THEN by ELSE @]

\* updateTargets of one controller writes the buttons of all of them.
UpdateTargets(p, by, present) ==
  [p EXCEPT !.bound = IF present THEN by ELSE "null"]

SetAccounts(p, by, present) ==
  [p EXCEPT !.accounts = IF present THEN @ \cup {by} ELSE @ \ {by}]

\* MetaMask and ORE ID: the accounts are set and the targets updated at once.
HasAccounts(t, by, present, listening) ==
  /\ page' = [page EXCEPT ![t] =
       UpdateTargets([SetAccounts(@, by, present) EXCEPT !.listening = listening],
                     by, present)]
  /\ UNCHANGED <<connector, flow, status, sent, session>>

\* switch of metamask. Disconnecting drops the onboarding object, and without
\* one it throws before it does anything. metamaskInit subscribes for good, and
\* asks; people may refuse, and then nothing calls onAccountsUpdate.
SwitchesMetaMask(t) ==
  /\ OnPage(t) /\ "metamask" \in Offers[t]
  /\ \/ "metamask" \in page[t].accounts /\ page[t].listening = "onboarding"
        /\ HasAccounts(t, "metamask", FALSE, "stopped")
     \/ "metamask" \notin page[t].accounts /\ HasAccounts(t, "metamask", TRUE, "onboarding")
     \/ /\ "metamask" \notin page[t].accounts
        /\ page' = [page EXCEPT ![t].listening = "onboarding"]
        /\ UNCHANGED <<connector, flow, status, sent, session>>

\* accountsChanged, also after switch has "disconnected" MetaMask.
MetaMaskChangesAccounts(t) ==
  /\ OnPage(t) /\ page[t].listening # "no"
  /\ \E present \in BOOLEAN : HasAccounts(t, "metamask", present, page[t].listening)

\* switch of ore-id; without a linked account the browser visits the link page.
SwitchesOreId(t) ==
  /\ OnPage(t) /\ "ore-id" \in Offers[t]
  /\ HasAccounts(t, "ore-id", "ore-id" \notin page[t].accounts, page[t].listening)

\* Mutant: the targets follow the accounts of whichever object reports.
SessionUpdateOfAny(p, conn, present) ==
  UpdateTargets(SetAccounts(p, "wallet-connect", present), "wallet-connect", present)

\* onSessionUpdate: accounts come from the object whose event it is, and the
\* targets are updated from the object that the controller holds now.
SessionUpdate(p, conn, present) ==
  UpdateTargets(SetAccounts(p, "wallet-connect", present), "wallet-connect",
                p.connector # 0 /\ conn[p.connector] = "connected")

Connected(t) == page[t].connector # 0 /\ connector[t][page[t].connector] = "connected"

\* switch of wallet-connect, first branch: killSession tells the wallet, and
\* the disconnect event comes later.
KillsWalletConnect(t) ==
  /\ OnPage(t)
  /\ Connected(t) /\ "wallet-connect" \in page[t].accounts
  /\ connector' = [connector EXCEPT ![t][page[t].connector] = "killed"]
  /\ page' = [page EXCEPT ![t].connector = 0]
  /\ UNCHANGED <<flow, status, sent, session>>

\* The other branch: walletConnectInit. A session kept by the browser makes
\* the new object connected; else it shows a code to scan.
InitsWalletConnect(t) ==
  /\ OnPage(t) /\ "wallet-connect" \in Offers[t]
  /\ ~(Connected(t) /\ "wallet-connect" \in page[t].accounts)
  /\ page[t].made < MaxConnectors
  /\ LET new == page[t].made + 1
         p == [page[t] EXCEPT !.connector = new, !.made = new]
     IN \/ /\ connector' = [connector EXCEPT ![t][new] = "pairing"]
           /\ page' = [page EXCEPT ![t] = p]
        \/ /\ connector' = [connector EXCEPT ![t][new] = "connected"]
           /\ page' = [page EXCEPT ![t] = SessionUpdate(p, connector'[t], TRUE)]
  /\ UNCHANGED <<flow, status, sent, session>>

\* connect and session_update, of any object the page ever made.
WalletConnectEvent(t, i) ==
  /\ OnPage(t)
  /\ connector[t][i] \in {"pairing", "connected"}
  /\ connector' = [connector EXCEPT ![t][i] = "connected"]
  /\ page' = [page EXCEPT ![t] = SessionUpdate(@, connector'[t], TRUE)]
  /\ UNCHANGED <<flow, status, sent, session>>

\* disconnect has no accounts. (_connector, which it clears, is read nowhere.)
WalletConnectEnds(t, i) ==
  /\ OnPage(t)
  /\ connector[t][i] \in {"connected", "killed"}
  /\ connector' = [connector EXCEPT ![t][i] = "closed"]
  /\ page' = [page EXCEPT ![t] = SessionUpdate(@, connector'[t], FALSE)]
  /\ UNCHANGED <<flow, status, sent, session>>

-----------------------------------------------------------------------------
(* sendTx                                                                   *)

\* The page goes away. A prompt stays open, a request on its way may or may
\* not have reached the server, and nobody handles what comes back.
Unloads(c, landed) ==
  IF At(c, "sign") THEN "orphan"
  ELSE IF At(c, "report") /\ c \in landed THEN "told"
  ELSE IF flow[c].pc \in {"save", "new", "report", "give up"} THEN "dead"
  ELSE flow[c].pc

\* The tab leaves its page for ORE ID, or for a new page (or an error page,
\* from which people go back).
Shows(t, at) ==
  /\ page' = [page EXCEPT ![t] = NewPage(at)]
  /\ connector' = [connector EXCEPT ![t] = [i \in Connectors |-> "none"]]

\* Only the controller the buttons are bound to goes on, if it has accounts.
\* A button has the URLs of its transaction, or saves a form to get them. That
\* it has been clicked before keeps nobody from clicking it again.
ClicksSend(t, b) ==
  /\ OnPage(t)
  /\ page[t].bound \in page[t].accounts
  /\ \E c \in Clicks, pc \in {"save", "new"} :
       /\ flow[c] = NotClicked /\ \A d \in Clicks : d < c => flow[d] # NotClicked
       /\ flow' = [flow EXCEPT ![c] =
            [pc |-> pc, tab |-> t, button |-> b, by |-> page[t].bound]]
  /\ UNCHANGED <<page, connector, status, sent, session>>

\* saveTransactable. `accounts` is read again after it: a TypeError when the
\* wallet is gone. An invalid record answers with a page instead of JSON.
Saves(c) ==
  /\ At(c, "save")
  /\ \/ /\ flow[c].by \in page[flow[c].tab].accounts \cup {"ore-id"}
        /\ Goes(c, "new")
     \/ Goes(c, "dead")
  /\ UNCHANGED <<page, connector, status, sent, session>>

\* The new action of the two sign controllers: the transaction, and the state
\* it leaves in the session. (`pay?` lets any accepted award through.)
CreatesTransaction(c) ==
  /\ status' = [status EXCEPT ![c] = "created"]
  /\ session' = c

\* The wallet is asked as soon as the answer is there; a WalletConnect
\* controller that holds no object any more throws instead.
Creates(c) ==
  /\ At(c, "new") /\ flow[c].by # "ore-id"
  /\ \/ /\ CreatesTransaction(c)
        /\ Goes(c, IF flow[c].by = "wallet-connect" /\ page[flow[c].tab].connector = 0
                   THEN "dead" ELSE "sign")
     \/ Goes(c, "dead") /\ UNCHANGED <<status, session>>
  /\ UNCHANGED <<page, connector, sent>>

\* ORE ID takes the whole tab along; the other runs of sendTx in it end here.
GoesToOreId(c) ==
  /\ At(c, "new") /\ flow[c].by = "ore-id"
  /\ CreatesTransaction(c)
  /\ flow' = [d \in Clicks |->
       IF d = c THEN [flow[c] EXCEPT !.pc = "ore-id"]
       ELSE IF d \in OfTab(flow[c].tab) THEN [flow[d] EXCEPT !.pc = Unloads(d, {})]
       ELSE flow[d]]
  /\ Shows(flow[c].tab, "ore-id")
  /\ UNCHANGED sent

\* eth_sendTransaction or sendTransaction resolves with a hash.
Approves(c) ==
  /\ flow[c].pc \in {"sign", "orphan"}
  /\ sent' = sent \cup {c}
  /\ Goes(c, IF At(c, "orphan") THEN "dead" ELSE "report")
  /\ UNCHANGED <<page, connector, status, session>>

\* The wallet broadcasts, and its answer never arrives.
ApprovesSilently(c) ==
  /\ "silent" \in SigningFaults
  /\ At(c, "sign")
  /\ sent' = sent \cup {c}
  /\ Goes(c, "silent")
  /\ UNCHANGED <<page, connector, status, session>>

\* People refuse, or the wallet fails before it broadcasts.
Rejects(c) ==
  /\ flow[c].pc \in {"sign", "orphan"}
  /\ Goes(c, IF At(c, "orphan") THEN "dead" ELSE "give up")
  /\ UNCHANGED <<page, connector, status, sent, session>>

\* The .then: receive with the hash. Any answer will do, a refusal too. When
\* the call fails, the .catch of the prompt gets it, whether the server has
\* seen the call or not.
Reports(c) ==
  /\ At(c, "report")
  /\ \/ status' = [status EXCEPT ![c] = "pending"] /\ Goes(c, "told")
     \/ "refused" \in SigningFaults /\ Goes(c, "silent") /\ UNCHANGED status
     \/ /\ "lost" \in SigningFaults
        /\ status' \in {status, [status EXCEPT ![c] = "pending"]}
        /\ Goes(c, "give up")
  /\ UNCHANGED <<page, connector, sent, session>>

\* Mutant: the error is not looked at, and the transaction goes on.
GivesUpAsPending(c) ==
  /\ At(c, "give up")
  /\ status' = [status EXCEPT ![c] = "pending"] /\ Goes(c, "told")
  /\ UNCHANGED <<page, connector, sent, session>>

\* The .catch: receive with an error cancels, whatever the status is.
GivesUp(c) ==
  /\ At(c, "give up")
  /\ \/ status' = [status EXCEPT ![c] = "cancelled"] /\ Goes(c, "told")
     \/ /\ SigningFaults \cap {"refused", "lost"} # {}
        /\ Goes(c, "dead") /\ UNCHANGED status
  /\ UNCHANGED <<page, connector, sent, session>>

-----------------------------------------------------------------------------
(* Coming back from ORE ID, and reloading                                   *)

\* receive of ore_id_controller with a transaction id: the state is a
\* parameter, but the fallback state is taken out of the session first. What
\* ORE ID signed is sent, whether or not the browser comes back.
OreIdSigned(c) ==
  /\ At(c, "ore-id")
  /\ sent' = sent \cup {c}
  /\ \/ status' = [status EXCEPT ![c] = "pending"] /\ session' = 0 /\ Goes(c, "told")
     \/ "refused" \in SigningFaults /\ session' = 0 /\ Goes(c, "silent") /\ UNCHANGED status
     \/ "silent" \in SigningFaults /\ Goes(c, "silent") /\ UNCHANGED <<status, session>>
  /\ Shows(flow[c].tab, "page")

\* ... with an error: the state is not passed on by ORE ID, and the session
\* tells which transaction failed. An empty one finds nothing (404).
OreIdFailed(c) ==
  /\ At(c, "ore-id")
  /\ \/ status' = IF session = 0 THEN status ELSE [status EXCEPT ![session] = "cancelled"]
     \/ "refused" \in SigningFaults /\ UNCHANGED status
  /\ session' = 0
  /\ Goes(c, IF session = c THEN "told" ELSE "dead")
  /\ Shows(flow[c].tab, "page")
  /\ UNCHANGED sent

\* People go back from ORE ID without a signature.
LeavesOreId(c) ==
  /\ "reload" \in SigningFaults /\ At(c, "ore-id")
  /\ Goes(c, "dead")
  /\ Shows(flow[c].tab, "page")
  /\ UNCHANGED <<status, sent, session>>

\* The requests of a page that goes away may land all the same.
Reloads(t) ==
  /\ "reload" \in SigningFaults /\ OnPage(t)
  /\ \E landed \in SUBSET { c \in OfTab(t) : flow[c].pc \in {"new", "report"} } :
       /\ status' = [c \in Clicks |->
            IF c \notin landed THEN status[c]
            ELSE IF At(c, "report") THEN "pending" ELSE "created"]
       /\ flow' = [c \in Clicks |->
            IF c \in OfTab(t) THEN [flow[c] EXCEPT !.pc = Unloads(c, landed)] ELSE flow[c]]
       /\ session' \in {session} \cup { c \in landed : At(c, "new") }
  /\ Shows(t, "page")
  /\ UNCHANGED sent

-----------------------------------------------------------------------------

Next ==
  \/ \E t \in Tabs :
       \/ SwitchesMetaMask(t) \/ MetaMaskChangesAccounts(t) \/ SwitchesOreId(t)
       \/ KillsWalletConnect(t) \/ InitsWalletConnect(t) \/ Reloads(t)
       \/ \E i \in Connectors : WalletConnectEvent(t, i) \/ WalletConnectEnds(t, i)
       \/ \E b \in Buttons : ClicksSend(t, b)
  \/ \E c \in Clicks :
       \/ Saves(c) \/ Creates(c) \/ GoesToOreId(c)
       \/ Approves(c) \/ ApprovesSilently(c) \/ Rejects(c)
       \/ Reports(c) \/ GivesUp(c) \/ OreIdSigned(c) \/ OreIdFailed(c)
       \/ LeavesOreId(c)

Spec == Init /\ [][Next]_vars

-----------------------------------------------------------------------------

\* Buttons are bound to a controller that can use them: no order of connects,
\* switches, late events and disconnects of three wallets leaves them with
\* one that has no accounts, except WalletConnect, which reports for objects
\* the page has replaced.
BoundHasAccounts ==
  \A t \in Tabs : page[t].bound \in {"null", "wallet-connect"} \cup page[t].accounts

\* A bound WalletConnect button without accounts, or without an object, is
\* the doing of an object that was replaced or killed.
StaleWalletConnect ==
  \A t \in Tabs :
    /\ page[t].bound = "wallet-connect"
    /\ ~Connected(t) \/ "wallet-connect" \notin page[t].accounts
    => \E i \in Connectors : connector[t][i] \in {"killed", "closed"}

\* The server says pending of broadcast payments only, whatever the order in
\* which tabs, wallets and their answers come.
PendingIsSent == \A c \in Clicks : status[c] = "pending" => c \in sent

=============================================================================

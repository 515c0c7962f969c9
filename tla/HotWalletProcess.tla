------------------------- MODULE HotWalletProcess -------------------------
(***************************************************************************)
(* The process around the loop of HotWallet (hotwallet/app.js): it checks  *)
(* its environment, generates and registers the wallet of the project once *)
(* and keeps its keys in Redis; before each request it looks at its coins, *)
(* prepares the wallet (an Algorand opt-in, an ERC20 approval) and looks   *)
(* at its tokens. pm2 starts it again whenever it exits with an error, and *)
(* a deployment starts it again with another environment.                  *)
(***************************************************************************)
EXTENDS HotWallet

CONSTANTS
  Networks,  \* the kinds of blockchain: a subset of NetworkKinds
  Targets,   \* apps to opt in to, and approval contracts
  Contracts, \* token contracts (ethereumContractAddress)
  MaxKeys    \* bound: wallets ever generated

NetworkKinds == {"algorand", "ethereum"}
NoTarget == "none"

ASSUME ProcessAssumption ==
  /\ Networks \subseteq NetworkKinds
  /\ NoTarget \notin Targets \cup Contracts
  /\ MaxKeys \in Nat

VARIABLES
  env,         \* the environment variables the running process was given
  proc,        \* where the process is, and the wallet it has just generated
  nKeys,       \* wallets generated so far: their addresses are 1..nKeys
  registered,  \* the address the server has for the project, 0 if none
  saved,       \* the address whose keys are in Redis, 0 if none
  recorded,    \* optedInApps or approvedContract in Redis
  prepared     \* on the chain: the apps the wallet is opted in to, or the pairs
               \* of an approval contract and a token contract it has approved

ownVars == <<env, proc, nKeys, registered, saved, recorded, prepared>>
wholeVars == <<allVars, ownVars>>

Keys == 1..MaxKeys

\* checkAllVariablesAreSet asks Algorand for the app; an approval contract is
\* optional, and only two token types ("batches") know what to approve.
Envs ==
  { e \in [network: Networks, complete: BOOLEAN, target: Targets \cup {NoTarget},
           contract: Contracts \cup {NoTarget}, batches: BOOLEAN] :
      /\ e.network = "algorand" <=> e.contract = NoTarget
      /\ e.network = "algorand" => e.batches /\ (e.complete => e.target # NoTarget) }

\* What the chain must have: an approval is one contract's leave to the other
\* (which of the two spends depends on the token type), an opt-in names no
\* token contract.
Wanted == <<env.target, env.contract>>

\* "stopped": app.js ended without runServer, and Redis keeps Node alive, so
\* pm2 sees nothing to restart. "asked": HotWallet holds a request or a
\* transaction; it is back at the top of the loop when HotWallet is idle.
ProcState == [pc: {"down", "register", "save", "stopped", "loop", "prepare",
                   "tokens", "ask", "asked"}, key: Keys \cup {0}]
Down == [pc |-> "down", key |-> 0]

PwTypeOK ==
  /\ HwTypeOK
  /\ env \in Envs
  /\ proc \in ProcState
  /\ nKeys \in 0..MaxKeys
  /\ registered \in Keys \cup {0}
  /\ saved \in Keys \cup {0}
  /\ recorded \subseteq Targets
  /\ prepared \subseteq Targets \X (Contracts \cup {NoTarget})

PwInit ==
  /\ HwInit
  /\ env \in Envs
  /\ proc = Down
  /\ nKeys = 0
  /\ registered = 0 /\ saved = 0
  /\ recorded = {} /\ prepared = {}

InProcess(pc) == proc.pc = pc
Move(pc) == proc' = [proc EXCEPT !.pc = pc]

-----------------------------------------------------------------------------
(* Starting: environment, keys, registration                                *)

\* app.js and hotWalletInitialization: nothing without a complete environment;
\* the wallet in Redis is used; without one a wallet is generated.
Starts ==
  /\ InProcess("down")
  /\ \/ ~env.complete /\ Move("stopped") /\ UNCHANGED nKeys
     \/ env.complete /\ saved # 0 /\ Move("loop") /\ UNCHANGED nKeys
     \/ /\ env.complete /\ saved = 0 /\ nKeys < MaxKeys
        /\ proc' = [pc |-> "register", key |-> nKeys + 1]
        /\ nKeys' = nKeys + 1
  /\ UNCHANGED <<allVars, env, registered, saved, recorded, prepared>>

\* Mutant: the server replaces the wallet that a project has.
RegistersAgain ==
  /\ InProcess("register")
  /\ registered' = proc.key
  /\ Move("save") \/ ("reply_lost" \in HwFaults /\ Move("stopped"))
  /\ UNCHANGED <<allVars, env, nKeys, saved, recorded, prepared>>

\* Mutant: the answer of the server is not looked at.
RegistersAnyway ==
  /\ InProcess("register")
  /\ registered' = IF registered = 0 THEN proc.key ELSE registered
  /\ Move("save")
  /\ UNCHANGED <<allVars, env, nKeys, saved, recorded, prepared>>

\* registerHotWallet: a project that has a wallet refuses another (422).
\* Anything but 201, the lost answer too, ends the initialization.
Registers ==
  /\ InProcess("register")
  /\ \/ /\ registered = 0
        /\ registered' = proc.key
        /\ Move("save") \/ ("reply_lost" \in HwFaults /\ Move("stopped"))
     \/ /\ registered # 0 \/ "reply_lost" \in HwFaults
        /\ Move("stopped")
        /\ UNCHANGED registered
  /\ UNCHANGED <<allVars, env, nKeys, saved, recorded, prepared>>

\* saveNewHotWallet, after the 201.
SavesKeys ==
  /\ InProcess("save")
  /\ saved' = proc.key
  /\ Move("loop")
  /\ UNCHANGED <<allVars, env, nKeys, registered, recorded, prepared>>

-----------------------------------------------------------------------------
(* One pass of waitForNewTransaction up to the request                      *)

\* hotWallet.isReadyToSendTx: of a pair only the approval contract is recorded.
IsReady == env.target \in recorded

\* The wallet has coins now; without, the pass ends here and changes nothing.
SeesCoins ==
  /\ InProcess("loop")
  /\ Move(IF IsReady THEN "tokens" ELSE "prepare")
  /\ UNCHANGED <<allVars, env, nKeys, registered, saved, recorded, prepared>>

\* Mutant: the configured app is recorded, whatever the chain says.
RecordsConfiguredApp ==
  /\ InProcess("prepare")
  /\ env.network = "algorand"
  /\ recorded' = {env.target}
  /\ Move("tokens")
  /\ UNCHANGED <<allVars, env, nKeys, registered, saved, prepared>>

\* optInOrSyncApp finds the opt-in on the chain: all opt-ins go to Redis.
SyncsOptIns ==
  /\ InProcess("prepare")
  /\ env.network = "algorand"
  /\ Wanted \in prepared
  /\ recorded' = { pair[1] : pair \in prepared }
  /\ Move("tokens")
  /\ UNCHANGED <<allVars, env, nKeys, registered, saved, prepared>>

\* Mutant: the pass goes on after an opt-in that failed.
GoesOnWithoutOptIn ==
  /\ InProcess("prepare")
  /\ env.network = "algorand"
  /\ Move("tokens")
  /\ UNCHANGED <<allVars, env, nKeys, registered, saved, recorded, prepared>>

\* optInOrSyncApp opts in, which the chain takes or not, and assigns the
\* result to an undeclared variable; the body of a class is strict code, so
\* that throws, runServer exits, and pm2 starts the process again.
OptsIn ==
  /\ InProcess("prepare")
  /\ env.network = "algorand"
  /\ prepared' \in {prepared, prepared \cup {Wanted}}
  /\ proc' = Down
  /\ UNCHANGED <<allVars, env, nKeys, registered, saved, recorded>>

\* approveContractTransactions succeeds, and the save of the contract is
\* not waited for: it is lost if the process dies right now.
Approves ==
  /\ InProcess("prepare")
  /\ env.network = "ethereum" /\ env.target # NoTarget /\ env.batches
  /\ prepared' = prepared \cup {Wanted}
  /\ \/ recorded' = {env.target} /\ Move("tokens")
     \/ "crash" \in HwFaults /\ proc' = Down /\ UNCHANGED recorded
  /\ UNCHANGED <<allVars, env, nKeys, registered, saved>>

\* It fails, or no approval is configured: the pass goes on all the same.
SkipsApproval ==
  /\ InProcess("prepare")
  /\ env.network = "ethereum" /\ (env.target # NoTarget => env.batches)
  /\ Move("tokens")
  /\ UNCHANGED <<allVars, env, nKeys, registered, saved, recorded, prepared>>

\* A token type without batches leaves approveTx undefined: a TypeError.
ThrowsOnApproval ==
  /\ InProcess("prepare")
  /\ env.network = "ethereum" /\ env.target # NoTarget /\ ~env.batches
  /\ proc' = Down
  /\ UNCHANGED <<allVars, env, nKeys, registered, saved, recorded, prepared>>

\* positiveTokenBalance: people top the wallet up, and transfers use it up.
SeesTokens ==
  /\ InProcess("tokens")
  /\ Move("ask") \/ Move("loop")
  /\ UNCHANGED <<allVars, env, nKeys, registered, saved, recorded, prepared>>

-----------------------------------------------------------------------------
(* The request, and the rest of the pass                                    *)

Asks(r) ==
  /\ InProcess("ask")
  /\ HwAsks(r)
  /\ Move("asked")
  /\ UNCHANGED <<env, nKeys, registered, saved, recorded, prepared>>

\* 204: there is nothing to send.
GetsNothing ==
  /\ InProcess("ask") /\ At("idle")
  /\ HotWalletSelections = {}
  /\ Move("loop")
  /\ UNCHANGED <<allVars, env, nKeys, registered, saved, recorded, prepared>>

\* A step of HotWallet after the request; idle is the end of the pass.
GoesOn ==
  /\ InProcess("asked")
  /\ \/ HwFindsInvalid \/ HwChecksRedis \/ HwCannotSend \/ HwSends \/ HwRecords
     \/ HwSendUnclear \/ HwReports \/ HwGivesUp \/ HwGivesUpUnheard
     \/ \E r \in Requests : ServerAnswers(r) \/ ServerRefuses(r)
  /\ IF hw'.pc = "idle" THEN Move("loop") ELSE UNCHANGED proc
  /\ UNCHANGED <<env, nKeys, registered, saved, recorded, prepared>>

\* The server and Redis go on without the process.
GoesOnBeside ==
  /\ \/ \E r \in Requests : ServerInserts(r)
     \/ ~InProcess("asked") /\ \E r \in Requests : ServerAnswers(r) \/ ServerRefuses(r)
     \/ \E a \in Awards : RedisSaves(a) \/ RedisExpires(a)
     \/ OtherStep
  /\ UNCHANGED ownVars

-----------------------------------------------------------------------------
(* Dying, and what people do                                                *)

\* The process is killed where it is; what it generated and did not save is gone.
Dies ==
  /\ proc.pc \notin {"down", "stopped"}
  /\ \/ HwCrashes
     \/ "crash" \in HwFaults /\ At("idle") /\ unsaved = {} /\ UNCHANGED allVars
  /\ proc' = Down
  /\ UNCHANGED <<env, nKeys, registered, saved, recorded, prepared>>

\* A deployment restarts the process, with other variables perhaps; the
\* network of a wallet stays.
Redeploys ==
  /\ proc.pc \in {"stopped", "loop"} /\ At("idle") /\ unsaved = {}
  /\ env' \in { e \in Envs : e.network = env.network }
  /\ proc' = Down
  /\ UNCHANGED <<allVars, nKeys, registered, saved, recorded, prepared>>

-----------------------------------------------------------------------------

PwNext ==
  \/ Starts \/ Registers \/ SavesKeys
  \/ SeesCoins \/ SyncsOptIns \/ OptsIn
  \/ Approves \/ SkipsApproval \/ ThrowsOnApproval \/ SeesTokens
  \/ (\E r \in Requests : Asks(r)) \/ GetsNothing \/ GoesOn \/ GoesOnBeside
  \/ Dies \/ Redeploys

PwSpec == PwInit /\ [][PwNext]_wholeVars

-----------------------------------------------------------------------------

Running == proc.pc \in {"loop", "prepare", "tokens", "ask", "asked"}

\* The loop only ever runs with the wallet the server knows: its address is
\* what makes hot_wallet_request? true, so that a disabled or manual hot
\* wallet mode binds the requests of this process. No crash, no lost answer
\* and no redeployment between registering and saving leaves it otherwise.
RunsAsRegistered == Running => saved # 0 /\ saved = registered

\* What Redis says the wallet is opted in to, or has approved, is so on the
\* chain, though apps and contracts change with deployments and the process
\* dies between a transaction and the save. Of an approval that is all it
\* says: some token contract goes with the recorded contract, and after a
\* deployment with another token contract it is not the present one.
RecordedIsPrepared ==
  \A t \in recorded :
    \E c \in IF env.network = "algorand" THEN {NoTarget} ELSE Contracts : <<t, c>> \in prepared

\* An Algorand wallet asks for transactions only when it is opted in to the
\* app they are for: no path through a failed or repeated opt-in skips it.
\* (An ERC20 approval has no such promise: SkipsApproval.)
AsksOnlyOptedIn ==
  [][\A r \in Requests : Asks(r) /\ env.network = "algorand" => Wanted \in prepared]_wholeVars

\* The server has a wallet whose keys are nowhere: the process died, or the
\* answer got lost, after the registration and before the save.
KeysLost == registered # 0 /\ saved = 0 /\ ~InProcess("save")

\* That is for good: the server refuses another wallet, and no restart of
\* the process gets a project with lost keys running.
KeysStayLost == [][KeysLost => KeysLost' /\ ~Running']_wholeVars

=============================================================================

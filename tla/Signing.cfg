CONSTANTS
  Tabs = {"ethereum", "algorand"}
  Offers <- EthereumAndAlgorand
  Buttons = {"pay"}
  MaxClicks = 2
  MaxConnectors = 2
  SigningFaults = {"lost", "refused", "silent", "reload"}
SPECIFICATION Spec
CHECK_DEADLOCK FALSE
INVARIANTS BoundHasAccounts StaleWalletConnect PendingIsSent

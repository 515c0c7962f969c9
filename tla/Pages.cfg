CONSTANTS
  Kinds <- FormKinds
  Addresses = {c1}
  Networks = {n1, n2}
  MaxRequests = 2
  MaxRows = 2
  FormFaults = {"lost"}
  Channels = {"general", "random", "empty"}
  Members <- OfMembers
  Emails = {"e1"}
  People <- Everybody
  UidAccount <- OfUids
  EmailAccount <- OfEmails
  Wallets = {"ann", "bob", "stranger"}
  MaxLookUps = 3
SYMMETRY Symmetry
SPECIFICATION BrowserSpec
CHECK_DEADLOCK FALSE
INVARIANTS
  TypeOK
  BusyHasCause
  OneRecordPerForm
  SentDetailsMatch
  ChannelsSavedOnce
  IssuesWhatWasLookedUp
  ShowsRecipientsAddress
  GivesOnce

SPECIFICATION FairSpec
CONSTANTS
  IDs <- MCIDs
  TDs <- MCTDs
  TdOf <- MCTdOf
  Files <- MCFiles
  Namespaces <- MCNamespaces
  Accounts <- MCAccounts
  Current = "default"
  IdOf <- MCIdOf
  PathID <- MCPathID
  Manifests <- MCManifests
  Clusters <- MCClusters
  Commands <- MCCommands
  Texts <- MCTexts
  PlainURLs <- MCPlainURLs
  Template <- MCTemplate
  Self <- MCSelf
INVARIANTS
  CliTypeOK
  PolicyPreserved
  OnlyNamedPeers
  PaddingRefused
  SuccessIsTrue
  ScriptAdmitsTheClient
PROPERTY ProbesEnd
CHECK_DEADLOCK FALSE

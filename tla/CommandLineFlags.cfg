SPECIFICATION CliSpec
CONSTANTS
  IDs <- MCIDs
  TDs <- MCTDs
  TdOf <- MCTdOf
  Files <- MCFiles
  Namespaces <- MCNamespaces
  Accounts <- MCAccounts
  Current = "default"
  IdOf <- MCIdOf
  PathID <- MCPathID
  Manifests <- MCManifests
  Clusters <- MCClusters
  Commands <- MCCommands
  Texts <- MCTexts
  PlainURLs <- MCPlainURLs
  Template <- MCTemplate
  Self <- MCSelf
INVARIANT NamespaceIsHonoured
CHECK_DEADLOCK FALSE

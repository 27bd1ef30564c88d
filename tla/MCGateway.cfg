SPECIFICATION FairSpec
CONSTANTS
  good = good
  bad = bad
  none = none
  home = home
  Chains = {c1, c2, c3}
  NoChain = NoChain
  WritesFail = FALSE
  SoftApFails = FALSE
  Hosts <- MCHosts
  ValidHosts <- MCValid
  Ssids <- MCSsids
  NoText = none
  Cut <- Same
  CommitFails = FALSE
  Unwritten = Unwritten
  MaxVersion = 2
  Pieces = 2
  FetchFails = TRUE
INVARIANTS TypeOK PairMatches TrustHolds ApRecoverable SavedIsUsed
PROPERTIES ImplementsOneChain InstallsChecked Reachable

SPECIFICATION FairSpec
CONSTANTS
  MaxWord <- MCWord
  Ids <- MCIds
  Items <- MCItems
  Seeds <- MCSeeds
  Digests <- MCDigests
  Hashes <- MCHashes
  NullHash <- MCNull
  Unparsable <- MCUnparsable
  Sha256 <- MCSha
  Fnv64a <- MCFnv
  RngNext <- MCNext
  RngOutput <- MCOutput
  StrayGroups <- MCStray
  Worlds0 <- MCWorlds
INVARIANTS
  TypeOK
  MatchRestsOnLedger
  RollsFollowOdds
  SomeGroupSelected
PROPERTIES
  ImplementsContract
  Termination

SPECIFICATION Spec
CONSTANTS
  Sessions = {s1}
  NumProviders = 2
  Pubs <- MCPubs
  Keys <- MCKeys
  PubOf <- MCPubOf
  KindOf <- MCKindOf
  Contents <- MCContents
  Absent = Absent
  Ids = {h1, h2, h3}
INVARIANTS TypeOK SnapshotWhole SignsWhatWasListed BindChain
PROPERTIES ListedKeySigns ImplementsSnapshotAgent

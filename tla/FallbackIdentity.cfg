\* The identity in memory, in the table and at the server, and the reconnects.
SPECIFICATION FairSpec
CONSTANTS
  NoIdentity = NoIdentity
  Blank = Blank
  UuidAnswer = {"absent", "new"}
  TokenAnswer = {"absent", "new", "blank"}
  MaxTokens = 2
  MaxImports = 1
INVARIANTS
  TypeOK
  IdentitiesAgree
  OnlyKnownIdentities
PROPERTIES
  Redials
  ImplementsReceiver

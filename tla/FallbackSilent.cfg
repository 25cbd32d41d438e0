\* A server that stops answering is not noticed.
SPECIFICATION FairSpec
CONSTANTS
  NoIdentity = NoIdentity
  Blank = Blank
  UuidAnswer = {"absent"}
  TokenAnswer = {"absent"}
  MaxTokens = 1
  MaxImports = 0
PROPERTIES
  SilenceIsNoticed

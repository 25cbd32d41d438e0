\* Fetches of two pages, with guards that come too late and a kill.
SPECIFICATION FairSpec
CONSTANTS
  Urls = {"named", "addressed"}
  Host <- UrlHost
  Addresses = {"public", "private"}
  Public = {"public"}
  MaxFetches = 2
  MaxKills = 1
INVARIANTS
  TypeOK
  LoadedWasAllowed
  RecordedPictures
  SummaryIsBeginning
PROPERTIES
  FetchReturns
  GuardsEnd
\* When all fetches have returned, nothing is left to do.
CHECK_DEADLOCK FALSE

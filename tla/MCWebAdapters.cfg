SPECIFICATION WebFairSpec
CONSTANTS
  Urls <- Places
  HostKind <- Kinds
  LiteralOf <- Literals
  Addresses <- Known
  Caps = {1, 2, 3}
  MaxRedirects = 2
  MaxChunk = 2
  FetchInputs <- Fetches
  SearchInputs <- Searches
  RecordedHosts = {"fixture"}
  Light = 1
  Medium = 2
  MaxResponse = 3
  SearchCap = 2
  Answers <- Lists
INVARIANTS NothingInternal HeadersStayHome LimitExact ServesClaimed ResultIsWhole
PROPERTIES RunsEnd
CHECK_DEADLOCK FALSE

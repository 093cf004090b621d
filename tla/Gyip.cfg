SPECIFICATION FairSpec
CONSTANTS
  Text <- Texts
  Address <- Addresses
  Local <- Mine
  Name <- Names
  Answers <- Answered
  Valid <- Valids
  HostLists <- Lists
  DomainLists <- Domains
INVARIANTS TypeOK MuxComplete HostsServed EverywhereOnlyIfAsked AnyAlone
PROPERTIES EveryServerSettles SignalsEnd
CHECK_DEADLOCK FALSE

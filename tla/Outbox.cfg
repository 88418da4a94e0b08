SPECIFICATION FairSpec
CONSTANTS
  Entries = {1, 2, 3}
  aggregate <- MCaggregate
  sequence <- MCsequence
  Relays = {r1, r2}
  BatchSize = 2
  MaxTime = 3
  LastAbandon = 2
INVARIANTS TypeOK PublishedWasDelivered 
PROPERTIES   EveryEntryPublished
CHECK_DEADLOCK FALSE

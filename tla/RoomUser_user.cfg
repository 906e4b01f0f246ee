SPECIFICATION FairUserSpec
CONSTANTS
  First = 1
  End = 3
  Video = video
  Audio = audio
  Receivers = {video, audio}
  Senders = {sender}
  ReorderLen = 2
INVARIANTS PoolPartition GrantExclusive FailureTriedAll
  AllOrNothing
PROPERTIES RaceOnlyInInitialize InitializeReturns

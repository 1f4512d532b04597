SPECIFICATION FairSpec
CONSTANTS
  Users = {u1, u2}
  Boot = boot
  MaxCalls = 4
  PipeCap = 1
  NoReply = NoReply
INVARIANTS OwnAnswer LostIsReported PendingIsSound
PROPERTIES WaitEnds CloseReleases

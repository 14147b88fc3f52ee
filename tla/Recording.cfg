CONSTANTS
  Paper = {p1}
  Live = {l1, l2}
  MaxFaults = 2
SPECIFICATION FairSpec
\* A torn state file stops the runtime for good.
CHECK_DEADLOCK FALSE
INVARIANTS
  TypeOK
  CheckpointsClaimOnlyDone
  LiveLearnedOnce
  PaperLearnedOncePerFault
  AnnouncedOncePerFault
  LogMissesOnlyCrashed
PROPERTIES
  LoggedIsLearned
  CloseIsLearned
  CloseIsAnnounced

SPECIFICATION Spec
CONSTANTS
  Resources <- MCResources
  Restarts = FALSE
  Value = {v1, v2}
  Null = Null
  Unknown = Unknown
  Zero = Zero
  None = None
  Omit = Omit
INVARIANTS
  TypeOK
  AppliedAsPlanned
  ConfigReachesServer
  UnmanagedLeftAlone
  UnsetGetsServerDefault
  NoDiffAfterApply
  QuietMeansInSync
  NoSilentOrphan
  RecordedOnceCreated
  NoNeedlessReplace
  RemovedIsReset
CHECK_DEADLOCK FALSE

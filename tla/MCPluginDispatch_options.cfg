SPECIFICATION Spec
CONSTANTS
  Requests <- OptionRequests
  Results <- PlainResults
  Errors <- PlainErrors
  AtStart <- VolumeOnly
INVARIANT RequestUnderstood

SPECIFICATION Spec
CONSTANTS
  Requests <- PlainRequests
  Results <- PlainResults
  Errors <- PlainErrors
  AtStart <- VolumeOnly
INVARIANT StatusIsUsed

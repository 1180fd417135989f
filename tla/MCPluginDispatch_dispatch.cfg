SPECIFICATION Spec
CONSTANTS
  Requests <- PlainRequests
  Results <- PlainResults
  Errors <- PlainErrors
  AtStart <- VolumeOnly
INVARIANTS
  AnnouncedIsServed
  OutcomeAgreed
  RequestUnderstood
  AnswerUnderstood

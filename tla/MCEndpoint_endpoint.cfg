SPECIFICATION FairSpec
CONSTANTS
  Servers = {s1, s2, s3}
  Clients = {c1, c2}
  Backlog = 1
  NoFile = NoFile
  Stale = Stale
INVARIANTS
  TypeOK
  FoundUnlessReplaced
PROPERTIES
  AnsweredInTheEnd

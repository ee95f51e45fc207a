SPECIFICATION Spec
CONSTANTS
  MAXPROC = 4
  NULL = NULL
  Sem = {1, 2, 3}
  MAXINT = 9
  FREE = FREE
  HELD = HELD
  READY = READY
  Trials <- MCTrials
INVARIANTS TypeOK FreeStackExact QueuesAreRings AslSorted DescriptorsExact SiblingsLinked HeadBlockedFinds
PROPERTIES ListsImplemented FirstIsFirst

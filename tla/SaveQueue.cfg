SPECIFICATION FairSpec
CONSTANTS
  Session = {1, 2}
  MaxSaves = 2
  MaxTries = 1
  MaxCrashes = 1
INVARIANTS ArchiveTypeOK AnswerIsForLatest DiskHoldsAnswers
PROPERTIES EveryoneAnswered
CHECK_DEADLOCK FALSE

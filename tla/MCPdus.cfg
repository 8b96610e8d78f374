SPECIFICATION PduSpec
CONSTANTS
  Base = 4
  Width = 4
  MaxLen <- MCMaxLen
  NULL = NULL
  Pdus <- MCSmscPdus
  HandlerSets <- MCHandlerSets
  BindArgs <- MCBindArgs
  SubmitArgs <- MCSubmitArgs
  Modes <- MCModes
  maxSmLength = 5
  InitCapacity = 6
  Slack = 1
  Garbage = 3
  MaxPdus = 3
  MaxRequests = 3
INVARIANTS CalledAsSent ReadToTheEnd AnswersReadable RequestsReadable
CHECK_DEADLOCK FALSE

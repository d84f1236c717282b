\* The deployed node: agent.run flushes, the application only queues alerts.
CONSTANTS
  main = main
  repl = repl
  Flushers <- OneFlusher
  Main <- main
  OUTBOX_MAX = 2
  MAX_RETRY = 1
  EVENTS = FALSE
  MaxItems = 4
SPECIFICATION FairSpec
PROPERTIES EverySettled ResultsEvictedLast

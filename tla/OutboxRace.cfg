\* Two threads flush, as in tests/test_transport_outbox_race.py.
CONSTANTS
  main = main
  repl = repl
  Flushers <- TwoFlushers
  Main <- main
  OUTBOX_MAX = 2
  MAX_RETRY = 1
  EVENTS = TRUE
  MaxItems = 3
SPECIFICATION Spec
INVARIANTS TypeOK ClaimsSound BoundedOutbox NoOvertaking BoundedCopies
PROPERTY KeepsPromise

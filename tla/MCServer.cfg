SPECIFICATION ServerSpec
CONSTANTS
  Request = {"r1", "r2"}
  Routes <- MCRoutes
  MaxSignals = 2
INVARIANTS OnlyPageErrorsAreTold UnloggedIffRecovered DrainedOrTimedOut
PROPERTIES TermEnds EveryRequestAnswered
CHECK_DEADLOCK FALSE

SPECIFICATION Spec
CONSTANTS
  Request = {"r1", "r2"}
  Routes <- MCRoutes
INVARIANTS PanicWrites500

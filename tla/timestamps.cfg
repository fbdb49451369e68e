CONSTANTS
  Instants <- Calendar
  SummerTime <- TurinSummer
  MaxVersions = 2
SPECIFICATION Spec
INVARIANTS MaxIsNewest OneTextOneSecond
CHECK_DEADLOCK FALSE

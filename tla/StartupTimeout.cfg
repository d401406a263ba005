\* A node that never becomes ready.
SPECIFICATION StartupSpec
CONSTANTS
  Effects = {"NoSchedule"}
  Rates = {100}
PROPERTIES StartupIsBounded
CHECK_DEADLOCK FALSE

SPECIFICATION LiveSpec
CONSTANT None = None
PROPERTIES EventuallyArchivedOrParked Delivers UnknownResolved
CHECK_DEADLOCK FALSE

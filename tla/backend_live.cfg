SPECIFICATION LiveSpec
CONSTANT None = None
PROPERTIES CatchesUp GuardReleased QueueDrains
CHECK_DEADLOCK FALSE

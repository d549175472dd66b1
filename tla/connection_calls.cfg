SPECIFICATION ConnectionSpec
CONSTANTS
  Fds <- MCFds
  HIGH_FD = 7
  NAVIGATE_CALL = 2
  TIMEOUT = 1
  MaxCalls = 5
  MaxSaid = 2
CHECK_DEADLOCK FALSE
INVARIANTS ChannelTypeOK FramesIntact OthersRestored NothingLeaks ChildHasItsEnds
PROPERTIES ImplementsRpc WaitsEnd

SPECIFICATION FairSpec
CONSTANTS
  QueueMax = 1
  Threshold = 2
  MaxEvents = 3
PROPERTIES
  ImplementsSink
  AcceptedIsHandled
  ShutdownTerminates

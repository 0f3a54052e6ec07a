SPECIFICATION FairSpec
CONSTANTS
  Clients = {"t1", "t2", "js", "java"}
  Services = {"js", "java"}
  TokenReaders = {"java"}
  Installed = {"js", "java"}
  Jobs <- AllJobs
  MaxDeaths = 0
  Tests <- TwoTests
  Children <- TwoChildren
  StatusModulus = 256
PROPERTIES
  CallsReturn
CHECK_DEADLOCK FALSE

SPECIFICATION FairSpec
CONSTANTS
  Clients = {"t1", "t2", "t3", "js", "java"}
  Services = {"js", "java"}
  TokenReaders = {"java"}
  Installed = {"js", "java"}
  Jobs <- SafeJobs
  MaxDeaths = 1
  Tests <- ThreeTests
  Children <- TwoChildren
  StatusModulus = 256
INVARIANTS
  TypeOK
  NeverWithoutChild
  PipesBelongToHolder
  OwnVerdict
  CountsExact
  StatusTellsTruth
PROPERTIES
  ImplementsSuite
  DriverExits

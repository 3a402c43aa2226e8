SPECIFICATION Spec
CONSTANTS
  t1 = t1
  t2 = t2
  t3 = t3
  Logger = Logger
  Nobody = Nobody
  Threads <- ThreeThreads
  MaxMessages = 2
INVARIANTS OneAtATime NothingLost
PROPERTIES ActsAsQueue AllPrinted

SPECIFICATION FairSpec
CONSTANTS
  Worker = {"w1", "w2"}
  Solo = {"s1"}
  Name <- MCName
  Address <- MCAddress
  NFiles = 2
  Hung = {"a1"}
  None = "nil"
INVARIANTS TypeOK OneConnectionPerName OwnMachineUnlessNameShared
           NoSendOnClosed SuccessIsHonest
PROPERTIES OthersFinish ReturnsUnlessHung ImplementsCall

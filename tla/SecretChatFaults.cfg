SPECIFICATION FairSpec
CHECK_DEADLOCK FALSE
CONSTANTS
  alice = alice
  bob = bob
  Peers = {alice, bob}
  Creator = alice
  FirstOutgoingId = 2
  FirstResendId = 1
  MaxMessages <- TwoAndOne
  MaxFailures <- OneOfAlice
  MaxRestarts <- One
  MaxFaults = 1
INVARIANTS TypeOK KeptUntilProcessed ShownInOrder ExecutingIsRequestedOrAlike DeliveredIsShown
PROPERTY EventuallyProcessed

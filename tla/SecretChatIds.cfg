SPECIFICATION Spec
CONSTANTS
  alice = alice
  bob = bob
  Peers = {alice, bob}
  Creator = alice
  FirstOutgoingId = 1
  FirstResendId = 1
  MaxMessages <- TwoAndOne
  MaxFailures <- OneOfAlice
  MaxRestarts <- None
  MaxFaults = 1
INVARIANT ExecutingIsRequested
CHECK_DEADLOCK FALSE

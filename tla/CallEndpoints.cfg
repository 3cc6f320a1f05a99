SPECIFICATION Spec
CHECK_DEADLOCK FALSE
CONSTANTS
    Relays = {r1}
    AllowP2p = TRUE
    ConfigUseTCP = TRUE
    UseProxy = TRUE
    MaxChanges = 2
INVARIANTS CurrentIsKept PreferredIsUsable EstablishedIsAnswered

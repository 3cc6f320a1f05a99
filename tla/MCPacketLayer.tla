--------------------------- MODULE MCPacketLayer ---------------------------
(* Small instances of PacketLayer: the caller tells, the callee answers.   *)
EXTENDS PacketLayer

CONSTANTS Caller, Callee, CallerSends, CalleeSends

MCPeers == {Caller, Callee}
MCSenders == {Caller}
MCMaxSent == [p \in MCPeers |-> IF p = Caller THEN CallerSends ELSE CalleeSends]
=============================================================================

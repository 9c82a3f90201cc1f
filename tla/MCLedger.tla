------------------------------ MODULE MCLedger -------------------------------
EXTENDS Replication

MCPeers == {1, 2}
AllKinds == {"join", "heartbeat", "leave", "chat", "checkpoint"}
ChurnKinds == {"join", "leave", "chat"}
PresenceKinds == {"join", "heartbeat"}
SameClock == {0}
AheadClock == {0, 2}
=============================================================================

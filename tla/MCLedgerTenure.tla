--------------------------- MODULE MCLedgerTenure ----------------------------
EXTENDS LedgerTenure

MCPeers == {1, 2}
=============================================================================

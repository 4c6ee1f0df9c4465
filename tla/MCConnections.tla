--------------------------- MODULE MCConnections ---------------------------
EXTENDS Connections
Ids == {1, 2}
=============================================================================

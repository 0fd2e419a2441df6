--------------------------- MODULE MCPersistence ---------------------------
EXTENDS Persistence

=============================================================================

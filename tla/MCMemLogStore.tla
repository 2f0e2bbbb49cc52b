--------------------------- MODULE MCMemLogStore ----------------------------
EXTENDS MemLogStore
=============================================================================

--------------------------- MODULE MCFileStateMgr ---------------------------
EXTENDS FileStateMgr
=============================================================================

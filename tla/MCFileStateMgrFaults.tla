------------------------ MODULE MCFileStateMgrFaults ------------------------
EXTENDS FileStateMgrFaults
=============================================================================

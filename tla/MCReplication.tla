---------------------------- MODULE MCReplication ---------------------------
EXTENDS Replication
=============================================================================

--------------------------- MODULE MCCounterServer --------------------------
EXTENDS CounterServer
=============================================================================

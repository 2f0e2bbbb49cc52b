--------------------------- MODULE MCCounterClient --------------------------
EXTENDS CounterClient

CONSTANTS a, b

GivenAB == <<a, b>>
=============================================================================

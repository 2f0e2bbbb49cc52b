--------------------------- MODULE MCCoroutines -----------------------------
EXTENDS Coroutines
=============================================================================

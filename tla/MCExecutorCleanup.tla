------------------------- MODULE MCExecutorCleanup -------------------------
EXTENDS ExecutorCleanup
=============================================================================

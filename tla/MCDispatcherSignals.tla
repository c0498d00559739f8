------------------------- MODULE MCDispatcherSignals -------------------------
EXTENDS DispatcherSignals
=============================================================================

------------------------- MODULE MCDriverLifecycle -------------------------
EXTENDS DriverLifecycle
=============================================================================

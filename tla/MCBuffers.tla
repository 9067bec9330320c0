----------------------------- MODULE MCBuffers -----------------------------
EXTENDS Buffers
=============================================================================

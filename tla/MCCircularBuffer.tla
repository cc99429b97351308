-------------------------- MODULE MCCircularBuffer --------------------------
EXTENDS CircularBufferUse
=============================================================================

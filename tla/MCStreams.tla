------------------------------ MODULE MCStreams ------------------------------
EXTENDS Streams
=============================================================================

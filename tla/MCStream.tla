------------------------------ MODULE MCStream ------------------------------
\* Stream on small instances.
EXTENDS Stream
=============================================================================

------------------------------ MODULE MCClient ------------------------------
\* ChatClient on small instances.
EXTENDS ChatClient
=============================================================================

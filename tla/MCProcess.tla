----------------------------- MODULE MCProcess -----------------------------
\* ServerProcess on small instances.
EXTENDS ServerProcess
=============================================================================

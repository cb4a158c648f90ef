---------------------------- MODULE MCHeartbeat ----------------------------
\* Heartbeat on small instances.
EXTENDS Heartbeat
=============================================================================

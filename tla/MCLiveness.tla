----------------------------- MODULE MCLiveness -----------------------------
\* ServerLiveness and DocClaims on small instances.
EXTENDS DocClaims

\* Bound: no peer hangs up; used by the runs with two connections.
NobodyHangsUp == \A c \in Fd : Live(c) => conn[c].peer = "up"
=============================================================================

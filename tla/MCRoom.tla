------------------------------- MODULE MCRoom -------------------------------
\* ServerRoom and ServerObserver on small instances.
EXTENDS ServerRoom, ServerObserver, TLC

Symmetry == Permutations(Fd)

\* Bound: peers do not announce that they hang up (a read or a write may still
\* fail); MCServer has the rest.
NobodyHangsUp == \A c \in Fd : Live(c) => conn[c].peer = "up"
=============================================================================

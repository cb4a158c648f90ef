------------------------------ MODULE MCServer ------------------------------
\* ChatServer on small instances.
EXTENDS ChatServer, TLC

Symmetry == Permutations(Fd) \cup Permutations(User)
              \cup Permutations(Token) \cup Permutations(Text)
=============================================================================

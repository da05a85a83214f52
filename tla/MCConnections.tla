---------------------------- MODULE MCConnections ----------------------------
\* Model checking of Connections.
EXTENDS Connections, TLC

Symmetry == Permutations(Callers) \cup Permutations(Connections) \cup Permutations(Providers)
===============================================================================

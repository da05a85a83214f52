---------------------------- MODULE MCBuildRequest ----------------------------
\* Model checking of BuildRequest.
EXTENDS BuildRequest, TLC

\* Windows, what the developer enters and what the agent writes are
\* interchangeable.
Symmetry == Permutations(Windows) \cup Permutations(Inputs) \cup Permutations(Specs) \cup Permutations(Objects)
===============================================================================

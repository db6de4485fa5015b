----------------------------- MODULE MCParlays -----------------------------
\* Parlays for TLC: the matches of the picks and the symmetry of the ids.
EXTENDS Parlays, TLC

\* Each pick on a match of its own.
OwnMatch == [p \in Picks |-> p]

IdSymmetry == Permutations(Requests) \cup Permutations(Picks) \cup Permutations(ParlayIds)
=============================================================================

----------------------------- MODULE MCDequeUse -----------------------------
EXTENDS DequeUse, TLC

MCThreads == {Owner, Main} \cup Thieves

Symmetry == Permutations(Jobs) \cup Permutations(Thieves)

=============================================================================

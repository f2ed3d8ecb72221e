----------------------------- MODULE MCProfiles -----------------------------
EXTENDS Profiles, TLC

Symmetry == Permutations(Tasks) \cup Permutations(UserIds)
=============================================================================

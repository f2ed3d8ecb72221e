-------------------------- MODULE MCLogoutHistory --------------------------
EXTENDS LogoutHistory, TLC

Symmetry ==
    Permutations(Tasks) \cup Permutations(Jtis)
        \cup Permutations(UserIds) \cup Permutations(Usernames)
=============================================================================

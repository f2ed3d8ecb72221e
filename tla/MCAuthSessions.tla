--------------------------- MODULE MCAuthSessions ---------------------------
EXTENDS AuthSessions, TLC

(* No property tells one task, token or account from another. *)
Symmetry ==
    Permutations(Tasks) \cup Permutations(Jtis)
        \cup Permutations(UserIds) \cup Permutations(Usernames)
=============================================================================

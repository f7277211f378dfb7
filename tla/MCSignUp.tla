------------------------------- MODULE MCSignUp -------------------------------
(* An instance of SignUp for TLC. *)
EXTENDS SignUp, TLC

Symmetry ==
    Permutations(Emails) \cup Permutations(Links) \cup Permutations(Users)
        \cup Permutations(Clicks) \cup Permutations(Visits)
===============================================================================

--------------------------- MODULE MCRunAdmission ---------------------------
(* A small instance of RunAdmission, symmetric in its requests, customers  *)
(* and identities.                                                         *)
EXTENDS RunAdmission, TLC

Symmetry ==
    Permutations(Requests) \cup Permutations(Customers)
        \cup Permutations(Identities)
=============================================================================

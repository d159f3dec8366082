------------------------------- MODULE MCCredit -------------------------------
(* Credit on small instances. *)
EXTENDS Credit, TLC

Symmetry == Permutations(Clients) \cup Permutations(Resellers) \cup Permutations(Repayments)
              \cup Permutations(Accounts)
===============================================================================

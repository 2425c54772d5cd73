----------------------------- MODULE MCAccounts -----------------------------
(* Three users, of whom two may lose their rights to each other while the  *)
(* third is created, promoted or deleted; two sessions; two requests.      *)
EXTENDS Accounts, TLC

CONSTANTS root, u1, u2, s1, s2, w1, w2

Symmetry ==
  Permutations({u1, u2}) \cup Permutations(Session) \cup Permutations(Worker)
=============================================================================

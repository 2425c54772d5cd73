------------------------------ MODULE MCTeams ------------------------------
(* An org admin and two users who may both lead the one team, a host to be *)
(* given, taken and retired, and two requests.                             *)
EXTENDS Teams, TLC

CONSTANTS boss, u1, u2, t1, h1, w1, w2

Symmetry == Permutations({u1, u2}) \cup Permutations(Worker)
=============================================================================

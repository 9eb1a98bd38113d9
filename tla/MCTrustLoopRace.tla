---------------------------- MODULE MCTrustLoopRace ----------------------------
(* Small instances of TrustLoopRace for TLC: two loops, two listings. *)
EXTENDS TrustLoopRace, TLC

MCListings == 1..2
Symmetry == Permutations(Loops)
=============================================================================

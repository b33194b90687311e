----------------------------- MODULE MCBcpVoting -----------------------------
(* Four validators of equal weight (cutoff 4 * 2 / 3 + 1 = 3), one of them *)
(* forking, two candidates, two attempts.                                  *)
EXTENDS BcpVoting, FiniteSets, TLC

CONSTANTS n1, n2, n3, n4, c1, c2

MCValidators == {n1, n2, n3, n4}
MCHonest == {n1, n2, n3}
MCCandidates == {c1, c2}
MCQuorums == {Q \in SUBSET MCValidators : Cardinality(Q) >= 3}
MCSymmetry == Permutations(MCHonest) \cup Permutations(MCCandidates)
=============================================================================

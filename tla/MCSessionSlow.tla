---------------------------- MODULE MCSessionSlow ----------------------------
(* As MCSessionFast with max_round_attempts 1: the second attempt is slow  *)
(* and its coordinator, node 1025 % 3 = 2, may send a VoteFor.             *)
EXTENDS SessionVoting

MCWeight == [i \in 0 .. 2 |-> IF i = 0 THEN 2 ELSE 1]
MCCandidateSrc == [c \in {1} |-> 0]
MCChainAuthor == [ch \in 0 .. 2 |-> ch]
MCHears == [ch \in 0 .. 2 |-> IF ch = 0 THEN {1, 2} ELSE {0}]
MCOpening == << [ch |-> 0, submit |-> {1}, approve |-> {0}, hear |-> FALSE],
                [ch |-> 1, submit |-> {}, approve |-> {0}, hear |-> FALSE] >>
MCMayApprove == [i \in 0 .. 2 |-> IF i = 1 THEN {} ELSE {1}]
MCMaxBlocks == [ch \in 0 .. 2 |-> 3]
=============================================================================

---------------------------- MODULE MCSessionFork ----------------------------
(* As MCSessionFast, with a node of less than a third of the weight that   *)
(* lost its database and writes two chains.                                *)
EXTENDS SessionVoting

MCWeight == [i \in 0 .. 2 |-> IF i = 0 THEN 2 ELSE 1]
MCCandidateSrc == [c \in {1} |-> 0]
MCChainAuthor == [ch \in 0 .. 3 |-> IF ch = 3 THEN 2 ELSE ch]
MCHears == [ch \in 0 .. 3 |-> IF ch = 0 THEN {1, 2, 3} ELSE {0}]
MCOpening == << [ch |-> 0, submit |-> {1}, approve |-> {0}, hear |-> FALSE],
                [ch |-> 1, submit |-> {}, approve |-> {0}, hear |-> FALSE] >>
MCMayApprove == [i \in 0 .. 2 |-> IF i = 1 THEN {} ELSE {1}]
MCMaxBlocks == [ch \in 0 .. 3 |-> IF ch = 0 THEN 4 ELSE 1]
=============================================================================

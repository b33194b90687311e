---------------------------- MODULE MCSessionFast ----------------------------
(* Two fast attempts of the first round.  Node 0 (weight 2 of 4) hears and *)
(* is heard by the others; the opening is its candidate 1 and two of the   *)
(* approvals of the skip candidate.                                        *)
EXTENDS SessionVoting

MCWeight == [i \in 0 .. 2 |-> IF i = 0 THEN 2 ELSE 1]
MCCandidateSrc == [c \in {1} |-> 0]
MCChainAuthor == [ch \in 0 .. 2 |-> ch]
MCHears == [ch \in 0 .. 2 |-> IF ch = 0 THEN {1, 2} ELSE {0}]
MCMayApprove == [i \in 0 .. 2 |-> IF i = 1 THEN {} ELSE {1}]
MCOpening == << [ch |-> 0, submit |-> {1}, approve |-> {0}, hear |-> FALSE],
                [ch |-> 1, submit |-> {}, approve |-> {0}, hear |-> FALSE] >>
MCMaxBlocks == [ch \in 0 .. 2 |-> IF ch = 2 THEN 2 ELSE 3]
=============================================================================

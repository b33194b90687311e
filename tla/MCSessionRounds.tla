--------------------------- MODULE MCSessionRounds ---------------------------
(* Two rounds.  The opening brings node 0 (weight 2) and node 1 to the     *)
(* precommits of the first round; from there on the nodes precommit, sign, *)
(* finish the round and begin the next one, in any order.                  *)
EXTENDS SessionVoting

MCWeight == [i \in 0 .. 2 |-> IF i = 0 THEN 2 ELSE 1]
MCCandidateSrc == [c \in {1} |-> 0]
MCChainAuthor == [ch \in 0 .. 2 |-> ch]
MCHears == [ch \in 0 .. 2 |-> IF ch = 0 THEN {1, 2} ELSE {0}]
Opened(ch, submit, approve) ==
    [ch |-> ch, submit |-> submit, approve |-> approve, hear |-> TRUE]
MCOpening ==
    << Opened(0, {1}, {}), Opened(1, {}, {0, 1}), Opened(0, {}, {0, 1}),
       Opened(1, {}, {}), Opened(0, {}, {}) >>
MCMayApprove == [i \in 0 .. 2 |-> IF i = 2 THEN {1} ELSE {0}]
MCMaxBlocks == [ch \in 0 .. 2 |-> IF ch = 0 THEN 7 ELSE IF ch = 1 THEN 6 ELSE 2]
=============================================================================

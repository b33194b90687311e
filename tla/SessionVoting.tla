---------------------------- MODULE SessionVoting ----------------------------
(***************************************************************************)
(* The sessions of SessionDag implement the voting of BcpVoting: what the  *)
(* nodes do in the first round, read off the states of their own blocks,   *)
(* is a behaviour of the abstract specification.                           *)
(***************************************************************************)
EXTENDS SessionDag

ChainsOf(i) == {ch \in Chains : ChainAuthor[ch] = i}

(* The nodes that do not fork.                                             *)
Honest == {i \in Nodes : Cardinality(ChainsOf(i)) = 1}

ASSUME HonestMajority == \A P, Q \in Quorums : P \cap Q \cap Honest # {}

(* The first round in the eyes of i: its blocks made before it left it.    *)
FirstRounds(i) ==
    {blocks[ch][k].state.cur_round : <<ch, k>> \in
        {p \in ChainsOf(i) \X (1 .. Max({MaxBlocks[ch] : ch \in Chains})) :
            p[2] <= Height(p[1]) /\ blocks[p[1]][p[2]].state.cur_round.seqno = 0}}

Did(i, a, what(_)) == \E round \in FirstRounds(i) : what(get_attempt(round, a))

VotesMade ==
    [a \in Attempts |-> [c \in Candidates |->
        {i \in Nodes : Did(i, a, LAMBDA t : i \in t.votes[c])}]]

PrecommitsMade ==
    [a \in Attempts |-> {i \in Nodes : Did(i, a, LAMBDA t : i \in t.precommitted)}]

AttemptsReached ==
    [i \in Nodes |-> IF i \in Honest
                     THEN Max({LastState(ch).att[i] : ch \in ChainsOf(i)}) ELSE 0]

Voting == INSTANCE BcpVoting WITH
    Validators <- Nodes, votes <- VotesMade, precommits <- PrecommitsMade,
    att <- AttemptsReached

(* Every block of every node is a step the protocol allows: one vote per   *)
(* attempt, attempts in order, a precommit only where a block is voted, a  *)
(* vote against a lock only where a later attempt voted another block -    *)
(* with "voted" judged by all votes ever cast, while the node only knows   *)
(* those in the past of its block.                                         *)
ImplementsVoting == Voting!Spec
=============================================================================

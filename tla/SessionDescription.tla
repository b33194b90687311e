------------------------- MODULE SessionDescription -------------------------
(***************************************************************************)
(* ValidatorSessionDescription: the nodes of a session, their weights and  *)
(* the weight that decides.                                                *)
(***************************************************************************)
EXTENDS Integers

CONSTANTS
    N,                  \* desc.get_total_nodes()
    Weight,             \* Weight[i] = desc.get_node_weight(i)
    RoundCandidates     \* opts.round_candidates

Nodes == 0 .. N - 1

ASSUME WeightAssumption ==
    /\ N \in Nat \ {0}
    /\ Weight \in [Nodes -> Nat \ {0}]
    /\ RoundCandidates \in Nat \ {0}

(* The weight of the nodes in S, added up node by node.                    *)
TotalWeight(S) ==
    LET sum[i \in 0 .. N] ==
          IF i = 0 THEN 0
          ELSE IF i - 1 \in S THEN sum[i - 1] + Weight[i - 1] ELSE sum[i - 1]
    IN  sum[N]

Cutoff == (TotalWeight(Nodes) * 2) \div 3 + 1

(* The sets of nodes that satisfy the loop shared by                       *)
(* check_block_is_approved, check_block_is_voted,                          *)
(* check_attempt_is_precommitted and check_block_is_signed.                *)
WeightQuorums == {S \in SUBSET Nodes : TotalWeight(S) >= Cutoff}

get_node_priority(src, round) ==
    LET r == round % N
        d == (IF src < r THEN src + N ELSE src) - r
    IN  IF d < RoundCandidates THEN d ELSE -1

get_max_priority == RoundCandidates - 1

get_vote_for_author(att) == att % N
=============================================================================

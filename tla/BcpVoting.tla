------------------------------ MODULE BcpVoting ------------------------------
(***************************************************************************)
(* One round of TON's Block Consensus Protocol as its participants promise *)
(* it to one another: who voted for which candidate in which attempt, who  *)
(* precommitted in which attempt, and the rule that ties the two together. *)
(*                                                                         *)
(* In the code a vote is never taken from a message: every receiver        *)
(* recomputes it from the sender's catchain state (try_vote,               *)
(* choose_block_to_vote), so what a validator did is a fact about the      *)
(* catchain that all views share.  This module keeps only those facts; a   *)
(* view of the code is a subset of them.  Module SessionDag computes them  *)
(* the way the code does; SessionVoting has it implement this module.      *)
(***************************************************************************)
EXTENDS Integers

CONSTANTS
    Validators,   \* the nodes of the session
    Honest,       \* those that follow the protocol and never fork
    Candidates,   \* block candidates of the round, the skip candidate included
    Attempts,     \* attempt numbers (unixtime / round_attempt_duration)
    Quorums       \* the sets of nodes whose weight reaches the cutoff

ASSUME HonestAssumption == Honest \subseteq Validators

ASSUME AttemptsAssumption == Attempts \subseteq Nat

(* cutoff_weight = total_weight * 2 / 3 + 1: two sets that reach it share  *)
(* more than a third of the weight, hence an honest node.                  *)
ASSUME QuorumAssumption ==
    /\ Quorums \subseteq SUBSET Validators
    /\ \A P, Q \in Quorums : P \cap Q \cap Honest # {}
    /\ \A P \in Quorums : \A S \in SUBSET Validators :
          P \subseteq S => S \in Quorums

VARIABLES
    votes,        \* votes[a][c]: who voted for candidate c in attempt a
    precommits,   \* precommits[a]: who precommitted in attempt a
    att           \* att[v]: the latest attempt validator v took part in

vars == <<votes, precommits, att>>

TypeOK ==
    /\ votes \in [Attempts -> [Candidates -> SUBSET Validators]]
    /\ precommits \in [Attempts -> SUBSET Validators]
    /\ att \in [Validators -> Nat]

(* check_block_is_voted: the voters of c in attempt a reach the cutoff.    *)
Voted(a, c) == votes[a][c] \in Quorums

(* check_attempt_is_precommitted, and the block it precommits.             *)
Precommitted(a, c) == precommits[a] \in Quorums /\ Voted(a, c)

(* A precommit made in attempt x for c stops binding its author once       *)
(* another candidate was voted in a later attempt: the condition under     *)
(* which RoundState::merge and forward_action_to_attempt reset             *)
(* last_precommit_.                                                        *)
Superseded(x, c) ==
    \E y \in Attempts, d \in Candidates : y > x /\ d # c /\ Voted(y, d)

(* Mutant of LockAllows: last_precommit_ is ignored when a vote is chosen. *)
LockIgnored(v, c) == TRUE

(* last_precommit_ of v, wherever it points, allows a vote for c.          *)
LockAllows(v, c) ==
    \A x \in Attempts, d \in Candidates :
        v \in precommits[x] /\ Voted(x, d) => d = c \/ Superseded(x, d)

(* att_ is not reset when a round begins, so a validator may enter it in   *)
(* any attempt.                                                            *)
Init ==
    /\ votes = [a \in Attempts |-> [c \in Candidates |-> {}]]
    /\ precommits = [a \in Attempts |-> {}]
    /\ att \in [Validators -> Attempts \cup {0}]

(* A block of v made in a later attempt that carries neither vote nor      *)
(* precommit: only att_ moves.                                             *)
Advance(v, a) ==
    /\ v \in Honest
    /\ a > att[v]
    /\ att' = [att EXCEPT ![v] = a]
    /\ UNCHANGED <<votes, precommits>>

(* try_vote.  Attempts of an author never decrease (State::action raises   *)
(* att to att_[src]), one vote per attempt, and the lock is respected.     *)
MayVote(v, a, c) ==
    /\ v \in Honest
    /\ a >= att[v]
    /\ \A d \in Candidates : v \notin votes[a][d]
    /\ LockAllows(v, c)

Vote(v, a, c) ==
    /\ MayVote(v, a, c)
    /\ votes' = [votes EXCEPT ![a][c] = @ \cup {v}]
    /\ att' = [att EXCEPT ![v] = a]
    /\ UNCHANGED precommits

(* Mutant of Precommit: get_voted_block is not consulted.                  *)
PrecommitUnvoted(v, a) ==
    /\ v \in Honest
    /\ a >= att[v]
    /\ precommits' = [precommits EXCEPT ![a] = @ \cup {v}]
    /\ att' = [att EXCEPT ![v] = a]
    /\ UNCHANGED votes

(* try_precommit: some candidate was voted in this very attempt.           *)
Precommit(v, a) ==
    /\ v \in Honest
    /\ a >= att[v]
    /\ \E c \in Candidates : Voted(a, c)
    /\ precommits' = [precommits EXCEPT ![a] = @ \cup {v}]
    /\ att' = [att EXCEPT ![v] = a]
    /\ UNCHANGED votes

(* Both in one block: the loop of process_blocks goes on until there is    *)
(* nothing left to do, and the own vote may complete the quorum.           *)
VoteAndPrecommit(v, a, c) ==
    /\ MayVote(v, a, c)
    /\ votes' = [votes EXCEPT ![a][c] = @ \cup {v}]
    /\ \E d \in Candidates : votes'[a][d] \in Quorums
    /\ precommits' = [precommits EXCEPT ![a] = @ \cup {v}]
    /\ att' = [att EXCEPT ![v] = a]

(* A node that forks its catchain can have its branches vote and precommit *)
(* differently, in any attempt.                                            *)
Forked(v, a, S, P) ==
    /\ v \in Validators \ Honest
    /\ votes' = [votes EXCEPT ![a] =
         [c \in Candidates |-> IF c \in S THEN votes[a][c] \cup {v} ELSE votes[a][c]]]
    /\ precommits' = [precommits EXCEPT ![a] = @ \cup P]
    /\ UNCHANGED att

Step(v, a) ==
    \/ Advance(v, a)
    \/ \E c \in Candidates : Vote(v, a, c)
    \/ Precommit(v, a)
    \/ \E c \in Candidates : VoteAndPrecommit(v, a, c)
    \/ \E S \in SUBSET Candidates, P \in SUBSET {v} : Forked(v, a, S, P)

Next == \E v \in Validators, a \in Attempts : Step(v, a)

Spec == Init /\ [][Next]_vars

-----------------------------------------------------------------------------
(* The parts of the inductive invariant.                                   *)

(* An honest validator has at most one vote in an attempt.                 *)
VotesOnce ==
    \A v \in Honest, a \in Attempts, c, d \in Candidates :
        v \in votes[a][c] /\ v \in votes[a][d] => c = d

(* An honest validator has acted in no attempt beyond att[v].              *)
ActsUpToAtt ==
    \A v \in Honest, a \in Attempts :
        /\ v \in precommits[a] => a <= att[v]
        /\ \A c \in Candidates : v \in votes[a][c] => a <= att[v]

(* Honest precommits exist only in attempts that have a voted candidate.   *)
PrecommitsAreVoted ==
    \A v \in Honest, a \in Attempts :
        v \in precommits[a] => \E c \in Candidates : Voted(a, c)

(* An honest validator that precommitted d in attempt x and later voted    *)
(* for something else did so only after its lock had been superseded.      *)
LocksRespected ==
    \A v \in Honest, x, a \in Attempts, c, d \in Candidates :
        /\ v \in precommits[x] /\ Voted(x, d)
        /\ v \in votes[a][c] /\ x < a
        => c = d \/ Superseded(x, d)

(* Who may still be, or already is, among the precommits of attempt x.     *)
CanPrecommit(x) ==
    {v \in Validators : v \notin Honest \/ v \in precommits[x] \/ att[v] <= x}

(* Once superseded, a voted candidate can no longer be precommitted by a   *)
(* quorum of that attempt, now or ever.                                    *)
SupersededIsDead ==
    \A x \in Attempts, c \in Candidates :
        Voted(x, c) /\ Superseded(x, c) => CanPrecommit(x) \notin Quorums

(* Agreement: RoundState::merge aborts (CHECK at                           *)
(* validator-session-state.cpp:284) when the two sides are precommitted    *)
(* with different blocks, and the committed block of a round is the        *)
(* precommitted one.  No two attempts of a round, however far apart, ever  *)
(* precommit different candidates.                                         *)
Agreement ==
    \A a, b \in Attempts, c, d \in Candidates :
        Precommitted(a, c) /\ Precommitted(b, d) => c = d

(* All the parts together.                                                 *)
IInv ==
    /\ TypeOK
    /\ VotesOnce
    /\ ActsUpToAtt
    /\ PrecommitsAreVoted
    /\ LocksRespected
    /\ SupersededIsDead
=============================================================================

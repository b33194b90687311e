--------------------------- MODULE BcpVotingProofs ---------------------------
(***************************************************************************)
(* Agreement of module BcpVoting for every set of validators, candidates   *)
(* and attempts, under the quorum assumption of that module; and that the  *)
(* cutoff weight of module SessionDescription gives that assumption.       *)
(***************************************************************************)
EXTENDS BcpVoting, SessionDescription, NaturalsInduction, WellFoundedInduction,
        TLAPS

\* Zenon proves most steps, which are about sets and functions; those that it
\* does not find, arithmetic above all, name SMT.
USE ZenonT(20), SMTT(30)

(* Votes are never withdrawn, so a voted candidate stays voted.            *)
LEMMA VotedStable ==
    ASSUME TypeOK, TypeOK',
           \A a \in Attempts, c \in Candidates : votes[a][c] \subseteq votes'[a][c],
           NEW a \in Attempts, NEW c \in Candidates, Voted(a, c)
    PROVE  Voted(a, c)'
BY QuorumAssumption, SMTT(30) DEF Voted, TypeOK

(* Two candidates voted in the same attempt are the same candidate: their  *)
(* voters share an honest validator, which votes once.                     *)
LEMMA VotedUnique ==
    ASSUME TypeOK, VotesOnce,
           NEW a \in Attempts, NEW c \in Candidates, NEW d \in Candidates,
           Voted(a, c), Voted(a, d)
    PROVE  c = d
<1>1. PICK v \in Honest : v \in votes[a][c] /\ v \in votes[a][d]
  BY QuorumAssumption DEF Voted
<1> QED BY <1>1 DEF VotesOnce

(* Nothing that was voted or precommitted is withdrawn, and no validator   *)
(* moves back to an earlier attempt.                                       *)
Grows ==
    /\ \A a \in Attempts, c \in Candidates : votes[a][c] \subseteq votes'[a][c]
    /\ \A a \in Attempts : precommits[a] \subseteq precommits'[a]
    /\ \A v \in Validators : att[v] <= att'[v]

(* Every step of a round preserves the types and only adds to the facts.   *)
LEMMA StepMonotone ==
    ASSUME TypeOK, Next
    PROVE  TypeOK' /\ Grows
<1> USE DEF TypeOK, Grows
<1>1. PICK v \in Validators, a \in Attempts : Step(v, a)
  BY DEF Next
<1> a \in Nat /\ att[v] \in Nat
  BY AttemptsAssumption
<1>2. CASE Advance(v, a)
  BY <1>2 DEF Advance
<1>3. CASE \E c \in Candidates : Vote(v, a, c)
  BY <1>3, SMTT(30) DEF Vote, MayVote
<1>4. CASE Precommit(v, a)
  BY <1>4 DEF Precommit
<1>5. CASE \E c \in Candidates : VoteAndPrecommit(v, a, c)
  BY <1>5, SMTT(30) DEF VoteAndPrecommit, MayVote
<1>6. CASE \E S \in SUBSET Candidates, P \in SUBSET {v} : Forked(v, a, S, P)
  BY <1>6, SMTT(30) DEF Forked
<1> QED BY <1>1, <1>2, <1>3, <1>4, <1>5, <1>6 DEF Step

(* One honest vote per attempt: a vote needs a voter without one.          *)
LEMMA VotesOnceStep ==
    ASSUME IInv, Next
    PROVE  VotesOnce'
<1> USE DEF VotesOnce, IInv, TypeOK
<1>1. PICK v \in Validators, a \in Attempts : Step(v, a)
  BY DEF Next
<1>2. CASE Advance(v, a)
  BY <1>2 DEF Advance
<1>3. CASE \E c \in Candidates : Vote(v, a, c)
  BY <1>3, SMTT(30) DEF Vote, MayVote
<1>4. CASE Precommit(v, a)
  BY <1>4 DEF Precommit
<1>5. CASE \E c \in Candidates : VoteAndPrecommit(v, a, c)
  BY <1>5, SMTT(30) DEF VoteAndPrecommit, MayVote
<1>6. CASE \E S \in SUBSET Candidates, P \in SUBSET {v} : Forked(v, a, S, P)
  BY <1>6, SMTT(30) DEF Forked
<1> QED BY <1>1, <1>2, <1>3, <1>4, <1>5, <1>6 DEF Step

(* Honest validators act in their current attempt, which only grows.       *)
LEMMA ActsUpToAttStep ==
    ASSUME IInv, Next
    PROVE  ActsUpToAtt'
<1> USE AttemptsAssumption, HonestAssumption DEF ActsUpToAtt, IInv, TypeOK
<1>1. PICK v \in Validators, a \in Attempts : Step(v, a)
  BY DEF Next
<1>2. CASE Advance(v, a)
  BY <1>2 DEF Advance
<1>3. CASE \E c \in Candidates : Vote(v, a, c)
  BY <1>3, SMTT(30) DEF Vote, MayVote
<1>4. CASE Precommit(v, a)
  BY <1>4 DEF Precommit
<1>5. CASE \E c \in Candidates : VoteAndPrecommit(v, a, c)
  BY <1>5, SMTT(30) DEF VoteAndPrecommit, MayVote
<1>6. CASE \E S \in SUBSET Candidates, P \in SUBSET {v} : Forked(v, a, S, P)
  BY <1>6, SMTT(30) DEF Forked
<1> QED BY <1>1, <1>2, <1>3, <1>4, <1>5, <1>6 DEF Step

(* What a new vote of an honest validator tells about the step.            *)
LEMMA NewHonestVote ==
    ASSUME TypeOK, Next, NEW v \in Honest, NEW a \in Attempts,
           NEW c \in Candidates, v \in votes'[a][c], v \notin votes[a][c]
    PROVE  /\ MayVote(v, a, c)
           /\ \A x \in Attempts : v \in precommits'[x] => x = a \/ v \in precommits[x]
<1> USE DEF TypeOK
<1>1. PICK u \in Validators, b \in Attempts : Step(u, b)
  BY DEF Next
<1>2. CASE \E d \in Candidates : Vote(u, b, d)
  <2>1. PICK d \in Candidates : Vote(u, b, d)
    BY <1>2
  <2>2. u = v /\ b = a /\ d = c
    BY <2>1 DEF Vote
  <2> QED BY <2>1, <2>2 DEF Vote
<1>3. CASE \E d \in Candidates : VoteAndPrecommit(u, b, d)
  <2>1. PICK d \in Candidates : VoteAndPrecommit(u, b, d)
    BY <1>3
  <2>2. u = v /\ b = a /\ d = c
    BY <2>1 DEF VoteAndPrecommit
  <2> QED BY <2>1, <2>2 DEF VoteAndPrecommit
<1>4. CASE Advance(u, b) \/ Precommit(u, b)
  BY <1>4 DEF Advance, Precommit
<1>5. CASE \E S \in SUBSET Candidates, P \in SUBSET {u} : Forked(u, b, S, P)
  BY <1>5, SMTT(30) DEF Forked
<1> QED BY <1>1, <1>2, <1>3, <1>4, <1>5 DEF Step

(* Likewise for a new precommit.                                           *)
LEMMA NewHonestPrecommit ==
    ASSUME TypeOK, Next, NEW v \in Honest, NEW x \in Attempts,
           v \in precommits'[x], v \notin precommits[x]
    PROVE  /\ att[v] <= x
           /\ \E c \in Candidates : Voted(x, c)'
           /\ \A a \in Attempts, c \in Candidates :
                 v \in votes'[a][c] => a = x \/ v \in votes[a][c]
<1> USE HonestAssumption, AttemptsAssumption DEF TypeOK
<1>1. PICK u \in Validators, b \in Attempts : Step(u, b)
  BY DEF Next
<1>2. CASE Precommit(u, b)
  <2>1. u = v /\ b = x
    BY <1>2 DEF Precommit
  <2> QED BY <1>2, <2>1 DEF Precommit, Voted
<1>3. CASE \E d \in Candidates : VoteAndPrecommit(u, b, d)
  <2>1. PICK d \in Candidates : VoteAndPrecommit(u, b, d)
    BY <1>3
  <2>2. u = v /\ b = x
    BY <2>1 DEF VoteAndPrecommit
  <2> QED BY <2>1, <2>2 DEF VoteAndPrecommit, MayVote, Voted
<1>4. CASE Advance(u, b) \/ \E d \in Candidates : Vote(u, b, d)
  BY <1>4 DEF Advance, Vote
<1>5. CASE \E S \in SUBSET Candidates, P \in SUBSET {u} : Forked(u, b, S, P)
  BY <1>5 DEF Forked
<1> QED BY <1>1, <1>2, <1>3, <1>4, <1>5 DEF Step

(* An honest precommit is made only where a candidate is voted.            *)
LEMMA PrecommitsAreVotedStep ==
    ASSUME IInv, Next
    PROVE  PrecommitsAreVoted'
<1>1. TypeOK /\ TypeOK' /\ Grows
  BY StepMonotone DEF IInv
<1>2. ASSUME NEW v \in Honest, NEW x \in Attempts, v \in precommits'[x]
      PROVE  \E c \in Candidates : Voted(x, c)'
  <2>1. CASE v \in precommits[x]
    <3>1. PICK c \in Candidates : Voted(x, c)
      BY <2>1 DEF IInv, PrecommitsAreVoted
    <3> QED BY <1>1, <3>1, VotedStable DEF Grows
  <2>2. CASE v \notin precommits[x]
    BY <1>1, <1>2, <2>2, NewHonestPrecommit
  <2> QED BY <2>1, <2>2
<1> QED BY <1>2 DEF PrecommitsAreVoted

(* The voted candidate an honest precommit refers to is never replaced: if *)
(* c is voted after the step, it was voted when v precommitted.            *)
LEMMA PrecommitPinsVoted ==
    ASSUME IInv, Next, VotesOnce',
           NEW v \in Honest, NEW x \in Attempts, v \in precommits[x],
           NEW c \in Candidates, Voted(x, c)'
    PROVE  Voted(x, c)
<1>1. TypeOK /\ TypeOK' /\ Grows
  BY StepMonotone DEF IInv
<1>2. PICK d \in Candidates : Voted(x, d)
  BY DEF IInv, PrecommitsAreVoted
<1>3. Voted(x, d)'
  BY <1>1, <1>2, VotedStable DEF Grows
<1>4. c = d
  <2>1. PICK u \in Honest : u \in votes'[x][c] /\ u \in votes'[x][d]
    BY <1>3, QuorumAssumption DEF Voted
  <2> QED BY <2>1 DEF VotesOnce
<1> QED BY <1>2, <1>4

(* Superseding is stable: the later vote stays voted.                      *)
LEMMA SupersededStable ==
    ASSUME TypeOK, TypeOK', Grows,
           NEW x \in Attempts, NEW c \in Candidates, Superseded(x, c)
    PROVE  Superseded(x, c)'
BY VotedStable DEF Superseded, Grows

(* After a step, an honest validator that precommitted in x and voted for  *)
(* d in a later attempt y either agrees with what is voted in x or had     *)
(* seen it superseded before the step.                                     *)
LEMMA LockHeldBefore ==
    ASSUME IInv, Next, VotesOnce',
           NEW v \in Honest, NEW x \in Attempts, NEW y \in Attempts, x < y,
           NEW c \in Candidates, NEW d \in Candidates,
           v \in precommits'[x], v \in votes'[y][d], Voted(x, c)'
    PROVE  Voted(x, c) /\ (d = c \/ Superseded(x, c))
<1> USE DEF IInv
<1>1. CASE v \notin precommits[x]
  <2>2. v \in votes[y][d] /\ att[v] <= x
    BY <1>1, NewHonestPrecommit, AttemptsAssumption, SMTT(30)
  <2>3. y <= att[v]
    BY <2>2 DEF ActsUpToAtt
  <2> QED BY <2>2, <2>3, HonestAssumption, AttemptsAssumption DEF TypeOK
<1>2. CASE v \in precommits[x]
  <2>1. Voted(x, c)
    BY <1>2, PrecommitPinsVoted
  <2>2. CASE v \in votes[y][d]
    BY <1>2, <2>1, <2>2 DEF LocksRespected
  <2>3. CASE v \notin votes[y][d]
    <3>1. MayVote(v, y, d)
      BY <2>3, NewHonestVote
    <3> QED BY <1>2, <2>1, <3>1 DEF MayVote, LockAllows
  <2> QED BY <2>1, <2>2, <2>3
<1> QED BY <1>1, <1>2

(* Locks stay respected.                                                   *)
LEMMA LocksRespectedStep ==
    ASSUME IInv, Next
    PROVE  LocksRespected'
<1>1. VotesOnce'
  BY VotesOnceStep
<1>2. TypeOK /\ TypeOK' /\ Grows
  BY StepMonotone DEF IInv
<1>3. ASSUME NEW v \in Honest, NEW x \in Attempts, NEW a \in Attempts,
             NEW c \in Candidates, NEW d \in Candidates,
             v \in precommits'[x], Voted(x, d)', v \in votes'[a][c], x < a
      PROVE  c = d \/ Superseded(x, d)'
  <2>1. c = d \/ Superseded(x, d)
    BY <1>1, <1>3, LockHeldBefore
  <2> QED BY <1>2, <2>1, SupersededStable
<1> QED BY <1>3 DEF LocksRespected

(* Nobody joins those who can still precommit in x: a precommit is made    *)
(* by a validator whose attempt is at most x, and attempts only grow.      *)
LEMMA CanPrecommitShrinks ==
    ASSUME IInv, Next, NEW x \in Attempts
    PROVE  CanPrecommit(x)' \subseteq CanPrecommit(x)
<1>1. TypeOK /\ TypeOK' /\ Grows
  BY StepMonotone DEF IInv
<1>2. ASSUME NEW v \in Validators, v \in CanPrecommit(x)', v \in Honest
      PROVE  v \in CanPrecommit(x)
  <2>1. CASE att'[v] <= x
    BY <1>1, <2>1, AttemptsAssumption, SMTT(30) DEF CanPrecommit, Grows, TypeOK
  <2>2. CASE v \in precommits'[x] /\ v \notin precommits[x]
    <3>1. att[v] <= x
      BY <1>1, <1>2, <2>2, NewHonestPrecommit
    <3> QED BY <3>1 DEF CanPrecommit
  <2>3. CASE v \in precommits[x]
    BY <2>3 DEF CanPrecommit
  <2> QED BY <1>2, <2>1, <2>2, <2>3 DEF CanPrecommit
<1> QED BY <1>2 DEF CanPrecommit

(* A superseded candidate stays dead, and one that becomes superseded is   *)
(* dead from that step on.                                                 *)
LEMMA SupersededIsDeadStep ==
    ASSUME IInv, Next
    PROVE  SupersededIsDead'
<1>1. VotesOnce' /\ ActsUpToAtt'
  BY VotesOnceStep, ActsUpToAttStep
<1>2. TypeOK /\ TypeOK' /\ Grows
  BY StepMonotone DEF IInv
<1>3. SUFFICES ASSUME NEW x \in Attempts, NEW c \in Candidates,
                      Voted(x, c)', Superseded(x, c)',
                      CanPrecommit(x)' \in Quorums
               PROVE  FALSE
  BY DEF SupersededIsDead
<1>4. CanPrecommit(x) \in Quorums
  <2>1. CanPrecommit(x) \in SUBSET Validators
    BY DEF CanPrecommit
  <2> QED BY <1>3, <2>1, CanPrecommitShrinks, QuorumAssumption
<1>5. ~(Voted(x, c) /\ Superseded(x, c))
  BY <1>4 DEF IInv, SupersededIsDead
<1>6. PICK y \in Attempts, d \in Candidates : y > x /\ d # c /\ Voted(y, d)'
  BY <1>3 DEF Superseded
<1>7. PICK h \in Honest : h \in CanPrecommit(x)' /\ h \in votes'[y][d]
  BY <1>3, <1>6, QuorumAssumption DEF Voted
<1>8. h \in precommits'[x]
  <2>1. y <= att'[h]
    BY <1>1, <1>7 DEF ActsUpToAtt
  <2>2. ~(att'[h] <= x)
    BY <1>2, <1>6, <2>1, HonestAssumption, AttemptsAssumption DEF TypeOK
  <2> QED BY <1>7, <2>2 DEF CanPrecommit
<1>9. x < y
  BY <1>6, AttemptsAssumption
<1> QED BY <1>1, <1>3, <1>5, <1>6, <1>7, <1>8, <1>9, LockHeldBefore

-----------------------------------------------------------------------------
(* The inductive invariant holds in every state of a round.                *)
THEOREM Invariance == Spec => []IInv
<1>1. Init => IInv
  <2> SUFFICES ASSUME Init PROVE IInv
    OBVIOUS
  <2>1. {} \notin Quorums
    BY QuorumAssumption
  <2>2. \A a \in Attempts, c \in Candidates : ~Voted(a, c)
    BY <2>1 DEF Init, Voted
  <2>3. TypeOK
    <3>1. Attempts \cup {0} \subseteq Nat
      BY AttemptsAssumption
    <3>2. att \in [Validators -> Nat]
      BY <3>1 DEF Init
    <3> QED BY <3>2 DEF Init, TypeOK
  <2>4. VotesOnce /\ ActsUpToAtt /\ PrecommitsAreVoted
    BY DEF Init, VotesOnce, ActsUpToAtt, PrecommitsAreVoted
  <2>5. LocksRespected /\ SupersededIsDead
    BY <2>2 DEF LocksRespected, SupersededIsDead
  <2> QED BY <2>3, <2>4, <2>5 DEF IInv
<1>2. IInv /\ [Next]_vars => IInv'
  <2> SUFFICES ASSUME IInv, [Next]_vars PROVE IInv'
    OBVIOUS
  <2>1. CASE Next
    BY <2>1, StepMonotone, VotesOnceStep, ActsUpToAttStep,
       PrecommitsAreVotedStep, LocksRespectedStep, SupersededIsDeadStep DEF IInv
  <2>2. CASE UNCHANGED vars
    BY <2>2, SMTT(30) DEF vars, IInv, TypeOK, VotesOnce, ActsUpToAtt, PrecommitsAreVoted,
       LocksRespected, SupersededIsDead, CanPrecommit, Superseded, Voted
  <2> QED BY <2>1, <2>2
<1> QED BY <1>1, <1>2, PTL DEF Spec

(* Agreement: the CHECK of RoundState::merge that both sides precommit the *)
(* same block never fails, whatever the number of validators, candidates   *)
(* and attempts, as long as any two quorums share an honest validator.     *)
THEOREM AgreementHolds == Spec => []Agreement
<1>1. ASSUME IInv, NEW a \in Attempts, NEW b \in Attempts, a < b,
             NEW c \in Candidates, NEW d \in Candidates,
             Precommitted(a, c), Precommitted(b, d), c # d
      PROVE  FALSE
  <2>1. Superseded(a, c)
    BY <1>1, AttemptsAssumption DEF Superseded, Precommitted
  <2>2. CanPrecommit(a) \in Quorums
    <3>1. precommits[a] \subseteq CanPrecommit(a)
      BY <1>1 DEF CanPrecommit, IInv, TypeOK
    <3>2. CanPrecommit(a) \in SUBSET Validators
      BY DEF CanPrecommit
    <3> QED BY <1>1, <3>1, <3>2, QuorumAssumption DEF Precommitted
  <2> QED BY <1>1, <2>1, <2>2 DEF IInv, SupersededIsDead, Precommitted
<1>2. ASSUME IInv, NEW a \in Attempts, NEW c \in Candidates, NEW d \in Candidates,
             Precommitted(a, c), Precommitted(a, d)
      PROVE  c = d
  BY <1>2, VotedUnique DEF IInv, Precommitted
<1>3. IInv => Agreement
  <2> SUFFICES ASSUME IInv, NEW a \in Attempts, NEW b \in Attempts,
                      NEW c \in Candidates, NEW d \in Candidates,
                      Precommitted(a, c), Precommitted(b, d)
               PROVE  c = d
    BY DEF Agreement
  <2>1. a < b \/ b < a \/ a = b
    BY AttemptsAssumption
  <2> QED BY <1>1, <1>2, <2>1
<1> QED BY <1>3, Invariance, PTL

-----------------------------------------------------------------------------
(* The cutoff weight.                                                      *)

Less == {ss \in Nat \X Nat : ss[1] < ss[2]}

(* Induction over the natural numbers, for sets.                           *)
LEMMA LessWF == IsWellFoundedOn(Less, Nat)
BY NatLessThanWellFounded DEF OpToRel, Less

LEMMA SetInduction ==
    ASSUME NEW T, 0 \in T, \A n \in Nat : n \in T => n + 1 \in T
    PROVE  Nat \subseteq T
<1> DEFINE C == Nat \ T
<1> SUFFICES ASSUME C # {} PROVE FALSE
  OBVIOUS
<1>1. PICK x \in C : \A y \in C : ~ (<<y, x>> \in Less)
  <2> HIDE DEF C
  <2>1. C \subseteq Nat
    BY DEF C
  <2> QED BY LessWF, WFMin, <2>1, Zenon
<1>2. x # 0 /\ x - 1 \in Nat
  OBVIOUS
<1>3. <<x - 1, x>> \in Less
  BY <1>2 DEF Less
<1> QED BY <1>1, <1>2, <1>3

(* The sums over the first nodes, of which TotalWeight is the last.        *)
Sums(f, S) ==
    /\ f[0] = 0
    /\ \A i \in 1 .. N : f[i] = IF i - 1 \in S THEN f[i - 1] + Weight[i - 1] ELSE f[i - 1]

LEMMA SumsExist ==
    ASSUME NEW S
    PROVE  \E f : Sums(f, S) /\ TotalWeight(S) = f[N]
<1>0. N \in Nat
  BY WeightAssumption DEF WeightAssumption
<1> DEFINE F(f, n) == [i \in 0 .. n |-> IF i = 0 THEN 0
                          ELSE IF i - 1 \in S THEN f[i - 1] + Weight[i - 1] ELSE f[i - 1]]
           T == {n \in Nat : \E f : f = F(f, n)}
<1>1. 0 \in T
  <2> DEFINE f == [i \in 0 .. 0 |-> 0]
  <2>1. f = F(f, 0)
    OBVIOUS
  <2> QED BY <2>1
<1>2. ASSUME NEW n \in Nat, n \in T
      PROVE  n + 1 \in T
  <2>1. PICK f : f = F(f, n)
    BY <1>2
  <2> DEFINE v == IF n \in S THEN f[n] + Weight[n] ELSE f[n]
             g == [i \in 0 .. n + 1 |-> IF i = n + 1 THEN v ELSE f[i]]
  <2>2. ASSUME NEW i \in 0 .. n + 1
        PROVE  g[i] = F(g, n + 1)[i]
    <3>1. CASE i = n + 1
      BY <3>1
    <3>2. CASE i = 0
      BY <2>1, <3>2, SMTT(30)
    <3>3. CASE i \in 1 .. n
      <4>1. i - 1 \in 0 .. n /\ i - 1 # n + 1 /\ i # n + 1 /\ i \in 0 .. n
        BY <3>3
      <4>2. f[i] = IF i - 1 \in S THEN f[i - 1] + Weight[i - 1] ELSE f[i - 1]
        BY <2>1, <3>3, <4>1, SMTT(30)
      <4> QED BY <4>1, <4>2
    <3> QED BY <3>1, <3>2, <3>3
  <2>3. g = F(g, n + 1)
    BY <2>2
  <2> HIDE DEF g
  <2> QED BY <2>3, SMTT(30)
<1>3. N \in T
  <2> HIDE DEF T
  <2> QED BY <1>0, <1>1, <1>2, SetInduction
<1>4. \E f : f = F(f, N)
  BY <1>3
<1> DEFINE h == CHOOSE f : f = F(f, N)
<1>5. h = F(h, N)
  BY <1>4
<1>6. TotalWeight(S) = h[N]
  BY DEF TotalWeight
<1> HIDE DEF h
<1>7. h[0] = 0
  BY <1>0, <1>5
<1>8. ASSUME NEW i \in 1 .. N
      PROVE  h[i] = IF i - 1 \in S THEN h[i - 1] + Weight[i - 1] ELSE h[i - 1]
  <2>1. i \in 0 .. N /\ i # 0
    BY <1>0
  <2> QED BY <1>5, <2>1
<1> QED BY <1>6, <1>7, <1>8 DEF Sums

(* What holds of the sums over no node and is kept by one more node holds  *)
(* of the weights of two sets, their union and their intersection.         *)
LEMMA WeightsOfTwo ==
    ASSUME NEW P \in SUBSET Nodes, NEW Q \in SUBSET Nodes
    PROVE  /\ TotalWeight(P) \in Nat
           /\ TotalWeight(P) + TotalWeight(Q) = TotalWeight(P \cup Q) + TotalWeight(P \cap Q)
           /\ P \subseteq Q => TotalWeight(P) <= TotalWeight(Q)
<1>0. N \in Nat /\ \A i \in 1 .. N : Weight[i - 1] \in Nat
  BY WeightAssumption, SMTT(30) DEF WeightAssumption, Nodes
<1>1. PICK p : Sums(p, P) /\ TotalWeight(P) = p[N]
  BY SumsExist
<1>2. PICK q : Sums(q, Q) /\ TotalWeight(Q) = q[N]
  BY SumsExist
<1>3. PICK u : Sums(u, P \cup Q) /\ TotalWeight(P \cup Q) = u[N]
  BY SumsExist
<1>4. PICK m : Sums(m, P \cap Q) /\ TotalWeight(P \cap Q) = m[N]
  BY SumsExist
<1> DEFINE Fit(i) == /\ p[i] \in Nat /\ q[i] \in Nat /\ u[i] \in Nat /\ m[i] \in Nat
                     /\ p[i] + q[i] = u[i] + m[i] /\ (P \subseteq Q => p[i] <= q[i])
           T == {i \in Nat : i <= N => Fit(i)}
<1>5. 0 \in T
  BY <1>1, <1>2, <1>3, <1>4, SMTT(30) DEF Sums
<1>6. ASSUME NEW i \in Nat, i \in T
      PROVE  i + 1 \in T
  <2> SUFFICES ASSUME i + 1 <= N PROVE Fit(i + 1)
    BY <1>6
  <2>1. i + 1 \in 1 .. N /\ (i + 1) - 1 = i /\ i <= N
    BY <1>0
  <2>2. Fit(i) /\ Weight[i] \in Nat
    BY <1>0, <1>6, <2>1
  <2>3. /\ p[i + 1] = IF i \in P THEN p[i] + Weight[i] ELSE p[i]
        /\ q[i + 1] = IF i \in Q THEN q[i] + Weight[i] ELSE q[i]
        /\ u[i + 1] = IF i \in P \cup Q THEN u[i] + Weight[i] ELSE u[i]
        /\ m[i + 1] = IF i \in P \cap Q THEN m[i] + Weight[i] ELSE m[i]
    BY <1>1, <1>2, <1>3, <1>4, <2>1 DEF Sums
  <2> QED BY <2>2, <2>3, SMTT(30)
<1>7. Nat \subseteq T
  <2> HIDE DEF T
  <2> QED BY <1>5, <1>6, SetInduction
<1>8. Fit(N)
  BY <1>0, <1>7
<1> QED BY <1>1, <1>2, <1>3, <1>4, <1>8

(* QuorumAssumption is what the cutoff of the code gives: with less than a *)
(* third of the weight in nodes that fork, any two sets that reach         *)
(* cutoff_weight_ = (total_weight * 2) / 3 + 1 share an honest node, for   *)
(* every number of nodes and all weights (ValidatorSessionDescription).    *)
(* And the cutoff is not too high: the honest nodes reach it by themselves. *)
THEOREM CutoffGivesQuorums ==
    ASSUME NEW H \in SUBSET Nodes, 3 * TotalWeight(Nodes \ H) < TotalWeight(Nodes)
    PROVE  /\ WeightQuorums \subseteq SUBSET Nodes
           /\ \A P, Q \in WeightQuorums : P \cap Q \cap H # {}
           /\ \A P \in WeightQuorums : \A S \in SUBSET Nodes :
                 P \subseteq S => S \in WeightQuorums
           /\ H \in WeightQuorums
<1> DEFINE w == TotalWeight(Nodes)
<1>0. w \in Nat /\ TotalWeight(Nodes \ H) \in Nat
  BY WeightsOfTwo
<1>1. Cutoff \in Nat /\ 3 * Cutoff > 2 * w /\ 3 * Cutoff <= 2 * w + 3
  <2> HIDE DEF w
  <2>1. \A k \in Nat : k \div 3 \in Nat /\ 3 * (k \div 3) + 3 > k /\ 3 * (k \div 3) <= k
    OBVIOUS
  <2>2. w * 2 \in Nat
    BY <1>0
  <2> QED BY <1>0, <2>1, <2>2, SMTT(30) DEF Cutoff, w
<1>2. ASSUME NEW P \in WeightQuorums, NEW Q \in WeightQuorums
      PROVE  P \cap Q \cap H # {}
  <2>1. P \in SUBSET Nodes /\ Q \in SUBSET Nodes /\ TotalWeight(P) >= Cutoff /\ TotalWeight(Q) >= Cutoff
    BY DEF WeightQuorums
  <2>2. TotalWeight(P) + TotalWeight(Q) = TotalWeight(P \cup Q) + TotalWeight(P \cap Q)
    BY <2>1, WeightsOfTwo
  <2>3. TotalWeight(P \cup Q) <= w
    BY <2>1, WeightsOfTwo
  <2>4. /\ TotalWeight(P) \in Nat /\ TotalWeight(Q) \in Nat
        /\ TotalWeight(P \cup Q) \in Nat /\ TotalWeight(P \cap Q) \in Nat
    BY <2>1, WeightsOfTwo
  <2>5. 3 * TotalWeight(P \cap Q) > w
    <3> HIDE DEF w
    <3> QED BY <1>0, <1>1, <2>1, <2>2, <2>3, <2>4
  <2>6. ASSUME P \cap Q \cap H = {}
        PROVE  TotalWeight(P \cap Q) <= TotalWeight(Nodes \ H)
    <3>1. P \cap Q \in SUBSET Nodes /\ P \cap Q \subseteq Nodes \ H
      BY <2>1, <2>6
    <3> QED BY <3>1, WeightsOfTwo
  <2> HIDE DEF w
  <2> QED BY <1>0, <2>4, <2>5, <2>6 DEF w
<1>3. ASSUME NEW P \in WeightQuorums, NEW S \in SUBSET Nodes, P \subseteq S
      PROVE  S \in WeightQuorums
  <2>1. P \in SUBSET Nodes /\ TotalWeight(P) >= Cutoff
    BY DEF WeightQuorums
  <2>2. TotalWeight(P) <= TotalWeight(S) /\ TotalWeight(P) \in Nat /\ TotalWeight(S) \in Nat
    BY <1>3, <2>1, WeightsOfTwo
  <2> QED BY <1>1, <2>1, <2>2 DEF WeightQuorums
<1>4. TotalWeight(H) >= Cutoff
  <2> DEFINE b == TotalWeight(Nodes \ H)
             h == TotalWeight(H)
  <2>1. /\ h + b = TotalWeight(H \cup (Nodes \ H)) + TotalWeight(H \cap (Nodes \ H))
        /\ h \in Nat
        /\ TotalWeight(H \cap (Nodes \ H)) \in Nat
    BY WeightsOfTwo
  <2>2. h + b >= w
    <3>1. H \cup (Nodes \ H) = Nodes
      OBVIOUS
    <3> DEFINE m == TotalWeight(H \cap (Nodes \ H))
    <3>2. h + b = w + m /\ m \in Nat /\ w \in Nat
      BY <1>0, <2>1, <3>1
    <3> HIDE DEF w, h, b, m
    <3> QED BY <3>2
  <2>3. 3 * b < w /\ b \in Nat /\ h \in Nat
    BY <1>0, <2>1
  <2>4. h >= Cutoff
    <3> HIDE DEF w, h, b
    <3>1. w \in Nat /\ b \in Nat /\ h \in Nat /\ Cutoff \in Nat
      BY <1>0, <1>1, <2>3
    <3>2. 3 * h > 2 * w
      BY <2>2, <2>3, <3>1
    <3>3. 3 * (Cutoff - 1) <= 2 * w
      BY <1>1, <3>1
    <3> QED BY <3>1, <3>2, <3>3
  <2> QED BY <2>4
<1> QED BY <1>2, <1>3, <1>4 DEF WeightQuorums
=============================================================================

---------------------------- MODULE SessionState ----------------------------
(***************************************************************************)
(* The replicated state of a validator session: the persistent objects of  *)
(* validator-session-state.cpp and validator-session-round-attempt-state.cpp *)
(* as records, and the functions that build new ones from old ones.        *)
(*                                                                         *)
(*   attempt  votes, precommitted and the VoteFor of one attempt           *)
(*   round    candidates with their approvals, signatures, attempts and    *)
(*            locks of the current round                                   *)
(*   old      what a finished round keeps: its block and two sets of       *)
(*            signatures                                                   *)
(*   state    att_, old_rounds_ and cur_round_                             *)
(*                                                                         *)
(* A signature is abstracted to the fact that it exists and is valid, a    *)
(* vector of signatures to the set of its authors.  A sorted vector that   *)
(* is searched by a key is a function with the keys as its domain, a null  *)
(* vector the empty function.  A candidate id is a number: ids are hashes  *)
(* of which the code uses the order only, and the skip candidate, a null   *)
(* pointer with the id zero, comes first.                                  *)
(***************************************************************************)
EXTENDS SessionDescription, FiniteSetsExt

CONSTANTS
    CandidateSrc,       \* CandidateSrc[id]: the node that submits candidate id
    MaxRoundAttempts,   \* opts.max_round_attempts
    Quorums             \* the sets of nodes whose weight reaches the cutoff

SKIP == 0                                     \* skip_round_candidate_id()
Blocks == DOMAIN CandidateSrc
Candidates == Blocks \cup {SKIP}
NONE == -1                                    \* found = false, not inited

ASSUME DescriptionAssumption ==
    /\ Blocks \subseteq Nat \ {0}
    /\ CandidateSrc \in [Blocks -> Nodes]
    /\ MaxRoundAttempts \in Nat

(* The two vector operations everything else is made of: a vector with one *)
(* more or one replaced element, and the union of two of them.             *)
Put(f, x, y) == [z \in DOMAIN f \cup {x} |-> IF z = x THEN y ELSE f[z]]

MergeVectors(f, g, op(_, _)) ==
    [x \in DOMAIN f \cup DOMAIN g |->
        IF x \notin DOMAIN g THEN f[x]
        ELSE IF x \notin DOMAIN f THEN g[x]
        ELSE op(f[x], g[x])]

EmptyVector == [x \in {} |-> x]

-----------------------------------------------------------------------------
(* The quorums are computed once, by the configuration.                    *)
ASSUME QuorumsAssumption == Quorums = WeightQuorums

HasCutoff(S) == S \in Quorums

-----------------------------------------------------------------------------
(* ValidatorSessionRoundAttemptState.                                      *)

NewAttempt ==
    [votes |-> [c \in Candidates |-> {}], precommitted |-> {}, vote_for |-> NONE]

check_vote_received_from(t, src) == \E c \in Candidates : src \in t.votes[c]

check_precommit_received_from(t, src) == src \in t.precommitted

FirstOf(S) == IF S = {} THEN NONE ELSE Min(S)

(* The first candidate, in the order of ids, with enough votes.            *)
get_voted_block(t) == FirstOf({c \in Candidates : HasCutoff(t.votes[c])})

(* Mutant of check_attempt_is_precommitted: one precommit is enough.       *)
PrecommittedByAny(t) == t.precommitted # {}

check_attempt_is_precommitted(t) == HasCutoff(t.precommitted)

(* Mutant of AttemptMerge: the VoteFor of the left side wins.              *)
AttemptMergeLeft(l, r) ==
    [votes        |-> [c \in Candidates |-> l.votes[c] \cup r.votes[c]],
     precommitted |-> l.precommitted \cup r.precommitted,
     vote_for     |-> l.vote_for]

AttemptMerge(l, r) ==
    [votes        |-> [c \in Candidates |-> l.votes[c] \cup r.votes[c]],
     precommitted |-> l.precommitted \cup r.precommitted,
     vote_for     |-> IF l.vote_for = NONE THEN r.vote_for
                      ELSE IF r.vote_for = NONE THEN l.vote_for
                      ELSE Min({l.vote_for, r.vote_for})]

-----------------------------------------------------------------------------
(* ValidatorSessionRoundState: what a node reads off it.                   *)

NewRound(seqno) ==
    [seqno |-> seqno, precommitted |-> FALSE, precommitted_block |-> SKIP,
     first_attempt |-> [i \in Nodes |-> 0], last_precommit |-> [i \in Nodes |-> 0],
     sent_blocks |-> EmptyVector, signatures |-> {}, attempts |-> EmptyVector]

get_attempt(round, att) ==
    IF att \in DOMAIN round.attempts THEN round.attempts[att] ELSE NewAttempt

(* Mutant of check_block_is_signed: one signature is enough.               *)
SignedByAny(round) == round.signatures # {}

check_block_is_signed(round) == HasCutoff(round.signatures)

Approved(round) == {c \in DOMAIN round.sent_blocks : HasCutoff(round.sent_blocks[c])}

check_block_is_sent_by(round, src) ==
    \E c \in DOMAIN round.sent_blocks \ {SKIP} : CandidateSrc[c] = src

slow_mode(round, src, att) ==
    \/ MaxRoundAttempts = 0
    \/ /\ round.first_attempt[src] > 0
       /\ round.first_attempt[src] + MaxRoundAttempts <= att

Priority(round, c) ==
    IF c = SKIP THEN get_max_priority + 1
    ELSE get_node_priority(CandidateSrc[c], round.seqno)

(* The attempts of a round in which some candidate collected enough votes. *)
VotedAttempts(round) ==
    {a \in DOMAIN round.attempts : get_voted_block(round.attempts[a]) # NONE}

(* What they voted for in the latest of these attempts, and the approved   *)
(* candidate of the best priority.                                         *)
VotedLast(round, voted) ==
    IF voted = {} THEN NONE ELSE get_voted_block(round.attempts[Max(voted)])

BestCandidate(round, approved) ==
    FirstOf({c \in approved : \A d \in approved : Priority(round, c) <= Priority(round, d)})

FirstFound(x, y) == IF x # NONE THEN x ELSE y

(* Mutants of choose_block_to_vote: last_precommit_ is not looked at, and  *)
(* every fast attempt votes afresh.                                        *)
ChooseIgnoringLock(round, src, att, vote_for) ==
    IF round.sent_blocks = EmptyVector THEN NONE
    ELSE IF slow_mode(round, src, att) THEN vote_for
    ELSE FirstFound(VotedLast(round, VotedAttempts(round)),
                    BestCandidate(round, Approved(round)))

ChooseAfresh(round, src, att, vote_for) ==
    IF round.sent_blocks = EmptyVector THEN NONE
    ELSE IF slow_mode(round, src, att) THEN vote_for
    ELSE BestCandidate(round, Approved(round))

(* A locked node votes for what it is locked on.  Otherwise, in the fast   *)
(* attempts, for the candidate voted last, and failing that for the        *)
(* approved candidate of the best priority; in the slow ones for what the  *)
(* coordinator of the attempt said.                                        *)
choose_block_to_vote(round, src, att, vote_for) ==
    IF round.sent_blocks = EmptyVector THEN NONE
    ELSE IF round.last_precommit[src] > 0
    THEN get_voted_block(round.attempts[round.last_precommit[src]])
    ELSE IF slow_mode(round, src, att) THEN vote_for
    ELSE FirstFound(VotedLast(round, VotedAttempts(round)),
                    BestCandidate(round, Approved(round)))

(* Sources with one candidate only, and not one this node approved before; *)
(* the skip candidate unless this node approved it before.                 *)
choose_blocks_to_approve(round, src) ==
    LET sent == DOMAIN round.sent_blocks \ {SKIP}
    IN  {c \in sent : /\ \A d \in sent : CandidateSrc[d] = CandidateSrc[c] => d = c
                      /\ src \notin round.sent_blocks[c]}
        \cup {c \in {SKIP} : c \in DOMAIN round.sent_blocks
                                => src \notin round.sent_blocks[c]}

check_need_generate_vote_for(round, src, att) ==
    /\ src = get_vote_for_author(att)
    /\ ~round.precommitted
    /\ slow_mode(round, src, att)
    /\ get_attempt(round, att).vote_for = NONE
    /\ Approved(round) # {}

(* The block the node has to sign, if any.                                 *)
choose_block_to_sign(round, src) ==
    IF src \in round.signatures \/ ~round.precommitted
    THEN NONE ELSE round.precommitted_block

-----------------------------------------------------------------------------
(* Steps of an attempt.  A vote or a precommit is never taken from a       *)
(* message: the message only makes the receiver compute the sender's next  *)
(* step, so one definition serves VOTE, PRECOMMIT, EMPTY and the implicit  *)
(* steps of make_all.                                                      *)

try_vote(t, src, block) ==
    IF check_vote_received_from(t, src) \/ block = NONE THEN t
    ELSE [t EXCEPT !.votes[block] = @ \cup {src}]

(* Mutant of try_precommit: the voted block is not asked for.              *)
PrecommitAnyway(t, src) == [t EXCEPT !.precommitted = @ \cup {src}]

try_precommit(t, src) ==
    IF get_voted_block(t) = NONE THEN t
    ELSE [t EXCEPT !.precommitted = @ \cup {src}]

FirstMade(t, voted, src) == IF voted # t THEN voted ELSE try_precommit(t, src)

attempt_make_one(t, src, att, round) ==
    FirstMade(t, try_vote(t, src, choose_block_to_vote(round, src, att, t.vote_for)), src)

attempt_voteFor(t, src, att, id, round) ==
    IF /\ t.vote_for = NONE
       /\ src = get_vote_for_author(att)
       /\ slow_mode(round, src, att)
       /\ id \in Approved(round)
    THEN [t EXCEPT !.vote_for = id]
    ELSE t

attempt_action(t, src, att, msg, round) ==
    IF msg.type = "voteFor" THEN attempt_voteFor(t, src, att, msg.id, round)
    ELSE attempt_make_one(t, src, att, round)

Message(type, round, id) == [type |-> type, round |-> round.seqno, id |-> id]

(* Mutant of NextMessage: a vote that was made already is made again.      *)
NextMessageAgain(t, round, src, to_vote, voted) ==
    IF to_vote # NONE THEN Message("vote", round, to_vote)
    ELSE Message("empty", round, NONE)

(* The message this node should send next in the attempt.                  *)
NextMessage(t, round, src, to_vote, voted) ==
    IF ~check_vote_received_from(t, src) /\ to_vote # NONE
    THEN Message("vote", round, to_vote)
    ELSE IF ~check_precommit_received_from(t, src) /\ voted # NONE
    THEN Message("precommit", round, voted)
    ELSE Message("empty", round, NONE)

attempt_create_action(t, round, src, att) ==
    NextMessage(t, round, src, choose_block_to_vote(round, src, att, t.vote_for),
                get_voted_block(t))

-----------------------------------------------------------------------------
(* Steps of a round.                                                       *)

round_submittedBlock(round, src, id) ==
    IF get_node_priority(src, round.seqno) < 0 \/ check_block_is_sent_by(round, src)
    THEN round
    ELSE [round EXCEPT !.sent_blocks = Put(@, id, {})]

round_approvedBlock(round, src, id) ==
    LET sent == round.sent_blocks
        same_source == {c \in DOMAIN sent \ {SKIP} : CandidateSrc[c] = CandidateSrc[id]}
    IN  IF id # SKIP /\ (id \notin DOMAIN sent \/ \E c \in same_source : src \in sent[c])
        THEN round
        ELSE [round EXCEPT !.sent_blocks =
                Put(sent, id, (IF id \in DOMAIN sent THEN sent[id] ELSE {}) \cup {src})]

round_commit(round, src, id) ==
    IF round.precommitted /\ round.precommitted_block = id
    THEN [round EXCEPT !.signatures = @ \cup {src}]
    ELSE round

(* A voted block other than the one of the latest lock e releases every    *)
(* lock that is not younger than att; a precommit locks its author unless  *)
(* a later lock on another block exists.                                   *)
SameAsLock(round, e, block) ==
    e > 0 /\ block # NONE => block = get_voted_block(round.attempts[e])

ReleaseLocks(locks, att, eq) ==
    IF eq THEN locks ELSE [i \in Nodes |-> IF locks[i] > att THEN locks[i] ELSE 0]

(* Mutant of TakeLock: a vote locks its author.                            *)
TakeLockOnVote(locks, t, src, att, e, eq) ==
    IF check_vote_received_from(t, src) /\ locks[src] < att /\ (att > e \/ eq)
    THEN [locks EXCEPT ![src] = att]
    ELSE locks

TakeLock(locks, t, src, att, e, eq) ==
    IF check_precommit_received_from(t, src) /\ locks[src] < att /\ (att > e \/ eq)
    THEN [locks EXCEPT ![src] = att]
    ELSE locks

MoveLocks(locks, t, src, att, e, eq) ==
    TakeLock(ReleaseLocks(locks, att, eq), t, src, att, e, eq)

LatestLock(round) == Max({round.last_precommit[i] : i \in Nodes})

(* Mutant of AttemptMoved: that the attempt is precommitted goes unnoticed. *)
PrecommitUnnoticed(round, src, att, t, block, e) ==
    [round EXCEPT
        !.last_precommit = MoveLocks(@, t, src, att, e, SameAsLock(round, e, block)),
        !.attempts       = Put(@, att, t)]

(* The round after its attempt att became t with a step of src: it may be  *)
(* precommitted, and the locks follow.                                     *)
AttemptMoved(round, src, att, t, block, e) ==
    [round EXCEPT
        !.precommitted       = check_attempt_is_precommitted(t),
        !.precommitted_block = IF check_attempt_is_precommitted(t) THEN block ELSE @,
        !.last_precommit     = MoveLocks(@, t, src, att, e, SameAsLock(round, e, block)),
        !.attempts           = Put(@, att, t)]

WithVotedBlock(round, src, att, t) ==
    AttemptMoved(round, src, att, t, get_voted_block(t), LatestLock(round))

forward_action_to_attempt(round, src, att, msg) ==
    IF round.precommitted THEN round
    ELSE WithVotedBlock(round, src, att,
            attempt_action(get_attempt(round, att), src, att, msg, round))

touch_first_attempt(round, src, att) ==
    IF round.first_attempt[src] = 0 \/ round.first_attempt[src] > att
    THEN [round EXCEPT !.first_attempt[src] = att]
    ELSE round

apply_message(round, src, att, msg) ==
    CASE msg.type = "submittedBlock" -> round_submittedBlock(round, src, msg.id)
      [] msg.type = "approvedBlock"  -> round_approvedBlock(round, src, msg.id)
      [] msg.type = "rejectedBlock"  -> round
      [] msg.type = "commit"         -> round_commit(round, src, msg.id)
      [] OTHER                       -> forward_action_to_attempt(round, src, att, msg)

round_action(round, src, att, msg) ==
    apply_message(touch_first_attempt(round, src, att), src, att, msg)

(* The step a block takes although its messages did not say so.  It moves  *)
(* the attempt but neither locks nor precommits the round.                 *)
MadeOne(round, att, t) ==
    IF round.precommitted \/ t = get_attempt(round, att) THEN round
    ELSE [round EXCEPT !.attempts = Put(@, att, t)]

make_attempt_one(round, src, att) ==
    MadeOne(round, att, attempt_make_one(get_attempt(round, att), src, att, round))

round_make_one(round, src, att) ==
    make_attempt_one(touch_first_attempt(round, src, att), src, att)

round_create_action(round, src, att) ==
    IF round.precommitted THEN Message("empty", round, NONE)
    ELSE attempt_create_action(get_attempt(round, att), round, src, att)

-----------------------------------------------------------------------------
(* Merging two rounds.                                                     *)

MergedAttempts(l, r) == MergeVectors(l.attempts, r.attempts, AttemptMerge)

MergeFirstAttempt(x, y) ==
    IF x = 0 THEN y ELSE IF y = 0 THEN x ELSE Min({x, y})

(* Mutant of MergedBlock: the block of the right side wins.                *)
MergedBlockRight(l, r, done, attempts) ==
    IF l.precommitted \/ r.precommitted \/ done = {} THEN r.precommitted_block
    ELSE get_voted_block(attempts[Max(done)])

(* precommitted_block_, with done the attempts that are precommitted.      *)
MergedBlock(l, r, done, attempts) ==
    IF l.precommitted \/ r.precommitted \/ done = {}
    THEN IF l.precommitted_block # SKIP THEN l.precommitted_block ELSE r.precommitted_block
    ELSE get_voted_block(attempts[Max(done)])

(* Mutant of MergedLock: the lock of the left side wins.                   *)
MergedLockLeft(x, y, voted, f1) ==
    IF x > 0 THEN x ELSE IF voted = {} \/ y > f1 THEN y ELSE 0

(* The last lock, unless a later attempt voted another block: f1 is the    *)
(* last attempt whose voted block differs from the one voted last of all.  *)
MergedLock(x, y, voted, f1) ==
    IF voted = {} \/ Max({x, y}) > f1 THEN Max({x, y}) ELSE 0

round_merge_full(l, r) ==
    LET attempts == MergedAttempts(l, r)
        block(a) == get_voted_block(attempts[a])
        voted    == {a \in DOMAIN attempts : block(a) # NONE}
        other    == {a \in voted : block(a) # block(Max(voted))}
        f1       == IF other = {} THEN 0 ELSE Max(other)
        done     == {a \in DOMAIN attempts : check_attempt_is_precommitted(attempts[a])}
    IN  [seqno              |-> l.seqno,
         precommitted       |-> l.precommitted \/ r.precommitted \/ done # {},
         precommitted_block |-> MergedBlock(l, r, done, attempts),
         first_attempt      |-> [i \in Nodes |->
             MergeFirstAttempt(l.first_attempt[i], r.first_attempt[i])],
         last_precommit     |-> [i \in Nodes |->
             MergedLock(l.last_precommit[i], r.last_precommit[i], voted, f1)],
         sent_blocks        |->
             MergeVectors(l.sent_blocks, r.sent_blocks, LAMBDA x, y : x \cup y),
         signatures         |-> l.signatures \cup r.signatures,
         attempts           |-> attempts]

round_merge(l, r) == IF l = r THEN l ELSE round_merge_full(l, r)

(* The conditions under which round_merge runs to its end: the CHECKs, and *)
(* the attempt vector it iterates over without a null test.                *)
RoundMergeChecks(l, r) ==
    LET attempts == MergedAttempts(l, r)
        block(a) == get_voted_block(attempts[a])
        done     == {a \in DOMAIN attempts : check_attempt_is_precommitted(attempts[a])}
    IN  l # r =>
          /\ l.precommitted /\ r.precommitted => l.precommitted_block = r.precommitted_block
          /\ attempts # EmptyVector
          /\ l.precommitted \/ r.precommitted \/ done = {} \/ block(Max(done)) # NONE
          /\ (\A a \in DOMAIN attempts : block(a) = NONE)
               => \A i \in Nodes : l.last_precommit[i] = 0 /\ r.last_precommit[i] = 0

-----------------------------------------------------------------------------
(* ValidatorSessionOldRoundState.                                          *)

NewOldRound(round) ==
    [block |-> round.precommitted_block, signatures |-> round.signatures,
     approve_signatures |-> round.sent_blocks[round.precommitted_block]]

old_merge(l, r) ==
    [l EXCEPT !.signatures = @ \cup r.signatures,
              !.approve_signatures = @ \cup r.approve_signatures]

(* The CHECKs of ValidatorSessionOldRoundState::create.                    *)
CloseChecks(round) ==
    check_block_is_signed(round) =>
        /\ round.precommitted
        /\ round.precommitted_block \in DOMAIN round.sent_blocks

(* Mutant of old_merge_round: the signatures of the round replace the old. *)
OldSignaturesReplaced(old, round) == [old EXCEPT !.signatures = round.signatures]

(* A finished round merged with the view of a node that is still in it.    *)
old_merge_round(old, round) ==
    [old EXCEPT !.signatures = @ \cup round.signatures,
                !.approve_signatures =
                   IF old.block \in DOMAIN round.sent_blocks
                   THEN @ \cup round.sent_blocks[old.block] ELSE @]

(* Late messages for a finished round: other types do nothing.             *)
old_action(old, src, msg) ==
    IF msg.id # old.block THEN old
    ELSE CASE msg.type = "approvedBlock" ->
                [old EXCEPT !.approve_signatures = @ \cup {src}]
           [] msg.type = "commit" -> [old EXCEPT !.signatures = @ \cup {src}]
           [] OTHER -> old

-----------------------------------------------------------------------------
(* ValidatorSessionState.                                                  *)

MinAttempt == 1024

NewState ==
    [att |-> [i \in Nodes |-> 0], old_rounds |-> EmptyVector, cur_round |-> NewRound(0)]

(* Mutant of CloseRound: the finished round is not kept.                   *)
CloseAndForget(att, old, round) ==
    IF check_block_is_signed(round)
    THEN [att |-> att, old_rounds |-> old, cur_round |-> NewRound(round.seqno + 1)]
    ELSE [att |-> att, old_rounds |-> old, cur_round |-> round]

(* A round whose block is signed by enough nodes becomes an old round and  *)
(* the next one begins.                                                    *)
CloseRound(att, old, round) ==
    IF check_block_is_signed(round)
    THEN [att |-> att, old_rounds |-> Put(old, round.seqno, NewOldRound(round)),
          cur_round |-> NewRound(round.seqno + 1)]
    ELSE [att |-> att, old_rounds |-> old, cur_round |-> round]

MergedOld(l, r) == MergeVectors(l.old_rounds, r.old_rounds, old_merge)

merge(l, r) ==
    LET att == [i \in Nodes |-> Max({l.att[i], r.att[i]})]
        old == MergedOld(l, r)
        L   == l.cur_round
        R   == r.cur_round
    IN  IF l = r THEN l
        ELSE IF L.seqno < R.seqno
        THEN CloseRound(att, Put(old, L.seqno, old_merge_round(old[L.seqno], L)), R)
        ELSE IF L.seqno > R.seqno
        THEN CloseRound(att, Put(old, R.seqno, old_merge_round(old[R.seqno], R)), L)
        ELSE CloseRound(att, old, round_merge(L, R))

(* merge runs to its end: the rounds of the two sides merge, the round     *)
(* that results can be closed, and a side that is behind finds the old     *)
(* round it has to be merged into.                                         *)
MergeChecks(l, r) ==
    LET L == l.cur_round
        R == r.cur_round
    IN  /\ L.seqno = R.seqno => RoundMergeChecks(L, R) /\ CloseChecks(round_merge(L, R))
        /\ L.seqno < R.seqno => L.seqno \in DOMAIN MergedOld(l, r)
        /\ L.seqno > R.seqno => R.seqno \in DOMAIN MergedOld(l, r)

(* Mutant of ClampAttempt: the clock is believed.                          *)
ClampNothing(state, src, att) == att

(* Attempts of one author never decrease.                                  *)
ClampAttempt(state, src, att) == Max({att, state.att[src], MinAttempt})

action(state, src, att, msg) ==
    LET a   == ClampAttempt(state, src, att)
        ts  == [state.att EXCEPT ![src] = a]
        cur == state.cur_round
    IN  CASE msg.round > cur.seqno -> [state EXCEPT !.att = ts]
          [] msg.round = cur.seqno ->
                CloseRound(ts, state.old_rounds, round_action(cur, src, a, msg))
          [] msg.round < cur.seqno ->
                [state EXCEPT !.att = ts,
                              !.old_rounds[msg.round] = old_action(@, src, msg)]

make_one(state, src, att) ==
    LET a == ClampAttempt(state, src, att)
    IN  [state EXCEPT !.att[src] = a, !.cur_round = round_make_one(@, src, a)]

(* make_one until it makes nothing: a first attempt, a vote and a          *)
(* precommit at most.                                                      *)
make_all(state, src, att) ==
    LET made[i \in 0 .. 3] == IF i = 0 THEN state ELSE make_one(made[i - 1], src, att)
    IN  made[3]
=============================================================================

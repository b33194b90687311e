----------------------------- MODULE SessionDag -----------------------------
(***************************************************************************)
(* Validator sessions on top of a catchain.  A node publishes a chain of   *)
(* blocks; each refers to blocks of other nodes and carries the messages   *)
(* of ValidatorSessionImpl::process_blocks.  Every receiver computes the   *)
(* session state of a block from the states of the blocks it refers to     *)
(* (preprocess_block), so that the state is a function of the graph.       *)
(*                                                                         *)
(* Catchain is what the session sees of it: blocks arrive in any order     *)
(* that respects their references, and late by any amount.  A node that    *)
(* forks (it lost its database and started again, say) owns two chains.    *)
(***************************************************************************)
EXTENDS SessionState, SequencesExt

CONSTANTS
    ChainAuthor,        \* ChainAuthor[ch]: the node that writes chain ch
    Hears,              \* Hears[ch]: the chains whose blocks ch refers to
    Attempts,           \* the attempts clocks go through
    MonotoneClock,      \* FALSE: the wall clock may be set back
    IdleBlocks,         \* TRUE: catchain's idle_timeout produces blocks nobody
                        \* asked for; FALSE leaves them out, as a bound
    Opening,            \* bound: the first blocks of the run, made in this order
                        \* in the first attempt.  A record names the chain, the
                        \* candidates submitted and approved, and whether the
                        \* block refers to all others of before or to none
    MayApprove,         \* MayApprove[i]: the candidates that pass i's validation
    MaxBlocks,          \* MaxBlocks[ch]: bound on the length of chain ch
    MaxRound            \* bound: nobody goes on beyond this round

Chains == DOMAIN ChainAuthor

ASSUME DagAssumption ==
    /\ Chains = 0 .. Cardinality(Chains) - 1
    /\ ChainAuthor \in [Chains -> Nodes]
    /\ Hears \in [Chains -> SUBSET Chains]
    /\ Attempts \subseteq Nat
    /\ MonotoneClock \in BOOLEAN
    /\ IdleBlocks \in BOOLEAN
    /\ Opening \in Seq([ch : Chains, submit : SUBSET Blocks,
                       approve : SUBSET Candidates, hear : BOOLEAN])
    /\ MayApprove \in [Nodes -> SUBSET Candidates]
    /\ MaxBlocks \in [Chains -> Nat]
    /\ MaxRound \in Nat

VARIABLES
    blocks,     \* blocks[ch]: the states receivers computed for ch's blocks, with
                \* the vector time of the block
    real,       \* real[ch]: real_state_ of the node while it writes ch
    hung        \* hung[ch]: the node never left process_blocks

vars == <<blocks, real, hung>>

Height(ch) == Len(blocks[ch])

(* How much of the other chains the last block of ch has seen.             *)
Seen(ch) == IF Height(ch) = 0 THEN [d \in Chains |-> 0] ELSE Last(blocks[ch]).vt

LastState(ch) == IF Height(ch) = 0 THEN NewState ELSE Last(blocks[ch]).state

MergeAll(state, others) == FoldSet(LAMBDA t, s : merge(s, t), state, others)

(* The blocks a new block refers to: deps[d] is the height of the block of *)
(* chain d, or what was seen of d before.                                  *)
NewDeps(ch, deps) == {d \in Hears[ch] : deps[d] > Seen(ch)[d]}

MergeDeps(ch, state, deps) ==
    MergeAll(state, {blocks[d][deps[d]].state : d \in NewDeps(ch, deps)})

VectorTime(ch, deps) ==
    [d \in Chains |->
        IF d = ch THEN Height(ch) + 1
        ELSE Max({Seen(ch)[d]} \cup {blocks[e][deps[e]].vt[d] : e \in NewDeps(ch, deps)})]

ApplyAll(state, src, att, msgs) ==
    FoldLeft(LAMBDA s, m : action(s, src, att, m), state, msgs)

Messages(type, round, ids) == [i \in DOMAIN ids |-> [type |-> type, round |-> round, id |-> ids[i]]]

ByPriority(round, ids) ==
    SetToSortSeq(ids, LAMBDA c, d : Priority(round, c) < Priority(round, d))

(* What process_blocks finds prepared when it runs: a candidate generated  *)
(* and not submitted yet, the candidates validation approved by now, and   *)
(* whether the signature of the precommitted block is ready.  A rejection  *)
(* is left out: applying it touches the first attempt and att_ of src, and *)
(* the EMPTY at the end of every block does the same.                      *)
Prepared(state, src, submit, approve, sign) ==
    LET round   == state.cur_round
        to_sign == choose_block_to_sign(round, src)
    IN  Messages("submittedBlock", round.seqno, SetToSeq(submit))
        \o Messages("approvedBlock", round.seqno, ByPriority(round, approve))
        \o Messages("commit", round.seqno, IF sign THEN <<to_sign>> ELSE <<>>)

(* What may have been prepared by then.  on_new_round throws away all that *)
(* was prepared for the round before, and only the signature of a skipped  *)
(* round needs no answer from another actor.                               *)
Entered(ch, state) == state.cur_round.seqno # real[ch].cur_round.seqno

Submissions(ch, state, src) ==
    {{}} \cup {{c} : c \in {b \in Blocks :
        /\ ~Entered(ch, state)
        /\ CandidateSrc[b] = src
        /\ get_node_priority(src, state.cur_round.seqno) >= 0
        /\ ~check_block_is_sent_by(state.cur_round, src)}}

Approvals(ch, state, src) ==
    IF Entered(ch, state) THEN {{}}
    ELSE SUBSET (choose_blocks_to_approve(state.cur_round, src) \cap MayApprove[src])

Signings(ch, to_sign, state) ==
    {FALSE, to_sign # NONE /\ (Entered(ch, state) => to_sign = SKIP)}

LoopBound == 6

(* Mutant of CreateLoop: one pass and no more.                             *)
CreateOnce(state, src, att, msgs) ==
    LET m == round_create_action(state.cur_round, src, att)
    IN  [state |-> action(state, src, att, m), msgs |-> Append(msgs, m), stop |-> TRUE]

(* The loop that creates and applies messages until it creates EMPTY.  The *)
(* attempt it asks create_action about is the clock's, the one action      *)
(* applies the message in is never below att_[src].  A pass that changes   *)
(* nothing repeats forever; LoopBound passes are enough to tell.           *)
CreateLoop(state, src, att, msgs) ==
    LET pass[i \in 0 .. LoopBound] ==
          IF i = 0 THEN [state |-> state, msgs |-> msgs, stop |-> FALSE]
          ELSE LET p == pass[i - 1]
                   m == round_create_action(p.state.cur_round, src, att)
               IN  IF p.stop THEN p
                   ELSE [state |-> action(p.state, src, att, m),
                         msgs  |-> Append(p.msgs, m),
                         stop  |-> m.type = "empty"]
    IN  pass[LoopBound]

Init ==
    /\ blocks = [ch \in Chains |-> <<>>]
    /\ real = [ch \in Chains |-> NewState]
    /\ hung = [ch \in Chains |-> FALSE]

(* preprocess_block, at every receiver.                                    *)
preprocess_block(ch, deps, att, msgs) ==
    LET src == ChainAuthor[ch]
    IN  make_all(ApplyAll(MergeDeps(ch, LastState(ch), deps), src, att, msgs), src, att)

(* Why a node asks catchain for a new block: the round moved on, or        *)
(* something is ready to be sent, or it has a vote, a precommit or a       *)
(* VoteFor to make in the current attempt.                                 *)
check_all(ch, state, att, msgs) ==
    LET src == ChainAuthor[ch]
    IN  \/ Entered(ch, state)
        \/ msgs # <<>>
        \/ round_create_action(state.cur_round, src, att).type # "empty"
        \/ check_need_generate_vote_for(state.cur_round, src, att)

(* The end of process_blocks: the block is published with its messages, or *)
(* the loop never ended.                                                   *)
Publish(ch, deps, att, end) ==
    \/ /\ end.stop
       /\ real' = [real EXCEPT ![ch] = end.state]
       /\ blocks' = [blocks EXCEPT ![ch] = Append(@,
            [state |-> preprocess_block(ch, deps, att, end.msgs), vt |-> VectorTime(ch, deps)])]
       /\ UNCHANGED hung
    \/ /\ ~end.stop
       /\ hung' = [hung EXCEPT ![ch] = TRUE]
       /\ UNCHANGED <<blocks, real>>

(* The VoteFor of the coordinator of a slow attempt, a random choice.      *)
VoteForMessages(round, src, att) ==
    IF check_need_generate_vote_for(round, src, att)
    THEN {Messages("voteFor", round.seqno, <<c>>) : c \in Approved(round)}
    ELSE {<<>>}

(* process_blocks for the blocks of deps, with the clock in attempt att,   *)
(* after real_state_ was merged with their states.                         *)
process_merged(ch, deps, att, src, merged, submit, approve, sign) ==
    \E msgs \in {Prepared(merged, src, submit, approve, sign)} :
        /\ IdleBlocks \/ check_all(ch, merged, att, msgs)
        /\ \E ready \in {ApplyAll(merged, src, att, msgs)} :
           \E vote_for \in VoteForMessages(ready.cur_round, src, att) :
           \E end \in {CreateLoop(ApplyAll(ready, src, att, vote_for),
                                src, att, msgs \o vote_for)} :
               Publish(ch, deps, att, end)

process_blocks(ch, deps, att, src) ==
    \E merged \in {MergeDeps(ch, real[ch], deps)} :
        /\ merged.cur_round.seqno <= MaxRound
        /\ MonotoneClock => att >= merged.att[src]
        /\ \E submit \in Submissions(ch, merged, src), approve \in Approvals(ch, merged, src),
              sign \in Signings(ch, choose_block_to_sign(merged.cur_round, src), merged) :
            process_merged(ch, deps, att, src, merged, submit, approve, sign)

(* Heights of other chains a block may refer to: what the last block of    *)
(* the chain saw, or any later block.                                      *)
Deps(ch) ==
    {deps \in [Hears[ch] -> 0 .. Max({Height(d) : d \in Chains})] :
        \A d \in Hears[ch] : Seen(ch)[d] <= deps[d] /\ deps[d] <= Height(d)}

BlocksMade == MapThenSumSet(Height, Chains)

(* The next block of the opening, one that process_blocks could make.      *)
Open(open, deps) ==
    \E merged \in {MergeDeps(open.ch, real[open.ch], deps)} :
        process_merged(open.ch, deps, Min(Attempts), ChainAuthor[open.ch], merged,
                       open.submit, open.approve, FALSE)

OpeningStep ==
    /\ BlocksMade < Len(Opening)
    /\ \E open \in {Opening[BlocksMade + 1]} :
          Open(open, [d \in Hears[open.ch] |-> IF open.hear THEN Height(d) ELSE 0])

Next ==
    \/ OpeningStep
    \/ /\ BlocksMade >= Len(Opening)
       /\ \E ch \in Chains :
            /\ ~hung[ch]
            /\ Height(ch) < MaxBlocks[ch]
            /\ \E deps \in Deps(ch), att \in Attempts :
                  process_blocks(ch, deps, att, ChainAuthor[ch])

Spec == Init /\ [][Next]_vars

-----------------------------------------------------------------------------
(* The latest published states.  Two blocks neither of which is in the     *)
(* past of the other are the latest ones of some graph, so that what is    *)
(* said of these states is said of any two blocks a node may merge.        *)
States == {LastState(ch) : ch \in Chains}

(* What the variables hold, in the terms of the session: a round is        *)
(* precommitted, or has a signature or a lock, only with the attempts to   *)
(* show for it.                                                            *)
RoundOK(round) ==
    /\ round.seqno \in Nat
    /\ round.precommitted \in BOOLEAN
    /\ round.precommitted_block \in Candidates
    /\ round.first_attempt \in [Nodes -> Nat]
    /\ round.last_precommit \in [Nodes -> Nat]
    /\ round.sent_blocks \in [DOMAIN round.sent_blocks -> SUBSET Nodes]
    /\ DOMAIN round.sent_blocks \subseteq Candidates
    /\ round.signatures \subseteq Nodes
    /\ \A a \in DOMAIN round.attempts :
          /\ round.attempts[a].votes \in [Candidates -> SUBSET Nodes]
          /\ round.attempts[a].precommitted \subseteq Nodes
          /\ round.attempts[a].vote_for \in Candidates \cup {NONE}

StateOK(state) ==
    /\ state.att \in [Nodes -> Nat]
    /\ DOMAIN state.old_rounds = 0 .. state.cur_round.seqno - 1
    /\ \A r \in DOMAIN state.old_rounds : state.old_rounds[r] \in
          [block : Candidates, signatures : SUBSET Nodes, approve_signatures : SUBSET Nodes]
    /\ RoundOK(state.cur_round)

(* Type invariant: every published state (each was its chain's last once), *)
(* every real_state_ and the vector times are well formed, and old_rounds_ *)
(* has no gaps.                                                            *)
TypeOK ==
    /\ \A ch \in Chains :
          /\ StateOK(real[ch])
          /\ StateOK(LastState(ch))
          /\ Seen(ch) \in [Chains -> Nat]
    /\ hung \in [Chains -> BOOLEAN]

(* No CHECK of the merge functions fails and no null attempt vector is     *)
(* read, whichever two states meet: validator-session-state.cpp:283-285    *)
(* (both sides precommitted the same block), 337, 353, 121-124, and the    *)
(* loop at 313 over the merged attempts.                                   *)
MergeNeverAborts == \A s, t \in States : MergeChecks(s, t)

(* The state does not depend on the order in which blocks arrive:          *)
(* virtual_state_ merges them in the order of delivery, real_state_ in the *)
(* order of processing, and finished_processing expects the same hash.     *)
MergeOrderIrrelevant ==
    \A s, t \in States :
        /\ s # t => merge(s, t) = merge(t, s)
        /\ \A u \in States \ {s, t} :
              s # t => merge(merge(s, t), u) = merge(s, merge(t, u))

(* A state contains all it has seen: merging a block of its own past,      *)
(* which virtual_state_ does all the time, changes nothing.                *)
MergeAbsorbs ==
    \A ch, d \in Chains :
        Seen(ch)[d] > 0 =>
            merge(LastState(ch), blocks[d][Seen(ch)[d]].state) = LastState(ch)

(* Two equal rounds need not be one object: the object cache of            *)
(* ValidatorSessionDescription is lossy.  Then `left == right` fails and   *)
(* the merge is computed, with the same result.                            *)
MergeIdempotent ==
    \A s \in States : s.cur_round.attempts # EmptyVector
                         => round_merge_full(s.cur_round, s.cur_round) = s.cur_round

(* The three merge functions compute a join: whichever blocks meet, in     *)
(* whichever order and however often, no CHECK fails and the state is the  *)
(* one state that contains them all.  The parts are explained above.       *)
MergeIsJoin ==
    MergeNeverAborts /\ MergeOrderIrrelevant /\ MergeAbsorbs /\ MergeIdempotent

(* What the author computed while it created a block is what every         *)
(* receiver computes from it: make_all finds nothing left to do, and the   *)
(* "state hash mismatch" warning of preprocess_block stays silent.         *)
RealIsReplicated == \A ch \in Chains : real[ch] = LastState(ch)

(* The loop of process_blocks ends.                                        *)
NeverHangs == \A ch \in Chains : ~hung[ch]

(* The CHECKs of forward_action_to_attempt and choose_block_to_vote: a     *)
(* lock points to an attempt the state knows, in which its owner           *)
(* precommitted and some block is voted; and an attempt that is            *)
(* precommitted has a voted block.                                         *)
LocksAreBacked ==
    \A s \in States :
        LET round == s.cur_round
        IN  /\ \A i \in Nodes : round.last_precommit[i] > 0 =>
                  /\ round.last_precommit[i] \in VotedAttempts(round)
                  /\ i \in round.attempts[round.last_precommit[i]].precommitted
            /\ \A a \in DOMAIN round.attempts :
                  check_attempt_is_precommitted(round.attempts[a])
                     => a \in VotedAttempts(round)

(* All nodes that finished a round finished it with the same block, and a  *)
(* node still in that round can precommit no other: old_merge takes the    *)
(* block of its left side without a look at the right one.                 *)
CommittedAgree ==
    \A s, t \in States : \A r \in DOMAIN s.old_rounds :
        /\ r \in DOMAIN t.old_rounds => s.old_rounds[r].block = t.old_rounds[r].block
        /\ r = t.cur_round.seqno /\ t.cur_round.precommitted
              => s.old_rounds[r].block = t.cur_round.precommitted_block

(* A finished round has the signatures and the approvals of enough nodes   *)
(* in the state that finished it: on_new_round hands both sets to          *)
(* on_block_committed.                                                     *)
CommittedIsApproved ==
    \A s \in States : \A r \in DOMAIN s.old_rounds :
        HasCutoff(s.old_rounds[r].signatures) /\ HasCutoff(s.old_rounds[r].approve_signatures)

(* A finished round can be handed to on_block_committed: every node that   *)
(* finished it hands over the same block, signed and approved.             *)
CommitsAreSound == CommittedAgree /\ CommittedIsApproved

(* What a node knows to be precommitted stays so until the round is        *)
(* finished, with that block, and a finished round keeps its block.        *)
StaysDecided(s, t) ==
    /\ \A r \in DOMAIN s.old_rounds :
          r \in DOMAIN t.old_rounds /\ t.old_rounds[r].block = s.old_rounds[r].block
    /\ s.cur_round.precommitted =>
          IF t.cur_round.seqno = s.cur_round.seqno
          THEN /\ t.cur_round.precommitted
               /\ t.cur_round.precommitted_block = s.cur_round.precommitted_block
          ELSE /\ s.cur_round.seqno \in DOMAIN t.old_rounds
               /\ t.old_rounds[s.cur_round.seqno].block = s.cur_round.precommitted_block

DecisionsAreFinal == [][\A ch \in Chains : StaysDecided(LastState(ch), LastState(ch)')]_vars
=============================================================================

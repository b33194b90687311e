---------------------------- MODULE SessionActor ----------------------------
(***************************************************************************)
(* One validator's ValidatorSessionImpl: the actor between Catchain, which *)
(* brings the messages of the others, and the services it asks for help:   *)
(* the collator, the validator of candidates, the keyring and the peers    *)
(* that hold a candidate.  All of them answer later, in any order, and     *)
(* possibly after the round has changed or not at all.                     *)
(*                                                                         *)
(* The consensus state (SessionVoting models it in full) is a record S of  *)
(* what this actor reads in it: the round, the candidates submitted in it, *)
(* whether the candidate to sign is known, and the messages of this        *)
(* validator.  real is real_state_, virt is virtual_state_.  The actor is  *)
(* a record A; each operator is what one method does to it, the calls it   *)
(* makes included.  CatChainImpl is in it as far as it answers this actor: *)
(* its mailbox is emptied at once, since only the order of                 *)
(* processed_block and need_new_block matters and that order is kept.      *)
(***************************************************************************)
EXTENDS Naturals, FiniteSets, FiniteSetsExt

CONSTANTS Maker,         \* Maker[c]: who makes candidate c
          Built,         \* Built[c]: how many committed blocks it is built upon
          MaxRound,      \* bound: the last round
          MaxPast,       \* MAX_PAST_ROUND_BLOCK
          Setups         \* bound: the sessions to look at, see setup

Candidates == DOMAIN Maker

ASSUME ActorAssumption ==
  /\ MaxRound \in Nat /\ MaxPast \in Nat
  /\ Built \in [Candidates -> Nat]
  /\ \A s \in Setups : /\ s.own \subseteq s.cand /\ s.cand \subseteq Candidates
                      /\ s.decisions \subseteq [0 .. MaxRound -> s.cand \cup {"skip"}]
  /\ {"skip", "none"} \cap Candidates = {}

VARIABLES setup,     \* which of Setups this is; never changes.  Its fields:
                     \*   cand, own    the candidates, those this validator makes
                     \*   decisions    the outcomes of the rounds to look at
                     \*   delays       the delays that may run out in a round
                     \*   vote         whether there is a vote to make
                     \*   max_failures how many downloads fail or sources are blamed
                     \*   max_crashes  how many restarts there are
          dec,       \* what the consensus decides in each round
          actor,     \* the actor
          fly,       \* questions asked and not answered
          saved,     \* the own blocks that are on disk: their state
          failures,
          crashes

vars == <<setup, dec, actor, fly, saved, failures, crashes>>

Cand == setup.cand
Own == setup.own
Vote == setup.vote

Skip == "skip"           \* the null candidate
None == "none"
Round == 0 .. MaxRound
Delays == {"slot", "p2p", "skip"}
\* The number of blocks committed before round r, and what is valid on them.
Base(r) == Cardinality({q \in 0 .. r - 1 : dec[q] # Skip})
Valid(c, r) == Built[c] = Base(r)

-----------------------------------------------------------------------------
(* What the actor reads in a session state *)

NewState(r) == [round |-> r, sub |-> {}, prec |-> FALSE, mine |-> {}]
Says(S, kind) == {m[2] : m \in {n \in S.mine : n[1] = kind}}

\* choose_blocks_to_approve(): of each maker with one candidate, that one,
\* and the null candidate, unless approved already.
ToApprove(S) ==
  ({c \in S.sub : \A d \in S.sub : Maker[d] = Maker[c] => d = c} \cup {Skip}) \ Says(S, "approve")

\* choose_block_to_sign(): found.
ToSign(S) == S.prec /\ Says(S, "commit") = {}

\* merge(): the higher round wins; within a round everything is joined.
Merge(S, T) ==
  IF S.round # T.round THEN IF S.round > T.round THEN S ELSE T
  ELSE [round |-> S.round, sub |-> S.sub \cup T.sub, prec |-> S.prec \/ T.prec, mine |-> S.mine \cup T.mine]

\* What processing some of the blocks already preprocessed can give.
Between(S, T) ==
  IF S.round = T.round
  THEN {[S EXCEPT !.sub = x[1], !.prec = x[2]] : x \in {U \in SUBSET T.sub : S.sub \subseteq U} \X {S.prec, T.prec}}
  ELSE {[NewState(T.round) EXCEPT !.sub = x[1], !.prec = x[2]] : x \in (SUBSET T.sub) \X {p \in BOOLEAN : p => T.prec}}
Behind(S, T) == Merge(S, T) # S

-----------------------------------------------------------------------------
(* Asking Catchain for a block *)

\* CatChainImpl::need_new_block()
NeedNewBlock(A) == IF A.chain = "active" THEN [A EXCEPT !.force = TRUE] ELSE [A EXCEPT !.asked = TRUE]

\* request_new_block()
RequestNewBlock(A, now) ==
  IF A.requested_now \/ (~ now /\ A.requested) THEN A
  ELSE NeedNewBlock([A EXCEPT !.requested = TRUE, !.requested_now = now])

-----------------------------------------------------------------------------
(* The checks *)

\* Ask a service: the question is in A.asks until the step ends.
Ask(A, kind, c) == [A EXCEPT !.asks = @ \cup {<<kind, A.cur_round, c>>}]

\* check_sign_slot()
CheckSignSlot(A) ==
  IF A.pending_sign THEN A
  ELSE IF Says(A.real, "commit") # {} THEN [A EXCEPT !.signed = TRUE]
  ELSE IF A.signed THEN RequestNewBlock(A, FALSE)
  ELSE IF ~ ToSign(A.virt) THEN A
  ELSE IF dec[A.cur_round] = Skip
       THEN RequestNewBlock([A EXCEPT !.signed = TRUE, !.signed_block = Skip], FALSE)
       ELSE Ask([A EXCEPT !.pending_sign = TRUE], "sign", dec[A.cur_round])

\* ensure_candidate_unique(): the first candidate of a maker in a round.
Unique(A, c, r) == \A d \in Cand : Maker[d] = Maker[c] /\ <<d, r>> \in A.first => d = c

\* try_approve_block() for the null candidate.
TryApproveSkip(A) ==
  IF Skip \in A.approved THEN RequestNewBlock(A, FALSE)
  ELSE IF "skip" \notin A.due THEN A
  ELSE RequestNewBlock([A EXCEPT !.approved = @ \cup {Skip}], FALSE)

\* try_approve_block() for each of the candidates C, of which no two have the
\* same maker, so that none stands in another's way: those with neither a
\* verdict nor a check of theirs are looked at, one at hand is checked, one
\* that is missing is downloaded.
Open(A, C) ==
  {c \in C \ (A.approved \cup A.pending_approve \cup A.rejected) :
     "slot" \in A.due /\ Unique(A, c, A.cur_round)}
\* Mutant of Missing: a missing candidate is not downloaded.
MissingIgnored(A, C) == {}
Missing(A, C) ==
  {c \in Open(A, C) \ DOMAIN A.blocks : "p2p" \in A.due /\ c \notin A.active_requests}
TryApproveBlocks(A, C) ==
  LET local == Open(A, C) \cap DOMAIN A.blocks
      get == Missing(A, C)
      U == [A EXCEPT !.first = @ \cup (Open(A, C) \X {A.cur_round}),
                     !.pending_approve = @ \cup local,
                     !.blocks = [c \in DOMAIN @ |-> IF c \in local THEN Max({@[c], A.cur_round}) ELSE @[c]],
                     !.active_requests = @ \cup get,
                     !.asks = @ \cup ({"validate"} \X {A.cur_round} \X local) \cup ({"get"} \X {A.cur_round} \X get)]
  IN  IF (C \cap A.approved) \ A.early # {} THEN RequestNewBlock(U, FALSE) ELSE U

\* check_approve()
CheckApprove(A) ==
  LET C == ToApprove(A.virt)
      B == TryApproveBlocks(A, C \ {Skip})
  IN  IF Skip \in C THEN TryApproveSkip(B) ELSE B

\* Mutant of CheckGenerateSlot: real_state_ is not looked at.
GenerateAnew(A) ==
  IF A.generated \/ A.pending_generate \/ "slot" \notin A.due THEN A
  ELSE Ask([A EXCEPT !.pending_generate = TRUE], "generate", None)
\* check_generate_slot(); a validator that makes candidates is a producer.
CheckGenerateSlot(A) ==
  IF A.generated \/ A.pending_generate THEN A
  ELSE IF Says(A.real, "submit") # {} THEN [A EXCEPT !.generated = TRUE, !.sent_generated = TRUE]
  ELSE IF Own # {} /\ "slot" \in A.due THEN Ask([A EXCEPT !.pending_generate = TRUE], "generate", None)
  ELSE A

\* check_action() and check_vote_for_slot(): vote says whether there is a
\* vote, a precommit or a suggestion to make (SessionVoting has them).
CheckAction(A, vote) == IF vote THEN RequestNewBlock(A, FALSE) ELSE A

\* check_all()
CheckAll(A, vote) ==
  IF A.virt.round # A.cur_round THEN RequestNewBlock(A, FALSE)
  ELSE CheckAction(CheckGenerateSlot(CheckApprove(CheckSignSlot(A))), vote)

\* Mutant of ResetRound: pending_sign_ is not cleared.
ResetKeepSign(A) ==
  [A EXCEPT !.pending_generate = FALSE, !.generated = FALSE, !.sent_generated = FALSE,
            !.pending_approve = {}, !.approved = {}, !.early = {}, !.rejected = {}, !.pending_reject = {},
            !.signed = FALSE, !.signed_block = Skip, !.active_requests = {}]
ResetRound(A) ==
  [A EXCEPT !.pending_generate = FALSE, !.generated = FALSE, !.sent_generated = FALSE,
            !.pending_approve = {}, !.approved = {}, !.early = {}, !.rejected = {}, !.pending_reject = {},
            !.pending_sign = FALSE, !.signed = FALSE, !.signed_block = Skip, !.active_requests = {}]

\* The candidates that on_new_round() keeps in blocks_.
Kept(A, r) == {c \in DOMAIN A.blocks : A.blocks[c] + MaxPast >= r}

\* on_new_round(), to the round of real_state_.
OnNewRound(A, vote) ==
  LET r == A.real.round
      N == [ResetRound(A) EXCEPT !.cur_round = r, !.due = {},
                                 !.blocks = [c \in Kept(A, r) |-> A.blocks[c]],
                                 !.abort = @ \/ A.cur_round >= r]
  IN  CheckAll(N, vote)

-----------------------------------------------------------------------------
(* The blocks of Catchain *)

\* The messages of process_blocks(), after the merge.
Messages(A) ==
     {<<"submit", c>> : c \in IF A.generated /\ ~ A.sent_generated THEN {A.generated_block} ELSE {}}
  \cup {<<"approve", c>> : c \in ToApprove(A.real) \cap (A.approved \ A.early)}
  \cup {<<"reject", c>> : c \in A.pending_reject}
  \cup {<<"commit", c>> : c \in IF A.signed /\ ToSign(A.real) THEN {A.signed_block} ELSE {}}

\* The two CHECKs of process_blocks(): the own candidate is in blocks_, and
\* the block to sign is the one that was signed.
BlocksChecks(A) ==
  /\ A.generated /\ ~ A.sent_generated => A.generated_block \in DOMAIN A.blocks
  /\ A.signed /\ ToSign(A.real) => dec[A.real.round] = A.signed_block

\* action() for each message; the last signature may complete the round.
Applied(S, msgs, last) ==
  IF last THEN NewState(S.round + 1)
  ELSE [S EXCEPT !.mine = @ \cup msgs, !.sub = @ \cup {m[2] : m \in {n \in msgs : n[1] = "submit"}}]
MayBeLast(S, msgs) == (\E m \in msgs : m[1] = "commit") /\ S.round < MaxRound

\* CatChainImpl::processed_block(): another block, or finished_processing().
\* What is left to process is lost when its sources are blamed.
Processed(A, blamed) ==
  IF A.force \/ (Behind(A.real, A.virt) /\ ~ blamed) THEN [A EXCEPT !.force = FALSE]
  ELSE [A EXCEPT !.chain = "finished", !.asked = FALSE]

\* The parts of process_blocks(): take the blocks, say what there is to say,
\* go to the next round if that completed this one.
Taken(A, S, vote) ==
  LET T == [A EXCEPT !.requested = FALSE, !.requested_now = FALSE, !.real = S]
  IN  IF S.round # A.cur_round THEN OnNewRound(T, vote) ELSE T
Said(A, last, blamed) ==
  Processed([A EXCEPT !.sent_generated = @ \/ A.generated, !.pending_reject = {},
                      !.real = Applied(@, Messages(A), last), !.abort = @ \/ ~ BlocksChecks(A)], blamed)
Moved(A, vote) ==
  LET M == IF A.real.round > A.cur_round THEN OnNewRound(A, vote) ELSE A
  IN  [M EXCEPT !.virt = Merge(@, M.real)]

-----------------------------------------------------------------------------
(* Candidates *)

\* process_received_block(), for a broadcast (overlay) or an answer.
ReceivedBlock(A, c, r, overlay) ==
  IF c \in DOMAIN A.blocks THEN [A EXCEPT !.blocks[c] = Max({@, r})]
  ELSE IF overlay /\ ~ Unique(A, c, r) THEN A
  ELSE LET K == [A EXCEPT !.blocks = [d \in DOMAIN @ \cup {c} |-> IF d = c THEN r ELSE @[d]],
                          !.first = IF overlay THEN @ \cup {<<c, r>>} ELSE @]
       IN  IF r # A.cur_round THEN K
           ELSE IF c \in A.pending_approve \cup A.approved \cup A.pending_reject \cup A.rejected
                THEN [K EXCEPT !.abort = TRUE]
           ELSE IF c \in ToApprove(A.virt) THEN TryApproveBlocks(K, {c}) ELSE K

\* process_broadcast(): only rounds near the current one are looked at.
ProcessBroadcast(A, c, r, overlay) == IF r + MaxPast < A.cur_round THEN A ELSE ReceivedBlock(A, c, r, overlay)

-----------------------------------------------------------------------------
(* The start *)

\* on_catchain_started() with the state of the own blocks: ask for the
\* candidates approved before, and look around.
Started(S, vote) ==
  LET A == [cur_round |-> S.round, real |-> S, virt |-> S,
            requested |-> FALSE, requested_now |-> FALSE,
            pending_generate |-> FALSE, generated |-> FALSE, sent_generated |-> FALSE, generated_block |-> None,
            pending_approve |-> {}, approved |-> {}, early |-> {}, rejected |-> {}, pending_reject |-> {},
            pending_sign |-> FALSE, signed |-> FALSE, signed_block |-> Skip,
            active_requests |-> {}, blocks |-> <<>>, first |-> {},
            due |-> {}, asks |-> {<<"load", S.round, c>> : c \in Says(S, "approve") \ {Skip}},
            chain |-> "active", force |-> FALSE, asked |-> FALSE, abort |-> FALSE]
  IN  CheckAll(A, vote)

\* The end of a handler: its questions are on their way.
Becomes(A, answered) ==
  /\ actor' = [A EXCEPT !.asks = {}]
  /\ fly' = (fly \ answered) \cup A.asks

Init ==
  /\ setup \in Setups
  /\ dec \in {f \in setup.decisions :
                \A r \in Round : f[r] # Skip => Built[f[r]] = Cardinality({q \in 0 .. r - 1 : f[q] # Skip})}
  /\ \E vote \in Vote : LET A == Started(NewState(0), vote) IN actor = [A EXCEPT !.asks = {}] /\ fly = A.asks
  /\ saved = NewState(0)
  /\ failures = 0
  /\ crashes = 0

-----------------------------------------------------------------------------
(* The handlers *)

\* What one more block of another validator can add to virtual_state_: an own
\* candidate is decided upon only once the block that submits it is stored.
Stored(S) == {c \in S.sub : c \in Own => saved.round = S.round /\ c \in saved.sub}
Later(S) ==
     {[S EXCEPT !.sub = @ \cup {c}] : c \in Cand \ (Own \cup S.sub)}
  \cup {[S EXCEPT !.prec = TRUE] : d \in {dec[S.round]} \cap ({Skip} \cup Stored(S))}
  \cup {NewState(r + 1) : r \in {S.round} \cap {q \in Round : S.prec /\ q < MaxRound}}

\* preprocess_block(); finished_processing() would come before it.
PreprocessBlock ==
  /\ actor.chain # "finished"
  /\ \E V \in Later(actor.virt), vote \in Vote :
       Becomes(CheckAll([actor EXCEPT !.virt = V], vote), {})
  /\ UNCHANGED <<setup, dec, saved, failures, crashes>>

\* process_blocks() with some of the preprocessed blocks, at least one if any.
ProcessBlocks ==
  /\ actor.chain = "active"
  /\ \E S \in Between(actor.real, actor.virt), vote \in Vote, last \in BOOLEAN :
       LET T == Taken(actor, S, vote)
       IN  /\ Behind(actor.real, actor.virt) => S # actor.real
           /\ last => MayBeLast(T.real, Messages(T))
           /\ Becomes(Moved(Said(T, last, FALSE), vote), {})
  /\ UNCHANGED <<setup, dec, saved, failures, crashes>>

\* The same when the sources of what is left have been blamed meanwhile.
ProcessBlamed ==
  /\ actor.chain = "active" /\ Behind(actor.real, actor.virt)
  /\ failures < setup.max_failures
  /\ \E vote \in Vote : Becomes(Moved(Said(Taken(actor, actor.real, vote), FALSE, TRUE), vote), {})
  /\ failures' = failures + 1
  /\ UNCHANGED <<setup, dec, saved, crashes>>

\* finished_processing()
FinishedProcessing ==
  /\ actor.chain = "finished"
  /\ \E vote \in Vote : Becomes(CheckAll([actor EXCEPT !.virt = actor.real, !.chain = "idle"], vote), {})
  /\ UNCHANGED <<setup, dec, saved, failures, crashes>>

\* CatChainImpl::alarm(): asked for a block, or idle for long enough.
ChainAlarm ==
  /\ actor.chain = "idle"
  /\ actor' = [actor EXCEPT !.chain = "active", !.asked = FALSE]
  /\ UNCHANGED <<setup, dec, fly, saved, failures, crashes>>

\* alarm(): armed by check_all() for the next attempt at the latest.
Alarm ==
  /\ \E vote \in Vote : Becomes(CheckAll(actor, vote), {})
  /\ UNCHANGED <<setup, dec, saved, failures, crashes>>

\* The delays of the round: a slot, then the null candidate and the download
\* of what is missing, which also needs somebody who approved it.
Elapse(d) ==
  /\ d \in setup.delays \ actor.due
  /\ d # "slot" => "slot" \in actor.due
  /\ actor' = [actor EXCEPT !.due = @ \cup {d}]
  /\ UNCHANGED <<setup, dec, fly, saved, failures, crashes>>

\* The clock reaches the time ok_from of an approved candidate.
ClockPasses(c) ==
  /\ c \in actor.early
  /\ actor' = [actor EXCEPT !.early = @ \ {c}]
  /\ UNCHANGED <<setup, dec, fly, saved, failures, crashes>>

\* candidate_decision_ok() and candidate_decision_fail().  ValidatorGroup tries
\* again what it could not decide, and refuses a candidate of a round that is
\* over, which changes nothing then.
Decision(r, c) ==
  /\ <<"validate", r, c>> \in fly
  /\ Becomes(IF r # actor.cur_round THEN actor
             ELSE IF Valid(c, r) THEN Ask(actor, "approve", c)
             ELSE [actor EXCEPT !.pending_approve = @ \ {c}, !.pending_reject = @ \cup {c},
                                !.rejected = @ \cup {c}],
             {<<"validate", r, c>>})
  /\ UNCHANGED <<setup, dec, saved, failures, crashes>>

\* candidate_approved_signed(): whatever the round.
ApprovedSigned(r, c) ==
  /\ <<"approve", r, c>> \in fly
  /\ LET A == [actor EXCEPT !.pending_approve = @ \ {c}, !.approved = @ \cup {c}]
     IN  \/ Becomes(RequestNewBlock([A EXCEPT !.early = @ \ {c}], FALSE), {<<"approve", r, c>>})
         \/ Becomes([A EXCEPT !.early = @ \cup {c}], {<<"approve", r, c>>})
  /\ UNCHANGED <<setup, dec, saved, failures, crashes>>

\* Mutant of GeneratedBlock: request_new_block is not called.
GeneratedQuietly(r, c) ==
  /\ <<"generate", r, None>> \in fly
  /\ Valid(c, r)
  /\ Becomes(IF r # actor.cur_round THEN actor
             ELSE [actor EXCEPT !.blocks = [d \in DOMAIN @ \cup {c} |-> IF d = c THEN r ELSE @[d]],
                                !.pending_generate = FALSE, !.generated = TRUE, !.generated_block = c],
             {<<"generate", r, None>>})
  /\ UNCHANGED <<setup, dec, saved, failures, crashes>>
\* generated_block()
GeneratedBlock(r, c) ==
  /\ <<"generate", r, None>> \in fly
  /\ Valid(c, r)
  /\ Becomes(IF r # actor.cur_round THEN actor
             ELSE RequestNewBlock([actor EXCEPT !.blocks = [d \in DOMAIN @ \cup {c} |-> IF d = c THEN r ELSE @[d]],
                                                !.pending_generate = FALSE, !.generated = TRUE,
                                                !.generated_block = c], TRUE),
             {<<"generate", r, None>>})
  /\ UNCHANGED <<setup, dec, saved, failures, crashes>>

\* on_generate_slot() fails, or the candidate is too big: nothing is done.
GenerateFails(r) ==
  /\ <<"generate", r, None>> \in fly
  /\ Becomes(actor, {<<"generate", r, None>>})
  /\ UNCHANGED <<setup, dec, saved, failures, crashes>>

\* Mutant of SignedBlock: a late signature is taken.
SignedLate(r, c) ==
  /\ <<"sign", r, c>> \in fly
  /\ Becomes(RequestNewBlock([actor EXCEPT !.pending_sign = FALSE, !.signed = TRUE, !.signed_block = c], FALSE),
             {<<"sign", r, c>>})
  /\ UNCHANGED <<setup, dec, saved, failures, crashes>>
\* signed_block()
SignedBlock(r, c) ==
  /\ <<"sign", r, c>> \in fly
  /\ Becomes(IF r # actor.cur_round THEN actor
             ELSE RequestNewBlock([actor EXCEPT !.pending_sign = FALSE, !.signed = TRUE, !.signed_block = c], FALSE),
             {<<"sign", r, c>>})
  /\ UNCHANGED <<setup, dec, saved, failures, crashes>>

\* Mutant of EndRequest: the round is not checked.
EndAnyRequest(A, r, c) == [A EXCEPT !.active_requests = @ \ {c}]
\* end_request()
EndRequest(A, r, c) == IF r = A.cur_round THEN [A EXCEPT !.active_requests = @ \ {c}] ELSE A

\* The answer of get_broadcast_p2p(): end_request(), then process_broadcast()
\* in a message of its own, or an error.
Downloaded(r, c) ==
  /\ <<"get", r, c>> \in fly
  /\ actor' = EndRequest(actor, r, c)
  /\ fly' = (fly \ {<<"get", r, c>>}) \cup {<<"load", r, c>>}
  /\ UNCHANGED <<setup, dec, saved, failures, crashes>>
DownloadFails(r, c) ==
  /\ <<"get", r, c>> \in fly
  /\ failures < setup.max_failures
  /\ Becomes(EndRequest(actor, r, c), {<<"get", r, c>>})
  /\ failures' = failures + 1
  /\ UNCHANGED <<setup, dec, saved, crashes>>

\* process_broadcast() of a downloaded candidate, or of one approved before a
\* restart and read back.
Loaded(r, c) ==
  /\ <<"load", r, c>> \in fly
  /\ Becomes(ProcessBroadcast(actor, c, r, FALSE), {<<"load", r, c>>})
  /\ UNCHANGED <<setup, dec, saved, failures, crashes>>

\* process_broadcast() of an overlay broadcast; it may be repeated.
Broadcast(r, c) ==
  /\ c \notin Own
  /\ Becomes(ProcessBroadcast(actor, c, r, TRUE), {})
  /\ UNCHANGED <<setup, dec, saved, failures, crashes>>

\* The last own block is on disk (and then sent to the others).  This makes a
\* difference only to a later restart and to the own candidates.
BlockStored ==
  /\ crashes < setup.max_crashes \/ actor.real.sub \cap Own # {}
  /\ saved # actor.real
  /\ saved' = actor.real
  /\ UNCHANGED <<setup, dec, actor, fly, failures, crashes>>

\* The process dies and starts again from the own blocks on disk.
Restart ==
  /\ crashes < setup.max_crashes
  /\ \E vote \in Vote : LET A == Started(saved, vote) IN actor' = [A EXCEPT !.asks = {}] /\ fly' = A.asks
  /\ crashes' = crashes + 1
  /\ UNCHANGED <<setup, dec, saved, failures>>

Next ==
  \/ PreprocessBlock \/ ProcessBlocks \/ ProcessBlamed \/ FinishedProcessing
  \/ ChainAlarm \/ Alarm \/ BlockStored \/ Restart
  \/ \E d \in Delays : Elapse(d)
  \/ \E c \in Cand : ClockPasses(c)
  \/ \E r \in Round : GenerateFails(r) \/ \E c \in Own : GeneratedBlock(r, c)
  \/ \E r \in Round, c \in Cand : \/ Decision(r, c) \/ ApprovedSigned(r, c) \/ SignedBlock(r, c)
                                  \/ Downloaded(r, c) \/ DownloadFails(r, c) \/ Loaded(r, c) \/ Broadcast(r, c)

Spec == Init /\ [][Next]_vars

\* Weak fairness of the steps below, each written as what it comes to: a step
\* that stays possible happens, and all but process_blocks() are impossible
\* once they have happened.  Every service answers, timers run out, the alarm
\* is served and Catchain takes its turns.
Quiet == LET A == CheckAll(actor, FALSE) IN A = actor
Fairness ==
  /\ []<>(actor.chain # "active") \/ []<><<ProcessBlocks>>_vars
  /\ []<>(actor.chain # "finished") /\ []<>(actor.chain # "idle")
  /\ []<>Quiet
  /\ \A d \in Delays : []<>(d \in actor.due \/ d \notin setup.delays \/ "slot" \notin actor.due \cup {d})
  /\ \A c \in Candidates : []<>(c \notin actor.early)
  /\ \A q \in {"validate", "approve", "sign", "get", "load"} \X Round \X Candidates : []<>(q \notin fly)
FairSpec == Spec /\ Fairness

-----------------------------------------------------------------------------
(* Properties *)

States == [round : Round, sub : SUBSET Cand, prec : BOOLEAN,
           mine : SUBSET ({"submit", "approve", "reject", "commit"} \X (Cand \cup {Skip}))]

Questions == {"generate", "validate", "approve", "sign", "get", "load"} \X Round \X (Cand \cup {None})
Fields ==
  {"cur_round", "real", "virt", "due", "chain", "abort", "requested", "requested_now", "force", "asked",
   "pending_generate", "generated", "sent_generated", "generated_block",
   "pending_approve", "approved", "early", "rejected", "pending_reject", "active_requests", "blocks", "first",
   "pending_sign", "signed", "signed_block", "asks"}

\* An actor has these fields: its round, its requests for a block, the own
\* candidate, the verdicts, the signature, the questions of this step.
RoundTyped(A) ==
  /\ A.cur_round \in Round /\ A.real \in States /\ A.virt \in States
  /\ A.due \subseteq Delays /\ A.chain \in {"active", "finished", "idle"} /\ A.abort \in BOOLEAN
RequestTyped(A) ==
  /\ A.requested \in BOOLEAN /\ A.requested_now \in BOOLEAN
  /\ A.force \in BOOLEAN /\ A.asked \in BOOLEAN
CandidateTyped(A) ==
  /\ A.pending_generate \in BOOLEAN /\ A.generated \in BOOLEAN /\ A.sent_generated \in BOOLEAN
  /\ A.generated_block \in Cand \cup {None}
VerdictsTyped(A) ==
  /\ A.pending_approve \subseteq Cand /\ A.approved \subseteq Cand \cup {Skip} /\ A.early \subseteq Cand
  /\ A.rejected \subseteq Cand /\ A.pending_reject \subseteq Cand /\ A.active_requests \subseteq Cand
  /\ A.blocks \in [DOMAIN A.blocks -> Round] /\ DOMAIN A.blocks \subseteq Cand
  /\ A.first \subseteq Cand \X Round
SignatureTyped(A) ==
  /\ A.pending_sign \in BOOLEAN /\ A.signed \in BOOLEAN /\ A.signed_block \in Cand \cup {Skip}
ActorTyped(A) ==
  /\ DOMAIN A = Fields
  /\ RoundTyped(A) /\ RequestTyped(A) /\ CandidateTyped(A) /\ VerdictsTyped(A) /\ SignatureTyped(A)
  /\ A.asks \subseteq Questions

TypeOK ==
  /\ setup \in Setups /\ dec \in [Round -> Cand \cup {Skip}]
  /\ ActorTyped(actor) /\ actor.asks = {} /\ fly \subseteq Questions
  /\ saved \in States /\ failures \in Nat /\ crashes \in Nat

\* No CHECK fails, in whatever order the answers come: in process_blocks() the
\* own candidate is at hand and the block to sign is the block signed, a
\* candidate that arrives has no verdict yet (process_received_block()), and
\* rounds only go up (on_new_round()).
ChecksHold == ~ actor.abort

\* At most one candidate is submitted in a round: one that waits to be sent is
\* the first, restarts included (check_generate_slot(), process_blocks()).
OneSubmission == actor.generated /\ ~ actor.sent_generated => Says(actor.real, "submit") = {}

\* The flags of an actor A and its questions F of this round agree: a signature
\* or a download is marked as pending exactly while it is on its way, so it is
\* neither asked for twice nor waited for in vain (on_new_round(),
\* end_request(), signed_block()), and a candidate pending approval is being
\* looked at.
PendingMatches(A, F) ==
  /\ A.pending_sign <=> \E c \in Cand : <<"sign", A.cur_round, c>> \in F
  /\ \A c \in Cand : c \in A.active_requests <=> <<"get", A.cur_round, c>> \in F
  /\ \A c \in A.pending_approve :
       {<<"validate", A.cur_round, c>>, <<"approve", A.cur_round, c>>} \cap F # {}

\* No question is about a later round; a signature is asked for what is
\* decided; while a collation of this round is on its way, nothing has been
\* made or submitted in it.
QuestionsMatch(A, F) ==
  /\ \A q \in F : q[2] <= A.cur_round /\ (q[1] = "sign" => q[3] = dec[q[2]])
  /\ <<"generate", A.cur_round, None>> \in F
       => A.pending_generate /\ ~ A.generated /\ Says(A.real, "submit") = {}

\* What is made or signed and still to be sent is what should be: the own
\* candidate is at hand and the first of its round, the signature is for the
\* decision, and a request made at once is a request.
WaitingMatches(A) ==
  /\ A.generated /\ ~ A.sent_generated
       => Says(A.real, "submit") = {} /\ A.generated_block \in DOMAIN A.blocks
  /\ A.signed => Says(A.real, "commit") # {} \/ A.signed_block = dec[A.cur_round]
  /\ A.requested_now => A.requested

\* Between two handlers the actor's record of its round and of its questions
\* is right: it is in the round of real_state_, virtual_state_ is not behind
\* (process_blocks(), preprocess_block(), on_new_round()), and the parts above.
RecordIsRight ==
  /\ TypeOK
  /\ actor.cur_round = actor.real.round /\ ~ Behind(actor.virt, actor.real)
  /\ PendingMatches(actor, fly) /\ QuestionsMatch(actor, fly) /\ WaitingMatches(actor)

\* What this validator wants to say is heard: with a request made, a candidate
\* to submit or a signature to send, Catchain is at work or asked for a block
\* (request_new_block(), need_new_block(), processed_block()).
Heard(A) ==
  \/ A.requested
  \/ A.generated /\ ~ A.sent_generated
  \/ A.signed /\ ToSign(A.real)
  => A.chain = "active" \/ A.asked
RequestIsHeard == Heard(actor)

\* A candidate with a verdict is at hand, and so is one being checked for a
\* round that is not too long ago.
VerdictsMatch(A, F) ==
  /\ A.pending_approve \cup (A.approved \ {Skip}) \cup A.pending_reject \cup A.rejected \subseteq DOMAIN A.blocks
  /\ \A q \in F : q[1] \in {"validate", "approve"} /\ A.cur_round <= q[2] + MaxPast
                 => q[3] \in DOMAIN A.blocks /\ q[2] <= A.blocks[q[3]]
\* The signature of an approval comes within MAX_PAST_ROUND_BLOCK rounds.
Timely == \A q \in fly : q[1] = "approve" => actor.cur_round <= q[2] + MaxPast

\* Once its state shows what to sign, this validator sends its signature or
\* the round ends without it, unless a restart takes it back to a state that
\* does not (check_sign_slot(), signed_block(), process_blocks()); a failed
\* collation does not prevent it.
SignedEventually ==
  \A r \in Round : (actor.cur_round = r /\ actor.real.prec)
                     ~> (actor.cur_round # r \/ ~ actor.real.prec \/ Says(actor.real, "commit") # {})

\* A candidate submitted gets a verdict or the round ends, unless its maker
\* made another one or its submission is lost in a restart
\* (try_approve_block(), candidate_decision_ok() and _fail()).
VerdictEventually ==
  \A r \in Round, c \in Candidates :
    (actor.cur_round = r /\ c \in ToApprove(actor.real))
      ~> \/ actor.cur_round # r \/ ~ Unique(actor, c, r) \/ \E d \in actor.virt.sub \ {c} : Maker[d] = Maker[c]
         \/ c \notin actor.virt.sub
         \/ c \in Says(actor.real, "approve") \cup Says(actor.real, "reject")
=============================================================================

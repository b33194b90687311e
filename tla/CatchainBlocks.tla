--------------------------- MODULE CatchainBlocks ---------------------------
(***************************************************************************)
(* The part of a Catchain receiver that decides what happens to a block:   *)
(* CatChainReceivedBlockImpl and CatChainReceiverSourceImpl.  A receiver   *)
(* is a record R; every operator below is what one method of those classes *)
(* does to it.  The operators are used by Catchain (several receivers) and *)
(* by CatchainRestart (one receiver and its database).                     *)
(*                                                                         *)
(* A block is <<source, height, variant>>, which stands for its hash: an   *)
(* honest source has one variant per height, a forking one has two.  What  *)
(* a block contains is in blk: its previous block, its dependencies (a     *)
(* set: at most one per source) and the source its payload accuses of a    *)
(* fork, if any.  Signatures are valid: only blocks of blk exist.          *)
(***************************************************************************)
EXTENDS Naturals, Sequences, FiniteSets, FiniteSetsExt, Functions

CONSTANTS Source,        \* the members of the group
          MaxHeight      \* get_max_block_height

VARIABLE blk             \* contents of the blocks created so far

NoSource == "none"
Root == <<"root", 0, 0>>

Src(b) == b[1]
Height(b) == b[2]
Prev(b) == blk[b].prev
Refs(b) == blk[b].deps \cup {Prev(b)}

\* Two signed blocks of one source at one height: what a fork proof holds.
HasFork(s) == \E b, c \in DOMAIN blk : b # c /\ Src(b) = s /\ Src(c) = s /\ Height(b) = Height(c)

\* A vector time: the height reached in every fork seen; 0 in the others.
NoVt == <<>>
With(g, x, y) == [z \in DOMAIN g \cup {x} |-> IF z = x THEN y ELSE g[z]]
At(v, f) == IF f \in DOMAIN v THEN v[f] ELSE 0

\* The members of the set S in some order (SetToSeq, without what SequencesExt
\* brings into the proofs).
Listed(S) == CHOOSE q \in [1 .. Cardinality(S) -> S] : IsInjective(q)

\* The members of the sequence q that are in S, in order.
Only(q, S) ==
  LET only[i \in 0 .. Len(q)] ==
        IF i = 0 THEN <<>> ELSE IF q[i] \in S THEN Append(only[i - 1], q[i]) ELSE only[i - 1]
  IN  only[Len(q)]

\* A receiver as its constructor leaves it: the root block is delivered.
NewReceiver ==
  [ objs    |-> {Root},                      \* blocks_: every block object
    wait    |-> <<>>,                        \* bs_initialized, in that order
    del     |-> {Root},                      \* bs_delivered
    ill     |-> {},                          \* bs_ill
    revd    |-> {},                          \* blocks with rev_deps_
    torun   |-> <<>>,                        \* to_run_
    next    |-> {},                          \* blocks whose next_ is set
    fork    |-> [b \in {Root} |-> 0],        \* fork_id_
    vt      |-> [b \in {Root} |-> NoVt],     \* vt_
    nforks  |-> 0,                           \* total_forks_
    forks   |-> [s \in Source |-> {}],       \* fork_ids_
    slot    |-> [s \in Source |-> <<>>],     \* blocks_ of a source
    blamed  |-> {},                          \* blamed_
    bheight |-> [s \in Source |-> NoVt],     \* blamed_heights_
    proof   |-> {},                          \* sources with fork_proof_
    found   |-> <<>>,                        \* calls of on_found_fork_proof
    out     |-> <<>> ]                       \* callbacks to CatChainImpl

Initialized(R, b) == b \in R.del \/ b \in Range(R.wait)
\* pending_deps_: references not delivered yet.
Pending(R, b) == Refs(b) \ R.del

-----------------------------------------------------------------------------
(* CatChainReceiverSourceImpl *)

\* blame() of some sources: for those for which it is the first time, forget
\* the blocks by height and tell CatChain.
BlameAll(R, S) ==
  LET New == S \ R.blamed
  IN  [R EXCEPT !.blamed = @ \cup New,
                !.slot = [s \in Source |-> IF s \in New THEN <<>> ELSE @[s]],
                !.out = @ \o Listed({"blame"} \X New)]
Blame(R, s) == BlameAll(R, {s})

\* blame(fork, height): also keep the lowest accusing height of the fork.
BlameAt(R, s, f, h) ==
  [Blame(R, s) EXCEPT !.bheight[s] = IF At(@, f) = 0 \/ At(@, f) > h THEN With(@, f, h) ELSE @]

\* add_fork(): a second fork id of a source blames it.
AddFork(R, s) ==
  LET B == IF R.forks[s] = {} THEN R ELSE Blame(R, s)
  IN  [B EXCEPT !.nforks = @ + 1, !.forks[s] = @ \cup {R.nforks + 1}]

\* on_new_block(): a second object at a height is a fork.
OnNewBlock(R, b) ==
  LET s == Src(b)
      h == Height(b)
  IN  IF s \in R.proof THEN R
      ELSE IF h \in DOMAIN R.slot[s]
           THEN Blame([R EXCEPT !.proof = @ \cup {s}, !.found = Append(@, s)], s)
           ELSE [R EXCEPT !.slot[s] = With(@, h, b)]

\* The constructors of a block object, complete or known by reference only.
CreateObject(R, b) ==
  IF b \in R.objs THEN R ELSE OnNewBlock([R EXCEPT !.objs = @ \cup {b}], b)
CreateObjects(R, S) ==
  LET q == Listed(S)
      made[i \in 0 .. Len(q)] == IF i = 0 THEN R ELSE CreateObject(made[i - 1], q[i])
  IN  made[Len(q)]

-----------------------------------------------------------------------------
(* CatChainReceivedBlockImpl *)

\* set_ill() and, through rev_deps_, dep_ill(): the block and every waiting
\* block above it become ill, and their sources are blamed.
Above(R, S) == {w \in Range(R.wait) : Refs(w) \cap S # {}}
IllCone(R, b) ==
  LET All == {b} \cup Range(R.wait)
      Closed == {S \in SUBSET All : b \in S /\ Above(R, S) \subseteq S}
  IN  {c \in All : \A S \in Closed : c \in S}
SetIll(R, b) ==
  LET C == IllCone(R, b)
  IN  [BlameAll(R, {Src(c) : c \in C}) EXCEPT !.ill = @ \cup C,
                                             !.wait = Only(@, Range(@) \ C)]

\* initialize(): make the objects it refers to, then wait for them.
Initialize(R, b) ==
  LET C == CreateObjects(R, Refs(b))
  IN  IF b \in C.ill THEN C
      ELSE IF Refs(b) \cap C.ill # {} THEN SetIll(C, b)
      ELSE [C EXCEPT !.wait = Append(@, b), !.revd = @ \cup Pending(C, b)]

\* create_block() of CatChainReceiverImpl for a complete block.
CreateBlock(R, b) ==
  LET C == CreateObject(R, b)
  IN  IF Initialized(C, b) THEN C ELSE Initialize(C, b)

\* written(): in_db_ is set; schedule() when nothing is pending.
Written(R, b) ==
  IF b \in Range(R.wait) /\ Pending(R, b) = {} THEN [R EXCEPT !.torun = Append(@, b)] ELSE R

\* initialize_fork(): continue the fork of the previous block if this is its
\* first successor, otherwise open a new one; then the vector time.
\* Mutants of OpensFork: next_ is never used, and next_ is never checked.
OpensEveryTime(R, b) == TRUE
OpensAtRoot(R, b) == Height(b) = 1
OpensFork(R, b) == Height(b) = 1 \/ Prev(b) \in R.next
MergedVt(R, b) ==
  [g \in UNION {DOMAIN R.vt[d] : d \in Refs(b)} |-> Max({At(R.vt[d], g) : d \in Refs(b)})]
InitializeFork(R, b) ==
  LET A == IF OpensFork(R, b) THEN AddFork(R, Src(b)) ELSE [R EXCEPT !.next = @ \cup {Prev(b)}]
      f == IF OpensFork(R, b) THEN A.nforks ELSE R.fork[Prev(b)]
  IN  [A EXCEPT !.fork = With(@, b, f), !.vt = With(@, b, With(MergedVt(R, b), f, Height(b)))]

\* What the previous block has already seen of the dependency x.
NewerSeen(R, b, x) == Height(x) <= At(R.vt[Prev(b)], R.fork[x])
OtherForkSeen(R, b, x) ==
  /\ Src(x) \in R.blamed
  /\ \E f \in R.forks[Src(x)] \ {R.fork[x]} : At(R.vt[Prev(b)], f) > 0
AccusationSeen(R, b, x) ==
  /\ Src(x) \in R.blamed
  /\ \E f \in DOMAIN R.bheight[Src(x)] : At(R.vt[Prev(b)], f) >= R.bheight[Src(x)][f]

\* pre_deliver(): check the dependencies in order (here: the first that is
\* wrong, in a fixed order), then the fork proof of the payload, if any.
WrongDeps(R, b) ==
  {x \in blk[b].deps : NewerSeen(R, b, x) \/ OtherForkSeen(R, b, x) \/ AccusationSeen(R, b, x)}
PreDeliver(R, b) ==
  IF WrongDeps(R, b) # {}
  THEN IF NewerSeen(R, b, CHOOSE x \in WrongDeps(R, b) : TRUE) THEN SetIll(R, b)
       ELSE SetIll(BlameAt(R, Src(b), R.fork[b], Height(b)), b)
  ELSE IF blk[b].acc = NoSource THEN R
  ELSE IF ~ HasFork(blk[b].acc) THEN SetIll(R, b)
  ELSE BlameAt([R EXCEPT !.proof = @ \cup {blk[b].acc}], blk[b].acc, R.fork[b], Height(b))

\* Mutant of Deliver: dep_delivered is not called.
DeliverQuietly(R, b) ==
  IF b \in R.ill THEN R
  ELSE [R EXCEPT !.del = @ \cup {b}, !.revd = @ \ {b}, !.out = Append(@, <<"new", b>>),
                 !.wait = Only(@, Range(@) \ {b})]
\* deliver(): hand the block to CatChain, then schedule what waited for it.
Deliver(R, b) ==
  IF b \in R.ill THEN R
  ELSE LET D == [R EXCEPT !.del = @ \cup {b}, !.revd = @ \ {b}, !.out = Append(@, <<"new", b>>),
                          !.wait = Only(@, Range(@) \ {b})]
           Ready == {w \in Range(D.wait) : b \in Refs(w) /\ Pending(D, w) = {}}
       IN  [D EXCEPT !.torun = @ \o Only(D.wait, Ready)]

\* run()
RunBlock(R, b) ==
  IF b \in R.ill \cup R.del THEN R ELSE Deliver(PreDeliver(InitializeFork(R, b), b), b)

\* run_scheduler(): until to_run_ is empty; a block runs at most once.
RunFirst(R) ==
  IF R.torun = <<>> THEN R ELSE RunBlock([R EXCEPT !.torun = Tail(@)], Head(R.torun))
RunScheduler(R) ==
  LET n == Len(R.torun) + Len(R.wait)
      run[i \in 0 .. n] == IF i = 0 THEN R ELSE RunFirst(run[i - 1])
  IN  run[n]

\* The heights kept per source: the contiguous prefix delivered or received.
DeliveredHeight(R, s) ==
  IF s \in R.blamed THEN 0
  ELSE Max({h \in 0 .. MaxHeight : \A g \in 1 .. h : g \in DOMAIN R.slot[s] /\ R.slot[s][g] \in R.del})
ReceivedHeight(R, s) ==
  IF s \in R.blamed THEN 0
  ELSE Max({h \in 0 .. MaxHeight : \A g \in 1 .. h :
              g \in DOMAIN R.slot[s] /\ Initialized(R, R.slot[s][g])})
=============================================================================

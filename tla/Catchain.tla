------------------------------ MODULE Catchain ------------------------------
(***************************************************************************)
(* A Catchain group: every local member runs a CatChainReceiverImpl and a  *)
(* CatChainImpl, two actors that talk through FIFO mailboxes, and the      *)
(* members exchange blocks over a network that may lose, duplicate and     *)
(* reorder them (a published block may reach anybody at any time, or       *)
(* never).  Members of setup.remote publish any well-formed block they     *)
(* like.  Queries, broadcasts and the database are in other modules.       *)
(***************************************************************************)
EXTENDS CatchainBlocks

CONSTANT Setups          \* bound: the groups to look at, see setup

\* The members of a group run this code or do not; blocks have a height.  The
\* name for no source is not that of a source.
ASSUME GroupAssumption ==
  /\ MaxHeight \in Nat /\ NoSource \notin Source
  /\ \A g \in Setups :
       /\ g.local \subseteq Source /\ g.remote \subseteq Source /\ g.local \cap g.remote = {}
       /\ \A n \in g.local : g.asks[n] \in Nat
       /\ \A s \in g.remote : /\ \A hv \in g.blocks[s] : hv \in (Nat \ {0}) \X Nat
                              /\ g.deps[s] \in Nat /\ g.accuse[s] \subseteq Source

VARIABLES
  setup,     \* which of Setups this is; never changes.  Its fields:
             \*   local       the members that run this code
             \*   remote      those seen only through the blocks they publish
             \*   blocks[s]   the <<height, variant>> of the blocks remote s may
             \*               sign; with two variants of a height, s forks
             \*   deps[s]     how many dependencies a block of s may have
             \*   accuse[s]   the sources s may accuse of a fork
             \*   max_deps    opts_.max_deps
             \*   asks[n]     how many blocks n's session makes; if none, n only
             \*               listens: its CatChainImpl is left out
  rcv,       \* rcv[n]: the blocks and sources of n's receiver
  sending,   \* active_send_: the block being signed and stored, or Root
  queue,     \* pending_blocks_: blocks to make once sending is over
  last,      \* last_sent_block_
  bproc,     \* blame_processed_
  pproof,    \* the sources of pending_fork_proofs_
  toChain,   \* mailbox of n's CatChainImpl
  toRcv,     \* mailbox of n's receiver, from CatChainImpl
  ch         \* ch[n]: the state of n's CatChainImpl

vars == <<setup, blk, rcv, sending, queue, last, bproc, pproof, toChain, toRcv, ch>>

Local == setup.local
Asks(n) == setup.asks[n]

NewChain ==
  [ blocks    |-> {Root},                        \* blocks_
    top       |-> {},                            \* top_blocks_
    topsrc    |-> [s \in Source |-> Root],       \* top_source_blocks_ (Root: null)
    processed |-> {Root},                        \* is_processed_
    pre       |-> {Root},                        \* preprocess_sent_
    deps      |-> {},                            \* process_deps_
    active    |-> FALSE,                         \* active_process_
    force     |-> FALSE,                         \* force_process_
    alarm     |-> FALSE,                         \* alarm_timestamp() is set
    started   |-> FALSE,                         \* receiver_started_
    blamed    |-> {} ]                           \* blamed_sources_

Init ==
  /\ setup \in Setups
  /\ blk = [b \in {Root} |-> [prev |-> Root, deps |-> {}, acc |-> NoSource, cone |-> {Root}]]
  /\ rcv = [n \in Local |-> NewReceiver]
  /\ sending = [n \in Local |-> Root]
  /\ queue = [n \in Local |-> <<>>]
  /\ last = [n \in Local |-> Root]
  /\ bproc = [n \in Local |-> {}]
  /\ pproof = [n \in Local |-> {}]
  /\ toChain = [n \in Local |-> <<>>]
  /\ toRcv = [n \in Local |-> <<>>]
  /\ ch = [n \in Local |-> NewChain]

Published == {b \in DOMAIN blk \ {Root} : Src(b) \in Local => b \in rcv[Src(b)].del}

Own(n) == {b \in DOMAIN blk : Src(b) = n}

\* The blocks below those of S, S included.
Cone(S) == UNION {blk[b].cone : b \in S}

\* The contents of the blocks once b is signed.
Signed(b, prev, deps, acc) ==
  With(blk, b, [prev |-> prev, deps |-> deps, acc |-> acc, cone |-> {b} \cup Cone(deps \cup {prev})])

-----------------------------------------------------------------------------
(* CatChainReceiverImpl *)

\* add_block(): what it does with a request <<deps, acc>> when nothing is
\* being sent.
StartBlock(n, prev, req) ==
  IF Height(prev) + 1 > MaxHeight
  THEN UNCHANGED <<blk, sending>>
  ELSE LET b == <<n, Height(prev) + 1, 1>>
       IN  /\ blk' = Signed(b, prev, req[1], req[2])
           /\ sending' = [sending EXCEPT ![n] = b]

AddBlock(n, req) ==
  IF sending[n] # Root
  THEN /\ queue' = [queue EXCEPT ![n] = Append(@, req)]
       /\ UNCHANGED <<blk, sending>>
  ELSE StartBlock(n, last[n], req) /\ UNCHANGED queue

\* The callbacks of a handler that leaves the receiver in state R go to the
\* mailbox of CatChainImpl.
Flush(n, R) ==
  /\ rcv' = [rcv EXCEPT ![n] = [R EXCEPT !.out = <<>>, !.found = <<>>]]
  /\ toChain' = [toChain EXCEPT ![n] = IF Asks(n) = 0 THEN @ ELSE @ \o R.out]

\* on_found_fork_proof(): publish the proof once CatChain has dropped the
\* source, see on_blame_processed.
FoundForkProofs(n, found) ==
  /\ pproof' = [pproof EXCEPT ![n] = @ \cup (Range(found) \ bproc[n])]
  /\ IF Range(found) \cap bproc[n] = {}
     THEN UNCHANGED <<blk, sending, queue>>
     ELSE AddBlock(n, <<{}, CHOOSE s \in Range(found) \cap bproc[n] : TRUE>>)

\* alarm(): the initial synchronisation is over.
Start(n) ==
  /\ Asks(n) > 0 /\ ~ ch[n].started /\ <<"start">> \notin Range(toChain[n])
  /\ toChain' = [toChain EXCEPT ![n] = Append(@, <<"start">>)]
  /\ UNCHANGED <<setup, blk, rcv, sending, queue, last, bproc, pproof, toRcv, ch>>

\* receive_block(): from a neighbour, an answer to a query, or a rebroadcast.
ReceiveBlock(n, b) ==
  /\ b \in Published
  /\ ~ Initialized(rcv[n], b)
  /\ Src(b) \in rcv[n].proof => b \in rcv[n].objs /\ b \in rcv[n].revd
  /\ LET R == RunScheduler(Written(CreateBlock(rcv[n], b), b))
     IN  Flush(n, R) /\ FoundForkProofs(n, R.found)
  /\ UNCHANGED <<setup, last, bproc, toRcv, ch>>

\* got_fork_proof(): a peer that has a proof answers a synchronisation query.
GotForkProof(n, s) ==
  /\ \E m \in Local \ {n} : s \in rcv[m].proof
  /\ s \notin rcv[n].proof
  /\ Flush(n, Blame([rcv[n] EXCEPT !.proof = @ \cup {s}], s))
  /\ UNCHANGED <<setup, blk, sending, queue, last, bproc, pproof, toRcv, ch>>

\* add_block(), called by CatChainImpl.
HandleAdd(n) ==
  /\ toRcv[n] # <<>> /\ Head(toRcv[n])[1] = "add"
  /\ toRcv' = [toRcv EXCEPT ![n] = Tail(@)]
  /\ AddBlock(n, <<Head(toRcv[n])[2], NoSource>>)
  /\ UNCHANGED <<setup, rcv, last, bproc, pproof, toChain, ch>>

\* on_blame_processed()
HandleBlameProcessed(n) ==
  /\ toRcv[n] # <<>> /\ Head(toRcv[n])[1] = "blamed"
  /\ toRcv' = [toRcv EXCEPT ![n] = Tail(@)]
  /\ LET s == Head(toRcv[n])[2]
     IN  /\ bproc' = [bproc EXCEPT ![n] = @ \cup {s}]
         /\ pproof' = [pproof EXCEPT ![n] = @ \ {s}]
         /\ IF s \in pproof[n] THEN AddBlock(n, <<{}, s>>) ELSE UNCHANGED <<blk, sending, queue>>
  /\ UNCHANGED <<setup, rcv, last, toChain, ch>>

\* add_block_cont() .. add_block_cont_3(): the block is signed and stored;
\* deliver it and take the next request.
BlockStored(n) ==
  /\ sending[n] # Root
  /\ LET b == sending[n]
         R == RunScheduler(Written(CreateBlock(rcv[n], b), b))
     IN  /\ Flush(n, R)
         /\ last' = [last EXCEPT ![n] = b]
         /\ queue' = [queue EXCEPT ![n] = IF @ = <<>> THEN @ ELSE Tail(@)]
         /\ IF queue[n] = <<>> \/ Height(b) = MaxHeight
            THEN sending' = [sending EXCEPT ![n] = Root] /\ UNCHANGED blk
            ELSE StartBlock(n, b, Head(queue[n]))
  /\ UNCHANGED <<setup, bproc, pproof, toRcv, ch>>

-----------------------------------------------------------------------------
(* CatChainImpl *)

\* send_process(): take up to setup.max_deps top blocks and ask the session.
SendProcess(c, V) ==
  [c EXCEPT !.top = @ \ V, !.deps = V, !.processed = @ \cup Cone(V), !.active = TRUE]
Choice(c) == kSubset(Min({setup.max_deps, Cardinality(c.top)}), c.top)

\* on_receiver_started()
ChainStart(n) ==
  /\ toChain[n] # <<>> /\ Head(toChain[n])[1] = "start"
  /\ toChain' = [toChain EXCEPT ![n] = Tail(@)]
  /\ \E V \in Choice(ch[n]) : ch' = [ch EXCEPT ![n] = SendProcess([@ EXCEPT !.started = TRUE], V)]
  /\ UNCHANGED <<setup, blk, rcv, sending, queue, last, bproc, pproof, toRcv>>

\* Mutant of TopAfterNew: a block that arrives while one is being made is
\* skipped.
TopWhileIdle(n, c, b) ==
  (c.top \ Refs(b)) \cup (IF c.active THEN {} ELSE {b} \ Own(n))
\* on_new_block(): the block replaces its references among the top blocks
\* (only its previous block if its source is blamed).
TopAfterNew(n, c, b) ==
  IF Src(b) \in c.blamed THEN c.top \ {Prev(b)} ELSE (c.top \ Refs(b)) \cup ({b} \ Own(n))

\* Mutant of Record: blocks of blamed sources are not kept.
RecordUnblamed(n, c, b) == IF Src(b) \in c.blamed THEN c.blocks ELSE c.blocks \cup {b}
\* Every block is kept, whoever made it: later blocks may refer to it.
Record(n, c, b) == c.blocks \cup {b}

ChainNewBlock(n) ==
  /\ toChain[n] # <<>> /\ Head(toChain[n])[1] = "new"
  /\ toChain' = [toChain EXCEPT ![n] = Tail(@)]
  /\ LET b == Head(toChain[n])[2]
         c == ch[n]
         ok == Src(b) \notin c.blamed
         top == TopAfterNew(n, c, b)
     IN  ch' = [ch EXCEPT ![n] =
           [c EXCEPT !.blocks = Record(n, c, b),
                     !.top = top,
                     !.topsrc = IF ok THEN [@ EXCEPT ![Src(b)] = b] ELSE @,
                     !.pre = IF ok THEN @ \cup Cone({b}) ELSE @,
                     !.alarm = @ \/ (~ c.active /\ c.started /\ (c.top = {} \/ (ok /\ top = {})))]]
  /\ UNCHANGED <<setup, blk, rcv, sending, queue, last, bproc, pproof, toRcv>>

\* on_blame(): forget the source, recompute the top blocks from the newest
\* block of every other source, and drop it from the block being made.
Descends(n, c, b) == At(rcv[n].vt[c], rcv[n].fork[b]) >= Height(b)
Newest(n, s, blamed) == IF s \in blamed THEN Root ELSE ch[n].topsrc[s]
TopAfterBlame(n, blamed) ==
  {b \in {Newest(n, s, blamed) : s \in Source \ {n}} \ {Root} :
     /\ b \notin ch[n].processed
     /\ \A t \in Source \ {Src(b)} : Newest(n, t, blamed) # Root => ~ Descends(n, Newest(n, t, blamed), b)}

\* Mutant of DepsAfterBlame: process_deps_ is left alone.
DepsKept(n, s) == ch[n].deps
DepsAfterBlame(n, s) == {d \in ch[n].deps : Src(d) # s}

ChainBlame(n) ==
  /\ toChain[n] # <<>> /\ Head(toChain[n])[1] = "blame"
  /\ toChain' = [toChain EXCEPT ![n] = Tail(@)]
  /\ LET s == Head(toChain[n])[2]
         blamed == ch[n].blamed \cup {s}
     IN  /\ ch' = [ch EXCEPT ![n].blamed = blamed,
                             ![n].topsrc[s] = Root,
                             ![n].top = TopAfterBlame(n, blamed),
                             ![n].deps = DepsAfterBlame(n, s)]
         /\ toRcv' = [toRcv EXCEPT ![n] = Append(@, <<"blamed", s>>)]
  /\ UNCHANGED <<setup, blk, rcv, sending, queue, last, bproc, pproof>>

\* processed_block(): the session has answered process_blocks.
Asked(n) ==
  Height(last[n]) + Len(queue[n]) + Len(toRcv[n]) + (IF sending[n] = Root THEN 0 ELSE 1)
ChainProcessed(n) ==
  /\ ch[n].active
  /\ Asked(n) < Asks(n)
  /\ toRcv' = [toRcv EXCEPT ![n] = Append(@, <<"add", ch[n].deps>>)]
  /\ \/ /\ ch[n].top # {} \/ ch[n].force
        /\ \E V \in Choice(ch[n]) : ch' = [ch EXCEPT ![n] = SendProcess([@ EXCEPT !.force = FALSE], V)]
     \/ /\ ~ (ch[n].top # {} \/ ch[n].force)
        /\ ch' = [ch EXCEPT ![n].active = FALSE, ![n].alarm = TRUE, ![n].deps = {}]
  /\ UNCHANGED <<setup, blk, rcv, sending, queue, last, bproc, pproof, toChain>>

\* need_new_block()
NeedNewBlock(n) ==
  /\ ch[n].started /\ Asked(n) < Asks(n)
  /\ ch' = [ch EXCEPT ![n].force = @ \/ ch[n].active, ![n].alarm = @ \/ ~ ch[n].active]
  /\ UNCHANGED <<setup, blk, rcv, sending, queue, last, bproc, pproof, toChain, toRcv>>

\* alarm()
ChainAlarm(n) ==
  /\ ch[n].alarm /\ Asked(n) < Asks(n)
  /\ IF ch[n].active
     THEN ch' = [ch EXCEPT ![n].alarm = FALSE]
     ELSE \E V \in Choice(ch[n]) : ch' = [ch EXCEPT ![n] = SendProcess([@ EXCEPT !.alarm = FALSE], V)]
  /\ UNCHANGED <<setup, blk, rcv, sending, queue, last, bproc, pproof, toChain, toRcv>>

-----------------------------------------------------------------------------
\* A remote member signs any block that pre_validate_block accepts.
RemoteBlock(s) ==
  \E hv \in setup.blocks[s], p \in DOMAIN blk, a \in {NoSource} \cup setup.accuse[s],
     D \in UNION {kSubset(k, Published) : k \in 0 .. setup.deps[s]} :
    LET b == <<s, hv[1], hv[2]>>
    IN  /\ b \notin DOMAIN blk
        /\ hv[2] > 1 => <<s, hv[1], hv[2] - 1>> \in DOMAIN blk
        /\ Height(p) + 1 = hv[1] /\ (Src(p) = s \/ p = Root)
        /\ \A d \in D : Src(d) # s /\ \A e \in D \ {d} : Src(e) # Src(d)
        /\ blk' = Signed(b, p, D, a)
  /\ UNCHANGED <<setup, rcv, sending, queue, last, bproc, pproof, toChain, toRcv, ch>>

Next ==
  \/ \E n \in Local, b \in DOMAIN blk : ReceiveBlock(n, b)
  \/ \E n \in Local, s \in Source : GotForkProof(n, s)
  \/ \E n \in Local :
       \/ Start(n) \/ HandleAdd(n) \/ HandleBlameProcessed(n) \/ BlockStored(n)
       \/ ChainStart(n) \/ ChainNewBlock(n) \/ ChainBlame(n)
       \/ ChainProcessed(n) \/ NeedNewBlock(n) \/ ChainAlarm(n)
  \/ \E s \in setup.remote : RemoteBlock(s)

Spec == Init /\ [][Next]_vars

-----------------------------------------------------------------------------
(* Properties *)

\* The blocks a member holds exist, and its sets are sets of blocks and sources.
TypeOK ==
  /\ \A n \in Local :
       /\ rcv[n].del \cup rcv[n].ill \cup Range(rcv[n].wait) \subseteq rcv[n].objs
       /\ rcv[n].objs \subseteq DOMAIN blk
       /\ sending[n] \in DOMAIN blk /\ last[n] \in DOMAIN blk
       /\ bproc[n] \subseteq Source /\ pproof[n] \subseteq Source
       /\ ch[n].blocks \cup ch[n].top \cup ch[n].processed \cup ch[n].deps \subseteq DOMAIN blk
       /\ ch[n].topsrc \in [Source -> DOMAIN blk]
       /\ ch[n].blamed \subseteq Source
  /\ \A b \in DOMAIN blk : Refs(b) \subseteq DOMAIN blk /\ blk[b].acc \in Source \cup {NoSource}

\* A member that runs this code is never blamed by one that does, itself
\* included: blame() is meant for those who sign two blocks of one height and
\* for those who depend on both branches or on an accused source.
HonestNeverBlamed == \A n \in Local : rcv[n].blamed \cap Local = {}

\* The vector time tells exactly which blocks are below a delivered block, so
\* is_descendant_of and the checks of pre_deliver may rely on it, forks
\* included.
VectorTimeIsExact ==
  \A n \in Local : \A b, c \in rcv[n].del \ {Root} :
    b \in Cone({c}) <=> At(rcv[n].vt[c], rcv[n].fork[b]) >= Height(b)

\* Once a handler is over nothing is left that could run: a block that waits
\* waits for a block that is neither delivered nor ill, and what is delivered
\* rests on delivered blocks (dep_delivered, dep_ill, written, run_scheduler).
NoLostWakeup ==
  \A n \in Local :
    /\ rcv[n].torun = <<>>
    /\ \A w \in Range(rcv[n].wait) : Pending(rcv[n], w) # {} /\ Refs(w) \cap rcv[n].ill = {}
    /\ \A b \in rcv[n].del : Refs(b) \subseteq rcv[n].del

\* The LOG_CHECK of add_block_cont_3: when the own block is stored and the
\* scheduler has run, the block is delivered unless it is ill; whatever was
\* blamed while it was being made, it never waits for a block.  (That it is
\* not ill is part of HonestNeverBlamed: set_ill blames the own source.)
OwnBlocksDelivered == \A n \in Local : last[n] \in rcv[n].del \cup rcv[n].ill

\* A block a member makes passes its own pre_validate_block (add_block_cont
\* calls ensure() on it): one dependency per source, none on itself.
DepsFromOtherSources ==
  \A n \in Local : \A b \in Own(n) : \A d \in blk[b].deps :
    Src(d) # n /\ \A e \in blk[b].deps \ {d} : Src(e) # Src(d)

\* From the block with a fork proof on, no block of the member depends
\* directly on the source it has accused, even if the session was already
\* working on such dependencies when the fork was found (on_blame).
NoDepOnAccused ==
  \A n \in Local : \A x, y \in Own(n) :
    Height(x) <= Height(y) => \A d \in blk[y].deps : Src(d) # blk[x].acc

\* The blocks a member makes are blocks that every member accepts, whatever
\* was found out while they were being made: the three parts above.
OwnBlocksAcceptable == OwnBlocksDelivered /\ DepsFromOtherSources /\ NoDepOnAccused

\* What the own chain covers, or will when what is being made is finished.
InMaking(n) ==
  {last[n], sending[n]} \cup ch[n].deps
    \cup UNION {queue[n][i][1] : i \in DOMAIN queue[n]}
    \cup UNION {toRcv[n][i][2] : i \in {j \in DOMAIN toRcv[n] : toRcv[n][j][1] = "add"}}

\* Every block of an unblamed source that CatChainImpl was given is below the
\* own chain, below a block being made, or still among the top blocks: it
\* will be referred to, however arrivals, blames and answers interleave.
NothingForgotten ==
  \A n \in Local : Asks(n) > 0 =>
    LET C == Cone(InMaking(n) \cup ch[n].top)
    IN  \A b \in ch[n].blocks : Src(b) \in Source \ (ch[n].blamed \cup {n}) => b \in C

\* The abstract broadcast: CatChainImpl is given the blocks, one at a time.
Broadcast == INSTANCE CausalBroadcast WITH
  Member <- Source, Genesis <- Root,
  refs <- [b \in DOMAIN blk |-> Refs(b)],
  got <- [n \in Source |-> IF n \in Local THEN ch[n].blocks ELSE {Root}]

\* The blocks reach the protocol above in causal order and once each: the
\* CHECKs of on_new_block that all references are known.
ImplementsBroadcast == Broadcast!Spec

\* A fork proof that waits for on_blame_processed is not stuck: the blame is
\* on its way to CatChainImpl or the answer on its way back.
ProofOnItsWay ==
  \A n \in Local : Asks(n) > 0 =>
    \A s \in pproof[n] : <<"blame", s>> \in Range(toChain[n]) \/ <<"blamed", s>> \in Range(toRcv[n])

\* Between two handlers every receiver is well formed and nothing in it waits
\* in vain, neither a block nor a fork proof: the parts are explained above.
NothingStuck == TypeOK /\ NoLostWakeup /\ ProofOnItsWay
=============================================================================

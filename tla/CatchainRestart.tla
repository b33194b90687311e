--------------------------- MODULE CatchainRestart ---------------------------
(***************************************************************************)
(* One Catchain receiver, its database and its restarts: how an own block  *)
(* is signed, stored, made the root of the database and only then sent;    *)
(* how received blocks are stored without waiting; and how a new process   *)
(* reads its own chain back while the network is already talking to it.    *)
(* The database is used through what KeyValue is proved to implement: a    *)
(* log of writes of which a prefix is durable.  CatChainImpl appears as    *)
(* the requests it makes and as its answer to a blame.                     *)
(***************************************************************************)
EXTENDS CatchainBlocks, SequencesExt

CONSTANTS Me,          \* the member whose receiver this is
          Setups       \* bound: the surroundings to look at, see setup

VARIABLES setup,    \* which of Setups this is; never changes.  Its fields:
                    \*   world         the blocks of the others and their contents
                    \*   unsafe        allow_unsafe_self_blocks_resync_
                    \*   max_height    get_max_block_height
                    \*   max_crashes   how often the process dies
                    \*   max_variants  own blocks made at one height, over all lives
          rcv,      \* blocks and sources
          last,     \* last_sent_block_
          pipe,     \* the own block on its way, and where it is
          ahead,    \* gets sent to the database before its write, not answered
          queue,    \* pending_blocks_
          disk,     \* what is durable: the blocks and the root
          log,      \* the writes sent to the database and not durable yet
          reads,    \* gets not answered yet (pending_in_db_ is their number)
          dbroot,   \* db_root_block_
          phase,    \* "reading", "read" (read_db_), "started" (started_)
          bproc, pproof,   \* blame_processed_, pending_fork_proofs_
          blames,   \* blames on their way to CatChainImpl and back
          writing,  \* the root being written by an unsafe start, if any
          out,      \* every own block ever sent to a neighbour
          crashes

volatile == <<rcv, last, pipe, ahead, queue, reads, dbroot, phase, bproc, pproof, blames,
              writing>>
vars == <<setup, blk, volatile, disk, log, out, crashes>>

Idle == [at |-> "idle", block |-> Root]

\* The database after some writes; what a handler still waits for.
Store(d, w) == IF w[1] = "root" THEN [d EXCEPT !.root = w[2]] ELSE [d EXCEPT !.blocks = @ \cup {w[2]}]
Durable(kind, b) == <<kind, b>> \notin Range(log)
\* Mutant of Answered: the next step is taken when the write is sent.
NotAwaited(kind) == ahead = 0
Answered(kind) == Durable(kind, pipe.block) /\ ahead = 0
Own == {b \in DOMAIN blk : Src(b) = Me}
Cone(S) == UNION {blk[b].cone : b \in S}

Init ==
  /\ setup \in Setups
  /\ blk = With(setup.world, Root, [prev |-> Root, deps |-> {}, acc |-> NoSource, cone |-> {Root}])
  /\ rcv = NewReceiver /\ last = Root /\ pipe = Idle /\ ahead = 0 /\ queue = <<>>
  /\ disk = [blocks |-> {}, root |-> Root] /\ log = <<>>
  /\ reads = <<>> /\ dbroot = Root /\ phase = "reading"
  /\ bproc = {} /\ pproof = {} /\ blames = <<>> /\ writing = Root
  /\ out = {} /\ crashes = 0

-----------------------------------------------------------------------------
(* The own block: add_block() .. add_block_cont_3() *)

TooHigh(h) == h > setup.max_height

\* add_block() for the first of the requests, with nothing being sent; the
\* others wait.
Send(prev, reqs) ==
  LET h == Height(prev) + 1
      v == 1 + Cardinality({b \in Own : Height(b) = h})
      b == <<Me, h, v>>
      D == Head(reqs)[1]
  IN  IF reqs = <<>> \/ TooHigh(h)
      THEN pipe' = Idle /\ queue' = <<>> /\ UNCHANGED blk
      ELSE /\ v <= setup.max_variants
           /\ blk' = With(blk, b, [prev |-> prev, deps |-> D, acc |-> Head(reqs)[2],
                                   cone |-> {b} \cup Cone(D \cup {prev})])
           /\ pipe' = [at |-> "sign", block |-> b]
           /\ queue' = Tail(reqs)

\* add_block(): wait while an own block is being sent.
AddBlocks(reqs) ==
  IF pipe = Idle THEN Send(last, reqs) ELSE queue' = queue \o reqs /\ UNCHANGED <<blk, pipe>>

\* processed_block() of CatChainImpl: at most one dependency, from a source
\* not known to be bad, that the own chain does not cover yet.
Request ==
  /\ phase = "started" /\ queue = <<>>
  /\ \E D \in {{}} \cup {{d} : d \in rcv.del \ (Own \cup Cone({last, pipe.block}))} :
       /\ \A d \in D : Src(d) \notin rcv.blamed
       /\ AddBlocks(<<<<D, NoSource>>>>)
  /\ UNCHANGED <<setup, rcv, last, disk, log, ahead, reads, dbroot, phase, bproc, pproof, blames, writing, out, crashes>>

\* add_block_cont(): the block is signed; store it and wait.
Signed ==
  /\ pipe.at = "sign"
  /\ log' = Append(log, <<"block", pipe.block>>)
  /\ pipe' = [pipe EXCEPT !.at = "block"] /\ ahead' = Len(reads)
  /\ UNCHANGED <<setup, blk, rcv, last, queue, disk, reads, dbroot, phase, bproc, pproof, blames, writing, out, crashes>>

\* add_block_cont_2(): make it the root of the database and wait.
BlockStored ==
  /\ pipe.at = "block" /\ Answered("block")
  /\ log' = Append(log, <<"root", pipe.block>>)
  /\ pipe' = [pipe EXCEPT !.at = "root"] /\ ahead' = Len(reads)
  /\ UNCHANGED <<setup, blk, rcv, last, queue, disk, reads, dbroot, phase, bproc, pproof, blames, writing, out, crashes>>

\* The callbacks of a handler that leaves the receiver in R.  Blames go to
\* CatChainImpl; what is delivered is sent to the neighbours; a fork proof
\* is kept until CatChainImpl has answered the blame, then it is published.
Callbacks(R) ==
  /\ rcv' = [R EXCEPT !.out = <<>>, !.found = <<>>]
  /\ blames' = blames \o SelectSeq(R.out, LAMBDA e : e[1] = "blame")
  /\ pproof' = pproof \cup (Range(R.found) \ bproc)
  /\ out' = out \cup (R.del \cap Own)
Proof(s) == <<{}, s>>
Proofs(R) == [i \in DOMAIN SelectSeq(R.found, LAMBDA s : s \in bproc)
               |-> Proof(SelectSeq(R.found, LAMBDA s : s \in bproc)[i])]

\* add_block_cont_3(): deliver, which sends it, and take the next request.
RootStored ==
  /\ pipe.at = "root" /\ Answered("root")
  /\ LET R == RunScheduler(Written(CreateBlock(rcv, pipe.block), pipe.block))
     IN  Callbacks(R) /\ Send(pipe.block, queue \o Proofs(R))
  /\ last' = pipe.block
  /\ UNCHANGED <<setup, disk, log, ahead, reads, dbroot, phase, bproc, writing, crashes>>

\* on_blame_processed(): CatChainImpl has dropped the source.
BlameProcessed ==
  /\ blames # <<>>
  /\ blames' = Tail(blames)
  /\ LET s == Head(blames)[2]
     IN  /\ bproc' = bproc \cup {s}
         /\ pproof' = pproof \ {s}
         /\ IF s \in pproof THEN AddBlocks(<<Proof(s)>>) ELSE UNCHANGED <<blk, pipe, queue>>
  /\ UNCHANGED <<setup, rcv, last, disk, log, ahead, reads, dbroot, phase, writing, out, crashes>>

-----------------------------------------------------------------------------
(* Blocks from the network, and the database *)

\* Mutant of StoreLater: a received block is not stored.
NotStored(b) == UNCHANGED log
StoreLater(b) == log' = Append(log, <<"block", b>>)

\* receive_message_from_overlay(), receive_block(): not while the database is
\* being read; stored without waiting.  An own block that is not known is
\* only taken before an unsafe start; otherwise the process is aborted,
\* which is a Crash.
ReceiveBlock(b) ==
  /\ phase # "reading"
  /\ b \in DOMAIN setup.world \/ (b \in out /\ setup.unsafe /\ phase # "started")
  /\ ~ Initialized(rcv, b) /\ b \notin rcv.ill
  /\ Src(b) \in rcv.proof => b \in rcv.revd
  /\ LET R == RunScheduler(Written(CreateBlock(rcv, b), b))
     IN  Callbacks(R) /\ AddBlocks(Proofs(R))
  /\ StoreLater(b)
  /\ UNCHANGED <<setup, last, disk, ahead, reads, dbroot, phase, bproc, writing, crashes>>

\* The database commits a transaction.
Commit ==
  /\ \E n \in 1 .. Len(log) :
       /\ disk' = FoldLeft(Store, disk, SubSeq(log, 1, n))
       /\ log' = SubSeq(log, n + 1, Len(log))
  /\ UNCHANGED <<setup, blk, volatile, out, crashes>>

\* The process ends without warning, and what was not durable is gone (or,
\* before an unsafe start, the database); start_up() of the next process
\* asks for the root of the database.
Crash ==
  /\ crashes < setup.max_crashes /\ crashes' = crashes + 1
  /\ \E d \in {disk} \cup (IF setup.unsafe THEN {[blocks |-> {}, root |-> Root]} ELSE {}) :
       /\ disk' = d /\ log' = <<>>
       /\ dbroot' = d.root
       /\ reads' = IF d.root = Root THEN <<>> ELSE <<d.root>>
  /\ rcv' = NewReceiver /\ last' = Root /\ pipe' = Idle /\ ahead' = 0 /\ queue' = <<>>
  /\ phase' = "reading"
  /\ bproc' = {} /\ pproof' = {} /\ blames' = <<>> /\ writing' = Root
  /\ UNCHANGED <<setup, blk, out>>

-----------------------------------------------------------------------------
(* Start-up *)

\* read_block_from_db() for a block not seen yet: make it, and ask for the
\* blocks it refers to that are not known.
Unread(R, b) == SelectSeq(Listed(blk[b].deps) \o <<Prev(b)>>, LAMBDA d : d # Root /\ ~ Initialized(R, d))
ReadFrom(b) == Written(CreateBlock(rcv, b), b)

\* read_db(): run what can run; the root of the database is the last block.
FinishReading(R) ==
  /\ Callbacks(R) /\ AddBlocks(Proofs(R))
  /\ last' = dbroot /\ phase' = "read"

ReadBlock ==
  /\ phase = "reading" /\ reads # <<>>
  /\ LET b == Head(reads)
         R == IF Initialized(rcv, b) THEN rcv ELSE ReadFrom(b)
         more == Tail(reads) \o (IF Initialized(rcv, b) THEN <<>> ELSE Unread(R, b))
     IN  /\ reads' = more /\ ahead' = Max({0, ahead - 1})
         /\ IF more = <<>> THEN FinishReading(RunScheduler(R))
            ELSE Callbacks(R) /\ AddBlocks(Proofs(R)) /\ UNCHANGED <<last, phase>>
  /\ UNCHANGED <<setup, disk, log, dbroot, bproc, writing, crashes>>

\* There is no root: a new database.
ReadNothing ==
  /\ phase = "reading" /\ dbroot = Root
  /\ FinishReading(rcv)
  /\ UNCHANGED <<setup, disk, log, ahead, reads, dbroot, bproc, writing, crashes>>

\* alarm(): the initial synchronisation is over.
Start ==
  /\ phase = "read" /\ ~ setup.unsafe
  /\ phase' = "started"
  /\ UNCHANGED <<setup, blk, rcv, last, pipe, queue, disk, log, ahead, reads, dbroot, bproc, pproof, blames, writing, out, crashes>>

\* alarm() with unsafe_start_up_check_completed(): start when the own chain
\* is complete and its end is the root of the database.  The wait before it
\* is long enough for the own blocks to come back (a timing assumption).
\* Mutant of SelfComplete: the own chain is not waited for.
SelfAssumed == TRUE
SelfComplete ==
  /\ \A b \in rcv.objs \cap Own : Height(b) <= ReceivedHeight(rcv, Me)
  /\ DeliveredHeight(rcv, Me) = ReceivedHeight(rcv, Me)
LastIs(h) == Height(last) = h
UnsafeStart ==
  /\ phase = "read" /\ setup.unsafe /\ SelfComplete
  /\ out \subseteq rcv.objs
  /\ LET h == DeliveredHeight(rcv, Me)
     IN  IF LastIs(h)
         THEN phase' = "started" /\ UNCHANGED <<writing, log>>
         ELSE /\ writing = Root
              /\ log' = Append(log, <<"root", rcv.slot[Me][h]>>)
              /\ writing' = rcv.slot[Me][h]
              /\ UNCHANGED phase
  /\ UNCHANGED <<setup, blk, rcv, last, pipe, queue, disk, ahead, reads, dbroot, bproc, pproof, blames, out, crashes>>

\* written_unsafe_root_block()
UnsafeRootStored ==
  /\ writing # Root /\ Durable("root", writing)
  /\ last' = writing /\ writing' = Root
  /\ UNCHANGED <<setup, blk, rcv, pipe, queue, disk, log, ahead, reads, dbroot, phase, bproc, pproof, blames, out, crashes>>

Next ==
  \/ Request \/ Signed \/ BlockStored \/ RootStored \/ BlameProcessed
  \/ (\E b \in DOMAIN blk : ReceiveBlock(b)) \/ Commit \/ Crash
  \/ ReadBlock \/ ReadNothing \/ Start \/ UnsafeStart \/ UnsafeRootStored

Spec == Init /\ [][Next]_vars

-----------------------------------------------------------------------------
(* Properties *)

\* The variables have their types, and no own block is higher than add_block()
\* and pre_validate_block() allow.
TypeOK ==
  /\ pipe.at \in {"idle", "sign", "block", "root"}
  /\ phase \in {"reading", "read", "started"}
  /\ DOMAIN blk \subseteq {Root} \cup (Source \X (1 .. setup.max_height) \X (1 .. setup.max_variants))
  /\ disk.blocks \cup {w[2] : w \in Range(log)} \subseteq DOMAIN blk
  /\ {last, dbroot, writing, disk.root} \cup Range(reads) \cup out \subseteq DOMAIN blk

\* A fork proof was signed on the root block in place of an earlier own block:
\* on_blame_processed() of a fork found among the blocks being read back does
\* this, last_sent_block_ being still the root block then.
ProofInPlace == \E b \in Own : Height(b) = 1 /\ b[3] > 1 /\ blk[b].acc # NoSource

\* Own blocks sent over all lives of the process form one chain: no crash,
\* wherever it falls between signing, storing and sending, makes this member
\* sign and send two blocks of one height (an involuntary fork).  Only a fork
\* proof signed too early does.
NoInvoluntaryFork ==
  /\ ProofInPlace \/ \A b, c \in out : Height(b) = Height(c) => b = c
  /\ \A b \in out : Prev(b) \in out \cup {Root}

\* read_db_from() and read_block_from_db() CHECK that every get succeeds:
\* whatever prefix of the writes survives, it holds every block below its
\* root, although received blocks are stored without waiting.
RootClosed == blk[disk.root].cone \ {Root} \subseteq disk.blocks

\* read_db() CHECKs that the root of the database is delivered: the blocks
\* read back in another order are judged as they were the first time.
RootDelivered == phase = "read" => dbroot \in rcv.del

\* Whenever the process dies, its database can be read back: no CHECK between
\* start_up() and the end of read_db() fails.
RestartSucceeds == RootClosed /\ RootDelivered

\* receive_block() aborts on an own block that it does not know: once the
\* database is read, or the own chain taken back, there is none on the network
\* (but for a fork as above).
SelfBlocksKnown ==
  phase = "started" \/ (phase = "read" /\ ~ setup.unsafe)
    => ProofInPlace \/ \A b \in out : Initialized(rcv, b)

\* The CHECKs on the own source in add_block(), unsafe_start_up_check_completed()
\* and written_unsafe_root_block() (but for a fork as above).
SelfChecks ==
  /\ ProofInPlace \/ Me \notin rcv.blamed
  /\ writing # Root => Height(last) < Height(writing)

\* What the receiver assumes of its own chain holds after any crashes: the
\* chain is within its limits, known as far as it was sent, and not blamed.
OwnChecks == TypeOK /\ SelfBlocksKnown /\ SelfChecks
=============================================================================

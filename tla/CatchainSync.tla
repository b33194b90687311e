---------------------------- MODULE CatchainSync ----------------------------
(***************************************************************************)
(* How a member of the group catches up: alarm() synchronises with a peer, *)
(* getDifference answers with blocks or with a fork proof, getBlock with a *)
(* block that something received depends on.  Any message may be lost, and *)
(* a peer sends a block in answer to getDifference a bounded number of     *)
(* times.  The peers stand still: what is to be pulled is what they have.  *)
(*                                                                         *)
(* A block is <<source, height, variant>>; Refs gives its previous block,  *)
(* if any, and its dependencies.  No block is wrong, so a block is         *)
(* delivered when everything below it is received.                         *)
(***************************************************************************)
EXTENDS Integers, Sequences, FiniteSets, FiniteSetsExt, SequencesExt, Functions

CONSTANTS Source,
          Refs,           \* for every block the sequence prev, deps
          Has,            \* for every peer that answers, what it has delivered
          Proof,          \* and the sources of which it has a fork proof
          MaxSend,        \* GET_DIFFERENCE_MAX_SEND
          MaxRequests,    \* MAX_BLOCK_REQUESTS
          MaxPendingDeps, \* MAX_PENDING_DEPS
          MaxLosses       \* bound: messages lost

VARIABLES got, del, \* blocks received (initialized) and delivered
          forked,   \* sources blamed, with their proof
          query,    \* per peer: the getDifference that is on its way
          proof,    \* per peer: the fork proof that is its answer, on its way
          wanted,   \* getBlock queries <<peer, block>> on their way
          found,    \* and their answers
          air,      \* how many copies of a block sent as a message are on their way
          count,    \* block_requests_count_ at every peer
          losses

vars == <<got, del, forked, query, proof, wanted, found, air, count, losses>>

Peer == DOMAIN Has
Block == DOMAIN Refs
MaxHeight == Max({b[2] : b \in Block})
Src(b) == b[1]
Height(b) == b[2]
NoQuery == <<>>
NoSource == "none"

Heights(S, s) == {Height(b) : b \in {x \in S : Src(x) = s}}
\* delivered_height() or received_height(): the contiguous prefix in S.
Prefix(S, s) == Max({h \in {0} \cup Heights(Block, s) : \A g \in 1 .. h : g \in Heights(S, s)})

\* run_scheduler(): deliver what has nothing pending, as long as there is any.
RECURSIVE Run(_, _)
Run(S, D) ==
  LET ready == {b \in S \ D : Range(Refs[b]) \subseteq D}
  IN  IF ready = {} THEN D ELSE Run(S, D \cup ready)
\* Every object: received, or known by a reference.
Known(S) == S \cup UNION {Range(Refs[b]) : b \in S}
Forks(S) == {Src(b) : b \in {x \in S : \E y \in S : y # x /\ Src(y) = Src(x) /\ Height(y) = Height(x)}}

Init ==
  /\ got = {} /\ del = {} /\ forked = {}
  /\ query = [p \in Peer |-> NoQuery] /\ proof = [p \in Peer |-> NoSource]
  /\ wanted = {} /\ found = {} /\ air = [b \in Block |-> 0]
  /\ count = [p \in Peer |-> [b \in Block |-> 0]]
  /\ losses = 0

-----------------------------------------------------------------------------
(* The side that asks *)

\* The vector sent: the delivered height of the peer that is asked, for
\* every source that is not blamed.
AskedHeights(p) == [s \in Source |-> IF s \in forked THEN -1 ELSE Prefix(del, p)]

\* find_pending_deps(): what is missing below b, the previous block first.
RECURSIVE FindPendingDeps(_, _)
FindPendingDeps(b, vec) ==
  IF b \in del \/ Len(vec) = MaxPendingDeps THEN vec
  ELSE IF b \notin got THEN Append(vec, b)
  ELSE FoldLeft(LAMBDA v, c : FindPendingDeps(c, v), vec, Refs[b])

Missing(p) ==
  LET d == Prefix(del, p)
  IN  IF d = Prefix(got, p) THEN {}
      ELSE Range(FindPendingDeps(CHOOSE b \in got : Src(b) = p /\ Height(b) = d + 1, <<>>))

\* synchronize_with(), from alarm(), for a peer that is not blamed.  (Bound:
\* one query of each kind to a peer is on its way at a time.)
SynchronizeWith(p) ==
  /\ p \notin forked /\ query[p] = NoQuery /\ proof[p] = NoSource
  /\ query' = [query EXCEPT ![p] = AskedHeights(p)]
  /\ wanted' = wanted \cup (({p} \X Missing(p)) \ found)
  /\ UNCHANGED <<got, del, forked, proof, found, air, count, losses>>

\* receive_block(): a block of a source with a fork is only taken when
\* something received depends on it.
ReceiveBlock(b) ==
  /\ got' = IF Src(b) \in forked /\ b \notin Known(got) THEN got ELSE got \cup {b}
  /\ del' = Run(got', del)
  /\ forked' = forked \cup Forks(Known(got'))
  /\ UNCHANGED <<query, proof, wanted, count, losses>>

\* receive_message_from_overlay(), receive_block_answer()
ReceiveMessage(b) ==
  /\ air[b] > 0
  /\ air' = [air EXCEPT ![b] = @ - 1]
  /\ ReceiveBlock(b) /\ UNCHANGED found
ReceiveAnswer(p, b) ==
  /\ <<p, b>> \in found
  /\ found' = found \ {<<p, b>>}
  /\ ReceiveBlock(b) /\ UNCHANGED air

\* got_fork_proof()
GotForkProof(p) ==
  /\ proof[p] # NoSource
  /\ forked' = forked \cup {proof[p]}
  /\ proof' = [proof EXCEPT ![p] = NoSource]
  /\ UNCHANGED <<got, del, query, wanted, found, air, count, losses>>

-----------------------------------------------------------------------------
(* The side that answers *)

\* How many blocks of every source the asking side seems to miss.
PeerHeights == [p \in Peer |-> [s \in Source |-> Prefix(Has[p], s)]]
Lag(p, vt) == [s \in Source |-> IF vt[s] >= 0 /\ PeerHeights[p][s] > vt[s] THEN PeerHeights[p][s] - vt[s] ELSE 0]
\* What is sent if at most x blocks of a source are.
\* Mutant of UpTo: the bound x is forgotten.
All(lag, x) == Cardinality({w \in Source \X (1 .. MaxHeight) : w[2] <= lag[w[1]]})
UpTo(lag, x) == Cardinality({w \in Source \X (1 .. x) : w[2] <= lag[w[1]]})

\* The binary search for the number of blocks to send of one source.
RECURSIVE Search(_, _, _)
Search(left, right, lag) ==
  LET x == (right + left) \div 2
  IN  IF right - left <= 1 THEN right
      ELSE IF UpTo(lag, x) > MaxSend THEN Search(left, x, lag)
      ELSE Search(x, right, lag)

Chosen(p, vt) ==
  LET lag == Lag(p, vt)
      right == Search(0, MaxSend + 1, lag)
  IN  {b \in Has[p] : lag[Src(b)] > 0 /\ Height(b) > vt[Src(b)] /\ Height(b) <= vt[Src(b)] + right}

\* Mutant of Allowed: one less.
AllowedLess(p, b) == count[p][b] + 1 < MaxRequests
\* allow_send_block()
Allowed(p, b) == count[p][b] + 1 <= MaxRequests

Untold(vt, s) == vt[s] >= 0

\* process_query(getDifference): a fork proof the other side does not have,
\* or blocks.
AnswerDifference(p) ==
  /\ query[p] # NoQuery
  /\ query' = [query EXCEPT ![p] = NoQuery]
  /\ LET news == {s \in Proof[p] : Untold(query[p], s)}
         sent == {b \in Chosen(p, query[p]) : Allowed(p, b)}
     IN  IF news # {}
         THEN /\ \E s \in news : proof' = [proof EXCEPT ![p] = s]
              /\ UNCHANGED <<air, count>>
         ELSE /\ air' = [b \in Block |-> IF b \in sent THEN air[b] + 1 ELSE air[b]]
              /\ count' = [count EXCEPT ![p] = [b \in Block |-> IF b \in sent THEN @[b] + 1 ELSE @[b]]]
              /\ UNCHANGED proof
  /\ UNCHANGED <<got, del, forked, wanted, found, losses>>

\* process_query(getBlock): the block, or catchain.blockNotFound.
AnswerBlock(p, b) ==
  /\ <<p, b>> \in wanted
  /\ wanted' = wanted \ {<<p, b>>}
  /\ found' = IF b \in Has[p] THEN found \cup {<<p, b>>} ELSE found
  /\ UNCHANGED <<got, del, forked, query, proof, air, count, losses>>

-----------------------------------------------------------------------------
\* The network loses a message, a query or an answer.
Lose ==
  /\ losses < MaxLosses /\ losses' = losses + 1
  /\ \/ \E b \in Block : air[b] > 0 /\ air' = [air EXCEPT ![b] = @ - 1] /\ UNCHANGED <<query, proof, wanted, found>>
     \/ \E w \in wanted : wanted' = wanted \ {w} /\ UNCHANGED <<query, proof, found, air>>
     \/ \E w \in found : found' = found \ {w} /\ UNCHANGED <<query, proof, wanted, air>>
     \/ \E p \in Peer : /\ query[p] # NoQuery \/ proof[p] # NoSource
                        /\ query' = [query EXCEPT ![p] = NoQuery]
                        /\ proof' = [proof EXCEPT ![p] = NoSource]
                        /\ UNCHANGED <<wanted, found, air>>
  /\ UNCHANGED <<got, del, forked, count>>

Next ==
  \/ \E p \in Peer : SynchronizeWith(p) \/ AnswerDifference(p) \/ GotForkProof(p)
  \/ \E p \in Peer, b \in Block : AnswerBlock(p, b) \/ ReceiveAnswer(p, b)
  \/ \E b \in Block : ReceiveMessage(b)
  \/ Lose

\* alarm() picks every peer again and again, a peer that runs answers, and a
\* message that is not lost arrives.
Fairness ==
  /\ \A p \in Peer : WF_vars(SynchronizeWith(p)) /\ WF_vars(AnswerDifference(p)) /\ WF_vars(GotForkProof(p))
  /\ \A p \in Peer, b \in Block : WF_vars(AnswerBlock(p, b)) /\ WF_vars(ReceiveAnswer(p, b))
  /\ \A b \in Block : WF_vars(ReceiveMessage(b))

Spec == Init /\ [][Next]_vars /\ Fairness

-----------------------------------------------------------------------------
(* Properties *)

\* The variables have their types; no peer sends a block more often than
\* allow_send_block() lets it.
TypeOK ==
  /\ del \subseteq got /\ got \subseteq Block /\ forked \subseteq Source
  /\ \A p \in Peer : query[p] # NoQuery => query[p] \in [Source -> -1 .. MaxHeight]
  /\ proof \in [Peer -> Source \cup {NoSource}]
  /\ wanted \cup found \subseteq Peer \X Block /\ wanted \cap found = {}
  /\ air \in [Block -> 0 .. MaxRequests * Cardinality(Peer)]
  /\ \A p \in Peer : count[p] \in [Block -> 0 .. MaxRequests]

\* The answer to getDifference is everything that is missing, or it is cut
\* where the search says: just beyond GET_DIFFERENCE_MAX_SEND, by less than
\* one block per source, so that a peer that lags far behind still advances.
AnswerSize ==
  \A p \in Peer : query[p] # NoQuery =>
    LET n == Cardinality(Chosen(p, query[p]))
    IN  \/ n = All(Lag(p, query[p]), 0)
        \/ n > MaxSend /\ n <= MaxSend + Cardinality(Source)

\* Answers keep to their limits, in size and in number: the two parts above.
AnswersBounded == TypeOK /\ AnswerSize

\* Everything in the chain of a peer that answers is delivered in the end,
\* with all that it depends on, if fewer messages are lost than a peer is
\* ready to repeat.
PulledEventually ==
  \A p \in Peer : \A b \in Has[p] : Src(b) = p => <>(b \in del)

\* A fork known to a peer that answers becomes known here.
ForkLearned == \A p \in Peer : \A s \in Proof[p] : <>(s \in forked)

\* synchronize_with() comes to its end: whatever is lost on the way, blocks
\* and fork proofs of both peers arrive.
SynchronizedEventually == PulledEventually /\ ForkLearned
=============================================================================

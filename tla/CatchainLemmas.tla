--------------------------- MODULE CatchainLemmas ---------------------------
(***************************************************************************)
(* The inductive invariant of Catchain, and that the handlers of a         *)
(* receiver keep it.                                                       *)
(***************************************************************************)
EXTENDS Catchain, CatchainBlocksProofs

\* Zenon proves most steps, which are about sets and functions; those that it
\* does not find, arithmetic above all, name SMT.
USE ZenonT(20), SMTT(30)

-----------------------------------------------------------------------------
(* The inductive invariant *)

\* The blocks: references, heights and cones fit together.
Graph(w) == World(w) /\ Cones(w) /\ IsFiniteSet(DOMAIN w)

\* A receiver between two handlers.
RcvOK(w, R) ==
  /\ Sane(w, R) /\ Ready(w, R, {}) /\ Timed(w, R, R.del)
  /\ R.torun = <<>> /\ R.out = <<>> /\ R.found = <<>> /\ R.blamed \subseteq Source
\* A receiver when a handler ends: it has told what is new since R.
Handled(w, A, R) ==
  /\ Sane(w, A) /\ Ready(w, A, {}) /\ Timed(w, A, A.del)
  /\ A.torun = <<>> /\ Found(A) /\ Told(w, A, R.blamed, R.del)

\* The own blocks are those up to the last one sent, and the one being sent.
OwnOK(w, n, s, l) ==
  /\ s \in DOMAIN w /\ l \in DOMAIN w
  /\ Height(s) <= MaxHeight /\ (s # Root => Height(s) = Height(l) + 1)
  /\ \A b \in DOMAIN w : Src(b) = n => Height(b) <= Height(l) \/ b = s
\* What CatChainImpl and the receiver keep and ask for are blocks there are.
Request(w) == (SUBSET DOMAIN w) \X (Source \cup {NoSource})
Order(w) == ({"add"} \X (SUBSET DOMAIN w)) \cup ({"blamed"} \X Source)
ChainFields == {"blocks", "top", "topsrc", "processed", "pre", "deps", "active", "force", "alarm",
                "started", "blamed"}
ChainOK(w, c) ==
  /\ DOMAIN c = ChainFields
  /\ c.blocks \subseteq DOMAIN w /\ c.top \subseteq DOMAIN w /\ c.processed \subseteq DOMAIN w
  /\ c.deps \subseteq DOMAIN w /\ c.topsrc \in [Source -> DOMAIN w] /\ c.blamed \subseteq Source
\* What is delivered is with CatChainImpl (which asks for k blocks) or on its
\* way to it, in causal order.
NewsOK(w, k, R, c, q) ==
  /\ q \in Seq(Event) /\ Causal(w, c.blocks, q)
  /\ k > 0 => c.blocks \cup AllNews(q) = R.del
  /\ k = 0 => q = <<>>
\* A blame is processed, or on its way to CatChainImpl, or its answer is on
\* its way back; for a fork proof that waits it is one of the latter two.
BlameOK(k, R, bp, pp, q, t) ==
  /\ bp \subseteq Source /\ pp \subseteq Source
  /\ k > 0 => /\ \A s \in R.blamed : s \in bp \/ <<"blame", s>> \in Range(q) \/ <<"blamed", s>> \in Range(t)
              /\ \A s \in pp : <<"blame", s>> \in Range(q) \/ <<"blamed", s>> \in Range(t)

Member(n) ==
  /\ RcvOK(blk, rcv[n]) /\ OwnOK(blk, n, sending[n], last[n])
  /\ queue[n] \in Seq(Request(blk)) /\ toRcv[n] \in Seq(Order(blk)) /\ ChainOK(blk, ch[n])
  /\ NewsOK(blk, Asks(n), rcv[n], ch[n], toChain[n])
  /\ BlameOK(Asks(n), rcv[n], bproc[n], pproof[n], toChain[n], toRcv[n])

Shape ==
  /\ DOMAIN rcv = Local /\ DOMAIN sending = Local /\ DOMAIN queue = Local /\ DOMAIN last = Local
  /\ DOMAIN bproc = Local /\ DOMAIN pproof = Local /\ DOMAIN toChain = Local /\ DOMAIN toRcv = Local
  /\ DOMAIN ch = Local

Inv == setup \in Setups /\ Graph(blk) /\ Shape /\ \A n \in Local : Member(n)

-----------------------------------------------------------------------------
(* More blocks *)

LEMMA GrownGraph ==
  ASSUME NEW w, NEW v, NEW S, Graph(w), Grown(v, w, S)
  PROVE  Graph(v) /\ Extends(v, w)
<1>1. CASE v = w
  BY <1>1 DEF Extends
<1>2. CASE v # w
  <2>1. PICK b, p, D, a : Added(v, w, b, p, D, a)
    BY <1>2 DEF Grown
  <2> DEFINE C == {b} \cup UNION {w[x].cone : x \in D \cup {p}}
             r == [prev |-> p, deps |-> D, acc |-> a, cone |-> C]
  <2>2. /\ b \in Block /\ b \notin DOMAIN w /\ p \in DOMAIN w /\ D \subseteq DOMAIN w /\ a \in Source \cup {NoSource}
        /\ Height(b) = Height(p) + 1 /\ v = With(w, b, r)
    BY <2>1 DEF Added
  <2>3. r.prev = p /\ r.deps = D /\ r.acc = a /\ r.cone = C
    OBVIOUS
  <2> HIDE DEF r
  <2>4. /\ DOMAIN v = DOMAIN w \cup {b} /\ v[b] = r
        /\ \A c \in DOMAIN w : v[c] = w[c] /\ c # b
    BY <2>2 DEF With
  <2>5. RefsIn(v, b) = D \cup {p} /\ \A c \in DOMAIN w : RefsIn(v, c) = RefsIn(w, c)
    BY <2>3, <2>4 DEF RefsIn
  <2>6. Root \in DOMAIN w /\ b # Root
    BY <2>2 DEF Graph, World
  <2>7. World(v)
    <3>1. IsFiniteSet(D \cup {p})
      BY <2>2, FS_Subset, SMTT(30) DEF Graph
    <3> QED BY <2>2, <2>3, <2>4, <2>5, <2>6, <3>1 DEF Graph, World
  <2>8. /\ C \subseteq DOMAIN v /\ b \in C
        /\ \A c \in C : v[c].cone \subseteq C
    <3>1. \A x \in DOMAIN w : w[x].cone \subseteq DOMAIN w /\ \A c \in w[x].cone : w[c].cone \subseteq w[x].cone
      BY DEF Graph, Cones
    <3>2. C \subseteq DOMAIN v
      BY <2>2, <2>4, <3>1, SMTT(30)
    <3>3. ASSUME NEW c \in C, c # b
          PROVE  v[c].cone \subseteq C
      <4>1. PICK x \in D \cup {p} : c \in w[x].cone
        BY <3>3
      <4>2. w[c].cone \subseteq w[x].cone /\ c \in DOMAIN w
        BY <2>2, <3>1, <4>1
      <4> QED BY <2>4, <4>1, <4>2
    <3>4. v[b].cone \subseteq C
      <4> HIDE DEF C
      <4> QED BY <2>3, <2>4
    <3> QED BY <3>2, <3>3, <3>4
  <2>9. Cones(v)
    <3>1. v[Root].cone = {Root}
      BY <2>4, <2>6 DEF Graph, Cones
    <3>2. ASSUME NEW c \in DOMAIN v
          PROVE  /\ c \in v[c].cone /\ v[c].cone \subseteq DOMAIN v
                 /\ \A x \in v[c].cone : v[x].cone \subseteq v[c].cone
      <4>1. CASE c = b
        <5> HIDE DEF C
        <5> QED BY <2>3, <2>4, <2>8, <4>1
      <4>2. CASE c \in DOMAIN w
        BY <2>4, <4>2 DEF Graph, Cones
      <4> QED BY <2>4, <4>1, <4>2
    <3>3. ASSUME NEW c \in DOMAIN v \ {Root}
          PROVE  /\ Height(c) = Height(v[c].prev) + 1
                 /\ v[c].cone = {c} \cup UNION {v[d].cone : d \in RefsIn(v, c)}
      <4>1. CASE c = b
        <5>1. \A d \in RefsIn(v, b) : v[d].cone = w[d].cone
          BY <2>2, <2>4, <2>5
        <5>2. v[b].cone = {b} \cup UNION {v[d].cone : d \in RefsIn(v, b)}
          BY <2>3, <2>4, <2>5, <5>1, SMTT(30)
        <5> QED BY <2>2, <2>3, <2>4, <4>1, <5>2
      <4>2. CASE c \in DOMAIN w
        <5>1. RefsIn(w, c) \subseteq DOMAIN w /\ RefsIn(v, c) = RefsIn(w, c)
          BY <2>5, <4>2 DEF Graph, World
        <5>2. \A d \in RefsIn(v, c) : v[d].cone = w[d].cone
          BY <2>4, <5>1
        <5>3. Height(c) = Height(w[c].prev) + 1 /\ w[c].cone = {c} \cup UNION {w[d].cone : d \in RefsIn(w, c)}
          BY <4>2 DEF Graph, Cones
        <5> QED BY <2>4, <4>2, <5>1, <5>2, <5>3, SMTT(30)
      <4> QED BY <2>4, <4>1, <4>2
    <3> QED BY <3>1, <3>2, <3>3 DEF Cones
  <2>10. IsFiniteSet(DOMAIN v)
    BY <2>4, FS_AddElement DEF Graph
  <2> QED BY <2>4, <2>7, <2>9, <2>10 DEF Graph, Extends
<1> QED BY <1>1, <1>2

LEMMA TimedExtends ==
  ASSUME NEW w, NEW v, Extends(v, w), NEW R, NEW D, Timed(w, R, D)
  PROVE  Timed(v, R, D)
<1>1. D \subseteq DOMAIN w /\ \A c \in D : v[c] = w[c] /\ c \in DOMAIN v
  BY DEF Timed, Times, Extends
<1> QED BY <1>1 DEF Timed, Times

\* What holds of the blocks there are holds when there are more.
LEMMA MoreBlocks ==
  ASSUME NEW w, NEW v, Extends(v, w)
  PROVE  /\ \A R : RcvOK(w, R) => RcvOK(v, R)
         /\ \A q : q \in Seq(Request(w)) => q \in Seq(Request(v))
         /\ \A q : q \in Seq(Order(w)) => q \in Seq(Order(v))
         /\ \A c : ChainOK(w, c) => ChainOK(v, c)
         /\ \A k, R, c, q : NewsOK(w, k, R, c, q) => NewsOK(v, k, R, c, q)
<1>1. DOMAIN w \subseteq DOMAIN v
  BY DEF Extends
<1>2. \A R : RcvOK(w, R) => RcvOK(v, R)
  BY SaneExtends, TimedExtends DEF RcvOK
<1>3. Request(w) \subseteq Request(v) /\ Order(w) \subseteq Order(v)
  BY <1>1 DEF Request, Order
<1>4. \A X, Y : X \subseteq Y => \A q : q \in Seq(X) => q \in Seq(Y)
  BY SMTT(30)
<1>5. \A c : ChainOK(w, c) => ChainOK(v, c)
  BY <1>1 DEF ChainOK
<1>6. \A k, R, c, q : NewsOK(w, k, R, c, q) => NewsOK(v, k, R, c, q)
  BY CausalExtends DEF NewsOK
<1> QED BY <1>2, <1>3, <1>4, <1>5, <1>6

-----------------------------------------------------------------------------
(* The handlers of a receiver *)

LEMMA NothingToldYet ==
  ASSUME NEW w, NEW R, RcvOK(w, R)
  PROVE  Told(w, R, R.blamed, R.del) /\ Found(R)
<1>1. R.out = <<>> /\ R.found = <<>> /\ R.blamed \subseteq Source
  BY DEF RcvOK
<1>2. <<>> \in Seq(Event) /\ Len(<<>>) = 0 /\ Range(<<>>) = {} /\ <<>> \in Seq(Source)
  BY DEF Range
<1>3. Causal(w, R.del, <<>>) /\ AllNews(<<>>) = {}
  BY <1>2, CausalQuiet
<1> QED BY <1>1, <1>2, <1>3 DEF Told, Found

\* receive_block() and add_block_cont_3(): a block arrives and everything it
\* makes ready runs.
LEMMA ArrivalHandled ==
  ASSUME NEW R, Graph(blk), RcvOK(blk, R), NEW b \in DOMAIN blk
  PROVE  Handled(blk, RunScheduler(Written(CreateBlock(R, b), b)), R)
<1> DEFINE Q == Written(CreateBlock(R, b), b)
           A == RunScheduler(Q)
<1>1. World(blk) /\ Cones(blk) /\ Sane(blk, R) /\ Ready(blk, R, {}) /\ Timed(blk, R, R.del)
  BY DEF Graph, RcvOK
<1>2. Sane(blk, Q) /\ Ready(blk, Q, {}) /\ Arrives(Q, R)
  BY <1>1, ArrivalLemma
<1> HIDE DEF Q
<1>3. Runs(A, Q) /\ A.torun = <<>>
  BY <1>1, <1>2, RunSchedulerLemma
<1> HIDE DEF A
<1>4. Timed(blk, Q, Q.del)
  BY <1>1, <1>2 DEF Arrives, SameForks, Timed
<1>5. Timed(blk, A, A.del)
  BY <1>1, <1>3, <1>4 DEF Runs, KeepsTime
<1>6. Told(blk, R, R.blamed, R.del) /\ Found(R)
  BY NothingToldYet
<1>7. Told(blk, A, R.blamed, R.del) /\ Found(A)
  BY <1>2, <1>3, <1>6 DEF Arrives, Runs
<1> QED BY <1>3, <1>5, <1>7 DEF Handled, Runs, A, Q

\* got_fork_proof()
LEMMA ProofHandled ==
  ASSUME NEW R, RcvOK(blk, R), NEW s \in Source
  PROVE  Handled(blk, Blame([R EXCEPT !.proof = @ \cup {s}], s), R)
<1> DEFINE Q == [R EXCEPT !.proof = @ \cup {s}]
           A == Blame(Q, s)
<1>1. DOMAIN R = Fields /\ Sane(blk, R) /\ Ready(blk, R, {}) /\ Timed(blk, R, R.del) /\ R.torun = <<>>
  BY DEF RcvOK, Sane
<1>2. /\ DOMAIN Q = Fields /\ SameBlocks(Q, R) /\ SameForks(Q, R) /\ Q.objs = R.objs
      /\ Q.out = R.out /\ Q.found = R.found /\ Q.blamed = R.blamed
  BY <1>1 DEF Fields, SameBlocks, SameForks
<1> HIDE DEF Q
<1>3. Quiet(blk, A, Q) /\ SameForks(A, Q) /\ A.objs = Q.objs
  BY <1>2, BlameLemma
<1> HIDE DEF A
<1>4. Quiet(blk, A, R) /\ A.objs = R.objs
  BY <1>2, <1>3, OtherFieldsQuiet, QuietTransitive
<1>5. Sane(blk, A) /\ Ready(blk, A, {})
  BY <1>1, <1>4, QuietIsSane DEF Sane
<1>6. Timed(blk, A, A.del) /\ A.torun = <<>>
  BY <1>1, <1>2, <1>3, <1>4 DEF SameForks, Timed, Quiet, SameBlocks
<1>7. Told(blk, A, R.blamed, R.del) /\ Found(A)
  BY <1>4, NothingToldYet DEF Quiet
<1> QED BY <1>5, <1>6, <1>7 DEF Handled, A, Q

\* The callbacks leave the receiver and join the mailbox.
LEMMA FlushReceiver ==
  ASSUME NEW w, NEW A, NEW R, Handled(w, A, R)
  PROVE  LET N == [A EXCEPT !.out = <<>>, !.found = <<>>]
         IN  RcvOK(w, N) /\ N.del = A.del /\ N.blamed = A.blamed
<1> DEFINE N == [A EXCEPT !.out = <<>>, !.found = <<>>]
<1>1. DOMAIN A = Fields
  BY DEF Handled, Sane
<1>2. DOMAIN N = Fields /\ SameBlocks(N, A) /\ N.objs = A.objs /\ N.blamed = A.blamed
  BY <1>1 DEF Fields, SameBlocks
<1>3. SameForks(N, A) /\ N.out = <<>> /\ N.found = <<>>
  BY <1>1 DEF Fields, SameForks
<1> HIDE DEF N
<1>4. Sane(w, N)
  BY <1>2 DEF Handled, Sane, SameBlocks
<1>5. Ready(w, N, {})
  BY <1>2 DEF Handled, Ready, SameBlocks
<1>6. Timed(w, N, N.del)
  BY <1>2, <1>3 DEF Handled, Timed, SameBlocks, SameForks
<1> QED BY <1>2, <1>3, <1>4, <1>5, <1>6 DEF RcvOK, Handled, Told, SameBlocks, N

LEMMA FlushNews ==
  ASSUME NEW w, NEW A, NEW R, Handled(w, A, R), NEW k \in Nat, NEW c, NEW q, NewsOK(w, k, R, c, q),
         NEW N, N.del = A.del, NEW p, p = IF k = 0 THEN q ELSE q \o A.out
  PROVE  NewsOK(w, k, N, c, p)
<1>1. CASE k = 0
  BY <1>1 DEF NewsOK
<1>2. CASE k # 0
  <2> DEFINE o == A.out
  <2>1. /\ o \in Seq(Event) /\ q \in Seq(Event) /\ p = q \o o /\ Causal(w, c.blocks, q)
        /\ c.blocks \cup AllNews(q) = R.del /\ Causal(w, R.del, o) /\ R.del \cup AllNews(o) = A.del
    BY <1>2, SMTT(30) DEF Handled, Told, NewsOK
  <2> HIDE DEF o
  <2>2. p \in Seq(Event)
    <3>1. q \o o \in Seq(Event)
      BY <2>1
    <3> QED BY <2>1, <3>1
  <2>3. Causal(w, c.blocks, p)
    BY <2>1, CausalConcat
  <2>4. AllNews(p) = AllNews(q) \cup AllNews(o)
    BY <2>1, NewsConcat
  <2> QED BY <1>2, <2>1, <2>2, <2>3, <2>4 DEF NewsOK
<1> QED BY <1>1, <1>2

LEMMA FlushBlame ==
  ASSUME NEW w, NEW A, NEW R, Handled(w, A, R), NEW k \in Nat, NEW q \in Seq(Event),
         NEW bp, NEW pp, NEW t, BlameOK(k, R, bp, pp, q, t), NEW N, N.blamed = A.blamed,
         NEW p, p = IF k = 0 THEN q ELSE q \o A.out
  PROVE  BlameOK(k, N, bp, pp, p, t) /\ BlameOK(k, N, bp, pp \cup (Range(A.found) \ bp), p, t)
<1>1. Range(A.found) \subseteq A.blamed /\ Range(A.found) \subseteq Source
  BY RangeFacts DEF Handled, Found
<1>2. CASE k = 0
  BY <1>1, <1>2 DEF BlameOK
<1>3. CASE k # 0
  <2> DEFINE o == A.out
  <2>1. /\ o \in Seq(Event) /\ p = q \o o
        /\ \A s \in A.blamed \ R.blamed : <<"blame", s>> \in Range(o)
    BY <1>3 DEF Handled, Told
  <2> HIDE DEF o
  <2>2. Range(p) = Range(q) \cup Range(o)
    <3>1. Range(q \o o) = Range(q) \cup Range(o)
      BY <2>1, ConcatFacts, SMTT(30)
    <3> QED BY <2>1, <3>1
  <2>3. /\ \A s \in R.blamed : s \in bp \/ <<"blame", s>> \in Range(q) \/ <<"blamed", s>> \in Range(t)
        /\ \A s \in pp : <<"blame", s>> \in Range(q) \/ <<"blamed", s>> \in Range(t)
        /\ bp \subseteq Source /\ pp \subseteq Source
    BY <1>3 DEF BlameOK
  <2>4. \A s \in A.blamed : s \in bp \/ <<"blame", s>> \in Range(p) \/ <<"blamed", s>> \in Range(t)
    BY <2>1, <2>2, <2>3, Zenon
  <2>5. \A s \in pp : <<"blame", s>> \in Range(p) \/ <<"blamed", s>> \in Range(t)
    BY <2>2, <2>3, Zenon
  <2> QED BY <1>1, <2>3, <2>4, <2>5, Zenon DEF BlameOK
<1> QED BY <1>2, <1>3

\* The next own block is new, and the only one above the last.
LEMMA StartBlockLemma ==
  ASSUME Graph(blk), GroupAssumption, NEW n \in Source, n \in Local, DOMAIN sending = Local,
         NEW prev \in DOMAIN blk, NEW req \in Request(blk),
         \A b \in DOMAIN blk : Src(b) = n => Height(b) <= Height(prev),
         StartBlock(n, prev, req)
  PROVE  /\ Grown(blk', blk, {n})
         /\ DOMAIN sending' = Local /\ \A m \in Local \ {n} : sending'[m] = sending[m]
         /\ \/ blk' = blk /\ sending' = sending /\ Height(prev) + 1 > MaxHeight
            \/ OwnOK(blk', n, sending'[n], prev)
<1> DEFINE h == Height(prev) + 1
           b == <<n, h, 1>>
<1>0. DOMAIN blk \subseteq Block /\ Height(prev) \in Nat /\ MaxHeight \in Nat
  BY SourceOfBlock DEF Graph, World, GroupAssumption
<1>1. CASE h > MaxHeight
  BY <1>1 DEF StartBlock, Grown
<1>2. CASE ~ (h > MaxHeight)
  <2>1. blk' = Signed(b, prev, req[1], req[2]) /\ sending' = [sending EXCEPT ![n] = b]
    BY <1>2 DEF StartBlock
  <2>2. /\ b \in Block /\ Src(b) = n /\ Height(b) = h /\ h \in Nat \ {0} /\ h <= MaxHeight
    BY <1>0, <1>2, SMTT(30) DEF Block, Src, Height
  <2>3. b \notin DOMAIN blk
    BY <1>0, <2>2
  <2>4. req[1] \in SUBSET DOMAIN blk /\ req[2] \in Source \cup {NoSource}
    BY DEF Request
  <2> HIDE DEF b
  <2>5. Added(blk', blk, b, prev, req[1], req[2])
    BY <2>1, <2>2, <2>3, <2>4 DEF Added, Signed, Cone
  <2>6. Grown(blk', blk, {n})
    BY <2>2, <2>5 DEF Grown
  <2>7. sending'[n] = b /\ DOMAIN sending' = Local /\ \A m \in Local \ {n} : sending'[m] = sending[m]
    BY <2>1
  <2>8. DOMAIN blk' = DOMAIN blk \cup {b}
    BY <2>1 DEF Signed, With
  <2>9. OwnOK(blk', n, b, prev)
    BY <2>2, <2>8 DEF OwnOK
  <2> QED BY <2>6, <2>7, <2>9
<1> QED BY <1>1, <1>2

\* add_block()
LEMMA AddBlockLemma ==
  ASSUME Graph(blk), GroupAssumption, NEW n \in Source, n \in Local, DOMAIN sending = Local, DOMAIN queue = Local,
         OwnOK(blk, n, sending[n], last[n]), queue[n] \in Seq(Request(blk)),
         NEW req \in Request(blk), AddBlock(n, req)
  PROVE  /\ Grown(blk', blk, {n})
         /\ DOMAIN sending' = Local /\ \A m \in Local \ {n} : sending'[m] = sending[m]
         /\ DOMAIN queue' = Local /\ \A m \in Local \ {n} : queue'[m] = queue[m]
         /\ OwnOK(blk', n, sending'[n], last[n]) /\ queue'[n] \in Seq(Request(blk))
<1>1. CASE sending[n] # Root
  <2>1. queue' = [queue EXCEPT ![n] = Append(@, req)] /\ blk' = blk /\ sending' = sending
    BY <1>1 DEF AddBlock
  <2>2. DOMAIN queue' = Local /\ queue'[n] = Append(queue[n], req) /\ \A m \in Local \ {n} : queue'[m] = queue[m]
    BY <2>1
  <2>3. Append(queue[n], req) \in Seq(Request(blk))
    BY SMTT(30)
  <2> QED BY <2>1, <2>2, <2>3 DEF Grown
<1>2. CASE sending[n] = Root
  <2>1. StartBlock(n, last[n], req) /\ queue' = queue
    BY <1>2 DEF AddBlock
  <2>2. last[n] \in DOMAIN blk /\ \A b \in DOMAIN blk : Src(b) = n => Height(b) <= Height(last[n])
    <3>1. last[n] \in DOMAIN blk /\ \A b \in DOMAIN blk : Src(b) = n => Height(b) <= Height(last[n]) \/ b = Root
      BY <1>2 DEF OwnOK
    <3>2. Height(last[n]) \in Nat /\ Height(Root) = 0
      BY <3>1, SourceOfBlock DEF Graph, World, Height, Root
    <3> QED BY <3>1, <3>2, SMTT(30)
  <2>3. /\ Grown(blk', blk, {n})
        /\ DOMAIN sending' = Local /\ \A m \in Local \ {n} : sending'[m] = sending[m]
        /\ \/ blk' = blk /\ sending' = sending
           \/ OwnOK(blk', n, sending'[n], last[n])
    BY <2>1, <2>2, StartBlockLemma
  <2> QED BY <2>1, <2>3
<1> QED BY <1>1, <1>2

\* What a step of one member leaves alone.
Other(m) ==
  /\ rcv'[m] = rcv[m] /\ sending'[m] = sending[m] /\ queue'[m] = queue[m] /\ last'[m] = last[m]
  /\ bproc'[m] = bproc[m] /\ pproof'[m] = pproof[m] /\ toChain'[m] = toChain[m]
  /\ toRcv'[m] = toRcv[m] /\ ch'[m] = ch[m]

LEMMA OwnGrown ==
  ASSUME NEW w, NEW v, NEW S, NEW m, NEW s, NEW l, m \notin S, Grown(v, w, S), OwnOK(w, m, s, l)
  PROVE  OwnOK(v, m, s, l)
<1>1. CASE v = w
  BY <1>1
<1>2. CASE v # w
  <2>1. PICK b, p, D, a : Src(b) \in S /\ Added(v, w, b, p, D, a)
    BY <1>2 DEF Grown
  <2>2. DOMAIN v = DOMAIN w \cup {b}
    BY <2>1 DEF Added, With
  <2> QED BY <2>1, <2>2 DEF OwnOK
<1> QED BY <1>1, <1>2

LEMMA OtherMembers ==
  ASSUME Inv, UNCHANGED setup, NEW S, Grown(blk', blk, S), NEW m \in Local, m \notin S, Other(m)
  PROVE  Member(m)'
<1>1. Member(m) /\ Graph(blk) /\ Extends(blk', blk)
  BY GrownGraph DEF Inv
<1>2. OwnOK(blk', m, sending'[m], last'[m])
  BY <1>1, OwnGrown DEF Member, Other
<1>3. Asks(m)' = Asks(m)
  BY DEF Asks
<1>4. RcvOK(blk', rcv'[m])
  BY <1>1, MoreBlocks DEF Member, Other
<1>5. queue'[m] \in Seq(Request(blk')) /\ toRcv'[m] \in Seq(Order(blk'))
  BY <1>1, MoreBlocks DEF Member, Other
<1>6. ChainOK(blk', ch'[m])
  BY <1>1, MoreBlocks DEF Member, Other
<1>7. NewsOK(blk', Asks(m)', rcv'[m], ch'[m], toChain'[m])
  BY <1>1, <1>3, MoreBlocks, SMTT(30) DEF Member, Other
<1>8. BlameOK(Asks(m)', rcv'[m], bproc'[m], pproof'[m], toChain'[m], toRcv'[m])
  BY <1>1, <1>3 DEF Member, Other
<1> QED BY <1>2, <1>4, <1>5, <1>6, <1>7, <1>8 DEF Member

LEMMA OneMember ==
  ASSUME Inv, UNCHANGED setup, NEW n \in Local, Grown(blk', blk, {n}), Shape',
         \A m \in Local \ {n} : Other(m), Member(n)'
  PROVE  Inv'
<1>1. Local' = Local
  BY DEF Local
<1>2. Graph(blk')
  BY GrownGraph DEF Inv
<1>3. ASSUME NEW m \in Local, m # n
      PROVE  Member(m)'
  BY <1>3, OtherMembers
<1>4. \A m \in Local' : Member(m)'
  BY <1>1, <1>3
<1>5. (setup \in Setups)'
  BY DEF Inv
<1> QED BY <1>2, <1>4, <1>5 DEF Inv

\* The group is one of those assumed.
LEMMA GroupFacts ==
  ASSUME Inv, NEW n \in Local
  PROVE  n \in Source /\ Asks(n) \in Nat /\ GroupAssumption /\ Member(n) /\ Graph(blk)
  BY GroupAssumption DEF Inv, GroupAssumption, Local, Asks

LEMMA FlushLemma ==
  ASSUME Inv, NEW n \in Local, NEW A, Handled(blk, A, rcv[n]), Flush(n, A)
  PROVE  /\ DOMAIN rcv' = Local /\ \A m \in Local \ {n} : rcv'[m] = rcv[m]
         /\ DOMAIN toChain' = Local /\ \A m \in Local \ {n} : toChain'[m] = toChain[m]
         /\ RcvOK(blk, rcv'[n]) /\ NewsOK(blk, Asks(n), rcv'[n], ch[n], toChain'[n])
         /\ BlameOK(Asks(n), rcv'[n], bproc[n], pproof[n], toChain'[n], toRcv[n])
         /\ BlameOK(Asks(n), rcv'[n], bproc[n], pproof[n] \cup (Range(A.found) \ bproc[n]), toChain'[n], toRcv[n])
<1> DEFINE N == [A EXCEPT !.out = <<>>, !.found = <<>>]
           p == IF Asks(n) = 0 THEN toChain[n] ELSE toChain[n] \o A.out
<1>1. DOMAIN rcv = Local /\ DOMAIN toChain = Local /\ Asks(n) \in Nat /\ Member(n)
  BY GroupFacts DEF Inv, Shape
<1>2. /\ DOMAIN rcv' = Local /\ rcv'[n] = N /\ \A m \in Local \ {n} : rcv'[m] = rcv[m]
      /\ DOMAIN toChain' = Local /\ toChain'[n] = p /\ \A m \in Local \ {n} : toChain'[m] = toChain[m]
  BY <1>1 DEF Flush
<1>3. RcvOK(blk, N) /\ N.del = A.del /\ N.blamed = A.blamed
  BY FlushReceiver
<1> HIDE DEF N
<1>4. /\ toChain[n] \in Seq(Event) /\ NewsOK(blk, Asks(n), rcv[n], ch[n], toChain[n])
      /\ BlameOK(Asks(n), rcv[n], bproc[n], pproof[n], toChain[n], toRcv[n])
  BY <1>1 DEF Member, NewsOK
<1> DEFINE k == Asks(n)
           R == rcv[n]
           c == ch[n]
           q == toChain[n]
           bp == bproc[n]
           pp == pproof[n]
           t == toRcv[n]
<1>5. p = IF k = 0 THEN q ELSE q \o A.out
  OBVIOUS
<1>6. NewsOK(blk, k, N, c, p)
  <2>1. NewsOK(blk, k, R, c, q) /\ Handled(blk, A, R) /\ k \in Nat
    BY <1>1, <1>4
  <2> HIDE DEF p, k, R, c, q
  <2> QED BY <1>3, <1>5, <2>1, FlushNews
<1>7. BlameOK(k, N, bp, pp, p, t) /\ BlameOK(k, N, bp, pp \cup (Range(A.found) \ bp), p, t)
  <2>1. BlameOK(k, R, bp, pp, q, t) /\ Handled(blk, A, R) /\ k \in Nat /\ q \in Seq(Event)
    BY <1>1, <1>4
  <2> HIDE DEF p, k, R, c, q, bp, pp, t
  <2> QED BY <1>3, <1>5, <2>1, FlushBlame
<1> QED BY <1>2, <1>3, <1>6, <1>7

\* The state of a member once its receiver has changed and more blocks exist.
LEMMA ReceiverStep ==
  ASSUME Inv, UNCHANGED setup, NEW n \in Local, Grown(blk', blk, {n}), UNCHANGED ch,
         RcvOK(blk, rcv'[n]), NewsOK(blk, Asks(n), rcv'[n], ch[n], toChain'[n]),
         BlameOK(Asks(n), rcv'[n], bproc'[n], pproof'[n], toChain'[n], toRcv'[n]),
         OwnOK(blk', n, sending'[n], last'[n]), queue'[n] \in Seq(Request(blk)), toRcv'[n] \in Seq(Order(blk))
  PROVE  Member(n)'
<1>1. Member(n) /\ Extends(blk', blk)
  BY GrownGraph DEF Inv
<1>2. Asks(n)' = Asks(n)
  BY DEF Asks
<1>3. RcvOK(blk', rcv'[n])
  BY <1>1, MoreBlocks
<1>4. queue'[n] \in Seq(Request(blk')) /\ toRcv'[n] \in Seq(Order(blk'))
  BY <1>1, MoreBlocks
<1>5. ChainOK(blk', ch'[n])
  BY <1>1, MoreBlocks DEF Member
<1>6. NewsOK(blk', Asks(n)', rcv'[n], ch'[n], toChain'[n])
  BY <1>1, <1>2, MoreBlocks, SMTT(30)
<1>7. BlameOK(Asks(n)', rcv'[n], bproc'[n], pproof'[n], toChain'[n], toRcv'[n])
  BY <1>2
<1> QED BY <1>3, <1>4, <1>5, <1>6, <1>7 DEF Member

LEMMA ReceiveBlockStep ==
  ASSUME Inv, NEW n \in Local, NEW b \in DOMAIN blk, ReceiveBlock(n, b)
  PROVE  Inv' /\ Grown(blk', blk, {n}) /\ ch' = ch /\ \A m \in Local \ {n} : Other(m)
<1> DEFINE A == RunScheduler(Written(CreateBlock(rcv[n], b), b))
<1>1. n \in Source /\ Asks(n) \in Nat /\ GroupAssumption /\ Member(n) /\ Graph(blk) /\ Shape
  BY GroupFacts DEF Inv
<1>2. Flush(n, A) /\ FoundForkProofs(n, A.found) /\ UNCHANGED <<setup, last, bproc, toRcv, ch>>
  BY DEF ReceiveBlock
<1>3. Handled(blk, A, rcv[n])
  BY <1>1, ArrivalHandled DEF Member
<1> HIDE DEF A
<1>4. /\ DOMAIN rcv' = Local /\ \A m \in Local \ {n} : rcv'[m] = rcv[m]
      /\ DOMAIN toChain' = Local /\ \A m \in Local \ {n} : toChain'[m] = toChain[m]
      /\ RcvOK(blk, rcv'[n]) /\ NewsOK(blk, Asks(n), rcv'[n], ch[n], toChain'[n])
      /\ BlameOK(Asks(n), rcv'[n], bproc[n], pproof[n] \cup (Range(A.found) \ bproc[n]), toChain'[n], toRcv[n])
  BY <1>2, <1>3, FlushLemma
<1>5. /\ DOMAIN pproof' = Local /\ pproof'[n] = pproof[n] \cup (Range(A.found) \ bproc[n])
      /\ \A m \in Local \ {n} : pproof'[m] = pproof[m]
  BY <1>1, <1>2 DEF FoundForkProofs, Shape
<1>6. /\ Grown(blk', blk, {n})
      /\ DOMAIN sending' = Local /\ \A m \in Local \ {n} : sending'[m] = sending[m]
      /\ DOMAIN queue' = Local /\ \A m \in Local \ {n} : queue'[m] = queue[m]
      /\ OwnOK(blk', n, sending'[n], last[n]) /\ queue'[n] \in Seq(Request(blk))
  <2>1. DOMAIN sending = Local /\ DOMAIN queue = Local /\ OwnOK(blk, n, sending[n], last[n]) /\ queue[n] \in Seq(Request(blk))
    BY <1>1 DEF Shape, Member
  <2>2. CASE Range(A.found) \cap bproc[n] = {}
    <3>1. UNCHANGED <<blk, sending, queue>>
      BY <1>2, <2>2 DEF FoundForkProofs
    <3> QED BY <2>1, <3>1 DEF Grown
  <2>3. CASE Range(A.found) \cap bproc[n] # {}
    <3> DEFINE s == CHOOSE s \in Range(A.found) \cap bproc[n] : TRUE
    <3>1. AddBlock(n, <<{}, s>>)
      BY <1>2, <2>3 DEF FoundForkProofs
    <3>2. s \in bproc[n] /\ bproc[n] \subseteq Source
      BY <1>1, <2>3 DEF Member, BlameOK
    <3> HIDE DEF s
    <3>3. <<{}, s>> \in Request(blk)
      BY <3>2 DEF Request
    <3> QED BY <1>1, <2>1, <3>1, <3>3, AddBlockLemma
  <2> QED BY <2>2, <2>3
<1>7. Member(n)'
  <2>1. /\ last'[n] = last[n] /\ bproc'[n] = bproc[n] /\ setup' = setup /\ ch' = ch
        /\ toRcv'[n] = toRcv[n] /\ toRcv[n] \in Seq(Order(blk))
    BY <1>1, <1>2 DEF Member
  <2> QED BY <1>4, <1>5, <1>6, <2>1, ReceiverStep
<1>8. Shape' /\ \A m \in Local \ {n} : Other(m)
  <2>1. Local' = Local
    BY <1>2 DEF Local
  <2> QED BY <1>1, <1>2, <1>4, <1>5, <1>6, <2>1 DEF Shape, Other
<1> QED BY <1>2, <1>6, <1>7, <1>8, OneMember

LEMMA GotForkProofStep ==
  ASSUME Inv, NEW n \in Local, NEW s \in Source, GotForkProof(n, s)
  PROVE  Inv' /\ Grown(blk', blk, {n}) /\ ch' = ch /\ \A m \in Local \ {n} : Other(m)
<1> DEFINE A == Blame([rcv[n] EXCEPT !.proof = @ \cup {s}], s)
<1>1. Member(n) /\ Shape
  BY DEF Inv
<1>2. Flush(n, A) /\ UNCHANGED <<setup, blk, sending, queue, last, bproc, pproof, toRcv, ch>>
  BY DEF GotForkProof
<1>3. Handled(blk, A, rcv[n])
  BY <1>1, ProofHandled DEF Member
<1> HIDE DEF A
<1>4. /\ DOMAIN rcv' = Local /\ \A m \in Local \ {n} : rcv'[m] = rcv[m]
      /\ DOMAIN toChain' = Local /\ \A m \in Local \ {n} : toChain'[m] = toChain[m]
      /\ RcvOK(blk, rcv'[n]) /\ NewsOK(blk, Asks(n), rcv'[n], ch[n], toChain'[n])
      /\ BlameOK(Asks(n), rcv'[n], bproc[n], pproof[n], toChain'[n], toRcv[n])
  BY <1>2, <1>3, FlushLemma
<1>5. Grown(blk', blk, {n})
  BY <1>2 DEF Grown
<1>6. Member(n)'
  <2>1. /\ OwnOK(blk', n, sending'[n], last'[n]) /\ queue'[n] \in Seq(Request(blk)) /\ toRcv'[n] \in Seq(Order(blk))
        /\ bproc'[n] = bproc[n] /\ pproof'[n] = pproof[n] /\ toRcv'[n] = toRcv[n]
    BY <1>1, <1>2 DEF Member
  <2> QED BY <1>2, <1>4, <1>5, <2>1, ReceiverStep
<1>7. Shape' /\ \A m \in Local \ {n} : Other(m)
  <2>1. Local' = Local
    BY <1>2 DEF Local
  <2> QED BY <1>1, <1>2, <1>4, <2>1 DEF Shape, Other
<1> QED BY <1>2, <1>5, <1>6, <1>7, OneMember

\* One message more that brings no block.
LEMMA QuietAppend ==
  ASSUME NEW w, NEW D, NEW q \in Seq(Event), Causal(w, D, q), NEW e \in Event, e[1] # "new"
  PROVE  /\ Append(q, e) \in Seq(Event) /\ Range(Append(q, e)) = Range(q) \cup {e}
         /\ Causal(w, D, Append(q, e)) /\ AllNews(Append(q, e)) = AllNews(q)
<1> DEFINE s == <<e>>
           c == Append(q, e)
<1>1. s \in Seq(Event) /\ Range(s) = {e}
  BY DEF Range
<1>2. c \in Seq(Event) /\ Range(c) = Range(q) \cup {e}
  BY AppendRange, SMTT(30)
<1>3. c = q \o s
  OBVIOUS
<1> HIDE DEF s, c
<1>4. Causal(w, D \cup AllNews(q), s) /\ AllNews(s) = {}
  BY <1>1, CausalQuiet
<1>5. Causal(w, D, c)
  BY <1>1, <1>3, <1>4, CausalConcat
<1>6. AllNews(c) = AllNews(q) \cup AllNews(s)
  BY <1>1, <1>3, NewsConcat
<1> QED BY <1>2, <1>4, <1>5, <1>6 DEF c

\* alarm() of the receiver
LEMMA StartStep ==
  ASSUME Inv, NEW n \in Local, Start(n)
  PROVE  Inv' /\ Grown(blk', blk, {n}) /\ ch' = ch /\ \A m \in Local \ {n} : Other(m)
<1>1. Member(n) /\ Shape /\ Asks(n) \in Nat
  BY GroupFacts DEF Inv
<1>2. /\ Asks(n) > 0 /\ toChain' = [toChain EXCEPT ![n] = Append(@, <<"start">>)]
      /\ UNCHANGED <<setup, blk, rcv, sending, queue, last, bproc, pproof, toRcv, ch>>
  BY DEF Start
<1> DEFINE q == toChain[n]
           e == <<"start">>
           c == Append(q, e)
           D == ch[n].blocks
<1>3. DOMAIN toChain' = Local /\ toChain'[n] = c /\ \A m \in Local \ {n} : toChain'[m] = toChain[m]
  BY <1>1, <1>2 DEF Shape
<1>4. q \in Seq(Event) /\ Causal(blk, D, q) /\ D \cup AllNews(q) = rcv[n].del
  BY <1>1, <1>2 DEF Member, NewsOK
<1>5. e \in Event /\ e[1] # "new"
  BY DEF Event
<1> HIDE DEF q, e, D
<1>6. c \in Seq(Event) /\ Range(c) = Range(q) \cup {e} /\ Causal(blk, D, c) /\ AllNews(c) = AllNews(q)
  BY <1>4, <1>5, QuietAppend, SMTT(30)
<1> HIDE DEF c
<1>7. NewsOK(blk, Asks(n), rcv'[n], ch[n], toChain'[n])
  <2>1. rcv'[n] = rcv[n] /\ ch[n].blocks = D
    BY <1>2 DEF D
  <2>2. /\ toChain'[n] \in Seq(Event) /\ Causal(blk, ch[n].blocks, toChain'[n])
        /\ ch[n].blocks \cup AllNews(toChain'[n]) = rcv'[n].del
    BY <1>3, <1>4, <1>6, <2>1
  <2> QED BY <1>1, <1>2, <2>2, SMTT(30) DEF NewsOK
<1>8. BlameOK(Asks(n), rcv'[n], bproc'[n], pproof'[n], toChain'[n], toRcv'[n])
  <2>1. BlameOK(Asks(n), rcv[n], bproc[n], pproof[n], q, toRcv[n])
    BY <1>1 DEF Member, q
  <2> QED BY <1>2, <1>3, <1>6, <2>1 DEF BlameOK
<1>9. Grown(blk', blk, {n})
  BY <1>2 DEF Grown
<1>10. Member(n)'
  <2>1. /\ OwnOK(blk', n, sending'[n], last'[n]) /\ queue'[n] \in Seq(Request(blk)) /\ toRcv'[n] \in Seq(Order(blk))
        /\ RcvOK(blk, rcv'[n])
    BY <1>1, <1>2 DEF Member
  <2> QED BY <1>2, <1>7, <1>8, <1>9, <2>1, ReceiverStep
<1>11. Shape' /\ \A m \in Local \ {n} : Other(m)
  <2>1. Local' = Local
    BY <1>2 DEF Local
  <2> QED BY <1>1, <1>2, <1>3, <2>1 DEF Shape, Other
<1> QED BY <1>2, <1>9, <1>10, <1>11, OneMember

\* The first of the requests that CatChainImpl has sent.
LEMMA FirstOrder ==
  ASSUME NEW w, NEW t \in Seq(Order(w)), t # <<>>
  PROVE  /\ Tail(t) \in Seq(Order(w)) /\ Range(t) = {Head(t)} \cup Range(Tail(t))
         /\ Head(t)[1] = "add" => Head(t)[2] \subseteq DOMAIN w /\ \A s : Head(t) # <<"blamed", s>>
         /\ Head(t)[1] = "blamed" => Head(t) = <<"blamed", Head(t)[2]>> /\ Head(t)[2] \in Source
<1>1. Tail(t) \in Seq(Order(w)) /\ Head(t) \in Order(w) /\ Range(t) = {Head(t)} \cup Range(Tail(t))
  BY TailRange
<1> DEFINE h == Head(t)
<1>2. h \in Order(w)
  BY <1>1
<1> HIDE DEF h
<1>3. /\ h[1] = "add" => h[2] \subseteq DOMAIN w /\ \A s : h # <<"blamed", s>>
      /\ h[1] = "blamed" => h = <<"blamed", h[2]>> /\ h[2] \in Source
  BY <1>2 DEF Order
<1> QED BY <1>1, <1>3 DEF h

\* add_block(), called by CatChainImpl
LEMMA HandleAddStep ==
  ASSUME Inv, NEW n \in Local, HandleAdd(n)
  PROVE  Inv' /\ Grown(blk', blk, {n}) /\ ch' = ch /\ \A m \in Local \ {n} : Other(m)
<1>1. n \in Source /\ Member(n) /\ Shape /\ GroupAssumption /\ Graph(blk)
  BY GroupFacts DEF Inv
<1> DEFINE t == toRcv[n]
           req == <<Head(t)[2], NoSource>>
<1>2. /\ t # <<>> /\ Head(t)[1] = "add" /\ toRcv' = [toRcv EXCEPT ![n] = Tail(t)] /\ AddBlock(n, req)
      /\ UNCHANGED <<setup, rcv, last, bproc, pproof, toChain, ch>>
  BY DEF HandleAdd
<1>3. /\ DOMAIN toRcv' = Local /\ toRcv'[n] = Tail(t) /\ \A m \in Local \ {n} : toRcv'[m] = toRcv[m]
  BY <1>1, <1>2 DEF Shape
<1>4. t \in Seq(Order(blk)) /\ BlameOK(Asks(n), rcv[n], bproc[n], pproof[n], toChain[n], t)
  BY <1>1 DEF Member
<1> HIDE DEF t
<1>5. /\ Tail(t) \in Seq(Order(blk)) /\ Range(t) = {Head(t)} \cup Range(Tail(t))
      /\ Head(t)[2] \subseteq DOMAIN blk /\ \A s : Head(t) # <<"blamed", s>>
  BY <1>2, <1>4, FirstOrder
<1>6. req \in Request(blk)
  BY <1>5 DEF Request
<1> HIDE DEF req
<1>7. /\ Grown(blk', blk, {n})
      /\ DOMAIN sending' = Local /\ \A m \in Local \ {n} : sending'[m] = sending[m]
      /\ DOMAIN queue' = Local /\ \A m \in Local \ {n} : queue'[m] = queue[m]
      /\ OwnOK(blk', n, sending'[n], last[n]) /\ queue'[n] \in Seq(Request(blk))
  <2>1. DOMAIN sending = Local /\ DOMAIN queue = Local /\ OwnOK(blk, n, sending[n], last[n]) /\ queue[n] \in Seq(Request(blk))
    BY <1>1 DEF Shape, Member
  <2> QED BY <1>1, <1>2, <1>6, <2>1, AddBlockLemma
<1>8. BlameOK(Asks(n), rcv'[n], bproc'[n], pproof'[n], toChain'[n], toRcv'[n])
  <2>1. \A s : <<"blamed", s>> \in Range(t) => <<"blamed", s>> \in Range(Tail(t))
    BY <1>5
  <2> QED BY <1>2, <1>3, <1>4, <2>1 DEF BlameOK
<1>9. Member(n)'
  <2>1. RcvOK(blk, rcv'[n]) /\ NewsOK(blk, Asks(n), rcv'[n], ch[n], toChain'[n]) /\ last'[n] = last[n]
    BY <1>1, <1>2 DEF Member
  <2> QED BY <1>2, <1>3, <1>5, <1>7, <1>8, <2>1, ReceiverStep
<1>10. Shape' /\ \A m \in Local \ {n} : Other(m)
  <2>1. Local' = Local
    BY <1>2 DEF Local
  <2> QED BY <1>1, <1>2, <1>3, <1>7, <2>1 DEF Shape, Other
<1> QED BY <1>2, <1>7, <1>9, <1>10, OneMember

\* on_blame_processed()
LEMMA HandleBlameProcessedStep ==
  ASSUME Inv, NEW n \in Local, HandleBlameProcessed(n)
  PROVE  Inv' /\ Grown(blk', blk, {n}) /\ ch' = ch /\ \A m \in Local \ {n} : Other(m)
<1>1. n \in Source /\ Member(n) /\ Shape /\ GroupAssumption /\ Graph(blk)
  BY GroupFacts DEF Inv
<1> DEFINE t == toRcv[n]
           s == Head(t)[2]
<1>2. /\ t # <<>> /\ Head(t)[1] = "blamed" /\ toRcv' = [toRcv EXCEPT ![n] = Tail(t)]
      /\ bproc' = [bproc EXCEPT ![n] = @ \cup {s}] /\ pproof' = [pproof EXCEPT ![n] = @ \ {s}]
      /\ IF s \in pproof[n] THEN AddBlock(n, <<{}, s>>) ELSE UNCHANGED <<blk, sending, queue>>
      /\ UNCHANGED <<setup, rcv, last, toChain, ch>>
  BY DEF HandleBlameProcessed
<1>3. /\ DOMAIN toRcv' = Local /\ toRcv'[n] = Tail(t) /\ \A m \in Local \ {n} : toRcv'[m] = toRcv[m]
      /\ DOMAIN bproc' = Local /\ bproc'[n] = bproc[n] \cup {s} /\ \A m \in Local \ {n} : bproc'[m] = bproc[m]
      /\ DOMAIN pproof' = Local /\ pproof'[n] = pproof[n] \ {s} /\ \A m \in Local \ {n} : pproof'[m] = pproof[m]
  <2> HIDE DEF s
  <2> QED BY <1>1, <1>2 DEF Shape
<1>4. t \in Seq(Order(blk)) /\ BlameOK(Asks(n), rcv[n], bproc[n], pproof[n], toChain[n], t)
  BY <1>1 DEF Member
<1> HIDE DEF t
<1>5. /\ Tail(t) \in Seq(Order(blk)) /\ Range(t) = {Head(t)} \cup Range(Tail(t))
      /\ Head(t) = <<"blamed", s>> /\ s \in Source
  BY <1>2, <1>4, FirstOrder
<1> HIDE DEF s
<1>6. /\ Grown(blk', blk, {n})
      /\ DOMAIN sending' = Local /\ \A m \in Local \ {n} : sending'[m] = sending[m]
      /\ DOMAIN queue' = Local /\ \A m \in Local \ {n} : queue'[m] = queue[m]
      /\ OwnOK(blk', n, sending'[n], last[n]) /\ queue'[n] \in Seq(Request(blk))
  <2>1. DOMAIN sending = Local /\ DOMAIN queue = Local /\ OwnOK(blk, n, sending[n], last[n]) /\ queue[n] \in Seq(Request(blk))
    BY <1>1 DEF Shape, Member
  <2>2. CASE s \in pproof[n]
    <3>1. <<{}, s>> \in Request(blk) /\ AddBlock(n, <<{}, s>>)
      BY <1>2, <1>5, <2>2 DEF Request
    <3> QED BY <1>1, <2>1, <3>1, AddBlockLemma
  <2>3. CASE s \notin pproof[n]
    BY <1>2, <2>1, <2>3 DEF Grown
  <2> QED BY <2>2, <2>3
<1>7. BlameOK(Asks(n), rcv'[n], bproc'[n], pproof'[n], toChain'[n], toRcv'[n])
  <2>1. \A x : <<"blamed", x>> \in Range(t) => x = s \/ <<"blamed", x>> \in Range(Tail(t))
    BY <1>5
  <2> QED BY <1>2, <1>3, <1>4, <1>5, <2>1 DEF BlameOK
<1>8. Member(n)'
  <2>1. RcvOK(blk, rcv'[n]) /\ NewsOK(blk, Asks(n), rcv'[n], ch[n], toChain'[n]) /\ last'[n] = last[n]
    BY <1>1, <1>2 DEF Member
  <2> QED BY <1>2, <1>3, <1>5, <1>6, <1>7, <2>1, ReceiverStep
<1>9. Shape' /\ \A m \in Local \ {n} : Other(m)
  <2>1. Local' = Local
    BY <1>2 DEF Local
  <2> QED BY <1>1, <1>2, <1>3, <1>6, <2>1 DEF Shape, Other
<1> QED BY <1>2, <1>6, <1>8, <1>9, OneMember

\* add_block_cont() .. add_block_cont_3()
LEMMA BlockStoredStep ==
  ASSUME Inv, NEW n \in Local, BlockStored(n)
  PROVE  Inv' /\ Grown(blk', blk, {n}) /\ ch' = ch /\ \A m \in Local \ {n} : Other(m)
<1> DEFINE b == sending[n]
           A == RunScheduler(Written(CreateBlock(rcv[n], b), b))
           q == queue[n]
<1>1. n \in Source /\ Asks(n) \in Nat /\ GroupAssumption /\ Member(n) /\ Graph(blk) /\ Shape
  BY GroupFacts DEF Inv
<1>2. /\ b # Root /\ Flush(n, A) /\ last' = [last EXCEPT ![n] = b]
      /\ queue' = [queue EXCEPT ![n] = IF q = <<>> THEN q ELSE Tail(q)]
      /\ IF q = <<>> \/ Height(b) = MaxHeight
         THEN sending' = [sending EXCEPT ![n] = Root] /\ UNCHANGED blk
         ELSE StartBlock(n, b, Head(q))
      /\ UNCHANGED <<setup, bproc, pproof, toRcv, ch>>
  BY DEF BlockStored
<1>3. OwnOK(blk, n, b, last[n]) /\ q \in Seq(Request(blk)) /\ toRcv[n] \in Seq(Order(blk))
  BY <1>1 DEF Member
<1>4. Handled(blk, A, rcv[n])
  BY <1>1, <1>3, ArrivalHandled DEF Member, OwnOK
<1> HIDE DEF A
<1>5. /\ DOMAIN rcv' = Local /\ \A m \in Local \ {n} : rcv'[m] = rcv[m]
      /\ DOMAIN toChain' = Local /\ \A m \in Local \ {n} : toChain'[m] = toChain[m]
      /\ RcvOK(blk, rcv'[n]) /\ NewsOK(blk, Asks(n), rcv'[n], ch[n], toChain'[n])
      /\ BlameOK(Asks(n), rcv'[n], bproc[n], pproof[n], toChain'[n], toRcv[n])
  BY <1>2, <1>4, FlushLemma
<1>6. /\ DOMAIN last' = Local /\ last'[n] = b /\ \A m \in Local \ {n} : last'[m] = last[m]
      /\ DOMAIN queue' = Local /\ queue'[n] = (IF q = <<>> THEN q ELSE Tail(q))
      /\ \A m \in Local \ {n} : queue'[m] = queue[m]
  <2> HIDE DEF b, q
  <2> QED BY <1>1, <1>2 DEF Shape
<1> HIDE DEF q
<1>7. queue'[n] \in Seq(Request(blk))
  BY <1>3, <1>6
<1>8. /\ b \in DOMAIN blk /\ Height(b) <= MaxHeight /\ Height(b) \in Nat /\ MaxHeight \in Nat
      /\ \A x \in DOMAIN blk : Src(x) = n => Height(x) <= Height(b)
  <2>1. /\ b \in DOMAIN blk /\ last[n] \in DOMAIN blk /\ Height(b) <= MaxHeight /\ Height(b) = Height(last[n]) + 1
        /\ \A x \in DOMAIN blk : Src(x) = n => Height(x) <= Height(last[n]) \/ x = b
    BY <1>2, <1>3 DEF OwnOK
  <2>2. MaxHeight \in Nat /\ \A x \in DOMAIN blk : Height(x) \in Nat
    BY <1>1, SourceOfBlock DEF Graph, World, GroupAssumption
  <2> QED BY <2>1, <2>2
<1>9. /\ Grown(blk', blk, {n}) /\ OwnOK(blk', n, sending'[n], b)
      /\ DOMAIN sending' = Local /\ \A m \in Local \ {n} : sending'[m] = sending[m]
  <2>1. CASE q = <<>> \/ Height(b) = MaxHeight
    <3>1. sending' = [sending EXCEPT ![n] = Root] /\ blk' = blk
      BY <1>2, <2>1
    <3>2. DOMAIN sending' = Local /\ sending'[n] = Root /\ \A m \in Local \ {n} : sending'[m] = sending[m]
      BY <1>1, <3>1 DEF Shape
    <3>3. Root \in DOMAIN blk /\ Height(Root) = 0
      BY <1>1 DEF Graph, World, Height, Root
    <3>4. OwnOK(blk, n, Root, b)
      <4> HIDE DEF b
      <4> QED BY <1>8, <3>3 DEF OwnOK
    <3> QED BY <3>1, <3>2, <3>4 DEF Grown
  <2>2. CASE ~ (q = <<>> \/ Height(b) = MaxHeight)
    <3>1. StartBlock(n, b, Head(q)) /\ Head(q) \in Request(blk) /\ DOMAIN sending = Local
      BY <1>1, <1>2, <1>3, <2>2, SMTT(30) DEF Shape
    <3>2. ~ (Height(b) + 1 > MaxHeight)
      BY <1>8, <2>2
    <3> HIDE DEF b
    <3> QED BY <1>1, <1>8, <3>1, <3>2, StartBlockLemma
  <2> QED BY <2>1, <2>2
<1> HIDE DEF b
<1>10. Member(n)'
  <2>1. bproc'[n] = bproc[n] /\ pproof'[n] = pproof[n] /\ toRcv'[n] = toRcv[n]
    BY <1>2
  <2> QED BY <1>2, <1>3, <1>5, <1>6, <1>7, <1>9, <2>1, ReceiverStep
<1>11. Shape' /\ \A m \in Local \ {n} : Other(m)
  <2>1. Local' = Local
    BY <1>2 DEF Local
  <2> QED BY <1>1, <1>2, <1>5, <1>6, <1>9, <2>1 DEF Shape, Other
<1> QED BY <1>2, <1>9, <1>10, <1>11, OneMember

-----------------------------------------------------------------------------
(* The blocks a member makes, and the newest blocks CatChainImpl knows *)

\* top_source_blocks_ has the highest block of every source not blamed, and
\* the top blocks and the dependencies of the block being made are such.
TopsOK(n, c) ==
  /\ Root \in c.blocks
  /\ \A s \in Source \ c.blamed :
       /\ c.topsrc[s] \in c.blocks /\ (c.topsrc[s] = Root \/ Src(c.topsrc[s]) = s)
       /\ \A x \in c.blocks \ {Root} : Src(x) = s => Height(x) < Height(c.topsrc[s]) \/ x = c.topsrc[s]
  /\ \A b \in c.top : b # Root /\ Src(b) \notin c.blamed \cup {n} /\ b = c.topsrc[Src(b)]
  /\ Apart(c.deps, n) /\ Clear(c.deps, c.blamed) /\ c.deps \subseteq c.blocks

\* The blocks of n: made, being sent, and to be made.
Making(w, n, s, l, q, bp, E, I) ==
  /\ SendingOK(w, n, s, l, E, I) /\ (s = Root => q = <<>> \/ Height(l) >= MaxHeight)
  /\ MadeOK(w, n, bp) /\ QueueOK(w, n, bp, E, q)


-----------------------------------------------------------------------------
(* The next block *)

\* add_block_cont(): the next block of n is made from a request.
LEMMA StartBlockOwn ==
  ASSUME Graph(blk), Chains(blk), GroupAssumption, NEW n \in Source, n \in Local, DOMAIN sending = Local,
         NEW prev \in DOMAIN blk, prev = Root \/ Src(prev) = n, Height(prev) + 1 <= MaxHeight,
         \A y \in DOMAIN blk : Src(y) = n => Height(y) <= Height(prev),
         NEW bp, NEW E, NEW I, prev \in E \cup I, MadeOK(blk, n, bp),
         NEW req \in Request(blk), Apart(req[1], n), req[1] \subseteq E, req[2] \in bp \cup {NoSource},
         Clear(req[1], Accused(blk, n)), Clear(req[1], {req[2]}),
         NEW q, QueueOK(blk, n, bp, E, q), \A j \in 1 .. Len(q) : Clear(q[j][1], {req[2]}),
         StartBlock(n, prev, req)
  PROVE  Chains(blk') /\ Making(blk', n, sending'[n], prev, q, bp, E, I)
<1> DEFINE h == Height(prev) + 1
           b == <<n, h, 1>>
<1>1. DOMAIN blk \subseteq Block /\ Height(prev) \in Nat /\ MaxHeight \in Nat /\ World(blk)
  BY SourceOfBlock DEF Graph, World, GroupAssumption
<1>2. blk' = Signed(b, prev, req[1], req[2]) /\ sending' = [sending EXCEPT ![n] = b]
  BY <1>1, SMTT(30) DEF StartBlock
<1>3. b \in Block /\ Src(b) = n /\ Height(b) = h /\ b # Root
  BY <1>1, SMTT(30) DEF Block, Src, Height, Root
<1>4. b \notin DOMAIN blk
  BY <1>1, <1>3, SMTT(30)
<1>5. req[1] \in SUBSET DOMAIN blk /\ req[2] \in Source \cup {NoSource}
  BY DEF Request
<1> HIDE DEF b
<1>6. Added(blk', blk, b, prev, req[1], req[2])
  BY <1>2, <1>3, <1>4, <1>5 DEF Added, Signed, Cone
<1>7. AfterOwn(blk', blk, n, b, prev, req[1], req[2], bp)
  <2>1. NewOwn(blk', blk, n, b, prev, req[1], req[2], bp)
    BY <1>1, <1>3, <1>6 DEF NewOwn
  <2> QED BY <2>1, OwnAdded
<1>8. sending'[n] = b
  BY <1>2
<1>9. QueueOK(blk', n, bp, E, q)
  BY <1>7 DEF AfterOwn
<1>10. SendingOK(blk', n, b, prev, E, I)
  BY <1>3, <1>7 DEF SendingOK, AfterOwn
<1> QED BY <1>3, <1>7, <1>8, <1>9, <1>10 DEF Making, AfterOwn

\* add_block()
LEMMA AddBlockOwn ==
  ASSUME Graph(blk), Chains(blk), GroupAssumption, NEW n \in Source, n \in Local,
         DOMAIN sending = Local, DOMAIN queue = Local, OwnOK(blk, n, sending[n], last[n]),
         queue[n] \in Seq(Request(blk)), NEW bp, NEW E, NEW I,
         Making(blk, n, sending[n], last[n], queue[n], bp, E, I),
         NEW req \in Request(blk), RequestOK(n, bp, E, req), AddBlock(n, req)
  PROVE  Chains(blk') /\ Making(blk', n, sending'[n], last[n], queue'[n], bp, E, I)
<1> DEFINE l == last[n]
           q == queue[n]
<1>1. /\ SendingOK(blk, n, sending[n], l, E, I) /\ (sending[n] = Root => q = <<>> \/ Height(l) >= MaxHeight)
      /\ MadeOK(blk, n, bp) /\ QueueOK(blk, n, bp, E, q)
  BY DEF Making
<1>2. CASE sending[n] # Root
  <2> DEFINE c == Append(q, req)
  <2>1. queue' = [queue EXCEPT ![n] = Append(@, req)] /\ blk' = blk /\ sending' = sending
    BY <1>2 DEF AddBlock
  <2>2. queue'[n] = c
    BY <2>1
  <2>3. q \in Seq(Request(blk))
    OBVIOUS
  <2>4. c = Append(q, req)
    OBVIOUS
  <2> HIDE DEF c, q
  <2>5. AppendOf(c, q, req)
    BY <2>3, <2>4, AppendIs
  <2>6. QueueOK(blk, n, bp, E, c)
    BY <1>1, <2>5, QueueAppend
  <2> QED BY <1>1, <1>2, <2>1, <2>2, <2>6 DEF Making
<1>3. CASE sending[n] = Root
  <2>1. StartBlock(n, l, req) /\ queue' = queue
    BY <1>3 DEF AddBlock
  <2>2. /\ l \in DOMAIN blk /\ Height(l) \in Nat /\ MaxHeight \in Nat
        /\ \A b \in DOMAIN blk : Src(b) = n => Height(b) <= Height(l)
    <3>1. l \in DOMAIN blk /\ \A b \in DOMAIN blk : Src(b) = n => Height(b) <= Height(l) \/ b = Root
      BY <1>3 DEF OwnOK
    <3>2. Height(l) \in Nat /\ Height(Root) = 0 /\ MaxHeight \in Nat
      BY <3>1, SourceOfBlock DEF Graph, World, Height, Root, GroupAssumption
    <3> QED BY <3>1, <3>2, SMTT(30)
  <2>3. CASE Height(l) + 1 > MaxHeight
    <3>1. blk' = blk /\ sending' = sending
      BY <2>1, <2>3 DEF StartBlock
    <3> QED BY <2>1, <3>1
  <2>4. CASE ~ (Height(l) + 1 > MaxHeight)
    <3>1. q = <<>> /\ Height(l) + 1 <= MaxHeight
      BY <1>1, <1>3, <2>2, <2>4, SMTT(30)
    <3>2. Accused(blk, n) \subseteq bp \cup {NoSource}
      BY <1>1 DEF MadeOK, Accused
    <3>3. /\ Apart(req[1], n) /\ req[1] \subseteq E /\ req[2] \in bp \cup {NoSource}
          /\ Clear(req[1], Accused(blk, n)) /\ Clear(req[1], {req[2]})
      BY <3>2 DEF RequestOK, Clear
    <3>4. \A j \in 1 .. Len(q) : Clear(q[j][1], {req[2]})
      <4>1. Len(q) = 0
        BY <3>1, SMTT(30)
      <4> QED BY <4>1, SMTT(30)
    <3>5. l \in E \cup I /\ (l = Root \/ Src(l) = n)
      BY <1>1 DEF SendingOK
    <3> HIDE DEF l, q
    <3>6. Chains(blk') /\ Making(blk', n, sending'[n], l, q, bp, E, I)
      BY <1>1, <2>1, <2>2, <3>1, <3>3, <3>4, <3>5, StartBlockOwn
    <3> QED BY <2>1, <3>6 DEF l, q
  <2> QED BY <2>3, <2>4
<1> QED BY <1>2, <1>3

-----------------------------------------------------------------------------
(* The newest blocks *)

\* on_new_block(): a block of a source that is not blamed is above those that
\* are known, so the previous block was the newest one.
LEMMA TopsNew ==
  ASSUME Graph(blk), Chains(blk), NEW n, NEW c, ChainOK(blk, c), TopsOK(n, c),
         NEW b \in DOMAIN blk \ c.blocks, RefsIn(blk, b) \subseteq c.blocks,
         Src(b) \notin c.blamed => \A x \in c.blocks : Src(x) = Src(b) => Height(x) < Height(b),
         NEW d, d.blocks = c.blocks \cup {b}, d.top = TopAfterNew(n, c, b), d.deps = c.deps,
         d.blamed = c.blamed,
         d.topsrc = IF Src(b) \notin c.blamed THEN [c.topsrc EXCEPT ![Src(b)] = b] ELSE c.topsrc
  PROVE  TopsOK(n, d)
<1>1. /\ b # Root /\ Src(b) \in Source /\ DOMAIN c.topsrc = Source
      /\ \A x \in DOMAIN blk : Height(x) \in Nat /\ (x # Root => Src(x) \in Source /\ Height(x) > 0)
  BY SourceOfBlock, SMTT(30) DEF Graph, World, TopsOK, ChainOK
<1>2. Refs(b) = RefsIn(blk, b) /\ Prev(b) = blk[b].prev /\ Prev(b) \in RefsIn(blk, b)
  BY DEF Refs, RefsIn, Prev
<1>3. ASSUME NEW x \in c.top, Src(x) = Src(b), Src(b) \notin c.blamed
      PROVE  x \in Refs(b)
  <2>1. /\ x # Root /\ x = c.topsrc[Src(b)] /\ x \in c.blocks /\ x \in DOMAIN blk
        /\ \A y \in c.blocks \ {Root} : Src(y) = Src(b) => Height(y) < Height(x) \/ y = x
    BY <1>1, <1>3, SMTT(30) DEF TopsOK, ChainOK
  <2>2. /\ Prev(b) \in c.blocks /\ Height(b) = Height(Prev(b)) + 1 /\ Height(x) < Height(b)
        /\ Prev(b) \in DOMAIN blk
    BY <1>1, <1>2, <1>3, <2>1 DEF Graph, Cones, ChainOK
  <2>3. Prev(b) = Root \/ Src(Prev(b)) = Src(b)
    BY <1>1, <1>2 DEF Chains
  <2>4. Height(x) \in Nat /\ Height(x) > 0 /\ Height(Prev(b)) \in Nat /\ Height(Root) = 0
    BY <1>1, <2>1, <2>2 DEF Height, Root
  <2>5. Prev(b) # Root
    BY <2>2, <2>4, SMTT(30)
  <2>6. Prev(b) = x
    BY <2>1, <2>2, <2>3, <2>4, <2>5, SMTT(30)
  <2> QED BY <1>2, <2>6
<1>4. ASSUME NEW s \in Source \ d.blamed
      PROVE  /\ d.topsrc[s] \in d.blocks /\ (d.topsrc[s] = Root \/ Src(d.topsrc[s]) = s)
             /\ \A x \in d.blocks \ {Root} : Src(x) = s => Height(x) < Height(d.topsrc[s]) \/ x = d.topsrc[s]
  <2>1. CASE s = Src(b)
    <3>1. Src(b) \notin c.blamed /\ d.topsrc[s] = b
      BY <1>1, <1>4, <2>1
    <3> QED BY <2>1, <3>1
  <2>2. CASE s # Src(b)
    <3>1. d.topsrc[s] = c.topsrc[s]
      BY <1>1, <2>2
    <3> QED BY <1>4, <2>2, <3>1 DEF TopsOK
  <2> QED BY <2>1, <2>2
<1>5. ASSUME NEW x \in d.top
      PROVE  x # Root /\ Src(x) \notin d.blamed \cup {n} /\ x = d.topsrc[Src(x)]
  <2>1. CASE Src(b) \in c.blamed
    BY <1>5, <2>1 DEF TopAfterNew, TopsOK
  <2>2. CASE Src(b) \notin c.blamed
    <3>1. (x \in c.top /\ x \notin Refs(b)) \/ (x = b /\ b \notin Own(n))
      BY <1>5, <2>2 DEF TopAfterNew
    <3>2. CASE x \in c.top /\ x \notin Refs(b)
      <4>1. Src(x) # Src(b)
        BY <1>3, <2>2, <3>2
      <4>2. d.topsrc[Src(x)] = c.topsrc[Src(x)]
        BY <1>1, <4>1, SMTT(30)
      <4> QED BY <3>2, <4>2 DEF TopsOK
    <3>3. CASE x = b /\ b \notin Own(n)
      <4>1. Src(b) # n
        BY <3>3 DEF Own
      <4>2. d.topsrc[Src(b)] = b
        BY <1>1, <2>2
      <4> QED BY <1>1, <2>2, <3>3, <4>1, <4>2
    <3> QED BY <3>1, <3>2, <3>3
  <2> QED BY <2>1, <2>2
<1>6. Root \in d.blocks /\ Apart(d.deps, n) /\ Clear(d.deps, d.blamed) /\ d.deps \subseteq d.blocks
  BY DEF TopsOK
<1> QED BY <1>4, <1>5, <1>6 DEF TopsOK

\* on_blame()
Blaming(n, s, c, d) ==
  /\ c = ch[n] /\ ChainOK(blk, c) /\ TopsOK(n, c) /\ s \in Source
  /\ d.blocks = c.blocks /\ d.blamed = c.blamed \cup {s} /\ d.top = TopAfterBlame(n, d.blamed)
  /\ d.deps = DepsAfterBlame(n, s) /\ \A t \in Source \ {s} : d.topsrc[t] = c.topsrc[t]
LEMMA TopsBlame ==
  ASSUME NEW n, NEW s, NEW c, NEW d, Blaming(n, s, c, d)
  PROVE  TopsOK(n, d)
<1> DEFINE blamed == d.blamed
<1>1. /\ c = ch[n] /\ TopsOK(n, c) /\ s \in Source
      /\ d.blocks = c.blocks /\ blamed = c.blamed \cup {s} /\ d.top = TopAfterBlame(n, blamed)
      /\ d.deps = DepsAfterBlame(n, s) /\ \A t \in Source \ {s} : d.topsrc[t] = c.topsrc[t]
  BY DEF Blaming
<1>3. ASSUME NEW t \in Source \ d.blamed
      PROVE  /\ d.topsrc[t] \in d.blocks /\ (d.topsrc[t] = Root \/ Src(d.topsrc[t]) = t)
             /\ \A x \in d.blocks \ {Root} : Src(x) = t => Height(x) < Height(d.topsrc[t]) \/ x = d.topsrc[t]
  <2>1. t # s /\ t \notin c.blamed /\ d.topsrc[t] = c.topsrc[t]
    BY <1>1
  <2> QED BY <1>1, <2>1 DEF TopsOK
<1>4. ASSUME NEW x \in d.top
      PROVE  x # Root /\ Src(x) \notin d.blamed \cup {n} /\ x = d.topsrc[Src(x)]
  <2>1. PICK t \in Source \ {n} : x = Newest(n, t, blamed) /\ x # Root
    BY <1>1, <1>4 DEF TopAfterBlame
  <2>2. t \notin blamed /\ x = c.topsrc[t]
    BY <1>1, <2>1 DEF Newest
  <2>3. Src(x) = t
    BY <1>1, <2>1, <2>2 DEF TopsOK
  <2> QED BY <1>1, <2>1, <2>2, <2>3
<1>5. Root \in d.blocks /\ Apart(d.deps, n) /\ Clear(d.deps, d.blamed) /\ d.deps \subseteq d.blocks
  BY <1>1 DEF TopsOK, DepsAfterBlame, Apart, Clear
<1> QED BY <1>3, <1>4, <1>5 DEF TopsOK

\* send_process(): what is chosen among the top blocks becomes the
\* dependencies of the next block.
LEMMA TopsSend ==
  ASSUME World(blk), NEW n, NEW c, ChainOK(blk, c), TopsOK(n, c), NEW V \in Choice(c)
  PROVE  TopsOK(n, SendProcess(c, V)) /\ SendProcess(c, V).blamed = c.blamed
<1> DEFINE A == SendProcess(c, V)
<1>1. V \subseteq c.top /\ DOMAIN c = ChainFields /\ c.top \subseteq DOMAIN blk
  BY DEF Choice, kSubset, ChainOK
<1>2. /\ A.blocks = c.blocks /\ A.top = c.top \ V /\ A.deps = V
      /\ A.topsrc = c.topsrc /\ A.blamed = c.blamed
  BY <1>1 DEF SendProcess, ChainFields
<1> HIDE DEF A
<1>3. ASSUME NEW x \in V
      PROVE  /\ x # Root /\ Src(x) \notin c.blamed \cup {n} /\ x = c.topsrc[Src(x)]
             /\ Src(x) \in Source /\ x \in c.blocks
  <2>1. x # Root /\ Src(x) \notin c.blamed \cup {n} /\ x = c.topsrc[Src(x)]
    BY <1>1, <1>3 DEF TopsOK
  <2>2. Src(x) \in Source
    BY <1>1, <2>1, SourceOfBlock DEF World
  <2> QED BY <2>1, <2>2 DEF TopsOK
<1>4. Apart(V, n) /\ Clear(V, c.blamed) /\ V \subseteq c.blocks
  BY <1>3 DEF Apart, Clear
<1>5. TopsOK(n, A)
  BY <1>2, <1>4 DEF TopsOK
<1> QED BY <1>2, <1>5 DEF A

LEMMA TopsSame ==
  ASSUME NEW n, NEW c, TopsOK(n, c), NEW d, d.blocks = c.blocks, d.top = c.top, d.topsrc = c.topsrc,
         d.blamed = c.blamed, d.deps = c.deps \/ d.deps = {}
  PROVE  TopsOK(n, d)
<1>1. Apart(d.deps, n) /\ Clear(d.deps, d.blamed) /\ d.deps \subseteq d.blocks
  BY DEF TopsOK, Apart, Clear
<1> QED BY <1>1 DEF TopsOK

=============================================================================

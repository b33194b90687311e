------------------------- MODULE CatchainOwnProofs -------------------------
(***************************************************************************)
(* The blocks a member makes are acceptable to every member, for any       *)
(* group: what is known of the requests on their way through CatChainImpl, *)
(* its mailbox and the queue of the receiver.                              *)
(***************************************************************************)
EXTENDS CatchainProofs

\* Zenon proves most steps, which are about sets and functions; those that it
\* does not find, arithmetic above all, name SMT.
USE ZenonT(20), SMTT(30)

-----------------------------------------------------------------------------
(* The inductive invariant *)

\* What is known of a member, besides Inv.
OwnMember(n) ==
  /\ Slots(rcv[n], rcv[n].objs) /\ Deep(rcv[n].del)
  /\ Making(blk, n, sending[n], last[n], queue[n], bproc[n], rcv[n].del, rcv[n].ill)
  /\ OrdersOK(n, bproc[n], ch[n].blamed, rcv[n].del, toRcv[n])
  /\ TopsOK(n, ch[n]) /\ Rising(ch[n].blamed, ch[n].blocks, toChain[n])
OwnInv == Chains(blk) /\ \A n \in Local : OwnMember(n)

-----------------------------------------------------------------------------
(* A member *)

\* A member that does nothing.
LEMMA OwnOthers ==
  ASSUME Inv, OwnInv, NEW S, Grown(blk', blk, S), NEW m \in Local, m \notin S, Other(m)
  PROVE  OwnMember(m)'
<1> DEFINE s == sending[m]
           l == last[m]
           q == queue[m]
           bp == bproc[m]
           E == rcv[m].del
           I == rcv[m].ill
           v == blk'
<1>1. OwnMember(m) /\ s \in DOMAIN blk
  BY DEF OwnInv, Inv, Member, OwnOK
<1>2. Making(blk, m, s, l, q, bp, E, I)
  BY <1>1 DEF OwnMember
<1>3. Grown(v, blk, S)
  OBVIOUS
<1> HIDE DEF s, l, q, bp, E, I, v
<1>4. /\ SendingOK(blk, m, s, l, E, I) => SendingOK(v, m, s, l, E, I)
      /\ MadeOK(blk, m, bp) => MadeOK(v, m, bp)
      /\ QueueOK(blk, m, bp, E, q) => QueueOK(v, m, bp, E, q)
  BY <1>1, <1>3, OthersGrown
<1>5. Making(v, m, s, l, q, bp, E, I)
  BY <1>2, <1>4 DEF Making
<1>6. Making(blk', m, sending'[m], last'[m], queue'[m], bproc'[m], rcv'[m].del, rcv'[m].ill)
  BY <1>5 DEF Other, s, l, q, bp, E, I, v
<1> QED BY <1>1, <1>6 DEF OwnMember, Other

LEMMA OwnOneMember ==
  ASSUME Inv, OwnInv, UNCHANGED setup, NEW n \in Local, Grown(blk', blk, {n}), Chains(blk'),
         \A m \in Local \ {n} : Other(m), OwnMember(n)'
  PROVE  OwnInv'
<1>1. Local' = Local
  BY DEF Local
<1>2. ASSUME NEW m \in Local, m # n
      PROVE  OwnMember(m)'
  BY <1>2, OwnOthers
<1>3. \A m \in Local' : OwnMember(m)'
  BY <1>1, <1>2
<1> QED BY <1>3 DEF OwnInv

\* A handler of the receiver ends in A, and tells what it has found.
LEMMA FlushOwn ==
  ASSUME Inv, NEW n \in Local, OwnMember(n), NEW A, Handled(blk, A, rcv[n]), Keeps(A, rcv[n]), Flush(n, A)
  PROVE  /\ Slots(rcv'[n], rcv'[n].objs) /\ Deep(rcv'[n].del)
         /\ rcv'[n].del = A.del /\ rcv'[n].ill = A.ill /\ rcv'[n].wait = A.wait
         /\ rcv[n].del \subseteq A.del /\ rcv[n].ill \subseteq A.ill
         /\ Rising(ch[n].blamed, ch[n].blocks, toChain'[n])
<1> DEFINE R == rcv[n]
           N == [A EXCEPT !.out = <<>>, !.found = <<>>]
           q == toChain[n]
           B == ch[n].blamed
           D == ch[n].blocks
           o == A.out
           t == toRcv[n]
<1>1. Member(n) /\ Asks(n) \in Nat /\ DOMAIN rcv = Local /\ DOMAIN toChain = Local
  BY GroupFacts DEF Inv, Shape
<1>2. rcv'[n] = N /\ toChain'[n] = IF Asks(n) = 0 THEN q ELSE q \o o
  BY <1>1 DEF Flush
<1>3. DOMAIN A = Fields
  BY DEF Handled, Sane
<1>4. /\ N.del = A.del /\ N.ill = A.ill /\ N.wait = A.wait /\ N.objs = A.objs
      /\ N.proof = A.proof /\ N.blamed = A.blamed /\ N.slot = A.slot
  BY <1>3 DEF Fields
<1> HIDE DEF N
<1>5. Orderly(R, R.blamed, R.del)
  <2>1. Told(blk, R, R.blamed, R.del) /\ R.out = <<>>
    BY <1>1, NothingToldYet DEF Member, RcvOK
  <2>2. Slots(R, R.objs) /\ Deep(R.del)
    BY DEF OwnMember
  <2>3. Len(<<>>) = 0 /\ 1 .. 0 = {}
    OBVIOUS
  <2>4. Rising(R.blamed, R.del, R.out)
    BY <2>1, <2>3 DEF Rising
  <2> QED BY <2>1, <2>2, <2>4 DEF Orderly
<1>6. Orderly(A, R.blamed, R.del) /\ R.del \subseteq A.del /\ R.ill \subseteq A.ill
  BY <1>5 DEF Keeps
<1>7. Slots(N, N.objs) /\ Deep(N.del)
  BY <1>4, <1>6 DEF Orderly, Slots, SlotsBut
<1>8. /\ q \in Seq(Event) /\ Rising(B, D, q) /\ t \in Seq(Order(blk))
      /\ Asks(n) > 0 => D \cup AllNews(q) = R.del
  BY <1>1 DEF OwnMember, Member, NewsOK
<1>9. Asks(n) > 0 => \A s \in R.blamed : s \in bproc[n] \/ <<"blame", s>> \in Range(q) \/ <<"blamed", s>> \in Range(t)
  BY <1>1 DEF Member, BlameOK
<1>10. bproc[n] \subseteq B /\ \A j \in 1 .. Len(t) : t[j][1] = "blamed" => t[j][2] \in B
  BY DEF OwnMember, OrdersOK
<1>11. o \in Seq(Event) /\ Rising(R.blamed, R.del, o)
  BY <1>6 DEF Orderly, Told
<1>12. Rising(B, D, toChain'[n])
  <2>1. CASE Asks(n) = 0
    BY <1>2, <1>8, <2>1
  <2>2. CASE Asks(n) # 0
    <3> DEFINE C == R.blamed
               E == R.del
               p == q \o o
    <3>1. Asks(n) > 0 /\ toChain'[n] = p
      BY <1>1, <1>2, <2>2
    <3>2. ASSUME NEW s \in C
          PROVE  s \in B \cup AllBlames(q)
      <4>1. CASE s \in bproc[n]
        BY <1>10, <4>1
      <4>2. CASE <<"blame", s>> \in Range(q)
        <5> HIDE DEF q
        <5>1. PICK j \in 1 .. Len(q) : q[j] = <<"blame", s>>
          BY <1>8, <4>2, RangeFacts, SMTT(30)
        <5>2. q[j][1] = "blame" /\ q[j][2] = s
          BY <5>1
        <5> QED BY <5>2 DEF AllBlames, Blames
      <4>3. CASE <<"blamed", s>> \in Range(t)
        <5> HIDE DEF t
        <5>1. PICK j \in 1 .. Len(t) : t[j] = <<"blamed", s>>
          BY <1>8, <4>3, RangeFacts, SMTT(30)
        <5>2. t[j][1] = "blamed" /\ t[j][2] = s
          BY <5>1
        <5> QED BY <1>10, <5>2
      <4> QED BY <1>9, <3>1, <4>1, <4>2, <4>3
    <3>3. E = D \cup AllNews(q) /\ Rising(C, E, o) /\ C \subseteq B \cup AllBlames(q) /\ p = q \o o
      BY <1>8, <1>11, <3>1, <3>2
    <3> HIDE DEF C, E, p, q, o, B, D
    <3>4. Rising(B, D, p)
      BY <1>8, <1>11, <3>3, RisingConcat
    <3> QED BY <3>1, <3>4
  <2> QED BY <2>1, <2>2
<1> QED BY <1>2, <1>4, <1>6, <1>7, <1>12

-----------------------------------------------------------------------------
(* The handlers of the receiver *)

LEMMA MakingMore ==
  ASSUME NEW w, NEW n, NEW s, NEW l, NEW q, NEW bp, NEW E, NEW I, Making(w, n, s, l, q, bp, E, I),
         NEW cp, NEW F, NEW J, bp \subseteq cp, E \subseteq F, I \subseteq J
  PROVE  Making(w, n, s, l, q, cp, F, J)
<1>1. MadeOK(w, n, cp) /\ QueueOK(w, n, cp, F, q)
  BY MoreDelivered DEF Making
<1>2. SendingOK(w, n, s, l, F, J)
  BY DEF Making, SendingOK
<1> QED BY <1>1, <1>2 DEF Making

LEMMA OwnReceiver ==
  ASSUME Inv, OwnInv, UNCHANGED <<setup, ch>>, NEW n \in Local, Grown(blk', blk, {n}), Chains(blk'),
         \A m \in Local \ {n} : Other(m), Slots(rcv'[n], rcv'[n].objs), Deep(rcv'[n].del),
         Making(blk', n, sending'[n], last'[n], queue'[n], bproc'[n], rcv'[n].del, rcv'[n].ill),
         OrdersOK(n, bproc'[n], ch[n].blamed, rcv'[n].del, toRcv'[n]),
         Rising(ch[n].blamed, ch[n].blocks, toChain'[n])
  PROVE  OwnInv'
<1>1. OwnMember(n)
  BY DEF OwnInv
<1>2. OwnMember(n)'
  BY <1>1 DEF OwnMember
<1> QED BY <1>2, OwnOneMember

\* What is known of a member.
LEMMA OwnFacts ==
  ASSUME Inv, OwnInv, NEW n \in Local
  PROVE  /\ n \in Source /\ GroupAssumption /\ Graph(blk) /\ Chains(blk) /\ Member(n) /\ OwnMember(n)
         /\ DOMAIN sending = Local /\ DOMAIN queue = Local /\ DOMAIN rcv = Local /\ DOMAIN last = Local
         /\ DOMAIN bproc = Local /\ DOMAIN toChain = Local /\ DOMAIN toRcv = Local /\ DOMAIN ch = Local
         /\ OwnOK(blk, n, sending[n], last[n]) /\ queue[n] \in Seq(Request(blk)) /\ toRcv[n] \in Seq(Order(blk))
         /\ Making(blk, n, sending[n], last[n], queue[n], bproc[n], rcv[n].del, rcv[n].ill)
         /\ bproc[n] \subseteq Source
<1>1. n \in Source /\ GroupAssumption /\ Graph(blk) /\ Member(n)
  BY GroupFacts
<1>2. Chains(blk) /\ OwnMember(n) /\ Shape
  BY DEF OwnInv, Inv
<1> QED BY <1>1, <1>2 DEF Shape, Member, OwnMember, BlameOK

\* A request to accuse a source.
LEMMA AccuseOK ==
  ASSUME NEW n, NEW bp, NEW E, NEW s \in bp
  PROVE  RequestOK(n, bp, E, <<{}, s>>)
  BY DEF RequestOK, Apart, Clear

LEMMA ReceiveBlockOwn ==
  ASSUME Inv, OwnInv, NEW n \in Local, NEW b \in DOMAIN blk, ReceiveBlock(n, b)
  PROVE  OwnInv'
<1> DEFINE R == rcv[n]
           A == RunScheduler(Written(CreateBlock(R, b), b))
           bp == bproc[n]
<1>1. /\ n \in Source /\ GroupAssumption /\ Graph(blk) /\ Chains(blk) /\ Member(n) /\ OwnMember(n)
      /\ DOMAIN sending = Local /\ DOMAIN queue = Local
      /\ OwnOK(blk, n, sending[n], last[n]) /\ queue[n] \in Seq(Request(blk))
      /\ Making(blk, n, sending[n], last[n], queue[n], bp, R.del, R.ill) /\ bp \subseteq Source
  BY OwnFacts
<1>2. Flush(n, A) /\ FoundForkProofs(n, A.found) /\ UNCHANGED <<setup, last, bproc, toRcv, ch>>
  BY DEF ReceiveBlock
<1>3. Grown(blk', blk, {n}) /\ \A m \in Local \ {n} : Other(m)
  BY ReceiveBlockStep
<1>4. Handled(blk, A, R)
  BY <1>1, ArrivalHandled DEF Member
<1>5. Keeps(A, R)
  BY <1>1, ArrivalKeeps DEF Member, RcvOK, Graph
<1> HIDE DEF A
<1>6. /\ Slots(rcv'[n], rcv'[n].objs) /\ Deep(rcv'[n].del) /\ rcv'[n].del = A.del /\ rcv'[n].ill = A.ill
      /\ R.del \subseteq A.del /\ R.ill \subseteq A.ill
      /\ Rising(ch[n].blamed, ch[n].blocks, toChain'[n])
  BY <1>1, <1>2, <1>4, <1>5, FlushOwn
<1>7. Making(blk, n, sending[n], last[n], queue[n], bp, A.del, A.ill)
  BY <1>1, <1>6, MakingMore
<1>8. Chains(blk') /\ Making(blk', n, sending'[n], last[n], queue'[n], bp, A.del, A.ill)
  <2>1. CASE Range(A.found) \cap bp = {}
    <3>1. UNCHANGED <<blk, sending, queue>>
      BY <1>2, <2>1 DEF FoundForkProofs
    <3> QED BY <1>1, <1>7, <3>1
  <2>2. CASE Range(A.found) \cap bp # {}
    <3> DEFINE s == CHOOSE s \in Range(A.found) \cap bp : TRUE
               E == A.del
               I == A.ill
               req == <<{}, s>>
    <3>1. AddBlock(n, req)
      BY <1>2, <2>2 DEF FoundForkProofs
    <3>2. s \in bp
      BY <2>2
    <3> HIDE DEF s
    <3>3. req \in Request(blk)
      BY <1>1, <3>2 DEF Request
    <3>4. RequestOK(n, bp, E, req) /\ Making(blk, n, sending[n], last[n], queue[n], bp, E, I)
      BY <1>7, <3>2, AccuseOK
    <3> HIDE DEF E, I, bp, req
    <3>5. Chains(blk') /\ Making(blk', n, sending'[n], last[n], queue'[n], bp, E, I)
      BY <1>1, <3>1, <3>3, <3>4, AddBlockOwn
    <3> QED BY <3>5 DEF E, I
  <2> QED BY <2>1, <2>2
<1>9. Making(blk', n, sending'[n], last'[n], queue'[n], bproc'[n], rcv'[n].del, rcv'[n].ill)
  BY <1>2, <1>6, <1>8
<1>10. OrdersOK(n, bproc'[n], ch[n].blamed, rcv'[n].del, toRcv'[n])
  <2>1. OrdersOK(n, bp, ch[n].blamed, A.del, toRcv[n])
    BY <1>1, <1>6, MoreOrders, SMTT(30) DEF OwnMember
  <2> QED BY <1>2, <1>6, <2>1
<1> QED BY <1>2, <1>3, <1>6, <1>8, <1>9, <1>10, OwnReceiver

LEMMA GotForkProofOwn ==
  ASSUME Inv, OwnInv, NEW n \in Local, NEW s \in Source, GotForkProof(n, s)
  PROVE  OwnInv'
<1> DEFINE R == rcv[n]
           A == Blame([R EXCEPT !.proof = @ \cup {s}], s)
<1>1. /\ Chains(blk) /\ Member(n) /\ OwnMember(n)
      /\ Making(blk, n, sending[n], last[n], queue[n], bproc[n], R.del, R.ill)
  BY OwnFacts
<1>2. Flush(n, A) /\ UNCHANGED <<setup, blk, sending, queue, last, bproc, pproof, toRcv, ch>>
  BY DEF GotForkProof
<1>3. Grown(blk', blk, {n}) /\ \A m \in Local \ {n} : Other(m)
  BY GotForkProofStep
<1>4. Handled(blk, A, R)
  BY <1>1, ProofHandled DEF Member
<1>5. Keeps(A, R)
  BY <1>1, ProofKeeps DEF Member, RcvOK, Sane
<1> HIDE DEF A
<1>6. /\ Slots(rcv'[n], rcv'[n].objs) /\ Deep(rcv'[n].del) /\ rcv'[n].del = A.del /\ rcv'[n].ill = A.ill
      /\ R.del \subseteq A.del /\ R.ill \subseteq A.ill
      /\ Rising(ch[n].blamed, ch[n].blocks, toChain'[n])
  BY <1>1, <1>2, <1>4, <1>5, FlushOwn
<1>7. Making(blk', n, sending'[n], last'[n], queue'[n], bproc'[n], rcv'[n].del, rcv'[n].ill)
  <2>1. Making(blk, n, sending[n], last[n], queue[n], bproc[n], A.del, A.ill)
    BY <1>1, <1>6, MakingMore
  <2> QED BY <1>2, <1>6, <2>1
<1>8. OrdersOK(n, bproc'[n], ch[n].blamed, rcv'[n].del, toRcv'[n])
  <2>1. OrdersOK(n, bproc[n], ch[n].blamed, A.del, toRcv[n])
    BY <1>1, <1>6, MoreOrders, SMTT(30) DEF OwnMember
  <2> QED BY <1>2, <1>6, <2>1
<1> QED BY <1>1, <1>2, <1>3, <1>6, <1>7, <1>8, OwnReceiver

\* alarm() of the receiver
LEMMA StartOwn ==
  ASSUME Inv, OwnInv, NEW n \in Local, Start(n)
  PROVE  OwnInv'
<1>1. Chains(blk) /\ OwnMember(n) /\ Member(n) /\ DOMAIN toChain = Local
  BY OwnFacts
<1>2. /\ toChain' = [toChain EXCEPT ![n] = Append(@, <<"start">>)]
      /\ UNCHANGED <<setup, blk, rcv, sending, queue, last, bproc, pproof, toRcv, ch>>
  BY DEF Start
<1>3. Grown(blk', blk, {n}) /\ \A m \in Local \ {n} : Other(m)
  BY StartStep
<1> DEFINE q == toChain[n]
           e == <<"start">>
           o == <<e>>
           p == toChain'[n]
           B == ch[n].blamed
           D == ch[n].blocks
<1>4. q \in Seq(Event) /\ Rising(B, D, q) /\ p = Append(q, e)
  BY <1>1, <1>2 DEF Member, NewsOK, OwnMember
<1>5. e \in Event /\ e[1] # "new"
  BY DEF Event
<1> HIDE DEF e, q, p, B, D
<1>6. p = q \o o /\ o \in Seq(Event) /\ Len(o) = 1 /\ o[1] = e
  BY <1>4, <1>5
<1> HIDE DEF o
<1>7. Rising(B, D \cup AllNews(q), o)
  BY <1>5, <1>6 DEF Rising
<1>8. Rising(B, D, p)
  <2> DEFINE E == D \cup AllNews(q)
  <2>1. E = D \cup AllNews(q) /\ Rising(B, E, o) /\ B \subseteq B \cup AllBlames(q)
    BY <1>7
  <2> HIDE DEF E
  <2> QED BY <1>4, <1>6, <2>1, RisingConcat
<1> QED BY <1>1, <1>2, <1>3, <1>8, OwnReceiver DEF OwnMember, p, B, D

\* add_block(), called by CatChainImpl
LEMMA HandleAddOwn ==
  ASSUME Inv, OwnInv, NEW n \in Local, HandleAdd(n)
  PROVE  OwnInv'
<1> DEFINE t == toRcv[n]
           D == Head(t)[2]
           req == <<D, NoSource>>
           bp == bproc[n]
           E == rcv[n].del
           I == rcv[n].ill
           B == ch[n].blamed
<1>1. /\ n \in Source /\ GroupAssumption /\ Graph(blk) /\ Chains(blk) /\ OwnMember(n)
      /\ DOMAIN sending = Local /\ DOMAIN queue = Local /\ DOMAIN toRcv = Local
      /\ OwnOK(blk, n, sending[n], last[n]) /\ queue[n] \in Seq(Request(blk)) /\ t \in Seq(Order(blk))
      /\ Making(blk, n, sending[n], last[n], queue[n], bp, E, I)
  BY OwnFacts
<1>2. /\ t # <<>> /\ Head(t)[1] = "add" /\ toRcv' = [toRcv EXCEPT ![n] = Tail(t)] /\ AddBlock(n, req)
      /\ UNCHANGED <<setup, rcv, last, bproc, pproof, toChain, ch>>
  BY DEF HandleAdd
<1>3. Grown(blk', blk, {n}) /\ \A m \in Local \ {n} : Other(m)
  BY HandleAddStep
<1>4. toRcv'[n] = Tail(t)
  BY <1>1, <1>2
<1>5. OrdersOK(n, bp, B, E, t)
  BY <1>1 DEF OwnMember
<1> HIDE DEF t, bp, B, E, I
<1>6. OrdersFirst(n, bp, B, E, t)
  BY <1>1, <1>2, <1>5, OrdersTail
<1>7. Apart(D, n) /\ D \subseteq E /\ Clear(D, bp) /\ OrdersOK(n, bp, B, E, Tail(t))
  BY <1>2, <1>6 DEF OrdersFirst
<1>8. D \subseteq DOMAIN blk
  BY <1>1, <1>2, FirstOrder
<1> HIDE DEF D
<1>9. Clear(D, bp \cup {NoSource})
  <2>1. \A d \in D : Src(d) \in Source
    BY <1>1, <1>7, <1>8, SourceOfBlock DEF Apart, Graph, World
  <2> QED BY <1>1, <1>7, <2>1 DEF Clear, GroupAssumption
<1>10. RequestOK(n, bp, E, req) /\ req \in Request(blk)
  BY <1>7, <1>8, <1>9 DEF RequestOK, Request
<1> HIDE DEF req
<1>11. Chains(blk') /\ Making(blk', n, sending'[n], last[n], queue'[n], bp, E, I)
  BY <1>1, <1>2, <1>10, AddBlockOwn
<1>12. Making(blk', n, sending'[n], last'[n], queue'[n], bproc'[n], rcv'[n].del, rcv'[n].ill)
  BY <1>2, <1>11 DEF bp, E, I
<1>13. OrdersOK(n, bproc'[n], ch[n].blamed, rcv'[n].del, toRcv'[n])
  BY <1>2, <1>4, <1>7 DEF bp, E, B
<1>14. /\ Slots(rcv'[n], rcv'[n].objs) /\ Deep(rcv'[n].del) /\ Rising(ch[n].blamed, ch[n].blocks, toChain'[n])
  BY <1>1, <1>2 DEF OwnMember
<1> QED BY <1>2, <1>3, <1>11, <1>12, <1>13, <1>14, OwnReceiver

\* on_blame_processed()
LEMMA HandleBlameProcessedOwn ==
  ASSUME Inv, OwnInv, NEW n \in Local, HandleBlameProcessed(n)
  PROVE  OwnInv'
<1> DEFINE t == toRcv[n]
           s == Head(t)[2]
           req == <<{}, s>>
           bp == bproc[n]
           cp == bp \cup {s}
           E == rcv[n].del
           I == rcv[n].ill
           B == ch[n].blamed
<1>1. /\ n \in Source /\ GroupAssumption /\ Graph(blk) /\ Chains(blk) /\ OwnMember(n)
      /\ DOMAIN sending = Local /\ DOMAIN queue = Local /\ DOMAIN toRcv = Local /\ DOMAIN bproc = Local
      /\ OwnOK(blk, n, sending[n], last[n]) /\ queue[n] \in Seq(Request(blk)) /\ t \in Seq(Order(blk))
      /\ Making(blk, n, sending[n], last[n], queue[n], bp, E, I)
  BY OwnFacts
<1>2. /\ t # <<>> /\ Head(t)[1] = "blamed" /\ toRcv' = [toRcv EXCEPT ![n] = Tail(t)]
      /\ bproc' = [bproc EXCEPT ![n] = @ \cup {s}]
      /\ IF s \in pproof[n] THEN AddBlock(n, req) ELSE UNCHANGED <<blk, sending, queue>>
      /\ UNCHANGED <<setup, rcv, last, toChain, ch>>
  BY DEF HandleBlameProcessed
<1>3. Grown(blk', blk, {n}) /\ \A m \in Local \ {n} : Other(m)
  BY HandleBlameProcessedStep
<1>4. toRcv'[n] = Tail(t) /\ bproc'[n] = cp
  <2> HIDE DEF s
  <2> QED BY <1>1, <1>2
<1>5. OrdersOK(n, bp, B, E, t)
  BY <1>1 DEF OwnMember
<1> HIDE DEF t, bp, B, E, I
<1>6. OrdersFirst(n, bp, B, E, t)
  BY <1>1, <1>2, <1>5, OrdersTail
<1>7. OrdersOK(n, cp, B, E, Tail(t))
  BY <1>2, <1>6 DEF OrdersFirst
<1>8. s \in Source
  BY <1>1, <1>2, FirstOrder
<1> HIDE DEF s
<1>9. req \in Request(blk) /\ s \in cp /\ bp \subseteq cp
  BY <1>8 DEF Request
<1> HIDE DEF cp
<1>10. Making(blk, n, sending[n], last[n], queue[n], cp, E, I)
  BY <1>1, <1>9, MakingMore
<1>11. RequestOK(n, cp, E, req)
  BY <1>9, AccuseOK
<1> HIDE DEF req
<1>12. Chains(blk') /\ Making(blk', n, sending'[n], last[n], queue'[n], cp, E, I)
  <2>1. CASE s \in pproof[n]
    BY <1>1, <1>2, <1>9, <1>10, <1>11, <2>1, AddBlockOwn
  <2>2. CASE s \notin pproof[n]
    <3>1. UNCHANGED <<blk, sending, queue>>
      BY <1>2, <2>2
    <3> QED BY <1>1, <1>10, <3>1
  <2> QED BY <2>1, <2>2
<1>13. Making(blk', n, sending'[n], last'[n], queue'[n], bproc'[n], rcv'[n].del, rcv'[n].ill)
  BY <1>2, <1>4, <1>12 DEF E, I
<1>14. OrdersOK(n, bproc'[n], ch[n].blamed, rcv'[n].del, toRcv'[n])
  BY <1>2, <1>4, <1>7 DEF E, B
<1>15. /\ Slots(rcv'[n], rcv'[n].objs) /\ Deep(rcv'[n].del) /\ Rising(ch[n].blamed, ch[n].blocks, toChain'[n])
  BY <1>1, <1>2 DEF OwnMember
<1> QED BY <1>2, <1>3, <1>12, <1>13, <1>14, <1>15, OwnReceiver

\* add_block_cont() .. add_block_cont_3(): the block can run, for what it
\* refers to is delivered, or the last own block is ill and so is this one.
LEMMA OwnBlockRuns ==
  ASSUME NEW w, NEW n, NEW R, NEW A, NEW b, NEW l, Sane(w, A), Ready(w, A, {}), A.torun = <<>>, Keeps(A, R),
         b \in Settled(A), b # Root, SendingOK(w, n, b, l, R.del, R.ill)
  PROVE  b \in A.del \cup A.ill
<1>1. l \in A.del \cup A.ill /\ w[b].prev = l /\ w[b].deps \subseteq A.del
  BY DEF Keeps, SendingOK
<1>2. ASSUME b \in Range(A.wait)
      PROVE  FALSE
  <2>1. RefsIn(w, b) \cap A.ill = {} /\ RefsIn(w, b) = w[b].deps \cup {l}
    BY <1>1, <1>2 DEF Sane, RefsIn
  <2>2. Range(A.torun) = {}
    BY DEF Range
  <2> QED BY <1>1, <1>2, <2>1, <2>2 DEF Ready
<1> QED BY <1>2 DEF Settled

LEMMA BlockStoredOwn ==
  ASSUME Inv, OwnInv, NEW n \in Local, BlockStored(n)
  PROVE  OwnInv'
<1> DEFINE b == sending[n]
           R == rcv[n]
           A == RunScheduler(Written(CreateBlock(R, b), b))
           q == queue[n]
           bp == bproc[n]
<1>1. /\ n \in Source /\ GroupAssumption /\ Graph(blk) /\ Chains(blk) /\ Member(n) /\ OwnMember(n)
      /\ DOMAIN sending = Local /\ DOMAIN queue = Local /\ DOMAIN last = Local
      /\ OwnOK(blk, n, b, last[n]) /\ q \in Seq(Request(blk))
      /\ Making(blk, n, b, last[n], q, bp, R.del, R.ill)
  BY OwnFacts
<1>2. /\ b # Root /\ Flush(n, A) /\ last' = [last EXCEPT ![n] = b]
      /\ queue' = [queue EXCEPT ![n] = IF q = <<>> THEN q ELSE Tail(q)]
      /\ IF q = <<>> \/ Height(b) = MaxHeight
         THEN sending' = [sending EXCEPT ![n] = Root] /\ UNCHANGED blk
         ELSE StartBlock(n, b, Head(q))
      /\ UNCHANGED <<setup, bproc, pproof, toRcv, ch>>
  BY DEF BlockStored
<1>3. Grown(blk', blk, {n}) /\ \A m \in Local \ {n} : Other(m)
  BY BlockStoredStep
<1>4. b \in DOMAIN blk
  BY <1>1 DEF OwnOK
<1>5. Handled(blk, A, R)
  BY <1>1, <1>4, ArrivalHandled DEF Member
<1>6. Keeps(A, R) /\ b \in Settled(A)
  BY <1>1, <1>4, ArrivalKeeps DEF Member, RcvOK, Graph
<1> HIDE DEF A
<1>7. /\ Slots(rcv'[n], rcv'[n].objs) /\ Deep(rcv'[n].del) /\ rcv'[n].del = A.del /\ rcv'[n].ill = A.ill
      /\ R.del \subseteq A.del /\ R.ill \subseteq A.ill
      /\ Rising(ch[n].blamed, ch[n].blocks, toChain'[n])
  BY <1>1, <1>2, <1>5, <1>6, FlushOwn
<1>8. last'[n] = b /\ queue'[n] = IF q = <<>> THEN q ELSE Tail(q)
  <2> HIDE DEF b, q
  <2> QED BY <1>1, <1>2
<1>9. SendingOK(blk, n, b, last[n], R.del, R.ill) /\ Src(b) = n
  BY <1>1, <1>2 DEF Making, SendingOK
<1>10. b \in A.del \cup A.ill
  <2> DEFINE l == last[n]
  <2>1. SendingOK(blk, n, b, l, R.del, R.ill) /\ b # Root /\ Sane(blk, A) /\ Ready(blk, A, {}) /\ A.torun = <<>>
    BY <1>2, <1>5, <1>9 DEF Handled
  <2> HIDE DEF b, l, R
  <2> QED BY <1>6, <2>1, OwnBlockRuns
<1>11. /\ Height(b) \in Nat /\ MaxHeight \in Nat /\ Height(b) <= MaxHeight
       /\ \A x \in DOMAIN blk : Src(x) = n => Height(x) <= Height(b)
  <2>1. /\ Height(b) <= MaxHeight /\ Height(b) = Height(last[n]) + 1 /\ last[n] \in DOMAIN blk
        /\ \A x \in DOMAIN blk : Src(x) = n => Height(x) <= Height(last[n]) \/ x = b
    BY <1>1, <1>2 DEF OwnOK
  <2>2. MaxHeight \in Nat /\ \A x \in DOMAIN blk : Height(x) \in Nat
    BY <1>1, SourceOfBlock DEF Graph, World, GroupAssumption
  <2> QED BY <1>4, <2>1, <2>2
<1>12. MadeOK(blk, n, bp) /\ QueueOK(blk, n, bp, A.del, q)
  <2>1. Making(blk, n, b, last[n], q, bp, A.del, A.ill)
    BY <1>1, <1>7, MakingMore
  <2> QED BY <2>1 DEF Making
<1>13. Chains(blk') /\ Making(blk', n, sending'[n], b, queue'[n], bp, A.del, A.ill)
  <2> HIDE DEF b, q, bp
  <2>1. CASE q = <<>>
    <3>1. blk' = blk /\ sending'[n] = Root /\ queue'[n] = <<>>
      BY <1>1, <1>2, <1>8, <2>1
    <3>2. SendingOK(blk, n, Root, b, A.del, A.ill)
      BY <1>9, <1>10 DEF SendingOK
    <3> QED BY <1>1, <1>12, <2>1, <3>1, <3>2 DEF Making
  <2>2. CASE q # <<>>
    <3>1. QueueFirst(blk, n, bp, A.del, q)
      BY <1>1, <1>12, <2>2, QueueTail
    <3> DEFINE h == Head(q)
               u == Tail(q)
               E == A.del
               I == A.ill
    <3>2. /\ queue'[n] = u /\ h \in Request(blk)
          /\ Apart(h[1], n) /\ h[1] \subseteq E /\ h[2] \in bp \cup {NoSource}
          /\ Clear(h[1], Accused(blk, n)) /\ Clear(h[1], {h[2]})
          /\ QueueOK(blk, n, bp, E, u) /\ \A j \in 1 .. Len(u) : Clear(u[j][1], {h[2]})
      <4>1. queue'[n] = u /\ h \in Request(blk)
        BY <1>1, <1>8, <2>2, SMTT(30)
      <4> QED BY <3>1, <4>1 DEF QueueFirst
    <3>3. CASE Height(b) = MaxHeight
      <4>1. blk' = blk /\ sending'[n] = Root /\ Height(b) >= MaxHeight
        BY <1>1, <1>2, <1>11, <3>3
      <4>2. SendingOK(blk, n, Root, b, E, I)
        BY <1>9, <1>10 DEF SendingOK
      <4> HIDE DEF u
      <4> QED BY <1>1, <1>12, <3>2, <4>1, <4>2 DEF Making
    <3>4. CASE Height(b) # MaxHeight
      <4>1. StartBlock(n, b, h) /\ Height(b) + 1 <= MaxHeight
        BY <1>2, <1>11, <2>2, <3>4
      <4>2. b \in E \cup I /\ (b = Root \/ Src(b) = n)
        BY <1>9, <1>10
      <4>3. MadeOK(blk, n, bp)
        BY <1>12
      <4> HIDE DEF h, u, E, I
      <4>4. Chains(blk') /\ Making(blk', n, sending'[n], b, u, bp, E, I)
        BY <1>1, <1>4, <1>11, <3>2, <4>1, <4>2, <4>3, StartBlockOwn
      <4> QED BY <3>2, <4>4 DEF E, I
    <3> QED BY <3>3, <3>4
  <2> QED BY <2>1, <2>2
<1>14. Making(blk', n, sending'[n], last'[n], queue'[n], bproc'[n], rcv'[n].del, rcv'[n].ill)
  BY <1>2, <1>7, <1>8, <1>13
<1>15. OrdersOK(n, bproc'[n], ch[n].blamed, rcv'[n].del, toRcv'[n])
  <2>1. OrdersOK(n, bp, ch[n].blamed, A.del, toRcv[n])
    BY <1>1, <1>7, MoreOrders, SMTT(30) DEF OwnMember
  <2> QED BY <1>2, <1>7, <2>1
<1> QED BY <1>2, <1>3, <1>7, <1>13, <1>14, <1>15, OwnReceiver

-----------------------------------------------------------------------------
(* The handlers of CatChainImpl *)

LEMMA OwnChain ==
  ASSUME Inv, OwnInv, NEW n \in Local, UNCHANGED <<setup, blk, rcv, sending, queue, last, bproc>>,
         \A m \in Local \ {n} : Other(m), TopsOK(n, ch'[n]),
         OrdersOK(n, bproc[n], ch'[n].blamed, rcv[n].del, toRcv'[n]),
         Rising(ch'[n].blamed, ch'[n].blocks, toChain'[n])
  PROVE  OwnInv'
<1>1. OwnMember(n) /\ Chains(blk)
  BY DEF OwnInv
<1>2. OwnMember(n)'
  BY <1>1 DEF OwnMember
<1>3. Grown(blk', blk, {n}) /\ Chains(blk')
  BY <1>1 DEF Grown
<1> QED BY <1>2, <1>3, OwnOneMember

\* CatChainImpl takes up to max_deps of the top blocks, or changes only what
\* says when to make a block.
LEMMA SendOrNot ==
  ASSUME Graph(blk), NEW n, NEW c, ChainOK(blk, c), TopsOK(n, c),
         NEW d, DOMAIN d = ChainFields, d.blocks = c.blocks, d.top = c.top, d.processed = c.processed,
         d.topsrc = c.topsrc, d.blamed = c.blamed, d.deps = c.deps \/ d.deps = {}
  PROVE  /\ TopsOK(n, d)
         /\ \A V \in Choice(c) : /\ TopsOK(n, SendProcess(d, V)) /\ SendProcess(d, V).blamed = c.blamed
                                 /\ SendProcess(d, V).blocks = c.blocks
<1>1. TopsOK(n, d) /\ ChainOK(blk, d) /\ Choice(c) = Choice(d)
  BY TopsSame, FlagsLemma DEF Choice
<1>2. ASSUME NEW V \in Choice(c)
      PROVE  /\ TopsOK(n, SendProcess(d, V)) /\ SendProcess(d, V).blamed = c.blamed
             /\ SendProcess(d, V).blocks = c.blocks
  <2>1. V \in Choice(d)
    BY <1>1
  <2>2. TopsOK(n, SendProcess(d, V)) /\ SendProcess(d, V).blamed = d.blamed
    BY <1>1, <2>1, TopsSend DEF Graph
  <2>3. SendProcess(d, V).blocks = d.blocks
    BY <1>1, <2>1, SendProcessLemma
  <2> QED BY <2>2, <2>3
<1> QED BY <1>1, <1>2

LEMMA ChainStartOwn ==
  ASSUME Inv, OwnInv, NEW n \in Local, ChainStart(n)
  PROVE  OwnInv'
<1> DEFINE c == ch[n]
           d == [c EXCEPT !.started = TRUE]
           q == toChain[n]
<1>1. /\ Graph(blk) /\ DOMAIN ch = Local /\ DOMAIN toChain = Local /\ OwnMember(n)
      /\ ChainOK(blk, c) /\ DOMAIN c = ChainFields /\ q \in Seq(Event)
  BY OwnFacts DEF Member, ChainOK, NewsOK
<1>2. /\ q # <<>> /\ Head(q)[1] = "start" /\ toChain' = [toChain EXCEPT ![n] = Tail(@)]
      /\ \E V \in Choice(c) : ch' = [ch EXCEPT ![n] = SendProcess(d, V)]
      /\ UNCHANGED <<setup, blk, rcv, sending, queue, last, bproc, pproof, toRcv>>
  BY DEF ChainStart
<1>3. \A m \in Local \ {n} : Other(m)
  BY ChainStartStep
<1>4. /\ DOMAIN d = ChainFields /\ d.blocks = c.blocks /\ d.top = c.top /\ d.processed = c.processed
      /\ d.deps = c.deps /\ d.topsrc = c.topsrc /\ d.blamed = c.blamed
  BY <1>1 DEF ChainFields
<1>5. TopsOK(n, c) /\ Rising(c.blamed, c.blocks, q) /\ OrdersOK(n, bproc[n], c.blamed, rcv[n].del, toRcv[n])
  BY <1>1 DEF OwnMember
<1> HIDE DEF d
<1>6. PICK V \in Choice(c) : ch'[n] = SendProcess(d, V)
  BY <1>1, <1>2
<1>7. toChain'[n] = Tail(q)
  BY <1>1, <1>2
<1> HIDE DEF c, q
<1>8. TopsOK(n, ch'[n]) /\ ch'[n].blamed = c.blamed /\ ch'[n].blocks = c.blocks
  BY <1>1, <1>4, <1>5, <1>6, SendOrNot, SMTT(30)
<1>9. Rising(c.blamed, c.blocks, Tail(q))
  <2> DEFINE B == c.blamed
             D == c.blocks
  <2>1. Rising(B, D, q)
    BY <1>5
  <2> HIDE DEF B, D
  <2>2. RisingFirst(B, D, q)
    BY <1>1, <1>2, <2>1, RisingTail
  <2> QED BY <1>2, <2>2 DEF RisingFirst, B, D
<1>10. OrdersOK(n, bproc[n], ch'[n].blamed, rcv[n].del, toRcv'[n]) /\ Rising(ch'[n].blamed, ch'[n].blocks, toChain'[n])
  BY <1>2, <1>5, <1>7, <1>8, <1>9
<1> QED BY <1>2, <1>3, <1>8, <1>10, OwnChain

\* on_new_block()
LEMMA ChainNewBlockOwn ==
  ASSUME Inv, OwnInv, NEW n \in Local, ChainNewBlock(n)
  PROVE  OwnInv'
<1> DEFINE c == ch[n]
           q == toChain[n]
           b == Head(q)[2]
           ok == Src(b) \notin c.blamed
           top == TopAfterNew(n, c, b)
           d == [c EXCEPT !.blocks = Record(n, c, b), !.top = top,
                          !.topsrc = IF ok THEN [@ EXCEPT ![Src(b)] = b] ELSE @,
                          !.pre = IF ok THEN @ \cup Cone({b}) ELSE @,
                          !.alarm = @ \/ (~ c.active /\ c.started /\ (c.top = {} \/ (ok /\ top = {})))]
<1>1. /\ Graph(blk) /\ Chains(blk) /\ DOMAIN ch = Local /\ DOMAIN toChain = Local /\ OwnMember(n)
      /\ ChainOK(blk, c) /\ DOMAIN c = ChainFields /\ q \in Seq(Event) /\ Causal(blk, c.blocks, q)
  BY OwnFacts DEF Member, ChainOK, NewsOK
<1>2. /\ q # <<>> /\ Head(q)[1] = "new" /\ toChain' = [toChain EXCEPT ![n] = Tail(@)]
      /\ ch' = [ch EXCEPT ![n] = d]
      /\ UNCHANGED <<setup, blk, rcv, sending, queue, last, bproc, pproof, toRcv>>
  BY DEF ChainNewBlock
<1>3. \A m \in Local \ {n} : Other(m)
  BY ChainNewBlockStep
<1>4. /\ d.blocks = c.blocks \cup {b} /\ d.top = top /\ d.deps = c.deps /\ d.blamed = c.blamed
      /\ d.topsrc = IF ok THEN [c.topsrc EXCEPT ![Src(b)] = b] ELSE c.topsrc
  <2> HIDE DEF c, b, ok, top
  <2> QED BY <1>1 DEF ChainFields, Record
<1>5. TopsOK(n, c) /\ Rising(c.blamed, c.blocks, q) /\ OrdersOK(n, bproc[n], c.blamed, rcv[n].del, toRcv[n])
  BY <1>1 DEF OwnMember
<1> HIDE DEF d
<1>6. ch'[n] = d /\ toChain'[n] = Tail(q)
  BY <1>1, <1>2
<1> HIDE DEF c, q
<1>7. b \in DOMAIN blk \ c.blocks /\ RefsIn(blk, b) \subseteq c.blocks
  <2> DEFINE D == c.blocks
             H == {b}
  <2>1. Causal(blk, D, q) /\ H = IF Head(q)[1] = "new" THEN {Head(q)[2]} ELSE {}
    BY <1>1, <1>2
  <2> HIDE DEF D, H
  <2>2. Took(blk, D, q, H)
    BY <1>1, <1>2, <2>1, TailNews
  <2> QED BY <2>2 DEF Took, D, H
<1>8. /\ ok => \A x \in c.blocks : Src(x) = Src(b) => Height(x) < Height(b)
      /\ Rising(c.blamed, c.blocks \cup {b}, Tail(q))
  <2> DEFINE B == c.blamed
             D == c.blocks
  <2>1. Rising(B, D, q)
    BY <1>5
  <2> HIDE DEF B, D
  <2>2. RisingFirst(B, D, q)
    BY <1>1, <1>2, <2>1, RisingTail
  <2> QED BY <1>2, <2>2 DEF RisingFirst, B, D
<1> HIDE DEF b
<1>9. TopsOK(n, d)
  BY <1>1, <1>4, <1>5, <1>7, <1>8, TopsNew
<1>10. OrdersOK(n, bproc[n], ch'[n].blamed, rcv[n].del, toRcv'[n]) /\ Rising(ch'[n].blamed, ch'[n].blocks, toChain'[n])
  BY <1>2, <1>4, <1>5, <1>6, <1>8
<1> QED BY <1>2, <1>3, <1>6, <1>9, <1>10, OwnChain

\* on_blame()
LEMMA ChainBlameOwn ==
  ASSUME Inv, OwnInv, NEW n \in Local, ChainBlame(n)
  PROVE  OwnInv'
<1> DEFINE c == ch[n]
           q == toChain[n]
           t == toRcv[n]
           s == Head(q)[2]
           e == <<"blamed", s>>
           u == Append(t, e)
           blamed == c.blamed \cup {s}
           top == TopAfterBlame(n, blamed)
           deps == DepsAfterBlame(n, s)
           d == [c EXCEPT !.blamed = blamed, !.topsrc[s] = Root, !.top = top, !.deps = deps]
<1>1. /\ DOMAIN ch = Local /\ DOMAIN toChain = Local /\ DOMAIN toRcv = Local /\ OwnMember(n)
      /\ ChainOK(blk, c) /\ DOMAIN c = ChainFields /\ q \in Seq(Event) /\ t \in Seq(Order(blk))
  BY OwnFacts DEF Member, ChainOK, NewsOK
<1>2. /\ q # <<>> /\ Head(q)[1] = "blame" /\ toChain' = [toChain EXCEPT ![n] = Tail(@)]
      /\ ch' = [ch EXCEPT ![n].blamed = blamed, ![n].topsrc[s] = Root, ![n].top = top, ![n].deps = deps]
      /\ toRcv' = [toRcv EXCEPT ![n] = Append(@, e)]
      /\ UNCHANGED <<setup, blk, rcv, sending, queue, last, bproc, pproof>>
  BY DEF ChainBlame
<1>3. \A m \in Local \ {n} : Other(m)
  BY ChainBlameStep
<1>4. toChain'[n] = Tail(q) /\ toRcv'[n] = u
  <2> HIDE DEF e
  <2> QED BY <1>1, <1>2
<1>5. ch'[n] = d
  <2> HIDE DEF s, blamed, top, deps
  <2> QED BY <1>1, <1>2
<1>6. /\ d.blocks = c.blocks /\ d.top = top /\ d.deps = deps /\ d.blamed = blamed
      /\ d.topsrc = [c.topsrc EXCEPT ![s] = Root]
  <2> HIDE DEF c, s, blamed, top, deps
  <2> QED BY <1>1 DEF ChainFields
<1>7. TopsOK(n, c) /\ Rising(c.blamed, c.blocks, q) /\ OrdersOK(n, bproc[n], c.blamed, rcv[n].del, t)
  BY <1>1 DEF OwnMember
<1>8. c = ch[n] /\ e[1] = "blamed" /\ e[2] = s
  OBVIOUS
<1> HIDE DEF c, q, t, d
<1>9. s \in Source
  <2> DEFINE h == Head(q)
  <2>1. h \in Event /\ h[1] = "blame" /\ s = h[2]
    BY <1>1, <1>2
  <2> HIDE DEF h, s
  <2> QED BY <2>1 DEF Event
<1>10. Rising(blamed, c.blocks, Tail(q))
  <2> DEFINE B == c.blamed
             D == c.blocks
  <2>1. Rising(B, D, q)
    BY <1>7
  <2> HIDE DEF B, D
  <2>2. RisingFirst(B, D, q)
    BY <1>1, <1>2, <2>1, RisingTail
  <2> QED BY <1>2, <2>2 DEF RisingFirst, B, D
<1> HIDE DEF s
<1>11. TopsOK(n, d)
  <2>1. d.blamed = c.blamed \cup {s} /\ d.top = TopAfterBlame(n, d.blamed) /\ d.deps = DepsAfterBlame(n, s)
    BY <1>6
  <2>2. \A x \in Source \ {s} : d.topsrc[x] = c.topsrc[x]
    BY <1>1, <1>6 DEF ChainOK
  <2>3. Blaming(n, s, c, d)
    BY <1>1, <1>6, <1>7, <1>8, <1>9, <2>1, <2>2 DEF Blaming
  <2> QED BY <2>3, TopsBlame
<1>12. OrdersOK(n, bproc[n], blamed, rcv[n].del, u)
  <2> DEFINE bp == bproc[n]
             E == rcv[n].del
  <2>1. OrdersOK(n, bp, blamed, E, t)
    BY <1>7, MoreOrders, SMTT(30)
  <2>2. e \in Order(blk) /\ u = Append(t, e) /\ s \in blamed
    BY <1>9 DEF Order
  <2> HIDE DEF e, u, blamed, bp, E
  <2>3. AppendOf(u, t, e)
    BY <1>1, <2>2, AppendIs
  <2>4. OrdersOK(n, bp, blamed, E, u)
    BY <1>8, <2>1, <2>2, <2>3, OrdersAppend
  <2> QED BY <2>4 DEF bp, E
<1>13. OrdersOK(n, bproc[n], ch'[n].blamed, rcv[n].del, toRcv'[n]) /\ Rising(ch'[n].blamed, ch'[n].blocks, toChain'[n])
  BY <1>4, <1>5, <1>6, <1>10, <1>12
<1> QED BY <1>2, <1>3, <1>5, <1>11, <1>13, OwnChain

\* processed_block(): the dependencies are of sources that are not blamed, and
\* delivered.
LEMMA ChainProcessedOwn ==
  ASSUME Inv, OwnInv, NEW n \in Local, ChainProcessed(n)
  PROVE  OwnInv'
<1> DEFINE c == ch[n]
           t == toRcv[n]
           e == <<"add", c.deps>>
           u == Append(t, e)
           d1 == [c EXCEPT !.force = FALSE]
           d2 == [c EXCEPT !.active = FALSE, !.alarm = TRUE, !.deps = {}]
<1>1. /\ Graph(blk) /\ DOMAIN ch = Local /\ DOMAIN toRcv = Local /\ OwnMember(n) /\ Member(n)
      /\ ChainOK(blk, c) /\ DOMAIN c = ChainFields /\ t \in Seq(Order(blk))
  BY OwnFacts DEF Member, ChainOK
<1>2. /\ Asked(n) < Asks(n) /\ toRcv' = [toRcv EXCEPT ![n] = Append(@, e)]
      /\ \/ \E V \in Choice(c) : ch' = [ch EXCEPT ![n] = SendProcess(d1, V)]
         \/ ch' = [ch EXCEPT ![n].active = FALSE, ![n].alarm = TRUE, ![n].deps = {}]
      /\ UNCHANGED <<setup, blk, rcv, sending, queue, last, bproc, pproof, toChain>>
  BY DEF ChainProcessed
<1>3. \A m \in Local \ {n} : Other(m)
  BY ChainProcessedStep
<1>4. toRcv'[n] = u
  <2> HIDE DEF e
  <2> QED BY <1>1, <1>2
<1>5. (\E V \in Choice(c) : ch'[n] = SendProcess(d1, V)) \/ ch'[n] = d2
  <2>1. CASE \E V \in Choice(c) : ch' = [ch EXCEPT ![n] = SendProcess(d1, V)]
    <3> HIDE DEF d1
    <3> QED BY <1>1, <2>1
  <2>2. CASE ch' = [ch EXCEPT ![n].active = FALSE, ![n].alarm = TRUE, ![n].deps = {}]
    BY <1>1, <2>2
  <2> QED BY <1>2, <2>1, <2>2
<1>6. /\ DOMAIN d1 = ChainFields /\ d1.blocks = c.blocks /\ d1.top = c.top /\ d1.processed = c.processed
      /\ d1.deps = c.deps /\ d1.topsrc = c.topsrc /\ d1.blamed = c.blamed
  BY <1>1 DEF ChainFields
<1>7. /\ DOMAIN d2 = ChainFields /\ d2.blocks = c.blocks /\ d2.top = c.top /\ d2.processed = c.processed
      /\ d2.deps = {} /\ d2.topsrc = c.topsrc /\ d2.blamed = c.blamed
  BY <1>1 DEF ChainFields
<1>8. TopsOK(n, c) /\ Rising(c.blamed, c.blocks, toChain[n]) /\ OrdersOK(n, bproc[n], c.blamed, rcv[n].del, t)
  BY <1>1 DEF OwnMember
<1>9. c.blocks \subseteq rcv[n].del
  <2>1. Height(last[n]) \in Nat /\ Len(queue[n]) \in Nat /\ Len(t) \in Nat /\ Asks(n) \in Nat
    BY <1>1, SourceOfBlock, GroupFacts, SMTT(30) DEF Member, OwnOK, Graph, World
  <2>2. Asks(n) > 0
    BY <1>2, <2>1, SMTT(30) DEF Asked
  <2> QED BY <1>1, <2>2 DEF Member, NewsOK
<1> HIDE DEF c, t, d1, d2
<1>10. TopsOK(n, ch'[n]) /\ ch'[n].blamed = c.blamed /\ ch'[n].blocks = c.blocks
  <2>1. \A V \in Choice(c) : /\ TopsOK(n, SendProcess(d1, V)) /\ SendProcess(d1, V).blamed = c.blamed
                             /\ SendProcess(d1, V).blocks = c.blocks
    BY <1>1, <1>6, <1>8, SendOrNot
  <2>2. TopsOK(n, d2)
    BY <1>7, <1>8, TopsSame
  <2> QED BY <1>5, <1>7, <2>1, <2>2
<1>11. OrdersOK(n, bproc[n], c.blamed, rcv[n].del, u)
  <2> DEFINE bp == bproc[n]
             E == rcv[n].del
             B == c.blamed
  <2>1. e \in Order(blk) /\ u = Append(t, e) /\ e[1] = "add" /\ e[2] = c.deps
    BY <1>1 DEF Order, ChainOK
  <2>2. Apart(c.deps, n) /\ c.deps \subseteq E /\ Clear(c.deps, B)
    BY <1>8, <1>9 DEF TopsOK
  <2>3. OrdersOK(n, bp, B, E, t) /\ e[1] # "blamed"
    BY <1>8
  <2> HIDE DEF e, u, bp, E, B
  <2>4. AppendOf(u, t, e)
    BY <1>1, <2>1, AppendIs
  <2>5. OrdersOK(n, bp, B, E, u)
    BY <2>1, <2>2, <2>3, <2>4, OrdersAppend
  <2> QED BY <2>5 DEF bp, E, B
<1>12. OrdersOK(n, bproc[n], ch'[n].blamed, rcv[n].del, toRcv'[n]) /\ Rising(ch'[n].blamed, ch'[n].blocks, toChain'[n])
  BY <1>2, <1>4, <1>8, <1>10, <1>11
<1> QED BY <1>2, <1>3, <1>10, <1>12, OwnChain

\* need_new_block()
LEMMA NeedNewBlockOwn ==
  ASSUME Inv, OwnInv, NEW n \in Local, NeedNewBlock(n)
  PROVE  OwnInv'
<1> DEFINE c == ch[n]
           f == c.force \/ c.active
           a == c.alarm \/ ~ c.active
           d == [c EXCEPT !.force = f, !.alarm = a]
<1>1. DOMAIN ch = Local /\ OwnMember(n) /\ DOMAIN c = ChainFields
  BY OwnFacts DEF Member, ChainOK
<1>2. /\ ch' = [ch EXCEPT ![n].force = @ \/ c.active, ![n].alarm = @ \/ ~ c.active]
      /\ UNCHANGED <<setup, blk, rcv, sending, queue, last, bproc, pproof, toChain, toRcv>>
  BY DEF NeedNewBlock
<1>3. \A m \in Local \ {n} : Other(m)
  BY NeedNewBlockStep
<1>4. ch'[n] = d
  BY <1>1, <1>2
<1>5. /\ d.blocks = c.blocks /\ d.top = c.top /\ d.deps = c.deps /\ d.topsrc = c.topsrc /\ d.blamed = c.blamed
  <2> HIDE DEF f, a
  <2> QED BY <1>1 DEF ChainFields
<1>6. TopsOK(n, c) /\ Rising(c.blamed, c.blocks, toChain[n]) /\ OrdersOK(n, bproc[n], c.blamed, rcv[n].del, toRcv[n])
  BY <1>1 DEF OwnMember
<1> HIDE DEF c, d
<1>7. TopsOK(n, d)
  BY <1>5, <1>6, TopsSame
<1>8. OrdersOK(n, bproc[n], ch'[n].blamed, rcv[n].del, toRcv'[n]) /\ Rising(ch'[n].blamed, ch'[n].blocks, toChain'[n])
  BY <1>2, <1>4, <1>5, <1>6
<1> QED BY <1>2, <1>3, <1>4, <1>7, <1>8, OwnChain

\* alarm()
LEMMA ChainAlarmOwn ==
  ASSUME Inv, OwnInv, NEW n \in Local, ChainAlarm(n)
  PROVE  OwnInv'
<1> DEFINE c == ch[n]
           d == [c EXCEPT !.alarm = FALSE]
<1>1. Graph(blk) /\ DOMAIN ch = Local /\ OwnMember(n) /\ ChainOK(blk, c) /\ DOMAIN c = ChainFields
  BY OwnFacts DEF Member, ChainOK
<1>2. /\ ch' = [ch EXCEPT ![n].alarm = FALSE] \/ \E V \in Choice(c) : ch' = [ch EXCEPT ![n] = SendProcess([@ EXCEPT !.alarm = FALSE], V)]
      /\ UNCHANGED <<setup, blk, rcv, sending, queue, last, bproc, pproof, toChain, toRcv>>
  BY DEF ChainAlarm
<1>3. \A m \in Local \ {n} : Other(m)
  BY ChainAlarmStep
<1>4. ch'[n] = d \/ \E V \in Choice(c) : ch'[n] = SendProcess(d, V)
  <2>1. CASE ch' = [ch EXCEPT ![n].alarm = FALSE]
    BY <1>1, <2>1
  <2>2. CASE \E V \in Choice(c) : ch' = [ch EXCEPT ![n] = SendProcess([@ EXCEPT !.alarm = FALSE], V)]
    <3>1. PICK V \in Choice(c) : ch' = [ch EXCEPT ![n] = SendProcess(d, V)]
      BY <2>2
    <3> HIDE DEF d
    <3> QED BY <1>1, <3>1
  <2> QED BY <1>2, <2>1, <2>2
<1>5. /\ DOMAIN d = ChainFields /\ d.blocks = c.blocks /\ d.top = c.top /\ d.processed = c.processed
      /\ d.deps = c.deps /\ d.topsrc = c.topsrc /\ d.blamed = c.blamed
  BY <1>1 DEF ChainFields
<1>6. TopsOK(n, c) /\ Rising(c.blamed, c.blocks, toChain[n]) /\ OrdersOK(n, bproc[n], c.blamed, rcv[n].del, toRcv[n])
  BY <1>1 DEF OwnMember
<1> HIDE DEF c, d
<1>7. TopsOK(n, ch'[n]) /\ ch'[n].blamed = c.blamed /\ ch'[n].blocks = c.blocks
  <2>1. TopsOK(n, d) /\ \A V \in Choice(c) : /\ TopsOK(n, SendProcess(d, V)) /\ SendProcess(d, V).blamed = c.blamed
                                             /\ SendProcess(d, V).blocks = c.blocks
    BY <1>1, <1>5, <1>6, SendOrNot
  <2> QED BY <1>4, <1>5, <2>1
<1>8. OrdersOK(n, bproc[n], ch'[n].blamed, rcv[n].del, toRcv'[n]) /\ Rising(ch'[n].blamed, ch'[n].blocks, toChain'[n])
  BY <1>2, <1>6, <1>7
<1> QED BY <1>2, <1>3, <1>7, <1>8, OwnChain

\* A remote member's block follows one of its own too (pre_validate_block).
LEMMA RemoteBlockOwn ==
  ASSUME Inv, OwnInv, NEW s \in setup.remote, RemoteBlock(s)
  PROVE  OwnInv'
<1>1. s \notin Local
  BY GroupAssumption DEF Inv, GroupAssumption, Local
<1>2. UNCHANGED <<setup, rcv, sending, queue, last, bproc, pproof, toChain, toRcv, ch>>
  BY DEF RemoteBlock
<1>3. Grown(blk', blk, {s})
  BY RemoteBlockStep
<1>4. ASSUME NEW m \in Local
      PROVE  OwnMember(m)'
  <2>1. Other(m)
    BY <1>2 DEF Other
  <2> QED BY <1>1, <1>3, <2>1, OwnOthers
<1>5. PICK b, p, D, a : Src(b) = s /\ (Src(p) = s \/ p = Root) /\ blk' = Signed(b, p, D, a)
  <2>1. PICK hv \in setup.blocks[s], p \in DOMAIN blk, a \in {NoSource} \cup setup.accuse[s],
             D \in UNION {kSubset(k, Published) : k \in 0 .. setup.deps[s]} :
          (Src(p) = s \/ p = Root) /\ blk' = Signed(<<s, hv[1], hv[2]>>, p, D, a)
    BY DEF RemoteBlock
  <2>2. Src(<<s, hv[1], hv[2]>>) = s
    BY DEF Src
  <2> QED BY <2>1, <2>2
<1>6. DOMAIN blk' = DOMAIN blk \cup {b} /\ blk'[b].prev = p /\ \A x \in DOMAIN blk \ {b} : blk'[x] = blk[x]
  BY <1>5 DEF Signed, With
<1>7. Chains(blk')
  BY <1>5, <1>6 DEF OwnInv, Chains
<1>8. Local' = Local
  BY <1>2 DEF Local
<1> QED BY <1>4, <1>7, <1>8 DEF OwnInv

-----------------------------------------------------------------------------
(* The invariant holds *)

LEMMA InitOwn ==
  ASSUME Init
  PROVE  OwnInv
<1>1. DOMAIN blk = {Root} /\ blk[Root].deps = {} /\ blk[Root].acc = NoSource
  BY DEF Init
<1>2. ASSUME NEW n \in Local
      PROVE  OwnMember(n)
  <2>1. /\ rcv[n] = NewReceiver /\ sending[n] = Root /\ queue[n] = <<>> /\ last[n] = Root /\ bproc[n] = {}
        /\ toChain[n] = <<>> /\ toRcv[n] = <<>> /\ ch[n] = NewChain /\ n \in Source
    BY GroupAssumption DEF Init, Local, GroupAssumption
  <2>2. Root \in Block
    BY DEF Block
  <2>3. Slots(rcv[n], rcv[n].objs) /\ Deep(rcv[n].del)
    BY <2>1, <2>2, SMTT(30) DEF NewReceiver, Slots, SlotsBut, Deep
  <2>4. rcv[n].del = {Root} /\ rcv[n].ill = {}
    BY <2>1 DEF NewReceiver
  <2>5. MadeOK(blk, n, {})
    BY <1>1 DEF MadeOK, Apart, Clear
  <2>6. SendingOK(blk, n, Root, Root, {Root}, {}) /\ \A w, bp, E : QueueOK(w, n, bp, E, <<>>)
    BY DEF SendingOK, QueueOK
  <2>7. Making(blk, n, sending[n], last[n], queue[n], bproc[n], rcv[n].del, rcv[n].ill)
    BY <2>1, <2>4, <2>5, <2>6 DEF Making
  <2>8. NewChain.blamed = {} /\ NewChain.blocks = {Root} /\ NewChain.top = {} /\ NewChain.deps = {}
        /\ NewChain.topsrc = [s \in Source |-> Root]
    BY DEF NewChain
  <2>9. TopsOK(n, NewChain)
    BY <2>8 DEF TopsOK, Apart, Clear
  <2>10. OrdersOK(n, {}, {}, {Root}, <<>>) /\ Rising({}, {Root}, <<>>)
    BY DEF OrdersOK, Rising
  <2> QED BY <2>1, <2>3, <2>4, <2>7, <2>8, <2>9, <2>10 DEF OwnMember
<1> QED BY <1>1, <1>2 DEF OwnInv, Chains

LEMMA NextOwn ==
  ASSUME Inv, OwnInv, [Next]_vars
  PROVE  OwnInv'
<1>1. CASE UNCHANGED vars
  <2>1. /\ UNCHANGED setup /\ UNCHANGED blk /\ UNCHANGED rcv /\ UNCHANGED sending /\ UNCHANGED queue /\ UNCHANGED last
        /\ UNCHANGED bproc /\ UNCHANGED pproof /\ UNCHANGED toChain /\ UNCHANGED toRcv /\ UNCHANGED ch
    BY <1>1 DEF vars
  <2>2. Local' = Local /\ Chains(blk')
    BY <2>1 DEF Local, OwnInv
  <2>3. Grown(blk', blk, {})
    BY <2>1 DEF Grown
  <2>4. ASSUME NEW m \in Local
        PROVE  OwnMember(m)'
    <3>1. Other(m)
      BY <2>1 DEF Other
    <3> QED BY <2>3, <3>1, OwnOthers
  <2> QED BY <2>2, <2>4 DEF OwnInv
<1>2. ASSUME NEW n \in Local, NEW b \in DOMAIN blk, ReceiveBlock(n, b)
      PROVE  OwnInv'
  BY <1>2, ReceiveBlockOwn
<1>3. ASSUME NEW n \in Local, NEW s \in Source, GotForkProof(n, s)
      PROVE  OwnInv'
  BY <1>3, GotForkProofOwn
<1>4. ASSUME NEW n \in Local, Start(n) \/ HandleAdd(n) \/ HandleBlameProcessed(n) \/ BlockStored(n)
      PROVE  OwnInv'
  BY <1>4, StartOwn, HandleAddOwn, HandleBlameProcessedOwn, BlockStoredOwn
<1>5. ASSUME NEW n \in Local, ChainStart(n) \/ ChainNewBlock(n) \/ ChainBlame(n)
      PROVE  OwnInv'
  BY <1>5, ChainStartOwn, ChainNewBlockOwn, ChainBlameOwn
<1>6. ASSUME NEW n \in Local, ChainProcessed(n) \/ NeedNewBlock(n) \/ ChainAlarm(n)
      PROVE  OwnInv'
  BY <1>6, ChainProcessedOwn, NeedNewBlockOwn, ChainAlarmOwn
<1>7. ASSUME NEW s \in setup.remote, RemoteBlock(s)
      PROVE  OwnInv'
  BY <1>7, RemoteBlockOwn
<1> QED BY <1>1, <1>2, <1>3, <1>4, <1>5, <1>6, <1>7 DEF Next

LEMMA OwnAcceptable ==
  ASSUME OwnInv
  PROVE  OwnBlocksAcceptable
<1>1. \A n \in Local : /\ SendingOK(blk, n, sending[n], last[n], rcv[n].del, rcv[n].ill)
                       /\ MadeOK(blk, n, bproc[n])
  BY DEF OwnInv, OwnMember, Making
<1>2. OwnBlocksDelivered
  BY <1>1 DEF OwnBlocksDelivered, SendingOK
<1>3. DepsFromOtherSources
  BY <1>1 DEF DepsFromOtherSources, Own, MadeOK, Apart
<1>4. NoDepOnAccused
  BY <1>1 DEF NoDepOnAccused, Own, MadeOK, Clear
<1> QED BY <1>2, <1>3, <1>4 DEF OwnBlocksAcceptable

\* Whatever remote members sign, and however blocks, fork proofs, blames and
\* the answers of the session interleave, the blocks a member makes are ones
\* that every member accepts: it goes on from a block it has delivered (or
\* that is ill), depends on at most one block per source and on none of its
\* own (pre_validate_block), and from its block with a fork proof on never
\* directly on the source accused there (on_blame, on_blame_processed and
\* add_block agree on the order).
THEOREM OwnBlocksAlwaysAcceptable == Spec => []OwnBlocksAcceptable
<1>1. Inv /\ OwnInv /\ [Next]_vars => OwnInv'
  BY NextOwn
<1> QED BY <1>1, InvAlways, InitOwn, OwnAcceptable, PTL DEF Spec
=============================================================================

--------------------------- MODULE CatchainProofs ---------------------------
(***************************************************************************)
(* Theorems about Catchain, for any group: nothing gets stuck in a         *)
(* receiver, vector times are exact, and CatChainImpl is given the blocks  *)
(* as the abstract broadcast promises.                                     *)
(***************************************************************************)
EXTENDS CatchainLemmas

\* Zenon proves most steps, which are about sets and functions; those that it
\* does not find, arithmetic above all, name SMT.
USE ZenonT(20), SMTT(30)

-----------------------------------------------------------------------------
(* The handlers of CatChainImpl *)

\* The first message leaves the mailbox q; H are the blocks it brings.
Took(w, D, q, H) ==
  /\ Tail(q) \in Seq(Event) /\ Range(q) = {Head(q)} \cup Range(Tail(q)) /\ Head(q) \in Event
  /\ H \subseteq DOMAIN w \ D /\ \A b \in H : RefsIn(w, b) \subseteq D
  /\ Causal(w, D \cup H, Tail(q)) /\ D \cup AllNews(q) = (D \cup H) \cup AllNews(Tail(q))

LEMMA TailNews ==
  ASSUME NEW w, NEW D, NEW q \in Seq(Event), q # <<>>, Causal(w, D, q),
         NEW H, H = IF Head(q)[1] = "new" THEN {Head(q)[2]} ELSE {}
  PROVE  Took(w, D, q, H)
<1> DEFINE t == Tail(q)
<1>1. /\ t \in Seq(Event) /\ Len(q) = Len(t) + 1 /\ Head(q) \in Event /\ Head(q) = q[1]
      /\ \A i \in 1 .. Len(t) : t[i] = q[i + 1]
      /\ Range(q) = {Head(q)} \cup Range(t)
  BY TailRange
<1>2. Len(t) \in Nat /\ Len(q) \in Nat
  BY <1>1
<1> HIDE DEF t
<1>3. ASSUME NEW i \in 0 .. Len(t)
      PROVE  News(q, i + 1) = H \cup News(t, i)
  <2>1. ASSUME NEW x \in News(q, i + 1)
        PROVE  x \in H \cup News(t, i)
    <3>1. PICK j \in 1 .. i + 1 : q[j][1] = "new" /\ x = q[j][2]
      BY <2>1 DEF News
    <3>2. CASE j = 1
      BY <1>1, <3>1, <3>2
    <3>3. CASE j # 1
      <4>1. j - 1 \in 1 .. i /\ j - 1 \in 1 .. Len(t) /\ (j - 1) + 1 = j
        BY <1>2, <3>3
      <4>2. t[j - 1] = q[j]
        BY <1>1, <4>1
      <4> QED BY <3>1, <4>1, <4>2 DEF News
    <3> QED BY <3>2, <3>3
  <2>2. ASSUME NEW x \in H
        PROVE  x \in News(q, i + 1)
    <3>1. 1 \in 1 .. i + 1 /\ q[1][1] = "new" /\ x = q[1][2]
      BY <1>1, <2>2
    <3> QED BY <3>1 DEF News
  <2>3. ASSUME NEW x \in News(t, i)
        PROVE  x \in News(q, i + 1)
    <3>1. PICK j \in 1 .. i : t[j][1] = "new" /\ x = t[j][2]
      BY <2>3 DEF News
    <3>2. j \in 1 .. Len(t) /\ j + 1 \in 1 .. i + 1
      BY <1>2
    <3>3. t[j] = q[j + 1]
      BY <1>1, <3>2
    <3> QED BY <3>1, <3>2, <3>3 DEF News
  <2> QED BY <2>1, <2>2, <2>3
<1>4. AllNews(q) = H \cup AllNews(t)
  <2>1. Len(t) \in 0 .. Len(t)
    BY <1>2
  <2> QED BY <1>1, <1>3, <2>1 DEF AllNews
<1>5. H \subseteq DOMAIN w \ D /\ \A b \in H : RefsIn(w, b) \subseteq D
  <2>1. 1 \in 1 .. Len(q) /\ 1 - 1 = 0 /\ 1 .. 0 = {}
    BY <1>1, <1>2
  <2>2. News(q, 0) = {}
    BY <2>1 DEF News
  <2> QED BY <1>1, <2>1, <2>2, SMTT(30) DEF Causal
<1>6. Causal(w, D \cup H, t)
  <2> SUFFICES ASSUME NEW i \in 1 .. Len(t), t[i][1] = "new"
               PROVE  /\ t[i][2] \in DOMAIN w
                      /\ t[i][2] \notin (D \cup H) \cup News(t, i - 1)
                      /\ RefsIn(w, t[i][2]) \subseteq (D \cup H) \cup News(t, i - 1)
    BY DEF Causal
  <2>1. i + 1 \in 1 .. Len(q) /\ i - 1 \in 0 .. Len(t) /\ (i + 1) - 1 = (i - 1) + 1
    BY <1>1, <1>2, SMTT(30)
  <2>2. t[i] = q[i + 1] /\ News(q, (i + 1) - 1) = H \cup News(t, i - 1)
    BY <1>1, <1>3, <2>1
  <2>3. /\ q[i + 1][2] \in DOMAIN w /\ q[i + 1][2] \notin D \cup News(q, (i + 1) - 1)
        /\ RefsIn(w, q[i + 1][2]) \subseteq D \cup News(q, (i + 1) - 1)
    BY <2>1, <2>2 DEF Causal
  <2> QED BY <2>2, <2>3
<1> QED BY <1>1, <1>4, <1>5, <1>6 DEF t, Took

\* A handler of CatChainImpl leaves the receiver and the blocks alone.
LEMMA ChainStep ==
  ASSUME Inv, NEW n \in Local, UNCHANGED <<setup, blk, rcv, sending, queue, last, bproc, pproof>>,
         DOMAIN ch' = Local, \A m \in Local \ {n} : ch'[m] = ch[m],
         DOMAIN toChain' = Local, \A m \in Local \ {n} : toChain'[m] = toChain[m],
         DOMAIN toRcv' = Local, \A m \in Local \ {n} : toRcv'[m] = toRcv[m],
         toRcv'[n] \in Seq(Order(blk)), ChainOK(blk, ch'[n]),
         NewsOK(blk, Asks(n), rcv[n], ch'[n], toChain'[n]),
         BlameOK(Asks(n), rcv[n], bproc[n], pproof[n], toChain'[n], toRcv'[n])
  PROVE  Inv' /\ \A m \in Local \ {n} : Other(m)
<1>1. Asks(n)' = Asks(n) /\ Local' = Local
  BY DEF Asks, Local
<1>2. Member(n) /\ Shape
  BY DEF Inv
<1>3. Member(n)'
  <2>1. /\ RcvOK(blk', rcv'[n]) /\ OwnOK(blk', n, sending'[n], last'[n])
        /\ queue'[n] \in Seq(Request(blk')) /\ toRcv'[n] \in Seq(Order(blk')) /\ ChainOK(blk', ch'[n])
    BY <1>2 DEF Member
  <2> QED BY <1>1, <2>1 DEF Member
<1>4. Shape' /\ \A m \in Local \ {n} : Other(m)
  BY <1>1, <1>2 DEF Shape, Other
<1>5. Grown(blk', blk, {n})
  BY DEF Grown
<1> QED BY <1>3, <1>4, <1>5, OneMember

\* A step of CatChainImpl that takes nothing from the mailbox and sends at
\* most a request for a block.
LEMMA OwnInitiative ==
  ASSUME Inv, NEW n \in Local, UNCHANGED <<setup, blk, rcv, sending, queue, last, bproc, pproof, toChain>>,
         DOMAIN ch' = Local, \A m \in Local \ {n} : ch'[m] = ch[m],
         ChainOK(blk, ch'[n]), ch'[n].blocks = ch[n].blocks,
         \/ toRcv' = toRcv
         \/ \E D \in SUBSET DOMAIN blk : toRcv' = [toRcv EXCEPT ![n] = Append(@, <<"add", D>>)]
  PROVE  Inv' /\ \A m \in Local \ {n} : Other(m)
<1>1. Member(n) /\ Shape
  BY DEF Inv
<1>2. /\ NewsOK(blk, Asks(n), rcv[n], ch'[n], toChain'[n])
      /\ DOMAIN toChain' = Local /\ \A m \in Local \ {n} : toChain'[m] = toChain[m]
  BY <1>1 DEF Member, NewsOK, Shape
<1>3. /\ DOMAIN toRcv' = Local /\ \A m \in Local \ {n} : toRcv'[m] = toRcv[m]
      /\ toRcv'[n] \in Seq(Order(blk)) /\ Range(toRcv[n]) \subseteq Range(toRcv'[n])
  <2>1. CASE toRcv' = toRcv
    BY <1>1, <2>1 DEF Member, Shape
  <2>2. CASE toRcv' # toRcv
    <3>1. PICK D \in SUBSET DOMAIN blk : toRcv' = [toRcv EXCEPT ![n] = Append(@, <<"add", D>>)]
      BY <2>2
    <3> DEFINE t == toRcv[n]
               e == <<"add", D>>
    <3>2. /\ DOMAIN toRcv' = Local /\ toRcv'[n] = Append(t, e) /\ \A m \in Local \ {n} : toRcv'[m] = toRcv[m]
      BY <1>1, <3>1 DEF Shape
    <3>3. t \in Seq(Order(blk)) /\ e \in Order(blk)
      BY <1>1 DEF Member, Order
    <3> HIDE DEF t, e
    <3>4. Append(t, e) \in Seq(Order(blk)) /\ Range(Append(t, e)) = Range(t) \cup {e}
      BY <3>3, AppendRange, SMTT(30)
    <3> QED BY <3>2, <3>4 DEF t
  <2> QED BY <2>1, <2>2
<1>4. BlameOK(Asks(n), rcv[n], bproc[n], pproof[n], toChain'[n], toRcv'[n])
  BY <1>1, <1>3 DEF Member, BlameOK
<1> QED BY <1>2, <1>3, <1>4, ChainStep

\* send_process()
LEMMA SendProcessLemma ==
  ASSUME Graph(blk), NEW c, ChainOK(blk, c), NEW V \in Choice(c)
  PROVE  ChainOK(blk, SendProcess(c, V)) /\ SendProcess(c, V).blocks = c.blocks
<1> DEFINE A == SendProcess(c, V)
<1>1. V \subseteq c.top /\ DOMAIN c = ChainFields
  BY DEF Choice, kSubset, ChainOK
<1>2. /\ DOMAIN A = ChainFields /\ A.blocks = c.blocks /\ A.top = c.top \ V /\ A.deps = V
      /\ A.processed = c.processed \cup Cone(V) /\ A.topsrc = c.topsrc /\ A.blamed = c.blamed
  BY <1>1 DEF SendProcess, ChainFields
<1> HIDE DEF A
<1>3. Cone(V) \subseteq DOMAIN blk
  BY <1>1, SMTT(30) DEF Graph, Cones, Cone, ChainOK
<1> QED BY <1>1, <1>2, <1>3 DEF ChainOK, A

\* One that changes only what says when to make a block.
LEMMA FlagsLemma ==
  ASSUME NEW w, NEW A, NEW c, ChainOK(w, c), DOMAIN A = ChainFields, A.blocks = c.blocks, A.top = c.top,
         A.processed = c.processed, A.deps = c.deps \/ A.deps = {}, A.topsrc = c.topsrc, A.blamed = c.blamed
  PROVE  ChainOK(w, A)
  BY DEF ChainOK

LEMMA ChainProcessedStep ==
  ASSUME Inv, NEW n \in Local, ChainProcessed(n)
  PROVE  /\ Inv' /\ blk' = blk /\ ch'[n].blocks = ch[n].blocks /\ \A m \in Local \ {n} : ch'[m] = ch[m]
         /\ \A m \in Local \ {n} : Other(m)
<1> DEFINE c == ch[n]
<1>1. Member(n) /\ Shape /\ Graph(blk) /\ ChainOK(blk, c) /\ DOMAIN c = ChainFields /\ DOMAIN ch = Local
  BY DEF Inv, Member, ChainOK, Shape
<1>2. /\ UNCHANGED <<setup, blk, rcv, sending, queue, last, bproc, pproof, toChain>>
      /\ \E D \in SUBSET DOMAIN blk : toRcv' = [toRcv EXCEPT ![n] = Append(@, <<"add", D>>)]
  BY <1>1 DEF ChainProcessed, ChainOK
<1>3. /\ DOMAIN ch' = Local /\ \A m \in Local \ {n} : ch'[m] = ch[m]
      /\ ChainOK(blk, ch'[n]) /\ ch'[n].blocks = c.blocks
  <2>1. CASE \E V \in Choice(c) : ch' = [ch EXCEPT ![n] = SendProcess([@ EXCEPT !.force = FALSE], V)]
    <3>1. PICK V \in Choice(c) : ch' = [ch EXCEPT ![n] = SendProcess([@ EXCEPT !.force = FALSE], V)]
      BY <2>1
    <3> DEFINE d == [c EXCEPT !.force = FALSE]
    <3>2. DOMAIN ch' = Local /\ ch'[n] = SendProcess(d, V) /\ \A m \in Local \ {n} : ch'[m] = ch[m]
      BY <1>1, <3>1
    <3>3. /\ DOMAIN d = ChainFields /\ d.blocks = c.blocks /\ d.top = c.top /\ d.processed = c.processed
          /\ d.deps = c.deps /\ d.topsrc = c.topsrc /\ d.blamed = c.blamed
      BY <1>1 DEF ChainFields
    <3> HIDE DEF d, c
    <3>4. ChainOK(blk, d) /\ V \in Choice(d)
      BY <1>1, <3>3, FlagsLemma DEF Choice
    <3> QED BY <1>1, <3>2, <3>3, <3>4, SendProcessLemma
  <2>2. CASE ch' = [ch EXCEPT ![n].active = FALSE, ![n].alarm = TRUE, ![n].deps = {}]
    <3> DEFINE d == [c EXCEPT !.active = FALSE, !.alarm = TRUE, !.deps = {}]
    <3>1. DOMAIN ch' = Local /\ ch'[n] = d /\ \A m \in Local \ {n} : ch'[m] = ch[m]
      BY <1>1, <2>2
    <3>2. /\ DOMAIN d = ChainFields /\ d.blocks = c.blocks /\ d.top = c.top /\ d.processed = c.processed
          /\ d.deps = {} /\ d.topsrc = c.topsrc /\ d.blamed = c.blamed
      BY <1>1 DEF ChainFields
    <3> HIDE DEF d, c
    <3> QED BY <1>1, <3>1, <3>2, FlagsLemma
  <2> QED BY <2>1, <2>2 DEF ChainProcessed
<1> QED BY <1>2, <1>3, OwnInitiative

LEMMA NeedNewBlockStep ==
  ASSUME Inv, NEW n \in Local, NeedNewBlock(n)
  PROVE  /\ Inv' /\ blk' = blk /\ ch'[n].blocks = ch[n].blocks /\ \A m \in Local \ {n} : ch'[m] = ch[m]
         /\ \A m \in Local \ {n} : Other(m)
<1> DEFINE c == ch[n]
           d == [c EXCEPT !.force = @ \/ c.active, !.alarm = @ \/ ~ c.active]
<1>1. DOMAIN ch = Local /\ ChainOK(blk, c) /\ DOMAIN c = ChainFields
  BY DEF Inv, Member, ChainOK, Shape
<1>2. /\ ch' = [ch EXCEPT ![n].force = @ \/ ch[n].active, ![n].alarm = @ \/ ~ ch[n].active]
      /\ UNCHANGED <<setup, blk, rcv, sending, queue, last, bproc, pproof, toChain, toRcv>>
  BY DEF NeedNewBlock
<1>3. DOMAIN ch' = Local /\ ch'[n] = d /\ \A m \in Local \ {n} : ch'[m] = ch[m]
  BY <1>1, <1>2
<1>4. /\ DOMAIN d = ChainFields /\ d.blocks = c.blocks /\ d.top = c.top /\ d.processed = c.processed
      /\ d.deps = c.deps /\ d.topsrc = c.topsrc /\ d.blamed = c.blamed
  BY <1>1 DEF ChainFields
<1> HIDE DEF d, c
<1>5. ChainOK(blk, d)
  BY <1>1, <1>4, FlagsLemma
<1> QED BY <1>2, <1>3, <1>4, <1>5, OwnInitiative DEF c

LEMMA ChainAlarmStep ==
  ASSUME Inv, NEW n \in Local, ChainAlarm(n)
  PROVE  /\ Inv' /\ blk' = blk /\ ch'[n].blocks = ch[n].blocks /\ \A m \in Local \ {n} : ch'[m] = ch[m]
         /\ \A m \in Local \ {n} : Other(m)
<1> DEFINE c == ch[n]
           d == [c EXCEPT !.alarm = FALSE]
<1>1. DOMAIN ch = Local /\ ChainOK(blk, c) /\ DOMAIN c = ChainFields /\ Graph(blk)
  BY DEF Inv, Member, ChainOK, Shape
<1>2. UNCHANGED <<setup, blk, rcv, sending, queue, last, bproc, pproof, toChain, toRcv>>
  BY DEF ChainAlarm
<1>3. /\ DOMAIN d = ChainFields /\ d.blocks = c.blocks /\ d.top = c.top /\ d.processed = c.processed
      /\ d.deps = c.deps /\ d.topsrc = c.topsrc /\ d.blamed = c.blamed
  BY <1>1 DEF ChainFields
<1>4. /\ DOMAIN ch' = Local /\ \A m \in Local \ {n} : ch'[m] = ch[m]
      /\ ch'[n] = d \/ \E V \in Choice(c) : ch'[n] = SendProcess(d, V)
  <2>1. CASE c.active
    BY <1>1, <2>1 DEF ChainAlarm
  <2>2. CASE ~ c.active
    <3>1. PICK V \in Choice(c) : ch' = [ch EXCEPT ![n] = SendProcess([@ EXCEPT !.alarm = FALSE], V)]
      BY <2>2 DEF ChainAlarm
    <3>2. ch'[n] = SendProcess(d, V)
      BY <1>1, <3>1
    <3> QED BY <1>1, <3>1, <3>2
  <2> QED BY <2>1, <2>2
<1> HIDE DEF d
<1>5. ChainOK(blk, d) /\ Choice(d) = Choice(c)
  <2> HIDE DEF c
  <2> QED BY <1>1, <1>3, FlagsLemma DEF Choice
<1>6. ChainOK(blk, ch'[n]) /\ ch'[n].blocks = c.blocks
  <2> HIDE DEF c
  <2> QED BY <1>1, <1>3, <1>4, <1>5, SendProcessLemma, SMTT(30)
<1> QED BY <1>2, <1>4, <1>6, OwnInitiative

\* on_receiver_started()
LEMMA ChainStartStep ==
  ASSUME Inv, NEW n \in Local, ChainStart(n)
  PROVE  /\ Inv' /\ blk' = blk /\ ch'[n].blocks = ch[n].blocks /\ \A m \in Local \ {n} : ch'[m] = ch[m]
         /\ \A m \in Local \ {n} : Other(m)
<1> DEFINE c == ch[n]
           d == [c EXCEPT !.started = TRUE]
           q == toChain[n]
           t == toRcv[n]
<1>1. /\ Member(n) /\ DOMAIN ch = Local /\ DOMAIN toChain = Local /\ DOMAIN toRcv = Local
      /\ ChainOK(blk, c) /\ DOMAIN c = ChainFields /\ Graph(blk)
  BY DEF Inv, Member, ChainOK, Shape
<1>2. /\ UNCHANGED <<setup, blk, rcv, sending, queue, last, bproc, pproof, toRcv>>
      /\ q # <<>> /\ Head(q)[1] = "start" /\ toChain' = [toChain EXCEPT ![n] = Tail(@)]
  BY DEF ChainStart
<1>3. DOMAIN toChain' = Local /\ toChain'[n] = Tail(q) /\ \A m \in Local \ {n} : toChain'[m] = toChain[m]
  BY <1>1, <1>2
<1>4. PICK V \in Choice(c) : ch' = [ch EXCEPT ![n] = SendProcess([@ EXCEPT !.started = TRUE], V)]
  BY DEF ChainStart
<1>5. DOMAIN ch' = Local /\ ch'[n] = SendProcess(d, V) /\ \A m \in Local \ {n} : ch'[m] = ch[m]
  BY <1>1, <1>4
<1>6. /\ DOMAIN d = ChainFields /\ d.blocks = c.blocks /\ d.top = c.top /\ d.processed = c.processed
      /\ d.deps = c.deps /\ d.topsrc = c.topsrc /\ d.blamed = c.blamed
  BY <1>1 DEF ChainFields
<1>7. /\ q \in Seq(Event) /\ Causal(blk, c.blocks, q) /\ NewsOK(blk, Asks(n), rcv[n], c, q)
      /\ BlameOK(Asks(n), rcv[n], bproc[n], pproof[n], q, t) /\ t \in Seq(Order(blk))
  BY <1>1 DEF Member, NewsOK
<1> HIDE DEF c, d, q, t
<1>8. ChainOK(blk, ch'[n]) /\ ch'[n].blocks = c.blocks
  <2>1. ChainOK(blk, d) /\ V \in Choice(d)
    BY <1>1, <1>6, FlagsLemma DEF Choice
  <2> QED BY <1>1, <1>5, <1>6, <2>1, SendProcessLemma
<1>9. /\ Tail(q) \in Seq(Event) /\ Range(q) = {Head(q)} \cup Range(Tail(q))
      /\ Causal(blk, c.blocks, Tail(q)) /\ c.blocks \cup AllNews(q) = c.blocks \cup AllNews(Tail(q))
  <2> DEFINE H == IF Head(q)[1] = "new" THEN {Head(q)[2]} ELSE {}
  <2>1. H = {} /\ H = IF Head(q)[1] = "new" THEN {Head(q)[2]} ELSE {}
    BY <1>2
  <2> HIDE DEF H
  <2>2. /\ Tail(q) \in Seq(Event) /\ Range(q) = {Head(q)} \cup Range(Tail(q))
        /\ Causal(blk, c.blocks \cup H, Tail(q)) /\ c.blocks \cup AllNews(q) = (c.blocks \cup H) \cup AllNews(Tail(q))
    <3> DEFINE B == c.blocks
    <3>1. Causal(blk, B, q) /\ q \in Seq(Event) /\ q # <<>>
      BY <1>2, <1>7
    <3> HIDE DEF B
    <3>2. Took(blk, B, q, H)
      BY <2>1, <3>1, TailNews
    <3> QED BY <3>2 DEF B, Took
  <2>3. c.blocks \cup H = c.blocks
    BY <2>1
  <2> QED BY <2>2, <2>3
<1>10. NewsOK(blk, Asks(n), rcv[n], ch'[n], toChain'[n])
  BY <1>2, <1>3, <1>7, <1>8, <1>9 DEF NewsOK
<1>11. BlameOK(Asks(n), rcv[n], bproc[n], pproof[n], toChain'[n], toRcv'[n])
  <2>1. \A s : <<"blame", s>> # Head(q)
    <3>1. \A s : <<"blame", s>>[1] = "blame"
      OBVIOUS
    <3> QED BY <1>2, <3>1
  <2>2. \A s : <<"blame", s>> \in Range(q) => <<"blame", s>> \in Range(Tail(q))
    BY <1>9, <2>1
  <2>3. toRcv'[n] = t /\ toChain'[n] = Tail(q)
    BY <1>2, <1>3 DEF t
  <2> QED BY <1>7, <2>2, <2>3 DEF BlameOK
<1>12. toRcv'[n] \in Seq(Order(blk)) /\ DOMAIN toRcv' = Local /\ \A m \in Local \ {n} : toRcv'[m] = toRcv[m]
  BY <1>1, <1>2, <1>7 DEF t
<1>13. Inv' /\ \A m \in Local \ {n} : Other(m)
  BY <1>2, <1>3, <1>5, <1>8, <1>10, <1>11, <1>12, ChainStep
<1> QED BY <1>2, <1>5, <1>8, <1>13 DEF c

\* on_new_block(): the block is new to CatChainImpl, its references are not.
LEMMA ChainNewBlockStep ==
  ASSUME Inv, NEW n \in Local, ChainNewBlock(n)
  PROVE  /\ Inv' /\ blk' = blk /\ \A m \in Local \ {n} : ch'[m] = ch[m] /\ Other(m)
         /\ \E b \in DOMAIN blk \ ch[n].blocks :
              RefsIn(blk, b) \subseteq ch[n].blocks /\ ch'[n].blocks = ch[n].blocks \cup {b}
<1> DEFINE c == ch[n]
           q == toChain[n]
           t == toRcv[n]
           b == Head(q)[2]
           ok == Src(b) \notin c.blamed
           top == TopAfterNew(n, c, b)
           d == [c EXCEPT !.blocks = Record(n, c, b), !.top = top,
                          !.topsrc = IF ok THEN [@ EXCEPT ![Src(b)] = b] ELSE @,
                          !.pre = IF ok THEN @ \cup Cone({b}) ELSE @,
                          !.alarm = @ \/ (~ c.active /\ c.started /\ (c.top = {} \/ (ok /\ top = {})))]
<1>1. /\ Member(n) /\ DOMAIN ch = Local /\ DOMAIN toChain = Local /\ DOMAIN toRcv = Local
      /\ ChainOK(blk, c) /\ DOMAIN c = ChainFields /\ Graph(blk)
  BY DEF Inv, Member, ChainOK, Shape
<1>2. /\ UNCHANGED <<setup, blk, rcv, sending, queue, last, bproc, pproof, toRcv>>
      /\ q # <<>> /\ Head(q)[1] = "new" /\ toChain' = [toChain EXCEPT ![n] = Tail(@)]
      /\ ch' = [ch EXCEPT ![n] = d]
  BY DEF ChainNewBlock
<1>3. /\ DOMAIN toChain' = Local /\ toChain'[n] = Tail(q) /\ \A m \in Local \ {n} : toChain'[m] = toChain[m]
  BY <1>1, <1>2
<1>4. /\ q \in Seq(Event) /\ Causal(blk, c.blocks, q) /\ NewsOK(blk, Asks(n), rcv[n], c, q)
      /\ BlameOK(Asks(n), rcv[n], bproc[n], pproof[n], q, t) /\ t \in Seq(Order(blk))
  BY <1>1 DEF Member, NewsOK
<1>5. /\ DOMAIN d = ChainFields /\ d.blocks = c.blocks \cup {b} /\ d.top = top /\ d.processed = c.processed
      /\ d.deps = c.deps /\ d.blamed = c.blamed
      /\ d.topsrc = IF ok THEN [c.topsrc EXCEPT ![Src(b)] = b] ELSE c.topsrc
  <2> HIDE DEF c, b, ok, top
  <2> QED BY <1>1 DEF ChainFields, Record
<1> HIDE DEF d
<1>6. DOMAIN ch' = Local /\ ch'[n] = d /\ \A m \in Local \ {n} : ch'[m] = ch[m]
  BY <1>1, <1>2
<1>7. top \subseteq c.top \cup {b}
  BY DEF TopAfterNew
<1> HIDE DEF c, q, t, b, top
<1>8. /\ Tail(q) \in Seq(Event) /\ Range(q) = {Head(q)} \cup Range(Tail(q))
      /\ b \in DOMAIN blk \ c.blocks /\ RefsIn(blk, b) \subseteq c.blocks
      /\ Causal(blk, c.blocks \cup {b}, Tail(q))
      /\ c.blocks \cup AllNews(q) = (c.blocks \cup {b}) \cup AllNews(Tail(q))
  <2>1. {b} = IF Head(q)[1] = "new" THEN {Head(q)[2]} ELSE {}
    BY <1>2 DEF b
  <2> DEFINE H == {b}
  <2> HIDE DEF H
  <2>2. H = IF Head(q)[1] = "new" THEN {Head(q)[2]} ELSE {}
    BY <2>1 DEF H
  <2>3. /\ Tail(q) \in Seq(Event) /\ Range(q) = {Head(q)} \cup Range(Tail(q))
        /\ H \subseteq DOMAIN blk \ c.blocks /\ \A x \in H : RefsIn(blk, x) \subseteq c.blocks
        /\ Causal(blk, c.blocks \cup H, Tail(q)) /\ c.blocks \cup AllNews(q) = (c.blocks \cup H) \cup AllNews(Tail(q))
    <3> DEFINE B == c.blocks
    <3>1. Causal(blk, B, q) /\ q \in Seq(Event) /\ q # <<>>
      BY <1>2, <1>4
    <3> HIDE DEF B
    <3>2. Took(blk, B, q, H)
      BY <2>2, <3>1, TailNews
    <3> QED BY <3>2 DEF B, Took
  <2> QED BY <2>3 DEF H
<1>9. ChainOK(blk, d)
  <2>1. d.topsrc \in [Source -> DOMAIN blk]
    BY <1>1, <1>5, <1>8 DEF ChainOK
  <2>2. d.blocks \subseteq DOMAIN blk /\ d.top \subseteq DOMAIN blk
    BY <1>1, <1>5, <1>7, <1>8 DEF ChainOK
  <2> QED BY <1>1, <1>5, <2>1, <2>2 DEF ChainOK
<1>10. NewsOK(blk, Asks(n), rcv[n], ch'[n], toChain'[n])
  BY <1>2, <1>3, <1>4, <1>5, <1>6, <1>8 DEF NewsOK
<1>11. BlameOK(Asks(n), rcv[n], bproc[n], pproof[n], toChain'[n], toRcv'[n])
  <2>1. \A s : <<"blame", s>> # Head(q)
    <3>1. \A s : <<"blame", s>>[1] = "blame"
      OBVIOUS
    <3> QED BY <1>2, <3>1
  <2>2. \A s : <<"blame", s>> \in Range(q) => <<"blame", s>> \in Range(Tail(q))
    BY <1>8, <2>1
  <2>3. toRcv'[n] = t /\ toChain'[n] = Tail(q)
    BY <1>2, <1>3 DEF t
  <2> QED BY <1>4, <2>2, <2>3 DEF BlameOK
<1>12. toRcv'[n] \in Seq(Order(blk)) /\ DOMAIN toRcv' = Local /\ \A m \in Local \ {n} : toRcv'[m] = toRcv[m]
  BY <1>1, <1>2, <1>4 DEF t
<1>13. Inv' /\ \A m \in Local \ {n} : Other(m)
  BY <1>2, <1>3, <1>6, <1>9, <1>10, <1>11, <1>12, ChainStep
<1> QED BY <1>2, <1>5, <1>6, <1>8, <1>13 DEF c

\* on_blame()
LEMMA ChainBlameStep ==
  ASSUME Inv, NEW n \in Local, ChainBlame(n)
  PROVE  /\ Inv' /\ blk' = blk /\ ch'[n].blocks = ch[n].blocks /\ \A m \in Local \ {n} : ch'[m] = ch[m]
         /\ \A m \in Local \ {n} : Other(m)
<1> DEFINE c == ch[n]
           q == toChain[n]
           t == toRcv[n]
           s == Head(q)[2]
           e == <<"blamed", s>>
           blamed == c.blamed \cup {s}
           top == TopAfterBlame(n, blamed)
           deps == DepsAfterBlame(n, s)
           d == [c EXCEPT !.blamed = blamed, !.topsrc[s] = Root, !.top = top, !.deps = deps]
<1>1. /\ Member(n) /\ DOMAIN ch = Local /\ DOMAIN toChain = Local /\ DOMAIN toRcv = Local
      /\ ChainOK(blk, c) /\ DOMAIN c = ChainFields /\ Graph(blk)
  BY DEF Inv, Member, ChainOK, Shape
<1>2. /\ UNCHANGED <<setup, blk, rcv, sending, queue, last, bproc, pproof>>
      /\ q # <<>> /\ Head(q)[1] = "blame" /\ toChain' = [toChain EXCEPT ![n] = Tail(@)]
      /\ ch' = [ch EXCEPT ![n].blamed = blamed, ![n].topsrc[s] = Root, ![n].top = top, ![n].deps = deps]
      /\ toRcv' = [toRcv EXCEPT ![n] = Append(@, e)]
  BY DEF ChainBlame
<1>3. /\ DOMAIN toChain' = Local /\ toChain'[n] = Tail(q) /\ \A m \in Local \ {n} : toChain'[m] = toChain[m]
      /\ DOMAIN toRcv' = Local /\ toRcv'[n] = Append(t, e) /\ \A m \in Local \ {n} : toRcv'[m] = toRcv[m]
  <2> HIDE DEF e
  <2> QED BY <1>1, <1>2
<1>4. /\ q \in Seq(Event) /\ Causal(blk, c.blocks, q) /\ NewsOK(blk, Asks(n), rcv[n], c, q)
      /\ BlameOK(Asks(n), rcv[n], bproc[n], pproof[n], q, t) /\ t \in Seq(Order(blk))
  BY <1>1 DEF Member, NewsOK
<1>5. top \subseteq DOMAIN blk /\ deps \subseteq DOMAIN blk
  <2>1. \A x \in Source : Newest(n, x, blamed) \in DOMAIN blk
    BY <1>1 DEF Newest, ChainOK, Graph, World
  <2> QED BY <1>1, <2>1 DEF TopAfterBlame, DepsAfterBlame, ChainOK
<1>6. DOMAIN ch' = Local /\ ch'[n] = d /\ \A m \in Local \ {n} : ch'[m] = ch[m]
  <2> HIDE DEF s, blamed, top, deps
  <2> QED BY <1>1, <1>2
<1>7. /\ DOMAIN d = ChainFields /\ d.blocks = c.blocks /\ d.top = top /\ d.processed = c.processed
      /\ d.deps = deps /\ d.blamed = blamed /\ d.topsrc = [c.topsrc EXCEPT ![s] = Root]
  <2> HIDE DEF c, s, blamed, top, deps
  <2> QED BY <1>1 DEF ChainFields
<1> HIDE DEF c, q, t, s, e, top, deps, d
<1>8. /\ Tail(q) \in Seq(Event) /\ Range(q) = {Head(q)} \cup Range(Tail(q)) /\ Head(q) \in Event
      /\ Causal(blk, c.blocks, Tail(q)) /\ c.blocks \cup AllNews(q) = c.blocks \cup AllNews(Tail(q))
  <2> DEFINE H == IF Head(q)[1] = "new" THEN {Head(q)[2]} ELSE {}
  <2>1. H = {} /\ H = IF Head(q)[1] = "new" THEN {Head(q)[2]} ELSE {}
    BY <1>2
  <2> HIDE DEF H
  <2>2. /\ Tail(q) \in Seq(Event) /\ Range(q) = {Head(q)} \cup Range(Tail(q)) /\ Head(q) \in Event
        /\ Causal(blk, c.blocks \cup H, Tail(q)) /\ c.blocks \cup AllNews(q) = (c.blocks \cup H) \cup AllNews(Tail(q))
    <3> DEFINE B == c.blocks
    <3>1. Causal(blk, B, q) /\ q \in Seq(Event) /\ q # <<>>
      BY <1>2, <1>4
    <3> HIDE DEF B
    <3>2. Took(blk, B, q, H)
      BY <2>1, <3>1, TailNews
    <3> QED BY <3>2 DEF B, Took
  <2>3. c.blocks \cup H = c.blocks
    BY <2>1
  <2> QED BY <2>2, <2>3
<1>9. s \in Source /\ Head(q) = <<"blame", s>>
  <2> DEFINE h == Head(q)
  <2>1. h \in Event /\ h[1] = "blame" /\ s = h[2]
    BY <1>2, <1>8 DEF s
  <2> HIDE DEF h
  <2>2. s \in Source /\ h = <<"blame", s>>
    BY <2>1 DEF Event
  <2> QED BY <2>2 DEF h
<1>10. Append(t, e) \in Seq(Order(blk)) /\ Range(Append(t, e)) = Range(t) \cup {e}
  <2>1. e \in Order(blk)
    BY <1>9 DEF e, Order
  <2> QED BY <1>4, <2>1, AppendRange, SMTT(30)
<1>11. ChainOK(blk, d)
  <2>1. d.topsrc \in [Source -> DOMAIN blk]
    BY <1>1, <1>7 DEF ChainOK, Graph, World
  <2>2. d.blamed \subseteq Source
    BY <1>1, <1>7, <1>9 DEF ChainOK
  <2> QED BY <1>1, <1>5, <1>7, <2>1, <2>2 DEF ChainOK
<1>12. NewsOK(blk, Asks(n), rcv[n], ch'[n], toChain'[n])
  BY <1>2, <1>3, <1>4, <1>6, <1>7, <1>8 DEF NewsOK
<1>13. BlameOK(Asks(n), rcv[n], bproc[n], pproof[n], toChain'[n], toRcv'[n])
  <2>1. \A x : <<"blame", x>> \in Range(q) => <<"blame", x>> \in Range(Tail(q)) \/ <<"blamed", x>> \in Range(toRcv'[n])
    <3>1. \A x : <<"blame", x>> = <<"blame", s>> => <<"blamed", x>> = e
      BY DEF e
    <3> QED BY <1>3, <1>8, <1>9, <1>10, <3>1
  <2>2. \A x : <<"blamed", x>> \in Range(t) => <<"blamed", x>> \in Range(toRcv'[n])
    BY <1>3, <1>10
  <2> DEFINE p == Tail(q)
             u == toRcv'[n]
  <2>3. toChain'[n] = p
    BY <1>3
  <2> HIDE DEF p, u
  <2>4. \A x : <<"blame", x>> \in Range(q) => <<"blame", x>> \in Range(p) \/ <<"blamed", x>> \in Range(u)
    BY <2>1 DEF p, u
  <2>5. \A x : <<"blamed", x>> \in Range(t) => <<"blamed", x>> \in Range(u)
    BY <2>2 DEF u
  <2>6. BlameOK(Asks(n), rcv[n], bproc[n], pproof[n], p, u)
    BY <1>4, <2>4, <2>5 DEF BlameOK
  <2> QED BY <2>3, <2>6 DEF u
<1>14. Inv' /\ \A m \in Local \ {n} : Other(m)
  BY <1>2, <1>3, <1>6, <1>10, <1>11, <1>12, <1>13, ChainStep
<1> QED BY <1>2, <1>6, <1>7, <1>14 DEF c

-----------------------------------------------------------------------------
(* The invariant holds *)

LEMMA RemoteBlockStep ==
  ASSUME Inv, NEW s \in setup.remote, RemoteBlock(s)
  PROVE  Inv' /\ Grown(blk', blk, {s}) /\ ch' = ch
<1>1. /\ s \in Source /\ s \notin Local /\ setup.accuse[s] \subseteq Source
      /\ \A hv \in setup.blocks[s] : hv \in (Nat \ {0}) \X Nat
  BY GroupAssumption DEF Inv, GroupAssumption, Local
<1>2. UNCHANGED <<setup, rcv, sending, queue, last, bproc, pproof, toChain, toRcv, ch>>
  BY DEF RemoteBlock
<1>3. PICK hv \in setup.blocks[s], p \in DOMAIN blk, a \in {NoSource} \cup setup.accuse[s],
           D \in UNION {kSubset(k, Published) : k \in 0 .. setup.deps[s]} :
        /\ <<s, hv[1], hv[2]>> \notin DOMAIN blk /\ Height(p) + 1 = hv[1]
        /\ blk' = Signed(<<s, hv[1], hv[2]>>, p, D, a)
  BY DEF RemoteBlock
<1> DEFINE b == <<s, hv[1], hv[2]>>
<1>4. b \in Block /\ Src(b) = s /\ Height(b) = hv[1]
  BY <1>1 DEF Block, Src, Height
<1>5. D \in SUBSET DOMAIN blk
  BY DEF kSubset, Published
<1> HIDE DEF b
<1>6. Added(blk', blk, b, p, D, a)
  <2>1. b \notin DOMAIN blk /\ Height(b) = Height(p) + 1 /\ blk' = Signed(b, p, D, a) /\ a \in Source \cup {NoSource}
    BY <1>1, <1>3, <1>4 DEF b
  <2> QED BY <1>4, <1>5, <2>1 DEF Added, Signed, Cone
<1>7. Grown(blk', blk, {s})
  BY <1>4, <1>6 DEF Grown
<1>8. ASSUME NEW m \in Local
      PROVE  Member(m)'
  <2>1. Other(m)
    BY <1>2 DEF Other
  <2> QED BY <1>1, <1>2, <1>7, <2>1, OtherMembers, SMTT(30)
<1>9. Local' = Local /\ Graph(blk')
  BY <1>2, <1>7, GrownGraph DEF Inv, Local
<1>10. Shape' /\ (setup \in Setups)'
  BY <1>2, <1>9 DEF Inv, Shape
<1>11. Inv'
  BY <1>8, <1>9, <1>10 DEF Inv
<1> QED BY <1>2, <1>7, <1>11

LEMMA FirstBlock ==
  ASSUME NEW w, w = [b \in {Root} |-> [prev |-> Root, deps |-> {}, acc |-> NoSource, cone |-> {Root}]]
  PROVE  Graph(w) /\ DOMAIN w = {Root} /\ RefsIn(w, Root) = {Root} /\ w[Root].cone = {Root}
<1>1. /\ DOMAIN w = {Root} /\ w[Root].prev = Root /\ w[Root].deps = {} /\ w[Root].acc = NoSource
      /\ w[Root].cone = {Root}
  OBVIOUS
<1>2. RefsIn(w, Root) = {Root} /\ IsFiniteSet({Root})
  BY <1>1, FS_Singleton DEF RefsIn
<1>3. World(w)
  BY <1>1, <1>2 DEF World, Block
<1>4. Cones(w)
  BY <1>1 DEF Cones
<1> QED BY <1>1, <1>2, <1>3, <1>4 DEF Graph

LEMMA FirstReceiver ==
  ASSUME NEW w, DOMAIN w = {Root}, RefsIn(w, Root) = {Root}, w[Root].cone = {Root}
  PROVE  RcvOK(w, NewReceiver) /\ NewReceiver.del = {Root} /\ NewReceiver.blamed = {}
<1> DEFINE R == NewReceiver
<1>1. /\ DOMAIN R = Fields /\ R.objs = {Root} /\ R.wait = <<>> /\ R.del = {Root} /\ R.ill = {}
      /\ R.torun = <<>> /\ R.out = <<>> /\ R.found = <<>> /\ R.blamed = {}
  BY DEF NewReceiver, Fields
<1>2. R.fork = [b \in {Root} |-> 0] /\ R.vt = [b \in {Root} |-> <<>>] /\ R.next = {} /\ R.nforks = 0
  BY DEF NewReceiver, NoVt
<1> HIDE DEF R
<1>3. <<>> \in Seq(R.objs) /\ Range(<<>>) = {} /\ IsInjective(<<>>)
  BY DEF Range, IsInjective
<1>4. Sane(w, R) /\ Ready(w, R, {})
  BY <1>1, <1>3 DEF Sane, Ready
<1>5. Timed(w, R, {Root})
  <2>1. DOMAIN R.fork = {Root} /\ DOMAIN R.vt = {Root} /\ R.vt[Root] = <<>> /\ DOMAIN <<>> = {}
    BY <1>2, SMTT(30)
  <2>2. \A g : At(R.vt[Root], g) = 0
    BY <2>1 DEF At
  <2>3. ~ (0 > 0) /\ 0 \in Nat
    OBVIOUS
  <2> QED BY <1>2, <2>1, <2>2, <2>3, SMTT(30) DEF Timed, Times
<1> QED BY <1>1, <1>4, <1>5 DEF RcvOK, R

LEMMA InitInv ==
  ASSUME Init
  PROVE  Inv
<1>1. Graph(blk) /\ DOMAIN blk = {Root} /\ RefsIn(blk, Root) = {Root} /\ blk[Root].cone = {Root} /\ setup \in Setups
  BY FirstBlock DEF Init
<1>2. Shape
  BY DEF Init, Shape
<1>3. ASSUME NEW n \in Local
      PROVE  Member(n)
  <2>1. /\ rcv[n] = NewReceiver /\ sending[n] = Root /\ queue[n] = <<>> /\ last[n] = Root /\ bproc[n] = {}
        /\ pproof[n] = {} /\ toChain[n] = <<>> /\ toRcv[n] = <<>> /\ ch[n] = NewChain
    BY DEF Init
  <2>2. RcvOK(blk, rcv[n]) /\ rcv[n].del = {Root} /\ rcv[n].blamed = {}
    BY <1>1, <2>1, FirstReceiver
  <2>3. MaxHeight \in Nat /\ Height(Root) = 0
    BY GroupAssumption DEF GroupAssumption, Height, Root
  <2>4. OwnOK(blk, n, sending[n], last[n])
    BY <1>1, <2>1, <2>3, SMTT(30) DEF OwnOK
  <2>5. queue[n] \in Seq(Request(blk)) /\ toRcv[n] \in Seq(Order(blk)) /\ toChain[n] \in Seq(Event)
    BY <2>1
  <2>6. /\ DOMAIN NewChain = ChainFields /\ NewChain.blocks = {Root} /\ NewChain.top = {}
        /\ NewChain.processed = {Root} /\ NewChain.deps = {} /\ NewChain.blamed = {}
        /\ NewChain.topsrc = [s \in Source |-> Root]
    BY DEF NewChain, ChainFields
  <2>7. ChainOK(blk, ch[n])
    BY <1>1, <2>1, <2>6 DEF ChainOK
  <2>8. NewsOK(blk, Asks(n), rcv[n], ch[n], toChain[n])
    <3>1. <<>> \in Seq(Event) /\ Range(<<>>) = {}
      BY DEF Range
    <3>2. Causal(blk, {Root}, <<>>) /\ AllNews(<<>>) = {}
      BY <3>1, CausalQuiet
    <3> QED BY <2>1, <2>2, <2>6, <3>1, <3>2 DEF NewsOK
  <2>9. BlameOK(Asks(n), rcv[n], bproc[n], pproof[n], toChain[n], toRcv[n])
    BY <2>1, <2>2 DEF BlameOK
  <2> QED BY <2>2, <2>4, <2>5, <2>7, <2>8, <2>9 DEF Member
<1> QED BY <1>1, <1>2, <1>3 DEF Inv

\* What a step does to the blocks and to what CatChainImpl has been given.
Gives(n) ==
  /\ blk' = blk /\ \A m \in Local \ {n} : ch'[m] = ch[m]
  /\ \E b \in DOMAIN blk \ ch[n].blocks :
       RefsIn(blk, b) \subseteq ch[n].blocks /\ ch'[n].blocks = ch[n].blocks \cup {b}
Makes == (\E S : Grown(blk', blk, S)) /\ \A m \in Local : ch'[m].blocks = ch[m].blocks

LEMMA NextInv ==
  ASSUME Inv, [Next]_vars
  PROVE  Inv' /\ setup' = setup /\ (Makes \/ \E n \in Local : Gives(n))
<1>0. ASSUME ch' = ch, NEW S, Grown(blk', blk, S)
      PROVE  Makes
  BY <1>0 DEF Makes
<1>1. CASE UNCHANGED vars
  <2>1. /\ UNCHANGED setup /\ UNCHANGED blk /\ UNCHANGED rcv /\ UNCHANGED sending /\ UNCHANGED queue /\ UNCHANGED last
        /\ UNCHANGED bproc /\ UNCHANGED pproof /\ UNCHANGED toChain /\ UNCHANGED toRcv /\ UNCHANGED ch
    BY <1>1 DEF vars
  <2>2. Inv'
    BY <2>1 DEF Inv, Shape, Member, Local, Asks
  <2>3. Grown(blk', blk, {})
    BY <2>1 DEF Grown
  <2> QED BY <1>0, <2>1, <2>2, <2>3
<1>2. ASSUME NEW n \in Local, NEW b \in DOMAIN blk, ReceiveBlock(n, b)
      PROVE  Inv' /\ Makes /\ setup' = setup
  <2>1. Inv' /\ Grown(blk', blk, {n}) /\ ch' = ch
    BY <1>2, ReceiveBlockStep
  <2> QED BY <1>0, <1>2, <2>1 DEF ReceiveBlock
<1>3. ASSUME NEW n \in Local, NEW s \in Source, GotForkProof(n, s)
      PROVE  Inv' /\ Makes /\ setup' = setup
  <2>1. Inv' /\ Grown(blk', blk, {n}) /\ ch' = ch
    BY <1>3, GotForkProofStep
  <2> QED BY <1>0, <1>3, <2>1 DEF GotForkProof
<1>4. ASSUME NEW n \in Local, Start(n) \/ HandleAdd(n) \/ HandleBlameProcessed(n) \/ BlockStored(n)
      PROVE  Inv' /\ Makes /\ setup' = setup
  <2>1. Inv' /\ Grown(blk', blk, {n}) /\ ch' = ch
    BY <1>4, StartStep, HandleAddStep, HandleBlameProcessedStep, BlockStoredStep
  <2>2. setup' = setup
    BY <1>4 DEF Start, HandleAdd, HandleBlameProcessed, BlockStored
  <2> QED BY <1>0, <2>1, <2>2
<1>5. ASSUME NEW n \in Local, ChainStart(n) \/ ChainBlame(n) \/ ChainProcessed(n) \/ NeedNewBlock(n) \/ ChainAlarm(n)
      PROVE  Inv' /\ Makes /\ setup' = setup
  <2>1. Inv' /\ blk' = blk /\ ch'[n].blocks = ch[n].blocks /\ \A m \in Local \ {n} : ch'[m] = ch[m]
    BY <1>5, ChainStartStep, ChainBlameStep, ChainProcessedStep, NeedNewBlockStep, ChainAlarmStep
  <2>2. setup' = setup
    BY <1>5 DEF ChainStart, ChainBlame, ChainProcessed, NeedNewBlock, ChainAlarm
  <2>3. Makes
    BY <2>1 DEF Makes, Grown
  <2> QED BY <2>1, <2>2, <2>3
<1>6. ASSUME NEW n \in Local, ChainNewBlock(n)
      PROVE  Inv' /\ Gives(n) /\ setup' = setup
  <2>1. setup' = setup
    BY <1>6 DEF ChainNewBlock
  <2> QED BY <1>6, <2>1, ChainNewBlockStep DEF Gives
<1>7. ASSUME NEW s \in setup.remote, RemoteBlock(s)
      PROVE  Inv' /\ Makes /\ setup' = setup
  <2>1. Inv' /\ Grown(blk', blk, {s}) /\ ch' = ch
    BY <1>7, RemoteBlockStep
  <2> QED BY <1>0, <1>7, <2>1 DEF RemoteBlock
<1> QED BY <1>1, <1>2, <1>3, <1>4, <1>5, <1>6, <1>7 DEF Next

-----------------------------------------------------------------------------
(* What the invariant says *)

LEMMA RefsAre ==
  ASSUME NEW b
  PROVE  Refs(b) = RefsIn(blk, b)
BY DEF Refs, RefsIn, Prev

LEMMA InvNothingStuck ==
  ASSUME Inv
  PROVE  NothingStuck
<1>1. ASSUME NEW n \in Local
      PROVE  /\ Sane(blk, rcv[n]) /\ Ready(blk, rcv[n], {}) /\ rcv[n].torun = <<>>
             /\ OwnOK(blk, n, sending[n], last[n]) /\ ChainOK(blk, ch[n])
             /\ BlameOK(Asks(n), rcv[n], bproc[n], pproof[n], toChain[n], toRcv[n])
  BY DEF Inv, Member, RcvOK
<1>2. \A b \in DOMAIN blk : Refs(b) \subseteq DOMAIN blk /\ blk[b].acc \in Source \cup {NoSource}
  BY RefsAre DEF Inv, Graph, World
<1>3. ASSUME NEW n \in Local
      PROVE  /\ rcv[n].del \cup rcv[n].ill \cup Range(rcv[n].wait) \subseteq rcv[n].objs
             /\ rcv[n].objs \subseteq DOMAIN blk
  BY <1>1, RangeFacts DEF Sane
<1>4. ASSUME NEW n \in Local
      PROVE  /\ sending[n] \in DOMAIN blk /\ last[n] \in DOMAIN blk
             /\ bproc[n] \subseteq Source /\ pproof[n] \subseteq Source
  BY <1>1 DEF OwnOK, BlameOK
<1>5. ASSUME NEW n \in Local
      PROVE  /\ ch[n].blocks \cup ch[n].top \cup ch[n].processed \cup ch[n].deps \subseteq DOMAIN blk
             /\ ch[n].topsrc \in [Source -> DOMAIN blk] /\ ch[n].blamed \subseteq Source
  BY <1>1 DEF ChainOK
<1>6. TypeOK
  BY <1>2, <1>3, <1>4, <1>5 DEF TypeOK
<1>7. ASSUME NEW n \in Local, NEW x \in Range(rcv[n].wait)
      PROVE  Pending(rcv[n], x) # {} /\ Refs(x) \cap rcv[n].ill = {}
  <2>1. Range(rcv[n].torun) = {}
    BY <1>1 DEF Range
  <2>2. ~ (RefsIn(blk, x) \subseteq rcv[n].del)
    BY <1>1, <2>1 DEF Ready
  <2>3. Refs(x) \cap rcv[n].ill = {}
    BY <1>1, RefsAre DEF Sane
  <2> QED BY <2>2, <2>3, RefsAre DEF Pending
<1>8. ASSUME NEW n \in Local, NEW b \in rcv[n].del
      PROVE  Refs(b) \subseteq rcv[n].del
  BY <1>1, RefsAre DEF Sane
<1>9. NoLostWakeup
  BY <1>1, <1>7, <1>8 DEF NoLostWakeup
<1>10. ProofOnItsWay
  BY <1>1 DEF ProofOnItsWay, BlameOK
<1> QED BY <1>6, <1>9, <1>10 DEF NothingStuck

\* A block below c is named by c's vector time; a block the vector time names
\* is, fork by fork, below the highest one there, which is below c.
LEMMA InvVectorTime ==
  ASSUME Inv
  PROVE  VectorTimeIsExact
<1> SUFFICES ASSUME NEW n \in Local, NEW b \in rcv[n].del \ {Root}, NEW c \in rcv[n].del \ {Root}
             PROVE  b \in Cone({c}) <=> At(rcv[n].vt[c], rcv[n].fork[b]) >= Height(b)
  BY DEF VectorTimeIsExact
<1>1. Times(blk, rcv[n].fork, rcv[n].vt, rcv[n].next, rcv[n].nforks, rcv[n].del) /\ Cones(blk) /\ World(blk)
  BY DEF Inv, Member, RcvOK, Timed, Graph
<1>2. Cone({c}) = blk[c].cone
  BY DEF Cone
<1> DEFINE D == rcv[n].del
           fork == rcv[n].fork
           vt == rcv[n].vt
           t == At(vt[c], fork[b])
<1>3. b \in D \ {Root} /\ c \in D \ {Root} /\ Times(blk, fork, vt, rcv[n].next, rcv[n].nforks, D)
  BY <1>1
<1> HIDE DEF D, fork, vt
<1>4. D \subseteq DOMAIN blk
  BY <1>3 DEF Times
<1>5. Height(b) \in Nat \ {0}
  BY <1>1, <1>3, <1>4 DEF World, Block, Height, Root
<1>6. b \in blk[c].cone => t >= Height(b)
  BY <1>3 DEF Times
<1>7. ASSUME t >= Height(b)
      PROVE  b \in blk[c].cone
  <2>1. t \in Nat
    BY <1>3 DEF Times, At
  <2>2. t > 0
    BY <1>5, <1>7, <2>1
  <2>3. PICK x \in blk[c].cone \ {Root} : fork[x] = fork[b] /\ Height(x) = t
    BY <1>3, <2>2 DEF Times
  <2>4. x \in D \ {Root}
    BY <1>3, <2>3 DEF Times
  <2>5. Height(b) <= Height(x)
    BY <1>5, <1>7, <2>1, <2>3
  <2>6. b \in blk[x].cone
    BY <1>3, <2>3, <2>4, <2>5 DEF Times
  <2> QED BY <1>1, <1>3, <1>4, <2>3, <2>6 DEF Cones
<1> QED BY <1>2, <1>6, <1>7 DEF t, D, fork, vt

LEMMA InitBroadcast ==
  ASSUME Init
  PROVE  Broadcast!Init
<1>1. DOMAIN blk = {Root} /\ Refs(Root) = {Root}
  BY FirstBlock, RefsAre DEF Init
<1>2. \A n \in Local : ch[n].blocks = {Root}
  BY DEF Init, NewChain
<1> QED BY <1>1, <1>2 DEF Broadcast!Init

LEMMA NextBroadcast ==
  ASSUME Inv, [Next]_vars
  PROVE  [Broadcast!Next]_(<<[b \in DOMAIN blk |-> Refs(b)],
                             [n \in Source |-> IF n \in Local THEN ch[n].blocks ELSE {Root}]>>)
<1> DEFINE refs == [b \in DOMAIN blk |-> RefsIn(blk, b)]
           got == [n \in Source |-> IF n \in Local THEN ch[n].blocks ELSE {Root}]
<1>1. setup' = setup /\ Local' = Local /\ (Makes \/ \E n \in Local : Gives(n))
  BY NextInv DEF Local
<1>2. refs = [b \in DOMAIN blk |-> Refs(b)] /\ refs' = [b \in DOMAIN blk |-> Refs(b)]'
  BY DEF Refs, RefsIn, Prev
<1>3. CASE Makes
  <2>1. got' = got
    BY <1>1, <1>3 DEF Makes
  <2>2. PICK S : Grown(blk', blk, S)
    BY <1>3 DEF Makes
  <2>3. CASE blk' = blk
    <3>1. refs' = refs
      BY <2>3 DEF RefsIn
    <3> QED BY <1>2, <2>1, <3>1
  <2>4. CASE \E b, p, D, a : Src(b) \in S /\ Added(blk', blk, b, p, D, a)
    <3>1. PICK b, p, D, a : Added(blk', blk, b, p, D, a)
      BY <2>4
    <3>2. /\ b \in DOMAIN blk' \ DOMAIN blk /\ DOMAIN blk' = DOMAIN blk \cup {b}
          /\ blk'[b].prev = p /\ blk'[b].deps = D /\ \A o \in DOMAIN blk : blk'[o] = blk[o]
      BY <3>1 DEF Added, With
    <3>3. RefsIn(blk', b) # {} /\ RefsIn(blk', b) \subseteq DOMAIN blk
      BY <3>1, <3>2 DEF Added, RefsIn
    <3>4. \A o \in DOMAIN blk : RefsIn(blk', o) = RefsIn(blk, o)
      BY <3>2 DEF RefsIn
    <3>5. /\ b \in DOMAIN refs' \ DOMAIN refs /\ DOMAIN refs' = DOMAIN refs \cup {b}
          /\ refs'[b] # {} /\ refs'[b] \subseteq DOMAIN refs
          /\ \A o \in DOMAIN refs : refs'[o] = refs[o]
      BY <3>2, <3>3, <3>4
    <3> HIDE DEF refs, got
    <3> QED BY <1>2, <2>1, <3>5 DEF got, Broadcast!Next, Broadcast!Broadcast
  <2> QED BY <2>2, <2>3, <2>4 DEF Grown
<1>4. ASSUME NEW n \in Local, Gives(n)
      PROVE  Broadcast!Deliver(n)
  <2>1. PICK b \in DOMAIN blk \ ch[n].blocks :
          RefsIn(blk, b) \subseteq ch[n].blocks /\ ch'[n].blocks = ch[n].blocks \cup {b}
    BY <1>4 DEF Gives
  <2>2. blk' = blk /\ \A m \in Local \ {n} : ch'[m] = ch[m]
    BY <1>4 DEF Gives
  <2>3. refs' = refs
    BY <2>2 DEF RefsIn
  <2>4. n \in Source
    BY GroupFacts
  <2>5. got[n] = ch[n].blocks /\ b \in DOMAIN refs \ got[n] /\ refs[b] \subseteq got[n]
    BY <2>1, <2>4
  <2>6. got' = [got EXCEPT ![n] = @ \cup {b}]
    BY <1>1, <2>1, <2>2, <2>4
  <2> HIDE DEF refs, got
  <2> QED BY <1>2, <2>3, <2>5, <2>6 DEF got, Broadcast!Deliver
<1>5. CASE \E n \in Local : Gives(n)
  <2>1. PICK n \in Local : Gives(n)
    BY <1>5
  <2> QED BY <1>4, <2>1, GroupFacts DEF Broadcast!Next
<1> QED BY <1>1, <1>3, <1>5

LEMMA InvAlways == Spec => []Inv
<1>1. Inv /\ [Next]_vars => Inv'
  BY NextInv
<1> QED BY <1>1, InitInv, PTL DEF Spec

\* Between two handlers of a member nothing waits in vain, however blocks,
\* fork proofs and orders arrive: a block that is not delivered has a
\* reference that is neither delivered nor ill (run_scheduler with
\* dep_delivered, dep_ill and written miss none), and a fork proof that waits
\* for on_blame_processed has its blame or the answer in a mailbox.
THEOREM NothingEverStuck == Spec => []NothingStuck
BY InvAlways, InvNothingStuck, PTL

\* is_descendant_of is right for any number of forks by any sources: a
\* delivered block is below another exactly if the vector time of the other
\* says so (the fork ids of initialize_fork and the merge in pre_deliver).
THEOREM VectorTimesAreExact == Spec => []VectorTimeIsExact
BY InvAlways, InvVectorTime, PTL

\* The group implements causal broadcast: CatChainImpl is given each block
\* once, after all it refers to, so the CHECKs of on_new_block hold.
THEOREM BroadcastIsCausal == Spec => ImplementsBroadcast
<1>1. Inv /\ [Next]_vars =>
        [Broadcast!Next]_(<<[b \in DOMAIN blk |-> Refs(b)],
                            [n \in Source |-> IF n \in Local THEN ch[n].blocks ELSE {Root}]>>)
  BY NextBroadcast
<1> QED BY <1>1, InvAlways, InitBroadcast, PTL DEF Spec, ImplementsBroadcast, Broadcast!Spec
=============================================================================

----------------------- MODULE CatchainBlocksLemmas -----------------------
(***************************************************************************)
(* What each method of CatChainReceivedBlockImpl and of                    *)
(* CatChainReceiverSourceImpl does to a receiver, and what is known of the *)
(* requests for own blocks and of the order of heights: lemmas for the     *)
(* theorems of CatchainProofs and CatchainOwnProofs.  w is the contents of *)
(* the blocks throughout.                                                  *)
(***************************************************************************)
EXTENDS CatchainBlocks, FiniteSetTheorems, TLAPS

\* Zenon proves most steps, which are about sets and functions; those that it
\* does not find, arithmetic above all, name SMT.
USE ZenonT(20), SMTT(30)

-----------------------------------------------------------------------------
(* Sequences *)

Less == {ss \in Nat \X Nat : ss[1] < ss[2]}

\* Induction over the natural numbers, for sets.
LEMMA LessWF == IsWellFoundedOn(Less, Nat)
BY NatLessThanWellFounded DEF OpToRel, Less

LEMMA SetInduction ==
  ASSUME NEW T, 0 \in T, \A n \in Nat : n \in T => n + 1 \in T
  PROVE  Nat \subseteq T
<1> DEFINE C == Nat \ T
<1> SUFFICES ASSUME C # {} PROVE FALSE
  OBVIOUS
<1>1. PICK x \in C : \A y \in C : ~ (<<y, x>> \in Less)
  <2> HIDE DEF C
  <2>1. C \subseteq Nat
    BY DEF C
  <2> QED
  BY LessWF, WFMin, <2>1, Zenon
<1>2. x # 0 /\ x - 1 \in Nat
  OBVIOUS
<1>3. <<x - 1, x>> \in Less
  BY <1>2 DEF Less
<1>4. x - 1 \in T
  BY <1>1, <1>2, <1>3
<1> QED BY <1>2, <1>4

\* The recursion behind Only has a solution, and Only is its last value.
LEMMA OnlyExists ==
  ASSUME NEW X, NEW q \in Seq(X), NEW S
  PROVE  \E f : /\ f[0] = <<>>
                /\ \A i \in 1 .. Len(q) : f[i] = IF q[i] \in S THEN Append(f[i - 1], q[i]) ELSE f[i - 1]
                /\ Only(q, S) = f[Len(q)]
<1> DEFINE F(f, n) == [i \in 0 .. n |-> IF i = 0 THEN <<>>
                           ELSE IF q[i] \in S THEN Append(f[i - 1], q[i]) ELSE f[i - 1]]
           T == {n \in Nat : \E f : f = F(f, n)}
<1>1. 0 \in T
  <2> DEFINE f == [i \in 0 .. 0 |-> <<>>]
  <2>1. f = F(f, 0)
    OBVIOUS
  <2> QED BY <2>1
<1>2. ASSUME NEW n \in Nat, n \in T
      PROVE  n + 1 \in T
  <2>1. PICK f : f = F(f, n)
    BY <1>2
  <2> DEFINE v == IF q[n + 1] \in S THEN Append(f[n], q[n + 1]) ELSE f[n]
             g == [i \in 0 .. n + 1 |-> IF i = n + 1 THEN v ELSE f[i]]
  <2>2. ASSUME NEW i \in 0 .. n + 1
        PROVE  g[i] = F(g, n + 1)[i]
    <3>1. CASE i = n + 1
      BY <3>1
    <3>2. CASE i \in 0 .. n
      <4>1. g[i] = f[i] /\ (i > 0 => g[i - 1] = f[i - 1])
        BY <3>2
      <4>2. f[i] = F(f, n)[i]
        BY <2>1
      <4> QED BY <3>2, <4>1, <4>2, SMTT(30)
    <3> QED BY <3>1, <3>2
  <2>3. g = F(g, n + 1)
    BY <2>2
  <2> HIDE DEF g
  <2>4. \E h : h = F(h, n + 1)
    BY <2>3
  <2> QED BY <2>4, SMTT(30)
<1> HIDE DEF T
<1>3. Len(q) \in T
  BY <1>1, <1>2, SetInduction, SMTT(30)
<1>4. \E f : f = F(f, Len(q))
  BY <1>3 DEF T
<1> DEFINE f == CHOOSE f : f = F(f, Len(q))
<1>5. f = F(f, Len(q)) /\ Only(q, S) = f[Len(q)]
  BY <1>4 DEF Only
<1> HIDE DEF f
<1>6. \A i \in 0 .. Len(q) : f[i] = F(f, Len(q))[i]
  BY <1>5
<1>7. f[0] = <<>> /\ \A i \in 1 .. Len(q) : f[i] = IF q[i] \in S THEN Append(f[i - 1], q[i]) ELSE f[i - 1]
  <2>1. 0 \in 0 .. Len(q) /\ \A i \in 1 .. Len(q) : i \in 0 .. Len(q) /\ i # 0
    OBVIOUS
  <2> QED BY <1>6, <2>1
<1> QED BY <1>5, <1>7

\* What is left are the members in S, none twice if none was.
LEMMA OnlyLemma ==
  ASSUME NEW X, NEW q \in Seq(X), NEW S
  PROVE  /\ Only(q, S) \in Seq(X)
         /\ Range(Only(q, S)) = Range(q) \cap S
         /\ IsInjective(q) => IsInjective(Only(q, S))
         /\ Len(Only(q, S)) <= Len(q)
<1>1. PICK f : /\ f[0] = <<>>
               /\ \A i \in 1 .. Len(q) : f[i] = IF q[i] \in S THEN Append(f[i - 1], q[i]) ELSE f[i - 1]
               /\ Only(q, S) = f[Len(q)]
  BY OnlyExists
<1> DEFINE Seen(i) == {q[j] : j \in 1 .. i}
           P(i) == f[i] \in Seq(X) /\ Len(f[i]) <= i /\ Range(f[i]) = Seen(i) \cap S
           Q(i) == (\A j, k \in 1 .. i : q[j] = q[k] => j = k) => IsInjective(f[i])
           T == {i \in Nat : i <= Len(q) => P(i) /\ Q(i)}
<1>2. 0 \in T
  <2>1. Seen(0) = {} /\ Range(<<>>) = {}
    BY DEF Range
  <2>2. P(0)
    BY <1>1, <2>1, SMTT(30)
  <2>3. Q(0)
    BY <1>1, SMTT(30) DEF IsInjective
  <2> QED BY <2>2, <2>3
<1>3. ASSUME NEW i \in Nat, i \in T, i + 1 <= Len(q)
      PROVE  P(i + 1) /\ Q(i + 1)
  <2>1. P(i) /\ Q(i) /\ i + 1 \in 1 .. Len(q) /\ q[i + 1] \in X
    BY <1>3
  <2>2. f[i + 1] = IF q[i + 1] \in S THEN Append(f[i], q[i + 1]) ELSE f[i]
    BY <1>1, <2>1, SMTT(30)
  <2>3. Seen(i + 1) = Seen(i) \cup {q[i + 1]}
    <3>1. 1 .. i + 1 = (1 .. i) \cup {i + 1}
      OBVIOUS
    <3> QED BY <3>1
  <2>4. CASE q[i + 1] \notin S
    <3>1. f[i + 1] = f[i]
      BY <2>2, <2>4
    <3> HIDE DEF Seen
    <3> QED BY <2>1, <2>3, <2>4, <3>1
  <2>5. CASE q[i + 1] \in S
    <3>1. f[i + 1] = Append(f[i], q[i + 1])
      BY <2>2, <2>5
    <3>2. /\ f[i + 1] \in Seq(X) /\ Len(f[i + 1]) = Len(f[i]) + 1
          /\ f[i + 1][Len(f[i]) + 1] = q[i + 1]
          /\ \A k \in 1 .. Len(f[i]) : f[i + 1][k] = f[i][k]
          /\ DOMAIN f[i + 1] = (DOMAIN f[i]) \cup {Len(f[i]) + 1} /\ DOMAIN f[i] = 1 .. Len(f[i])
      BY <2>1, <3>1, SMTT(30)
    <3>3. Range(f[i + 1]) = Range(f[i]) \cup {q[i + 1]}
      BY <3>2, SMTT(30) DEF Range
    <3>4. P(i + 1)
      <4> HIDE DEF Seen
      <4>1. Len(f[i + 1]) <= i + 1
        BY <2>1, <3>2
      <4> QED BY <2>1, <2>3, <2>5, <3>2, <3>3, <4>1, SMTT(30)
    <3>5. ASSUME \A j, k \in 1 .. i + 1 : q[j] = q[k] => j = k
          PROVE  IsInjective(f[i + 1])
      <4>1. IsInjective(f[i])
        BY <2>1, <3>5, SMTT(30)
      <4>2. q[i + 1] \notin Seen(i)
        BY <3>5, SMTT(30)
      <4>3. \A k \in DOMAIN f[i] : f[i][k] # q[i + 1]
        BY <2>1, <4>2 DEF Range
      <4> QED BY <3>2, <4>1, <4>3 DEF IsInjective
    <3> QED BY <3>4, <3>5
  <2> QED BY <2>4, <2>5
<1>4. P(Len(q)) /\ Q(Len(q))
  <2> HIDE DEF P, Q
  <2>1. \A i \in Nat : i \in T => i + 1 \in T
    BY <1>3
  <2>2. Len(q) \in T
    <3> HIDE DEF T
    <3> QED BY <1>2, <2>1, SetInduction, SMTT(30)
  <2> QED BY <2>2
<1>5. DOMAIN q = 1 .. Len(q) /\ Range(q) = Seen(Len(q))
  BY SMTT(30) DEF Range
<1>6. IsInjective(q) => \A j, k \in 1 .. Len(q) : q[j] = q[k] => j = k
  BY <1>5 DEF IsInjective
<1> HIDE DEF Seen
<1> QED BY <1>1, <1>4, <1>5, <1>6
\* The members of a sequence, one more and with another sequence behind it.
LEMMA RangeFacts ==
  ASSUME NEW X, NEW q \in Seq(X)
  PROVE  /\ DOMAIN q = 1 .. Len(q) /\ Len(q) \in Nat
         /\ Range(q) = {q[i] : i \in 1 .. Len(q)} /\ Range(q) \subseteq X
         /\ IsFiniteSet(Range(q))
         /\ Cardinality(Range(q)) \in Nat /\ Cardinality(Range(q)) <= Len(q)
         /\ IsInjective(q) => Cardinality(Range(q)) = Len(q)
<1>1. DOMAIN q = 1 .. Len(q) /\ Len(q) \in Nat /\ Range(q) = {q[i] : i \in 1 .. Len(q)} /\ Range(q) \subseteq X
  BY DEF Range
<1>2. IsFiniteSet(1 .. Len(q)) /\ Cardinality(1 .. Len(q)) = Len(q)
  BY <1>1, FS_Interval
<1>3. q \in Surjection(1 .. Len(q), Range(q))
  BY <1>1, SMTT(30) DEF Surjection
<1>4. /\ IsFiniteSet(Range(q)) /\ Cardinality(Range(q)) <= Cardinality(1 .. Len(q))
      /\ Cardinality(Range(q)) = Cardinality(1 .. Len(q)) <=> q \in Injection(1 .. Len(q), Range(q))
  BY <1>2, <1>3, FS_Surjection
<1>5. Cardinality(Range(q)) \in Nat
  BY <1>4, FS_CardinalityType
<1>6. IsInjective(q) => q \in Injection(1 .. Len(q), Range(q))
  BY <1>1, <1>3 DEF Injection, Surjection
<1> QED BY <1>1, <1>2, <1>4, <1>5, <1>6

LEMMA ConcatFacts ==
  ASSUME NEW X, NEW p \in Seq(X), NEW q \in Seq(X)
  PROVE  /\ p \o q \in Seq(X) /\ Len(p \o q) = Len(p) + Len(q)
         /\ \A i \in 1 .. Len(p) : (p \o q)[i] = p[i]
         /\ \A i \in 1 .. Len(q) : (p \o q)[Len(p) + i] = q[i]
         /\ Range(p \o q) = Range(p) \cup Range(q)
<1>0. \A r \in Seq(X) : \A y : y \in Range(r) <=> \E i \in 1 .. Len(r) : y = r[i]
  BY RangeFacts, SMTT(30)
<1> DEFINE c == p \o q
<1>1. /\ c \in Seq(X) /\ Len(c) = Len(p) + Len(q)
      /\ \A i \in 1 .. Len(p) : c[i] = p[i]
      /\ \A i \in 1 .. Len(q) : c[Len(p) + i] = q[i]
  OBVIOUS
<1> HIDE DEF c
<1>2. Range(c) \subseteq Range(p) \cup Range(q)
  <2> SUFFICES ASSUME NEW i \in 1 .. Len(p) + Len(q)
               PROVE  c[i] \in Range(p) \cup Range(q)
    BY <1>1, <1>0, SMTT(30)
  <2>1. CASE i \in 1 .. Len(p)
    BY <2>1, <1>1, <1>0
  <2>2. CASE i \notin 1 .. Len(p)
    <3>1. i - Len(p) \in 1 .. Len(q) /\ i = Len(p) + (i - Len(p))
      BY <2>2
    <3> QED BY <3>1, <1>1, <1>0
  <2> QED BY <2>1, <2>2
<1>3. Range(p) \cup Range(q) \subseteq Range(c)
  <2>1. \A i \in 1 .. Len(p) : p[i] \in Range(c)
    BY <1>1, <1>0, SMTT(30)
  <2>2. ASSUME NEW i \in 1 .. Len(q)
        PROVE  q[i] \in Range(c)
    <3>1. Len(p) + i \in 1 .. Len(c)
      BY <1>1
    <3> QED BY <3>1, <1>1, <1>0
  <2> QED BY <2>1, <2>2, <1>0, SMTT(30)
<1> QED BY <1>1, <1>2, <1>3 DEF c

LEMMA AppendRange ==
  ASSUME NEW X, NEW q \in Seq(X), NEW x \in X
  PROVE  /\ Append(q, x) \in Seq(X) /\ Range(Append(q, x)) = Range(q) \cup {x}
         /\ IsInjective(q) /\ x \notin Range(q) => IsInjective(Append(q, x))
<1>1. /\ Append(q, x) \in Seq(X) /\ Len(Append(q, x)) = Len(q) + 1 /\ DOMAIN Append(q, x) = 1 .. Len(q) + 1
      /\ \A i \in 1 .. Len(q) : Append(q, x)[i] = q[i] /\ Append(q, x)[Len(q) + 1] = x
      /\ Append(q, x)[Len(q) + 1] = x
      /\ DOMAIN q = 1 .. Len(q)
  OBVIOUS
<1>2. 1 .. Len(q) + 1 = (1 .. Len(q)) \cup {Len(q) + 1}
  OBVIOUS
<1>3. Range(Append(q, x)) = Range(q) \cup {x}
  BY <1>1, <1>2, SMTT(30) DEF Range
<1>4. IsInjective(q) /\ x \notin Range(q) => IsInjective(Append(q, x))
  BY <1>1, <1>2, SMTT(30) DEF IsInjective, Range
<1> QED BY <1>1, <1>3, <1>4

LEMMA TailRange ==
  ASSUME NEW X, NEW q \in Seq(X), q # <<>>
  PROVE  /\ Tail(q) \in Seq(X) /\ Len(q) = Len(Tail(q)) + 1 /\ Head(q) \in X
         /\ \A i \in 1 .. Len(Tail(q)) : Tail(q)[i] = q[i + 1]
         /\ Head(q) = q[1]
         /\ Range(q) = {Head(q)} \cup Range(Tail(q))
<1>0. \A r \in Seq(X) : \A y : y \in Range(r) <=> \E i \in 1 .. Len(r) : y = r[i]
  BY RangeFacts, SMTT(30)
<1> DEFINE t == Tail(q)
<1>1. /\ t \in Seq(X) /\ Len(q) = Len(t) + 1 /\ Head(q) \in X
      /\ \A i \in 1 .. Len(t) : t[i] = q[i + 1]
      /\ Head(q) = q[1] /\ Len(q) \in Nat /\ Len(q) > 0
  OBVIOUS
<1> HIDE DEF t
<1>2. Range(q) \subseteq {Head(q)} \cup Range(t)
  <2> SUFFICES ASSUME NEW i \in 1 .. Len(q), i # 1
               PROVE  q[i] \in Range(t)
    BY <1>1, <1>0, SMTT(30)
  <2>1. i - 1 \in 1 .. Len(t) /\ i = (i - 1) + 1
    BY <1>1, SMTT(30)
  <2> QED BY <2>1, <1>1, <1>0
<1>3. Range(t) \subseteq Range(q)
  <2> SUFFICES ASSUME NEW i \in 1 .. Len(t)
               PROVE  t[i] \in Range(q)
    BY <1>1, <1>0, SMTT(30)
  <2>1. i + 1 \in 1 .. Len(q)
    BY <1>1
  <2> QED BY <2>1, <1>1, <1>0
<1>4. 1 \in 1 .. Len(q)
  BY <1>1
<1> QED BY <1>1, <1>2, <1>3, <1>4, <1>0 DEF t

\* A finite set as a sequence.
LEMMA ListedFacts ==
  ASSUME NEW S, IsFiniteSet(S)
  PROVE  Listed(S) \in Seq(S) /\ Range(Listed(S)) = S /\ IsInjective(Listed(S))
<1> DEFINE n == Cardinality(S)
<1>1. n \in Nat /\ ExistsBijection(1 .. n, S)
  BY FS_CardinalityType
<1>2. PICK g : g \in Bijection(1 .. n, S)
  BY <1>1 DEF ExistsBijection
<1>3. g \in [1 .. n -> S] /\ IsInjective(g)
  BY <1>2 DEF Bijection, Injection
<1> DEFINE f == Listed(S)
<1>4. f \in [1 .. n -> S] /\ IsInjective(f)
  BY <1>3 DEF Listed
<1> HIDE DEF f
<1>5. f \in Injection(1 .. n, S)
  BY <1>4 DEF Injection
<1>6. IsFiniteSet(1 .. n) /\ Cardinality(1 .. n) = n
  BY <1>1, FS_Interval, SMTT(30)
<1>7. f \in Surjection(1 .. n, S)
  BY <1>5, <1>6, FS_Injection
<1>8. f \in Seq(S)
  BY <1>1, <1>4
<1>9. Range(f) = S
  BY <1>4, <1>7 DEF Surjection, Range
<1> QED BY <1>4, <1>8, <1>9 DEF f

-----------------------------------------------------------------------------
(* Requests for blocks *)

\* Dependencies of a block of n: at most one per source, none of n.
Apart(D, n) == \A d \in D : d # Root /\ Src(d) # n /\ \A e \in D \ {d} : Src(e) # Src(d)
\* None is of a source of X.
Clear(D, X) == \A d \in D : Src(d) \notin X
\* The sources that the blocks of n accuse.
Accused(w, n) == {w[x].acc : x \in {y \in DOMAIN w : Src(y) = n}}

\* The last block sent is delivered or ill, and what the one being sent refers
\* to is too; E and I are what is delivered and what is ill.
SendingOK(w, n, s, l, E, I) ==
  /\ l \in E \cup I /\ (l = Root \/ Src(l) = n)
  /\ s # Root => Src(s) = n /\ w[s].prev = l /\ w[s].deps \subseteq E
\* The blocks made so far; bp are the sources that CatChainImpl has dropped.
MadeOK(w, n, bp) ==
  \A y \in DOMAIN w : Src(y) = n =>
    /\ Apart(w[y].deps, n) /\ w[y].acc \in bp \cup {NoSource}
    /\ \A x \in DOMAIN w : Src(x) = n /\ Height(x) <= Height(y) => Clear(w[y].deps, {w[x].acc})
\* The blocks to make once the one being sent is stored.
QueueOK(w, n, bp, E, q) ==
  \A j \in 1 .. Len(q) :
    /\ Apart(q[j][1], n) /\ q[j][1] \subseteq E /\ q[j][2] \in bp \cup {NoSource}
    /\ Clear(q[j][1], Accused(w, n)) /\ \A i \in 1 .. j : Clear(q[j][1], {q[i][2]})
\* The requests of CatChainImpl, which blames B: no block depends on a source
\* of which the receiver knows, or will have been told before, that it is out.
OrdersOK(n, bp, B, E, t) ==
  /\ bp \subseteq B
  /\ \A j \in 1 .. Len(t) : t[j][1] = "blamed" => t[j][2] \in B
  /\ \A j \in 1 .. Len(t) : t[j][1] = "add" =>
       /\ Apart(t[j][2], n) /\ t[j][2] \subseteq E /\ Clear(t[j][2], bp)
       /\ \A i \in 1 .. j - 1 : t[i][1] = "blamed" => Clear(t[j][2], {t[i][2]})

\* More is delivered, more is ill, more sources are dropped.
LEMMA MoreDelivered ==
  ASSUME NEW w, NEW n, NEW E, NEW F, E \subseteq F, NEW bp, NEW cp, bp \subseteq cp
  PROVE  /\ \A q : QueueOK(w, n, bp, E, q) => QueueOK(w, n, cp, F, q)
         /\ MadeOK(w, n, bp) => MadeOK(w, n, cp)
<1>1. \A q : QueueOK(w, n, bp, E, q) => QueueOK(w, n, cp, F, q)
  BY DEF QueueOK
<1>2. MadeOK(w, n, bp) => MadeOK(w, n, cp)
  BY DEF MadeOK
<1> QED BY <1>1, <1>2

LEMMA MoreOrders ==
  ASSUME NEW n, NEW E, NEW F, E \subseteq F, NEW bp, NEW B, NEW C, B \subseteq C
  PROVE  \A t : OrdersOK(n, bp, B, E, t) => OrdersOK(n, bp, C, F, t)
  BY DEF OrdersOK

\* The sequence t of requests begins with its head.
TailOf(t) ==
  /\ Len(t) \in Nat /\ Len(Tail(t)) \in Nat /\ Head(t) = t[1] /\ 1 \in 1 .. Len(t)
  /\ \A j \in 1 .. Len(Tail(t)) : j + 1 \in 1 .. Len(t) /\ Tail(t)[j] = t[j + 1]
LEMMA TailIs ==
  ASSUME NEW X, NEW t \in Seq(X), t # <<>>
  PROVE  TailOf(t)
<1> DEFINE u == Tail(t)
<1>1. /\ u \in Seq(X) /\ Len(t) = Len(u) + 1 /\ Head(t) = t[1]
      /\ \A i \in 1 .. Len(u) : u[i] = t[i + 1]
  BY TailRange
<1> HIDE DEF u
<1>2. Len(u) \in Nat /\ Len(t) \in Nat
  BY <1>1
<1>3. 1 \in 1 .. Len(t) /\ \A j \in 1 .. Len(u) : j + 1 \in 1 .. Len(t)
  BY <1>1, <1>2
<1> QED BY <1>1, <1>2, <1>3 DEF TailOf, u

\* The first request of the queue, and the others once it is taken.
QueueFirst(w, n, bp, E, q) ==
  /\ Apart(Head(q)[1], n) /\ Head(q)[1] \subseteq E /\ Head(q)[2] \in bp \cup {NoSource}
  /\ Clear(Head(q)[1], Accused(w, n)) /\ Clear(Head(q)[1], {Head(q)[2]})
  /\ QueueOK(w, n, bp, E, Tail(q))
  /\ \A j \in 1 .. Len(Tail(q)) : Clear(Tail(q)[j][1], {Head(q)[2]})
LEMMA QueueTail ==
  ASSUME NEW w, NEW n, NEW bp, NEW E, NEW X, NEW q \in Seq(X), q # <<>>, QueueOK(w, n, bp, E, q)
  PROVE  QueueFirst(w, n, bp, E, q)
<1> DEFINE u == Tail(q)
           h == Head(q)
<1>1. /\ Len(q) \in Nat /\ Len(u) \in Nat /\ h = q[1] /\ 1 \in 1 .. Len(q)
      /\ \A j \in 1 .. Len(u) : j + 1 \in 1 .. Len(q) /\ u[j] = q[j + 1]
  BY TailIs DEF TailOf
<1> HIDE DEF u, h
<1>2. /\ Apart(h[1], n) /\ h[1] \subseteq E /\ h[2] \in bp \cup {NoSource}
      /\ Clear(h[1], Accused(w, n)) /\ Clear(h[1], {h[2]})
  <2>1. 1 \in 1 .. 1
    OBVIOUS
  <2> QED BY <1>1, <2>1 DEF QueueOK
<1>3. ASSUME NEW j \in 1 .. Len(u)
      PROVE  /\ Apart(u[j][1], n) /\ u[j][1] \subseteq E /\ u[j][2] \in bp \cup {NoSource}
             /\ Clear(u[j][1], Accused(w, n)) /\ Clear(u[j][1], {h[2]})
             /\ \A i \in 1 .. j : Clear(u[j][1], {u[i][2]})
  <2>1. j + 1 \in 1 .. Len(q) /\ u[j] = q[j + 1] /\ 1 \in 1 .. j + 1
    BY <1>1
  <2>2. /\ Apart(u[j][1], n) /\ u[j][1] \subseteq E /\ u[j][2] \in bp \cup {NoSource}
        /\ Clear(u[j][1], Accused(w, n)) /\ \A i \in 1 .. j + 1 : Clear(u[j][1], {q[i][2]})
    BY <2>1 DEF QueueOK
  <2>3. ASSUME NEW i \in 1 .. j
        PROVE  Clear(u[j][1], {u[i][2]})
    <3>1. i \in 1 .. Len(u) /\ i + 1 \in 1 .. j + 1
      BY <1>1
    <3>2. u[i] = q[i + 1]
      BY <1>1, <3>1
    <3> QED BY <2>2, <3>1, <3>2
  <2>4. Clear(u[j][1], {h[2]})
    BY <1>1, <2>1, <2>2
  <2> QED BY <2>2, <2>3, <2>4
<1>4. QueueOK(w, n, bp, E, u)
  BY <1>3 DEF QueueOK
<1> QED BY <1>2, <1>3, <1>4 DEF QueueFirst, u, h

\* A request that may be made a block at any time: bp are the sources that
\* may be accused.
RequestOK(n, bp, E, r) ==
  /\ Apart(r[1], n) /\ r[1] \subseteq E /\ r[2] \in bp \cup {NoSource}
  /\ Clear(r[1], bp \cup {NoSource})

\* The sequence c is q and e at its end.
AppendOf(c, q, e) ==
  /\ Len(q) \in Nat /\ Len(c) = Len(q) + 1 /\ c[Len(q) + 1] = e
  /\ \A i \in 1 .. Len(q) : c[i] = q[i]
LEMMA AppendIs ==
  ASSUME NEW X, NEW q \in Seq(X), NEW e \in X, NEW c, c = Append(q, e)
  PROVE  AppendOf(c, q, e)
<1>1. /\ Len(q) \in Nat /\ Len(Append(q, e)) = Len(q) + 1 /\ Append(q, e)[Len(q) + 1] = e
      /\ \A i \in 1 .. Len(q) : Append(q, e)[i] = q[i]
  OBVIOUS
<1> QED BY <1>1 DEF AppendOf

LEMMA QueueAppend ==
  ASSUME NEW w, NEW n, NEW bp, NEW E, NEW q, QueueOK(w, n, bp, E, q), MadeOK(w, n, bp),
         NEW r, RequestOK(n, bp, E, r), NEW c, AppendOf(c, q, r)
  PROVE  QueueOK(w, n, bp, E, c)
<1>1. /\ Len(q) \in Nat /\ Len(c) = Len(q) + 1 /\ c[Len(q) + 1] = r
      /\ \A i \in 1 .. Len(q) : c[i] = q[i]
  BY DEF AppendOf
<1>2. Accused(w, n) \subseteq bp \cup {NoSource}
  BY DEF Accused, MadeOK
<1>3. \A j \in 1 .. Len(c) : c[j][2] \in bp \cup {NoSource}
  <2> TAKE j \in 1 .. Len(c)
  <2>1. j \in 1 .. Len(q) \/ j = Len(q) + 1
    BY <1>1
  <2> QED BY <1>1, <2>1 DEF QueueOK, RequestOK
<1> SUFFICES ASSUME NEW j \in 1 .. Len(c)
             PROVE  /\ Apart(c[j][1], n) /\ c[j][1] \subseteq E /\ c[j][2] \in bp \cup {NoSource}
                    /\ Clear(c[j][1], Accused(w, n)) /\ \A i \in 1 .. j : Clear(c[j][1], {c[i][2]})
  BY DEF QueueOK
<1>4. CASE j \in 1 .. Len(q)
  <2>1. \A i \in 1 .. j : c[i] = q[i]
    BY <1>1, <1>4
  <2>2. c[j] = q[j]
    BY <1>1, <1>4
  <2> QED BY <1>4, <2>1, <2>2 DEF QueueOK
<1>5. CASE j = Len(q) + 1
  <2>1. c[j] = r /\ \A i \in 1 .. j : c[i][2] \in bp \cup {NoSource}
    BY <1>1, <1>3, <1>5
  <2> QED BY <1>2, <2>1 DEF RequestOK, Clear
<1> QED BY <1>1, <1>4, <1>5

\* The first request of CatChainImpl, and the others once it is taken: a
\* source that it names is dropped.
OrdersFirst(n, bp, B, E, t) ==
  /\ Head(t)[1] = "add" => Apart(Head(t)[2], n) /\ Head(t)[2] \subseteq E /\ Clear(Head(t)[2], bp)
  /\ Head(t)[1] = "add" => OrdersOK(n, bp, B, E, Tail(t))
  /\ Head(t)[1] = "blamed" => OrdersOK(n, bp \cup {Head(t)[2]}, B, E, Tail(t))
LEMMA OrdersTail ==
  ASSUME NEW n, NEW bp, NEW B, NEW E, NEW X, NEW t \in Seq(X), t # <<>>, OrdersOK(n, bp, B, E, t)
  PROVE  OrdersFirst(n, bp, B, E, t)
<1> DEFINE u == Tail(t)
           h == Head(t)
           cp == IF h[1] = "blamed" THEN bp \cup {h[2]} ELSE bp
<1>1. /\ Len(t) \in Nat /\ Len(u) \in Nat /\ h = t[1] /\ 1 \in 1 .. Len(t)
      /\ \A j \in 1 .. Len(u) : j + 1 \in 1 .. Len(t) /\ u[j] = t[j + 1]
  BY TailIs DEF TailOf
<1> HIDE DEF u, h
<1>2. h[1] = "add" => Apart(h[2], n) /\ h[2] \subseteq E /\ Clear(h[2], bp)
  BY <1>1 DEF OrdersOK
<1>3. cp \subseteq B
  BY <1>1 DEF OrdersOK
<1>4. ASSUME NEW j \in 1 .. Len(u), u[j][1] = "blamed"
      PROVE  u[j][2] \in B
  BY <1>1, <1>4 DEF OrdersOK
<1>5. ASSUME NEW j \in 1 .. Len(u), u[j][1] = "add"
      PROVE  /\ Apart(u[j][2], n) /\ u[j][2] \subseteq E /\ Clear(u[j][2], cp)
             /\ \A i \in 1 .. j - 1 : u[i][1] = "blamed" => Clear(u[j][2], {u[i][2]})
  <2> DEFINE k == j + 1
  <2>1. k \in 1 .. Len(t) /\ u[j] = t[k] /\ 1 \in 1 .. k - 1
    BY <1>1
  <2> HIDE DEF k
  <2>2. /\ Apart(u[j][2], n) /\ u[j][2] \subseteq E /\ Clear(u[j][2], bp)
        /\ \A i \in 1 .. k - 1 : t[i][1] = "blamed" => Clear(u[j][2], {t[i][2]})
    BY <1>5, <2>1 DEF OrdersOK
  <2>3. Clear(u[j][2], cp)
    BY <1>1, <2>1, <2>2 DEF Clear
  <2>4. ASSUME NEW i \in 1 .. j - 1, u[i][1] = "blamed"
        PROVE  Clear(u[j][2], {u[i][2]})
    <3>1. i \in 1 .. Len(u) /\ i + 1 \in 1 .. k - 1
      BY <1>1 DEF k
    <3>2. u[i] = t[i + 1]
      BY <1>1, <3>1
    <3> QED BY <2>2, <2>4, <3>1, <3>2
  <2> QED BY <2>2, <2>3, <2>4
<1>6. OrdersOK(n, cp, B, E, u)
  <2> HIDE DEF cp
  <2> QED BY <1>3, <1>4, <1>5 DEF OrdersOK
<1>7. (h[1] = "add" => cp = bp) /\ (h[1] = "blamed" => cp = bp \cup {h[2]})
  OBVIOUS
<1> HIDE DEF cp
<1> QED BY <1>2, <1>6, <1>7 DEF OrdersFirst, u, h

LEMMA OrdersAppend ==
  ASSUME NEW n, NEW bp, NEW B, NEW E, NEW t, OrdersOK(n, bp, B, E, t), NEW e,
         e[1] = "blamed" => e[2] \in B,
         e[1] = "add" => Apart(e[2], n) /\ e[2] \subseteq E /\ Clear(e[2], B),
         NEW c, AppendOf(c, t, e)
  PROVE  OrdersOK(n, bp, B, E, c)
<1>1. /\ Len(t) \in Nat /\ Len(c) = Len(t) + 1 /\ c[Len(t) + 1] = e
      /\ \A i \in 1 .. Len(t) : c[i] = t[i]
  BY DEF AppendOf
<1>2. bp \subseteq B
  BY DEF OrdersOK
<1>3. ASSUME NEW j \in 1 .. Len(c), c[j][1] = "blamed"
      PROVE  c[j][2] \in B
  <2>1. j \in 1 .. Len(t) \/ j = Len(t) + 1
    BY <1>1
  <2> QED BY <1>1, <1>3, <2>1 DEF OrdersOK
<1>4. ASSUME NEW j \in 1 .. Len(c), c[j][1] = "add"
      PROVE  /\ Apart(c[j][2], n) /\ c[j][2] \subseteq E /\ Clear(c[j][2], bp)
             /\ \A i \in 1 .. j - 1 : c[i][1] = "blamed" => Clear(c[j][2], {c[i][2]})
  <2>1. CASE j \in 1 .. Len(t)
    <3>1. c[j] = t[j] /\ \A i \in 1 .. j - 1 : c[i] = t[i]
      BY <1>1, <2>1
    <3> QED BY <1>4, <2>1, <3>1 DEF OrdersOK
  <2>2. CASE j = Len(t) + 1
    <3>1. c[j] = e /\ \A i \in 1 .. j - 1 : i \in 1 .. Len(c)
      BY <1>1, <2>2
    <3>2. Apart(e[2], n) /\ e[2] \subseteq E /\ Clear(e[2], B)
      BY <1>4, <3>1
    <3> QED BY <1>2, <1>3, <3>1, <3>2 DEF Clear
  <2> QED BY <1>1, <2>1, <2>2, SMTT(30)
<1> QED BY <1>2, <1>3, <1>4 DEF OrdersOK

-----------------------------------------------------------------------------
(* Blocks, receivers and their callbacks *)

\* The blocks there can be: Src and Height are meant for these.
Block == {Root} \cup (Source \X (Nat \ {0}) \X Nat)
\* What a block of w refers to: Refs, for any contents.
RefsIn(w, b) == w[b].deps \cup {w[b].prev}
\* Contents of blocks that refer to each other only.
World(w) ==
  /\ DOMAIN w \subseteq Block /\ Root \in DOMAIN w
  /\ \A b \in DOMAIN w : /\ RefsIn(w, b) \subseteq DOMAIN w /\ IsFiniteSet(RefsIn(w, b))
                         /\ w[b].acc \in Source \cup {NoSource}
\* v has the blocks of w, and perhaps more.
Extends(v, w) == \A b \in DOMAIN w : b \in DOMAIN v /\ v[b] = w[b]
\* At most one block is added, made by one of S and above blocks there are.
Added(v, w, b, p, D, a) ==
  /\ b \in Block \ DOMAIN w /\ p \in DOMAIN w /\ D \in SUBSET DOMAIN w /\ a \in Source \cup {NoSource}
  /\ Height(b) = Height(p) + 1
  /\ v = With(w, b, [prev |-> p, deps |-> D, acc |-> a, cone |-> {b} \cup UNION {w[x].cone : x \in D \cup {p}}])
Grown(v, w, S) == v = w \/ \E b, p, D, a : Src(b) \in S /\ Added(v, w, b, p, D, a)

Fields == {"objs", "wait", "del", "ill", "revd", "torun", "next", "fork", "vt", "nforks", "forks",
           "slot", "blamed", "bheight", "proof", "found", "out"}

\* What a receiver has delivered, found ill and waits for fits together.
Sane(w, R) ==
  /\ DOMAIN R = Fields
  /\ R.objs \subseteq DOMAIN w
  /\ R.wait \in Seq(R.objs) /\ IsInjective(R.wait) /\ R.torun \in Seq(R.objs)
  /\ R.del \subseteq R.objs /\ R.ill \subseteq R.objs /\ Root \in R.del
  /\ R.del \cap R.ill = {} /\ Range(R.wait) \cap (R.del \cup R.ill) = {}
  /\ \A b \in R.del : RefsIn(w, b) \subseteq R.del
  /\ \A x \in Range(R.wait) : RefsIn(w, x) \cap R.ill = {}
\* What could run is in to_run_ (but perhaps for X, which is being looked at),
\* and nothing else.
Ready(w, R, X) ==
  /\ \A x \in Range(R.wait) \ X : RefsIn(w, x) \subseteq R.del => x \in Range(R.torun)
  /\ \A t \in Range(R.torun) : t \in R.ill \cup R.del \/ (t \in Range(R.wait) /\ RefsIn(w, t) \subseteq R.del)

\* Messages to CatChainImpl.
Event == ({"new"} \X Block) \cup ({"blame"} \X Source) \cup {<<"start">>}
\* The blocks among the first i messages.
News(q, i) == {q[j][2] : j \in {k \in 1 .. i : q[k][1] = "new"}}
AllNews(q) == News(q, Len(q))
\* To one who has the blocks D, the messages q bring blocks that are new, of
\* which every reference is known.
Causal(w, D, q) ==
  \A i \in 1 .. Len(q) : q[i][1] = "new" =>
    /\ q[i][2] \in DOMAIN w
    /\ q[i][2] \notin D \cup News(q, i - 1)
    /\ RefsIn(w, q[i][2]) \subseteq D \cup News(q, i - 1)

\* A source of which a fork proof was found is blamed.
Found(R) == R.found \in Seq(Source) /\ Range(R.found) \subseteq R.blamed
\* What a receiver that had blamed B and delivered D tells CatChainImpl.
Told(w, R, B, D) ==
  /\ R.out \in Seq(Event) /\ R.blamed \subseteq Source
  /\ \A s \in R.blamed \ B : <<"blame", s>> \in Range(R.out)
  /\ Causal(w, D, R.out) /\ D \cup AllNews(R.out) = R.del

LEMMA CausalExtends ==
  ASSUME NEW w, NEW v, Extends(v, w), NEW D, NEW q, Causal(w, D, q)
  PROVE  Causal(v, D, q)
  BY DEF Causal, Extends, RefsIn

LEMMA SaneExtends ==
  ASSUME NEW w, NEW v, Extends(v, w), NEW R, Sane(w, R), NEW X
  PROVE  Sane(v, R) /\ (Ready(w, R, X) => Ready(v, R, X))
<1>1. \A b \in R.objs : b \in DOMAIN v /\ RefsIn(v, b) = RefsIn(w, b)
  BY DEF Sane, Extends, RefsIn
<1>2. Range(R.wait) \subseteq R.objs /\ Range(R.torun) \subseteq R.objs
  BY RangeFacts DEF Sane
<1>3. Sane(v, R)
  BY <1>1, <1>2 DEF Sane
<1>4. Ready(w, R, X) => Ready(v, R, X)
  BY <1>1, <1>2 DEF Ready
<1> QED BY <1>3, <1>4

\* More messages behind the ones there are.
LEMMA NewsBefore ==
  ASSUME NEW p \in Seq(Event), NEW q \in Seq(Event), NEW c, c = p \o q
  PROVE  \A i \in 0 .. Len(p) : News(c, i) = News(p, i)
<1> SUFFICES ASSUME NEW i \in 0 .. Len(p)
             PROVE  News(c, i) = News(p, i)
  OBVIOUS
<1>1. /\ c \in Seq(Event) /\ Len(c) = Len(p) + Len(q) /\ Len(p) \in Nat /\ Len(q) \in Nat
      /\ \A j \in 1 .. Len(p) : c[j] = p[j]
      /\ \A j \in 1 .. Len(q) : c[Len(p) + j] = q[j]
  BY ConcatFacts, SMTT(30)
<1>2. \A k \in 1 .. i : k \in 1 .. Len(p) /\ c[k] = p[k]
  BY <1>1, SMTT(30)
<1> QED BY <1>2, SMTT(30) DEF News

LEMMA NewsConcat ==
  ASSUME NEW p \in Seq(Event), NEW q \in Seq(Event), NEW c, c = p \o q
  PROVE  AllNews(c) = AllNews(p) \cup AllNews(q)
<1>1. /\ c \in Seq(Event) /\ Len(c) = Len(p) + Len(q) /\ Len(p) \in Nat /\ Len(q) \in Nat
      /\ \A i \in 1 .. Len(p) : c[i] = p[i]
      /\ \A i \in 1 .. Len(q) : c[Len(p) + i] = q[i]
  BY ConcatFacts, SMTT(30)
<1>2. ASSUME NEW x \in AllNews(c)
      PROVE  x \in AllNews(p) \cup AllNews(q)
  <2>1. PICK j \in 1 .. Len(p) + Len(q) : c[j][1] = "new" /\ x = c[j][2]
    BY <1>1, <1>2 DEF News, AllNews
  <2>2. CASE j \in 1 .. Len(p)
    BY <2>1, <2>2, <1>1 DEF News, AllNews
  <2>3. CASE j \notin 1 .. Len(p)
    <3>1. j - Len(p) \in 1 .. Len(q) /\ j - Len(p) \in 1 .. Len(q) /\ j = Len(p) + (j - Len(p))
      BY <2>3, <1>1
    <3>2. c[j] = q[j - Len(p)]
      BY <3>1, <1>1
    <3> QED BY <1>1, <2>1, <3>1, <3>2 DEF News, AllNews
  <2> QED BY <2>2, <2>3
<1>3. ASSUME NEW x \in AllNews(p)
      PROVE  x \in AllNews(c)
  <2>1. PICK j \in 1 .. Len(p) : p[j][1] = "new" /\ x = p[j][2]
    BY <1>3 DEF News, AllNews
  <2>2. j \in 1 .. Len(p) + Len(q) /\ c[j] = p[j]
    BY <1>1
  <2> QED BY <1>1, <2>1, <2>2 DEF News, AllNews
<1>4. ASSUME NEW x \in AllNews(q)
      PROVE  x \in AllNews(c)
  <2>1. PICK j \in 1 .. Len(q) : q[j][1] = "new" /\ x = q[j][2]
    BY <1>4 DEF News, AllNews
  <2>2. Len(p) + j \in 1 .. Len(p) + Len(q) /\ j \in 1 .. Len(q)
    BY <1>1
  <2>3. c[Len(p) + j] = q[j]
    BY <1>1, <2>2
  <2> QED BY <1>1, <2>1, <2>2, <2>3 DEF News, AllNews
<1> QED BY <1>2, <1>3, <1>4

Follows(c, p, q) == \A i \in 0 .. Len(q) : News(c, Len(p) + i) = AllNews(p) \cup News(q, i)
LEMMA NewsAfter ==
  ASSUME NEW p \in Seq(Event), NEW q \in Seq(Event), NEW c, c = p \o q
  PROVE  Follows(c, p, q)
<1> SUFFICES ASSUME NEW i \in 0 .. Len(q)
             PROVE  News(c, Len(p) + i) = AllNews(p) \cup News(q, i)
  BY DEF Follows
<1>1. /\ c \in Seq(Event) /\ Len(c) = Len(p) + Len(q) /\ Len(p) \in Nat /\ Len(q) \in Nat
      /\ \A j \in 1 .. Len(p) : c[j] = p[j]
      /\ \A j \in 1 .. Len(q) : c[Len(p) + j] = q[j]
  BY ConcatFacts, SMTT(30)
<1>2. ASSUME NEW x \in News(c, Len(p) + i)
      PROVE  x \in AllNews(p) \cup News(q, i)
  <2>1. PICK j \in 1 .. Len(p) + i : c[j][1] = "new" /\ x = c[j][2]
    BY <1>2 DEF News
  <2>2. CASE j \in 1 .. Len(p)
    BY <2>1, <2>2, <1>1 DEF News, AllNews
  <2>3. CASE j \notin 1 .. Len(p)
    <3>1. j - Len(p) \in 1 .. i /\ j - Len(p) \in 1 .. Len(q) /\ j = Len(p) + (j - Len(p))
      BY <2>3, <1>1
    <3>2. c[j] = q[j - Len(p)]
      BY <3>1, <1>1
    <3> QED BY <2>1, <3>1, <3>2 DEF News
  <2> QED BY <2>2, <2>3
<1>3. ASSUME NEW x \in AllNews(p)
      PROVE  x \in News(c, Len(p) + i)
  <2>1. PICK j \in 1 .. Len(p) : p[j][1] = "new" /\ x = p[j][2]
    BY <1>3 DEF News, AllNews
  <2>2. j \in 1 .. Len(p) + i /\ c[j] = p[j]
    BY <1>1
  <2> QED BY <2>1, <2>2 DEF News
<1>4. ASSUME NEW x \in News(q, i)
      PROVE  x \in News(c, Len(p) + i)
  <2>1. PICK j \in 1 .. i : q[j][1] = "new" /\ x = q[j][2]
    BY <1>4 DEF News
  <2>2. Len(p) + j \in 1 .. Len(p) + i /\ j \in 1 .. Len(q)
    BY <1>1, SMTT(30)
  <2>3. c[Len(p) + j] = q[j]
    BY <1>1, <2>2
  <2> QED BY <2>1, <2>2, <2>3 DEF News
<1> QED BY <1>2, <1>3, <1>4

LEMMA CausalConcat ==
  ASSUME NEW w, NEW D, NEW E, NEW p \in Seq(Event), NEW q \in Seq(Event),
         Causal(w, D, p), E = D \cup AllNews(p), Causal(w, E, q), NEW c, c = p \o q
  PROVE  Causal(w, D, c)
<1>1. /\ c \in Seq(Event) /\ Len(c) = Len(p) + Len(q) /\ Len(p) \in Nat /\ Len(q) \in Nat
      /\ \A i \in 1 .. Len(p) : c[i] = p[i]
      /\ \A i \in 1 .. Len(q) : c[Len(p) + i] = q[i]
  BY ConcatFacts, SMTT(30)
<1>2. \A i \in 0 .. Len(p) : News(c, i) = News(p, i)
  BY NewsBefore, Zenon
<1>3. \A i \in 0 .. Len(q) : News(c, Len(p) + i) = AllNews(p) \cup News(q, i)
  <2>1. Follows(c, p, q)
    BY NewsAfter
  <2> QED BY <2>1 DEF Follows
<1>4. ASSUME NEW i \in 1 .. Len(c), c[i][1] = "new"
      PROVE  /\ c[i][2] \in DOMAIN w
             /\ c[i][2] \notin D \cup News(c, i - 1)
             /\ RefsIn(w, c[i][2]) \subseteq D \cup News(c, i - 1)
  <2>1. CASE i \in 1 .. Len(p)
    <3>1. c[i] = p[i] /\ i - 1 \in 0 .. Len(p)
      BY <2>1, <1>1, SMTT(30)
    <3>2. News(c, i - 1) = News(p, i - 1)
      BY <3>1, <1>2
    <3> QED BY <2>1, <1>4, <3>1, <3>2 DEF Causal
  <2>2. CASE i \notin 1 .. Len(p)
    <3> DEFINE k == i - Len(p)
    <3>1. k \in 1 .. Len(q) /\ k - 1 \in 0 .. Len(q) /\ i = Len(p) + k /\ i - 1 = Len(p) + (k - 1)
      BY <2>2, <1>1
    <3> HIDE DEF k
    <3>2. c[i] = q[k]
      BY <3>1, <1>1
    <3>3. News(c, i - 1) = AllNews(p) \cup News(q, k - 1)
      BY <3>1, <1>3
    <3>4. /\ q[k][2] \in DOMAIN w
          /\ q[k][2] \notin (D \cup AllNews(p)) \cup News(q, k - 1)
          /\ RefsIn(w, q[k][2]) \subseteq (D \cup AllNews(p)) \cup News(q, k - 1)
      BY <1>4, <3>1, <3>2 DEF Causal
    <3> QED BY <3>2, <3>3, <3>4
  <2> QED BY <2>1, <2>2
<1> QED BY <1>4 DEF Causal

\* Messages without blocks, and one block.
LEMMA CausalQuiet ==
  ASSUME NEW w, NEW D, NEW q \in Seq(Event), \A e \in Range(q) : e[1] # "new"
  PROVE  Causal(w, D, q) /\ AllNews(q) = {}
  BY RangeFacts, SMTT(30) DEF Causal, AllNews, News

LEMMA CausalOne ==
  ASSUME NEW w, NEW D, NEW b, b \in DOMAIN w, b \in Block, b \notin D, RefsIn(w, b) \subseteq D
  PROVE  /\ <<<<"new", b>>>> \in Seq(Event)
         /\ Causal(w, D, <<<<"new", b>>>>) /\ AllNews(<<<<"new", b>>>>) = {b}
<1> DEFINE e == <<"new", b>>
           q == <<e>>
<1>1. e \in Event /\ e[1] = "new" /\ e[2] = b
  BY DEF Event
<1> HIDE DEF e
<1>2. q \in Seq(Event) /\ Len(q) = 1 /\ q[1] = e
  BY <1>1
<1> HIDE DEF q
<1>3. 1 .. 1 = {1} /\ 1 .. 0 = {} /\ 1 - 1 = 0
  OBVIOUS
<1>4. News(q, 0) = {}
  BY <1>3 DEF News
<1>5. Causal(w, D, q)
  BY <1>1, <1>2, <1>3, <1>4 DEF Causal
<1>6. AllNews(q) = {b}
  BY <1>1, <1>2, <1>3 DEF AllNews, News
<1> QED BY <1>2, <1>5, <1>6 DEF q, e

-----------------------------------------------------------------------------
(* Methods that leave the blocks as they are *)

\* What a method may leave alone: what becomes of the blocks, and the forks.
SameBlocks(A, R) ==
  A.del = R.del /\ A.ill = R.ill /\ A.wait = R.wait /\ A.torun = R.torun
SameForks(A, R) ==
  /\ A.next = R.next /\ A.fork = R.fork /\ A.vt = R.vt
  /\ A.nforks = R.nforks /\ A.forks = R.forks
SameBooks(A, R) == A.out = R.out /\ A.blamed = R.blamed /\ A.proof = R.proof /\ A.slot = R.slot

\* A method that only blames and keeps books of it.
Quiet(w, A, R) ==
  /\ DOMAIN A = Fields /\ SameBlocks(A, R)
  /\ Found(R) => Found(A)
  /\ \A B, D : Told(w, R, B, D) => Told(w, A, B, D)

LEMMA QuietTransitive ==
  ASSUME NEW w, NEW A, NEW Q, NEW R, Quiet(w, Q, R), Quiet(w, A, Q)
  PROVE  Quiet(w, A, R)
  BY DEF Quiet, SameBlocks

LEMMA QuietIsSane ==
  ASSUME NEW w, NEW A, NEW R, Sane(w, R), Quiet(w, A, R), R.objs \subseteq A.objs, A.objs \subseteq DOMAIN w
  PROVE  Sane(w, A) /\ \A X : Ready(w, R, X) => Ready(w, A, X)
<1>1. Sane(w, A)
  <2>1. R.wait \in Seq(A.objs) /\ R.torun \in Seq(A.objs)
    BY SMTT(30) DEF Sane
  <2> QED BY <2>1 DEF Sane, Quiet, SameBlocks
<1>2. \A X : Ready(w, R, X) => Ready(w, A, X)
  BY DEF Ready, Quiet, SameBlocks
<1> QED BY <1>1, <1>2

\* blame()
LEMMA BlameAllLemma ==
  ASSUME NEW w, NEW R, DOMAIN R = Fields, NEW S \in SUBSET Source, IsFiniteSet(S)
  PROVE  LET A == BlameAll(R, S)
         IN  /\ Quiet(w, A, R) /\ SameForks(A, R) /\ A.objs = R.objs /\ A.found = R.found
             /\ A.revd = R.revd /\ A.proof = R.proof /\ A.blamed = R.blamed \cup S
<1> DEFINE New == S \ R.blamed
           q == Listed({"blame"} \X New)
           A == BlameAll(R, S)
<1>1. /\ DOMAIN A = Fields /\ SameBlocks(A, R) /\ SameForks(A, R) /\ A.objs = R.objs
      /\ A.found = R.found /\ A.revd = R.revd /\ A.proof = R.proof
  BY DEF BlameAll, Fields, SameBlocks, SameForks
<1>2. A.blamed = R.blamed \cup S /\ A.out = R.out \o q
  BY DEF BlameAll, Fields
<1> HIDE DEF A
<1>3. IsFiniteSet({"blame"} \X New)
  <2>1. IsFiniteSet(New)
    BY FS_Subset
  <2> DEFINE f == [s \in New |-> <<"blame", s>>]
  <2>2. f \in Surjection(New, {"blame"} \X New)
    BY SMTT(30) DEF Surjection
  <2> QED BY <2>1, <2>2, FS_Surjection, SMTT(30)
<1>4. q \in Seq({"blame"} \X New) /\ Range(q) = {"blame"} \X New
  BY <1>3, ListedFacts
<1>5. q \in Seq(Event) /\ (\A e \in Range(q) : e[1] # "new") /\ \A s \in New : <<"blame", s>> \in Range(q)
  <2>1. {"blame"} \X New \subseteq Event
    BY DEF Event
  <2>2. q \in Seq(Event)
    BY <2>1, <1>4, SMTT(30)
  <2>3. \A e \in {"blame"} \X New : e[1] # "new"
    OBVIOUS
  <2> QED BY <2>2, <2>3, <1>4
<1> HIDE DEF q
<1>6. ASSUME NEW B, NEW D, Told(w, R, B, D)
      PROVE  Told(w, A, B, D)
  <2>1. /\ R.out \in Seq(Event) /\ Causal(w, D, R.out) /\ R.del = D \cup AllNews(R.out)
        /\ Causal(w, R.del, q) /\ AllNews(q) = {}
    BY <1>5, <1>6, CausalQuiet DEF Told
  <2>2. /\ A.out \in Seq(Event) /\ Causal(w, D, A.out)
        /\ AllNews(A.out) = AllNews(R.out) \cup AllNews(q)
    <3>1. A.out \in Seq(Event)
      BY <1>2, <1>5, <2>1, ConcatFacts, SMTT(30)
    <3>2. Causal(w, D, A.out)
      BY <1>2, <1>5, <2>1, CausalConcat
    <3>3. AllNews(A.out) = AllNews(R.out) \cup AllNews(q)
      BY <1>2, <1>5, <2>1, NewsConcat
    <3> QED BY <3>1, <3>2, <3>3
  <2>3. Range(R.out \o q) = Range(R.out) \cup Range(q)
    BY <1>5, <2>1, ConcatFacts, SMTT(30)
  <2>4. A.out \in Seq(Event) /\ Causal(w, D, A.out) /\ D \cup AllNews(A.out) = A.del
    BY <1>1, <1>2, <1>6, <2>1, <2>2 DEF Told, SameBlocks
  <2>5. \A s \in A.blamed \ B : <<"blame", s>> \in Range(A.out)
    BY <1>2, <1>5, <1>6, <2>3 DEF Told
  <2>6. A.blamed \subseteq Source
    BY <1>2, <1>6 DEF Told
  <2> QED BY <2>4, <2>5, <2>6 DEF Told
<1>7. Found(R) => Found(A)
  BY <1>1, <1>2 DEF Found
<1>8. Quiet(w, A, R)
  BY <1>1, <1>6, <1>7 DEF Quiet
<1> QED BY <1>1, <1>2, <1>8 DEF A

LEMMA BlameLemma ==
  ASSUME NEW w, NEW R, DOMAIN R = Fields, NEW s \in Source
  PROVE  LET A == Blame(R, s)
         IN  /\ Quiet(w, A, R) /\ SameForks(A, R) /\ A.objs = R.objs /\ A.found = R.found
             /\ A.revd = R.revd /\ A.proof = R.proof /\ A.blamed = R.blamed \cup {s}
<1>1. IsFiniteSet({s}) /\ {s} \in SUBSET Source
  BY FS_Singleton
<1> QED BY <1>1, BlameAllLemma DEF Blame

\* Fields that are not about blocks, forks, sources blamed or callbacks.
LEMMA OtherFieldsQuiet ==
  ASSUME NEW w, NEW A, NEW R, DOMAIN A = Fields, SameBlocks(A, R),
         A.out = R.out, A.found = R.found, A.blamed = R.blamed
  PROVE  Quiet(w, A, R)
  BY DEF Quiet, SameBlocks, Told, Found

\* blame(fork, height)
LEMMA BlameAtLemma ==
  ASSUME NEW w, NEW R, DOMAIN R = Fields, NEW s \in Source, NEW f, NEW h
  PROVE  LET A == BlameAt(R, s, f, h)
         IN  Quiet(w, A, R) /\ SameForks(A, R) /\ A.objs = R.objs
<1> DEFINE Q == Blame(R, s)
           A == BlameAt(R, s, f, h)
<1>1. Quiet(w, Q, R) /\ SameForks(Q, R) /\ Q.objs = R.objs /\ DOMAIN Q = Fields
  BY BlameLemma DEF Quiet
<1> HIDE DEF Q
<1>2. /\ DOMAIN A = Fields /\ SameBlocks(A, Q) /\ SameForks(A, Q) /\ A.objs = Q.objs
      /\ A.out = Q.out /\ A.found = Q.found /\ A.blamed = Q.blamed
  BY <1>1 DEF BlameAt, Q, Fields, SameBlocks, SameForks
<1> HIDE DEF A
<1>3. Quiet(w, A, R)
  BY <1>1, <1>2, OtherFieldsQuiet, QuietTransitive
<1>4. SameForks(A, R) /\ A.objs = R.objs
  BY <1>1, <1>2 DEF SameForks
<1> QED BY <1>3, <1>4 DEF A

\* add_fork()
LEMMA AddForkLemma ==
  ASSUME NEW w, NEW R, DOMAIN R = Fields, NEW s \in Source
  PROVE  LET A == AddFork(R, s)
         IN  /\ Quiet(w, A, R) /\ A.objs = R.objs
             /\ A.next = R.next /\ A.fork = R.fork /\ A.vt = R.vt /\ A.nforks = R.nforks + 1
<1> DEFINE Q == IF R.forks[s] = {} THEN R ELSE Blame(R, s)
           A == AddFork(R, s)
<1>1. Quiet(w, Q, R) /\ SameForks(Q, R) /\ Q.objs = R.objs /\ DOMAIN Q = Fields
  <2>1. Quiet(w, R, R) /\ SameForks(R, R)
    BY DEF Quiet, SameForks, SameBlocks
  <2>2. Quiet(w, Blame(R, s), R) /\ SameForks(Blame(R, s), R) /\ Blame(R, s).objs = R.objs
    BY BlameLemma
  <2> QED BY <2>1, <2>2 DEF Quiet
<1> HIDE DEF Q
<1>2. /\ DOMAIN A = Fields /\ SameBlocks(A, Q) /\ A.objs = Q.objs
      /\ A.out = Q.out /\ A.found = Q.found /\ A.blamed = Q.blamed
  BY <1>1 DEF AddFork, Q, Fields, SameBlocks
<1>3. A.next = Q.next /\ A.fork = Q.fork /\ A.vt = Q.vt /\ A.nforks = Q.nforks + 1
  BY <1>1 DEF AddFork, Q, Fields
<1> HIDE DEF A
<1>4. Quiet(w, A, R)
  BY <1>1, <1>2, OtherFieldsQuiet, QuietTransitive
<1> QED BY <1>1, <1>2, <1>3, <1>4 DEF A, SameForks
\* on_new_block()
LEMMA OnNewBlockLemma ==
  ASSUME NEW w, NEW R, DOMAIN R = Fields, NEW b, Src(b) \in Source
  PROVE  LET A == OnNewBlock(R, b)
         IN  Quiet(w, A, R) /\ SameForks(A, R) /\ A.objs = R.objs
<1> DEFINE s == Src(b)
           A == OnNewBlock(R, b)
           Q == [R EXCEPT !.proof = @ \cup {s}, !.found = Append(@, s)]
           K == [R EXCEPT !.slot[s] = With(@, Height(b), b)]
<1>1. A = R \/ A = Blame(Q, s) \/ A = K
  BY DEF OnNewBlock
<1>2. Quiet(w, R, R) /\ SameForks(R, R)
  BY DEF Quiet, SameForks, SameBlocks
<1>3. Quiet(w, K, R) /\ SameForks(K, R) /\ K.objs = R.objs
  <2>1. /\ DOMAIN K = Fields /\ SameBlocks(K, R) /\ SameForks(K, R) /\ K.objs = R.objs
        /\ K.out = R.out /\ K.found = R.found /\ K.blamed = R.blamed
    BY DEF Fields, SameBlocks, SameForks
  <2> HIDE DEF K
  <2> QED BY <2>1, OtherFieldsQuiet
<1>4. /\ Quiet(w, Blame(Q, s), R) /\ SameForks(Blame(Q, s), R)
      /\ Blame(Q, s).objs = R.objs
  <2> DEFINE C == Blame(Q, s)
  <2>1. /\ DOMAIN Q = Fields /\ SameBlocks(Q, R) /\ SameForks(Q, R) /\ Q.objs = R.objs
        /\ Q.out = R.out /\ Q.blamed = R.blamed /\ Q.found = Append(R.found, s)
    BY DEF Fields, SameBlocks, SameForks
  <2> HIDE DEF Q
  <2>2. /\ Quiet(w, C, Q) /\ SameForks(C, Q) /\ C.objs = Q.objs
        /\ C.found = Q.found /\ C.blamed = Q.blamed \cup {s}
    BY <2>1, BlameLemma
  <2> HIDE DEF C
  <2>3. \A B, D : Told(w, R, B, D) => Told(w, C, B, D)
    BY <2>1, <2>2, SMTT(30) DEF Quiet, Told, SameBlocks
  <2>4. ASSUME Found(R)
        PROVE  Found(C)
    <3>1. Append(R.found, s) \in Seq(Source) /\ Range(Append(R.found, s)) = Range(R.found) \cup {s}
      BY <2>4, AppendRange, SMTT(30) DEF Found
    <3> HIDE DEF s
    <3> QED BY <2>1, <2>2, <2>4, <3>1 DEF Found
  <2>5. SameBlocks(C, R) /\ DOMAIN C = Fields /\ SameForks(C, R) /\ C.objs = R.objs
    BY <2>1, <2>2 DEF Quiet, SameBlocks, SameForks
  <2> QED BY <2>3, <2>4, <2>5 DEF Quiet, C
<1> HIDE DEF A, Q, K
<1> QED BY <1>1, <1>2, <1>3, <1>4 DEF A

LEMMA CreateObjectLemma ==
  ASSUME NEW w, NEW R, DOMAIN R = Fields, NEW b, Src(b) \in Source \/ b \in R.objs
  PROVE  LET A == CreateObject(R, b)
         IN  Quiet(w, A, R) /\ SameForks(A, R) /\ A.objs = R.objs \cup {b}
<1> DEFINE A == CreateObject(R, b)
           Q == [R EXCEPT !.objs = @ \cup {b}]
<1>1. CASE b \in R.objs
  <2>1. A = R
    BY <1>1 DEF CreateObject
  <2> QED BY <1>1, <2>1 DEF Quiet, SameForks, SameBlocks
<1>2. CASE b \notin R.objs
  <2>1. /\ DOMAIN Q = Fields /\ SameBlocks(Q, R) /\ SameForks(Q, R) /\ Q.objs = R.objs \cup {b}
        /\ Q.out = R.out /\ Q.found = R.found /\ Q.blamed = R.blamed
    BY DEF Fields, SameBlocks, SameForks
  <2>2. A = OnNewBlock(Q, b)
    BY <1>2 DEF CreateObject
  <2> HIDE DEF A, Q
  <2>3. Quiet(w, A, Q) /\ SameForks(A, Q) /\ A.objs = Q.objs
    BY <1>2, <2>1, <2>2, OnNewBlockLemma
  <2>4. Quiet(w, A, R)
    BY <2>1, <2>3, OtherFieldsQuiet, QuietTransitive
  <2> QED BY <2>1, <2>3, <2>4 DEF SameForks, A
<1> QED BY <1>1, <1>2

\* The receivers f in which create_block() has made the first objects of q.
Made(f, R, S, q) ==
  /\ f[0] = R
  /\ \A i \in 1 .. Len(q) : f[i] = CreateObject(f[i - 1], q[i])
  /\ CreateObjects(R, S) = f[Len(q)]
LEMMA CreateObjectsExists ==
  ASSUME NEW R, NEW S, NEW q \in Seq(S), q = Listed(S)
  PROVE  \E f : Made(f, R, S, q)
<1> DEFINE F(f, n) == [i \in 0 .. n |-> IF i = 0 THEN R ELSE CreateObject(f[i - 1], q[i])]
           T == {n \in Nat : \E f : f = F(f, n)}
<1>1. 0 \in T
  <2> DEFINE f == [i \in 0 .. 0 |-> R]
  <2>1. f = F(f, 0)
    OBVIOUS
  <2> HIDE DEF f
  <2> QED BY <2>1
<1>2. ASSUME NEW n \in Nat, n \in T
      PROVE  n + 1 \in T
  <2>1. PICK f : f = F(f, n)
    BY <1>2
  <2> DEFINE v == CreateObject(f[n], q[n + 1])
             g == [i \in 0 .. n + 1 |-> IF i = n + 1 THEN v ELSE f[i]]
  <2>2. ASSUME NEW i \in 0 .. n + 1
        PROVE  g[i] = F(g, n + 1)[i]
    <3>1. CASE i = n + 1
      BY <3>1
    <3>2. CASE i \in 0 .. n
      <4>1. g[i] = f[i] /\ (i > 0 => g[i - 1] = f[i - 1])
        BY <3>2
      <4>2. f[i] = F(f, n)[i]
        BY <2>1
      <4> QED BY <3>2, <4>1, <4>2, SMTT(30)
    <3> QED BY <3>1, <3>2
  <2>3. g = F(g, n + 1)
    BY <2>2
  <2> HIDE DEF g
  <2>4. \E h : h = F(h, n + 1)
    BY <2>3
  <2> QED BY <2>4, SMTT(30)
<1>3. Len(q) \in T
  <2> HIDE DEF T
  <2>1. Len(q) \in Nat
    OBVIOUS
  <2> QED BY <1>1, <1>2, <2>1, SetInduction
<1>4. \E f : f = F(f, Len(q))
  BY <1>3
<1> DEFINE f == CHOOSE f : f = F(f, Len(q))
<1>5. f = F(f, Len(q)) /\ CreateObjects(R, S) = f[Len(q)]
  BY <1>4 DEF CreateObjects
<1> HIDE DEF f
<1>6. \A i \in 0 .. Len(q) : f[i] = F(f, Len(q))[i]
  BY <1>5
<1>7. f[0] = R /\ \A i \in 1 .. Len(q) : f[i] = CreateObject(f[i - 1], q[i])
  <2>1. 0 \in 0 .. Len(q) /\ \A i \in 1 .. Len(q) : i \in 0 .. Len(q) /\ i # 0
    OBVIOUS
  <2> QED BY <1>6, <2>1
<1>8. Made(f, R, S, q)
  BY <1>5, <1>7 DEF Made
<1> QED BY <1>8

\* The objects of what a block refers to.
LEMMA CreateObjectsLemma ==
  ASSUME NEW w, NEW R, DOMAIN R = Fields, NEW S, IsFiniteSet(S), \A b \in S : Src(b) \in Source \/ b \in R.objs
  PROVE  LET A == CreateObjects(R, S)
         IN  Quiet(w, A, R) /\ SameForks(A, R) /\ A.objs = R.objs \cup S
<1> DEFINE q == Listed(S)
<1>1. q \in Seq(S) /\ Range(q) = S /\ Len(q) \in Nat /\ Range(q) = {q[j] : j \in 1 .. Len(q)}
  BY ListedFacts, RangeFacts
<1>0. q \in Seq(S) /\ q = Listed(S)
  BY <1>1
<1> HIDE DEF q
<1>f. PICK f : Made(f, R, S, q)
  BY <1>0, CreateObjectsExists
<1>2. /\ f[0] = R
      /\ \A i \in 1 .. Len(q) : f[i] = CreateObject(f[i - 1], q[i])
      /\ CreateObjects(R, S) = f[Len(q)]
  BY <1>f DEF Made
<1> DEFINE P(i) == Quiet(w, f[i], R) /\ SameForks(f[i], R) /\ f[i].objs = R.objs \cup {q[j] : j \in 1 .. i}
           T == {i \in Nat : i <= Len(q) => P(i)}
<1>3. 0 \in T
  <2>1. {q[j] : j \in 1 .. 0} = {}
    OBVIOUS
  <2>2. Quiet(w, R, R) /\ SameForks(R, R)
    BY DEF Quiet, SameForks, SameBlocks
  <2> QED BY <1>2, <2>1, <2>2
<1>4. ASSUME NEW i \in Nat, i \in T, i + 1 <= Len(q)
      PROVE  P(i + 1)
  <2>1. P(i) /\ i + 1 \in 1 .. Len(q) /\ (i + 1) - 1 = i
    <3> HIDE DEF P
    <3>1. Len(q) \in Nat
      BY <1>1
    <3> QED BY <1>4, <3>1
  <2>2. f[i + 1] = CreateObject(f[i], q[i + 1]) /\ q[i + 1] \in S
    BY <1>1, <1>2, <2>1
  <2>3. DOMAIN f[i] = Fields /\ (Src(q[i + 1]) \in Source \/ q[i + 1] \in f[i].objs)
    BY <2>1, <2>2 DEF Quiet
  <2>4. Quiet(w, f[i + 1], f[i]) /\ SameForks(f[i + 1], f[i]) /\ f[i + 1].objs = f[i].objs \cup {q[i + 1]}
    BY <2>2, <2>3, CreateObjectLemma, SMTT(30)
  <2>5. {q[j] : j \in 1 .. i + 1} = {q[j] : j \in 1 .. i} \cup {q[i + 1]}
    <3>1. 1 .. i + 1 = (1 .. i) \cup {i + 1}
      OBVIOUS
    <3> QED BY <3>1
  <2>6. Quiet(w, f[i + 1], R)
    BY <2>1, <2>4, QuietTransitive
  <2>7. SameForks(f[i + 1], R)
    BY <2>1, <2>4 DEF SameForks
  <2> QED BY <2>1, <2>4, <2>5, <2>6, <2>7
<1>5. P(Len(q))
  <2> HIDE DEF P
  <2>1. \A i \in Nat : i \in T => i + 1 \in T
    BY <1>4
  <2>2. Len(q) \in T
    <3> HIDE DEF T
    <3> QED BY <1>1, <1>3, <2>1, SetInduction
  <2> QED BY <1>1, <2>2
<1> QED BY <1>1, <1>2, <1>5

-----------------------------------------------------------------------------
(* Methods that decide about blocks *)

LEMMA SourceOfBlock ==
  ASSUME NEW b \in Block
  PROVE  /\ b # Root => Src(b) \in Source /\ Height(b) \in Nat \ {0}
         /\ Height(b) \in Nat
  BY SMTT(30) DEF Block, Root, Src, Height

\* The ill blocks: closed, and no more than asked for and what waits.
LEMMA IllConeFacts ==
  ASSUME NEW R, NEW b
  PROVE  LET C == IllCone(R, b)
         IN  /\ b \in C /\ C \subseteq {b} \cup Range(R.wait)
             /\ \A x \in Range(R.wait) : Refs(x) \cap C # {} => x \in C
<1> DEFINE All == {b} \cup Range(R.wait)
           Closed == {S \in SUBSET All : b \in S /\ Above(R, S) \subseteq S}
           C == IllCone(R, b)
<1>1. C = {c \in All : \A S \in Closed : c \in S}
  BY DEF IllCone
<1> HIDE DEF C
<1>2. b \in C /\ C \subseteq All
  BY <1>1
<1>3. ASSUME NEW x \in Range(R.wait), NEW y \in Refs(x), y \in C
      PROVE  x \in C
  <2> SUFFICES ASSUME NEW S \in Closed
               PROVE  x \in S
    <3> HIDE DEF Closed
    <3> QED BY <1>1
  <2>1. y \in S
    <3> HIDE DEF Closed
    <3> QED BY <1>1, <1>3
  <2>2. x \in Above(R, S)
    BY <2>1 DEF Above
  <2> QED BY <2>2
<1> QED BY <1>2, <1>3 DEF C

\* What set_ill() leaves alone and keeps.
IllStep(A, R) ==
  /\ DOMAIN A = Fields /\ SameForks(A, R)
  /\ A.objs = R.objs /\ A.del = R.del /\ A.torun = R.torun
  /\ Range(A.wait) \subseteq Range(R.wait)
  /\ R.ill \subseteq A.ill /\ Range(R.wait) \subseteq Range(A.wait) \cup A.ill
  /\ Found(R) => Found(A)
  /\ \A B, D : Told(blk, R, B, D) => Told(blk, A, B, D)

LEMMA SetIllLemma ==
  ASSUME NEW R, NEW b \in R.objs, World(blk), Sane(blk, R), b \notin R.del
  PROVE  LET A == SetIll(R, b)
         IN  /\ Sane(blk, A) /\ IllStep(A, R)
             /\ b \in A.ill /\ b \notin Range(A.wait)
             /\ Ready(blk, R, {b}) => Ready(blk, A, {})
             /\ \E S \in SUBSET Source : IsFiniteSet(S) /\ SameBooks(A, BlameAll(R, S))
<1> DEFINE C == IllCone(R, b)
           S == {Src(c) : c \in C}
           Q == BlameAll(R, S)
           W == Range(R.wait)
           A == SetIll(R, b)
<1>1. /\ DOMAIN R = Fields /\ R.wait \in Seq(R.objs) /\ IsInjective(R.wait) /\ W \subseteq R.objs /\ IsFiniteSet(W)
      /\ W \cap R.del = {} /\ Root \in R.del /\ R.objs \subseteq Block
  BY RangeFacts DEF Sane, World
<1>2. b \in C /\ C \subseteq {b} \cup W /\ \A x \in W : Refs(x) \cap C # {} => x \in C
  BY IllConeFacts
<1>3. C \cap R.del = {} /\ C \subseteq R.objs
  BY <1>1, <1>2
<1>4. S \in SUBSET Source
  BY <1>1, <1>3, SourceOfBlock
<1>5. IsFiniteSet(S)
  <2>1. IsFiniteSet({b} \cup W)
    BY <1>1, FS_AddElement, SMTT(30)
  <2>2. IsFiniteSet(C)
    BY <1>2, <2>1, FS_Subset
  <2> HIDE DEF C
  <2> DEFINE f == [c \in C |-> Src(c)]
  <2>3. f \in Surjection(C, S)
    BY DEF Surjection
  <2> HIDE DEF S, f
  <2> QED BY <2>2, <2>3, FS_Surjection
<1> HIDE DEF S
<1>6. Quiet(blk, Q, R) /\ SameForks(Q, R) /\ Q.objs = R.objs
  BY <1>1, <1>4, <1>5, BlameAllLemma
<1> DEFINE q == Only(R.wait, W \ C)
<1>7. A = [Q EXCEPT !.ill = @ \cup C, !.wait = Only(@, Range(@) \ C)]
  BY DEF SetIll, S
<1>8. DOMAIN Q = Fields /\ Q.wait = R.wait
  BY <1>6 DEF Quiet, SameBlocks
<1> HIDE DEF Q, C
<1>9. /\ DOMAIN A = Fields /\ A.ill = Q.ill \cup C /\ A.wait = q
      /\ A.objs = Q.objs /\ A.del = Q.del /\ A.torun = Q.torun
  BY <1>7, <1>8 DEF Fields
<1>10. SameForks(A, Q) /\ A.out = Q.out /\ A.found = Q.found /\ A.blamed = Q.blamed
  BY <1>7, <1>8 DEF Fields, SameForks
<1> HIDE DEF A
<1>11. /\ q \in Seq(R.objs) /\ Range(q) = W \ C /\ IsInjective(q)
  <2>1. q \in Seq(R.objs) /\ Range(q) = W \cap (W \ C) /\ IsInjective(q)
    BY <1>1, OnlyLemma
  <2> QED BY <2>1
<1> HIDE DEF q
<1>12. A.ill = R.ill \cup C /\ A.del = R.del /\ A.torun = R.torun /\ A.objs = R.objs /\ Range(A.wait) = W \ C
  BY <1>6, <1>9, <1>11 DEF Quiet, SameBlocks
<1>13. Sane(blk, A)
  <2>1. \A x \in Range(A.wait) : RefsIn(blk, x) \cap A.ill = {}
    <3> TAKE x \in Range(A.wait)
    <3>1. x \in W /\ x \notin C
      BY <1>12
    <3>2. Refs(x) \cap C = {} /\ Refs(x) = RefsIn(blk, x)
      BY <1>2, <3>1 DEF Refs, RefsIn, Prev
    <3>3. RefsIn(blk, x) \cap R.ill = {}
      BY <3>1 DEF Sane
    <3> QED BY <1>12, <3>2, <3>3
  <2>2. A.ill \subseteq A.objs /\ A.del \cap A.ill = {} /\ Range(A.wait) \cap (A.del \cup A.ill) = {}
    BY <1>3, <1>12 DEF Sane
  <2>3. A.wait \in Seq(A.objs) /\ IsInjective(A.wait)
    BY <1>9, <1>11, <1>12
  <2> QED BY <1>9, <1>12, <2>1, <2>2, <2>3 DEF Sane
<1>14. IllStep(A, R)
  <2>1. \A B, D : Told(blk, R, B, D) => Told(blk, A, B, D)
    BY <1>6, <1>9, <1>10 DEF Quiet, Told, SameBlocks
  <2>2. Found(R) => Found(A)
    BY <1>6, <1>10 DEF Quiet, Found
  <2>3. SameForks(A, R)
    BY <1>6, <1>10 DEF SameForks
  <2> QED BY <1>9, <1>12, <2>1, <2>2, <2>3 DEF IllStep
<1>15. b \in A.ill /\ b \notin Range(A.wait)
  BY <1>2, <1>12
<1>16. Ready(blk, R, {b}) => Ready(blk, A, {})
  BY <1>2, <1>12 DEF Ready
<1>17. \E T \in SUBSET Source : IsFiniteSet(T) /\ SameBooks(A, BlameAll(R, T))
  <2>1. SameBooks(A, Q)
    BY <1>7, <1>8 DEF Fields, SameBooks, A
  <2> QED BY <1>4, <1>5, <2>1 DEF Q
<1> QED BY <1>13, <1>14, <1>15, <1>16, <1>17 DEF A
\* What create_block(), initialize() and written() keep.
Arrives(A, R) ==
  /\ SameForks(A, R) /\ A.del = R.del /\ R.objs \subseteq A.objs
  /\ Found(R) => Found(A)
  /\ \A B, D : Told(blk, R, B, D) => Told(blk, A, B, D)

LEMMA ArrivesTransitive ==
  ASSUME NEW A, NEW Q, NEW R, Arrives(A, Q), Arrives(Q, R)
  PROVE  Arrives(A, R)
<1>1. SameForks(A, R)
  BY DEF Arrives, SameForks
<1> QED BY <1>1 DEF Arrives

LEMMA InitializeLemma ==
  ASSUME NEW R, NEW b \in R.objs, World(blk), Sane(blk, R), Ready(blk, R, {}), ~ Initialized(R, b)
  PROVE  LET A == Initialize(R, b)
         IN  Sane(blk, A) /\ Ready(blk, A, {b}) /\ Arrives(A, R)
<1> DEFINE C == CreateObjects(R, Refs(b))
           A == Initialize(R, b)
<1>1. /\ DOMAIN R = Fields /\ R.objs \subseteq DOMAIN blk /\ b \in DOMAIN blk /\ Root \in R.objs
      /\ b \notin R.del /\ b \notin Range(R.wait)
  BY DEF Sane, Initialized
<1>2. Refs(b) \subseteq DOMAIN blk /\ IsFiniteSet(Refs(b)) /\ Refs(b) = RefsIn(blk, b)
  BY <1>1 DEF World, Refs, RefsIn, Prev
<1>3. \A d \in Refs(b) : Src(d) \in Source \/ d \in R.objs
  BY <1>1, <1>2, SourceOfBlock DEF World
<1>4. Quiet(blk, C, R) /\ SameForks(C, R) /\ C.objs = R.objs \cup Refs(b)
  BY <1>1, <1>2, <1>3, CreateObjectsLemma
<1>5. A = IF b \in C.ill THEN C
          ELSE IF Refs(b) \cap C.ill # {} THEN SetIll(C, b)
          ELSE [C EXCEPT !.wait = Append(@, b), !.revd = @ \cup Pending(C, b)]
  BY DEF Initialize
<1> HIDE DEF C, A
<1>6. C.objs \subseteq DOMAIN blk /\ R.objs \subseteq C.objs
  BY <1>1, <1>2, <1>4
<1>7. Sane(blk, C) /\ Ready(blk, C, {})
  BY <1>4, <1>6, QuietIsSane
<1>8. Arrives(C, R)
  BY <1>4, <1>6 DEF Quiet, Arrives, SameBlocks
<1>9. b \in C.objs /\ b \notin C.del /\ b \notin Range(C.wait) /\ Ready(blk, C, {b})
  BY <1>1, <1>4, <1>6, <1>7 DEF Quiet, SameBlocks, Ready
<1>10. CASE b \in C.ill
  <2>1. A = C
    BY <1>5, <1>10
  <2> QED BY <1>7, <1>8, <1>9, <2>1 DEF A
<1>11. CASE b \notin C.ill /\ Refs(b) \cap C.ill # {}
  <2>1. A = SetIll(C, b)
    BY <1>5, <1>11
  <2>2. Sane(blk, A) /\ IllStep(A, C) /\ Ready(blk, A, {})
    BY <1>7, <1>9, <2>1, SetIllLemma
  <2>3. Arrives(A, C)
    BY <2>2 DEF IllStep, Arrives
  <2>4. Arrives(A, R)
    BY <1>8, <2>3, ArrivesTransitive
  <2> QED BY <2>2, <2>4 DEF Ready, A
<1>12. CASE b \notin C.ill /\ Refs(b) \cap C.ill = {}
  <2>1. A = [C EXCEPT !.wait = Append(@, b), !.revd = @ \cup Pending(C, b)]
    BY <1>5, <1>12
  <2>2. DOMAIN C = Fields
    BY <1>7 DEF Sane
  <2>3. /\ DOMAIN A = Fields /\ A.wait = Append(C.wait, b) /\ A.objs = C.objs /\ A.del = C.del
        /\ A.ill = C.ill /\ A.torun = C.torun
    BY <2>1, <2>2 DEF Fields
  <2>4. SameForks(A, C) /\ A.out = C.out /\ A.found = C.found /\ A.blamed = C.blamed
    BY <2>1, <2>2 DEF Fields, SameForks
  <2>5. A.wait \in Seq(A.objs) /\ IsInjective(A.wait) /\ Range(A.wait) = Range(C.wait) \cup {b}
    <3>1. C.wait \in Seq(C.objs) /\ IsInjective(C.wait)
      BY <1>7 DEF Sane
    <3>2. IsInjective(Append(C.wait, b))
      BY <1>9, <3>1, AppendRange
    <3>3. Range(Append(C.wait, b)) = Range(C.wait) \cup {b}
      BY <1>9, <3>1, AppendRange, SMTT(30)
    <3>4. Append(C.wait, b) \in Seq(C.objs)
      <4> DEFINE X == C.objs
                 q == C.wait
      <4>1. q \in Seq(X) /\ b \in X
        BY <1>9, <3>1
      <4> HIDE DEF X, q
      <4>2. Append(q, b) \in Seq(X)
        BY <4>1
      <4> QED BY <4>2 DEF X, q
    <3> QED BY <2>3, <3>2, <3>3, <3>4
  <2>6. Sane(blk, A)
    BY <1>2, <1>7, <1>9, <1>12, <2>3, <2>5, SMTT(30) DEF Sane
  <2>7. Ready(blk, A, {b})
    BY <1>9, <2>3, <2>5 DEF Ready
  <2>8. Arrives(A, C)
    <3>1. \A B, D : Told(blk, C, B, D) => Told(blk, A, B, D)
      BY <2>3, <2>4 DEF Told
    <3>2. Found(C) => Found(A)
      BY <2>4 DEF Found
    <3> QED BY <2>3, <2>4, <3>1, <3>2 DEF Arrives
  <2>9. Arrives(A, R)
    BY <1>8, <2>8, ArrivesTransitive
  <2> QED BY <2>6, <2>7, <2>9 DEF A
<1> QED BY <1>10, <1>11, <1>12

\* A block becomes known and is stored: what receive_block() and
\* add_block_cont_3() do before run_scheduler().
LEMMA ArrivalLemma ==
  ASSUME NEW R, NEW b \in DOMAIN blk, World(blk), Sane(blk, R), Ready(blk, R, {})
  PROVE  LET A == Written(CreateBlock(R, b), b)
         IN  Sane(blk, A) /\ Ready(blk, A, {}) /\ Arrives(A, R)
<1> DEFINE C == CreateObject(R, b)
           Q == CreateBlock(R, b)
           A == Written(Q, b)
<1>1. DOMAIN R = Fields /\ R.objs \subseteq DOMAIN blk /\ Root \in R.objs /\ (Src(b) \in Source \/ b \in R.objs)
  BY SourceOfBlock DEF Sane, World
<1>2. Quiet(blk, C, R) /\ SameForks(C, R) /\ C.objs = R.objs \cup {b}
  BY <1>1, CreateObjectLemma
<1>3. Q = IF Initialized(C, b) THEN C ELSE Initialize(C, b)
  BY DEF CreateBlock
<1> HIDE DEF C, Q
<1>4. b \in C.objs /\ C.objs \subseteq DOMAIN blk /\ R.objs \subseteq C.objs
  BY <1>1, <1>2
<1>5. Sane(blk, C) /\ Ready(blk, C, {})
  BY <1>2, <1>4, QuietIsSane
<1>6. Arrives(C, R)
  BY <1>2, <1>4 DEF Quiet, Arrives, SameBlocks
<1>7. Sane(blk, Q) /\ Ready(blk, Q, {b}) /\ Arrives(Q, R)
  <2>1. CASE Initialized(C, b)
    BY <1>3, <1>5, <1>6, <2>1 DEF Ready
  <2>2. CASE ~ Initialized(C, b)
    <3>1. Sane(blk, Q) /\ Ready(blk, Q, {b}) /\ Arrives(Q, C)
      BY <1>3, <1>4, <1>5, <2>2, InitializeLemma
    <3> QED BY <1>6, <3>1, ArrivesTransitive
  <2> QED BY <2>1, <2>2
<1>8. Pending(Q, b) = RefsIn(blk, b) \ Q.del
  BY DEF Pending, Refs, RefsIn, Prev
<1>9. CASE ~ (b \in Range(Q.wait) /\ Pending(Q, b) = {})
  <2>1. A = Q
    BY <1>9 DEF Written
  <2> HIDE DEF A
  <2>2. Ready(blk, A, {})
    BY <1>7, <1>8, <1>9, <2>1 DEF Ready
  <2> QED BY <1>7, <2>1, <2>2 DEF A, Q
<1>10. CASE b \in Range(Q.wait) /\ Pending(Q, b) = {}
  <2>1. A = [Q EXCEPT !.torun = Append(@, b)] /\ DOMAIN Q = Fields
    BY <1>7, <1>10 DEF Written, Sane
  <2>2. /\ DOMAIN A = Fields /\ A.torun = Append(Q.torun, b) /\ A.objs = Q.objs /\ A.del = Q.del
        /\ A.ill = Q.ill /\ A.wait = Q.wait
    BY <2>1 DEF Fields
  <2>3. SameForks(A, Q) /\ A.out = Q.out /\ A.found = Q.found /\ A.blamed = Q.blamed
    BY <2>1 DEF Fields, SameForks
  <2> HIDE DEF A
  <2>4. b \in Q.objs
    BY <1>7, <1>10, RangeFacts DEF Sane
  <2>5. A.torun \in Seq(A.objs) /\ Range(A.torun) = Range(Q.torun) \cup {b}
    <3>1. Q.torun \in Seq(Q.objs)
      BY <1>7 DEF Sane
    <3>2. Append(Q.torun, b) \in Seq(Q.objs)
      <4> DEFINE X == Q.objs
                 q == Q.torun
      <4>1. q \in Seq(X) /\ b \in X
        BY <2>4, <3>1
      <4> HIDE DEF X, q
      <4>2. Append(q, b) \in Seq(X)
        BY <4>1
      <4> QED BY <4>2 DEF X, q
    <3>3. Range(Append(Q.torun, b)) = Range(Q.torun) \cup {b}
      BY <2>4, <3>1, AppendRange, SMTT(30)
    <3> QED BY <2>2, <3>2, <3>3
  <2>6. Sane(blk, A)
    BY <1>7, <2>2, <2>5 DEF Sane
  <2>7. Ready(blk, A, {})
    BY <1>7, <1>8, <1>10, <2>2, <2>5 DEF Ready
  <2>8. Arrives(A, Q)
    <3>1. \A B, D : Told(blk, Q, B, D) => Told(blk, A, B, D)
      BY <2>2, <2>3 DEF Told
    <3>2. Found(Q) => Found(A)
      BY <2>3 DEF Found
    <3> QED BY <2>2, <2>3, <3>1, <3>2 DEF Arrives
  <2>9. Arrives(A, R)
    BY <1>7, <2>8, ArrivesTransitive
  <2> QED BY <2>6, <2>7, <2>9 DEF A, Q
<1> QED BY <1>9, <1>10

-----------------------------------------------------------------------------
(* The order in which the blocks of a source reach CatChainImpl *)

\* The previous block of a block is of the same source, or the root.
Chains(w) == \A b \in DOMAIN w \ {Root} : w[b].prev = Root \/ Src(w[b].prev) = Src(b)

\* Of a source that is not blamed, or to be among S, every object of O is the
\* one kept for its height; a source with a fork proof is blamed.
SlotsBut(R, S, O) ==
  /\ R.proof \subseteq R.blamed \cup S /\ DOMAIN R.slot = Source /\ O \subseteq Block
  /\ \A b \in O \ {Root} : \/ Src(b) \in R.blamed \cup S
                           \/ Height(b) \in DOMAIN R.slot[Src(b)] /\ R.slot[Src(b)][Height(b)] = b
Slots(R, O) == SlotsBut(R, {}, O)
\* Below every block of D there is one of its source at every height.
Deep(D) ==
  \A c \in D \ {Root} : \A h \in 1 .. Height(c) : \E b \in D \ {Root} : Src(b) = Src(c) /\ Height(b) = h

\* The sources blamed by the first i messages.
Blames(q, i) == {q[j][2] : j \in {k \in 1 .. i : q[k][1] = "blame"}}
AllBlames(q) == Blames(q, Len(q))
\* To one who has the blocks D and blames B, the messages q bring the blocks
\* of a source in the order of their heights, up to the blame.
Rising(B, D, q) ==
  \A i \in 1 .. Len(q) : q[i][1] = "new" /\ Src(q[i][2]) \notin B \cup Blames(q, i - 1) =>
    \A c \in D \cup News(q, i - 1) : Src(c) = Src(q[i][2]) => Height(c) < Height(q[i][2])

\* What a receiver that had blamed B and delivered D has told is in order.
Orderly(R, B, D) ==
  Slots(R, R.objs) /\ Deep(R.del) /\ Told(blk, R, B, D) /\ Rising(B, D, R.out)
\* The blocks whose contents are known.
Settled(R) == Range(R.wait) \cup R.del \cup R.ill
\* What every method keeps.
Keeps(A, R) ==
  /\ R.del \subseteq A.del /\ R.ill \subseteq A.ill /\ Settled(R) \subseteq Settled(A)
  /\ \A B, D : Orderly(R, B, D) => Orderly(A, B, D)
\* No message is added that brings a block.
Hushed(A, R) == \A B, D : R.out \in Seq(Event) /\ Rising(B, D, R.out) => Rising(B, D, A.out)

LEMMA KeepsTransitive ==
  ASSUME NEW A, NEW Q, NEW R, Keeps(A, Q), Keeps(Q, R)
  PROVE  Keeps(A, R)
  BY DEF Keeps

LEMMA QuietKeeps ==
  ASSUME NEW A, NEW R, Quiet(blk, A, R), Hushed(A, R), Slots(R, R.objs) => Slots(A, A.objs)
  PROVE  Keeps(A, R)
<1>1. A.del = R.del /\ A.ill = R.ill /\ A.wait = R.wait
  BY DEF Quiet, SameBlocks
<1>2. ASSUME NEW B, NEW D, Orderly(R, B, D)
      PROVE  Orderly(A, B, D)
  <2>1. Slots(A, A.objs) /\ Deep(A.del) /\ Told(blk, A, B, D)
    BY <1>1, <1>2 DEF Orderly, Quiet
  <2>2. Rising(B, D, A.out)
    BY <1>2 DEF Orderly, Hushed, Told
  <2> QED BY <2>1, <2>2 DEF Orderly
<1> QED BY <1>1, <1>2 DEF Keeps, Settled

BlamesFollow(c, p, q) ==
  /\ \A i \in 0 .. Len(p) : Blames(c, i) = Blames(p, i)
  /\ \A i \in 0 .. Len(q) : AllBlames(p) \cup Blames(q, i) \subseteq Blames(c, Len(p) + i)
LEMMA BlamesConcat ==
  ASSUME NEW p \in Seq(Event), NEW q \in Seq(Event), NEW c, c = p \o q
  PROVE  BlamesFollow(c, p, q)
<1>1. /\ Len(p) \in Nat /\ Len(q) \in Nat
      /\ \A i \in 1 .. Len(p) : c[i] = p[i]
      /\ \A i \in 1 .. Len(q) : c[Len(p) + i] = q[i]
  BY ConcatFacts, SMTT(30)
<1>2. ASSUME NEW i \in 0 .. Len(p)
      PROVE  Blames(c, i) = Blames(p, i)
  <2>1. \A k \in 1 .. i : c[k] = p[k]
    BY <1>1, SMTT(30)
  <2> QED BY <2>1, SMTT(30) DEF Blames
<1>3. ASSUME NEW i \in 0 .. Len(q), NEW x \in AllBlames(p)
      PROVE  x \in Blames(c, Len(p) + i)
  <2>1. PICK j \in 1 .. Len(p) : p[j][1] = "blame" /\ x = p[j][2]
    BY <1>3 DEF Blames, AllBlames
  <2>2. j \in 1 .. Len(p) + i /\ c[j] = p[j]
    BY <1>1
  <2> QED BY <2>1, <2>2 DEF Blames
<1>4. ASSUME NEW i \in 0 .. Len(q), NEW x \in Blames(q, i)
      PROVE  x \in Blames(c, Len(p) + i)
  <2>1. PICK j \in 1 .. i : q[j][1] = "blame" /\ x = q[j][2]
    BY <1>4 DEF Blames
  <2>2. Len(p) + j \in 1 .. Len(p) + i /\ j \in 1 .. Len(q)
    BY <1>1, SMTT(30)
  <2>3. c[Len(p) + j] = q[j]
    BY <1>1, <2>2
  <2> QED BY <2>1, <2>2, <2>3 DEF Blames
<1> QED BY <1>2, <1>3, <1>4 DEF BlamesFollow

LEMMA RisingConcat ==
  ASSUME NEW B, NEW C, NEW D, NEW E, NEW p \in Seq(Event), NEW q \in Seq(Event), Rising(B, D, p),
         C \subseteq B \cup AllBlames(p), E = D \cup AllNews(p), Rising(C, E, q), NEW c, c = p \o q
  PROVE  Rising(B, D, c)
<1>1. /\ Len(c) = Len(p) + Len(q) /\ Len(p) \in Nat /\ Len(q) \in Nat
      /\ \A i \in 1 .. Len(p) : c[i] = p[i]
      /\ \A i \in 1 .. Len(q) : c[Len(p) + i] = q[i]
  BY ConcatFacts, SMTT(30)
<1>2. \A i \in 0 .. Len(p) : News(c, i) = News(p, i)
  BY NewsBefore, Zenon
<1>3. Follows(c, p, q) /\ BlamesFollow(c, p, q)
  BY NewsAfter, BlamesConcat
<1> SUFFICES ASSUME NEW i \in 1 .. Len(c), c[i][1] = "new",
                    Src(c[i][2]) \notin B \cup Blames(c, i - 1),
                    NEW x \in D \cup News(c, i - 1), Src(x) = Src(c[i][2])
             PROVE  Height(x) < Height(c[i][2])
  BY DEF Rising
<1>4. CASE i \in 1 .. Len(p)
  <2>1. c[i] = p[i] /\ i - 1 \in 0 .. Len(p)
    BY <1>1, <1>4, SMTT(30)
  <2>2. News(c, i - 1) = News(p, i - 1) /\ Blames(c, i - 1) = Blames(p, i - 1)
    BY <1>2, <1>3, <2>1 DEF BlamesFollow
  <2> QED BY <1>4, <2>1, <2>2 DEF Rising
<1>5. CASE i \notin 1 .. Len(p)
  <2> DEFINE k == i - Len(p)
  <2>1. k \in 1 .. Len(q) /\ k - 1 \in 0 .. Len(q) /\ i = Len(p) + k /\ i - 1 = Len(p) + (k - 1)
    BY <1>1, <1>5
  <2> HIDE DEF k
  <2>2. c[i] = q[k]
    BY <1>1, <2>1
  <2>3. /\ News(c, i - 1) = AllNews(p) \cup News(q, k - 1)
        /\ AllBlames(p) \cup Blames(q, k - 1) \subseteq Blames(c, i - 1)
    <3>1. News(c, i - 1) = AllNews(p) \cup News(q, k - 1)
      BY <1>3, <2>1 DEF Follows
    <3>2. AllBlames(p) \cup Blames(q, k - 1) \subseteq Blames(c, i - 1)
      BY <1>3, <2>1 DEF BlamesFollow
    <3> QED BY <3>1, <3>2
  <2>4. Src(q[k][2]) \notin C \cup Blames(q, k - 1) /\ x \in E \cup News(q, k - 1)
    BY <2>2, <2>3
  <2> QED BY <2>1, <2>2, <2>4 DEF Rising
<1> QED BY <1>4, <1>5

LEMMA RisingQuiet ==
  ASSUME NEW B, NEW D, NEW q \in Seq(Event), \A e \in Range(q) : e[1] # "new"
  PROVE  Rising(B, D, q)
  BY RangeFacts, SMTT(30) DEF Rising

-----------------------------------------------------------------------------
(* Methods that blame *)

LEMMA BlameAllHushed ==
  ASSUME NEW R, DOMAIN R = Fields, NEW S \in SUBSET Source, IsFiniteSet(S)
  PROVE  Hushed(BlameAll(R, S), R)
<1> DEFINE New == S \ R.blamed
           q == Listed({"blame"} \X New)
           A == BlameAll(R, S)
<1>1. A.out = R.out \o q
  BY DEF BlameAll, Fields
<1>2. IsFiniteSet({"blame"} \X New)
  <2>1. IsFiniteSet(New)
    BY FS_Subset
  <2> DEFINE f == [s \in New |-> <<"blame", s>>]
  <2>2. f \in Surjection(New, {"blame"} \X New)
    BY SMTT(30) DEF Surjection
  <2> QED BY <2>1, <2>2, FS_Surjection, SMTT(30)
<1>3. q \in Seq({"blame"} \X New) /\ Range(q) = {"blame"} \X New
  BY <1>2, ListedFacts
<1>4. q \in Seq(Event) /\ \A e \in Range(q) : e[1] # "new"
  <2>1. {"blame"} \X New \subseteq Event
    BY DEF Event
  <2>2. q \in Seq(Event)
    BY <1>3, <2>1, SMTT(30)
  <2>3. \A e \in {"blame"} \X New : e[1] # "new"
    OBVIOUS
  <2> QED BY <1>3, <2>2, <2>3
<1> HIDE DEF A, q
<1> SUFFICES ASSUME NEW B, NEW D, R.out \in Seq(Event), Rising(B, D, R.out)
             PROVE  Rising(B, D, A.out)
  BY DEF Hushed, A
<1> DEFINE E == D \cup AllNews(R.out)
           o == R.out
<1>5. Rising(B, E, q)
  BY <1>4, RisingQuiet
<1>6. o \in Seq(Event) /\ Rising(B, D, o) /\ E = D \cup AllNews(o) /\ A.out = o \o q /\ B \subseteq B \cup AllBlames(o)
  BY <1>1
<1> HIDE DEF E, o
<1> QED BY <1>4, <1>5, <1>6, RisingConcat

LEMMA BlameAllSlots ==
  ASSUME NEW R, DOMAIN R = Fields, NEW S, NEW O, SlotsBut(R, S, O)
  PROVE  Slots(BlameAll(R, S), O)
<1> DEFINE New == S \ R.blamed
           A == BlameAll(R, S)
<1>1. /\ A.blamed = R.blamed \cup S /\ A.proof = R.proof
      /\ A.slot = [s \in Source |-> IF s \in New THEN <<>> ELSE R.slot[s]]
  BY DEF BlameAll, Fields
<1> HIDE DEF A
<1>2. A.proof \subseteq A.blamed /\ DOMAIN A.slot = Source /\ O \subseteq Block
  BY <1>1 DEF SlotsBut
<1>3. ASSUME NEW b \in O \ {Root}, Src(b) \notin A.blamed
      PROVE  Height(b) \in DOMAIN A.slot[Src(b)] /\ A.slot[Src(b)][Height(b)] = b
  <2>1. Src(b) \in Source /\ Src(b) \notin New
    BY <1>1, <1>2, <1>3, SourceOfBlock
  <2>2. A.slot[Src(b)] = R.slot[Src(b)]
    BY <1>1, <2>1
  <2> QED BY <1>1, <1>3, <2>2 DEF SlotsBut
<1> QED BY <1>2, <1>3 DEF Slots, SlotsBut, A

LEMMA BlameAtSlots ==
  ASSUME NEW R, DOMAIN R = Fields, NEW s \in Source, NEW f, NEW h
  PROVE  /\ Hushed(BlameAt(R, s, f, h), R)
         /\ \A O : SlotsBut(R, {s}, O) => Slots(BlameAt(R, s, f, h), O)
<1> DEFINE Q == Blame(R, s)
           A == BlameAt(R, s, f, h)
<1>1. DOMAIN Q = Fields
  BY BlameLemma DEF Quiet
<1>2. IsFiniteSet({s}) /\ {s} \in SUBSET Source /\ Q = BlameAll(R, {s})
  BY FS_Singleton DEF Blame
<1>3. Hushed(Q, R) /\ \A O : SlotsBut(R, {s}, O) => Slots(Q, O)
  BY <1>2, BlameAllHushed, BlameAllSlots
<1> HIDE DEF Q
<1>4. A.out = Q.out /\ A.blamed = Q.blamed /\ A.proof = Q.proof /\ A.slot = Q.slot
  BY <1>1 DEF BlameAt, Q, Fields
<1> HIDE DEF A
<1> QED BY <1>3, <1>4 DEF Hushed, Slots, SlotsBut, A

LEMMA AddForkSlots ==
  ASSUME NEW R, DOMAIN R = Fields, NEW s \in Source
  PROVE  /\ Hushed(AddFork(R, s), R)
         /\ \A O : Slots(R, O) => Slots(AddFork(R, s), O)
<1> DEFINE K == Blame(R, s)
           Q == IF R.forks[s] = {} THEN R ELSE K
           A == AddFork(R, s)
<1>1. DOMAIN K = Fields
  BY BlameLemma DEF Quiet
<1>2. IsFiniteSet({s}) /\ {s} \in SUBSET Source /\ K = BlameAll(R, {s})
  BY FS_Singleton DEF Blame
<1>3. Hushed(K, R) /\ \A O : SlotsBut(R, {s}, O) => Slots(K, O)
  BY <1>2, BlameAllHushed, BlameAllSlots
<1>4. \A O : Slots(R, O) => SlotsBut(R, {s}, O)
  BY DEF Slots, SlotsBut
<1> HIDE DEF K
<1>5. DOMAIN Q = Fields /\ Hushed(Q, R) /\ \A O : Slots(R, O) => Slots(Q, O)
  BY <1>1, <1>3, <1>4 DEF Hushed
<1>6. A.out = Q.out /\ A.blamed = Q.blamed /\ A.proof = Q.proof /\ A.slot = Q.slot
  <2> HIDE DEF Q
  <2> QED BY <1>5 DEF AddFork, Q, K, Fields
<1> HIDE DEF A, Q
<1> QED BY <1>5, <1>6 DEF Hushed, Slots, SlotsBut, A

-----------------------------------------------------------------------------
(* Methods that make objects *)

\* on_new_block() for the object b: it is the only one of its height, or its
\* source is blamed.
LEMMA OnNewBlockSlots ==
  ASSUME NEW R, DOMAIN R = Fields, NEW b \in Block, Src(b) \in Source, NEW O, Slots(R, O), b \notin O
  PROVE  Hushed(OnNewBlock(R, b), R) /\ Slots(OnNewBlock(R, b), O \cup {b})
<1> DEFINE s == Src(b)
           h == Height(b)
           A == OnNewBlock(R, b)
           Q == [R EXCEPT !.proof = @ \cup {s}, !.found = Append(@, s)]
           K == [R EXCEPT !.slot[s] = With(@, h, b)]
<1>0. /\ R.proof \subseteq R.blamed /\ DOMAIN R.slot = Source /\ O \cup {b} \subseteq Block
      /\ \A c \in O \ {Root} : \/ Src(c) \in R.blamed
                               \/ Height(c) \in DOMAIN R.slot[Src(c)] /\ R.slot[Src(c)][Height(c)] = c
  BY DEF Slots, SlotsBut
<1>1. CASE s \in R.proof
  <2>1. A = R
    BY <1>1 DEF OnNewBlock
  <2>2. Slots(R, O \cup {b})
    BY <1>0, <1>1 DEF Slots, SlotsBut
  <2> QED BY <2>1, <2>2 DEF Hushed
<1>2. CASE s \notin R.proof /\ h \in DOMAIN R.slot[s]
  <2>1. A = Blame(Q, s)
    BY <1>2 DEF OnNewBlock
  <2>2. /\ DOMAIN Q = Fields /\ Q.proof = R.proof \cup {s} /\ Q.blamed = R.blamed /\ Q.slot = R.slot
        /\ Q.out = R.out
    BY DEF Fields
  <2> HIDE DEF Q, A
  <2>3. SlotsBut(Q, {s}, O \cup {b})
    BY <1>0, <2>2 DEF SlotsBut
  <2>4. A = BlameAll(Q, {s}) /\ {s} \in SUBSET Source /\ IsFiniteSet({s})
    BY <2>1, FS_Singleton DEF Blame
  <2>5. Hushed(A, Q) /\ Slots(A, O \cup {b})
    BY <2>2, <2>3, <2>4, BlameAllHushed, BlameAllSlots
  <2> QED BY <2>2, <2>5 DEF Hushed, A
<1>3. CASE s \notin R.proof /\ h \notin DOMAIN R.slot[s]
  <2>1. A = K
    BY <1>3 DEF OnNewBlock
  <2>2. /\ K.proof = R.proof /\ K.blamed = R.blamed /\ K.out = R.out
        /\ K.slot = [R.slot EXCEPT ![s] = With(@, h, b)]
    BY DEF Fields
  <2> HIDE DEF K, A
  <2>3. DOMAIN K.slot = Source /\ K.slot[s] = With(R.slot[s], h, b) /\ \A t \in Source \ {s} : K.slot[t] = R.slot[t]
    BY <1>0, <2>2
  <2>4. /\ h \in DOMAIN K.slot[s] /\ K.slot[s][h] = b
        /\ \A g \in DOMAIN R.slot[s] : g \in DOMAIN K.slot[s] /\ K.slot[s][g] = R.slot[s][g]
    BY <1>3, <2>3 DEF With
  <2>5. ASSUME NEW c \in (O \cup {b}) \ {Root}, Src(c) \notin K.blamed
        PROVE  Height(c) \in DOMAIN K.slot[Src(c)] /\ K.slot[Src(c)][Height(c)] = c
    <3>1. CASE c = b
      BY <2>4, <3>1
    <3>2. CASE c # b
      <4>1. Src(c) \in Source /\ Height(c) \in DOMAIN R.slot[Src(c)] /\ R.slot[Src(c)][Height(c)] = c
        BY <1>0, <2>2, <2>5, <3>2, SourceOfBlock
      <4>2. CASE Src(c) = s
        BY <2>4, <4>1, <4>2
      <4>3. CASE Src(c) # s
        BY <2>3, <4>1, <4>3
      <4> QED BY <4>2, <4>3
    <3> QED BY <3>1, <3>2
  <2>6. Slots(K, O \cup {b})
    BY <1>0, <2>2, <2>3, <2>5 DEF Slots, SlotsBut
  <2> QED BY <2>1, <2>2, <2>6 DEF Hushed, A
<1> QED BY <1>1, <1>2, <1>3

LEMMA CreateObjectKeeps ==
  ASSUME NEW R, DOMAIN R = Fields, NEW b \in Block, Src(b) \in Source \/ b \in R.objs
  PROVE  Keeps(CreateObject(R, b), R)
<1> DEFINE A == CreateObject(R, b)
           Q == [R EXCEPT !.objs = @ \cup {b}]
<1>1. Quiet(blk, A, R) /\ A.objs = R.objs \cup {b}
  BY CreateObjectLemma
<1>2. CASE b \in R.objs
  <2>1. A = R
    BY <1>2 DEF CreateObject
  <2> QED BY <2>1 DEF Keeps
<1>3. CASE b \notin R.objs
  <2>1. /\ DOMAIN Q = Fields /\ Q.out = R.out /\ Q.blamed = R.blamed /\ Q.proof = R.proof
        /\ Q.slot = R.slot
    BY DEF Fields
  <2>2. A = OnNewBlock(Q, b)
    BY <1>3 DEF CreateObject
  <2> HIDE DEF A, Q
  <2>3. ASSUME Slots(R, R.objs)
        PROVE  Hushed(A, Q) /\ Slots(A, A.objs)
    <3>1. Slots(Q, R.objs)
      BY <2>1, <2>3 DEF Slots, SlotsBut
    <3> QED BY <1>1, <1>3, <2>1, <2>2, <3>1, OnNewBlockSlots, SMTT(30)
  <2>4. CASE Slots(R, R.objs)
    <3>1. Hushed(A, R)
      BY <2>1, <2>3, <2>4 DEF Hushed
    <3> QED BY <1>1, <2>3, <2>4, <3>1, QuietKeeps DEF A
  <2>5. CASE ~ Slots(R, R.objs)
    BY <1>1, <2>5 DEF Keeps, Orderly, Quiet, SameBlocks, Settled, A
  <2> QED BY <2>4, <2>5
<1> QED BY <1>2, <1>3

LEMMA CreateObjectsKeeps ==
  ASSUME NEW R, DOMAIN R = Fields, NEW S \in SUBSET Block, IsFiniteSet(S), \A b \in S : Src(b) \in Source \/ b \in R.objs
  PROVE  Keeps(CreateObjects(R, S), R)
<1> DEFINE q == Listed(S)
<1>1. q \in Seq(S) /\ Len(q) \in Nat
  BY ListedFacts, RangeFacts
<1>0. q \in Seq(S) /\ q = Listed(S)
  BY <1>1
<1> HIDE DEF q
<1>f. PICK f : Made(f, R, S, q)
  BY <1>0, CreateObjectsExists
<1>3. /\ f[0] = R
      /\ \A i \in 1 .. Len(q) : f[i] = CreateObject(f[i - 1], q[i])
      /\ CreateObjects(R, S) = f[Len(q)]
  BY <1>f DEF Made
<1> DEFINE P(i) == DOMAIN f[i] = Fields /\ R.objs \subseteq f[i].objs /\ Keeps(f[i], R)
           T == {i \in Nat : i <= Len(q) => P(i)}
<1>4. 0 \in T
  BY <1>3 DEF Keeps
<1>5. ASSUME NEW i \in Nat, i \in T, i + 1 <= Len(q)
      PROVE  P(i + 1)
  <2>1. P(i) /\ i + 1 \in 1 .. Len(q) /\ (i + 1) - 1 = i
    <3> HIDE DEF P
    <3> QED BY <1>1, <1>5
  <2>2. f[i + 1] = CreateObject(f[i], q[i + 1]) /\ q[i + 1] \in S
    BY <1>1, <1>3, <2>1
  <2>3. DOMAIN f[i] = Fields /\ (Src(q[i + 1]) \in Source \/ q[i + 1] \in f[i].objs) /\ q[i + 1] \in Block
    <3>1. q[i + 1] \in Block /\ (Src(q[i + 1]) \in Source \/ q[i + 1] \in R.objs)
      BY <2>2
    <3>2. DOMAIN f[i] = Fields /\ R.objs \subseteq f[i].objs
      BY <2>1
    <3> QED BY <3>1, <3>2
  <2> DEFINE A == f[i + 1]
             Q == f[i]
             b == q[i + 1]
  <2>4. Quiet(blk, A, Q) /\ A.objs = Q.objs \cup {b} /\ Keeps(A, Q)
    <3>1. A = CreateObject(Q, b) /\ DOMAIN Q = Fields /\ b \in Block /\ (Src(b) \in Source \/ b \in Q.objs)
      BY <2>2, <2>3
    <3> HIDE DEF A, Q, b
    <3> QED BY <3>1, CreateObjectLemma, CreateObjectKeeps
  <2>5. Keeps(f[i + 1], R)
    BY <2>1, <2>4, KeepsTransitive
  <2> QED BY <2>1, <2>4, <2>5 DEF Quiet
<1>6. P(Len(q))
  <2> HIDE DEF P
  <2>1. \A i \in Nat : i \in T => i + 1 \in T
    BY <1>5
  <2>2. Len(q) \in T
    <3> HIDE DEF T
    <3> QED BY <1>1, <1>4, <2>1, SetInduction
  <2> QED BY <1>1, <2>2
<1> QED BY <1>3, <1>6

-----------------------------------------------------------------------------
(* Methods that decide about blocks *)

LEMMA BooksKeep ==
  ASSUME NEW A, NEW R, A.objs = R.objs, A.del = R.del, SameBooks(A, R), R.ill \subseteq A.ill,
         Settled(R) \subseteq Settled(A)
  PROVE  Keeps(A, R)
<1>1. ASSUME NEW B, NEW D, Orderly(R, B, D)
      PROVE  Orderly(A, B, D)
  <2>1. Slots(A, A.objs)
    BY <1>1 DEF Orderly, Slots, SlotsBut, SameBooks
  <2>2. Told(blk, A, B, D)
    BY <1>1 DEF Orderly, Told, SameBooks
  <2> QED BY <1>1, <2>1, <2>2 DEF Orderly, SameBooks
<1> QED BY <1>1 DEF Keeps

LEMMA SetIllKeeps ==
  ASSUME NEW R, NEW b \in R.objs, World(blk), Sane(blk, R), b \notin R.del
  PROVE  Keeps(SetIll(R, b), R) /\ b \in SetIll(R, b).ill
<1> DEFINE A == SetIll(R, b)
<1>1. /\ IllStep(A, R) /\ b \in A.ill
      /\ \E S \in SUBSET Source : IsFiniteSet(S) /\ SameBooks(A, BlameAll(R, S))
  BY SetIllLemma
<1> HIDE DEF A
<1>2. PICK S \in SUBSET Source : IsFiniteSet(S) /\ SameBooks(A, BlameAll(R, S))
  BY <1>1
<1> DEFINE Q == BlameAll(R, S)
<1>3. DOMAIN R = Fields
  BY DEF Sane
<1>4. Quiet(blk, Q, R) /\ Q.objs = R.objs /\ Hushed(Q, R)
  BY <1>2, <1>3, BlameAllLemma, BlameAllHushed
<1>5. Slots(R, R.objs) => Slots(Q, Q.objs)
  <2>1. Slots(R, R.objs) => SlotsBut(R, S, R.objs)
    BY DEF Slots, SlotsBut
  <2> QED BY <1>3, <1>4, <2>1, BlameAllSlots
<1>6. SameBooks(A, Q)
  BY <1>2
<1> HIDE DEF Q
<1>7. Keeps(Q, R)
  BY <1>4, <1>5, QuietKeeps
<1>8. /\ A.objs = Q.objs /\ A.del = Q.del /\ Q.ill \subseteq A.ill
      /\ Settled(Q) \subseteq Settled(A)
  BY <1>1, <1>4 DEF IllStep, Quiet, SameBlocks, Settled
<1>9. Keeps(A, Q)
  BY <1>6, <1>8, BooksKeep
<1> QED BY <1>1, <1>7, <1>9, KeepsTransitive DEF A

LEMMA InitializeKeeps ==
  ASSUME NEW R, NEW b \in R.objs, World(blk), Sane(blk, R), Ready(blk, R, {}), ~ Initialized(R, b)
  PROVE  Keeps(Initialize(R, b), R) /\ b \in Settled(Initialize(R, b))
<1> DEFINE C == CreateObjects(R, Refs(b))
           A == Initialize(R, b)
<1>1. /\ DOMAIN R = Fields /\ R.objs \subseteq DOMAIN blk /\ b \in DOMAIN blk /\ Root \in R.objs
      /\ b \notin R.del /\ b \notin Range(R.wait)
  BY DEF Sane, Initialized
<1>2. Refs(b) \in SUBSET DOMAIN blk /\ IsFiniteSet(Refs(b)) /\ DOMAIN blk \subseteq Block
  BY <1>1 DEF World, Refs, RefsIn, Prev
<1>3. \A d \in Refs(b) : Src(d) \in Source \/ d \in R.objs
  BY <1>1, <1>2, SourceOfBlock
<1>4. Quiet(blk, C, R) /\ C.objs = R.objs \cup Refs(b) /\ Keeps(C, R)
  BY <1>1, <1>2, <1>3, CreateObjectsLemma, CreateObjectsKeeps
<1>5. A = IF b \in C.ill THEN C
          ELSE IF Refs(b) \cap C.ill # {} THEN SetIll(C, b)
          ELSE [C EXCEPT !.wait = Append(@, b), !.revd = @ \cup Pending(C, b)]
  BY DEF Initialize
<1> HIDE DEF C, A
<1>6. C.objs \subseteq DOMAIN blk /\ R.objs \subseteq C.objs
  BY <1>1, <1>2, <1>4
<1>7. Sane(blk, C) /\ b \in C.objs /\ b \notin C.del
  BY <1>1, <1>4, <1>6, QuietIsSane DEF Quiet, SameBlocks
<1>8. CASE b \in C.ill
  BY <1>4, <1>5, <1>8 DEF Settled, A
<1>9. CASE b \notin C.ill /\ Refs(b) \cap C.ill # {}
  <2>1. Keeps(A, C) /\ b \in A.ill
    BY <1>5, <1>7, <1>9, SetIllKeeps
  <2> QED BY <1>4, <2>1, KeepsTransitive DEF Settled, A
<1>10. CASE b \notin C.ill /\ Refs(b) \cap C.ill = {}
  <2>1. A = [C EXCEPT !.wait = Append(@, b), !.revd = @ \cup Pending(C, b)]
    BY <1>5, <1>10
  <2>2. DOMAIN C = Fields /\ C.wait \in Seq(C.objs)
    BY <1>7 DEF Sane
  <2>3. A.wait = Append(C.wait, b) /\ A.objs = C.objs /\ A.del = C.del /\ A.ill = C.ill
    BY <2>1, <2>2 DEF Fields
  <2>4. SameBooks(A, C)
    BY <2>1, <2>2 DEF Fields, SameBooks
  <2>5. Range(A.wait) = Range(C.wait) \cup {b}
    BY <1>7, <2>2, <2>3, AppendRange, SMTT(30)
  <2>6. Settled(C) \subseteq Settled(A) /\ b \in Settled(A)
    BY <2>3, <2>5 DEF Settled
  <2>7. Keeps(A, C)
    BY <2>3, <2>4, <2>6, BooksKeep
  <2> QED BY <1>4, <2>6, <2>7, KeepsTransitive DEF A
<1> QED BY <1>8, <1>9, <1>10

\* A block becomes known and is stored.
LEMMA WrittenKeeps ==
  ASSUME NEW R, NEW b \in DOMAIN blk, World(blk), Sane(blk, R), Ready(blk, R, {})
  PROVE  LET A == Written(CreateBlock(R, b), b)
         IN  Keeps(A, R) /\ b \in Settled(A)
<1> DEFINE C == CreateObject(R, b)
           Q == CreateBlock(R, b)
           A == Written(Q, b)
<1>1. DOMAIN R = Fields /\ R.objs \subseteq DOMAIN blk /\ b \in Block /\ (Src(b) \in Source \/ b \in R.objs)
  BY SourceOfBlock DEF Sane, World
<1>2. Quiet(blk, C, R) /\ C.objs = R.objs \cup {b} /\ Keeps(C, R)
  BY <1>1, CreateObjectLemma, CreateObjectKeeps
<1>3. Q = IF Initialized(C, b) THEN C ELSE Initialize(C, b)
  BY DEF CreateBlock
<1>4. A = IF b \in Range(Q.wait) /\ Pending(Q, b) = {} THEN [Q EXCEPT !.torun = Append(@, b)] ELSE Q
  BY DEF Written
<1> HIDE DEF C, Q, A
<1>5. b \in C.objs /\ C.objs \subseteq DOMAIN blk /\ R.objs \subseteq C.objs
  BY <1>1, <1>2
<1>6. Sane(blk, C) /\ Ready(blk, C, {}) /\ DOMAIN C = Fields
  BY <1>2, <1>5, QuietIsSane DEF Quiet
<1>7. Keeps(Q, R) /\ b \in Settled(Q) /\ DOMAIN Q = Fields
  <2>1. CASE Initialized(C, b)
    BY <1>2, <1>3, <1>6, <2>1 DEF Initialized, Settled
  <2>2. CASE ~ Initialized(C, b)
    <3>1. Sane(blk, Q) /\ Keeps(Q, C) /\ b \in Settled(Q)
      BY <1>3, <1>5, <1>6, <2>2, InitializeLemma, InitializeKeeps
    <3> QED BY <1>2, <3>1, KeepsTransitive DEF Sane
  <2> QED BY <2>1, <2>2
<1>8. A.objs = Q.objs /\ A.del = Q.del /\ A.ill = Q.ill /\ A.wait = Q.wait
  BY <1>4, <1>7 DEF Fields
<1>9. SameBooks(A, Q)
  BY <1>4, <1>7 DEF Fields, SameBooks
<1>10. Settled(A) = Settled(Q)
  BY <1>8 DEF Settled
<1>11. Keeps(A, Q)
  BY <1>8, <1>9, <1>10, BooksKeep
<1> QED BY <1>7, <1>10, <1>11, KeepsTransitive DEF A, Q

\* The first message leaves the mailbox: what it brings, and the others.
RisingFirst(B, D, q) ==
  /\ Head(q)[1] = "new" =>
       /\ Src(Head(q)[2]) \notin B => \A x \in D : Src(x) = Src(Head(q)[2]) => Height(x) < Height(Head(q)[2])
       /\ Rising(B, D \cup {Head(q)[2]}, Tail(q))
  /\ Head(q)[1] = "blame" => Rising(B \cup {Head(q)[2]}, D, Tail(q))
  /\ Head(q)[1] = "start" => Rising(B, D, Tail(q))
LEMMA RisingTail ==
  ASSUME NEW B, NEW D, NEW q \in Seq(Event), q # <<>>, Rising(B, D, q)
  PROVE  RisingFirst(B, D, q)
<1> DEFINE t == Tail(q)
           h == Head(q)
           X == IF h[1] = "blame" THEN {h[2]} ELSE {}
           H == IF h[1] = "new" THEN {h[2]} ELSE {}
<1>1. /\ Len(q) \in Nat /\ Len(t) \in Nat /\ h = q[1] /\ 1 \in 1 .. Len(q)
      /\ \A j \in 1 .. Len(t) : j + 1 \in 1 .. Len(q) /\ t[j] = q[j + 1]
  BY TailIs DEF TailOf
<1> HIDE DEF t, h
<1>2. ASSUME h[1] = "new", Src(h[2]) \notin B, NEW x \in D, Src(x) = Src(h[2])
      PROVE  Height(x) < Height(h[2])
  <2>1. 1 - 1 = 0 /\ 1 .. 0 = {}
    OBVIOUS
  <2>2. Blames(q, 1 - 1) = {}
    BY <2>1 DEF Blames
  <2> QED BY <1>1, <1>2, <2>2 DEF Rising
<1>3. ASSUME NEW i \in 1 .. Len(t), NEW x \in H \cup News(t, i - 1)
      PROVE  x \in News(q, i)
  <2>1. CASE x \in H
    <3>1. h[1] = "new" /\ x = q[1][2] /\ 1 \in 1 .. i
      BY <1>1, <2>1
    <3> QED BY <1>1, <3>1 DEF News
  <2>2. CASE x \in News(t, i - 1)
    <3>1. PICK j \in 1 .. i - 1 : t[j][1] = "new" /\ x = t[j][2]
      BY <2>2 DEF News
    <3>2. j \in 1 .. Len(t) /\ j + 1 \in 1 .. i
      BY <1>1, SMTT(30)
    <3>3. t[j] = q[j + 1]
      BY <1>1, <3>2
    <3> QED BY <3>1, <3>2, <3>3 DEF News
  <2> QED BY <1>3, <2>1, <2>2
<1>4. ASSUME NEW i \in 1 .. Len(t), NEW x \in Blames(q, i)
      PROVE  x \in X \cup Blames(t, i - 1)
  <2>1. PICK j \in 1 .. i : q[j][1] = "blame" /\ x = q[j][2]
    BY <1>4 DEF Blames
  <2>2. CASE j = 1
    BY <1>1, <2>1, <2>2
  <2>3. CASE j # 1
    <3>1. j - 1 \in 1 .. i - 1 /\ j - 1 \in 1 .. Len(t) /\ (j - 1) + 1 = j
      BY <1>1, <2>3
    <3>2. t[j - 1] = q[j]
      BY <1>1, <3>1
    <3> QED BY <2>1, <3>1, <3>2 DEF Blames
  <2> QED BY <2>2, <2>3
<1>5. Rising(B \cup X, D \cup H, t)
  <2> HIDE DEF X, H
  <2> SUFFICES ASSUME NEW i \in 1 .. Len(t), t[i][1] = "new", Src(t[i][2]) \notin (B \cup X) \cup Blames(t, i - 1),
                      NEW x \in (D \cup H) \cup News(t, i - 1), Src(x) = Src(t[i][2])
               PROVE  Height(x) < Height(t[i][2])
    BY DEF Rising
  <2> DEFINE k == i + 1
  <2>1. k \in 1 .. Len(q) /\ t[i] = q[k] /\ k - 1 = i
    BY <1>1
  <2> HIDE DEF k
  <2>2. Src(q[k][2]) \notin B \cup Blames(q, k - 1) /\ x \in D \cup News(q, k - 1)
    BY <1>3, <1>4, <2>1
  <2> QED BY <2>1, <2>2 DEF Rising
<1>6. /\ h[1] = "new" => Rising(B, D \cup {h[2]}, t)
      /\ h[1] = "blame" => Rising(B \cup {h[2]}, D, t)
      /\ h[1] = "start" => Rising(B, D, t)
  <2>1. /\ h[1] = "new" => B \cup X = B /\ D \cup H = D \cup {h[2]}
        /\ h[1] = "blame" => B \cup X = B \cup {h[2]} /\ D \cup H = D
        /\ h[1] = "start" => B \cup X = B /\ D \cup H = D
    OBVIOUS
  <2> HIDE DEF X, H
  <2> QED BY <1>5, <2>1
<1> QED BY <1>2, <1>6 DEF RisingFirst, t, h

-----------------------------------------------------------------------------
(* More blocks *)

\* The block of another member.
LEMMA OthersGrown ==
  ASSUME NEW w, NEW v, NEW S, Grown(v, w, S), NEW m, m \notin S
  PROVE  /\ \A bp : MadeOK(w, m, bp) => MadeOK(v, m, bp)
         /\ \A bp, E, q : QueueOK(w, m, bp, E, q) => QueueOK(v, m, bp, E, q)
         /\ \A s \in DOMAIN w : \A l, E, I : SendingOK(w, m, s, l, E, I) => SendingOK(v, m, s, l, E, I)
<1>1. /\ \A y \in DOMAIN w : y \in DOMAIN v /\ v[y] = w[y]
      /\ \A y \in DOMAIN v : Src(y) = m => y \in DOMAIN w
  <2>1. CASE v = w
    BY <2>1
  <2>2. CASE v # w
    <3>1. PICK b, p, D, a : Src(b) \in S /\ Added(v, w, b, p, D, a)
      BY <2>2 DEF Grown
    <3>2. DOMAIN v = DOMAIN w \cup {b} /\ b \notin DOMAIN w /\ \A y \in DOMAIN w : v[y] = w[y]
      BY <3>1 DEF Added, With
    <3> QED BY <3>1, <3>2
  <2> QED BY <2>1, <2>2
<1>2. \A bp : MadeOK(w, m, bp) => MadeOK(v, m, bp)
  BY <1>1 DEF MadeOK
<1>3. Accused(v, m) = Accused(w, m)
  BY <1>1 DEF Accused
<1>4. \A bp, E, q : QueueOK(w, m, bp, E, q) => QueueOK(v, m, bp, E, q)
  BY <1>3 DEF QueueOK
<1>5. \A s \in DOMAIN w : \A l, E, I : SendingOK(w, m, s, l, E, I) => SendingOK(v, m, s, l, E, I)
  BY <1>1 DEF SendingOK
<1> QED BY <1>2, <1>4, <1>5

\* A block b of n, above its last one p, with dependencies D and the accused a.
NewOwn(v, w, n, b, p, D, a, bp) ==
  /\ World(w) /\ Chains(w) /\ MadeOK(w, n, bp) /\ Added(v, w, b, p, D, a)
  /\ Src(b) = n /\ (p = Root \/ Src(p) = n) /\ \A y \in DOMAIN w : Src(y) = n => Height(y) <= Height(p)
  /\ Apart(D, n) /\ a \in bp \cup {NoSource} /\ Clear(D, Accused(w, n)) /\ Clear(D, {a})
AfterOwn(v, w, n, b, p, D, a, bp) ==
  /\ Chains(v) /\ MadeOK(v, n, bp) /\ v[b].prev = p /\ v[b].deps = D
  /\ \A E, q : QueueOK(w, n, bp, E, q) /\ (\A j \in 1 .. Len(q) : Clear(q[j][1], {a})) => QueueOK(v, n, bp, E, q)
LEMMA OwnAdded ==
  ASSUME NEW w, NEW v, NEW n, NEW b, NEW p, NEW D, NEW a, NEW bp, NewOwn(v, w, n, b, p, D, a, bp)
  PROVE  AfterOwn(v, w, n, b, p, D, a, bp)
<1>0. /\ World(w) /\ Chains(w) /\ MadeOK(w, n, bp) /\ Added(v, w, b, p, D, a)
      /\ Src(b) = n /\ (p = Root \/ Src(p) = n) /\ \A y \in DOMAIN w : Src(y) = n => Height(y) <= Height(p)
      /\ Apart(D, n) /\ a \in bp \cup {NoSource} /\ Clear(D, Accused(w, n)) /\ Clear(D, {a})
  BY DEF NewOwn
<1>1. /\ DOMAIN v = DOMAIN w \cup {b} /\ b \notin DOMAIN w /\ \A y \in DOMAIN w : v[y] = w[y] /\ y # b
      /\ v[b].prev = p /\ v[b].deps = D /\ v[b].acc = a
  BY <1>0 DEF Added, With
<1>2. b # Root /\ p \in Block /\ Height(p) \in Nat /\ Height(b) = Height(p) + 1
      /\ \A y \in DOMAIN w : Height(y) \in Nat
  BY <1>0, SourceOfBlock DEF Added, World
<1>3. Chains(v)
  BY <1>0, <1>1, <1>2 DEF Chains
<1>4. Accused(v, n) = Accused(w, n) \cup {a}
  BY <1>0, <1>1 DEF Accused
<1>5. MadeOK(v, n, bp)
  <2> SUFFICES ASSUME NEW y \in DOMAIN v, Src(y) = n
               PROVE  /\ Apart(v[y].deps, n) /\ v[y].acc \in bp \cup {NoSource}
                      /\ \A x \in DOMAIN v : Src(x) = n /\ Height(x) <= Height(y) => Clear(v[y].deps, {v[x].acc})
    BY DEF MadeOK
  <2>1. CASE y = b
    <3>1. \A x \in DOMAIN v : Src(x) = n => v[x].acc \in Accused(w, n) \cup {a}
      BY <1>0, <1>1 DEF Accused
    <3> QED BY <1>0, <1>1, <2>1, <3>1 DEF Clear
  <2>2. CASE y # b
    <3>1. y \in DOMAIN w /\ v[y] = w[y]
      BY <1>1, <2>2
    <3>2. ASSUME NEW x \in DOMAIN v, Src(x) = n, Height(x) <= Height(y)
          PROVE  x \in DOMAIN w /\ v[x] = w[x]
      <4>1. x # b
        BY <1>0, <1>2, <3>1, <3>2
      <4> QED BY <1>1, <4>1
    <3> QED BY <1>0, <3>1, <3>2 DEF MadeOK
  <2> QED BY <2>1, <2>2
<1>6. ASSUME NEW E, NEW q, QueueOK(w, n, bp, E, q), \A j \in 1 .. Len(q) : Clear(q[j][1], {a})
      PROVE  QueueOK(v, n, bp, E, q)
  BY <1>4, <1>6 DEF QueueOK, Clear
<1> QED BY <1>1, <1>3, <1>5, <1>6 DEF AfterOwn
=============================================================================

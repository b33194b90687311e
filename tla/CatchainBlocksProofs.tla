----------------------- MODULE CatchainBlocksProofs -----------------------
(***************************************************************************)
(* What run_scheduler() does to a receiver: it runs to its end, delivers   *)
(* blocks after what they refer to, leaves nothing that could run, and     *)
(* keeps vector times exact.                                               *)
(***************************************************************************)
EXTENDS CatchainBlocksLemmas

\* Zenon proves most steps, which are about sets and functions; those that it
\* does not find, arithmetic above all, name SMT.
USE ZenonT(20), SMTT(30)

-----------------------------------------------------------------------------
(* Vector times *)

\* Heights and cones of blocks are what the references say.
Cones(w) ==
  /\ w[Root].cone = {Root}
  /\ \A b \in DOMAIN w : /\ b \in w[b].cone /\ w[b].cone \subseteq DOMAIN w
                         /\ \A c \in w[b].cone : w[c].cone \subseteq w[b].cone
  /\ \A b \in DOMAIN w \ {Root} : /\ Height(b) = Height(w[b].prev) + 1
                                  /\ w[b].cone = {b} \cup UNION {w[d].cone : d \in RefsIn(w, b)}

\* The fork ids and vector times of the blocks D: a vector time names the
\* highest block below in every fork, and a fork is a chain, of which every
\* block but the last has a next one.
Times(w, fork, vt, next, k, D) ==
  /\ k \in Nat /\ D \subseteq DOMAIN fork /\ D \subseteq DOMAIN vt /\ D \subseteq DOMAIN w
  /\ \A b \in D \ {Root} : fork[b] \in 1 .. k
  /\ \A c \in D : /\ w[c].cone \subseteq D
                  /\ \A g \in DOMAIN vt[c] : vt[c][g] \in Nat
                  /\ \A g : At(vt[c], g) > 0 =>
                       \E b \in w[c].cone \ {Root} : fork[b] = g /\ Height(b) = At(vt[c], g)
                  /\ \A b \in w[c].cone \ {Root} : At(vt[c], fork[b]) >= Height(b)
  /\ \A b, c \in D \ {Root} : fork[b] = fork[c] =>
       /\ Height(b) <= Height(c) => b \in w[c].cone
       /\ Height(b) < Height(c) => b \in next
       /\ Height(b) = Height(c) => b = c
Timed(w, R, D) == Times(w, R.fork, R.vt, R.next, R.nforks, D)

\* A finite set of numbers has a greatest one.
LEMMA MaxExists ==
  ASSUME NEW S \in SUBSET Nat, IsFiniteSet(S), S # {}
  PROVE  Max(S) \in S /\ \A y \in S : Max(S) >= y
<1> DEFINE Great(U) == \E x \in U : \A y \in U : x >= y
           T == {n \in Nat : \A U \in SUBSET Nat : IsFiniteSet(U) /\ Cardinality(U) = n /\ U # {} => Great(U)}
<1>1. 0 \in T
  BY FS_EmptySet
<1>2. ASSUME NEW n \in Nat, n \in T
      PROVE  n + 1 \in T
  <2> SUFFICES ASSUME NEW U \in SUBSET Nat, IsFiniteSet(U), Cardinality(U) = n + 1, U # {}
               PROVE  Great(U)
    BY SMTT(30)
  <2>1. PICK u \in U : TRUE
    OBVIOUS
  <2> DEFINE V == U \ {u}
  <2>2. IsFiniteSet(V) /\ Cardinality(V) = n /\ V \in SUBSET Nat
    <3>1. IsFiniteSet(V) /\ Cardinality(V) = Cardinality(U) - 1
      BY FS_RemoveElement
    <3>2. (n + 1) - 1 = n
      OBVIOUS
    <3> QED BY <3>1, <3>2
  <2>3. CASE V = {}
    BY <2>3, SMTT(30)
  <2>4. CASE V # {}
    <3>1. Great(V)
      <4> HIDE DEF V, Great
      <4> QED BY <1>2, <2>2, <2>4
    <3> QED BY <2>1, <3>1, SMTT(30)
  <2> QED BY <2>3, <2>4
<1>3. Nat \subseteq T
  <2> HIDE DEF T
  <2> QED BY <1>1, <1>2, SetInduction
<1>4. Great(S)
  <2>1. Cardinality(S) \in Nat
    BY FS_CardinalityType
  <2> HIDE DEF Great
  <2> QED BY <1>3, <2>1
<1> QED BY <1>4 DEF Max

LEMMA AtFacts ==
  ASSUME NEW v, \A g \in DOMAIN v : v[g] \in Nat
  PROVE  /\ \A g : At(v, g) \in Nat
         /\ \A f, x, g : At(With(v, f, x), g) = IF g = f THEN x ELSE At(v, g)
         /\ \A f, x \in Nat : \A g \in DOMAIN With(v, f, x) : With(v, f, x)[g] \in Nat
  BY DEF At, With

\* The vector time that initialize_fork() puts together before its own entry.
LEMMA MergedVtLemma ==
  ASSUME NEW R, NEW b, IsFiniteSet(Refs(b)),
         \A d \in Refs(b) : \A g \in DOMAIN R.vt[d] : R.vt[d][g] \in Nat
  PROVE  LET M == MergedVt(R, b)
         IN  /\ \A g \in DOMAIN M : M[g] \in Nat
             /\ \A g : At(M, g) \in Nat
             /\ \A d \in Refs(b) : \A g : At(M, g) >= At(R.vt[d], g)
             /\ \A g : At(M, g) > 0 => \E d \in Refs(b) : At(R.vt[d], g) = At(M, g)
<1> DEFINE S == Refs(b)
           Heights(g) == {At(R.vt[d], g) : d \in S}
           M == MergedVt(R, b)
<1>1. \A d \in S : \A g : At(R.vt[d], g) \in Nat
  BY AtFacts
<1>2. Prev(b) \in S
  BY DEF Refs
<1>3. /\ DOMAIN M = UNION {DOMAIN R.vt[d] : d \in S}
      /\ \A g \in DOMAIN M : M[g] = Max(Heights(g))
  BY DEF MergedVt
<1>4. ASSUME NEW g
      PROVE  Max(Heights(g)) \in Heights(g) /\ \A y \in Heights(g) : Max(Heights(g)) >= y
  <2>1. Heights(g) \in SUBSET Nat /\ Heights(g) # {}
    BY <1>1, <1>2
  <2>2. IsFiniteSet(Heights(g))
    <3> DEFINE h == [d \in S |-> At(R.vt[d], g)]
    <3>1. h \in Surjection(S, Heights(g))
      BY DEF Surjection
    <3> HIDE DEF h, Heights, S
    <3> QED BY <3>1, FS_Surjection DEF S
  <2> HIDE DEF Heights
  <2> QED BY <2>1, <2>2, MaxExists
<1> HIDE DEF M
<1>5. ASSUME NEW g \in DOMAIN M
      PROVE  /\ At(M, g) = Max(Heights(g)) /\ M[g] \in Nat
             /\ At(M, g) \in Nat
             /\ \A d \in S : At(M, g) >= At(R.vt[d], g)
             /\ \E d \in S : At(R.vt[d], g) = At(M, g)
  <2>1. At(M, g) = M[g] /\ M[g] = Max(Heights(g))
    BY <1>3 DEF At
  <2> QED BY <1>1, <1>4, <2>1
<1>6. ASSUME NEW g, g \notin DOMAIN M
      PROVE  At(M, g) = 0 /\ \A d \in S : At(R.vt[d], g) = 0
  BY <1>3, <1>6 DEF At
<1>7. ASSUME NEW g
      PROVE  /\ At(M, g) \in Nat
             /\ \A d \in S : At(M, g) >= At(R.vt[d], g)
             /\ At(M, g) > 0 => \E d \in S : At(R.vt[d], g) = At(M, g)
  <2>1. CASE g \in DOMAIN M
    BY <1>5, <2>1
  <2>2. CASE g \notin DOMAIN M
    BY <1>6, <2>2
  <2> QED BY <2>1, <2>2
<1> QED BY <1>5, <1>7 DEF M

\* A block that joins the fork f, of which all blocks are below it.
LEMMA TimesStep ==
  ASSUME NEW w, World(w), Cones(w), NEW fork, NEW vt, NEW next, NEW k, NEW D, Times(w, fork, vt, next, k, D),
         NEW b \in DOMAIN w \ D, b # Root, RefsIn(w, b) \subseteq D,
         NEW f, NEW m \in Nat, k <= m, f \in 1 .. m, NEW nx, next \subseteq nx,
         \A d \in D \ {Root} : fork[d] = f => d \in w[w[b].prev].cone /\ Height(d) < Height(b) /\ d \in nx,
         NEW M, \A g \in DOMAIN M : M[g] \in Nat,
         \A d \in RefsIn(w, b) : \A g : At(M, g) >= At(vt[d], g),
         \A g : At(M, g) > 0 => \E d \in RefsIn(w, b) : At(vt[d], g) = At(M, g),
         NEW F, F = With(fork, b, f), NEW V, V = With(vt, b, With(M, f, Height(b)))
  PROVE  Times(w, F, V, nx, m, D) /\ Times(w, F, V, nx, m, D \cup {b})
<1> DEFINE v == With(M, f, Height(b))
<1>1. /\ k \in Nat /\ D \subseteq DOMAIN fork /\ D \subseteq DOMAIN vt /\ D \subseteq DOMAIN w
      /\ \A d \in D \ {Root} : fork[d] \in 1 .. k
      /\ \A c \in D : w[c].cone \subseteq D
  BY DEF Times
<1>2. /\ DOMAIN F = DOMAIN fork \cup {b} /\ DOMAIN V = DOMAIN vt \cup {b}
      /\ \A d \in D : F[d] = fork[d] /\ V[d] = vt[d]
      /\ F[b] = f /\ V[b] = v
  BY <1>1 DEF With
<1>3. Height(b) \in Nat \ {0} /\ \A d \in D : Height(d) \in Nat
  BY <1>1, SourceOfBlock DEF World
<1>4. \A c \in D : \A g : At(vt[c], g) \in Nat
  <2> SUFFICES ASSUME NEW c \in D PROVE \A g : At(vt[c], g) \in Nat
    OBVIOUS
  <2>1. \A g \in DOMAIN vt[c] : vt[c][g] \in Nat
    BY DEF Times
  <2> QED BY <2>1, AtFacts
<1>5. /\ \A g : At(M, g) \in Nat
      /\ \A g : At(v, g) = IF g = f THEN Height(b) ELSE At(M, g)
      /\ \A g \in DOMAIN v : v[g] \in Nat
  <2>1. \A g : At(M, g) \in Nat
    BY AtFacts
  <2>2. \A g : At(v, g) = IF g = f THEN Height(b) ELSE At(M, g)
    BY DEF At, With
  <2>3. \A g \in DOMAIN v : v[g] \in Nat
    BY <1>3 DEF With
  <2> QED BY <2>1, <2>2, <2>3
<1> HIDE DEF v
<1>6. /\ w[b].cone = {b} \cup UNION {w[d].cone : d \in RefsIn(w, b)}
      /\ w[b].cone \subseteq D \cup {b} /\ w[w[b].prev].cone \subseteq w[b].cone
  <2>1. w[b].cone = {b} \cup UNION {w[d].cone : d \in RefsIn(w, b)}
    BY DEF Cones
  <2>2. w[b].prev \in RefsIn(w, b)
    BY DEF RefsIn
  <2> QED BY <1>1, <2>1, <2>2, SMTT(30)
<1>7. ASSUME NEW c \in D
      PROVE  /\ w[c].cone \subseteq D
             /\ \A g \in DOMAIN V[c] : V[c][g] \in Nat
             /\ \A g : At(V[c], g) > 0 => \E x \in w[c].cone \ {Root} : F[x] = g /\ Height(x) = At(V[c], g)
             /\ \A x \in w[c].cone \ {Root} : At(V[c], F[x]) >= Height(x)
  <2>1. V[c] = vt[c] /\ w[c].cone \subseteq D /\ \A x \in w[c].cone : F[x] = fork[x]
    BY <1>1, <1>2
  <2> QED BY <2>1, SMTT(30) DEF Times
<1>8. /\ \A g \in DOMAIN V[b] : V[b][g] \in Nat
      /\ \A g : At(V[b], g) > 0 => \E x \in w[b].cone \ {Root} : F[x] = g /\ Height(x) = At(V[b], g)
      /\ \A x \in w[b].cone \ {Root} : At(V[b], F[x]) >= Height(x)
  <2>1. ASSUME NEW g, At(v, g) > 0
        PROVE  \E x \in w[b].cone \ {Root} : F[x] = g /\ Height(x) = At(v, g)
    <3>1. CASE g = f
      <4>1. b \in w[b].cone \ {Root} /\ F[b] = g /\ Height(b) = At(v, g)
        BY <1>2, <1>5, <1>6, <3>1
      <4> QED BY <4>1
    <3>2. CASE g # f
      <4>1. At(v, g) = At(M, g) /\ At(M, g) > 0
        BY <1>5, <2>1, <3>2
      <4>2. PICK d \in RefsIn(w, b) : At(vt[d], g) = At(M, g)
        BY <4>1
      <4>3. PICK x \in w[d].cone \ {Root} : fork[x] = g /\ Height(x) = At(vt[d], g)
        BY <4>1, <4>2 DEF Times
      <4>4. x \in w[b].cone /\ x \in D
        BY <1>1, <1>6, <4>3
      <4> QED BY <1>2, <4>1, <4>2, <4>3, <4>4
    <3> QED BY <3>1, <3>2
  <2>2. ASSUME NEW x \in w[b].cone \ {Root}
        PROVE  At(v, F[x]) >= Height(x)
    <3>1. CASE x = b
      BY <1>2, <1>3, <1>5, <3>1, SMTT(30)
    <3>2. CASE x # b
      <4>1. PICK d \in RefsIn(w, b) : x \in w[d].cone
        BY <1>6, <3>2
      <4>2. d \in D /\ x \in D /\ F[x] = fork[x]
        BY <1>1, <1>2, <4>1
      <4>3. At(vt[d], fork[x]) >= Height(x) /\ At(M, fork[x]) >= At(vt[d], fork[x])
        BY <4>1, <4>2 DEF Times
      <4>4. CASE fork[x] = f
        <5>1. Height(x) < Height(b)
          BY <4>2, <4>4
        <5> QED BY <1>3, <1>5, <4>2, <4>4, <5>1, SMTT(30)
      <4>5. CASE fork[x] # f
        <5> DEFINE g == fork[x]
        <5>1. At(v, g) = At(M, g) /\ At(M, g) \in Nat /\ At(vt[d], g) \in Nat /\ Height(x) \in Nat
          BY <1>3, <1>4, <1>5, <4>2, <4>5
        <5> QED BY <4>2, <4>3, <5>1, SMTT(30)
      <4> QED BY <4>4, <4>5
    <3> QED BY <3>1, <3>2
  <2> QED BY <1>2, <1>5, <2>1, <2>2
<1>9. ASSUME NEW x \in (D \cup {b}) \ {Root}, NEW c \in (D \cup {b}) \ {Root}, F[x] = F[c]
      PROVE  /\ Height(x) <= Height(c) => x \in w[c].cone
             /\ Height(x) < Height(c) => x \in nx
             /\ Height(x) = Height(c) => x = c
  <2>1. CASE x \in D /\ c \in D
    <3>1. fork[x] = fork[c]
      BY <1>2, <1>9, <2>1
    <3> QED BY <2>1, <3>1 DEF Times
  <2>2. CASE x \in D /\ c = b
    <3>1. fork[x] = f
      BY <1>2, <1>9, <2>2
    <3>2. x \in w[b].cone /\ Height(x) < Height(b) /\ x \in nx
      BY <1>6, <2>2, <3>1
    <3> QED BY <1>3, <2>2, <3>2, SMTT(30)
  <2>3. CASE x = b /\ c \in D
    <3>1. fork[c] = f
      BY <1>2, <1>9, <2>3
    <3>2. Height(c) < Height(b)
      BY <2>3, <3>1
    <3> QED BY <1>3, <2>3, <3>2, SMTT(30)
  <2>4. CASE x = b /\ c = b
    BY <1>3, <1>6, <2>4, SMTT(30)
  <2> QED BY <2>1, <2>2, <2>3, <2>4
<1>10. /\ \A d \in D \ {Root} : F[d] \in 1 .. m
       /\ F[b] \in 1 .. m
  BY <1>1, <1>2, SMTT(30)
<1>11. Times(w, F, V, nx, m, D)
  BY <1>1, <1>2, <1>7, <1>9, <1>10 DEF Times
<1>12. Times(w, F, V, nx, m, D \cup {b})
  <2>1. ASSUME NEW c \in D \cup {b}
        PROVE  /\ w[c].cone \subseteq D \cup {b}
               /\ \A g \in DOMAIN V[c] : V[c][g] \in Nat
               /\ \A g : At(V[c], g) > 0 => \E x \in w[c].cone \ {Root} : F[x] = g /\ Height(x) = At(V[c], g)
               /\ \A x \in w[c].cone \ {Root} : At(V[c], F[x]) >= Height(x)
    <3>1. CASE c \in D
      BY <1>7, <3>1
    <3>2. CASE c = b
      BY <1>6, <1>8, <3>2
    <3> QED BY <3>1, <3>2
  <2>2. /\ m \in Nat /\ D \cup {b} \subseteq DOMAIN F /\ D \cup {b} \subseteq DOMAIN V /\ D \cup {b} \subseteq DOMAIN w
        /\ \A d \in (D \cup {b}) \ {Root} : F[d] \in 1 .. m
    BY <1>1, <1>2, <1>10
  <2> QED BY <1>9, <2>1, <2>2 DEF Times
<1> QED BY <1>11, <1>12

\* initialize_fork(): the fork id and the vector time of the block are right,
\* whether the block is delivered or found ill.
LEMMA ForkTimes ==
  ASSUME NEW R, DOMAIN R = Fields, World(blk), Cones(blk), NEW D, Timed(blk, R, D), Root \in D,
         NEW b \in DOMAIN blk \ D, RefsIn(blk, b) \subseteq D
  PROVE  LET A == InitializeFork(R, b)
         IN  Timed(blk, A, D) /\ Timed(blk, A, D \cup {b})
<1> DEFINE N == [R EXCEPT !.next = @ \cup {Prev(b)}]
           K == IF OpensFork(R, b) THEN AddFork(R, Src(b)) ELSE N
           f == IF OpensFork(R, b) THEN K.nforks ELSE R.fork[Prev(b)]
           A == InitializeFork(R, b)
           M == MergedVt(R, b)
           p == blk[b].prev
<1>1. b # Root /\ Src(b) \in Source /\ Height(b) \in Nat \ {0}
  BY SourceOfBlock DEF World
<1>2. Prev(b) = p /\ Refs(b) = RefsIn(blk, b) /\ p \in D /\ IsFiniteSet(Refs(b))
  BY DEF Prev, Refs, RefsIn, World
<1>3. /\ \A d \in D : \A g \in DOMAIN R.vt[d] : R.vt[d][g] \in Nat
      /\ R.nforks \in Nat /\ D \subseteq DOMAIN blk /\ \A d \in D \ {Root} : R.fork[d] \in 1 .. R.nforks
  BY DEF Timed, Times
<1>4. /\ \A g \in DOMAIN M : M[g] \in Nat
      /\ \A d \in RefsIn(blk, b) : \A g : At(M, g) >= At(R.vt[d], g)
      /\ \A g : At(M, g) > 0 => \E d \in RefsIn(blk, b) : At(R.vt[d], g) = At(M, g)
  BY <1>2, <1>3, MergedVtLemma, SMTT(30)
<1>5. A = [K EXCEPT !.fork = With(@, b, f), !.vt = With(@, b, With(MergedVt(R, b), f, Height(b)))]
  BY DEF InitializeFork
<1> HIDE DEF M
<1>6. /\ DOMAIN K = Fields /\ K.fork = R.fork /\ K.vt = R.vt
      /\ IF OpensFork(R, b) THEN K.next = R.next /\ K.nforks = R.nforks + 1 /\ f = R.nforks + 1
         ELSE K.next = R.next \cup {p} /\ K.nforks = R.nforks /\ f = R.fork[p]
  <2>1. CASE OpensFork(R, b)
    <3>1. K = AddFork(R, Src(b)) /\ f = K.nforks
      BY <2>1
    <3> HIDE DEF K, f
    <3>2. Quiet(blk, K, R) /\ K.next = R.next /\ K.fork = R.fork /\ K.vt = R.vt /\ K.nforks = R.nforks + 1
      <4>1. LET E == AddFork(R, Src(b))
            IN  Quiet(blk, E, R) /\ E.next = R.next /\ E.fork = R.fork /\ E.vt = R.vt /\ E.nforks = R.nforks + 1
        BY <1>1, AddForkLemma
      <4> QED BY <3>1, <4>1
    <3> QED BY <2>1, <3>1, <3>2 DEF Quiet
  <2>2. CASE ~ OpensFork(R, b)
    <3>1. K = N /\ f = R.fork[p]
      BY <1>2, <2>2
    <3>2. DOMAIN N = Fields /\ N.fork = R.fork /\ N.vt = R.vt /\ N.next = R.next \cup {p} /\ N.nforks = R.nforks
      BY <1>2 DEF Fields
    <3> HIDE DEF N, K, f
    <3> QED BY <2>2, <3>1, <3>2
  <2> QED BY <2>1, <2>2
<1> HIDE DEF K, f
<1>7. /\ A.fork = With(R.fork, b, f) /\ A.vt = With(R.vt, b, With(M, f, Height(b)))
      /\ A.next = K.next /\ A.nforks = K.nforks
  BY <1>5, <1>6, SMTT(30) DEF Fields, M
<1> HIDE DEF A
<1>8. /\ K.nforks \in Nat /\ R.nforks <= K.nforks /\ f \in 1 .. K.nforks /\ R.next \subseteq K.next
      /\ \A d \in D \ {Root} : R.fork[d] = f => d \in blk[p].cone /\ Height(d) < Height(b) /\ d \in K.next
  <2>1. CASE OpensFork(R, b)
    BY <1>3, <1>6, <2>1, SMTT(30)
  <2>2. CASE ~ OpensFork(R, b)
    <3>1. Height(b) # 1 /\ p \notin R.next
      BY <1>2, <2>2 DEF OpensFork
    <3>2. Height(b) = Height(p) + 1 /\ Height(p) \in Nat /\ \A d \in D : Height(d) \in Nat
      BY <1>1, <1>2, <1>3, SourceOfBlock DEF Cones, World
    <3>3. p # Root
      BY <3>1, <3>2, SMTT(30) DEF Root, Height
    <3>4. ASSUME NEW d \in D \ {Root}, R.fork[d] = f
          PROVE  d \in blk[p].cone /\ Height(d) < Height(b) /\ d \in K.next
      <4>1. /\ Height(d) <= Height(p) => d \in blk[p].cone
            /\ Height(d) < Height(p) => d \in R.next
            /\ Height(d) = Height(p) => d = p
            /\ ~ (Height(p) < Height(d))
        BY <1>2, <1>6, <2>2, <3>1, <3>3, <3>4, SMTT(30) DEF Timed, Times
      <4> QED BY <1>6, <2>2, <3>2, <4>1, SMTT(30)
    <3>5. f \in 1 .. R.nforks /\ K.nforks = R.nforks /\ R.next \subseteq K.next
      BY <1>2, <1>3, <1>6, <2>2, <3>3
    <3> QED BY <1>3, <3>4, <3>5
  <2> QED BY <2>1, <2>2
<1> DEFINE F == With(R.fork, b, f)
           V == With(R.vt, b, With(M, f, Height(b)))
<1>9. Times(blk, F, V, K.next, K.nforks, D) /\ Times(blk, F, V, K.next, K.nforks, D \cup {b})
  <2>1. Times(blk, R.fork, R.vt, R.next, R.nforks, D)
    BY DEF Timed
  <2> HIDE DEF F, V
  <2>2. F = With(R.fork, b, f) /\ V = With(R.vt, b, With(M, f, Height(b)))
    BY DEF F, V
  <2> QED BY <1>1, <1>4, <1>8, <2>1, <2>2, TimesStep
<1> QED BY <1>7, <1>9 DEF Timed, A

-----------------------------------------------------------------------------
(* One block runs *)

\* initialize_fork(), but for what it says about forks.
LEMMA InitializeForkLemma ==
  ASSUME NEW R, DOMAIN R = Fields, NEW b, Src(b) \in Source
  PROVE  LET A == InitializeFork(R, b)
         IN  Quiet(blk, A, R) /\ A.objs = R.objs
<1> DEFINE N == [R EXCEPT !.next = @ \cup {Prev(b)}]
           K == IF OpensFork(R, b) THEN AddFork(R, Src(b)) ELSE N
           f == IF OpensFork(R, b) THEN K.nforks ELSE R.fork[Prev(b)]
           A == InitializeFork(R, b)
<1>1. Quiet(blk, K, R) /\ K.objs = R.objs
  <2>1. /\ DOMAIN N = Fields /\ SameBlocks(N, R) /\ N.objs = R.objs
        /\ N.out = R.out /\ N.found = R.found /\ N.blamed = R.blamed
    BY DEF Fields, SameBlocks
  <2> HIDE DEF N
  <2>2. Quiet(blk, N, R)
    BY <2>1, OtherFieldsQuiet
  <2>3. Quiet(blk, AddFork(R, Src(b)), R) /\ AddFork(R, Src(b)).objs = R.objs
    BY AddForkLemma
  <2> QED BY <2>1, <2>2, <2>3
<1>2. A = [K EXCEPT !.fork = With(@, b, f), !.vt = With(@, b, With(MergedVt(R, b), f, Height(b)))]
  BY DEF InitializeFork
<1>3. DOMAIN K = Fields
  BY <1>1 DEF Quiet
<1> HIDE DEF K, f
<1>4. /\ DOMAIN A = Fields /\ SameBlocks(A, K) /\ A.objs = K.objs
      /\ A.out = K.out /\ A.found = K.found /\ A.blamed = K.blamed
  BY <1>2, <1>3 DEF Fields, SameBlocks
<1> HIDE DEF A
<1>5. Quiet(blk, A, R)
  BY <1>1, <1>4, OtherFieldsQuiet, QuietTransitive
<1> QED BY <1>1, <1>4, <1>5 DEF A

\* pre_deliver(): the block becomes ill, or stays as it is.
LEMMA PreDeliverLemma ==
  ASSUME NEW R, NEW b \in R.objs, World(blk), Sane(blk, R), Ready(blk, R, {b}), b \notin R.del
  PROVE  LET A == PreDeliver(R, b)
         IN  /\ Sane(blk, A) /\ Ready(blk, A, {b})
             /\ \/ IllStep(A, R) /\ b \in A.ill /\ b \notin Range(A.wait) /\ Ready(blk, A, {})
                \/ Quiet(blk, A, R) /\ SameForks(A, R) /\ A.objs = R.objs
<1> DEFINE a == blk[b].acc
           E == BlameAt(R, Src(b), R.fork[b], Height(b))
           P == [R EXCEPT !.proof = @ \cup {a}]
           G == BlameAt(P, a, R.fork[b], Height(b))
           A == PreDeliver(R, b)
<1>1. /\ DOMAIN R = Fields /\ b \in DOMAIN blk /\ b # Root /\ R.objs \subseteq DOMAIN blk
      /\ Src(b) \in Source
  BY SourceOfBlock DEF Sane, World
<1>2. \/ A = SetIll(R, b) \/ A = SetIll(E, b) \/ A = R
      \/ a # NoSource /\ A = G
  BY DEF PreDeliver
<1>3. Quiet(blk, E, R) /\ SameForks(E, R) /\ E.objs = R.objs
  BY <1>1, BlameAtLemma, SMTT(30)
<1>4. Sane(blk, E) /\ Ready(blk, E, {b}) /\ b \notin E.del
  <2> HIDE DEF E
  <2> QED BY <1>1, <1>3, QuietIsSane DEF Quiet, SameBlocks
<1>5. ASSUME a # NoSource
      PROVE  Quiet(blk, G, R) /\ SameForks(G, R) /\ G.objs = R.objs
  <2>1. a \in Source
    BY <1>1, <1>5 DEF World
  <2>2. /\ DOMAIN P = Fields /\ SameBlocks(P, R) /\ SameForks(P, R) /\ P.objs = R.objs
        /\ P.out = R.out /\ P.found = R.found /\ P.blamed = R.blamed
    BY <1>1 DEF Fields, SameBlocks, SameForks
  <2> HIDE DEF P
  <2>3. Quiet(blk, G, P) /\ SameForks(G, P) /\ G.objs = P.objs
    BY <2>1, <2>2, BlameAtLemma, SMTT(30)
  <2> HIDE DEF G
  <2>4. Quiet(blk, G, R)
    BY <2>2, <2>3, OtherFieldsQuiet, QuietTransitive
  <2> QED BY <2>2, <2>3, <2>4 DEF SameForks
<1> HIDE DEF A, E, G
<1>6. CASE A = SetIll(R, b)
  <2>1. /\ Sane(blk, A) /\ IllStep(A, R) /\ b \in A.ill /\ b \notin Range(A.wait)
        /\ Ready(blk, A, {})
    BY <1>6, SetIllLemma
  <2> QED BY <2>1 DEF Ready, A
<1>7. CASE A = SetIll(E, b)
  <2>1. /\ Sane(blk, A) /\ IllStep(A, E) /\ b \in A.ill /\ b \notin Range(A.wait)
        /\ Ready(blk, A, {})
    BY <1>3, <1>4, <1>7, SetIllLemma
  <2>2. IllStep(A, R)
    <3>1. SameForks(A, R)
      BY <1>3, <2>1 DEF IllStep, SameForks
    <3> QED BY <1>3, <2>1, <3>1 DEF IllStep, Quiet, SameBlocks
  <2> QED BY <2>1, <2>2 DEF Ready, A
<1>8. CASE A = R
  <2>1. Quiet(blk, R, R) /\ SameForks(R, R)
    BY <1>1 DEF Quiet, SameBlocks, SameForks
  <2> QED BY <1>8, <2>1 DEF A
<1>9. CASE a # NoSource /\ A = G
  <2>1. Quiet(blk, A, R) /\ SameForks(A, R) /\ A.objs = R.objs
    BY <1>5, <1>9
  <2>2. Sane(blk, A) /\ Ready(blk, A, {b})
    BY <1>1, <2>1, QuietIsSane
  <2> QED BY <2>1, <2>2 DEF A
<1> QED BY <1>2, <1>6, <1>7, <1>8, <1>9
\* A block has run: it no longer waits, what it leaves keeps fitting together,
\* and what it makes ready is added to to_run_ once.
Ran(A, R, b) ==
  /\ Sane(blk, A) /\ Ready(blk, A, {})
  /\ A.objs = R.objs /\ b \notin Range(A.wait) /\ Range(A.wait) \subseteq Range(R.wait)
  /\ R.del \subseteq A.del /\ A.del \subseteq R.del \cup {b}
  /\ Found(R) => Found(A)
  /\ \A B, D : Told(blk, R, B, D) => Told(blk, A, B, D)
\* Vector times stay right.
KeepsTime(A, R) == Cones(blk) /\ Timed(blk, R, R.del) => Timed(blk, A, A.del)
Adds(A, R, b) ==
  \E q \in Seq(R.objs) : /\ A.torun = R.torun \o q /\ IsInjective(q)
                         /\ Range(q) \subseteq Range(R.wait) \ (Range(R.torun) \cup {b})

\* deliver()
LEMMA DeliverLemma ==
  ASSUME NEW R, World(blk), Sane(blk, R), NEW b \in Range(R.wait), Ready(blk, R, {b}),
         RefsIn(blk, b) \subseteq R.del
  PROVE  Ran(Deliver(R, b), R, b) /\ Adds(Deliver(R, b), R, b) /\ SameForks(Deliver(R, b), R)
<1> DEFINE W == Range(R.wait)
           q == Only(R.wait, W \ {b})
           D == [R EXCEPT !.del = @ \cup {b}, !.revd = @ \ {b}, !.out = Append(@, <<"new", b>>),
                          !.wait = Only(@, Range(@) \ {b})]
           New == {x \in Range(D.wait) : b \in Refs(x) /\ Pending(D, x) = {}}
           p == Only(D.wait, New)
           A == Deliver(R, b)
<1>1. /\ DOMAIN R = Fields /\ R.wait \in Seq(R.objs) /\ IsInjective(R.wait) /\ W \subseteq R.objs
      /\ R.torun \in Seq(R.objs) /\ Range(R.torun) \subseteq R.objs
      /\ b \in R.objs /\ b \notin R.del /\ b \notin R.ill /\ b \in DOMAIN blk /\ b \in Block
  BY RangeFacts DEF Sane, World
<1>2. /\ DOMAIN D = Fields /\ D.del = R.del \cup {b} /\ D.out = Append(R.out, <<"new", b>>) /\ D.wait = q
      /\ D.torun = R.torun /\ D.objs = R.objs /\ D.ill = R.ill
  BY <1>1 DEF Fields
<1>3. SameForks(D, R) /\ D.found = R.found /\ D.blamed = R.blamed
  BY <1>1 DEF Fields, SameForks
<1>4. A = [D EXCEPT !.torun = @ \o p]
  BY <1>1 DEF Deliver
<1> HIDE DEF D
<1>5. /\ q \in Seq(R.objs) /\ Range(q) = W \ {b} /\ IsInjective(q)
  <2>1. q \in Seq(R.objs) /\ Range(q) = W \cap (W \ {b}) /\ IsInjective(q)
    BY <1>1, OnlyLemma
  <2> QED BY <2>1
<1> HIDE DEF q
<1>6. New = {x \in W \ {b} : b \in RefsIn(blk, x) /\ RefsIn(blk, x) \subseteq D.del}
  BY <1>2, <1>5 DEF Pending, Refs, RefsIn, Prev
<1> HIDE DEF New
<1>7. p \in Seq(R.objs) /\ Range(p) = New /\ IsInjective(p)
  <2>1. p \in Seq(R.objs) /\ Range(p) = Range(q) \cap New /\ IsInjective(p)
    BY <1>2, <1>5, OnlyLemma, SMTT(30)
  <2> QED BY <1>5, <1>6, <2>1
<1> HIDE DEF p
<1>8. /\ DOMAIN A = Fields /\ A.del = D.del /\ A.out = D.out /\ A.wait = D.wait
      /\ A.torun = D.torun \o p /\ A.objs = D.objs /\ A.ill = D.ill
  BY <1>2, <1>4 DEF Fields
<1>9. SameForks(A, D) /\ A.found = D.found /\ A.blamed = D.blamed
  BY <1>2, <1>4 DEF Fields, SameForks
<1> HIDE DEF A
<1>10. /\ A.torun = R.torun \o p /\ A.del = R.del \cup {b} /\ A.wait = q /\ A.objs = R.objs /\ A.ill = R.ill
       /\ Range(A.wait) = W \ {b} /\ A.out = Append(R.out, <<"new", b>>)
  BY <1>2, <1>5, <1>8
<1>11. A.torun \in Seq(A.objs) /\ Range(A.torun) = Range(R.torun) \cup New
  <2> DEFINE X == R.objs
             t == R.torun
  <2>1. t \in Seq(X) /\ p \in Seq(X)
    BY <1>1, <1>7
  <2> HIDE DEF X, t
  <2>2. t \o p \in Seq(X)
    BY <2>1
  <2>3. Range(t \o p) = Range(t) \cup Range(p)
    BY <2>1, ConcatFacts, SMTT(30)
  <2> QED BY <1>7, <1>10, <2>2, <2>3 DEF X, t
<1>12. Sane(blk, A)
  <2>1. \A c \in A.del : RefsIn(blk, c) \subseteq A.del
    BY <1>10 DEF Sane
  <2>2. A.wait \in Seq(A.objs) /\ IsInjective(A.wait)
    BY <1>5, <1>10
  <2>3. /\ A.objs \subseteq DOMAIN blk /\ A.del \subseteq A.objs /\ A.ill \subseteq A.objs /\ Root \in A.del
        /\ A.del \cap A.ill = {} /\ Range(A.wait) \cap (A.del \cup A.ill) = {}
    BY <1>1, <1>10 DEF Sane
  <2>4. \A x \in Range(A.wait) : RefsIn(blk, x) \cap A.ill = {}
    BY <1>10 DEF Sane
  <2> QED BY <1>8, <1>11, <2>1, <2>2, <2>3, <2>4 DEF Sane
<1>13. Ready(blk, A, {})
  <2>1. ASSUME NEW x \in Range(A.wait), RefsIn(blk, x) \subseteq A.del
        PROVE  x \in Range(A.torun)
    <3>1. CASE b \in RefsIn(blk, x)
      BY <1>2, <1>6, <1>10, <1>11, <2>1, <3>1
    <3>2. CASE b \notin RefsIn(blk, x)
      <4>1. RefsIn(blk, x) \subseteq R.del
        BY <1>10, <2>1, <3>2
      <4> QED BY <1>10, <1>11, <2>1, <4>1 DEF Ready
    <3> QED BY <3>1, <3>2
  <2>2. ASSUME NEW t \in Range(A.torun)
        PROVE  t \in A.ill \cup A.del \/ (t \in Range(A.wait) /\ RefsIn(blk, t) \subseteq A.del)
    <3>1. CASE t \in New
      BY <1>2, <1>6, <1>10, <3>1
    <3>2. CASE t \in Range(R.torun)
      BY <1>10, <3>2 DEF Ready
    <3> QED BY <1>11, <3>1, <3>2
  <2> QED BY <2>1, <2>2 DEF Ready
<1>14. \A B, E : Told(blk, R, B, E) => Told(blk, A, B, E)
  <2> SUFFICES ASSUME NEW B, NEW E, Told(blk, R, B, E)
               PROVE  Told(blk, A, B, E)
    OBVIOUS
  <2> DEFINE o == R.out
             e == <<"new", b>>
             c == Append(o, e)
             s == <<e>>
  <2>1. /\ o \in Seq(Event) /\ Causal(blk, E, o) /\ R.del = E \cup AllNews(o) /\ R.blamed \subseteq Source
        /\ \A t \in R.blamed \ B : <<"blame", t>> \in Range(o)
    BY DEF Told
  <2>2. s \in Seq(Event) /\ Causal(blk, R.del, s) /\ AllNews(s) = {b} /\ e \in Event
    <3>1. s \in Seq(Event) /\ Causal(blk, R.del, s) /\ AllNews(s) = {b}
      BY <1>1, CausalOne
    <3>2. e \in Event
      BY <1>1 DEF Event
    <3> QED BY <3>1, <3>2
  <2>3. A.out = c /\ A.blamed = R.blamed
    BY <1>3, <1>9, <1>10
  <2> HIDE DEF o, e
  <2>4. c = o \o s /\ c \in Seq(Event) /\ Range(c) = Range(o) \cup {e}
    BY <2>1, <2>2, AppendRange, SMTT(30)
  <2> HIDE DEF c, s
  <2>5. Causal(blk, E, c)
    BY <2>1, <2>2, <2>4, CausalConcat
  <2>6. AllNews(c) = AllNews(o) \cup AllNews(s)
    BY <2>1, <2>2, <2>4, NewsConcat
  <2>7. E \cup AllNews(c) = A.del
    BY <1>10, <2>1, <2>2, <2>6
  <2> QED BY <2>1, <2>3, <2>4, <2>5, <2>7 DEF Told
<1>15. Ran(A, R, b)
  <2>1. Found(R) => Found(A)
    BY <1>3, <1>9 DEF Found
  <2> QED BY <1>10, <1>12, <1>13, <1>14, <2>1 DEF Ran
<1>16. Adds(A, R, b)
  <2>1. ASSUME NEW x \in New
        PROVE  x \in W \ (Range(R.torun) \cup {b})
    <3>1. x \in W /\ x # b /\ b \in RefsIn(blk, x)
      BY <1>6
    <3>2. x \notin R.ill \cup R.del
      BY <3>1 DEF Sane
    <3>3. ~ (RefsIn(blk, x) \subseteq R.del)
      BY <1>1, <3>1
    <3> QED BY <3>1, <3>2, <3>3 DEF Ready
  <2>2. Range(p) \subseteq W \ (Range(R.torun) \cup {b})
    BY <1>7, <2>1
  <2> QED BY <1>7, <1>10, <2>2 DEF Adds
<1>17. SameForks(A, R)
  BY <1>3, <1>9 DEF SameForks
<1> QED BY <1>15, <1>16, <1>17 DEF A
\* run()
LEMMA RunBlockLemma ==
  ASSUME NEW R, World(blk), Sane(blk, R), NEW b \in R.objs, Ready(blk, R, {b}),
         b \in R.ill \cup R.del \/ (b \in Range(R.wait) /\ RefsIn(blk, b) \subseteq R.del)
  PROVE  Ran(RunBlock(R, b), R, b) /\ Adds(RunBlock(R, b), R, b) /\ KeepsTime(RunBlock(R, b), R)
<1> DEFINE I == InitializeFork(R, b)
           P == PreDeliver(I, b)
           A == RunBlock(R, b)
<1>0. R.torun \in Seq(R.objs)
  BY DEF Sane
<1>1. CASE b \in R.ill \cup R.del
  <2>1. A = R
    BY <1>1 DEF RunBlock
  <2> HIDE DEF A
  <2>2. b \notin Range(R.wait)
    BY <1>1 DEF Sane
  <2>3. Ready(blk, R, {})
    BY <2>2 DEF Ready
  <2>4. Ran(A, R, b)
    BY <2>1, <2>2, <2>3 DEF Ran
  <2>5. Adds(A, R, b)
    <3>1. <<>> \in Seq(R.objs) /\ R.torun = R.torun \o <<>> /\ Range(<<>>) = {} /\ IsInjective(<<>>)
      BY <1>0 DEF Range, IsInjective
    <3> QED BY <2>1, <3>1 DEF Adds
  <2> QED BY <2>1, <2>4, <2>5 DEF A, KeepsTime
<1>2. CASE b \notin R.ill \cup R.del
  <2>1. A = Deliver(P, b)
    BY <1>2 DEF RunBlock
  <2>2. DOMAIN R = Fields /\ Src(b) \in Source /\ R.objs \subseteq DOMAIN blk
    BY <1>2, SourceOfBlock DEF Sane, World
  <2>3. Quiet(blk, I, R) /\ I.objs = R.objs
    BY <2>2, InitializeForkLemma
  <2> HIDE DEF A, I
  <2>4. Sane(blk, I) /\ Ready(blk, I, {b}) /\ b \notin I.del /\ b \in I.objs
    BY <1>2, <2>2, <2>3, QuietIsSane DEF Quiet, SameBlocks
  <2>5. /\ Sane(blk, P) /\ Ready(blk, P, {b})
        /\ \/ IllStep(P, I) /\ b \in P.ill /\ b \notin Range(P.wait) /\ Ready(blk, P, {})
           \/ Quiet(blk, P, I) /\ SameForks(P, I) /\ P.objs = I.objs
    BY <2>4, PreDeliverLemma
  <2> HIDE DEF P
  <2>8. ASSUME Cones(blk), Timed(blk, R, R.del)
        PROVE  Timed(blk, I, R.del) /\ Timed(blk, I, R.del \cup {b})
    BY <1>2, <2>2, <2>8, ForkTimes DEF I, Sane
  <2>6. CASE IllStep(P, I) /\ b \in P.ill /\ b \notin Range(P.wait) /\ Ready(blk, P, {})
    <3>1. A = P
      BY <2>1, <2>6 DEF Deliver
    <3>2. P.torun = R.torun /\ P.del = R.del /\ P.objs = R.objs /\ Range(P.wait) \subseteq Range(R.wait)
      BY <2>3, <2>6 DEF IllStep, Quiet, SameBlocks
    <3>3. /\ Found(R) => Found(P)
          /\ \A B, D : Told(blk, R, B, D) => Told(blk, P, B, D)
      BY <2>3, <2>6 DEF IllStep, Quiet
    <3>4. Ran(A, R, b)
      BY <2>5, <2>6, <3>1, <3>2, <3>3 DEF Ran
    <3>5. Adds(A, R, b)
      <4>1. <<>> \in Seq(R.objs) /\ R.torun = R.torun \o <<>> /\ Range(<<>>) = {} /\ IsInjective(<<>>)
        BY <1>0 DEF Range, IsInjective
      <4> QED BY <3>1, <3>2, <4>1 DEF Adds
    <3>6. KeepsTime(A, R)
      BY <2>6, <2>8, <3>1, <3>2 DEF KeepsTime, Timed, IllStep, SameForks
    <3> QED BY <3>4, <3>5, <3>6 DEF A
  <2>7. CASE Quiet(blk, P, I) /\ SameForks(P, I) /\ P.objs = I.objs
    <3>1. SameBlocks(P, R) /\ P.objs = R.objs
      BY <2>3, <2>7 DEF Quiet, SameBlocks
    <3>2. b \in Range(P.wait) /\ RefsIn(blk, b) \subseteq P.del
      BY <1>2, <3>1 DEF SameBlocks
    <3>3. Ran(A, P, b) /\ Adds(A, P, b) /\ SameForks(A, P)
      BY <2>1, <2>5, <3>2, DeliverLemma
    <3>4. /\ Found(R) => Found(P)
          /\ \A B, D : Told(blk, R, B, D) => Told(blk, P, B, D)
      BY <2>3, <2>7 DEF Quiet
    <3>5. Ran(A, R, b)
      BY <3>1, <3>3, <3>4 DEF Ran, SameBlocks
    <3>6. Adds(A, R, b)
      BY <3>1, <3>3 DEF Adds, SameBlocks
    <3>7. KeepsTime(A, R)
      <4>1. A.del = R.del \/ A.del = R.del \cup {b}
        BY <3>5 DEF Ran
      <4>2. A.fork = I.fork /\ A.vt = I.vt /\ A.next = I.next /\ A.nforks = I.nforks
        BY <2>7, <3>3 DEF SameForks
      <4> QED BY <2>8, <4>1, <4>2 DEF KeepsTime, Timed
    <3> QED BY <3>5, <3>6, <3>7 DEF A
  <2> QED BY <2>5, <2>6, <2>7
<1> QED BY <1>1, <1>2

-----------------------------------------------------------------------------
(* The scheduler *)

\* What any number of blocks that run keep.
Runs(A, R) ==
  /\ Sane(blk, A) /\ Ready(blk, A, {})
  /\ A.objs = R.objs /\ R.del \subseteq A.del
  /\ Found(R) => Found(A)
  /\ \A B, D : Told(blk, R, B, D) => Told(blk, A, B, D)
  /\ KeepsTime(A, R)

\* How many blocks can run at most: every step is one of them.
Waiting(R) == Range(R.wait) \ Range(R.torun)
Measure(R) == Len(R.torun) + Cardinality(Waiting(R))

LEMMA MeasureFacts ==
  ASSUME NEW R, Sane(blk, R)
  PROVE  /\ Measure(R) \in Nat /\ Measure(R) <= Len(R.torun) + Len(R.wait)
         /\ Len(R.torun) \in Nat /\ Len(R.wait) \in Nat
         /\ Measure(R) = 0 => R.torun = <<>>
         /\ IsFiniteSet(Waiting(R)) /\ Cardinality(Waiting(R)) \in Nat
<1>1. R.torun \in Seq(R.objs) /\ R.wait \in Seq(R.objs)
  BY DEF Sane
<1>2. Len(R.torun) \in Nat /\ Len(R.wait) \in Nat /\ (Len(R.torun) = 0 => R.torun = <<>>)
  BY <1>1
<1>3. IsFiniteSet(Range(R.wait)) /\ Cardinality(Range(R.wait)) \in Nat /\ Cardinality(Range(R.wait)) <= Len(R.wait)
  BY <1>1, RangeFacts
<1>4. Waiting(R) \in SUBSET Range(R.wait)
  BY DEF Waiting
<1>5. IsFiniteSet(Waiting(R)) /\ Cardinality(Waiting(R)) <= Cardinality(Range(R.wait))
  BY <1>3, <1>4, FS_Subset
<1>6. Cardinality(Waiting(R)) \in Nat
  BY <1>5, FS_CardinalityType
<1> DEFINE m == Cardinality(Waiting(R))
           k == Cardinality(Range(R.wait))
           t == Len(R.torun)
           n == Len(R.wait)
<1>7. m \in Nat /\ k \in Nat /\ t \in Nat /\ n \in Nat /\ m <= k /\ k <= n
  BY <1>2, <1>3, <1>5, <1>6
<1>8. Measure(R) = t + m
  BY DEF Measure
<1> HIDE DEF m, k, t, n
<1>9. Measure(R) \in Nat /\ Measure(R) <= t + n /\ (Measure(R) = 0 => t = 0)
  BY <1>7, <1>8
<1> QED BY <1>2, <1>5, <1>6, <1>9 DEF t, n

LEMMA RunFirstLemma ==
  ASSUME NEW R, World(blk), Sane(blk, R), Ready(blk, R, {})
  PROVE  LET A == RunFirst(R)
         IN  /\ Runs(A, R)
             /\ R.torun = <<>> => A = R
             /\ R.torun # <<>> => Measure(A) < Measure(R)
<1> DEFINE b == Head(R.torun)
           Q == [R EXCEPT !.torun = Tail(@)]
           A == RunFirst(R)
<1>1. CASE R.torun = <<>>
  <2>1. A = R
    BY <1>1 DEF RunFirst
  <2> QED BY <1>1, <2>1 DEF Runs, KeepsTime
<1>2. CASE R.torun # <<>>
  <2>1. A = RunBlock(Q, b)
    BY <1>2 DEF RunFirst
  <2>2. R.torun \in Seq(R.objs) /\ DOMAIN R = Fields
    BY DEF Sane
  <2>3. /\ Tail(R.torun) \in Seq(R.objs) /\ Len(R.torun) = Len(Tail(R.torun)) + 1 /\ b \in R.objs
        /\ Range(R.torun) = {b} \cup Range(Tail(R.torun))
    BY <1>2, <2>2, TailRange
  <2>4. /\ DOMAIN Q = Fields /\ Q.torun = Tail(R.torun) /\ Q.objs = R.objs /\ Q.wait = R.wait
        /\ Q.del = R.del /\ Q.ill = R.ill
    BY <2>2 DEF Fields
  <2>5. Q.out = R.out /\ Q.found = R.found /\ Q.blamed = R.blamed /\ SameForks(Q, R)
    BY <2>2 DEF Fields, SameForks
  <2> HIDE DEF Q, b
  <2>6. Sane(blk, Q)
    BY <2>3, <2>4 DEF Sane
  <2>7. Ready(blk, Q, {b})
    BY <2>3, <2>4 DEF Ready
  <2>8. b \in Q.ill \cup Q.del \/ (b \in Range(Q.wait) /\ RefsIn(blk, b) \subseteq Q.del)
    BY <2>3, <2>4 DEF Ready
  <2>9. Ran(A, Q, b) /\ Adds(A, Q, b) /\ KeepsTime(A, Q)
    BY <2>1, <2>3, <2>4, <2>6, <2>7, <2>8, RunBlockLemma
  <2> HIDE DEF A
  <2>10. Runs(A, R)
    <3>1. \A B, D : Told(blk, R, B, D) => Told(blk, Q, B, D)
      BY <2>4, <2>5 DEF Told
    <3>2. Found(R) => Found(Q)
      BY <2>5 DEF Found
    <3>3. KeepsTime(A, R)
      BY <2>4, <2>5, <2>9 DEF KeepsTime, Timed, SameForks
    <3> QED BY <2>4, <2>9, <3>1, <3>2, <3>3 DEF Ran, Runs
  <2>11. Measure(A) < Measure(R)
    <3>1. PICK q \in Seq(Q.objs) : /\ A.torun = Q.torun \o q /\ IsInjective(q)
                                   /\ Range(q) \subseteq Range(Q.wait) \ (Range(Q.torun) \cup {b})
      BY <2>9 DEF Adds
    <3>2. /\ Len(A.torun) = Len(Q.torun) + Len(q) /\ Range(A.torun) = Range(Q.torun) \cup Range(q)
          /\ Len(q) \in Nat /\ Len(Q.torun) \in Nat
      <4> DEFINE X == Q.objs
                 t == Q.torun
      <4>1. t \in Seq(X) /\ q \in Seq(X)
        BY <2>6, <3>1 DEF Sane
      <4> HIDE DEF X, t
      <4>2. Len(t \o q) = Len(t) + Len(q) /\ Len(q) \in Nat /\ Len(t) \in Nat
        BY <4>1
      <4>3. Range(t \o q) = Range(t) \cup Range(q)
        BY <4>1, ConcatFacts, SMTT(30)
      <4> QED BY <3>1, <4>2, <4>3 DEF t
    <3>3. IsFiniteSet(Range(q)) /\ Cardinality(Range(q)) = Len(q)
      BY <3>1, RangeFacts
    <3>4. Range(q) \subseteq Waiting(R)
      BY <2>3, <2>4, <3>1 DEF Waiting
    <3>5. Waiting(A) \subseteq Waiting(R)
      BY <2>3, <2>4, <2>9, <3>2 DEF Waiting, Ran
    <3>6. Waiting(A) \cap Range(q) = {}
      BY <3>2 DEF Waiting
    <3>7. /\ IsFiniteSet(Waiting(R)) /\ Cardinality(Waiting(R)) \in Nat
          /\ IsFiniteSet(Waiting(A)) /\ Cardinality(Waiting(A)) \in Nat
      BY <2>9, MeasureFacts DEF Ran
    <3>8. Cardinality(Waiting(A) \cup Range(q)) = Cardinality(Waiting(A)) + Len(q)
      <4>1. Cardinality(Waiting(A) \cup Range(q))
              = Cardinality(Waiting(A)) + Cardinality(Range(q)) - Cardinality(Waiting(A) \cap Range(q))
        BY <3>3, <3>7, FS_Union
      <4>2. Cardinality(Waiting(A) \cap Range(q)) = 0
        BY <3>6, FS_EmptySet
      <4> QED BY <3>2, <3>3, <3>7, <4>1, <4>2
    <3>9. Cardinality(Waiting(A) \cup Range(q)) <= Cardinality(Waiting(R))
      <4>1. Waiting(A) \cup Range(q) \in SUBSET Waiting(R)
        BY <3>4, <3>5
      <4> QED BY <3>7, <4>1, FS_Subset
    <3>10. Len(R.torun) = Len(Q.torun) + 1
      BY <2>3, <2>4
    <3> QED BY <3>2, <3>7, <3>8, <3>9, <3>10 DEF Measure
  <2> QED BY <1>2, <2>10, <2>11 DEF A
<1> QED BY <1>1, <1>2

\* The receivers f after the first m rounds of run_scheduler().
Rounds(f, R, m) ==
  /\ f[0] = R
  /\ \A i \in 1 .. m : f[i] = RunFirst(f[i - 1])
  /\ RunScheduler(R) = f[m]
LEMMA RunSchedulerExists ==
  ASSUME NEW R, NEW m \in Nat, m = Len(R.torun) + Len(R.wait)
  PROVE  \E f : Rounds(f, R, m)
<1> DEFINE F(f, n) == [i \in 0 .. n |-> IF i = 0 THEN R ELSE RunFirst(f[i - 1])]
           T == {n \in Nat : \E f : f = F(f, n)}
<1>1. 0 \in T
  <2> DEFINE f == [i \in 0 .. 0 |-> R]
  <2>1. f = F(f, 0)
    OBVIOUS
  <2> HIDE DEF f
  <2> QED BY <2>1
<1>2. ASSUME NEW n \in Nat, n \in T
      PROVE  n + 1 \in T
  <2>1. PICK f : f = F(f, n)
    BY <1>2
  <2> DEFINE v == RunFirst(f[n])
             g == [i \in 0 .. n + 1 |-> IF i = n + 1 THEN v ELSE f[i]]
  <2>2. ASSUME NEW i \in 0 .. n + 1
        PROVE  g[i] = F(g, n + 1)[i]
    <3>1. CASE i = n + 1
      BY <3>1
    <3>2. CASE i \in 0 .. n
      <4>1. g[i] = f[i] /\ (i > 0 => g[i - 1] = f[i - 1])
        BY <3>2
      <4>2. f[i] = F(f, n)[i]
        BY <2>1
      <4> QED BY <3>2, <4>1, <4>2, SMTT(30)
    <3> QED BY <3>1, <3>2
  <2>3. g = F(g, n + 1)
    BY <2>2
  <2> HIDE DEF g
  <2>4. \E h : h = F(h, n + 1)
    BY <2>3
  <2> QED BY <2>4, SMTT(30)
<1>3. m \in T
  <2> HIDE DEF T
  <2> QED BY <1>1, <1>2, SetInduction
<1>4. \E f : f = F(f, m)
  BY <1>3
<1> DEFINE f == CHOOSE f : f = F(f, m)
<1>5. f = F(f, m) /\ RunScheduler(R) = f[m]
  BY <1>4 DEF RunScheduler
<1> HIDE DEF f
<1>6. \A i \in 0 .. m : f[i] = F(f, m)[i]
  BY <1>5
<1>7. f[0] = R /\ \A i \in 1 .. m : f[i] = RunFirst(f[i - 1])
  <2>1. \A n \in Nat : 0 \in 0 .. n /\ \A i \in 1 .. n : i \in 0 .. n /\ i # 0
    BY SMT
  <2>2. 0 \in 0 .. m /\ \A i \in 1 .. m : i \in 0 .. m /\ i # 0
    BY ONLY m \in Nat, <2>1
  <2> QED BY <1>6, <2>2
<1>8. Rounds(f, R, m)
  BY <1>5, <1>7 DEF Rounds
<1> QED BY <1>8

\* run_scheduler(): it ends, with nothing left to run.
LEMMA RunSchedulerLemma ==
  ASSUME NEW R, World(blk), Sane(blk, R), Ready(blk, R, {})
  PROVE  LET A == RunScheduler(R)
         IN  Runs(A, R) /\ A.torun = <<>>
<1> DEFINE m == Len(R.torun) + Len(R.wait)
<1>1. m \in Nat /\ Measure(R) \in Nat /\ Measure(R) <= m
  <2> DEFINE t == Len(R.torun)
             n == Len(R.wait)
  <2>1. t \in Nat /\ n \in Nat /\ Measure(R) \in Nat /\ Measure(R) <= t + n
    BY MeasureFacts
  <2>2. m = t + n
    OBVIOUS
  <2> HIDE DEF t, n, m
  <2> QED BY <2>1, <2>2
<1>2. m = Len(R.torun) + Len(R.wait)
  OBVIOUS
<1> HIDE DEF m
<1>f. PICK f : Rounds(f, R, m)
  BY <1>1, <1>2, RunSchedulerExists
<1>3. /\ f[0] = R
      /\ \A i \in 1 .. m : f[i] = RunFirst(f[i - 1])
      /\ RunScheduler(R) = f[m]
  BY <1>f DEF Rounds
<1> DEFINE P(i) == Runs(f[i], R) /\ (f[i].torun = <<>> \/ Measure(f[i]) + i <= m)
           T == {i \in Nat : i <= m => P(i)}
<1>4. 0 \in T
  <2>1. Runs(R, R)
    BY DEF Runs, KeepsTime
  <2> QED BY <1>1, <1>3, <2>1, SMTT(30)
<1>5. ASSUME NEW i \in Nat, i \in T, i + 1 <= m
      PROVE  P(i + 1)
  <2>1. P(i)
    <3> HIDE DEF P
    <3> QED BY <1>1, <1>5
  <2>2. i + 1 \in 1 .. m /\ (i + 1) - 1 = i
    BY <1>1, <1>5
  <2>3. f[i + 1] = RunFirst(f[i])
    BY <1>3, <2>2
  <2> DEFINE Q == f[i]
             A == f[i + 1]
  <2>4. Sane(blk, Q) /\ Ready(blk, Q, {})
    BY <2>1 DEF Runs
  <2>5. /\ Runs(A, Q)
        /\ Q.torun = <<>> => A = Q
        /\ Q.torun # <<>> => Measure(A) < Measure(Q)
    BY <2>3, <2>4, RunFirstLemma
  <2>6. Runs(A, R)
    BY <2>1, <2>5 DEF Runs, KeepsTime
  <2>7. CASE Q.torun = <<>>
    BY <2>5, <2>6, <2>7
  <2>8. CASE Q.torun # <<>>
    <3>1. Measure(Q) \in Nat /\ Measure(A) \in Nat
      BY <2>4, <2>6, MeasureFacts DEF Runs
    <3> QED BY <1>1, <2>1, <2>5, <2>6, <2>8, <3>1
  <2> QED BY <2>7, <2>8
<1>6. P(m)
  <2> HIDE DEF P
  <2>1. \A i \in Nat : i \in T => i + 1 \in T
    BY <1>5
  <2>2. m \in T
    <3> HIDE DEF T
    <3> QED BY <1>1, <1>4, <2>1, SetInduction
  <2> QED BY <1>1, <2>2
<1>7. f[m].torun = <<>>
  <2>1. Sane(blk, f[m])
    BY <1>6 DEF Runs
  <2>2. Measure(f[m]) \in Nat /\ (Measure(f[m]) = 0 => f[m].torun = <<>>)
    BY <2>1, MeasureFacts
  <2> QED BY <1>1, <1>6, <2>2
<1> QED BY <1>3, <1>6, <1>7

-----------------------------------------------------------------------------
(* The order of the heights *)

LEMMA InitializeForkKeeps ==
  ASSUME NEW R, DOMAIN R = Fields, NEW b, Src(b) \in Source
  PROVE  Keeps(InitializeFork(R, b), R)
<1> DEFINE N == [R EXCEPT !.next = @ \cup {Prev(b)}]
           K == IF OpensFork(R, b) THEN AddFork(R, Src(b)) ELSE N
           f == IF OpensFork(R, b) THEN K.nforks ELSE R.fork[Prev(b)]
           A == InitializeFork(R, b)
<1>1. DOMAIN K = Fields /\ K.objs = R.objs /\ Hushed(K, R) /\ (Slots(R, R.objs) => Slots(K, R.objs))
  <2>1. DOMAIN N = Fields /\ N.objs = R.objs /\ SameBooks(N, R)
    BY DEF Fields, SameBooks
  <2> HIDE DEF N
  <2>2. Hushed(N, R) /\ (Slots(R, R.objs) => Slots(N, R.objs))
    BY <2>1 DEF Hushed, Slots, SlotsBut, SameBooks
  <2> DEFINE G == AddFork(R, Src(b))
  <2>3. DOMAIN G = Fields /\ G.objs = R.objs
    BY AddForkLemma DEF Quiet
  <2>4. Hushed(G, R) /\ (Slots(R, R.objs) => Slots(G, R.objs))
    BY AddForkSlots
  <2> HIDE DEF G
  <2> QED BY <2>1, <2>2, <2>3, <2>4 DEF G
<1>2. A = [K EXCEPT !.fork = With(@, b, f), !.vt = With(@, b, With(MergedVt(R, b), f, Height(b)))]
  BY DEF InitializeFork
<1> HIDE DEF K, f
<1>3. SameBooks(A, K)
  BY <1>1, <1>2 DEF Fields, SameBooks
<1>4. Quiet(blk, A, R) /\ A.objs = R.objs
  BY InitializeForkLemma
<1> HIDE DEF A
<1>5. Hushed(A, R) /\ (Slots(R, R.objs) => Slots(A, A.objs))
  BY <1>1, <1>3, <1>4 DEF Hushed, Slots, SlotsBut, SameBooks
<1> QED BY <1>4, <1>5, QuietKeeps DEF A

LEMMA PreDeliverKeeps ==
  ASSUME NEW R, NEW b \in R.objs, World(blk), Sane(blk, R), Ready(blk, R, {b}), b \notin R.del
  PROVE  Keeps(PreDeliver(R, b), R)
<1> DEFINE a == blk[b].acc
           E == BlameAt(R, Src(b), R.fork[b], Height(b))
           P == [R EXCEPT !.proof = @ \cup {a}]
           G == BlameAt(P, a, R.fork[b], Height(b))
           A == PreDeliver(R, b)
<1>1. /\ DOMAIN R = Fields /\ b \in DOMAIN blk /\ b # Root /\ R.objs \subseteq DOMAIN blk
      /\ Src(b) \in Source
  BY SourceOfBlock DEF Sane, World
<1>2. A = SetIll(R, b) \/ A = SetIll(E, b) \/ A = R \/ (a # NoSource /\ A = G)
  BY DEF PreDeliver
<1>3. Quiet(blk, E, R) /\ E.objs = R.objs /\ Hushed(E, R)
  <2>1. Quiet(blk, E, R) /\ E.objs = R.objs
    BY <1>1, BlameAtLemma, SMTT(30)
  <2>2. Hushed(E, R)
    BY <1>1, BlameAtSlots
  <2> QED BY <2>1, <2>2
<1>4. Slots(R, R.objs) => Slots(E, R.objs)
  <2>1. Slots(R, R.objs) => SlotsBut(R, {Src(b)}, R.objs)
    BY DEF Slots, SlotsBut
  <2> QED BY <1>1, <2>1, BlameAtSlots
<1>5. ASSUME a # NoSource
      PROVE  Keeps(G, R)
  <2>1. a \in Source
    BY <1>1, <1>5 DEF World
  <2>2. /\ DOMAIN P = Fields /\ SameBlocks(P, R) /\ P.objs = R.objs /\ P.slot = R.slot
        /\ P.out = R.out /\ P.found = R.found /\ P.blamed = R.blamed /\ P.proof = R.proof \cup {a}
    BY <1>1 DEF Fields, SameBlocks
  <2> HIDE DEF P, a
  <2>3. Quiet(blk, G, P) /\ G.objs = P.objs /\ Hushed(G, P)
    <3>1. Quiet(blk, G, P) /\ G.objs = P.objs
      BY <2>1, <2>2, BlameAtLemma, SMTT(30)
    <3>2. Hushed(G, P)
      BY <2>1, <2>2, BlameAtSlots
    <3> QED BY <3>1, <3>2
  <2>4. Slots(R, R.objs) => Slots(G, R.objs)
    <3>1. Slots(R, R.objs) => SlotsBut(P, {a}, R.objs)
      BY <2>2 DEF Slots, SlotsBut
    <3> QED BY <2>1, <2>2, <3>1, BlameAtSlots
  <2> HIDE DEF G
  <2>5. Quiet(blk, G, R)
    BY <2>2, <2>3, OtherFieldsQuiet, QuietTransitive
  <2>6. Hushed(G, R)
    BY <2>2, <2>3 DEF Hushed
  <2> QED BY <2>2, <2>3, <2>4, <2>5, <2>6, QuietKeeps
<1> HIDE DEF A, E, G
<1>6. CASE A = SetIll(R, b)
  BY <1>6, SetIllKeeps DEF A
<1>7. CASE A = SetIll(E, b)
  <2>1. Keeps(E, R)
    BY <1>3, <1>4, QuietKeeps
  <2>2. Sane(blk, E) /\ b \notin E.del
    BY <1>1, <1>3, QuietIsSane DEF Quiet, SameBlocks
  <2>3. Keeps(A, E)
    BY <1>3, <1>7, <2>2, SetIllKeeps
  <2> QED BY <2>1, <2>3, KeepsTransitive DEF A
<1>8. CASE A = R
  BY <1>8 DEF Keeps, A
<1>9. CASE a # NoSource /\ A = G
  BY <1>5, <1>9 DEF A
<1> QED BY <1>2, <1>6, <1>7, <1>8, <1>9

\* A block of a source that is not blamed is higher than those delivered.
LEMMA HigherThanDelivered ==
  ASSUME NEW R, World(blk), Sane(blk, R), Slots(R, R.objs), Deep(R.del),
         NEW b \in R.objs, b \notin R.del, Src(b) \notin R.blamed,
         NEW c \in R.del, Src(c) = Src(b)
  PROVE  Height(c) < Height(b)
<1>1. /\ R.objs \subseteq Block /\ R.del \subseteq R.objs /\ b # Root
      /\ Height(b) \in Nat \ {0} /\ Height(c) \in Nat
  BY SourceOfBlock DEF World, Sane
<1>2. CASE c = Root
  BY <1>1, <1>2 DEF Root, Height
<1>3. CASE c # Root
  <2> SUFFICES ASSUME ~ (Height(c) < Height(b))
               PROVE  FALSE
    OBVIOUS
  <2>1. Height(b) \in 1 .. Height(c)
    BY <1>1
  <2>2. PICK d \in R.del \ {Root} : Src(d) = Src(c) /\ Height(d) = Height(b)
    BY <1>3, <2>1 DEF Deep
  <2>3. d \in R.objs \ {Root} /\ b \in R.objs \ {Root}
    BY <1>1
  <2>4. d = b
    BY <2>2, <2>3 DEF Slots, SlotsBut
  <2> QED BY <2>4
<1> QED BY <1>2, <1>3

LEMMA DeeperByOne ==
  ASSUME NEW D, Root \in D, D \subseteq Block, Deep(D), World(blk), Cones(blk), Chains(blk),
         NEW b \in DOMAIN blk \ {Root}, RefsIn(blk, b) \subseteq D
  PROVE  Deep(D \cup {b})
<1> DEFINE p == blk[b].prev
<1>1. p \in D /\ p \in Block /\ Height(b) = Height(p) + 1 /\ (p = Root \/ Src(p) = Src(b))
  BY DEF RefsIn, Cones, Chains
<1>2. Height(p) \in Nat /\ b \in Block
  BY <1>1, SourceOfBlock DEF World
<1> HIDE DEF p
<1>3. ASSUME NEW h \in 1 .. Height(b)
      PROVE  \E x \in (D \cup {b}) \ {Root} : Src(x) = Src(b) /\ Height(x) = h
  <2>1. CASE h = Height(b)
    BY <2>1
  <2>2. CASE h # Height(b)
    <3>1. h \in 1 .. Height(p) /\ Height(p) # 0
      BY <1>1, <1>2, <2>2
    <3>2. p # Root
      BY <3>1 DEF Root, Height
    <3>3. \E x \in D \ {Root} : Src(x) = Src(p) /\ Height(x) = h
      BY <1>1, <3>1, <3>2 DEF Deep
    <3> QED BY <1>1, <3>2, <3>3
  <2> QED BY <2>1, <2>2
<1>4. ASSUME NEW c \in D \ {Root}, NEW h \in 1 .. Height(c)
      PROVE  \E x \in (D \cup {b}) \ {Root} : Src(x) = Src(c) /\ Height(x) = h
  BY <1>4 DEF Deep
<1> QED BY <1>3, <1>4 DEF Deep

LEMMA DeliverKeeps ==
  ASSUME NEW R, World(blk), Cones(blk), Chains(blk), Sane(blk, R), NEW b \in Range(R.wait),
         Ready(blk, R, {b}), RefsIn(blk, b) \subseteq R.del
  PROVE  Keeps(Deliver(R, b), R)
<1> DEFINE D == [R EXCEPT !.del = @ \cup {b}, !.revd = @ \ {b}, !.out = Append(@, <<"new", b>>),
                          !.wait = Only(@, Range(@) \ {b})]
           p == Only(D.wait, {x \in Range(D.wait) : b \in Refs(x) /\ Pending(D, x) = {}})
           A == Deliver(R, b)
<1>1. /\ DOMAIN R = Fields /\ R.wait \in Seq(R.objs) /\ IsInjective(R.wait)
      /\ b \in R.objs /\ b \notin R.del /\ b \notin R.ill /\ b \in DOMAIN blk /\ b \in Block /\ b # Root
      /\ Root \in R.del /\ R.del \subseteq Block
  BY RangeFacts, SMTT(30) DEF Sane, World
<1>2. Ran(A, R, b)
  BY DeliverLemma
<1>3. /\ DOMAIN D = Fields /\ D.del = R.del \cup {b} /\ D.out = Append(R.out, <<"new", b>>) /\ D.objs = R.objs
      /\ D.wait = Only(R.wait, Range(R.wait) \ {b}) /\ D.ill = R.ill
      /\ D.slot = R.slot /\ D.proof = R.proof /\ D.blamed = R.blamed
  BY <1>1 DEF Fields
<1>4. A = [D EXCEPT !.torun = @ \o p]
  BY <1>1 DEF Deliver
<1> HIDE DEF D, p
<1>5. /\ A.del = D.del /\ A.out = D.out /\ A.objs = D.objs /\ A.wait = D.wait /\ A.ill = D.ill
      /\ A.slot = D.slot /\ A.proof = D.proof /\ A.blamed = D.blamed
  BY <1>3, <1>4 DEF Fields
<1> HIDE DEF A
<1>6. Range(A.wait) = Range(R.wait) \ {b}
  <2>1. Range(D.wait) = Range(R.wait) \cap (Range(R.wait) \ {b})
    BY <1>1, <1>3, OnlyLemma, SMTT(30)
  <2> QED BY <1>5, <2>1
<1>7. R.del \subseteq A.del /\ R.ill \subseteq A.ill /\ Settled(R) \subseteq Settled(A)
  BY <1>3, <1>5, <1>6 DEF Settled
<1>8. ASSUME NEW B, NEW F, Orderly(R, B, F)
      PROVE  Orderly(A, B, F)
  <2>1. Slots(A, A.objs)
    BY <1>3, <1>5, <1>8 DEF Orderly, Slots, SlotsBut
  <2>2. Deep(A.del)
    BY <1>1, <1>3, <1>5, <1>8, DeeperByOne, SMTT(30) DEF Orderly
  <2>3. Told(blk, A, B, F)
    BY <1>2, <1>8 DEF Ran, Orderly
  <2> DEFINE o == R.out
             e == <<"new", b>>
             s == <<e>>
             c == Append(o, e)
             C == B \cup AllBlames(o)
  <2>4. o \in Seq(Event) /\ Rising(B, F, o) /\ R.del = F \cup AllNews(o) /\ A.out = c
    BY <1>3, <1>5, <1>8 DEF Orderly, Told
  <2>5. R.blamed \subseteq C
    <3>1. ASSUME NEW t \in R.blamed \ B
          PROVE  t \in AllBlames(o)
      <4>1. <<"blame", t>> \in Range(o)
        BY <1>8, <3>1 DEF Orderly, Told
      <4>2. PICK j \in DOMAIN o : o[j] = <<"blame", t>>
        BY <4>1 DEF Range
      <4>3. j \in 1 .. Len(o)
        BY <2>4
      <4>4. o[j][1] = "blame" /\ o[j][2] = t
        BY <4>2
      <4> QED BY <4>3, <4>4 DEF AllBlames, Blames
    <3> QED BY <3>1
  <2>6. Rising(C, R.del, s)
    <3>1. Len(s) = 1 /\ s[1] = e /\ e[2] = b /\ News(s, 0) = {}
      BY DEF News
    <3>2. ASSUME Src(b) \notin C, NEW x \in R.del, Src(x) = Src(b)
          PROVE  Height(x) < Height(b)
      BY <1>1, <1>8, <2>5, <3>2, HigherThanDelivered DEF Orderly
    <3> HIDE DEF s, e, C
    <3> QED BY <3>1, <3>2 DEF Rising
  <2>7. s \in Seq(Event) /\ e \in Event
    BY <1>1, SMTT(30) DEF Event
  <2> HIDE DEF o, e, C
  <2>8. c = o \o s
    BY <2>4, <2>7, AppendRange, SMTT(30)
  <2> HIDE DEF s, c
  <2>9. Rising(B, F, c)
    BY <2>4, <2>6, <2>7, <2>8, RisingConcat DEF C
  <2> QED BY <2>1, <2>2, <2>3, <2>4, <2>9 DEF Orderly
<1> QED BY <1>7, <1>8 DEF Keeps, A

-----------------------------------------------------------------------------
(* The scheduler *)

LEMMA RunBlockKeeps ==
  ASSUME NEW R, World(blk), Cones(blk), Chains(blk), Sane(blk, R), NEW b \in R.objs, Ready(blk, R, {b}),
         b \in R.ill \cup R.del \/ (b \in Range(R.wait) /\ RefsIn(blk, b) \subseteq R.del)
  PROVE  Keeps(RunBlock(R, b), R)
<1> DEFINE I == InitializeFork(R, b)
           P == PreDeliver(I, b)
           A == RunBlock(R, b)
<1>1. CASE b \in R.ill \cup R.del
  <2>1. A = R
    BY <1>1 DEF RunBlock
  <2> QED BY <2>1 DEF Keeps
<1>2. CASE b \notin R.ill \cup R.del
  <2>1. A = Deliver(P, b)
    BY <1>2 DEF RunBlock
  <2>2. DOMAIN R = Fields /\ Src(b) \in Source /\ R.objs \subseteq DOMAIN blk
    BY <1>2, SourceOfBlock DEF Sane, World
  <2>3. Quiet(blk, I, R) /\ I.objs = R.objs /\ Keeps(I, R)
    BY <2>2, InitializeForkLemma, InitializeForkKeeps
  <2> HIDE DEF A, I
  <2>4. Sane(blk, I) /\ Ready(blk, I, {b}) /\ b \notin I.del /\ b \in I.objs
    BY <1>2, <2>2, <2>3, QuietIsSane DEF Quiet, SameBlocks
  <2>5. /\ Sane(blk, P) /\ Ready(blk, P, {b})
        /\ \/ IllStep(P, I) /\ b \in P.ill /\ b \notin Range(P.wait) /\ Ready(blk, P, {})
           \/ Quiet(blk, P, I) /\ SameForks(P, I) /\ P.objs = I.objs
    BY <2>4, PreDeliverLemma
  <2>6. Keeps(P, I)
    BY <2>4, PreDeliverKeeps
  <2> HIDE DEF P
  <2>7. Keeps(P, R)
    BY <2>3, <2>6, KeepsTransitive
  <2>8. CASE b \in P.ill
    <3>1. A = P
      BY <2>1, <2>8 DEF Deliver
    <3> QED BY <2>7, <3>1 DEF A
  <2>9. CASE Quiet(blk, P, I)
    <3>1. b \in Range(P.wait) /\ RefsIn(blk, b) \subseteq P.del
      BY <1>2, <2>3, <2>9 DEF Quiet, SameBlocks
    <3>2. Keeps(A, P)
      BY <2>1, <2>5, <3>1, DeliverKeeps
    <3> QED BY <2>7, <3>2, KeepsTransitive DEF A
  <2> QED BY <2>5, <2>8, <2>9
<1> QED BY <1>1, <1>2

LEMMA RunFirstKeeps ==
  ASSUME NEW R, World(blk), Cones(blk), Chains(blk), Sane(blk, R), Ready(blk, R, {})
  PROVE  Keeps(RunFirst(R), R)
<1> DEFINE b == Head(R.torun)
           Q == [R EXCEPT !.torun = Tail(@)]
           A == RunFirst(R)
<1>1. CASE R.torun = <<>>
  <2>1. A = R
    BY <1>1 DEF RunFirst
  <2> QED BY <2>1 DEF Keeps
<1>2. CASE R.torun # <<>>
  <2>1. A = RunBlock(Q, b)
    BY <1>2 DEF RunFirst
  <2>2. R.torun \in Seq(R.objs) /\ DOMAIN R = Fields
    BY DEF Sane
  <2>3. /\ Tail(R.torun) \in Seq(R.objs) /\ b \in R.objs
        /\ Range(R.torun) = {b} \cup Range(Tail(R.torun))
    BY <1>2, <2>2, TailRange
  <2>4. /\ DOMAIN Q = Fields /\ Q.torun = Tail(R.torun) /\ Q.objs = R.objs /\ Q.wait = R.wait
        /\ Q.del = R.del /\ Q.ill = R.ill
    BY <2>2 DEF Fields
  <2>5. SameBooks(Q, R)
    BY <2>2 DEF Fields, SameBooks
  <2> HIDE DEF Q, b, A
  <2>6. Sane(blk, Q)
    BY <2>3, <2>4 DEF Sane
  <2>7. Ready(blk, Q, {b})
    BY <2>3, <2>4 DEF Ready
  <2>8. b \in Q.ill \cup Q.del \/ (b \in Range(Q.wait) /\ RefsIn(blk, b) \subseteq Q.del)
    BY <2>3, <2>4 DEF Ready
  <2>9. Keeps(A, Q)
    BY <2>1, <2>3, <2>4, <2>6, <2>7, <2>8, RunBlockKeeps
  <2>10. Keeps(Q, R)
    BY <2>4, <2>5, BooksKeep DEF Settled
  <2> QED BY <2>9, <2>10, KeepsTransitive DEF A
<1> QED BY <1>1, <1>2

LEMMA RunSchedulerKeeps ==
  ASSUME NEW R, World(blk), Cones(blk), Chains(blk), Sane(blk, R), Ready(blk, R, {})
  PROVE  Keeps(RunScheduler(R), R)
<1> DEFINE m == Len(R.torun) + Len(R.wait)
<1>1. m \in Nat
  <2> DEFINE t == Len(R.torun)
             n == Len(R.wait)
  <2>1. t \in Nat /\ n \in Nat
    BY MeasureFacts
  <2>2. m = t + n
    OBVIOUS
  <2> HIDE DEF t, n, m
  <2> QED BY <2>1, <2>2
<1>2. m = Len(R.torun) + Len(R.wait)
  OBVIOUS
<1> HIDE DEF m
<1>f. PICK f : Rounds(f, R, m)
  BY <1>1, <1>2, RunSchedulerExists
<1>3. /\ f[0] = R
      /\ \A i \in 1 .. m : f[i] = RunFirst(f[i - 1])
      /\ RunScheduler(R) = f[m]
  BY <1>f DEF Rounds
<1> DEFINE P(i) == Sane(blk, f[i]) /\ Ready(blk, f[i], {}) /\ Keeps(f[i], R)
           T == {i \in Nat : i <= m => P(i)}
<1>4. 0 \in T
  BY <1>3 DEF Keeps
<1>5. ASSUME NEW i \in Nat, i \in T, i + 1 <= m
      PROVE  P(i + 1)
  <2>1. P(i)
    <3> HIDE DEF P
    <3> QED BY <1>1, <1>5
  <2>2. i + 1 \in 1 .. m /\ (i + 1) - 1 = i
    BY <1>1, <1>5
  <2> DEFINE Q == f[i]
             A == f[i + 1]
  <2>3. A = RunFirst(Q)
    BY <1>3, <2>2
  <2>4. Sane(blk, Q) /\ Ready(blk, Q, {}) /\ Keeps(Q, R)
    BY <2>1
  <2> HIDE DEF A, Q
  <2>5. Runs(A, Q) /\ Keeps(A, Q)
    BY <2>3, <2>4, RunFirstLemma, RunFirstKeeps
  <2>6. Keeps(A, R)
    BY <2>4, <2>5, KeepsTransitive
  <2> QED BY <2>5, <2>6 DEF Runs, A
<1>6. P(m)
  <2> HIDE DEF P
  <2>1. \A i \in Nat : i \in T => i + 1 \in T
    BY <1>5
  <2>2. m \in T
    <3> HIDE DEF T
    <3> QED BY <1>1, <1>4, <2>1, SetInduction
  <2> QED BY <1>1, <2>2
<1> QED BY <1>3, <1>6

\* A block arrives, from a peer or from the own database: what it settles and
\* what is told about it.
LEMMA ArrivalKeeps ==
  ASSUME NEW R, NEW b \in DOMAIN blk, World(blk), Cones(blk), Chains(blk), Sane(blk, R), Ready(blk, R, {})
  PROVE  LET A == RunScheduler(Written(CreateBlock(R, b), b))
         IN  Keeps(A, R) /\ b \in Settled(A)
<1> DEFINE Q == Written(CreateBlock(R, b), b)
           A == RunScheduler(Q)
<1>1. Sane(blk, Q) /\ Ready(blk, Q, {})
  BY ArrivalLemma
<1>2. Keeps(Q, R) /\ b \in Settled(Q)
  BY WrittenKeeps
<1> HIDE DEF Q
<1>3. Keeps(A, Q)
  BY <1>1, RunSchedulerKeeps
<1> HIDE DEF A
<1>4. Keeps(A, R)
  BY <1>2, <1>3, KeepsTransitive
<1>5. b \in Settled(A)
  BY <1>2, <1>3 DEF Keeps
<1> QED BY <1>4, <1>5 DEF A, Q

\* A fork proof arrives from a peer.
LEMMA ProofKeeps ==
  ASSUME NEW R, DOMAIN R = Fields, NEW s \in Source
  PROVE  Keeps(Blame([R EXCEPT !.proof = @ \cup {s}], s), R)
<1> DEFINE P == [R EXCEPT !.proof = @ \cup {s}]
           A == BlameAll(P, {s})
<1>1. /\ DOMAIN P = Fields /\ SameBlocks(P, R) /\ P.objs = R.objs /\ P.slot = R.slot
      /\ P.out = R.out /\ P.found = R.found /\ P.blamed = R.blamed /\ P.proof = R.proof \cup {s}
  BY DEF Fields, SameBlocks
<1>2. A = Blame(P, s) /\ IsFiniteSet({s}) /\ {s} \in SUBSET Source
  BY FS_Singleton DEF Blame
<1> HIDE DEF P
<1>3. Quiet(blk, A, P) /\ A.objs = P.objs /\ Hushed(A, P)
  BY <1>1, <1>2, BlameAllLemma, BlameAllHushed
<1>4. Slots(R, R.objs) => Slots(A, R.objs)
  <2>1. Slots(R, R.objs) => SlotsBut(P, {s}, R.objs)
    BY <1>1 DEF Slots, SlotsBut
  <2> QED BY <1>1, <2>1, BlameAllSlots
<1> HIDE DEF A
<1>5. Quiet(blk, A, R) /\ Hushed(A, R)
  BY <1>1, <1>3, OtherFieldsQuiet, QuietTransitive DEF Hushed
<1>6. Keeps(A, R)
  BY <1>1, <1>3, <1>4, <1>5, QuietKeeps
<1> QED BY <1>2, <1>6 DEF P
=============================================================================

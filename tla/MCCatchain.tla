----------------------------- MODULE MCCatchain -----------------------------
(* Four groups of at most three members for Catchain.  Where local members   *)
(* make blocks, forks are at height 1, the case in which every receiver      *)
(* gives the branches of a fork ids of their own (initialize_fork).          *)
EXTENDS Catchain, TLC

\* "a" runs everything; "b" makes a block that may refer to others, "f" forks.
Member ==
  [ local  |-> {"a"}, remote |-> {"b", "f"},
    blocks |-> "b" :> {<<1, 1>>} @@ "f" :> {<<1, 1>>, <<1, 2>>},
    deps   |-> "b" :> 1 @@ "f" :> 0,
    accuse |-> "b" :> {} @@ "f" :> {},
    max_deps |-> 1, asks |-> "a" :> 3 ]

\* "a" and "b" both run everything, and nobody else is there.
Pair ==
  [ local  |-> {"a", "b"}, remote |-> {}, blocks |-> <<>>, deps |-> <<>>, accuse |-> <<>>,
    max_deps |-> 1, asks |-> "a" :> 2 @@ "b" :> 2 ]

\* "a" runs everything, "b" only listens, "f" forks: two members see the fork.
Witnesses ==
  [ local  |-> {"a", "b"}, remote |-> {"f"},
    blocks |-> "f" :> {<<1, 1>>, <<1, 2>>},
    deps   |-> "f" :> 0,
    accuse |-> "f" :> {},
    max_deps |-> 2, asks |-> "a" :> 2 @@ "b" :> 0 ]

\* "a" only listens to "f", which forks later, and to "b", which may break
\* every rule.
Listener ==
  [ local  |-> {"a"}, remote |-> {"b", "f"},
    blocks |-> "b" :> {<<1, 1>>, <<2, 1>>} @@ "f" :> {<<1, 1>>, <<2, 1>>, <<2, 2>>},
    deps   |-> "b" :> 1 @@ "f" :> 1,
    accuse |-> "b" :> {"a", "f"} @@ "f" :> {},
    max_deps |-> 2, asks |-> "a" :> 0 ]

Groups == {Member, Pair, Witnesses, Listener}
=============================================================================

--------------------------- MODULE MCCatchainRestart ---------------------------
(* Three surroundings of the receiver of "a", which restarts. *)
EXTENDS CatchainRestart, TLC

\* A block of the others: its previous block and what it depends on.
Block(prev, deps, cone) == [prev |-> prev, deps |-> deps, acc |-> NoSource, cone |-> cone \cup {Root}]

b1 == <<"b", 1, 1>>
c1 == <<"c", 1, 1>>
Honest == c1 :> Block(Root, {}, {c1}) @@ b1 :> Block(Root, {c1}, {b1, c1})

\* The source f forks at its first block: b has built on one of the two.
f1 == <<"f", 1, 1>>
g1 == <<"f", 1, 2>>
ForkAtRoot ==
  f1 :> Block(Root, {}, {f1}) @@ g1 :> Block(Root, {}, {g1}) @@ b1 :> Block(Root, {g1}, {b1, g1})

\* Two crashes, with the database kept, and with the database perhaps lost.
Kept == [world |-> Honest, unsafe |-> FALSE, max_height |-> 3, max_crashes |-> 2, max_variants |-> 2]
Lost == [world |-> Honest, unsafe |-> TRUE, max_height |-> 2, max_crashes |-> 2, max_variants |-> 2]
\* A crash and a fork of another member.
Forked == [world |-> ForkAtRoot, unsafe |-> FALSE, max_height |-> 2, max_crashes |-> 1, max_variants |-> 2]
Surroundings == {Kept, Lost, Forked}
===============================================================================

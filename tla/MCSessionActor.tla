-------------------------- MODULE MCSessionActor --------------------------
(* Sessions of two rounds for SessionActor, with a candidate "x" of another  *)
(* validator or "o" of this one, both built for the first block.             *)
EXTENDS SessionActor, TLC

MakerOf == "x" :> "other" @@ "o" :> "me"
First == "x" :> 0 @@ "o" :> 0
Outcomes(first, second) == {[r \in Round |-> IF r = 0 THEN first ELSE second]}

\* "x" is committed in the first round while a download or a source fails.
Lossy ==
  [ cand |-> {"x"}, own |-> {}, decisions |-> Outcomes("x", Skip),
    delays |-> {"slot", "p2p"}, vote |-> {FALSE}, max_failures |-> 1, max_crashes |-> 0 ]

\* The first round is skipped though "x" is there, and "x" comes again.
Again ==
  [ cand |-> {"x"}, own |-> {}, decisions |-> Outcomes(Skip, "x"),
    delays |-> Delays, vote |-> {FALSE}, max_failures |-> 0, max_crashes |-> 0 ]

\* The same with "o" and a restart.
OwnAgain ==
  [ cand |-> {"o"}, own |-> {"o"}, decisions |-> Outcomes(Skip, "o"),
    delays |-> {"slot", "p2p"}, vote |-> {FALSE}, max_failures |-> 0, max_crashes |-> 1 ]

\* "o" is committed; there may be votes to make; a restart.
OwnVotes ==
  [ cand |-> {"o"}, own |-> {"o"}, decisions |-> Outcomes("o", Skip),
    delays |-> {"slot", "p2p"}, vote |-> BOOLEAN, max_failures |-> 0, max_crashes |-> 1 ]

Sessions == {Lossy, Again, OwnAgain, OwnVotes}
=============================================================================

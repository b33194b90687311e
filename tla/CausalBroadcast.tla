-------------------------- MODULE CausalBroadcast --------------------------
(***************************************************************************)
(* What Catchain promises the protocol above it: a broadcast that every    *)
(* member delivers in causal order, each message at most once.             *)
(***************************************************************************)
CONSTANTS Member,    \* the members that deliver messages
          Genesis    \* the message everybody has delivered from the start

VARIABLES refs,      \* refs[m]: the messages that m depends on directly
          got        \* got[n]: the messages n has delivered

Init ==
  /\ refs = [m \in {Genesis} |-> {Genesis}]
  /\ got = [n \in Member |-> {Genesis}]

\* A new message may only depend on messages that exist.
Broadcast ==
  /\ \E m \in DOMAIN refs' \ DOMAIN refs :
       /\ DOMAIN refs' = DOMAIN refs \cup {m}
       /\ refs'[m] # {} /\ refs'[m] \subseteq DOMAIN refs
       /\ \A o \in DOMAIN refs : refs'[o] = refs[o]
  /\ UNCHANGED got

\* A message is delivered after everything it depends on.
Deliver(n) ==
  /\ \E m \in DOMAIN refs \ got[n] :
       /\ refs[m] \subseteq got[n]
       /\ got' = [got EXCEPT ![n] = @ \cup {m}]
  /\ UNCHANGED refs

Next == Broadcast \/ \E n \in Member : Deliver(n)

Spec == Init /\ [][Next]_<<refs, got>>
=============================================================================

----------------------------- MODULE DurableLog -----------------------------
(***************************************************************************)
(* What the asynchronous key-value store promises its only client: the     *)
(* writes, numbered in the order in which they were sent, become durable   *)
(* in that order, and a write is confirmed only when it is durable.  A     *)
(* failure loses the writes after a durable prefix.                        *)
(***************************************************************************)
EXTENDS Naturals

VARIABLES sent,      \* the number of writes sent
          disk,      \* the writes that survive a failure
          answered   \* the writes whose promise was fulfilled

Init == sent = 0 /\ disk = {} /\ answered = {}

Prefix(S, n) == \E d \in 0 .. n : S = 1 .. d

Write == sent' = sent + 1 /\ UNCHANGED <<disk, answered>>

\* More writes reach the disk; promises of durable writes are fulfilled.
Commit ==
  /\ Prefix(disk', sent) /\ disk \subseteq disk'
  /\ answered \subseteq answered' /\ answered' \subseteq disk'
  /\ UNCHANGED sent

\* The process stops, and is started again on what the disk holds.
Fail ==
  /\ Prefix(disk', sent) /\ disk \subseteq disk'
  /\ answered \subseteq answered' /\ answered' \subseteq disk'
  /\ sent' \in 0 .. sent /\ disk' = 1 .. sent'

Next == Write \/ Commit \/ Fail

Spec == Init /\ [][Next]_<<sent, disk, answered>>
=============================================================================

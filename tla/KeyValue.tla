------------------------------ MODULE KeyValue ------------------------------
(***************************************************************************)
(* td::KeyValueAsync: the actor in front of RocksDB.  Every set() joins    *)
(* the open transaction, or opens one; the transaction is committed by a   *)
(* sync() message the actor sends itself, at once for an urgent write      *)
(* (sync_delay = 0) and from alarm() otherwise.  One client; the writes    *)
(* are numbered in the order in which it sends them.                       *)
(***************************************************************************)
EXTENDS Naturals, Sequences, Functions

CONSTANTS MaxWrites,   \* bound: writes sent
          MaxFails     \* bound: crashes and orderly stops

ASSUME BoundsAreNat == MaxWrites \in Nat /\ MaxFails \in Nat

VARIABLES sent,         \* writes sent since the database was created
          urgent,       \* those sent with sync_delay = 0
          box,          \* the mailbox: a write's number, or Sync
          trans,        \* the writes of the open transaction
          disk,         \* the committed writes
          promises,     \* pending_promises_
          answered,     \* the writes whose promise was fulfilled
          need_sync, sync_active, alarm_set,
          fails

vars == <<sent, urgent, box, trans, disk, promises, answered, need_sync, sync_active, alarm_set, fails>>

Sync == 0

Init ==
  /\ sent = 0 /\ urgent = {} /\ box = <<>>
  /\ trans = {} /\ disk = {} /\ promises = {} /\ answered = {}
  /\ need_sync = FALSE /\ sync_active = FALSE /\ alarm_set = FALSE
  /\ fails = 0

\* KeyValueAsync::set(): a message to the actor.
Send(u) ==
  /\ sent < MaxWrites
  /\ sent' = sent + 1
  /\ urgent' = IF u THEN urgent \cup {sent + 1} ELSE urgent
  /\ box' = Append(box, sent + 1)
  /\ UNCHANGED <<trans, disk, promises, answered, need_sync, sync_active, alarm_set, fails>>

\* schedule_sync(): whether send_sync() is called for the write.
SyncNow(w) == ~ sync_active /\ w \in urgent

\* KeyValueActor::set()
HandleSet ==
  /\ box # <<>> /\ Head(box) # Sync
  /\ need_sync' = TRUE
  /\ IF SyncNow(Head(box))
     THEN sync_active' = TRUE /\ alarm_set' = FALSE /\ box' = Append(Tail(box), Sync)
     ELSE /\ alarm_set' = (alarm_set \/ ~ sync_active)
          /\ box' = Tail(box) /\ UNCHANGED sync_active
  /\ promises' = promises \cup {Head(box)}
  /\ trans' = trans \cup {Head(box)}
  /\ UNCHANGED <<sent, urgent, disk, answered, fails>>

\* Mutant of Committed: the transaction is closed without a commit.
NotCommitted == disk
\* KeyValueActor::sync()
Committed == IF need_sync THEN disk \cup trans ELSE disk
HandleSync ==
  /\ box # <<>> /\ Head(box) = Sync
  /\ box' = Tail(box)
  /\ disk' = Committed
  /\ need_sync' = FALSE
  /\ IF need_sync
     THEN /\ sync_active' = FALSE /\ trans' = {}
          /\ answered' = answered \cup promises /\ promises' = {}
     ELSE UNCHANGED <<sync_active, trans, answered, promises>>
  /\ UNCHANGED <<sent, urgent, alarm_set, fails>>

\* Mutant of AlarmSyncs: need_sync_ is read the wrong way round.
AlarmSyncsIdle == ~ need_sync /\ ~ sync_active
AlarmSyncs == need_sync /\ ~ sync_active

\* KeyValueActor::alarm()
Alarm ==
  /\ alarm_set /\ alarm_set' = FALSE
  /\ IF AlarmSyncs
     THEN sync_active' = TRUE /\ box' = Append(box, Sync)
     ELSE UNCHANGED <<sync_active, box>>
  /\ UNCHANGED <<sent, urgent, trans, disk, promises, answered, need_sync, fails>>

\* A new actor on the same database: the mailbox and the promises are gone.
Reopen(n) ==
  /\ fails < MaxFails /\ fails' = fails + 1
  /\ sent' = n /\ urgent' = {} /\ box' = <<>>
  /\ trans' = {} /\ promises' = {}
  /\ need_sync' = FALSE /\ sync_active' = FALSE /\ alarm_set' = FALSE

\* The process is killed: the open transaction is lost.
Crash == \E n \in 0 .. sent : disk = 1 .. n /\ Reopen(n) /\ UNCHANGED <<disk, answered>>

\* tear_down(): sync(), then the actor is gone.
TearDown ==
  /\ disk' = Committed
  /\ answered' = IF need_sync THEN answered \cup promises ELSE answered
  /\ \E n \in 0 .. sent : Committed = 1 .. n /\ Reopen(n)

Next ==
  \/ \E u \in BOOLEAN : Send(u)
  \/ HandleSet \/ HandleSync \/ Alarm \/ Crash \/ TearDown

Spec == Init /\ [][Next]_vars

\* The actor handles its mailbox, and alarms go off.
FairSpec == Spec /\ WF_vars(HandleSet) /\ WF_vars(HandleSync) /\ WF_vars(Alarm)

-----------------------------------------------------------------------------
\* The variables have their types.
TypeOK ==
  /\ sent \in Nat /\ urgent \in SUBSET Nat
  /\ box \in Seq(Nat)
  /\ trans \in SUBSET Nat /\ disk \in SUBSET Nat
  /\ promises \in SUBSET Nat /\ answered \in SUBSET Nat
  /\ need_sync \in BOOLEAN /\ sync_active \in BOOLEAN /\ alarm_set \in BOOLEAN
  /\ fails \in Nat

\* Writes become durable in the order in which they were sent, and a promise
\* is fulfilled only when its write is durable: crashes included, urgent and
\* delayed writes mixed.
Log == INSTANCE DurableLog
ImplementsDurableLog == Log!Spec

\* The mailbox holds the writes not handled yet, in order: what makes the
\* committed writes a prefix.
Ordered ==
  \A i, j \in 1 .. Len(box) : i < j /\ box[i] # Sync /\ box[j] # Sync => box[i] < box[j]
Handled(d, t) ==
  /\ disk = 1 .. d /\ trans = (d + 1) .. t
  /\ \A i \in 1 .. Len(box) : box[i] # Sync => box[i] \in (t + 1) .. sent
  /\ \A w \in (t + 1) .. sent : \E i \in 1 .. Len(box) : box[i] = w
QueueInvariant ==
  /\ TypeOK
  /\ Ordered
  /\ \E d \in 0 .. sent : \E t \in d .. sent : Handled(d, t) /\ (need_sync <=> d < t)
  /\ answered \subseteq disk /\ promises \subseteq trans

\* Every write is confirmed, unless the process is stopped first.
Awaited(w) == w \in promises \/ w \in Range(box)
EveryWriteAnswered == \A w \in 1 .. MaxWrites : Awaited(w) ~> ~ Awaited(w)
=============================================================================

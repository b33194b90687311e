--------------------------- MODULE KeyValueProofs ---------------------------
(***************************************************************************)
(* KeyValue implements DurableLog, for any number of writes and failures.  *)
(* The invariant QueueInvariant is inductive: the handled writes are 1..t, *)
(* of which 1..d are committed, and the mailbox holds the others in order. *)
(***************************************************************************)
EXTENDS KeyValue, TLAPS

\* Zenon proves most steps, which are about sets and functions; those that it
\* does not find, arithmetic above all, name SMT.
USE ZenonT(20), SMTT(30)

\* Head and Tail by index.
LEMMA TailByIndex ==
  ASSUME NEW s \in Seq(Nat), s # <<>>
  PROVE  /\ Head(s) = s[1] /\ Len(s) \in Nat /\ Len(s) >= 1
         /\ Tail(s) \in Seq(Nat) /\ Len(Tail(s)) = Len(s) - 1
         /\ \A i \in 1 .. Len(Tail(s)) : Tail(s)[i] = s[i + 1]
  OBVIOUS

\* Append by index.
LEMMA AppendByIndex ==
  ASSUME NEW s \in Seq(Nat), NEW e \in Nat
  PROVE  /\ Append(s, e) \in Seq(Nat) /\ Len(Append(s, e)) = Len(s) + 1
         /\ \A i \in 1 .. Len(s) : Append(s, e)[i] = s[i]
         /\ Append(s, e)[Len(s) + 1] = e
  OBVIOUS

\* The next write in the mailbox is the first that is not handled.
LEMMA NextWrite ==
  ASSUME QueueInvariant, box # <<>>, Head(box) # Sync,
         NEW d \in 0 .. sent, NEW t \in d .. sent, Handled(d, t)
  PROVE  Head(box) = t + 1 /\ t + 1 <= sent
<1>1. /\ box \in Seq(Nat) /\ sent \in Nat /\ Head(box) = box[1] /\ Len(box) \in Nat /\ Len(box) >= 1
  BY TailByIndex DEF QueueInvariant, TypeOK
<1>2. box[1] \in (t + 1) .. sent
  BY <1>1, SMTT(30) DEF Handled
<1>3. PICK i \in 1 .. Len(box) : box[i] = t + 1
  <2>1. t \in Nat /\ t + 1 \in (t + 1) .. sent
    BY <1>1, <1>2
  <2>2. \A w \in (t + 1) .. sent : \E i \in 1 .. Len(box) : box[i] = w
    BY DEF Handled
  <2> QED BY <2>1, <2>2
<1>4. i # 1 => box[1] < box[i]
  <2>1. box[1] # Sync /\ box[i] # Sync
    BY <1>1, <1>3 DEF Sync
  <2> QED BY <2>1, <1>1 DEF QueueInvariant, Ordered
<1> QED BY <1>1, <1>2, <1>3, <1>4

\* Appending a sync() to the mailbox changes nothing about the writes in it.
LEMMA AppendSync ==
  ASSUME NEW s \in Seq(Nat), NEW lo \in Nat, NEW hi \in Nat,
         \A i, j \in 1 .. Len(s) : i < j /\ s[i] # Sync /\ s[j] # Sync => s[i] < s[j],
         \A i \in 1 .. Len(s) : s[i] # Sync => s[i] \in lo .. hi,
         \A w \in lo .. hi : \E i \in 1 .. Len(s) : s[i] = w
  PROVE  LET r == Append(s, Sync)
         IN  /\ r \in Seq(Nat)
             /\ \A i, j \in 1 .. Len(r) : i < j /\ r[i] # Sync /\ r[j] # Sync => r[i] < r[j]
             /\ \A i \in 1 .. Len(r) : r[i] # Sync => r[i] \in lo .. hi
             /\ \A w \in lo .. hi : \E i \in 1 .. Len(r) : r[i] = w
<1> DEFINE r == Append(s, Sync)
<1>1. /\ r \in Seq(Nat) /\ Len(r) = Len(s) + 1 /\ Len(s) \in Nat
      /\ \A i \in 1 .. Len(s) : r[i] = s[i]
      /\ r[Len(s) + 1] = Sync
  BY AppendByIndex, SMTT(30) DEF Sync
<1> HIDE DEF r
<1>2. \A i \in 1 .. Len(r) : r[i] # Sync => i \in 1 .. Len(s) /\ r[i] = s[i]
  BY <1>1, SMTT(30)
<1>3. \A i, j \in 1 .. Len(r) : i < j /\ r[i] # Sync /\ r[j] # Sync => r[i] < r[j]
  BY <1>2
<1>4. \A i \in 1 .. Len(r) : r[i] # Sync => r[i] \in lo .. hi
  BY <1>2
<1>5. \A w \in lo .. hi : \E i \in 1 .. Len(r) : r[i] = w
  <2> TAKE w \in lo .. hi
  <2>1. PICK i \in 1 .. Len(s) : s[i] = w
    OBVIOUS
  <2> QED BY <2>1, <1>1, SMTT(30)
<1> QED BY <1>1, <1>3, <1>4, <1>5 DEF r

\* Taking the first write off the mailbox leaves the later ones, in order.
LEMMA TakeWrite ==
  ASSUME QueueInvariant, box # <<>>, Head(box) # Sync,
         NEW d \in 0 .. sent, NEW t \in d .. sent, Handled(d, t)
  PROVE  LET r == Tail(box)
         IN  /\ r \in Seq(Nat)
             /\ \A i, j \in 1 .. Len(r) : i < j /\ r[i] # Sync /\ r[j] # Sync => r[i] < r[j]
             /\ \A i \in 1 .. Len(r) : r[i] # Sync => r[i] \in (t + 2) .. sent
             /\ \A w \in (t + 2) .. sent : \E i \in 1 .. Len(r) : r[i] = w
<1> DEFINE r == Tail(box)
<1>1. /\ r \in Seq(Nat) /\ Len(r) = Len(box) - 1 /\ Len(box) \in Nat /\ Len(box) >= 1
      /\ \A i \in 1 .. Len(r) : r[i] = box[i + 1]
      /\ Head(box) = box[1]
  BY TailByIndex DEF QueueInvariant, TypeOK
<1>2. box[1] = t + 1 /\ t \in Nat /\ sent \in Nat
  <2>1. Head(box) = t + 1
    BY NextWrite
  <2>2. sent \in Nat /\ t \in Nat
    BY SMTT(30) DEF QueueInvariant, TypeOK
  <2> QED BY <1>1, <2>1, <2>2
<1> HIDE DEF r
<1>3. \A i, j \in 1 .. Len(r) : i < j /\ r[i] # Sync /\ r[j] # Sync => r[i] < r[j]
  <2> SUFFICES ASSUME NEW i \in 1 .. Len(r), NEW j \in 1 .. Len(r), i < j, r[i] # Sync, r[j] # Sync
               PROVE  r[i] < r[j]
    OBVIOUS
  <2>1. i + 1 \in 1 .. Len(box) /\ j + 1 \in 1 .. Len(box) /\ i + 1 < j + 1
    BY <1>1, SMTT(30)
  <2> QED BY <1>1, <2>1 DEF QueueInvariant, Ordered
<1>4. ASSUME NEW i \in 1 .. Len(r), r[i] # Sync
      PROVE  r[i] \in (t + 2) .. sent
  <2>1. i + 1 \in 1 .. Len(box) /\ 1 \in 1 .. Len(box) /\ 1 < i + 1 /\ r[i] = box[i + 1]
    BY <1>1, SMTT(30)
  <2>2. box[1] < box[i + 1]
    BY <2>1, <1>2, <1>4 DEF QueueInvariant, Ordered, Sync
  <2>3. box[i + 1] \in (t + 1) .. sent
    BY <2>1, <1>4 DEF Handled
  <2> QED BY <2>1, <2>2, <2>3, <1>2
<1>5. ASSUME NEW w \in (t + 2) .. sent
      PROVE  \E i \in 1 .. Len(r) : r[i] = w
  <2>1. w \in (t + 1) .. sent
    BY <1>2
  <2>2. PICK i \in 1 .. Len(box) : box[i] = w
    BY <2>1 DEF Handled
  <2>3. i # 1
    BY <2>2, <1>2
  <2>4. i - 1 \in 1 .. Len(r) /\ (i - 1) + 1 = i
    BY <2>3, <1>1, SMTT(30)
  <2> QED BY <2>2, <2>4, <1>1
<1> QED BY <1>1, <1>3, <1>4, <1>5 DEF r

-----------------------------------------------------------------------------
\* KeyValueActor::set() handles the write after the last one handled.
LEMMA HandleSetStep ==
  ASSUME QueueInvariant, HandleSet
  PROVE  QueueInvariant'
<1>1. PICK d \in 0 .. sent : \E t \in d .. sent : Handled(d, t) /\ (need_sync <=> d < t)
  BY DEF QueueInvariant
<1>0. PICK t \in d .. sent : Handled(d, t) /\ (need_sync <=> d < t)
  BY <1>1
<1>2. Head(box) = t + 1 /\ t + 1 <= sent /\ d \in Nat /\ t \in Nat /\ sent \in Nat /\ d <= t
  <2>1. Head(box) = t + 1 /\ t + 1 <= sent
    BY <1>0, NextWrite DEF HandleSet
  <2> QED BY <2>1 DEF QueueInvariant, TypeOK
<1>3. /\ box' \in Seq(Nat)
      /\ Ordered'
      /\ \A i \in 1 .. Len(box') : box'[i] # Sync => box'[i] \in (t + 2) .. sent
      /\ \A w \in (t + 2) .. sent : \E i \in 1 .. Len(box') : box'[i] = w
  <2> DEFINE r == Tail(box)
  <2>1. /\ r \in Seq(Nat)
        /\ \A i, j \in 1 .. Len(r) : i < j /\ r[i] # Sync /\ r[j] # Sync => r[i] < r[j]
        /\ \A i \in 1 .. Len(r) : r[i] # Sync => r[i] \in (t + 2) .. sent
        /\ \A w \in (t + 2) .. sent : \E i \in 1 .. Len(r) : r[i] = w
    BY <1>0, <1>1, TakeWrite DEF HandleSet
  <2>2. t + 2 \in Nat
    BY <1>2
  <2>3. CASE box' = r
    BY <2>1, <2>3 DEF Ordered
  <2>4. CASE box' = Append(r, Sync)
    <3> DEFINE q == Append(r, Sync)
    <3> HIDE DEF r
    <3> DEFINE lo == t + 2
    <3>0. lo \in Nat /\ sent \in Nat
      BY <1>2
    <3> HIDE DEF lo
    <3>1. /\ q \in Seq(Nat)
          /\ \A i, j \in 1 .. Len(q) : i < j /\ q[i] # Sync /\ q[j] # Sync => q[i] < q[j]
          /\ \A i \in 1 .. Len(q) : q[i] # Sync => q[i] \in lo .. sent
          /\ \A w \in lo .. sent : \E i \in 1 .. Len(q) : q[i] = w
      <4>1. /\ \A i \in 1 .. Len(r) : r[i] # Sync => r[i] \in lo .. sent
            /\ \A w \in lo .. sent : \E i \in 1 .. Len(r) : r[i] = w
        BY <2>1 DEF lo
      <4> QED BY <2>1, <3>0, <4>1, AppendSync, Zenon
    <3> HIDE DEF q
    <3> QED BY <2>4, <3>1 DEF Ordered, q, lo
  <2> QED BY <2>3, <2>4 DEF HandleSet
<1>4. TypeOK'
  <2>1. sync_active' \in BOOLEAN /\ alarm_set' \in BOOLEAN
    BY DEF HandleSet, QueueInvariant, TypeOK
  <2>2. trans' \in SUBSET Nat /\ promises' \in SUBSET Nat
    <3>1. Head(box) \in Nat
      BY <1>2
    <3>2. trans \in SUBSET Nat /\ promises \in SUBSET Nat
      BY DEF QueueInvariant, TypeOK
    <3>3. trans' = trans \cup {Head(box)} /\ promises' = promises \cup {Head(box)}
      BY DEF HandleSet
    <3> QED BY <3>1, <3>2, <3>3
  <2>3. /\ sent' \in Nat /\ urgent' \in SUBSET Nat /\ disk' \in SUBSET Nat
        /\ answered' \in SUBSET Nat /\ fails' \in Nat
    BY DEF HandleSet, QueueInvariant, TypeOK
  <2>4. need_sync' \in BOOLEAN
    BY DEF HandleSet
  <2> QED BY <1>3, <2>1, <2>2, <2>3, <2>4 DEF TypeOK
<1>5. Handled(d, t + 1)' /\ promises' \subseteq trans' /\ answered' \subseteq disk' /\ need_sync'
  <2>1. trans' = (d + 1) .. (t + 1)
    BY <1>0, <1>1, <1>2, SMTT(30) DEF HandleSet, Handled
  <2>2. (t + 1) + 1 = t + 2
    BY <1>2
  <2> QED BY <1>0, <1>1, <1>3, <2>1, <2>2 DEF HandleSet, Handled, QueueInvariant
<1>6. d \in 0 .. sent' /\ t + 1 \in d .. sent' /\ d < t + 1
  BY <1>2 DEF HandleSet
<1> QED BY <1>3, <1>4, <1>5, <1>6 DEF QueueInvariant

\* KeyValueActor::sync() commits everything handled.
LEMMA HandleSyncStep ==
  ASSUME QueueInvariant, HandleSync
  PROVE  QueueInvariant'
<1>1. PICK d \in 0 .. sent : \E t \in d .. sent : Handled(d, t) /\ (need_sync <=> d < t)
  BY DEF QueueInvariant
<1>0. PICK t \in d .. sent : Handled(d, t) /\ (need_sync <=> d < t)
  BY <1>1
<1>2. d \in Nat /\ t \in Nat /\ sent \in Nat /\ d <= t /\ t <= sent /\ box \in Seq(Nat) /\ box # <<>>
  BY <1>0, <1>1 DEF HandleSync, QueueInvariant, TypeOK
<1>3. /\ box' \in Seq(Nat) /\ Len(box') = Len(box) - 1 /\ Len(box) \in Nat /\ Len(box) >= 1
      /\ \A i \in 1 .. Len(box') : box'[i] = box[i + 1]
      /\ box[1] = Sync
  BY <1>2, TailByIndex DEF HandleSync
<1>4. Ordered'
  <2> SUFFICES ASSUME NEW i \in 1 .. Len(box'), NEW j \in 1 .. Len(box'), i < j, box'[i] # Sync, box'[j] # Sync
               PROVE  box'[i] < box'[j]
    BY DEF Ordered
  <2>1. i + 1 \in 1 .. Len(box) /\ j + 1 \in 1 .. Len(box) /\ i + 1 < j + 1
    BY <1>3, SMTT(30)
  <2> QED BY <1>3, <2>1 DEF QueueInvariant, Ordered
<1>5. \A i \in 1 .. Len(box') : box'[i] # Sync => box'[i] \in (t + 1) .. sent
  <2> TAKE i \in 1 .. Len(box')
  <2>1. i + 1 \in 1 .. Len(box)
    BY <1>3
  <2> QED BY <1>0, <1>1, <1>3, <2>1 DEF Handled
<1>6. \A w \in (t + 1) .. sent : \E i \in 1 .. Len(box') : box'[i] = w
  <2> TAKE w \in (t + 1) .. sent
  <2>1. PICK i \in 1 .. Len(box) : box[i] = w
    BY <1>0, <1>1 DEF Handled
  <2>2. i # 1
    BY <2>1, <1>2, <1>3 DEF Sync
  <2>3. i - 1 \in 1 .. Len(box') /\ (i - 1) + 1 = i
    BY <2>2, <1>3
  <2> QED BY <2>1, <2>3, <1>3
<1>7. disk' = 1 .. t /\ trans' = {} /\ promises' = {} /\ answered' \subseteq disk'
  <2>1. CASE need_sync
    <3>1. disk' = 1 .. t
      BY <1>0, <1>1, <1>2, <2>1, SMTT(30) DEF HandleSync, Committed, Handled
    <3>2. promises \subseteq 1 .. t /\ answered \subseteq 1 .. t
      BY <1>0, <1>1, <1>2, SMTT(30) DEF QueueInvariant, Handled
    <3> QED BY <3>1, <3>2, <2>1 DEF HandleSync
  <2>2. CASE ~ need_sync
    <3>1. d = t
      BY <1>0, <1>1, <1>2, <2>2
    <3>2. trans = {}
      BY <1>0, <1>1, <1>2, <3>1 DEF Handled
    <3> QED BY <1>0, <1>1, <3>1, <3>2, <2>2 DEF HandleSync, Committed, Handled, QueueInvariant
  <2> QED BY <2>1, <2>2
<1>8. TypeOK'
  <2>1. sync_active' \in BOOLEAN
    BY DEF HandleSync, QueueInvariant, TypeOK
  <2> QED BY <1>2, <1>3, <1>7, <2>1 DEF HandleSync, QueueInvariant, TypeOK, Committed
<1>9. Handled(t, t)'
  <2>1. trans' = (t + 1) .. t
    BY <1>2, <1>7
  <2> QED BY <1>5, <1>6, <1>7, <2>1 DEF Handled, HandleSync
<1>10. t \in 0 .. sent' /\ t \in t .. sent' /\ ~ need_sync' /\ ~ (t < t)
  BY <1>2 DEF HandleSync
<1> QED BY <1>4, <1>7, <1>8, <1>9, <1>10 DEF QueueInvariant

\* KeyValueAsync::set() adds the next number at the end of the mailbox.
LEMMA SendStep ==
  ASSUME QueueInvariant, NEW u \in BOOLEAN, Send(u)
  PROVE  QueueInvariant'
<1>1. PICK d \in 0 .. sent : \E t \in d .. sent : Handled(d, t) /\ (need_sync <=> d < t)
  BY DEF QueueInvariant
<1>0. PICK t \in d .. sent : Handled(d, t) /\ (need_sync <=> d < t)
  BY <1>1
<1>2. d \in Nat /\ t \in Nat /\ sent \in Nat /\ d <= t /\ t <= sent /\ box \in Seq(Nat)
  BY DEF QueueInvariant, TypeOK
<1>3. /\ box' \in Seq(Nat) /\ Len(box') = Len(box) + 1 /\ Len(box) \in Nat
      /\ \A i \in 1 .. Len(box) : box'[i] = box[i]
      /\ box'[Len(box) + 1] = sent + 1
  BY <1>2, AppendByIndex, SMTT(30) DEF Send
<1>4. \A i \in 1 .. Len(box) : box[i] # Sync => box[i] \in (t + 1) .. sent
  BY <1>0 DEF Handled
<1>5. Ordered'
  <2> SUFFICES ASSUME NEW i \in 1 .. Len(box'), NEW j \in 1 .. Len(box'), i < j, box'[i] # Sync, box'[j] # Sync
               PROVE  box'[i] < box'[j]
    BY DEF Ordered
  <2>1. i \in 1 .. Len(box) /\ box'[i] = box[i] /\ box[i] \in (t + 1) .. sent
    BY <1>3, <1>4
  <2>2. CASE j = Len(box) + 1
    BY <2>1, <2>2, <1>2, <1>3
  <2>3. CASE j \in 1 .. Len(box)
    BY <2>1, <2>3, <1>3 DEF QueueInvariant, Ordered
  <2> QED BY <2>2, <2>3, <1>3
<1>6. \A i \in 1 .. Len(box') : box'[i] # Sync => box'[i] \in (t + 1) .. (sent + 1)
  <2> TAKE i \in 1 .. Len(box')
  <2>1. CASE i = Len(box) + 1
    BY <2>1, <1>2, <1>3
  <2>2. CASE i \in 1 .. Len(box)
    <3>1. box'[i] = box[i]
      BY <1>3, <2>2
    <3>2. box[i] # Sync => box[i] \in (t + 1) .. sent
      BY <1>4, <2>2
    <3> QED BY <1>2, <3>1, <3>2
  <2> QED BY <2>1, <2>2, <1>3
<1>7. \A w \in (t + 1) .. (sent + 1) : \E i \in 1 .. Len(box') : box'[i] = w
  <2> TAKE w \in (t + 1) .. (sent + 1)
  <2>1. CASE w = sent + 1
    BY <2>1, <1>3
  <2>2. CASE w \in (t + 1) .. sent
    <3>1. PICK i \in 1 .. Len(box) : box[i] = w
      BY <2>2, <1>0 DEF Handled
    <3> QED BY <3>1, <1>3
  <2> QED BY <2>1, <2>2, <1>2
<1>8. TypeOK'
  BY <1>2, <1>3, SMTT(30) DEF Send, QueueInvariant, TypeOK
<1>9. sent' = sent + 1 /\ d \in 0 .. sent' /\ t \in d .. sent'
  BY <1>2 DEF Send
<1>10. Handled(d, t)'
  <2>1. disk' = 1 .. d /\ trans' = (d + 1) .. t
    BY <1>0 DEF Send, Handled
  <2> QED BY <2>1, <1>6, <1>7, <1>9 DEF Handled
<1> QED BY <1>0, <1>5, <1>8, <1>9, <1>10 DEF Send, QueueInvariant

\* alarm() may only add a sync() to the mailbox.
LEMMA AlarmStep ==
  ASSUME QueueInvariant, Alarm
  PROVE  QueueInvariant'
<1>1. PICK d \in 0 .. sent : \E t \in d .. sent : Handled(d, t) /\ (need_sync <=> d < t)
  BY DEF QueueInvariant
<1>0. PICK t \in d .. sent : Handled(d, t) /\ (need_sync <=> d < t)
  BY <1>1
<1>2. d \in Nat /\ t \in Nat /\ t + 1 \in Nat /\ sent \in Nat /\ box \in Seq(Nat)
  BY SMTT(30) DEF QueueInvariant, TypeOK
<1>3. /\ box' \in Seq(Nat) /\ Ordered'
      /\ \A i \in 1 .. Len(box') : box'[i] # Sync => box'[i] \in (t + 1) .. sent
      /\ \A w \in (t + 1) .. sent : \E i \in 1 .. Len(box') : box'[i] = w
  <2>1. CASE box' = box
    BY <2>1, <1>0, <1>2 DEF Handled, QueueInvariant, Ordered
  <2>2. CASE box' = Append(box, Sync)
    <3> DEFINE q == Append(box, Sync)
    <3> DEFINE lo == t + 1
    <3>0. lo \in Nat /\ sent \in Nat
      BY <1>2
    <3> HIDE DEF lo
    <3>1. /\ q \in Seq(Nat)
          /\ \A i, j \in 1 .. Len(q) : i < j /\ q[i] # Sync /\ q[j] # Sync => q[i] < q[j]
          /\ \A i \in 1 .. Len(q) : q[i] # Sync => q[i] \in lo .. sent
          /\ \A w \in lo .. sent : \E i \in 1 .. Len(q) : q[i] = w
      <4>1. /\ \A i \in 1 .. Len(box) : box[i] # Sync => box[i] \in lo .. sent
            /\ \A w \in lo .. sent : \E i \in 1 .. Len(box) : box[i] = w
        BY <1>0 DEF lo, Handled
      <4>2. \A i, j \in 1 .. Len(box) : i < j /\ box[i] # Sync /\ box[j] # Sync => box[i] < box[j]
        BY DEF QueueInvariant, Ordered
      <4> QED BY <1>2, <3>0, <4>1, <4>2, AppendSync, Zenon
    <3> HIDE DEF q
    <3> QED BY <2>2, <3>1 DEF Ordered, q, lo
  <2> QED BY <2>1, <2>2 DEF Alarm
<1>4. TypeOK'
  <2>1. sync_active' \in BOOLEAN /\ alarm_set' \in BOOLEAN
    BY DEF Alarm, QueueInvariant, TypeOK
  <2> QED BY <1>3, <2>1 DEF Alarm, QueueInvariant, TypeOK
<1>5. Handled(d, t)' /\ d \in 0 .. sent' /\ t \in d .. sent' /\ (need_sync' <=> d < t)
  BY <1>0, <1>3 DEF Alarm, Handled
<1> QED BY <1>3, <1>4, <1>5 DEF Alarm, QueueInvariant

\* A new actor starts with an empty mailbox on a committed prefix.
LEMMA ReopenStep ==
  ASSUME QueueInvariant, NEW n \in 0 .. sent, Reopen(n), disk' = 1 .. n,
         answered' \subseteq disk'
  PROVE  QueueInvariant'
<1>1. n \in Nat /\ sent' = n /\ box' = <<>> /\ trans' = {} /\ promises' = {} /\ need_sync' = FALSE
  BY SMTT(30) DEF Reopen, QueueInvariant, TypeOK
<1>2. box' \in Seq(Nat) /\ Len(box') = 0
  BY <1>1
<1>3. TypeOK'
  <2>1. disk' \in SUBSET Nat /\ answered' \in SUBSET Nat
    BY <1>1, SMTT(30)
  <2>2. urgent' = {} /\ fails' \in Nat
    BY SMTT(30) DEF Reopen, QueueInvariant, TypeOK
  <2>3. need_sync' \in BOOLEAN /\ sync_active' \in BOOLEAN /\ alarm_set' \in BOOLEAN
    BY DEF Reopen
  <2> QED BY <1>1, <1>2, <2>1, <2>2, <2>3 DEF TypeOK
<1>4. Ordered'
  BY <1>2 DEF Ordered
<1>5. Handled(n, n)'
  BY <1>1, <1>2 DEF Handled
<1> QED BY <1>1, <1>3, <1>4, <1>5 DEF QueueInvariant

\* A killed process keeps the committed prefix.
LEMMA CrashStep ==
  ASSUME QueueInvariant, Crash
  PROVE  QueueInvariant'
<1>1. PICK n \in 0 .. sent : disk = 1 .. n /\ Reopen(n) /\ disk' = disk /\ answered' = answered
  BY DEF Crash
<1>2. disk' = 1 .. n /\ answered' \subseteq disk'
  BY <1>1 DEF QueueInvariant
<1> QED BY <1>1, <1>2, ReopenStep

\* What sync() has committed, and what it has confirmed.
LEMMA CommittedPrefix ==
  ASSUME QueueInvariant
  PROVE  /\ disk \subseteq Committed
         /\ \E t \in 0 .. sent : Committed = 1 .. t
         /\ answered \subseteq Committed
         /\ need_sync => promises \subseteq Committed
<1>1. PICK d \in 0 .. sent : \E t \in d .. sent : Handled(d, t) /\ (need_sync <=> d < t)
  BY DEF QueueInvariant
<1>0. PICK t \in d .. sent : Handled(d, t) /\ (need_sync <=> d < t)
  BY <1>1
<1>2. d \in Nat /\ t \in Nat /\ sent \in Nat /\ d <= t /\ t <= sent
  BY DEF QueueInvariant, TypeOK
<1>3. need_sync => Committed = 1 .. t
  BY <1>0, <1>2, SMTT(30) DEF Committed, Handled
<1>4. ~ need_sync => Committed = 1 .. d
  BY <1>0 DEF Committed, Handled
<1>5. t \in 0 .. sent /\ d \in 0 .. sent
  BY <1>2
<1> QED BY <1>3, <1>4, <1>5 DEF Committed, QueueInvariant

\* tear_down() commits first.
LEMMA TearDownStep ==
  ASSUME QueueInvariant, TearDown
  PROVE  QueueInvariant'
<1>1. PICK n \in 0 .. sent : Committed = 1 .. n /\ Reopen(n)
  BY DEF TearDown
<1>2. disk' = 1 .. n /\ answered' \subseteq disk'
  BY <1>1, CommittedPrefix DEF TearDown
<1> QED BY <1>1, <1>2, ReopenStep

\* The inductive step.
LEMMA NextStep ==
  ASSUME QueueInvariant, [Next]_vars
  PROVE  QueueInvariant'
<1>1. CASE \E u \in BOOLEAN : Send(u)
  BY <1>1, SendStep
<1>2. CASE HandleSet
  BY <1>2, HandleSetStep
<1>3. CASE HandleSync
  BY <1>3, HandleSyncStep
<1>4. CASE Alarm
  BY <1>4, AlarmStep
<1>5. CASE Crash
  BY <1>5, CrashStep
<1>6. CASE TearDown
  BY <1>6, TearDownStep
<1>7. CASE UNCHANGED vars
  <2>1. TypeOK' /\ Ordered'
    BY <1>7 DEF vars, QueueInvariant, TypeOK, Ordered
  <2>2. \A d, t : Handled(d, t)' <=> Handled(d, t)
    BY <1>7 DEF vars, Handled
  <2> QED BY <1>7, <2>1, <2>2 DEF vars, QueueInvariant
<1> QED BY <1>1, <1>2, <1>3, <1>4, <1>5, <1>6, <1>7 DEF Next

\* A fresh database.
LEMMA InitStep ==
  ASSUME Init
  PROVE  QueueInvariant
<1>1. TypeOK /\ Len(box) = 0
  <2>1. box \in Seq(Nat) /\ Len(box) = 0
    BY DEF Init
  <2>2. need_sync \in BOOLEAN /\ sync_active \in BOOLEAN /\ alarm_set \in BOOLEAN
    BY DEF Init
  <2> QED BY <2>1, <2>2 DEF Init, TypeOK
<1>2. Ordered
  BY <1>1 DEF Ordered
<1>3. Handled(0, 0) /\ 0 \in 0 .. sent
  BY <1>1 DEF Init, Handled
<1> QED BY <1>1, <1>2, <1>3 DEF Init, QueueInvariant

\* In every behaviour of the actor, whatever is handled, committed and
\* confirmed is a prefix of what was sent.
THEOREM QueueInvariance == Spec => []QueueInvariant
BY InitStep, NextStep, PTL DEF Spec

-----------------------------------------------------------------------------
\* Every step of the actor is a step of the durable log, or none.
LEMMA StepImplements ==
  ASSUME QueueInvariant, QueueInvariant', [Next]_vars
  PROVE  [Log!Next]_<<sent, disk, answered>>
<1>0. \E d \in 0 .. sent : disk = 1 .. d
  BY DEF QueueInvariant, Handled
<1>1. CASE \E u \in BOOLEAN : Send(u)
  BY <1>1 DEF Send, Log!Next, Log!Write
<1>2. CASE HandleSet
  BY <1>2 DEF HandleSet
<1>3. CASE HandleSync
  <2>1. Log!Prefix(disk', sent) /\ disk \subseteq disk' /\ sent' = sent
    BY <1>3, CommittedPrefix DEF HandleSync, Log!Prefix
  <2>2. answered \subseteq answered' /\ answered' \subseteq disk'
    BY <1>3, CommittedPrefix DEF HandleSync
  <2> QED BY <2>1, <2>2 DEF Log!Next, Log!Commit
<1>4. CASE Alarm
  BY <1>4 DEF Alarm
<1>5. CASE Crash
  <2>1. PICK n \in 0 .. sent : disk = 1 .. n /\ sent' = n /\ disk' = disk /\ answered' = answered
    BY <1>5 DEF Crash, Reopen
  <2>2. Log!Prefix(disk', sent)
    BY <2>1 DEF Log!Prefix
  <2> QED BY <2>1, <2>2 DEF Log!Next, Log!Fail, QueueInvariant
<1>6. CASE TearDown
  <2>1. PICK n \in 0 .. sent : disk' = 1 .. n /\ sent' = n /\ disk' = Committed
    BY <1>6 DEF TearDown, Reopen
  <2>2. Log!Prefix(disk', sent)
    BY <2>1 DEF Log!Prefix
  <2>3. disk \subseteq disk' /\ answered \subseteq answered' /\ answered' \subseteq disk'
    BY <1>6, <2>1, CommittedPrefix DEF TearDown
  <2> QED BY <2>1, <2>2, <2>3 DEF Log!Next, Log!Fail
<1>7. CASE UNCHANGED vars
  BY <1>7 DEF vars
<1> QED BY <1>1, <1>2, <1>3, <1>4, <1>5, <1>6, <1>7 DEF Next

\* The actor implements the durable log: writes become durable in the order
\* in which they were sent, and are confirmed only then.
THEOREM Implementation == Spec => ImplementsDurableLog
<1>1. Init => Log!Init
  BY DEF Init, Log!Init
<1>2. QueueInvariant /\ QueueInvariant' /\ [Next]_vars => [Log!Next]_<<sent, disk, answered>>
  BY StepImplements
<1> QED BY <1>1, <1>2, QueueInvariance, PTL DEF Spec, ImplementsDurableLog, Log!Spec
=============================================================================

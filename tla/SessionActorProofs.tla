------------------------- MODULE SessionActorProofs -------------------------
(***************************************************************************)
(* The record a ValidatorSessionImpl keeps of its round and of its         *)
(* questions is right in any session: RecordIsRight is inductive together  *)
(* with RequestIsHeard.  One lemma per method, then one per handler.       *)
(***************************************************************************)
EXTENDS SessionActor, TLAPS

\* Zenon proves most steps, which are about sets and functions; those that it
\* does not find, arithmetic above all, name SMT.
USE ZenonT(20), SMTT(30)

-----------------------------------------------------------------------------
(* The methods *)

\* What a method leaves alone: fields of the actor before (A) and after (B).
SameRound(A, B) ==
  /\ B.cur_round = A.cur_round /\ B.real = A.real /\ B.virt = A.virt
  /\ B.due = A.due /\ B.chain = A.chain /\ B.abort = A.abort
SameRequests(A, B) ==
  /\ B.requested = A.requested /\ B.requested_now = A.requested_now
  /\ B.force = A.force /\ B.asked = A.asked
SameCandidate(A, B) ==
  /\ B.pending_generate = A.pending_generate /\ B.generated = A.generated
  /\ B.sent_generated = A.sent_generated /\ B.generated_block = A.generated_block
SameVerdicts(A, B) ==
  /\ B.pending_approve = A.pending_approve /\ B.approved = A.approved /\ B.early = A.early
  /\ B.rejected = A.rejected /\ B.pending_reject = A.pending_reject
  /\ B.active_requests = A.active_requests /\ B.blocks = A.blocks /\ B.first = A.first
SameSignature(A, B) ==
  /\ B.pending_sign = A.pending_sign /\ B.signed = A.signed /\ B.signed_block = A.signed_block

\* The types that follow.
LEMMA SameTyped ==
  ASSUME NEW A, NEW B, ActorTyped(A)
  PROVE  /\ SameRound(A, B) => RoundTyped(B)
         /\ SameRequests(A, B) => RequestTyped(B)
         /\ SameCandidate(A, B) => CandidateTyped(B)
         /\ SameVerdicts(A, B) => VerdictsTyped(B)
         /\ SameSignature(A, B) => SignatureTyped(B)
  BY DEF ActorTyped, SameRound, SameRequests, SameCandidate, SameVerdicts, SameSignature,
         RoundTyped, RequestTyped, CandidateTyped, VerdictsTyped, SignatureTyped

\* The session the actor is in.
Session == setup \in Setups /\ dec \in [Round -> Cand \cup {Skip}]

\* What holds of an actor A within a handler, F being the questions on their
\* way already.
Right(A, F) ==
  /\ PendingMatches(A, F \cup A.asks) /\ QuestionsMatch(A, F \cup A.asks) /\ WaitingMatches(A)
Ready(A, F) == ActorTyped(A) /\ F \subseteq Questions /\ Right(A, F) /\ Heard(A)
\* A block asked for since process_blocks() began is made at once.
Forced(A) == A.requested /\ A.chain = "active" => A.force
\* What each check does to an actor that is ready.
Checked(A, B, F) ==
  /\ Ready(B, F) /\ SameRound(A, B)
  /\ Forced(A) => Forced(B)
  /\ VerdictsMatch(A, F \cup A.asks) => VerdictsMatch(B, F \cup B.asks)

LEMMA CheckedTransitive ==
  ASSUME NEW A, NEW B, NEW C, NEW F, Checked(A, B, F), Checked(B, C, F)
  PROVE  Checked(A, C, F)
  BY DEF Checked, SameRound

LEMMA CheckedReflexive ==
  ASSUME NEW A, NEW F, Ready(A, F)
  PROVE  Checked(A, A, F)
  BY DEF Checked, SameRound

\* need_new_block() reaches Catchain and touches nothing else.
LEMMA NeedNewBlockLemma ==
  ASSUME NEW A, ActorTyped(A)
  PROVE  LET B == NeedNewBlock(A)
         IN  /\ ActorTyped(B) /\ SameRound(A, B) /\ SameCandidate(A, B) /\ SameVerdicts(A, B)
             /\ SameSignature(A, B) /\ B.asks = A.asks
             /\ B.requested = A.requested /\ B.requested_now = A.requested_now
             /\ IF A.chain = "active" THEN B.force = TRUE /\ B.asked = A.asked ELSE B.asked = TRUE /\ B.force = A.force
<1> DEFINE B == NeedNewBlock(A)
<1>1. DOMAIN B = Fields /\ DOMAIN A = Fields
  BY DEF NeedNewBlock, ActorTyped
<1>2. SameRound(A, B) /\ B.asks = A.asks
  BY <1>1 DEF NeedNewBlock, SameRound, Fields
<1>3. SameCandidate(A, B) /\ SameSignature(A, B)
  BY <1>1 DEF NeedNewBlock, SameCandidate, SameSignature, Fields
<1>4. SameVerdicts(A, B)
  BY <1>1 DEF NeedNewBlock, SameVerdicts, Fields
<1>5. /\ B.requested = A.requested /\ B.requested_now = A.requested_now
      /\ IF A.chain = "active" THEN B.force = TRUE /\ B.asked = A.asked ELSE B.asked = TRUE /\ B.force = A.force
  BY <1>1 DEF NeedNewBlock, Fields
<1>6. RequestTyped(B)
  BY <1>5 DEF ActorTyped, RequestTyped
<1> HIDE DEF B
<1>7. RoundTyped(B) /\ CandidateTyped(B) /\ VerdictsTyped(B) /\ SignatureTyped(B) /\ B.asks \subseteq Questions
  BY <1>2, <1>3, <1>4 DEF ActorTyped, SameRound, SameCandidate, SameVerdicts, SameSignature,
     RoundTyped, CandidateTyped, VerdictsTyped, SignatureTyped
<1> QED BY <1>1, <1>2, <1>3, <1>4, <1>5, <1>6, <1>7 DEF ActorTyped, B

\* request_new_block(): afterwards there is a request that is heard.
LEMMA RequestLemma ==
  ASSUME NEW A, ActorTyped(A), NEW now \in BOOLEAN, A.requested_now => A.requested
  PROVE  LET B == RequestNewBlock(A, now)
         IN  /\ ActorTyped(B) /\ SameRound(A, B) /\ SameCandidate(A, B) /\ SameVerdicts(A, B)
             /\ SameSignature(A, B) /\ B.asks = A.asks
             /\ B.requested /\ (B.requested_now => B.requested)
             /\ Forced(A) => Forced(B)
             /\ (A.requested => A.chain = "active" \/ A.asked) => B.chain = "active" \/ B.asked
<1> DEFINE B == RequestNewBlock(A, now)
           U == [A EXCEPT !.requested = TRUE, !.requested_now = now]
<1>1. CASE A.requested_now \/ (~ now /\ A.requested)
  <2>1. B = A
    BY <1>1 DEF RequestNewBlock
  <2>2. A.requested
    BY <1>1
  <2> HIDE DEF B
  <2> QED BY <2>1, <2>2 DEF SameRound, SameCandidate, SameVerdicts, SameSignature, B
<1>2. CASE ~ (A.requested_now \/ (~ now /\ A.requested))
  <2>1. B = NeedNewBlock(U)
    BY <1>2 DEF RequestNewBlock
  <2>2. DOMAIN U = Fields /\ DOMAIN A = Fields
    BY DEF ActorTyped
  <2>3. SameRound(A, U) /\ U.asks = A.asks /\ SameCandidate(A, U) /\ SameSignature(A, U)
    BY <2>2 DEF SameRound, SameCandidate, SameSignature, Fields
  <2>4. SameVerdicts(A, U)
    BY <2>2 DEF SameVerdicts, Fields
  <2>5. U.requested = TRUE /\ U.requested_now = now /\ U.force = A.force /\ U.asked = A.asked
    BY <2>2 DEF Fields
  <2>6. ActorTyped(U)
    <3>1. RequestTyped(U)
      BY <2>5 DEF ActorTyped, RequestTyped
    <3> HIDE DEF U
    <3> QED BY <2>2, <2>3, <2>4, <3>1, SameTyped DEF ActorTyped
  <2> HIDE DEF U, B
  <2>7. /\ ActorTyped(B) /\ SameRound(U, B) /\ SameCandidate(U, B) /\ SameVerdicts(U, B)
        /\ SameSignature(U, B) /\ B.asks = U.asks
        /\ B.requested = U.requested /\ B.requested_now = U.requested_now
        /\ IF U.chain = "active" THEN B.force = TRUE /\ B.asked = U.asked ELSE B.asked = TRUE /\ B.force = U.force
    BY <2>1, <2>6, NeedNewBlockLemma
  <2>8. SameRound(A, B) /\ SameCandidate(A, B) /\ SameVerdicts(A, B) /\ SameSignature(A, B) /\ B.asks = A.asks
    BY <2>3, <2>4, <2>7 DEF SameRound, SameCandidate, SameVerdicts, SameSignature
  <2>9. Forced(B) /\ (B.chain = "active" \/ B.asked) /\ B.requested
    BY <2>5, <2>7 DEF Forced, SameRound
  <2> QED BY <2>7, <2>8, <2>9 DEF B
<1> QED BY <1>1, <1>2

\* Where nothing but the request has changed, what was right is right.
LEMMA SameRight ==
  ASSUME NEW A, NEW B, NEW F, Right(A, F), B.requested_now => B.requested,
         SameRound(A, B), SameCandidate(A, B), SameVerdicts(A, B), SameSignature(A, B), B.asks = A.asks
  PROVE  /\ Right(B, F)
         /\ VerdictsMatch(A, F \cup A.asks) => VerdictsMatch(B, F \cup B.asks)
  BY DEF Right, PendingMatches, QuestionsMatch, WaitingMatches, VerdictsMatch,
         SameRound, SameCandidate, SameVerdicts, SameSignature

\* request_new_block() among the checks.
LEMMA RequestChecked ==
  ASSUME NEW A, NEW F, Ready(A, F), NEW now \in BOOLEAN
  PROVE  Checked(A, RequestNewBlock(A, now), F)
<1> DEFINE B == RequestNewBlock(A, now)
<1>1. ActorTyped(A) /\ (A.requested_now => A.requested) /\ (A.requested => A.chain = "active" \/ A.asked)
  BY DEF Ready, Right, WaitingMatches, Heard
<1>2. /\ ActorTyped(B) /\ SameRound(A, B) /\ SameCandidate(A, B) /\ SameVerdicts(A, B)
      /\ SameSignature(A, B) /\ B.asks = A.asks
      /\ B.requested /\ (B.requested_now => B.requested)
      /\ Forced(A) => Forced(B)
      /\ B.chain = "active" \/ B.asked
  BY <1>1, RequestLemma
<1> HIDE DEF B
<1>3. Right(B, F) /\ (VerdictsMatch(A, F \cup A.asks) => VerdictsMatch(B, F \cup B.asks))
  BY <1>2, SameRight DEF Ready
<1>4. Heard(B)
  BY <1>2 DEF Heard
<1> QED BY <1>2, <1>3, <1>4 DEF Ready, Checked, B

\* check_sign_slot()
LEMMA CheckSignSlotLemma ==
  ASSUME Session, NEW A, NEW F, Ready(A, F)
  PROVE  Checked(A, CheckSignSlot(A), F)
<1> DEFINE r == A.cur_round
<1>0. ActorTyped(A) /\ Right(A, F) /\ r \in Round /\ dec[r] \in Cand \cup {Skip} /\ A.pending_sign \in BOOLEAN
      /\ A.signed \in BOOLEAN /\ A.signed_block \in Cand \cup {Skip}
  BY DEF Session, Ready, ActorTyped, RoundTyped, SignatureTyped
<1>1. CASE A.pending_sign
  BY <1>1, CheckedReflexive DEF CheckSignSlot
<1>2. CASE ~ A.pending_sign /\ Says(A.real, "commit") # {}
  <2> DEFINE B == [A EXCEPT !.signed = TRUE]
  <2>1. DOMAIN B = Fields /\ DOMAIN A = Fields
    BY <1>0 DEF ActorTyped
  <2>2. /\ SameRound(A, B) /\ SameRequests(A, B) /\ SameCandidate(A, B)
        /\ SameVerdicts(A, B) /\ B.asks = A.asks
        /\ B.pending_sign = A.pending_sign /\ B.signed = TRUE /\ B.signed_block = A.signed_block
    <3>1. SameRound(A, B) /\ SameRequests(A, B) /\ SameCandidate(A, B)
      BY <2>1 DEF SameRound, SameRequests, SameCandidate, Fields
    <3>2. SameVerdicts(A, B)
      BY <2>1 DEF SameVerdicts, Fields
    <3>3. B.asks = A.asks /\ B.pending_sign = A.pending_sign /\ B.signed = TRUE /\ B.signed_block = A.signed_block
      BY <2>1 DEF Fields
    <3> QED BY <3>1, <3>2, <3>3
  <2> HIDE DEF B
  <2>t. ActorTyped(B)
    <3>1. SignatureTyped(B) /\ B.asks \subseteq Questions
      BY <1>0, <2>2 DEF SignatureTyped, ActorTyped
    <3> QED BY <1>0, <2>1, <2>2, <3>1, SameTyped DEF ActorTyped
  <2>3. Ready(B, F)
    <3>1. PendingMatches(B, F \cup B.asks) /\ QuestionsMatch(B, F \cup B.asks)
      BY <2>2 DEF Ready, Right, PendingMatches, QuestionsMatch, SameRound, SameCandidate, SameVerdicts
    <3>2. WaitingMatches(B)
      BY <1>2, <2>2 DEF Ready, Right, WaitingMatches, SameRound, SameCandidate, SameVerdicts, SameRequests
    <3>3. Heard(B)
      BY <1>2, <2>2 DEF Ready, Heard, ToSign, SameRound, SameCandidate, SameRequests
    <3> QED BY <2>2, <2>t, <3>1, <3>2, <3>3 DEF Ready, Right
  <2>4. Checked(A, B, F)
    BY <2>2, <2>3 DEF Checked, Forced, VerdictsMatch, SameRound, SameRequests, SameVerdicts
  <2> QED BY <1>2, <2>4 DEF CheckSignSlot, B
<1>3. CASE ~ A.pending_sign /\ Says(A.real, "commit") = {} /\ A.signed
  BY <1>3, RequestChecked DEF CheckSignSlot
<1>4. CASE ~ A.pending_sign /\ Says(A.real, "commit") = {} /\ ~ A.signed /\ ~ ToSign(A.virt)
  BY <1>4, CheckedReflexive DEF CheckSignSlot
<1>5. CASE /\ ~ A.pending_sign /\ Says(A.real, "commit") = {} /\ ~ A.signed /\ ToSign(A.virt)
           /\ dec[r] = Skip
  <2> DEFINE B == [A EXCEPT !.signed = TRUE, !.signed_block = Skip]
             C == RequestNewBlock(B, FALSE)
  <2>1. DOMAIN B = Fields /\ DOMAIN A = Fields
    BY <1>0 DEF ActorTyped
  <2>2. /\ SameRound(A, B) /\ SameRequests(A, B) /\ SameCandidate(A, B)
        /\ SameVerdicts(A, B) /\ B.asks = A.asks
        /\ B.pending_sign = A.pending_sign /\ B.signed = TRUE /\ B.signed_block = Skip
    <3>1. SameRound(A, B) /\ SameRequests(A, B) /\ SameCandidate(A, B)
      BY <2>1 DEF SameRound, SameRequests, SameCandidate, Fields
    <3>2. SameVerdicts(A, B)
      BY <2>1 DEF SameVerdicts, Fields
    <3>3. B.asks = A.asks /\ B.pending_sign = A.pending_sign /\ B.signed = TRUE /\ B.signed_block = Skip
      BY <2>1 DEF Fields
    <3> QED BY <3>1, <3>2, <3>3
  <2> HIDE DEF B
  <2>t. ActorTyped(B)
    <3>1. SignatureTyped(B) /\ B.asks \subseteq Questions
      BY <1>0, <2>2 DEF SignatureTyped, ActorTyped
    <3> QED BY <1>0, <2>1, <2>2, <3>1, SameTyped DEF ActorTyped
  <2>3. Right(B, F)
    <3>1. PendingMatches(B, F \cup B.asks) /\ QuestionsMatch(B, F \cup B.asks)
      BY <2>2, SMTT(30) DEF Ready, Right, PendingMatches, QuestionsMatch, SameRound, SameCandidate, SameVerdicts
    <3>2. WaitingMatches(B)
      BY <1>5, <2>2 DEF Ready, Right, WaitingMatches, SameRound, SameCandidate, SameVerdicts, SameRequests
    <3> QED BY <3>1, <3>2 DEF Right
  <2>4. VerdictsMatch(A, F \cup A.asks) => VerdictsMatch(B, F \cup B.asks)
    BY <2>2 DEF VerdictsMatch, SameRound, SameVerdicts
  <2>5. /\ ActorTyped(C) /\ SameRound(B, C) /\ SameCandidate(B, C) /\ SameVerdicts(B, C)
        /\ SameSignature(B, C) /\ C.asks = B.asks
        /\ C.requested /\ (C.requested_now => C.requested)
        /\ Forced(B) => Forced(C)
        /\ (B.requested => B.chain = "active" \/ B.asked) => C.chain = "active" \/ C.asked
    <3>1. B.requested_now => B.requested
      BY <2>3 DEF Right, WaitingMatches
    <3> QED BY <2>t, <3>1, RequestLemma
  <2> HIDE DEF C
  <2>6. Right(C, F) /\ (VerdictsMatch(B, F \cup B.asks) => VerdictsMatch(C, F \cup C.asks))
    BY <2>3, <2>5, SameRight
  <2>7. Heard(C)
    BY <2>2, <2>5 DEF Heard, Ready, SameRound, SameRequests
  <2>8. Forced(A) => Forced(C)
    BY <2>2, <2>5 DEF Forced, SameRound, SameRequests
  <2>9. Checked(A, C, F)
    BY <2>2, <2>4, <2>5, <2>6, <2>7, <2>8 DEF Checked, Ready, SameRound
  <2> QED BY <1>5, <2>9 DEF CheckSignSlot, B, C
<1>6. CASE /\ ~ A.pending_sign /\ Says(A.real, "commit") = {} /\ ~ A.signed /\ ToSign(A.virt)
           /\ dec[r] # Skip
  <2> DEFINE q == <<"sign", r, dec[r]>>
             B == Ask([A EXCEPT !.pending_sign = TRUE], "sign", dec[r])
  <2>0. dec[r] \in Cand /\ q \in Questions
    BY <1>0, <1>6 DEF Questions
  <2>1. DOMAIN B = Fields /\ DOMAIN A = Fields
    BY <1>0 DEF ActorTyped, Ask
  <2>2. /\ SameRound(A, B) /\ SameRequests(A, B) /\ SameCandidate(A, B)
        /\ SameVerdicts(A, B) /\ B.asks = A.asks \cup {q}
        /\ B.pending_sign = TRUE /\ B.signed = A.signed /\ B.signed_block = A.signed_block
    <3>1. SameRound(A, B) /\ SameRequests(A, B) /\ SameCandidate(A, B)
      BY <2>1 DEF SameRound, SameRequests, SameCandidate, Fields, Ask
    <3>2. SameVerdicts(A, B)
      BY <2>1 DEF SameVerdicts, Fields, Ask
    <3>3. B.asks = A.asks \cup {q} /\ B.pending_sign = TRUE /\ B.signed = A.signed /\ B.signed_block = A.signed_block
      BY <2>1 DEF Fields, Ask
    <3> QED BY <3>1, <3>2, <3>3
  <2> HIDE DEF B
  <2>t. ActorTyped(B)
    <3>1. SignatureTyped(B) /\ B.asks \subseteq Questions
      BY <1>0, <2>2, <2>0 DEF SignatureTyped, ActorTyped
    <3> QED BY <1>0, <2>1, <2>2, <3>1, SameTyped DEF ActorTyped
  <2>3. PendingMatches(B, F \cup B.asks)
    BY <2>0, <2>2, SMTT(30) DEF Ready, Right, PendingMatches, SameRound, SameVerdicts
  <2>4. QuestionsMatch(B, F \cup B.asks)
    <3>1. q[1] = "sign" /\ q[2] = r /\ q[3] = dec[r] /\ r <= r
      BY <1>0 DEF Round
    <3>2. <<"generate", r, None>> # q
      OBVIOUS
    <3> QED BY <2>2, <3>1, <3>2 DEF Ready, Right, QuestionsMatch, SameRound, SameCandidate
  <2>5. WaitingMatches(B) /\ Heard(B)
    BY <2>2 DEF Ready, Right, WaitingMatches, Heard, SameRound, SameCandidate, SameVerdicts, SameRequests
  <2>6. VerdictsMatch(A, F \cup A.asks) => VerdictsMatch(B, F \cup B.asks)
    BY <2>2, SMTT(30) DEF VerdictsMatch, SameRound, SameVerdicts
  <2>7. Checked(A, B, F)
    BY <2>2, <2>t, <2>3, <2>4, <2>5, <2>6 DEF Checked, Ready, Right, Forced, SameRound, SameRequests
  <2> QED BY <1>6, <2>7 DEF CheckSignSlot, B
<1> QED BY <1>1, <1>2, <1>3, <1>4, <1>5, <1>6

\* The later of two rounds.
LEMMA MaxOfTwo ==
  ASSUME NEW a \in Round, NEW b \in Round
  PROVE  Max({a, b}) \in Round /\ a <= Max({a, b}) /\ b <= Max({a, b})
<1>1. \E x \in {a, b} : \A y \in {a, b} : x >= y
  <2>1. CASE a >= b
    BY <2>1, SMTT(30) DEF Round
  <2>2. CASE ~ (a >= b)
    BY <2>2, SMTT(30) DEF Round
  <2> QED BY <2>1, <2>2
<1>2. Max({a, b}) \in {a, b} /\ \A y \in {a, b} : Max({a, b}) >= y
  BY <1>1, Zenon DEF Max
<1> QED BY <1>2 DEF Round

\* try_approve_block() for some candidates.
LEMMA TryApproveBlocksLemma ==
  ASSUME Session, NEW A, NEW F, Ready(A, F), NEW C \in SUBSET Cand
  PROVE  Checked(A, TryApproveBlocks(A, C), F)
<1> DEFINE r == A.cur_round
           open == Open(A, C)
           local == open \cap DOMAIN A.blocks
           get == Missing(A, C)
           Q == ({"validate"} \X {r} \X local) \cup ({"get"} \X {r} \X get)
           newer == [c \in DOMAIN A.blocks |-> IF c \in local THEN Max({A.blocks[c], r}) ELSE A.blocks[c]]
           U == [A EXCEPT !.first = @ \cup (open \X {r}),
                          !.pending_approve = @ \cup local,
                          !.blocks = newer,
                          !.active_requests = @ \cup get,
                          !.asks = @ \cup ({"validate"} \X {r} \X local) \cup ({"get"} \X {r} \X get)]
<1>1. /\ ActorTyped(A) /\ DOMAIN A = Fields /\ r \in Round
      /\ VerdictsTyped(A)
  BY DEF Ready, ActorTyped, RoundTyped
<1>2. open \subseteq C /\ local \subseteq Cand /\ get \subseteq Cand
  BY DEF Open, Missing
<1>3. newer \in [DOMAIN A.blocks -> Round] /\ \A c \in DOMAIN A.blocks : A.blocks[c] <= newer[c]
                                          /\ (c \in local => r <= newer[c])
  <2> SUFFICES ASSUME NEW c \in DOMAIN A.blocks
               PROVE  newer[c] \in Round /\ A.blocks[c] <= newer[c] /\ (c \in local => r <= newer[c])
    OBVIOUS
  <2>1. A.blocks[c] \in Round
    BY <1>1 DEF VerdictsTyped
  <2>2. CASE c \in local
    BY <1>1, <2>1, <2>2, MaxOfTwo
  <2>3. CASE c \notin local
    BY <2>1, <2>3, SMTT(30) DEF Round
  <2> QED BY <2>2, <2>3
<1> HIDE DEF open, local, get, newer
<1>4. DOMAIN U = Fields
  BY <1>1
<1>5. SameRound(A, U) /\ SameRequests(A, U) /\ SameCandidate(A, U) /\ SameSignature(A, U)
  BY <1>1 DEF SameRound, SameRequests, SameCandidate, SameSignature, Fields
<1>6. /\ U.approved = A.approved /\ U.early = A.early /\ U.rejected = A.rejected
      /\ U.pending_reject = A.pending_reject
      /\ U.pending_approve = A.pending_approve \cup local
      /\ U.active_requests = A.active_requests \cup get
      /\ U.blocks = newer /\ U.first = A.first \cup (open \X {r})
      /\ U.asks = A.asks \cup Q
  BY <1>1 DEF Fields
<1> HIDE DEF U
<1>7. ActorTyped(U)
  <2>1. VerdictsTyped(U)
    BY <1>1, <1>2, <1>3, <1>6 DEF VerdictsTyped
  <2>2. U.asks \subseteq Questions
    <3>1. Q \subseteq Questions
      BY <1>1, <1>2 DEF Questions
    <3> QED BY <1>1, <1>6, <3>1 DEF ActorTyped
  <2> QED BY <1>1, <1>4, <1>5, <2>1, <2>2, SameTyped DEF ActorTyped
<1>8. \A q \in Q : q \in Questions /\ q[1] \in {"validate", "get"} /\ q[2] = r
  BY <1>1, <1>2 DEF Questions
<1>9. PendingMatches(U, F \cup U.asks)
  <2>1. \A c \in Cand : <<"sign", r, c>> \notin Q
    BY <1>8
  <2>2. \A c \in Cand : <<"get", r, c>> \in Q <=> c \in get
    OBVIOUS
  <2>3. \A c \in local : <<"validate", r, c>> \in Q
    OBVIOUS
  <2> HIDE DEF Q
  <2>4. F \cup U.asks = (F \cup A.asks) \cup Q /\ U.cur_round = r /\ PendingMatches(A, F \cup A.asks)
    BY <1>5, <1>6 DEF Ready, Right, SameRound
  <2>5. U.pending_sign <=> \E c \in Cand : <<"sign", r, c>> \in F \cup U.asks
    BY <1>5, <2>1, <2>4 DEF PendingMatches, SameSignature
  <2>6. \A c \in Cand : c \in U.active_requests <=> <<"get", r, c>> \in F \cup U.asks
    BY <1>6, <2>2, <2>4 DEF PendingMatches
  <2>7. \A c \in U.pending_approve :
          {<<"validate", r, c>>, <<"approve", r, c>>} \cap (F \cup U.asks) # {}
    <3> TAKE c \in U.pending_approve
    <3>1. CASE c \in local
      <4> HIDE DEF r
      <4> QED BY <2>3, <2>4, <3>1
    <3>2. CASE c \in A.pending_approve
      <4>1. {<<"validate", r, c>>, <<"approve", r, c>>} \cap (F \cup A.asks) # {}
        BY <2>4, <3>2 DEF PendingMatches
      <4> HIDE DEF r
      <4> QED BY <2>4, <4>1
    <3> QED BY <1>6, <3>1, <3>2
  <2> QED BY <2>4, <2>5, <2>6, <2>7 DEF PendingMatches
<1>10. QuestionsMatch(U, F \cup U.asks)
  <2>1. \A q \in Q : q[2] <= r /\ q[1] # "sign"
    BY <1>1, <1>8 DEF Round
  <2>2. <<"generate", r, None>> \notin Q
    BY <1>8
  <2> HIDE DEF Q
  <2> QED BY <1>5, <1>6, <2>1, <2>2 DEF Ready, Right, QuestionsMatch, SameRound, SameCandidate
<1>11. WaitingMatches(U) /\ Heard(U)
  <2>1. DOMAIN U.blocks = DOMAIN A.blocks
    BY <1>3, <1>6
  <2> QED BY <1>5, <2>1 DEF Ready, Right, WaitingMatches, Heard, SameRound, SameCandidate, SameSignature, SameRequests
<1>12. ASSUME VerdictsMatch(A, F \cup A.asks)
       PROVE  VerdictsMatch(U, F \cup U.asks)
  <2>1. DOMAIN U.blocks = DOMAIN A.blocks
    BY <1>3, <1>6
  <2>2. local \subseteq DOMAIN A.blocks
    BY DEF local
  <2>3. U.pending_approve \cup (U.approved \ {Skip}) \cup U.pending_reject \cup U.rejected \subseteq DOMAIN U.blocks
    BY <1>6, <1>12, <2>1, <2>2 DEF VerdictsMatch
  <2>4. ASSUME NEW q \in F \cup U.asks, q[1] \in {"validate", "approve"}, r <= q[2] + MaxPast
        PROVE  q[3] \in DOMAIN A.blocks /\ q[2] <= newer[q[3]]
    <3>1. CASE q \in F \cup A.asks
      <4>1. q[3] \in DOMAIN A.blocks /\ q[2] <= A.blocks[q[3]]
        BY <1>12, <2>4, <3>1 DEF VerdictsMatch
      <4>2. A.blocks[q[3]] <= newer[q[3]] /\ A.blocks[q[3]] \in Round /\ newer[q[3]] \in Round /\ q[2] \in Round
        BY <1>1, <1>3, <3>1, <4>1 DEF VerdictsTyped, Ready, Questions, ActorTyped
      <4> QED BY <4>1, <4>2 DEF Round
    <3>2. CASE q \in Q
      <4>1. q \in {"validate"} \X {r} \X local
        BY <2>4, <3>2
      <4>2. q[2] = r /\ q[3] \in local
        BY <4>1
      <4> QED BY <1>3, <2>2, <4>2
    <3> QED BY <1>6, <3>1, <3>2
  <2> QED BY <1>5, <1>6, <2>1, <2>3, <2>4 DEF VerdictsMatch, SameRound
<1>13. Checked(A, U, F)
  BY <1>5, <1>7, <1>9, <1>10, <1>11, <1>12 DEF Checked, Ready, Right, Forced, SameRound, SameRequests
<1>14. TryApproveBlocks(A, C) = IF (C \cap A.approved) \ A.early # {} THEN RequestNewBlock(U, FALSE) ELSE U
  BY DEF TryApproveBlocks, U, newer, local, get, open
<1>15. Checked(U, RequestNewBlock(U, FALSE), F)
  BY <1>13, RequestChecked DEF Checked
<1> QED BY <1>13, <1>14, <1>15, CheckedTransitive

\* try_approve_block() for the null candidate.
LEMMA TryApproveSkipLemma ==
  ASSUME NEW A, NEW F, Ready(A, F)
  PROVE  Checked(A, TryApproveSkip(A), F)
<1> DEFINE B == [A EXCEPT !.approved = @ \cup {Skip}]
<1>1. ActorTyped(A) /\ DOMAIN A = Fields /\ DOMAIN B = Fields
  BY DEF Ready, ActorTyped
<1>2. SameRound(A, B) /\ SameRequests(A, B) /\ SameCandidate(A, B) /\ SameSignature(A, B) /\ B.asks = A.asks
  BY <1>1 DEF SameRound, SameRequests, SameCandidate, SameSignature, Fields
<1>3. /\ B.approved = A.approved \cup {Skip} /\ B.early = A.early /\ B.rejected = A.rejected
      /\ B.pending_reject = A.pending_reject /\ B.pending_approve = A.pending_approve
      /\ B.active_requests = A.active_requests /\ B.blocks = A.blocks /\ B.first = A.first
  BY <1>1 DEF Fields
<1> HIDE DEF B
<1>4. VerdictsTyped(B)
  BY <1>1, <1>3 DEF ActorTyped, VerdictsTyped
<1>5. ActorTyped(B)
  BY <1>1, <1>2, <1>4, SameTyped DEF ActorTyped
<1>6. Right(B, F) /\ Heard(B)
  BY <1>2, <1>3, SMTT(30) DEF Ready, Right, PendingMatches, QuestionsMatch, WaitingMatches, Heard,
                    SameRound, SameRequests, SameCandidate, SameSignature
<1>7. VerdictsMatch(A, F \cup A.asks) => VerdictsMatch(B, F \cup B.asks)
  BY <1>2, <1>3 DEF VerdictsMatch, SameRound
<1>8. Checked(A, B, F)
  BY <1>2, <1>5, <1>6, <1>7 DEF Checked, Ready, Forced, SameRound, SameRequests
<1>9. Checked(A, RequestNewBlock(A, FALSE), F) /\ Checked(A, A, F)
  BY RequestChecked, CheckedReflexive
<1>10. Checked(B, RequestNewBlock(B, FALSE), F)
  BY <1>8, RequestChecked DEF Checked
<1>11. Checked(A, RequestNewBlock(B, FALSE), F)
  BY <1>8, <1>10, CheckedTransitive
<1> QED BY <1>9, <1>11 DEF TryApproveSkip, B

\* check_approve()
LEMMA CheckApproveLemma ==
  ASSUME Session, NEW A, NEW F, Ready(A, F)
  PROVE  Checked(A, CheckApprove(A), F)
<1> DEFINE C == ToApprove(A.virt)
           B == TryApproveBlocks(A, C \ {Skip})
<1>1. C \ {Skip} \in SUBSET Cand
  BY DEF ToApprove, Ready, ActorTyped, RoundTyped, States
<1>2. Checked(A, B, F)
  BY <1>1, TryApproveBlocksLemma
<1> HIDE DEF B
<1>3. Checked(B, TryApproveSkip(B), F)
  BY <1>2, TryApproveSkipLemma DEF Checked
<1>4. Checked(A, TryApproveSkip(B), F)
  BY <1>2, <1>3, CheckedTransitive
<1> QED BY <1>2, <1>4 DEF CheckApprove, B

\* check_generate_slot()
LEMMA CheckGenerateSlotLemma ==
  ASSUME NEW A, NEW F, Ready(A, F)
  PROVE  Checked(A, CheckGenerateSlot(A), F)
<1>0. ActorTyped(A) /\ DOMAIN A = Fields /\ A.cur_round \in Round
  BY DEF Ready, ActorTyped, RoundTyped
<1>1. CASE A.generated \/ A.pending_generate
  BY <1>1, CheckedReflexive DEF CheckGenerateSlot
<1>2. CASE ~ (A.generated \/ A.pending_generate) /\ Says(A.real, "submit") # {}
  <2> DEFINE B == [A EXCEPT !.generated = TRUE, !.sent_generated = TRUE]
  <2>1. DOMAIN B = Fields
    BY <1>0
  <2>2. SameRound(A, B) /\ SameRequests(A, B) /\ SameSignature(A, B) /\ B.asks = A.asks
    BY <1>0 DEF SameRound, SameRequests, SameSignature, Fields
  <2>3. SameVerdicts(A, B)
    BY <1>0 DEF SameVerdicts, Fields
  <2>4. /\ B.generated = TRUE /\ B.sent_generated = TRUE
        /\ B.pending_generate = A.pending_generate /\ B.generated_block = A.generated_block
    BY <1>0 DEF Fields
  <2> HIDE DEF B
  <2>5. ActorTyped(B)
    <3>1. CandidateTyped(B)
      BY <1>0, <2>4 DEF ActorTyped, CandidateTyped
    <3> QED BY <1>0, <2>1, <2>2, <2>3, <3>1, SameTyped DEF ActorTyped
  <2>6. Right(B, F)
    BY <1>2, <2>2, <2>3, <2>4 DEF Ready, Right, PendingMatches, QuestionsMatch, WaitingMatches,
                            SameRound, SameRequests, SameVerdicts, SameSignature
  <2>7. Heard(B)
    BY <2>2, <2>4 DEF Ready, Heard, SameRound, SameRequests, SameSignature
  <2>8. Checked(A, B, F)
    BY <2>2, <2>3, <2>5, <2>6, <2>7 DEF Checked, Ready, Forced, VerdictsMatch, SameRound, SameRequests, SameVerdicts
  <2> QED BY <1>2, <2>8 DEF CheckGenerateSlot, B
<1>3. CASE /\ ~ (A.generated \/ A.pending_generate) /\ Says(A.real, "submit") = {}
           /\ Own # {} /\ "slot" \in A.due
  <2> DEFINE q == <<"generate", A.cur_round, None>>
             B == Ask([A EXCEPT !.pending_generate = TRUE], "generate", None)
  <2>1. DOMAIN B = Fields
    BY <1>0 DEF Ask
  <2>2. SameRound(A, B) /\ SameRequests(A, B) /\ SameSignature(A, B) /\ B.asks = A.asks \cup {q}
    BY <1>0 DEF SameRound, SameRequests, SameSignature, Fields, Ask
  <2>3. SameVerdicts(A, B)
    BY <1>0 DEF SameVerdicts, Fields, Ask
  <2>4. /\ B.generated = A.generated /\ B.sent_generated = A.sent_generated
        /\ B.pending_generate = TRUE /\ B.generated_block = A.generated_block
    BY <1>0 DEF Fields, Ask
  <2> HIDE DEF B
  <2>5. ActorTyped(B)
    <3>1. CandidateTyped(B)
      BY <1>0, <2>4 DEF ActorTyped, CandidateTyped
    <3>2. B.asks \subseteq Questions
      BY <1>0, <2>2, SMTT(30) DEF ActorTyped, Questions
    <3> QED BY <1>0, <2>1, <2>2, <2>3, <3>1, <3>2, SameTyped DEF ActorTyped
  <2>6. \A c : <<"sign", A.cur_round, c>> # q /\ <<"get", A.cur_round, c>> # q
    OBVIOUS
  <2>7. q[1] = "generate" /\ q[2] = A.cur_round /\ A.cur_round <= A.cur_round
    BY <1>0 DEF Round
  <2> HIDE DEF q
  <2>8. PendingMatches(B, F \cup B.asks)
    BY <2>2, <2>3, <2>6, SMTT(30) DEF Ready, Right, PendingMatches, SameRound, SameVerdicts, SameSignature
  <2>9. QuestionsMatch(B, F \cup B.asks)
    BY <1>3, <2>2, <2>4, <2>7 DEF Ready, Right, QuestionsMatch, SameRound
  <2>10. WaitingMatches(B) /\ Heard(B)
    BY <2>2, <2>3, <2>4 DEF Ready, Right, WaitingMatches, Heard, SameRound, SameRequests, SameVerdicts, SameSignature
  <2>11. VerdictsMatch(A, F \cup A.asks) => VerdictsMatch(B, F \cup B.asks)
    BY <2>2, <2>3, <2>7 DEF VerdictsMatch, SameRound, SameVerdicts
  <2>12. Checked(A, B, F)
    BY <2>2, <2>5, <2>8, <2>9, <2>10, <2>11 DEF Checked, Ready, Right, Forced, SameRound, SameRequests
  <2> QED BY <1>3, <2>12 DEF CheckGenerateSlot, B
<1>4. CASE /\ ~ (A.generated \/ A.pending_generate) /\ Says(A.real, "submit") = {}
           /\ ~ (Own # {} /\ "slot" \in A.due)
  BY <1>4, CheckedReflexive DEF CheckGenerateSlot
<1> QED BY <1>1, <1>2, <1>3, <1>4

\* check_all(): whatever it finds to do, the record stays right.
LEMMA CheckAllLemma ==
  ASSUME Session, NEW A, NEW F, Ready(A, F), NEW vote
  PROVE  Checked(A, CheckAll(A, vote), F)
<1> DEFINE B == CheckSignSlot(A)
           C == CheckApprove(B)
           D == CheckGenerateSlot(C)
           E == CheckAction(D, vote)
<1>1. Checked(A, B, F)
  BY CheckSignSlotLemma
<1>2. Checked(B, C, F)
  BY <1>1, CheckApproveLemma DEF Checked
<1>3. Checked(C, D, F)
  BY <1>2, CheckGenerateSlotLemma DEF Checked
<1>4. Checked(D, E, F)
  BY <1>3, RequestChecked, CheckedReflexive DEF Checked, CheckAction
<1> HIDE DEF B, C, D, E
<1>5. Checked(A, E, F)
  BY <1>1, <1>2, <1>3, <1>4, CheckedTransitive
<1>6. Checked(A, RequestNewBlock(A, FALSE), F)
  BY RequestChecked
<1> QED BY <1>5, <1>6 DEF CheckAll, B, C, D, E

-----------------------------------------------------------------------------
(* A new round *)

\* No question of F is about a round after that of A.
Known(A, F) == \A q \in F : q[2] <= A.cur_round /\ (q[1] = "sign" => q[3] = dec[q[2]])

\* on_new_round(): the record of the old round is dropped, and the questions
\* asked in it are of no round that this one could be confused with.
LEMMA OnNewRoundLemma ==
  ASSUME Session, NEW A, NEW F, ActorTyped(A), F \subseteq Questions, NEW vote,
         A.real.round > A.cur_round, Known(A, F \cup A.asks),
         A.requested_now => A.requested, A.requested => A.chain = "active" \/ A.asked
  PROVE  LET B == OnNewRound(A, vote)
         IN  /\ Ready(B, F)
             /\ B.cur_round = A.real.round /\ B.real = A.real /\ B.virt = A.virt
             /\ B.chain = A.chain /\ B.abort = A.abort
             /\ Forced(A) => Forced(B)
             /\ VerdictsMatch(A, F \cup A.asks) => VerdictsMatch(B, F \cup B.asks)
<1> DEFINE r == A.real.round
           X == ResetRound(A)
           old == [c \in Kept(A, r) |-> A.blocks[c]]
           N == [X EXCEPT !.cur_round = r, !.due = {}, !.blocks = old, !.abort = @ \/ A.cur_round >= r]
<1>1. /\ DOMAIN A = Fields /\ A.cur_round \in Round /\ r \in Round /\ A.abort \in BOOLEAN
      /\ A.real \in States /\ A.virt \in States /\ VerdictsTyped(A) /\ A.asks \subseteq Questions
  BY DEF ActorTyped, RoundTyped, States
<1>2. DOMAIN X = Fields
  BY <1>1 DEF ResetRound
<1>3. SameRound(A, X) /\ SameRequests(A, X) /\ X.asks = A.asks
  BY <1>1 DEF SameRound, SameRequests, ResetRound, Fields
<1>4. /\ X.blocks = A.blocks /\ X.first = A.first /\ X.active_requests = {}
      /\ X.pending_approve = {} /\ X.approved = {} /\ X.early = {} /\ X.rejected = {} /\ X.pending_reject = {}
  BY <1>1 DEF ResetRound, Fields
<1>5. /\ X.pending_generate = FALSE /\ X.generated = FALSE /\ X.sent_generated = FALSE
      /\ X.generated_block = A.generated_block
      /\ X.pending_sign = FALSE /\ X.signed = FALSE /\ X.signed_block = Skip
  BY <1>1 DEF ResetRound, Fields
<1> HIDE DEF X, old
<1>6. DOMAIN N = Fields
  BY <1>2
<1>7. SameRequests(X, N) /\ SameCandidate(X, N) /\ SameSignature(X, N)
  BY <1>2 DEF SameRequests, SameCandidate, SameSignature, Fields
<1>8. /\ N.blocks = old /\ N.first = X.first /\ N.active_requests = X.active_requests
      /\ N.pending_approve = X.pending_approve /\ N.approved = X.approved /\ N.early = X.early
      /\ N.rejected = X.rejected /\ N.pending_reject = X.pending_reject
  BY <1>2 DEF Fields
<1>9. /\ N.cur_round = r /\ N.real = X.real /\ N.virt = X.virt /\ N.due = {} /\ N.chain = X.chain
      /\ N.asks = X.asks
  BY <1>2 DEF Fields
<1>10. N.abort = A.abort
  <2>1. N.abort = (X.abort \/ A.cur_round >= r)
    BY <1>2 DEF Fields
  <2>2. ~ (A.cur_round >= r) /\ X.abort = A.abort
    BY <1>1, <1>3 DEF SameRound, Round
  <2> QED BY <1>1, <2>1, <2>2
<1> HIDE DEF N
<1>11. DOMAIN old \subseteq DOMAIN A.blocks /\ old \in [DOMAIN old -> Round]
       /\ \A c \in DOMAIN A.blocks : A.blocks[c] + MaxPast >= r => c \in DOMAIN old /\ old[c] = A.blocks[c]
  BY <1>1 DEF old, Kept, VerdictsTyped
<1>12. ActorTyped(N)
  <2>1. RoundTyped(N)
    BY <1>1, <1>3, <1>9, <1>10 DEF RoundTyped, ActorTyped, SameRound
  <2>2. RequestTyped(N)
    BY <1>3, <1>7 DEF ActorTyped, RequestTyped, SameRequests
  <2>3. CandidateTyped(N) /\ SignatureTyped(N)
    BY <1>5, <1>7 DEF ActorTyped, CandidateTyped, SignatureTyped, SameCandidate, SameSignature
  <2>4. VerdictsTyped(N)
    BY <1>1, <1>4, <1>8, <1>11 DEF VerdictsTyped
  <2> QED BY <1>1, <1>3, <1>6, <1>9, <2>1, <2>2, <2>3, <2>4 DEF ActorTyped
<1>13. N.asks = A.asks /\ \A q \in F \cup A.asks : q[2] < r /\ q[2] \in Round /\ (q[1] = "sign" => q[3] = dec[q[2]])
  BY <1>1, <1>3, <1>9, SMTT(30) DEF Known, Questions, Round
<1>14. \A k, c : <<k, r, c>> \notin F \cup A.asks
  <2> SUFFICES ASSUME NEW k, NEW c, <<k, r, c>> \in F \cup A.asks PROVE FALSE
    OBVIOUS
  <2>1. <<k, r, c>>[2] = r
    OBVIOUS
  <2> QED BY <1>1, <1>13, <2>1 DEF Round
<1>15. Right(N, F)
  <2>1. PendingMatches(N, F \cup N.asks)
    BY <1>4, <1>5, <1>7, <1>8, <1>9, <1>13, <1>14 DEF PendingMatches, SameSignature
  <2>2. QuestionsMatch(N, F \cup N.asks)
    BY <1>1, <1>9, <1>13, <1>14, SMTT(30) DEF QuestionsMatch, Round
  <2>3. WaitingMatches(N)
    BY <1>3, <1>5, <1>7 DEF WaitingMatches, SameCandidate, SameSignature, SameRequests
  <2> QED BY <2>1, <2>2, <2>3 DEF Right
<1>16. Heard(N)
  BY <1>3, <1>5, <1>7, <1>9 DEF Heard, SameRound, SameRequests, SameCandidate, SameSignature
<1>17. Ready(N, F)
  BY <1>12, <1>15, <1>16 DEF Ready
<1>18. Forced(A) => Forced(N)
  BY <1>3, <1>7, <1>9 DEF Forced, SameRound, SameRequests
<1>19. ASSUME VerdictsMatch(A, F \cup A.asks)
       PROVE  VerdictsMatch(N, F \cup N.asks)
  <2>1. N.pending_approve \cup (N.approved \ {Skip}) \cup N.pending_reject \cup N.rejected \subseteq DOMAIN N.blocks
    BY <1>4, <1>8
  <2>2. ASSUME NEW q \in F \cup A.asks, q[1] \in {"validate", "approve"}, r <= q[2] + MaxPast
        PROVE  q[3] \in DOMAIN old /\ q[2] <= old[q[3]]
    <3>1. A.cur_round <= q[2] + MaxPast
      BY <1>1, <1>13, <2>2, ActorAssumption, SMTT(30) DEF Round
    <3>2. q[3] \in DOMAIN A.blocks /\ q[2] <= A.blocks[q[3]] /\ A.blocks[q[3]] \in Round
      BY <1>1, <1>19, <2>2, <3>1 DEF VerdictsMatch, VerdictsTyped
    <3>3. A.blocks[q[3]] + MaxPast >= r
      BY <1>1, <1>13, <2>2, <3>2, ActorAssumption, SMTT(30) DEF Round
    <3> QED BY <1>11, <3>2, <3>3
  <2> QED BY <1>8, <1>9, <1>13, <2>1, <2>2 DEF VerdictsMatch
<1>20. Checked(N, CheckAll(N, vote), F)
  BY <1>17, CheckAllLemma
<1>21. OnNewRound(A, vote) = CheckAll(N, vote)
  BY DEF OnNewRound, N, X, old
<1> QED BY <1>3, <1>9, <1>10, <1>18, <1>19, <1>20, <1>21 DEF Checked, SameRound

-----------------------------------------------------------------------------
(* process_blocks() *)

\* Behind() field by field.
Covers(V, R) ==
  \/ V.round > R.round
  \/ V.round = R.round /\ R.sub \subseteq V.sub /\ (R.prec => V.prec) /\ R.mine \subseteq V.mine

LEMMA StateFields ==
  ASSUME NEW S \in States
  PROVE  /\ S.round \in Round /\ S.sub \subseteq Cand /\ S.prec \in BOOLEAN
         /\ S.mine \subseteq ({"submit", "approve", "reject", "commit"} \X (Cand \cup {Skip}))
         /\ S = [round |-> S.round, sub |-> S.sub, prec |-> S.prec, mine |-> S.mine]
  BY DEF States

LEMMA NewStateTyped ==
  ASSUME NEW r \in Round
  PROVE  NewState(r) \in States /\ NewState(r).round = r /\ ~ NewState(r).prec /\ NewState(r).mine = {}
  BY DEF NewState, States

\* merge() gives a state that is behind neither.
LEMMA MergeLemma ==
  ASSUME NEW S \in States, NEW T \in States
  PROVE  /\ Merge(S, T) \in States
         /\ Covers(Merge(S, T), S) /\ Covers(Merge(S, T), T)
         /\ ~ Behind(S, T) <=> Covers(S, T)
<1> DEFINE M == [round |-> S.round, sub |-> S.sub \cup T.sub, prec |-> S.prec \/ T.prec, mine |-> S.mine \cup T.mine]
<1>1. S.round \in Nat /\ T.round \in Nat
  BY StateFields DEF Round
<1>2. CASE S.round # T.round
  <2>1. Merge(S, T) = IF S.round > T.round THEN S ELSE T
    BY <1>2 DEF Merge
  <2>2. S # T
    BY <1>2
  <2> QED BY <1>1, <1>2, <2>1, <2>2 DEF Covers, Behind
<1>3. CASE S.round = T.round
  <2>1. Merge(S, T) = M
    BY <1>3 DEF Merge
  <2>2. M \in States
    BY StateFields DEF States
  <2>3. /\ M.round = S.round /\ M.sub = S.sub \cup T.sub
        /\ M.prec = (S.prec \/ T.prec) /\ M.mine = S.mine \cup T.mine
    OBVIOUS
  <2> HIDE DEF M
  <2>4. Covers(M, S) /\ Covers(M, T)
    BY <1>1, <1>3, <2>3 DEF Covers
  <2>5. M = S => Covers(S, T)
    BY <2>4
  <2>6. ASSUME Covers(S, T)
        PROVE  M = S
    <3>1. T.sub \subseteq S.sub /\ (T.prec => S.prec) /\ T.mine \subseteq S.mine
      BY <1>1, <1>3, <2>6 DEF Covers
    <3>2. S.sub \cup T.sub = S.sub /\ S.mine \cup T.mine = S.mine /\ (S.prec \/ T.prec) = S.prec
      BY <3>1, StateFields
    <3>3. M = [round |-> S.round, sub |-> S.sub, prec |-> S.prec, mine |-> S.mine]
      BY <3>2 DEF M
    <3> QED BY <3>3, StateFields
  <2> QED BY <2>1, <2>2, <2>4, <2>5, <2>6 DEF Behind
<1> QED BY <1>2, <1>3

LEMMA StateUpdate ==
  ASSUME NEW S \in States, NEW U \in SUBSET Cand, NEW p \in BOOLEAN
  PROVE  LET X == [S EXCEPT !.sub = U, !.prec = p]
         IN  X \in States /\ X.round = S.round /\ X.mine = S.mine
  BY DEF States

\* What process_blocks() may take: as much of the own messages as before, or
\* a later round.
LEMMA BetweenLemma ==
  ASSUME NEW S \in States, NEW T \in States, Covers(T, S), NEW X \in Between(S, T)
  PROVE  /\ X \in States
         /\ (X.round = S.round /\ X.mine = S.mine) \/ X.round > S.round
<1>1. S.round \in Nat /\ T.round \in Nat
  BY StateFields DEF Round
<1>2. CASE S.round = T.round
  <2>1. PICK x \in {U \in SUBSET T.sub : S.sub \subseteq U} \X {S.prec, T.prec} :
          X = [S EXCEPT !.sub = x[1], !.prec = x[2]]
    BY <1>2 DEF Between
  <2>2. x[2] \in BOOLEAN /\ x[1] \subseteq Cand
    BY StateFields
  <2> QED BY <2>1, <2>2, StateUpdate
<1>3. CASE S.round # T.round
  <2>1. PICK x \in (SUBSET T.sub) \X {p \in BOOLEAN : p => T.prec} : X = [NewState(T.round) EXCEPT !.sub = x[1], !.prec = x[2]]
    BY <1>3 DEF Between
  <2>2. NewState(T.round) \in States /\ NewState(T.round).round = T.round
    BY StateFields, NewStateTyped
  <2>3. x[2] \in BOOLEAN /\ x[1] \subseteq Cand
    BY StateFields
  <2>4. T.round > S.round
    BY <1>1, <1>3 DEF Covers
  <2> QED BY <2>1, <2>2, <2>3, <2>4, StateUpdate
<1> QED BY <1>2, <1>3

\* Only virtual_state_ changes.
LEMMA VirtUpdate ==
  ASSUME NEW A, NEW F, Ready(A, F), NEW V \in States
  PROVE  LET B == [A EXCEPT !.virt = V]
         IN  /\ Ready(B, F) /\ B.virt = V /\ B.real = A.real /\ B.cur_round = A.cur_round
             /\ B.chain = A.chain /\ B.abort = A.abort /\ B.asks = A.asks
             /\ VerdictsMatch(A, F \cup A.asks) => VerdictsMatch(B, F \cup B.asks)
<1> DEFINE B == [A EXCEPT !.virt = V]
<1>1. ActorTyped(A) /\ DOMAIN A = Fields /\ DOMAIN B = Fields
  BY DEF Ready, ActorTyped
<1>2. /\ B.virt = V /\ B.real = A.real /\ B.cur_round = A.cur_round /\ B.due = A.due
      /\ B.chain = A.chain /\ B.abort = A.abort /\ B.asks = A.asks
  BY <1>1 DEF Fields
<1>3. SameRequests(A, B) /\ SameCandidate(A, B) /\ SameSignature(A, B)
  BY <1>1 DEF SameRequests, SameCandidate, SameSignature, Fields
<1>4. SameVerdicts(A, B)
  BY <1>1 DEF SameVerdicts, Fields
<1> HIDE DEF B
<1>5. RoundTyped(B)
  BY <1>1, <1>2 DEF ActorTyped, RoundTyped
<1>6. ActorTyped(B)
  BY <1>1, <1>2, <1>3, <1>4, <1>5, SameTyped DEF ActorTyped
<1>7. Right(B, F) /\ Heard(B)
  BY <1>2, <1>3, <1>4, SMTT(30) DEF Ready, Right, PendingMatches, QuestionsMatch, WaitingMatches, Heard,
                          SameRequests, SameCandidate, SameSignature, SameVerdicts
<1>8. VerdictsMatch(A, F \cup A.asks) => VerdictsMatch(B, F \cup B.asks)
  BY <1>2, <1>4 DEF VerdictsMatch, SameVerdicts
<1> QED BY <1>2, <1>6, <1>7, <1>8 DEF Ready, B

\* process_blocks() takes the blocks: the request is served, and a later round
\* begins.
LEMMA TakenLemma ==
  ASSUME Session, NEW A, NEW F, Ready(A, F), A.cur_round = A.real.round, Covers(A.virt, A.real),
         A.chain = "active", NEW vote, NEW S \in States,
         (S.round = A.real.round /\ S.mine = A.real.mine) \/ S.round > A.real.round
  PROVE  LET B == Taken(A, S, vote)
         IN  /\ Ready(B, F) /\ B.real = S /\ B.cur_round = S.round /\ B.virt = A.virt
             /\ B.chain = "active" /\ B.abort = A.abort /\ Forced(B)
             /\ VerdictsMatch(A, F \cup A.asks) => VerdictsMatch(B, F \cup B.asks)
<1> DEFINE T == [A EXCEPT !.requested = FALSE, !.requested_now = FALSE, !.real = S]
<1>1. ActorTyped(A) /\ DOMAIN A = Fields /\ DOMAIN T = Fields /\ A.real \in States /\ A.virt \in States
  BY DEF Ready, ActorTyped, RoundTyped
<1>2. S \in States /\ ((S.round = A.real.round /\ S.mine = A.real.mine) \/ S.round > A.real.round)
  OBVIOUS
<1>3. /\ T.virt = A.virt /\ T.real = S /\ T.cur_round = A.cur_round /\ T.due = A.due
      /\ T.chain = A.chain /\ T.abort = A.abort /\ T.asks = A.asks
  BY <1>1 DEF Fields
<1>4. /\ SameCandidate(A, T) /\ SameSignature(A, T)
      /\ T.requested = FALSE /\ T.requested_now = FALSE /\ T.force = A.force /\ T.asked = A.asked
  BY <1>1 DEF SameCandidate, SameSignature, Fields
<1>5. SameVerdicts(A, T)
  BY <1>1 DEF SameVerdicts, Fields
<1> HIDE DEF T
<1>6. ActorTyped(T)
  <2>1. RoundTyped(T) /\ RequestTyped(T)
    BY <1>1, <1>2, <1>3, <1>4 DEF ActorTyped, RoundTyped, RequestTyped
  <2> QED BY <1>1, <1>3, <1>4, <1>5, <2>1, SameTyped DEF ActorTyped
<1>7. Known(T, F \cup T.asks)
  BY <1>3 DEF Ready, Right, QuestionsMatch, Known
<1>8. VerdictsMatch(A, F \cup A.asks) => VerdictsMatch(T, F \cup T.asks)
  BY <1>3, <1>5 DEF VerdictsMatch, SameVerdicts
<1>9. Forced(T)
  BY <1>4 DEF Forced
<1>10. CASE S.round # A.cur_round
  <2>1. S.round > A.cur_round
    BY <1>2, <1>10
  <2>2. LET B == OnNewRound(T, vote)
        IN  /\ Ready(B, F)
            /\ B.cur_round = T.real.round /\ B.real = T.real /\ B.virt = T.virt
            /\ B.chain = T.chain /\ B.abort = T.abort
            /\ Forced(T) => Forced(B)
            /\ VerdictsMatch(T, F \cup T.asks) => VerdictsMatch(B, F \cup B.asks)
    BY <1>3, <1>4, <1>6, <1>7, <2>1, OnNewRoundLemma DEF Ready
  <2>3. Taken(A, S, vote) = OnNewRound(T, vote)
    BY <1>10 DEF Taken, T
  <2> QED BY <1>3, <1>8, <1>9, <2>2, <2>3
<1>11. CASE S.round = A.cur_round
  <2>1. Taken(A, S, vote) = T
    BY <1>11 DEF Taken, T
  <2>2. S.mine = A.real.mine
    BY <1>2, <1>11, <1>1, StateFields, SMTT(30) DEF Round
  <2>3. \A k : Says(S, k) = Says(A.real, k)
    BY <2>2 DEF Says
  <2>4. PendingMatches(T, F \cup T.asks)
    BY <1>3, <1>4, <1>5 DEF Ready, Right, PendingMatches, SameSignature, SameVerdicts
  <2>5. QuestionsMatch(T, F \cup T.asks)
    BY <1>3, <1>4, <2>3 DEF Ready, Right, QuestionsMatch, SameCandidate
  <2>6. WaitingMatches(T) /\ Heard(T)
    BY <1>3, <1>4, <1>5, <2>3 DEF Ready, Right, WaitingMatches, Heard, SameCandidate, SameSignature, SameVerdicts
  <2>7. Ready(T, F)
    BY <1>6, <2>4, <2>5, <2>6 DEF Ready, Right
  <2> QED BY <1>3, <1>8, <1>9, <1>11, <2>1, <2>7
<1> QED BY <1>10, <1>11

\* The messages of process_blocks(): a submission only of what is at hand and
\* not sent, a signature whenever one is due.
LEMMA MessagesLemma ==
  ASSUME NEW A, ActorTyped(A), WaitingMatches(A)
  PROVE  /\ Messages(A) \subseteq ({"submit", "approve", "reject", "commit"} \X (Cand \cup {Skip}))
         /\ \A m \in Messages(A) : m[1] = "submit" => m[2] \in Cand /\ A.generated /\ ~ A.sent_generated
         /\ A.signed /\ ToSign(A.real) => <<"commit", A.signed_block>> \in Messages(A)
<1> DEFINE sub == {<<"submit", c>> : c \in IF A.generated /\ ~ A.sent_generated THEN {A.generated_block} ELSE {}}
           app == {<<"approve", c>> : c \in ToApprove(A.real) \cap (A.approved \ A.early)}
           rej == {<<"reject", c>> : c \in A.pending_reject}
           com == {<<"commit", c>> : c \in IF A.signed /\ ToSign(A.real) THEN {A.signed_block} ELSE {}}
<1>1. /\ A.approved \subseteq Cand \cup {Skip} /\ A.pending_reject \subseteq Cand
      /\ A.signed_block \in Cand \cup {Skip} /\ DOMAIN A.blocks \subseteq Cand
  BY DEF ActorTyped, VerdictsTyped, SignatureTyped
<1>2. \A m \in sub : m[1] = "submit" /\ m[2] \in Cand /\ A.generated /\ ~ A.sent_generated /\ m = <<m[1], m[2]>>
  BY <1>1 DEF WaitingMatches
<1>3. \A m \in app : m[1] = "approve" /\ m[2] \in Cand \cup {Skip} /\ m = <<m[1], m[2]>>
  BY <1>1, SMTT(30)
<1>4. \A m \in rej : m[1] = "reject" /\ m[2] \in Cand \cup {Skip} /\ m = <<m[1], m[2]>>
  BY <1>1
<1>5. \A m \in com : m[1] = "commit" /\ m[2] \in Cand \cup {Skip} /\ m = <<m[1], m[2]>>
  BY <1>1
<1>6. A.signed /\ ToSign(A.real) => <<"commit", A.signed_block>> \in com
  OBVIOUS
<1>7. Messages(A) = sub \cup app \cup rej \cup com
  BY DEF Messages
<1> HIDE DEF sub, app, rej, com
<1>8. ASSUME NEW m \in Messages(A)
      PROVE  /\ m[1] \in {"submit", "approve", "reject", "commit"} /\ m[2] \in Cand \cup {Skip} /\ m = <<m[1], m[2]>>
             /\ m[1] = "submit" => m[2] \in Cand /\ A.generated /\ ~ A.sent_generated
  BY <1>2, <1>3, <1>4, <1>5, <1>7
<1>9. Messages(A) \subseteq ({"submit", "approve", "reject", "commit"} \X (Cand \cup {Skip}))
  <2> SUFFICES ASSUME NEW m \in Messages(A)
               PROVE  m \in {"submit", "approve", "reject", "commit"} \X (Cand \cup {Skip})
    OBVIOUS
  <2>1. m = <<m[1], m[2]>> /\ m[1] \in {"submit", "approve", "reject", "commit"} /\ m[2] \in Cand \cup {Skip}
    BY <1>8
  <2> QED BY <2>1
<1> QED BY <1>6, <1>7, <1>8, <1>9

\* action() for them.
LEMMA AppliedLemma ==
  ASSUME NEW S \in States, NEW msgs, NEW last \in BOOLEAN,
         msgs \subseteq ({"submit", "approve", "reject", "commit"} \X (Cand \cup {Skip})),
         \A m \in msgs : m[1] = "submit" => m[2] \in Cand,
         last => MayBeLast(S, msgs)
  PROVE  LET T == Applied(S, msgs, last)
         IN  /\ T \in States
             /\ last => T.round = S.round + 1 /\ ~ T.prec
             /\ ~ last => /\ T.round = S.round /\ T.prec = S.prec /\ T.mine = S.mine \cup msgs
                          /\ S.sub \subseteq T.sub
<1>1. CASE last
  <2>1. S.round + 1 \in Round /\ Applied(S, msgs, last) = NewState(S.round + 1)
    BY <1>1, StateFields, ActorAssumption, SMTT(30) DEF MayBeLast, Applied, Round
  <2> QED BY <1>1, <2>1, NewStateTyped
<1>2. CASE ~ last
  <2> DEFINE new == {m[2] : m \in {n \in msgs : n[1] = "submit"}}
             T == [S EXCEPT !.mine = @ \cup msgs, !.sub = @ \cup new]
  <2>1. Applied(S, msgs, last) = T
    BY <1>2 DEF Applied
  <2>2. new \subseteq Cand
    OBVIOUS
  <2> HIDE DEF new
  <2>3. T \in States /\ T.round = S.round /\ T.prec = S.prec /\ T.mine = S.mine \cup msgs /\ T.sub = S.sub \cup new
    BY <2>2 DEF States
  <2> HIDE DEF T
  <2> QED BY <1>2, <2>1, <2>3
<1> QED BY <1>1, <1>2

\* process_blocks() says what there is to say: no CHECK fails, and nothing is
\* left unsaid or the chain goes on.
LEMMA SaidLemma ==
  ASSUME Session, NEW A, NEW F, Ready(A, F), A.cur_round = A.real.round, A.chain = "active", Forced(A),
         NEW last \in BOOLEAN, NEW blamed \in BOOLEAN, last => MayBeLast(A.real, Messages(A))
  PROVE  LET B == Said(A, last, blamed)
         IN  /\ ActorTyped(B) /\ B.cur_round = A.cur_round /\ B.virt = A.virt /\ B.asks = A.asks
             /\ B.abort = A.abort
             /\ B.real.round = IF last THEN A.cur_round + 1 ELSE A.cur_round
             /\ B.requested_now => B.requested
             /\ B.requested => B.chain = "active" \/ B.asked
             /\ ~ last => Ready(B, F)
             /\ VerdictsMatch(A, F \cup A.asks) => VerdictsMatch(B, F \cup B.asks)
<1> DEFINE R == Applied(A.real, Messages(A), last)
           X == [A EXCEPT !.sent_generated = @ \/ A.generated, !.pending_reject = {},
                          !.real = R, !.abort = @ \/ ~ BlocksChecks(A)]
           B == Processed(X, blamed)
<1>1. ActorTyped(A) /\ DOMAIN A = Fields /\ DOMAIN X = Fields /\ WaitingMatches(A) /\ A.real \in States
      /\ A.abort \in BOOLEAN
  BY DEF Ready, Right, ActorTyped, RoundTyped
<1>2. /\ Messages(A) \subseteq ({"submit", "approve", "reject", "commit"} \X (Cand \cup {Skip}))
      /\ \A m \in Messages(A) : m[1] = "submit" => m[2] \in Cand /\ A.generated /\ ~ A.sent_generated
      /\ A.signed /\ ToSign(A.real) => <<"commit", A.signed_block>> \in Messages(A)
  BY <1>1, MessagesLemma
<1>3. /\ R \in States
      /\ last => R.round = A.real.round + 1 /\ ~ R.prec
      /\ ~ last => R.round = A.real.round /\ R.prec = A.real.prec /\ R.mine = A.real.mine \cup Messages(A)
  BY <1>1, <1>2, AppliedLemma, SMTT(30)
<1> HIDE DEF R
<1>4. BlocksChecks(A)
  BY <1>1 DEF BlocksChecks, WaitingMatches, ToSign
<1>5. /\ X.cur_round = A.cur_round /\ X.real = R /\ X.virt = A.virt /\ X.due = A.due /\ X.chain = A.chain
      /\ X.asks = A.asks /\ X.abort = (A.abort \/ ~ BlocksChecks(A))
      /\ SameRequests(A, X) /\ SameSignature(A, X)
  BY <1>1 DEF Fields, SameRequests, SameSignature
<1>6. /\ X.pending_generate = A.pending_generate /\ X.generated = A.generated
      /\ X.generated_block = A.generated_block /\ X.sent_generated = (A.sent_generated \/ A.generated)
  BY <1>1 DEF Fields
<1>7. /\ X.pending_approve = A.pending_approve /\ X.approved = A.approved /\ X.early = A.early
      /\ X.rejected = A.rejected /\ X.pending_reject = {}
      /\ X.active_requests = A.active_requests /\ X.blocks = A.blocks /\ X.first = A.first
  BY <1>1 DEF Fields
<1>8. X.abort = A.abort
  BY <1>1, <1>4, <1>5
<1> HIDE DEF X
<1>9. DOMAIN B = Fields
  BY <1>1 DEF Processed
<1>10. /\ B.cur_round = X.cur_round /\ B.real = X.real /\ B.virt = X.virt /\ B.due = X.due /\ B.abort = X.abort
       /\ B.asks = X.asks /\ SameCandidate(X, B) /\ SameSignature(X, B)
  BY <1>1 DEF Processed, Fields, SameCandidate, SameSignature
<1>11. SameVerdicts(X, B)
  BY <1>1 DEF Processed, Fields, SameVerdicts
<1>12. /\ B.requested = X.requested /\ B.requested_now = X.requested_now
       /\ \/ B.chain = X.chain /\ B.force = FALSE /\ B.asked = X.asked
          \/ ~ X.force /\ B.chain = "finished" /\ B.force = X.force /\ B.asked = FALSE
  BY <1>1 DEF Processed, Fields
<1> HIDE DEF B
<1>13. ActorTyped(B)
  <2>1. RoundTyped(B) /\ RequestTyped(B)
    BY <1>1, <1>3, <1>5, <1>8, <1>10, <1>12 DEF ActorTyped, RoundTyped, RequestTyped, SameRequests
  <2>2. CandidateTyped(B) /\ SignatureTyped(B)
    BY <1>1, <1>5, <1>6, <1>10 DEF ActorTyped, CandidateTyped, SignatureTyped, SameCandidate, SameSignature
  <2>3. VerdictsTyped(B)
    BY <1>1, <1>7, <1>11 DEF ActorTyped, VerdictsTyped, SameVerdicts
  <2> QED BY <1>1, <1>5, <1>9, <1>10, <2>1, <2>2, <2>3 DEF ActorTyped
<1>14. (B.requested_now => B.requested) /\ (B.requested => B.chain = "active" \/ B.asked)
  BY <1>1, <1>5, <1>12 DEF WaitingMatches, Forced, SameRequests
<1>15. ASSUME ~ last
       PROVE  Ready(B, F)
  <2>1. /\ B.cur_round = A.cur_round /\ B.asks = A.asks
        /\ B.real.prec = A.real.prec /\ B.real.mine = A.real.mine \cup Messages(A)
    BY <1>3, <1>5, <1>10, <1>15
  <2>2. \A k : Says(A.real, k) \subseteq Says(B.real, k)
    BY <2>1 DEF Says
  <2>3. ~ A.generated => Says(B.real, "submit") = Says(A.real, "submit")
    BY <1>2, <2>1 DEF Says
  <2>4. A.signed /\ ToSign(A.real) => Says(B.real, "commit") # {}
    <3> SUFFICES ASSUME A.signed, ToSign(A.real) PROVE Says(B.real, "commit") # {}
      OBVIOUS
    <3>1. <<"commit", A.signed_block>> \in B.real.mine
      BY <1>2, <2>1
    <3> QED BY <3>1, SMTT(30) DEF Says
  <2>5. PendingMatches(B, F \cup B.asks)
    BY <1>5, <1>7, <1>10, <1>11, <2>1, SMTT(30) DEF Ready, Right, PendingMatches, SameSignature, SameVerdicts
  <2>6. QuestionsMatch(B, F \cup B.asks)
    BY <1>6, <1>10, <2>1, <2>3 DEF Ready, Right, QuestionsMatch, SameCandidate
  <2>7. WaitingMatches(B)
    <3>1. B.generated => B.sent_generated
      BY <1>6, <1>10 DEF SameCandidate
    <3>2. B.signed => Says(B.real, "commit") # {} \/ B.signed_block = dec[B.cur_round]
      BY <1>1, <1>5, <1>10, <2>1, <2>2 DEF WaitingMatches, SameSignature
    <3> QED BY <1>14, <3>1, <3>2 DEF WaitingMatches
  <2>8. Heard(B)
    <3>1. B.generated => B.sent_generated
      BY <1>6, <1>10 DEF SameCandidate
    <3>2. ~ (B.signed /\ ToSign(B.real))
      <4>1. B.signed = A.signed
        BY <1>5, <1>10 DEF SameSignature
      <4>2. CASE ToSign(A.real)
        BY <2>4, <4>1, <4>2 DEF ToSign
      <4>3. CASE ~ ToSign(A.real)
        BY <2>1, <2>2, <4>3 DEF ToSign
      <4> QED BY <4>2, <4>3
    <3> QED BY <1>14, <3>1, <3>2 DEF Heard
  <2> QED BY <1>13, <2>5, <2>6, <2>7, <2>8 DEF Ready, Right
<1>16. VerdictsMatch(A, F \cup A.asks) => VerdictsMatch(B, F \cup B.asks)
  BY <1>5, <1>7, <1>10, <1>11 DEF VerdictsMatch, SameVerdicts
<1>17. B.real.round = IF last THEN A.cur_round + 1 ELSE A.cur_round
  BY <1>3, <1>5, <1>10
<1>18. Said(A, last, blamed) = B
  BY DEF Said, B, X, R
<1> QED BY <1>5, <1>8, <1>10, <1>13, <1>14, <1>15, <1>16, <1>17, <1>18

\* What holds of an actor when a handler ends.
Fine(A, F) == Ready(A, F) /\ A.cur_round = A.real.round /\ Covers(A.virt, A.real)

\* process_blocks() goes to the next round if that is where it is.
LEMMA MovedLemma ==
  ASSUME Session, NEW A, NEW F, ActorTyped(A), F \subseteq Questions, NEW vote, Known(A, F \cup A.asks),
         A.requested_now => A.requested, A.requested => A.chain = "active" \/ A.asked,
         \/ A.real.round > A.cur_round
         \/ A.real.round = A.cur_round /\ Ready(A, F)
  PROVE  LET B == Moved(A, vote)
         IN  /\ Fine(B, F) /\ B.abort = A.abort
             /\ VerdictsMatch(A, F \cup A.asks) => VerdictsMatch(B, F \cup B.asks)
<1> DEFINE M == IF A.real.round > A.cur_round THEN OnNewRound(A, vote) ELSE A
           V == Merge(M.virt, M.real)
           B == [M EXCEPT !.virt = V]
<1>1. /\ Ready(M, F) /\ M.cur_round = M.real.round /\ M.abort = A.abort
      /\ VerdictsMatch(A, F \cup A.asks) => VerdictsMatch(M, F \cup M.asks)
  <2>1. CASE A.real.round > A.cur_round
    <3>1. LET N == OnNewRound(A, vote)
          IN  /\ Ready(N, F)
              /\ N.cur_round = A.real.round /\ N.real = A.real /\ N.virt = A.virt
              /\ N.chain = A.chain /\ N.abort = A.abort
              /\ Forced(A) => Forced(N)
              /\ VerdictsMatch(A, F \cup A.asks) => VerdictsMatch(N, F \cup N.asks)
      BY <2>1, OnNewRoundLemma
    <3> QED BY <2>1, <3>1
  <2>2. CASE ~ (A.real.round > A.cur_round)
    BY <2>2
  <2> QED BY <2>1, <2>2
<1> HIDE DEF M
<1>2. M.virt \in States /\ M.real \in States
  BY <1>1 DEF Ready, ActorTyped, RoundTyped
<1>3. V \in States /\ Covers(V, M.real)
  BY <1>2, MergeLemma
<1> HIDE DEF V
<1>4. /\ Ready(B, F) /\ B.virt = V /\ B.real = M.real /\ B.cur_round = M.cur_round
      /\ B.abort = M.abort
      /\ VerdictsMatch(M, F \cup M.asks) => VerdictsMatch(B, F \cup B.asks)
  BY <1>1, <1>3, VirtUpdate
<1> HIDE DEF B
<1>5. Moved(A, vote) = B
  BY DEF Moved, B, V, M
<1> QED BY <1>1, <1>3, <1>4, <1>5 DEF Fine

\* process_blocks() as a whole.
LEMMA ProcessLemma ==
  ASSUME Session, NEW A, NEW F, Fine(A, F), A.chain = "active", NEW S \in States,
         (S.round = A.real.round /\ S.mine = A.real.mine) \/ S.round > A.real.round,
         NEW vote, NEW last \in BOOLEAN, NEW blamed \in BOOLEAN,
         last => MayBeLast(Taken(A, S, vote).real, Messages(Taken(A, S, vote)))
  PROVE  LET B == Moved(Said(Taken(A, S, vote), last, blamed), vote)
         IN  /\ Fine(B, F) /\ B.abort = A.abort
             /\ VerdictsMatch(A, F \cup A.asks) => VerdictsMatch(B, F \cup B.asks)
<1> DEFINE T == Taken(A, S, vote)
           W == Said(T, last, blamed)
           B == Moved(W, vote)
<1>1. /\ Ready(T, F) /\ T.real = S /\ T.cur_round = S.round /\ T.virt = A.virt
      /\ T.chain = "active" /\ T.abort = A.abort /\ Forced(T)
      /\ VerdictsMatch(A, F \cup A.asks) => VerdictsMatch(T, F \cup T.asks)
  BY TakenLemma DEF Fine
<1>2. last => MayBeLast(T.real, Messages(T))
  OBVIOUS
<1> HIDE DEF T
<1>3. /\ ActorTyped(W) /\ W.cur_round = T.cur_round /\ W.virt = T.virt /\ W.asks = T.asks
      /\ W.abort = T.abort
      /\ W.real.round = IF last THEN T.cur_round + 1 ELSE T.cur_round
      /\ W.requested_now => W.requested
      /\ W.requested => W.chain = "active" \/ W.asked
      /\ ~ last => Ready(W, F)
      /\ VerdictsMatch(T, F \cup T.asks) => VerdictsMatch(W, F \cup W.asks)
  BY <1>1, <1>2, SaidLemma, ZenonT(30)
<1> HIDE DEF W
<1>4. Known(W, F \cup W.asks) /\ F \subseteq Questions
  BY <1>1, <1>3 DEF Ready, Right, QuestionsMatch, Known
<1>5. \/ W.real.round > W.cur_round
      \/ W.real.round = W.cur_round /\ Ready(W, F)
  <2>1. T.cur_round \in Nat
    BY <1>1, SMTT(30) DEF Ready, ActorTyped, RoundTyped, Round
  <2>2. CASE last
    BY <1>3, <2>1, <2>2
  <2>3. CASE ~ last
    BY <1>3, <2>3
  <2> QED BY <2>2, <2>3
<1>6. /\ Fine(B, F) /\ B.abort = W.abort
      /\ VerdictsMatch(W, F \cup W.asks) => VerdictsMatch(B, F \cup B.asks)
  BY <1>3, <1>4, <1>5, MovedLemma
<1> HIDE DEF B
<1> QED BY <1>1, <1>3, <1>6 DEF B, W, T

-----------------------------------------------------------------------------
(* The handlers *)

\* Between two handlers.
Rest == RecordIsRight /\ RequestIsHeard
Resting(A, F) == Session /\ Fine(A, F) /\ A.asks = {} /\ saved \in States /\ failures \in Nat /\ crashes \in Nat

LEMMA RestIsFine ==
  Rest <=> Resting(actor, fly)
<1>1. actor.asks = {} => fly \cup actor.asks = fly
  OBVIOUS
<1>2. ActorTyped(actor) => actor.virt \in States /\ actor.real \in States
  BY DEF ActorTyped, RoundTyped
<1>3. ActorTyped(actor) => (~ Behind(actor.virt, actor.real) <=> Covers(actor.virt, actor.real))
  BY <1>2, MergeLemma
<1> QED BY <1>1, <1>3 DEF Rest, Resting, RecordIsRight, RequestIsHeard, Fine, Ready, Right, Session, TypeOK

\* A handler ends: its questions are on their way.
LEMMA BecomesLemma ==
  ASSUME NEW A, NEW F, Fine(A, F)
  PROVE  LET B == [A EXCEPT !.asks = {}]
         IN  /\ Fine(B, F \cup A.asks) /\ B.asks = {} /\ B.abort = A.abort
             /\ VerdictsMatch(A, F \cup A.asks) => VerdictsMatch(B, F \cup A.asks)
<1> DEFINE B == [A EXCEPT !.asks = {}]
<1>1. ActorTyped(A) /\ DOMAIN A = Fields /\ DOMAIN B = Fields
  BY DEF Fine, Ready, ActorTyped
<1>2. SameRound(A, B) /\ SameRequests(A, B) /\ SameCandidate(A, B) /\ SameSignature(A, B) /\ B.asks = {}
  BY <1>1 DEF SameRound, SameRequests, SameCandidate, SameSignature, Fields
<1>3. SameVerdicts(A, B)
  BY <1>1 DEF SameVerdicts, Fields
<1> HIDE DEF B
<1>4. ActorTyped(B)
  BY <1>1, <1>2, <1>3, SameTyped DEF ActorTyped
<1>5. (F \cup A.asks) \cup B.asks = F \cup A.asks /\ F \cup A.asks \subseteq Questions
  BY <1>1, <1>2 DEF Fine, Ready, ActorTyped
<1>6. Right(B, F \cup A.asks) /\ Heard(B)
  <2>1. PendingMatches(B, F \cup A.asks)
    BY <1>2, <1>3 DEF Fine, Ready, Right, PendingMatches, SameRound, SameSignature, SameVerdicts
  <2>2. QuestionsMatch(B, F \cup A.asks) /\ WaitingMatches(B)
    BY <1>2, <1>3 DEF Fine, Ready, Right, QuestionsMatch, WaitingMatches,
                      SameRound, SameRequests, SameCandidate, SameSignature, SameVerdicts
  <2>3. Heard(B)
    BY <1>2 DEF Fine, Ready, Heard, SameRound, SameRequests, SameCandidate, SameSignature
  <2> QED BY <1>5, <2>1, <2>2, <2>3 DEF Right
<1>7. VerdictsMatch(A, F \cup A.asks) => VerdictsMatch(B, F \cup A.asks)
  BY <1>2, <1>3 DEF VerdictsMatch, SameRound, SameVerdicts
<1> QED BY <1>2, <1>4, <1>5, <1>6, <1>7 DEF Fine, Ready, SameRound, B

\* The state after a step in which the session does not change.
LEMMA RestAfter ==
  ASSUME Session, NEW B, NEW G, Fine(B, G), B.asks = {}, actor' = B, fly' = G,
         setup' = setup, dec' = dec, saved' \in States, failures' \in Nat, crashes' \in Nat
  PROVE  Rest'
<1>1. Cand' = Cand
  BY DEF Cand
<1>2. States' = States /\ Questions' = Questions
  BY <1>1 DEF States, Questions
<1>3. Session'
  BY <1>1 DEF Session
<1>4. ActorTyped(actor)'
  <2>1. RoundTyped(actor)' /\ RequestTyped(actor)' /\ CandidateTyped(actor)' /\ SignatureTyped(actor)'
    BY <1>1, <1>2, SMTT(30) DEF Fine, Ready, ActorTyped, RoundTyped, RequestTyped, CandidateTyped, SignatureTyped
  <2>2. VerdictsTyped(actor)'
    BY <1>1 DEF Fine, Ready, ActorTyped, VerdictsTyped
  <2> QED BY <1>2, <2>1, <2>2 DEF Fine, Ready, ActorTyped
<1>5. Right(actor, fly)'
  BY <1>1 DEF Fine, Ready, Right, PendingMatches, QuestionsMatch, WaitingMatches
<1>6. Heard(actor)' /\ Covers(actor.virt, actor.real)'
  BY DEF Fine, Ready, Heard, Covers
<1>7. Resting(actor, fly)'
  BY <1>2, <1>3, <1>4, <1>5, <1>6 DEF Resting, Fine, Ready
<1>8. (Rest <=> Resting(actor, fly))'
  BY RestIsFine, PTL
<1> QED BY <1>7, <1>8

\* What a handler that leaves the actor in A comes to.
LEMMA HandlerEnds ==
  ASSUME Rest, NEW A, NEW answered, Fine(A, fly \ answered), Becomes(A, answered),
         setup' = setup, dec' = dec, saved' = saved, failures' \in Nat, crashes' = crashes
  PROVE  /\ Rest'
         /\ ~ A.abort => ~ actor'.abort
         /\ VerdictsMatch(A, (fly \ answered) \cup A.asks) => VerdictsMatch(actor, fly)'
<1> DEFINE B == [A EXCEPT !.asks = {}]
           G == (fly \ answered) \cup A.asks
<1>1. /\ Fine(B, G) /\ B.asks = {} /\ B.abort = A.abort
      /\ VerdictsMatch(A, G) => VerdictsMatch(B, G)
  BY BecomesLemma
<1>2. actor' = B /\ fly' = G
  BY DEF Becomes
<1>3. Session /\ saved \in States /\ crashes \in Nat
  BY RestIsFine DEF Resting
<1> HIDE DEF B, G
<1>4. Rest'
  BY <1>1, <1>2, <1>3, RestAfter
<1>5. VerdictsMatch(B, G) => VerdictsMatch(actor, fly)'
  BY <1>2 DEF VerdictsMatch
<1> QED BY <1>1, <1>2, <1>4, <1>5 DEF B, G

\* No CHECK has failed, and what the next ones are about is at hand.
Sound == ChecksHold /\ VerdictsMatch(actor, fly)

\* The end of a handler that changes nothing but the actor.
LEMMA StepEnds ==
  ASSUME Rest, NEW A, NEW answered, Fine(A, fly \ answered), Becomes(A, answered),
         setup' = setup, dec' = dec, saved' = saved, failures' \in Nat, crashes' = crashes,
         Sound => ~ A.abort /\ VerdictsMatch(A, (fly \ answered) \cup A.asks)
  PROVE  Rest' /\ (Sound => Sound')
  BY HandlerEnds DEF Sound, ChecksHold

\* What there is to start from.
LEMMA StepBegins ==
  ASSUME Rest
  PROVE  /\ Session /\ Fine(actor, fly) /\ Ready(actor, fly) /\ actor.asks = {} /\ fly \cup actor.asks = fly
         /\ fly \ {} = fly /\ ActorTyped(actor) /\ DOMAIN actor = Fields /\ actor.cur_round = actor.real.round
         /\ saved \in States /\ failures \in Nat /\ crashes \in Nat
         /\ actor.virt \in States /\ actor.real \in States /\ actor.cur_round \in Round
         /\ Covers(actor.virt, actor.real)
         /\ Sound => ~ actor.abort /\ VerdictsMatch(actor, fly \cup actor.asks)
<1>1. Resting(actor, fly)
  BY RestIsFine
<1>2. fly \cup actor.asks = fly /\ fly \ {} = fly
  BY <1>1 DEF Resting
<1> QED BY <1>1, <1>2 DEF Resting, Fine, Ready, ActorTyped, RoundTyped, Sound, ChecksHold

\* alarm()
LEMMA AlarmStep ==
  ASSUME Rest, Alarm
  PROVE  Rest' /\ (Sound => Sound')
<1> PICK vote \in Vote : Becomes(CheckAll(actor, vote), {})
  BY DEF Alarm
<1> DEFINE A == CheckAll(actor, vote)
<1>1. setup' = setup /\ dec' = dec /\ saved' = saved /\ failures' \in Nat /\ crashes' = crashes
  BY StepBegins DEF Alarm
<1>2. Checked(actor, A, fly)
  BY StepBegins, CheckAllLemma
<1> HIDE DEF A
<1>3. Fine(A, fly \ {})
  BY <1>2, StepBegins DEF Checked, Fine, SameRound
<1>4. Sound => ~ A.abort /\ VerdictsMatch(A, (fly \ {}) \cup A.asks)
  BY <1>2, StepBegins DEF Checked, SameRound
<1>5. Becomes(A, {})
  BY DEF A
<1> QED BY <1>1, <1>3, <1>4, <1>5, StepEnds

\* What the consensus may do next is never behind.
LEMMA LaterLemma ==
  ASSUME Session, NEW S \in States, NEW V \in Later(S)
  PROVE  V \in States /\ Covers(V, S)
<1>1. S.round \in Nat
  BY StateFields DEF Round
<1>2. CASE \E c \in Cand : V = [S EXCEPT !.sub = @ \cup {c}]
  <2>1. PICK c \in Cand : V = [S EXCEPT !.sub = @ \cup {c}]
    BY <1>2
  <2> QED BY <1>1, <2>1 DEF States, Covers
<1>3. CASE V = [S EXCEPT !.prec = TRUE]
  BY <1>1, <1>3 DEF States, Covers
<1>4. CASE S.round < MaxRound /\ V = NewState(S.round + 1)
  <2>1. S.round + 1 \in Round /\ S.round + 1 > S.round
    BY <1>1, <1>4, ActorAssumption, SMTT(30) DEF Round
  <2> QED BY <1>4, <2>1, NewStateTyped DEF Covers
<1> QED BY <1>2, <1>3, <1>4 DEF Later

\* preprocess_block()
LEMMA PreprocessStep ==
  ASSUME Rest, PreprocessBlock
  PROVE  Rest' /\ (Sound => Sound')
<1> PICK V \in Later(actor.virt), vote \in Vote : Becomes(CheckAll([actor EXCEPT !.virt = V], vote), {})
  BY DEF PreprocessBlock
<1> DEFINE B == [actor EXCEPT !.virt = V]
           A == CheckAll(B, vote)
<1>1. setup' = setup /\ dec' = dec /\ saved' = saved /\ failures' \in Nat /\ crashes' = crashes
  BY StepBegins DEF PreprocessBlock
<1>2. V \in States /\ Covers(V, actor.virt)
  BY StepBegins, LaterLemma
<1>3. Covers(V, actor.real)
  <2>1. V.round \in Nat /\ actor.virt.round \in Nat /\ actor.real.round \in Nat
    BY <1>2, StepBegins, StateFields, SMTT(30) DEF Round
  <2> QED BY <1>2, <2>1, StepBegins, SMTT(30) DEF Covers
<1>4. /\ Ready(B, fly) /\ B.virt = V /\ B.real = actor.real /\ B.cur_round = actor.cur_round
      /\ B.abort = actor.abort /\ B.asks = actor.asks
      /\ VerdictsMatch(actor, fly \cup actor.asks) => VerdictsMatch(B, fly \cup B.asks)
  BY <1>2, StepBegins, VirtUpdate, SMTT(30)
<1> HIDE DEF B
<1>5. Checked(B, A, fly)
  BY <1>4, StepBegins, CheckAllLemma
<1> HIDE DEF A
<1>6. Fine(A, fly \ {})
  BY <1>3, <1>4, <1>5, StepBegins DEF Checked, Fine, SameRound
<1>7. Sound => ~ A.abort /\ VerdictsMatch(A, (fly \ {}) \cup A.asks)
  BY <1>4, <1>5, StepBegins DEF Checked, SameRound
<1>8. Becomes(A, {})
  BY DEF A, B
<1> QED BY <1>1, <1>6, <1>7, <1>8, StepEnds

\* process_blocks()
LEMMA ProcessStep ==
  ASSUME Rest, ProcessBlocks
  PROVE  Rest' /\ (Sound => Sound')
<1> PICK S \in Between(actor.real, actor.virt), vote \in Vote, last \in BOOLEAN :
           LET T == Taken(actor, S, vote)
           IN  /\ last => MayBeLast(T.real, Messages(T))
               /\ Becomes(Moved(Said(T, last, FALSE), vote), {})
  BY DEF ProcessBlocks
<1> DEFINE A == Moved(Said(Taken(actor, S, vote), last, FALSE), vote)
<1>1. setup' = setup /\ dec' = dec /\ saved' = saved /\ failures' \in Nat /\ crashes' = crashes
  BY StepBegins DEF ProcessBlocks
<1>2. S \in States /\ ((S.round = actor.real.round /\ S.mine = actor.real.mine) \/ S.round > actor.real.round)
  BY StepBegins, BetweenLemma
<1>3. actor.chain = "active"
  BY DEF ProcessBlocks
<1>4. /\ Fine(A, fly) /\ A.abort = actor.abort
      /\ VerdictsMatch(actor, fly \cup actor.asks) => VerdictsMatch(A, fly \cup A.asks)
  <2>1. last => MayBeLast(Taken(actor, S, vote).real, Messages(Taken(actor, S, vote)))
    OBVIOUS
  <2>2. Session /\ Fine(actor, fly) /\ FALSE \in BOOLEAN
    BY StepBegins
  <2>3. CASE last = TRUE
    <3> DEFINE W == Moved(Said(Taken(actor, S, vote), TRUE, FALSE), vote)
    <3>1. TRUE => MayBeLast(Taken(actor, S, vote).real, Messages(Taken(actor, S, vote)))
      BY <2>1, <2>3
    <3>2. /\ Fine(W, fly) /\ W.abort = actor.abort
          /\ VerdictsMatch(actor, fly \cup actor.asks) => VerdictsMatch(W, fly \cup W.asks)
      BY <1>2, <1>3, <2>2, <3>1, ProcessLemma
    <3>3. A = W
      BY <2>3
    <3> QED BY <3>2, <3>3
  <2>4. CASE last = FALSE
    <3> DEFINE W == Moved(Said(Taken(actor, S, vote), FALSE, FALSE), vote)
    <3>1. /\ Fine(W, fly) /\ W.abort = actor.abort
          /\ VerdictsMatch(actor, fly \cup actor.asks) => VerdictsMatch(W, fly \cup W.asks)
      BY <1>2, <1>3, <2>2, ProcessLemma
    <3>2. A = W
      BY <2>4
    <3> QED BY <3>1, <3>2
  <2> QED BY <2>3, <2>4
<1>5. Becomes(A, {})
  OBVIOUS
<1> HIDE DEF A
<1> QED BY <1>1, <1>4, <1>5, StepBegins, StepEnds

LEMMA ProcessBlamedStep ==
  ASSUME Rest, ProcessBlamed
  PROVE  Rest' /\ (Sound => Sound')
<1> PICK vote \in Vote : Becomes(Moved(Said(Taken(actor, actor.real, vote), FALSE, TRUE), vote), {})
  BY DEF ProcessBlamed
<1> DEFINE A == Moved(Said(Taken(actor, actor.real, vote), FALSE, TRUE), vote)
<1>1. setup' = setup /\ dec' = dec /\ saved' = saved /\ failures' \in Nat /\ crashes' = crashes
  BY StepBegins DEF ProcessBlamed
<1>2. actor.chain = "active"
  BY DEF ProcessBlamed
<1>3. /\ Fine(A, fly) /\ A.abort = actor.abort
      /\ VerdictsMatch(actor, fly \cup actor.asks) => VerdictsMatch(A, fly \cup A.asks)
  BY <1>2, StepBegins, ProcessLemma
<1>4. Becomes(A, {})
  OBVIOUS
<1> HIDE DEF A
<1> QED BY <1>1, <1>3, <1>4, StepBegins, StepEnds

\* finished_processing()
LEMMA FinishedStep ==
  ASSUME Rest, FinishedProcessing
  PROVE  Rest' /\ (Sound => Sound')
<1> PICK vote \in Vote : Becomes(CheckAll([actor EXCEPT !.virt = actor.real, !.chain = "idle"], vote), {})
  BY DEF FinishedProcessing
<1> DEFINE B == [actor EXCEPT !.virt = actor.real, !.chain = "idle"]
           A == CheckAll(B, vote)
<1>1. setup' = setup /\ dec' = dec /\ saved' = saved /\ failures' \in Nat /\ crashes' = crashes
  BY StepBegins DEF FinishedProcessing
<1>2. actor.chain = "finished" /\ DOMAIN actor = Fields /\ DOMAIN B = Fields
  BY StepBegins DEF FinishedProcessing
<1>3. /\ B.virt = actor.real /\ B.real = actor.real /\ B.cur_round = actor.cur_round /\ B.due = actor.due
      /\ B.chain = "idle" /\ B.abort = actor.abort /\ B.asks = actor.asks
  BY <1>2 DEF Fields
<1>4. SameRequests(actor, B) /\ SameCandidate(actor, B) /\ SameSignature(actor, B)
  BY <1>2 DEF SameRequests, SameCandidate, SameSignature, Fields
<1>5. SameVerdicts(actor, B)
  BY <1>2 DEF SameVerdicts, Fields
<1> HIDE DEF B
<1>6. ActorTyped(B)
  <2>1. RoundTyped(B)
    BY <1>3, StepBegins DEF ActorTyped, RoundTyped
  <2> QED BY <1>2, <1>3, <1>4, <1>5, <2>1, StepBegins, SameTyped DEF ActorTyped
<1>7. Right(B, fly)
  BY <1>3, <1>4, <1>5, StepBegins, SMTT(30) DEF Ready, Right, PendingMatches, QuestionsMatch, WaitingMatches,
                       SameRequests, SameCandidate, SameSignature, SameVerdicts
<1>8. Heard(B)
  BY <1>2, <1>3, <1>4, StepBegins DEF Ready, Heard, SameRequests, SameCandidate, SameSignature
<1>9. VerdictsMatch(actor, fly \cup actor.asks) => VerdictsMatch(B, fly \cup B.asks)
  BY <1>3, <1>5 DEF VerdictsMatch, SameVerdicts
<1>10. Ready(B, fly)
  BY <1>6, <1>7, <1>8, StepBegins DEF Ready
<1>11. Checked(B, A, fly)
  BY <1>10, StepBegins, CheckAllLemma
<1> HIDE DEF A
<1>12. Covers(actor.real, actor.real)
  BY DEF Covers
<1>13. Fine(A, fly \ {})
  BY <1>3, <1>11, <1>12, StepBegins DEF Checked, Fine, SameRound
<1>14. Sound => ~ A.abort /\ VerdictsMatch(A, (fly \ {}) \cup A.asks)
  BY <1>3, <1>9, <1>11, StepBegins DEF Checked, SameRound
<1>15. Becomes(A, {})
  BY DEF A, B
<1> QED BY <1>1, <1>13, <1>14, <1>15, StepEnds

\* A step that changes only what Right() does not look at.
LEMMA QuietStep ==
  ASSUME Rest, NEW B, actor' = B, fly' = fly, DOMAIN B = Fields,
         B.cur_round = actor.cur_round, B.real = actor.real, B.virt = actor.virt, RoundTyped(B),
         B.abort = actor.abort, RequestTyped(B), B.requested = actor.requested,
         B.requested_now = actor.requested_now, SameCandidate(actor, B), SameSignature(actor, B),
         B.pending_approve = actor.pending_approve, B.approved = actor.approved, B.early \subseteq Cand,
         B.rejected = actor.rejected, B.pending_reject = actor.pending_reject,
         B.active_requests = actor.active_requests, B.blocks = actor.blocks, B.first = actor.first,
         B.asks = actor.asks, actor.chain = "active" \/ actor.asked => B.chain = "active" \/ B.asked,
         setup' = setup, dec' = dec, saved' = saved, failures' = failures, crashes' = crashes
  PROVE  Rest' /\ (Sound => Sound')
<1>1. VerdictsTyped(B)
  BY StepBegins DEF ActorTyped, VerdictsTyped
<1>2. ActorTyped(B)
  BY <1>1, StepBegins, SameTyped DEF ActorTyped
<1>3. Right(B, fly)
  BY StepBegins, SMTT(30) DEF Ready, Right, PendingMatches, QuestionsMatch, WaitingMatches, SameCandidate, SameSignature
<1>4. Heard(B)
  BY StepBegins DEF Ready, Heard, SameCandidate, SameSignature
<1>5. Fine(B, fly)
  BY <1>2, <1>3, <1>4, StepBegins DEF Fine, Ready
<1>6. Rest'
  BY <1>5, StepBegins, RestAfter
<1>7. Sound => Sound'
  BY DEF Sound, ChecksHold, VerdictsMatch
<1> QED BY <1>6, <1>7

LEMMA QuietSteps ==
  ASSUME Rest, ChainAlarm \/ (\E d \in Delays : Elapse(d)) \/ (\E c \in Cand : ClockPasses(c))
  PROVE  Rest' /\ (Sound => Sound')
<1>1. CASE ChainAlarm
  <2> DEFINE B == [actor EXCEPT !.chain = "active", !.asked = FALSE]
  <2>1. DOMAIN actor = Fields /\ DOMAIN B = Fields
    BY StepBegins
  <2>2. /\ B.cur_round = actor.cur_round /\ B.real = actor.real /\ B.virt = actor.virt /\ B.due = actor.due
        /\ B.abort = actor.abort /\ B.chain = "active" /\ B.asks = actor.asks
        /\ B.requested = actor.requested /\ B.requested_now = actor.requested_now
        /\ B.force = actor.force /\ B.asked = FALSE
    BY <2>1 DEF Fields
  <2>3. SameCandidate(actor, B) /\ SameSignature(actor, B) /\ SameVerdicts(actor, B)
    BY <2>1 DEF Fields, SameCandidate, SameSignature, SameVerdicts
  <2>4. actor' = B /\ fly' = fly /\ setup' = setup /\ dec' = dec /\ saved' = saved /\ failures' = failures
        /\ crashes' = crashes
    BY <1>1 DEF ChainAlarm
  <2> HIDE DEF B
  <2>5. RoundTyped(B) /\ RequestTyped(B) /\ B.early \subseteq Cand
    BY <2>2, <2>3, StepBegins DEF ActorTyped, RoundTyped, RequestTyped, VerdictsTyped, SameVerdicts
  <2> QED BY <2>1, <2>2, <2>3, <2>4, <2>5, QuietStep DEF SameVerdicts
<1>2. ASSUME NEW d \in Delays, Elapse(d)
      PROVE  Rest' /\ (Sound => Sound')
  <2> DEFINE B == [actor EXCEPT !.due = @ \cup {d}]
  <2>1. DOMAIN actor = Fields /\ DOMAIN B = Fields
    BY StepBegins
  <2>2. /\ B.cur_round = actor.cur_round /\ B.real = actor.real /\ B.virt = actor.virt
        /\ B.due = actor.due \cup {d}
        /\ B.abort = actor.abort /\ B.chain = actor.chain /\ B.asks = actor.asks /\ SameRequests(actor, B)
    BY <2>1 DEF Fields, SameRequests
  <2>3. SameCandidate(actor, B) /\ SameSignature(actor, B) /\ SameVerdicts(actor, B)
    BY <2>1 DEF Fields, SameCandidate, SameSignature, SameVerdicts
  <2>4. actor' = B /\ fly' = fly /\ setup' = setup /\ dec' = dec /\ saved' = saved /\ failures' = failures
        /\ crashes' = crashes
    BY <1>2 DEF Elapse
  <2> HIDE DEF B
  <2>5. RoundTyped(B) /\ RequestTyped(B) /\ B.early \subseteq Cand
    BY <2>2, <2>3, StepBegins DEF ActorTyped, RoundTyped, RequestTyped, VerdictsTyped, SameVerdicts, SameRequests
  <2> QED BY <2>1, <2>2, <2>3, <2>4, <2>5, QuietStep DEF SameVerdicts, SameRequests
<1>3. ASSUME NEW c \in Cand, ClockPasses(c)
      PROVE  Rest' /\ (Sound => Sound')
  <2> DEFINE B == [actor EXCEPT !.early = @ \ {c}]
  <2>1. DOMAIN actor = Fields /\ DOMAIN B = Fields
    BY StepBegins
  <2>2. SameRound(actor, B) /\ SameRequests(actor, B) /\ SameCandidate(actor, B) /\ SameSignature(actor, B)
    BY <2>1 DEF Fields, SameRound, SameRequests, SameCandidate, SameSignature
  <2>3. /\ B.pending_approve = actor.pending_approve /\ B.approved = actor.approved /\ B.early = actor.early \ {c}
        /\ B.rejected = actor.rejected /\ B.pending_reject = actor.pending_reject
        /\ B.active_requests = actor.active_requests /\ B.blocks = actor.blocks /\ B.first = actor.first
        /\ B.asks = actor.asks
    BY <2>1 DEF Fields
  <2>4. actor' = B /\ fly' = fly /\ setup' = setup /\ dec' = dec /\ saved' = saved /\ failures' = failures
        /\ crashes' = crashes
    BY <1>3 DEF ClockPasses
  <2> HIDE DEF B
  <2>5. RoundTyped(B) /\ RequestTyped(B) /\ B.early \subseteq Cand
    BY <2>2, <2>3, StepBegins, SameTyped DEF ActorTyped, VerdictsTyped
  <2> QED BY <2>1, <2>2, <2>3, <2>4, <2>5, QuietStep DEF SameRound, SameRequests
<1> QED BY <1>1, <1>2, <1>3

\* The own block is on disk: the state of a later start.
LEMMA BlockStoredStep ==
  ASSUME Rest, BlockStored
  PROVE  Rest' /\ (Sound => Sound')
<1>1. /\ saved' = actor.real /\ actor' = actor /\ fly' = fly
      /\ setup' = setup /\ dec' = dec /\ failures' = failures /\ crashes' = crashes
  BY DEF BlockStored
<1>2. Rest'
  BY <1>1, StepBegins, RestAfter
<1> QED BY <1>1, <1>2 DEF Sound, ChecksHold, VerdictsMatch

\* on_catchain_started(): nothing is pending, and the questions are asked anew.
LEMMA StartedLemma ==
  ASSUME Session, NEW S \in States, NEW vote
  PROVE  LET B == Started(S, vote)
         IN  Fine(B, {}) /\ ~ B.abort /\ VerdictsMatch(B, {} \cup B.asks)
<1> DEFINE load == {<<"load", S.round, c>> : c \in Says(S, "approve") \ {Skip}}
           A == [cur_round |-> S.round, real |-> S, virt |-> S,
                 requested |-> FALSE, requested_now |-> FALSE,
                 pending_generate |-> FALSE, generated |-> FALSE, sent_generated |-> FALSE, generated_block |-> None,
                 pending_approve |-> {}, approved |-> {}, early |-> {}, rejected |-> {}, pending_reject |-> {},
                 pending_sign |-> FALSE, signed |-> FALSE, signed_block |-> Skip,
                 active_requests |-> {}, blocks |-> <<>>, first |-> {},
                 due |-> {}, asks |-> load,
                 chain |-> "active", force |-> FALSE, asked |-> FALSE, abort |-> FALSE]
<1>1. S.round \in Round /\ S.round <= S.round
  BY StateFields DEF Round
<1>2. \A q \in load : q \in Questions /\ q[1] = "load" /\ q[2] = S.round
  <2>1. Says(S, "approve") \ {Skip} \subseteq Cand
    BY StateFields DEF Says
  <2> QED BY <1>1, <2>1 DEF Questions
<1> HIDE DEF load
<1>3. DOMAIN A = Fields
  BY SMTT(30) DEF Fields
<1>4. ActorTyped(A)
  <2>1. RoundTyped(A) /\ RequestTyped(A) /\ CandidateTyped(A) /\ SignatureTyped(A)
    BY <1>1 DEF RoundTyped, RequestTyped, CandidateTyped, SignatureTyped
  <2>2. VerdictsTyped(A)
    BY DEF VerdictsTyped
  <2> QED BY <1>2, <1>3, <2>1, <2>2 DEF ActorTyped
<1>5. /\ A.cur_round = S.round /\ A.real = S /\ A.virt = S /\ A.asks = load /\ A.abort = FALSE
      /\ A.chain = "active" /\ A.requested_now = FALSE
      /\ A.pending_sign = FALSE /\ A.active_requests = {} /\ A.pending_approve = {}
      /\ A.generated = FALSE /\ A.signed = FALSE
      /\ A.approved = {} /\ A.pending_reject = {} /\ A.rejected = {}
  OBVIOUS
<1> HIDE DEF A
<1>6. \A k, r, c : <<k, r, c>> \in load => k = "load"
  <2> SUFFICES ASSUME NEW k, NEW r, NEW c, <<k, r, c>> \in load PROVE k = "load"
    OBVIOUS
  <2> QED BY <1>2
<1>7. Right(A, {})
  <2>0. {} \cup A.asks = load
    BY <1>5
  <2>1. PendingMatches(A, load)
    BY <1>5, <1>6 DEF PendingMatches
  <2>2. QuestionsMatch(A, load)
    BY <1>1, <1>2, <1>5, <1>6 DEF QuestionsMatch
  <2>3. WaitingMatches(A)
    BY <1>5 DEF WaitingMatches
  <2> QED BY <2>0, <2>1, <2>2, <2>3 DEF Right
<1>8. Ready(A, {})
  BY <1>4, <1>5, <1>7 DEF Ready, Heard
<1>9. VerdictsMatch(A, {} \cup A.asks)
  <2>1. {} \cup A.asks = load
    BY <1>5
  <2> QED BY <1>2, <1>5, <2>1 DEF VerdictsMatch
<1>10. Covers(A.virt, A.real)
  BY <1>5 DEF Covers
<1>11. Checked(A, CheckAll(A, vote), {})
  BY <1>8, CheckAllLemma
<1>12. Started(S, vote) = CheckAll(A, vote)
  BY DEF Started, A, load
<1> QED BY <1>5, <1>9, <1>10, <1>11, <1>12 DEF Checked, Fine, SameRound

\* A restart.
LEMMA RestartStep ==
  ASSUME Rest, Restart
  PROVE  Rest' /\ Sound'
<1> PICK vote \in Vote : actor' = [Started(saved, vote) EXCEPT !.asks = {}] /\ fly' = Started(saved, vote).asks
  BY DEF Restart
<1> DEFINE A == Started(saved, vote)
           B == [A EXCEPT !.asks = {}]
<1>1. Fine(A, {}) /\ ~ A.abort /\ VerdictsMatch(A, {} \cup A.asks)
  BY StepBegins, StartedLemma
<1> HIDE DEF A
<1>2. /\ Fine(B, {} \cup A.asks) /\ B.asks = {} /\ B.abort = A.abort
      /\ VerdictsMatch(A, {} \cup A.asks) => VerdictsMatch(B, {} \cup A.asks)
  BY <1>1, BecomesLemma
<1>3. actor' = B /\ fly' = {} \cup A.asks
  BY DEF A
<1>4. setup' = setup /\ dec' = dec /\ saved' \in States /\ failures' \in Nat /\ crashes' \in Nat
  BY StepBegins, SMTT(30) DEF Restart
<1> HIDE DEF B
<1>5. Rest'
  BY <1>2, <1>3, <1>4, StepBegins, RestAfter
<1>6. Sound'
  BY <1>1, <1>2, <1>3 DEF Sound, ChecksHold, VerdictsMatch
<1> QED BY <1>5, <1>6

\* The start.
LEMMA StartsRight ==
  ASSUME Init
  PROVE  Rest /\ Sound
<1> PICK vote \in Vote : actor = [Started(NewState(0), vote) EXCEPT !.asks = {}] /\ fly = Started(NewState(0), vote).asks
  BY DEF Init
<1> DEFINE A == Started(NewState(0), vote)
           B == [A EXCEPT !.asks = {}]
<1>1. Session
  BY ActorAssumption DEF Init, Session, Cand, Skip, Round
<1>2. NewState(0) \in States
  <2>1. 0 \in Round
    BY ActorAssumption, SMTT(30) DEF Round
  <2> QED BY <2>1, NewStateTyped
<1>3. Fine(A, {}) /\ ~ A.abort /\ VerdictsMatch(A, {} \cup A.asks)
  BY <1>1, <1>2, StartedLemma
<1> HIDE DEF A
<1>4. /\ Fine(B, {} \cup A.asks) /\ B.asks = {} /\ B.abort = A.abort
      /\ VerdictsMatch(A, {} \cup A.asks) => VerdictsMatch(B, {} \cup A.asks)
  BY <1>3, BecomesLemma
<1>5. actor = B /\ fly = {} \cup A.asks
  BY DEF A
<1> HIDE DEF B
<1>6. Resting(actor, fly)
  BY <1>1, <1>2, <1>4, <1>5 DEF Resting, Init
<1> QED BY <1>3, <1>4, <1>5, <1>6, RestIsFine DEF Sound, ChecksHold

\* A question of another round, or of a kind with no flag, is answered.
LEMMA DropQuestion ==
  ASSUME NEW A, NEW F, Fine(A, F), A.asks = {}, NEW k, NEW r, NEW c,
         r # A.cur_round \/ k \in {"generate", "load"}
  PROVE  /\ Fine(A, F \ {<<k, r, c>>})
         /\ VerdictsMatch(A, F \cup A.asks) => VerdictsMatch(A, (F \ {<<k, r, c>>}) \cup A.asks)
<1> DEFINE q == <<k, r, c>>
           G == F \ {q}
<1>1. F \cup A.asks = F /\ G \cup A.asks = G /\ G \subseteq F
  OBVIOUS
<1>2. \A d : \A kind \in {"sign", "get", "validate", "approve"} : <<kind, A.cur_round, d>> # q
  OBVIOUS
<1>3. Right(A, F) /\ PendingMatches(A, F) /\ QuestionsMatch(A, F) /\ WaitingMatches(A)
  BY <1>1 DEF Fine, Ready, Right
<1>4. \A d : \A kind \in {"sign", "get", "validate", "approve"} : <<kind, A.cur_round, d>> \in G <=> <<kind, A.cur_round, d>> \in F
  BY <1>2
<1> HIDE DEF G, q
<1>5. PendingMatches(A, G)
  <2>1. A.pending_sign <=> \E d \in Cand : <<"sign", A.cur_round, d>> \in G
    BY <1>3, <1>4 DEF PendingMatches
  <2>2. \A d \in Cand : d \in A.active_requests <=> <<"get", A.cur_round, d>> \in G
    BY <1>3, <1>4 DEF PendingMatches
  <2>3. \A d \in A.pending_approve : {<<"validate", A.cur_round, d>>, <<"approve", A.cur_round, d>>} \cap G # {}
    BY <1>3, <1>4 DEF PendingMatches
  <2> QED BY <2>1, <2>2, <2>3 DEF PendingMatches
<1>6. QuestionsMatch(A, G)
  BY <1>1, <1>3 DEF QuestionsMatch
<1>7. Right(A, G)
  BY <1>1, <1>3, <1>5, <1>6 DEF Right
<1>8. Fine(A, G)
  BY <1>1, <1>7 DEF Fine, Ready
<1>9. VerdictsMatch(A, F) => VerdictsMatch(A, G)
  BY <1>1 DEF VerdictsMatch
<1> QED BY <1>1, <1>8, <1>9 DEF G, q

\* request_new_block() after something has been decided.
LEMMA RequestReady ==
  ASSUME NEW A, NEW F, ActorTyped(A), F \subseteq Questions, Right(A, F),
         A.requested => A.chain = "active" \/ A.asked, NEW now \in BOOLEAN
  PROVE  LET B == RequestNewBlock(A, now)
         IN  /\ Ready(B, F) /\ SameRound(A, B) /\ B.asks = A.asks
             /\ VerdictsMatch(A, F \cup A.asks) => VerdictsMatch(B, F \cup B.asks)
<1> DEFINE B == RequestNewBlock(A, now)
<1>1. A.requested_now => A.requested
  BY DEF Right, WaitingMatches
<1>2. /\ ActorTyped(B) /\ SameRound(A, B) /\ SameCandidate(A, B) /\ SameVerdicts(A, B)
      /\ SameSignature(A, B) /\ B.asks = A.asks
      /\ B.requested /\ (B.requested_now => B.requested)
      /\ B.chain = "active" \/ B.asked
  BY <1>1, RequestLemma
<1> HIDE DEF B
<1>3. Right(B, F) /\ (VerdictsMatch(A, F \cup A.asks) => VerdictsMatch(B, F \cup B.asks))
  BY <1>2, SameRight
<1>4. Ready(B, F)
  BY <1>2, <1>3 DEF Ready, Heard
<1> QED BY <1>2, <1>3, <1>4 DEF B

\* blocks_ gets another candidate, or one that is newer.
LEMMA BlocksGrow ==
  ASSUME NEW A, NEW B, NEW F, Ready(A, F), DOMAIN B = Fields, VerdictsTyped(B),
         SameRound(A, B), SameRequests(A, B), SameCandidate(A, B), SameSignature(A, B), B.asks = A.asks,
         B.pending_approve = A.pending_approve, B.approved = A.approved, B.rejected = A.rejected,
         B.pending_reject = A.pending_reject, B.active_requests = A.active_requests,
         DOMAIN A.blocks \subseteq DOMAIN B.blocks,
         \A d \in DOMAIN A.blocks : A.blocks[d] <= B.blocks[d]
  PROVE  Checked(A, B, F)
<1>1. ActorTyped(B)
  BY SameTyped DEF Ready, ActorTyped
<1>2. Right(B, F) /\ Heard(B)
  BY SMTT(30)
     DEF Ready, Right, PendingMatches, QuestionsMatch, WaitingMatches, Heard,
         SameRound, SameRequests, SameCandidate, SameSignature
<1>3. ASSUME VerdictsMatch(A, F \cup A.asks)
      PROVE  VerdictsMatch(B, F \cup B.asks)
  <2>1. ASSUME NEW q \in F \cup A.asks, q[3] \in DOMAIN A.blocks, q[2] <= A.blocks[q[3]]
        PROVE  q[3] \in DOMAIN B.blocks /\ q[2] <= B.blocks[q[3]]
    <3>1. A.blocks[q[3]] \in Round /\ B.blocks[q[3]] \in Round /\ q[2] \in Round
      BY <2>1 DEF Ready, ActorTyped, VerdictsTyped, Questions
    <3>2. A.blocks[q[3]] <= B.blocks[q[3]]
      BY <2>1
    <3>3. \A x, y, z \in Round : x <= y /\ y <= z => x <= z
      BY SMTT(30) DEF Round
    <3> QED BY <2>1, <3>1, <3>2, <3>3, SMTT(30)
  <2> QED BY <1>3, <2>1 DEF VerdictsMatch, SameRound
<1> QED BY <1>1, <1>2, <1>3 DEF Checked, Ready, Forced, SameRound, SameRequests

\* process_broadcast(), process_received_block(): the CHECK that a candidate
\* that arrives has no verdict holds where verdicts are on what is at hand.
LEMMA ProcessBroadcastLemma ==
  ASSUME Session, NEW A, NEW F, Fine(A, F), NEW c \in Cand, NEW r \in Round, NEW overlay \in BOOLEAN
  PROVE  LET B == ProcessBroadcast(A, c, r, overlay)
         IN  /\ Fine(B, F)
             /\ VerdictsMatch(A, F \cup A.asks) => VerdictsMatch(B, F \cup B.asks) /\ B.abort = A.abort
<1> DEFINE B == ReceivedBlock(A, c, r, overlay)
           Good(X) == /\ Fine(X, F)
                      /\ VerdictsMatch(A, F \cup A.asks) => VerdictsMatch(X, F \cup X.asks) /\ X.abort = A.abort
<1>0. /\ Ready(A, F) /\ ActorTyped(A) /\ DOMAIN A = Fields /\ VerdictsTyped(A)
      /\ A.cur_round = A.real.round /\ Covers(A.virt, A.real) /\ A.virt \in States
  BY DEF Fine, Ready, ActorTyped, RoundTyped
<1>1. ASSUME NEW X, Checked(A, X, F)
      PROVE  Good(X)
  BY <1>0, <1>1 DEF Checked, Fine, SameRound
<1>2. Good(A)
  BY <1>0, <1>1, CheckedReflexive
<1>3. ASSUME c \in DOMAIN A.blocks
      PROVE  Good(B)
  <2> DEFINE m == Max({A.blocks[c], r})
             X == [A EXCEPT !.blocks = [A.blocks EXCEPT ![c] = m]]
  <2>1. m \in Round /\ A.blocks[c] <= m /\ A.blocks[c] \in Round
    BY <1>0, <1>3, MaxOfTwo DEF VerdictsTyped
  <2>2. B = X
    BY <1>0, <1>3 DEF ReceivedBlock
  <2> HIDE DEF m
  <2>3. DOMAIN X = Fields
    BY <1>0
  <2>4. SameRound(A, X) /\ SameRequests(A, X) /\ SameCandidate(A, X) /\ SameSignature(A, X) /\ X.asks = A.asks
    BY <1>0 DEF Fields, SameRound, SameRequests, SameCandidate, SameSignature
  <2>5. /\ X.pending_approve = A.pending_approve /\ X.approved = A.approved /\ X.rejected = A.rejected
        /\ X.pending_reject = A.pending_reject /\ X.active_requests = A.active_requests
        /\ X.early = A.early /\ X.first = A.first /\ X.blocks = [A.blocks EXCEPT ![c] = m]
    BY <1>0 DEF Fields
  <2> HIDE DEF X
  <2>6. DOMAIN X.blocks = DOMAIN A.blocks /\ \A d \in DOMAIN A.blocks : X.blocks[d] = IF d = c THEN m ELSE A.blocks[d]
    BY <2>5
  <2>7. VerdictsTyped(X)
    <3>1. X.blocks \in [DOMAIN X.blocks -> Round]
      BY <1>0, <2>1, <2>5 DEF VerdictsTyped
    <3> QED BY <1>0, <2>5, <2>6, <3>1 DEF VerdictsTyped
  <2>8. \A d \in DOMAIN A.blocks : A.blocks[d] <= X.blocks[d]
    BY <1>0, <2>1, <2>6 DEF VerdictsTyped, Round
  <2>9. Checked(A, X, F)
    BY <1>0, <2>3, <2>4, <2>5, <2>6, <2>7, <2>8, BlocksGrow
  <2> QED BY <1>1, <2>2, <2>9
<1>4. ASSUME c \notin DOMAIN A.blocks /\ overlay /\ ~ Unique(A, c, r)
      PROVE  Good(B)
  BY <1>2, <1>4 DEF ReceivedBlock
<1>5. ASSUME c \notin DOMAIN A.blocks /\ ~ (overlay /\ ~ Unique(A, c, r))
      PROVE  Good(B)
  <2> DEFINE more == [d \in DOMAIN A.blocks \cup {c} |-> IF d = c THEN r ELSE A.blocks[d]]
             firsts == IF overlay THEN A.first \cup {<<c, r>>} ELSE A.first
             K == [A EXCEPT !.blocks = more, !.first = firsts]
             verdicts == A.pending_approve \cup A.approved \cup A.pending_reject \cup A.rejected
  <2>1. B = IF r # A.cur_round THEN K
            ELSE IF c \in verdicts THEN [K EXCEPT !.abort = TRUE]
            ELSE IF c \in ToApprove(A.virt) THEN TryApproveBlocks(K, {c}) ELSE K
    BY <1>0, <1>5 DEF ReceivedBlock, Fields
  <2>2. /\ DOMAIN more = DOMAIN A.blocks \cup {c} /\ more \in [DOMAIN more -> Round]
        /\ \A d \in DOMAIN A.blocks : A.blocks[d] <= more[d]
    BY <1>0, <1>5, SMTT(30) DEF VerdictsTyped, Round
  <2>3. firsts \subseteq Cand \X Round
    BY <1>0, SMTT(30) DEF VerdictsTyped
  <2> HIDE DEF more, firsts
  <2>4. DOMAIN K = Fields
    BY <1>0
  <2>5. SameRound(A, K) /\ SameRequests(A, K) /\ SameCandidate(A, K) /\ SameSignature(A, K) /\ K.asks = A.asks
    BY <1>0 DEF Fields, SameRound, SameRequests, SameCandidate, SameSignature
  <2>6. /\ K.pending_approve = A.pending_approve /\ K.approved = A.approved /\ K.rejected = A.rejected
        /\ K.pending_reject = A.pending_reject /\ K.active_requests = A.active_requests
        /\ K.early = A.early /\ K.first = firsts /\ K.blocks = more
    BY <1>0 DEF Fields
  <2> HIDE DEF K
  <2>7. VerdictsTyped(K)
    BY <1>0, <2>2, <2>3, <2>6 DEF VerdictsTyped
  <2>8. Checked(A, K, F)
    BY <1>0, <2>2, <2>4, <2>5, <2>6, <2>7, BlocksGrow
  <2>9. Good(K)
    BY <1>1, <2>8
  <2>10. Good(TryApproveBlocks(K, {c}))
    <3>1. Checked(K, TryApproveBlocks(K, {c}), F)
      BY <2>8, TryApproveBlocksLemma DEF Checked
    <3>2. Checked(A, TryApproveBlocks(K, {c}), F)
      BY <2>8, <3>1, CheckedTransitive
    <3> QED BY <1>1, <3>2
  <2>11. ASSUME c \in verdicts
         PROVE  Good([K EXCEPT !.abort = TRUE])
    <3> DEFINE X == [K EXCEPT !.abort = TRUE]
    <3>1. ~ VerdictsMatch(A, F \cup A.asks)
      <4>1. c # Skip
        BY <1>0, ActorAssumption DEF Session, Cand, Skip
      <4> QED BY <1>5, <2>11, <4>1 DEF VerdictsMatch
    <3>2. /\ DOMAIN X = Fields /\ X.cur_round = K.cur_round /\ X.real = K.real /\ X.virt = K.virt /\ X.due = K.due
          /\ X.chain = K.chain /\ X.abort = TRUE /\ X.asks = K.asks
      BY <2>4 DEF Fields
    <3>3. SameRequests(K, X) /\ SameCandidate(K, X) /\ SameSignature(K, X) /\ SameVerdicts(K, X)
      BY <2>4 DEF Fields, SameRequests, SameCandidate, SameSignature, SameVerdicts
    <3> HIDE DEF X
    <3>4. ActorTyped(K) /\ Ready(K, F) /\ Fine(K, F)
      BY <2>9 DEF Fine, Ready
    <3>5. ActorTyped(X)
      <4>1. RoundTyped(X)
        BY <3>2, <3>4 DEF ActorTyped, RoundTyped
      <4> QED BY <3>2, <3>3, <3>4, <4>1, SameTyped DEF ActorTyped
    <3>6. Right(X, F) /\ Heard(X)
      <4>1. PendingMatches(X, F \cup X.asks)
        BY <3>2, <3>3, <3>4 DEF Ready, Right, PendingMatches, SameSignature, SameVerdicts
      <4>2. QuestionsMatch(X, F \cup X.asks) /\ WaitingMatches(X)
        BY <3>2, <3>3, <3>4 DEF Ready, Right, QuestionsMatch, WaitingMatches,
                                SameRequests, SameCandidate, SameSignature, SameVerdicts
      <4>3. Heard(X)
        BY <3>2, <3>3, <3>4 DEF Ready, Heard, SameRequests, SameCandidate, SameSignature
      <4> QED BY <4>1, <4>2, <4>3 DEF Right
    <3>7. Fine(X, F)
      BY <3>2, <3>4, <3>5, <3>6 DEF Fine, Ready
    <3> QED BY <3>1, <3>7 DEF X
  <2> HIDE DEF verdicts, Good, B
  <2> QED BY <2>1, <2>9, <2>10, <2>11
<1>6. Good(B)
  BY <1>3, <1>4, <1>5
<1> HIDE DEF B
<1>7. ProcessBroadcast(A, c, r, overlay) = A \/ ProcessBroadcast(A, c, r, overlay) = B
  BY DEF ProcessBroadcast, B
<1> QED BY <1>2, <1>6, <1>7

\* The parts of a question on its way.
LEMMA QuestionParts ==
  ASSUME Rest, NEW k, NEW r, NEW c, <<k, r, c>> \in fly
  PROVE  r \in Round /\ r <= actor.cur_round /\ (k = "sign" => c = dec[r])
<1>1. fly \subseteq Questions /\ QuestionsMatch(actor, fly)
  BY DEF Rest, RecordIsRight, TypeOK
<1>2. <<k, r, c>>[1] = k /\ <<k, r, c>>[2] = r /\ <<k, r, c>>[3] = c
  OBVIOUS
<1>3. r <= actor.cur_round /\ (k = "sign" => c = dec[r])
  BY <1>1, <1>2 DEF QuestionsMatch
<1> QED BY <1>1, <1>3 DEF Questions

\* A candidate arrives.
LEMMA ArrivalSteps ==
  ASSUME Rest, NEW r \in Round, NEW c \in Cand, Loaded(r, c) \/ Broadcast(r, c)
  PROVE  Rest' /\ (Sound => Sound')
<1>1. setup' = setup /\ dec' = dec /\ saved' = saved /\ failures' \in Nat /\ crashes' = crashes
  BY StepBegins DEF Loaded, Broadcast
<1>2. CASE Loaded(r, c)
  <2> DEFINE A == ProcessBroadcast(actor, c, r, FALSE)
             q == <<"load", r, c>>
  <2>1. /\ Fine(actor, fly \ {q})
        /\ VerdictsMatch(actor, fly \cup actor.asks) => VerdictsMatch(actor, (fly \ {q}) \cup actor.asks)
    BY StepBegins, DropQuestion
  <2>2. Becomes(A, {q})
    BY <1>2 DEF Loaded
  <2> HIDE DEF q
  <2>3. /\ Fine(A, fly \ {q})
        /\ VerdictsMatch(actor, (fly \ {q}) \cup actor.asks)
             => VerdictsMatch(A, (fly \ {q}) \cup A.asks) /\ A.abort = actor.abort
    <3>1. Session /\ FALSE \in BOOLEAN
      BY StepBegins
    <3> QED BY <2>1, <3>1, ProcessBroadcastLemma, ZenonT(30)
  <2> HIDE DEF A
  <2> QED BY <1>1, <2>1, <2>2, <2>3, StepBegins, StepEnds, SMTT(30)
<1>3. CASE Broadcast(r, c)
  <2> DEFINE A == ProcessBroadcast(actor, c, r, TRUE)
  <2>1. Becomes(A, {})
    BY <1>3 DEF Broadcast
  <2>2. /\ Fine(A, fly)
        /\ VerdictsMatch(actor, fly \cup actor.asks)
             => VerdictsMatch(A, fly \cup A.asks) /\ A.abort = actor.abort
    <3>1. Session /\ Fine(actor, fly) /\ TRUE \in BOOLEAN
      BY StepBegins
    <3> QED BY <3>1, ProcessBroadcastLemma, ZenonT(30)
  <2> HIDE DEF A
  <2> QED BY <1>1, <2>1, <2>2, StepBegins, StepEnds
<1> QED BY <1>2, <1>3

\* A collation fails.
LEMMA GenerateFailsStep ==
  ASSUME Rest, NEW r \in Round, GenerateFails(r)
  PROVE  Rest' /\ (Sound => Sound')
<1> DEFINE q == <<"generate", r, None>>
<1>1. setup' = setup /\ dec' = dec /\ saved' = saved /\ failures' \in Nat /\ crashes' = crashes
  BY StepBegins DEF GenerateFails
<1>2. /\ Fine(actor, fly \ {q})
      /\ VerdictsMatch(actor, fly \cup actor.asks) => VerdictsMatch(actor, (fly \ {q}) \cup actor.asks)
  BY StepBegins, DropQuestion
<1>3. Becomes(actor, {q})
  BY DEF GenerateFails
<1> HIDE DEF q
<1> QED BY <1>1, <1>2, <1>3, StepBegins, StepEnds

\* An answer that is not of this round changes nothing (signed_block(),
\* generated_block(), candidate_decision_ok() and _fail()).
LEMMA LateAnswer ==
  ASSUME Rest, NEW k, NEW r, NEW c, r # actor.cur_round, Becomes(actor, {<<k, r, c>>}),
         setup' = setup, dec' = dec, saved' = saved, failures' \in Nat, crashes' = crashes
  PROVE  Rest' /\ (Sound => Sound')
<1> DEFINE q == <<k, r, c>>
<1>1. /\ Fine(actor, fly \ {q})
      /\ VerdictsMatch(actor, fly \cup actor.asks) => VerdictsMatch(actor, (fly \ {q}) \cup actor.asks)
  BY StepBegins, DropQuestion
<1> HIDE DEF q
<1>2. Becomes(actor, {q})
  BY DEF q
<1> QED BY <1>1, <1>2, StepBegins, StepEnds

\* signed_block()
LEMMA SignedStep ==
  ASSUME Rest, NEW r \in Round, NEW c \in Cand, SignedBlock(r, c)
  PROVE  Rest' /\ (Sound => Sound')
<1> DEFINE q == <<"sign", r, c>>
           F == fly \ {q}
<1>1. setup' = setup /\ dec' = dec /\ saved' = saved /\ failures' \in Nat /\ crashes' = crashes
  BY StepBegins DEF SignedBlock
<1>2. CASE r # actor.cur_round
  BY <1>1, <1>2, LateAnswer DEF SignedBlock
<1>3. CASE r = actor.cur_round
  <2> DEFINE B == [actor EXCEPT !.pending_sign = FALSE, !.signed = TRUE, !.signed_block = c]
             A == RequestNewBlock(B, FALSE)
  <2>1. Becomes(A, {q})
    BY <1>3 DEF SignedBlock
  <2>2. DOMAIN actor = Fields /\ DOMAIN B = Fields /\ c = dec[r]
    BY StepBegins, QuestionParts DEF SignedBlock
  <2>3. SameRound(actor, B) /\ SameRequests(actor, B) /\ SameCandidate(actor, B) /\ B.asks = actor.asks
    BY <2>2 DEF Fields, SameRound, SameRequests, SameCandidate
  <2>4. SameVerdicts(actor, B) /\ B.pending_sign = FALSE /\ B.signed = TRUE /\ B.signed_block = c
    BY <2>2 DEF Fields, SameVerdicts
  <2> HIDE DEF A, B
  <2>5. ActorTyped(B)
    <3>1. SignatureTyped(B)
      BY <2>4 DEF SignatureTyped
    <3> QED BY <2>2, <2>3, <2>4, <3>1, StepBegins, SameTyped DEF ActorTyped
  <2>6. B.asks = {} /\ F \cup B.asks = F /\ F \subseteq fly /\ F \subseteq Questions
    BY <2>3, StepBegins DEF Ready
  <2>7. PendingMatches(actor, fly) /\ QuestionsMatch(actor, fly) /\ WaitingMatches(actor)
    BY DEF Rest, RecordIsRight
  <2>8. PendingMatches(B, F)
    <3>1. \A d \in Cand : <<"sign", B.cur_round, d>> \notin F
      BY <1>3, <2>2, <2>3, QuestionParts DEF SameRound
    <3>2. \A d : <<"get", B.cur_round, d>> \in F <=> <<"get", actor.cur_round, d>> \in fly
      BY <2>3 DEF SameRound
    <3>3. \A d : {<<"validate", B.cur_round, d>>, <<"approve", B.cur_round, d>>} \cap F
                   = {<<"validate", actor.cur_round, d>>, <<"approve", actor.cur_round, d>>} \cap fly
      BY <2>3 DEF SameRound
    <3> HIDE DEF F
    <3> QED BY <2>4, <2>7, <3>1, <3>2, <3>3 DEF PendingMatches, SameVerdicts
  <2> HIDE DEF F
  <2>9. QuestionsMatch(B, F)
    BY <2>3, <2>6, <2>7 DEF QuestionsMatch, SameRound, SameCandidate
  <2>10. WaitingMatches(B)
    BY <1>3, <2>2, <2>3, <2>4, <2>7 DEF WaitingMatches, SameRound, SameRequests, SameCandidate, SameVerdicts
  <2>11. Right(B, F)
    BY <2>6, <2>8, <2>9, <2>10 DEF Right
  <2>12. B.requested => B.chain = "active" \/ B.asked
    BY <2>3, StepBegins DEF SameRound, SameRequests, Ready, Heard
  <2>13. /\ Ready(A, F) /\ SameRound(B, A) /\ A.asks = B.asks
         /\ VerdictsMatch(B, F \cup B.asks) => VerdictsMatch(A, F \cup A.asks)
    BY <2>5, <2>6, <2>11, <2>12, RequestReady DEF A
  <2>14. Fine(A, F)
    BY <2>3, <2>13, StepBegins DEF Fine, SameRound
  <2>15. VerdictsMatch(actor, fly \cup actor.asks) => VerdictsMatch(B, F \cup B.asks)
    BY <2>3, <2>4, <2>6, StepBegins DEF VerdictsMatch, SameRound, SameVerdicts
  <2>16. A.abort = actor.abort
    BY <2>3, <2>13 DEF SameRound
  <2> QED BY <1>1, <2>1, <2>13, <2>14, <2>15, <2>16, StepBegins, StepEnds DEF F
<1> QED BY <1>2, <1>3

\* A verdict on a candidate: its question is answered and it no longer waits.
LEMMA VerdictReady ==
  ASSUME NEW A, NEW B, NEW F, Fine(A, F), A.asks = {}, NEW k \in {"validate", "approve"}, NEW r, NEW c,
         DOMAIN B = Fields, VerdictsTyped(B), SameRound(A, B), SameRequests(A, B), SameCandidate(A, B),
         SameSignature(A, B), B.asks = A.asks, B.pending_approve = A.pending_approve \ {c},
         B.active_requests = A.active_requests, B.blocks = A.blocks
  PROVE  Fine(B, F \ {<<k, r, c>>})
<1> DEFINE q == <<k, r, c>>
           G == F \ {q}
<1>1. F \cup A.asks = F /\ G \cup B.asks = G /\ G \subseteq F
  OBVIOUS
<1>2. \A d : <<"sign", A.cur_round, d>> # q /\ <<"get", A.cur_round, d>> # q
  OBVIOUS
<1>3. \A d : d # c => <<"validate", A.cur_round, d>> # q /\ <<"approve", A.cur_round, d>> # q
  OBVIOUS
<1>4. PendingMatches(A, F) /\ QuestionsMatch(A, F) /\ WaitingMatches(A)
  BY <1>1 DEF Fine, Ready, Right
<1>5. \A p : p # q => (p \in G <=> p \in F)
  OBVIOUS
<1> HIDE DEF G, q
<1>6. PendingMatches(B, G)
  <2>1. B.pending_sign <=> \E d \in Cand : <<"sign", B.cur_round, d>> \in G
    BY <1>2, <1>4, <1>5 DEF PendingMatches, SameRound, SameSignature
  <2>2. \A d \in Cand : d \in B.active_requests <=> <<"get", B.cur_round, d>> \in G
    BY <1>2, <1>4, <1>5 DEF PendingMatches, SameRound
  <2>3. \A d \in B.pending_approve : {<<"validate", B.cur_round, d>>, <<"approve", B.cur_round, d>>} \cap G # {}
    BY <1>3, <1>4, <1>5, SMTT(30) DEF PendingMatches, SameRound
  <2> QED BY <2>1, <2>2, <2>3 DEF PendingMatches
<1>7. QuestionsMatch(B, G) /\ WaitingMatches(B)
  BY <1>1, <1>4 DEF QuestionsMatch, WaitingMatches, SameRound, SameRequests, SameCandidate, SameSignature
<1>8. Right(B, G)
  BY <1>1, <1>6, <1>7 DEF Right
<1>9. ActorTyped(B)
  BY SameTyped DEF Fine, Ready, ActorTyped
<1>10. Heard(B)
  BY DEF Fine, Ready, Heard, SameRound, SameRequests, SameCandidate, SameSignature
<1> QED BY <1>1, <1>8, <1>9, <1>10 DEF Fine, Ready, SameRound, G, q

\* candidate_decision_ok() and candidate_decision_fail()
LEMMA DecisionStep ==
  ASSUME Rest, NEW r \in Round, NEW c \in Cand, Decision(r, c)
  PROVE  Rest' /\ (Sound => Sound')
<1> DEFINE q == <<"validate", r, c>>
           p == <<"approve", r, c>>
           F == fly \ {q}
<1>1. setup' = setup /\ dec' = dec /\ saved' = saved /\ failures' \in Nat /\ crashes' = crashes
  BY StepBegins DEF Decision
<1>2. CASE r # actor.cur_round
  BY <1>1, <1>2, LateAnswer DEF Decision
<1>3. CASE r = actor.cur_round /\ Valid(c, r)
  <2> DEFINE A == [actor EXCEPT !.asks = @ \cup {<<"approve", r, c>>}]
  <2>1. Becomes(A, {q})
    BY <1>3 DEF Decision, Ask
  <2>2. DOMAIN actor = Fields /\ DOMAIN A = Fields
    BY StepBegins
  <2>3. /\ SameRound(actor, A) /\ SameRequests(actor, A) /\ SameCandidate(actor, A) /\ SameSignature(actor, A)
        /\ A.asks = actor.asks \cup {p}
    BY <2>2 DEF Fields, SameRound, SameRequests, SameCandidate, SameSignature
  <2>4. SameVerdicts(actor, A)
    BY <2>2 DEF Fields, SameVerdicts
  <2> HIDE DEF A
  <2>5. ActorTyped(A)
    <3>1. p \in Questions
      BY DEF Questions
    <3> HIDE DEF p
    <3>2. A.asks \subseteq Questions
      BY <2>3, <3>1, StepBegins
    <3> QED BY <2>2, <2>3, <2>4, <3>2, StepBegins, SameTyped DEF ActorTyped
  <2>6. F \cup A.asks = F \cup {p} /\ F \subseteq fly /\ F \subseteq Questions
    BY <2>3, StepBegins DEF Ready
  <2>7. PendingMatches(actor, fly) /\ QuestionsMatch(actor, fly) /\ WaitingMatches(actor)
    BY DEF Rest, RecordIsRight
  <2>8. /\ \A d : \A kind \in {"sign", "get"} : <<kind, r, d>> \in F \cup {p} <=> <<kind, r, d>> \in fly
        /\ \A d : d # c => (<<"validate", r, d>> \in fly => <<"validate", r, d>> \in F)
        /\ \A d : <<"approve", r, d>> \in fly => <<"approve", r, d>> \in F
        /\ <<"generate", r, None>> \in F \cup {p} => <<"generate", r, None>> \in fly
    OBVIOUS
  <2>9. p[1] = "approve" /\ p[2] = r /\ p[3] = c /\ q[1] = "validate" /\ q[2] = r /\ q[3] = c /\ q \in fly
    BY DEF Decision
  <2> HIDE DEF F
  <2>10. PendingMatches(A, F \cup A.asks)
    <3>1. A.pending_sign <=> \E d \in Cand : <<"sign", A.cur_round, d>> \in F \cup {p}
      BY <1>3, <2>3, <2>7, <2>8 DEF PendingMatches, SameRound, SameSignature
    <3>2. \A d \in Cand : d \in A.active_requests <=> <<"get", A.cur_round, d>> \in F \cup {p}
      BY <1>3, <2>3, <2>4, <2>7, <2>8 DEF PendingMatches, SameRound, SameVerdicts
    <3>3. \A d \in A.pending_approve :
            {<<"validate", A.cur_round, d>>, <<"approve", A.cur_round, d>>} \cap (F \cup {p}) # {}
      <4> SUFFICES ASSUME NEW d \in A.pending_approve
                   PROVE  <<"validate", r, d>> \in F \/ <<"approve", r, d>> \in F \cup {p}
        BY <1>3, <2>3 DEF SameRound
      <4>1. <<"validate", r, d>> \in fly \/ <<"approve", r, d>> \in fly
        BY <1>3, <2>4, <2>7 DEF PendingMatches, SameVerdicts
      <4> QED BY <2>8, <4>1
    <3> QED BY <2>6, <3>1, <3>2, <3>3 DEF PendingMatches
  <2>11. QuestionsMatch(A, F \cup A.asks)
    <3>1. r <= r
      BY DEF Round
    <3> HIDE DEF p
    <3>2. \A x \in F \cup {p} : x[2] <= A.cur_round /\ (x[1] = "sign" => x[3] = dec[x[2]])
      BY <1>3, <2>3, <2>6, <2>7, <2>9, <3>1 DEF QuestionsMatch, SameRound
    <3>3. <<"generate", A.cur_round, None>> \in F \cup {p}
            => A.pending_generate /\ ~ A.generated /\ Says(A.real, "submit") = {}
      BY <1>3, <2>3, <2>7, <2>8 DEF QuestionsMatch, SameRound, SameCandidate
    <3> QED BY <2>6, <3>2, <3>3 DEF QuestionsMatch
  <2>12. WaitingMatches(A) /\ Heard(A)
    BY <2>3, <2>4, <2>7, StepBegins
       DEF WaitingMatches, Ready, Heard, SameRound, SameRequests, SameCandidate, SameSignature, SameVerdicts
  <2>13. Fine(A, F)
    BY <2>3, <2>5, <2>6, <2>10, <2>11, <2>12, StepBegins DEF Fine, Ready, Right, SameRound
  <2>14. ASSUME Sound
         PROVE  ~ A.abort /\ VerdictsMatch(A, F \cup A.asks)
    <3>1. VerdictsMatch(actor, fly) /\ ~ actor.abort
      BY <2>14 DEF Sound, ChecksHold
    <3>2. r <= r + MaxPast
      BY ActorAssumption, SMTT(30) DEF Round
    <3>3. c \in DOMAIN actor.blocks /\ r <= actor.blocks[c]
      BY <1>3, <2>9, <3>1, <3>2 DEF VerdictsMatch
    <3> HIDE DEF p
    <3> QED BY <2>3, <2>4, <2>6, <2>9, <3>1, <3>3 DEF VerdictsMatch, SameRound, SameVerdicts
  <2> QED BY <1>1, <2>1, <2>13, <2>14, StepEnds DEF F
<1>4. CASE r = actor.cur_round /\ ~ Valid(c, r)
  <2> DEFINE A == [actor EXCEPT !.pending_approve = @ \ {c}, !.pending_reject = @ \cup {c}, !.rejected = @ \cup {c}]
  <2>1. Becomes(A, {q})
    BY <1>4 DEF Decision
  <2>2. DOMAIN actor = Fields /\ DOMAIN A = Fields
    BY StepBegins
  <2>3. /\ SameRound(actor, A) /\ SameRequests(actor, A) /\ SameCandidate(actor, A) /\ SameSignature(actor, A)
        /\ A.asks = actor.asks
    BY <2>2 DEF Fields, SameRound, SameRequests, SameCandidate, SameSignature
  <2>4. /\ A.pending_approve = actor.pending_approve \ {c} /\ A.pending_reject = actor.pending_reject \cup {c}
        /\ A.rejected = actor.rejected \cup {c} /\ A.approved = actor.approved /\ A.early = actor.early
        /\ A.active_requests = actor.active_requests /\ A.blocks = actor.blocks /\ A.first = actor.first
    BY <2>2 DEF Fields
  <2> HIDE DEF A
  <2>5. VerdictsTyped(A)
    BY <2>4, StepBegins DEF ActorTyped, VerdictsTyped
  <2>6. Fine(A, F)
    BY <2>2, <2>3, <2>4, <2>5, StepBegins, VerdictReady
  <2>7. ASSUME Sound
        PROVE  ~ A.abort /\ VerdictsMatch(A, F \cup A.asks)
    <3>1. VerdictsMatch(actor, fly) /\ ~ actor.abort
      BY <2>7 DEF Sound, ChecksHold
    <3>2. r <= r + MaxPast
      BY ActorAssumption, SMTT(30) DEF Round
    <3>3. q[1] = "validate" /\ q[2] = r /\ q[3] = c /\ q \in fly
      BY DEF Decision
    <3>4. c \in DOMAIN actor.blocks
      BY <1>4, <3>1, <3>2, <3>3 DEF VerdictsMatch
    <3>5. F \cup A.asks \subseteq fly
      BY <2>3, StepBegins
    <3> HIDE DEF F
    <3> QED BY <2>3, <2>4, <3>1, <3>4, <3>5 DEF VerdictsMatch, SameRound
  <2> QED BY <1>1, <2>1, <2>6, <2>7, StepEnds
<1> QED BY <1>2, <1>3, <1>4

\* candidate_approved_signed(): the candidate is at hand when it comes in time.
LEMMA ApprovedStep ==
  ASSUME Rest, NEW r \in Round, NEW c \in Cand, ApprovedSigned(r, c)
  PROVE  Rest' /\ (Sound /\ Timely => Sound')
<1> DEFINE q == <<"approve", r, c>>
           F == fly \ {q}
<1>1. setup' = setup /\ dec' = dec /\ saved' = saved /\ failures' \in Nat /\ crashes' = crashes
  BY StepBegins DEF ApprovedSigned
<1>2. ASSUME NEW B, DOMAIN B = Fields,
             SameRound(actor, B), SameRequests(actor, B), SameCandidate(actor, B), SameSignature(actor, B),
             B.asks = actor.asks, B.pending_approve = actor.pending_approve \ {c},
             B.approved = actor.approved \cup {c}, B.early \subseteq Cand, B.rejected = actor.rejected,
             B.pending_reject = actor.pending_reject,
             B.active_requests = actor.active_requests, B.blocks = actor.blocks, B.first = actor.first
      PROVE  /\ Fine(B, F)
             /\ Sound /\ Timely => ~ B.abort /\ VerdictsMatch(B, F \cup B.asks)
  <2>1. VerdictsTyped(B)
    BY <1>2, StepBegins DEF ActorTyped, VerdictsTyped
  <2>2. Fine(B, F)
    BY <1>2, <2>1, StepBegins, VerdictReady
  <2>3. ASSUME Sound, Timely
        PROVE  ~ B.abort /\ VerdictsMatch(B, F \cup B.asks)
    <3>1. VerdictsMatch(actor, fly) /\ ~ actor.abort
      BY <2>3 DEF Sound, ChecksHold
    <3>2. q[1] = "approve" /\ q[2] = r /\ q[3] = c /\ q \in fly
      BY DEF ApprovedSigned
    <3>3. actor.cur_round <= r + MaxPast
      BY <2>3, <3>2 DEF Timely
    <3>4. c \in DOMAIN actor.blocks
      BY <3>1, <3>2, <3>3 DEF VerdictsMatch
    <3>5. F \cup B.asks \subseteq fly
      BY <1>2, StepBegins
    <3> HIDE DEF F
    <3> QED BY <1>2, <3>1, <3>4, <3>5 DEF VerdictsMatch, SameRound
  <2> QED BY <2>2, <2>3
<1> DEFINE U == [actor EXCEPT !.pending_approve = @ \ {c}, !.approved = @ \cup {c}]
           D == [U EXCEPT !.early = @ \ {c}]
           E == [U EXCEPT !.early = @ \cup {c}]
           A == RequestNewBlock(D, FALSE)
<1>3. DOMAIN actor = Fields /\ DOMAIN D = Fields /\ DOMAIN E = Fields
  BY StepBegins
<1>4. /\ SameRound(actor, D) /\ SameRequests(actor, D) /\ SameCandidate(actor, D) /\ SameSignature(actor, D)
      /\ D.asks = actor.asks
  BY <1>3 DEF Fields, SameRound, SameRequests, SameCandidate, SameSignature
<1>5. /\ SameRound(actor, E) /\ SameRequests(actor, E) /\ SameCandidate(actor, E) /\ SameSignature(actor, E)
      /\ E.asks = actor.asks
  BY <1>3 DEF Fields, SameRound, SameRequests, SameCandidate, SameSignature
<1>6. /\ D.pending_approve = actor.pending_approve \ {c} /\ D.approved = actor.approved \cup {c}
      /\ D.early = actor.early \ {c} /\ D.rejected = actor.rejected /\ D.pending_reject = actor.pending_reject
      /\ D.active_requests = actor.active_requests /\ D.blocks = actor.blocks /\ D.first = actor.first
  BY <1>3 DEF Fields
<1>7. /\ E.pending_approve = actor.pending_approve \ {c} /\ E.approved = actor.approved \cup {c}
      /\ E.early = actor.early \cup {c} /\ E.rejected = actor.rejected /\ E.pending_reject = actor.pending_reject
      /\ E.active_requests = actor.active_requests /\ E.blocks = actor.blocks /\ E.first = actor.first
  BY <1>3 DEF Fields
<1>8. actor.early \subseteq Cand
  BY StepBegins DEF ActorTyped, VerdictsTyped
<1>9. Becomes(A, {q}) \/ Becomes(E, {q})
  BY DEF ApprovedSigned
<1> HIDE DEF D, E
<1>10. Fine(D, F) /\ (Sound /\ Timely => ~ D.abort /\ VerdictsMatch(D, F \cup D.asks))
  <2>1. D.early \subseteq Cand
    BY <1>6, <1>8
  <2> QED BY <1>2, <1>3, <1>4, <1>6, <2>1
<1>11. Fine(E, F) /\ (Sound /\ Timely => ~ E.abort /\ VerdictsMatch(E, F \cup E.asks))
  <2>1. E.early \subseteq Cand
    BY <1>7, <1>8
  <2> QED BY <1>2, <1>3, <1>5, <1>7, <2>1
<1>12. /\ Ready(A, F) /\ SameRound(D, A) /\ A.asks = D.asks
       /\ VerdictsMatch(D, F \cup D.asks) => VerdictsMatch(A, F \cup A.asks)
  <2>1. D.requested => D.chain = "active" \/ D.asked
    BY <1>10 DEF Fine, Ready, Heard
  <2> HIDE DEF F
  <2> QED BY <1>10, <2>1, RequestReady DEF Fine, Ready
<1> HIDE DEF A, F
<1>13. Fine(A, F) /\ (Sound /\ Timely => ~ A.abort /\ VerdictsMatch(A, F \cup A.asks))
  BY <1>10, <1>12 DEF Fine, SameRound
<1>14. ASSUME NEW B, Fine(B, F), Sound /\ Timely => ~ B.abort /\ VerdictsMatch(B, F \cup B.asks), Becomes(B, {q})
       PROVE  Rest' /\ (Sound /\ Timely => Sound')
  BY <1>1, <1>14, HandlerEnds DEF F, Sound, ChecksHold
<1> QED BY <1>9, <1>11, <1>13, <1>14

\* end_request()
LEMMA EndRequestLemma ==
  ASSUME Rest, NEW r \in Round, NEW c \in Cand, <<"get", r, c>> \in fly
  PROVE  LET A == EndRequest(actor, r, c)
             F == fly \ {<<"get", r, c>>}
         IN  /\ Fine(A, F) /\ A.asks = {} /\ A.cur_round = actor.cur_round
             /\ Sound => ~ A.abort /\ VerdictsMatch(A, F \cup A.asks)
<1> DEFINE A == EndRequest(actor, r, c)
           q == <<"get", r, c>>
           F == fly \ {q}
<1>1. CASE r # actor.cur_round
  <2>1. A = actor
    BY <1>1 DEF EndRequest
  <2>2. Fine(actor, F) /\ (VerdictsMatch(actor, fly \cup actor.asks) => VerdictsMatch(actor, F \cup actor.asks))
    BY <1>1, StepBegins, DropQuestion
  <2> QED BY <2>1, <2>2, StepBegins
<1>2. CASE r = actor.cur_round
  <2>1. A = [actor EXCEPT !.active_requests = @ \ {c}]
    BY <1>2 DEF EndRequest
  <2>2. DOMAIN actor = Fields /\ DOMAIN A = Fields
    BY <2>1, StepBegins
  <2>3. /\ SameRound(actor, A) /\ SameRequests(actor, A) /\ SameCandidate(actor, A) /\ SameSignature(actor, A)
        /\ A.asks = actor.asks
    BY <2>1, <2>2, SMTT(30) DEF Fields, SameRound, SameRequests, SameCandidate, SameSignature
  <2>4. /\ A.pending_approve = actor.pending_approve /\ A.approved = actor.approved
        /\ A.early = actor.early /\ A.rejected = actor.rejected /\ A.pending_reject = actor.pending_reject
        /\ A.active_requests = actor.active_requests \ {c} /\ A.blocks = actor.blocks /\ A.first = actor.first
    BY <2>1, <2>2 DEF Fields
  <2>5. /\ \A d : \A k \in {"sign", "validate", "approve"} : <<k, r, d>> \in F <=> <<k, r, d>> \in fly
        /\ \A d : <<"get", r, d>> \in F <=> <<"get", r, d>> \in fly /\ d # c
    OBVIOUS
  <2>6. F \cup A.asks = F /\ F \subseteq fly /\ F \subseteq Questions
    BY <2>3, StepBegins DEF Ready
  <2>7. PendingMatches(actor, fly) /\ QuestionsMatch(actor, fly) /\ WaitingMatches(actor)
    BY DEF Rest, RecordIsRight
  <2> HIDE DEF A, F
  <2>8. ActorTyped(A)
    <3>1. VerdictsTyped(A)
      BY <2>4, StepBegins DEF ActorTyped, VerdictsTyped
    <3> QED BY <2>2, <2>3, <3>1, StepBegins, SameTyped DEF ActorTyped
  <2>9. PendingMatches(A, F)
    <3>1. A.pending_sign <=> \E d \in Cand : <<"sign", A.cur_round, d>> \in F
      BY <1>2, <2>3, <2>5, <2>7 DEF PendingMatches, SameRound, SameSignature
    <3>2. \A d \in Cand : d \in A.active_requests <=> <<"get", A.cur_round, d>> \in F
      BY <1>2, <2>3, <2>4, <2>5, <2>7 DEF PendingMatches, SameRound
    <3>3. \A d \in A.pending_approve : {<<"validate", A.cur_round, d>>, <<"approve", A.cur_round, d>>} \cap F # {}
      <4> SUFFICES ASSUME NEW d \in A.pending_approve
                   PROVE  <<"validate", r, d>> \in F \/ <<"approve", r, d>> \in F
        BY <1>2, <2>3 DEF SameRound
      <4>1. <<"validate", r, d>> \in fly \/ <<"approve", r, d>> \in fly
        BY <1>2, <2>4, <2>7 DEF PendingMatches
      <4> QED BY <2>5, <4>1
    <3> QED BY <3>1, <3>2, <3>3 DEF PendingMatches
  <2>10. QuestionsMatch(A, F) /\ WaitingMatches(A) /\ Heard(A)
    BY <2>3, <2>4, <2>6, <2>7, StepBegins
       DEF QuestionsMatch, WaitingMatches, Ready, Heard, SameRound, SameRequests, SameCandidate, SameSignature
  <2>11. Fine(A, F)
    BY <2>3, <2>6, <2>8, <2>9, <2>10, StepBegins DEF Fine, Ready, Right, SameRound
  <2>12. Sound => ~ A.abort /\ VerdictsMatch(A, F \cup A.asks)
    BY <2>3, <2>4, <2>6 DEF Sound, ChecksHold, VerdictsMatch, SameRound
  <2> QED BY <2>3, <2>11, <2>12, StepBegins DEF A, F, SameRound
<1> QED BY <1>1, <1>2

\* The answers of get_broadcast_p2p().
LEMMA DownloadSteps ==
  ASSUME Rest, NEW r \in Round, NEW c \in Cand, Downloaded(r, c) \/ DownloadFails(r, c)
  PROVE  Rest' /\ (Sound => Sound')
<1> DEFINE A == EndRequest(actor, r, c)
           q == <<"get", r, c>>
           F == fly \ {q}
           p == <<"load", r, c>>
           G == F \cup {p}
<1>1. setup' = setup /\ dec' = dec /\ saved' = saved /\ failures' \in Nat /\ crashes' = crashes /\ q \in fly
  BY StepBegins DEF Downloaded, DownloadFails
<1>2. /\ Fine(A, F) /\ A.asks = {} /\ A.cur_round = actor.cur_round
      /\ Sound => ~ A.abort /\ VerdictsMatch(A, F \cup A.asks)
  BY <1>1, EndRequestLemma
<1>3. CASE DownloadFails(r, c)
  <2>1. Becomes(A, {q})
    BY <1>3 DEF DownloadFails
  <2> HIDE DEF A
  <2> QED BY <1>1, <1>2, <2>1, StepEnds
<1>4. CASE Downloaded(r, c)
  <2>1. actor' = A /\ fly' = G
    BY <1>4 DEF Downloaded
  <2>2. r <= actor.cur_round /\ p[1] = "load" /\ p[2] = r
    BY <1>1, QuestionParts
  <2>3. \A d : \A k \in {"sign", "get", "validate", "approve", "generate"} :
          \A s : <<k, s, d>> \in G <=> <<k, s, d>> \in F
    OBVIOUS
  <2>4. F \cup A.asks = F /\ G \cup A.asks = G /\ G \subseteq Questions
    <3>1. p \in Questions
      BY DEF Questions
    <3> HIDE DEF p
    <3> QED BY <1>2, <3>1 DEF Fine, Ready
  <2>5. \A x \in G : x \in F \/ x = p
    OBVIOUS
  <2> HIDE DEF A, F, G, p
  <2>6. PendingMatches(A, F) /\ QuestionsMatch(A, F) /\ WaitingMatches(A)
    BY <1>2, <2>4 DEF Fine, Ready, Right
  <2>7. PendingMatches(A, G)
    BY <2>3, <2>6 DEF PendingMatches
  <2>8. QuestionsMatch(A, G)
    <3>1. \A x \in G : x[2] <= A.cur_round /\ (x[1] = "sign" => x[3] = dec[x[2]])
      BY <1>2, <2>2, <2>5, <2>6 DEF QuestionsMatch
    <3> QED BY <2>3, <2>6, <3>1 DEF QuestionsMatch
  <2>9. Fine(A, G)
    BY <1>2, <2>4, <2>6, <2>7, <2>8 DEF Fine, Ready, Right
  <2>10. Rest'
    BY <1>1, <1>2, <2>1, <2>9, StepBegins, RestAfter
  <2>11. ASSUME Sound
         PROVE  Sound'
    <3>1. ~ A.abort /\ VerdictsMatch(A, F)
      BY <1>2, <2>4, <2>11
    <3>2. VerdictsMatch(A, G)
      BY <2>2, <2>5, <3>1 DEF VerdictsMatch
    <3> QED BY <2>1, <3>1, <3>2 DEF Sound, ChecksHold, VerdictsMatch
  <2> QED BY <2>10, <2>11
<1> QED BY <1>3, <1>4

\* generated_block()
LEMMA GeneratedStep ==
  ASSUME Rest, NEW r \in Round, NEW c \in Own, GeneratedBlock(r, c)
  PROVE  Rest' /\ (Sound => Sound')
<1> DEFINE q == <<"generate", r, None>>
           F == fly \ {q}
<1>1. setup' = setup /\ dec' = dec /\ saved' = saved /\ failures' \in Nat /\ crashes' = crashes /\ q \in fly
  BY StepBegins DEF GeneratedBlock
<1>2. CASE r # actor.cur_round
  BY <1>1, <1>2, LateAnswer DEF GeneratedBlock
<1>3. CASE r = actor.cur_round
  <2> DEFINE known == [d \in DOMAIN actor.blocks \cup {c} |-> IF d = c THEN r ELSE actor.blocks[d]]
             B == [actor EXCEPT !.blocks = known, !.pending_generate = FALSE, !.generated = TRUE,
                                !.generated_block = c]
             A == RequestNewBlock(B, TRUE)
  <2>1. Becomes(A, {q})
    BY <1>3 DEF GeneratedBlock
  <2>2. DOMAIN actor = Fields /\ DOMAIN B = Fields /\ c \in Cand
    <3>1. c \in Cand
      BY StepBegins, ActorAssumption DEF Session, Own, Cand
    <3> QED BY <3>1, StepBegins
  <2>3. SameRound(actor, B) /\ SameRequests(actor, B) /\ SameSignature(actor, B) /\ B.asks = actor.asks
    BY <2>2 DEF Fields, SameRound, SameRequests, SameSignature
  <2>4. /\ B.pending_approve = actor.pending_approve /\ B.approved = actor.approved
        /\ B.early = actor.early /\ B.rejected = actor.rejected /\ B.pending_reject = actor.pending_reject
        /\ B.active_requests = actor.active_requests /\ B.blocks = known /\ B.first = actor.first
    BY <2>2 DEF Fields
  <2>5. /\ B.pending_generate = FALSE /\ B.generated = TRUE /\ B.generated_block = c
        /\ B.sent_generated = actor.sent_generated
    BY <2>2 DEF Fields
  <2>6. DOMAIN known = DOMAIN actor.blocks \cup {c} /\ known[c] = r
        /\ \A d \in DOMAIN actor.blocks : d # c => known[d] = actor.blocks[d]
    OBVIOUS
  <2> HIDE DEF A, B
  <2>7. ActorTyped(B)
    <3>1. known \in [DOMAIN known -> Round] /\ DOMAIN known \subseteq Cand
      BY <2>2, StepBegins DEF ActorTyped, VerdictsTyped
    <3> HIDE DEF known
    <3>2. VerdictsTyped(B)
      BY <2>4, <3>1, StepBegins DEF ActorTyped, VerdictsTyped
    <3>3. CandidateTyped(B)
      BY <2>2, <2>5, StepBegins DEF ActorTyped, CandidateTyped
    <3> QED BY <2>2, <2>3, <3>2, <3>3, StepBegins, SameTyped DEF ActorTyped
  <2> HIDE DEF known
  <2>8. F \cup B.asks = F /\ F \subseteq fly /\ F \subseteq Questions /\ q \notin F
    BY <2>3, StepBegins DEF Ready
  <2>9. PendingMatches(actor, fly) /\ QuestionsMatch(actor, fly) /\ WaitingMatches(actor)
    BY DEF Rest, RecordIsRight
  <2>10. Says(actor.real, "submit") = {} /\ ~ actor.generated
    BY <1>1, <1>3, <2>9 DEF QuestionsMatch
  <2>11. \A d : \A k \in {"sign", "get", "validate", "approve"} : <<k, r, d>> \in F <=> <<k, r, d>> \in fly
    OBVIOUS
  <2> HIDE DEF F
  <2>12. PendingMatches(B, F)
    <3>1. B.pending_sign <=> \E d \in Cand : <<"sign", B.cur_round, d>> \in F
      BY <1>3, <2>3, <2>9, <2>11 DEF PendingMatches, SameRound, SameSignature
    <3>2. \A d \in Cand : d \in B.active_requests <=> <<"get", B.cur_round, d>> \in F
      BY <1>3, <2>3, <2>4, <2>9, <2>11 DEF PendingMatches, SameRound
    <3>3. \A d \in B.pending_approve : {<<"validate", B.cur_round, d>>, <<"approve", B.cur_round, d>>} \cap F # {}
      <4> SUFFICES ASSUME NEW d \in B.pending_approve
                   PROVE  <<"validate", r, d>> \in F \/ <<"approve", r, d>> \in F
        BY <1>3, <2>3 DEF SameRound
      <4>1. <<"validate", r, d>> \in fly \/ <<"approve", r, d>> \in fly
        BY <1>3, <2>4, <2>9 DEF PendingMatches
      <4> QED BY <2>11, <4>1
    <3> QED BY <3>1, <3>2, <3>3 DEF PendingMatches
  <2>13. QuestionsMatch(B, F)
    BY <1>3, <2>3, <2>8, <2>9 DEF QuestionsMatch, SameRound
  <2>14. WaitingMatches(B)
    BY <1>3, <2>3, <2>4, <2>5, <2>6, <2>9, <2>10 DEF WaitingMatches, SameRound, SameRequests, SameSignature
  <2>15. Right(B, F)
    BY <2>8, <2>12, <2>13, <2>14 DEF Right
  <2>16. B.requested => B.chain = "active" \/ B.asked
    BY <2>3, StepBegins DEF SameRound, SameRequests, Ready, Heard
  <2>17. /\ Ready(A, F) /\ SameRound(B, A) /\ A.asks = B.asks
         /\ VerdictsMatch(B, F \cup B.asks) => VerdictsMatch(A, F \cup A.asks)
    BY <2>7, <2>8, <2>15, <2>16, RequestReady DEF A
  <2>18. Fine(A, F)
    BY <2>3, <2>17, StepBegins DEF Fine, SameRound
  <2>19. ASSUME Sound
         PROVE  VerdictsMatch(B, F \cup B.asks)
    <3>1. VerdictsMatch(actor, fly)
      BY <2>19 DEF Sound
    <3>2. ASSUME NEW x \in F, x[1] \in {"validate", "approve"}, actor.cur_round <= x[2] + MaxPast
          PROVE  x[3] \in DOMAIN known /\ x[2] <= known[x[3]]
      <4>1. x[3] \in DOMAIN actor.blocks /\ x[2] <= actor.blocks[x[3]]
        BY <2>8, <3>1, <3>2 DEF VerdictsMatch
      <4>2. x[2] <= r
        BY <1>3, <2>8, <2>9 DEF QuestionsMatch
      <4> QED BY <2>6, <4>1, <4>2
    <3> QED BY <2>3, <2>4, <2>6, <2>8, <3>1, <3>2 DEF VerdictsMatch, SameRound
  <2>20. A.abort = actor.abort
    BY <2>3, <2>17 DEF SameRound
  <2> QED BY <1>1, <2>1, <2>17, <2>18, <2>19, <2>20, StepBegins, StepEnds DEF F
<1> QED BY <1>2, <1>3

-----------------------------------------------------------------------------
(* The theorems *)

LEMMA StepKeepsRest ==
  ASSUME Rest, [Next]_vars
  PROVE  Rest' /\ (Sound /\ Timely => Sound')
<1>1. CASE PreprocessBlock \/ ProcessBlocks \/ ProcessBlamed \/ FinishedProcessing
  BY <1>1, PreprocessStep, ProcessStep, ProcessBlamedStep, FinishedStep
<1>2. CASE ChainAlarm \/ (\E d \in Delays : Elapse(d)) \/ (\E c \in Cand : ClockPasses(c))
  BY <1>2, QuietSteps
<1>3. CASE Alarm \/ BlockStored \/ Restart
  BY <1>3, AlarmStep, BlockStoredStep, RestartStep
<1>4. CASE \E r \in Round : GenerateFails(r) \/ \E c \in Own : GeneratedBlock(r, c)
  BY <1>4, GenerateFailsStep, GeneratedStep
<1>5. CASE \E r \in Round, c \in Cand : Decision(r, c) \/ ApprovedSigned(r, c) \/ SignedBlock(r, c)
  BY <1>5, DecisionStep, ApprovedStep, SignedStep
<1>6. CASE \E r \in Round, c \in Cand : Downloaded(r, c) \/ DownloadFails(r, c) \/ Loaded(r, c) \/ Broadcast(r, c)
  BY <1>6, DownloadSteps, ArrivalSteps
<1>7. CASE UNCHANGED vars
  <2>1. Rest'
    BY <1>7, StepBegins, RestAfter DEF vars
  <2>2. Sound => Sound'
    BY <1>7 DEF vars, Sound, ChecksHold, VerdictsMatch
  <2> QED BY <2>1, <2>2
<1> QED BY <1>1, <1>2, <1>3, <1>4, <1>5, <1>6, <1>7 DEF Next

\* Between any two handlers, whatever the order of the answers, the delays and
\* the restarts: no signature and no download is asked for twice in a round or
\* waited for in vain, no answer of an earlier round is taken for one of this
\* round, and the actor is in the round of real_state_ (on_new_round(),
\* process_blocks(), end_request(), signed_block(), generated_block()).
THEOREM RecordIsAlwaysRight == Spec => []RecordIsRight
<1>1. Init => Rest
  BY StartsRight
<1>2. Rest /\ [Next]_vars => Rest'
  BY StepKeepsRest
<1>3. Rest => RecordIsRight
  BY DEF Rest
<1> QED BY <1>1, <1>2, <1>3, PTL DEF Spec

\* What a validator has to say is never forgotten: Catchain is at work or
\* asked for a block (request_new_block(), need_new_block()).
THEOREM RequestsAreHeard == Spec => []RequestIsHeard
<1>1. Init => Rest
  BY StartsRight
<1>2. Rest /\ [Next]_vars => Rest'
  BY StepKeepsRest
<1>3. Rest => RequestIsHeard
  BY DEF Rest
<1> QED BY <1>1, <1>2, <1>3, PTL DEF Spec

\* A candidate that waits to be submitted is the first of its round, restarts
\* included (check_generate_slot(), generated_block(), process_blocks()).
THEOREM SubmissionsAreFirst == Spec => []OneSubmission
<1>1. RecordIsRight => OneSubmission
  BY DEF RecordIsRight, WaitingMatches, OneSubmission
<1> QED BY <1>1, RecordIsAlwaysRight, PTL

\* No CHECK of the actor fails as long as the signature of an approval comes
\* within MAX_PAST_ROUND_BLOCK rounds of the question (process_blocks(),
\* process_received_block(), on_new_round()).
THEOREM NoCheckFails == Spec /\ []Timely => []ChecksHold
<1>1. Init => Rest /\ Sound
  BY StartsRight
<1>2. Rest /\ Sound /\ Timely /\ [Next]_vars => Rest' /\ Sound'
  BY StepKeepsRest
<1>3. Sound => ChecksHold
  BY DEF Sound
<1> QED BY <1>1, <1>2, <1>3, PTL DEF Spec
=============================================================================

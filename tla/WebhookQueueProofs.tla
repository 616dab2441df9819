------------------------- MODULE WebhookQueueProofs -------------------------
(***************************************************************************)
(* TLAPS proofs about WebhookQueue, for every set of envelopes and         *)
(* operators and every value of the bounds.                                *)
(***************************************************************************)
EXTENDS WebhookQueue, SequenceTheorems, FiniteSetTheorems, WellFoundedInduction, TLAPS

-----------------------------------------------------------------------------
(* The fate of an envelope *)

\* Where deliveries and operators are in their code.  The attempt counts and
\* the order of the ready envelopes play no part in the argument.
TasksTyped ==
    /\ DOMAIN delivery = Ids /\ \A i \in Ids : "pc" \in DOMAIN delivery[i]
    /\ retrying \in [Callers -> {NoCall} \cup [pc: {"put", "delete"}, id: Ids]]
    /\ enqueued \subseteq Ids

\* An envelope that the deletion of its dead letter does not lose.
Safe(i) == Stored(i) \/ At(i, "dead_letter_put") \/ i \in accepted \cup purged \cup dropped

\* The worker acknowledges only what the receiver has accepted, and
\* retry_from_dlq deletes a dead letter only when the envelope is elsewhere.
WebhookInv ==
    /\ TasksTyped
    /\ \A i \in Ids : At(i, "ack") => i \in accepted
    /\ \A c \in Callers : retrying[c].pc = "delete" => Safe(retrying[c].id)
    /\ Accounted

\* The empty queue.
LEMMA InitWebhook == Init => WebhookInv
BY DEF Init, WebhookInv, TasksTyped, Accounted, At, None, NoCall

-----------------------------------------------------------------------------
\* Every step of the worker, the operators and the environment keeps the
\* invariant: one case for each action.
LEMMA StepWebhook == WebhookInv /\ [Next]_vars => WebhookInv'
<1> SUFFICES ASSUME WebhookInv, [Next]_vars PROVE WebhookInv'
  OBVIOUS
<1> USE DEF WebhookInv, TasksTyped, Safe, Accounted, Somewhere, Stored, At, history, bounds
<1>1. ASSUME NEW i \in Ids, Enqueue(i) PROVE WebhookInv'
  BY <1>1 DEF Enqueue, PutOutbox
<1>2. ASSUME NEW i \in Ids, BackoffEnds(i) PROVE WebhookInv'
  BY <1>2 DEF BackoffEnds
<1>3. ASSUME NEW i \in Ids, Accept(i) PROVE WebhookInv'
  BY <1>3 DEF Accept, Goto, Become
<1>4. ASSUME NEW i \in Ids, Reject(i) PROVE WebhookInv'
  BY <1>4 DEF Reject, Goto, Become
<1>5. ASSUME NEW i \in Ids, Ack(i) PROVE WebhookInv'
  BY <1>5 DEF Ack, Ends, Become, None, DelOutbox
<1>6. ASSUME NEW i \in Ids, Retry(i) PROVE WebhookInv'
  BY <1>6 DEF Retry, Ends, Become, None, PutOutbox
<1>7. ASSUME NEW i \in Ids, DeadLetterDelete(i) PROVE WebhookInv'
  BY <1>7 DEF DeadLetterDelete, Goto, Become, DelOutbox
<1>8. ASSUME NEW i \in Ids, DeadLetterPut(i) PROVE WebhookInv'
  <2>1. /\ delivery' = [delivery EXCEPT ![i] = None] /\ dropped \subseteq dropped'
        /\ dlq \subseteq dlq' /\ i \in dlq' \cup dropped'
        /\ UNCHANGED <<outbox, retrying, enqueued, accepted, purged>>
    BY <1>8 DEF DeadLetterPut, Ends, Become
  <2>2. ASSUME NEW c \in Callers, retrying[c].pc = "delete" PROVE Safe(retrying[c].id)'
    <3>1. CASE retrying[c].id = i
      <4>1. retrying[c] = [pc |-> "delete", id |-> i]
        BY <2>2, <3>1 DEF NoCall
      <4>2. i \in dropped'
        BY <1>8, <4>1 DEF DeadLetterPut, Overtaken
      <4> QED BY <3>1, <4>2, <2>1
    <3>2. CASE retrying[c].id # i
      BY <2>1, <2>2, <3>2
    <3> QED BY <3>1, <3>2
  <2>3. Accounted' /\ TasksTyped'
    BY <2>1 DEF None
  <2> QED BY <2>1, <2>2, <2>3 DEF None
<1>9. ASSUME NEW c \in Callers, NEW i \in Ids, RetryFromDlq(c, i) PROVE WebhookInv'
  BY <1>9 DEF RetryFromDlq, Call, NoCall
<1>10. ASSUME NEW c \in Callers, RetryPut(c) PROVE WebhookInv'
  BY <1>10 DEF RetryPut, Call, NoCall, PutOutbox
<1>11. ASSUME NEW c \in Callers, RetryDelete(c) PROVE WebhookInv'
  BY <1>11 DEF RetryDelete, Call, NoCall
<1>12. CASE ProcessBatch
  <2>1. \A i \in Ids : /\ delivery'[i].pc \in {"none", "post"} /\ "pc" \in DOMAIN delivery'[i]
                       /\ ~At(i, "dead_letter_put")
    BY <1>12 DEF ProcessBatch, BatchDone, None
  <2>2. /\ DOMAIN delivery' = Ids
        /\ UNCHANGED <<outbox, dlq, retrying, enqueued, accepted, purged, dropped>>
    BY <1>12 DEF ProcessBatch
  <2>3. ASSUME NEW c \in Callers, retrying[c].pc = "delete" PROVE Safe(retrying[c].id)'
    BY <2>1, <2>2, <2>3 DEF NoCall
  <2> QED BY <2>1, <2>2, <2>3
<1>13. CASE PurgeDlq
  BY <1>13 DEF PurgeDlq
<1>14. CASE Crash
  BY <1>14 DEF Crash, None, NoCall
<1>15. CASE UNCHANGED vars
  BY <1>15 DEF vars
<1> QED
  BY <1>1, <1>2, <1>3, <1>4, <1>5, <1>6, <1>7, <1>8, <1>9, <1>10, <1>11, <1>12, <1>13, <1>14,
     <1>15 DEF Next, Deliver, Operate, Quiet

\* No envelope is lost but in the two ways dead_letter has: whatever the
\* interleaving of deliveries, operators, crashes and failing store operations,
\* an enqueued envelope is accepted, purged, dropped or still in the queue.
THEOREM NothingLost == Spec => []Accounted
<1>1. WebhookInv => Accounted
  BY DEF WebhookInv
<1> QED BY <1>1, InitWebhook, StepWebhook, PTL DEF Spec

-----------------------------------------------------------------------------
(* Lists without repetition: the ready envelopes *)

Members(q)  == {q[i] : i \in 1..Len(q)}
Distinct(q) == \A i, j \in 1..Len(q) : q[i] = q[j] => i = j

\* A set of numbers that is not empty has a least element.
LEMMA NatLeast ==
  ASSUME NEW T, T \subseteq Nat, T # {}
  PROVE  \E x \in T : \A y \in T : x <= y
<1> DEFINE R == {p \in Nat \X Nat : p[1] < p[2]}
<1>0. IsWellFoundedOn(R, Nat)
  <2>1. R = OpToRel(<, Nat) BY Zenon DEF OpToRel
  <2> QED BY <2>1, NatLessThanWellFounded, Zenon
<1>1. PICK x \in T : \A y \in T : <<y,x>> \notin R
  BY <1>0, WFMin
<1>2. \A y \in T : ~(y < x)
  BY <1>1
<1> QED BY <1>2

\* Min is that element.
LEMMA MinIs ==
  ASSUME NEW T, T \subseteq Nat, T # {}
  PROVE  Seqs!Min(T) \in T /\ \A y \in T : Seqs!Min(T) <= y
BY NatLeast DEF Seqs!Min

\* Without takes the element out at its only place.
LEMMA WithoutIs ==
  ASSUME NEW A, NEW q \in Seq(A), Distinct(q), NEW x
  PROVE \/ x \notin Members(q) /\ Without(q,x) = q
        \/ \E k \in 1..Len(q) : /\ q[k] = x
             /\ Without(q,x) = SubSeq(q, 1, k-1) \o SubSeq(q, k+1, Len(q))
<1>1. CASE x \notin Members(q)
  BY <1>1 DEF Without, Seqs!RemoveFirst, Members
<1>2. CASE x \in Members(q)
  <2> DEFINE I == {i \in 1..Len(q) : q[i] = x}
  <2>1. I # {} /\ I \subseteq Nat BY <1>2 DEF Members
  <2>2. Seqs!Min(I) \in I BY <2>1, MinIs
  <2>3. Without(q,x) = Seqs!RemoveAt(q, Seqs!Min(I))
    BY <1>2, <2>1 DEF Without, Seqs!RemoveFirst, Seqs!SelectInSeq, Members
  <2> QED BY <2>2, <2>3 DEF Seqs!RemoveAt
<1> QED BY <1>1, <1>2
\* A sequence from which position k is cut out.
LEMMA CutFacts ==
  ASSUME NEW A, NEW q \in Seq(A), NEW k \in 1..Len(q)
  PROVE  LET r == SubSeq(q, 1, k - 1) \o SubSeq(q, k + 1, Len(q))
         IN  /\ r \in Seq(A) /\ Len(r) = Len(q) - 1
             /\ \A i \in 1..Len(r) : r[i] = IF i < k THEN q[i] ELSE q[i + 1]
<1> DEFINE a == SubSeq(q, 1, k - 1)
           b == SubSeq(q, k + 1, Len(q))
<1>1. a \in Seq(A) /\ Len(a) = k - 1 /\ \A i \in 1..(k - 1) : a[i] = q[i]
  OBVIOUS
<1>2. b \in Seq(A) /\ Len(b) = Len(q) - k /\ \A i \in 1..(Len(q) - k) : b[i] = q[i + k]
  OBVIOUS
<1> HIDE DEF a, b
<1>3. /\ a \o b \in Seq(A) /\ Len(a \o b) = Len(a) + Len(b)
      /\ \A i \in 1..(Len(a) + Len(b)) : (a \o b)[i] = IF i <= Len(a) THEN a[i] ELSE b[i - Len(a)]
  BY <1>1, <1>2, ConcatProperties
<1>4. Len(a \o b) = Len(q) - 1
  <2>1. Len(q) \in Nat OBVIOUS
  <2> QED BY <1>1, <1>2, <1>3, <2>1
<1>5. ASSUME NEW i \in 1..Len(a \o b) PROVE (a \o b)[i] = IF i < k THEN q[i] ELSE q[i + 1]
  <2>1. CASE i < k
    <3>1. i \in 1..(k - 1) /\ i <= Len(a) /\ i \in 1..(Len(a) + Len(b))
      BY <1>1, <1>3, <2>1
    <3> QED BY <1>1, <1>3, <2>1, <3>1
  <2>2. CASE ~(i < k)
    <3>1. /\ i - (k - 1) \in 1..(Len(q) - k) /\ i - (k - 1) + k = i + 1 /\ ~(i <= k - 1)
          /\ i \in 1..(Len(a) + Len(b))
      BY <2>2, <1>3, <1>4
    <3> QED BY <1>1, <1>2, <1>3, <3>1, <2>2
  <2> QED BY <2>1, <2>2
<1> QED BY <1>3, <1>4, <1>5 DEF a, b

\* Without keeps a list free of repetition and removes one element from it.
LEMMA WithoutFacts ==
  ASSUME NEW A, NEW q \in Seq(A), Distinct(q), NEW x
  PROVE  /\ Without(q,x) \in Seq(A) /\ Distinct(Without(q,x))
         /\ Members(Without(q,x)) = Members(q) \ {x}
<1>1. CASE x \notin Members(q) /\ Without(q,x) = q
  BY <1>1
<1>2. ASSUME NEW k \in 1..Len(q), q[k] = x, 
             Without(q,x) = SubSeq(q, 1, k-1) \o SubSeq(q, k+1, Len(q))
      PROVE  /\ Without(q,x) \in Seq(A) /\ Distinct(Without(q,x))
             /\ Members(Without(q,x)) = Members(q) \ {x}
  <2> DEFINE r == Without(q,x)
  <2>1. /\ r \in Seq(A) /\ Len(r) = Len(q) - 1
        /\ \A i \in 1..Len(r) : r[i] = IF i < k THEN q[i] ELSE q[i + 1]
    <3> DEFINE c == SubSeq(q, 1, k-1) \o SubSeq(q, k+1, Len(q))
    <3>1. /\ c \in Seq(A) /\ Len(c) = Len(q) - 1
          /\ \A i \in 1..Len(c) : c[i] = IF i < k THEN q[i] ELSE q[i + 1]
      BY CutFacts, Zenon
    <3>2. r = c
      BY <1>2, Zenon
    <3> HIDE DEF r, c
    <3> QED BY <3>1, <3>2, Zenon
  <2> HIDE DEF r
  <2>2. Distinct(r)
    <3> DEFINE p(i) == IF i < k THEN i ELSE i + 1
    <3>1. \A i \in 1..Len(r) : p(i) \in 1..Len(q) /\ r[i] = q[p(i)]
      BY <2>1
    <3>2. \A i, j \in 1..Len(r) : p(i) = p(j) => i = j
      OBVIOUS
    <3> HIDE DEF p
    <3> QED BY <3>1, <3>2 DEF Distinct
  <2>3. Members(r) \subseteq Members(q) \ {x}
    <3> SUFFICES ASSUME NEW i \in 1..Len(r) PROVE r[i] \in Members(q) /\ r[i] # x
      BY DEF Members
    <3>1. PICK j \in 1..Len(q) : j # k /\ r[i] = q[j]
      <4>1. CASE i < k
        BY <2>1, <4>1
      <4>2. CASE ~(i < k)
        <5>1. i + 1 \in 1..Len(q) /\ i + 1 # k /\ r[i] = q[i + 1]
          BY <2>1, <4>2
        <5> QED BY <5>1
      <4> QED BY <4>1, <4>2
    <3>2. q[j] # q[k]
      BY <3>1 DEF Distinct
    <3>3. q[k] = x
      BY <1>2
    <3> QED BY <3>1, <3>2, <3>3 DEF Members
  <2>4. ASSUME NEW y \in Members(q) \ {x} PROVE y \in Members(r)
    <3>1. PICK i \in 1..Len(q) : q[i] = y BY <2>4 DEF Members
    <3>2. i # k BY <3>1, <1>2, <2>4
    <3>3. CASE i < k
      <4>1. i \in 1..Len(r) /\ r[i] = y BY <3>1, <3>3, <2>1
      <4> QED BY <4>1 DEF Members
    <3>4. CASE i > k
      <4>1. i-1 \in 1..Len(r) /\ r[i-1] = y BY <3>1, <3>4, <2>1
      <4> QED BY <4>1 DEF Members
    <3> QED BY <3>2, <3>3, <3>4
  <2> QED BY <2>1, <2>2, <2>3, <2>4 DEF r
<1> QED BY <1>1, <1>2, WithoutIs

\* So does Append, which adds one.
LEMMA AppendFacts ==
  ASSUME NEW A, NEW q \in Seq(A), Distinct(q), NEW x \in A, x \notin Members(q)
  PROVE  /\ Append(q,x) \in Seq(A) /\ Distinct(Append(q,x))
         /\ Members(Append(q,x)) = Members(q) \cup {x}
<1>1. /\ Append(q,x) \in Seq(A) /\ Len(Append(q,x)) = Len(q) + 1
      /\ \A i \in 1..Len(q) : Append(q,x)[i] = q[i]
      /\ Append(q,x)[Len(q)+1] = x
  OBVIOUS
<1> DEFINE r == Append(q,x)
<1> HIDE DEF r
<1>2. Distinct(r) BY <1>1 DEF Distinct, Members, r
<1>3. Members(r) = Members(q) \cup {x} BY <1>1 DEF Members, r
<1> QED BY <1>1, <1>2, <1>3 DEF r

\* A list without repetition is as long as it has members.
LEMMA MembersCount ==
  ASSUME NEW A, NEW q \in Seq(A), Distinct(q)
  PROVE  IsFiniteSet(Members(q)) /\ Cardinality(Members(q)) = Len(q)
<1> DEFINE f == [i \in 1..Len(q) |-> q[i]]
<1>1. f \in Bijection(1..Len(q), Members(q))
  BY DEF Distinct, Members, Bijection, Injection, Surjection, IsInjective
<1>2. Len(q) \in Nat OBVIOUS
<1> QED BY <1>1, <1>2, FS_CountingElements, FS_NatBijection DEF ExistsBijection

-----------------------------------------------------------------------------
(* Types and the attempt limit *)

\* A delivery under way counts the attempts before it, and goes to retry only
\* if one more attempt is allowed.
Counts == 0..(MaxAttempts - 1)
QueueTyped ==
    /\ DOMAIN outbox \subseteq Ids /\ \A i \in DOMAIN outbox : outbox[i] \in Counts
    /\ ready \in Seq(Ids) /\ Distinct(ready) /\ Members(ready) \subseteq DOMAIN outbox
    /\ dlq \subseteq Ids
    /\ DOMAIN delivery = Ids
    /\ \A i \in Ids : /\ DOMAIN delivery[i] = {"pc", "attempts"} /\ delivery[i].attempts \in Counts
                      /\ At(i, "retry") => delivery[i].attempts + 1 \in Counts

\* The empty queue.
LEMMA InitQueue == Init => QueueTyped
<1> SUFFICES ASSUME Init PROVE QueueTyped
  OBVIOUS
<1>1. 0 \in Counts
  BY WebhookConstants DEF Counts
<1>2. DOMAIN outbox = {} /\ ready = <<>> /\ dlq = {}
  BY DEF Init
<1>3. ready \in Seq(Ids) /\ Distinct(ready) /\ Members(ready) = {}
  BY <1>2 DEF Distinct, Members
<1>4. /\ DOMAIN delivery = Ids
      /\ \A i \in Ids : DOMAIN delivery[i] = {"pc", "attempts"} /\ delivery[i].attempts = 0
                        /\ delivery[i].pc = "none"
  BY DEF Init, None
<1> QED BY <1>1, <1>2, <1>3, <1>4 DEF QueueTyped, At

\* The effect of a put or a delete on the outbox and on ready.
LEMMA DueKeeps ==
    ASSUME QueueTyped, NEW i \in Ids, NEW n \in Counts, outbox' = PutOutbox(i, n), Due(i)
    PROVE  /\ DOMAIN outbox' \subseteq Ids /\ \A j \in DOMAIN outbox' : outbox'[j] \in Counts
           /\ ready' \in Seq(Ids) /\ Distinct(ready') /\ Members(ready') \subseteq DOMAIN outbox'
<1> DEFINE w == Without(ready, i)
<1>1. w \in Seq(Ids) /\ Distinct(w) /\ Members(w) = Members(ready) \ {i}
  BY WithoutFacts DEF QueueTyped
<1>2. ready' = Append(w, i)
  BY DEF Due
<1> HIDE DEF w
<1>3. /\ ready' \in Seq(Ids) /\ Distinct(ready') /\ Members(ready') = Members(w) \cup {i}
  <2>1. i \notin Members(w)
    BY <1>1
  <2> QED BY <1>1, <1>2, <2>1, AppendFacts
<1>4. /\ DOMAIN outbox' = DOMAIN outbox \cup {i}
      /\ \A j \in DOMAIN outbox' : outbox'[j] = IF j = i THEN n ELSE outbox[j]
  BY DEF PutOutbox
<1> QED BY <1>1, <1>3, <1>4 DEF QueueTyped

\* The same for an envelope that is not due, or gone.
LEMMA WaitKeeps ==
    ASSUME QueueTyped, NEW i \in Ids, Wait(i),
           \/ outbox' = DelOutbox(i)
           \/ \E n \in Counts : outbox' = PutOutbox(i, n)
    PROVE  /\ DOMAIN outbox' \subseteq Ids /\ \A j \in DOMAIN outbox' : outbox'[j] \in Counts
           /\ ready' \in Seq(Ids) /\ Distinct(ready') /\ Members(ready') \subseteq DOMAIN outbox'
<1>1. ready' \in Seq(Ids) /\ Distinct(ready') /\ Members(ready') = Members(ready) \ {i}
  BY WithoutFacts DEF QueueTyped, Wait
<1>2. CASE outbox' = DelOutbox(i)
  <2>1. DOMAIN outbox' = DOMAIN outbox \ {i} /\ \A j \in DOMAIN outbox' : outbox'[j] = outbox[j]
    BY <1>2 DEF DelOutbox
  <2> QED BY <1>1, <2>1 DEF QueueTyped
<1>3. CASE \E n \in Counts : outbox' = PutOutbox(i, n)
  <2>1. PICK n \in Counts : outbox' = PutOutbox(i, n)
    BY <1>3
  <2>2. /\ DOMAIN outbox' = DOMAIN outbox \cup {i}
        /\ \A j \in DOMAIN outbox' : outbox'[j] = IF j = i THEN n ELSE outbox[j]
    BY <2>1 DEF PutOutbox
  <2> QED BY <1>1, <2>2 DEF QueueTyped
<1> QED BY <1>2, <1>3

\* A delivery goes on or ends.
LEMMA TaskKeeps ==
    ASSUME QueueTyped, NEW i \in Ids,
           \/ Ends(i)
           \/ \E p : Goto(i, p) /\ (p = "retry" => delivery[i].attempts + 1 \in Counts)
    PROVE  /\ DOMAIN delivery' = Ids
           /\ \A j \in Ids : /\ DOMAIN delivery'[j] = {"pc", "attempts"}
                             /\ delivery'[j].attempts \in Counts
                             /\ At(j, "retry")' => delivery'[j].attempts + 1 \in Counts
<1>0. 0 \in Counts
  BY WebhookConstants DEF Counts
<1> HIDE DEF Counts
<1>1. CASE Ends(i)
  BY <1>0, <1>1 DEF QueueTyped, Ends, Become, None, At
<1>2. ASSUME NEW p, Goto(i, p), p = "retry" => delivery[i].attempts + 1 \in Counts
      PROVE  /\ DOMAIN delivery' = Ids
             /\ \A j \in Ids : /\ DOMAIN delivery'[j] = {"pc", "attempts"}
                               /\ delivery'[j].attempts \in Counts
                               /\ At(j, "retry")' => delivery'[j].attempts + 1 \in Counts
  <2>1. delivery' = [delivery EXCEPT ![i] = [delivery[i] EXCEPT !.pc = p]]
    BY <1>2 DEF Goto, Become
  <2>2. /\ DOMAIN delivery' = Ids /\ \A j \in Ids : j # i => delivery'[j] = delivery[j]
        /\ DOMAIN delivery'[i] = DOMAIN delivery[i]
        /\ delivery'[i].pc = p /\ delivery'[i].attempts = delivery[i].attempts
    BY <2>1 DEF QueueTyped
  <2> QED BY <1>2, <2>2 DEF QueueTyped, At
<1> QED BY <1>1, <1>2

\* Every step keeps the types and the attempt limit.
LEMMA StepQueue == WebhookInv /\ QueueTyped /\ [Next]_vars => QueueTyped'
<1> SUFFICES ASSUME TasksTyped, QueueTyped, [Next]_vars PROVE QueueTyped'
  BY DEF WebhookInv
<1>a. ASSUME UNCHANGED <<outbox, ready>>
      PROVE  /\ DOMAIN outbox' \subseteq Ids /\ \A j \in DOMAIN outbox' : outbox'[j] \in Counts
             /\ ready' \in Seq(Ids) /\ Distinct(ready') /\ Members(ready') \subseteq DOMAIN outbox'
  BY <1>a DEF QueueTyped
<1>b. ASSUME UNCHANGED delivery
      PROVE  /\ DOMAIN delivery' = Ids
             /\ \A j \in Ids : /\ DOMAIN delivery'[j] = {"pc", "attempts"}
                               /\ delivery'[j].attempts \in Counts
                               /\ At(j, "retry")' => delivery'[j].attempts + 1 \in Counts
  BY <1>b DEF QueueTyped, At
<1>c. 0 \in Counts
  BY WebhookConstants DEF Counts
<1>1. ASSUME NEW i \in Ids, Enqueue(i) PROVE QueueTyped'
  <2>1. outbox' = PutOutbox(i, 0) /\ Due(i) /\ dlq' = dlq /\ delivery' = delivery
    BY <1>1 DEF Enqueue
  <2> QED BY <1>b, <1>c, <2>1, DueKeeps DEF QueueTyped
<1>2. ASSUME NEW i \in Ids, BackoffEnds(i) PROVE QueueTyped'
  <2>1. i \in DOMAIN outbox /\ Due(i) /\ outbox' = outbox /\ dlq' = dlq /\ delivery' = delivery
    BY <1>2 DEF BackoffEnds, Stored
  <2>2. outbox[i] \in Counts
    BY <2>1 DEF QueueTyped
  <2>3. /\ ready' \in Seq(Ids) /\ Distinct(ready') /\ Members(ready') \subseteq DOMAIN outbox
    <3> DEFINE w == Without(ready, i)
    <3>1. w \in Seq(Ids) /\ Distinct(w) /\ Members(w) = Members(ready) \ {i}
      BY WithoutFacts DEF QueueTyped
    <3>2. ready' = Append(w, i)
      BY <2>1 DEF Due
    <3> HIDE DEF w
    <3>3. i \notin Members(w)
      BY <3>1
    <3>4. /\ ready' \in Seq(Ids) /\ Distinct(ready') /\ Members(ready') = Members(w) \cup {i}
      BY <3>1, <3>2, <3>3, AppendFacts
    <3> QED BY <2>1, <3>1, <3>4 DEF QueueTyped
  <2> QED BY <1>b, <2>1, <2>3 DEF QueueTyped
<1>3. ASSUME NEW i \in Ids, Accept(i) PROVE QueueTyped'
  <2>1. Goto(i, "ack") /\ UNCHANGED <<outbox, ready>> /\ dlq' = dlq
    BY <1>3 DEF Accept
  <2> QED BY <1>a, <2>1, TaskKeeps DEF QueueTyped
<1>4. ASSUME NEW i \in Ids, Reject(i) PROVE QueueTyped'
  <2> DEFINE p == IF delivery[i].attempts + 1 >= MaxAttempts THEN "dead_letter" ELSE "retry"
  <2>1. Goto(i, p) /\ UNCHANGED <<outbox, ready>> /\ dlq' = dlq
    BY <1>4 DEF Reject
  <2>2. p = "retry" => delivery[i].attempts + 1 \in Counts
    BY WebhookConstants DEF QueueTyped, Counts
  <2> HIDE DEF p
  <2> QED BY <1>a, <2>1, <2>2, TaskKeeps DEF QueueTyped
<1>5. ASSUME NEW i \in Ids, Ack(i) PROVE QueueTyped'
  <2>1. /\ (outbox' = DelOutbox(i) /\ Wait(i)) \/ UNCHANGED <<outbox, ready>>
        /\ Ends(i) /\ dlq' = dlq
    BY <1>5 DEF Ack
  <2> QED BY <1>a, <2>1, WaitKeeps, TaskKeeps DEF QueueTyped
<1>6. ASSUME NEW i \in Ids, Retry(i) PROVE QueueTyped'
  <2>1. /\ (outbox' = PutOutbox(i, delivery[i].attempts + 1) /\ Wait(i)) \/ UNCHANGED <<outbox, ready>>
        /\ Ends(i) /\ dlq' = dlq /\ At(i, "retry")
    BY <1>6 DEF Retry
  <2>2. delivery[i].attempts + 1 \in Counts
    BY <2>1 DEF QueueTyped
  <2> QED BY <1>a, <2>1, <2>2, WaitKeeps, TaskKeeps DEF QueueTyped
<1>7. ASSUME NEW i \in Ids, DeadLetterDelete(i) PROVE QueueTyped'
  <2>1. /\ (outbox' = DelOutbox(i) /\ Wait(i)) \/ UNCHANGED <<outbox, ready>>
        /\ Goto(i, "dead_letter_put") /\ dlq' = dlq
    BY <1>7 DEF DeadLetterDelete
  <2> QED BY <1>a, <2>1, WaitKeeps, TaskKeeps DEF QueueTyped
<1>8. ASSUME NEW i \in Ids, DeadLetterPut(i) PROVE QueueTyped'
  <2>1. Ends(i) /\ UNCHANGED <<outbox, ready>> /\ dlq' \subseteq dlq \cup {i}
    BY <1>8 DEF DeadLetterPut
  <2> QED BY <1>a, <2>1, TaskKeeps DEF QueueTyped
<1>9. ASSUME NEW c \in Callers, NEW i \in Ids, RetryFromDlq(c, i) PROVE QueueTyped'
  BY <1>9, <1>a, <1>b DEF RetryFromDlq, QueueTyped
<1>10. ASSUME NEW c \in Callers, RetryPut(c) PROVE QueueTyped'
  <2> DEFINE i == retrying[c].id
  <2>1. /\ (outbox' = PutOutbox(i, 0) /\ Due(i)) \/ UNCHANGED <<outbox, ready>>
        /\ delivery' = delivery /\ dlq' = dlq
    BY <1>10 DEF RetryPut
  <2>2. i \in Ids
    BY <1>10 DEF RetryPut, TasksTyped, NoCall
  <2> HIDE DEF i
  <2> QED BY <1>a, <1>b, <1>c, <2>1, <2>2, DueKeeps DEF QueueTyped
<1>11. ASSUME NEW c \in Callers, RetryDelete(c) PROVE QueueTyped'
  <2>1. UNCHANGED <<outbox, ready>> /\ delivery' = delivery /\ dlq' \subseteq dlq
    BY <1>11 DEF RetryDelete
  <2> QED BY <1>a, <1>b, <2>1 DEF QueueTyped
<1>12. CASE ProcessBatch
  <2> DEFINE n     == IF Len(ready) < MaxConcurrent THEN Len(ready) ELSE MaxConcurrent
             batch == {ready[k] : k \in 1..n}
  <2>1. /\ delivery' = [i \in Ids |-> IF i \in batch THEN [pc |-> "post", attempts |-> outbox[i]]
                                                      ELSE None]
        /\ UNCHANGED <<outbox, ready, dlq>>
    BY <1>12 DEF ProcessBatch
  <2>2. batch \subseteq DOMAIN outbox
    <3>1. ready \in Seq(Ids) /\ MaxConcurrent \in Nat
      BY WebhookConstants DEF QueueTyped
    <3>2. \A k \in 1..n : k \in 1..Len(ready)
      BY <3>1
    <3> HIDE DEF n
    <3> QED BY <3>2 DEF QueueTyped, Members
  <2> HIDE DEF batch
  <2>3. \A i \in Ids : /\ DOMAIN delivery'[i] = {"pc", "attempts"} /\ delivery'[i].attempts \in Counts
                       /\ delivery'[i].pc # "retry"
    BY <1>c, <2>1, <2>2 DEF QueueTyped, None
  <2> QED BY <1>a, <2>1, <2>3 DEF QueueTyped, At
<1>13. CASE PurgeDlq
  BY <1>13, <1>a, <1>b DEF PurgeDlq, QueueTyped
<1>14. CASE Crash
  <2>1. UNCHANGED <<outbox, ready>> /\ delivery' = [i \in Ids |-> None] /\ dlq' = dlq
    BY <1>14 DEF Crash
  <2> QED BY <1>a, <1>c, <2>1 DEF QueueTyped, None, At
<1>15. CASE UNCHANGED vars
  BY <1>15, <1>a, <1>b DEF vars, QueueTyped
<1> QED
  BY <1>1, <1>2, <1>3, <1>4, <1>5, <1>6, <1>7, <1>8, <1>9, <1>10, <1>11, <1>12, <1>13, <1>14,
     <1>15 DEF Next, Deliver, Operate, Quiet

\* TypeOK holds in every reachable state: no envelope is stored or posted with
\* its attempts used up, and every due envelope is stored and listed once.
THEOREM QueueKeepsTypes == Spec => []TypeOK
<1>1. WebhookInv /\ QueueTyped => TypeOK
  <2> SUFFICES ASSUME TasksTyped, QueueTyped PROVE TypeOK
    BY DEF WebhookInv
  <2>1. Cardinality(Members(ready)) = Len(ready)
    BY MembersCount DEF QueueTyped
  <2>2. \A c \in Callers : retrying[c] = NoCall \/ retrying[c].id \in Ids
    BY DEF TasksTyped
  <2> QED BY <2>1, <2>2 DEF TypeOK, QueueTyped, Members, Counts
<1> QED BY <1>1, InitWebhook, InitQueue, StepWebhook, StepQueue, PTL DEF Spec
=============================================================================

---------------------------- MODULE WebhookQueue ----------------------------
(***************************************************************************)
(* The outbound webhook queue and its delivery worker                      *)
(* (crates/clawdesk-gateway/src/webhook_queue.rs).  One action is one      *)
(* store operation with the local code around it, or one HTTP exchange.    *)
(*                                                                         *)
(* Payloads, signatures and timestamps are left out.  An envelope in the   *)
(* outbox is its attempt count; ready lists the envelopes whose            *)
(* next_attempt_at has come, in that order, which is the order             *)
(* scan_pending sorts them in.                                             *)
(***************************************************************************)
EXTENDS Naturals, Sequences, FiniteSets

Seqs == INSTANCE SequencesExt

CONSTANTS
    Ids,            \* delivery ids
    Callers,        \* slots for concurrent calls of retry_from_dlq
    MaxAttempts,    \* max_attempts of an envelope
    MaxConcurrent,  \* config.max_concurrent
    MaxDlqCalls,    \* bound: calls of retry_from_dlq and purge_dlq
    MaxCrashes,     \* bound: process crashes
    MaxFaults       \* bound: failing store operations

ASSUME WebhookConstants ==
    /\ MaxAttempts \in Nat \ {0} /\ MaxConcurrent \in Nat \ {0}
    /\ MaxDlqCalls \in Nat /\ MaxCrashes \in Nat /\ MaxFaults \in Nat

VARIABLES
    outbox,    \* webhook:outbox:{id}: attempts, for the ids that are stored
    ready,     \* stored ids with next_attempt_at <= now, oldest first
    dlq,       \* webhook:dlq:{id}
    delivery,  \* deliver_one tasks of the current batch
    retrying,  \* calls of retry_from_dlq
    enqueued,  \* history: ids whose enqueue returned
    accepted,  \* history: ids the receiver answered with 2xx
    purged,    \* history: ids purge_dlq removed
    dropped,   \* history: ids whose dead_letter was cut off between its two steps,
               \* or came while retry_from_dlq was about to delete the dead letter
    dlqCalls, crashes, faults  \* how much of each bound is used

vars == <<outbox, ready, dlq, delivery, retrying, enqueued, accepted, purged, dropped,
          dlqCalls, crashes, faults>>
bounds == <<dlqCalls, crashes, faults>>
history == <<enqueued, accepted, purged, dropped>>

\* ready lists no envelope twice.
Without(seq, i) == Seqs!RemoveFirst(seq, i)
Stored(i) == i \in DOMAIN outbox
PutOutbox(i, n) == [x \in DOMAIN outbox \cup {i} |-> IF x = i THEN n ELSE outbox[x]]
DelOutbox(i)    == [x \in DOMAIN outbox \ {i} |-> outbox[x]]

None == [pc |-> "none", attempts |-> 0]
At(i, p)     == delivery[i].pc = p
Become(i, k) == delivery' = [delivery EXCEPT ![i] = k]
Goto(i, p)   == Become(i, [delivery[i] EXCEPT !.pc = p])
Ends(i)      == Become(i, None)
NoFault      == UNCHANGED faults
StoreFault   == faults < MaxFaults /\ faults' = faults + 1

\* A put makes envelope i due at once, or after its backoff.
Due(i)  == ready' = Append(Without(ready, i), i)
Wait(i) == ready' = Without(ready, i)

-----------------------------------------------------------------------------
(* The producers *)

\* enqueue: a put that fails is reported and is no promise.
Enqueue(i) ==
    /\ i \notin enqueued /\ ~Stored(i)
    /\ outbox' = PutOutbox(i, 0)
    /\ Due(i)
    /\ enqueued' = enqueued \cup {i}
    /\ UNCHANGED <<dlq, delivery, retrying, accepted, purged, dropped, bounds>>

\* next_attempt_at of a stored envelope comes.
BackoffEnds(i) ==
    /\ Stored(i) /\ \A k \in 1..Len(ready) : ready[k] # i
    /\ Due(i)
    /\ UNCHANGED <<outbox, dlq, delivery, retrying, history, bounds>>

-----------------------------------------------------------------------------
(* DeliveryWorker *)

\* process_batch runs again only when every delivery of the last batch ended.
BatchDone == \A i \in Ids : At(i, "none")

ProcessBatch ==
    LET n     == IF Len(ready) < MaxConcurrent THEN Len(ready) ELSE MaxConcurrent
        batch == {ready[k] : k \in 1..n}
    IN  /\ BatchDone /\ ready # <<>>
        /\ delivery' = [i \in Ids |-> IF i \in batch THEN [pc |-> "post", attempts |-> outbox[i]]
                                                     ELSE None]
        /\ UNCHANGED <<outbox, ready, dlq, retrying, history, bounds>>

\* The receiver answers 2xx; the envelope is to be acknowledged.
Accept(i) ==
    /\ At(i, "post")
    /\ accepted' = accepted \cup {i}
    /\ Goto(i, "ack")
    /\ UNCHANGED <<outbox, ready, dlq, retrying, enqueued, purged, dropped, bounds>>

\* Mutant: the attempt under way is not counted against the limit.
Reject_OneTooMany(i) ==
    /\ At(i, "post")
    /\ Goto(i, IF delivery[i].attempts >= MaxAttempts THEN "dead_letter" ELSE "retry")
    /\ UNCHANGED <<outbox, ready, dlq, retrying, history, bounds>>

\* The POST fails, times out or is answered with another status; the receiver
\* may have taken the payload all the same.
Reject(i) ==
    /\ At(i, "post")
    /\ \E taken \in SUBSET {i} : accepted' = accepted \cup taken
    /\ Goto(i, IF delivery[i].attempts + 1 >= MaxAttempts THEN "dead_letter" ELSE "retry")
    /\ UNCHANGED <<outbox, ready, dlq, retrying, enqueued, purged, dropped, bounds>>

\* The result of the delete is ignored.
Ack(i) ==
    /\ At(i, "ack")
    /\ \/ NoFault /\ outbox' = DelOutbox(i) /\ Wait(i)
       \/ StoreFault /\ UNCHANGED <<outbox, ready>>
    /\ Ends(i)
    /\ UNCHANGED <<dlq, retrying, history, dlqCalls, crashes>>

\* Mutant: the attempt is not counted.
Retry_NotCounted(i) ==
    /\ At(i, "retry")
    /\ outbox' = PutOutbox(i, delivery[i].attempts)
    /\ Wait(i)
    /\ Ends(i)
    /\ UNCHANGED <<dlq, retrying, history, bounds>>

Retry(i) ==
    /\ At(i, "retry")
    /\ \/ NoFault /\ outbox' = PutOutbox(i, delivery[i].attempts + 1) /\ Wait(i)
       \/ StoreFault /\ UNCHANGED <<outbox, ready>>
    /\ Ends(i)
    /\ UNCHANGED <<dlq, retrying, history, dlqCalls, crashes>>

\* dead_letter deletes the envelope from the outbox, whether it succeeds or not
\* (the result is ignored), and then puts it into the dead letter queue.
DeadLetterDelete(i) ==
    /\ At(i, "dead_letter")
    /\ \/ NoFault /\ outbox' = DelOutbox(i) /\ Wait(i)
       \/ StoreFault /\ UNCHANGED <<outbox, ready>>
    /\ Goto(i, "dead_letter_put")
    /\ UNCHANGED <<dlq, retrying, history, dlqCalls, crashes>>

\* The dead letter of i is the one a call of retry_from_dlq will delete.
Overtaken(i) == \E c \in Callers : retrying[c] = [pc |-> "delete", id |-> i]

DeadLetterPut(i) ==
    /\ At(i, "dead_letter_put")
    /\ \/ NoFault /\ dlq' = dlq \cup {i} /\ dropped' = dropped \cup {j \in {i} : Overtaken(j)}
       \/ StoreFault /\ dropped' = dropped \cup {i} /\ UNCHANGED dlq
    /\ Ends(i)
    /\ UNCHANGED <<outbox, ready, retrying, enqueued, accepted, purged, dlqCalls, crashes>>

-----------------------------------------------------------------------------
(* The operator's calls *)

NoCall == [pc |-> "none", id |-> "none"]
Call(c, k) == retrying' = [retrying EXCEPT ![c] = k]

\* Mutant: the entry is taken out of the DLQ before it is in the outbox.
RetryFromDlq_DeletesFirst(c, i) ==
    /\ i \in dlq /\ retrying[c] = NoCall /\ dlqCalls < MaxDlqCalls
    /\ dlqCalls' = dlqCalls + 1
    /\ dlq' = dlq \ {i}
    /\ Call(c, [pc |-> "put", id |-> i])
    /\ UNCHANGED <<outbox, ready, delivery, history, crashes, faults>>

\* retry_from_dlq: get, put into the outbox, delete from the DLQ.
RetryFromDlq(c, i) ==
    /\ i \in dlq /\ retrying[c] = NoCall /\ dlqCalls < MaxDlqCalls
    /\ dlqCalls' = dlqCalls + 1
    /\ Call(c, [pc |-> "put", id |-> i])
    /\ UNCHANGED <<outbox, ready, dlq, delivery, history, crashes, faults>>

RetryPut(c) ==
    /\ retrying[c].pc = "put"
    /\ LET i == retrying[c].id
       IN  \/ /\ NoFault /\ outbox' = PutOutbox(i, 0) /\ Due(i)
              /\ Call(c, [pc |-> "delete", id |-> i])
           \/ /\ StoreFault /\ UNCHANGED <<outbox, ready>>
              /\ Call(c, NoCall)
    /\ UNCHANGED <<dlq, delivery, history, dlqCalls, crashes>>

\* The result of the delete is ignored.
RetryDelete(c) ==
    /\ retrying[c].pc = "delete"
    /\ \/ NoFault /\ dlq' = dlq \ {retrying[c].id}
       \/ StoreFault /\ UNCHANGED dlq
    /\ Call(c, NoCall)
    /\ UNCHANGED <<outbox, ready, delivery, history, dlqCalls, crashes>>

PurgeDlq ==
    /\ dlq # {} /\ dlqCalls < MaxDlqCalls
    /\ dlqCalls' = dlqCalls + 1
    /\ purged' = purged \cup dlq
    /\ dlq' = {}
    /\ UNCHANGED <<outbox, ready, delivery, retrying, enqueued, accepted, dropped, crashes, faults>>

-----------------------------------------------------------------------------
\* The process dies and is started again; the store survives.
Crash ==
    /\ crashes < MaxCrashes
    /\ crashes' = crashes + 1
    /\ delivery' = [i \in Ids |-> None]
    /\ retrying' = [c \in Callers |-> NoCall]
    /\ dropped' = dropped \cup {i \in Ids : At(i, "dead_letter_put")}
    /\ UNCHANGED <<outbox, ready, dlq, enqueued, accepted, purged, dlqCalls, faults>>

Init ==
    /\ outbox = <<>> /\ ready = <<>> /\ dlq = {}
    /\ delivery = [i \in Ids |-> None]
    /\ retrying = [c \in Callers |-> NoCall]
    /\ enqueued = {} /\ accepted = {} /\ purged = {} /\ dropped = {}
    /\ dlqCalls = 0 /\ crashes = 0 /\ faults = 0

Deliver(i) == Accept(i) \/ Reject(i) \/ Ack(i) \/ Retry(i) \/ DeadLetterDelete(i) \/ DeadLetterPut(i)
Operate(c) == RetryPut(c) \/ RetryDelete(c)

\* The outbox is empty and nothing is going on.
Quiet ==
    /\ DOMAIN outbox = {} /\ BatchDone /\ \A c \in Callers : retrying[c] = NoCall
    /\ UNCHANGED vars

Next ==
    \/ \E i \in Ids : Enqueue(i) \/ BackoffEnds(i) \/ Deliver(i)
    \/ \E c \in Callers : Operate(c) \/ \E i \in Ids : RetryFromDlq(c, i)
    \/ ProcessBatch
    \/ PurgeDlq \/ Crash \/ Quiet

Spec == Init /\ [][Next]_vars

\* The worker polls, a request ends by its timeout, and clocks go on.  The
\* receiver owes nothing: it may reject every delivery.
FairSpec ==
    /\ Spec
    /\ WF_vars(ProcessBatch)
    /\ \A i \in Ids : WF_vars(Deliver(i)) /\ WF_vars(BackoffEnds(i))
    /\ \A c \in Callers : WF_vars(Operate(c))

-----------------------------------------------------------------------------
(* Properties *)

\* Stored envelopes, the order they are due in and the tasks keep their types.
TypeOK ==
    /\ DOMAIN outbox \subseteq Ids /\ \A i \in DOMAIN outbox : outbox[i] \in 0..(MaxAttempts - 1)
    /\ {ready[k] : k \in 1..Len(ready)} \subseteq DOMAIN outbox
    /\ Cardinality({ready[k] : k \in 1..Len(ready)}) = Len(ready)
    /\ dlq \subseteq Ids
    /\ \A i \in Ids : delivery[i].attempts \in 0..(MaxAttempts - 1)
    /\ \A c \in Callers : retrying[c] = NoCall \/ retrying[c].id \in Ids

Somewhere(i) == Stored(i) \/ i \in dlq \/ At(i, "dead_letter_put")

\* An envelope that was enqueued is accepted by the receiver, purged by an
\* operator, or still somewhere in the queue.  There are two ways to lose it:
\* dead_letter is cut off between its delete and its put, or it stores the
\* envelope just before retry_from_dlq deletes the older dead letter.
Accounted == enqueued \subseteq {i \in Ids : Somewhere(i)} \cup accepted \cup purged \cup dropped

\* Every stored envelope leaves the outbox in the end, however often the
\* receiver rejects it, the store fails or the process restarts.
Settles == \A i \in Ids : Stored(i) ~> ~Stored(i)

=============================================================================

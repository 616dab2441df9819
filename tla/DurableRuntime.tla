--------------------------- MODULE DurableRuntime ---------------------------
(***************************************************************************)
(* The durable execution runtime (crates/clawdesk-runtime): workflow runs, *)
(* their leases and fence tokens, the activity journal, the checkpoints,   *)
(* the dead letter queue and the recovery manager.                         *)
(*                                                                         *)
(* Every public call (start, create + resume, resume, cancel,              *)
(* scan_and_recover, retry_from_dlq) is a tokio task.  A task stops        *)
(* between any two operations on the SochDB store, because each of those   *)
(* takes the store's lock for itself only; one action below is one store   *)
(* operation with the local code around it.                                *)
(*                                                                         *)
(* Abstractions: the payload of a model response is the number of the call *)
(* that produced it; token counts, prompts, timestamps of records and log  *)
(* lines are left out; an error is "retryable" or "fatal" by what          *)
(* RetryPolicy::should_retry answers.  WorkflowRun::deadline is None in    *)
(* every run the repository creates and is left out.                       *)
(***************************************************************************)
EXTENDS Naturals, Sequences

CONSTANTS
    Runs,        \* run identifiers (RunId)
    Tasks,       \* slots for concurrently executing calls
    Workers,     \* worker identities
    WorkerOf,    \* the worker_id of the DurableAgentRunner a task runs on
    NoRun, NoWorker,
    TTL,         \* default_ttl_secs, in clock ticks
    MaxAttempts, \* retry_policy.max_attempts
    MaxCalls,    \* bound: calls made by clients
    MaxTime,     \* bound: clock
    MaxRestarts, \* bound: process crashes
    MaxFaults    \* bound: failing store operations

ASSUME ConstantsAssumption ==
    /\ WorkerOf \in [Tasks -> Workers]
    /\ NoRun \notin Runs /\ NoWorker \notin Workers
    /\ TTL \in Nat \ {0} /\ MaxAttempts \in Nat
    /\ MaxCalls \in Nat /\ MaxTime \in Nat
    /\ MaxRestarts \in Nat /\ MaxFaults \in Nat

VARIABLES
    runs,         \* runtime:runs:{id}
    lease,        \* runtime:leases:{id}
    journal,      \* runtime:runs:{id}:journal:{seq}
    checkpoint,   \* runtime:runs:{id}:checkpoint
    dlq,          \* runtime:dlq:{id}
    fenceCounter, \* FENCE_COUNTER, lost with the process
    now,          \* the wall clock
    task,         \* the calls in progress
    calls, restarts, faults  \* how much of each bound is used

store == <<runs, lease, journal, checkpoint, dlq>>
env   == <<now, calls, restarts, faults>>
vars  == <<store, fenceCounter, task, env>>

-----------------------------------------------------------------------------
(* Records *)

Terminal  == {"completed", "failed", "cancelled"}
RunStates == {"absent", "pending", "running", "suspended"} \cup Terminal

\* A key that is not in the store is "absent"; WorkflowRun::new is pending.
\* output is what RunState::Completed carries, 0 in every other state.
AbsentRun == [state |-> "absent", attempt |-> 0, worker |-> NoWorker, nextSeq |-> 0,
              output |-> 0]
NewRun    == [AbsentRun EXCEPT !.state = "pending"]

is_terminal(run) == run.state \in Terminal

RunRecord == [state: RunStates, attempt: Nat,
              worker: Workers \cup {NoWorker}, nextSeq: Nat, output: Nat]

\* Fence tokens start at 1, so NoLease cannot be mistaken for a lease.
NoLease == [worker |-> NoWorker, fence |-> 0, expires |-> 0]

LeaseRecord == [worker: Workers \cup {NoWorker}, fence: Nat, expires: Nat]

is_valid(l)      == now < l.expires
is_held_by(l, w) == l.worker = w /\ is_valid(l)

NoCheckpoint == [saved |-> FALSE, messages |-> <<>>]
CheckpointRecord == [saved: BOOLEAN, messages: Seq(Nat)]

Errors == {"retryable", "fatal"}

\* store.put of one journal key: a second put of a key replaces its value.
Put(f, k, v) == [x \in DOMAIN f \cup {k} |-> IF x = k THEN v ELSE f[x]]

PCs == {"idle",
        "start", "create", "create_checkpoint", "load",
        "acquire", "fetch", "grant", "renew", "renew_put",
        "load_checkpoint", "save_running", "validate", "run",
        "append", "checkpoint", "keep", "keep_put", "complete", "fail",
        "release", "release_delete",
        "cancel", "cancel_lease",
        "recover_next", "recover_release", "recover_delete", "recover_load",
        "requeue", "enqueue", "mark_failed",
        "dlq_load", "dlq_save", "dlq_remove"}

Idle == [pc |-> "idle", call |-> "none", id |-> 0, run |-> NoRun, wid |-> NoWorker,
         mem |-> AbsentRun, token |-> 0, hist |-> <<>>, err |-> "fatal", todo |-> {}]

TaskRecord ==
    [pc: PCs, call: {"none", "start", "resume", "cancel", "recover", "dlq"},
     id: Nat, run: Runs \cup {NoRun}, wid: Workers \cup {NoWorker},
     mem: RunRecord, token: Nat, hist: Seq(Nat), err: Errors,
     todo: SUBSET (Runs \X LeaseRecord)]

-----------------------------------------------------------------------------
(* Control flow of a task *)

At(t, p)     == task[t].pc = p
Run(t)       == task[t].run
Lease(t)     == lease[Run(t)]
Become(t, k) == task' = [task EXCEPT ![t] = k]
Goto(t, p)   == Become(t, [task[t] EXCEPT !.pc = p])
Return(t)    == Become(t, Idle)
StoreFault   == faults < MaxFaults /\ faults' = faults + 1
NoFault      == UNCHANGED faults
SameClock    == UNCHANGED <<now, calls, restarts>>

\* A client makes a call, which runs as task t from the state k.
Begin(t, k) ==
    /\ At(t, "idle")
    /\ calls < MaxCalls
    /\ calls' = calls + 1
    /\ Become(t, [k EXCEPT !.id = calls + 1])
    /\ UNCHANGED <<store, fenceCounter, now, restarts, faults>>

\* CheckpointStore::save_run.  The record is put first and the two index
\* entries after it: when an index put fails the call returns an error with
\* the record already replaced.
save_run(t, rec, next) ==
    /\ runs' = [runs EXCEPT ![Run(t)] = rec]
    /\ \/ NoFault /\ Become(t, [task[t] EXCEPT !.pc = next, !.mem = rec])
       \/ StoreFault /\ Return(t)
    /\ SameClock
    /\ UNCHANGED <<lease, journal, checkpoint, dlq, fenceCounter>>

\* A step that only moves the task on.
Local == SameClock /\ NoFault /\ UNCHANGED <<store, fenceCounter>>

-----------------------------------------------------------------------------
(* DurableAgentRunner::start and the durable_task tool's create *)

\* RunId::new is fresh: nobody else works on the run before it is saved.
Fresh(r) == runs[r] = AbsentRun /\ \A t \in Tasks : Run(t) # r

\* A call of the DurableAgentRunner of task t on run r, starting at p.
RunnerCall(t, r, c, p) ==
    [Idle EXCEPT !.pc = p, !.call = c, !.run = r, !.wid = WorkerOf[t]]

Start(t, r)  == Fresh(r) /\ Begin(t, RunnerCall(t, r, "start", "start"))
Create(t, r) == Fresh(r) /\ Begin(t, RunnerCall(t, r, "resume", "create"))

StartSaveRun(t) ==
    /\ At(t, "start")
    /\ save_run(t, [NewRun EXCEPT !.state = "running", !.worker = task[t].wid,
                                  !.attempt = 1], "acquire")

CreateSaveRun(t) ==
    /\ At(t, "create")
    /\ save_run(t, NewRun, "create_checkpoint")

\* The tool stores an empty checkpoint and spawns resume.
CreateSaveCheckpoint(t) ==
    /\ At(t, "create_checkpoint")
    /\ checkpoint' = [checkpoint EXCEPT ![Run(t)] = [saved |-> TRUE, messages |-> <<>>]]
    /\ Goto(t, "load")
    /\ SameClock /\ NoFault
    /\ UNCHANGED <<runs, lease, journal, dlq, fenceCounter>>

-----------------------------------------------------------------------------
(* DurableAgentRunner::resume *)

Resume(t, r) == runs[r] # AbsentRun /\ Begin(t, RunnerCall(t, r, "resume", "load"))

\* Mutant: resume does not refuse terminal runs.
LoadRun_NoTerminalCheck(t) ==
    /\ At(t, "load")
    /\ Become(t, [task[t] EXCEPT !.pc = "acquire", !.mem = runs[Run(t)]])
    /\ Local

LoadRun(t) ==
    /\ At(t, "load")
    /\ IF runs[Run(t)] = AbsentRun \/ is_terminal(runs[Run(t)])
         THEN Return(t)
         ELSE Become(t, [task[t] EXCEPT !.pc = "acquire", !.mem = runs[Run(t)]])
    /\ Local

LoadCheckpoint(t) ==
    /\ At(t, "load_checkpoint")
    /\ Become(t, [task[t] EXCEPT !.pc = "save_running",
                                !.hist = checkpoint[Run(t)].messages])
    /\ Local

SaveRunning(t) ==
    /\ At(t, "save_running")
    /\ save_run(t, [task[t].mem EXCEPT !.state = "running", !.worker = task[t].wid,
                                       !.attempt = @ + 1], "validate")

-----------------------------------------------------------------------------
(* LeaseManager.  acquire, renew and release read the lease, decide, and   *)
(* write it in a second store operation.                                   *)

\* Where start and resume go on once they hold the lease.
Acquired(t) == IF task[t].call = "start" THEN "validate" ELSE "load_checkpoint"

AcquireGet(t) ==
    /\ At(t, "acquire")
    /\ \/ is_valid(Lease(t)) /\ ~is_held_by(Lease(t), task[t].wid) /\ Return(t)
       \/ /\ is_held_by(Lease(t), task[t].wid)
          /\ Become(t, [task[t] EXCEPT !.pc = "renew", !.token = Lease(t).fence])
       \/ ~is_valid(Lease(t)) /\ Goto(t, "fetch")
    /\ Local

\* Mutant: the counter is read and not advanced.
FetchFence_NotAdvanced(t) ==
    /\ At(t, "fetch")
    /\ Become(t, [task[t] EXCEPT !.pc = "grant", !.token = fenceCounter])
    /\ Local

FetchFence(t) ==
    /\ At(t, "fetch")
    /\ fenceCounter' = fenceCounter + 1
    /\ Become(t, [task[t] EXCEPT !.pc = "grant", !.token = fenceCounter])
    /\ SameClock /\ NoFault /\ UNCHANGED store

PutLease(t, next) ==
    /\ lease' = [lease EXCEPT ![Run(t)] =
                   [worker |-> task[t].wid, fence |-> task[t].token, expires |-> now + TTL]]
    /\ Goto(t, next)
    /\ SameClock /\ NoFault
    /\ UNCHANGED <<runs, journal, checkpoint, dlq, fenceCounter>>

Grant(t) == At(t, "grant") /\ PutLease(t, Acquired(t))

\* Mutant: the holder check forgets the expiry, as is_held_by without is_valid.
Accepts_IgnoresExpiry(l, t) == l.fence = task[t].token /\ l.worker = task[t].wid

\* The checks of renew and release: the fence first, then the holder.
Accepts(l, t) == l.fence = task[t].token /\ is_held_by(l, task[t].wid)

\* renew inside acquire: its error is acquire's.
RenewGet(t) ==
    /\ At(t, "renew")
    /\ IF Accepts(Lease(t), t) THEN Goto(t, "renew_put") ELSE Return(t)
    /\ Local

RenewPut(t) == At(t, "renew_put") /\ PutLease(t, Acquired(t))

\* renew after the execution: its error is ignored.
KeepGet(t) ==
    /\ At(t, "keep")
    /\ Goto(t, IF Accepts(Lease(t), t) THEN "keep_put" ELSE "complete")
    /\ Local

KeepPut(t) == At(t, "keep_put") /\ PutLease(t, "complete")

\* release: a missing lease is deleted all the same.
Releasable(t) == Lease(t) = NoLease \/ Accepts(Lease(t), t)

DeleteLease(t) ==
    /\ lease' = [lease EXCEPT ![Run(t)] = NoLease]
    /\ SameClock /\ NoFault
    /\ UNCHANGED <<runs, journal, checkpoint, dlq, fenceCounter>>

ReleaseGet(t) ==
    /\ At(t, "release")
    /\ IF Releasable(t) THEN Goto(t, "release_delete") ELSE Return(t)
    /\ Local

ReleaseDelete(t) == At(t, "release_delete") /\ DeleteLease(t) /\ Return(t)

-----------------------------------------------------------------------------
(* DurableAgentRunner::execute_with_durability and what follows it *)

\* LeaseManager::validate_fence: its error is classified as a context
\* overflow, which the agent policy does not retry.
ValidateFence(t) ==
    /\ At(t, "validate")
    /\ IF Lease(t) # NoLease /\ Lease(t).fence = task[t].token /\ is_valid(Lease(t))
         THEN Goto(t, "run")
         ELSE Become(t, [task[t] EXCEPT !.pc = "fail", !.err = "fatal"])
    /\ Local

\* Mutant: the sequence number is taken before the call, also when it fails.
ExecuteRun_CountsFirst(t) ==
    /\ At(t, "run")
    /\ \/ Become(t, [task[t] EXCEPT !.pc = "append", !.mem.nextSeq = @ + 1])
       \/ \E e \in Errors :
            Become(t, [task[t] EXCEPT !.pc = "fail", !.err = e, !.mem.nextSeq = @ + 1])
    /\ Local

\* create_runner and runner.run: minutes may pass here.
ExecuteRun(t) ==
    /\ At(t, "run")
    /\ \/ Goto(t, "append")
       \/ \E e \in Errors : Become(t, [task[t] EXCEPT !.pc = "fail", !.err = e])
    /\ Local

\* Mutant: the checkpoint is skipped.
JournalAppend_NoCheckpoint(t) ==
    /\ At(t, "append")
    /\ journal' = [journal EXCEPT ![Run(t)] = Put(@, task[t].mem.nextSeq, task[t].id)]
    /\ Become(t, [task[t] EXCEPT !.pc = "keep", !.mem.nextSeq = @ + 1])
    /\ SameClock /\ NoFault
    /\ UNCHANGED <<runs, lease, checkpoint, dlq, fenceCounter>>

\* run.next_seq() counts in memory; the counter is stored by the next save_run.
JournalAppend(t) ==
    /\ At(t, "append")
    /\ journal' = [journal EXCEPT ![Run(t)] = Put(@, task[t].mem.nextSeq, task[t].id)]
    /\ Become(t, [task[t] EXCEPT !.pc = "checkpoint", !.mem.nextSeq = @ + 1])
    /\ SameClock /\ NoFault
    /\ UNCHANGED <<runs, lease, checkpoint, dlq, fenceCounter>>

\* Mutant: the checkpoint holds the response without the history.
SaveCheckpoint_NoHistory(t) ==
    /\ At(t, "checkpoint")
    /\ checkpoint' = [checkpoint EXCEPT ![Run(t)] =
                        [saved |-> TRUE, messages |-> <<task[t].id>>]]
    /\ Goto(t, "keep")
    /\ SameClock /\ NoFault
    /\ UNCHANGED <<runs, lease, journal, dlq, fenceCounter>>

SaveCheckpoint(t) ==
    /\ At(t, "checkpoint")
    /\ checkpoint' = [checkpoint EXCEPT ![Run(t)] =
                        [saved |-> TRUE, messages |-> Append(task[t].hist, task[t].id)]]
    /\ Goto(t, "keep")
    /\ SameClock /\ NoFault
    /\ UNCHANGED <<runs, lease, journal, dlq, fenceCounter>>

SaveCompleted(t) ==
    /\ At(t, "complete")
    /\ save_run(t, [task[t].mem EXCEPT !.state = "completed", !.output = task[t].id], "release")

\* Mutant: the attempt that has just failed is not counted against the limit.
HandleFailure_OneMore(t) ==
    /\ At(t, "fail")
    /\ LET retry == task[t].mem.attempt <= MaxAttempts /\ task[t].err = "retryable"
       IN  save_run(t, [task[t].mem EXCEPT !.state = IF retry THEN "suspended" ELSE "failed"],
                    "release")

\* handle_failure
HandleFailure(t) ==
    /\ At(t, "fail")
    /\ LET retry == task[t].mem.attempt < MaxAttempts /\ task[t].err = "retryable"
       IN  save_run(t, [task[t].mem EXCEPT !.state = IF retry THEN "suspended" ELSE "failed"],
                    "release")

-----------------------------------------------------------------------------
(* DurableAgentRunner::cancel *)

Cancel(t, r) ==
    /\ runs[r] # AbsentRun /\ ~is_terminal(runs[r])
    /\ Begin(t, [Idle EXCEPT !.pc = "cancel", !.call = "cancel", !.run = r, !.mem = runs[r]])

CancelSave(t) ==
    /\ At(t, "cancel")
    /\ save_run(t, [task[t].mem EXCEPT !.state = "cancelled"], "cancel_lease")

\* The lease is released in the name of the worker the run record named.
CancelLease(t) ==
    /\ At(t, "cancel_lease")
    /\ IF task[t].mem.worker = NoWorker \/ Lease(t) = NoLease
         THEN Return(t)
         ELSE Become(t, [task[t] EXCEPT !.pc = "release", !.wid = task[t].mem.worker,
                                            !.token = Lease(t).fence])
    /\ Local

-----------------------------------------------------------------------------
(* RecoveryManager *)

\* LeaseManager::scan_expired: strictly before now, so a lease is neither
\* valid nor expired in the instant of its expiry.
Expired == {p \in {<<r, lease[r]>> : r \in Runs} : p[2] # NoLease /\ p[2].expires < now}

ScanAndRecover(t) ==
    /\ Expired # {}
    /\ Begin(t, [Idle EXCEPT !.pc = "recover_next", !.call = "recover", !.todo = Expired])

\* Mutant: the scan does not move on.
RecoverNext_SameAgain(t) ==
    /\ At(t, "recover_next")
    /\ \/ task[t].todo = {} /\ Return(t)
       \/ \E p \in task[t].todo :
            Become(t, [task[t] EXCEPT !.pc = "recover_release", !.run = p[1],
                                      !.wid = p[2].worker, !.token = p[2].fence])
    /\ Local

RecoverNext(t) ==
    /\ At(t, "recover_next")
    /\ \/ task[t].todo = {} /\ Return(t)
       \/ \E p \in task[t].todo :
            Become(t, [task[t] EXCEPT !.pc = "recover_release", !.todo = @ \ {p},
                                      !.run = p[1], !.wid = p[2].worker,
                                      !.token = p[2].fence, !.mem = AbsentRun])
    /\ Local

\* The result of release is ignored.
RecoverRelease(t) ==
    /\ At(t, "recover_release")
    /\ Goto(t, IF Releasable(t) THEN "recover_delete" ELSE "recover_load")
    /\ Local

RecoverDelete(t) ==
    /\ At(t, "recover_delete") /\ DeleteLease(t) /\ Goto(t, "recover_load")

\* ErrorClass::LeaseExpired is retryable under every policy of the repository.
RecoverLoad(t) ==
    /\ At(t, "recover_load")
    /\ LET run == runs[Run(t)]
           next == IF run = AbsentRun \/ is_terminal(run) THEN "recover_next"
                   ELSE IF run.attempt < MaxAttempts THEN "requeue"
                   ELSE "enqueue"
       IN  Become(t, [task[t] EXCEPT !.pc = next, !.mem = run])
    /\ Local

Requeue(t) ==
    /\ At(t, "requeue")
    /\ save_run(t, [task[t].mem EXCEPT !.state = "pending", !.worker = NoWorker], "recover_next")

EnqueueDeadLetter(t) ==
    /\ At(t, "enqueue")
    /\ dlq' = dlq \cup {Run(t)}
    /\ Goto(t, "mark_failed")
    /\ SameClock /\ NoFault
    /\ UNCHANGED <<runs, lease, journal, checkpoint, fenceCounter>>

MarkFailed(t) ==
    /\ At(t, "mark_failed")
    /\ save_run(t, [task[t].mem EXCEPT !.state = "failed"], "recover_next")

\* retry_from_dlq
RetryFromDlq(t, r) ==
    r \in dlq /\ Begin(t, [Idle EXCEPT !.pc = "dlq_load", !.call = "dlq", !.run = r])

DlqLoad(t) ==
    /\ At(t, "dlq_load")
    /\ Become(t, [task[t] EXCEPT !.pc = "dlq_save", !.mem = runs[Run(t)]])
    /\ Local

DlqSave(t) ==
    /\ At(t, "dlq_save")
    /\ save_run(t, [task[t].mem EXCEPT !.state = "pending", !.worker = NoWorker, !.output = 0],
                "dlq_remove")

DlqRemove(t) ==
    /\ At(t, "dlq_remove")
    /\ dlq' = dlq \ {Run(t)}
    /\ Return(t)
    /\ SameClock /\ NoFault
    /\ UNCHANGED <<runs, lease, journal, checkpoint, fenceCounter>>

-----------------------------------------------------------------------------
(* The environment *)

\* What a task does when its store operation fails before it has an effect:
\* acquire and release take an unreadable lease for a missing one, errors of
\* renew after the execution and of release are ignored, errors inside
\* execute_with_durability go to handle_failure; all others end the call.
OnError(k) ==
    CASE k.pc = "acquire"                        -> [k EXCEPT !.pc = "fetch"]
      [] k.pc = "release"                        -> [k EXCEPT !.pc = "release_delete"]
      [] k.pc = "recover_release"                -> [k EXCEPT !.pc = "recover_delete"]
      [] k.pc = "recover_delete"                 -> [k EXCEPT !.pc = "recover_load"]
      [] k.pc \in {"keep", "keep_put"}           -> [k EXCEPT !.pc = "complete"]
      [] k.pc = "validate"                       -> [k EXCEPT !.pc = "fail", !.err = "fatal"]
      [] k.pc \in {"append", "checkpoint"}       -> [k EXCEPT !.pc = "fail", !.err = "retryable"]
      [] OTHER                                   -> Idle

\* Program points whose next step is no store operation.
NoStoreOp == {"idle", "fetch", "run", "recover_next"}

StorageError(t) ==
    /\ task[t].pc \notin NoStoreOp
    /\ StoreFault
    /\ Become(t, OnError(task[t]))
    /\ SameClock /\ UNCHANGED <<store, fenceCounter>>

Tick ==
    /\ now < MaxTime
    /\ now' = now + 1
    /\ UNCHANGED <<store, fenceCounter, task, calls, restarts, faults>>

\* Mutant: the static counter starts at 0, the token of no lease.
Restart_CounterFromZero ==
    /\ restarts < MaxRestarts
    /\ restarts' = restarts + 1
    /\ task' = [t \in Tasks |-> Idle]
    /\ fenceCounter' = 0
    /\ UNCHANGED <<store, now, calls, faults>>

\* The process dies and is started again: the store survives, the tasks and
\* the fence counter do not.
Restart ==
    /\ restarts < MaxRestarts
    /\ restarts' = restarts + 1
    /\ task' = [t \in Tasks |-> Idle]
    /\ fenceCounter' = 1
    /\ UNCHANGED <<store, now, calls, faults>>

AllIdle == \A t \in Tasks : At(t, "idle")

\* Nothing is in progress and the clients have no more calls to make.
Quiescent == AllIdle /\ UNCHANGED vars

-----------------------------------------------------------------------------
Init ==
    /\ runs = [r \in Runs |-> AbsentRun]
    /\ lease = [r \in Runs |-> NoLease]
    /\ journal = [r \in Runs |-> <<>>]
    /\ checkpoint = [r \in Runs |-> NoCheckpoint]
    /\ dlq = {}
    /\ fenceCounter = 1
    /\ task = [t \in Tasks |-> Idle]
    /\ now = 0 /\ calls = 0 /\ restarts = 0 /\ faults = 0

ClientCall(t) ==
    \/ \E r \in Runs : \/ Start(t, r) \/ Create(t, r) \/ Resume(t, r)
                       \/ Cancel(t, r) \/ RetryFromDlq(t, r)
    \/ ScanAndRecover(t)

Progress(t) ==
    \/ StartSaveRun(t) \/ CreateSaveRun(t) \/ CreateSaveCheckpoint(t)
    \/ LoadRun(t) \/ LoadCheckpoint(t) \/ SaveRunning(t)
    \/ AcquireGet(t) \/ FetchFence(t) \/ Grant(t) \/ RenewGet(t) \/ RenewPut(t)
    \/ ValidateFence(t) \/ ExecuteRun(t) \/ JournalAppend(t) \/ SaveCheckpoint(t)
    \/ KeepGet(t) \/ KeepPut(t) \/ SaveCompleted(t) \/ HandleFailure(t)
    \/ ReleaseGet(t) \/ ReleaseDelete(t)
    \/ CancelSave(t) \/ CancelLease(t)
    \/ RecoverNext(t) \/ RecoverRelease(t) \/ RecoverDelete(t) \/ RecoverLoad(t)
    \/ Requeue(t) \/ EnqueueDeadLetter(t) \/ MarkFailed(t)
    \/ DlqLoad(t) \/ DlqSave(t) \/ DlqRemove(t)

Next ==
    \/ \E t \in Tasks : ClientCall(t) \/ Progress(t) \/ StorageError(t)
    \/ Tick
    \/ Restart
    \/ Quiescent

Spec == Init /\ [][Next]_vars

\* The tokio runtime polls every task that can go on; a provider call ends by
\* an answer or by its timeout.  Clients, faults and the clock owe nothing.
Fairness == \A t \in Tasks : WF_vars(Progress(t))

FairSpec == Spec /\ Fairness

-----------------------------------------------------------------------------
(* Properties *)

\* Every variable keeps its type; a journal maps sequence numbers to the
\* responses stored under them.
TypeOK ==
    /\ runs \in [Runs -> RunRecord]
    /\ lease \in [Runs -> LeaseRecord]
    /\ DOMAIN journal = Runs
    /\ \A r \in Runs : DOMAIN journal[r] \subseteq Nat
    /\ checkpoint \in [Runs -> CheckpointRecord]
    /\ dlq \subseteq Runs
    /\ fenceCounter \in Nat \ {0}
    /\ task \in [Tasks -> TaskRecord]
    /\ now \in Nat /\ calls \in Nat /\ restarts \in Nat /\ faults \in Nat

\* A stored run record never claims a journal entry that is not there: every
\* sequence number below next_seq has an entry, whatever crashes, failing
\* writes or overlapping executions came before (journal.append precedes the
\* save_run that stores the counter).
JournalCovers ==
    \A r \in Runs : 0 .. (runs[r].nextSeq - 1) \subseteq DOMAIN journal[r]

\* The response a run completed with is durable: the output the record of a
\* completed run carries is the newest entry its counter covers in the journal
\* and the last message of its checkpoint, wherever the process died and
\* whichever write failed on the way.  The claim is made for calls that do not
\* overlap: a second execution of the run numbers its entries from the same
\* counter and replaces what the first one stored.
CompletedIsDurable ==
    \A r \in Runs : runs[r].state = "completed" =>
        /\ runs[r].nextSeq > 0
        /\ runs[r].nextSeq - 1 \in DOMAIN journal[r]
        /\ journal[r][runs[r].nextSeq - 1] = runs[r].output
        /\ checkpoint[r].messages # <<>>
        /\ checkpoint[r].messages[Len(checkpoint[r].messages)] = runs[r].output

\* A task acts on a fence token as the holder of the lease.
Holds(k) == k.token # 0 /\ k.call # "cancel"

\* During the first life of the process a fence token identifies one grant:
\* tasks with equal tokens, and a task and a stored lease with equal tokens,
\* agree on the run and on the worker, so no check of renew, release or
\* validate_fence can take one worker's lease for another's.
FenceIdentifiesHolder ==
    restarts = 0 =>
        /\ \A t, u \in Tasks : Holds(task[t]) /\ Holds(task[u]) /\ task[t].token = task[u].token =>
              Run(t) = Run(u) /\ task[t].wid = task[u].wid
        /\ \A t \in Tasks, r \in Runs : Holds(task[t]) /\ lease[r].fence = task[t].token =>
              r = Run(t) /\ lease[r].worker = task[t].wid

\* Rounds a checkpoint has recorded are not lost again: a later checkpoint of
\* the run extends it (resume continues from the stored messages).
IsPrefixOf(a, b) == Len(a) <= Len(b) /\ \A i \in 1..Len(a) : a[i] = b[i]

CheckpointGrows ==
    [][\A r \in Runs : IsPrefixOf(checkpoint[r].messages, checkpoint'[r].messages)]_vars

\* A completed or cancelled run keeps its outcome, unless an operator retries
\* it from the dead letter queue.
OutcomeIsFinal ==
    [][\A r \in Runs : runs[r].state \in {"completed", "cancelled"} /\ r \notin dlq =>
          runs'[r].state = runs[r].state]_vars

\* A run that has a checkpoint and is recorded as running while nobody works
\* on it still has a lease, so scan_expired will find it.  (With one failing
\* read of the lease, recover_run deletes it before the run is requeued, and a
\* crash in between hides the run; so the claim is made for a sound store.)
InterruptedRunHasLease ==
    AllIdle /\ faults = 0 => \A r \in Runs : runs[r].state = "running" /\ checkpoint[r].saved =>
                  lease[r] # NoLease

\* What the run records and the dead letter queue show is a behaviour of the
\* abstract run lifecycle: attempts, outcomes, retries and dead letters follow
\* it whichever store operation fails and wherever the process dies, as long as
\* the calls on the runtime do not overlap.
Lifecycle == INSTANCE RunLifecycle WITH
    state   <- [r \in Runs |-> runs[r].state],
    attempt <- [r \in Runs |-> runs[r].attempt],
    dead    <- dlq

ImplementsLifecycle == Lifecycle!Spec

\* Every call returns, whatever fails on the way.
CallsReturn == \A t \in Tasks : ~At(t, "idle") ~> At(t, "idle")

-----------------------------------------------------------------------------
(* The inductive invariant behind JournalCovers and FenceIdentifiesHolder   *)

\* Program points of start and resume at which the task has its fence token.
Holding == {"grant", "renew", "renew_put", "load_checkpoint", "save_running", "validate",
            "run", "append", "checkpoint", "keep", "keep_put", "complete"}

\* Program points of start and resume before that.
Acquiring == {"start", "create", "create_checkpoint", "load", "acquire", "fetch"}

\* A task's local state k makes sense with the journals j and checkpoints c:
\* where it is says which run it works on and that it has a token; what
\* JournalCovers says of stored run records holds of the one in its memory;
\* before it records completion it has journaled and checkpointed.
GoodTask(k, j, c) ==
    /\ k.pc \notin {"idle", "recover_next"} => k.run \in Runs
    /\ k.pc \in Holding \cup Acquiring => k.call # "cancel"
    /\ k.pc \in {"cancel", "cancel_lease"} => k.call = "cancel"
    /\ k.pc \in Holding => k.token # 0
    /\ \A p \in k.todo : p[2].fence > 0
    /\ k.mem.nextSeq > 0 => k.run \in Runs /\ 0 .. (k.mem.nextSeq - 1) \subseteq DOMAIN j[k.run]
    /\ k.pc \in {"checkpoint", "keep", "keep_put", "complete"} => k.mem.nextSeq > 0
    /\ k.pc \in {"keep", "keep_put", "complete"} => c[k.run].saved

GoodTasks == \A t \in Tasks : GoodTask(task[t], journal, checkpoint)

GoodLeases == \A r \in Runs : lease[r] = NoLease \/ lease[r].fence > 0

\* A completed run has a checkpoint and a counted round.
CompletedHasCheckpoint ==
    \A r \in Runs : runs[r].state = "completed" => checkpoint[r].saved /\ runs[r].nextSeq > 0

\* Everything that names a fence token together with the run and the worker
\* it was granted to: tasks, stored leases and the leases a recovery scan has
\* in hand.
ClaimsOf(k) == {<<p[2].fence, p[1], p[2].worker>> : p \in k.todo}
               \cup {c \in {<<k.token, k.run, k.wid>>} : Holds(k)}
LeaseClaims == {<<lease[r].fence, r, lease[r].worker>> : r \in {q \in Runs : lease[q] # NoLease}}
Claims      == LeaseClaims \cup UNION {ClaimsOf(task[t]) : t \in Tasks}

\* Tokens in use were handed out by this process, each to one run and worker.
FenceInv ==
    restarts = 0 => \A c \in Claims : /\ c[1] < fenceCounter
                                      /\ \A d \in Claims : c[1] = d[1] => c = d

SafeInv == TypeOK /\ GoodTasks /\ GoodLeases /\ JournalCovers /\ CompletedHasCheckpoint

IInv == SafeInv /\ FenceInv
=============================================================================

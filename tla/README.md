# ClawDesk: TLA+ models, checks and proofs

This directory holds a formal model of the parts of ClawDesk that keep state
across failures and between concurrent tasks. It is read beside the source:
every definition names, in `PROJECT.json` under `map`, the lines it stands for.

## 1. The system and its components

ClawDesk is a multi-agent gateway in Rust: about sixty crates around an
embedded key-value store (SochDB). A message from a channel, the desktop shell,
the CLI or the gateway becomes an *agent run* (a loop of model and tool calls).
The parts that carry the system's own state logic:

| Component | State | Operations | Interacts with |
|---|---|---|---|
| Durable runner (`clawdesk-runtime/durable_runner.rs`) | a private copy of the run record, a fence token, the history | `start`, `resume`, `cancel` | all stores below, the agent runner |
| Lease manager (`lease.rs`) | `runtime:leases:{id}`, the static `FENCE_COUNTER` | `acquire`, `renew`, `release`, `validate_fence`, `scan_expired` | runner, recovery |
| Journal (`journal.rs`) | `runtime:runs:{id}:journal:{seq}` | `append` | runner |
| Checkpoints and run records (`checkpoint.rs`) | `runtime:runs:{id}`, `…:checkpoint`, two indexes | `save_run`, `load_run`, `save_checkpoint`, `load_checkpoint` | runner, recovery, CLI |
| Dead letter queue (`dead_letter.rs`) | `runtime:dlq:{id}` | `enqueue`, `get`, `remove` | recovery |
| Recovery manager (`recovery.rs`) | none of its own | `scan_and_recover` (at gateway start), `retry_from_dlq` | leases, records, DLQ |
| Session lanes (`clawdesk-agents/session_lane.rs`) | a concurrent map from session to mutex and access time | `acquire`, `remove`, `gc`, eviction | desktop commands that start runs |
| Webhook queue and worker (`clawdesk-gateway/webhook_queue.rs`) | `webhook:outbox:{id}`, `webhook:dlq:{id}` | `enqueue`, batches of deliveries, `ack`, `retry`, `dead_letter`, `retry_from_dlq`, `purge_dlq` | receivers over HTTP |
| Agent loop (`clawdesk-agents/runner.rs`, `failover.rs`, `loop_guard.rs`) | the request's messages, round and retry counters, the failover controller, the guard's counts | `run_with_failover`, `run`, rounds of stream and tools, compaction, cancellation | providers, the tool calls below |
| Tool calls, approvals, `ask_human` (`runner.rs`, `clawdesk-security/exec_approval.rs`, `clawdesk-tauri`) | approval requests, open questions, permits | begin, approve, deny, poll, cleanup, ask, answer, time out | humans in the desktop and in chat channels |
| Sub-agents (`clawdesk-gateway/subagent_manager.rs`, `dynamic_spawn`) | the table of sub-agents, nested futures | register, update, complete, steer, cancel, announce, gc | agent runs |
| Cron executor (`clawdesk-cron/executor.rs`, `dep_resolver.rs`) | the set of running ids, logs in memory and persisted | `tick`, `trigger`, `execute_task`, `resolve_dependencies` | agents, delivery |
| Cron task table (`clawdesk-cron/manager.rs`) | tasks in memory and persisted | `upsert_task`, `set_enabled`, `remove_task`, `load_persisted` | desktop commands, restarts |
| Daemon (`clawdesk-cli/main.rs`, `clawdesk-daemon/runner.rs`) | phases of start and shutdown; `cron:shutdown:task:{id}`; the state index | recovery, restore, serve, six phases of `graceful_shutdown` | runs, cron, event bus, storage |
| Outbox, announce store, A2A tasks, PBFT vote, DAG executor, circuit breaker | state machines of their own | | (section 6) |

`PROJECT.json` lists every crate, with the reason where it is not modelled.

What is hard here, and what each component must therefore keep:

* **Interleaving.** Each SochDB call takes the store's lock for itself
  (`SochStore::op_lock`), so tasks interleave between any two store calls.
  Lease operations are a read and a later write. A record may be saved from a
  copy that is minutes old.
* **Crashes** between any two store calls. What is recorded as done must be
  durable, what was interrupted must be found again, recorded progress must not
  be lost.
* **Timeouts.** Leases expire during an execution, the lane watchdog fires while
  the run is alive, an HTTP request times out although it was received.
* **Failing store calls**, whose errors are in turn returned, ignored or sent
  through the retry policy.
* **Lost wake-ups and late answers.** A human decides between a call's look at
  its request and its wait; an answer arrives for a question that timed out.
* **Dropped futures.** Whoever stops waiting (a tool timeout, a caller that goes
  away) ends everything below at its next await, and the code after it never runs.
* **Limits.** Retry attempts, the number of lanes and of sub-agents, the size of
  a batch, repeated tool calls.

Each of these is an entry of `hazards`, with the line where it bites and the
properties that watch it.

## 2. Modules

| Module | Contents |
|---|---|
| `DurableRuntime` | the runner, leases, journal, checkpoints, DLQ and recovery composed over one store; properties; the inductive invariants of the store |
| `DurableRuntimeClaims` | what a comment of the crate claims and the code does not keep |
| `DurableRuntimeProofs` | proofs: types, journal, fence tokens; the refinement, completion, outcomes, checkpoints and leases while calls on one run do not overlap |
| `RunLifecycle` | the abstract specification of a run, which `DurableRuntime` refines |
| `SessionLane` | the lane map, its mutexes, the watchdog and eviction |
| `WebhookQueue` | the outbox, the worker's deliveries and the operator's calls |
| `CronExecutor` | executions by `tick` and `trigger`, the running set, logs and dependencies |
| `CronTasks` | the task table, its persisted copy and the cycle check |
| `HumanGate` | one round of tool calls with approvals, questions, permits and timeouts |
| `SubAgents` | the sub-agent table and the nested futures of `dynamic_spawn` |
| `Daemon` | composition: CLI and daemon lives, run records and index, recovery, cron snapshot and shutdown over one store |
| `AgentLoop` | one turn: failover attempts, rounds, streams, compaction, loop guard, cancellation |
| `SessionLaneProofs`, `WebhookQueueProofs`, `CronExecutorProofs`, `HumanGateProofs`, `SubAgentsProofs`, `CronDaemonProofs` (`CronTasks` and `Daemon`), `AgentLoopProofs` | proofs about these components (section 4) |
| `MC…` | constants and symmetry for TLC |

Operators named `X_Something` with a comment that starts with "Mutant" are
deliberately wrong variants of `X`; no specification uses them. They show that
the property named in `PROJECT.json` would notice that mistake.

### DurableRuntime

The store is five variables (`runs`, `lease`, `journal`, `checkpoint`, `dlq`);
`fenceCounter` is the static counter; `now` the clock; `task[t]` one call in
progress: its program counter, the run it works on, its worker identity, its
copy of the run record (`mem`), its fence token, its history and, for recovery,
the leases the scan returned (`todo`).

One action is one store operation with the code around it that touches only
local state:

* `start`: `Start`, `StartSaveRun`, then the lease, then the execution.
  The `durable_task` tool's create: `Create`, `CreateSaveRun`,
  `CreateSaveCheckpoint`, then as `resume`.
* `resume`: `Resume`, `LoadRun`, lease, `LoadCheckpoint`, `SaveRunning`.
* `LeaseManager`: `AcquireGet`, `FetchFence` and `Grant`, or `RenewGet` and
  `RenewPut`; `ReleaseGet`, `ReleaseDelete`; `ValidateFence`.
* `execute_with_durability`: `ValidateFence`, `ExecuteRun` (the whole model and
  tool loop, with success or an error), `JournalAppend`, `SaveCheckpoint`,
  `KeepGet`, `KeepPut`; then `SaveCompleted` or `HandleFailure`.
* `cancel`: `Cancel`, `CancelSave`, `CancelLease` and the release.
* Recovery: `ScanAndRecover`, `RecoverNext`, `RecoverRelease`, `RecoverDelete`,
  `RecoverLoad`, `Requeue` or `EnqueueDeadLetter` and `MarkFailed`;
  `RetryFromDlq`, `DlqLoad`, `DlqSave`, `DlqRemove`.
* The environment: `Tick`, `Restart` (tasks and counter are lost, the store is
  not) and `StorageError`, which sends a task where the code sends the error.

Data that no property tells apart is abstracted. A model response is the number
of the call that produced it, so that an overwritten or lost response is
visible. Errors are "retryable" or "fatal", as `should_retry` answers under the
agent policy. `save_run` is one step that may fail after the record is written
(its two index puts come after it). A lease is dated at its put.

Left out: `deadline` (always `None`), `delete_checkpoint`, `delete_all` and
`purge` (no callers), and reads that change nothing (`get_status`, `list`).
`put` is committed in groups, so a crash may lose the last few puts; those are
always a suffix of the store's history, and the state left behind is that of a
crash at an earlier moment followed by the passing of time, since the tasks and
the counter are gone in both. `Restart` at every step therefore covers it.

### SessionLane

`lanes` maps a session to the number of its lane; `lru` orders sessions by
`last_access`; `waiters` is the fair queue of tokio's mutexes. `acquire` is
`Acquire` (count, choose victims), `Evict` (one removal by key at a time),
`GetEntry`, `CloneMutex`, then `Lock`, or `WatchdogFires` and `Replace`;
`Finish` drops the guard. `Remove` and `Gc` have no callers in the repository
and are switched by `Cleanup`. `torn` is a history variable: sessions whose
lane left the map while some call had it in hand. The victims of an eviction
are chosen in one step, although the iteration takes the map's shards in turn.

### WebhookQueue

`outbox` maps stored ids to their attempt counts; `ready` lists the due ones in
the order `scan_pending` sorts them; `delivery[i]` is the `deliver_one` task of
envelope `i` in the current batch; `retrying[c]` a call of `retry_from_dlq`.
`Reject` covers every answer but 2xx and every transport error, after which the
receiver may have taken the payload. `accepted`, `purged` and `dropped` are
history variables. `dropped` records the two ways an envelope is lost:
`dead_letter` deletes it from the outbox and is cut off (crash, failing put)
before it puts it in the dead letter queue; or it puts it there between the put
and the delete of a `retry_from_dlq` that began with the older dead letter.

### RunLifecycle

What the runtime promises a client about one run: it is created, executed in
counted attempts, suspended or requeued, and ends once; an operator may bring a
dead-lettered run back. `DurableRuntime!Lifecycle` is the refinement mapping:
`state` and `attempt` are the fields of the stored record, `dead` the dead
letter queue. Leases, tokens, journals, checkpoints, crashes and store errors
are stutters of it.

### CronExecutor and CronTasks

`CronExecutor`: `exec[s]` is one future of `tick` or one call of `trigger`. It
reads its own last success (`ReadOwn`), then the persisted runs of its
dependencies (`Resolve`, `Resolved`), is skipped (`SaveSkipped`), refused
(`Overlap`) or marks the running set (`Mark`), gets the agent's answer
(`Answer`, where the mark is taken back), appends its log and saves it.
`Drop` is a caller of `trigger` that goes away, `Crash` empties the memory,
`Edit` changes `skip_if_running`. When a schedule is due is left open. After an
execution `tick` saves the newest log of the task, which may be another one's
(`LogToSave`). `owed` is the runs that succeeded and must be on record. A run
leaves it only in a named way: its own `save_log` fails, it crashes or is
dropped, or another execution of the task appends its log before `tick` looks
this one's up (`Outrun`). A save that writes another run's log does not.

`CronTasks`: `upsert_task` checks a preview of the table (`Upsert`), saves
(`UpsertSave`) and inserts (`UpsertInsert`), with the lock taken anew for the
last step; `set_enabled` saves after it has released the lock; `remove_task`
keeps the lock across the persistence. `detect_cycle` is the code's loop over a
stack with its sets of visiting and visited ids. A task is expanded once at
most, so 1 + the number of entries of all dependency lists bounds its rounds;
that the search has ended by then is proved. `AcyclicUnlessRaced` says that it
misses no cycle. It also refuses tables without one, against its comment; no run
states the opposite, and theorem `RefusedForCause` says which tables these are.
No client in the repository sets `depends_on` yet.

### HumanGate

Each call of a round is a task: `Begin` (cancellation, approval gate or
permit), `Ensure`, `Look`, `Listen` and `Expire` (the approval manager's wait),
`AcquirePermit`, then `Execute` or, for `ask_human`, `AskInsert`, `AskWake` and
`AskTake`; `TimeOut` is the tool's timeout. Humans `Approve`, `Deny`, `Respond`
in the desktop or write a chat message (`Inbound`, `InboundAnswer`,
`InboundAck`), which is taken for the answer to any question without one.
`Poll` and `Cleanup` expire requests beside the waiting call. `missed` and
`raced` record the two races the code has: a decision between look and wait, and
two answers to one question. `ask_human` blocks its thread while `on_message`
holds a reference to the entry, and `on_message` needs a thread to go on, hence
`Threads`. When every thread is blocked so (`Exhausted`) nothing unblocks them;
the model lets the steps of other calls go on all the same, which only adds
behaviours.

### SubAgents

`entries` is the manager's table. `fut[f]` is a call of `dynamic_spawn`, or of
the manager's own `spawn_from_thread` and `steer_restart`; `up` makes the calls
of `dynamic_spawn` a forest. `Check` and `Insert` are the two locks of
`register`; `Mark`, `Finish`, `TimeOut`, `Leave` the rest of the tool. `Drop`
is a tool timeout above: the future and all below it vanish, at whatever await
they are. `Gc` removes every ended entry, whoever's timer fires.

### Daemon

The lives of the processes that open one data directory, one after the other.
A CLI life executes a run through its record, index entry, lease and outcome.
A daemon life recovers runs whose lease it finds, restores cron tasks from the
shutdown snapshot, deletes it, serves, and on Ctrl+C goes through the phases of
`graceful_shutdown`: stop accepting, drain (until no run is listed as running or
the timeout), checkpoint and sweep, flush the bus, persist cron tasks, close.
`PutRecord` and `PutIndex` are the two puts of `save_run`; entries under former
states are never deleted. `ServeFails` is the error return of `serve` (an address
that does not parse or is in use), which ends the process without a shutdown.
`Crash` is possible everywhere, and one store operation may fail. Here a run is only the label of its state and a task a
version number: `DurableRuntime` and `CronTasks` have the detail.

### AgentLoop

`ctl` is the failover controller, its states and counters those of
`failover.rs` (`Transition`, `record_failure`, `advance_to_next_model`).
`Rotating` and `Retried` are the arms of `record_failure`, not the sets of
`FailoverReason`'s predicates: `is_transient` has `RateLimit` in the place of
`ContentFilter`, and only tests call it.
`NextAttempt`, `StartAttempt` and `HookCancelsRun` begin an attempt;
`StartRound`, `Send`, `StreamFails`, `StreamEmpty`, `RetryEmpty`, `Answer` and
`AskForTools` are a round; `CheckAndCompact` and `HandleOverflow` the two places
where messages are dropped; `ToolRound` passes the calls through the loop guard
(`Judge`) and runs those it lets through. Messages are kept as far as compaction
tells them apart; token counts are not, so which level of compaction is taken is
a choice. `classify` is what the error's text makes of it: several errors of the
code (authentication, unknown model, HTTP 504 and 529) come out as Unknown.

## 3. Runs

Passing runs:

| Run | Instance | Shows |
|---|---|---|
| `dr_concurrent` | 1 run, 2 tasks of different workers, 3 calls, 2 ticks with a lease of 1, 1 restart | `TypeOK`, `JournalCovers`, `FenceIdentifiesHolder` in every interleaving |
| `dr_sequential` | 1 task, 4 calls, 4 ticks, 2 restarts, 1 store fault, 2 attempts | `ImplementsLifecycle` (the refinement), `CompletedIsDurable`, `InterruptedRunHasLease`, `CheckpointGrows`, `OutcomeIsFinal`, `CallsReturn` |
| `session_lanes` | 4 sessions, 2 tasks, capacity 1, 4 calls, watchdog, cleanup | `TypeOK`, `OverlapOnlyWhenTorn`, `LanesBounded`, `AcquireReturns` |
| `webhook_delivery` | 2 envelopes, batches of 1, 2 attempts, 2 operators with 2 calls, 1 crash, 1 fault | `TypeOK`, `Accounted`, `Settles` |
| `cron_executions` | 2 chained tasks, 2 futures, 3 executions, a window of 1 log, 1 event (edit, drop, fault or crash) | `TypeOK`, `OneAtATime`, `MarkAccurate`, `SuccessRecorded`, `ResultUsedOnce`, `MarkReleased` |
| `cron_tasks` | 3 ids, 5 different offers, 2 concurrent calls, 5 calls, 1 fault, 1 crash | `AcyclicUnlessRaced`, `SavedIsCurrent` |
| `human_gate` | 1 command, 2 questions, 2 messages, 2 permits, 2 threads, timeouts of 1 | `DecisionsAgree`, `SleepsOnlyIfMissed`, `AnswersCount`, `CallsEnd` |
| `subagents` | 2 futures, limit 2, depth 2, 3 sub-agents, 1 drop | `SlotsInUse`, `WithinLimit`, `SteeredStaysSilent`, `Collected` |
| `daemon_restarts` | 1 run, 2 cron tasks of 2 versions, 2 changes, 3 lives, 1 kill, 1 fault | `TasksSurvive`, `NoneLeftRunning`, `ShutdownEnds` |
| `agent_turn` | 2 tool calls, 2 models, 4 attempts, 3 rounds | `CancelStops`, `RepeatsBounded`, `GivenUpForCause`, `TurnEnds` |

The bounds. Leases and fences matter between calls on the *same* run, so one
run suffices; three calls let a run be started, taken over and released, or
recovered and cancelled, in any order; two ticks pass the one-tick lease and the
instant in which it is neither valid nor expired. In `dr_sequential` four calls
fit start, recovery, retry from the DLQ and resume, with a crash before and
after recovery. Two tasks can meet in every pair of steps of `acquire`, and four
sessions are one more than `LanesBounded` allows in the map; capacity one makes
eviction the usual case. Two envelopes overflow a batch of one, and two
operators can retry the same dead letter. Three executions are the predecessor
twice and the dependent once, or the reverse; two futures overlap in every way;
with a window of one log (the code's is 100) a single newer log pushes a success
out of it.
The five offers of `cron_tasks` build chains, a shared predecessor in either
order of visiting, and cycles of two and three tasks. With two permits, two questions keep an approved command
waiting, and their answers can block both threads. Two futures nest or run side by side, and a third registration meets
the limit of two. Three lives are an execution or a shutdown, a restart that is
killed while it restores, and the one after it. In `agent_turn` the thresholds
are below the code's (retries after overflow 2 for 3 and after an empty answer 1
for 3; block at 2 for 5, break at 3 for 8, ping-pong at 2 for 4), which makes
the limits the usual case; the order of the thresholds is the code's. A rate
limit, an overflow and a server error stand for the three classes of reasons
with transitions of their own. Most runs explore three to five hundred thousand
states, `cron_executions` over a million. Deadlock is checked in every run:
`Quiescent`, `Done`, `Quiet`, `Rest`, `Over` and the last disjunct of
`AgentLoop!Next` are the states in which these programs may rest (in `HumanGate`
the clock always ticks, and `CallsEnd` takes the place of that check).

Each property names its exceptions in a history variable (`torn`, `dropped`,
`mixed`, `leaked`, `missed`, `raced`, `excused`, `revived`, ...). An exception
is a place where the code does not keep the property, so the definition of the
variable says exactly which step of which call that is.

Two exceptions take no crash and no fault, and are worth knowing. `CallsEnd`
excepts `Exhausted`: in `human_gate` two answered questions can block both
threads, after which no call ends.
`TasksSurvive` excepts the tasks in memory when `ServeFails`: a daemon that cannot
bind its address has already deleted the snapshot and loses every task it has
just restored.

`CompletedIsDurable`, the action properties and the refinement in `dr_sequential`
are claims about calls that do not overlap; the proofs need this only of calls on the same run.
With overlapping calls on one run they fail: a task saves its own copy of the
record over whatever is stored, a cancelled run can become completed
(durable_runner.rs:203), and a second execution journals its response under the
number of the first one's.

Fairness. `CallsReturn` assumes weak fairness of each task's next step: tokio
polls every task that is ready, store calls return, and a provider call ends by
its answer or its timeout. `AcquireReturns` assumes it of `acquire`'s steps and
of the timer, and not of `Finish`: the run that holds the lane may hang for
ever. `Settles` assumes it of the worker, the deliveries (the HTTP client has a
timeout), the clock and the operator's started calls, and nothing of the
receiver. `MarkReleased` assumes it of an execution up to the agent's answer
(which has a timeout), not of the delivery of the result. `CallsEnd` assumes it
of the clock, the calls and a message once it is being handled; no human is
obliged to do anything. `Collected` assumes it of the futures and the timers of
`gc`. `ShutdownEnds` assumes it of the shutdown's steps, each of which has a
timeout or is a loop over what was listed; nobody owes a Ctrl+C. `TurnEnds`
assumes it of the loop's steps: streams end or fail, and a round of tool calls
ends, which is what `CallsEnd` shows. Clients, crashes and faults are never fair.

Runs that end in a violation state what a comment says and the code does not
keep; `findings` quotes the comment:

| Run | The code does |
|---|---|
| `dr_two_workers_execute` | the lease expires during the model call, which is never renewed meanwhile, and a second worker executes |
| `agent_results_dropped` | compaction drops the results of the calls just made as orphans, because the assistant message that asked for them carries no call ids |

The models reach further states that a reader of the comments would not expect,
without a run of their own.

* Durable runtime. A crash between the append and the `save_run` that stores its
  counter makes the resumed execution use the number again, and the put replaces
  the entry (journal.rs:1 and 23 say append-only). `release` refuses expired leases, the only ones
  `recover_run` presents (recovery.rs:82 "Clean up the expired lease"), and this
  refusal is what makes `InterruptedRunHasLease` true: if it deleted them, a
  crash of recovery before its `save_run` would hide the run for good (mutant
  `Accepts_IgnoresExpiry`). A task overwrites a cancelled record
  (durable_runner.rs:203). `release` deletes a lease granted after its check
  (lease.rs:162). `handle_failure` fails a run without a dead letter. A crash
  between `start`'s `save_run` and its lease hides the run from recovery.
  Nothing calls `resume` for the runs recovery sets to pending; they wait for
  the `durable_task` tool.
* Lanes. A lane is evicted between the clones of its entry and of its mutex
  (session_lane.rs:138; the module's first lines promise serialisation).
* Webhooks. `dead_letter` deletes before it puts (webhook_queue.rs:243; line 1
  says at-least-once).
* Cron. A predecessor that two dependencies share is reported as a cycle
  (dep_resolver.rs:207; line 182 says "Returns `Some(cycle_path)` if a cycle is
  found, `None` otherwise"). A dropped `trigger` leaves the running
  mark for good, so the task never runs again in that process. Only a task's
  newest 100 logs are loaded (state.rs:1170): once newer logs, such as those of
  skipped executions, have pushed its last success out, it runs again on a result
  it has used (dep_resolver.rs:3-6 speaks of results since its own last run).
* Humans. A wake-up between `Look` and `Listen` is lost and the call sleeps to
  its deadline, then acts on the decision. A timed-out `ask_human` leaves an
  entry that swallows the next chat message. The question is shown before its
  entry exists. Cancellation is looked at only when a call begins. Two questions
  answered from channels block two threads: each `ask_human` waits, without
  awaiting, to remove its entry, and `on_message` holds it while it awaits its
  acknowledgement (state.rs:1519); with as many questions as threads none goes on,
  although runner.rs:3049-3050 says that running tools as async tasks "eliminates
  deadlock risk under thread-pool exhaustion".
* Sub-agents. A dropped future keeps its slot for good. `register` checks and
  inserts under two locks. `gc` removes everyone's entries. `update_state` sets
  a cancelled sub-agent running. `steer_restart` has cancelled the old one when
  `register` refuses the new one.
* Daemon. Its cron manager has no persistence (main.rs:2550 says that it
  persists on upsert), so tasks live through the snapshot alone, and a kill
  after the snapshot's deletion, or a server that fails to start, loses them. A run that was ever listed as
  running makes the drain wait for its timeout (checkpoint.rs:89; line 118 says
  "Load all runs in a given state."). Recovery does not find a pending run
  without a lease.
* Agent loop. A rate limit gives up a model at once, there being one profile each,
  and the turn if it was the last model, with attempts left; `is_transient` calls
  it "likely transient and worth retrying" (clawdesk-types/src/failover.rs:152).
  `run_with_failover` counts models and thinking levels and applies
  neither to the attempt (runner.rs:1418-1420 says it does). Cancellations by
  hooks are retried as failures. The context guard's breaker never opens. When a
  call is blocked the results at runner.rs:2208 are zipped with the wrong calls.
  Truncation can drop the user's own message. A second run of the same chat
  replaces the first one's cancellation token, and the first one's end removes
  it (commands.rs:2727).

## 4. Proofs

The theorems hold for every value of the constants (any sets of runs, tasks,
sessions, envelopes, ...; any bounds), each from the one assumption its component
module names (`ConstantsAssumption`, `LaneConstants`, `WebhookConstants`,
`HumanConstants`, `CronConstants`, `CronTaskConstants`, `SubAgentConstants`,
`DaemonConstants`, `AgentLoopConstants`): distinguished values are not members of
the sets they are added to, limits are natural numbers, positive where the
code's are, and the concurrent calls on the lanes and the ids of cron tasks are
finitely many. Every safety invariant of section 3 that the code keeps has a
theorem.
Every inductive invariant below was first checked by TLC on the instances of
section 3.

| Module | Theorem | States |
|---|---|---|
| `DurableRuntimeProofs` | `TypeCorrect` | `Spec => []TypeOK` |
| | `JournalSafe` | `Spec => []JournalCovers` |
| | `FenceSafe` | `Spec => []FenceIdentifiesHolder` |
| | `Refines` | `Spec /\ []CallsApart => ImplementsLifecycle` |
| | `CompletionSafe` | `Spec /\ []CallsApart => []CompletedIsDurable` |
| | `OutcomeKept` | `Spec /\ []CallsApart => OutcomeIsFinal` |
| | `RoundsSurvive` | `Spec /\ []CallsApart => CheckpointGrows` |
| | `InterruptedFound` | `Spec /\ []CallsApart => []InterruptedRunHasLease` |
| `SessionLaneProofs` | `Serialised`, `LanesTyped`, `Capacity` | `OverlapOnlyWhenTorn`, `TypeOK`, `LanesBounded` |
| `WebhookQueueProofs` | `NothingLost`, `QueueKeepsTypes` | `Accounted`, `TypeOK` |
| `HumanGateProofs` | `DecisionsHold`, `WakeUpHolds`, `AnswersReach` | `DecisionsAgree`, `SleepsOnlyIfMissed`, `AnswersCount` |
| `CronExecutorProofs` | `TypesHold`, `Apart`, `MarksTrue`, `SuccessesSaved`, `UsedOnce` | `TypeOK`, `OneAtATime`, `MarkAccurate`, `SuccessRecorded`, `ResultUsedOnce` |
| `SubAgentsProofs` | `SlotsHeld`, `SteeredSilent`, `LimitHolds` | `SlotsInUse`, `SteeredStaysSilent`, `WithinLimit` |
| `CronDaemonProofs` | `CopyCurrent`, `NoTaskWaitsForItself`, `RefusedForCause` | `SavedIsCurrent`, `AcyclicUnlessRaced`; a refusal has a cycle or a shared predecessor for its cause |
| | `TasksRestored`, `RunsCheckpointed` | `TasksSurvive`, `NoneLeftRunning` |
| `AgentLoopProofs` | `Cancels`, `FailoverForCause`, `RepeatsAreBounded` | `CancelStops`, `GivenUpForCause`, `RepeatsBounded` |

`CronDaemonProofs` extends both `CronTasks` and `Daemon`, whose specification has
a name of its own, `DaemonSpec`. Its theorems are about one or the other.

### Durable runtime: the store

`JournalCovers` is not inductive: it speaks of the
stored records, and the records are written from the tasks' copies. `SafeInv`
adds `GoodTasks`, which says of each copy what `JournalCovers` says of the store
(every number below its `nextSeq` has an entry), that a task past
`JournalAppend` has counted one entry, and that a task past `SaveCheckpoint`
has a stored checkpoint. It is preserved because journals only gain keys and a
stored checkpoint is only replaced by another one; so a copy taken at any time
stays good, however stale. Each action is a lemma: it changes one task (or a
journal, checkpoint or record) and the rest is unchanged.

`FenceIdentifiesHolder` needs `FenceInv`: collect as *claims* every token with
the run and worker it stands for, from tasks, stored leases and the leases a
recovery scan holds. Then every claim's token is below `fenceCounter`, and equal
tokens have equal claims. All actions but one produce only claims that existed
before; `FetchFence` adds one whose token is the counter itself, greater than
all others. After a restart the counter starts over and the theorem says
nothing: tokens of the new process may equal tokens of stored leases.

### Durable runtime: the refinement

`CallsApart` says that two tasks are never in the middle of calls on the same
run; calls on different runs may interleave in every way, and crashes and store
faults may happen anywhere. It is a hypothesis because the claims fail without it
(section 3), and nothing in the code enforces it. `dr_sequential` has one task,
so that every one of its behaviours satisfies it.

`SequentialInv` says how the local state of a task fits the store (`Fits`): a
copy of the record that is about to be saved has the state and the attempt of
the stored one, which is pending, running or suspended; from the recorded
attempt on the history is that of the checkpoint; a task in the middle of a
retry works on a dead letter; and so on. Other tasks are on other runs, so the
step of one leaves what the others rely on alone (`OthersFit`). With it each
`save_run` maps to one step of `RunLifecycle` and every other store operation to
a stutter. `OutcomeIsFinal` then follows from the steps of the abstract
specification, not from those of the code. `CheckpointGrows` comes from the
history: it is the checkpoint's messages until an answer is appended.

`CompletedIsDurable` needs `ResponseInv`, which follows the response from its
append to the record: a task past `JournalAppend` has its response as the newest
entry its copy counts, one past `SaveCheckpoint` also as the last message of the
checkpoint, and a stored record that is completed has it in both places. No other
task writes that run's journal or checkpoint meanwhile: here `CallsApart` is
needed.

`InterruptedRunHasLease` needs `LeaseInv`, all of it under `faults = 0`, as the
property is: leases are deleted only when the outcome is already stored, or by a
recovery that finds them valid; a recovery meets a run recorded as running only
with a lease that is stale or that another task has acquired meanwhile
(`ScansStale`). Since `release` refuses expired leases, the recovery then deletes
nothing: the proof rests on this refusal, as does mutant `Accepts_IgnoresExpiry`.

### Induction over data

The induction theorems of the library take an operator as a parameter, which the
provers cannot instantiate. Where an algorithm is a loop (the loop guard over the
calls of a round, the search of `detect_cycle`, the idle lanes in their order), the
model has a recursive function, and the proofs use induction over a *set*: a set
of numbers that is not empty has a least element (`NatLeast`, from the library's
`WFMin`), so that the numbers for which a claim fails have none
(`SetInduction`). That a recursive function satisfies its defining equation
follows in the same way: `Iterates` shows that a solution exists on every
initial segment, hence the function that the definition chooses is one.

### Cron tasks: the table and the search for cycles

`TableTyped` gives types and says that a removal holds the lock. `CopiesInv` says
for every id that is not torn that one call at most is on it and by how much the
stored copy may differ from the table at each of that call's places;
`SavedIsCurrent` is the case without a call.

For the cycles the proof has three layers:

* Graphs. `Reach` is the smallest set closed under dependencies (`ReachClosed`,
  `ReachLeast`). Taking dependencies away closes no cycle (`FewerDeps`), and
  neither do new dependencies of one task that do not lead back to it
  (`OneTaskAcyclic`).
* The search. `DfsInv` is the invariant of the loop: it looks only at what
  is reached from the id (`LedTo`), every dependency of an expanded task is seen
  or on the stack and none of them is the id (`Looked`). Each round lowers
  `Weight`, the length of the stack plus the entries of the lists that are not
  expanded yet, so the stack is empty within the bound; then what was seen is
  closed and does not lead to the id. `DetectCycle` concludes that after the answer
  "no cycle" the id is not reached from itself, and that a refusal has a cause: a
  cycle, or two reached tasks with a common predecessor. The second cause is real:
  a task is not pushed again when its dependencies are done and stays in
  `visiting`, where another way to it counts as a cycle.
* The calls. `NoCycle` carries the result from the check, made on a preview,
  to the insertion: as long as no check was outdated, the table and the copies have
  no cycle, and the task in the hands of an `upsert_task` closes none. The copies
  are part of it because a restart makes them the table.

### The other components

* `LaneInv`: a call from the clone of its lane to the end of its run uses the
  lane that the map has for its session, or the session is torn (`LaneCurrent`);
  a mutex is held once. Two runs of one session that is not torn would hold the
  same mutex.
* `ListsTyped` for `TypeOK`: the access order and the queue of waiters list
  their members once. For `LanesBounded`, a call that has chosen its victims and
  not yet removed them is the difficulty: meanwhile other calls may choose the
  same ones. `RoomForAll` counts, for every set `X` of calls that may be done
  evicting first, the lanes that are then left or claimed by a call on its way to
  one and the calls that will add one; the sum never exceeds `max_lanes` plus the
  number of calls. It needs `OneOwner`: a lane belongs to one session.
* `QueueTyped`: what is due is in the outbox, listed once; counts of attempts stay
  below the maximum, since a delivery is retried only if one more is allowed.
* `WebhookInv`: only accepted envelopes are acknowledged, and a
  `retry_from_dlq` past its put deletes the dead letter only while the envelope is
  elsewhere or is named in `accepted`, `purged` or `dropped` (`Safe`).
* `ApprovalInv` relates, for each call, its place, the request's status and what
  the humans were told; `AskInv` says how long a question's entry lives and which
  message its response is.
* `TypeInv`, `MarkInv`, `OwedInv`: executions that skip when running are
  marked and alone, marks without an execution were leaked, an owed success is
  among the persisted logs or carried by an execution that will save that very log,
  which for one of `tick` means that it is still the newest of its task
  (`Carries`). `ResultInv`, for
  `ResultUsedOnce`: a run number has one log of a success (`RunsApart`); the
  successes of a task that does not overlap come one after the other, each later
  than the results it was based on (`InTurn`), so the newest one on record, if the
  window reaches it, is later than every result used before (`LastSuccess`,
  `TurnOrder`); what a future uses finished after that one, what it knows to be
  used before it (`ResultsOf`). That the records have a newest success is part of
  the invariant (`Newest`), which spares an induction over finite sets.
* `TableInv`, `SilentInv`, `LimitInv`: numbers above the counter are unused; a
  steered sub-agent is suppressed and never active unless set running again;
  between the two locks of `register` one slot is free, unless two overlapped.
  The last counts finite sets with the library's cardinality theorems.
* `TasksInv` says for each phase where the agreed version of a cron task is
  (snapshot, memory or both, `TaskAt`); `RunsInv` that a run recorded as running
  is in the index, or its index put is the next step, and that the sweep has it
  on its list.
* `CancelInv`: after a stream was opened by a cancelled turn, none of the places
  between the check of the token and the request is reached. `FailoverInv`: the
  controller's count of retried failures and its exhaustion are explained by the latest
  failure; `GivenUpForCause` is a property of steps and follows from it and from
  what `record_failure` and `advance_to_next_model` return. `RepeatInv`: a call has
  run as often as the guards of the attempts before allowed, plus what this
  attempt's guard has counted of it, which is capped at `block_threshold - 1`
  (`JudgedFacts` for a whole round; with the cap it does not matter that a blocked
  call is counted too).

### What stays with TLC

* Liveness (`CallsReturn`, `AcquireReturns`, `Settles`, `MarkReleased`,
  `CallsEnd`, `Collected`, `ShutdownEnds`, `TurnEnds`): fairness and `ENABLED`
  are out of this prover's reach.
* The claims of comments that the code does not keep (`OneWorkerExecutes`,
  `PairsStay`): TLC's counterexamples are the result.

## 5. Plan

Modelled in order of importance: the durable runtime and its abstract run,
session lanes, the webhook queue, cron, humans, sub-agents, the daemon that
composes runs and cron over restarts, the agent loop. One run asks one question;
runs of a module were merged when one instance answers several.

No safety property that is checked is without a theorem. What is left is the
liveness of section 3, for which the variants are known (the calls to come, the
attempts left, the phases of a shutdown) and which needs a prover with fairness,
and the components of section 6.

## 6. Not modelled

* Code nothing calls: `deliver_pending` of the sub-agent outbox, the announce
  store, the DAG executor, the PBFT vote, the runtime's supervisors, scopes and
  bounded writer, polls, the auto-reply pipeline, the breaker and retry of
  `clawdesk-infra`. They are used by their own tests only, so there is no client
  to take the inputs of a model from.
* Reachable, with state, and left out: A2A tasks, the gateway's thread ownership
  leases (which expire under their holder as run leases do) and rate limiter,
  the PID file (a check and a later write), the CLI's conscious gateway, the
  profile rotator (never given a profile) and metacognition (never wired).
* Input and output: channel and provider clients, media, browser, voice, the
  desktop and terminal interfaces, discovery and tunnels. What they can do to
  the modelled parts (a stream's ends, an HTTP answer, a chat message) is the
  environment of those models.
* Heuristics: prompts, memory ranking, planner, user models, curiosity. Their
  results are numbers and texts that no state machine depends on.
* Cryptography, and the storage engine, which is taken as a store of atomic
  operations, as its `op_lock` makes it.

The modelled lines are a small share of the repository's 335,557 lines in 859
files. Most of the rest is of the kinds above: `commands.rs`, `state.rs` and
`builtin_tools.rs`, the longest files, are registrations, conversions and calls
of operating-system services, from which the approval gate, `ask_human`,
`dynamic_spawn` and the cron persistence are taken. To model more of them would
restate single assignments.

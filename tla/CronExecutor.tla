---------------------------- MODULE CronExecutor ----------------------------
(***************************************************************************)
(* Executions of scheduled tasks (crates/clawdesk-cron): the futures that  *)
(* CronManager::tick spawns and the calls of trigger, the executor's       *)
(* running set and in-memory logs, the persisted logs, and dependencies on *)
(* the runs of other tasks.  One action is the code between two points  *)
(* at which what other executions do makes a difference.                   *)
(*                                                                         *)
(* The schedule is left open: tick may fire any task.  Prompts, responses  *)
(* and delivery targets are left out; of the in-memory log ring only the   *)
(* newest entry of each task is read.  Dependencies require a Succeeded    *)
(* run, the default.                                                       *)
(***************************************************************************)
EXTENDS Naturals, FiniteSets

CONSTANTS
    Ids,          \* task ids
    Slots,        \* futures that can be in progress at once
    DependsOn,    \* depends_on of each task: ids
    AnyRequired,  \* chain_mode of tasks with dependencies: AnyRequired or AllRequired
    Inject,       \* inject_result of the dependencies
    Window,       \* how many persisted logs last_run_with_status looks at
    MaxRuns,      \* bound: executions
    MaxEvents     \* bound: edits of a task, callers of trigger that go away, failing
                  \* operations of the persistence and process crashes, together

ASSUME CronConstants ==
    /\ DependsOn \in [Ids -> SUBSET Ids]
    /\ AnyRequired \in BOOLEAN /\ Inject \in BOOLEAN
    /\ Window \in Nat \ {0}
    /\ MaxRuns \in Nat /\ MaxEvents \in Nat

VARIABLES
    skip,      \* skip_if_running of each task
    running,   \* CronExecutor::running
    latest,    \* newest entry of CronExecutor::logs for each task
    saved,     \* persisted logs of each task
    exec,      \* the futures in progress
    clock,     \* wall clock, advanced by what happens
    begun,     \* executions so far; numbers them
    mixed,     \* history: tasks that have run without skip_if_running
    leaked,    \* history: tasks whose trigger was dropped while it ran
    overlapped,\* history: tasks with two futures in progress at a time
    owed,      \* history: executions that succeeded, but for those that lost their log to
               \* a fault of the store, a drop, a crash or another one's log
    spent,     \* history: <<task, run>>: results of runs a saved success of task was based on
    events     \* how much of MaxEvents is used

memory  == <<running, latest>>
history == <<mixed, leaked, overlapped, owed, spent>>
vars    == <<skip, memory, saved, exec, clock, begun, history, events>>

-----------------------------------------------------------------------------
Statuses == {"none", "succeeded", "failed", "timed_out", "skipped"}

\* CronRunLog; run is the run_id.
Log == [run: Nat, started: Nat, finished: Nat, status: Statuses]
NoLog == [run |-> 0, started |-> 0, finished |-> 0, status |-> "none"]

PCs == {"idle", "own", "resolve", "mark", "agent", "append", "save"}

\* via: tick or trigger.  log: the log of this execution.  own: finished_at of the
\* task's last success.  todo, used: predecessors to look up, and the runs found
\* fresh.  known (history): the runs that recorded successes of the task were
\* based on when own was read.
Idle == [pc |-> "idle", via |-> "tick", id |-> "none", skip |-> FALSE, own |-> 0, todo |-> {},
         used |-> {}, known |-> {}, inject |-> FALSE, log |-> NoLog]

At(s, p)     == exec[s].pc = p
Id(s)        == exec[s].id
Become(s, k) == exec' = [exec EXCEPT ![s] = k]
Goto(s, p)   == Become(s, [exec[s] EXCEPT !.pc = p])
Event        == events < MaxEvents /\ events' = events + 1
NoFault      == UNCHANGED events
StoreFault   == Event

\* The newest Window logs of a task by started_at (SochDbCronPersistence::load_logs).
load_logs(id) ==
    {l \in saved[id] : Cardinality({m \in saved[id] : m.started > l.started}) < Window}

\* The newest of them that succeeded, or NoLog.
last_success(id) ==
    LET good == {l \in load_logs(id) : l.status = "succeeded"}
    IN  IF good = {} THEN NoLog
        ELSE CHOOSE l \in good : \A m \in good : m.started <= l.started

-----------------------------------------------------------------------------
(* Where executions come from *)

Free == CHOOSE s \in Slots : At(s, "idle")

Begin(s, id, via, p) ==
    /\ At(s, "idle") /\ s = Free /\ begun < MaxRuns
    /\ begun' = begun + 1
    /\ Become(s, [Idle EXCEPT !.pc = p, !.via = via, !.id = id, !.skip = skip[id],
                              !.log.run = begun + 1])
    /\ overlapped' = overlapped \cup {i \in {id} : \E u \in Slots : Id(u) = id}
    /\ UNCHANGED <<skip, memory, saved, clock, mixed, leaked, owed, spent, events>>

\* tick spawns a future for a task whose schedule matches.
Fire(s, id) == Begin(s, id, "tick", IF DependsOn[id] = {} THEN "mark" ELSE "own")

\* trigger ignores schedule and dependencies.
Trigger(s, id) == Begin(s, id, "trigger", "mark")

\* upsert_task changes the task; futures in progress keep their copy.
Edit(id) ==
    /\ Event
    /\ skip' = [skip EXCEPT ![id] = ~@]
    /\ UNCHANGED <<memory, saved, exec, clock, begun, history>>

-----------------------------------------------------------------------------
(* Dependencies: the future of tick and dep_resolver::resolve_dependencies *)

Quiet == UNCHANGED <<skip, memory, saved, clock, begun, history>>

\* An error is taken for a task that never ran.
ReadOwn(s) ==
    /\ At(s, "own")
    /\ LET k     == [exec[s] EXCEPT !.pc = "resolve", !.todo = DependsOn[Id(s)]]
           known == {x[2] : x \in {y \in spent : y[1] = Id(s) /\ last_success(Id(s)) # NoLog}}
       IN  \/ /\ NoFault
              /\ Become(s, [k EXCEPT !.own = last_success(Id(s)).finished, !.known = known])
           \/ StoreFault /\ Become(s, k)
    /\ Quiet

\* Mutant: a predecessor's success counts however old it is.
Fresh_Any(s, l) == l # NoLog

\* The predecessor has succeeded, and after this task's own last success.
Fresh(s, l) == l # NoLog /\ l.finished > exec[s].own

\* One round of the loop over depends_on; an error leaves it unsatisfied.
Resolve(s) ==
    /\ At(s, "resolve") /\ exec[s].todo # {}
    /\ \E p \in exec[s].todo, fresh \in BOOLEAN :
         /\ \/ NoFault /\ fresh = Fresh(s, last_success(p))
            \/ StoreFault /\ fresh = FALSE
         /\ Become(s, [exec[s] EXCEPT !.todo = @ \ {p},
                         !.used = IF fresh THEN @ \cup {last_success(p).run} ELSE @])
    /\ Quiet

Satisfied(s) ==
    IF AnyRequired THEN exec[s].used # {}
    ELSE Cardinality(exec[s].used) = Cardinality(DependsOn[Id(s)])

Resolved(s) ==
    /\ At(s, "resolve") /\ exec[s].todo = {} /\ Satisfied(s)
    /\ Become(s, [exec[s] EXCEPT !.pc = "mark", !.inject = Inject])
    /\ NoFault /\ Quiet

\* Unmet dependencies: a Skipped log goes straight to the persistence, and an
\* error of that is ignored.
SaveSkipped(s) ==
    /\ At(s, "resolve") /\ exec[s].todo = {} /\ ~Satisfied(s)
    /\ clock' = clock + 1
    /\ LET log == [run |-> exec[s].log.run, started |-> clock + 1, finished |-> clock + 1,
                   status |-> "skipped"]
       IN  \/ NoFault /\ saved' = [saved EXCEPT ![Id(s)] = @ \cup {log}]
           \/ StoreFault /\ UNCHANGED saved
    /\ Become(s, Idle)
    /\ UNCHANGED <<skip, memory, begun, history>>

-----------------------------------------------------------------------------
(* CronExecutor::execute_task *)

\* execute_task returned Err: the plain future of tick saves a log all the same,
\* the one with injected results and trigger do not.
AfterError(s) == IF exec[s].via = "tick" /\ ~exec[s].inject THEN "save" ELSE "idle"
Then(s, p, k) == Become(s, IF p = "idle" THEN Idle ELSE [k EXCEPT !.pc = p])

\* Executions by tick whose log is no longer the newest of their task once s
\* appends one: they have appended theirs and not yet read it back.
Outrun(s) == {exec[u].log.run : u \in {v \in Slots \ {s} : /\ Id(v) = Id(s) /\ At(v, "save")
                                                          /\ exec[v].via # "trigger"}}

\* The id is put into the running set and the agent is called.
Marked(s) ==
    /\ running' = running \cup {Id(s)}
    /\ clock' = clock + 1
    /\ mixed' = IF exec[s].skip THEN mixed ELSE mixed \cup {Id(s)}
    /\ Become(s, [exec[s] EXCEPT !.pc = "agent", !.log.started = clock + 1])
    /\ UNCHANGED <<latest, owed>>

\* Mutant: the log of a skipped execution does not say so.
Overlap_NoStatus(s) ==
    /\ latest' = [latest EXCEPT ![Id(s)] = exec[s].log]
    /\ Then(s, AfterError(s), exec[s])
    /\ owed' = owed \ Outrun(s)
    /\ UNCHANGED <<running, clock, mixed>>

\* An overlapping execution logs that it was skipped and returns an error.
Overlap(s) ==
    /\ LET log == [exec[s].log EXCEPT !.started = clock, !.finished = clock,
                                      !.status = "skipped"]
       IN  /\ latest' = [latest EXCEPT ![Id(s)] = log]
           /\ Then(s, AfterError(s), [exec[s] EXCEPT !.log = log])
    /\ owed' = owed \ Outrun(s)
    /\ UNCHANGED <<running, clock, mixed>>

\* Mutant: tick alone looks for an overlap.
Mark_TickOnly(s) ==
    /\ At(s, "mark")
    /\ IF exec[s].skip /\ exec[s].via = "tick" /\ Id(s) \in running THEN Overlap(s) ELSE Marked(s)
    /\ UNCHANGED <<skip, saved, begun, leaked, overlapped, spent, events>>

\* The check for an overlap and the mark are made under one lock.
Mark(s) ==
    /\ At(s, "mark")
    /\ IF exec[s].skip /\ Id(s) \in running THEN Overlap(s) ELSE Marked(s)
    /\ UNCHANGED <<skip, saved, begun, leaked, overlapped, spent, events>>

\* The log of an execution whose agent answered, failed or timed out now.
Outcome(s, status) ==
    /\ clock' = IF status = "succeeded" THEN clock + 1 ELSE clock
    /\ owed' = IF status = "succeeded" THEN owed \cup {exec[s].log.run} ELSE owed
    /\ Become(s, [exec[s] EXCEPT !.pc = "append", !.log.finished = clock',
                                 !.log.status = status])

\* Mutant: the error of the agent is passed on with ?, past the removal.
Answer_FailsEarly(s) ==
    /\ At(s, "agent")
    /\ \/ Outcome(s, "succeeded") /\ running' = running \ {Id(s)}
       \/ Become(s, Idle) /\ UNCHANGED <<running, clock, owed>>
    /\ UNCHANGED <<skip, latest, saved, begun, mixed, leaked, overlapped, spent, events>>

\* Mutant: the mark is kept until the result is delivered.
Answer_KeepsMark(s) ==
    /\ At(s, "agent")
    /\ \/ Outcome(s, "succeeded") /\ UNCHANGED running
       \/ \E status \in {"failed", "timed_out"} : Outcome(s, status) /\ running' = running \ {Id(s)}
    /\ UNCHANGED <<skip, latest, saved, begun, mixed, leaked, overlapped, spent, events>>

\* The agent answers, fails, or is cut off by the timeout; the id leaves the
\* running set.
Answer(s) ==
    /\ At(s, "agent")
    /\ \E status \in {"succeeded", "failed", "timed_out"} : Outcome(s, status)
    /\ running' = running \ {Id(s)}
    /\ UNCHANGED <<skip, latest, saved, begun, mixed, leaked, overlapped, spent, events>>

\* The result is delivered, errors of which are ignored, and the log appended.
\* A timeout is an error to the caller, a failure is not.
AppendLog(s) ==
    /\ At(s, "append")
    /\ latest' = [latest EXCEPT ![Id(s)] = exec[s].log]
    /\ Then(s, IF exec[s].log.status = "timed_out" THEN AfterError(s) ELSE "save", exec[s])
    /\ owed' = owed \ Outrun(s)
    /\ UNCHANGED <<skip, running, saved, clock, begun, mixed, leaked, overlapped, spent, events>>

\* Mutant: trigger too looks its log up among those of the task.
LogToSave_Newest(s) == latest[Id(s)]

\* trigger saves the log it was given; tick saves task_logs(id, 1).first(), the
\* newest log of the task.
LogToSave(s) == IF exec[s].via = "trigger" THEN exec[s].log ELSE latest[Id(s)]

\* An error of save_log is ignored.
SaveLog(s) ==
    /\ At(s, "save")
    /\ LET log == LogToSave(s)
       IN  \/ /\ NoFault
              /\ saved' = [saved EXCEPT ![Id(s)] = @ \cup {log}]
              /\ spent' = IF log.run = exec[s].log.run /\ log.status = "succeeded"
                            THEN spent \cup ({Id(s)} \X exec[s].used) ELSE spent
              /\ UNCHANGED owed
           \/ StoreFault /\ owed' = owed \ {exec[s].log.run} /\ UNCHANGED <<saved, spent>>
    /\ Become(s, Idle)
    /\ UNCHANGED <<skip, memory, clock, begun, mixed, leaked, overlapped>>

-----------------------------------------------------------------------------
(* The environment *)

\* The caller of trigger disconnects and its future is dropped where it waits.
Drop(s) ==
    /\ exec[s].pc \in {"agent", "append", "save"} /\ exec[s].via = "trigger"
    /\ Event
    /\ leaked' = IF At(s, "agent") THEN leaked \cup {Id(s)} ELSE leaked
    /\ owed' = owed \ {exec[s].log.run}
    /\ Become(s, Idle)
    /\ UNCHANGED <<skip, memory, saved, clock, begun, mixed, overlapped, spent>>

Crash ==
    /\ Event
    /\ running' = {} /\ latest' = [id \in Ids |-> NoLog]
    /\ exec' = [s \in Slots |-> Idle]
    /\ owed' = owed \ {exec[s].log.run : s \in Slots}
    /\ leaked' = {}
    /\ UNCHANGED <<skip, saved, clock, begun, mixed, overlapped, spent>>

Rest == (\A s \in Slots : At(s, "idle")) /\ UNCHANGED vars

Init ==
    /\ skip = [id \in Ids |-> TRUE]
    /\ running = {} /\ latest = [id \in Ids |-> NoLog]
    /\ saved = [id \in Ids |-> {}]
    /\ exec = [s \in Slots |-> Idle]
    /\ clock = 0 /\ begun = 0
    /\ mixed = {} /\ leaked = {} /\ overlapped = {} /\ owed = {} /\ spent = {}
    /\ events = 0

\* The steps of a future up to the removal of its mark: locks are released and
\* the agent is under a timeout.
UpToAnswer(s) ==
    \/ ReadOwn(s) \/ Resolve(s) \/ Resolved(s) \/ SaveSkipped(s) \/ Mark(s) \/ Answer(s)

Next ==
    \/ \E s \in Slots : \/ \E id \in Ids : Fire(s, id) \/ Trigger(s, id)
                        \/ UpToAnswer(s)
                        \/ AppendLog(s) \/ SaveLog(s) \/ Drop(s)
    \/ \E id \in Ids : Edit(id)
    \/ Crash \/ Rest

Spec == Init /\ [][Next]_vars

\* Deliveries owe nothing.
FairSpec == Spec /\ \A s \in Slots : WF_vars(UpToAnswer(s))

-----------------------------------------------------------------------------
(* Properties *)

\* Every variable keeps its type, and a log is saved under its own task.
TypeOK ==
    /\ skip \in [Ids -> BOOLEAN] /\ running \subseteq Ids
    /\ latest \in [Ids -> Log] /\ \A id \in Ids : saved[id] \subseteq Log
    /\ \A s \in Slots : exec[s].pc \in PCs /\ (~At(s, "idle") => Id(s) \in Ids)
    /\ \A id \in Ids : \A l \in saved[id] : l.status # "none"

Executing(id) == {s \in Slots : Id(s) = id /\ At(s, "agent")}

\* Overlap prevention: the executions of a task that has only run with
\* skip_if_running never overlap, whether tick or trigger started them and
\* whatever crashed or was dropped before.
OneAtATime == \A id \in Ids \ mixed : Cardinality(Executing(id)) <= 1

\* The running set tells the truth: a task is marked exactly while an execution
\* of it is in progress.  It is not if the caller of a trigger went away, which
\* leaves the mark for good, or if the task also runs without skip_if_running.
MarkAccurate ==
    \A id \in Ids \ (mixed \cup leaked) : id \in running <=> Executing(id) # {}

\* The log of run r is among the persisted ones, as a success.
OnRecord(r) == \E id \in Ids : \E l \in saved[id] : l.run = r /\ l.status = "succeeded"

\* A success goes on record for the tasks that depend on it: when its future has
\* ended, a log of the persistence says that this run succeeded.  Excused are the
\* runs whose own save_log failed, that crashed, whose caller of trigger went
\* away, or that tick looks up under task_logs after another execution of the
\* task has appended its log.
SuccessRecorded ==
    \A r \in owed : \/ OnRecord(r)
                    \/ \E s \in Slots : exec[s].pc \in {"append", "save"} /\ exec[s].log.run = r

\* A task whose executions did not overlap is never based twice on the same
\* run of a predecessor once its first success with it is on record.  (A record
\* that could not be read, or that newer logs, such as those of skipped
\* executions, have pushed out of the window, counts as none.)
ResultUsedOnce ==
    \A s \in Slots : exec[s].pc = "agent" /\ Id(s) \notin overlapped =>
        exec[s].used \cap exec[s].known = {}

\* A mark is taken back in the end, however long deliveries take.
MarkReleased == \A id \in Ids : id \in running \ leaked ~> id \notin running \ leaked
=============================================================================

----------------------------- MODULE CronTasks -----------------------------
(***************************************************************************)
(* The task table of the cron manager (crates/clawdesk-cron/src/manager.rs *)
(* and dep_resolver.rs): upsert_task with its check for dependency cycles, *)
(* set_enabled and remove_task, the table in memory, its copy in the       *)
(* persistence, and load_persisted after a restart.                        *)
(*                                                                         *)
(* A task is its depends_on list and its enabled flag; schedules are       *)
(* valid.  A call stops where it waits for the table's lock or for the     *)
(* persistence.                                                            *)
(***************************************************************************)
EXTENDS Naturals, Sequences, FiniteSets

Seqs == INSTANCE SequencesExt

CONSTANTS
    Ids,        \* task ids
    Offers,     \* what clients upsert: records with an id and a depends_on list
    Slots,      \* calls that can be in progress at once
    NoSlot,
    MaxCalls,   \* bound: calls
    MaxFaults,  \* bound: failing operations of the persistence
    MaxCrashes  \* bound: process crashes

NoId == "none"

ASSUME CronTaskConstants ==
    /\ IsFiniteSet(Ids) /\ NoId \notin Ids
    /\ \A o \in Offers : o.id \in Ids /\ o.deps \in Seq(Ids)
    /\ NoSlot \notin Slots
    /\ MaxCalls \in Nat /\ MaxFaults \in Nat /\ MaxCrashes \in Nat

VARIABLES
    tasks,    \* CronManager::tasks
    saved,    \* cron_tasks/{id}
    writer,   \* the call that holds the table's write lock across an await
    call,     \* the calls in progress
    torn,     \* history: ids whose copies may differ: a save or delete failed, or two
              \* calls on the id overlapped
    raced,    \* history: a task was stored whose cycle check had become outdated
    refused,  \* history: the last task refused, with what the table would have been
    calls, faults, crashes  \* how much of each bound is used

bounds == <<calls, faults, crashes>>
vars   == <<tasks, saved, writer, call, torn, raced, refused, bounds>>

Absent == [deps |-> <<>>, enabled |-> FALSE, present |-> FALSE]
Task(deps) == [deps |-> deps, enabled |-> TRUE, present |-> TRUE]

Idle == [pc |-> "idle", id |-> NoId, task |-> Absent, stale |-> FALSE]
At(s, p)     == call[s].pc = p
Become(s, k) == call' = [call EXCEPT ![s] = k]
NoFault      == UNCHANGED faults
StoreFault   == faults < MaxFaults /\ faults' = faults + 1
Unlocked     == writer = NoSlot

-----------------------------------------------------------------------------
(* dep_resolver::detect_cycle *)

Deps(table, id) == table[id].deps

\* The dependencies that are not done, in their order.
Undone(deps, visited) ==
    LET kept[k \in 0..Len(deps)] ==
            IF k = 0 THEN <<>>
            ELSE IF deps[k] \in visited THEN kept[k - 1] ELSE Append(kept[k - 1], deps[k])
    IN  kept[Len(deps)]

\* One round of the loop: the top of the stack is popped, skipped if it is
\* done, done if it is being visited, and expanded otherwise.
Round(d, table) ==
    LET top  == Seqs!Last(d.stack)
        rest == Seqs!Front(d.stack)
    IN  IF top \in d.visited THEN [d EXCEPT !.stack = rest]
        ELSE IF top \in d.visiting
          THEN [d EXCEPT !.stack = rest, !.visited = @ \cup {top}, !.visiting = @ \ {top}]
          ELSE LET visiting == d.visiting \cup {top}
                   deps     == Deps(table, top)
               IN  [d EXCEPT !.visiting = visiting,
                             !.found = \E i \in DOMAIN deps : deps[i] \in visiting,
                             !.stack = rest \o Undone(deps, d.visited)]

\* Mutant: only a task that depends on itself is a cycle.
detect_cycle_Self(id, table) == \E i \in DOMAIN Deps(table, id) : Deps(table, id)[i] = id

\* The entries of the dependency lists of some tasks.
Entries(table, S) == UNION {{x} \X DOMAIN Deps(table, x) : x \in S}

\* Every round takes an entry off the stack and every task is expanded once at
\* most, so this many rounds empty the stack.
detect_cycle(id, table) ==
    LET limit == 1 + Cardinality(Entries(table, Ids))
        start == [stack |-> <<id>>, visiting |-> {}, visited |-> {}, found |-> FALSE]
        dfs[n \in 0..limit] ==
            IF n = 0 THEN start
            ELSE IF dfs[n - 1].found \/ dfs[n - 1].stack = <<>> THEN dfs[n - 1]
            ELSE Round(dfs[n - 1], table)
    IN  dfs[limit].found

-----------------------------------------------------------------------------
(* The calls *)

\* A call on id begins; other calls on the same id are then in progress too.
Begin(s, id, k) ==
    /\ At(s, "idle") /\ calls < MaxCalls
    /\ calls' = calls + 1
    /\ Become(s, k)
    /\ torn' = torn \cup {i \in {id} : \E u \in Slots : call[u].id = id}

\* upsert_task: the check reads a copy of the table.  A refused task is not
\* stored.
Upsert(s, o) ==
    /\ Unlocked
    /\ LET preview == [tasks EXCEPT ![o.id] = Task(o.deps)]
       IN  IF o.deps # <<>> /\ detect_cycle(o.id, preview)
             THEN /\ At(s, "idle") /\ calls < MaxCalls /\ calls' = calls + 1
                  /\ refused' = [id |-> o.id, table |-> preview]
                  /\ UNCHANGED <<call, torn>>
             ELSE /\ Begin(s, o.id, [pc |-> "save", id |-> o.id, task |-> Task(o.deps),
                                     stale |-> \E u \in Slots : At(u, "insert")])
                  /\ UNCHANGED refused
    /\ UNCHANGED <<tasks, saved, writer, raced, faults, crashes>>

\* The other upserts in progress have checked a table without this task.
Outdate(s, k) ==
    call' = [u \in Slots |-> IF u = s THEN k
                             ELSE [call[u] EXCEPT !.stale = call[u].pc \in {"save", "insert"}]]

\* Persisted first; an error ends the call with nothing stored.
UpsertSave(s) ==
    /\ At(s, "save")
    /\ \/ /\ NoFault
          /\ saved' = [saved EXCEPT ![call[s].id] = call[s].task]
          /\ Outdate(s, [call[s] EXCEPT !.pc = "insert"])
          /\ raced' = (raced \/ call[s].stale)
       \/ StoreFault /\ Become(s, Idle) /\ UNCHANGED <<saved, raced>>
    /\ UNCHANGED <<tasks, writer, torn, refused, calls, crashes>>

UpsertInsert(s) ==
    /\ At(s, "insert") /\ Unlocked
    /\ tasks' = [tasks EXCEPT ![call[s].id] = call[s].task]
    /\ Outdate(s, Idle)
    /\ raced' = (raced \/ call[s].stale)
    /\ UNCHANGED <<saved, writer, torn, refused, bounds>>

\* set_enabled changes the table and saves what it wrote after the lock is
\* released.
SetEnabled(s, id) ==
    /\ Unlocked /\ tasks[id].present
    /\ LET task == [tasks[id] EXCEPT !.enabled = ~@]
       IN  /\ tasks' = [tasks EXCEPT ![id] = task]
           /\ Begin(s, id, [pc |-> "save_enabled", id |-> id, task |-> task, stale |-> FALSE])
    /\ UNCHANGED <<saved, writer, raced, refused, faults, crashes>>

SetEnabledSave(s) ==
    /\ At(s, "save_enabled")
    /\ \/ NoFault /\ saved' = [saved EXCEPT ![call[s].id] = call[s].task] /\ UNCHANGED torn
       \/ StoreFault /\ torn' = torn \cup {call[s].id} /\ UNCHANGED saved
    /\ Become(s, Idle)
    /\ UNCHANGED <<tasks, writer, raced, refused, calls, crashes>>

\* remove_task holds the lock until the persistence has answered; an error is
\* only logged.
RemoveTask(s, id) ==
    /\ Unlocked /\ tasks[id].present
    /\ tasks' = [tasks EXCEPT ![id] = Absent]
    /\ writer' = s
    /\ Begin(s, id, [pc |-> "delete", id |-> id, task |-> Absent, stale |-> FALSE])
    /\ UNCHANGED <<saved, raced, refused, faults, crashes>>

\* Mutant: the delete is left out.
RemoveTaskDelete_Skipped(s) ==
    /\ At(s, "delete")
    /\ writer' = NoSlot
    /\ Become(s, Idle)
    /\ UNCHANGED <<tasks, saved, torn, raced, refused, bounds>>

RemoveTaskDelete(s) ==
    /\ At(s, "delete")
    /\ \/ NoFault /\ saved' = [saved EXCEPT ![call[s].id] = Absent] /\ UNCHANGED torn
       \/ StoreFault /\ torn' = torn \cup {call[s].id} /\ UNCHANGED saved
    /\ writer' = NoSlot
    /\ Become(s, Idle)
    /\ UNCHANGED <<tasks, raced, refused, calls, crashes>>

\* The process dies; the next one calls load_persisted.
Restart ==
    /\ crashes < MaxCrashes
    /\ crashes' = crashes + 1
    /\ tasks' = saved
    /\ writer' = NoSlot
    /\ call' = [s \in Slots |-> Idle]
    /\ raced' = (raced \/ torn # {})
    /\ torn' = {}
    /\ UNCHANGED <<saved, refused, calls, faults>>

Done == (\A s \in Slots : At(s, "idle")) /\ UNCHANGED vars

Init ==
    /\ tasks = [id \in Ids |-> Absent] /\ saved = [id \in Ids |-> Absent]
    /\ writer = NoSlot
    /\ call = [s \in Slots |-> Idle]
    /\ torn = {} /\ raced = FALSE
    /\ refused = [id |-> NoId, table |-> tasks]
    /\ calls = 0 /\ faults = 0 /\ crashes = 0

Next ==
    \/ \E s \in Slots :
        \/ \E o \in Offers : Upsert(s, o)
        \/ \E id \in Ids : SetEnabled(s, id) \/ RemoveTask(s, id)
        \/ UpsertSave(s) \/ UpsertInsert(s) \/ SetEnabledSave(s) \/ RemoveTaskDelete(s)
    \/ Restart \/ Done

Spec == Init /\ [][Next]_vars

-----------------------------------------------------------------------------
(* Properties *)

\* The tasks that follow from a set of tasks along depends_on, and those that are
\* reached from a task: the smallest set that its dependencies do not lead out of.
Following(table, S) == UNION {{Deps(table, x)[i] : i \in DOMAIN Deps(table, x)} : x \in S}
Reach(table, id) ==
    {x \in Ids : \A S \in SUBSET Ids : Following(table, S \cup {id}) \subseteq S => x \in S}
Acyclic(table) == \A id \in Ids : id \notin Reach(table, id)

\* The dependency graph has no cycle, so no task waits for itself: not after
\* any sequence of calls, failures and restarts, unless a task was stored after
\* the table it had been checked against changed, or a restart brought back
\* copies that no longer matched the table.
AcyclicUnlessRaced == ~raced => Acyclic(tasks)

\* What a restart would load is what is in memory, for every task no call is
\* working on, unless two calls on that task overlapped or a save after the
\* fact failed.
SavedIsCurrent ==
    \A id \in Ids \ torn : (\A s \in Slots : call[s].id # id) => saved[id] = tasks[id]
=============================================================================

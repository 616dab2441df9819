------------------------------- MODULE Daemon -------------------------------
(***************************************************************************)
(* One data directory through the lives of the processes that open it: the *)
(* command-line agent, which executes durable runs, and the daemon         *)
(* (`clawdesk daemon run` in clawdesk-cli/src/main.rs), which recovers     *)
(* runs and restores cron tasks when it starts, and goes through the six   *)
(* phases of graceful_shutdown (clawdesk-daemon/src/runner.rs) when it     *)
(* ends.  The database's lock admits one process at a time.                *)
(*                                                                         *)
(* One action is one store operation with the code around it.  A run is    *)
(* the label of its state here; its execution is module DurableRuntime.    *)
(* A cron task is its version; module CronTasks has the cron manager's     *)
(* own races.  The daemon's cron manager has no persistence of its own.    *)
(***************************************************************************)
EXTENDS Naturals, FiniteSets

CONSTANTS
    Runs,           \* durable runs
    Tasks,          \* cron tasks
    MaxVersions,    \* bound: versions of a cron task
    MaxChanges,     \* bound: changes of cron tasks
    MaxLives,       \* bound: processes started
    MaxKills,       \* bound: processes killed
    MaxStoreFaults  \* bound: failing store operations

NoRun == "none"

ASSUME DaemonConstants ==
    /\ NoRun \notin Runs
    /\ MaxVersions \in Nat \ {0} /\ MaxChanges \in Nat
    /\ MaxLives \in Nat /\ MaxKills \in Nat /\ MaxStoreFaults \in Nat

VARIABLES
    \* in the store
    runs,       \* runtime:runs:{id}: the label of the state, or "absent"
    index,      \* runtime:index:state:{label}:{id}
    leases,     \* runs that have a lease, expired or not
    snapshot,   \* cron:shutdown:task:{id}: a version, 0 for no entry
    \* in the process
    at,         \* which process, and where in its life it is
    saving,     \* the run whose save_run has put the record and not yet the index
    todo,       \* runs or tasks the current loop has still to visit
    listed,     \* the cron tasks the current loop is about
    cron,       \* CronManager.tasks
    \* history
    agreed,     \* the cron tasks as last scheduled or removed
    excused,    \* cron tasks that may differ from what was agreed
    missed,     \* runs a failing store operation, or a crash, kept from the index or the sweep
    swept,      \* CheckpointSessions has ended, and no run was started since
    changes, lives, kills, storeFaults

store      == <<runs, index, leases, snapshot>>
process    == <<at, saving, todo, listed, cron>>
history    == <<agreed, excused, missed, swept>>
spent      == <<changes, lives, kills, storeFaults>>
daemonVars == <<store, process, history, spent>>

Active   == {"pending", "running", "suspended"}
Labels   == Active \cup {"completed", "failed"}
Versions == 0..MaxVersions
NoTasks  == [t \in Tasks |-> 0]
Present(f) == {t \in Tasks : f[t] # 0}
Phases   == {"accept", "drain", "checkpoint", "sweep", "flush", "persist", "put", "close"}

Fault == storeFaults < MaxStoreFaults /\ storeFaults' = storeFaults + 1

-----------------------------------------------------------------------------
(* CheckpointStore *)

\* save_run puts the record and then the index entry of its state; the entries
\* of former states stay.
PutRecord(r, label) ==
    /\ saving = NoRun
    /\ runs' = [runs EXCEPT ![r] = label]
    /\ saving' = r

\* Mutant: only new runs are indexed.
PutIndex_NewOnly ==
    /\ saving # NoRun
    /\ saving' = NoRun
    /\ \/ /\ index' = IF \E l \in Labels : <<l, saving>> \in index THEN index
                      ELSE index \cup {<<runs[saving], saving>>}
          /\ missed' = missed \ {saving} /\ UNCHANGED storeFaults
          /\ UNCHANGED todo
       \/ /\ Fault /\ missed' = missed \cup {saving} /\ UNCHANGED index
          /\ todo' = IF at = "recover" THEN {} ELSE todo
    /\ UNCHANGED <<runs, leases, snapshot, at, listed, cron, agreed, excused, swept,
                   changes, lives, kills>>

\* An error ends the recovery scan; a shutdown goes on.
PutIndex ==
    /\ saving # NoRun
    /\ saving' = NoRun
    /\ \/ /\ index' = index \cup {<<runs[saving], saving>>}
          /\ missed' = missed \ {saving} /\ UNCHANGED storeFaults
          /\ UNCHANGED todo
       \/ /\ Fault /\ missed' = missed \cup {saving} /\ UNCHANGED index
          /\ todo' = IF at = "recover" THEN {} ELSE todo
    /\ UNCHANGED <<runs, leases, snapshot, at, listed, cron, agreed, excused, swept,
                   changes, lives, kills>>

load_runs_by_state(label) == {r \in Runs : <<label, r>> \in index}

-----------------------------------------------------------------------------
(* The command-line agent *)

CliStart ==
    /\ at = "off" /\ lives < MaxLives
    /\ lives' = lives + 1 /\ at' = "cli"
    /\ UNCHANGED <<store, saving, todo, listed, cron, history, changes, kills, storeFaults>>

\* start of a new run, or resume of one that waits or was interrupted.
Execute(r) ==
    /\ at = "cli" /\ runs[r] \in {"absent"} \cup Active
    /\ PutRecord(r, "running")
    /\ swept' = FALSE
    /\ UNCHANGED <<index, leases, snapshot, at, todo, listed, cron, agreed, excused, missed,
                   spent>>

PutLease(r) ==
    /\ at = "cli" /\ saving = NoRun /\ runs[r] = "running" /\ r \notin leases
    /\ leases' = leases \cup {r}
    /\ UNCHANGED <<runs, index, snapshot, process, history, spent>>

\* The run ends, or is to be retried.
EndRun(r, label) ==
    /\ at = "cli" /\ runs[r] = "running" /\ r \in leases
    /\ PutRecord(r, label)
    /\ UNCHANGED <<index, leases, snapshot, at, todo, listed, cron, history, spent>>

Release(r) ==
    /\ at = "cli" /\ saving = NoRun /\ runs[r] # "running" /\ r \in leases
    /\ leases' = leases \ {r}
    /\ UNCHANGED <<runs, index, snapshot, process, history, spent>>

CliExit ==
    /\ at = "cli" /\ saving = NoRun
    /\ at' = "off"
    /\ UNCHANGED <<store, saving, todo, listed, cron, history, spent>>

-----------------------------------------------------------------------------
(* The daemon starts *)

\* scan_and_recover visits the leases that have expired by now.
DaemonStart ==
    /\ at = "off" /\ lives < MaxLives
    /\ lives' = lives + 1 /\ at' = "recover"
    /\ todo' \in SUBSET leases
    /\ UNCHANGED <<store, saving, listed, cron, history, changes, kills, storeFaults>>

\* recover_run: a run without an outcome waits again, or has failed if it has no
\* attempt left.  The release before it refuses every expired lease.
Recover(r) ==
    /\ at = "recover" /\ saving = NoRun /\ r \in todo
    /\ todo' = todo \ {r}
    /\ \/ runs[r] \notin Active /\ UNCHANGED <<runs, saving>>
       \/ runs[r] \in Active /\ \E label \in {"pending", "failed"} : PutRecord(r, label)
    /\ UNCHANGED <<index, leases, snapshot, at, listed, cron, history, spent>>

\* A store operation fails and ends the scan for expired leases.
RecoverFails ==
    /\ at = "recover" /\ saving = NoRun /\ todo # {}
    /\ Fault /\ todo' = {}
    /\ UNCHANGED <<store, at, saving, listed, cron, history, changes, lives, kills>>

\* The scan of the shutdown snapshot, after recovery has ended or given up.  If it
\* fails nothing is restored and nothing deleted.
ScanSnapshot ==
    /\ at = "recover" /\ saving = NoRun /\ todo = {}
    /\ at' = "restore"
    /\ \/ /\ listed' = snapshot /\ todo' = Present(snapshot)
          /\ UNCHANGED <<excused, storeFaults>>
       \/ /\ Fault /\ excused' = excused \cup Present(snapshot)
          /\ listed' = NoTasks /\ UNCHANGED todo
    /\ UNCHANGED <<store, saving, cron, agreed, missed, swept, changes, lives, kills>>

Restore(t) ==
    /\ at = "restore" /\ t \in todo
    /\ todo' = todo \ {t}
    /\ cron' = [cron EXCEPT ![t] = listed[t]]
    /\ UNCHANGED <<store, at, saving, listed, history, spent>>

\* Mutant: the snapshot is deleted as soon as it is read.
Restored_Early ==
    /\ at = "restore"
    /\ at' = "clean" /\ todo' = Present(listed)
    /\ UNCHANGED <<store, saving, listed, cron, history, spent>>

\* Only when all tasks are back is the snapshot deleted.
Restored ==
    /\ at = "restore" /\ todo = {}
    /\ at' = "clean" /\ todo' = Present(listed)
    /\ UNCHANGED <<store, saving, listed, cron, history, spent>>

\* A failing delete is ignored: the entry will be restored again.
Clean(t) ==
    /\ at = "clean" /\ t \in todo
    /\ todo' = todo \ {t}
    /\ \/ snapshot' = [snapshot EXCEPT ![t] = 0] /\ UNCHANGED <<excused, storeFaults>>
       \/ Fault /\ excused' = excused \cup {t} /\ UNCHANGED snapshot
    /\ UNCHANGED <<runs, index, leases, at, saving, listed, cron, agreed, missed, swept,
                   changes, lives, kills>>

\* The gateway is told to serve.
Serve ==
    /\ at = "clean" /\ todo = {}
    /\ at' = "serve"
    /\ UNCHANGED <<store, saving, todo, listed, cron, history, spent>>

-----------------------------------------------------------------------------
(* Cron tasks are scheduled and removed by the tools of the daemon's agents,
   which run on during a shutdown, and by requests *)

Up == at \in {"serve"} \cup Phases

\* A task that changes after the snapshot was listed is not in it as it is now.
Change(t, v) ==
    /\ Up /\ changes < MaxChanges /\ v # cron[t]
    /\ changes' = changes + 1
    /\ cron' = [cron EXCEPT ![t] = v] /\ agreed' = [agreed EXCEPT ![t] = v]
    /\ excused' = IF at \in {"put", "close"} THEN excused \cup {t} ELSE excused
    /\ UNCHANGED <<store, at, saving, todo, listed, missed, swept, lives, kills, storeFaults>>

-----------------------------------------------------------------------------
(* graceful_shutdown: the phases in their order, each under a timeout *)

\* Ctrl+C cancels the token, and the server ends.
Stop ==
    /\ at = "serve"
    /\ at' = "accept"
    /\ UNCHANGED <<store, saving, todo, listed, cron, history, spent>>

\* The inbound adapters stop, or the phase times out.
StopAccepting ==
    /\ at = "accept"
    /\ at' = "drain"
    /\ UNCHANGED <<store, saving, todo, listed, cron, history, spent>>

\* No run is listed as running, or the scan fails.
Drained ==
    /\ at = "drain"
    /\ \/ load_runs_by_state("running") = {} /\ UNCHANGED storeFaults
       \/ Fault
    /\ at' = "checkpoint"
    /\ UNCHANGED <<store, saving, todo, listed, cron, history, changes, lives, kills>>

\* Mutant: the phase polls as long as it takes.
DrainTimeout_None == at = "drain" /\ UNCHANGED daemonVars

\* drain_timeout_secs have passed between two polls.
DrainTimeout ==
    /\ at = "drain"
    /\ at' = "checkpoint"
    /\ UNCHANGED <<store, saving, todo, listed, cron, history, spent>>

\* CheckpointSessions visits the runs listed as pending, then those listed as
\* running (no state has the third label, waiting); a scan that fails lists none.
CheckpointScan ==
    /\ at = "checkpoint"
    /\ at' = "sweep"
    /\ \/ /\ todo' = load_runs_by_state("pending") \cup load_runs_by_state("running")
          /\ UNCHANGED <<missed, storeFaults>>
       \/ \E l, k \in {"pending", "running"} :
             /\ l # k /\ Fault
             /\ todo' = load_runs_by_state(l)
             /\ missed' = missed \cup load_runs_by_state(k)
    /\ UNCHANGED <<store, saving, listed, cron, agreed, excused, swept, changes, lives, kills>>

\* A run that is still recorded as running waits again.
Checkpoint(r) ==
    /\ at = "sweep" /\ saving = NoRun /\ r \in todo
    /\ todo' = todo \ {r}
    /\ \/ runs[r] # "running" /\ UNCHANGED <<runs, saving, missed, storeFaults>>
       \/ runs[r] = "running" /\ PutRecord(r, "pending") /\ UNCHANGED <<missed, storeFaults>>
       \/ Fault /\ missed' = missed \cup {r} /\ UNCHANGED <<runs, saving>>
    /\ UNCHANGED <<index, leases, snapshot, at, listed, cron, agreed, excused, swept,
                   changes, lives, kills>>

Checkpointed ==
    /\ at = "sweep" /\ saving = NoRun /\ todo = {}
    /\ at' = "flush" /\ swept' = TRUE
    /\ UNCHANGED <<store, saving, todo, listed, cron, agreed, excused, missed, spent>>

\* Nobody subscribes to the daemon's event bus: its queue is empty.
FlushEventBus ==
    /\ at = "flush"
    /\ at' = "persist"
    /\ UNCHANGED <<store, saving, todo, listed, cron, history, spent>>

\* The scheduler is stopped and the tasks are listed.
PersistCronState ==
    /\ at = "persist"
    /\ at' = "put" /\ listed' = cron /\ todo' = Present(cron)
    /\ UNCHANGED <<store, saving, cron, history, spent>>

\* A put that fails is ignored.
PersistTask(t) ==
    /\ at = "put" /\ t \in todo
    /\ todo' = todo \ {t}
    /\ \/ /\ snapshot' = [snapshot EXCEPT ![t] = listed[t]]
          /\ excused' = IF agreed[t] = listed[t] THEN excused \ {t} ELSE excused
          /\ UNCHANGED storeFaults
       \/ Fault /\ excused' = excused \cup {t} /\ UNCHANGED snapshot
    /\ UNCHANGED <<runs, index, leases, at, saving, listed, cron, agreed, missed, swept,
                   changes, lives, kills>>

Persisted ==
    /\ at = "put" /\ todo = {}
    /\ at' = "close"
    /\ UNCHANGED <<store, saving, todo, listed, cron, history, spent>>

\* The process is gone, and what it had in memory.
Ends == at' = "off" /\ saving' = NoRun /\ todo' = {} /\ listed' = NoTasks /\ cron' = NoTasks

CloseStorage ==
    /\ at = "close"
    /\ Ends
    /\ UNCHANGED <<store, history, spent>>

\* The cron tasks that are in memory only.
Unsaved == {t \in Tasks : cron[t] \notin {0, snapshot[t]}}

\* The address is no address, it is in use, or the server fails: the error ends
\* the process without graceful_shutdown, after the snapshot was deleted.
ServeFails ==
    /\ at = "serve"
    /\ Ends
    /\ excused' = excused \cup Unsaved
    /\ UNCHANGED <<store, agreed, missed, swept, spent>>

\* A process is killed: what was only in its memory is lost.
Crash ==
    /\ at # "off" /\ kills < MaxKills
    /\ kills' = kills + 1
    /\ Ends
    /\ missed' = missed \cup (Runs \cap {saving})
    /\ excused' = excused \cup Unsaved
    /\ UNCHANGED <<store, agreed, swept, changes, lives, storeFaults>>

-----------------------------------------------------------------------------
DaemonInit ==
    /\ runs = [r \in Runs |-> "absent"] /\ index = {} /\ leases = {} /\ snapshot = NoTasks
    /\ at = "off" /\ saving = NoRun /\ todo = {} /\ listed = NoTasks /\ cron = NoTasks
    /\ agreed = NoTasks /\ excused = {} /\ missed = {} /\ swept = FALSE
    /\ changes = 0 /\ lives = 0 /\ kills = 0 /\ storeFaults = 0

Cli ==
    \/ CliStart \/ CliExit
    \/ \E r \in Runs : \/ Execute(r) \/ PutLease(r) \/ Release(r)
                       \/ \E label \in {"suspended", "completed", "failed"} : EndRun(r, label)

Startup ==
    \/ \E r \in Runs : Recover(r)
    \/ RecoverFails \/ ScanSnapshot \/ Restored \/ Serve
    \/ \E t \in Tasks : Restore(t) \/ Clean(t)

Shutdown ==
    \/ StopAccepting \/ Drained \/ DrainTimeout \/ CheckpointScan
    \/ Checkpointed \/ FlushEventBus \/ PersistCronState \/ Persisted \/ CloseStorage
    \/ \E r \in Runs : Checkpoint(r)
    \/ \E t \in Tasks : PersistTask(t)

\* No more processes are started.
Over == at = "off" /\ lives = MaxLives /\ UNCHANGED daemonVars

DaemonNext ==
    \/ Cli \/ DaemonStart \/ Startup \/ Stop \/ ServeFails \/ Shutdown \/ PutIndex \/ Crash
    \/ Over
    \/ \E t \in Tasks, v \in Versions : Change(t, v)

DaemonSpec == DaemonInit /\ [][DaemonNext]_daemonVars

\* A process that is not killed goes on; nobody owes it a Ctrl+C.
FairSpec == DaemonSpec /\ WF_daemonVars(Shutdown \/ PutIndex)

-----------------------------------------------------------------------------
(* Properties *)

\* A restart brings back the cron tasks as they were scheduled, and none that
\* was removed, through shutdowns, restarts that are killed while they restore
\* and changes during a shutdown.  The exceptions are a task that was only in
\* memory when the daemon was killed or its server failed (to bind its address,
\* say, which takes no kill and no store fault: every task restored by that start
\* is lost), one that changed after the snapshot was listed, and one whose entry
\* the store failed to put, to list or to delete.
TasksSurvive == Up => \A t \in Tasks \ excused : cron[t] = agreed[t]

\* A shutdown leaves no run recorded as running, whatever the index has kept of
\* former states, except where a store operation failed or a process was killed
\* between the record and its index entry.
NoneLeftRunning == swept => \A r \in Runs \ missed : runs[r] # "running"

\* A shutdown that begins comes to its end unless the process is killed, although
\* runs that have ended stay listed as running and the drain waits for them.
ShutdownEnds == at \in Phases ~> at = "off"
=============================================================================

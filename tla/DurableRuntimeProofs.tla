------------------------ MODULE DurableRuntimeProofs ------------------------
(***************************************************************************)
(* TLAPS proofs about DurableRuntime, for every set of runs, tasks and     *)
(* workers and every value of the bounds.                                  *)
(*                                                                         *)
(* First what holds however calls interleave: types, journal and fence     *)
(* tokens.  Then, while the calls on one run do not overlap (CallsApart),  *)
(* the refinement of RunLifecycle and what follows from it, the responses  *)
(* of completed runs and the leases of interrupted ones.                   *)
(***************************************************************************)
EXTENDS DurableRuntime, TLAPS

\* The distinguished records have their types.
LEMMA RecordTypes ==
    /\ AbsentRun \in RunRecord /\ NewRun \in RunRecord
    /\ NoLease \in LeaseRecord
    /\ NoCheckpoint \in CheckpointRecord
    /\ Idle \in TaskRecord
BY DEF AbsentRun, NewRun, RunRecord, RunStates, Terminal, NoLease, LeaseRecord,
       NoCheckpoint, CheckpointRecord, Idle, TaskRecord, PCs, Errors

\* The fields of Idle the invariant looks at.
LEMMA IdleFields ==
    Idle.mem = AbsentRun /\ Idle.mem.nextSeq = 0 /\ Idle.todo = {} /\ Idle.token = 0
BY DEF Idle, AbsentRun

\* A task that does nothing is in a good state.
LEMMA IdleGood == ASSUME NEW j, NEW c PROVE GoodTask(Idle, j, c)
BY DEF GoodTask, Idle, AbsentRun, Holding, Acquiring

\* The initial state satisfies the safety part of the invariant.
LEMMA InitSafe == Init => SafeInv
<1> SUFFICES ASSUME Init PROVE SafeInv
  OBVIOUS
<1>1. TypeOK
  BY RecordTypes, ConstantsAssumption DEF Init, TypeOK
<1>2. GoodTasks
  BY IdleGood DEF Init, GoodTasks
<1>3. GoodLeases /\ JournalCovers /\ CompletedHasCheckpoint
  BY DEF Init, GoodLeases, JournalCovers, CompletedHasCheckpoint, AbsentRun
<1> QED BY <1>1, <1>2, <1>3 DEF SafeInv

-----------------------------------------------------------------------------
(* What each kind of step preserves *)

\* Journals only gain keys and checkpoints are not deleted.
StoreGrows ==
    \A r \in Runs : /\ DOMAIN journal[r] \subseteq DOMAIN journal'[r]
                    /\ checkpoint[r].saved => checkpoint'[r].saved

\* A task in a good state stays in one while the store grows.
LEMMA GoodStays ==
    ASSUME TypeOK, StoreGrows, NEW k \in TaskRecord, GoodTask(k, journal, checkpoint)
    PROVE  GoodTask(k, journal', checkpoint')
<1>1. k.mem.nextSeq > 0 => k.run \in Runs /\ 0 .. (k.mem.nextSeq - 1) \subseteq DOMAIN journal'[k.run]
  BY DEF GoodTask, StoreGrows
<1>2. k.pc \in {"keep", "keep_put", "complete"} => checkpoint'[k.run].saved
  BY DEF GoodTask, StoreGrows
<1> QED BY <1>1, <1>2 DEF GoodTask

\* One task moves to a good state while the store grows.
LEMMA TaskMoves ==
    ASSUME TypeOK, GoodTasks, StoreGrows, NEW t \in Tasks, NEW k \in TaskRecord,
           Become(t, k), GoodTask(k, journal', checkpoint')
    PROVE  task' \in [Tasks -> TaskRecord] /\ GoodTasks'
<1>1. task' \in [Tasks -> TaskRecord]
  BY DEF Become, TypeOK
<1>2. ASSUME NEW u \in Tasks PROVE GoodTask(task'[u], journal', checkpoint')
  <2>1. CASE u = t BY <2>1 DEF Become, TypeOK
  <2>2. CASE u # t
    <3>1. task'[u] = task[u] /\ task[u] \in TaskRecord
      BY <2>2 DEF Become, TypeOK
    <3>2. GoodTask(task[u], journal, checkpoint)
      BY DEF GoodTasks
    <3> QED BY <3>1, <3>2, GoodStays
  <2> QED BY <2>1, <2>2
<1> QED BY <1>1, <1>2 DEF GoodTasks

\* Steps that write nothing to the store.
LEMMA LocalSafe ==
    ASSUME SafeInv, NEW t \in Tasks, NEW k \in TaskRecord,
           Become(t, k), GoodTask(k, journal, checkpoint), UNCHANGED store,
           fenceCounter' \in Nat \ {0},
           now' \in Nat, calls' \in Nat, restarts' \in Nat, faults' \in Nat
    PROVE  SafeInv'
<1> USE DEF store
<1>1. StoreGrows
  BY DEF StoreGrows
<1>2. GoodTask(k, journal', checkpoint')
  OBVIOUS
<1>3. task' \in [Tasks -> TaskRecord] /\ GoodTasks'
  BY <1>1, <1>2, TaskMoves DEF SafeInv
<1> QED BY <1>3 DEF SafeInv, TypeOK, GoodLeases, JournalCovers, CompletedHasCheckpoint

\* Steps that write one lease.
LEMMA LeaseSafe ==
    ASSUME SafeInv, NEW t \in Tasks, NEW k \in TaskRecord, NEW l \in LeaseRecord,
           Become(t, k), GoodTask(k, journal, checkpoint), Run(t) \in Runs,
           lease' = [lease EXCEPT ![Run(t)] = l], l = NoLease \/ l.fence > 0,
           UNCHANGED <<runs, journal, checkpoint, dlq, fenceCounter>>, SameClock, NoFault
    PROVE  SafeInv'
<1>1. StoreGrows
  BY DEF StoreGrows
<1>2. GoodTask(k, journal', checkpoint')
  OBVIOUS
<1>3. task' \in [Tasks -> TaskRecord] /\ GoodTasks'
  BY <1>1, <1>2, TaskMoves DEF SafeInv
<1>4. lease' \in [Runs -> LeaseRecord] /\ GoodLeases'
  BY DEF SafeInv, TypeOK, GoodLeases
<1> QED BY <1>3, <1>4 DEF SafeInv, TypeOK, JournalCovers, CompletedHasCheckpoint, SameClock, NoFault

\* save_run of a record whose counter the journal covers.
LEMMA SaveRunSafe ==
    ASSUME SafeInv, NEW t \in Tasks, NEW rec \in RunRecord, NEW next \in PCs,
           save_run(t, rec, next), task[t].pc \notin {"idle", "recover_next"},
           rec.nextSeq = task[t].mem.nextSeq \/ rec.nextSeq = 0,
           rec.state = "completed" => task[t].pc = "complete" /\ rec.nextSeq > 0,
           next \notin {"checkpoint", "keep", "keep_put", "complete"},
           next \in Holding => task[t].token # 0,
           next \in Holding \cup Acquiring => task[t].call # "cancel",
           next \notin {"cancel", "cancel_lease"} \/ task[t].call = "cancel"
    PROVE  SafeInv'
<1> DEFINE k == task[t]
           n == [k EXCEPT !.pc = next, !.mem = rec]
<1>1. k \in TaskRecord /\ GoodTask(k, journal, checkpoint)
  BY DEF SafeInv, TypeOK, GoodTasks
<1>2. n \in TaskRecord /\ GoodTask(n, journal, checkpoint)
  <2>1. /\ n \in TaskRecord /\ n.pc = next /\ n.mem = rec
        /\ n.run = k.run /\ n.call = k.call /\ n.token = k.token /\ n.todo = k.todo
    BY <1>1 DEF TaskRecord
  <2>2. k.run \in Runs
    BY <1>1 DEF GoodTask
  <2>3. rec.nextSeq > 0 => 0 .. (rec.nextSeq - 1) \subseteq DOMAIN journal[k.run]
    BY <1>1 DEF GoodTask
  <2> QED BY <1>1, <2>1, <2>2, <2>3 DEF GoodTask
<1>3. StoreGrows
  BY DEF StoreGrows, save_run
<1>4. journal' = journal /\ checkpoint' = checkpoint
  BY DEF save_run
<1>5. task' \in [Tasks -> TaskRecord] /\ GoodTasks'
  <2>1. CASE Become(t, n)
    BY <1>2, <1>3, <1>4, <2>1, TaskMoves DEF SafeInv
  <2>2. CASE Become(t, Idle)
    BY <1>3, <1>4, <2>2, TaskMoves, RecordTypes, IdleGood DEF SafeInv
  <2> QED BY <2>1, <2>2 DEF save_run, Return
<1>6. k.run \in Runs /\ 0 .. (rec.nextSeq - 1) \subseteq DOMAIN journal[k.run]
  BY <1>1 DEF GoodTask, TaskRecord, RunRecord
<1>7. rec.state = "completed" => checkpoint[k.run].saved
  BY <1>1 DEF GoodTask
<1>8. runs' \in [Runs -> RunRecord] /\ JournalCovers' /\ CompletedHasCheckpoint'
  BY <1>4, <1>6, <1>7 DEF SafeInv, TypeOK, save_run, Run, JournalCovers, CompletedHasCheckpoint
<1> QED BY <1>5, <1>8 DEF SafeInv, TypeOK, GoodLeases, save_run, SameClock, NoFault, StoreFault

-----------------------------------------------------------------------------
(* One lemma per group of actions *)

\* The state of a task under the invariant.
LEMMA TaskFacts ==
    ASSUME SafeInv, NEW t \in Tasks
    PROVE  task[t] \in TaskRecord /\ GoodTask(task[t], journal, checkpoint)
BY DEF SafeInv, TypeOK, GoodTasks

\* A call that starts from a good state.
LEMMA BeginSafe ==
    ASSUME SafeInv, NEW t \in Tasks, NEW k \in TaskRecord, Begin(t, k),
           GoodTask(k, journal, checkpoint)
    PROVE  SafeInv'
<1> DEFINE n == [k EXCEPT !.id = calls + 1]
<1>1. n \in TaskRecord
  <2>1. calls + 1 \in Nat
    BY DEF SafeInv, TypeOK
  <2> QED BY <2>1 DEF TaskRecord
<1>2. GoodTask(n, journal, checkpoint)
  BY DEF GoodTask, TaskRecord
<1> QED BY <1>1, <1>2, LocalSafe DEF Begin, SafeInv, TypeOK

\* The calls clients make.
LEMMA ClientCallSafe ==
    ASSUME SafeInv, NEW t \in Tasks, ClientCall(t)
    PROVE  SafeInv'
<1> USE RecordTypes, IdleGood
<1>1. ASSUME NEW r \in Runs, NEW c \in {"start", "resume"}, NEW p \in {"start", "create", "load"}
      PROVE  RunnerCall(t, r, c, p) \in TaskRecord /\ GoodTask(RunnerCall(t, r, c, p), journal, checkpoint)
  <2>1. WorkerOf[t] \in Workers \cup {NoWorker}
    BY ConstantsAssumption
  <2>2. /\ RunnerCall(t, r, c, p) \in TaskRecord
        /\ RunnerCall(t, r, c, p).pc = p /\ RunnerCall(t, r, c, p).call = c
        /\ RunnerCall(t, r, c, p).run = r
        /\ RunnerCall(t, r, c, p).mem = Idle.mem /\ RunnerCall(t, r, c, p).todo = Idle.todo
    BY <2>1 DEF RunnerCall, TaskRecord, PCs
  <2> QED BY <2>2, IdleFields DEF GoodTask, Holding, Acquiring
<1>2. ASSUME NEW r \in Runs, Start(t, r) \/ Create(t, r) \/ Resume(t, r)
      PROVE  SafeInv'
  BY <1>1, <1>2, BeginSafe DEF Start, Create, Resume
<1>3. ASSUME NEW r \in Runs, Cancel(t, r)
      PROVE  SafeInv'
  <2> DEFINE k == [Idle EXCEPT !.pc = "cancel", !.call = "cancel", !.run = r, !.mem = runs[r]]
  <2>1. runs[r] \in RunRecord /\ 0 .. (runs[r].nextSeq - 1) \subseteq DOMAIN journal[r]
    BY DEF SafeInv, TypeOK, JournalCovers
  <2>2. k \in TaskRecord /\ GoodTask(k, journal, checkpoint)
    BY <2>1 DEF Idle, TaskRecord, PCs, GoodTask, Holding, Acquiring, Errors
  <2> QED BY <1>3, <2>2, BeginSafe DEF Cancel
<1>4. ASSUME NEW r \in Runs, RetryFromDlq(t, r)
      PROVE  SafeInv'
  <2> DEFINE k == [Idle EXCEPT !.pc = "dlq_load", !.call = "dlq", !.run = r]
  <2>1. /\ k \in TaskRecord /\ k.pc = "dlq_load" /\ k.run = r
        /\ k.mem = Idle.mem /\ k.todo = Idle.todo
    BY DEF TaskRecord, PCs
  <2>2. GoodTask(k, journal, checkpoint)
    BY <2>1, IdleFields DEF GoodTask, Holding, Acquiring
  <2> QED BY <1>4, <2>1, <2>2, BeginSafe DEF RetryFromDlq
<1>5. ASSUME ScanAndRecover(t)
      PROVE  SafeInv'
  <2> DEFINE k == [Idle EXCEPT !.pc = "recover_next", !.call = "recover", !.todo = Expired]
  <2>1. Expired \subseteq Runs \X LeaseRecord /\ \A p \in Expired : p[2].fence > 0
    BY DEF Expired, SafeInv, TypeOK, GoodLeases
  <2>2. k \in TaskRecord /\ k.pc = "recover_next" /\ k.todo = Expired /\ k.mem = Idle.mem
    BY <2>1 DEF TaskRecord, PCs
  <2>3. GoodTask(k, journal, checkpoint)
    BY <2>1, <2>2, IdleFields DEF GoodTask, Holding, Acquiring
  <2> QED BY <1>5, <2>2, <2>3, BeginSafe DEF ScanAndRecover
<1> QED BY <1>2, <1>3, <1>4, <1>5 DEF ClientCall

\* The record resume stores.
LEMMA RunningRecord ==
    ASSUME NEW m \in RunRecord, NEW w \in Workers \cup {NoWorker}
    PROVE  LET n == [m EXCEPT !.state = "running", !.worker = w, !.attempt = @ + 1]
           IN  n \in RunRecord /\ n.nextSeq = m.nextSeq /\ n.state = "running"
<1> DEFINE a == m.attempt + 1
<1>1. a \in Nat
  BY DEF RunRecord
<1>2. "running" \in RunStates
  BY DEF RunStates
<1>3. [m EXCEPT !.state = "running", !.worker = w, !.attempt = @ + 1]
       = [m EXCEPT !.state = "running", !.worker = w, !.attempt = a]
  BY DEF RunRecord
<1> HIDE DEF a
<1>4. LET n == [m EXCEPT !.state = "running", !.worker = w, !.attempt = a]
      IN  n \in RunRecord /\ n.nextSeq = m.nextSeq /\ n.state = "running"
  BY <1>1, <1>2 DEF RunRecord
<1> QED BY <1>3, <1>4

\* The steps that store a run record.
LEMMA SaveRunStepsSafe ==
    ASSUME SafeInv, NEW t \in Tasks,
           \/ StartSaveRun(t) \/ CreateSaveRun(t) \/ SaveRunning(t) \/ SaveCompleted(t)
           \/ HandleFailure(t) \/ CancelSave(t) \/ Requeue(t) \/ MarkFailed(t) \/ DlqSave(t)
    PROVE  SafeInv'
<1> DEFINE k == task[t]
           m == task[t].mem
<1>0. k \in TaskRecord /\ GoodTask(k, journal, checkpoint) /\ m \in RunRecord
  BY TaskFacts DEF TaskRecord
<1>1. CASE StartSaveRun(t)
  <2>1. [NewRun EXCEPT !.state = "running", !.worker = k.wid, !.attempt = 1] \in RunRecord
    BY <1>0 DEF NewRun, AbsentRun, RunRecord, RunStates, TaskRecord
  <2> QED BY <1>0, <1>1, <2>1, SaveRunSafe
       DEF StartSaveRun, At, NewRun, AbsentRun, PCs, Holding, Acquiring, GoodTask
<1>2. CASE CreateSaveRun(t)
  BY <1>0, <1>2, SaveRunSafe, RecordTypes
     DEF CreateSaveRun, At, NewRun, AbsentRun, PCs, Holding, Acquiring, GoodTask
<1>3. CASE SaveRunning(t)
  <2>1. /\ [m EXCEPT !.state = "running", !.worker = k.wid, !.attempt = @ + 1] \in RunRecord
        /\ [m EXCEPT !.state = "running", !.worker = k.wid, !.attempt = @ + 1].nextSeq = m.nextSeq
        /\ [m EXCEPT !.state = "running", !.worker = k.wid, !.attempt = @ + 1].state = "running"
    <3>1. k.wid \in Workers \cup {NoWorker}
      BY <1>0 DEF TaskRecord
    <3> QED BY <1>0, <3>1, RunningRecord
  <2> QED BY <1>0, <1>3, <2>1, SaveRunSafe
       DEF SaveRunning, At, PCs, Holding, Acquiring, GoodTask
<1>4. ASSUME NEW st \in RunStates
      PROVE  /\ [m EXCEPT !.state = st] \in RunRecord
             /\ [m EXCEPT !.state = st].nextSeq = m.nextSeq
             /\ [m EXCEPT !.state = st].state = st
             /\ [m EXCEPT !.state = st, !.worker = NoWorker] \in RunRecord
             /\ [m EXCEPT !.state = st, !.worker = NoWorker].nextSeq = m.nextSeq
             /\ [m EXCEPT !.state = st, !.worker = NoWorker].state = st
  BY <1>0 DEF RunRecord
<1>5. {"completed", "failed", "suspended", "pending", "cancelled"} \subseteq RunStates
  BY DEF RunStates, Terminal
<1>6. CASE SaveCompleted(t)
  <2> DEFINE rec == [m EXCEPT !.state = "completed", !.output = k.id]
  <2>1. k.id \in Nat
    BY <1>0 DEF TaskRecord
  <2>2. rec \in RunRecord /\ rec.nextSeq = m.nextSeq /\ rec.state = "completed"
    BY <1>0, <1>5, <2>1 DEF RunRecord
  <2>3. save_run(t, rec, "release") /\ k.pc = "complete"
    BY <1>6 DEF SaveCompleted, At
  <2> HIDE DEF rec
  <2> QED BY <1>0, <2>2, <2>3, SaveRunSafe DEF PCs, Holding, Acquiring, GoodTask
<1>7. CASE HandleFailure(t)
  <2>1. PICK st \in {"suspended", "failed"} : save_run(t, [m EXCEPT !.state = st], "release")
    BY <1>7 DEF HandleFailure
  <2> QED BY <1>0, <1>4, <1>5, <1>7, <2>1, SaveRunSafe
       DEF HandleFailure, At, PCs, Holding, Acquiring
<1>8. CASE CancelSave(t)
  <2>1. k.call = "cancel" /\ k.pc = "cancel"
    BY <1>0, <1>8 DEF GoodTask, CancelSave, At
  <2> QED BY <1>4, <1>5, <1>8, <2>1, SaveRunSafe DEF CancelSave, PCs, Holding, Acquiring
<1>9. CASE Requeue(t)
  BY <1>0, <1>4, <1>5, <1>9, SaveRunSafe DEF Requeue, At, PCs, Holding, Acquiring
<1>10. CASE MarkFailed(t)
  BY <1>0, <1>4, <1>5, <1>10, SaveRunSafe DEF MarkFailed, At, PCs, Holding, Acquiring
<1>11. CASE DlqSave(t)
  <2> DEFINE rec == [m EXCEPT !.state = "pending", !.worker = NoWorker, !.output = 0]
  <2>1. rec \in RunRecord /\ rec.nextSeq = m.nextSeq /\ rec.state = "pending"
    BY <1>0, <1>5 DEF RunRecord
  <2>2. save_run(t, rec, "dlq_remove") /\ k.pc = "dlq_save"
    BY <1>11 DEF DlqSave, At
  <2> HIDE DEF rec
  <2> QED BY <1>0, <2>1, <2>2, SaveRunSafe DEF PCs, Holding, Acquiring
<1> QED BY <1>1, <1>2, <1>3, <1>6, <1>7, <1>8, <1>9, <1>10, <1>11

\* Two task states that agree on what the invariant looks at, but for the
\* program point.
SameBut(n, k, p) ==
    /\ n \in TaskRecord /\ n.pc = p
    /\ n.call = k.call /\ n.run = k.run /\ n.wid = k.wid
    /\ n.mem = k.mem /\ n.token = k.token /\ n.todo = k.todo

\* Changing the program point of a task, or also a field the invariant does
\* not look at.
LEMMA SetPc ==
    ASSUME NEW k \in TaskRecord, NEW p \in PCs
    PROVE  SameBut([k EXCEPT !.pc = p], k, p)
BY DEF TaskRecord, SameBut

LEMMA SetErr ==
    ASSUME NEW k \in TaskRecord, NEW p \in PCs, NEW e \in Errors
    PROVE  SameBut([k EXCEPT !.pc = p, !.err = e], k, p)
BY DEF TaskRecord, SameBut

LEMMA SetHist ==
    ASSUME NEW k \in TaskRecord, NEW p \in PCs, NEW h \in Seq(Nat)
    PROVE  SameBut([k EXCEPT !.pc = p, !.hist = h], k, p)
BY DEF TaskRecord, SameBut

\* A task takes a run record the journal covers into its memory.
LEMMA LoadedGood ==
    ASSUME NEW k \in TaskRecord, NEW p \in PCs, NEW m \in RunRecord, NEW j, NEW c,
           GoodTask(k, j, c), k.run \in Runs,
           0 .. (m.nextSeq - 1) \subseteq DOMAIN j[k.run],
           p \notin Holding, p \in Acquiring => k.call # "cancel",
           p \notin {"cancel", "cancel_lease"}
    PROVE  /\ [k EXCEPT !.pc = p, !.mem = m] \in TaskRecord
           /\ GoodTask([k EXCEPT !.pc = p, !.mem = m], j, c)
<1> DEFINE n == [k EXCEPT !.pc = p, !.mem = m]
<1>1. /\ n \in TaskRecord /\ n.pc = p /\ n.call = k.call /\ n.run = k.run
      /\ n.mem = m /\ n.todo = k.todo
  BY DEF TaskRecord
<1> HIDE DEF n
<1>2. GoodTask(n, j, c)
  BY <1>1 DEF GoodTask, Holding
<1> QED BY <1>1, <1>2 DEF n

\* A task learns its fence token.
LEMMA TokenGood ==
    ASSUME NEW k \in TaskRecord, NEW p \in PCs, NEW f \in Nat, NEW j, NEW c,
           GoodTask(k, j, c), k.run \in Runs, f > 0, k.call # "cancel",
           p \notin {"checkpoint", "keep", "keep_put", "complete", "cancel", "cancel_lease"}
    PROVE  /\ [k EXCEPT !.pc = p, !.token = f] \in TaskRecord
           /\ GoodTask([k EXCEPT !.pc = p, !.token = f], j, c)
<1> DEFINE n == [k EXCEPT !.pc = p, !.token = f]
<1>1. /\ n \in TaskRecord /\ n.pc = p /\ n.call = k.call /\ n.run = k.run
      /\ n.mem = k.mem /\ n.token = f /\ n.todo = k.todo
  BY DEF TaskRecord
<1> HIDE DEF n
<1>2. GoodTask(n, j, c)
  BY <1>1 DEF GoodTask
<1> QED BY <1>1, <1>2 DEF n

\* A step within a call that writes nothing.
LEMMA LocalStep ==
    ASSUME SafeInv, NEW t \in Tasks, NEW k \in TaskRecord,
           Become(t, k), GoodTask(k, journal, checkpoint), Local
    PROVE  SafeInv'
BY LocalSafe DEF SafeInv, TypeOK, Local, SameClock, NoFault

\* A call returns.
LEMMA ReturnSafe ==
    ASSUME SafeInv, NEW t \in Tasks, Return(t), Local
    PROVE  SafeInv'
BY LocalStep, RecordTypes, IdleGood DEF Return

\* Moving on to a program point that asks for no more than the last one.
LEMMA MoveGood ==
    ASSUME SafeInv, NEW t \in Tasks, NEW p \in PCs, NEW n, SameBut(n, task[t], p),
           task[t].pc \notin {"idle", "recover_next"}, p \notin {"cancel", "cancel_lease"},
           p \in Holding => task[t].pc \in Holding,
           p \in Acquiring => task[t].pc \in Acquiring \cup Holding,
           p \in {"checkpoint", "keep", "keep_put", "complete"} => task[t].mem.nextSeq > 0,
           p \in {"keep", "keep_put", "complete"} => checkpoint[task[t].run].saved
    PROVE  n \in TaskRecord /\ GoodTask(n, journal, checkpoint)
BY TaskFacts DEF GoodTask, SameBut

\* Goto, under the same conditions.
LEMMA GotoSafe ==
    ASSUME SafeInv, NEW t \in Tasks, NEW p \in PCs, Goto(t, p), Local,
           task[t].pc \notin {"idle", "recover_next"}, p \notin {"cancel", "cancel_lease"},
           p \in Holding => task[t].pc \in Holding,
           p \in Acquiring => task[t].pc \in Acquiring \cup Holding,
           p \in {"checkpoint", "keep", "keep_put", "complete"} => task[t].mem.nextSeq > 0,
           p \in {"keep", "keep_put", "complete"} => checkpoint[task[t].run].saved
    PROVE  SafeInv'
<1> DEFINE n == [task[t] EXCEPT !.pc = p]
<1>1. SameBut(n, task[t], p)
  BY TaskFacts, SetPc
<1>2. n \in TaskRecord /\ GoodTask(n, journal, checkpoint)
  BY <1>1, MoveGood
<1> QED BY <1>2, LocalStep DEF Goto

\* A task turns to handle_failure.
LEMMA FailSafe ==
    ASSUME SafeInv, NEW t \in Tasks, NEW e \in Errors,
           Become(t, [task[t] EXCEPT !.pc = "fail", !.err = e]), Local,
           task[t].pc \notin {"idle", "recover_next"}
    PROVE  SafeInv'
<1> DEFINE n == [task[t] EXCEPT !.pc = "fail", !.err = e]
<1>1. "fail" \in PCs /\ "fail" \notin Holding /\ "fail" \notin Acquiring
  BY DEF PCs, Holding, Acquiring
<1>2. SameBut(n, task[t], "fail")
  BY <1>1, TaskFacts, SetErr
<1>3. n \in TaskRecord /\ GoodTask(n, journal, checkpoint)
  BY <1>1, <1>2, MoveGood
<1> QED BY <1>3, LocalStep

\* The steps of start and resume that only read.
LEMMA RunnerReadsSafe ==
    ASSUME SafeInv, NEW t \in Tasks,
           \/ LoadRun(t) \/ LoadCheckpoint(t) \/ AcquireGet(t) \/ RenewGet(t) \/ ValidateFence(t)
           \/ ExecuteRun(t) \/ KeepGet(t) \/ ReleaseGet(t) \/ CancelLease(t)
    PROVE  SafeInv'
<1> DEFINE k == task[t]
<1>0. k \in TaskRecord /\ GoodTask(k, journal, checkpoint)
  BY TaskFacts
<1>1. CASE LoadRun(t)
  <2>1. k.run \in Runs /\ k.pc = "load"
    BY <1>0, <1>1 DEF GoodTask, LoadRun, At
  <2>2. runs[k.run] \in RunRecord /\ 0 .. (runs[k.run].nextSeq - 1) \subseteq DOMAIN journal[k.run]
    BY <2>1 DEF SafeInv, TypeOK, JournalCovers
  <2> DEFINE n == [k EXCEPT !.pc = "acquire", !.mem = runs[k.run]]
  <2>3. "acquire" \in PCs /\ "acquire" \notin Holding /\ k.call # "cancel"
    BY <1>0, <2>1 DEF PCs, Holding, Acquiring, GoodTask
  <2>4. n \in TaskRecord /\ GoodTask(n, journal, checkpoint)
    BY <1>0, <2>1, <2>2, <2>3, LoadedGood
  <2> QED BY <1>1, <2>4, LocalStep, ReturnSafe DEF LoadRun, Run
<1>2. CASE LoadCheckpoint(t)
  <2>1. k.run \in Runs /\ k.pc = "load_checkpoint"
    BY <1>0, <1>2 DEF GoodTask, LoadCheckpoint, At
  <2>2. checkpoint[k.run].messages \in Seq(Nat)
    BY <2>1 DEF SafeInv, TypeOK, CheckpointRecord
  <2> DEFINE n == [k EXCEPT !.pc = "save_running", !.hist = checkpoint[k.run].messages]
  <2>3. "save_running" \in PCs /\ k.pc \in Holding /\ "save_running" \notin Acquiring
    BY <2>1 DEF PCs, Holding, Acquiring
  <2>4. SameBut(n, k, "save_running")
    BY <1>0, <2>2, <2>3, SetHist
  <2>5. n \in TaskRecord /\ GoodTask(n, journal, checkpoint)
    BY <2>1, <2>3, <2>4, MoveGood
  <2> QED BY <1>2, <2>5, LocalStep DEF LoadCheckpoint, Run
<1>3. CASE AcquireGet(t)
  <2>1. k.run \in Runs /\ k.pc = "acquire"
    BY <1>0, <1>3 DEF GoodTask, AcquireGet, At
  <2>2. CASE is_held_by(Lease(t), task[t].wid) /\ Become(t, [k EXCEPT !.pc = "renew", !.token = Lease(t).fence])
    <3>1. Lease(t) \in LeaseRecord /\ (Lease(t) = NoLease \/ Lease(t).fence > 0)
      BY <2>1 DEF Lease, Run, SafeInv, TypeOK, GoodLeases
    <3>2. Lease(t) # NoLease
      BY <2>2 DEF is_held_by, is_valid, NoLease, SafeInv, TypeOK
    <3>3. Lease(t).fence \in Nat /\ Lease(t).fence > 0
      BY <3>1, <3>2 DEF LeaseRecord
    <3> DEFINE n == [k EXCEPT !.pc = "renew", !.token = Lease(t).fence]
    <3>4. "renew" \in PCs /\ k.call # "cancel"
      BY <1>0, <2>1 DEF PCs, Holding, Acquiring, GoodTask
    <3>5. n \in TaskRecord /\ GoodTask(n, journal, checkpoint)
      BY <1>0, <2>1, <3>3, <3>4, TokenGood
    <3> QED BY <1>3, <2>2, <3>5, LocalStep DEF AcquireGet
  <2>3. CASE Return(t)
    BY <1>3, <2>3, ReturnSafe DEF AcquireGet
  <2>4. CASE Goto(t, "fetch")
    BY <1>3, <2>1, <2>4, GotoSafe DEF AcquireGet, PCs, Holding, Acquiring
  <2> QED BY <1>3, <2>2, <2>3, <2>4 DEF AcquireGet
<1>4. CASE RenewGet(t)
  BY <1>4, GotoSafe, ReturnSafe DEF RenewGet, At, PCs, Holding, Acquiring
<1>5. CASE ValidateFence(t)
  BY <1>5, GotoSafe, FailSafe DEF ValidateFence, At, PCs, Errors, Holding, Acquiring
<1>6. CASE ExecuteRun(t)
  BY <1>6, GotoSafe, FailSafe DEF ExecuteRun, At, PCs, Holding, Acquiring
<1>7. CASE KeepGet(t)
  <2>1. k.mem.nextSeq > 0 /\ checkpoint[k.run].saved
    BY <1>0, <1>7 DEF GoodTask, KeepGet, At
  <2> QED BY <1>7, <2>1, GotoSafe DEF KeepGet, At, PCs, Holding, Acquiring
<1>8. CASE ReleaseGet(t)
  BY <1>8, GotoSafe, ReturnSafe DEF ReleaseGet, At, PCs, Holding, Acquiring
<1>9. CASE CancelLease(t)
  <2>1. k.run \in Runs /\ k.mem.worker \in Workers \cup {NoWorker}
    BY <1>0, <1>9 DEF GoodTask, CancelLease, At, TaskRecord, RunRecord
  <2>2. Lease(t).fence \in Nat
    BY <2>1 DEF Lease, Run, SafeInv, TypeOK, LeaseRecord
  <2> DEFINE n == [k EXCEPT !.pc = "release", !.wid = k.mem.worker, !.token = Lease(t).fence]
  <2>3. n \in TaskRecord /\ n.pc = "release" /\ n.mem = k.mem /\ n.run = k.run /\ n.todo = k.todo
    BY <1>0, <2>1, <2>2 DEF TaskRecord, PCs
  <2>4. GoodTask(n, journal, checkpoint)
    BY <1>0, <2>1, <2>3 DEF GoodTask, Holding, Acquiring
  <2> QED BY <1>9, <2>3, <2>4, LocalStep, ReturnSafe DEF CancelLease
<1> QED BY <1>1, <1>2, <1>3, <1>4, <1>5, <1>6, <1>7, <1>8, <1>9

\* A recovery scan turns to the next expired lease.
LEMMA ScannedGood ==
    ASSUME NEW k \in TaskRecord, NEW q \in k.todo, NEW j, NEW c, GoodTask(k, j, c)
    PROVE  LET n == [k EXCEPT !.pc = "recover_release", !.todo = @ \ {q},
                              !.run = q[1], !.wid = q[2].worker,
                              !.token = q[2].fence, !.mem = AbsentRun]
           IN  n \in TaskRecord /\ GoodTask(n, j, c)
<1> DEFINE T == k.todo \ {q}
           r == q[1]
           w == q[2].worker
           f == q[2].fence
           n == [k EXCEPT !.pc = "recover_release", !.todo = T, !.run = r,
                          !.wid = w, !.token = f, !.mem = AbsentRun]
<1>1. /\ T \in SUBSET (Runs \X LeaseRecord) /\ T \subseteq k.todo
      /\ r \in Runs /\ w \in Workers \cup {NoWorker} /\ f \in Nat
  BY DEF TaskRecord, LeaseRecord
<1>2. [k EXCEPT !.pc = "recover_release", !.todo = @ \ {q}, !.run = q[1],
                !.wid = q[2].worker, !.token = q[2].fence, !.mem = AbsentRun] = n
  BY DEF TaskRecord
<1>3. n \in TaskRecord /\ n.pc = "recover_release" /\ n.todo = T /\ n.run = r /\ n.mem = AbsentRun
  <2> HIDE DEF T, r, w, f
  <2>1. "recover_release" \in PCs
    BY DEF PCs
  <2> QED BY <1>1, <2>1, RecordTypes DEF TaskRecord
<1>4. GoodTask(n, j, c)
  <2> HIDE DEF n, T, r, w, f
  <2>1. AbsentRun.nextSeq = 0
    BY DEF AbsentRun
  <2> QED BY <1>1, <1>3, <2>1 DEF GoodTask, Holding, Acquiring
<1> QED BY <1>2, <1>3, <1>4

\* The steps of recovery that only read.
LEMMA RecoveryReadsSafe ==
    ASSUME SafeInv, NEW t \in Tasks,
           RecoverNext(t) \/ RecoverRelease(t) \/ RecoverLoad(t) \/ DlqLoad(t)
    PROVE  SafeInv'
<1> DEFINE k == task[t]
<1>0. k \in TaskRecord /\ GoodTask(k, journal, checkpoint)
  BY TaskFacts
<1>1. CASE RecoverNext(t)
  <2>1. CASE Return(t)
    BY <1>1, <2>1, ReturnSafe DEF RecoverNext
  <2>2. ASSUME NEW q \in k.todo,
               Become(t, [k EXCEPT !.pc = "recover_release", !.todo = @ \ {q},
                                   !.run = q[1], !.wid = q[2].worker,
                                   !.token = q[2].fence, !.mem = AbsentRun])
        PROVE  SafeInv'
    BY <1>0, <1>1, <2>2, ScannedGood, LocalStep DEF RecoverNext
  <2> QED BY <1>1, <2>1, <2>2 DEF RecoverNext
<1>2. CASE RecoverRelease(t)
  BY <1>2, GotoSafe DEF RecoverRelease, At, PCs, Holding, Acquiring
<1>3. ASSUME At(t, "recover_load") \/ At(t, "dlq_load"),
             NEW p \in {"recover_next", "requeue", "enqueue", "dlq_save"},
             Become(t, [k EXCEPT !.pc = p, !.mem = runs[k.run]]), Local
      PROVE  SafeInv'
  <2>1. k.run \in Runs
    BY <1>0, <1>3 DEF GoodTask, At
  <2>2. runs[k.run] \in RunRecord /\ 0 .. (runs[k.run].nextSeq - 1) \subseteq DOMAIN journal[k.run]
    BY <2>1 DEF SafeInv, TypeOK, JournalCovers
  <2>3. p \in PCs /\ p \notin Holding /\ p \notin Acquiring
    BY DEF PCs, Holding, Acquiring
  <2>4. /\ [k EXCEPT !.pc = p, !.mem = runs[k.run]] \in TaskRecord
        /\ GoodTask([k EXCEPT !.pc = p, !.mem = runs[k.run]], journal, checkpoint)
    BY <1>0, <2>1, <2>2, <2>3, LoadedGood
  <2> QED BY <1>3, <2>4, LocalStep
<1>4. CASE RecoverLoad(t)
  BY <1>3, <1>4 DEF RecoverLoad, Run
<1>5. CASE DlqLoad(t)
  BY <1>3, <1>5 DEF DlqLoad, Run
<1> QED BY <1>1, <1>2, <1>4, <1>5

\* fetch_add on the fence counter.
LEMMA FetchFenceSafe ==
    ASSUME SafeInv, NEW t \in Tasks, FetchFence(t)
    PROVE  SafeInv'
<1> DEFINE k == task[t]
           n == [k EXCEPT !.pc = "grant", !.token = fenceCounter]
<1>0. k \in TaskRecord /\ GoodTask(k, journal, checkpoint) /\ k.pc = "fetch"
  BY TaskFacts DEF FetchFence, At
<1>1. k.run \in Runs /\ k.call # "cancel" /\ "grant" \in PCs
  BY <1>0 DEF GoodTask, Holding, Acquiring, PCs
<1>2. fenceCounter \in Nat /\ fenceCounter > 0
  BY DEF SafeInv, TypeOK
<1>3. n \in TaskRecord /\ GoodTask(n, journal, checkpoint)
  BY <1>0, <1>1, <1>2, TokenGood
<1>4. fenceCounter' \in Nat \ {0} /\ now' \in Nat /\ calls' \in Nat /\ restarts' \in Nat /\ faults' \in Nat
  BY <1>2 DEF SafeInv, TypeOK, FetchFence, SameClock, NoFault
<1> QED BY <1>3, <1>4, LocalSafe DEF FetchFence

\* The holder of a token writes its lease.
LEMMA PutLeaseSafe ==
    ASSUME SafeInv, NEW t \in Tasks, NEW p \in PCs, PutLease(t, p),
           task[t].pc \in Holding, p \in Holding, p \notin {"checkpoint", "keep", "keep_put"},
           p = "complete" => task[t].pc = "keep_put"
    PROVE  SafeInv'
<1> DEFINE k == task[t]
           n == [k EXCEPT !.pc = p]
           l == [worker |-> k.wid, fence |-> k.token, expires |-> now + TTL]
<1>0. k \in TaskRecord /\ GoodTask(k, journal, checkpoint) /\ k.pc \notin {"idle", "recover_next"}
  BY TaskFacts DEF Holding
<1>1. k.run \in Runs /\ k.token > 0
  BY <1>0 DEF GoodTask, TaskRecord
<1>2. l \in LeaseRecord /\ l.fence > 0
  BY <1>0, <1>1, ConstantsAssumption DEF LeaseRecord, TaskRecord, SafeInv, TypeOK
<1>3. p = "complete" => k.mem.nextSeq > 0 /\ checkpoint[k.run].saved
  BY <1>0 DEF GoodTask
<1>4. SameBut(n, k, p)
  BY <1>0, SetPc
<1>5. n \in TaskRecord /\ GoodTask(n, journal, checkpoint)
  BY <1>0, <1>3, <1>4, MoveGood DEF Acquiring, Holding
<1> QED BY <1>1, <1>2, <1>5, LeaseSafe DEF PutLease, Goto, Run

\* The steps that write a lease.
LEMMA LeaseStepsSafe ==
    ASSUME SafeInv, NEW t \in Tasks,
           \/ Grant(t) \/ RenewPut(t) \/ KeepPut(t) \/ ReleaseDelete(t) \/ RecoverDelete(t)
    PROVE  SafeInv'
<1> DEFINE k == task[t]
<1>0. k \in TaskRecord /\ GoodTask(k, journal, checkpoint)
  BY TaskFacts
<1>1. CASE Grant(t) \/ RenewPut(t)
  BY <1>1, PutLeaseSafe DEF Grant, RenewPut, At, Acquired, PCs, Holding
<1>2. CASE KeepPut(t)
  BY <1>2, PutLeaseSafe DEF KeepPut, At, PCs, Holding
<1>3. CASE ReleaseDelete(t)
  <2>1. k.run \in Runs
    BY <1>0, <1>3 DEF GoodTask, ReleaseDelete, At
  <2> QED BY <1>3, <2>1, LeaseSafe, RecordTypes, IdleGood DEF ReleaseDelete, DeleteLease, Return, Run
<1>4. CASE RecoverDelete(t)
  <2>1. k.run \in Runs /\ k.pc = "recover_delete"
    BY <1>0, <1>4 DEF GoodTask, RecoverDelete, At
  <2>2. "recover_load" \in PCs /\ "recover_load" \notin Holding /\ "recover_load" \notin Acquiring
    BY DEF PCs, Holding, Acquiring
  <2>3. SameBut([k EXCEPT !.pc = "recover_load"], k, "recover_load")
    BY <1>0, <2>2, SetPc
  <2>4. /\ [k EXCEPT !.pc = "recover_load"] \in TaskRecord
        /\ GoodTask([k EXCEPT !.pc = "recover_load"], journal, checkpoint)
    BY <2>1, <2>2, <2>3, MoveGood
  <2> QED BY <1>4, <2>1, <2>4, LeaseSafe, RecordTypes DEF RecoverDelete, DeleteLease, Goto, Run
<1> QED BY <1>1, <1>2, <1>3, <1>4

\* A task that has appended its response counts the sequence number.
LEMMA AppendedGood ==
    ASSUME NEW k \in TaskRecord, NEW j, NEW c, GoodTask(k, j, c), k.pc = "append",
           NEW j2, DOMAIN j[k.run] \subseteq DOMAIN j2[k.run], k.mem.nextSeq \in DOMAIN j2[k.run]
    PROVE  LET n == [k EXCEPT !.pc = "checkpoint", !.mem.nextSeq = @ + 1]
           IN  n \in TaskRecord /\ GoodTask(n, j2, c)
<1> DEFINE m == [k.mem EXCEPT !.nextSeq = @ + 1]
           n == [k EXCEPT !.pc = "checkpoint", !.mem = m]
<1>1. k.mem \in RunRecord /\ k.mem.nextSeq \in Nat
  BY DEF TaskRecord, RunRecord
<1>2. [k EXCEPT !.pc = "checkpoint", !.mem.nextSeq = @ + 1] = n
  BY DEF TaskRecord
<1>3. m \in RunRecord /\ m.nextSeq = k.mem.nextSeq + 1
  BY <1>1 DEF RunRecord
<1>4. /\ n \in TaskRecord /\ n.pc = "checkpoint" /\ n.call = k.call /\ n.run = k.run
      /\ n.mem = m /\ n.token = k.token /\ n.todo = k.todo
  <2> HIDE DEF m
  <2>1. "checkpoint" \in PCs
    BY DEF PCs
  <2> QED BY <1>3, <2>1 DEF TaskRecord
<1>5. GoodTask(n, j2, c)
  <2> HIDE DEF n, m
  <2>1. k.run \in Runs /\ k.token # 0 /\ k.call # "cancel" /\ \A p \in k.todo : p[2].fence > 0
    BY DEF GoodTask, Holding
  <2>2. 0 .. (k.mem.nextSeq - 1) \subseteq DOMAIN j[k.run]
    BY <1>1 DEF GoodTask
  <2>3. 0 .. (m.nextSeq - 1) \subseteq DOMAIN j2[k.run]
    BY <1>1, <1>3, <2>2
  <2> QED BY <1>1, <1>3, <1>4, <2>1, <2>3 DEF GoodTask
<1> QED BY <1>2, <1>4, <1>5

\* The execution journals its response.
LEMMA JournalAppendSafe ==
    ASSUME SafeInv, NEW t \in Tasks, JournalAppend(t)
    PROVE  SafeInv'
<1> DEFINE k == task[t]
           n == [k EXCEPT !.pc = "checkpoint", !.mem.nextSeq = @ + 1]
<1>0. k \in TaskRecord /\ GoodTask(k, journal, checkpoint) /\ k.pc = "append"
  BY TaskFacts DEF JournalAppend, At
<1>1. k.run \in Runs /\ k.mem.nextSeq \in Nat
  BY <1>0 DEF GoodTask, TaskRecord, RunRecord
<1>2. /\ DOMAIN journal' = Runs
      /\ \A r \in Runs : DOMAIN journal[r] \subseteq DOMAIN journal'[r] /\ DOMAIN journal'[r] \subseteq Nat
      /\ k.mem.nextSeq \in DOMAIN journal'[k.run]
  BY <1>1 DEF JournalAppend, Put, Run, SafeInv, TypeOK
<1>3. StoreGrows
  BY <1>2 DEF StoreGrows, JournalAppend
<1>4. n \in TaskRecord /\ GoodTask(n, journal', checkpoint')
  <2>1. n \in TaskRecord /\ GoodTask(n, journal', checkpoint)
    BY <1>0, <1>1, <1>2, AppendedGood
  <2>2. checkpoint' = checkpoint
    BY DEF JournalAppend
  <2> QED BY <2>1, <2>2
<1>5. task' \in [Tasks -> TaskRecord] /\ GoodTasks'
  BY <1>3, <1>4, TaskMoves DEF JournalAppend, SafeInv
<1>6. JournalCovers'
  <2>1. runs' = runs
    BY DEF JournalAppend
  <2> QED BY <1>2, <2>1 DEF SafeInv, JournalCovers
<1> QED BY <1>2, <1>5, <1>6
     DEF SafeInv, TypeOK, JournalAppend, GoodLeases, CompletedHasCheckpoint, SameClock, NoFault

\* A task stores a checkpoint.
LEMMA CheckpointStepsSafe ==
    ASSUME SafeInv, NEW t \in Tasks, SaveCheckpoint(t) \/ CreateSaveCheckpoint(t)
    PROVE  SafeInv'
<1> DEFINE k == task[t]
<1>0. k \in TaskRecord /\ GoodTask(k, journal, checkpoint) /\ k.run \in Runs
  BY TaskFacts DEF SaveCheckpoint, CreateSaveCheckpoint, At, GoodTask
<1>1. PICK msgs, p : /\ checkpoint' = [checkpoint EXCEPT ![k.run] = [saved |-> TRUE, messages |-> msgs]]
                     /\ msgs \in Seq(Nat) /\ Goto(t, p)
                     /\ \/ k.pc = "checkpoint" /\ p = "keep"
                        \/ k.pc = "create_checkpoint" /\ p = "load"
  <2>1. CASE SaveCheckpoint(t)
    <3>1. k.hist \in Seq(Nat) /\ k.id \in Nat
      BY <1>0 DEF TaskRecord
    <3>2. Append(k.hist, k.id) \in Seq(Nat)
      BY <3>1
    <3> QED BY <2>1, <3>2 DEF SaveCheckpoint, At, Run
  <2>2. CASE CreateSaveCheckpoint(t)
    <3>1. <<>> \in Seq(Nat)
      OBVIOUS
    <3> QED BY <2>2, <3>1 DEF CreateSaveCheckpoint, At, Run
  <2> QED BY <2>1, <2>2
<1>2. checkpoint' \in [Runs -> CheckpointRecord] /\ checkpoint'[k.run].saved
      /\ \A r \in Runs : checkpoint[r].saved => checkpoint'[r].saved
  BY <1>0, <1>1 DEF SafeInv, TypeOK, CheckpointRecord
<1>3. UNCHANGED <<runs, lease, journal, dlq, fenceCounter>> /\ SameClock /\ NoFault
  BY DEF SaveCheckpoint, CreateSaveCheckpoint
<1>4. StoreGrows
  BY <1>2, <1>3 DEF StoreGrows
<1> DEFINE n == [k EXCEPT !.pc = p]
<1>5. n \in TaskRecord /\ GoodTask(n, journal', checkpoint')
  <2>1. p \in PCs
    BY <1>1 DEF PCs
  <2>2. SameBut(n, k, p)
    BY <1>0, <2>1, SetPc
  <2>3. GoodTask(k, journal', checkpoint')
    BY <1>0, <1>4, GoodStays DEF SafeInv
  <2>4. n \in TaskRecord
    BY <2>2 DEF SameBut
  <2> HIDE DEF n
  <2>5. GoodTask(n, journal', checkpoint')
    BY <1>0, <1>1, <1>2, <2>2, <2>3 DEF GoodTask, SameBut, Holding, Acquiring
  <2> QED BY <2>4, <2>5
<1>6. task' \in [Tasks -> TaskRecord] /\ GoodTasks'
  BY <1>1, <1>4, <1>5, TaskMoves DEF SafeInv, Goto
<1>7. CompletedHasCheckpoint'
  BY <1>2, <1>3 DEF CompletedHasCheckpoint, SafeInv
<1> QED BY <1>2, <1>3, <1>6, <1>7 DEF SafeInv, TypeOK, GoodLeases, JournalCovers, SameClock, NoFault

\* The dead letter queue gains or loses a run.
LEMMA DlqStepsSafe ==
    ASSUME SafeInv, NEW t \in Tasks, EnqueueDeadLetter(t) \/ DlqRemove(t)
    PROVE  SafeInv'
<1> DEFINE k == task[t]
<1>0. k \in TaskRecord /\ GoodTask(k, journal, checkpoint) /\ k.run \in Runs
      /\ k.pc \notin {"idle", "recover_next"}
  BY TaskFacts DEF EnqueueDeadLetter, DlqRemove, At, GoodTask
<1>1. PICK n \in TaskRecord : Become(t, n) /\ GoodTask(n, journal, checkpoint)
  <2>1. CASE EnqueueDeadLetter(t)
    <3> DEFINE n == [k EXCEPT !.pc = "mark_failed"]
    <3>1. "mark_failed" \in PCs /\ "mark_failed" \notin Holding /\ "mark_failed" \notin Acquiring
      BY DEF PCs, Holding, Acquiring
    <3>2. SameBut(n, k, "mark_failed")
      BY <1>0, <3>1, SetPc
    <3>3. n \in TaskRecord /\ GoodTask(n, journal, checkpoint)
      BY <1>0, <3>1, <3>2, MoveGood
    <3> QED BY <2>1, <3>3 DEF EnqueueDeadLetter, Goto
  <2>2. CASE DlqRemove(t)
    BY <2>2, RecordTypes, IdleGood DEF DlqRemove, Return
  <2> QED BY <2>1, <2>2
<1>2. dlq' \subseteq Runs /\ SameClock /\ NoFault
      /\ UNCHANGED <<runs, lease, journal, checkpoint, fenceCounter>>
  BY <1>0 DEF EnqueueDeadLetter, DlqRemove, Run, SafeInv, TypeOK
<1>3. StoreGrows
  BY <1>2 DEF StoreGrows
<1>4. task' \in [Tasks -> TaskRecord] /\ GoodTasks'
  <2>1. GoodTask(n, journal', checkpoint')
    BY <1>1, <1>2
  <2> QED BY <1>1, <1>3, <2>1, TaskMoves DEF SafeInv
<1> QED BY <1>2, <1>4 DEF SafeInv, TypeOK, GoodLeases, JournalCovers, CompletedHasCheckpoint, SameClock, NoFault

\* Where a failing store operation leads is a good state.
LEMMA OnErrorGood ==
    ASSUME SafeInv, NEW t \in Tasks, task[t].pc \notin NoStoreOp
    PROVE  OnError(task[t]) \in TaskRecord /\ GoodTask(OnError(task[t]), journal, checkpoint)
<1> DEFINE k == task[t]
<1>0. k \in TaskRecord /\ GoodTask(k, journal, checkpoint) /\ k.pc \notin {"idle", "recover_next"}
  BY TaskFacts DEF NoStoreOp
<1>1. OnError(k) = Idle \/ \E p \in PCs, e \in Errors :
          /\ OnError(k) = [k EXCEPT !.pc = p] \/ OnError(k) = [k EXCEPT !.pc = p, !.err = e]
          /\ \/ p \in {"release_delete", "recover_delete", "recover_load", "fail"}
             \/ k.pc = "acquire" /\ p = "fetch"
             \/ k.pc \in {"keep", "keep_put"} /\ p = "complete"
  BY DEF OnError, PCs, Errors
<1>2. CASE OnError(k) = Idle
  BY <1>2, RecordTypes, IdleGood
<1>3. ASSUME NEW p \in PCs, NEW e \in Errors,
             OnError(k) = [k EXCEPT !.pc = p] \/ OnError(k) = [k EXCEPT !.pc = p, !.err = e],
             \/ p \in {"release_delete", "recover_delete", "recover_load", "fail"}
             \/ k.pc = "acquire" /\ p = "fetch"
             \/ k.pc \in {"keep", "keep_put"} /\ p = "complete"
      PROVE  OnError(k) \in TaskRecord /\ GoodTask(OnError(k), journal, checkpoint)
  <2>1. SameBut(OnError(k), k, p)
    <3>1. SameBut([k EXCEPT !.pc = p], k, p)
      BY <1>0, SetPc
    <3>2. SameBut([k EXCEPT !.pc = p, !.err = e], k, p)
      BY <1>0, SetErr
    <3> QED BY <1>3, <3>1, <3>2
  <2>2. p = "complete" => k.mem.nextSeq > 0 /\ checkpoint[k.run].saved
    BY <1>0, <1>3 DEF GoodTask
  <2>3. /\ p \in Holding => k.pc \in Holding
        /\ p \in Acquiring => k.pc \in Acquiring
        /\ p \notin {"checkpoint", "keep", "keep_put", "cancel", "cancel_lease"}
    BY <1>3 DEF Holding, Acquiring
  <2> QED BY <1>0, <2>1, <2>2, <2>3, MoveGood
<1> QED BY <1>1, <1>2, <1>3

\* A failing store operation.
LEMMA StorageErrorSafe ==
    ASSUME SafeInv, NEW t \in Tasks, StorageError(t)
    PROVE  SafeInv'
<1>1. OnError(task[t]) \in TaskRecord /\ GoodTask(OnError(task[t]), journal, checkpoint)
  BY OnErrorGood DEF StorageError
<1>2. fenceCounter' \in Nat \ {0} /\ now' \in Nat /\ calls' \in Nat /\ restarts' \in Nat /\ faults' \in Nat
  BY DEF SafeInv, TypeOK, StorageError, StoreFault, SameClock
<1> QED BY <1>1, <1>2, LocalSafe DEF StorageError

\* The clock, a crash, and steps that change nothing.
LEMMA EnvironmentSafe ==
    ASSUME SafeInv, Tick \/ Restart \/ UNCHANGED vars
    PROVE  SafeInv'
<1>1. UNCHANGED store
  BY DEF Tick, Restart, vars
<1>2. GoodLeases' /\ JournalCovers' /\ CompletedHasCheckpoint'
  BY <1>1 DEF store, SafeInv, GoodLeases, JournalCovers, CompletedHasCheckpoint
<1>3. TypeOK'
  <2>1. CASE Tick
    BY <2>1 DEF Tick, SafeInv, TypeOK, store
  <2>2. CASE Restart
    BY <2>2, RecordTypes DEF Restart, SafeInv, TypeOK, store
  <2>3. CASE UNCHANGED vars
    BY <2>3 DEF vars, store, env, SafeInv, TypeOK
  <2> QED BY <2>1, <2>2, <2>3
<1>4. GoodTasks'
  <2>1. CASE task' = task
    BY <1>1, <2>1 DEF store, SafeInv, GoodTasks
  <2>2. CASE Restart
    BY <2>2, IdleGood DEF Restart, GoodTasks
  <2> QED BY <2>1, <2>2 DEF Tick, vars
<1> QED BY <1>2, <1>3, <1>4 DEF SafeInv

\* Every step of a call in progress.
LEMMA ProgressSafe ==
    ASSUME SafeInv, NEW t \in Tasks, Progress(t)
    PROVE  SafeInv'
BY SaveRunStepsSafe, RunnerReadsSafe, RecoveryReadsSafe, FetchFenceSafe, LeaseStepsSafe,
   JournalAppendSafe, CheckpointStepsSafe, DlqStepsSafe
   DEF Progress

\* The safety part of the invariant is inductive.
LEMMA NextSafe == SafeInv /\ [Next]_vars => SafeInv'
<1> SUFFICES ASSUME SafeInv, [Next]_vars PROVE SafeInv'
  OBVIOUS
<1>1. ASSUME NEW t \in Tasks, ClientCall(t) \/ Progress(t) \/ StorageError(t)
      PROVE  SafeInv'
  BY <1>1, ClientCallSafe, ProgressSafe, StorageErrorSafe
<1>2. CASE Tick \/ Restart \/ UNCHANGED vars
  BY <1>2, EnvironmentSafe
<1> QED BY <1>1, <1>2 DEF Next, Quiescent

-----------------------------------------------------------------------------
(* Theorems *)

\* Every reachable state satisfies the safety part of the invariant.
THEOREM Safety == Spec => []SafeInv
BY InitSafe, NextSafe, PTL DEF Spec

\* Every variable keeps its type, under any number of tasks, workers, crashes
\* and failing store operations.
THEOREM TypeCorrect == Spec => []TypeOK
<1>1. SafeInv => TypeOK
  BY DEF SafeInv
<1> QED BY <1>1, Safety, PTL

\* A stored run record never claims a journal entry that is not there:
\* journal.append is durable before the save_run that counts it, on every
\* path through start, resume, recovery and cancellation.
THEOREM JournalSafe == Spec => []JournalCovers
<1>1. SafeInv => JournalCovers
  BY DEF SafeInv
<1> QED BY <1>1, Safety, PTL

-----------------------------------------------------------------------------
(* Until the process restarts, a fence token identifies one grant.  Claims
   collects every place that names a token with a run and a worker; only
   FetchFence adds a claim, and it adds one with a token nobody has. *)


\* A step after which fewer or the same claims are made.
LEMMA FewerClaims ==
    ASSUME TypeOK, FenceInv, Claims' \subseteq Claims, fenceCounter' = fenceCounter,
           restarts' = restarts
    PROVE  FenceInv'
BY DEF FenceInv

\* Two local states that make the same claims.
SameClaims(n, k) ==
    n.call = k.call /\ n.run = k.run /\ n.wid = k.wid /\ n.token = k.token /\ n.todo = k.todo

\* They do.
LEMMA SameClaimsOf ==
    ASSUME NEW n, NEW k, SameClaims(n, k)
    PROVE  ClaimsOf(n) = ClaimsOf(k)
BY DEF SameClaims, ClaimsOf, Holds

\* A task that does nothing claims nothing.
LEMMA IdleClaims == ClaimsOf(Idle) = {}
BY IdleFields DEF ClaimsOf, Holds

\* A task moves, and a lease is perhaps written, without a new claim.
LEMMA ClaimsStay ==
    ASSUME TypeOK, NEW t \in Tasks, NEW n, Become(t, n), ClaimsOf(n) \subseteq Claims,
           LeaseClaims' \subseteq Claims
    PROVE  Claims' \subseteq Claims
<1>1. ASSUME NEW u \in Tasks PROVE ClaimsOf(task'[u]) \subseteq Claims
  <2>1. CASE u = t
    BY <2>1 DEF Become, TypeOK
  <2>2. CASE u # t
    <3>1. task'[u] = task[u]
      BY <2>2 DEF Become, TypeOK
    <3> QED BY <3>1 DEF Claims
  <2> QED BY <2>1, <2>2
<1>2. Claims' = LeaseClaims' \cup UNION {ClaimsOf(task'[u]) : u \in Tasks}
  BY DEF Claims, ClaimsOf, Holds
<1> QED BY <1>1, <1>2

\* What a task claims is among the claims.
LEMMA TaskClaims ==
    ASSUME NEW t \in Tasks
    PROVE  ClaimsOf(task[t]) \subseteq Claims
BY DEF Claims

\* Stored leases are among the claims.
LEMMA LeaseClaimsKept == UNCHANGED lease => LeaseClaims' \subseteq Claims
BY DEF LeaseClaims, Claims

-----------------------------------------------------------------------------
(* Steps that leave the claims alone *)

\* A task returns, or changes fields that make no claim.
Quiet(t) == \E n : Become(t, n) /\ (n = Idle \/ SameClaims(n, task[t]))

\* The updates of a task's state that actions make.
LEMMA QuietUpdates ==
    ASSUME TypeOK, NEW t \in Tasks, NEW p, NEW x,
           \/ Return(t) \/ Goto(t, p)
           \/ Become(t, [task[t] EXCEPT !.pc = p, !.mem = x])
           \/ Become(t, [task[t] EXCEPT !.pc = p, !.hist = x])
           \/ Become(t, [task[t] EXCEPT !.pc = p, !.err = x])
           \/ Become(t, [task[t] EXCEPT !.pc = p, !.mem.nextSeq = x])
    PROVE  Quiet(t)
<1> DEFINE k == task[t]
<1>0. k \in TaskRecord
  BY DEF TypeOK
<1>1. CASE Return(t)
  BY <1>1 DEF Return, Quiet
<1>2. CASE Goto(t, p)
  <2>1. SameClaims([k EXCEPT !.pc = p], k)
    BY <1>0 DEF TaskRecord, SameClaims
  <2> QED BY <1>2, <2>1 DEF Goto, Quiet
<1>3. CASE Become(t, [k EXCEPT !.pc = p, !.mem = x])
  <2>1. SameClaims([k EXCEPT !.pc = p, !.mem = x], k)
    BY <1>0 DEF TaskRecord, SameClaims
  <2> QED BY <1>3, <2>1 DEF Quiet
<1>4. CASE Become(t, [k EXCEPT !.pc = p, !.hist = x])
  <2>1. SameClaims([k EXCEPT !.pc = p, !.hist = x], k)
    BY <1>0 DEF TaskRecord, SameClaims
  <2> QED BY <1>4, <2>1 DEF Quiet
<1>5. CASE Become(t, [k EXCEPT !.pc = p, !.err = x])
  <2>1. SameClaims([k EXCEPT !.pc = p, !.err = x], k)
    BY <1>0 DEF TaskRecord, SameClaims
  <2> QED BY <1>5, <2>1 DEF Quiet
<1>6. CASE Become(t, [k EXCEPT !.pc = p, !.mem.nextSeq = x])
  <2>1. SameClaims([k EXCEPT !.pc = p, !.mem.nextSeq = x], k)
    BY <1>0 DEF TaskRecord, SameClaims
  <2> QED BY <1>6, <2>1 DEF Quiet
<1> QED BY <1>1, <1>2, <1>3, <1>4, <1>5, <1>6

\* A quiet step keeps the tokens apart, also when it deletes a lease.
LEMMA QuietStep ==
    ASSUME TypeOK, FenceInv, NEW t \in Tasks, Quiet(t), LeaseClaims' \subseteq Claims,
           fenceCounter' = fenceCounter, restarts' = restarts
    PROVE  FenceInv'
<1>1. PICK n : Become(t, n) /\ (n = Idle \/ SameClaims(n, task[t]))
  BY DEF Quiet
<1>2. ClaimsOf(n) \subseteq Claims
  BY <1>1, IdleClaims, SameClaimsOf, TaskClaims
<1> QED BY <1>1, <1>2, ClaimsStay, FewerClaims

\* Saving a run record is quiet.
LEMMA SaveRunQuiet ==
    ASSUME TypeOK, NEW t \in Tasks, NEW rec, NEW next, save_run(t, rec, next)
    PROVE  Quiet(t) /\ UNCHANGED <<lease, fenceCounter, restarts>>
<1>1. Quiet(t)
  BY QuietUpdates DEF save_run
<1> QED BY <1>1 DEF save_run, SameClock

\* The steps that only concern other parts of the store.
LEMMA OtherStepsQuiet ==
    ASSUME TypeOK, NEW t \in Tasks,
           \/ CreateSaveCheckpoint(t) \/ LoadRun(t) \/ LoadCheckpoint(t) \/ RenewGet(t)
           \/ ValidateFence(t) \/ ExecuteRun(t) \/ SaveCheckpoint(t)
           \/ KeepGet(t) \/ ReleaseGet(t) \/ RecoverRelease(t) \/ RecoverLoad(t)
           \/ EnqueueDeadLetter(t) \/ DlqLoad(t) \/ DlqRemove(t)
    PROVE  Quiet(t) /\ UNCHANGED <<lease, fenceCounter, restarts>>
<1>1. Quiet(t)
  <2>1. CASE CreateSaveCheckpoint(t) \/ SaveCheckpoint(t) \/ EnqueueDeadLetter(t) \/ DlqRemove(t)
    BY <2>1, QuietUpdates DEF CreateSaveCheckpoint, SaveCheckpoint, EnqueueDeadLetter, DlqRemove
  <2>2. CASE LoadRun(t) \/ LoadCheckpoint(t)
    BY <2>2, QuietUpdates DEF LoadRun, LoadCheckpoint
  <2>3. CASE RecoverLoad(t)
    BY <2>3, QuietUpdates DEF RecoverLoad
  <2>4. CASE DlqLoad(t)
    BY <2>4, QuietUpdates DEF DlqLoad
  <2>5. CASE RenewGet(t) \/ KeepGet(t) \/ ReleaseGet(t) \/ RecoverRelease(t)
    BY <2>5, QuietUpdates DEF RenewGet, KeepGet, ReleaseGet, RecoverRelease
  <2>6. CASE ValidateFence(t) \/ ExecuteRun(t)
    BY <2>6, QuietUpdates DEF ValidateFence, ExecuteRun
  <2> QED BY <2>1, <2>2, <2>3, <2>4, <2>5, <2>6
<1>2. UNCHANGED <<lease, fenceCounter, restarts>>
  BY DEF CreateSaveCheckpoint, LoadRun, LoadCheckpoint, RenewGet, ValidateFence, ExecuteRun,
         SaveCheckpoint, KeepGet, ReleaseGet, RecoverRelease, RecoverLoad, EnqueueDeadLetter,
         DlqLoad, DlqRemove, Local, SameClock, store
<1> QED BY <1>1, <1>2

\* Counting a journal entry is quiet.
LEMMA JournalAppendQuiet ==
    ASSUME TypeOK, NEW t \in Tasks, JournalAppend(t)
    PROVE  Quiet(t) /\ UNCHANGED <<lease, fenceCounter, restarts>>
<1> DEFINE k == task[t]
           n == [k EXCEPT !.pc = "checkpoint", !.mem.nextSeq = @ + 1]
<1>1. SameClaims(n, k)
  BY DEF TypeOK, TaskRecord, SameClaims
<1>2. Become(t, n) /\ UNCHANGED <<lease, fenceCounter, restarts>>
  BY DEF JournalAppend, SameClock
<1> QED BY <1>1, <1>2 DEF Quiet

\* So is a failing store operation.
LEMMA StorageErrorQuiet ==
    ASSUME TypeOK, NEW t \in Tasks, StorageError(t)
    PROVE  Quiet(t) /\ UNCHANGED <<lease, fenceCounter, restarts>>
<1> DEFINE k == task[t]
<1>0. k \in TaskRecord
  BY DEF TypeOK
<1>1. OnError(k) = Idle \/ \E p, e : OnError(k) = [k EXCEPT !.pc = p] \/ OnError(k) = [k EXCEPT !.pc = p, !.err = e]
  BY DEF OnError
<1>2. Quiet(t)
  <2>1. Become(t, OnError(k))
    BY DEF StorageError
  <2>2. CASE OnError(k) = Idle
    BY <2>1, <2>2 DEF Quiet
  <2>3. ASSUME NEW p, NEW e, OnError(k) = [k EXCEPT !.pc = p] \/ OnError(k) = [k EXCEPT !.pc = p, !.err = e]
        PROVE  Quiet(t)
    <3>1. SameClaims([k EXCEPT !.pc = p], k) /\ SameClaims([k EXCEPT !.pc = p, !.err = e], k)
      BY <1>0 DEF TaskRecord, SameClaims
    <3> QED BY <2>1, <2>3, <3>1 DEF Quiet
  <2> QED BY <1>1, <2>2, <2>3
<1> QED BY <1>2 DEF StorageError, SameClock, store

-----------------------------------------------------------------------------
(* Steps that pass a claim on *)

\* A task moves and the leases stay.
LEMMA TaskStep ==
    ASSUME TypeOK, FenceInv, NEW t \in Tasks, NEW n, Become(t, n), ClaimsOf(n) \subseteq Claims,
           UNCHANGED <<lease, fenceCounter, restarts>>
    PROVE  FenceInv'
BY LeaseClaimsKept, ClaimsStay, FewerClaims

\* A new call claims nothing, but for a recovery scan, which claims what the
\* expired leases do.
LEMMA ClientCallFence ==
    ASSUME TypeOK, FenceInv, NEW t \in Tasks, ClientCall(t)
    PROVE  FenceInv'
<1>1. ASSUME NEW k \in TaskRecord, Begin(t, k), ClaimsOf(k) \subseteq Claims
      PROVE  FenceInv'
  <2> DEFINE n == [k EXCEPT !.id = calls + 1]
  <2>1. SameClaims(n, k)
    BY DEF TaskRecord, SameClaims
  <2>2. ClaimsOf(n) \subseteq Claims
    BY <1>1, <2>1, SameClaimsOf
  <2>3. Become(t, n) /\ UNCHANGED <<lease, fenceCounter, restarts>>
    BY <1>1 DEF Begin, store
  <2> QED BY <2>2, <2>3, TaskStep
<1>2. ASSUME NEW k, k.token = 0, k.todo = {}
      PROVE  ClaimsOf(k) \subseteq Claims
  BY <1>2 DEF ClaimsOf, Holds
<1>3. ASSUME NEW r \in Runs, Start(t, r) \/ Create(t, r) \/ Resume(t, r)
      PROVE  FenceInv'
  <2>1. PICK c \in {"start", "resume"}, p \in {"start", "create", "load"} : Begin(t, RunnerCall(t, r, c, p))
    BY <1>3 DEF Start, Create, Resume
  <2>2. WorkerOf[t] \in Workers
    BY ConstantsAssumption
  <2>3. /\ RunnerCall(t, r, c, p) \in TaskRecord
        /\ RunnerCall(t, r, c, p).token = 0 /\ RunnerCall(t, r, c, p).todo = {}
    BY <2>2, RecordTypes, IdleFields DEF RunnerCall, TaskRecord, PCs
  <2> QED BY <1>1, <1>2, <2>1, <2>3
<1>4. ASSUME NEW r \in Runs, Cancel(t, r)
      PROVE  FenceInv'
  <2> DEFINE k == [Idle EXCEPT !.pc = "cancel", !.call = "cancel", !.run = r, !.mem = runs[r]]
  <2>1. runs[r] \in RunRecord
    BY DEF TypeOK
  <2>2. k \in TaskRecord /\ k.token = 0 /\ k.todo = {}
    BY <2>1, RecordTypes, IdleFields DEF TaskRecord, PCs
  <2> QED BY <1>1, <1>2, <1>4, <2>2 DEF Cancel
<1>5. ASSUME NEW r \in Runs, RetryFromDlq(t, r)
      PROVE  FenceInv'
  <2> DEFINE k == [Idle EXCEPT !.pc = "dlq_load", !.call = "dlq", !.run = r]
  <2>1. k \in TaskRecord /\ k.token = 0 /\ k.todo = {}
    BY RecordTypes, IdleFields DEF TaskRecord, PCs
  <2> QED BY <1>1, <1>2, <1>5, <2>1 DEF RetryFromDlq
<1>6. CASE ScanAndRecover(t)
  <2> DEFINE k == [Idle EXCEPT !.pc = "recover_next", !.call = "recover", !.todo = Expired]
  <2>1. Expired \subseteq Runs \X LeaseRecord
    BY DEF Expired, TypeOK
  <2>2. k \in TaskRecord /\ k.token = 0 /\ k.todo = Expired
    BY <2>1, RecordTypes, IdleFields DEF TaskRecord, PCs
  <2>3. \A p \in Expired : <<p[2].fence, p[1], p[2].worker>> \in LeaseClaims
    BY DEF Expired, LeaseClaims
  <2>4. ClaimsOf(k) \subseteq Claims
    <3> HIDE DEF k
    <3> QED BY <2>2, <2>3 DEF ClaimsOf, Holds, Claims
  <2> QED BY <1>1, <1>6, <2>2, <2>4 DEF ScanAndRecover
<1> QED BY <1>3, <1>4, <1>5, <1>6 DEF ClientCall

\* acquire takes over the token of a lease its worker holds.
LEMMA AcquireGetFence ==
    ASSUME SafeInv, FenceInv, NEW t \in Tasks, AcquireGet(t)
    PROVE  FenceInv'
<1> DEFINE k == task[t]
           n == [k EXCEPT !.pc = "renew", !.token = Lease(t).fence]
<1>0. TypeOK /\ k \in TaskRecord /\ GoodTask(k, journal, checkpoint) /\ k.pc = "acquire"
  BY TaskFacts DEF AcquireGet, At, SafeInv
<1>1. UNCHANGED <<lease, fenceCounter, restarts>>
  BY DEF AcquireGet, Local, SameClock, store
<1>2. CASE Return(t) \/ Goto(t, "fetch")
  <2>1. Quiet(t)
    BY <1>0, <1>2, QuietUpdates
  <2> QED BY <1>0, <1>1, <2>1, QuietStep, LeaseClaimsKept
<1>3. CASE is_held_by(Lease(t), k.wid) /\ Become(t, n)
  <2>1. k.run \in Runs
    BY <1>0 DEF GoodTask
  <2>2. lease[k.run] # NoLease /\ lease[k.run].worker = k.wid
    BY <1>0, <1>3 DEF is_held_by, is_valid, NoLease, TypeOK, Lease, Run
  <2>3. <<lease[k.run].fence, k.run, k.wid>> \in Claims
    BY <2>1, <2>2 DEF LeaseClaims, Claims
  <2>4. n.token = lease[k.run].fence /\ n.run = k.run /\ n.wid = k.wid /\ n.todo = k.todo
    BY <1>0 DEF TaskRecord, Lease, Run
  <2>5. {<<p[2].fence, p[1], p[2].worker>> : p \in k.todo} \subseteq Claims
    BY TaskClaims DEF ClaimsOf
  <2>6. ClaimsOf(n) \subseteq Claims
    <3> HIDE DEF n
    <3> QED BY <2>3, <2>4, <2>5 DEF ClaimsOf
  <2> QED BY <1>0, <1>1, <1>3, <2>6, TaskStep
<1> QED BY <1>2, <1>3 DEF AcquireGet

\* The holder of a token writes the lease it claims.
LEMMA PutLeaseFence ==
    ASSUME SafeInv, FenceInv, NEW t \in Tasks, NEW p, PutLease(t, p), task[t].pc \in Holding
    PROVE  FenceInv'
<1> DEFINE k == task[t]
<1>0. TypeOK /\ k \in TaskRecord /\ GoodTask(k, journal, checkpoint)
  BY TaskFacts DEF SafeInv
<1>1. k.run \in Runs /\ Holds(k)
  BY <1>0 DEF GoodTask, Holding, Holds
<1>2. <<k.token, k.run, k.wid>> \in Claims
  BY <1>1, TaskClaims DEF ClaimsOf
<1>3. \A r \in Runs : lease'[r] = lease[r] \/ (r = k.run /\ lease'[r].fence = k.token /\ lease'[r].worker = k.wid)
  BY <1>0, <1>1 DEF PutLease, Run, TypeOK
<1>4. LeaseClaims' \subseteq Claims
  BY <1>2, <1>3 DEF LeaseClaims, Claims
<1>5. Quiet(t) /\ UNCHANGED <<fenceCounter, restarts>>
  BY <1>0, QuietUpdates DEF PutLease, SameClock
<1> QED BY <1>0, <1>4, <1>5, QuietStep

\* A lease is deleted.
LEMMA DeleteLeaseFence ==
    ASSUME SafeInv, FenceInv, NEW t \in Tasks, ReleaseDelete(t) \/ RecoverDelete(t)
    PROVE  FenceInv'
<1>0. TypeOK
  BY DEF SafeInv
<1>1. DeleteLease(t) /\ (Return(t) \/ Goto(t, "recover_load"))
  BY DEF ReleaseDelete, RecoverDelete
<1>2. \A r \in Runs : lease'[r] = lease[r] \/ lease'[r] = NoLease
  BY <1>0, <1>1 DEF DeleteLease, TypeOK
<1>3. LeaseClaims' \subseteq Claims
  BY <1>2 DEF LeaseClaims, Claims
<1>4. Quiet(t) /\ UNCHANGED <<fenceCounter, restarts>>
  BY <1>0, <1>1, QuietUpdates DEF DeleteLease, SameClock
<1> QED BY <1>0, <1>3, <1>4, QuietStep

\* cancel reads a token off the lease and claims nothing with it.
LEMMA CancelLeaseFence ==
    ASSUME SafeInv, FenceInv, NEW t \in Tasks, CancelLease(t)
    PROVE  FenceInv'
<1> DEFINE k == task[t]
           n == [k EXCEPT !.pc = "release", !.wid = k.mem.worker, !.token = Lease(t).fence]
<1>0. TypeOK /\ k \in TaskRecord /\ GoodTask(k, journal, checkpoint) /\ k.pc = "cancel_lease"
  BY TaskFacts DEF CancelLease, At, SafeInv
<1>1. UNCHANGED <<lease, fenceCounter, restarts>>
  BY DEF CancelLease, Local, SameClock, store
<1>2. CASE Return(t)
  <2>1. Quiet(t)
    BY <1>0, <1>2, QuietUpdates
  <2> QED BY <1>0, <1>1, <2>1, QuietStep, LeaseClaimsKept
<1>3. CASE Become(t, n)
  <2>1. n.call = "cancel" /\ n.todo = k.todo
    BY <1>0 DEF TaskRecord, GoodTask
  <2>2. ClaimsOf(n) \subseteq ClaimsOf(k)
    <3> HIDE DEF n
    <3> QED BY <2>1 DEF ClaimsOf, Holds
  <2> QED BY <1>0, <1>1, <1>3, <2>2, TaskClaims, TaskStep
<1> QED BY <1>2, <1>3 DEF CancelLease

\* Recovery acts on one of the leases it has scanned.
LEMMA RecoverNextFence ==
    ASSUME SafeInv, FenceInv, NEW t \in Tasks, RecoverNext(t)
    PROVE  FenceInv'
<1> DEFINE k == task[t]
<1>0. TypeOK /\ k \in TaskRecord
  BY TaskFacts DEF SafeInv
<1>1. UNCHANGED <<lease, fenceCounter, restarts>>
  BY DEF RecoverNext, Local, SameClock, store
<1>2. CASE Return(t)
  <2>1. Quiet(t)
    BY <1>0, <1>2, QuietUpdates
  <2> QED BY <1>0, <1>1, <2>1, QuietStep, LeaseClaimsKept
<1>3. ASSUME NEW q \in k.todo,
             Become(t, [k EXCEPT !.pc = "recover_release", !.todo = @ \ {q},
                                 !.run = q[1], !.wid = q[2].worker,
                                 !.token = q[2].fence, !.mem = AbsentRun])
      PROVE  FenceInv'
  <2> DEFINE n == [k EXCEPT !.pc = "recover_release", !.todo = @ \ {q},
                            !.run = q[1], !.wid = q[2].worker,
                            !.token = q[2].fence, !.mem = AbsentRun]
  <2>1. n.todo \subseteq k.todo /\ n.run = q[1] /\ n.wid = q[2].worker /\ n.token = q[2].fence
    BY <1>0 DEF TaskRecord
  <2>2. ClaimsOf(n) \subseteq ClaimsOf(k)
    <3> HIDE DEF n
    <3> QED BY <2>1 DEF ClaimsOf
  <2> QED BY <1>0, <1>1, <1>3, <2>2, TaskClaims, TaskStep
<1> QED BY <1>2, <1>3 DEF RecoverNext

-----------------------------------------------------------------------------
(* The one step that adds a claim *)

\* fetch_add hands out a token that is in nobody's hands.
LEMMA FetchFenceFence ==
    ASSUME SafeInv, FenceInv, NEW t \in Tasks, FetchFence(t)
    PROVE  FenceInv'
<1> DEFINE k == task[t]
           n == [k EXCEPT !.pc = "grant", !.token = fenceCounter]
           new == <<fenceCounter, k.run, k.wid>>
<1>0. TypeOK /\ k \in TaskRecord
  BY TaskFacts DEF SafeInv
<1>1. n.token = fenceCounter /\ n.run = k.run /\ n.wid = k.wid /\ n.todo = k.todo
  BY <1>0 DEF TaskRecord
<1>2. ClaimsOf(n) \subseteq ClaimsOf(k) \cup {new}
  <2> HIDE DEF n
  <2> QED BY <1>1 DEF ClaimsOf
<1>3. LeaseClaims' = LeaseClaims
  BY DEF FetchFence, store, LeaseClaims
<1>4. \A u \in Tasks : ClaimsOf(task'[u]) \subseteq Claims \cup {new}
  <2> SUFFICES ASSUME NEW u \in Tasks PROVE ClaimsOf(task'[u]) \subseteq Claims \cup {new}
    OBVIOUS
  <2>1. task'[u] = IF u = t THEN n ELSE task[u]
    BY <1>0 DEF FetchFence, Become, TypeOK
  <2> HIDE DEF n, new
  <2> QED BY <1>2, <2>1, TaskClaims
<1>5. Claims' \subseteq Claims \cup {new}
  <2>1. Claims' = LeaseClaims' \cup UNION {ClaimsOf(task'[u]) : u \in Tasks}
    BY DEF Claims, ClaimsOf, Holds
  <2> HIDE DEF new
  <2> QED BY <1>3, <1>4, <2>1 DEF Claims
<1>6. fenceCounter' = fenceCounter + 1 /\ restarts' = restarts /\ fenceCounter \in Nat
  BY <1>0 DEF FetchFence, SameClock, TypeOK
<1>7. ASSUME restarts = 0, NEW c \in Claims \cup {new}
      PROVE  /\ c[1] < fenceCounter + 1
             /\ \A d \in Claims \cup {new} : c[1] = d[1] => c = d
  <2>1. \A d \in Claims : d[1] < fenceCounter /\ \A e \in Claims : d[1] = e[1] => d = e
    BY <1>7 DEF FenceInv
  <2>2. \A d \in Claims : d[1] \in Nat
    <3>1. \A d \in LeaseClaims : d[1] \in Nat
      BY <1>0 DEF LeaseClaims, TypeOK, LeaseRecord
    <3>2. ASSUME NEW u \in Tasks, NEW d \in ClaimsOf(task[u]) PROVE d[1] \in Nat
      <4>1. task[u].token \in Nat /\ \A p \in task[u].todo : p[2].fence \in Nat
        BY <1>0 DEF TypeOK, TaskRecord, LeaseRecord
      <4> QED BY <4>1, <3>2 DEF ClaimsOf
    <3> QED BY <3>1, <3>2 DEF Claims
  <2>3. new[1] = fenceCounter
    OBVIOUS
  <2> HIDE DEF new
  <2> QED BY <1>6, <2>1, <2>2, <2>3
<1>8. restarts' = 0 => \A c \in Claims' : /\ c[1] < fenceCounter'
                                          /\ \A d \in Claims' : c[1] = d[1] => c = d
  <2> HIDE DEF new
  <2> QED BY <1>5, <1>6, <1>7
<1> QED BY <1>8 DEF FenceInv

-----------------------------------------------------------------------------
(* The inductive invariant and the theorem *)

\* The steps of calls in progress.
LEMMA ProgressFence ==
    ASSUME SafeInv, FenceInv, NEW t \in Tasks, Progress(t)
    PROVE  FenceInv'
<1>0. TypeOK
  BY DEF SafeInv
<1>1. ASSUME Quiet(t), UNCHANGED <<lease, fenceCounter, restarts>> PROVE FenceInv'
  BY <1>0, <1>1, QuietStep, LeaseClaimsKept
<1>2. CASE \/ StartSaveRun(t) \/ CreateSaveRun(t) \/ SaveRunning(t) \/ SaveCompleted(t)
           \/ HandleFailure(t) \/ CancelSave(t) \/ Requeue(t) \/ MarkFailed(t) \/ DlqSave(t)
  <2>1. PICK rec, next : save_run(t, rec, next)
    BY <1>2 DEF StartSaveRun, CreateSaveRun, SaveRunning, SaveCompleted, HandleFailure,
                CancelSave, Requeue, MarkFailed, DlqSave
  <2> QED BY <1>0, <1>1, <2>1, SaveRunQuiet
<1>3. CASE \/ CreateSaveCheckpoint(t) \/ LoadRun(t) \/ LoadCheckpoint(t) \/ RenewGet(t)
           \/ ValidateFence(t) \/ ExecuteRun(t) \/ SaveCheckpoint(t)
           \/ KeepGet(t) \/ ReleaseGet(t) \/ RecoverRelease(t) \/ RecoverLoad(t)
           \/ EnqueueDeadLetter(t) \/ DlqLoad(t) \/ DlqRemove(t)
  BY <1>0, <1>1, <1>3, OtherStepsQuiet
<1>4. CASE JournalAppend(t)
  BY <1>0, <1>1, <1>4, JournalAppendQuiet
<1>5. CASE Grant(t) \/ RenewPut(t) \/ KeepPut(t)
  <2>1. task[t].pc \in Holding /\ \E p : PutLease(t, p)
    BY <1>5 DEF Grant, RenewPut, KeepPut, At, Holding
  <2> QED BY <2>1, PutLeaseFence
<1> QED BY <1>2, <1>3, <1>4, <1>5, AcquireGetFence, FetchFenceFence, DeleteLeaseFence,
           CancelLeaseFence, RecoverNextFence DEF Progress

\* The initial state: nobody has a token.
LEMMA InitFence == Init => IInv
<1> SUFFICES ASSUME Init PROVE IInv
  OBVIOUS
<1>1. Claims = {}
  BY IdleClaims DEF Init, Claims, LeaseClaims
<1> QED BY <1>1, InitSafe DEF IInv, FenceInv

\* The invariant is inductive.
LEMMA NextFence == IInv /\ [Next]_vars => IInv'
<1> SUFFICES ASSUME IInv, [Next]_vars PROVE IInv'
  OBVIOUS
<1>0. SafeInv /\ SafeInv' /\ FenceInv /\ TypeOK
  BY NextSafe DEF IInv, SafeInv
<1>1. ASSUME NEW t \in Tasks, ClientCall(t) \/ Progress(t) \/ StorageError(t)
      PROVE  FenceInv'
  <2>1. CASE StorageError(t)
    BY <1>0, <2>1, StorageErrorQuiet, QuietStep, LeaseClaimsKept
  <2> QED BY <1>0, <1>1, <2>1, ClientCallFence, ProgressFence
<1>2. ASSUME Tick \/ UNCHANGED vars PROVE FenceInv'
  <2>1. UNCHANGED <<lease, task, fenceCounter, restarts>>
    BY <1>2 DEF Tick, vars, store, env
  <2>2. Claims' = Claims
    BY <2>1 DEF Claims, LeaseClaims, ClaimsOf, Holds
  <2> QED BY <1>0, <2>1, <2>2, FewerClaims
<1>3. ASSUME Restart PROVE FenceInv'
  <2>1. restarts' # 0
    BY <1>0, <1>3 DEF Restart, TypeOK
  <2> QED BY <2>1 DEF FenceInv
<1>4. FenceInv'
  BY <1>1, <1>2, <1>3 DEF Next, Quiescent
<1> QED BY <1>0, <1>4 DEF IInv

\* Until the process restarts, tasks with equal fence tokens, and a task and a
\* lease with equal tokens, belong to one run and one worker: FENCE_COUNTER's
\* fetch_add is what makes the checks of renew, release and validate_fence
\* sound, although acquire's read and write of the lease are not atomic.
THEOREM FenceSafe == Spec => []FenceIdentifiesHolder
<1>1. IInv => FenceIdentifiesHolder
  <2> SUFFICES ASSUME IInv, restarts = 0
               PROVE  /\ \A t, u \in Tasks :
                            Holds(task[t]) /\ Holds(task[u]) /\ task[t].token = task[u].token =>
                                Run(t) = Run(u) /\ task[t].wid = task[u].wid
                      /\ \A t \in Tasks, r \in Runs : Holds(task[t]) /\ lease[r].fence = task[t].token =>
                                r = Run(t) /\ lease[r].worker = task[t].wid
    BY DEF FenceIdentifiesHolder
  <2>1. \A c, d \in Claims : c[1] = d[1] => c = d
    BY DEF IInv, FenceInv
  <2>2. \A t \in Tasks : Holds(task[t]) => <<task[t].token, task[t].run, task[t].wid>> \in Claims
    BY TaskClaims DEF ClaimsOf
  <2>3. ASSUME NEW t \in Tasks, NEW u \in Tasks, Holds(task[t]), Holds(task[u]),
               task[t].token = task[u].token
        PROVE  Run(t) = Run(u) /\ task[t].wid = task[u].wid
    <3> DEFINE c == <<task[t].token, task[t].run, task[t].wid>>
               d == <<task[u].token, task[u].run, task[u].wid>>
    <3>1. c \in Claims /\ d \in Claims /\ c[1] = d[1]
      BY <2>2, <2>3
    <3>2. c = d
      BY <2>1, <3>1
    <3> QED BY <3>2 DEF Run
  <2>4. ASSUME NEW t \in Tasks, NEW r \in Runs, Holds(task[t]), lease[r].fence = task[t].token
        PROVE  r = Run(t) /\ lease[r].worker = task[t].wid
    <3> DEFINE c == <<task[t].token, task[t].run, task[t].wid>>
               d == <<lease[r].fence, r, lease[r].worker>>
    <3>1. lease[r] # NoLease
      BY <2>4 DEF Holds, NoLease
    <3>2. d \in LeaseClaims
      BY <3>1 DEF LeaseClaims
    <3>3. c \in Claims /\ d \in Claims /\ c[1] = d[1]
      BY <2>2, <2>4, <3>2 DEF Claims
    <3>4. c = d
      BY <2>1, <3>3
    <3> QED BY <3>4 DEF Run
  <2> QED BY <2>3, <2>4
<1> QED BY <1>1, InitFence, NextFence, PTL DEF Spec
-----------------------------------------------------------------------------
(* While the calls on one run do not overlap, the copy of the run record a
   task is about to save agrees with the stored one.  From this follow the
   refinement of RunLifecycle, OutcomeIsFinal and CheckpointGrows. *)

\* A task that is in the middle of a call on the run it names.
Working(k) == k.pc \notin {"idle", "recover_next"}

\* The calls on one run do not overlap; calls on different runs may.
CallsApart ==
    \A t, u \in Tasks : t # u /\ Working(task[t]) /\ Working(task[u]) => Run(t) # Run(u)

\* The states of a run without an outcome.
Live == {"pending", "running", "suspended"}

\* start and resume before they have recorded the attempt (start has done so
\* first of all), and from there to the outcome.
Preparing == {"acquire", "fetch", "grant", "renew", "renew_put",
              "load_checkpoint", "save_running"}
Executing == {"validate", "run", "append", "checkpoint", "keep", "keep_put",
              "complete", "fail"}

\* Program points from which the task's copy of the record will be saved.
Copying == Preparing \cup Executing \cup {"cancel", "requeue", "enqueue", "mark_failed"}

\* A task's local state k fits the stored record rec of its run, the messages
\* of its checkpoint and whether it is a dead letter.
Fits(k, rec, messages, dead) ==
    /\ k.pc \in {"start", "create"} => rec.state = "absent"
    /\ k.pc = "create_checkpoint" => rec.state = "pending" /\ messages = <<>>
    /\ k.pc \in {"create", "create_checkpoint", "load"} => k.call = "resume"
    /\ k.pc \in Copying => /\ rec.state \in Live
                           /\ rec.state = k.mem.state
                           /\ rec.attempt = k.mem.attempt
    /\ k.pc \in Executing \/ (k.pc \in Preparing /\ k.call = "start") => rec.state = "running"
    /\ k.pc = "requeue" => rec.attempt < MaxAttempts
    /\ k.pc = "enqueue" => rec.attempt >= MaxAttempts
    /\ k.pc \in {"mark_failed", "dlq_load", "dlq_save", "dlq_remove"} => dead
    /\ k.pc = "dlq_save" => rec.attempt = k.mem.attempt
    /\ k.pc = "dlq_remove" => rec.state = "pending"
    /\ k.pc = "start" => k.hist = <<>>
    /\ \/ k.pc \in {"save_running", "validate", "run", "append", "checkpoint"}
       \/ k.pc \in Preparing /\ k.call = "start"
       => k.hist = messages

TasksFit == \A t \in Tasks : Working(task[t]) =>
    Fits(task[t], runs[Run(t)], checkpoint[Run(t)].messages, Run(t) \in dlq)

\* What is not in the store is in none of its parts.
AbsentRuns ==
    \A r \in Runs : runs[r].state = "absent" => runs[r] = AbsentRun /\ checkpoint[r] = NoCheckpoint

\* The inductive invariant behind the refinement.
SequentialInv == TasksFit /\ AbsentRuns

-----------------------------------------------------------------------------
(* One task moves and the rest fits as before *)

\* Every part of the store that does not belong to the run task t works on is
\* left alone.
Elsewhere(t) ==
    \A r \in Runs : \/ r = Run(t) /\ Working(task[t])
                    \/ /\ runs'[r] = runs[r] /\ checkpoint'[r] = checkpoint[r]
                       /\ r \in dlq' <=> r \in dlq

\* A step of task t fits when its own new state does.
LEMMA OthersFit ==
    ASSUME SafeInv, CallsApart, TasksFit, NEW t \in Tasks, NEW k, Become(t, k), Elsewhere(t),
           Working(k) => Fits(k, runs'[k.run], checkpoint'[k.run].messages, k.run \in dlq')
    PROVE  TasksFit'
<1> SUFFICES ASSUME NEW u \in Tasks, Working(task'[u])
             PROVE  Fits(task'[u], runs'[task'[u].run], checkpoint'[task'[u].run].messages,
                         task'[u].run \in dlq')
  BY DEF TasksFit, Run
<1>1. CASE u = t
  BY <1>1 DEF Become, SafeInv, TypeOK
<1>2. CASE u # t
  <2>1. task'[u] = task[u]
    BY <1>2 DEF Become, SafeInv, TypeOK
  <2>2. Run(u) \in Runs
    BY <2>1, TaskFacts DEF Working, GoodTask, Run
  <2>3. Fits(task[u], runs[Run(u)], checkpoint[Run(u)].messages, Run(u) \in dlq)
    BY <2>1 DEF TasksFit
  <2>4. runs'[Run(u)] = runs[Run(u)] /\ checkpoint'[Run(u)] = checkpoint[Run(u)]
        /\ (Run(u) \in dlq' <=> Run(u) \in dlq)
    BY <1>2, <2>1, <2>2 DEF CallsApart, Elsewhere
  <2> QED BY <2>1, <2>3, <2>4 DEF Run, Fits
<1> QED BY <1>1, <1>2

\* A task at rest fits everything.
LEMMA IdleRests == ~Working(Idle)
BY DEF Working, Idle

\* The facts about a task in the middle of a call.
LEMMA WorkingFacts ==
    ASSUME SafeInv, TasksFit, NEW t \in Tasks, Working(task[t])
    PROVE  /\ Run(t) \in Runs
           /\ Fits(task[t], runs[Run(t)], checkpoint[Run(t)].messages, Run(t) \in dlq)
           /\ runs[Run(t)] \in RunRecord /\ checkpoint[Run(t)] \in CheckpointRecord
BY TaskFacts DEF TasksFit, Working, GoodTask, Run, SafeInv, TypeOK

\* What one step shows a client of the run records: a step of the abstract
\* life of some run or none, and no lost round of a checkpoint.
Simulates == [Lifecycle!Next]_(Lifecycle!vars)
RoundsKept == \A r \in Runs : IsPrefixOf(checkpoint[r].messages, checkpoint'[r].messages)

StepHolds == SequentialInv' /\ Simulates /\ RoundsKept

\* A step that leaves records, checkpoints and dead letters alone.
LEMMA QuietHolds ==
    ASSUME SafeInv, CallsApart, SequentialInv, NEW t \in Tasks, NEW k, Become(t, k),
           UNCHANGED <<runs, checkpoint, dlq>>,
           Working(k) => Fits(k, runs[k.run], checkpoint[k.run].messages, k.run \in dlq)
    PROVE  StepHolds
<1>1. Elsewhere(t)
  BY DEF Elsewhere
<1>2. TasksFit'
  BY <1>1, OthersFit DEF SequentialInv
<1>3. AbsentRuns'
  BY DEF SequentialInv, AbsentRuns
<1>4. UNCHANGED Lifecycle!vars
  BY DEF Lifecycle!vars
<1>5. RoundsKept
  BY DEF RoundsKept, IsPrefixOf, SafeInv, TypeOK, CheckpointRecord
<1> QED BY <1>2, <1>3, <1>4, <1>5 DEF StepHolds, SequentialInv, Simulates

\* A task's state n after k, at the program point p with the record m.
After(n, k, p, m) == n.pc = p /\ n.mem = m /\ n.run = k.run /\ n.call = k.call /\ n.hist = k.hist

\* save_run of a record rec by a task for which the abstract run may take the
\* step to rec.
LEMMA SaveHolds ==
    ASSUME SafeInv, CallsApart, SequentialInv, NEW t \in Tasks, NEW rec \in RunRecord, NEW next,
           NEW r \in Runs, Run(t) = r,
           NEW s, NEW a, rec.state = s, rec.attempt = a, s # "absent",
           Working(task[t]), save_run(t, rec, next),
           Lifecycle!Becomes(r, s, a) => Lifecycle!Next,
           \A n : After(n, task[t], next, rec) /\ Working(n) =>
                   Fits(n, rec, checkpoint[Run(t)].messages, Run(t) \in dlq)
    PROVE  StepHolds
<1>1. Run(t) \in Runs
  BY WorkingFacts DEF SequentialInv
<1>2. runs' = [runs EXCEPT ![Run(t)] = rec] /\ runs'[Run(t)] = rec
      /\ checkpoint' = checkpoint /\ dlq' = dlq
  BY <1>1 DEF save_run, SafeInv, TypeOK
<1>3. Elsewhere(t)
  BY <1>2 DEF Elsewhere, SafeInv, TypeOK
<1>4. TasksFit'
  <2>1. CASE Become(t, Idle)
    BY <1>3, <2>1, IdleRests, OthersFit DEF SequentialInv
  <2>2. CASE Become(t, [task[t] EXCEPT !.pc = next, !.mem = rec])
    <3> DEFINE k == [task[t] EXCEPT !.pc = next, !.mem = rec]
    <3>1. k.run = Run(t) /\ After(k, task[t], next, rec)
      BY TaskFacts DEF Run, TaskRecord, After
    <3>2. Working(k) => Fits(k, runs'[k.run], checkpoint'[k.run].messages, k.run \in dlq')
      BY <1>2, <3>1
    <3> QED BY <1>3, <2>2, <3>2, OthersFit DEF SequentialInv
  <2> QED BY <2>1, <2>2 DEF save_run, Return
<1>5. AbsentRuns'
  BY <1>1, <1>2 DEF SequentialInv, AbsentRuns, SafeInv, TypeOK
<1>6. Lifecycle!Becomes(r, s, a)
  <2>1. [q \in Runs |-> runs'[q].state] = [[q \in Runs |-> runs[q].state] EXCEPT ![r] = rec.state]
    BY <1>1, <1>2 DEF SafeInv, TypeOK
  <2>2. [q \in Runs |-> runs'[q].attempt]
          = [[q \in Runs |-> runs[q].attempt] EXCEPT ![r] = rec.attempt]
    BY <1>1, <1>2 DEF SafeInv, TypeOK
  <2> QED BY <1>2, <2>1, <2>2 DEF Lifecycle!Becomes
<1>7. RoundsKept
  BY <1>2 DEF RoundsKept, IsPrefixOf, SafeInv, TypeOK, CheckpointRecord
<1> QED BY <1>4, <1>5, <1>6, <1>7 DEF StepHolds, SequentialInv, Simulates

-----------------------------------------------------------------------------
(* The steps that store a record, each with the abstract step it is *)

\* start and create find no record under their fresh id.
LEMMA CreationHolds ==
    ASSUME SafeInv, CallsApart, SequentialInv, NEW t \in Tasks,
           StartSaveRun(t) \/ CreateSaveRun(t)
    PROVE  StepHolds
<1> DEFINE k == task[t]
<1>0. k \in TaskRecord /\ Working(k)
  BY TaskFacts DEF StartSaveRun, CreateSaveRun, At, Working
<1>1. /\ Run(t) \in Runs
      /\ Fits(k, runs[Run(t)], checkpoint[Run(t)].messages, Run(t) \in dlq)
      /\ k.wid \in Workers \cup {NoWorker}
  BY <1>0, WorkingFacts DEF SequentialInv, TaskRecord
<1> PICK r \in Runs : Run(t) = r
  BY <1>1
<1>2. runs[Run(t)].state = "absent" /\ checkpoint[Run(t)].messages = <<>>
  BY <1>1 DEF SequentialInv, AbsentRuns, NoCheckpoint, StartSaveRun, CreateSaveRun, At, Fits
<1>3. CASE StartSaveRun(t)
  <2> DEFINE rec == [NewRun EXCEPT !.state = "running", !.worker = k.wid, !.attempt = 1]
  <2>1. rec \in RunRecord /\ rec.state = "running" /\ rec.attempt = 1
    BY <1>1 DEF NewRun, AbsentRun, RunRecord, RunStates
  <2>2. save_run(t, rec, "acquire")
    BY <1>3 DEF StartSaveRun
  <2> HIDE DEF rec
  <2>3. Lifecycle!Becomes(r, "running", 1) => Lifecycle!Next
    BY <1>1, <1>2 DEF Lifecycle!Start, Lifecycle!Next
  <2>4. k.hist = <<>>
    BY <1>1, <1>3 DEF StartSaveRun, At, Fits
  <2>5. ASSUME NEW n, After(n, k, "acquire", rec)
        PROVE  Fits(n, rec, checkpoint[Run(t)].messages, Run(t) \in dlq)
    BY <1>2, <2>1, <2>4, <2>5 DEF After, Fits, Live, Preparing, Executing, Copying
  <2> QED BY <1>0, <1>1, <2>1, <2>2, <2>3, <2>5, SaveHolds
<1>4. CASE CreateSaveRun(t)
  <2>1. NewRun \in RunRecord /\ NewRun.state = "pending" /\ NewRun.attempt = 0
    BY RecordTypes DEF NewRun, AbsentRun
  <2>2. Lifecycle!Becomes(r, "pending", 0) => Lifecycle!Next
    BY <1>1, <1>2 DEF Lifecycle!Create, Lifecycle!Next
  <2>3. ASSUME NEW n, After(n, k, "create_checkpoint", NewRun)
        PROVE  Fits(n, NewRun, checkpoint[Run(t)].messages, Run(t) \in dlq)
    BY <1>1, <1>2, <1>4, <2>1, <2>3 DEF CreateSaveRun, At, After, Fits, Live, Preparing, Executing, Copying
  <2> QED BY <1>0, <1>1, <1>4, <2>1, <2>2, <2>3, SaveHolds DEF CreateSaveRun
<1> QED BY <1>3, <1>4

\* resume records the next attempt.
LEMMA SaveRunningHolds ==
    ASSUME SafeInv, CallsApart, SequentialInv, NEW t \in Tasks, SaveRunning(t)
    PROVE  StepHolds
<1> DEFINE k == task[t]
           rec == [k.mem EXCEPT !.state = "running", !.worker = k.wid, !.attempt = @ + 1]
<1>0. k \in TaskRecord /\ Working(k) /\ k.pc = "save_running"
  BY TaskFacts DEF SaveRunning, At, Working
<1>1. /\ Run(t) \in Runs /\ k.mem \in RunRecord
      /\ Fits(k, runs[Run(t)], checkpoint[Run(t)].messages, Run(t) \in dlq)
      /\ k.wid \in Workers \cup {NoWorker}
  BY <1>0, WorkingFacts DEF SequentialInv, TaskRecord
<1> PICK r \in Runs : Run(t) = r
  BY <1>1
<1> PICK a \in Nat : a = k.mem.attempt + 1
  BY <1>1 DEF RunRecord
<1>2. rec \in RunRecord /\ rec.state = "running"
  BY <1>1, RunningRecord
<1>3. rec.attempt = a
  BY <1>1 DEF RunRecord
<1>4. save_run(t, rec, "validate")
  BY DEF SaveRunning
<1> HIDE DEF rec
<1>5. runs[Run(t)].state \in Live /\ runs[Run(t)].attempt = k.mem.attempt
      /\ k.hist = checkpoint[Run(t)].messages
  BY <1>0, <1>1 DEF Fits, Copying, Preparing
<1>6. Lifecycle!Becomes(r, "running", a) => Lifecycle!Next
  <2>1. [q \in Runs |-> runs[q].state][r] \in Lifecycle!Live
        /\ [q \in Runs |-> runs[q].attempt][r] + 1 = a
    BY <1>1, <1>5 DEF Lifecycle!Live, Live
  <2>2. Lifecycle!Becomes(r, "running", a) => Lifecycle!Execute(r)
    BY <2>1 DEF Lifecycle!Execute, Lifecycle!Becomes
  <2> QED BY <1>1, <2>2 DEF Lifecycle!Next
<1>7. ASSUME NEW n, After(n, k, "validate", rec)
      PROVE  Fits(n, rec, checkpoint[Run(t)].messages, Run(t) \in dlq)
  BY <1>2, <1>5, <1>7 DEF After, Fits, Live, Preparing, Executing, Copying
<1> QED BY <1>0, <1>1, <1>2, <1>4, <1>6, <1>3, <1>7, SaveHolds

\* The abstract steps that leave the number of attempts as it is.
MayBecome(r, s) ==
    \/ s \in {"completed", "failed"} /\ runs[r].state = "running"
    \/ s = "suspended" /\ runs[r].state = "running" /\ runs[r].attempt < MaxAttempts
    \/ s = "pending" /\ runs[r].state \in Live /\ runs[r].attempt < MaxAttempts
    \/ s = "cancelled" /\ runs[r].state \in Live
    \/ s = "failed" /\ runs[r].state \in Live /\ r \in dlq
    \/ s = "pending" /\ r \in dlq

\* Each of them is a step of RunLifecycle.
LEMMA AbstractStep ==
    ASSUME NEW r \in Runs, NEW s, NEW a, a = runs[r].attempt, MayBecome(r, s),
           Lifecycle!Becomes(r, s, a)
    PROVE  Lifecycle!Next
<1> DEFINE state == [q \in Runs |-> runs[q].state]
           attempt == [q \in Runs |-> runs[q].attempt]
<1>1. state[r] = runs[r].state /\ attempt[r] = a
  OBVIOUS
<1>2. CASE s = "completed" /\ runs[r].state = "running"
  BY <1>1, <1>2 DEF Lifecycle!Next, Lifecycle!Complete, Lifecycle!Becomes
<1>3. CASE s = "failed" /\ runs[r].state = "running"
  BY <1>1, <1>3 DEF Lifecycle!Next, Lifecycle!Fail, Lifecycle!Becomes
<1>4. CASE s = "suspended" /\ runs[r].state = "running" /\ runs[r].attempt < MaxAttempts
  BY <1>1, <1>4 DEF Lifecycle!Next, Lifecycle!Suspend, Lifecycle!Becomes
<1>5. CASE s = "pending" /\ runs[r].state \in Live /\ runs[r].attempt < MaxAttempts
  BY <1>1, <1>5 DEF Lifecycle!Next, Lifecycle!Requeue, Lifecycle!Becomes, Lifecycle!Live, Live
<1>6. CASE s = "cancelled" /\ runs[r].state \in Live
  BY <1>1, <1>6 DEF Lifecycle!Next, Lifecycle!Cancel, Lifecycle!Becomes, Lifecycle!Live, Live
<1>7. CASE s = "failed" /\ runs[r].state \in Live /\ r \in dlq
  BY <1>1, <1>7 DEF Lifecycle!Next, Lifecycle!GiveUp, Lifecycle!Becomes, Lifecycle!Live, Live
<1>8. CASE s = "pending" /\ r \in dlq
  BY <1>1, <1>8 DEF Lifecycle!Next, Lifecycle!Revive, Lifecycle!Becomes
<1> QED BY <1>2, <1>3, <1>4, <1>5, <1>6, <1>7, <1>8 DEF MayBecome

\* A task stores its copy of the record under another state.
LEMMA CopyHolds ==
    ASSUME SafeInv, CallsApart, SequentialInv, NEW t \in Tasks, NEW s \in RunStates, NEW rec,
           NEW next \in {"release", "cancel_lease", "recover_next", "dlq_remove"},
           task[t].pc \in Copying \cup {"dlq_save"}, save_run(t, rec, next),
           \/ rec = [task[t].mem EXCEPT !.state = s]
           \/ rec = [task[t].mem EXCEPT !.state = s, !.worker = NoWorker]
           \/ rec = [task[t].mem EXCEPT !.state = s, !.output = task[t].id]
           \/ rec = [task[t].mem EXCEPT !.state = s, !.worker = NoWorker, !.output = 0],
           s # "absent", MayBecome(Run(t), s),
           next = "dlq_remove" => s = "pending" /\ Run(t) \in dlq
    PROVE  StepHolds
<1> DEFINE k == task[t]
<1>0. k \in TaskRecord /\ Working(k)
  BY TaskFacts DEF Working, Copying, Preparing, Executing
<1>1. /\ Run(t) \in Runs /\ k.mem \in RunRecord /\ k.id \in Nat
      /\ runs[Run(t)].attempt = k.mem.attempt /\ k.mem.attempt \in Nat
  BY <1>0, WorkingFacts DEF SequentialInv, TaskRecord, Fits, RunRecord
<1> PICK r \in Runs : Run(t) = r
  BY <1>1
<1> PICK a \in Nat : a = runs[r].attempt
  BY <1>1
<1>2. rec \in RunRecord /\ rec.state = s /\ rec.attempt = a
  <2>1. CASE \/ rec = [k.mem EXCEPT !.state = s]
             \/ rec = [k.mem EXCEPT !.state = s, !.worker = NoWorker]
    BY <1>1, <2>1 DEF RunRecord
  <2>2. CASE rec = [k.mem EXCEPT !.state = s, !.output = k.id]
    BY <1>1, <2>2 DEF RunRecord
  <2>3. CASE rec = [k.mem EXCEPT !.state = s, !.worker = NoWorker, !.output = 0]
    BY <1>1, <2>3 DEF RunRecord
  <2> QED BY <2>1, <2>2, <2>3
<1>3. Lifecycle!Becomes(r, s, a) => Lifecycle!Next
  BY AbstractStep
<1>4. ASSUME NEW n, After(n, k, next, rec)
      PROVE  Fits(n, rec, checkpoint[Run(t)].messages, Run(t) \in dlq)
  BY <1>2, <1>4 DEF After, Fits, Preparing, Executing, Copying
<1> QED BY <1>0, <1>2, <1>3, <1>4, SaveHolds

\* Outcomes, cancellation and recovery.
LEMMA OutcomesHold ==
    ASSUME SafeInv, CallsApart, SequentialInv, NEW t \in Tasks,
           \/ SaveCompleted(t) \/ HandleFailure(t) \/ CancelSave(t)
           \/ Requeue(t) \/ MarkFailed(t) \/ DlqSave(t)
    PROVE  StepHolds
<1> DEFINE k == task[t]
<1>0. k \in TaskRecord /\ Working(k) /\ k.pc \in Copying \cup {"dlq_save"}
  BY TaskFacts DEF SaveCompleted, HandleFailure, CancelSave, Requeue, MarkFailed, DlqSave,
                   At, Working, Copying, Executing
<1>1. Run(t) \in Runs /\ Fits(k, runs[Run(t)], checkpoint[Run(t)].messages, Run(t) \in dlq)
  BY <1>0, WorkingFacts DEF SequentialInv
<1> USE DEF At, Copying, Executing
<1>2. CASE SaveCompleted(t)
  <2>1. MayBecome(Run(t), "completed")
    BY <1>1, <1>2 DEF SaveCompleted, Fits, MayBecome
  <2> QED BY <1>0, <1>2, <2>1, CopyHolds DEF SaveCompleted, RunStates, Terminal
<1>3. CASE HandleFailure(t)
  <2>1. CASE k.mem.attempt < MaxAttempts /\ k.err = "retryable"
    <3>1. MayBecome(Run(t), "suspended")
      BY <1>1, <1>3, <2>1 DEF HandleFailure, Fits, MayBecome
    <3>2. save_run(t, [k.mem EXCEPT !.state = "suspended"], "release")
      BY <1>3, <2>1 DEF HandleFailure
    <3> QED BY <1>0, <3>1, <3>2, CopyHolds DEF RunStates, Terminal
  <2>2. CASE ~(k.mem.attempt < MaxAttempts /\ k.err = "retryable")
    <3>1. MayBecome(Run(t), "failed")
      BY <1>1, <1>3, <2>2 DEF HandleFailure, Fits, MayBecome
    <3>2. save_run(t, [k.mem EXCEPT !.state = "failed"], "release")
      BY <1>3, <2>2 DEF HandleFailure
    <3> QED BY <1>0, <3>1, <3>2, CopyHolds DEF RunStates, Terminal
  <2> QED BY <2>1, <2>2
<1>4. CASE CancelSave(t)
  <2>1. MayBecome(Run(t), "cancelled")
    BY <1>1, <1>4 DEF CancelSave, Fits, MayBecome
  <2> QED BY <1>0, <1>4, <2>1, CopyHolds DEF CancelSave, RunStates, Terminal
<1>5. CASE Requeue(t)
  <2>1. MayBecome(Run(t), "pending")
    BY <1>1, <1>5 DEF Requeue, Fits, MayBecome
  <2> QED BY <1>0, <1>5, <2>1, CopyHolds DEF Requeue, RunStates
<1>6. CASE MarkFailed(t)
  <2>1. MayBecome(Run(t), "failed")
    BY <1>1, <1>6 DEF MarkFailed, Fits, MayBecome
  <2> QED BY <1>0, <1>6, <2>1, CopyHolds DEF MarkFailed, RunStates, Terminal
<1>7. CASE DlqSave(t)
  <2>1. MayBecome(Run(t), "pending") /\ Run(t) \in dlq
    BY <1>1, <1>7 DEF DlqSave, Fits, MayBecome
  <2> QED BY <1>0, <1>7, <2>1, CopyHolds DEF DlqSave, RunStates
<1> QED BY <1>2, <1>3, <1>4, <1>5, <1>6, <1>7

-----------------------------------------------------------------------------
(* The steps that store a checkpoint or change the dead letter queue *)

\* The checkpoint of a run is replaced by one that extends it.
LEMMA CheckpointHolds ==
    ASSUME SafeInv, CallsApart, SequentialInv, NEW t \in Tasks,
           CreateSaveCheckpoint(t) \/ SaveCheckpoint(t)
    PROVE  StepHolds
<1> DEFINE k == task[t]
           new == checkpoint'[Run(t)].messages
<1>0. k \in TaskRecord /\ Working(k) /\ k.pc \in {"create_checkpoint", "checkpoint"}
  BY TaskFacts DEF CreateSaveCheckpoint, SaveCheckpoint, At, Working
<1>1. /\ Run(t) \in Runs
      /\ Fits(k, runs[Run(t)], checkpoint[Run(t)].messages, Run(t) \in dlq)
      /\ k.hist \in Seq(Nat) /\ k.id \in Nat
  BY <1>0, WorkingFacts DEF SequentialInv, TaskRecord
<1>2. /\ \A r \in Runs : r # Run(t) => checkpoint'[r] = checkpoint[r]
      /\ UNCHANGED <<runs, dlq>>
      /\ \/ k.pc = "create_checkpoint" /\ new = <<>> /\ Goto(t, "load")
         \/ k.pc = "checkpoint" /\ new = Append(k.hist, k.id) /\ Goto(t, "keep")
  BY <1>1 DEF CreateSaveCheckpoint, SaveCheckpoint, At, SafeInv, TypeOK
<1>3. runs[Run(t)].state # "absent" /\ IsPrefixOf(checkpoint[Run(t)].messages, new)
  <2>1. CASE k.pc = "create_checkpoint"
    BY <1>1, <1>2, <2>1 DEF Fits, IsPrefixOf
  <2>2. CASE k.pc = "checkpoint"
    <3>1. checkpoint[Run(t)].messages = k.hist /\ runs[Run(t)].state = "running"
      BY <1>1, <2>2 DEF Fits, Executing
    <3>2. IsPrefixOf(k.hist, Append(k.hist, k.id))
      BY <1>1 DEF IsPrefixOf
    <3> QED BY <1>2, <2>2, <3>1, <3>2
  <2> QED BY <1>0, <2>1, <2>2
<1>4. RoundsKept
  <2> SUFFICES ASSUME NEW r \in Runs
               PROVE  IsPrefixOf(checkpoint[r].messages, checkpoint'[r].messages)
    BY DEF RoundsKept
  <2>1. CASE r = Run(t)
    BY <1>3, <2>1
  <2>2. CASE r # Run(t)
    BY <1>2, <2>2 DEF IsPrefixOf, SafeInv, TypeOK, CheckpointRecord
  <2> QED BY <2>1, <2>2
<1>5. AbsentRuns'
  BY <1>2, <1>3 DEF SequentialInv, AbsentRuns
<1>6. UNCHANGED Lifecycle!vars
  BY <1>2 DEF Lifecycle!vars
<1>7. TasksFit'
  <2>1. Elsewhere(t)
    BY <1>0, <1>2 DEF Elsewhere
  <2>2. PICK p \in {"load", "keep"} : Goto(t, p) /\ (p = "keep" <=> k.pc = "checkpoint")
    BY <1>2
  <2> DEFINE n == [k EXCEPT !.pc = p]
  <2>3. n.pc = p /\ n.run = Run(t) /\ n.mem = k.mem /\ n.call = k.call /\ n.hist = k.hist
    BY <1>0 DEF TaskRecord, Run
  <2>4. Become(t, n)
    BY <2>2 DEF Goto
  <2> HIDE DEF n
  <2>5. Fits(n, runs'[n.run], checkpoint'[n.run].messages, n.run \in dlq')
    BY <1>0, <1>1, <1>2, <2>2, <2>3 DEF Fits, Live, Preparing, Executing, Copying
  <2> QED BY <2>1, <2>4, <2>5, OthersFit DEF SequentialInv
<1> QED BY <1>4, <1>5, <1>6, <1>7 DEF StepHolds, SequentialInv, Simulates

\* A run without attempts goes to the dead letter queue; a retried one leaves it.
LEMMA DlqHolds ==
    ASSUME SafeInv, CallsApart, SequentialInv, NEW t \in Tasks,
           EnqueueDeadLetter(t) \/ DlqRemove(t)
    PROVE  StepHolds
<1> DEFINE k == task[t]
<1>0. k \in TaskRecord /\ Working(k) /\ k.pc \in {"enqueue", "dlq_remove"}
  BY TaskFacts DEF EnqueueDeadLetter, DlqRemove, At, Working
<1>1. /\ Run(t) \in Runs
      /\ Fits(k, runs[Run(t)], checkpoint[Run(t)].messages, Run(t) \in dlq)
  BY <1>0, WorkingFacts DEF SequentialInv
<1> PICK r \in Runs : Run(t) = r
  BY <1>1
<1>2. UNCHANGED <<runs, checkpoint>> /\ \A q \in Runs : q # r => (q \in dlq' <=> q \in dlq)
  BY DEF EnqueueDeadLetter, DlqRemove
<1>3. Elsewhere(t)
  BY <1>0, <1>2 DEF Elsewhere
<1>4. RoundsKept
  BY <1>2 DEF RoundsKept, IsPrefixOf, SafeInv, TypeOK, CheckpointRecord
<1>5. AbsentRuns'
  BY <1>2 DEF SequentialInv, AbsentRuns
<1>6. Lifecycle!Next
  <2>1. CASE EnqueueDeadLetter(t)
    <3>1. runs[r].state \in Live /\ runs[r].attempt >= MaxAttempts
      BY <1>1, <2>1 DEF EnqueueDeadLetter, At, Fits, Copying
    <3>2. Lifecycle!Bury(r)
      BY <1>2, <2>1, <3>1 DEF EnqueueDeadLetter, Lifecycle!Bury, Lifecycle!Live, Live
    <3> QED BY <3>2 DEF Lifecycle!Next
  <2>2. CASE DlqRemove(t)
    <3>1. r \in dlq /\ runs[r].state = "pending"
      BY <1>1, <2>2 DEF DlqRemove, At, Fits
    <3>2. Lifecycle!Unbury(r)
      BY <1>2, <2>2, <3>1 DEF DlqRemove, Lifecycle!Unbury
    <3> QED BY <3>2 DEF Lifecycle!Next
  <2> QED BY <2>1, <2>2
<1>7. TasksFit'
  <2>1. CASE EnqueueDeadLetter(t)
    <3> DEFINE n == [k EXCEPT !.pc = "mark_failed"]
    <3>1. n.pc = "mark_failed" /\ n.run = Run(t) /\ n.mem = k.mem /\ n.call = k.call
      BY <1>0 DEF TaskRecord, Run
    <3>2. Become(t, n) /\ r \in dlq' /\ k.pc = "enqueue"
      BY <2>1 DEF EnqueueDeadLetter, Goto, At
    <3> HIDE DEF n
    <3>3. Fits(n, runs'[n.run], checkpoint'[n.run].messages, n.run \in dlq')
      BY <1>1, <1>2, <3>1, <3>2 DEF Fits, Live, Preparing, Executing, Copying
    <3> QED BY <1>3, <3>2, <3>3, OthersFit DEF SequentialInv
  <2>2. CASE DlqRemove(t)
    BY <1>3, <2>2, IdleRests, OthersFit DEF SequentialInv, DlqRemove, Return
  <2> QED BY <2>1, <2>2
<1> QED BY <1>4, <1>5, <1>6, <1>7 DEF StepHolds, SequentialInv, Simulates

-----------------------------------------------------------------------------
(* The steps that move on and leave records, checkpoints and dead letters *)

\* Program points that ask nothing of the stored record.
Free == {"idle", "release", "release_delete", "cancel_lease", "recover_next",
         "recover_release", "recover_delete", "recover_load"}

\* A task's state n carries what Fits looks at over from k.
Carries(n, k) ==
    /\ n.run = k.run /\ n.call = k.call /\ n.hist = k.hist
    /\ n.mem.state = k.mem.state /\ n.mem.attempt = k.mem.attempt

\* Moves after which the copy of the record still fits.
Onward(k, p) ==
    \/ k.pc \in Preparing /\ p \in Preparing \ {"save_running"}
    \/ k.pc \in Preparing /\ k.call = "start" /\ p = "validate"
    \/ k.pc \in {"validate", "run", "append"} /\ p \in {"run", "append", "checkpoint"}
    \/ k.pc \in Executing /\ p \in {"keep", "keep_put", "complete", "fail"}

\* A step to such a point.
LEMMA FreeHolds ==
    ASSUME SafeInv, CallsApart, SequentialInv, NEW t \in Tasks, NEW n, Become(t, n),
           UNCHANGED <<runs, checkpoint, dlq>>, n.pc \in Free
    PROVE  StepHolds
<1>1. Fits(n, runs[n.run], checkpoint[n.run].messages, n.run \in dlq)
  BY DEF Free, Fits, Preparing, Executing, Copying
<1> QED BY <1>1, QuietHolds

\* A step onward.
LEMMA OnwardHolds ==
    ASSUME SafeInv, CallsApart, SequentialInv, NEW t \in Tasks, NEW n, Become(t, n),
           UNCHANGED <<runs, checkpoint, dlq>>, Onward(task[t], n.pc), Carries(n, task[t])
    PROVE  StepHolds
<1> DEFINE k == task[t]
<1>1. Working(k)
  BY DEF Onward, Working, Preparing, Executing
<1>2. Fits(k, runs[k.run], checkpoint[k.run].messages, k.run \in dlq)
  BY <1>1, WorkingFacts DEF SequentialInv, Run
<1> DEFINE rec == runs[k.run]
           m == checkpoint[k.run].messages
           d == k.run \in dlq
<1>3. /\ rec.state \in Live /\ rec.state = k.mem.state /\ rec.attempt = k.mem.attempt
      /\ k.pc \in Executing \/ (k.pc \in Preparing /\ k.call = "start") => rec.state = "running"
      /\ \/ k.pc \in {"save_running", "validate", "run", "append", "checkpoint"}
         \/ k.pc \in Preparing /\ k.call = "start"
         => k.hist = m
  BY <1>2 DEF Fits, Onward, Copying, Executing
<1> HIDE DEF rec, m, d
<1>4. Fits(n, rec, m, d)
  BY <1>3 DEF Fits, Carries, Onward, Copying, Preparing, Executing
<1> QED BY <1>4, QuietHolds DEF Carries, rec, m, d

\* A task's next state when only its program point, its token or its error
\* change.
LEMMA Moved ==
    ASSUME NEW k \in TaskRecord, NEW p, NEW f, NEW e
    PROVE  /\ LET n == [k EXCEPT !.pc = p] IN n.pc = p /\ Carries(n, k)
           /\ LET n == [k EXCEPT !.pc = p, !.token = f] IN n.pc = p /\ Carries(n, k)
           /\ LET n == [k EXCEPT !.pc = p, !.err = e] IN n.pc = p /\ Carries(n, k)
BY DEF TaskRecord, Carries

\* A call that returns or has nothing more to save.
LEMMA RestHolds ==
    ASSUME SafeInv, CallsApart, SequentialInv, NEW t \in Tasks,
           UNCHANGED <<runs, checkpoint, dlq>>,
           Return(t) \/ \E p \in Free : Goto(t, p)
    PROVE  StepHolds
<1>1. CASE Return(t)
  BY <1>1, FreeHolds DEF Return, Idle, Free
<1>2. ASSUME NEW p \in Free, Goto(t, p) PROVE StepHolds
  <2> DEFINE n == [task[t] EXCEPT !.pc = p]
  <2>1. n.pc = p
    BY TaskFacts DEF TaskRecord
  <2>2. Become(t, n)
    BY <1>2 DEF Goto
  <2> HIDE DEF n
  <2> QED BY <2>1, <2>2, FreeHolds
<1> QED BY <1>1, <1>2

\* Goto to a point where the copy still fits.
LEMMA GotoHolds ==
    ASSUME SafeInv, CallsApart, SequentialInv, NEW t \in Tasks,
           UNCHANGED <<runs, checkpoint, dlq>>,
           NEW p, Goto(t, p), Onward(task[t], p)
    PROVE  StepHolds
BY OnwardHolds, Moved, TaskFacts DEF Goto

\* The same when the task also learns its token or meets an error.
LEMMA LearnHolds ==
    ASSUME SafeInv, CallsApart, SequentialInv, NEW t \in Tasks,
           UNCHANGED <<runs, checkpoint, dlq>>, NEW p, NEW v,
           \/ Become(t, [task[t] EXCEPT !.pc = p, !.token = v])
           \/ Become(t, [task[t] EXCEPT !.pc = p, !.err = v]),
           Onward(task[t], p)
    PROVE  StepHolds
<1> PICK n : /\ Become(t, n)
             /\ \/ n = [task[t] EXCEPT !.pc = p, !.token = v]
                \/ n = [task[t] EXCEPT !.pc = p, !.err = v]
  OBVIOUS
<1>1. n.pc = p /\ Carries(n, task[t])
  BY TaskFacts DEF TaskRecord, Carries
<1> QED BY <1>1, OnwardHolds

\* The lease manager.
LEMMA LeaseStepsHold ==
    ASSUME SafeInv, CallsApart, SequentialInv, NEW t \in Tasks,
           \/ AcquireGet(t) \/ FetchFence(t) \/ Grant(t) \/ RenewGet(t) \/ RenewPut(t)
           \/ KeepGet(t) \/ KeepPut(t) \/ ReleaseGet(t) \/ ReleaseDelete(t)
           \/ CancelLease(t) \/ RecoverRelease(t) \/ RecoverDelete(t)
    PROVE  StepHolds
<1> DEFINE k == task[t]
<1>0. k \in TaskRecord
  BY TaskFacts
<1>u. UNCHANGED <<runs, checkpoint, dlq>>
  BY DEF AcquireGet, FetchFence, Grant, RenewGet, RenewPut, KeepGet, KeepPut, ReleaseGet,
         ReleaseDelete, CancelLease, RecoverRelease, RecoverDelete, Local, store, PutLease,
         DeleteLease
<1>1. CASE AcquireGet(t)
  <2>1. k.pc = "acquire"
    BY <1>1 DEF AcquireGet, At
  <2>2. Return(t) \/ Goto(t, "fetch")
        \/ Become(t, [k EXCEPT !.pc = "renew", !.token = Lease(t).fence])
    BY <1>1 DEF AcquireGet
  <2>3. Onward(k, "fetch") /\ Onward(k, "renew")
    BY <2>1 DEF Onward, Preparing
  <2>4. CASE Become(t, [k EXCEPT !.pc = "renew", !.token = Lease(t).fence])
    BY <1>u, <2>3, <2>4, LearnHolds
  <2> QED BY <1>u, <2>2, <2>3, <2>4, RestHolds, GotoHolds
<1>2. CASE FetchFence(t)
  <2>1. k.pc = "fetch" /\ Become(t, [k EXCEPT !.pc = "grant", !.token = fenceCounter])
    BY <1>2 DEF FetchFence, At
  <2>2. Onward(k, "grant")
    BY <2>1 DEF Onward, Preparing
  <2> QED BY <1>u, <2>1, <2>2, LearnHolds
<1>3. CASE Grant(t) \/ RenewPut(t)
  <2>1. k.pc \in Preparing /\ Goto(t, Acquired(t))
    BY <1>3 DEF Grant, RenewPut, At, Preparing, PutLease
  <2>2. Onward(k, Acquired(t))
    BY <2>1 DEF Onward, Acquired, Preparing
  <2> QED BY <1>u, <2>1, <2>2, GotoHolds
<1>4. CASE RenewGet(t)
  <2>1. k.pc = "renew" /\ (Return(t) \/ Goto(t, "renew_put"))
    BY <1>4 DEF RenewGet, At
  <2>2. Onward(k, "renew_put")
    BY <2>1 DEF Onward, Preparing
  <2> QED BY <1>u, <2>1, <2>2, RestHolds, GotoHolds
<1>5. CASE KeepGet(t) \/ KeepPut(t)
  <2>1. k.pc \in {"keep", "keep_put"} /\ (Goto(t, "keep_put") \/ Goto(t, "complete"))
    BY <1>5 DEF KeepGet, KeepPut, At, PutLease
  <2>2. Onward(k, "keep_put") /\ Onward(k, "complete")
    BY <2>1 DEF Onward, Executing
  <2> QED BY <1>u, <2>1, <2>2, GotoHolds
<1>6. CASE ReleaseGet(t) \/ ReleaseDelete(t) \/ RecoverRelease(t) \/ RecoverDelete(t)
  <2>1. Return(t) \/ \E p \in Free : Goto(t, p)
    BY <1>6 DEF ReleaseGet, ReleaseDelete, RecoverRelease, RecoverDelete, Free
  <2> QED BY <1>u, <2>1, RestHolds
<1>7. CASE CancelLease(t)
  <2>1. CASE Return(t)
    BY <1>u, <2>1, RestHolds
  <2>2. CASE Become(t, [k EXCEPT !.pc = "release", !.wid = k.mem.worker, !.token = Lease(t).fence])
    <3>1. [k EXCEPT !.pc = "release", !.wid = k.mem.worker, !.token = Lease(t).fence].pc = "release"
      BY <1>0 DEF TaskRecord
    <3> QED BY <1>u, <2>2, <3>1, FreeHolds DEF Free
  <2> QED BY <1>7, <2>1, <2>2 DEF CancelLease
<1> QED BY <1>1, <1>2, <1>3, <1>4, <1>5, <1>6, <1>7

\* The execution, up to the outcome.
LEMMA ExecutionHolds ==
    ASSUME SafeInv, CallsApart, SequentialInv, NEW t \in Tasks,
           ValidateFence(t) \/ ExecuteRun(t) \/ JournalAppend(t)
    PROVE  StepHolds
<1> DEFINE k == task[t]
<1>0. k \in TaskRecord
  BY TaskFacts
<1>u. UNCHANGED <<runs, checkpoint, dlq>>
  BY DEF ValidateFence, ExecuteRun, JournalAppend, Local, store
<1>1. CASE ValidateFence(t) \/ ExecuteRun(t)
  <2>1. /\ k.pc \in {"validate", "run"}
        /\ \/ Goto(t, "run") \/ Goto(t, "append")
           \/ \E e \in Errors : Become(t, [k EXCEPT !.pc = "fail", !.err = e])
    BY <1>1 DEF ValidateFence, ExecuteRun, At, Errors
  <2>2. Onward(k, "run") /\ Onward(k, "append") /\ Onward(k, "fail")
    BY <2>1 DEF Onward, Executing
  <2> QED BY <1>u, <2>1, <2>2, GotoHolds, LearnHolds
<1>2. CASE JournalAppend(t)
  <2> DEFINE n == [k EXCEPT !.pc = "checkpoint", !.mem.nextSeq = @ + 1]
  <2>1. n.pc = "checkpoint" /\ Carries(n, k)
    BY <1>0 DEF TaskRecord, RunRecord, Carries
  <2>2. k.pc = "append" /\ Become(t, n)
    BY <1>2 DEF JournalAppend, At
  <2>3. Onward(k, "checkpoint")
    BY <2>2 DEF Onward
  <2> HIDE DEF n
  <2> QED BY <1>u, <2>1, <2>2, <2>3, OnwardHolds
<1> QED BY <1>1, <1>2

\* A task that takes the stored record into its memory.
LEMMA LoadsHold ==
    ASSUME SafeInv, CallsApart, SequentialInv, NEW t \in Tasks,
           LoadRun(t) \/ RecoverLoad(t) \/ DlqLoad(t)
    PROVE  StepHolds
<1> DEFINE k == task[t]
           run == runs[Run(t)]
<1>0. k \in TaskRecord /\ Working(k) /\ k.pc \in {"load", "recover_load", "dlq_load"}
  BY TaskFacts DEF LoadRun, RecoverLoad, DlqLoad, At, Working
<1>1. /\ Run(t) \in Runs /\ run \in RunRecord
      /\ Fits(k, run, checkpoint[Run(t)].messages, Run(t) \in dlq)
      /\ run.attempt \in Nat
  BY <1>0, WorkingFacts DEF SequentialInv, RunRecord
<1>2. run = AbsentRun \/ run.state \in Terminal \/ run.state \in Live
  BY <1>1 DEF SequentialInv, AbsentRuns, RunRecord, RunStates, Terminal, Live
<1>u. UNCHANGED <<runs, checkpoint, dlq>>
  BY DEF LoadRun, RecoverLoad, DlqLoad, Local, store
<1>3. PICK p \in {"acquire", "recover_next", "requeue", "enqueue", "dlq_save"} :
        \/ Return(t)
        \/ /\ Become(t, [k EXCEPT !.pc = p, !.mem = run])
           /\ p \in {"acquire", "requeue", "enqueue"} => run.state \in Live
           /\ p = "acquire" => k.call = "resume"
           /\ p = "requeue" => run.attempt < MaxAttempts
           /\ p = "enqueue" => ~(run.attempt < MaxAttempts)
           /\ p = "dlq_save" => Run(t) \in dlq
  <2>1. CASE LoadRun(t)
    BY <1>1, <1>2, <2>1 DEF LoadRun, At, is_terminal, Fits
  <2>2. CASE RecoverLoad(t)
    BY <1>2, <2>2 DEF RecoverLoad, is_terminal
  <2>3. CASE DlqLoad(t)
    BY <1>1, <2>3 DEF DlqLoad, At, Fits
  <2> QED BY <2>1, <2>2, <2>3
<1>4. CASE Return(t)
  BY <1>u, <1>4, RestHolds
<1>5. CASE ~Return(t)
  <2> DEFINE n == [k EXCEPT !.pc = p, !.mem = run]
  <2>1. n.pc = p /\ n.mem = run /\ n.run = Run(t) /\ n.call = k.call
    BY <1>0 DEF TaskRecord, Run
  <2>2. Become(t, n)
    BY <1>3, <1>5
  <2> HIDE DEF n, run
  <2>3. Fits(n, run, checkpoint[Run(t)].messages, Run(t) \in dlq)
    <3>1. MaxAttempts \in Nat
      BY ConstantsAssumption
    <3> QED BY <1>1, <1>3, <1>5, <2>1, <3>1 DEF Fits, Preparing, Executing, Copying
  <2> QED BY <1>u, <2>1, <2>2, <2>3, QuietHolds DEF run
<1> QED BY <1>4, <1>5

\* resume takes the stored messages as its history.
LEMMA LoadCheckpointHolds ==
    ASSUME SafeInv, CallsApart, SequentialInv, NEW t \in Tasks, LoadCheckpoint(t)
    PROVE  StepHolds
<1> DEFINE k == task[t]
           m == checkpoint[Run(t)].messages
           n == [k EXCEPT !.pc = "save_running", !.hist = m]
<1>0. k \in TaskRecord /\ Working(k) /\ k.pc = "load_checkpoint"
  BY TaskFacts DEF LoadCheckpoint, At, Working
<1>1. Run(t) \in Runs /\ Fits(k, runs[Run(t)], m, Run(t) \in dlq)
  BY <1>0, WorkingFacts DEF SequentialInv
<1>2. UNCHANGED <<runs, checkpoint, dlq>> /\ Become(t, n)
  BY DEF LoadCheckpoint, Local, store
<1>3. n.pc = "save_running" /\ n.run = Run(t) /\ n.mem = k.mem /\ n.call = k.call /\ n.hist = m
  BY <1>0 DEF TaskRecord, Run
<1> HIDE DEF n, m
<1>4. Fits(n, runs[Run(t)], m, Run(t) \in dlq)
  BY <1>0, <1>1, <1>3 DEF Fits, Preparing, Executing, Copying
<1> QED BY <1>2, <1>3, <1>4, QuietHolds DEF m

\* Recovery turns to the next lease of its scan.
LEMMA RecoverNextHolds ==
    ASSUME SafeInv, CallsApart, SequentialInv, NEW t \in Tasks, RecoverNext(t)
    PROVE  StepHolds
<1>u. UNCHANGED <<runs, checkpoint, dlq>>
  BY DEF RecoverNext, Local, store
<1>1. CASE Return(t)
  BY <1>u, <1>1, RestHolds
<1>2. ASSUME NEW p \in task[t].todo,
             Become(t, [task[t] EXCEPT !.pc = "recover_release", !.todo = @ \ {p},
                                       !.run = p[1], !.wid = p[2].worker,
                                       !.token = p[2].fence, !.mem = AbsentRun])
      PROVE  StepHolds
  <2> PICK n : Become(t, n) /\ n = [task[t] EXCEPT !.pc = "recover_release", !.todo = @ \ {p},
                                       !.run = p[1], !.wid = p[2].worker,
                                       !.token = p[2].fence, !.mem = AbsentRun]
    BY <1>2
  <2>1. n.pc = "recover_release"
    BY TaskFacts DEF TaskRecord
  <2> QED BY <1>u, <2>1, FreeHolds DEF Free
<1> QED BY <1>1, <1>2 DEF RecoverNext

\* Every step of a call in progress.
LEMMA ProgressHolds ==
    ASSUME SafeInv, CallsApart, SequentialInv, NEW t \in Tasks, Progress(t)
    PROVE  StepHolds
BY CreationHolds, SaveRunningHolds, OutcomesHold, CheckpointHolds, DlqHolds, LeaseStepsHold,
   ExecutionHolds, LoadsHold, LoadCheckpointHolds, RecoverNextHolds
   DEF Progress

-----------------------------------------------------------------------------
(* Clients and the environment *)

\* A call begins with a state that fits.
LEMMA BeginHolds ==
    ASSUME SafeInv, CallsApart, SequentialInv, NEW t \in Tasks, NEW k \in TaskRecord, Begin(t, k),
           Working(k) => Fits(k, runs[k.run], checkpoint[k.run].messages, k.run \in dlq)
    PROVE  StepHolds
<1> DEFINE n == [k EXCEPT !.id = calls + 1]
<1>1. n.pc = k.pc /\ n.run = k.run /\ n.call = k.call /\ n.mem = k.mem /\ n.hist = k.hist
  BY DEF TaskRecord
<1>2. UNCHANGED <<runs, checkpoint, dlq>> /\ Become(t, n)
  BY DEF Begin, store
<1> HIDE DEF n
<1>3. Working(n) => Fits(n, runs[n.run], checkpoint[n.run].messages, n.run \in dlq)
  BY <1>1 DEF Working, Fits
<1> QED BY <1>2, <1>3, QuietHolds

\* The calls clients make.
LEMMA ClientCallHolds ==
    ASSUME SafeInv, CallsApart, SequentialInv, NEW t \in Tasks, ClientCall(t)
    PROVE  StepHolds
<1>1. ASSUME NEW r \in Runs, NEW c \in {"start", "resume"}, NEW p \in {"start", "create", "load"}
      PROVE  LET k == RunnerCall(t, r, c, p)
             IN  k \in TaskRecord /\ k.pc = p /\ k.call = c /\ k.run = r /\ k.hist = <<>>
  <2>1. WorkerOf[t] \in Workers \cup {NoWorker}
    BY ConstantsAssumption
  <2>2. Idle \in TaskRecord /\ Idle.hist = <<>>
    BY RecordTypes DEF Idle
  <2> QED BY <2>1, <2>2 DEF RunnerCall, TaskRecord, PCs
<1>2. ASSUME NEW r \in Runs, Start(t, r) \/ Create(t, r) \/ Resume(t, r)
      PROVE  StepHolds
  <2>1. PICK c \in {"start", "resume"}, p \in {"start", "create", "load"} :
          /\ Begin(t, RunnerCall(t, r, c, p))
          /\ p \in {"start", "create"} => runs[r].state = "absent"
          /\ p \in {"create", "load"} => c = "resume"
    BY <1>2 DEF Start, Create, Resume, Fresh, AbsentRun
  <2> DEFINE k == RunnerCall(t, r, c, p)
  <2>2. k \in TaskRecord /\ k.pc = p /\ k.call = c /\ k.run = r /\ k.hist = <<>>
    BY <1>1
  <2> HIDE DEF k
  <2>3. Fits(k, runs[k.run], checkpoint[k.run].messages, k.run \in dlq)
    BY <2>1, <2>2 DEF Fits, Preparing, Executing, Copying
  <2> QED BY <2>1, <2>2, <2>3, BeginHolds DEF k
<1>3. ASSUME NEW r \in Runs, Cancel(t, r)
      PROVE  StepHolds
  <2> DEFINE k == [Idle EXCEPT !.pc = "cancel", !.call = "cancel", !.run = r, !.mem = runs[r]]
  <2>1. runs[r] \in RunRecord /\ runs[r].state \in Live
    BY <1>3 DEF SafeInv, TypeOK, Cancel, is_terminal, SequentialInv, AbsentRuns, RunRecord,
                RunStates, Terminal, Live
  <2>2. k \in TaskRecord /\ k.pc = "cancel" /\ k.run = r /\ k.mem = runs[r]
    BY <2>1, RecordTypes DEF TaskRecord, PCs
  <2>3. Begin(t, k)
    BY <1>3 DEF Cancel
  <2> HIDE DEF k
  <2>4. Fits(k, runs[k.run], checkpoint[k.run].messages, k.run \in dlq)
    BY <2>1, <2>2 DEF Fits, Preparing, Executing, Copying
  <2> QED BY <2>2, <2>3, <2>4, BeginHolds
<1>4. ASSUME NEW r \in Runs, RetryFromDlq(t, r)
      PROVE  StepHolds
  <2> DEFINE k == [Idle EXCEPT !.pc = "dlq_load", !.call = "dlq", !.run = r]
  <2>1. k \in TaskRecord /\ k.pc = "dlq_load" /\ k.run = r
    BY RecordTypes DEF TaskRecord, PCs
  <2>2. Begin(t, k) /\ r \in dlq
    BY <1>4 DEF RetryFromDlq
  <2> HIDE DEF k
  <2>3. Fits(k, runs[k.run], checkpoint[k.run].messages, k.run \in dlq)
    BY <2>1, <2>2 DEF Fits, Preparing, Executing, Copying
  <2> QED BY <2>1, <2>2, <2>3, BeginHolds
<1>5. ASSUME ScanAndRecover(t)
      PROVE  StepHolds
  <2> DEFINE k == [Idle EXCEPT !.pc = "recover_next", !.call = "recover", !.todo = Expired]
  <2>1. Expired \subseteq Runs \X LeaseRecord
    BY DEF Expired, SafeInv, TypeOK
  <2>2. k \in TaskRecord /\ k.pc = "recover_next"
    BY <2>1, RecordTypes DEF TaskRecord, PCs
  <2>3. ~Working(k) /\ Begin(t, k)
    BY <1>5, <2>2 DEF ScanAndRecover, Working
  <2> HIDE DEF k
  <2> QED BY <2>2, <2>3, BeginHolds
<1> QED BY <1>2, <1>3, <1>4, <1>5 DEF ClientCall

\* A failing store operation.
LEMMA StorageErrorHolds ==
    ASSUME SafeInv, CallsApart, SequentialInv, NEW t \in Tasks, StorageError(t)
    PROVE  StepHolds
<1> DEFINE k == task[t]
<1>0. k \in TaskRecord
  BY TaskFacts
<1>u. UNCHANGED <<runs, checkpoint, dlq>> /\ Become(t, OnError(k))
  BY DEF StorageError, store
<1>1. \/ OnError(k) = Idle
      \/ \E p \in Free : OnError(k) = [k EXCEPT !.pc = p]
      \/ OnError(k) = [k EXCEPT !.pc = "fetch"] /\ Onward(k, "fetch")
      \/ OnError(k) = [k EXCEPT !.pc = "complete"] /\ Onward(k, "complete")
      \/ \E e \in Errors : OnError(k) = [k EXCEPT !.pc = "fail", !.err = e] /\ Onward(k, "fail")
  BY DEF OnError, Free, Onward, Preparing, Executing, Errors
<1>2. CASE OnError(k) = Idle \/ \E p \in Free : OnError(k) = [k EXCEPT !.pc = p]
  BY <1>u, <1>2, RestHolds DEF Goto, Return
<1>3. CASE OnError(k) = [k EXCEPT !.pc = "fetch"] /\ Onward(k, "fetch")
  BY <1>u, <1>3, GotoHolds DEF Goto
<1>4. CASE OnError(k) = [k EXCEPT !.pc = "complete"] /\ Onward(k, "complete")
  BY <1>u, <1>4, GotoHolds DEF Goto
<1>5. ASSUME NEW e \in Errors, OnError(k) = [k EXCEPT !.pc = "fail", !.err = e], Onward(k, "fail")
      PROVE  StepHolds
  BY <1>u, <1>5, LearnHolds
<1> QED BY <1>1, <1>2, <1>3, <1>4, <1>5

\* The clock, a crash, and steps that change nothing.
LEMMA EnvironmentHolds ==
    ASSUME SafeInv, SequentialInv, Tick \/ Restart \/ UNCHANGED vars
    PROVE  StepHolds
<1>u. UNCHANGED <<runs, checkpoint, dlq>>
  BY DEF Tick, Restart, vars, store
<1>1. TasksFit'
  <2>1. CASE UNCHANGED task
    BY <1>u, <2>1 DEF SequentialInv, TasksFit, Run
  <2>2. CASE task' = [t \in Tasks |-> Idle]
    BY <2>2, IdleRests DEF TasksFit
  <2> QED BY <2>1, <2>2 DEF Tick, Restart, vars
<1>2. AbsentRuns'
  BY <1>u DEF SequentialInv, AbsentRuns
<1>3. UNCHANGED Lifecycle!vars
  BY <1>u DEF Lifecycle!vars
<1>4. RoundsKept
  BY <1>u DEF RoundsKept, IsPrefixOf, SafeInv, TypeOK, CheckpointRecord
<1> QED BY <1>1, <1>2, <1>3, <1>4 DEF StepHolds, SequentialInv, Simulates

\* Every step.
LEMMA NextHolds == SafeInv /\ CallsApart /\ SequentialInv /\ [Next]_vars => StepHolds
<1> SUFFICES ASSUME SafeInv, CallsApart, SequentialInv, [Next]_vars PROVE StepHolds
  OBVIOUS
<1>1. ASSUME NEW t \in Tasks, ClientCall(t) \/ Progress(t) \/ StorageError(t)
      PROVE  StepHolds
  BY <1>1, ClientCallHolds, ProgressHolds, StorageErrorHolds
<1>2. CASE Tick \/ Restart \/ UNCHANGED vars
  BY <1>2, EnvironmentHolds
<1> QED BY <1>1, <1>2 DEF Next, Quiescent

\* The initial states.
LEMMA InitSequential == Init => SequentialInv /\ Lifecycle!Init
<1> SUFFICES ASSUME Init PROVE SequentialInv /\ Lifecycle!Init
  OBVIOUS
<1>1. TasksFit
  BY IdleRests DEF Init, TasksFit
<1>2. AbsentRuns
  BY DEF Init, AbsentRuns
<1>3. Lifecycle!Init
  BY DEF Init, Lifecycle!Init, AbsentRun
<1> QED BY <1>1, <1>2, <1>3 DEF SequentialInv

\* While the calls on one run do not overlap, copies stay equal to what is stored.
THEOREM Sequential == Spec /\ []CallsApart => []SequentialInv
<1>1. SafeInv /\ CallsApart /\ SequentialInv /\ [Next]_vars => SequentialInv'
  BY NextHolds DEF StepHolds
<1> QED BY <1>1, InitSequential, Safety, PTL DEF Spec

\* The runtime implements RunLifecycle as long as the calls on one run do not
\* overlap, whatever crashes and store faults happen and however many calls on
\* other runs are in progress: every step of start, resume, cancel, recovery
\* and retry_from_dlq is a step of the abstract run or changes nothing of it.
THEOREM Refines == Spec /\ []CallsApart => ImplementsLifecycle
<1>1. SafeInv /\ CallsApart /\ SequentialInv /\ [Next]_vars => [Lifecycle!Next]_(Lifecycle!vars)
  BY NextHolds DEF StepHolds, Simulates
<1>2. Init => Lifecycle!Init
  BY InitSequential
<1> QED BY <1>1, <1>2, Safety, Sequential, PTL DEF Spec, ImplementsLifecycle, Lifecycle!Spec

\* Rounds that a checkpoint has recorded are never lost again while the calls
\* on one run do not overlap: resume continues from the stored messages.
THEOREM RoundsSurvive == Spec /\ []CallsApart => CheckpointGrows
<1>1. SafeInv /\ CallsApart /\ SequentialInv /\ [Next]_vars
      => [\A r \in Runs : IsPrefixOf(checkpoint[r].messages, checkpoint'[r].messages)]_vars
  BY NextHolds DEF StepHolds, RoundsKept
<1> QED BY <1>1, Safety, Sequential, PTL DEF Spec, CheckpointGrows

\* A completed or cancelled run that is no dead letter keeps its outcome while
\* the calls on one run do not overlap: no step of the abstract run leaves it.
THEOREM OutcomeKept == Spec /\ []CallsApart => OutcomeIsFinal
<1>1. ASSUME SafeInv, [Lifecycle!Next]_(Lifecycle!vars), NEW r \in Runs,
             runs[r].state \in {"completed", "cancelled"}, r \notin dlq
      PROVE  runs'[r].state = runs[r].state
  <2> DEFINE state == [q \in Runs |-> runs[q].state]
  <2>1. state'[r] = state[r]
    <3>1. CASE UNCHANGED Lifecycle!vars
      BY <3>1 DEF Lifecycle!vars
    <3>2. ASSUME NEW q \in Runs,
                 \/ Lifecycle!Create(q) \/ Lifecycle!Start(q) \/ Lifecycle!Execute(q)
                 \/ Lifecycle!Complete(q) \/ Lifecycle!Fail(q) \/ Lifecycle!Suspend(q)
                 \/ Lifecycle!Requeue(q) \/ Lifecycle!Cancel(q) \/ Lifecycle!Bury(q)
                 \/ Lifecycle!GiveUp(q) \/ Lifecycle!Revive(q) \/ Lifecycle!Unbury(q)
          PROVE  state'[r] = state[r]
      <4>1. \/ state' = state
            \/ \E s : state' = [state EXCEPT ![q] = s] /\ q # r
        BY <1>1, <3>2 DEF Lifecycle!Create, Lifecycle!Start, Lifecycle!Execute,
           Lifecycle!Complete, Lifecycle!Fail, Lifecycle!Suspend, Lifecycle!Requeue,
           Lifecycle!Cancel, Lifecycle!Bury, Lifecycle!GiveUp, Lifecycle!Revive,
           Lifecycle!Unbury, Lifecycle!Becomes, Lifecycle!Live
      <4> QED BY <4>1
    <3> QED BY <1>1, <3>1, <3>2 DEF Lifecycle!Next
  <2> QED BY <2>1
<1>2. SafeInv /\ [Lifecycle!Next]_(Lifecycle!vars) =>
        [\A r \in Runs : runs[r].state \in {"completed", "cancelled"} /\ r \notin dlq =>
            runs'[r].state = runs[r].state]_vars
  BY <1>1
<1>3. SafeInv /\ CallsApart /\ SequentialInv /\ [Next]_vars => [Lifecycle!Next]_(Lifecycle!vars)
  BY NextHolds DEF StepHolds, Simulates
<1> QED BY <1>2, <1>3, Safety, Sequential, PTL DEF Spec, OutcomeIsFinal

-----------------------------------------------------------------------------
(* The response of a completed run is durable while the calls on one run do
   not overlap: the execution journals it under the number it then counts,
   checkpoints it and only then records completion, and no other call writes
   to the run in between. *)

\* Program points after the response is journaled, and after it is checkpointed.
Journaled    == {"checkpoint", "keep", "keep_put", "complete"}
Checkpointed == {"keep", "keep_put", "complete"}

EndsWith(m, x) == m # <<>> /\ m[Len(m)] = x

\* What a task knows of its response: the entry under the last number it has
\* counted is its own, and so is the last message of the checkpoint.
Responded(k, j, c) ==
    /\ k.pc \in Journaled => j[k.run][k.mem.nextSeq - 1] = k.id
    /\ k.pc \in Checkpointed => EndsWith(c[k.run].messages, k.id)

\* What the record rec of run r promises.
Delivers(rec, r, j, c) ==
    rec.state = "completed" => /\ j[r][rec.nextSeq - 1] = rec.output
                               /\ EndsWith(c[r].messages, rec.output)

\* The inductive invariant behind CompletedIsDurable.
ResponseInv ==
    /\ \A t \in Tasks : Responded(task[t], journal, checkpoint)
    /\ \A r \in Runs : Delivers(runs[r], r, journal, checkpoint)

\* Task t moves and what it writes belongs to the run it works on.
LEMMA ResponseStep ==
    ASSUME SafeInv, CallsApart, ResponseInv, NEW t \in Tasks, NEW n, Become(t, n),
           \A r \in Runs : \/ r = Run(t) /\ Working(task[t])
                           \/ /\ runs'[r] = runs[r] /\ journal'[r] = journal[r]
                              /\ checkpoint'[r] = checkpoint[r],
           Responded(n, journal', checkpoint'),
           Working(task[t]) => Delivers(runs'[Run(t)], Run(t), journal', checkpoint')
    PROVE  ResponseInv'
<1>1. ASSUME NEW u \in Tasks PROVE Responded(task'[u], journal', checkpoint')
  <2>1. CASE u = t
    BY <2>1 DEF Become, SafeInv, TypeOK
  <2>2. CASE u # t
    <3>1. task'[u] = task[u] /\ Responded(task[u], journal, checkpoint)
      BY <2>2 DEF Become, SafeInv, TypeOK, ResponseInv
    <3>2. CASE ~Working(task[u])
      BY <3>1, <3>2 DEF Responded, Working, Journaled, Checkpointed
    <3>3. CASE Working(task[u])
      <4>1. Run(u) \in Runs
        BY <3>3, TaskFacts DEF Working, GoodTask, Run
      <4>2. journal'[Run(u)] = journal[Run(u)] /\ checkpoint'[Run(u)] = checkpoint[Run(u)]
        BY <2>2, <3>3, <4>1 DEF CallsApart
      <4> QED BY <3>1, <4>2 DEF Responded, Run
    <3> QED BY <3>2, <3>3
  <2> QED BY <2>1, <2>2
<1>2. ASSUME NEW r \in Runs PROVE Delivers(runs'[r], r, journal', checkpoint')
  <2>1. CASE r = Run(t) /\ Working(task[t])
    BY <2>1
  <2>2. CASE /\ runs'[r] = runs[r] /\ journal'[r] = journal[r]
             /\ checkpoint'[r] = checkpoint[r]
    BY <2>2 DEF ResponseInv, Delivers
  <2> QED BY <2>1, <2>2
<1> QED BY <1>1, <1>2 DEF ResponseInv

\* A step that writes none of the three and either has no response or carries
\* it on.
LEMMA QuietResponse ==
    ASSUME SafeInv, CallsApart, ResponseInv, NEW t \in Tasks, NEW n, Become(t, n),
           UNCHANGED <<runs, journal, checkpoint>>,
           \/ n.pc \notin Journaled
           \/ /\ task[t].pc \in Checkpointed
              /\ n.run = task[t].run /\ n.id = task[t].id /\ n.mem = task[t].mem
    PROVE  ResponseInv'
<1>1. Responded(n, journal', checkpoint')
  BY DEF ResponseInv, Responded, Journaled, Checkpointed
<1>2. Working(task[t]) => Delivers(runs'[Run(t)], Run(t), journal', checkpoint')
  <2> SUFFICES ASSUME Working(task[t]) PROVE Delivers(runs[Run(t)], Run(t), journal, checkpoint)
    BY DEF Delivers
  <2>1. Run(t) \in Runs
    BY TaskFacts DEF Working, GoodTask, Run
  <2> QED BY <2>1 DEF ResponseInv
<1> QED BY <1>1, <1>2, ResponseStep

\* A task without a response stores a record that is not completed, or one with
\* a response completes the run.
LEMMA SaveResponse ==
    ASSUME SafeInv, CallsApart, ResponseInv, NEW t \in Tasks, NEW rec, NEW next,
           Working(task[t]), save_run(t, rec, next), next \notin Journaled,
           \/ rec.state # "completed"
           \/ /\ task[t].pc = "complete"
              /\ rec.output = task[t].id /\ rec.nextSeq = task[t].mem.nextSeq
    PROVE  ResponseInv'
<1> DEFINE k == task[t]
<1>0. k \in TaskRecord /\ Run(t) \in Runs
  BY TaskFacts DEF Working, GoodTask, Run
<1>1. /\ runs'[Run(t)] = rec
      /\ \A r \in Runs : r # Run(t) => runs'[r] = runs[r]
      /\ UNCHANGED <<journal, checkpoint>>
  BY <1>0 DEF save_run, SafeInv, TypeOK
<1>2. Delivers(rec, Run(t), journal', checkpoint')
  <2>1. CASE rec.state # "completed"
    BY <2>1 DEF Delivers
  <2>2. CASE rec.state = "completed"
    <3>1. Responded(k, journal, checkpoint)
      BY DEF ResponseInv
    <3> QED BY <1>1, <2>2, <3>1 DEF Responded, Delivers, Journaled, Checkpointed, Run
  <2> QED BY <2>1, <2>2
<1>3. PICK n : Become(t, n) /\ n.pc \notin Journaled
  <2>1. CASE Become(t, Idle)
    BY <2>1 DEF Idle, Journaled
  <2>2. CASE Become(t, [k EXCEPT !.pc = next, !.mem = rec])
    <3>1. [k EXCEPT !.pc = next, !.mem = rec].pc = next
      BY <1>0 DEF TaskRecord
    <3> QED BY <2>2, <3>1
  <2> QED BY <2>1, <2>2 DEF save_run, Return
<1>4. Responded(n, journal', checkpoint')
  BY <1>3 DEF Responded, Journaled, Checkpointed
<1> QED BY <1>1, <1>2, <1>3, <1>4, ResponseStep

\* The steps that store a record.
LEMMA SavesResponse ==
    ASSUME SafeInv, CallsApart, SequentialInv, ResponseInv, NEW t \in Tasks,
           \/ StartSaveRun(t) \/ CreateSaveRun(t) \/ SaveRunning(t)
           \/ SaveCompleted(t) \/ HandleFailure(t) \/ CancelSave(t)
           \/ Requeue(t) \/ MarkFailed(t) \/ DlqSave(t)
    PROVE  ResponseInv'
<1> DEFINE k == task[t]
<1>0. k \in TaskRecord /\ Working(k) /\ k.mem \in RunRecord
  BY TaskFacts DEF StartSaveRun, CreateSaveRun, SaveRunning, SaveCompleted, HandleFailure,
                   CancelSave, Requeue, MarkFailed, DlqSave, At, Working, TaskRecord
<1>1. CASE SaveCompleted(t)
  <2> DEFINE rec == [k.mem EXCEPT !.state = "completed", !.output = k.id]
  <2>1. rec.output = k.id /\ rec.nextSeq = k.mem.nextSeq
    BY <1>0 DEF RunRecord
  <2>2. k.pc = "complete" /\ save_run(t, rec, "release")
    BY <1>1 DEF SaveCompleted, At
  <2> HIDE DEF rec
  <2> QED BY <1>0, <2>1, <2>2, SaveResponse DEF Journaled
<1>2. ASSUME NEW rec, NEW next, save_run(t, rec, next), rec.state # "completed",
             next \in {"acquire", "create_checkpoint", "validate", "release", "cancel_lease",
                       "recover_next", "dlq_remove"}
      PROVE  ResponseInv'
  BY <1>0, <1>2, SaveResponse DEF Journaled
<1>3. CASE StartSaveRun(t)
  <2> DEFINE rec == [NewRun EXCEPT !.state = "running", !.worker = k.wid, !.attempt = 1]
  <2>1. rec.state # "completed" /\ save_run(t, rec, "acquire")
    BY <1>3 DEF NewRun, AbsentRun, StartSaveRun
  <2> HIDE DEF rec
  <2> QED BY <1>2, <2>1
<1>4. CASE CreateSaveRun(t)
  <2>1. NewRun.state # "completed" /\ save_run(t, NewRun, "create_checkpoint")
    BY <1>4 DEF CreateSaveRun, NewRun, AbsentRun
  <2> QED BY <1>2, <2>1
<1>5. CASE SaveRunning(t)
  <2> DEFINE rec == [k.mem EXCEPT !.state = "running", !.worker = k.wid, !.attempt = @ + 1]
  <2>1. rec.state # "completed" /\ save_run(t, rec, "validate")
    BY <1>0, <1>5 DEF RunRecord, SaveRunning
  <2> HIDE DEF rec
  <2> QED BY <1>2, <2>1
<1>6. CASE HandleFailure(t) \/ CancelSave(t) \/ MarkFailed(t)
  <2>1. PICK s \in {"suspended", "failed", "cancelled"},
             next \in {"release", "cancel_lease", "recover_next"} :
                save_run(t, [k.mem EXCEPT !.state = s], next)
    BY <1>6 DEF HandleFailure, CancelSave, MarkFailed
  <2>2. [k.mem EXCEPT !.state = s].state # "completed"
    BY <1>0 DEF RunRecord
  <2> QED BY <1>2, <2>1, <2>2
<1>7. CASE Requeue(t)
  <2> DEFINE rec == [k.mem EXCEPT !.state = "pending", !.worker = NoWorker]
  <2>1. rec.state # "completed" /\ save_run(t, rec, "recover_next")
    BY <1>0, <1>7 DEF RunRecord, Requeue
  <2> HIDE DEF rec
  <2> QED BY <1>2, <2>1
<1>8. CASE DlqSave(t)
  <2> DEFINE rec == [k.mem EXCEPT !.state = "pending", !.worker = NoWorker, !.output = 0]
  <2>1. rec.state # "completed" /\ save_run(t, rec, "dlq_remove")
    BY <1>0, <1>8 DEF RunRecord, DlqSave
  <2> HIDE DEF rec
  <2> QED BY <1>2, <2>1
<1> QED BY <1>1, <1>3, <1>4, <1>5, <1>6, <1>7, <1>8

\* The response is journaled under the number the task counts with it.
LEMMA JournalAppendResponse ==
    ASSUME SafeInv, CallsApart, SequentialInv, ResponseInv, NEW t \in Tasks, JournalAppend(t)
    PROVE  ResponseInv'
<1> DEFINE k == task[t]
           n == [k EXCEPT !.pc = "checkpoint", !.mem.nextSeq = @ + 1]
<1>0. k \in TaskRecord /\ Working(k) /\ k.pc = "append" /\ k.mem.nextSeq \in Nat
  BY TaskFacts DEF JournalAppend, At, Working, TaskRecord, RunRecord
<1>1. /\ Run(t) \in Runs
      /\ Fits(k, runs[Run(t)], checkpoint[Run(t)].messages, Run(t) \in dlq)
  BY <1>0, WorkingFacts DEF SequentialInv
<1>2. /\ journal' = [journal EXCEPT ![Run(t)] = Put(@, k.mem.nextSeq, k.id)]
      /\ Become(t, n) /\ UNCHANGED <<runs, checkpoint>>
  BY DEF JournalAppend
<1>3. /\ \A r \in Runs : r # Run(t) => journal'[r] = journal[r]
      /\ journal'[Run(t)] = Put(journal[Run(t)], k.mem.nextSeq, k.id)
  BY <1>1, <1>2 DEF SafeInv, TypeOK
<1>4. journal'[Run(t)][k.mem.nextSeq] = k.id
  BY <1>3 DEF Put
<1>5. n.pc = "checkpoint" /\ n.run = Run(t) /\ n.id = k.id /\ n.mem.nextSeq - 1 = k.mem.nextSeq
  BY <1>0 DEF TaskRecord, RunRecord, Run
<1> HIDE DEF n
<1>6. Responded(n, journal', checkpoint')
  BY <1>4, <1>5 DEF Responded, Journaled, Checkpointed
<1>7. Delivers(runs'[Run(t)], Run(t), journal', checkpoint')
  BY <1>0, <1>1, <1>2 DEF Delivers, Fits, Executing
<1> QED BY <1>0, <1>2, <1>3, <1>6, <1>7, ResponseStep

\* The checkpoint of an execution ends with its response; the empty one of
\* create belongs to a pending run.
LEMMA CheckpointResponse ==
    ASSUME SafeInv, CallsApart, SequentialInv, ResponseInv, NEW t \in Tasks,
           CreateSaveCheckpoint(t) \/ SaveCheckpoint(t)
    PROVE  ResponseInv'
<1> DEFINE k == task[t]
<1>0. k \in TaskRecord /\ Working(k) /\ k.pc \in {"create_checkpoint", "checkpoint"}
      /\ k.hist \in Seq(Nat) /\ k.id \in Nat
  BY TaskFacts DEF CreateSaveCheckpoint, SaveCheckpoint, At, Working, TaskRecord
<1>1. /\ Run(t) \in Runs
      /\ Fits(k, runs[Run(t)], checkpoint[Run(t)].messages, Run(t) \in dlq)
  BY <1>0, WorkingFacts DEF SequentialInv
<1>2. /\ \A r \in Runs : r # Run(t) => checkpoint'[r] = checkpoint[r]
      /\ UNCHANGED <<runs, journal>>
      /\ \/ k.pc = "create_checkpoint" /\ Goto(t, "load")
         \/ /\ k.pc = "checkpoint" /\ Goto(t, "keep")
            /\ checkpoint'[Run(t)].messages = Append(k.hist, k.id)
  BY <1>1 DEF CreateSaveCheckpoint, SaveCheckpoint, At, SafeInv, TypeOK
<1>3. PICK p \in {"load", "keep"} : Goto(t, p) /\ (p = "keep" <=> k.pc = "checkpoint")
  BY <1>2
<1> DEFINE n == [k EXCEPT !.pc = p]
<1>4. n.pc = p /\ n.run = Run(t) /\ n.id = k.id /\ n.mem = k.mem
  BY <1>0 DEF TaskRecord, Run
<1>5. Become(t, n)
  BY <1>3 DEF Goto
<1> HIDE DEF n
<1>6. Responded(n, journal', checkpoint')
  <2>1. CASE p = "load"
    BY <1>4, <2>1 DEF Responded, Journaled, Checkpointed
  <2>2. CASE p = "keep"
    <3>1. k.pc = "checkpoint" /\ checkpoint'[n.run].messages = Append(k.hist, k.id)
      BY <1>2, <1>3, <1>4, <2>2
    <3>2. EndsWith(Append(k.hist, k.id), k.id)
      BY <1>0 DEF EndsWith
    <3>3. journal[k.run][k.mem.nextSeq - 1] = k.id
      BY <3>1 DEF ResponseInv, Responded, Journaled
    <3> QED BY <1>2, <1>4, <3>1, <3>2, <3>3 DEF Responded, Run
  <2> QED BY <2>1, <2>2
<1>7. Delivers(runs'[Run(t)], Run(t), journal', checkpoint')
  BY <1>0, <1>1, <1>2 DEF Delivers, Fits, Executing
<1> QED BY <1>0, <1>2, <1>5, <1>6, <1>7, ResponseStep

\* Every other step of a call leaves the three stores alone and gets no response.
LEMMA OtherStepsResponse ==
    ASSUME SafeInv, CallsApart, ResponseInv, NEW t \in Tasks,
           \/ LoadRun(t) \/ LoadCheckpoint(t) \/ AcquireGet(t) \/ FetchFence(t) \/ Grant(t)
           \/ RenewGet(t) \/ RenewPut(t) \/ ValidateFence(t) \/ ExecuteRun(t)
           \/ KeepGet(t) \/ KeepPut(t) \/ ReleaseGet(t) \/ ReleaseDelete(t)
           \/ CancelLease(t) \/ RecoverNext(t) \/ RecoverRelease(t) \/ RecoverDelete(t)
           \/ RecoverLoad(t) \/ EnqueueDeadLetter(t) \/ DlqLoad(t) \/ DlqRemove(t)
    PROVE  ResponseInv'
<1> DEFINE k == task[t]
<1>0. k \in TaskRecord
  BY TaskFacts
<1>u. UNCHANGED <<runs, journal, checkpoint>>
  BY DEF LoadRun, LoadCheckpoint, AcquireGet, FetchFence, Grant, RenewGet, RenewPut,
         ValidateFence, ExecuteRun, KeepGet, KeepPut, ReleaseGet, ReleaseDelete, CancelLease,
         RecoverNext, RecoverRelease, RecoverDelete, RecoverLoad, EnqueueDeadLetter, DlqLoad,
         DlqRemove, Local, store, PutLease, DeleteLease
<1>1. CASE Return(t)
  BY <1>u, <1>1, QuietResponse DEF Return, Idle, Journaled
<1>2. ASSUME NEW p, Goto(t, p), p \notin Journaled \/ k.pc \in Checkpointed
      PROVE  ResponseInv'
  <2> DEFINE n == [k EXCEPT !.pc = p]
  <2>1. n.pc = p /\ n.run = k.run /\ n.id = k.id /\ n.mem = k.mem
    BY <1>0 DEF TaskRecord
  <2>2. Become(t, n)
    BY <1>2 DEF Goto
  <2> HIDE DEF n
  <2> QED BY <1>u, <1>2, <2>1, <2>2, QuietResponse
<1>3. ASSUME NEW p, p \notin Journaled, NEW v,
             \/ Become(t, [k EXCEPT !.pc = p, !.token = v])
             \/ Become(t, [k EXCEPT !.pc = p, !.err = v])
             \/ Become(t, [k EXCEPT !.pc = p, !.hist = v])
             \/ Become(t, [k EXCEPT !.pc = p, !.mem = v])
      PROVE  ResponseInv'
  <2> PICK n : /\ Become(t, n)
               /\ \/ n = [k EXCEPT !.pc = p, !.token = v] \/ n = [k EXCEPT !.pc = p, !.err = v]
                  \/ n = [k EXCEPT !.pc = p, !.hist = v] \/ n = [k EXCEPT !.pc = p, !.mem = v]
    BY <1>3
  <2>1. n.pc = p
    BY <1>0 DEF TaskRecord
  <2> QED BY <1>u, <1>3, <2>1, QuietResponse
<1> USE DEF Journaled, Checkpointed
<1>4. CASE LoadRun(t) \/ DlqLoad(t) \/ LoadCheckpoint(t)
  BY <1>1, <1>3, <1>4 DEF LoadRun, DlqLoad, LoadCheckpoint
<1>5. CASE AcquireGet(t) \/ FetchFence(t) \/ RenewGet(t)
  BY <1>1, <1>2, <1>3, <1>5 DEF AcquireGet, FetchFence, RenewGet
<1>6. CASE Grant(t) \/ RenewPut(t)
  BY <1>2, <1>6 DEF Grant, RenewPut, PutLease, Acquired
<1>7. CASE ValidateFence(t) \/ ExecuteRun(t)
  BY <1>2, <1>3, <1>7 DEF ValidateFence, ExecuteRun
<1>8. CASE KeepGet(t) \/ KeepPut(t)
  BY <1>2, <1>8 DEF KeepGet, KeepPut, PutLease, At
<1>9. CASE ReleaseGet(t) \/ ReleaseDelete(t) \/ RecoverRelease(t) \/ RecoverDelete(t)
  BY <1>1, <1>2, <1>9 DEF ReleaseGet, ReleaseDelete, RecoverRelease, RecoverDelete
<1>10. CASE CancelLease(t)
  <2>1. CASE Become(t, [k EXCEPT !.pc = "release", !.wid = k.mem.worker, !.token = Lease(t).fence])
    <3>1. [k EXCEPT !.pc = "release", !.wid = k.mem.worker, !.token = Lease(t).fence].pc = "release"
      BY <1>0 DEF TaskRecord
    <3> QED BY <1>u, <2>1, <3>1, QuietResponse
  <2> QED BY <1>1, <1>10, <2>1 DEF CancelLease
<1>11. CASE RecoverNext(t)
  <2>1. ASSUME NEW p \in k.todo,
               Become(t, [k EXCEPT !.pc = "recover_release", !.todo = @ \ {p}, !.run = p[1],
                                   !.wid = p[2].worker, !.token = p[2].fence, !.mem = AbsentRun])
        PROVE  ResponseInv'
    <3> PICK n : Become(t, n) /\ n = [k EXCEPT !.pc = "recover_release", !.todo = @ \ {p},
                    !.run = p[1], !.wid = p[2].worker, !.token = p[2].fence, !.mem = AbsentRun]
      BY <2>1
    <3>1. n.pc = "recover_release"
      BY <1>0 DEF TaskRecord
    <3> QED BY <1>u, <3>1, QuietResponse
  <2> QED BY <1>1, <1>11, <2>1 DEF RecoverNext
<1>12. CASE RecoverLoad(t)
  BY <1>3, <1>12 DEF RecoverLoad
<1>13. CASE EnqueueDeadLetter(t) \/ DlqRemove(t)
  BY <1>1, <1>2, <1>13 DEF EnqueueDeadLetter, DlqRemove
<1> QED BY <1>4, <1>5, <1>6, <1>7, <1>8, <1>9, <1>10, <1>11, <1>12, <1>13

\* A failing store operation: the response survives a failing renewal, and is
\* given up when it cannot be journaled or checkpointed.
LEMMA StorageErrorResponse ==
    ASSUME SafeInv, CallsApart, ResponseInv, NEW t \in Tasks, StorageError(t)
    PROVE  ResponseInv'
<1> DEFINE k == task[t]
<1>0. k \in TaskRecord
  BY TaskFacts
<1>u. UNCHANGED <<runs, journal, checkpoint>> /\ Become(t, OnError(k))
  BY DEF StorageError, store
<1> PICK n : n = OnError(k)
  OBVIOUS
<1>1. \/ n.pc \notin Journaled
      \/ k.pc \in Checkpointed /\ n = [k EXCEPT !.pc = "complete"]
  BY <1>0 DEF OnError, Journaled, Checkpointed, Idle, TaskRecord
<1>2. n = [k EXCEPT !.pc = "complete"] => n.run = k.run /\ n.id = k.id /\ n.mem = k.mem
  BY <1>0 DEF TaskRecord
<1> QED BY <1>u, <1>1, <1>2, QuietResponse

\* A new call has no response.
LEMMA ClientCallResponse ==
    ASSUME SafeInv, CallsApart, ResponseInv, NEW t \in Tasks, ClientCall(t)
    PROVE  ResponseInv'
<1>u. UNCHANGED <<runs, journal, checkpoint>>
  BY DEF ClientCall, Start, Create, Resume, Cancel, RetryFromDlq, ScanAndRecover, Begin, store
<1>1. ASSUME NEW k, Begin(t, k), DOMAIN k = DOMAIN Idle, k.pc \notin Journaled
      PROVE  ResponseInv'
  <2>1. PICK n : Become(t, n) /\ n = [k EXCEPT !.id = calls + 1]
    BY <1>1 DEF Begin
  <2>2. n.pc \notin Journaled
    BY <1>1, <2>1 DEF Idle
  <2> QED BY <1>u, <2>1, <2>2, QuietResponse
<1> USE DEF Journaled
<1>2. ASSUME NEW r \in Runs, Start(t, r) \/ Create(t, r) \/ Resume(t, r) PROVE ResponseInv'
  <2>1. PICK c \in {"start", "resume"}, p \in {"start", "create", "load"} :
            Begin(t, RunnerCall(t, r, c, p))
    BY <1>2 DEF Start, Create, Resume
  <2>2. DOMAIN RunnerCall(t, r, c, p) = DOMAIN Idle /\ RunnerCall(t, r, c, p).pc = p
    BY DEF RunnerCall, Idle
  <2> QED BY <1>1, <2>1, <2>2
<1>3. ASSUME NEW r \in Runs, Cancel(t, r) PROVE ResponseInv'
  <2> DEFINE k == [Idle EXCEPT !.pc = "cancel", !.call = "cancel", !.run = r, !.mem = runs[r]]
  <2>1. DOMAIN k = DOMAIN Idle /\ k.pc = "cancel"
    BY DEF Idle
  <2>2. Begin(t, k)
    BY <1>3 DEF Cancel
  <2> HIDE DEF k
  <2> QED BY <1>1, <2>1, <2>2
<1>4. ASSUME NEW r \in Runs, RetryFromDlq(t, r) PROVE ResponseInv'
  <2> DEFINE k == [Idle EXCEPT !.pc = "dlq_load", !.call = "dlq", !.run = r]
  <2>1. DOMAIN k = DOMAIN Idle /\ k.pc = "dlq_load"
    BY DEF Idle
  <2>2. Begin(t, k)
    BY <1>4 DEF RetryFromDlq
  <2> HIDE DEF k
  <2> QED BY <1>1, <2>1, <2>2
<1>5. CASE ScanAndRecover(t)
  <2> DEFINE k == [Idle EXCEPT !.pc = "recover_next", !.call = "recover", !.todo = Expired]
  <2>1. DOMAIN k = DOMAIN Idle /\ k.pc = "recover_next"
    BY DEF Idle
  <2>2. Begin(t, k)
    BY <1>5 DEF ScanAndRecover
  <2> HIDE DEF k
  <2> QED BY <1>1, <2>1, <2>2
<1> QED BY <1>2, <1>3, <1>4, <1>5 DEF ClientCall

\* Every step.
LEMMA NextResponse ==
    SafeInv /\ CallsApart /\ SequentialInv /\ ResponseInv /\ [Next]_vars => ResponseInv'
<1> SUFFICES ASSUME SafeInv, CallsApart, SequentialInv, ResponseInv, [Next]_vars
             PROVE  ResponseInv'
  OBVIOUS
<1>1. ASSUME NEW t \in Tasks, Progress(t) PROVE ResponseInv'
  BY <1>1, SavesResponse, JournalAppendResponse, CheckpointResponse, OtherStepsResponse
     DEF Progress
<1>2. ASSUME NEW t \in Tasks, ClientCall(t) \/ StorageError(t) PROVE ResponseInv'
  BY <1>2, ClientCallResponse, StorageErrorResponse
<1>3. CASE Tick \/ UNCHANGED vars
  BY <1>3 DEF Tick, vars, store, ResponseInv
<1>4. CASE Restart
  <2>1. \A t \in Tasks : task'[t].pc = "idle"
    BY <1>4 DEF Restart, Idle
  <2>2. UNCHANGED <<runs, journal, checkpoint>>
    BY <1>4 DEF Restart, store
  <2> QED BY <2>1, <2>2 DEF ResponseInv, Responded, Journaled, Checkpointed
<1> QED BY <1>1, <1>2, <1>3, <1>4 DEF Next, Quiescent

\* The response a run completed with is the newest journal entry its record
\* counts and the last message of its checkpoint, wherever the process died and
\* whichever store operation failed, as long as the calls on one run do not
\* overlap: execute_with_durability journals and checkpoints the response before
\* save_run records it as the output.
THEOREM CompletionSafe == Spec /\ []CallsApart => []CompletedIsDurable
<1>1. Init => ResponseInv
  BY DEF Init, ResponseInv, Responded, Delivers, Journaled, Checkpointed, Idle, AbsentRun
<1>2. SafeInv /\ ResponseInv => CompletedIsDurable
  <2> SUFFICES ASSUME SafeInv, ResponseInv, NEW r \in Runs, runs[r].state = "completed"
               PROVE  /\ runs[r].nextSeq > 0
                      /\ runs[r].nextSeq - 1 \in DOMAIN journal[r]
                      /\ journal[r][runs[r].nextSeq - 1] = runs[r].output
                      /\ EndsWith(checkpoint[r].messages, runs[r].output)
    BY DEF CompletedIsDurable, EndsWith
  <2>1. runs[r].nextSeq \in Nat /\ runs[r].nextSeq > 0
    BY DEF SafeInv, TypeOK, RunRecord, CompletedHasCheckpoint
  <2>2. runs[r].nextSeq - 1 \in 0 .. (runs[r].nextSeq - 1)
    BY <2>1
  <2> QED BY <2>1, <2>2 DEF SafeInv, JournalCovers, ResponseInv, Delivers
<1> QED BY <1>1, <1>2, NextResponse, Safety, Sequential, PTL DEF Spec

-----------------------------------------------------------------------------
(* Interrupted runs keep their lease, on a store that does not fail.  A lease
   is deleted only after the run's outcome is stored, or by a recovery that
   finds it valid; a recovery meets a run that is recorded as running only
   when its lease is stale. *)

\* Program points at which start and resume have stored their lease, and those
\* of a recovery.
Leased     == {"load_checkpoint", "save_running"} \cup Executing
Recovering == {"recover_next", "recover_release", "recover_delete", "recover_load",
               "requeue", "enqueue", "mark_failed"}

\* If r is recorded as running, its lease is of no use to anyone.
Stale(r) == runs[r].state = "running" => ~is_valid(lease[r])

\* What a task's local state k says of the lease of its run.
LeaseKept(k) ==
    /\ k.pc \in Leased => lease[k.run] # NoLease
    /\ k.pc \in {"release", "release_delete", "cancel_lease"} => runs[k.run].state # "running"
    /\ k.pc = "recover_release" => Stale(k.run)
    /\ k.pc = "recover_delete" /\ runs[k.run].state = "running" => lease[k.run] = NoLease
    /\ k.todo # {} => k.pc \in Recovering

\* A lease that a recovery scan has in hand is stale or in new hands.
ScansStale ==
    \A t \in Tasks : \A p \in task[t].todo :
        Stale(p[1]) \/ \E u \in Tasks : Run(u) = p[1] /\ task[u].pc \in Leased

\* InterruptedRunHasLease, at every moment and not only between calls.
RunningHasLease ==
    \A r \in Runs : runs[r].state = "running" /\ checkpoint[r].saved => lease[r] # NoLease

\* A run that is not in the store has no lease.
AbsentHasNone == \A r \in Runs : runs[r].state = "absent" => lease[r] = NoLease

\* The inductive invariant behind InterruptedRunHasLease.
LeaseInv == faults = 0 =>
    /\ \A t \in Tasks : LeaseKept(task[t])
    /\ ScansStale /\ RunningHasLease /\ AbsentHasNone

\* What LeaseInv says of one run.
Settled(r) ==
    /\ runs[r].state = "running" /\ checkpoint[r].saved => lease[r] # NoLease
    /\ runs[r].state = "absent" => lease[r] = NoLease

\* Records, checkpoints and leases of other runs than that of task t are left alone.
LeasesElsewhere(t) ==
    \A r \in Runs : \/ r = Run(t) /\ Working(task[t])
                    \/ runs'[r] = runs[r] /\ checkpoint'[r] = checkpoint[r] /\ lease'[r] = lease[r]

\* What every step of LeaseInv's induction starts from.
Context == SafeInv /\ CallsApart /\ SequentialInv /\ LeaseInv /\ faults = 0

\* A step of task t, when it keeps what concerns its own run r.
LEMMA LeaseStep ==
    ASSUME Context, NEW t \in Tasks, NEW r, r = Run(t), NEW n, Become(t, n), UNCHANGED now,
           LeasesElsewhere(t), LeaseKept(task[t])',
           \A p \in n.todo : p \in task[t].todo \/ (p[1] \in Runs /\ Stale(p[1])'),
           Working(task[t]) =>
               /\ Settled(r)'
               /\ Stale(r) \/ task[t].pc \in Leased => Stale(r)' \/ (n.pc \in Leased /\ n.run = r)
    PROVE  LeaseInv'
<1>0. /\ task'[t] = n /\ \A u \in Tasks : u # t => task'[u] = task[u]
      /\ \A u \in Tasks : task[u] \in TaskRecord
      /\ \A u \in Tasks : Working(task[u]) => Run(u) \in Runs
      /\ \A u \in Tasks : u # t /\ Working(task[u]) /\ Working(task[t]) => Run(u) # r
  BY TaskFacts DEF Become, Context, SafeInv, TypeOK, Working, GoodTask, Run, CallsApart
<1>1. ASSUME NEW u \in Tasks PROVE LeaseKept(task[u])'
  <2>1. CASE u = t
    BY <2>1
  <2>2. CASE u # t
    <3>1. LeaseKept(task[u]) /\ task'[u] = task[u]
      BY <1>0, <2>2 DEF Context, LeaseInv
    <3>2. CASE ~Working(task[u])
      BY <3>1, <3>2 DEF Working, LeaseKept, Leased, Executing
    <3>3. CASE Working(task[u])
      <4>1. runs'[Run(u)] = runs[Run(u)] /\ lease'[Run(u)] = lease[Run(u)]
        BY <1>0, <2>2, <3>3 DEF LeasesElsewhere
      <4> QED BY <3>1, <4>1 DEF LeaseKept, Stale, is_valid, Run
    <3> QED BY <3>2, <3>3
  <2> QED BY <2>1, <2>2
<1>2. ASSUME NEW q \in Runs, \/ Stale(q) \/ \E u \in Tasks : Run(u) = q /\ task[u].pc \in Leased
      PROVE  Stale(q)' \/ \E u \in Tasks : task'[u].run = q /\ task'[u].pc \in Leased
  <2>1. \A u \in Tasks : task[u].pc \in Leased => Working(task[u])
    BY DEF Working, Leased, Executing
  <2>2. CASE q = r /\ Working(task[t])
    BY <1>0, <1>2, <2>1, <2>2 DEF Run
  <2>3. CASE ~(q = r /\ Working(task[t]))
    <3>1. runs'[q] = runs[q] /\ lease'[q] = lease[q]
      BY <2>3 DEF LeasesElsewhere
    <3>2. CASE Stale(q)
      BY <3>1, <3>2 DEF Stale, is_valid
    <3>3. ASSUME NEW u \in Tasks, Run(u) = q, task[u].pc \in Leased
          PROVE  task'[u].run = q /\ task'[u].pc \in Leased
      BY <1>0, <2>1, <2>3, <3>3 DEF Run
    <3> QED BY <1>2, <3>2, <3>3
  <2> QED BY <2>2, <2>3
<1>3. ScansStale'
  <2> SUFFICES ASSUME NEW u \in Tasks, NEW p \in task'[u].todo
               PROVE  Stale(p[1])' \/ \E v \in Tasks : task'[v].run = p[1] /\ task'[v].pc \in Leased
    BY DEF ScansStale, Run
  <2>1. CASE p \in task[u].todo
    <3>1. p[1] \in Runs
      BY <1>0, <2>1 DEF TaskRecord
    <3>2. Stale(p[1]) \/ \E v \in Tasks : Run(v) = p[1] /\ task[v].pc \in Leased
      BY <2>1 DEF Context, LeaseInv, ScansStale
    <3> QED BY <1>2, <3>1, <3>2
  <2>2. CASE p \notin task[u].todo
    BY <1>0, <2>2
  <2> QED BY <2>1, <2>2
<1>4. ASSUME NEW q \in Runs PROVE Settled(q)'
  <2>1. CASE q = r /\ Working(task[t])
    BY <2>1
  <2>2. CASE ~(q = r /\ Working(task[t]))
    BY <2>2 DEF LeasesElsewhere, Context, LeaseInv, RunningHasLease, AbsentHasNone, Settled
  <2> QED BY <2>1, <2>2
<1> QED BY <1>1, <1>3, <1>4 DEF LeaseInv, RunningHasLease, AbsentHasNone, Settled

\* Program points after the outcome is stored.
Ending == {"release", "release_delete", "cancel_lease"}

\* A step that leaves records, checkpoints and leases alone, and by which the
\* task neither gets a lease nor walks away from one.
LEMMA QuietLease ==
    ASSUME Context, NEW t \in Tasks, NEW n, Become(t, n),
           UNCHANGED <<runs, checkpoint, lease, now>>,
           n.run = Run(t), n.todo = task[t].todo,
           n.pc \in Leased <=> task[t].pc \in Leased,
           n.pc \in Ending => task[t].pc \in Ending,
           n.pc \notin {"recover_release", "recover_delete"},
           task[t].pc \in Recovering => n.pc \in Recovering
    PROVE  LeaseInv'
<1> PICK r : r = Run(t)
  OBVIOUS
<1>1. LeaseKept(task[t])'
  <2>1. LeaseKept(task[t]) /\ task'[t] = n
    BY DEF Context, LeaseInv, Become, SafeInv, TypeOK
  <2> QED BY <2>1 DEF LeaseKept, Ending, Run
<1>2. LeasesElsewhere(t)
  BY DEF LeasesElsewhere
<1>3. Working(task[t]) => Settled(r)'
  <2>1. Working(task[t]) => r \in Runs
    BY WorkingFacts DEF Context, SequentialInv
  <2> QED BY <2>1 DEF Context, LeaseInv, RunningHasLease, AbsentHasNone, Settled
<1>4. Stale(r) <=> Stale(r)'
  BY DEF Stale, is_valid
<1> QED BY <1>1, <1>2, <1>3, <1>4, LeaseStep

\* A call that returns without having had a lease.
LEMMA ReturnLease ==
    ASSUME Context, NEW t \in Tasks, Return(t), task[t].pc \notin Leased,
           UNCHANGED <<runs, checkpoint, lease, now>>
    PROVE  LeaseInv'
<1> PICK r : r = Run(t)
  OBVIOUS
<1>0. Become(t, Idle) /\ task'[t] = Idle /\ Idle.todo = {} /\ Idle.pc = "idle"
  BY DEF Return, Become, Context, SafeInv, TypeOK, Idle
<1>1. LeaseKept(task[t])'
  BY <1>0 DEF LeaseKept, Leased, Executing
<1>2. LeasesElsewhere(t)
  BY DEF LeasesElsewhere
<1>3. Working(task[t]) => Settled(r)'
  <2>1. Working(task[t]) => r \in Runs
    BY WorkingFacts DEF Context, SequentialInv
  <2> QED BY <2>1 DEF Context, LeaseInv, RunningHasLease, AbsentHasNone, Settled
<1>4. Stale(r) <=> Stale(r)'
  BY DEF Stale, is_valid
<1> QED BY <1>0, <1>1, <1>2, <1>3, <1>4, LeaseStep

\* Moves within the phases of a call.
Along(k, p) ==
    /\ p \in Leased <=> k.pc \in Leased
    /\ p \in Ending => k.pc \in Ending
    /\ p \notin {"recover_release", "recover_delete"}
    /\ k.pc \in Recovering => p \in Recovering

\* A step along them.
LEMMA AlongLease ==
    ASSUME Context, NEW t \in Tasks, UNCHANGED <<runs, checkpoint, lease, now>>,
           NEW p, NEW v, Along(task[t], p),
           LET k == task[t] IN
           \/ Become(t, [k EXCEPT !.pc = p]) \/ Become(t, [k EXCEPT !.pc = p, !.token = v])
           \/ Become(t, [k EXCEPT !.pc = p, !.err = v])
           \/ Become(t, [k EXCEPT !.pc = p, !.hist = v])
           \/ Become(t, [k EXCEPT !.pc = p, !.mem = v])
           \/ Become(t, [k EXCEPT !.pc = p, !.mem.nextSeq = v])
    PROVE  LeaseInv'
<1> DEFINE k == task[t]
<1> PICK n : /\ Become(t, n)
             /\ \/ n = [k EXCEPT !.pc = p] \/ n = [k EXCEPT !.pc = p, !.token = v]
                \/ n = [k EXCEPT !.pc = p, !.err = v] \/ n = [k EXCEPT !.pc = p, !.hist = v]
                \/ n = [k EXCEPT !.pc = p, !.mem = v]
                \/ n = [k EXCEPT !.pc = p, !.mem.nextSeq = v]
  OBVIOUS
<1>1. k \in TaskRecord
  BY TaskFacts DEF Context
<1>2. n.pc = p /\ n.run = k.run /\ n.todo = k.todo
  <2> HIDE DEF k
  <2> QED BY <1>1 DEF TaskRecord
<1> HIDE DEF k
<1> QED BY <1>2, QuietLease DEF Along, k, Run

\* The reads of the lease manager, the loads and the execution.
LEMMA ReadsLease ==
    ASSUME Context, NEW t \in Tasks,
           \/ AcquireGet(t) \/ FetchFence(t) \/ RenewGet(t) \/ KeepGet(t) \/ ReleaseGet(t)
           \/ LoadRun(t) \/ LoadCheckpoint(t) \/ ValidateFence(t) \/ ExecuteRun(t)
           \/ JournalAppend(t) \/ RecoverLoad(t) \/ DlqLoad(t)
           \/ EnqueueDeadLetter(t) \/ DlqRemove(t)
    PROVE  LeaseInv'
<1> DEFINE k == task[t]
<1>u. UNCHANGED <<runs, checkpoint, lease, now>>
  BY DEF AcquireGet, FetchFence, RenewGet, KeepGet, ReleaseGet, LoadRun, LoadCheckpoint,
         ValidateFence, ExecuteRun, JournalAppend, RecoverLoad, DlqLoad, EnqueueDeadLetter,
         DlqRemove, Local, SameClock, store
<1> USE DEF At, Along, Leased, Executing, Ending, Recovering
<1>1. CASE AcquireGet(t)
  <2>1. k.pc = "acquire" /\ Along(k, "fetch") /\ Along(k, "renew") /\ k.pc \notin Leased
    BY <1>1 DEF AcquireGet
  <2> QED BY <1>1, <1>u, <2>1, ReturnLease, AlongLease DEF AcquireGet, Goto
<1>2. CASE FetchFence(t)
  <2>1. Along(k, "grant")
    BY <1>2 DEF FetchFence
  <2> QED BY <1>2, <1>u, <2>1, AlongLease DEF FetchFence
<1>3. CASE RenewGet(t)
  <2>1. Along(k, "renew_put") /\ k.pc \notin Leased
    BY <1>3 DEF RenewGet
  <2> QED BY <1>3, <1>u, <2>1, ReturnLease, AlongLease DEF RenewGet, Goto
<1>4. CASE KeepGet(t)
  <2>1. Along(k, "keep_put") /\ Along(k, "complete")
    BY <1>4 DEF KeepGet
  <2> QED BY <1>4, <1>u, <2>1, AlongLease DEF KeepGet, Goto
<1>5. CASE ReleaseGet(t)
  <2>1. Along(k, "release_delete") /\ k.pc \notin Leased
    BY <1>5 DEF ReleaseGet
  <2> QED BY <1>5, <1>u, <2>1, ReturnLease, AlongLease DEF ReleaseGet, Goto
<1>6. CASE LoadRun(t)
  <2>1. Along(k, "acquire") /\ k.pc \notin Leased
    BY <1>6 DEF LoadRun
  <2> QED BY <1>6, <1>u, <2>1, ReturnLease, AlongLease DEF LoadRun
<1>7. CASE LoadCheckpoint(t)
  <2>1. Along(k, "save_running")
    BY <1>7 DEF LoadCheckpoint
  <2> QED BY <1>7, <1>u, <2>1, AlongLease DEF LoadCheckpoint
<1>8. CASE ValidateFence(t) \/ ExecuteRun(t)
  <2>1. Along(k, "run") /\ Along(k, "append") /\ Along(k, "fail")
    BY <1>8 DEF ValidateFence, ExecuteRun
  <2>2. \/ Goto(t, "run") \/ Goto(t, "append")
        \/ \E e \in Errors : Become(t, [k EXCEPT !.pc = "fail", !.err = e])
    BY <1>8 DEF ValidateFence, ExecuteRun, Errors
  <2> QED BY <1>u, <2>1, <2>2, AlongLease DEF Goto
<1>9. CASE JournalAppend(t)
  <2>1. Along(k, "checkpoint")
    BY <1>9 DEF JournalAppend
  <2>2. Become(t, [k EXCEPT !.pc = "checkpoint", !.mem.nextSeq = @ + 1])
    BY <1>9 DEF JournalAppend
  <2>3. \E v : Become(t, [k EXCEPT !.pc = "checkpoint", !.mem.nextSeq = v])
    <3>1. k \in TaskRecord
      BY TaskFacts DEF Context
    <3>2. [k EXCEPT !.pc = "checkpoint", !.mem.nextSeq = @ + 1]
          = [k EXCEPT !.pc = "checkpoint", !.mem.nextSeq = k.mem.nextSeq + 1]
      BY <3>1 DEF TaskRecord, RunRecord
    <3> QED BY <2>2, <3>2
  <2> QED BY <1>u, <2>1, <2>3, AlongLease
<1>10. CASE RecoverLoad(t)
  <2>1. Along(k, "recover_next") /\ Along(k, "requeue") /\ Along(k, "enqueue")
    BY <1>10 DEF RecoverLoad
  <2>2. \E p \in {"recover_next", "requeue", "enqueue"} :
            Become(t, [k EXCEPT !.pc = p, !.mem = runs[Run(t)]])
    BY <1>10 DEF RecoverLoad
  <2> QED BY <1>u, <2>1, <2>2, AlongLease
<1>11. CASE DlqLoad(t)
  <2>1. Along(k, "dlq_save")
    BY <1>11 DEF DlqLoad
  <2> QED BY <1>11, <1>u, <2>1, AlongLease DEF DlqLoad
<1>12. CASE EnqueueDeadLetter(t)
  <2>1. Along(k, "mark_failed")
    BY <1>12 DEF EnqueueDeadLetter
  <2> QED BY <1>12, <1>u, <2>1, AlongLease DEF EnqueueDeadLetter, Goto
<1>13. CASE DlqRemove(t)
  <2>1. k.pc \notin Leased
    BY <1>13 DEF DlqRemove
  <2> QED BY <1>13, <1>u, <2>1, ReturnLease DEF DlqRemove
<1> QED BY <1>1, <1>2, <1>3, <1>4, <1>5, <1>6, <1>7, <1>8, <1>9, <1>10, <1>11, <1>12, <1>13

\* A task stores its lease, or deletes one that its run has no more use for.
LEMMA WritesLease ==
    ASSUME Context, NEW t \in Tasks,
           Grant(t) \/ RenewPut(t) \/ KeepPut(t) \/ ReleaseDelete(t) \/ RecoverDelete(t)
    PROVE  LeaseInv'
<1> DEFINE k == task[t]
<1>0. k \in TaskRecord /\ Working(k) /\ GoodTask(k, journal, checkpoint) /\ LeaseKept(k)
  BY TaskFacts DEF Context, LeaseInv, Grant, RenewPut, KeepPut, ReleaseDelete, RecoverDelete,
                   At, Working
<1>1. /\ Run(t) \in Runs
      /\ Fits(k, runs[Run(t)], checkpoint[Run(t)].messages, Run(t) \in dlq)
  BY <1>0, WorkingFacts DEF Context, SequentialInv
<1> PICK r \in Runs : r = Run(t)
  BY <1>1
<1>2. Settled(r)
  BY DEF Context, LeaseInv, RunningHasLease, AbsentHasNone, Settled
<1>3. CASE Grant(t) \/ RenewPut(t) \/ KeepPut(t)
  <2>1. k.token # 0 /\ runs[r].state # "absent" /\ now \in Nat
    BY <1>0, <1>1, <1>3 DEF GoodTask, Grant, RenewPut, KeepPut, At, Holding, Fits, Copying,
                Preparing, Executing, Live, Context, SafeInv, TypeOK
  <2>2. PICK p \in Leased : Goto(t, p) /\ PutLease(t, p)
    BY <1>3 DEF Grant, RenewPut, KeepPut, PutLease, Acquired, Leased, Executing
  <2>3. /\ \A q \in Runs : q # r => lease'[q] = lease[q]
        /\ lease'[r] = [worker |-> k.wid, fence |-> k.token, expires |-> now + TTL]
        /\ UNCHANGED <<runs, checkpoint, now>>
    BY <2>2 DEF PutLease, Context, SafeInv, TypeOK, SameClock
  <2>4. lease'[r] # NoLease
    BY <2>1, <2>3 DEF NoLease
  <2> DEFINE n == [k EXCEPT !.pc = p]
  <2>5. n.pc = p /\ n.run = r /\ n.todo = k.todo
    BY <1>0 DEF TaskRecord, Run
  <2>6. Become(t, n) /\ task'[t] = n
    BY <2>2 DEF Goto, Become, Context, SafeInv, TypeOK
  <2> HIDE DEF n
  <2>7. LeaseKept(task[t])'
    <3>1. n.todo = {}
      BY <1>0, <1>3, <2>5 DEF LeaseKept, Recovering, Grant, RenewPut, KeepPut, At
    <3> QED BY <2>4, <2>5, <2>6, <3>1 DEF LeaseKept, Leased, Executing
  <2>8. LeasesElsewhere(t) /\ Settled(r)'
    BY <1>0, <2>1, <2>3, <2>4 DEF LeasesElsewhere, Settled
  <2> QED BY <2>3, <2>5, <2>6, <2>7, <2>8, LeaseStep
<1>4. CASE ReleaseDelete(t) \/ RecoverDelete(t)
  <2>1. runs[r].state = "running" => lease[r] = NoLease
    BY <1>0, <1>4 DEF ReleaseDelete, RecoverDelete, At, LeaseKept, Run
  <2>2. /\ lease' = [lease EXCEPT ![r] = NoLease]
        /\ UNCHANGED <<runs, checkpoint, now>>
    BY <1>4 DEF ReleaseDelete, RecoverDelete, DeleteLease, SameClock
  <2>3. /\ \A q \in Runs : q # r => lease'[q] = lease[q]
        /\ lease'[r] = NoLease
    BY <2>2 DEF Context, SafeInv, TypeOK
  <2>4. Settled(r)' /\ LeasesElsewhere(t)
    BY <1>0, <1>2, <2>1, <2>2, <2>3 DEF Settled, LeasesElsewhere
  <2>5. Stale(r)'
    <3>1. now' \in Nat /\ lease'[r].expires = 0
      BY <2>2, <2>3 DEF Context, SafeInv, TypeOK, NoLease
    <3> QED BY <3>1 DEF Stale, is_valid
  <2>6. CASE Return(t)
    <3>1. Become(t, Idle) /\ task'[t] = Idle /\ Idle.todo = {} /\ Idle.pc = "idle"
      BY <2>6 DEF Return, Become, Context, SafeInv, TypeOK, Idle
    <3>2. LeaseKept(task[t])'
      BY <3>1 DEF LeaseKept, Leased, Executing
    <3> QED BY <2>2, <2>4, <2>5, <3>1, <3>2, LeaseStep
  <2>7. CASE k.pc = "recover_delete" /\ Goto(t, "recover_load")
    <3> DEFINE n == [k EXCEPT !.pc = "recover_load"]
    <3>1. n.pc = "recover_load" /\ n.todo = k.todo
      BY <1>0 DEF TaskRecord
    <3>2. Become(t, n) /\ task'[t] = n
      BY <2>7 DEF Goto, Become, Context, SafeInv, TypeOK
    <3> HIDE DEF n
    <3>3. LeaseKept(task[t])'
      BY <3>1, <3>2 DEF LeaseKept, Leased, Executing, Recovering
    <3> QED BY <2>2, <2>4, <2>5, <3>1, <3>2, <3>3, LeaseStep
  <2> QED BY <1>4, <2>6, <2>7 DEF ReleaseDelete, RecoverDelete, At
<1> QED BY <1>3, <1>4

\* cancel turns to the lease of the worker it cancelled.
LEMMA CancelLeaseLease ==
    ASSUME Context, NEW t \in Tasks, CancelLease(t)
    PROVE  LeaseInv'
<1> DEFINE k == task[t]
<1>0. k \in TaskRecord /\ k.pc = "cancel_lease"
  BY TaskFacts DEF Context, CancelLease, At
<1>u. UNCHANGED <<runs, checkpoint, lease, now>>
  BY DEF CancelLease, Local, SameClock, store
<1>1. CASE Return(t)
  BY <1>0, <1>1, <1>u, ReturnLease DEF Leased, Executing
<1>2. CASE Become(t, [k EXCEPT !.pc = "release", !.wid = k.mem.worker, !.token = Lease(t).fence])
  <2> DEFINE n == [k EXCEPT !.pc = "release", !.wid = k.mem.worker, !.token = Lease(t).fence]
  <2>1. n.pc = "release" /\ n.run = Run(t) /\ n.todo = k.todo
    BY <1>0 DEF TaskRecord, Run
  <2> HIDE DEF n
  <2>2. Become(t, n)
    BY <1>2 DEF n
  <2> QED BY <1>0, <1>u, <2>1, <2>2, QuietLease DEF Leased, Executing, Ending, Recovering
<1> QED BY <1>1, <1>2 DEF CancelLease

\* Recovery does not delete a lease it finds expired: release refuses it.
LEMMA RecoverReleaseLease ==
    ASSUME Context, NEW t \in Tasks, RecoverRelease(t)
    PROVE  LeaseInv'
<1> DEFINE k == task[t]
<1>0. k \in TaskRecord /\ k.pc = "recover_release" /\ LeaseKept(k) /\ Working(k)
  BY TaskFacts DEF Context, LeaseInv, RecoverRelease, At, Working
<1>1. Run(t) \in Runs
  BY <1>0, WorkingFacts DEF Context, SequentialInv
<1> PICK r \in Runs : r = Run(t)
  BY <1>1
<1>u. UNCHANGED <<runs, checkpoint, lease, now>>
  BY DEF RecoverRelease, Local, SameClock, store
<1>2. runs[r].state = "running" => (Releasable(t) => lease[r] = NoLease)
  BY <1>0 DEF LeaseKept, Stale, Releasable, Accepts, is_held_by, Lease, Run
<1>3. PICK p \in {"recover_delete", "recover_load"} :
        Goto(t, p) /\ (p = "recover_delete" => Releasable(t))
  BY DEF RecoverRelease
<1> DEFINE n == [k EXCEPT !.pc = p]
<1>4. n.pc = p /\ n.todo = k.todo /\ n.run = r
  BY <1>0 DEF TaskRecord, Run
<1>5. Become(t, n) /\ task'[t] = n
  BY <1>3 DEF Goto, Become, Context, SafeInv, TypeOK
<1> HIDE DEF n
<1>6. LeaseKept(task[t])'
  BY <1>u, <1>2, <1>3, <1>4, <1>5 DEF LeaseKept, Leased, Executing, Recovering
<1>7. LeasesElsewhere(t) /\ Settled(r)' /\ (Stale(r) <=> Stale(r)') /\ k.pc \notin Leased
  BY <1>0, <1>u DEF LeasesElsewhere, Settled, Context, LeaseInv, RunningHasLease, AbsentHasNone,
                    Stale, is_valid, Leased, Executing
<1> QED BY <1>u, <1>4, <1>5, <1>6, <1>7, LeaseStep

\* Recovery takes up a run nobody else works on, whose lease is therefore stale.
LEMMA RecoverNextLease ==
    ASSUME Context, CallsApart', NEW t \in Tasks, RecoverNext(t)
    PROVE  LeaseInv'
<1> DEFINE k == task[t]
<1>0. k \in TaskRecord /\ k.pc = "recover_next" /\ ~Working(k) /\ k.pc \notin Leased
  BY TaskFacts DEF Context, RecoverNext, At, Working, Leased, Executing
<1>u. UNCHANGED <<runs, checkpoint, lease, now>>
  BY DEF RecoverNext, Local, SameClock, store
<1>1. CASE Return(t)
  BY <1>0, <1>1, <1>u, ReturnLease
<1>2. ASSUME NEW p \in k.todo,
             Become(t, [k EXCEPT !.pc = "recover_release", !.todo = @ \ {p},
                                 !.run = p[1], !.wid = p[2].worker,
                                 !.token = p[2].fence, !.mem = AbsentRun])
      PROVE  LeaseInv'
  <2> PICK n : Become(t, n) /\ n = [k EXCEPT !.pc = "recover_release", !.todo = @ \ {p},
                                       !.run = p[1], !.wid = p[2].worker,
                                       !.token = p[2].fence, !.mem = AbsentRun]
    BY <1>2
  <2>1. n.pc = "recover_release" /\ n.todo = k.todo \ {p} /\ n.run = p[1]
    BY <1>0 DEF TaskRecord
  <2>2. task'[t] = n /\ \A u \in Tasks : u # t => task'[u] = task[u]
    BY DEF Become, Context, SafeInv, TypeOK
  <2>3. Stale(p[1]) \/ \E u \in Tasks : Run(u) = p[1] /\ task[u].pc \in Leased
    BY DEF Context, LeaseInv, ScansStale
  <2>4. ASSUME NEW u \in Tasks, Run(u) = p[1], task[u].pc \in Leased
        PROVE  FALSE
    <3>1. u # t /\ task'[u] = task[u]
      BY <1>0, <2>2, <2>4
    <3>2. task'[u].pc \notin {"idle", "recover_next"} /\ task'[t].pc \notin {"idle", "recover_next"}
      BY <2>1, <2>2, <2>4, <3>1 DEF Leased, Executing
    <3>3. task'[t].run # task'[u].run
      BY <3>1, <3>2 DEF CallsApart, Run, Working
    <3> QED BY <2>1, <2>2, <2>4, <3>1, <3>3 DEF Run
  <2>5. LeaseKept(task[t])'
    BY <1>u, <2>1, <2>2, <2>3, <2>4 DEF LeaseKept, Leased, Executing, Recovering, Stale, is_valid
  <2>6. LeasesElsewhere(t)
    BY <1>u DEF LeasesElsewhere
  <2> QED BY <1>0, <1>u, <2>1, <2>5, <2>6, LeaseStep
<1> QED BY <1>1, <1>2 DEF RecoverNext

\* save_run, on a sound store.
LEMMA SaveLease ==
    ASSUME Context, faults' = 0, NEW t \in Tasks, NEW rec, NEW next, save_run(t, rec, next),
           Working(task[t]), rec.state # "absent",
           \/ rec.state # "running" /\ next \notin Leased
           \/ rec.state = "running" /\ next \in Leased /\ lease[Run(t)] # NoLease
           \/ next = "acquire" /\ lease[Run(t)] = NoLease /\ ~checkpoint[Run(t)].saved,
           next \notin {"recover_release", "recover_delete"},
           task[t].pc \in Recovering => next \in Recovering
    PROVE  LeaseInv'
<1> DEFINE k == task[t]
           n == [k EXCEPT !.pc = next, !.mem = rec]
<1>0. k \in TaskRecord /\ LeaseKept(k) /\ Run(t) \in Runs
  BY TaskFacts, WorkingFacts DEF Context, LeaseInv, SequentialInv
<1> PICK r \in Runs : r = Run(t)
  BY <1>0
<1>1. Become(t, n)
  BY DEF save_run, StoreFault, Context
<1>2. /\ runs' = [runs EXCEPT ![r] = rec] /\ runs'[r] = rec
      /\ \A q \in Runs : q # r => runs'[q] = runs[q]
      /\ UNCHANGED <<lease, checkpoint, now>>
  BY DEF save_run, SameClock, Context, SafeInv, TypeOK
<1>3. n.pc = next /\ n.run = r /\ n.todo = k.todo
  BY <1>0 DEF TaskRecord, Run
<1> HIDE DEF n
<1>4. task'[t] = n
  BY <1>1 DEF Become, Context, SafeInv, TypeOK
<1>5. next = "acquire" => next \notin Leased \cup Ending
  BY DEF Leased, Executing, Ending
<1>6. next \in Leased => next \notin Ending
  BY DEF Leased, Executing, Ending
<1>7. LeaseKept(task[t])'
  BY <1>0, <1>2, <1>3, <1>4, <1>5, <1>6 DEF LeaseKept, Ending
<1>8. LeasesElsewhere(t) /\ Settled(r)'
  BY <1>2 DEF LeasesElsewhere, Settled
<1>9. Stale(r)' \/ n.pc \in Leased
  <2>1. CASE rec.state # "running"
    BY <1>2, <2>1 DEF Stale
  <2>2. CASE lease[r] = NoLease
    <3>1. lease'[r].expires = 0 /\ now' \in Nat
      BY <1>2, <2>2 DEF NoLease, Context, SafeInv, TypeOK
    <3> QED BY <3>1 DEF Stale, is_valid
  <2> QED BY <1>3, <2>1, <2>2
<1> QED BY <1>1, <1>2, <1>3, <1>7, <1>8, <1>9, LeaseStep

\* The steps that store a record.
LEMMA SavesLease ==
    ASSUME Context, faults' = 0, NEW t \in Tasks,
           \/ StartSaveRun(t) \/ CreateSaveRun(t) \/ SaveRunning(t)
           \/ SaveCompleted(t) \/ HandleFailure(t) \/ CancelSave(t)
           \/ Requeue(t) \/ MarkFailed(t) \/ DlqSave(t)
    PROVE  LeaseInv'
<1> DEFINE k == task[t]
<1>0. k \in TaskRecord /\ Working(k) /\ k.mem \in RunRecord /\ LeaseKept(k)
  BY TaskFacts DEF Context, LeaseInv, StartSaveRun, CreateSaveRun, SaveRunning, SaveCompleted,
                   HandleFailure, CancelSave, Requeue, MarkFailed, DlqSave, At, Working, TaskRecord
<1>1. /\ Run(t) \in Runs
      /\ Fits(k, runs[Run(t)], checkpoint[Run(t)].messages, Run(t) \in dlq)
  BY <1>0, WorkingFacts DEF Context, SequentialInv
<1> USE DEF At, Leased, Executing, Recovering
<1>2. CASE StartSaveRun(t)
  <2> DEFINE rec == [NewRun EXCEPT !.state = "running", !.worker = k.wid, !.attempt = 1]
  <2>1. rec.state = "running" /\ save_run(t, rec, "acquire")
    BY <1>2 DEF NewRun, AbsentRun, StartSaveRun
  <2>2. runs[Run(t)].state = "absent"
    BY <1>1, <1>2 DEF StartSaveRun, Fits
  <2>3. lease[Run(t)] = NoLease /\ ~checkpoint[Run(t)].saved
    BY <1>1, <2>2 DEF Context, LeaseInv, AbsentHasNone, SequentialInv, AbsentRuns, NoCheckpoint
  <2>4. k.pc \notin Recovering
    BY <1>2 DEF StartSaveRun
  <2> HIDE DEF rec
  <2> QED BY <1>0, <2>1, <2>3, <2>4, SaveLease
<1>3. CASE CreateSaveRun(t)
  <2>1. NewRun.state = "pending" /\ save_run(t, NewRun, "create_checkpoint") /\ k.pc \notin Recovering
    BY <1>3 DEF NewRun, AbsentRun, CreateSaveRun
  <2> QED BY <1>0, <2>1, SaveLease
<1>4. CASE SaveRunning(t)
  <2> DEFINE rec == [k.mem EXCEPT !.state = "running", !.worker = k.wid, !.attempt = @ + 1]
  <2>1. rec.state = "running" /\ save_run(t, rec, "validate")
    BY <1>0, <1>4 DEF RunRecord, SaveRunning
  <2>2. lease[Run(t)] # NoLease /\ k.pc \notin Recovering
    BY <1>0, <1>4 DEF SaveRunning, LeaseKept, Run
  <2> HIDE DEF rec
  <2> QED BY <1>0, <2>1, <2>2, SaveLease
<1>5. CASE \/ SaveCompleted(t) \/ HandleFailure(t) \/ CancelSave(t)
           \/ Requeue(t) \/ MarkFailed(t) \/ DlqSave(t)
  <2> DEFINE Kept(rec, s) == \/ rec = [k.mem EXCEPT !.state = s]
                             \/ rec = [k.mem EXCEPT !.state = s, !.worker = NoWorker]
                             \/ rec = [k.mem EXCEPT !.state = s, !.output = k.id]
                             \/ rec = [k.mem EXCEPT !.state = s, !.worker = NoWorker, !.output = 0]
             To(s, next) == /\ s \in {"completed", "suspended", "failed", "cancelled", "pending"}
                            /\ next \in {"release", "cancel_lease", "recover_next", "dlq_remove"}
                            /\ k.pc \in Recovering => next = "recover_next"
  <2>1. PICK rec, s, next : save_run(t, rec, next) /\ Kept(rec, s) /\ To(s, next)
    <3>1. CASE SaveCompleted(t) \/ CancelSave(t) \/ MarkFailed(t)
      BY <3>1 DEF SaveCompleted, CancelSave, MarkFailed
    <3>2. CASE HandleFailure(t)
      BY <3>2 DEF HandleFailure
    <3>3. CASE Requeue(t) \/ DlqSave(t)
      BY <3>3 DEF Requeue, DlqSave
    <3> QED BY <1>5, <3>1, <3>2, <3>3
  <2>2. rec.state = s
    BY <1>0, <2>1 DEF RunRecord
  <2> QED BY <1>0, <2>1, <2>2, SaveLease
<1> QED BY <1>2, <1>3, <1>4, <1>5

\* The steps that store a checkpoint.
LEMMA CheckpointsLease ==
    ASSUME Context, NEW t \in Tasks, CreateSaveCheckpoint(t) \/ SaveCheckpoint(t)
    PROVE  LeaseInv'
<1> DEFINE k == task[t]
<1>0. k \in TaskRecord /\ Working(k) /\ LeaseKept(k) /\ k.pc \in {"create_checkpoint", "checkpoint"}
  BY TaskFacts DEF Context, LeaseInv, CreateSaveCheckpoint, SaveCheckpoint, At, Working
<1>1. /\ Run(t) \in Runs
      /\ Fits(k, runs[Run(t)], checkpoint[Run(t)].messages, Run(t) \in dlq)
  BY <1>0, WorkingFacts DEF Context, SequentialInv
<1> PICK r \in Runs : r = Run(t)
  BY <1>1
<1>2. /\ \A q \in Runs : q # r => checkpoint'[q] = checkpoint[q]
      /\ UNCHANGED <<runs, lease, now>>
  BY DEF CreateSaveCheckpoint, SaveCheckpoint, SameClock, Context, SafeInv, TypeOK
<1>3. PICK p \in {"load", "keep"} : Goto(t, p) /\ (p = "keep" <=> k.pc = "checkpoint")
  BY DEF CreateSaveCheckpoint, SaveCheckpoint, At
<1> DEFINE n == [k EXCEPT !.pc = p]
<1>4. n.pc = p /\ n.run = r /\ n.todo = k.todo
  BY <1>0 DEF TaskRecord, Run
<1>5. Become(t, n) /\ task'[t] = n
  BY <1>3 DEF Goto, Become, Context, SafeInv, TypeOK
<1> HIDE DEF n
<1>6. k.todo = {}
  BY <1>0 DEF LeaseKept, Recovering
<1>7. LeaseKept(task[t])'
  BY <1>0, <1>2, <1>3, <1>4, <1>5, <1>6 DEF LeaseKept, Leased, Executing, Run
<1>8. Settled(r)'
  <2>1. runs[r].state = "pending" \/ (runs[r].state = "running" /\ lease[r] # NoLease)
    BY <1>0, <1>1 DEF Fits, LeaseKept, Leased, Executing, Run
  <2> QED BY <1>2, <2>1 DEF Settled
<1>9. LeasesElsewhere(t) /\ (Stale(r) <=> Stale(r)') /\ (k.pc \in Leased => n.pc \in Leased)
  BY <1>0, <1>2, <1>3, <1>4 DEF LeasesElsewhere, Stale, is_valid, Leased, Executing
<1> QED BY <1>2, <1>4, <1>5, <1>7, <1>8, <1>9, LeaseStep

\* A call that begins with nothing in hand, or with a scan of expired leases.
LEMMA ClientCallLease ==
    ASSUME Context, NEW t \in Tasks, ClientCall(t)
    PROVE  LeaseInv'
<1>0. task[t].pc = "idle" /\ task[t] \in TaskRecord /\ UNCHANGED <<runs, checkpoint, lease, now>>
  BY TaskFacts DEF Context, ClientCall, Start, Create, Resume, Cancel, RetryFromDlq,
                   ScanAndRecover, Begin, At, store
<1>1. PICK n : /\ Become(t, n)
               /\ \/ n.todo = {} /\ n.pc \in {"start", "create", "load", "cancel", "dlq_load"}
                  \/ n.todo = Expired /\ n.pc = "recover_next"
  <2>1. ASSUME NEW k, Begin(t, k), NEW n, n = [k EXCEPT !.id = calls + 1]
        PROVE  Become(t, n)
    BY <2>1 DEF Begin
  <2>2. ASSUME NEW r \in Runs, Start(t, r) \/ Create(t, r) \/ Resume(t, r)
        PROVE  \E n : Become(t, n) /\ n.todo = {} /\ n.pc \in {"start", "create", "load"}
    <3>1. PICK c \in {"start", "resume"}, p \in {"start", "create", "load"} : Begin(t, RunnerCall(t, r, c, p))
      BY <2>2 DEF Start, Create, Resume
    <3>2. PICK n : n = [RunnerCall(t, r, c, p) EXCEPT !.id = calls + 1]
      OBVIOUS
    <3>3. n.todo = {} /\ n.pc = p
      BY <3>2 DEF RunnerCall, Idle
    <3> QED BY <2>1, <3>1, <3>2, <3>3
  <2>3. ASSUME NEW r \in Runs, Cancel(t, r)
        PROVE  \E n : Become(t, n) /\ n.todo = {} /\ n.pc = "cancel"
    <3> DEFINE k == [Idle EXCEPT !.pc = "cancel", !.call = "cancel", !.run = r, !.mem = runs[r]]
    <3>1. Begin(t, k)
      BY <2>3 DEF Cancel
    <3>2. PICK n : n = [k EXCEPT !.id = calls + 1]
      OBVIOUS
    <3>3. n.todo = {} /\ n.pc = "cancel"
      BY <3>2 DEF Idle
    <3> HIDE DEF k
    <3> QED BY <2>1, <3>1, <3>2, <3>3
  <2>4. ASSUME NEW r \in Runs, RetryFromDlq(t, r)
        PROVE  \E n : Become(t, n) /\ n.todo = {} /\ n.pc = "dlq_load"
    <3> DEFINE k == [Idle EXCEPT !.pc = "dlq_load", !.call = "dlq", !.run = r]
    <3>1. Begin(t, k)
      BY <2>4 DEF RetryFromDlq
    <3>2. PICK n : n = [k EXCEPT !.id = calls + 1]
      OBVIOUS
    <3>3. n.todo = {} /\ n.pc = "dlq_load"
      BY <3>2 DEF Idle
    <3> HIDE DEF k
    <3> QED BY <2>1, <3>1, <3>2, <3>3
  <2>5. ASSUME ScanAndRecover(t)
        PROVE  \E n : Become(t, n) /\ n.todo = Expired /\ n.pc = "recover_next"
    <3> DEFINE k == [Idle EXCEPT !.pc = "recover_next", !.call = "recover", !.todo = Expired]
    <3>1. Begin(t, k)
      BY <2>5 DEF ScanAndRecover
    <3>2. PICK n : n = [k EXCEPT !.id = calls + 1]
      OBVIOUS
    <3>3. n.todo = Expired /\ n.pc = "recover_next"
      BY <3>2 DEF Idle
    <3> HIDE DEF k
    <3> QED BY <2>1, <3>1, <3>2, <3>3
  <2> QED BY <2>2, <2>3, <2>4, <2>5 DEF ClientCall
<1>2. task'[t] = n
  BY <1>1 DEF Become, Context, SafeInv, TypeOK
<1>3. LeaseKept(task[t])'
  BY <1>1, <1>2 DEF LeaseKept, Leased, Executing, Recovering
<1>4. LeasesElsewhere(t) /\ ~Working(task[t])
  BY <1>0 DEF LeasesElsewhere, Working
<1>5. ASSUME NEW p \in n.todo PROVE p[1] \in Runs /\ Stale(p[1])'
  <2>1. p \in Expired
    BY <1>1, <1>5
  <2>2. p[1] \in Runs /\ lease[p[1]].expires < now /\ lease[p[1]].expires \in Nat /\ now \in Nat
    BY <2>1 DEF Expired, Context, SafeInv, TypeOK, LeaseRecord
  <2> QED BY <1>0, <2>2 DEF Stale, is_valid
<1> QED BY <1>0, <1>1, <1>3, <1>4, <1>5, LeaseStep

\* The clock only makes leases invalid; a crash leaves the store as it is.
LEMMA EnvironmentLease ==
    ASSUME Context, Tick \/ Restart \/ UNCHANGED vars
    PROVE  LeaseInv'
<1>u. UNCHANGED <<runs, checkpoint, lease>> /\ now \in Nat /\ now' \in Nat /\ now <= now'
  BY DEF Tick, Restart, vars, store, env, Context, SafeInv, TypeOK
<1>1. RunningHasLease' /\ AbsentHasNone'
  BY <1>u DEF Context, LeaseInv, RunningHasLease, AbsentHasNone
<1>2. CASE UNCHANGED task
  <2>1. ASSUME NEW r \in Runs, Stale(r) PROVE Stale(r)'
    <3>1. lease[r].expires \in Nat
      BY DEF Context, SafeInv, TypeOK, LeaseRecord
    <3> QED BY <1>u, <2>1, <3>1 DEF Stale, is_valid
  <2>2. ASSUME NEW t \in Tasks PROVE LeaseKept(task[t])'
    <3>1. LeaseKept(task[t]) /\ (Working(task[t]) => task[t].run \in Runs)
      BY WorkingFacts DEF Context, LeaseInv, SequentialInv, Run
    <3> PICK r : r = task[t].run
      OBVIOUS
    <3>2. task[t].pc = "recover_release" => Stale(r)'
      BY <2>1, <3>1 DEF LeaseKept, Working
    <3> QED BY <1>u, <1>2, <3>1, <3>2 DEF LeaseKept, Stale, is_valid
  <2>3. ScansStale'
    <3> SUFFICES ASSUME NEW t \in Tasks, NEW p \in task[t].todo
                 PROVE  Stale(p[1])' \/ \E u \in Tasks : Run(u) = p[1] /\ task[u].pc \in Leased
      BY <1>2 DEF ScansStale, Run
    <3>1. p[1] \in Runs
      BY TaskFacts DEF Context, TaskRecord
    <3> QED BY <2>1, <3>1 DEF Context, LeaseInv, ScansStale
  <2> QED BY <1>1, <2>2, <2>3 DEF LeaseInv
<1>3. CASE task' = [t \in Tasks |-> Idle]
  <2>1. Idle.todo = {} /\ Idle.pc = "idle"
    BY DEF Idle
  <2>2. ASSUME NEW t \in Tasks PROVE LeaseKept(task[t])'
    BY <1>3, <2>1 DEF LeaseKept, Leased, Executing
  <2>3. ScansStale'
    BY <1>3, <2>1 DEF ScansStale
  <2> QED BY <1>1, <2>2, <2>3 DEF LeaseInv
<1> QED BY <1>2, <1>3 DEF Tick, Restart, vars

\* Every step.
LEMMA NextLease ==
    SafeInv /\ CallsApart /\ CallsApart' /\ SequentialInv /\ LeaseInv /\ [Next]_vars => LeaseInv'
<1> SUFFICES ASSUME SafeInv, CallsApart, CallsApart', SequentialInv, LeaseInv, [Next]_vars,
                    faults' = 0
             PROVE  LeaseInv'
  BY DEF LeaseInv
<1>0. faults \in Nat
  BY DEF SafeInv, TypeOK
<1>1. ASSUME NEW t \in Tasks, ClientCall(t) PROVE LeaseInv'
  <2>1. Context
    BY <1>1 DEF Context, ClientCall, Start, Create, Resume, Cancel, RetryFromDlq,
                ScanAndRecover, Begin
  <2> QED BY <1>1, <2>1, ClientCallLease
<1>2. ASSUME NEW t \in Tasks, Progress(t) PROVE LeaseInv'
  <2>1. CASE faults = 0
    <3>1. Context
      BY <2>1 DEF Context
    <3> QED BY <1>2, <3>1, ReadsLease, WritesLease, CancelLeaseLease, RecoverReleaseLease,
               RecoverNextLease, SavesLease, CheckpointsLease DEF Progress
  <2>2. CASE faults # 0
    <3>1. faults' = faults \/ StoreFault
      BY <1>2 DEF Progress, StartSaveRun, CreateSaveRun, CreateSaveCheckpoint, LoadRun,
         LoadCheckpoint, SaveRunning, AcquireGet, FetchFence, Grant, RenewGet, RenewPut,
         ValidateFence, ExecuteRun, JournalAppend, SaveCheckpoint, KeepGet, KeepPut,
         SaveCompleted, HandleFailure, ReleaseGet, ReleaseDelete, CancelSave, CancelLease,
         RecoverNext, RecoverRelease, RecoverDelete, RecoverLoad, Requeue, EnqueueDeadLetter,
         MarkFailed, DlqLoad, DlqSave, DlqRemove, save_run, Local, NoFault, PutLease, DeleteLease
    <3> QED BY <1>0, <2>2, <3>1 DEF StoreFault
  <2> QED BY <2>1, <2>2
<1>3. ASSUME NEW t \in Tasks, StorageError(t) PROVE LeaseInv'
  BY <1>0, <1>3 DEF StorageError, StoreFault
<1>4. CASE Tick \/ Restart \/ UNCHANGED vars
  <2>1. Context
    BY <1>4 DEF Context, Tick, Restart, vars, env
  <2> QED BY <1>4, <2>1, EnvironmentLease
<1> QED BY <1>1, <1>2, <1>3, <1>4 DEF Next, Quiescent

\* On a store that does not fail, a run that is recorded as running and has a
\* checkpoint has a lease for scan_expired to find, wherever the process died,
\* as long as the calls on one run do not overlap.
THEOREM InterruptedFound == Spec /\ []CallsApart => []InterruptedRunHasLease
<1>1. Init => LeaseInv
  <2> SUFFICES ASSUME Init PROVE LeaseInv
    OBVIOUS
  <2>1. Idle.todo = {} /\ Idle.pc = "idle"
    BY DEF Idle
  <2>2. ASSUME NEW t \in Tasks PROVE LeaseKept(task[t]) /\ task[t].todo = {}
    BY <2>1 DEF Init, LeaseKept, Leased, Executing
  <2>3. RunningHasLease /\ AbsentHasNone
    BY DEF Init, RunningHasLease, AbsentHasNone, AbsentRun
  <2> QED BY <2>2, <2>3 DEF LeaseInv, ScansStale
<1>2. LeaseInv => InterruptedRunHasLease
  BY DEF LeaseInv, RunningHasLease, InterruptedRunHasLease
<1> QED BY <1>1, <1>2, NextLease, Safety, Sequential, PTL DEF Spec
=============================================================================

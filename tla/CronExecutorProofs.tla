------------------------- MODULE CronExecutorProofs -------------------------
(***************************************************************************)
(* TLAPS proofs about CronExecutor, for every set of tasks, dependencies   *)
(* and futures, both chain modes and every value of the bounds.            *)
(***************************************************************************)
EXTENDS CronExecutor, FiniteSetTheorems, TLAPS

Fields == {"pc", "via", "id", "skip", "own", "todo", "used", "known", "inject", "log"}

\* A future has a log of its own with a status once its agent is done, and its
\* task has one by the time the future goes to save.
Future(k, newest) ==
    /\ DOMAIN k = Fields /\ k.pc \in PCs /\ k.log \in Log
    /\ k.pc # "idle" => k.id \in Ids
    /\ k.pc \in {"append", "save"} => k.log.status # "none"
    /\ k.pc = "save" => newest[k.id].status # "none"

SharedTyped ==
    /\ skip \in [Ids -> BOOLEAN] /\ running \subseteq Ids
    /\ clock \in Nat /\ begun \in Nat
    /\ latest \in [Ids -> Log] /\ saved \in [Ids -> SUBSET Log]
    /\ \A id \in Ids : \A l \in saved[id] : l.status # "none"

TypeInv == SharedTyped /\ DOMAIN exec = Slots /\ \A s \in Slots : Future(exec[s], latest)

\* Nothing has run.
LEMMA InitType == Init => TypeInv
BY DEF Init, TypeInv, SharedTyped, Future, Idle, NoLog, Log, Statuses, PCs, Fields

\* A step of future s that keeps the shared state typed and takes no task's
\* newest log away.
LEMMA FutureStep ==
    ASSUME TypeInv, SharedTyped', NEW s \in Slots, NEW k, exec' = [exec EXCEPT ![s] = k],
           Future(k, latest'), \A id \in Ids : latest[id].status # "none" => latest'[id].status # "none"
    PROVE  TypeInv'
BY DEF TypeInv, Future

\* A future that ends.
LEMMA IdleTyped == \A newest : Future(Idle, newest)
BY DEF Future, Idle, Fields, PCs, NoLog, Log, Statuses

\* Every step keeps the types.
LEMMA StepType == TypeInv /\ [Next]_vars => TypeInv'
<1> SUFFICES ASSUME TypeInv, [Next]_vars PROVE TypeInv'
  OBVIOUS
<1>0. SharedTyped /\ DOMAIN exec = Slots /\ \A s \in Slots : Future(exec[s], latest)
  BY DEF TypeInv
<1> USE DEF At, Id, Become, Fields, PCs, memory, history, Quiet, NoFault, StoreFault, Event
<1>1. ASSUME NEW s \in Slots, NEW id \in Ids, Fire(s, id) \/ Trigger(s, id) PROVE TypeInv'
  <2>1. /\ begun' = begun + 1 /\ UNCHANGED <<skip, running, latest, saved, clock>>
        /\ \E v \in {"tick", "trigger"}, p \in {"mark", "own"} :
             exec' = [exec EXCEPT ![s] = [Idle EXCEPT !.pc = p, !.via = v, !.id = id,
                                            !.skip = skip[id], !.log.run = begun + 1]]
    BY <1>1 DEF Fire, Trigger, Begin
  <2>2. SharedTyped'
    BY <1>0, <2>1 DEF SharedTyped
  <2>3. [NoLog EXCEPT !.run = begun + 1] \in Log
    BY <1>0 DEF NoLog, Log, Statuses, SharedTyped
  <2>4. ASSUME NEW v, NEW p \in {"mark", "own"}
        PROVE  Future([Idle EXCEPT !.pc = p, !.via = v, !.id = id, !.skip = skip[id],
                                   !.log.run = begun + 1], latest')
    BY <2>1, <2>3, IdleTyped DEF Future, Idle
  <2> QED BY <2>1, <2>2, <2>4, FutureStep
<1>2. ASSUME NEW s \in Slots, ReadOwn(s) PROVE TypeInv'
  <2>1. SharedTyped' /\ UNCHANGED latest
    BY <1>0, <1>2 DEF ReadOwn, SharedTyped
  <2>2. \A own, known :
          /\ Future([exec[s] EXCEPT !.pc = "resolve", !.todo = DependsOn[Id(s)]], latest')
          /\ Future([[exec[s] EXCEPT !.pc = "resolve", !.todo = DependsOn[Id(s)]]
                       EXCEPT !.own = own, !.known = known], latest')
    BY <1>0, <1>2 DEF ReadOwn, Future
  <2> QED BY <1>2, <2>1, <2>2, FutureStep DEF ReadOwn
<1>3. ASSUME NEW s \in Slots, Resolve(s) PROVE TypeInv'
  BY <1>3 DEF Resolve, TypeInv, Future, SharedTyped
<1>4. ASSUME NEW s \in Slots, Resolved(s) PROVE TypeInv'
  BY <1>4 DEF Resolved, TypeInv, Future, SharedTyped
<1>5. ASSUME NEW s \in Slots, SaveSkipped(s) PROVE TypeInv'
  <2>1. exec[s].id \in Ids /\ exec[s].log.run \in Nat
    BY <1>0, <1>5 DEF SaveSkipped, Future, Log
  <2>2. [run |-> exec[s].log.run, started |-> clock + 1, finished |-> clock + 1,
         status |-> "skipped"] \in Log
    BY <1>0, <2>1 DEF SharedTyped, Log, Statuses
  <2>3. SharedTyped' /\ UNCHANGED latest
    BY <1>0, <1>5, <2>1, <2>2 DEF SaveSkipped, SharedTyped
  <2> QED BY <1>5, <2>3, IdleTyped, FutureStep DEF SaveSkipped
<1>6. ASSUME NEW s \in Slots, Mark(s) PROVE TypeInv'
  <2>0. exec[s].id \in Ids
    BY <1>0, <1>6 DEF Mark, Future
  <2>1. CASE Marked(s)
    BY <1>6, <2>1 DEF Mark, Marked, Log, TypeInv, SharedTyped, Future
  <2>2. CASE Overlap(s)
    <3> DEFINE log == [exec[s].log EXCEPT !.started = clock, !.finished = clock,
                                          !.status = "skipped"]
    <3>1. log \in Log /\ log.status = "skipped"
      BY <1>0 DEF Future, Log, Statuses, SharedTyped
    <3> HIDE DEF log
    <3>2. /\ latest' = [latest EXCEPT ![Id(s)] = log]
          /\ UNCHANGED <<skip, running, clock, begun, saved>>
      BY <1>6, <2>2 DEF Mark, Overlap, log
    <3>3. SharedTyped' /\ latest'[Id(s)].status # "none"
      BY <1>0, <2>0, <3>1, <3>2 DEF SharedTyped
    <3>4. Future([[exec[s] EXCEPT !.log = log] EXCEPT !.pc = "save"], latest')
      BY <1>0, <2>0, <3>1, <3>3 DEF Future
    <3>5. \A id \in Ids : latest[id].status # "none" => latest'[id].status # "none"
      BY <1>0, <3>2, <3>3 DEF SharedTyped
    <3>6. \/ exec' = [exec EXCEPT ![s] = Idle]
          \/ exec' = [exec EXCEPT ![s] = [[exec[s] EXCEPT !.log = log] EXCEPT !.pc = "save"]]
      BY <2>2 DEF Overlap, Then, AfterError, log
    <3> QED BY <3>3, <3>4, <3>5, <3>6, IdleTyped, FutureStep
  <2> QED BY <1>6, <2>1, <2>2 DEF Mark
<1>7. ASSUME NEW s \in Slots, Answer(s) PROVE TypeInv'
  <2>1. PICK status \in {"succeeded", "failed", "timed_out"} : Outcome(s, status)
    BY <1>7 DEF Answer
  <2>2. clock' \in Nat
    BY <1>0, <2>1 DEF Outcome, SharedTyped
  <2>3. SharedTyped' /\ UNCHANGED latest
    BY <1>0, <1>7, <2>2 DEF Answer, SharedTyped
  <2>4. [exec[s].log EXCEPT !.finished = clock', !.status = status] \in Log
    <3>1. exec[s].log \in Log
      BY <1>0 DEF Future
    <3> QED BY <2>1, <2>2, <3>1 DEF Log, Statuses
  <2>5. Future([exec[s] EXCEPT !.pc = "append", !.log.finished = clock', !.log.status = status], latest')
    BY <1>0, <1>7, <2>4 DEF Answer, Future, Log
  <2> QED BY <2>1, <2>3, <2>5, FutureStep DEF Outcome
<1>8. ASSUME NEW s \in Slots, AppendLog(s) PROVE TypeInv'
  BY <1>8 DEF AppendLog, Then, AfterError, Idle, NoLog, Log, Statuses, TypeInv, SharedTyped, Future
<1>9. ASSUME NEW s \in Slots, SaveLog(s) PROVE TypeInv'
  <2>1. exec[s].id \in Ids /\ LogToSave(s) \in Log /\ LogToSave(s).status # "none"
    BY <1>0, <1>9 DEF SaveLog, LogToSave, Future, SharedTyped
  <2>2. SharedTyped' /\ UNCHANGED latest
    BY <1>0, <1>9, <2>1 DEF SaveLog, SharedTyped
  <2> QED BY <1>9, <2>2, IdleTyped, FutureStep DEF SaveLog
<1>10. ASSUME NEW s \in Slots, Drop(s) PROVE TypeInv'
  BY <1>10 DEF Drop, Idle, NoLog, Log, Statuses, TypeInv, SharedTyped, Future
<1>11. ASSUME NEW id \in Ids, Edit(id) PROVE TypeInv'
  BY <1>11 DEF Edit, TypeInv, SharedTyped, Future
<1>12. CASE Crash
  BY <1>12 DEF Crash, Idle, NoLog, Log, Statuses, TypeInv, SharedTyped, Future
<1>13. CASE UNCHANGED vars
  BY <1>13 DEF vars, TypeInv, SharedTyped, Future
<1> QED
  BY <1>1, <1>2, <1>3, <1>4, <1>5, <1>6, <1>7, <1>8, <1>9, <1>10, <1>11, <1>12, <1>13
  DEF Next, UpToAnswer, Rest

\* Every variable keeps its type, and only finished executions go on record.
THEOREM TypesHold == Spec => []TypeOK
<1>1. TypeInv => TypeOK
  BY DEF TypeInv, SharedTyped, Future, TypeOK, At, Id
<1> QED BY <1>1, InitType, StepType, PTL DEF Spec

-----------------------------------------------------------------------------
(* The running set *)

\* Executions of a task that was never run without skip_if_running are marked
\* and alone; a mark without an execution was leaked.
MarkInv ==
    /\ \A s \in Slots : At(s, "agent") /\ Id(s) \notin mixed => Id(s) \in running
    /\ \A s, u \in Slots :
          At(s, "agent") /\ At(u, "agent") /\ Id(s) = Id(u) /\ Id(s) \notin mixed => s = u
    /\ \A id \in running \ (mixed \cup leaked) : \E s \in Slots : At(s, "agent") /\ Id(s) = id

\* Future s has the successful log of run r and will save it: tick finds it as
\* the newest of the task.
Carries(s, r) ==
    /\ exec[s].pc \in {"append", "save"}
    /\ exec[s].log.run = r /\ exec[s].log.status = "succeeded"
    /\ At(s, "save") /\ exec[s].via # "trigger" => latest[Id(s)] = exec[s].log

\* A success that is owed is on record or on its way there.
OwedInv == \A r \in owed : OnRecord(r) \/ \E s \in Slots : Carries(s, r)

ExecInv == TypeInv /\ MarkInv /\ OwedInv

\* Nothing has run.
LEMMA InitExec == Init => ExecInv
<1> SUFFICES ASSUME Init PROVE MarkInv /\ OwedInv
  BY InitType DEF ExecInv
<1> QED BY DEF Init, MarkInv, OwedInv, Idle, At, Id

\* A step changes no future but that in slot s.
OnlyOf(s) == \A u \in Slots \ {s} : exec'[u] = exec[u]

\* A step of a future that is not at its agent, before or after, leaves the marks alone.
LEMMA OutsideAgent ==
    ASSUME MarkInv, NEW s \in Slots, OnlyOf(s), ~At(s, "agent"), ~At(s, "agent")', UNCHANGED <<running, mixed, leaked>>
    PROVE  MarkInv'
BY DEF MarkInv, OnlyOf, At, Id

\* A log once saved stays.
SavedStays == \A id \in Ids : saved[id] \subseteq saved'[id]

\* A step of future s that outruns no success that is still owed, and does for
\* what s itself carries what OwedInv asks.
LEMMA OwedStep ==
    ASSUME TypeInv, OwedInv, NEW s \in Slots, OnlyOf(s), SavedStays, owed' \subseteq owed,
           \/ UNCHANGED latest
           \/ /\ owed' \subseteq owed \ Outrun(s)
              /\ \A id \in Ids : id # Id(s) => latest'[id] = latest[id],
           \A r \in owed' : Carries(s, r) => OnRecord(r)' \/ Carries(s, r)'
    PROVE  OwedInv'
<1> SUFFICES ASSUME NEW r \in owed' PROVE OnRecord(r)' \/ \E u \in Slots : Carries(u, r)'
  BY DEF OwedInv
<1>1. CASE OnRecord(r)
  BY <1>1 DEF OnRecord, SavedStays
<1>2. ASSUME NEW u \in Slots, Carries(u, r), u # s PROVE Carries(u, r)'
  <2>1. exec'[u] = exec[u] /\ Id(u) \in Ids
    BY <1>2 DEF OnlyOf, Carries, TypeInv, Future, Id
  <2>2. CASE UNCHANGED latest
    BY <1>2, <2>1, <2>2 DEF Carries, At, Id
  <2>3. CASE /\ owed' \subseteq owed \ Outrun(s)
             /\ \A id \in Ids : id # Id(s) => latest'[id] = latest[id]
    <3>1. At(u, "save") /\ exec[u].via # "trigger" => Id(u) # Id(s)
      <4> SUFFICES ASSUME At(u, "save"), exec[u].via # "trigger", Id(u) = Id(s) PROVE FALSE
        OBVIOUS
      <4>1. r \in Outrun(s)
        BY <1>2 DEF Outrun, Carries
      <4> QED BY <2>3, <4>1
    <3> QED BY <1>2, <2>1, <2>3, <3>1 DEF Carries, At, Id
  <2> QED BY <2>2, <2>3
<1> QED BY <1>1, <1>2 DEF OwedInv

\* A step of a future that does not carry an owed success owes no more and no less.
LEMMA NothingOwed ==
    ASSUME TypeInv, OwedInv, NEW s \in Slots, OnlyOf(s), SavedStays, UNCHANGED <<owed, latest>>,
           exec[s].pc \notin {"append", "save"}
    PROVE  OwedInv'
BY OwedStep DEF Carries

\* Every step of the futures and of their environment keeps the invariant.
LEMMA StepExec == ExecInv /\ [Next]_vars => ExecInv'
<1> SUFFICES ASSUME ExecInv, [Next]_vars PROVE MarkInv' /\ OwedInv'
  BY StepType DEF ExecInv
<1>0. /\ TypeInv /\ MarkInv /\ OwedInv /\ DOMAIN exec = Slots
      /\ \A s \in Slots : DOMAIN exec[s] = Fields /\ exec[s].log \in Log
      /\ \A s \in Slots : ~At(s, "idle") => Id(s) \in Ids
      /\ DOMAIN latest = Ids /\ DOMAIN saved = Ids
  BY DEF ExecInv, TypeInv, SharedTyped, Future, At, Id
<1> USE DEF At, Id, Become, Fields, PCs, memory, history, Quiet, NoFault, StoreFault, Event
<1>1. ASSUME NEW s \in Slots, NEW id \in Ids, Fire(s, id) \/ Trigger(s, id)
      PROVE  MarkInv' /\ OwedInv'
  <2>1. PICK via \in {"tick", "trigger"}, p \in {"mark", "own"} : Begin(s, id, via, p)
    BY <1>1 DEF Fire, Trigger
  <2>2. /\ At(s, "idle") /\ UNCHANGED <<running, mixed, leaked, owed, latest>> /\ SavedStays
        /\ OnlyOf(s) /\ exec'[s].pc \in {"mark", "own"}
    BY <1>0, <2>1 DEF Begin, Idle, OnlyOf, SavedStays
  <2> QED BY <1>0, <2>2, OutsideAgent, NothingOwed
<1>2. ASSUME NEW s \in Slots, ReadOwn(s) PROVE MarkInv' /\ OwedInv'
  <2>1. /\ At(s, "own") /\ UNCHANGED <<running, mixed, leaked, owed, latest>> /\ SavedStays
        /\ OnlyOf(s) /\ exec'[s].pc = "resolve"
    BY <1>0, <1>2 DEF ReadOwn, OnlyOf, SavedStays
  <2> QED BY <1>0, <2>1, OutsideAgent, NothingOwed
<1>3. ASSUME NEW s \in Slots, Resolve(s) \/ Resolved(s) PROVE MarkInv' /\ OwedInv'
  <2>1. /\ At(s, "resolve") /\ UNCHANGED <<running, mixed, leaked, owed, latest>> /\ SavedStays
        /\ OnlyOf(s) /\ exec'[s].pc \in {"resolve", "mark"}
    BY <1>0, <1>3 DEF Resolve, Resolved, OnlyOf, SavedStays
  <2> QED BY <1>0, <2>1, OutsideAgent, NothingOwed
<1>4. ASSUME NEW s \in Slots, SaveSkipped(s) PROVE MarkInv' /\ OwedInv'
  <2>1. /\ At(s, "resolve") /\ UNCHANGED <<running, mixed, leaked, owed, latest>> /\ SavedStays
        /\ OnlyOf(s) /\ exec'[s].pc = "idle"
    BY <1>0, <1>4 DEF SaveSkipped, Idle, OnlyOf, SavedStays
  <2> QED BY <1>0, <2>1, OutsideAgent, NothingOwed
<1>5. ASSUME NEW s \in Slots, Mark(s) PROVE MarkInv' /\ OwedInv'
  <2>1. CASE Marked(s) /\ ~(exec[s].skip /\ Id(s) \in running)
    <3>1. /\ At(s, "mark") /\ UNCHANGED <<leaked, owed, latest>> /\ SavedStays
          /\ running' = running \cup {Id(s)}
          /\ (exec[s].skip /\ mixed' = mixed) \/ mixed' = mixed \cup {Id(s)}
      BY <1>5, <2>1 DEF Mark, Marked, SavedStays
    <3>2. OnlyOf(s) /\ exec'[s].pc = "agent" /\ exec'[s].id = Id(s)
      BY <1>0, <2>1 DEF Marked, OnlyOf
    <3>3. MarkInv'
      BY <1>0, <2>1, <3>1, <3>2 DEF MarkInv, OnlyOf
    <3> QED BY <1>0, <3>1, <3>2, <3>3, NothingOwed
  <2>2. CASE Overlap(s)
    <3>1. /\ At(s, "mark") /\ UNCHANGED <<running, mixed, leaked>> /\ SavedStays
          /\ OnlyOf(s) /\ exec'[s].pc \in {"save", "idle"}
          /\ owed' = owed \ Outrun(s) /\ \A id \in Ids : id # Id(s) => latest'[id] = latest[id]
      BY <1>0, <1>5, <2>2 DEF Mark, Overlap, Then, AfterError, Idle, OnlyOf, SavedStays
    <3>2. OwedInv'
      BY <1>0, <3>1, OwedStep DEF Carries
    <3> QED BY <1>0, <3>1, <3>2, OutsideAgent
  <2> QED BY <1>5, <2>1, <2>2 DEF Mark
<1>6. ASSUME NEW s \in Slots, Answer(s) PROVE MarkInv' /\ OwedInv'
  <2>1. PICK status \in {"succeeded", "failed", "timed_out"} : Outcome(s, status)
    BY <1>6 DEF Answer
  <2>2. /\ At(s, "agent") /\ running' = running \ {Id(s)} /\ UNCHANGED <<mixed, leaked, latest, saved>>
        /\ owed' = IF status = "succeeded" THEN owed \cup {exec[s].log.run} ELSE owed
    BY <1>6, <2>1 DEF Answer, Outcome
  <2>3. /\ OnlyOf(s) /\ exec'[s].pc = "append" /\ exec'[s].id = Id(s)
        /\ exec'[s].log.run = exec[s].log.run /\ exec'[s].log.status = status
    BY <1>0, <2>1 DEF Outcome, Log, OnlyOf
  <2>4. MarkInv'
    BY <1>0, <2>2, <2>3 DEF MarkInv, OnlyOf
  <2>5. OwedInv'
    <3> SUFFICES ASSUME NEW r \in owed' PROVE OnRecord(r)' \/ \E u \in Slots : Carries(u, r)'
      BY DEF OwedInv
    <3>1. CASE r \in owed
      <4>1. OnRecord(r) => OnRecord(r)'
        BY <2>2 DEF OnRecord
      <4>2. ASSUME NEW u \in Slots, Carries(u, r) PROVE Carries(u, r)'
        BY <2>2, <2>3, <4>2 DEF Carries, OnlyOf
      <4> QED BY <1>0, <3>1, <4>1, <4>2 DEF OwedInv
    <3>2. CASE r \notin owed
      <4>1. Carries(s, r)'
        BY <2>2, <2>3, <3>2 DEF Carries
      <4> QED BY <4>1
    <3> QED BY <3>1, <3>2
  <2> QED BY <2>4, <2>5
<1>7. ASSUME NEW s \in Slots, AppendLog(s) PROVE MarkInv' /\ OwedInv'
  <2>1. /\ At(s, "append") /\ UNCHANGED <<running, mixed, leaked>> /\ SavedStays
        /\ owed' = owed \ Outrun(s) /\ \A id \in Ids : id # Id(s) => latest'[id] = latest[id]
        /\ latest'[Id(s)] = exec[s].log
    BY <1>0, <1>7 DEF AppendLog, SavedStays
  <2>2. /\ OnlyOf(s) /\ exec'[s].pc \in {"save", "idle"}
        /\ exec[s].log.status = "succeeded" =>
             exec'[s].pc = "save" /\ exec'[s].log = exec[s].log /\ exec'[s].id = exec[s].id
    BY <1>0, <1>7 DEF AppendLog, Then, AfterError, Idle, OnlyOf
  <2>3. MarkInv'
    BY <1>0, <2>1, <2>2, OutsideAgent
  <2>4. \A r \in owed' : Carries(s, r) => Carries(s, r)'
    BY <2>1, <2>2 DEF Carries
  <2>5. OwedInv'
    BY <1>0, <2>1, <2>2, <2>4, OwedStep
  <2> QED BY <2>3, <2>5
<1>8. ASSUME NEW s \in Slots, SaveLog(s) PROVE MarkInv' /\ OwedInv'
  <2>1. /\ At(s, "save") /\ UNCHANGED <<running, mixed, leaked, latest>>
        /\ OnlyOf(s) /\ exec'[s].pc = "idle"
        /\ SavedStays /\ owed' \subseteq owed
    BY <1>0, <1>8 DEF SaveLog, Idle, OnlyOf, SavedStays
  <2>2. ASSUME NEW r \in owed', Carries(s, r) PROVE OnRecord(r)'
    <3>1. exec[s].log.run = r /\ exec[s].log.status = "succeeded" /\ LogToSave(s) = exec[s].log
      BY <2>1, <2>2 DEF Carries, LogToSave
    <3>2. saved' = [saved EXCEPT ![Id(s)] = @ \cup {exec[s].log}]
      BY <1>8, <2>2, <3>1 DEF SaveLog
    <3>3. Id(s) \in Ids /\ exec[s].log \in saved'[Id(s)]
      BY <1>0, <2>1, <3>2
    <3> QED BY <3>1, <3>3 DEF OnRecord
  <2>3. OwedInv'
    BY <1>0, <2>1, <2>2, OwedStep
  <2> QED BY <1>0, <2>1, <2>3, OutsideAgent
<1>9. ASSUME NEW s \in Slots, Drop(s) PROVE MarkInv' /\ OwedInv'
  <2>1. /\ owed' = owed \ {exec[s].log.run} /\ UNCHANGED <<running, mixed, latest>> /\ SavedStays
        /\ leaked' = IF At(s, "agent") THEN leaked \cup {Id(s)} ELSE leaked
        /\ OnlyOf(s) /\ exec'[s].pc = "idle"
    BY <1>0, <1>9 DEF Drop, Idle, OnlyOf, SavedStays
  <2>2. MarkInv'
    BY <1>0, <2>1 DEF MarkInv, OnlyOf
  <2>3. \A r \in owed' : ~Carries(s, r)
    BY <2>1 DEF Carries
  <2> QED BY <1>0, <2>1, <2>2, <2>3, OwedStep
<1>10. ASSUME NEW id \in Ids, Edit(id) PROVE MarkInv' /\ OwedInv'
  BY <1>0, <1>10 DEF Edit, MarkInv, OwedInv, Carries, OnRecord
<1>11. CASE Crash
  <2>1. MarkInv'
    BY <1>0, <1>11 DEF Crash, MarkInv, Idle
  <2>2. OwedInv'
    BY <1>0, <1>11 DEF Crash, OwedInv, OnRecord, Carries
  <2> QED BY <2>1, <2>2
<1>12. CASE UNCHANGED vars
  BY <1>0, <1>12 DEF vars, MarkInv, OwedInv, Carries, OnRecord
<1> QED
  BY <1>1, <1>2, <1>3, <1>4, <1>5, <1>6, <1>7, <1>8, <1>9, <1>10, <1>11, <1>12
  DEF Next, UpToAnswer, Rest

\* skip_if_running keeps the executions of a task apart, whichever of tick and
\* trigger starts them and whatever fails in between.
THEOREM Apart == Spec => []OneAtATime
<1>1. ASSUME ExecInv PROVE OneAtATime
  <2> SUFFICES ASSUME NEW id \in Ids \ mixed PROVE Cardinality(Executing(id)) <= 1
    BY DEF OneAtATime
  <2>1. CASE Executing(id) = {}
    BY <2>1, FS_EmptySet
  <2>2. CASE Executing(id) # {}
    <3>1. PICK s : s \in Executing(id)
      BY <2>2
    <3>2. Executing(id) = {s}
      BY <1>1, <3>1 DEF Executing, ExecInv, MarkInv, At, Id
    <3>3. Cardinality({s}) = 1
      BY FS_Singleton
    <3> QED BY <3>2, <3>3
  <2> QED BY <2>1, <2>2
<1> QED BY <1>1, InitExec, StepExec, PTL DEF Spec

\* The running set tells which tasks have an execution in progress.
THEOREM MarksTrue == Spec => []MarkAccurate
<1>1. ExecInv => MarkAccurate
  BY DEF ExecInv, MarkInv, MarkAccurate, Executing, At, Id
<1> QED BY <1>1, InitExec, StepExec, PTL DEF Spec

\* Every success ends up among the persisted logs, as a success, or is still in
\* the hands of its future: however executions of the task interleave between
\* append_log and task_logs, unless one of the named losses met it.
THEOREM SuccessesSaved == Spec => []SuccessRecorded
<1>1. ExecInv => SuccessRecorded
  BY DEF ExecInv, OwedInv, SuccessRecorded, Carries
<1> QED BY <1>1, InitExec, StepExec, PTL DEF Spec
-----------------------------------------------------------------------------
(* Results of predecessors *)

\* Successes on record for a task.
Successes(id) == {l \in saved[id] : l.status = "succeeded"}

\* l is a success, on record, in memory or with the future that is to append or
\* save it.
InSuccess(l) ==
    /\ l.status = "succeeded"
    /\ \/ \E p \in Ids : l \in saved[p] \/ l = latest[p]
       \/ \E s \in Slots : exec[s].pc \in {"append", "save"} /\ l = exec[s].log

\* Logs of successes wherever they are: on record, in memory or with the future
\* that is to append or save them.
Done ==
    {l \in UNION ({saved[p] : p \in Ids} \cup {{latest[p]} : p \in Ids} \cup {{exec[s].log} : s \in Slots}) :
        InSuccess(l)}

\* A run has one log, whose times have passed, and none before its agent is done.
RunsApart ==
    /\ \A l, m \in Done : l.run = m.run => l = m
    /\ \A l \in Done : l.run <= begun /\ l.started <= l.finished /\ l.finished <= clock
    /\ \A s \in Slots : ~At(s, "idle") =>
          /\ exec[s].log.run <= begun
          /\ exec[s].pc \notin {"append", "save"} => \A l \in Done : l.run # exec[s].log.run
          /\ At(s, "agent") => exec[s].log.started <= clock
    /\ \A s, u \in Slots : ~At(s, "idle") /\ ~At(u, "idle") /\ exec[s].log.run = exec[u].log.run => s = u

\* A result the future s may use or knows to be used is on record.
Recorded(r) == {l \in UNION {Successes(p) : p \in Ids} : l.run = r}

ResultsOf(s) ==
    /\ exec[s].own \in Nat /\ exec[s].todo \subseteq Ids
    /\ At(s, "own") => exec[s].used = {}
    /\ \A r \in exec[s].used : \E m \in Recorded(r) :
          /\ m.finished > exec[s].own
          /\ exec[s].pc \in {"append", "save"} /\ exec[s].log.status = "succeeded" =>
                m.finished <= exec[s].log.finished
    /\ Id(s) \notin overlapped =>
          \A r \in exec[s].known : \E m \in Recorded(r) : m.finished <= exec[s].own

\* The executions of task id, while they do not overlap: their successes come one
\* after the other, each later than the results it was based on.
InTurn(id) ==
    /\ \A s, u \in Slots : ~At(s, "idle") /\ ~At(u, "idle") /\ Id(s) = id /\ Id(u) = id => s = u
    /\ \A s \in Slots : At(s, "save") /\ Id(s) = id => latest[id] = exec[s].log
    /\ \A l, m \in Successes(id) : l = m \/ l.finished < m.started \/ m.finished < l.started
    /\ \A s \in Slots : /\ Id(s) = id /\ exec[s].pc \in {"agent", "append", "save"}
                        /\ exec[s].pc = "save" => exec[s].log.status = "succeeded"
                        => \A l \in Successes(id) : l.finished < exec[s].log.started
    /\ \A x \in spent : x[1] = id =>
          \E m \in Recorded(x[2]), l \in Successes(id) : m.finished <= l.finished

\* The logs of a task are finitely many, and one of its successes is the newest.
Newest(id) ==
    /\ IsFiniteSet(saved[id])
    /\ Successes(id) # {} => \E l \in Successes(id) : \A m \in Successes(id) : m.started <= l.started

ResultInv ==
    /\ RunsApart
    /\ \A s \in Slots : ResultsOf(s)
    /\ \A id \in Ids \ overlapped : InTurn(id)
    /\ \A id \in Ids : Newest(id)

\* Membership in Done, now and after a step.
LEMMA InDone == \A l : l \in Done <=> InSuccess(l)
<1> SUFFICES ASSUME NEW l, InSuccess(l) PROVE l \in Done
  BY DEF Done
<1>1. CASE \E p \in Ids : l \in saved[p]
  BY <1>1, Zenon DEF Done
<1>2. CASE \E p \in Ids : l = latest[p]
  BY <1>2, Zenon DEF Done
<1>3. CASE \E s \in Slots : l = exec[s].log
  BY <1>3, Zenon DEF Done
<1> QED BY <1>1, <1>2, <1>3 DEF InSuccess

LEMMA InDoneNext == \A l : l \in Done' <=> InSuccess(l)'
<1>1. ASSUME NEW l, l \in Done' PROVE InSuccess(l)'
  BY <1>1 DEF Done
<1>2. ASSUME NEW l, InSuccess(l)' PROVE l \in Done'
  <2>1. CASE \E p \in Ids : l \in saved'[p]
    BY <1>2, <2>1, Zenon DEF Done
  <2>2. CASE \E p \in Ids : l = latest'[p]
    BY <1>2, <2>2, Zenon DEF Done
  <2>3. CASE \E s \in Slots : l = exec'[s].log
    BY <1>2, <2>3, Zenon DEF Done
  <2> QED BY <1>2, <2>1, <2>2, <2>3 DEF InSuccess
<1> QED BY <1>1, <1>2

\* Nothing has run.
LEMMA InitResult == Init => ResultInv
<1> SUFFICES ASSUME Init PROVE ResultInv
  OBVIOUS
<1>1. \A id \in Ids : saved[id] = {} /\ Successes(id) = {}
  BY DEF Init, Successes
<1>2. Done = {}
  <2>1. \A l : ~InSuccess(l)
    BY DEF Init, InSuccess, Idle, NoLog
  <2> QED BY <2>1, InDone
<1>3. RunsApart
  BY <1>2 DEF Init, RunsApart, Idle, At
<1>4. \A s \in Slots : ResultsOf(s)
  BY DEF Init, ResultsOf, Idle, At
<1>5. \A id \in Ids : InTurn(id)
  BY <1>1 DEF Init, InTurn, Idle, At
<1>6. \A id \in Ids : Newest(id)
  BY <1>1, FS_EmptySet DEF Newest
<1> QED BY <1>3, <1>4, <1>5, <1>6 DEF ResultInv

\* last_success is the newest success on record, if the window reaches it.
LEMMA LastSuccess ==
    ASSUME TypeInv, NEW id \in Ids, Newest(id), last_success(id) # NoLog
    PROVE  /\ last_success(id) \in Successes(id)
           /\ \A m \in Successes(id) : m.started <= last_success(id).started
<1> DEFINE newer(l) == {m \in saved[id] : m.started > l.started}
           good == {l \in load_logs(id) : l.status = "succeeded"}
<1>1. /\ saved[id] \subseteq Log /\ IsFiniteSet(saved[id])
      /\ \A l \in saved[id] : l.started \in Nat
  BY DEF TypeInv, SharedTyped, Newest, Log
<1>2. ASSUME NEW l \in load_logs(id), NEW m \in saved[id], l.started <= m.started
      PROVE  m \in load_logs(id)
  <2>1. l \in saved[id] /\ Cardinality(newer(l)) < Window
    BY DEF load_logs
  <2>2. newer(m) \subseteq newer(l)
    BY <1>1, <1>2, <2>1
  <2>3. IsFiniteSet(newer(l))
    BY <1>1, FS_Subset
  <2>4. /\ Cardinality(newer(m)) <= Cardinality(newer(l))
        /\ Cardinality(newer(m)) \in Nat /\ Cardinality(newer(l)) \in Nat
    BY <2>2, <2>3, FS_Subset, FS_CardinalityType
  <2>5. Cardinality(newer(m)) < Window
    BY <2>1, <2>4, CronConstants
  <2> QED BY <2>5 DEF load_logs
<1>3. good # {} /\ good \subseteq Successes(id)
  BY DEF last_success, load_logs, Successes
<1>4. PICK top \in Successes(id) : \A m \in Successes(id) : m.started <= top.started
  BY <1>3 DEF Newest
<1>5. top \in good
  BY <1>2, <1>3, <1>4 DEF Successes
<1>6. \E l \in good : \A m \in good : m.started <= l.started
  BY <1>3, <1>4, <1>5
<1>7. last_success(id) = CHOOSE l \in good : \A m \in good : m.started <= l.started
  BY <1>3 DEF last_success
<1>8. last_success(id) \in good /\ \A m \in good : m.started <= last_success(id).started
  BY <1>6, <1>7
<1>9. top.started <= last_success(id).started
  BY <1>5, <1>8
<1>10. \A m \in Successes(id) : m.started \in Nat
  BY <1>1 DEF Successes
<1> QED BY <1>3, <1>4, <1>8, <1>9, <1>10

-----------------------------------------------------------------------------
\* What the invariant says of Log fields.
LEMMA LogFields ==
    ASSUME TypeInv
    PROVE  /\ \A l \in Log : /\ l.run \in Nat /\ l.started \in Nat /\ l.finished \in Nat
                             /\ l.status \in Statuses
           /\ \A id \in Ids : saved[id] \subseteq Log /\ Successes(id) \subseteq Log
           /\ \A id \in Ids : latest[id] \in Log
           /\ \A s \in Slots : exec[s].log \in Log
           /\ Done \subseteq Log
           /\ clock \in Nat /\ begun \in Nat
<1>1. \A l \in Log : l.run \in Nat /\ l.started \in Nat /\ l.finished \in Nat /\ l.status \in Statuses
  BY DEF Log
<1>2. \A id \in Ids : saved[id] \subseteq Log /\ Successes(id) \subseteq Log /\ latest[id] \in Log
  BY DEF TypeInv, SharedTyped, Successes
<1>3. \A s \in Slots : exec[s].log \in Log
  BY DEF TypeInv, Future
<1>4. Done \subseteq Log
  BY <1>2, <1>3, InDone DEF InSuccess
<1> QED BY <1>1, <1>2, <1>3, <1>4 DEF TypeInv, SharedTyped

\* What is on record is done.
LEMMA RecordedDone == \A r : Recorded(r) \subseteq Done
BY InDone DEF Recorded, Successes, InSuccess

\* Logs are added to the records.
RecordGrows == \A id \in Ids : saved[id] \subseteq saved'[id]

LEMMA RecordedGrows ==
    ASSUME RecordGrows PROVE \A r : Recorded(r) \subseteq Recorded(r)'
BY DEF Recorded, Successes, RecordGrows

\* A step of future s that makes no new success.
LEMMA NoneNew ==
    ASSUME NEW s \in Slots, OnlyOf(s),
           exec'[s].pc \in {"append", "save"} /\ exec'[s].log.status = "succeeded" => exec'[s].log \in Done,
           \A p \in Ids : \A l \in saved'[p] : l.status = "succeeded" => l \in Done,
           \A p \in Ids : latest'[p].status = "succeeded" => latest'[p] \in Done
    PROVE  Done' \subseteq Done
<1> SUFFICES ASSUME NEW l \in Done' PROVE l \in Done
  OBVIOUS
<1>1. InSuccess(l)'
  BY InDoneNext
<1>2. CASE \E p \in Ids : l \in saved'[p] \/ l = latest'[p]
  BY <1>1, <1>2 DEF InSuccess
<1>3. CASE \E u \in Slots : exec'[u].pc \in {"append", "save"} /\ l = exec'[u].log
  <2>1. PICK u \in Slots : exec'[u].pc \in {"append", "save"} /\ l = exec'[u].log
    BY <1>3
  <2>2. CASE u = s
    BY <1>1, <2>1, <2>2 DEF InSuccess
  <2>3. CASE u # s
    <3>1. exec'[u] = exec[u]
      BY <2>3 DEF OnlyOf
    <3>2. InSuccess(l)
      BY <1>1, <2>1, <3>1 DEF InSuccess
    <3> QED BY <3>2, InDone
  <2> QED BY <2>2, <2>3
<1> QED BY <1>1, <1>2, <1>3 DEF InSuccess

\* A step of future s that makes no new success and gives out no number keeps
\* the runs apart.
LEMMA RunsStay ==
    ASSUME TypeInv, TypeInv', RunsApart, NEW s \in Slots, OnlyOf(s), Done' \subseteq Done,
           begun' = begun, clock' >= clock,
           \/ At(s, "idle")'
           \/ /\ ~At(s, "idle") /\ exec'[s].log.run = exec[s].log.run
              /\ exec[s].pc \in {"append", "save"} => exec'[s].pc \in {"append", "save"}
              /\ At(s, "agent")' => exec'[s].log.started <= clock'
    PROVE  RunsApart'
<1>1. /\ \A l \in Done : l.run \in Nat /\ l.started \in Nat /\ l.finished \in Nat
      /\ \A u \in Slots : exec[u].log.run \in Nat /\ exec[u].log.started \in Nat
      /\ clock \in Nat /\ begun \in Nat /\ clock' \in Nat
  BY LogFields DEF TypeInv, SharedTyped
<1>2. \A l \in Done' : l.run <= begun' /\ l.started <= l.finished /\ l.finished <= clock'
  BY <1>1 DEF RunsApart
<1>3. ASSUME NEW u \in Slots, ~At(u, "idle")'
      PROVE  /\ exec'[u].log.run <= begun'
             /\ exec'[u].pc \notin {"append", "save"} => \A l \in Done' : l.run # exec'[u].log.run
             /\ At(u, "agent")' => exec'[u].log.started <= clock'
  <2>1. CASE u = s
    BY <1>3, <2>1 DEF RunsApart, At
  <2>2. CASE u # s
    BY <1>1, <1>3, <2>2 DEF RunsApart, OnlyOf, At
  <2> QED BY <2>1, <2>2
<1>4. ASSUME NEW u \in Slots, NEW v \in Slots, ~At(u, "idle")', ~At(v, "idle")',
             exec'[u].log.run = exec'[v].log.run
      PROVE  u = v
  <2>1. \A w \in Slots : ~At(w, "idle")' => ~At(w, "idle") /\ exec'[w].log.run = exec[w].log.run
    BY DEF OnlyOf, At
  <2> QED BY <1>4, <2>1 DEF RunsApart
<1>5. \A l, m \in Done' : l.run = m.run => l = m
  BY DEF RunsApart
<1> QED BY <1>2, <1>3, <1>4, <1>5 DEF RunsApart

\* Successes that are on record, in memory or on their way to it are done.
LEMMA AreDone ==
    /\ \A p \in Ids : \A l \in saved[p] : l.status = "succeeded" => l \in Done
    /\ \A p \in Ids : latest[p].status = "succeeded" => latest[p] \in Done
    /\ \A s \in Slots : exec[s].pc \in {"append", "save"} /\ exec[s].log.status = "succeeded" =>
                          exec[s].log \in Done
BY InDone DEF InSuccess

\* What ReadOwn leaves and what it finds.
LEMMA ReadsOwn ==
    ASSUME TypeInv, NEW s \in Slots, ReadOwn(s)
    PROVE  /\ At(s, "own") /\ At(s, "resolve")' /\ Id(s)' = Id(s) /\ OnlyOf(s)
           /\ UNCHANGED <<saved, latest, clock, begun, overlapped, spent>>
           /\ exec'[s].log = exec[s].log /\ exec'[s].used = exec[s].used
           /\ exec'[s].todo = DependsOn[Id(s)]
           /\ \/ exec'[s].own = exec[s].own /\ exec'[s].known = exec[s].known
              \/ /\ exec'[s].own = last_success(Id(s)).finished
                 /\ exec'[s].known =
                      {x[2] : x \in {y \in spent : y[1] = Id(s) /\ last_success(Id(s)) # NoLog}}
<1> DEFINE known == {x[2] : x \in {y \in spent : y[1] = Id(s) /\ last_success(Id(s)) # NoLog}}
           own == last_success(Id(s)).finished
           k == [exec[s] EXCEPT !.pc = "resolve", !.todo = DependsOn[Id(s)]]
<1>1. At(s, "own") /\ UNCHANGED <<saved, latest, clock, begun, overlapped, spent>>
  BY DEF ReadOwn, Quiet, memory, history
<1>2. exec' = [exec EXCEPT ![s] = k] \/ exec' = [exec EXCEPT ![s] = [k EXCEPT !.own = own, !.known = known]]
  BY DEF ReadOwn, Become
<1>3. DOMAIN exec = Slots /\ DOMAIN exec[s] = Fields
  BY DEF TypeInv, Future
<1> HIDE DEF known, own
<1>4. /\ At(s, "resolve")' /\ Id(s)' = Id(s) /\ OnlyOf(s)
      /\ exec'[s].log = exec[s].log /\ exec'[s].used = exec[s].used
      /\ exec'[s].todo = DependsOn[Id(s)]
      /\ \/ exec'[s].own = exec[s].own /\ exec'[s].known = exec[s].known
         \/ exec'[s].own = own /\ exec'[s].known = known
  BY <1>2, <1>3 DEF At, Id, OnlyOf, Fields
<1> QED BY <1>1, <1>4 DEF known, own

\* Every step keeps the runs apart: numbers are given out once, and a future
\* has no success before its agent's answer.
LEMMA StepRuns == TypeInv /\ TypeInv' /\ RunsApart /\ [Next]_vars => RunsApart'
<1> SUFFICES ASSUME TypeInv, TypeInv', RunsApart, [Next]_vars PROVE RunsApart'
  OBVIOUS
<1>0. /\ DOMAIN exec = Slots /\ DOMAIN latest = Ids /\ DOMAIN saved = Ids
      /\ \A s \in Slots : DOMAIN exec[s] = Fields /\ exec[s].log \in Log
      /\ \A s \in Slots : ~At(s, "idle") => Id(s) \in Ids
      /\ clock \in Nat /\ begun \in Nat
  BY DEF TypeInv, SharedTyped, Future, At, Id
<1> USE DEF At, Id, Become, Fields, PCs, memory, history, Quiet, NoFault, StoreFault, Event
<1>1. ASSUME NEW s \in Slots, NEW id \in Ids, Fire(s, id) \/ Trigger(s, id) PROVE RunsApart'
  <2>1. PICK via \in {"tick", "trigger"}, p \in {"mark", "own"} : Begin(s, id, via, p)
    BY <1>1 DEF Fire, Trigger
  <2>2. /\ UNCHANGED <<saved, latest, clock>> /\ begun' = begun + 1 /\ OnlyOf(s)
        /\ exec'[s].pc \in {"mark", "own"} /\ exec'[s].log.run = begun + 1
    BY <1>0, <2>1 DEF Begin, OnlyOf, Idle, NoLog
  <2>3. Done' \subseteq Done
    BY <2>2, NoneNew, AreDone
  <2>4. /\ \A l \in Done : l.run \in Nat /\ l.run <= begun
        /\ \A u \in Slots \ {s} : ~At(u, "idle") => exec[u].log.run <= begun
        /\ \A u \in Slots : exec[u].log.run \in Nat
    BY LogFields DEF RunsApart
  <2>5. \A l \in Done' : l.run < begun' /\ l.started <= l.finished /\ l.finished <= clock'
    BY <1>0, <2>2, <2>3, <2>4 DEF RunsApart
  <2>6. ASSUME NEW u \in Slots, ~At(u, "idle")'
        PROVE  /\ exec'[u].log.run <= begun'
               /\ exec'[u].log.run = begun' => u = s
               /\ exec'[u].pc \notin {"append", "save"} => \A l \in Done' : l.run # exec'[u].log.run
               /\ At(u, "agent")' => exec'[u].log.started <= clock'
    <3>1. CASE u = s
      BY <1>0, <2>2, <2>3, <2>4, <3>1
    <3>2. CASE u # s
      BY <1>0, <2>2, <2>3, <2>4, <2>6, <3>2 DEF RunsApart, OnlyOf
    <3> QED BY <3>1, <3>2
  <2>7. ASSUME NEW u \in Slots, NEW v \in Slots, ~At(u, "idle")', ~At(v, "idle")',
               exec'[u].log.run = exec'[v].log.run
        PROVE  u = v
    <3>1. CASE u = s \/ v = s
      BY <2>2, <2>6, <2>7, <3>1
    <3>2. CASE u # s /\ v # s
      BY <2>2, <2>7, <3>2 DEF RunsApart, OnlyOf
    <3> QED BY <3>1, <3>2
  <2>8. \A l, m \in Done' : l.run = m.run => l = m
    BY <2>3 DEF RunsApart
  <2>9. \A l \in Done' : l.run <= begun'
    BY <1>0, <2>2, <2>3, <2>4
  <2> QED BY <2>5, <2>6, <2>7, <2>8, <2>9 DEF RunsApart
<1>2. ASSUME NEW s \in Slots, ReadOwn(s) \/ Resolve(s) \/ Resolved(s) PROVE RunsApart'
  <2>1. /\ UNCHANGED <<saved, latest, clock, begun>> /\ OnlyOf(s) /\ exec[s].pc \in {"own", "resolve"}
        /\ exec'[s].pc \in {"resolve", "mark"} /\ exec'[s].log.run = exec[s].log.run
    <3>1. CASE ReadOwn(s)
      BY <3>1, ReadsOwn
    <3>2. CASE Resolve(s)
      BY <1>0, <3>2 DEF Resolve, OnlyOf
    <3>3. CASE Resolved(s)
      BY <1>0, <3>3 DEF Resolved, OnlyOf
    <3> QED BY <1>2, <3>1, <3>2, <3>3
  <2>2. Done' \subseteq Done
    BY <2>1, NoneNew, AreDone
  <2> QED BY <1>0, <2>1, <2>2, RunsStay
<1>3. ASSUME NEW s \in Slots, SaveSkipped(s) PROVE RunsApart'
  <2>1. /\ UNCHANGED <<latest, begun>> /\ clock' = clock + 1 /\ OnlyOf(s) /\ exec'[s].pc = "idle"
        /\ \A p \in Ids : \A l \in saved'[p] : l \in saved[p] \/ l.status = "skipped"
    BY <1>0, <1>3 DEF SaveSkipped, OnlyOf, Idle
  <2>2. Done' \subseteq Done
    BY <2>1, NoneNew, AreDone
  <2> QED BY <1>0, <2>1, <2>2, RunsStay
<1>4. ASSUME NEW s \in Slots, Mark(s) PROVE RunsApart'
  <2>1. CASE Marked(s)
    <3>1. /\ At(s, "mark") /\ UNCHANGED <<saved, latest, begun>> /\ clock' = clock + 1 /\ OnlyOf(s)
          /\ exec'[s].pc = "agent" /\ exec'[s].log.run = exec[s].log.run
          /\ exec'[s].log.started = clock'
      BY <1>0, <1>4, <2>1 DEF Mark, Marked, OnlyOf, Log
    <3>2. Done' \subseteq Done
      BY <3>1, NoneNew, AreDone
    <3> QED BY <1>0, <3>1, <3>2, RunsStay
  <2>2. CASE Overlap(s)
    <3>1. /\ At(s, "mark") /\ UNCHANGED <<saved, begun, clock>> /\ OnlyOf(s)
          /\ exec'[s].pc = "idle" \/ ( /\ exec'[s].pc = "save" /\ exec'[s].log.status = "skipped"
                                       /\ exec'[s].log.run = exec[s].log.run)
      BY <1>0, <1>4, <2>2 DEF Mark, Overlap, Then, AfterError, Idle, OnlyOf, Log
    <3>2. \A p \in Ids : latest'[p] = latest[p] \/ latest'[p].status = "skipped"
      BY <1>0, <2>2 DEF Overlap, Log
    <3>3. Done' \subseteq Done
      BY <3>1, <3>2, NoneNew, AreDone
    <3> QED BY <1>0, <3>1, <3>3, RunsStay
  <2> QED BY <1>4, <2>1, <2>2 DEF Mark
<1>5. ASSUME NEW s \in Slots, Answer(s) PROVE RunsApart'
  <2>1. PICK status \in {"succeeded", "failed", "timed_out"} : Outcome(s, status)
    BY <1>5 DEF Answer
  <2> DEFINE log == exec'[s].log
  <2>2. /\ At(s, "agent") /\ UNCHANGED <<saved, latest, begun>> /\ OnlyOf(s)
        /\ exec'[s].pc = "append" /\ log.run = exec[s].log.run /\ log.status = status
        /\ log.started = exec[s].log.started /\ log.finished = clock'
        /\ clock' = IF status = "succeeded" THEN clock + 1 ELSE clock
    <3>1. exec[s].log \in Log
      BY <1>0
    <3>2. [exec[s].log EXCEPT !.finished = clock', !.status = status].finished = clock'
      BY <3>1 DEF Log
    <3> QED BY <1>0, <1>5, <2>1, <3>1, <3>2 DEF Answer, Outcome, OnlyOf, Log
  <2>3. CASE status # "succeeded"
    <3>1. Done' \subseteq Done
      BY <2>2, <2>3, NoneNew, AreDone
    <3> QED BY <1>0, <2>2, <3>1, RunsStay
  <2>4. CASE status = "succeeded"
    <3>1. Done' \subseteq Done \cup {log}
      <4> SUFFICES ASSUME NEW l \in Done', l # log PROVE l \in Done
        OBVIOUS
      <4>1. InSuccess(l)'
        BY InDoneNext
      <4>2. InSuccess(l)
        BY <2>2, <4>1 DEF InSuccess, OnlyOf
      <4> QED BY <4>2, InDone
    <3>2. \A l \in Done : l.run # log.run
      BY <2>2 DEF RunsApart
    <3>3. /\ \A l \in Done : l.started \in Nat /\ l.finished \in Nat
          /\ \A u \in Slots : exec[u].log.started \in Nat
      BY LogFields
    <3>4. log.run <= begun' /\ log.started <= log.finished /\ log.finished <= clock'
      BY <1>0, <2>2, <2>4, <3>3 DEF RunsApart
    <3>5. \A l \in Done' : l.run <= begun' /\ l.started <= l.finished /\ l.finished <= clock'
      BY <1>0, <2>2, <2>4, <3>1, <3>3, <3>4 DEF RunsApart
    <3>6. \A l, m \in Done' : l.run = m.run => l = m
      BY <3>1, <3>2 DEF RunsApart
    <3>7. \A u \in Slots : ~At(u, "idle")' => ~At(u, "idle") /\ exec'[u].log.run = exec[u].log.run
      BY <2>2 DEF OnlyOf
    <3>8. \A u, v \in Slots : ~At(u, "idle")' /\ ~At(v, "idle")' /\ exec'[u].log.run = exec'[v].log.run
                                 => u = v
      BY <3>7 DEF RunsApart
    <3>9. ASSUME NEW u \in Slots, ~At(u, "idle")'
          PROVE  /\ exec'[u].log.run <= begun'
                 /\ exec'[u].pc \notin {"append", "save"} => \A l \in Done' : l.run # exec'[u].log.run
                 /\ At(u, "agent")' => exec'[u].log.started <= clock'
      <4>1. CASE u = s
        BY <2>2, <3>4, <4>1
      <4>2. CASE u # s
        <5>1. exec'[u] = exec[u] /\ exec[u].log.run # log.run
          BY <2>2, <3>7, <3>9, <4>2 DEF OnlyOf, RunsApart
        <5> QED BY <1>0, <2>2, <3>1, <3>3, <3>9, <5>1 DEF RunsApart
      <4> QED BY <4>1, <4>2
    <3> QED BY <3>5, <3>6, <3>8, <3>9 DEF RunsApart
  <2> QED BY <2>3, <2>4
<1>6. ASSUME NEW s \in Slots, AppendLog(s) PROVE RunsApart'
  <2>1. /\ At(s, "append") /\ UNCHANGED <<saved, begun, clock>> /\ OnlyOf(s)
        /\ exec'[s].pc = "idle" \/ (exec'[s].pc = "save" /\ exec'[s].log = exec[s].log)
        /\ \A p \in Ids : latest'[p] = latest[p] \/ latest'[p] = exec[s].log
    BY <1>0, <1>6 DEF AppendLog, Then, AfterError, Idle, OnlyOf
  <2>2. Done' \subseteq Done
    BY <2>1, NoneNew, AreDone
  <2> QED BY <1>0, <2>1, <2>2, RunsStay
<1>7. ASSUME NEW s \in Slots, SaveLog(s) PROVE RunsApart'
  <2>1. /\ At(s, "save") /\ UNCHANGED <<latest, begun, clock>> /\ OnlyOf(s) /\ exec'[s].pc = "idle"
        /\ \A p \in Ids : \A l \in saved'[p] : l \in saved[p] \/ l = exec[s].log \/ l = latest[Id(s)]
    BY <1>0, <1>7 DEF SaveLog, LogToSave, Idle, OnlyOf
  <2>2. Done' \subseteq Done
    BY <1>0, <2>1, NoneNew, AreDone
  <2> QED BY <1>0, <2>1, <2>2, RunsStay
<1>8. ASSUME NEW s \in Slots, Drop(s) PROVE RunsApart'
  <2>1. UNCHANGED <<saved, latest, begun, clock>> /\ OnlyOf(s) /\ exec'[s].pc = "idle"
    BY <1>0, <1>8 DEF Drop, Idle, OnlyOf
  <2>2. Done' \subseteq Done
    BY <2>1, NoneNew, AreDone
  <2> QED BY <1>0, <2>1, <2>2, RunsStay
<1>9. CASE Crash
  <2>1. Done' \subseteq Done
    <3> SUFFICES ASSUME NEW l, InSuccess(l)' PROVE InSuccess(l)
      BY InDone, InDoneNext
    <3> QED BY <1>9 DEF Crash, InSuccess, Idle, NoLog
  <2> QED BY <1>9, <2>1 DEF Crash, RunsApart, Idle
<1>10. CASE UNCHANGED <<saved, latest, exec, clock, begun>>
  BY <1>10 DEF RunsApart, Done, InSuccess
<1> QED
  BY <1>1, <1>2, <1>3, <1>4, <1>5, <1>6, <1>7, <1>8, <1>9, <1>10
  DEF Next, UpToAnswer, Rest, Edit, vars

\* The records of every task keep a newest success: they grow by one log at a time.
LEMMA StepNewest ==
    ASSUME TypeInv, TypeInv', [Next]_vars, \A id \in Ids : Newest(id)
    PROVE  RecordGrows /\ \A id \in Ids : Newest(id)'
<1>0. /\ DOMAIN saved = Ids /\ \A s \in Slots : ~At(s, "idle") => Id(s) \in Ids
      /\ \A id \in Ids : \A l \in saved'[id] : l.started \in Nat
  BY DEF TypeInv, SharedTyped, Future, At, Id, Log
<1> USE DEF At, Id, memory, history, Quiet
<1>1. \A id \in Ids : \E log : saved'[id] \in {saved[id], saved[id] \cup {log}}
  <2>1. CASE UNCHANGED saved
    BY <2>1
  <2>2. ASSUME NEW s \in Slots, SaveSkipped(s)
        PROVE  \A id \in Ids : \E log : saved'[id] \in {saved[id], saved[id] \cup {log}}
    BY <1>0, <2>2 DEF SaveSkipped
  <2>3. ASSUME NEW s \in Slots, SaveLog(s)
        PROVE  \A id \in Ids : \E log : saved'[id] \in {saved[id], saved[id] \cup {log}}
    BY <1>0, <2>3 DEF SaveLog
  <2> QED
    BY <2>1, <2>2, <2>3 DEF Next, Fire, Trigger, Begin, UpToAnswer, ReadOwn, Resolve, Resolved,
       Mark, Answer, AppendLog, Drop, Edit, Crash, Rest, vars
<1>2. ASSUME NEW id \in Ids PROVE Newest(id)'
  <2>1. PICK log : saved'[id] \in {saved[id], saved[id] \cup {log}}
    BY <1>1
  <2>2. IsFiniteSet(saved'[id])
    BY <2>1, FS_AddElement DEF Newest
  <2>3. ASSUME Successes(id)' # {}
        PROVE  \E l \in Successes(id)' : \A m \in Successes(id)' : m.started <= l.started
    <3>1. CASE Successes(id)' = Successes(id)
      BY <2>3, <3>1 DEF Newest
    <3>2. CASE Successes(id)' = Successes(id) \cup {log} /\ Successes(id) # {}
      <4>1. PICK top \in Successes(id) : \A m \in Successes(id) : m.started <= top.started
        BY <3>2 DEF Newest
      <4>2. \A m \in Successes(id)' : m.started \in Nat
        BY <1>0 DEF Successes
      <4>3. CASE log.started <= top.started
        BY <3>2, <4>1, <4>3
      <4>4. CASE ~(log.started <= top.started)
        BY <3>2, <4>1, <4>2, <4>4
      <4> QED BY <4>3, <4>4
    <3>3. CASE Successes(id)' = {log}
      <4>1. log.started \in Nat
        BY <1>0, <3>3 DEF Successes
      <4> QED BY <3>3, <4>1
    <3> QED BY <2>1, <3>1, <3>2, <3>3 DEF Successes
  <2> QED BY <2>2, <2>3 DEF Newest
<1> QED BY <1>1, <1>2 DEF RecordGrows

-----------------------------------------------------------------------------
\* What the futures other than s use and know stays as it is.
LEMMA OthersResults ==
    ASSUME \A u \in Slots : ResultsOf(u), RecordGrows, overlapped \subseteq overlapped',
           NEW s \in Slots, OnlyOf(s), ResultsOf(s)'
    PROVE  \A u \in Slots : ResultsOf(u)'
<1> SUFFICES ASSUME NEW u \in Slots, u # s PROVE ResultsOf(u)'
  OBVIOUS
<1>1. exec'[u] = exec[u]
  BY DEF OnlyOf
<1>2. \A r : Recorded(r) \subseteq Recorded(r)'
  BY RecordedGrows
<1>3. \A r \in exec'[u].used : \E m \in Recorded(r)' :
          /\ m.finished > exec'[u].own
          /\ exec'[u].pc \in {"append", "save"} /\ exec'[u].log.status = "succeeded" =>
                m.finished <= exec'[u].log.finished
  BY <1>1, <1>2 DEF ResultsOf
<1>4. Id(u)' \notin overlapped' =>
          \A r \in exec'[u].known : \E m \in Recorded(r)' : m.finished <= exec'[u].own
  BY <1>1, <1>2 DEF ResultsOf, Id
<1> QED BY <1>1, <1>3, <1>4 DEF ResultsOf, Id, At

\* A future that ends uses nothing.
LEMMA IdleResults == ASSUME NEW s \in Slots, exec'[s] = Idle PROVE ResultsOf(s)'
BY DEF ResultsOf, Idle, At, Id

\* A future goes on with what it has found; its success is later than that.
LEMMA KeepsResults ==
    ASSUME TypeInv, RunsApart, RecordGrows, overlapped \subseteq overlapped',
           NEW s \in Slots, ResultsOf(s), ~At(s, "own")', Id(s)' = Id(s),
           exec'[s].own = exec[s].own, exec'[s].todo = exec[s].todo, exec'[s].used = exec[s].used,
           exec'[s].known = exec[s].known,
           exec'[s].pc \in {"append", "save"} /\ exec'[s].log.status = "succeeded" =>
              \/ exec[s].pc \in {"append", "save"} /\ exec'[s].log = exec[s].log
              \/ exec'[s].log.finished = clock + 1
    PROVE  ResultsOf(s)'
<1>1. \A r : Recorded(r) \subseteq Recorded(r)'
  BY RecordedGrows
<1>2. ASSUME NEW r \in exec[s].used
      PROVE  \E m \in Recorded(r)' :
               /\ m.finished > exec'[s].own
               /\ exec'[s].pc \in {"append", "save"} /\ exec'[s].log.status = "succeeded" =>
                    m.finished <= exec'[s].log.finished
  <2>1. PICK m \in Recorded(r) :
               /\ m.finished > exec[s].own
               /\ exec[s].pc \in {"append", "save"} /\ exec[s].log.status = "succeeded" =>
                    m.finished <= exec[s].log.finished
    BY DEF ResultsOf
  <2>2. m \in Done
    BY RecordedDone
  <2>3. m.finished \in Nat /\ m.finished <= clock /\ clock \in Nat
    BY <2>2, LogFields DEF RunsApart
  <2>4. m.finished <= clock + 1
    BY <2>3
  <2> QED BY <1>1, <2>1, <2>4
<1>3. Id(s)' \notin overlapped' =>
          \A r \in exec'[s].known : \E m \in Recorded(r)' : m.finished <= exec'[s].own
  BY <1>1 DEF ResultsOf
<1> QED BY <1>2, <1>3 DEF ResultsOf

\* The finishing times of successes that come in turn are ordered as their
\* starting times are.
LEMMA TurnOrder ==
    ASSUME TypeInv, RunsApart, NEW id \in Ids, InTurn(id), NEW l \in Successes(id),
           NEW m \in Successes(id), l.started <= m.started
    PROVE  l.finished <= m.finished
<1>1. l \in Done /\ m \in Done
  BY InDone DEF InSuccess, Successes
<1>2. /\ l.started \in Nat /\ l.finished \in Nat /\ m.started \in Nat /\ m.finished \in Nat
      /\ l.started <= l.finished /\ m.started <= m.finished
  BY <1>1, LogFields DEF RunsApart
<1>3. l = m \/ l.finished < m.started \/ m.finished < l.started
  BY DEF InTurn
<1> QED BY <1>2, <1>3

\* A success on record is a log that ends in Nat.
LEMMA SuccessIsRecorded ==
    ASSUME TypeInv, NEW p \in Ids, NEW l \in Successes(p)
    PROVE  l \in Recorded(l.run) /\ l.finished \in Nat
<1>1. l \in UNION {Successes(q) : q \in Ids}
  BY Zenon
<1> QED BY <1>1, LogFields DEF Recorded

\* Every step keeps what the futures use and know on record, on either side of
\* the success they read as their own.
LEMMA StepResults ==
    ASSUME TypeInv, TypeInv', ResultInv, [Next]_vars, RecordGrows
    PROVE  \A s \in Slots : ResultsOf(s)'
<1>0. /\ DOMAIN exec = Slots /\ RunsApart
      /\ \A s \in Slots : DOMAIN exec[s] = Fields /\ exec[s].log \in Log /\ ResultsOf(s)
      /\ \A s \in Slots : ~At(s, "idle") => Id(s) \in Ids
      /\ clock \in Nat
  BY DEF TypeInv, SharedTyped, Future, At, Id, ResultInv
<1> USE DEF At, Id, Become, Fields, PCs, memory, history, Quiet, NoFault, StoreFault, Event
<1>1. ASSUME NEW s \in Slots, NEW id \in Ids, Fire(s, id) \/ Trigger(s, id)
      PROVE  \A u \in Slots : ResultsOf(u)'
  <2>1. PICK via \in {"tick", "trigger"}, p \in {"mark", "own"} : Begin(s, id, via, p)
    BY <1>1 DEF Fire, Trigger
  <2>2. /\ overlapped \subseteq overlapped' /\ OnlyOf(s) /\ exec'[s].own = 0 /\ exec'[s].todo = {}
        /\ exec'[s].used = {} /\ exec'[s].known = {}
    BY <1>0, <2>1 DEF Begin, OnlyOf, Idle
  <2>3. ResultsOf(s)'
    BY <2>2 DEF ResultsOf
  <2> QED BY <1>0, <2>2, <2>3, OthersResults
<1>2. ASSUME NEW s \in Slots, ReadOwn(s) PROVE \A u \in Slots : ResultsOf(u)'
  <2>1. /\ At(s, "own") /\ UNCHANGED <<saved, overlapped, spent>> /\ OnlyOf(s) /\ Id(s)' = Id(s)
        /\ exec'[s].pc = "resolve" /\ exec'[s].todo = DependsOn[Id(s)] /\ exec'[s].used = exec[s].used
        /\ \/ exec'[s].own = exec[s].own /\ exec'[s].known = exec[s].known
           \/ /\ exec'[s].own = last_success(Id(s)).finished
              /\ exec'[s].known = {x[2] : x \in {y \in spent : y[1] = Id(s) /\ last_success(Id(s)) # NoLog}}
    BY <1>2, ReadsOwn
  <2>2. Id(s) \in Ids /\ exec[s].used = {} /\ DependsOn[Id(s)] \subseteq Ids
    BY <1>0, <2>1, CronConstants DEF ResultsOf
  <2>3. \A r : Recorded(r)' = Recorded(r)
    BY <2>1 DEF Recorded, Successes
  <2>4. CASE exec'[s].own = exec[s].own /\ exec'[s].known = exec[s].known
    <3>1. ResultsOf(s)'
      BY <1>0, <2>1, <2>2, <2>3, <2>4 DEF ResultsOf
    <3> QED BY <1>0, <2>1, <3>1, OthersResults
  <2>5. CASE /\ exec'[s].own = last_success(Id(s)).finished
             /\ exec'[s].known = {x[2] : x \in {y \in spent : y[1] = Id(s) /\ last_success(Id(s)) # NoLog}}
    <3>1. Newest(Id(s))
      BY <2>2 DEF ResultInv
    <3>2. exec'[s].own \in Nat
      <4>1. CASE last_success(Id(s)) = NoLog
        BY <2>5, <4>1 DEF NoLog
      <4>2. CASE last_success(Id(s)) # NoLog
        BY <2>2, <2>5, <3>1, <4>2, LastSuccess, SuccessIsRecorded
      <4> QED BY <4>1, <4>2
    <3>3. ASSUME Id(s) \notin overlapped, NEW r \in exec'[s].known
          PROVE  \E m \in Recorded(r) : m.finished <= exec'[s].own
      <4>1. PICK x \in spent : x[1] = Id(s) /\ x[2] = r /\ last_success(Id(s)) # NoLog
        BY <2>5
      <4>2. InTurn(Id(s))
        BY <2>2, <3>3 DEF ResultInv
      <4>3. PICK m \in Recorded(r), l \in Successes(Id(s)) : m.finished <= l.finished
        BY <4>1, <4>2 DEF InTurn
      <4>4. /\ last_success(Id(s)) \in Successes(Id(s))
            /\ l.started <= last_success(Id(s)).started
        BY <2>2, <3>1, <4>1, <4>3, LastSuccess
      <4>5. l.finished <= last_success(Id(s)).finished
        BY <1>0, <2>2, <4>2, <4>3, <4>4, TurnOrder
      <4>6. m.finished \in Nat /\ l.finished \in Nat
        <5>1. m \in Done
          BY RecordedDone
        <5> QED BY <2>2, <5>1, LogFields, SuccessIsRecorded
      <4>7. m.finished <= exec'[s].own
        BY <2>5, <3>2, <4>3, <4>5, <4>6
      <4> QED BY <4>7
    <3>4. ResultsOf(s)'
      BY <2>1, <2>2, <2>3, <3>2, <3>3 DEF ResultsOf
    <3> QED BY <1>0, <2>1, <3>4, OthersResults
  <2> QED BY <2>1, <2>4, <2>5
<1>3. ASSUME NEW s \in Slots, Resolve(s) PROVE \A u \in Slots : ResultsOf(u)'
  <2>1. PICK p \in exec[s].todo, fresh \in BOOLEAN :
          /\ fresh => fresh = Fresh(s, last_success(p))
          /\ Become(s, [exec[s] EXCEPT !.todo = @ \ {p},
                         !.used = IF fresh THEN @ \cup {last_success(p).run} ELSE @])
    BY <1>3 DEF Resolve
  <2>2. /\ At(s, "resolve") /\ UNCHANGED <<saved, overlapped>> /\ OnlyOf(s) /\ Id(s)' = Id(s)
        /\ At(s, "resolve")' /\ exec'[s].todo \subseteq exec[s].todo
        /\ exec'[s].own = exec[s].own /\ exec'[s].known = exec[s].known
        /\ exec'[s].used = IF fresh THEN exec[s].used \cup {last_success(p).run} ELSE exec[s].used
    BY <1>0, <1>3, <2>1 DEF Resolve, OnlyOf
  <2>3. \A r : Recorded(r)' = Recorded(r)
    BY <2>2 DEF Recorded, Successes
  <2>4. fresh => \E m \in Recorded(last_success(p).run) : m.finished > exec[s].own
    <3>1. p \in Ids
      BY <1>0 DEF ResultsOf
    <3>2. Newest(p)
      BY <3>1 DEF ResultInv
    <3> QED BY <2>1, <3>1, <3>2, LastSuccess, SuccessIsRecorded DEF Fresh
  <2>5. \A r \in exec'[s].used : \E m \in Recorded(r) : m.finished > exec'[s].own
    BY <1>0, <2>2, <2>4 DEF ResultsOf
  <2>6. ResultsOf(s)'
    BY <1>0, <2>2, <2>3, <2>5 DEF ResultsOf
  <2> QED BY <1>0, <2>2, <2>6, OthersResults
<1>4. ASSUME NEW s \in Slots, Resolved(s) PROVE \A u \in Slots : ResultsOf(u)'
  <2>1. /\ UNCHANGED overlapped /\ OnlyOf(s) /\ exec'[s].pc = "mark" /\ Id(s)' = Id(s)
        /\ exec'[s].own = exec[s].own /\ exec'[s].todo = exec[s].todo
        /\ exec'[s].used = exec[s].used /\ exec'[s].known = exec[s].known
    BY <1>0, <1>4 DEF Resolved, OnlyOf
  <2>2. ResultsOf(s)'
    BY <1>0, <2>1, KeepsResults
  <2> QED BY <1>0, <2>1, <2>2, OthersResults
<1>5. ASSUME NEW s \in Slots, UNCHANGED overlapped, OnlyOf(s), exec'[s] = Idle
      PROVE  \A u \in Slots : ResultsOf(u)'
  BY <1>0, <1>5, IdleResults, OthersResults
<1>6. ASSUME NEW s \in Slots, SaveSkipped(s) \/ SaveLog(s) \/ Drop(s)
      PROVE  UNCHANGED overlapped /\ OnlyOf(s) /\ exec'[s] = Idle
  BY <1>0, <1>6 DEF SaveSkipped, SaveLog, Drop, OnlyOf
<1>7. ASSUME NEW s \in Slots, Mark(s) PROVE \A u \in Slots : ResultsOf(u)'
  <2>1. CASE Marked(s)
    <3>1. /\ UNCHANGED overlapped /\ OnlyOf(s) /\ exec'[s].pc = "agent" /\ Id(s)' = Id(s)
          /\ exec'[s].own = exec[s].own /\ exec'[s].todo = exec[s].todo
          /\ exec'[s].used = exec[s].used /\ exec'[s].known = exec[s].known
      BY <1>0, <1>7, <2>1 DEF Mark, Marked, OnlyOf
    <3>2. ResultsOf(s)'
      BY <1>0, <3>1, KeepsResults
    <3> QED BY <1>0, <3>1, <3>2, OthersResults
  <2>2. CASE Overlap(s)
    <3>1. /\ UNCHANGED overlapped /\ OnlyOf(s)
          /\ \/ exec'[s] = Idle
             \/ /\ exec'[s].pc = "save" /\ Id(s)' = Id(s) /\ exec'[s].log.status = "skipped"
                /\ exec'[s].own = exec[s].own /\ exec'[s].todo = exec[s].todo
                /\ exec'[s].used = exec[s].used /\ exec'[s].known = exec[s].known
      BY <1>0, <1>7, <2>2 DEF Mark, Overlap, Then, AfterError, OnlyOf, Log
    <3>2. ResultsOf(s)'
      BY <1>0, <3>1, IdleResults, KeepsResults
    <3> QED BY <1>0, <3>1, <3>2, OthersResults
  <2> QED BY <1>7, <2>1, <2>2 DEF Mark
<1>8. ASSUME NEW s \in Slots, Answer(s) PROVE \A u \in Slots : ResultsOf(u)'
  <2>1. PICK status \in {"succeeded", "failed", "timed_out"} : Outcome(s, status)
    BY <1>8 DEF Answer
  <2>2. /\ UNCHANGED overlapped /\ OnlyOf(s) /\ exec'[s].pc = "append" /\ Id(s)' = Id(s)
        /\ exec'[s].own = exec[s].own /\ exec'[s].todo = exec[s].todo
        /\ exec'[s].used = exec[s].used /\ exec'[s].known = exec[s].known
    BY <1>0, <1>8, <2>1 DEF Answer, Outcome, OnlyOf
  <2>3. exec'[s].log.status = "succeeded" => exec'[s].log.finished = clock + 1
    <3>1. exec'[s].log = [exec[s].log EXCEPT !.finished = clock', !.status = status]
      BY <1>0, <2>1 DEF Outcome
    <3>2. exec'[s].log.status = status /\ exec'[s].log.finished = clock'
      BY <1>0, <3>1 DEF Log
    <3> QED BY <2>1, <3>2 DEF Outcome
  <2>4. ResultsOf(s)'
    BY <1>0, <2>2, <2>3, KeepsResults
  <2> QED BY <1>0, <2>2, <2>4, OthersResults
<1>9. ASSUME NEW s \in Slots, AppendLog(s) PROVE \A u \in Slots : ResultsOf(u)'
  <2>1. /\ At(s, "append") /\ UNCHANGED overlapped /\ OnlyOf(s)
        /\ \/ exec'[s] = Idle
           \/ /\ exec'[s].pc = "save" /\ Id(s)' = Id(s) /\ exec'[s].log = exec[s].log
              /\ exec'[s].own = exec[s].own /\ exec'[s].todo = exec[s].todo
              /\ exec'[s].used = exec[s].used /\ exec'[s].known = exec[s].known
    BY <1>0, <1>9 DEF AppendLog, Then, AfterError, OnlyOf
  <2>2. ResultsOf(s)'
    BY <1>0, <2>1, IdleResults, KeepsResults
  <2> QED BY <1>0, <2>1, <2>2, OthersResults
<1>10. CASE Crash
  BY <1>10, IdleResults DEF Crash
<1>11. CASE UNCHANGED <<exec, saved, overlapped>>
  BY <1>0, <1>11 DEF ResultsOf, Recorded, Successes
<1> QED
  BY <1>1, <1>2, <1>3, <1>4, <1>5, <1>6, <1>7, <1>8, <1>9, <1>10, <1>11
  DEF Next, UpToAnswer, Rest, Edit, vars

-----------------------------------------------------------------------------
\* A step of future s that changes no record of a success keeps task id in turn,
\* if it does for s what InTurn asks.
LEMMA TurnStays ==
    ASSUME NEW id \in Ids, InTurn(id), NEW s \in Slots, OnlyOf(s),
           Successes(id)' = Successes(id), RecordGrows, UNCHANGED spent,
           At(s, "idle")' \/ (~At(s, "idle") /\ Id(s)' = Id(s)),
           latest'[id] = latest[id] \/ (~At(s, "idle") /\ Id(s) = id /\ latest'[id] = exec'[s].log)
             \/ (At(s, "idle")' /\ ~At(s, "idle") /\ Id(s) = id),
           At(s, "save")' /\ Id(s)' = id => latest'[id] = exec'[s].log,
           /\ Id(s)' = id /\ exec'[s].pc \in {"agent", "append", "save"}
           /\ exec'[s].pc = "save" => exec'[s].log.status = "succeeded"
           => \A l \in Successes(id) : l.finished < exec'[s].log.started
    PROVE  InTurn(id)'
<1> USE DEF At, Id
<1>1. ASSUME NEW u \in Slots, NEW v \in Slots, ~At(u, "idle")', ~At(v, "idle")', Id(u)' = id, Id(v)' = id
      PROVE  u = v
  <2>1. \A w \in Slots : ~At(w, "idle")' => ~At(w, "idle") /\ Id(w)' = Id(w)
    BY DEF OnlyOf
  <2> QED BY <1>1, <2>1 DEF InTurn
<1>2. ASSUME NEW u \in Slots, At(u, "save")', Id(u)' = id PROVE latest'[id] = exec'[u].log
  <2>1. CASE u = s
    BY <1>2, <2>1
  <2>2. CASE u # s
    <3>1. exec'[u] = exec[u] /\ ~At(u, "idle") /\ Id(u) = id
      BY <1>2, <2>2 DEF OnlyOf
    <3>2. ~(~At(s, "idle") /\ Id(s) = id)
      BY <2>2, <3>1 DEF InTurn
    <3> QED BY <1>2, <3>1, <3>2 DEF InTurn
  <2> QED BY <2>1, <2>2
<1>3. \A l, m \in Successes(id)' : l = m \/ l.finished < m.started \/ m.finished < l.started
  BY DEF InTurn
<1>4. ASSUME NEW u \in Slots, Id(u)' = id, exec'[u].pc \in {"agent", "append", "save"},
             exec'[u].pc = "save" => exec'[u].log.status = "succeeded"
      PROVE  \A l \in Successes(id)' : l.finished < exec'[u].log.started
  <2>1. CASE u = s
    BY <1>4, <2>1
  <2>2. CASE u # s
    BY <1>4, <2>2 DEF OnlyOf, InTurn
  <2> QED BY <2>1, <2>2
<1>5. \A x \in spent' : x[1] = id =>
          \E m \in Recorded(x[2])', l \in Successes(id)' : m.finished <= l.finished
  BY RecordedGrows DEF InTurn
<1> QED BY <1>1, <1>2, <1>3, <1>4, <1>5 DEF InTurn

\* Every step keeps the executions of a task that does not overlap in turn.
LEMMA StepTurn ==
    ASSUME TypeInv, TypeInv', ResultInv, [Next]_vars, RecordGrows, NEW id \in Ids \ overlapped'
    PROVE  InTurn(id)'
<1>0. /\ DOMAIN exec = Slots /\ DOMAIN latest = Ids /\ DOMAIN saved = Ids /\ RunsApart
      /\ \A s \in Slots : DOMAIN exec[s] = Fields /\ exec[s].log \in Log /\ ResultsOf(s)
      /\ \A s \in Slots : ~At(s, "idle") => Id(s) \in Ids
      /\ clock \in Nat
  BY DEF TypeInv, SharedTyped, Future, At, Id, ResultInv
<1> USE DEF At, Id, Become, Fields, PCs, memory, history, Quiet, NoFault, StoreFault, Event
<1>a. id \notin overlapped
  BY DEF Next, Fire, Trigger, Begin, UpToAnswer, ReadOwn, Resolve, Resolved, SaveSkipped, Mark,
         Answer, AppendLog, SaveLog, Drop, Edit, Crash, Rest, vars
<1>b. InTurn(id)
  BY <1>a DEF ResultInv
<1>c. \A l \in Successes(id) : l.finished \in Nat /\ l.finished <= clock
  <2> SUFFICES ASSUME NEW l \in Successes(id) PROVE l.finished \in Nat /\ l.finished <= clock
    OBVIOUS
  <2>1. l \in Done
    BY InDone DEF InSuccess, Successes
  <2> QED BY <1>0, <2>1, LogFields DEF RunsApart
<1>1. ASSUME NEW s \in Slots, NEW p \in Ids, Fire(s, p) \/ Trigger(s, p) PROVE InTurn(id)'
  <2>1. PICK via \in {"tick", "trigger"}, q \in {"mark", "own"} : Begin(s, p, via, q)
    BY <1>1 DEF Fire, Trigger
  <2>2. /\ UNCHANGED <<saved, latest, spent>> /\ OnlyOf(s)
        /\ exec'[s].pc \in {"mark", "own"} /\ Id(s)' = p
        /\ p = id => \A u \in Slots : Id(u) # id
    BY <1>0, <2>1 DEF Begin, OnlyOf, Idle
  <2>3. \A r : Recorded(r)' = Recorded(r) /\ Successes(id)' = Successes(id)
    BY <2>2 DEF Recorded, Successes
  <2> QED BY <1>b, <2>2, <2>3 DEF InTurn, OnlyOf
<1>2. ASSUME NEW s \in Slots, ReadOwn(s) \/ Resolve(s) \/ Resolved(s) PROVE InTurn(id)'
  <2>1. /\ UNCHANGED <<saved, latest, spent>> /\ OnlyOf(s) /\ exec[s].pc \in {"own", "resolve"}
        /\ exec'[s].pc \in {"resolve", "mark"} /\ Id(s)' = Id(s)
    <3>1. CASE ReadOwn(s)
      BY <3>1, ReadsOwn
    <3>2. CASE Resolve(s)
      BY <1>0, <3>2 DEF Resolve, OnlyOf
    <3>3. CASE Resolved(s)
      BY <1>0, <3>3 DEF Resolved, OnlyOf
    <3> QED BY <1>2, <3>1, <3>2, <3>3
  <2>2. Successes(id)' = Successes(id)
    BY <2>1 DEF Successes
  <2> QED BY <1>b, <2>1, <2>2, TurnStays
<1>3. ASSUME NEW s \in Slots, SaveSkipped(s) \/ Drop(s) PROVE InTurn(id)'
  <2>1. UNCHANGED <<latest, spent>> /\ OnlyOf(s) /\ exec'[s].pc = "idle" /\ ~At(s, "idle")
    BY <1>0, <1>3 DEF SaveSkipped, Drop, OnlyOf, Idle
  <2>2. \A l \in saved'[id] : l \in saved[id] \/ l.status = "skipped"
    BY <1>0, <1>3 DEF SaveSkipped, Drop
  <2>3. Successes(id)' = Successes(id)
    BY <2>2 DEF Successes, RecordGrows
  <2> QED BY <1>b, <2>1, <2>3, TurnStays
<1>4. ASSUME NEW s \in Slots, Mark(s) PROVE InTurn(id)'
  <2>0. At(s, "mark") /\ UNCHANGED <<saved, spent>> /\ Id(s) \in Ids
    BY <1>0, <1>4 DEF Mark
  <2>1. Successes(id)' = Successes(id)
    BY <2>0 DEF Successes
  <2>2. CASE Marked(s)
    <3>1. /\ UNCHANGED latest /\ OnlyOf(s) /\ Id(s)' = Id(s)
          /\ exec'[s].pc = "agent" /\ exec'[s].log.started = clock + 1
      BY <1>0, <2>2 DEF Marked, OnlyOf, Log
    <3>2. \A l \in Successes(id) : l.finished < exec'[s].log.started
      BY <1>0, <1>c, <3>1
    <3> QED BY <1>b, <2>0, <2>1, <3>1, <3>2, TurnStays
  <2>3. CASE Overlap(s)
    <3>1. /\ OnlyOf(s)
          /\ \/ exec'[s].pc = "idle"
             \/ /\ exec'[s].pc = "save" /\ Id(s)' = Id(s) /\ exec'[s].log.status = "skipped"
                /\ latest'[Id(s)] = exec'[s].log
          /\ Id(s) # id => latest'[id] = latest[id]
      BY <1>0, <2>0, <2>3 DEF Overlap, Then, AfterError, OnlyOf, Log, Idle
    <3> QED BY <1>b, <2>0, <2>1, <3>1, TurnStays
  <2> QED BY <1>4, <2>2, <2>3 DEF Mark
<1>5. ASSUME NEW s \in Slots, Answer(s) PROVE InTurn(id)'
  <2>1. PICK status \in {"succeeded", "failed", "timed_out"} : Outcome(s, status)
    BY <1>5 DEF Answer
  <2>2. /\ At(s, "agent") /\ UNCHANGED <<saved, latest, spent>> /\ OnlyOf(s) /\ Id(s)' = Id(s)
        /\ exec'[s].pc = "append"
    BY <1>0, <1>5, <2>1 DEF Answer, Outcome, OnlyOf
  <2>3. exec'[s].log.started = exec[s].log.started
    <3>1. exec'[s].log = [exec[s].log EXCEPT !.finished = clock', !.status = status]
      BY <1>0, <2>1 DEF Outcome
    <3> QED BY <1>0, <3>1 DEF Log
  <2>4. Successes(id)' = Successes(id)
    BY <2>2 DEF Successes
  <2>5. Id(s) = id => \A l \in Successes(id) : l.finished < exec'[s].log.started
    BY <1>b, <2>2, <2>3 DEF InTurn
  <2> QED BY <1>b, <2>2, <2>4, <2>5, TurnStays
<1>6. ASSUME NEW s \in Slots, AppendLog(s) PROVE InTurn(id)'
  <2>1. /\ At(s, "append") /\ UNCHANGED <<saved, spent>> /\ OnlyOf(s)
        /\ \/ exec'[s].pc = "idle"
           \/ /\ exec'[s].pc = "save" /\ Id(s)' = Id(s) /\ exec'[s].log = exec[s].log
              /\ latest'[Id(s)] = exec'[s].log
        /\ Id(s) # id => latest'[id] = latest[id]
    BY <1>0, <1>6 DEF AppendLog, Then, AfterError, OnlyOf, Idle
  <2>2. Successes(id)' = Successes(id)
    BY <2>1 DEF Successes
  <2>3. Id(s) = id => \A l \in Successes(id) : l.finished < exec[s].log.started
    BY <1>b, <2>1 DEF InTurn
  <2> QED BY <1>b, <2>1, <2>2, <2>3, TurnStays
<1>7. ASSUME NEW s \in Slots, SaveLog(s) PROVE InTurn(id)'
  <2>1. /\ At(s, "save") /\ Id(s) \in Ids /\ UNCHANGED latest /\ OnlyOf(s) /\ exec'[s].pc = "idle"
    BY <1>0, <1>7 DEF SaveLog, Idle, OnlyOf
  <2>2. CASE UNCHANGED <<saved, spent>>
    <3>1. Successes(id)' = Successes(id)
      BY <2>2 DEF Successes
    <3> QED BY <1>b, <2>1, <2>2, <3>1, TurnStays
  <2>3. CASE Id(s) # id /\ ~UNCHANGED <<saved, spent>>
    <3>1. saved'[id] = saved[id] /\ \A x \in spent' : x \in spent \/ x[1] # id
      BY <1>0, <1>7, <2>3 DEF SaveLog
    <3>2. Successes(id)' = Successes(id)
      BY <3>1 DEF Successes
    <3>3. \A x \in spent' : x[1] = id =>
            \E m \in Recorded(x[2])', l \in Successes(id)' : m.finished <= l.finished
      BY <1>b, <3>1, <3>2, RecordedGrows DEF InTurn
    <3> QED BY <1>b, <2>1, <3>2, <3>3 DEF InTurn, OnlyOf
  <2>4. CASE Id(s) = id /\ ~UNCHANGED <<saved, spent>>
    <3> DEFINE log == exec[s].log
    <3>1. LogToSave(s) = log
      BY <1>b, <2>1, <2>4 DEF LogToSave, InTurn
    <3>2. /\ saved'[id] = saved[id] \cup {log}
          /\ spent' = IF log.status = "succeeded" THEN spent \cup ({id} \X exec[s].used) ELSE spent
      BY <1>0, <1>7, <2>4, <3>1 DEF SaveLog
    <3>3. CASE log.status # "succeeded"
      <4>1. Successes(id)' = Successes(id) /\ UNCHANGED spent
        BY <3>2, <3>3 DEF Successes
      <4> QED BY <1>b, <2>1, <4>1, TurnStays
    <3>4. CASE log.status = "succeeded"
      <4>1. Successes(id)' = Successes(id) \cup {log}
        BY <3>2, <3>4 DEF Successes
      <4>2. \A l \in Successes(id) : l.finished < log.started
        BY <1>b, <2>1, <2>4, <3>4 DEF InTurn
      <4>3. \A l, m \in Successes(id)' : l = m \/ l.finished < m.started \/ m.finished < l.started
        BY <1>b, <4>1, <4>2 DEF InTurn
      <4>4. \A u \in Slots : ~At(u, "idle")' => Id(u)' # id
        BY <1>b, <2>1, <2>4 DEF InTurn, OnlyOf
      <4>5. ASSUME NEW x \in spent', x[1] = id
            PROVE  \E m \in Recorded(x[2])', l \in Successes(id)' : m.finished <= l.finished
        <5>1. CASE x \in spent
          BY <1>b, <4>1, <4>5, <5>1, RecordedGrows DEF InTurn
        <5>2. CASE x \notin spent
          <6>1. x[2] \in exec[s].used
            BY <3>2, <3>4, <5>2
          <6>2. PICK m \in Recorded(x[2]) : m.finished <= log.finished
            BY <1>0, <2>1, <3>4, <6>1 DEF ResultsOf
          <6> QED BY <4>1, <6>2, RecordedGrows
        <5> QED BY <5>1, <5>2
      <4> QED BY <4>3, <4>4, <4>5 DEF InTurn
    <3> QED BY <3>3, <3>4
  <2> QED BY <2>2, <2>3, <2>4
<1>8. CASE Crash
  <2>1. \A s \in Slots : At(s, "idle")'
    BY <1>8 DEF Crash, Idle
  <2>2. \A r : Recorded(r)' = Recorded(r) /\ Successes(id)' = Successes(id) /\ UNCHANGED spent
    BY <1>8 DEF Crash, Recorded, Successes
  <2> QED BY <1>b, <2>1, <2>2 DEF InTurn
<1>9. CASE UNCHANGED <<exec, saved, latest, spent>>
  BY <1>b, <1>9 DEF InTurn, Recorded, Successes
<1> QED
  BY <1>1, <1>2, <1>3, <1>4, <1>5, <1>6, <1>7, <1>8, <1>9
  DEF Next, UpToAnswer, Rest, Edit, vars

\* The invariant holds throughout.
LEMMA StepResult == TypeInv /\ TypeInv' /\ ResultInv /\ [Next]_vars => ResultInv'
<1> SUFFICES ASSUME TypeInv, TypeInv', ResultInv, [Next]_vars PROVE ResultInv'
  OBVIOUS
<1>1. RecordGrows /\ \A id \in Ids : Newest(id)'
  BY StepNewest DEF ResultInv
<1>2. RunsApart'
  BY StepRuns DEF ResultInv
<1>3. \A s \in Slots : ResultsOf(s)'
  BY <1>1, StepResults
<1>4. \A id \in Ids \ overlapped' : InTurn(id)'
  BY <1>1, StepTurn
<1> QED BY <1>1, <1>2, <1>3, <1>4 DEF ResultInv

\* A task whose executions do not overlap is not run twice on the same result of
\* a predecessor, for every window, chain of dependencies and order of saving,
\* while a success of its own can be read.
THEOREM UsedOnce == Spec => []ResultUsedOnce
<1>1. ASSUME TypeInv, ResultInv PROVE ResultUsedOnce
  <2> SUFFICES ASSUME NEW s \in Slots, Id(s) \notin overlapped, NEW r \in exec[s].used \cap exec[s].known
               PROVE  FALSE
    BY DEF ResultUsedOnce
  <2>1. ResultsOf(s)
    BY <1>1 DEF ResultInv
  <2>2. PICK l \in Recorded(r) : l.finished > exec[s].own
    BY <2>1 DEF ResultsOf
  <2>3. PICK m \in Recorded(r) : m.finished <= exec[s].own
    BY <2>1 DEF ResultsOf
  <2>4. l \in Done /\ m \in Done /\ l.run = r /\ m.run = r
    BY RecordedDone DEF Recorded
  <2>5. l = m /\ l.finished \in Nat /\ exec[s].own \in Nat
    BY <1>1, <2>1, <2>4, LogFields DEF ResultInv, RunsApart, ResultsOf
  <2> QED BY <2>2, <2>3, <2>5
<1> QED BY <1>1, InitType, StepType, InitResult, StepResult, PTL DEF Spec
=============================================================================

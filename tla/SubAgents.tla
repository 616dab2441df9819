----------------------------- MODULE SubAgents -----------------------------
(***************************************************************************)
(* Sub-agents: the table of clawdesk-gateway/src/subagent_manager.rs and   *)
(* the dynamic_spawn tool of the desktop (build_dynamic_spawn_fn in        *)
(* clawdesk-tauri/src/commands.rs), whose futures nest: a sub-agent's own  *)
(* tool calls spawn further sub-agents, and whoever stops waiting for a    *)
(* sub-agent drops its future with all that run below it.                  *)
(*                                                                         *)
(* One action is the code under one lock of the table.  Prompts, models    *)
(* and outputs are left out; a poisoned lock does not occur.               *)
(***************************************************************************)
EXTENDS Naturals, FiniteSets

CONSTANTS
    Futures,    \* calls of dynamic_spawn, spawn_from_thread and steer_restart that can
                \* be in progress at once
    NoFuture,   \* the chat run at the root
    MaxActive,  \* global_max_concurrent
    MaxDepth,   \* global_max_depth
    MaxSpawns,  \* bound: sub-agents registered
    MaxDrops    \* bound: calls given up by their tool timeout

ASSUME SubAgentConstants ==
    /\ NoFuture \notin Futures
    /\ MaxActive \in Nat \ {0} /\ MaxDepth \in Nat \ {0}
    /\ MaxSpawns \in Nat /\ MaxDrops \in Nat

VARIABLES
    entries,     \* the table, by the number in the id
    counter,     \* seq_counter
    fut,         \* the calls in progress
    timers,      \* spawned tasks that will call gc
    announcing,  \* pending announcements somebody has listed
    drops,       \* how much of MaxDrops is used
    steered,     \* history, of what is in the table: sub-agents replaced by steer_restart
    dropped,     \* history, of what is in the table: those whose future was dropped
    overlapped,  \* history: a registration began while another was under way
    revived      \* history, of what is in the table: those active again after an outcome

history == <<steered, dropped, overlapped, revived>>
vars    == <<entries, counter, fut, timers, announcing, drops, history>>

Ids      == 1..MaxSpawns
Active   == {"queued", "running"}
Outcomes == {"ended", "cancelled"}  \* Completed, Failed and TimedOut are all ended

\* SubAgentEntry: parent is 0 for the chat run.
Absent == [state |-> "absent", announce |-> "pending", parent |-> 0, thread |-> FALSE]
ActiveIds == {n \in Ids : entries[n].state \in Active}

\* up: the future whose run called; aborted: it is to be dropped when it next waits.
Idle == [pc |-> "idle", id |-> 0, up |-> NoFuture, parent |-> 0, depth |-> 0, thread |-> FALSE,
         aborted |-> FALSE]
At(f, p)     == fut[f].pc = p
Become(f, k) == fut' = [fut EXCEPT ![f] = k]
Goto(f, p)   == Become(f, [fut[f] EXCEPT !.pc = p])

-----------------------------------------------------------------------------
(* register *)

\* Mutant: one more than the limit.
Admit_OneMore(k) == Cardinality(ActiveIds) <= MaxActive /\ k.depth <= MaxDepth

\* The depth is checked and the active sub-agents are counted under the read lock.
Admit(k) == Cardinality(ActiveIds) < MaxActive /\ k.depth <= MaxDepth

Registering == {f \in Futures : At(f, "insert")}
MayBegin == counter + Cardinality({f \in Futures : fut[f].pc \in {"check", "insert"}}) < MaxSpawns

\* The read lock is released; a call that is turned down ends here.
Check(f, k) ==
    /\ Become(f, IF Admit(k) THEN [k EXCEPT !.pc = "insert"] ELSE Idle)
    /\ overlapped' = (overlapped \/ (Admit(k) /\ Registering # {}))

\* A number is taken and the entry inserted.
Insert(f) ==
    /\ At(f, "insert")
    /\ counter' = counter + 1
    /\ entries' = [entries EXCEPT ![counter + 1] =
                     [Absent EXCEPT !.state = "queued", !.parent = fut[f].parent,
                                    !.thread = fut[f].thread]]
    /\ Become(f, IF fut[f].thread THEN Idle ELSE [fut[f] EXCEPT !.pc = "mark", !.id = counter + 1])
    /\ UNCHANGED <<timers, announcing, drops, history>>

-----------------------------------------------------------------------------
(* The dynamic_spawn tool *)

\* A chat run or a sub-agent that runs calls the tool.
Spawn(f, up) ==
    LET caller == IF up = NoFuture THEN [Idle EXCEPT !.pc = "run"] ELSE fut[up]
    IN  /\ At(f, "idle") /\ MayBegin /\ caller.pc = "run"
        /\ Check(f, [Idle EXCEPT !.up = up, !.parent = caller.id, !.depth = caller.depth + 1])
        /\ UNCHANGED <<entries, counter, timers, announcing, drops, steered, dropped, revived>>

\* update_state, whatever the state was; the error for an entry that is gone is ignored.
SetState(n, s) ==
    /\ entries' = [entries EXCEPT ![n].state = IF @ = "absent" THEN @ ELSE s]
    /\ revived' = IF entries[n].state \in Outcomes /\ s \in Active THEN revived \cup {n} ELSE revived

Mark(f) ==
    /\ At(f, "mark")
    /\ SetState(fut[f].id, "running")
    /\ Become(f, IF fut[f].aborted THEN Idle ELSE [fut[f] EXCEPT !.pc = "run"])
    /\ dropped' = IF fut[f].aborted THEN dropped \cup {fut[f].id} ELSE dropped
    /\ UNCHANGED <<counter, timers, announcing, drops, steered, overlapped>>

\* The calls below f: its own tool calls, theirs, and so on.
Below(f) ==
    LET up[n \in 0..Cardinality(Futures)] ==
            IF n = 0 THEN {f}
            ELSE LET S == up[n - 1] IN S \cup {g \in Futures : ~At(g, "idle") /\ fut[g].up \in S}
    IN  up[Cardinality(Futures)] \ {f}

\* Tasks are aborted: one that waits, which is in its run, is dropped and nothing
\* recorded; the others go on until they wait.
DropBelow(f, k) ==
    fut' = [g \in Futures |->
              IF g = f THEN k
              ELSE IF g \notin Below(f) THEN fut[g]
              ELSE IF At(g, "run") THEN Idle
              ELSE [fut[g] EXCEPT !.aborted = TRUE, !.up = NoFuture]]
DroppedBelow(f) == {fut[g].id : g \in {h \in Below(f) : At(h, "run")}}

\* Mutant: an error is passed on before the state is updated.
Finish_ErrorFirst(f) ==
    /\ At(f, "run") /\ Below(f) = {}
    /\ \/ SetState(fut[f].id, "ended") /\ Goto(f, "output")
       \/ Goto(f, "output") /\ UNCHANGED <<entries, revived>>
    /\ UNCHANGED <<counter, timers, announcing, drops, steered, dropped, overlapped>>

\* The run returns, after all its own calls, with a response or an error.
Finish(f) ==
    /\ At(f, "run") /\ Below(f) = {}
    /\ SetState(fut[f].id, "ended")
    /\ Goto(f, "output")
    /\ UNCHANGED <<counter, timers, announcing, drops, steered, dropped, overlapped>>

\* The sub-agent's own timeout drops its run.
TimeOut(f) ==
    /\ At(f, "run")
    /\ SetState(fut[f].id, "ended")
    /\ DropBelow(f, [fut[f] EXCEPT !.pc = "output"])
    /\ dropped' = dropped \cup DroppedBelow(f)
    /\ UNCHANGED <<counter, timers, announcing, drops, steered, overlapped>>

\* Mutant: the gc of a sub-agent is left to those above it.
Leave_RootOnly(f) ==
    /\ At(f, "output")
    /\ timers' = IF fut[f].parent = 0 THEN timers + 1 ELSE timers
    /\ Become(f, Idle)
    /\ UNCHANGED <<entries, counter, announcing, drops, history>>

\* set_output, if the entry is still there; a task is spawned that calls gc a
\* minute later.
Leave(f) ==
    /\ At(f, "output")
    /\ timers' = timers + 1
    /\ Become(f, Idle)
    /\ UNCHANGED <<entries, counter, announcing, drops, history>>

\* The runner's tool timeout gives the call up.
Drop(f) ==
    /\ At(f, "run") /\ drops < MaxDrops
    /\ drops' = drops + 1
    /\ DropBelow(f, Idle)
    /\ dropped' = dropped \cup DroppedBelow(f) \cup {fut[f].id}
    /\ UNCHANGED <<entries, counter, timers, announcing, steered, overlapped, revived>>

\* All entries with an outcome go, whoever's timer it is and however old they are.
Gc ==
    /\ timers > 0
    /\ timers' = timers - 1
    /\ entries' = [n \in Ids |-> IF entries[n].state \in Active THEN entries[n] ELSE Absent]
    /\ steered' = steered \cap ActiveIds /\ dropped' = dropped \cap ActiveIds
    /\ revived' = revived \cap ActiveIds
    /\ UNCHANGED <<counter, fut, announcing, drops, overlapped>>

-----------------------------------------------------------------------------
(* Sub-agents spawned from threads *)

\* The caller says at which depth; the binding to the thread, written under a
\* second lock, is left out.
SpawnFromThread(f, d) ==
    /\ At(f, "idle") /\ MayBegin
    /\ Check(f, [Idle EXCEPT !.thread = TRUE, !.depth = d])
    /\ UNCHANGED <<entries, counter, timers, announcing, drops, steered, dropped, revived>>

\* Mutant: the outcome is to be announced.
CompleteWithOutcome_Announces(n) ==
    /\ entries[n].state # "absent" /\ entries[n].thread
    /\ entries' = [entries EXCEPT ![n].state = "ended", ![n].announce = "pending"]
    /\ UNCHANGED <<counter, fut, timers, announcing, drops, history>>

\* The state is overwritten, the state of the announcement kept.
CompleteWithOutcome(n) ==
    /\ entries[n].state # "absent" /\ entries[n].thread
    /\ entries' = [entries EXCEPT ![n].state = "ended"]
    /\ UNCHANGED <<counter, fut, timers, announcing, drops, history>>

\* The old entry is cancelled in silence, then a new one registered, which may
\* be turned down; its depth was admitted before.
SteerRestart(f, n) ==
    /\ At(f, "idle") /\ n \in ActiveIds /\ MayBegin
    /\ entries' = [entries EXCEPT ![n].state = "cancelled", ![n].announce = "suppressed"]
    /\ steered' = steered \cup {n}
    /\ Become(f, [Idle EXCEPT !.pc = "check", !.thread = TRUE, !.parent = entries[n].parent,
                              !.depth = 1])
    /\ UNCHANGED <<counter, timers, announcing, drops, dropped, overlapped, revived>>

SteerRegister(f) ==
    /\ At(f, "check")
    /\ Check(f, fut[f])
    /\ UNCHANGED <<entries, counter, timers, announcing, drops, steered, dropped, revived>>

CancelByParent(p) ==
    /\ \E n \in ActiveIds : entries[n].parent = p
    /\ entries' = [n \in Ids |-> IF n \in ActiveIds /\ entries[n].parent = p
                                   THEN [entries[n] EXCEPT !.state = "cancelled"] ELSE entries[n]]
    /\ UNCHANGED <<counter, fut, timers, announcing, drops, history>>

\* pending_announces.
ListAnnounces ==
    /\ announcing = {}
    /\ announcing' = {n \in Ids : entries[n].state \in Outcomes /\ entries[n].announce = "pending"}
    /\ announcing' # {}
    /\ UNCHANGED <<entries, counter, fut, timers, drops, history>>

\* The caller delivers one and marks it.
MarkAnnounced(n) ==
    /\ n \in announcing
    /\ announcing' = announcing \ {n}
    /\ entries' = [entries EXCEPT ![n] = IF @.state = "absent" THEN @
                                         ELSE [@ EXCEPT !.announce = "delivered"]]
    /\ UNCHANGED <<counter, fut, timers, drops, history>>

-----------------------------------------------------------------------------
Rest == (\A f \in Futures : At(f, "idle")) /\ UNCHANGED vars

Init ==
    /\ entries = [n \in Ids |-> Absent] /\ counter = 0
    /\ fut = [f \in Futures |-> Idle]
    /\ timers = 0 /\ announcing = {} /\ drops = 0
    /\ steered = {} /\ dropped = {} /\ overlapped = FALSE /\ revived = {}

FutureStep(f) ==
    Insert(f) \/ Mark(f) \/ Finish(f) \/ TimeOut(f) \/ Leave(f) \/ SteerRegister(f)

Next ==
    \/ \E f \in Futures : \/ \E up \in Futures \cup {NoFuture} : Spawn(f, up)
                          \/ \E n \in Ids : SteerRestart(f, n)
                          \/ \E d \in {1, MaxDepth + 1} : SpawnFromThread(f, d)
                          \/ FutureStep(f) \/ Drop(f)
    \/ \E n \in Ids : CompleteWithOutcome(n) \/ MarkAnnounced(n)
    \/ \E p \in 0..MaxSpawns : CancelByParent(p)
    \/ ListAnnounces \/ Gc \/ Rest

Spec == Init /\ [][Next]_vars

\* Futures are scheduled, runs are under a timeout and timers fire.
FairSpec == Spec /\ WF_vars(Gc) /\ \A f \in Futures : WF_vars(FutureStep(f))

-----------------------------------------------------------------------------
(* Properties *)

\* A slot is taken only by a sub-agent that is really there: an active entry of
\* dynamic_spawn has its future, unless the future was dropped by the timeout of
\* a tool call or of a sub-agent above it, which holds the slot for good.
SlotsInUse ==
    \A n \in ActiveIds \ dropped :
        entries[n].thread \/ \E f \in Futures : fut[f].id = n /\ fut[f].pc \in {"mark", "run"}

\* The global limit holds, unless two registrations were under way at a time or
\* a sub-agent that had been cancelled was set running.
WithinLimit == ~overlapped /\ revived = {} => Cardinality(ActiveIds) <= MaxActive

\* A sub-agent that was steered away is never announced to its parent, whenever
\* it completes and whatever was listed before.
SteeredStaysSilent ==
    \A n \in steered \ revived : entries[n].state # "absent" => entries[n].announce = "suppressed"

\* What dynamic_spawn leaves in the table is collected.
Collected ==
    \A n \in Ids : entries[n].state = "ended" /\ ~entries[n].thread
                       ~> entries[n].state = "absent"
=============================================================================

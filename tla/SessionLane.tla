----------------------------- MODULE SessionLane -----------------------------
(***************************************************************************)
(* SessionLaneManager (crates/clawdesk-agents/src/session_lane.rs): one    *)
(* mutex per chat session, kept in a DashMap, with a watchdog timeout for  *)
(* waiters and LRU eviction of idle lanes.                                 *)
(*                                                                         *)
(* One action is one operation on the DashMap or on a mutex.  A lane entry *)
(* and its mutex are one number, the order of their creation; last_access  *)
(* is the place of a session in lru.                                       *)
(***************************************************************************)
EXTENDS Naturals, Sequences, FiniteSets

Seqs == INSTANCE SequencesExt

CONSTANTS
    Sessions,   \* session identifiers
    Tasks,      \* slots for concurrent calls of acquire
    MaxLanes,   \* max_lanes
    Watchdog,   \* may a wait outlast watchdog_timeout?
    Cleanup,    \* are gc and remove called?
    MaxCalls    \* bound: calls of acquire

ASSUME LaneConstants ==
    /\ IsFiniteSet(Tasks)
    /\ MaxLanes \in Nat /\ MaxCalls \in Nat
    /\ Watchdog \in BOOLEAN /\ Cleanup \in BOOLEAN

VARIABLES
    lanes,    \* the DashMap; 0 stands for no entry
    lru,      \* the sessions that have a lane, by last_access
    task,     \* the calls of acquire and the runs they admitted
    waiters,  \* tasks waiting for a mutex: tokio's mutex is first come, first served
    made,     \* lane entries created so far
    calls,    \* calls made so far
    torn      \* history: sessions whose lane left the map while a call used it

vars == <<lanes, lru, task, waiters, made, calls, torn>>

PCs  == {"idle", "evict", "entry", "clone", "wait", "replace", "run"}
Idle == [pc |-> "idle", session |-> "none", lane |-> 0, victims |-> <<>>]

At(t, p)     == task[t].pc = p
Become(t, k) == task' = [task EXCEPT ![t] = k]
Goto(t, p)   == Become(t, [task[t] EXCEPT !.pc = p])
Session(t)   == task[t].session

-----------------------------------------------------------------------------
(* The map *)

Tracked == {s \in Sessions : lanes[s] # 0}

\* No sequence here lists an element twice.
Without(seq, x) == Seqs!RemoveFirst(seq, x)

\* strong_count(mutex) > 1: a clone of the mutex's Arc is held by a waiter or
\* in a guard.
Counted(l) == \E t \in Tasks : task[t].lane = l /\ task[t].pc \in {"wait", "run"}

\* A call has got the entry, whether or not it has cloned the mutex yet.
InUse(l) == \E t \in Tasks : task[t].lane = l /\ task[t].pc \in {"clone", "wait", "run"}

\* The lane of session s, if it has one, leaves the map.
Drop(s) ==
    /\ lanes' = [lanes EXCEPT ![s] = 0]
    /\ lru' = Without(lru, s)
    /\ torn' = torn \cup {x \in {s} \cap Tracked : InUse(lanes[x])}

\* A new entry for session s, with a fresh mutex and access time.
Insert(s) ==
    /\ made' = made + 1
    /\ lanes' = [lanes EXCEPT ![s] = made + 1]
    /\ lru' = Append(Without(lru, s), s)

-----------------------------------------------------------------------------
(* acquire *)

\* The elements of seq that are in S, in their order.
Among(seq, S) ==
    LET kept[i \in 0..Len(seq)] ==
            IF i = 0 THEN <<>>
            ELSE IF seq[i] \in S THEN Append(kept[i - 1], seq[i]) ELSE kept[i - 1]
    IN  kept[Len(seq)]

IdleLanes == Among(lru, {s \in Sessions : ~Counted(lanes[s])})

\* Mutant: eviction is off by one and never brings the count down.
Victims_OneShort ==
    SubSeq(IdleLanes, 1, IF Len(lru) <= MaxLanes + 1 THEN 0 ELSE Len(lru) - MaxLanes - 1)

\* maybe_evict: the oldest of the idle lanes, as many as are over capacity.
Victims ==
    LET excess == IF Len(lru) <= MaxLanes THEN 0 ELSE Len(lru) - MaxLanes
        count  == IF Len(IdleLanes) < excess THEN Len(IdleLanes) ELSE excess
    IN  SubSeq(IdleLanes, 1, count)

Acquire(t, s) ==
    /\ At(t, "idle") /\ calls < MaxCalls
    /\ calls' = calls + 1
    /\ Become(t, [Idle EXCEPT !.pc = "evict", !.session = s, !.victims = Victims])
    /\ UNCHANGED <<lanes, lru, waiters, made, torn>>

\* The victims are removed by key, one after the other.
Evict(t) ==
    /\ At(t, "evict")
    /\ \/ /\ task[t].victims = <<>>
          /\ Goto(t, "entry")
          /\ UNCHANGED <<lanes, lru, torn>>
       \/ /\ task[t].victims # <<>>
          /\ Drop(Head(task[t].victims))
          /\ Become(t, [task[t] EXCEPT !.victims = Tail(@)])
    /\ UNCHANGED <<waiters, made, calls>>

\* Mutant: a lane is made even when the session has one.
GetEntry_AlwaysNew(t) ==
    /\ At(t, "entry")
    /\ Insert(Session(t))
    /\ Become(t, [task[t] EXCEPT !.pc = "clone", !.lane = made + 1])
    /\ UNCHANGED <<waiters, calls, torn>>

\* lanes.entry(..).or_insert_with(..).clone()
GetEntry(t) ==
    /\ At(t, "entry")
    /\ \/ /\ lanes[Session(t)] = 0
          /\ Insert(Session(t))
          /\ Become(t, [task[t] EXCEPT !.pc = "clone", !.lane = made + 1])
       \/ /\ lanes[Session(t)] # 0
          /\ Become(t, [task[t] EXCEPT !.pc = "clone", !.lane = lanes[Session(t)]])
          /\ UNCHANGED <<lanes, lru, made>>
    /\ UNCHANGED <<waiters, calls, torn>>

\* entry.touch() and entry.mutex.clone(); the call queues for the mutex.
CloneMutex(t) ==
    /\ At(t, "clone")
    /\ lru' = IF lanes[Session(t)] = task[t].lane
                THEN Append(Without(lru, Session(t)), Session(t)) ELSE lru
    /\ Goto(t, "wait")
    /\ waiters' = Append(waiters, t)
    /\ UNCHANGED <<lanes, made, calls, torn>>

Locked(l) == \E t \in Tasks : At(t, "run") /\ task[t].lane = l

\* t is the first in line for its mutex.
First(t) == \E i \in 1..Len(waiters) :
               /\ waiters[i] = t
               /\ \A j \in 1..(i - 1) : task[waiters[j]].lane # task[t].lane

Lock(t) ==
    /\ At(t, "wait") /\ ~Locked(task[t].lane) /\ First(t)
    /\ Goto(t, "run")
    /\ waiters' = Without(waiters, t)
    /\ UNCHANGED <<lanes, lru, made, calls, torn>>

\* Mutant: a wait that times out is given up silently and starts again.
WatchdogFires_Again(t) ==
    /\ Watchdog
    /\ At(t, "wait") /\ (Locked(task[t].lane) \/ ~First(t))
    /\ Goto(t, "entry")
    /\ waiters' = Without(waiters, t)
    /\ UNCHANGED <<lanes, lru, made, calls, torn>>

\* Mutant: the wait was spawned as a task of its own, which the timeout does
\* not end: the call goes on and its place in line stays.
WatchdogFires_KeepsPlace(t) ==
    /\ Watchdog
    /\ At(t, "wait") /\ (Locked(task[t].lane) \/ ~First(t))
    /\ Goto(t, "replace")
    /\ UNCHANGED <<lanes, lru, waiters, made, calls, torn>>

\* timeout(..) gives up the wait, and its place in line; a mutex that is
\* already granted wins over the timer.
WatchdogFires(t) ==
    /\ Watchdog
    /\ At(t, "wait") /\ (Locked(task[t].lane) \/ ~First(t))
    /\ Goto(t, "replace")
    /\ waiters' = Without(waiters, t)
    /\ UNCHANGED <<lanes, lru, made, calls, torn>>

\* A new lane replaces whatever lane the session has now.
Replace(t) ==
    /\ At(t, "replace")
    /\ Insert(Session(t))
    /\ Become(t, [task[t] EXCEPT !.pc = "run", !.lane = made + 1])
    /\ torn' = torn \cup {s \in {Session(t)} \cap Tracked : InUse(lanes[s])}
    /\ UNCHANGED <<waiters, calls>>

\* The run ends and drops its SessionGuard.
Finish(t) ==
    /\ At(t, "run")
    /\ Become(t, Idle)
    /\ UNCHANGED <<lanes, lru, waiters, made, calls, torn>>

-----------------------------------------------------------------------------
(* remove and gc *)

Remove(s) ==
    /\ Cleanup /\ lanes[s] # 0
    /\ Drop(s)
    /\ UNCHANGED <<task, waiters, made, calls>>

\* retain visits the entries one shard after the other; a lane is judged and
\* dropped under its shard's lock.
Gc(s) ==
    /\ Cleanup /\ lanes[s] # 0 /\ ~Counted(lanes[s])
    /\ Drop(s)
    /\ UNCHANGED <<task, waiters, made, calls>>

-----------------------------------------------------------------------------
Init ==
    /\ lanes = [s \in Sessions |-> 0]
    /\ lru = <<>> /\ waiters = <<>>
    /\ task = [t \in Tasks |-> Idle]
    /\ made = 0 /\ calls = 0 /\ torn = {}

Step(t) == Evict(t) \/ GetEntry(t) \/ CloneMutex(t) \/ Lock(t) \/ Replace(t)

\* Every call has returned and no more are made.
Done == calls = MaxCalls /\ (\A t \in Tasks : At(t, "idle")) /\ UNCHANGED vars

Next ==
    \/ \E t \in Tasks : \/ \E s \in Sessions : Acquire(t, s)
                        \/ Step(t) \/ WatchdogFires(t) \/ Finish(t)
    \/ \E s \in Sessions : Remove(s) \/ Gc(s)
    \/ Done

Spec == Init /\ [][Next]_vars

\* tokio polls tasks that can go on and fires timers; a run may hang forever.
FairSpec == Spec /\ \A t \in Tasks : WF_vars(Step(t)) /\ WF_vars(WatchdogFires(t))

-----------------------------------------------------------------------------
(* Properties *)

\* Lanes, queue and calls keep their types.  lru is the order of the entries'
\* last_access, so it lists the tracked sessions once; the tasks in line for a
\* mutex are exactly the calls whose lock_owned() future is being polled.
TypeOK ==
    /\ lanes \in [Sessions -> 0..made]
    /\ {lru[i] : i \in 1..Len(lru)} = Tracked /\ Len(lru) = Cardinality(Tracked)
    /\ \A t \in Tasks : /\ task[t].pc \in PCs /\ task[t].lane \in 0..made
                        /\ At(t, "idle") \/ Session(t) \in Sessions
    /\ {waiters[i] : i \in 1..Len(waiters)} = {t \in Tasks : At(t, "wait")}
    /\ torn \subseteq Sessions

Overlap(s) == \E t, u \in Tasks : t # u /\ At(t, "run") /\ At(u, "run")
                                  /\ Session(t) = s /\ Session(u) = s

\* Two runs of a session overlap only after its lane was replaced by the
\* watchdog, evicted, collected or removed while a call was using it.
\* Eviction and collection of lanes nobody uses never break serialisation.
OverlapOnlyWhenTorn == \A s \in Sessions : Overlap(s) => s \in torn

\* However many calls race through maybe_evict, the map never holds more
\* lanes than max_lanes and one for each call in progress.
LanesBounded == Len(lru) <= MaxLanes + Cardinality(Tasks)

\* Every call of acquire returns, even if a run of the session hangs forever.
AcquireReturns ==
    \A t \in Tasks : task[t].pc \in PCs \ {"idle", "run"} ~> At(t, "run")

=============================================================================

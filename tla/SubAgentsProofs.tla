-------------------------- MODULE SubAgentsProofs --------------------------
(***************************************************************************)
(* TLAPS proofs about SubAgents, for every number of futures and           *)
(* sub-agents and every limit.                                             *)
(***************************************************************************)
EXTENDS SubAgents, FiniteSetTheorems, TLAPS

States == {"absent"} \cup Active \cup Outcomes

\* Numbers above the counter have not been given out.
TableInv ==
    /\ counter \in Nat
    /\ DOMAIN entries = Ids /\ DOMAIN fut = Futures
    /\ \A n \in Ids : /\ DOMAIN entries[n] = {"state", "announce", "parent", "thread"}
                      /\ entries[n].state \in States
                      /\ n > counter => entries[n].state = "absent"
    /\ \A f \in Futures : DOMAIN fut[f] = {"pc", "id", "up", "parent", "depth", "thread", "aborted"}
    /\ \A n \in steered \cup announcing : n \in Ids /\ n <= counter

\* A sub-agent that was steered away is not active, and not about to be
\* announced, unless it was set running again.
SilentInv ==
    /\ \A n \in Ids : n \in announcing /\ entries[n].state \in Active => n \in revived
    /\ \A n \in Ids : n \in steered \ revived =>
          \/ entries[n].state = "absent"
          \/ /\ entries[n].state \notin Active /\ n \notin announcing
             /\ entries[n].announce = "suppressed"

TableSafe == TableInv /\ SilentInv /\ SlotsInUse

\* The empty table.
LEMMA InitTable == Init => TableSafe
BY DEF Init, TableSafe, TableInv, SilentInv, SlotsInUse, ActiveIds, Absent, Idle, States, Active, Ids

\* What a call of update_state does to the table.
LEMMA SetStateTable ==
    ASSUME TableInv, SilentInv, NEW n, NEW s \in {"running", "ended"}, SetState(n, s),
           UNCHANGED <<counter, announcing, steered>>
    PROVE  /\ \A m \in Ids : m # n => entries'[m] = entries[m]
           /\ \A m \in Ids : /\ entries'[m].thread = entries[m].thread
                             /\ DOMAIN entries'[m] = DOMAIN entries[m]
                             /\ entries'[m].state \in States
                             /\ m > counter => entries'[m].state = "absent"
           /\ n \in Ids => /\ entries[n].state = "absent" => entries'[n].state = "absent"
                           /\ entries[n].state # "absent" => entries'[n].state = s
           /\ DOMAIN entries' = Ids /\ revived \subseteq revived'
           /\ SilentInv'
<1> USE DEF TableInv
<1>1. /\ DOMAIN entries' = Ids /\ revived \subseteq revived'
      /\ \A m \in Ids : m # n => entries'[m] = entries[m]
  BY DEF SetState
<1>2. n \in Ids => /\ entries'[n].state = IF entries[n].state = "absent" THEN "absent" ELSE s
                   /\ entries'[n].thread = entries[n].thread
                   /\ entries'[n].announce = entries[n].announce
                   /\ DOMAIN entries'[n] = DOMAIN entries[n]
                   /\ entries[n].state \in Outcomes /\ s \in Active => n \in revived'
  BY DEF SetState
<1>3. SilentInv'
  BY <1>1, <1>2 DEF SilentInv, States, Active, Outcomes
<1> QED BY <1>1, <1>2, <1>3 DEF States, Active, Outcomes

\* dynamic_spawn and spawn_from_thread go through register.
LEMMA SpawnChecks ==
    ASSUME NEW f, NEW up, NEW d, Spawn(f, up) \/ SpawnFromThread(f, d)
    PROVE  \E k : Check(f, k) /\ DOMAIN k = DOMAIN Idle
<1>1. CASE Spawn(f, up)
  <2> DEFINE caller == IF up = NoFuture THEN [Idle EXCEPT !.pc = "run"] ELSE fut[up]
             k == [Idle EXCEPT !.up = up, !.parent = caller.id, !.depth = caller.depth + 1]
  <2>1. Check(f, k)
    BY <1>1 DEF Spawn
  <2>2. DOMAIN k = DOMAIN Idle
    BY DEF Idle
  <2> QED BY <2>1, <2>2
<1>2. CASE SpawnFromThread(f, d)
  <2> DEFINE k == [Idle EXCEPT !.thread = TRUE, !.depth = d]
  <2>1. Check(f, k)
    BY <1>2 DEF SpawnFromThread
  <2>2. DOMAIN k = DOMAIN Idle
    BY DEF Idle
  <2> QED BY <2>1, <2>2
<1> QED BY <1>1, <1>2

\* Every step of the futures, timers and callers keeps the table's invariant.
LEMMA StepTable == TableSafe /\ [Next]_vars => TableSafe'
<1> SUFFICES ASSUME TableSafe, [Next]_vars PROVE TableSafe'
  OBVIOUS
<1>0. TableInv /\ SilentInv /\ SlotsInUse
  BY DEF TableSafe
<1> USE DEF At, Become, Goto, ActiveIds, history
<1>1. ASSUME NEW f \in Futures, ~At(f, "mark"), ~At(f, "run"),
             NEW k, fut' = [fut EXCEPT ![f] = k], DOMAIN k = DOMAIN Idle, k.pc \notin {"mark", "run"},
             UNCHANGED <<entries, counter, announcing, steered, dropped, revived>>
      PROVE  TableSafe'
  BY <1>0, <1>1 DEF TableSafe, TableInv, SilentInv, SlotsInUse, Idle
<1>2. ASSUME NEW f \in Futures, At(f, "idle"), NEW k, Check(f, k), DOMAIN k = DOMAIN Idle,
             UNCHANGED <<entries, counter, announcing, steered, dropped, revived>>
      PROVE  TableSafe'
  <2>1. CASE Admit(k)
    <3>1. fut' = [fut EXCEPT ![f] = [k EXCEPT !.pc = "insert"]]
      BY <1>2, <2>1 DEF Check
    <3>2. DOMAIN [k EXCEPT !.pc = "insert"] = DOMAIN Idle /\ [k EXCEPT !.pc = "insert"].pc = "insert"
      BY <1>2 DEF Idle
    <3> QED BY <1>1, <1>2, <3>1, <3>2
  <2>2. CASE ~Admit(k)
    <3>1. fut' = [fut EXCEPT ![f] = Idle] /\ Idle.pc = "idle"
      BY <1>2, <2>2 DEF Check, Idle
    <3> QED BY <1>1, <1>2, <3>1
  <2> QED BY <2>1, <2>2
<1>3. ASSUME NEW f \in Futures, NEW up, NEW d, Spawn(f, up) \/ SpawnFromThread(f, d) PROVE TableSafe'
  <2>1. PICK k : Check(f, k) /\ DOMAIN k = DOMAIN Idle
    BY <1>3, SpawnChecks
  <2>2. At(f, "idle") /\ UNCHANGED <<entries, counter, announcing, steered, dropped, revived>>
    BY <1>3 DEF Spawn, SpawnFromThread
  <2> QED BY <1>2, <2>1, <2>2
<1>4. ASSUME NEW f \in Futures, SteerRegister(f) PROVE TableSafe'
  BY <1>0, <1>1, <1>4 DEF SteerRegister, Check, Idle, TableInv
<1>5. ASSUME NEW f \in Futures, Leave(f) PROVE TableSafe'
  BY <1>0, <1>1, <1>5 DEF Leave, Idle
<1>6. ASSUME NEW f \in Futures, NEW n \in Ids, SteerRestart(f, n) PROVE TableSafe'
  <2>1. TableInv'
    BY <1>0, <1>6 DEF SteerRestart, TableInv, Idle, States, Active, Outcomes, Ids
  <2>2. SilentInv'
    BY <1>0, <1>6 DEF SteerRestart, TableInv, SilentInv, Active
  <2>3. SlotsInUse'
    BY <1>0, <1>6 DEF SteerRestart, TableInv, SlotsInUse, Active, Idle
  <2> QED BY <2>1, <2>2, <2>3 DEF TableSafe
<1>7. ASSUME NEW f \in Futures, Insert(f) PROVE TableSafe'
  <2>1. TableInv'
    BY <1>0, <1>7 DEF Insert, TableInv, Idle, Absent, States, Active, Ids
  <2>2. SilentInv'
    BY <1>0, <1>7 DEF Insert, TableInv, SilentInv, Absent
  <2>3. SlotsInUse'
    BY <1>0, <1>7 DEF Insert, TableInv, SlotsInUse, Absent, Idle
  <2> QED BY <2>1, <2>2, <2>3 DEF TableSafe
<1>8. ASSUME NEW f \in Futures, Mark(f) PROVE TableSafe'
  <2>1. /\ SetState(fut[f].id, "running") /\ UNCHANGED <<counter, announcing, steered>>
        /\ dropped \subseteq dropped'
        /\ \/ fut' = [fut EXCEPT ![f] = Idle] /\ fut[f].id \in dropped'
           \/ fut' = [fut EXCEPT ![f] = [fut[f] EXCEPT !.pc = "run"]]
    BY <1>8 DEF Mark
  <2>2. TableInv' /\ SilentInv'
    BY <1>0, <2>1, SetStateTable DEF TableInv, Idle
  <2>3. SlotsInUse'
    BY <1>0, <2>1, SetStateTable DEF TableInv, SlotsInUse, Idle
  <2> QED BY <2>2, <2>3 DEF TableSafe
<1>9. ASSUME NEW f \in Futures, Finish(f) PROVE TableSafe'
  <2>1. /\ SetState(fut[f].id, "ended") /\ UNCHANGED <<counter, announcing, steered, dropped>>
        /\ fut' = [fut EXCEPT ![f] = [fut[f] EXCEPT !.pc = "output"]]
    BY <1>9 DEF Finish
  <2>2. TableInv' /\ SilentInv'
    BY <1>0, <2>1, SetStateTable DEF TableInv
  <2>3. SlotsInUse'
    BY <1>0, <2>1, SetStateTable DEF TableInv, SlotsInUse, Active
  <2> QED BY <2>2, <2>3 DEF TableSafe
<1>10. ASSUME NEW f \in Futures, NEW k, DropBelow(f, k)
       PROVE  /\ DOMAIN fut' = Futures /\ fut'[f] = k
              /\ \A g \in Futures : g # f => DOMAIN fut'[g] = DOMAIN Idle
              /\ \A g \in Futures : g # f /\ fut[g].pc \in {"mark", "run"} =>
                    \/ fut'[g].id = fut[g].id /\ fut'[g].pc = fut[g].pc
                    \/ fut[g].id \in DroppedBelow(f)
  BY <1>0, <1>10 DEF DropBelow, DroppedBelow, TableInv, Idle
<1>11. ASSUME NEW f \in Futures, TimeOut(f) PROVE TableSafe'
  <2>1. /\ SetState(fut[f].id, "ended") /\ UNCHANGED <<counter, announcing, steered>>
        /\ dropped' = dropped \cup DroppedBelow(f)
        /\ DropBelow(f, [fut[f] EXCEPT !.pc = "output"])
    BY <1>11 DEF TimeOut
  <2>2. TableInv' /\ SilentInv'
    BY <1>0, <2>1, <1>10, SetStateTable DEF TableInv, Idle
  <2>3. SlotsInUse'
    BY <1>0, <2>1, <1>10, SetStateTable DEF TableInv, SlotsInUse, Active
  <2> QED BY <2>2, <2>3 DEF TableSafe
<1>12. ASSUME NEW f \in Futures, Drop(f) PROVE TableSafe'
  <2>1. /\ UNCHANGED <<entries, counter, announcing, steered, revived>>
        /\ dropped' = dropped \cup DroppedBelow(f) \cup {fut[f].id}
        /\ DropBelow(f, Idle)
    BY <1>12 DEF Drop
  <2>2. TableInv' /\ SilentInv'
    BY <1>0, <2>1, <1>10 DEF TableInv, SilentInv, Idle
  <2>3. SlotsInUse'
    BY <1>0, <2>1, <1>10 DEF TableInv, SlotsInUse
  <2> QED BY <2>2, <2>3 DEF TableSafe
<1>13. CASE Gc
  BY <1>0, <1>13 DEF Gc, TableSafe, TableInv, SilentInv, SlotsInUse, Absent, States, Active
<1>14. ASSUME NEW n \in Ids, CompleteWithOutcome(n) PROVE TableSafe'
  BY <1>0, <1>14 DEF CompleteWithOutcome, TableSafe, TableInv, SilentInv, SlotsInUse, States,
     Active, Outcomes
<1>15. ASSUME NEW n \in Ids, MarkAnnounced(n) PROVE TableSafe'
  BY <1>0, <1>15 DEF MarkAnnounced, TableSafe, TableInv, SilentInv, SlotsInUse
<1>16. ASSUME NEW p, CancelByParent(p) PROVE TableSafe'
  BY <1>0, <1>16 DEF CancelByParent, TableSafe, TableInv, SilentInv, SlotsInUse, States,
     Active, Outcomes
<1>17. CASE ListAnnounces
  BY <1>0, <1>17 DEF ListAnnounces, TableSafe, TableInv, SilentInv, SlotsInUse, States,
     Active, Outcomes, Ids
<1>18. CASE UNCHANGED vars
  BY <1>0, <1>18 DEF vars, TableSafe, TableInv, SilentInv, SlotsInUse
<1> QED
  BY <1>3, <1>4, <1>5, <1>6, <1>7, <1>8, <1>9, <1>11, <1>12, <1>13, <1>14, <1>15, <1>16,
     <1>17, <1>18 DEF Next, FutureStep, Rest

\* A slot is held by a sub-agent that is there, or by one whose future was dropped.
THEOREM SlotsHeld == Spec => []SlotsInUse
<1>1. TableSafe => SlotsInUse
  BY DEF TableSafe
<1> QED BY <1>1, InitTable, StepTable, PTL DEF Spec

\* steer_restart silences the sub-agent it replaces for good, whatever
\* announcements were listed before and however late the sub-agent completes.
THEOREM SteeredSilent == Spec => []SteeredStaysSilent
<1>1. ASSUME TableSafe PROVE SteeredStaysSilent
  <2> SUFFICES ASSUME NEW n \in steered \ revived, entries[n].state # "absent"
               PROVE  entries[n].announce = "suppressed"
    BY DEF SteeredStaysSilent
  <2> QED BY <1>1 DEF TableSafe, TableInv, SilentInv
<1> QED BY <1>1, InitTable, StepTable, PTL DEF Spec

-----------------------------------------------------------------------------
(* The global limit *)

\* Active sub-agents that were not cancelled before, and the one that register
\* has counted room for.
Counted == ActiveIds \ revived

LimitInv ==
    ~overlapped =>
        /\ \A f, g \in Registering : f = g
        /\ Cardinality(Counted) <= MaxActive
        /\ Registering # {} => Cardinality(Counted) < MaxActive

\* Sets of sub-agents are finite.
LEMMA IdsFinite == \A S \in SUBSET Ids : IsFiniteSet(S) /\ Cardinality(S) \in Nat
<1>1. IsFiniteSet(Ids)
  BY SubAgentConstants, FS_Interval DEF Ids
<1> QED BY <1>1, FS_Subset, FS_CardinalityType

\* Fewer sub-agents need no more room.
LEMMA FewerCounted ==
    ASSUME NEW S \in SUBSET Ids, NEW T \in SUBSET S
    PROVE  Cardinality(T) <= Cardinality(S)
BY IdsFinite, FS_Subset

\* A step that begins no registration and makes no sub-agent active.
LEMMA LimitShrinks ==
    ASSUME LimitInv, ~overlapped' => ~overlapped, Registering' \subseteq Registering,
           Counted' \subseteq Counted
    PROVE  LimitInv'
<1>1. /\ Cardinality(Counted') <= Cardinality(Counted)
      /\ Cardinality(Counted') \in Nat /\ Cardinality(Counted) \in Nat
  <2>1. Counted \in SUBSET Ids /\ Counted' \in SUBSET Counted
    BY DEF Counted, ActiveIds
  <2> QED BY <2>1, FewerCounted, IdsFinite
<1> QED BY <1>1, SubAgentConstants DEF LimitInv

\* register has counted the active sub-agents and found room, or turns the call down.
LEMMA CheckKeepsLimit ==
    ASSUME TableInv, LimitInv, NEW f \in Futures, NEW k, Check(f, k), ~At(f, "insert"),
           DOMAIN k = DOMAIN Idle, UNCHANGED <<entries, revived>>
    PROVE  LimitInv'
<1> USE DEF Check, Become, At, Registering, TableInv
<1>0. Counted' = Counted
  BY DEF Counted, ActiveIds
<1>1. CASE ~Admit(k)
  <2>1. Registering' \subseteq Registering /\ (~overlapped' => ~overlapped)
    BY <1>1 DEF Idle
  <2> QED BY <1>0, <2>1, LimitShrinks
<1>2. CASE Admit(k) /\ Registering = {}
  <2>1. Registering' = {f}
    BY <1>2 DEF Idle
  <2>2. Cardinality(Counted) <= Cardinality(ActiveIds)
    <3>1. ActiveIds \in SUBSET Ids /\ Counted \in SUBSET ActiveIds
      BY DEF ActiveIds, Counted
    <3> QED BY <3>1, FewerCounted
  <2>3. Cardinality(ActiveIds) < MaxActive
    BY <1>2 DEF Admit
  <2>4. Cardinality(Counted) \in Nat /\ Cardinality(ActiveIds) \in Nat
    BY IdsFinite DEF Counted, ActiveIds
  <2> HIDE DEF Registering
  <2> QED BY <1>0, <2>1, <2>2, <2>3, <2>4, SubAgentConstants DEF LimitInv
<1>3. CASE Admit(k) /\ Registering # {}
  BY <1>3 DEF LimitInv
<1> QED BY <1>1, <1>2, <1>3

\* Every step keeps the limit.
LEMMA StepLimit == TableInv /\ LimitInv /\ [Next]_vars => LimitInv'
<1> SUFFICES ASSUME TableInv, LimitInv, [Next]_vars PROVE LimitInv'
  OBVIOUS
<1> USE DEF At, Become, Goto, history, Registering, TableInv
<1>1. ASSUME NEW f \in Futures, NEW up, NEW d, Spawn(f, up) \/ SpawnFromThread(f, d) PROVE LimitInv'
  <2>1. PICK k : Check(f, k) /\ DOMAIN k = DOMAIN Idle
    BY <1>1, SpawnChecks
  <2>2. At(f, "idle") /\ UNCHANGED <<entries, revived>>
    BY <1>1 DEF Spawn, SpawnFromThread
  <2> QED BY <2>1, <2>2, CheckKeepsLimit
<1>2. ASSUME NEW f \in Futures, SteerRegister(f) PROVE LimitInv'
  BY <1>2, CheckKeepsLimit DEF SteerRegister, Idle
<1>3. ASSUME NEW f \in Futures, Insert(f) PROVE LimitInv'
  <2> SUFFICES ASSUME ~overlapped' PROVE Registering' = {} /\ Cardinality(Counted') <= MaxActive
    BY DEF LimitInv
  <2>0. ~overlapped
    BY <1>3 DEF Insert
  <2>1. Registering = {f}
    BY <1>3, <2>0 DEF Insert, LimitInv
  <2>2. Registering' = {}
    BY <1>3, <2>1 DEF Insert, Idle
  <2>3. Counted' \subseteq Counted \cup {counter + 1} /\ Counted' \in SUBSET Ids
    BY <1>3 DEF Insert, Counted, ActiveIds
  <2>4. IsFiniteSet(Counted) /\ Cardinality(Counted) \in Nat /\ Cardinality(Counted) < MaxActive
    BY <2>0, <2>1, IdsFinite DEF Counted, ActiveIds, LimitInv
  <2>5. /\ IsFiniteSet(Counted \cup {counter + 1})
        /\ Cardinality(Counted \cup {counter + 1}) <= Cardinality(Counted) + 1
    BY <2>4, FS_AddElement
  <2>6. Cardinality(Counted') <= Cardinality(Counted \cup {counter + 1})
    BY <2>3, <2>5, FS_Subset
  <2>7. Cardinality(Counted') \in Nat /\ Cardinality(Counted \cup {counter + 1}) \in Nat
    BY <2>3, <2>5, IdsFinite, FS_CardinalityType
  <2> QED BY <2>2, <2>4, <2>5, <2>6, <2>7, SubAgentConstants
<1> DEFINE Shrinks == /\ ~overlapped' => ~overlapped
                      /\ Registering' \subseteq Registering /\ Counted' \subseteq Counted
<1> USE DEF Counted, ActiveIds
<1>4. ASSUME NEW f \in Futures, NEW n \in Ids, SteerRestart(f, n) PROVE Shrinks
  BY <1>4 DEF SteerRestart, Idle, Active
<1>5. ASSUME NEW n, NEW t \in {"running", "ended"}, SetState(n, t) PROVE Counted' \subseteq Counted
  BY <1>5 DEF SetState, States, Active, Outcomes
<1>6. ASSUME NEW f \in Futures, Mark(f) PROVE Shrinks
  <2>1. Counted' \subseteq Counted
    BY <1>5, <1>6 DEF Mark
  <2> QED BY <1>6, <2>1 DEF Mark, Idle
<1>7. ASSUME NEW f \in Futures, Finish(f) PROVE Shrinks
  <2>1. Counted' \subseteq Counted
    BY <1>5, <1>7 DEF Finish
  <2> QED BY <1>7, <2>1 DEF Finish
<1>8. ASSUME NEW f \in Futures, NEW k, k.pc # "insert", DropBelow(f, k)
      PROVE  Registering' \subseteq Registering
  BY <1>8 DEF DropBelow, Idle
<1>9. ASSUME NEW f \in Futures, TimeOut(f) PROVE Shrinks
  <2>1. Counted' \subseteq Counted
    BY <1>5, <1>9 DEF TimeOut
  <2>2. Registering' \subseteq Registering
    BY <1>8, <1>9 DEF TimeOut
  <2> QED BY <1>9, <2>1, <2>2 DEF TimeOut
<1>10. ASSUME NEW f \in Futures, Drop(f) PROVE Shrinks
  <2>1. Registering' \subseteq Registering
    BY <1>8, <1>10 DEF Drop, Idle
  <2> QED BY <1>10, <2>1 DEF Drop
<1>11. ASSUME NEW f \in Futures, Leave(f) PROVE Shrinks
  BY <1>11 DEF Leave, Idle
<1>12. ASSUME Gc PROVE Shrinks
  BY <1>12 DEF Gc, Absent, Active
<1>13. ASSUME NEW n \in Ids, CompleteWithOutcome(n) PROVE Shrinks
  BY <1>13 DEF CompleteWithOutcome, Active
<1>14. ASSUME NEW n \in Ids, MarkAnnounced(n) PROVE Shrinks
  BY <1>14 DEF MarkAnnounced
<1>15. ASSUME NEW p, CancelByParent(p) PROVE Shrinks
  BY <1>15 DEF CancelByParent, Active
<1>16. ASSUME ListAnnounces PROVE Shrinks
  BY <1>16 DEF ListAnnounces
<1>17. ASSUME UNCHANGED vars PROVE Shrinks
  BY <1>17 DEF vars
<1>18. Shrinks => LimitInv'
  BY LimitShrinks
<1> HIDE DEF Shrinks
<1> QED
  BY <1>1, <1>2, <1>3, <1>4, <1>6, <1>7, <1>9, <1>10, <1>11, <1>12, <1>13, <1>14, <1>15, <1>16,
     <1>17, <1>18 DEF Next, FutureStep, Rest

\* Sub-agents never outnumber global_max_concurrent, unless two registrations
\* overlapped or a cancelled sub-agent was set running.
THEOREM LimitHolds == Spec => []WithinLimit
<1>1. Init => LimitInv
  <2>1. ASSUME Init PROVE Counted = {} /\ Registering = {}
    BY <2>1 DEF Init, Counted, ActiveIds, Absent, Active, Registering, At, Idle
  <2>2. Cardinality({}) = 0
    BY FS_EmptySet
  <2> QED BY <2>1, <2>2, SubAgentConstants DEF LimitInv
<1>2. LimitInv => WithinLimit
  <2>1. revived = {} => Counted = ActiveIds
    BY DEF Counted
  <2> QED BY <2>1 DEF LimitInv, WithinLimit
<1>3. TableSafe => TableInv
  BY DEF TableSafe
<1> QED BY <1>1, <1>2, <1>3, InitTable, StepTable, StepLimit, PTL DEF Spec
=============================================================================

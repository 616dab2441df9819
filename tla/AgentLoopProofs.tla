-------------------------- MODULE AgentLoopProofs --------------------------
(***************************************************************************)
(* TLAPS proofs about AgentLoop, for every number of models, attempts,     *)
(* rounds and retries, every answer and every way the provider fails.      *)
(***************************************************************************)
EXTENDS AgentLoop, FiniteSetTheorems, WellFoundedInduction, TLAPS

-----------------------------------------------------------------------------
(* Cancellation *)

\* Between the check of the token and the request no stream has been opened
\* since the cancellation.
CancelInv ==
    /\ late \in {0, 1}
    /\ late = 1 => cancelled /\ pc \notin {"compact", "send"}

\* Every step keeps it: a stream is opened from Send and RetryEmpty only.
LEMMA StepCancel == CancelInv /\ [Next]_vars => CancelInv'
<1> SUFFICES ASSUME CancelInv, [Next]_vars PROVE CancelInv'
  OBVIOUS
<1> USE DEF CancelInv, Goto, Only, history
<1>1. ASSUME NEW e, Fail(e) PROVE CancelInv'
  BY <1>1 DEF Fail
<1>2. CASE NextAttempt
  BY <1>2 DEF NextAttempt
<1>3. CASE StartAttempt
  BY <1>3 DEF StartAttempt
<1>4. CASE HookCancelsRun
  BY <1>1, <1>4 DEF HookCancelsRun
<1>5. CASE StartRound
  BY <1>1, <1>5 DEF StartRound
<1>6. CASE CheckAndCompact
  BY <1>6 DEF CheckAndCompact
<1>7. CASE Send
  BY <1>1, <1>7 DEF Send, OpenStream
<1>8. CASE StreamFails
  BY <1>1, <1>8 DEF StreamFails
<1>9. CASE StreamEmpty
  BY <1>1, <1>9 DEF StreamEmpty
<1>10. CASE RetryEmpty
  BY <1>1, <1>10 DEF RetryEmpty, OpenStream
<1>11. CASE HandleOverflow
  BY <1>1, <1>11 DEF HandleOverflow
<1>12. CASE Answer
  BY <1>12 DEF Answer
<1>13. CASE ToolRound
  BY <1>13 DEF ToolRound
<1>14. ASSUME NEW calls, AskForTools(calls) PROVE CancelInv'
  BY <1>1, <1>14 DEF AskForTools
<1>15. CASE Cancel
  BY <1>15 DEF Cancel
<1>16. CASE UNCHANGED vars
  BY <1>16 DEF vars
<1> QED
  BY <1>2, <1>3, <1>4, <1>5, <1>6, <1>7, <1>8, <1>9, <1>10, <1>11, <1>12, <1>13, <1>14, <1>15,
     <1>16 DEF Next, Turn

\* A cancelled turn opens one more stream at most, whatever it is in the middle
\* of and however many attempts, rounds and retries are left.
THEOREM Cancels == Spec => []CancelStops
<1>1. Init => CancelInv
  BY DEF Init, CancelInv
<1>2. CancelInv => CancelStops
  BY DEF CancelInv, CancelStops
<1> QED BY <1>1, <1>2, StepCancel, PTL DEF Spec

-----------------------------------------------------------------------------
(* Failover *)

Controller(c) ==
    /\ DOMAIN c = {"state", "model", "profile", "level", "total", "transient"}
    /\ c.state \in {"init", "model", "profile", "think", "success", "exhausted"}
    /\ c.model \in 0..(Models - 1) /\ c.profile \in Nat /\ c.level \in 0..High
    /\ c.total \in Nat /\ c.transient \in Nat

\* The controller's count of retried failures, and a model list that is used
\* up, are explained by the latest failure.
FailoverInv ==
    /\ Controller(ctl)
    /\ ctl.transient # 0 /\ ctl.total < MaxAttempts =>
          failed.model = ctl.model /\ failed.reason \in Retried
    /\ ctl.state = "exhausted" /\ ctl.total < MaxAttempts =>
          failed.model = ctl.model /\ ctl.model = Models - 1

\* What GivenUpForCause says of a step.
ForCause ==
    ctl'.model # ctl.model \/ (ctl'.state = "exhausted" /\ ctl'.total < MaxAttempts) =>
        /\ failed'.model = ctl.model
        /\ ctl'.state = "exhausted" => ctl.model = Models - 1
        /\ ctl'.state # "exhausted" => ctl'.model = ctl.model + 1
        /\ failed'.reason \in Retried =>
              failed.model = ctl.model /\ failed.reason \in Retried

\* advance_to_next_model takes the next model or gives up after the last.
LEMMA Advance ==
    ASSUME NEW c, Controller(c)
    PROVE  /\ Controller(advance_to_next_model(c))
           /\ advance_to_next_model(c).transient = 0
           /\ advance_to_next_model(c).total = c.total
           /\ \/ /\ advance_to_next_model(c).state = "model"
                 /\ advance_to_next_model(c).model = c.model + 1
              \/ /\ advance_to_next_model(c).state = "exhausted"
                 /\ advance_to_next_model(c).model = c.model /\ c.model = Models - 1
<1> DEFINE next == [c EXCEPT !.transient = 0, !.profile = 0, !.level = High]
<1>1. /\ Controller(next) /\ next.transient = 0 /\ next.total = c.total /\ next.model = c.model
      /\ c.model \in Nat /\ c.model <= Models - 1
  BY AgentLoopConstants DEF Controller, High
<1>2. advance_to_next_model(c) = IF c.model + 1 < Models
                                 THEN [next EXCEPT !.state = "model", !.model = @ + 1]
                                 ELSE [next EXCEPT !.state = "exhausted"]
  BY DEF advance_to_next_model
<1> HIDE DEF next
<1>3. CASE c.model + 1 < Models
  <2>1. next.model + 1 \in 0..(Models - 1)
    BY <1>1, <1>3, AgentLoopConstants
  <2> QED BY <1>1, <1>2, <1>3, <2>1 DEF Controller
<1>4. CASE ~(c.model + 1 < Models)
  <2>1. c.model = Models - 1
    BY <1>1, <1>4, AgentLoopConstants
  <2> QED BY <1>1, <1>2, <1>4, <2>1 DEF Controller
<1> QED BY <1>3, <1>4

\* Every other answer of the controller stays with its model, and counts a
\* failure that is retried as such.
LEMMA TransitionStays ==
    ASSUME NEW c, Controller(c), NEW reason
    PROVE  \/ Transition(c, reason) = advance_to_next_model(c) /\ (reason \in Retried => c.transient # 0)
           \/ /\ Controller(Transition(c, reason))
              /\ Transition(c, reason).state \in {"profile", "think"}
              /\ Transition(c, reason).model = c.model /\ Transition(c, reason).total = c.total
              /\ Transition(c, reason).transient # 0 => reason \in Retried
<1>1. CASE reason \in Rotating
  BY <1>1 DEF Transition, try_profile, Rotating, Retried, Profiles, Controller, High
<1>2. CASE reason = "ContextOverflow"
  <2>1. CASE c.level > 0
    <3>1. c.level - 1 \in 0..High
      BY <2>1 DEF Controller, High
    <3>2. Transition(c, reason) = [c EXCEPT !.state = "think", !.profile = 0, !.level = @ - 1,
                                            !.transient = 0]
      BY <1>2, <2>1 DEF Transition, Rotating, Retried
    <3> QED BY <3>1, <3>2 DEF Controller
  <2>2. CASE ~(c.level > 0)
    BY <1>2, <2>2 DEF Transition, Rotating, Retried
  <2> QED BY <2>1, <2>2
<1>3. CASE reason \in Retried
  <2>0. c.transient \in Nat
    BY DEF Controller
  <2>1. CASE c.transient + 1 >= 2
    BY <1>3, <2>0, <2>1 DEF Transition, Rotating, Retried
  <2>2. CASE ~(c.transient + 1 >= 2)
    BY <1>3, <2>0, <2>2 DEF Transition, try_profile, Rotating, Retried, Controller, High
  <2> QED BY <2>1, <2>2
<1>4. CASE reason \notin Rotating \cup Retried \cup {"ContextOverflow"}
  BY <1>4 DEF Transition
<1> QED BY <1>1, <1>2, <1>3, <1>4

\* A failed attempt keeps the invariant, and a model it gives up is given up for cause.
LEMMA FailForCause ==
    ASSUME FailoverInv, NEW e, Fail(e)
    PROVE  FailoverInv' /\ ForCause
<1>1. PICK reason : /\ ctl' = record_failure(ctl, reason)
                    /\ failed' = [model |-> ctl.model, reason |-> reason]
  BY DEF Fail
<1> DEFINE counted == [ctl EXCEPT !.total = @ + 1]
<1>2. /\ Controller(counted) /\ counted.total = ctl.total + 1 /\ counted.model = ctl.model
      /\ counted.transient = ctl.transient /\ ctl.total \in Nat /\ counted.total \in Nat
  BY DEF FailoverInv, Controller
<1>3. ctl' = IF counted.total >= MaxAttempts THEN [counted EXCEPT !.state = "exhausted"]
                                             ELSE Transition(counted, reason)
  BY <1>1 DEF record_failure
<1> HIDE DEF counted
<1>4. CASE counted.total >= MaxAttempts
  <2>1. /\ Controller(ctl') /\ ctl'.model = ctl.model /\ ~(ctl'.total < MaxAttempts)
    BY <1>2, <1>3, <1>4, AgentLoopConstants DEF Controller
  <2> QED BY <2>1 DEF FailoverInv, ForCause
<1>5. CASE counted.total < MaxAttempts
  <2>1. ctl' = Transition(counted, reason) /\ ctl.total < MaxAttempts
    BY <1>2, <1>3, <1>5, AgentLoopConstants
  <2>2. CASE ctl' = advance_to_next_model(counted) /\ (reason \in Retried => counted.transient # 0)
    <3>1. reason \in Retried => failed.model = ctl.model /\ failed.reason \in Retried
      BY <1>2, <2>1, <2>2 DEF FailoverInv
    <3>2. Controller(ctl') /\ ctl'.transient = 0
      BY <1>2, <2>2, Advance
    <3>3. \/ ctl'.state = "model" /\ ctl'.model = ctl.model + 1
          \/ ctl'.state = "exhausted" /\ ctl'.model = ctl.model /\ ctl.model = Models - 1
      BY <1>2, <2>2, Advance
    <3> QED BY <1>1, <3>1, <3>2, <3>3 DEF FailoverInv, ForCause
  <2>3. CASE ~(ctl' = advance_to_next_model(counted) /\ (reason \in Retried => counted.transient # 0))
    <3>1. /\ Controller(ctl') /\ ctl'.state \in {"profile", "think"} /\ ctl'.model = ctl.model
          /\ ctl'.transient # 0 => reason \in Retried
      BY <1>2, <2>1, <2>3, TransitionStays
    <3> QED BY <1>1, <3>1 DEF FailoverInv, ForCause
  <2> QED BY <2>2, <2>3
<1> QED BY <1>2, <1>4, <1>5, AgentLoopConstants

\* Every step keeps the invariant and gives up no model without cause.
LEMMA StepFailover == FailoverInv /\ [Next]_vars => FailoverInv' /\ ForCause
<1> SUFFICES ASSUME FailoverInv, [Next]_vars PROVE FailoverInv' /\ ForCause
  OBVIOUS
<1> USE DEF Goto, Only, history
<1>1. ASSUME UNCHANGED <<ctl, failed>> PROVE FailoverInv' /\ ForCause
  BY <1>1 DEF FailoverInv, ForCause
<1>2. CASE NextAttempt \/ StartAttempt \/ CheckAndCompact \/ ToolRound \/ Cancel
  BY <1>1, <1>2 DEF NextAttempt, StartAttempt, CheckAndCompact, ToolRound, Cancel
<1>3. CASE HookCancelsRun \/ StartRound
  BY <1>1, <1>3, FailForCause DEF HookCancelsRun, StartRound
<1>4. CASE Send \/ StreamFails
  BY <1>1, <1>4, FailForCause DEF Send, OpenStream, StreamFails
<1>5. CASE StreamEmpty \/ RetryEmpty
  BY <1>1, <1>5, FailForCause DEF StreamEmpty, RetryEmpty, OpenStream
<1>6. CASE HandleOverflow
  BY <1>1, <1>6, FailForCause DEF HandleOverflow
<1>7. ASSUME NEW calls, AskForTools(calls) PROVE FailoverInv' /\ ForCause
  BY <1>1, <1>7, FailForCause DEF AskForTools
<1>8. CASE Answer
  <2>1. ctl' = record_success(ctl)
    BY <1>8 DEF Answer
  <2>2. /\ Controller(ctl') /\ ctl'.state = "success" /\ ctl'.transient = 0 /\ ctl'.model = ctl.model
    BY <2>1 DEF record_success, FailoverInv, Controller
  <2> QED BY <2>2 DEF FailoverInv, ForCause
<1>9. CASE UNCHANGED vars
  BY <1>1, <1>9 DEF vars
<1> QED
  BY <1>2, <1>3, <1>4, <1>5, <1>6, <1>7, <1>8, <1>9 DEF Next, Turn

\* The failover controller gives up a model only after its latest attempt
\* failed, and for a reason it retries only when the one before failed so too;
\* it goes through the models one by one and is exhausted early only at the last.
THEOREM FailoverForCause == Spec => GivenUpForCause
<1>1. Init => FailoverInv
  <2>1. Init => Controller(ctl) /\ ctl.transient = 0 /\ ctl.state = "init"
    BY AgentLoopConstants DEF Init, NewController, Controller, High
  <2> QED BY <2>1 DEF FailoverInv
<1>2. FailoverInv /\ [Next]_vars => FailoverInv'
  BY StepFailover
<1>3. FailoverInv /\ [Next]_vars =>
        [ctl'.model # ctl.model \/ (ctl'.state = "exhausted" /\ ctl'.total < MaxAttempts) =>
          /\ failed'.model = ctl.model
          /\ ctl'.state = "exhausted" => ctl.model = Models - 1
          /\ ctl'.state # "exhausted" => ctl'.model = ctl.model + 1
          /\ failed'.reason \in Retried =>
                failed.model = ctl.model /\ failed.reason \in Retried]_vars
  BY StepFailover DEF ForCause
<1> QED BY <1>1, <1>2, <1>3, PTL DEF Spec, GivenUpForCause

-----------------------------------------------------------------------------
(* Iteration, for the calls of a round *)

\* A set of numbers that is not empty has a least element.
LEMMA NatLeast ==
  ASSUME NEW T, T \subseteq Nat, T # {}
  PROVE  \E x \in T : \A y \in T : x <= y
<1> DEFINE R == {p \in Nat \X Nat : p[1] < p[2]}
<1>0. IsWellFoundedOn(R, Nat)
  <2>1. R = OpToRel(<, Nat) BY Zenon DEF OpToRel
  <2> QED BY <2>1, NatLessThanWellFounded, Zenon
<1>1. PICK x \in T : \A y \in T : <<y,x>> \notin R
  BY <1>0, WFMin
<1>2. \A y \in T : ~(y < x)
  BY <1>1
<1> QED BY <1>2

\* Induction over the numbers, for a property given as a set.
LEMMA SetInduction ==
  ASSUME NEW T, 0 \in T, \A n \in Nat : n \in T => n + 1 \in T
  PROVE  Nat \subseteq T
<1> SUFFICES ASSUME Nat \ T # {} PROVE FALSE OBVIOUS
<1>1. PICK x \in Nat \ T : \A y \in Nat \ T : x <= y BY NatLeast
<1>2. x # 0 /\ x-1 \in Nat BY <1>1
<1>3. x-1 \in T BY <1>1, <1>2
<1>4. (x-1)+1 = x BY <1>2
<1> QED BY <1>1,<1>2,<1>3,<1>4

\* g[k] is the k-th step of the iteration.
Iterated(g, n, start, step) ==
    g[0] = start /\ \A k \in 1..n : g[k] = step[<<k, g[k - 1]>>]

\* The iteration of a function on a set exists: recursive definitions of this
\* shape have a solution.
LEMMA Iterates ==
  ASSUME NEW n \in Nat, NEW X, NEW start \in X, NEW step \in [(1..n) \X X -> X]
  PROVE  \E g \in [0..n -> X] : Iterated(g, n, start, step)
<1> DEFINE Good(m, g) == g[0] = start /\ \A k \in 1..m : g[k] = step[<<k, g[k - 1]>>]
           T == {m \in Nat : m <= n => \E g \in [0..m -> X] : Good(m, g)}
<1>1. 0 \in T
  <2>1. [k \in 0..0 |-> start] \in [0..0 -> X] /\ Good(0, [k \in 0..0 |-> start])
    OBVIOUS
  <2> HIDE DEF Good
  <2> QED BY <2>1
<1>2. ASSUME NEW m \in Nat, m \in T PROVE m + 1 \in T
  <2> SUFFICES ASSUME m + 1 <= n PROVE \E h \in [0..(m + 1) -> X] : Good(m + 1, h)
    OBVIOUS
  <2>1. PICK g \in [0..m -> X] : Good(m, g)
    BY <1>2
  <2> DEFINE h == [k \in 0..(m + 1) |-> IF k = m + 1 THEN step[<<m + 1, g[m]>>] ELSE g[k]]
  <2>2. step[<<m + 1, g[m]>>] \in X
    <3>1. m + 1 \in 1..n /\ g[m] \in X OBVIOUS
    <3>2. <<m + 1, g[m]>> \in (1..n) \X X BY <3>1
    <3> QED BY <3>2
  <2>3. h \in [0..(m + 1) -> X] BY <2>2
  <2>4. h[0] = start BY <2>1
  <2>5. ASSUME NEW k \in 1..(m + 1) PROVE h[k] = step[<<k, h[k - 1]>>]
    <3>1. k - 1 \in 0..m /\ h[k - 1] = g[k - 1] OBVIOUS
    <3>2. CASE k = m + 1
      <4>1. h[k] = step[<<m + 1, g[m]>>] /\ k - 1 = m BY <3>2
      <4> HIDE DEF h
      <4> QED BY <4>1, <3>1, <3>2
    <3>3. CASE k # m + 1
      <4>1. h[k] = g[k] /\ k \in 1..m BY <3>3
      <4> QED BY <4>1, <3>1, <2>1
    <3> QED BY <3>2, <3>3
  <2> QED BY <2>3, <2>4, <2>5
<1> HIDE DEF T, Good
<1>3. n \in T BY <1>1, <1>2, SetInduction
<1> QED BY <1>3 DEF T, Good, Iterated

-----------------------------------------------------------------------------
(* Repeated calls *)

\* What the loop guard keeps, and the calls it has allowed.
GuardState == [checked : Seq(Calls), broken : BOOLEAN, allowed : Seq(Calls)]

\* How often the guard of an attempt can have let the watched call run, once it has
\* counted it n times.
Least(n) == IF n < BlockAt - 1 THEN n ELSE BlockAt - 1

\* A call more is counted once.
LEMMA CountAppend ==
  ASSUME NEW s \in Seq(Calls), NEW c \in Calls, NEW x
  PROVE  /\ Count(s, x) \in Nat
         /\ Count(Append(s, c), x) = IF c = x THEN Count(s, x) + 1 ELSE Count(s, x)
<1> DEFINE P == {i \in DOMAIN s : s[i] = x}
           Q == {i \in DOMAIN Append(s, c) : Append(s, c)[i] = x}
<1>1. /\ DOMAIN s = 1..Len(s) /\ Len(s) \in Nat /\ DOMAIN Append(s, c) = 1..(Len(s) + 1)
      /\ \A i \in 1..Len(s) : Append(s, c)[i] = s[i]
      /\ Append(s, c)[Len(s) + 1] = c
  OBVIOUS
<1>2. IsFiniteSet(P) /\ Cardinality(P) \in Nat
  <2>1. IsFiniteSet(1..Len(s)) /\ P \subseteq 1..Len(s)
    BY <1>1, FS_Interval
  <2> HIDE DEF P
  <2> QED BY <2>1, FS_Subset, FS_CardinalityType
<1>3. Len(s) + 1 \notin P
  BY <1>1
<1>4. Q = IF c = x THEN P \cup {Len(s) + 1} ELSE P
  <2>1. \A i \in 1..(Len(s) + 1) : i \in 1..Len(s) \/ i = Len(s) + 1
    BY <1>1
  <2>2. Len(s) + 1 \in 1..(Len(s) + 1) /\ \A i \in 1..Len(s) : i \in 1..(Len(s) + 1)
    BY <1>1
  <2> QED BY <1>1, <2>1, <2>2
<1>5. Count(s, x) = Cardinality(P) /\ Count(Append(s, c), x) = Cardinality(Q)
  BY DEF Count
<1> HIDE DEF P, Q
<1>6. Cardinality(P \cup {Len(s) + 1}) = Cardinality(P) + 1
  BY <1>2, <1>3, FS_AddElement
<1> QED BY <1>2, <1>4, <1>5, <1>6

\* What an allowed call adds to the count of those that ran is covered by what it
\* adds to the count of the guard.
LEMMA JudgeFacts ==
  ASSUME NEW g \in GuardState, NEW c \in Calls
  PROVE  /\ Judge(g, c) \in GuardState
         /\ Count(Judge(g, c).allowed, Watched) - Count(g.allowed, Watched)
              <= Least(Count(Judge(g, c).checked, Watched)) - Least(Count(g.checked, Watched))
<1> DEFINE seen == Append(g.checked, c)
           v == Verdict(seen, c)
           more == Append(g.allowed, c)
           k == Judge(g, c)
           n == Count(g.checked, Watched)
           m == Count(g.allowed, Watched)
<1>0. g.checked \in Seq(Calls) /\ g.allowed \in Seq(Calls) /\ g.broken \in BOOLEAN
  BY DEF GuardState
<1>1. seen \in Seq(Calls) /\ more \in Seq(Calls)
  BY <1>0
<1>2. /\ n \in Nat /\ m \in Nat
      /\ Count(seen, Watched) = IF c = Watched THEN n + 1 ELSE n
      /\ Count(more, Watched) = IF c = Watched THEN m + 1 ELSE m
  BY <1>0, CountAppend
<1>3. v = "allow" => ~(Count(seen, c) >= BlockAt)
  BY DEF Verdict
<1>4. \/ g.broken /\ k = g
      \/ v = "allow" /\ k = [checked |-> seen, broken |-> FALSE, allowed |-> more]
      \/ v # "allow" /\ k = [checked |-> seen, broken |-> v = "break", allowed |-> g.allowed]
  BY <1>0 DEF Judge
<1>5. Least(n) <= Least(n + 1) /\ Least(n) \in Int /\ Least(n + 1) \in Int
  BY <1>2, AgentLoopConstants DEF Least
<1> HIDE DEF seen, v, more, k, n, m
<1>6. CASE g.broken /\ k = g
  BY <1>2, <1>5, <1>6 DEF k, n, m
<1>7. CASE v = "allow" /\ k = [checked |-> seen, broken |-> FALSE, allowed |-> more]
  <2>1. k \in GuardState /\ k.checked = seen /\ k.allowed = more
    BY <1>1, <1>7 DEF GuardState
  <2>2. CASE c = Watched
    <3>1. n + 1 < BlockAt
      BY <1>2, <1>3, <1>7, <2>2, AgentLoopConstants
    <3>2. Least(n + 1) = Least(n) + 1
      BY <1>2, <3>1, AgentLoopConstants DEF Least
    <3> QED BY <1>2, <1>5, <2>1, <2>2, <3>2 DEF k, n, m
  <2>3. CASE c # Watched
    BY <1>2, <1>5, <2>1, <2>3 DEF k, n, m
  <2> QED BY <2>2, <2>3
<1>8. CASE v # "allow" /\ k = [checked |-> seen, broken |-> v = "break", allowed |-> g.allowed]
  <2>1. k \in GuardState /\ k.checked = seen /\ k.allowed = g.allowed
    BY <1>0, <1>1, <1>8 DEF GuardState
  <2> QED BY <1>2, <1>5, <2>1 DEF k, n, m
<1> QED BY <1>4, <1>6, <1>7, <1>8

\* f[k] is the guard after the first k calls.
JudgedBy(f, start, calls) ==
    /\ f[0] = start /\ Judged(start, calls) = f[Len(calls)]
    /\ \A k \in 1..Len(calls) : f[k] = Judge(f[k - 1], calls[k])

\* The recursive definition of Judged has its solution.
LEMMA JudgedRec ==
  ASSUME NEW calls \in Seq(Calls), NEW start \in GuardState
  PROVE  \E f \in [0..Len(calls) -> GuardState] : JudgedBy(f, start, calls)
<1> DEFINE n == Len(calls)
           step == [p \in (1..n) \X GuardState |-> Judge(p[2], calls[p[1]])]
           Body(f) == [i \in 0..n |-> IF i = 0 THEN start ELSE Judge(f[i - 1], calls[i])]
<1>1. step \in [(1..n) \X GuardState -> GuardState]
  <2>1. ASSUME NEW p \in (1..n) \X GuardState PROVE Judge(p[2], calls[p[1]]) \in GuardState
    <3>1. p[2] \in GuardState /\ calls[p[1]] \in Calls
      OBVIOUS
    <3> QED BY <3>1, JudgeFacts
  <2> QED BY <2>1
<1>2. n \in Nat
  OBVIOUS
<1>3. PICK g \in [0..n -> GuardState] : g[0] = start /\ \A k \in 1..n : g[k] = step[<<k, g[k - 1]>>]
  <2> HIDE DEF step, n
  <2>1. \E g \in [0..n -> GuardState] : Iterated(g, n, start, step)
    BY <1>1, <1>2, Iterates
  <2> QED BY <2>1 DEF Iterated
<1>4. \A k \in 1..n : g[k] = Judge(g[k - 1], calls[k])
  <2> TAKE k \in 1..n
  <2>1. k - 1 \in 0..n /\ g[k - 1] \in GuardState
    OBVIOUS
  <2>2. <<k, g[k - 1]>> \in (1..n) \X GuardState
    BY <2>1
  <2> QED BY <1>3, <2>2
<1>5. g = Body(g)
  <2>1. ASSUME NEW i \in 0..n PROVE g[i] = Body(g)[i]
    <3>1. CASE i = 0
      BY <3>1, <1>3
    <3>2. CASE i # 0
      <4>1. i \in 1..n
        BY <3>2
      <4> QED BY <4>1, <3>2, <1>4
    <3> QED BY <3>1, <3>2
  <2> QED BY <2>1
<1> DEFINE F == CHOOSE f : f = Body(f)
<1>6. Judged(start, calls) = F[n]
  BY DEF Judged
<1>7. F = Body(F)
  <2> HIDE DEF Body
  <2> QED BY <1>5
<1> HIDE DEF F
<1>8. F[0] = start /\ \A k \in 1..n : F[k] = Judge(F[k - 1], calls[k])
  <2>1. \A i \in 0..n : F[i] = Body(F)[i]
    BY <1>7
  <2>2. \A i \in 0..n : Body(F)[i] = IF i = 0 THEN start ELSE Judge(F[i - 1], calls[i])
    OBVIOUS
  <2>3. 0 \in 0..n /\ \A k \in 1..n : k \in 0..n /\ k # 0
    BY <1>2
  <2> HIDE DEF Body, n
  <2> QED BY <2>1, <2>2, <2>3
<1> DEFINE T == {k \in Nat : k <= n => F[k] = g[k]}
<1>9. Nat \subseteq T
  <2>1. 0 \in T
    BY <1>3, <1>8
  <2>2. ASSUME NEW k \in Nat, k \in T PROVE k + 1 \in T
    <3> SUFFICES ASSUME k + 1 <= n PROVE F[k + 1] = g[k + 1]
      OBVIOUS
    <3>1. k + 1 \in 1..n /\ (k + 1) - 1 = k /\ F[k] = g[k]
      BY <2>2
    <3> QED BY <3>1, <1>4, <1>8
  <2> HIDE DEF T
  <2> QED BY <2>1, <2>2, SetInduction
<1>10. F = g
  <2>1. F = [i \in 0..n |-> F[i]]
    BY <1>7
  <2>2. \A i \in 0..n : F[i] = g[i]
    BY <1>9
  <2> QED BY <2>1, <2>2
<1> QED BY <1>3, <1>4, <1>6, <1>10 DEF JudgedBy

\* So a round lets the watched call run as often as the count of the guard makes
\* room for.
LEMMA JudgedFacts ==
  ASSUME NEW calls \in Seq(Calls), NEW start \in GuardState
  PROVE  /\ Judged(start, calls) \in GuardState
         /\ Count(Judged(start, calls).allowed, Watched) - Count(start.allowed, Watched)
              <= Least(Count(Judged(start, calls).checked, Watched)) - Least(Count(start.checked, Watched))
<1> DEFINE A(g) == Count(g.allowed, Watched)
           L(g) == Least(Count(g.checked, Watched))
<1>1. PICK f \in [0..Len(calls) -> GuardState] : JudgedBy(f, start, calls)
  BY JudgedRec
<1>2. /\ f[0] = start /\ Judged(start, calls) = f[Len(calls)]
      /\ \A k \in 1..Len(calls) : f[k] = Judge(f[k - 1], calls[k])
  BY <1>1 DEF JudgedBy
<1>3. \A g \in GuardState : A(g) \in Nat /\ L(g) \in Int
  <2> TAKE g \in GuardState
  <2>1. g.checked \in Seq(Calls) /\ g.allowed \in Seq(Calls) /\ Watched \in Calls
    BY AgentLoopConstants DEF GuardState
  <2>2. Count(g.checked, Watched) \in Nat /\ Count(g.allowed, Watched) \in Nat
    BY <2>1, CountAppend
  <2> QED BY <2>2, AgentLoopConstants DEF Least
<1>4. \A g \in GuardState, c \in Calls : A(Judge(g, c)) - A(g) <= L(Judge(g, c)) - L(g)
  BY JudgeFacts
<1> HIDE DEF A, L
<1> DEFINE T == {k \in Nat : k <= Len(calls) => A(f[k]) - A(start) <= L(f[k]) - L(start)}
<1>5. 0 \in T
  BY <1>2, <1>3
<1>6. ASSUME NEW k \in Nat, k \in T PROVE k + 1 \in T
  <2> SUFFICES ASSUME k + 1 <= Len(calls)
               PROVE  A(f[k + 1]) - A(start) <= L(f[k + 1]) - L(start)
    OBVIOUS
  <2>1. /\ k + 1 \in 1..Len(calls) /\ (k + 1) - 1 = k /\ k \in 0..Len(calls)
        /\ k + 1 \in 0..Len(calls) /\ calls[k + 1] \in Calls
        /\ A(f[k]) - A(start) <= L(f[k]) - L(start)
    BY <1>6
  <2>2. f[k + 1] = Judge(f[k], calls[k + 1]) /\ f[k] \in GuardState /\ f[k + 1] \in GuardState
    BY <1>2, <2>1
  <2>3. A(f[k + 1]) - A(f[k]) <= L(f[k + 1]) - L(f[k])
    BY <1>4, <2>1, <2>2
  <2>4. /\ A(f[k]) \in Nat /\ A(f[k + 1]) \in Nat /\ A(start) \in Nat
        /\ L(f[k]) \in Int /\ L(f[k + 1]) \in Int /\ L(start) \in Int
    BY <1>3, <2>2
  <2> QED BY <2>1, <2>3, <2>4
<1>7. Nat \subseteq T
  <2> HIDE DEF T
  <2> QED BY <1>5, <1>6, SetInduction
<1>8. Len(calls) \in Nat /\ Len(calls) \in 0..Len(calls)
  OBVIOUS
<1>9. A(f[Len(calls)]) - A(start) <= L(f[Len(calls)]) - L(start)
  BY <1>7, <1>8
<1> QED BY <1>2, <1>8, <1>9 DEF A, L

\* What the loop guards of the attempts so far have together let run.
Allow(n) == (BlockAt - 1) * n

LEMMA AllowMore ==
  ASSUME NEW n \in Nat
  PROVE  Allow(n) \in Nat /\ Allow(n + 1) = Allow(n) + (BlockAt - 1)
BY AgentLoopConstants DEF Allow

\* The watched call has run as often as the guards of the finished attempts allow at
\* most, and in this attempt as often as its guard has counted it.
RepeatInv ==
    /\ checked \in Seq(Calls) /\ pending \in Seq(Calls) /\ broken \in BOOLEAN /\ ran \in Nat
    /\ pc \in {"attempt", "delayed", "done"} => checked = <<>>
    /\ ran <= Allow(ctl.total) + Least(Count(checked, Watched))

\* No list, no call counted.
LEMMA NoneCounted == Count(<<>>, Watched) = 0 /\ Least(0) = 0
<1>1. Count(<<>>, Watched) = Cardinality({})
  BY DEF Count
<1> QED BY <1>1, FS_EmptySet, AgentLoopConstants DEF Least

LEMMA CountedLeast ==
  ASSUME NEW s \in Seq(Calls)
  PROVE  Least(Count(s, Watched)) \in 0..(BlockAt - 1)
<1>1. Count(s, Watched) \in Nat
  BY CountAppend, AgentLoopConstants
<1> QED BY <1>1, AgentLoopConstants DEF Least

\* An attempt that fails is counted, and the guard of the next counts anew.
LEMMA FailRepeats ==
    ASSUME FailoverInv, RepeatInv, NEW e, Fail(e)
    PROVE  RepeatInv'
<1>1. PICK reason : ctl' = record_failure(ctl, reason)
  BY DEF Fail
<1> DEFINE counted == [ctl EXCEPT !.total = @ + 1]
<1>2. Controller(counted) /\ counted.total = ctl.total + 1 /\ ctl.total \in Nat
  BY DEF FailoverInv, Controller
<1>3. ctl' = IF counted.total >= MaxAttempts THEN [counted EXCEPT !.state = "exhausted"]
                                             ELSE Transition(counted, reason)
  BY <1>1 DEF record_failure
<1> HIDE DEF counted
<1>4. ctl'.total = counted.total
  <2>1. CASE counted.total >= MaxAttempts
    BY <1>2, <1>3, <2>1 DEF Controller
  <2>2. CASE ~(counted.total >= MaxAttempts)
    <3>1. ctl' = Transition(counted, reason)
      BY <1>3, <2>2
    <3>2. advance_to_next_model(counted).total = counted.total
      BY <1>2, Advance
    <3> QED BY <1>2, <3>1, <3>2, TransitionStays
  <2> QED BY <2>1, <2>2
<1>5. /\ Allow(ctl.total) \in Nat /\ Allow(ctl'.total) = Allow(ctl.total) + (BlockAt - 1)
  BY <1>2, <1>4, AllowMore
<1>6. Least(Count(checked, Watched)) \in 0..(BlockAt - 1)
  BY CountedLeast DEF RepeatInv
<1>7. /\ checked' = <<>> /\ pending' = <<>> /\ broken' = FALSE /\ ran' = ran
  BY DEF Fail, NewLoop
<1>8. Least(Count(checked', Watched)) = 0
  BY <1>7, NoneCounted
<1>9. ran' <= Allow(ctl'.total) + Least(Count(checked', Watched))
  BY <1>5, <1>6, <1>7, <1>8, AgentLoopConstants DEF RepeatInv
<1>10. checked' \in Seq(Calls) /\ pending' \in Seq(Calls) /\ broken' \in BOOLEAN /\ ran' \in Nat
  <2>1. <<>> \in Seq(Calls)
    OBVIOUS
  <2> QED BY <1>7, <2>1, Zenon DEF RepeatInv
<1> QED BY <1>7, <1>9, <1>10 DEF RepeatInv

\* Every step keeps the account: a tool round by JudgedFacts, the end of an attempt
\* because a guard allows no more than BlockAt - 1.
LEMMA StepRepeat == FailoverInv /\ RepeatInv /\ [Next]_vars => RepeatInv'
<1> SUFFICES ASSUME FailoverInv, RepeatInv, [Next]_vars PROVE RepeatInv'
  OBVIOUS
<1> USE DEF Goto, Only, history, loop
<1>1. ASSUME UNCHANGED <<ctl, checked, pending, broken, ran>>,
             pc' \in {"attempt", "delayed", "done"} => pc \in {"attempt", "delayed", "done"}
      PROVE  RepeatInv'
  BY <1>1 DEF RepeatInv
<1>2. CASE NextAttempt \/ CheckAndCompact \/ Cancel
  BY <1>1, <1>2 DEF NextAttempt, CheckAndCompact, Cancel
<1>3. CASE StartAttempt
  BY <1>3, NoneCounted DEF StartAttempt, NewLoop, RepeatInv
<1>4. CASE HookCancelsRun \/ StartRound
  BY <1>1, <1>4, FailRepeats DEF HookCancelsRun, StartRound
<1>5. CASE Send \/ StreamFails
  BY <1>1, <1>5, FailRepeats DEF Send, OpenStream, StreamFails
<1>6. CASE StreamEmpty \/ RetryEmpty
  BY <1>1, <1>6, FailRepeats DEF StreamEmpty, RetryEmpty, OpenStream
<1>7. CASE HandleOverflow
  BY <1>1, <1>7, FailRepeats DEF HandleOverflow
<1>8. ASSUME NEW calls \in Answers, AskForTools(calls) PROVE RepeatInv'
  <2>1. calls \in Seq(Calls)
    BY AgentLoopConstants
  <2> QED BY <1>8, <2>1, FailRepeats DEF AskForTools, RepeatInv
<1>9. CASE Answer
  <2>1. ctl'.total = ctl.total + 1 /\ ctl.total \in Nat
    BY <1>9 DEF Answer, record_success, FailoverInv, Controller
  <2>2. /\ Allow(ctl.total) \in Nat /\ Allow(ctl'.total) = Allow(ctl.total) + (BlockAt - 1)
    BY <2>1, AllowMore
  <2>3. Least(Count(checked, Watched)) \in 0..(BlockAt - 1)
    BY CountedLeast DEF RepeatInv
  <2>4. checked' = <<>> /\ pending' = <<>> /\ broken' = FALSE /\ ran' = ran
    BY <1>9 DEF Answer, NewLoop
  <2>5. Least(Count(checked', Watched)) = 0
    BY <2>4, NoneCounted
  <2>6. ran' <= Allow(ctl'.total) + Least(Count(checked', Watched))
    BY <2>2, <2>3, <2>4, <2>5, AgentLoopConstants DEF RepeatInv
  <2>7. checked' \in Seq(Calls) /\ pending' \in Seq(Calls) /\ broken' \in BOOLEAN /\ ran' \in Nat
    <3>1. <<>> \in Seq(Calls)
      OBVIOUS
    <3> QED BY <2>4, <3>1, Zenon DEF RepeatInv
  <2> QED BY <2>4, <2>6, <2>7 DEF RepeatInv
<1>10. CASE ToolRound
  <2> DEFINE start == [checked |-> checked, broken |-> broken, allowed |-> <<>>]
             g == Judged(start, pending)
  <2>1. /\ checked' = g.checked /\ broken' = g.broken /\ pending' = <<>> /\ pc' = "round"
        /\ ran' = (IF cancelled THEN ran ELSE ran + Count(g.allowed, Watched)) /\ ctl' = ctl
    BY <1>10 DEF ToolRound
  <2>2. /\ start \in GuardState /\ pending \in Seq(Calls)
        /\ start.checked = checked /\ start.allowed = <<>>
    BY DEF RepeatInv, GuardState
  <2> HIDE DEF start
  <2>3. /\ g \in GuardState
        /\ Count(g.allowed, Watched) - Count(start.allowed, Watched)
             <= Least(Count(g.checked, Watched)) - Least(Count(start.checked, Watched))
    BY <2>2, JudgedFacts
  <2> HIDE DEF g
  <2>4. g.checked \in Seq(Calls) /\ g.allowed \in Seq(Calls) /\ g.broken \in BOOLEAN
    BY <2>3 DEF GuardState
  <2>5. Count(g.allowed, Watched) \in Nat
    BY <2>4, CountAppend, AgentLoopConstants
  <2>6. /\ Least(Count(checked, Watched)) \in 0..(BlockAt - 1)
        /\ Least(Count(g.checked, Watched)) \in 0..(BlockAt - 1)
    BY <2>4, CountedLeast DEF RepeatInv
  <2>7. Count(g.allowed, Watched)
          <= Least(Count(g.checked, Watched)) - Least(Count(checked, Watched))
    BY <2>2, <2>3, <2>5, NoneCounted
  <2>8. Allow(ctl.total) \in Nat
    BY AllowMore DEF FailoverInv, Controller
  <2>9. /\ ran' \in Nat
        /\ ran' <= Allow(ctl.total) + Least(Count(g.checked, Watched))
    BY <2>1, <2>5, <2>6, <2>7, <2>8, AgentLoopConstants DEF RepeatInv
  <2> QED BY <2>1, <2>4, <2>9 DEF RepeatInv
<1>11. CASE UNCHANGED vars
  BY <1>1, <1>11 DEF vars
<1> QED
  BY <1>2, <1>3, <1>4, <1>5, <1>6, <1>7, <1>8, <1>9, <1>10, <1>11 DEF Next, Turn

\* However often the turn is tried again, with a loop guard that has forgotten the
\* calls of the attempts before, a call runs BlockAt - 1 times per attempt at most.
THEOREM RepeatsAreBounded == Spec => []RepeatsBounded
<1>1. Init => FailoverInv /\ RepeatInv
  <2>1. Init => Controller(ctl) /\ ctl.transient = 0 /\ ctl.state = "init" /\ ctl.total = 0
    BY AgentLoopConstants DEF Init, NewController, Controller, High
  <2>2. Allow(0) \in Nat
    BY AllowMore
  <2>3. Init => ran <= Allow(ctl.total) + Least(Count(checked, Watched))
    BY <2>1, <2>2, NoneCounted DEF Init
  <2>4. Init => /\ checked = <<>> /\ checked \in Seq(Calls) /\ pending \in Seq(Calls)
                /\ broken \in BOOLEAN /\ ran \in Nat
    <3>1. <<>> \in Seq(Calls) /\ 0 \in Nat
      OBVIOUS
    <3> QED BY <3>1, Zenon DEF Init
  <2> QED BY <2>1, <2>3, <2>4 DEF FailoverInv, RepeatInv
<1>2. FailoverInv /\ RepeatInv => RepeatsBounded
  <2> SUFFICES ASSUME FailoverInv, RepeatInv PROVE RepeatsBounded
    OBVIOUS
  <2>1. ctl.total \in Nat
    BY DEF FailoverInv, Controller
  <2>2. /\ Allow(ctl.total) \in Nat /\ Allow(ctl.total + 1) = Allow(ctl.total) + (BlockAt - 1)
        /\ Allow(ctl.total + 0) = Allow(ctl.total)
    BY <2>1, AllowMore
  <2>3. Least(Count(checked, Watched)) \in 0..(BlockAt - 1)
    BY CountedLeast DEF RepeatInv
  <2>4. pc = "done" => ran <= Allow(ctl.total + 0)
    BY <2>2, NoneCounted DEF RepeatInv
  <2>5. ran <= Allow(ctl.total + 1)
    BY <2>2, <2>3, AgentLoopConstants DEF RepeatInv
  <2>6. ran <= Allow(ctl.total + IF pc = "done" THEN 0 ELSE 1)
    BY <2>4, <2>5
  <2> QED BY <2>6 DEF RepeatsBounded, Allow
<1> QED BY <1>1, <1>2, StepFailover, StepRepeat, PTL DEF Spec
=============================================================================

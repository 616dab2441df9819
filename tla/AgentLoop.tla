----------------------------- MODULE AgentLoop -----------------------------
(***************************************************************************)
(* One turn of an agent: run_with_failover and the tool rounds below it    *)
(* (clawdesk-agents/src/runner.rs), the failover controller (failover.rs)  *)
(* and the loop guard (loop_guard.rs).                                     *)
(*                                                                         *)
(* The messages of the request are kept as far as compaction tells them    *)
(* apart; token counts are not, so what depends on them is a choice.  The  *)
(* provider is external: each stream ends in any of the ways the loop      *)
(* tells apart.  The tool calls of a round run in one step here (HumanGate *)
(* models what goes on within it).  The desktop wires no metacognition and *)
(* gives the profile rotator no profile, so both are left out.             *)
(***************************************************************************)
EXTENDS Integers, Sequences, FiniteSets

CONSTANTS
    Calls,            \* tool calls, with different tools
    Watched,          \* any one of them, which history follows
    Models,           \* the primary model and the fallback models, counted
    MaxAttempts,      \* max_total_attempts
    MaxRounds,        \* max_tool_rounds
    OverflowRetries,  \* MAX_OVERFLOW_RETRIES
    EmptyRetries,     \* MAX_EMPTY_RETRIES
    BlockAt,          \* block_threshold of the loop guard
    BreakAt,          \* circuit_threshold
    PingPong,         \* ping_pong_threshold
    Faults,           \* bound: reasons for which the provider fails
    Answers,          \* bound: sequences of calls an answer may ask for
    HistoryLength     \* bound: messages before the turn

\* The arms of record_failure: a failure that goes to the next profile, and one
\* after which the same configuration is tried again, once.  The second is not the
\* set of FailoverReason::is_transient, which has RateLimit in the
\* place of ContentFilter and is called by tests only.
Rotating == {"AuthError", "RateLimit", "BillingError"}
Retried  == {"ServerError", "NetworkError", "Timeout", "ContentFilter"}
Reasons  == Rotating \cup Retried \cup {"ContextOverflow", "ModelUnavailable", "Unknown"}

ASSUME AgentLoopConstants ==
    /\ Watched \in Calls
    /\ Models \in Nat \ {0} /\ MaxAttempts \in Nat \ {0} /\ MaxRounds \in Nat \ {0}
    /\ OverflowRetries \in Nat /\ EmptyRetries \in Nat
    /\ BlockAt \in Nat \ {0} /\ BreakAt \in Nat \ {0} /\ PingPong \in Nat \ {0}
    /\ HistoryLength \in Nat \ {0} /\ Faults \subseteq Reasons /\ Answers \subseteq Seq(Calls)

VARIABLES
    pc,          \* where the turn is
    ctl,         \* the failover controller
    round, overflows, empties,
    injected,    \* the guard handed in by the desktop has not been taken yet
    own,         \* this attempt uses that guard
    messages,    \* of the request
    checked,     \* calls the loop guard has counted, in order
    broken,      \* its circuit breaker
    pending,     \* the tool calls of the answer being processed
    cancelled,   \* the token of the run
    outcome,     \* what the caller gets: "none" yet, "ok" or "error"
    late,        \* history: streams opened after the cancellation
    ran,         \* history: how often the watched call has run in this turn
    failed       \* history: the latest attempt that failed

loop    == <<round, overflows, empties, messages, checked, broken, pending>>
guard   == <<injected, own>>
history == <<late, ran, failed>>
vars    == <<pc, ctl, loop, guard, cancelled, outcome, history>>

-----------------------------------------------------------------------------
(* The failover controller *)

High     == 3  \* thinking levels: High, Medium, Low, Off
Profiles == 1  \* per model: new sets it and run_with_failover leaves it

NewController == [state |-> "init", model |-> 0, profile |-> 0, level |-> High, total |-> 0,
                  transient |-> 0]

\* None once the attempts are used up or the state is terminal.
HasNext(c) == c.total < MaxAttempts /\ c.state \notin {"success", "exhausted"}

advance_to_next_model(c) ==
    LET next == [c EXCEPT !.transient = 0, !.profile = 0, !.level = High]
    IN  IF c.model + 1 < Models THEN [next EXCEPT !.state = "model", !.model = @ + 1]
                                ELSE [next EXCEPT !.state = "exhausted"]

\* TryProfile forgets the thinking level that was reached.
try_profile(c, p) == [c EXCEPT !.state = "profile", !.profile = p, !.level = High]

\* Mutant: a downgrade leaves the count of transient failures.
Transition_KeepsTransient(c, reason) ==
    IF reason = "ContextOverflow" /\ c.level > 0
      THEN [c EXCEPT !.state = "think", !.profile = 0, !.level = @ - 1]
    ELSE IF reason \in Retried /\ c.transient = 0
      THEN [try_profile(c, c.profile) EXCEPT !.transient = 1]
    ELSE advance_to_next_model(c)

\* What record_failure makes of an attempt that was not the last.
Transition(c, reason) ==
    CASE reason \in Rotating ->
           IF c.profile + 1 < Profiles
           THEN [try_profile(c, c.profile + 1) EXCEPT !.transient = 0]
           ELSE advance_to_next_model(c)
      [] reason = "ContextOverflow" ->
           IF c.level > 0
           THEN [c EXCEPT !.state = "think", !.profile = 0, !.level = @ - 1, !.transient = 0]
           ELSE advance_to_next_model(c)
      [] reason \in Retried ->
           IF c.transient + 1 >= 2
           THEN advance_to_next_model(c)
           ELSE [try_profile(c, c.profile) EXCEPT !.transient = @ + 1]
      [] OTHER -> advance_to_next_model(c)

\* Mutant: an attempt that fails for one of these reasons is retried for free.
record_failure_TransientFree(c, reason) ==
    IF reason \in Retried THEN c
    ELSE IF c.total + 1 >= MaxAttempts THEN [c EXCEPT !.total = @ + 1, !.state = "exhausted"]
    ELSE Transition([c EXCEPT !.total = @ + 1], reason)

record_failure(c, reason) ==
    LET counted == [c EXCEPT !.total = @ + 1]
    IN  IF counted.total >= MaxAttempts THEN [counted EXCEPT !.state = "exhausted"]
                                        ELSE Transition(counted, reason)

record_success(c) == [c EXCEPT !.total = @ + 1, !.state = "success", !.transient = 0]

\* The reasons the text of an error may be taken for.  Only a provider's own words
\* can name anything but an empty answer: the errors of the loop, "cancelled" and
\* the overflow it gave up on among them, are Unknown.
classify(error) ==
    CASE error = "provider" -> Faults
      [] error = "empty"    -> {"ContentFilter"}
      [] OTHER              -> {"Unknown"}

-----------------------------------------------------------------------------
(* run_with_failover *)

Goto(p) == pc' = p

\* What execute_loop keeps: the messages of the request, the counters and a loop guard.
NewLoop(n) ==
    /\ round' = 0 /\ overflows' = 0 /\ empties' = 0
    /\ messages' = [i \in 1..n |-> [kind |-> "history", round |-> 0, calls |-> 0]]
    /\ checked' = <<>> /\ broken' = FALSE /\ pending' = <<>>

\* run has returned an error, which is recorded before the next attempt.
Fail(error) ==
    /\ \E reason \in classify(error) :
        /\ ctl' = record_failure(ctl, reason)
        /\ failed' = [model |-> ctl.model, reason |-> reason]
    /\ NewLoop(0) /\ own' = FALSE
    /\ Goto("attempt")
    /\ UNCHANGED <<injected, cancelled, outcome, late, ran>>

\* The head of the loop over attempts: without an action to take the last error
\* is returned, and Cancelled if the token, looked at before the delay, says so.
NextAttempt ==
    /\ pc = "attempt"
    /\ IF HasNext(ctl) /\ ~cancelled
       THEN Goto("delayed") /\ UNCHANGED outcome
       ELSE Goto("done") /\ outcome' = "error"
    /\ UNCHANGED <<ctl, loop, guard, cancelled, history>>

\* The delay is over and run begins, with the history of the caller, the counters
\* and a loop guard anew; the injected context guard is there for one attempt.
StartAttempt ==
    /\ pc = "delayed"
    /\ own' = injected /\ injected' = FALSE
    /\ NewLoop(HistoryLength)
    /\ Goto("round")
    /\ UNCHANGED <<ctl, cancelled, outcome, history>>

\* A MessageReceive or BeforeAgentStart hook cancels the attempt, not the turn.
HookCancelsRun == pc = "delayed" /\ Fail("cancelled")

-----------------------------------------------------------------------------
(* Compaction *)

\* The newest n messages.
Newest(n) == SubSeq(messages, Len(messages) - n + 1, Len(messages))

\* repair_orphaned_tool_messages: no assistant message names the calls it made (its
\* content is the text of the answer), so every result that still has its id goes.
Repaired(s) == SelectSeq(s, LAMBDA m : m.kind # "result")

\* DropMetadata: a result keeps its content, cut if long, and loses its id.
DropMetadata == [i \in DOMAIN messages |->
    IF messages[i].kind = "result" THEN [messages[i] EXCEPT !.kind = "text"] ELSE messages[i]]

\* SummarizeOld keeps 60% to 85% of the messages, by their average size, and puts a
\* summary, or a placeholder if the provider fails, in front.
SummarizeOld ==
    LET n == Len(messages)
        keep == {IF k < 2 THEN 2 ELSE k : k \in ((n * 60) \div 100)..((n * 85) \div 100)}
    IN  {IF n > k + 2
         THEN <<[kind |-> "summary", round |-> 0, calls |-> 0]>> \o Newest(k)
         ELSE messages : k \in keep}

\* retain_by_budget keeps the newest messages that fit, one at least.
RetainByBudget == {Newest(n) : n \in 1..Len(messages)}

\* check_and_compact, before each request.  The desktop's guard triggers at 80%, a
\* guard of the runner's own at 95%, where only truncation is left; no compaction
\* is ever reported as failed, so the guard's circuit breaker stays closed.
CheckAndCompact ==
    /\ pc = "compact"
    /\ \/ UNCHANGED messages
       \/ own /\ messages' = Repaired(DropMetadata)
       \/ own /\ \E s \in SummarizeOld : messages' = Repaired(s)
       \/ \E s \in RetainByBudget : messages' = Repaired(s)
    /\ Goto("send")
    /\ UNCHANGED <<ctl, round, overflows, empties, checked, broken, pending, guard, cancelled,
                   outcome, history>>

\* handle_overflow: first the long results are cut, which takes their ids, then old
\* messages are summarized; each time the round is used up.
HandleOverflow ==
    /\ pc = "overflow"
    /\ \/ overflows >= OverflowRetries /\ Fail("overflow")
       \/ /\ overflows < OverflowRetries
          /\ overflows' = overflows + 1
          /\ \/ /\ overflows' = 1
                /\ \E long \in SUBSET {i \in DOMAIN messages : messages[i].kind = "result"} :
                      messages' = [i \in DOMAIN messages |->
                          IF i \in long THEN [messages[i] EXCEPT !.kind = "text"] ELSE messages[i]]
             \/ overflows' > 1 /\ \E s \in SummarizeOld : messages' = Repaired(s)
          /\ round' = round + 1
          /\ Goto("round")
          /\ UNCHANGED <<ctl, empties, checked, broken, pending, guard, cancelled, outcome, history>>

-----------------------------------------------------------------------------
(* execute_loop *)

\* Nothing but the place in the loop changes.
Only(p) == Goto(p) /\ UNCHANGED <<ctl, loop, guard, cancelled, outcome, history>>

StartRound ==
    /\ pc = "round"
    /\ \/ round = MaxRounds /\ Fail("iterations")
       \/ round < MaxRounds /\ cancelled /\ Fail("cancelled")
       \/ round < MaxRounds /\ ~cancelled /\ Only("compact")

\* The request goes out.
OpenStream ==
    /\ Goto("stream")
    /\ late' = late + IF cancelled THEN 1 ELSE 0
    /\ UNCHANGED <<ctl, round, overflows, messages, checked, broken, pending, guard, cancelled,
                   outcome, ran, failed>>

\* stream_round: the BeforeLlmCall hook may cancel; empty answers are counted anew.
Send ==
    /\ pc = "send"
    /\ \/ OpenStream /\ empties' = 0
       \/ Fail("cancelled")

\* The stream ends in an error: too long a request is handled here, if the provider's
\* adapter tells it from other errors.
StreamFails == pc = "stream" /\ (Fail("provider") \/ Only("overflow"))

\* Neither text nor a tool call: try again after a while.
StreamEmpty ==
    /\ pc = "stream"
    /\ \/ empties = EmptyRetries /\ Fail("empty")
       \/ /\ empties < EmptyRetries
          /\ empties' = empties + 1 /\ Goto("again")
          /\ UNCHANGED <<ctl, round, overflows, messages, checked, broken, pending, guard,
                         cancelled, outcome, history>>

\* Mutant: the token is not looked at between the retries.
RetryEmpty_Blind == pc = "again" /\ OpenStream /\ UNCHANGED empties

RetryEmpty ==
    /\ pc = "again"
    /\ \/ cancelled /\ Fail("cancelled")
       \/ ~cancelled /\ OpenStream /\ UNCHANGED empties

\* The answer asks for no tool, in its text neither: the turn has succeeded.
Answer ==
    /\ pc = "stream"
    /\ ctl' = record_success(ctl)
    /\ outcome' = "ok" /\ Goto("done")
    /\ NewLoop(0) /\ own' = FALSE
    /\ UNCHANGED <<injected, cancelled, history>>

\* The answer asks for tools, and names none in the faulty case.
AskForTools(calls) ==
    /\ pc = "stream"
    /\ \/ calls = <<>> /\ Fail("malformed")
       \/ /\ calls # <<>>
          /\ pending' = calls /\ Goto("tools")
          /\ UNCHANGED <<ctl, round, overflows, empties, messages, checked, broken, guard,
                         cancelled, outcome, history>>

-----------------------------------------------------------------------------
(* The loop guard and the tool round *)

Count(s, c) == Cardinality({i \in DOMAIN s : s[i] = c})

\* The last calls alternate between two tools, PingPong times.
detect_ping_pong(s) ==
    LET n == Len(s)
        a == s[n - 1]
        b == s[n]
    IN  /\ n >= 4 /\ n >= 2 * PingPong
        /\ a # b
        /\ \A p \in 0..(PingPong - 1) : s[n - 1 - 2 * p] = a /\ s[n - 2 * p] = b

\* Mutant: one more identical call.
Verdict_OneMore(s, c) ==
    CASE detect_ping_pong(s) \/ Count(s, c) >= BreakAt -> "break"
      [] Count(s, c) > BlockAt -> "block"
      [] OTHER -> "allow"

\* check, on a call that has been counted.  A warning allows.
Verdict(s, c) ==
    CASE detect_ping_pong(s) \/ Count(s, c) >= BreakAt -> "break"
      [] Count(s, c) >= BlockAt -> "block"
      [] OTHER -> "allow"

\* One call after the other is put to the guard, which counts none once it is broken.
Judge(g, c) ==
    LET seen == Append(g.checked, c)
        v    == Verdict(seen, c)
    IN  IF g.broken THEN g
        ELSE [checked |-> seen, broken |-> v = "break",
              allowed |-> IF v = "allow" THEN Append(g.allowed, c) ELSE g.allowed]

\* The guard after the calls of a round, and those it allowed.
Judged(start, calls) ==
    LET judged[k \in 0..Len(calls)] ==
            IF k = 0 THEN start ELSE Judge(judged[k - 1], calls[k])
    IN  judged[Len(calls)]

\* process_tool_round: the text of the answer, then one result for each call: those of
\* the tools, "cancelled" without the tool if the run has been, and of what is blocked.
ToolRound ==
    LET g == Judged([checked |-> checked, broken |-> broken, allowed |-> <<>>], pending)
        n == Len(pending)
    IN  /\ pc = "tools"
        /\ checked' = g.checked /\ broken' = g.broken
        /\ ran' = IF cancelled THEN ran ELSE ran + Count(g.allowed, Watched)
        /\ messages' = Append(messages, [kind |-> "assistant", round |-> round, calls |-> n])
                          \o [i \in 1..n |-> [kind |-> "result", round |-> round, calls |-> 0]]
        /\ pending' = <<>>
        /\ round' = round + 1
        /\ Goto("round")
        /\ UNCHANGED <<ctl, overflows, empties, guard, cancelled, outcome, late, failed>>

-----------------------------------------------------------------------------

\* cancel_active_run, or a deadline of the caller.
Cancel ==
    /\ ~cancelled /\ pc # "done"
    /\ cancelled' = TRUE
    /\ UNCHANGED <<pc, ctl, loop, guard, outcome, history>>

Init ==
    /\ pc = "attempt" /\ ctl = NewController
    /\ round = 0 /\ overflows = 0 /\ empties = 0
    /\ injected \in BOOLEAN /\ own = FALSE
    /\ messages = <<>> /\ checked = <<>> /\ broken = FALSE /\ pending = <<>>
    /\ cancelled = FALSE /\ outcome = "none"
    /\ late = 0 /\ ran = 0
    /\ failed = [model |-> 0, reason |-> "none"]

Turn ==
    \/ NextAttempt \/ StartAttempt \/ HookCancelsRun
    \/ StartRound \/ CheckAndCompact \/ Send
    \/ StreamFails \/ StreamEmpty \/ RetryEmpty \/ HandleOverflow
    \/ Answer \/ ToolRound
    \/ \E calls \in Answers : AskForTools(calls)

Next == Turn \/ Cancel \/ (pc = "done" /\ UNCHANGED vars)

Spec == Init /\ [][Next]_vars

\* The turn's task is scheduled, every stream ends and every tool call does (CallsEnd of
\* HumanGate); nothing obliges anybody to cancel.
FairSpec == Spec /\ WF_vars(Turn)

-----------------------------------------------------------------------------
(* Properties *)

\* A cancelled turn opens one more stream at most, the one whose check of the token
\* came before the cancellation, whatever failures and retries it is in.
CancelStops == late <= 1

\* Although an attempt that fails is run again from the start, with the tools it has
\* called and a loop guard that has forgotten them, no call runs more often than the
\* guard lets each attempt run it.
RepeatsBounded ==
    ran <= (BlockAt - 1) * (ctl.total + IF pc = "done" THEN 0 ELSE 1)

\* Models are given up one after the other, and each for cause: its last attempt
\* failed, and if record_failure tries again after such a failure, the one before
\* it had been such a failure of the same model too: the retry was made.
GivenUpForCause ==
    [][ctl'.model # ctl.model \/ (ctl'.state = "exhausted" /\ ctl'.total < MaxAttempts) =>
        /\ failed'.model = ctl.model
        /\ ctl'.state = "exhausted" => ctl.model = Models - 1
        /\ ctl'.state # "exhausted" => ctl'.model = ctl.model + 1
        /\ failed'.reason \in Retried =>
              failed.model = ctl.model /\ failed.reason \in Retried]_vars

\* A turn comes to an end, with an answer or an error.
TurnEnds == <>(pc = "done")

\* Claim of the comment on repair_orphaned_tool_messages ("This function drops orphaned
\* tool messages to maintain valid pairing"): as long as the assistant message of a
\* round is in the request, so are the results of its calls.
PairsStay ==
    \A i \in DOMAIN messages :
        messages[i].kind = "assistant" =>
            Cardinality({j \in DOMAIN messages : /\ messages[j].kind \in {"result", "text"}
                                                 /\ messages[j].round = messages[i].round})
              = messages[i].calls
=============================================================================

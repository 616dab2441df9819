----------------------------- MODULE HumanGate -----------------------------
(***************************************************************************)
(* A round of tool calls of an agent run and the humans it waits for:      *)
(* AgentRunner::execute_tools_with_policy (clawdesk-agents), the approval  *)
(* manager (clawdesk-security/src/exec_approval.rs) behind the desktop's   *)
(* approval gate, and the ask_human tool, whose questions are answered in  *)
(* the desktop or by a message from a chat channel (clawdesk-tauri).       *)
(*                                                                         *)
(* Every call is a task of its own.  Time is what is left of the two       *)
(* timeouts.  What a tool does, arguments and session-wide decisions,      *)
(* which the desktop's gate never gives, are left out.                     *)
(***************************************************************************)
EXTENDS Naturals, FiniteSets

CONSTANTS
    Calls,          \* the tool calls of the round
    Asks,           \* those of ask_human; the others require approval
    Messages,       \* answers in the desktop and messages from chat channels
    NoCall, NoMessage,
    MaxConcurrent,  \* permits of tool_semaphore
    Threads,        \* worker threads of the runtime
    TTL,            \* default_ttl of the approval manager, in ticks
    ToolTimeout     \* tool_timeout_secs, in ticks

\* What becomes of a call, other than being given an answer.
Outcomes == {"none", "cancelled", "blocked", "denied", "error", "ran", "timed_out"}

ASSUME HumanConstants ==
    /\ Asks \subseteq Calls /\ NoCall \notin Calls
    /\ NoMessage \notin Messages \cup Outcomes
    /\ MaxConcurrent \in Nat \ {0} /\ Threads \in Nat \ {0}
    /\ TTL \in Nat \ {0} /\ ToolTimeout \in Nat \ {0}

VARIABLES
    pc, result, tool,       \* per call: where it is, its result, what is left of tool_timeout_secs
    status, ttl,            \* per call: its approval request, and what is left of its time
    ask,                    \* per call: its AskHumanEntry
    msg,                    \* the messages: where each is, and the question it is taken to answer
    cancelled,              \* the run's cancellation token
    told,                   \* history: the decision a human was told is recorded
    missed,                 \* history: calls decided between their look and their wait
    raced                   \* history: questions with an answer written over another

calls == <<pc, result, tool>>
vars  == <<calls, status, ttl, ask, msg, cancelled, told, missed, raced>>

Goto(c, p)   == pc' = [pc EXCEPT ![c] = p]
\* A call ends; its timer goes with it.
End(c, r)    == /\ Goto(c, "done") /\ result' = [result EXCEPT ![c] = r]
                /\ tool' = [tool EXCEPT ![c] = 0]
Goes(c, p)   == Goto(c, p) /\ UNCHANGED <<result, tool>>
Unasked      == UNCHANGED <<ask, msg, raced>>
Unapproved   == UNCHANGED <<status, ttl, told, missed>>

-----------------------------------------------------------------------------
(* ExecApprovalManager *)

\* A decision is recorded and notify_waiters wakes the call if it waits.
Finalize(c, d) ==
    /\ status' = [status EXCEPT ![c] = d]
    /\ ttl' = [ttl EXCEPT ![c] = 0]
    /\ pc' = [pc EXCEPT ![c] = IF @ = "wait" THEN "ensure" ELSE @]
    /\ missed' = IF pc[c] = "listen" THEN missed \cup {c} ELSE missed

Told(c, d) == told' = [told EXCEPT ![c] = @ \cup {d}]

\* Mutant: a decision replaces an earlier one.
Approve_Again(c) ==
    /\ status[c] # "absent" /\ "approved" \notin told[c]
    /\ Finalize(c, "approved") /\ Told(c, "approved")
    /\ UNCHANGED <<result, tool, cancelled>> /\ Unasked

\* A request that has a decision is refused; one past its time is not.
Approve(c) ==
    /\ status[c] = "pending"
    /\ Finalize(c, "approved") /\ Told(c, "approved")
    /\ UNCHANGED <<result, tool, cancelled>> /\ Unasked

\* Mutant: nobody is woken.
Deny_Silent(c) ==
    /\ status[c] = "pending"
    /\ status' = [status EXCEPT ![c] = "denied"] /\ Told(c, "denied")
    /\ UNCHANGED <<calls, ttl, missed, cancelled>> /\ Unasked

Deny(c) ==
    /\ status[c] = "pending"
    /\ Finalize(c, "denied") /\ Told(c, "denied")
    /\ UNCHANGED <<result, tool, cancelled>> /\ Unasked

\* ensure_timeout_if_needed, called by status from the desktop.
Poll(c) ==
    /\ status[c] = "pending" /\ ttl[c] = 0
    /\ Finalize(c, "timed_out")
    /\ UNCHANGED <<result, tool, told, cancelled>> /\ Unasked

\* cleanup_terminal_older_than; the age is the caller's.
Cleanup(c) ==
    /\ status[c] \in {"approved", "denied", "timed_out"}
    /\ status' = [status EXCEPT ![c] = "absent"]
    /\ UNCHANGED <<calls, ttl, told, missed, cancelled>> /\ Unasked

-----------------------------------------------------------------------------
(* wait_for_decision *)

\* ensure_timeout_if_needed.
Ensure(c) ==
    /\ pc[c] = "ensure"
    /\ status' = [status EXCEPT ![c] = IF @ = "pending" /\ ttl[c] = 0 THEN "timed_out" ELSE @]
    /\ Goto(c, "read")
    /\ UNCHANGED <<result, tool, ttl, told, missed, cancelled>> /\ Unasked

\* The status is read and the entry released.  request_approval maps it to a
\* decision; an approved call goes on to the permit.
Look(c) ==
    /\ pc[c] = "read"
    /\ \/ status[c] = "pending" /\ Goes(c, "listen")
       \/ status[c] = "approved" /\ Goes(c, "permit")
       \/ status[c] \in {"denied", "timed_out"} /\ End(c, "denied")
       \/ status[c] = "absent" /\ End(c, "error")
    /\ UNCHANGED cancelled /\ Unapproved /\ Unasked

\* Only now does notified() begin to listen.
Listen(c) ==
    /\ pc[c] = "listen"
    /\ Goes(c, IF ttl[c] = 0 THEN "ensure" ELSE "wait")
    /\ UNCHANGED cancelled /\ Unapproved /\ Unasked

\* Mutant: no timeout around notified().
Expire_Never(c) == FALSE

Expire(c) ==
    /\ pc[c] = "wait" /\ ttl[c] = 0
    /\ Goes(c, "ensure")
    /\ UNCHANGED cancelled /\ Unapproved /\ Unasked

-----------------------------------------------------------------------------
(* execute_tools_with_policy *)

\* The token is looked at once, before anything else.
Begin(c) ==
    /\ pc[c] = "idle"
    /\ IF cancelled THEN End(c, "cancelled") /\ UNCHANGED <<status, ttl>>
       ELSE IF c \in Asks THEN Goes(c, "permit") /\ UNCHANGED <<status, ttl>>
       ELSE /\ Goes(c, "ensure")
            /\ status' = [status EXCEPT ![c] = "pending"]
            /\ ttl' = [ttl EXCEPT ![c] = TTL]
    /\ UNCHANGED <<told, missed, cancelled>> /\ Unasked

\* Policy and hooks before the approval, sandbox, registry and capabilities
\* after it.
Refuse(c) ==
    /\ pc[c] \in {"idle", "permit"}
    /\ End(c, "blocked")
    /\ UNCHANGED cancelled /\ Unapproved /\ Unasked

InTool == {"send", "asking", "take", "executing"}
Holding == {c \in Calls : pc[c] \in InTool}

AcquirePermit(c) ==
    /\ pc[c] = "permit" /\ Cardinality(Holding) < MaxConcurrent
    /\ Goto(c, IF c \in Asks THEN "send" ELSE "executing")
    /\ tool' = [tool EXCEPT ![c] = ToolTimeout]
    /\ UNCHANGED <<result, cancelled>> /\ Unapproved /\ Unasked

Execute(c) ==
    /\ pc[c] = "executing"
    /\ End(c, "ran")
    /\ UNCHANGED cancelled /\ Unapproved /\ Unasked

\* The tool's future is dropped where it waits; one that can go on is polled
\* before the timeout is looked at.
TimeOut(c) ==
    /\ pc[c] \in {"send", "executing"} \/ (pc[c] = "asking" /\ ~ask[c].permit)
    /\ tool[c] = 0
    /\ End(c, "timed_out")
    /\ UNCHANGED cancelled /\ Unapproved /\ Unasked

-----------------------------------------------------------------------------
(* ask_human *)

NoEntry == [present |-> FALSE, response |-> NoMessage, permit |-> FALSE]

\* The question has gone to the channels; only then is it entered and shown in
\* the desktop.
AskInsert(c) ==
    /\ pc[c] = "send"
    /\ ask' = [ask EXCEPT ![c] = [NoEntry EXCEPT !.present = TRUE]]
    /\ Goes(c, "asking")
    /\ UNCHANGED <<msg, raced, cancelled>> /\ Unapproved

\* notified() takes the permit, and the thread goes on to remove the entry.
AskWake(c) ==
    /\ pc[c] = "asking" /\ ask[c].permit
    /\ ask' = [ask EXCEPT ![c].permit = FALSE]
    /\ Goes(c, "take")
    /\ UNCHANGED <<msg, raced, cancelled>> /\ Unapproved

\* on_message holds a reference to the entry until its acknowledgement is sent.
Held(c) == \E m \in Messages : msg[m].pc \in {"found", "ack"} /\ msg[m].call = c

\* Mutant: the response is taken out of the entry, the entry stays.
AskTake_Keeps(c) ==
    /\ pc[c] = "take" /\ ~Held(c)
    /\ ask' = [ask EXCEPT ![c] = [NoEntry EXCEPT !.present = TRUE]]
    /\ End(c, ask[c].response)
    /\ UNCHANGED <<msg, raced, cancelled>> /\ Unapproved

\* The thread blocks until it can remove the entry: no await, so no timeout
\* interrupts it.
AskTake(c) ==
    /\ pc[c] = "take" /\ ~Held(c)
    /\ ask' = [ask EXCEPT ![c] = NoEntry]
    /\ End(c, ask[c].response)
    /\ UNCHANGED <<msg, raced, cancelled>> /\ Unapproved

\* The response is written, over an earlier one if there is one, and notify_one
\* leaves a permit.
Answer(c, m) ==
    /\ ask' = [ask EXCEPT ![c].response = m, ![c].permit = TRUE]
    /\ raced' = IF ask[c].response = NoMessage THEN raced ELSE raced \cup {c}
    /\ UNCHANGED <<calls, cancelled>> /\ Unapproved

\* respond_to_ask_human.
Respond(m, c) ==
    /\ msg[m].pc = "new" /\ ask[c].present
    /\ Answer(c, m)
    /\ msg' = [msg EXCEPT ![m] = [pc |-> "done", call |-> c]]

Unanswered == {c \in Asks : ask[c].present /\ ask[c].response = NoMessage}

\* on_message: a message from a channel answers some question without an answer,
\* whichever comes first in the map; if there is none it goes to an agent.
Inbound(m) ==
    /\ msg[m].pc = "new"
    /\ \/ \E c \in Unanswered : msg' = [msg EXCEPT ![m] = [pc |-> "found", call |-> c]]
       \/ Unanswered = {} /\ msg' = [msg EXCEPT ![m].pc = "done"]
    /\ UNCHANGED <<calls, ask, raced, cancelled>> /\ Unapproved

InboundAnswer(m) ==
    /\ msg[m].pc = "found"
    /\ Answer(msg[m].call, m)
    /\ msg' = [msg EXCEPT ![m].pc = "ack"]

\* The acknowledgement is sent, if a thread is left to do it.
InboundAck(m) ==
    /\ msg[m].pc = "ack"
    /\ Cardinality({c \in Calls : pc[c] = "take"}) < Threads
    /\ msg' = [msg EXCEPT ![m].pc = "done"]
    /\ UNCHANGED <<calls, ask, raced, cancelled>> /\ Unapproved

-----------------------------------------------------------------------------
\* cancel_active_run; no call that has begun looks at the token again.
Cancel ==
    /\ ~cancelled /\ \E c \in Calls : pc[c] = "idle"
    /\ cancelled' = TRUE
    /\ UNCHANGED calls /\ Unapproved /\ Unasked

Less(n) == IF n = 0 THEN 0 ELSE n - 1

Tick ==
    /\ ttl' = [c \in Calls |-> Less(ttl[c])]
    /\ tool' = [c \in Calls |-> Less(tool[c])]
    /\ UNCHANGED <<pc, result, status, told, missed, cancelled>> /\ Unasked

Init ==
    /\ pc = [c \in Calls |-> "idle"]
    /\ result = [c \in Calls |-> "none"]
    /\ tool = [c \in Calls |-> 0]
    /\ status = [c \in Calls |-> "absent"]
    /\ ttl = [c \in Calls |-> 0]
    /\ ask = [c \in Calls |-> NoEntry]
    /\ msg = [m \in Messages |-> [pc |-> "new", call |-> NoCall]]
    /\ cancelled = FALSE
    /\ told = [c \in Calls |-> {}] /\ missed = {} /\ raced = {}

CallStep(c) ==
    \/ Ensure(c) \/ Look(c) \/ Listen(c) \/ Expire(c)
    \/ AcquirePermit(c) \/ Execute(c) \/ TimeOut(c)
    \/ AskInsert(c) \/ AskWake(c) \/ AskTake(c)

MessageStep(m) == InboundAnswer(m) \/ InboundAck(m)

Next ==
    \/ \E c \in Calls : \/ Begin(c) \/ Refuse(c) \/ CallStep(c)
                        \/ Approve(c) \/ Deny(c) \/ Poll(c) \/ Cleanup(c)
    \/ \E m \in Messages : \/ \E c \in Asks : Respond(m, c)
                           \/ Inbound(m) \/ MessageStep(m)
    \/ Cancel \/ Tick

Spec == Init /\ [][Next]_vars

\* Tasks are scheduled and time passes; no human is obliged to do anything.
FairSpec ==
    /\ Spec /\ WF_vars(Tick)
    /\ \A c \in Calls : WF_vars(CallStep(c))
    /\ \A m \in Messages : WF_vars(MessageStep(m))

-----------------------------------------------------------------------------
(* Properties *)

\* Whoever was told that a decision is recorded sees the run act on it: of the
\* humans that race each other and the deadline one at most is told so, a tool
\* that requires approval goes ahead only if that was an approval, and an
\* approved call is not turned down.
DecisionsAgree ==
    \A c \in Calls \ Asks :
        /\ Cardinality(told[c]) <= 1
        /\ pc[c] \in {"permit", "executing"} \/ result[c] = "ran" => told[c] = {"approved"}
        /\ result[c] = "denied" => "approved" \notin told[c]

\* A call whose request has been decided is not left waiting for the deadline,
\* unless the decision fell between its look at the status and its wait.
SleepsOnlyIfMissed ==
    \A c \in Calls : pc[c] = "wait" /\ status[c] # "pending" => c \in missed

\* A message that is taken for the answer to a question, and so kept from the
\* agents, is what the agent that asked is given, unless two answers to the
\* question raced or nobody waited for it any more after the tool's timeout.  No agent is
\* woken to find no answer.
AnswersCount ==
    /\ \A m \in Messages :
        LET c == msg[m].call
        IN  msg[m].pc = "done" /\ c # NoCall /\ pc[c] = "done" =>
                result[c] \in {m, "timed_out"} \/ c \in raced
    /\ \A c \in Asks : result[c] # NoMessage

\* Every thread waits in AskTake for a reference that on_message gives up only
\* when a thread is left to go on with it.
Exhausted == Cardinality({c \in Calls : pc[c] = "take" /\ Held(c)}) >= Threads

\* Every call of a round ends, so the round does, although humans may never
\* answer, wake-ups are missed and questions hold the permits of other calls,
\* unless answers that are still being acknowledged block every worker thread of
\* the runtime.
CallsEnd == \A c \in Calls : pc[c] # "idle" ~> pc[c] = "done" \/ Exhausted
=============================================================================

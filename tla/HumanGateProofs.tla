--------------------------- MODULE HumanGateProofs ---------------------------
(***************************************************************************)
(* TLAPS proofs about HumanGate, for every round of calls, every number of *)
(* answers and every value of the limits and timeouts.                     *)
(***************************************************************************)
EXTENDS HumanGate, FiniteSetTheorems, TLAPS

-----------------------------------------------------------------------------
(* Approvals *)

Waiting == {"ensure", "read", "listen", "wait"}

ApprovalsTyped ==
    /\ DOMAIN pc = Calls /\ DOMAIN result = Calls
    /\ DOMAIN status = Calls /\ DOMAIN told = Calls

\* What the request of call c and its human were told have to do with where c is.
ApprovalOf(c) ==
    /\ result[c] # "none" => pc[c] = "done"
    /\ pc[c] \in {"listen", "wait"} /\ status[c] # "pending" => c \in missed
    /\ pc[c] = "idle" => status[c] = "absent" /\ told[c] = {}
    /\ status[c] = "pending" => pc[c] \in Waiting /\ told[c] = {}
    /\ status[c] = "approved" => told[c] = {"approved"}
    /\ status[c] = "denied" => told[c] = {"denied"}
    /\ status[c] = "timed_out" => told[c] = {}
    /\ told[c] \in {{}, {"approved"}, {"denied"}}
    /\ c \notin Asks =>
        /\ pc[c] \in {"idle", "permit", "executing", "done"} \cup Waiting
        /\ pc[c] \in {"permit", "executing"} \/ result[c] = "ran" => told[c] = {"approved"}
        /\ result[c] = "denied" => "approved" \notin told[c]

ApprovalInv == ApprovalsTyped /\ \A c \in Calls : ApprovalOf(c)

\* No request has been made.
LEMMA InitApproval == Init => ApprovalInv
BY DEF Init, ApprovalInv, ApprovalsTyped, ApprovalOf, Waiting

\* Every step of a call, a human or the clock keeps the invariant.
LEMMA StepApproval == ApprovalInv /\ [Next]_vars => ApprovalInv'
<1> SUFFICES ASSUME ApprovalInv, [Next]_vars PROVE ApprovalInv'
  OBVIOUS
<1> USE DEF ApprovalInv, ApprovalsTyped, ApprovalOf, Waiting, calls,
            Goto, Goes, End, Unasked, Unapproved
<1>1. ASSUME NEW c \in Calls, Begin(c) PROVE ApprovalInv'
  BY <1>1 DEF Begin
<1>2. ASSUME NEW c \in Calls, Refuse(c) PROVE ApprovalInv'
  BY <1>2 DEF Refuse
<1>3. ASSUME NEW c \in Calls, Ensure(c) PROVE ApprovalInv'
  BY <1>3 DEF Ensure
<1>4. ASSUME NEW c \in Calls, Look(c) PROVE ApprovalInv'
  BY <1>4 DEF Look
<1>5. ASSUME NEW c \in Calls, Listen(c) \/ Expire(c) PROVE ApprovalInv'
  BY <1>5 DEF Listen, Expire
<1>6. ASSUME NEW c \in Calls, AcquirePermit(c) PROVE ApprovalInv'
  BY <1>6 DEF AcquirePermit
<1>7. ASSUME NEW c \in Calls, Execute(c) \/ TimeOut(c) PROVE ApprovalInv'
  BY <1>7 DEF Execute, TimeOut
<1>8. ASSUME NEW c \in Calls, AskInsert(c) \/ AskWake(c) \/ AskTake(c) PROVE ApprovalInv'
  BY <1>8 DEF AskInsert, AskWake, AskTake
<1>9. ASSUME NEW c \in Calls, Approve(c) PROVE ApprovalInv'
  BY <1>9 DEF Approve, Finalize, Told
<1>10. ASSUME NEW c \in Calls, Deny(c) PROVE ApprovalInv'
  BY <1>10 DEF Deny, Finalize, Told
<1>11. ASSUME NEW c \in Calls, Poll(c) PROVE ApprovalInv'
  BY <1>11 DEF Poll, Finalize
<1>12. ASSUME NEW c \in Calls, Cleanup(c) PROVE ApprovalInv'
  BY <1>12 DEF Cleanup
<1>13. ASSUME NEW m \in Messages, NEW c \in Asks, Respond(m, c) PROVE ApprovalInv'
  BY <1>13 DEF Respond, Answer
<1>14. ASSUME NEW m \in Messages, Inbound(m) \/ MessageStep(m) PROVE ApprovalInv'
  BY <1>14 DEF Inbound, MessageStep, InboundAnswer, InboundAck, Answer
<1>15. CASE Cancel \/ Tick
  BY <1>15 DEF Cancel, Tick
<1>16. CASE UNCHANGED vars
  BY <1>16 DEF vars
<1> QED
  BY <1>1, <1>2, <1>3, <1>4, <1>5, <1>6, <1>7, <1>8, <1>9, <1>10, <1>11, <1>12, <1>13,
     <1>14, <1>15, <1>16 DEF Next, CallStep

\* The run acts on the decision its humans were told of: for every round and
\* every interleaving of approvals, denials, deadlines, polls, clean-ups and
\* the calls' own steps.
THEOREM DecisionsHold == Spec => []DecisionsAgree
<1>1. ASSUME ApprovalInv PROVE DecisionsAgree
  <2>1. \A c \in Calls : Cardinality(told[c]) <= 1
    <3>1. \A c \in Calls : told[c] \in {{}, {"approved"}, {"denied"}}
      BY <1>1 DEF ApprovalInv, ApprovalOf
    <3>2. Cardinality({}) = 0 /\ Cardinality({"approved"}) = 1 /\ Cardinality({"denied"}) = 1
      BY FS_EmptySet, FS_Singleton
    <3> QED BY <3>1, <3>2
  <2> QED BY <1>1, <2>1 DEF ApprovalInv, ApprovalOf, DecisionsAgree
<1> QED BY <1>1, InitApproval, StepApproval, PTL DEF Spec

\* wait_for_decision sleeps through a decision only if it was taken between
\* the look at the status and the registration of the wait.
THEOREM WakeUpHolds == Spec => []SleepsOnlyIfMissed
<1>1. ApprovalInv => SleepsOnlyIfMissed
  BY DEF ApprovalInv, ApprovalOf, SleepsOnlyIfMissed
<1> QED BY <1>1, InitApproval, StepApproval, PTL DEF Spec

-----------------------------------------------------------------------------
(* Questions *)

AskTyped ==
    /\ DOMAIN pc = Calls /\ DOMAIN result = Calls
    /\ DOMAIN ask = Calls
    /\ \A c \in Calls : /\ DOMAIN ask[c] = {"present", "response", "permit"}
                        /\ ask[c].response \in Messages \cup {NoMessage}
    /\ msg \in [Messages -> [pc: {"new", "found", "ack", "done"}, call: Asks \cup {NoCall}]]

\* The entry of question c lives from AskInsert to AskTake; a question given up
\* by the tool's timeout leaves its entry behind.
QuestionOf(c) ==
    /\ ask[c].present => pc[c] \in {"asking", "take"} \/ (pc[c] = "done" /\ result[c] = "timed_out")
    /\ ask[c].permit => ask[c].response # NoMessage
    /\ pc[c] = "take" => ask[c].response # NoMessage
    /\ pc[c] \in {"asking", "take"} => ask[c].present
    /\ result[c] # NoMessage

\* Message m is taken for the answer of c.
MessageOf(m, c) ==
    /\ pc[c] \in {"asking", "take", "done"}
    /\ msg[m].pc \in {"found", "ack"} => ask[c].present
    /\ msg[m].pc \in {"ack", "done"} /\ pc[c] # "done" => ask[c].response = m \/ c \in raced
    /\ msg[m].pc = "done" /\ pc[c] = "done" => result[c] \in {m, "timed_out"} \/ c \in raced

AskInv ==
    /\ AskTyped
    /\ \A c \in Asks : QuestionOf(c)
    /\ \A m \in Messages : msg[m].call # NoCall => MessageOf(m, msg[m].call)
    /\ \A m \in Messages : msg[m].pc \in {"found", "ack"} => msg[m].call # NoCall
    /\ \A m \in Messages : msg[m].pc = "new" => msg[m].call = NoCall

\* No question has been asked and no message sent.
LEMMA InitAsk == Init => AskInv
BY HumanConstants
DEF Init, AskInv, AskTyped, QuestionOf, MessageOf, NoEntry, Outcomes

\* A step that leaves questions and messages alone and ends no question but
\* with a result of its own keeps the invariant.
LEMMA CallKeepsAsk ==
    ASSUME AskInv, NEW c \in Calls,
           UNCHANGED <<ask, msg, raced>>, DOMAIN pc' = Calls, DOMAIN result' = Calls,
           \A d \in Calls \ {c} : pc'[d] = pc[d] /\ result'[d] = result[d],
           c \in Asks =>
              \/ pc'[c] = pc[c] /\ result'[c] = result[c]
              \/ /\ pc[c] \notin {"asking", "take", "done"}
                 /\ pc'[c] \notin {"asking", "take"}
                 /\ result'[c] \in Outcomes \cup {result[c]}
              \/ pc'[c] = "done" /\ result'[c] = "timed_out"
    PROVE  AskInv'
<1> USE HumanConstants DEF AskInv, AskTyped, Outcomes
<1>1. ASSUME NEW d \in Asks PROVE QuestionOf(d)'
  BY <1>1 DEF QuestionOf
<1>2. ASSUME NEW m \in Messages, msg[m].call # NoCall PROVE MessageOf(m, msg[m].call)'
  BY <1>2 DEF MessageOf, QuestionOf
<1> QED BY <1>1, <1>2

\* Every step keeps it: the steps of a question, of the messages, and the rest.
LEMMA StepAsk == AskInv /\ [Next]_vars => AskInv'
<1> SUFFICES ASSUME AskInv, [Next]_vars PROVE AskInv'
  OBVIOUS
<1>0. DOMAIN pc = Calls /\ DOMAIN result = Calls
  BY DEF AskInv, AskTyped
<1> USE DEF calls, Goto, Goes, End, Unasked, Unapproved
<1>1. ASSUME NEW c \in Calls, Begin(c) PROVE AskInv'
  BY <1>0, <1>1, CallKeepsAsk DEF Begin, Outcomes
<1>2. ASSUME NEW c \in Calls, Refuse(c) PROVE AskInv'
  BY <1>0, <1>2, CallKeepsAsk DEF Refuse, Outcomes
<1>3. ASSUME NEW c \in Calls, Ensure(c) \/ Look(c) \/ Listen(c) \/ Expire(c) PROVE AskInv'
  BY <1>0, <1>3, CallKeepsAsk DEF Ensure, Look, Listen, Expire, Outcomes
<1>4. ASSUME NEW c \in Calls, AcquirePermit(c) \/ Execute(c) PROVE AskInv'
  BY <1>0, <1>4, CallKeepsAsk DEF AcquirePermit, Execute, Outcomes
<1>5. ASSUME NEW c \in Calls, TimeOut(c) PROVE AskInv'
  BY <1>0, <1>5, CallKeepsAsk DEF TimeOut
<1>6. ASSUME NEW c \in Calls, Approve(c) \/ Deny(c) \/ Poll(c) \/ Cleanup(c) PROVE AskInv'
  BY <1>0, <1>6, CallKeepsAsk DEF Approve, Deny, Poll, Cleanup, Finalize
<1> USE HumanConstants DEF AskInv, AskTyped, QuestionOf, MessageOf
<1>7. ASSUME NEW c \in Calls, AskInsert(c) PROVE AskInv'
  <2>1. AskTyped'
    BY <1>7 DEF AskInsert, NoEntry
  <2>2. ASSUME NEW d \in Asks PROVE QuestionOf(d)'
    BY <1>7, <2>2 DEF AskInsert, NoEntry
  <2>3. ASSUME NEW m \in Messages, msg[m].call # NoCall PROVE MessageOf(m, msg[m].call)'
    BY <1>7, <2>3 DEF AskInsert, NoEntry
  <2> QED BY <1>7, <2>1, <2>2, <2>3 DEF AskInsert
<1>8. ASSUME NEW c \in Calls, AskWake(c) PROVE AskInv'
  <2>1. AskTyped'
    BY <1>8 DEF AskWake
  <2>2. ASSUME NEW d \in Asks PROVE QuestionOf(d)'
    BY <1>8, <2>2 DEF AskWake
  <2>3. ASSUME NEW m \in Messages, msg[m].call # NoCall PROVE MessageOf(m, msg[m].call)'
    BY <1>8, <2>3 DEF AskWake
  <2> QED BY <1>8, <2>1, <2>2, <2>3 DEF AskWake
<1>9. ASSUME NEW c \in Calls, AskTake(c) PROVE AskInv'
  <2>1. AskTyped'
    BY <1>9 DEF AskTake, NoEntry
  <2>2. ASSUME NEW d \in Asks PROVE QuestionOf(d)'
    BY <1>9, <2>2 DEF AskTake, NoEntry
  <2>3. ASSUME NEW m \in Messages, msg[m].call # NoCall PROVE MessageOf(m, msg[m].call)'
    BY <1>9, <2>3 DEF AskTake, Held, NoEntry
  <2> QED BY <1>9, <2>1, <2>2, <2>3 DEF AskTake
<1>10. ASSUME NEW m \in Messages, NEW c \in Asks, Respond(m, c) PROVE AskInv'
  <2>1. AskTyped'
    BY <1>10 DEF Respond, Answer
  <2>2. ASSUME NEW d \in Asks PROVE QuestionOf(d)'
    BY <1>10, <2>2 DEF Respond, Answer
  <2>3. ASSUME NEW k \in Messages, msg'[k].call # NoCall PROVE MessageOf(k, msg[k].call)'
    BY <1>10, <2>3 DEF Respond, Answer
  <2> QED BY <1>10, <2>1, <2>2, <2>3 DEF Respond
<1>11. ASSUME NEW m \in Messages, Inbound(m) PROVE AskInv'
  <2>1. AskTyped'
    BY <1>11 DEF Inbound, Unanswered
  <2>2. ASSUME NEW d \in Asks PROVE QuestionOf(d)'
    BY <1>11, <2>2 DEF Inbound, Unanswered
  <2>3. ASSUME NEW k \in Messages, msg'[k].call # NoCall PROVE MessageOf(k, msg[k].call)'
    BY <1>11, <2>3 DEF Inbound, Unanswered
  <2>4. \A k \in Messages : /\ msg'[k].pc \in {"found", "ack"} => msg'[k].call # NoCall
                            /\ msg'[k].pc = "new" => msg'[k].call = NoCall
    BY <1>11 DEF Inbound, Unanswered
  <2> QED BY <2>1, <2>2, <2>3, <2>4
<1>12. ASSUME NEW m \in Messages, InboundAnswer(m) PROVE AskInv'
  <2>1. AskTyped'
    BY <1>12 DEF InboundAnswer, Answer
  <2>2. ASSUME NEW d \in Asks PROVE QuestionOf(d)'
    BY <1>12, <2>2 DEF InboundAnswer, Answer
  <2>3. ASSUME NEW k \in Messages, msg'[k].call # NoCall PROVE MessageOf(k, msg[k].call)'
    BY <1>12, <2>3 DEF InboundAnswer, Answer
  <2> QED BY <1>12, <2>1, <2>2, <2>3 DEF InboundAnswer
<1>13. ASSUME NEW m \in Messages, InboundAck(m) PROVE AskInv'
  <2>1. AskTyped'
    BY <1>13 DEF InboundAck
  <2>2. ASSUME NEW d \in Asks PROVE QuestionOf(d)'
    BY <1>13, <2>2 DEF InboundAck
  <2>3. ASSUME NEW k \in Messages, msg'[k].call # NoCall PROVE MessageOf(k, msg[k].call)'
    BY <1>13, <2>3 DEF InboundAck
  <2> QED BY <1>13, <2>1, <2>2, <2>3 DEF InboundAck
<1>14. CASE Cancel \/ Tick \/ UNCHANGED vars
  BY <1>14 DEF Cancel, Tick, vars
<1> QED
  BY <1>1, <1>2, <1>3, <1>4, <1>5, <1>6, <1>7, <1>8, <1>9, <1>10, <1>11, <1>12, <1>13,
     <1>14 DEF Next, CallStep, MessageStep

\* A message that was taken for an answer, and so kept from the agents, reaches
\* the agent that asked, unless answers raced or the question was given up; and
\* no agent is woken to find no answer.
THEOREM AnswersReach == Spec => []AnswersCount
<1>1. AskInv => AnswersCount
  BY DEF AskInv, AskTyped, QuestionOf, MessageOf, AnswersCount
<1> QED BY <1>1, InitAsk, StepAsk, PTL DEF Spec
=============================================================================

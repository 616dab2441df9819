---------------------------- MODULE MCAgentLoop ----------------------------
(* Instances of AgentLoop for TLC. *)
EXTENDS AgentLoop

CONSTANTS c1, c2

\* One reason for each branch of record_failure; the loop's own errors are Unknown.
MCFaults == {"RateLimit", "ContextOverflow", "ServerError"}

\* Both calls, one after the other and together; none is the faulty answer.
MCAnswers == {<<>>, <<c1>>, <<c1, c2>>}
=============================================================================

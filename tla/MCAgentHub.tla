----------------------------- MODULE MCAgentHub -----------------------------
(***************************************************************************)
(* A small instance of AgentHub. Calls are made in one order only (Unused),*)
(* which takes the place of their symmetry: one property is a liveness     *)
(* property.                                                               *)
(***************************************************************************)
EXTENDS AgentHub, TLC

CallsMade == Cardinality(Streams \ Unused)

\* Two calls are explored in full. A third and a fourth are there for the agent
\* that goes over to other generations of the same monitor process and, on the
\* fourth, back to one it has been in: it has no other worries then.
FewCalls ==
  /\ CallsMade > 2 =>
       /\ desired.revision = 0 /\ "restarted" \notin lapses
       /\ agent.first = 1 /\ agent.top > 1
       /\ \A s \in Streams : client[s] # "silent"
  /\ CallsMade > 3 => agent.gen < agent.top
=============================================================================

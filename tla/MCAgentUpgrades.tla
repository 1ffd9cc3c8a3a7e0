-------------------------- MODULE MCAgentUpgrades --------------------------
\* A small fleet for the upgrade model.
EXTENDS AgentUpgrades

\* A rollout to two agents, and one to all of them.
TwoCalls == [r1 |-> {1, 2}, r2 |-> {1, 2, 3}]
=============================================================================

-------------------------- MODULE MCAgentOutcomes --------------------------
\* Small instances of the agent's outcome store.
EXTENDS AgentOutcomes
=============================================================================

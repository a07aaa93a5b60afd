---------------------------- MODULE MCAgentRuns ----------------------------
EXTENDS AgentRuns
=============================================================================

------------------------- MODULE MCAgentConnection --------------------------
EXTENDS AgentConnection
CONSTANT s1
=============================================================================

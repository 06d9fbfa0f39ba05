-------------------------- MODULE MCAgentRunQueue --------------------------
EXTENDS AgentRunQueue

CONSTANTS r1, r2, r3, a, b

=============================================================================

---------------------------- MODULE MCPipListPod ----------------------------
EXTENDS PipListPod

CONSTANTS a, b

MCCalls == {a, b}
=============================================================================

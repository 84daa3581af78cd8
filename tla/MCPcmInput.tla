---------------------------- MODULE MCPcmInput -----------------------------
EXTENDS PcmInput
=============================================================================

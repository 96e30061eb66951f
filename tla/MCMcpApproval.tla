---------------------------- MODULE MCMcpApproval ----------------------------
\* Model-checking instance of McpApproval; the values are in the .cfg files.
EXTENDS McpApproval
=============================================================================

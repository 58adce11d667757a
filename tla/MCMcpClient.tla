---------------------------- MODULE MCMcpClient ----------------------------
EXTENDS McpClient
=============================================================================

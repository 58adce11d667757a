------------------------------- MODULE MCPeer -------------------------------
EXTENDS Peer
=============================================================================

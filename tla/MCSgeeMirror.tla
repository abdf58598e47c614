----------------------------- MODULE MCSgeeMirror -----------------------------
(* SgeeMirror on a cluster of two nodes.                                   *)
EXTENDS SgeeMirror

CONSTANTS n1, n2

MCPeers == <<n1, n2>>
=============================================================================

-------------------------- MODULE MCPendingReplies --------------------------
(* An instance of PendingReplies for TLC: three calls of any kind, which may *)
(* be three Gets of one name.                                                *)
EXTENDS PendingReplies
=============================================================================

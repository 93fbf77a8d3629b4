-------------------------- MODULE MCPENotification --------------------------
(* An instance of PENotification for TLC.                                  *)
EXTENDS PENotification
=============================================================================

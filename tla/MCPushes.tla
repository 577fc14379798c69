------------------------------ MODULE MCPushes ------------------------------
(* Small instances of the collection of pushes.                             *)
EXTENDS Pushes
MCMoved   == {"moved"}
MCAll     == {"created", "latest", "page", "moved"}
=============================================================================

-------------------------- MODULE LspWorkspacesMC --------------------------
(* Instances of the workspace lifecycle; all values are in the .cfg files. *)
EXTENDS LspWorkspaces
=============================================================================

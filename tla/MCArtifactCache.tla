-------------------------- MODULE MCArtifactCache ---------------------------
(***************************************************************************)
(* Two processes that call twice for one tree, from any initial cache.     *)
(***************************************************************************)
EXTENDS ArtifactCache

TwoProcesses == {"p", "q"}
OneTree == {"t"}
=============================================================================

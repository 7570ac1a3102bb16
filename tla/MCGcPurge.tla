----------------------------- MODULE MCGcPurge -----------------------------
(* A worktree and an          extern repository beside each other.         *)
EXTENDS GcPurge
=============================================================================

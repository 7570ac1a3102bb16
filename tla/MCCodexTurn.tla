---------------------------- MODULE MCCodexTurn ----------------------------
(* One conversation of the Codex bridge, its ids and lists bounded. *)
EXTENDS CodexTurn
=============================================================================

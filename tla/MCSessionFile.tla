--------------------------- MODULE MCSessionFile ---------------------------
(* One session and all the writers of its snapshot file. *)
EXTENDS SessionFile
=============================================================================

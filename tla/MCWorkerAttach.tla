--------------------------- MODULE MCWorkerAttach ---------------------------
(* Instances of WorkerAttach for TLC. *)
EXTENDS WorkerAttach
CONSTANTS c1, c2
MCClients == {c1, c2}
MCOne == {c1}
MCInteractive == {c2}
MCNobody == {}
=============================================================================

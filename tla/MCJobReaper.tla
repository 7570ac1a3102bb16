---------------------------- MODULE MCJobReaper ----------------------------
(* Instances of JobReaper for TLC. *)
EXTENDS JobReaper
MCPids == 1..4
MCMissable == {4}
MCRecycled == {2}
MCStarts == {<<"agent", "bash">>, <<"bash", "bash">>, <<"bash", "tool">>, <<"bash", "server">>,
             <<"tool", "bash">>, <<"tool", "server">>,
             <<"server", "tool">>}
=============================================================================

-------------------------- MODULE MCUnifiedGateway --------------------------
EXTENDS UnifiedGateway, TLC
CONSTANTS r1, r2, r3, claude, codex, deepseek, k1, k2

\* A subscription rung, a metered rung, the Codex rung.
MCRequests == {r1, r2, r3}
MCRoutes   == {claude, codex, deepseek}
MCLadder   == <<"opus", "v3", "terra">>
MCRouteOf  == [s \in {"opus", "v3", "terra"} |->
                  CASE s = "opus" -> claude [] s = "v3" -> deepseek [] OTHER -> codex]
MCWant     == [r \in MCRequests |-> IF r = r2 THEN codex ELSE claude]
MCConversation == [r \in MCRequests |-> IF r = r3 THEN k2 ELSE k1]
=============================================================================

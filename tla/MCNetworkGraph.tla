---------------------------- MODULE MCNetworkGraph -----------------------------
(* A small instance of NetworkGraph: one loop through two relays that are judged *)
(* together, one of them also twice in one list; factors in quarters.            *)
EXTENDS NetworkGraph

MCPaths == {<<"me", "a", "b">>}
MCJudgements == {<<<<"a", 2>>, <<"b", 0>>>>, <<<<"b", 0>>, <<"a", 2>>, <<"b", 2>>>>}
MCBalances == {None, 2}
================================================================================

-------------------------- MODULE MCProbeScheduler --------------------------
(* Three rules over two shared questions, two slots.                       *)
EXTENDS ProbeScheduler, TLC
MCNeeds == ("r1" :> <<"k1", "k2">>) @@ ("r2" :> <<"k2", "k1">>) @@ ("r3" :> <<"k1">>)
=============================================================================

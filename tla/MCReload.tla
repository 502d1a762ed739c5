------------------------------ MODULE MCReload ------------------------------
(* Reload with three log files, the last of which cannot be spied, a rule  *)
(* file for two of them, one for two others, and one that is broken.       *)
EXTENDS Reload

MCRuleFile == {"a", "b", "broken"}
MCLogFile == 1..3
MCGlob == [a |-> {1, 2}, b |-> {2, 3}, broken |-> {1}]
MCUnreadable == {3}
MCBroken == {"broken"}
=============================================================================

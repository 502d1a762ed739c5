------------------------------ MODULE MCLines ------------------------------
(* Lines with two log files, which one rule names: it drops their noise,   *)
(* and leaves their alarms to be sent.                                     *)
EXTENDS Lines

MCRuleFile == {"drop"}
MCLogFile == 1..2
MCGlob == [drop |-> {1, 2}]
MCMatching == [noise |-> {"drop"}, alarm |-> {}]
MCKind == DOMAIN MCMatching
=============================================================================

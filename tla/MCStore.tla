------------------------------ MODULE MCStore -------------------------------
(* Store with HTTP codes; "none" is the code of a server that was lost.    *)
EXTENDS Store

MCCode == {"201", "none"}
MCSuccess == {"201"}
=============================================================================

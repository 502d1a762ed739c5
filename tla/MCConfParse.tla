----------------------------- MODULE MCConfParse ----------------------------
(* ConfParse with model values for the bytes; a stands for any other byte. *)
EXTENDS ConfParse
CONSTANTS a, SP

MCChar == {a, SP, NL, NUL, CR, EQ, HASH}
MCSpace == {SP, CR, NL}
=============================================================================

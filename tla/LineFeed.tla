------------------------------ MODULE LineFeed ------------------------------
(***************************************************************************)
(* What libspy promises about one growing log file: "every new line        *)
(* inserted into it" is reported (spy_main.c), each one once and in the    *)
(* order of the file.  There is no thread, buffer or queue here: a line is *)
(* reported in one step, any time after its newline was written.           *)
(***************************************************************************)
EXTENDS Naturals, Sequences

CONSTANTS Byte,  \* the bytes a writer may append
          NL     \* the newline byte

VARIABLES text,  \* the content of the file
          mark,  \* everything up to this position has been dealt with
          out    \* the reported lines, as <<first, last>> positions in text

feedVars == <<text, mark, out>>

(***************************************************************************)
(* The file is spied from its current end on: what it held before is not   *)
(* reported.                                                               *)
(***************************************************************************)
FeedInit ==
  /\ text \in Seq(Byte)
  /\ mark = Len(text)
  /\ out = <<>>

Write ==
  /\ \E b \in Byte : text' = Append(text, b)
  /\ UNCHANGED <<mark, out>>

(***************************************************************************)
(* f..t is the first complete, non-empty line after mark: only newlines    *)
(* before it, none in it, and one right behind it.                         *)
(***************************************************************************)
NextLine(f, t) ==
  /\ mark < f /\ f <= t /\ t < Len(text)
  /\ \A i \in (mark + 1)..(f - 1) : text[i] = NL
  /\ \A i \in f..t : text[i] # NL
  /\ text[t + 1] = NL

Report ==
  /\ \E f, t \in 1..Len(text) :
       /\ NextLine(f, t)
       /\ mark' = t
       /\ out' = Append(out, <<f, t>>)
  /\ UNCHANGED text

FeedNext == Write \/ Report

FeedSafety == FeedInit /\ [][FeedNext]_feedVars

(***************************************************************************)
(* No complete line stays unreported for ever.                             *)
(***************************************************************************)
Pending == \E f, t \in 1..Len(text) : NextLine(f, t)
FeedLiveness == []<>~Pending
=============================================================================

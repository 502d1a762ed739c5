----------------------------- MODULE ConfParse ------------------------------
(***************************************************************************)
(* The parser of libconf (src/src/lib/conf/conf_load.c), which reads the   *)
(* configuration and every rule: conf_load_map_filter walks over the       *)
(* mapped file from newline to newline, conf_load_line_parse cuts a line   *)
(* in two at its first "=" and trims both sides.                           *)
(*                                                                         *)
(* A string of the file is named by its place, <<first, last>>, so that    *)
(* two equal lines are still two: eina_hash_add keeps both (the rules of   *)
(* the documentation repeat message_unmatch).  An empty string ends in     *)
(* front of its first byte.                                                *)
(***************************************************************************)
EXTENDS Integers, Sequences

CONSTANTS Char,    \* the bytes of a file
          NL, NUL, CR, EQ, HASH,    \* newline, \0, \r, =, #
          Space,   \* the bytes eina_strbuf_trim takes away
          MaxLen   \* bound: the length of the file

ASSUME ConfAssumption ==
  /\ {NL, NUL, CR, EQ, HASH} \subseteq Char
  /\ CR \in Space /\ CR # EQ /\ CR # HASH
  /\ MaxLen \in Nat

VARIABLES text,       \* the mapped file
          s,          \* the cursor of conf_load_map_filter, from 1
          variables,  \* conf->variables
          over        \* the callbacks of the main loop were called

vars == <<text, s, variables, over>>

Init ==
  /\ text \in UNION {[1..n -> Char] : n \in 0..MaxLen}
  /\ s = 1 /\ variables = {} /\ over = FALSE

-----------------------------------------------------------------------------
(***************************************************************************)
(* conf_load_line_parse, of the line at f..t.                              *)
(***************************************************************************)
Ink(f, t) == {i \in f..t : text[i] \notin Space}

\* What eina_strbuf_trim leaves of f..t.
Trimmed(f, t) ==
  IF Ink(f, t) = {} THEN {<<f, f - 1>>}
  ELSE {w \in Ink(f, t) \X Ink(f, t) : \A k \in Ink(f, t) : w[1] <= k /\ k <= w[2]}

\* Mutant: the line is cut at its last "=".
FirstEqual_Last(f, t) == {e \in f..t : text[e] = EQ /\ \A i \in (e + 1)..t : text[i] # EQ}

FirstEqual(f, t) == {e \in f..t : text[e] = EQ /\ \A i \in f..(e - 1) : text[i] # EQ}

LineParse(f, t) ==
  IF f > t \/ text[f] = HASH THEN {}
  ELSE UNION {[key : Trimmed(f, e - 1), value : Trimmed(e + 1, t)] : e \in FirstEqual(f, t)}

(***************************************************************************)
(* conf_load_map_filter, one action for an iteration of its loop.  strchr  *)
(* finds the newline at p only if no \0 comes before it.                   *)
(***************************************************************************)
Newline(p) ==
  /\ p \in DOMAIN text /\ s <= p /\ text[p] = NL
  /\ \A i \in s..(p - 1) : text[i] \notin {NL, NUL}

NoNewline ==
  /\ s <= Len(text) /\ \A p \in DOMAIN text : ~Newline(p)
  /\ s' = s + 1
  /\ UNCHANGED <<text, variables, over>>

EmptyLine ==
  /\ Newline(s)
  /\ s' = s + 1
  /\ UNCHANGED <<text, variables, over>>

\* Mutant: the loop goes on behind the byte that follows the newline.
LineAt_SkipsByte(p) ==
  /\ variables' = variables \cup LineParse(s, IF text[p - 1] = CR THEN p - 2 ELSE p - 1)
  /\ s' = p + 2

LineAt(p) ==
  /\ variables' = variables \cup LineParse(s, IF text[p - 1] = CR THEN p - 2 ELSE p - 1)
  /\ s' = p + 1

NextLine ==
  /\ \E p \in DOMAIN text : p > s /\ Newline(p) /\ LineAt(p)
  /\ UNCHANGED <<text, over>>

\* Mutant: the end of the file is only seen at a newline.
EndOfMap_AtNewline ==
  /\ s = Len(text) + 1 /\ ~over /\ text # <<>> /\ text[Len(text)] = NL
  /\ over' = TRUE
  /\ UNCHANGED <<text, s, variables>>

EndOfMap ==                                           \* conf_load_map_main
  /\ s = Len(text) + 1 /\ ~over
  /\ over' = TRUE
  /\ UNCHANGED <<text, s, variables>>

Next == NoNewline \/ EmptyLine \/ NextLine \/ EndOfMap

Spec == Init /\ [][Next]_vars

\* The thread of Eio runs, and the main loop calls back.
FairSpec == Spec /\ WF_vars(Next)

-----------------------------------------------------------------------------
Place == Nat \X Nat

(***************************************************************************)
(* Every variable keeps its type; the cursor never leaves the map.         *)
(***************************************************************************)
TypeOK ==
  /\ text \in Seq(Char) /\ s \in 1..(Len(text) + 1)
  /\ variables \subseteq [key : Place, value : Place] /\ over \in BOOLEAN

(***************************************************************************)
(* A line, without reference to the cursor: it has no \0 in it, ends in    *)
(* front of a newline and begins behind a newline, behind a \0 or at the   *)
(* beginning of the file.                                                  *)
(***************************************************************************)
IsLine(f, t) ==
  /\ f <= t /\ t < Len(text) /\ text[t + 1] = NL
  /\ \A i \in f..t : text[i] \notin {NL, NUL}
  /\ f = 1 \/ text[f - 1] \in {NL, NUL}

\* What a line says: both sides of the "=" that no other is in front of.
Said(f, t) ==
  UNION {[key : Trimmed(f, e - 1), value : Trimmed(e + 1, t)] :
           e \in {k \in f..t : /\ text[f] # HASH /\ text[k] = EQ
                              /\ \A i \in f..t : text[i] = EQ => k <= i}}

LinesBefore(n) == {l \in (DOMAIN text) \X (DOMAIN text) : IsLine(l[1], l[2]) /\ l[2] + 1 < n}

(***************************************************************************)
(* At any time the variables are what the lines in front of the cursor     *)
(* say, none left out and none made up, whatever lies between them.        *)
(***************************************************************************)
AsWritten == variables = UNION {Said(l[1], l[2]) : l \in LinesBefore(s)}

(***************************************************************************)
(* The loop ends on every file, and the caller is told.                    *)
(***************************************************************************)
Ends == <>over
=============================================================================

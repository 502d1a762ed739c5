--------------------------- MODULE ConfParseProofs --------------------------
(***************************************************************************)
(* The loop of conf_load_map_filter reads what is written, for files of    *)
(* any length over any bytes.  What makes AsWritten inductive is where the *)
(* cursor stands: at the beginning of a line, or behind the last newline   *)
(* that strchr can reach (AtLineStart).                                    *)
(***************************************************************************)
EXTENDS ConfParse, TLAPS

AtLineStart ==
  s = 1 \/ text[s - 1] \in {NL, NUL} \/ \A p \in DOMAIN text : ~Newline(p)

IInv == TypeOK /\ AtLineStart /\ AsWritten

-----------------------------------------------------------------------------
(***************************************************************************)
(* text is a function on its places, which are numbers.                    *)
(***************************************************************************)
LEMMA TextIsSeq ==
  ASSUME TypeOK
  PROVE  Len(text) \in Nat /\ DOMAIN text = 1..Len(text) /\ s \in Nat /\ s >= 1
BY DEF TypeOK

(***************************************************************************)
(* Trimming gives one place.                                               *)
(***************************************************************************)
LEMMA TrimmedPlace ==
  ASSUME NEW f \in Nat \ {0}, NEW t \in Int
  PROVE  Trimmed(f, t) \subseteq Place
BY DEF Trimmed, Ink, Place

LEMMA ParsePlaces ==
  ASSUME NEW f \in Nat \ {0}, NEW t \in Int
  PROVE  LineParse(f, t) \subseteq [key : Place, value : Place]
<1>1. ASSUME NEW e \in FirstEqual(f, t)
      PROVE  Trimmed(f, e - 1) \subseteq Place /\ Trimmed(e + 1, t) \subseteq Place
  <2>1. e \in Nat \ {0}
    BY <1>1 DEF FirstEqual
  <2> QED
    BY <2>1, TrimmedPlace
<1> QED
  BY <1>1 DEF LineParse

(***************************************************************************)
(* The \r that conf_load_map_filter cuts off changes nothing: it is no     *)
(* "=", and eina_strbuf_trim would take it.                                *)
(***************************************************************************)
LEMMA CarriageReturn ==
  ASSUME NEW f \in Nat, NEW t \in Nat, f <= t, text[t] = CR
  PROVE  LineParse(f, t - 1) = LineParse(f, t)
<1> USE ConfAssumption
<1>1. \A i \in Int : i <= t => Ink(i, t - 1) = Ink(i, t)
  BY DEF Ink
<1>2. FirstEqual(f, t - 1) = FirstEqual(f, t)
  BY DEF FirstEqual
<1>3. \A e \in FirstEqual(f, t) : Trimmed(e + 1, t - 1) = Trimmed(e + 1, t)
  <2> SUFFICES ASSUME NEW e \in FirstEqual(f, t)
               PROVE  Trimmed(e + 1, t - 1) = Trimmed(e + 1, t)
    OBVIOUS
  <2>1. e \in Int /\ e + 1 <= t
    BY DEF FirstEqual
  <2> QED
    BY <2>1, <1>1 DEF Trimmed
<1>4. CASE f <= t - 1
  <2> DEFINE Pairs(u) == {[key : Trimmed(f, e - 1), value : Trimmed(e + 1, u)] :
                           e \in FirstEqual(f, t)}
  <2>1. Pairs(t - 1) = Pairs(t)
    BY <1>3
  <2>2. LineParse(f, t) = IF text[f] = HASH THEN {} ELSE UNION Pairs(t)
    BY DEF LineParse
  <2>3. LineParse(f, t - 1) = IF text[f] = HASH THEN {} ELSE UNION Pairs(t - 1)
    <3>1. ~(f > t - 1)
      BY <1>4
    <3> HIDE ConfAssumption
    <3>2. LineParse(f, t - 1) =
            IF text[f] = HASH THEN {}
            ELSE UNION {[key : Trimmed(f, e - 1), value : Trimmed(e + 1, t - 1)] :
                          e \in FirstEqual(f, t - 1)}
      BY <3>1, Zenon DEF LineParse
    <3> QED
      BY <3>2, <1>2
  <2> QED
    BY <2>1, <2>2, <2>3
<1>5. CASE f > t - 1
  <2>1. FirstEqual(f, t) = {} /\ LineParse(f, t - 1) = {}
    BY <1>5 DEF FirstEqual, LineParse
  <2> QED
    BY <2>1 DEF LineParse
<1> QED
  BY <1>4, <1>5

(***************************************************************************)
(* conf_load_line_parse takes from a line what the line says.              *)
(***************************************************************************)
LEMMA ParseIsSaid ==
  ASSUME NEW f \in Nat, NEW t \in Nat, f <= t
  PROVE  LineParse(f, t) = Said(f, t)
<1>1. FirstEqual(f, t) = {k \in f..t : /\ text[k] = EQ
                                       /\ \A i \in f..t : text[i] = EQ => k <= i}
  BY DEF FirstEqual
<1>2. CASE text[f] = HASH
  BY <1>2 DEF LineParse, Said
<1>3. CASE text[f] # HASH
  BY <1>1, <1>3 DEF LineParse, Said
<1> QED
  BY <1>2, <1>3

-----------------------------------------------------------------------------
(***************************************************************************)
(* If no line ends in front of the cursor, moving it on passes none over.  *)
(***************************************************************************)
LEMMA NoLinePassed ==
  ASSUME IInv, s <= Len(text), \A f \in DOMAIN text : ~IsLine(f, s - 1)
  PROVE  LinesBefore(s + 1) = LinesBefore(s)
<1>1. \A l \in (DOMAIN text) \X (DOMAIN text) :
        IsLine(l[1], l[2]) /\ l[2] + 1 < s + 1 => l[2] + 1 < s
  <2> SUFFICES ASSUME NEW f \in DOMAIN text, NEW t \in DOMAIN text, IsLine(f, t), t + 1 < s + 1
               PROVE  t + 1 < s
    OBVIOUS
  <2>1. t + 1 # s
    <3>1. t + 1 = s => t = s - 1
      BY TextIsSeq DEF IInv
    <3> QED
      BY <3>1
  <2> QED
    BY <2>1, TextIsSeq DEF IInv
<1>2. \A l \in (DOMAIN text) \X (DOMAIN text) : l[2] + 1 < s => l[2] + 1 < s + 1
  BY TextIsSeq DEF IInv
<1> QED
  BY <1>1, <1>2 DEF LinesBefore

(***************************************************************************)
(* A newline under the cursor ends no line: the cursor is at its beginning.*)
(***************************************************************************)
LEMMA NoneOpen ==
  ASSUME IInv, s <= Len(text), text[s] = NL
  PROVE  \A f \in DOMAIN text : ~IsLine(f, s - 1)
<1> SUFFICES ASSUME NEW f \in DOMAIN text, IsLine(f, s - 1) PROVE FALSE
  OBVIOUS
<1>1. f <= s - 1 /\ text[s - 1] \notin {NL, NUL}
  BY TextIsSeq DEF IInv, IsLine
<1>2. Newline(s)
  BY TextIsSeq DEF IInv, Newline
<1> QED
  BY <1>1, <1>2, TextIsSeq DEF IInv, AtLineStart

(***************************************************************************)
(* The line that ends at a newline the cursor finds begins at the cursor.  *)
(***************************************************************************)
LEMMA OneLinePassed ==
  ASSUME IInv, NEW p \in DOMAIN text, p > s, Newline(p)
  PROVE  LinesBefore(p + 1) = LinesBefore(s) \cup {<<s, p - 1>>}
<1>0. /\ DOMAIN text = 1..Len(text) /\ Len(text) \in Nat /\ s \in Nat /\ s >= 1
      /\ s <= p - 1 /\ p - 1 \in DOMAIN text /\ s \in DOMAIN text
  BY TextIsSeq DEF IInv
<1>1. s = 1 \/ text[s - 1] \in {NL, NUL}
  BY DEF IInv, AtLineStart
<1>2. \A i \in s..(p - 1) : text[i] \notin {NL, NUL}
  BY DEF Newline
<1>3. IsLine(s, p - 1)
  BY <1>0, <1>1, <1>2 DEF IsLine, Newline
<1>4. ASSUME NEW f \in DOMAIN text, NEW t \in DOMAIN text, IsLine(f, t), t + 1 < p + 1
      PROVE  t + 1 < s \/ (f = s /\ t = p - 1)
  <2>1. CASE t + 1 < s
    BY <2>1
  <2>2. CASE t + 1 >= s
    <3>1. text[t + 1] = NL
      BY <1>4 DEF IsLine
    <3>2. t + 1 = p
      BY <1>0, <1>2, <1>4, <2>2, <3>1
    <3>3. ~(f < s)
      <4>1. ASSUME f < s PROVE s # 1 /\ s - 1 \in f..t
        BY <4>1, <1>0, <3>2
      <4> QED
        BY <4>1, <1>1, <1>4 DEF IsLine
    <3>4. ~(f > s)
      <4>1. ASSUME f > s PROVE f # 1 /\ f - 1 \in s..(p - 1)
        BY <4>1, <1>0, <1>4, <3>2 DEF IsLine
      <4> QED
        BY <4>1, <1>2, <1>4 DEF IsLine
    <3> QED
      BY <1>0, <3>2, <3>3, <3>4
  <2> QED
    BY <2>1, <2>2, <1>0
<1>5. \A f \in DOMAIN text, t \in DOMAIN text : t + 1 < s => t + 1 < p + 1
  BY <1>0
<1>6. p - 1 + 1 < p + 1
  BY <1>0
<1> QED
  BY <1>0, <1>3, <1>4, <1>5, <1>6 DEF LinesBefore

(***************************************************************************)
(* What the loop takes from that line is what the line says.               *)
(***************************************************************************)
LEMMA LineTaken ==
  ASSUME IInv, NEW p \in DOMAIN text, p > s, Newline(p), LineAt(p)
  PROVE  variables' = variables \cup Said(s, p - 1)
<1>0. s \in Nat /\ p - 1 \in Nat /\ p - 2 = p - 1 - 1 /\ s <= p - 1
  BY TextIsSeq DEF IInv
<1>1. CASE text[p - 1] = CR
  <2>1. LineParse(s, p - 2) = LineParse(s, p - 1)
    BY <1>0, <1>1, CarriageReturn
  <2> QED
    BY <1>0, <1>1, <2>1, ParseIsSaid DEF LineAt
<1>2. CASE text[p - 1] # CR
  BY <1>0, <1>2, ParseIsSaid DEF LineAt
<1> QED
  BY <1>1, <1>2

-----------------------------------------------------------------------------
(***************************************************************************)
(* IInv holds at first and in every state.                                 *)
(***************************************************************************)
LEMMA InvInit == Init => IInv
<1> SUFFICES ASSUME Init PROVE IInv
  OBVIOUS
<1>1. text \in Seq(Char) /\ Len(text) \in Nat
  BY ConfAssumption DEF Init
<1>2. TypeOK
  <2>1. s \in 1..(Len(text) + 1)
    BY <1>1 DEF Init
  <2>2. variables \subseteq [key : Place, value : Place] /\ over \in BOOLEAN
    BY DEF Init
  <2> QED
    BY <1>1, <2>1, <2>2 DEF TypeOK
<1>3. LinesBefore(s) = {}
  <2>1. DOMAIN text = 1..Len(text) /\ s = 1
    BY <1>2, TextIsSeq DEF Init
  <2>2. \A l \in (DOMAIN text) \X (DOMAIN text) : ~(l[2] + 1 < s)
    BY <1>1, <2>1
  <2> QED
    BY <2>2 DEF LinesBefore
<1>4. UNION {Said(l[1], l[2]) : l \in LinesBefore(s)} = {}
  BY <1>3
<1>5. AsWritten
  BY <1>4 DEF Init, AsWritten
<1>6. AtLineStart
  BY DEF Init, AtLineStart
<1> QED
  BY <1>2, <1>5, <1>6 DEF IInv

(***************************************************************************)
(* What the lines in front of a place say depends on the text only.        *)
(***************************************************************************)
LEMMA SameText ==
  ASSUME text' = text
  PROVE  /\ \A n : LinesBefore(n)' = LinesBefore(n)
         /\ \A f, t : Said(f, t)' = Said(f, t)
BY DEF LinesBefore, IsLine, Said, Trimmed, Ink

(***************************************************************************)
(* Each action of the loop keeps IInv.                                     *)
(***************************************************************************)
LEMMA NoNewlineStep ==
  ASSUME IInv, NoNewline
  PROVE  IInv'
<1>0. s \in DOMAIN text /\ s \in Nat /\ s <= Len(text) /\ s' = s + 1 /\ text' = text
  BY TextIsSeq DEF IInv, NoNewline
<1>1. TypeOK'
  BY <1>0 DEF IInv, TypeOK, NoNewline
<1>2. text[s] # NL
  BY <1>0 DEF NoNewline, Newline
<1>3. AtLineStart'
  <2>1. CASE text[s] = NUL
    BY <2>1, <1>0 DEF AtLineStart
  <2>2. CASE text[s] # NUL
    <3>1. ASSUME NEW p \in DOMAIN text, Newline(p)' PROVE FALSE
      <4>1. s <= p /\ text[p] = NL
        BY <3>1, <1>0, TextIsSeq DEF IInv, Newline
      <4>2. \A i \in s..(p - 1) : i = s \/ i \in (s + 1)..(p - 1)
        BY <1>0
      <4>3. \A i \in s..(p - 1) : text[i] \notin {NL, NUL}
        BY <4>2, <3>1, <2>2, <1>2, <1>0 DEF Newline
      <4>4. Newline(p)
        BY <4>1, <4>3 DEF Newline
      <4> QED
        BY <4>4 DEF NoNewline
    <3> QED
      BY <3>1, <1>0 DEF AtLineStart
  <2> QED
    BY <2>1, <2>2
<1>4. LinesBefore(s + 1) = LinesBefore(s)
  <2>1. \A f \in DOMAIN text : ~IsLine(f, s - 1)
    BY <1>0, <1>2 DEF IsLine
  <2> QED
    BY <2>1, <1>0, NoLinePassed
<1>5. AsWritten'
  <2>1. LinesBefore(s)' = LinesBefore(s)
    BY <1>0, <1>4 DEF LinesBefore, IsLine
  <2> QED
    BY <2>1, <1>0, SameText DEF IInv, AsWritten, NoNewline
<1> QED
  BY <1>1, <1>3, <1>5 DEF IInv

LEMMA EmptyLineStep ==
  ASSUME IInv, EmptyLine
  PROVE  IInv'
<1>0. /\ s \in DOMAIN text /\ s \in Nat /\ s <= Len(text) /\ text[s] = NL
      /\ s' = s + 1 /\ text' = text
  BY TextIsSeq DEF IInv, EmptyLine, Newline
<1>1. TypeOK'
  BY <1>0 DEF IInv, TypeOK, EmptyLine
<1>2. AtLineStart'
  BY <1>0 DEF AtLineStart
<1>3. LinesBefore(s + 1) = LinesBefore(s)
  BY <1>0, NoneOpen, NoLinePassed
<1>4. LinesBefore(s)' = LinesBefore(s)
  BY <1>0, <1>3 DEF LinesBefore, IsLine
<1> QED
  BY <1>0, <1>1, <1>2, <1>4, SameText DEF IInv, AsWritten, EmptyLine

LEMMA NextLineStep ==
  ASSUME IInv, NextLine
  PROVE  IInv'
<1>1. PICK p \in DOMAIN text : p > s /\ Newline(p) /\ LineAt(p)
  BY DEF NextLine
<1>0. /\ s \in Nat \ {0} /\ p \in 1..Len(text) /\ Len(text) \in Nat
      /\ s' = p + 1 /\ text' = text /\ text[p] = NL
  BY <1>1, TextIsSeq DEF IInv, NextLine, LineAt, Newline
<1>2. TypeOK'
  <2>1. variables' \subseteq [key : Place, value : Place]
    BY <1>0, <1>1, ParsePlaces DEF IInv, TypeOK, LineAt
  <2> QED
    BY <1>0, <2>1 DEF IInv, TypeOK, NextLine
<1>3. AtLineStart'
  BY <1>0 DEF AtLineStart
<1>4. AsWritten'
  <2>1. LinesBefore(p + 1) = LinesBefore(s) \cup {<<s, p - 1>>}
    BY <1>1, OneLinePassed
  <2>2. LinesBefore(s)' = LinesBefore(s) \cup {<<s, p - 1>>}
    BY <1>0, <2>1 DEF LinesBefore, IsLine
  <2>3. variables' = variables \cup Said(s, p - 1)
    BY <1>1, LineTaken
  <2> DEFINE Says(L) == {Said(l[1], l[2]) : l \in L}
  <2>4. Says(LinesBefore(s) \cup {<<s, p - 1>>}) = Says(LinesBefore(s)) \cup {Said(s, p - 1)}
    <3> DEFINE x == <<s, p - 1>>
    <3>1. x[1] = s /\ x[2] = p - 1
      OBVIOUS
    <3> HIDE DEF x
    <3>2. Says(LinesBefore(s) \cup {x}) = Says(LinesBefore(s)) \cup {Said(x[1], x[2])}
      BY Zenon
    <3> QED
      BY <3>1, <3>2 DEF x
  <2>5. variables' = UNION Says(LinesBefore(s) \cup {<<s, p - 1>>})
    BY <2>3, <2>4 DEF IInv, AsWritten
  <2>6. {Said(l[1], l[2])' : l \in LinesBefore(s)'} = Says(LinesBefore(s)')
    BY <1>0, SameText
  <2> QED
    BY <2>2, <2>5, <2>6 DEF AsWritten
<1> QED
  BY <1>2, <1>3, <1>4 DEF IInv

LEMMA InvStep == IInv /\ [Next]_vars => IInv'
<1> SUFFICES ASSUME IInv, [Next]_vars PROVE IInv'
  OBVIOUS
<1>1. CASE UNCHANGED vars \/ EndOfMap
  <2>1. text' = text /\ s' = s /\ variables' = variables /\ over' \in BOOLEAN
    BY <1>1 DEF IInv, TypeOK, EndOfMap, vars
  <2>2. TypeOK' /\ AtLineStart'
    BY <2>1 DEF IInv, TypeOK, AtLineStart, Newline
  <2>3. LinesBefore(s)' = LinesBefore(s)
    BY <2>1 DEF LinesBefore, IsLine
  <2> QED
    BY <2>1, <2>2, <2>3, SameText DEF IInv, AsWritten
<1> QED
  BY <1>1, NoNewlineStep, EmptyLineStep, NextLineStep DEF Next

-----------------------------------------------------------------------------
(***************************************************************************)
(* In every state every variable has its type, and the cursor of           *)
(* conf_load_map_filter is in the map or just behind it.                   *)
(***************************************************************************)
THEOREM ParseTypes == Spec => []TypeOK
<1>1. IInv => TypeOK
  BY DEF IInv
<1> QED
  BY <1>1, InvInit, InvStep, PTL DEF Spec

(***************************************************************************)
(* Of a file of any length and any bytes, conf_load_map_filter has taken   *)
(* at any time what the lines in front of its cursor say, whatever empty   *)
(* lines, \0 and \r lie between them.                                      *)
(***************************************************************************)
THEOREM ParsesAsWritten == Spec => []AsWritten
<1>1. IInv => AsWritten
  BY DEF IInv
<1> QED
  BY <1>1, InvInit, InvStep, PTL DEF Spec
=============================================================================

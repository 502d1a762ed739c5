--------------------------- MODULE SpyFeedProofs ---------------------------
(***************************************************************************)
(* The proof that libspy implements LineFeed until the log is first        *)
(* truncated or removed, for every alphabet, set of threads, set of        *)
(* faults, length and number of incarnations of the file.                  *)
(***************************************************************************)
EXTENDS SpyFileProofs

Text1 == disk[1]

(***************************************************************************)
(* f..t is a line of s, and m + 1 .. f - 1 only holds newlines.            *)
(***************************************************************************)
IsLine(s, m, f, t) ==
  /\ m < f /\ f <= t /\ t < Len(s)
  /\ \A i \in (m + 1)..(f - 1) : s[i] = NL
  /\ \A i \in f..t : s[i] # NL
  /\ s[t + 1] = NL

\* The end of the n-th Spy_Line, and of what lies in front of the buffer.
Mark(n) == IF n = 0 THEN start ELSE Span(n)[2]
Base == Cursor - Len(readBuf)

(***************************************************************************)
(* The buffer is the text between Base and the cursor, which is inside the *)
(* file; between the last Spy_Line and the buffer there are only newlines; *)
(* every Spy_Line is the next line of the text after the one before.       *)
(***************************************************************************)
Appending ==
  /\ Cur = 1 /\ present
  /\ Cursor <= Size
  /\ \A i \in DOMAIN readBuf : readBuf[i] = <<1, Base + i>>
  /\ Mark(Len(lines)) \in Nat /\ Mark(Len(lines)) <= Base
  /\ \A i \in (Mark(Len(lines)) + 1)..Base : Text1[i] = NL
  /\ \A n \in DOMAIN lines :
       /\ Span(n)[1] \in Nat /\ Span(n)[2] \in Nat /\ Mark(n - 1) \in Nat
       /\ IsLine(Text1, Mark(n - 1), Span(n)[1], Span(n)[2])

FeedInv == Inv /\ Appending

(***************************************************************************)
(* Nothing of this is left once the file was truncated or removed.  That   *)
(* is never undone: it is not a first incarnation that is present again.   *)
(***************************************************************************)
Growing == Cur = 1 /\ present
GrowInv == Inv /\ (Growing => Appending)

-----------------------------------------------------------------------------
LEMMA FeedTypes ==
  ASSUME FeedInv
  PROVE  /\ Text1 \in Seq(Byte) /\ Size = Len(Text1) /\ Size \in Nat
         /\ start \in Nat /\ Cursor \in Nat /\ pollSize \in Nat
         /\ readBuf \in Seq(Ref) /\ Len(readBuf) \in Nat
         /\ DOMAIN readBuf = 1..Len(readBuf)
         /\ lines \in Seq(Line) /\ Len(lines) \in Nat
         /\ DOMAIN lines = 1..Len(lines)
         /\ Base \in Int /\ Base + Len(readBuf) = Cursor
  <1>1. disk[Cur] \in Seq(Byte) /\ Size \in Nat /\ Cur = 1
    BY DiskFacts DEF FeedInv, Inv, TypeInv, Appending
  <1>2. /\ start \in Nat /\ pollSize \in Nat /\ readBuf \in Seq(Ref)
        /\ lines \in Seq(Line)
    BY DEF FeedInv, Inv, TypeInv, TypeOK
  <1>3. Cursor \in Nat
    BY <1>2 DEF Cursor, Extracting, FeedInv, Inv, TypeInv, Ownership
  <1>4. Text1 \in Seq(Byte) /\ Size = Len(Text1)
    BY <1>1 DEF Text1, Size
  <1>5. /\ Len(readBuf) \in Nat /\ DOMAIN readBuf = 1..Len(readBuf)
        /\ Len(lines) \in Nat /\ DOMAIN lines = 1..Len(lines)
    BY <1>2
  <1> QED  BY <1>1, <1>2, <1>3, <1>4, <1>5 DEF Base

LEMMA IsLineGrows ==
  ASSUME NEW s \in Seq(Byte), NEW b \in Byte, NEW m \in Nat, NEW f \in Nat, NEW t \in Nat,
         IsLine(s, m, f, t)
  PROVE  IsLine(Append(s, b), m, f, t)
  <1>1. /\ Len(Append(s, b)) = Len(s) + 1 /\ Len(s) \in Nat
        /\ \A i \in 1..Len(s) : Append(s, b)[i] = s[i]
    BY AppendFacts
  <1>2. /\ (m + 1)..(f - 1) \subseteq 1..Len(s) /\ f..t \subseteq 1..Len(s)
        /\ t + 1 \in 1..Len(s)
    BY <1>1 DEF IsLine
  <1> QED  BY <1>1, <1>2 DEF IsLine

(***************************************************************************)
(* The steps that touch neither the text nor the reading keep Appending.   *)
(***************************************************************************)
LEMMA AppendingKept ==
  ASSUME FeedInv, UNCHANGED <<disk, present, lines, readBuf, start>>,
         Cursor' = Cursor
  PROVE  Appending'
  <1>1. /\ Cur' = Cur /\ Size' = Size /\ Base' = Base /\ Text1' = Text1
    BY DEF Cur, Size, Base, Text1
  <1>2. Mark(Len(lines))' = Mark(Len(lines))
    BY DEF Mark, Span
  <1>3. \A n \in DOMAIN lines : Mark(n - 1)' = Mark(n - 1) /\ Span(n)' = Span(n)
    BY DEF Mark, Span
  <1> QED  BY <1>1, <1>2, <1>3 DEF FeedInv, Appending, IsLine

LEMMA WriteAppending ==
  ASSUME FeedInv, NEW b \in Byte, WriteByte(b)
  PROVE  Appending' /\ Text1' = Append(Text1, b)
  <1>0. /\ Text1 \in Seq(Byte) /\ Size = Len(Text1) /\ Size \in Nat
        /\ Cursor \in Nat /\ Len(lines) \in Nat /\ Base \in Int
        /\ Len(readBuf) \in Nat /\ Base + Len(readBuf) = Cursor
    BY FeedTypes
  <1>1. /\ disk' = [disk EXCEPT ![Cur] = Append(@, b)] /\ present' = present
        /\ UNCHANGED <<pc, pollSize, readNbr, readBuf, lines, start>>
    BY DEF WriteByte, pollVars, readVars, histVars
  <1>2. Cur = 1 /\ disk \in Seq(Seq(Byte)) /\ 1 \in DOMAIN disk
    BY DiskFacts DEF FeedInv, Appending, Inv, TypeInv, TypeOK
  <1>3. Append(Text1, b) \in Seq(Byte)
    BY <1>0, AppendFacts
  <1>4. Text1' = Append(Text1, b) /\ Cur' = 1
    <2>1. disk' = [disk EXCEPT ![1] = Append(Text1, b)]
      BY <1>1, <1>2 DEF Text1
    <2>2. Len(disk') = Len(disk) /\ disk'[1] = Append(Text1, b)
      BY <2>1, <1>2, <1>3
    <2> QED  BY <2>2, <1>2 DEF Text1, Cur
  <1>5. /\ Len(Append(Text1, b)) = Size + 1
        /\ \A i \in 1..Size : Append(Text1, b)[i] = Text1[i]
    BY <1>0, AppendFacts
  <1>6. Size' = Size + 1
    BY <1>4, <1>5 DEF Size, Text1
  <1>7. Cursor' = Cursor /\ Base' = Base
    BY <1>1 DEF Cursor, Extracting, Base
  <1>8. /\ \A n \in DOMAIN lines : Mark(n - 1)' = Mark(n - 1) /\ Span(n)' = Span(n)
        /\ Mark(Len(lines))' = Mark(Len(lines))
    BY <1>1 DEF Mark, Span
  <1>9. \A n \in DOMAIN lines :
          IsLine(Append(Text1, b), Mark(n - 1), Span(n)[1], Span(n)[2])
    BY <1>0, IsLineGrows DEF FeedInv, Appending
  <1>10. \A i \in (Mark(Len(lines)) + 1)..Base : Append(Text1, b)[i] = NL
    <2>1. Base <= Size /\ Mark(Len(lines)) \in Nat
      BY <1>0 DEF FeedInv, Appending
    <2>2. \A i \in (Mark(Len(lines)) + 1)..Base : i \in 1..Size
      BY <2>1, <1>0
    <2> QED  BY <2>2, <1>5 DEF FeedInv, Appending
  <1>11. Cursor <= Size + 1
    BY <1>0 DEF FeedInv, Appending
  <1>12. \A n \in DOMAIN lines :
           /\ Span(n)'[1] \in Nat /\ Span(n)'[2] \in Nat /\ Mark(n - 1)' \in Nat
           /\ IsLine(Text1', Mark(n - 1)', Span(n)'[1], Span(n)'[2])
    BY <1>4, <1>8, <1>9 DEF FeedInv, Appending
  <1>13. /\ Mark(Len(lines))' \in Nat /\ Mark(Len(lines))' <= Base'
         /\ \A i \in (Mark(Len(lines))' + 1)..Base' : Text1'[i] = NL
    BY <1>4, <1>7, <1>8, <1>10 DEF FeedInv, Appending
  <1>14. \A i \in DOMAIN readBuf' : readBuf'[i] = <<1, Base' + i>>
    BY <1>1, <1>7 DEF FeedInv, Appending
  <1>15. present'
    BY <1>1 DEF FeedInv, Appending
  <1>16. Appending'
    BY <1>1, <1>4, <1>6, <1>7, <1>11, <1>12, <1>13, <1>14, <1>15 DEF Appending, IsLine
  <1> QED  BY <1>4, <1>16

LEMMA MainLoopAppending ==
  ASSUME FeedInv, MainLoop
  PROVE  Appending'
  <1>0. /\ pollSize \in Nat /\ Size \in Nat /\ Cursor <= Size
        /\ pc \in [Threads -> {"idle", "open", "extract"}]
    BY FeedTypes DEF FeedInv, Appending, Inv, TypeInv, TypeOK
  <1>1. UNCHANGED <<disk, present, lines, readBuf, start>>
    BY DEF MainLoop, TimerPoll, Dispatch, JobPoll, LineEvent, LineCall, EndCall,
       Pause, Resume, Poll, PollSkip, PollTruncatedToNothing, PollStartThread,
       fileVars, readVars, histVars
  <1>2. CASE Poll
    <2>1. CASE PollSkip
      <3>1. UNCHANGED <<pc, pollSize, readNbr>>
        BY <2>1 DEF PollSkip, pollVars, readVars
      <3>2. Cursor' = Cursor
        BY <3>1 DEF Cursor, Extracting
      <3> QED  BY <1>1, <3>2, AppendingKept
    <2>2. CASE PollTruncatedToNothing \/ PollStartThread
      <3>1. ~NothingToDo
        BY <2>2 DEF PollTruncatedToNothing, PollStartThread
      <3>2. \A t \in Threads : pc[t] = "idle"
        BY <3>1, <1>0 DEF NothingToDo, FeedInv, Inv, TypeInv, Ownership,
           OneReader, Busy
      <3>3. Cursor = pollSize
        BY <3>2 DEF Cursor, Extracting
      <3>4. ~(pollSize > Size)
        BY <3>3, <1>0
      <3>5. pollSize' = pollSize
        BY <2>2, <3>4 DEF PollTruncatedToNothing, PollStartThread, StartOffset
      <3>6. \A t \in Threads : pc'[t] # "extract"
        BY <2>2, <3>2, <1>0 DEF PollTruncatedToNothing, PollStartThread
      <3>7. Cursor' = Cursor
        BY <3>3, <3>5, <3>6 DEF Cursor, Extracting
      <3> QED  BY <1>1, <3>7, AppendingKept
    <2> QED  BY <1>2, <2>1, <2>2 DEF Poll
  <1>3. CASE LineCall \/ EndCall \/ LineEvent \/ Pause \/ Resume
    <2>1. UNCHANGED <<pc, pollSize, readNbr>>
      BY <1>3 DEF LineCall, EndCall, LineEvent, Pause, Resume, pollVars, readVars
    <2>2. Cursor' = Cursor
      BY <2>1 DEF Cursor, Extracting
    <2> QED  BY <1>1, <2>2, AppendingKept
  <1> QED  BY <1>2, <1>3 DEF MainLoop, TimerPoll, Dispatch, JobPoll

-----------------------------------------------------------------------------
(***************************************************************************)
(* The steps of the thread that change the buffer.                         *)
(***************************************************************************)
LEMMA BufferAppending ==
  ASSUME FeedInv, UNCHANGED <<disk, present, lines, start>>,
         Cursor' <= Size, Base' \in Int, Base <= Base',
         \A i \in (Base + 1)..Base' : Text1[i] = NL,
         \A i \in DOMAIN readBuf' : readBuf'[i] = <<1, Base' + i>>
  PROVE  Appending'
  <1>0. Base \in Int
    BY FeedTypes
  <1>1. Cur' = Cur /\ Size' = Size /\ Text1' = Text1
    BY DEF Cur, Size, Text1
  <1>2. /\ Mark(Len(lines))' = Mark(Len(lines))
        /\ \A n \in DOMAIN lines : Mark(n - 1)' = Mark(n - 1) /\ Span(n)' = Span(n)
    BY DEF Mark, Span
  <1>3. /\ Mark(Len(lines)) \in Nat /\ Mark(Len(lines)) <= Base
        /\ \A i \in (Mark(Len(lines)) + 1)..Base : Text1[i] = NL
    BY DEF FeedInv, Appending
  <1>4. /\ Mark(Len(lines)) <= Base'
        /\ \A i \in (Mark(Len(lines)) + 1)..Base' : Text1[i] = NL
    BY <1>0, <1>3
  <1> QED  BY <1>1, <1>2, <1>3, <1>4 DEF FeedInv, Appending, IsLine

LEMMA ReadChunkAppending ==
  ASSUME FeedInv, NEW t \in Threads, ReadChunk(t)
  PROVE  Appending'
  <1>0. /\ Size \in Nat /\ Cursor \in Nat /\ Base \in Int /\ readBuf \in Seq(Ref)
        /\ Len(readBuf) \in Nat /\ Base + Len(readBuf) = Cursor /\ Cur = 1
        /\ Cursor <= Size /\ readOffset \in Nat
    BY FeedTypes DEF FeedInv, Appending, Inv, TypeInv, TypeOK
  <1>1. /\ pc[t] = "open" /\ pc' = [pc EXCEPT ![t] = "extract"]
        /\ readNbr' = Available /\ readBuf' = readBuf \o Chunk
        /\ UNCHANGED <<disk, present, pollSize, lines, start>>
    BY DEF ReadChunk, Chunk, fileVars, pollVars, histVars
  <1>2. /\ \A u \in Threads \ {t} : pc[u] = "idle"
        /\ pc \in [Threads -> {"idle", "open", "extract"}]
    BY Alone DEF Reader, FeedInv, Inv
  <1>3. /\ Available \in Nat /\ Available > 0 => readOffset + Available <= Size
        /\ Chunk \in Seq(Ref) /\ Len(Chunk) = Available
        /\ \A i \in 1..Available : Chunk[i] = <<Cur, readOffset + i>>
    BY ChunkFacts DEF FeedInv, Inv, TypeInv
  <1>4. Cursor = readOffset /\ Cursor' = readOffset + Available
    <2>1. readOffset = pollSize
      BY <1>1 DEF FeedInv, Inv, Placed
    <2>2. ~Extracting /\ Extracting'
      BY <1>1, <1>2 DEF Extracting
    <2> QED  BY <1>1, <2>1, <2>2 DEF Cursor
  <1>5. /\ readBuf \o Chunk \in Seq(Ref)
        /\ Len(readBuf \o Chunk) = Len(readBuf) + Available
        /\ \A i \in 1..(Len(readBuf) + Available) :
              (readBuf \o Chunk)[i] = IF i <= Len(readBuf) THEN readBuf[i]
                                      ELSE Chunk[i - Len(readBuf)]
    BY <1>0, <1>3, ConcatProperties
  <1>6. Base' = Base
    BY <1>0, <1>1, <1>3, <1>4, <1>5 DEF Base
  <1>7. ASSUME NEW i \in DOMAIN readBuf'
        PROVE  readBuf'[i] = <<1, Base + i>>
    <2>1. i \in 1..(Len(readBuf) + Available)
      BY <1>1, <1>5
    <2>2. CASE i <= Len(readBuf)
      <3>1. i \in DOMAIN readBuf /\ readBuf'[i] = readBuf[i]
        BY <2>1, <2>2, <1>0, <1>1, <1>3, <1>5
      <3> QED  BY <3>1 DEF FeedInv, Appending
    <2>3. CASE ~(i <= Len(readBuf))
      <3>1. i - Len(readBuf) \in 1..Available
        BY <2>1, <2>3, <1>0, <1>3
      <3>2. readBuf'[i] = <<1, readOffset + (i - Len(readBuf))>>
        BY <2>1, <2>3, <3>1, <1>0, <1>1, <1>3, <1>5
      <3>3. readOffset + (i - Len(readBuf)) = Base + i
        BY <1>0, <1>3, <1>4, <2>1
      <3> QED  BY <3>2, <3>3
    <2> QED  BY <2>2, <2>3
  <1>8. Cursor' <= Size
    BY <1>0, <1>3, <1>4
  <1>9. Base \in Int /\ Base <= Base /\ \A i \in (Base + 1)..Base : Text1[i] = NL
    BY <1>0
  <1> QED  BY <1>1, <1>6, <1>7, <1>8, <1>9, BufferAppending

LEMMA SkipNewlineAppending ==
  ASSUME FeedInv, NEW t \in Threads, SkipNewline(t)
  PROVE  Appending'
  <1>0. /\ Size \in Nat /\ Cursor \in Nat /\ Base \in Int /\ readBuf \in Seq(Ref)
        /\ Len(readBuf) \in Nat /\ Base + Len(readBuf) = Cursor
        /\ Cursor <= Size
    BY FeedTypes DEF FeedInv, Appending
  <1>1. /\ readBuf' = Tail(readBuf) /\ 1 \in DOMAIN readBuf /\ At(readBuf[1]) = NL
        /\ UNCHANGED <<disk, present, pc, pollSize, readNbr, lines, start>>
    BY DEF SkipNewline, NewlineAt, fileVars, pollVars, histVars
  <1>2. /\ Len(readBuf') = Len(readBuf) - 1
        /\ \A i \in DOMAIN readBuf' : /\ i + 1 \in DOMAIN readBuf /\ i \in Nat
                                     /\ readBuf'[i] = readBuf[i + 1]
    BY <1>0, <1>1, TailFacts
  <1>3. Cursor' = Cursor
    BY <1>1 DEF Cursor, Extracting
  <1>4. Base' = Base + 1
    BY <1>0, <1>2, <1>3 DEF Base
  <1>5. Text1[Base + 1] = NL
    <2>1. readBuf[1] = <<1, Base + 1>>
      BY <1>1 DEF FeedInv, Appending
    <2> QED  BY <2>1, <1>1 DEF At, Text1
  <1>6. ASSUME NEW i \in DOMAIN readBuf'
        PROVE  readBuf'[i] = <<1, Base' + i>>
    <2>1. readBuf'[i] = <<1, Base + (i + 1)>>
      BY <1>2 DEF FeedInv, Appending
    <2>2. Base + (i + 1) = Base' + i
      BY <1>0, <1>2, <1>4
    <2> QED  BY <2>1, <2>2
  <1>7. \A i \in (Base + 1)..Base' : Text1[i] = NL
    BY <1>0, <1>4, <1>5
  <1> QED  BY <1>0, <1>1, <1>3, <1>4, <1>6, <1>7, BufferAppending

LEMMA PostLineAppending ==
  ASSUME FeedInv, NEW t \in Threads, PostLine(t)
  PROVE  Appending'
  <1>0. /\ Size \in Nat /\ Cursor \in Nat /\ Base \in Int /\ readBuf \in Seq(Ref)
        /\ Len(readBuf) \in Nat /\ Base + Len(readBuf) = Cursor
        /\ Cursor <= Size /\ Size = Len(Text1)
        /\ lines \in Seq(Line) /\ Len(lines) \in Nat /\ DOMAIN lines = 1..Len(lines)
        /\ DOMAIN readBuf = 1..Len(readBuf)
    BY FeedTypes DEF FeedInv, Appending
  <1>1. PICK p \in DOMAIN readBuf :
          /\ NewlineAt(p) /\ p > 1
          /\ lines' = Append(lines, SubSeq(readBuf, 1, p - 1))
          /\ readBuf' = SubSeq(readBuf, p, Len(readBuf))
    BY DEF PostLine
  <1>2. UNCHANGED <<disk, present, pc, pollSize, readNbr, start>>
    BY DEF PostLine, fileVars, pollVars
  <1> DEFINE line == SubSeq(readBuf, 1, p - 1)
             first == Base + 1
             last == Base + p - 1
  <1>3. /\ p \in Nat /\ p <= Len(readBuf) /\ line \in Line /\ Len(line) = p - 1
        /\ line[1] = readBuf[1] /\ line[p - 1] = readBuf[p - 1]
        /\ readBuf' \in Seq(Ref) /\ Len(readBuf') = Len(readBuf) - p + 1
        /\ \A i \in 1..(Len(readBuf) - p + 1) : readBuf'[i] = readBuf[p + i - 1]
    <2>1. /\ p \in Nat \ {0} /\ 1 \in 1..(p - 1) /\ p - 1 \in 1..(p - 1)
      BY <1>0, <1>1
    <2> QED  BY <2>1, <1>0, <1>1, CutFacts DEF Line
  <1>4. \A q \in 1..p : readBuf[q] = <<1, Base + q>>
    <2>1. \A q \in 1..p : q \in DOMAIN readBuf
      BY <1>0, <1>3
    <2> QED  BY <2>1 DEF FeedInv, Appending
  <1>5. \A q \in 1..p : At(readBuf[q]) = Text1[Base + q]
    BY <1>4 DEF At, Text1
  <1>6. Text1[Base + p] = NL /\ \A q \in 1..(p - 1) : Text1[Base + q] # NL
    <2>1. At(readBuf[p]) = NL /\ \A q \in 1..(p - 1) : At(readBuf[q]) # NL
      BY <1>1 DEF NewlineAt
    <2>2. p \in 1..p /\ \A q \in 1..(p - 1) : q \in 1..p
      BY <1>1, <1>3
    <2> QED  BY <2>1, <2>2, <1>5
  <1>7. line[1][2] = first /\ line[p - 1][2] = last
    <2>1. 1 \in 1..p /\ p - 1 \in 1..p /\ Base + (p - 1) = Base + p - 1
      BY <1>0, <1>1, <1>3
    <2>2. readBuf[1] = <<1, Base + 1>> /\ readBuf[p - 1] = <<1, Base + (p - 1)>>
      BY <2>1, <1>4
    <2>3. line[1] = <<1, Base + 1>> /\ line[p - 1] = <<1, Base + p - 1>>
      BY <2>1, <2>2, <1>3
    <2> HIDE DEF line
    <2> QED  BY <2>3
  <1>7a. PICK new \in Nat : new = Len(lines) + 1
    BY <1>0
  <1>8. /\ Len(lines') = new /\ DOMAIN lines' = 1..new /\ lines'[new] = line
        /\ \A n \in DOMAIN lines : lines'[n] = lines[n]
    BY <1>0, <1>1, <1>3, <1>7a, AppendFacts
  <1> HIDE DEF line, first, last
  <1>9. Span(new)' = <<first, last>>
    BY <1>3, <1>7, <1>8 DEF Span
  <1>10. \A n \in DOMAIN lines : Span(n)' = Span(n) /\ Mark(n - 1)' = Mark(n - 1)
    <2>1. ASSUME NEW n \in DOMAIN lines PROVE Span(n)' = Span(n)
      BY <1>8 DEF Span
    <2>2. ASSUME NEW n \in DOMAIN lines PROVE Mark(n - 1)' = Mark(n - 1)
      <3>1. n - 1 = 0 \/ n - 1 \in DOMAIN lines
        BY <1>0
      <3> QED  BY <1>2, <2>1, <3>1 DEF Mark
    <2> QED  BY <2>1, <2>2
  <1>11. Mark(new - 1)' = Mark(Len(lines))
    BY <1>0, <1>2, <1>8, <1>7a DEF Span, Mark
  <1>12. Mark(Len(lines))' = last
    BY <1>0, <1>8, <1>9, <1>7a DEF Mark
  <1>13. /\ Cursor' = Cursor /\ Cur' = Cur /\ Size' = Size /\ Text1' = Text1
    BY <1>2 DEF Cursor, Extracting, Cur, Size, Text1
  <1>14. Base' = last
    BY <1>0, <1>3, <1>13 DEF Base, last
  <1>15. /\ Mark(Len(lines)) \in Nat /\ Mark(Len(lines)) <= Base
         /\ \A i \in (Mark(Len(lines)) + 1)..Base : Text1[i] = NL
    BY DEF FeedInv, Appending
  <1>16. /\ first \in Nat /\ last \in Nat /\ first <= last /\ last + 1 <= Cursor
    BY <1>0, <1>1, <1>3, <1>15 DEF first, last
  <1>17. IsLine(Text1, Mark(Len(lines)), first, last)
    <2>1. Mark(Len(lines)) < first /\ first <= last /\ last < Len(Text1)
      BY <1>0, <1>15, <1>16 DEF first
    <2>2. \A i \in (Mark(Len(lines)) + 1)..(first - 1) : Text1[i] = NL
      BY <1>0, <1>15 DEF first
    <2>3. ASSUME NEW i \in first..last PROVE Text1[i] # NL
      <3>1. i - Base \in 1..(p - 1) /\ Base + (i - Base) = i
        BY <1>0, <1>3 DEF first, last
      <3> QED  BY <3>1, <1>6
    <2>4. Text1[last + 1] = NL
      <3>1. last + 1 = Base + p
        BY <1>0, <1>3 DEF last
      <3> QED  BY <3>1, <1>6
    <2> QED  BY <2>1, <2>2, <2>3, <2>4 DEF IsLine
  <1>18. ASSUME NEW i \in DOMAIN readBuf'
         PROVE  readBuf'[i] = <<1, Base' + i>>
    <2>1. i \in 1..(Len(readBuf) - p + 1)
      BY <1>3
    <2>2. p + i - 1 \in DOMAIN readBuf /\ readBuf'[i] = readBuf[p + i - 1]
      BY <2>1, <1>0, <1>3
    <2>3. readBuf'[i] = <<1, Base + (p + i - 1)>>
      BY <2>2 DEF FeedInv, Appending
    <2>4. Base + (p + i - 1) = Base' + i
      <3>1. Base' = Base + p - 1
        BY <1>14 DEF last
      <3>2. Base \in Int /\ p \in Int /\ i \in Int
        BY <1>0, <1>3, <2>1
      <3> QED  BY <3>1, <3>2
    <2> QED  BY <2>3, <2>4
  <1>19. ASSUME NEW n \in DOMAIN lines'
         PROVE  /\ Span(n)'[1] \in Nat /\ Span(n)'[2] \in Nat /\ Mark(n - 1)' \in Nat
                /\ IsLine(Text1, Mark(n - 1)', Span(n)'[1], Span(n)'[2])
    <2>1. CASE n \in DOMAIN lines
      BY <2>1, <1>10 DEF FeedInv, Appending
    <2>2. CASE n = new
      BY <2>2, <1>9, <1>11, <1>15, <1>16, <1>17
    <2> QED  BY <2>1, <2>2, <1>0, <1>8, <1>7a
  <1>20. \A i \in (last + 1)..last : Text1[i] = NL
    BY <1>16
  <1>21. last <= last
    BY <1>16
  <1>22. Cur = 1 /\ present /\ Cursor <= Size
    BY DEF FeedInv, Appending
  <1>23. /\ Mark(Len(lines))' \in Nat /\ Mark(Len(lines))' <= Base'
         /\ \A i \in (Mark(Len(lines))' + 1)..Base' : Text1[i] = NL
    BY <1>12, <1>14, <1>16, <1>20, <1>21
  <1> QED  BY <1>2, <1>13, <1>18, <1>19, <1>22, <1>23 DEF Appending, IsLine

LEMMA ReaderAppending ==
  ASSUME FeedInv, NEW t \in Threads, Reader(t)
  PROVE  Appending'
  <1>0. /\ \A u \in Threads \ {t} : pc[u] = "idle"
        /\ pc \in [Threads -> {"idle", "open", "extract"}]
    BY Alone DEF FeedInv, Inv
  <1>1. CASE ReadFails(t)
    <2>1. /\ pc' = [pc EXCEPT ![t] = "idle"] /\ pc[t] = "open"
          /\ UNCHANGED <<disk, present, lines, readBuf, start, pollSize>>
      BY <1>1 DEF ReadFails, fileVars, pollVars, histVars
    <2>2. ~Extracting /\ ~Extracting'
      BY <1>0, <2>1 DEF Extracting
    <2>3. Cursor' = Cursor
      BY <2>1, <2>2 DEF Cursor
    <2> QED  BY <2>1, <2>3, AppendingKept
  <1>2. CASE ReadDone(t) \/ NoMemory(t)
    <2>1. /\ pc' = [pc EXCEPT ![t] = "idle"] /\ pc[t] = "extract"
          /\ pollSize' = pollSize + readNbr
          /\ UNCHANGED <<disk, present, lines, readBuf, start>>
      BY <1>2 DEF ReadDone, NoMemory, ReturnFromThread, fileVars, readVars, histVars
    <2>2. Extracting /\ ~Extracting'
      BY <1>0, <2>1 DEF Extracting
    <2>3. Cursor' = Cursor
      BY <2>1, <2>2 DEF Cursor
    <2> QED  BY <2>1, <2>3, AppendingKept
  <1> QED  BY <1>1, <1>2, ReadChunkAppending, SkipNewlineAppending,
              PostLineAppending DEF Reader

-----------------------------------------------------------------------------
LEMMA FeedInvInit == Init => FeedInv
  <1> SUFFICES ASSUME Init PROVE FeedInv  OBVIOUS
  <1>1. Inv
    BY TypeInit, OrderInit DEF Inv
  <1>2. /\ lines = <<>> /\ readBuf = <<>> /\ present = TRUE
        /\ pollSize = start /\ start = Size /\ \A t \in Threads : pc[t] = "idle"
    BY DEF Init
  <1>3. Cur = 1
    BY DEF Init, Cur
  <1>4. Size \in Nat
    BY <1>1, DiskFacts DEF Inv, TypeInv
  <1>5. Cursor = start /\ Base = start /\ Mark(Len(lines)) = start
    <2>1. Cursor = start
      BY <1>2 DEF Cursor, Extracting
    <2> QED  BY <2>1, <1>2, <1>4 DEF Base, Mark
  <1>6. Appending
    BY <1>2, <1>3, <1>4, <1>5 DEF Appending
  <1> QED  BY <1>1, <1>6 DEF FeedInv

LEMMA StillGrowing ==
  ASSUME TypeInv, [Next]_vars, Growing'
  PROVE  /\ Growing
         /\ Environment => \E b \in Byte : WriteByte(b)
  <1>0. disk \in Seq(Seq(Byte)) /\ Cur \in Nat /\ Cur >= 1
    BY DEF TypeInv, TypeOK, Cur
  <1>1. CASE Environment
    <2>1. CASE \E b \in Byte : WriteByte(b)
      <3>1. present /\ Cur' = Cur
        BY <2>1, <1>0, DiskFacts DEF WriteByte, Cur
      <3> QED  BY <2>1, <3>1 DEF Growing
    <2>2. CASE Truncate \/ Create
      <3>1. disk' = Append(disk, <<>>) /\ <<>> \in Seq(Byte)
        BY <2>2 DEF Truncate, Create
      <3>2. Cur' = Cur + 1
        BY <3>1, <1>0, AppendFacts DEF Cur
      <3> QED  BY <3>2, <1>0 DEF Growing
    <2>3. CASE Remove
      BY <2>3 DEF Remove, Growing
    <2> QED  BY <1>1, <2>1, <2>2, <2>3 DEF Environment
  <1>2. CASE ~Environment
    <2>1. UNCHANGED <<disk, present>>
      BY <1>2 DEF Next, MainLoop, TimerPoll, Dispatch, JobPoll, LineEvent, LineCall,
         EndCall, Pause, Resume, Reader, ReadChunk, ReadFails, SkipNewline, PostLine,
         ReadDone, NoMemory, ReturnFromThread, vars, fileVars
    <2> QED  BY <1>2, <2>1 DEF Growing, Cur
  <1> QED  BY <1>1, <1>2

LEMMA FeedInvStep ==
  ASSUME FeedInv, [Next]_vars, Growing'
  PROVE  FeedInv'
  <1>1. Inv'
    BY InvStep DEF FeedInv
  <1>2. CASE Environment
    <2>1. PICK b \in Byte : WriteByte(b)
      BY <1>2, StillGrowing DEF FeedInv, Inv
    <2> QED  BY <1>1, <2>1, WriteAppending DEF FeedInv
  <1>3. CASE MainLoop
    BY <1>1, <1>3, MainLoopAppending DEF FeedInv
  <1>4. CASE \E t \in Threads : Reader(t)
    BY <1>1, <1>4, ReaderAppending DEF FeedInv
  <1>5. CASE UNCHANGED vars
    <2>1. UNCHANGED <<disk, present, lines, readBuf, start, pc, pollSize, readNbr>>
      BY <1>5 DEF vars, fileVars, pollVars, readVars, histVars
    <2>2. Cursor' = Cursor
      BY <2>1 DEF Cursor, Extracting
    <2> QED  BY <1>1, <2>1, <2>2, AppendingKept DEF FeedInv
  <1> QED  BY <1>2, <1>3, <1>4, <1>5 DEF Next

(***************************************************************************)
(* The refinement mapping of SpyFile, by name.                             *)
(***************************************************************************)
feedMark == IF delivered = <<>> THEN start ELSE Span(delivered[Len(delivered)])[2]
feedOut  == [n \in DOMAIN delivered |-> Span(delivered[n])]

LEMMA FeedMarkFacts ==
  ASSUME FeedInv
  PROVE  /\ feedMark = Mark(Len(delivered))
         /\ Len(delivered) \in Nat /\ DOMAIN delivered = 1..Len(delivered)
         /\ \A n \in DOMAIN delivered : delivered[n] = n
  <1>1. /\ delivered \in Seq(Nat) /\ Len(delivered) \in Nat
        /\ DOMAIN delivered = 1..Len(delivered)
        /\ \A n \in DOMAIN delivered : delivered[n] = n
    BY DEF FeedInv, Inv, TypeInv, TypeOK, InFlight
  <1>2. CASE delivered = <<>>
    BY <1>1, <1>2 DEF feedMark, Mark
  <1>3. CASE delivered # <<>>
    <2>1. Len(delivered) \in DOMAIN delivered /\ Len(delivered) # 0
      BY <1>1, <1>3
    <2> QED  BY <1>1, <1>3, <2>1 DEF feedMark, Mark
  <1> QED  BY <1>1, <1>2, <1>3

(***************************************************************************)
(* The delivery of a Spy_Line is a Report: it is the next line of the text *)
(* after the last one delivered.                                           *)
(***************************************************************************)
LEMMA LineEventReports ==
  ASSUME FeedInv, LineEvent
  PROVE  /\ Text1' = Text1
         /\ \E f, t \in 1..Len(Text1) :
              /\ IsLine(Text1, feedMark, f, t)
              /\ feedMark' = t /\ feedOut' = Append(feedOut, <<f, t>>)
  <1>1. /\ events # <<>> /\ events' = Tail(events) /\ Head(events) # Job
        /\ delivered' = Append(delivered, Head(events))
        /\ UNCHANGED <<disk, calls, lines, start>>
    BY DEF LineEvent, fileVars
  <1>2. /\ feedMark = Mark(Len(delivered))
        /\ Len(delivered) \in Nat /\ DOMAIN delivered = 1..Len(delivered)
        /\ \A n \in DOMAIN delivered : delivered[n] = n
    BY FeedMarkFacts
  <1>3. Head(events) = Len(delivered) + 1 /\ Head(events) \in DOMAIN lines
    <2>1. QueueTypes /\ InFlight
      BY DEF FeedInv, Inv, TypeInv, TypeOK, QueueTypes
    <2> QED  BY <2>1, <1>1, EventTaken
  <1>4. PICK k \in DOMAIN lines : k = Head(events) /\ k = Len(delivered) + 1
    BY <1>3
  <1>5. PICK f \in Nat, t \in Nat : f = Span(k)[1] /\ t = Span(k)[2]
    BY DEF FeedInv, Appending
  <1>6. IsLine(Text1, feedMark, f, t) /\ feedMark \in Nat
    <2>1. k - 1 = Len(delivered)
      BY <1>2, <1>4
    <2> QED  BY <2>1, <1>2, <1>5 DEF FeedInv, Appending
  <1>7. f \in 1..Len(Text1) /\ t \in 1..Len(Text1)
    <2>1. Len(Text1) \in Nat
      BY FeedTypes
    <2> QED  BY <2>1, <1>6 DEF IsLine
  <1>8. Span(k) = <<f, t>>
    BY <1>5 DEF Span
  <1>9. /\ delivered' # <<>> /\ Len(delivered') = k
        /\ DOMAIN delivered' = 1..k /\ delivered'[k] = k
        /\ \A n \in 1..Len(delivered) : delivered'[n] = delivered[n]
    <2>1. delivered \in Seq(Nat) /\ k \in Nat /\ delivered' = Append(delivered, k)
      BY <1>1, <1>2, <1>4 DEF FeedInv, Inv, TypeInv, TypeOK
    <2>2. /\ Len(delivered') = k /\ DOMAIN delivered' = 1..k /\ delivered'[k] = k
          /\ \A n \in 1..Len(delivered) : delivered'[n] = delivered[n]
      BY <2>1, <1>4, AppendFacts
    <2>3. delivered' # <<>>
      BY <2>1, <2>2, <1>2, <1>4
    <2> QED  BY <2>2, <2>3
  <1>10. \A n \in DOMAIN delivered : Span(n)' = Span(n)
    BY <1>1 DEF Span
  <1>11. feedMark' = t
    <2>1. Span(k)' = <<f, t>>
      BY <1>1, <1>8 DEF Span
    <2>2. feedMark' = lines'[k][Len(lines'[k])][2]
      BY <1>9 DEF feedMark, Span
    <2> QED  BY <2>1, <2>2 DEF Span
  <1>12. feedOut' = Append(feedOut, <<f, t>>)
    <2> DEFINE S == Nat \X Nat
               L == Len(delivered)
    <2>1. \A n \in 1..L : Span(n) \in S
      <3>1. L <= Len(lines) /\ DOMAIN lines = 1..Len(lines) /\ Len(lines) \in Nat
        BY FeedTypes DEF FeedInv, Inv, InFlight
      <3>2. \A n \in 1..L : n \in DOMAIN lines
        BY <3>1, <1>2
      <3> QED  BY <3>2 DEF FeedInv, Appending, Span
    <2>2. /\ feedOut \in Seq(S) /\ Len(feedOut) = L
          /\ \A n \in 1..L : feedOut[n] = Span(n)
      <3>1. feedOut = [n \in 1..L |-> Span(n)]
        BY <1>2 DEF feedOut
      <3>2. feedOut \in [1..L -> S]
        BY <2>1, <3>1
      <3> QED  BY <1>2, <3>1, <3>2
    <2>3. /\ Append(feedOut, <<f, t>>) \in Seq(S)
          /\ Len(Append(feedOut, <<f, t>>)) = k
          /\ \A n \in 1..L : Append(feedOut, <<f, t>>)[n] = Span(n)
          /\ Append(feedOut, <<f, t>>)[k] = <<f, t>>
      <3>1. <<f, t>> \in S
        OBVIOUS
      <3>2. /\ Append(feedOut, <<f, t>>) \in Seq(S)
            /\ Len(Append(feedOut, <<f, t>>)) = Len(feedOut) + 1
            /\ \A n \in 1..Len(feedOut) : Append(feedOut, <<f, t>>)[n] = feedOut[n]
            /\ Append(feedOut, <<f, t>>)[Len(feedOut) + 1] = <<f, t>>
        BY <2>2, <3>1, AppendFacts
      <3> QED  BY <3>2, <2>2, <1>4
    <2>4. /\ DOMAIN feedOut' = 1..k
          /\ \A n \in 1..L : feedOut'[n] = Span(n)
          /\ feedOut'[k] = <<f, t>>
      <3>1. feedOut' = [n \in 1..k |-> Span(delivered[n])']
        BY <1>9 DEF feedOut, Span
      <3>2. \A n \in 1..L : n \in 1..k /\ delivered'[n] = n
        BY <1>2, <1>4, <1>9
      <3>3. k \in 1..k
        BY <1>2, <1>4
      <3>4. \A n \in 1..L : feedOut'[n] = Span(n)
        BY <3>1, <3>2, <1>1 DEF Span
      <3>5. feedOut'[k] = Span(k)
        BY <3>1, <3>3, <1>1, <1>9 DEF Span
      <3> QED  BY <3>1, <3>4, <3>5, <1>8
    <2>5. \A n \in 1..k : feedOut'[n] = Append(feedOut, <<f, t>>)[n]
      <3>1. \A n \in 1..k : n \in 1..L \/ n = k
        BY <1>2, <1>4
      <3> QED  BY <3>1, <2>3, <2>4
    <2>6. DOMAIN Append(feedOut, <<f, t>>) = 1..k
      BY <2>3
    <2>7. Append(feedOut, <<f, t>>) = [n \in 1..k |-> Append(feedOut, <<f, t>>)[n]]
      BY <2>3
    <2>8. feedOut' = [n \in 1..k |-> feedOut'[n]]
      BY <2>4 DEF feedOut
    <2> QED  BY <2>5, <2>7, <2>8
  <1>13. Text1' = Text1
    BY <1>1 DEF Text1
  <1> QED  BY <1>6, <1>7, <1>11, <1>12, <1>13

LEMMA GrowInvStep ==
  ASSUME GrowInv, [Next]_vars
  PROVE  GrowInv'
  <1>1. Inv'
    BY InvStep DEF GrowInv
  <1>2. ASSUME Growing' PROVE Appending'
    <2>1. FeedInv
      BY <1>2, StillGrowing DEF GrowInv, FeedInv, Inv
    <2> QED  BY <1>2, <2>1, FeedInvStep DEF FeedInv
  <1> QED  BY <1>1, <1>2 DEF GrowInv

LEMMA FeedSafetyStep ==
  ASSUME FeedInv, [Next]_vars, Growing'
  PROVE  [Feed!FeedNext]_(Feed!feedVars)
  <1>1. ASSUME UNCHANGED <<disk, delivered, lines, start>>
        PROVE  UNCHANGED Feed!feedVars
    BY <1>1 DEF Feed!feedVars, Span
  <1>2. CASE Environment
    <2>2. PICK b \in Byte : WriteByte(b)
      BY <1>2, StillGrowing DEF FeedInv, Inv
    <2>3. disk[1]' = Append(disk[1], b)
      BY <2>2, WriteAppending DEF Text1
    <2>4. UNCHANGED <<delivered, lines, start>>
      BY <2>2 DEF WriteByte, histVars
    <2>5. Feed!Write
      BY <2>3, <2>4 DEF Feed!Write, Span
    <2> QED  BY <2>5 DEF Feed!FeedNext
  <1>3. CASE LineEvent
    <2>1. /\ disk[1]' = disk[1]
          /\ \E f, t \in 1..Len(disk[1]) :
               /\ IsLine(disk[1], feedMark, f, t)
               /\ feedMark' = t /\ feedOut' = Append(feedOut, <<f, t>>)
      BY <1>3, LineEventReports DEF Text1
    <2>2. Feed!Report
      BY <2>1 DEF Feed!Report, Feed!NextLine, IsLine, feedMark, feedOut
    <2> QED  BY <2>2 DEF Feed!FeedNext
  <1>4. CASE MainLoop /\ ~LineEvent
    BY <1>4, <1>1 DEF MainLoop, TimerPoll, Dispatch, JobPoll, LineCall, EndCall,
       Pause, Resume, fileVars, histVars
  <1>5. CASE \E t \in Threads : Reader(t)
    <2>1. PICK t \in Threads : Reader(t)
      BY <1>5
    <2>2. CASE PostLine(t)
      <3>1. PICK p \in DOMAIN readBuf : lines' = Append(lines, SubSeq(readBuf, 1, p - 1))
        BY <2>2 DEF PostLine
      <3>2. SubSeq(readBuf, 1, p - 1) \in Line /\ lines \in Seq(Line)
        BY CutFacts DEF FeedInv, Inv, TypeInv, TypeOK, Line
      <3>3. /\ \A n \in 1..Len(lines) : lines'[n] = lines[n]
            /\ Len(lines) \in Nat
        BY <3>1, <3>2, AppendFacts
      <3>4. UNCHANGED <<disk, delivered, start>>
        BY <2>2 DEF PostLine, fileVars
      <3>5. \A n \in DOMAIN delivered : delivered[n] \in 1..Len(lines)
        BY <3>3, FeedMarkFacts DEF FeedInv, Inv, InFlight
      <3>6. \A n \in DOMAIN delivered : lines'[delivered[n]] = lines[delivered[n]]
        BY <3>3, <3>5
      <3>7. delivered # <<>> => Len(delivered) \in DOMAIN delivered
        BY FeedMarkFacts DEF FeedInv, Inv, TypeInv, TypeOK
      <3> QED  BY <3>4, <3>6, <3>7 DEF Feed!feedVars, Span
    <2>3. CASE ~PostLine(t)
      BY <2>1, <2>3, <1>1 DEF Reader, ReadChunk, ReadFails, SkipNewline,
         ReadDone, NoMemory, ReturnFromThread, fileVars, histVars
    <2> QED  BY <2>2, <2>3
  <1>6. CASE UNCHANGED vars
    BY <1>6, <1>1 DEF vars, fileVars, histVars
  <1> QED  BY <1>2, <1>3, <1>4, <1>5, <1>6 DEF Next

LEMMA FeedSafetyInit == Init => Feed!FeedInit
  <1> SUFFICES ASSUME Init PROVE Feed!FeedInit  OBVIOUS
  <1>1. PICK s \in UNION {[1..n -> Byte] : n \in 0..MaxLen} : disk = <<s>>
    BY DEF Init
  <1>2. s \in Seq(Byte)
    BY SpyAssumption
  <1>3. disk[1] = s /\ start = Len(s)
    BY <1>1 DEF Init, Cur, Size
  <1>4. delivered = <<>>
    BY DEF Init
  <1> QED  BY <1>2, <1>3, <1>4 DEF Feed!FeedInit

(***************************************************************************)
(* Until its log is first truncated or removed, libspy implements          *)
(* LineFeed: each line it reports is the next complete line of the file,   *)
(* whole, with none left out, however the writers, the reading threads,    *)
(* the failures and the callbacks of the main loop interleave.             *)
(***************************************************************************)
THEOREM FeedRefinement == Spec => FeedSafety
  <1>1. Init => GrowInv
    BY FeedInvInit DEF FeedInv, GrowInv
  <1>2. GrowInv /\ [Next]_vars => GrowInv'
    BY GrowInvStep
  <1>3. GrowInv /\ [Next]_vars =>
          [(Cur = 1 /\ present)' => Feed!FeedNext]_(Feed!feedVars)
    <2> SUFFICES ASSUME GrowInv, [Next]_vars, Growing'
                 PROVE  [Feed!FeedNext]_(Feed!feedVars)
      BY DEF Growing
    <2>1. FeedInv
      BY StillGrowing DEF GrowInv, FeedInv, Inv
    <2> QED  BY <2>1, FeedSafetyStep
  <1>4. Init => Feed!FeedInit
    BY FeedSafetyInit
  <1> QED  BY <1>1, <1>2, <1>3, <1>4, PTL DEF Spec, FeedSafety
=============================================================================

--------------------------- MODULE SpyFileProofs ---------------------------
(***************************************************************************)
(* Proofs about SpyFile for every alphabet, every set of threads, every    *)
(* set of faults and every bound.  First the types, and who owns the       *)
(* fields the thread shares with the main loop.  The two need each other - *)
(* poll.size stays a size because nobody else moves it between a read and  *)
(* its end - and TypeInv is the inductive invariant for both.  On top of   *)
(* it: in what order the bytes of the file are reported, and what is left  *)
(* in the buffer.                                                          *)
(***************************************************************************)
EXTENDS SpyFile, FiniteSetTheorems, SequenceTheorems, TLAPS

(***************************************************************************)
(* The part of the invariant that the types rest on: only a thread that    *)
(* read something extracts lines, and the shared fields have one owner.    *)
(***************************************************************************)
Ownership ==
  /\ OneReader
  /\ \A t \in Threads : pc[t] = "extract" => readNbr \in Nat

TypeInv == TypeOK /\ Ownership

-----------------------------------------------------------------------------
(***************************************************************************)
(* Facts about sequences, in the form the steps below need.                *)
(***************************************************************************)
LEMMA AppendFacts ==
  ASSUME NEW S, NEW s \in Seq(S), NEW e \in S
  PROVE  /\ Append(s, e) \in Seq(S)
         /\ Len(Append(s, e)) = Len(s) + 1
         /\ DOMAIN Append(s, e) = 1..(Len(s) + 1)
         /\ DOMAIN s = 1..Len(s)
         /\ \A i \in 1..Len(s) : Append(s, e)[i] = s[i]
         /\ Append(s, e)[Len(s) + 1] = e
  OBVIOUS

LEMMA TailFacts ==
  ASSUME NEW S, NEW s \in Seq(S), s # <<>>
  PROVE  /\ Tail(s) \in Seq(S)
         /\ Head(s) = s[1] /\ Head(s) \in S /\ 1 \in DOMAIN s
         /\ Len(s) \in Nat \ {0} /\ Len(Tail(s)) = Len(s) - 1
         /\ DOMAIN s = 1..Len(s) /\ DOMAIN Tail(s) = 1..(Len(s) - 1)
         /\ \A i \in 1..(Len(s) - 1) : Tail(s)[i] = s[i + 1]
  OBVIOUS

-----------------------------------------------------------------------------
(***************************************************************************)
(* The end call of a thread: EndPending follows the queue of calls.        *)
(***************************************************************************)
LEMMA EndAppended ==
  ASSUME calls \in Seq(Nat), calls' = Append(calls, End), EndPending = {}
  PROVE  EndPending' = {Len(calls) + 1} /\ calls' \in Seq(Nat)
  <1>1. /\ calls' \in Seq(Nat) /\ DOMAIN calls' = 1..(Len(calls) + 1)
        /\ DOMAIN calls = 1..Len(calls) /\ Len(calls) \in Nat
        /\ \A i \in 1..Len(calls) : calls'[i] = calls[i]
        /\ calls'[Len(calls) + 1] = End
    BY AppendFacts DEF End
  <1> QED  BY <1>1 DEF EndPending

LEMMA LineAppended ==
  ASSUME calls \in Seq(Nat), NEW a \in Nat \ {End}, calls' = Append(calls, a)
  PROVE  EndPending' = EndPending /\ calls' \in Seq(Nat)
  <1>1. /\ calls' \in Seq(Nat) /\ DOMAIN calls' = 1..(Len(calls) + 1)
        /\ DOMAIN calls = 1..Len(calls) /\ Len(calls) \in Nat
        /\ \A i \in 1..Len(calls) : calls'[i] = calls[i]
        /\ calls'[Len(calls) + 1] = a
    BY AppendFacts DEF End
  <1> QED  BY <1>1 DEF EndPending, End

LEMMA CallTaken ==
  ASSUME calls \in Seq(Nat), calls # <<>>, calls' = Tail(calls)
  PROVE  /\ calls' \in Seq(Nat) /\ Head(calls) \in Nat
         /\ \A i \in EndPending' : i + 1 \in EndPending
         /\ Head(calls) = End => 1 \in EndPending
         /\ \A i \in EndPending' : i \in Nat \ {0}
  <1>1. /\ calls' \in Seq(Nat) /\ Head(calls) = calls[1] /\ Head(calls) \in Nat
        /\ Len(calls) \in Nat \ {0} /\ 1 \in DOMAIN calls
        /\ DOMAIN calls = 1..Len(calls) /\ DOMAIN calls' = 1..(Len(calls) - 1)
        /\ \A i \in 1..(Len(calls) - 1) : calls'[i] = calls[i + 1]
    BY TailFacts
  <1> QED  BY <1>1 DEF EndPending

-----------------------------------------------------------------------------
LEMMA TypeInit == Init => TypeInv
  <1> SUFFICES ASSUME Init PROVE TypeInv  OBVIOUS
  <1>1. PICK s \in UNION {[1..n -> Byte] : n \in 0..MaxLen} : disk = <<s>>
    BY DEF Init
  <1>2. s \in Seq(Byte)
    BY SpyAssumption
  <1>3. /\ disk \in Seq(Seq(Byte)) /\ Cur = 1 /\ Size \in Nat
    BY <1>1, <1>2 DEF Cur, Size
  <1>4. EndPending = {}
    BY DEF Init, EndPending
  <1>5. TypeOK
    <2>1. pc \in [Threads -> {"idle", "open", "extract"}]
      BY DEF Init
    <2>2. /\ readBuf \in Seq(Ref) /\ lines \in Seq(Line) /\ delivered \in Seq(Nat)
          /\ calls \in Seq(Nat) /\ events \in Seq(Nat)
      BY DEF Init
    <2>3. /\ faults \in Nat /\ start \in Nat /\ pollSize \in Nat
          /\ readOffset \in Nat /\ readLength \in Nat /\ readNbr \in Nat
          /\ pollRunning \in BOOLEAN /\ pollPause \in BOOLEAN
          /\ present \in BOOLEAN /\ readError \in BOOLEAN
      BY <1>3 DEF Init
    <2> QED  BY <1>3, <2>1, <2>2, <2>3 DEF TypeOK
  <1>6. \A t \in Threads : pc[t] = "idle"
    BY DEF Init
  <1> QED  BY <1>4, <1>5, <1>6 DEF TypeInv, Ownership, OneReader, Busy

(***************************************************************************)
(* The steps of the outside world only grow the file.                      *)
(***************************************************************************)
LEMMA DiskFacts ==
  ASSUME TypeOK
  PROVE  /\ Cur \in Nat \ {0} /\ Size \in Nat /\ disk[Cur] \in Seq(Byte)
         /\ Cur \in DOMAIN disk
  <1>1. Cur \in Nat \ {0} /\ DOMAIN disk = 1..Cur /\ disk \in Seq(Seq(Byte))
    BY DEF TypeOK, Cur
  <1>2. disk[Cur] \in Seq(Byte)
    BY <1>1
  <1> QED  BY <1>1, <1>2 DEF Size

LEMMA EnvironmentTypes ==
  ASSUME TypeInv, Environment
  PROVE  TypeInv'
  <1>1. disk' \in Seq(Seq(Byte)) /\ Cur' >= 1 /\ present' \in BOOLEAN
    <2>0. Cur \in Nat \ {0} /\ disk[Cur] \in Seq(Byte) /\ disk \in Seq(Seq(Byte))
      BY DiskFacts DEF TypeInv, TypeOK
    <2>1. ASSUME NEW b \in Byte, WriteByte(b)
          PROVE disk' \in Seq(Seq(Byte)) /\ Cur' >= 1 /\ present' \in BOOLEAN
      <3>1. Append(disk[Cur], b) \in Seq(Byte)
        BY <2>0, AppendFacts
      <3>2. /\ disk' = [disk EXCEPT ![Cur] = Append(disk[Cur], b)]
            /\ present' \in BOOLEAN
        BY <2>1 DEF WriteByte, TypeInv, TypeOK
      <3>3. Cur \in 1..Len(disk)
        BY <2>0 DEF Cur
      <3>4. disk' \in Seq(Seq(Byte)) /\ Len(disk') = Len(disk)
        BY <3>1, <3>2, <3>3, <2>0, ExceptSeq
      <3> QED  BY <3>2, <3>4, <2>0 DEF Cur
    <2>2. ASSUME Truncate \/ Create
          PROVE disk' \in Seq(Seq(Byte)) /\ Cur' >= 1 /\ present' \in BOOLEAN
      <3>1. disk' = Append(disk, <<>>) /\ present' \in BOOLEAN
        BY <2>2 DEF Truncate, Create, TypeInv, TypeOK
      <3>2. <<>> \in Seq(Byte)
        OBVIOUS
      <3>3. disk' \in Seq(Seq(Byte)) /\ Len(disk') = Len(disk) + 1
        BY <3>1, <3>2, <2>0, AppendFacts
      <3> QED  BY <3>1, <3>3, <2>0 DEF Cur
    <2>3. ASSUME Remove
          PROVE disk' \in Seq(Seq(Byte)) /\ Cur' >= 1 /\ present' \in BOOLEAN
      <3>1. disk' = disk /\ present' = FALSE
        BY <2>3 DEF Remove
      <3>2. Cur' = Cur
        BY <3>1 DEF Cur
      <3>3. Cur >= 1
        BY <2>0
      <3> QED  BY <3>1, <3>2, <3>3, <2>0
    <2> QED  BY <2>1, <2>2, <2>3 DEF Environment
  <1>2. UNCHANGED <<faults, pollVars, readVars, pc, queueVars, histVars, start>>
    BY DEF Environment, WriteByte, Truncate, Remove, Create
  <1>3. TypeOK'
    BY <1>1, <1>2 DEF TypeInv, TypeOK, pollVars, readVars, queueVars, histVars
  <1>4. Ownership'
    BY <1>2 DEF TypeInv, Ownership, OneReader, Busy, EndPending, pollVars,
                readVars, queueVars
  <1> QED  BY <1>3, <1>4 DEF TypeInv

(***************************************************************************)
(* spy_file_poll: it only starts a thread when nobody owns the fields.     *)
(***************************************************************************)
LEMMA PollTypes ==
  ASSUME TypeInv, Poll, UNCHANGED <<fileVars, calls, histVars, start>>,
         events' \in Seq(Nat)
  PROVE  TypeInv'
  <1>0. /\ Cur \in Nat \ {0} /\ Size \in Nat /\ pollSize \in Nat
        /\ pc \in [Threads -> {"idle", "open", "extract"}] /\ faults \in Nat
    BY DiskFacts DEF TypeInv, TypeOK
  <1>1. CASE PollSkip
    BY <1>1 DEF PollSkip, TypeInv, TypeOK, Ownership, OneReader, Busy,
                EndPending, pollVars, readVars, fileVars, histVars, Cur
  <1>2. CASE PollTruncatedToNothing
    BY <1>2 DEF PollTruncatedToNothing, TypeInv, TypeOK, Ownership, OneReader,
                Busy, EndPending, readVars, fileVars, histVars, Cur
  <1>3. CASE PollStartThread
    <2>1. ~pollRunning
      BY <1>3 DEF PollStartThread, NothingToDo
    <2>2. EndPending = {} /\ \A t \in Threads : ~Busy(t)
      BY <2>1 DEF TypeInv, Ownership, OneReader
    <2>3. StartOffset \in Nat /\ Size - StartOffset \in Nat
      BY <1>0 DEF StartOffset
    <2>4. /\ pollSize' \in Nat /\ readOffset' \in Nat /\ readLength' \in Nat
          /\ pollRunning' = TRUE /\ readError' = FALSE
          /\ UNCHANGED <<pollPause, readNbr, readBuf>>
      BY <1>3, <2>3 DEF PollStartThread
    <2>5. EndPending' = {}
      BY <2>2 DEF EndPending
    <2>6. CASE \E t \in Threads : /\ pc[t] = "idle"
                                  /\ pc' = [pc EXCEPT ![t] = "open"]
                                  /\ UNCHANGED faults
      <3>1. PICK t \in Threads : /\ pc[t] = "idle"
                                 /\ pc' = [pc EXCEPT ![t] = "open"]
                                 /\ UNCHANGED faults
        BY <2>6
      <3>2. /\ pc' \in [Threads -> {"idle", "open", "extract"}]
            /\ pc'[t] = "open"
            /\ \A u \in Threads \ {t} : pc'[u] = "idle"
        BY <3>1, <2>2, <1>0 DEF Busy
      <3>3. Ownership'
        BY <3>2, <2>4, <2>5 DEF Ownership, OneReader, Busy
      <3>4. TypeOK'
        BY <3>1, <3>2, <2>4 DEF TypeInv, TypeOK, fileVars, histVars, Cur
      <3> QED  BY <3>3, <3>4 DEF TypeInv
    <2>7. CASE Fault("thread") /\ UNCHANGED pc
      <3>1. faults' \in Nat
        BY <2>7, <1>0 DEF Fault
      <3>2. Ownership'
        BY <2>7, <2>2, <2>4, <2>5 DEF Ownership, OneReader, Busy
      <3>3. TypeOK'
        BY <3>1, <2>7, <2>4 DEF TypeInv, TypeOK, fileVars, histVars, Cur
      <3> QED  BY <3>2, <3>3 DEF TypeInv
    <2> QED  BY <1>3, <2>6, <2>7 DEF PollStartThread
  <1> QED  BY <1>1, <1>2, <1>3 DEF Poll

LEMMA MainLoopTypes ==
  ASSUME TypeInv, MainLoop
  PROVE  TypeInv'
  <1>0. /\ events \in Seq(Nat) /\ calls \in Seq(Nat) /\ delivered \in Seq(Nat)
    BY DEF TypeInv, TypeOK
  <1>1. CASE TimerPoll
    BY <1>0, <1>1, PollTypes DEF TimerPoll, queueVars
  <1>2. CASE JobPoll
    <2>1. events' \in Seq(Nat)
      BY <1>0, <1>2, TailFacts DEF JobPoll
    <2> QED  BY <2>1, <1>2, PollTypes DEF JobPoll
  <1>3. CASE LineCall
    <2>1. /\ calls' \in Seq(Nat) /\ Head(calls) \in Nat
          /\ \A i \in EndPending' : i + 1 \in EndPending /\ i \in Nat
      BY <1>0, <1>3, CallTaken DEF LineCall
    <2>2. events' \in Seq(Nat)
      BY <2>1, <1>0, <1>3, AppendFacts DEF LineCall
    <2>3. Ownership'
      BY <2>1, <1>3 DEF LineCall, TypeInv, Ownership, OneReader, Busy,
                        pollVars, readVars
    <2>4. TypeOK'
      BY <2>1, <2>2, <1>3 DEF LineCall, TypeInv, TypeOK, Cur, fileVars,
                              pollVars, readVars, histVars
    <2> QED  BY <2>3, <2>4 DEF TypeInv
  <1>4. CASE EndCall
    <2>1. /\ calls' \in Seq(Nat) /\ 1 \in EndPending
          /\ \A i \in EndPending' : i + 1 \in EndPending /\ i \in Nat \ {0}
      BY <1>0, <1>4, CallTaken DEF EndCall
    <2>2. EndPending' = {}
      BY <2>1 DEF TypeInv, Ownership, OneReader
    <2>3. \A t \in Threads : ~Busy(t)
      BY <2>1 DEF TypeInv, Ownership, OneReader
    <2>4. events' \in Seq(Nat)
      BY <1>0, <1>4, AppendFacts DEF EndCall, Job
    <2>5. Ownership'
      BY <2>2, <2>3, <1>4 DEF EndCall, TypeInv, Ownership, OneReader, Busy
    <2>6. TypeOK'
      BY <2>1, <2>4, <1>4 DEF EndCall, TypeInv, TypeOK, Cur, fileVars, histVars
    <2> QED  BY <2>5, <2>6 DEF TypeInv
  <1>5. CASE LineEvent
    <2>1. events' \in Seq(Nat) /\ Head(events) \in Nat
      BY <1>0, <1>5, TailFacts DEF LineEvent
    <2>2. delivered' \in Seq(Nat)
      BY <2>1, <1>0, <1>5, AppendFacts DEF LineEvent
    <2>3. Ownership'
      BY <1>5 DEF LineEvent, TypeInv, Ownership, OneReader, Busy, EndPending,
                  pollVars, readVars
    <2>4. TypeOK'
      BY <2>1, <2>2, <1>5 DEF LineEvent, TypeInv, TypeOK, Cur, fileVars,
                              pollVars, readVars
    <2> QED  BY <2>3, <2>4 DEF TypeInv
  <1>6. CASE Pause \/ Resume
    BY <1>6 DEF Pause, Resume, TypeInv, TypeOK, Ownership, OneReader, Busy,
                EndPending, Cur, fileVars, readVars, queueVars, histVars
  <1> QED  BY <1>1, <1>2, <1>3, <1>4, <1>5, <1>6 DEF MainLoop, Dispatch

(***************************************************************************)
(* A chunk is made of references into the current incarnation.             *)
(***************************************************************************)
Chunk == [i \in 1..Available |-> <<Cur, readOffset + i>>]

LEMMA ChunkFacts ==
  ASSUME TypeOK
  PROVE  /\ Available \in Nat /\ Available <= readLength
         /\ Available > 0 => readOffset + Available <= Size
         /\ Chunk \in Seq(Ref) /\ Len(Chunk) = Available
         /\ \A i \in 1..Available : Chunk[i] = <<Cur, readOffset + i>>
  <1>1. Cur \in Nat \ {0} /\ Size \in Nat /\ readOffset \in Nat /\ readLength \in Nat
    BY DiskFacts DEF TypeOK
  <1>2. /\ Available \in Nat /\ Available <= readLength
        /\ Available > 0 => readOffset + Available <= Size
    BY <1>1 DEF Available, Least
  <1>3. \A i \in 1..Available : <<Cur, readOffset + i>> \in Ref
    BY <1>1, <1>2 DEF Ref
  <1>4. Chunk \in [1..Available -> Ref]
    BY <1>3 DEF Chunk
  <1> QED  BY <1>2, <1>4 DEF Chunk

(***************************************************************************)
(* What cutting the buffer at p leaves: the line before p, the rest from p.*)
(***************************************************************************)
LEMMA CutFacts ==
  ASSUME readBuf \in Seq(Ref), NEW p \in DOMAIN readBuf
  PROVE  /\ p \in Nat \ {0} /\ p <= Len(readBuf) /\ Len(readBuf) \in Nat
         /\ SubSeq(readBuf, 1, p - 1) \in Seq(Ref)
         /\ Len(SubSeq(readBuf, 1, p - 1)) = p - 1
         /\ \A i \in 1..(p - 1) : SubSeq(readBuf, 1, p - 1)[i] = readBuf[i]
         /\ SubSeq(readBuf, p, Len(readBuf)) \in Seq(Ref)
         /\ Len(SubSeq(readBuf, p, Len(readBuf))) = Len(readBuf) - p + 1
         /\ \A i \in 1..(Len(readBuf) - p + 1) :
               SubSeq(readBuf, p, Len(readBuf))[i] = readBuf[p + i - 1]
  <1>1. /\ p \in Nat \ {0} /\ p <= Len(readBuf) /\ Len(readBuf) \in Nat
        /\ \A i \in 1..Len(readBuf) : readBuf[i] \in Ref
    OBVIOUS
  <1>2. p - 1 \in Int /\ \A i \in 1..(p - 1) : readBuf[i] \in Ref
    BY <1>1
  <1>3. /\ SubSeq(readBuf, 1, p - 1) \in Seq(Ref)
        /\ Len(SubSeq(readBuf, 1, p - 1)) = IF 1 <= p - 1 THEN p - 1 - 1 + 1 ELSE 0
        /\ \A i \in 1..(p - 1 - 1 + 1) : SubSeq(readBuf, 1, p - 1)[i] = readBuf[1 + i - 1]
    BY <1>2, SubSeqProperties
  <1>4. \A i \in p..Len(readBuf) : readBuf[i] \in Ref
    BY <1>1
  <1>5. /\ SubSeq(readBuf, p, Len(readBuf)) \in Seq(Ref)
        /\ Len(SubSeq(readBuf, p, Len(readBuf)))
             = IF p <= Len(readBuf) THEN Len(readBuf) - p + 1 ELSE 0
        /\ \A i \in 1..(Len(readBuf) - p + 1) :
             SubSeq(readBuf, p, Len(readBuf))[i] = readBuf[p + i - 1]
    BY <1>1, <1>4, SubSeqProperties
  <1> QED  BY <1>1, <1>3, <1>5

LEMMA ReaderTypes ==
  ASSUME TypeInv, NEW t \in Threads, Reader(t)
  PROVE  TypeInv'
  <1>0. /\ calls \in Seq(Nat) /\ readBuf \in Seq(Ref) /\ lines \in Seq(Line)
        /\ pc \in [Threads -> {"idle", "open", "extract"}]
        /\ pollSize \in Nat /\ faults \in Nat
    BY DEF TypeInv, TypeOK
  <1>1. Busy(t)
    BY DEF Reader, ReadChunk, ReadFails, SkipNewline, PostLine, ReadDone,
           NoMemory, Busy
  <1>2. /\ EndPending = {} /\ pollRunning
        /\ \A u \in Threads \ {t} : pc[u] = "idle"
    BY <1>1 DEF TypeInv, Ownership, OneReader, Busy
  \* The thread comes to its end: it gives the fields to its end call.
  <1>3. ASSUME calls' = Append(calls, End), pc' = [pc EXCEPT ![t] = "idle"],
               UNCHANGED pollRunning
        PROVE  Ownership' /\ calls' \in Seq(Nat)
    <2>1. EndPending' = {Len(calls) + 1} /\ calls' \in Seq(Nat)
      BY <1>3, <1>2, <1>0, EndAppended
    <2>2. \A u \in Threads : pc'[u] = "idle"
      BY <1>3, <1>2, <1>0
    <2> QED  BY <2>1, <2>2, <1>3, <1>2 DEF Ownership, OneReader, Busy
  <1>4. ASSUME ReturnFromThread(t), pc[t] = "extract", faults' \in Nat
        PROVE  TypeInv'
    <2>1. Ownership' /\ calls' \in Seq(Nat)
      BY <1>3, <1>4 DEF ReturnFromThread
    <2>2. pollSize' \in Nat
      BY <1>0, <1>4 DEF ReturnFromThread, TypeInv, Ownership
    <2>3. pc' \in [Threads -> {"idle", "open", "extract"}]
      BY <1>0, <1>4 DEF ReturnFromThread
    <2>4. TypeOK'
      BY <2>1, <2>2, <2>3, <1>4 DEF ReturnFromThread, TypeInv, TypeOK, Cur,
         fileVars, readVars, histVars
    <2> QED  BY <2>1, <2>4 DEF TypeInv
  <1>5. CASE ReadChunk(t)
    <2>1. /\ Available \in Nat /\ Chunk \in Seq(Ref)
      BY ChunkFacts DEF TypeInv
    <2>2. readBuf' \in Seq(Ref)
      BY <1>5, <1>0, <2>1, ConcatProperties DEF ReadChunk, Chunk
    <2>3. pc' \in [Threads -> {"idle", "open", "extract"}]
      BY <1>5, <1>0 DEF ReadChunk
    <2>4. \A u \in Threads \ {t} : pc'[u] = "idle"
      BY <1>5, <1>2, <1>0 DEF ReadChunk
    <2>5. EndPending' = {} /\ pollRunning'
      BY <1>2, <1>5 DEF ReadChunk, EndPending, pollVars, queueVars
    <2>6. Ownership'
      BY <2>1, <2>4, <2>5, <1>5 DEF ReadChunk, Ownership, OneReader, Busy
    <2>7. TypeOK'
      BY <2>1, <2>2, <2>3, <1>5 DEF ReadChunk, TypeInv, TypeOK, Cur, fileVars,
         pollVars, queueVars, histVars
    <2> QED  BY <2>6, <2>7 DEF TypeInv
  <1>6. CASE ReadFails(t)
    <2>1. Ownership' /\ calls' \in Seq(Nat)
      BY <1>3, <1>6 DEF ReadFails, pollVars
    <2>2. readNbr' \in Nat \cup {-1} /\ faults' \in Nat
      BY <1>6, <1>0 DEF ReadFails, Fault
    <2>3. pc' \in [Threads -> {"idle", "open", "extract"}]
      BY <1>6, <1>0 DEF ReadFails
    <2>4. TypeOK'
      BY <2>1, <2>2, <2>3, <1>6 DEF ReadFails, TypeInv, TypeOK, Cur, fileVars,
         pollVars, histVars
    <2> QED  BY <2>1, <2>4 DEF TypeInv
  <1>7. CASE SkipNewline(t)
    <2>1. readBuf # <<>>
      BY <1>7 DEF SkipNewline, NewlineAt
    <2>2. readBuf' \in Seq(Ref)
      BY <1>7, <1>0, <2>1, TailFacts DEF SkipNewline
    <2>3. Ownership'
      BY <1>7 DEF SkipNewline, TypeInv, Ownership, OneReader, Busy, EndPending,
         pollVars, queueVars
    <2>4. TypeOK'
      BY <2>2, <1>7 DEF SkipNewline, TypeInv, TypeOK, Cur, fileVars, pollVars,
         queueVars, histVars
    <2> QED  BY <2>3, <2>4 DEF TypeInv
  <1>8. CASE PostLine(t)
    <2>1. PICK p \in DOMAIN readBuf :
            /\ NewlineAt(p) /\ p > 1
            /\ lines' = Append(lines, SubSeq(readBuf, 1, p - 1))
            /\ readBuf' = SubSeq(readBuf, p, Len(readBuf))
      BY <1>8 DEF PostLine
    <2>2. SubSeq(readBuf, 1, p - 1) \in Line /\ readBuf' \in Seq(Ref)
      BY <1>0, <2>1, CutFacts DEF Line
    <2>3. lines' \in Seq(Line) /\ Len(lines') \in Nat \ {End}
      BY <1>0, <2>1, <2>2, AppendFacts DEF End
    <2>4. EndPending' = {} /\ calls' \in Seq(Nat)
      BY <1>0, <1>2, <1>8, <2>3, LineAppended DEF PostLine
    <2>5. Ownership'
      BY <2>4, <1>2, <1>8 DEF PostLine, TypeInv, Ownership, OneReader, Busy,
         pollVars
    <2>6. TypeOK'
      BY <2>2, <2>3, <2>4, <1>8 DEF PostLine, TypeInv, TypeOK, Cur, fileVars,
         pollVars
    <2> QED  BY <2>5, <2>6 DEF TypeInv
  <1>9. CASE ReadDone(t)
    BY <1>9, <1>4, <1>0 DEF ReadDone
  <1>10. CASE NoMemory(t)
    BY <1>10, <1>4, <1>0 DEF NoMemory, Fault
  <1> QED  BY <1>5, <1>6, <1>7, <1>8, <1>9, <1>10 DEF Reader

-----------------------------------------------------------------------------
LEMMA TypeStep == TypeInv /\ [Next]_vars => TypeInv'
  <1> SUFFICES ASSUME TypeInv, [Next]_vars PROVE TypeInv'  OBVIOUS
  <1>1. CASE Environment
    BY <1>1, EnvironmentTypes
  <1>2. CASE MainLoop
    BY <1>2, MainLoopTypes
  <1>3. CASE \E t \in Threads : Reader(t)
    BY <1>3, ReaderTypes
  <1>4. CASE UNCHANGED vars
    BY <1>4 DEF vars, TypeInv, TypeOK, Ownership, OneReader, Busy, EndPending,
       Cur, fileVars, pollVars, readVars, queueVars, histVars
  <1> QED  BY <1>1, <1>2, <1>3, <1>4 DEF Next

(***************************************************************************)
(* No length, offset or size of the reads ever leaves its range, whatever  *)
(* happens to the file between the stat of spy_file_poll and the pread.    *)
(***************************************************************************)
THEOREM TypeCorrect == Spec => []TypeOK
  <1>1. Spec => []TypeInv
    BY TypeInit, TypeStep, PTL DEF Spec
  <1> QED  BY <1>1, PTL DEF TypeInv

(***************************************************************************)
(* poll.size and sf->read have one user at a time: a poll never starts a   *)
(* thread before the end callback of the last one has run.                 *)
(***************************************************************************)
THEOREM OneReaderAlways == Spec => []OneReader
  <1>1. Spec => []TypeInv
    BY TypeInit, TypeStep, PTL DEF Spec
  <1> QED  BY <1>1, PTL DEF TypeInv, Ownership

-----------------------------------------------------------------------------
(***************************************************************************)
(* libspy reports the bytes of a file once and in order.  InOrderOnce only *)
(* speaks of lines and delivered; it is inductive together with what       *)
(* places the buffer and the two queues of the main loop: Placed, Ordered  *)
(* and InFlight.                                                           *)
(***************************************************************************)

(***************************************************************************)
(* Everything that was read lies before the cursor, the position up to     *)
(* which the current incarnation has been read; once something of this     *)
(* incarnation has been read, the cursor is inside the file.  This is what *)
(* makes it sound to start over at 0 when poll.size exceeds the size.      *)
(***************************************************************************)
Extracting == \E t \in Threads : pc[t] = "extract"
Cursor == IF Extracting THEN pollSize + readNbr ELSE pollSize

Reached(ref) ==
  /\ ref[1] <= Cur
  /\ ref[1] = Cur => ref[2] <= Cursor /\ Cursor <= Size

Placed ==
  /\ \A n \in DOMAIN lines : \A i \in DOMAIN lines[n] : Reached(lines[n][i])
  /\ \A i \in DOMAIN readBuf : Reached(readBuf[i])
  /\ \A t \in Threads : pc[t] = "open" => readOffset = pollSize

Increasing(s) == \A i, j \in DOMAIN s : i < j => Before(s[i], s[j])
Precedes(r, s) == \A i \in DOMAIN r, j \in DOMAIN s : Before(r[i], s[j])

Ordered ==
  /\ Increasing(readBuf)
  /\ \A n \in DOMAIN lines : Increasing(lines[n]) /\ Precedes(lines[n], readBuf)
  /\ \A m, n \in DOMAIN lines : m < n => Precedes(lines[m], lines[n])

(***************************************************************************)
(* The Spy_Lines that were allocated and not delivered are in the event    *)
(* queue, then in the calls, in the order of allocation, none missing.     *)
(***************************************************************************)
Waiting == (Len(delivered) + 1)..Len(lines)

InFlight ==
  /\ \A n \in DOMAIN delivered : delivered[n] = n
  /\ \A i \in DOMAIN events : events[i] # Job => events[i] \in Waiting
  /\ \A i \in DOMAIN calls : calls[i] # End => calls[i] \in Waiting
  /\ \A i, j \in DOMAIN events :
       i < j /\ events[i] # Job /\ events[j] # Job => events[i] < events[j]
  /\ \A i, j \in DOMAIN calls :
       i < j /\ calls[i] # End /\ calls[j] # End => calls[i] < calls[j]
  /\ \A i \in DOMAIN events, j \in DOMAIN calls :
       events[i] # Job /\ calls[j] # End => events[i] < calls[j]
  /\ \A a \in Waiting :
       \/ \E i \in DOMAIN events : events[i] = a
       \/ \E i \in DOMAIN calls : calls[i] = a
  /\ Len(delivered) <= Len(lines)

Inv == TypeInv /\ Placed /\ Ordered /\ InFlight

-----------------------------------------------------------------------------
(***************************************************************************)
(* InFlight, one lemma for each way a queue changes.                       *)
(***************************************************************************)
QueueTypes ==
  /\ calls \in Seq(Nat) /\ events \in Seq(Nat) /\ delivered \in Seq(Nat)
  /\ lines \in Seq(Line)

LEMMA InFlightKept ==
  ASSUME InFlight, UNCHANGED <<calls, events, lines, delivered>>
  PROVE  InFlight'
  BY DEF InFlight, Waiting

LEMMA EndCallQueued ==
  ASSUME QueueTypes, InFlight, calls' = Append(calls, End),
         UNCHANGED <<events, lines, delivered>>
  PROVE  InFlight'
  <1>1. /\ DOMAIN calls' = 1..(Len(calls) + 1) /\ DOMAIN calls = 1..Len(calls)
        /\ \A i \in 1..Len(calls) : calls'[i] = calls[i]
        /\ calls'[Len(calls) + 1] = End
        /\ Len(calls) \in Nat
    BY AppendFacts DEF QueueTypes, End
  <1>2. \A i \in DOMAIN calls' : calls'[i] # End =>
           i \in DOMAIN calls /\ calls'[i] = calls[i]
    BY <1>1
  <1>3. Waiting' = Waiting
    BY DEF Waiting
  <1>4. \A a \in Waiting : (\E i \in DOMAIN calls : calls[i] = a)
                             => \E i \in DOMAIN calls' : calls'[i] = a
    BY <1>1
  <1> QED  BY <1>2, <1>3, <1>4 DEF InFlight

LEMMA LineCallQueued ==
  ASSUME QueueTypes, InFlight, NEW l \in Line, lines' = Append(lines, l),
         calls' = Append(calls, Len(lines')), UNCHANGED <<events, delivered>>
  PROVE  InFlight'
  <1>1. Len(lines') = Len(lines) + 1 /\ Len(lines) \in Nat
    BY AppendFacts DEF QueueTypes
  <1>2. /\ DOMAIN calls' = 1..(Len(calls) + 1) /\ DOMAIN calls = 1..Len(calls)
        /\ \A i \in 1..Len(calls) : calls'[i] = calls[i]
        /\ calls'[Len(calls) + 1] = Len(lines) + 1
        /\ Len(calls) \in Nat /\ Len(delivered) \in Nat
    BY <1>1, AppendFacts DEF QueueTypes
  <1>3. Waiting' = Waiting \cup {Len(lines) + 1}
    BY <1>1, <1>2 DEF Waiting, InFlight
  <1>4. \A a \in Waiting : a < Len(lines) + 1
    BY <1>1, <1>2 DEF Waiting
  <1>5. \A i \in DOMAIN calls' : calls'[i] # End =>
           \/ i \in DOMAIN calls /\ calls'[i] = calls[i] /\ calls[i] \in Waiting
           \/ i = Len(calls) + 1 /\ calls'[i] = Len(lines) + 1
    BY <1>2 DEF InFlight
  <1>6. \A i \in DOMAIN calls' : calls'[i] # End => calls'[i] \in Waiting'
    BY <1>3, <1>5
  <1>7. \A i, j \in DOMAIN calls' :
          i < j /\ calls'[i] # End /\ calls'[j] # End => calls'[i] < calls'[j]
    BY <1>2, <1>4, <1>5 DEF InFlight
  <1>8. \A i \in DOMAIN events, j \in DOMAIN calls' :
          events[i] # Job /\ calls'[j] # End => events[i] < calls'[j]
    BY <1>4, <1>5 DEF InFlight
  <1>9. \A a \in Waiting' :
          \/ \E i \in DOMAIN events : events[i] = a
          \/ \E i \in DOMAIN calls' : calls'[i] = a
    <2>1. TAKE a \in Waiting'
    <2>2. CASE a = Len(lines) + 1
      BY <2>2, <1>2
    <2>3. CASE a \in Waiting
      BY <2>3, <1>2 DEF InFlight
    <2> QED  BY <1>3, <2>2, <2>3
  <1>10. /\ \A n \in DOMAIN delivered' : delivered'[n] = n
         /\ \A i \in DOMAIN events' : events'[i] # Job => events'[i] \in Waiting'
         /\ Len(delivered') <= Len(lines')
         /\ \A i, j \in DOMAIN events' :
               i < j /\ events'[i] # Job /\ events'[j] # Job => events'[i] < events'[j]
    BY <1>1, <1>2, <1>3 DEF InFlight
  <1> QED  BY <1>6, <1>7, <1>8, <1>9, <1>10 DEF InFlight

LEMMA CallMade ==
  ASSUME QueueTypes, InFlight, calls # <<>>, calls' = Tail(calls),
         \/ Head(calls) = End /\ events' = events
         \/ Head(calls) = End /\ events' = Append(events, Job)
         \/ Head(calls) # End /\ events' = Append(events, Head(calls)),
         UNCHANGED <<lines, delivered>>
  PROVE  InFlight'
  <1>1. /\ Head(calls) = calls[1] /\ Head(calls) \in Nat /\ 1 \in DOMAIN calls
        /\ Len(calls) \in Nat \ {0}
        /\ DOMAIN calls = 1..Len(calls) /\ DOMAIN calls' = 1..(Len(calls) - 1)
        /\ \A i \in 1..(Len(calls) - 1) : calls'[i] = calls[i + 1]
    BY TailFacts DEF QueueTypes
  <1>2. Len(events) \in Nat /\ DOMAIN events = 1..Len(events)
    BY DEF QueueTypes
  <1>3. \/ Head(calls) = End /\ events' = events
        \/ /\ DOMAIN events' = 1..(Len(events) + 1)
           /\ \A i \in 1..Len(events) : events'[i] = events[i]
           /\ \/ Head(calls) = End /\ events'[Len(events) + 1] = Job
              \/ Head(calls) # End /\ events'[Len(events) + 1] = calls[1]
    BY <1>1, AppendFacts DEF QueueTypes, Job
  <1>4. Waiting' = Waiting
    BY DEF Waiting
  <1>5. \A i \in DOMAIN calls' : /\ i + 1 \in DOMAIN calls /\ calls'[i] = calls[i + 1]
                                /\ 1 < i + 1
    BY <1>1
  <1>6. \A i \in DOMAIN events' : events'[i] # Job =>
           \/ i \in DOMAIN events /\ events'[i] = events[i]
           \/ /\ i = Len(events) + 1 /\ events'[i] = calls[1] /\ calls[1] # End
    BY <1>2, <1>3, <1>1
  <1>7. \A a \in Waiting : (\E i \in DOMAIN events : events[i] = a)
                             => \E i \in DOMAIN events' : events'[i] = a
    BY <1>2, <1>3
  <1>8. \A a \in Waiting : (\E i \in DOMAIN calls : calls[i] = a)
           => \/ \E i \in DOMAIN calls' : calls'[i] = a
              \/ \E i \in DOMAIN events' : events'[i] = a
    <2>1. TAKE a \in Waiting
    <2>2. SUFFICES ASSUME NEW i \in DOMAIN calls, calls[i] = a
                   PROVE  \/ \E k \in DOMAIN calls' : calls'[k] = a
                          \/ \E k \in DOMAIN events' : events'[k] = a
      OBVIOUS
    <2>3. CASE i = 1
      <3>1. a # End
        BY DEF Waiting, End, QueueTypes
      <3> QED  BY <2>2, <2>3, <3>1, <1>1, <1>2, <1>3
    <2>4. CASE i # 1
      <3>1. i - 1 \in DOMAIN calls' /\ calls'[i - 1] = a
        BY <2>2, <2>4, <1>1
      <3> QED  BY <3>1
    <2> QED  BY <2>3, <2>4
  <1>9. \A i \in DOMAIN events' : events'[i] # Job => events'[i] \in Waiting
    BY <1>1, <1>6 DEF InFlight
  <1>10. \A i, j \in DOMAIN events' :
           i < j /\ events'[i] # Job /\ events'[j] # Job => events'[i] < events'[j]
    <2> SUFFICES ASSUME NEW i \in DOMAIN events', NEW j \in DOMAIN events', i < j,
                        events'[i] # Job, events'[j] # Job
                 PROVE  events'[i] < events'[j]
      OBVIOUS
    <2>1. CASE i \in DOMAIN events /\ j \in DOMAIN events
      <3>1. events'[i] = events[i] /\ events'[j] = events[j]
        BY <2>1, <1>2, <1>6
      <3> QED  BY <2>1, <3>1 DEF InFlight
    <2>2. CASE i \in DOMAIN events /\ j = Len(events) + 1
      <3>1. events'[i] = events[i] /\ events'[j] = calls[1] /\ calls[1] # End
        BY <2>2, <1>2, <1>6
      <3> QED  BY <2>2, <3>1, <1>1 DEF InFlight
    <2>3. j \in DOMAIN events => i \in DOMAIN events
      BY <1>2, <1>6
    <2>4. i \in DOMAIN events \/ i = Len(events) + 1
      BY <1>6
    <2>5. j \in DOMAIN events \/ j = Len(events) + 1
      BY <1>6
    <2>6. j = Len(events) + 1 => i # Len(events) + 1
      BY <1>2
    <2> QED  BY <2>1, <2>2, <2>3, <2>4, <2>5, <2>6
  <1>11. \A i \in DOMAIN events', j \in DOMAIN calls' :
           events'[i] # Job /\ calls'[j] # End => events'[i] < calls'[j]
    BY <1>1, <1>5, <1>6 DEF InFlight
  <1>12. \A i, j \in DOMAIN calls' :
           i < j /\ calls'[i] # End /\ calls'[j] # End => calls'[i] < calls'[j]
    <2> SUFFICES ASSUME NEW i \in DOMAIN calls', NEW j \in DOMAIN calls', i < j,
                        calls'[i] # End, calls'[j] # End
                 PROVE  calls'[i] < calls'[j]
      OBVIOUS
    <2>1. i + 1 < j + 1
      BY <1>1
    <2> QED  BY <2>1, <1>5 DEF InFlight
  <1>13. \A i \in DOMAIN calls' : calls'[i] # End => calls'[i] \in Waiting
    BY <1>5 DEF InFlight
  <1> QED  BY <1>4, <1>7, <1>8, <1>9, <1>10, <1>11, <1>12, <1>13 DEF InFlight

LEMMA EventTaken ==
  ASSUME QueueTypes, InFlight, events # <<>>, events' = Tail(events),
         \/ Head(events) = Job /\ delivered' = delivered
         \/ Head(events) # Job /\ delivered' = Append(delivered, Head(events)),
         UNCHANGED <<calls, lines>>
  PROVE  /\ InFlight'
         /\ Head(events) # Job => /\ Head(events) = Len(delivered) + 1
                                  /\ Head(events) \in DOMAIN lines
  <1>1. /\ Head(events) = events[1] /\ Head(events) \in Nat /\ 1 \in DOMAIN events
        /\ Len(events) \in Nat \ {0}
        /\ DOMAIN events = 1..Len(events) /\ DOMAIN events' = 1..(Len(events) - 1)
        /\ \A i \in 1..(Len(events) - 1) : events'[i] = events[i + 1]
    BY TailFacts DEF QueueTypes
  <1>2. /\ Len(delivered) \in Nat /\ Len(lines) \in Nat /\ DOMAIN lines = 1..Len(lines)
        /\ DOMAIN delivered = 1..Len(delivered) /\ DOMAIN calls = 1..Len(calls)
        /\ Len(calls) \in Nat
    BY DEF QueueTypes
  <1>3. \A i \in DOMAIN events' : /\ i + 1 \in DOMAIN events /\ 1 < i + 1
                                 /\ events'[i] = events[i + 1]
    BY <1>1
  <1>4. \A i \in DOMAIN events : i = 1 \/ (i - 1 \in DOMAIN events' /\ events'[i - 1] = events[i])
    BY <1>1
  <1>5. \A i, j \in DOMAIN events' :
          i < j /\ events'[i] # Job /\ events'[j] # Job => events'[i] < events'[j]
    <2> SUFFICES ASSUME NEW i \in DOMAIN events', NEW j \in DOMAIN events', i < j,
                        events'[i] # Job, events'[j] # Job
                 PROVE  events'[i] < events'[j]
      OBVIOUS
    <2>1. i + 1 < j + 1
      BY <1>1
    <2> QED  BY <2>1, <1>3 DEF InFlight
  <1>6. \A i \in DOMAIN events', j \in DOMAIN calls :
          events'[i] # Job /\ calls[j] # End => events'[i] < calls[j]
    BY <1>3 DEF InFlight
  <1>7. CASE Head(events) = Job
    <2>1. Waiting' = Waiting /\ delivered' = delivered
      BY <1>7 DEF Waiting
    <2>2. \A a \in Waiting : a # Job
      BY <1>2 DEF Waiting, Job
    <2>3. \A a \in Waiting : (\E i \in DOMAIN events : events[i] = a)
                             => \E i \in DOMAIN events' : events'[i] = a
      BY <2>2, <1>1, <1>4, <1>7
    <2>4. \A i \in DOMAIN events' : events'[i] # Job => events'[i] \in Waiting
      BY <1>3 DEF InFlight
    <2> QED  BY <1>5, <1>6, <1>7, <2>1, <2>3, <2>4 DEF InFlight
  <1>8. CASE Head(events) # Job
    <2>1. events[1] \in Waiting
      BY <1>8, <1>1 DEF InFlight
    <2>2. Len(delivered) + 1 \in Waiting /\ \A a \in Waiting : Len(delivered) + 1 <= a
      BY <2>1, <1>2 DEF Waiting
    <2>3. \A i \in DOMAIN events : events[i] # Job => events[1] <= events[i]
      <3> SUFFICES ASSUME NEW i \in DOMAIN events, events[i] # Job
                   PROVE  events[1] <= events[i]
        OBVIOUS
      <3>1. events[1] \in Nat
        BY <1>1
      <3>2. CASE i = 1
        BY <3>1, <3>2
      <3>3. CASE 1 < i
        <4>1. events[1] < events[i]
          BY <3>3, <1>1, <1>8 DEF InFlight
        <4>2. events[i] \in Nat
          BY <1>2 DEF InFlight, Waiting
        <4> QED  BY <3>1, <4>1, <4>2
      <3> QED  BY <3>2, <3>3, <1>1
    <2>4. \A i \in DOMAIN calls : calls[i] # End => events[1] <= calls[i]
      BY <1>1, <1>8, <2>1, <1>2 DEF InFlight, Waiting
    <2>5. Len(delivered) + 1 # Job /\ Len(delivered) + 1 # End
      BY <1>2 DEF Job, End
    <2>6. events[1] <= Len(delivered) + 1
      BY <2>2, <2>3, <2>4, <2>5 DEF InFlight
    <2>7. events[1] = Len(delivered) + 1
      BY <2>1, <2>2, <2>6, <1>2 DEF Waiting
    <2>8. /\ DOMAIN delivered' = 1..(Len(delivered) + 1)
          /\ Len(delivered') = Len(delivered) + 1
          /\ \A n \in 1..Len(delivered) : delivered'[n] = delivered[n]
          /\ delivered'[Len(delivered) + 1] = Len(delivered) + 1
      <3>1. delivered' = Append(delivered, Head(events))
        BY <1>8
      <3>2. delivered \in Seq(Nat) /\ Head(events) \in Nat
        BY <1>1 DEF QueueTypes
      <3>3. Head(events) = Len(delivered) + 1
        BY <1>1, <2>7
      <3> QED  BY <3>1, <3>2, <3>3, AppendFacts
    <2>9. Waiting' = Waiting \ {events[1]}
      BY <2>7, <2>8, <1>2 DEF Waiting
    <2>10. \A n \in DOMAIN delivered' : delivered'[n] = n
      BY <2>8, <1>2 DEF InFlight
    <2>11. \A i \in DOMAIN events' : events'[i] # Job => events'[i] \in Waiting'
      <3> SUFFICES ASSUME NEW i \in DOMAIN events', events'[i] # Job
                   PROVE  events'[i] \in Waiting'
        OBVIOUS
      <3>1. events[i + 1] \in Waiting /\ events[1] < events[i + 1]
        BY <1>1, <1>3, <1>8 DEF InFlight
      <3>2. events[i + 1] # events[1]
        BY <3>1, <2>7, <1>2
      <3> QED  BY <3>1, <3>2, <2>9, <1>3
    <2>12. \A i \in DOMAIN calls : calls[i] # End => calls[i] \in Waiting'
      <3> SUFFICES ASSUME NEW i \in DOMAIN calls, calls[i] # End
                   PROVE  calls[i] \in Waiting'
        OBVIOUS
      <3>1. calls[i] \in Waiting /\ events[1] < calls[i]
        BY <1>1, <1>8 DEF InFlight
      <3>2. calls[i] # events[1]
        BY <3>1, <2>7, <1>2
      <3> QED  BY <3>1, <3>2, <2>9
    <2>13. \A a \in Waiting' : \/ \E i \in DOMAIN events' : events'[i] = a
                              \/ \E i \in DOMAIN calls : calls[i] = a
      <3> SUFFICES ASSUME NEW a \in Waiting'
                   PROVE  \/ \E i \in DOMAIN events' : events'[i] = a
                          \/ \E i \in DOMAIN calls : calls[i] = a
        OBVIOUS
      <3>1. a \in Waiting /\ a # events[1]
        BY <2>9
      <3>2. CASE \E i \in DOMAIN calls : calls[i] = a
        BY <3>2
      <3>3. CASE \E i \in DOMAIN events : events[i] = a
        BY <3>1, <3>3, <1>4
      <3> QED  BY <3>1, <3>2, <3>3 DEF InFlight
    <2>14. Len(delivered') <= Len(lines')
      BY <2>2, <2>8, <1>2 DEF Waiting
    <2>15. Head(events) \in DOMAIN lines
      BY <2>1, <1>1, <1>2 DEF Waiting
    <2>16. InFlight'
      BY <1>5, <1>6, <2>10, <2>11, <2>12, <2>13, <2>14 DEF InFlight
    <2> QED  BY <1>1, <2>7, <2>15, <2>16
  <1> QED  BY <1>7, <1>8

-----------------------------------------------------------------------------
(***************************************************************************)
(* Placed: the references stay reached while the file and the cursor move. *)
(***************************************************************************)
LEMMA BufferTypes ==
  ASSUME TypeOK
  PROVE  /\ readBuf \in Seq(Ref) /\ \A i \in DOMAIN readBuf : readBuf[i] \in Ref
         /\ \A n \in DOMAIN lines : /\ lines[n] \in Seq(Ref)
                                   /\ \A i \in DOMAIN lines[n] : lines[n][i] \in Ref
  <1>1. readBuf \in Seq(Ref) /\ lines \in Seq(Line)
    BY DEF TypeOK
  <1>2. \A n \in DOMAIN lines : lines[n] \in Seq(Ref)
    BY <1>1 DEF Line
  <1>3. ASSUME NEW s \in Seq(Ref) PROVE \A i \in DOMAIN s : s[i] \in Ref
    OBVIOUS
  <1> QED  BY <1>1, <1>2, <1>3

LEMMA PlacedKept ==
  ASSUME TypeOK, Placed, UNCHANGED <<lines, readBuf>>,
         \A r \in Ref : Reached(r) => Reached(r)',
         \A t \in Threads : pc'[t] = "open" => readOffset' = pollSize'
  PROVE  Placed'
  BY BufferTypes DEF Placed

LEMMA EnvironmentPlaced ==
  ASSUME TypeInv, Placed, Environment
  PROVE  Placed'
  <1>1. /\ UNCHANGED <<lines, readBuf, pc, pollSize, readNbr, readOffset>>
    BY DEF Environment, WriteByte, Truncate, Remove, Create, pollVars, readVars,
           histVars
  <1>2. Cursor' = Cursor
    BY <1>1 DEF Cursor, Extracting
  <1>3. /\ Cur \in Nat \ {0} /\ Size \in Nat /\ Cur \in DOMAIN disk
        /\ disk[Cur] \in Seq(Byte) /\ disk \in Seq(Seq(Byte))
    BY DiskFacts DEF TypeInv, TypeOK
  <1>4. ASSUME NEW r \in Ref, Reached(r)
        PROVE  Reached(r)'
    <2>0. r[1] \in Nat /\ r[2] \in Nat
      BY DEF Ref
    <2>1. ASSUME NEW b \in Byte, WriteByte(b)
          PROVE  Reached(r)'
      <3>1. disk' = [disk EXCEPT ![Cur] = Append(disk[Cur], b)]
        BY <2>1 DEF WriteByte
      <3>2. Append(disk[Cur], b) \in Seq(Byte) /\ Len(Append(disk[Cur], b)) = Size + 1
        BY <1>3, AppendFacts DEF Size
      <3>3. /\ Len(disk') = Len(disk)
            /\ disk'[Cur] = Append(disk[Cur], b)
        BY <3>1, <3>2, <1>3, ExceptSeq DEF Cur
      <3>4. Cur' = Cur /\ Size' = Size + 1
        BY <3>2, <3>3 DEF Cur, Size
      <3>5. Cursor <= Size => Cursor <= Size + 1
        <4>1. Cursor \in Int
          BY DEF Cursor, Extracting, TypeInv, TypeOK
        <4> QED  BY <4>1, <1>3
      <3> QED  BY <3>4, <3>5, <1>2, <1>4 DEF Reached
    <2>2. ASSUME Truncate \/ Create
          PROVE  Reached(r)'
      <3>1. disk' = Append(disk, <<>>)
        BY <2>2 DEF Truncate, Create
      <3>2. Cur' = Cur + 1
        BY <3>1, <1>3 DEF Cur
      <3>3. r[1] < Cur'
        BY <3>2, <2>0, <1>3, <1>4 DEF Reached
      <3> QED  BY <3>2, <3>3, <2>0, <1>3 DEF Reached
    <2>3. ASSUME Remove
          PROVE  Reached(r)'
      <3>1. disk' = disk
        BY <2>3 DEF Remove
      <3>2. Cur' = Cur /\ Size' = Size
        BY <3>1 DEF Cur, Size
      <3> QED  BY <3>2, <1>2, <1>4 DEF Reached
    <2> QED  BY <2>1, <2>2, <2>3 DEF Environment
  <1>5. \A t \in Threads : pc'[t] = "open" => readOffset' = pollSize'
    BY <1>1 DEF Placed
  <1> QED  BY <1>1, <1>4, <1>5, PlacedKept DEF TypeInv

(***************************************************************************)
(* A poll moves the cursor back only when nothing of this incarnation has  *)
(* been read.                                                              *)
(***************************************************************************)
LEMMA PollPlaced ==
  ASSUME TypeInv, Placed, Poll, UNCHANGED <<fileVars, histVars>>
  PROVE  Placed'
  <1>0. /\ Cur \in Nat \ {0} /\ Size \in Nat /\ pollSize \in Nat
        /\ pc \in [Threads -> {"idle", "open", "extract"}]
    BY DiskFacts DEF TypeInv, TypeOK
  <1>1. Cur' = Cur /\ Size' = Size /\ lines' = lines
    BY DEF fileVars, histVars, Cur, Size
  <1>2. CASE PollSkip
    <2>1. UNCHANGED <<readBuf, pc, pollSize, readNbr, readOffset>>
      BY <1>2 DEF PollSkip, pollVars, readVars
    <2>2. Cursor' = Cursor
      BY <2>1 DEF Cursor, Extracting
    <2>3. \A r \in Ref : Reached(r) => Reached(r)'
      BY <1>1, <2>2 DEF Reached
    <2> QED  BY <1>1, <2>1, <2>3, PlacedKept DEF TypeInv, Placed
  <1>3. ASSUME ~NothingToDo, pollSize' \in {pollSize, 0},
               pollSize' # pollSize => pollSize > Size,
               UNCHANGED <<readBuf, readNbr>>,
               \A t \in Threads : pc'[t] # "extract",
               \A t \in Threads : pc'[t] = "open" => readOffset' = pollSize'
        PROVE  Placed'
    <2>1. \A t \in Threads : pc[t] = "idle"
      BY <1>3, <1>0 DEF NothingToDo, TypeInv, Ownership, OneReader, Busy
    <2>2. Cursor = pollSize /\ Cursor' = pollSize'
      BY <2>1, <1>3 DEF Cursor, Extracting
    <2>3. ASSUME NEW r \in Ref, Reached(r)
          PROVE  Reached(r)'
      <3>1. CASE pollSize' = pollSize
        BY <3>1, <2>2, <2>3, <1>1 DEF Reached
      <3>2. CASE pollSize > Size
        BY <3>2, <2>2, <2>3, <1>0, <1>1 DEF Reached
      <3> QED  BY <1>3, <3>1, <3>2
    <2> QED  BY <1>1, <1>3, <2>3, PlacedKept DEF TypeInv
  <1>4. CASE PollTruncatedToNothing
    <2>1. \A t \in Threads : pc'[t] = "idle"
      BY <1>4, <1>0 DEF PollTruncatedToNothing, NothingToDo, TypeInv, Ownership,
                        OneReader, Busy
    <2> QED  BY <1>3, <1>4, <2>1 DEF PollTruncatedToNothing, readVars
  <1>5. CASE PollStartThread
    <2>1. \A t \in Threads : pc'[t] # "extract"
      <3>1. \A t \in Threads : pc[t] = "idle"
        BY <1>5, <1>0 DEF PollStartThread, NothingToDo, TypeInv, Ownership,
                          OneReader, Busy
      <3> QED  BY <3>1, <1>5, <1>0 DEF PollStartThread
    <2>2. /\ ~NothingToDo /\ UNCHANGED <<readBuf, readNbr>>
          /\ readOffset' = pollSize' /\ pollSize' = StartOffset
      BY <1>5 DEF PollStartThread
    <2>3. pollSize' \in {pollSize, 0} /\ (pollSize' # pollSize => pollSize > Size)
      BY <2>2 DEF StartOffset
    <2> QED  BY <1>3, <2>1, <2>2, <2>3
  <1> QED  BY <1>2, <1>4, <1>5 DEF Poll

LEMMA MainLoopPlaced ==
  ASSUME TypeInv, Placed, MainLoop
  PROVE  Placed'
  <1>1. CASE TimerPoll \/ JobPoll
    BY <1>1, PollPlaced DEF TimerPoll, JobPoll
  <1>2. CASE LineCall \/ EndCall \/ LineEvent \/ Pause \/ Resume
    <2>1. UNCHANGED <<disk, lines, readBuf, pc, pollSize, readNbr, readOffset>>
      BY <1>2 DEF LineCall, EndCall, LineEvent, Pause, Resume, fileVars,
                  pollVars, readVars, histVars
    <2>2. Cursor' = Cursor /\ Cur' = Cur /\ Size' = Size
      BY <2>1 DEF Cursor, Extracting, Cur, Size
    <2>3. \A r \in Ref : Reached(r) => Reached(r)'
      BY <2>2 DEF Reached
    <2> QED  BY <2>1, <2>3, PlacedKept DEF TypeInv, Placed
  <1> QED  BY <1>1, <1>2 DEF MainLoop, Dispatch

-----------------------------------------------------------------------------
(***************************************************************************)
(* The reading thread.  It works alone, so the other threads are idle.     *)
(***************************************************************************)
LEMMA Alone ==
  ASSUME TypeInv, NEW t \in Threads, Reader(t)
  PROVE  /\ \A u \in Threads \ {t} : pc[u] = "idle"
         /\ pc \in [Threads -> {"idle", "open", "extract"}]
  <1>1. Busy(t)
    BY DEF Reader, ReadChunk, ReadFails, SkipNewline, PostLine, ReadDone,
           NoMemory, Busy
  <1> QED  BY <1>1 DEF TypeInv, TypeOK, Ownership, OneReader, Busy

LEMMA ReadChunkOrder ==
  ASSUME TypeInv, Placed, Ordered, NEW t \in Threads, ReadChunk(t)
  PROVE  Placed' /\ Ordered'
  <1>1. /\ Cur \in Nat \ {0} /\ Size \in Nat /\ pollSize \in Nat /\ readOffset \in Nat
        /\ readLength \in Nat
    BY DiskFacts DEF TypeInv, TypeOK
  <1>2. /\ \A u \in Threads \ {t} : pc[u] = "idle"
        /\ pc \in [Threads -> {"idle", "open", "extract"}]
    BY Alone DEF Reader
  <1>3. /\ pc[t] = "open" /\ pc' = [pc EXCEPT ![t] = "extract"]
        /\ readNbr' = Available /\ readBuf' = readBuf \o Chunk
        /\ UNCHANGED <<disk, pollSize, readOffset, lines>>
    BY DEF ReadChunk, Chunk, fileVars, pollVars, histVars
  <1>4. /\ Available \in Nat /\ Available > 0 => readOffset + Available <= Size
        /\ Chunk \in Seq(Ref) /\ Len(Chunk) = Available
        /\ \A i \in 1..Available : Chunk[i] = <<Cur, readOffset + i>>
    BY ChunkFacts DEF TypeInv
  <1>5. /\ Cursor = readOffset /\ Cursor' = readOffset + Available
        /\ Cur' = Cur /\ Size' = Size
    <2>1. readOffset = pollSize
      BY <1>3 DEF Placed
    <2>2. ~Extracting /\ Extracting'
      BY <1>2, <1>3 DEF Extracting
    <2> QED  BY <1>3, <2>1, <2>2 DEF Cursor, Cur, Size
  <1>6. /\ readBuf \in Seq(Ref) /\ readBuf' \in Seq(Ref)
        /\ Len(readBuf) \in Nat /\ DOMAIN readBuf = 1..Len(readBuf)
        /\ DOMAIN readBuf' = 1..(Len(readBuf) + Available)
        /\ \A i \in 1..Len(readBuf) : readBuf'[i] = readBuf[i]
        /\ \A i \in (Len(readBuf) + 1)..(Len(readBuf) + Available) :
              readBuf'[i] = <<Cur, readOffset + (i - Len(readBuf))>>
    <2>1. readBuf \in Seq(Ref) /\ Len(readBuf) \in Nat /\ DOMAIN readBuf = 1..Len(readBuf)
      BY DEF TypeInv, TypeOK
    <2>2. /\ readBuf \o Chunk \in Seq(Ref)
          /\ Len(readBuf \o Chunk) = Len(readBuf) + Available
          /\ \A i \in 1..(Len(readBuf) + Available) :
                (readBuf \o Chunk)[i] = IF i <= Len(readBuf) THEN readBuf[i]
                                        ELSE Chunk[i - Len(readBuf)]
      BY <2>1, <1>4, ConcatProperties
    <2>3. DOMAIN readBuf' = 1..(Len(readBuf) + Available)
      BY <1>3, <2>2
    <2>4. \A i \in 1..Len(readBuf) : readBuf'[i] = readBuf[i]
      BY <1>3, <1>4, <2>1, <2>2
    <2>5. \A i \in (Len(readBuf) + 1)..(Len(readBuf) + Available) :
            readBuf'[i] = <<Cur, readOffset + (i - Len(readBuf))>>
      BY <1>3, <1>4, <2>1, <2>2
    <2> QED  BY <1>3, <2>1, <2>2, <2>3, <2>4, <2>5
  <1>7. ASSUME NEW r \in Ref, Reached(r)
        PROVE  /\ Reached(r)'
               /\ \A i \in Nat \ {0} : Before(r, <<Cur, readOffset + i>>)
    <2>1. r[1] \in Nat /\ r[2] \in Nat
      BY DEF Ref
    <2>2. Reached(r)'
      BY <2>1, <1>1, <1>4, <1>5, <1>7 DEF Reached
    <2>3. \A i \in Nat \ {0} : Before(r, <<Cur, readOffset + i>>)
      BY <2>1, <1>1, <1>5, <1>7 DEF Reached, Before
    <2> QED  BY <2>2, <2>3
  <1>8. \A i \in DOMAIN readBuf' :
          \/ i \in DOMAIN readBuf /\ readBuf'[i] = readBuf[i]
          \/ /\ i \in (Len(readBuf) + 1)..(Len(readBuf) + Available)
             /\ readBuf'[i] = <<Cur, readOffset + (i - Len(readBuf))>>
             /\ i - Len(readBuf) \in Nat \ {0} /\ i - Len(readBuf) <= Available
    BY <1>4, <1>6
  <1>9. Placed'
    <2>1. ASSUME NEW i \in 1..Available, NEW r, r = <<Cur, readOffset + i>>
          PROVE  Reached(r)'
      <3>1. /\ r[1] = Cur /\ r[2] = readOffset + i /\ i \in Nat /\ i <= Available
            /\ Available > 0
        BY <2>1, <1>4
      <3> QED  BY <3>1, <1>1, <1>4, <1>5 DEF Reached
    <2>2. ASSUME NEW i \in DOMAIN readBuf'
          PROVE  Reached(readBuf[i])'
      <3>1. CASE i \in DOMAIN readBuf /\ readBuf'[i] = readBuf[i]
        <4>1. PICK r \in Ref : r = readBuf[i] /\ Reached(r)
          BY <3>1, BufferTypes DEF Placed, TypeInv
        <4>2. Reached(r)' /\ r = readBuf'[i]
          BY <4>1, <3>1, <1>7
        <4> QED  BY <4>2
      <3>2. CASE /\ readBuf'[i] = <<Cur, readOffset + (i - Len(readBuf))>>
                 /\ i - Len(readBuf) \in 1..Available
        <4>1. PICK r : r = readBuf'[i] /\ r = <<Cur, readOffset + (i - Len(readBuf))>>
          BY <3>2
        <4>2. Reached(r)'
          BY <4>1, <3>2, <2>1
        <4> QED  BY <4>1, <4>2
      <3> QED  BY <1>4, <1>8, <3>1, <3>2
    <2>4. ASSUME NEW n \in DOMAIN lines', NEW i \in DOMAIN lines'[n]
          PROVE  Reached(lines[n][i])'
      <3>1. PICK r \in Ref : r = lines'[n][i] /\ Reached(r)
        BY <1>3, BufferTypes DEF Placed, TypeInv
      <3> QED  BY <3>1, <1>7
    <2>5. \A u \in Threads : pc'[u] # "open"
      BY <1>2, <1>3
    <2> QED  BY <2>2, <2>4, <2>5 DEF Placed
  <1>10. Increasing(readBuf)'
    <2> SUFFICES ASSUME NEW i \in DOMAIN readBuf', NEW j \in DOMAIN readBuf', i < j
                 PROVE  Before(readBuf'[i], readBuf'[j])
      BY DEF Increasing
    <2>1. CASE i \in DOMAIN readBuf /\ j \in DOMAIN readBuf
      BY <2>1, <1>6 DEF Ordered, Increasing
    <2>2. CASE i \in DOMAIN readBuf /\ j \notin DOMAIN readBuf
      <3>1. readBuf'[i] = readBuf[i] /\ readBuf[i] \in Ref /\ Reached(readBuf[i])
        BY <2>2, <1>6, BufferTypes DEF Placed, TypeInv
      <3>2. /\ readBuf'[j] = <<Cur, readOffset + (j - Len(readBuf))>>
            /\ j - Len(readBuf) \in Nat \ {0}
        BY <2>2, <1>8
      <3> QED  BY <3>1, <3>2, <1>7
    <2>3. CASE i \notin DOMAIN readBuf
      <3>1. i > Len(readBuf) /\ j > Len(readBuf) /\ i \in Nat /\ j \in Nat
        BY <2>3, <1>6, <1>4
      <3>2. /\ readBuf'[i] = <<Cur, readOffset + (i - Len(readBuf))>>
            /\ readBuf'[j] = <<Cur, readOffset + (j - Len(readBuf))>>
        BY <3>1, <1>8, <1>6
      <3> QED  BY <3>1, <3>2, <1>1, <1>6 DEF Before
    <2> QED  BY <2>1, <2>2, <2>3
  <1>11. \A n \in DOMAIN lines : Precedes(lines[n], readBuf')
    <2> SUFFICES ASSUME NEW n \in DOMAIN lines, NEW i \in DOMAIN lines[n],
                        NEW j \in DOMAIN readBuf'
                 PROVE  Before(lines[n][i], readBuf'[j])
      BY DEF Precedes
    <2>1. lines[n][i] \in Ref /\ Reached(lines[n][i])
      BY BufferTypes DEF Placed, TypeInv
    <2>2. CASE j \in DOMAIN readBuf /\ readBuf'[j] = readBuf[j]
      BY <2>2 DEF Ordered, Precedes
    <2>3. CASE /\ readBuf'[j] = <<Cur, readOffset + (j - Len(readBuf))>>
               /\ j - Len(readBuf) \in Nat \ {0}
      BY <2>1, <2>3, <1>7
    <2> QED  BY <1>8, <2>2, <2>3
  <1>12. Ordered'
    <2>1. \A n \in DOMAIN lines : Increasing(lines[n])
      BY DEF Ordered
    <2>2. \A m, n \in DOMAIN lines : m < n => Precedes(lines[m], lines[n])
      BY DEF Ordered
    <2>3. lines' = lines
      BY <1>3
    <2>4. Increasing(readBuf')
      BY <1>10 DEF Increasing
    <2> HIDE DEF Increasing, Precedes
    <2> QED  BY <2>1, <2>2, <2>3, <2>4, <1>11 DEF Ordered
  <1> QED  BY <1>9, <1>12

LEMMA SkipNewlineOrder ==
  ASSUME TypeInv, Placed, Ordered, NEW t \in Threads, SkipNewline(t)
  PROVE  Placed' /\ Ordered'
  <1>1. /\ readBuf' = Tail(readBuf) /\ readBuf # <<>>
        /\ UNCHANGED <<disk, pc, pollSize, readNbr, readOffset, lines>>
    BY DEF SkipNewline, NewlineAt, fileVars, pollVars, histVars
  <1>2. Cursor' = Cursor /\ Cur' = Cur /\ Size' = Size
    BY <1>1 DEF Cursor, Extracting, Cur, Size
  <1>3. \A i \in DOMAIN readBuf' : /\ i + 1 \in DOMAIN readBuf /\ i \in Nat
                                  /\ readBuf'[i] = readBuf[i + 1]
    <2>1. readBuf \in Seq(Ref)
      BY DEF TypeInv, TypeOK
    <2> QED  BY <1>1, <2>1, TailFacts
  <1>4. Placed'
    BY <1>1, <1>2, <1>3 DEF Placed, Reached
  <1>5. Increasing(readBuf')
    <2> SUFFICES ASSUME NEW i \in DOMAIN readBuf', NEW j \in DOMAIN readBuf', i < j
                 PROVE  Before(readBuf'[i], readBuf'[j])
      BY DEF Increasing
    <2>1. i + 1 < j + 1
      BY <1>3
    <2> QED  BY <2>1, <1>3 DEF Ordered, Increasing
  <1>6. \A n \in DOMAIN lines : Precedes(lines[n], readBuf')
    BY <1>3 DEF Ordered, Precedes
  <1> QED  BY <1>1, <1>4, <1>5, <1>6 DEF Ordered

LEMMA PostLineOrder ==
  ASSUME TypeInv, Placed, Ordered, NEW t \in Threads, PostLine(t)
  PROVE  Placed' /\ Ordered'
  <1>1. PICK p \in DOMAIN readBuf :
          /\ lines' = Append(lines, SubSeq(readBuf, 1, p - 1))
          /\ readBuf' = SubSeq(readBuf, p, Len(readBuf))
    BY DEF PostLine
  <1>2. UNCHANGED <<disk, pc, pollSize, readNbr, readOffset>>
    BY DEF PostLine, fileVars, pollVars
  <1>3. Cursor' = Cursor /\ Cur' = Cur /\ Size' = Size
    BY <1>2 DEF Cursor, Extracting, Cur, Size
  <1> DEFINE line == SubSeq(readBuf, 1, p - 1)
             new == Len(lines) + 1
  <1>4. /\ readBuf \in Seq(Ref) /\ lines \in Seq(Line) /\ line \in Line
        /\ p \in Nat \ {0}
    BY CutFacts DEF TypeInv, TypeOK, Line
  <1>5. \A i \in DOMAIN line : /\ i \in DOMAIN readBuf /\ line[i] = readBuf[i]
                              /\ i \in Nat /\ i < p
    <2>1. /\ Len(line) = p - 1 /\ line \in Seq(Ref) /\ p <= Len(readBuf)
          /\ Len(readBuf) \in Nat /\ \A i \in 1..(p - 1) : line[i] = readBuf[i]
      BY <1>4, CutFacts
    <2>2. DOMAIN line = 1..(p - 1) /\ DOMAIN readBuf = 1..Len(readBuf)
      BY <2>1, <1>4, LenProperties
    <2> QED  BY <2>1, <2>2, <1>4
  <1>6. \A i \in DOMAIN readBuf' : /\ p + i - 1 \in DOMAIN readBuf /\ i \in Nat \ {0}
                                  /\ readBuf'[i] = readBuf[p + i - 1]
    <2>1. /\ Len(readBuf') = Len(readBuf) - p + 1 /\ readBuf' \in Seq(Ref)
          /\ p <= Len(readBuf) /\ Len(readBuf) \in Nat
          /\ \A i \in 1..(Len(readBuf) - p + 1) : readBuf'[i] = readBuf[p + i - 1]
      BY <1>1, <1>4, CutFacts
    <2>2. DOMAIN readBuf' = 1..(Len(readBuf) - p + 1) /\ DOMAIN readBuf = 1..Len(readBuf)
      BY <2>1, <1>4, LenProperties
    <2> QED  BY <2>1, <2>2, <1>4
  <1> HIDE DEF line
  <1>7. /\ DOMAIN lines' = 1..new /\ DOMAIN lines = 1..Len(lines) /\ Len(lines) \in Nat
        /\ \A n \in DOMAIN lines : lines'[n] = lines[n]
        /\ lines'[new] = line
    BY <1>1, <1>4, AppendFacts DEF line
  <1>8. \A n \in DOMAIN lines' : n \in DOMAIN lines \/ n = new
    BY <1>7
  <1>9. Placed'
    <2>1. \A i \in DOMAIN line : Reached(line[i])
      BY <1>5 DEF Placed
    <2>2. \A n \in DOMAIN lines' : \A i \in DOMAIN lines'[n] : Reached(lines'[n][i])
      BY <1>7, <1>8, <2>1 DEF Placed
    <2>3. \A i \in DOMAIN readBuf' : Reached(readBuf'[i])
      BY <1>6 DEF Placed
    <2> QED  BY <1>2, <1>3, <2>2, <2>3 DEF Placed, Reached
  <1>10. Increasing(readBuf')
    <2> SUFFICES ASSUME NEW i \in DOMAIN readBuf', NEW j \in DOMAIN readBuf', i < j
                 PROVE  Before(readBuf'[i], readBuf'[j])
      BY DEF Increasing
    <2>1. p + i - 1 < p + j - 1
      BY <1>4, <1>6
    <2> QED  BY <2>1, <1>6 DEF Ordered, Increasing
  <1>11. Increasing(line)
    BY <1>5 DEF Ordered, Increasing
  <1>12. Precedes(line, readBuf')
    <2> SUFFICES ASSUME NEW i \in DOMAIN line, NEW j \in DOMAIN readBuf'
                 PROVE  Before(line[i], readBuf'[j])
      BY DEF Precedes
    <2>1. i < p + j - 1
      BY <1>4, <1>5, <1>6
    <2> QED  BY <2>1, <1>5, <1>6 DEF Ordered, Increasing
  <1>13. \A n \in DOMAIN lines : /\ Increasing(lines[n])
                                /\ Precedes(lines[n], line)
                                /\ Precedes(lines[n], readBuf')
    BY <1>5, <1>6 DEF Ordered, Precedes
  <1>14. \A n \in DOMAIN lines' : Increasing(lines'[n]) /\ Precedes(lines'[n], readBuf')
    <2> HIDE DEF new
    <2> QED  BY <1>7, <1>8, <1>11, <1>12, <1>13
  <1>15. \A m, n \in DOMAIN lines' : m < n => Precedes(lines'[m], lines'[n])
    <2> SUFFICES ASSUME NEW m \in DOMAIN lines', NEW n \in DOMAIN lines', m < n
                 PROVE  Precedes(lines'[m], lines'[n])
      OBVIOUS
    <2>1. m \in DOMAIN lines
      BY <1>7
    <2>2. CASE n \in DOMAIN lines
      BY <2>1, <2>2, <1>7 DEF Ordered
    <2>3. CASE n = new
      BY <2>1, <2>3, <1>7, <1>13
    <2> QED  BY <1>8, <2>2, <2>3
  <1> QED  BY <1>9, <1>10, <1>14, <1>15 DEF Ordered

LEMMA ReaderOrder ==
  ASSUME TypeInv, Placed, Ordered, NEW t \in Threads, Reader(t)
  PROVE  Placed' /\ Ordered'
  <1>0. /\ \A u \in Threads \ {t} : pc[u] = "idle"
        /\ pc \in [Threads -> {"idle", "open", "extract"}]
    BY Alone
  <1>1. CASE ReadChunk(t) \/ SkipNewline(t) \/ PostLine(t)
    BY <1>1, ReadChunkOrder, SkipNewlineOrder, PostLineOrder
  <1>2. ASSUME Cursor' = Cursor, pc' = [pc EXCEPT ![t] = "idle"],
               UNCHANGED <<disk, lines, readBuf>>
        PROVE  Placed' /\ Ordered'
    <2>1. Cur' = Cur /\ Size' = Size
      BY <1>2 DEF Cur, Size
    <2>2. \A u \in Threads : pc'[u] = "idle"
      BY <1>0, <1>2
    <2>3. \A r \in Ref : Reached(r) => Reached(r)'
      BY <1>2, <2>1 DEF Reached
    <2>4. Placed'
      BY <1>2, <2>2, <2>3, PlacedKept DEF TypeInv
    <2>5. Ordered'
      BY <1>2 DEF Ordered, Increasing, Precedes
    <2> QED  BY <2>4, <2>5
  <1>3. CASE ReadFails(t)
    <2>1. /\ pc' = [pc EXCEPT ![t] = "idle"] /\ pc[t] = "open"
          /\ UNCHANGED <<disk, lines, readBuf, pollSize>>
      BY <1>3 DEF ReadFails, fileVars, pollVars, histVars
    <2>2. ~Extracting /\ ~Extracting'
      BY <1>0, <2>1 DEF Extracting
    <2>3. Cursor' = Cursor
      BY <2>1, <2>2 DEF Cursor
    <2> QED  BY <1>2, <2>1, <2>3
  <1>4. CASE ReadDone(t) \/ NoMemory(t)
    <2>1. /\ pc' = [pc EXCEPT ![t] = "idle"] /\ pc[t] = "extract"
          /\ pollSize' = pollSize + readNbr
          /\ UNCHANGED <<disk, lines, readBuf>>
      BY <1>4 DEF ReadDone, NoMemory, ReturnFromThread, fileVars, readVars, histVars
    <2>2. Extracting /\ ~Extracting'
      BY <1>0, <2>1 DEF Extracting
    <2>3. Cursor' = Cursor
      BY <2>1, <2>2 DEF Cursor
    <2> QED  BY <1>2, <2>1, <2>3
  <1> QED  BY <1>1, <1>3, <1>4 DEF Reader

-----------------------------------------------------------------------------
LEMMA OrderInit == Init => Placed /\ Ordered /\ InFlight
  <1> SUFFICES ASSUME Init PROVE Placed /\ Ordered /\ InFlight  OBVIOUS
  <1>1. /\ lines = <<>> /\ delivered = <<>> /\ calls = <<>> /\ events = <<>>
        /\ readBuf = <<>> /\ \A t \in Threads : pc[t] = "idle"
    BY DEF Init
  <1>2. Placed
    BY <1>1 DEF Placed
  <1>3. Ordered
    BY <1>1 DEF Ordered, Increasing
  <1>4. Waiting = {}
    BY <1>1 DEF Waiting
  <1> QED  BY <1>1, <1>2, <1>3, <1>4 DEF InFlight

LEMMA InFlightStep ==
  ASSUME TypeInv, InFlight, Next
  PROVE  InFlight'
  <1>0. QueueTypes
    BY DEF TypeInv, TypeOK, QueueTypes
  <1>1. CASE Environment
    BY <1>1, InFlightKept DEF Environment, WriteByte, Truncate, Remove, Create,
       queueVars, histVars
  <1>2. CASE TimerPoll \/ Pause \/ Resume
    BY <1>2, InFlightKept DEF TimerPoll, Pause, Resume, queueVars, histVars
  <1>3. CASE LineCall \/ EndCall
    <2>1. /\ calls # <<>> /\ calls' = Tail(calls) /\ UNCHANGED <<lines, delivered>>
          /\ \/ Head(calls) = End /\ events' = events
             \/ Head(calls) = End /\ events' = Append(events, Job)
             \/ Head(calls) # End /\ events' = Append(events, Head(calls))
      BY <1>3 DEF LineCall, EndCall, histVars
    <2> QED  BY <1>0, <2>1, CallMade
  <1>4. CASE Dispatch
    BY <1>0, <1>4, EventTaken DEF Dispatch, LineEvent, JobPoll, histVars
  <1>5. ASSUME NEW t \in Threads, Reader(t)
        PROVE  InFlight'
    <2>1. CASE ReadChunk(t) \/ SkipNewline(t)
      BY <2>1, InFlightKept DEF ReadChunk, SkipNewline, queueVars, histVars
    <2>2. CASE ReadFails(t) \/ ReadDone(t) \/ NoMemory(t)
      BY <1>0, <2>2, EndCallQueued DEF ReadFails, ReadDone, NoMemory,
         ReturnFromThread, histVars
    <2>3. CASE PostLine(t)
      <3>1. PICK p \in DOMAIN readBuf : lines' = Append(lines, SubSeq(readBuf, 1, p - 1))
        BY <2>3 DEF PostLine
      <3>2. SubSeq(readBuf, 1, p - 1) \in Line
        BY CutFacts DEF TypeInv, TypeOK, Line
      <3>3. calls' = Append(calls, Len(lines')) /\ UNCHANGED <<events, delivered>>
        BY <2>3 DEF PostLine
      <3> QED  BY <1>0, <3>1, <3>2, <3>3, LineCallQueued
    <2> QED  BY <1>5, <2>1, <2>2, <2>3 DEF Reader
  <1> QED  BY <1>1, <1>2, <1>3, <1>4, <1>5 DEF Next, MainLoop

LEMMA OrderStep ==
  ASSUME TypeInv, Placed, Ordered, Next
  PROVE  Placed' /\ Ordered'
  <1>1. CASE Environment \/ MainLoop
    <2>1. Placed'
      BY <1>1, EnvironmentPlaced, MainLoopPlaced
    <2>2. UNCHANGED <<lines, readBuf>>
      BY <1>1 DEF Environment, WriteByte, Truncate, Remove, Create, MainLoop,
         TimerPoll, Dispatch, JobPoll, LineEvent, LineCall, EndCall, Pause,
         Resume, Poll, PollSkip, PollTruncatedToNothing, PollStartThread,
         readVars, histVars
    <2>3. Ordered'
      BY <2>2 DEF Ordered, Increasing, Precedes
    <2> QED  BY <2>1, <2>3
  <1>2. CASE \E t \in Threads : Reader(t)
    BY <1>2, ReaderOrder
  <1> QED  BY <1>1, <1>2 DEF Next

LEMMA InvStep == Inv /\ [Next]_vars => Inv'
  <1> SUFFICES ASSUME Inv, [Next]_vars PROVE Inv'  OBVIOUS
  <1>1. TypeInv'
    BY TypeStep DEF Inv
  <1>2. CASE Next
    BY <1>1, <1>2, OrderStep, InFlightStep DEF Inv
  <1>3. CASE UNCHANGED vars
    <2>1. UNCHANGED <<disk, lines, readBuf, pc, pollSize, readNbr, readOffset,
                      calls, events, delivered>>
      BY <1>3 DEF vars, fileVars, pollVars, readVars, queueVars, histVars
    <2>2. Cursor' = Cursor /\ Cur' = Cur /\ Size' = Size
      BY <2>1 DEF Cursor, Extracting, Cur, Size
    <2>3. Placed'
      BY <2>1, <2>2 DEF Inv, Placed, Reached
    <2>4. Ordered'
      BY <2>1 DEF Inv, Ordered, Increasing, Precedes
    <2> QED  BY <1>1, <2>1, <2>3, <2>4, InFlightKept DEF Inv
  <1> QED  BY <1>2, <1>3

LEMMA InvAlways == Spec => []Inv
  BY TypeInit, OrderInit, InvStep, PTL DEF Spec, Inv

(***************************************************************************)
(* Every Spy_Line is delivered once, in order, and its bytes go forward    *)
(* through the file and its incarnations: no interleaving of writers,      *)
(* rotations, failures, threads and callbacks makes libspy report a byte   *)
(* twice or out of order.                                                  *)
(***************************************************************************)
THEOREM InOrderOnceAlways == Spec => []InOrderOnce
  <1>1. Inv => InOrderOnce
    BY DEF Inv, InFlight, Ordered, Increasing, Precedes, InOrderOnce
  <1> QED  BY <1>1, InvAlways, PTL

-----------------------------------------------------------------------------
(***************************************************************************)
(* NothingHeldBack.  A thread that runs out of newlines leaves none in the *)
(* buffer, if strchr can see them all, and if no Spy_Line was refused: for *)
(* a writer of NUL bytes, or without memory, it is false.                  *)
(***************************************************************************)
NoNewline == \A p \in DOMAIN readBuf : At(readBuf[p]) # NL
OnDisk(ref) == ref[1] \in DOMAIN disk /\ ref[2] \in DOMAIN disk[ref[1]]

BufferInv ==
  /\ TypeInv
  /\ \A p \in DOMAIN readBuf : OnDisk(readBuf[p])
  /\ Extracting \/ NoNewline

LEMMA LeastOf ==
  ASSUME NEW n \in Nat, NEW T \in SUBSET (1..n), T # {}
  PROVE  \E m \in T : \A x \in T : m <= x
  <1> DEFINE S == {i \in 1..n : \E x \in T : x <= i}
  <1> DEFINE k == Cardinality(S)
  <1> DEFINE m == n - k + 1
  <1>1. /\ S \subseteq 1..n /\ IsFiniteSet(1..n) /\ Cardinality(1..n) = n
    BY FS_Interval
  <1>2. k \in Nat /\ k <= n /\ IsFiniteSet(S)
    BY <1>1, FS_Subset, FS_CardinalityType
  <1>3. k # 0
    <2>1. PICK x \in T : TRUE
      OBVIOUS
    <2>2. x \in S
      BY <2>1
    <2> HIDE DEF S
    <2> QED  BY <1>2, <2>2, FS_EmptySet
  <1>4. m \in 1..n /\ IsFiniteSet(m..n) /\ Cardinality(m..n) = k
    <2> HIDE DEF k
    <2>1. m \in 1..n /\ n - m + 1 = k /\ ~(m > n)
      BY <1>2, <1>3
    <2> HIDE DEF m
    <2>2. IsFiniteSet(m..n) /\ Cardinality(m..n) = IF m > n THEN 0 ELSE n - m + 1
      BY <2>1, FS_Interval
    <2> QED  BY <2>1, <2>2
  \* S has k elements and, with an element, holds all above: it is m..n.
  <1>5. S \subseteq m..n
    <2> SUFFICES ASSUME NEW i \in S, i < m  PROVE FALSE
      <3> HIDE DEF k
      <3> QED  BY <1>1, <1>2
    <2>1. i \in 1..n
      OBVIOUS
    <2>2. i..n \subseteq S
      OBVIOUS
    <2>3. Cardinality(i..n) <= k
      BY <1>2, <2>2, FS_Subset
    <2>4. Cardinality(i..n) = n - i + 1
      BY <2>1, FS_Interval
    <2> HIDE DEF k, S
    <2> QED  BY <1>2, <2>1, <2>3, <2>4
  <1>6. S = m..n
    <2>1. S \in SUBSET (m..n) /\ Cardinality(S) = Cardinality(m..n)
      BY <1>4, <1>5
    <2> HIDE DEF S, m, k
    <2> QED  BY <1>4, <2>1, FS_Subset
  <1>7. m \in S
    <2> HIDE DEF S, m, k
    <2> QED  BY <1>4, <1>6
  <1>8. PICK x \in T : x <= m
    <2> HIDE DEF m
    <2> QED  BY <1>7
  <1>9. \A y \in T : y \in S
    OBVIOUS
  <1>10. \A y \in T : m <= y
    <2> HIDE DEF S, m, k
    <2> QED  BY <1>4, <1>6, <1>9
  <1>11. x = m
    <2> HIDE DEF S, m, k
    <2> QED  BY <1>4, <1>8, <1>10
  <1> QED  BY <1>8, <1>10, <1>11

LEMMA BufferRefs ==
  ASSUME TypeOK, \A p \in DOMAIN readBuf : OnDisk(readBuf[p])
  PROVE  /\ readBuf \in Seq(Ref) /\ Len(readBuf) \in Nat
         /\ DOMAIN readBuf = 1..Len(readBuf)
         /\ \A p \in DOMAIN readBuf : At(readBuf[p]) \in Byte
  <1>1. disk \in Seq(Seq(Byte)) /\ readBuf \in Seq(Ref)
    BY DEF TypeOK
  <1>2. ASSUME NEW r, OnDisk(r)  PROVE At(r) \in Byte
    <2>1. disk[r[1]] \in Seq(Byte) /\ r[2] \in DOMAIN disk[r[1]]
      BY <1>1, <1>2 DEF OnDisk
    <2> QED  BY <2>1 DEF At
  <1> QED  BY <1>1, <1>2

\* A step that leaves the buffer alone, and is not the end of an extraction.
LEMMA BufferKept ==
  ASSUME BufferInv, TypeInv', UNCHANGED readBuf, Extracting => Extracting',
         \A p \in DOMAIN readBuf :
           OnDisk(readBuf[p])' /\ At(readBuf[p])' = At(readBuf[p])
  PROVE  BufferInv'
  BY DEF BufferInv, NoNewline

LEMMA BufferEnvironment ==
  ASSUME BufferInv, TypeInv', Environment
  PROVE  BufferInv'
  <1>1. UNCHANGED <<readBuf, pc>>
    BY DEF Environment, WriteByte, Truncate, Remove, Create, readVars
  <1>2. /\ Cur \in Nat \ {0} /\ disk[Cur] \in Seq(Byte) /\ disk \in Seq(Seq(Byte))
        /\ DOMAIN disk = 1..Len(disk) /\ Len(disk) \in Nat
    BY DiskFacts DEF BufferInv, TypeInv, TypeOK
  <1>3. ASSUME NEW k \in DOMAIN disk
        PROVE  /\ k \in DOMAIN disk' /\ DOMAIN disk[k] \subseteq DOMAIN disk'[k]
               /\ \A i \in DOMAIN disk[k] : disk'[k][i] = disk[k][i]
    <2>1. ASSUME NEW b \in Byte, WriteByte(b)
          PROVE  /\ k \in DOMAIN disk' /\ DOMAIN disk[k] \subseteq DOMAIN disk'[k]
                 /\ \A i \in DOMAIN disk[k] : disk'[k][i] = disk[k][i]
      <3>1. disk' = [disk EXCEPT ![Cur] = Append(disk[Cur], b)]
        BY <2>1 DEF WriteByte
      <3>2. /\ DOMAIN Append(disk[Cur], b) = 1..(Len(disk[Cur]) + 1)
            /\ DOMAIN disk[Cur] = 1..Len(disk[Cur]) /\ Len(disk[Cur]) \in Nat
            /\ \A i \in 1..Len(disk[Cur]) : Append(disk[Cur], b)[i] = disk[Cur][i]
        BY <1>2, AppendFacts
      <3>3. DOMAIN disk[Cur] \subseteq DOMAIN Append(disk[Cur], b)
        BY <3>2
      <3> QED  BY <1>2, <3>1, <3>2, <3>3
    <2>2. CASE Truncate \/ Create
      <3>1. disk' = Append(disk, <<>>)
        BY <2>2 DEF Truncate, Create
      <3>2. k \in DOMAIN disk' /\ disk'[k] = disk[k]
        BY <1>2, <3>1
      <3> QED  BY <3>2
    <2>3. CASE Remove
      BY <2>3 DEF Remove
    <2> QED  BY <2>1, <2>2, <2>3 DEF Environment
  <1>4. \A p \in DOMAIN readBuf :
          OnDisk(readBuf[p])' /\ At(readBuf[p])' = At(readBuf[p])
    BY <1>1, <1>3 DEF BufferInv, OnDisk, At
  <1> QED  BY <1>1, <1>4, BufferKept DEF Extracting

\* Only an idle Spy_File starts a thread: no poll stops an extraction.
LEMMA BufferMainLoop ==
  ASSUME BufferInv, TypeInv', MainLoop
  PROVE  BufferInv'
  <1>1. UNCHANGED <<disk, readBuf>>
    BY DEF MainLoop, TimerPoll, Dispatch, JobPoll, LineEvent, LineCall, EndCall,
           Pause, Resume, Poll, PollSkip, PollTruncatedToNothing,
           PollStartThread, fileVars, readVars
  <1>2. Extracting => pc' = pc
    <2> SUFFICES ASSUME Extracting PROVE pc' = pc  OBVIOUS
    <2>1. pollRunning
      BY DEF Extracting, Busy, BufferInv, TypeInv, Ownership, OneReader
    <2> QED  BY <2>1 DEF MainLoop, TimerPoll, Dispatch, JobPoll, LineEvent,
                LineCall, EndCall, Pause, Resume, Poll, PollSkip, NothingToDo,
                PollTruncatedToNothing, PollStartThread
  <1>3. \A p \in DOMAIN readBuf :
          OnDisk(readBuf[p])' /\ At(readBuf[p])' = At(readBuf[p])
    BY <1>1 DEF BufferInv, OnDisk, At
  <1> QED  BY <1>1, <1>2, <1>3, BufferKept DEF Extracting

LEMMA BufferReader ==
  ASSUME NUL \notin Text, "memory" \notin Faults,
         BufferInv, TypeInv', NEW t \in Threads, Reader(t)
  PROVE  BufferInv'
  <1>1. /\ readBuf \in Seq(Ref) /\ Len(readBuf) \in Nat
        /\ DOMAIN readBuf = 1..Len(readBuf)
        /\ \A p \in DOMAIN readBuf : At(readBuf[p]) \in Byte
    BY BufferRefs DEF BufferInv, TypeInv
  <1>2. UNCHANGED disk
    BY DEF Reader, ReadChunk, ReadFails, SkipNewline, PostLine, ReadDone,
           NoMemory, ReturnFromThread, fileVars
  <1>3. /\ \A u \in Threads \ {t} : pc[u] = "idle"
        /\ pc \in [Threads -> {"idle", "open", "extract"}]
    BY Alone DEF BufferInv
  <1>4. ASSUME Extracting', \A p \in DOMAIN readBuf' : OnDisk(readBuf'[p])
        PROVE  BufferInv'
    BY <1>2, <1>4 DEF BufferInv, OnDisk
  <1>5. ASSUME NoNewline, UNCHANGED readBuf  PROVE BufferInv'
    BY <1>2, <1>5 DEF BufferInv, NoNewline, OnDisk, At
  <1>6. CASE ReadChunk(t)
    <2>1. /\ readBuf' = readBuf \o Chunk /\ pc' = [pc EXCEPT ![t] = "extract"]
      BY <1>6 DEF ReadChunk, Chunk
    <2>2. /\ Available \in Nat /\ (Available > 0 => readOffset + Available <= Size)
          /\ Chunk \in Seq(Ref) /\ Len(Chunk) = Available
          /\ \A i \in 1..Available : Chunk[i] = <<Cur, readOffset + i>>
          /\ readOffset \in Nat /\ Cur \in DOMAIN disk
          /\ DOMAIN disk[Cur] = 1..Size /\ Size \in Nat
      <3>1. TypeOK /\ readOffset \in Nat
        BY DEF BufferInv, TypeInv, TypeOK
      <3>2. disk[Cur] \in Seq(Byte)
        BY <3>1, DiskFacts
      <3>3. DOMAIN disk[Cur] = 1..Size
        BY <3>2 DEF Size
      <3> QED  BY <3>1, <3>3, ChunkFacts, DiskFacts
    <2>3. \A i \in 1..Available : OnDisk(Chunk[i])
      <3> TAKE i \in 1..Available
      <3>1. readOffset + i \in 1..Size
        BY <2>2
      <3> QED  BY <2>2, <3>1 DEF OnDisk
    <2>4. \A p \in DOMAIN readBuf' : OnDisk(readBuf'[p])
      <3>1. /\ Len(readBuf \o Chunk) = Len(readBuf) + Available
            /\ readBuf \o Chunk \in Seq(Ref)
            /\ \A i \in 1..(Len(readBuf) + Available) :
                 (readBuf \o Chunk)[i] = IF i <= Len(readBuf) THEN readBuf[i]
                                         ELSE Chunk[i - Len(readBuf)]
        BY <1>1, <2>2, ConcatProperties
      <3>2. DOMAIN readBuf' = 1..(Len(readBuf) + Available)
        BY <2>1, <3>1
      <3> TAKE p \in DOMAIN readBuf'
      <3>3. CASE p <= Len(readBuf)
        <4>1. p \in DOMAIN readBuf /\ readBuf'[p] = readBuf[p]
          BY <1>1, <2>1, <3>1, <3>2, <3>3
        <4> QED  BY <4>1 DEF BufferInv
      <3>4. CASE ~(p <= Len(readBuf))
        <4>1. /\ p - Len(readBuf) \in 1..Available
              /\ readBuf'[p] = Chunk[p - Len(readBuf)]
          BY <1>1, <2>1, <2>2, <3>1, <3>2, <3>4
        <4> QED  BY <2>3, <4>1
      <3> QED  BY <3>3, <3>4
    <2>5. Extracting'
      BY <1>3, <2>1 DEF Extracting
    <2> QED  BY <1>4, <2>4, <2>5
  <1>7. CASE ReadFails(t)
    <2>1. ~Extracting /\ UNCHANGED readBuf
      BY <1>3, <1>7 DEF ReadFails, Extracting
    <2> QED  BY <1>5, <2>1 DEF BufferInv
  <1>8. CASE SkipNewline(t)
    <2>1. readBuf # <<>> /\ readBuf' = Tail(readBuf)
      BY <1>8 DEF SkipNewline, NewlineAt
    <2>2. /\ DOMAIN readBuf' = 1..(Len(readBuf) - 1)
          /\ \A i \in 1..(Len(readBuf) - 1) : readBuf'[i] = readBuf[i + 1]
      BY <1>1, <2>1, TailFacts
    <2>3. \A p \in DOMAIN readBuf' : p + 1 \in DOMAIN readBuf
      BY <1>1, <2>2
    <2>4. \A p \in DOMAIN readBuf' : OnDisk(readBuf'[p])
      BY <2>2, <2>3 DEF BufferInv
    <2>5. Extracting'
      BY <1>8 DEF SkipNewline, Extracting
    <2> QED  BY <1>4, <2>4, <2>5
  <1>9. CASE PostLine(t)
    <2>1. PICK p \in DOMAIN readBuf : readBuf' = SubSeq(readBuf, p, Len(readBuf))
      BY <1>9 DEF PostLine
    <2>2. /\ p \in Nat \ {0} /\ p <= Len(readBuf)
          /\ readBuf' \in Seq(Ref) /\ Len(readBuf') = Len(readBuf) - p + 1
          /\ \A i \in 1..(Len(readBuf) - p + 1) : readBuf'[i] = readBuf[p + i - 1]
      BY <1>1, <2>1, CutFacts
    <2>3. DOMAIN readBuf' = 1..(Len(readBuf) - p + 1)
      BY <2>2
    <2>4. \A i \in DOMAIN readBuf' : p + i - 1 \in DOMAIN readBuf
      BY <1>1, <2>2, <2>3
    <2>5. \A i \in DOMAIN readBuf' : OnDisk(readBuf'[i])
      BY <2>2, <2>3, <2>4 DEF BufferInv
    <2>6. Extracting'
      BY <1>9 DEF PostLine, Extracting
    <2> QED  BY <1>4, <2>5, <2>6
  <1>10. CASE ReadDone(t)
    <2> DEFINE T == {p \in 1..Len(readBuf) : At(readBuf[p]) = NL}
    <2>1. NoNewline
      <3> SUFFICES ASSUME T # {} PROVE FALSE
        BY <1>1 DEF NoNewline
      <3>1. PICK m \in T : \A p \in T : m <= p
        <4>1. T \in SUBSET (1..Len(readBuf))
          OBVIOUS
        <4> HIDE DEF T
        <4> QED  BY <1>1, <4>1, LeastOf
      <3>2. m \in 1..Len(readBuf) /\ At(readBuf[m]) = NL
        OBVIOUS
      \* No newline, and no NUL byte, comes before the first one.
      <3>3. ASSUME NEW q \in 1..(m - 1)  PROVE At(readBuf[q]) \notin {NL, NUL}
        <4>1. q \in 1..Len(readBuf) /\ ~(m <= q)
          BY <1>1, <3>2
        <4>2. q \notin T
          <5> HIDE DEF T
          <5> QED  BY <3>1, <4>1
        <4>3. At(readBuf[q]) # NL
          BY <4>1, <4>2
        <4>4. At(readBuf[q]) \in Byte
          BY <1>1, <4>1
        <4> QED  BY <4>3, <4>4, SpyAssumption DEF Byte
      <3>4. NewlineAt(m)
        BY <1>1, <3>2, <3>3 DEF NewlineAt
      <3> QED  BY <1>1, <1>10, <3>2, <3>4 DEF ReadDone
    <2>2. UNCHANGED readBuf
      BY <1>10 DEF ReadDone, ReturnFromThread, readVars
    <2> QED  BY <1>5, <2>1, <2>2
  <1>11. ~NoMemory(t)
    BY DEF NoMemory, Fault
  <1> QED  BY <1>6, <1>7, <1>8, <1>9, <1>10, <1>11 DEF Reader

LEMMA BufferInit == Init => BufferInv
  <1> SUFFICES ASSUME Init PROVE BufferInv  OBVIOUS
  <1>1. DOMAIN readBuf = {}
    BY DEF Init
  <1> QED  BY <1>1, TypeInit DEF BufferInv, NoNewline

LEMMA BufferStep ==
  ASSUME NUL \notin Text, "memory" \notin Faults
  PROVE  BufferInv /\ [Next]_vars => BufferInv'
  <1> SUFFICES ASSUME BufferInv, [Next]_vars PROVE BufferInv'  OBVIOUS
  <1>1. TypeInv'
    BY TypeStep DEF BufferInv
  <1>2. CASE Environment
    BY <1>1, <1>2, BufferEnvironment
  <1>3. CASE MainLoop
    BY <1>1, <1>3, BufferMainLoop
  <1>4. CASE \E t \in Threads : Reader(t)
    BY <1>1, <1>4, BufferReader
  <1>5. CASE UNCHANGED vars
    BY <1>1, <1>5 DEF vars, fileVars, readVars, BufferInv, NoNewline, OnDisk, At,
       Extracting
  <1> QED  BY <1>2, <1>3, <1>4, <1>5 DEF Next

(***************************************************************************)
(* No thread of libspy ends with a complete line in its buffer, however    *)
(* the file is written, rotated and read - as long as the writers put no   *)
(* NUL byte in it and no Spy_Line is refused: both assumptions are needed. *)
(***************************************************************************)
THEOREM NothingHeldBackAlways ==
  ASSUME NUL \notin Text, "memory" \notin Faults
  PROVE  Spec => []NothingHeldBack
  <1>1. BufferInv => NothingHeldBack
    BY DEF BufferInv, NothingHeldBack, NoNewline, Extracting, Busy
  <1>2. BufferInv /\ [Next]_vars => BufferInv'
    BY BufferStep
  <1> QED  BY <1>1, <1>2, BufferInit, PTL DEF Spec
=============================================================================

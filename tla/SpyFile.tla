------------------------------ MODULE SpyFile -------------------------------
(***************************************************************************)
(* libspy on one file (src/src/lib/spy): a 0.3 s timer of the main loop    *)
(* calls spy_file_poll, which compares the size of the file with the size  *)
(* already read and starts a thread for the difference; the thread reads,  *)
(* cuts the buffered bytes into lines and hands each line to the main loop *)
(* through an asynchronous call; the call queues a SPY_EVENT_LINE; the end *)
(* of the thread queues a job that polls again at once.                    *)
(*                                                                         *)
(* The file lives outside the program: writers append to it, and it can be *)
(* truncated in place, removed and created again at any moment.  Each      *)
(* truncation or creation begins a new incarnation of the file, and a byte *)
(* that was read is remembered by where it came from: <<incarnation,       *)
(* position>>.  An incarnation only grows, so a reference never changes    *)
(* its meaning.                                                            *)
(***************************************************************************)
EXTENDS Integers, Sequences, FiniteSets

CONSTANTS Text,       \* the bytes writers put in lines (NUL may be one)
          NL, NUL,    \* the newline byte, the terminator of a C string
          Threads,    \* the worker threads of Ecore's pool
          Faults,     \* the failures that may happen, see FaultKind
          MaxLen,     \* bound: the bytes of one incarnation
          MaxInc,     \* bound: the incarnations of the file
          MaxFaults   \* bound: the failures of one behaviour

FaultKind == {"thread", "read", "memory"}

ASSUME SpyAssumption ==
  /\ NL \notin Text /\ NL # NUL
  /\ Threads # {}
  /\ Faults \subseteq FaultKind
  /\ MaxLen \in Nat /\ MaxInc \in Nat \ {0} /\ MaxFaults \in Nat

VARIABLES
  disk,        \* the incarnations of the file; the last is the current one
  present,     \* the path names a file
  faults,      \* the number of failures so far
  pollSize, pollRunning, pollPause,                      \* sf->poll
  readOffset, readLength, readNbr, readBuf, readError,   \* sf->read
  pc,          \* what each worker thread is doing for this Spy_File
  lines,       \* every Spy_Line allocated, by address
  calls,       \* calls the threads asked the main loop to make
  events,      \* the main loop's event queue
  delivered,   \* the Spy_Lines given to the SPY_EVENT_LINE handlers
  start        \* the size of the file when spy_file_new was called

fileVars  == <<disk, present>>
pollVars  == <<pollSize, pollRunning, pollPause>>
readVars  == <<readOffset, readLength, readNbr, readBuf, readError>>
queueVars == <<calls, events>>
histVars  == <<lines, delivered>>
vars == <<fileVars, faults, pollVars, readVars, pc, queueVars, histVars, start>>

Byte == Text \cup {NL}
Ref  == (Nat \ {0}) \X (Nat \ {0})

\* A queued call or event is the address of a Spy_Line, or one of these.
End == 0   \* in calls: the thread is over, call _spy_file_end_cb
Job == 0   \* in events: call _spy_file_job

Cur  == Len(disk)                          \* the current incarnation
Size == Len(disk[Cur])                     \* st_size of the current one
At(ref) == disk[ref[1]][ref[2]]            \* the byte a reference stands for
Least(m, n) == IF m < n THEN m ELSE n

(***************************************************************************)
(* The state spy_file_new leaves: nothing read, poll.size at the end of    *)
(* whatever the file held.                                                 *)
(***************************************************************************)
Init ==
  /\ disk \in {<<s>> : s \in UNION {[1..n -> Byte] : n \in 0..MaxLen}}
  /\ present = TRUE
  /\ faults = 0
  /\ start = Size
  /\ pollSize = start /\ pollRunning = FALSE /\ pollPause = FALSE
  /\ readOffset = 0 /\ readLength = 0 /\ readNbr = 0
  /\ readBuf = <<>> /\ readError = FALSE
  /\ pc = [t \in Threads |-> "idle"]
  /\ lines = <<>> /\ delivered = <<>>
  /\ calls = <<>> /\ events = <<>>

-----------------------------------------------------------------------------
(***************************************************************************)
(* The world outside: the writers of the log, and whoever rotates it.      *)
(***************************************************************************)
WriteByte(b) ==
  /\ present /\ Size < MaxLen
  /\ disk' = [disk EXCEPT ![Cur] = Append(@, b)]
  /\ UNCHANGED <<present, faults, pollVars, readVars, pc, queueVars, histVars, start>>

Truncate ==
  /\ present /\ Size > 0 /\ Cur < MaxInc
  /\ disk' = Append(disk, <<>>)
  /\ UNCHANGED <<present, faults, pollVars, readVars, pc, queueVars, histVars, start>>

Remove ==
  /\ present /\ Cur < MaxInc
  /\ present' = FALSE
  /\ UNCHANGED <<disk, faults, pollVars, readVars, pc, queueVars, histVars, start>>

Create ==
  /\ ~present
  /\ disk' = Append(disk, <<>>)
  /\ present' = TRUE
  /\ UNCHANGED <<faults, pollVars, readVars, pc, queueVars, histVars, start>>

Environment ==
  \/ \E b \in Byte : WriteByte(b)
  \/ Truncate \/ Remove \/ Create

Fault(kind) ==
  /\ kind \in Faults /\ faults < MaxFaults
  /\ faults' = faults + 1

-----------------------------------------------------------------------------
(***************************************************************************)
(* spy_file_poll.                                                          *)
(***************************************************************************)
\* Mutant: a poll does not mind a thread that is still at work.
NothingToDo_Reentrant == pollPause \/ ~present \/ pollSize = Size

NothingToDo == pollRunning \/ pollPause \/ ~present \/ pollSize = Size

PollSkip ==
  /\ NothingToDo
  /\ UNCHANGED <<pollVars, readVars, pc, faults>>

PollTruncatedToNothing ==
  /\ ~NothingToDo
  /\ pollSize > Size /\ Size = 0
  /\ pollSize' = 0
  /\ UNCHANGED <<pollRunning, pollPause, readVars, pc, faults>>

\* Mutant: a truncated file is not read from its beginning.
StartOffset_NotReset == pollSize

StartOffset == IF pollSize > Size THEN 0 ELSE pollSize

PollStartThread ==
  /\ ~NothingToDo
  /\ Size # 0
  /\ pollSize' = StartOffset
  /\ readOffset' = StartOffset
  /\ readLength' = Size - StartOffset
  /\ pollRunning' = TRUE
  /\ readError' = FALSE
  /\ \/ \E t \in Threads :
          /\ pc[t] = "idle"
          /\ pc' = [pc EXCEPT ![t] = "open"]
          /\ UNCHANGED faults
     \/ Fault("thread") /\ UNCHANGED pc
  /\ UNCHANGED <<pollPause, readNbr, readBuf>>

Poll == PollSkip \/ PollTruncatedToNothing \/ PollStartThread

TimerPoll ==
  /\ Poll
  /\ UNCHANGED <<fileVars, queueVars, histVars, start>>

JobPoll ==
  /\ events # <<>> /\ Head(events) = Job
  /\ events' = Tail(events)
  /\ Poll
  /\ UNCHANGED <<fileVars, calls, histVars, start>>

(***************************************************************************)
(* The other callbacks of the main loop.                                   *)
(***************************************************************************)
LineCall ==                                            \* _spy_file_event
  /\ calls # <<>> /\ Head(calls) # End
  /\ calls' = Tail(calls)
  /\ events' = Append(events, Head(calls))
  /\ UNCHANGED <<fileVars, faults, pollVars, readVars, pc, histVars, start>>

\* Mutant: the early return on a failed read comes before the reset.
EndCall_KeepsRunning ==
  /\ calls # <<>> /\ Head(calls) = End
  /\ calls' = Tail(calls)
  /\ readError' = FALSE
  /\ IF readError THEN UNCHANGED <<pollRunning, events>>
     ELSE pollRunning' = FALSE /\ events' = Append(events, Job)
  /\ UNCHANGED <<fileVars, faults, pollSize, pollPause, readOffset, readLength,
                 readNbr, readBuf, pc, histVars, start>>

EndCall ==                                             \* _spy_file_end_cb
  /\ calls # <<>> /\ Head(calls) = End
  /\ calls' = Tail(calls)
  /\ pollRunning' = FALSE
  /\ readError' = FALSE
  /\ events' = IF readError THEN events ELSE Append(events, Job)
  /\ UNCHANGED <<fileVars, faults, pollSize, pollPause, readOffset, readLength,
                 readNbr, readBuf, pc, histVars, start>>

LineEvent ==                              \* the handlers of SPY_EVENT_LINE
  /\ events # <<>> /\ Head(events) # Job
  /\ events' = Tail(events)
  /\ delivered' = Append(delivered, Head(events))
  /\ UNCHANGED <<fileVars, faults, pollVars, readVars, pc, calls, lines, start>>

Pause ==                                               \* spy_file_pause
  /\ ~pollPause /\ pollPause' = TRUE
  /\ UNCHANGED <<fileVars, faults, pollSize, pollRunning, readVars, pc,
                 queueVars, histVars, start>>

Resume ==                                              \* spy_file_resume
  /\ pollPause /\ pollPause' = FALSE
  /\ UNCHANGED <<fileVars, faults, pollSize, pollRunning, readVars, pc,
                 queueVars, histVars, start>>

Dispatch == LineEvent \/ JobPoll
MainLoop == TimerPoll \/ LineCall \/ EndCall \/ Dispatch \/ Pause \/ Resume

-----------------------------------------------------------------------------
(***************************************************************************)
(* The reading thread, _spy_file_cb.  All it works on is in the Spy_File.  *)
(***************************************************************************)
Available == Least(readLength, IF Size > readOffset THEN Size - readOffset ELSE 0)

\* Mutant: the chunk replaces the beginning of a line kept from the last read.
ReadChunk_Overwrites(t) ==
  /\ pc[t] = "open" /\ present
  /\ readNbr' = Available
  /\ readBuf' = [i \in 1..Available |-> <<Cur, readOffset + i>>]
  /\ pc' = [pc EXCEPT ![t] = "extract"]
  /\ UNCHANGED <<fileVars, faults, pollVars, readOffset, readLength, readError,
                 queueVars, histVars, start>>

ReadChunk(t) ==
  /\ pc[t] = "open" /\ present
  /\ readNbr' = Available
  /\ readBuf' = readBuf \o [i \in 1..Available |-> <<Cur, readOffset + i>>]
  /\ pc' = [pc EXCEPT ![t] = "extract"]
  /\ UNCHANGED <<fileVars, faults, pollVars, readOffset, readLength, readError,
                 queueVars, histVars, start>>

ReadFails(t) ==
  /\ pc[t] = "open"
  /\ \/ ~present /\ readNbr' = 0 /\ UNCHANGED faults          \* open
     \/ present /\ readNbr' = -1 /\ Fault("read")             \* pread
  /\ readError' = TRUE
  /\ pc' = [pc EXCEPT ![t] = "idle"]
  /\ calls' = Append(calls, End)
  /\ UNCHANGED <<fileVars, pollVars, readOffset, readLength, readBuf, events,
                 histVars, start>>

(***************************************************************************)
(* _spy_file_line_extract.  strchr finds a newline at p only if no NUL     *)
(* comes before it.                                                        *)
(***************************************************************************)
NewlineAt(p) ==
  /\ p \in DOMAIN readBuf
  /\ At(readBuf[p]) = NL
  /\ \A q \in 1..(p - 1) : At(readBuf[q]) \notin {NL, NUL}

SkipNewline(t) ==
  /\ pc[t] = "extract" /\ NewlineAt(1)
  /\ readBuf' = Tail(readBuf)
  /\ UNCHANGED <<fileVars, faults, pollVars, readOffset, readLength, readNbr,
                 readError, pc, queueVars, histVars, start>>

PostLine(t) ==
  /\ pc[t] = "extract"
  /\ \E p \in DOMAIN readBuf :
       /\ NewlineAt(p) /\ p > 1
       /\ lines' = Append(lines, SubSeq(readBuf, 1, p - 1))
       /\ readBuf' = SubSeq(readBuf, p, Len(readBuf))
  /\ calls' = Append(calls, Len(lines'))
  /\ UNCHANGED <<fileVars, faults, pollVars, readOffset, readLength, readNbr,
                 readError, pc, events, delivered, start>>

\* Mutant: the bytes read are not added to poll.size.
ReturnFromThread_NotCounted(t) ==
  /\ pc' = [pc EXCEPT ![t] = "idle"]
  /\ calls' = Append(calls, End)
  /\ UNCHANGED <<fileVars, pollVars, readVars, events, histVars, start>>

ReturnFromThread(t) ==
  /\ pollSize' = pollSize + readNbr
  /\ pc' = [pc EXCEPT ![t] = "idle"]
  /\ calls' = Append(calls, End)
  /\ UNCHANGED <<fileVars, pollRunning, pollPause, readVars, events, histVars, start>>

\* Mutant: one line is extracted for each read, not every line.
ReadDone_OneLine(t) ==
  /\ pc[t] = "extract"
  /\ ReturnFromThread(t)
  /\ UNCHANGED faults

ReadDone(t) ==
  /\ pc[t] = "extract"
  /\ \A p \in DOMAIN readBuf : ~NewlineAt(p)
  /\ ReturnFromThread(t)
  /\ UNCHANGED faults

NoMemory(t) ==                \* calloc of a Spy_Line fails: extraction stops
  /\ pc[t] = "extract"
  /\ \E p \in DOMAIN readBuf : NewlineAt(p) /\ p > 1
  /\ Fault("memory")
  /\ ReturnFromThread(t)

Reader(t) ==
  \/ ReadChunk(t) \/ ReadFails(t)
  \/ SkipNewline(t) \/ PostLine(t) \/ ReadDone(t) \/ NoMemory(t)

-----------------------------------------------------------------------------
Next == Environment \/ MainLoop \/ \E t \in Threads : Reader(t)

Spec == Init /\ [][Next]_vars

(***************************************************************************)
(* The timer keeps firing, the main loop drains both of its queues, and a  *)
(* started thread runs to its end.  Nothing is assumed of the writers, of  *)
(* the failures, or of whoever pauses and resumes.                         *)
(***************************************************************************)
Fairness ==
  /\ WF_vars(TimerPoll)
  /\ WF_vars(LineCall) /\ WF_vars(EndCall) /\ WF_vars(Dispatch)
  /\ \A t \in Threads : WF_vars(Reader(t))

FairSpec == Spec /\ Fairness

-----------------------------------------------------------------------------
Line == Seq(Ref)

(***************************************************************************)
(* Every variable keeps its type; a read never has a negative length.      *)
(***************************************************************************)
TypeOK ==
  /\ disk \in Seq(Seq(Byte)) /\ Cur >= 1 /\ present \in BOOLEAN
  /\ faults \in Nat /\ start \in Nat
  /\ pollSize \in Nat /\ pollRunning \in BOOLEAN /\ pollPause \in BOOLEAN
  /\ readOffset \in Nat /\ readLength \in Nat /\ readNbr \in Nat \cup {-1}
  /\ readBuf \in Seq(Ref) /\ readError \in BOOLEAN
  /\ pc \in [Threads -> {"idle", "open", "extract"}]
  /\ lines \in Seq(Line) /\ delivered \in Seq(Nat)
  /\ calls \in Seq(Nat) /\ events \in Seq(Nat)

Busy(t) == pc[t] # "idle"
EndPending == {i \in DOMAIN calls : calls[i] = End}

(***************************************************************************)
(* The fields the thread and the main loop share (poll.size and all of     *)
(* sf->read) have one user at a time.  From the launch of a thread to its  *)
(* end callback poll.running is set, there is one thread or one end call   *)
(* on its way, never two of them and never both.                           *)
(***************************************************************************)
OneReader ==
  /\ \A t, u \in Threads : Busy(t) /\ Busy(u) => t = u
  /\ \A i, j \in EndPending : i = j
  /\ EndPending # {} => \A t \in Threads : ~Busy(t)
  /\ EndPending # {} \/ (\E t \in Threads : Busy(t)) => pollRunning

Before(r, s) == r[1] < s[1] \/ (r[1] = s[1] /\ r[2] < s[2])

(***************************************************************************)
(* No byte of the file is reported twice or out of order, whatever is      *)
(* truncated, removed or created between a stat and the read it starts:    *)
(* the handlers are given each Spy_Line once, in the order of allocation,  *)
(* and the bytes of the lines go strictly forward through the file and its *)
(* incarnations.                                                           *)
(***************************************************************************)
InOrderOnce ==
  /\ \A n \in DOMAIN delivered : delivered[n] = n
  /\ \A n \in DOMAIN lines : \A i, j \in DOMAIN lines[n] :
        i < j => Before(lines[n][i], lines[n][j])
  /\ \A m, n \in DOMAIN lines : m < n =>
        \A i \in DOMAIN lines[m], j \in DOMAIN lines[n] :
           Before(lines[m][i], lines[n][j])

(***************************************************************************)
(* "For each line found, this function will initiate a SPY_EVENT_LINE      *)
(* event" (_spy_file_line_extract): when no thread is at work, the buffer  *)
(* holds at most the beginning of one line.                                *)
(***************************************************************************)
NothingHeldBack ==
  (\A t \in Threads : ~Busy(t)) =>
    \A p \in DOMAIN readBuf : At(readBuf[p]) # NL

(***************************************************************************)
(* "Libspy is also able to detect a truncate, to reset its internals and   *)
(* go back to begin of file" (smman.dox): no reported line is made of      *)
(* bytes of two incarnations of the file.                                  *)
(***************************************************************************)
NoGluedLine ==
  \A n \in DOMAIN delivered :
    \A i, j \in DOMAIN lines[delivered[n]] :
      lines[delivered[n]][i][1] = lines[delivered[n]][j][1]

(***************************************************************************)
(* Unless it is left paused, the spy catches up with the size of the file  *)
(* whenever the file rests, also after truncations and after failed reads. *)
(***************************************************************************)
CatchesUp == <>[]~pollPause => []<>(~present \/ pollSize = Size)

-----------------------------------------------------------------------------
(* The lines reported so far are the output of a LineFeed. *)
Span(n) == <<lines[n][1][2], lines[n][Len(lines[n])][2]>>

Feed == INSTANCE LineFeed WITH
  text <- disk[1],
  mark <- IF delivered = <<>> THEN start
          ELSE Span(delivered[Len(delivered)])[2],
  out  <- [n \in DOMAIN delivered |-> Span(delivered[n])]

(***************************************************************************)
(* As long as the log is only appended to, the spy implements LineFeed:    *)
(* each step reports the next complete line of the file, once, in order,   *)
(* none left out.  The promise ends with the first truncation or removal.  *)
(***************************************************************************)
FeedSafety ==
  /\ Feed!FeedInit
  /\ [][(Cur = 1 /\ present)' => Feed!FeedNext]_(Feed!feedVars)

(***************************************************************************)
(* A log that is only ever appended to leaves no complete line unreported  *)
(* for ever, unless it is left paused.                                     *)
(***************************************************************************)
FeedLiveness ==
  [](Cur = 1 /\ present) /\ <>[]~pollPause => Feed!FeedLiveness

\* The byte at position p of incarnation k belongs to a complete line.
InCompleteLine(k, p) ==
  /\ Cur = k /\ p \in DOMAIN disk[k] /\ (k = 1 => p > start)
  /\ disk[k][p] # NL
  /\ \E q \in DOMAIN disk[k] : q > p /\ disk[k][q] = NL

ReportedByte(k, p) ==
  \E n \in DOMAIN delivered : \E i \in DOMAIN lines[delivered[n]] :
    lines[delivered[n]][i] = <<k, p>>

(***************************************************************************)
(* "This function will add a timer that will periodically look for changes *)
(* on the file, and report every new line inserted into it" (spy_file_new) *)
(***************************************************************************)
EveryLineReported ==
  <>[]~pollPause =>
    \A k \in 1..MaxInc, p \in 1..MaxLen :
      InCompleteLine(k, p) ~> (ReportedByte(k, p) \/ Cur # k)
=============================================================================

-------------------------------- MODULE Lines --------------------------------
(***************************************************************************)
(* smman as a whole: the lines written to the log files, from the thread   *)
(* that reads them to store_add (src/src/bin/log.c), while the             *)
(* configuration (config.c) and the rules are being loaded, and while the  *)
(* filters come, pause, resume and go as in Reload.                        *)
(*                                                                         *)
(* A file is a sequence of whole lines that only grows, and a reading      *)
(* thread hands over all the lines of a chunk in one step: how a chunk is  *)
(* cut into lines, and what rotation and failed reads do, is in SpyFile.   *)
(* What comes of a document that store_add took is in Store.  The order of *)
(* the regexes of a rule and of the rules of a filter is in LogMatch: here *)
(* a line is dropped if any rule that matches it deletes.                  *)
(***************************************************************************)
EXTENDS Reload

CONSTANTS Kind,      \* the lines that may be written, by what they say
          Matching,  \* the rule files whose regexes a line matches
          Deleting,  \* the rule files with "delete"
          Hosting,   \* the rule files with "source_host"
          Given,     \* the variables smman.conf sets, see Variable
          MaxLines   \* bound: the lines written

Variable == {"server", "host"}

ASSUME LinesAssumption ==
  /\ Matching \in [Kind -> SUBSET RuleFile]
  /\ Deleting \subseteq RuleFile /\ Hosting \subseteq RuleFile
  /\ Given \subseteq Variable
  /\ MaxLines \in Nat

VARIABLES
  conf,     \* the loading of smman.conf
  written,  \* every line written to a log file since the start, in order
  spied,    \* what the Spy_File of each Filter has read and is reading
  line,     \* every Spy_Line, by address
  calls,    \* the calls threads asked the main loop to make
  events    \* the main loop's event queue

queueVars == <<calls, events>>
lineVars == <<conf, written, spied, line, queueVars>>

\* A queued call or event concerns a Spy_File: a Spy_Line of it, or this.
None == 0  \* in calls: the thread is over; in events: poll at once

(***************************************************************************)
(* A Spy_File starts at the end of its file, and with no thread.  It       *)
(* remembers how many of the lines written so far are behind it, and up to *)
(* which one its thread is to read.                                        *)
(***************************************************************************)
NewSpy == [from |-> Len(written), past |-> Len(written), upto |-> 0, thread |-> "none"]

\* main has called conf_load; if there is no smman.conf, it stays that way.
LineInit ==
  /\ Init
  /\ conf = "asked"
  /\ written = <<>> /\ spied = <<>> /\ line = <<>>
  /\ calls = <<>> /\ events = <<>>

-----------------------------------------------------------------------------
(***************************************************************************)
(* config_done, and config_error.  Without a server, config_done takes the *)
(* length of a null string.                                                *)
(***************************************************************************)
Crash == UseAfterFree /\ UNCHANGED lineVars    \* whatever undefined behaviour

ConfigDone ==
  /\ conf = "asked"
  /\ IF "server" \notin Given THEN Crash
     ELSE /\ conf' = "done"
          /\ UNCHANGED <<vars, written, spied, line, queueVars>>

ConfigError ==
  /\ "mmap" \in Faults /\ conf = "asked"
  /\ conf' = "failed" /\ quit' = TRUE
  /\ UNCHANGED <<dirVars, loadVars, filterVars, undefined,
                 written, spied, line, queueVars>>

\* Mutant: the variable is looked up under another name.
HasHost_OtherName == conf = "done" /\ "hostname" \in Given

HasHost == conf = "done" /\ "host" \in Given   \* smman->cfg.host
HasStore == conf = "done"                      \* smman->store

-----------------------------------------------------------------------------
WriteLine(f, k) ==
  /\ Len(written) < MaxLines
  /\ written' = Append(written, [file |-> f, kind |-> k])
  /\ UNCHANGED <<vars, conf, spied, line, queueVars>>

(***************************************************************************)
(* spy_file_poll, by the timer of a Spy_File, which spy_file_free deletes, *)
(* or by a job, which it does not.                                         *)
(***************************************************************************)
Unread(n) ==
  {i \in DOMAIN written : i > spied[n].past /\ written[i].file = filter[n].file}

Poll(n) ==
  IF spied[n].thread # "none" \/ filter[n].pause \/ Unread(n) = {}
  THEN UNCHANGED spied
  ELSE spied' = [spied EXCEPT ![n].upto = Len(written), ![n].thread = "reading"]

TimerPoll(n) ==
  /\ Live(n) /\ Poll(n)
  /\ UNCHANGED <<vars, conf, written, line, queueVars>>

JobPoll ==
  /\ events # <<>> /\ Head(events).line = None
  /\ IF ~Live(Head(events).spy) THEN Crash
     ELSE /\ Poll(Head(events).spy)
          /\ events' = Tail(events)
          /\ UNCHANGED <<vars, conf, written, line, calls>>

(***************************************************************************)
(* The reading thread, which works on its Spy_File, and what the main loop *)
(* is asked to call for it: _spy_file_event for each line and              *)
(* _spy_file_end_cb at the end.  Only the latter looks at the Spy_File.    *)
(***************************************************************************)
Read(n) ==
  /\ spied[n].thread = "reading"
  /\ IF ~Live(n) THEN Crash
     ELSE \E s \in InGlobOrder({i \in Unread(n) : i <= spied[n].upto}) :
       /\ line' = line \o [i \in DOMAIN s |-> [spy |-> n, entry |-> s[i], at |-> "call"]]
       /\ calls' = calls \o [i \in DOMAIN s |-> [spy |-> n, line |-> Len(line) + i]]
                         \o <<[spy |-> n, line |-> None]>>
       /\ spied' = [spied EXCEPT ![n].past = spied[n].upto, ![n].thread = "ended"]
       /\ UNCHANGED <<vars, conf, written, events>>

LineCall ==
  /\ calls # <<>> /\ Head(calls).line # None
  /\ calls' = Tail(calls)
  /\ events' = Append(events, Head(calls))
  /\ line' = [line EXCEPT ![Head(calls).line].at = "event"]
  /\ UNCHANGED <<vars, conf, written, spied>>

EndCall ==
  /\ calls # <<>> /\ Head(calls).line = None
  /\ LET n == Head(calls).spy
     IN  IF ~Live(n) THEN Crash
         ELSE /\ spied' = [spied EXCEPT ![n].thread = "none"]
              /\ calls' = Tail(calls)
              /\ events' = Append(events, Head(calls))
              /\ UNCHANGED <<vars, conf, written, line>>

-----------------------------------------------------------------------------
(***************************************************************************)
(* log_line_event.  _log_send copies the host of the document, and         *)
(* store_add looks at the store, without asking whether there is one.      *)
(* Whether store_add refuses the document makes no difference to smman.    *)
(***************************************************************************)
RulesFor(a) ==
  {rule.file : rule \in filter[line[a].spy].rules} \cap Matching[written[line[a].entry].kind]

Deleted(a) == RulesFor(a) \cap Deleting # {}

Sendable(a) == HasStore /\ (HasHost \/ RulesFor(a) \cap Hosting # {})

LineEvent ==
  /\ events # <<>> /\ Head(events).line # None
  /\ LET a == Head(events).line
         Leaves(at) ==
           /\ line' = [line EXCEPT ![a].at = at]
           /\ events' = Tail(events)
           /\ UNCHANGED <<vars, conf, written, spied, calls>>
     IN  IF Live(line[a].spy) /\ Deleted(a) THEN Leaves("deleted")
         ELSE IF Live(line[a].spy) /\ Sendable(a) THEN Leaves("sent")
         ELSE Crash

-----------------------------------------------------------------------------
Spy(n) == TimerPoll(n) \/ Read(n)
Calls == LineCall \/ EndCall
Events == LineEvent \/ JobPoll

(***************************************************************************)
(* A step of Reload.  Each filter it adds comes with a new Spy_File.       *)
(***************************************************************************)
\* Mutant: the Spy_File of a new filter is not kept.
Reloads_NotKept(step) ==
  /\ step
  /\ UNCHANGED lineVars

Reloads(step) ==
  /\ step
  /\ spied' = spied \o [i \in 1..(Len(filter') - Len(filter)) |-> NewSpy]
  /\ UNCHANGED <<conf, written, line, queueVars>>

LineNext ==
  \/ Reloads(Next)
  \/ Running /\ (ConfigDone \/ ConfigError)
  \/ Running /\ \E n \in DOMAIN filter : Spy(n)
  \/ Running /\ (Calls \/ Events)
  \/ Running /\ \E f \in LogFile, k \in Kind : WriteLine(f, k)

LineSpec == LineInit /\ [][LineNext]_<<vars, lineVars>>

(***************************************************************************)
(* The main loop drains its queues and fires its timers, and threads end,  *)
(* those of Eio as in Reload.  Nothing is assumed of the writers, of the   *)
(* administrator or of SIGUSR1.                                            *)
(***************************************************************************)
MaxFilters == MaxLoads * Cardinality(LogFile)  \* a reload empties a filter once

LineFairness ==
  /\ \A l \in 1..MaxLoads :
       WF_<<vars, lineVars>>(l \in DOMAIN listing /\ Reloads(Listing(l)))
  /\ WF_<<vars, lineVars>>(Reloads(\E rule \in reading : Reading(rule)))
  /\ \A n \in 1..MaxFilters :
       WF_<<vars, lineVars>>(Running /\ n \in DOMAIN filter /\ Spy(n))
  /\ WF_<<vars, lineVars>>(Running /\ Calls)
  /\ WF_<<vars, lineVars>>(Running /\ Events)

FairLineSpec == LineSpec /\ LineFairness

-----------------------------------------------------------------------------
Spied == [from : Nat, past : Nat, upto : Nat, thread : {"none", "reading", "ended"}]
SpyLine == [spy : DOMAIN filter, entry : DOMAIN written,
            at : {"call", "event", "deleted", "sent"}]
Queued == [spy : DOMAIN filter, line : {None} \cup DOMAIN line]

(***************************************************************************)
(* Every variable keeps its type, there is one Spy_File for each filter,   *)
(* and what is queued names a Spy_Line there is.                           *)
(***************************************************************************)
LineTypeOK ==
  /\ TypeOK
  /\ conf \in {"asked", "done", "failed"}
  /\ written \in Seq([file : LogFile, kind : Kind]) /\ Len(written) <= MaxLines
  /\ spied \in [DOMAIN filter -> Spied]
  /\ line \in Seq(SpyLine)
  /\ calls \in Seq(Queued) /\ events \in Seq(Queued)

(***************************************************************************)
(* No line of a log file is read, and so none is stored, twice, whatever   *)
(* polls of timers and of jobs there are, and although a reload may free   *)
(* the filter of a file and then make another.                             *)
(***************************************************************************)
ReadOnce == \A a, b \in DOMAIN line : line[a].entry = line[b].entry => a = b

(***************************************************************************)
(* Once config_done has run, with a server and a host, only the freeing of *)
(* filters can bring smman down: a line that is on its way, a thread or a  *)
(* job may outlive its Spy_File, and filter_load_done may itself come to a *)
(* filter it has freed.  Before that, a line must not come in that is to   *)
(* be sent.                                                                *)
(***************************************************************************)
DefinedOnceConfigured ==
  undefined =>
    \/ conf # "done" \/ Given # Variable
    \/ (\E n \in DOMAIN filter : ~Live(n)) \/ DoneUsesFreed

(***************************************************************************)
(* A line that a loaded rule deletes is not sent, whichever filter of its  *)
(* file has read it, and whatever the order in which rules were loaded.    *)
(***************************************************************************)
DeletedNotSent ==
  [][\A a \in DOMAIN line :
       LET entry == written[line[a].entry]
       IN  /\ line[a].at = "event" /\ line'[a].at = "sent"
           => ~ \E rule \in rules :
                  /\ rule.file \in Matching[entry.kind] \cap Deleting
                  /\ entry.file \in Glob[rule.file]]_lineVars

(***************************************************************************)
(* A line written to a file that is spied comes to log_line_event, and is  *)
(* dropped or given to store_add, unless the program ends or the filter is *)
(* freed: no overlap of reloads leaves a file paused or a thread unstarted *)
(* for ever.                                                               *)
(***************************************************************************)
Due(n, i) ==
  /\ n \in DOMAIN filter /\ i \in DOMAIN written
  /\ written[i].file = filter[n].file /\ i > spied[n].from

Handled(n, i) ==
  \E a \in DOMAIN line :
    /\ line[a].spy = n /\ line[a].entry = i
    /\ line[a].at \notin {"call", "event"}

LinesHandled ==
  \A i \in 1..MaxLines :
    (\E n \in DOMAIN filter : Due(n, i)) ~>
      (\/ ~Running
       \/ \A n \in DOMAIN filter : Due(n, i) /\ Live(n) => Handled(n, i))

(***************************************************************************)
(* "host : Allows you to set a different host that the one returned by     *)
(* command hostname (optionnal)": with a configuration that sets the       *)
(* server only, loaded before any line comes in, and rules that are loaded *)
(* once, lines are sent.                                                   *)
(***************************************************************************)
HostOptional == conf = "done" => ~undefined
=============================================================================

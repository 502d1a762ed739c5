----------------------------- MODULE LinesProofs -----------------------------
(***************************************************************************)
(* Proofs about Lines: no line of a log file is read twice, what can bring *)
(* smman down, and that a rule that deletes a line keeps it from being     *)
(* sent, for every set of rule files, log files, globs and kinds of lines, *)
(* and any number of reloads.                                              *)
(*                                                                         *)
(* That no line is read twice by one Spy_File is in the positions of its   *)
(* reads; that it is not read again by the Spy_File of a later filter of   *)
(* that file is in Succession, which rests on OneSpy: the earlier one is   *)
(* freed by then, and will not read any more.                              *)
(***************************************************************************)
EXTENDS Lines, ReloadProofs

Spans ==
  \A n \in DOMAIN filter :
    /\ spied[n].from <= spied[n].past /\ spied[n].past <= Len(written)
    /\ spied[n].thread = "reading" =>
         spied[n].past <= spied[n].upto /\ spied[n].upto <= Len(written)

\* A Spy_Line was read by its Spy_File, from its file.
FromSpied ==
  \A a \in DOMAIN line :
    /\ spied[line[a].spy].from < line[a].entry
    /\ line[a].entry <= spied[line[a].spy].past
    /\ written[line[a].entry].file = filter[line[a].spy].file

Succession ==
  \A m, n \in DOMAIN filter :
    m < n /\ filter[m].file = filter[n].file =>
      ~Live(m) /\ spied[m].past <= spied[n].from

Readable == \A n \in DOMAIN filter : filter[n].file \notin Unreadable

LinesInv ==
  /\ ReloadInv /\ ReachInv
  /\ LineTypeOK /\ DefinedOnceConfigured
  /\ Spans /\ FromSpied /\ Succession /\ Readable /\ ReadOnce

-----------------------------------------------------------------------------
LEMMA LineFacts ==
  ASSUME LineTypeOK
  PROVE  /\ DOMAIN filter = 1..Len(filter) /\ Len(filter) \in Nat
         /\ DOMAIN written = 1..Len(written) /\ Len(written) \in Nat
         /\ DOMAIN spied = DOMAIN filter
         /\ \A n \in DOMAIN filter :
              /\ spied[n] \in Spied /\ spied[n].from \in Nat
              /\ spied[n].past \in Nat /\ spied[n].upto \in Nat
         /\ DOMAIN line = 1..Len(line) /\ Len(line) \in Nat
         /\ \A a \in DOMAIN line :
              /\ line[a] \in SpyLine /\ line[a].spy \in DOMAIN filter
              /\ line[a].entry \in DOMAIN written
         /\ \A i \in DOMAIN calls : calls[i] \in Queued
         /\ \A i \in DOMAIN events : events[i] \in Queued
  <1>1. /\ filter \in Seq(Filter) /\ written \in Seq([file : LogFile, kind : Kind])
        /\ spied \in [DOMAIN filter -> Spied] /\ line \in Seq(SpyLine)
        /\ calls \in Seq(Queued) /\ events \in Seq(Queued)
    BY DEF LineTypeOK, TypeOK
  <1>2. /\ DOMAIN filter = 1..Len(filter) /\ Len(filter) \in Nat
        /\ DOMAIN written = 1..Len(written) /\ Len(written) \in Nat
        /\ DOMAIN line = 1..Len(line) /\ Len(line) \in Nat
    BY <1>1
  <1>3. DOMAIN spied = DOMAIN filter /\ \A n \in DOMAIN filter : spied[n] \in Spied
    BY <1>1
  <1>4. \A n \in DOMAIN filter :
          spied[n].from \in Nat /\ spied[n].past \in Nat /\ spied[n].upto \in Nat
    BY <1>3 DEF Spied
  <1>5. \A a \in DOMAIN line : line[a] \in SpyLine
    BY <1>1
  <1>6. \A a \in DOMAIN line :
          line[a].spy \in DOMAIN filter /\ line[a].entry \in DOMAIN written
    BY <1>5 DEF SpyLine
  <1>7. /\ \A i \in DOMAIN calls : calls[i] \in Queued
        /\ \A i \in DOMAIN events : events[i] \in Queued
    BY <1>1
  <1> QED  BY <1>2, <1>3, <1>4, <1>5, <1>6, <1>7

\* The first of a queue, and the rest of it.
LEMMA QueueFacts ==
  ASSUME NEW S, NEW q \in Seq(S), q # <<>>
  PROVE  Head(q) \in S /\ Tail(q) \in Seq(S)
  OBVIOUS

LEMMA QueuedFacts ==
  ASSUME NEW q \in Queued
  PROVE  /\ q.spy \in DOMAIN filter
         /\ q.line # None => q.line \in DOMAIN line
  BY DEF Queued

LEMMA SeqOfMore ==
  ASSUME NEW S, NEW T, S \subseteq T, NEW s \in Seq(S)
  PROVE  s \in Seq(T)
  OBVIOUS

LEMMA ExceptFacts ==
  ASSUME NEW S, NEW s \in Seq(S), NEW i \in DOMAIN s, NEW e \in S
  PROVE  [s EXCEPT ![i] = e] \in Seq(S)
  <1>1. Len(s) \in Nat /\ DOMAIN s = 1..Len(s)
    OBVIOUS
  <1>2. [s EXCEPT ![i] = e] \in [1..Len(s) -> S]
    BY <1>1
  <1> QED  BY <1>1, <1>2

LEMMA QueuesKept ==
  ASSUME LineTypeOK, DOMAIN filter \subseteq DOMAIN filter',
         DOMAIN written \subseteq DOMAIN written', DOMAIN line \subseteq DOMAIN line'
  PROVE  /\ line \in Seq(SpyLine') /\ calls \in Seq(Queued') /\ events \in Seq(Queued')
         /\ SpyLine \subseteq SpyLine' /\ Queued \subseteq Queued'
  <1>1. line \in Seq(SpyLine) /\ calls \in Seq(Queued) /\ events \in Seq(Queued)
    BY DEF LineTypeOK
  <1>2. SpyLine \subseteq SpyLine'
    BY DEF SpyLine
  <1>3. Queued \subseteq Queued'
    BY DEF Queued
  <1> QED  BY <1>1, <1>2, <1>3, SeqOfMore

-----------------------------------------------------------------------------
LEMMA LinesInit == LineInit => LinesInv
  <1> SUFFICES ASSUME LineInit PROVE LinesInv  OBVIOUS
  <1>1. /\ Init /\ filter = <<>> /\ written = <<>> /\ spied = <<>> /\ line = <<>>
        /\ calls = <<>> /\ events = <<>> /\ conf = "asked" /\ undefined = FALSE
    BY DEF LineInit, Init
  <1>2. ReloadInv /\ ReachInv
    BY <1>1, ReloadInit, ReachInit
  <1>3. /\ DOMAIN filter = {} /\ DOMAIN line = {}
        /\ spied \in [DOMAIN filter -> Spied]
        /\ written \in Seq([file : LogFile, kind : Kind]) /\ Len(written) <= MaxLines
        /\ line \in Seq(SpyLine) /\ calls \in Seq(Queued) /\ events \in Seq(Queued)
    BY <1>1, LinesAssumption
  <1>4. LineTypeOK
    BY <1>1, <1>2, <1>3 DEF LineTypeOK, ReloadInv
  <1> QED  BY <1>1, <1>2, <1>3, <1>4 DEF LinesInv, Spans, FromSpied, Succession,
              Readable, ReadOnce, DefinedOnceConfigured

(***************************************************************************)
(* A step of Lines that leaves the filters, the files and the Spy_Files    *)
(* alone, as those of the configuration and those that end it all do.      *)
(***************************************************************************)
LEMMA QuietStep ==
  ASSUME LinesInv, ReloadInv', UNCHANGED <<filterVars, rules>>,
         UNCHANGED <<written, spied, line, queueVars>>,
         conf' \in {"asked", "done", "failed"}, DefinedOnceConfigured'
  PROVE  LinesInv'
  <1>1. ReachInv'
    BY ReachAlone DEF LinesInv
  <1>2. UNCHANGED <<filter, written, spied, line, calls, events>>
    BY DEF filterVars, queueVars
  <1>3. LineTypeOK'
    BY <1>2 DEF LinesInv, ReloadInv, LineTypeOK, SpyLine, Queued
  <1> QED  BY <1>1, <1>2, <1>3 DEF LinesInv, Spans, FromSpied, Succession, Live,
              Readable, ReadOnce

LEMMA CrashStep ==
  ASSUME LinesInv, Crash,
         conf # "done" \/ Given # Variable \/ \E n \in DOMAIN filter : ~Live(n)
  PROVE  LinesInv'
  <1>1. /\ ReloadInv' /\ UNCHANGED <<filterVars, rules>>
        /\ UNCHANGED <<conf, written, spied, line, queueVars>>
    BY UseAfterFreeStep DEF LinesInv, Crash, UseAfterFree, lineVars, loadVars
  <1>2. conf \in {"asked", "done", "failed"}
    BY DEF LinesInv, LineTypeOK
  <1>3. DefinedOnceConfigured'
    BY <1>1 DEF DefinedOnceConfigured, Live, filterVars
  <1> QED  BY <1>1, <1>2, <1>3, QuietStep

LEMMA ConfigStep ==
  ASSUME LinesInv, Running, ConfigDone \/ ConfigError
  PROVE  LinesInv'
  <1>1. CASE ConfigDone /\ "server" \notin Given
    <2>1. Crash /\ Given # Variable
      BY <1>1 DEF ConfigDone, Variable
    <2> QED  BY <2>1, CrashStep
  <1>2. CASE ConfigDone /\ "server" \in Given
    <2>1. conf' = "done" /\ UNCHANGED <<vars, written, spied, line, queueVars>>
      BY <1>2 DEF ConfigDone
    <2>2. ReloadInv'
      BY <2>1, ReloadStutter DEF LinesInv
    <2>3. ~undefined'
      BY <2>1 DEF Running, vars
    <2> QED  BY <2>1, <2>2, <2>3, QuietStep DEF vars, loadVars, DefinedOnceConfigured
  <1>3. CASE ConfigError
    <2>1. /\ conf' = "failed" /\ quit' = TRUE
          /\ UNCHANGED <<dirVars, loadVars, filterVars, undefined>>
          /\ UNCHANGED <<written, spied, line, queueVars>>
      BY <1>3 DEF ConfigError
    <2>2. ReloadInv
      BY DEF LinesInv
    <2>3. TypeOK'
      BY <2>1, <2>2 DEF ReloadInv, TypeOK, dirVars, loadVars, filterVars
    <2>4. Distinct' /\ NoneLost' /\ OneSpy' /\ RulesAlive'
      BY <2>1, <2>2, FiltersAlone DEF loadVars
    <2>5. PausedOnlyWhileListing'
      BY <2>1 DEF PausedOnlyWhileListing
    <2>6. ReloadInv'
      BY <2>3, <2>4, <2>5 DEF ReloadInv
    <2>7. ~undefined'
      BY <2>1 DEF Running
    <2> QED  BY <2>1, <2>6, <2>7, QuietStep DEF loadVars, DefinedOnceConfigured
  <1> QED  BY <1>1, <1>2, <1>3

-----------------------------------------------------------------------------
(***************************************************************************)
(* What a step of Reload does to the filters: they keep their number and   *)
(* file, those that were freed stay so, and new ones are of files that may *)
(* be read.                                                                *)
(***************************************************************************)
Grown ==
  /\ Len(filter') \in Nat /\ Len(filter) <= Len(filter')
  /\ DOMAIN filter' = 1..Len(filter')
  /\ \A n \in DOMAIN filter :
       filter'[n].file = filter[n].file /\ (Live(n)' => Live(n))
  /\ \A n \in DOMAIN filter' \ DOMAIN filter :
       Live(n)' /\ filter'[n].file \notin Unreadable

LEMMA SameGrown ==
  ASSUME ReloadInv, DOMAIN filter' = DOMAIN filter, Len(filter') = Len(filter),
         \A n \in DOMAIN filter :
           filter'[n].file = filter[n].file /\ (Live(n)' => Live(n))
  PROVE  Grown
  <1>1. Len(filter) \in Nat /\ DOMAIN filter = 1..Len(filter)
    BY TypeFacts DEF ReloadInv
  <1> QED  BY <1>1 DEF Grown

LEMMA UnchangedGrown ==
  ASSUME ReloadInv, UNCHANGED filter
  PROVE  Grown
  BY SameGrown DEF Live

LEMMA ReloadGrown ==
  ASSUME ReloadInv, Next
  PROVE  Grown
  <1>0. TypeOK /\ Len(filter) \in Nat /\ DOMAIN filter = 1..Len(filter)
    BY TypeFacts DEF ReloadInv
  <1>1. ASSUME NEW l \in DOMAIN listing, RulesLoadLsDone(l)  PROVE Grown
    <2>1. CASE DoneUsesFreed
      BY <1>1, <2>1, UnchangedGrown DEF RulesLoadLsDone, UseAfterFree, filterVars
    <2>2. CASE ~DoneUsesFreed
      <3>1. AllListedLive /\ FilterLoadDone
        BY <1>1, <2>2 DEF RulesLoadLsDone, DoneUsesFreed, AllListedLive
      <3>2. /\ filter' \in Seq(Filter) /\ DOMAIN filter' = DOMAIN filter
            /\ \A n \in DOMAIN filter :
                 filter'[n].file = filter[n].file /\ (Live(n)' => Live(n))
        BY <3>1, FilterLoadDoneFacts
      <3>3. Len(filter') = Len(filter)
        <4>1. Len(filter') \in Nat /\ DOMAIN filter' = 1..Len(filter')
          BY <3>2
        <4> QED  BY <1>0, <3>2, <4>1
      <3> QED  BY <3>2, <3>3, SameGrown
    <2> QED  BY <2>1, <2>2
  <1>2. ASSUME NEW rule \in reading, RulesLoadRule(rule)  PROVE Grown
    <2>1. CASE \E f \in Glob[rule.file] : FindUsesFreed(f)
      BY <1>2, <2>1, UnchangedGrown DEF RulesLoadRule, UseAfterFree, filterVars
    <2>2. CASE ~\E f \in Glob[rule.file] : FindUsesFreed(f)
      <3>1. FilterLoad(rule) /\ rule \in Rule
        BY <1>0, <1>2, <2>2 DEF RulesLoadRule, TypeOK
      <3>2. PICK s \in Seq(LogFile) :
              /\ Len(s) \in Nat /\ DOMAIN s = 1..Len(s)
              /\ \A i, j \in DOMAIN s : s[i] = s[j] => i = j
              /\ \A i \in DOMAIN s : s[i] \in Glob[rule.file] \ Unreadable /\ FilterOf(s[i]) = {}
              /\ \A f \in Glob[rule.file] \ Unreadable :
                   FilterOf(f) = {} => \E i \in DOMAIN s : s[i] = f
              /\ filter' \in Seq(Filter) /\ DOMAIN filter' = 1..(Len(filter) + Len(s))
              /\ \A n \in DOMAIN filter :
                   /\ filter'[n].file = filter[n].file
                   /\ filter'[n].live = filter[n].live
                   /\ filter'[n].pause = filter[n].pause
                   /\ filter'[n].rules \subseteq filter[n].rules \cup {rule}
                   /\ filter[n].rules \subseteq filter'[n].rules
                   /\ \A f \in Glob[rule.file] : n \in FilterOf(f) => rule \in filter'[n].rules
              /\ \A i \in DOMAIN s : filter'[Len(filter) + i] = NewFilter(s[i], rule)
              /\ filters' \in Seq(DOMAIN filter') /\ DOMAIN filters' = 1..(Len(filters) + Len(s))
              /\ \A i \in DOMAIN filters : filters'[i] = filters[i]
              /\ \A i \in DOMAIN s : filters'[Len(filters) + i] = Len(filter) + i
        BY <1>0, <3>1, FilterLoadFacts
      <3>3. Len(filter') = Len(filter) + Len(s)
        <4>1. Len(filter') \in Nat /\ DOMAIN filter' = 1..Len(filter')
          BY <3>2
        <4>2. Len(filter) + Len(s) \in Nat
          BY <1>0, <3>2
        <4> QED  BY <3>2, <4>1, <4>2
      <3>4. ASSUME NEW n \in DOMAIN filter' \ DOMAIN filter
            PROVE  Live(n)' /\ filter'[n].file \notin Unreadable
        <4>1. n - Len(filter) \in DOMAIN s /\ n = Len(filter) + (n - Len(filter))
          BY <1>0, <3>2
        <4>2. PICK i \in DOMAIN s : n = Len(filter) + i
          BY <4>1
        <4>3. filter'[n] = NewFilter(s[i], rule) /\ s[i] \notin Unreadable
          BY <3>2, <4>2
        <4> QED  BY <4>3 DEF NewFilter, Live
      <3> QED  BY <1>0, <3>2, <3>3, <3>4 DEF Grown, Live
    <2> QED  BY <2>1, <2>2
  <1>3. CASE FilterReload
    <2>1. CASE \E n \in Listed : ~Live(n)
      BY <1>3, <2>1, UnchangedGrown DEF FilterReload, UseAfterFree, filterVars
    <2>2. CASE ~\E n \in Listed : ~Live(n)
      <3>1. filter' = [n \in DOMAIN filter |-> IF n \in Listed THEN Emptying(n) ELSE filter[n]]
        BY <1>3, <2>2 DEF FilterReload
      <3>2. ASSUME NEW n \in DOMAIN filter
            PROVE  filter'[n].file = filter[n].file /\ (Live(n)' => Live(n))
        <4>1. filter[n] \in Filter
          BY <1>0, TypeFacts
        <4> QED  BY <3>1, <4>1 DEF Emptying, Filter, Live
      <3>3. DOMAIN filter' = DOMAIN filter
        BY <3>1
      <3>4. Len(filter') = Len(filter)
        <4>1. filter' \in Seq(Filter)
          BY ReloadStep DEF ReloadInv, TypeOK
        <4>2. Len(filter') \in Nat /\ DOMAIN filter' = 1..Len(filter')
          BY <4>1
        <4> QED  BY <1>0, <3>3, <4>2
      <3> QED  BY <3>2, <3>3, <3>4, SameGrown
    <2> QED  BY <2>1, <2>2
  <1>4. ASSUME NEW l \in DOMAIN listing, ReadDirectory(l) \/ RulesLoadLs(l)
        PROVE  Grown
    BY <1>4, UnchangedGrown DEF ReadDirectory, RulesLoadLs, filterVars
  <1>5. ASSUME NEW rule \in reading, DropRule(rule)  PROVE Grown
    BY <1>5, UnchangedGrown DEF DropRule, filterVars
  <1>6. CASE Failure
    BY <1>6, UnchangedGrown DEF Failure, RulesLoadLsError, RulesLoadRuleError, filterVars
  <1>7. ASSUME NEW r \in RuleFile, Edit(r)  PROVE Grown
    BY <1>7, UnchangedGrown DEF Edit, filterVars
  <1>8. CASE Stopped \/ Idle
    BY <1>8, UnchangedGrown DEF Stopped, Idle, vars, filterVars
  <1> QED  BY <1>1, <1>2, <1>3, <1>4, <1>5, <1>6, <1>7, <1>8 DEF Next, Listing, Reading

\* A step of Reload can only be undefined where a filter was, or would be, freed.
LEMMA ReloadUndefined ==
  ASSUME ReloadInv, Next, undefined'
  PROVE  \/ undefined /\ UNCHANGED vars
         \/ (\E n \in DOMAIN filter' : ~Live(n)') \/ DoneUsesFreed'
  <1>1. /\ Listed \subseteq DOMAIN filter
        /\ \A i \in DOMAIN filters : filters[i] \in DOMAIN filter
    BY TypeFacts DEF ReloadInv
  <1>2. ASSUME UNCHANGED filterVars, \E n \in DOMAIN filter : ~Live(n)
        PROVE  \E n \in DOMAIN filter' : ~Live(n)'
    BY <1>2 DEF filterVars, Live
  <1>3. ASSUME Running, NEW l \in DOMAIN listing, RulesLoadLsDone(l)
        PROVE  DoneUsesFreed'
    <2>1. DoneUsesFreed /\ UNCHANGED filterVars
      BY <1>3 DEF RulesLoadLsDone, UseAfterFree, Running
    <2> QED  BY <2>1 DEF DoneUsesFreed, Listed, Emptied, FreedBefore, Live, filterVars
  <1>4. ASSUME Running, NEW rule \in reading, RulesLoadRule(rule)
        PROVE  \E n \in DOMAIN filter' : ~Live(n)'
    <2>1. UNCHANGED filterVars /\ \E f \in Glob[rule.file] : FindUsesFreed(f)
      BY <1>4 DEF RulesLoadRule, UseAfterFree, Running
    <2> QED  BY <1>1, <1>2, <2>1 DEF FindUsesFreed
  <1>5. ASSUME Running, FilterReload  PROVE \E n \in DOMAIN filter' : ~Live(n)'
    <2>1. UNCHANGED filterVars /\ \E n \in Listed : ~Live(n)
      BY <1>5 DEF FilterReload, UseAfterFree, Running
    <2> QED  BY <1>1, <1>2, <2>1
  <1>6. ASSUME Stopped \/ Idle  PROVE undefined /\ UNCHANGED vars
    BY <1>6 DEF Stopped, Idle, vars
  <1> QED  BY <1>3, <1>4, <1>5, <1>6 DEF Next, Listing, Reading, Running, Failure,
              ReadDirectory, RulesLoadLs, DropRule, RulesLoadLsError,
              RulesLoadRuleError, Edit

(***************************************************************************)
(* A step of Reload, with the Spy_Files of the filters it adds.            *)
(***************************************************************************)
LEMMA NewSpiesFacts ==
  ASSUME LinesInv, Grown, Reloads(Next)
  PROVE  /\ spied' \in [DOMAIN filter' -> Spied]
         /\ \A n \in DOMAIN filter : n \in DOMAIN filter' /\ spied'[n] = spied[n]
         /\ \A n \in DOMAIN filter' \ DOMAIN filter : spied'[n] = NewSpy
  <1> DEFINE d == Len(filter') - Len(filter)
             new == [i \in 1..d |-> NewSpy]
  <1>1. /\ DOMAIN filter = 1..Len(filter) /\ Len(filter) \in Nat
        /\ Len(written) \in Nat /\ spied \in [DOMAIN filter -> Spied]
        /\ \A n \in DOMAIN filter : spied[n] \in Spied
    BY LineFacts DEF LinesInv, LineTypeOK
  <1>2. /\ d \in Nat /\ Len(filter') = Len(filter) + d
        /\ DOMAIN filter' = 1..(Len(filter) + d)
    BY <1>1 DEF Grown
  <1>3. NewSpy \in Spied
    BY <1>1 DEF NewSpy, Spied
  <1>4. spied' = spied \o new
    BY DEF Reloads
  <1> HIDE DEF d
  <1>5. new \in Seq(Spied) /\ Len(new) = d /\ \A i \in 1..d : new[i] = NewSpy
    BY <1>2, <1>3
  <1> HIDE DEF new
  <1>6. spied \in Seq(Spied) /\ Len(spied) = Len(filter)
    BY <1>1
  <1>7. /\ DOMAIN spied' = DOMAIN filter'
        /\ \A i \in 1..Len(filter) : spied'[i] = spied[i]
        /\ \A i \in 1..d : spied'[Len(filter) + i] = NewSpy
    BY <1>2, <1>4, <1>5, <1>6, ConcatFacts
  <1>8. spied' \in Seq(Spied)
    BY <1>4, <1>5, <1>6, ConcatFacts
  <1>9. \A n \in DOMAIN filter : n \in DOMAIN filter' /\ spied'[n] = spied[n]
    BY <1>1, <1>2, <1>7
  <1>10. ASSUME NEW n \in DOMAIN filter' \ DOMAIN filter  PROVE spied'[n] = NewSpy
    <2>1. n - Len(filter) \in 1..d /\ n = Len(filter) + (n - Len(filter))
      BY <1>1, <1>2
    <2> QED  BY <1>7, <2>1
  <1>11. spied' \in [DOMAIN filter' -> Spied]
    <2>1. spied' \in [DOMAIN spied' -> Spied]
      BY <1>8
    <2> QED  BY <1>7, <2>1
  <1> QED  BY <1>9, <1>10, <1>11

LEMMA ReloadsStep ==
  ASSUME LinesInv, Reloads(Next)
  PROVE  LinesInv'
  <1>1. ReloadInv /\ ReachInv /\ Next /\ UNCHANGED <<conf, written, line, queueVars>>
    BY DEF LinesInv, Reloads
  <1>2. ReloadInv' /\ ReachInv' /\ Grown
    BY <1>1, ReloadStep, ReachStep, ReloadGrown
  <1>3. /\ spied' \in [DOMAIN filter' -> Spied]
        /\ \A n \in DOMAIN filter : n \in DOMAIN filter' /\ spied'[n] = spied[n]
        /\ \A n \in DOMAIN filter' \ DOMAIN filter : spied'[n] = NewSpy
    BY <1>2, NewSpiesFacts
  <1>4. /\ \A n \in DOMAIN filter :
             filter'[n].file = filter[n].file /\ (Live(n)' => Live(n))
        /\ \A n \in DOMAIN filter' \ DOMAIN filter :
             Live(n)' /\ filter'[n].file \notin Unreadable
        /\ DOMAIN filter' = 1..Len(filter') /\ Len(filter') \in Nat
    BY <1>2 DEF Grown
  <1>5. /\ DOMAIN filter = 1..Len(filter) /\ Len(filter) \in Nat
        /\ Len(written) \in Nat
        /\ \A n \in DOMAIN filter : spied[n].past \in Nat
        /\ \A a \in DOMAIN line : line[a].spy \in DOMAIN filter
    BY LineFacts DEF LinesInv
  <1>6. written' = written /\ line' = line /\ UNCHANGED <<conf, calls, events>>
    BY <1>1 DEF queueVars
  <1>7. LineTypeOK'
    <2>1. /\ line \in Seq(SpyLine') /\ calls \in Seq(Queued')
          /\ events \in Seq(Queued')
      BY <1>3, <1>6, QueuesKept DEF LinesInv
    <2>2. TypeOK'
      BY <1>2 DEF ReloadInv
    <2> QED  BY <1>3, <1>6, <2>1, <2>2 DEF LinesInv, LineTypeOK
  <1>8. Spans'
    <2>1. ASSUME NEW n \in DOMAIN filter'
          PROVE  /\ spied'[n].from <= spied'[n].past /\ spied'[n].past <= Len(written)
                 /\ spied'[n].thread = "reading" =>
                      spied'[n].past <= spied'[n].upto /\ spied'[n].upto <= Len(written)
      <3>1. CASE n \in DOMAIN filter
        BY <1>3, <3>1 DEF LinesInv, Spans
      <3>2. CASE n \notin DOMAIN filter
        BY <1>3, <1>5, <3>2 DEF NewSpy
      <3> QED  BY <3>1, <3>2
    <2> QED  BY <1>6, <2>1 DEF Spans
  <1>9. FromSpied'
    BY <1>3, <1>4, <1>5, <1>6 DEF LinesInv, FromSpied
  <1>10. Succession'
    <2> SUFFICES ASSUME NEW m \in DOMAIN filter', NEW n \in DOMAIN filter',
                        m < n, filter'[m].file = filter'[n].file
                 PROVE  ~Live(m)' /\ spied'[m].past <= spied'[n].from
      BY DEF Succession
    <2>1. n \in DOMAIN filter => m \in DOMAIN filter
      BY <1>4, <1>5
    <2>2. CASE n \in DOMAIN filter
      BY <1>3, <1>4, <2>1, <2>2 DEF LinesInv, Succession
    <2>3. CASE n \notin DOMAIN filter
      \* The new filter is at work, and so no other filter of its file is.
      <3>1. ~Live(m)'
        <4>1. OneSpy' /\ Live(n)' /\ m # n
          BY <1>2, <1>4, <2>3 DEF ReloadInv
        <4> QED  BY <4>1 DEF OneSpy
      <3>2. m \in DOMAIN filter
        BY <1>4, <3>1
      <3>3. spied[m].past <= Len(written)
        BY <3>2 DEF LinesInv, Spans
      <3> QED  BY <1>3, <2>3, <3>1, <3>2, <3>3 DEF NewSpy
    <2> QED  BY <2>2, <2>3
  <1>11. Readable'
    BY <1>3, <1>4 DEF LinesInv, Readable
  <1>12. ReadOnce'
    BY <1>6 DEF LinesInv, ReadOnce
  <1>13. DefinedOnceConfigured'
    <2> SUFFICES ASSUME undefined' PROVE DefinedOnceConfigured'
      BY DEF DefinedOnceConfigured
    <2>1. CASE undefined /\ UNCHANGED vars
      BY <1>6, <2>1 DEF LinesInv, DefinedOnceConfigured, DoneUsesFreed, Listed, Emptied,
         FreedBefore, Live, vars, filterVars
    <2>2. CASE (\E n \in DOMAIN filter' : ~Live(n)') \/ DoneUsesFreed'
      BY <2>2 DEF DefinedOnceConfigured
    <2> QED  BY <1>1, <2>1, <2>2, ReloadUndefined
  <1> QED  BY <1>2, <1>7, <1>8, <1>9, <1>10, <1>11, <1>12, <1>13 DEF LinesInv

-----------------------------------------------------------------------------
(***************************************************************************)
(* The other steps leave the filters alone.                                *)
(***************************************************************************)
LEMMA RunningStep ==
  ASSUME LinesInv, Running, UNCHANGED vars
  PROVE  /\ ReloadInv' /\ ReachInv' /\ TypeOK' /\ DefinedOnceConfigured' /\ Readable'
         /\ UNCHANGED filter
  <1>1. ReloadInv'
    BY ReloadStutter DEF LinesInv
  <1>2. ReachInv'
    BY ReachAlone DEF LinesInv, vars, loadVars
  <1>3. UNCHANGED filter /\ ~undefined'
    BY DEF Running, vars, filterVars
  <1> QED  BY <1>1, <1>2, <1>3 DEF ReloadInv, DefinedOnceConfigured, LinesInv, Readable

LEMMA WriteLineStep ==
  ASSUME LinesInv, Running, NEW f \in LogFile, NEW k \in Kind, WriteLine(f, k)
  PROVE  LinesInv'
  <1>1. /\ Len(written) < MaxLines /\ written' = Append(written, [file |-> f, kind |-> k])
        /\ UNCHANGED <<vars, conf, spied, line, calls, events>>
    BY DEF WriteLine, queueVars
  <1>2. /\ ReloadInv' /\ ReachInv' /\ TypeOK' /\ DefinedOnceConfigured' /\ Readable'
        /\ UNCHANGED filter
    BY <1>1, RunningStep
  <1>3. /\ written' \in Seq([file : LogFile, kind : Kind])
        /\ Len(written') = Len(written) + 1 /\ Len(written) \in Nat
        /\ DOMAIN written' = 1..(Len(written) + 1) /\ DOMAIN written = 1..Len(written)
        /\ \A i \in DOMAIN written : written'[i] = written[i]
    <2>1. written \in Seq([file : LogFile, kind : Kind])
      BY DEF LinesInv, LineTypeOK
    <2> DEFINE S == [file : LogFile, kind : Kind]
               e == [file |-> f, kind |-> k]
    <2>2. e \in S /\ written \in Seq(S) /\ written' = Append(written, e)
      BY <1>1, <2>1
    <2> HIDE DEF S, e
    <2>3. /\ written' \in Seq(S)
          /\ Len(written') = Len(written) + 1 /\ Len(written) \in Nat
          /\ DOMAIN written' = 1..(Len(written) + 1) /\ DOMAIN written = 1..Len(written)
          /\ \A i \in DOMAIN written : written'[i] = written[i]
      BY <2>2
    <2> QED  BY <2>3 DEF S
  <1>4. LineTypeOK'
    <2>1. /\ line' \in Seq(SpyLine') /\ calls' \in Seq(Queued')
          /\ events' \in Seq(Queued')
      BY <1>1, <1>2, <1>3, QueuesKept DEF LinesInv
    <2>2. Len(written') <= MaxLines
      BY <1>1, <1>3, LinesAssumption
    <2> QED  BY <1>1, <1>2, <1>3, <2>1, <2>2 DEF LinesInv, LineTypeOK
  <1>5. Spans'
    <2>1. \A n \in DOMAIN filter : spied[n].past \in Nat /\ spied[n].upto \in Nat
      BY LineFacts DEF LinesInv
    <2> QED  BY <1>1, <1>2, <1>3, <2>1 DEF LinesInv, Spans
  <1>6. FromSpied'
    <2>1. \A a \in DOMAIN line : line[a].entry \in DOMAIN written
      BY LineFacts DEF LinesInv
    <2> QED  BY <1>1, <1>2, <1>3, <2>1 DEF LinesInv, FromSpied
  <1>7. Succession' /\ ReadOnce'
    BY <1>1, <1>2 DEF LinesInv, Succession, ReadOnce, Live
  <1> QED  BY <1>2, <1>4, <1>5, <1>6, <1>7 DEF LinesInv

(***************************************************************************)
(* A poll, and the end callback of a thread: neither moves past.           *)
(***************************************************************************)
LEMMA SpyStep ==
  ASSUME LinesInv, Running, UNCHANGED <<vars, conf, written, line>>,
         calls' \in Seq(Queued), events' \in Seq(Queued),
         NEW n \in DOMAIN filter, NEW x \in Spied,
         x.from = spied[n].from, x.past = spied[n].past,
         x.thread = "reading" => x.past <= x.upto /\ x.upto <= Len(written),
         spied' = [spied EXCEPT ![n] = x]
  PROVE  LinesInv'
  <1>1. /\ ReloadInv' /\ ReachInv' /\ TypeOK' /\ DefinedOnceConfigured' /\ Readable'
        /\ UNCHANGED filter
    BY RunningStep
  <1>2. spied \in [DOMAIN filter -> Spied]
    BY DEF LinesInv, LineTypeOK
  <1>3. /\ spied' \in [DOMAIN filter -> Spied]
        /\ \A m \in DOMAIN filter : spied'[m].from = spied[m].from
                                    /\ spied'[m].past = spied[m].past
        /\ \A m \in DOMAIN filter : m # n => spied'[m] = spied[m]
        /\ spied'[n] = x
    BY <1>2
  <1>4. LineTypeOK'
    <2>1. SpyLine' = SpyLine /\ Queued' = Queued
      BY <1>1 DEF SpyLine, Queued
    <2> QED  BY <1>1, <1>3, <2>1 DEF LinesInv, LineTypeOK
  <1>5. Spans'
    <2>1. ASSUME NEW m \in DOMAIN filter
          PROVE  /\ spied'[m].from <= spied'[m].past /\ spied'[m].past <= Len(written)
                 /\ spied'[m].thread = "reading" =>
                      spied'[m].past <= spied'[m].upto /\ spied'[m].upto <= Len(written)
      <3>1. CASE m = n
        BY <1>3, <3>1 DEF LinesInv, Spans
      <3>2. CASE m # n
        BY <1>3, <3>2 DEF LinesInv, Spans
      <3> QED  BY <3>1, <3>2
    <2> QED  BY <1>1, <2>1 DEF Spans
  <1>6. FromSpied'
    <2>1. \A a \in DOMAIN line : line[a].spy \in DOMAIN filter
      BY LineFacts DEF LinesInv
    <2> QED  BY <1>1, <1>3, <2>1 DEF LinesInv, FromSpied
  <1>7. Succession' /\ ReadOnce'
    BY <1>1, <1>3 DEF LinesInv, Succession, ReadOnce, Live
  <1> QED  BY <1>1, <1>4, <1>5, <1>6, <1>7 DEF LinesInv

LEMMA PollStep ==
  ASSUME LinesInv, Running, NEW n \in DOMAIN filter, Poll(n),
         UNCHANGED <<vars, conf, written, line, calls>>, events' \in Seq(Queued)
  PROVE  LinesInv'
  <1>1. /\ spied \in [DOMAIN filter -> Spied] /\ calls \in Seq(Queued)
        /\ spied[n] \in Spied /\ Len(written) \in Nat
    BY LineFacts DEF LinesInv, LineTypeOK
  <1>2. CASE UNCHANGED spied
    <2>1. spied' = [spied EXCEPT ![n] = spied[n]]
      BY <1>1, <1>2
    <2> QED  BY <1>1, <2>1, SpyStep DEF LinesInv, Spans
  <1>3. CASE ~UNCHANGED spied
    <2> DEFINE x == [spied[n] EXCEPT !.upto = Len(written), !.thread = "reading"]
    <2>1. spied' = [spied EXCEPT ![n] = x]
      BY <1>1, <1>3 DEF Poll
    <2>2. /\ x \in Spied /\ x.from = spied[n].from /\ x.past = spied[n].past
          /\ x.upto = Len(written)
      BY <1>1 DEF Spied
    <2>3. x.past <= x.upto /\ x.upto <= Len(written)
      <3> HIDE DEF x
      <3> QED  BY <1>1, <2>2 DEF LinesInv, Spans
    <2> HIDE DEF x
    <2> QED  BY <1>1, <2>1, <2>2, <2>3, SpyStep
  <1> QED  BY <1>2, <1>3

LEMMA EndCallStep ==
  ASSUME LinesInv, Running, EndCall
  PROVE  LinesInv'
  <1>1. calls # <<>> /\ calls \in Seq(Queued) /\ events \in Seq(Queued)
    BY DEF EndCall, LinesInv, LineTypeOK
  <1>2. Head(calls) \in Queued /\ Tail(calls) \in Seq(Queued)
    BY <1>1, QueueFacts
  <1> DEFINE n == Head(calls).spy
             x == [spied[n] EXCEPT !.thread = "none"]
  <1>3. n \in DOMAIN filter
    BY <1>2, QueuedFacts
  <1>4. CASE ~Live(n)
    <2>1. Crash
      BY <1>4 DEF EndCall
    <2> QED  BY <1>3, <1>4, <2>1, CrashStep
  <1>5. CASE Live(n)
    <2>1. /\ spied' = [spied EXCEPT ![n].thread = "none"]
          /\ calls' = Tail(calls) /\ events' = Append(events, Head(calls))
          /\ UNCHANGED <<vars, conf, written, line>>
      BY <1>5 DEF EndCall
    <2> HIDE DEF n
    <2>2. spied \in [DOMAIN filter -> Spied] /\ spied[n] \in Spied
      BY <1>3, LineFacts DEF LinesInv, LineTypeOK
    <2>3. spied' = [spied EXCEPT ![n] = x]
      BY <2>1
    <2>4. /\ x \in Spied /\ x.from = spied[n].from /\ x.past = spied[n].past
          /\ x.thread = "none"
      BY <2>2 DEF Spied
    <2>5. calls' \in Seq(Queued) /\ events' \in Seq(Queued)
      BY <1>1, <1>2, <2>1
    <2> HIDE DEF x
    <2> QED  BY <1>3, <2>1, <2>3, <2>4, <2>5, SpyStep
  <1> QED  BY <1>4, <1>5

(***************************************************************************)
(* A Spy_Line goes on its way.                                             *)
(***************************************************************************)
LEMMA LineMovedFacts ==
  ASSUME LinesInv, NEW a \in DOMAIN line,
         NEW at \in {"call", "event", "deleted", "sent"},
         line' = [line EXCEPT ![a].at = at]
  PROVE  /\ line' \in Seq(SpyLine) /\ DOMAIN line' = DOMAIN line
         /\ \A b \in DOMAIN line :
              /\ line'[b].spy = line[b].spy /\ line'[b].entry = line[b].entry
              /\ line'[b].at = IF b = a THEN at ELSE line[b].at
  <1> DEFINE x == [line[a] EXCEPT !.at = at]
  <1>1. line \in Seq(SpyLine) /\ \A b \in DOMAIN line : line[b] \in SpyLine
    BY LineFacts DEF LinesInv, LineTypeOK
  <1>2. /\ x \in SpyLine /\ x.spy = line[a].spy /\ x.entry = line[a].entry
        /\ x.at = at
    BY <1>1 DEF SpyLine
  <1>3. line' = [line EXCEPT ![a] = x]
    OBVIOUS
  <1> HIDE DEF x
  <1>4. /\ DOMAIN line' = DOMAIN line /\ line'[a] = x
        /\ \A b \in DOMAIN line : b # a => line'[b] = line[b]
    BY <1>1, <1>3
  <1>5. line' \in Seq(SpyLine)
    <2>1. [line EXCEPT ![a] = x] \in Seq(SpyLine)
      BY <1>1, <1>2, ExceptFacts
    <2> QED  BY <1>3, <2>1
  <1>6. ASSUME NEW b \in DOMAIN line
        PROVE  /\ line'[b].spy = line[b].spy /\ line'[b].entry = line[b].entry
               /\ line'[b].at = IF b = a THEN at ELSE line[b].at
    <2>1. CASE b = a
      BY <1>2, <1>4, <2>1
    <2>2. CASE b # a
      BY <1>4, <2>2
    <2> QED  BY <2>1, <2>2
  <1> QED  BY <1>4, <1>5, <1>6

LEMMA LineMovedStep ==
  ASSUME LinesInv, Running, NEW a \in DOMAIN line,
         NEW at \in {"call", "event", "deleted", "sent"},
         line' = [line EXCEPT ![a].at = at],
         UNCHANGED <<vars, conf, written, spied>>,
         calls' \in Seq(Queued), events' \in Seq(Queued)
  PROVE  LinesInv'
  <1>1. /\ ReloadInv' /\ ReachInv' /\ TypeOK' /\ DefinedOnceConfigured' /\ Readable'
        /\ UNCHANGED filter
    BY RunningStep
  <1>2. /\ line' \in Seq(SpyLine) /\ DOMAIN line' = DOMAIN line
        /\ \A b \in DOMAIN line :
             line'[b].spy = line[b].spy /\ line'[b].entry = line[b].entry
    BY LineMovedFacts
  <1>3. LineTypeOK'
    <2>1. SpyLine' = SpyLine /\ Queued' = Queued
      BY <1>1, <1>2 DEF SpyLine, Queued
    <2> QED  BY <1>1, <1>2, <2>1 DEF LinesInv, LineTypeOK
  <1>4. Spans' /\ Succession'
    BY <1>1 DEF LinesInv, Spans, Succession, Live
  <1>5. FromSpied' /\ ReadOnce'
    BY <1>1, <1>2 DEF LinesInv, FromSpied, ReadOnce
  <1> QED  BY <1>1, <1>3, <1>4, <1>5 DEF LinesInv

LEMMA LineCallStep ==
  ASSUME LinesInv, Running, LineCall
  PROVE  LinesInv'
  <1>1. /\ calls # <<>> /\ Head(calls).line # None
        /\ calls' = Tail(calls) /\ events' = Append(events, Head(calls))
        /\ line' = [line EXCEPT ![Head(calls).line].at = "event"]
        /\ UNCHANGED <<vars, conf, written, spied>>
    BY DEF LineCall
  <1>2. calls \in Seq(Queued) /\ events \in Seq(Queued)
    BY DEF LinesInv, LineTypeOK
  <1>3. Head(calls) \in Queued /\ Tail(calls) \in Seq(Queued)
    BY <1>1, <1>2, QueueFacts
  <1>4. Head(calls).line \in DOMAIN line
    BY <1>1, <1>3, QueuedFacts
  <1>5. calls' \in Seq(Queued) /\ events' \in Seq(Queued)
    BY <1>1, <1>2, <1>3
  <1> QED  BY <1>1, <1>4, <1>5, LineMovedStep

(***************************************************************************)
(* log_line_event.                                                         *)
(***************************************************************************)
LEMMA LineEventFacts ==
  ASSUME LinesInv, LineEvent
  PROVE  \E a \in DOMAIN line :
           \/ Crash /\ ~(Live(line[a].spy) /\ Sendable(a))
           \/ \E at \in {"deleted", "sent"} :
                /\ line' = [line EXCEPT ![a].at = at]
                /\ events' \in Seq(Queued)
                /\ UNCHANGED <<vars, conf, written, spied, calls>>
                /\ at = "sent" => Live(line[a].spy) /\ ~Deleted(a)
  <1>1. events # <<>> /\ Head(events).line # None /\ events \in Seq(Queued)
    BY DEF LineEvent, LinesInv, LineTypeOK
  <1>2. Head(events) \in Queued /\ Tail(events) \in Seq(Queued)
    BY <1>1, QueueFacts
  <1> DEFINE a == Head(events).line
  <1>3. a \in DOMAIN line
    BY <1>1, <1>2, QueuedFacts
  <1>4. CASE Live(line[a].spy) /\ Deleted(a)
    <2>1. /\ line' = [line EXCEPT ![a].at = "deleted"] /\ events' = Tail(events)
          /\ UNCHANGED <<vars, conf, written, spied, calls>>
      BY <1>4 DEF LineEvent
    <2> QED  BY <1>2, <1>3, <2>1
  <1>5. CASE ~(Live(line[a].spy) /\ Deleted(a)) /\ Live(line[a].spy) /\ Sendable(a)
    <2>1. /\ line' = [line EXCEPT ![a].at = "sent"] /\ events' = Tail(events)
          /\ UNCHANGED <<vars, conf, written, spied, calls>>
      BY <1>5 DEF LineEvent
    <2> QED  BY <1>2, <1>3, <1>5, <2>1
  <1>6. CASE ~(Live(line[a].spy) /\ Deleted(a)) /\ ~(Live(line[a].spy) /\ Sendable(a))
    <2>1. Crash
      BY <1>6 DEF LineEvent
    <2> QED  BY <1>3, <1>6, <2>1
  <1> QED  BY <1>4, <1>5, <1>6

LEMMA LineEventStep ==
  ASSUME LinesInv, Running, LineEvent
  PROVE  LinesInv'
  <1>1. PICK a \in DOMAIN line :
           \/ Crash /\ ~(Live(line[a].spy) /\ Sendable(a))
           \/ \E at \in {"deleted", "sent"} :
                /\ line' = [line EXCEPT ![a].at = at]
                /\ events' \in Seq(Queued)
                /\ UNCHANGED <<vars, conf, written, spied, calls>>
    BY LineEventFacts
  <1>2. CASE Crash /\ ~(Live(line[a].spy) /\ Sendable(a))
    <2>1. line[a].spy \in DOMAIN filter
      BY LineFacts DEF LinesInv
    <2>2. Sendable(a) \/ conf # "done" \/ Given # Variable
      BY DEF Sendable, HasStore, HasHost, Variable
    <2> QED  BY <1>2, <2>1, <2>2, CrashStep
  <1>3. CASE ~(Crash /\ ~(Live(line[a].spy) /\ Sendable(a)))
    <2>1. PICK at \in {"deleted", "sent"} :
                /\ line' = [line EXCEPT ![a].at = at]
                /\ events' \in Seq(Queued)
                /\ UNCHANGED <<vars, conf, written, spied, calls>>
      BY <1>1, <1>3
    <2>2. calls' \in Seq(Queued)
      BY <2>1 DEF LinesInv, LineTypeOK
    <2> QED  BY <2>1, <2>2, LineMovedStep
  <1> QED  BY <1>2, <1>3

(***************************************************************************)
(* The reading thread: what it reads was read by nobody before it.         *)
(***************************************************************************)
LEMMA ReadStep ==
  ASSUME LinesInv, Running, NEW n \in DOMAIN filter, Live(n), Read(n)
  PROVE  LinesInv'
  <1> DEFINE U == {i \in Unread(n) : i <= spied[n].upto}
  <1>1. PICK s \in InGlobOrder(U) :
          /\ line' = line \o [i \in DOMAIN s |-> [spy |-> n, entry |-> s[i], at |-> "call"]]
          /\ calls' = calls \o [i \in DOMAIN s |-> [spy |-> n, line |-> Len(line) + i]]
                            \o <<[spy |-> n, line |-> None]>>
          /\ spied' = [spied EXCEPT ![n].past = spied[n].upto, ![n].thread = "ended"]
          /\ UNCHANGED <<vars, conf, written, events>>
    BY DEF Read
  <1> DEFINE made == [i \in DOMAIN s |-> [spy |-> n, entry |-> s[i], at |-> "call"]]
             called == [i \in DOMAIN s |-> [spy |-> n, line |-> Len(line) + i]]
             over == [spy |-> n, line |-> None]
             x == [spied[n] EXCEPT !.past = spied[n].upto, !.thread = "ended"]
  <1>2. /\ ReloadInv' /\ ReachInv' /\ TypeOK' /\ DefinedOnceConfigured' /\ Readable'
        /\ UNCHANGED filter
    BY <1>1, RunningStep
  <1>3. /\ DOMAIN written = 1..Len(written) /\ Len(written) \in Nat
        /\ DOMAIN line = 1..Len(line) /\ Len(line) \in Nat
        /\ \A m \in DOMAIN filter : /\ spied[m] \in Spied /\ spied[m].from \in Nat
                                    /\ spied[m].past \in Nat /\ spied[m].upto \in Nat
        /\ \A a \in DOMAIN line : /\ line[a].spy \in DOMAIN filter
                                  /\ line[a].entry \in DOMAIN written
        /\ spied \in [DOMAIN filter -> Spied] /\ line \in Seq(SpyLine)
        /\ calls \in Seq(Queued)
    BY LineFacts DEF LinesInv, LineTypeOK
  <1>4. spied[n].thread = "reading" /\ spied[n].past <= spied[n].upto
        /\ spied[n].upto <= Len(written)
    BY DEF Read, LinesInv, Spans
  <1>5. \A i \in U : /\ i \in DOMAIN written /\ spied[n].past < i /\ i <= spied[n].upto
                     /\ written[i].file = filter[n].file
    BY <1>3 DEF Unread
  <1>6. /\ DOMAIN s = 1..Len(s) /\ Len(s) \in Nat /\ s \in Seq(U)
        /\ \A i, j \in DOMAIN s : s[i] = s[j] => i = j
        /\ \A i \in DOMAIN s : s[i] \in U
    <2>1. U \in SUBSET Nat /\ U \subseteq 1..Len(written)
      BY <1>3 DEF Unread
    <2> HIDE DEF U
    <2>2. IsFiniteSet(U)
      <3>1. IsFiniteSet(1..Len(written))
        BY <1>3, FS_Interval
      <3> QED  BY <2>1, <3>1, FS_Subset
    <2>3. /\ s \in Seq(U) /\ DOMAIN s = 1..Len(s) /\ Len(s) \in Nat
          /\ \A i, j \in DOMAIN s : s[i] = s[j] => i = j
      BY <2>1, <2>2, GlobOrderFacts
    <2> QED  BY <2>3
  <1>7. \A i \in DOMAIN s : /\ s[i] \in DOMAIN written /\ spied[n].past < s[i]
                            /\ s[i] <= spied[n].upto
                            /\ written[s[i]].file = filter[n].file
    <2> HIDE DEF U
    <2> QED  BY <1>5, <1>6
  <1> HIDE DEF U
  <1>8. /\ made \in Seq(SpyLine) /\ Len(made) = Len(s)
        /\ \A i \in DOMAIN s : made[i] = [spy |-> n, entry |-> s[i], at |-> "call"]
    <2>1. \A i \in DOMAIN s : made[i] \in SpyLine
      BY <1>7 DEF SpyLine
    <2>2. DOMAIN made = DOMAIN s /\ made = [i \in DOMAIN s |-> made[i]]
          /\ \A i \in DOMAIN s : made[i] = [spy |-> n, entry |-> s[i], at |-> "call"]
      OBVIOUS
    <2> HIDE DEF made
    <2> QED  BY <1>6, <2>1, <2>2, MapFacts
  <1>9. /\ line' \in Seq(SpyLine) /\ DOMAIN line' = 1..(Len(line) + Len(s))
        /\ \A a \in DOMAIN line : line'[a] = line[a]
        /\ \A i \in DOMAIN s : line'[Len(line) + i] = made[i]
    <2>1. line' = line \o made
      BY <1>1
    <2> HIDE DEF made
    <2>2. /\ line \o made \in Seq(SpyLine)
          /\ DOMAIN (line \o made) = 1..(Len(line) + Len(made))
          /\ \A a \in 1..Len(line) : (line \o made)[a] = line[a]
          /\ \A i \in 1..Len(made) : (line \o made)[Len(line) + i] = made[i]
      <3>1. line \in Seq(SpyLine) /\ made \in Seq(SpyLine)
        BY <1>3, <1>8
      <3> QED  BY <3>1, ConcatFacts
    <2> QED  BY <1>3, <1>6, <1>8, <2>1, <2>2
  <1>10. ASSUME NEW a \in DOMAIN line'
         PROVE  \/ a \in DOMAIN line /\ line'[a] = line[a]
                \/ \E i \in DOMAIN s :
                     a = Len(line) + i /\ line'[a].spy = n /\ line'[a].entry = s[i]
    <2>1. CASE a \in DOMAIN line
      BY <1>9, <2>1
    <2>2. CASE a \notin DOMAIN line
      <3>1. a - Len(line) \in DOMAIN s /\ a = Len(line) + (a - Len(line))
        BY <1>3, <1>6, <1>9, <2>2
      <3>2. PICK i \in DOMAIN s : a = Len(line) + i
        BY <3>1
      <3>3. line'[a] = [spy |-> n, entry |-> s[i], at |-> "call"]
        BY <1>8, <1>9, <3>2
      <3> QED  BY <3>2, <3>3
    <2> QED  BY <2>1, <2>2
  <1>11. calls' \in Seq(Queued')
    <2>1. DOMAIN line \subseteq DOMAIN line'
      BY <1>3, <1>6, <1>9
    <2>2. calls \in Seq(Queued')
      BY <1>1, <1>2, <2>1, QueuesKept DEF LinesInv
    <2>3. over \in Queued'
      BY <1>2 DEF Queued
    <2>4. \A i \in DOMAIN s : called[i] \in Queued'
      <3> TAKE i \in DOMAIN s
      <3>1. Len(line) + i \in DOMAIN line'
        BY <1>3, <1>6, <1>9
      <3> QED  BY <1>2, <3>1 DEF Queued
    <2>5. DOMAIN called = DOMAIN s /\ called = [i \in DOMAIN s |-> called[i]]
      OBVIOUS
    <2>6. calls' = (calls \o called) \o <<over>>
      BY <1>1
    <2> HIDE DEF called, over
    <2>7. called \in Seq(Queued')
      BY <1>6, <2>4, <2>5, MapFacts
    <2>8. <<over>> \in Seq(Queued')
      BY <2>3
    <2>9. calls \o called \in Seq(Queued')
      BY <2>2, <2>7, ConcatFacts
    <2> QED  BY <2>6, <2>8, <2>9, ConcatFacts
  <1>12. /\ spied' \in [DOMAIN filter -> Spied]
         /\ \A m \in DOMAIN filter : m # n => spied'[m] = spied[m]
         /\ spied'[n].from = spied[n].from /\ spied'[n].past = spied[n].upto
         /\ spied'[n].thread = "ended"
    <2>1. spied' = [spied EXCEPT ![n] = x]
      BY <1>1, <1>3
    <2>2. /\ x \in Spied /\ x.from = spied[n].from /\ x.past = spied[n].upto
          /\ x.thread = "ended"
      BY <1>3 DEF Spied
    <2> HIDE DEF x
    <2> QED  BY <1>3, <2>1, <2>2
  <1>13. LineTypeOK'
    <2>1. SpyLine' = SpyLine
      BY <1>1, <1>2 DEF SpyLine
    <2>2. events' \in Seq(Queued')
      <3>1. DOMAIN line \subseteq DOMAIN line'
        BY <1>3, <1>6, <1>9
      <3> QED  BY <1>1, <1>2, <3>1, QueuesKept DEF LinesInv
    <2> QED  BY <1>1, <1>2, <1>9, <1>11, <1>12, <2>1, <2>2 DEF LinesInv, LineTypeOK
  <1>14. Spans'
    <2>1. ASSUME NEW m \in DOMAIN filter
          PROVE  /\ spied'[m].from <= spied'[m].past /\ spied'[m].past <= Len(written)
                 /\ spied'[m].thread = "reading" =>
                      spied'[m].past <= spied'[m].upto /\ spied'[m].upto <= Len(written)
      <3>1. spied[m].from <= spied[m].past
        BY DEF LinesInv, Spans
      <3>2. CASE m = n
        BY <1>3, <1>4, <1>12, <3>1, <3>2
      <3>3. CASE m # n
        BY <1>12, <3>3 DEF LinesInv, Spans
      <3> QED  BY <3>2, <3>3
    <2> QED  BY <1>1, <1>2, <2>1 DEF Spans
  <1>15. FromSpied'
    <2>1. ASSUME NEW a \in DOMAIN line'
          PROVE  /\ spied'[line'[a].spy].from < line'[a].entry
                 /\ line'[a].entry <= spied'[line'[a].spy].past
                 /\ written[line'[a].entry].file = filter[line'[a].spy].file
      <3>1. CASE a \in DOMAIN line /\ line'[a] = line[a]
        <4>1. /\ spied[line[a].spy].from < line[a].entry
              /\ line[a].entry <= spied[line[a].spy].past
              /\ written[line[a].entry].file = filter[line[a].spy].file
          BY <3>1 DEF LinesInv, FromSpied
        <4>2. CASE line[a].spy = n
          BY <1>3, <1>4, <1>12, <3>1, <4>1, <4>2
        <4>3. CASE line[a].spy # n
          BY <1>3, <1>12, <3>1, <4>1, <4>3
        <4> QED  BY <4>2, <4>3
      <3>2. ASSUME NEW i \in DOMAIN s, line'[a].spy = n, line'[a].entry = s[i]
            PROVE  /\ spied'[n].from < s[i] /\ s[i] <= spied'[n].past
                   /\ written[s[i]].file = filter[n].file
        <4>1. spied[n].from <= spied[n].past
          BY DEF LinesInv, Spans
        <4> QED  BY <1>3, <1>7, <1>12, <4>1
      <3> QED  BY <1>10, <3>1, <3>2
    <2> QED  BY <1>1, <1>2, <2>1 DEF FromSpied
  <1>16. Succession'
    <2>1. ASSUME NEW m \in DOMAIN filter, NEW k \in DOMAIN filter,
                 m < k, filter[m].file = filter[k].file
          PROVE  ~Live(m) /\ spied'[m].past <= spied'[k].from
      <3>1. ~Live(m) /\ spied[m].past <= spied[k].from
        BY <2>1 DEF LinesInv, Succession
      <3>2. m # n
        BY <3>1
      <3> QED  BY <1>12, <3>1, <3>2
    <2> QED  BY <1>2, <2>1 DEF Succession, Live
  \* Nobody has read an entry that is now read, in the past of this Spy_File
  \* or by another one, which is an earlier one: this one goes on spying.
  <1>17. ASSUME NEW a \in DOMAIN line, NEW i \in DOMAIN s
         PROVE  line[a].entry # s[i]
    <2> SUFFICES ASSUME line[a].entry = s[i] PROVE FALSE  OBVIOUS
    <2> DEFINE m == line[a].spy
    <2>1. m \in DOMAIN filter /\ filter[m].file = filter[n].file /\ s[i] <= spied[m].past
      BY <1>3, <1>7 DEF LinesInv, FromSpied
    <2>2. spied[n].past < s[i] /\ s[i] \in Nat
      BY <1>3, <1>7
    <2>3. m \in Nat /\ n \in Nat
      BY <2>1, LineFacts DEF LinesInv
    <2> HIDE DEF m
    <2>4. CASE m = n
      BY <1>3, <2>1, <2>2, <2>4
    <2>5. CASE m < n
      <3>1. spied[m].past <= spied[n].from /\ spied[n].from <= spied[n].past
        BY <2>1, <2>5 DEF LinesInv, Succession, Spans
      <3> QED  BY <1>3, <2>1, <2>2, <3>1
    <2>6. CASE n < m
      BY <2>1, <2>6 DEF LinesInv, Succession
    <2> QED  BY <2>3, <2>4, <2>5, <2>6
  <1>18. ReadOnce'
    <2> SUFFICES ASSUME NEW a \in DOMAIN line', NEW b \in DOMAIN line',
                        line'[a].entry = line'[b].entry
                 PROVE  a = b
      BY DEF ReadOnce
    <2>1. CASE a \in DOMAIN line /\ line'[a] = line[a] /\ b \in DOMAIN line /\ line'[b] = line[b]
      BY <2>1 DEF LinesInv, ReadOnce
    <2>2. ASSUME NEW i \in DOMAIN s, a = Len(line) + i, line'[a].entry = s[i]
          PROVE  a = b
      <3>1. ~(b \in DOMAIN line /\ line'[b] = line[b])
        BY <1>17, <2>2
      <3>2. PICK j \in DOMAIN s : b = Len(line) + j /\ line'[b].entry = s[j]
        BY <1>10, <3>1
      <3> QED  BY <1>6, <2>2, <3>2
    <2>3. ASSUME NEW i \in DOMAIN s, b = Len(line) + i, line'[b].entry = s[i],
                 a \in DOMAIN line, line'[a] = line[a]
          PROVE  a = b
      BY <1>17, <2>3
    <2> QED  BY <1>10, <2>1, <2>2, <2>3
  <1> QED  BY <1>2, <1>13, <1>14, <1>15, <1>16, <1>18 DEF LinesInv

-----------------------------------------------------------------------------
LEMMA SpiesStep ==
  ASSUME LinesInv, Running, NEW n \in DOMAIN filter, Spy(n)
  PROVE  LinesInv'
  <1>1. CASE TimerPoll(n)
    <2>1. /\ Poll(n) /\ UNCHANGED <<vars, conf, written, line, calls>>
          /\ events' \in Seq(Queued)
      BY <1>1 DEF TimerPoll, queueVars, LinesInv, LineTypeOK
    <2> QED  BY <2>1, PollStep
  <1>2. CASE Read(n) /\ Live(n)
    BY <1>2, ReadStep
  <1>3. CASE Read(n) /\ ~Live(n)
    <2>1. Crash
      BY <1>3 DEF Read
    <2> QED  BY <1>3, <2>1, CrashStep
  <1> QED  BY <1>1, <1>2, <1>3 DEF Spy

LEMMA JobPollStep ==
  ASSUME LinesInv, Running, JobPoll
  PROVE  LinesInv'
  <1>1. events # <<>> /\ events \in Seq(Queued)
    BY DEF JobPoll, LinesInv, LineTypeOK
  <1>2. Head(events) \in Queued /\ Tail(events) \in Seq(Queued)
    BY <1>1, QueueFacts
  <1> DEFINE n == Head(events).spy
  <1>3. n \in DOMAIN filter
    BY <1>2, QueuedFacts
  <1>4. CASE ~Live(n)
    <2>1. Crash
      BY <1>4 DEF JobPoll
    <2> QED  BY <1>3, <1>4, <2>1, CrashStep
  <1>5. CASE Live(n)
    <2>1. /\ Poll(n) /\ events' = Tail(events)
          /\ UNCHANGED <<vars, conf, written, line, calls>>
      BY <1>5 DEF JobPoll
    <2> HIDE DEF n
    <2> QED  BY <1>2, <1>3, <2>1, PollStep
  <1> QED  BY <1>4, <1>5

LEMMA LinesStep == LinesInv /\ [LineNext]_<<vars, lineVars>> => LinesInv'
  <1> SUFFICES ASSUME LinesInv, [LineNext]_<<vars, lineVars>> PROVE LinesInv'
    OBVIOUS
  <1>1. CASE Reloads(Next)
    BY <1>1, ReloadsStep
  <1>2. CASE Running /\ (ConfigDone \/ ConfigError)
    BY <1>2, ConfigStep
  <1>3. ASSUME Running, NEW n \in DOMAIN filter, Spy(n)  PROVE LinesInv'
    BY <1>3, SpiesStep
  <1>4. CASE Running /\ (Calls \/ Events)
    BY <1>4, LineCallStep, EndCallStep, LineEventStep, JobPollStep DEF Calls, Events
  <1>5. ASSUME Running, NEW f \in LogFile, NEW k \in Kind, WriteLine(f, k)
        PROVE  LinesInv'
    BY <1>5, WriteLineStep
  <1>6. CASE UNCHANGED <<vars, lineVars>>
    <2>1. UNCHANGED vars /\ UNCHANGED <<conf, written, spied, line, queueVars>>
      BY <1>6 DEF lineVars
    <2>2. ReloadInv' /\ UNCHANGED <<filterVars, rules>> /\ UNCHANGED undefined
      BY <2>1, ReloadStutter DEF LinesInv, vars, loadVars
    <2>3. DefinedOnceConfigured'
      BY <2>1, <2>2 DEF LinesInv, DefinedOnceConfigured, DoneUsesFreed, Listed, Emptied,
         FreedBefore, Live, filterVars
    <2> QED  BY <2>1, <2>2, <2>3, QuietStep DEF LinesInv, LineTypeOK
  <1> QED  BY <1>1, <1>2, <1>3, <1>4, <1>5, <1>6 DEF LineNext

LEMMA LinesInvariant == LineSpec => []LinesInv
  BY LinesInit, LinesStep, PTL DEF LineSpec

-----------------------------------------------------------------------------
(***************************************************************************)
(* The variables keep their types: there is one Spy_File for each filter,  *)
(* and what is queued names a Spy_Line there is.                           *)
(***************************************************************************)
THEOREM LineTypes == LineSpec => []LineTypeOK
  <1>1. LinesInv => LineTypeOK
    BY DEF LinesInv
  <1> QED  BY <1>1, LinesInvariant, PTL

(***************************************************************************)
(* No line of a log file is read twice, by the polls of timers and jobs,   *)
(* or by the filters that reloads make one after the other for a file.     *)
(***************************************************************************)
THEOREM ReadOnceAlways == LineSpec => []ReadOnce
  <1>1. LinesInv => ReadOnce
    BY DEF LinesInv
  <1> QED  BY <1>1, LinesInvariant, PTL

(***************************************************************************)
(* Once config_done has run, with a server and a host, nothing but the     *)
(* freeing of filters can bring smman down.                                *)
(***************************************************************************)
THEOREM DefinedAlways == LineSpec => []DefinedOnceConfigured
  <1>1. LinesInv => DefinedOnceConfigured
    BY DEF LinesInv
  <1> QED  BY <1>1, LinesInvariant, PTL

\* What DeletedNotSent says of one step.
SentAlone ==
  \A a \in DOMAIN line :
    LET entry == written[line[a].entry]
    IN  /\ line[a].at = "event" /\ line'[a].at = "sent"
        => ~ \E rule \in rules :
               /\ rule.file \in Matching[entry.kind] \cap Deleting
               /\ entry.file \in Glob[rule.file]

LEMMA NothingDeletes ==
  ASSUME LinesInv, NEW a \in DOMAIN line, Live(line[a].spy), ~Deleted(a)
  PROVE  LET entry == written[line[a].entry]
         IN  ~ \E rule \in rules :
                 /\ rule.file \in Matching[entry.kind] \cap Deleting
                 /\ entry.file \in Glob[rule.file]
  <1> DEFINE entry == written[line[a].entry]
             n == line[a].spy
  <1> SUFFICES ASSUME NEW rule \in rules,
                      rule.file \in Matching[entry.kind] \cap Deleting,
                      entry.file \in Glob[rule.file]
               PROVE  FALSE
    OBVIOUS
  <1>1. n \in DOMAIN filter /\ entry.file = filter[n].file
    BY LineFacts DEF LinesInv, FromSpied
  <1>2. entry.file \in Glob[rule.file] \ Unreadable
    BY <1>1 DEF LinesInv, Readable
  <1>3. PICK m \in DOMAIN filter :
          Live(m) /\ filter[m].file = entry.file /\ rule \in filter[m].rules
    BY <1>2 DEF LinesInv, ReachInv, RulesReach
  <1>4. m = n
    BY <1>1, <1>3 DEF LinesInv, ReloadInv, OneSpy
  <1>5. rule.file \in RulesFor(a)
    BY <1>3, <1>4 DEF RulesFor
  <1> QED  BY <1>5 DEF Deleted

LEMMA SentAloneStep ==
  LinesInv /\ [LineNext]_<<vars, lineVars>> => [SentAlone]_lineVars
  <1> SUFFICES ASSUME LinesInv, LineNext PROVE SentAlone
    BY DEF lineVars
  <1>1. CASE UNCHANGED line
    BY <1>1 DEF SentAlone
  <1>2. CASE LineEvent
    <2>1. CASE UNCHANGED line
      BY <1>1, <2>1
    <2>2. CASE ~UNCHANGED line
      <3>1. PICK b \in DOMAIN line, at \in {"deleted", "sent"} :
              /\ line' = [line EXCEPT ![b].at = at]
              /\ at = "sent" => Live(line[b].spy) /\ ~Deleted(b)
        BY <1>2, <2>2, LineEventFacts DEF Crash, lineVars
      <3>2. \A a \in DOMAIN line : line'[a].at = IF a = b THEN at ELSE line[a].at
        BY <3>1, LineMovedFacts
      <3> SUFFICES ASSUME NEW a \in DOMAIN line, line[a].at = "event", line'[a].at = "sent"
                   PROVE  LET entry == written[line[a].entry]
                          IN  ~ \E rule \in rules :
                                  /\ rule.file \in Matching[entry.kind] \cap Deleting
                                  /\ entry.file \in Glob[rule.file]
        BY DEF SentAlone
      <3>3. a = b /\ at = "sent"
        BY <3>2
      <3> QED  BY <3>1, <3>3, NothingDeletes
    <2> QED  BY <2>1, <2>2
  <1>3. CASE LineCall
    <2>1. /\ calls # <<>> /\ Head(calls).line # None /\ calls \in Seq(Queued)
          /\ line' = [line EXCEPT ![Head(calls).line].at = "event"]
      BY <1>3 DEF LineCall, LinesInv, LineTypeOK
    <2>2. Head(calls).line \in DOMAIN line
      BY <2>1, QueueFacts, QueuedFacts
    <2>3. \A a \in DOMAIN line :
            line'[a].at = IF a = Head(calls).line THEN "event" ELSE line[a].at
      BY <2>1, <2>2, LineMovedFacts
    <2> QED  BY <2>3 DEF SentAlone
  <1>4. ASSUME NEW n, Read(n)  PROVE SentAlone
    <2>1. CASE UNCHANGED line
      BY <1>1, <2>1
    <2>2. CASE ~UNCHANGED line
      <3>1. PICK s \in InGlobOrder({i \in Unread(n) : i <= spied[n].upto}) :
              line' = line \o [i \in DOMAIN s |-> [spy |-> n, entry |-> s[i], at |-> "call"]]
        BY <1>4, <2>2 DEF Read, Crash, lineVars
      <3>2. \A a \in DOMAIN line : line'[a] = line[a]
        BY <3>1, LineFacts DEF LinesInv
      <3> QED  BY <3>2 DEF SentAlone
    <2> QED  BY <2>1, <2>2
  <1> QED  BY <1>1, <1>2, <1>3, <1>4 DEF LineNext, Reloads, ConfigDone, ConfigError, Crash,
              Spy, TimerPoll, Calls, EndCall, Events, JobPoll, WriteLine, lineVars

(***************************************************************************)
(* No line is sent that a loaded rule deletes: the Spy_File that read it   *)
(* is the one at work on its file, and its filter holds every loaded rule  *)
(* that names the file, whatever reloads came since the line was written.  *)
(***************************************************************************)
THEOREM DeletedNeverSent == LineSpec => DeletedNotSent
  <1> QED  BY LinesInvariant, SentAloneStep, PTL DEF LineSpec, DeletedNotSent, SentAlone
=============================================================================

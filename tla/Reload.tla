------------------------------- MODULE Reload -------------------------------
(***************************************************************************)
(* The rules and the filters of smman: librules lists the rules directory  *)
(* and reads every file of it through libconf (src/src/lib/rules,          *)
(* src/src/lib/conf/conf_main.c, conf_load.c); src/src/bin/filter.c makes  *)
(* a Filter, with its Spy_File, for every log file a rule names, and       *)
(* SIGUSR1 does all of it again.  The listing and the reading of each rule *)
(* are threads of their own, whose callbacks come to the main loop in the  *)
(* order in which the threads end.                                         *)
(*                                                                         *)
(* A Filter and its Spy_File are allocated and freed together and have one *)
(* number here; the list of filters stands for smman->filters and for      *)
(* spy->files, which are appended to together and lose their head          *)
(* together.  A callback that walks over a freed filter has no defined     *)
(* effect: the behaviour ends there, with undefined set.  What libspy does *)
(* with a Spy_File between its creation and its end is in SpyFile.         *)
(***************************************************************************)
EXTENDS Integers, Sequences, FiniteSets

CONSTANTS RuleFile,    \* the names of rule files
          SubDir,      \* the names of directories in the rules directory
          LogFile,     \* the paths of log files, numbers for their glob order
          Glob,        \* the log files the "filename" of a rule matches
          Unreadable,  \* the log files spy_file_new may not access
          Broken,      \* the rule files with a regex that does not compile
          Faults,      \* the failures that may happen, see FaultKind
          MaxLoads,    \* bound: the calls of rules_load, at startup and by SIGUSR1
          MaxEdits     \* bound: the changes of the rules directory

FaultKind == {"listing", "mmap"}

ASSUME ReloadAssumption ==
  /\ LogFile \subseteq Nat /\ IsFiniteSet(LogFile)
  /\ RuleFile \cap SubDir = {}
  /\ Glob \in [RuleFile -> SUBSET LogFile]
  /\ Faults \subseteq FaultKind
  /\ MaxLoads \in Nat /\ MaxEdits \in Nat

VARIABLES
  dir,        \* the rule files in /etc/smman/rules.d
  edits,      \* how often it changed
  listing,    \* the Rules_Loads, one for each call of rules_load
  reading,    \* the Rule_Loads whose file libconf is reading
  rules,      \* rules->rules, the loaded Rules
  filter,     \* every Filter that was allocated, with its Spy_File
  filters,    \* smman->filters and spy->files, by number of the filter
  quit,       \* the main loop was asked to quit
  undefined   \* freed memory was used

dirVars == <<dir, edits>>
loadVars == <<listing, reading, rules>>
filterVars == <<filter, filters>>
vars == <<dirVars, loadVars, filterVars, quit, undefined>>

\* A Rule, and the Rule_Load it comes from: which call, which file.
Rule == [load : Nat \ {0}, file : RuleFile]

Asked == [stage |-> "asked", left |-> {}]

\* main has called rules_load.
Init ==
  /\ dir \in SUBSET RuleFile /\ edits = 0
  /\ listing = <<Asked>> /\ reading = {} /\ rules = {}
  /\ filter = <<>> /\ filters = <<>>
  /\ quit = FALSE /\ undefined = FALSE

Live(n) == filter[n].live
Listed == {filters[i] : i \in DOMAIN filters}

UseAfterFree ==
  /\ undefined' = TRUE
  /\ UNCHANGED <<dirVars, loadVars, filterVars, quit>>

-----------------------------------------------------------------------------
(***************************************************************************)
(* The administrator adds and removes rule files.                          *)
(***************************************************************************)
Edit(r) ==
  /\ edits < MaxEdits /\ edits' = edits + 1
  /\ dir' = (dir \ {r}) \cup ({r} \ dir)
  /\ UNCHANGED <<loadVars, filterVars, quit, undefined>>

-----------------------------------------------------------------------------
(***************************************************************************)
(* filter_load, for a Rule that was read.  _filter_find walks the list up  *)
(* to the filter of a path, or to its end.                                 *)
(***************************************************************************)
\* Mutant: only the head of the list is looked at.
FilterOf_HeadOnly(f) == {n \in Listed : filter[n].file = f /\ n = filters[1]}

FilterOf(f) == {n \in Listed : filter[n].file = f}

FindUsesFreed(f) ==
  \E i \in DOMAIN filters :
    /\ ~Live(filters[i])
    /\ \A j \in 1..(i - 1) : filter[filters[j]].file # f

\* Mutant: the rule that makes the filter necessary is not added to it.
NewFilter_NoRule(f, rule) ==
  [file |-> f, rules |-> {}, pause |-> FALSE, live |-> TRUE]

NewFilter(f, rule) ==
  [file |-> f, rules |-> {rule}, pause |-> FALSE, live |-> TRUE]

InGlobOrder(S) ==
  {s \in [1..Cardinality(S) -> S] : \A i, j \in DOMAIN s : i < j => s[i] < s[j]}

FilterLoad(rule) ==
  LET paths == Glob[rule.file]
      found == UNION {FilterOf(f) : f \in paths}
      new == {f \in paths \ Unreadable : FilterOf(f) = {}}
  IN  \E s \in InGlobOrder(new) :
        /\ filter' = [n \in DOMAIN filter |->
                        IF n \in found THEN [filter[n] EXCEPT !.rules = @ \cup {rule}]
                        ELSE filter[n]]
                     \o [i \in DOMAIN s |-> NewFilter(s[i], rule)]
        /\ filters' = filters \o [i \in DOMAIN s |-> Len(filter) + i]

(***************************************************************************)
(* filter_load_done resumes the filters that have rules and frees the      *)
(* others.  Each time it frees one, it takes the head off smman->filters,  *)
(* and so does spy_file_free with spy->files, after a walk from the head   *)
(* to the Spy_File it is given.                                            *)
(***************************************************************************)
Emptied == {i \in DOMAIN filters : filter[filters[i]].rules = {}}
FreedBefore(i) == Cardinality({j \in Emptied : j < i})
DoneUsesFreed ==
  \/ \E n \in Listed : ~Live(n)
  \/ \E i, j \in Emptied : FreedBefore(i) < j /\ j < i

\* Mutant: the filters that have rules are left as they are.
Resumed_Not(n) == filter[n]

Resumed(n) == [filter[n] EXCEPT !.pause = FALSE]

FilterLoadDone ==
  /\ filter' = [n \in DOMAIN filter |->
                  IF n \notin Listed THEN filter[n]
                  ELSE IF filter[n].rules = {} THEN [filter[n] EXCEPT !.live = FALSE]
                  ELSE Resumed(n)]
  /\ filters' = SubSeq(filters, Cardinality(Emptied) + 1, Len(filters))

-----------------------------------------------------------------------------
(***************************************************************************)
(* librules: the listing of the directory, in a thread of Eio, and what    *)
(* the main loop does with each file of it and with its end.               *)
(***************************************************************************)
\* Mutant: directories are not left out.
ListFilter_All(entries) == entries

ListFilter(entries) == entries \ SubDir             \* rules_load_ls_filter

ReadDirectory(l) ==
  /\ listing[l].stage = "asked"
  /\ listing' = [listing EXCEPT ![l] = [stage |-> "read", left |-> ListFilter(dir \cup SubDir)]]
  /\ UNCHANGED <<dirVars, reading, rules, filterVars, quit, undefined>>

\* rules_load_ls, with conf_load, which returns at once when the file is gone.
RulesLoadLs(l) ==
  /\ listing[l].stage = "read"
  /\ \E r \in listing[l].left :
       /\ listing' = [listing EXCEPT ![l].left = @ \ {r}]
       /\ reading' = reading \cup [load : {l}, file : {r} \cap dir]
  /\ UNCHANGED <<dirVars, rules, filterVars, quit, undefined>>

RulesLoadLsDone(l) ==
  /\ listing[l].stage = "read" /\ listing[l].left = {}
  /\ IF DoneUsesFreed THEN UseAfterFree
     ELSE /\ listing' = [listing EXCEPT ![l].stage = "over"]
          /\ FilterLoadDone
          /\ UNCHANGED <<dirVars, reading, rules, quit, undefined>>

\* filter_load_error: any failure but that of a regex ends the main loop.
RulesLoadLsError(l) ==
  /\ "listing" \in Faults /\ listing[l].stage = "asked"
  /\ listing' = [listing EXCEPT ![l].stage = "over"]
  /\ quit' = TRUE
  /\ UNCHANGED <<dirVars, reading, rules, filterVars, undefined>>

(***************************************************************************)
(* What comes of a Rule_Load: rules_load_rule, or rules_load_rule_error.   *)
(***************************************************************************)
DropRule(rule) ==
  /\ rule.file \in Broken
  /\ reading' = reading \ {rule}
  /\ UNCHANGED <<dirVars, listing, rules, filterVars, quit, undefined>>

RulesLoadRule(rule) ==
  /\ rule.file \notin Broken
  /\ IF \E f \in Glob[rule.file] : FindUsesFreed(f) THEN UseAfterFree
     ELSE /\ reading' = reading \ {rule}
          /\ FilterLoad(rule)
          /\ rules' = rules \cup {rule}
          /\ UNCHANGED <<dirVars, listing, quit, undefined>>

RulesLoadRuleError(rule) ==
  /\ "mmap" \in Faults
  /\ reading' = reading \ {rule}
  /\ quit' = TRUE
  /\ UNCHANGED <<dirVars, listing, rules, filterVars, undefined>>

(***************************************************************************)
(* filter_reload, on SIGUSR1.                                              *)
(***************************************************************************)
\* Mutant: the hash of rules is not emptied.
Emptying_Not(n) == [filter[n] EXCEPT !.pause = TRUE]

Emptying(n) == [filter[n] EXCEPT !.pause = TRUE, !.rules = {}]

FilterReload ==
  /\ Len(listing) < MaxLoads
  /\ IF \E n \in Listed : ~Live(n) THEN UseAfterFree
     ELSE /\ filter' = [n \in DOMAIN filter |->
                          IF n \in Listed THEN Emptying(n) ELSE filter[n]]
          /\ rules' = {}
          /\ listing' = Append(listing, Asked)
          /\ UNCHANGED <<dirVars, reading, filters, quit, undefined>>

-----------------------------------------------------------------------------
Running == ~quit /\ ~undefined

Stopped == ~Running /\ UNCHANGED vars

\* Everything asked for was loaded: the main loop waits for a signal.
Idle ==
  /\ reading = {} /\ \A l \in DOMAIN listing : listing[l].stage = "over"
  /\ UNCHANGED vars

Listing(l) ==
  Running /\ (ReadDirectory(l) \/ RulesLoadLs(l) \/ RulesLoadLsDone(l))

Reading(rule) == Running /\ (DropRule(rule) \/ RulesLoadRule(rule))

Failure ==
  \/ \E l \in DOMAIN listing : RulesLoadLsError(l)
  \/ \E rule \in reading : RulesLoadRuleError(rule)

Next ==
  \/ \E l \in DOMAIN listing : Listing(l)
  \/ \E rule \in reading : Reading(rule)
  \/ Running /\ Failure
  \/ Running /\ \E r \in RuleFile : Edit(r)
  \/ Running /\ FilterReload
  \/ Stopped \/ Idle

Spec == Init /\ [][Next]_vars

(***************************************************************************)
(* The threads of Eio end, and the main loop runs their callbacks.         *)
(***************************************************************************)
Fairness ==
  /\ \A l \in 1..MaxLoads : WF_vars(l \in DOMAIN listing /\ Listing(l))
  /\ WF_vars(\E rule \in reading : Reading(rule))

FairSpec == Spec /\ Fairness

-----------------------------------------------------------------------------
Listings == [stage : {"asked", "read", "over"}, left : SUBSET RuleFile]
Filter == [file : LogFile, rules : SUBSET Rule, pause : BOOLEAN, live : BOOLEAN]

(***************************************************************************)
(* Every variable keeps its type; the list only names allocated filters.   *)
(***************************************************************************)
TypeOK ==
  /\ dir \subseteq RuleFile /\ edits \in Nat
  /\ listing \in Seq(Listings) /\ reading \subseteq Rule /\ rules \subseteq Rule
  /\ filter \in Seq(Filter) /\ filters \in Seq(DOMAIN filter)
  /\ quit \in BOOLEAN /\ undefined \in BOOLEAN

(***************************************************************************)
(* No log file is spied twice, so no line of it is stored twice, although  *)
(* filter_load_done may lose a filter that goes on spying: by then the     *)
(* list holds a freed filter, and no new filter comes after that.          *)
(***************************************************************************)
OneSpy ==
  \A m, n \in DOMAIN filter :
    Live(m) /\ Live(n) /\ filter[m].file = filter[n].file => m = n

(***************************************************************************)
(* filter_reload pauses the files, filter_load_done resumes them: whatever *)
(* reloads overlap, a file is paused only as long as a listing goes on.    *)
(***************************************************************************)
PausedOnlyWhileListing ==
  \A n \in DOMAIN filter :
    Live(n) /\ filter[n].pause =>
      quit \/ \E l \in DOMAIN listing : listing[l].stage # "over"

(***************************************************************************)
(* rules_purge frees the rules and filter_reload forgets them at the same  *)
(* time: a line of a spied file is never matched with a Rule that was      *)
(* freed, whatever Rule_Loads of an earlier reload come in later, and even *)
(* if filter_load_done has lost the filter of that file.                   *)
(***************************************************************************)
RulesAlive ==
  \A n \in DOMAIN filter : Live(n) => filter[n].rules \subseteq rules

(***************************************************************************)
(* A loaded rule is in force at once on every file it names and smman may  *)
(* read: some Filter of that file that is still spying holds it, even if   *)
(* filter_load_done has freed or lost others since.                        *)
(***************************************************************************)
RulesReach ==
  \A rule \in rules : \A f \in Glob[rule.file] \ Unreadable :
    \E n \in DOMAIN filter :
      Live(n) /\ filter[n].file = f /\ rule \in filter[n].rules

(***************************************************************************)
(* A rule that stays in the directory ends up, after the last reload, in   *)
(* a filter of each file it names, and that file is not paused.            *)
(***************************************************************************)
Applied(r, f) ==
  \E n \in DOMAIN filter :
    /\ Live(n) /\ filter[n].file = f /\ ~filter[n].pause
    /\ [load |-> Len(listing), file |-> r] \in filter[n].rules

RulesArrive ==
  \A r \in RuleFile \ Broken :
    [](r \in dir) =>
      <>[](quit \/ undefined \/ \A f \in Glob[r] \ Unreadable : Applied(r, f))

(***************************************************************************)
(* "This function will also remove the Spy_File from the Spy list"         *)
(* (spy_file_free): no freed Spy_File is left in the list.                 *)
(***************************************************************************)
FreedLeavesList == \A n \in Listed : Live(n)
=============================================================================

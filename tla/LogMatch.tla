------------------------------ MODULE LogMatch ------------------------------
(***************************************************************************)
(* From a rule file to the fate of a line: rules_load_rule (rules_load.c)  *)
(* makes a Rule of the variables of a file, in the order of a hash;        *)
(* log_line_event (log.c) takes the rules of the line's filter, in the     *)
(* order of another hash, and deletes or sends the line.  All of it runs   *)
(* in the main loop: no rule arrives while a line is matched.              *)
(*                                                                         *)
(* A rule file is given by the values each variable has in it: the last    *)
(* one read wins, and the hash decides which is the last.  Several tags of *)
(* a list, and equal tags of several rules, are a set here.                *)
(***************************************************************************)
CONSTANTS Rule, File, Regex, Broken, Result, NoMatch, Tag, Host, Path, CfgHost, FileName,
          Null      \* a member of a Rule that was not given

\* A file, by the values it gives each variable that rules_load_rule knows.
RuleFile ==
  [message : SUBSET Regex, message_unmatch : SUBSET Regex, tags : SUBSET Tag,
   source_host : SUBSET Host, source_path : SUBSET Path, delete : SUBSET BOOLEAN]

ASSUME MatchAssumption ==
  /\ Broken \subseteq Regex /\ {0, NoMatch} \subseteq Result /\ NoMatch # 0
  /\ File \subseteq RuleFile /\ Null \notin Host \cup Path

VARIABLES conf,    \* the rule files, read and parsed
          unread,  \* the rule files whose conf_load has not ended
          rules,   \* filter->rules
          line,    \* what regexec returns for the line
          todo,    \* the rules the iterator of log_line_event has still to give
          log,     \* the Log of the line
          busy,    \* log_line_event runs
          sent     \* what _log_send gave to store_add for the last line

vars == <<conf, unread, rules, line, todo, log, busy, sent>>

\* A Rule_Regex: the expression, and the result of regexec that excludes.
RuleRegex == Regex \X {0, NoMatch}

RuleSpec == [regex : SUBSET RuleRegex, tags : SUBSET Tag, todel : BOOLEAN,
             source_host : Host \cup {Null}, source_path : Path \cup {Null}]

Document == [source_host : Host \cup {CfgHost}, source_path : Path \cup {FileName},
             tags : SUBSET Tag]

NewLog == [source_host |-> CfgHost, source_path |-> FileName, tags |-> {}, todel |-> FALSE]

Init ==
  /\ conf \in [Rule -> File] /\ line = [x \in Regex \ Broken |-> NoMatch]
  /\ unread = Rule /\ rules = <<>>
  /\ todo = {} /\ log = NewLog /\ busy = FALSE /\ sent = {}

-----------------------------------------------------------------------------
(***************************************************************************)
(* rules_load_rule                                                         *)
(***************************************************************************)
OneOf(given, default) == IF given = {} THEN {default} ELSE given

\* The Rules that a file may become.
Built(c) ==
  [regex : {(c.message \X {NoMatch}) \cup (c.message_unmatch \X {0})},
   tags : {c.tags}, todel : OneOf(c.delete, FALSE),
   source_host : OneOf(c.source_host, Null), source_path : OneOf(c.source_path, Null)]

Compiles(c) == (c.message \cup c.message_unmatch) \cap Broken = {}

LoadRule(r) ==
  /\ ~busy /\ r \in unread /\ Compiles(conf[r])
  /\ unread' = unread \ {r}
  /\ \E rule \in Built(conf[r]) :
       rules' = [q \in DOMAIN rules \cup {r} |-> IF q = r THEN rule ELSE rules[q]]
  /\ UNCHANGED <<conf, line, todo, log, busy, sent>>

DropRule(r) ==                             \* regcomp fails: rules_rule_free
  /\ ~busy /\ r \in unread /\ ~Compiles(conf[r])
  /\ unread' = unread \ {r}
  /\ UNCHANGED <<conf, rules, line, todo, log, busy, sent>>

-----------------------------------------------------------------------------
(***************************************************************************)
(* log_line_event, one action for an iteration of its loop                 *)
(***************************************************************************)
LineEvent ==
  /\ ~busy /\ busy' = TRUE
  /\ line' \in [Regex \ Broken -> Result]
  /\ log' = NewLog /\ todo' = DOMAIN rules
  /\ UNCHANGED <<conf, unread, rules, sent>>

LineMatch(rule) == \A x \in rule.regex : line[x[1]] # x[2]    \* _log_line_match

\* Mutant: what a rule does not give is not tested for NULL.
Over_Unchecked(value, old) == value

Over(value, old) == IF value = Null THEN old ELSE value

\* Mutant: the tags of the rules before are lost.
Marked_TagsReplaced(rule) ==
  [log EXCEPT !.source_host = Over(rule.source_host, @),
              !.source_path = Over(rule.source_path, @),
              !.tags = rule.tags]

Marked(rule) ==
  [log EXCEPT !.source_host = Over(rule.source_host, @),
              !.source_path = Over(rule.source_path, @),
              !.tags = @ \cup rule.tags]

ApplyRule(r) ==
  /\ busy /\ r \in todo
  /\ \/ /\ ~LineMatch(rules[r])
        /\ todo' = todo \ {r} /\ UNCHANGED log
     \/ /\ LineMatch(rules[r]) /\ rules[r].todel
        /\ todo' = {} /\ log' = [log EXCEPT !.todel = TRUE]
     \/ /\ LineMatch(rules[r]) /\ ~rules[r].todel
        /\ todo' = todo \ {r} /\ log' = Marked(rules[r])
  /\ UNCHANGED <<conf, unread, rules, line, busy, sent>>

LogEnd ==                                  \* _log_send, _log_free
  /\ busy /\ todo = {}
  /\ busy' = FALSE
  /\ sent' = IF log.todel THEN {}
             ELSE {[source_host |-> log.source_host, source_path |-> log.source_path,
                    tags |-> log.tags]}
  /\ log' = NewLog
  /\ UNCHANGED <<conf, unread, rules, line, todo>>

Next ==
  \/ LineEvent \/ LogEnd
  \/ \E r \in Rule : LoadRule(r) \/ DropRule(r) \/ ApplyRule(r)

Spec == Init /\ [][Next]_vars

-----------------------------------------------------------------------------
(***************************************************************************)
(* Every variable keeps its type, and the iterator gives rules that exist. *)
(***************************************************************************)
TypeOK ==
  /\ conf \in [Rule -> File] /\ line \in [Regex \ Broken -> Result]
  /\ unread \subseteq Rule /\ DOMAIN rules \subseteq Rule \ unread
  /\ \A r \in DOMAIN rules : rules[r] \in RuleSpec
  /\ todo \subseteq DOMAIN rules /\ busy \in BOOLEAN
  /\ log \in [source_host : Host \cup {CfgHost}, source_path : Path \cup {FileName},
              tags : SUBSET Tag, todel : BOOLEAN]
  /\ \A d \in sent : d \in Document

Verdict == INSTANCE LogVerdict WITH loaded <- DOMAIN rules

(***************************************************************************)
(* Whatever the order of the two hashes and of the arrival of rules, a     *)
(* line is deleted or sent, and marked, as the rule files say that have    *)
(* arrived: the break of the loop and its overwriting lose nothing.        *)
(***************************************************************************)
AsTheRulesSay == Verdict!Spec
=============================================================================

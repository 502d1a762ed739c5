----------------------------- MODULE LogVerdict -----------------------------
(***************************************************************************)
(* What smman promises of a line that was logged in one file, in terms of  *)
(* the rule files an administrator writes: which lines are deleted, and    *)
(* with which tags, host and path the others are sent.  LogMatch, the      *)
(* loops of rules_load.c and log.c, implements it.                         *)
(***************************************************************************)
CONSTANTS Rule,     \* the rules about the log file
          File,     \* the rule files there may be: the values of each variable
          Regex,    \* the regular expressions in them
          Broken,   \* those regcomp refuses
          Result,   \* what regexec returns: 0, REG_NOMATCH or an error
          NoMatch,  \* REG_NOMATCH
          Tag, Host, Path,
          CfgHost,  \* "host" of the configuration
          FileName  \* the path of the log file

VARIABLES conf,     \* the file of each rule
          loaded,   \* the rules that have arrived
          line,     \* how the regular expressions match the line
          busy,     \* the line is being decided
          sent      \* the document the last line became, if any

vars == <<conf, loaded, line, busy, sent>>

Usable(r) == (conf[r].message \cup conf[r].message_unmatch) \cap Broken = {}

\* The rules about this line: all their conditions hold.
About ==
  {r \in loaded : /\ \A x \in conf[r].message : line[x] # NoMatch
                  /\ \A x \in conf[r].message_unmatch : line[x] # 0}

\* One of the given values, or the default if there is none.
OneOf(given, default) == IF given = {} THEN {default} ELSE given

(***************************************************************************)
(* A rule may delete if it says so, and has to if it says nothing else.    *)
(***************************************************************************)
MayDelete == \E r \in About : TRUE \in conf[r].delete
MaySend   == \A r \in About : conf[r].delete # {TRUE}

Documents ==
  [source_host : OneOf(UNION {conf[r].source_host : r \in About}, CfgHost),
   source_path : OneOf(UNION {conf[r].source_path : r \in About}, FileName),
   tags : {UNION {conf[r].tags : r \in About}}]

Init ==
  /\ conf \in [Rule -> File] /\ line = [x \in Regex \ Broken |-> NoMatch]
  /\ loaded = {} /\ busy = FALSE /\ sent = {}

Load(r) ==
  /\ ~busy /\ Usable(r)
  /\ loaded' = loaded \cup {r}
  /\ UNCHANGED <<conf, line, busy, sent>>

Line ==
  /\ ~busy /\ busy' = TRUE
  /\ line' \in [Regex \ Broken -> Result]
  /\ UNCHANGED <<conf, loaded, sent>>

Decide ==
  /\ busy /\ busy' = FALSE
  /\ \/ MayDelete /\ sent' = {}
     \/ MaySend /\ \E d \in Documents : sent' = {d}
  /\ UNCHANGED <<conf, loaded, line>>

Next == Line \/ Decide \/ \E r \in Rule : Load(r)

Spec == Init /\ [][Next]_vars
=============================================================================
